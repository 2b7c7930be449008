-------------------------- MODULE RequestMemoProofs --------------------------
(***************************************************************************)
(* Safety of RequestMemo for every set of tasks, questions and decisions.  *)
(***************************************************************************)
EXTENDS RequestMemo, SequenceTheorems, TLAPS

\* The plain types of the state.
Types ==
  /\ cell \in [Questions -> Decisions \cup {None}]
  /\ holder \in [Questions -> Tasks \cup {None}]
  /\ waiting \in [Questions -> Seq(Tasks)]
  /\ task \in [Tasks -> TaskRecords]
  /\ billed \in [Questions -> Nat] /\ asks \in 0..MaxAsks

\* The permit of an undecided question is with a task that waits or calls.
PermitOK(q) ==
  holder[q] # None => cell[q] = None /\ (Queued(holder[q], q) \/ Calling(holder[q], q))

\* A question has cost an RPC if it is decided or if the permit's holder calls.
BillOK(q) ==
  billed[q] = IF cell[q] # None \/ (holder[q] # None /\ Calling(holder[q], q)) THEN 1 ELSE 0

\* A task in a call has a question, and calls only with its permit.
TaskOK(t) ==
  /\ InCall(t) => task[t].question \in Questions
  /\ task[t].pc = "calling" => holder[task[t].question] = t

QuestionOK(q) == QueueOK(q) /\ PermitOK(q) /\ BillOK(q)

MemoInv ==
  /\ Types
  /\ \A q \in Questions : QuestionOK(q)
  /\ \A t \in Tasks : TaskOK(t)

\* What a queue holds: tasks that wait, each once.
LEMMA QueueFacts ==
  ASSUME NEW q \in Questions, QuestionOK(q), NEW w \in Seq(Tasks), w = waiting[q]
  PROVE  /\ \A i \in DOMAIN w : w[i] \in Tasks /\ Queued(w[i], q) /\ w[i] # holder[q]
         /\ \A i, j \in DOMAIN w : w[i] = w[j] => i = j
<1>1. \A i \in DOMAIN w : w[i] \in Tasks
  BY LenProperties
<1>2. QED
  BY <1>1 DEF QuestionOK, QueueOK

\* A step of a task leaves alone every question the task neither queues for
\* nor calls about, and whose cell, permit, queue and bill do not change.
LEMMA OtherQuestion ==
  ASSUME MemoInv, NEW t \in Tasks, NEW p \in Questions, ~Queued(t, p), ~Calling(t, p),
         \A u \in Tasks \ {t} : task'[u] = task[u],
         cell'[p] = cell[p], holder'[p] = holder[p],
         waiting'[p] = waiting[p], billed'[p] = billed[p]
  PROVE  QuestionOK(p)'
<1>1. /\ \A i \in DOMAIN waiting[p] : waiting[p][i] \in Tasks
      /\ holder[p] \in Tasks \cup {None}
  BY ElementOfSeq DEF MemoInv, Types
<1>2. QueueOK(p)'
  <2>1. ASSUME NEW i \in DOMAIN waiting[p]
        PROVE  Queued(waiting[p][i], p)' /\ waiting[p][i] # holder[p]
    <3>1. waiting[p][i] # t /\ Queued(waiting[p][i], p) /\ waiting[p][i] # holder[p]
      BY DEF MemoInv, QuestionOK, QueueOK
    <3>2. waiting[p][i] \in Tasks \ {t}
      BY <1>1, <3>1
    <3>3. QED
      BY <3>1, <3>2 DEF Queued
  <2>2. QED
    BY <2>1 DEF MemoInv, QuestionOK, QueueOK, Queued
<1>3. holder[p] # None => /\ Queued(holder[p], p)' <=> Queued(holder[p], p)
                          /\ Calling(holder[p], p)' <=> Calling(holder[p], p)
  <2>1. holder[p] # t
    BY NoneAssumption DEF MemoInv, QuestionOK, PermitOK
  <2>2. QED
    BY <1>1, <2>1 DEF Queued, Calling
<1>4. PermitOK(p)'
  BY <1>3 DEF MemoInv, QuestionOK, PermitOK, Queued, Calling
<1>5. BillOK(p)'
  BY <1>3 DEF MemoInv, QuestionOK, BillOK, Queued, Calling
<1>6. QED
  BY <1>2, <1>4, <1>5 DEF QuestionOK

\* The other tasks keep their permits when the one that changes hands was
\* free or with t.
LEMMA OtherTasks ==
  ASSUME MemoInv, NEW t \in Tasks,
         \A u \in Tasks \ {t} : task'[u] = task[u],
         \A p \in Questions : holder'[p] = holder[p] \/ holder[p] \in {None, t}
  PROVE  \A u \in Tasks \ {t} : TaskOK(u)'
<1>1. ASSUME NEW u \in Tasks \ {t}
      PROVE  TaskOK(u)'
  <2>1. TaskOK(u) /\ task'[u] = task[u] /\ u # None /\ u # t
    BY NoneAssumption DEF MemoInv
  <2>2. task[u].pc = "calling" => /\ task[u].question \in Questions
                                  /\ holder[task[u].question] = u
    BY <2>1 DEF TaskOK, InCall
  <2>3. task[u].pc = "calling" => holder'[task[u].question] = u
    BY <2>1, <2>2
  <2>4. QED
    BY <2>1, <2>3 DEF TaskOK, InCall
<1>2. QED
  BY <1>1

\* Where a task in a call stands.
LEMMA InCallFacts ==
  ASSUME MemoInv, NEW t \in Tasks, InCall(t)
  PROVE  /\ task[t].question \in Questions
         /\ task[t] \in TaskRecords
         /\ QuestionOK(task[t].question)
         /\ \A p \in Questions \ {task[t].question} : ~Queued(t, p) /\ ~Calling(t, p)
BY DEF MemoInv, Types, TaskOK, Queued, Calling

\* Steps of a task that neither queues nor calls, before or after.
LEMMA ApartInv ==
  ASSUME MemoInv, NEW t \in Tasks, task[t].pc \notin {"queued", "calling"},
         NEW r \in TaskRecords, r.pc # "calling", r.pc \notin {"idle", "done"} => r.question \in Questions,
         task' = [task EXCEPT ![t] = r], asks' \in 0..MaxAsks,
         UNCHANGED <<cell, holder, waiting, billed>>
  PROVE  MemoInv'
<1>1. /\ \A u \in Tasks \ {t} : task'[u] = task[u]
      /\ task'[t] = r
  BY DEF MemoInv, Types
<1>2. \A p \in Questions : QuestionOK(p)'
  <2>1. ASSUME NEW p \in Questions
        PROVE  QuestionOK(p)'
    <3>1. ~Queued(t, p) /\ ~Calling(t, p)
      BY DEF Queued, Calling
    <3>2. QED
      BY <1>1, <3>1, OtherQuestion
  <2>2. QED
    BY <2>1
<1>3. TaskOK(t)'
  BY <1>1 DEF TaskOK, InCall
<1>4. \A u \in Tasks \ {t} : TaskOK(u)'
  BY <1>1, OtherTasks
<1>5. Types'
  BY DEF MemoInv, Types
<1>6. QED
  BY <1>2, <1>3, <1>4, <1>5 DEF MemoInv

LEMMA AskInv ==
  ASSUME MemoInv, NEW t \in Tasks, NEW q \in Questions, Ask(t, q)
  PROVE  MemoInv'
<1>1. NewTask(q) \in TaskRecords /\ NewTask(q).pc = "asked" /\ NewTask(q).question = q
  BY DEF NewTask, TaskRecords
<1>2. asks' \in 0..MaxAsks
  BY BoundAssumption DEF Ask, MemoInv, Types
<1> DEFINE r == NewTask(q)
<1>3. task' = [task EXCEPT ![t] = r] /\ task[t].pc \notin {"queued", "calling"}
  BY DEF Ask, InCall
<1> HIDE DEF r
<1>4. r \in TaskRecords /\ r.pc = "asked" /\ r.question = q
  BY <1>1 DEF r
<1>5. QED
  BY <1>2, <1>3, <1>4, ApartInv DEF Ask

LEMMA ReportInv ==
  ASSUME MemoInv, NEW t \in Tasks, Report(t)
  PROVE  MemoInv'
<1> DEFINE b == cell[task[t].question] # None
           r == [task[t] EXCEPT !.pc = "reported", !.hit = b]
<1>1. task[t] \in TaskRecords /\ task[t].question \in Questions
  BY InCallFacts DEF Report, InCall
<1>2. task' = [task EXCEPT ![t] = r]
  BY DEF Report, MemoInv, Types
<1>3. b \in BOOLEAN
  OBVIOUS
<1> HIDE DEF b
<1>4. r \in TaskRecords /\ r.pc = "reported" /\ r.question = task[t].question
  BY <1>1, <1>3 DEF TaskRecords
<1>5. asks' \in 0..MaxAsks
  BY DEF Report, MemoInv, Types
<1> HIDE DEF r
<1>6. QED
  BY <1>1, <1>2, <1>4, <1>5, ApartInv DEF Report

\* The record of a task that is told its question's decision.
LEMMA ToldFacts ==
  ASSUME NEW t \in Tasks, task[t] \in TaskRecords,
         cell'[task[t].question] \in Decisions \cup {None}
  PROVE  Told(t) \in TaskRecords /\ Told(t).pc = "done"
BY DEF Told, TaskRecords

LEMMA JoinDecidedInv ==
  ASSUME MemoInv, NEW t \in Tasks, JoinDecided(t)
  PROVE  MemoInv'
<1> DEFINE r == Told(t)
<1>1. task[t] \in TaskRecords /\ task[t].question \in Questions
  BY InCallFacts DEF JoinDecided, InCall
<1>2. cell'[task[t].question] \in Decisions \cup {None}
  BY <1>1 DEF JoinDecided, MemoInv, Types
<1>3. task' = [task EXCEPT ![t] = r]
  BY DEF JoinDecided
<1>4. r \in TaskRecords /\ r.pc = "done"
  BY <1>1, <1>2, ToldFacts
<1>5. asks' \in 0..MaxAsks
  BY DEF JoinDecided, MemoInv, Types
<1> HIDE DEF r
<1>6. QED
  BY <1>3, <1>4, <1>5, ApartInv DEF JoinDecided

\* A step of a task in a call, about its own question q: what is left to show
\* is that q and the task are still in order.
LEMMA OwnQuestion ==
  ASSUME MemoInv, NEW t \in Tasks, InCall(t), NEW q, q = task[t].question,
         Types', \A u \in Tasks \ {t} : task'[u] = task[u],
         \A p \in Questions \ {q} :
           /\ cell'[p] = cell[p] /\ holder'[p] = holder[p]
           /\ waiting'[p] = waiting[p] /\ billed'[p] = billed[p],
         holder'[q] = holder[q] \/ holder[q] \in {None, t},
         QuestionOK(q)', TaskOK(t)'
  PROVE  MemoInv'
<1>1. \A p \in Questions : QuestionOK(p)'
  <2>1. ASSUME NEW p \in Questions \ {q}
        PROVE  QuestionOK(p)'
    <3>1. ~Queued(t, p) /\ ~Calling(t, p)
      BY InCallFacts
    <3>2. QED
      BY <3>1, OtherQuestion
  <2>2. QED
    BY <2>1
<1>2. \A u \in Tasks \ {t} : TaskOK(u)'
  BY OtherTasks
<1>3. QED
  BY <1>1, <1>2 DEF MemoInv

\* A task whose question was decided while it queued leaves its call.
LEMMA ClosedInv ==
  ASSUME MemoInv, NEW t \in Tasks, task[t].pc = "queued", cell[task[t].question] # None,
         NEW r \in TaskRecords, r.pc \in {"idle", "done"}, task' = [task EXCEPT ![t] = r],
         UNCHANGED <<cell, holder, waiting, billed, asks>>
  PROVE  MemoInv'
<1>1. InCall(t)
  BY DEF InCall
<1>2. PICK q \in Questions : q = task[t].question /\ QuestionOK(q)
  BY <1>1, InCallFacts
<1>3. holder[q] = None /\ waiting[q] = <<>>
  BY <1>2 DEF QuestionOK, PermitOK, QueueOK
<1>4. QuestionOK(q)'
  BY <1>2, <1>3 DEF QuestionOK, QueueOK, PermitOK, BillOK
<1>5. task'[t] = r /\ \A u \in Tasks \ {t} : task'[u] = task[u]
  BY DEF MemoInv, Types
<1>6. TaskOK(t)'
  BY <1>5 DEF TaskOK, InCall
<1>7. Types'
  BY DEF MemoInv, Types
<1>8. QED
  BY <1>1, <1>2, <1>4, <1>5, <1>6, <1>7, OwnQuestion

LEMMA ServeInv ==
  ASSUME MemoInv, NEW t \in Tasks, Serve(t)
  PROVE  MemoInv'
<1> DEFINE r == Told(t)
<1>1. task[t] \in TaskRecords /\ task[t].question \in Questions
  BY InCallFacts DEF Serve, InCall
<1>2. cell'[task[t].question] \in Decisions \cup {None}
  BY <1>1 DEF Serve, MemoInv, Types
<1>3. task' = [task EXCEPT ![t] = r]
  BY DEF Serve
<1>4. r \in TaskRecords /\ r.pc = "done"
  BY <1>1, <1>2, ToldFacts
<1> HIDE DEF r
<1>5. QED
  BY <1>3, <1>4, ClosedInv DEF Serve

LEMMA CancelClosedInv ==
  ASSUME MemoInv, NEW t \in Tasks, CancelClosed(t)
  PROVE  MemoInv'
<1>1. IdleTask \in TaskRecords /\ IdleTask.pc = "idle"
  BY DEF IdleTask, TaskRecords
<1>2. QED
  BY <1>1, ClosedInv DEF CancelClosed

\* An RPC leaves: what changes of the task and of its question's bill.
LEMMA SendFacts ==
  ASSUME MemoInv, NEW t \in Tasks, InCall(t), NEW q \in Questions, q = task[t].question, Send(t)
  PROVE  /\ task' \in [Tasks -> TaskRecords]
         /\ task'[t].pc = "calling" /\ task'[t].question = q
         /\ \A u \in Tasks \ {t} : task'[u] = task[u]
         /\ billed' \in [Questions -> Nat]
         /\ billed'[q] = billed[q] + 1
         /\ \A p \in Questions \ {q} : billed'[p] = billed[p]
<1>1. PICK r \in TaskRecords : r.pc = "calling" /\ r.question = q /\ task' = [task EXCEPT ![t] = r]
  <2> DEFINE r == [task[t] EXCEPT !.pc = "calling"]
  <2>1. task[t] \in TaskRecords
    BY InCallFacts
  <2>2. r \in TaskRecords /\ r.pc = "calling" /\ r.question = q
    BY <2>1 DEF TaskRecords
  <2>3. task' = [task EXCEPT ![t] = r]
    BY DEF Send, MemoInv, Types
  <2> HIDE DEF r
  <2>4. QED
    BY <2>2, <2>3
<1>2. billed \in [Questions -> Nat] /\ billed' = [billed EXCEPT ![q] = billed[q] + 1]
  BY DEF Send, MemoInv, Types
<1>3. task \in [Tasks -> TaskRecords]
  BY DEF MemoInv, Types
<1>4. QED
  BY <1>1, <1>2, <1>3

LEMMA JoinFirstInv ==
  ASSUME MemoInv, NEW t \in Tasks, JoinFirst(t)
  PROVE  MemoInv'
<1>1. InCall(t)
  BY DEF JoinFirst, InCall
<1>2. PICK q \in Questions : q = task[t].question /\ QuestionOK(q)
  BY <1>1, InCallFacts
<1>3. /\ task' \in [Tasks -> TaskRecords]
      /\ task'[t].pc = "calling" /\ task'[t].question = q
      /\ \A u \in Tasks \ {t} : task'[u] = task[u]
      /\ billed' \in [Questions -> Nat]
      /\ billed'[q] = billed[q] + 1
      /\ \A p \in Questions \ {q} : billed'[p] = billed[p]
  BY <1>1, <1>2, SendFacts DEF JoinFirst
<1>4. cell[q] = None /\ holder[q] = None /\ holder' = [holder EXCEPT ![q] = t]
      /\ UNCHANGED <<cell, waiting, asks>>
  BY <1>2 DEF JoinFirst
<1>5. waiting[q] = <<>> /\ billed[q] = 0
  BY <1>2, <1>4 DEF QuestionOK, QueueOK, BillOK
<1>6. holder'[q] = t /\ t # None /\ \A p \in Questions \ {q} : holder'[p] = holder[p]
  BY <1>4, NoneAssumption DEF MemoInv, Types
<1>7. QuestionOK(q)'
  BY <1>3, <1>4, <1>5, <1>6 DEF QuestionOK, QueueOK, PermitOK, BillOK, Calling
<1>8. TaskOK(t)'
  BY <1>3, <1>6 DEF TaskOK
<1>9. Types'
  BY <1>3, <1>4 DEF MemoInv, Types
<1>10. QED
  BY <1>1, <1>2, <1>3, <1>4, <1>6, <1>7, <1>8, <1>9, OwnQuestion

LEMMA StartInv ==
  ASSUME MemoInv, NEW t \in Tasks, Start(t)
  PROVE  MemoInv'
<1>1. InCall(t)
  BY DEF Start, InCall
<1>2. PICK q \in Questions : q = task[t].question /\ QuestionOK(q)
  BY <1>1, InCallFacts
<1>3. /\ task' \in [Tasks -> TaskRecords]
      /\ task'[t].pc = "calling" /\ task'[t].question = q
      /\ \A u \in Tasks \ {t} : task'[u] = task[u]
      /\ billed' \in [Questions -> Nat]
      /\ billed'[q] = billed[q] + 1
      /\ \A p \in Questions \ {q} : billed'[p] = billed[p]
  BY <1>1, <1>2, SendFacts DEF Start
<1>4. /\ task[t].pc = "queued" /\ holder[q] = t /\ t # None
      /\ UNCHANGED <<cell, holder, waiting, asks>>
  BY <1>2, NoneAssumption DEF Start
<1>5. cell[q] = None /\ billed[q] = 0
  BY <1>2, <1>4 DEF QuestionOK, PermitOK, BillOK, Calling
<1>6. \A i \in DOMAIN waiting[q] :
        waiting[q][i] \in Tasks \ {t} /\ Queued(waiting[q][i], q)
  BY <1>2, <1>4, ElementOfSeq DEF QuestionOK, QueueOK, MemoInv, Types
<1>7. QueueOK(q)'
  BY <1>2, <1>3, <1>4, <1>6 DEF QuestionOK, QueueOK, Queued
<1>8. PermitOK(q)' /\ BillOK(q)'
  BY <1>3, <1>4, <1>5 DEF PermitOK, BillOK, Calling
<1>9. TaskOK(t)'
  BY <1>3, <1>4 DEF TaskOK
<1>10. Types'
  BY <1>3, <1>4 DEF MemoInv, Types
<1>11. QED
  BY <1>1, <1>2, <1>3, <1>4, <1>7, <1>8, <1>9, <1>10, OwnQuestion DEF QuestionOK

LEMMA JoinQueueInv ==
  ASSUME MemoInv, NEW t \in Tasks, JoinQueue(t)
  PROVE  MemoInv'
<1>1. InCall(t)
  BY DEF JoinQueue, InCall
<1>2. PICK q \in Questions : q = task[t].question /\ QuestionOK(q)
  BY <1>1, InCallFacts
<1>3. PICK r \in TaskRecords : r.pc = "queued" /\ r.question = q /\ task' = [task EXCEPT ![t] = r]
  <2> DEFINE r == [task[t] EXCEPT !.pc = "queued"]
  <2>1. task[t] \in TaskRecords
    BY <1>1, InCallFacts
  <2>2. r \in TaskRecords /\ r.pc = "queued" /\ r.question = q
    BY <1>2, <2>1 DEF TaskRecords
  <2>3. task' = [task EXCEPT ![t] = r]
    BY DEF JoinQueue, MemoInv, Types
  <2> HIDE DEF r
  <2>4. QED
    BY <2>2, <2>3
<1>4. /\ task[t].pc = "reported" /\ cell[q] = None /\ holder[q] # None
      /\ waiting' = [waiting EXCEPT ![q] = Append(waiting[q], t)]
      /\ UNCHANGED <<cell, holder, billed, asks>>
  BY <1>2 DEF JoinQueue
<1>5. /\ task \in [Tasks -> TaskRecords] /\ waiting \in [Questions -> Seq(Tasks)]
      /\ holder \in [Questions -> Tasks \cup {None}]
  BY DEF MemoInv, Types
<1>6. task'[t] = r /\ \A u \in Tasks \ {t} : task'[u] = task[u]
  BY <1>3, <1>5
<1>7. holder[q] \in Tasks \ {t}
  BY <1>2, <1>4, <1>5 DEF QuestionOK, PermitOK, Queued, Calling
<1> PICK w \in Seq(Tasks) : w = waiting[q]
  BY <1>5
<1> PICK v \in Seq(Tasks) : v = Append(w, t)
  <2> DEFINE v == Append(w, t)
  <2>1. v \in Seq(Tasks)
    BY AppendProperties
  <2> HIDE DEF v
  <2>2. \E x \in Seq(Tasks) : x = v
    BY <2>1
  <2>3. QED
    BY <2>2 DEF v
<1>8. /\ w = waiting[q] /\ waiting'[q] = v
      /\ DOMAIN w = 1..Len(w) /\ Len(w) \in Nat
      /\ DOMAIN v = 1..(Len(w) + 1)
      /\ \A i \in 1..Len(w) : v[i] = w[i]
      /\ v[Len(w) + 1] = t
  BY <1>4, <1>5, AppendProperties
<1>9. \A i \in 1..Len(w) : w[i] \in Tasks \ {t} /\ Queued(w[i], q) /\ w[i] # holder[q]
  <2>1. \A i \in DOMAIN w : w[i] \in Tasks /\ Queued(w[i], q) /\ w[i] # holder[q]
    BY <1>2, <1>8, QueueFacts
  <2>2. ~Queued(t, q)
    BY <1>4 DEF Queued
  <2>3. QED
    BY <1>8, <2>1, <2>2
<1>10. \A i, j \in 1..Len(w) : w[i] = w[j] => i = j
  <2>1. \A i, j \in DOMAIN w : w[i] = w[j] => i = j
    BY <1>2, <1>8, QueueFacts
  <2>2. QED
    BY <1>8, <2>1
<1>11. QueueOK(q)'
  <2>1. ASSUME NEW i \in 1..(Len(w) + 1)
        PROVE  Queued(v[i], q)' /\ v[i] # holder[q]
    <3>1. CASE i = Len(w) + 1
      BY <1>3, <1>6, <1>7, <1>8, <3>1 DEF Queued
    <3>2. CASE i \in 1..Len(w)
      BY <1>6, <1>8, <1>9, <3>2 DEF Queued
    <3>3. QED
      BY <1>8, <3>1, <3>2
  <2>2. ASSUME NEW i \in 1..(Len(w) + 1), NEW j \in 1..(Len(w) + 1), v[i] = v[j]
        PROVE  i = j
    BY <1>8, <1>9, <1>10, <2>2
  <2>3. QED
    BY <1>4, <1>8, <2>1, <2>2 DEF QueueOK
<1>12. PermitOK(q)' /\ BillOK(q)'
  BY <1>2, <1>4, <1>6, <1>7 DEF QuestionOK, PermitOK, BillOK, Queued, Calling
<1>13. TaskOK(t)'
  BY <1>2, <1>3, <1>6 DEF TaskOK
<1>14. Types'
  <2>1. waiting' \in [Questions -> Seq(Tasks)]
    BY <1>2, <1>4, <1>5
  <2>2. QED
    BY <1>3, <1>4, <1>5, <2>1 DEF MemoInv, Types
<1>15. \A p \in Questions \ {q} : waiting'[p] = waiting[p]
  BY <1>4, <1>5
<1>16. QED
  BY <1>1, <1>2, <1>4, <1>6, <1>11, <1>12, <1>13, <1>14, <1>15, OwnQuestion DEF QuestionOK

\* A task that calls has its question's permit, and its RPC is the one billed.
LEMMA CallingFacts ==
  ASSUME MemoInv, NEW t \in Tasks, task[t].pc = "calling", NEW q \in Questions, q = task[t].question
  PROVE  InCall(t) /\ holder[q] = t /\ cell[q] = None /\ billed[q] = 1
<1>1. InCall(t) /\ holder[q] = t /\ t # None /\ QuestionOK(q)
  BY NoneAssumption DEF MemoInv, TaskOK, InCall
<1>2. QED
  BY <1>1 DEF QuestionOK, PermitOK, BillOK, Calling

LEMMA SucceedInv ==
  ASSUME MemoInv, NEW t \in Tasks, NEW d \in Decisions, Succeed(t, d)
  PROVE  MemoInv'
<1>1. InCall(t) /\ task[t].pc = "calling"
  BY DEF Succeed, InCall
<1>2. PICK q \in Questions : q = task[t].question
  BY <1>1, InCallFacts
<1>3. holder[q] = t /\ billed[q] = 1 /\ d # None
  BY <1>1, <1>2, CallingFacts, NoneAssumption
<1>4. /\ cell' = [cell EXCEPT ![q] = d]
      /\ holder' = [holder EXCEPT ![q] = None]
      /\ waiting' = [waiting EXCEPT ![q] = <<>>]
      /\ task' = [task EXCEPT ![t] = Told(t)]
      /\ UNCHANGED <<billed, asks>>
  BY <1>2 DEF Succeed
<1>5. /\ cell \in [Questions -> Decisions \cup {None}]
      /\ holder \in [Questions -> Tasks \cup {None}]
      /\ waiting \in [Questions -> Seq(Tasks)]
      /\ task \in [Tasks -> TaskRecords]
  BY DEF MemoInv, Types
<1>6. cell'[q] = d /\ holder'[q] = None /\ waiting'[q] = <<>>
  BY <1>4, <1>5
<1>7. \A p \in Questions \ {q} :
        cell'[p] = cell[p] /\ holder'[p] = holder[p] /\ waiting'[p] = waiting[p]
  BY <1>4, <1>5
<1>8. PICK r \in TaskRecords : r.pc = "done" /\ task' = [task EXCEPT ![t] = r]
  <2>1. Told(t) \in TaskRecords /\ Told(t).pc = "done"
    BY <1>2, <1>5, <1>6, ToldFacts
  <2> DEFINE r == Told(t)
  <2>2. r \in TaskRecords /\ r.pc = "done" /\ task' = [task EXCEPT ![t] = r]
    BY <1>4, <2>1
  <2> HIDE DEF r
  <2>3. QED
    BY <2>2
<1>9. task'[t] = r /\ \A u \in Tasks \ {t} : task'[u] = task[u]
  BY <1>5, <1>8
<1>10. QuestionOK(q)'
  BY <1>3, <1>4, <1>6 DEF QuestionOK, QueueOK, PermitOK, BillOK
<1>11. TaskOK(t)'
  BY <1>8, <1>9 DEF TaskOK, InCall
<1>12. Types'
  <2>1. waiting' \in [Questions -> Seq(Tasks)]
    BY <1>4, <1>5, EmptySeq
  <2>2. QED
    BY <1>4, <1>5, <1>8, <2>1 DEF MemoInv, Types
<1>13. QED
  BY <1>1, <1>2, <1>3, <1>4, <1>7, <1>9, <1>10, <1>11, <1>12, OwnQuestion

\* The permit is given up by the task t that has it: to the head of the queue,
\* which is then no longer in the queue and whose RPC has not left.
LEMMA ReleaseInv ==
  ASSUME MemoInv, NEW t \in Tasks, InCall(t), NEW q \in Questions, q = task[t].question,
         holder[q] = t, Release(q), UNCHANGED <<cell, asks>>,
         NEW r \in TaskRecords, r.pc \in {"idle", "done"}, task' = [task EXCEPT ![t] = r],
         billed' \in [Questions -> Nat], billed'[q] = 0,
         \A p \in Questions \ {q} : billed'[p] = billed[p]
  PROVE  MemoInv'
<1>1. /\ holder \in [Questions -> Tasks \cup {None}]
      /\ waiting \in [Questions -> Seq(Tasks)]
      /\ task \in [Tasks -> TaskRecords]
  BY DEF MemoInv, Types
<1>2. task'[t] = r /\ \A u \in Tasks \ {t} : task'[u] = task[u]
  BY <1>1
<1>3. QuestionOK(q) /\ cell[q] = None /\ t # None
  BY NoneAssumption DEF MemoInv, QuestionOK, PermitOK
<1>4. TaskOK(t)'
  BY <1>2 DEF TaskOK, InCall
<1>5. CASE waiting[q] = <<>>
  <2>1. holder' = [holder EXCEPT ![q] = None] /\ UNCHANGED waiting
    BY <1>5 DEF Release
  <2>2. holder'[q] = None /\ \A p \in Questions \ {q} : holder'[p] = holder[p]
    BY <1>1, <2>1
  <2>3. QuestionOK(q)'
    BY <1>3, <1>5, <2>1, <2>2 DEF QuestionOK, QueueOK, PermitOK, BillOK
  <2>4. Types'
    BY <1>1, <2>1 DEF MemoInv, Types
  <2>5. QED
    BY <1>2, <1>4, <2>1, <2>2, <2>3, <2>4, OwnQuestion
<1>6. CASE waiting[q] # <<>>
  <2>1. PICK w \in Seq(Tasks) : w = waiting[q]
    BY <1>1
  <2>2. PICK h \in Tasks : h = Head(w) /\ h = w[1]
    BY <1>6, <2>1, HeadTailProperties, EmptySeq, ElementOfSeq
  <2>3. PICK v \in Seq(Tasks) : v = Tail(w)
    <3> DEFINE v == Tail(w)
    <3>1. v \in Seq(Tasks)
      BY <1>6, <2>1, HeadTailProperties
    <3> HIDE DEF v
    <3>2. \E x \in Seq(Tasks) : x = v
      BY <3>1
    <3>3. QED
      BY <3>2 DEF v
  <2>4. PICK n \in Nat :
          /\ DOMAIN w = 1..(n + 1) /\ DOMAIN v = 1..n
          /\ \A i \in 1..n : v[i] = w[i + 1]
    <3>1. Len(w) \in Nat /\ DOMAIN w = 1..Len(w) /\ DOMAIN v = 1..Len(v)
      BY LenProperties
    <3>2. Len(w) # 0 /\ Len(v) = Len(w) - 1 /\ \A i \in 1..(Len(w) - 1) : v[i] = w[i + 1]
      BY <1>6, <2>1, <2>3, HeadTailProperties, EmptySeq
    <3>3. Len(w) - 1 \in Nat /\ (Len(w) - 1) + 1 = Len(w)
      BY <3>1, <3>2
    <3>4. QED
      BY <3>1, <3>2, <3>3
  <2>5. /\ holder' = [holder EXCEPT ![q] = h]
        /\ waiting' = [waiting EXCEPT ![q] = v]
    BY <1>6, <2>1, <2>2, <2>3 DEF Release
  <2>6. /\ holder'[q] = h /\ waiting'[q] = v /\ h # None
        /\ \A p \in Questions \ {q} : holder'[p] = holder[p] /\ waiting'[p] = waiting[p]
    BY <1>1, <2>5, NoneAssumption
  <2>7. \A i \in 1..(n + 1) : w[i] \in Tasks \ {t} /\ Queued(w[i], q)
    <3>1. \A i \in DOMAIN w : w[i] \in Tasks /\ Queued(w[i], q) /\ w[i] # holder[q]
      BY <1>3, <2>1, QueueFacts
    <3>2. QED
      BY <1>3, <2>4, <3>1
  <2>8. \A i, j \in 1..(n + 1) : w[i] = w[j] => i = j
    <3>1. \A i, j \in DOMAIN w : w[i] = w[j] => i = j
      BY <1>3, <2>1, QueueFacts
    <3>2. QED
      BY <2>4, <3>1
  <2>9. Queued(h, q)' /\ h # t
    <3>1. 1 \in 1..(n + 1)
      OBVIOUS
    <3>2. QED
      BY <1>2, <2>2, <2>7, <3>1 DEF Queued
  <2>10. QueueOK(q)'
    <3>1. ASSUME NEW i \in 1..n
          PROVE  Queued(v[i], q)' /\ v[i] # h
      <4>1. v[i] = w[i + 1] /\ i + 1 \in 1..(n + 1) /\ 1 \in 1..(n + 1) /\ i + 1 # 1
        BY <2>4
      <4>2. QED
        BY <1>2, <2>2, <2>7, <2>8, <4>1 DEF Queued
    <3>2. ASSUME NEW i \in 1..n, NEW j \in 1..n, v[i] = v[j]
          PROVE  i = j
      BY <2>4, <2>8, <3>2
    <3>3. DOMAIN v = 1..n
      BY <2>4
    <3>4. QED
      BY <2>6, <3>1, <3>2, <3>3 DEF QueueOK
  <2>11. PermitOK(q)' /\ BillOK(q)'
    BY <1>3, <2>6, <2>9 DEF PermitOK, BillOK, Queued, Calling
  <2>12. Types'
    BY <1>1, <2>5 DEF MemoInv, Types
  <2>13. QED
    BY <1>2, <1>4, <2>6, <2>10, <2>11, <2>12, OwnQuestion DEF QuestionOK
<1>7. QED
  BY <1>5, <1>6

\* A task in a call whose RPC is abandoned or fails, once the permit is given up.
LEMMA GiveUpCallInv ==
  ASSUME MemoInv, NEW t \in Tasks, task[t].pc = "calling",
         Release(task[t].question), UNCHANGED <<cell, asks>>,
         NEW r \in TaskRecords, r.pc \in {"idle", "done"}, task' = [task EXCEPT ![t] = r],
         billed' = [billed EXCEPT ![task[t].question] = @ - 1]
  PROVE  MemoInv'
<1>1. InCall(t)
  BY DEF InCall
<1>2. PICK q \in Questions : q = task[t].question
  BY <1>1, InCallFacts
<1>3. holder[q] = t /\ billed[q] = 1
  BY <1>2, CallingFacts
<1>4. billed \in [Questions -> Nat] /\ billed' = [billed EXCEPT ![q] = billed[q] - 1]
  BY <1>2 DEF MemoInv, Types
<1>5. /\ billed' \in [Questions -> Nat] /\ billed'[q] = 0
      /\ \A p \in Questions \ {q} : billed'[p] = billed[p]
  BY <1>3, <1>4
<1>6. Release(q)
  BY <1>2
<1>7. QED
  BY <1>1, <1>2, <1>3, <1>5, <1>6, ReleaseInv

LEMMA IdleFacts == IdleTask \in TaskRecords /\ IdleTask.pc = "idle"
BY DEF IdleTask, TaskRecords

LEMMA FailInv ==
  ASSUME MemoInv, NEW t \in Tasks, Fail(t)
  PROVE  MemoInv'
<1> DEFINE r == [task[t] EXCEPT !.pc = "done"]
<1>1. task[t] \in TaskRecords
  BY DEF MemoInv, Types
<1>2. r \in TaskRecords /\ r.pc = "done"
  BY <1>1 DEF TaskRecords
<1>3. task' = [task EXCEPT ![t] = r]
  BY DEF Fail, MemoInv, Types
<1> HIDE DEF r
<1>4. QED
  BY <1>2, <1>3, GiveUpCallInv DEF Fail

LEMMA CancelCallingInv ==
  ASSUME MemoInv, NEW t \in Tasks, CancelCalling(t)
  PROVE  MemoInv'
BY IdleFacts, GiveUpCallInv DEF CancelCalling

LEMMA CancelGrantedInv ==
  ASSUME MemoInv, NEW t \in Tasks, CancelGranted(t)
  PROVE  MemoInv'
<1>1. InCall(t)
  BY DEF CancelGranted, InCall
<1>2. PICK q \in Questions : q = task[t].question /\ QuestionOK(q)
  BY <1>1, InCallFacts
<1>3. holder[q] = t /\ task[t].pc = "queued" /\ Release(q)
  BY <1>2 DEF CancelGranted
<1>4. billed[q] = 0
  BY <1>2, <1>3, NoneAssumption DEF QuestionOK, PermitOK, BillOK, Calling
<1>5. task' = [task EXCEPT ![t] = IdleTask] /\ UNCHANGED <<cell, billed, asks>>
  BY DEF CancelGranted
<1>6. billed \in [Questions -> Nat]
  BY DEF MemoInv, Types
<1>7. QED
  BY <1>1, <1>2, <1>3, <1>4, <1>5, <1>6, IdleFacts, ReleaseInv

\* A queue without its i-th task.
LEMMA RemoveAtFacts ==
  ASSUME NEW S, NEW w \in Seq(S), NEW i \in 1..Len(w)
  PROVE  /\ RemoveAt(w, i) \in Seq(S)
         /\ Len(RemoveAt(w, i)) = Len(w) - 1
         /\ \A j \in 1..(Len(w) - 1) :
              RemoveAt(w, i)[j] = IF j < i THEN w[j] ELSE w[j + 1]
<1> DEFINE a == SubSeq(w, 1, i - 1)
           b == SubSeq(w, i + 1, Len(w))
<1>1. Len(w) \in Nat /\ i \in Nat /\ i >= 1 /\ i <= Len(w) /\ \A j \in 1..Len(w) : w[j] \in S
  BY LenProperties
<1>2. /\ a \in Seq(S) /\ Len(a) = i - 1
      /\ \A j \in 1..(i - 1) : a[j] = w[j]
  <2>1. \A j \in 1..(i - 1) : w[j] \in S
    BY <1>1
  <2>2. 1 \in Int /\ i - 1 \in Int
    BY <1>1
  <2>3. /\ a \in Seq(S) /\ Len(a) = (IF 1 <= i - 1 THEN (i - 1) - 1 + 1 ELSE 0)
        /\ \A j \in 1..((i - 1) - 1 + 1) : a[j] = w[1 + j - 1]
    BY <2>1, <2>2, SubSeqProperties
  <2> HIDE DEF a
  <2>4. QED
    BY <1>1, <2>3
<1>3. /\ b \in Seq(S) /\ Len(b) = Len(w) - i
      /\ \A j \in 1..(Len(w) - i) : b[j] = w[i + j]
  <2>1. \A j \in (i + 1)..Len(w) : w[j] \in S
    BY <1>1
  <2>2. i + 1 \in Int /\ Len(w) \in Int
    BY <1>1
  <2>3. /\ b \in Seq(S) /\ Len(b) = (IF i + 1 <= Len(w) THEN Len(w) - (i + 1) + 1 ELSE 0)
        /\ \A j \in 1..(Len(w) - (i + 1) + 1) : b[j] = w[(i + 1) + j - 1]
    BY <2>1, <2>2, SubSeqProperties
  <2> HIDE DEF b
  <2>4. QED
    BY <1>1, <2>3
<1>4. RemoveAt(w, i) = a \o b
  BY DEF RemoveAt
<1> HIDE DEF a, b
<1>5. /\ a \o b \in Seq(S) /\ Len(a \o b) = Len(w) - 1
      /\ \A j \in 1..(Len(w) - 1) : (a \o b)[j] = IF j <= i - 1 THEN a[j] ELSE b[j - (i - 1)]
  <2>1. /\ a \o b \in Seq(S) /\ Len(a \o b) = Len(a) + Len(b)
        /\ \A j \in 1..(Len(a) + Len(b)) :
             (a \o b)[j] = IF j <= Len(a) THEN a[j] ELSE b[j - Len(a)]
    BY <1>2, <1>3, ConcatProperties
  <2>2. QED
    BY <1>1, <1>2, <1>3, <2>1
<1>6. ASSUME NEW j \in 1..(Len(w) - 1)
      PROVE  (a \o b)[j] = IF j < i THEN w[j] ELSE w[j + 1]
  <2>1. CASE j < i
    BY <1>1, <1>2, <1>5, <2>1
  <2>2. CASE j >= i
    <3>1. j - (i - 1) \in 1..(Len(w) - i) /\ i + (j - (i - 1)) = j + 1
      BY <1>1, <2>2
    <3>2. b[j - (i - 1)] = w[i + (j - (i - 1))]
      BY <1>3, <3>1
    <3>3. QED
      BY <1>1, <1>5, <2>2, <3>1, <3>2
  <2>3. j < i \/ j >= i
    BY <1>1
  <2>4. QED
    BY <2>1, <2>2, <2>3, Zenon
<1>7. QED
  BY <1>4, <1>5, <1>6

LEMMA CancelQueuedInv ==
  ASSUME MemoInv, NEW t \in Tasks, CancelQueued(t)
  PROVE  MemoInv'
<1>1. InCall(t)
  BY DEF CancelQueued, InCall
<1>2. PICK q \in Questions : q = task[t].question /\ QuestionOK(q)
  BY <1>1, InCallFacts
<1>3. /\ holder \in [Questions -> Tasks \cup {None}]
      /\ waiting \in [Questions -> Seq(Tasks)]
      /\ task \in [Tasks -> TaskRecords]
  BY DEF MemoInv, Types
<1>4. PICK r \in TaskRecords : r.pc = "idle" /\ task' = [task EXCEPT ![t] = r]
  BY IdleFacts DEF CancelQueued
<1>5. task'[t] = r /\ \A u \in Tasks \ {t} : task'[u] = task[u]
  BY <1>3, <1>4
<1>6. PICK w \in Seq(Tasks) : w = waiting[q]
  BY <1>3
<1>7. DOMAIN w = 1..Len(w) /\ Len(w) \in Nat
  BY LenProperties
<1>8. PICK i \in 1..Len(w) : w[i] = t /\ waiting' = [waiting EXCEPT ![q] = RemoveAt(w, i)]
  BY <1>2, <1>6, <1>7 DEF CancelQueued
<1>9. PICK v \in Seq(Tasks) : v = RemoveAt(w, i)
  <2> DEFINE v == RemoveAt(w, i)
  <2>1. v \in Seq(Tasks)
    BY RemoveAtFacts
  <2> HIDE DEF v
  <2>2. \E x \in Seq(Tasks) : x = v
    BY <2>1
  <2>3. QED
    BY <2>2 DEF v
<1>10. PICK n \in Nat :
         /\ DOMAIN w = 1..(n + 1) /\ DOMAIN v = 1..n /\ i \in 1..(n + 1)
         /\ \A j \in 1..n : v[j] = IF j < i THEN w[j] ELSE w[j + 1]
  <2>1. /\ Len(v) = Len(w) - 1 /\ Len(w) \in Nat /\ i \in 1..Len(w)
        /\ DOMAIN v = 1..Len(v)
        /\ \A j \in 1..(Len(w) - 1) : v[j] = IF j < i THEN w[j] ELSE w[j + 1]
    BY <1>7, <1>9, RemoveAtFacts, LenProperties
  <2>2. Len(w) - 1 \in Nat /\ (Len(w) - 1) + 1 = Len(w)
    BY <2>1
  <2>3. QED
    BY <1>7, <2>1, <2>2
<1>11. /\ waiting'[q] = v /\ UNCHANGED <<cell, holder, billed, asks>>
       /\ \A p \in Questions \ {q} : waiting'[p] = waiting[p]
  BY <1>3, <1>8, <1>9 DEF CancelQueued
<1>12. /\ \A j \in 1..(n + 1) : Queued(w[j], q) /\ w[j] # holder[q] /\ w[j] \in Tasks
       /\ \A j, k \in 1..(n + 1) : w[j] = w[k] => j = k
  <2>1. QuestionOK(q)
    BY <1>2
  <2>2. /\ \A j \in DOMAIN w : w[j] \in Tasks /\ Queued(w[j], q) /\ w[j] # holder[q]
        /\ \A j, k \in DOMAIN w : w[j] = w[k] => j = k
    BY <1>6, <2>1, QueueFacts
  <2>3. DOMAIN w = 1..(n + 1)
    BY <1>10
  <2>4. QED
    BY <2>2, <2>3
<1>13. \A j, k \in 1..(n + 1) : w[j] = w[k] => j = k
  BY <1>12
<1>14. \A j \in 1..n : \E k \in 1..(n + 1) \ {i} :
         v[j] = w[k] /\ k = IF j < i THEN j ELSE j + 1
  BY <1>10
<1>15. holder[q] \in Tasks \ {t}
  BY <1>2, <1>3, <1>6, <1>8, <1>10, <1>12, EmptySeq DEF QuestionOK, QueueOK
<1>16. QueueOK(q)'
  <2>1. ASSUME NEW j \in 1..n
        PROVE  Queued(v[j], q)' /\ v[j] # holder[q]
    <3>1. PICK k \in 1..(n + 1) \ {i} : v[j] = w[k]
      BY <1>14
    <3>2. w[k] \in Tasks \ {t} /\ Queued(w[k], q) /\ w[k] # holder[q]
      BY <1>8, <1>10, <1>12, <1>13, <3>1
    <3>3. QED
      BY <1>5, <3>1, <3>2 DEF Queued
  <2>2. ASSUME NEW j \in 1..n, NEW k \in 1..n, v[j] = v[k]
        PROVE  j = k
    BY <1>10, <1>13, <1>14, <2>2
  <2>3. holder'[q] = holder[q] /\ holder[q] # None /\ DOMAIN v = 1..n
    BY <1>10, <1>11, <1>15, NoneAssumption
  <2>4. QED
    BY <1>11, <2>1, <2>2, <2>3 DEF QueueOK
<1>17. PermitOK(q)' /\ BillOK(q)'
  BY <1>2, <1>5, <1>11, <1>15 DEF QuestionOK, PermitOK, BillOK, Queued, Calling
<1>18. TaskOK(t)'
  BY <1>4, <1>5 DEF TaskOK, InCall
<1>19. Types'
  <2>1. waiting' \in [Questions -> Seq(Tasks)]
    BY <1>3, <1>8, <1>9
  <2>2. QED
    BY <1>3, <1>4, <1>11, <2>1 DEF MemoInv, Types
<1>20. QED
  BY <1>1, <1>2, <1>5, <1>11, <1>16, <1>17, <1>18, <1>19, OwnQuestion DEF QuestionOK

LEMMA InitInv == Init => MemoInv
<1> SUFFICES ASSUME Init
             PROVE  MemoInv
  OBVIOUS
<1>1. \A t \in Tasks : task[t] = IdleTask
  BY DEF Init
<1>2. Types
  BY IdleFacts, EmptySeq, BoundAssumption DEF Init, Types
<1>3. \A q \in Questions : QuestionOK(q)
  BY DEF Init, QuestionOK, QueueOK, PermitOK, BillOK
<1>4. \A t \in Tasks : TaskOK(t)
  BY <1>1, IdleFacts DEF TaskOK, InCall
<1>5. QED
  BY <1>2, <1>3, <1>4 DEF MemoInv

LEMMA NextInv == MemoInv /\ [Next]_vars => MemoInv'
<1> SUFFICES ASSUME MemoInv, [Next]_vars
             PROVE  MemoInv'
  OBVIOUS
<1>1. ASSUME NEW t \in Tasks, NEW q \in Questions, Ask(t, q)
      PROVE  MemoInv'
  BY <1>1, AskInv
<1>2. ASSUME NEW t \in Tasks, Poll(t)
      PROVE  MemoInv'
  BY <1>2, ReportInv, JoinDecidedInv, JoinFirstInv, JoinQueueInv, StartInv, ServeInv DEF Poll
<1>3. ASSUME NEW t \in Tasks, Return(t)
      PROVE  MemoInv'
  BY <1>3, SucceedInv, FailInv DEF Return
<1>4. ASSUME NEW t \in Tasks,
             CancelCalling(t) \/ CancelGranted(t) \/ CancelQueued(t) \/ CancelClosed(t)
      PROVE  MemoInv'
  BY <1>4, CancelCallingInv, CancelGrantedInv, CancelQueuedInv, CancelClosedInv
<1>5. CASE UNCHANGED vars
  BY <1>5 DEF vars, MemoInv, Types, QuestionOK, QueueOK, PermitOK, BillOK, TaskOK,
              Queued, Calling, InCall
<1>6. QED
  BY <1>1, <1>2, <1>3, <1>4, <1>5 DEF Next

LEMMA Invariance == Spec => []MemoInv
BY InitInv, NextInv, PTL DEF Spec

\* The types of the memo's state and the order of its queues: a queue holds
\* tasks that wait for that question, each once.
THEOREM MemoTypes == Spec => []TypeOK
<1>1. MemoInv => TypeOK
  BY DEF MemoInv, Types, TypeOK, QuestionOK
<1>2. QED
  BY <1>1, Invariance, PTL

\* However many tasks ask a question at once, whichever of them fail or are
\* dropped, one RPC is paid for it: get_or_try_init in check and list.
THEOREM OneRpc == Spec => []OneRpcPerQuestion
<1>1. MemoInv => OneRpcPerQuestion
  BY DEF MemoInv, QuestionOK, BillOK, OneRpcPerQuestion
<1>2. QED
  BY <1>1, Invariance, PTL

------------------------------------------------------------------------------
\* What a step may do to the task t that takes it, whose record becomes r: it
\* asks, goes on, fails, is told a decision, or leaves.
Asks(t, r) ==
  /\ ~ InCall(t) /\ cell' = cell
  /\ r.pc = "asked" /\ r.hit = FALSE /\ r.question \in Questions /\ r.result = None
GoesOn(t, r) ==
  /\ InCall(t) /\ cell' = cell
  /\ r.question = task[t].question /\ r.result = task[t].result
  /\ \/ r.pc = "reported" /\ (r.hit => cell[r.question] # None)
     \/ /\ r.pc \in {"queued", "calling"} /\ r.hit = task[t].hit
        /\ task[t].pc = "queued" \/ (task[t].pc = "reported" /\ cell[r.question] = None)
Fails(t, r) ==
  /\ task[t].pc = "calling" /\ cell' = cell
  /\ r.pc = "done" /\ r.hit = task[t].hit
  /\ r.question = task[t].question /\ r.result = task[t].result
Hears(t, r) ==
  /\ InCall(t) /\ r.pc = "done" /\ r.question = task[t].question /\ r.result \in Decisions
  /\ cell[r.question] \in {None, r.result}
  /\ cell' = [cell EXCEPT ![r.question] = r.result]
Leaves(t, r) == InCall(t) /\ cell' = cell /\ r = IdleTask

Moves(t, r) ==
  /\ task' = [task EXCEPT ![t] = r]
  /\ Asks(t, r) \/ GoesOn(t, r) \/ Fails(t, r) \/ Hears(t, r) \/ Leaves(t, r)

LEMMA AskMoves ==
  ASSUME MemoInv, NEW t \in Tasks, NEW q \in Questions, Ask(t, q)
  PROVE  \E r \in TaskRecords : Moves(t, r)
<1> DEFINE r == NewTask(q)
<1>1. r \in TaskRecords /\ r.pc = "asked" /\ r.hit = FALSE /\ r.question = q /\ r.result = None
  BY DEF NewTask, TaskRecords
<1>2. task' = [task EXCEPT ![t] = r] /\ ~ InCall(t) /\ cell' = cell
  BY DEF Ask
<1> HIDE DEF r
<1>3. Moves(t, r)
  BY <1>1, <1>2 DEF Moves, Asks
<1>4. QED
  BY <1>1, <1>3

\* A task of a question that is decided is told the decision.
LEMMA ToldMoves ==
  ASSUME MemoInv, NEW t \in Tasks, InCall(t), NEW d \in Decisions,
         cell[task[t].question] \in {None, d},
         cell' = [cell EXCEPT ![task[t].question] = d], task' = [task EXCEPT ![t] = Told(t)]
  PROVE  \E r \in TaskRecords : Moves(t, r)
<1>1. task[t] \in TaskRecords /\ task[t].question \in Questions
  BY InCallFacts
<1>2. cell'[task[t].question] = d
  BY <1>1 DEF MemoInv, Types
<1> DEFINE r == [task[t] EXCEPT !.pc = "done", !.result = d]
<1>3. task' = [task EXCEPT ![t] = r]
  BY <1>2 DEF Told
<1>4. r \in TaskRecords /\ r.pc = "done" /\ r.question = task[t].question /\ r.result = d
  BY <1>1 DEF TaskRecords
<1> HIDE DEF r
<1>5. Moves(t, r)
  BY <1>3, <1>4 DEF Moves, Hears
<1>6. QED
  BY <1>4, <1>5

\* The value is there: nothing is decided anew.
LEMMA ServedMoves ==
  ASSUME MemoInv, NEW t \in Tasks, JoinDecided(t) \/ Serve(t)
  PROVE  \E r \in TaskRecords : Moves(t, r)
<1>1. InCall(t) /\ cell[task[t].question] # None /\ cell' = cell
      /\ task' = [task EXCEPT ![t] = Told(t)]
  BY DEF JoinDecided, Serve, InCall
<1>2. PICK q \in Questions : q = task[t].question
  BY <1>1, InCallFacts
<1>3. PICK d \in Decisions : d = cell[q]
  BY <1>1, <1>2 DEF MemoInv, Types
<1>4. cell' = [cell EXCEPT ![q] = d]
  BY <1>1, <1>3 DEF MemoInv, Types
<1>5. QED
  BY <1>1, <1>2, <1>3, <1>4, ToldMoves

\* Steps that only move the task's program counter.
LEMMA PcMoves ==
  ASSUME MemoInv, NEW t \in Tasks, NEW p \in {"queued", "calling", "done"},
         task' = [task EXCEPT ![t].pc = p], cell' = cell,
         \/ p = "done" /\ task[t].pc = "calling"
         \/ p # "done" /\ task[t].pc = "queued"
         \/ p # "done" /\ task[t].pc = "reported" /\ cell[task[t].question] = None
  PROVE  \E r \in TaskRecords : Moves(t, r)
<1>1. InCall(t)
  BY DEF InCall
<1>2. task[t] \in TaskRecords
  BY <1>1, InCallFacts
<1> DEFINE r == [task[t] EXCEPT !.pc = p]
<1>3. r \in TaskRecords /\ r.pc = p /\ r.question = task[t].question
      /\ r.result = task[t].result /\ r.hit = task[t].hit
  BY <1>2 DEF TaskRecords
<1>4. task' = [task EXCEPT ![t] = r]
  BY DEF MemoInv, Types
<1> HIDE DEF r
<1>5. Moves(t, r)
  BY <1>1, <1>3, <1>4 DEF Moves, GoesOn, Fails
<1>6. QED
  BY <1>3, <1>5

LEMMA ReportMoves ==
  ASSUME MemoInv, NEW t \in Tasks, Report(t)
  PROVE  \E r \in TaskRecords : Moves(t, r)
<1> DEFINE b == cell[task[t].question] # None
           r == [task[t] EXCEPT !.pc = "reported", !.hit = b]
<1>1. InCall(t) /\ cell' = cell
  BY DEF Report, InCall
<1>2. task[t] \in TaskRecords
  BY <1>1, InCallFacts
<1>3. b \in BOOLEAN /\ (b => cell[task[t].question] # None)
  OBVIOUS
<1>4. task' = [task EXCEPT ![t] = r]
  BY DEF Report, MemoInv, Types
<1> HIDE DEF b
<1>5. r \in TaskRecords /\ r.pc = "reported" /\ r.question = task[t].question
      /\ r.result = task[t].result /\ r.hit = b
  BY <1>2, <1>3 DEF TaskRecords
<1> HIDE DEF r
<1>6. Moves(t, r)
  BY <1>1, <1>3, <1>4, <1>5 DEF Moves, GoesOn
<1>7. QED
  BY <1>5, <1>6

LEMMA LeaveMoves ==
  ASSUME MemoInv, NEW t \in Tasks, InCall(t), task' = [task EXCEPT ![t] = IdleTask], cell' = cell
  PROVE  \E r \in TaskRecords : Moves(t, r)
<1>1. Moves(t, IdleTask)
  BY DEF Moves, Leaves
<1>2. QED
  BY <1>1, IdleFacts

LEMMA SucceedMoves ==
  ASSUME MemoInv, NEW t \in Tasks, NEW d \in Decisions, Succeed(t, d)
  PROVE  \E r \in TaskRecords : Moves(t, r)
<1>1. InCall(t) /\ task[t].pc = "calling"
  BY DEF Succeed, InCall
<1>2. PICK q \in Questions : q = task[t].question
  BY <1>1, InCallFacts
<1>3. holder[q] = t /\ t # None
  BY <1>1, <1>2, NoneAssumption DEF MemoInv, TaskOK
<1>4. cell[q] = None
  BY <1>3 DEF MemoInv, QuestionOK, PermitOK
<1>5. QED
  BY <1>1, <1>2, <1>4, ToldMoves DEF Succeed

LEMMA NextMoves ==
  ASSUME MemoInv, Next
  PROVE  \E t \in Tasks : \E r \in TaskRecords : Moves(t, r)
<1>1. ASSUME NEW t \in Tasks, Poll(t)
      PROVE  \E r \in TaskRecords : Moves(t, r)
  <2>1. CASE JoinFirst(t) \/ JoinQueue(t) \/ Start(t)
    BY <2>1, PcMoves DEF JoinFirst, JoinQueue, Start, Send
  <2>2. QED
    BY <1>1, <2>1, ReportMoves, ServedMoves DEF Poll
<1>2. ASSUME NEW t \in Tasks, Return(t)
      PROVE  \E r \in TaskRecords : Moves(t, r)
  <2>1. CASE Fail(t)
    BY <2>1, PcMoves DEF Fail
  <2>2. QED
    BY <1>2, <2>1, SucceedMoves DEF Return
<1>3. ASSUME NEW t \in Tasks,
             CancelCalling(t) \/ CancelGranted(t) \/ CancelQueued(t) \/ CancelClosed(t)
      PROVE  \E r \in TaskRecords : Moves(t, r)
  BY <1>3, LeaveMoves DEF CancelCalling, CancelGranted, CancelQueued, CancelClosed, InCall
<1>4. QED
  BY <1>1, <1>2, <1>3, AskMoves DEF Next

\* A hit was reported of a decided question, and ends in a decision; a task has
\* a result only when it is done.
HitOK(t) ==
  /\ task[t].hit => \/ task[t].pc = "reported" /\ cell[task[t].question] # None
                    \/ task[t].pc = "done" /\ task[t].result # None
  /\ task[t].pc # "done" => task[t].result = None

HitsInv == \A t \in Tasks : HitOK(t)

LEMMA HitsStep ==
  ASSUME MemoInv, HitsInv, Next
  PROVE  HitsInv'
<1>1. PICK t \in Tasks, r \in TaskRecords : Moves(t, r)
  BY NextMoves
<1>2. task'[t] = r /\ \A u \in Tasks \ {t} : task'[u] = task[u]
  BY <1>1 DEF Moves, MemoInv, Types
<1>3. \A q \in Questions : cell[q] # None => cell'[q] # None
  BY <1>1, NoneAssumption DEF Moves, Asks, GoesOn, Fails, Hears, Leaves, MemoInv, Types
<1>4. HitOK(t)'
  <2>1. HitOK(t)
    BY DEF HitsInv
  <2>2. CASE Asks(t, r) \/ Leaves(t, r)
    BY <1>2, <2>2 DEF Asks, Leaves, HitOK, IdleTask
  <2>3. CASE GoesOn(t, r) \/ Fails(t, r)
    BY <1>2, <2>1, <2>3 DEF GoesOn, Fails, HitOK, InCall
  <2>4. CASE Hears(t, r)
    BY <1>2, <2>4, NoneAssumption DEF Hears, HitOK
  <2>5. QED
    BY <1>1, <2>2, <2>3, <2>4 DEF Moves
<1>5. ASSUME NEW u \in Tasks \ {t}
      PROVE  HitOK(u)'
  <2>1. HitOK(u) /\ task'[u] = task[u]
    BY <1>2 DEF HitsInv
  <2>2. task[u].pc = "reported" => task[u].question \in Questions
    BY InCallFacts DEF InCall
  <2>3. QED
    BY <1>3, <2>1, <2>2 DEF HitOK
<1>6. QED
  BY <1>4, <1>5 DEF HitsInv

LEMMA HitsInvariance == Spec => []HitsInv
<1>1. Init => HitsInv
  BY DEF Init, HitsInv, HitOK, IdleTask
<1>2. MemoInv /\ HitsInv /\ [Next]_vars => HitsInv'
  <2>1. CASE UNCHANGED vars
    BY <2>1 DEF vars, HitsInv, HitOK
  <2>2. QED
    BY <2>1, HitsStep
<1>3. QED
  BY <1>1, <1>2, Invariance, PTL DEF Spec

\* A lookup that check or list reports to the observer as a hit is answered from
\* the cell: without an RPC, and never with a failure.
THEOREM ReportedHits == Spec => []HitsAreServed
<1>1. HitsInv => HitsAreServed
  BY DEF HitsInv, HitOK, HitsAreServed
<1>2. QED
  BY <1>1, HitsInvariance, PTL

\* Every step of the memo is one that MemoSpec promises, or none of its concern.
LEMMA NextKeepsPromise ==
  MemoInv /\ HitsInv /\ [Next]_vars => [Promise!Next]_Promise!vars
<1> DEFINE view == [t \in Tasks |-> View(task[t])]
<1> SUFFICES ASSUME MemoInv, HitsInv, Next
             PROVE  Promise!Next \/ UNCHANGED <<cell, view>>
  BY DEF vars, Promise!vars
<1>1. PICK t \in Tasks, r \in TaskRecords : Moves(t, r)
  BY NextMoves
<1>2. task'[t] = r /\ \A u \in Tasks \ {t} : task'[u] = task[u]
  BY <1>1 DEF Moves, MemoInv, Types
<1>3. view' = [view EXCEPT ![t] = View(r)]
  BY <1>2
<1>4. HitOK(t) /\ task[t] \in TaskRecords
  BY DEF HitsInv, MemoInv, Types
<1>5. view[t] = View(task[t]) /\ view \in [Tasks -> {View(task[u]) : u \in Tasks}]
  OBVIOUS
<1>6. InCall(t) => view[t].state = "asking" /\ view[t].question = task[t].question
                   /\ view[t].answer = None /\ task[t].question \in Questions
  BY <1>4, <1>5, InCallFacts DEF InCall, View, HitOK
<1>7. ~ InCall(t) => view[t].state # "asking"
  BY <1>4, <1>5 DEF InCall, View
<1>8. CASE Asks(t, r)
  <2>1. View(r) = [question |-> r.question, state |-> "asking", answer |-> None]
    BY <1>8 DEF Asks, View
  <2>2. Promise!Ask(t, r.question)
    <3> HIDE DEF view
    <3>1. QED
      BY <1>3, <1>7, <1>8, <2>1 DEF Asks, Promise!Ask, view
  <2>3. QED
    BY <1>8, <2>2 DEF Asks, Promise!Next
<1>9. CASE GoesOn(t, r)
  <2>1. View(r) = View(task[t])
    BY <1>9 DEF GoesOn, View, InCall
  <2>2. view' = view
    BY <1>3, <1>5, <2>1
  <2>3. QED
    BY <1>9, <2>2 DEF GoesOn
<1>10. CASE Fails(t, r)
  <2>1. InCall(t) /\ r.result = None
    BY <1>4, <1>10 DEF Fails, InCall, HitOK
  <2>2. View(r) = [question |-> r.question, state |-> "failed", answer |-> None]
    BY <1>10, <2>1 DEF Fails, View
  <2>3. View(task[t]) = [question |-> r.question, state |-> "asking", answer |-> None]
    BY <1>10, <2>1 DEF Fails, View
  <2>4. View(r) = [View(task[t]) EXCEPT !.state = "failed"]
    BY <2>2, <2>3
  <2>5. Promise!Fail(t)
    BY <1>3, <1>6, <1>10, <2>1, <2>4 DEF Fails, Promise!Fail
  <2>6. QED
    BY <2>5 DEF Promise!Next
<1>11. CASE Hears(t, r)
  <2>1. View(r) = [question |-> r.question, state |-> "told", answer |-> r.result]
    BY <1>11, NoneAssumption DEF Hears, View
  <2>2. r.question = view[t].question
    BY <1>6, <1>11 DEF Hears
  <2>3. Promise!Tell(t, r.result)
    <3> HIDE DEF view
    <3>1. QED
      BY <1>3, <1>6, <1>11, <2>1, <2>2 DEF Hears, Promise!Tell, view
  <2>4. QED
    BY <1>11, <2>3 DEF Hears, Promise!Next
<1>12. CASE Leaves(t, r)
  <2>1. View(r) = [question |-> None, state |-> "silent", answer |-> None]
    BY <1>12 DEF Leaves, IdleTask, View
  <2>2. Promise!Leave(t)
    BY <1>3, <1>6, <1>12, <2>1 DEF Leaves, Promise!Leave, Promise!Silent
  <2>3. QED
    BY <2>2 DEF Promise!Next
<1>13. QED
  BY <1>1, <1>8, <1>9, <1>10, <1>11, <1>12 DEF Moves

\* Within a request, a question has one decision, and every task that is told a
\* decision on it is told that one, whoever fails, is dropped or queues
\* (get_or_try_init over one cell per key).
THEOREM MemoKeepsPromise == Spec => KeepsPromise
<1>1. Init => Promise!Init
  BY DEF Init, Promise!Init, Promise!Silent, View, IdleTask
<1>2. QED
  BY <1>1, InitInv, NextInv, HitsInvariance, Invariance, NextKeepsPromise, PTL
  DEF Spec, KeepsPromise, Promise!Spec
==============================================================================
