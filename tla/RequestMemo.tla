----------------------------- MODULE RequestMemo -----------------------------
(***************************************************************************)
(* The request memo of memo.rs: one OnceCell per question, shared by the   *)
(* tasks of a request.  A question stands for the key of a check or of a   *)
(* list; the two maps work alike.                                          *)
(*                                                                         *)
(* tokio's OnceCell (external) gives one permit to initialize a cell: a    *)
(* task that finds it taken waits in a queue, a task that fails or is      *)
(* dropped hands it to the head of the queue, and a success closes the     *)
(* queue, so that everyone in it reads the value.  The timestamp and the   *)
(* observer are set when the memo is built, before the first question.     *)
(***************************************************************************)
EXTENDS Naturals, SequencesExt

CONSTANTS Tasks,       \* tasks of the request
          Questions,   \* keys of checks and lists
          Decisions,   \* successful results of the RPCs
          None,        \* absence
          MaxAsks      \* bound: lookups of one request

ASSUME BoundAssumption == MaxAsks \in Nat
ASSUME NoneAssumption == None \notin Tasks \cup Questions \cup Decisions

VARIABLES
  cell,     \* question -> its OnceCell: a decision or None
  holder,   \* question -> the task with the permit to initialize its cell
  waiting,  \* question -> the tasks queued for the permit
  task,     \* task -> [pc, question, hit, result]: its check() or list()
  billed,   \* question -> RPCs sent that neither failed nor were abandoned
  asks      \* the lookups of the request so far
vars == <<cell, holder, waiting, task, billed, asks>>

IdleTask == [pc |-> "idle", question |-> None, hit |-> FALSE, result |-> None]

Init ==
  /\ cell = [q \in Questions |-> None]
  /\ holder = [q \in Questions |-> None]
  /\ waiting = [q \in Questions |-> <<>>]
  /\ task = [t \in Tasks |-> IdleTask]
  /\ billed = [q \in Questions |-> 0]
  /\ asks = 0

InCall(t) == task[t].pc \notin {"idle", "done"}

NewTask(q) == [pc |-> "asked", question |-> q, hit |-> FALSE, result |-> None]

\* A task asks: it gets the cell of its question, made if there is none.
Ask(t, q) ==
  /\ ~InCall(t)
  /\ asks < MaxAsks
  /\ asks' = asks + 1
  /\ task' = [task EXCEPT ![t] = NewTask(q)]
  /\ UNCHANGED <<cell, holder, waiting, billed>>

\* Faulty variant: a cell that is being initialized is reported as a hit.
ReportStarted(t) ==
  LET q == task[t].question IN
  /\ task[t].pc = "asked"
  /\ task' = [task EXCEPT ![t].pc = "reported", ![t].hit = cell[q] # None \/ holder[q] # None]
  /\ UNCHANGED <<cell, holder, waiting, billed, asks>>

\* The observer hears whether the cell is initialized.
Report(t) ==
  /\ task[t].pc = "asked"
  /\ task' = [task EXCEPT ![t].pc = "reported", ![t].hit = cell[task[t].question] # None]
  /\ UNCHANGED <<cell, holder, waiting, billed, asks>>

\* The task, told its decision.
Told(t) == [task[t] EXCEPT !.pc = "done", !.result = cell'[task[t].question]]

\* get_or_try_init: the value is there, ...
JoinDecided(t) ==
  /\ task[t].pc = "reported"
  /\ cell[task[t].question] # None
  /\ UNCHANGED <<cell, holder, waiting, billed, asks>>
  /\ task' = [task EXCEPT ![t] = Told(t)]

\* The RPC of t leaves.
Send(t) ==
  /\ task' = [task EXCEPT ![t].pc = "calling"]
  /\ billed' = [billed EXCEPT ![task[t].question] = @ + 1]

\* ... or the permit is, and the RPC leaves at once, ...
JoinFirst(t) ==
  LET q == task[t].question IN
  /\ task[t].pc = "reported"
  /\ cell[q] = None /\ holder[q] = None
  /\ holder' = [holder EXCEPT ![q] = t]
  /\ Send(t)
  /\ UNCHANGED <<cell, waiting, asks>>

\* ... or the task queues for it.
JoinQueue(t) ==
  LET q == task[t].question IN
  /\ task[t].pc = "reported"
  /\ cell[q] = None /\ holder[q] # None
  /\ waiting' = [waiting EXCEPT ![q] = Append(@, t)]
  /\ task' = [task EXCEPT ![t].pc = "queued"]
  /\ UNCHANGED <<cell, holder, billed, asks>>

\* A queued task that was handed the permit sends an RPC of its own.
Start(t) ==
  /\ task[t].pc = "queued"
  /\ holder[task[t].question] = t
  /\ Send(t)
  /\ UNCHANGED <<cell, holder, waiting, asks>>

\* A queued task finds the queue closed and reads the value.
Serve(t) ==
  /\ task[t].pc = "queued"
  /\ cell[task[t].question] # None
  /\ UNCHANGED <<cell, holder, waiting, billed, asks>>
  /\ task' = [task EXCEPT ![t] = Told(t)]

\* The permit of q goes to the head of the queue.
Release(q) ==
  IF waiting[q] = <<>>
  THEN /\ holder' = [holder EXCEPT ![q] = None]
       /\ UNCHANGED waiting
  ELSE /\ holder' = [holder EXCEPT ![q] = Head(waiting[q])]
       /\ waiting' = [waiting EXCEPT ![q] = Tail(@)]

\* Faulty variant: the answer is returned but not kept.
SucceedUnkept(t, d) ==
  LET q == task[t].question IN
  /\ task[t].pc = "calling"
  /\ Release(q)
  /\ task' = [task EXCEPT ![t].pc = "done", ![t].result = d]
  /\ UNCHANGED <<cell, billed, asks>>

\* The RPC succeeds: the cell is set and its queue closed.
Succeed(t, d) ==
  LET q == task[t].question IN
  /\ task[t].pc = "calling"
  /\ cell' = [cell EXCEPT ![q] = d]
  /\ holder' = [holder EXCEPT ![q] = None]
  /\ waiting' = [waiting EXCEPT ![q] = <<>>]
  /\ task' = [task EXCEPT ![t] = Told(t)]
  /\ UNCHANGED <<billed, asks>>

\* Faulty variant: a failure is kept as a decision.
FailKept(t) ==
  LET q == task[t].question IN
  /\ task[t].pc = "calling"
  /\ cell' = [cell EXCEPT ![q] = CHOOSE d \in Decisions : TRUE]
  /\ holder' = [holder EXCEPT ![q] = None]
  /\ waiting' = [waiting EXCEPT ![q] = <<>>]
  /\ task' = [task EXCEPT ![t].pc = "done"]
  /\ billed' = [billed EXCEPT ![q] = @ - 1]
  /\ UNCHANGED asks

\* The RPC fails: nothing is kept and the next in the queue tries.
Fail(t) ==
  LET q == task[t].question IN
  /\ task[t].pc = "calling"
  /\ Release(q)
  /\ task' = [task EXCEPT ![t].pc = "done"]
  /\ billed' = [billed EXCEPT ![q] = @ - 1]
  /\ UNCHANGED <<cell, asks>>

\* The future is dropped while its RPC is out: the same without a result.
CancelCalling(t) ==
  LET q == task[t].question IN
  /\ task[t].pc = "calling"
  /\ Release(q)
  /\ task' = [task EXCEPT ![t] = IdleTask]
  /\ billed' = [billed EXCEPT ![q] = @ - 1]
  /\ UNCHANGED <<cell, asks>>

\* Faulty variant: a permit handed to a dropped task is lost.
CancelGrantedKeeps(t) ==
  /\ task[t].pc = "queued"
  /\ holder[task[t].question] = t
  /\ task' = [task EXCEPT ![t] = IdleTask]
  /\ UNCHANGED <<cell, holder, waiting, billed, asks>>

\* The future is dropped when it has been handed the permit ...
CancelGranted(t) ==
  /\ task[t].pc = "queued"
  /\ holder[task[t].question] = t
  /\ Release(task[t].question)
  /\ task' = [task EXCEPT ![t] = IdleTask]
  /\ UNCHANGED <<cell, billed, asks>>

\* Faulty variant: a dropped task keeps its place in the queue.
CancelQueuedStays(t) ==
  /\ task[t].pc = "queued"
  /\ holder[task[t].question] # t
  /\ task' = [task EXCEPT ![t] = IdleTask]
  /\ UNCHANGED <<cell, holder, waiting, billed, asks>>

\* ... or while it queues, ...
CancelQueued(t) ==
  LET q == task[t].question IN
  /\ task[t].pc = "queued"
  /\ \E i \in DOMAIN waiting[q] :
       waiting[q][i] = t /\ waiting' = [waiting EXCEPT ![q] = RemoveAt(@, i)]
  /\ task' = [task EXCEPT ![t] = IdleTask]
  /\ UNCHANGED <<cell, holder, billed, asks>>

\* ... or before it has seen that the queue is closed.
CancelClosed(t) ==
  /\ task[t].pc = "queued"
  /\ cell[task[t].question] # None
  /\ task' = [task EXCEPT ![t] = IdleTask]
  /\ UNCHANGED <<cell, holder, waiting, billed, asks>>

------------------------------------------------------------------------------
\* The polls of a task that is ready.
Poll(t) ==
  Report(t) \/ JoinDecided(t) \/ JoinFirst(t) \/ JoinQueue(t) \/ Start(t) \/ Serve(t)

\* The RPC of a task ends.
Return(t) == (\E d \in Decisions : Succeed(t, d)) \/ Fail(t)

Next ==
  \E t \in Tasks :
    \/ \E q \in Questions : Ask(t, q)
    \/ Poll(t) \/ Return(t)
    \/ CancelCalling(t) \/ CancelGranted(t) \/ CancelQueued(t) \/ CancelClosed(t)

Spec == Init /\ [][Next]_vars

\* Ready tasks are polled.  An RPC need not return, nor a task be dropped.
FairSpec == Spec /\ \A t \in Tasks : WF_vars(Poll(t))

------------------------------------------------------------------------------
Queued(t, q) == task[t].pc = "queued" /\ task[t].question = q
Calling(t, q) == task[t].pc = "calling" /\ task[t].question = q

TaskRecords ==
  [pc : {"idle", "asked", "reported", "queued", "calling", "done"},
   question : Questions \cup {None}, hit : BOOLEAN, result : Decisions \cup {None}]

\* A queue holds tasks that wait, each once and none that was handed the
\* permit, and nobody waits for a permit that is free.
QueueOK(q) ==
  LET w == waiting[q] IN
  /\ \A i \in DOMAIN w : Queued(w[i], q) /\ w[i] # holder[q]
  /\ \A i, j \in DOMAIN w : w[i] = w[j] => i = j
  /\ holder[q] = None => w = <<>>

\* Types, and the order of the queues.
TypeOK ==
  /\ cell \in [Questions -> Decisions \cup {None}]
  /\ holder \in [Questions -> Tasks \cup {None}]
  /\ waiting \in [Questions -> Seq(Tasks)]
  /\ task \in [Tasks -> TaskRecords]
  /\ billed \in [Questions -> Nat] /\ asks \in 0..MaxAsks
  /\ \A q \in Questions : QueueOK(q)

\* However many tasks ask a question, it costs one RPC, beyond those that
\* failed or whose task was dropped (per-key single flight in memo.rs).
OneRpcPerQuestion == \A q \in Questions : billed[q] <= 1

\* A lookup reported as a hit is one: it was answered without an RPC and with
\* a decision that was there when it was reported.
HitsAreServed ==
  \A t \in Tasks :
    task[t].hit =>
      /\ task[t].pc \in {"reported", "done"}
      /\ task[t].pc = "done" => task[t].result # None

\* A task that queues is not forgotten: its question is decided, or an RPC is
\* out for it again, whatever happened to the tasks before it in the queue.
QueueMovesOn ==
  \A q \in Questions :
    (\E t \in Tasks : Queued(t, q)) ~>
      \/ \E t \in Tasks : Calling(t, q)
      \/ \A t \in Tasks : ~Queued(t, q)

\* Tasks see what MemoSpec promises: one decision for one question, and that
\* one for every task that is told a decision on it.
View(r) ==
  [question |-> r.question,
   state |-> CASE r.pc = "idle" -> "silent"
               [] r.pc = "done" /\ r.result = None -> "failed"
               [] r.pc = "done" /\ r.result # None -> "told"
               [] OTHER -> "asking",
   answer |-> r.result]
Promise == INSTANCE MemoSpec WITH decision <- cell, view <- [t \in Tasks |-> View(task[t])]
KeepsPromise == Promise!Spec
==============================================================================
