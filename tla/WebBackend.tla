------------------------------ MODULE WebBackend ------------------------------
(***************************************************************************)
(* The in-process nio backend of the web example                           *)
(* (examples/webapp/backend.rs): the session and the check service behind  *)
(* one lock.  Each RPC reads and answers under that lock, in one step.     *)
(***************************************************************************)
EXTENDS Wire

CONSTANTS
  Tokens,      \* raw tokens; distinct tokens have distinct hashes
  Alice, Bob,  \* the demo principals
  AllUsers,    \* the public subject
  SessionTtl,  \* SESSION_TTL_SECONDS
  MaxNow       \* bound: the wall clock stops here

ASSUME BackendAssumption ==
  /\ SessionTtl \in Nat /\ MaxNow \in Nat /\ PerSecond = 1
  /\ None \notin {Alice, Bob, AllUsers} /\ Alice # Bob /\ AllUsers \notin {Alice, Bob}
  /\ None \notin [principal : {Alice, Bob}, expires_at : 0..MaxNow + SessionTtl]

VARIABLES
  now,       \* Utc::now() in seconds, of the backend and the application
  sessions,  \* token -> its session, or None
  owner      \* history: token -> who signed in to get it, and when; or None
backend == <<now, sessions, owner>>

Get == "article.get"
Update == "article.update"

Grant(obj, rel, subject) == [obj |-> obj, rel |-> rel, subject |-> subject]

\* The names and tuples that seed() stores before the server starts.
Names == {Alice, Bob}
Tuples ==
  {Grant("1", Get, Alice), Grant("1", Update, Alice),
   Grant("2", Get, Bob), Grant("2", Update, Bob), Grant("2", Get, Alice),
   Grant("3", Get, AllUsers)}

BackendInit ==
  /\ now = 0
  /\ sessions = [t \in Tokens |-> None]
  /\ owner = [t \in Tokens |-> None]

\* A token is 32 random bytes: never one issued before.
CreateSession(t, p) ==
  /\ owner[t] = None
  /\ sessions' = [sessions EXCEPT ![t] = [principal |-> p, expires |-> now + SessionTtl]]
  /\ owner' = [owner EXCEPT ![t] = [principal |-> p, expires |-> now + SessionTtl]]

RemoveSession(t) ==
  /\ sessions' = [sessions EXCEPT ![t] = None]
  /\ UNCHANGED owner

\* Unknown, expired and removed sessions look the same.
BackendResolve(t) ==
  IF sessions[t] # None /\ sessions[t].expires > now THEN sessions[t] ELSE None

\* Faulty variant: whoever is known is allowed.
BackendCheckKnown(obj, rel, user) ==
  [principal |-> IF user \in Names THEN user ELSE None, ok |-> user \in Names]

BackendCheck(obj, rel, user) ==
  LET granted == Grant(obj, rel, user) \in Tuples
      public  == Grant(obj, rel, AllUsers) \in Tuples
  IN  [principal |-> IF user \in Names \/ granted \/ public THEN user ELSE None,
       ok        |-> granted \/ public]

Tick ==
  /\ now < MaxNow
  /\ now' = now + 1
  /\ UNCHANGED <<sessions, owner>>
===============================================================================
