------------------------------ MODULE TaskBarrier ------------------------------
(***************************************************************************)
(* What the users of a ThreadPool rely on, seen from outside: each task is *)
(* begun at most once, each worker has one task at a time, and once the    *)
(* user has gone past the barrier nothing begins or runs any more.  A user *)
(* that waited for the assignment of its tasks finds them all done.        *)
(***************************************************************************)
CONSTANTS Tasks, Workers, None   \* None is no task

VARIABLES
  waits,   \* the user waits for its tasks before it goes past; never changes
  todo,    \* tasks nobody has begun
  doing,   \* the task of each worker
  done,
  passed   \* the user is past the barrier

barrierVars == <<waits, todo, doing, done, passed>>

BInit ==
  /\ waits \in BOOLEAN
  /\ todo = Tasks /\ done = {} /\ passed = FALSE
  /\ doing = [w \in Workers |-> None]

Begin(w, x) ==
  /\ ~passed /\ doing[w] = None /\ x \in todo
  /\ todo' = todo \ {x}
  /\ doing' = [doing EXCEPT ![w] = x]
  /\ UNCHANGED <<waits, done, passed>>

End(w) ==
  /\ ~passed /\ doing[w] # None
  /\ done' = done \cup {doing[w]}
  /\ doing' = [doing EXCEPT ![w] = None]
  /\ UNCHANGED <<waits, todo, passed>>

Pass ==
  /\ ~passed /\ \A w \in Workers : doing[w] = None
  /\ waits => done = Tasks
  /\ passed' = TRUE
  /\ UNCHANGED <<waits, todo, doing, done>>

BNext ==
  (\E w \in Workers : End(w) \/ \E x \in Tasks : Begin(w, x)) \/ Pass

Barrier == BInit /\ [][BNext]_barrierVars
=============================================================================
