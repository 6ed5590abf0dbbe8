---------------------------- MODULE AtomicWrites ----------------------------
(***************************************************************************)
(* What server/db.py promises its callers, with the lock, the worker       *)
(* thread and the cancellations left out: a write transaction takes effect *)
(* as a whole in one step or never, and its fate is final.                 *)
(***************************************************************************)
CONSTANTS
  Task,    \* the coroutines that write
  Part,    \* the statements of one transaction, each writing its own row
  NoTask   \* "nobody": the content of a row before any transaction

VARIABLES
  store,   \* store[p]: the transaction whose value row p holds
  fate     \* fate[t]: "open", "committed" or "aborted"

vars == <<store, fate>>

Init ==
  /\ store = [p \in Part |-> NoTask]
  /\ fate = [t \in Task |-> "open"]

\* All the rows of t change together.
Commit(t) ==
  /\ fate[t] = "open"
  /\ store' = [p \in Part |-> t]
  /\ fate' = [fate EXCEPT ![t] = "committed"]

\* A crash may abort several transactions at once.
Abort(S) ==
  /\ S # {}
  /\ \A t \in S : fate[t] = "open"
  /\ fate' = [t \in Task |-> IF t \in S THEN "aborted" ELSE fate[t]]
  /\ UNCHANGED store

Next ==
  \/ \E t \in Task : Commit(t)
  \/ \E S \in SUBSET Task : Abort(S)

Spec == Init /\ [][Next]_vars
=============================================================================
