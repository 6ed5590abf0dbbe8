-------------------------- MODULE WriteTransaction --------------------------
(***************************************************************************)
(* server/src/server/db.py: the one SQLite connection, the module's write  *)
(* lock, `transaction()` and `checkpoint_wal()`.                           *)
(*                                                                         *)
(* Coroutines share one aiosqlite connection.  Awaiting a call puts it on  *)
(* the queue of the connection's worker thread and suspends the coroutine; *)
(* the worker runs the calls in order.  Cancelling a coroutine cancels the *)
(* future it waits on and never the call: the worker still runs it.        *)
(*                                                                         *)
(* One action is one resumption of a coroutine (from an await to the next) *)
(* or one call run by the worker.  A transaction writes one row per        *)
(* statement; a row holds the name of the transaction that wrote it last.  *)
(***************************************************************************)
EXTENDS Naturals, Sequences, SequencesExt

CONSTANTS
  Task,          \* coroutines; each enters the module once
  NoTask,        \* nobody
  NParts,        \* statements in the body of a transaction
  CancelPoints,  \* the awaits at which a cancellation may arrive
  CommitMayFail  \* whether COMMIT may raise (disk full, I/O error)

\* The awaits of transaction() and checkpoint_wal().
Awaits == {"lock", "begin", "write", "commit", "rollback", "checkpoint", "restore"}

ASSUME ConstantsAssumption ==
  /\ NoTask \notin Task
  /\ NParts \in Nat \ {0}
  /\ CancelPoints \subseteq Awaits
  /\ CommitMayFail \in BOOLEAN

Part == 1..NParts
Jobs == {"transaction", "checkpoint"}

\* The awaits inside "async with _write_lock".
Holding == Awaits \ {"lock"}

\* How a call of the module ends.  "unsure": CancelledError out of COMMIT;
\* "lost": the process died.
Ends == {"committed", "aborted", "unsure", "truncated", "postponed", "lost"}

VARIABLES
  pc,       \* pc[t]: the await t is suspended at, or how its call ended
  job,      \* job[t]: what t called
  reply,    \* reply[t]: the future t awaits: "none" yet, "ok" or "error"
  done,     \* done[t]: body statements of t that succeeded
  lock,     \* the coroutine inside "async with _write_lock", or NoTask
  waiters,  \* asyncio.Lock's FIFO of suspended acquirers
  queue,    \* calls the worker thread has not run yet
  inTx,     \* the connection has an open transaction
  draft,    \* the rows as this connection sees them
  disk,     \* the committed rows
  durable   \* history: the transactions whose COMMIT took effect

vars == <<pc, job, reply, done, lock, waiters, queue, inTx, draft, disk, durable>>
conn == <<inTx, draft, disk, durable>>

Rows == [Part -> Task \cup {NoTask}]
Calls == [task : Task, kind : Holding, awaited : BOOLEAN]

Init ==
  /\ pc = [t \in Task |-> "start"]
  /\ job = [t \in Task |-> "transaction"]
  /\ reply = [t \in Task |-> "none"]
  /\ done = [t \in Task |-> 0]
  /\ lock = NoTask
  /\ waiters = <<>>
  /\ queue = <<>>
  /\ inTx = FALSE
  /\ draft = [p \in Part |-> NoTask]
  /\ disk = [p \in Part |-> NoTask]
  /\ durable = {}

-----------------------------------------------------------------------------
(* Coroutines. *)

\* q with one more awaited call of t.
With(q, t, kind) == Append(q, [task |-> t, kind |-> kind, awaited |-> TRUE])

\* q after t's future was cancelled: the call stays.
Abandoned(q, t) ==
  [i \in DOMAIN q |-> [q[i] EXCEPT !.awaited = @ /\ q[i].task # t]]

\* t awaits a further call.
Await(t, kind) ==
  /\ pc' = [pc EXCEPT ![t] = kind]
  /\ reply' = [reply EXCEPT ![t] = "none"]
  /\ queue' = With(queue, t, kind)

\* Mutation of Leave: the lock is not given back.
LeaveLocked(t, end) ==
  /\ pc' = [pc EXCEPT ![t] = end]
  /\ UNCHANGED lock

\* t leaves the module, and with it the lock.
Leave(t, end) ==
  /\ pc' = [pc EXCEPT ![t] = end]
  /\ lock' = NoTask

\* t enters the "async with" and issues its first call.
EnterLock(t, j) ==
  /\ lock' = t
  /\ Await(t, IF j = "transaction" THEN "begin" ELSE "checkpoint")

\* transaction() or checkpoint_wal() is called.  asyncio.Lock is fair: it is
\* taken at once only when free with nobody waiting.
Call(t, j) ==
  /\ pc[t] = "start"
  /\ job' = [job EXCEPT ![t] = j]
  /\ IF lock = NoTask /\ waiters = <<>>
     THEN EnterLock(t, j) /\ UNCHANGED waiters
     ELSE /\ pc' = [pc EXCEPT ![t] = "lock"]
          /\ waiters' = Append(waiters, t)
          /\ UNCHANGED <<lock, reply, queue>>
  /\ UNCHANGED <<done, conn>>

Acquire(t) ==
  /\ pc[t] = "lock"
  /\ lock = NoTask
  /\ Head(waiters) = t
  /\ waiters' = Tail(waiters)
  /\ EnterLock(t, job[t])
  /\ UNCHANGED <<job, done, conn>>

\* BEGIN succeeded: the body runs up to its first statement.
Begun(t) ==
  /\ pc[t] = "begin" /\ reply[t] = "ok"
  /\ Await(t, "write")
  /\ UNCHANGED <<job, done, lock, waiters, conn>>

\* BEGIN raised.  It is outside the try: no rollback.
BeginFailed(t) ==
  /\ pc[t] = "begin" /\ reply[t] = "error"
  /\ Leave(t, "aborted")
  /\ UNCHANGED <<job, reply, done, waiters, queue, conn>>

\* A statement succeeded and the body goes on: to the next one, or to its
\* end and COMMIT.
Wrote(t) ==
  /\ pc[t] = "write" /\ reply[t] = "ok"
  /\ done' = [done EXCEPT ![t] = @ + 1]
  /\ Await(t, IF done[t] + 1 < NParts THEN "write" ELSE "commit")
  /\ UNCHANGED <<job, lock, waiters, conn>>

\* Mutation of BodyRaised: a "finally: commit" in place of the rollback.
BodyRaisedCommits(t) ==
  /\ pc[t] = "write" /\ reply[t] # "none"
  /\ Await(t, "commit")
  /\ UNCHANGED <<job, done, lock, waiters, conn>>

\* The body raises: because a statement did, or on its own account.
BodyRaised(t) ==
  /\ pc[t] = "write" /\ reply[t] # "none"
  /\ Await(t, "rollback")
  /\ UNCHANGED <<job, done, lock, waiters, conn>>

RolledBack(t) ==
  /\ pc[t] = "rollback" /\ reply[t] # "none"
  /\ Leave(t, "aborted")
  /\ UNCHANGED <<job, reply, done, waiters, queue, conn>>

\* Mutation of CommitReturned: a COMMIT that raised is taken for a success.
CommitSwallowed(t) ==
  /\ pc[t] = "commit" /\ reply[t] # "none"
  /\ Leave(t, "committed")
  /\ UNCHANGED <<job, reply, done, waiters, queue, conn>>

\* COMMIT returned or raised.  It is in the else branch: no rollback.
CommitReturned(t) ==
  /\ pc[t] = "commit" /\ reply[t] # "none"
  /\ Leave(t, IF reply[t] = "ok" THEN "committed" ELSE "aborted")
  /\ UNCHANGED <<job, reply, done, waiters, queue, conn>>

\* The finally of checkpoint_wal puts the busy timeout back.  done[t] keeps
\* the verdict: 1 when the log was truncated.
CheckpointReturned(t) ==
  /\ pc[t] = "checkpoint" /\ reply[t] # "none"
  /\ done' = [done EXCEPT ![t] = IF reply[t] = "ok" THEN 1 ELSE 0]
  /\ Await(t, "restore")
  /\ UNCHANGED <<job, lock, waiters, conn>>

Restored(t) ==
  /\ pc[t] = "restore" /\ reply[t] # "none"
  /\ Leave(t, IF done[t] = 1 THEN "truncated" ELSE "postponed")
  /\ UNCHANGED <<job, reply, done, waiters, queue, conn>>

Resume(t) ==
  \/ Acquire(t) \/ Begun(t) \/ BeginFailed(t) \/ Wrote(t) \/ BodyRaised(t)
  \/ RolledBack(t) \/ CommitReturned(t) \/ CheckpointReturned(t) \/ Restored(t)

-----------------------------------------------------------------------------
(* Cancellation: CancelledError is raised at the await. *)

\* Mutation of CancelWaiting: the dead waiter stays in the line.
CancelWaitingInLine(t) ==
  /\ pc[t] = "lock" /\ "lock" \in CancelPoints
  /\ pc' = [pc EXCEPT ![t] = "aborted"]
  /\ UNCHANGED <<job, reply, done, lock, waiters, queue, conn>>

\* Waiting for the lock: t leaves the line.
CancelWaiting(t) ==
  /\ pc[t] = "lock" /\ "lock" \in CancelPoints
  /\ \E i \in DOMAIN waiters : waiters[i] = t /\ waiters' = RemoveAt(waiters, i)
  /\ pc' = [pc EXCEPT ![t] = "aborted"]
  /\ UNCHANGED <<job, reply, done, lock, queue, conn>>

\* Inside the body: the except branch rolls back, behind the abandoned call.
\* Inside the checkpoint: the finally still restores the timeout.
CancelCovered(t) ==
  /\ pc[t] \in CancelPoints \cap {"write", "checkpoint"}
  /\ LET kind == IF pc[t] = "write" THEN "rollback" ELSE "restore"
     IN  /\ pc' = [pc EXCEPT ![t] = kind]
         /\ queue' = With(Abandoned(queue, t), t, kind)
  /\ reply' = [reply EXCEPT ![t] = "none"]
  /\ UNCHANGED <<job, done, lock, waiters, conn>>

\* At BEGIN, COMMIT, ROLLBACK or the restore, which no handler covers: the
\* lock is released with the call still on the worker's queue.
CancelUncovered(t) ==
  /\ pc[t] \in CancelPoints \cap {"begin", "commit", "rollback", "restore"}
  /\ queue' = Abandoned(queue, t)
  /\ Leave(t, CASE pc[t] = "commit" -> "unsure"
                [] pc[t] = "restore" -> "postponed"
                [] OTHER -> "aborted")
  /\ UNCHANGED <<job, reply, done, waiters, conn>>

Cancel(t) == CancelWaiting(t) \/ CancelCovered(t) \/ CancelUncovered(t)

-----------------------------------------------------------------------------
(* The worker thread runs the oldest call. *)

\* The call returns r, to the coroutine if it still waits.
Run(kind, r) ==
  /\ queue # <<>>
  /\ Head(queue).kind = kind
  /\ queue' = Tail(queue)
  /\ reply' = IF Head(queue).awaited
              THEN [reply EXCEPT ![Head(queue).task] = r] ELSE reply
  /\ UNCHANGED <<pc, job, done, lock, waiters>>

\* Mutation of RunBegin: BEGIN is skipped when a transaction is already open.
RunBeginIfNeeded ==
  \/ Run("begin", "ok") /\ inTx' = TRUE /\ UNCHANGED <<draft, disk, durable>>
  \/ Run("begin", "error") /\ UNCHANGED conn

\* BEGIN IMMEDIATE is refused inside an open transaction, and when another
\* process holds the file longer than the busy timeout.
RunBegin ==
  \/ ~inTx /\ Run("begin", "ok") /\ inTx' = TRUE /\ UNCHANGED <<draft, disk, durable>>
  \/ Run("begin", "error") /\ UNCHANGED conn

RunWrite ==
  \/ /\ Run("write", "ok")
     /\ LET t == Head(queue).task
        IN  draft' = [draft EXCEPT ![done[t] + 1] = t]
     /\ inTx' = TRUE
     /\ UNCHANGED <<disk, durable>>
  \/ Run("write", "error") /\ UNCHANGED conn

\* A COMMIT that fails leaves the transaction open or lets SQLite undo it.
RunCommit ==
  \/ /\ Run("commit", "ok")
     /\ disk' = draft
     /\ inTx' = FALSE
     /\ durable' = durable \cup {Head(queue).task}
     /\ UNCHANGED draft
  \/ CommitMayFail /\ Run("commit", "error") /\ UNCHANGED conn
  \/ /\ CommitMayFail
     /\ Run("commit", "error")
     /\ draft' = disk /\ inTx' = FALSE
     /\ UNCHANGED <<disk, durable>>

RunRollback ==
  /\ Run("rollback", "ok")
  /\ draft' = disk /\ inTx' = FALSE
  /\ UNCHANGED <<disk, durable>>

\* wal_checkpoint(TRUNCATE): refused inside a transaction, busy when another
\* connection reads the log.
RunCheckpoint ==
  \/ ~inTx /\ Run("checkpoint", "ok") /\ UNCHANGED conn
  \/ Run("checkpoint", "error") /\ UNCHANGED conn

RunRestore == Run("restore", "ok") /\ UNCHANGED conn

Worker ==
  RunBegin \/ RunWrite \/ RunCommit \/ RunRollback \/ RunCheckpoint \/ RunRestore

\* The process dies and starts again: what was not committed is gone.
Crash ==
  /\ \E t \in Task : pc[t] \in Awaits
  /\ pc' = [t \in Task |-> IF pc[t] \in Awaits THEN "lost" ELSE pc[t]]
  /\ reply' = [t \in Task |-> "none"]
  /\ lock' = NoTask
  /\ waiters' = <<>>
  /\ queue' = <<>>
  /\ inTx' = FALSE
  /\ draft' = disk
  /\ UNCHANGED <<job, done, disk, durable>>

-----------------------------------------------------------------------------
Next ==
  \/ \E t \in Task, j \in Jobs : Call(t, j)
  \/ \E t \in Task : Resume(t) \/ Cancel(t)
  \/ Worker
  \/ Crash

\* The event loop runs every coroutine whose future is set, and the worker
\* thread drains its queue.  A body that keeps raising ends; it never waits.
Fairness ==
  /\ \A t \in Task : WF_vars(Resume(t))
  /\ WF_vars(Worker)

Spec == Init /\ [][Next]_vars
FairSpec == Spec /\ Fairness

-----------------------------------------------------------------------------
TypeOK ==
  /\ pc \in [Task -> Awaits \cup Ends \cup {"start"}]
  /\ job \in [Task -> Jobs]
  /\ reply \in [Task -> {"none", "ok", "error"}]
  /\ done \in [Task -> 0..NParts]
  /\ lock \in Task \cup {NoTask}
  /\ waiters \in Seq(Task)
  /\ queue \in Seq(Calls)
  /\ inTx \in BOOLEAN
  /\ draft \in Rows
  /\ disk \in Rows
  /\ durable \subseteq Task

(* The lock is held by exactly the coroutine that stands at an await inside *)
(* it: however a transaction or a checkpoint leaves (return, exception,     *)
(* cancellation at any await), it gives the lock back, and no other is in.  *)
OneOwner == \A t \in Task : pc[t] \in Holding <=> lock = t

(* ADR 0011: "Commits and rollbacks cannot accidentally include another     *)
(* coroutine's work".  While t is in its body or its COMMIT is pending,     *)
(* every row that differs from the committed one was written by t.          *)
OwnWorkOnly ==
  \A t \in Task : pc[t] \in {"write", "commit"} =>
    \A p \in Part : draft[p] \in {disk[p], t}

\* t's COMMIT is still on the worker's queue.
CommitPending(t) ==
  \E i \in DOMAIN queue : queue[i].task = t /\ queue[i].kind = "commit"

(* A caller that saw transaction() return has a durable write, and one that *)
(* saw it raise from BEGIN, the body or the rollback has none and never     *)
(* will (a cancellation at COMMIT is the outcome that tells nothing).       *)
HonestOutcome ==
  \A t \in Task :
    /\ pc[t] = "committed" => t \in durable
    /\ pc[t] = "aborted" => t \notin durable /\ ~CommitPending(t)

(* transaction() "rolls back on any BaseException - including               *)
(* asyncio.CancelledError" (db.py:251-253): once nobody is inside it and    *)
(* the worker is idle, the connection has no transaction left open.         *)
NoLeakedTransaction == lock = NoTask /\ queue = <<>> => ~inTx

(* Every call of the module ends, whatever is cancelled around it: the lock *)
(* is never kept, and a waiter always gets its turn.                        *)
EveryCallEnds == \A t \in Task : pc[t] \in Awaits ~> pc[t] \in Ends

-----------------------------------------------------------------------------
(* The detailed system implements AtomicWrites: a transaction is decided    *)
(* when the worker runs its COMMIT, and aborted once no COMMIT of it can    *)
(* run any more.                                                            *)
Fate(t) ==
  CASE t \in durable -> "committed"
    [] t \notin durable /\ pc[t] \in Ends /\ ~CommitPending(t) -> "aborted"
    [] OTHER -> "open"

Abstract == INSTANCE AtomicWrites WITH
  store <- disk, fate <- [t \in Task |-> Fate(t)]

(* Whatever the interleaving, the cancellations and the crashes, the        *)
(* committed rows change all together, by one transaction, and its fate     *)
(* never changes afterwards.                                                *)
ImplementsAtomicWrites == Abstract!Spec
=============================================================================
