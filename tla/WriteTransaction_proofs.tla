----------------------- MODULE WriteTransaction_proofs -----------------------
(* Theorems about WriteTransaction, for any coroutines and any statements:  *)
(* one owner of the connection, on which nobody sees work that is neither   *)
(* committed nor its own; an outcome that is true; a refinement of          *)
(* AtomicWrites; and, as far as it is safety, that every call ends: whoever *)
(* waits, waits for a call that is queued or running.                       *)
EXTENDS WriteTransaction, SequenceTheorems, TLAPS

-----------------------------------------------------------------------------
(* The worker's queue. *)

\* Abandoning a call changes neither its place nor what it does.
LEMMA AbandonedCalls ==
  ASSUME NEW q \in Seq(Calls), NEW t \in Task
  PROVE  /\ Abandoned(q, t) \in Seq(Calls)
         /\ Len(Abandoned(q, t)) = Len(q)
         /\ \A i \in 1..Len(q) :
              /\ Abandoned(q, t)[i].task = q[i].task
              /\ Abandoned(q, t)[i].kind = q[i].kind
              /\ Abandoned(q, t)[i].awaited = (q[i].awaited /\ q[i].task # t)
<1>1. \A i \in 1..Len(q) : q[i] \in Calls
  OBVIOUS
<1>2. DOMAIN q = 1..Len(q) /\ Len(q) \in Nat
  OBVIOUS
<1>3. \A i \in 1..Len(q) :
        [q[i] EXCEPT !.awaited = @ /\ q[i].task # t]
          = [task |-> q[i].task, kind |-> q[i].kind, awaited |-> (q[i].awaited /\ q[i].task # t)]
  BY <1>1 DEF Calls
<1>4. \A i \in 1..Len(q) :
        [task |-> q[i].task, kind |-> q[i].kind, awaited |-> (q[i].awaited /\ q[i].task # t)]
          \in Calls
  BY <1>1 DEF Calls
<1>5. Abandoned(q, t) = [i \in 1..Len(q) |->
        [task |-> q[i].task, kind |-> q[i].kind, awaited |-> (q[i].awaited /\ q[i].task # t)]]
  BY <1>2, <1>3 DEF Abandoned
<1>6. Abandoned(q, t) \in Seq(Calls) /\ Len(Abandoned(q, t)) = Len(q)
  BY <1>2, <1>4, <1>5
<1> QED
  BY <1>5, <1>6

\* A further call goes behind the others.
LEMMA WithCalls ==
  ASSUME NEW q \in Seq(Calls), NEW t \in Task, NEW kind \in Holding
  PROVE  /\ With(q, t, kind) \in Seq(Calls)
         /\ Len(With(q, t, kind)) = Len(q) + 1
         /\ \A i \in 1..Len(q) : With(q, t, kind)[i] = q[i]
         /\ With(q, t, kind)[Len(q) + 1].task = t
         /\ With(q, t, kind)[Len(q) + 1].kind = kind
         /\ With(q, t, kind)[Len(q) + 1].awaited
<1>1. [task |-> t, kind |-> kind, awaited |-> TRUE] \in Calls
  BY DEF Calls
<1>2. With(q, t, kind)[Len(q) + 1] = [task |-> t, kind |-> kind, awaited |-> TRUE]
  BY <1>1 DEF With
<1> QED
  BY <1>1, <1>2 DEF With

-----------------------------------------------------------------------------
(* Types.  A statement counter stays in its range because a coroutine that  *)
(* waits for a statement has one left.                                      *)

Counted ==
  \A t \in Task :
    /\ pc[t] \in {"start", "lock", "begin", "checkpoint"} => done[t] = 0
    /\ pc[t] = "write" => done[t] < NParts

TInv == TypeOK /\ Counted

\* The step lemmas below take the type of every variable from here.
LEMMA Types ==
  ASSUME TInv
  PROVE  /\ pc \in [Task -> Awaits \cup Ends \cup {"start"}]
         /\ job \in [Task -> Jobs]
         /\ reply \in [Task -> {"none", "ok", "error"}]
         /\ done \in [Task -> 0..NParts]
         /\ lock \in Task \cup {NoTask}
         /\ waiters \in Seq(Task)
         /\ queue \in Seq(Calls)
         /\ inTx \in BOOLEAN
         /\ draft \in Rows /\ disk \in Rows
         /\ durable \subseteq Task
BY DEF TInv, TypeOK

LEMMA InitTInv == Init => TInv
<1> SUFFICES ASSUME Init PROVE TInv
  OBVIOUS
<1>1. 0 \in 0..NParts /\ 0 < NParts
  BY ConstantsAssumption
<1>2. waiters \in Seq(Task) /\ queue \in Seq(Calls)
  BY DEF Init
<1>3. draft \in Rows /\ disk \in Rows
  BY DEF Init, Rows
<1>4. TypeOK
  BY <1>1, <1>2, <1>3 DEF Init, TypeOK, Jobs
<1>5. Counted
  BY <1>1 DEF Init, Counted
<1> QED
  BY <1>4, <1>5 DEF TInv

\* What awaiting a further call, and running one, do to the types.
LEMMA AwaitTypes ==
  ASSUME TInv, NEW t \in Task, NEW kind \in Holding, Await(t, kind)
  PROVE  /\ pc' \in [Task -> Awaits \cup Ends \cup {"start"}]
         /\ reply' \in [Task -> {"none", "ok", "error"}]
         /\ queue' \in Seq(Calls)
<1>1. kind \in Awaits
  BY DEF Holding
<1>2. queue' \in Seq(Calls)
  BY Types, WithCalls DEF Await
<1> QED
  BY <1>1, <1>2, Types DEF Await

LEMMA RunTypes ==
  ASSUME TInv, NEW kind \in Holding, NEW r \in {"ok", "error"}, Run(kind, r)
  PROVE  /\ Head(queue) \in Calls
         /\ queue' \in Seq(Calls)
         /\ reply' \in [Task -> {"none", "ok", "error"}]
<1>1. queue \in Seq(Calls) /\ queue # <<>>
  BY Types DEF Run
<1>2. Head(queue) \in Calls /\ Tail(queue) \in Seq(Calls)
  BY <1>1
<1>3. Head(queue).task \in Task
  BY <1>2 DEF Calls
<1> QED
  BY <1>2, <1>3, Types DEF Run

\* Steps of a coroutine.
LEMMA CallTInv ==
  ASSUME TInv, NEW t \in Task, NEW j \in Jobs, Call(t, j)
  PROVE  TInv'
<1> USE Types
<1>1. CASE lock = NoTask /\ waiters = <<>>
  <2> DEFINE kind == IF j = "transaction" THEN "begin" ELSE "checkpoint"
  <2>1. kind \in Holding
    BY DEF Holding, Awaits
  <2>2. pc[t] = "start" /\ job' = [job EXCEPT ![t] = j]
    BY DEF Call
  <2>3. lock' = t /\ Await(t, kind)
    BY <1>1 DEF Call, EnterLock
  <2>4. UNCHANGED <<waiters, done, inTx, draft, disk, durable>>
    BY <1>1 DEF Call, conn
  <2>5. TypeOK'
    BY <2>1, <2>2, <2>3, <2>4, AwaitTypes DEF TypeOK
  <2>6. Counted'
    BY <2>2, <2>3, <2>4 DEF TInv, Counted, Await
  <2> QED
    BY <2>5, <2>6 DEF TInv
<1>2. CASE ~(lock = NoTask /\ waiters = <<>>)
  <2>1. /\ pc[t] = "start"
        /\ job' = [job EXCEPT ![t] = j]
        /\ pc' = [pc EXCEPT ![t] = "lock"]
        /\ waiters' = Append(waiters, t)
        /\ UNCHANGED <<lock, reply, queue, done, inTx, draft, disk, durable>>
    BY <1>2 DEF Call, conn
  <2>2. TypeOK'
    BY <2>1 DEF TypeOK, Awaits
  <2>3. Counted'
    BY <2>1 DEF TInv, Counted
  <2> QED
    BY <2>2, <2>3 DEF TInv
<1> QED
  BY <1>1, <1>2

LEMMA AcquireTInv ==
  ASSUME TInv, NEW t \in Task, Acquire(t)
  PROVE  TInv'
<1> DEFINE kind == IF job[t] = "transaction" THEN "begin" ELSE "checkpoint"
<1>1. kind \in Holding
  BY DEF Holding, Awaits
<1>2. lock' = t /\ Await(t, kind)
  BY DEF Acquire, EnterLock
<1>3. pc[t] = "lock" /\ UNCHANGED <<job, done, inTx, draft, disk, durable>>
  BY DEF Acquire, conn
<1>4. waiters' \in Seq(Task)
  <2>1. CASE waiters = <<>>
    BY <2>1, Types DEF Acquire
  <2>2. CASE waiters # <<>>
    BY <2>2, Types DEF Acquire
  <2> QED
    BY <2>1, <2>2
<1>5. TypeOK'
  BY <1>1, <1>2, <1>3, <1>4, AwaitTypes, Types DEF TypeOK
<1>6. Counted'
  BY <1>2, <1>3, Types DEF TInv, Counted, Await
<1> QED
  BY <1>5, <1>6 DEF TInv

\* t goes on to its next call: done[t] stays, or counts what t has just done.
LEMMA GoOnTInv ==
  ASSUME TInv, NEW t \in Task, NEW kind \in Holding, NEW d \in 0..NParts,
         kind = "write" => d < NParts, kind \in {"begin", "checkpoint"} => d = 0,
         Await(t, kind), done' = [done EXCEPT ![t] = d],
         UNCHANGED <<job, lock, waiters, conn>>
  PROVE  TInv'
<1>1. TypeOK'
  BY AwaitTypes, Types DEF TypeOK, conn
<1>2. Counted'
  <2>1. kind # "start" /\ kind # "lock"
    BY DEF Holding, Awaits
  <2>2. ASSUME NEW u \in Task
        PROVE  /\ pc'[u] \in {"start", "lock", "begin", "checkpoint"} => done'[u] = 0
               /\ pc'[u] = "write" => done'[u] < NParts
    <3>1. CASE u = t
      BY <2>1, <3>1, Types DEF Await
    <3>2. CASE u # t
      BY <3>2, Types DEF Await, TInv, Counted
    <3> QED
      BY <3>1, <3>2
  <2> QED
    BY <2>2 DEF Counted
<1> QED
  BY <1>1, <1>2 DEF TInv

\* t leaves with some end.
LEMMA LeaveTInv ==
  ASSUME TInv, NEW t \in Task, NEW end \in Ends, Leave(t, end),
         UNCHANGED <<job, reply, done, waiters, conn>>, queue' \in Seq(Calls)
  PROVE  TInv'
<1>1. TypeOK'
  BY Types DEF TypeOK, Leave, conn
<1>2. Counted'
  BY Types DEF TInv, Counted, Leave, Ends
<1> QED
  BY <1>1, <1>2 DEF TInv

LEMMA ResumeTInv ==
  ASSUME TInv, NEW t \in Task, Resume(t)
  PROVE  TInv'
<1> USE Types
<1>1. ASSUME Acquire(t) PROVE TInv'
  BY <1>1, AcquireTInv
<1>2. ASSUME Begun(t) PROVE TInv'
  <2>1. pc[t] = "begin" /\ done[t] = 0
    BY <1>2 DEF Begun, TInv, Counted
  <2>2. 0 < NParts /\ 0 \in 0..NParts
    BY ConstantsAssumption
  <2>3. done' = [done EXCEPT ![t] = 0]
    BY <1>2, <2>1 DEF Begun
  <2> QED
    BY <1>2, <2>2, <2>3, GoOnTInv DEF Begun, Holding, Awaits
<1>3. ASSUME BeginFailed(t) PROVE TInv'
  BY <1>3, LeaveTInv DEF BeginFailed, Ends
<1>4. ASSUME Wrote(t) PROVE TInv'
  <2> DEFINE kind == IF done[t] + 1 < NParts THEN "write" ELSE "commit"
  <2>1. done[t] < NParts
    BY <1>4 DEF Wrote, TInv, Counted
  <2>2. done[t] + 1 \in 0..NParts
    BY <2>1, ConstantsAssumption
  <2>3. kind \in Holding
    BY DEF Holding, Awaits
  <2> QED
    BY <1>4, <2>2, <2>3, GoOnTInv DEF Wrote
<1>5. ASSUME BodyRaised(t) PROVE TInv'
  <2>1. done' = [done EXCEPT ![t] = done[t]]
    BY <1>5 DEF BodyRaised
  <2> QED
    BY <1>5, <2>1, GoOnTInv DEF BodyRaised, Holding, Awaits
<1>6. ASSUME RolledBack(t) PROVE TInv'
  BY <1>6, LeaveTInv DEF RolledBack, Ends
<1>7. ASSUME CommitReturned(t) PROVE TInv'
  BY <1>7, LeaveTInv DEF CommitReturned, Ends
<1>8. ASSUME CheckpointReturned(t) PROVE TInv'
  <2>1. (IF reply[t] = "ok" THEN 1 ELSE 0) \in 0..NParts
    BY ConstantsAssumption
  <2> QED
    BY <1>8, <2>1, GoOnTInv DEF CheckpointReturned, Holding, Awaits
<1>9. ASSUME Restored(t) PROVE TInv'
  BY <1>9, LeaveTInv DEF Restored, Ends
<1> QED
  BY <1>1, <1>2, <1>3, <1>4, <1>5, <1>6, <1>7, <1>8, <1>9 DEF Resume

\* Cancellations.
LEMMA CancelTInv ==
  ASSUME TInv, NEW t \in Task, Cancel(t)
  PROVE  TInv'
<1> USE Types
<1>1. ASSUME CancelWaiting(t) PROVE TInv'
  <2>1. PICK i \in DOMAIN waiters : waiters' = RemoveAt(waiters, i)
    BY <1>1 DEF CancelWaiting
  <2>2. SubSeq(waiters, 1, i - 1) \in Seq(Task) /\ SubSeq(waiters, i + 1, Len(waiters)) \in Seq(Task)
    OBVIOUS
  <2>3. waiters' \in Seq(Task)
    BY <2>1, <2>2, SMTT(30) DEF RemoveAt
  <2>4. /\ pc' = [pc EXCEPT ![t] = "aborted"]
        /\ UNCHANGED <<job, reply, done, lock, queue, inTx, draft, disk, durable>>
    BY <1>1 DEF CancelWaiting, conn
  <2>5. TypeOK'
    BY <2>3, <2>4 DEF TypeOK, Ends
  <2>6. Counted'
    BY <2>4 DEF TInv, Counted
  <2> QED
    BY <2>5, <2>6 DEF TInv
<1>2. ASSUME CancelCovered(t) PROVE TInv'
  <2>1. PICK kind \in {"rollback", "restore"} :
          /\ pc' = [pc EXCEPT ![t] = kind]
          /\ queue' = With(Abandoned(queue, t), t, kind)
    BY <1>2 DEF CancelCovered
  <2>2. kind \in Holding /\ kind \in Awaits
    BY DEF Holding, Awaits
  <2>3. queue' \in Seq(Calls)
    BY <2>1, <2>2, AbandonedCalls, WithCalls
  <2>4. reply' = [reply EXCEPT ![t] = "none"]
    BY <1>2 DEF CancelCovered
  <2>5. UNCHANGED <<job, done, lock, waiters, inTx, draft, disk, durable>>
    BY <1>2 DEF CancelCovered, conn
  <2>6. TypeOK'
    BY <2>1, <2>2, <2>3, <2>4, <2>5 DEF TypeOK
  <2>7. Counted'
    BY <2>1, <2>5 DEF TInv, Counted
  <2> QED
    BY <2>6, <2>7 DEF TInv
<1>3. ASSUME CancelUncovered(t) PROVE TInv'
  <2>1. PICK end \in Ends : Leave(t, end)
    BY <1>3 DEF CancelUncovered, Ends
  <2>2. queue' \in Seq(Calls)
    BY <1>3, AbandonedCalls DEF CancelUncovered
  <2> QED
    BY <1>3, <2>1, <2>2, LeaveTInv DEF CancelUncovered
<1> QED
  BY <1>1, <1>2, <1>3 DEF Cancel

\* Steps of the worker.
LEMMA WorkerTInv ==
  ASSUME TInv, Worker
  PROVE  TInv'
<1> USE Types
<1>1. PICK kind \in Holding, r \in {"ok", "error"} : Run(kind, r)
  BY DEF Worker, RunBegin, RunWrite, RunCommit, RunRollback, RunCheckpoint, RunRestore,
         Holding, Awaits
<1>2. UNCHANGED <<pc, job, done, lock, waiters>>
  BY <1>1 DEF Run
<1>3. Head(queue).task \in Task
  BY <1>1, RunTypes DEF Calls
<1>4. /\ inTx' \in BOOLEAN
      /\ draft' \in Rows /\ disk' \in Rows
      /\ durable' \subseteq Task
  BY <1>3 DEF Worker, RunBegin, RunWrite, RunCommit, RunRollback, RunCheckpoint, RunRestore,
              conn, Rows
<1>5. TypeOK'
  BY <1>1, <1>2, <1>4, RunTypes DEF TypeOK
<1>6. Counted'
  BY <1>2 DEF TInv, Counted
<1> QED
  BY <1>5, <1>6 DEF TInv

LEMMA CrashTInv ==
  ASSUME TInv, Crash
  PROVE  TInv'
<1> USE Types
<1>1. waiters' \in Seq(Task) /\ queue' \in Seq(Calls)
  BY DEF Crash
<1>2. TypeOK'
  BY <1>1 DEF Crash, TypeOK, Ends
<1>3. Counted'
  BY DEF Crash, TInv, Counted
<1> QED
  BY <1>2, <1>3 DEF TInv

\* TypeOK alone is not inductive: the counter would not stay in its range.
LEMMA TInvariant == Spec => []TInv
<1>1. Init => TInv
  BY InitTInv
<1>2. TInv /\ [Next]_vars => TInv'
  <2> SUFFICES ASSUME TInv, [Next]_vars PROVE TInv'
    OBVIOUS
  <2>1. ASSUME NEW t \in Task, NEW j \in Jobs, Call(t, j) PROVE TInv'
    BY <2>1, CallTInv
  <2>2. ASSUME NEW t \in Task, Resume(t) PROVE TInv'
    BY <2>2, ResumeTInv
  <2>3. ASSUME NEW t \in Task, Cancel(t) PROVE TInv'
    BY <2>3, CancelTInv
  <2>4. ASSUME Worker PROVE TInv'
    BY <2>4, WorkerTInv
  <2>5. ASSUME Crash PROVE TInv'
    BY <2>5, CrashTInv
  <2>6. ASSUME UNCHANGED vars PROVE TInv'
    BY <2>6 DEF vars, TInv, TypeOK, Counted
  <2> QED
    BY <2>1, <2>2, <2>3, <2>4, <2>5, <2>6 DEF Next
<1> QED
  BY <1>1, <1>2, PTL DEF Spec

(* Every variable keeps its type, whatever is called, cancelled or killed:  *)
(* no coroutine runs more statements than its body has (db.py:245-282).     *)
THEOREM TypeCorrect == Spec => []TypeOK
BY TInvariant, PTL DEF TInv

-----------------------------------------------------------------------------
(* The lock. *)

LEMMA OneOwnerStep ==
  ASSUME TInv, OneOwner, [Next]_vars
  PROVE  OneOwner'
<1> USE Types, ConstantsAssumption DEF OneOwner
\* A coroutine that leaves, gives the lock back; it was the owner.
<1>1. ASSUME NEW t \in Task, NEW end, end \notin Holding, pc[t] \in Holding, Leave(t, end)
      PROVE  OneOwner'
  BY <1>1 DEF Leave
\* A coroutine that goes on stays inside.
<1>2. ASSUME NEW t \in Task, NEW kind \in Holding, pc[t] \in Holding,
             pc' = [pc EXCEPT ![t] = kind], UNCHANGED lock
      PROVE  OneOwner'
  BY <1>2
\* Only a free lock is taken.
<1>3. ASSUME NEW t \in Task, NEW kind \in Holding, lock = NoTask, lock' = t,
             pc' = [pc EXCEPT ![t] = kind]
      PROVE  OneOwner'
  BY <1>3
<1>4. ASSUME NEW t \in Task, NEW j \in Jobs, Call(t, j) PROVE OneOwner'
  <2>1. CASE lock = NoTask /\ waiters = <<>>
    BY <1>4, <2>1, <1>3 DEF Call, EnterLock, Await, Holding, Awaits
  <2>2. CASE ~(lock = NoTask /\ waiters = <<>>)
    BY <1>4, <2>2 DEF Call, Holding, Awaits
  <2> QED
    BY <2>1, <2>2
<1>5. ASSUME NEW t \in Task, Resume(t) PROVE OneOwner'
  <2>1. CASE Acquire(t)
    BY <2>1, <1>3 DEF Acquire, EnterLock, Await, Holding, Awaits
  <2>2. CASE Begun(t) \/ Wrote(t) \/ BodyRaised(t) \/ CheckpointReturned(t)
    BY <2>2, <1>2 DEF Begun, Wrote, BodyRaised, CheckpointReturned, Await, Holding, Awaits
  <2>3. CASE BeginFailed(t) \/ RolledBack(t) \/ CommitReturned(t) \/ Restored(t)
    BY <2>3, <1>1 DEF BeginFailed, RolledBack, CommitReturned, Restored, Holding, Awaits
  <2> QED
    BY <1>5, <2>1, <2>2, <2>3 DEF Resume
<1>6. ASSUME NEW t \in Task, Cancel(t) PROVE OneOwner'
  <2>1. CASE CancelWaiting(t)
    BY <2>1 DEF CancelWaiting, Holding, Awaits
  <2>2. CASE CancelCovered(t)
    BY <2>2, <1>2 DEF CancelCovered, Holding, Awaits
  <2>3. CASE CancelUncovered(t)
    BY <2>3, <1>1 DEF CancelUncovered, Holding, Awaits
  <2> QED
    BY <1>6, <2>1, <2>2, <2>3 DEF Cancel
<1>7. ASSUME Worker PROVE OneOwner'
  BY <1>7 DEF Worker, RunBegin, RunWrite, RunCommit, RunRollback, RunCheckpoint, RunRestore, Run
<1>8. ASSUME Crash PROVE OneOwner'
  BY <1>8 DEF Crash, Holding, Awaits
<1>9. ASSUME UNCHANGED vars PROVE OneOwner'
  BY <1>9 DEF vars
<1> QED
  BY <1>4, <1>5, <1>6, <1>7, <1>8, <1>9 DEF Next

(* The lock is held by exactly the coroutine that stands at an await inside *)
(* it, for any number of coroutines and however each leaves: two writers    *)
(* are never inside at once, and none leaves without giving the lock back.  *)
THEOREM LockOwnership == Spec => []OneOwner
<1>1. Init => OneOwner
  BY ConstantsAssumption DEF Init, OneOwner, Holding, Awaits
<1>2. TInv /\ OneOwner /\ [Next]_vars => OneOwner'
  BY OneOwnerStep
<1> QED
  BY <1>1, <1>2, TInvariant, PTL DEF Spec

-----------------------------------------------------------------------------
(* The connection is given back clean.                                      *)
(*                                                                          *)
(* The owner of the lock has at most one call in flight, the last of the    *)
(* queue; the others are abandoned.  And whenever the lock may be released, *)
(* the calls still queued leave no transaction open: each BEGIN or          *)
(* statement among them is followed by a COMMIT or a ROLLBACK.              *)

InFlight ==
  /\ lock \in Task /\ reply[lock] = "none"
  /\ queue # <<>>
  /\ queue[Len(queue)].task = lock
  /\ queue[Len(queue)].kind = pc[lock]
  /\ queue[Len(queue)].awaited

LastAwaited ==
  /\ \A i \in 1..Len(queue) : queue[i].awaited => i = Len(queue) /\ InFlight
  /\ lock \in Task /\ reply[lock] = "none" => InFlight

Closes(call) == call.kind \in {"commit", "rollback"}

\* The first n calls of q leave the connection without a transaction, when it
\* has one open before them or not.
Settled(open, q, n) ==
  /\ open => \E j \in 1..n : Closes(q[j])
  /\ \A i \in 1..n : q[i].kind \in {"begin", "write"} =>
       \E j \in (i + 1)..n : Closes(q[j])

Clean ==
  /\ lock = NoTask => Settled(inTx, queue, Len(queue))
  /\ lock \in Task =>
       /\ pc[lock] \in {"commit", "rollback", "checkpoint", "restore"} =>
            Settled(inTx, queue, Len(queue))
       /\ pc[lock] = "begin" /\ reply[lock] = "none" =>
            Settled(inTx, queue, Len(queue) - 1)
       /\ pc[lock] = "begin" /\ reply[lock] = "error" =>
            Settled(inTx, queue, Len(queue))

\* A COMMIT or a ROLLBACK at the end settles any queue.
LEMMA ClosingSettles ==
  ASSUME NEW q \in Seq(Calls), NEW t \in Task, NEW kind \in {"commit", "rollback"}, NEW open
  PROVE  Settled(open, With(q, t, kind), Len(q) + 1)
<1>1. kind \in Holding
  BY DEF Holding, Awaits
<1>2. With(q, t, kind)[Len(q) + 1].kind = kind
  BY <1>1, WithCalls
<1>3. Closes(With(q, t, kind)[Len(q) + 1])
  BY <1>2 DEF Closes
<1> QED
  BY <1>2, <1>3 DEF Settled

\* A checkpoint or a restore at the end changes nothing, and whatever comes
\* last does not unsettle what is before it.
LEMMA AppendSettles ==
  ASSUME NEW q \in Seq(Calls), NEW t \in Task, NEW kind \in Holding, NEW open,
         Settled(open, q, Len(q))
  PROVE  /\ Settled(open, With(q, t, kind), Len(q))
         /\ kind \in {"checkpoint", "restore"} => Settled(open, With(q, t, kind), Len(q) + 1)
<1> DEFINE w == With(q, t, kind)
<1>1. \A i \in 1..Len(q) : w[i] = q[i]
  BY WithCalls
<1>2. w[Len(q) + 1].kind = kind
  BY WithCalls
<1>3. Len(q) \in Nat
  OBVIOUS
<1>4. Settled(open, w, Len(q))
  BY <1>1, <1>3 DEF Settled
<1>5. ASSUME kind \in {"checkpoint", "restore"} PROVE Settled(open, w, Len(q) + 1)
  BY <1>2, <1>3, <1>4, <1>5 DEF Settled
<1> QED
  BY <1>4, <1>5

\* Abandoning a call does not take it out of the queue.
LEMMA AbandonSettles ==
  ASSUME NEW q \in Seq(Calls), NEW t \in Task, NEW open, Settled(open, q, Len(q))
  PROVE  Settled(open, Abandoned(q, t), Len(q))
<1>1. \A i \in 1..Len(q) : Abandoned(q, t)[i].kind = q[i].kind
  BY AbandonedCalls
<1>2. \A i \in 1..Len(q) : Closes(Abandoned(q, t)[i]) <=> Closes(q[i])
  BY <1>1 DEF Closes
<1>3. Len(q) \in Nat
  OBVIOUS
<1> QED
  BY <1>1, <1>2, <1>3 DEF Settled

\* The worker runs the first of n settled calls.
LEMMA RunSettles ==
  ASSUME TInv, ~CommitMayFail, Worker, NEW n \in Nat \ {0}, n <= Len(queue),
         Settled(inTx, queue, n)
  PROVE  Settled(inTx', queue', n - 1)
<1> USE Types
<1>1. queue # <<>> /\ queue' = Tail(queue)
  BY DEF Worker, RunBegin, RunWrite, RunCommit, RunRollback, RunCheckpoint, RunRestore, Run
<1>2. \A i \in 1..(n - 1) : queue'[i] = queue[i + 1]
  BY <1>1
<1>3. \A i \in 1..(n - 1) : queue'[i].kind \in {"begin", "write"} =>
        \E j \in (i + 1)..(n - 1) : Closes(queue'[j])
  <2> SUFFICES ASSUME NEW i \in 1..(n - 1), queue'[i].kind \in {"begin", "write"}
               PROVE  \E j \in (i + 1)..(n - 1) : Closes(queue'[j])
    OBVIOUS
  <2>1. queue[i + 1].kind \in {"begin", "write"}
    BY <1>2
  <2>2. i + 1 \in 1..n /\ (i + 1) + 1 = i + 2
    OBVIOUS
  <2>3. PICK k \in (i + 2)..n : Closes(queue[k])
    BY <2>1, <2>2 DEF Settled
  <2>4. k - 1 \in (i + 1)..(n - 1) /\ k - 1 \in 1..(n - 1) /\ (k - 1) + 1 = k
    OBVIOUS
  <2>5. queue'[k - 1] = queue[k]
    BY <1>2, <2>4
  <2> QED
    BY <2>3, <2>4, <2>5
\* A later call closes what the first one opened or did not close.
<1>4. ASSUME NEW k \in 2..n, Closes(queue[k])
      PROVE  \E j \in 1..(n - 1) : Closes(queue'[j])
  <2>1. k - 1 \in 1..(n - 1) /\ (k - 1) + 1 = k
    OBVIOUS
  <2>2. queue'[k - 1] = queue[k]
    BY <1>2, <2>1
  <2> QED
    BY <1>4, <2>1, <2>2
<1>5. queue[1] = Head(queue)
  BY <1>1
<1>6. inTx' => \E j \in 1..(n - 1) : Closes(queue'[j])
  <2>1. CASE Head(queue).kind \in {"begin", "write"}
    <3>1. 1 \in 1..n /\ 1 + 1 = 2
      OBVIOUS
    <3>2. PICK k \in 2..n : Closes(queue[k])
      BY <2>1, <1>5, <3>1 DEF Settled
    <3> QED
      BY <1>4, <3>2
  <2>2. CASE Head(queue).kind \in {"commit", "rollback"}
    <3>1. ~inTx'
      BY <2>2, RunTypes DEF Worker, RunBegin, RunWrite, RunCommit, RunRollback, RunCheckpoint,
                            RunRestore, Run
    <3> QED
      BY <3>1
  <2>3. CASE Head(queue).kind \in {"checkpoint", "restore"}
    <3>1. inTx' = inTx
      BY <2>3 DEF Worker, RunBegin, RunWrite, RunCommit, RunRollback, RunCheckpoint, RunRestore,
                  Run, conn
    <3>2. ~Closes(queue[1])
      BY <2>3, <1>5 DEF Closes
    <3>3. ASSUME inTx PROVE \E j \in 1..(n - 1) : Closes(queue'[j])
      <4>1. PICK k \in 1..n : Closes(queue[k])
        BY <3>3 DEF Settled
      <4>2. k \in 2..n
        BY <3>2, <4>1
      <4> QED
        BY <1>4, <4>1, <4>2
    <3> QED
      BY <3>1, <3>3
  <2>4. Head(queue) \in Calls
    BY <1>1
  <2>5. Head(queue).kind \in Holding
    BY <2>4 DEF Calls
  <2> QED
    BY <2>1, <2>2, <2>3, <2>5 DEF Holding, Awaits
<1> QED
  BY <1>3, <1>6 DEF Settled

\* An owner that issues a call has no other in flight.
LEMMA AwaitLast ==
  ASSUME TInv, NEW t \in Task, NEW kind \in Holding, NEW q \in Seq(Calls),
         \A i \in 1..Len(q) : ~q[i].awaited,
         lock' = t, pc' = [pc EXCEPT ![t] = kind], reply' = [reply EXCEPT ![t] = "none"],
         queue' = With(q, t, kind)
  PROVE  LastAwaited'
<1>1. Len(q) \in Nat
  OBVIOUS
<1>2. /\ Len(queue') = Len(q) + 1
      /\ \A i \in 1..Len(q) : ~queue'[i].awaited
      /\ queue'[Len(q) + 1].task = t
      /\ queue'[Len(q) + 1].kind = kind
      /\ queue'[Len(q) + 1].awaited
  BY WithCalls
<1>3. pc'[t] = kind /\ reply'[t] = "none"
  BY Types
<1>4. queue' # <<>>
  BY <1>1, <1>2
<1>5. InFlight'
  BY <1>2, <1>3, <1>4 DEF InFlight
<1>6. \A i \in 1..Len(queue') : queue'[i].awaited => i = Len(queue')
  BY <1>1, <1>2
<1> QED
  BY <1>5, <1>6 DEF LastAwaited

\* Nothing is in flight when the lock is free, when the owner's reply is there,
\* or once the owner was cancelled.
LEMMA NothingAwaited ==
  ASSUME TInv, LastAwaited, NEW t \in Task
  PROVE  /\ lock = NoTask => \A i \in 1..Len(queue) : ~queue[i].awaited
         /\ lock = t /\ reply[t] # "none" => \A i \in 1..Len(queue) : ~queue[i].awaited
         /\ lock = t => \A i \in 1..Len(queue) : ~Abandoned(queue, t)[i].awaited
<1>1. \A i \in 1..Len(queue) : queue[i].awaited => InFlight /\ queue[i].task = lock
  BY DEF LastAwaited, InFlight
<1>2. InFlight => lock # NoTask /\ reply[lock] = "none"
  BY ConstantsAssumption DEF InFlight
<1>3. \A i \in 1..Len(queue) :
        Abandoned(queue, t)[i].awaited = (queue[i].awaited /\ queue[i].task # t)
  BY Types, AbandonedCalls
<1> QED
  BY <1>1, <1>2, <1>3

LEMMA LastAwaitedStep ==
  ASSUME TInv, OneOwner, LastAwaited, [Next]_vars
  PROVE  LastAwaited'
<1> USE Types, ConstantsAssumption
<1>1. ASSUME NEW t \in Task, NEW kind \in Holding, lock = NoTask, lock' = t, Await(t, kind)
      PROVE  LastAwaited'
  BY <1>1, NothingAwaited, AwaitLast DEF Await
<1>2. ASSUME NEW t \in Task, NEW kind \in Holding, pc[t] \in Holding, reply[t] # "none",
             UNCHANGED lock, Await(t, kind)
      PROVE  LastAwaited'
  <2>1. lock = t
    BY <1>2 DEF OneOwner
  <2> QED
    BY <1>2, <2>1, NothingAwaited, AwaitLast DEF Await
<1>3. ASSUME lock' = NoTask, queue' \in Seq(Calls), \A i \in 1..Len(queue') : ~queue'[i].awaited
      PROVE  LastAwaited'
  BY <1>3 DEF LastAwaited, InFlight
<1>4. ASSUME NEW t \in Task, NEW at, pc[t] \notin Holding, pc' = [pc EXCEPT ![t] = at],
             UNCHANGED <<lock, reply, queue>>
      PROVE  LastAwaited'
  <2>1. lock # t
    BY <1>4 DEF OneOwner
  <2>2. lock \in Task => pc'[lock] = pc[lock]
    BY <1>4, <2>1
  <2>3. InFlight' <=> InFlight
    BY <1>4, <2>2 DEF InFlight
  <2> QED
    BY <1>4, <2>3 DEF LastAwaited
<1>5. ASSUME NEW t \in Task, NEW j \in Jobs, Call(t, j) PROVE LastAwaited'
  <2>1. CASE lock = NoTask /\ waiters = <<>>
    BY <1>5, <2>1, <1>1 DEF Call, EnterLock, Holding, Awaits
  <2>2. CASE ~(lock = NoTask /\ waiters = <<>>)
    BY <1>5, <2>2, <1>4 DEF Call, Holding, Awaits
  <2> QED
    BY <2>1, <2>2
<1>6. ASSUME NEW t \in Task, Resume(t) PROVE LastAwaited'
  <2>1. CASE Acquire(t)
    BY <2>1, <1>1 DEF Acquire, EnterLock, Holding, Awaits
  <2>2. CASE Begun(t) \/ Wrote(t) \/ BodyRaised(t) \/ CheckpointReturned(t)
    BY <2>2, <1>2 DEF Begun, Wrote, BodyRaised, CheckpointReturned, Holding, Awaits
  <2>3. CASE BeginFailed(t) \/ RolledBack(t) \/ CommitReturned(t) \/ Restored(t)
    <3>1. pc[t] \in Holding /\ reply[t] # "none" /\ lock' = NoTask /\ UNCHANGED queue
      BY <2>3 DEF BeginFailed, RolledBack, CommitReturned, Restored, Leave, Holding, Awaits
    <3>2. lock = t
      BY <3>1 DEF OneOwner
    <3> QED
      BY <3>1, <3>2, <1>3, NothingAwaited
  <2> QED
    BY <1>6, <2>1, <2>2, <2>3 DEF Resume
<1>7. ASSUME NEW t \in Task, Cancel(t) PROVE LastAwaited'
  <2>1. CASE CancelWaiting(t)
    BY <2>1, <1>4 DEF CancelWaiting, Holding, Awaits
  <2>2. CASE CancelCovered(t) \/ CancelUncovered(t)
    <3>1. pc[t] \in Holding
      BY <2>2 DEF CancelCovered, CancelUncovered, Holding, Awaits
    <3>2. lock = t
      BY <3>1 DEF OneOwner
    <3>3. /\ Abandoned(queue, t) \in Seq(Calls)
          /\ \A i \in 1..Len(Abandoned(queue, t)) : ~Abandoned(queue, t)[i].awaited
      BY <3>2, NothingAwaited, AbandonedCalls
    <3>4. CASE CancelCovered(t)
      <4>1. PICK kind \in {"rollback", "restore"} :
              /\ pc' = [pc EXCEPT ![t] = kind]
              /\ queue' = With(Abandoned(queue, t), t, kind)
        BY <3>4 DEF CancelCovered
      <4>2. kind \in Holding
        BY DEF Holding, Awaits
      <4>3. lock' = t /\ reply' = [reply EXCEPT ![t] = "none"]
        BY <3>2, <3>4 DEF CancelCovered
      <4> QED
        BY <3>3, <4>1, <4>2, <4>3, AwaitLast
    <3>5. CASE CancelUncovered(t)
      BY <3>3, <3>5, <1>3 DEF CancelUncovered, Leave
    <3> QED
      BY <2>2, <3>4, <3>5
  <2> QED
    BY <1>7, <2>1, <2>2 DEF Cancel
<1>8. ASSUME Worker PROVE LastAwaited'
  <2>1. PICK kind \in Holding, r \in {"ok", "error"} : Run(kind, r)
    BY <1>8 DEF Worker, RunBegin, RunWrite, RunCommit, RunRollback, RunCheckpoint, RunRestore,
                Holding, Awaits
  <2>2. /\ queue # <<>> /\ queue' = Tail(queue) /\ UNCHANGED <<pc, lock>>
        /\ Len(queue) \in Nat \ {0} /\ Len(queue') = Len(queue) - 1
        /\ Head(queue) = queue[1] /\ queue' \in Seq(Calls)
    BY <2>1 DEF Run
  <2>3. \A i \in 1..Len(queue') : queue'[i] = queue[i + 1] /\ i + 1 \in 1..Len(queue)
    BY <2>2
  <2>4. CASE queue[1].awaited
    <3> HIDE Types, ConstantsAssumption
    <3>0. 1 \in 1..Len(queue)
      BY <2>2
    <3>1. Len(queue) = 1 /\ InFlight
      BY <3>0, <2>4 DEF LastAwaited
    <3>2. queue[1].task = lock /\ lock \in Task
      BY <3>1 DEF InFlight
    <3>3. reply' = [reply EXCEPT ![lock] = r]
      BY <2>1, <2>2, <2>4, <3>2 DEF Run
    <3>4. Len(queue') = 0
      BY <2>2, <3>1
    <3>5. \A i \in 1..Len(queue') : i \in {}
      BY <3>4
    <3>6. reply'[lock'] # "none"
      BY <2>2, <3>2, <3>3, Types
    <3> QED
      BY <3>5, <3>6 DEF LastAwaited
  <2>5. CASE ~queue[1].awaited
    <3>1. reply' = reply
      BY <2>1, <2>2, <2>5 DEF Run
    <3>2. InFlight => InFlight'
      <4> SUFFICES ASSUME InFlight PROVE InFlight'
        OBVIOUS
      <4>1. Len(queue) # 1
        BY <2>5 DEF InFlight
      <4>2. Len(queue') \in 1..Len(queue') /\ Len(queue') + 1 = Len(queue)
        BY <2>2, <4>1
      <4>3. queue'[Len(queue')] = queue[Len(queue)]
        BY <2>3, <4>2
      <4>4. queue' # <<>>
        <5> HIDE Types, ConstantsAssumption
        <5> SUFFICES ASSUME queue' = <<>> PROVE FALSE
          OBVIOUS
        <5>1. Len(queue') = 0
          OBVIOUS
        <5> QED
          BY <4>2, <5>1
      <4> QED
        BY <2>2, <3>1, <4>3, <4>4 DEF InFlight
    <3>3. \A i \in 1..Len(queue') : queue'[i].awaited => i = Len(queue') /\ InFlight
      <4> HIDE Types, ConstantsAssumption
      <4> SUFFICES ASSUME NEW i \in 1..Len(queue'), queue'[i].awaited
                   PROVE  i = Len(queue') /\ InFlight
        OBVIOUS
      <4>1. i + 1 \in 1..Len(queue) /\ queue[i + 1].awaited
        BY <2>3
      <4>2. i + 1 = Len(queue) /\ InFlight
        BY <4>1 DEF LastAwaited
      <4>3. Len(queue') = Len(queue) - 1 /\ Len(queue) \in Nat
        BY <2>2
      <4> QED
        BY <4>2, <4>3
    <3> QED
      BY <2>2, <3>1, <3>2, <3>3 DEF LastAwaited
  <2> QED
    BY <2>4, <2>5
<1>9. ASSUME Crash PROVE LastAwaited'
  BY <1>9 DEF Crash, LastAwaited
<1>10. ASSUME UNCHANGED vars PROVE LastAwaited'
  BY <1>10 DEF vars, LastAwaited, InFlight
<1> QED
  BY <1>5, <1>6, <1>7, <1>8, <1>9, <1>10 DEF Next

\* The two conditions under which db.py keeps its promise: the await of BEGIN
\* is not cancelled, and COMMIT does not fail (both are outside the try).
Covered == "begin" \notin CancelPoints /\ ~CommitMayFail

LEMMA CleanStep ==
  ASSUME TInv, OneOwner, LastAwaited, Clean, Covered, [Next]_vars
  PROVE  Clean'
<1> USE Types, ConstantsAssumption
\* What the lock's next owner finds is settled; its own call comes last.
<1>1. ASSUME NEW t \in Task, NEW kind \in {"begin", "checkpoint"}, lock = NoTask,
             lock' = t, Await(t, kind), UNCHANGED inTx
      PROVE  Clean'
  <2>1. kind \in Holding
    BY DEF Holding, Awaits
  <2>2. Settled(inTx, queue, Len(queue))
    BY <1>1 DEF Clean
  <2>3. /\ Settled(inTx, With(queue, t, kind), Len(queue))
        /\ kind = "checkpoint" => Settled(inTx, With(queue, t, kind), Len(queue) + 1)
    BY <2>1, <2>2, AppendSettles
  <2>4. queue' = With(queue, t, kind) /\ Len(queue') = Len(queue) + 1 /\ Len(queue) \in Nat
    BY <1>1, <2>1, WithCalls DEF Await
  <2>5. Len(queue') - 1 = Len(queue)
    BY <2>4
  <2>6. pc'[t] = kind /\ reply'[t] = "none" /\ inTx' = inTx
    BY <1>1 DEF Await
  <2> QED
    BY <1>1, <2>3, <2>4, <2>5, <2>6 DEF Clean
\* An owner that issues a COMMIT or a ROLLBACK settles the queue.
<1>2. ASSUME NEW t \in Task, NEW kind \in {"commit", "rollback"}, NEW q \in Seq(Calls),
             lock' = t, pc' = [pc EXCEPT ![t] = kind], queue' = With(q, t, kind)
      PROVE  Clean'
  <2>1. kind \in Holding
    BY DEF Holding, Awaits
  <2>2. Len(queue') = Len(q) + 1
    BY <1>2, <2>1, WithCalls
  <2>3. Settled(inTx', queue', Len(queue'))
    BY <1>2, <2>2, ClosingSettles
  <2>4. pc'[t] = kind
    BY <1>2
  <2> QED
    BY <1>2, <2>3, <2>4 DEF Clean
\* Inside the body nothing is claimed.
<1>3. ASSUME NEW t \in Task, lock' = t, pc'[t] = "write" PROVE Clean'
  BY <1>3 DEF Clean
\* The end of a checkpoint adds a call that opens nothing.
<1>4. ASSUME NEW t \in Task, NEW q \in Seq(Calls), Settled(inTx, q, Len(q)), lock' = t,
             pc'[t] = "restore", queue' = With(q, t, "restore"), UNCHANGED inTx
      PROVE  Clean'
  <2>1. "restore" \in Holding
    BY DEF Holding, Awaits
  <2>2. Settled(inTx, queue', Len(q) + 1) /\ Len(queue') = Len(q) + 1
    BY <1>4, <2>1, AppendSettles, WithCalls
  <2> QED
    BY <1>4, <2>2 DEF Clean
\* Who leaves, leaves the queue settled.
<1>5. ASSUME lock' = NoTask, Settled(inTx', queue', Len(queue')) PROVE Clean'
  BY <1>5 DEF Clean
\* A coroutine outside the lock changes nothing.
<1>6. ASSUME NEW t \in Task, NEW at, pc[t] \notin Holding, pc' = [pc EXCEPT ![t] = at],
             UNCHANGED <<lock, reply, queue, inTx>>
      PROVE  Clean'
  <2>1. lock # t
    BY <1>6 DEF OneOwner
  <2>2. lock \in Task => pc'[lock] = pc[lock]
    BY <1>6, <2>1
  <2> QED
    BY <1>6, <2>2 DEF Clean
<1>7. ASSUME NEW t \in Task, NEW j \in Jobs, Call(t, j) PROVE Clean'
  <2>1. CASE lock = NoTask /\ waiters = <<>>
    BY <1>7, <2>1, <1>1 DEF Call, EnterLock, conn
  <2>2. CASE ~(lock = NoTask /\ waiters = <<>>)
    BY <1>7, <2>2, <1>6 DEF Call, Holding, Awaits, conn
  <2> QED
    BY <2>1, <2>2
<1>8. ASSUME NEW t \in Task, Resume(t) PROVE Clean'
  <2>1. CASE Acquire(t)
    BY <2>1, <1>1 DEF Acquire, EnterLock, conn
  <2>2. ASSUME pc[t] \in Holding PROVE lock = t
    BY <2>2 DEF OneOwner
  <2>3. CASE Begun(t)
    <3>1. lock' = t
      BY <2>2, <2>3 DEF Begun, Holding, Awaits
    <3>2. pc'[t] = "write"
      BY <2>3 DEF Begun, Await
    <3> QED
      BY <3>1, <3>2, <1>3
  <2>4. CASE BeginFailed(t)
    <3>1. lock = t /\ pc[t] = "begin" /\ reply[t] = "error"
      BY <2>2, <2>4 DEF BeginFailed, Holding, Awaits
    <3>2. Settled(inTx, queue, Len(queue))
      BY <3>1 DEF Clean
    <3> QED
      BY <2>4, <3>2, <1>5 DEF BeginFailed, Leave, conn
  <2>5. CASE Wrote(t)
    <3>1. lock' = t
      BY <2>2, <2>5 DEF Wrote, Holding, Awaits
    <3>2. CASE done[t] + 1 < NParts
      <4>1. pc'[t] = "write"
        BY <2>5, <3>2 DEF Wrote, Await
      <4> QED
        BY <3>1, <4>1, <1>3
    <3>3. CASE ~(done[t] + 1 < NParts)
      BY <2>5, <3>1, <3>3, <1>2 DEF Wrote, Await
    <3> QED
      BY <3>2, <3>3
  <2>6. CASE BodyRaised(t)
    <3>1. lock' = t
      BY <2>2, <2>6 DEF BodyRaised, Holding, Awaits
    <3> QED
      BY <2>6, <3>1, <1>2 DEF BodyRaised, Await
  <2>7. CASE RolledBack(t) \/ CommitReturned(t) \/ Restored(t)
    <3>1. lock = t /\ pc[t] \in {"rollback", "commit", "restore"}
      BY <2>2, <2>7 DEF RolledBack, CommitReturned, Restored, Holding, Awaits
    <3>2. Settled(inTx, queue, Len(queue))
      BY <3>1 DEF Clean
    <3> QED
      BY <2>7, <3>2, <1>5 DEF RolledBack, CommitReturned, Restored, Leave, conn
  <2>8. CASE CheckpointReturned(t)
    <3>1. lock = t /\ lock' = t /\ pc[t] = "checkpoint"
      BY <2>2, <2>8 DEF CheckpointReturned, Holding, Awaits
    <3>2. Settled(inTx, queue, Len(queue))
      BY <3>1 DEF Clean
    <3>3. pc'[t] = "restore" /\ queue' = With(queue, t, "restore") /\ UNCHANGED inTx
      BY <2>8 DEF CheckpointReturned, Await, conn
    <3> QED
      BY <3>1, <3>2, <3>3, <1>4
  <2> QED
    BY <1>8, <2>1, <2>3, <2>4, <2>5, <2>6, <2>7, <2>8 DEF Resume
<1>9. ASSUME NEW t \in Task, Cancel(t) PROVE Clean'
  <2>1. CASE CancelWaiting(t)
    BY <2>1, <1>6 DEF CancelWaiting, Holding, Awaits, conn
  <2>2. Abandoned(queue, t) \in Seq(Calls) /\ Len(Abandoned(queue, t)) = Len(queue)
    BY AbandonedCalls
  <2>3. ASSUME pc[t] \in {"checkpoint", "commit", "rollback", "restore"}
        PROVE  Settled(inTx, Abandoned(queue, t), Len(Abandoned(queue, t)))
    <3>1. lock = t
      BY <2>3 DEF OneOwner, Holding, Awaits
    <3>2. Settled(inTx, queue, Len(queue))
      BY <2>3, <3>1 DEF Clean
    <3> QED
      BY <2>2, <3>2, AbandonSettles
  <2>4. CASE CancelCovered(t)
    <3>1. lock' = t /\ UNCHANGED inTx /\ pc[t] \in {"write", "checkpoint"}
      BY <2>4 DEF CancelCovered, OneOwner, Holding, Awaits, conn
    <3>2. CASE pc[t] = "write"
      <4>1. /\ pc' = [pc EXCEPT ![t] = "rollback"]
            /\ queue' = With(Abandoned(queue, t), t, "rollback")
        BY <2>4, <3>2 DEF CancelCovered
      <4> QED
        BY <2>2, <3>1, <4>1, <1>2
    <3>3. CASE pc[t] = "checkpoint"
      <4>1. /\ pc' = [pc EXCEPT ![t] = "restore"]
            /\ queue' = With(Abandoned(queue, t), t, "restore")
        BY <2>4, <3>3 DEF CancelCovered
      <4>2. pc'[t] = "restore"
        BY <4>1
      <4> QED
        BY <2>2, <2>3, <3>1, <3>3, <4>1, <4>2, <1>4
    <3> QED
      BY <3>1, <3>2, <3>3
  <2>5. CASE CancelUncovered(t)
    <3>1. /\ pc[t] \in {"commit", "rollback", "restore"}
          /\ lock' = NoTask /\ queue' = Abandoned(queue, t) /\ inTx' = inTx
      BY <2>5 DEF CancelUncovered, Leave, conn, Covered
    <3> QED
      BY <2>3, <3>1, <1>5
  <2> QED
    BY <1>9, <2>1, <2>4, <2>5 DEF Cancel
<1>10. ASSUME Worker PROVE Clean'
  <2>1. PICK kind \in Holding, r \in {"ok", "error"} : Run(kind, r)
    BY <1>10 DEF Worker, RunBegin, RunWrite, RunCommit, RunRollback, RunCheckpoint, RunRestore,
                 Holding, Awaits
  <2>2. queue # <<>> /\ queue' = Tail(queue) /\ UNCHANGED <<pc, lock>>
    BY <2>1 DEF Run
  <2>3. /\ Len(queue) \in Nat \ {0} /\ Len(queue') = Len(queue) - 1
        /\ Head(queue) = queue[1]
    BY <2>2
  <2>4. ASSUME NEW n \in Nat \ {0}, n <= Len(queue), Settled(inTx, queue, n)
        PROVE  Settled(inTx', queue', n - 1)
    BY <1>10, <2>4, RunSettles DEF Covered
  <2>5. Settled(inTx, queue, Len(queue)) => Settled(inTx', queue', Len(queue'))
    BY <2>3, <2>4
  <2>6. lock = NoTask => Settled(inTx', queue', Len(queue'))
    BY <2>5 DEF Clean
  <2>7. ASSUME lock \in Task, pc[lock] \in {"commit", "rollback", "checkpoint", "restore"}
        PROVE  Settled(inTx', queue', Len(queue'))
    BY <2>5, <2>7 DEF Clean
  <2>8. ASSUME lock \in Task, pc[lock] = "begin", reply'[lock] = "none"
        PROVE  Settled(inTx', queue', Len(queue') - 1)
    <3>1. reply[lock] = "none"
      BY <2>1, <2>8, RunTypes DEF Run, Calls
    <3>2. ~queue[1].awaited
      <4>1. ASSUME queue[1].awaited PROVE reply'[lock] = r
        <5>1. 1 \in 1..Len(queue)
          BY <2>3
        <5>2. InFlight /\ 1 = Len(queue)
          BY <4>1, <5>1 DEF LastAwaited
        <5>3. queue[1].task = lock
          BY <5>2 DEF InFlight
        <5>4. reply' = [reply EXCEPT ![lock] = r]
          BY <2>1, <2>3, <4>1, <5>3 DEF Run
        <5> QED
          BY <2>8, <5>4
      <4> QED
        BY <2>8, <4>1
    <3>3. InFlight
      BY <2>8, <3>1 DEF LastAwaited
    <3>4. Len(queue) # 1
      BY <3>2, <3>3 DEF InFlight
    <3>5. Settled(inTx, queue, Len(queue) - 1)
      BY <2>8, <3>1 DEF Clean
    <3>6. Len(queue) - 1 \in Nat \ {0} /\ Len(queue) - 1 <= Len(queue)
      BY <2>3, <3>4
    <3>7. Settled(inTx', queue', (Len(queue) - 1) - 1)
      BY <2>4, <3>5, <3>6
    <3> QED
      BY <2>3, <3>7
  <2>9. ASSUME lock \in Task, pc[lock] = "begin", reply'[lock] = "error"
        PROVE  Settled(inTx', queue', Len(queue'))
    <3>1. CASE reply[lock] = "error"
      BY <2>5, <2>9, <3>1 DEF Clean
    <3>2. CASE reply[lock] # "error"
      \* The reply has just come: BEGIN was refused, with nothing behind it.
      <4>1. Head(queue).awaited /\ Head(queue).task = lock /\ r = "error"
        BY <2>1, <2>9, <3>2, RunTypes DEF Run, Calls
      <4>2. 1 \in 1..Len(queue)
        BY <2>3
      <4>3. InFlight /\ Len(queue) = 1
        BY <2>3, <4>1, <4>2 DEF LastAwaited
      <4>4. Head(queue).kind = "begin" /\ reply[lock] = "none"
        BY <2>3, <2>9, <4>3 DEF InFlight
      <4>5. kind = "begin"
        BY <2>1, <4>4 DEF Run
      <4>6. Settled(inTx, queue, 0)
        BY <2>9, <4>3, <4>4 DEF Clean
      <4>7. ~inTx
        BY <4>6 DEF Settled
      <4>8. reply' # [reply EXCEPT ![lock] = "ok"]
        BY <2>9
      <4>9. ~Run("begin", "ok")
        BY <4>1, <4>8 DEF Run
      <4>10. inTx' = inTx
        BY <1>10, <4>4, <4>9 DEF Worker, RunBegin, RunWrite, RunCommit, RunRollback,
                                 RunCheckpoint, RunRestore, Run, conn
      <4>11. Len(queue') = 0
        BY <2>3, <4>3
      <4> QED
        BY <4>7, <4>10, <4>11 DEF Settled
    <3> QED
      BY <3>1, <3>2
  <2> QED
    BY <2>2, <2>6, <2>7, <2>8, <2>9 DEF Clean
<1>11. ASSUME Crash PROVE Clean'
  <2>1. Len(queue') = 0 /\ inTx' = FALSE /\ lock' = NoTask
    BY <1>11 DEF Crash
  <2> QED
    BY <2>1 DEF Clean, Settled
<1>12. ASSUME UNCHANGED vars PROVE Clean'
  BY <1>12 DEF vars, Clean
<1> QED
  BY <1>7, <1>8, <1>9, <1>10, <1>11, <1>12 DEF Next

(* db.py:251-253 promises a rollback "on any BaseException".  While BEGIN is *)
(* not cancelled and COMMIT does not fail, it is so: whatever is cancelled   *)
(* and whoever waits, once the lock is free and the worker idle the          *)
(* connection has no transaction open.  The run wt_begin_cancelled shows     *)
(* that the first condition cannot be dropped.                               *)
THEOREM CleanConnection ==
  ASSUME Covered
  PROVE  Spec => []NoLeakedTransaction
<1> DEFINE Inv == OneOwner /\ LastAwaited /\ Clean
<1>1. Init => Inv
  <2> SUFFICES ASSUME Init PROVE Inv
    OBVIOUS
  <2>1. OneOwner
    BY ConstantsAssumption DEF Init, OneOwner, Holding, Awaits
  <2>2. Len(queue) = 0 /\ lock = NoTask /\ inTx = FALSE
    BY DEF Init
  <2>3. LastAwaited
    BY <2>2, ConstantsAssumption DEF LastAwaited
  <2>4. Clean
    BY <2>2, ConstantsAssumption DEF Clean, Settled
  <2> QED
    BY <2>1, <2>3, <2>4
<1>2. TInv /\ Inv /\ [Next]_vars => Inv'
  BY OneOwnerStep, LastAwaitedStep, CleanStep
<1>3. Inv => NoLeakedTransaction
  <2> SUFFICES ASSUME Inv, lock = NoTask, queue = <<>> PROVE ~inTx
    BY DEF NoLeakedTransaction
  <2>1. Len(queue) = 0
    OBVIOUS
  <2> QED
    BY <2>1 DEF Clean, Settled
<1> QED
  BY <1>1, <1>2, <1>3, TInvariant, PTL DEF Spec

-----------------------------------------------------------------------------
(* Whose work is written.                                                   *)
(*                                                                          *)
(* BEGIN is answered with "ok" only when no transaction is open, and then   *)
(* nothing is left on the queue: the body starts from the committed rows,   *)
(* with no call of anybody else before its own.  So each statement adds one *)
(* row of its coroutine, and a COMMIT is always alone on the queue when it  *)
(* is issued: whatever is queued later stands behind it.                    *)

\* The committed rows with the first n statements of t.
Partly(t, n) == [p \in Part |-> IF p <= n THEN t ELSE disk[p]]

AllOf(t) == [p \in Part |-> t]

ClosedIsSame == ~inTx => draft = disk

Opened ==
  \A t \in Task : pc[t] = "begin" /\ reply[t] = "ok" => queue = <<>> /\ draft = disk

Body ==
  \A t \in Task :
    /\ pc[t] \in {"write", "commit"} =>
         Len(queue) = IF reply[t] = "none" THEN 1 ELSE 0
    /\ pc[t] = "write" => draft = Partly(t, done[t] + IF reply[t] = "ok" THEN 1 ELSE 0)
    /\ pc[t] = "commit" =>
         CASE reply[t] = "none"  -> draft = AllOf(t)
           [] reply[t] = "ok"    -> draft = disk /\ t \in durable
           [] reply[t] = "error" -> draft \in {disk, AllOf(t)} /\ t \notin durable

CommitFirst ==
  \A i \in 1..Len(queue) : queue[i].kind = "commit" =>
    /\ i = 1
    /\ draft = AllOf(queue[i].task)
    /\ queue[i].task \notin durable
    /\ pc[queue[i].task] \in {"commit", "unsure"}

Decided ==
  \A t \in Task :
    /\ t \in durable => pc[t] \in {"commit", "unsure", "committed", "lost"}
    /\ pc[t] = "committed" => t \in durable

Work == ClosedIsSame /\ Opened /\ Body /\ CommitFirst /\ Decided

LEMMA PartlyNone ==
  ASSUME TInv, NEW t \in Task
  PROVE  Partly(t, 0) = disk
<1>1. disk \in [Part -> Task \cup {NoTask}]
  BY Types DEF Rows
<1>2. \A p \in Part : ~(p <= 0)
  BY ConstantsAssumption DEF Part
<1> QED
  BY <1>1, <1>2 DEF Partly

LEMMA PartlyAll ==
  ASSUME NEW t \in Task
  PROVE  Partly(t, NParts) = AllOf(t)
<1>1. \A p \in Part : p <= NParts
  BY ConstantsAssumption DEF Part
<1> QED
  BY <1>1 DEF Partly, AllOf

\* A further statement of t.
LEMMA PartlyNext ==
  ASSUME TInv, NEW t \in Task, NEW n \in Nat, n < NParts
  PROVE  [Partly(t, n) EXCEPT ![n + 1] = t] = Partly(t, n + 1)
<1>1. \A p \in Part : (p <= n + 1) <=> (p <= n \/ p = n + 1)
  BY ConstantsAssumption DEF Part
<1>2. [Partly(t, n) EXCEPT ![n + 1] = t]
        = [p \in Part |-> IF p = n + 1 THEN t ELSE IF p <= n THEN t ELSE disk[p]]
  BY DEF Partly
<1>3. \A p \in Part : (IF p = n + 1 THEN t ELSE IF p <= n THEN t ELSE disk[p])
                        = IF p <= n + 1 THEN t ELSE disk[p]
  BY <1>1
<1> QED
  BY <1>2, <1>3 DEF Partly

\* A coroutine issues a call other than a statement or a COMMIT: by taking the
\* lock, or inside it.
LEMMA IssueWork ==
  ASSUME TInv, OneOwner, Work, NEW t \in Task,
         NEW kind \in {"begin", "rollback", "checkpoint", "restore"},
         lock \in {NoTask, t}, pc[t] \notin {"commit"} \cup Ends,
         NEW q \in {queue, Abandoned(queue, t)}, queue' = With(q, t, kind),
         pc' = [pc EXCEPT ![t] = kind], reply' = [reply EXCEPT ![t] = "none"],
         UNCHANGED conn
  PROVE  Work'
<1> USE Types
<1>1. kind \in Holding
  BY DEF Holding, Awaits
<1>2. /\ q \in Seq(Calls) /\ Len(q) = Len(queue) /\ Len(q) \in Nat
      /\ \A i \in 1..Len(q) : q[i].kind = queue[i].kind /\ q[i].task = queue[i].task
  BY AbandonedCalls
<1>3. /\ Len(queue') = Len(q) + 1
      /\ \A i \in 1..Len(q) : queue'[i] = q[i]
      /\ queue'[Len(q) + 1].kind = kind
  BY <1>1, <1>2, WithCalls
<1>4. pc'[t] = kind /\ reply'[t] = "none"
  OBVIOUS
<1>5. \A u \in Task \ {t} : pc'[u] = pc[u] /\ pc[u] \notin {"begin", "write", "commit"}
  <2>1. \A u \in Task \ {t} : lock # u
    BY ConstantsAssumption
  <2> QED
    BY <2>1 DEF OneOwner, Holding, Awaits
<1>6. UNCHANGED <<inTx, draft, disk, durable>>
  BY DEF conn
<1>7. ClosedIsSame'
  BY <1>6 DEF Work, ClosedIsSame
<1>8. Opened'
  BY <1>4, <1>5 DEF Opened
<1>9. Body'
  BY <1>4, <1>5 DEF Body
<1>10. CommitFirst'
  <2> SUFFICES ASSUME NEW i \in 1..Len(queue'), queue'[i].kind = "commit"
               PROVE  /\ i = 1
                      /\ draft = AllOf(queue'[i].task)
                      /\ queue'[i].task \notin durable
                      /\ pc'[queue'[i].task] \in {"commit", "unsure"}
    BY <1>6 DEF CommitFirst, AllOf
  <2>1. i \in 1..Len(queue)
    BY <1>2, <1>3
  <2>2. queue[i].kind = "commit" /\ queue'[i].task = queue[i].task
    BY <1>2, <1>3, <2>1
  <2>3. /\ i = 1 /\ draft = AllOf(queue[i].task) /\ queue[i].task \notin durable
        /\ pc[queue[i].task] \in {"commit", "unsure"}
    BY <2>1, <2>2 DEF Work, CommitFirst
  <2>4. queue[i].task # t
    BY <2>3 DEF Ends
  <2> QED
    BY <2>2, <2>3, <2>4
<1>11. Decided'
  <2>1. t \notin durable
    BY DEF Work, Decided, Ends
  <2> QED
    BY <1>4, <1>6, <2>1 DEF Work, Decided
<1> QED
  BY <1>7, <1>8, <1>9, <1>10, <1>11 DEF Work

\* A coroutine leaves the module.
LEMMA LeaveWork ==
  ASSUME TInv, OneOwner, Work, NEW t \in Task, NEW end \in Ends, pc[t] \in Holding,
         Leave(t, end), queue' \in {queue, Abandoned(queue, t)}, UNCHANGED <<reply, conn>>,
         t \in durable => end \in {"unsure", "committed"},
         end = "committed" => t \in durable,
         end = "unsure" \/ pc[t] # "commit" \/ Len(queue) = 0
  PROVE  Work'
<1> USE Types
<1>1. /\ Len(queue') = Len(queue) /\ Len(queue) \in Nat
      /\ \A i \in 1..Len(queue) : /\ queue'[i].kind = queue[i].kind
                                  /\ queue'[i].task = queue[i].task
  BY AbandonedCalls
<1>2. lock = t
  BY DEF OneOwner
<1>3. pc'[t] = end /\ end \notin {"begin", "write", "commit"}
  BY DEF Leave, Ends
<1>4. \A u \in Task \ {t} : pc'[u] = pc[u] /\ pc[u] \notin {"begin", "write", "commit"}
  BY <1>2 DEF Leave, OneOwner, Holding, Awaits
<1>5. UNCHANGED <<inTx, draft, disk, durable>>
  BY DEF conn
<1>6. ClosedIsSame'
  BY <1>5 DEF Work, ClosedIsSame
<1>7. Opened' /\ Body'
  BY <1>3, <1>4 DEF Opened, Body
<1>8. CommitFirst'
  <2> SUFFICES ASSUME NEW i \in 1..Len(queue), queue[i].kind = "commit"
               PROVE  /\ i = 1
                      /\ draft = AllOf(queue[i].task)
                      /\ queue[i].task \notin durable
                      /\ pc'[queue[i].task] \in {"commit", "unsure"}
    BY <1>1, <1>5 DEF CommitFirst, AllOf
  <2>1. /\ i = 1 /\ draft = AllOf(queue[i].task) /\ queue[i].task \notin durable
        /\ pc[queue[i].task] \in {"commit", "unsure"}
    BY DEF Work, CommitFirst
  <2>2. queue[i].task = t => end = "unsure"
    BY <1>1, <2>1 DEF Holding, Awaits
  <2>3. queue[i] \in Calls
    OBVIOUS
  <2>4. queue[i].task \in Task
    BY <2>3 DEF Calls
  <2> QED
    BY <1>3, <1>4, <2>1, <2>2, <2>4
<1>9. Decided'
  BY <1>3, <1>4, <1>5 DEF Work, Decided
<1> QED
  BY <1>6, <1>7, <1>8, <1>9 DEF Work

\* A coroutine outside the lock moves and touches nothing else.
LEMMA OutsideWork ==
  ASSUME TInv, Work, NEW t \in Task, NEW at \in {"lock", "aborted"},
         pc[t] \in {"start", "lock"}, pc' = [pc EXCEPT ![t] = at],
         UNCHANGED <<reply, done, queue, conn>>
  PROVE  Work'
<1> USE Types
<1>1. pc'[t] = at /\ \A u \in Task \ {t} : pc'[u] = pc[u]
  OBVIOUS
<1>2. UNCHANGED <<inTx, draft, disk, durable>>
  BY DEF conn
<1>3. ClosedIsSame'
  BY <1>2 DEF Work, ClosedIsSame
<1>4. Opened'
  BY <1>1, <1>2 DEF Work, Opened
<1>5. Body'
  <2>1. \A u \in Task : pc'[u] \in {"write", "commit"} => pc'[u] = pc[u]
    BY <1>1
  <2>2. \A u \in Task : \A n : Partly(u, n)' = Partly(u, n) /\ AllOf(u)' = AllOf(u)
    BY <1>2 DEF Partly, AllOf
  <2>3. Body /\ UNCHANGED <<queue, reply, done, draft, disk, durable>>
    BY <1>2 DEF Work
  <2>4. ASSUME NEW u \in Task, pc'[u] = "write"
        PROVE  /\ Len(queue') = IF reply'[u] = "none" THEN 1 ELSE 0
               /\ draft' = Partly(u, done[u] + IF reply[u] = "ok" THEN 1 ELSE 0)'
    <3>1. PICK n : n = done[u] + IF reply[u] = "ok" THEN 1 ELSE 0
      OBVIOUS
    <3>2. Len(queue) = (IF reply[u] = "none" THEN 1 ELSE 0) /\ draft = Partly(u, n)
      BY <2>1, <2>3, <2>4, <3>1 DEF Body
    <3> QED
      BY <2>2, <2>3, <3>1, <3>2
  <2>5. ASSUME NEW u \in Task, pc'[u] = "commit"
        PROVE  /\ Len(queue') = IF reply'[u] = "none" THEN 1 ELSE 0
               /\ CASE reply'[u] = "none"  -> draft' = AllOf(u)'
                    [] reply'[u] = "ok"    -> draft' = disk' /\ u \in durable'
                    [] reply'[u] = "error" -> draft' \in {disk', AllOf(u)'} /\ u \notin durable'
    BY <2>1, <2>2, <2>3, <2>5 DEF Body
  <2> QED
    BY <2>4, <2>5 DEF Body
<1>6. CommitFirst'
  BY <1>1, <1>2, SMTT(30) DEF Work, CommitFirst, AllOf
<1>7. Decided'
  BY <1>1, <1>2 DEF Work, Decided
<1> QED
  BY <1>3, <1>4, <1>5, <1>6, <1>7 DEF Work

\* What the worker's step does to the queue, and what it answers to the owner.
LEMMA RunAnswers ==
  ASSUME TInv, LastAwaited, NEW kind \in Holding, NEW r \in {"ok", "error"}, Run(kind, r)
  PROVE  /\ queue # <<>> /\ queue' = Tail(queue) /\ Head(queue) = queue[1]
         /\ Len(queue) \in Nat \ {0} /\ Len(queue') = Len(queue) - 1
         /\ \A i \in 1..Len(queue') : i + 1 \in 1..Len(queue) /\ queue'[i] = queue[i + 1]
         /\ \A t \in Task : reply'[t] # reply[t] =>
              /\ t = lock /\ reply[t] = "none" /\ reply'[t] = r
              /\ Len(queue) = 1 /\ queue[1].task = t /\ kind = pc[t]
<1> USE Types
<1>1. /\ queue # <<>> /\ queue' = Tail(queue) /\ Head(queue) = queue[1]
      /\ Len(queue) \in Nat \ {0} /\ Len(queue') = Len(queue) - 1
  BY DEF Run
<1>2. \A i \in 1..Len(queue') : i + 1 \in 1..Len(queue) /\ queue'[i] = queue[i + 1]
  BY <1>1
<1>3. ASSUME NEW t \in Task, reply'[t] # reply[t]
      PROVE  /\ t = lock /\ reply[t] = "none" /\ reply'[t] = r
             /\ Len(queue) = 1 /\ queue[1].task = t /\ kind = pc[t]
  <2>1. /\ queue[1].awaited
        /\ reply' = [reply EXCEPT ![queue[1].task] = r]
        /\ kind = queue[1].kind
    BY <1>1, <1>3 DEF Run
  <2>2. queue[1].task = t /\ reply'[t] = r
    BY <1>3, <2>1
  <2>3. 1 \in 1..Len(queue)
    BY <1>1
  <2>4. 1 = Len(queue) /\ InFlight
    BY <2>1, <2>3 DEF LastAwaited
  <2> QED
    BY <2>1, <2>2, <2>4 DEF InFlight
<1> QED
  BY <1>1, <1>2, <1>3

\* A call and what it does to the rows, by what it returns.
Effect(kind, r) ==
  \/ /\ kind = "begin" /\ r = "ok" /\ ~inTx /\ inTx' = TRUE
     /\ UNCHANGED <<draft, disk, durable>>
  \/ /\ kind = "write" /\ r = "ok" /\ inTx' = TRUE
     /\ draft' = [draft EXCEPT ![done[queue[1].task] + 1] = queue[1].task]
     /\ UNCHANGED <<disk, durable>>
  \/ /\ kind = "commit" /\ r = "ok" /\ inTx' = FALSE
     /\ disk' = draft /\ durable' = durable \cup {queue[1].task} /\ UNCHANGED draft
  \/ /\ kind = "rollback" \/ (kind = "commit" /\ r = "error")
     /\ inTx' = FALSE /\ draft' = disk /\ UNCHANGED <<disk, durable>>
  \/ /\ r = "error" \/ kind \in {"checkpoint", "restore"}
     /\ UNCHANGED conn

LEMMA WorkerEffect ==
  ASSUME TInv, Worker
  PROVE  \E kind \in Holding, r \in {"ok", "error"} : Run(kind, r) /\ Effect(kind, r)
<1> USE Types DEF Holding, Awaits, Effect
<1>1. \A kind, r : Run(kind, r) => Head(queue) = queue[1]
  BY DEF Run
<1>2. CASE RunBegin
  BY <1>1, <1>2 DEF RunBegin
<1>3. CASE RunWrite
  BY <1>1, <1>3 DEF RunWrite
<1>4. CASE RunCommit
  BY <1>1, <1>4 DEF RunCommit
<1>5. CASE RunRollback
  BY <1>5 DEF RunRollback
<1>6. CASE RunCheckpoint \/ RunRestore
  BY <1>6 DEF RunCheckpoint, RunRestore
<1> QED
  BY <1>2, <1>3, <1>4, <1>5, <1>6 DEF Worker

LEMMA WorkerWork ==
  ASSUME TInv, OneOwner, LastAwaited, Work, Worker
  PROVE  Work'
<1> USE Types
<1>1. PICK kind \in Holding, r \in {"ok", "error"} : Run(kind, r) /\ Effect(kind, r)
  BY WorkerEffect
<1>2. /\ queue # <<>> /\ Head(queue) = queue[1] /\ queue' = Tail(queue)
      /\ Len(queue) \in Nat \ {0} /\ Len(queue') = Len(queue) - 1
      /\ \A i \in 1..Len(queue') : i + 1 \in 1..Len(queue) /\ queue'[i] = queue[i + 1]
  <2> HIDE Types
  <2> QED
    BY <1>1, RunAnswers
<1>3. /\ queue[1].kind = kind /\ queue[1].task \in Task
      /\ UNCHANGED <<pc, done, lock>>
  BY <1>1, RunAnswers, RunTypes DEF Run, Calls
<1>4. \A t \in Task : reply'[t] # reply[t] =>
        /\ t = lock /\ reply[t] = "none" /\ reply'[t] = r
        /\ Len(queue) = 1 /\ queue[1].task = t /\ kind = pc[t]
  BY <1>1, RunAnswers
\* What the head of the queue commits is its own, and for the first time.
<1>5. kind = "commit" =>
        /\ draft = AllOf(queue[1].task)
        /\ queue[1].task \notin durable
        /\ pc[queue[1].task] \in {"commit", "unsure"}
  <2>1. 1 \in 1..Len(queue)
    BY <1>2
  <2> QED
    BY <1>3, <2>1 DEF Work, CommitFirst
<1>6. ClosedIsSame'
  BY <1>1 DEF Effect, conn, Work, ClosedIsSame
<1>7. CommitFirst'
  <2>1. \A i \in 1..Len(queue') : queue'[i].kind # "commit"
    <3> SUFFICES ASSUME NEW i \in 1..Len(queue'), queue'[i].kind = "commit" PROVE FALSE
      OBVIOUS
    <3>1. i + 1 \in 1..Len(queue) /\ queue[i + 1].kind = "commit"
      BY <1>2
    <3>2. i + 1 = 1
      BY <3>1 DEF Work, CommitFirst
    <3> QED
      BY <1>2, <3>2
  <2> QED
    BY <2>1 DEF CommitFirst
<1>8. Decided'
  <2>1. durable' = durable \/ (kind = "commit" /\ durable' = durable \cup {queue[1].task})
    BY <1>1 DEF Effect, conn
  <2> QED
    BY <1>3, <1>5, <2>1 DEF Work, Decided
<1>9. Opened'
  <2> SUFFICES ASSUME NEW t \in Task, pc[t] = "begin", reply'[t] = "ok"
               PROVE  queue' = <<>> /\ draft' = disk'
    BY <1>3 DEF Opened
  <2>1. reply[t] # "ok"
    BY <1>2 DEF Work, Opened
  <2>2. r = "ok" /\ Len(queue) = 1 /\ kind = "begin"
    BY <1>4, <2>1
  <2>3. queue' = <<>>
    BY <1>2, <2>2, <1>1 DEF Run
  <2>4. draft' = draft /\ disk' = disk /\ ~inTx
    BY <1>1, <2>2 DEF Effect
  <2> QED
    BY <2>3, <2>4 DEF Work, ClosedIsSame
<1>10. Body'
  <2>1. ASSUME NEW t \in Task, pc[t] \in {"write", "commit"}
        PROVE  /\ Len(queue) = 1 /\ Len(queue') = 0
               /\ reply[t] = "none" /\ reply'[t] = r /\ r # "none"
               /\ queue[1].task = t /\ kind = pc[t]
    <3>1. lock = t
      BY <2>1 DEF OneOwner, Holding, Awaits
    <3>2. reply[t] = "none" /\ Len(queue) = 1
      BY <1>2, <2>1 DEF Work, Body
    <3>3. InFlight
      BY <3>1, <3>2 DEF LastAwaited
    <3>4. queue[1].task = t /\ queue[1].kind = pc[t] /\ queue[1].awaited
      BY <3>1, <3>2, <3>3 DEF InFlight
    <3>5. reply' = [reply EXCEPT ![t] = r]
      BY <1>1, <1>2, <3>4 DEF Run
    <3> QED
      BY <1>2, <1>3, <3>2, <3>4, <3>5
  <2>2. ASSUME NEW t \in Task, pc[t] = "write"
        PROVE  draft' = (Partly(t, done[t] + IF reply[t] = "ok" THEN 1 ELSE 0))'
    <3>1. kind = "write" /\ queue[1].task = t /\ reply[t] = "none" /\ reply'[t] = r
      BY <2>1, <2>2
    <3>2. draft = Partly(t, done[t]) /\ disk' = disk
      <4>1. draft = Partly(t, done[t] + 0)
        BY <2>2, <3>1 DEF Work, Body
      <4>2. done[t] \in Nat /\ done[t] + 0 = done[t]
        BY ConstantsAssumption
      <4> QED
        BY <1>1, <3>1, <4>1, <4>2 DEF Effect, conn
    <3>3. CASE r = "ok"
      <4>1. draft' = [draft EXCEPT ![done[t] + 1] = t]
        BY <1>1, <3>1, <3>3 DEF Effect
      <4>2. done[t] < NParts /\ done[t] \in Nat
        BY <2>2, ConstantsAssumption DEF TInv, Counted
      <4>3. draft' = Partly(t, done[t] + 1)
        BY <3>2, <4>1, <4>2, PartlyNext
      <4> QED
        BY <1>3, <3>1, <3>2, <3>3, <4>3 DEF Partly
    <3>4. CASE r = "error"
      <4>1. draft' = draft /\ done[t] + 0 = done[t]
        BY <1>1, <3>1, <3>4, ConstantsAssumption DEF Effect, conn
      <4> QED
        BY <1>3, <3>1, <3>2, <3>4, <4>1 DEF Partly
    <3> QED
      BY <3>3, <3>4
  <2>3. ASSUME NEW t \in Task, pc[t] = "commit"
        PROVE  CASE reply'[t] = "none"  -> draft' = AllOf(t)'
                 [] reply'[t] = "ok"    -> draft' = disk' /\ t \in durable'
                 [] reply'[t] = "error" -> draft' \in {disk', AllOf(t)'} /\ t \notin durable'
    <3>1. kind = "commit" /\ queue[1].task = t /\ reply'[t] = r
      BY <2>1, <2>3
    <3>2. draft = AllOf(t) /\ t \notin durable
      BY <1>5, <3>1
    <3>3. AllOf(t)' = AllOf(t)
      BY DEF AllOf
    <3>4. CASE r = "ok"
      BY <1>1, <3>1, <3>4 DEF Effect
    <3>5. CASE r = "error"
      BY <1>1, <3>1, <3>2, <3>3, <3>5 DEF Effect, conn
    <3> QED
      BY <3>4, <3>5
  <2> QED
    BY <1>3, <2>1, <2>2, <2>3 DEF Body
<1> QED
  BY <1>6, <1>7, <1>8, <1>9, <1>10 DEF Work

\* BEGIN or a statement succeeded and the body goes on.
LEMMA GoOnWork ==
  ASSUME TInv, OneOwner, Work, NEW t \in Task, Begun(t) \/ Wrote(t)
  PROVE  Work'
<1> USE Types
<1> DEFINE kind == IF Begun(t) \/ done[t] + 1 < NParts THEN "write" ELSE "commit"
           d    == IF Begun(t) THEN 0 ELSE done[t] + 1
<1>1. /\ pc[t] \in {"begin", "write"} /\ reply[t] = "ok" /\ Await(t, kind)
      /\ UNCHANGED <<lock, conn>>
  BY DEF Begun, Wrote
<1>2. done'[t] = d /\ d \in Nat /\ d + 0 = d /\ \A u \in Task \ {t} : done'[u] = done[u]
  BY ConstantsAssumption DEF Begun, Wrote, TInv, Counted
<1>3. queue = <<>> /\ draft = Partly(t, d)
  <2>1. CASE Begun(t)
    BY <2>1, PartlyNone DEF Begun, Work, Opened
  <2>2. CASE ~Begun(t)
    <3>1. pc[t] = "write" /\ Len(queue) = 0
      BY <1>1, <2>2 DEF Wrote, Work, Body
    <3>2. queue = <<>>
      BY <3>1
    <3>3. draft = Partly(t, done[t] + 1)
      BY <1>1, <3>1 DEF Work, Body
    <3> QED
      BY <2>2, <3>2, <3>3
  <2> QED
    BY <2>1, <2>2
<1>4. kind = "commit" => draft = AllOf(t)
  <2>1. Begun(t) \/ (done[t] < NParts /\ done[t] \in Nat)
    BY <1>1, ConstantsAssumption DEF Wrote, TInv, Counted
  <2>2. kind = "commit" => d = NParts
    BY <2>1, ConstantsAssumption
  <2> QED
    BY <1>3, <2>2, PartlyAll
<1>5. kind \in Holding /\ kind \in {"write", "commit"}
  BY DEF Holding, Awaits
<1> HIDE DEF kind, d
<1>6. /\ Len(queue') = 1 /\ queue'[1].task = t /\ queue'[1].kind = kind
      /\ pc'[t] = kind /\ reply'[t] = "none"
  <2>1. Len(queue) = 0 /\ queue' = With(queue, t, kind)
    BY <1>1, <1>3 DEF Await
  <2>2. queue \in Seq(Calls)
    OBVIOUS
  <2>3. Len(queue') = 1 /\ queue'[1].task = t /\ queue'[1].kind = kind
    <3> HIDE Types
    <3>1. Len(With(queue, t, kind)) = Len(queue) + 1
      BY <1>5, <2>2, WithCalls
    <3>2. With(queue, t, kind)[Len(queue) + 1].task = t
      BY <1>5, <2>2, WithCalls
    <3>3. With(queue, t, kind)[Len(queue) + 1].kind = kind
      BY <1>5, <2>2, WithCalls
    <3>4. Len(queue) + 1 = 1
      BY <2>1
    <3> QED
      BY <2>1, <3>1, <3>2, <3>3, <3>4
  <2> QED
    BY <1>1, <2>3 DEF Await
<1>7. \A u \in Task \ {t} : pc'[u] = pc[u] /\ pc[u] \notin {"begin", "write", "commit"}
  <2>1. lock = t
    BY <1>1 DEF OneOwner, Holding, Awaits
  <2> QED
    BY <1>1, <2>1 DEF Await, OneOwner, Holding, Awaits
<1>8. UNCHANGED <<inTx, draft, disk, durable>>
  BY <1>1 DEF conn
<1>9. t \notin durable
  BY <1>1 DEF Work, Decided
<1>10. ClosedIsSame' /\ Opened'
  BY <1>5, <1>6, <1>7, <1>8 DEF Work, ClosedIsSame, Opened
<1>11. Body'
  <2>1. draft' = Partly(t, done[t] + IF reply[t] = "ok" THEN 1 ELSE 0)'
    BY <1>2, <1>3, <1>6, <1>8 DEF Partly
  <2>2. kind = "commit" => draft' = AllOf(t)'
    BY <1>4, <1>8 DEF AllOf
  <2> QED
    BY <1>5, <1>6, <1>7, <2>1, <2>2 DEF Body
<1>12. CommitFirst'
  BY <1>4, <1>6, <1>8, <1>9 DEF CommitFirst, AllOf
<1>13. Decided'
  BY <1>5, <1>6, <1>7, <1>8, <1>9 DEF Work, Decided
<1> QED
  BY <1>10, <1>11, <1>12, <1>13 DEF Work

LEMMA InitWork == Init => Work
<1> SUFFICES ASSUME Init PROVE Work
  OBVIOUS
<1>1. /\ inTx = FALSE /\ draft = disk /\ durable = {} /\ Len(queue) = 0
      /\ \A t \in Task : pc[t] = "start"
  BY DEF Init
<1>2. ClosedIsSame /\ Opened /\ Body /\ Decided
  BY <1>1 DEF ClosedIsSame, Opened, Body, Decided
<1>3. CommitFirst
  BY <1>1 DEF CommitFirst
<1> QED
  BY <1>2, <1>3 DEF Work

LEMMA WorkStep ==
  ASSUME TInv, OneOwner, LastAwaited, Work, [Next]_vars
  PROVE  Work'
<1> USE Types
<1>1. ASSUME NEW t \in Task, NEW j \in Jobs, Call(t, j) PROVE Work'
  <2>1. CASE lock = NoTask /\ waiters = <<>>
    <3> DEFINE kind == IF j = "transaction" THEN "begin" ELSE "checkpoint"
    <3>1. kind \in {"begin", "rollback", "checkpoint", "restore"}
      OBVIOUS
    <3>2. /\ pc[t] = "start" /\ UNCHANGED conn
          /\ Await(t, kind)
      BY <1>1, <2>1 DEF Call, EnterLock
    <3> QED
      BY <2>1, <3>1, <3>2, IssueWork DEF Await, Ends
  <2>2. CASE ~(lock = NoTask /\ waiters = <<>>)
    BY <1>1, <2>2, OutsideWork DEF Call
  <2> QED
    BY <2>1, <2>2
<1>2. ASSUME NEW t \in Task, Resume(t) PROVE Work'
  <2>1. CASE Acquire(t)
    <3> DEFINE kind == IF job[t] = "transaction" THEN "begin" ELSE "checkpoint"
    <3>1. kind \in {"begin", "rollback", "checkpoint", "restore"}
      OBVIOUS
    <3>2. /\ pc[t] = "lock" /\ lock = NoTask /\ UNCHANGED conn
          /\ Await(t, kind)
      BY <2>1 DEF Acquire, EnterLock
    <3> QED
      BY <3>1, <3>2, IssueWork DEF Await, Ends
  <2>2. CASE Begun(t) \/ Wrote(t)
    BY <2>2, GoOnWork
  <2>3. CASE BodyRaised(t)
    <3>1. pc[t] = "write" /\ lock = t
      BY <2>3 DEF BodyRaised, OneOwner, Holding, Awaits
    <3> QED
      BY <2>3, <3>1, IssueWork DEF BodyRaised, Await, Ends
  <2>4. CASE CheckpointReturned(t)
    <3>1. pc[t] = "checkpoint" /\ lock = t
      BY <2>4 DEF CheckpointReturned, OneOwner, Holding, Awaits
    <3> QED
      BY <2>4, <3>1, IssueWork DEF CheckpointReturned, Await, Ends
  <2>5. CASE BeginFailed(t) \/ RolledBack(t) \/ Restored(t)
    <3>1. pc[t] \in {"begin", "rollback", "restore"} /\ t \notin durable
      BY <2>5 DEF BeginFailed, RolledBack, Restored, Work, Decided
    <3>2. PICK end \in {"aborted", "truncated", "postponed"} : Leave(t, end)
      BY <2>5 DEF BeginFailed, RolledBack, Restored
    <3>3. UNCHANGED <<reply, queue, conn>>
      BY <2>5 DEF BeginFailed, RolledBack, Restored
    <3> QED
      BY <3>1, <3>2, <3>3, LeaveWork DEF Ends, Holding, Awaits
  <2>6. CASE CommitReturned(t)
    <3> DEFINE end == IF reply[t] = "ok" THEN "committed" ELSE "aborted"
    <3>1. pc[t] = "commit" /\ reply[t] # "none" /\ Leave(t, end)
      BY <2>6 DEF CommitReturned
    <3>2. Len(queue) = 0 /\ (t \in durable <=> reply[t] = "ok")
      BY <3>1 DEF Work, Body
    <3>3. UNCHANGED <<reply, queue, conn>>
      BY <2>6 DEF CommitReturned
    <3> QED
      BY <3>1, <3>2, <3>3, LeaveWork DEF Ends, Holding, Awaits
  <2> QED
    BY <1>2, <2>1, <2>2, <2>3, <2>4, <2>5, <2>6 DEF Resume
<1>3. ASSUME NEW t \in Task, Cancel(t) PROVE Work'
  <2>1. CASE CancelWaiting(t)
    BY <2>1, OutsideWork DEF CancelWaiting
  <2>2. CASE CancelCovered(t)
    <3>1. pc[t] \in {"write", "checkpoint"} /\ lock = t /\ UNCHANGED conn
      BY <2>2 DEF CancelCovered, OneOwner, Holding, Awaits
    <3>2. PICK kind \in {"rollback", "restore"} :
            /\ pc' = [pc EXCEPT ![t] = kind]
            /\ queue' = With(Abandoned(queue, t), t, kind)
            /\ reply' = [reply EXCEPT ![t] = "none"]
      BY <2>2 DEF CancelCovered
    <3> QED
      BY <3>1, <3>2, IssueWork DEF Ends
  <2>3. CASE CancelUncovered(t)
    <3> DEFINE end == CASE pc[t] = "commit" -> "unsure"
                        [] pc[t] = "restore" -> "postponed"
                        [] OTHER -> "aborted"
    <3>1. /\ pc[t] \in {"begin", "commit", "rollback", "restore"} /\ Leave(t, end)
          /\ queue' = Abandoned(queue, t) /\ UNCHANGED <<reply, conn>>
      BY <2>3 DEF CancelUncovered
    <3>2. t \in durable => pc[t] = "commit"
      BY <3>1 DEF Work, Decided
    <3>3. /\ pc[t] = "commit" => end = "unsure"
          /\ end \in Ends /\ end # "committed"
      BY <3>1 DEF Ends
    <3> HIDE DEF end
    <3> QED
      BY <3>1, <3>2, <3>3, LeaveWork DEF Holding, Awaits
  <2> QED
    BY <1>3, <2>1, <2>2, <2>3 DEF Cancel
<1>4. ASSUME Worker PROVE Work'
  BY <1>4, WorkerWork
<1>5. ASSUME Crash PROVE Work'
  <2>1. /\ Len(queue') = 0 /\ inTx' = FALSE /\ draft' = disk /\ UNCHANGED <<disk, durable>>
        /\ \A t \in Task : pc'[t] = IF pc[t] \in Awaits THEN "lost" ELSE pc[t]
    BY <1>5 DEF Crash
  <2>2. \A t \in Task : pc'[t] \notin {"begin", "write", "commit"}
    BY <2>1 DEF Awaits
  <2>3. Decided'
    BY <2>1 DEF Work, Decided, Awaits
  <2>4. ClosedIsSame' /\ CommitFirst'
    BY <2>1 DEF ClosedIsSame, CommitFirst
  <2>5. Opened' /\ Body'
    BY <2>2 DEF Opened, Body
  <2> QED
    BY <2>3, <2>4, <2>5 DEF Work
<1>6. ASSUME UNCHANGED vars PROVE Work'
  <2>1. UNCHANGED <<pc, reply, done, queue, inTx, draft, disk, durable>>
    BY <1>6 DEF vars
  <2>2. (ClosedIsSame /\ Opened /\ Decided)' = (ClosedIsSame /\ Opened /\ Decided)
    BY <2>1 DEF ClosedIsSame, Opened, Decided
  <2>3. Body' = Body
    BY <2>1 DEF Body, Partly, AllOf
  <2>4. CommitFirst' = CommitFirst
    BY <2>1 DEF CommitFirst, AllOf
  <2> QED
    BY <2>2, <2>3, <2>4 DEF Work
<1> QED
  BY <1>1, <1>2, <1>3, <1>4, <1>5, <1>6 DEF Next

\* What the four invariants say together, for the theorems below.
WorkInv == OneOwner /\ LastAwaited /\ Work

LEMMA WorkInvariant == Spec => [](TInv /\ WorkInv)
<1>1. Init => WorkInv
  <2>1. Init => OneOwner
    BY ConstantsAssumption DEF Init, OneOwner, Holding, Awaits
  <2>2. ASSUME Init PROVE LastAwaited
    <3>1. Len(queue) = 0 /\ lock = NoTask
      BY <2>2 DEF Init
    <3> QED
      BY <3>1, ConstantsAssumption DEF LastAwaited
  <2> QED
    BY <2>1, <2>2, InitWork DEF WorkInv
<1>2. TInv /\ WorkInv /\ [Next]_vars => WorkInv'
  BY OneOwnerStep, LastAwaitedStep, WorkStep DEF WorkInv
<1> QED
  BY <1>1, <1>2, TInvariant, PTL DEF Spec

(* While a coroutine is in its body or its COMMIT is pending, every row the *)
(* connection sees is the committed one or its own: nobody else's work can  *)
(* be committed or rolled back with it (ADR 0011), for any number of        *)
(* coroutines and statements and whatever is cancelled or fails (db.py).    *)
THEOREM OnlyOwnWork == Spec => []OwnWorkOnly
<1>1. TInv /\ WorkInv => OwnWorkOnly
  <2> SUFFICES ASSUME TInv, WorkInv, NEW t \in Task, pc[t] \in {"write", "commit"}, NEW p \in Part
               PROVE  draft[p] \in {disk[p], t}
    BY DEF OwnWorkOnly
  <2>1. Body
    BY DEF WorkInv, Work
  <2>2. CASE pc[t] = "write"
    BY <2>1, <2>2 DEF Body, Partly
  <2>3. CASE pc[t] = "commit"
    <3>1. reply[t] \in {"none", "ok", "error"}
      BY Types
    <3> QED
      BY <2>1, <2>3, <3>1 DEF Body, AllOf
  <2> QED
    BY <2>2, <2>3
<1> QED
  BY <1>1, WorkInvariant, PTL

(* Who saw transaction() return has a durable write; who saw it raise from  *)
(* BEGIN, the body or the rollback has none, and no call that is still      *)
(* queued will make one later (db.py:245-282).                              *)
THEOREM OutcomeIsHonest == Spec => []HonestOutcome
<1>1. TInv /\ WorkInv => HonestOutcome
  <2> SUFFICES ASSUME TInv, WorkInv, NEW t \in Task
               PROVE  /\ pc[t] = "committed" => t \in durable
                      /\ pc[t] = "aborted" => t \notin durable /\ ~CommitPending(t)
    BY DEF HonestOutcome
  <2>1. Decided /\ CommitFirst
    BY DEF WorkInv, Work
  <2>2. DOMAIN queue = 1..Len(queue)
    BY Types
  <2>3. CommitPending(t) => pc[t] \in {"commit", "unsure"}
    BY <2>1, <2>2 DEF CommitPending, CommitFirst
  <2> QED
    BY <2>1, <2>3 DEF Decided
<1> QED
  BY <1>1, WorkInvariant, PTL

-----------------------------------------------------------------------------
(* The detailed system implements AtomicWrites.  Only the step that runs a  *)
(* COMMIT changes the committed rows, and it commits whole the transaction  *)
(* at the head of the queue; every other step leaves what is decided as it  *)
(* is, so it maps to an abort of some transactions or to nothing.           *)

\* A COMMIT of t is queued only at the head.
LEMMA PendingIsHead ==
  ASSUME TInv, Work, NEW t \in Task
  PROVE  CommitPending(t) <=>
           /\ Len(queue) > 0 /\ queue[1].kind = "commit" /\ queue[1].task = t
<1>1. DOMAIN queue = 1..Len(queue) /\ Len(queue) \in Nat
  BY Types
<1>2. CommitFirst
  BY DEF Work
<1>3. ASSUME CommitPending(t)
      PROVE  Len(queue) > 0 /\ queue[1].kind = "commit" /\ queue[1].task = t
  <2>1. PICK i \in 1..Len(queue) : queue[i].task = t /\ queue[i].kind = "commit"
    BY <1>1, <1>3 DEF CommitPending
  <2>2. i = 1
    BY <1>2, <2>1 DEF CommitFirst
  <2> QED
    BY <1>1, <2>1, <2>2
<1>4. ASSUME Len(queue) > 0, queue[1].kind = "commit", queue[1].task = t
      PROVE  CommitPending(t)
  <2>1. 1 \in DOMAIN queue
    BY <1>1, <1>4
  <2> QED
    BY <1>4, <2>1 DEF CommitPending
<1> QED
  BY <1>3, <1>4

\* A queue that is a longer one, or whose calls were abandoned.
LEMMA PendingKept ==
  ASSUME TInv, NEW t \in Task, NEW u \in Task, NEW kind \in Holding,
         NEW q \in {queue, Abandoned(queue, u)}, queue' \in {q, With(q, u, kind)},
         kind # "commit" \/ t # u, ~CommitPending(t)
  PROVE  ~CommitPending(t)'
<1>1. /\ q \in Seq(Calls) /\ Len(q) = Len(queue) /\ Len(q) \in Nat
      /\ \A i \in 1..Len(q) : q[i].kind = queue[i].kind /\ q[i].task = queue[i].task
  <2>1. queue \in Seq(Calls)
    BY Types
  <2>2. CASE q = queue
    BY <2>1, <2>2
  <2>3. CASE q = Abandoned(queue, u)
    BY <2>1, <2>3, AbandonedCalls
  <2> QED
    BY <2>2, <2>3
<1>2. ~\E i \in 1..Len(queue) : queue[i].task = t /\ queue[i].kind = "commit"
  BY Types DEF CommitPending
<1>3. queue' \in Seq(Calls)
  BY <1>1, WithCalls
<1>4. SUFFICES ASSUME NEW i \in 1..Len(queue'), queue'[i].task = t, queue'[i].kind = "commit"
               PROVE  FALSE
  BY <1>3 DEF CommitPending
<1>5. CASE queue' = q
  BY <1>1, <1>2, <1>4, <1>5
<1>6. CASE queue' = With(q, u, kind)
  <2>1. /\ Len(queue') = Len(q) + 1
        /\ \A j \in 1..Len(q) : queue'[j] = q[j]
        /\ queue'[Len(q) + 1].task = u /\ queue'[Len(q) + 1].kind = kind
    BY <1>1, <1>6, WithCalls
  <2>2. i # Len(q) + 1
    BY <1>4, <2>1
  <2>3. i \in 1..Len(q)
    BY <1>1, <2>1, <2>2
  <2> QED
    BY <1>1, <1>2, <1>4, <2>1, <2>3
<1> QED
  BY <1>5, <1>6

\* What an action does to the program counters and to the queue, for the
\* coroutines whose call has ended.
LEMMA EndedStays ==
  ASSUME TInv, WorkInv, [Next]_vars, NEW t \in Task, pc[t] \in Ends, ~CommitPending(t)
  PROVE  pc'[t] \in Ends /\ ~CommitPending(t)'
<1> USE Types
\* A coroutine u that has not ended moves; the queue keeps what t does not have.
<1>1. ASSUME NEW u \in Task, pc[u] \notin Ends, NEW at, pc' = [pc EXCEPT ![u] = at],
             NEW kind \in Holding, NEW q \in {queue, Abandoned(queue, u)},
             queue' \in {q, With(q, u, kind)}
      PROVE  pc'[t] \in Ends /\ ~CommitPending(t)'
  <2>1. t # u
    BY <1>1
  <2> QED
    BY <1>1, <2>1, PendingKept
<1>2. ASSUME NEW u \in Task, NEW j \in Jobs, Call(u, j) PROVE pc'[t] \in Ends /\ ~CommitPending(t)'
  <2>1. CASE lock = NoTask /\ waiters = <<>>
    BY <1>2, <2>1, <1>1 DEF Call, EnterLock, Await, Ends, Holding, Awaits
  <2>2. CASE ~(lock = NoTask /\ waiters = <<>>)
    <3>1. pc[u] \notin Ends /\ pc' = [pc EXCEPT ![u] = "lock"] /\ queue' = queue
      BY <1>2, <2>2 DEF Call, Ends
    <3>2. "begin" \in Holding
      BY DEF Holding, Awaits
    <3> QED
      BY <3>1, <3>2, <1>1
  <2> QED
    BY <2>1, <2>2
<1>3. ASSUME NEW u \in Task, Resume(u) PROVE pc'[t] \in Ends /\ ~CommitPending(t)'
  <2>1. CASE Acquire(u)
    <3>1. PICK kind \in {"begin", "checkpoint"} : Await(u, kind)
      BY <2>1 DEF Acquire, EnterLock
    <3>2. pc[u] \notin Ends /\ kind \in Holding
      BY <2>1 DEF Acquire, Ends, Holding, Awaits
    <3> QED
      BY <3>1, <3>2, <1>1 DEF Await
  <2>2. CASE Begun(u) \/ Wrote(u) \/ BodyRaised(u) \/ CheckpointReturned(u)
    BY <2>2, <1>1 DEF Begun, Wrote, BodyRaised, CheckpointReturned, Await, Ends, Holding, Awaits
  <2>3. CASE BeginFailed(u) \/ RolledBack(u) \/ CommitReturned(u) \/ Restored(u)
    <3>1. PICK end : pc' = [pc EXCEPT ![u] = end]
      BY <2>3 DEF BeginFailed, RolledBack, CommitReturned, Restored, Leave
    <3>2. pc[u] \notin Ends /\ queue' = queue
      BY <2>3 DEF BeginFailed, RolledBack, CommitReturned, Restored, Ends
    <3>3. "begin" \in Holding
      BY DEF Holding, Awaits
    <3> QED
      BY <3>1, <3>2, <3>3, <1>1
  <2> QED
    BY <1>3, <2>1, <2>2, <2>3 DEF Resume
<1>4. ASSUME NEW u \in Task, Cancel(u) PROVE pc'[t] \in Ends /\ ~CommitPending(t)'
  <2>1. "begin" \in Holding /\ "rollback" \in Holding /\ "restore" \in Holding
    BY DEF Holding, Awaits
  <2>2. CASE CancelWaiting(u)
    BY <2>1, <2>2, <1>1 DEF CancelWaiting, Ends
  <2>3. CASE CancelCovered(u)
    <3>1. PICK kind \in {"rollback", "restore"} :
            /\ pc' = [pc EXCEPT ![u] = kind]
            /\ queue' = With(Abandoned(queue, u), u, kind)
      BY <2>3 DEF CancelCovered
    <3>2. pc[u] \notin Ends
      BY <2>3 DEF CancelCovered, Ends
    <3> QED
      BY <2>1, <3>1, <3>2, <1>1
  <2>4. CASE CancelUncovered(u)
    <3>1. PICK end : pc' = [pc EXCEPT ![u] = end]
      BY <2>4 DEF CancelUncovered, Leave
    <3>2. pc[u] \notin Ends /\ queue' = Abandoned(queue, u)
      BY <2>4 DEF CancelUncovered, Ends
    <3> QED
      BY <2>1, <3>1, <3>2, <1>1
  <2> QED
    BY <1>4, <2>2, <2>3, <2>4 DEF Cancel
<1>5. ASSUME Worker PROVE pc'[t] \in Ends /\ ~CommitPending(t)'
  <2>1. PICK kind \in Holding, r \in {"ok", "error"} : Run(kind, r)
    BY <1>5, WorkerEffect
  <2>2. /\ Len(queue) \in Nat
        /\ \A i \in 1..Len(queue') : i + 1 \in 1..Len(queue) /\ queue'[i] = queue[i + 1]
    BY <2>1, RunAnswers DEF WorkInv
  <2>3. queue' \in Seq(Calls) /\ pc' = pc
    BY <2>1, RunTypes DEF Run
  <2>4. ~\E i \in 1..Len(queue) : queue[i].task = t /\ queue[i].kind = "commit"
    BY DEF CommitPending
  <2>5. ~\E i \in 1..Len(queue') : queue'[i].task = t /\ queue'[i].kind = "commit"
    BY <2>2, <2>4
  <2>6. DOMAIN queue' = 1..Len(queue')
    BY <2>3
  <2> QED
    BY <2>3, <2>5, <2>6 DEF CommitPending
<1>6. ASSUME Crash PROVE pc'[t] \in Ends /\ ~CommitPending(t)'
  <2>1. queue' = <<>> /\ pc'[t] = pc[t]
    BY <1>6 DEF Crash, Ends, Awaits
  <2> QED
    BY <2>1 DEF CommitPending
<1>7. ASSUME UNCHANGED vars PROVE pc'[t] \in Ends /\ ~CommitPending(t)'
  BY <1>7 DEF vars, CommitPending
<1> QED
  BY <1>2, <1>3, <1>4, <1>5, <1>6, <1>7 DEF Next

\* Only a COMMIT that takes effect changes the committed rows.
LEMMA OnlyCommitStores ==
  ASSUME TInv, [Next]_vars
  PROVE  \/ UNCHANGED <<disk, durable>>
         \/ Run("commit", "ok") /\ disk' = draft /\ durable' = durable \cup {queue[1].task}
<1>1. ASSUME Worker
      PROVE  \/ UNCHANGED <<disk, durable>>
             \/ Run("commit", "ok") /\ disk' = draft /\ durable' = durable \cup {queue[1].task}
  <2>1. PICK kind \in Holding, r \in {"ok", "error"} : Run(kind, r) /\ Effect(kind, r)
    BY <1>1, WorkerEffect
  <2> QED
    BY <2>1 DEF Effect, conn
<1>2. ASSUME NEW t \in Task, Resume(t) PROVE UNCHANGED <<disk, durable>>
  BY <1>2 DEF Resume, Acquire, Begun, BeginFailed, Wrote, BodyRaised, RolledBack,
              CommitReturned, CheckpointReturned, Restored, conn
<1>3. ASSUME NEW t \in Task, Cancel(t) PROVE UNCHANGED <<disk, durable>>
  BY <1>3 DEF Cancel, CancelWaiting, CancelCovered, CancelUncovered, conn
<1> QED
  BY <1>1, <1>2, <1>3 DEF Next, Call, Crash, vars, conn

LEMMA StepImplements ==
  ASSUME TInv, WorkInv, [Next]_vars
  PROVE  [Abstract!Next]_(Abstract!vars)
<1> USE Types
<1>1. CASE UNCHANGED <<disk, durable>>
  <2> DEFINE S == {t \in Task : Fate(t) = "open" /\ Fate(t)' = "aborted"}
  <2>1. ASSUME NEW t \in Task, Fate(t) # "open" PROVE Fate(t)' = Fate(t)
    BY <1>1, <2>1, EndedStays DEF Fate
  <2>2. ASSUME NEW t \in Task, Fate(t) = "open" PROVE Fate(t)' \in {"open", "aborted"}
    BY <1>1, <2>2 DEF Fate
  <2>3. [t \in Task |-> Fate(t)]' = [t \in Task |-> IF t \in S THEN "aborted" ELSE Fate(t)]
    BY <2>1, <2>2
  <2>4. S \in SUBSET Task /\ \A t \in S : [u \in Task |-> Fate(u)][t] = "open"
    OBVIOUS
  <2>5. CASE S = {}
    BY <1>1, <2>3, <2>5 DEF Abstract!vars
  <2>6. CASE S # {}
    <3>1. Abstract!Abort(S)
      BY <1>1, <2>3, <2>4, <2>6 DEF Abstract!Abort
    <3> QED
      BY <2>4, <3>1 DEF Abstract!Next
  <2> QED
    BY <2>5, <2>6
<1>2. CASE ~UNCHANGED <<disk, durable>>
  <2> PICK c : c = queue[1].task
    OBVIOUS
  <2>1. Run("commit", "ok") /\ disk' = draft /\ durable' = durable \cup {c}
    BY <1>2, OnlyCommitStores
  <2>2. "commit" \in Holding
    BY DEF Holding, Awaits
  <2>3. /\ queue # <<>> /\ Head(queue) = queue[1] /\ Len(queue) \in Nat \ {0}
        /\ \A i \in 1..Len(queue') : i + 1 \in 1..Len(queue) /\ queue'[i] = queue[i + 1]
    BY <2>1, <2>2, RunAnswers DEF WorkInv
  <2>4. 1 \in 1..Len(queue) /\ queue[1].kind = "commit" /\ c \in Task /\ UNCHANGED pc
    BY <2>1, <2>2, <2>3, RunTypes DEF Run, Calls
  <2>5. draft = AllOf(c) /\ c \notin durable /\ pc[c] \in {"commit", "unsure"}
    BY <2>3, <2>4 DEF WorkInv, Work, CommitFirst
  <2>6. Fate(c) = "open"
    <3>1. CommitPending(c)
      BY <2>3, <2>4, PendingIsHead DEF WorkInv
    <3> QED
      BY <2>5, <3>1 DEF Fate
  <2>7. Fate(c)' = "committed"
    BY <2>1 DEF Fate
  <2>8. ASSUME NEW t \in Task, t # c PROVE Fate(t)' = Fate(t)
    <3>1. ~CommitPending(t)
      BY <2>4, <2>8, PendingIsHead DEF WorkInv
    <3>2. pc[t] \in Ends => ~CommitPending(t)'
      BY <3>1, EndedStays
    <3>3. t \in durable' <=> t \in durable
      BY <2>1, <2>8
    <3> QED
      BY <2>4, <3>1, <3>2, <3>3 DEF Fate
  <2>9. [t \in Task |-> Fate(t)]' = [[t \in Task |-> Fate(t)] EXCEPT ![c] = "committed"]
    BY <2>4, <2>7, <2>8
  <2>10. disk' = [p \in Part |-> c]
    BY <2>1, <2>5 DEF AllOf
  <2>11. Abstract!Commit(c)
    BY <2>4, <2>6, <2>9, <2>10 DEF Abstract!Commit
  <2> QED
    BY <2>4, <2>11 DEF Abstract!Next
<1> QED
  BY <1>1, <1>2

(* The transactions of db.py are atomic: whatever is interleaved, cancelled *)
(* or killed, the committed rows change all together, by one transaction,   *)
(* and what was decided for a transaction is never changed.                 *)
THEOREM TransactionsAreAtomic == Spec => ImplementsAtomicWrites
<1>1. Init => Abstract!Init
  <2> SUFFICES ASSUME Init PROVE Abstract!Init
    OBVIOUS
  <2>1. \A t \in Task : Fate(t) = "open"
    BY DEF Init, Fate, Ends
  <2> QED
    BY <2>1 DEF Init, Abstract!Init
<1>2. TInv /\ WorkInv /\ [Next]_vars => [Abstract!Next]_(Abstract!vars)
  BY StepImplements
<1> QED
  BY <1>1, <1>2, WorkInvariant, PTL DEF Spec, ImplementsAtomicWrites, Abstract!Spec
-----------------------------------------------------------------------------
(* Nobody is forgotten.  The line holds everybody who waits for the lock, and *)
(* each once: a waiter that is cancelled leaves no place behind that would     *)
(* never move.                                                                 *)

InLine ==
  /\ \A i, j \in DOMAIN waiters : waiters[i] = waiters[j] => i = j
  /\ \A t \in Task : pc[t] = "lock" <=> \E i \in DOMAIN waiters : waiters[i] = t

(* Whoever awaits the connection has its answer, or its own call still on the *)
(* queue; whoever awaits the lock is in the line, behind others who wait for   *)
(* it too; and a lock that is held is held by somebody inside.                 *)
NobodyIsForgotten ==
  /\ \A t \in Task : pc[t] \in Holding /\ reply[t] = "none" =>
       \E i \in DOMAIN queue : queue[i] = [task |-> t, kind |-> pc[t], awaited |-> TRUE]
  /\ \A t \in Task : pc[t] = "lock" => \E i \in DOMAIN waiters : waiters[i] = t
  /\ \A i \in DOMAIN waiters : pc[waiters[i]] = "lock"
  /\ lock # NoTask => lock \in Task /\ pc[lock] \in Holding

LEMMA WithoutOne ==
  ASSUME NEW s \in Seq(Task), NEW i \in DOMAIN s
  PROVE  /\ RemoveAt(s, i) \in Seq(Task)
         /\ DOMAIN RemoveAt(s, i) = 1..(Len(s) - 1)
         /\ \A k \in 1..(Len(s) - 1) : RemoveAt(s, i)[k] = IF k < i THEN s[k] ELSE s[k + 1]
<1>1. /\ Len(s) \in Nat /\ i \in 1..Len(s) /\ \A k \in 1..Len(s) : s[k] \in Task
      /\ 1 \in Int /\ i - 1 \in Int /\ i + 1 \in Int /\ Len(s) \in Int
  OBVIOUS
<1>2. PICK a : a = SubSeq(s, 1, i - 1)
  OBVIOUS
<1>3. a \in Seq(Task) /\ Len(a) = i - 1 /\ \A k \in 1..(i - 1) : a[k] = s[k]
  <2>1. \A k \in 1..(i - 1) : s[k] \in Task
    BY <1>1
  <2>2. /\ a \in Seq(Task)
        /\ Len(a) = IF 1 <= i - 1 THEN i - 1 - 1 + 1 ELSE 0
        /\ \A k \in 1..(i - 1 - 1 + 1) : a[k] = s[1 + k - 1]
    BY <1>1, <1>2, <2>1, SubSeqProperties
  <2>3. /\ (IF 1 <= i - 1 THEN i - 1 - 1 + 1 ELSE 0) = i - 1
        /\ i - 1 - 1 + 1 = i - 1 /\ \A k \in 1..(i - 1) : 1 + k - 1 = k
    BY <1>1
  <2> QED
    BY <2>2, <2>3
<1>4. PICK b : b = SubSeq(s, i + 1, Len(s))
  OBVIOUS
<1>5. b \in Seq(Task) /\ Len(b) = Len(s) - i /\ \A k \in 1..(Len(s) - i) : b[k] = s[k + i]
  <2>1. \A k \in (i + 1)..Len(s) : s[k] \in Task
    BY <1>1
  <2>2. /\ b \in Seq(Task)
        /\ Len(b) = IF i + 1 <= Len(s) THEN Len(s) - (i + 1) + 1 ELSE 0
        /\ \A k \in 1..(Len(s) - (i + 1) + 1) : b[k] = s[i + 1 + k - 1]
    BY <1>1, <1>4, <2>1, SubSeqProperties
  <2>3. PICK n \in Nat : n = Len(s) /\ i \in 1..n
    BY <1>1
  <2>4. (IF i + 1 <= n THEN n - (i + 1) + 1 ELSE 0) = n - i /\ n - (i + 1) + 1 = n - i
    BY <2>3
  <2>5. \A k \in 1..(n - i) : i + 1 + k - 1 = k + i
    BY <2>3
  <2> QED
    BY <2>2, <2>3, <2>4, <2>5
<1>6. RemoveAt(s, i) = a \o b
  BY <1>2, <1>4 DEF RemoveAt
<1>7. /\ a \o b \in Seq(Task)
      /\ Len(a \o b) = Len(a) + Len(b)
      /\ \A k \in 1..(Len(a) + Len(b)) :
           (a \o b)[k] = IF k <= Len(a) THEN a[k] ELSE b[k - Len(a)]
  BY <1>3, <1>5, ConcatProperties
<1>8. Len(a) + Len(b) = Len(s) - 1
  BY <1>1, <1>3, <1>5
<1>9. ASSUME NEW k \in 1..(Len(s) - 1) PROVE (a \o b)[k] = IF k < i THEN s[k] ELSE s[k + 1]
  <2>1. (a \o b)[k] = IF k <= i - 1 THEN a[k] ELSE b[k - (i - 1)]
    BY <1>3, <1>7, <1>8
  <2>2. CASE k < i
    <3>1. k <= i - 1 /\ k \in 1..(i - 1)
      BY <1>1, <2>2
    <3> QED
      BY <1>3, <2>1, <2>2, <3>1
  <2>3. CASE ~ (k < i)
    <3>1. ~ (k <= i - 1) /\ k - (i - 1) \in 1..(Len(s) - i) /\ k - (i - 1) + i = k + 1
      BY <1>1, <2>3
    <3>2. b[k - (i - 1)] = s[k - (i - 1) + i]
      BY <1>5, <3>1
    <3>3. s[k - (i - 1) + i] = s[k + 1]
      BY <3>1
    <3> QED
      BY <2>1, <2>3, <3>1, <3>2, <3>3
  <2> QED
    BY <2>2, <2>3
<1>10. DOMAIN (a \o b) = 1..(Len(s) - 1)
  BY <1>7, <1>8
<1> QED
  BY <1>6, <1>7, <1>9, <1>10

LEMMA LeavesTheLine ==
  ASSUME TInv, InLine, NEW i \in DOMAIN waiters, NEW at, at # "lock",
         waiters' = RemoveAt(waiters, i), pc' = [pc EXCEPT ![waiters[i]] = at]
  PROVE  InLine'
<1>0. waiters \in Seq(Task)
  BY Types
<1>1. PICK n \in Nat : n = Len(waiters) /\ DOMAIN waiters = 1..n /\ i \in 1..n
  BY <1>0
<1>2. /\ DOMAIN waiters' = 1..(n - 1)
      /\ \A k \in 1..(n - 1) : waiters'[k] = IF k < i THEN waiters[k] ELSE waiters[k + 1]
  BY <1>1, WithoutOne, Types
<1>3. \A k, l \in 1..n : waiters[k] = waiters[l] => k = l
  BY <1>1 DEF InLine
<1>4. \A k, l \in DOMAIN waiters' : waiters'[k] = waiters'[l] => k = l
  BY <1>1, <1>2, <1>3
<1>5. waiters[i] \in Task
  BY <1>1, Types
<1>6. ASSUME NEW t \in Task PROVE pc'[t] = "lock" <=> \E k \in DOMAIN waiters' : waiters'[k] = t
  <2>1. CASE t = waiters[i]
    <3>1. pc'[t] # "lock"
      BY <1>5, <2>1, Types
    <3>2. \A k \in 1..(n - 1) : waiters'[k] # t
      BY <1>1, <1>2, <1>3, <2>1
    <3> QED
      BY <1>2, <3>1, <3>2
  <2>2. CASE t # waiters[i]
    <3>1. pc'[t] = pc[t]
      BY <1>5, <2>2, Types
    <3>2. (\E k \in 1..n : waiters[k] = t) <=> (\E k \in 1..(n - 1) : waiters'[k] = t)
      <4>1. ASSUME NEW k \in 1..n, waiters[k] = t PROVE \E l \in 1..(n - 1) : waiters'[l] = t
        <5>1. CASE k < i
          <6>1. k \in 1..(n - 1)
            BY <1>1, <5>1
          <6> QED
            BY <1>2, <4>1, <5>1, <6>1
        <5>2. CASE k > i
          <6>1. k - 1 \in 1..(n - 1) /\ ~(k - 1 < i) /\ (k - 1) + 1 = k
            BY <1>1, <5>2
          <6> QED
            BY <1>2, <4>1, <6>1
        <5>3. k # i
          BY <2>2, <4>1
        <5> QED
          BY <1>1, <5>1, <5>2, <5>3
      <4>2. ASSUME NEW l \in 1..(n - 1), waiters'[l] = t PROVE \E k \in 1..n : waiters[k] = t
        <5>1. l \in 1..n /\ l + 1 \in 1..n
          BY <1>1
        <5> QED
          BY <1>2, <4>2, <5>1
      <4> QED
        BY <4>1, <4>2
    <3> QED
      BY <1>1, <1>2, <3>1, <3>2 DEF InLine
  <2> QED
    BY <2>1, <2>2
<1> QED
  BY <1>4, <1>6 DEF InLine

\* The head of the line leaves it.
LEMMA HeadLeaves ==
  ASSUME TInv, InLine, waiters # <<>>, NEW at, at # "lock",
         waiters' = Tail(waiters), pc' = [pc EXCEPT ![Head(waiters)] = at]
  PROVE  InLine'
<1>1. PICK n \in Nat \ {0} : n = Len(waiters) /\ DOMAIN waiters = 1..n /\ Head(waiters) = waiters[1]
  BY Types
<1>2. 1 \in 1..n /\ DOMAIN waiters' = 1..(n - 1) /\ \A k \in 1..(n - 1) : waiters'[k] = waiters[k + 1]
  BY <1>1, Types
<1>3. waiters[1] \in Task
  BY <1>1, <1>2, Types
<1>4. \A k, l \in 1..n : waiters[k] = waiters[l] => k = l
  BY <1>1 DEF InLine
<1>5. \A k, l \in DOMAIN waiters' : waiters'[k] = waiters'[l] => k = l
  BY <1>1, <1>2, <1>4
<1>6. ASSUME NEW t \in Task PROVE pc'[t] = "lock" <=> \E k \in DOMAIN waiters' : waiters'[k] = t
  <2>1. CASE t = waiters[1]
    <3>1. pc'[t] # "lock"
      BY <1>1, <1>3, <2>1, Types
    <3>2. \A k \in 1..(n - 1) : waiters'[k] # t
      BY <1>1, <1>2, <1>4, <2>1
    <3> QED
      BY <1>2, <3>1, <3>2
  <2>2. CASE t # waiters[1]
    <3>1. pc'[t] = pc[t]
      BY <1>1, <1>3, <2>2, Types
    <3>2. ASSUME NEW k \in 1..n, waiters[k] = t PROVE \E l \in 1..(n - 1) : waiters'[l] = t
      <4>1. k - 1 \in 1..(n - 1) /\ (k - 1) + 1 = k
        BY <2>2, <3>2
      <4> QED
        BY <1>2, <3>2, <4>1
    <3>3. ASSUME NEW l \in 1..(n - 1), waiters'[l] = t PROVE \E k \in 1..n : waiters[k] = t
      BY <1>2, <3>3
    <3> QED
      BY <1>1, <1>2, <3>1, <3>2, <3>3 DEF InLine
  <2> QED
    BY <2>1, <2>2
<1> QED
  BY <1>5, <1>6 DEF InLine

\* Nobody enters or leaves the line.
LEMMA LineStays ==
  ASSUME TInv, InLine, NEW t \in Task, NEW at, pc[t] # "lock", at # "lock",
         pc' = [pc EXCEPT ![t] = at], UNCHANGED waiters
  PROVE  InLine'
BY Types DEF InLine

LEMMA JoinsTheLine ==
  ASSUME TInv, InLine, NEW t \in Task, pc[t] # "lock",
         pc' = [pc EXCEPT ![t] = "lock"], waiters' = Append(waiters, t)
  PROVE  InLine'
<1>1. PICK n \in Nat : n = Len(waiters) /\ DOMAIN waiters = 1..n
  BY Types
<1>2. /\ DOMAIN waiters' = 1..(n + 1) /\ waiters'[n + 1] = t
      /\ \A k \in 1..n : waiters'[k] = waiters[k]
  BY <1>1, Types
<1>3. \A k \in 1..n : waiters[k] # t
  BY <1>1 DEF InLine
<1>4. \A k, l \in 1..n : waiters[k] = waiters[l] => k = l
  BY <1>1 DEF InLine
<1>5. \A k \in 1..(n + 1) : k \in 1..n \/ k = n + 1
  OBVIOUS
<1>6. \A k, l \in DOMAIN waiters' : waiters'[k] = waiters'[l] => k = l
  BY <1>2, <1>3, <1>4, <1>5
<1>7. ASSUME NEW u \in Task PROVE pc'[u] = "lock" <=> \E k \in DOMAIN waiters' : waiters'[k] = u
  <2>1. CASE u = t
    <3>1. pc'[u] = "lock" /\ n + 1 \in 1..(n + 1)
      BY <2>1, Types
    <3> QED
      BY <1>2, <2>1, <3>1
  <2>2. CASE u # t
    <3>1. pc'[u] = pc[u]
      BY <2>2, Types
    <3>2. (\E k \in 1..n : waiters[k] = u) <=> (\E k \in 1..(n + 1) : waiters'[k] = u)
      BY <1>2, <1>5, <2>2
    <3> QED
      BY <1>1, <1>2, <3>1, <3>2 DEF InLine
  <2> QED
    BY <2>1, <2>2
<1> QED
  BY <1>6, <1>7 DEF InLine

LEMMA InLineStep ==
  ASSUME TInv, InLine, [Next]_vars
  PROVE  InLine'
<1>1. ASSUME NEW t \in Task, NEW j \in Jobs, Call(t, j) PROVE InLine'
  <2>1. CASE lock = NoTask /\ waiters = <<>>
    BY <1>1, <2>1, LineStays DEF Call, EnterLock, Await
  <2>2. CASE ~(lock = NoTask /\ waiters = <<>>)
    BY <1>1, <2>2, JoinsTheLine DEF Call
  <2> QED
    BY <2>1, <2>2
<1>2. ASSUME NEW t \in Task, Resume(t) PROVE InLine'
  <2>1. CASE Acquire(t)
    <3>1. waiters # <<>>
      BY <2>1 DEF Acquire, InLine
    <3>2. PICK at : at = IF job[t] = "transaction" THEN "begin" ELSE "checkpoint"
      OBVIOUS
    <3>3. at # "lock" /\ t = Head(waiters) /\ waiters' = Tail(waiters) /\ pc' = [pc EXCEPT ![t] = at]
      BY <2>1, <3>2 DEF Acquire, EnterLock, Await
    <3> QED
      BY <3>1, <3>3, HeadLeaves
  <2>2. CASE Begun(t) \/ Wrote(t) \/ BodyRaised(t) \/ CheckpointReturned(t)
    BY <2>2, LineStays DEF Begun, Wrote, BodyRaised, CheckpointReturned, Await
  <2>3. CASE BeginFailed(t) \/ RolledBack(t) \/ CommitReturned(t) \/ Restored(t)
    BY <2>3, LineStays DEF BeginFailed, RolledBack, CommitReturned, Restored, Leave
  <2> QED
    BY <1>2, <2>1, <2>2, <2>3 DEF Resume
<1>3. ASSUME NEW t \in Task, Cancel(t) PROVE InLine'
  <2>1. CASE CancelWaiting(t)
    BY <2>1, LeavesTheLine DEF CancelWaiting
  <2>2. CASE CancelCovered(t)
    BY <2>2, LineStays DEF CancelCovered
  <2>3. CASE CancelUncovered(t)
    BY <2>3, LineStays DEF CancelUncovered, Leave
  <2> QED
    BY <1>3, <2>1, <2>2, <2>3 DEF Cancel
<1>4. ASSUME Worker PROVE InLine'
  BY <1>4 DEF Worker, RunBegin, RunWrite, RunCommit, RunRollback, RunCheckpoint, RunRestore, Run,
              InLine
<1>5. ASSUME Crash PROVE InLine'
  BY <1>5, Types DEF Crash, InLine, Awaits
<1>6. ASSUME UNCHANGED vars PROVE InLine'
  BY <1>6 DEF vars, InLine
<1> QED
  BY <1>1, <1>2, <1>3, <1>4, <1>5, <1>6 DEF Next

(* No cancellation, failure or crash leaves a coroutine waiting for something *)
(* that will not come (db.py:245-282, asyncio.Lock): the safety that           *)
(* EveryCallEnds rests on, for any number of coroutines.                       *)
THEOREM EveryWaitIsServed == Spec => []NobodyIsForgotten
<1>1. Init => OneOwner /\ LastAwaited /\ InLine
  BY ConstantsAssumption
     DEF Init, OneOwner, LastAwaited, InFlight, InLine, Holding, Awaits
<1>2. TInv /\ OneOwner /\ LastAwaited /\ InLine /\ [Next]_vars
        => OneOwner' /\ LastAwaited' /\ InLine'
  BY OneOwnerStep, LastAwaitedStep, InLineStep
<1>3. TInv /\ OneOwner /\ LastAwaited /\ InLine => NobodyIsForgotten
  <2> SUFFICES ASSUME TInv, OneOwner, LastAwaited, InLine PROVE NobodyIsForgotten
    OBVIOUS
  <2>1. ASSUME NEW t \in Task, pc[t] \in Holding, reply[t] = "none"
        PROVE  \E i \in DOMAIN queue : queue[i] = [task |-> t, kind |-> pc[t], awaited |-> TRUE]
    <3>1. lock = t /\ InFlight
      BY <2>1 DEF OneOwner, LastAwaited
    <3>2. Len(queue) \in DOMAIN queue /\ queue[Len(queue)] \in Calls
      BY <3>1, Types DEF InFlight
    <3> QED
      BY <3>1, <3>2 DEF InFlight, Calls
  <2>2. \A i \in DOMAIN waiters : waiters[i] \in Task /\ pc[waiters[i]] = "lock"
    BY Types DEF InLine
  <2>3. lock # NoTask => lock \in Task /\ pc[lock] \in Holding
    BY Types DEF OneOwner
  <2> QED
    BY <2>1, <2>2, <2>3 DEF NobodyIsForgotten, InLine
<1> QED
  BY <1>1, <1>2, <1>3, TInvariant, PTL DEF Spec
=============================================================================
