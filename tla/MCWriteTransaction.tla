------------------------- MODULE MCWriteTransaction -------------------------
(* Instances of WriteTransaction for TLC. *)
EXTENDS WriteTransaction

CONSTANTS t1, t2, t3

AllAwaits == Awaits

TwoTasks == {t1, t2}
ThreeTasks == {t1, t2, t3}
=============================================================================
