---------------------------- MODULE MCRecallSearch ----------------------------
(***************************************************************************)
(* RecallSearch while the diary of one conversation is written, for TLC.   *)
(***************************************************************************)
EXTENDS RecallSearch

NoLevel == MaxLevel + 1

\* The owner told something.
OwnerOnly == {[verified |-> TRUE, tells |-> TRUE, level |-> Normal, size |-> 1]}

On == {TRUE}
=============================================================================
