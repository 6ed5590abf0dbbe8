------------------------- MODULE MCConversationRecord -------------------------
(***************************************************************************)
(* ConversationRecord on a few exchanges of a short day, for TLC.          *)
(***************************************************************************)
EXTENDS ConversationRecord, TLC

TurnSymmetry == Permutations(Turn)

NoLevel == MaxLevel + 1

\* The owner tells something; a visitor speaks.
Said(verified) == [verified |-> verified, tells |-> TRUE, level |-> Normal, size |-> 1]
OwnerAndVisitor == {Said(TRUE), Said(FALSE)}

On == {TRUE}
=============================================================================
