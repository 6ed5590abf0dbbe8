----------------------------- MODULE RecallSearch -----------------------------
(***************************************************************************)
(* A recall question over the conversation record                          *)
(* (server/src/server/memory/recall_search.py, recall_store.py): a search  *)
(* by words, a search by vector, and a read of the units found, with the   *)
(* embedding of the question awaited in between.  Meanwhile the captures,  *)
(* the conversation job and the purge of ConversationRecord go on.         *)
(***************************************************************************)
EXTENDS ConversationRecord

VARIABLE recall   \* where the recall question is

NotAsked == [step |-> "idle", since |-> 0, hits |-> {}]

RecallVars == <<vars, recall>>

RecallInit == Init /\ recall = NotAsked

\* The filter of every search (_READABLE), with the time the question was asked.
Readable(u, since) ==
  /\ Exists(u) /\ units[u].level = Normal
  /\ LET record == records[units[u].record]
     IN  record.state = "open" \/ record.expiresAt > since

\* lexical_hits, before the question's embedding is awaited.
SearchWords ==
  /\ up /\ recallOn /\ recall = NotAsked
  /\ \E found \in SUBSET {u \in UnitId : Readable(u, clock)} :
       recall' = [step |-> "embedding", since |-> clock, hits |-> found]
  /\ UNCHANGED vars

\* vector_hits: readable, and of the normal level in the vector table as well.
Near(since) == {u \in UnitId : Readable(u, since) /\ units[u].vector = Normal}

\* The two are fused; nothing is found by it when the model failed.
SearchVectors ==
  /\ recall.step = "embedding"
  /\ \E near \in SUBSET Near(recall.since) :
       recall' = [recall EXCEPT !.step = "reading", !.hits = @ \cup near]
  /\ UNCHANGED vars

\* units_by_id: the hits that still exist, to be worded to the owner.
ReadUnits ==
  /\ recall.step = "reading"
  /\ recall' = NotAsked
  /\ UNCHANGED vars

\* Anything else.  The owner is answered within the bound, and a stop of the
\* server takes the question with it.
Meanwhile ==
  /\ Next
  /\ recall # NotAsked => clock' - recall.since <= MaxDelay
  /\ recall' = IF up' THEN recall ELSE NotAsked

RecallNext == SearchWords \/ SearchVectors \/ ReadUnits \/ Meanwhile

RecallSpec == RecallInit /\ [][RecallNext]_RecallVars

\* What recall_store promises of its reads: every unit read back to the owner is
\* of the normal sensitivity when it is read, also when the diary raised it
\* after the search by words found it.
RecalledIsNormal ==
  [][recall.step = "reading" /\ recall' = NotAsked /\ up' =>
       \A u \in recall.hits : Exists(u) => units[u].level = Normal]_RecallVars

=============================================================================
