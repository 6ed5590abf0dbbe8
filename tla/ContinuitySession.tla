------------------------- MODULE ContinuitySession -------------------------
(***************************************************************************)
(* What the short-term session promises, apart from how a voice turn runs: *)
(* turns open it for a speaker, and may write one exchange later, when the *)
(* session may have expired or belong to somebody else.  VoiceTurn         *)
(* implements it; ContinuitySession_proofs proves its properties for any   *)
(* set of turns and people.                                                *)
(***************************************************************************)
EXTENDS Continuity

CONSTANTS Turns, People, Sizes

VARIABLES
    session,  \* the slot and its generation
    view      \* what each running turn read when it opened the session

vars == <<session, view>>

Init == session = EmptySession /\ view = [t \in Turns |-> NoView]

Open(t, p) ==
    /\ view[t] = NoView
    /\ session' = Opened(session, p)
    /\ view' = [view EXCEPT ![t] = View(session, p)]

Record(t, n) ==
    /\ session' = RecordPair(session, view[t], n)
    /\ UNCHANGED view

(* The turn is over, written or not. *)
End(t) ==
    /\ view' = [view EXCEPT ![t] = NoView]
    /\ UNCHANGED session

Quiet ==
    /\ session.person # NoOne
    /\ session' = FallsSilent(session)
    /\ UNCHANGED view

Next ==
    \/ \E t \in Turns, p \in People \cup {NoOne} : Open(t, p)
    \/ \E t \in Turns, n \in Sizes : Record(t, n)
    \/ \E t \in Turns : End(t)
    \/ Quiet

Spec == Init /\ [][Next]_vars

-----------------------------------------------------------------------------

(* An exchange was spoken by v's person, in v's session generation. *)
Belongs(x, v) == x.person = v.person /\ x.generation = v.generation

TurnsReadTheirOwn ==
    \A t \in Turns :
        \A i \in 1 .. Len(view[t].history) : Belongs(view[t].history[i], view[t])

SlotIsOnePersons == \A i \in 1 .. Len(session.pairs) : Belongs(session.pairs[i], session)

(* A turn reads only exchanges of its own speaker, and only of the session generation it  *)
(* opened: never another person's words, never words from before a silence.  The slot     *)
(* holds only exchanges of its person, whose turn read this very session: a turn that     *)
(* outlived a replacement or an expiry has written nothing (open_turn, record_pair).      *)
OwnHistory == TurnsReadTheirOwn /\ SlotIsOnePersons
=============================================================================
