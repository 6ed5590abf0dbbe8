----------------------------- MODULE Continuity -----------------------------
(***************************************************************************)
(* The short-term conversation of the identified person                    *)
(* (server/memory/continuity.py): one slot, one owner, a generation that   *)
(* tells a stale writer from a current one.  Pure operators on the         *)
(* session record; ContinuitySession and VoiceServer run them.             *)
(*                                                                         *)
(* Time is the flag "silent": the clock has reached last_written plus      *)
(* WORKING_MEMORY_IDLE_SECONDS.  A slot is deleted by the next turn that   *)
(* looks at it, not by the clock.                                          *)
(***************************************************************************)
EXTENDS Integers, Sequences, Functions

CONSTANTS
    NoOne,      \* an unknown, ambiguous or unidentified speaker
    MaxPairs,   \* WORKING_MEMORY_SIZE // 2
    MaxChars    \* WORKING_MEMORY_MAX_CHARS

ASSUME ContinuityAssumption == MaxPairs \in Nat /\ MaxChars \in Nat

EmptySession == [person |-> NoOne, pairs |-> <<>>, silent |-> FALSE, generation |-> 0]

(* What a suspended turn, or one that has not opened the session, sees. *)
NoView == [history |-> <<>>, person |-> NoOne, generation |-> 0]

DropIfIdle(s) ==
    IF s.person # NoOne /\ s.silent
    THEN [EmptySession EXCEPT !.generation = s.generation + 1]
    ELSE s

(* EXPIRED first, then SUSPENDED, STARTED, REPLACED or CONTINUED. *)
Opened(s, p) ==
    LET live == DropIfIdle(s) IN
    IF p \in {NoOne, live.person} THEN live
    ELSE IF live.person = NoOne THEN [live EXCEPT !.person = p]
    ELSE [EmptySession EXCEPT !.person = p, !.generation = live.generation + 1]

(* The ContinuityTurn that open_turn returns. *)
View(s, p) ==
    LET after == Opened(s, p) IN
    [history    |-> IF p = NoOne THEN <<>> ELSE after.pairs,
     person     |-> p,
     generation |-> after.generation]

Chars(q) == FoldFunction(LAMBDA x, sum : x.size + sum, 0, q)

Fits(q) == Len(q) <= MaxPairs /\ Chars(q) <= MaxChars

(* Whole oldest exchanges go until both caps hold or nothing is left. *)
TrimStart(q) ==
    CHOOSE i \in 1 .. Len(q) + 1 :
        /\ i = Len(q) + 1 \/ Fits(SubSeq(q, i, Len(q)))
        /\ \A j \in 1 .. i - 1 : ~ Fits(SubSeq(q, j, Len(q)))

Trim(q) == SubSeq(q, TrimStart(q), Len(q))

(* Whether record_pair may still write what the turn with view v read. *)
Writable(s, v) ==
    /\ v.person # NoOne
    /\ s.person = v.person
    /\ s.generation = v.generation

(* An exchange is its size; whose it was, and in which session, is kept as history. *)
Exchange(v, size) == [person |-> v.person, generation |-> v.generation, size |-> size]

RecordPair(s, v, size) ==
    IF Writable(s, v) /\ MaxPairs > 0 /\ size <= MaxChars
    THEN [s EXCEPT !.pairs = Trim(Append(@, Exchange(v, size))), !.silent = FALSE]
    ELSE s

(* The monotonic clock passes the idle limit of the current slot. *)
FallsSilent(s) == [s EXCEPT !.silent = TRUE]
=============================================================================
