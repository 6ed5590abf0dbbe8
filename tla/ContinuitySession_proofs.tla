---------------------- MODULE ContinuitySession_proofs ----------------------
(* Theorems about the short-term session, for any turns, people, exchange   *)
(* sizes and caps.                                                          *)
EXTENDS ContinuitySession, SequenceTheorems, WellFoundedInduction, TLAPS

Who == People \cup {NoOne}

ExchangeSet == [person : Who, generation : Nat, size : Sizes]

\* The exchanges a session, or a view of one, may hold.
Own(v) == {x \in ExchangeSet : Belongs(x, v)}

SessionOK(s) ==
    /\ s \in [person : Who, pairs : Seq(ExchangeSet), silent : BOOLEAN, generation : Nat]
    /\ s.pairs \in Seq(Own(s))
    /\ s.person = NoOne => s.pairs = <<>>

ViewOK(v) ==
    /\ v \in [history : Seq(ExchangeSet), person : Who, generation : Nat]
    /\ v.history \in Seq(Own(v))

(* The inductive invariant: OwnHistory, the types, and an empty slot holds nothing (a *)
(* person who takes a slot that is free inherits no exchange with it).                *)
IInv ==
    /\ SessionOK(session)
    /\ DOMAIN view = Turns
    /\ view = [t \in Turns |-> view[t]]
    /\ \A t \in Turns : ViewOK(view[t])

-----------------------------------------------------------------------------
(* The trimming loop always ends, and only drops exchanges. *)

LEMMA TrimStarts ==
    ASSUME NEW S, NEW q \in Seq(S)
    PROVE  TrimStart(q) \in 1 .. Len(q) + 1
<1> DEFINE Stops(i) == i = Len(q) + 1 \/ Fits(SubSeq(q, i, Len(q)))
           Good == {i \in Nat : i \in 1 .. Len(q) + 1 /\ Stops(i)}
           Less == OpToRel(<, Nat)
<1>1. Len(q) \in Nat
  OBVIOUS
<1>2. Len(q) + 1 \in Good
  BY <1>1
<1>3. PICK i \in Good : \A j \in Good : <<j, i>> \notin Less
  <2>1. IsWellFoundedOn(Less, Nat)
    BY NatLessThanWellFounded
  <2>2. Good \subseteq Nat /\ Good # {}
    BY <1>2
  <2> QED
    BY <2>1, <2>2, WFMin
<1>4. \A j \in 1 .. i - 1 : ~ Fits(SubSeq(q, j, Len(q)))
  <2> SUFFICES ASSUME NEW j \in 1 .. i - 1, Fits(SubSeq(q, j, Len(q)))
               PROVE  FALSE
    OBVIOUS
  <2>1. j \in Good
    BY <1>1
  <2>2. <<j, i>> \in Less
    BY <2>1 DEF OpToRel
  <2> QED
    BY <1>3, <2>1, <2>2
<1>5. \E k \in 1 .. Len(q) + 1 :
          /\ k = Len(q) + 1 \/ Fits(SubSeq(q, k, Len(q)))
          /\ \A j \in 1 .. k - 1 : ~ Fits(SubSeq(q, j, Len(q)))
  BY <1>4
<1> QED
  BY <1>5 DEF TrimStart

LEMMA TrimKeeps ==
    ASSUME NEW S, NEW q \in Seq(S)
    PROVE  Trim(q) \in Seq(S)
<1>1. TrimStart(q) \in Int /\ Len(q) \in Int /\ TrimStart(q) >= 1
  BY TrimStarts
<1>2. \A i \in TrimStart(q) .. Len(q) : q[i] \in S
  BY <1>1, ElementOfSeq
<1> QED
  BY <1>1, <1>2, SubSeqProperties DEF Trim

-----------------------------------------------------------------------------
(* The operations of the slot. *)

(* A slot that holds nothing is right for anybody. *)
LEMMA EmptyOK ==
    ASSUME NEW p \in Who, NEW b \in BOOLEAN, NEW g \in Nat
    PROVE  SessionOK([person |-> p, pairs |-> <<>>, silent |-> b, generation |-> g])
BY DEF SessionOK

LEMMA DropIfIdleOK ==
    ASSUME NEW s, SessionOK(s)
    PROVE  SessionOK(DropIfIdle(s))
<1>1. CASE DropIfIdle(s) = s
  BY <1>1
<1>2. CASE DropIfIdle(s) = [EmptySession EXCEPT !.generation = s.generation + 1]
  <2>1. s.generation + 1 \in Nat
    BY DEF SessionOK
  <2>2. DropIfIdle(s) =
          [person |-> NoOne, pairs |-> <<>>, silent |-> FALSE, generation |-> s.generation + 1]
    BY <1>2 DEF EmptySession
  <2> QED
    BY <2>1, <2>2, EmptyOK DEF Who
<1> QED
  BY <1>1, <1>2 DEF DropIfIdle

LEMMA OpenedOK ==
    ASSUME NEW s, SessionOK(s), NEW p \in Who
    PROVE  /\ SessionOK(Opened(s, p))
           /\ p # NoOne => Opened(s, p).person = p
<1> DEFINE live == DropIfIdle(s)
<1>1. SessionOK(live)
  BY DropIfIdleOK
<1> HIDE DEF live
<1>2. CASE p = NoOne \/ live.person = p
  <2>1. Opened(s, p) = live
    BY <1>2 DEF Opened, live
  <2> QED
    BY <1>1, <1>2, <2>1
<1>3. CASE p # NoOne /\ live.person # p /\ live.person = NoOne
  <2>1. Opened(s, p) = [live EXCEPT !.person = p]
    BY <1>3 DEF Opened, live
  <2>2. Opened(s, p) = [person |-> p, pairs |-> <<>>, silent |-> live.silent,
                        generation |-> live.generation]
    BY <1>1, <1>3, <2>1 DEF SessionOK
  <2>3. live.silent \in BOOLEAN /\ live.generation \in Nat
    BY <1>1 DEF SessionOK
  <2>4. SessionOK(Opened(s, p))
    BY <2>2, <2>3, EmptyOK
  <2> QED
    BY <2>2, <2>4
<1>4. CASE p # NoOne /\ live.person # p /\ live.person # NoOne
  <2>1. Opened(s, p) = [EmptySession EXCEPT !.person = p, !.generation = live.generation + 1]
    BY <1>4 DEF Opened, live
  <2>2. Opened(s, p) = [person |-> p, pairs |-> <<>>, silent |-> FALSE,
                        generation |-> live.generation + 1]
    BY <2>1 DEF EmptySession
  <2>3. live.generation + 1 \in Nat
    BY <1>1 DEF SessionOK
  <2>4. SessionOK(Opened(s, p))
    BY <2>2, <2>3, EmptyOK
  <2> QED
    BY <2>2, <2>4
<1> QED
  BY <1>2, <1>3, <1>4

LEMMA ViewOfOpenedOK ==
    ASSUME NEW s, SessionOK(s), NEW p \in Who
    PROVE  ViewOK(View(s, p))
<1>1. SessionOK(Opened(s, p)) /\ (p # NoOne => Opened(s, p).person = p)
  BY OpenedOK
<1>2. CASE p = NoOne
  BY <1>1, <1>2 DEF View, ViewOK, SessionOK
<1>3. CASE p # NoOne
  <2> DEFINE after == Opened(s, p)
             v == View(s, p)
  <2>1. v = [history |-> after.pairs, person |-> p, generation |-> after.generation]
    BY <1>3 DEF View
  <2>2. Own(v) = Own(after)
    BY <1>1, <1>3, <2>1 DEF Own, Belongs
  <2> QED
    BY <1>1, <2>1, <2>2 DEF ViewOK, SessionOK
<1> QED
  BY <1>2, <1>3

LEMMA RecordPairOK ==
    ASSUME NEW s, SessionOK(s), NEW v, ViewOK(v), NEW n \in Sizes
    PROVE  SessionOK(RecordPair(s, v, n))
<1>1. CASE RecordPair(s, v, n) = s
  BY <1>1
<1>2. CASE Writable(s, v) /\ RecordPair(s, v, n) =
             [s EXCEPT !.pairs = Trim(Append(@, Exchange(v, n))), !.silent = FALSE]
  <2> DEFINE kept == Trim(Append(s.pairs, Exchange(v, n)))
  <2>1. Exchange(v, n) \in Own(s)
    BY <1>2 DEF Exchange, Own, Belongs, Writable, ViewOK, ExchangeSet
  <2>2. Append(s.pairs, Exchange(v, n)) \in Seq(Own(s))
    BY <2>1, AppendProperties DEF SessionOK
  <2>3. kept \in Seq(Own(s))
    BY <2>2, TrimKeeps
  <2>4. kept \in Seq(ExchangeSet)
    <3>1. Append(s.pairs, Exchange(v, n)) \in Seq(ExchangeSet)
      BY <2>1, AppendProperties DEF SessionOK, Own
    <3> QED
      BY <3>1, TrimKeeps
  <2>5. s.person # NoOne
    BY <1>2 DEF Writable
  <2> HIDE DEF kept
  <2>6. RecordPair(s, v, n) =
          [person |-> s.person, pairs |-> kept, silent |-> FALSE, generation |-> s.generation]
    BY <1>2 DEF kept, SessionOK
  <2>7. Own(RecordPair(s, v, n)) = Own(s)
    BY <2>6 DEF Own, Belongs
  <2> QED
    BY <2>3, <2>4, <2>5, <2>6, <2>7 DEF SessionOK
<1> QED
  BY <1>1, <1>2 DEF RecordPair

-----------------------------------------------------------------------------

LEMMA NoViewOK == ViewOK(NoView)
BY DEF ViewOK, NoView, Who

LEMMA Initially == Init => IInv
<1> SUFFICES ASSUME Init
             PROVE  IInv
  OBVIOUS
<1>1. SessionOK(session)
  BY EmptyOK DEF Init, EmptySession, Who
<1>2. \A t \in Turns : ViewOK(view[t])
  BY NoViewOK DEF Init
<1> QED
  BY <1>1, <1>2 DEF IInv, Init

LEMMA Preserved == IInv /\ [Next]_vars => IInv'
<1> SUFFICES ASSUME IInv, [Next]_vars
             PROVE  IInv'
  OBVIOUS
<1> USE DEF IInv
<1>1. ASSUME NEW t \in Turns, NEW p \in Who, Open(t, p)
      PROVE  IInv'
  <2>1. SessionOK(session')
    BY <1>1, OpenedOK DEF Open
  <2>2. \A u \in Turns : ViewOK(view'[u])
    BY <1>1, ViewOfOpenedOK DEF Open
  <2> QED
    BY <1>1, <2>1, <2>2 DEF Open
<1>2. ASSUME NEW t \in Turns, NEW n \in Sizes, Record(t, n)
      PROVE  IInv'
  BY <1>2, RecordPairOK DEF Record
<1>3. ASSUME NEW t \in Turns, End(t)
      PROVE  IInv'
  BY <1>3, NoViewOK DEF End
<1>4. CASE Quiet
  <2>1. SessionOK(FallsSilent(session))
    BY DEF SessionOK, FallsSilent, Own, Belongs
  <2> QED
    BY <1>4, <2>1 DEF Quiet
<1>5. CASE UNCHANGED vars
  BY <1>5 DEF vars
<1> QED
  BY <1>1, <1>2, <1>3, <1>4, <1>5 DEF Next, Who

LEMMA OwnedBelong ==
    ASSUME NEW v, NEW q \in Seq(Own(v))
    PROVE  \A i \in 1 .. Len(q) : Belongs(q[i], v)
BY ElementOfSeq DEF Own

LEMMA IsOwnHistory == IInv => OwnHistory
BY OwnedBelong DEF IInv, SessionOK, ViewOK, OwnHistory, TurnsReadTheirOwn, SlotIsOnePersons

(* Whoever opens the session, and however late a turn writes, a turn reads exchanges of    *)
(* its own speaker and session only (open_turn, record_pair, _drop_if_idle, _trim).        *)
THEOREM OnlyOwnHistory == Spec => []OwnHistory
BY Initially, Preserved, IsOwnHistory, PTL DEF Spec
=============================================================================
