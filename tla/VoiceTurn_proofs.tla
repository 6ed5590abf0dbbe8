------------------------- MODULE VoiceTurn_proofs -------------------------
(***************************************************************************)
(* Theorems about a voice turn, for any number of requests and grants, any *)
(* people, and any depth of the wire: whatever the connection does, the    *)
(* robot's validator accepts what the server sends, a token is forgotten   *)
(* only when it is spent, reply mode only answers a question, what a       *)
(* request leaves running is known, and the session is used as             *)
(* ContinuitySession allows.  The last part is about waiting: the robot never waits for a    *)
(* line that nobody will write, nor for one it would not read.             *)
(***************************************************************************)
EXTENDS VoiceTurn, SequenceTheorems, WellFoundedInduction, TLAPS

-----------------------------------------------------------------------------
(* A stream while it is written and read.  Of the state of the reader, v,  *)
(* and the lines w on their way to it.                                     *)

EmotionBy(v, w, n) == v.emotion_seen \/ \E j \in 1 .. n : w[j].type = "emotion"
AudioBy(v, w, n)   == v.audio_seen \/ \E j \in 1 .. n : w[j].type = "audio"

Terminals == {"done", "error"}

(* Every line will be accepted when its turn comes, and the last one alone *)
(* may be terminal.                                                        *)
Orderly(v, w) ==
    /\ v \in ValidationSet
    /\ w \in Seq(EventSet)
    /\ v.terminal.type = "done" => v.audio_seen
    /\ v.terminal.type \in Terminals => w = <<>>
    /\ \A i \in 1 .. Len(w) :
          \/ w[i].type = "emotion" /\ ~ EmotionBy(v, w, i - 1)
          \/ w[i].type = "audio" /\ EmotionBy(v, w, i - 1)
          \/ w[i].type = "done" /\ i = Len(w) /\ AudioBy(v, w, i - 1)
          \/ w[i].type = "error" /\ i = Len(w)

(* Nothing terminal was written yet; "em" says that an emotion was, "au"   *)
(* that a clip was.                                                        *)
Told(v, w, em, au) ==
    /\ Orderly(v, w)
    /\ v.terminal.type \notin Terminals
    /\ \A i \in 1 .. Len(w) : w[i].type \notin Terminals
    /\ em <=> EmotionBy(v, w, Len(w))
    /\ au => AudioBy(v, w, Len(w))

(* The terminal event e was written, and perhaps read. *)
Closed(v, w, e) ==
    /\ Orderly(v, w)
    /\ e \in EventSet /\ e.type \in Terminals
    /\ \/ w = <<>> /\ v.terminal = e
       \/ w # <<>> /\ w[Len(w)] = e

LEMMA EventIsEvent ==
    ASSUME NEW type \in Streamed \cup Answered
    PROVE  Event(type) \in EventSet /\ Event(type).type = type
BY DEF Event, EventSet

LEMMA FreshIsValid ==
    /\ FreshValidation \in ValidationSet
    /\ ~ FreshValidation.emotion_seen /\ ~ FreshValidation.audio_seen
    /\ FreshValidation.terminal.type = "text_heard"
BY EventIsEvent DEF FreshValidation, ValidationSet, NothingYet, Streamed

LEMMA NothingTold == Told(FreshValidation, <<>>, FALSE, FALSE)
<1>1. Len(<<>>) = 0 /\ <<>> \in Seq(EventSet)
  OBVIOUS
<1> QED
  BY <1>1, FreshIsValid DEF Told, Orderly, EmotionBy, AudioBy, Terminals

(* One more line is written. *)
LEMMA WrittenLine ==
    ASSUME NEW v, NEW w \in Seq(EventSet), NEW e \in EventSet
    PROVE  LET x == Append(w, e)
           IN  /\ x \in Seq(EventSet) /\ Len(x) = Len(w) + 1 /\ x # <<>> /\ x[Len(x)] = e
               /\ \A i \in 1 .. Len(w) : x[i] = w[i]
               /\ \A i \in 0 .. Len(w) : /\ EmotionBy(v, x, i) <=> EmotionBy(v, w, i)
                                         /\ AudioBy(v, x, i) <=> AudioBy(v, w, i)
               /\ EmotionBy(v, x, Len(x)) <=> EmotionBy(v, w, Len(w)) \/ e.type = "emotion"
               /\ AudioBy(v, x, Len(x)) <=> AudioBy(v, w, Len(w)) \/ e.type = "audio"
<1> DEFINE x == Append(w, e)
<1>1. PICK n \in Nat : n = Len(w)
  OBVIOUS
<1>2. /\ x \in Seq(EventSet) /\ Len(x) = n + 1 /\ x[n + 1] = e
      /\ \A i \in 1 .. n : x[i] = w[i]
  BY <1>1, AppendProperties
<1>3. x # <<>>
  BY <1>1, <1>2
<1> HIDE DEF x
<1>4. \A i \in 0 .. n : /\ EmotionBy(v, x, i) <=> EmotionBy(v, w, i)
                        /\ AudioBy(v, x, i) <=> AudioBy(v, w, i)
  BY <1>1, <1>2 DEF EmotionBy, AudioBy
<1>5. \A j \in 1 .. n + 1 : j \in 1 .. n \/ j = n + 1
  BY <1>1
<1>6. EmotionBy(v, x, n + 1) <=> EmotionBy(v, w, n) \/ e.type = "emotion"
  BY <1>1, <1>2, <1>5 DEF EmotionBy
<1>7. AudioBy(v, x, n + 1) <=> AudioBy(v, w, n) \/ e.type = "audio"
  BY <1>1, <1>2, <1>5 DEF AudioBy
<1> QED
  BY <1>1, <1>2, <1>3, <1>4, <1>6, <1>7 DEF x

LEMMA WrittenOrder ==
    ASSUME NEW v, NEW w, NEW em \in BOOLEAN, NEW au \in BOOLEAN, NEW e \in EventSet,
           Told(v, w, em, au),
           \/ e.type = "emotion" /\ ~ em
           \/ e.type = "audio" /\ em
           \/ e.type = "done" /\ au
           \/ e.type = "error"
    PROVE  Orderly(v, Append(w, e))
<1>1. PICK n \in Nat : n = Len(w)
  BY DEF Told, Orderly
<1>2. PICK x : x = Append(w, e)
  OBVIOUS
<1>3. w \in Seq(EventSet)
  BY DEF Told, Orderly
<1>4. /\ x \in Seq(EventSet) /\ Len(x) = n + 1 /\ x[n + 1] = e
      /\ \A i \in 1 .. n : x[i] = w[i]
      /\ \A i \in 0 .. n : /\ EmotionBy(v, x, i) <=> EmotionBy(v, w, i)
                           /\ AudioBy(v, x, i) <=> AudioBy(v, w, i)
  <2>1. /\ x \in Seq(EventSet) /\ Len(x) = Len(w) + 1 /\ x[Len(x)] = e
        /\ \A i \in 1 .. Len(w) : x[i] = w[i]
        /\ \A i \in 0 .. Len(w) : /\ EmotionBy(v, x, i) <=> EmotionBy(v, w, i)
                                  /\ AudioBy(v, x, i) <=> AudioBy(v, w, i)
    BY <1>2, <1>3, WrittenLine
  <2> QED
    BY <1>1, <2>1
<1>5. ASSUME NEW i \in 1 .. n
      PROVE  \/ x[i].type = "emotion" /\ ~ EmotionBy(v, x, i - 1)
             \/ x[i].type = "audio" /\ EmotionBy(v, x, i - 1)
  <2>1. i - 1 \in 0 .. n
    BY <1>1
  <2> QED
    BY <1>1, <1>4, <2>1 DEF Told, Orderly, Terminals
<1>6. \/ x[n + 1].type = "emotion" /\ ~ EmotionBy(v, x, n)
      \/ x[n + 1].type = "audio" /\ EmotionBy(v, x, n)
      \/ x[n + 1].type = "done" /\ AudioBy(v, x, n)
      \/ x[n + 1].type = "error"
  BY <1>1, <1>4 DEF Told
<1>7. \A i \in 1 .. n + 1 : i \in 1 .. n \/ (i = n + 1 /\ i - 1 = n)
  BY <1>1
<1>8. \A i \in 1 .. Len(x) :
          \/ x[i].type = "emotion" /\ ~ EmotionBy(v, x, i - 1)
          \/ x[i].type = "audio" /\ EmotionBy(v, x, i - 1)
          \/ x[i].type = "done" /\ i = Len(x) /\ AudioBy(v, x, i - 1)
          \/ x[i].type = "error" /\ i = Len(x)
  BY <1>1, <1>4, <1>5, <1>6, <1>7
<1>9. v \in ValidationSet /\ v.terminal.type \notin Terminals
  BY DEF Told, Orderly
<1> QED
  BY <1>2, <1>4, <1>8, <1>9 DEF Orderly, Terminals

LEMMA TellEmotion ==
    ASSUME NEW v, NEW w, NEW au \in BOOLEAN, Told(v, w, FALSE, au)
    PROVE  Told(v, Append(w, Event("emotion")), TRUE, au)
<1>1. PICK e : e = Event("emotion")
  OBVIOUS
<1>2. e \in EventSet /\ e.type = "emotion" /\ e.type \notin Terminals
  BY <1>1, EventIsEvent DEF Streamed, Terminals
<1>3. Orderly(v, Append(w, e))
  BY <1>2, WrittenOrder
<1>4. w \in Seq(EventSet) /\ Len(w) \in Nat
  BY DEF Told, Orderly
<1>5. PICK x : x = Append(w, e)
  OBVIOUS
<1>6. /\ Len(x) = Len(w) + 1 /\ x[Len(x)] = e
      /\ \A i \in 1 .. Len(w) : x[i] = w[i]
      /\ EmotionBy(v, x, Len(x))
      /\ AudioBy(v, x, Len(x)) <=> AudioBy(v, w, Len(w))
  BY <1>2, <1>4, <1>5, WrittenLine
<1>7. \A i \in 1 .. Len(x) : x[i].type \notin Terminals
  BY <1>2, <1>4, <1>6 DEF Told
<1> QED
  BY <1>1, <1>3, <1>5, <1>6, <1>7 DEF Told

LEMMA TellAudio ==
    ASSUME NEW v, NEW w, NEW au \in BOOLEAN, Told(v, w, TRUE, au)
    PROVE  Told(v, Append(w, Event("audio")), TRUE, TRUE)
<1>1. PICK e : e = Event("audio")
  OBVIOUS
<1>2. e \in EventSet /\ e.type = "audio" /\ e.type \notin Terminals
  BY <1>1, EventIsEvent DEF Streamed, Terminals
<1>3. Orderly(v, Append(w, e))
  BY <1>2, WrittenOrder
<1>4. w \in Seq(EventSet) /\ Len(w) \in Nat
  BY DEF Told, Orderly
<1>5. PICK x : x = Append(w, e)
  OBVIOUS
<1>6. /\ Len(x) = Len(w) + 1 /\ x[Len(x)] = e
      /\ \A i \in 1 .. Len(w) : x[i] = w[i]
      /\ EmotionBy(v, x, Len(x)) <=> EmotionBy(v, w, Len(w))
      /\ AudioBy(v, x, Len(x))
  BY <1>2, <1>4, <1>5, WrittenLine
<1>7. \A i \in 1 .. Len(x) : x[i].type \notin Terminals
  BY <1>2, <1>4, <1>6 DEF Told
<1> QED
  BY <1>1, <1>3, <1>5, <1>6, <1>7 DEF Told

LEMMA TellTheEnd ==
    ASSUME NEW v, NEW w, NEW em \in BOOLEAN, NEW au \in BOOLEAN, NEW e \in EventSet,
           Told(v, w, em, au), e.type = "error" \/ (e.type = "done" /\ au)
    PROVE  Closed(v, Append(w, e), e)
<1>1. Orderly(v, Append(w, e)) /\ e.type \in Terminals
  BY WrittenOrder DEF Terminals
<1>2. w \in Seq(EventSet)
  BY DEF Told, Orderly
<1>3. Append(w, e) # <<>> /\ Append(w, e)[Len(Append(w, e))] = e
  BY <1>2, WrittenLine
<1> QED
  BY <1>1, <1>3 DEF Closed

(* One line is read. *)
LEMMA ReadLine ==
    ASSUME NEW v, NEW w, Orderly(v, w), w # <<>>
    PROVE  /\ Accepts(v, Head(w))
           /\ Orderly(Accepted(v, Head(w)), Tail(w))
           /\ EmotionBy(Accepted(v, Head(w)), Tail(w), Len(Tail(w))) <=> EmotionBy(v, w, Len(w))
           /\ AudioBy(Accepted(v, Head(w)), Tail(w), Len(Tail(w))) <=> AudioBy(v, w, Len(w))
<1>1. w \in Seq(EventSet) /\ v \in ValidationSet /\ v.terminal.type \notin Terminals
  BY DEF Orderly
<1>2. PICK n \in Nat : n = Len(w) /\ n >= 1
  BY <1>1
<1>3. PICK e \in EventSet : e = w[1] /\ e = Head(w)
  BY <1>1, <1>2
<1>4. PICK y \in Seq(EventSet) : /\ y = Tail(w) /\ Len(y) = n - 1
                                 /\ \A i \in 1 .. n - 1 : y[i] = w[i + 1]
  <2>1. /\ Tail(w) \in Seq(EventSet) /\ Len(Tail(w)) = n - 1
        /\ \A i \in 1 .. n - 1 : Tail(w)[i] = w[i + 1]
    BY <1>1, <1>2
  <2> QED
    BY <2>1
<1>5. PICK u : u = Accepted(v, e)
  OBVIOUS
<1>6. /\ u \in ValidationSet
      /\ u.emotion_seen <=> v.emotion_seen \/ e.type = "emotion"
      /\ u.audio_seen <=> v.audio_seen \/ e.type = "audio"
      /\ u.terminal = IF e.type \in {"done", "error"} THEN e ELSE v.terminal
  BY <1>1, <1>5 DEF Accepted, ValidationSet
<1>7. /\ ~ EmotionBy(v, w, 0) <=> ~ v.emotion_seen
      /\ AudioBy(v, w, 0) <=> v.audio_seen
  BY DEF EmotionBy, AudioBy
<1>8. \/ e.type = "emotion" /\ ~ v.emotion_seen
      \/ e.type = "audio" /\ v.emotion_seen
      \/ e.type = "done" /\ n = 1 /\ v.audio_seen
      \/ e.type = "error" /\ n = 1
  <2>1. 1 \in 1 .. Len(w) /\ 1 - 1 = 0
    BY <1>2
  <2> QED
    BY <1>2, <1>3, <1>7, <2>1 DEF Orderly
<1>9. Accepts(v, e)
  BY <1>1, <1>8 DEF Accepts, Terminals, done_seen, error_seen
<1>10. ASSUME NEW i \in 0 .. n - 1
       PROVE  /\ EmotionBy(u, y, i) <=> EmotionBy(v, w, i + 1)
              /\ AudioBy(u, y, i) <=> AudioBy(v, w, i + 1)
  <2>1. \A j \in 1 .. i : y[j] = w[j + 1] /\ j + 1 \in 1 .. i + 1
    BY <1>2, <1>4
  <2>2. \A j \in 1 .. i + 1 : j = 1 \/ (j - 1 \in 1 .. i /\ y[j - 1] = w[j])
    BY <1>2, <1>4
  <2>3. 1 \in 1 .. i + 1
    BY <1>2
  <2>4. EmotionBy(u, y, i) <=> EmotionBy(v, w, i + 1)
    BY <1>3, <1>6, <2>1, <2>2, <2>3 DEF EmotionBy
  <2>5. AudioBy(u, y, i) <=> AudioBy(v, w, i + 1)
    BY <1>3, <1>6, <2>1, <2>2, <2>3 DEF AudioBy
  <2> QED
    BY <2>4, <2>5
<1>11. ASSUME NEW i \in 1 .. Len(y)
       PROVE  \/ y[i].type = "emotion" /\ ~ EmotionBy(u, y, i - 1)
              \/ y[i].type = "audio" /\ EmotionBy(u, y, i - 1)
              \/ y[i].type = "done" /\ i = Len(y) /\ AudioBy(u, y, i - 1)
              \/ y[i].type = "error" /\ i = Len(y)
  <2>1. /\ i + 1 \in 1 .. n /\ i - 1 \in 0 .. n - 1 /\ (i + 1) - 1 = (i - 1) + 1
        /\ y[i] = w[i + 1] /\ (i + 1 = n => i = Len(y))
    BY <1>2, <1>4
  <2>2. /\ EmotionBy(u, y, i - 1) <=> EmotionBy(v, w, (i + 1) - 1)
        /\ AudioBy(u, y, i - 1) <=> AudioBy(v, w, (i + 1) - 1)
    BY <1>10, <2>1
  <2> QED
    BY <1>2, <2>1, <2>2 DEF Orderly
<1>12. /\ u.terminal.type = "done" => u.audio_seen
       /\ u.terminal.type \in Terminals => y = <<>>
  <2>1. n = 1 => y = <<>>
    BY <1>4
  <2> QED
    BY <1>1, <1>6, <1>8, <2>1 DEF Terminals
<1>13. Orderly(u, y)
  BY <1>4, <1>6, <1>11, <1>12 DEF Orderly
<1>14. /\ EmotionBy(u, y, Len(y)) <=> EmotionBy(v, w, Len(w))
       /\ AudioBy(u, y, Len(y)) <=> AudioBy(v, w, Len(w))
  <2>1. n - 1 \in 0 .. n - 1 /\ (n - 1) + 1 = n
    BY <1>2
  <2> QED
    BY <1>2, <1>4, <1>10, <2>1
<1> QED
  BY <1>3, <1>4, <1>5, <1>9, <1>13, <1>14

LEMMA ReadTold ==
    ASSUME NEW v, NEW w, NEW em \in BOOLEAN, NEW au \in BOOLEAN, Told(v, w, em, au), w # <<>>
    PROVE  Told(Accepted(v, Head(w)), Tail(w), em, au)
<1>1. w \in Seq(EventSet) /\ Orderly(v, w)
  BY DEF Told, Orderly
<1>2. PICK n \in Nat : n = Len(w) /\ n >= 1
  BY <1>1
<1>3. Head(w) = w[1] /\ Len(Tail(w)) = n - 1 /\ \A i \in 1 .. n - 1 : Tail(w)[i] = w[i + 1]
  BY <1>1, <1>2
<1>4. /\ Head(w).type \notin Terminals
      /\ \A i \in 1 .. Len(Tail(w)) : Tail(w)[i].type \notin Terminals
  BY <1>2, <1>3 DEF Told
<1>5. Accepted(v, Head(w)).terminal.type \notin Terminals
  BY <1>4 DEF Accepted, Told, Terminals
<1> QED
  BY <1>1, <1>4, <1>5, ReadLine DEF Told

LEMMA ReadClosed ==
    ASSUME NEW v, NEW w, NEW e, Closed(v, w, e), w # <<>>
    PROVE  Closed(Accepted(v, Head(w)), Tail(w), e)
<1>1. w \in Seq(EventSet) /\ Orderly(v, w)
  BY DEF Closed, Orderly
<1>2. PICK n \in Nat : n = Len(w) /\ n >= 1
  BY <1>1
<1>3. PICK y \in Seq(EventSet) : /\ y = Tail(w) /\ Len(y) = n - 1
                                 /\ \A i \in 1 .. n - 1 : y[i] = w[i + 1]
  <2>1. /\ Tail(w) \in Seq(EventSet) /\ Len(Tail(w)) = n - 1
        /\ \A i \in 1 .. n - 1 : Tail(w)[i] = w[i + 1]
    BY <1>1, <1>2
  <2> QED
    BY <2>1
<1>4. w[n] = e /\ Head(w) = w[1]
  BY <1>1, <1>2 DEF Closed
<1>5. CASE n = 1
  <2>1. Len(y) = 0
    BY <1>3, <1>5
  <2>2. y = <<>> /\ Head(w) = e
    BY <1>4, <1>5, <2>1
  <2>3. Accepted(v, Head(w)).terminal = e
    BY <2>2 DEF Accepted, Closed, Terminals
  <2> QED
    BY <1>1, <1>3, <2>2, <2>3, ReadLine DEF Closed
<1>6. CASE n # 1
  <2>1. n - 1 \in 1 .. n - 1 /\ (n - 1) + 1 = n
    BY <1>2, <1>6
  <2>2. y[n - 1] = e
    BY <1>3, <1>4, <2>1
  <2>3. y # <<>>
    <3>1. Len(<<>>) = 0 /\ n - 1 # 0
      BY <1>2, <1>6
    <3> QED
      BY <1>3, <3>1
  <2> QED
    BY <1>1, <1>3, <2>2, <2>3, ReadLine DEF Closed
<1> QED
  BY <1>5, <1>6

-----------------------------------------------------------------------------
(* What a request is.                                                      *)

Places == {"unused", "received", "planned", "plan_speaks", "opened", "model", "fallback",
           "rescue", "abort", "record", "offer", "closing", "ended"}
Offers == {"none", "preparing", "ready", "committed", "cancelling"}

(* The view may be anything: what it says is ContinuitySession's matter. *)
IsTurn(r) ==
    r \in [at : Places, route : Routes, connected : BOOLEAN, token : Tokens \cup {None},
           short : BOOLEAN, consumed : BOOLEAN, asks : BOOLEAN, view : {r.view}, face : BOOLEAN,
           outcome : {"ok", "fallback", "tts_error"}, emotion : BOOLEAN, spoken : BOOLEAN,
           offer : Offers, proposed : BOOLEAN, captured : BOOLEAN]

(* What the place of a request says of the rest of it. *)
InPhase(r) ==
    /\ r.at = "unused" => r = NoTurn
    /\ r.at \in {"unused", "received"} => r.view = NoView /\ r.offer = "none" /\ ~ r.consumed
    /\ r.at \in {"received", "planned", "opened"} => ~ r.emotion /\ ~ r.spoken
    /\ r.at \in {"plan_speaks", "abort"} => r.emotion
    /\ r.at \in {"record", "offer", "closing"} /\ r.route = "stream" => r.emotion /\ r.spoken
    /\ r.spoken => r.emotion
    /\ r.at \in {"planned", "plan_speaks", "opened"} => r.offer = "none"
    /\ r.at \in {"model", "fallback", "rescue", "record"} => r.offer # "cancelling"
    /\ r.at = "offer" /\ r.outcome = "ok" => r.offer # "cancelling"
    /\ r.at = "closing" => r.offer \notin {"preparing", "cancelling"}
    /\ r.at \in {"abort", "ended"} => r.offer # "preparing"
    /\ r.at = "ended" => ~ r.short /\ r.view = NoView

TurnsInv ==
    /\ DOMAIN turn = Turns /\ turn = [t \in Turns |-> turn[t]]
    /\ \A t \in Turns : IsTurn(turn[t]) /\ InPhase(turn[t])
    /\ wire \in [Turns -> Seq(EventSet)]
    /\ grant \in [Tokens -> {"unissued", "live", "spent", "expired"}]

(* What the lines of a request may say of it: a grant is announced as spent  *)
(* only when it is, a question only when the request has ended with one.     *)
HonestLine(e, r) ==
    /\ e.authentication_consumed => r.consumed
    /\ e.expects_short_reply => r.asks /\ r.at = "ended"

(* How a request that streams may go on from r to q while it says the lines. *)
Telling == {"plan_speaks", "model", "fallback", "rescue", "abort", "record", "offer", "closing"}

Tells(r, q, lines) ==
    \/ lines = <<>> /\ q.emotion = r.emotion /\ q.spoken = r.spoken
    \/ lines = <<Event("emotion")>> /\ ~ r.emotion /\ q.emotion /\ q.spoken = r.spoken
    \/ lines = <<Event("audio")>> /\ r.emotion /\ q.emotion
    \/ lines = <<Event("emotion"), Event("audio")>> /\ ~ r.emotion /\ q.emotion

Finishing(r, lines) ==
    \E e \in EventSet :
        \/ lines = <<e>> /\ (e.type = "error" \/ (e.type = "done" /\ r.spoken))
        \/ lines = <<Event("emotion"), e>> /\ ~ r.emotion /\ e.type = "error"
        \/ lines = <<Event("audio"), e>> /\ r.emotion /\ e.type \in Terminals

Streams(r, q, lines) ==
    \/ r.at = "received" /\ q.at \in {"planned", "opened"} /\ lines = <<>>
    \/ r.at = "received" /\ q.at = "ended" /\ lines \in {<<Event("no_speech")>>, <<Event("failed")>>}
    \/ r.at = "planned" /\ q.at = "plan_speaks" /\ lines = <<Event("text_heard"), Event("emotion")>>
       /\ ~ q.spoken
    \/ r.at = "opened" /\ q.at = "model" /\ lines = <<Event("text_heard")>>
       /\ ~ q.emotion /\ ~ q.spoken
    \/ r.at \in Telling /\ q.at \in Telling /\ Tells(r, q, lines)
    \/ r.at \in Telling /\ q.at = "ended" /\ Finishing(r, lines)
    \/ r.at = q.at /\ lines = <<>> /\ q.emotion = r.emotion /\ q.spoken = r.spoken

(* What any step of the server does of a request. *)
Moved(r, q, lines) ==
    /\ IsTurn(q) /\ InPhase(q)
    /\ q.route = r.route /\ q.connected = r.connected
    /\ r.at # "unused" /\ q.at \notin {"unused", "received"}
    /\ q.short => r.short
    /\ r.consumed => q.consumed
    /\ q.token = r.token \/ (q.token = None /\ ~ q.consumed)
    /\ r.at = "ended" => q.at = "ended" /\ q.asks = r.asks
    /\ lines \in Seq(EventSet)
    /\ \A i \in 1 .. Len(lines) : HonestLine(lines[i], q)
    /\ r.route = "stream" /\ r.connected => Streams(r, q, lines)

(* What it does of the grants. *)
Spends(r, q) ==
    \/ grant' = grant /\ q.consumed = r.consumed
    \/ /\ r.token \in Tokens /\ grant[r.token] = "live"
       /\ grant' = [grant EXCEPT ![r.token] = "spent"]

(* What it does of the session. *)
UsesSession(r, q) ==
    \/ session' = session /\ q.view \in {r.view, NoView}
    \/ /\ r.view = NoView
       /\ \E p \in People \cup {NoOne} : session' = Opened(session, p) /\ q.view = View(session, p)
    \/ q.view = r.view /\ \E n \in Sizes : session' = RecordPair(session, r.view, n)

Sends(t, lines) == wire' = [wire EXCEPT ![t] = IF turn[t].connected THEN @ \o lines ELSE @]

ServerMove(t) ==
    \E q, lines : /\ turn' = [turn EXCEPT ![t] = q]
                  /\ Sends(t, lines)
                  /\ Moved(turn[t], q, lines)
                  /\ Spends(turn[t], q)
                  /\ UsesSession(turn[t], q)

-----------------------------------------------------------------------------
(* Every step of the server is such a move.                                *)

LEMMA PlainEvent ==
    ASSUME NEW type \in Streamed \cup Answered, NEW q
    PROVE  HonestLine(Event(type), q)
BY DEF HonestLine, Event

LEMMA NoLines ==
    ASSUME NEW q
    PROVE  /\ <<>> \in Seq(EventSet)
           /\ \A i \in 1 .. Len(<<>>) : HonestLine(<<>>[i], q)
<1>1. Len(<<>>) = 0 /\ 1 .. 0 = {}
  OBVIOUS
<1> QED
  BY <1>1

LEMMA OneLine ==
    ASSUME NEW q, NEW e \in EventSet, HonestLine(e, q)
    PROVE  /\ <<e>> \in Seq(EventSet)
           /\ \A i \in 1 .. Len(<<e>>) : HonestLine(<<e>>[i], q)
<1>1. Len(<<e>>) = 1 /\ <<e>>[1] = e /\ \A i \in 1 .. 1 : i = 1
  OBVIOUS
<1> QED
  BY <1>1

LEMMA TwoLines ==
    ASSUME NEW q, NEW e \in EventSet, NEW f \in EventSet, HonestLine(e, q), HonestLine(f, q)
    PROVE  /\ <<e, f>> \in Seq(EventSet)
           /\ \A i \in 1 .. Len(<<e, f>>) : HonestLine(<<e, f>>[i], q)
<1>1. /\ Len(<<e, f>>) = 2 /\ <<e, f>>[1] = e /\ <<e, f>>[2] = f
      /\ \A i \in 1 .. 2 : i = 1 \/ i = 2
  OBVIOUS
<1>2. \A i \in 1 .. 2 : HonestLine(<<e, f>>[i], q)
  BY <1>1
<1> QED
  BY <1>1, <1>2

(* Lines that say nothing of a grant or a question. *)
LEMMA PlainLines ==
    ASSUME NEW q, NEW a \in Streamed \cup Answered, NEW b \in Streamed \cup Answered
    PROVE  /\ <<Event(a)>> \in Seq(EventSet)
           /\ \A i \in 1 .. Len(<<Event(a)>>) : HonestLine(<<Event(a)>>[i], q)
           /\ <<Event(a), Event(b)>> \in Seq(EventSet)
           /\ \A i \in 1 .. Len(<<Event(a), Event(b)>>) : HonestLine(<<Event(a), Event(b)>>[i], q)
<1>1. PICK e \in EventSet : e = Event(a) /\ HonestLine(e, q)
  BY EventIsEvent, PlainEvent
<1>2. PICK f \in EventSet : f = Event(b) /\ HonestLine(f, q)
  BY EventIsEvent, PlainEvent
<1>3. /\ <<e>> \in Seq(EventSet)
      /\ \A i \in 1 .. Len(<<e>>) : HonestLine(<<e>>[i], q)
  BY <1>1, OneLine
<1>4. /\ <<e, f>> \in Seq(EventSet)
      /\ \A i \in 1 .. Len(<<e, f>>) : HonestLine(<<e, f>>[i], q)
  BY <1>1, <1>2, TwoLines
<1> QED
  BY <1>1, <1>2, <1>3, <1>4

LEMMA Silent ==
    ASSUME TurnsInv, NEW t \in Turns, UNCHANGED wire
    PROVE  Sends(t, <<>>)
<1>1. wire[t] \o <<>> = wire[t]
  BY ConcatEmptySeq DEF TurnsInv
<1> QED
  BY <1>1 DEF Sends, TurnsInv

LEMMA EndedTurn ==
    ASSUME NEW r, IsTurn(r)
    PROVE  LET q == Ended(r)
           IN  /\ IsTurn(q) /\ InPhase(q)
               /\ q.at = "ended" /\ q.route = r.route /\ q.connected = r.connected
               /\ q.offer = Dropped(r.offer) /\ q.asks = r.asks /\ q.consumed = r.consumed
               /\ q.token = (IF r.consumed THEN r.token ELSE None)
               /\ q.view = NoView /\ ~ q.short
<1>1. PICK q : q = Ended(r)
  OBVIOUS
<1>2. Dropped(r.offer) \in Offers \ {"preparing"}
  BY DEF Dropped, Offers, IsTurn
<1>3. /\ q.at = "ended" /\ q.route = r.route /\ q.connected = r.connected
      /\ q.offer = Dropped(r.offer) /\ q.asks = r.asks /\ q.consumed = r.consumed
      /\ q.token = (IF r.consumed THEN r.token ELSE None)
      /\ q.view = NoView /\ ~ q.short /\ q.outcome = "ok" /\ ~ q.emotion /\ ~ q.spoken
  BY <1>1 DEF Ended, NoTurn
<1>4. IsTurn(q)
  <2>1. q = [at |-> "ended", route |-> r.route, connected |-> r.connected,
             token |-> IF r.consumed THEN r.token ELSE None,
             short |-> FALSE, consumed |-> r.consumed, asks |-> r.asks,
             view |-> NoView, face |-> FALSE, outcome |-> "ok",
             emotion |-> FALSE, spoken |-> FALSE, offer |-> Dropped(r.offer),
             proposed |-> FALSE, captured |-> FALSE]
    BY <1>1 DEF Ended, NoTurn
  <2>2. /\ r.route \in Routes /\ r.connected \in BOOLEAN /\ r.consumed \in BOOLEAN
        /\ r.asks \in BOOLEAN /\ Dropped(r.offer) \in Offers
        /\ (IF r.consumed THEN r.token ELSE None) \in Tokens \cup {None}
        /\ "ended" \in Places
    BY <1>2 DEF IsTurn, Places
  <2> QED
    BY <2>1, <2>2 DEF IsTurn
<1> QED
  BY <1>1, <1>2, <1>3, <1>4 DEF InPhase

(* The end of a request, as s says it was. *)
LEMMA EndingMove ==
    ASSUME NEW r, NEW s, NEW lines, IsTurn(r), r.at \notin {"unused", "ended"},
           IsTurn(s), s.route = r.route, s.connected = r.connected, s.token = r.token,
           s.offer = r.offer, s.consumed = r.consumed \/ (~ r.consumed /\ s.consumed),
           lines \in Seq(EventSet),
           \A i \in 1 .. Len(lines) : HonestLine(lines[i], Ended(s)),
           r.route = "stream" /\ r.connected => Streams(r, Ended(s), lines)
    PROVE  Moved(r, Ended(s), lines)
<1>1. PICK q : q = Ended(s)
  OBVIOUS
<1>2. /\ IsTurn(q) /\ InPhase(q)
      /\ q.at = "ended" /\ q.route = s.route /\ q.connected = s.connected
      /\ q.offer = Dropped(s.offer) /\ q.asks = s.asks /\ q.consumed = s.consumed
      /\ q.token = (IF s.consumed THEN s.token ELSE None)
      /\ q.view = NoView /\ ~ q.short
  BY <1>1, EndedTurn
<1>3. /\ \A i \in 1 .. Len(lines) : HonestLine(lines[i], q)
      /\ r.route = "stream" /\ r.connected => Streams(r, q, lines)
  BY <1>1
<1>4. /\ q.route = r.route /\ q.connected = r.connected
      /\ r.at # "unused" /\ q.at \notin {"unused", "received"}
      /\ q.short => r.short
      /\ r.consumed => q.consumed
      /\ q.token = r.token \/ (q.token = None /\ ~ q.consumed)
      /\ r.at = "ended" => q.at = "ended" /\ q.asks = r.asks
  BY <1>2
<1> QED
  BY <1>1, <1>2, <1>3, <1>4 DEF Moved

LEMMA EndsIsMove ==
    ASSUME TurnsInv, NEW t \in Turns, NEW s, NEW lines, Ends(t, s, lines),
           IsTurn(s), s.consumed = turn[t].consumed, Moved(turn[t], Ended(s), lines)
    PROVE  ServerMove(t)
<1>1. /\ turn' = [turn EXCEPT ![t] = Ended(s)] /\ Sends(t, lines)
      /\ session' = session /\ grant' = grant
  BY DEF Ends, Step, Send, Sends
<1>2. Ended(s).view = NoView /\ Ended(s).consumed = s.consumed
  BY EndedTurn
<1> QED
  BY <1>1, <1>2 DEF ServerMove, Spends, UsesSession

(* The steps before the reply. *)
LEMMA ReceivedMoves ==
    ASSUME TurnsInv, NEW t \in Turns, At(t, "received"),
           Refuse(t) \/ AskToRepeat(t) \/ DecidePlan(t) \/ DecideLook(t) \/ OpenTurn(t)
    PROVE  ServerMove(t)
<1>1. PICK r : r = turn[t]
  OBVIOUS
<1>2. IsTurn(r) /\ InPhase(r) /\ r.at = "received" /\ r.view = NoView
      /\ ~ r.emotion /\ ~ r.spoken /\ r.offer = "none"
  BY <1>1 DEF TurnsInv, At, InPhase
<1>3. ASSUME NEW type \in {"no_speech", "failed"}, Ends(t, r, <<Event(type)>>)
      PROVE  ServerMove(t)
  <2>1. /\ <<Event(type)>> \in Seq(EventSet)
        /\ \A i \in 1 .. Len(<<Event(type)>>) : HonestLine(<<Event(type)>>[i], Ended(r))
    BY PlainLines DEF Answered
  <2>2. Streams(r, Ended(r), <<Event(type)>>)
    BY <1>2, EndedTurn DEF Streams
  <2>3. Moved(r, Ended(r), <<Event(type)>>)
    BY <1>2, <2>1, <2>2, EndingMove
  <2> QED
    BY <1>1, <1>2, <1>3, <2>3, EndsIsMove
<1>4. ASSUME Refuse(t) PROVE ServerMove(t)
  BY <1>1, <1>3, <1>4 DEF Refuse
<1>5. ASSUME DecideLook(t) PROVE ServerMove(t)
  <2>1. CASE Fails(t)
    BY <1>1, <1>3, <2>1 DEF Fails
  <2>2. ASSUME Ends(t, turn[t], <<[Event("reply") EXCEPT !.vision_requested = TRUE]>>)
        PROVE  ServerMove(t)
    <3>1. PICK e : e = [Event("reply") EXCEPT !.vision_requested = TRUE]
      OBVIOUS
    <3>2. e \in EventSet /\ ~ e.authentication_consumed /\ ~ e.expects_short_reply
      BY <3>1 DEF Event, EventSet, Answered
    <3>3. HonestLine(e, Ended(r))
      BY <3>2 DEF HonestLine
    <3>4. /\ <<e>> \in Seq(EventSet)
          /\ \A i \in 1 .. Len(<<e>>) : HonestLine(<<e>>[i], Ended(r))
      BY <3>2, <3>3, OneLine
    <3>5. r.route # "stream"
      BY <1>1, <1>5 DEF DecideLook, On
    <3>6. Moved(r, Ended(r), <<e>>)
      BY <1>2, <3>4, <3>5, EndingMove
    <3> QED
      BY <1>1, <1>2, <2>2, <3>1, <3>6, EndsIsMove
  <2> QED
    BY <1>5, <2>1, <2>2 DEF DecideLook
<1>6. ASSUME NEW again \in BOOLEAN, Planned(t, [r EXCEPT !.asks = again]), UNCHANGED grant
      PROVE  ServerMove(t)
  <2> DEFINE next == IF On(t, "stream") THEN "planned" ELSE "closing"
  <2>0. next \in Places /\ next = (IF r.route = "stream" THEN "planned" ELSE "closing")
    BY <1>1 DEF On, Places
  <2>1. PICK q : q = [r EXCEPT !.asks = again, !.at = next]
    OBVIOUS
  <2>2. /\ turn' = [turn EXCEPT ![t] = q] /\ UNCHANGED <<wire, session, grant>>
    BY <1>6, <2>1 DEF Planned, Step
  <2> HIDE DEF next
  <2>3. /\ IsTurn(q) /\ q.at = (IF r.route = "stream" THEN "planned" ELSE "closing")
        /\ q.route = r.route /\ q.connected = r.connected /\ q.token = r.token
        /\ q.short = r.short /\ q.consumed = r.consumed /\ q.view = r.view
        /\ q.outcome = r.outcome /\ q.emotion = r.emotion /\ q.spoken = r.spoken
        /\ q.offer = r.offer
    BY <1>2, <2>0, <2>1 DEF IsTurn
  <2>4. InPhase(q)
    BY <1>2, <2>3 DEF InPhase
  <2>5. Moved(r, q, <<>>)
    <3>1. Streams(r, q, <<>>) \/ r.route # "stream"
      BY <1>2, <2>3 DEF Streams
    <3> QED
      BY <1>2, <2>3, <2>4, <3>1, NoLines DEF Moved
  <2>6. Spends(r, q) /\ UsesSession(r, q)
    BY <2>2, <2>3 DEF Spends, UsesSession
  <2> QED
    BY <1>1, <2>2, <2>5, <2>6, Silent DEF ServerMove
<1>7. ASSUME AskToRepeat(t) PROVE ServerMove(t)
  BY <1>1, <1>2, <1>6, <1>7 DEF AskToRepeat, IsTurn, On
<1>8. ASSUME DecidePlan(t) PROVE ServerMove(t)
  BY <1>1, <1>6, <1>8 DEF DecidePlan
<1>9. ASSUME OpenTurn(t) PROVE ServerMove(t)
  <2>1. PICK s \in Speakers(t) :
            /\ session' = Opened(session, s.who)
            /\ turn' = [turn EXCEPT ![t] = [r EXCEPT !.at = "opened", !.face = s.face,
                                                     !.view = View(session, s.who)]]
            /\ UNCHANGED <<wire, grant>>
    BY <1>1, <1>9 DEF OpenTurn, Step
  <2>2. s.who \in People \cup {NoOne} /\ s.face \in BOOLEAN
    <3>1. Owner \in People
      BY VoiceServerAssumption
    <3>2. CASE s \in [who : People, face : {TRUE}]
      BY <3>2
    <3>3. CASE s = [who |-> NoOne, face |-> FALSE]
      BY <3>3
    <3>4. CASE s = [who |-> Owner, face |-> FALSE]
      BY <3>1, <3>4
    <3> QED
      BY <3>2, <3>3, <3>4 DEF Speakers
  <2>3. PICK q : q = [r EXCEPT !.at = "opened", !.face = s.face, !.view = View(session, s.who)]
    OBVIOUS
  <2>4. /\ IsTurn(q) /\ q.at = "opened" /\ q.view = View(session, s.who)
        /\ q.route = r.route /\ q.connected = r.connected /\ q.token = r.token
        /\ q.short = r.short /\ q.consumed = r.consumed
        /\ q.outcome = r.outcome /\ q.emotion = r.emotion /\ q.spoken = r.spoken
        /\ q.offer = r.offer
    BY <1>2, <2>2, <2>3 DEF IsTurn, Places
  <2>5. InPhase(q)
    BY <1>2, <2>4 DEF InPhase
  <2>6. Moved(r, q, <<>>)
    <3>1. Streams(r, q, <<>>)
      BY <1>2, <2>4 DEF Streams
    <3> QED
      BY <1>2, <2>4, <2>5, <3>1, NoLines DEF Moved
  <2>7. Spends(r, q) /\ UsesSession(r, q)
    BY <1>2, <2>1, <2>2, <2>4 DEF Spends, UsesSession
  <2> QED
    BY <1>1, <2>1, <2>3, <2>6, <2>7, Silent DEF ServerMove
<1> QED
  BY <1>4, <1>5, <1>7, <1>8, <1>9

LEMMA SameSession ==
    ASSUME TurnsInv, NEW t \in Turns, NEW q, NEW lines,
           turn' = [turn EXCEPT ![t] = q], Sends(t, lines), Moved(turn[t], q, lines),
           q.view = turn[t].view, q.consumed = turn[t].consumed,
           session' = session, grant' = grant
    PROVE  ServerMove(t)
BY DEF ServerMove, Spends, UsesSession

(* The branch that spends a grant. *)
LEMMA ProtectedMoves ==
    ASSUME TurnsInv, NEW t \in Turns, DecideProtectedRead(t)
    PROVE  ServerMove(t)
<1>1. PICK r : r = turn[t]
  OBVIOUS
<1>2. /\ IsTurn(r) /\ InPhase(r) /\ r.at = "received" /\ r.view = NoView
      /\ ~ r.emotion /\ ~ r.spoken /\ ~ r.consumed /\ r.offer = "none"
  BY <1>1 DEF TurnsInv, At, InPhase, DecideProtectedRead
<1>3. /\ r.token \in Tokens /\ grant[r.token] = "live"
      /\ grant' = [grant EXCEPT ![r.token] = "spent"] /\ session' = session
  BY <1>1, <1>2 DEF DecideProtectedRead, Planned, IsTurn
<1>4. PICK known \in BOOLEAN :
          \/ Planned(t, [r EXCEPT !.consumed = known])
          \/ /\ Step(t, Ended([r EXCEPT !.consumed = known])) /\ Send(t, <<Event("failed")>>)
  BY <1>1 DEF DecideProtectedRead
<1>5. PICK s : s = [r EXCEPT !.consumed = known]
  OBVIOUS
<1>6. /\ IsTurn(s) /\ s.at = r.at /\ s.route = r.route /\ s.connected = r.connected
      /\ s.token = r.token /\ s.short = r.short /\ s.consumed = known /\ s.view = r.view
      /\ s.outcome = r.outcome /\ s.emotion = r.emotion /\ s.spoken = r.spoken
      /\ s.offer = r.offer /\ s.asks = r.asks
  BY <1>2, <1>5 DEF IsTurn
<1>7. CASE Planned(t, s)
  <2>1. PICK q : q = [s EXCEPT !.at = IF On(t, "stream") THEN "planned" ELSE "closing"]
    OBVIOUS
  <2>2. /\ turn' = [turn EXCEPT ![t] = q] /\ UNCHANGED wire
    BY <1>7, <2>1 DEF Planned, Step
  <2>3. /\ IsTurn(q) /\ q.at = (IF r.route = "stream" THEN "planned" ELSE "closing")
        /\ q.route = r.route /\ q.connected = r.connected /\ q.token = r.token
        /\ q.short = r.short /\ q.view = r.view
        /\ q.outcome = r.outcome /\ q.emotion = r.emotion /\ q.spoken = r.spoken
        /\ q.offer = r.offer
    BY <1>1, <1>6, <2>1 DEF IsTurn, On, Places
  <2>4. InPhase(q)
    BY <1>2, <2>3 DEF InPhase
  <2>5. Moved(r, q, <<>>)
    <3>1. Streams(r, q, <<>>) \/ r.route # "stream"
      BY <1>2, <2>3 DEF Streams
    <3> QED
      BY <1>2, <2>3, <2>4, <3>1, NoLines DEF Moved
  <2>6. Spends(r, q) /\ UsesSession(r, q)
    BY <1>3, <2>3 DEF Spends, UsesSession
  <2> QED
    BY <1>1, <2>2, <2>5, <2>6, Silent DEF ServerMove
<1>8. CASE Step(t, Ended(s)) /\ Send(t, <<Event("failed")>>)
  <2>1. /\ <<Event("failed")>> \in Seq(EventSet)
        /\ \A i \in 1 .. Len(<<Event("failed")>>) : HonestLine(<<Event("failed")>>[i], Ended(s))
    BY PlainLines DEF Answered
  <2>2. Streams(r, Ended(s), <<Event("failed")>>)
    BY <1>2, <1>6, EndedTurn DEF Streams
  <2>3. Moved(r, Ended(s), <<Event("failed")>>)
    <3>1. s.consumed = r.consumed \/ (~ r.consumed /\ s.consumed)
      BY <1>2, <1>6 DEF IsTurn
    <3> QED
      BY <1>2, <1>6, <2>1, <2>2, <3>1, EndingMove
  <2>4. Ended(s).view = NoView
    BY <1>6, EndedTurn
  <2>5. Spends(r, Ended(s)) /\ UsesSession(r, Ended(s))
    BY <1>3, <2>4 DEF Spends, UsesSession
  <2>6. turn' = [turn EXCEPT ![t] = Ended(s)] /\ Sends(t, <<Event("failed")>>)
    BY <1>8 DEF Step, Send, Sends
  <2> QED
    BY <1>1, <2>3, <2>5, <2>6 DEF ServerMove
<1> QED
  BY <1>4, <1>5, <1>7, <1>8

(* A request that streams ends. *)
LEMMA StreamEnds ==
    ASSUME TurnsInv, NEW t \in Turns, turn[t].at \in Telling,
           NEW asked \in BOOLEAN, NEW lines \in Seq(EventSet),
           Ends(t, [turn[t] EXCEPT !.asks = asked], lines),
           \A i \in 1 .. Len(lines) : HonestLine(lines[i], Ended([turn[t] EXCEPT !.asks = asked])),
           On(t, "stream") /\ turn[t].connected => Finishing(turn[t], lines)
    PROVE  ServerMove(t)
<1>1. PICK r : r = turn[t]
  OBVIOUS
<1>2. IsTurn(r) /\ InPhase(r) /\ r.at \in Telling
  BY <1>1 DEF TurnsInv
<1>3. PICK s : s = [r EXCEPT !.asks = asked]
  OBVIOUS
<1>4. /\ IsTurn(s) /\ s.route = r.route /\ s.connected = r.connected
      /\ s.token = r.token /\ s.consumed = r.consumed /\ s.offer = r.offer
  BY <1>2, <1>3 DEF IsTurn
<1>5. Ended(s).at = "ended"
  BY <1>4, EndedTurn
<1>6. r.route = "stream" /\ r.connected => Streams(r, Ended(s), lines)
  BY <1>1, <1>2, <1>5 DEF Streams, On
<1>7. r.at \notin {"unused", "ended"}
  BY <1>2 DEF Telling
<1>8. \A i \in 1 .. Len(lines) : HonestLine(lines[i], Ended(s))
  BY <1>1, <1>3
<1>9. Moved(r, Ended(s), lines)
  BY <1>2, <1>4, <1>6, <1>7, <1>8, EndingMove
<1> QED
  BY <1>1, <1>3, <1>4, <1>9, EndsIsMove

LEMMA SameAsks ==
    ASSUME TurnsInv, NEW t \in Turns
    PROVE  [turn[t] EXCEPT !.asks = turn[t].asks] = turn[t]
BY DEF TurnsInv, IsTurn

LEMMA DoneIsHonest ==
    ASSUME TurnsInv, NEW t \in Turns, NEW asked \in BOOLEAN
    PROVE  /\ Done(t, asked) \in EventSet /\ Done(t, asked).type = "done"
           /\ HonestLine(Done(t, asked), Ended([turn[t] EXCEPT !.asks = asked]))
<1>1. PICK e : e = Done(t, asked)
  OBVIOUS
<1>2. turn[t].consumed \in BOOLEAN
  BY DEF TurnsInv, IsTurn
<1>3. /\ e \in EventSet /\ e.type = "done"
      /\ e.authentication_consumed = turn[t].consumed /\ e.expects_short_reply = asked
  BY <1>1, <1>2 DEF Done, Event, EventSet, Streamed
<1>4. PICK s : s = [turn[t] EXCEPT !.asks = asked]
  OBVIOUS
<1>5. IsTurn(s) /\ s.asks = asked /\ s.consumed = turn[t].consumed
  <2>1. PICK r : r = turn[t] /\ IsTurn(r)
    BY DEF TurnsInv
  <2>2. s = [r EXCEPT !.asks = asked]
    BY <1>4, <2>1
  <2>3. IsTurn(s) /\ s.asks = asked /\ s.consumed = r.consumed
    BY <2>1, <2>2 DEF IsTurn
  <2> QED
    BY <2>1, <2>3
<1>6. Ended(s).asks = asked /\ Ended(s).consumed = turn[t].consumed /\ Ended(s).at = "ended"
  BY <1>5, EndedTurn
<1> QED
  BY <1>1, <1>3, <1>4, <1>6 DEF HonestLine

(* Lines are written one by one. *)
LEMMA OneByOne ==
    ASSUME NEW w \in Seq(EventSet), NEW a \in EventSet, NEW b \in EventSet
    PROVE  /\ w \o <<a>> = Append(w, a)
           /\ w \o <<a, b>> = Append(Append(w, a), b)
           /\ <<a>> \o <<b>> = <<a, b>>
           /\ <<>> \o <<b>> = <<b>>
<1>1. <<a>> \in Seq(EventSet) /\ <<b>> \in Seq(EventSet) /\ <<a, b>> \in Seq(EventSet)
  OBVIOUS
<1>2. \A x \in Seq(EventSet), e \in EventSet : Append(x, e) = x \o <<e>>
  BY AppendIsConcat
<1>3. <<a>> \o <<b>> = <<a, b>>
  <2>1. /\ <<a>> \o <<b>> \in Seq(EventSet) /\ Len(<<a>> \o <<b>>) = 2
        /\ \A i \in 1 .. 2 : (<<a>> \o <<b>>)[i] = IF i <= 1 THEN <<a>>[i] ELSE <<b>>[i - 1]
    <3>1. Len(<<a>>) = 1 /\ Len(<<b>>) = 1 /\ 1 + 1 = 2
      OBVIOUS
    <3> QED
      BY <1>1, <3>1, ConcatProperties
  <2>2. PICK x \in Seq(EventSet) : x = <<a>> \o <<b>>
    BY <2>1
  <2>3. Len(x) = 2 /\ x[1] = a /\ x[2] = b
    BY <2>1, <2>2
  <2>4. /\ Len(<<a, b>>) = 2 /\ <<a, b>>[1] = a /\ <<a, b>>[2] = b
        /\ \A i \in 1 .. 2 : i = 1 \/ i = 2
    OBVIOUS
  <2>5. PICK y \in Seq(EventSet) : y = <<a, b>>
    BY <1>1
  <2>6. \A i \in 1 .. Len(x) : x[i] = y[i]
    BY <2>3, <2>4, <2>5
  <2> QED
    BY <2>2, <2>3, <2>4, <2>5, <2>6, SeqEqual
<1>4. <<>> \o <<b>> = <<b>>
  BY <1>1, ConcatEmptySeq
<1>5. w \o <<a, b>> = Append(Append(w, a), b)
  <2>1. (w \o <<a>>) \o <<b>> = w \o (<<a>> \o <<b>>)
    BY <1>1, ConcatAssociative
  <2>2. Append(w, a) \in Seq(EventSet)
    BY AppendProperties
  <2> QED
    BY <1>2, <1>3, <2>1, <2>2
<1> QED
  BY <1>2, <1>3, <1>4, <1>5

LEMMA PlanMoves ==
    ASSUME TurnsInv, NEW t \in Turns, PlanOpens(t) \/ PlanSpeaks(t)
    PROVE  ServerMove(t)
<1>1. PICK r : r = turn[t]
  OBVIOUS
<1>2. IsTurn(r) /\ InPhase(r)
  BY <1>1 DEF TurnsInv
<1>3. CASE PlanOpens(t)
  <2>1. PICK q : q = [r EXCEPT !.at = "plan_speaks", !.emotion = TRUE]
    OBVIOUS
  <2>2. r.at = "planned" /\ ~ r.spoken /\ r.offer = "none"
    BY <1>1, <1>2, <1>3 DEF PlanOpens, At, InPhase
  <2>3. /\ IsTurn(q) /\ q.at = "plan_speaks" /\ q.emotion /\ ~ q.spoken
        /\ q.route = r.route /\ q.connected = r.connected /\ q.token = r.token
        /\ q.short = r.short /\ q.consumed = r.consumed /\ q.view = r.view
        /\ q.outcome = r.outcome /\ q.offer = r.offer
    BY <1>2, <2>1, <2>2 DEF IsTurn, Places
  <2>4. InPhase(q)
    BY <2>2, <2>3 DEF InPhase
  <2>5. Moved(r, q, <<Event("text_heard"), Event("emotion")>>)
    <3>1. Streams(r, q, <<Event("text_heard"), Event("emotion")>>)
      BY <2>2, <2>3 DEF Streams
    <3>2. /\ <<Event("text_heard"), Event("emotion")>> \in Seq(EventSet)
          /\ \A i \in 1 .. Len(<<Event("text_heard"), Event("emotion")>>) :
                HonestLine(<<Event("text_heard"), Event("emotion")>>[i], q)
      BY PlainLines DEF Streamed
    <3> QED
      BY <2>2, <2>3, <2>4, <3>1, <3>2 DEF Moved
  <2>6. /\ turn' = [turn EXCEPT ![t] = q] /\ Sends(t, <<Event("text_heard"), Event("emotion")>>)
        /\ session' = session /\ grant' = grant
    BY <1>1, <1>3, <2>1 DEF PlanOpens, Step, Send, Sends
  <2> QED
    BY <1>1, <2>3, <2>5, <2>6, SameSession
<1>4. CASE PlanSpeaks(t)
  <2>1. /\ r.at = "plan_speaks" /\ r.at \in Telling /\ r.emotion
        /\ r.asks \in BOOLEAN
    BY <1>1, <1>2, <1>4 DEF PlanSpeaks, At, InPhase, Telling, IsTurn
  <2>2. [r EXCEPT !.asks = r.asks] = r
    BY <1>1, SameAsks
  <2>3. CASE Ends(t, turn[t], <<Event("audio"), Done(t, turn[t].asks)>>)
    <3>1. PICK e \in EventSet : e = Done(t, r.asks) /\ e.type = "done" /\ HonestLine(e, Ended(r))
      BY <1>1, <2>1, <2>2, DoneIsHonest
    <3>2. PICK a \in EventSet : a = Event("audio") /\ HonestLine(a, Ended(r))
      BY EventIsEvent, PlainEvent DEF Streamed
    <3>3. /\ <<a, e>> \in Seq(EventSet)
          /\ \A i \in 1 .. Len(<<a, e>>) : HonestLine(<<a, e>>[i], Ended(r))
      BY <3>1, <3>2, TwoLines
    <3>4. Finishing(r, <<a, e>>)
      BY <2>1, <3>1, <3>2 DEF Finishing, Terminals
    <3> QED
      BY <1>1, <2>1, <2>2, <2>3, <3>1, <3>2, <3>3, <3>4, StreamEnds
  <2>4. CASE Ends(t, turn[t], <<Event("error")>>)
    <3>1. PICK e \in EventSet : e = Event("error") /\ e.type = "error" /\ HonestLine(e, Ended(r))
      BY EventIsEvent, PlainEvent DEF Streamed
    <3>2. /\ <<e>> \in Seq(EventSet)
          /\ \A i \in 1 .. Len(<<e>>) : HonestLine(<<e>>[i], Ended(r))
      BY <3>1, OneLine
    <3>3. Finishing(r, <<e>>)
      BY <3>1 DEF Finishing
    <3> QED
      BY <1>1, <2>1, <2>2, <2>4, <3>1, <3>2, <3>3, StreamEnds
  <2> QED
    BY <1>4, <2>3, <2>4 DEF PlanSpeaks
<1> QED
  BY <1>3, <1>4

(* What stays of a request while it goes on. *)
SameRequest(r, q) ==
    /\ q.route = r.route /\ q.connected = r.connected /\ q.token = r.token
    /\ q.short = r.short /\ q.consumed = r.consumed /\ q.view = r.view

LEMMA GoesOn ==
    ASSUME TurnsInv, NEW t \in Turns, NEW q, NEW lines, turn[t].at \in Telling \cup {"opened"},
           IsTurn(q), InPhase(q), q.at \in Telling, SameRequest(turn[t], q),
           lines \in Seq(EventSet), \A i \in 1 .. Len(lines) : HonestLine(lines[i], q),
           On(t, "stream") => Streams(turn[t], q, lines),
           Step(t, q), Sends(t, lines), session' = session, grant' = grant
    PROVE  ServerMove(t)
<1>1. /\ turn[t].at # "unused" /\ turn[t].at # "ended"
      /\ q.at \notin {"unused", "received", "ended"}
  BY DEF Telling
<1>2. Moved(turn[t], q, lines)
  BY <1>1 DEF Moved, SameRequest, On
<1> QED
  BY <1>1, <1>2, SameSession DEF Step, SameRequest

(* The reply of the model, sentence by sentence. *)
LEMMA ModelMoves ==
    ASSUME TurnsInv, NEW t \in Turns,
           \/ StartReply(t) \/ PromoteEmotion(t) \/ SpeakSentence(t) \/ EndOfModel(t)
           \/ InvalidReply(t) \/ ModelFails(t) \/ Generate(t)
    PROVE  ServerMove(t)
<1>1. PICK r : r = turn[t]
  OBVIOUS
<1>2. IsTurn(r) /\ InPhase(r)
  BY <1>1 DEF TurnsInv
<1>3. CASE StartReply(t)
  <2>1. PICK q : q = [r EXCEPT !.at = "model", !.offer = IF r.face THEN "preparing" ELSE "none"]
    OBVIOUS
  <2>2. PICK lines : lines = IF On(t, "stream") THEN <<Event("text_heard")>> ELSE <<>>
    OBVIOUS
  <2>3. r.at = "opened" /\ ~ r.emotion /\ ~ r.spoken
    BY <1>1, <1>2, <1>3 DEF StartReply, At, InPhase
  <2>4. /\ IsTurn(q) /\ q.at = "model" /\ SameRequest(r, q) /\ ~ q.emotion /\ ~ q.spoken
        /\ q.outcome = r.outcome /\ q.offer # "cancelling"
    BY <1>2, <2>1, <2>3 DEF IsTurn, Places, Offers, SameRequest
  <2>5. InPhase(q)
    BY <1>2, <2>3, <2>4 DEF InPhase
  <2>6. lines \in Seq(EventSet) /\ \A i \in 1 .. Len(lines) : HonestLine(lines[i], q)
    BY <2>2, NoLines, PlainLines DEF Streamed
  <2>7. On(t, "stream") => Streams(r, q, lines)
    BY <2>2, <2>3, <2>4 DEF Streams
  <2>8. Step(t, q) /\ Sends(t, lines) /\ session' = session /\ grant' = grant
    BY <1>1, <1>3, <2>1, <2>2 DEF StartReply, Send, Sends
  <2> QED
    BY <1>1, <2>3, <2>4, <2>5, <2>6, <2>7, <2>8, GoesOn DEF Telling
<1>4. CASE PromoteEmotion(t)
  <2>1. PICK q : q = [r EXCEPT !.emotion = TRUE]
    OBVIOUS
  <2>2. r.at = "model" /\ ~ r.emotion
    BY <1>1, <1>2, <1>4 DEF PromoteEmotion, At
  <2>3. /\ IsTurn(q) /\ q.at = "model" /\ SameRequest(r, q) /\ q.emotion /\ q.spoken = r.spoken
        /\ q.outcome = r.outcome /\ q.offer = r.offer
    BY <1>2, <2>1, <2>2 DEF IsTurn, SameRequest
  <2>4. InPhase(q)
    BY <1>2, <2>2, <2>3 DEF InPhase
  <2>5. /\ <<Event("emotion")>> \in Seq(EventSet)
        /\ \A i \in 1 .. Len(<<Event("emotion")>>) : HonestLine(<<Event("emotion")>>[i], q)
    BY PlainLines DEF Streamed
  <2>6. Streams(r, q, <<Event("emotion")>>)
    BY <2>2, <2>3 DEF Streams, Tells, Telling
  <2>7. Step(t, q) /\ Sends(t, <<Event("emotion")>>) /\ session' = session /\ grant' = grant
    BY <1>1, <1>4, <2>1 DEF PromoteEmotion, Send, Sends
  <2> QED
    BY <1>1, <2>2, <2>3, <2>4, <2>5, <2>6, <2>7, GoesOn DEF Telling
<1>5. CASE SpeakSentence(t)
  <2>1. PICK q : q = [r EXCEPT !.spoken = TRUE]
    OBVIOUS
  <2>2. r.at = "model" /\ r.emotion
    BY <1>1, <1>2, <1>5 DEF SpeakSentence, At
  <2>3. /\ IsTurn(q) /\ q.at = "model" /\ SameRequest(r, q) /\ q.emotion
        /\ q.outcome = r.outcome /\ q.offer = r.offer
    BY <1>2, <2>1, <2>2 DEF IsTurn, SameRequest
  <2>4. InPhase(q)
    BY <1>2, <2>2, <2>3 DEF InPhase
  <2>5. /\ <<Event("audio")>> \in Seq(EventSet)
        /\ \A i \in 1 .. Len(<<Event("audio")>>) : HonestLine(<<Event("audio")>>[i], q)
    BY PlainLines DEF Streamed
  <2>6. Streams(r, q, <<Event("audio")>>)
    BY <2>2, <2>3 DEF Streams, Tells, Telling
  <2>7. Step(t, q) /\ Sends(t, <<Event("audio")>>) /\ session' = session /\ grant' = grant
    BY <1>1, <1>5, <2>1 DEF SpeakSentence, Send, Sends
  <2> QED
    BY <1>1, <2>2, <2>3, <2>4, <2>5, <2>6, <2>7, GoesOn DEF Telling
<1>6. ASSUME NEW q, IsTurn(q), SameRequest(r, q), InPhase(q), q.at \in {"record", "fallback", "rescue"},
             r.at = "model", q.emotion = r.emotion, q.spoken = r.spoken,
             Step(t, q), UNCHANGED <<wire, session, grant>>
      PROVE  ServerMove(t)
  <2>1. Streams(r, q, <<>>)
    BY <1>6 DEF Streams, Tells, Telling
  <2>2. Sends(t, <<>>) /\ q.at \in Telling /\ r.at \in Telling
    BY <1>6, Silent DEF Telling
  <2> QED
    BY <1>1, <1>6, <2>1, <2>2, NoLines, GoesOn
<1>7. CASE EndOfModel(t)
  <2>1. PICK q : q = [r EXCEPT !.at = "record"]
    OBVIOUS
  <2>2. r.at = "model" /\ r.spoken /\ r.emotion
    BY <1>1, <1>2, <1>7 DEF EndOfModel, At, InPhase
  <2>3. /\ IsTurn(q) /\ q.at = "record" /\ SameRequest(r, q) /\ q.emotion = r.emotion
        /\ q.spoken = r.spoken /\ q.outcome = r.outcome /\ q.offer = r.offer
    BY <1>2, <2>1, <2>2 DEF IsTurn, SameRequest, Places
  <2>4. InPhase(q)
    BY <1>2, <2>2, <2>3 DEF InPhase
  <2> QED
    BY <1>1, <1>6, <1>7, <2>1, <2>2, <2>3, <2>4 DEF EndOfModel
<1>8. ASSUME NEW place \in {"fallback", "rescue"}, At(t, "model"),
             Step(t, [turn[t] EXCEPT !.at = place, !.outcome = "fallback"]),
             UNCHANGED <<wire, session, grant>>
      PROVE  ServerMove(t)
  <2>1. PICK q : q = [r EXCEPT !.at = place, !.outcome = "fallback"]
    OBVIOUS
  <2>2. r.at = "model"
    BY <1>1, <1>8 DEF At
  <2>3. /\ IsTurn(q) /\ q.at = place /\ SameRequest(r, q) /\ q.emotion = r.emotion
        /\ q.spoken = r.spoken /\ q.outcome = "fallback" /\ q.offer = r.offer
    BY <1>2, <1>8, <2>1, <2>2 DEF IsTurn, SameRequest, Places
  <2>4. InPhase(q)
    BY <1>2, <1>8, <2>2, <2>3 DEF InPhase
  <2> QED
    BY <1>1, <1>6, <1>8, <2>1, <2>2, <2>3, <2>4
<1>9. CASE InvalidReply(t) \/ ModelFails(t)
  BY <1>8, <1>9 DEF InvalidReply, ModelFails
<1>10. CASE Generate(t)
  <2>1. PICK o \in {"ok", "fallback"} : Step(t, [turn[t] EXCEPT !.at = "record", !.outcome = o])
    BY <1>10 DEF Generate
  <2>2. PICK q : q = [r EXCEPT !.at = "record", !.outcome = o]
    OBVIOUS
  <2>3. r.at = "model" /\ r.route # "stream" /\ UNCHANGED <<wire, session, grant>>
    BY <1>1, <1>10 DEF Generate, At, On
  <2>4. /\ IsTurn(q) /\ q.at = "record" /\ SameRequest(r, q) /\ q.emotion = r.emotion
        /\ q.spoken = r.spoken /\ q.outcome = o /\ q.offer = r.offer
    BY <1>2, <2>2, <2>3 DEF IsTurn, SameRequest, Places
  <2>5. InPhase(q)
    BY <1>2, <2>1, <2>3, <2>4 DEF InPhase, SameRequest
  <2> QED
    BY <1>1, <1>6, <2>1, <2>2, <2>3, <2>4, <2>5
<1> QED
  BY <1>3, <1>4, <1>5, <1>7, <1>9, <1>10

LEMMA FallbackLines ==
    ASSUME NEW t, NEW e \in EventSet
    PROVE  FallbackEmotion(t) \o <<e>> = IF turn[t].emotion THEN <<e>> ELSE <<Event("emotion"), e>>
<1>1. Event("emotion") \in EventSet /\ <<e>> \in Seq(EventSet)
  BY EventIsEvent DEF Streamed
<1> QED
  BY <1>1, OneByOne DEF FallbackEmotion

(* The fallback, and speech that cannot be made. *)
LEMMA FallbackMoves ==
    ASSUME TurnsInv, NEW t \in Turns,
           EmitFallback(t) \/ SpeechFails(t) \/ Abort(t) \/ RescueFails(t)
    PROVE  ServerMove(t)
<1>1. PICK r : r = turn[t]
  OBVIOUS
<1>2. IsTurn(r) /\ InPhase(r)
  BY <1>1 DEF TurnsInv
<1>3. CASE EmitFallback(t)
  <2>1. PICK q : q = [r EXCEPT !.at = "record", !.emotion = TRUE, !.spoken = TRUE]
    OBVIOUS
  <2>2. r.at \in {"fallback", "rescue"}
    BY <1>1, <1>3 DEF EmitFallback, At
  <2>3. /\ IsTurn(q) /\ q.at = "record" /\ SameRequest(r, q) /\ q.emotion /\ q.spoken
        /\ q.outcome = r.outcome /\ q.offer = r.offer
    BY <1>2, <2>1, <2>2 DEF IsTurn, SameRequest, Places
  <2>4. InPhase(q)
    BY <1>2, <2>2, <2>3 DEF InPhase
  <2>5. PICK lines : lines = IF r.emotion THEN <<Event("audio")>> ELSE <<Event("emotion"), Event("audio")>>
    OBVIOUS
  <2>6. lines \in Seq(EventSet) /\ \A i \in 1 .. Len(lines) : HonestLine(lines[i], q)
    BY <2>5, PlainLines DEF Streamed
  <2>7. Streams(r, q, lines)
    <3>1. Tells(r, q, lines)
      BY <1>2, <2>3, <2>5 DEF Tells, IsTurn
    <3> QED
      BY <2>2, <2>3, <3>1 DEF Streams, Telling
  <2>8. Step(t, q) /\ Sends(t, lines) /\ session' = session /\ grant' = grant
    <3>1. Event("audio") \in EventSet
      BY EventIsEvent DEF Streamed
    <3>2. FallbackEmotion(t) \o <<Event("audio")>> = lines
      BY <1>1, <2>5, <3>1, FallbackLines
    <3> QED
      BY <1>1, <1>3, <2>1, <3>2 DEF EmitFallback, Send, Sends
  <2> QED
    BY <1>1, <2>2, <2>3, <2>4, <2>6, <2>7, <2>8, GoesOn DEF Telling
<1>4. CASE SpeechFails(t)
  <2>1. PICK q : q = [r EXCEPT !.at = "abort", !.outcome = "tts_error", !.emotion = TRUE,
                               !.offer = Dropped(@)]
    OBVIOUS
  <2>2. r.at \in {"model", "fallback"}
    BY <1>1, <1>4 DEF SpeechFails, At
  <2>3. Dropped(r.offer) \in Offers \ {"preparing"}
    BY <1>2 DEF Dropped, Offers, IsTurn
  <2>4. /\ IsTurn(q) /\ q.at = "abort" /\ SameRequest(r, q) /\ q.emotion /\ q.spoken = r.spoken
        /\ q.offer # "preparing"
    BY <1>2, <2>1, <2>2, <2>3 DEF IsTurn, SameRequest, Places
  <2>5. InPhase(q)
    BY <1>2, <2>2, <2>4 DEF InPhase
  <2>6. PICK lines : lines = IF r.emotion THEN <<>> ELSE <<Event("emotion")>>
    OBVIOUS
  <2>7. lines \in Seq(EventSet) /\ \A i \in 1 .. Len(lines) : HonestLine(lines[i], q)
    BY <2>6, NoLines, PlainLines DEF Streamed
  <2>8. Streams(r, q, lines)
    <3>1. Tells(r, q, lines)
      BY <1>2, <2>4, <2>6 DEF Tells, IsTurn
    <3> QED
      BY <2>2, <2>4, <3>1 DEF Streams, Telling
  <2>9. Step(t, q) /\ Sends(t, lines) /\ session' = session /\ grant' = grant
    BY <1>1, <1>4, <2>1, <2>6 DEF SpeechFails, FallbackEmotion, Send, Sends
  <2> QED
    BY <1>1, <2>2, <2>4, <2>5, <2>7, <2>8, <2>9, GoesOn DEF Telling
<1>5. PICK e \in EventSet : e = Event("error") /\ e.type = "error" /\ HonestLine(e, Ended(r))
  BY EventIsEvent, PlainEvent DEF Streamed
<1>6. /\ <<e>> \in Seq(EventSet)
      /\ \A i \in 1 .. Len(<<e>>) : HonestLine(<<e>>[i], Ended(r))
  BY <1>5, OneLine
<1>7. [r EXCEPT !.asks = r.asks] = r /\ r.asks \in BOOLEAN
  BY <1>1, <1>2, SameAsks DEF IsTurn
<1>8. CASE Abort(t)
  <2>1. Finishing(r, <<e>>)
    BY <1>5 DEF Finishing
  <2>2. r.at \in Telling /\ Ends(t, turn[t], <<Event("error")>>)
    BY <1>1, <1>8 DEF Abort, At, Telling
  <2> QED
    BY <1>1, <1>5, <1>6, <1>7, <2>1, <2>2, StreamEnds
<1>9. CASE RescueFails(t)
  <2>1. r.at \in Telling
    BY <1>1, <1>9 DEF RescueFails, At, Telling
  <2>2. PICK lines : lines = IF r.emotion THEN <<e>> ELSE <<Event("emotion"), e>>
    OBVIOUS
  <2>3. Ends(t, turn[t], lines)
    BY <1>1, <1>5, <1>9, <2>2, FallbackLines DEF RescueFails
  <2>4. Finishing(r, lines)
    BY <1>5, <2>2 DEF Finishing
  <2>5. lines \in Seq(EventSet) /\ \A i \in 1 .. Len(lines) : HonestLine(lines[i], Ended(r))
    BY <1>5, <1>6, <2>2, PlainLines DEF Streamed
  <2> QED
    BY <1>1, <1>7, <2>1, <2>3, <2>4, <2>5, StreamEnds
<1> QED
  BY <1>3, <1>4, <1>8, <1>9

(* What is kept of a reply, and the offer after it. *)
LEMMA RecordMoves ==
    ASSUME TurnsInv, NEW t \in Turns,
           Unexpected(t) \/ Record(t) \/ CommitOffer(t) \/ CancelOffer(t)
    PROVE  ServerMove(t)
<1>1. PICK r : r = turn[t]
  OBVIOUS
<1>2. IsTurn(r) /\ InPhase(r)
  BY <1>1 DEF TurnsInv
<1>3. CASE Unexpected(t)
  <2>1. r.at \in Telling
    BY <1>1, <1>3 DEF Unexpected, Telling
  <2>2. PICK e \in EventSet : /\ e = Event(IF On(t, "stream") THEN "error" ELSE "failed")
                              /\ On(t, "stream") => e.type = "error"
                              /\ HonestLine(e, Ended(r))
    BY EventIsEvent, PlainEvent DEF Streamed, Answered
  <2>3. /\ <<e>> \in Seq(EventSet)
        /\ \A i \in 1 .. Len(<<e>>) : HonestLine(<<e>>[i], Ended(r))
    BY <2>2, OneLine
  <2>4. On(t, "stream") => Finishing(r, <<e>>)
    BY <2>2 DEF Finishing
  <2>5. [r EXCEPT !.asks = r.asks] = r /\ r.asks \in BOOLEAN
    BY <1>1, <1>2, SameAsks DEF IsTurn
  <2>6. Ends(t, turn[t], <<e>>)
    BY <1>3, <2>2 DEF Unexpected
  <2> QED
    BY <1>1, <2>1, <2>3, <2>4, <2>5, <2>6, StreamEnds
<1>4. CASE Record(t)
  <2>1. PICK q : q = [r EXCEPT !.at = "offer", !.captured = ~ On(t, "vision"),
                               !.proposed = Succeeded(t) /\ r.face]
    OBVIOUS
  <2>2. r.at = "record"
    BY <1>1, <1>4 DEF Record, At
  <2>3. PICK captured \in BOOLEAN, proposed \in BOOLEAN :
            captured = (~ On(t, "vision")) /\ proposed = (Succeeded(t) /\ r.face)
    BY DEF Succeeded
  <2>4. /\ IsTurn(q) /\ q.at = "offer" /\ SameRequest(r, q) /\ q.emotion = r.emotion
        /\ q.spoken = r.spoken /\ q.outcome = r.outcome /\ q.offer = r.offer
    <3>1. q = [r EXCEPT !.at = "offer", !.captured = captured, !.proposed = proposed]
      BY <2>1, <2>3
    <3> QED
      BY <1>2, <3>1 DEF IsTurn, SameRequest, Places
  <2>5. InPhase(q)
    BY <1>2, <2>2, <2>4 DEF InPhase, SameRequest
  <2>6. Moved(r, q, <<>>)
    <3>1. Streams(r, q, <<>>)
      BY <2>2, <2>4 DEF Streams, Tells, Telling
    <3> QED
      BY <2>2, <2>4, <2>5, <3>1, NoLines DEF Moved, SameRequest
  <2>7. /\ UNCHANGED <<wire, grant>> /\ turn' = [turn EXCEPT ![t] = q]
        /\ session' = session \/ \E n \in Sizes : session' = RecordPair(session, r.view, n)
    BY <1>1, <1>4, <2>1 DEF Record, Step
  <2>8. Spends(r, q) /\ UsesSession(r, q)
    BY <2>4, <2>7 DEF Spends, UsesSession, SameRequest
  <2> QED
    BY <1>1, <2>6, <2>7, <2>8, Silent DEF ServerMove
<1>5. ASSUME NEW q, IsTurn(q), SameRequest(r, q), InPhase(q), q.at \in {"offer", "closing"},
             r.at = "offer", q.emotion = r.emotion, q.spoken = r.spoken,
             Step(t, q), UNCHANGED <<wire, session, grant>>
      PROVE  ServerMove(t)
  <2>1. Streams(r, q, <<>>)
    BY <1>5 DEF Streams, Tells, Telling
  <2>2. Sends(t, <<>>) /\ q.at \in Telling /\ r.at \in Telling
    BY <1>5, Silent DEF Telling
  <2> QED
    BY <1>1, <1>5, <2>1, <2>2, NoLines, GoesOn
<1>6. ASSUME NEW place \in {"offer", "closing"}, NEW o \in Offers, r.at = "offer",
             place = "closing" => o \notin {"preparing", "cancelling"},
             o = "cancelling" => r.outcome # "ok",
             Step(t, [r EXCEPT !.at = place, !.offer = o]), UNCHANGED <<wire, session, grant>>
      PROVE  ServerMove(t)
  <2>1. PICK q : q = [r EXCEPT !.at = place, !.offer = o]
    OBVIOUS
  <2>2. /\ IsTurn(q) /\ q.at = place /\ SameRequest(r, q) /\ q.emotion = r.emotion
        /\ q.spoken = r.spoken /\ q.outcome = r.outcome /\ q.offer = o
    BY <1>2, <1>6, <2>1 DEF IsTurn, SameRequest, Places
  <2>3. InPhase(q)
    BY <1>2, <1>6, <2>2 DEF InPhase, SameRequest
  <2> QED
    BY <1>5, <1>6, <2>1, <2>2, <2>3
<1>7. CASE CommitOffer(t)
  <2>1. r.at = "offer" /\ r.offer \in Offers \ {"preparing", "cancelling"}
    BY <1>1, <1>2, <1>7 DEF CommitOffer, At, Succeeded, InPhase, IsTurn
  <2>2. PICK o \in Offers \ {"preparing", "cancelling"} :
            Step(t, [r EXCEPT !.at = "closing", !.offer = o])
    <3>1. {"committed", "none"} \subseteq Offers \ {"preparing", "cancelling"}
      BY DEF Offers
    <3> QED
      BY <1>1, <1>7, <2>1, <3>1 DEF CommitOffer
  <2> QED
    BY <1>6, <1>7, <2>1, <2>2 DEF CommitOffer
<1>8. CASE CancelOffer(t)
  <2>1. r.at = "offer" /\ r.outcome # "ok" /\ UNCHANGED <<wire, session, grant>>
    BY <1>1, <1>8 DEF CancelOffer, At, Succeeded
  <2>2. CASE Step(t, [turn[t] EXCEPT !.offer = "cancelling"])
    <3>1. [r EXCEPT !.offer = "cancelling"] = [r EXCEPT !.at = "offer", !.offer = "cancelling"]
      BY <1>2, <2>1 DEF IsTurn
    <3> QED
      BY <1>1, <1>6, <2>1, <2>2, <3>1 DEF Offers
  <2>3. CASE /\ turn[t].offer \notin {"preparing", "cancelling"}
             /\ Step(t, [turn[t] EXCEPT !.at = "closing"])
    <3>1. [r EXCEPT !.at = "closing"] = [r EXCEPT !.at = "closing", !.offer = r.offer]
      BY <1>2, <2>1 DEF IsTurn
    <3>2. r.offer \in Offers
      BY <1>2 DEF IsTurn
    <3> QED
      BY <1>1, <1>6, <2>1, <2>3, <3>1, <3>2
  <2> QED
    BY <1>8, <2>2, <2>3 DEF CancelOffer
<1> QED
  BY <1>3, <1>4, <1>7, <1>8

(* The last lines, and a hang-up. *)
LEMMA ClosingMoves ==
    ASSUME TurnsInv, NEW t \in Turns,
           CloseStream(t) \/ CloseClassic(t) \/ HangUp(t)
    PROVE  ServerMove(t)
<1>1. PICK r : r = turn[t]
  OBVIOUS
<1>2. IsTurn(r) /\ InPhase(r)
  BY <1>1 DEF TurnsInv
<1>3. [r EXCEPT !.asks = r.asks] = r /\ r.asks \in BOOLEAN
  BY <1>1, <1>2, SameAsks DEF IsTurn
<1>4. CASE CloseStream(t)
  <2>1. /\ r.at = "closing" /\ r.at \in Telling /\ r.route = "stream" /\ r.emotion /\ r.spoken
    BY <1>1, <1>2, <1>4 DEF CloseStream, At, On, InPhase, Telling
  <2>2. PICK asked \in BOOLEAN :
            Ends(t, [turn[t] EXCEPT !.asks = asked],
                 (IF asked THEN <<Event("audio")>> ELSE <<>>) \o <<Done(t, asked)>>)
    BY <1>4 DEF CloseStream
  <2>3. PICK s : s = [r EXCEPT !.asks = asked]
    OBVIOUS
  <2>4. PICK e \in EventSet : e = Done(t, asked) /\ e.type = "done" /\ HonestLine(e, Ended(s))
    BY <1>1, <2>3, DoneIsHonest
  <2>5. PICK a \in EventSet : a = Event("audio") /\ HonestLine(a, Ended(s))
    BY EventIsEvent, PlainEvent DEF Streamed
  <2>6. PICK lines : lines = IF asked THEN <<a, e>> ELSE <<e>>
    OBVIOUS
  <2>7. (IF asked THEN <<Event("audio")>> ELSE <<>>) \o <<Done(t, asked)>> = lines
    BY <2>4, <2>5, <2>6, NoLines, OneByOne
  <2>8. lines \in Seq(EventSet) /\ \A i \in 1 .. Len(lines) : HonestLine(lines[i], Ended(s))
    BY <2>4, <2>5, <2>6, OneLine, TwoLines
  <2>9. Finishing(r, lines)
    BY <2>1, <2>4, <2>5, <2>6 DEF Finishing, Terminals
  <2>10. Ends(t, [turn[t] EXCEPT !.asks = asked], lines)
    BY <2>2, <2>7
  <2> QED
    BY <1>1, <2>1, <2>3, <2>8, <2>9, <2>10, StreamEnds
<1>5. CASE CloseClassic(t)
  <2>1. r.at \in Telling /\ ~ On(t, "stream")
    BY <1>1, <1>5 DEF CloseClassic, At, Telling
  <2>2. PICK e : /\ Ends(t, turn[t], <<e>>)
                 /\ \/ e = [Event("reply") EXCEPT !.authentication_consumed = turn[t].consumed]
                    \/ e = Event("failed")
    BY <1>5 DEF CloseClassic, Fails
  <2>3. /\ e \in EventSet /\ ~ e.expects_short_reply
        /\ e.authentication_consumed => r.consumed
    <3>1. r.consumed \in BOOLEAN
      BY <1>2 DEF IsTurn
    <3>2. CASE e = [Event("reply") EXCEPT !.authentication_consumed = turn[t].consumed]
      BY <1>1, <3>1, <3>2 DEF Event, EventSet, Answered
    <3>3. CASE e = Event("failed")
      BY <3>3 DEF Event, EventSet, Answered
    <3> QED
      BY <2>2, <3>2, <3>3
  <2>4. HonestLine(e, Ended(r))
    BY <1>2, <2>3, EndedTurn DEF HonestLine
  <2>5. /\ <<e>> \in Seq(EventSet)
        /\ \A i \in 1 .. Len(<<e>>) : HonestLine(<<e>>[i], Ended(r))
    BY <2>3, <2>4, OneLine
  <2> QED
    BY <1>1, <1>3, <2>1, <2>2, <2>5, StreamEnds
<1>6. CASE HangUp(t)
  <2>1. r.at \in Streaming /\ ~ r.connected /\ Ends(t, r, <<>>)
    BY <1>1, <1>6 DEF HangUp
  <2>2. Moved(r, Ended(r), <<>>)
    <3>1. r.at \notin {"unused", "ended"}
      BY <2>1 DEF Streaming
    <3> QED
      BY <1>2, <2>1, <3>1, NoLines, EndingMove
  <2> QED
    BY <1>1, <1>2, <2>1, <2>2, EndsIsMove
<1> QED
  BY <1>4, <1>5, <1>6

(* The background preparation, which may outlive its request. *)
LEMMA PreparationMoves ==
    ASSUME TurnsInv, NEW t \in Turns, PrepareOffer(t)
    PROVE  ServerMove(t)
<1>1. PICK r : r = turn[t]
  OBVIOUS
<1>2. IsTurn(r) /\ InPhase(r) /\ r.offer \in {"preparing", "cancelling"}
  BY <1>1 DEF TurnsInv, PrepareOffer
<1>3. PICK o \in {"ready", "none"} : Step(t, [r EXCEPT !.offer = o])
  BY <1>1, <1>2 DEF PrepareOffer
<1>4. UNCHANGED <<wire, session, grant>>
  BY DEF PrepareOffer
<1>5. r.at \notin {"unused", "received"}
  BY <1>2 DEF InPhase, NoTurn
<1>6. PICK q : q = [r EXCEPT !.offer = o]
  OBVIOUS
<1>7. /\ IsTurn(q) /\ q.at = r.at /\ SameRequest(r, q) /\ q.emotion = r.emotion
      /\ q.spoken = r.spoken /\ q.outcome = r.outcome /\ q.asks = r.asks
      /\ q.offer \in {"ready", "none"}
  BY <1>2, <1>3, <1>6 DEF IsTurn, SameRequest, Offers
<1>8. InPhase(q)
  BY <1>2, <1>5, <1>7 DEF InPhase, SameRequest
<1>9. Streams(r, q, <<>>)
  BY <1>7 DEF Streams
<1>10. Moved(r, q, <<>>)
  BY <1>5, <1>7, <1>8, <1>9, NoLines DEF Moved, SameRequest
<1> QED
  BY <1>1, <1>3, <1>4, <1>6, <1>7, <1>10, Silent, SameSession DEF Step, SameRequest

LEMMA ServerMoves ==
    ASSUME TurnsInv, NEW t \in Turns, ServerStep(t) \/ PrepareOffer(t) \/ HangUp(t)
    PROVE  ServerMove(t)
BY ReceivedMoves, ProtectedMoves, PlanMoves, ModelMoves, FallbackMoves, RecordMoves, ClosingMoves,
   PreparationMoves
   DEF ServerStep, StreamPipeline, TextTurn, Refuse, AskToRepeat, DecidePlan, DecideLook, OpenTurn

-----------------------------------------------------------------------------
(* The robot.                                                              *)

Contexts == [identity_token : Tokens \cup {None}, short_reply : BOOLEAN,
             short_reply_next : BOOLEAN, look : BOOLEAN]

Playbacks == [queued : Nat, producer : {"running", "rejected", "failed", "finished"},
              validation : ValidationSet]

RobotTypes ==
    /\ streaming \in BOOLEAN
    /\ state \in RobotStates
    /\ ctx \in Contexts
    /\ current \in Turns \cup {None}
    /\ playback \in Playbacks
    /\ heard \subseteq Turns

(* Where the robot is, whether it has a request, and which one. *)
Control ==
    /\ state = "LISTENING" => current = None
    /\ state \in {"SPEAKING", "LOOKING"} => current # None
    /\ streaming => state # "LOOKING"
    /\ state # "SPEAKING" \/ ~ streaming => playback = FreshPlayback
    /\ \A t \in Turns : turn[t].at # "unused" => \A s \in 1 .. t : turn[s].at # "unused"
    /\ current # None => /\ turn[current].at # "unused"
                         /\ \A t \in Turns : t > current => turn[t].at = "unused"
    /\ streaming /\ current # None => turn[current].route = "stream"

RobotInv == RobotTypes /\ Control

(* What is on its way to the robot is honest. *)
LinesInv ==
    /\ \A t \in Turns : \A i \in 1 .. Len(wire[t]) : HonestLine(wire[t][i], turn[t])
    /\ \A t \in Turns :
          ~ turn[t].connected \/ turn[t].at \in {"unused", "received"} => wire[t] = <<>>

(* What its validator has kept is honest. *)
HeldInv == current # None => HonestLine(playback.validation.terminal, turn[current])

(* What a step of the robot does of the requests and their lines. *)
Keeps  == UNCHANGED <<turn, wire>>
Reads  == current \in Turns /\ Readable(current) /\ Read(current) /\ UNCHANGED turn
Closes == current \in Turns /\ Close(current)

Asked(route, token, short) ==
    [NoTurn EXCEPT !.at = "received", !.route = route, !.token = token, !.short = short]

Asks ==
    \E t \in Turns, route \in Routes, token \in Tokens \cup {None}, short \in BOOLEAN :
        /\ turn[t].at = "unused" /\ \A s \in Turns : turn[s].at = "unused" => t <= s
        /\ turn' = [turn EXCEPT ![t] = Asked(route, token, short)]
        /\ UNCHANGED wire

LEMMA NumbersAreWellFounded ==
    \E R : IsWellFoundedOn(R, Nat) /\ \A x, y \in Nat : y < x => <<y, x>> \in R
<1>1. \A x, y \in Nat : y < x => <<y, x>> \in OpToRel(<, Nat)
  BY DEF OpToRel
<1> QED
  BY NatLessThanWellFounded, <1>1

LEMMA FirstUnused ==
    ASSUME Unused # {}
    PROVE  Min(Unused) \in Unused /\ \A s \in Unused : Min(Unused) <= s
<1>1. PICK R : IsWellFoundedOn(R, Nat) /\ \A x, y \in Nat : y < x => <<y, x>> \in R
  BY NumbersAreWellFounded
<1>2. Unused \subseteq Nat
  BY VoiceServerAssumption DEF Unused, Turns
<1>3. PICK x \in Unused : \A y \in Unused : ~(<<y, x>> \in R)
  BY <1>1, <1>2, WFMin
<1>4. ASSUME NEW y \in Unused PROVE x <= y
  <2>1. x \in Nat /\ y \in Nat
    BY <1>2
  <2>2. ~(<<y, x>> \in R)
    BY <1>3
  <2>3. \A a, b \in Nat : b < a => <<b, a>> \in R
    BY <1>1
  <2>4. ~(y < x)
    BY <2>1, <2>2, <2>3
  <2> QED
    BY <2>1, <2>4
<1>5. \E z \in Unused : \A y \in Unused : z <= y
  BY <1>3, <1>4
<1> QED
  BY <1>5 DEF Min

LEMMA RequestAsks ==
    ASSUME NEW route \in Routes, NEW token \in Tokens \cup {None}, NEW short \in BOOLEAN,
           Request(route, token, short)
    PROVE  /\ current' \in Turns /\ turn[current'].at = "unused"
           /\ \A s \in Turns : turn[s].at = "unused" => current' <= s
           /\ turn' = [turn EXCEPT ![current'] = Asked(route, token, short)]
           /\ UNCHANGED <<wire, session, grant, streaming, state, ctx, playback, heard>>
           /\ Asks
<1>1. Unused # {} /\ current' = Min(Unused)
  BY DEF Request
<1>2. current' \in Unused /\ \A s \in Unused : current' <= s
  BY <1>1, FirstUnused
<1>3. /\ current' \in Turns /\ turn[current'].at = "unused"
      /\ \A s \in Turns : turn[s].at = "unused" => current' <= s
  BY <1>2 DEF Unused, At
<1>4. turn' = [turn EXCEPT ![current'] = Asked(route, token, short)]
  BY <1>1 DEF Request, Asked
<1>5. UNCHANGED <<wire, session, grant, streaming, state, ctx, playback, heard>>
  BY DEF Request
<1> QED
  BY <1>3, <1>4, <1>5 DEF Asks

LEMMA RobotShape ==
    ASSUME RobotInv, Robot
    PROVE  (Keeps \/ Reads \/ Closes \/ Asks) /\ UNCHANGED <<session, grant>>
<1>0. current # None => current \in Turns
  BY DEF RobotInv, RobotTypes
<1>1. CASE Idle \/ Utterance \/ Silence \/ CaptureFails \/ Recover
  BY <1>1 DEF Idle, Utterance, Silence, CaptureFails, Recover, Capture, serverVars, Keeps
<1>2. CASE Think
  <2>1. ctx.identity_token \in Tokens \cup {None} /\ ctx.short_reply \in BOOLEAN
    BY DEF RobotInv, RobotTypes, Contexts
  <2> QED
    BY <1>2, <2>1, RequestAsks DEF Think, Routes
<1>3. CASE NoSpeech \/ ClassicReply \/ FirstEvent \/ VisionReply
  <2>1. /\ current # None /\ Readable(current) /\ Read(current)
        /\ UNCHANGED <<turn, session, grant>>
    BY <1>3 DEF NoSpeech, ClassicReply, FirstEvent, VisionReply, RobotInv, Control
  <2> QED
    BY <1>0, <2>1 DEF Reads
<1>4. CASE RequestFails \/ VisionFails
  <2>1. current # None /\ Close(current) /\ UNCHANGED <<session, grant>>
    BY <1>4 DEF RequestFails, VisionFails, RobotInv, Control
  <2> QED
    BY <1>0, <2>1 DEF Closes
<1>5. CASE Look
  BY <1>5, RequestAsks DEF Look, Routes
<1>6. CASE CameraFails \/ Plays \/ PlaybackFails \/ EndOfStream \/ StreamBreaks \/ PlayClip \/ Drained
  BY <1>6 DEF CameraFails, Plays, PlaybackFails, EndOfStream, StreamBreaks, PlayClip, Drained,
              serverVars, Keeps
<1>7. CASE Produce
  <2>1. current # None /\ Readable(current) /\ UNCHANGED <<session, grant>>
    BY <1>7 DEF Produce, Producing, RobotInv, Control
  <2>2. (Read(current) /\ UNCHANGED turn) \/ Close(current)
    BY <1>7 DEF Produce
  <2> QED
    BY <1>0, <2>1, <2>2 DEF Reads, Closes
<1>8. CASE ClipFails
  <2>1. current # None /\ UNCHANGED <<session, grant>>
    BY <1>8 DEF ClipFails, RobotInv, Control
  <2>2. Close(current) \/ UNCHANGED <<turn, wire>>
    BY <1>8 DEF ClipFails
  <2> QED
    BY <1>0, <2>1, <2>2 DEF Keeps, Closes
<1> QED
  BY <1>1, <1>2, <1>3, <1>4, <1>5, <1>6, <1>7, <1>8 DEF Robot

LEMMA RestartShape ==
    ASSUME RobotInv, Restart
    PROVE  Keeps \/ Closes
BY DEF Restart, RobotInv, RobotTypes, Keeps, Closes

LEMMA FailureShape ==
    ASSUME RobotInv, ConnectionFails
    PROVE  Closes
BY DEF ConnectionFails, RobotInv, RobotTypes, Closes

LEMMA AskedIsTurn ==
    ASSUME NEW route \in Routes, NEW token \in Tokens \cup {None}, NEW short \in BOOLEAN
    PROVE  LET q == Asked(route, token, short)
           IN  /\ IsTurn(q) /\ InPhase(q) /\ q.at = "received" /\ q.route = route
               /\ q.token = token /\ q.short = short /\ q.view = NoView /\ q.connected
               /\ ~ q.consumed
<1>1. PICK q : q = Asked(route, token, short)
  OBVIOUS
<1>2. q = [at |-> "received", route |-> route, connected |-> TRUE,
           token |-> token, short |-> short, consumed |-> FALSE, asks |-> FALSE,
           view |-> NoView, face |-> FALSE, outcome |-> "ok",
           emotion |-> FALSE, spoken |-> FALSE, offer |-> "none",
           proposed |-> FALSE, captured |-> FALSE]
  BY <1>1 DEF Asked, NoTurn
<1>3. IsTurn(q)
  BY <1>2 DEF IsTurn, Places, Offers
<1>4. InPhase(q)
  BY <1>2 DEF InPhase
<1> QED
  BY <1>1, <1>2, <1>3, <1>4

(* A response that is closed: the request goes on without a reader. *)
LEMMA ClosedTurn ==
    ASSUME NEW r, IsTurn(r), InPhase(r), r.at # "unused"
    PROVE  LET q == [r EXCEPT !.connected = FALSE]
           IN  /\ IsTurn(q) /\ InPhase(q)
               /\ q.at = r.at /\ q.route = r.route /\ q.token = r.token /\ q.short = r.short
               /\ q.view = r.view /\ q.consumed = r.consumed /\ q.asks = r.asks
               /\ q.offer = r.offer /\ q.outcome = r.outcome
               /\ q.emotion = r.emotion /\ q.spoken = r.spoken /\ ~ q.connected
<1>1. PICK q : q = [r EXCEPT !.connected = FALSE]
  OBVIOUS
<1>2. /\ IsTurn(q)
      /\ q.at = r.at /\ q.route = r.route /\ q.token = r.token /\ q.short = r.short
      /\ q.view = r.view /\ q.consumed = r.consumed /\ q.asks = r.asks
      /\ q.offer = r.offer /\ q.outcome = r.outcome
      /\ q.emotion = r.emotion /\ q.spoken = r.spoken /\ ~ q.connected
  BY <1>1 DEF IsTurn
<1>3. InPhase(q)
  BY <1>2 DEF InPhase
<1> QED
  BY <1>1, <1>2, <1>3

(* A request and its lines change, a grant may, the others stay. *)
Becomes(t, q, w) ==
    /\ IsTurn(q) /\ InPhase(q) /\ w \in Seq(EventSet)
    /\ turn' = [turn EXCEPT ![t] = q] /\ wire' = [wire EXCEPT ![t] = w]
    /\ grant' \in [Tokens -> {"unissued", "live", "spent", "expired"}]

LEMMA TurnsStay ==
    ASSUME TurnsInv, NEW t \in Turns, NEW q, NEW w, Becomes(t, q, w)
    PROVE  /\ TurnsInv'
           /\ turn'[t] = q /\ wire'[t] = w
           /\ \A s \in Turns : s # t => turn'[s] = turn[s] /\ wire'[s] = wire[s]
<1>1. /\ turn'[t] = q /\ wire'[t] = w
      /\ \A s \in Turns : s # t => turn'[s] = turn[s] /\ wire'[s] = wire[s]
  BY DEF TurnsInv, Becomes
<1>2. DOMAIN turn' = Turns /\ turn' = [s \in Turns |-> turn'[s]]
  BY DEF TurnsInv, Becomes
<1>3. \A s \in Turns : IsTurn(turn'[s]) /\ InPhase(turn'[s])
  BY <1>1 DEF TurnsInv, Becomes
<1>4. /\ wire' \in [Turns -> Seq(EventSet)]
      /\ grant' \in [Tokens -> {"unissued", "live", "spent", "expired"}]
  BY DEF TurnsInv, Becomes
<1>5. TurnsInv'
  BY <1>2, <1>3, <1>4, Zenon DEF TurnsInv
<1> QED
  BY <1>1, <1>5

LEMMA SpentGrants ==
    ASSUME TurnsInv, NEW r, NEW q, Spends(r, q)
    PROVE  /\ grant' \in [Tokens -> {"unissued", "live", "spent", "expired"}]
           /\ \A k \in Tokens : grant[k] = "spent" => grant'[k] = "spent"
BY DEF TurnsInv, Spends

LEMMA HonestMore ==
    ASSUME NEW r, NEW q, NEW w \in Seq(EventSet), NEW lines \in Seq(EventSet),
           \A i \in 1 .. Len(w) : HonestLine(w[i], r),
           \A i \in 1 .. Len(lines) : HonestLine(lines[i], q),
           r.consumed => q.consumed, r.at = "ended" => q.at = "ended" /\ q.asks = r.asks
    PROVE  \A i \in 1 .. Len(w \o lines) : HonestLine((w \o lines)[i], q)
<1>1. PICK m \in Nat, n \in Nat : m = Len(w) /\ n = Len(lines)
  OBVIOUS
<1>2. /\ Len(w \o lines) = m + n
      /\ \A i \in 1 .. m + n : (w \o lines)[i] = IF i <= m THEN w[i] ELSE lines[i - m]
  BY <1>1, ConcatProperties
<1>3. \A i \in 1 .. m : HonestLine(w[i], q)
  BY <1>1 DEF HonestLine
<1> SUFFICES ASSUME NEW i \in 1 .. m + n PROVE HonestLine((w \o lines)[i], q)
  BY <1>2
<1>4. CASE i <= m
  <2>1. i \in 1 .. m /\ (w \o lines)[i] = w[i]
    BY <1>1, <1>2, <1>4
  <2> QED
    BY <1>3, <2>1
<1>5. CASE ~ (i <= m)
  <2>1. i - m \in 1 .. n /\ (w \o lines)[i] = lines[i - m]
    BY <1>1, <1>2, <1>5
  <2> QED
    BY <1>1, <2>1
<1> QED
  BY <1>4, <1>5

(* A step of the server, as it is used from here on. *)
LEMMA MoveEffect ==
    ASSUME TurnsInv, LinesInv, NEW t \in Turns, ServerMove(t)
    PROVE  \E q, lines :
              /\ Moved(turn[t], q, lines) /\ Spends(turn[t], q) /\ UsesSession(turn[t], q)
              /\ TurnsInv'
              /\ turn' = [turn EXCEPT ![t] = q] /\ turn'[t] = q
              /\ wire'[t] = (IF q.connected THEN wire[t] \o lines ELSE <<>>)
              /\ \A i \in 1 .. Len(wire'[t]) : HonestLine(wire'[t][i], q)
              /\ \A s \in Turns : s # t => turn'[s] = turn[s] /\ wire'[s] = wire[s]
              /\ \A k \in Tokens : grant[k] = "spent" => grant'[k] = "spent"
<1>1. PICK q, lines : /\ turn' = [turn EXCEPT ![t] = q]
                      /\ Sends(t, lines)
                      /\ Moved(turn[t], q, lines)
                      /\ Spends(turn[t], q)
                      /\ UsesSession(turn[t], q)
  BY DEF ServerMove
<1>2. /\ IsTurn(q) /\ InPhase(q) /\ lines \in Seq(EventSet) /\ q.connected = turn[t].connected
      /\ \A i \in 1 .. Len(lines) : HonestLine(lines[i], q)
      /\ turn[t].consumed => q.consumed
      /\ turn[t].at = "ended" => q.at = "ended" /\ q.asks = turn[t].asks
  BY <1>1 DEF Moved
<1>3. wire[t] \in Seq(EventSet) /\ (~ turn[t].connected => wire[t] = <<>>)
  BY DEF TurnsInv, LinesInv
<1>4. PICK w \in Seq(EventSet) : w = IF turn[t].connected THEN wire[t] \o lines ELSE wire[t]
  BY <1>2, <1>3, ConcatProperties
<1>5. wire' = [wire EXCEPT ![t] = w]
  BY <1>1, <1>4 DEF Sends
<1>6. /\ TurnsInv' /\ turn'[t] = q /\ wire'[t] = w
      /\ \A s \in Turns : s # t => turn'[s] = turn[s] /\ wire'[s] = wire[s]
  <2>1. IsTurn(q) /\ InPhase(q) /\ turn' = [turn EXCEPT ![t] = q]
    BY <1>1, <1>2
  <2>2. grant' \in [Tokens -> {"unissued", "live", "spent", "expired"}]
    BY <1>1, SpentGrants
  <2>3. Becomes(t, q, w)
    BY <1>4, <1>5, <2>1, <2>2 DEF Becomes
  <2> QED
    BY <2>3, TurnsStay
<1>7. w = IF q.connected THEN wire[t] \o lines ELSE <<>>
  BY <1>2, <1>3, <1>4
<1>8. \A i \in 1 .. Len(wire[t]) : HonestLine(wire[t][i], turn[t])
  BY DEF LinesInv
<1>9. \A i \in 1 .. Len(w) : HonestLine(w[i], q)
  <2>1. CASE q.connected
    BY <1>2, <1>3, <1>7, <1>8, <2>1, HonestMore, Zenon
  <2>2. CASE ~ q.connected
    BY <1>7, <2>2, NoLines
  <2> QED
    BY <2>1, <2>2
<1>10. \A k \in Tokens : grant[k] = "spent" => grant'[k] = "spent"
  BY <1>1, SpentGrants
<1>11. /\ wire'[t] = (IF q.connected THEN wire[t] \o lines ELSE <<>>)
       /\ \A i \in 1 .. Len(wire'[t]) : HonestLine(wire'[t][i], q)
  BY <1>6, <1>7, <1>9
<1> QED
  BY <1>1, <1>6, <1>10, <1>11

(* What the robot does, as it is used from here on. *)
LEMMA ReadEffect ==
    ASSUME TurnsInv, Reads, UNCHANGED grant
    PROVE  /\ TurnsInv' /\ turn' = turn /\ wire[current] # <<>> /\ turn[current].connected
           /\ wire[current] \in Seq(EventSet) /\ Head(wire[current]) \in EventSet
           /\ wire'[current] = Tail(wire[current])
           /\ \A s \in Turns : s # current => wire'[s] = wire[s]
<1>1. /\ wire[current] \in Seq(EventSet) /\ wire[current] # <<>> /\ turn[current].connected
      /\ current \in Turns /\ turn' = turn /\ wire' = [wire EXCEPT ![current] = Tail(wire[current])]
  BY DEF TurnsInv, Reads, Readable, Read
<1>2. Head(wire[current]) \in EventSet /\ Tail(wire[current]) \in Seq(EventSet)
  BY <1>1
<1>3. /\ wire'[current] = Tail(wire[current]) /\ wire' \in [Turns -> Seq(EventSet)]
      /\ \A s \in Turns : s # current => wire'[s] = wire[s]
  BY <1>1, <1>2 DEF TurnsInv
<1> QED
  BY <1>1, <1>2, <1>3 DEF TurnsInv

LEMMA CloseEffect ==
    ASSUME TurnsInv, Closes, turn[current].at # "unused",
           grant' \in [Tokens -> {"unissued", "live", "spent", "expired"}]
    PROVE  /\ TurnsInv' /\ wire'[current] = <<>>
           /\ turn' = [turn EXCEPT ![current] = turn'[current]]
           /\ \A s \in Turns : s # current => turn'[s] = turn[s] /\ wire'[s] = wire[s]
           /\ \A s \in Turns :
                 /\ turn'[s].at = turn[s].at /\ turn'[s].route = turn[s].route
                 /\ turn'[s].token = turn[s].token /\ turn'[s].short = turn[s].short
                 /\ turn'[s].view = turn[s].view /\ turn'[s].consumed = turn[s].consumed
                 /\ turn'[s].asks = turn[s].asks /\ turn'[s].offer = turn[s].offer
                 /\ turn'[s].outcome = turn[s].outcome
           /\ ~ turn'[current].connected
<1>1. PICK r : r = turn[current]
  OBVIOUS
<1>2. IsTurn(r) /\ InPhase(r) /\ r.at # "unused" /\ current \in Turns
  BY <1>1 DEF TurnsInv, Closes
<1>3. PICK q : q = [r EXCEPT !.connected = FALSE]
  OBVIOUS
<1>4. /\ IsTurn(q) /\ InPhase(q)
      /\ q.at = r.at /\ q.route = r.route /\ q.token = r.token /\ q.short = r.short
      /\ q.view = r.view /\ q.consumed = r.consumed /\ q.asks = r.asks
      /\ q.offer = r.offer /\ q.outcome = r.outcome /\ ~ q.connected
  BY <1>2, <1>3, ClosedTurn
<1>5. turn' = [turn EXCEPT ![current] = q] /\ wire' = [wire EXCEPT ![current] = <<>>]
  BY <1>1, <1>2, <1>3 DEF Closes, Close, TurnsInv
<1>6. <<>> \in Seq(EventSet)
  OBVIOUS
<1>7. /\ TurnsInv' /\ turn'[current] = q /\ wire'[current] = <<>>
      /\ \A s \in Turns : s # current => turn'[s] = turn[s] /\ wire'[s] = wire[s]
  <2>1. current \in Turns /\ IsTurn(q) /\ InPhase(q)
    BY <1>2, <1>4
  <2>2. Becomes(current, q, <<>>)
    BY <1>5, <1>6, <2>1 DEF Becomes
  <2> QED
    BY <2>1, <2>2, TurnsStay
<1> QED
  BY <1>1, <1>4, <1>5, <1>7

LEMMA AskEffect ==
    ASSUME TurnsInv, NEW t \in Turns, NEW route \in Routes, NEW token \in Tokens \cup {None},
           NEW short \in BOOLEAN,
           turn' = [turn EXCEPT ![t] = Asked(route, token, short)], UNCHANGED <<wire, grant>>
    PROVE  /\ TurnsInv' /\ turn'[t] = Asked(route, token, short)
           /\ \A s \in Turns : s # t => turn'[s] = turn[s]
<1>1. PICK q : q = Asked(route, token, short)
  OBVIOUS
<1>2. IsTurn(q) /\ InPhase(q)
  BY <1>1, AskedIsTurn
<1>3. /\ wire[t] \in Seq(EventSet) /\ wire' = [wire EXCEPT ![t] = wire[t]]
      /\ grant' \in [Tokens -> {"unissued", "live", "spent", "expired"}]
  BY DEF TurnsInv
<1>4. turn' = [turn EXCEPT ![t] = q]
  BY <1>1
<1>5. Becomes(t, q, wire[t])
  BY <1>2, <1>3, <1>4 DEF Becomes
<1>6. TurnsInv' /\ turn'[t] = q /\ \A s \in Turns : s # t => turn'[s] = turn[s]
  BY <1>5, TurnsStay
<1> QED
  BY <1>1, <1>6

-----------------------------------------------------------------------------
(* A stream that is accepted to its end.                                   *)

(* What the validator has seen and what is on the wire, of a request that  *)
(* has begun to answer.                                                    *)
Spoken(v, w, r) ==
    \/ r.at \in Telling /\ Told(v, w, r.emotion, r.spoken)
    \/ r.at = "ended" /\ \E e \in EventSet : Closed(v, w, e)

(* What the robot finds while it waits for the first line. *)
Arriving(w, r) ==
    \/ r.at \in {"received", "planned", "opened"} /\ w = <<>>
    \/ r.at = "ended" /\ w \in {<<Event("no_speech")>>, <<Event("failed")>>}
    \/ \E x \in Seq(EventSet) : /\ w = <<Event("text_heard")>> \o x
                                /\ Spoken(FreshValidation, x, r)

StreamInv ==
    /\ StreamIsAccepted
    /\ streaming /\ current # None /\ turn[current].connected =>
          /\ state = "THINKING" => Arriving(wire[current], turn[current])
          /\ Producing => Spoken(playback.validation, wire[current], turn[current])

LEMMA ToldLess ==
    ASSUME NEW v, NEW w, NEW em \in BOOLEAN, NEW au \in BOOLEAN, Told(v, w, em, TRUE)
    PROVE  Told(v, w, em, au)
BY DEF Told

LEMMA ToldMore ==
    ASSUME NEW v, NEW w, NEW r, NEW q, NEW lines, IsTurn(r), IsTurn(q), InPhase(r),
           Told(v, w, r.emotion, r.spoken), Tells(r, q, lines)
    PROVE  Told(v, w \o lines, q.emotion, q.spoken)
<1>1. PICK em \in BOOLEAN, au \in BOOLEAN, au2 \in BOOLEAN :
          em = r.emotion /\ au = r.spoken /\ au2 = q.spoken /\ q.emotion \in BOOLEAN
  BY DEF IsTurn
<1>2. w \in Seq(EventSet)
  BY DEF Told, Orderly
<1>3. Event("emotion") \in EventSet /\ Event("audio") \in EventSet
  BY EventIsEvent DEF Streamed
<1>4. CASE lines = <<>> /\ q.emotion = r.emotion /\ q.spoken = r.spoken
  BY <1>2, <1>4, ConcatEmptySeq
<1>5. CASE lines = <<Event("emotion")>> /\ ~ r.emotion /\ q.emotion /\ q.spoken = r.spoken
  <2>1. em = FALSE /\ q.emotion = TRUE
    BY <1>1, <1>5
  <2>2. Told(v, Append(w, Event("emotion")), TRUE, au)
    BY <1>1, <2>1, TellEmotion
  <2> QED
    BY <1>1, <1>2, <1>3, <1>5, <2>1, <2>2, OneByOne
<1>6. CASE lines = <<Event("audio")>> /\ r.emotion /\ q.emotion
  <2>1. em = TRUE /\ q.emotion = TRUE
    BY <1>1, <1>6
  <2>2. Told(v, Append(w, Event("audio")), TRUE, TRUE)
    BY <1>1, <2>1, TellAudio
  <2>3. Told(v, Append(w, Event("audio")), TRUE, au2)
    BY <2>2, ToldLess
  <2> QED
    BY <1>1, <1>2, <1>3, <1>6, <2>1, <2>3, OneByOne
<1>7. CASE lines = <<Event("emotion"), Event("audio")>> /\ ~ r.emotion /\ q.emotion
  <2>1. em = FALSE /\ q.emotion = TRUE
    BY <1>1, <1>7
  <2>2. Told(v, Append(w, Event("emotion")), TRUE, au)
    BY <1>1, <2>1, TellEmotion
  <2>3. Told(v, Append(Append(w, Event("emotion")), Event("audio")), TRUE, TRUE)
    BY <2>2, TellAudio
  <2>4. Told(v, Append(Append(w, Event("emotion")), Event("audio")), TRUE, au2)
    BY <2>3, ToldLess
  <2> QED
    BY <1>1, <1>2, <1>3, <1>7, <2>1, <2>4, OneByOne
<1> QED
  BY <1>4, <1>5, <1>6, <1>7 DEF Tells

LEMMA ToldToTheEnd ==
    ASSUME NEW v, NEW w, NEW r, NEW lines, IsTurn(r), InPhase(r),
           Told(v, w, r.emotion, r.spoken), Finishing(r, lines)
    PROVE  \E e \in EventSet : Closed(v, w \o lines, e)
<1>1. PICK em \in BOOLEAN, au \in BOOLEAN : em = r.emotion /\ au = r.spoken
  BY DEF IsTurn
<1>2. w \in Seq(EventSet)
  BY DEF Told, Orderly
<1>3. Event("emotion") \in EventSet /\ Event("audio") \in EventSet
  BY EventIsEvent DEF Streamed
<1>4. PICK e \in EventSet :
        \/ lines = <<e>> /\ (e.type = "error" \/ (e.type = "done" /\ r.spoken))
        \/ lines = <<Event("emotion"), e>> /\ ~ r.emotion /\ e.type = "error"
        \/ lines = <<Event("audio"), e>> /\ r.emotion /\ e.type \in Terminals
  BY DEF Finishing
<1>5. CASE lines = <<e>> /\ (e.type = "error" \/ (e.type = "done" /\ r.spoken))
  <2>1. Closed(v, Append(w, e), e)
    BY <1>1, <1>5, TellTheEnd
  <2> QED
    BY <1>2, <1>5, <2>1, OneByOne
<1>6. CASE lines = <<Event("emotion"), e>> /\ ~ r.emotion /\ e.type = "error"
  <2>1. Told(v, Append(w, Event("emotion")), TRUE, au)
    <3>1. em = FALSE
      BY <1>1, <1>6
    <3> QED
      BY <1>1, <3>1, TellEmotion
  <2>2. Closed(v, Append(Append(w, Event("emotion")), e), e)
    BY <1>6, <2>1, TellTheEnd
  <2> QED
    BY <1>2, <1>3, <1>6, <2>2, OneByOne
<1>7. CASE lines = <<Event("audio"), e>> /\ r.emotion /\ e.type \in Terminals
  <2>1. Told(v, Append(w, Event("audio")), TRUE, TRUE)
    <3>1. em = TRUE
      BY <1>1, <1>7
    <3> QED
      BY <1>1, <3>1, TellAudio
  <2>2. Closed(v, Append(Append(w, Event("audio")), e), e)
    BY <1>7, <2>1, TellTheEnd DEF Terminals
  <2> QED
    BY <1>2, <1>3, <1>7, <2>2, OneByOne
<1> QED
  BY <1>4, <1>5, <1>6, <1>7

LEMMA SpokenOn ==
    ASSUME NEW v, NEW w, NEW r, NEW q, NEW lines, IsTurn(r), InPhase(r), IsTurn(q),
           Spoken(v, w, r), Streams(r, q, lines)
    PROVE  Spoken(v, w \o lines, q)
<1>1. w \in Seq(EventSet) /\ w \o <<>> = w
  BY ConcatEmptySeq DEF Spoken, Told, Closed, Orderly
<1>2. CASE r.at \in Telling
  <2>1. Told(v, w, r.emotion, r.spoken)
    BY <1>2 DEF Spoken, Telling
  <2>2. CASE q.at \in Telling /\ Tells(r, q, lines)
    BY <2>1, <2>2, ToldMore DEF Spoken
  <2>3. CASE q.at = "ended" /\ Finishing(r, lines)
    BY <2>1, <2>3, ToldToTheEnd DEF Spoken
  <2>4. CASE r.at = q.at /\ lines = <<>> /\ q.emotion = r.emotion /\ q.spoken = r.spoken
    BY <1>1, <1>2, <2>1, <2>4 DEF Spoken
  <2> QED
    BY <1>2, <2>2, <2>3, <2>4 DEF Streams, Telling
<1>3. CASE r.at = "ended"
  <2>1. r.at = q.at /\ lines = <<>>
    BY <1>3 DEF Streams, Telling
  <2> QED
    BY <1>1, <1>3, <2>1 DEF Spoken, Telling
<1> QED
  BY <1>2, <1>3 DEF Spoken

LEMMA ArrivingOn ==
    ASSUME NEW w \in Seq(EventSet), NEW r, NEW q, NEW lines \in Seq(EventSet),
           IsTurn(r), InPhase(r), IsTurn(q), InPhase(q),
           Arriving(w, r), Streams(r, q, lines)
    PROVE  Arriving(w \o lines, q)
<1>1. w \o <<>> = w /\ <<>> \o lines = lines
  BY ConcatEmptySeq
<1>2. PICK head \in EventSet : head = Event("text_heard")
  BY EventIsEvent DEF Streamed
<1>3. <<>> \in Seq(EventSet) /\ <<head>> \in Seq(EventSet) /\ <<head>> \o <<>> = <<head>>
  <2>1. <<>> \in Seq(EventSet) /\ <<head>> \in Seq(EventSet)
    OBVIOUS
  <2> QED
    BY <2>1, ConcatEmptySeq
<1>4. CASE r.at \in {"received", "planned", "opened"} /\ w = <<>>
  <2>1. CASE r.at = q.at /\ lines = <<>>
    BY <1>1, <1>4, <2>1 DEF Arriving
  <2>2. CASE r.at = "received" /\ q.at \in {"planned", "opened"} /\ lines = <<>>
    BY <1>1, <1>4, <2>2 DEF Arriving
  <2>3. CASE r.at = "received" /\ q.at = "ended" /\ lines \in {<<Event("no_speech")>>, <<Event("failed")>>}
    BY <1>1, <1>4, <2>3 DEF Arriving
  <2>4. CASE /\ r.at = "planned" /\ q.at = "plan_speaks"
             /\ lines = <<Event("text_heard"), Event("emotion")>> /\ ~ q.spoken
    <3>1. PICK emotion \in EventSet : emotion = Event("emotion")
      BY EventIsEvent DEF Streamed
    <3>2. lines = <<head>> \o <<emotion>> /\ <<emotion>> \in Seq(EventSet)
      BY <1>2, <1>3, <2>4, <3>1, OneByOne
    <3>3. q.emotion = TRUE /\ q.spoken = FALSE
      BY <2>4 DEF InPhase, IsTurn
    <3>4. <<emotion>> = Append(<<>>, emotion)
      BY <1>3, AppendIsConcat, OneByOne
    <3>5. Told(FreshValidation, <<emotion>>, TRUE, FALSE)
      BY <3>1, <3>4, NothingTold, TellEmotion
    <3>6. Spoken(FreshValidation, <<emotion>>, q)
      BY <2>4, <3>3, <3>5 DEF Spoken, Telling
    <3> QED
      BY <1>1, <1>2, <1>4, <3>2, <3>6 DEF Arriving
  <2>5. CASE r.at = "opened" /\ q.at = "model" /\ lines = <<Event("text_heard")>> /\ ~ q.emotion /\ ~ q.spoken
    <3>1. q.emotion = FALSE /\ q.spoken = FALSE
      BY <2>5 DEF IsTurn
    <3>2. Spoken(FreshValidation, <<>>, q)
      BY <2>5, <3>1, NothingTold DEF Spoken, Telling
    <3> QED
      BY <1>1, <1>2, <1>3, <1>4, <2>5, <3>2 DEF Arriving
  <2> QED
    BY <1>4, <2>1, <2>2, <2>3, <2>4, <2>5 DEF Streams, Telling
<1>5. CASE r.at = "ended" /\ w \in {<<Event("no_speech")>>, <<Event("failed")>>}
  <2>1. r.at = q.at /\ lines = <<>>
    BY <1>5 DEF Streams, Telling
  <2> QED
    BY <1>1, <1>5, <2>1 DEF Arriving
<1>6. CASE \E x \in Seq(EventSet) : w = <<Event("text_heard")>> \o x /\ Spoken(FreshValidation, x, r)
  <2>1. PICK x \in Seq(EventSet) : w = <<head>> \o x /\ Spoken(FreshValidation, x, r)
    BY <1>2, <1>6
  <2>2. Spoken(FreshValidation, x \o lines, q)
    BY <2>1, SpokenOn
  <2>3. PICK y \in Seq(EventSet) : y = x \o lines
    BY ConcatProperties
  <2>4. w \o lines = <<head>> \o y
    BY <1>3, <2>1, <2>3, ConcatAssociative
  <2> QED
    BY <1>2, <2>2, <2>3, <2>4 DEF Arriving
<1> QED
  BY <1>4, <1>5, <1>6 DEF Arriving

(* The first line is read. *)
LEMMA FirstLine ==
    ASSUME NEW w, NEW r, Arriving(w, r), w # <<>>
    PROVE  /\ Head(w).type \in {"no_speech", "failed", "text_heard"}
           /\ Head(w).type = "text_heard" => Spoken(FreshValidation, Tail(w), r)
<1>1. CASE w \in {<<Event("no_speech")>>, <<Event("failed")>>}
  <2>1. PICK e : w = <<e>> /\ e.type \in {"no_speech", "failed"}
    BY <1>1, EventIsEvent DEF Answered
  <2>2. Head(w) = e
    BY <2>1
  <2> QED
    BY <2>1, <2>2
<1>2. CASE \E x \in Seq(EventSet) : w = <<Event("text_heard")>> \o x /\ Spoken(FreshValidation, x, r)
  <2>1. PICK head \in EventSet : head = Event("text_heard") /\ head.type = "text_heard"
    BY EventIsEvent DEF Streamed
  <2>2. PICK x \in Seq(EventSet) : w = <<head>> \o x /\ Spoken(FreshValidation, x, r)
    BY <1>2, <2>1
  <2>3. Head(w) = head /\ Tail(w) = x
    <3>1. <<head>> \in Seq(EventSet) /\ <<head>> # <<>> /\ Head(<<head>>) = head /\ Tail(<<head>>) = <<>>
      OBVIOUS
    <3>2. Head(<<head>> \o x) = head /\ Tail(<<head>> \o x) = Tail(<<head>>) \o x
      BY <3>1
    <3> QED
      BY <2>2, <3>1, <3>2, ConcatEmptySeq
  <2> QED
    BY <2>1, <2>2, <2>3
<1> QED
  BY <1>1, <1>2 DEF Arriving

(* The next line is read. *)
LEMMA NextAccepted ==
    ASSUME NEW v, NEW w, NEW r, IsTurn(r), Spoken(v, w, r), w # <<>>
    PROVE  Accepts(v, Head(w)) /\ Spoken(Accepted(v, Head(w)), Tail(w), r)
<1>1. Accepts(v, Head(w))
  BY ReadLine DEF Spoken, Told, Closed
<1>2. CASE r.at \in Telling /\ Told(v, w, r.emotion, r.spoken)
  <2>1. r.emotion \in BOOLEAN /\ r.spoken \in BOOLEAN
    BY DEF IsTurn
  <2> QED
    BY <1>1, <1>2, <2>1, ReadTold DEF Spoken
<1>3. CASE r.at = "ended" /\ \E e \in EventSet : Closed(v, w, e)
  BY <1>1, <1>3, ReadClosed DEF Spoken
<1> QED
  BY <1>2, <1>3 DEF Spoken

(* All lines are read. *)
LEMMA AllRead ==
    ASSUME NEW v, NEW r, r.at = "ended", Spoken(v, <<>>, r)
    PROVE  Finishes(v) /\ (v.terminal.type = "done" \/ error_seen(v))
<1>1. PICK e \in EventSet : Closed(v, <<>>, e)
  BY DEF Spoken, Telling
<1>2. /\ v.terminal = e /\ e.type \in Terminals
      /\ v.terminal.type = "done" => v.audio_seen
      /\ v \in ValidationSet
  BY <1>1 DEF Closed, Orderly
<1> QED
  BY <1>2 DEF Finishes, error_seen, done_seen, Terminals, ValidationSet

-----------------------------------------------------------------------------
(* Reply mode, and the token.                                              *)

(* The request that comes next answers a question that was heard. *)
Answerable ==
    \A t \in Turns :
        turn[t].at = "unused" /\ (\A s \in Turns : turn[s].at = "unused" => t <= s) =>
            t - 1 \in heard /\ turn[t - 1].asks

ReplyInv ==
    /\ ReplyModeAnswersAQuestion
    /\ streaming => \A t \in heard : turn[t].at = "ended"
    /\ ~ streaming => ~ ctx.short_reply /\ ~ ctx.short_reply_next /\ \A t \in Turns : ~ turn[t].short
    /\ state \in {"IDLE", "LISTENING"} /\ ctx.short_reply_next => Answerable
    /\ state = "THINKING" /\ current = None /\ ctx.short_reply => Answerable
    /\ state = "THINKING" => ~ ctx.short_reply_next
    /\ state = "SPEAKING" /\ streaming /\ ctx.short_reply_next =>
          playback.producer = "finished" /\ turn[current].asks
    /\ state = "SPEAKING" /\ streaming /\ playback.producer = "finished" => turn[current].at = "ended"

TokenInv ==
    /\ \A t \in Turns :
          turn[t].consumed => turn[t].token \in Tokens /\ grant[turn[t].token] = "spent"
    /\ current # None /\ (state = "THINKING" \/ Producing) =>
          turn[current].token \in {None, ctx.identity_token}

IInv == TurnsInv /\ RobotInv /\ LinesInv /\ HeldInv /\ StreamInv /\ ReplyInv /\ TokenInv

(* A step of the server, the robot standing still. *)
LEMMA ServerKeeps ==
    ASSUME IInv, NEW t \in Turns, ServerMove(t), UNCHANGED robotVars
    PROVE  IInv'
<1>1. TurnsInv /\ LinesInv /\ RobotInv /\ HeldInv /\ StreamInv /\ ReplyInv /\ TokenInv
  BY DEF IInv
<1>2. PICK q, lines :
        /\ Moved(turn[t], q, lines) /\ Spends(turn[t], q) /\ UsesSession(turn[t], q)
        /\ TurnsInv'
        /\ turn' = [turn EXCEPT ![t] = q] /\ turn'[t] = q
        /\ wire'[t] = (IF q.connected THEN wire[t] \o lines ELSE <<>>)
        /\ \A i \in 1 .. Len(wire'[t]) : HonestLine(wire'[t][i], q)
        /\ \A s \in Turns : s # t => turn'[s] = turn[s] /\ wire'[s] = wire[s]
        /\ \A k \in Tokens : grant[k] = "spent" => grant'[k] = "spent"
  BY <1>1, MoveEffect
<1>3. PICK r : r = turn[t]
  OBVIOUS
<1>4. /\ IsTurn(r) /\ InPhase(r) /\ IsTurn(q) /\ InPhase(q) /\ lines \in Seq(EventSet)
      /\ q.route = r.route /\ q.connected = r.connected
      /\ r.at # "unused" /\ q.at \notin {"unused", "received"}
      /\ q.short => r.short
      /\ r.consumed => q.consumed
      /\ q.token = r.token \/ (q.token = None /\ ~ q.consumed)
      /\ r.at = "ended" => q.at = "ended" /\ q.asks = r.asks
      /\ r.route = "stream" /\ r.connected => Streams(r, q, lines)
  BY <1>1, <1>2, <1>3 DEF Moved, TurnsInv
<1>5. UNCHANGED <<streaming, state, ctx, current, playback, heard>>
  BY DEF robotVars
<1>6. current # None => current \in Turns
  BY <1>1 DEF RobotInv, RobotTypes
<1>7. RobotInv'
  <2>1. \A s \in Turns : turn'[s].at = "unused" <=> turn[s].at = "unused"
    BY <1>2, <1>3, <1>4
  <2>2. \A s \in Turns : turn'[s].route = turn[s].route
    BY <1>2, <1>3, <1>4
  <2>3. RobotTypes'
    BY <1>1, <1>5 DEF RobotInv, RobotTypes
  <2>4. \A s \in Turns : 1 .. s \subseteq Turns
    BY VoiceServerAssumption DEF Turns
  <2>5. Control'
    BY <1>1, <1>5, <1>6, <2>1, <2>2, <2>4 DEF RobotInv, Control
  <2> QED
    BY <2>3, <2>5 DEF RobotInv
<1>8. LinesInv'
  <2>1. \A s \in Turns : \A i \in 1 .. Len(wire'[s]) : HonestLine(wire'[s][i], turn'[s])
    BY <1>1, <1>2 DEF LinesInv
  <2>2. \A s \in Turns :
          ~ turn'[s].connected \/ turn'[s].at \in {"unused", "received"} => wire'[s] = <<>>
    BY <1>1, <1>2, <1>3, <1>4 DEF LinesInv
  <2> QED
    BY <2>1, <2>2 DEF LinesInv
<1>9. HeldInv'
  <2>1. \A e : HonestLine(e, r) => HonestLine(e, q)
    BY <1>4 DEF HonestLine
  <2> QED
    BY <1>1, <1>2, <1>3, <1>5, <1>6, <2>1 DEF HeldInv
<1>10. StreamInv'
  <2>1. StreamIsAccepted' /\ (Producing' <=> Producing)
    BY <1>1, <1>5 DEF StreamInv, StreamIsAccepted, Producing
  <2>2. CASE current = t
    <3>1. streaming => r.route = "stream"
      BY <1>1, <1>3, <1>6, <2>2 DEF RobotInv, Control, Turns, None
    <3>2. wire[t] \in Seq(EventSet)
      BY <1>1 DEF TurnsInv
    <3>3. current # None
      BY <2>2 DEF Turns, None
    <3>4. ASSUME streaming, q.connected, state = "THINKING" PROVE Arriving(wire[t] \o lines, q)
      <4>1. Arriving(wire[t], r)
        BY <1>1, <1>3, <1>4, <2>2, <3>3, <3>4 DEF StreamInv
      <4> QED
        BY <1>4, <3>1, <3>2, <3>4, <4>1, ArrivingOn
    <3>5. ASSUME streaming, q.connected, Producing PROVE Spoken(playback.validation, wire[t] \o lines, q)
      <4>1. Spoken(playback.validation, wire[t], r)
        BY <1>1, <1>3, <1>4, <2>2, <3>3, <3>5 DEF StreamInv
      <4> QED
        BY <1>4, <3>1, <3>5, <4>1, SpokenOn
    <3> QED
      BY <1>2, <1>5, <2>1, <2>2, <3>4, <3>5 DEF StreamInv
  <2>3. CASE current # t
    BY <1>1, <1>2, <1>5, <1>6, <2>1, <2>3 DEF StreamInv
  <2> QED
    BY <2>2, <2>3
<1>11. ReplyInv'
  <2>1. \A s \in Turns : /\ turn'[s].at = "unused" <=> turn[s].at = "unused"
                         /\ turn'[s].short => turn[s].short
                         /\ turn[s].at = "ended" => turn'[s].at = "ended" /\ turn'[s].asks = turn[s].asks
    BY <1>2, <1>3, <1>4
  <2>2. heard \subseteq Turns
    BY <1>1 DEF RobotInv, RobotTypes
  <2>3. streaming => \A s \in heard : turn[s].at = "ended"
    BY <1>1 DEF ReplyInv
  <2>4. ReplyModeAnswersAQuestion'
    BY <1>1, <1>5, <2>1, <2>2, <2>3 DEF ReplyInv, ReplyModeAnswersAQuestion
  <2>5. streaming /\ Answerable => Answerable'
    BY <1>5, <2>1, <2>2, <2>3 DEF Answerable
  <2>6. streaming' => \A s \in heard' : turn'[s].at = "ended"
    BY <1>5, <2>1, <2>2, <2>3
  <2>7. ~ streaming' => ~ ctx'.short_reply /\ ~ ctx'.short_reply_next /\ \A s \in Turns : ~ turn'[s].short
    BY <1>1, <1>5, <2>1 DEF ReplyInv
  <2>8. state' = "SPEAKING" => current \in Turns
    BY <1>1, <1>5, <1>6 DEF RobotInv, Control
  <2>9. /\ state' \in {"IDLE", "LISTENING"} /\ ctx'.short_reply_next => Answerable'
        /\ state' = "THINKING" /\ current' = None /\ ctx'.short_reply => Answerable'
        /\ state' = "THINKING" => ~ ctx'.short_reply_next
    BY <1>1, <1>5, <2>5, <2>7 DEF ReplyInv
  <2>10. /\ state' = "SPEAKING" /\ streaming' /\ ctx'.short_reply_next =>
               playback'.producer = "finished" /\ turn'[current'].asks
         /\ state' = "SPEAKING" /\ streaming' /\ playback'.producer = "finished" =>
               turn'[current'].at = "ended"
    BY <1>1, <1>5, <2>1, <2>8 DEF ReplyInv
  <2> QED
    BY <2>4, <2>6, <2>7, <2>9, <2>10 DEF ReplyInv
<1>12. TokenInv'
  <2>1. \A s \in Turns : s # t /\ turn'[s].consumed =>
            turn'[s].token \in Tokens /\ grant'[turn'[s].token] = "spent"
    BY <1>1, <1>2 DEF TokenInv
  <2>2. ASSUME q.consumed PROVE q.token \in Tokens /\ grant'[q.token] = "spent"
    <3>1. q.token = r.token
      BY <1>4, <2>2
    <3>2. CASE r.consumed
      BY <1>1, <1>2, <1>3, <3>1, <3>2 DEF TokenInv
    <3>3. CASE ~ r.consumed
      <4>1. /\ r.token \in Tokens /\ grant[r.token] = "live"
            /\ grant' = [grant EXCEPT ![r.token] = "spent"]
        BY <1>2, <1>3, <2>2, <3>3 DEF Spends
      <4> QED
        BY <1>1, <3>1, <4>1 DEF TurnsInv
    <3> QED
      BY <3>2, <3>3
  <2>3. current # None /\ (state = "THINKING" \/ Producing) =>
            turn'[current].token \in {None, ctx.identity_token}
    BY <1>1, <1>2, <1>3, <1>4, <1>6 DEF TokenInv
  <2>4. Producing' <=> Producing
    BY <1>5 DEF Producing
  <2> QED
    BY <1>2, <1>5, <2>1, <2>2, <2>3, <2>4 DEF TokenInv
<1> QED
  BY <1>2, <1>7, <1>8, <1>9, <1>10, <1>11, <1>12 DEF IInv

(* Steps that touch no request. *)
LEMMA Untouched ==
    ASSUME IInv, UNCHANGED serverVars
    PROVE  /\ TurnsInv' /\ LinesInv'
           /\ \A t \in Turns :
                 turn'[t].consumed => turn'[t].token \in Tokens /\ grant'[turn'[t].token] = "spent"
           /\ heard \subseteq heard' => ReplyModeAnswersAQuestion'
<1>1. UNCHANGED <<turn, wire, grant>>
  BY DEF serverVars
<1>2. TurnsInv' /\ LinesInv'
  BY <1>1 DEF IInv, TurnsInv, LinesInv
<1>3. heard \subseteq heard' => ReplyModeAnswersAQuestion'
  BY <1>1 DEF IInv, ReplyInv, ReplyModeAnswersAQuestion
<1>4. \A t \in Turns :
        turn'[t].consumed => turn'[t].token \in Tokens /\ grant'[turn'[t].token] = "spent"
  BY <1>1 DEF IInv, TokenInv
<1> QED
  BY <1>2, <1>3, <1>4

LEMMA FreshHeld ==
    ASSUME NEW r
    PROVE  FreshPlayback \in Playbacks /\ HonestLine(FreshPlayback.validation.terminal, r)
           /\ FreshPlayback.producer = "running" /\ FreshPlayback.queued = 0
           /\ FreshPlayback.validation = FreshValidation
<1>1. FreshValidation.terminal = Event("text_heard")
  BY DEF FreshValidation, NothingYet
<1> QED
  BY <1>1, FreshIsValid, PlainEvent DEF FreshPlayback, Playbacks, Streamed


LEMMA ProducedIs ==
    ASSUME NEW how, Produced(how)
    PROVE  /\ playback'.producer = how /\ playback'.queued = playback.queued
           /\ playback'.validation = FreshValidation
BY DEF Produced, FreshPlayback

(* Between two requests. *)
LEMMA ListeningKeeps ==
    ASSUME IInv, Idle \/ Utterance \/ Silence \/ CaptureFails \/ Recover
    PROVE  IInv'
<1>1. TurnsInv /\ LinesInv /\ RobotInv /\ HeldInv /\ StreamInv /\ ReplyInv /\ TokenInv
  BY DEF IInv
<1>2. UNCHANGED serverVars
  BY DEF Idle, Utterance, Silence, CaptureFails, Recover, Capture
<1>3. /\ TurnsInv' /\ LinesInv'
      /\ \A t \in Turns :
            turn'[t].consumed => turn'[t].token \in Tokens /\ grant'[turn'[t].token] = "spent"
      /\ heard \subseteq heard' => ReplyModeAnswersAQuestion'
  BY <1>2, Untouched
<1>4. UNCHANGED <<turn, wire, grant>>
  BY <1>2 DEF serverVars
<1>5. \A r : FreshPlayback \in Playbacks /\ HonestLine(FreshPlayback.validation.terminal, r)
           /\ FreshPlayback.producer = "running" /\ FreshPlayback.queued = 0
  BY FreshHeld
<1>6. CASE Idle
  <2>1. RobotTypes'
    BY <1>1, <1>5, <1>6 DEF Idle, GoTo, RobotInv, RobotTypes, Contexts, Playbacks, RobotStates
  <2>2. Control'
    BY <1>1, <1>4, <1>6 DEF Idle, GoTo, RobotInv, Control, Producing
  <2>3. HeldInv'
    BY <1>1, <1>4, <1>5, <1>6 DEF Idle, HeldInv
  <2>4. StreamInv'
    BY <1>1, <1>4, <1>5, <1>6 DEF Idle, GoTo, StreamInv, StreamIsAccepted, Producing
  <2>5. ReplyInv'
    BY <1>1, <1>3, <1>4, <1>5, <1>6 DEF Idle, GoTo, ReplyInv, Answerable, RobotInv, RobotTypes, Contexts, Control
  <2>6. TokenInv'
    BY <1>1, <1>3, <1>4, <1>5, <1>6 DEF Idle, GoTo, TokenInv, Producing, RobotInv, RobotTypes, Contexts
  <2> QED
    BY <1>3, <2>1, <2>2, <2>3, <2>4, <2>5, <2>6 DEF IInv, RobotInv
<1>7. CASE Utterance
  <2>1. RobotTypes'
    BY <1>1, <1>5, <1>7 DEF Utterance, Capture, GoTo, RobotInv, RobotTypes, Contexts, Playbacks, RobotStates
  <2>2. Control'
    BY <1>1, <1>4, <1>7 DEF Utterance, Capture, GoTo, RobotInv, Control, Producing
  <2>3. HeldInv'
    BY <1>1, <1>4, <1>5, <1>7 DEF Utterance, Capture, HeldInv
  <2>4. StreamInv'
    BY <1>1, <1>4, <1>5, <1>7 DEF Utterance, Capture, GoTo, StreamInv, StreamIsAccepted, Producing, RobotInv, Control
  <2>5. ReplyInv'
    BY <1>1, <1>3, <1>4, <1>5, <1>7 DEF Utterance, Capture, GoTo, ReplyInv, Answerable, RobotInv, RobotTypes, Contexts, Control
  <2>6. TokenInv'
    BY <1>1, <1>3, <1>4, <1>5, <1>7 DEF Utterance, Capture, GoTo, TokenInv, Producing, RobotInv, Control
  <2> QED
    BY <1>3, <2>1, <2>2, <2>3, <2>4, <2>5, <2>6 DEF IInv, RobotInv
<1>8. CASE Silence
  <2>1. RobotTypes'
    BY <1>1, <1>5, <1>8 DEF Silence, Capture, GoTo, RobotInv, RobotTypes, Contexts, Playbacks, RobotStates
  <2>2. Control'
    BY <1>1, <1>4, <1>8 DEF Silence, Capture, GoTo, RobotInv, Control, Producing
  <2>3. HeldInv'
    BY <1>1, <1>4, <1>5, <1>8 DEF Silence, Capture, HeldInv
  <2>4. StreamInv'
    BY <1>1, <1>4, <1>5, <1>8 DEF Silence, Capture, GoTo, StreamInv, StreamIsAccepted, Producing
  <2>5. ReplyInv'
    BY <1>1, <1>3, <1>4, <1>5, <1>8 DEF Silence, Capture, GoTo, ReplyInv, Answerable, RobotInv, RobotTypes, Contexts, Control
  <2>6. TokenInv'
    BY <1>1, <1>3, <1>4, <1>5, <1>8 DEF Silence, Capture, GoTo, TokenInv, Producing, RobotInv, RobotTypes, Contexts
  <2> QED
    BY <1>3, <2>1, <2>2, <2>3, <2>4, <2>5, <2>6 DEF IInv, RobotInv
<1>9. CASE CaptureFails
  <2>1. RobotTypes'
    BY <1>1, <1>5, <1>9 DEF CaptureFails, Capture, GoTo, RobotInv, RobotTypes, Contexts, Playbacks, RobotStates
  <2>2. Control'
    BY <1>1, <1>4, <1>9 DEF CaptureFails, Capture, GoTo, RobotInv, Control, Producing
  <2>3. HeldInv'
    BY <1>1, <1>4, <1>5, <1>9 DEF CaptureFails, Capture, HeldInv
  <2>4. StreamInv'
    BY <1>1, <1>4, <1>5, <1>9 DEF CaptureFails, Capture, GoTo, StreamInv, StreamIsAccepted, Producing
  <2>5. ReplyInv'
    BY <1>1, <1>3, <1>4, <1>5, <1>9 DEF CaptureFails, Capture, GoTo, ReplyInv, Answerable, RobotInv, RobotTypes, Contexts, Control
  <2>6. TokenInv'
    BY <1>1, <1>3, <1>4, <1>5, <1>9 DEF CaptureFails, Capture, GoTo, TokenInv, Producing, RobotInv, RobotTypes, Contexts
  <2> QED
    BY <1>3, <2>1, <2>2, <2>3, <2>4, <2>5, <2>6 DEF IInv, RobotInv
<1>10. CASE Recover
  <2>1. RobotTypes'
    BY <1>1, <1>5, <1>10 DEF Recover, GoTo, RobotInv, RobotTypes, Contexts, Playbacks, RobotStates
  <2>2. Control'
    BY <1>1, <1>4, <1>10 DEF Recover, GoTo, RobotInv, Control, Producing
  <2>3. HeldInv'
    BY <1>1, <1>4, <1>5, <1>10 DEF Recover, HeldInv
  <2>4. StreamInv'
    BY <1>1, <1>4, <1>5, <1>10 DEF Recover, GoTo, StreamInv, StreamIsAccepted, Producing
  <2>5. ReplyInv'
    BY <1>1, <1>3, <1>4, <1>5, <1>10 DEF Recover, GoTo, ReplyInv, Answerable, RobotInv, RobotTypes, Contexts, Control
  <2>6. TokenInv'
    BY <1>1, <1>3, <1>4, <1>5, <1>10 DEF Recover, GoTo, TokenInv, Producing, RobotInv, RobotTypes, Contexts
  <2> QED
    BY <1>3, <2>1, <2>2, <2>3, <2>4, <2>5, <2>6 DEF IInv, RobotInv
<1> QED
  BY <1>6, <1>7, <1>8, <1>9, <1>10

(* Playing what was received. *)
LEMMA PlayingKeeps ==
    ASSUME IInv, CameraFails \/ Plays \/ PlaybackFails \/ StreamBreaks \/ PlayClip
    PROVE  IInv'
<1>1. TurnsInv /\ LinesInv /\ RobotInv /\ HeldInv /\ StreamInv /\ ReplyInv /\ TokenInv
  BY DEF IInv
<1>2. UNCHANGED serverVars
  BY DEF CameraFails, Plays, PlaybackFails, StreamBreaks, PlayClip
<1>3. /\ TurnsInv' /\ LinesInv'
      /\ \A t \in Turns :
            turn'[t].consumed => turn'[t].token \in Tokens /\ grant'[turn'[t].token] = "spent"
      /\ heard \subseteq heard' => ReplyModeAnswersAQuestion'
  BY <1>2, Untouched
<1>4. UNCHANGED <<turn, wire, grant>>
  BY <1>2 DEF serverVars
<1>5. \A r : FreshPlayback \in Playbacks /\ HonestLine(FreshPlayback.validation.terminal, r)
           /\ FreshPlayback.producer = "running" /\ FreshPlayback.queued = 0
  BY FreshHeld
<1>6. CASE CameraFails
  <2>1. RobotTypes'
    BY <1>1, <1>5, <1>6 DEF CameraFails, GoTo, RobotInv, RobotTypes, Contexts, Playbacks, RobotStates
  <2>2. Control'
    BY <1>1, <1>4, <1>6 DEF CameraFails, GoTo, RobotInv, Control, Producing
  <2>3. HeldInv'
    BY <1>1, <1>4, <1>5, <1>6 DEF CameraFails, HeldInv
  <2>4. StreamInv'
    BY <1>1, <1>4, <1>5, <1>6 DEF CameraFails, GoTo, StreamInv, StreamIsAccepted, Producing
  <2>5. ReplyInv'
    BY <1>1, <1>3, <1>4, <1>5, <1>6 DEF CameraFails, GoTo, ReplyInv, Answerable, RobotInv, RobotTypes, Contexts, Control
  <2>6. TokenInv'
    BY <1>1, <1>3, <1>4, <1>5, <1>6 DEF CameraFails, GoTo, TokenInv, Producing, RobotInv, RobotTypes, Contexts
  <2> QED
    BY <1>3, <2>1, <2>2, <2>3, <2>4, <2>5, <2>6 DEF IInv, RobotInv
<1>7. CASE Plays
  <2>1. RobotTypes'
    BY <1>1, <1>5, <1>7 DEF Plays, GoTo, RobotInv, RobotTypes, RobotStates, Control
  <2>2. Control'
    BY <1>1, <1>4, <1>7 DEF Plays, GoTo, RobotInv, Control, Producing
  <2>3. HeldInv'
    BY <1>1, <1>4, <1>5, <1>7 DEF Plays, HeldInv
  <2>4. StreamInv'
    BY <1>1, <1>4, <1>5, <1>7 DEF Plays, GoTo, StreamInv, StreamIsAccepted, Producing
  <2>5. ReplyInv'
    BY <1>1, <1>3, <1>4, <1>5, <1>7 DEF Plays, GoTo, ReplyInv, Answerable, RobotInv, RobotTypes, Contexts, Control
  <2>6. TokenInv'
    BY <1>1, <1>3, <1>4, <1>5, <1>7 DEF Plays, GoTo, TokenInv, Producing, RobotInv, RobotTypes, Contexts
  <2> QED
    BY <1>3, <2>1, <2>2, <2>3, <2>4, <2>5, <2>6 DEF IInv, RobotInv
<1>8. CASE PlaybackFails
  <2>1. RobotTypes'
    BY <1>1, <1>5, <1>8 DEF PlaybackFails, GoTo, RobotInv, RobotTypes, Contexts, Playbacks, RobotStates
  <2>2. Control'
    BY <1>1, <1>4, <1>8 DEF PlaybackFails, GoTo, RobotInv, Control, Producing
  <2>3. HeldInv'
    BY <1>1, <1>4, <1>5, <1>8 DEF PlaybackFails, HeldInv
  <2>4. StreamInv'
    BY <1>1, <1>4, <1>5, <1>8 DEF PlaybackFails, GoTo, StreamInv, StreamIsAccepted, Producing
  <2>5. ReplyInv'
    BY <1>1, <1>3, <1>4, <1>5, <1>8 DEF PlaybackFails, GoTo, ReplyInv, Answerable, RobotInv, RobotTypes, Contexts, Control
  <2>6. TokenInv'
    BY <1>1, <1>3, <1>4, <1>5, <1>8 DEF PlaybackFails, GoTo, TokenInv, Producing, RobotInv, RobotTypes, Contexts
  <2> QED
    BY <1>3, <2>1, <2>2, <2>3, <2>4, <2>5, <2>6 DEF IInv, RobotInv
<1>9. CASE StreamBreaks
  <2>1. RobotTypes'
    BY <1>1, <1>5, <1>9 DEF StreamBreaks, Produced, GoTo, RobotInv, RobotTypes, Contexts, Playbacks, RobotStates
  <2>2. Control'
    BY <1>1, <1>4, <1>9 DEF StreamBreaks, Produced, GoTo, RobotInv, Control, Producing
  <2>3. HeldInv'
    BY <1>1, <1>4, <1>5, <1>9 DEF StreamBreaks, Produced, HeldInv
  <2>4. StreamInv'
    BY <1>1, <1>4, <1>5, <1>9 DEF StreamBreaks, Produced, GoTo, StreamInv, StreamIsAccepted, Producing
  <2>5. ReplyInv'
    BY <1>1, <1>3, <1>4, <1>9, ProducedIs
       DEF StreamBreaks, ReplyInv, Answerable, Producing, ReplyModeAnswersAQuestion
  <2>6. TokenInv'
    BY <1>1, <1>3, <1>4, <1>5, <1>9 DEF StreamBreaks, Produced, GoTo, TokenInv, Producing, RobotInv, RobotTypes, Contexts
  <2> QED
    BY <1>3, <2>1, <2>2, <2>3, <2>4, <2>5, <2>6 DEF IInv, RobotInv
<1>10. CASE PlayClip
  <2>1. RobotTypes'
    BY <1>1, <1>5, <1>10 DEF PlayClip, GoTo, RobotInv, RobotTypes, Contexts, Playbacks, RobotStates
  <2>2. Control'
    BY <1>1, <1>4, <1>10 DEF PlayClip, GoTo, RobotInv, Control, Producing
  <2>3. HeldInv'
    BY <1>1, <1>4, <1>5, <1>10 DEF PlayClip, HeldInv
  <2>4. StreamInv'
    BY <1>1, <1>4, <1>5, <1>10 DEF PlayClip, GoTo, StreamInv, StreamIsAccepted, Producing
  <2>5. ReplyInv'
    BY <1>1, <1>3, <1>4, <1>5, <1>10 DEF PlayClip, GoTo, ReplyInv, Answerable, RobotInv, RobotTypes, Contexts, Control
  <2>6. TokenInv'
    BY <1>1, <1>3, <1>4, <1>5, <1>10 DEF PlayClip, GoTo, TokenInv, Producing, RobotInv, RobotTypes, Contexts
  <2> QED
    BY <1>3, <2>1, <2>2, <2>3, <2>4, <2>5, <2>6 DEF IInv, RobotInv
<1> QED
  BY <1>6, <1>7, <1>8, <1>9, <1>10

(* The end of a stream, and of the playback. *)
LEMMA EndOfStreamKeeps ==
    ASSUME IInv, EndOfStream
    PROVE  IInv'
<1>1. TurnsInv /\ LinesInv /\ RobotInv /\ HeldInv /\ StreamInv /\ ReplyInv /\ TokenInv
  BY DEF IInv
<1>2. UNCHANGED serverVars /\ UNCHANGED <<streaming, state, current, heard>>
  BY DEF EndOfStream
<1>3. /\ TurnsInv' /\ LinesInv'
      /\ \A t \in Turns :
            turn'[t].consumed => turn'[t].token \in Tokens /\ grant'[turn'[t].token] = "spent"
      /\ ReplyModeAnswersAQuestion'
  BY <1>2, Untouched
<1>4. UNCHANGED <<turn, wire, grant>>
  BY <1>2 DEF serverVars
<1>5. /\ current \in Turns /\ state = "SPEAKING" /\ streaming /\ playback.producer = "running"
      /\ turn[current].connected /\ turn[current].at = "ended" /\ wire[current] = <<>>
  BY <1>1 DEF EndOfStream, Producing, At, RobotInv, RobotTypes, Control
<1>6. PICK v : v = playback.validation
  OBVIOUS
<1>7. Spoken(v, <<>>, turn[current]) /\ HonestLine(v.terminal, turn[current])
  BY <1>1, <1>5, <1>6 DEF StreamInv, HeldInv, Producing, Turns, None
<1>8. Finishes(v)
  BY <1>5, <1>7, AllRead
<1>9. v.terminal \in EventSet
  BY <1>1, <1>6 DEF RobotInv, RobotTypes, Playbacks, ValidationSet
<1>10. \/ /\ Produced("failed") /\ UNCHANGED ctx
       \/ /\ Produced("finished")
          /\ ctx' = [ctx EXCEPT
                  !.identity_token = IF v.terminal.authentication_consumed THEN None ELSE @,
                  !.short_reply_next = v.terminal.expects_short_reply]
  BY <1>6, <1>8 DEF EndOfStream
<1>11. PICK how \in {"failed", "finished"} :
         /\ Produced(how)
         /\ how = "failed" => UNCHANGED ctx
         /\ how = "finished" => /\ ctx'.short_reply_next = v.terminal.expects_short_reply
                                /\ ctx'.short_reply = ctx.short_reply
  <2>1. CASE Produced("failed") /\ UNCHANGED ctx
    BY <2>1
  <2>2. CASE Produced("finished") /\
             ctx' = [ctx EXCEPT
                  !.identity_token = IF v.terminal.authentication_consumed THEN None ELSE @,
                  !.short_reply_next = v.terminal.expects_short_reply]
    BY <1>1, <2>2 DEF RobotInv, RobotTypes, Contexts
  <2> QED
    BY <1>10, <2>1, <2>2
<1>12. /\ playback'.producer = how /\ playback'.queued = playback.queued
       /\ playback'.validation = FreshValidation /\ playback' \in Playbacks
  BY <1>1, <1>11, FreshIsValid DEF Produced, FreshPlayback, RobotInv, RobotTypes, Playbacks
<1>13. ctx' \in Contexts
  <2>1. /\ v.terminal.expects_short_reply \in BOOLEAN
        /\ ctx \in Contexts
    BY <1>1, <1>9 DEF EventSet, RobotInv, RobotTypes
  <2> QED
    BY <1>10, <2>1 DEF Contexts
<1>14. RobotTypes'
  BY <1>1, <1>2, <1>12, <1>13 DEF RobotInv, RobotTypes
<1>15. Control'
  BY <1>1, <1>2, <1>4, <1>5 DEF RobotInv, Control
<1>16. HeldInv'
  BY <1>12, FreshHeld DEF HeldInv
<1>17. StreamInv'
  BY <1>2, <1>5, <1>11, <1>12 DEF StreamInv, StreamIsAccepted, Producing
<1>18. ReplyInv'
  <2>1. v.terminal.expects_short_reply => turn[current].asks
    BY <1>7 DEF HonestLine
  <2>2. playback.producer # "finished" => ~ ctx.short_reply_next
    BY <1>1, <1>5 DEF ReplyInv
  <2> QED
    BY <1>1, <1>2, <1>3, <1>4, <1>5, <1>11, <1>12, <2>1, <2>2 DEF ReplyInv
<1>19. TokenInv'
  BY <1>2, <1>3, <1>5, <1>11, <1>12 DEF TokenInv, Producing
<1> QED
  BY <1>3, <1>14, <1>15, <1>16, <1>17, <1>18, <1>19 DEF IInv, RobotInv

LEMMA DrainedKeeps ==
    ASSUME IInv, Drained
    PROVE  IInv'
<1>1. TurnsInv /\ LinesInv /\ RobotInv /\ HeldInv /\ StreamInv /\ ReplyInv /\ TokenInv
  BY DEF IInv
<1>2. UNCHANGED serverVars /\ UNCHANGED <<streaming, ctx, current>> /\ playback' = FreshPlayback
  BY DEF Drained
<1>3. /\ current \in Turns /\ state = "SPEAKING" /\ streaming
      /\ \/ state' = "IDLE" /\ heard' = heard \cup {current} /\ playback.producer = "finished"
         \/ state' = "ERROR" /\ heard' = heard
  BY <1>1 DEF Drained, GoTo, RobotInv, RobotTypes, Control
<1>4. /\ TurnsInv' /\ LinesInv'
      /\ \A t \in Turns :
            turn'[t].consumed => turn'[t].token \in Tokens /\ grant'[turn'[t].token] = "spent"
      /\ ReplyModeAnswersAQuestion'
  BY <1>2, <1>3, Untouched
<1>5. UNCHANGED <<turn, wire, grant>>
  BY <1>2 DEF serverVars
<1>6. \A r : FreshPlayback \in Playbacks /\ HonestLine(FreshPlayback.validation.terminal, r)
           /\ FreshPlayback.producer = "running" /\ FreshPlayback.queued = 0
  BY FreshHeld
<1>7. RobotTypes'
  BY <1>1, <1>2, <1>3, <1>6 DEF RobotInv, RobotTypes, RobotStates
<1>8. Control'
  BY <1>1, <1>2, <1>3, <1>5 DEF RobotInv, Control
<1>9. HeldInv'
  BY <1>2, <1>6 DEF HeldInv
<1>10. StreamInv'
  BY <1>2, <1>3, <1>6 DEF StreamInv, StreamIsAccepted, Producing
<1>11. ReplyInv'
  <2>1. playback.producer = "finished" => turn[current].at = "ended"
    BY <1>1, <1>3 DEF ReplyInv
  <2>2. streaming => \A t \in heard' : turn[t].at = "ended"
    BY <1>1, <1>3, <2>1 DEF ReplyInv
  <2>3. ASSUME state' = "IDLE", ctx.short_reply_next PROVE Answerable'
    <3>1. turn[current].asks /\ current \in heard'
      BY <1>1, <1>3, <2>3 DEF ReplyInv
    <3>2. ASSUME NEW t \in Turns, turn[t].at = "unused",
                 \A s \in Turns : turn[s].at = "unused" => t <= s
          PROVE  t - 1 = current
      <4>1. MaxTurns \in Nat /\ current \in 1 .. MaxTurns /\ t \in 1 .. MaxTurns
        BY <1>3, VoiceServerAssumption DEF Turns
      <4>2. t > current
        <5>1. turn[current].at # "unused" /\ \A s \in 1 .. current : turn[s].at # "unused"
          BY <1>1, <1>3 DEF RobotInv, Control
        <5> QED
          BY <3>2, <4>1, <5>1
      <4>3. current + 1 \in Turns /\ current + 1 > current
        BY <4>1, <4>2 DEF Turns
      <4>4. turn[current + 1].at = "unused"
        BY <1>1, <1>3, <4>3 DEF RobotInv, Control, Turns, None
      <4>5. t <= current + 1
        BY <3>2, <4>3, <4>4
      <4> QED
        BY <4>1, <4>2, <4>5
    <3> QED
      BY <1>5, <3>1, <3>2 DEF Answerable
  <2> QED
    BY <1>1, <1>2, <1>3, <1>4, <1>5, <2>2, <2>3 DEF ReplyInv
<1>12. TokenInv'
  BY <1>2, <1>3, <1>4 DEF TokenInv, Producing
<1> QED
  BY <1>4, <1>7, <1>8, <1>9, <1>10, <1>11, <1>12 DEF IInv, RobotInv

(* A request is made. *)
LEMMA AskingKeeps ==
    ASSUME IInv, Think \/ Look
    PROVE  IInv'
<1>1. TurnsInv /\ LinesInv /\ RobotInv /\ HeldInv /\ StreamInv /\ ReplyInv /\ TokenInv
  BY DEF IInv
<1>2. PICK route \in Routes, token \in Tokens \cup {None}, short \in BOOLEAN :
        /\ Request(route, token, short)
        /\ streaming => route = "stream" /\ short = ctx.short_reply
        /\ ~ streaming => ~ short
        /\ state = "THINKING" => token = ctx.identity_token /\ current = None
        /\ state \in {"THINKING", "LOOKING"}
  <2>1. ctx.identity_token \in Tokens \cup {None} /\ ctx.short_reply \in BOOLEAN
    BY <1>1 DEF RobotInv, RobotTypes, Contexts
  <2>2. CASE Think
    BY <2>1, <2>2 DEF Think, Routes
  <2>3. CASE Look
    BY <1>1, <2>3 DEF Look, Routes, RobotInv, Control
  <2> QED
    BY <2>2, <2>3
<1>3. /\ current' \in Turns /\ turn[current'].at = "unused"
      /\ \A s \in Turns : turn[s].at = "unused" => current' <= s
      /\ turn' = [turn EXCEPT ![current'] = Asked(route, token, short)]
      /\ UNCHANGED <<wire, session, grant, streaming, state, ctx, playback, heard>>
  BY <1>2, RequestAsks
<1>4. PICK t \in Turns : t = current'
  BY <1>3
<1>5. PICK q : q = Asked(route, token, short)
  OBVIOUS
<1>6. /\ TurnsInv' /\ turn'[t] = q
      /\ \A s \in Turns : s # t => turn'[s] = turn[s]
  <2>1. TurnsInv /\ turn' = [turn EXCEPT ![t] = Asked(route, token, short)]
    BY <1>1, <1>3, <1>4
  <2>2. UNCHANGED <<wire, grant>>
    BY <1>3
  <2>3. /\ TurnsInv' /\ turn'[t] = Asked(route, token, short)
        /\ \A s \in Turns : s # t => turn'[s] = turn[s]
    BY <2>1, <2>2, AskEffect, Zenon
  <2> QED
    BY <1>5, <2>3
<1>7. /\ IsTurn(q) /\ InPhase(q) /\ q.at = "received" /\ q.route = route
      /\ q.token = token /\ q.short = short /\ q.view = NoView /\ q.connected
      /\ ~ q.consumed
  BY <1>5, AskedIsTurn
<1>8. MaxTurns \in Nat /\ \A s \in Turns : s \in 1 .. MaxTurns
  BY VoiceServerAssumption DEF Turns
<1>9. wire[t] = <<>> /\ wire' = wire
  BY <1>1, <1>3, <1>4 DEF LinesInv
<1>10. LinesInv'
  <2>1. \A s \in Turns : \A i \in 1 .. Len(wire'[s]) : HonestLine(wire'[s][i], turn'[s])
    BY <1>1, <1>6, <1>9, NoLines DEF LinesInv
  <2>2. \A s \in Turns :
          ~ turn'[s].connected \/ turn'[s].at \in {"unused", "received"} => wire'[s] = <<>>
    BY <1>1, <1>6, <1>9 DEF LinesInv
  <2> QED
    BY <2>1, <2>2 DEF LinesInv
<1>11. playback' = FreshPlayback /\ playback = FreshPlayback
  BY <1>1, <1>2, <1>3 DEF RobotInv, Control
<1>12. RobotTypes'
  BY <1>1, <1>3 DEF RobotInv, RobotTypes
<1>13. Control'
  <2>1. \A s \in Turns : turn'[s].at # "unused" => \A u \in 1 .. s : turn'[u].at # "unused"
    <3> SUFFICES ASSUME NEW s \in Turns, turn'[s].at # "unused", NEW u \in 1 .. s
                 PROVE  turn'[u].at # "unused"
      OBVIOUS
    <3>1. u \in Turns
      BY <1>8 DEF Turns
    <3>2. CASE u = t
      BY <1>6, <1>7, <3>2
    <3>3. CASE u # t /\ s # t
      BY <1>1, <1>6, <3>1, <3>3 DEF RobotInv, Control
    <3>4. CASE u # t /\ s = t
      <4>1. u < t
        BY <1>8, <3>4
      <4>2. turn[u].at # "unused"
        BY <1>3, <1>4, <1>8, <3>1, <4>1
      <4> QED
        BY <1>6, <3>1, <3>4, <4>2
    <3> QED
      BY <3>2, <3>3, <3>4
  <2>2. \A s \in Turns : s > t => turn'[s].at = "unused"
    <3> SUFFICES ASSUME NEW s \in Turns, s > t, turn[s].at # "unused" PROVE FALSE
      BY <1>6, <1>8
    <3>1. t \in 1 .. s
      BY <1>8
    <3> QED
      BY <1>1, <1>3, <1>4, <3>1 DEF RobotInv, Control
  <2>3. turn'[t].at # "unused" /\ (streaming => turn'[t].route = "stream")
    BY <1>2, <1>6, <1>7
  <2>4. state' # "LISTENING" /\ current' # None
    BY <1>2, <1>3 DEF Turns, None
  <2>5. streaming' => state' # "LOOKING"
    BY <1>1, <1>3 DEF RobotInv, Control
  <2> QED
    BY <1>3, <1>4, <1>11, <2>1, <2>2, <2>3, <2>4, <2>5 DEF Control
<1>14. HeldInv'
  BY <1>11, FreshHeld DEF HeldInv
<1>15. StreamInv'
  <2>1. Arriving(wire'[t], turn'[t])
    BY <1>6, <1>7, <1>9 DEF Arriving
  <2> QED
    BY <1>1, <1>2, <1>3, <1>4, <2>1 DEF StreamInv, StreamIsAccepted, Producing
<1>16. ReplyInv'
  <2>1. \A s \in heard : s \in Turns /\ (streaming => s # t)
    BY <1>1, <1>3, <1>4 DEF RobotInv, RobotTypes, ReplyInv
  <2>2. ASSUME short PROVE t - 1 \in heard /\ turn[t - 1].asks
    <3>1. streaming /\ Answerable
      BY <1>1, <1>2, <2>2 DEF ReplyInv, RobotInv, Control
    <3> QED
      BY <1>3, <1>4, <3>1 DEF Answerable
  <2>3. ~ streaming => \A s \in Turns : ~ turn'[s].short
    BY <1>1, <1>2, <1>6, <1>7 DEF ReplyInv
  <2>4. ReplyModeAnswersAQuestion'
    <3> SUFFICES ASSUME NEW s \in Turns, turn'[s].short PROVE s - 1 \in heard /\ turn'[s - 1].asks
      BY <1>3 DEF ReplyModeAnswersAQuestion
    <3>1. streaming
      BY <2>3
    <3>2. s - 1 \in heard /\ turn[s - 1].asks
      BY <1>1, <1>6, <1>7, <2>2 DEF ReplyInv, ReplyModeAnswersAQuestion
    <3> QED
      BY <1>6, <2>1, <3>1, <3>2
  <2>5. streaming => \A s \in heard : turn'[s].at = "ended"
    BY <1>1, <1>6, <2>1 DEF ReplyInv
  <2>6. current' # None
    BY <1>3 DEF Turns, None
  <2> QED
    BY <1>1, <1>2, <1>3, <2>3, <2>4, <2>5, <2>6 DEF ReplyInv
<1>17. TokenInv'
  <2>1. \A s \in Turns :
          turn'[s].consumed => turn'[s].token \in Tokens /\ grant'[turn'[s].token] = "spent"
    BY <1>1, <1>3, <1>6, <1>7 DEF TokenInv
  <2>2. ~ Producing'
    BY <1>2, <1>3 DEF Producing
  <2> QED
    BY <1>2, <1>3, <1>4, <1>6, <1>7, <2>1, <2>2 DEF TokenInv
<1> QED
  BY <1>6, <1>10, <1>12, <1>13, <1>14, <1>15, <1>16, <1>17 DEF IInv, RobotInv

(* A line is read: whatever the robot then does. *)
LEMMA ReadKeeps ==
    ASSUME IInv, Reads, UNCHANGED grant
    PROVE  /\ TurnsInv' /\ LinesInv' /\ turn' = turn
           /\ Head(wire[current]) \in EventSet /\ HonestLine(Head(wire[current]), turn[current])
           /\ wire[current] # <<>> /\ turn[current].connected
           /\ wire'[current] = Tail(wire[current])
           /\ \A t \in Turns :
                 turn'[t].consumed => turn'[t].token \in Tokens /\ grant'[turn'[t].token] = "spent"
<1>1. TurnsInv /\ LinesInv /\ TokenInv
  BY DEF IInv
<1>2. /\ TurnsInv' /\ turn' = turn /\ wire[current] # <<>> /\ turn[current].connected
      /\ wire[current] \in Seq(EventSet) /\ Head(wire[current]) \in EventSet
      /\ wire'[current] = Tail(wire[current])
      /\ \A s \in Turns : s # current => wire'[s] = wire[s]
      /\ current \in Turns
  BY <1>1, ReadEffect DEF Reads
<1>3. PICK n \in Nat : n = Len(wire[current]) /\ n >= 1
  BY <1>2
<1>4. PICK y \in Seq(EventSet) : /\ y = wire'[current] /\ Len(y) = n - 1
                                 /\ \A i \in 1 .. n - 1 : y[i] = wire[current][i + 1]
  <2>1. /\ Tail(wire[current]) \in Seq(EventSet) /\ Len(Tail(wire[current])) = n - 1
        /\ \A i \in 1 .. n - 1 : Tail(wire[current])[i] = wire[current][i + 1]
    BY <1>2, <1>3
  <2> QED
    BY <1>2, <2>1
<1>5. \A i \in 1 .. n : HonestLine(wire[current][i], turn[current])
  BY <1>1, <1>2, <1>3 DEF LinesInv
<1>6. \A i \in 1 .. Len(y) : HonestLine(y[i], turn[current])
  <2>1. \A i \in 1 .. n - 1 : i + 1 \in 1 .. n
    BY <1>3
  <2> QED
    BY <1>4, <1>5, <2>1
<1>7. HonestLine(Head(wire[current]), turn[current])
  <2>1. Head(wire[current]) = wire[current][1] /\ 1 \in 1 .. n
    BY <1>2, <1>3
  <2> QED
    BY <1>5, <2>1
<1>8. LinesInv'
  <2>1. \A s \in Turns : \A i \in 1 .. Len(wire'[s]) : HonestLine(wire'[s][i], turn'[s])
    BY <1>1, <1>2, <1>4, <1>6 DEF LinesInv
  <2>2. \A s \in Turns :
          ~ turn'[s].connected \/ turn'[s].at \in {"unused", "received"} => wire'[s] = <<>>
    BY <1>1, <1>2 DEF LinesInv
  <2> QED
    BY <2>1, <2>2 DEF LinesInv
<1> QED
  BY <1>1, <1>2, <1>7, <1>8 DEF TokenInv

(* The answer to a request, or the first line of it. *)
LEMMA AnswersKeep ==
    ASSUME IInv, NoSpeech \/ ClassicReply \/ FirstEvent \/ VisionReply
    PROVE  IInv'
<1>1. TurnsInv /\ LinesInv /\ RobotInv /\ HeldInv /\ StreamInv /\ ReplyInv /\ TokenInv
  BY DEF IInv
<1>2. /\ Reads /\ UNCHANGED grant /\ UNCHANGED <<streaming, current, playback, heard>>
  BY <1>1 DEF NoSpeech, ClassicReply, FirstEvent, VisionReply, RobotInv, RobotTypes, Control, Reads
<1>3. /\ TurnsInv' /\ LinesInv' /\ turn' = turn
      /\ Head(wire[current]) \in EventSet /\ HonestLine(Head(wire[current]), turn[current])
      /\ wire[current] # <<>> /\ turn[current].connected
      /\ wire'[current] = Tail(wire[current])
      /\ \A t \in Turns :
            turn'[t].consumed => turn'[t].token \in Tokens /\ grant'[turn'[t].token] = "spent"
  BY <1>2, ReadKeeps
<1>4. current \in Turns /\ current # None /\ playback = FreshPlayback
  BY <1>1, <1>2 DEF Reads, NoSpeech, ClassicReply, FirstEvent, VisionReply, RobotInv, Control,
                    Turns, None
<1>5. PICK e \in EventSet : e = Head(wire[current]) /\ NextLine(current) = e
  BY <1>3 DEF NextLine
<1>6. streaming /\ state = "THINKING" =>
        /\ e.type \in {"no_speech", "failed", "text_heard"}
        /\ e.type = "text_heard" => Spoken(FreshValidation, Tail(wire[current]), turn[current])
  BY <1>1, <1>3, <1>4, <1>5, FirstLine DEF StreamInv
<1>7. \/ state' = "IDLE" /\ state = "THINKING" /\ ctx' = ctx
      \/ state' = "SPEAKING" /\ ~ streaming
      \/ state' = "SPEAKING" /\ streaming /\ state = "THINKING" /\ e.type = "text_heard" /\ ctx' = ctx
  <2>1. CASE NoSpeech
    BY <2>1 DEF NoSpeech, GoTo
  <2>2. CASE ClassicReply
    <3>1. state = "THINKING" /\ e.type = "reply" /\ state' = "SPEAKING"
      BY <1>5, <2>2 DEF ClassicReply, GoTo
    <3>2. streaming => e.type # "reply"
      BY <1>6, <3>1
    <3>3. ~ streaming
      BY <3>1, <3>2
    <3> QED
      BY <3>1, <3>3
  <2>3. CASE FirstEvent
    BY <1>5, <2>3 DEF FirstEvent, GoTo
  <2>4. CASE VisionReply
    BY <1>1, <2>4 DEF VisionReply, GoTo, RobotInv, Control
  <2> QED
    BY <2>1, <2>2, <2>3, <2>4
<1>8. /\ ctx' \in Contexts /\ ctx'.short_reply = ctx.short_reply
      /\ ctx'.short_reply_next = ctx.short_reply_next
  <2>1. e.vision_requested \in BOOLEAN /\ ctx \in Contexts /\ None \in Tokens \cup {None}
    BY <1>1 DEF EventSet, RobotInv, RobotTypes
  <2>2. \/ ctx' = ctx \/ ctx' = [ctx EXCEPT !.look = e.vision_requested]
        \/ ctx' = [ctx EXCEPT
                     !.identity_token = IF e.authentication_consumed THEN None ELSE @,
                     !.look = e.vision_requested]
    BY <1>5 DEF NoSpeech, ClassicReply, FirstEvent, VisionReply
  <2>3. CASE ctx' = ctx
    BY <2>1, <2>3
  <2>4. CASE ctx' = [ctx EXCEPT !.look = e.vision_requested]
    BY <2>1, <2>4 DEF Contexts
  <2>5. CASE ctx' = [ctx EXCEPT
                     !.identity_token = IF e.authentication_consumed THEN None ELSE @,
                     !.look = e.vision_requested]
    BY <2>1, <2>5 DEF Contexts
  <2> QED
    BY <2>2, <2>3, <2>4, <2>5
<1>9. RobotTypes'
  BY <1>1, <1>2, <1>7, <1>8 DEF RobotInv, RobotTypes, RobotStates
<1>10. Control'
  BY <1>1, <1>2, <1>3, <1>4, <1>7 DEF RobotInv, Control
<1>11. HeldInv'
  BY <1>1, <1>2, <1>3 DEF HeldInv
<1>12. StreamInv'
  <2>1. Producing' => Spoken(playback'.validation, wire'[current], turn'[current])
    BY <1>2, <1>3, <1>4, <1>6, <1>7, FreshHeld DEF Producing
  <2> QED
    BY <1>1, <1>2, <1>7, <2>1 DEF StreamInv, StreamIsAccepted
<1>13. ReplyInv'
  <2>1. playback'.producer # "finished"
    BY <1>2, <1>4, FreshHeld
  <2>2. ~ streaming => ~ ctx.short_reply_next
    BY <1>1 DEF ReplyInv
  <2>3. streaming => ~ ctx.short_reply_next
    BY <1>1, <1>7 DEF ReplyInv
  <2>4. ReplyModeAnswersAQuestion'
    BY <1>1, <1>2, <1>3 DEF ReplyInv, ReplyModeAnswersAQuestion
  <2> QED
    BY <1>1, <1>2, <1>3, <1>7, <1>8, <2>1, <2>2, <2>3, <2>4 DEF ReplyInv
<1>14. TokenInv'
  <2>1. state' # "THINKING"
    BY <1>7
  <2>2. Producing' => state = "THINKING" /\ ctx' = ctx
    BY <1>2, <1>7 DEF Producing
  <2> QED
    BY <1>1, <1>2, <1>3, <1>4, <2>1, <2>2 DEF TokenInv
<1> QED
  BY <1>3, <1>9, <1>10, <1>11, <1>12, <1>13, <1>14 DEF IInv, RobotInv

(* A response is closed. *)
LEMMA CloseKeeps ==
    ASSUME IInv, Closes, turn[current].at # "unused",
           \/ UNCHANGED grant
           \/ \E k \in Tokens : grant[k] = "unissued" /\ grant' = [grant EXCEPT ![k] = "live"]
    PROVE  /\ TurnsInv' /\ LinesInv' /\ ~ turn'[current].connected
           /\ \A s \in Turns :
                 /\ turn'[s].at = turn[s].at /\ turn'[s].route = turn[s].route
                 /\ turn'[s].token = turn[s].token /\ turn'[s].short = turn[s].short
                 /\ turn'[s].view = turn[s].view /\ turn'[s].consumed = turn[s].consumed
                 /\ turn'[s].asks = turn[s].asks /\ turn'[s].offer = turn[s].offer
                 /\ turn'[s].outcome = turn[s].outcome
           /\ \A t \in Turns :
                 turn'[t].consumed => turn'[t].token \in Tokens /\ grant'[turn'[t].token] = "spent"
<1>1. TurnsInv /\ LinesInv /\ TokenInv /\ current \in Turns
  BY DEF IInv, Closes
<1>2. /\ grant' \in [Tokens -> {"unissued", "live", "spent", "expired"}]
      /\ \A k \in Tokens : grant[k] = "spent" => grant'[k] = "spent"
  BY <1>1 DEF TurnsInv
<1>3. /\ TurnsInv' /\ wire'[current] = <<>>
      /\ \A s \in Turns : s # current => turn'[s] = turn[s] /\ wire'[s] = wire[s]
      /\ \A s \in Turns :
            /\ turn'[s].at = turn[s].at /\ turn'[s].route = turn[s].route
            /\ turn'[s].token = turn[s].token /\ turn'[s].short = turn[s].short
            /\ turn'[s].view = turn[s].view /\ turn'[s].consumed = turn[s].consumed
            /\ turn'[s].asks = turn[s].asks /\ turn'[s].offer = turn[s].offer
            /\ turn'[s].outcome = turn[s].outcome
      /\ ~ turn'[current].connected
  BY <1>1, <1>2, CloseEffect
<1>4. LinesInv'
  <2>1. \A s \in Turns : \A i \in 1 .. Len(wire'[s]) : HonestLine(wire'[s][i], turn'[s])
    BY <1>1, <1>3, NoLines DEF LinesInv
  <2>2. \A s \in Turns :
          ~ turn'[s].connected \/ turn'[s].at \in {"unused", "received"} => wire'[s] = <<>>
    BY <1>1, <1>3 DEF LinesInv
  <2> QED
    BY <2>1, <2>2 DEF LinesInv
<1>5. \A t \in Turns :
        turn'[t].consumed => turn'[t].token \in Tokens /\ grant'[turn'[t].token] = "spent"
  BY <1>1, <1>2, <1>3 DEF TokenInv
<1> QED
  BY <1>3, <1>4, <1>5

(* What the rest of the robot needs of a response that is closed. *)
LEMMA ClosedKeeps ==
    ASSUME IInv, Closes, turn[current].at # "unused", UNCHANGED <<grant, streaming, heard>>,
           current' = current, ctx' = ctx, playback' \in Playbacks,
           HonestLine(playback'.validation.terminal, turn[current]),
           state' \in RobotStates \ {"LISTENING"}, streaming => state' # "LOOKING",
           state' # "SPEAKING" \/ ~ streaming => playback' = FreshPlayback,
           playback'.producer # "rejected",
           state' \in {"IDLE", "THINKING"} => ~ ctx.short_reply_next,
           state' = "THINKING" => state = "THINKING",
           state' = "SPEAKING" => state = "SPEAKING",
           Producing' => Producing,
           playback'.producer = "finished" => playback.producer = "finished",
           state' = "SPEAKING" /\ streaming /\ playback.producer = "finished" =>
              playback'.producer = "finished"
    PROVE  IInv'
<1>1. TurnsInv /\ LinesInv /\ RobotInv /\ HeldInv /\ StreamInv /\ ReplyInv /\ TokenInv
  BY DEF IInv
<1>2. /\ TurnsInv' /\ LinesInv' /\ ~ turn'[current].connected
      /\ \A s \in Turns :
            /\ turn'[s].at = turn[s].at /\ turn'[s].route = turn[s].route
            /\ turn'[s].token = turn[s].token /\ turn'[s].short = turn[s].short
            /\ turn'[s].view = turn[s].view /\ turn'[s].consumed = turn[s].consumed
            /\ turn'[s].asks = turn[s].asks /\ turn'[s].offer = turn[s].offer
            /\ turn'[s].outcome = turn[s].outcome
      /\ \A t \in Turns :
            turn'[t].consumed => turn'[t].token \in Tokens /\ grant'[turn'[t].token] = "spent"
  BY CloseKeeps
<1>3. current \in Turns /\ current # None
  BY DEF Closes, Turns, None
<1>4. heard \subseteq Turns
  BY <1>1 DEF RobotInv, RobotTypes
<1>5. RobotTypes'
  BY <1>1 DEF RobotInv, RobotTypes
<1>6. Control'
  <2>1. \A s \in Turns : \A u \in 1 .. s : u \in Turns
    BY VoiceServerAssumption DEF Turns
  <2>2. \A s \in Turns : turn'[s].at # "unused" => \A u \in 1 .. s : turn'[u].at # "unused"
    BY <1>1, <1>2, <2>1 DEF RobotInv, Control
  <2>3. /\ turn'[current].at # "unused"
        /\ \A s \in Turns : s > current => turn'[s].at = "unused"
        /\ streaming => turn'[current].route = "stream"
    BY <1>1, <1>2, <1>3 DEF RobotInv, Control
  <2> QED
    BY <1>3, <2>2, <2>3 DEF Control
<1>7. HeldInv'
  BY <1>2, <1>3 DEF HeldInv, HonestLine
<1>8. StreamInv'
  BY <1>2 DEF StreamInv, StreamIsAccepted
<1>9. ReplyInv'
  <2>1. ReplyModeAnswersAQuestion'
    BY <1>1, <1>2, <1>4 DEF ReplyInv, ReplyModeAnswersAQuestion
  <2>2. streaming => \A t \in heard : turn'[t].at = "ended"
    BY <1>1, <1>2, <1>4 DEF ReplyInv
  <2>3. ~ streaming => ~ ctx.short_reply /\ ~ ctx.short_reply_next /\ \A t \in Turns : ~ turn'[t].short
    BY <1>1, <1>2 DEF ReplyInv
  <2>4. /\ state' = "SPEAKING" /\ streaming /\ ctx.short_reply_next =>
              playback'.producer = "finished" /\ turn'[current].asks
        /\ state' = "SPEAKING" /\ streaming /\ playback'.producer = "finished" =>
              turn'[current].at = "ended"
    BY <1>1, <1>2, <1>3 DEF ReplyInv
  <2> QED
    BY <1>3, <2>1, <2>2, <2>3, <2>4 DEF ReplyInv
<1>10. TokenInv'
  <2>1. (state' = "THINKING" \/ Producing') => turn'[current].token \in {None, ctx.identity_token}
    BY <1>1, <1>2, <1>3 DEF TokenInv
  <2> QED
    BY <1>2, <2>1 DEF TokenInv
<1> QED
  BY <1>2, <1>5, <1>6, <1>7, <1>8, <1>9, <1>10 DEF IInv, RobotInv

LEMMA FailuresKeep ==
    ASSUME IInv, RequestFails \/ VisionFails \/ ConnectionFails
    PROVE  IInv'
<1>1. TurnsInv /\ LinesInv /\ RobotInv /\ HeldInv /\ StreamInv /\ ReplyInv /\ TokenInv
  BY DEF IInv
<1>2. /\ current # None /\ current \in Turns /\ turn[current].at # "unused" /\ Close(current)
      /\ UNCHANGED <<grant, streaming, ctx, current, playback, heard>>
  BY <1>1 DEF RequestFails, VisionFails, ConnectionFails, robotVars, RobotInv, RobotTypes, Control
<1>3. /\ playback \in Playbacks /\ HonestLine(playback.validation.terminal, turn[current])
      /\ playback.producer # "rejected"
  BY <1>1, <1>2 DEF RobotInv, RobotTypes, HeldInv, StreamInv, StreamIsAccepted
<1>4. \/ state' = "ERROR" /\ state = "THINKING"
      \/ state' = "IDLE" /\ ~ streaming
      \/ state' = state /\ state \in {"THINKING", "SPEAKING", "LOOKING"}
  BY <1>1 DEF RequestFails, VisionFails, ConnectionFails, robotVars, GoTo, RobotInv, Control
<1>5. /\ state' \in RobotStates \ {"LISTENING"} /\ (streaming => state' # "LOOKING")
      /\ state' # "SPEAKING" \/ ~ streaming => playback = FreshPlayback
  BY <1>1, <1>4 DEF RobotInv, Control, RobotStates
<1>6. state' \in {"IDLE", "THINKING"} => ~ ctx.short_reply_next
  BY <1>1, <1>4 DEF ReplyInv
<1>7. Closes
  BY <1>2 DEF Closes
<1>8. Producing' => Producing
  BY <1>2, <1>4 DEF Producing
<1>9. /\ state' = "THINKING" => state = "THINKING"
      /\ state' = "SPEAKING" => state = "SPEAKING"
  BY <1>4
<1> QED
  BY <1>2, <1>3, <1>5, <1>6, <1>7, <1>8, <1>9, ClosedKeeps

LEMMA ClipFailsKeeps ==
    ASSUME IInv, ClipFails
    PROVE  IInv'
<1>1. TurnsInv /\ LinesInv /\ RobotInv /\ HeldInv /\ StreamInv /\ ReplyInv /\ TokenInv
  BY DEF IInv
<1>2. /\ current # None /\ current \in Turns /\ turn[current].at # "unused" /\ state = "SPEAKING"
      /\ UNCHANGED <<session, grant, streaming, ctx, current, heard>> /\ state' = "ERROR"
      /\ playback' = FreshPlayback /\ streaming
  BY <1>1 DEF ClipFails, GoTo, RobotInv, RobotTypes, Control
<1>3. \A r : FreshPlayback \in Playbacks /\ HonestLine(FreshPlayback.validation.terminal, r)
           /\ FreshPlayback.producer = "running" /\ FreshPlayback.queued = 0
  BY FreshHeld
<1>4. CASE Close(current)
  <2>1. Closes
    BY <1>2, <1>4 DEF Closes
  <2>2. ~ Producing'
    BY <1>2 DEF Producing
  <2> QED
    BY <1>2, <1>3, <2>1, <2>2, ClosedKeeps DEF RobotStates
<1>5. CASE UNCHANGED <<turn, wire>>
  <2>1. UNCHANGED serverVars /\ UNCHANGED <<turn, wire, grant>>
    BY <1>2, <1>5 DEF serverVars
  <2>2. /\ TurnsInv' /\ LinesInv' /\ ReplyModeAnswersAQuestion'
        /\ \A t \in Turns :
              turn'[t].consumed => turn'[t].token \in Tokens /\ grant'[turn'[t].token] = "spent"
    BY <1>2, <2>1, Untouched
  <2>3. RobotTypes'
    BY <1>1, <1>2, <1>3 DEF RobotInv, RobotTypes, RobotStates
  <2>4. Control'
    BY <1>1, <1>2, <2>1 DEF RobotInv, Control
  <2>5. HeldInv' /\ StreamInv' /\ TokenInv'
    BY <1>2, <1>3, <2>2 DEF HeldInv, StreamInv, StreamIsAccepted, TokenInv, Producing
  <2>6. ReplyInv'
    BY <1>1, <1>2, <2>1, <2>2 DEF ReplyInv
  <2> QED
    BY <2>2, <2>3, <2>4, <2>5, <2>6 DEF IInv, RobotInv
<1> QED
  BY <1>4, <1>5 DEF ClipFails

(* One more line of a stream. *)
LEMMA ProduceKeeps ==
    ASSUME IInv, Produce
    PROVE  IInv'
<1>1. TurnsInv /\ LinesInv /\ RobotInv /\ HeldInv /\ StreamInv /\ ReplyInv /\ TokenInv
  BY DEF IInv
<1>2. /\ current # None /\ current \in Turns /\ Producing /\ Readable(current)
      /\ UNCHANGED <<session, grant, streaming, state, ctx, current, heard>>
  BY <1>1 DEF Produce, Producing, RobotInv, RobotTypes, Control
<1>3. PICK v : v = playback.validation
  OBVIOUS
<1>4. PICK e : e = Head(wire[current]) /\ NextLine(current) = e
  BY DEF NextLine
<1>5. /\ Spoken(v, wire[current], turn[current]) /\ wire[current] # <<>> /\ turn[current].connected
      /\ IsTurn(turn[current]) /\ streaming /\ state = "SPEAKING" /\ playback.producer = "running"
  BY <1>1, <1>2, <1>3 DEF StreamInv, Readable, TurnsInv, Producing
<1>6. Accepts(v, e) /\ Spoken(Accepted(v, e), Tail(wire[current]), turn[current])
  BY <1>4, <1>5, NextAccepted
<1>7. /\ Read(current) /\ UNCHANGED turn
      /\ playback' = [playback EXCEPT
                        !.validation = Accepted(v, e),
                        !.queued = IF e.type = "audio" THEN @ + 1 ELSE @]
  BY <1>3, <1>4, <1>6 DEF Produce
<1>8. Reads
  BY <1>2, <1>7 DEF Reads
<1>9. /\ TurnsInv' /\ LinesInv' /\ turn' = turn
      /\ e \in EventSet /\ HonestLine(e, turn[current])
      /\ wire'[current] = Tail(wire[current])
      /\ \A t \in Turns :
            turn'[t].consumed => turn'[t].token \in Tokens /\ grant'[turn'[t].token] = "spent"
  BY <1>2, <1>4, <1>8, ReadKeeps
<1>10. playback \in Playbacks /\ v \in ValidationSet /\ HonestLine(v.terminal, turn[current])
  BY <1>1, <1>2, <1>3 DEF RobotInv, RobotTypes, Playbacks, HeldInv
<1>11. Accepted(v, e) \in ValidationSet /\ HonestLine(Accepted(v, e).terminal, turn[current])
  BY <1>9, <1>10 DEF Accepted, ValidationSet
<1>12. /\ playback' \in Playbacks /\ playback'.validation = Accepted(v, e)
       /\ playback'.producer = playback.producer
  <2>1. PICK n \in Nat : n = IF e.type = "audio" THEN playback.queued + 1 ELSE playback.queued
    BY <1>10 DEF Playbacks
  <2>2. playback' = [playback EXCEPT !.validation = Accepted(v, e), !.queued = n]
    BY <1>7, <2>1
  <2> QED
    BY <1>10, <1>11, <2>2 DEF Playbacks
<1>13. RobotTypes'
  BY <1>1, <1>2, <1>12 DEF RobotInv, RobotTypes
<1>14. Control'
  BY <1>1, <1>2, <1>5, <1>9 DEF RobotInv, Control
<1>15. HeldInv'
  BY <1>2, <1>9, <1>11, <1>12 DEF HeldInv
<1>16. StreamInv'
  BY <1>2, <1>5, <1>6, <1>9, <1>12 DEF StreamInv, StreamIsAccepted
<1>17. ReplyInv'
  BY <1>1, <1>2, <1>5, <1>9, <1>12 DEF ReplyInv, ReplyModeAnswersAQuestion
<1>18. TokenInv'
  BY <1>1, <1>2, <1>5, <1>9 DEF TokenInv
<1> QED
  BY <1>9, <1>13, <1>14, <1>15, <1>16, <1>17, <1>18 DEF IInv, RobotInv

(* The robot is restarted with a new grant. *)
LEMMA RestartKeeps ==
    ASSUME IInv, Restart
    PROVE  IInv'
<1>1. TurnsInv /\ LinesInv /\ RobotInv /\ HeldInv /\ StreamInv /\ ReplyInv /\ TokenInv
  BY DEF IInv
<1>2. PICK k \in Tokens :
        /\ grant[k] = "unissued" /\ grant' = [grant EXCEPT ![k] = "live"]
        /\ ctx' = NewContext(k) /\ state' = "IDLE"
        /\ IF current # None THEN Close(current) ELSE UNCHANGED <<turn, wire>>
        /\ current' = None /\ playback' = FreshPlayback
        /\ UNCHANGED <<session, streaming, heard>>
  BY DEF Restart, GoTo
<1>3. /\ TurnsInv' /\ LinesInv'
      /\ \A s \in Turns :
            /\ turn'[s].at = turn[s].at /\ turn'[s].short = turn[s].short
            /\ turn'[s].asks = turn[s].asks
      /\ \A t \in Turns :
            turn'[t].consumed => turn'[t].token \in Tokens /\ grant'[turn'[t].token] = "spent"
  <2>1. CASE current # None
    <3>1. Closes /\ turn[current].at # "unused"
      BY <1>1, <1>2, <2>1 DEF Closes, RobotInv, RobotTypes, Control
    <3> QED
      BY <1>2, <3>1, CloseKeeps
  <2>2. CASE current = None
    <3>1. turn' = turn /\ wire' = wire
      BY <1>2, <2>2
    <3>2. /\ grant' \in [Tokens -> {"unissued", "live", "spent", "expired"}]
          /\ \A j \in Tokens : grant[j] = "spent" => grant'[j] = "spent"
      BY <1>1, <1>2 DEF TurnsInv
    <3>3. TurnsInv' /\ LinesInv'
      BY <1>1, <3>1, <3>2 DEF TurnsInv, LinesInv
    <3> QED
      BY <1>1, <3>1, <3>2, <3>3 DEF TokenInv
  <2> QED
    BY <2>1, <2>2
<1>4. ctx' \in Contexts /\ ~ ctx'.short_reply /\ ~ ctx'.short_reply_next
  BY <1>2 DEF NewContext, Contexts
<1>5. FreshPlayback \in Playbacks /\ FreshPlayback.producer = "running"
  BY FreshHeld
<1>6. RobotTypes'
  BY <1>1, <1>2, <1>4, <1>5 DEF RobotInv, RobotTypes, RobotStates
<1>7. Control'
  <2>1. \A s \in Turns : \A u \in 1 .. s : u \in Turns
    BY VoiceServerAssumption DEF Turns
  <2>2. \A s \in Turns : turn'[s].at # "unused" => \A u \in 1 .. s : turn'[u].at # "unused"
    BY <1>1, <1>3, <2>1 DEF RobotInv, Control
  <2> QED
    BY <1>2, <2>2 DEF Control
<1>8. HeldInv' /\ StreamInv'
  BY <1>2, <1>5 DEF HeldInv, StreamInv, StreamIsAccepted
<1>9. ReplyInv'
  <2>1. heard \subseteq Turns
    BY <1>1 DEF RobotInv, RobotTypes
  <2>2. ReplyModeAnswersAQuestion'
    BY <1>1, <1>2, <1>3, <2>1 DEF ReplyInv, ReplyModeAnswersAQuestion
  <2> QED
    BY <1>1, <1>2, <1>3, <1>4, <2>1, <2>2 DEF ReplyInv
<1>10. TokenInv'
  BY <1>2, <1>3 DEF TokenInv
<1> QED
  BY <1>3, <1>6, <1>7, <1>8, <1>9, <1>10 DEF IInv, RobotInv

(* A grant expires, the session falls silent, or nothing happens. *)
LEMMA WaitingKeeps ==
    ASSUME IInv, UNCHANGED <<turn, wire, robotVars>>,
           \/ UNCHANGED grant
           \/ \E k \in Tokens : grant[k] = "live" /\ grant' = [grant EXCEPT ![k] = "expired"]
    PROVE  IInv'
<1>1. TurnsInv /\ LinesInv /\ RobotInv /\ HeldInv /\ StreamInv /\ ReplyInv /\ TokenInv
  BY DEF IInv
<1>2. UNCHANGED <<streaming, state, ctx, current, playback, heard>> /\ turn' = turn /\ wire' = wire
  BY DEF robotVars
<1>3. /\ grant' \in [Tokens -> {"unissued", "live", "spent", "expired"}]
      /\ \A j \in Tokens : grant[j] = "spent" => grant'[j] = "spent"
  BY <1>1 DEF TurnsInv
<1>4. TurnsInv' /\ LinesInv' /\ HeldInv'
  BY <1>1, <1>2, <1>3 DEF TurnsInv, LinesInv, HeldInv
<1>5. RobotInv'
  BY <1>1, <1>2 DEF RobotInv, RobotTypes, Control
<1>6. StreamInv' /\ ReplyInv'
  BY <1>1, <1>2 DEF StreamInv, StreamIsAccepted, Producing, ReplyInv, ReplyModeAnswersAQuestion,
                    Answerable
<1>7. TokenInv'
  BY <1>1, <1>2, <1>3 DEF TokenInv, Producing
<1> QED
  BY <1>4, <1>5, <1>6, <1>7 DEF IInv

-----------------------------------------------------------------------------
(* The theorems.                                                           *)

LEMMA Initially == Init => IInv
<1> SUFFICES ASSUME Init PROVE IInv
  OBVIOUS
<1>1. PICK k \in {None} \cup (Tokens \cap {1}) :
        /\ ctx = NewContext(k)
        /\ grant = [i \in Tokens |-> IF i = k THEN "live" ELSE "unissued"]
  BY DEF Init
<1>2. /\ turn = [t \in Turns |-> NoTurn] /\ wire = [t \in Turns |-> <<>>]
      /\ streaming \in BOOLEAN /\ state = "IDLE" /\ current = None
      /\ playback = FreshPlayback /\ heard = {}
  BY VoiceTurnAssumption DEF Init, ServerInit
<1>3. IsTurn(NoTurn) /\ InPhase(NoTurn)
  <2>1. IsTurn(NoTurn)
    BY DEF NoTurn, IsTurn, Places, Routes, Offers
  <2> QED
    BY <2>1 DEF NoTurn, InPhase
<1>4. TurnsInv
  BY <1>1, <1>2, <1>3 DEF TurnsInv
<1>5. RobotInv
  <2>1. RobotTypes
    BY <1>1, <1>2, FreshHeld DEF RobotTypes, RobotStates, NewContext, Contexts
  <2>2. \A t \in Turns : turn[t].at = "unused"
    BY <1>2 DEF NoTurn
  <2> QED
    BY <1>2, <2>1, <2>2 DEF RobotInv, Control
<1>6. LinesInv /\ HeldInv
  BY <1>2, NoLines DEF LinesInv, HeldInv
<1>7. StreamInv
  BY <1>2, FreshHeld DEF StreamInv, StreamIsAccepted
<1>8. \A t \in Turns : ~ turn[t].short /\ ~ turn[t].consumed
  BY <1>2 DEF NoTurn
<1>9. ReplyInv
  BY <1>1, <1>2, <1>8 DEF ReplyInv, ReplyModeAnswersAQuestion, NewContext
<1>10. TokenInv
  BY <1>2, <1>8 DEF TokenInv
<1> QED
  BY <1>4, <1>5, <1>6, <1>7, <1>9, <1>10 DEF IInv

(* The steps there are. *)
LEMMA Steps ==
    ASSUME IInv, [Next]_vars
    PROVE  \/ \E t \in Turns : ServerMove(t) /\ UNCHANGED robotVars
           \/ Robot \/ ConnectionFails \/ Restart
           \/ \E k \in Tokens : Expire(k) /\ UNCHANGED robotVars
           \/ Quiet /\ UNCHANGED robotVars
           \/ UNCHANGED vars
<1>1. ASSUME NEW t \in Turns, Server(t) \/ Offer(t) \/ (HangUp(t) /\ UNCHANGED robotVars)
      PROVE  ServerMove(t) /\ UNCHANGED robotVars
  BY <1>1, ServerMoves DEF IInv, Server, Offer
<1> QED
  BY <1>1 DEF Next

LEMMA Preserved == IInv /\ [Next]_vars => IInv'
<1> SUFFICES ASSUME IInv, [Next]_vars PROVE IInv'
  OBVIOUS
<1>1. CASE \E t \in Turns : ServerMove(t) /\ UNCHANGED robotVars
  BY <1>1, ServerKeeps
<1>2. CASE Robot
  BY <1>2, ListeningKeeps, PlayingKeeps, EndOfStreamKeeps, DrainedKeeps, AskingKeeps, AnswersKeep,
     FailuresKeep, ClipFailsKeeps, ProduceKeeps DEF Robot
<1>3. CASE ConnectionFails
  BY <1>3, FailuresKeep
<1>4. CASE Restart
  BY <1>4, RestartKeeps
<1>5. CASE \E k \in Tokens : Expire(k) /\ UNCHANGED robotVars
  BY <1>5, WaitingKeeps DEF Expire
<1>6. CASE Quiet /\ UNCHANGED robotVars
  BY <1>6, WaitingKeeps DEF Quiet
<1>7. CASE UNCHANGED vars
  BY <1>7, WaitingKeeps DEF vars, serverVars
<1> QED
  BY <1>1, <1>2, <1>3, <1>4, <1>5, <1>6, <1>7, Steps

(* Everything above holds of every state of a voice turn. *)
THEOREM VoiceInvariant == Spec => []IInv
BY Initially, Preserved, PTL DEF Spec

(* On a connection that does not fail the robot never rejects what the server sent: *)
(* stream_pipeline and its fallbacks keep the order that stream_validation enforces. *)
THEOREM StreamsAreAccepted == Spec => []StreamIsAccepted
<1>1. IInv => StreamIsAccepted
  BY DEF IInv, StreamInv
<1> QED
  BY <1>1, VoiceInvariant, PTL

(* A clip is sent in reply mode only right after a question that was played to the end. *)
THEOREM ReplyModeOnlyAnswers == Spec => []ReplyModeAnswersAQuestion
<1>1. IInv => ReplyModeAnswersAQuestion
  BY DEF IInv, ReplyInv
<1> QED
  BY <1>1, VoiceInvariant, PTL

(* What the robot's own steps leave of the requests. *)
LEMMA RobotTurns ==
    ASSUME IInv, Robot \/ ConnectionFails \/ Restart
    PROVE  /\ session' = session
           /\ \A t \in Turns : /\ turn'[t].view = turn[t].view
                               /\ turn'[t].at \in {turn[t].at, "received"}
<1>1. TurnsInv /\ RobotInv
  BY DEF IInv
<1>2. Keeps \/ Reads \/ Closes \/ Asks
  BY <1>1, RobotShape, RestartShape, FailureShape
<1>3. session' = session
  BY <1>1, RobotShape DEF ConnectionFails, Restart
<1>4. CASE Keeps \/ Reads
  BY <1>3, <1>4 DEF Keeps, Reads
<1>5. CASE Closes
  <2>1. DOMAIN turn = Turns /\ \A t \in Turns : IsTurn(turn[t])
    BY <1>1 DEF TurnsInv
  <2>2. turn' = [turn EXCEPT ![current].connected = FALSE]
    BY <1>5 DEF Closes, Close
  <2>3. ASSUME NEW t \in Turns PROVE turn'[t].view = turn[t].view /\ turn'[t].at = turn[t].at
    BY <2>1, <2>2 DEF IsTurn
  <2> QED
    BY <1>3, <2>3
<1>6. CASE Asks
  <2>1. PICK t \in Turns, route \in Routes, token \in Tokens \cup {None}, short \in BOOLEAN :
          turn[t].at = "unused" /\ turn' = [turn EXCEPT ![t] = Asked(route, token, short)]
    BY <1>6 DEF Asks
  <2>2. PICK q : q = Asked(route, token, short)
    OBVIOUS
  <2>3. q.at = "received" /\ q.view = NoView
    BY <2>2, AskedIsTurn
  <2>4. turn[t].view = NoView /\ DOMAIN turn = Turns
    BY <1>1, <2>1 DEF TurnsInv, InPhase
  <2>5. \A s \in Turns : turn'[s] = IF s = t THEN q ELSE turn[s]
    BY <2>1, <2>2, <2>4
  <2> QED
    BY <1>3, <2>3, <2>4, <2>5
<1> QED
  BY <1>2, <1>3, <1>4, <1>5, <1>6

(* Most steps of the server leave the request open. *)
LEMMA StaysOpen ==
    ASSUME TurnsInv, NEW t \in Turns, turn[t].at # "ended",
           \/ AskToRepeat(t) \/ DecidePlan(t) \/ OpenTurn(t) \/ PlanOpens(t) \/ StartReply(t)
           \/ PromoteEmotion(t) \/ SpeakSentence(t) \/ EndOfModel(t) \/ InvalidReply(t)
           \/ ModelFails(t) \/ EmitFallback(t) \/ SpeechFails(t) \/ Generate(t) \/ Record(t)
           \/ CommitOffer(t) \/ CancelOffer(t) \/ PrepareOffer(t)
    PROVE  turn'[t].at # "ended"
<1>1. PICK r : r = turn[t] /\ IsTurn(r) /\ DOMAIN turn = Turns
  BY DEF TurnsInv
<1>2. CASE AskToRepeat(t) \/ DecidePlan(t)
  <2>1. PICK again : Planned(t, [r EXCEPT !.asks = again])
    BY <1>1, <1>2 DEF AskToRepeat, DecidePlan
  <2>2. PICK q : q = [r EXCEPT !.asks = again,
                               !.at = IF On(t, "stream") THEN "planned" ELSE "closing"]
    OBVIOUS
  <2>3. turn'[t] = q /\ q.at # "ended"
    BY <1>1, <2>1, <2>2 DEF Planned, Step, IsTurn
  <2> QED
    BY <2>3
<1>3. CASE OpenTurn(t)
  <2>1. PICK face, view : Step(t, [r EXCEPT !.at = "opened", !.face = face, !.view = view])
    BY <1>1, <1>3 DEF OpenTurn
  <2> QED
    BY <1>1, <2>1 DEF Step, IsTurn
<1>4. CASE PlanOpens(t) \/ StartReply(t)
  BY <1>1, <1>4 DEF PlanOpens, StartReply, Step, IsTurn
<1>5. CASE PromoteEmotion(t) \/ SpeakSentence(t) \/ EmitFallback(t)
  BY <1>1, <1>5 DEF PromoteEmotion, SpeakSentence, EmitFallback, Step, IsTurn
<1>6. CASE EndOfModel(t) \/ InvalidReply(t) \/ ModelFails(t) \/ Generate(t)
  BY <1>1, <1>6 DEF EndOfModel, InvalidReply, ModelFails, Generate, Step, IsTurn
<1>7. CASE SpeechFails(t)
  <2>1. PICK offer : Step(t, [r EXCEPT !.at = "abort", !.outcome = "tts_error",
                                       !.emotion = TRUE, !.offer = offer])
    BY <1>1, <1>7 DEF SpeechFails
  <2> QED
    BY <1>1, <2>1 DEF Step, IsTurn
<1>8. CASE Record(t)
  <2>1. PICK captured, proposed :
            Step(t, [r EXCEPT !.at = "offer", !.captured = captured, !.proposed = proposed])
    BY <1>1, <1>8 DEF Record
  <2> QED
    BY <1>1, <2>1 DEF Step, IsTurn
<1>9. CASE CommitOffer(t)
  <2>1. PICK o : Step(t, [r EXCEPT !.at = "closing", !.offer = o])
    BY <1>1, <1>9 DEF CommitOffer
  <2> QED
    BY <1>1, <2>1 DEF Step, IsTurn
<1>10. CASE CancelOffer(t)
  BY <1>1, <1>10 DEF CancelOffer, Step, IsTurn
<1>11. CASE PrepareOffer(t)
  <2>1. PICK o : Step(t, [r EXCEPT !.offer = o])
    BY <1>1, <1>11 DEF PrepareOffer
  <2> QED
    BY <1>1, <2>1 DEF Step, IsTurn
<1> QED
  BY <1>2, <1>3, <1>4, <1>5, <1>6, <1>7, <1>8, <1>9, <1>10, <1>11

(* What the end of a request that is still connected may leave of its preparation. *)
LEMMA WhatAnEndLeaves ==
    ASSUME TurnsInv, NEW t \in Turns, turn[t].connected, turn[t].at # "ended",
           turn'[t].at = "ended", turn'[t].offer \in {"preparing", "cancelling"},
           ServerStep(t) \/ PrepareOffer(t) \/ HangUp(t)
    PROVE  RescueFails(t) \/ Unexpected(t)
<1>1. PICK r : r = turn[t] /\ IsTurn(r) /\ InPhase(r) /\ DOMAIN turn = Turns
  BY DEF TurnsInv
<1>2. ASSUME NEW s, Step(t, Ended(s)), IsTurn(s), s.offer = r.offer
      PROVE  r.offer \in {"preparing", "cancelling"}
  <2>1. Ended(s).offer = Dropped(r.offer)
    BY <1>2, EndedTurn
  <2>2. turn'[t] = Ended(s)
    BY <1>1, <1>2 DEF Step
  <2> QED
    BY <2>1, <2>2 DEF Dropped
<1>3. r.offer \in {"preparing", "cancelling"}
        => r.at \notin {"unused", "received", "planned", "plan_speaks", "opened", "closing"}
  BY <1>1 DEF InPhase, NoTurn
<1>4. CASE Refuse(t) \/ DecideLook(t) \/ PlanSpeaks(t) \/ CloseClassic(t)
  <2>1. Step(t, Ended(r)) /\ r.at \in {"received", "plan_speaks", "closing"}
    BY <1>1, <1>4 DEF Refuse, DecideLook, PlanSpeaks, CloseClassic, Fails, Ends, At
  <2> QED
    BY <1>1, <1>2, <1>3, <2>1
<1>5. CASE DecideProtectedRead(t)
  <2>1. r.at = "received"
    BY <1>1, <1>5 DEF DecideProtectedRead, At
  <2>2. PICK known \in BOOLEAN : \/ Planned(t, [r EXCEPT !.consumed = known])
                                 \/ Step(t, Ended([r EXCEPT !.consumed = known]))
    BY <1>1, <1>5 DEF DecideProtectedRead
  <2>3. PICK s : s = [r EXCEPT !.consumed = known]
    OBVIOUS
  <2>4. IsTurn(s) /\ s.offer = r.offer
    BY <1>1, <2>3 DEF IsTurn
  <2>5. CASE Planned(t, s)
    <3>1. PICK q : q = [s EXCEPT !.at = IF On(t, "stream") THEN "planned" ELSE "closing"]
      OBVIOUS
    <3>2. turn'[t] = q /\ q.at # "ended"
      BY <1>1, <2>4, <2>5, <3>1 DEF Planned, Step, IsTurn
    <3> QED
      BY <3>2
  <2>6. CASE Step(t, Ended(s))
    BY <1>2, <1>3, <2>1, <2>4, <2>6
  <2> QED
    BY <2>2, <2>3, <2>5, <2>6
<1>6. CASE CloseStream(t)
  <2>1. PICK offered \in BOOLEAN : Step(t, Ended([r EXCEPT !.asks = offered]))
    BY <1>1, <1>6 DEF CloseStream, Ends
  <2>2. PICK s : s = [r EXCEPT !.asks = offered]
    OBVIOUS
  <2>3. IsTurn(s) /\ s.offer = r.offer /\ r.at = "closing"
    BY <1>1, <1>6, <2>2 DEF IsTurn, CloseStream, At
  <2> QED
    BY <1>2, <1>3, <2>1, <2>2, <2>3
<1>7. CASE Abort(t)
  <2>1. Step(t, Ended(r)) /\ r.offer \notin {"preparing", "cancelling"}
    BY <1>1, <1>7 DEF Abort, Ends, At, InPhase
  <2> QED
    BY <1>1, <1>2, <2>1
<1>8. CASE HangUp(t)
  BY <1>8 DEF HangUp
<1> QED
  BY <1>4, <1>5, <1>6, <1>7, <1>8, StaysOpen DEF ServerStep, StreamPipeline, TextTurn

(* A request that is answered, or ends in the error of speech that failed, leaves no       *)
(* preparation running nor still stopping.  A TTSError inside the handler of a model       *)
(* failure, or an exception nobody foresaw, may leave one that was only asked to stop.     *)
THEOREM AnswersLeaveNothing == Spec => AnswersLeaveNothingRunning
<1> DEFINE Left(t) == /\ turn[t].connected /\ turn[t].at # "ended" /\ turn'[t].at = "ended"
                      /\ turn'[t].offer \in {"preparing", "cancelling"}
<1>1. IInv /\ [Next]_vars => [\A t \in Turns : Left(t) => RescueFails(t) \/ Unexpected(t)]_vars
  <2> SUFFICES ASSUME IInv, [Next]_vars, NEW t \in Turns, Left(t)
               PROVE  RescueFails(t) \/ Unexpected(t)
    OBVIOUS
  <2>1. TurnsInv /\ LinesInv
    BY DEF IInv
  <2>2. turn' # turn
    BY DEF Left
  <2>3. CASE Server(t) \/ Offer(t) \/ HangUp(t)
    BY <2>1, <2>3, WhatAnEndLeaves DEF Server, Offer
  <2>4. CASE \E s \in Turns : s # t /\ (Server(s) \/ Offer(s) \/ HangUp(s))
    <3>1. PICK s \in Turns : s # t /\ ServerMove(s)
      BY <2>1, <2>4, ServerMoves DEF Server, Offer
    <3>2. turn'[t] = turn[t]
      BY <2>1, <3>1, MoveEffect
    <3> QED
      BY <3>2
  <2>5. CASE Robot \/ ConnectionFails \/ Restart
    BY <2>5, RobotTurns
  <2> QED
    BY <2>2, <2>3, <2>4, <2>5 DEF Next, Expire, Quiet, vars, serverVars
<1>2. []IInv /\ [][Next]_vars => [][\A t \in Turns : Left(t) => RescueFails(t) \/ Unexpected(t)]_vars
  BY <1>1, PTL
<1> QED
  BY <1>2, VoiceInvariant, PTL DEF Spec, AnswersLeaveNothingRunning

(* The token of the robot, step by step. *)
LEMMA ForgottenWhenSpent ==
    ASSUME IInv, [Next]_vars
    PROVE  \/ ctx'.identity_token \in {ctx.identity_token} \cup {k \in Tokens : grant[k] = "unissued"}
           \/ grant[ctx.identity_token] = "spent"
<1>1. TurnsInv /\ LinesInv /\ RobotInv /\ HeldInv /\ StreamInv /\ ReplyInv /\ TokenInv
  BY DEF IInv
<1>2. ctx \in Contexts
  BY <1>1 DEF RobotInv, RobotTypes
<1>3. ASSUME ctx' = ctx PROVE ctx'.identity_token = ctx.identity_token
  BY <1>3
<1>4. CASE UNCHANGED robotVars
  BY <1>3, <1>4 DEF robotVars
<1>5. CASE Restart
  BY <1>5 DEF Restart, NewContext
<1>6. CASE Idle \/ Utterance \/ Silence \/ CaptureFails \/ Recover \/ VisionReply
  BY <1>2, <1>6 DEF Idle, Utterance, Silence, CaptureFails, Recover, Capture, VisionReply, Contexts
<1>7. ASSUME NEW e, HonestLine(e, turn[current]), current \in Turns, current # None,
             state = "THINKING" \/ Producing, e.authentication_consumed
      PROVE  grant[ctx.identity_token] = "spent"
  <2>1. turn[current].token \in Tokens /\ grant[turn[current].token] = "spent"
    BY <1>1, <1>7 DEF HonestLine, TokenInv
  <2>2. turn[current].token = ctx.identity_token
    BY <1>1, <1>7, <2>1 DEF TokenInv, Tokens, None
  <2> QED
    BY <2>1, <2>2
<1>8. current # None => current \in Turns
  BY <1>1 DEF RobotInv, RobotTypes
<1>9. CASE ClassicReply
  <2>1. PICK e : e = NextLine(current)
    OBVIOUS
  <2>2. current \in Turns /\ current # None /\ state = "THINKING" /\ Reads /\ UNCHANGED grant
    BY <1>8, <1>9 DEF ClassicReply, Reads
  <2>3. HonestLine(e, turn[current])
    BY <2>1, <2>2, ReadKeeps DEF NextLine
  <2>4. ctx'.identity_token = IF e.authentication_consumed THEN None ELSE ctx.identity_token
    BY <1>2, <1>9, <2>1 DEF ClassicReply, Contexts
  <2> QED
    BY <1>7, <2>2, <2>3, <2>4
<1>10. CASE EndOfStream
  <2>1. PICK e : e = playback.validation.terminal
    OBVIOUS
  <2>2. Producing /\ current # None
    BY <1>1, <1>10 DEF EndOfStream, Producing, RobotInv, Control
  <2>3. HonestLine(e, turn[current])
    BY <1>1, <2>1, <2>2 DEF HeldInv
  <2>4. \/ ctx' = ctx
        \/ ctx' = [ctx EXCEPT
                !.identity_token = IF e.authentication_consumed THEN None ELSE @,
                !.short_reply_next = e.expects_short_reply]
    BY <1>10, <2>1 DEF EndOfStream
  <2>5. ctx'.identity_token \in {ctx.identity_token} \/ e.authentication_consumed
    BY <1>2, <2>4 DEF Contexts
  <2> QED
    BY <1>7, <1>8, <2>2, <2>3, <2>5
<1>11. CASE Robot
  <2>1. \/ Idle \/ Utterance \/ Silence \/ CaptureFails \/ Recover \/ VisionReply
        \/ ClassicReply \/ EndOfStream \/ ctx' = ctx
    BY <1>11 DEF Robot, Think, Look, Request, NoSpeech, FirstEvent, RequestFails, CameraFails,
       VisionFails, Plays, PlaybackFails, Produce, StreamBreaks, PlayClip, ClipFails, Drained
  <2> QED
    BY <1>3, <1>6, <1>9, <1>10, <2>1
<1>12. CASE ConnectionFails \/ UNCHANGED vars
  BY <1>4, <1>12 DEF ConnectionFails, vars
<1> QED
  BY <1>4, <1>5, <1>11, <1>12, Steps

(* Short of a restart the robot forgets its token only when the server has spent it, on *)
(* either route, and whatever happens to the answer that says so.                       *)
THEOREM TokensAreKept == Spec => TokenKeptWhileLive
<1>1. IInv /\ [Next]_vars =>
        [\/ ctx'.identity_token \in {ctx.identity_token} \cup {k \in Tokens : grant[k] = "unissued"}
         \/ grant[ctx.identity_token] = "spent"]_vars
  BY ForgottenWhenSpent
<1>2. []IInv /\ [][Next]_vars =>
        [][\/ ctx'.identity_token \in {ctx.identity_token} \cup {k \in Tokens : grant[k] = "unissued"}
           \/ grant[ctx.identity_token] = "spent"]_vars
  BY <1>1, PTL
<1> QED
  BY <1>2, VoiceInvariant, PTL DEF Spec, TokenKeptWhileLive
-----------------------------------------------------------------------------
(* The refinement.  The definitions of ContinuitySession, whose constants are  *)
(* those of the voice turn, are the definitions the voice turn itself uses.    *)

LEMMA SameOpening ==
    ASSUME NEW s, NEW p
    PROVE  Sessions!Opened(s, p) = Opened(s, p) /\ Sessions!View(s, p) = View(s, p)
BY DEF Sessions!Opened, Opened, Sessions!View, View, Sessions!DropIfIdle, DropIfIdle,
       Sessions!EmptySession, EmptySession

LEMMA SameChars ==
    ASSUME NEW q
    PROVE  Sessions!Chars(q) = Chars(q)
BY DEF Sessions!Chars, Chars, Sessions!FoldFunction, FoldFunction,
       Sessions!FoldFunctionOnSet, FoldFunctionOnSet, Sessions!MapThenFoldSet, MapThenFoldSet

LEMMA SameTrim ==
    ASSUME NEW q
    PROVE  Sessions!Trim(q) = Trim(q)
<1>1. ASSUME NEW p PROVE Sessions!Fits(p) = Fits(p)
  BY SameChars DEF Sessions!Fits, Fits
<1>2. Sessions!TrimStart(q) = TrimStart(q)
  <2>1. ASSUME NEW i
        PROVE  (/\ i = Len(q) + 1 \/ Sessions!Fits(SubSeq(q, i, Len(q)))
                /\ \A j \in 1 .. i - 1 : ~ Sessions!Fits(SubSeq(q, j, Len(q))))
               <=> (/\ i = Len(q) + 1 \/ Fits(SubSeq(q, i, Len(q)))
                    /\ \A j \in 1 .. i - 1 : ~ Fits(SubSeq(q, j, Len(q))))
    BY <1>1
  <2> QED
    BY <2>1 DEF Sessions!TrimStart, TrimStart
<1> QED
  BY <1>2 DEF Sessions!Trim, Trim

LEMMA SameRecord ==
    ASSUME NEW s, NEW v, NEW n
    PROVE  Sessions!RecordPair(s, v, n) = RecordPair(s, v, n)
BY SameTrim DEF Sessions!RecordPair, RecordPair, Sessions!Writable, Writable,
       Sessions!Exchange, Exchange

(* What a step of one request does of the session. *)
LEMMA SessionUse ==
    ASSUME NEW t \in Turns, NEW q, DOMAIN turn = Turns,
           turn' = [turn EXCEPT ![t] = q], UsesSession(turn[t], q)
    PROVE  [Sessions!Next]_(Sessions!vars)
<1> DEFINE view == [s \in Turns |-> turn[s].view]
<1>1. view' = [view EXCEPT ![t] = q.view]
  OBVIOUS
<1>2. CASE session' = session /\ q.view = turn[t].view
  BY <1>1, <1>2 DEF Sessions!vars
<1>3. CASE session' = session /\ q.view = NoView
  <2>1. q.view = Sessions!NoView
    BY <1>3 DEF NoView, Sessions!NoView
  <2>2. Sessions!End(t)
    BY <1>1, <1>3, <2>1 DEF Sessions!End
  <2> QED
    BY <2>2 DEF Sessions!Next
<1>4. ASSUME turn[t].view = NoView, NEW p \in People \cup {NoOne},
             session' = Opened(session, p), q.view = View(session, p)
      PROVE  [Sessions!Next]_(Sessions!vars)
  <2>1. view[t] = Sessions!NoView
    BY <1>4 DEF NoView, Sessions!NoView
  <2>2. session' = Sessions!Opened(session, p) /\ q.view = Sessions!View(session, p)
    BY <1>4, SameOpening
  <2>3. Sessions!Open(t, p)
    BY <1>1, <2>1, <2>2 DEF Sessions!Open
  <2> QED
    BY <2>3 DEF Sessions!Next
<1>5. ASSUME q.view = turn[t].view, NEW n \in Sizes, session' = RecordPair(session, turn[t].view, n)
      PROVE  [Sessions!Next]_(Sessions!vars)
  <2>1. session' = Sessions!RecordPair(session, view[t], n)
    BY <1>5, SameRecord
  <2>2. view' = view
    BY <1>1, <1>5
  <2>3. Sessions!Record(t, n)
    BY <2>1, <2>2 DEF Sessions!Record
  <2> QED
    BY <2>3 DEF Sessions!Next
<1> QED
  BY <1>2, <1>3, <1>4, <1>5 DEF UsesSession

(* However requests overlap, are hung up on, or are given up by the robot, they use the *)
(* session exactly as ContinuitySession allows: its theorems hold of the voice turn.    *)
THEOREM TurnsShareTheSession == Spec => ImplementsContinuitySession
<1>1. Init => Sessions!Init
  <2> SUFFICES ASSUME Init PROVE Sessions!Init
    OBVIOUS
  <2>1. session = Sessions!EmptySession
    BY DEF Init, ServerInit, EmptySession, Sessions!EmptySession
  <2>2. \A t \in Turns : turn[t].view = Sessions!NoView
    BY DEF Init, ServerInit, NoTurn, NoView, Sessions!NoView
  <2> QED
    BY <2>1, <2>2 DEF Sessions!Init
<1>2. IInv /\ [Next]_vars => [Sessions!Next]_(Sessions!vars)
  <2> SUFFICES ASSUME IInv, [Next]_vars PROVE [Sessions!Next]_(Sessions!vars)
    OBVIOUS
  <2>1. TurnsInv
    BY DEF IInv
  <2>2. ASSUME session' = session, \A t \in Turns : turn'[t].view = turn[t].view
        PROVE  [Sessions!Next]_(Sessions!vars)
    BY <2>2 DEF Sessions!vars
  <2>3. ASSUME NEW t \in Turns, ServerMove(t) PROVE [Sessions!Next]_(Sessions!vars)
    <3>1. PICK q, lines : turn' = [turn EXCEPT ![t] = q] /\ UsesSession(turn[t], q)
      BY <2>3 DEF ServerMove
    <3> QED
      BY <2>1, <3>1, SessionUse DEF TurnsInv
  <2>4. CASE Robot \/ ConnectionFails \/ Restart
    BY <2>2, <2>4, RobotTurns
  <2>5. CASE \E k \in Tokens : Expire(k) /\ UNCHANGED robotVars
    BY <2>2, <2>5 DEF Expire
  <2>6. CASE Quiet
    <3>1. session.person # NoOne /\ session' = Sessions!FallsSilent(session) /\ turn' = turn
      BY <2>6 DEF Quiet, FallsSilent, Sessions!FallsSilent
    <3>2. Sessions!Quiet
      BY <3>1 DEF Sessions!Quiet
    <3> QED
      BY <3>2 DEF Sessions!Next
  <2>7. CASE UNCHANGED vars
    BY <2>2, <2>7 DEF vars, serverVars
  <2> QED
    BY <2>3, <2>4, <2>5, <2>6, <2>7, Steps
<1> QED
  BY <1>1, <1>2, VoiceInvariant, PTL DEF Spec, ImplementsContinuitySession, Sessions!Spec

(* What ContinuitySession_proofs proves, for the views of the requests. *)
Promised == INSTANCE ContinuitySession_proofs WITH view <- [t \in Turns |-> turn[t].view]

LEMMA SameNext == [Sessions!Next]_(Sessions!vars) => [Promised!Next]_(Promised!vars)
BY DEF Promised!Next, Sessions!Next, Promised!Open, Sessions!Open, Promised!Record,
       Sessions!Record, Promised!End, Sessions!End, Promised!Quiet, Sessions!Quiet,
       Promised!Opened, Sessions!Opened, Promised!View, Sessions!View, Promised!DropIfIdle,
       Sessions!DropIfIdle, Promised!EmptySession, Sessions!EmptySession, Promised!NoView,
       Sessions!NoView, Promised!RecordPair, Sessions!RecordPair, Promised!Writable,
       Sessions!Writable, Promised!Exchange, Sessions!Exchange, Promised!Trim,
       Sessions!Trim, Promised!TrimStart, Sessions!TrimStart, Promised!Fits, Sessions!Fits,
       Promised!Chars, Sessions!Chars, Promised!FoldFunction, Sessions!FoldFunction,
       Promised!FoldFunctionOnSet, Sessions!FoldFunctionOnSet, Promised!MapThenFoldSet,
       Sessions!MapThenFoldSet, Promised!FallsSilent, Sessions!FallsSilent, Promised!vars,
       Sessions!vars

(* So no request, however late, reads another person's exchanges or those of a session *)
(* before its own: OnlyOwnHistory carries over to the requests of a voice turn.        *)
THEOREM HistoriesAreOwn == Spec => []Sessions!OwnHistory
<1>1. Sessions!Init => Promised!Init
  BY DEF Promised!Init, Sessions!Init, Promised!EmptySession, Sessions!EmptySession,
         Promised!NoView, Sessions!NoView
<1>2. Promised!OwnHistory => Sessions!OwnHistory
  BY DEF Promised!OwnHistory, Sessions!OwnHistory, Promised!TurnsReadTheirOwn,
         Sessions!TurnsReadTheirOwn, Promised!SlotIsOnePersons, Sessions!SlotIsOnePersons,
         Promised!Belongs, Sessions!Belongs
<1>3. Promised!Spec => []Promised!OwnHistory
  BY Promised!OnlyOwnHistory, ContinuityAssumption, PTL
<1>4. Sessions!Spec => Promised!Spec
  BY <1>1, SameNext, PTL DEF Sessions!Spec, Promised!Spec
<1> QED
  BY <1>2, <1>3, <1>4, TurnsShareTheSession, PTL DEF ImplementsContinuitySession
-----------------------------------------------------------------------------
(* An answer is owed.  That the robot listens again is liveness and stays   *)
(* with the model checker; that it never waits for a line nobody will write *)
(* or none of its branches reads is safety, and is proved.                  *)

(* The robot waits for the answer of its request, or for the first event.   *)
Awaiting ==
    \/ state = "THINKING" /\ current # None
    \/ state = "LOOKING" /\ turn[current].route = "vision"

(* A robot that waits has a broken connection, a line one of its branches   *)
(* reads, or a request that the server has not ended; and it looks only     *)
(* where Look, CameraFails or a vision branch lets it go on.                *)
AnswerIsOwed ==
    /\ state = "LOOKING" => turn[current].route \in {"classic", "vision"}
    /\ Awaiting =>
          \/ ~ turn[current].connected
          \/ wire[current] # <<>> /\ (streaming \/ NextLine(current).type # "text_heard")
          \/ wire[current] = <<>> /\ turn[current].at \notin {"unused", "ended"}

(* What a request may be off the stream.                                    *)
OffStream(r) ==
    r.route # "stream" =>
        r.at \notin {"planned", "plan_speaks", "fallback", "rescue", "abort"}

(* What its answer may be: no event of a stream, and no frame asked for by  *)
(* the second round.                                                        *)
IsAnswer(e, r) ==
    r.route # "stream" =>
        /\ e.type \in Answered
        /\ r.route = "vision" => ~ e.vision_requested

RoutesInv ==
    /\ \A t \in Turns : OffStream(turn[t])
    /\ \A t \in Turns : \A i \in 1 .. Len(wire[t]) : IsAnswer(wire[t][i], turn[t])

(* Which request a classic robot has, by where it is. *)
ClassicInv ==
    ~ streaming /\ current # None =>
        /\ turn[current].route # "stream"
        /\ state = "THINKING" => turn[current].route = "classic"
        /\ state = "SPEAKING" /\ ctx.look => turn[current].route = "classic"

(* The request has a line for the robot, a reader no more, or its end to come. *)
Owed ==
    Awaiting =>
        \/ ~ turn[current].connected
        \/ wire[current] # <<>>
        \/ turn[current].at # "ended"

WaitInv == RoutesInv /\ ClassicInv /\ Owed

(* A step of the server off the stream says nothing and does not end the    *)
(* request, or ends it with one answer.                                     *)
OffMove(t) ==
    \/ /\ UNCHANGED wire /\ OffStream(turn'[t])
       /\ turn'[t].at = "ended" => turn[t].at = "ended"
    \/ \E e \in EventSet : /\ Sends(t, <<e>>) /\ IsAnswer(e, turn[t])
                           /\ turn'[t].at = "ended"

LEMMA OffEnds ==
    ASSUME TurnsInv, NEW t \in Turns, NEW s, NEW e \in EventSet, IsTurn(s),
           Step(t, Ended(s)), Send(t, <<e>>), IsAnswer(e, turn[t])
    PROVE  OffMove(t)
<1>1. turn'[t] = Ended(s)
  BY DEF Step, TurnsInv
<1>2. turn'[t].at = "ended"
  BY <1>1, EndedTurn
<1>3. Sends(t, <<e>>)
  BY DEF Send, Sends
<1> QED
  BY <1>2, <1>3 DEF OffMove

(* An answer with nothing in it but its type. *)
LEMMA PlainAnswer ==
    ASSUME NEW r, NEW type \in Answered
    PROVE  Event(type) \in EventSet /\ IsAnswer(Event(type), r)
<1>1. PICK e \in EventSet : e = Event(type)
  BY EventIsEvent
<1>2. e.type = type /\ ~ e.vision_requested
  BY <1>1 DEF Event
<1> QED
  BY <1>1, <1>2 DEF IsAnswer

(* A step that only moves the request on. *)
LEMMA OffOn ==
    ASSUME TurnsInv, NEW t \in Turns, NEW q, Step(t, q), UNCHANGED wire,
           q.route = turn[t].route, OffStream(q), q.at = "ended" => turn[t].at = "ended"
    PROVE  OffMove(t)
<1>1. turn'[t] = q
  BY DEF Step, TurnsInv
<1> QED
  BY <1>1 DEF OffMove

LEMMA OffDecides ==
    ASSUME TurnsInv, NEW t \in Turns, turn[t].route # "stream",
           Refuse(t) \/ AskToRepeat(t) \/ DecidePlan(t) \/ DecideLook(t) \/ OpenTurn(t)
    PROVE  OffMove(t)
<1>1. PICK r : r = turn[t]
  OBVIOUS
<1>2. IsTurn(r) /\ r.route # "stream"
  BY <1>1 DEF TurnsInv
<1>3. ASSUME NEW type \in Answered, Ends(t, r, <<Event(type)>>) PROVE OffMove(t)
  BY <1>1, <1>2, <1>3, PlainAnswer, OffEnds DEF Ends
<1>4. CASE Refuse(t)
  BY <1>1, <1>3, <1>4 DEF Refuse, Answered
<1>5. CASE DecideLook(t)
  <2>1. CASE Fails(t)
    BY <1>1, <1>3, <2>1 DEF Fails, Answered
  <2>2. CASE ~ Fails(t)
    <3>1. PICK e : e = [Event("reply") EXCEPT !.vision_requested = TRUE]
      OBVIOUS
    <3>2. e \in EventSet /\ e.type = "reply"
      BY <3>1 DEF Event, EventSet, Answered
    <3>3. r.route = "classic" /\ Ends(t, r, <<e>>)
      BY <1>1, <1>5, <2>2, <3>1 DEF DecideLook, On
    <3>4. IsAnswer(e, r)
      BY <3>2, <3>3 DEF IsAnswer, Answered
    <3> QED
      BY <1>1, <1>2, <3>2, <3>3, <3>4, OffEnds DEF Ends
  <2> QED
    BY <2>1, <2>2
<1>6. ASSUME NEW s, Planned(t, s), IsTurn(s), s.route = r.route PROVE OffMove(t)
  <2>1. PICK q : q = [s EXCEPT !.at = "closing"]
    OBVIOUS
  <2>2. Step(t, q) /\ UNCHANGED wire
    BY <1>1, <1>2, <1>6, <2>1 DEF Planned, On
  <2>3. q.route = r.route /\ q.at = "closing"
    BY <1>6, <2>1 DEF IsTurn
  <2>4. OffStream(q)
    BY <2>3 DEF OffStream
  <2> QED
    BY <1>1, <2>2, <2>3, <2>4, OffOn
<1>7. CASE AskToRepeat(t)
  <2>1. PICK a \in BOOLEAN : Planned(t, [r EXCEPT !.asks = a])
    BY <1>1, <1>2, <1>7 DEF AskToRepeat, On
  <2>2. PICK s : s = [r EXCEPT !.asks = a]
    OBVIOUS
  <2>3. IsTurn(s) /\ s.route = r.route
    BY <1>2, <2>2 DEF IsTurn
  <2> QED
    BY <1>6, <2>1, <2>2, <2>3
<1>8. CASE DecidePlan(t)
  <2>1. PICK a \in BOOLEAN : Planned(t, [r EXCEPT !.asks = a])
    BY <1>1, <1>8 DEF DecidePlan
  <2>2. PICK s : s = [r EXCEPT !.asks = a]
    OBVIOUS
  <2>3. IsTurn(s) /\ s.route = r.route
    BY <1>2, <2>2 DEF IsTurn
  <2> QED
    BY <1>6, <2>1, <2>2, <2>3
<1>9. CASE OpenTurn(t)
  <2>1. PICK p \in Speakers(t) :
          Step(t, [r EXCEPT !.at = "opened", !.face = p.face, !.view = View(session, p.who)])
    BY <1>1, <1>9 DEF OpenTurn
  <2>2. PICK q : q = [r EXCEPT !.at = "opened", !.face = p.face, !.view = View(session, p.who)]
    OBVIOUS
  <2>3. q.route = r.route /\ q.at = "opened" /\ UNCHANGED wire
    BY <1>1, <1>2, <1>9, <2>2 DEF OpenTurn, IsTurn
  <2>4. OffStream(q)
    BY <2>3 DEF OffStream
  <2> QED
    BY <1>1, <2>1, <2>2, <2>3, <2>4, OffOn
<1> QED
  BY <1>4, <1>5, <1>7, <1>8, <1>9

LEMMA OffProtected ==
    ASSUME TurnsInv, NEW t \in Turns, turn[t].route # "stream", DecideProtectedRead(t)
    PROVE  OffMove(t)
<1>1. PICK r : r = turn[t]
  OBVIOUS
<1>2. IsTurn(r) /\ r.route # "stream"
  BY <1>1 DEF TurnsInv
<1>3. CASE \E known \in BOOLEAN : Planned(t, [r EXCEPT !.consumed = known])
  <2>1. PICK known \in BOOLEAN : Planned(t, [r EXCEPT !.consumed = known])
    BY <1>3
  <2>2. PICK q : q = [[r EXCEPT !.consumed = known] EXCEPT !.at = "closing"]
    OBVIOUS
  <2>3. Step(t, q) /\ UNCHANGED wire
    BY <1>1, <1>2, <2>1, <2>2 DEF Planned, On
  <2>4. q.route = r.route /\ q.at = "closing"
    BY <1>2, <2>2 DEF IsTurn
  <2>5. OffStream(q)
    BY <2>4 DEF OffStream
  <2> QED
    BY <1>1, <2>3, <2>4, <2>5, OffOn
<1>4. CASE /\ \E known \in BOOLEAN : Step(t, Ended([r EXCEPT !.consumed = known]))
           /\ Send(t, <<Event("failed")>>)
  <2>1. PICK known \in BOOLEAN : Step(t, Ended([r EXCEPT !.consumed = known]))
    BY <1>4
  <2>2. PICK s : s = [r EXCEPT !.consumed = known]
    OBVIOUS
  <2>3. IsTurn(s)
    BY <1>2, <2>2 DEF IsTurn
  <2>4. Event("failed") \in EventSet /\ IsAnswer(Event("failed"), turn[t])
    BY PlainAnswer DEF Answered
  <2> QED
    BY <1>4, <2>1, <2>2, <2>3, <2>4, OffEnds
<1> QED
  BY <1>1, <1>3, <1>4 DEF DecideProtectedRead

LEMMA OffReplies ==
    ASSUME TurnsInv, NEW t \in Turns, turn[t].route # "stream", OffStream(turn[t]),
           TextTurn(t) \/ CloseClassic(t) \/ PrepareOffer(t)
    PROVE  OffMove(t)
<1>1. PICK r : r = turn[t]
  OBVIOUS
<1>2. IsTurn(r) /\ r.route # "stream" /\ OffStream(r) /\ wire[t] \in Seq(EventSet)
  BY <1>1 DEF TurnsInv
<1>3. ASSUME NEW q, Step(t, q), UNCHANGED wire, q.route = r.route, q.at # "ended",
             q.at \in {"model", "record", "offer", "closing"}
      PROVE  OffMove(t)
  <2>1. OffStream(q)
    BY <1>2, <1>3 DEF OffStream
  <2> QED
    BY <1>1, <1>3, <2>1, OffOn
<1>4. ASSUME NEW type \in Answered, Ends(t, r, <<Event(type)>>) PROVE OffMove(t)
  BY <1>1, <1>2, <1>4, PlainAnswer, OffEnds DEF Ends
<1>5. CASE StartReply(t)
  <2>1. PICK o : Step(t, [r EXCEPT !.at = "model", !.offer = o])
    BY <1>1, <1>5 DEF StartReply
  <2>2. r.at = "opened" /\ Send(t, <<>>)
    BY <1>1, <1>2, <1>5 DEF StartReply, At, On
  <2>3. wire[t] \o <<>> = wire[t]
    BY <1>2, ConcatEmptySeq
  <2>4. UNCHANGED wire
    BY <2>2, <2>3 DEF Send, TurnsInv
  <2>5. PICK q : q = [r EXCEPT !.at = "model", !.offer = o]
    OBVIOUS
  <2>6. q.route = r.route /\ q.at = "model"
    BY <1>2, <2>5 DEF IsTurn
  <2> QED
    BY <1>3, <2>1, <2>4, <2>5, <2>6
<1>6. CASE Generate(t)
  <2>1. PICK o : Step(t, [r EXCEPT !.at = "record", !.outcome = o])
    BY <1>1, <1>6 DEF Generate
  <2>2. PICK q : q = [r EXCEPT !.at = "record", !.outcome = o]
    OBVIOUS
  <2>3. q.route = r.route /\ q.at = "record"
    BY <1>2, <2>2 DEF IsTurn
  <2>4. UNCHANGED wire
    BY <1>6 DEF Generate
  <2> QED
    BY <1>3, <2>1, <2>2, <2>3, <2>4
<1>7. CASE Unexpected(t)
  BY <1>1, <1>2, <1>4, <1>7 DEF Unexpected, On, Answered
<1>8. CASE Record(t)
  <2>1. PICK c, p : Step(t, [r EXCEPT !.at = "offer", !.captured = c, !.proposed = p])
    BY <1>1, <1>8 DEF Record
  <2>2. PICK q : q = [r EXCEPT !.at = "offer", !.captured = c, !.proposed = p]
    OBVIOUS
  <2>3. q.route = r.route /\ q.at = "offer"
    BY <1>2, <2>2 DEF IsTurn
  <2>4. UNCHANGED wire
    BY <1>8 DEF Record
  <2> QED
    BY <1>3, <2>1, <2>2, <2>3, <2>4
<1>9. CASE CommitOffer(t)
  <2>1. PICK o : Step(t, [r EXCEPT !.at = "closing", !.offer = o])
    BY <1>1, <1>9 DEF CommitOffer
  <2>2. PICK q : q = [r EXCEPT !.at = "closing", !.offer = o]
    OBVIOUS
  <2>3. q.route = r.route /\ q.at = "closing"
    BY <1>2, <2>2 DEF IsTurn
  <2>4. UNCHANGED wire
    BY <1>9 DEF CommitOffer
  <2> QED
    BY <1>3, <2>1, <2>2, <2>3, <2>4
<1>10. CASE CancelOffer(t)
  <2>1. r.at = "offer" /\ UNCHANGED wire
    BY <1>1, <1>10 DEF CancelOffer, At
  <2>2. CASE Step(t, [r EXCEPT !.offer = "cancelling"])
    <3>1. PICK q : q = [r EXCEPT !.offer = "cancelling"]
      OBVIOUS
    <3>2. q.route = r.route /\ q.at = "offer"
      BY <1>2, <2>1, <3>1 DEF IsTurn
    <3> QED
      BY <1>3, <2>1, <2>2, <3>1, <3>2
  <2>3. CASE Step(t, [r EXCEPT !.at = "closing"])
    <3>1. PICK q : q = [r EXCEPT !.at = "closing"]
      OBVIOUS
    <3>2. q.route = r.route /\ q.at = "closing"
      BY <1>2, <3>1 DEF IsTurn
    <3> QED
      BY <1>3, <2>1, <2>3, <3>1, <3>2
  <2> QED
    BY <1>1, <1>10, <2>2, <2>3 DEF CancelOffer
<1>11. CASE CloseClassic(t)
  <2>1. CASE Fails(t)
    BY <1>1, <1>4, <2>1 DEF Fails, Answered
  <2>2. CASE ~ Fails(t)
    <3>1. PICK e : e = [Event("reply") EXCEPT !.authentication_consumed = r.consumed]
      OBVIOUS
    <3>2. e \in EventSet /\ e.type = "reply" /\ ~ e.vision_requested
      BY <1>2, <3>1 DEF Event, EventSet, Answered, IsTurn
    <3>3. Ends(t, r, <<e>>)
      BY <1>1, <1>11, <2>2, <3>1 DEF CloseClassic
    <3>4. IsAnswer(e, r)
      BY <3>2 DEF IsAnswer, Answered
    <3> QED
      BY <1>1, <1>2, <3>2, <3>3, <3>4, OffEnds DEF Ends
  <2> QED
    BY <2>1, <2>2
<1>12. CASE PrepareOffer(t)
  <2>1. PICK o : Step(t, [r EXCEPT !.offer = o])
    BY <1>1, <1>12 DEF PrepareOffer
  <2>2. PICK q : q = [r EXCEPT !.offer = o]
    OBVIOUS
  <2>3. q.route = r.route /\ q.at = r.at /\ UNCHANGED wire
    BY <1>2, <1>12, <2>2 DEF IsTurn, PrepareOffer
  <2>4. OffStream(q)
    BY <1>2, <2>3 DEF OffStream
  <2> QED
    BY <1>1, <2>1, <2>2, <2>3, <2>4, OffOn
<1> QED
  BY <1>5, <1>6, <1>7, <1>8, <1>9, <1>10, <1>11, <1>12 DEF TextTurn

LEMMA OffMoves ==
    ASSUME TurnsInv, NEW t \in Turns, turn[t].route # "stream", OffStream(turn[t]),
           ServerStep(t) \/ PrepareOffer(t) \/ HangUp(t)
    PROVE  OffMove(t)
<1>1. ~ (PlanOpens(t) \/ PlanSpeaks(t) \/ StreamPipeline(t) \/ HangUp(t))
  BY DEF OffStream, At, On, PlanOpens, PlanSpeaks, StreamPipeline, HangUp, PromoteEmotion,
         SpeakSentence, EndOfModel, InvalidReply, ModelFails, EmitFallback, SpeechFails, Abort,
         RescueFails, CloseStream
<1> QED
  BY <1>1, OffDecides, OffProtected, OffReplies DEF ServerStep

(* On the stream a request that a reader follows does not end in silence. *)
LEMMA StreamTellsItsEnd ==
    ASSUME NEW r, NEW q, NEW lines, Streams(r, q, lines), r.at # "ended", q.at = "ended"
    PROVE  lines # <<>>
BY DEF Streams, Finishing, Telling

(* One line more, or none. *)
LEMMA MoreIsNotLess ==
    ASSUME NEW w \in Seq(EventSet), NEW lines \in Seq(EventSet), w # <<>> \/ lines # <<>>
    PROVE  w \o lines # <<>>
BY ConcatEqualIffEmpty

LEMMA OneMoreAnswer ==
    ASSUME NEW r, NEW w \in Seq(EventSet), NEW e \in EventSet, IsAnswer(e, r),
           \A i \in 1 .. Len(w) : IsAnswer(w[i], r)
    PROVE  \A i \in 1 .. Len(w \o <<e>>) : IsAnswer((w \o <<e>>)[i], r)
<1>1. <<e>> \in Seq(EventSet) /\ Len(<<e>>) = 1 /\ <<e>>[1] = e
  OBVIOUS
<1>2. PICK m \in Nat : m = Len(w)
  OBVIOUS
<1>3. PICK one : one = <<e>>
  OBVIOUS
<1>4. /\ Len(w \o one) = m + 1
      /\ \A i \in 1 .. m + 1 : (w \o one)[i] = IF i <= m THEN w[i] ELSE one[i - m]
  BY <1>1, <1>2, <1>3, ConcatProperties
<1>5. ASSUME NEW i \in 1 .. m + 1 PROVE IsAnswer((w \o one)[i], r)
  <2>1. CASE i <= m
    <3>1. (w \o one)[i] = w[i] /\ i \in 1 .. Len(w)
      BY <1>2, <1>4, <2>1
    <3> QED
      BY <3>1
  <2>2. CASE ~ (i <= m)
    <3>1. (w \o one)[i] = one[i - m] /\ i - m = 1
      BY <1>2, <1>4, <2>2
    <3>2. (w \o one)[i] = e
      BY <1>1, <1>3, <3>1
    <3> QED
      BY <3>2
  <2> QED
    BY <2>1, <2>2
<1> QED
  BY <1>3, <1>4, <1>5

LEMMA ServerWaits ==
    ASSUME IInv, WaitInv, NEW t \in Turns, ServerStep(t) \/ PrepareOffer(t) \/ HangUp(t),
           UNCHANGED robotVars
    PROVE  WaitInv'
<1>1. TurnsInv /\ LinesInv /\ RobotInv /\ RoutesInv
  BY DEF IInv, WaitInv
<1>2. PICK r : r = turn[t]
  OBVIOUS
<1>3. PICK w \in Seq(EventSet) : w = wire[t]
  BY <1>1 DEF TurnsInv
<1>4. PICK q, lines :
        /\ Moved(r, q, lines) /\ turn'[t] = q
        /\ wire'[t] = (IF q.connected THEN w \o lines ELSE <<>>)
        /\ \A s \in Turns : s # t => turn'[s] = turn[s] /\ wire'[s] = wire[s]
  <2>1. ServerMove(t)
    BY <1>1, ServerMoves
  <2> QED
    BY <1>1, <1>2, <1>3, <2>1, MoveEffect
<1>5. /\ q.route = r.route /\ q.connected = r.connected /\ lines \in Seq(EventSet)
      /\ r.route = "stream" /\ r.connected => Streams(r, q, lines)
      /\ r.at = "ended" => q.at = "ended"
  BY <1>4 DEF Moved
<1>6. r.route # "stream" => OffMove(t)
  BY <1>1, <1>2, OffMoves DEF RoutesInv
<1>7. OffStream(q)
  BY <1>4, <1>5, <1>6 DEF OffMove, OffStream
<1>8. \A i \in 1 .. Len(wire'[t]) : IsAnswer(wire'[t][i], q)
  <2>1. \A i \in 1 .. Len(w) : IsAnswer(w[i], r)
    BY <1>1, <1>2, <1>3 DEF RoutesInv
  <2>2. CASE r.route = "stream"
    BY <1>5, <2>2 DEF IsAnswer
  <2>3. CASE r.route # "stream" /\ wire' = wire
    <3>1. \A i \in 1 .. Len(w) : IsAnswer(w[i], q)
      BY <1>5, <2>1 DEF IsAnswer
    <3> QED
      BY <1>3, <2>3, <3>1
  <2>4. CASE r.route # "stream" /\ \E e \in EventSet : Sends(t, <<e>>) /\ IsAnswer(e, r)
    <3>1. PICK e \in EventSet : Sends(t, <<e>>) /\ IsAnswer(e, r)
      BY <2>4
    <3>2. wire'[t] = IF r.connected THEN w \o <<e>> ELSE w
      BY <1>1, <1>2, <1>3, <3>1 DEF Sends, TurnsInv
    <3>3. \A i \in 1 .. Len(w \o <<e>>) : IsAnswer((w \o <<e>>)[i], r)
      BY <2>1, <3>1, OneMoreAnswer
    <3>4. \A i \in 1 .. Len(wire'[t]) : IsAnswer(wire'[t][i], r)
      BY <2>1, <3>2, <3>3
    <3> QED
      BY <1>5, <3>4 DEF IsAnswer
  <2> QED
    BY <1>2, <1>6, <2>2, <2>3, <2>4 DEF OffMove
<1>9. RoutesInv'
  BY <1>1, <1>4, <1>7, <1>8 DEF RoutesInv
<1>10. UNCHANGED <<streaming, state, ctx, current>> /\ \A s \in Turns : turn'[s].route = turn[s].route
  BY <1>2, <1>4, <1>5 DEF robotVars
<1>11. current # None => current \in Turns
  BY <1>1 DEF RobotInv, RobotTypes
<1>12. ClassicInv'
  BY <1>10, <1>11 DEF WaitInv, ClassicInv
<1>13. r.connected /\ w # <<>> => wire'[t] # <<>>
  BY <1>4, <1>5, MoreIsNotLess
<1>14. r.connected /\ r.at # "ended" /\ q.at = "ended" => wire'[t] # <<>>
  <2>1. CASE r.route = "stream"
    BY <1>4, <1>5, <2>1, MoreIsNotLess, StreamTellsItsEnd
  <2>2. CASE r.route # "stream" /\ r.connected /\ r.at # "ended" /\ q.at = "ended"
    <3>1. PICK e \in EventSet : Sends(t, <<e>>)
      BY <1>2, <1>4, <1>6, <2>2 DEF OffMove
    <3>2. wire'[t] = w \o <<e>>
      BY <1>1, <1>2, <1>3, <2>2, <3>1 DEF Sends, TurnsInv
    <3>3. <<e>> \in Seq(EventSet) /\ <<e>>[1] = e /\ Len(<<e>>) = 1 /\ Len(<<>>) = 0
      OBVIOUS
    <3>4. <<e>> # <<>>
      BY <3>3
    <3> QED
      BY <3>2, <3>3, <3>4, MoreIsNotLess
  <2> QED
    BY <2>1, <2>2
<1>15. Awaiting' => Awaiting /\ current \in Turns
  <2>1. state = "LOOKING" => current \in Turns
    BY <1>1, <1>11 DEF RobotInv, Control
  <2> QED
    BY <1>10, <1>11, <2>1 DEF Awaiting
<1>16. Owed'
  <2>1. CASE current = t
    BY <1>2, <1>3, <1>4, <1>5, <1>10, <1>13, <1>14, <1>15, <2>1 DEF WaitInv, Owed
  <2>2. CASE current # t
    BY <1>4, <1>10, <1>15, <2>2 DEF WaitInv, Owed
  <2> QED
    BY <2>1, <2>2
<1> QED
  BY <1>9, <1>12, <1>16 DEF WaitInv

(* What the robot's steps leave of the routes and of the lines. *)
LEMMA RobotRoutes ==
    ASSUME IInv, RoutesInv, Robot \/ ConnectionFails \/ Restart
    PROVE  /\ RoutesInv'
           /\ Keeps \/ Reads \/ Closes => \A s \in Turns : turn'[s].route = turn[s].route
<1>1. TurnsInv /\ LinesInv /\ RobotInv
  BY DEF IInv
<1>2. (Keeps \/ Reads \/ Closes \/ Asks)
  BY <1>1, RobotShape, RestartShape, FailureShape
<1>3. CASE Keeps
  BY <1>3 DEF Keeps, RoutesInv
<1>4. CASE Reads
  <2>1. PICK w \in Seq(EventSet) : w = wire[current] /\ w # <<>>
    BY <1>1, <1>4 DEF Reads, Readable, TurnsInv
  <2>2. current \in Turns /\ turn' = turn /\ wire' = [wire EXCEPT ![current] = Tail(w)]
    BY <1>4, <2>1 DEF Reads, Read
  <2>3. wire'[current] = Tail(w) /\ \A s \in Turns : s # current => wire'[s] = wire[s]
    BY <1>1, <2>2 DEF TurnsInv
  <2>4. /\ Len(Tail(w)) = Len(w) - 1 /\ \A i \in 1 .. Len(Tail(w)) : Tail(w)[i] = w[i + 1]
    BY <2>1, HeadTailProperties
  <2>5. \A i \in 1 .. Len(w) : IsAnswer(w[i], turn[current])
    BY <2>1, <2>2 DEF RoutesInv
  <2>6. \A i \in 1 .. Len(w) - 1 : i + 1 \in 1 .. Len(w)
    BY <2>1
  <2>7. \A i \in 1 .. Len(Tail(w)) : IsAnswer(Tail(w)[i], turn[current])
    BY <2>4, <2>5, <2>6
  <2>8. ASSUME NEW s \in Turns PROVE \A i \in 1 .. Len(wire'[s]) : IsAnswer(wire'[s][i], turn'[s])
    <3>1. CASE s = current
      BY <2>2, <2>3, <2>7, <3>1
    <3>2. CASE s # current
      BY <2>2, <2>3, <3>2 DEF RoutesInv
    <3> QED
      BY <3>1, <3>2
  <2> QED
    BY <2>2, <2>8 DEF RoutesInv
<1>5. CASE Closes
  <2>1. current \in Turns /\ turn' = [turn EXCEPT ![current].connected = FALSE]
        /\ wire' = [wire EXCEPT ![current] = <<>>]
    BY <1>5 DEF Closes, Close
  <2>2. ASSUME NEW s \in Turns
        PROVE  turn'[s].route = turn[s].route /\ turn'[s].at = turn[s].at
    BY <1>1, <2>1 DEF TurnsInv, IsTurn
  <2>3. wire'[current] = <<>> /\ \A s \in Turns : s # current => wire'[s] = wire[s]
    BY <1>1, <2>1 DEF TurnsInv
  <2>4. \A s \in Turns : OffStream(turn'[s])
    BY <2>2 DEF RoutesInv, OffStream
  <2>5. ASSUME NEW s \in Turns PROVE \A i \in 1 .. Len(wire'[s]) : IsAnswer(wire'[s][i], turn'[s])
    <3>1. CASE s = current
      BY <2>3, <3>1
    <3>2. CASE s # current
      BY <2>2, <2>3, <3>2 DEF RoutesInv, IsAnswer
    <3> QED
      BY <3>1, <3>2
  <2> QED
    BY <2>2, <2>4, <2>5 DEF RoutesInv
<1>6. CASE Asks /\ ~ (Keeps \/ Reads \/ Closes)
  <2>1. PICK t \in Turns, route \in Routes, token \in Tokens \cup {None}, short \in BOOLEAN :
          /\ turn[t].at = "unused" /\ turn' = [turn EXCEPT ![t] = Asked(route, token, short)]
          /\ wire' = wire
    BY <1>6 DEF Asks
  <2>2. PICK q : q = Asked(route, token, short)
    OBVIOUS
  <2>3. q.at = "received"
    BY <2>2, AskedIsTurn
  <2>4. \A s \in Turns : turn'[s] = IF s = t THEN q ELSE turn[s]
    BY <1>1, <2>1, <2>2 DEF TurnsInv
  <2>5. wire'[t] = <<>>
    BY <1>1, <2>1 DEF LinesInv
  <2>6. \A s \in Turns : OffStream(turn'[s])
    BY <2>3, <2>4 DEF RoutesInv, OffStream
  <2>7. ASSUME NEW s \in Turns PROVE \A i \in 1 .. Len(wire'[s]) : IsAnswer(wire'[s][i], turn'[s])
    <3>1. CASE s = t
      BY <2>5, <3>1
    <3>2. CASE s # t
      BY <2>1, <2>4, <3>2 DEF RoutesInv
    <3> QED
      BY <3>1, <3>2
  <2> QED
    BY <1>6, <2>6, <2>7 DEF RoutesInv
<1> QED
  BY <1>2, <1>3, <1>4, <1>5, <1>6

(* A step after which the robot waits for nothing. *)
LEMMA NothingAwaited ==
    ASSUME ~ Awaiting' PROVE Owed'
BY DEF Owed

LEMMA RobotWaits ==
    ASSUME IInv, WaitInv, Robot \/ ConnectionFails \/ Restart
    PROVE  ClassicInv' /\ Owed'
<1>1. TurnsInv /\ LinesInv /\ RobotInv /\ RoutesInv /\ ClassicInv /\ Owed
  BY DEF IInv, WaitInv
<1>2. /\ current # None => current \in Turns /\ turn[current].at # "unused"
      /\ state = "LISTENING" => current = None
      /\ state \in {"SPEAKING", "LOOKING"} => current # None
      /\ streaming => state # "LOOKING"
  BY <1>1 DEF RobotInv, RobotTypes, Control
<1>3. Keeps \/ Reads \/ Closes => \A s \in Turns : turn'[s].route = turn[s].route
  BY <1>1, RobotRoutes
<1>4. CASE Idle \/ Utterance \/ Restart
  <2>1. current' = None /\ state' \in {"IDLE", "LISTENING", "THINKING"}
    BY <1>2, <1>4 DEF Idle, Utterance, Capture, Restart, GoTo
  <2>2. ~ Awaiting'
    BY <2>1 DEF Awaiting
  <2> QED
    BY <2>1, <2>2, NothingAwaited DEF ClassicInv
<1>5. CASE Silence \/ CaptureFails \/ Recover \/ NoSpeech \/ RequestFails \/ CameraFails
           \/ VisionFails \/ PlaybackFails
  <2>1. state' \in {"IDLE", "ERROR"} /\ UNCHANGED <<streaming, current>>
    BY <1>5 DEF Silence, CaptureFails, Recover, NoSpeech, RequestFails, CameraFails, VisionFails,
                PlaybackFails, Capture, GoTo
  <2>2. Keeps \/ Reads \/ Closes
    BY <1>2, <1>5 DEF Silence, CaptureFails, Recover, NoSpeech, RequestFails, CameraFails,
       VisionFails, PlaybackFails, Capture, serverVars, Keeps, Reads, Closes
  <2>3. ~ Awaiting'
    BY <2>1 DEF Awaiting
  <2> QED
    BY <1>1, <1>2, <1>3, <2>1, <2>2, <2>3, NothingAwaited DEF ClassicInv
<1>6. CASE FirstEvent \/ Produce \/ EndOfStream \/ StreamBreaks \/ PlayClip \/ ClipFails \/ Drained
  <2>1. state' \in {"SPEAKING", "ERROR", "IDLE"} /\ streaming' /\ streaming
    BY <1>6 DEF FirstEvent, Produce, EndOfStream, StreamBreaks, PlayClip, ClipFails, Drained,
                Producing, GoTo
  <2>2. ~ Awaiting'
    BY <2>1 DEF Awaiting
  <2> QED
    BY <2>1, <2>2, NothingAwaited DEF ClassicInv
<1>7. CASE ClassicReply
  <2>1. state = "THINKING" /\ state' = "SPEAKING" /\ current # None
        /\ UNCHANGED <<streaming, current, turn>>
    BY <1>7 DEF ClassicReply, GoTo
  <2>2. ~ Awaiting'
    BY <2>1 DEF Awaiting
  <2> QED
    BY <1>1, <2>1, <2>2, NothingAwaited DEF ClassicInv
<1>8. CASE VisionReply
  <2>1. PICK w \in Seq(EventSet) : w = wire[current] /\ w # <<>>
    BY <1>1, <1>2, <1>8 DEF VisionReply, Readable, TurnsInv
  <2>2. state' = "SPEAKING" /\ UNCHANGED <<streaming, current, turn>>
        /\ turn[current].route = "vision" /\ current \in Turns
        /\ ctx' = [ctx EXCEPT !.look = Head(w).vision_requested]
    BY <1>2, <1>8, <2>1 DEF VisionReply, GoTo, NextLine
  <2>3. 1 \in 1 .. Len(w) /\ Head(w) = w[1]
    BY <2>1
  <2>4. ~ w[1].vision_requested
    BY <1>1, <2>1, <2>2, <2>3 DEF RoutesInv, IsAnswer
  <2>5. ~ ctx'.look
    BY <1>1, <2>2, <2>3, <2>4 DEF RobotInv, RobotTypes, Contexts
  <2>6. ~ Awaiting'
    BY <2>2 DEF Awaiting
  <2> QED
    BY <2>2, <2>5, <2>6, NothingAwaited DEF ClassicInv
<1>9. CASE Plays
  <2>1. /\ UNCHANGED <<streaming, current, turn>> /\ ~ streaming /\ state = "SPEAKING"
        /\ state' \in {"LOOKING", "IDLE"} /\ (state' = "LOOKING" => ctx.look) /\ current # None
    BY <1>2, <1>9 DEF Plays, GoTo, serverVars
  <2>2. ~ Awaiting'
    BY <1>1, <2>1 DEF Awaiting, ClassicInv
  <2> QED
    BY <1>1, <2>1, <2>2, NothingAwaited DEF ClassicInv
<1>10. CASE Think
  <2>1. PICK route \in {"stream", "classic"}, token \in Tokens \cup {None}, short \in BOOLEAN :
          /\ Request(route, token, short) /\ state = "THINKING"
          /\ streaming \/ route = "classic"
    BY <1>1, <1>10 DEF Think, RobotInv, RobotTypes, Contexts
  <2>2. /\ current' \in Turns
        /\ turn' = [turn EXCEPT ![current'] = Asked(route, token, short)]
        /\ UNCHANGED <<streaming, state>>
    BY <2>1, RequestAsks DEF Routes
  <2>3. PICK q : q = Asked(route, token, short)
    OBVIOUS
  <2>4. q.at = "received" /\ q.route = route
    BY <2>1, <2>3, AskedIsTurn DEF Routes
  <2>5. turn'[current'] = q
    BY <1>1, <2>2, <2>3 DEF TurnsInv
  <2> QED
    BY <2>1, <2>2, <2>4, <2>5 DEF ClassicInv, Owed
<1>11. CASE Look
  <2>1. Request("vision", None, FALSE) /\ state = "LOOKING"
    BY <1>11 DEF Look
  <2>2. /\ current' \in Turns
        /\ turn' = [turn EXCEPT ![current'] = Asked("vision", None, FALSE)]
        /\ UNCHANGED <<streaming, state>>
    BY <2>1, RequestAsks DEF Routes
  <2>3. PICK q : q = Asked("vision", None, FALSE)
    OBVIOUS
  <2>4. q.at = "received" /\ q.route = "vision"
    BY <2>3, AskedIsTurn DEF Routes
  <2>5. turn'[current'] = q
    BY <1>1, <2>2, <2>3 DEF TurnsInv
  <2> QED
    BY <2>1, <2>2, <2>4, <2>5 DEF ClassicInv, Owed
<1>12. CASE ConnectionFails
  <2>1. current \in Turns /\ Close(current) /\ UNCHANGED <<streaming, state, ctx, current>>
    BY <1>2, <1>12 DEF ConnectionFails, robotVars
  <2>2. Closes
    BY <2>1 DEF Closes
  <2>3. ~ turn'[current].connected
    BY <1>1, <2>1 DEF Close, TurnsInv, IsTurn
  <2>4. turn'[current].route = turn[current].route
    BY <1>3, <2>1, <2>2
  <2> QED
    BY <1>1, <2>1, <2>3, <2>4 DEF ClassicInv, Owed
<1> QED
  BY <1>4, <1>5, <1>6, <1>7, <1>8, <1>9, <1>10, <1>11, <1>12 DEF Robot

LEMMA WaitStep == IInv /\ WaitInv /\ [Next]_vars => WaitInv'
<1> SUFFICES ASSUME IInv, WaitInv, [Next]_vars PROVE WaitInv'
  OBVIOUS
<1>1. CASE Robot \/ ConnectionFails \/ Restart
  BY <1>1, RobotRoutes, RobotWaits DEF WaitInv
<1>2. CASE \E t \in Turns : Server(t) \/ Offer(t) \/ (HangUp(t) /\ UNCHANGED robotVars)
  BY <1>2, ServerWaits DEF Server, Offer
<1>3. CASE UNCHANGED <<turn, wire, robotVars>>
  <2>1. UNCHANGED <<turn, wire, streaming, state, ctx, current>>
    BY <1>3 DEF robotVars
  <2> QED
    BY <2>1 DEF WaitInv, RoutesInv, ClassicInv, Owed, Awaiting
<1> QED
  BY <1>1, <1>2, <1>3 DEF Next, Expire, Quiet, vars, serverVars

(* A robot that waits is owed an answer it can read: the server ends no    *)
(* request that still has a reader without a line, only the stream sends   *)
(* events of a stream, and a second round asks for no further frame.       *)
THEOREM AnAnswerIsAlwaysOwed == Spec => []AnswerIsOwed
<1>1. Init => WaitInv
  <2> SUFFICES ASSUME Init PROVE WaitInv
    OBVIOUS
  <2>1. /\ turn = [t \in Turns |-> NoTurn] /\ wire = [t \in Turns |-> <<>>]
        /\ state = "IDLE" /\ current = None
    BY DEF Init, ServerInit
  <2>2. NoTurn.route = "stream"
    BY DEF NoTurn
  <2> QED
    BY <2>1, <2>2 DEF WaitInv, RoutesInv, ClassicInv, Owed, Awaiting, OffStream, IsAnswer
<1>2. IInv /\ WaitInv => AnswerIsOwed
  <2> SUFFICES ASSUME IInv, WaitInv PROVE AnswerIsOwed
    OBVIOUS
  <2>1. /\ current # None => current \in Turns /\ turn[current].at # "unused"
        /\ state = "LOOKING" => current # None /\ ~ streaming
        /\ \A t \in Turns : turn[t].route \in Routes /\ wire[t] \in Seq(EventSet)
    BY DEF IInv, RobotInv, RobotTypes, Control, TurnsInv, IsTurn
  <2>2. state = "LOOKING" => turn[current].route \in {"classic", "vision"}
    BY <2>1 DEF WaitInv, ClassicInv, Routes
  <2>3. ASSUME Awaiting, wire[current] # <<>>, ~ streaming
        PROVE  NextLine(current).type # "text_heard"
    <3>1. current \in Turns /\ turn[current].route # "stream"
      BY <2>1, <2>3 DEF Awaiting, WaitInv, ClassicInv
    <3>2. PICK w \in Seq(EventSet) : w = wire[current] /\ w # <<>>
      BY <2>1, <2>3, <3>1
    <3>3. 1 \in 1 .. Len(w) /\ NextLine(current) = w[1]
      BY <3>2 DEF NextLine
    <3>4. w[1].type \in Answered
      BY <3>1, <3>2, <3>3 DEF WaitInv, RoutesInv, IsAnswer
    <3> QED
      BY <3>3, <3>4 DEF Answered
  <2>4. Awaiting => current # None
    BY <2>1 DEF Awaiting
  <2> QED
    BY <2>1, <2>2, <2>3, <2>4 DEF AnswerIsOwed, WaitInv, Owed
<1> QED
  BY <1>1, <1>2, WaitStep, VoiceInvariant, PTL DEF Spec
=============================================================================
