---------------------------- MODULE VoiceServer ----------------------------
(***************************************************************************)
(* The server's half of a voice turn: POST /transcribe/stream,             *)
(* POST /transcribe and the second round POST /vision/respond              *)
(* (server/routers/transcribe.py, routers/vision.py, streaming.py,         *)
(* streaming_render.py, text_turn.py).  Each turn is one request; turns    *)
(* overlap when the robot gives a request up and makes another one.        *)
(*                                                                         *)
(* Abstracted: the words.  A decision of the controller, a synthesis, an   *)
(* identification or a generation is a choice over its outcomes.           *)
(***************************************************************************)
EXTENDS Continuity, StreamContract, SequencesExt

CONSTANTS
    People,     \* persons a face or a token may name
    Owner,      \* the person an owner grant names
    MaxTurns,   \* bound: requests of one behaviour
    MaxTokens,  \* bound: owner grants issued in one behaviour
    MaxInFlight,  \* bound: lines written before the robot reads one
    Sizes       \* the sizes an exchange may have, in characters

ASSUME VoiceServerAssumption ==
    /\ Owner \in People /\ NoOne \notin People
    /\ MaxTurns \in Nat /\ MaxTokens \in Nat
    /\ Sizes \subseteq Nat

VARIABLES
    turn,     \* what the server knows of each request
    wire,     \* events sent to the robot and not read yet, per request
    session,  \* the process-wide ContinuitySession
    grant     \* the process-wide registry of one-use owner grants

serverVars == <<turn, wire, session, grant>>

Turns  == 1 .. MaxTurns
Tokens == 1 .. MaxTokens
None   == 0     \* no token, no turn

Routes == {"stream", "classic", "vision"}

NoTurn ==
    [at |-> "unused", route |-> "stream", connected |-> TRUE,
     token |-> None, short |-> FALSE, consumed |-> FALSE, asks |-> FALSE,
     view |-> NoView, face |-> FALSE, outcome |-> "ok",
     emotion |-> FALSE, spoken |-> FALSE, offer |-> "none",
     proposed |-> FALSE, captured |-> FALSE]

ServerInit ==
    /\ turn = [t \in Turns |-> NoTurn]
    /\ wire = [t \in Turns |-> <<>>]
    /\ session = EmptySession

At(t, point) == turn[t].at = point
On(t, route) == turn[t].route = route

(* A line written to a transport that is gone goes nowhere. *)
Send(t, events) ==
    /\ Len(wire[t]) < MaxInFlight
    /\ wire' = [wire EXCEPT ![t] = IF turn[t].connected THEN @ \o events ELSE @]

Step(t, r) == turn' = [turn EXCEPT ![t] = r]

(* drop_offer: an unfinished preparation is asked to stop, nobody waits for it. *)
Dropped(offer) == IF offer = "preparing" THEN "cancelling" ELSE offer

(* An answer, or a terminal event, after which the request is over and its locals die. *)
Ended(r) ==
    [NoTurn EXCEPT !.at = "ended", !.route = r.route, !.connected = r.connected,
                   !.offer = Dropped(r.offer), !.asks = r.asks, !.consumed = r.consumed, !.token = IF r.consumed THEN r.token ELSE None]

Ends(t, r, events) ==
    /\ Step(t, Ended(r))
    /\ Send(t, events)
    /\ UNCHANGED <<session, grant>>

Fails(t) == Ends(t, turn[t], <<Event("failed")>>)

-----------------------------------------------------------------------------
(* Before the reply: upload, speech-to-text, controller. *)

(* 413 and 500 are failures; 422 stands for silence and for a clip off contract. *)
Refuse(t) ==
    /\ At(t, "received")
    /\ \E status \in {"no_speech", "failed"} : Ends(t, turn[t], <<Event(status)>>)

Planned(t, r) ==
    /\ Step(t, [r EXCEPT !.at = IF On(t, "stream") THEN "planned" ELSE "closing"])
    /\ UNCHANGED <<wire, session>>

(* A transcript Whisper doubted is answered before the controller sees it. *)
AskToRepeat(t) ==
    /\ At(t, "received") /\ turn[t].route # "vision"
    /\ Planned(t, [turn[t] EXCEPT !.asks = On(t, "stream") /\ turn[t].short])
    /\ UNCHANGED grant

(* A closed branch that only observes the actor, or finds no grant to spend; a memory *)
(* answer may ask again.                                                              *)
DecidePlan(t) ==
    /\ At(t, "received")
    /\ \E again \in IF On(t, "stream") THEN BOOLEAN ELSE {FALSE} :
          Planned(t, [turn[t] EXCEPT !.asks = again])
    /\ UNCHANGED grant

(* The only branch that spends a grant: the face is judged first, then the token, which *)
(* is burned even when the person behind it cannot be read.                             *)
DecideProtectedRead(t) ==
    LET k == turn[t].token
        spends == k # None /\ grant[k] = "live"
    IN  /\ At(t, "received") /\ turn[t].route # "vision"
        /\ spends
        /\ \/ /\ grant' = [grant EXCEPT ![k] = "spent"]
              /\ \E known \in BOOLEAN : Planned(t, [turn[t] EXCEPT !.consumed = known])
           \/ /\ grant' = [grant EXCEPT ![k] = "spent"]
              /\ \E known \in BOOLEAN :
                    Step(t, Ended([turn[t] EXCEPT !.consumed = known]))
              /\ Send(t, <<Event("failed")>>)
              /\ UNCHANGED session

(* A visual question of the classic route: speak a cue and ask for a frame. *)
DecideLook(t) ==
    /\ At(t, "received") /\ On(t, "classic")
    /\ \/ Ends(t, turn[t], <<[Event("reply") EXCEPT !.vision_requested = TRUE]>>)
       \/ Fails(t)

(* identify_generic_speaker: a face, a veto, or a token that is only observed.  The second *)
(* round about a frame identifies nobody.                                                 *)
Speakers(t) ==
    LET k    == turn[t].token
        seen == IF On(t, "vision") THEN {} ELSE People
    IN  [who : seen, face : {TRUE}]
          \cup {[who |-> NoOne, face |-> FALSE]}
          \cup (IF k # None /\ grant[k] = "live" THEN {[who |-> Owner, face |-> FALSE]} ELSE {})

(* A generic decision; prepare_text_turn: the speaker decides what the turn may read. *)
OpenTurn(t) ==
    /\ At(t, "received")
    /\ \E s \in Speakers(t) :
          /\ session' = Opened(session, s.who)
          /\ Step(t, [turn[t] EXCEPT !.at = "opened", !.face = s.face,
                                     !.view = View(session, s.who)])
    /\ UNCHANGED <<wire, grant>>

-----------------------------------------------------------------------------
(* A deterministic plan on the stream: stream_response_plan under the guarantee. *)

PlanOpens(t) ==
    /\ At(t, "planned")
    /\ Step(t, [turn[t] EXCEPT !.at = "plan_speaks", !.emotion = TRUE])
    /\ Send(t, <<Event("text_heard"), Event("emotion")>>)
    /\ UNCHANGED <<session, grant>>

Done(t, asks) ==
    [Event("done") EXCEPT !.authentication_consumed = turn[t].consumed,
                          !.expects_short_reply = asks]

PlanSpeaks(t) ==
    /\ At(t, "plan_speaks")
    /\ \/ Ends(t, turn[t], <<Event("audio"), Done(t, turn[t].asks)>>)
       \/ Ends(t, turn[t], <<Event("error")>>)

-----------------------------------------------------------------------------
(* A generic turn: stream_pipeline, or process_text_turn on the other routes. *)

StartReply(t) ==
    /\ At(t, "opened")
    /\ Step(t, [turn[t] EXCEPT !.at = "model",
                               !.offer = IF turn[t].face THEN "preparing" ELSE "none"])
    /\ Send(t, IF On(t, "stream") THEN <<Event("text_heard")>> ELSE <<>>)
    /\ UNCHANGED <<session, grant>>

(* Mutant: a cancelled preparation swallows its CancelledError and never returns. *)
PrepareWhatever(t) ==
    /\ turn[t].offer = "preparing"
    /\ \E o \in {"ready", "none"} : Step(t, [turn[t] EXCEPT !.offer = o])
    /\ UNCHANGED <<wire, session, grant>>

(* The background preparation ends, or notices that it was cancelled. *)
PrepareOffer(t) ==
    /\ turn[t].offer \in {"preparing", "cancelling"}
    /\ \E o \in IF turn[t].offer = "preparing" THEN {"ready", "none"} ELSE {"none"} :
          Step(t, [turn[t] EXCEPT !.offer = o])
    /\ UNCHANGED <<wire, session, grant>>

(* The first valid content promotes the user's emotion; at most one emotion per turn. *)
PromoteEmotion(t) ==
    /\ At(t, "model") /\ On(t, "stream") /\ ~ turn[t].emotion
    /\ Step(t, [turn[t] EXCEPT !.emotion = TRUE])
    /\ Send(t, <<Event("emotion")>>)
    /\ UNCHANGED <<session, grant>>

SpeakSentence(t) ==
    /\ At(t, "model") /\ On(t, "stream") /\ turn[t].emotion /\ ~ turn[t].spoken
    /\ Step(t, [turn[t] EXCEPT !.spoken = TRUE])
    /\ Send(t, <<Event("audio")>>)
    /\ UNCHANGED <<session, grant>>

(* The stream of the model ends: what is left was spoken, or the reply is no reply. *)
EndOfModel(t) ==
    /\ At(t, "model") /\ On(t, "stream") /\ turn[t].spoken
    /\ Step(t, [turn[t] EXCEPT !.at = "record"])
    /\ UNCHANGED <<wire, session, grant>>

(* StreamProtocolError, or an empty stream. *)
InvalidReply(t) ==
    /\ At(t, "model") /\ On(t, "stream")
    /\ Step(t, [turn[t] EXCEPT !.at = "fallback", !.outcome = "fallback"])
    /\ UNCHANGED <<wire, session, grant>>

(* LLMError or ValueError: the fallback is spoken by the handler itself. *)
ModelFails(t) ==
    /\ At(t, "model") /\ On(t, "stream")
    /\ Step(t, [turn[t] EXCEPT !.at = "rescue", !.outcome = "fallback"])
    /\ UNCHANGED <<wire, session, grant>>

(* Mutant: the fallback always announces its neutral emotion. *)
AlwaysNeutral(t) == <<Event("emotion")>>

(* emit_fallback: neutral when no emotion was sent yet, then the fixed phrase. *)
FallbackEmotion(t) == IF turn[t].emotion THEN <<>> ELSE <<Event("emotion")>>

EmitFallback(t) ==
    /\ At(t, "fallback") \/ At(t, "rescue")
    /\ Step(t, [turn[t] EXCEPT !.at = "record", !.emotion = TRUE, !.spoken = TRUE])
    /\ Send(t, FallbackEmotion(t) \o <<Event("audio")>>)
    /\ UNCHANGED <<session, grant>>

(* TTSError while the model's reply, or the fallback of an invalid one, is spoken: the *)
(* preparation is cancelled and awaited before the error goes out.                    *)
SpeechFails(t) ==
    /\ \/ At(t, "model") /\ On(t, "stream") /\ turn[t].emotion
       \/ At(t, "fallback")
    /\ Step(t, [turn[t] EXCEPT !.at = "abort", !.outcome = "tts_error", !.emotion = TRUE,
                               !.offer = Dropped(@)])
    /\ Send(t, FallbackEmotion(t))
    /\ UNCHANGED <<session, grant>>

Abort(t) ==
    /\ At(t, "abort") /\ turn[t].offer # "cancelling"
    /\ Ends(t, turn[t], <<Event("error")>>)

(* TTSError inside the handler of a model failure: no clause of that try sees it.  The *)
(* finally only asks the preparation to stop, and the error goes out without waiting. *)
RescueFails(t) ==
    /\ At(t, "rescue")
    /\ Ends(t, turn[t], FallbackEmotion(t) \o <<Event("error")>>)

(* _generate: the model's reply or the fallback phrase, at once. *)
Generate(t) ==
    /\ At(t, "model") /\ ~ On(t, "stream")
    /\ \E o \in {"ok", "fallback"} : Step(t, [turn[t] EXCEPT !.at = "record", !.outcome = o])
    /\ UNCHANGED <<wire, session, grant>>

(* Any other exception: a terminal error on the stream, a 500 on the other routes. *)
Unexpected(t) ==
    /\ turn[t].at \in {"model", "fallback", "rescue", "record", "offer"}
    /\ Ends(t, turn[t], <<Event(IF On(t, "stream") THEN "error" ELSE "failed")>>)

(* _record_success: neither the fallback nor half a reply counts. *)
Succeeded(t) == turn[t].outcome = "ok"

(* Mutant: the exchange goes to the session the turn opened, whose it is now unseen. *)
RecordUnchecked(t) ==
    /\ At(t, "record")
    /\ Step(t, [turn[t] EXCEPT !.at = "offer", !.captured = ~ On(t, "vision")])
    /\ \E n \in Sizes :
          session' = IF turn[t].outcome = "ok" /\ turn[t].view.person # NoOne
                     THEN [session EXCEPT !.pairs = Trim(Append(@, Exchange(turn[t].view, n))),
                                          !.silent = FALSE]
                     ELSE session
    /\ UNCHANGED <<wire, grant>>

(* record_text_turn and record_turn: session and proposal for a good reply only, the *)
(* conversation record for whatever was said, except about a frame.                  *)
Record(t) ==
    /\ At(t, "record")
    /\ Step(t, [turn[t] EXCEPT !.at = "offer", !.captured = ~ On(t, "vision"),
                    !.proposed = Succeeded(t) /\ turn[t].face])
    /\ \E n \in Sizes :
          session' = IF Succeeded(t)
                     THEN RecordPair(session, turn[t].view, n)
                     ELSE session
    /\ UNCHANGED <<wire, grant>>

(* Mutant: finish_offer cancels the preparation of a failed reply and does not wait. *)
CancelAtOnce(t) ==
    /\ At(t, "offer") /\ ~ Succeeded(t)
    /\ Step(t, [turn[t] EXCEPT !.at = "closing", !.offer = Dropped(@)])
    /\ UNCHANGED <<wire, session, grant>>

(* finish_offer: a good reply waits for the preparation and commits it (the commit may *)
(* lose its compare-and-set); any other cancels the preparation and waits for it.      *)
CommitOffer(t) ==
    /\ At(t, "offer") /\ Succeeded(t)
    /\ turn[t].offer # "preparing"
    /\ \E o \in IF turn[t].offer = "ready" THEN {"committed", "none"} ELSE {turn[t].offer} :
          Step(t, [turn[t] EXCEPT !.at = "closing", !.offer = o])
    /\ UNCHANGED <<wire, session, grant>>

CancelOffer(t) ==
    /\ At(t, "offer") /\ ~ Succeeded(t)
    /\ \/ /\ turn[t].offer = "preparing"
          /\ Step(t, [turn[t] EXCEPT !.offer = "cancelling"])
       \/ /\ turn[t].offer \notin {"preparing", "cancelling"}
          /\ Step(t, [turn[t] EXCEPT !.at = "closing"])
    /\ UNCHANGED <<wire, session, grant>>

(* The offer is one more clip, skipped when it cannot be synthesized; done says whether *)
(* it was spoken.  A generic turn never consumed a grant.                               *)
CloseStream(t) ==
    /\ At(t, "closing") /\ On(t, "stream")
    /\ \E offered \in IF turn[t].offer = "committed" THEN BOOLEAN ELSE {FALSE} :
          Ends(t, [turn[t] EXCEPT !.asks = offered],
               (IF offered THEN <<Event("audio")>> ELSE <<>>) \o <<Done(t, offered)>>)

(* The body of the classic routes, with or without the offer in its clip; 500 when even *)
(* the reply alone cannot be synthesized.                                               *)
CloseClassic(t) ==
    /\ At(t, "closing") /\ ~ On(t, "stream")
    /\ \/ Ends(t, turn[t], <<[Event("reply") EXCEPT !.authentication_consumed = turn[t].consumed]>>)
       \/ Fails(t)

-----------------------------------------------------------------------------
(* Once the response has started the robot's hang-up cancels the generator. *)

Streaming == {"planned", "plan_speaks", "opened", "model", "fallback", "rescue",
              "abort", "record", "offer", "closing"}

HangUp(t) ==
    /\ ~ turn[t].connected /\ On(t, "stream") /\ turn[t].at \in Streaming
    /\ Ends(t, turn[t], <<>>)

(* The reply on the stream, and what it shares with process_text_turn. *)
StreamPipeline(t) ==
    \/ PromoteEmotion(t) \/ SpeakSentence(t) \/ EndOfModel(t)
    \/ InvalidReply(t) \/ ModelFails(t) \/ EmitFallback(t) \/ SpeechFails(t)
    \/ Abort(t) \/ RescueFails(t) \/ CloseStream(t)

TextTurn(t) ==
    \/ StartReply(t) \/ Generate(t) \/ Unexpected(t) \/ Record(t)
    \/ CommitOffer(t) \/ CancelOffer(t)

ServerStep(t) ==
    \/ Refuse(t) \/ AskToRepeat(t) \/ DecidePlan(t) \/ DecideProtectedRead(t)
    \/ DecideLook(t) \/ OpenTurn(t)
    \/ PlanOpens(t) \/ PlanSpeaks(t)
    \/ StreamPipeline(t) \/ TextTurn(t) \/ CloseClassic(t)

(* A grant outlives its TTL. *)
Expire(k) ==
    /\ grant[k] = "live"
    /\ grant' = [grant EXCEPT ![k] = "expired"]
    /\ UNCHANGED <<turn, wire, session>>

(* Nobody completes an exchange for WORKING_MEMORY_IDLE_SECONDS. *)
Quiet ==
    /\ session.person # NoOne /\ ~ session.silent
    /\ session' = FallsSilent(session)
    /\ UNCHANGED <<turn, wire, grant>>
=============================================================================
