----------------------------- MODULE VoiceTurn -----------------------------
(***************************************************************************)
(* The robot's state machine (robot/app.py, app_streaming.py,              *)
(* audio_playback.py) against the server of VoiceServer: one utterance at  *)
(* a time is captured, sent, answered and played, over a connection that   *)
(* may fail at any moment, with a server that keeps working on a request   *)
(* the robot has given up.                                                 *)
(***************************************************************************)
EXTENDS VoiceServer

CONSTANT Modes  \* the values of robot_streaming to explore

ASSUME VoiceTurnAssumption == Modes \subseteq BOOLEAN

VARIABLES
    streaming,  \* settings.robot_streaming, fixed at start
    state,      \* RobotState
    ctx,        \* LoopContext: identity_token, short_reply, short_reply_next, look
    current,    \* the request of this interaction, or None
    playback,   \* play_wav_stream: queue length, producer task, validation state
    heard       \* history: requests whose reply was played to the end

robotVars == <<streaming, state, ctx, current, playback, heard>>
vars == <<serverVars, robotVars>>

RobotStates == {"IDLE", "LISTENING", "THINKING", "SPEAKING", "LOOKING", "ERROR"}

FreshPlayback == [queued |-> 0, producer |-> "running", validation |-> FreshValidation]

NewContext(token) ==
    [identity_token |-> token, short_reply |-> FALSE, short_reply_next |-> FALSE, look |-> FALSE]

(* _prompt_owner_unlock: nothing, or one grant of the server. *)
Init ==
    /\ ServerInit
    /\ streaming \in Modes
    /\ state = "IDLE"
    /\ \E k \in {None} \cup (Tokens \cap {1}) :
          /\ ctx = NewContext(k)
          /\ grant = [i \in Tokens |-> IF i = k THEN "live" ELSE "unissued"]
    /\ current = None
    /\ playback = FreshPlayback
    /\ heard = {}

Unused == {t \in Turns : At(t, "unused")}

GoTo(s) == state' = s

(* The robot reads the next line of its request. *)
NextLine(t) == Head(wire[t])
Readable(t) == turn[t].connected /\ wire[t] # <<>>
Read(t) == wire' = [wire EXCEPT ![t] = Tail(@)]

(* The robot closes a response it has not read to the end. *)
Close(t) ==
    /\ turn' = [turn EXCEPT ![t].connected = FALSE]
    /\ wire' = [wire EXCEPT ![t] = <<>>]

-----------------------------------------------------------------------------
(* IDLE, LISTENING, ERROR. *)

Idle ==
    /\ state = "IDLE" /\ GoTo("LISTENING")
    /\ ctx' = [ctx EXCEPT !.short_reply = FALSE, !.look = FALSE]
    /\ current' = None
    /\ playback' = FreshPlayback
    /\ UNCHANGED <<serverVars, streaming, heard>>

(* Reply mode is taken from short_reply_next for this one capture. *)
Capture(short, next) ==
    /\ state = "LISTENING" /\ GoTo(next)
    /\ ctx' = [ctx EXCEPT !.short_reply = short, !.short_reply_next = FALSE]
    /\ UNCHANGED <<serverVars, streaming, current, playback, heard>>

Utterance    == Unused # {} /\ Capture(ctx.short_reply_next, "THINKING")
Silence      == Capture(FALSE, "IDLE")
CaptureFails == Capture(FALSE, "ERROR")

(* Mutant: an error leaves the flag of the question it interrupted. *)
RecoverKeeping ==
    /\ state = "ERROR" /\ GoTo("IDLE")
    /\ ctx' = [ctx EXCEPT !.short_reply = FALSE]
    /\ UNCHANGED <<serverVars, streaming, current, playback, heard>>

Recover ==
    /\ state = "ERROR" /\ GoTo("IDLE")
    /\ ctx' = [ctx EXCEPT !.short_reply = FALSE, !.short_reply_next = FALSE]
    /\ UNCHANGED <<serverVars, streaming, current, playback, heard>>

-----------------------------------------------------------------------------
(* THINKING and LOOKING: one request, and its answer or its first event. *)

(* The classic request carries no short_reply field. *)
Request(route, token, short) ==
    LET t == Min(Unused) IN
    /\ Unused # {}
    /\ turn' = [turn EXCEPT ![t] = [NoTurn EXCEPT !.at = "received", !.route = route,
                                                  !.token = token, !.short = short]]
    /\ current' = t
    /\ UNCHANGED <<wire, session, grant, streaming, state, ctx, playback, heard>>

Think ==
    /\ state = "THINKING" /\ current = None
    /\ IF streaming THEN Request("stream", ctx.identity_token, ctx.short_reply)
                    ELSE Request("classic", ctx.identity_token, FALSE)

NoSpeech ==
    /\ state = "THINKING" /\ current # None /\ Readable(current)
    /\ NextLine(current).type = "no_speech" /\ Read(current) /\ GoTo("IDLE")
    /\ UNCHANGED <<turn, session, grant, streaming, ctx, current, playback, heard>>

(* Mutant: the token is forgotten after any answer. *)
ReplyForgetsToken ==
    /\ state = "THINKING" /\ current # None /\ Readable(current)
    /\ NextLine(current).type = "reply" /\ Read(current) /\ GoTo("SPEAKING")
    /\ ctx' = [ctx EXCEPT !.identity_token = None, !.look = NextLine(current).vision_requested]
    /\ UNCHANGED <<turn, session, grant, streaming, current, playback, heard>>

(* transcribe(): a spent grant is never carried into another turn. *)
ClassicReply ==
    /\ state = "THINKING" /\ current # None /\ Readable(current)
    /\ NextLine(current).type = "reply" /\ Read(current) /\ GoTo("SPEAKING")
    /\ ctx' = [ctx EXCEPT
                 !.identity_token = IF NextLine(current).authentication_consumed THEN None ELSE @,
                 !.look = NextLine(current).vision_requested]
    /\ UNCHANGED <<turn, session, grant, streaming, current, playback, heard>>

(* on_thinking_stream reads the first event only. *)
FirstEvent ==
    /\ state = "THINKING" /\ streaming /\ current # None /\ Readable(current)
    /\ NextLine(current).type = "text_heard" /\ Read(current) /\ GoTo("SPEAKING")
    /\ UNCHANGED <<turn, session, grant, streaming, ctx, current, playback, heard>>

(* A status other than 422, a broken connection, a first event that is no transcript. *)
RequestFails ==
    /\ state = "THINKING" /\ current # None
    /\ \/ ~ turn[current].connected
       \/ Readable(current) /\ NextLine(current).type \notin {"no_speech", "reply", "text_heard"}
    /\ Close(current) /\ GoTo("ERROR")
    /\ UNCHANGED <<session, grant, streaming, ctx, current, playback, heard>>

Look ==
    /\ state = "LOOKING" /\ current # None /\ turn[current].route = "classic"
    /\ Request("vision", None, FALSE)

CameraFails ==
    /\ state = "LOOKING" /\ turn[current].route = "classic" /\ GoTo("IDLE")
    /\ UNCHANGED <<serverVars, streaming, ctx, current, playback, heard>>

VisionReply ==
    /\ state = "LOOKING" /\ turn[current].route = "vision" /\ Readable(current)
    /\ NextLine(current).type = "reply" /\ Read(current) /\ GoTo("SPEAKING")
    /\ ctx' = [ctx EXCEPT !.look = NextLine(current).vision_requested]
    /\ UNCHANGED <<turn, session, grant, streaming, current, playback, heard>>

VisionFails ==
    /\ state = "LOOKING" /\ turn[current].route = "vision"
    /\ ~ turn[current].connected \/ (Readable(current) /\ NextLine(current).type # "reply")
    /\ Close(current) /\ GoTo("IDLE")
    /\ UNCHANGED <<session, grant, streaming, ctx, current, playback, heard>>

-----------------------------------------------------------------------------
(* SPEAKING. *)

Plays ==
    /\ state = "SPEAKING" /\ ~ streaming
    /\ GoTo(IF ctx.look THEN "LOOKING" ELSE "IDLE")
    /\ heard' = heard \cup {current}
    /\ UNCHANGED <<serverVars, streaming, ctx, current, playback>>

PlaybackFails ==
    /\ state = "SPEAKING" /\ ~ streaming /\ GoTo("ERROR")
    /\ UNCHANGED <<serverVars, streaming, ctx, current, playback, heard>>

(* The producer's locals die with it; what it queued is still played. *)
Produced(how) == playback' = [FreshPlayback EXCEPT !.producer = how, !.queued = playback.queued]

Producing == state = "SPEAKING" /\ streaming /\ playback.producer = "running"

(* The producer task: one event validated, its clip queued. *)
Produce ==
    /\ Producing /\ Readable(current)
    /\ LET e == NextLine(current)
           v == playback.validation
       IN  IF Accepts(v, e)
           THEN /\ Read(current) /\ UNCHANGED turn
                /\ playback' = [playback EXCEPT
                                  !.validation = Accepted(v, e),
                                  !.queued = IF e.type = "audio" THEN @ + 1 ELSE @]
           ELSE /\ Close(current)
                /\ Produced("rejected")
    /\ UNCHANGED <<session, grant, streaming, state, ctx, current, heard>>

(* The stream is exhausted: finish(), then the terminal event takes effect. *)
EndOfStream ==
    /\ Producing /\ turn[current].connected
    /\ At(current, "ended") /\ wire[current] = <<>>
    /\ LET v == playback.validation
           done == v.terminal
       IN  CASE ~ Finishes(v) ->
                  Produced("rejected") /\ UNCHANGED ctx
             [] error_seen(v) ->
                  Produced("failed") /\ UNCHANGED ctx
             [] OTHER ->
                  /\ Produced("finished")
                  /\ ctx' = [ctx EXCEPT
                       !.identity_token = IF done.authentication_consumed THEN None ELSE @,
                       !.short_reply_next = done.expects_short_reply]
    /\ UNCHANGED <<serverVars, streaming, state, current, heard>>

StreamBreaks ==
    /\ Producing /\ ~ turn[current].connected
    /\ Produced("failed")
    /\ UNCHANGED <<serverVars, streaming, state, ctx, current, heard>>

PlayClip ==
    /\ state = "SPEAKING" /\ streaming /\ playback.queued > 0
    /\ playback' = [playback EXCEPT !.queued = @ - 1]
    /\ UNCHANGED <<serverVars, streaming, state, ctx, current, heard>>

(* A clip that cannot be played cancels the producer, which closes the response. *)
ClipFails ==
    /\ state = "SPEAKING" /\ streaming /\ playback.queued > 0
    /\ IF playback.producer = "running" THEN Close(current) ELSE UNCHANGED <<turn, wire>>
    /\ playback' = FreshPlayback /\ GoTo("ERROR")
    /\ UNCHANGED <<session, grant, streaming, ctx, current, heard>>

(* play_wav_stream returns, or re-raises, once everything queued was played. *)
Drained ==
    /\ state = "SPEAKING" /\ streaming
    /\ playback.queued = 0 /\ playback.producer # "running"
    /\ IF playback.producer = "finished"
       THEN GoTo("IDLE") /\ heard' = heard \cup {current}
       ELSE GoTo("ERROR") /\ UNCHANGED heard
    /\ playback' = FreshPlayback
    /\ UNCHANGED <<serverVars, streaming, ctx, current>>

-----------------------------------------------------------------------------
(* The environment: a connection fails or times out; the robot is restarted. *)

ConnectionFails ==
    /\ current # None /\ turn[current].connected
    /\ state \in {"THINKING", "SPEAKING", "LOOKING"}
    /\ Close(current)
    /\ UNCHANGED <<session, grant, robotVars>>

(* A restart is bounded by the grants: it prompts for a PIN that is given. *)
Restart ==
    \E k \in Tokens :
        /\ grant[k] = "unissued"
        /\ grant' = [grant EXCEPT ![k] = "live"]
        /\ ctx' = NewContext(k)
        /\ GoTo("IDLE")
        /\ IF current # None THEN Close(current) ELSE UNCHANGED <<turn, wire>>
        /\ current' = None /\ playback' = FreshPlayback
        /\ UNCHANGED <<session, streaming, heard>>

Robot ==
    \/ Idle \/ Utterance \/ Silence \/ CaptureFails \/ Recover
    \/ Think \/ NoSpeech \/ ClassicReply \/ FirstEvent \/ RequestFails
    \/ Look \/ CameraFails \/ VisionReply \/ VisionFails
    \/ Plays \/ PlaybackFails \/ Produce \/ EndOfStream \/ StreamBreaks
    \/ PlayClip \/ ClipFails \/ Drained

Server(t) == ServerStep(t) /\ UNCHANGED robotVars
Offer(t)  == PrepareOffer(t) /\ UNCHANGED robotVars

Next ==
    \/ Robot
    \/ \E t \in Turns : Server(t) \/ Offer(t) \/ (HangUp(t) /\ UNCHANGED robotVars)
    \/ \E k \in Tokens : Expire(k) /\ UNCHANGED robotVars
    \/ Quiet /\ UNCHANGED robotVars
    \/ ConnectionFails \/ Restart

(* The robot's loop and the server's tasks are scheduled; nothing else is owed. *)
Fairness ==
    /\ WF_vars(Robot)
    /\ \A t \in Turns : WF_vars(Server(t)) /\ WF_vars(Offer(t))

Spec == Init /\ [][Next]_vars /\ Fairness
-----------------------------------------------------------------------------
(* Properties. *)

(* On a connection that does not fail, the robot's validator never rejects what any of *)
(* the server's paths to a fallback, an offer or an error puts on the wire.            *)
StreamIsAccepted == playback.producer # "rejected"

(* finish_offer and drop_offer: a request that is answered, or ends in the error of speech   *)
(* that failed, leaves no preparation running nor still stopping; only a TTSError inside the *)
(* handler of a model failure, or an exception nobody foresaw, does.                         *)
AnswersLeaveNothingRunning ==
    [][\A t \in Turns :
          (/\ turn[t].connected /\ turn[t].at # "ended" /\ turn'[t].at = "ended"
           /\ turn'[t].offer \in {"preparing", "cancelling"})
          => RescueFails(t) \/ Unexpected(t)]_vars

(* A clip is sent in reply mode only right after a turn that ended with a question and was *)
(* played to the end: not after a failed, broken or silent one in between.                 *)
ReplyModeAnswersAQuestion ==
    \A t \in Turns :
        turn[t].short => t - 1 \in heard /\ turn[t - 1].asks

(* Short of a restart, the robot forgets a token only when the server has spent it. *)
TokenKeptWhileLive ==
    [][\/ ctx'.identity_token \in {ctx.identity_token} \cup {k \in Tokens : grant[k] = "unissued"}
       \/ grant[ctx.identity_token] = "spent"]_vars

Sessions == INSTANCE ContinuitySession WITH view <- [t \in Turns |-> turn[t].view]

(* Turns that overlap use the session exactly as ContinuitySession allows. *)
ImplementsContinuitySession == Sessions!Spec

(* The robot never stays down: whatever fails, it listens again. *)
ListensAgain == []<>(state = "LISTENING")
=============================================================================
