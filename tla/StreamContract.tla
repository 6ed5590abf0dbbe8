--------------------------- MODULE StreamContract ---------------------------
(***************************************************************************)
(* The wire of POST /transcribe/stream as both ends understand it: the     *)
(* events of schemas_streaming.py and stream_events.py, and the order the  *)
(* robot enforces on them (robot/stream_validation.py).                    *)
(***************************************************************************)

Streamed == {"text_heard", "emotion", "audio", "done", "error"}

(* Answers that are not streams: a 422, any other failure, the classic body. *)
Answered == {"no_speech", "failed", "reply"}

Event(type) ==
    [type |-> type, authentication_consumed |-> FALSE,
     expects_short_reply |-> FALSE, vision_requested |-> FALSE]

EventSet ==
    [type : Streamed \cup Answered, authentication_consumed : BOOLEAN,
     expects_short_reply : BOOLEAN, vision_requested : BOOLEAN]

(* StreamValidationState; "terminal" keeps the event itself. *)
NothingYet == Event("text_heard")

FreshValidation == [emotion_seen |-> FALSE, audio_seen |-> FALSE, terminal |-> NothingYet]

ValidationSet == [emotion_seen : BOOLEAN, audio_seen : BOOLEAN, terminal : EventSet]

done_seen(v)  == v.terminal.type = "done"
error_seen(v) == v.terminal.type = "error"

Accepts(v, e) ==
    /\ ~ done_seen(v) /\ ~ error_seen(v)
    /\ \/ e.type = "emotion" /\ ~ v.emotion_seen
       \/ e.type = "audio" /\ v.emotion_seen
       \/ e.type = "done" /\ v.audio_seen
       \/ e.type = "error"

Accepted(v, e) ==
    [emotion_seen |-> v.emotion_seen \/ e.type = "emotion",
     audio_seen   |-> v.audio_seen \/ e.type = "audio",
     terminal     |-> IF e.type \in {"done", "error"} THEN e ELSE v.terminal]

Finishes(v) == error_seen(v) \/ (v.audio_seen /\ done_seen(v))
=============================================================================
