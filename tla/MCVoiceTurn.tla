---------------------------- MODULE MCVoiceTurn ----------------------------
(* Every exchange counts one character, of two a session may hold. *)
EXTENDS VoiceTurn

MCSizes == {1}
=============================================================================
