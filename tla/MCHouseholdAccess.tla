------------------------- MODULE MCHouseholdAccess -------------------------
(* Small instances of HouseholdAccess and SpokenTurn, by combinations of requests. *)
EXTENDS SpokenTurn, TLC

CONSTANTS c1, c2, r1, r2

NoScopes == [t \in {} |-> "none"]
Frames   == {"none", "owner", "stranger", "two"}
Clips    == {"none", "owner", "stranger"}

Mix(attempts, unlocks, operator, faults, until, enrolled, scopes, kinds1, tokens1, kinds2, tokens2, frames, clips) ==
    [callers |-> IF attempts > 1 THEN {c1, c2} ELSE IF attempts > 0 THEN {c1} ELSE {},
     calls |-> attempts, unlocks |-> unlocks,
     operator |-> operator, faults |-> faults, until |-> until,
     enrolled |-> enrolled, scopes |-> scopes,
     kinds |-> (r1 :> kinds1 @@ r2 :> kinds2),
     tokens |-> (r1 :> tokens1 @@ r2 :> tokens2), frames |-> frames, clips |-> clips,
     switches |-> (r1 :> {} @@ r2 :> {})]

ReadKinds == Kinds \ (Admin \union {"household"})

(* Two clients guess while the operator changes the PIN; or make one *)
(* attempt each while the role may be lost as well.                   *)
Guessing(attempts, operator) ==
    Mix(attempts, {"biometric_admin"}, operator, TRUE, 3, FALSE, NoScopes, {}, {}, {}, {}, {}, {})

Unlocking == Guessing(4, {"save_pin", "revoke_pin"})
LosingTheRole == Guessing(2, {"save_pin", "revoke_pin", "revoke_role"})

(* A token is issued and two requests present it. *)
Sharing == Mix(1, Scopes, {}, FALSE, 2, FALSE, NoScopes,
               {"children", "relatives"}, {1}, {"children", "face_revoke"}, {1},
               {"none"}, {"none"})

(* Somebody asks with the face, or with a token, while a biometric is *)
(* revoked and the role may be lost.                                  *)
Asking(until, tokens, frames, clips) ==
    Mix(0, {}, {"revoke_role"}, TRUE, until, TRUE,
        (1 :> "biometric_admin" @@ 2 :> "personal_protected_read"),
        ReadKinds, tokens, {"face_revoke", "voice_revoke"}, {1}, frames, clips)

AskingByFace  == Asking(0, {NoToken, 2}, Frames \ {"none"}, Clips)
AskingByToken == Asking(1, {2}, {"none"}, {"none"})

(* Somebody asks while the owner enrols. *)
Enrolling == Mix(0, {}, {}, FALSE, 0, FALSE, (1 :> "biometric_admin"),
                 {"security", "profile"}, {NoToken}, {"face_enroll", "voice_enroll"}, {1},
                 {"owner"}, {"owner"})

(* An enrolment and a revocation at once. *)
Administering == Mix(0, {}, {}, FALSE, 0, FALSE,
                     (1 :> "biometric_admin" @@ 2 :> "biometric_admin"),
                     {"voice_enroll", "face_enroll"}, {1}, {"voice_revoke", "face_revoke"}, {2},
                     {}, {})

-----------------------------------------------------------------------------
(* Messages of one sentence: an opening or two, somebody and up to one     *)
(* word after; some phrases; and a question beside a story.                *)
Openings == {"oye", "po", "sabes_que", "por_que", "que", "quien", "cuando", "cuantos", "dime",
             "sabes", "te_acuerdas", "te_conte", "edad", "la", "nacio", "cumple",
             "regalo", "te_gusta", "autorizo", "tengo", "como", "se_llama"}
Somebody == {<<"mi", "hijo">>, <<"mi", "suegra">>, <<"mi", "pareja">>,
             <<"su", "hijo">>, <<"zeta">>, <<"otro">>, <<"mi", "clave">>}
Endings  == {"zeta", "tengo", "mil", "ayer"}

UpToOne(words)  == {<<>>} \union {<<word>> : word \in words}
Opening         == UpToOne(Openings)
                   \union ({"dime", "te_acuerdas", "como"} \X Openings)
Phrases         == {<<word>> : word \in {"quien_soy", "que_ves", "que_sabes_de_mi", "que_dia_es_hoy",
                     "aprende_mi_cara", "conoce_a", "cuantos_anos_tengo", "que_remedios_tomo", "cuando_es_mi_cumple",
                     "no_guardes", "autorizo", "zeta"}}
                   \union {<<"quienes_son", "mi", "hijo">>, <<"cuantos", "hijo", "tengo">>,
                           <<"quien", "tiene", "la", "clave">>, <<"donde_guardo", "mi", "testamento">>,
                           <<"guarda", "la", "clave">>, <<"cuando", "nacio", "zeta">>,
                           <<"te_acuerdas", "cuando", "nacio", "zeta">>}
Spoken          == {opening \o who \o ending :
                      opening \in Opening, who \in Somebody, ending \in UpToOne(Endings)}
                   \union Phrases
Story           == [words |-> <<"mi", "suegra", "otro">>, mark |-> "none"]
OneSentence     == {<<[words |-> words, mark |-> mark]>> :
                      words \in Spoken, mark \in {"asks", "none"}}
WhatIsSaid      == OneSentence
                   \union {message \o <<Story>> : message \in
                             {<<[words |-> <<word>>, mark |-> "asks"]>> : word \in Openings}}
                   \union {<<[words |-> words, mark |-> "exclaims"]>> :
                             words \in {<<"que", "mi", "hijo">>, <<"que", "mi", "perro", "tengo">>}}
Zeta            == {"zeta"}

(* Nothing wired, everything, and each reader without the other. *)
Wirings == {{}, {"memory"}, {"memory", "profile", "recall"}, {"memory", "sensitive"},
            {"memory", "profile", "recall", "sensitive"}}

(* The owner, somebody else or nobody in front of the robot says something. *)
Talking == [Mix(0, {}, {}, TRUE, 0, TRUE, NoScopes, {}, {NoToken}, {}, {},
                {"owner", "stranger", "two"}, {"none", "owner"})
              EXCEPT !.switches[r1] = Wirings]

(* Somebody whom the robot does not see holds a token of the owner. *)
Whispering == [Mix(0, {}, {}, TRUE, 0, TRUE, (2 :> "personal_protected_read"), {}, {2}, {}, {},
                   {"none"}, {"none"})
                 EXCEPT !.switches[r1] = {{"memory", "profile", "recall", "sensitive"}}]

AllMixes ==
    [unlocking |-> Unlocking, roleless |-> LosingTheRole, sharing |-> Sharing, byFace |-> AskingByFace,
     byToken |-> AskingByToken, enrolling |-> Enrolling,
     administering |-> Administering, talking |-> Talking, whispering |-> Whispering]
AdminMix == [administering |-> Administering]
=============================================================================
