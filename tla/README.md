# Verification of the Iroko robot

Iroko is a home robot: a small client with microphone, loudspeaker and camera
(`src/robot`), and a server (`src/server`) that transcribes what it hears,
decides who is speaking and what may be done for them, asks a local language
model, speaks, and keeps what the household allows it to remember in one SQLite
file. This directory holds TLA+ models of it, the TLC runs that check them and
the theorems TLAPS proves about them. `PROJECT.json` lists the runs, maps every
definition to the lines it translates, and records hazards and findings.

## 1. The system

### 1.1 Components, their state and operations

| Component | State | Operations | What must hold |
|---|---|---|---|
| Write transactions (`db.py`) | one aiosqlite connection, `_write_lock`, the worker thread's queue | `transaction()`, `checkpoint_wal()` | one transaction at a time, all or nothing, whatever is cancelled |
| Memory candidates (`memory/candidates.py`, `memory_writer.py`, `retention.py`) | rows of `memory_candidates`, `_checkpoint_pending` | insert, offer, resolve, promote, housekeeping, start-up reset | one open offer, bounded values, final resolutions, erased bytes leave the log |
| Proposals and offers in a turn (`candidate_proposal.py`, `candidate_dialogue.py`, `candidate_limits.py`, `text_turn.py`) | a prepared offer, one extraction slot, an hourly budget | propose, prepare/commit/drop an offer, answer | policy and audit before the effect; what is spoken is what was stored |
| Conversation record (`conversation_record.py`, `conversation_capture.py`, `conversation_jobs.py`, `conversation_episodes.py`, `conversation_consent.py`) | segments and their exchanges, diary entries | capture, close, summarize, purge, consent, delete | closed is final, one conversation per segment, the diary makes progress |
| Recall units (`recall_store.py`, `recall_index.py`, `recall_search.py`) | units, two indexes | index, embed, raise, search | indexes follow the units, only normal units are told |
| Continuity (`continuity.py`) | one slot with a generation | open, record pair, expire | no exchange of one person reaches another |
| Owner unlock (`cognition/owner_authentication.py`, `identity_sessions.py`) | failed attempts, grants, one-use tokens | PIN attempt, issue, peek, consume | bounded guessing, one use, right scope |
| Identity (`identity_fusion.py`, `face_authentication.py`, `speaker_authentication.py`, `strong_actor.py`) | none (pure over the evidence of a turn) | fuse, resolve actor | no role without evidence of its strength |
| Authorization (`authorization.py`, `household_authorization.py`) | audit rows | authorize | audit before access; deny by default |
| Controller and intents (`controller.py`, `intent_resolution.py`, `household_request.py`, `household_tools.py`, `sensitive_access.py`) | none | route a turn, read for it | each protected route behind its policy; no question about the family reaches the model |
| Turn streaming, server (`streaming.py`, `streaming_render.py`, `streaming_protocol.py`, `llm_streaming.py`) | one generator per turn | emit events | one terminal event, emotion before audio, honest bookkeeping |
| Robot (`app.py`, `app_streaming.py`, `stream_validation.py`, `server_client.py`) | FSM state, identity token, one-shot reply mode | listen, send, play, recover | accepts exactly the server's orders; token cleared once spent |
| Canonical writer, relational store (`canonical_writer.py`, `relational_v4.py`, `care_contacts.py`) | versioned facts, relations and contacts | write, supersede, revoke | one active value per key, one role per person, nothing overwritten by an import |
| Seed load, commissioning, local admin (`seed_run.py`, `commissioning.py`, `admin_cli.py`, `personal_setup.py`) | the commissioning record, its acta, the running load | set up, load, replace, close, edit | one load in one transaction, inside the open window, harmless when repeated |
| Biometric consents and enrolment (`biometric_consent.py`, `voice_consent.py`, `faces.py`, `voiceprints.py`) | consents, face profiles, voiceprints | enrol, grant, revoke | nothing is recognized without consent |
| Models (STT, TTS, LLM, VLM, embeddings) | none | inference | may fail, take time, or be cancelled |

### 1.2 How they interact

Every HTTP turn is a coroutine of one asyncio process. It identifies the
speaker, routes the turn (controller, intents, policy), streams the model's
answer and speaks it; after the reply it schedules a background capture. Two
background jobs run beside it: the conversation job (close idle segments, write
the diary, fill vectors) and the hourly retention job. All of them write through
`db.transaction()`, so a write is atomic and everything *between* two writes,
every `await`, is where others get in. The local administration tools work on
the same file and look for a running server once, before they begin. The robot talks to the server through one
HTTP request per turn whose response is a stream of JSON lines.

### 1.3 What is hard here

- Cancellation (a client that hangs up) arrives at any `await`; the worker
  thread still runs the call that was awaited.
- Clocks are read before waiting for the write lock, so transactions may run
  with an older "now" than the one before.
- Model calls take seconds to minutes between a read and the write that depends
  on it; purges, restarts and other turns happen meanwhile.
- Erased values stay in the write-ahead log until it is folded, which may be
  refused.
- Roles, consents, profiles and tokens are each read at an `await` of their own
  while the owner may revoke any of them.
- A message is matched against some twenty ordered rules, and several of them
  fall back to the language model, which would invent an answer.
- The command-line tools look once whether the server answers; they may overlap
  with it and with each other.
- A stream may break at any line, after the server has already recorded the turn
  or spent the token.

`PROJECT.json` lists each of these at its line under `hazards`.

## 2. Modules

| Module | Models | Composes |
|---|---|---|
| `AtomicWrites` | what a write transaction promises | – |
| `WriteTransaction` | `db.py`, the lock, the worker thread, cancellation, crash | implements `AtomicWrites` |
| `CandidateStore` | the candidate table, promotion, housekeeping, checkpoint debt | uses the atomicity `WriteTransaction` shows |
| `ConversationRecord` | captures, segments, diary, recall units, purge | same |
| `RecallSearch` | a recall question | EXTENDS `ConversationRecord` |
| `TasteGate` | the preference gate and the classifier, as operators | – |
| `CandidateDialogue` | the turns that propose, offer and answer | EXTENDS `CandidateStore`, `TasteGate` |
| `Identity` | evidence, face and speaker verdicts, their fusion, as operators | – |
| `Authorization` | the household policy as an operator | EXTENDS `Identity` |
| `OwnerUnlock` | PIN attempts, the limiter, one-use grants | EXTENDS `Authorization` |
| `HouseholdAccess` | requests that read protected data or administer biometrics | EXTENDS `OwnerUnlock` |
| `HouseholdRequest`, `IntentResolution` | the grammars and the ordered rules, as operators | `IntentResolution` EXTENDS `HouseholdRequest` |
| `SpokenTurn` | a message through the controller | EXTENDS `HouseholdAccess`, `IntentResolution` |
| `CanonicalStore` | the store's rows and the four writes, as operators | – |
| `SeedFile` | which seed files are read and what they plan | EXTENDS `CanonicalStore` |
| `Installation` | setup, load, closing, administration and life of one installation | EXTENDS `SeedFile` |
| `Continuity` | the session slot of `continuity.py` as pure operators | – |
| `ContinuitySession` | what the slot promises to any turns that use it | EXTENDS `Continuity` |
| `StreamContract` | the events of the stream and the robot's validator | – |
| `VoiceServer` | one request of the voice routes, from the upload to the last line | EXTENDS `Continuity`, `StreamContract` |
| `VoiceTurn` | the robot's FSM against `VoiceServer`, over a connection that may break | EXTENDS `VoiceServer`, implements `ContinuitySession` |
| `WriteTransaction_proofs`, `CandidateStore_proofs`, `ConversationRecord_proofs`, `ContinuitySession_proofs`, `CandidateDialogue_proofs`, `Installation_proofs`, `SpokenTurn_proofs`, `VoiceTurn_proofs` | theorems | EXTEND their module; `CandidateDialogue_proofs` also `CandidateStore_proofs`, `VoiceTurn_proofs` uses an INSTANCE of `ContinuitySession_proofs` |
| `MC*` | instances for TLC | |

### 2.1 WriteTransaction

`pc[t]` is the await a coroutine is suspended at. One action is one resumption
of a coroutine up to its next await, or one call run by the worker thread. The
`async with _write_lock` is `EnterLock`/`Leave`, the body's statements are
`Wrote`, the `except BaseException` branch is `BodyRaised` and `CancelCovered`,
the `else: COMMIT` branch is `CommitReturned`. `Cancel*` raise `CancelledError`
at the await: a waiter leaves the lock's line, a cancelled statement is rolled
back behind the abandoned call, and a cancellation at BEGIN, COMMIT, ROLLBACK
or the restore of the busy timeout is covered by no handler. A row holds the
name of the transaction that wrote it last, so a mixed commit is visible.
`CancelPoints` and `CommitMayFail` choose the environment.

### 2.2 CandidateStore

Each public entry of `candidates.py` is one action: its transaction (with the
housekeeping it always starts with) as one step, and `checkpoint_after_scrub`
as the steps that follow. Each takes its `now` from any earlier moment, because
the clock is read before the lock is awaited. `logged` says that bytes of an
erased value are still in the write-ahead log; `pending` is `_checkpoint_pending`.
`Reconcile` and `Serve` are `reset_for_startup`. The canonical writer behind the
promotion is reduced to "the claim is an active fact of the person"; `EditFact` is
another tool that writes or revokes such a fact, also while the server runs and an
offer is open.

### 2.3 ConversationRecord and RecallSearch

`records` joins a conversation record with its diary entry, `units` a recall unit
with its vector row. A capture runs `Hear` (the turn comes in), `AppendTurn` or
`OpenSegment` (the transaction of `append_turn`, with the recall unit written in
it), `EmbedTurn`; it may be dropped at every await. The conversation job is a
small machine, `job.step`, from `close_idle_records` to the diary
(`Choose`…`WriteEpisode`) and the vectors (`List`, `FillOne`); any failure ends
its tick. `Purge` is the retention job's. Deletions of records end with the
cascade and triggers of migrations 013 and 014. `RecallSearch` adds a question
whose two searches and whose read by id are separate steps.

### 2.4 Continuity and ContinuitySession

`session` is the slot of `continuity.py` with its generation; `DropIfIdle`,
`Opened`, `View`, `RecordPair` and `Trim` are its methods. An exchange is its
size, with the person and generation it was recorded under as history. Time is a
flag: `silent` says that the idle limit has passed, and the slot is dropped by
the next turn that opens it. `ContinuitySession` lets any turns open the slot and
write late.

### 2.5 VoiceServer and VoiceTurn

`turn[t]` is what the server knows of request `t`; `turn[t].at` is the place of
its handler: `received` (speech to text, identity and the controller), `planned`
and `plan_speaks` (`stream_response_plan`), `opened`, `model`, `fallback`,
`rescue`, `abort`, `record`, `offer`, `closing` (`stream_pipeline` or
`process_text_turn`), `ended`. `fallback` is the fallback spoken inside the `try`
of `_consume_llm_stream`'s caller, where a `TTSError` is handled; `rescue` is the
one spoken in the handler of a model failure, where it is not. `offer` is the
background preparation of a memory offer. `wire[t]` holds the lines on their way;
`Send` drops them once the robot has closed the connection, and `HangUp` is
Starlette cancelling the generator of a streaming response. A handler of a
classic route is never cancelled, so it goes on beside the robot's next request.

The robot's `state` is its `RobotState`; each handler of `app.py` and
`app_streaming.py` is an action per outcome. `playback` is `play_wav_stream`: the
producer task that reads, validates and queues, and the player that empties the
queue. The fields of a local (the validator, a finished request) go back to
their initial values when their function returns. `Restart` is a new process
with a new owner grant.

Taken for granted: memory switches are on; only the read of the own children
spends a grant, as in the controller, and every other branch observes it. A 422
stands for silence and for a clip off contract.

The vision route is the second round of a visual turn: it identifies nobody
(`Speakers`), so it opens the session for no person, never streams and keeps
nothing; a person's slot is given up by it as by any turn of somebody else.

A divergence that is modelled and has no run of its own: the comment at
`streaming.py:268-269` says that no background task outlives the turn. That holds in
the handler of a `TTSError`; when the *fallback* of a model failure cannot be
synthesized (`RescueFails`, `streaming.py:282`), `drop_offer` cancels the
preparation and does not await it, so it may still be stopping when the error goes
out. `AnswersLeaveNothingRunning` names this exception, with that of an unforeseen
exception (`Unexpected`): without it TLC finds the step, in the instance of
`ts_stream`.

### 2.6 CandidateDialogue over CandidateStore

`turn[t].at` is the await a voice turn is suspended at; entering the store is a
step of `CandidateStore`, and the checkpoint that follows is taken by that
module's steps before the turn goes on. A proposal goes through the gate
(`MatchPreference`), the face's and the voice's verification, the extraction slot
(`Acquire`, `Extracted`), and, triple by triple, the classifier, the enrolment,
the precheck, the policy with its audit row, the enrolment again and the insert.
An offer is prepared while the reply is generated and committed after it; an
answer is authorized and then promoted or rejected in one transaction.
`Cancel(t)` is a client that hangs up or an exception that ends the step;
`CheckpointFails` a checkpoint that raises after the answer was kept. The model's
triples are the extractor's choice, not the sentence's: what is stored has to
survive a wrong extraction. A combination may fix what the extractor answers each
turn, which facts a tool edits, and until when its turns begin. `starts` is the limiter's list, whose old entries
`Recent` drops from the front, as the loop of `popleft` does; `extracted` is the
history of all starts of the process, which nothing drops. `stored` remembers
each claim with the consents that had been active since its own audit row.

### 2.7 Identity, Authorization, OwnerUnlock, HouseholdAccess

`Identity` and `Authorization` are pure, and so are their sources:
`resolve_active_person`, the two verdicts, the fusion and
`evaluate_authorization` with its capability tables. `OwnerUnlock` runs a PIN
attempt step by step: `line` is the attempt lock (its head holds it), the digest
is computed outside the event loop while the operator may save another PIN,
revoke it or lose the role, and `wrong` remembers the failed attempts for
`GuessesBounded`. `HouseholdAccess` adds requests. `Plans[kind]` is the sequence
of questions a request asks the policy, those that a read of rows follows being
marked; `MatchFace` to `TokenRole` are the awaits of the three resolvers; `Ask`
is a decision with its audit row and `Read` the read after it. The `seen` field
notes what has been true at some moment since the request began, so
`RevokedSpeakerReadsNothing` allows a request to finish on what it saw and
forbids it to use what was never true meanwhile. A combination starts with at
most one token, and with none that it would issue (`MixesAssumption`): the code
draws tokens at random, the model numbers them.

### 2.8 HouseholdRequest, IntentResolution, SpokenTurn

A message is a sequence of sentences with a mark. Each list of words or phrases
of the code is a set with a representative or two, and a word belongs to as many
sets as in the code, so that the rules compete as they do there.
`ResolveInformationNeed` is the ordered list of rules, with those that wiring
adds or leaves out. `SpokenTurn` composes it with `HouseholdAccess`: `Hear`
resolves a message, `JudgeName` and `JudgeChild` look who is asking before a
stored name may count, `EndTurn` says whether a closed branch answers or the
language model does. A question that `JudgeChild` sends back to the rules may
become one of the own children, whose branch resolves its actor anew and spends
the grant (`Redirected`). `AsksAboutTheFamily` is the reference: it says in words of
its own what a question about the speaker's family is, and
`HouseholdStaysProtected` compares the rules, fallbacks and wirings with it. It
leaves out messages that have the shape of an answer to an offer, which the code
sets aside on purpose (`_protected_household_rule`).

### 2.9 CanonicalStore, SeedFile, Installation

A store is four sets of rows; `WriteLiteral`, `WriteRelation`, `WriteContact` and
`CreateThirdParty` return the store they leave and whether they were accepted.
`SeedFile` has the checks of the file and the plan of writes. `Installation` is
the life of one: the personal setup, each of whose transactions is a step; the
load, which holds the write lock from `LoadBegins` to `LoadEnds` while its writes
go on in `loader.work`, first as a dry run and after the review once more; the
closing, column by column, with the end and before it the acta, whose three reads
are steps of their own; the administrator; faces
learnt by name and tastes promoted by voice. An adult child of whom nothing is said
but the age of 0 passes the reader of the file, as in the code (`SaysNothing`). All may run together, because a
tool checks only once that the server does not answer.

## 3. Runs

| Run | Instance | Shows |
|---|---|---|
| `wt_safety` | 3 coroutines, 2 statements, every cancellation, failing COMMIT, crashes | lock ownership, no foreign statement in a transaction, honest outcomes, refinement of `AtomicWrites`, every call ends |
| `wt_begin_cancelled` | 2 coroutines | **violated**: finding 1 |
| `cd_dialogue` | 1 person, 3 claims of which 2 contradict, 3 rows under a cap of 2, 2 turns and the job, clock to 4; eight combinations | a taste is stored only with both consents and only if it was said, one slot and its budget, one question per offer, true answers; one open offer, live rows, erasure debts, clean starts, confirmations and the lapse of every value of the store below |
| `cs_commit_cancelled` | a cancellation at COMMIT | **violated**: finding 2 |
| `cr_safety` | 2 captures, 2 segments, 4 units, clock to 5, idle 2, retention 1 and 0, size cap 2 | segments, units, diary, vectors, purge |
| `cr_settled` | 1 capture, 2 segments, 2 attempts | the diary settles every record |
| `rs_raised` | 1 segment and one question | **violated**: finding 3 |
| `ha_access` | 2 callers, 2 requests, up to 4 attempts, 2 PIN versions, clock to 3, some 6,000 messages; nine combinations | the limiter, grants, audit before reads, revocations, every attempt answered, protected questions, names |
| `ha_voiceprint` | an enrolment and a revocation | **violated**: finding 4 |
| `in_install` | 2 conflicting files, 2 loads, 1 setup, 1 edit, 3 people | a repeated load is harmless, imports only in the open record, no row loses its entity |
| `ts_stream` | streaming robot, 2 requests, 1 person, no grant | the validator accepts every order of events, an answer leaves no preparation behind, reply mode only answers a question that was heard, the robot listens again |
| `ts_overlap` | classic robot with camera, 2 requests, 2 people, 1 grant | the robot keeps an unspent token, refinement of `ContinuitySession` |

Why the bounds are enough. In `wt_*` three coroutines are the holder, a waiter
and one that is cancelled or arrives late; two statements make a partial write
possible. In `cd_dialogue` the clock passes the answer window (1), the life time
(2) of a row and the span of the extraction budget (2); a transaction's clock
reading may be any earlier one. Three rows are one more than the cap: a turn with
a new claim finds the cap reached and a free row, and room again once the first has
lapsed; a claim that was offered once reaches `MaxOffers`. A *combination* (`Mixes`) is an initial state and the requests that run
from it: proposing under faults, the slot shared with the diary, the same taste
proposed twice as the cap fills, consents revoked and given again while a sentence with two tastes
is stored, two turns over one offer, three answers and offers, an
answer against an opposite fact, an answer while a tool writes or revokes the
fact and its opposite. `cs_commit_cancelled` is the same store alone.
In `cr_*` two segments are the least for a late capture to meet a closed one, and
the purge has an eligible and an ineligible record to choose from; attempts
saturate at `MaxAttempts`, and the ids left for episodes are reserved so that a
bound never stops the diary. `MaxDelay` bounds how late a capture writes; the runs
give it less than `Idle`. The code has no such bound: a capture waits for the reply,
the write lock and its own writes, and `working_memory_idle_seconds` is 180 by default.
`SegmentIsOneConversation` needs it: with `MaxDelay = Idle` TLC finds a late capture
that joins an open segment after the silence that should have ended it.

In `ha_*` two failures block for two units, so four attempts of two callers reach
and leave a block; the combinations are guessing while the PIN changes, losing
the role, a token shared by two requests, asking by face or by token while a
biometric is revoked, asking while the owner enrols, two administrators at once,
messages, and messages of somebody who is not seen and holds a token. A message has one sentence, of an opening of up to two words,
somebody and a closing word, or some phrases; or an opening and a story beside
it, which is the shape in which a rule on the whole message goes wrong.
`in_install` needs two files that differ in a section, in the people they create
and in their contacts; one face, one child at the setup and one edit suffice to
make an imported entity somebody else's too, and two loads to replace it.
In `ts_*` the hazards are
between one request and its successor: a reply recorded after the session
changed hands, a token spent twice, a flag that survives its question; two
requests are the least that show them. The server writes ahead of the robot by
one line (two, when an answer ends with a clip), so the queue, the wire and the
handler are all in use at once. `ts_stream` leaves grants to `ts_overlap`: that
`done.authentication_consumed` clears the token on the *stream* is modelled but
fires in neither run.

### 3.1 Fairness

- `WriteTransaction`: the event loop resumes every coroutine whose future is set
  and the worker drains its queue (weak fairness of `Resume(t)` and `Worker`).
  Nothing is assumed of callers, cancellations or crashes.
- `CandidateDialogue`: time passes, the retention job wakes up every hour
  (`retention.py` loops on a timer), its checkpoint returns, a stopped server is
  started again. Nothing is assumed of turns: a value lapses although no request
  ever touches the store again.
- `ConversationRecord`: the same for its job, with strong fairness of the steps
  of a tick, because each tick starts from the beginning and may be interrupted
  by a failure: the slot is sometimes free, and no transaction fails each time.
  `Drop` ends captures; a stop may come at any time.
- `SpokenTurn`: the event loop resumes a PIN attempt (weak fairness of
  `Attempt(c)`). The lock is first come, first served, so this is enough for
  `EveryAttemptAnswered`.
- `VoiceTurn`: the robot's loop keeps running and the event loop resumes each
  request and each background preparation (weak fairness of `Robot`, `Server(t)`,
  `Offer(t)`). Nothing is assumed of people, cameras, clips or the connection:
  `Robot` contains the failures, and `ConnectionFails`, `HangUp`, `Quiet` and
  `Restart` are owed by nobody, so `ListensAgain` does not rest on a timeout.

### 3.2 Findings

1. `wt_begin_cancelled` – `transaction()` awaits BEGIN outside its `try`. A
   cancellation there leaves an open transaction on the shared connection, and
   every later BEGIN fails. The docstring (`db.py:251-254`) promises a rollback
   on any `BaseException`.
2. `cs_commit_cancelled` – a cancellation at COMMIT erases a value without the
   checkpoint that should follow, and no debt is recorded
   (`candidates.py:9-10`). `NoForgottenScrub` proves it is the only way.
3. `rs_raised` – a recall question reads units back by id without the
   sensitivity filter the module's docstring claims for every read
   (`recall_store.py:3-5`).
4. `ha_voiceprint` – the voice consent and the voiceprint of an enrolment are two
   transactions; a revocation in between leaves a voiceprint without a grant,
   which `routers/auth.py:479` says must never exist. It is never used: the
   speaker check reads the consent.

Behaviours that the models show and no text of the repository denies, so no run
states them: a merging load turns a section that an earlier file provided into
`not_asked`; a contact revoked while its change is being typed comes back; the
personal setup makes a child of somebody who is already a relative; a load
between the reads of `write_acta`, or before `close_commissioning`, makes the acta
differ from the closed record; with recall on, a weak cue about a stored name that finds nothing
goes to the language model.

## 4. Proofs

All theorems hold for every value of the constants that satisfies the module's
assumptions.

`WriteTransaction_proofs`: `TypeCorrect`; `LockOwnership` (`OneOwner`);
`CleanConnection` (`NoLeakedTransaction`, assuming no cancellation at BEGIN and
no failing COMMIT); `OnlyOwnWork` (`OwnWorkOnly`), `OutcomeIsHonest`
(`HonestOutcome`) and `TransactionsAreAtomic` (`ImplementsAtomicWrites`), all
three under every cancellation and failure. `OneOwner` alone is not inductive for
a clean connection: the call left on the queue by a cancellation matters. The
strengthening is `LastAwaited` (the call a coroutine waits on is the last of its
calls on the queue, and nobody else's call comes after it) and `Clean` (an open
transaction belongs to the lock holder, or a ROLLBACK or COMMIT that ends it is on
the queue). For the rows it is `Work`: without an open transaction the connection
sees what is committed (`ClosedIsSame`); a BEGIN that was answered with "ok" left
nothing on the queue and the committed rows in view (`Opened`); a body then sees
those and its own statements so far, with nobody else's call queued before its own
(`Body`); a COMMIT stands first on the queue and every row in view is its
coroutine's (`CommitFirst`); only who reached its COMMIT may be durable
(`Decided`). The refinement maps every step to a step of `AtomicWrites` or to a
stutter, by cases on the call the worker runs: a COMMIT is the only one that
changes the committed rows, and `Work` says that it changes all of them.
`EveryWaitIsServed` is below, with the other theorems about waiting.

`CandidateStore_proofs`: `TypeCorrect`, `OneOffer`, `LiveRowsHold`,
`NoForgottenScrub` (assuming no cancellation at COMMIT), `FinalResolution`,
`ConfirmedFact`, `StartsWithoutOffers`. The tables are reasoned about through
lemmas on the functions from table to table (`Housekept`, `Voided`, …): none
resurrects a row, adds an open offer or a live claim. They are theorems of
`CandidateStore`'s own specification; the next module carries them over to the
turns.

`CandidateDialogue_proofs` is about `DialogueSpec`: any number of turns over the
store, from any rows and facts that `MixesAssumption` allows.

- `TurnsUseTheStore`: every step of a turn is a step of `CandidateStore` or leaves
  it alone, so `ResolutionIsFinal` and `ConfirmedIsFact` hold of it.
  `TurnsKeepTheRows` and `TurnsOweTheirScrubs` (assuming no cancellation at COMMIT)
  are the store's invariants under the turns, which start from rows in the middle
  of their life and not from an empty table.
- `StoresWhatWasSaid` (`StoredWasSaid`) and `StoresWhileEnrolled`
  (`StoredWhileEnrolled`) follow from `Sound`: what a turn has read stays true of
  it at every await. A claim it carries was heard (`OnlySaid`), for any list of
  triples the extractor answers with; the consents it has checked were active at
  some moment since its last audit row (`OnlyHeld`).
- `AskedOncePerOffer` (`OneQuestionPerOffer`) and `AnswersTellTheTruth`
  (`AnswersAreTrue`) rest on `Lands`: there is one way to each place of a turn, so
  who has a question to ask is the turn whose update opened the offer. The
  invariant for the question counts: no more turns are about to ask about a
  candidate than offers of it are unasked (`QuestionsInv`).
- `ExtractionsAreMetered` (`ExtractionIsMetered`): the slot is busy exactly while
  somebody waits for the model (`SlotInv`), and no span of an hour holds more
  starts than the budget. The limiter counts the starts that it has kept; the
  property is about all of them. What joins the two is `Rest`: the kept list is
  the history without its first `k` entries, and these are an hour old.

Proving these found two errors in the properties. `StoredWhileEnrolled` judged a
turn's first taste by the consents read for a later one, and a sentence with two
tastes violates that; each taste now keeps its own. The budget was stated of the
limiter's own list, which never holds more than the budget, so that half said
nothing; it is now stated of `extracted`.

`ConversationRecord_proofs`: `RecordInvariant`, `SegmentsAreConversations`
(`SegmentIsOneConversation`), `UnitsKeepTheirRecord` (`UnitsHaveTheirRecord`),
`ClosedStays` (`ClosedIsFinal`), `VectorsAlwaysFollow` (`VectorsFollowUnits`),
`PurgeAlwaysSpares` (`PurgeSparesTheOwner`), and `DiaryAlwaysProtects`
(`DiaryProtectsTurns`, assuming that recall is on at every start, as in the runs:
an entry written with recall off raises no unit that an earlier process wrote;
the other theorems need no such assumption). What a segment holds is an invariant only together with
how late captures are (`CapturesAreRecent`) and with an open segment's last
exchange (`Conversations`); its theorem assumes `MaxDelay < Idle`, and none of the
others does. The job is the hard part: it holds a record across
transactions in which anything may happen to it. `JobHolds` says that the record
is gone, or closed, pending and as it was read; with `IdsAreGivenOnce` no later
record can be taken for it, and `EpisodesAreDone` makes its entry final. That the
purge spares the owner's records rests on the cap's sum growing with the set of
records. The library's sum is a recursion over sets; `SumIsCount` shows that it is
the cardinality of a set of as many elements as there are bytes, whose subsets
the library's theorems order (`FewerBytes`).

`ContinuitySession_proofs`: `OnlyOwnHistory` (`OwnHistory`), for any turns,
people and caps. `OwnHistory` alone is not inductive: a person may take a slot
that is free, so the invariant `IInv` adds that a free slot holds nothing.
`TrimStarts` shows that the trimming loop always stops (a least index exists, by
well-foundedness of the naturals). The voice turn implements `ContinuitySession`
(below), which carries the theorem over to it.

`VoiceTurn_proofs`: `VoiceInvariant`, `StreamsAreAccepted` (`StreamIsAccepted`),
`ReplyModeOnlyAnswers` (`ReplyModeAnswersAQuestion`), `AnswersLeaveNothing`
(`AnswersLeaveNothingRunning`), `TokensAreKept` (`TokenKeptWhileLive`),
`TurnsShareTheSession` (`ImplementsContinuitySession`) and `HistoriesAreOwn`, for any
number of requests and grants. `MaxInFlight` need not be a number: however
many lines are on their way, the theorems hold.

- The server has some twenty ways to go on with a request. Every one of them is a
  `ServerMove` (`ServerMoves`): it changes one request, sends lines that an
  order allows from its place (`Streams`), spends at most the grant of that request
  (`Spends`) and does of the session one of three things (`UsesSession`). The
  invariant is shown of such moves only.
- `StreamIsAccepted` says nothing of what is still on its way. What joins the two
  ends is what the validator will have seen once it has read all lines: `Told` while
  the server still speaks, `Closed` after its last line. Both are the same before
  and after a line is written (`WrittenOrder`) or read (`ReadLine`), so the
  invariant (`StreamInv`) never speaks of where on the wire a line is.
- `ReplyInv`: in reply mode the next request answers a question that was heard
  (`Answerable`); the flag survives exactly the steps that keep this so.
- `TokenInv` and `LinesInv`: a consumed request spent its own token, that token is the
  one the robot holds while it waits for the answer, and a line that
  announces it (`HonestLine`) is on the wire or in the validator only then.
- The refinement maps each server move to `Open`, `Record` or `End`, or to a stutter;
  the robot's steps, a broken connection and a restart leave the views as
  they were (`RobotTurns`): a request whose robot is gone still owns its view.

`Installation_proofs` begins with what the four writes of `CanonicalStore` do to
any store. `RelationsKeepOneRole`, `LiteralsKeepOneCurrentValue`, `ContactsKeepOrdersFree`
and `ImportsOverwriteNothing` are preservation facts; `AcceptedWritesRepeat` is
the idempotence a repeated load rests on. The lemmas split each write into "refused",
"already there" and "inserted".

Of the installation itself it proves `RowsStaySound`, `ReloadAlwaysHarmless`,
`ImportsAlwaysRecorded` and `RowsKeepTheirEntity` (`RowsHaveTheirEntity`). None is inductive alone, because the transaction of a
load is many steps: the invariant `IInv` (`Typed` and `Kept`) says of a running
load that what it has done so far is *done* in its rows (`EntityDone`,
`RelationDone`, `LiteralDone`, `ContactDone`: accepted again, unchanged), that
what is left is the rest of the plan, and that every new imported row is one the
file says. The lemmas `…Stays` show that each kind of write leaves done what was
done; for relations this rests on `ActiveRepeat`: a stored relation is not checked
against what a later write of the same file made of that person.
That every row has its entity is the invariant `GroundedInv`, of the rows of a
running load too. Every write only adds entities (`Grows`) except the retraction at
the start of a replacing load, which deletes the entities without rows; a face learnt
by name that refers to one of those stops the load before anything is committed.

`SpokenTurn_proofs` begins with eight theorems about the pure decisions, for every
evidence and request where TLC evaluates only those the turns make. The identity
ones (`VoiceAloneNeverIdentifies`, `StrongIsGrantOrFaceAndVoice`) follow from
which fresh evidence may identify; those about the policy first reduce an
allowed request to the rule that allowed it (`AllowedMeansResolved`,
`PersonalMemoryRule`) and then read the capability tables:
`StrangersOnlyConverse`, `PersonalMemoryIsTheOwners`,
`PhotographReachesNothingStrong`, `ForgetNeedsItsOwnGrant`,
`TokensNeverWriteMemory`, `SensitiveReadsAreConsented`.

Then it is about `SpokenSpec`: requests, PIN attempts and messages
together, for any numbers of them. `UnlockInvariant`, `GuessesStayBounded`
(`GuessesBounded`), `TokensNeedAnActivePin` (`IssuedForAnActivePin`),
`RequestInvariant`, `EveryReadIsAudited` (`ReadsAreAudited`),
`NothingIsReadForTheRevoked` (`RevokedSpeakerReadsNothing`),
`GrantsServeOneRequest` (`OneRequestPerGrant`), `NamesStayUnknown`
(`NamesAreNoOracle`) and `FamilyIsNeverInvented` (`HouseholdStaysProtected`). The
last two hold for messages of any number of sentences and words, where TLC tries
sentences of up to five words; of the messages they assume that each is a sequence of
sentences with a mark (`MessagesAssumption`).

- `UnlockInv`. `GuessesBounded` speaks of the past, the limiter of what it still
  remembers. What joins them: the failures it remembers are the last wrong
  guesses (`FailuresAreLast`), those it has forgotten are at least a window before
  anything the lock will let in (`OlderAreOut`), and attempts under the lock are in
  order of time (`AttemptsInTime`, `LockIsHeld`). `PinsAreSeen` and `TokensAreNew`
  are what the other two theorems add: the version an attempt read is among those
  active since it began, and the token it will issue is nobody else's.
- `RequestInv`. `Sound` of every request: it has the audit rows of every step it
  has left (`IsAudited`), its actor rests on evidence it has seen (`HasSeen`,
  with `IsGrounded` on the sources), and what holds now is noted
  (`NotesWhatHolds`). That a refused or unknown actor reads nothing comes from
  the theorems about the policy.
- `SpentIsGone`. A spent grant is out of the registry, is not being issued
  (`Coming`), and no other request has it.

- `NameInv`. What a message with a stored name and nothing a rule takes can lead to
  is one of three things (`OutcomeOfAName`): conversation, `JudgeName` or
  `JudgeChild`. From there on the invariant says of the turn and of its request
  together that nothing is asked for whoever may not read the household
  (`Cleared`), and that a message `JudgeChild` may send back to the rules is still
  the one that was heard (`OnItsWay`). Every step of a request is an `Onward` one
  (`RequestGoesOn`), and only those are looked at.
- `FamilyInv`. A question about the family is the grammar's (`FamilyIsProtected`),
  no rule before the household's gives it to the language model
  (`OutcomeOfTheFamily`), it is never judged as a mere name, it is never a weak cue,
  and what is resolved again is the same message (`FamilyKept`).

Five facts about data are inductions: the two about words below, that the pruning keeps exactly the recent
attempts (`After` is a recursive function), that these are the last ones when
attempts are in order of time, and the sum of the purge's cap. The induction
theorems are not available to the provers, so each is proved from a least
counterexample (`LeastOf`, `LeastNumber`), which exists because the order of the
naturals is well-founded: `WFMin` takes a relation and a set, no operator.
The words of all sentences are gathered by a fold over places; the two about it
are that there is such a function at all (`SomethingGathers`) and that what it
gives is words (`GatheredWords`).

Proving this found an error in the model: a question redirected by `JudgeChild`
to the own children went on with the actor that had only *observed* the grant, so
`SpentIsGone` could not be shown. The controller resolves the actor anew there,
and now so does the model.

It also found `NamesAreNoOracle` false as it was first stated, beyond the bounds of its run: somebody
with a good token whose person or role cannot be read gets the error of the
store (`OwnerRequestResolver._context_for` is not guarded) where another name
gets conversation. The property now excepts this case (`LeftUnread`), which the
combination `whispering` reaches, and nobody without such a token.

What waiting rests on. Liveness is out of the prover's reach, but the way it
usually fails is not: somebody waits for what nobody will do, or what was reached is
undone. Eight theorems exclude that for any number of coroutines, requests, callers
and rows, and leave to TLC only that the steps which are possible are taken.

- `EveryWaitIsServed` (under `EveryCallEnds`): a coroutine without its answer has a
  call of its own on the worker's queue, still awaited; the line for the lock holds
  exactly those who wait for it, each once, and a lock that is held is held by
  somebody who awaits such a call. A cancellation that removes a waiter, or releases
  the lock, keeps this (`InLine`).
- `AnAnswerIsAlwaysOwed` (under `ListensAgain`): a robot that waits has a broken
  connection, a line that one of its branches reads, or a request that the server
  has not ended. It needs to know which lines a route may produce at all
  (`OffStream`, `IsAnswer`): the robot reads the lines of a stream and the answer of a
  classic request in different branches, and a line of the wrong kind would stop it.
- `EveryAttemptHasItsPlace` and `AttemptsAreServedInOrder` (under
  `EveryAttemptAnswered`): the line for the PIN lock holds exactly the callers that
  make an attempt, each once, and no step moves back an attempt that is not answered.
- `NothingIsPutOff` and, for the turns, `TurnsPutNothingOff` (under
  `EveryCandidateLapses`): a value gets a deadline at most `Ttl` ahead, no offer,
  reopening, late transaction or restart moves it, and what a retention run or a
  start-up leaves is not past its own.
- `DiariesAreHonest` and `DiariesAreSettledOnce` (under `EveryRecordIsSettled`): a diary
  is given up only after `MaxAttempts` failures, has an entry exactly when it is done, and
  only for a conversation in which the owner was verified; a settled one stays, and no
  failure is forgotten, also by a stop between the last failure and giving up. The
  invariant adds to `JobHolds` what the job knows of the record at each of its steps
  (`JobIsFair`).

What the findings come down to. For each of the four violations of section 3 a
theorem says that the step it shows is the only way to it:

- `CleanConnection`: a cancellation at BEGIN (or a COMMIT that fails).
- `NoForgottenScrub`: a cancellation at COMMIT.
- `RecallIsNormalUnlessTheDiaryRaises`: a diary entry above the normal level that
  is written while a question runs (`DiaryWaitsForTheQuestion`). Then every unit read back
  is normal, although it may be expired, purged or taken by a new capture meanwhile; ids
  are never given again (`UnitIdsAreGivenOnce`), and nothing else raises a unit (`LevelStep`).
- `PrintsNeedConsentWithoutTheRace`: a revocation of the voice while an enrolment
  stands between its two transactions (`NoRevocationMidEnrolment`).

These hypotheses are about what the environment does, and are met by every behaviour in
which the two steps do not meet; the code does not enforce them.

Only model-checked, with the reason:

- `EveryCallEnds`, `EveryCandidateLapses`, `EveryRecordIsSettled`,
  `EveryAttemptAnswered`, `ListensAgain`: liveness under fairness is out of the
  prover's reach; the theorems about waiting above are their safety half.
- What the other grammars decide for every message: a birthday, a memory recall or
  an enrolment has no reference definition of its own to be compared with.

## 5. Plan

Done: everything above. Next, in this order:

1. A streaming run with a grant.
2. The write-ahead log in `ConversationRecord`
   (three deletions there ignore the result of the checkpoint).

## 6. Not modelled, and why

- Model inference, device I/O, wording, logging and settings carry no protocol
  state. Ranking, distances and thresholds are outcomes.
- `Installation`: the backup before a reset and its re-recording when the session
  closes, the consent to record conversations, a second setup under another
  owner's name, a second session after the closing, the legacy migration, rows
  that start as expired, and the age 0 of an adult child.
- The controller: the second `decide` of the classic route is cached per event
  and is the first one; the household tools are taken as wired; the tables of
  Spanish words are represented, so a word that is missing from a table, or the
  words of "clave postal" and its like, cannot be found by these runs. The
  scene route and the answers from the clock end a turn without reading
  what is stored.
- Of the owner's own data, medical and location topics are one kind of request:
  they ask the policy the same question.
- Roles other than the owner's: nothing in `src` assigns one, so an adult or a
  child with a role exists only in the theorems about the policy.
- Type correctness is proved for `WriteTransaction`, `CandidateStore`,
  `ConversationRecord` and `VoiceTurn` (in `IInv`), `Installation`, and for unlocking
  and requests (`UnlockTypes`, `IsRequest`); the other modules have no type invariant in a
  run, since every step of theirs builds its records with the operators of the
  module.
