# Verification of oncue-voice

TLA+ models of the voice service, the TLC configurations that check them on
small instances, and TLAPS proofs. Paths are relative to the repository root;
`PROJECT.json` maps each definition to the lines it translates.

## 1. The system

The service prepares a *voice session* for a call on request of the backend,
lets the caller in over a WebSocket with a single-use token, negotiates a
WebRTC connection, pipes the caller's audio into a speech-to-speech provider and
its answer back, and reports the call's result to the backend once it ends.

| Component | State | Operations | Talks to |
|---|---|---|---|
| Call lifecycle (`session/lifecycle.py`, `api/results.py`) | status, started, finished, an asyncio lock | `mark_in_call`, `finish` | the backend, by an HTTP post in a worker thread |
| Call session (`api/signaling.py`, `media/webrtc.py`, the bridge in `media/audio.py`) | three tasks (WebSocket handler, runtime, time limit), peer connection, track consumer, `_closed` | offer, hangup, time limit, provider error, scenario completed, `close` | lifecycle, runtime, caller |
| Realtime runtime (`conversation/realtime_runtime.py`, `providers/realtime/openai_provider.py`) | async generator, sender task, provider connection | connect, forward audio, yield events, clean up | provider |
| Audio input (`PcmAudioInput`) | resampler, queue, closed | `push_frame`, `close`, `chunks` | track consumer, sender |
| Audio output (`PcmAudioOutputTrack`) | pending bytes, queue, pacing | `push_pcm`, `interrupt`, `close`, `recv` | bridge, WebRTC sender |
| Voice sessions (`session/service.py`, `session/store.py`) | sessions by id and by call, in memory or in Redis with a TTL | `create`, `get`, `close` | HTTP API, signaling factory |
| Connection tokens (`session/auth.py`, the jti stores) | consumed token ids with a TTL | `verify` | signaling |
| Split-pipeline runtime (`conversation/split_pipeline_runtime.py`) | stopped sessions, the time limit of each run | one turn of STT, LLM, TTS; `stop` | providers, event sink |
| Evaluation (`evaluation/`) | run directories and artifacts in the file system, shared by processes | allocate, run, write the artifacts | providers, file system |
| Provider factories and adapters (`providers/`) | none of their own | accept or refuse settings, convert events | providers |
| HTTP API, wiring, configuration, fakes | none of their own | decisions and conversions | |

What is hard in it: nearly everything that ends a call is a set of asyncio
tasks cancelling and awaiting each other while they report over the network.
`asyncio` runs a task without interruption from one await to the next, hands a
cancellation on to whatever task the cancelled one awaits, and finalises a
dropped async generator in a task of its own. The models are at exactly that
grain: an action is a stretch of code between two awaits, through all the
functions it returns from and calls on the way.

What makes each component correct:

- lifecycle: posts are serialised, one acknowledged result is final, `finish`
  always gets out, whatever fails or is cancelled;
- call session: the result is acknowledged before anything is torn down; a
  handler that returns leaves nothing running; an answered call is reported;
- runtime: the sender never outlives its connection, a cancelled run ends and
  is not taken for a completed one, the connection is closed;
- audio input: the provider receives what the caller said, in order;
- audio output: frames are whole, in order, silenced by an interrupt, and the
  track ends behind the last of them;
- voice sessions: at most one open session per call, agreed by both indexes;
- tokens: a token opens at most one call while it is valid;
- split pipeline: what it records is what was said, a forbidden topic gets no
  answer, the time limit ends a reply that goes on for ever;
- evaluation: no two processes own a run directory, a run with an
  `evaluation.md` is complete and from one process.

## 2. The modules

| Module | Models | Extends / instantiates |
|---|---|---|
| `ResultReport` | what the service promises about a call's result (abstract) | |
| `CallLifecycle` | `CallLifecycle` and its worker threads | instance of `ResultReport` |
| `CallLifecycleProofs` | theorems about it, the refinement included | `CallLifecycle` |
| `CallQueueProofs` | theorems about the lock's queue, the status and the deliveries | `CallLifecycleProofs` |
| `RealtimeRuntime` | one run: generator, sender, connection | |
| `RealtimeRuntimeProofs` | the invariant of a run | `RealtimeRuntime` |
| `AudioForwarding` | `RealtimeRuntime` with the audio of `PcmAudioInput` | `RealtimeRuntime` |
| `AudioForwardingProofs` | theorems about the run and what the provider hears | `AudioForwarding`, `RealtimeRuntimeProofs` |
| `AudioOutput` | `PcmAudioOutputTrack`, its clock and the sender that calls it | |
| `AudioOutputProofs` | theorems about frames, interrupts, the order of samples and the end of a track | `AudioOutput` |
| `CallSession` | one call: three tasks around the lifecycle and the run | instances of `CallLifecycle`, `RealtimeRuntime` |
| `CallSessionProofs` | theorems about the composed call | `CallSession`, instances of `CallQueueProofs`, `RealtimeRuntimeProofs` |
| `VoiceSessions` | `SessionService` over the Redis store | |
| `Admission` | token verification and the factory's lookup | `VoiceSessions` |
| `AdmissionProofs` | theorems about store, tokens and admission | `Admission` |
| `SplitPipelineRuntime` | runs of the split pipeline with the adapters they pull from | |
| `ProviderFactory` | which settings a factory builds providers for (operators) | |
| `OpenAiEvents` | what an event of the realtime provider becomes (operators) | |
| `EvaluationRuns` | evaluations by processes that share an artifact root | the three above |
| `EvaluationRunsProofs` | theorems about run directories, artifacts and transcripts | `EvaluationRuns` |
| `MC*` | constants for TLC | |

A definition named in a comment "Mutant of D" is D with a plausible bug. It
takes no part in any specification and shows what a property would catch.

### CallLifecycle

`phase[t]` is where task `t` is in `finish`: queued on the lock (`waiting`),
awaiting its post (`sending`), or how it left. `holder` and `waiters` are the
`asyncio.Lock`; `post[t]` is the worker thread of `asyncio.to_thread`. `Finish`
is the call up to its first await, `Resume` the lock being handed over,
`Complete`, `Fail` and `Refinish` what follows the post (the last is the bridge,
whose `except` calls `finish` again without an await in between), `CancelWait`
a cancelled waiter. `Deliver`, `DeliverUnanswered` and `Lose` are what the
network does to a post. `_started_at` is set exactly when the status is
`IN_CALL`, so one variable stands for both; the end time is left out.

`ImplementsReport` says that this is a `ResultReport`: attempts one at a time,
each accepted or given up, the first accepted one final.

### RealtimeRuntime and AudioForwarding

`gen` is the await the generator is suspended at: `connecting` and
`configuring` inside `connect`, `listening` in the event loop, `abandoned` at a
yield its consumer never returns to, `joining` / `draining` at the two awaits of
`_finish_audio_sender`, `closing` in `session.close()`. `outcome` is why the
`finally` block was entered, `exit` what the driver finally sees. `Cancel` hands
the cancellation to the sender when the driver awaits it and otherwise sets
`cancelPending`. A dropped generator is run by the event loop's finaliser, which
nobody cancels. Events that leave all this as it is are not steps.

`AudioForwarding` adds the frames: a frame is its number, the resampler may hold
frames back until a later frame or the flush at close, `EndOfChunks` is the
`None` at the end of the queue. It replaces the sender's steps by those that
take chunks.

### AudioOutput

A sample is its number; time and `nextPts` count frame durations. `PushPcm`,
`Interrupt` and `Close` are the bridge's calls, each atomic because the queue is
unbounded and its `put` never waits. `recv` is cut at its two awaits:
`TakeFrame` (or `EndTrack`) when the queue has something, with the wait
computed there, and `ReturnFrame` when the sleep is over. `SpokenInOrder` is
about all samples that were not dropped, in the order of the places they are in
(`Line`): played, in the hand of `recv`, queued, waiting for a whole frame. With `Prompt`, time
stands still while `recv` could go on: nothing but the code itself then decides
when a frame leaves.

`sender` is aiortc's sender, modelled from outside: it is connected at some time or
never (`SenderStarts`), calls `recv` until `recv` raises, and is stopped when
`WebRtcSession.close` closes the peer connection right after the track or when the
connection is lost (`SenderStops`). A call that ends in the ordinary way is
therefore not played to its end. `TrackEnds` is about the other case: the report
failed, so only the bridge has closed the track and the peer connection stays open.

### CallSession

`pc[t]` is the await at which each of the tasks `ws` (`signaling_socket`),
`runtime` (`AudioRuntimeBridge.run`) and `limit` (`_enforce_time_limit`) is
suspended; `flagged` are the tasks with a cancellation to be raised there. All
three report and then close: `Report`, `Proceed`, `ManagedClose` and
`MediaClose` are `finish`, `ManagedSignalingSession.close` and
`WebRtcSession.close`, cut at their awaits (`finish`, `joinLimit`,
`joinRuntime`, `joinTracks`, `closePeer`). `L` and `RT` are the lifecycle and
the run on the same variables: each step of the call contains the step of the
part it uses, and `UsesLifecycle` and `UsesRuntime` check that the composition
keeps to those specifications, their fairness included, so what is shown of a part
alone holds in the call.

### VoiceSessions and Admission

`voice` and `callKey` are the two kinds of Redis keys with the time they
expire. `at[p]` is the next command of the request process `p` serves: the two
`GET`s of `create` (`Create`, `Compare`), the two `SET`s of `save` (`SetVoice`,
`SetCall`), of the signaling factory `Lookup` and `Admit`. `Fail` is a command
that raises although it may have been executed, or a process that stops there.
Ids are numbers, so a fresh one is the next. `promised`, `behind` and `raced`
are history: what the backend was told, and whether a process wrote after
another had overtaken it.

The repository deploys one process per container, whose handlers do not await
while they use the store; with several containers over one Redis the commands
interleave. `PromisedIsReachable` says that failures and expiry lose no session
the backend was told of, and that overlapping requests are the only thing that
can: without `raced` TLC finds two creates answered with different sessions.

### SplitPipelineRuntime and EvaluationRuns

`pipe[s]` is what a run of the split pipeline waits for: a segment of the
transcript, a chunk of the reply, or a piece of its speech. `Transcribed` is the
stretch from the last segment to the request for the reply: the forbidden topics
are looked for in the joined final segments (`said`; a segment that is not final
leaves no trace), the language model's adapter reads
all user turns, and reading records them. The adapter numbers the chunks as it
yields them, so that the recorded numbers count up is by construction; what is checked is
their place behind the user turns and which of them are spoken. `MustStop` is looked at when a
chunk or a piece arrives, never while one is awaited; `Expire` is the clock,
which nobody reads before the reply. A text is a word, so a topic is a sequence
of words that may lie across segments.

`phase[p]` is where process `p` is in its evaluation. The file system is shared,
so each of its calls is a step: `ListRuns`, `MakeRun` and `MakeInput` are the
listing and the two `mkdir`s into which `mkdir(parents=True)` falls, each of
`WriteArtifact` a file. Three files that are written in a row and depend on
nothing in between are one artifact, "settings". `BeginSplit` decides with
`ProviderFactory` whether the providers can be made. An unknown name of a factory is refused
before there is an evaluation; the factory and the settings of a request are chosen apart. A split evaluation keeps its runtime
to itself, and nothing in it calls `stop`; so a process of kind `direct`, which drives
the pipeline as a caller of the module does, is there to stop it. Of a realtime
run, which `RealtimeRuntime` models, only the events it yields are seen, through
`ToEvent`. `Breaks` is a process that is killed, or a call that raises, between
any two steps. A run that is killed leaves what a run whose provider fails leaves.

## 3. What is checked

| Run | Bounds | Result |
|---|---|---|
| `lifecycle` | three tasks, one reason of each outcome, two failing posts | all properties hold (48 022 states) |
| `lifecycle_delivery` | one failing post | `DeliveredAtMostOnce` violated |
| `audio` | every provider failure, three frames | all properties hold (1 236 states) |
| `run_leak` | no failure, no frame | `ConnectionReleased` violated |
| `output` | pieces of up to five samples, frames of two, three frame durations of silence | all properties hold (20 686 states) |
| `output_pace` | three frames of one sample, no delay of `recv` | `Paced` violated |
| `admission` | two processes, two sessions, one failing command, one token, one call, half seconds | all properties hold (1 723 015 states, up to symmetry) |
| `token_mark` | one process, no failure | `MarkedForItsLifetime` violated |
| `evaluation` | two processes, one of which may drive the pipeline; two segments, two chunks of one piece, one realtime event; accepted and refused settings | all properties hold (323 895 states) |
| `session` | three tasks, every provider failure, one failing post | all properties hold (69 384 states) |
| `session_peer` | no failure | `PeerReleased` violated |
| `session_stuck` | the provider refuses audio | `TimeLimitClosesMedia` violated |

Bounds. A call has exactly these three tasks, so `Tasks` is no restriction of
the session run; the lifecycle run lets each of them call `finish` again and
again. `MaxFaults = 2` lets a failed post be followed by another failed and then
by an accepted one; in the session each failure ends a task, and one suffices to
reach every branch behind a failed post. `MaxFrames = 3` lets one frame be in
the resampler, one in the queue and one with the sender at once. Five samples in
frames of two make pieces shorter than a frame, longer than two frames and an
odd rest to pad. Two
sessions are the one a call has and its replacement; half seconds make every
rounding visible, and sessions of half a second and of one and a half let a key
expire and let a session expire before its key; one call suffices because a
property about calls concerns each alone. Processes are interchangeable, and
the run has no liveness property, so symmetry is sound. Two evaluating processes are
enough to race for a directory, and only what they do to the file system is seen by
the other: so all but one of them may be realtime, whose own steps are few. Two segments
let a topic of two words lie across them; two chunks let speech of one chunk be
followed by the next. Two reasons in
the lifecycle run suffice because a reason only selects an outcome; the session
run uses all five.

Deadlock. A lifecycle can always be called again, and its runs check deadlock.
The clock of the admission runs stops at its bound. A call, a run, a track and an
evaluation come to an end, so their runs do not; that they end where they
must is stated as liveness.

Fairness. The event loop runs whatever task can go on, so the steps out of an
await whose condition holds are weakly fair. A post ends, because the HTTP client has a
timeout; the close of the provider's connection ends, because the websocket
library's close has one; a cancelled task's await raises; the time limit
expires. Nothing is assumed of the caller (no offer, hangup or track need ever
come) or of the provider (no answer to connect, no event, no end of the stream,
no audio taken). The WebRTC sender calls `recv` again and again while it runs, and need neither
start nor keep running. Of a split evaluation that has begun, calls of the file system return,
the transcript of its finite audio ends, time passes, and a stream sends its
next piece, ends or fails, perhaps for ever: one weak fairness condition per
process asks for no more than that some of this goes on, which is weaker than one
for each; it is enough because after the bound on chunks and pieces
only the clock is left. Nothing makes the events of a realtime run end. No action is strongly fair.

Assumptions taken from asyncio rather than from the repository: a cancelled
task sees its cancellation before the value it awaited; an `asyncio.Lock` is
first-in first-out and may be retaken at once only when nobody queues; the
mutual await of two tasks is not resolved by cancelling them. The process is not shut
down during a call.

### What the violated properties show

1. `DeliveredAtMostOnce`: `_finished` is set only after the post was answered,
   so a lost answer leads to a second delivery, which may carry another outcome.
   `AckedIsFinal`, `StatusNeverRegresses` and the theorem `ToldOncePerFailure` say
   what still holds.
2. `ConnectionReleased`: when the provider's stream has ended and the call is
   closed while the run waits for its sender, the cancellation leaves the
   `finally` block before `session.close()`. A sender that had raised has the
   same effect, and so has a failing `session.update` in `connect`;
   `LeakIsExplained` says that these are the only ways.
3. `PeerReleased`: a hangup that arrives while the time limit's task awaits
   `peer_connection.close()` cancels that close, and `_closed` keeps everybody
   from trying again. `PeerLeakIsExplained` lists the only other ways: a failed
   post (`close` is skipped) and a failed run (its exception leaves
   `WebRtcSession.close` at `await self._runtime_task`).
4. `TimeLimitClosesMedia`: the time limit awaits the runtime, which ends with the
   provider's exception, reports it and awaits the time limit. A hangup that was
   already waiting for the time limit waits on; one that comes later fails in
   `cancel`, which recurses between the two tasks.
   `MutualAwaitIsExplained` says that this is the only way into such a cycle.
5. `Paced`: `recv` waits relative to `_started_at`, which nothing moves when the
   queue runs empty. After a pause of the provider the next frames are all
   overdue and leave at once, as many as the pause was long.
6. `MarkedForItsLifetime`: the lifetime of a token's mark is truncated to whole
   seconds. `RepeatIsExplained` says how far this goes: less than a second.

Seen while modelling, and without a statement in the repository to hold it
against: there is no time limit before the first offer is answered; a run whose
stream ended is reported as completed only after something else closed the
caller's audio; terminating a voice session does not end its running call; a token is used up
also when the lookup that follows it fails; with the in-memory store an expired session
that was not terminated keeps its call from being created with other terms; a
realtime evaluation ends only when its provider ends the stream or fails; a split
evaluation that the time limit cut short or a forbidden topic silenced is recorded as
succeeded; `run.json` with that verdict is written before the other artifacts, so a
process that breaks leaves it without them (`evaluation.md` is the last and marks a
complete run); who loses the race for a run directory gets `FileExistsError` and not the
next number.

## 4. What is proved

Every theorem holds for all values of the constants that satisfy the named
`ASSUME`s of the modules, and rests on one inductive invariant per component.
TLC checked each invariant before it was proved. There is one lemma per action
or group of like actions; a temporal theorem only combines them.

`CallLifecycleProofs`, for any set of tasks, any set of reasons and any number
of failed posts (assumptions: `NoTask` is not a task, `MaxFaults` is a natural
number, the reasons are those of `CallTerminationReason`):

- `TypeCorrect`, `MutualExclusion` (`OneSendAtATime`), `AckedReportIsFinal`
  (`AckedIsFinal`), `Silence` (`FinishedIsSilent`);
- `Refinement`: the safety part of `ImplementsReport`.

None of these is inductive alone. The invariant `IInv` adds that a task is
sending exactly when it holds the lock and owns a worker thread (`SendingInv`),
and that an answered post is the last delivery and the only one that can finish the
call (`AckedInv`). Mutual exclusion is then immediate from the lock; finality
needs both, because what makes the acknowledged report the *last* delivery is
that no other thread can deliver between the answer and `_finished`.
`StepSimulation` does the same for the refinement.

`CallQueueProofs`: `QueueHoldsTheWaiting` (`QueueIsWaiting`), which rests on what
appending and removing do to a queue without repetitions; `StatusIsKept`
(`StatusNeverRegresses`), for which `NoOlder` says that neither the call nor a post
on its way has an older status than what was delivered; and `ToldOncePerFailure`,
which says how far `DeliveredAtMostOnce` can be violated: the one delivery that no
failed post accounts for is the one that was answered (`DeliveryCount`).

`RealtimeRuntimeProofs`, for any set of provider failures: the invariant `RunInv`.
`StageInv` ties every stage of the generator to what its sender and connection
can be there. `CancelInv` follows a cancellation: until it has ended the run it
is pending, or with the sender it was handed to, or already the reason of the cleanup;
without it a cancelled run in `joining` could complete.

`AudioForwardingProofs`, for any number of frames. The audio's steps are steps
of the run (`RunOfAudio`), so `SenderIsConfined`, `LeaksAreExplained` and
`CancellationIsSeen` follow from `RunInv`. For `ProviderHearsCaller`
(`ForwardedInOrder`) each place on the way of the frames holds an interval of
their numbers (`Stretch`), and `Places` says that the intervals are adjacent, that
the end marker is behind all frames, and that a chunk is lost only with the sender.
`NoFrameIsLost` (`NothingLost`) is what the adjacent intervals amount to while the
sender is at work: together they are all frames.

`AudioOutputProofs`, for frames and pieces of any length: `OutputTypes`
(every queued frame is whole), `InterruptsSilence`, and `SamplesKeepTheirOrder`
(`SpokenInOrder`). Cutting is covered by
`CutFrames`, `CutRest` and `PadRest`: what comes out has the right length and
nothing but samples that went in. `SilenceInv` says where samples from
before the last interrupt may still be: in the hand of `recv`, until it has
returned its next frame. `OrderInv` makes the order inductive. It takes the
line of samples in its four parts (returned, in the hand of `recv`, queued, pending):
each is in order and lies wholly before the next, nothing on the line is newer than
what was pushed, and nothing pushed since the last interrupt is missing. Cutting
the rest and a new piece into frames leaves every sample at its place of the line.
`TracksEndPlayed` (`EndsPlayed`) is the safety half of `TrackEnds`: when `recv` raises,
nothing is left. Its invariant `EndInv` says that an open track has no end marker and
a closed one has it once, behind all frames, until `recv` meets it.

`CallSessionProofs`, for any number of failed posts and any provider failures,
composes: it instantiates the two proof modules above, shows that every step of
the call is a step of the lifecycle and of the run or leaves them alone
(`UsesLifecycleSafely`, `UsesRuntimeSafely`: the safety parts of
`UsesLifecycle` and `UsesRuntime`), and thereby takes over `IInv` and `RunInv`.
`CallInv` adds what is about the three tasks, in parts: a report precedes
everything else (`ReportInv`), where the run and its input are (`RunPlaceInv`), who has ended
when a task gets to a part of `close` (`OrderInv`), how the runtime and the time
limit can come to await each other (`AwaitInv`), who still has to close the peer
connection (`PeerInv`). From it: `CallTypes`, `ReportComesFirst`, `PostsAreNotCancelled`,
`MutualAwaits`, `HandlersLeaveNothing`, `PeerLeaks`. And what is proved of the parts
holds in the call: `CallReports`, `CallIsSilent` and `CallRuns` state the
lifecycle's and the run's safety for the composition, and `CallImplementsReport`
carries the refinement to the top: the call implements `ResultReport`.

`AdmissionProofs`, for one call and any number of processes, requests, sessions and tokens:
`StoreTypes`, `IndexFollows`, `ClosedStaysOut`, `RepeatsExplained`,
`PromisesAreKept` (`PromisedIsReachable`). Processes
overwrite each other's decisions, so `SessionInv` holds on to each
session alone: an id about to be written first is in no other hands
(`DraftInv`), and one that was written stays stored and, once closed, closed
(`StoreInv`). `UsedInv` and the arithmetic of lifetimes rounded to seconds
(`TtlLasts` and its like) give the second that `RepeatIsExplained` allows.
`PromisesAreKept` needs to know what the processes have read. `FreshInv`: a session that is being saved
for the first time is known to nobody else, whatever failed, and the key of
the call lasts as long as the open session it leads to. `LeadInv`, until somebody has raced: the
decision of each process that was not overtaken is still right (`UpToDate`: what it is about to
compare or to close is what the call leads to; where it is about to open a session, the
call leads to none that is open), and each id that is promised, or may be when a
comparison is done, is what the call leads to or opens no more (`Leads`). That
an overtaken comparison can still answer truly, because a closed or expired session
never opens again, is what `Leads` allows for.

`EvaluationRunsProofs`, for any number of processes: `Exclusive`
(`RunsAreExclusive`) and `Complete` (`ReturnedIsComplete`). A process that broke
owns nothing any more but its files remain; `RunsInv` therefore speaks of
claims, past or present: nobody removes an input directory, and no two
claims have the same. `TranscriptsAreTrue` (`TranscriptsMatchSpeech`) and `EvaluationTypes`
rest on `PipeInv`: at every step a run of the split pipeline has recorded nothing, or
the turns of all it heard followed by the first chunks of its reply, and has spoken only of those.

Only model-checked:

- all liveness, and the fairness part of `UsesLifecycle`, `UsesRuntime` and
  `ImplementsReport` (out of the prover's reach, as is `ENABLED`);
- the violated properties, whose counterexamples are TLC's.

Every other property of a passing run, invariant or action property, is stated by a theorem.

## 5. Not modelled, and why

- The in-memory stores of sessions and token ids (`session/store.py`): they are
  used within one process without an await, so their operations are atomic and
  sequential. What differs from Redis is that nothing is forgotten, listed above.
- Wiring and configuration (`main.py`, `config.py`): they read the environment
  once and build objects. `create_runner` is part of `RealtimeRuntime`.
- Service authentication, request and response schemas of the HTTP API: they
  accept or refuse a request before any state changes.
- The decoding and cryptography of tokens: a token that does not decode changes
  nothing; the times in it are modelled.
- SDP and the contents of ICE candidates, TURN and Docker configuration,
  resampling arithmetic, logging.
- The contents of requests to the providers, of prompts (`policy_renderer.py`)
  and of artifacts, and which of the `ProviderError`s an adapter raises: no code
  distinguishes them once raised.
- The fakes: scripted providers for the tests, whose behaviours are among those
  the models allow.
- aiortc, FastAPI, Redis, asyncio and the OpenAI client beyond how the code uses them.
