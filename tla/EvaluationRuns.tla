--------------------------- MODULE EvaluationRuns ---------------------------
(***************************************************************************)
(* evaluation/: processes that evaluate one combination under one artifact *)
(* root.  Each allocates a run directory, runs the split pipeline or the   *)
(* realtime runtime, and writes the artifacts of the run.  A process of    *)
(* kind "direct" only drives the split pipeline, and may stop it.          *)
(*                                                                         *)
(* Within a process the code runs without interruption from one await to   *)
(* the next, but the file system is shared: each of its calls is a step.   *)
(* Of the realtime runtime only the events it yields are seen here.        *)
(***************************************************************************)
EXTENDS SplitPipelineRuntime, ProviderFactory, OpenAiEvents

CONSTANTS
    Settings,   \* the provider settings a split evaluation may ask for
    RawEvents,  \* what the provider of a realtime run may send
    MaxEvents   \* bound: events of a realtime run

ASSUME EvaluationAssumption == MaxEvents \in Nat

VARIABLES
    kind,       \* what the process is
    phase,      \* where its evaluation is
    runId,      \* the number of its run
    runDirs,    \* the numbers n for which run-n exists
    inputDirs,  \* those for which run-n/input exists
    files,      \* the artifacts: the run, its name, and who wrote it last
    written,    \* how many artifacts the process has written
    result      \* what the evaluation returned

evalVars == <<kind, phase, runId, runDirs, inputDirs, files, written, result>>
vars == <<pipeVars, evalVars>>

Kinds  == {"split", "realtime", "direct"}
Phases == {"new", "making", "owner", "running", "writing", "returned", "raised", "lost"}
Ended  == {"returned", "raised", "lost"}

RealtimeEvents == [type: RealtimeEventTypes]

\* The order of _write_artifacts.  "settings" are policy-snapshot.json,
\* provider-config.json and input.json, "response" is response.wav.
SplitArtifacts ==
    <<"input.wav", "run.json", "settings", "transcript.json", "response", "evaluation.md">>

RealtimeArtifacts ==
    <<"input.pcm", "run.json", "settings", "transcript.json", "response", "evaluation.md">>

Artifacts(p) == IF kind[p] = "split" THEN SplitArtifacts ELSE RealtimeArtifacts

FileNames == {"input.wav", "input.pcm", "run.json", "settings", "transcript.json", "response",
              "evaluation.md"}

Init ==
    /\ PipeInit
    /\ kind \in [Sessions -> Kinds]
    /\ phase = [p \in Sessions |-> "new"]
    /\ runId = [p \in Sessions |-> 0]
    /\ runDirs = {} /\ inputDirs = {} /\ files = {}
    /\ written = [p \in Sessions |-> 0]
    /\ result = [p \in Sessions |-> "none"]

Goto(p, where) == phase' = [phase EXCEPT ![p] = where]

-----------------------------------------------------------------------------
(* allocate_evaluation_run *)

\* _next_run_id
NextNumber == 1 + (CHOOSE n \in {0} \cup runDirs : \A d \in runDirs : n >= d)

ListRuns(p) ==
    /\ kind[p] # "direct" /\ phase[p] = "new"
    /\ runId' = [runId EXCEPT ![p] = NextNumber]
    /\ Goto(p, "making")
    /\ UNCHANGED <<pipeVars, kind, runDirs, inputDirs, files, written, result>>

\* input_directory.mkdir(parents=True) makes a missing run directory, which may
\* exist by then, and tries again.
MakeRun(p) ==
    /\ phase[p] = "making" /\ runId[p] \notin runDirs
    /\ runDirs' = runDirs \cup {runId[p]}
    /\ UNCHANGED <<pipeVars, kind, phase, runId, inputDirs, files, written, result>>

\* Mutant of MakeInput: mkdir(parents=True, exist_ok=True).
MakeInputExistOk(p) ==
    /\ phase[p] = "making" /\ runId[p] \in runDirs
    /\ inputDirs' = inputDirs \cup {runId[p]}
    /\ Goto(p, "owner")
    /\ UNCHANGED <<pipeVars, kind, runId, runDirs, files, written, result>>

\* mkdir of the input directory: whoever comes second gets FileExistsError.
MakeInput(p) ==
    /\ phase[p] = "making" /\ runId[p] \in runDirs
    /\ \/ runId[p] \in inputDirs /\ Goto(p, "lost") /\ UNCHANGED inputDirs
       \/ /\ runId[p] \notin inputDirs
          /\ inputDirs' = inputDirs \cup {runId[p]}
          /\ Goto(p, "owner")
    /\ UNCHANGED <<pipeVars, kind, runId, runDirs, files, written, result>>

-----------------------------------------------------------------------------
(* The run *)

\* The artifact directory is made, a split evaluation has its providers created.
\* The factory of the service and the settings of the request are the caller's.
BeginSplit(p) ==
    /\ kind[p] = "split" /\ phase[p] = "owner"
    /\ \E name \in DOMAIN FactoryOf, settings \in Settings :
        \/ /\ Create(FactoryOf[name], settings) = "built"
           /\ Goto(p, "running")
           /\ Run(p)
        \/ /\ Create(FactoryOf[name], settings) # "built"
           /\ Goto(p, "raised")
           /\ UNCHANGED pipeVars
    /\ UNCHANGED <<kind, runId, runDirs, inputDirs, files, written, result>>

BeginRealtime(p) ==
    /\ kind[p] = "realtime" /\ phase[p] = "owner"
    /\ Goto(p, "running")
    /\ UNCHANGED <<pipeVars, kind, runId, runDirs, inputDirs, files, written, result>>

SplitRuns(p) ==
    /\ kind[p] = "split" /\ phase[p] = "running"
    /\ PipeStep(p)
    /\ UNCHANGED evalVars

\* All audio was yielded, whatever cut it short: the evaluation has succeeded.
SplitEnds(p) ==
    /\ kind[p] = "split" /\ phase[p] = "running" /\ pipe[p] = "ended"
    /\ \/ exit[p] = "raised" /\ Goto(p, "raised") /\ UNCHANGED result
       \/ /\ exit[p] # "raised"
          /\ Goto(p, "writing")
          /\ result' = [result EXCEPT ![p] = "succeeded"]
    /\ UNCHANGED <<pipeVars, kind, runId, runDirs, inputDirs, files, written>>

\* The provider sends an event: the run yields what it is converted to.
RealtimeEvent(p, raw) ==
    /\ kind[p] = "realtime" /\ phase[p] = "running"
    /\ ~Malformed(raw) /\ ToEvent(raw) # "none"
    /\ Len(events[p]) < MaxEvents
    /\ events' = [events EXCEPT ![p] = Append(@, [type |-> ToEvent(raw)])]
    /\ UNCHANGED <<pipe, exit, said, spoken, stopped, expired, evalVars>>

\* A malformed event or any failure of the provider leaves the run.
RealtimeRaises(p) ==
    /\ kind[p] = "realtime" /\ phase[p] = "running"
    /\ Goto(p, "raised")
    /\ UNCHANGED <<pipeVars, kind, runId, runDirs, inputDirs, files, written, result>>

\* The run's events end; it succeeded if none of them was an error.
RealtimeEnds(p) ==
    /\ kind[p] = "realtime" /\ phase[p] = "running"
    /\ Goto(p, "writing")
    /\ result' = [result EXCEPT ![p] =
        IF \E i \in 1..Len(events[p]) : events[p][i].type = "error" THEN "failed" ELSE "succeeded"]
    /\ UNCHANGED <<pipeVars, kind, runId, runDirs, inputDirs, files, written>>

-----------------------------------------------------------------------------
(* The artifacts *)

\* A file is overwritten by whoever writes it.
WriteArtifact(p) ==
    LET name == Artifacts(p)[written[p] + 1]
    IN  /\ phase[p] = "writing" /\ written[p] < Len(Artifacts(p))
        /\ files' = {f \in files : f.run # runId[p] \/ f.name # name}
                    \cup {[run |-> runId[p], name |-> name, by |-> p]}
        /\ written' = [written EXCEPT ![p] = @ + 1]
        /\ UNCHANGED <<pipeVars, kind, phase, runId, runDirs, inputDirs, result>>

\* Mutant of Return: it does not wait for the last file.
ReturnEarly(p) ==
    /\ phase[p] = "writing" /\ written[p] >= Len(Artifacts(p)) - 1
    /\ Goto(p, "returned")
    /\ UNCHANGED <<pipeVars, kind, runId, runDirs, inputDirs, files, written, result>>

Return(p) ==
    /\ phase[p] = "writing" /\ written[p] = Len(Artifacts(p))
    /\ Goto(p, "returned")
    /\ UNCHANGED <<pipeVars, kind, runId, runDirs, inputDirs, files, written, result>>

\* The process is killed, or a call of the file system or of git raises: what
\* was made stays.  (Killing a run leaves what a failing provider leaves.)
Breaks(p) ==
    /\ phase[p] \in {"making", "owner", "writing"}
    /\ Goto(p, "raised")
    /\ UNCHANGED <<pipeVars, kind, runId, runDirs, inputDirs, files, written, result>>

Direct(p) ==
    /\ kind[p] = "direct"
    /\ Run(p) \/ PipeStep(p) \/ Stop(p)
    /\ UNCHANGED evalVars

-----------------------------------------------------------------------------

Allocate(p) == MakeRun(p) \/ MakeInput(p)

Step(p) ==
    \/ ListRuns(p) \/ Allocate(p)
    \/ BeginSplit(p) \/ SplitRuns(p) \/ SplitEnds(p)
    \/ BeginRealtime(p) \/ (\E raw \in RawEvents : RealtimeEvent(p, raw))
    \/ RealtimeEnds(p) \/ RealtimeRaises(p)
    \/ WriteArtifact(p) \/ Return(p) \/ Breaks(p)
    \/ Direct(p)

Next == \E p \in Sessions : Step(p)

\* What a process does of its own accord.
Progress(p) ==
    \/ Allocate(p) \/ BeginSplit(p) \/ BeginRealtime(p)
    \/ SplitRuns(p) /\ (Transcribed(p) \/ ReplyChunk(p) \/ SpeechPiece(p) \/ Expire(p))
    \/ SplitEnds(p) \/ WriteArtifact(p) \/ Return(p)

\* Calls of the file system return, the transcript of one finite audio ends,
\* time passes, and whoever streams a reply or speech sends the next piece,
\* ends or fails; a reply may go on for as long as it likes.  Nothing makes
\* the events of a realtime run end.
Fairness == \A p \in Sessions : WF_vars(Progress(p))

Spec == Init /\ [][Next]_vars /\ Fairness

-----------------------------------------------------------------------------
(* Properties *)

TypeOK ==
    /\ PipeTypeOK
    /\ events \in [Sessions -> Seq(ConversationEvents \cup RealtimeEvents)]
    /\ kind \in [Sessions -> Kinds]
    /\ phase \in [Sessions -> Phases]
    /\ runId \in [Sessions -> Nat]
    /\ runDirs \subseteq Nat /\ inputDirs \subseteq runDirs
    /\ files \subseteq [run: runDirs, name: FileNames, by: Sessions]
    /\ written \in [Sessions -> 0..6]
    /\ result \in [Sessions -> {"none", "succeeded", "failed"}]

\* Processes that list the directories at the same time compute the same number,
\* yet a run directory has at most one owner; whoever lost it found it taken,
\* all files of a run are from one evaluation, and the numbers have no gap.
Owns(p) == phase[p] \in {"owner", "running", "writing", "returned"}

RunsAreExclusive ==
    /\ \A p, q \in Sessions : Owns(p) /\ Owns(q) /\ runId[p] = runId[q] => p = q
    /\ \A p \in Sessions : phase[p] = "lost" => runId[p] \in inputDirs
    /\ \A f, g \in files : f.run = g.run => f.by = g.by
    /\ \A d \in runDirs : 1..d \subseteq runDirs

\* An evaluation that returned has all its artifacts, and keeps them whatever
\* other evaluations do later; the same goes for every run with an
\* evaluation.md, the mark that it may be scored.
HasAll(p) ==
    \A i \in 1..Len(Artifacts(p)) : [run |-> runId[p], name |-> Artifacts(p)[i], by |-> p] \in files

ReturnedIsComplete ==
    /\ \A p \in Sessions : phase[p] = "returned" => HasAll(p)
    /\ \A f \in files : f.name = "evaluation.md" => runId[f.by] = f.run /\ HasAll(f.by)

\* TranscriptMatchesSpeech of every run of the split pipeline.
TranscriptsMatchSpeech ==
    \A p \in Sessions : kind[p] # "realtime" => TranscriptMatchesSpeech(p)

\* A split evaluation that has begun ends: by the time limit even if its reply
\* and its speech go on for ever.
SplitEvaluationEnds ==
    \A p \in Sessions : kind[p] = "split" /\ phase[p] = "making" ~> phase[p] \in Ended

=============================================================================
