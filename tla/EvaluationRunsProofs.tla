------------------------ MODULE EvaluationRunsProofs ------------------------
(***************************************************************************)
(* Theorems about the evaluations that share an artifact root, for any set *)
(* of processes and whatever their runs yield.                             *)
(*                                                                         *)
(* RunsAreExclusive is not inductive: a process that broke while it wrote  *)
(* owns nothing any more, but its files remain, and a process that listed  *)
(* the directories before may still compute its number.  What excludes it  *)
(* is the input directory, which nobody removes: a process with a claim,   *)
(* past or present, has its number there, and no two have the same.        *)
(*                                                                         *)
(* TranscriptsMatchSpeech speaks of a run that has returned; PipeInv says  *)
(* at every step what a run of the split pipeline has recorded so far: the *)
(* turns of all it heard, then a first part of the reply's chunks, and of  *)
(* the audio nothing beyond the chunks that are there.                     *)
(***************************************************************************)
EXTENDS EvaluationRuns, TLAPS, SequenceTheorems, FiniteSetTheorems

\* Types of what evaluations keep; events and speech are the runs' own.
EvalTypes ==
    /\ kind \in [Sessions -> Kinds]
    /\ phase \in [Sessions -> Phases]
    /\ runId \in [Sessions -> Nat]
    /\ written \in [Sessions -> 0..6]
    /\ inputDirs \subseteq runDirs
    /\ files \subseteq [run: Nat, name: FileNames, by: Sessions]

\* The directories are numbered without a gap, and whoever is about to make one
\* has the number of one of them or the next.
Numbered ==
    \E n \in Nat :
        /\ runDirs = 1..n
        /\ \A p \in Sessions : phase[p] = "making" => runId[p] \in 1..(n + 1)

Claims(p) == Owns(p) \/ written[p] > 0

Claimed ==
    /\ \A p \in Sessions : Claims(p) \/ phase[p] = "lost" => runId[p] \in inputDirs
    /\ \A p \in Sessions : written[p] > 0 => phase[p] \in {"writing", "returned", "raised"}
    /\ \A p, q \in Sessions : Claims(p) /\ Claims(q) /\ runId[p] = runId[q] => p = q

\* The files are those their writers have written so far.
FilesFromWriters ==
    \A f \in files :
        f.run = runId[f.by] /\ \E i \in 1..written[f.by] : f.name = Artifacts(f.by)[i]

WrittenIsThere ==
    \A p \in Sessions : \A i \in 1..written[p] :
        [run |-> runId[p], name |-> Artifacts(p)[i], by |-> p] \in files

ReturnedHasWritten == \A p \in Sessions : phase[p] = "returned" => written[p] = 6

RunsInv ==
    /\ EvalTypes /\ Numbered /\ Claimed
    /\ FilesFromWriters /\ WrittenIsThere /\ ReturnedHasWritten

-----------------------------------------------------------------------------
(* Facts about the artifacts *)

\* Both kinds of evaluation write six artifacts, no name twice.
LEMMA SixArtifacts ==
    ASSUME NEW p \in Sessions
    PROVE  /\ Len(Artifacts(p)) = 6
           /\ \A i, j \in 1..6 : Artifacts(p)[i] = Artifacts(p)[j] => i = j
           /\ \A i \in 1..6 : Artifacts(p)[i] \in FileNames
           /\ Artifacts(p)[6] = "evaluation.md"
BY DEF Artifacts, SplitArtifacts, RealtimeArtifacts, FileNames

\* The next number follows the greatest one.
LEMMA NextNumberFollows ==
    ASSUME NEW n \in Nat, runDirs = 1..n
    PROVE  NextNumber = n + 1
<1>1. n \in {0} \cup runDirs /\ \A d \in runDirs : n >= d
  OBVIOUS
<1>2. \A m \in {0} \cup runDirs : (\A d \in runDirs : m >= d) => m = n
  <2> SUFFICES ASSUME NEW m \in {0} \cup runDirs, \A d \in runDirs : m >= d
               PROVE  m = n
    OBVIOUS
  <2>1. m \in 0..n
    OBVIOUS
  <2>2. m >= n
    BY <1>1
  <2> QED BY <2>1, <2>2
<1>3. (CHOOSE m \in {0} \cup runDirs : \A d \in runDirs : m >= d) = n
  BY <1>1, <1>2
<1> QED BY <1>3 DEF NextNumber

-----------------------------------------------------------------------------
(* The invariant is inductive *)

\* Nothing exists when the processes start.
LEMMA InitRuns == Init => RunsInv
<1> SUFFICES ASSUME Init PROVE RunsInv
  OBVIOUS
<1>1. EvalTypes
  BY DEF Init, EvalTypes, Phases
<1>2. Numbered
  <2>1. runDirs = 1..0 /\ \A p \in Sessions : phase[p] # "making"
    BY DEF Init
  <2> QED BY <2>1 DEF Numbered
<1>3. Claimed
  BY DEF Init, Claimed, Claims, Owns
<1>4. FilesFromWriters /\ WrittenIsThere /\ ReturnedHasWritten
  BY DEF Init, FilesFromWriters, WrittenIsThere, ReturnedHasWritten
<1> QED BY <1>1, <1>2, <1>3, <1>4 DEF RunsInv

\* An evaluation that only moves on, to a phase that claims no more than it
\* did, keeps the invariant.
LEMMA MovesOn ==
    ASSUME RunsInv, NEW p \in Sessions,
           NEW where \in {"owner", "running", "writing", "returned", "raised", "lost"},
           Goto(p, where),
           UNCHANGED <<kind, runId, runDirs, inputDirs, files, written>>,
           where \in {"owner", "running", "writing", "returned"} => Owns(p),
           where = "lost" => runId[p] \in inputDirs,
           written[p] > 0 => where \in {"writing", "returned", "raised"},
           where = "returned" => written[p] = 6
    PROVE  RunsInv'
<1> USE DEF RunsInv, EvalTypes
<1>1. phase' = [phase EXCEPT ![p] = where]
  BY DEF Goto
<1>2. EvalTypes'
  BY <1>1 DEF Phases
<1>3. Numbered'
  BY <1>1 DEF Numbered
<1>4. Claimed'
  <2>1. \A q \in Sessions : Claims(q)' => Claims(q)
    BY <1>1 DEF Claims, Owns
  <2> QED BY <1>1, <2>1 DEF Claimed
<1>5. FilesFromWriters' /\ WrittenIsThere'
  BY DEF FilesFromWriters, WrittenIsThere, Artifacts
<1>6. ReturnedHasWritten'
  BY <1>1 DEF ReturnedHasWritten
<1> QED BY <1>2, <1>3, <1>4, <1>5, <1>6

\* A step that leaves the evaluations alone keeps the invariant.
LEMMA RunsFrame ==
    ASSUME RunsInv, UNCHANGED <<kind, phase, runId, runDirs, inputDirs, files, written>>
    PROVE  RunsInv'
BY DEF RunsInv, EvalTypes, Numbered, Claimed, Claims, Owns, FilesFromWriters, WrittenIsThere,
       ReturnedHasWritten, Artifacts

\* Taking a number claims nothing.
LEMMA ListRunsKeeps ==
    ASSUME RunsInv, NEW p \in Sessions, ListRuns(p)
    PROVE  RunsInv'
<1> USE DEF RunsInv, EvalTypes
<1>1. /\ phase[p] = "new"
      /\ phase' = [phase EXCEPT ![p] = "making"]
      /\ runId' = [runId EXCEPT ![p] = NextNumber]
      /\ UNCHANGED <<kind, runDirs, inputDirs, files, written>>
  BY DEF ListRuns, Goto
<1>2. PICK n \in Nat : /\ runDirs = 1..n
                       /\ \A q \in Sessions : phase[q] = "making" => runId[q] \in 1..(n + 1)
  BY DEF Numbered
<1>3. NextNumber = n + 1
  BY <1>2, NextNumberFollows
<1>4. EvalTypes'
  BY <1>1, <1>3 DEF Phases
<1>5. Numbered'
  <2>1. runDirs' = 1..n /\ \A q \in Sessions : phase'[q] = "making" => runId'[q] \in 1..(n + 1)
    BY <1>1, <1>2, <1>3
  <2> QED BY <2>1 DEF Numbered
<1>6. written[p] = 0
  <2>1. written[p] \in 0..6 /\ ~(written[p] > 0)
    BY <1>1 DEF Claimed
  <2> QED BY <2>1
<1>7. Claimed'
  <2>1. \A q \in Sessions : Claims(q)' => q # p /\ Claims(q) /\ runId'[q] = runId[q]
    BY <1>1, <1>6 DEF Claims, Owns
  <2> QED BY <1>1, <1>6, <2>1 DEF Claimed
<1>8. \A f \in files : f.by # p
  BY <1>6 DEF FilesFromWriters
<1>9. FilesFromWriters'
  BY <1>1, <1>8 DEF FilesFromWriters, Artifacts
<1>10. WrittenIsThere'
  BY <1>1, <1>6 DEF WrittenIsThere, Artifacts
<1>11. ReturnedHasWritten'
  BY <1>1 DEF ReturnedHasWritten
<1> QED BY <1>4, <1>5, <1>7, <1>9, <1>10, <1>11

\* The directory made is the next one: the numbers have no gap.
LEMMA MakeRunKeeps ==
    ASSUME RunsInv, NEW p \in Sessions, MakeRun(p)
    PROVE  RunsInv'
<1> USE DEF RunsInv, EvalTypes
<1>1. /\ phase[p] = "making" /\ runId[p] \notin runDirs
      /\ runDirs' = runDirs \cup {runId[p]}
      /\ UNCHANGED <<kind, phase, runId, inputDirs, files, written>>
  BY DEF MakeRun
<1>2. PICK n \in Nat : /\ runDirs = 1..n
                       /\ \A q \in Sessions : phase[q] = "making" => runId[q] \in 1..(n + 1)
  BY DEF Numbered
<1>3. runId[p] = n + 1
  BY <1>1, <1>2
<1>4. runDirs' = 1..(n + 1)
  BY <1>1, <1>2, <1>3
<1>5. Numbered'
  <2>1. \A q \in Sessions : phase'[q] = "making" => runId'[q] \in 1..((n + 1) + 1)
    BY <1>1, <1>2
  <2> QED BY <1>4, <2>1 DEF Numbered
<1>6. EvalTypes'
  BY <1>1
<1>7. Claimed'
  BY <1>1 DEF Claimed, Claims, Owns
<1>8. FilesFromWriters' /\ WrittenIsThere' /\ ReturnedHasWritten'
  BY <1>1 DEF FilesFromWriters, WrittenIsThere, ReturnedHasWritten, Artifacts
<1> QED BY <1>5, <1>6, <1>7, <1>8

\* Whoever makes the input directory is the first to claim the number.
LEMMA MakeInputKeeps ==
    ASSUME RunsInv, NEW p \in Sessions, MakeInput(p)
    PROVE  RunsInv'
<1> USE DEF RunsInv, EvalTypes
<1>0. phase[p] = "making" /\ runId[p] \in runDirs
  BY DEF MakeInput
<1>1. written[p] = 0
  <2>1. written[p] \in 0..6 /\ ~(written[p] > 0)
    BY <1>0 DEF Claimed
  <2> QED BY <2>1
<1>2. CASE runId[p] \in inputDirs
  <2>1. Goto(p, "lost") /\ UNCHANGED <<kind, runId, runDirs, inputDirs, files, written>>
    BY <1>2 DEF MakeInput
  <2> QED BY <1>1, <1>2, <2>1, MovesOn
<1>3. CASE runId[p] \notin inputDirs
  <2>1. /\ phase' = [phase EXCEPT ![p] = "owner"]
        /\ inputDirs' = inputDirs \cup {runId[p]}
        /\ UNCHANGED <<kind, runId, runDirs, files, written>>
    BY <1>3 DEF MakeInput, Goto
  <2>2. EvalTypes'
    BY <1>0, <2>1 DEF Phases
  <2>3. Numbered'
    BY <2>1 DEF Numbered
  <2>4. \A q \in Sessions : Claims(q)' => q = p \/ (Claims(q) /\ runId[q] # runId[p])
    BY <1>3, <2>1 DEF Claims, Owns, Claimed
  <2>5. Claimed'
    <3>1. \A q \in Sessions : Claims(q)' \/ phase'[q] = "lost" => runId'[q] \in inputDirs'
      BY <2>1, <2>4 DEF Claimed
    <3>2. \A q \in Sessions : written'[q] > 0 => phase'[q] \in {"writing", "returned", "raised"}
      BY <1>1, <2>1 DEF Claimed
    <3>3. \A q, r \in Sessions : Claims(q)' /\ Claims(r)' /\ runId'[q] = runId'[r] => q = r
      BY <2>1, <2>4 DEF Claimed
    <3> QED BY <3>1, <3>2, <3>3 DEF Claimed
  <2>6. FilesFromWriters' /\ WrittenIsThere' /\ ReturnedHasWritten'
    BY <2>1 DEF FilesFromWriters, WrittenIsThere, ReturnedHasWritten, Artifacts
  <2> QED BY <2>2, <2>3, <2>5, <2>6
<1> QED BY <1>2, <1>3

\* A file is written where no other evaluation has one.
LEMMA WriteArtifactKeeps ==
    ASSUME RunsInv, NEW p \in Sessions, WriteArtifact(p)
    PROVE  RunsInv'
<1> USE DEF RunsInv, EvalTypes
<1> DEFINE name == Artifacts(p)[written[p] + 1]
           new  == [run |-> runId[p], name |-> name, by |-> p]
<1>1. /\ phase[p] = "writing" /\ written[p] \in 0..5
      /\ files' = {f \in files : f.run # runId[p] \/ f.name # name} \cup {new}
      /\ written' = [written EXCEPT ![p] = @ + 1]
      /\ UNCHANGED <<kind, phase, runId, runDirs, inputDirs>>
  <2>1. Len(Artifacts(p)) = 6
    BY SixArtifacts
  <2>2. written[p] \in 0..6 /\ written[p] < Len(Artifacts(p))
    BY DEF WriteArtifact
  <2>3. written[p] \in 0..5
    BY <2>1, <2>2
  <2> QED BY <2>3 DEF WriteArtifact
<1>2. Claims(p)
  BY <1>1 DEF Claims, Owns
<1>3. \A f \in files : f.run = runId[p] => f.by = p
  <2> SUFFICES ASSUME NEW f \in files, f.run = runId[p] PROVE f.by = p
    OBVIOUS
  <2>1. f.by \in Sessions /\ runId[f.by] = runId[p] /\ \E i \in 1..written[f.by] : TRUE
    BY DEF FilesFromWriters
  <2>2. written[f.by] \in 0..6 /\ written[f.by] > 0
    BY <2>1
  <2> QED BY <1>2, <2>1, <2>2 DEF Claimed, Claims
<1>4. \A f \in files : f.run = runId[p] => f.name # name
  <2> SUFFICES ASSUME NEW f \in files, f.run = runId[p] PROVE f.name # name
    OBVIOUS
  <2>1. PICK i \in 1..written[p] : f.name = Artifacts(p)[i]
    BY <1>3 DEF FilesFromWriters
  <2>2. i \in 1..6 /\ written[p] + 1 \in 1..6 /\ i # written[p] + 1
    BY <1>1
  <2> QED BY <2>1, <2>2, SixArtifacts
<1>5. files' = files \cup {new}
  BY <1>1, <1>4
<1> HIDE DEF name
<1>6. EvalTypes'
  <2>1. name \in FileNames
    BY <1>1, SixArtifacts DEF name
  <2>2. files' \subseteq [run: Nat, name: FileNames, by: Sessions]
    BY <1>5, <2>1
  <2>3. written' \in [Sessions -> 0..6]
    BY <1>1
  <2> QED BY <1>1, <2>2, <2>3
<1>7. Numbered'
  BY <1>1 DEF Numbered
<1>8. Claimed'
  <2>1. \A q \in Sessions : Claims(q)' => Claims(q)
    BY <1>1, <1>2 DEF Claims, Owns
  <2>2. \A q \in Sessions : written'[q] > 0 => phase[q] \in {"writing", "returned", "raised"}
    BY <1>1 DEF Claimed
  <2> QED BY <1>1, <2>1, <2>2 DEF Claimed
<1>9. \A q \in Sessions : written'[q] \in 0..6 /\ 1..written[q] \subseteq 1..written'[q]
  BY <1>1
<1>10. FilesFromWriters'
  <2> SUFFICES ASSUME NEW f \in files'
               PROVE  f.run = runId[f.by] /\ \E i \in 1..written'[f.by] : f.name = Artifacts(f.by)[i]
    BY <1>1 DEF FilesFromWriters, Artifacts
  <2>1. CASE f \in files
    BY <1>9, <2>1 DEF FilesFromWriters
  <2>2. CASE f = new
    <3>1. written[p] + 1 \in 1..written'[p]
      BY <1>1
    <3> QED BY <2>2, <3>1 DEF name
  <2> QED BY <1>5, <2>1, <2>2
<1>11. WrittenIsThere'
  <2> SUFFICES ASSUME NEW q \in Sessions, NEW i \in 1..written'[q]
               PROVE  [run |-> runId[q], name |-> Artifacts(q)[i], by |-> q] \in files'
    BY <1>1 DEF WrittenIsThere, Artifacts
  <2>1. CASE i \in 1..written[q]
    BY <1>5, <2>1 DEF WrittenIsThere
  <2>2. CASE i \notin 1..written[q]
    <3>1. q = p /\ i = written[p] + 1
      BY <1>1, <2>2
    <3> QED BY <1>5, <3>1 DEF name
  <2> QED BY <2>1, <2>2
<1>12. ReturnedHasWritten'
  BY <1>1 DEF ReturnedHasWritten
<1> QED BY <1>6, <1>7, <1>8, <1>10, <1>11, <1>12

\* Every step of a process keeps the invariant.
LEMMA StepKeeps ==
    ASSUME RunsInv, NEW p \in Sessions, Step(p)
    PROVE  RunsInv'
<1> USE DEF RunsInv, EvalTypes
<1>0. written[p] \in 0..6 /\ (phase[p] \in {"owner", "running"} => written[p] = 0)
  <2>1. written[p] \in 0..6 /\ (phase[p] \in {"owner", "running"} => ~(written[p] > 0))
    BY DEF Claimed
  <2> QED BY <2>1
<1>1. CASE ListRuns(p)
  BY <1>1, ListRunsKeeps
<1>2. CASE Allocate(p)
  BY <1>2, MakeRunKeeps, MakeInputKeeps DEF Allocate
<1>3. CASE BeginSplit(p) \/ BeginRealtime(p) \/ SplitEnds(p) \/ RealtimeEnds(p) \/ RealtimeRaises(p)
  <2>1. /\ Owns(p) /\ written[p] = 0
        /\ \E where \in {"running", "writing", "raised"} : Goto(p, where)
        /\ UNCHANGED <<kind, runId, runDirs, inputDirs, files, written>>
    BY <1>0, <1>3 DEF BeginSplit, BeginRealtime, SplitEnds, RealtimeEnds, RealtimeRaises, Owns
  <2> QED BY <2>1, MovesOn
<1>4. CASE SplitRuns(p) \/ Direct(p) \/ \E raw \in RawEvents : RealtimeEvent(p, raw)
  <2>1. UNCHANGED evalVars
    BY <1>4 DEF SplitRuns, Direct, RealtimeEvent
  <2> QED BY <2>1, RunsFrame DEF evalVars
<1>5. CASE WriteArtifact(p)
  BY <1>5, WriteArtifactKeeps
<1>6. CASE Return(p)
  <2>1. /\ phase[p] = "writing" /\ written[p] = 6 /\ Goto(p, "returned")
        /\ UNCHANGED <<kind, runId, runDirs, inputDirs, files, written>>
    BY <1>6, SixArtifacts DEF Return
  <2>2. Owns(p)
    BY <2>1 DEF Owns
  <2> QED BY <2>1, <2>2, MovesOn
<1>7. CASE Breaks(p)
  <2>1. /\ Goto(p, "raised")
        /\ UNCHANGED <<kind, runId, runDirs, inputDirs, files, written>>
    BY <1>7 DEF Breaks
  <2> QED BY <2>1, MovesOn
<1> QED BY <1>1, <1>2, <1>3, <1>4, <1>5, <1>6, <1>7 DEF Step

\* For any processes and whatever their runs yield.
THEOREM RunsInvariance == Spec => []RunsInv
<1>1. RunsInv /\ [Next]_vars => RunsInv'
  <2>1. RunsInv /\ Next => RunsInv'
    BY StepKeeps DEF Next
  <2>2. RunsInv /\ UNCHANGED vars => RunsInv'
    BY RunsFrame DEF vars, evalVars
  <2> QED BY <2>1, <2>2
<1> QED BY <1>1, InitRuns, PTL DEF Spec

-----------------------------------------------------------------------------
(* What the evaluations promise *)

\* The invariant gives RunsAreExclusive: any two files of a run have writers
\* with a claim on it, which are the same.
LEMMA ExclusiveFromInv == RunsInv => RunsAreExclusive
<1> SUFFICES ASSUME RunsInv PROVE RunsAreExclusive
  OBVIOUS
<1> USE DEF RunsInv, EvalTypes
<1>1. \A p, q \in Sessions : Owns(p) /\ Owns(q) /\ runId[p] = runId[q] => p = q
  BY DEF Claimed, Claims
<1>2. \A p \in Sessions : phase[p] = "lost" => runId[p] \in inputDirs
  BY DEF Claimed
<1>3. \A f \in files : f.by \in Sessions /\ runId[f.by] = f.run /\ Claims(f.by)
  <2> SUFFICES ASSUME NEW f \in files
               PROVE  f.by \in Sessions /\ runId[f.by] = f.run /\ Claims(f.by)
    OBVIOUS
  <2>1. f.by \in Sessions /\ runId[f.by] = f.run /\ \E i \in 1..written[f.by] : TRUE
    BY DEF FilesFromWriters
  <2>2. written[f.by] \in 0..6 /\ written[f.by] > 0
    BY <2>1
  <2> QED BY <2>1, <2>2 DEF Claims
<1>4. \A f, g \in files : f.run = g.run => f.by = g.by
  BY <1>3 DEF Claimed
<1>5. \A d \in runDirs : 1..d \subseteq runDirs
  BY DEF Numbered
<1> QED BY <1>1, <1>2, <1>4, <1>5 DEF RunsAreExclusive

\* The invariant gives ReturnedIsComplete: evaluation.md is the sixth artifact.
LEMMA CompleteFromInv == RunsInv => ReturnedIsComplete
<1> SUFFICES ASSUME RunsInv PROVE ReturnedIsComplete
  OBVIOUS
<1> USE DEF RunsInv, EvalTypes
<1>1. \A p \in Sessions : written[p] = 6 => HasAll(p)
  BY SixArtifacts DEF WrittenIsThere, HasAll
<1>2. \A p \in Sessions : phase[p] = "returned" => HasAll(p)
  BY <1>1 DEF ReturnedHasWritten
<1>3. ASSUME NEW f \in files, f.name = "evaluation.md"
      PROVE  runId[f.by] = f.run /\ HasAll(f.by)
  <2>1. PICK i \in 1..written[f.by] : f.name = Artifacts(f.by)[i]
    BY DEF FilesFromWriters
  <2>2. f.by \in Sessions /\ written[f.by] \in 0..6 /\ i \in 1..6
    OBVIOUS
  <2>3. i = 6
    BY <1>3, <2>1, <2>2, SixArtifacts
  <2>4. written[f.by] = 6
    BY <2>2, <2>3
  <2> QED BY <1>1, <2>2, <2>4 DEF FilesFromWriters
<1> QED BY <1>2, <1>3 DEF ReturnedIsComplete

\* No two evaluations own the same run, and no run has files of two, however
\* their listings and directories interleave and wherever a process breaks.
THEOREM Exclusive == Spec => []RunsAreExclusive
BY RunsInvariance, ExclusiveFromInv, PTL

\* An evaluation that returned, or a run with an evaluation.md, has and keeps
\* all its artifacts.
THEOREM Complete == Spec => []ReturnedIsComplete
BY RunsInvariance, CompleteFromInv, PTL

-----------------------------------------------------------------------------
(* What a run of the split pipeline records *)

Event == ConversationEvents \cup RealtimeEvents

PipeTypes ==
    /\ PipeTypeOK
    /\ events \in [Sessions -> Seq(Event)]
    /\ kind \in [Sessions -> Kinds]

\* The first n chunks of a reply.
ChunksTo(n) == [i \in 1..n |-> AssistantChunk(i - 1)]

\* A run that has recorded nothing, and one that has recorded n chunks.
Silent(s) ==
    /\ pipe[s] \in {"idle", "hearing", "ended"}
    /\ events[s] = << >> /\ spoken[s] = << >>

Answered(s, n) ==
    /\ pipe[s] \in {"replying", "speaking", "ended"}
    /\ ~ContainsForbiddenTopic(said[s])
    /\ events[s] = UserTurns(said[s]) \o ChunksTo(n)
    /\ \A i \in DOMAIN spoken[s] : spoken[s][i] \in 0..(n - 1)
    /\ \A i, j \in DOMAIN spoken[s] : i < j => spoken[s][i] <= spoken[s][j]
    /\ pipe[s] = "speaking" => n >= 1

Told(s) ==
    IF kind[s] = "realtime" THEN pipe[s] = "idle"
    ELSE Silent(s) \/ \E n \in Nat : Answered(s, n)

PipeInv == PipeTypes /\ \A s \in Sessions : Told(s)

-----------------------------------------------------------------------------
(* Facts about what is recorded *)

\* The turns of a transcript are events, one for each final segment.
LEMMA TurnsType ==
    ASSUME NEW texts \in Seq(Words)
    PROVE  /\ UserTurns(texts) \in Seq(Event) /\ Len(UserTurns(texts)) = Len(texts)
           /\ \A i \in 1..Len(texts) : UserTurns(texts)[i].type = "user_turn"
<1>1. Len(texts) \in Nat /\ \A i \in 1..Len(texts) : texts[i] \in Words
  OBVIOUS
<1>2. \A i \in 1..Len(texts) : UserTurn(texts[i]) \in Event /\ UserTurn(texts[i]).type = "user_turn"
  BY <1>1 DEF UserTurn, Event, ConversationEvents
<1>3. UserTurns(texts) \in [1..Len(texts) -> Event]
  BY <1>2 DEF UserTurns
<1> QED BY <1>1, <1>2, <1>3 DEF UserTurns

\* So are the chunks of a reply.
LEMMA ChunksType ==
    ASSUME NEW n \in Nat
    PROVE  /\ ChunksTo(n) \in Seq(Event) /\ Len(ChunksTo(n)) = n
           /\ \A i \in 1..n : ChunksTo(n)[i] = AssistantChunk(i - 1)
           /\ \A i \in 1..n : ChunksTo(n)[i].type = "assistant_chunk"
<1>1. \A i \in 1..n : AssistantChunk(i - 1) \in Event /\ AssistantChunk(i - 1).type = "assistant_chunk"
  BY DEF AssistantChunk, Event, ConversationEvents
<1>2. ChunksTo(n) \in [1..n -> Event]
  BY <1>1 DEF ChunksTo
<1> QED BY <1>1, <1>2 DEF ChunksTo

\* What comes after the turns is counted as chunks, and nothing else is.
LEMMA ChunksAre ==
    ASSUME NEW s \in Sessions, said[s] \in Seq(Words), NEW n \in Nat,
           events[s] = UserTurns(said[s]) \o ChunksTo(n)
    PROVE  Chunks(s) = n
<1> DEFINE t == UserTurns(said[s])
           c == ChunksTo(n)
           m == Len(said[s])
<1>1. /\ t \in Seq(Event) /\ Len(t) = m /\ \A i \in 1..m : t[i].type = "user_turn"
      /\ c \in Seq(Event) /\ Len(c) = n /\ \A i \in 1..n : c[i].type = "assistant_chunk"
      /\ m \in Nat
  BY TurnsType, ChunksType
<1> HIDE DEF t, c, m
<1>2. /\ t \o c \in Seq(Event) /\ Len(t \o c) = m + n
      /\ \A i \in 1 .. m + n : (t \o c)[i] = IF i <= m THEN t[i] ELSE c[i - m]
  <2>1. /\ t \o c \in Seq(Event) /\ Len(t \o c) = Len(t) + Len(c)
        /\ \A i \in 1 .. Len(t) + Len(c) : (t \o c)[i] = IF i <= Len(t) THEN t[i] ELSE c[i - Len(t)]
    BY <1>1, ConcatProperties
  <2> QED BY <1>1, <2>1, Zenon
<1>3. DOMAIN (t \o c) = 1..(m + n)
  BY <1>2
<1>4. ASSUME NEW i \in 1..(m + n)
      PROVE  (t \o c)[i].type = "assistant_chunk" <=> i \in (m + 1)..(m + n)
  <2>1. CASE i <= m
    <3>1. i \in 1..m /\ i \notin (m + 1)..(m + n) /\ (t \o c)[i] = t[i]
      BY <1>1, <1>2, <2>1
    <3> QED BY <1>1, <3>1
  <2>2. CASE i > m
    <3>1. i - m \in 1..n /\ i \in (m + 1)..(m + n) /\ (t \o c)[i] = c[i - m]
      BY <1>1, <1>2, <2>2
    <3> QED BY <1>1, <3>1
  <2> QED BY <1>1, <2>1, <2>2
<1>5. {i \in DOMAIN (t \o c) : (t \o c)[i].type = "assistant_chunk"} = (m + 1)..(m + n)
  <2>1. \A i \in (m + 1)..(m + n) : i \in 1..(m + n)
    BY <1>1
  <2> QED BY <1>3, <1>4, <2>1
<1>6. Cardinality((m + 1)..(m + n)) = n
  <2>1. Cardinality((m + 1)..(m + n)) = IF m + 1 > m + n THEN 0 ELSE (m + n) - (m + 1) + 1
    BY <1>1, FS_Interval
  <2> QED BY <1>1, <2>1
<1>7. events[s] = t \o c
  BY DEF t, c
<1> QED BY <1>5, <1>6, <1>7 DEF Chunks

\* The next chunk goes behind the ones there are.
LEMMA NextChunk ==
    ASSUME NEW texts \in Seq(Words), NEW n \in Nat
    PROVE  /\ Append(UserTurns(texts) \o ChunksTo(n), AssistantChunk(n)) = UserTurns(texts) \o ChunksTo(n + 1)
           /\ AssistantChunk(n) \in Event
           /\ UserTurns(texts) \o ChunksTo(n) \in Seq(Event)
           /\ UserTurns(texts) \o ChunksTo(0) = UserTurns(texts)
<1> DEFINE t == UserTurns(texts)
           c == ChunksTo(n)
           a == AssistantChunk(n)
<1>1. t \in Seq(Event) /\ c \in Seq(Event) /\ a \in Event
  BY TurnsType, ChunksType DEF AssistantChunk, Event, ConversationEvents
<1>2. Append(c, a) = ChunksTo(n + 1)
  <2>1. Len(c) = n /\ \A i \in 1..n : c[i] = AssistantChunk(i - 1)
    BY ChunksType
  <2>2. /\ ChunksTo(n + 1) \in Seq(Event) /\ Len(ChunksTo(n + 1)) = n + 1
        /\ \A i \in 1..(n + 1) : ChunksTo(n + 1)[i] = AssistantChunk(i - 1)
    <3>1. n + 1 \in Nat
      OBVIOUS
    <3> QED BY <3>1, ChunksType
  <2> HIDE DEF c, a
  <2>3. /\ Append(c, a) \in Seq(Event) /\ Len(Append(c, a)) = n + 1
        /\ \A i \in 1..n : Append(c, a)[i] = c[i] /\ Append(c, a)[n + 1] = a
    BY <1>1, <2>1, AppendProperties
  <2>4. Append(c, a)[n + 1] = a
    BY <1>1, <2>1, AppendProperties
  <2>5. (n + 1) - 1 = n /\ a = AssistantChunk(n)
    BY DEF a
  <2>6. ASSUME NEW i \in 1..(n + 1) PROVE Append(c, a)[i] = ChunksTo(n + 1)[i]
    <3>1. CASE i \in 1..n
      BY <2>1, <2>2, <2>3, <3>1
    <3>2. CASE i = n + 1
      <4>1. ChunksTo(n + 1)[i] = AssistantChunk(i - 1) /\ i - 1 = n
        BY <2>2, <3>2
      <4> QED BY <2>4, <2>5, <3>2, <4>1
    <3>3. i \in 1..n \/ i = n + 1
      OBVIOUS
    <3> QED BY <3>1, <3>2, <3>3, Zenon
  <2> QED BY <2>2, <2>3, <2>6, SeqEqual
<1> HIDE DEF t, c, a
<1>3. Append(t \o c, a) = t \o Append(c, a)
  <2>1. t \o c \in Seq(Event) /\ <<a>> \in Seq(Event)
    BY <1>1, ConcatProperties
  <2>2. Append(t \o c, a) = (t \o c) \o <<a>> /\ Append(c, a) = c \o <<a>>
    BY <1>1, <2>1, AppendIsConcat
  <2>3. (t \o c) \o <<a>> = t \o (c \o <<a>>)
    BY <1>1, <2>1, ConcatAssociative
  <2> QED BY <2>2, <2>3
<1>4. t \o c \in Seq(Event)
  BY <1>1, ConcatProperties
<1>5. UserTurns(texts) \o ChunksTo(0) = UserTurns(texts)
  <2>1. ChunksTo(0) = << >>
    BY ChunksType
  <2>2. t \o << >> = t
    BY <1>1, ConcatEmptySeq
  <2> QED BY <2>1, <2>2 DEF t
<1>6. AssistantChunk(n) \in Event
  BY <1>1 DEF a
<1>7. UserTurns(texts) \o ChunksTo(n) \in Seq(Event)
  BY <1>4 DEF t, c
<1>8. Append(UserTurns(texts) \o ChunksTo(n), AssistantChunk(n)) = UserTurns(texts) \o ChunksTo(n + 1)
  BY <1>2, <1>3 DEF t, c, a
<1> QED BY <1>5, <1>6, <1>7, <1>8

\* A topic that begins somewhere in the transcript is one of its subsequences.
LEMMA ForbiddenSeen ==
    ASSUME NEW texts \in Seq(Words), NEW topic \in ForbiddenTopics, NEW k \in 0..Len(texts),
           IsPrefix(topic, SubSeq(texts, k + 1, Len(texts)))
    PROVE  ContainsForbiddenTopic(texts)
<1> DEFINE l == Len(texts)
           n == Len(topic)
           u == SubSeq(texts, k + 1, l)
<1>1. topic \in Seq(Words) /\ n \in Nat /\ l \in Nat /\ k \in Nat /\ k <= l
  BY RuntimeAssumption
<1>2. n <= Len(u) /\ SubSeq(topic, 1, n) = SubSeq(u, 1, n) /\ SubSeq(topic, 1, n) = topic
  BY <1>1, SubSeqFull DEF IsPrefix
<1>3. u \in Seq(Words) /\ Len(u) = l - k /\ \A i \in 1..(l - k) : u[i] = texts[k + i]
  <2>1. k + 1 \in Int /\ l \in Int /\ \A i \in (k + 1)..l : texts[i] \in Words
    BY <1>1
  <2>2. /\ u \in Seq(Words) /\ Len(u) = IF k + 1 <= l THEN l - (k + 1) + 1 ELSE 0
        /\ \A i \in 1..(l - (k + 1) + 1) : u[i] = texts[(k + 1) + i - 1]
    BY <2>1, SubSeqProperties
  <2>3. l - (k + 1) + 1 = l - k /\ \A i \in 1..(l - k) : (k + 1) + i - 1 = k + i
    BY <1>1
  <2> HIDE DEF u, l
  <2> QED BY <1>1, <2>2, <2>3
<1> HIDE DEF u, n
<1>4. topic = SubSeq(texts, k + 1, k + n)
  <2>1. Len(topic) = n
    BY DEF n
  <2>2. k + n <= l /\ k + n \in 0..l
    BY <1>1, <1>2, <1>3
  <2>3. /\ SubSeq(texts, k + 1, k + n) \in Seq(Words) /\ Len(SubSeq(texts, k + 1, k + n)) = n
        /\ \A i \in 1..n : SubSeq(texts, k + 1, k + n)[i] = texts[k + i]
    <3>1. k + 1 \in Int /\ k + n \in Int /\ \A i \in (k + 1)..(k + n) : texts[i] \in Words
      BY <1>1, <2>2
    <3>2. /\ SubSeq(texts, k + 1, k + n) \in Seq(Words)
          /\ Len(SubSeq(texts, k + 1, k + n)) = IF k + 1 <= k + n THEN (k + n) - (k + 1) + 1 ELSE 0
          /\ \A i \in 1..((k + n) - (k + 1) + 1) : SubSeq(texts, k + 1, k + n)[i] = texts[(k + 1) + i - 1]
      BY <3>1, SubSeqProperties
    <3>3. /\ (k + n) - (k + 1) + 1 = n /\ \A i \in 1..n : (k + 1) + i - 1 = k + i
          /\ (k + 1 <= k + n \/ n = 0)
      BY <1>1
    <3> QED BY <3>2, <3>3
  <2>4. \A i \in 1..n : topic[i] = u[i]
    <3>1. /\ Len(SubSeq(u, 1, n)) = IF 1 <= n THEN n - 1 + 1 ELSE 0
          /\ \A i \in 1..(n - 1 + 1) : SubSeq(u, 1, n)[i] = u[1 + i - 1]
      <4>1. 1 \in Int /\ n \in Int /\ \A i \in 1..n : u[i] \in Words
        BY <1>1, <1>2, <1>3
      <4> QED BY <4>1, SubSeqProperties
    <3>2. n - 1 + 1 = n /\ \A i \in 1..n : 1 + i - 1 = i
      BY <1>1
    <3>3. \A i \in 1..n : SubSeq(u, 1, n)[i] = u[i]
      BY <3>1, <3>2
    <3> QED BY <1>2, <3>3
  <2>5. \A i \in 1..n : i \in 1..(l - k)
    BY <1>1, <1>2, <1>3
  <2>6. \A i \in 1..n : topic[i] = SubSeq(texts, k + 1, k + n)[i]
    BY <1>3, <2>3, <2>4, <2>5
  <2> QED BY <1>1, <2>1, <2>3, <2>6, SeqEqual
<1>5. k \in 0..l /\ k + n \in 0..l
  BY <1>1, <1>2, <1>3
<1>6. \E i, j \in 0..Len(texts) : topic = SubSeq(texts, i + 1, j)
  BY <1>4, <1>5 DEF l
<1>7. topic \in SubSeqs(texts)
  BY <1>6 DEF SubSeqs
<1> QED BY <1>7 DEF ContainsForbiddenTopic

-----------------------------------------------------------------------------
(* Every step keeps the record *)

LEMMA InitPipe == Init => PipeInv
<1> SUFFICES ASSUME Init PROVE PipeInv
  OBVIOUS
<1>1. << >> \in Seq(Words) /\ << >> \in Seq(Nat) /\ << >> \in Seq(Event)
  OBVIOUS
<1>2. PipeTypes
  BY <1>1 DEF Init, PipeInit, PipeTypes, PipeTypeOK, Pipes, Exits
<1>3. \A s \in Sessions : Told(s)
  BY DEF Init, PipeInit, Told, Silent
<1> QED BY <1>2, <1>3 DEF PipeInv

\* A session's record depends on its own run only.
LEMMA ToldFrame ==
    ASSUME NEW s \in Sessions, Told(s),
           pipe'[s] = pipe[s], said'[s] = said[s], events'[s] = events[s],
           spoken'[s] = spoken[s], kind' = kind
    PROVE  Told(s)'
<1>1. CASE kind[s] = "realtime"
  BY <1>1 DEF Told
<1>2. CASE kind[s] # "realtime" /\ Silent(s)
  BY <1>2 DEF Told, Silent
<1>3. CASE kind[s] # "realtime" /\ \E n \in Nat : Answered(s, n)
  <2>1. PICK n \in Nat : Answered(s, n)
    BY <1>3
  <2>2. Answered(s, n)'
    BY <2>1 DEF Answered
  <2> QED BY <1>3, <2>2 DEF Told
<1> QED BY <1>1, <1>2, <1>3 DEF Told

\* What a step of one run has to keep.
LEMMA OneRun ==
    ASSUME PipeInv, NEW p \in Sessions, kind' = kind, PipeTypes',
           \A q \in Sessions \ {p} : /\ pipe'[q] = pipe[q] /\ said'[q] = said[q]
                                     /\ events'[q] = events[q] /\ spoken'[q] = spoken[q],
           Told(p)'
    PROVE  PipeInv'
<1>1. ASSUME NEW q \in Sessions PROVE Told(q)'
  <2>1. CASE q = p
    BY <2>1
  <2>2. CASE q # p
    <3>1. Told(q)
      BY DEF PipeInv
    <3>2. q \in Sessions \ {p}
      BY <2>2
    <3> QED BY <3>1, <3>2, ToldFrame
  <2> QED BY <2>1, <2>2
<1> QED BY <1>1 DEF PipeInv

\* A step that touches no run keeps the record.
LEMMA PipeFrame ==
    ASSUME PipeInv, UNCHANGED <<pipe, exit, said, events, spoken, kind>>,
           stopped' \subseteq Sessions, expired' \subseteq Sessions
    PROVE  PipeInv'
<1>1. PipeTypes'
  BY DEF PipeInv, PipeTypes, PipeTypeOK
<1>2. \A q \in Sessions : Told(q)'
  BY ToldFrame DEF PipeInv
<1> QED BY <1>1, <1>2 DEF PipeInv

\* Leaving changes what the run waits for and nothing it has recorded.
LEMMA LeaveKeeps ==
    ASSUME PipeInv, NEW p \in Sessions, kind[p] # "realtime", NEW how \in Exits, Leave(p, how),
           UNCHANGED <<said, events, spoken, stopped, expired, kind>>
    PROVE  PipeInv'
<1>1. pipe' = [pipe EXCEPT ![p] = "ended"] /\ exit' = [exit EXCEPT ![p] = how]
  BY DEF Leave
<1>2. PipeTypes'
  BY <1>1 DEF PipeInv, PipeTypes, PipeTypeOK, Pipes
<1>3. pipe'[p] = "ended"
  BY <1>1 DEF PipeInv, PipeTypes, PipeTypeOK
<1>4. Told(p)'
  <2>1. CASE Silent(p)
    BY <1>3, <2>1 DEF Told, Silent
  <2>2. CASE \E n \in Nat : Answered(p, n)
    <3>1. PICK n \in Nat : Answered(p, n)
      BY <2>2
    <3>2. Answered(p, n)'
      BY <1>3, <3>1 DEF Answered
    <3> QED BY <3>2 DEF Told
  <2> QED BY <2>1, <2>2 DEF PipeInv, Told
<1>5. \A q \in Sessions \ {p} : pipe'[q] = pipe[q]
  BY <1>1 DEF PipeInv, PipeTypes, PipeTypeOK
<1> QED BY <1>2, <1>4, <1>5, OneRun

\* A run begins with nothing recorded, and hears before it records.
LEMMA HearingKeeps ==
    ASSUME PipeInv, NEW p \in Sessions, kind[p] # "realtime", kind' = kind,
           Run(p) \/ \E segment \in Segments : Segment(p, segment)
    PROVE  PipeInv'
<1>0. pipe \in [Sessions -> Pipes] /\ said \in [Sessions -> Seq(Words)]
  BY DEF PipeInv, PipeTypes, PipeTypeOK
<1>1. Silent(p)
  <2>1. pipe[p] \in {"idle", "hearing"}
    BY DEF Run, Segment
  <2> QED BY <2>1 DEF PipeInv, Told, Answered
<1>2. CASE Run(p)
  <2>1. CASE Leave(p, "stopped")
    BY <1>2, <2>1, LeaveKeeps DEF Run, Exits
  <2>2. CASE pipe' = [pipe EXCEPT ![p] = "hearing"] /\ UNCHANGED exit
    <3>1. UNCHANGED <<exit, said, events, spoken, stopped, expired>>
      BY <1>2, <2>2 DEF Run
    <3>2. PipeTypes'
      BY <1>0, <2>2, <3>1 DEF PipeInv, PipeTypes, PipeTypeOK, Pipes
    <3>3. Told(p)'
      <4>1. pipe'[p] = "hearing"
        BY <1>0, <2>2
      <4> QED BY <1>1, <3>1, <4>1 DEF Told, Silent
    <3>4. \A q \in Sessions \ {p} : pipe'[q] = pipe[q]
      BY <1>0, <2>2
    <3> QED BY <3>1, <3>2, <3>3, <3>4, OneRun
  <2> QED BY <1>2, <2>1, <2>2 DEF Run
<1>3. ASSUME NEW segment \in Segments, Segment(p, segment) PROVE PipeInv'
  <2>1. UNCHANGED <<pipe, exit, events, spoken, stopped, expired>>
    BY <1>3 DEF Segment
  <2>2. CASE said' = [said EXCEPT ![p] = Append(@, segment.text)]
    <3>1. segment.text \in Words
      BY DEF Words
    <3>2. Append(said[p], segment.text) \in Seq(Words)
      BY <1>0, <3>1
    <3>3. said' \in [Sessions -> Seq(Words)]
      BY <1>0, <2>2, <3>2
    <3>4. PipeTypes'
      BY <2>1, <3>3 DEF PipeInv, PipeTypes, PipeTypeOK
    <3>5. Told(p)'
      BY <1>1, <2>1 DEF Told, Silent
    <3>6. \A q \in Sessions \ {p} : said'[q] = said[q]
      BY <1>0, <2>2
    <3> QED BY <2>1, <3>4, <3>5, <3>6, OneRun
  <2>3. CASE UNCHANGED said
    <3>1. stopped' \subseteq Sessions /\ expired' \subseteq Sessions
      BY <2>1 DEF PipeInv, PipeTypes, PipeTypeOK
    <3> QED BY <2>1, <2>3, <3>1, PipeFrame
  <2> QED BY <1>3, <2>2, <2>3 DEF Segment
<1> QED BY <1>2, <1>3

\* The user turns are recorded once the transcript has ended, unless a topic in
\* them is forbidden.
LEMMA TranscribedKeeps ==
    ASSUME PipeInv, NEW p \in Sessions, kind[p] # "realtime", kind' = kind, Transcribed(p)
    PROVE  PipeInv'
<1>0. /\ pipe \in [Sessions -> Pipes] /\ said \in [Sessions -> Seq(Words)]
      /\ events \in [Sessions -> Seq(Event)]
  BY DEF PipeInv, PipeTypes, PipeTypeOK
<1>1. Silent(p)
  <2>1. pipe[p] = "hearing"
    BY DEF Transcribed
  <2> QED BY <2>1 DEF PipeInv, Told, Answered
<1>2. UNCHANGED <<said, spoken, stopped, expired>>
  BY DEF Transcribed
<1>3. CASE Leave(p, "forbidden") /\ UNCHANGED events
  BY <1>2, <1>3, LeaveKeeps DEF Exits
<1>4. CASE /\ ~ContainsForbiddenTopic(said[p])
           /\ pipe' = [pipe EXCEPT ![p] = "replying"]
           /\ events' = [events EXCEPT ![p] = UserTurns(said[p])]
           /\ UNCHANGED exit
  <2>1. said[p] \in Seq(Words)
    BY <1>0
  <2>2. UserTurns(said[p]) \in Seq(Event) /\ 0 \in Nat
    BY <2>1, TurnsType
  <2>3. UserTurns(said[p]) = UserTurns(said[p]) \o ChunksTo(0)
    BY <2>1, <2>2, NextChunk
  <2>4. PipeTypes'
    <3>1. pipe' \in [Sessions -> Pipes]
      BY <1>0, <1>4 DEF Pipes
    <3>2. events' \in [Sessions -> Seq(Event)]
      BY <1>0, <1>4, <2>2
    <3> QED BY <1>2, <1>4, <3>1, <3>2 DEF PipeInv, PipeTypes, PipeTypeOK
  <2>5. pipe'[p] = "replying" /\ events'[p] = UserTurns(said[p]) \o ChunksTo(0)
    BY <1>0, <1>4, <2>3
  <2>6. spoken[p] = << >> /\ DOMAIN << >> = {}
    BY <1>1 DEF Silent
  <2>7. Answered(p, 0)'
    BY <1>2, <1>4, <2>5, <2>6 DEF Answered
  <2>8. Told(p)'
    BY <2>2, <2>7 DEF Told
  <2>9. \A q \in Sessions \ {p} : pipe'[q] = pipe[q] /\ events'[q] = events[q]
    BY <1>0, <1>4
  <2> QED BY <1>2, <2>4, <2>8, <2>9, OneRun
<1> QED BY <1>3, <1>4 DEF Transcribed

\* A chunk of the reply is recorded behind the ones before it.
LEMMA ReplyChunkKeeps ==
    ASSUME PipeInv, NEW p \in Sessions, kind[p] # "realtime", kind' = kind, ReplyChunk(p)
    PROVE  PipeInv'
<1>0. /\ pipe \in [Sessions -> Pipes] /\ said \in [Sessions -> Seq(Words)]
      /\ events \in [Sessions -> Seq(Event)] /\ said[p] \in Seq(Words)
  BY DEF PipeInv, PipeTypes, PipeTypeOK
<1>1. PICK n \in Nat : Answered(p, n)
  <2>1. pipe[p] = "replying"
    BY DEF ReplyChunk
  <2> QED BY <2>1 DEF PipeInv, Told, Silent
<1>2. UNCHANGED <<said, spoken, stopped, expired>>
  BY DEF ReplyChunk
<1>3. CASE Leave(p, "cut") /\ UNCHANGED events
  BY <1>2, <1>3, LeaveKeeps DEF Exits
<1>4. CASE /\ pipe' = [pipe EXCEPT ![p] = "speaking"]
           /\ events' = [events EXCEPT ![p] = Append(@, AssistantChunk(Chunks(p)))]
           /\ UNCHANGED exit
  <2>1. events[p] = UserTurns(said[p]) \o ChunksTo(n)
    BY <1>1 DEF Answered
  <2>2. Chunks(p) = n
    BY <1>0, <2>1, ChunksAre
  <2>3. /\ Append(events[p], AssistantChunk(n)) = UserTurns(said[p]) \o ChunksTo(n + 1)
        /\ AssistantChunk(n) \in Event
    BY <1>0, <2>1, NextChunk
  <2>4. PipeTypes'
    <3>1. pipe' \in [Sessions -> Pipes]
      BY <1>0, <1>4 DEF Pipes
    <3>2. events' \in [Sessions -> Seq(Event)]
      <4>0. events[p] \in Seq(Event)
        BY <1>0
      <4>1. Append(events[p], AssistantChunk(n)) \in Seq(Event)
        BY <2>3, <4>0, AppendProperties
      <4> QED BY <1>0, <1>4, <2>2, <4>1
    <3> QED BY <1>2, <1>4, <3>1, <3>2 DEF PipeInv, PipeTypes, PipeTypeOK
  <2>5. pipe'[p] = "speaking" /\ events'[p] = UserTurns(said[p]) \o ChunksTo(n + 1)
    BY <1>0, <1>4, <2>2, <2>3
  <2>6. n + 1 \in Nat /\ n + 1 >= 1 /\ \A x : x \in 0..(n - 1) => x \in 0..((n + 1) - 1)
    OBVIOUS
  <2>7. \A i \in DOMAIN spoken[p] : spoken[p][i] \in 0..((n + 1) - 1)
    BY <1>1, <2>6 DEF Answered
  <2>8. Answered(p, n + 1)'
    BY <1>1, <1>2, <2>5, <2>6, <2>7 DEF Answered
  <2>9. Told(p)'
    BY <2>6, <2>8 DEF Told
  <2>10. \A q \in Sessions \ {p} : pipe'[q] = pipe[q] /\ events'[q] = events[q]
    BY <1>0, <1>4
  <2> QED BY <1>2, <2>4, <2>9, <2>10, OneRun
<1> QED BY <1>3, <1>4 DEF ReplyChunk

\* Speech is of the last chunk, so of none before one that was spoken already.
LEMMA SpeechPieceKeeps ==
    ASSUME PipeInv, NEW p \in Sessions, kind[p] # "realtime", kind' = kind, SpeechPiece(p)
    PROVE  PipeInv'
<1>0. /\ said[p] \in Seq(Words) /\ spoken \in [Sessions -> Seq(Nat)] /\ spoken[p] \in Seq(Nat)
  BY DEF PipeInv, PipeTypes, PipeTypeOK
<1>1. pipe[p] = "speaking" /\ UNCHANGED <<said, events, stopped, expired>>
  BY DEF SpeechPiece
<1>2. PICK n \in Nat : Answered(p, n)
  BY <1>1 DEF PipeInv, Told, Silent
<1>3. CASE Leave(p, "cut") /\ UNCHANGED spoken
  BY <1>1, <1>3, LeaveKeeps DEF Exits
<1>4. CASE spoken' = [spoken EXCEPT ![p] = Append(@, Chunks(p) - 1)] /\ UNCHANGED <<pipe, exit>>
  <2>1. Chunks(p) = n
    BY <1>0, <1>2, ChunksAre DEF Answered
  <2>2. n >= 1 /\ n - 1 \in Nat
    BY <1>1, <1>2 DEF Answered
  <2> DEFINE old == spoken[p]
             new == Append(old, n - 1)
             l == Len(old)
  <2>3. /\ new \in Seq(Nat) /\ DOMAIN new = 1..(l + 1) /\ l \in Nat /\ DOMAIN old = 1..l
        /\ \A i \in 1..l : new[i] = old[i]
        /\ new[l + 1] = n - 1
    BY <1>0, <2>2
  <2>4. spoken'[p] = new
    BY <1>0, <1>4, <2>1
  <2>5. PipeTypes'
    <3>1. spoken' \in [Sessions -> Seq(Nat)]
      BY <1>0, <1>4, <2>1, <2>3
    <3> QED BY <1>1, <1>4, <3>1 DEF PipeInv, PipeTypes, PipeTypeOK
  <2>6. /\ \A i \in 1..l : old[i] \in 0..(n - 1)
        /\ \A i, j \in 1..l : i < j => old[i] <= old[j]
    BY <1>2, <2>3 DEF Answered
  <2> HIDE DEF old, new, l
  <2>7. \A i \in 1..(l + 1) : i \in 1..l \/ i = l + 1
    BY <2>3
  <2>8. \A i \in DOMAIN new : new[i] \in 0..(n - 1)
    BY <2>2, <2>3, <2>6, <2>7
  <2>9. \A i, j \in DOMAIN new : i < j => new[i] <= new[j]
    <3> SUFFICES ASSUME NEW i \in 1..(l + 1), NEW j \in 1..(l + 1), i < j PROVE new[i] <= new[j]
      BY <2>3
    <3>1. i \in 1..l
      BY <2>3
    <3>2. CASE j \in 1..l
      BY <2>3, <2>6, <3>1, <3>2
    <3>3. CASE j = l + 1
      BY <2>2, <2>3, <2>6, <3>1, <3>3
    <3> QED BY <2>7, <3>2, <3>3
  <2>10. Answered(p, n)'
    BY <1>1, <1>2, <1>4, <2>4, <2>8, <2>9 DEF Answered
  <2>11. Told(p)'
    BY <2>10 DEF Told
  <2>12. \A q \in Sessions \ {p} : spoken'[q] = spoken[q]
    BY <1>0, <1>4
  <2> QED BY <1>1, <1>4, <2>5, <2>11, <2>12, OneRun
<1> QED BY <1>3, <1>4 DEF SpeechPiece

\* A chunk that has been spoken is followed by the next.
LEMMA SpeechEndsKeeps ==
    ASSUME PipeInv, NEW p \in Sessions, kind[p] # "realtime", kind' = kind, SpeechEnds(p)
    PROVE  PipeInv'
<1>1. /\ pipe[p] = "speaking" /\ pipe' = [pipe EXCEPT ![p] = "replying"]
      /\ UNCHANGED <<exit, said, events, spoken, stopped, expired>>
  BY DEF SpeechEnds
<1>2. PICK n \in Nat : Answered(p, n)
  BY <1>1 DEF PipeInv, Told, Silent
<1>3. PipeTypes' /\ pipe'[p] = "replying" /\ \A q \in Sessions \ {p} : pipe'[q] = pipe[q]
  BY <1>1 DEF PipeInv, PipeTypes, PipeTypeOK, Pipes
<1>4. Answered(p, n)'
  BY <1>1, <1>2, <1>3 DEF Answered
<1>5. Told(p)'
  BY <1>4 DEF Told
<1> QED BY <1>1, <1>3, <1>5, OneRun

\* Every step of a run keeps the record.
LEMMA PipeStepKeeps ==
    ASSUME PipeInv, NEW p \in Sessions, kind[p] # "realtime", kind' = kind,
           Run(p) \/ PipeStep(p) \/ Stop(p)
    PROVE  PipeInv'
<1>1. CASE Run(p) \/ \E segment \in Segments : Segment(p, segment)
  BY <1>1, HearingKeeps
<1>2. CASE Transcribed(p)
  BY <1>2, TranscribedKeeps
<1>3. CASE ReplyChunk(p)
  BY <1>3, ReplyChunkKeeps
<1>4. CASE SpeechPiece(p)
  BY <1>4, SpeechPieceKeeps
<1>5. CASE SpeechEnds(p)
  BY <1>5, SpeechEndsKeeps
<1>6. CASE TranscriptionFails(p) \/ ReplyEnds(p) \/ ReplyFails(p) \/ SpeechFails(p)
  <2>1. \E how \in Exits : Leave(p, how)
    BY <1>6 DEF TranscriptionFails, ReplyEnds, ReplyFails, SpeechFails, Exits
  <2>2. UNCHANGED <<said, events, spoken, stopped, expired, kind>>
    BY <1>6 DEF TranscriptionFails, ReplyEnds, ReplyFails, SpeechFails
  <2> QED BY <2>1, <2>2, LeaveKeeps
<1>7. CASE Expire(p) \/ Stop(p)
  <2>1. UNCHANGED <<pipe, exit, said, events, spoken, kind>>
    BY <1>7 DEF Expire, Stop
  <2>2. stopped' \subseteq Sessions /\ expired' \subseteq Sessions
    BY <1>7 DEF Expire, Stop, PipeInv, PipeTypes, PipeTypeOK
  <2> QED BY <2>1, <2>2, PipeFrame
<1> QED BY <1>1, <1>2, <1>3, <1>4, <1>5, <1>6, <1>7 DEF PipeStep

\* An event of a realtime run says what type it is of, and no more.
LEMMA RealtimeEventKeeps ==
    ASSUME PipeInv, NEW p \in Sessions, NEW raw \in RawEvents, RealtimeEvent(p, raw)
    PROVE  PipeInv'
<1>1. /\ kind[p] = "realtime" /\ ToEvent(raw) # "none"
      /\ events' = [events EXCEPT ![p] = Append(@, [type |-> ToEvent(raw)])]
      /\ UNCHANGED <<pipe, exit, said, spoken, stopped, expired, kind>>
  BY DEF RealtimeEvent, evalVars
<1>2. ToEvent(raw) \in RealtimeEventTypes
  BY <1>1 DEF ToEvent, RealtimeEventTypes
<1>3. [type |-> ToEvent(raw)] \in Event
  BY <1>2 DEF Event, RealtimeEvents
<1>4. events \in [Sessions -> Seq(Event)]
  BY DEF PipeInv, PipeTypes
<1>5. Append(events[p], [type |-> ToEvent(raw)]) \in Seq(Event)
  BY <1>3, <1>4
<1>6. PipeTypes'
  <2>1. events' \in [Sessions -> Seq(Event)]
    BY <1>1, <1>4, <1>5
  <2> QED BY <1>1, <2>1 DEF PipeInv, PipeTypes, PipeTypeOK
<1>7. Told(p)'
  BY <1>1 DEF Told, PipeInv
<1>8. \A q \in Sessions \ {p} : events'[q] = events[q]
  BY <1>1, <1>4
<1> QED BY <1>1, <1>6, <1>7, <1>8, OneRun

\* Whatever the processes do, each run's record is that of its own speech.
THEOREM PipeInvariance == Spec => []PipeInv
<1>1. PipeInv /\ [Next]_vars => PipeInv'
  <2> SUFFICES ASSUME PipeInv, [Next]_vars PROVE PipeInv'
    OBVIOUS
  <2>0. UNCHANGED <<pipe, exit, said, events, spoken, stopped, expired, kind>> => PipeInv'
    BY PipeFrame DEF PipeInv, PipeTypes, PipeTypeOK
  <2>1. CASE UNCHANGED vars
    BY <2>0, <2>1 DEF vars, pipeVars, evalVars
  <2>2. ASSUME NEW p \in Sessions, Step(p) PROVE PipeInv'
    <3>1. CASE ListRuns(p) \/ Allocate(p) \/ SplitEnds(p) \/ BeginRealtime(p) \/ RealtimeEnds(p)
               \/ RealtimeRaises(p) \/ WriteArtifact(p) \/ Return(p) \/ Breaks(p)
      <4>1. UNCHANGED <<pipeVars, kind>>
        BY <3>1 DEF ListRuns, Allocate, MakeRun, MakeInput, SplitEnds, BeginRealtime, RealtimeEnds,
                    RealtimeRaises, WriteArtifact, Return, Breaks
      <4> QED BY <2>0, <4>1 DEF pipeVars
    <3>2. CASE BeginSplit(p)
      <4>1. kind[p] # "realtime" /\ kind' = kind /\ (Run(p) \/ UNCHANGED pipeVars)
        BY <3>2 DEF BeginSplit
      <4>2. CASE Run(p)
        BY <4>1, <4>2, PipeStepKeeps
      <4>3. CASE UNCHANGED pipeVars
        BY <2>0, <4>1, <4>3 DEF pipeVars
      <4> QED BY <4>1, <4>2, <4>3
    <3>3. CASE SplitRuns(p) \/ Direct(p)
      <4>1. kind[p] # "realtime" /\ kind' = kind /\ (Run(p) \/ PipeStep(p) \/ Stop(p))
        BY <3>3 DEF SplitRuns, Direct, evalVars
      <4> QED BY <4>1, PipeStepKeeps
    <3>4. ASSUME NEW raw \in RawEvents, RealtimeEvent(p, raw) PROVE PipeInv'
      BY <3>4, RealtimeEventKeeps
    <3> QED BY <2>2, <3>1, <3>2, <3>3, <3>4 DEF Step
  <2> QED BY <2>1, <2>2 DEF Next
<1> QED BY <1>1, InitPipe, PTL DEF Spec

-----------------------------------------------------------------------------
(* What the records promise *)

\* What a run has recorded is its transcript.
LEMMA TranscriptFromInv == PipeInv => TranscriptsMatchSpeech
<1> SUFFICES ASSUME PipeInv, NEW s \in Sessions, kind[s] # "realtime"
             PROVE  TranscriptMatchesSpeech(s)
  BY DEF TranscriptsMatchSpeech
<1>1. said[s] \in Seq(Words) /\ spoken[s] \in Seq(Nat) /\ DOMAIN spoken[s] = 1..Len(spoken[s])
  BY DEF PipeInv, PipeTypes, PipeTypeOK
<1>2. CASE Silent(s)
  <2>1. events[s] = << >> /\ spoken[s] = << >>
    BY <1>2 DEF Silent
  <2>2. Len(<< >>) = 0 /\ 1..0 = {}
    OBVIOUS
  <2> QED BY <2>1, <2>2 DEF TranscriptMatchesSpeech
<1>3. CASE \E n \in Nat : Answered(s, n)
  <2>1. PICK n \in Nat : Answered(s, n)
    BY <1>3
  <2>2. events[s] = UserTurns(said[s]) \o ChunksTo(n)
    BY <2>1 DEF Answered
  <2>3. Chunks(s) = n
    BY <1>1, <2>2, ChunksAre
  <2>4. events[s] = UserTurns(said[s]) \o [i \in 1..Chunks(s) |-> AssistantChunk(i - 1)]
    BY <2>2, <2>3 DEF ChunksTo
  <2>5. \A i \in 1..Len(spoken[s]) : spoken[s][i] \in 0..(Chunks(s) - 1)
    BY <1>1, <2>1, <2>3 DEF Answered
  <2>6. \A i, j \in 1..Len(spoken[s]) : i < j => spoken[s][i] <= spoken[s][j]
    BY <1>1, <2>1 DEF Answered
  <2>7. ~\E topic \in ForbiddenTopics : \E i \in 0..Len(said[s]) :
             IsPrefix(topic, SubSeq(said[s], i + 1, Len(said[s])))
    BY <1>1, <2>1, ForbiddenSeen DEF Answered
  <2> QED BY <2>4, <2>5, <2>6, <2>7 DEF TranscriptMatchesSpeech
<1> QED BY <1>2, <1>3 DEF PipeInv, Told

\* Any run of the split pipeline, however it ends, has recorded the caller's
\* turns and the numbered chunks of its reply, has spoken of recorded chunks
\* only and in their order, and of a forbidden topic says and records nothing.
THEOREM TranscriptsAreTrue == Spec => []TranscriptsMatchSpeech
BY PipeInvariance, TranscriptFromInv, PTL

ResultType == result \in [Sessions -> {"none", "succeeded", "failed"}]

\* An evaluation returns one of the two results.
LEMMA ResultTypes == Spec => []ResultType
<1>1. Init => ResultType
  BY DEF Init, ResultType
<1>2. ResultType /\ [Next]_vars => ResultType'
  <2> SUFFICES ASSUME ResultType, [Next]_vars PROVE ResultType'
    OBVIOUS
  <2>0. UNCHANGED result => ResultType'
    BY DEF ResultType
  <2>1. CASE UNCHANGED vars
    BY <2>0, <2>1 DEF vars, evalVars
  <2>2. ASSUME NEW p \in Sessions, Step(p) PROVE ResultType'
    <3>1. CASE ListRuns(p) \/ Allocate(p) \/ BeginSplit(p) \/ SplitRuns(p) \/ BeginRealtime(p)
               \/ RealtimeRaises(p) \/ WriteArtifact(p) \/ Return(p) \/ Breaks(p) \/ Direct(p)
      <4>1. UNCHANGED result
        BY <3>1 DEF ListRuns, Allocate, MakeRun, MakeInput, BeginSplit, SplitRuns, BeginRealtime,
                    RealtimeRaises, WriteArtifact, Return, Breaks, Direct, evalVars
      <4> QED BY <2>0, <4>1
    <3>2. ASSUME NEW raw \in RawEvents, RealtimeEvent(p, raw) PROVE ResultType'
      BY <2>0, <3>2 DEF RealtimeEvent, evalVars
    <3>3. CASE SplitEnds(p) \/ RealtimeEnds(p)
      <4>1. \/ UNCHANGED result
            \/ \E r \in {"succeeded", "failed"} : result' = [result EXCEPT ![p] = r]
        BY <3>3 DEF SplitEnds, RealtimeEnds
      <4> QED BY <2>0, <4>1 DEF ResultType
    <3> QED BY <2>2, <3>1, <3>2, <3>3 DEF Step
  <2> QED BY <2>1, <2>2 DEF Next
<1> QED BY <1>1, <1>2, PTL DEF Spec

\* The types of the runs and of the evaluations; every file is in a run directory
\* that exists.
THEOREM EvaluationTypes == Spec => []TypeOK
<1>1. RunsInv /\ PipeInv /\ ResultType => TypeOK
  <2> SUFFICES ASSUME RunsInv, PipeInv, ResultType PROVE TypeOK
    OBVIOUS
  <2>1. files \subseteq [run: runDirs, name: FileNames, by: Sessions]
    <3> SUFFICES ASSUME NEW f \in files PROVE f \in [run: runDirs, name: FileNames, by: Sessions]
      OBVIOUS
    <3>1. f \in [run: Nat, name: FileNames, by: Sessions]
      BY DEF RunsInv, EvalTypes
    <3>2. f.run = runId[f.by] /\ f.by \in Sessions /\ \E i \in 1..written[f.by] : TRUE
      BY <3>1 DEF RunsInv, FilesFromWriters
    <3>3. written[f.by] > 0
      <4>1. written[f.by] \in 0..6
        BY <3>2 DEF RunsInv, EvalTypes
      <4> QED BY <3>2, <4>1
    <3>4. f.run \in runDirs
      BY <3>2, <3>3 DEF RunsInv, EvalTypes, Claimed, Claims
    <3> QED BY <3>1, <3>4
  <2>2. runDirs \subseteq Nat
    BY DEF RunsInv, Numbered
  <2>3. result \in [Sessions -> {"none", "succeeded", "failed"}]
    BY DEF ResultType
  <2> QED BY <2>1, <2>2, <2>3 DEF RunsInv, EvalTypes, PipeInv, PipeTypes, Event, TypeOK
<1> QED BY <1>1, RunsInvariance, PipeInvariance, ResultTypes, PTL

=============================================================================
