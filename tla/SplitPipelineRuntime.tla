------------------------ MODULE SplitPipelineRuntime ------------------------
(***************************************************************************)
(* conversation/split_pipeline_runtime.py with the OpenAI adapters it      *)
(* pulls from: each session is one run of the generator, which transcribes *)
(* all of the caller's audio (STT), has a reply streamed (LLM) and each    *)
(* chunk of the reply spoken (TTS).                                        *)
(*                                                                         *)
(* A text is a word, up to case.  A piece of speech is named by the        *)
(* sequence number of the chunk it says.                                   *)
(***************************************************************************)
EXTENDS Naturals, Sequences, SequencesExt, FiniteSets

CONSTANTS
    Sessions,
    Segments,           \* what the STT may yield: [text, final]
    ForbiddenTopics,    \* policy.forbidden_topics, each a sequence of words
    MaxSegments,        \* bound: final segments of a transcript
    MaxChunks,          \* bound: chunks of a reply before the time limit
    MaxPieces           \* bound: pieces of speech of a chunk before the time limit

Words == {g.text : g \in Segments}

ASSUME RuntimeAssumption ==
    /\ \A g \in Segments : DOMAIN g = {"text", "final"} /\ g.final \in BOOLEAN
    /\ ForbiddenTopics \subseteq Seq(Words)
    /\ MaxSegments \in Nat /\ MaxChunks \in Nat /\ MaxPieces \in Nat

VARIABLES
    pipe,       \* what the session's run is waiting for
    exit,       \* how it ended
    said,       \* the texts of the final segments of its transcript so far
    events,     \* what its event sink was given
    spoken,     \* the speech it has yielded
    stopped,    \* _stopped_sessions
    expired     \* the sessions whose time limit has been reached

pipeVars == <<pipe, exit, said, events, spoken, stopped, expired>>

Pipes    == {"idle", "hearing", "replying", "speaking", "ended"}
Exits    == {"none", "stopped", "forbidden", "cut", "completed", "raised"}

UserTurn(word)      == [type |-> "user_turn", text |-> word]
AssistantChunk(seq) == [type |-> "assistant_chunk", sequence |-> seq]

ConversationEvents ==
    [type: {"user_turn"}, text: Words] \cup [type: {"assistant_chunk"}, sequence: Nat]

PipeInit ==
    /\ pipe = [s \in Sessions |-> "idle"]
    /\ exit = [s \in Sessions |-> "none"]
    /\ said = [s \in Sessions |-> << >>]
    /\ events = [s \in Sessions |-> << >>]
    /\ spoken = [s \in Sessions |-> << >>]
    /\ stopped = {}
    /\ expired = {}

-----------------------------------------------------------------------------
(* Helpers *)

\* Mutant of ContainsForbiddenTopic: each segment is looked at by itself.
ContainsForbiddenSegment(texts) ==
    \E topic \in ForbiddenTopics, i \in 1..Len(texts) : topic = <<texts[i]>>

\* The final segments are joined, so a topic may extend over several.
ContainsForbiddenTopic(texts) == \E topic \in ForbiddenTopics : topic \in SubSeqs(texts)

UserTurns(texts) == [i \in 1..Len(texts) |-> UserTurn(texts[i])]

Chunks(s) == Cardinality({i \in DOMAIN events[s] : events[s][i].type = "assistant_chunk"})

PiecesOf(s, seq) == Cardinality({i \in DOMAIN spoken[s] : spoken[s][i] = seq})

\* Mutant of MustStop: the time limit is not looked at.
MustStopWithoutLimit(s) == s \in stopped

\* _has_stopped or _time_limit_reached
MustStop(s) == s \in stopped \/ s \in expired

Leave(s, how) ==
    /\ pipe' = [pipe EXCEPT ![s] = "ended"]
    /\ exit' = [exit EXCEPT ![s] = how]

-----------------------------------------------------------------------------
(* The run *)

Run(s) ==
    /\ pipe[s] = "idle"
    /\ \/ s \in stopped /\ Leave(s, "stopped")
       \/ s \notin stopped /\ pipe' = [pipe EXCEPT ![s] = "hearing"] /\ UNCHANGED exit
    /\ UNCHANGED <<said, events, spoken, stopped, expired>>

\* A ".delta" event gives a segment that is not final, a ".done" event or a
\* plain response one that is.  All are kept, but only final ones are looked at.
Segment(s, segment) ==
    /\ pipe[s] = "hearing"
    /\ \/ /\ segment.final
          /\ Len(said[s]) < MaxSegments
          /\ said' = [said EXCEPT ![s] = Append(@, segment.text)]
       \/ ~segment.final /\ UNCHANGED said
    /\ UNCHANGED <<pipe, exit, events, spoken, stopped, expired>>

\* The transcript ends.  stream_reply reads all user turns, which records
\* them, and requests the reply.
Transcribed(s) ==
    /\ pipe[s] = "hearing"
    /\ \/ /\ ContainsForbiddenTopic(said[s])
          /\ Leave(s, "forbidden")
          /\ UNCHANGED events
       \/ /\ ~ContainsForbiddenTopic(said[s])
          /\ pipe' = [pipe EXCEPT ![s] = "replying"]
          /\ events' = [events EXCEPT ![s] = UserTurns(said[s])]
          /\ UNCHANGED exit
    /\ UNCHANGED <<said, spoken, stopped, expired>>

\* Mutant of ReplyChunk: a chunk is not recorded before it is spoken.
ReplyChunkUnrecorded(s) ==
    /\ pipe[s] = "replying"
    /\ \/ MustStop(s) /\ Leave(s, "cut")
       \/ ~MustStop(s) /\ pipe' = [pipe EXCEPT ![s] = "speaking"] /\ UNCHANGED exit
    /\ UNCHANGED <<said, events, spoken, stopped, expired>>

ReplyChunk(s) ==
    /\ pipe[s] = "replying"
    /\ \/ MustStop(s) /\ Leave(s, "cut") /\ UNCHANGED events
       \/ /\ ~MustStop(s)
          /\ Chunks(s) < MaxChunks
          /\ pipe' = [pipe EXCEPT ![s] = "speaking"]
          /\ events' = [events EXCEPT ![s] = Append(@, AssistantChunk(Chunks(s)))]
          /\ UNCHANGED exit
    /\ UNCHANGED <<said, spoken, stopped, expired>>

ReplyEnds(s) ==
    /\ pipe[s] = "replying"
    /\ Leave(s, "completed")
    /\ UNCHANGED <<said, events, spoken, stopped, expired>>

SpeechPiece(s) ==
    /\ pipe[s] = "speaking"
    /\ \/ MustStop(s) /\ Leave(s, "cut") /\ UNCHANGED spoken
       \/ /\ ~MustStop(s)
          /\ PiecesOf(s, Chunks(s) - 1) < MaxPieces
          /\ spoken' = [spoken EXCEPT ![s] = Append(@, Chunks(s) - 1)]
          /\ UNCHANGED <<pipe, exit>>
    /\ UNCHANGED <<said, events, stopped, expired>>

SpeechEnds(s) ==
    /\ pipe[s] = "speaking"
    /\ pipe' = [pipe EXCEPT ![s] = "replying"]
    /\ UNCHANGED <<exit, said, events, spoken, stopped, expired>>

\* A request fails or its answer is malformed: the adapter raises a
\* ProviderError, which leaves the run.
TranscriptionFails(s) ==
    /\ pipe[s] = "hearing"
    /\ Leave(s, "raised")
    /\ UNCHANGED <<said, events, spoken, stopped, expired>>

ReplyFails(s) ==
    /\ pipe[s] = "replying"
    /\ Leave(s, "raised")
    /\ UNCHANGED <<said, events, spoken, stopped, expired>>

SpeechFails(s) ==
    /\ pipe[s] = "speaking"
    /\ Leave(s, "raised")
    /\ UNCHANGED <<said, events, spoken, stopped, expired>>

-----------------------------------------------------------------------------
(* What happens to a run *)

\* Before the reply nobody looks at the clock.
Expire(s) ==
    /\ pipe[s] \in {"replying", "speaking"}
    /\ s \notin expired
    /\ expired' = expired \cup {s}
    /\ UNCHANGED <<pipe, exit, said, events, spoken, stopped>>

Stop(s) ==
    /\ s \notin stopped
    /\ stopped' = stopped \cup {s}
    /\ UNCHANGED <<pipe, exit, said, events, spoken, expired>>

PipeStep(s) ==
    \/ \E segment \in Segments : Segment(s, segment)
    \/ Transcribed(s) \/ TranscriptionFails(s)
    \/ ReplyChunk(s) \/ ReplyEnds(s) \/ ReplyFails(s)
    \/ SpeechPiece(s) \/ SpeechEnds(s) \/ SpeechFails(s)
    \/ Expire(s)

-----------------------------------------------------------------------------
(* Properties *)

PipeTypeOK ==
    /\ pipe \in [Sessions -> Pipes]
    /\ exit \in [Sessions -> Exits]
    /\ said \in [Sessions -> Seq(Words)]
    /\ spoken \in [Sessions -> Seq(Nat)]
    /\ stopped \subseteq Sessions
    /\ expired \subseteq Sessions

\* What a run records is what was said, in order: the caller's final segments,
\* then the chunks of the reply numbered from 0, and speech only of recorded
\* chunks, never of one after a later one has begun.  A forbidden topic,
\* also one that extends over segments, is answered with nothing at all.
TranscriptMatchesSpeech(s) ==
    LET turns == UserTurns(said[s])
    IN  /\ events[s] # << >> =>
             events[s] = turns \o [i \in 1..Chunks(s) |-> AssistantChunk(i - 1)]
        /\ \A i \in 1..Len(spoken[s]) : spoken[s][i] \in 0..(Chunks(s) - 1)
        /\ \A i, j \in 1..Len(spoken[s]) : i < j => spoken[s][i] <= spoken[s][j]
        /\ (\E topic \in ForbiddenTopics : \E i \in 0..Len(said[s]) :
                IsPrefix(topic, SubSeq(said[s], i + 1, Len(said[s]))))
           => events[s] = << >> /\ spoken[s] = << >>

=============================================================================
