-------------------------- MODULE MCEvaluationRuns --------------------------
(* EvaluationRuns for TLC. *)
EXTENDS EvaluationRuns

CONSTANT First      \* one of the processes

SomeSegments ==
    {[text |-> "pay", final |-> TRUE], [text |-> "now", final |-> TRUE],
     [text |-> "now", final |-> FALSE]}

\* A topic of two words.
Topics == {<<"pay", "now">>}

\* What the notebook asks for, and a voice of the other provider; the service
\* that is asked may have the other provider's factory.
SomeSettings ==
    LET fake == NotebookSettings("fake")
        openai == NotebookSettings("openai")
    IN  {fake, openai, [openai EXCEPT !.tts_voice_id = "fake-voice"]}

SomeRawEvents ==
    [type: {"response.output_audio.delta", "error", "session.updated"}, valid: BOOLEAN]

\* One process at most drives the pipeline, whose steps others cannot see.
MCInit == Init /\ \A p \in Sessions \ {First} : kind[p] = "realtime"

\* Only the one that may be a split evaluation need be fair.
MCSpec == MCInit /\ [][Next]_vars /\ WF_vars(Progress(First))

=============================================================================
