--------------------------- MODULE RealtimeRuntime ---------------------------
(***************************************************************************)
(* conversation/realtime_runtime.py and the provider session of            *)
(* providers/realtime/openai_provider.py: one speech-to-speech run.        *)
(*                                                                         *)
(* RealtimeRuntime.run is an async generator.  The task that iterates it   *)
(* (the driver) is the one that is cancelled when the call is closed; the  *)
(* generator's own task, the sender, forwards the caller's audio.  When    *)
(* the driver drops the generator at a yield, the event loop's finaliser   *)
(* task runs the finally block instead, and nobody cancels that task.      *)
(*                                                                         *)
(* Events other than "error" leave all of this as it is and are not steps. *)
(***************************************************************************)
EXTENDS Naturals

CONSTANT Failures   \* the operations of the provider that may raise

AllFailures == {"connect", "configure", "stream", "audio", "sender", "close"}

ASSUME FailuresAssumption == Failures \subseteq AllFailures

VARIABLES
    gen,            \* where the generator is
    outcome,        \* why it entered the finally block
    exit,           \* how it ended, as its driver sees it
    sender,         \* the task of _send_audio
    connection,     \* the provider's connection
    cancelPending,  \* a cancellation the driver has yet to see
    cancelled,      \* history: the driver was cancelled inside the generator
    inputClosed     \* PcmAudioInput was closed: its chunks will end

runVars == <<gen, outcome, exit, sender, connection, cancelPending, cancelled>>
vars == <<runVars, inputClosed>>

Gens     == {"new", "connecting", "configuring", "listening", "abandoned",
             "joining", "draining", "closing", "ended"}
Outcomes == {"none", "completed", "raised", "cancelled", "abandoned"}
Senders  == {"none", "running", "cancelling", "returned", "raised", "cancelled"}

SenderLive == sender \in {"running", "cancelling"}

Init ==
    /\ gen = "new"
    /\ outcome = "none"
    /\ exit = "none"
    /\ sender = "none"
    /\ connection = "none"
    /\ cancelPending = FALSE
    /\ cancelled = FALSE
    /\ inputClosed = FALSE

-----------------------------------------------------------------------------
(* Cleanup: the finally block, from one await to the next *)

End(how) ==
    /\ gen' = "ended"
    /\ exit' = how
    /\ UNCHANGED connection

BeginClose ==
    /\ gen' = "closing"
    /\ connection' = "closing"
    /\ UNCHANGED exit

\* Mutant of SenderDone: no "except CancelledError" around the await.
SenderDoneUncaught(how) ==
    \/ sender = "raised" /\ End("raised")
    \/ sender = "cancelled" /\ End("cancelled")
    \/ sender = "returned" /\ BeginClose

\* Mutant of SenderDone: the "except CancelledError" covers both awaits.
SenderDoneSwallowed(how) ==
    \/ sender = "raised" /\ End("raised")
    \/ sender \in {"cancelled", "returned"} /\ BeginClose

\* "await send_task" in _finish_audio_sender once the task is done: its
\* exception replaces whatever the generator was ending with, and only a
\* CancelledError of a run that did not complete is caught.
SenderDone(how) ==
    \/ sender = "raised" /\ End("raised")
    \/ sender = "cancelled" /\ how = "completed" /\ End("cancelled")
    \/ sender = "cancelled" /\ how # "completed" /\ BeginClose
    \/ sender = "returned" /\ BeginClose

\* Mutant of Cleanup: the sender is not cancelled when the run is interrupted.
CleanupWithoutCancel(how) ==
    /\ outcome' = how
    /\ \/ ~SenderLive /\ SenderDone(how)
       \/ SenderLive /\ gen' = (IF how = "completed" THEN "joining" ELSE "draining")
                     /\ UNCHANGED <<exit, connection>>
    /\ UNCHANGED sender

\* Mutant of Cleanup: the sender is cancelled and not awaited.
CleanupWithoutJoin(how) ==
    /\ outcome' = how
    /\ sender' = IF sender = "running" THEN "cancelling" ELSE sender
    /\ BeginClose

\* Entering the finally block: a finished sender is not waited for.
Cleanup(how) ==
    /\ outcome' = how
    /\ \/ ~SenderLive /\ SenderDone(how) /\ UNCHANGED sender
       \/ /\ SenderLive
          /\ \/ how = "completed" /\ gen' = "joining" /\ UNCHANGED sender
             \/ how # "completed" /\ gen' = "draining" /\ sender' = "cancelling"
          /\ UNCHANGED <<exit, connection>>

-----------------------------------------------------------------------------
(* The driver's steps in the generator *)

Start ==
    /\ gen = "new"
    /\ gen' = "connecting"
    /\ UNCHANGED <<outcome, exit, sender, connection, cancelPending, cancelled>>

ConnectionOpens ==
    /\ gen = "connecting" /\ ~cancelPending
    /\ gen' = "configuring"
    /\ connection' = "open"
    /\ UNCHANGED <<outcome, exit, sender, cancelPending, cancelled>>

ConnectFails ==
    /\ "connect" \in Failures
    /\ gen = "connecting" /\ ~cancelPending
    /\ End("raised")
    /\ UNCHANGED <<outcome, sender, cancelPending, cancelled>>

\* session.update was sent: connect returns and the sender task is created.
Configured ==
    /\ gen = "configuring" /\ ~cancelPending
    /\ gen' = "listening"
    /\ sender' = "running"
    /\ UNCHANGED <<outcome, exit, connection, cancelPending, cancelled>>

\* connect raises with its connection open: nobody has a session to close.
ConfigureFails ==
    /\ "configure" \in Failures
    /\ gen = "configuring" /\ ~cancelPending
    /\ End("raised")
    /\ UNCHANGED <<outcome, sender, cancelPending, cancelled>>

\* An event is yielded on which the driver leaves its loop: an "error", or audio
\* that is not whole samples and makes the driver raise.
ErrorEvent ==
    /\ gen = "listening" /\ ~cancelPending
    /\ gen' = "abandoned"
    /\ UNCHANGED <<outcome, exit, sender, connection, cancelPending, cancelled>>

\* Mutant of Finalize: events_completed is set before the loop has ended.
FinalizeAsCompleted ==
    /\ gen = "abandoned"
    /\ Cleanup("completed")
    /\ UNCHANGED <<cancelPending, cancelled>>

\* The finaliser throws GeneratorExit into the dropped generator.
Finalize ==
    /\ gen = "abandoned"
    /\ Cleanup("abandoned")
    /\ UNCHANGED <<cancelPending, cancelled>>

StreamEnds ==
    /\ gen = "listening" /\ ~cancelPending
    /\ Cleanup("completed")
    /\ UNCHANGED <<cancelPending, cancelled>>

StreamRaises ==
    /\ "stream" \in Failures
    /\ gen = "listening" /\ ~cancelPending
    /\ Cleanup("raised")
    /\ UNCHANGED <<cancelPending, cancelled>>

Joined ==
    /\ gen \in {"joining", "draining"} /\ ~SenderLive /\ ~cancelPending
    /\ SenderDone(outcome)
    /\ UNCHANGED <<outcome, sender, cancelPending, cancelled>>

CloseReturns ==
    /\ gen = "closing" /\ ~cancelPending
    /\ gen' = "ended"
    /\ exit' = outcome
    /\ connection' = "closed"
    /\ UNCHANGED <<outcome, sender, cancelPending, cancelled>>

CloseRaises ==
    /\ "close" \in Failures
    /\ gen = "closing" /\ ~cancelPending
    /\ End("raised")
    /\ UNCHANGED <<outcome, sender, cancelPending, cancelled>>

\* The pending CancelledError is raised at the driver's await.  In "draining"
\* it is the one _finish_audio_sender catches.
CancelArrives ==
    /\ cancelPending
    /\ cancelPending' = FALSE
    /\ \/ /\ gen \in {"connecting", "configuring", "joining", "closing"}
          /\ End("cancelled")
          /\ UNCHANGED <<outcome, sender>>
       \/ gen = "listening" /\ Cleanup("cancelled")
       \/ gen = "draining" /\ BeginClose /\ UNCHANGED <<outcome, sender>>
    /\ UNCHANGED cancelled

-----------------------------------------------------------------------------
(* The sender's steps *)

\* The chunks end once the input is closed and drained.
SenderReturns ==
    /\ sender = "running" /\ inputClosed
    /\ sender' = "returned"
    /\ UNCHANGED <<gen, outcome, exit, connection, cancelPending, cancelled>>

SenderRaises ==
    /\ "sender" \in Failures
    /\ sender = "running"
    /\ sender' = "raised"
    /\ UNCHANGED <<gen, outcome, exit, connection, cancelPending, cancelled>>

SenderCancelled ==
    /\ sender = "cancelling"
    /\ sender' = "cancelled"
    /\ UNCHANGED <<gen, outcome, exit, connection, cancelPending, cancelled>>

-----------------------------------------------------------------------------
(* What the rest of the call does to the run *)

\* The driver is suspended inside the generator.
Driving ==
    /\ gen \in {"connecting", "configuring", "listening", "joining", "draining", "closing"}
    /\ outcome # "abandoned"

\* driver.cancel(): asyncio hands it on to the task the driver awaits, and
\* otherwise raises it when the driver runs next.
Cancel ==
    /\ Driving
    /\ cancelled' = TRUE
    /\ \/ /\ gen \in {"joining", "draining"} /\ SenderLive
          /\ sender' = "cancelling"
          /\ UNCHANGED cancelPending
       \/ /\ gen \notin {"joining", "draining"} \/ ~SenderLive
          /\ cancelPending' = TRUE
          /\ UNCHANGED sender
    /\ UNCHANGED <<gen, outcome, exit, connection>>

CloseInput == inputClosed' = TRUE

-----------------------------------------------------------------------------

DriverStep ==
    \/ ConnectionOpens \/ ConnectFails \/ Configured \/ ConfigureFails
    \/ StreamEnds \/ StreamRaises \/ ErrorEvent
    \/ Joined \/ CloseReturns \/ CloseRaises \/ CancelArrives

SenderStep == SenderReturns \/ SenderRaises \/ SenderCancelled

\* WebRtcSession.close closes the input and cancels the driver, once or, handed
\* on by a task that awaits the driver, again.
Environment ==
    /\ CloseInput
    /\ Cancel \/ (~Driving /\ UNCHANGED runVars)

\* The driver leaves the generator for good and closes the call at once.
DriverLeaves ==
    /\ DriverStep
    /\ gen' \in {"abandoned", "ended"} /\ exit' # "cancelled" /\ outcome # "abandoned"
    /\ CloseInput

Next ==
    \/ (Start \/ DriverStep \/ Finalize \/ SenderStep) /\ UNCHANGED inputClosed
    \/ DriverLeaves
    \/ Environment

\* The event loop resumes whoever is ready, a cancelled task's await raises,
\* and the connection's close has a timeout.  Nothing makes the provider
\* answer, end its event stream, or take audio.
Fairness ==
    /\ WF_runVars(CancelArrives)
    /\ WF_runVars(Joined)
    /\ WF_runVars(CloseReturns \/ CloseRaises)
    /\ WF_runVars(SenderCancelled)
    /\ WF_runVars(Finalize)

Spec == Init /\ [][Next]_vars /\ Fairness

-----------------------------------------------------------------------------
(* Properties *)

TypeOK ==
    /\ gen \in Gens
    /\ outcome \in Outcomes
    /\ exit \in Outcomes
    /\ sender \in Senders
    /\ connection \in {"none", "open", "closing", "closed"}
    /\ cancelPending \in BOOLEAN
    /\ cancelled \in BOOLEAN
    /\ inputClosed \in BOOLEAN

\* The sender only ever runs on an open connection and never outlives the
\* generator, however the run ends and whenever it is cancelled.
SenderInsideConnection ==
    SenderLive => connection = "open" /\ gen \in {"listening", "abandoned", "joining", "draining"}

\* The generator ends without having begun to close its connection in three
\* ways only: connect did not get as far as returning a session, the sender
\* had raised, or a completed run was cancelled while it waited for the sender.
LeakIsExplained ==
    gen = "ended" /\ connection = "open" =>
        \/ sender = "none"
        \/ sender = "raised"
        \/ outcome = "completed" /\ exit = "cancelled"

\* A run that was cancelled is never taken for a completed one: its driver
\* does not report the scenario as completed.
CancelledNeverCompletes == gen = "ended" /\ cancelled => exit # "completed"

\* A cancelled run ends, though its cleanup awaits another task and the
\* network, and may be cancelled again; and so does a dropped one.
CancelledEnds == cancelled ~> gen = "ended"
AbandonedEnds == gen = "abandoned" ~> gen = "ended"

\* provider.py:19 "Close the provider connection once." and the run's finally
\* block: a connected run that ends has closed its connection.
ConnectionReleased ==
    gen = "ended" /\ sender # "none" => connection # "open"

=============================================================================
