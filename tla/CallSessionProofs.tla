-------------------------- MODULE CallSessionProofs --------------------------
(***************************************************************************)
(* Theorems about one call, for any number of failed posts and any set of  *)
(* failures of the provider.                                               *)
(*                                                                         *)
(* The call is composed of a lifecycle and a run, whose own invariants it  *)
(* takes over: every step of it is one of theirs or leaves them alone      *)
(* (LifecycleSteps, RunSteps), so what is proved of a lifecycle holds of   *)
(* the one in a call.  What is added is about the three tasks:             *)
(* that a report comes before everything else (ReportInv), where the run   *)
(* and its input are (RunPlaceInv), who has ended when a task gets to some *)
(* part of close (OrderInv), how the runtime and the time limit can come   *)
(* to await each other (AwaitInv), and who closes the peer connection      *)
(* (PeerInv).                                                              *)
(***************************************************************************)
EXTENDS CallSession, TLAPS

LP == INSTANCE CallQueueProofs WITH CallReasons <- TerminationReasons
RP == INSTANCE RealtimeRuntimeProofs

\* The variables the close of a call is about, and their values.
ControlOK ==
    /\ pc \in [Tasks -> WsPoints \cup RuntimePoints \cup LimitPoints]
    /\ pc["ws"] \in WsPoints /\ pc["runtime"] \in RuntimePoints
    /\ pc["limit"] \in LimitPoints
    /\ result \in [Tasks -> {"none", "returned", "raised", "cancelled"}]
    /\ flagged \subseteq {"runtime", "limit"}
    /\ callback \in {"none", "complete", "error", "except"}
    /\ mediaClosed \in BOOLEAN
    /\ peer \in {"open", "closing", "closed"}
    /\ track \in {"none", "live", "cancelling", "ended"}

\* A report came before whatever follows finish, and a failed post is a fault.
ReportInv ==
    /\ ReportedBeforeTeardown
    /\ \A t \in Tasks :
        /\ phase[t] = "returned" => finished
        /\ pc[t] \in {"joinLimit", "joinRuntime", "joinTracks", "closePeer"} => finished
        /\ post[t] = "error" => faults > 0

\* The run is at an await of its driver exactly while the task "runtime" is in
\* it, and its input is closed with the media, by a task that then goes on.
RunPlaceInv ==
    /\ pc["runtime"] = "run" <=> RT!Driving
    /\ inputClosed = mediaClosed
    /\ \A t \in Tasks : pc[t] \in {"joinRuntime", "joinTracks", "closePeer"} => mediaClosed

\* Who may still be alive once a task is in a part of close.
OrderInv ==
    /\ pc["limit"] # "none" \/ pc["ws"] \in {"negotiate", "answer"} => pc["runtime"] # "none"
    /\ pc["ws"] \in {"joinRuntime", "joinTracks", "closePeer"} => ~Alive("limit")
    /\ pc["ws"] \in {"joinTracks", "closePeer"} => ~Alive("runtime")
    /\ pc["limit"] \in {"joinTracks", "closePeer"} => ~Alive("runtime")
    /\ \A t \in Tasks : result[t] # "none" <=> pc[t] = "done"
    /\ result["ws"] = "returned" => mediaClosed /\ ~Alive("limit")
    /\ mediaClosed => \/ pc["runtime"] \in {"joinTracks", "closePeer", "done"}
                      \/ "joinRuntime" \in {pc["ws"], pc["limit"]}
                      \/ pc["runtime"] = "none" /\ pc["ws"] \notin {"serve", "negotiate", "answer"}

\* How two tasks may await each other.
AwaitInv ==
    /\ pc["runtime"] = "joinLimit" =>
           "limit" \in flagged \/ pc["limit"] \in {"joinRuntime", "done"}
    /\ pc["limit"] = "joinRuntime" =>
           \/ pc["runtime"] = "done"
           \/ pc["runtime"] \in {"start", "finish"} /\ "runtime" \in flagged
           \/ pc["runtime"] = "run" /\ cancelled
           \/ pc["runtime"] \in {"finish", "joinLimit"} /\ cancelled /\ exit = "raised"

\* Who still has to close the peer connection, or why nobody does.
PeerInv ==
    /\ \A t \in Tasks : pc[t] = "closePeer" => peer = "closing"
    /\ peer = "closing" => (\E t \in Tasks : pc[t] = "closePeer") \/ result["limit"] = "cancelled"
    /\ pc["runtime"] \in {"run", "joinTracks", "closePeer"} => "runtime" \notin flagged
    /\ mediaClosed => \/ peer # "open"
                      \/ \E t \in Tasks : pc[t] \in {"joinRuntime", "joinTracks"}
                      \/ result["runtime"] = "raised"
    /\ result["limit"] = "raised" => faults > 0 \/ result["runtime"] = "raised"
    /\ pc["ws"] = "done" => \/ result["ws"] = "returned"
                            \/ faults > 0 \/ result["runtime"] = "raised" \/ MutualAwait

CtlInv == ControlOK /\ ReportInv /\ RunPlaceInv /\ OrderInv /\ AwaitInv /\ PeerInv

CallInv == LP!IInv /\ RP!RunInv /\ CtlInv

-----------------------------------------------------------------------------
(* The instances: what is proved of a lifecycle and of a run holds here *)

\* The constants are what those modules assume.
LEMMA Constants ==
    /\ LP!NoTaskAssumption /\ LP!FaultsAssumption /\ LP!ReasonsAssumption
    /\ RP!FailuresAssumption
<1>1. TerminationReasons \subseteq LP!Reasons
  BY DEF TerminationReasons, LP!Reasons
<1>2. Failures \subseteq RP!AllFailures
  BY CallAssumption DEF RT!AllFailures, RP!AllFailures
<1> QED
  BY <1>1, <1>2, CallAssumption DEF LP!NoTaskAssumption, LP!FaultsAssumption,
     LP!ReasonsAssumption, RP!FailuresAssumption

\* Two instances with the same substitution are the same lifecycle.
LEMMA SameLifecycle ==
    /\ L!Init <=> LP!Init
    /\ [L!Next]_L!vars <=> [LP!Next]_LP!vars
<1>1. L!vars = LP!vars /\ L!vars' = LP!vars'
  BY DEF L!vars, LP!vars
<1>2. L!MarkInCall <=> LP!MarkInCall
  BY DEF L!MarkInCall, LP!MarkInCall
<1>3. ASSUME NEW t, NEW r PROVE L!Enter(t, r) <=> LP!Enter(t, r)
  BY DEF L!Enter, LP!Enter, L!AlreadyFinished, LP!AlreadyFinished, L!StartPost, LP!StartPost,
         L!EndPost, LP!EndPost, L!CallResult, LP!CallResult, L!Outcome, LP!Outcome,
         L!NoReport, LP!NoReport
<1>4. ASSUME NEW t, NEW r PROVE L!Finish(t, r) <=> LP!Finish(t, r)
  BY <1>3 DEF L!Finish, LP!Finish, L!InFinish, LP!InFinish, L!Enqueue, LP!Enqueue
<1>5. ASSUME NEW t PROVE L!Resume(t) <=> LP!Resume(t)
  BY <1>3 DEF L!Resume, LP!Resume, L!NoReason, LP!NoReason
<1>6. ASSUME NEW t PROVE L!AfterPost(t) <=> LP!AfterPost(t)
  BY <1>3 DEF L!AfterPost, LP!AfterPost, L!Complete, LP!Complete, L!Fail, LP!Fail,
              L!Refinish, LP!Refinish, L!EndPost, LP!EndPost, L!NoReport, LP!NoReport,
              L!Enqueue, LP!Enqueue
<1>7. ASSUME NEW t PROVE L!CancelWait(t) <=> LP!CancelWait(t)
  BY DEF L!CancelWait, LP!CancelWait, L!NoReason, LP!NoReason, L!RemoveAt, LP!RemoveAt
<1>8. ASSUME NEW t PROVE L!PostEnds(t) <=> LP!PostEnds(t)
  BY DEF L!PostEnds, LP!PostEnds, L!Deliver, LP!Deliver,
         L!DeliverUnanswered, LP!DeliverUnanswered, L!Lose, LP!Lose
<1>9. L!Next <=> LP!Next
  BY <1>2, <1>4, <1>5, <1>6, <1>7, <1>8 DEF L!Next, LP!Next
<1>10. L!Init <=> LP!Init
  BY DEF L!Init, LP!Init, L!NoReason, LP!NoReason, L!NoReport, LP!NoReport
<1> QED BY <1>1, <1>9, <1>10

\* And the same run.
LEMMA SameRun ==
    /\ RT!Init <=> RP!Init
    /\ [RT!Next]_RT!vars <=> [RP!Next]_RP!vars
<1>1. RT!vars = RP!vars /\ RT!vars' = RP!vars'
  BY DEF RT!vars, RP!vars, RT!runVars, RP!runVars
<1>2. ASSUME NEW how PROVE RT!Cleanup(how) <=> RP!Cleanup(how)
  BY DEF RT!Cleanup, RP!Cleanup, RT!SenderLive, RP!SenderLive, RT!SenderDone, RP!SenderDone,
         RT!End, RP!End, RT!BeginClose, RP!BeginClose
<1>3. RT!SenderStep <=> RP!SenderStep
  BY DEF RT!SenderStep, RP!SenderStep, RT!SenderReturns, RP!SenderReturns,
         RT!SenderRaises, RP!SenderRaises, RT!SenderCancelled, RP!SenderCancelled
<1>4. (RT!Start <=> RP!Start) /\ (RT!Finalize <=> RP!Finalize)
  BY <1>2 DEF RT!Start, RP!Start, RT!Finalize, RP!Finalize
<1>5. RT!ConnectionOpens \/ RT!ConnectFails \/ RT!Configured \/ RT!ConfigureFails \/ RT!ErrorEvent
      <=> RP!ConnectionOpens \/ RP!ConnectFails \/ RP!Configured \/ RP!ConfigureFails \/ RP!ErrorEvent
  BY DEF RT!ConnectionOpens, RP!ConnectionOpens, RT!ConnectFails, RP!ConnectFails,
         RT!Configured, RP!Configured, RT!ConfigureFails, RP!ConfigureFails,
         RT!ErrorEvent, RP!ErrorEvent, RT!End, RP!End
<1>6. RT!StreamEnds \/ RT!StreamRaises \/ RT!CancelArrives
      <=> RP!StreamEnds \/ RP!StreamRaises \/ RP!CancelArrives
  BY <1>2 DEF RT!StreamEnds, RP!StreamEnds, RT!StreamRaises, RP!StreamRaises,
              RT!CancelArrives, RP!CancelArrives, RT!End, RP!End, RT!BeginClose, RP!BeginClose
<1>7. RT!Joined \/ RT!CloseReturns \/ RT!CloseRaises
      <=> RP!Joined \/ RP!CloseReturns \/ RP!CloseRaises
  BY DEF RT!Joined, RP!Joined, RT!CloseReturns, RP!CloseReturns, RT!CloseRaises, RP!CloseRaises,
         RT!SenderLive, RP!SenderLive, RT!SenderDone, RP!SenderDone, RT!End, RP!End,
         RT!BeginClose, RP!BeginClose
<1>8. RT!DriverStep <=> RP!DriverStep
  BY <1>5, <1>6, <1>7 DEF RT!DriverStep, RP!DriverStep
<1>9. RT!DriverLeaves <=> RP!DriverLeaves
  BY <1>8 DEF RT!DriverLeaves, RP!DriverLeaves, RT!CloseInput, RP!CloseInput
<1>10. RT!Environment <=> RP!Environment
  BY DEF RT!Environment, RP!Environment, RT!Cancel, RP!Cancel, RT!Driving, RP!Driving,
         RT!SenderLive, RP!SenderLive, RT!CloseInput, RP!CloseInput, RT!runVars, RP!runVars
<1>11. RT!Next <=> RP!Next
  BY <1>3, <1>4, <1>8, <1>9, <1>10 DEF RT!Next, RP!Next
<1>12. RT!Init <=> RP!Init
  BY DEF RT!Init, RP!Init
<1> QED BY <1>1, <1>11, <1>12

-----------------------------------------------------------------------------
(* The call uses its lifecycle *)

\* Every step of the call is a step of the lifecycle or leaves it alone.
LEMMA LifecycleSteps == [Next]_vars => [L!Next]_L!vars
<1> SUFFICES ASSUME [Next]_vars, lifeVars' # lifeVars PROVE L!Next
  BY DEF lifeVars, L!vars
<1>1. ASSUME NEW t \in Tasks, NEW r \in TerminationReasons, Report(t, r) PROVE L!Next
  BY <1>1 DEF Report, L!Next
<1>2. ASSUME NEW t \in Tasks, Teardown(t) PROVE L!Next
  <2> "PROVIDER_ERROR" \in TerminationReasons
    BY DEF TerminationReasons
  <2>1. CASE FinishResumes(t) \/ FinishRaises(t) \/ FinishCancelled(t)
    BY <2>1 DEF FinishResumes, FinishRaises, FinishCancelled, L!Next, L!AfterPost
  <2>2. CASE LimitJoined(t) \/ RuntimeJoined(t) \/ TracksJoined(t) \/ PeerClosed(t)
    BY <2>2 DEF LimitJoined, RuntimeJoined, TracksJoined, PeerClosed
  <2> QED BY <1>2, <2>1, <2>2 DEF Teardown
<1>3. CASE Runtime(RT!DriverStep)
  <2> {"PROVIDER_ERROR", "SCENARIO_COMPLETED"} \subseteq TerminationReasons /\ "runtime" \in Tasks
    BY DEF TerminationReasons, Tasks
  <2> QED BY <1>1, <1>3 DEF Runtime
<1>4. CASE LimitExpires \/ \E r \in TerminationReasons : Leave(r)
  <2> "TIME_LIMIT" \in TerminationReasons /\ {"ws", "limit"} \subseteq Tasks
    BY DEF TerminationReasons, Tasks
  <2> QED BY <1>1, <1>4 DEF LimitExpires, Leave
<1>5. CASE Negotiated \/ \E t \in Tasks : PostEnds(t)
  BY <1>5 DEF Negotiated, PostEnds, L!Next
<1> QED
  BY <1>2, <1>3, <1>4, <1>5 DEF Next, Offer, AnswerSent, TrackArrives, TrackEnds, LimitCancelled,
     RuntimeStarts, RuntimeDropped, Finalizer, SenderStep, vars

-----------------------------------------------------------------------------
(* The call uses its run *)

\* What the driver's steps do as the call sees it.
LEMMA DriverFacts ==
    ASSUME RP!RunInv, RT!DriverStep
    PROVE  /\ gen \in {"connecting", "configuring", "listening", "joining", "draining", "closing"}
           /\ gen' \in {"configuring", "listening", "abandoned", "joining", "draining", "closing",
                        "ended"}
           /\ UNCHANGED cancelled
           /\ outcome # "abandoned" => outcome' # "abandoned"
           /\ gen' = "abandoned" => outcome' = "none" /\ exit' = "none"
           /\ outcome = "abandoned" => outcome' = "abandoned"
<1>1. /\ gen \in {"new", "connecting", "configuring", "listening", "abandoned"} => outcome = "none"
      /\ gen # "ended" => exit = "none"
  BY DEF RP!RunInv, RP!StageInv
<1>2. CASE RT!ConnectionOpens \/ RT!ConnectFails \/ RT!Configured \/ RT!ConfigureFails \/ RT!ErrorEvent
  BY <1>1, <1>2 DEF RT!ConnectionOpens, RT!ConnectFails, RT!Configured, RT!ConfigureFails,
                    RT!ErrorEvent, RT!End
<1>3. CASE RT!StreamEnds \/ RT!StreamRaises \/ RT!CancelArrives
  BY <1>1, <1>3 DEF RT!StreamEnds, RT!StreamRaises, RT!CancelArrives, RT!Cleanup, RT!SenderLive,
                    RT!SenderDone, RT!End, RT!BeginClose
<1>4. CASE RT!Joined \/ RT!CloseReturns \/ RT!CloseRaises
  BY <1>1, <1>4 DEF RT!Joined, RT!CloseReturns, RT!CloseRaises, RT!SenderLive, RT!SenderDone,
                    RT!End, RT!BeginClose
<1> QED BY <1>2, <1>3, <1>4 DEF RT!DriverStep

\* A cancellation reaches the run at an await of its driver, or leaves it alone.
LEMMA CancelOfRun ==
    ASSUME RunPlaceInv, CancelRuntime, inputClosed' = TRUE
    PROVE  [RT!Next]_RT!vars
<1>1. CASE RT!Cancel
  BY <1>1 DEF RT!Next, RT!Environment, RT!CloseInput
<1>2. CASE UNCHANGED runVars /\ ~RT!Driving
  BY <1>2 DEF RT!Next, RT!Environment, RT!CloseInput, runVars, RT!runVars
<1> QED BY <1>1, <1>2 DEF CancelRuntime, RunPlaceInv

\* So does the closing of the media, by a task that is not itself driving the run.
LEMMA MediaCloseOfRun ==
    ASSUME RunPlaceInv, NEW t \in Tasks, MediaClose(t),
           t = "runtime" => UNCHANGED runVars /\ pc["runtime"] # "run"
    PROVE  [RT!Next]_RT!vars
<1>1. CASE mediaClosed
  BY <1>1 DEF MediaClose, RunUntouchedBy, mediaVars, RT!vars, runVars, RT!runVars
<1>2. CASE ~mediaClosed
  <2>1. inputClosed' = TRUE
    BY <1>2 DEF MediaClose
  <2>2. CASE CancelRuntime
    BY <2>1, <2>2, CancelOfRun
  <2>3. CASE UNCHANGED runVars /\ pc["runtime"] # "run"
    BY <2>1, <2>3 DEF RT!Next, RT!Environment, RT!CloseInput, runVars, RT!runVars, RunPlaceInv
  <2> QED BY <1>2, <2>2, <2>3 DEF MediaClose, Alive
<1> QED BY <1>1, <1>2

\* And the closing of the session, which may cancel a time limit that awaits it.
LEMMA ManagedCloseOfRun ==
    ASSUME RunPlaceInv, NEW t \in Tasks, ManagedClose(t),
           t = "runtime" => UNCHANGED runVars /\ pc["runtime"] # "run"
    PROVE  [RT!Next]_RT!vars
<1>1. CASE MediaClose(t)
  BY <1>1, MediaCloseOfRun
<1>2. CASE JoinLimit(t) /\ UNCHANGED mediaVars
  <2>1. CASE UNCHANGED runVars
    BY <1>2, <2>1 DEF mediaVars, RT!vars, runVars, RT!runVars
  <2>2. CASE LimitAwaitsRuntime /\ CancelRuntime
    <3>1. inputClosed' = TRUE
      BY <1>2, <2>2 DEF LimitAwaitsRuntime, RunPlaceInv, mediaVars, Tasks
    <3> QED BY <2>2, <3>1, CancelOfRun
  <2> QED BY <1>2, <2>1, <2>2 DEF JoinLimit, CancelLimit
<1> QED BY <1>1, <1>2 DEF ManagedClose

LEMMA ProceedOfRun ==
    ASSUME RunPlaceInv, NEW t \in Tasks, Proceed(t),
           t = "runtime" => UNCHANGED runVars /\ pc["runtime"] # "run"
    PROVE  [RT!Next]_RT!vars
<1>1. CASE ManagedClose(t)
  BY <1>1, ManagedCloseOfRun
<1>2. CASE UNCHANGED <<mediaVars, runVars>>
  BY <1>2 DEF mediaVars, RT!vars, runVars, RT!runVars
<1> QED BY <1>1, <1>2 DEF Proceed, RunUntouchedBy

\* When the driver leaves the run it reports, and may close the media at once.
LEMMA LeavingOfRun ==
    ASSUME RunPlaceInv, RP!RunInv, pc["runtime"] = "run", RT!DriverStep,
           \/ gen' = "abandoned"
           \/ gen' = "ended" /\ exit' # "cancelled",
           Proceed("runtime")
    PROVE  RT!Next
<1>1. UNCHANGED inputClosed \/ inputClosed' = TRUE
  BY DEF Proceed, ManagedClose, MediaClose, mediaVars
<1>2. outcome # "abandoned" /\ (gen' = "abandoned" => exit' = "none")
  BY DriverFacts DEF RunPlaceInv, RT!Driving
<1> QED BY <1>1, <1>2 DEF RT!Next, RT!DriverLeaves, RT!CloseInput

\* Every step of the call is a step of the run or leaves it alone.
LEMMA RunSteps ==
    ASSUME ControlOK, RunPlaceInv, RP!RunInv, [Next]_vars
    PROVE  [RT!Next]_RT!vars
<1>1. CASE UNCHANGED <<runVars, inputClosed>>
  BY <1>1 DEF RT!vars, runVars, RT!runVars
<1>2. ASSUME NEW t \in Tasks, Teardown(t) PROVE [RT!Next]_RT!vars
  <2>1. CASE FinishResumes(t)
    BY <2>1, ProceedOfRun DEF FinishResumes
  <2>2. CASE FinishRaises(t) \/ FinishCancelled(t)
    <3>1. CASE Proceed(t) /\ pc[t] = "finish" /\ UNCHANGED runVars
      BY <3>1, ProceedOfRun
    <3> QED BY <1>1, <2>2, <3>1 DEF FinishRaises, FinishCancelled, mediaVars
  <2>3. CASE LimitJoined(t)
    <3>1. CASE MediaClose(t)
      BY <2>3, <3>1, MediaCloseOfRun DEF LimitJoined
    <3>2. CASE t \in flagged /\ UNCHANGED mediaVars
      <4>1. t # "ws"
        BY <3>2 DEF ControlOK
      <4> QED BY <1>1, <2>3, <3>2, <4>1 DEF LimitJoined, mediaVars, ControlOK, Tasks, LimitPoints,
                 Closing
    <3> QED BY <1>1, <2>3, <3>1, <3>2 DEF LimitJoined, mediaVars
  <2>4. CASE RuntimeJoined(t) \/ TracksJoined(t) \/ PeerClosed(t)
    BY <1>1, <2>4 DEF RuntimeJoined, TracksJoined, PeerClosed
  <2> QED BY <1>2, <2>1, <2>2, <2>3, <2>4 DEF Teardown
<1>3. CASE Runtime(RT!DriverStep)
  <2>1. CASE UNCHANGED mediaVars
    BY <1>3, <2>1 DEF Runtime, RT!Next, mediaVars
  <2>2. CASE Proceed("runtime") /\ (gen' = "abandoned" \/ (gen' = "ended" /\ exit' # "cancelled"))
    BY <1>3, <2>2, LeavingOfRun DEF Runtime
  <2> QED BY <1>3, <2>1, <2>2 DEF Runtime, Report
<1>4. CASE LimitExpires \/ \E r \in TerminationReasons : Leave(r)
  <2>1. PICK t \in Tasks : t # "runtime" /\ Proceed(t)
    BY <1>4 DEF LimitExpires, Leave, Report, Tasks
  <2> QED BY <2>1, ProceedOfRun
<1>5. CASE RuntimeStarts \/ Finalizer \/ SenderStep
  BY <1>5 DEF RuntimeStarts, Finalizer, SenderStep, RT!Next, mediaVars
<1>6. CASE \/ Offer \/ Negotiated \/ AnswerSent \/ TrackArrives \/ TrackEnds \/ LimitCancelled
           \/ RuntimeDropped \/ (\E t \in Tasks : PostEnds(t)) \/ UNCHANGED vars
  BY <1>1, <1>6 DEF Offer, Negotiated, AnswerSent, TrackArrives, TrackEnds, LimitCancelled,
     RuntimeDropped, PostEnds, mediaVars, vars
<1> QED BY <1>2, <1>3, <1>4, <1>5, <1>6 DEF Next

-----------------------------------------------------------------------------
(* What a step can do to the control of the call *)

\* What a step of the lifecycle means to the tasks.
LEMMA LifeFacts ==
    ASSUME LP!IInv, ReportInv, [L!Next]_L!vars
    PROVE  /\ finished => finished'
           /\ faults > 0 => faults' > 0
           /\ \A t \in Tasks : phase'[t] = "returned" => finished'
           /\ \A t \in Tasks : post'[t] = "error" => faults' > 0
<1>1. /\ phase \in [Tasks -> LP!Phases] /\ post \in [Tasks -> LP!Posts] /\ faults \in Nat
      /\ finished \in BOOLEAN
  BY DEF LP!IInv, LP!TypeOK
<1>2. \A t \in Tasks : /\ phase[t] = "returned" => finished
                       /\ post[t] = "error" => faults > 0
  BY DEF ReportInv
<1>3. CASE L!MarkInCall \/ UNCHANGED L!vars
  BY <1>1, <1>2, <1>3 DEF L!MarkInCall, L!vars
<1>4. ASSUME NEW t \in Tasks, NEW r, L!Enter(t, r) \/ L!Enqueue(t, r),
             post' = post \/ L!EndPost(t) \/ L!StartPost(t, r),
             UNCHANGED <<finished, faults>>
      PROVE  /\ \A u \in Tasks : phase'[u] = "returned" => finished'
             /\ \A u \in Tasks : post'[u] = "error" => faults' > 0
  BY <1>1, <1>2, <1>4 DEF L!Enter, L!Enqueue, L!AlreadyFinished, L!StartPost, L!EndPost
<1>5. ASSUME NEW t \in Tasks, NEW r, L!Finish(t, r) \/ L!Refinish(t, r)
      PROVE  /\ \A u \in Tasks : phase'[u] = "returned" => finished'
             /\ \A u \in Tasks : post'[u] = "error" => faults' > 0
             /\ UNCHANGED <<finished, faults>>
  BY <1>4, <1>5 DEF L!Finish, L!Refinish, L!Enter, L!AlreadyFinished
<1>6. ASSUME NEW t \in Tasks, L!Resume(t)
      PROVE  /\ \A u \in Tasks : phase'[u] = "returned" => finished'
             /\ \A u \in Tasks : post'[u] = "error" => faults' > 0
             /\ UNCHANGED <<finished, faults>>
  BY <1>4, <1>6 DEF L!Resume, L!Enter, L!AlreadyFinished
<1>7. ASSUME NEW t \in Tasks, L!Complete(t) \/ L!Fail(t) \/ L!CancelWait(t)
      PROVE  /\ \A u \in Tasks : phase'[u] = "returned" => finished'
             /\ \A u \in Tasks : post'[u] = "error" => faults' > 0
             /\ (finished => finished') /\ faults' = faults
  BY <1>1, <1>2, <1>7 DEF L!Complete, L!Fail, L!CancelWait, L!EndPost
<1>8. ASSUME NEW t \in Tasks, L!PostEnds(t)
      PROVE  /\ \A u \in Tasks : phase'[u] = "returned" => finished'
             /\ \A u \in Tasks : post'[u] = "error" => faults' > 0
             /\ finished' = finished /\ (faults > 0 => faults' > 0)
  BY <1>1, <1>2, <1>8 DEF L!PostEnds, L!Deliver, L!DeliverUnanswered, L!Lose
<1>9. CASE L!Next
  <2>1. CASE \E t \in Tasks : \E r \in TerminationReasons : L!Finish(t, r) \/ L!Refinish(t, r)
    BY <1>5, <2>1
  <2>2. CASE \E t \in Tasks : L!Resume(t)
    BY <1>6, <2>2
  <2>3. CASE \E t \in Tasks : L!Complete(t) \/ L!Fail(t) \/ L!CancelWait(t)
    BY <1>7, <2>3
  <2>4. CASE \E t \in Tasks : L!PostEnds(t)
    BY <1>1, <1>8, <2>4
  <2> QED BY <1>3, <1>9, <2>1, <2>2, <2>3, <2>4 DEF L!Next, L!AfterPost
<1> QED BY <1>3, <1>9

\* What LifeFacts and the run's own invariant say of every step.
Kept ==
    /\ finished => finished'
    /\ faults > 0 => faults' > 0
    /\ \A t \in Tasks : phase'[t] = "returned" => finished'
    /\ \A t \in Tasks : post'[t] = "error" => faults' > 0
    /\ RP!RunInv'

\* The runtime goes on after its report, or has just left its run.
Leaves ==
    \/ pc["runtime"] = "finish" /\ "runtime" \notin flagged /\ UNCHANGED runVars
    \/ /\ pc["runtime"] = "run" /\ RT!DriverStep
       /\ gen' = "abandoned" \/ (gen' = "ended" /\ exit' \in {"completed", "raised"})

\* A task that calls finish, or comes out of it, and goes on as far as it can.
LEMMA ProceedKeeps ==
    ASSUME CtlInv, RP!RunInv, Kept, NEW t \in Tasks, Proceed(t),
           pc[t] \in {"serve", "negotiate", "answer", "sleep", "run", "finish"},
           t = "limit" => t \notin flagged,
           t = "runtime" => Leaves,
           callback' \in {"none", "complete", "error", "except"}
    PROVE  CtlInv'
<1> USE DEF Tasks, Proceed, ManagedClose, JoinLimit, MediaClose, Closed, Finished, StopTracks,
            ClosePeer, AfterRuntime, Suspend, Alive, mediaVars, WsPoints, LimitPoints,
            RuntimePoints, Closing, ControlOK, CtlInv
<1>0. /\ t = "runtime" => /\ UNCHANGED cancelled
                          /\ gen' \in {"abandoned", "ended"} \/ UNCHANGED runVars
  BY DriverFacts DEF Leaves, runVars
<1>1. ControlOK'
  <2>1. flagged' \subseteq {"runtime", "limit"}
    BY DEF CancelLimit, CancelRuntime
  <2>2. pc' \in [Tasks -> WsPoints \cup RuntimePoints \cup LimitPoints]
        /\ result' \in [Tasks -> {"none", "returned", "raised", "cancelled"}]
    OBVIOUS
  <2>3. pc'["ws"] \in WsPoints /\ pc'["runtime"] \in RuntimePoints /\ pc'["limit"] \in LimitPoints
    OBVIOUS
  <2>4. mediaClosed' \in BOOLEAN /\ peer' \in {"open", "closing", "closed"}
        /\ track' \in {"none", "live", "cancelling", "ended"}
    OBVIOUS
  <2> QED BY <2>1, <2>2, <2>3, <2>4
<1>2. ReportInv'
  <2>1. CASE phase'[t] = "returned"
    BY <2>1 DEF Kept, ReportInv, ReportedBeforeTeardown
  <2>2. CASE phase'[t] # "returned"
    BY <1>0, <2>2 DEF Kept, ReportInv, ReportedBeforeTeardown, RunUntouchedBy, runVars
  <2> QED BY <2>1, <2>2
<1>3. RunPlaceInv'
  <2>1. CASE t = "runtime"
    BY <1>0, <2>1 DEF RunPlaceInv, RT!Driving, runVars, Leaves
  <2>2. CASE t # "runtime"
    <3>1. UNCHANGED <<gen, outcome>>
      BY <2>2 DEF RunUntouchedBy, CancelLimit, CancelRuntime, RT!Cancel, runVars
    <3> QED BY <2>2, <3>1 DEF RunPlaceInv, RT!Driving
  <2> QED BY <2>1, <2>2
<1>4. OrderInv'
  BY DEF OrderInv, RunPlaceInv
<1>5. AwaitInv'
  <2>1. CASE t = "runtime"
    <3>1. /\ gen' = "abandoned" => ~cancelled'
          /\ cancelled' /\ gen' = "ended" => exit' # "completed"
      BY DEF Kept, RP!RunInv, RP!CancelInv
    <3> QED BY <1>0, <2>1, <3>1 DEF AwaitInv, OrderInv, Leaves, LimitAwaitsRuntime, runVars
  <2>2. CASE t = "limit"
    <3>1. /\ pc["runtime"] # "run" => UNCHANGED runVars
          /\ UNCHANGED exit /\ (cancelled => cancelled')
      BY <2>2 DEF RunUntouchedBy, CancelRuntime, RT!Cancel, runVars
    <3> QED BY <2>2, <3>1 DEF AwaitInv, RunPlaceInv, CancelRuntime, RT!Cancel, runVars
  <2>3. CASE t = "ws"
    <3>1. UNCHANGED exit /\ (cancelled => cancelled')
      BY <2>3 DEF RunUntouchedBy, CancelLimit, CancelRuntime, RT!Cancel, runVars
    <3>2. flagged \subseteq flagged'
      BY <2>3 DEF CancelLimit, CancelRuntime
    <3> QED BY <2>3, <3>1, <3>2 DEF AwaitInv
  <2> QED BY <2>1, <2>2, <2>3
<1>6. PeerInv'
  <2> USE DEF PeerInv
  <2>1. \A u \in Tasks \ {t} : pc'[u] = pc[u] /\ result'[u] = result[u]
    OBVIOUS
  <2> result[t] = "none"
    BY DEF OrderInv
  <2>2. \A u \in Tasks : pc'[u] = "closePeer" => peer' = "closing"
    BY DEF RunPlaceInv
  <2>3. peer' = "closing" =>
            (\E u \in Tasks : pc'[u] = "closePeer") \/ result'["limit"] = "cancelled"
    BY <2>1
  <2>4. pc'["runtime"] \in {"run", "joinTracks", "closePeer"} => "runtime" \notin flagged'
    <3>1. CASE t = "runtime"
      BY <3>1 DEF Leaves, RunPlaceInv, LimitAwaitsRuntime
    <3>2. CASE t # "runtime"
      BY <3>2 DEF RunPlaceInv, CancelLimit, CancelRuntime, LimitAwaitsRuntime, AwaitInv
    <3> QED BY <3>1, <3>2
  <2>5. mediaClosed' => \/ peer' # "open"
                        \/ \E u \in Tasks : pc'[u] \in {"joinRuntime", "joinTracks"}
                        \/ result'["runtime"] = "raised"
    <3>1. CASE t = "ws"
      BY <2>1, <3>1
    <3>2. CASE t = "runtime"
      BY <2>1, <3>2
    <3>3. CASE t = "limit"
      BY <2>1, <3>3
    <3> QED BY <3>1, <3>2, <3>3
  <2>6. result'["limit"] = "raised" => faults' > 0 \/ result'["runtime"] = "raised"
    BY <2>1 DEF Kept
  <2>7. pc'["ws"] = "done" => \/ result'["ws"] = "returned"
                              \/ faults' > 0 \/ result'["runtime"] = "raised" \/ MutualAwait'
    BY <2>1 DEF Kept, MutualAwait
  <2> QED BY <2>2, <2>3, <2>4, <2>5, <2>6, <2>7
<1> QED BY <1>1, <1>2, <1>3, <1>4, <1>5, <1>6

\* A task ends in finish, at a failed post or a cancellation.
LEMMA EndKeeps ==
    ASSUME CtlInv, Kept, NEW t \in Tasks,
           \/ t \notin flagged /\ Finished(t, "raised") /\ faults' > 0
              /\ UNCHANGED <<mediaVars, flagged, callback>>
           \/ t \in flagged /\ Finished(t, "cancelled") /\ flagged' = flagged \ {t}
              /\ UNCHANGED <<mediaVars, callback>>,
           pc[t] = "finish",
           UNCHANGED runVars
    PROVE  CtlInv'
<1> USE DEF Tasks, Finished, Alive, mediaVars, runVars, WsPoints, LimitPoints, RuntimePoints,
            Closing, ControlOK, CtlInv
<1>0. \A u \in Tasks \ {t} : pc'[u] = pc[u] /\ result'[u] = result[u]
  OBVIOUS
<1>1. ControlOK'
  <2>1. pc' \in [Tasks -> WsPoints \cup RuntimePoints \cup LimitPoints]
        /\ result' \in [Tasks -> {"none", "returned", "raised", "cancelled"}]
    OBVIOUS
  <2>2. pc'["ws"] \in WsPoints /\ pc'["runtime"] \in RuntimePoints /\ pc'["limit"] \in LimitPoints
    OBVIOUS
  <2>3. /\ flagged' \subseteq {"runtime", "limit"}
        /\ callback' \in {"none", "complete", "error", "except"}
        /\ mediaClosed' \in BOOLEAN /\ peer' \in {"open", "closing", "closed"}
        /\ track' \in {"none", "live", "cancelling", "ended"}
    OBVIOUS
  <2> QED BY <2>1, <2>2, <2>3
<1>2. ReportInv'
  BY DEF Kept, ReportInv, ReportedBeforeTeardown
<1>3. RunPlaceInv'
  BY DEF RunPlaceInv, RT!Driving
<1>4. OrderInv'
  BY DEF OrderInv
<1>5. AwaitInv'
  BY DEF AwaitInv
<1>6. PeerInv'
  BY <1>0 DEF PeerInv, Kept, MutualAwait, OrderInv
<1> QED BY <1>1, <1>2, <1>3, <1>4, <1>5, <1>6

\* The input is closed with the media.
LEMMA InputFollows ==
    ASSUME inputClosed = mediaClosed,
           UNCHANGED mediaVars \/ (inputClosed' = TRUE /\ mediaClosed' = TRUE)
    PROVE  inputClosed' = mediaClosed'
BY DEF mediaVars

\* The time limit that was awaited has ended.
LEMMA LimitJoinedKeeps ==
    ASSUME CtlInv, Kept, NEW t \in Tasks, LimitJoined(t)
    PROVE  CtlInv'
<1> USE DEF Tasks, LimitJoined, MediaClose, Closed, Finished, StopTracks, ClosePeer, AfterRuntime,
            Suspend, Alive, mediaVars, WsPoints, LimitPoints, RuntimePoints, Closing, ControlOK,
            CtlInv
<1>0. /\ t # "limit" /\ pc["limit"] = "done"
      /\ \A u \in Tasks \ {t} : pc'[u] = pc[u] /\ result'[u] = result[u]
  OBVIOUS
<1>1. /\ UNCHANGED <<gen, outcome, exit>> /\ (cancelled => cancelled')
      /\ t = "runtime" => UNCHANGED cancelled
  BY <1>0 DEF RunUntouchedBy, CancelRuntime, RT!Cancel, runVars
<1>2. ControlOK'
  <2>1. pc' \in [Tasks -> WsPoints \cup RuntimePoints \cup LimitPoints]
        /\ result' \in [Tasks -> {"none", "returned", "raised", "cancelled"}]
    OBVIOUS
  <2>2. pc'["ws"] \in WsPoints /\ pc'["runtime"] \in RuntimePoints /\ pc'["limit"] \in LimitPoints
    OBVIOUS
  <2>3. /\ flagged' \subseteq {"runtime", "limit"}
        /\ callback' \in {"none", "complete", "error", "except"}
        /\ mediaClosed' \in BOOLEAN /\ peer' \in {"open", "closing", "closed"}
        /\ track' \in {"none", "live", "cancelling", "ended"}
    BY DEF CancelRuntime
  <2> QED BY <2>1, <2>2, <2>3
<1>3. ReportInv'
  BY DEF Kept, ReportInv, ReportedBeforeTeardown
<1>4. RunPlaceInv'
  <2>1. pc'["runtime"] = "run" <=> RT!Driving'
    BY <1>1 DEF RunPlaceInv, RT!Driving
  <2>2. UNCHANGED mediaVars \/ (inputClosed' = TRUE /\ mediaClosed' = TRUE)
    OBVIOUS
  <2>3. inputClosed' = mediaClosed'
    BY <2>2, InputFollows DEF RunPlaceInv
  <2>4. \A u \in Tasks : pc'[u] \in {"joinRuntime", "joinTracks", "closePeer"} => mediaClosed'
    BY <1>0 DEF RunPlaceInv
  <2> QED BY <2>1, <2>3, <2>4 DEF RunPlaceInv
<1>5. OrderInv'
  BY <1>0 DEF OrderInv, RunPlaceInv
<1>6. AwaitInv'
  BY <1>0 DEF AwaitInv
<1>7. PeerInv'
  BY <1>0 DEF PeerInv, Kept, MutualAwait, OrderInv, RunPlaceInv, CancelRuntime
<1> QED BY <1>2, <1>3, <1>4, <1>5, <1>6, <1>7

\* The rest of close: the runtime, the consumer of the track and the peer
\* connection.
LEMMA MediaKeeps ==
    ASSUME CtlInv, Kept, NEW t \in Tasks, RuntimeJoined(t) \/ TracksJoined(t) \/ PeerClosed(t)
    PROVE  CtlInv'
<1> USE DEF Tasks, RuntimeJoined, TracksJoined, PeerClosed, Closed, Finished, StopTracks, ClosePeer,
            AfterRuntime, Suspend, Alive, runVars, WsPoints, LimitPoints, RuntimePoints,
            Closing, ControlOK, CtlInv
<1>0. /\ \A u \in Tasks \ {t} : pc'[u] = pc[u] /\ result'[u] = result[u]
      /\ UNCHANGED <<runVars, mediaClosed, inputClosed, callback>> /\ flagged' = flagged \ {t}
      /\ pc[t] \in {"joinRuntime", "joinTracks", "closePeer"} /\ mediaClosed
  BY DEF RunPlaceInv
<1>1. ControlOK'
  <2>1. pc' \in [Tasks -> WsPoints \cup RuntimePoints \cup LimitPoints]
        /\ result' \in [Tasks -> {"none", "returned", "raised", "cancelled"}]
    OBVIOUS
  <2>2. pc'["ws"] \in WsPoints /\ pc'["runtime"] \in RuntimePoints /\ pc'["limit"] \in LimitPoints
    OBVIOUS
  <2>3. /\ flagged' \subseteq {"runtime", "limit"}
        /\ callback' \in {"none", "complete", "error", "except"}
        /\ mediaClosed' \in BOOLEAN /\ peer' \in {"open", "closing", "closed"}
        /\ track' \in {"none", "live", "cancelling", "ended"}
    OBVIOUS
  <2> QED BY <2>1, <2>2, <2>3
<1>2. ReportInv'
  BY <1>0 DEF Kept, ReportInv, ReportedBeforeTeardown
<1>3. RunPlaceInv'
  BY <1>0 DEF RunPlaceInv, RT!Driving
<1>4. OrderInv'
  BY <1>0 DEF OrderInv
<1>5. AwaitInv'
  BY <1>0 DEF AwaitInv, OrderInv
<1>6. PeerInv'
  BY <1>0 DEF PeerInv, Kept, MutualAwait, OrderInv
<1> QED BY <1>1, <1>2, <1>3, <1>4, <1>5, <1>6

\* The handler serves the caller, and the consumer of the caller's track comes
\* and goes.
LEMMA ServeKeeps ==
    ASSUME CtlInv, Kept,
           Offer \/ Negotiated \/ AnswerSent \/ TrackArrives \/ TrackEnds
    PROVE  CtlInv'
<1> USE DEF Tasks, Offer, Negotiated, AnswerSent, TrackArrives, TrackEnds, Suspend, Alive,
            mediaVars, runVars, WsPoints, LimitPoints, RuntimePoints, Closing, ControlOK, CtlInv
<1>0. /\ UNCHANGED <<runVars, mediaClosed, inputClosed, peer, result, flagged, callback>>
      /\ \A t \in Tasks : pc'[t] # pc[t] => pc'[t] \in {"serve", "negotiate", "answer", "start", "sleep"}
  OBVIOUS
<1>1. ControlOK'
  <2>1. pc' \in [Tasks -> WsPoints \cup RuntimePoints \cup LimitPoints]
        /\ result' \in [Tasks -> {"none", "returned", "raised", "cancelled"}]
    OBVIOUS
  <2>2. pc'["ws"] \in WsPoints /\ pc'["runtime"] \in RuntimePoints /\ pc'["limit"] \in LimitPoints
    OBVIOUS
  <2>3. /\ flagged' \subseteq {"runtime", "limit"}
        /\ callback' \in {"none", "complete", "error", "except"}
        /\ mediaClosed' \in BOOLEAN /\ peer' \in {"open", "closing", "closed"}
        /\ track' \in {"none", "live", "cancelling", "ended"}
    OBVIOUS
  <2> QED BY <2>1, <2>2, <2>3
<1>2. ReportInv'
  BY <1>0 DEF Kept, ReportInv, ReportedBeforeTeardown
<1>3. RunPlaceInv'
  BY <1>0 DEF RunPlaceInv, RT!Driving
<1>4. OrderInv'
  BY <1>0 DEF OrderInv
<1>5. AwaitInv'
  BY <1>0 DEF AwaitInv, OrderInv
<1>6. PeerInv'
  BY <1>0 DEF PeerInv, Kept, MutualAwait
<1> QED BY <1>1, <1>2, <1>3, <1>4, <1>5, <1>6

\* A task is cancelled before it has begun what it is for.
LEMMA DropKeeps ==
    ASSUME CtlInv, Kept, LimitCancelled \/ RuntimeDropped
    PROVE  CtlInv'
<1> USE DEF Tasks, LimitCancelled, RuntimeDropped, Finished, Alive, mediaVars, runVars, WsPoints,
            LimitPoints, RuntimePoints, Closing, ControlOK, CtlInv
<1>0. UNCHANGED <<runVars, mediaVars, callback>>
  OBVIOUS
<1>1. ControlOK'
  <2>1. pc' \in [Tasks -> WsPoints \cup RuntimePoints \cup LimitPoints]
        /\ result' \in [Tasks -> {"none", "returned", "raised", "cancelled"}]
    OBVIOUS
  <2>2. pc'["ws"] \in WsPoints /\ pc'["runtime"] \in RuntimePoints /\ pc'["limit"] \in LimitPoints
    OBVIOUS
  <2>3. /\ flagged' \subseteq {"runtime", "limit"}
        /\ callback' \in {"none", "complete", "error", "except"}
        /\ mediaClosed' \in BOOLEAN /\ peer' \in {"open", "closing", "closed"}
        /\ track' \in {"none", "live", "cancelling", "ended"}
    OBVIOUS
  <2> QED BY <2>1, <2>2, <2>3
<1>2. ReportInv'
  BY <1>0 DEF Kept, ReportInv, ReportedBeforeTeardown
<1>3. RunPlaceInv'
  BY <1>0 DEF RunPlaceInv, RT!Driving
<1>4. OrderInv'
  BY <1>0 DEF OrderInv
<1>5. AwaitInv'
  BY <1>0 DEF AwaitInv, OrderInv
<1>6. PeerInv'
  BY <1>0 DEF PeerInv, Kept, MutualAwait, OrderInv
<1> QED BY <1>1, <1>2, <1>3, <1>4, <1>5, <1>6

\* The run starts, goes on, is cancelled for good or is finalised, and nobody
\* else is concerned.
LEMMA RunKeeps ==
    ASSUME CtlInv, RP!RunInv, Kept,
           UNCHANGED <<mediaVars, flagged, callback>>,
           \/ RuntimeStarts
           \/ /\ pc["runtime"] = "run" /\ RT!DriverStep
              /\ \/ gen' \notin {"abandoned", "ended"} /\ UNCHANGED <<pc, result>>
                 \/ gen' = "ended" /\ exit' = "cancelled" /\ Finished("runtime", "cancelled")
           \/ Finalizer \/ SenderStep
           \/ UNCHANGED <<pc, result, runVars>>
    PROVE  CtlInv'
<1> USE DEF Tasks, RuntimeStarts, Finalizer, SenderStep, Suspend, Finished, Alive, mediaVars,
            runVars, WsPoints, LimitPoints, RuntimePoints, Closing, ControlOK, CtlInv
<1>0. /\ UNCHANGED cancelled
      /\ exit = "raised" => exit' = "raised" \/ ~cancelled
  <2>1. exit = "raised" => gen = "ended"
    BY DEF RP!RunInv, RP!StageInv
  <2>2. gen = "abandoned" => ~cancelled
    BY DEF RP!RunInv, RP!CancelInv
  <2>3. CASE RT!DriverStep
    BY <2>1, <2>3, DriverFacts
  <2>4. CASE RT!Start \/ RT!SenderStep \/ RT!Finalize \/ UNCHANGED runVars
    BY <2>1, <2>2, <2>4 DEF RT!Start, RT!SenderStep, RT!SenderReturns, RT!SenderRaises,
       RT!SenderCancelled, RT!Finalize
  <2> QED BY <2>3, <2>4
<1>1. ControlOK'
  <2>1. pc' \in [Tasks -> WsPoints \cup RuntimePoints \cup LimitPoints]
        /\ result' \in [Tasks -> {"none", "returned", "raised", "cancelled"}]
    OBVIOUS
  <2>2. pc'["ws"] \in WsPoints /\ pc'["runtime"] \in RuntimePoints /\ pc'["limit"] \in LimitPoints
    OBVIOUS
  <2>3. /\ flagged' \subseteq {"runtime", "limit"}
        /\ callback' \in {"none", "complete", "error", "except"}
        /\ mediaClosed' \in BOOLEAN /\ peer' \in {"open", "closing", "closed"}
        /\ track' \in {"none", "live", "cancelling", "ended"}
    OBVIOUS
  <2> QED BY <2>1, <2>2, <2>3
<1>2. ReportInv'
  BY <1>0 DEF Kept, ReportInv, ReportedBeforeTeardown
<1>3. RunPlaceInv'
  <2>1. pc'["runtime"] = "run" <=> RT!Driving'
    <3>1. CASE RuntimeStarts
      <4>1. outcome = "none"
        BY <3>1 DEF RT!Start, RP!RunInv, RP!StageInv
      <4> QED BY <3>1, <4>1 DEF RT!Start, RT!Driving
    <3>2. CASE /\ pc["runtime"] = "run" /\ RT!DriverStep
               /\ \/ gen' \notin {"abandoned", "ended"} /\ UNCHANGED pc
                  \/ gen' = "ended" /\ Finished("runtime", "cancelled")
      <4>1. outcome' # "abandoned"
        BY <3>2, DriverFacts DEF RunPlaceInv, RT!Driving
      <4> QED BY <3>2, <4>1, DriverFacts DEF RT!Driving
    <3>3. CASE Finalizer
      BY <3>3, DriverFacts DEF RunPlaceInv, RT!Driving, RT!Finalize, RT!Cleanup
    <3>4. CASE SenderStep \/ UNCHANGED <<pc, result, runVars>>
      BY <3>4 DEF RunPlaceInv, RT!Driving, RT!SenderStep, RT!SenderReturns, RT!SenderRaises,
         RT!SenderCancelled
    <3> QED BY <3>1, <3>2, <3>3, <3>4
  <2> QED BY <2>1 DEF RunPlaceInv
<1>4. OrderInv'
  BY DEF OrderInv
<1>5. AwaitInv'
  BY <1>0 DEF AwaitInv
<1>6. PeerInv'
  BY DEF PeerInv, Kept, MutualAwait, OrderInv
<1> QED BY <1>1, <1>2, <1>3, <1>4, <1>5, <1>6

\* Every step of the call keeps its invariant.
LEMMA NextCallInv == CallInv /\ [Next]_vars => CallInv'
<1> SUFFICES ASSUME CallInv, [Next]_vars PROVE CallInv'
  OBVIOUS
<1>1. LP!IInv'
  BY LifecycleSteps, SameLifecycle, Constants, LP!NextIInv, CallAssumption DEF CallInv
<1>2. RP!RunInv'
  BY RunSteps, SameRun, Constants, RP!NextRunInv DEF CallInv, CtlInv
<1>3. Kept
  BY <1>2, LifecycleSteps, LifeFacts DEF CallInv, CtlInv, Kept
<1>4. CtlInv'
  <2>1. ASSUME NEW t \in Tasks, Teardown(t) PROVE CtlInv'
    <3>1. CASE FinishResumes(t)
      BY <1>3, <3>1, ProceedKeeps DEF FinishResumes, Leaves, CallInv, CtlInv, ControlOK
    <3>2. CASE FinishRaises(t)
      <4>1. CASE Proceed(t)
        <5>1. callback' \in {"none", "complete", "error", "except"}
          BY <3>2 DEF FinishRaises, CallInv, CtlInv, ControlOK
        <5>2. /\ pc[t] = "finish" /\ t \notin flagged /\ UNCHANGED runVars
          BY <3>2 DEF FinishRaises
        <5> QED BY <1>3, <4>1, <5>1, <5>2, ProceedKeeps DEF Leaves, CallInv
      <4>2. CASE /\ L!Fail(t) /\ Finished(t, "raised")
                 /\ UNCHANGED <<mediaVars, flagged, callback>>
        <5>1. faults' > 0
          <6>1. post[t] = "error"
            BY <4>2 DEF L!Fail
          <6>2. faults > 0
            BY <6>1 DEF CallInv, CtlInv, ReportInv
          <6> QED BY <1>3, <6>2 DEF Kept
        <5> QED BY <1>3, <3>2, <4>2, <5>1, EndKeeps DEF FinishRaises, CallInv
      <4> QED BY <3>2, <4>1, <4>2 DEF FinishRaises
    <3>3. CASE FinishCancelled(t)
      BY <1>3, <3>3, EndKeeps DEF FinishCancelled, CallInv
    <3>4. CASE LimitJoined(t) \/ RuntimeJoined(t) \/ TracksJoined(t) \/ PeerClosed(t)
      BY <1>3, <3>4, LimitJoinedKeeps, MediaKeeps DEF CallInv
    <3> QED BY <2>1, <3>1, <3>2, <3>3, <3>4 DEF Teardown
  <2>2. CASE Runtime(RT!DriverStep)
    <3>1. CASE Proceed("runtime") /\ Leaves
      BY <1>3, <2>2, <3>1, ProceedKeeps DEF Runtime, CallInv, Tasks, CtlInv, ControlOK
    <3>2. CASE ~(Proceed("runtime") /\ Leaves)
      BY <1>3, <2>2, <3>2, RunKeeps DEF Runtime, Report, Leaves, CallInv
    <3> QED BY <3>1, <3>2
  <2>3. CASE LimitExpires \/ \E r \in TerminationReasons : Leave(r)
    BY <1>3, <2>3, ProceedKeeps DEF LimitExpires, Leave, Report, CallInv, CtlInv, ControlOK, Tasks
  <2>4. CASE Offer \/ Negotiated \/ AnswerSent \/ TrackArrives \/ TrackEnds
    BY <1>3, <2>4, ServeKeeps DEF CallInv
  <2>5. CASE LimitCancelled \/ RuntimeDropped
    BY <1>3, <2>5, DropKeeps DEF CallInv
  <2>6. CASE RuntimeStarts \/ Finalizer \/ SenderStep
    BY <1>3, <2>6, RunKeeps DEF RuntimeStarts, Finalizer, SenderStep, CallInv
  <2>7. CASE (\E t \in Tasks : PostEnds(t)) \/ UNCHANGED vars
    BY <1>3, <2>7, RunKeeps DEF PostEnds, vars, CallInv
  <2> QED BY <2>1, <2>2, <2>3, <2>4, <2>5, <2>6, <2>7 DEF Next
<1> QED BY <1>1, <1>2, <1>4 DEF CallInv

\* A call that was just created satisfies it.
LEMMA InitCallInv == Init => CallInv
<1> SUFFICES ASSUME Init PROVE CallInv
  OBVIOUS
<1>1. LP!IInv
  BY SameLifecycle, Constants, LP!InitIInv, CallAssumption DEF Init
<1>2. RP!RunInv
  BY SameRun, Constants, RP!InitRunInv DEF Init
<1>3. /\ phase = [t \in Tasks |-> "idle"] /\ post = [t \in Tasks |-> "none"]
      /\ gen = "new" /\ cancelled = FALSE /\ inputClosed = FALSE
  BY DEF Init, L!Init, RT!Init
<1>4. ControlOK
  <2>1. /\ pc = [t \in Tasks |-> IF t = "ws" THEN "serve" ELSE "none"]
        /\ result = [t \in Tasks |-> "none"]
    BY DEF Init
  <2> QED BY <2>1 DEF Init, ControlOK, Tasks, WsPoints, RuntimePoints, LimitPoints, Closing
<1>5. ReportInv /\ RunPlaceInv
  BY <1>3 DEF Init, Tasks, ReportInv, ReportedBeforeTeardown, RunPlaceInv, RT!Driving
<1>6. OrderInv /\ AwaitInv /\ PeerInv
  BY DEF Init, Tasks, OrderInv, AwaitInv, PeerInv, Alive
<1> QED BY <1>1, <1>2, <1>4, <1>5, <1>6 DEF CallInv, CtlInv

-----------------------------------------------------------------------------
(* The theorems *)

\* However the tasks of a call end it, the strengthened invariant holds.
THEOREM CallInvariance == Spec => []CallInv
BY InitCallInv, NextCallInv, PTL DEF Spec

\* The call is an environment that its lifecycle's module allows, so what is
\* proved of CallLifecycle holds in every call.  (Its fairness is left to TLC,
\* property UsesLifecycle.)
THEOREM UsesLifecycleSafely == Spec => L!Init /\ [][L!Next]_L!vars
<1>1. Init => L!Init
  BY DEF Init
<1> QED BY <1>1, LifecycleSteps, PTL DEF Spec

\* And an environment of its run: when it cancels, the input is closed, and the
\* driver that leaves the run closes it.  (Fairness: property UsesRuntime.)
THEOREM UsesRuntimeSafely == Spec => RT!Init /\ [][RT!Next]_RT!vars
<1>1. Init => RT!Init
  BY DEF Init
<1>2. CallInv /\ [Next]_vars => [RT!Next]_RT!vars
  BY RunSteps DEF CallInv, CtlInv
<1> QED BY <1>1, <1>2, CallInvariance, PTL DEF Spec

\* Every variable of the call, its lifecycle and its run keeps its type.
THEOREM CallTypes == Spec => []TypeOK
<1>1. CallInv => TypeOK
  <2> SUFFICES ASSUME CallInv PROVE TypeOK
    OBVIOUS
  <2>1. L!TypeOK
    BY DEF CallInv, LP!IInv, LP!TypeOK, L!TypeOK, L!Statuses, LP!Statuses, L!Phases, LP!Phases,
       L!Reasons, LP!Reasons, L!NoReason, LP!NoReason, L!Reports, LP!Reports, L!NoReport,
       LP!NoReport, L!Posts, LP!Posts, L!Outcomes, LP!Outcomes
  <2>2. RT!TypeOK
    BY DEF CallInv, RP!RunInv, RP!TypeOK, RT!TypeOK, RP!Gens, RT!Gens, RP!Outcomes, RT!Outcomes,
       RP!Senders, RT!Senders
  <2> QED BY <2>1, <2>2 DEF CallInv, CtlInv, ControlOK, TypeOK
<1> QED BY <1>1, CallInvariance, PTL

\* The media are never touched, and no task cancelled, before the backend has
\* acknowledged the report (webrtc.py and signaling.py call close after finish).
THEOREM ReportComesFirst == Spec => []ReportedBeforeTeardown
<1>1. CallInv => ReportedBeforeTeardown
  BY DEF CallInv, CtlInv, ReportInv
<1> QED BY <1>1, CallInvariance, PTL

\* No task is cancelled while it posts the report: the lock of the lifecycle is
\* never released with a post on its way.
THEOREM PostsAreNotCancelled == Spec => []NoPostCancelled
<1>1. CallInv => NoPostCancelled
  <2> SUFFICES ASSUME CallInv, NEW t \in flagged, phase[t] = "sending" PROVE FALSE
    BY DEF NoPostCancelled
  <2>1. finished /\ t \in Tasks
    BY DEF CallInv, CtlInv, ReportInv, ReportedBeforeTeardown, ControlOK, Tasks
  <2>2. holder = NoTask /\ holder = t
    BY <2>1 DEF CallInv, LP!IInv, LP!AckedInv, LP!SendingInv
  <2> QED BY <2>1, <2>2, CallAssumption
<1> QED BY <1>1, CallInvariance, PTL

\* The runtime and the time limit await each other only after a cancelled run
\* ended with an exception.
THEOREM MutualAwaits == Spec => []MutualAwaitIsExplained
<1>1. CallInv => MutualAwaitIsExplained
  BY DEF CallInv, CtlInv, AwaitInv, MutualAwaitIsExplained, MutualAwait
<1> QED BY <1>1, CallInvariance, PTL

\* A handler that returns has closed the media and left no time limit and no
\* runtime but one that is closing the call itself.
THEOREM HandlersLeaveNothing == Spec => []HandlerLeavesNothing
<1>1. CallInv => HandlerLeavesNothing
  BY DEF CallInv, CtlInv, OrderInv, HandlerLeavesNothing, Alive, Tasks
<1> QED BY <1>1, CallInvariance, PTL

\* The peer connection of a call whose tasks have ended is closed, but in the
\* cases PeerLeakIsExplained lists.
THEOREM PeerLeaks == Spec => []PeerLeakIsExplained
<1>1. CallInv => PeerLeakIsExplained
  <2> SUFFICES ASSUME CallInv, \A t \in Tasks : ~Alive(t), peer # "closed"
               PROVE  \/ faults > 0 \/ result["runtime"] = "raised"
                      \/ peer = "closing" /\ result["limit"] = "cancelled"
    BY DEF PeerLeakIsExplained
  <2>1. /\ \A t \in Tasks : pc[t] \in {"none", "done"}
        /\ pc["ws"] = "done" /\ ~MutualAwait
    BY DEF Alive, Tasks, CallInv, CtlInv, ControlOK, WsPoints, Closing, MutualAwait
  <2>2. CASE mediaClosed
    BY <2>1, <2>2 DEF CallInv, CtlInv, PeerInv, ControlOK
  <2>3. CASE ~mediaClosed
    BY <2>1, <2>3 DEF CallInv, CtlInv, PeerInv, OrderInv
  <2> QED BY <2>2, <2>3
<1> QED BY <1>1, CallInvariance, PTL

-----------------------------------------------------------------------------
(* What the call inherits *)

\* Every step of the call is one of the lifecycle the lemmas are about.
LEMMA LifecycleOfCall ==
    CallInv /\ [Next]_vars => LP!IInv /\ [LP!Next]_LP!vars
BY LifecycleSteps, SameLifecycle DEF CallInv

\* What a lifecycle keeps: the queue of its lock, and what it has told how often.
LEMMA ReportsKept ==
    ASSUME CallInv, LP!QueueIsWaiting, LP!StatusInv, LP!DeliveryCount, [Next]_vars
    PROVE  LP!QueueIsWaiting' /\ LP!StatusInv' /\ LP!DeliveryCount'
<1>1. LP!IInv /\ [LP!Next]_LP!vars
  BY LifecycleOfCall
<1> QED BY <1>1, LP!QueueKept, LP!StatusKept, LP!CountKept, Constants, CallAssumption

\* However the three tasks of a call end it, they post one report at a time, in
\* turn, at most once more than posts have failed, and what the backend received
\* last is what was acknowledged.
THEOREM CallReports ==
    Spec => [](/\ L!OneSendAtATime /\ L!AckedIsFinal
               /\ L!QueueIsWaiting /\ L!StatusNeverRegresses
               /\ Len(delivered) <= faults + 1)
<1> DEFINE Reported == LP!QueueIsWaiting /\ LP!StatusInv /\ LP!DeliveryCount
<1>1. Init => Reported
  <2>1. Init => LP!Init
    BY SameLifecycle DEF Init
  <2>2. LP!Init => LP!QueueIsWaiting
    BY DEF LP!Init, LP!QueueIsWaiting
  <2> QED BY <2>1, <2>2, LP!InitStatus, LP!InitCount, Constants, CallAssumption
<1>2. CallInv /\ Reported /\ [Next]_vars => Reported'
  BY ReportsKept
<1>3. CallInv /\ Reported =>
          /\ L!OneSendAtATime /\ L!AckedIsFinal
          /\ L!QueueIsWaiting /\ L!StatusNeverRegresses
          /\ Len(delivered) <= faults + 1
  <2>1. LP!IInv => L!OneSendAtATime
    BY DEF LP!IInv, LP!SendingInv, L!OneSendAtATime
  <2>2. LP!AckedIsFinal => L!AckedIsFinal
    BY DEF LP!AckedIsFinal, L!AckedIsFinal, LP!Last, L!Last
  <2>3. LP!IInv => L!AckedIsFinal
    BY <2>2, LP!AckedFromInv, Constants, CallAssumption
  <2>4. LP!QueueIsWaiting => L!QueueIsWaiting
    BY DEF LP!QueueIsWaiting, L!QueueIsWaiting
  <2>5. LP!StatusInv => L!StatusNeverRegresses
    BY DEF LP!StatusInv, LP!StatusNeverRegresses, L!StatusNeverRegresses
  <2>6. LP!DeliveryCount => Len(delivered) <= faults + 1
    BY DEF LP!DeliveryCount
  <2> QED BY <2>1, <2>3, <2>4, <2>5, <2>6 DEF CallInv
<1> HIDE DEF Reported
<1> QED BY <1>1, <1>2, <1>3, CallInvariance, PTL DEF Spec

\* Once one of its tasks knows that the call is reported, none of them reports
\* it again.
THEOREM CallIsSilent == Spec => L!FinishedIsSilent
<1>1. CallInv /\ [Next]_vars =>
          [finished => UNCHANGED <<delivered, acked, finished>>]_L!vars
  <2>1. L!vars = LP!vars /\ L!vars' = LP!vars'
    BY DEF L!vars, LP!vars
  <2> QED BY <2>1, LifecycleOfCall, LP!SilentStep, Constants, CallAssumption
<1> QED BY <1>1, CallInvariance, PTL DEF Spec, L!FinishedIsSilent

\* The call, with all that goes on beside its lifecycle, implements the report
\* that ResultReport promises.
THEOREM CallImplementsReport ==
    Spec => L!Abstract!Init /\ [][L!Abstract!Next]_L!Abstract!vars
<1>1. Init => L!Abstract!Init
  BY DEF Init, L!Init, L!Abstract!Init
<1>2. CallInv /\ [Next]_vars => [L!Abstract!Next]_L!Abstract!vars
  <2>1. CallInv /\ [Next]_vars => [LP!Abstract!Next]_LP!Abstract!vars
    BY LifecycleOfCall, LP!StepSimulation, Constants, CallAssumption
  <2>2. L!NoReport = LP!NoReport /\ L!Reports = LP!Reports
    BY DEF L!NoReport, LP!NoReport, L!Reports, LP!Reports, L!Statuses, LP!Statuses,
       L!Outcomes, LP!Outcomes
  <2>3. L!Abstract!vars = LP!Abstract!vars /\ L!Abstract!vars' = LP!Abstract!vars'
    BY <2>2 DEF L!Abstract!vars, LP!Abstract!vars
  <2>4. LP!Abstract!Next => L!Abstract!Next
    BY <2>2 DEF LP!Abstract!Next, LP!Abstract!Start, LP!Abstract!Accept, LP!Abstract!GiveUp,
       L!Abstract!Next, L!Abstract!Start, L!Abstract!Accept, L!Abstract!GiveUp
  <2> QED BY <2>1, <2>3, <2>4
<1> QED BY <1>1, <1>2, CallInvariance, PTL DEF Spec

\* The sender of a call's run never outlives its connection, the connection stays
\* open only as LeakIsExplained says, and a run the call has cancelled is not
\* reported as completed.
THEOREM CallRuns ==
    Spec => [](RT!SenderInsideConnection /\ RT!LeakIsExplained /\ RT!CancelledNeverCompletes)
<1>1. CallInv => RT!SenderInsideConnection /\ RT!LeakIsExplained /\ RT!CancelledNeverCompletes
  <2>1. RP!SenderInsideConnection => RT!SenderInsideConnection
    BY DEF RP!SenderInsideConnection, RT!SenderInsideConnection, RP!SenderLive, RT!SenderLive
  <2>2. RP!LeakIsExplained => RT!LeakIsExplained
    BY DEF RP!LeakIsExplained, RT!LeakIsExplained
  <2>3. RP!CancelledNeverCompletes => RT!CancelledNeverCompletes
    BY DEF RP!CancelledNeverCompletes, RT!CancelledNeverCompletes
  <2> QED BY <2>1, <2>2, <2>3, RP!RunFacts, Constants DEF CallInv
<1> QED BY <1>1, CallInvariance, PTL

=============================================================================
