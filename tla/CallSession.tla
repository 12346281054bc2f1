----------------------------- MODULE CallSession -----------------------------
(***************************************************************************)
(* One call: api/signaling.py and media/webrtc.py around CallLifecycle and *)
(* RealtimeRuntime.                                                        *)
(*                                                                         *)
(* Three tasks of one event loop may end the call.  "ws" is the websocket  *)
(* handler, "runtime" runs AudioRuntimeBridge.run, "limit" is              *)
(* _enforce_time_limit.  Whoever does first reports the result             *)
(* (CallLifecycle.finish) and then tears the call down                     *)
(* (ManagedSignalingSession.close, WebRtcSession.close): it cancels and    *)
(* awaits the others, who may at the same time be doing the same.          *)
(*                                                                         *)
(* A step runs from one await to the next, through all the functions it    *)
(* returns from and calls on the way.                                      *)
(***************************************************************************)
EXTENDS Naturals, Sequences

CONSTANTS
    NoTask,     \* nobody holds the lifecycle's lock
    MaxFaults,  \* bound: how many posts of the result may fail
    Failures    \* the operations of the provider that may raise

Tasks == {"ws", "runtime", "limit"}

VARIABLES
    (* CallLifecycle *)
    callStatus, finished, holder, waiters, phase, reason, report, post,
    delivered, acked, faults,
    (* RealtimeRuntime, driven by the task "runtime" *)
    gen, outcome, exit, sender, connection, cancelPending, cancelled, inputClosed,
    (* The call *)
    pc,          \* the await each task is suspended at
    result,      \* how each task ended
    flagged,     \* tasks with a cancellation to be raised at that await
    callback,    \* the branch of AudioRuntimeBridge.run that reports
    mediaClosed, \* WebRtcSession._closed
    peer,        \* the RTCPeerConnection
    track        \* the consumer task of the caller's audio track

TerminationReasons ==
    {"USER_HANGUP", "ABNORMAL_DISCONNECT", "PROVIDER_ERROR", "SCENARIO_COMPLETED", "TIME_LIMIT"}

L  == INSTANCE CallLifecycle WITH CallReasons <- TerminationReasons
RT == INSTANCE RealtimeRuntime

ASSUME CallAssumption ==
    NoTask \notin Tasks /\ MaxFaults \in Nat /\ Failures \subseteq RT!AllFailures

lifeVars    == <<callStatus, finished, holder, waiters, phase, reason, report, post,
                 delivered, acked, faults>>
runVars     == <<gen, outcome, exit, sender, connection, cancelPending, cancelled>>
mediaVars   == <<mediaClosed, peer, track, inputClosed>>
vars        == <<lifeVars, runVars, mediaVars, pc, result, flagged, callback>>

Init ==
    /\ L!Init
    /\ RT!Init
    /\ pc = [t \in Tasks |-> IF t = "ws" THEN "serve" ELSE "none"]
    /\ result = [t \in Tasks |-> "none"]
    /\ flagged = {}
    /\ callback = "none"
    /\ mediaClosed = FALSE
    /\ peer = "open"
    /\ track = "none"

\* The task was created and has not ended.
Alive(t) == pc[t] \notin {"none", "done"}

Suspend(t, p) == pc' = [pc EXCEPT ![t] = p] /\ UNCHANGED result

Finished(t, how) ==
    /\ pc' = [pc EXCEPT ![t] = "done"]
    /\ result' = [result EXCEPT ![t] = how]

\* Apart from the steps of its generator, "runtime" leaves the run alone.
RunUntouchedBy(t) == t # "runtime" => UNCHANGED runVars

-----------------------------------------------------------------------------
(* Cancellation: asyncio hands task.cancel() on to the task that is awaited *)

CancelRuntime ==
    \/ pc["runtime"] = "run" /\ RT!Cancel /\ UNCHANGED flagged
    \/ pc["runtime"] # "run" /\ flagged' = flagged \cup {"runtime"} /\ UNCHANGED runVars

LimitAwaitsRuntime == pc["limit"] = "joinRuntime" /\ Alive("runtime")
LimitAwaitsTrack   == pc["limit"] = "joinTracks" /\ track # "ended"

CancelLimit ==
    \/ LimitAwaitsRuntime /\ CancelRuntime
    \/ LimitAwaitsTrack /\ UNCHANGED <<flagged, runVars>>
    \/ /\ ~LimitAwaitsRuntime /\ ~LimitAwaitsTrack
       /\ flagged' = flagged \cup {"limit"}
       /\ UNCHANGED runVars

-----------------------------------------------------------------------------
(* WebRtcSession.close *)

\* close returns, and the task is done: only the bridge's "except" re-raises.
Closed(t) ==
    Finished(t, IF t = "runtime" /\ callback' = "except" THEN "raised" ELSE "returned")

ClosePeer(t) == peer' = "closing" /\ Suspend(t, "closePeer")

\* Mutant of StopTracks: the consumer of the track is awaited and not cancelled.
StopTracksWithoutCancel(t) ==
    \/ track = "live" /\ Suspend(t, "joinTracks") /\ UNCHANGED <<peer, track>>
    \/ track # "live" /\ ClosePeer(t) /\ UNCHANGED track

StopTracks(t) ==
    \/ track = "live" /\ track' = "cancelling" /\ Suspend(t, "joinTracks") /\ UNCHANGED peer
    \/ track # "live" /\ ClosePeer(t) /\ UNCHANGED track

\* "await self._runtime_task" of a task that is done raises its exception.
AfterRuntime(t) ==
    \/ result["runtime"] = "raised" /\ Finished(t, "raised") /\ UNCHANGED <<peer, track>>
    \/ result["runtime"] # "raised" /\ StopTracks(t)

\* Mutant of MediaClose: the runtime is awaited and not cancelled.
MediaCloseWithoutCancel(t) ==
    \/ mediaClosed /\ Closed(t) /\ UNCHANGED <<mediaVars, flagged>> /\ RunUntouchedBy(t)
    \/ /\ ~mediaClosed
       /\ mediaClosed' = TRUE
       /\ inputClosed' = TRUE
       /\ UNCHANGED flagged /\ RunUntouchedBy(t)
       /\ \/ t # "runtime" /\ Alive("runtime")
             /\ Suspend(t, "joinRuntime") /\ UNCHANGED <<peer, track>>
          \/ t # "runtime" /\ ~Alive("runtime") /\ AfterRuntime(t)
          \/ t = "runtime" /\ StopTracks(t)

\* Mutant of MediaClose: the audio input is not closed.
MediaCloseInputOpen(t) ==
    \/ mediaClosed /\ Closed(t) /\ UNCHANGED <<mediaVars, flagged>> /\ RunUntouchedBy(t)
    \/ /\ ~mediaClosed
       /\ mediaClosed' = TRUE
       /\ UNCHANGED inputClosed
       /\ \/ /\ t # "runtime" /\ Alive("runtime")
             /\ CancelRuntime
             /\ Suspend(t, "joinRuntime")
             /\ UNCHANGED <<peer, track>>
          \/ /\ t # "runtime" /\ ~Alive("runtime")
             /\ AfterRuntime(t)
             /\ UNCHANGED <<flagged, runVars>>
          \/ t = "runtime" /\ StopTracks(t) /\ UNCHANGED flagged

MediaClose(t) ==
    \/ mediaClosed /\ Closed(t) /\ UNCHANGED <<mediaVars, flagged>> /\ RunUntouchedBy(t)
    \/ /\ ~mediaClosed
       /\ mediaClosed' = TRUE
       /\ inputClosed' = TRUE
       /\ \/ /\ t # "runtime" /\ Alive("runtime")
             /\ CancelRuntime
             /\ Suspend(t, "joinRuntime")
             /\ UNCHANGED <<peer, track>>
          \/ /\ t # "runtime" /\ ~Alive("runtime")
             /\ AfterRuntime(t)
             /\ UNCHANGED <<flagged, runVars>>
          \/ t = "runtime" /\ StopTracks(t) /\ UNCHANGED flagged

-----------------------------------------------------------------------------
(* ManagedSignalingSession.close *)

\* Two tasks that await each other: cancelling one recurses between them.
MutualAwait == pc["runtime"] = "joinLimit" /\ pc["limit"] = "joinRuntime"

JoinLimit(t) ==
    \/ /\ t = "ws" /\ ~MutualAwait
       /\ CancelLimit
       /\ Suspend(t, "joinLimit")
    \/ /\ t = "ws" /\ MutualAwait
       /\ Finished(t, "raised")
       /\ UNCHANGED <<flagged, runVars>>
    \/ /\ t = "runtime"
       /\ flagged' = IF LimitAwaitsRuntime THEN flagged ELSE flagged \cup {"limit"}
       /\ Suspend(t, "joinLimit")

\* Mutant of ManagedClose: no "is not current_task", so "limit" awaits itself.
ManagedCloseSelf(t) ==
    \/ t = "limit" /\ flagged' = flagged \cup {"limit"} /\ Suspend(t, "joinLimit")
                   /\ UNCHANGED <<mediaVars, runVars>>
    \/ t # "limit" /\ Alive("limit") /\ JoinLimit(t) /\ UNCHANGED mediaVars
    \/ t # "limit" /\ ~Alive("limit") /\ MediaClose(t)

\* Mutant of ManagedClose: the time limit is left running.
ManagedCloseWithoutLimit(t) == MediaClose(t)

ManagedClose(t) ==
    \/ t # "limit" /\ Alive("limit") /\ JoinLimit(t) /\ UNCHANGED mediaVars
    \/ (t = "limit" \/ ~Alive("limit")) /\ MediaClose(t)

-----------------------------------------------------------------------------
(* Report, then close: the three tasks have this in common *)

\* How far t gets in this step: to an await of finish, or past it and into close.
Proceed(t) ==
    \/ /\ phase'[t] \in {"waiting", "sending"}
       /\ Suspend(t, "finish")
       /\ UNCHANGED <<mediaVars, flagged>>
       /\ RunUntouchedBy(t)
    \/ phase'[t] = "returned" /\ ManagedClose(t)

Report(t, r) == L!Finish(t, r) /\ Proceed(t)

FinishResumes(t) ==
    /\ pc[t] = "finish" /\ t \notin flagged
    /\ UNCHANGED callback
    /\ L!Resume(t) \/ L!Complete(t)
    /\ Proceed(t)
    /\ t = "runtime" => UNCHANGED runVars

\* Mutant of FinishRaises: close is in a "finally" behind finish.
FinishRaisesAndCloses(t) ==
    /\ pc[t] = "finish" /\ t \notin flagged
    /\ UNCHANGED callback
    /\ L!Fail(t)
    /\ ManagedClose(t)
    /\ t = "runtime" => UNCHANGED runVars

\* The post raised.  Out of the bridge's loop this is one more exception of the
\* runtime, and reported as such; elsewhere it ends the task, and close is skipped.
FinishRaises(t) ==
    /\ pc[t] = "finish" /\ t \notin flagged
    /\ \/ /\ t = "runtime" /\ callback = "error"
          /\ callback' = "except"
          /\ L!Refinish(t, "PROVIDER_ERROR")
          /\ Proceed(t)
       \/ /\ t # "runtime" \/ callback # "error"
          /\ L!Fail(t)
          /\ Finished(t, "raised")
          /\ UNCHANGED <<mediaVars, flagged, callback>>
    /\ UNCHANGED runVars

FinishCancelled(t) ==
    /\ pc[t] = "finish" /\ t \in flagged
    /\ L!CancelWait(t)
    /\ flagged' = flagged \ {t}
    /\ Finished(t, "cancelled")
    /\ UNCHANGED <<runVars, mediaVars, callback>>

\* "await self._time_limit_task" returns; a CancelledError is swallowed, also
\* one that was meant for the awaiting task.
LimitJoined(t) ==
    /\ pc[t] = "joinLimit" /\ pc["limit"] = "done"
    /\ UNCHANGED <<lifeVars, callback>>
    /\ \/ /\ t \in flagged
          /\ flagged' = flagged \ {t}
          /\ Closed(t)
          /\ UNCHANGED mediaVars
       \/ /\ t \notin flagged /\ t = "ws" /\ result["limit"] = "raised"
          /\ Finished(t, "raised")
          /\ UNCHANGED <<runVars, mediaVars, flagged>>
       \/ t \notin flagged /\ result["limit"] # "raised" /\ MediaClose(t)
    /\ t = "runtime" => UNCHANGED runVars

RuntimeJoined(t) ==
    /\ pc[t] = "joinRuntime" /\ pc["runtime"] = "done"
    /\ \/ t \in flagged /\ StopTracks(t)
       \/ t \notin flagged /\ AfterRuntime(t)
    /\ flagged' = flagged \ {t}
    /\ UNCHANGED <<lifeVars, runVars, mediaClosed, inputClosed, callback>>

\* Mutant of TracksJoined: no "except CancelledError" around the await.
TracksJoinedUncaught(t) ==
    /\ pc[t] = "joinTracks" /\ track = "ended"
    /\ Finished(t, "cancelled")
    /\ flagged' = flagged \ {t}
    /\ UNCHANGED <<lifeVars, runVars, mediaVars, callback>>

TracksJoined(t) ==
    /\ pc[t] = "joinTracks" /\ track = "ended"
    /\ ClosePeer(t)
    /\ flagged' = flagged \ {t}
    /\ UNCHANGED <<lifeVars, runVars, mediaClosed, track, inputClosed, callback>>

\* A cancellation during the peer connection's close ends the task; _closed is
\* set, so nobody closes the peer connection again.
PeerClosed(t) ==
    /\ pc[t] = "closePeer"
    /\ UNCHANGED callback
    /\ \/ t \notin flagged /\ peer' = "closed" /\ Closed(t)
       \/ t \in flagged /\ Finished(t, "cancelled") /\ UNCHANGED peer
    /\ flagged' = flagged \ {t}
    /\ UNCHANGED <<lifeVars, runVars, mediaClosed, track, inputClosed>>

Teardown(t) ==
    \/ FinishResumes(t) \/ FinishRaises(t) \/ FinishCancelled(t)
    \/ LimitJoined(t) \/ RuntimeJoined(t) \/ TracksJoined(t) \/ PeerClosed(t)

-----------------------------------------------------------------------------
(* "ws": signaling_socket and _serve_messages *)

\* The runtime starts with the first offer; a closed peer refuses an offer (Leave).
Offer ==
    /\ pc["ws"] = "serve" /\ peer = "open"
    /\ pc' = [pc EXCEPT !["ws"] = "negotiate",
                        !["runtime"] = IF @ = "none" THEN "start" ELSE @]
    /\ UNCHANGED <<lifeVars, runVars, mediaVars, result, flagged, callback>>

\* Mutant of Negotiated: mark_in_call does not look at _finished.
NegotiatedUnchecked ==
    /\ pc["ws"] = "negotiate"
    /\ pc' = [pc EXCEPT !["ws"] = "answer",
                        !["limit"] = IF @ = "none" THEN "sleep" ELSE @]
    /\ callStatus' = "IN_CALL"
    /\ UNCHANGED <<finished, holder, waiters, phase, reason, report, post, delivered, acked,
                   faults, runVars, mediaVars, result, flagged, callback>>

\* accept_offer returns: the call is marked, and its time limit runs from here.
Negotiated ==
    /\ pc["ws"] = "negotiate"
    /\ pc' = [pc EXCEPT !["ws"] = "answer",
                        !["limit"] = IF @ = "none" THEN "sleep" ELSE @]
    /\ L!MarkInCall
    /\ UNCHANGED <<runVars, mediaVars, result, flagged, callback>>

AnswerSent ==
    /\ pc["ws"] = "answer"
    /\ Suspend("ws", "serve")
    /\ UNCHANGED <<lifeVars, runVars, mediaVars, flagged, callback>>

\* The caller hangs up; or the socket is lost, a message or an offer is refused.
Leave(r) ==
    /\ \/ pc["ws"] = "serve" /\ r \in {"USER_HANGUP", "ABNORMAL_DISCONNECT"}
       \/ pc["ws"] \in {"negotiate", "answer"} /\ r = "ABNORMAL_DISCONNECT"
    /\ UNCHANGED callback
    /\ Report("ws", r)

-----------------------------------------------------------------------------
(* The consumer of the caller's track *)

\* It appears while the offer is applied; on a closed session it ends by itself.
TrackArrives ==
    /\ pc["ws"] = "negotiate" /\ track = "none" /\ peer = "open"
    /\ track' = IF mediaClosed THEN "ended" ELSE "live"
    /\ UNCHANGED <<lifeVars, runVars, mediaClosed, peer, inputClosed, pc, result, flagged, callback>>

TrackEnds ==
    /\ track \in {"live", "cancelling"}
    /\ track' = "ended"
    /\ UNCHANGED <<lifeVars, runVars, mediaClosed, peer, inputClosed, pc, result, flagged, callback>>

-----------------------------------------------------------------------------
(* "limit": _enforce_time_limit *)

\* Mutant of LimitExpires: the call is closed and not reported.
LimitExpiresUnreported ==
    /\ pc["limit"] = "sleep" /\ "limit" \notin flagged
    /\ UNCHANGED <<lifeVars, callback>>
    /\ ManagedClose("limit")

LimitExpires ==
    /\ pc["limit"] = "sleep" /\ "limit" \notin flagged
    /\ UNCHANGED callback
    /\ Report("limit", "TIME_LIMIT")

LimitCancelled ==
    /\ pc["limit"] = "sleep" /\ "limit" \in flagged
    /\ flagged' = flagged \ {"limit"}
    /\ Finished("limit", "cancelled")
    /\ UNCHANGED <<lifeVars, runVars, mediaVars, callback>>

-----------------------------------------------------------------------------
(* "runtime": AudioRuntimeBridge.run *)

RuntimeStarts ==
    /\ pc["runtime"] = "start" /\ "runtime" \notin flagged
    /\ RT!Start
    /\ Suspend("runtime", "run")
    /\ UNCHANGED <<lifeVars, mediaVars, flagged, callback>>

\* Cancelled before its first step, the task never enters the bridge.
RuntimeDropped ==
    /\ pc["runtime"] = "start" /\ "runtime" \in flagged
    /\ flagged' = flagged \ {"runtime"}
    /\ Finished("runtime", "cancelled")
    /\ UNCHANGED <<lifeVars, runVars, mediaVars, callback>>

\* A step of the generator, and what the bridge makes of it before it awaits:
\* the loop goes on, or the run's end is reported by way of a callback.
Runtime(GeneratorStep) ==
    /\ pc["runtime"] = "run"
    /\ GeneratorStep
    /\ \/ /\ gen' \notin {"abandoned", "ended"}
          /\ UNCHANGED <<lifeVars, mediaVars, pc, result, flagged, callback>>
       \/ /\ gen' = "abandoned"
          /\ \/ callback' = "error"
             \/ "audio" \in Failures /\ callback' = "except"
          /\ Report("runtime", "PROVIDER_ERROR")
       \/ /\ gen' = "ended" /\ exit' = "completed"
          /\ callback' = "complete"
          /\ Report("runtime", "SCENARIO_COMPLETED")
       \/ /\ gen' = "ended" /\ exit' = "raised"
          /\ callback' = "except"
          /\ Report("runtime", "PROVIDER_ERROR")
       \/ /\ gen' = "ended" /\ exit' = "cancelled"
          /\ Finished("runtime", "cancelled")
          /\ UNCHANGED <<lifeVars, mediaVars, flagged, callback>>

\* The abandoned generator is dropped when the bridge leaves its loop: at its
\* end, or in its "except".
Finalizer ==
    /\ \/ (pc["runtime"] = "done" \/ callback = "except") /\ RT!Finalize
       \/ outcome = "abandoned" /\ RT!DriverStep
    /\ UNCHANGED <<lifeVars, mediaVars, pc, result, flagged, callback>>

SenderStep ==
    /\ RT!SenderStep
    /\ UNCHANGED <<lifeVars, mediaVars, pc, result, flagged, callback>>

PostEnds(t) ==
    /\ L!PostEnds(t)
    /\ UNCHANGED <<runVars, mediaVars, pc, result, flagged, callback>>

-----------------------------------------------------------------------------

Next ==
    \/ Offer \/ Negotiated \/ AnswerSent \/ TrackArrives \/ TrackEnds
    \/ \E r \in TerminationReasons : Leave(r)
    \/ LimitExpires \/ LimitCancelled
    \/ RuntimeStarts \/ RuntimeDropped \/ Runtime(RT!DriverStep)
    \/ Finalizer \/ SenderStep
    \/ \E t \in Tasks : Teardown(t) \/ PostEnds(t)

\* The event loop runs every task that can go on; a post, a close of the
\* provider's connection and a cancelled task end; the time limit expires.
\* Nothing makes the caller send a message or hang up, or the provider speak.
Fairness ==
    /\ \A t \in Tasks : WF_vars(Teardown(t)) /\ WF_vars(PostEnds(t))
    /\ WF_vars(LimitExpires) /\ WF_vars(LimitCancelled)
    /\ WF_vars(RuntimeStarts) /\ WF_vars(RuntimeDropped)
    /\ WF_vars(Runtime(RT!CancelArrives)) /\ WF_vars(Runtime(RT!Joined))
    /\ WF_vars(Runtime(RT!CloseReturns \/ RT!CloseRaises))
    /\ WF_vars(Finalizer)
    /\ WF_vars(RT!SenderCancelled /\ SenderStep)
    /\ WF_vars(TrackEnds /\ track = "cancelling")

Spec == Init /\ [][Next]_vars /\ Fairness

-----------------------------------------------------------------------------
(* Properties *)

Closing       == {"finish", "joinTracks", "closePeer", "done"}
WsPoints      == Closing \cup {"serve", "negotiate", "answer", "joinLimit", "joinRuntime"}
RuntimePoints == Closing \cup {"none", "start", "run", "joinLimit"}
LimitPoints   == Closing \cup {"none", "sleep", "joinRuntime"}

TypeOK ==
    /\ L!TypeOK
    /\ RT!TypeOK
    /\ pc \in [Tasks -> WsPoints \cup RuntimePoints \cup LimitPoints]
    /\ pc["ws"] \in WsPoints /\ pc["runtime"] \in RuntimePoints /\ pc["limit"] \in LimitPoints
    /\ result \in [Tasks -> {"none", "returned", "raised", "cancelled"}]
    /\ flagged \subseteq {"runtime", "limit"}
    /\ callback \in {"none", "complete", "error", "except"}
    /\ mediaClosed \in BOOLEAN
    /\ peer \in {"open", "closing", "closed"}
    /\ track \in {"none", "live", "cancelling", "ended"}

\* Tearing a call down cancels its other tasks wherever they are, but never one
\* whose post is under way: the lock would be released with the report still on
\* its way to the backend.
NoPostCancelled == \A t \in flagged : phase[t] # "sending"

\* Nothing of the call is torn down before the backend acknowledged its result.
ReportedBeforeTeardown ==
    mediaClosed \/ flagged # {} \/ cancelled \/ peer # "open" => finished

\* Two tasks of the call wait for each other only when the run answers its
\* cancellation with an exception of the provider.
MutualAwaitIsExplained == MutualAwait => cancelled /\ exit = "raised"

\* When the handler returns from closing the session, the time limit is gone, the
\* media are closed, and the runtime has ended unless it is itself the one closing.
HandlerLeavesNothing ==
    result["ws"] = "returned" =>
        /\ mediaClosed
        /\ ~Alive("limit")
        /\ Alive("runtime") => pc["runtime"] \in {"joinTracks", "closePeer"}

\* When all its tasks have ended, the call's peer connection is closed, except
\* after a failed post or run, or when the time limit was cancelled closing it.
PeerLeakIsExplained ==
    (\A t \in Tasks : ~Alive(t)) /\ peer # "closed" =>
        \/ faults > 0
        \/ result["runtime"] = "raised"
        \/ peer = "closing" /\ result["limit"] = "cancelled"

\* After the handler returned, every task of the call ends, the finaliser of a
\* dropped run included, unless the exception of a failed run cut the closing short.
ReturnedHandlerEndsCall ==
    result["ws"] = "returned" ~>
        /\ \A t \in Tasks : ~Alive(t)
        /\ gen \in {"new", "ended"}
        /\ track \in {"none", "ended"} \/ result["runtime"] = "raised"

\* A call that was answered is reported in the end, even when the caller and the
\* provider fall silent, unless a post fails.
AnsweredIsReported == pc["limit"] # "none" ~> finished \/ faults > 0

\* tests/unit/api/test_signaling_factory.py, "assert peer.closed is True": once
\* the tasks of a call have ended, its peer connection is closed.
PeerReleased == (\A t \in Tasks : ~Alive(t)) => peer = "closed"

\* tests/unit/api/test_signaling_factory.py, "reports_time_limit_and_closes_media":
\* a time limit that has reported the call gets through closing its media.
TimeLimitClosesMedia == pc["limit"] = "joinRuntime" ~> pc["limit"] # "joinRuntime"

\* The call uses its lifecycle and its run as those modules assume.
UsesLifecycle == L!Spec
UsesRuntime   == RT!Spec

=============================================================================
