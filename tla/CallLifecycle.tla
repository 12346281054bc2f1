--------------------------- MODULE CallLifecycle ---------------------------
(***************************************************************************)
(* session/lifecycle.py: the status of one call and the report of its end. *)
(*                                                                         *)
(* Any of a call's asyncio tasks may call finish; an asyncio.Lock          *)
(* serialises them.  The holder builds the report and hands it to a worker *)
(* thread that posts it to the backend, and releases the lock only when    *)
(* that thread has ended.  Only an answered post sets _finished, so a post *)
(* that raises leaves the call unfinished and the next caller posts again. *)
(*                                                                         *)
(* The event loop runs a task from one await to the next without           *)
(* interruption: each action below is one such stretch of code, or one     *)
(* step of the worker thread and the backend.  _call_status and            *)
(* _started_at change together, so callStatus stands for both.             *)
(***************************************************************************)
EXTENDS Naturals, Sequences, SequencesExt

CONSTANTS
    Tasks,      \* the asyncio tasks that may end the call
    NoTask,     \* nobody holds the lock
    CallReasons,\* the reasons the callers of finish give
    MaxFaults   \* bound: how many posts may fail

ASSUME NoTaskAssumption == NoTask \notin Tasks
ASSUME FaultsAssumption == MaxFaults \in Nat

Reasons == {"USER_HANGUP", "ABNORMAL_DISCONNECT", "PROVIDER_ERROR",
            "SCENARIO_COMPLETED", "TIME_LIMIT"}
Statuses == {"CONNECTING", "IN_CALL"}
Outcomes == {"SUCCEEDED", "FAILED"}
Reports  == [status : Statuses, outcome : Outcomes]
NoReport == [status |-> "NONE", outcome |-> "NONE"]
NoReason == "NONE"

ASSUME ReasonsAssumption == CallReasons \subseteq Reasons

\* Mutant of Outcome: TIME_LIMIT, the newest reason, has no outcome.
OutcomeUnmapped(r) ==
    CASE r \in {"USER_HANGUP", "SCENARIO_COMPLETED"} -> "SUCCEEDED"
      [] r \in {"ABNORMAL_DISCONNECT", "PROVIDER_ERROR"} -> "FAILED"
      [] OTHER -> "NONE"

Outcome(r) ==
    IF r \in {"USER_HANGUP", "SCENARIO_COMPLETED"} THEN "SUCCEEDED" ELSE "FAILED"

VARIABLES
    callStatus,  \* _call_status, and _started_at (set iff "IN_CALL")
    finished,    \* _finished
    holder,      \* the task inside "async with self._lock"
    waiters,     \* the tasks queued on the lock, oldest first
    phase,       \* where each task is in finish
    reason,      \* the argument of each task queued on the lock
    report,      \* the CallResult each task is posting
    post,        \* the worker thread of each task's send_result
    delivered,   \* history: the reports the backend received
    acked,       \* history: the reports finish returned to a caller
    faults       \* posts that failed so far

vars == <<callStatus, finished, holder, waiters, phase, reason, report, post,
          delivered, acked, faults>>

Phases == {"idle", "waiting", "sending", "returned", "raised", "cancelled"}
Posts  == {"none", "running", "answered", "error"}

Init ==
    /\ callStatus = "CONNECTING"
    /\ finished = FALSE
    /\ holder = NoTask
    /\ waiters = << >>
    /\ phase = [t \in Tasks |-> "idle"]
    /\ reason = [t \in Tasks |-> NoReason]
    /\ report = [t \in Tasks |-> NoReport]
    /\ post = [t \in Tasks |-> "none"]
    /\ delivered = << >>
    /\ acked = << >>
    /\ faults = 0

-----------------------------------------------------------------------------
(* The event loop's steps *)

\* mark_in_call: not under the lock, so also while a report is being posted.
MarkInCall ==
    /\ callStatus' = IF finished THEN callStatus ELSE "IN_CALL"
    /\ UNCHANGED <<finished, holder, waiters, phase, reason, report, post,
                   delivered, acked, faults>>

EndPost(t) ==
    /\ report' = [report EXCEPT ![t] = NoReport]
    /\ post' = [post EXCEPT ![t] = "none"]

\* Mutant of CallResult: a call that failed is reported as never connected.
CallResultOfFailure(r) ==
    [status  |-> IF Outcome(r) = "FAILED" THEN "CONNECTING" ELSE callStatus,
     outcome |-> Outcome(r)]

CallResult(r) == [status |-> callStatus, outcome |-> Outcome(r)]

\* The body of the "async with" up to its await: an earlier report is final,
\* or the status of this moment is reported.
AlreadyFinished(t) ==
    /\ finished
    /\ phase' = [phase EXCEPT ![t] = "returned"]
    /\ UNCHANGED holder
    /\ EndPost(t)

StartPost(t, r) ==
    /\ ~finished
    /\ phase' = [phase EXCEPT ![t] = "sending"]
    /\ holder' = t
    /\ report' = [report EXCEPT ![t] = CallResult(r)]
    /\ post' = [post EXCEPT ![t] = "running"]

\* Mutant of Enter: the "if self._finished" is gone.
EnterAgain(t, r) ==
    /\ phase' = [phase EXCEPT ![t] = "sending"]
    /\ holder' = t
    /\ report' = [report EXCEPT ![t] = CallResult(r)]
    /\ post' = [post EXCEPT ![t] = "running"]

Enter(t, r) == AlreadyFinished(t) \/ StartPost(t, r)

\* asyncio.Lock.acquire suspends the caller while somebody holds or awaits the lock.
Enqueue(t, r) ==
    /\ phase' = [phase EXCEPT ![t] = "waiting"]
    /\ reason' = [reason EXCEPT ![t] = r]
    /\ waiters' = Append(waiters, t)

InFinish(t) == phase[t] \in {"waiting", "sending"}

\* Mutant of Finish: no lock around the check and the post.
FinishUnlocked(t, r) ==
    /\ ~InFinish(t)
    /\ Enter(t, r)
    /\ UNCHANGED <<callStatus, finished, waiters, reason, delivered, acked, faults>>

Finish(t, r) ==
    /\ ~InFinish(t)
    /\ \/ /\ holder = NoTask /\ waiters = << >>
          /\ Enter(t, r)
          /\ UNCHANGED <<waiters, reason>>
       \/ /\ holder # NoTask \/ waiters # << >>
          /\ Enqueue(t, r)
          /\ UNCHANGED <<holder, report, post>>
    /\ UNCHANGED <<callStatus, finished, delivered, acked, faults>>

\* The released lock goes to the task that has waited longest.
Resume(t) ==
    /\ holder = NoTask
    /\ waiters # << >> /\ Head(waiters) = t
    /\ phase[t] = "waiting"
    /\ waiters' = Tail(waiters)
    /\ Enter(t, reason[t])
    /\ reason' = [reason EXCEPT ![t] = NoReason]
    /\ UNCHANGED <<callStatus, finished, delivered, acked, faults>>

\* Mutant of Complete: the flag is not set once the post is answered.
CompleteUnfinished(t) ==
    /\ phase[t] = "sending" /\ post[t] = "answered"
    /\ holder' = NoTask
    /\ phase' = [phase EXCEPT ![t] = "returned"]
    /\ acked' = Append(acked, report[t])
    /\ EndPost(t)
    /\ UNCHANGED <<callStatus, finished, waiters, reason, delivered, faults>>

\* The post was answered: the call is finished and the caller has its result.
Complete(t) ==
    /\ phase[t] = "sending" /\ post[t] = "answered"
    /\ finished' = TRUE
    /\ holder' = NoTask
    /\ phase' = [phase EXCEPT ![t] = "returned"]
    /\ acked' = Append(acked, report[t])
    /\ EndPost(t)
    /\ UNCHANGED <<callStatus, waiters, reason, delivered, faults>>

\* Mutant of Fail: lock.release() is not in a finally.
FailLocked(t) ==
    /\ phase[t] = "sending" /\ post[t] = "error"
    /\ phase' = [phase EXCEPT ![t] = "raised"]
    /\ EndPost(t)
    /\ UNCHANGED <<callStatus, finished, holder, waiters, reason, delivered, acked, faults>>

\* The post raised: the lock is released, the call stays unfinished, and the
\* exception leaves finish.
Fail(t) ==
    /\ phase[t] = "sending" /\ post[t] = "error"
    /\ holder' = NoTask
    /\ phase' = [phase EXCEPT ![t] = "raised"]
    /\ EndPost(t)
    /\ UNCHANGED <<callStatus, finished, waiters, reason, delivered, acked, faults>>

\* The post raised in a caller whose exception handler calls finish again
\* before it awaits anything else, as AudioRuntimeBridge.run does: it takes the
\* lock it just released, or queues behind the tasks that wait for it.
Refinish(t, r) ==
    /\ phase[t] = "sending" /\ post[t] = "error"
    /\ \/ waiters = << >> /\ Enter(t, r) /\ UNCHANGED <<waiters, reason>>
       \/ /\ waiters # << >>
          /\ Enqueue(t, r)
          /\ holder' = NoTask
          /\ EndPost(t)
    /\ UNCHANGED <<callStatus, finished, delivered, acked, faults>>

\* Mutant of CancelWait: the cancelled waiter's entry stays in the queue.
CancelWaitStale(t) ==
    /\ phase[t] = "waiting"
    /\ phase' = [phase EXCEPT ![t] = "cancelled"]
    /\ reason' = [reason EXCEPT ![t] = NoReason]
    /\ UNCHANGED <<callStatus, finished, holder, waiters, report, post, delivered, acked, faults>>

\* Mutant of CancelWait: a cancelled waiter releases the lock it does not hold.
CancelWaitReleases(t) ==
    /\ phase[t] = "waiting"
    /\ \E i \in DOMAIN waiters : waiters[i] = t /\ waiters' = RemoveAt(waiters, i)
    /\ holder' = NoTask
    /\ phase' = [phase EXCEPT ![t] = "cancelled"]
    /\ reason' = [reason EXCEPT ![t] = NoReason]
    /\ UNCHANGED <<callStatus, finished, report, post, delivered, acked, faults>>

\* task.cancel() reaches a task that awaits the lock.
CancelWait(t) ==
    /\ phase[t] = "waiting"
    /\ \E i \in DOMAIN waiters : waiters[i] = t /\ waiters' = RemoveAt(waiters, i)
    /\ phase' = [phase EXCEPT ![t] = "cancelled"]
    /\ reason' = [reason EXCEPT ![t] = NoReason]
    /\ UNCHANGED <<callStatus, finished, holder, report, post, delivered, acked, faults>>

-----------------------------------------------------------------------------
(* The worker thread and the backend *)

\* The backend has the report and its answer arrives.
Deliver(t) ==
    /\ post[t] = "running"
    /\ delivered' = Append(delivered, report[t])
    /\ post' = [post EXCEPT ![t] = "answered"]
    /\ UNCHANGED <<callStatus, finished, holder, waiters, phase, reason, report, acked, faults>>

\* The backend has the report, and the answer is lost or is an error.
DeliverUnanswered(t) ==
    /\ post[t] = "running" /\ faults < MaxFaults
    /\ delivered' = Append(delivered, report[t])
    /\ post' = [post EXCEPT ![t] = "error"]
    /\ faults' = faults + 1
    /\ UNCHANGED <<callStatus, finished, holder, waiters, phase, reason, report, acked>>

\* The report never reaches the backend.
Lose(t) ==
    /\ post[t] = "running" /\ faults < MaxFaults
    /\ post' = [post EXCEPT ![t] = "error"]
    /\ faults' = faults + 1
    /\ UNCHANGED <<callStatus, finished, holder, waiters, phase, reason, report,
                   delivered, acked>>

PostEnds(t) == Deliver(t) \/ DeliverUnanswered(t) \/ Lose(t)

AfterPost(t) == Complete(t) \/ Fail(t) \/ \E r \in CallReasons : Refinish(t, r)

Next ==
    \/ MarkInCall
    \/ \E t \in Tasks :
          \/ \E r \in CallReasons : Finish(t, r)
          \/ Resume(t) \/ AfterPost(t) \/ CancelWait(t) \/ PostEnds(t)

\* The event loop runs every task that is ready, and a post ends: the HTTP
\* client has a timeout.  Nobody is obliged to call finish or to cancel.
Fairness ==
    \A t \in Tasks : WF_vars(Resume(t)) /\ WF_vars(AfterPost(t)) /\ WF_vars(PostEnds(t))

Spec == Init /\ [][Next]_vars /\ Fairness

-----------------------------------------------------------------------------
(* Properties *)

TypeOK ==
    /\ callStatus \in Statuses
    /\ finished \in BOOLEAN
    /\ holder \in Tasks \cup {NoTask}
    /\ waiters \in Seq(Tasks)
    /\ phase \in [Tasks -> Phases]
    /\ reason \in [Tasks -> Reasons \cup {NoReason}]
    /\ report \in [Tasks -> Reports \cup {NoReport}]
    /\ post \in [Tasks -> Posts]
    /\ delivered \in Seq(Reports)
    /\ acked \in Seq(Reports)
    /\ faults \in Nat

\* "async with self._lock" around an await: no two tasks post at once, also
\* when tasks time out, fail, call again or are cancelled while they queue.
OneSendAtATime ==
    \A t, u \in Tasks : phase[t] = "sending" /\ phase[u] = "sending" => t = u

\* However many tasks end the call and however often a post fails, at most one
\* finish returns a result, and it is the report the backend received last:
\* the caller and the backend never disagree about how the call ended.
AckedIsFinal ==
    /\ Len(acked) <= 1
    /\ acked # << >> => delivered # << >> /\ Last(delivered) = Last(acked)

\* The lock's queue is exactly the tasks suspended on it, each once: a
\* cancelled waiter leaves no stale entry and nobody is forgotten.
QueueIsWaiting ==
    /\ \A t \in Tasks : phase[t] = "waiting" <=> \E i \in DOMAIN waiters : waiters[i] = t
    /\ \A i, j \in DOMAIN waiters : waiters[i] = waiters[j] => i = j

\* The backend may receive several reports of a call (see DeliveredAtMostOnce),
\* but a later one never takes back that the call was connected.
StatusNeverRegresses ==
    \A i, j \in DOMAIN delivered :
        i < j /\ delivered[i].status = "IN_CALL" => delivered[j].status = "IN_CALL"

\* Once a caller was told that the call is reported, the backend receives
\* nothing more about it.
FinishedIsSilent == [][finished => UNCHANGED <<delivered, acked, finished>>]_vars

\* A task that calls finish gets out of it, unless posts can fail for ever.
FinishReturns == \A t \in Tasks : InFinish(t) ~> ~InFinish(t)

\* lifecycle.py:24 "report it at most once" and results.py:24, read as what
\* the backend sees.
DeliveredAtMostOnce == Len(delivered) <= 1

Abstract == INSTANCE ResultReport WITH
    attempt  <- IF holder = NoTask THEN NoReport ELSE report[holder],
    accepted <- acked

\* The lifecycle implements the abstract report.
ImplementsReport == Abstract!Spec

=============================================================================
