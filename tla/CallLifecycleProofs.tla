------------------------- MODULE CallLifecycleProofs -------------------------
(***************************************************************************)
(* Theorems about CallLifecycle, for any set of tasks and any number of    *)
(* failed posts.                                                           *)
(*                                                                         *)
(* Neither mutual exclusion nor the finality of an acknowledged report is  *)
(* inductive: both need that the lock, the tasks' phases and the worker    *)
(* threads agree (SendingInv), and that a post known to be answered is the *)
(* last thing the backend received (AckedInv).                             *)
(***************************************************************************)
EXTENDS CallLifecycle, TLAPS

\* A task is posting exactly when it holds the lock and has a worker thread,
\* and then it has built a report.
SendingInv ==
    \A t \in Tasks :
        /\ phase[t] = "sending" <=> holder = t
        /\ phase[t] = "sending" <=> post[t] # "none"
        /\ phase[t] = "sending" => report[t] \in Reports

\* An answered post is the last delivery; the call is finished by exactly one
\* such post, and nobody posts afterwards.
AckedInv ==
    /\ \A t \in Tasks :
          post[t] = "answered" => delivered # << >> /\ Last(delivered) = report[t]
    /\ finished => /\ holder = NoTask
                   /\ Len(acked) = 1
                   /\ delivered # << >> /\ Last(delivered) = Last(acked)
    /\ ~finished => acked = << >>

IInv == TypeOK /\ SendingInv /\ AckedInv

-----------------------------------------------------------------------------
(* Lemmas about the operators *)

\* Removing an entry of a sequence leaves a sequence over the same set.
LEMMA RemoveAtType ==
    ASSUME NEW S, NEW s \in Seq(S), NEW i \in DOMAIN s
    PROVE  RemoveAt(s, i) \in Seq(S)
  BY DEF RemoveAt

\* An appended element is the last one.
LEMMA AppendLast ==
    ASSUME NEW S, NEW s \in Seq(S), NEW e \in S
    PROVE  /\ Append(s, e) \in Seq(S)
           /\ Append(s, e) # << >>
           /\ Last(Append(s, e)) = e
           /\ Len(Append(s, e)) = Len(s) + 1
  BY DEF Last

\* What finish builds is a report.
LEMMA CallResultType == TypeOK => \A r : CallResult(r) \in Reports
  BY DEF TypeOK, CallResult, Outcome, Outcomes, Reports

-----------------------------------------------------------------------------
(* The initial state *)

\* A call that was just created satisfies the invariant.
LEMMA InitIInv == Init => IInv
<1> SUFFICES ASSUME Init PROVE IInv
  OBVIOUS
<1>1. callStatus \in Statuses /\ finished \in BOOLEAN /\ holder \in Tasks \cup {NoTask}
  BY DEF Init, Statuses
<1>2. /\ waiters \in Seq(Tasks) /\ delivered \in Seq(Reports) /\ acked \in Seq(Reports)
      /\ faults \in Nat
  BY DEF Init
<1>3. /\ phase \in [Tasks -> Phases] /\ reason \in [Tasks -> Reasons \cup {NoReason}]
      /\ report \in [Tasks -> Reports \cup {NoReport}] /\ post \in [Tasks -> Posts]
  BY DEF Init, Phases, Posts
<1>4. SendingInv
  BY NoTaskAssumption DEF Init, SendingInv
<1>5. AckedInv
  BY DEF Init, AckedInv
<1>6. QED
  BY <1>1, <1>2, <1>3, <1>4, <1>5 DEF IInv, TypeOK

-----------------------------------------------------------------------------
(* The locked part, common to Finish, Resume and Refinish *)

\* Entering the locked part, or going on in it, keeps the invariant.
LEMMA EnterIInv ==
    ASSUME IInv, NEW t \in Tasks, NEW r,
           holder = NoTask \/ holder = t,
           Enter(t, r),
           waiters' \in Seq(Tasks),
           reason' \in [Tasks -> Reasons \cup {NoReason}],
           UNCHANGED <<callStatus, finished, delivered, acked, faults>>
    PROVE  IInv'
<1>1. CASE StartPost(t, r)
  <2>1. TypeOK'
    BY <1>1, CallResultType DEF IInv, TypeOK, StartPost, Phases, Posts
  <2>2. SendingInv'
    BY <1>1, NoTaskAssumption, CallResultType DEF IInv, TypeOK, SendingInv, StartPost
  <2>3. AckedInv'
    BY <1>1 DEF IInv, TypeOK, AckedInv, StartPost
  <2>4. QED
    BY <2>1, <2>2, <2>3 DEF IInv
<1>2. CASE AlreadyFinished(t)
  <2>0. holder = NoTask
    BY <1>2 DEF AlreadyFinished, IInv, AckedInv
  <2>1. TypeOK'
    BY <1>2 DEF IInv, TypeOK, AlreadyFinished, EndPost, Phases, Posts
  <2>2. SendingInv'
    BY <1>2, <2>0, NoTaskAssumption DEF IInv, TypeOK, SendingInv, AlreadyFinished, EndPost
  <2>3. AckedInv'
    BY <1>2 DEF IInv, TypeOK, AckedInv, AlreadyFinished, EndPost
  <2>4. QED
    BY <2>1, <2>2, <2>3 DEF IInv
<1>3. QED
  BY <1>1, <1>2 DEF Enter

\* Leaving the locked part for the queue, from outside or after a failed post.
LEMMA EnqueueIInv ==
    ASSUME IInv, NEW t \in Tasks, NEW r \in CallReasons,
           Enqueue(t, r),
           UNCHANGED <<callStatus, finished, delivered, acked, faults>>,
           \/ phase[t] # "sending" /\ UNCHANGED <<holder, report, post>>
           \/ phase[t] = "sending" /\ holder' = NoTask /\ EndPost(t)
    PROVE  IInv'
<1>1. CASE phase[t] # "sending" /\ UNCHANGED <<holder, report, post>>
  <2>1. TypeOK'
    BY <1>1, ReasonsAssumption DEF IInv, TypeOK, Enqueue, Phases
  <2>2. SendingInv'
    BY <1>1 DEF IInv, TypeOK, SendingInv, Enqueue
  <2>3. AckedInv'
    BY <1>1 DEF IInv, AckedInv, Enqueue
  <2>4. QED
    BY <2>1, <2>2, <2>3 DEF IInv
<1>2. CASE phase[t] = "sending" /\ holder' = NoTask /\ EndPost(t)
  <2>1. TypeOK'
    BY <1>2, ReasonsAssumption DEF IInv, TypeOK, Enqueue, EndPost, Phases, Posts
  <2>2. SendingInv'
    BY <1>2, NoTaskAssumption DEF IInv, TypeOK, SendingInv, Enqueue, EndPost
  <2>3. AckedInv'
    BY <1>2 DEF IInv, TypeOK, AckedInv, Enqueue, EndPost
  <2>4. QED
    BY <2>1, <2>2, <2>3 DEF IInv
<1>3. QED
  BY <1>1, <1>2

-----------------------------------------------------------------------------
(* Every step *)

\* An answered post: its report is the last the backend has, and becomes the result.
LEMMA CompleteIInv ==
    ASSUME IInv, NEW t \in Tasks, Complete(t)
    PROVE  IInv'
<1>1. /\ phase[t] = "sending" /\ holder = t /\ report[t] \in Reports
      /\ ~finished /\ acked = << >>
      /\ delivered # << >> /\ Last(delivered) = report[t]
  BY NoTaskAssumption DEF Complete, IInv, SendingInv, AckedInv
<1>2. acked' \in Seq(Reports) /\ Len(acked') = 1 /\ Last(acked') = report[t]
  <2>1. acked \in Seq(Reports) /\ Len(acked) = 0
    BY <1>1 DEF IInv, TypeOK
  <2>2. acked' = Append(acked, report[t])
    BY DEF Complete
  <2>3. /\ Append(acked, report[t]) \in Seq(Reports)
        /\ Last(Append(acked, report[t])) = report[t]
        /\ Len(Append(acked, report[t])) = Len(acked) + 1
    BY <1>1, <2>1, AppendLast
  <2>4. QED
    BY <2>1, <2>2, <2>3
<1>3. TypeOK'
  BY <1>2 DEF Complete, IInv, TypeOK, EndPost, Phases, Posts
<1>4. SendingInv'
  BY <1>1, NoTaskAssumption DEF Complete, IInv, TypeOK, SendingInv, EndPost
<1>5. \A u \in Tasks : post'[u] = "answered" => post[u] = "answered" /\ report'[u] = report[u]
  BY DEF Complete, EndPost, IInv, TypeOK
<1>6. AckedInv'
  BY <1>1, <1>2, <1>5 DEF Complete, IInv, AckedInv
<1>7. QED
  BY <1>3, <1>4, <1>6 DEF IInv

\* A failed post leaves nothing of itself behind but the deliveries.
LEMMA FailIInv ==
    ASSUME IInv, NEW t \in Tasks, Fail(t)
    PROVE  IInv'
<1>1. TypeOK'
  BY DEF Fail, IInv, TypeOK, EndPost, Phases, Posts
<1>2. SendingInv'
  BY NoTaskAssumption DEF Fail, IInv, TypeOK, SendingInv, EndPost
<1>3. AckedInv'
  BY DEF Fail, IInv, TypeOK, AckedInv, EndPost
<1>4. QED
  BY <1>1, <1>2, <1>3 DEF IInv

\* A cancelled waiter leaves the queue and touches nothing else.
LEMMA CancelWaitIInv ==
    ASSUME IInv, NEW t \in Tasks, CancelWait(t)
    PROVE  IInv'
<1>1. TypeOK'
  BY RemoveAtType DEF CancelWait, IInv, TypeOK, Phases
<1>2. SendingInv'
  BY DEF CancelWait, IInv, TypeOK, SendingInv
<1>3. AckedInv'
  BY DEF CancelWait, IInv, AckedInv
<1>4. QED
  BY <1>1, <1>2, <1>3 DEF IInv

\* The worker thread's end: the task that owns it holds the lock, so no other
\* post is running or answered.
LEMMA PostEndsIInv ==
    ASSUME IInv, NEW t \in Tasks, PostEnds(t)
    PROVE  IInv'
<1>1. /\ post[t] = "running" /\ phase[t] = "sending" /\ holder = t
      /\ report[t] \in Reports /\ ~finished
  BY NoTaskAssumption
     DEF PostEnds, Deliver, DeliverUnanswered, Lose, IInv, SendingInv, AckedInv
<1>2. \A u \in Tasks : post[u] # "none" => u = t
  BY <1>1 DEF IInv, SendingInv
<1>3. \/ post'[t] = "answered" /\ delivered' = Append(delivered, report[t])
      \/ /\ post'[t] = "error"
         /\ delivered' = delivered \/ delivered' = Append(delivered, report[t])
  BY DEF PostEnds, Deliver, DeliverUnanswered, Lose, IInv, TypeOK
<1>4. /\ post' \in [Tasks -> Posts] /\ faults' \in Nat
      /\ \A u \in Tasks : u # t => post'[u] = post[u]
      /\ UNCHANGED <<callStatus, finished, holder, waiters, phase, reason, report, acked>>
  <2>1. /\ post' \in [Tasks -> Posts]
        /\ \A u \in Tasks : u # t => post'[u] = post[u]
    BY DEF PostEnds, Deliver, DeliverUnanswered, Lose, IInv, TypeOK, Posts
  <2>2. /\ faults' \in Nat
        /\ UNCHANGED <<callStatus, finished, holder, waiters, phase, reason, report, acked>>
    BY DEF PostEnds, Deliver, DeliverUnanswered, Lose, IInv, TypeOK
  <2>3. QED
    BY <2>1, <2>2
<1>5. delivered \in Seq(Reports)
  BY DEF IInv, TypeOK
<1>6. /\ delivered' \in Seq(Reports)
      /\ post'[t] = "answered" => delivered' # << >> /\ Last(delivered') = report[t]
  <2>1. /\ Append(delivered, report[t]) \in Seq(Reports)
        /\ Append(delivered, report[t]) # << >>
        /\ Last(Append(delivered, report[t])) = report[t]
    BY <1>1, <1>5, AppendLast
  <2>2. QED
    BY <1>3, <1>5, <2>1
<1>7. TypeOK'
  BY <1>4, <1>6 DEF IInv, TypeOK
<1>8. SendingInv'
  BY <1>1, <1>3, <1>4 DEF IInv, SendingInv
<1>9. AckedInv'
  BY <1>1, <1>2, <1>4, <1>6 DEF IInv, AckedInv
<1>10. QED
  BY <1>7, <1>8, <1>9 DEF IInv

\* Every step of the lifecycle, and every step that leaves it alone, keeps the invariant.
LEMMA NextIInv == IInv /\ [Next]_vars => IInv'
<1> SUFFICES ASSUME IInv, [Next]_vars PROVE IInv'
  OBVIOUS
<1>1. CASE MarkInCall
  <2>1. TypeOK'
    BY <1>1 DEF MarkInCall, IInv, TypeOK, Statuses
  <2>2. SendingInv' /\ AckedInv'
    BY <1>1 DEF MarkInCall, IInv, SendingInv, AckedInv
  <2>3. QED
    BY <2>1, <2>2 DEF IInv
<1>2. ASSUME NEW t \in Tasks, NEW r \in CallReasons, Finish(t, r)
      PROVE  IInv'
  <2>1. CASE holder = NoTask /\ Enter(t, r) /\ UNCHANGED <<waiters, reason>>
    BY <1>2, <2>1, EnterIInv DEF Finish, IInv, TypeOK
  <2>2. CASE Enqueue(t, r) /\ UNCHANGED <<holder, report, post>>
    BY <1>2, <2>2, EnqueueIInv DEF Finish, InFinish
  <2>3. QED
    BY <1>2, <2>1, <2>2 DEF Finish
<1>3. ASSUME NEW t \in Tasks, Resume(t)
      PROVE  IInv'
  <2>1. waiters' \in Seq(Tasks)
    BY <1>3 DEF Resume, IInv, TypeOK
  <2>2. reason' \in [Tasks -> Reasons \cup {NoReason}]
    BY <1>3 DEF Resume, IInv, TypeOK
  <2>3. QED
    BY <1>3, <2>1, <2>2, EnterIInv DEF Resume
<1>4. ASSUME NEW t \in Tasks, NEW r \in CallReasons, Refinish(t, r)
      PROVE  IInv'
  <2>1. holder = t
    BY <1>4 DEF Refinish, IInv, SendingInv
  <2>2. CASE Enter(t, r) /\ UNCHANGED <<waiters, reason>>
    BY <1>4, <2>1, <2>2, EnterIInv DEF Refinish, IInv, TypeOK
  <2>3. CASE Enqueue(t, r) /\ holder' = NoTask /\ EndPost(t)
    BY <1>4, <2>3, EnqueueIInv DEF Refinish
  <2>4. QED
    BY <1>4, <2>2, <2>3 DEF Refinish
<1>5. ASSUME NEW t \in Tasks, Complete(t) \/ Fail(t) \/ CancelWait(t) \/ PostEnds(t)
      PROVE  IInv'
  BY <1>5, CompleteIInv, FailIInv, CancelWaitIInv, PostEndsIInv
<1>6. CASE UNCHANGED vars
  <2>1. TypeOK'
    BY <1>6 DEF vars, IInv, TypeOK
  <2>2. SendingInv' /\ AckedInv'
    BY <1>6 DEF vars, IInv, SendingInv, AckedInv
  <2>3. QED
    BY <2>1, <2>2 DEF IInv
<1>7. QED
  BY <1>1, <1>2, <1>3, <1>4, <1>5, <1>6 DEF Next, AfterPost

-----------------------------------------------------------------------------
(* The theorems *)

\* The strengthened invariant holds in every reachable state.
THEOREM Invariance == Spec => []IInv
  BY InitIInv, NextIInv, PTL DEF Spec

\* Every variable keeps its type.
THEOREM TypeCorrect == Spec => []TypeOK
<1>1. IInv => TypeOK
  BY DEF IInv
<1>2. QED
  BY <1>1, Invariance, PTL

\* Whatever the tasks of a call do, at most one of them posts a report.
THEOREM MutualExclusion == Spec => []OneSendAtATime
<1>1. IInv => OneSendAtATime
  BY DEF IInv, SendingInv, OneSendAtATime
<1>2. QED
  BY <1>1, Invariance, PTL

\* An acknowledged report is the only one, and the last the backend received.
LEMMA AckedFromInv == IInv => AckedIsFinal
<1>1. ASSUME IInv, finished PROVE AckedIsFinal
  <2>1. Len(acked) = 1 /\ delivered # << >> /\ Last(delivered) = Last(acked)
    BY <1>1 DEF IInv, AckedInv
  <2>2. QED
    BY <2>1 DEF AckedIsFinal
<1>2. ASSUME IInv, ~finished PROVE AckedIsFinal
  <2>1. acked = << >> /\ Len(acked) = 0
    BY <1>2 DEF IInv, AckedInv
  <2>2. QED
    BY <2>1 DEF AckedIsFinal
<1>3. QED
  BY <1>1, <1>2

\* At most one finish returns a result, and it is the backend's last report.
THEOREM AckedReportIsFinal == Spec => []AckedIsFinal
BY AckedFromInv, Invariance, PTL

\* A step of a finished call posts nothing and returns no other report.
LEMMA SilentStep ==
    IInv /\ [Next]_vars => [finished => UNCHANGED <<delivered, acked, finished>>]_vars
<1> SUFFICES ASSUME IInv, Next, finished
             PROVE  UNCHANGED <<delivered, acked, finished>>
  BY DEF vars
<1>1. \A t \in Tasks : phase[t] # "sending" /\ post[t] = "none"
  BY NoTaskAssumption DEF IInv, SendingInv, AckedInv
<1>2. QED
  BY <1>1 DEF Next, MarkInCall, Finish, Resume, AfterPost, Complete, Fail, Refinish,
              CancelWait, PostEnds, Deliver, DeliverUnanswered, Lose

\* After an acknowledged report the backend receives nothing more.
THEOREM Silence == Spec => FinishedIsSilent
BY SilentStep, Invariance, PTL DEF Spec, FinishedIsSilent

-----------------------------------------------------------------------------
(* The lifecycle implements ResultReport *)

attemptBar == IF holder = NoTask THEN NoReport ELSE report[holder]

\* What each step of the lifecycle does to the attempt and the accepted reports.
LEMMA StepSimulation ==
    ASSUME IInv, [Next]_vars
    PROVE  [Abstract!Next]_Abstract!vars
<1> USE DEF attemptBar
<1> SUFFICES \/ Abstract!Next
             \/ attemptBar' = attemptBar /\ acked' = acked
  BY DEF Abstract!vars
<1>1. CASE holder = NoTask /\ holder' = NoTask /\ acked' = acked
  BY <1>1
<1>2. CASE UNCHANGED <<holder, report, acked>>
  BY <1>2
<1>3. ASSUME NEW t \in Tasks, NEW r, StartPost(t, r), UNCHANGED acked
      PROVE  \/ Abstract!Next
             \/ attemptBar' = attemptBar /\ acked' = acked
  <2>1. attemptBar' \in Reports /\ acked = << >>
    BY <1>3, CallResultType, NoTaskAssumption DEF StartPost, IInv, TypeOK, AckedInv
  <2>2. CASE holder = NoTask
    BY <1>3, <2>1, <2>2 DEF Abstract!Next, Abstract!Start
  <2>3. CASE holder # NoTask
    <3>1. attemptBar # NoReport
      BY <2>3 DEF IInv, TypeOK, SendingInv, NoReport, Reports, Statuses
    <3>2. QED
      BY <1>3, <2>1, <3>1 DEF Abstract!Next, Abstract!GiveUp
  <2>4. QED
    BY <2>2, <2>3
<1>4. ASSUME NEW t \in Tasks, phase[t] = "sending", holder' = NoTask,
             acked' = acked \/ acked' = Append(acked, report[t])
      PROVE  Abstract!Next
  <2>1. holder = t /\ holder # NoTask /\ report[t] \in Reports
    BY <1>4, NoTaskAssumption DEF IInv, SendingInv
  <2>2. attemptBar = report[t] /\ attemptBar # NoReport /\ attemptBar' = NoReport
    BY <1>4, <2>1 DEF NoReport, Reports, Statuses
  <2>3. QED
    BY <1>4, <2>2 DEF Abstract!Next, Abstract!Accept, Abstract!GiveUp
<1>5. CASE MarkInCall \/ UNCHANGED vars
  BY <1>2, <1>5 DEF MarkInCall, vars
<1>6. ASSUME NEW t \in Tasks, NEW r \in CallReasons, Finish(t, r)
      PROVE  \/ Abstract!Next
             \/ attemptBar' = attemptBar /\ acked' = acked
  BY <1>1, <1>2, <1>3, <1>6 DEF Finish, Enter, AlreadyFinished
<1>7. ASSUME NEW t \in Tasks, Resume(t)
      PROVE  \/ Abstract!Next
             \/ attemptBar' = attemptBar /\ acked' = acked
  BY <1>1, <1>3, <1>7 DEF Resume, Enter, AlreadyFinished
<1>8. ASSUME NEW t \in Tasks, NEW r \in CallReasons, Refinish(t, r)
      PROVE  \/ Abstract!Next
             \/ attemptBar' = attemptBar /\ acked' = acked
  <2>1. ~finished
    BY <1>8, NoTaskAssumption DEF Refinish, IInv, SendingInv, AckedInv
  <2>2. QED
    BY <1>3, <1>4, <1>8, <2>1 DEF Refinish, Enter, AlreadyFinished
<1>9. ASSUME NEW t \in Tasks, Complete(t) \/ Fail(t)
      PROVE  Abstract!Next
  BY <1>4, <1>9 DEF Complete, Fail
<1>10. ASSUME NEW t \in Tasks, CancelWait(t) \/ PostEnds(t)
       PROVE  UNCHANGED <<holder, report, acked>>
  BY <1>10 DEF CancelWait, PostEnds, Deliver, DeliverUnanswered, Lose
<1>11. QED
  BY <1>2, <1>5, <1>6, <1>7, <1>8, <1>9, <1>10 DEF Next, AfterPost

\* Every behaviour of the lifecycle is one of the abstract report: attempts one
\* at a time, at most one accepted, nothing after it.  (That an attempt ends is
\* liveness and is left to TLC, property ImplementsReport.)
THEOREM Refinement == Spec => Abstract!Init /\ [][Abstract!Next]_Abstract!vars
<1>1. Init => Abstract!Init
  BY DEF Init, Abstract!Init
<1>2. IInv /\ [Next]_vars => [Abstract!Next]_Abstract!vars
  BY StepSimulation
<1>3. QED
  BY <1>1, <1>2, Invariance, PTL DEF Spec

=============================================================================
