----------------------- MODULE RealtimeRuntimeProofs -----------------------
(***************************************************************************)
(* Theorems about a realtime run, for any set of failures of the provider. *)
(*                                                                         *)
(* What makes the invariant inductive is where the generator may be for    *)
(* each state of the connection and the sender (StageInv), and where a     *)
(* cancellation that has not yet had its effect is on its way (CancelInv). *)
(***************************************************************************)
EXTENDS RealtimeRuntime, TLAPS

Done == {"returned", "raised", "cancelled"}

\* What each await of the generator says about the connection and the sender.
StageInv ==
    /\ gen \in {"new", "connecting"} => connection = "none"
    /\ gen \in {"configuring", "listening", "abandoned", "joining", "draining"} =>
           connection = "open"
    /\ gen = "closing" => connection = "closing"
    /\ gen \in {"new", "connecting", "configuring"} => sender = "none"
    /\ gen \in {"listening", "abandoned"} => sender \in {"running", "returned", "raised"}
    /\ gen = "joining" => sender # "none" /\ outcome = "completed"
    /\ gen = "draining" => /\ sender \in Done \cup {"cancelling"}
                          /\ outcome \in {"raised", "cancelled", "abandoned"}
    /\ gen \in {"closing", "ended"} => ~SenderLive
    /\ gen = "ended" /\ connection = "open" =>
           sender \in {"none", "raised"} \/ (outcome = "completed" /\ exit = "cancelled")
    /\ gen \in {"new", "connecting", "configuring", "listening", "abandoned"} => outcome = "none"
    /\ gen # "ended" => exit = "none"

\* A cancellation of a run that would complete is pending, or is on its way
\* through the sender, or has ended the run.
CancelInv ==
    /\ gen \in {"new", "abandoned"} => ~cancelled
    /\ gen = "abandoned" \/ (gen \in {"joining", "draining"} /\ SenderLive) => ~cancelPending
    /\ cancelled /\ gen \in {"connecting", "configuring", "listening", "closing"} =>
           cancelPending \/ outcome \notin {"none", "completed"}
    /\ cancelled /\ gen = "joining" => cancelPending \/ sender \in {"cancelling", "cancelled"}
    /\ cancelled /\ gen = "ended" => exit # "completed"

RunInv == TypeOK /\ StageInv /\ CancelInv

-----------------------------------------------------------------------------
(* The run keeps its invariant *)

\* A run that was just created satisfies the invariant.
LEMMA InitRunInv == Init => RunInv
BY DEF Init, RunInv, TypeOK, StageInv, CancelInv, Gens, Outcomes, Senders, SenderLive, Done

\* Entering the finally block from the event loop, or from a yield at which the
\* generator was dropped.
LEMMA CleanupRunInv ==
    ASSUME RunInv,
           NEW how \in {"completed", "raised", "cancelled", "abandoned"},
           gen \in {"listening", "abandoned"},
           Cleanup(how),
           cancelled => how = "cancelled",
           cancelPending' = FALSE,
           UNCHANGED cancelled,
           inputClosed' \in BOOLEAN
    PROVE  RunInv'
<1> USE DEF RunInv, Cleanup, SenderDone, End, BeginClose, SenderLive
<1>1. TypeOK'
  BY DEF TypeOK, StageInv, Gens, Outcomes, Senders
<1>2. StageInv'
  BY DEF TypeOK, StageInv, Gens, Outcomes, Senders, Done
<1>3. CancelInv'
  BY DEF TypeOK, StageInv, CancelInv, Gens, Outcomes, Senders, Done
<1> QED BY <1>1, <1>2, <1>3

\* The driver's steps up to the event loop and out of it.
LEMMA DriverRunInv ==
    ASSUME RunInv, Start \/ DriverStep \/ Finalize, inputClosed' \in BOOLEAN
    PROVE  RunInv'
<1> USE DEF RunInv
<1>1. CASE Start \/ ConnectionOpens \/ ConnectFails \/ Configured \/ ConfigureFails \/ ErrorEvent
  <2> USE <1>1 DEF Start, ConnectionOpens, ConnectFails, Configured, ConfigureFails, ErrorEvent,
                   End, TypeOK, Gens, Outcomes, Senders
  <2>1. TypeOK'
    OBVIOUS
  <2>2. StageInv'
    BY DEF StageInv, SenderLive, Done
  <2>3. CancelInv'
    BY DEF StageInv, CancelInv
  <2> QED BY <2>1, <2>2, <2>3
<1>2. CASE StreamEnds \/ StreamRaises
  <2>1. gen = "listening" /\ ~cancelPending /\ ~cancelled
    BY <1>2 DEF StreamEnds, StreamRaises, StageInv, CancelInv
  <2> QED BY <1>2, <2>1, CleanupRunInv DEF StreamEnds, StreamRaises, TypeOK
<1>3. CASE Finalize
  BY <1>3, CleanupRunInv DEF Finalize, TypeOK, CancelInv
<1>4. CASE CancelArrives /\ gen = "listening"
  BY <1>4, CleanupRunInv DEF CancelArrives, TypeOK
<1>5. CASE CancelArrives /\ gen # "listening"
  <2> USE <1>5 DEF CancelArrives, End, BeginClose, TypeOK, Gens, Outcomes, Senders
  <2>1. TypeOK'
    OBVIOUS
  <2>2. StageInv'
    BY DEF StageInv, CancelInv, SenderLive, Done
  <2>3. CancelInv'
    BY DEF StageInv, CancelInv
  <2> QED BY <2>1, <2>2, <2>3
<1>6. CASE Joined
  <2> USE <1>6 DEF Joined, SenderDone, End, BeginClose, TypeOK, Gens, Outcomes, Senders, SenderLive
  <2>1. TypeOK'
    OBVIOUS
  <2>2. StageInv'
    BY DEF StageInv, Done
  <2>3. CancelInv'
    BY DEF StageInv, CancelInv
  <2> QED BY <2>1, <2>2, <2>3
<1>7. CASE CloseReturns \/ CloseRaises
  <2> USE <1>7 DEF CloseReturns, CloseRaises, End, TypeOK, Gens, Outcomes, Senders
  <2>1. TypeOK'
    OBVIOUS
  <2>2. StageInv'
    BY DEF StageInv, SenderLive, Done
  <2>3. CancelInv'
    BY DEF StageInv, CancelInv
  <2> QED BY <2>1, <2>2, <2>3
<1> QED BY <1>1, <1>2, <1>3, <1>4, <1>5, <1>6, <1>7 DEF DriverStep

\* The sender's own steps, and the cancellation that reaches it or the driver.
LEMMA SenderRunInv ==
    ASSUME RunInv,
           SenderStep \/ Cancel,
           inputClosed' \in BOOLEAN
    PROVE  RunInv'
<1> USE DEF RunInv, SenderStep, SenderReturns, SenderRaises, SenderCancelled, Cancel, Driving,
            TypeOK, Gens, Outcomes, Senders, SenderLive
<1>1. TypeOK'
  BY DEF StageInv
<1>2. StageInv'
  BY DEF StageInv, Done
<1>3. CancelInv'
  BY DEF StageInv, CancelInv
<1> QED BY <1>1, <1>2, <1>3

\* Every step of the run, and every step that leaves it alone.
LEMMA NextRunInv == RunInv /\ [Next]_vars => RunInv'
<1> SUFFICES ASSUME RunInv, [Next]_vars PROVE RunInv'
  OBVIOUS
<1>1. CASE (Start \/ DriverStep \/ Finalize) /\ inputClosed' \in BOOLEAN
  BY <1>1, DriverRunInv
<1>2. CASE (SenderStep \/ Cancel) /\ inputClosed' \in BOOLEAN
  BY <1>2, SenderRunInv
<1>3. CASE UNCHANGED runVars /\ inputClosed' \in BOOLEAN
  BY <1>3 DEF runVars, RunInv, TypeOK, StageInv, CancelInv, SenderLive
<1> QED BY <1>1, <1>2, <1>3 DEF Next, DriverLeaves, Environment, CloseInput, vars, RunInv, TypeOK

-----------------------------------------------------------------------------
(* The theorem *)

\* What the invariant says of the sender, of an open connection, and of a run
\* that was cancelled.
LEMMA RunFacts == RunInv => SenderInsideConnection /\ LeakIsExplained /\ CancelledNeverCompletes
<1>1. RunInv => SenderInsideConnection
  BY DEF RunInv, TypeOK, StageInv, SenderInsideConnection, SenderLive, Gens, Done
<1>2. RunInv => LeakIsExplained
  BY DEF RunInv, StageInv, LeakIsExplained
<1>3. RunInv => CancelledNeverCompletes
  BY DEF RunInv, CancelInv, CancelledNeverCompletes
<1> QED BY <1>1, <1>2, <1>3

\* Whatever the provider and the tasks that cancel the run do, the strengthened
\* invariant holds.
THEOREM RunInvariance == Spec => []RunInv
BY InitRunInv, NextRunInv, PTL DEF Spec

=============================================================================
