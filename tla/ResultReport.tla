---------------------------- MODULE ResultReport ----------------------------
(***************************************************************************)
(* What the rest of the service may rely on about the final result of one  *)
(* call: reports are attempted one after the other, an attempt ends by     *)
(* being accepted or by being given up (for nothing, or for a fresh        *)
(* attempt), and the first accepted report is final.                       *)
(*                                                                         *)
(* It is the promise of session/results.py and session/lifecycle.py, and   *)
(* CallLifecycle and CallSession are checked to implement it.              *)
(***************************************************************************)
EXTENDS Sequences

CONSTANTS
    Reports,    \* the results a call may end with
    NoReport    \* no attempt is under way; not itself a result

VARIABLES
    attempt,    \* the report being sent, or NoReport
    accepted    \* the accepted reports, oldest first

vars == <<attempt, accepted>>

Init == attempt = NoReport /\ accepted = << >>

Start ==
    /\ attempt = NoReport
    /\ accepted = << >>
    /\ attempt' \in Reports
    /\ UNCHANGED accepted

Accept ==
    /\ attempt # NoReport
    /\ accepted' = Append(accepted, attempt)
    /\ attempt' = NoReport

GiveUp ==
    /\ attempt # NoReport
    /\ attempt' \in Reports \cup {NoReport}
    /\ UNCHANGED accepted

Next == Start \/ Accept \/ GiveUp

\* An attempt does not hang: it is accepted or given up.
Spec == Init /\ [][Next]_vars /\ WF_vars(Accept \/ GiveUp)

=============================================================================
