--------------------------- MODULE MCCallLifecycle ---------------------------
(* CallLifecycle for TLC: the three tasks of a call that call finish. *)
EXTENDS CallLifecycle, TLC

CONSTANTS ws, runtime, limit

MCTasks == {ws, runtime, limit}

\* One reason of each outcome.
MCReasons == {"USER_HANGUP", "TIME_LIMIT"}

=============================================================================
