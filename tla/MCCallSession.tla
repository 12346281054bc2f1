--------------------------- MODULE MCCallSession ---------------------------
(* CallSession for TLC: one call, whose three tasks are fixed. *)
EXTENDS CallSession

NoFailures     == {}
SenderFailures == {"sender"}
AllFailures    == {"connect", "configure", "stream", "audio", "sender", "close"}

=============================================================================
