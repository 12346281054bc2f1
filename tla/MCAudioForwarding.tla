------------------------- MODULE MCAudioForwarding -------------------------
(* AudioForwarding for TLC, with every failure of the provider. *)
EXTENDS AudioForwarding

\* Nothing the provider does raises.
NoFailures == {}

=============================================================================
