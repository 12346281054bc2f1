--------------------------- MODULE MCAudioOutput ---------------------------
(* AudioOutput for TLC: frames of two samples, in pieces of one to five. *)
EXTENDS AudioOutput

=============================================================================
