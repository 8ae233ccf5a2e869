----------------------------- MODULE MCSharedLink -----------------------------
(* SharedLink for TLC: the size of each run is in its configuration. *)
EXTENDS SharedLink

MCRetryCount == 2     \* _TRANSIENT_RETRY_COUNT

\* Everything that may go wrong outside the code.
AnyFault ==
  {"busy", "protocol", "permanent", "silent", "lost", "stuck", "cancel"}
=============================================================================
