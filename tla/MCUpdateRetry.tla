---------------------------- MODULE MCUpdateRetry ----------------------------
(* UpdateRetry for TLC, with the retries of the code; the devices of each run
   are in its configuration. *)
EXTENDS UpdateRetry

MCRetryCount == 2     \* _TRANSIENT_RETRY_COUNT
=============================================================================
