----------------------------- MODULE PollPromise -----------------------------
(***************************************************************************)
(* What BluettiDevice.async_update_with_retry promises a caller that polls *)
(* a device, with everything about how it keeps the promise left out: the  *)
(* poll makes at most MaxAttempts updates, it ends with fresh values or    *)
(* with one error, an error that no retry can cure ends it at once, and    *)
(* the connection - shared with other holders - is torn down only by a     *)
(* poll whose every allowed attempt failed for a curable reason.           *)
(*                                                                         *)
(* UpdateRetry implements this specification (theorem Refines of           *)
(* UpdateRetryProofs, run retry_poll), and SharedLink implements           *)
(* UpdateRetry (run link_refines).                                         *)
(***************************************************************************)
EXTENDS Naturals

CONSTANTS
  Devices,      \* the BluettiDevice objects that are polled
  MaxAttempts   \* the updates one poll may make, at least one

VARIABLES
  polling,      \* polling[d]: a poll of d is under way
  attempts,     \* attempts[d]: the updates of d's latest poll that failed
  result,       \* result[d]: what the latest poll of d came to: "values", an
                \* error ("busy", "curable" or "fatal"), "cancelled", or "none"
  dropped       \* dropped[d]: d's latest poll tore the connection down

vars == <<polling, attempts, result, dropped>>

Init ==
  /\ polling  = [d \in Devices |-> FALSE]
  /\ attempts = [d \in Devices |-> 0]
  /\ result   = [d \in Devices |-> "none"]
  /\ dropped  = [d \in Devices |-> FALSE]
-----------------------------------------------------------------------------
Begin(d) ==
  /\ ~polling[d]
  /\ polling'  = [polling EXCEPT ![d] = TRUE]
  /\ attempts' = [attempts EXCEPT ![d] = 0]
  /\ result'   = [result EXCEPT ![d] = "none"]
  /\ dropped'  = [dropped EXCEPT ![d] = FALSE]

\* An attempt failed for a reason another one may cure.
FailAndGoOn(d) ==
  /\ polling[d]
  /\ attempts[d] < MaxAttempts
  /\ attempts' = [attempts EXCEPT ![d] = @ + 1]
  /\ UNCHANGED <<polling, result, dropped>>

\* Every allowed attempt failed: the link is suspect.
TearDown(d) ==
  /\ polling[d]
  /\ attempts[d] = MaxAttempts
  /\ ~dropped[d]
  /\ dropped' = [dropped EXCEPT ![d] = TRUE]
  /\ UNCHANGED <<polling, attempts, result>>

Deliver(d) ==
  /\ polling[d]
  /\ attempts[d] < MaxAttempts
  /\ polling' = [polling EXCEPT ![d] = FALSE]
  /\ result'  = [result EXCEPT ![d] = "values"]
  /\ UNCHANGED <<attempts, dropped>>

\* An attempt failed for the reason r and the poll ends there.
GiveUp(d, r) ==
  /\ polling[d]
  /\ attempts[d] < MaxAttempts
  /\ attempts' = [attempts EXCEPT ![d] = @ + 1]
  /\ polling'  = [polling EXCEPT ![d] = FALSE]
  /\ result'   = [result EXCEPT ![d] = r]
  /\ UNCHANGED dropped

\* The poll that tore the link down reports the failure that made it.
Exhaust(d) ==
  /\ polling[d]
  /\ dropped[d]
  /\ polling' = [polling EXCEPT ![d] = FALSE]
  /\ result'  = [result EXCEPT ![d] = "curable"]
  /\ UNCHANGED <<attempts, dropped>>

Cancel(d) ==
  /\ polling[d]
  /\ polling' = [polling EXCEPT ![d] = FALSE]
  /\ result'  = [result EXCEPT ![d] = "cancelled"]
  /\ UNCHANGED <<attempts, dropped>>

Progress(d) ==
  \/ FailAndGoOn(d)
  \/ TearDown(d)
  \/ Deliver(d)
  \/ \E r \in {"busy", "curable", "fatal"} : GiveUp(d, r)
  \/ Exhaust(d)

Next == \E d \in Devices : Begin(d) \/ Progress(d) \/ Cancel(d)

Spec == Init /\ [][Next]_vars

\* A poll that was begun keeps making progress: each step either ends it or
\* uses up an attempt, so it ends.
FairSpec == Spec /\ \A d \in Devices : WF_vars(Progress(d))
=============================================================================
