----------------------------- MODULE UpdateRetry -----------------------------
(***************************************************************************)
(* BluettiDevice.async_update_with_retry, run for several devices that     *)
(* share one connection.  A step here is one attempt of a poll: what a     *)
(* call of _async_update_with_timeout came to, and what the retry code     *)
(* does about it.  How an attempt gets to its end - register blocks,       *)
(* request timeouts, the turn on the wire - is SharedLink's business.      *)
(***************************************************************************)
EXTENDS Naturals, Sequences

CONSTANTS
  Devices,               \* the BluettiDevice objects that share the connection
  TransientRetryCount    \* _TRANSIENT_RETRY_COUNT

ASSUME RetryAssumption == TransientRetryCount \in Nat \ {0}

VARIABLES
  stage,      \* stage[d]: where d's async_update_with_retry stands
  attempt,    \* attempt[d]: the loop variable of the retry loop
  outcome,    \* outcome[d]: what the caller of d's latest poll got
  link,       \* the connection all devices share
  failures,   \* history: the failures of d's latest poll, oldest first
  linkOf,     \* history: the connection d's last failed attempt read over
  dropped     \* history: d's latest poll tore the connection down

vars == <<stage, attempt, outcome, link, failures, linkOf, dropped>>

\* What an attempt may fail with, as async_update_with_retry tells it apart:
\* a bare Acknowledge/ServerDeviceBusy error, a BluettiModbusConnectionError
\* by its cause - a corrupted reply, no reply, a lost connection, another
\* ModbusError, the TimeoutError of the 30 s budget.
Busy      == {"busy"}
Transient == {"protocol", "timeout", "lost"}
Permanent == {"permanent", "budget"}
Failures  == Busy \cup Transient \cup Permanent

Attempting == {"first", "afterBusy", "retry"}
Stages     == {"idle", "dropping", "dropped"} \cup Attempting

TypeOK ==
  /\ stage    \in [Devices -> Stages]
  /\ attempt  \in [Devices -> 0 .. TransientRetryCount - 1]
  /\ outcome  \in [Devices -> {"none", "values", "cancelled"} \cup Failures]
  /\ link     \in {"up", "down"}
  /\ failures \in [Devices -> Seq(Failures)]
  /\ linkOf   \in [Devices -> {"none", "open", "gone"}]
  /\ dropped  \in [Devices -> BOOLEAN]

Init ==
  /\ stage    = [d \in Devices |-> "idle"]
  /\ attempt  = [d \in Devices |-> 0]
  /\ outcome  = [d \in Devices |-> "none"]
  /\ link     = "down"
  /\ failures = [d \in Devices |-> <<>>]
  /\ linkOf   = [d \in Devices |-> "none"]
  /\ dropped  = [d \in Devices |-> FALSE]
-----------------------------------------------------------------------------
\* The link an attempt leaves behind: the backend connects on demand, so a
\* reply means a link; a lost connection may already have been replaced by
\* another device's request.
LinkAfter(result) ==
  CASE result \in {"timeout", "budget"} -> {link, "up"}
    [] result = "lost"                  -> {link, "down"}
    [] OTHER                            -> {"up"}

\* Closing the connection closes it for every device.
Closed(links) == [d \in Devices |-> IF links[d] = "open" THEN "gone" ELSE links[d]]

\* Bookkeeping of the history variables for an attempt of d failing with k.
Failed(d, k) ==
  /\ stage[d] \in Attempting
  /\ failures' = [failures EXCEPT ![d] = Append(@, k)]
  /\ link' \in LinkAfter(k)
  /\ linkOf' = [IF link' = "down" THEN Closed(linkOf) ELSE linkOf
                  EXCEPT ![d] = IF link' = "up" THEN "open" ELSE "gone"]
  /\ UNCHANGED dropped

StartPoll(d) ==
  /\ stage[d] = "idle"
  /\ stage'    = [stage EXCEPT ![d] = "first"]
  /\ attempt'  = [attempt EXCEPT ![d] = 0]
  /\ outcome'  = [outcome EXCEPT ![d] = "none"]
  /\ failures' = [failures EXCEPT ![d] = <<>>]
  /\ linkOf'   = [linkOf EXCEPT ![d] = "none"]
  /\ dropped'  = [dropped EXCEPT ![d] = FALSE]
  /\ UNCHANGED link

AttemptSucceeds(d) ==
  /\ stage[d] \in Attempting
  /\ stage'   = [stage EXCEPT ![d] = "idle"]
  /\ outcome' = [outcome EXCEPT ![d] = "values"]
  /\ link' \in LinkAfter("values")
  /\ UNCHANGED <<attempt, failures, linkOf, dropped>>

\* Mutant: a busy reply enters the retry loop, as the other failures do.
BusyEntersLoop(d, k) ==
  /\ stage[d] = "first"
  /\ k \in Busy
  /\ Failed(d, k)
  /\ stage' = [stage EXCEPT ![d] = "retry"]
  /\ UNCHANGED <<attempt, outcome>>

\* except (AcknowledgeError, ServerDeviceBusyError) of the first attempt.
BusyRetriedOnce(d, k) ==
  /\ stage[d] = "first"
  /\ k \in Busy
  /\ Failed(d, k)
  /\ stage' = [stage EXCEPT ![d] = "afterBusy"]
  /\ UNCHANGED <<attempt, outcome>>

\* A transient failure of the first attempt enters the retry loop.
EnterRetryLoop(d, k) ==
  /\ stage[d] = "first"
  /\ k \in Transient
  /\ Failed(d, k)
  /\ stage'   = [stage EXCEPT ![d] = "retry"]
  /\ attempt' = [attempt EXCEPT ![d] = 0]
  /\ UNCHANGED outcome

\* Mutant: the last attempt is not told from the ones before it.
RetryOnceTooOften(d, k) ==
  /\ stage[d] = "retry"
  /\ k \in Transient
  /\ attempt[d] < TransientRetryCount
  /\ Failed(d, k)
  /\ attempt' = [attempt EXCEPT ![d] = @ + 1]
  /\ UNCHANGED <<stage, outcome>>

RetryAgain(d, k) ==
  /\ stage[d] = "retry"
  /\ k \in Transient
  /\ attempt[d] # TransientRetryCount - 1
  /\ Failed(d, k)
  /\ attempt' = [attempt EXCEPT ![d] = @ + 1]
  /\ UNCHANGED <<stage, outcome>>

\* Mutant: any failure of the last attempt drops the link.
LastFailureDrops(d, k) ==
  /\ stage[d] = "retry"
  /\ attempt[d] = TransientRetryCount - 1
  /\ Failed(d, k)
  /\ stage' = [stage EXCEPT ![d] = "dropping"]
  /\ UNCHANGED <<attempt, outcome>>

\* Mutant: the last retry raises and leaves the link as it is.
ExhaustedWithoutDrop(d, k) ==
  /\ stage[d] = "retry"
  /\ k \in Transient
  /\ attempt[d] = TransientRetryCount - 1
  /\ Failed(d, k)
  /\ stage' = [stage EXCEPT ![d] = "dropped"]
  /\ UNCHANGED <<attempt, outcome>>

\* The last retry failed the same way: drop the link before raising.
RetriesExhausted(d, k) ==
  /\ stage[d] = "retry"
  /\ k \in Transient
  /\ attempt[d] = TransientRetryCount - 1
  /\ Failed(d, k)
  /\ stage' = [stage EXCEPT ![d] = "dropping"]
  /\ UNCHANGED <<attempt, outcome>>

\* Mutant: the error is swallowed and the poll returns as if it had values.
SwallowFailure(d, k) ==
  /\ \/ stage[d] = "afterBusy"
     \/ stage[d] = "first" /\ k \in Permanent
     \/ stage[d] = "retry" /\ k \notin Transient
  /\ Failed(d, k)
  /\ stage'   = [stage EXCEPT ![d] = "idle"]
  /\ outcome' = [outcome EXCEPT ![d] = "values"]
  /\ UNCHANGED attempt

\* Mutant: a connection lost in the first attempt fails the poll.
RaiseWhenLost(d, k) ==
  /\ \/ stage[d] = "afterBusy"
     \/ stage[d] = "first" /\ k \in Permanent \cup {"lost"}
     \/ stage[d] = "retry" /\ k \notin Transient
  /\ Failed(d, k)
  /\ stage'   = [stage EXCEPT ![d] = "idle"]
  /\ outcome' = [outcome EXCEPT ![d] = k]
  /\ UNCHANGED attempt

\* Everything else leaves async_update_with_retry at once, the second attempt
\* after a busy first one whatever it fails with.
RaiseAtOnce(d, k) ==
  /\ \/ stage[d] = "afterBusy"
     \/ stage[d] = "first" /\ k \in Permanent
     \/ stage[d] = "retry" /\ k \notin Transient
  /\ Failed(d, k)
  /\ stage'   = [stage EXCEPT ![d] = "idle"]
  /\ outcome' = [outcome EXCEPT ![d] = k]
  /\ UNCHANGED attempt

AttemptFails(d, k) ==
  \/ BusyRetriedOnce(d, k)
  \/ EnterRetryLoop(d, k)
  \/ RetryAgain(d, k)
  \/ RetriesExhausted(d, k)
  \/ RaiseAtOnce(d, k)

\* Mutant: disconnect only a link that is up, and wait for one otherwise.
DropConnectedLink(d) ==
  /\ stage[d] = "dropping"
  /\ link = "up"
  /\ stage'   = [stage EXCEPT ![d] = "dropped"]
  /\ link'    = "down"
  /\ linkOf'  = Closed(linkOf)
  /\ dropped' = [dropped EXCEPT ![d] = TRUE]
  /\ UNCHANGED <<attempt, outcome, failures>>

\* await self.modbus_unit.disconnect(): the link is closed for every holder.
DropLink(d) ==
  /\ stage[d] = "dropping"
  /\ stage'   = [stage EXCEPT ![d] = "dropped"]
  /\ link'    = "down"
  /\ linkOf'  = Closed(linkOf)
  /\ dropped' = [dropped EXCEPT ![d] = TRUE]
  /\ UNCHANGED <<attempt, outcome, failures>>

\* Mutant: raise without waiting for the disconnect.
RaiseBeforeDrop(d) ==
  /\ stage[d] \in {"dropping", "dropped"}
  /\ stage'   = [stage EXCEPT ![d] = "idle"]
  /\ outcome' = [outcome EXCEPT ![d] = failures[d][Len(failures[d])]]
  /\ UNCHANGED <<attempt, link, failures, linkOf, dropped>>

\* The raise that follows it, a turn of the event loop later.
RaiseExhausted(d) ==
  /\ stage[d] = "dropped"
  /\ stage'   = [stage EXCEPT ![d] = "idle"]
  /\ outcome' = [outcome EXCEPT ![d] = failures[d][Len(failures[d])]]
  /\ UNCHANGED <<attempt, link, failures, linkOf, dropped>>

\* The caller cancels its task, at any await of the poll.
CancelPoll(d) ==
  /\ stage[d] # "idle"
  /\ stage'   = [stage EXCEPT ![d] = "idle"]
  /\ outcome' = [outcome EXCEPT ![d] = "cancelled"]
  /\ UNCHANGED <<attempt, link, failures, linkOf, dropped>>

\* The backend opens a link for a request, before the reply to it is known.
LinkOpens ==
  /\ link = "down"
  /\ \E d \in Devices : stage[d] \in Attempting
  /\ link' = "up"
  /\ UNCHANGED <<stage, attempt, outcome, failures, linkOf, dropped>>

\* The device closes the connection under everyone.
LinkCloses ==
  /\ link = "up"
  /\ link'   = "down"
  /\ linkOf' = Closed(linkOf)
  /\ UNCHANGED <<stage, attempt, outcome, failures, dropped>>

Step(d) ==
  \/ AttemptSucceeds(d)
  \/ \E k \in Failures : AttemptFails(d, k)
  \/ DropLink(d)
  \/ RaiseExhausted(d)

Next ==
  \/ \E d \in Devices : StartPoll(d) \/ Step(d) \/ CancelPoll(d)
  \/ LinkOpens
  \/ LinkCloses

Spec == Init /\ [][Next]_vars

\* Every attempt ends within its 30 s budget and the event loop goes on, so a
\* poll under way keeps stepping; nobody has to start one.
FairSpec == Spec /\ \A d \in Devices : WF_vars(Step(d))
-----------------------------------------------------------------------------
AllTransient(s) == \A i \in 1 .. Len(s) : s[i] \in Transient

\* All the attempts a poll may spend on transient failures are spent.
Exhausted(d) ==
  /\ Len(failures[d]) = TransientRetryCount + 1
  /\ AllTransient(failures[d])

\* What the retry code may have behind it when it makes another attempt, and
\* what it may raise.  An attempt is never followed by another one after a
\* failure retrying cannot cure; a busy reply is followed by exactly one more
\* attempt, and only as the first failure; what the caller gets is the last
\* failure, not an earlier one it would mask (async_update_with_retry).
RetriesOnlyTheCurable ==
  \A d \in Devices :
    /\ \A i \in 1 .. Len(failures[d]) - 1 :
         failures[d][i] \in Transient
           \/ (i = 1 /\ failures[d][i] \in Busy /\ Len(failures[d]) = 2)
    /\ outcome[d] \in Failures => outcome[d] = failures[d][Len(failures[d])]

\* The connection, which other devices use too, is torn down by a poll only
\* after TransientRetryCount + 1 transient failures in a row: never for a busy
\* device, a permanent error, a spent budget, or a mixture of failures.
DropsOnlyWhenExhausted ==
  \A d \in Devices : dropped[d] => Exhausted(d)

\* A caller that is told of the last of these failures will not read over the
\* connection they happened on: it is gone by then, whatever the other devices
\* did in between (the disconnect comes before the raise).
ExhaustionReplacesLink ==
  \A d \in Devices :
    outcome[d] \in Failures /\ Exhausted(d) => linkOf[d] = "gone"

\* A poll that was started ends, in values, an error or a cancellation.
PollEnds == \A d \in Devices : stage[d] # "idle" ~> stage[d] = "idle"
-----------------------------------------------------------------------------
(* A claim of the docstring that the code does not keep. *)

\* "busy twice in a row" is what a bare busy error tells the caller (the
\* docstring's last paragraph).
BareBusyMeansBusyTwice ==
  \A d \in Devices :
    outcome[d] \in Busy =>
      LET n == Len(failures[d]) IN n > 1 /\ failures[d][n - 1] \in Busy
-----------------------------------------------------------------------------
(* The promise this code implements. *)

PromisedResult(o) ==
  CASE o \in Busy      -> "busy"
    [] o \in Transient -> "curable"
    [] o \in Permanent -> "fatal"
    [] OTHER           -> o

Promise == INSTANCE PollPromise WITH
  MaxAttempts <- TransientRetryCount + 1,
  polling     <- [d \in Devices |-> stage[d] # "idle"],
  attempts    <- [d \in Devices |-> Len(failures[d])],
  result      <- [d \in Devices |-> PromisedResult(outcome[d])]

PromiseKept     == Promise!Spec
PromiseKeptFair == Promise!FairSpec
=============================================================================
