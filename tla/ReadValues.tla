------------------------------ MODULE ReadValues ------------------------------
(***************************************************************************)
(* read_values of an S Meter, which answers its measurements on the first  *)
(* read of a connection only and zeros on every read after it.             *)
(* BluettiModbusClient.read and Home Assistant's coordinator poll through  *)
(* read_values; other holders of the connection (a diagnostics dump, say)  *)
(* read over it without.  A read is one attempt of UpdateRetry, whose      *)
(* retries run inside read_values.                                         *)
(***************************************************************************)
EXTENDS UpdateRetry

CONSTANT OtherHolders   \* TRUE where others read over the connection as well

ASSUME ReadAssumption == OtherHolders \in BOOLEAN

VARIABLES
  call,       \* call[d]: where read_values of d stands
  used,       \* the present connection has been read over
  values,     \* values[d]: what d decoded on its last update
  returned,   \* returned[d]: what d's latest read_values returned
  disturbed   \* history: during d's latest call somebody else read over the
              \* connection d had dropped, or an attempt failed on it

readVars == <<call, used, values, returned, disturbed>>
allVars  == <<vars, readVars>>

Readings == {"none", "measurements", "zeros"}

ReadTypeOK ==
  /\ TypeOK
  /\ call      \in [Devices -> {"idle", "dropping", "polling", "leaving"}]
  /\ used      \in BOOLEAN
  /\ values    \in [Devices -> Readings]
  /\ returned  \in [Devices -> Readings \cup {"error"}]
  /\ disturbed \in [Devices -> BOOLEAN]
  /\ \A d \in Devices : call[d] = "polling" <=> stage[d] # "idle"

ReadInit ==
  /\ Init
  /\ call      = [d \in Devices |-> "idle"]
  /\ used      = FALSE
  /\ values    = [d \in Devices |-> "none"]
  /\ returned  = [d \in Devices |-> "none"]
  /\ disturbed = [d \in Devices |-> FALSE]
-----------------------------------------------------------------------------
\* A read of one of the holders spoils the connection for the calls of all
\* other devices that are under way.
Spoils(d) ==
  disturbed' = [e \in Devices |->
                  disturbed[e] \/ (e # d /\ call[e] \in {"dropping", "polling"})]

\* Mutant: the link is dropped after a read only.
CallOnOpenLink(d) ==
  /\ call[d] = "idle"
  /\ call' = [call EXCEPT ![d] = "polling"]
  /\ StartPoll(d)
  /\ returned'  = [returned EXCEPT ![d] = "none"]
  /\ disturbed' = [disturbed EXCEPT ![d] = FALSE]
  /\ UNCHANGED <<used, values>>

\* read_values of an S Meter: drop the link if it is open.
Call(d) ==
  /\ call[d] = "idle"
  /\ IF link = "up"
       THEN call' = [call EXCEPT ![d] = "dropping"] /\ UNCHANGED vars
       ELSE call' = [call EXCEPT ![d] = "polling"] /\ StartPoll(d)
  /\ returned'  = [returned EXCEPT ![d] = "none"]
  /\ disturbed' = [disturbed EXCEPT ![d] = FALSE]
  /\ UNCHANGED <<used, values>>

\* Dropping the link for a fresh one, in read_values and in the retry code.
Fresh ==
  /\ link' = "down"
  /\ used' = FALSE

DropBefore(d) ==
  /\ call[d] = "dropping"
  /\ call' = [call EXCEPT ![d] = "polling"]
  /\ stage[d] = "idle"
  /\ stage'    = [stage EXCEPT ![d] = "first"]
  /\ attempt'  = [attempt EXCEPT ![d] = 0]
  /\ outcome'  = [outcome EXCEPT ![d] = "none"]
  /\ failures' = [failures EXCEPT ![d] = <<>>]
  /\ linkOf'   = [Closed(linkOf) EXCEPT ![d] = "none"]
  /\ dropped'  = [dropped EXCEPT ![d] = FALSE]
  /\ Fresh
  /\ UNCHANGED <<values, returned, disturbed>>

\* The update succeeds: measurements if it is the connection's first read.
Update(d) ==
  /\ AttemptSucceeds(d)
  /\ values' = [values EXCEPT ![d] =
                  IF link = "up" /\ used THEN "zeros" ELSE "measurements"]
  /\ used' = TRUE
  /\ call' = [call EXCEPT ![d] = "leaving"]
  /\ Spoils(d)
  /\ UNCHANGED returned

\* What a failed attempt does to the connection: a busy reply is to a request
\* that read nothing; any other failure may or may not be that of a read whose
\* reply was corrupted, late or lost on its way.
FailedRead(d, k) ==
  /\ AttemptFails(d, k)
  /\ used' \in IF link' = "down" THEN {FALSE}
               ELSE IF k \in Busy THEN {link = "up" /\ used}
               ELSE {link = "up" /\ used, TRUE}
  /\ disturbed' = [e \in Devices |->
       disturbed[e] \/ (call[e] \in {"dropping", "polling"} /\ link' = "up")]
  /\ UNCHANGED values

\* Mutant: read_values goes on after an error as it does after a poll.
ErrorIgnored(d, k) ==
  /\ FailedRead(d, k)
  /\ IF stage'[d] = "idle"
       THEN call' = [call EXCEPT ![d] = "leaving"]
       ELSE UNCHANGED call
  /\ UNCHANGED returned

\* An error leaves read_values at once, the device's old values unread.
UpdateFails(d, k) ==
  /\ FailedRead(d, k)
  /\ IF stage'[d] = "idle"
       THEN /\ call'     = [call EXCEPT ![d] = "idle"]
            /\ returned' = [returned EXCEPT ![d] = "error"]
       ELSE UNCHANGED <<call, returned>>

RetryDrops(d) ==
  /\ DropLink(d)
  /\ Fresh
  /\ UNCHANGED <<call, values, returned, disturbed>>

\* Mutant: the error of an exhausted poll does not end the call.
RaiseInPlace(d) ==
  /\ RaiseExhausted(d)
  /\ returned' = [returned EXCEPT ![d] = "error"]
  /\ UNCHANGED <<call, used, values, disturbed>>

RaiseError(d) ==
  /\ RaiseExhausted(d)
  /\ call'     = [call EXCEPT ![d] = "idle"]
  /\ returned' = [returned EXCEPT ![d] = "error"]
  /\ UNCHANGED <<used, values, disturbed>>

\* The caller cancels its task: at an await of the poll, or of a disconnect
\* before or after it.
CancelCall(d) ==
  /\ \/ CancelPoll(d)
     \/ call[d] \in {"dropping", "leaving"} /\ UNCHANGED vars
  /\ call'     = [call EXCEPT ![d] = "idle"]
  /\ returned' = [returned EXCEPT ![d] = "error"]
  /\ UNCHANGED <<used, values, disturbed>>

\* The link is dropped after the read too, and the values returned.
Return(d) ==
  /\ call[d] = "leaving"
  /\ call'     = [call EXCEPT ![d] = "idle"]
  /\ returned' = [returned EXCEPT ![d] = values[d]]
  /\ Fresh
  /\ linkOf'   = Closed(linkOf)
  /\ UNCHANGED <<stage, attempt, outcome, failures, dropped, values, disturbed>>

\* Another holder reads over the connection, on demand like everyone.
OtherReads ==
  /\ OtherHolders
  /\ link' = "up"
  /\ used' = TRUE
  /\ disturbed' = [e \in Devices |->
       disturbed[e] \/ call[e] \in {"dropping", "polling"}]
  /\ UNCHANGED <<stage, attempt, outcome, failures, linkOf, dropped,
                 call, values, returned>>

\* A request of a poll opens the link before there is a reply to it.
ConnectionOpens ==
  /\ LinkOpens
  /\ UNCHANGED readVars

ConnectionCloses ==
  /\ LinkCloses
  /\ used' = FALSE
  /\ UNCHANGED <<call, values, returned, disturbed>>

ReadNext ==
  \/ \E d \in Devices :
       \/ Call(d)
       \/ DropBefore(d)
       \/ Update(d)
       \/ \E k \in Failures : UpdateFails(d, k)
       \/ RetryDrops(d)
       \/ RaiseError(d)
       \/ CancelCall(d)
       \/ Return(d)
  \/ OtherReads
  \/ ConnectionOpens
  \/ ConnectionCloses

ReadSpec == ReadInit /\ [][ReadNext]_allVars
-----------------------------------------------------------------------------
\* An S Meter's zeros are never taken for measurements unless its link was
\* spoiled during the call: whatever other reads left the link open before,
\* a call that nobody disturbs and whose update succeeds on the first attempt
\* over a connection returns measurements (read_values' disconnect before the
\* poll).
UndisturbedReadIsLive ==
  \A d \in Devices : returned[d] = "zeros" => disturbed[d]

\* What read_values returns was decoded by this very call: the device keeps
\* the values of its last good update, and a call whose poll failed does not
\* hand them out again.
AnswersAreOfThisCall ==
  \A d \in Devices :
    returned[d] \in {"measurements", "zeros"} =>
      outcome[d] = "values" /\ returned[d] = values[d]

\* What read_values is for, as its docstring says: the link is dropped so that
\* the read is the connection's first.
ReadsMeasurements == \A d \in Devices : returned[d] # "zeros"
=============================================================================
