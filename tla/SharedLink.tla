------------------------------ MODULE SharedLink ------------------------------
(***************************************************************************)
(* How an attempt of UpdateRetry gets to its end: the register blocks of   *)
(* one update, read one after the other over the connection all devices    *)
(* share, each bounded by the connection's request timeout and all of them *)
(* by the 30 s budget of _async_update_with_timeout.                       *)
(*                                                                         *)
(* The connection is modbus_connection's, modelled from how the code uses  *)
(* it: a pacer lets one request at a time on the wire, first come first    *)
(* served; the backend connects on demand; disconnect() waits at most half *)
(* a second for the request on the wire and cuts it then.  A tick of the   *)
(* clock is longer than that half second.                                  *)
(***************************************************************************)
EXTENDS UpdateRetry, SequencesExt

CONSTANTS
  NumBlocks,        \* register blocks one update reads
  RequestTimeout,   \* ticks the connection waits for a reply
  Budget,           \* ticks asyncio.timeout(30) leaves an update
  Faults,           \* what may go wrong outside this code
  MaxFaults         \* how often something may (bounds the runs)

ASSUME LinkAssumption ==
  /\ NumBlocks \in Nat \ {0}
  /\ RequestTimeout \in Nat \ {0}
  /\ Budget \in Nat \ {0}
  /\ Faults \subseteq
       {"busy", "protocol", "permanent", "silent", "lost", "stuck", "cancel"}
  /\ MaxFaults \in Nat

VARIABLES
  block,    \* block[d]: the blocks of d's attempt that were answered
  spent,    \* spent[d]: ticks of its budget d's attempt has used up
  queue,    \* who waits for the pacer; the first one holds it
  wire,     \* the request of the first one: not sent, on the wire, or cut
  age,      \* ticks it has been on the wire
  stuck,    \* the device stopped answering on this connection
  faults,   \* faults so far
  clean     \* history: d's latest poll began on a link that works, and
            \* nothing outside this code has gone wrong since

linkVars == <<block, spent, queue, wire, age, stuck, faults, clean>>
allVars  == <<vars, linkVars>>

LinkTypeOK ==
  /\ TypeOK
  /\ block  \in [Devices -> 0 .. NumBlocks - 1]
  /\ spent  \in [Devices -> 0 .. Budget]
  /\ queue  \in Seq(Devices)
  /\ wire   \in {"free", "sent", "cut"}
  /\ age    \in 0 .. RequestTimeout
  /\ stuck  \in BOOLEAN
  /\ faults \in 0 .. MaxFaults
  /\ clean  \in [Devices -> BOOLEAN]

LinkInit ==
  /\ Init
  /\ block  = [d \in Devices |-> 0]
  /\ spent  = [d \in Devices |-> 0]
  /\ queue  = <<>>
  /\ wire   = "free"
  /\ age    = 0
  /\ stuck  = FALSE
  /\ faults = 0
  /\ clean  = [d \in Devices |-> FALSE]
-----------------------------------------------------------------------------
Polling(d) == stage[d] \in Attempting
OnTurn(d)  == queue # <<>> /\ Head(queue) = d
OnWire(d)  == OnTurn(d) /\ wire = "sent"

Fault(f) ==
  /\ f \in Faults
  /\ faults < MaxFaults
  /\ faults' = faults + 1
  /\ clean'  = [d \in Devices |-> FALSE]

NoFault == UNCHANGED <<faults, clean>>

\* The queue without the waiting d, or without its turn on the wire.
Without(d) == RemoveFirst(queue, d)

\* Giving the turn up frees the wire for the next request.
LeaveWire(d) ==
  /\ wire' = IF OnTurn(d) THEN "free" ELSE wire
  /\ age'  = IF OnTurn(d) THEN 0 ELSE age

\* Mutant: a caller that gives up stays in the queue.
ForgetToLeave(d) ==
  /\ queue' = IF Polling(d)' THEN Append(Without(d), d) ELSE queue
  /\ LeaveWire(d)
  /\ block' = [block EXCEPT ![d] = 0]
  /\ spent' = [spent EXCEPT ![d] = 0]

\* An attempt of d is over; if the retry code makes another one, it reads from
\* the first block, with a budget of its own, and queues up like anyone else.
EndAttempt(d) ==
  /\ queue' = IF Polling(d)' THEN Append(Without(d), d) ELSE Without(d)
  /\ LeaveWire(d)
  /\ block' = [block EXCEPT ![d] = 0]
  /\ spent' = [spent EXCEPT ![d] = 0]

Poll(d) ==
  /\ StartPoll(d)
  /\ queue' = Append(queue, d)
  /\ block' = [block EXCEPT ![d] = 0]
  /\ spent' = [spent EXCEPT ![d] = 0]
  /\ clean' = [clean EXCEPT ![d] = ~stuck]
  /\ UNCHANGED <<wire, age, stuck, faults>>

\* The first in the queue sends its request, on a new connection if need be.
Send ==
  /\ queue # <<>>
  /\ wire = "free"
  /\ wire' = "sent"
  /\ age'  = 0
  /\ IF link = "up" THEN UNCHANGED vars ELSE LinkOpens
  /\ UNCHANGED <<block, spent, queue, stuck, faults, clean>>

\* No connection is to be had, or the request waited across a disconnect and
\* this modbus_connection does not reconnect for it.
ConnectFails(d) ==
  /\ OnTurn(d)
  /\ wire = "free"
  /\ link = "down"
  /\ Fault("lost")
  /\ AttemptFails(d, "lost")
  /\ link' = "down"
  /\ EndAttempt(d)
  /\ UNCHANGED stuck

\* One block is answered; the next one queues up behind the other holders.
BlockAnswered(d) ==
  /\ OnWire(d)
  /\ ~stuck
  /\ block[d] < NumBlocks - 1
  /\ block' = [block EXCEPT ![d] = @ + 1]
  /\ queue' = Append(Tail(queue), d)
  /\ LeaveWire(d)
  /\ UNCHANGED <<vars, spent, stuck, faults, clean>>

UpdateDone(d) ==
  /\ OnWire(d)
  /\ ~stuck
  /\ block[d] = NumBlocks - 1
  /\ AttemptSucceeds(d)
  /\ EndAttempt(d)
  /\ UNCHANGED <<stuck, faults, clean>>

\* The device answers with an exception, or with a frame nobody can read.
BadReply(d, k) ==
  /\ OnWire(d)
  /\ ~stuck
  /\ k \in {"busy", "protocol", "permanent"}
  /\ Fault(k)
  /\ AttemptFails(d, k)
  /\ EndAttempt(d)
  /\ UNCHANGED stuck

ConnectionLost(d) ==
  /\ OnWire(d)
  /\ Fault("lost")
  /\ AttemptFails(d, "lost")
  /\ link' = "down"
  /\ EndAttempt(d)
  /\ stuck' = FALSE

\* No reply within the connection's request timeout; the link stays open.
RequestTimesOut(d) ==
  /\ OnWire(d)
  /\ age = RequestTimeout
  /\ IF stuck THEN NoFault ELSE Fault("silent")
  /\ AttemptFails(d, "timeout")
  /\ link' = link
  /\ EndAttempt(d)
  /\ UNCHANGED stuck

\* Another device's disconnect cut the request.
RequestCut(d) ==
  /\ OnTurn(d)
  /\ wire = "cut"
  /\ AttemptFails(d, "lost")
  /\ link' = link
  /\ EndAttempt(d)
  /\ UNCHANGED <<stuck, faults, clean>>

\* The 30 s are over.  A holder that waits for its turn is cancelled, which
\* asyncio.timeout turns into TimeoutError; of one whose request is on the
\* wire the backend may make a ModbusError of its own ("Request cancelled
\* outside library"), which then passes through.
BudgetExpires(d) ==
  /\ Polling(d)
  /\ spent[d] = Budget
  /\ ~(OnTurn(d) /\ wire = "cut")
  /\ \E k \in {"budget"} \cup IF OnWire(d) THEN {"lost", "permanent"} ELSE {} :
       AttemptFails(d, k)
  /\ link' = link
  /\ EndAttempt(d)
  /\ UNCHANGED <<stuck, faults, clean>>

\* modbus_unit.disconnect(): cuts the request on the wire, replaces the link.
Disconnect(d) ==
  /\ DropLink(d)
  /\ stuck' = FALSE
  /\ wire' = IF wire = "sent" THEN "cut" ELSE wire
  /\ UNCHANGED <<block, spent, queue, age, faults, clean>>

Raise(d) ==
  /\ RaiseExhausted(d)
  /\ UNCHANGED linkVars

Cancel(d) ==
  /\ Fault("cancel")
  /\ CancelPoll(d)
  /\ EndAttempt(d)
  /\ UNCHANGED stuck

\* The device closes an idle connection, or stops answering on it.
IdleLinkCloses ==
  /\ wire = "free"
  /\ Fault("lost")
  /\ LinkCloses
  /\ stuck' = FALSE
  /\ UNCHANGED <<block, spent, queue, wire, age>>

LinkSticks ==
  /\ link = "up"
  /\ ~stuck
  /\ Fault("stuck")
  /\ stuck' = TRUE
  /\ UNCHANGED <<vars, block, spent, queue, wire, age>>

\* Mutant: the connection has no request timeout.
TickPastTimeout ==
  /\ \A d \in Devices : stage[d] \notin {"dropping", "dropped"}
  /\ \A d \in Devices : Polling(d) => spent[d] < Budget
  /\ queue # <<>> => wire = "sent"
  /\ age'   = IF wire = "sent" THEN age + 1 ELSE age
  /\ spent' = [d \in Devices |-> IF Polling(d) THEN spent[d] + 1 ELSE 0]
  /\ UNCHANGED <<vars, block, queue, wire, stuck, faults, clean>>

\* Time passes unless something that takes no time is due.
Tick ==
  /\ \A d \in Devices : stage[d] \notin {"dropping", "dropped"}
  /\ \A d \in Devices : Polling(d) => spent[d] < Budget
  /\ queue # <<>> => wire = "sent" /\ age < RequestTimeout
  /\ age'   = IF wire = "sent" THEN age + 1 ELSE age
  /\ spent' = [d \in Devices |-> IF Polling(d) THEN spent[d] + 1 ELSE 0]
  /\ UNCHANGED <<vars, block, queue, wire, stuck, faults, clean>>

\* What ends the turn of the holder of the pacer, sooner or later.
TurnEnds(d) ==
  \/ BlockAnswered(d)
  \/ UpdateDone(d)
  \/ RequestTimesOut(d)
  \/ RequestCut(d)

LinkNext ==
  \/ \E d \in Devices :
       \/ Poll(d)
       \/ TurnEnds(d)
       \/ ConnectFails(d)
       \/ \E k \in Failures : BadReply(d, k)
       \/ ConnectionLost(d)
       \/ BudgetExpires(d)
       \/ Disconnect(d)
       \/ Raise(d)
       \/ Cancel(d)
  \/ Send
  \/ IdleLinkCloses
  \/ LinkSticks
  \/ Tick

LinkSpec == LinkInit /\ [][LinkNext]_allVars

\* Time passes, timers fire, and the event loop runs what is ready.  Replies
\* need not come: RequestTimesOut is what ends a turn on a silent link.
Fairness ==
  /\ WF_allVars(Tick)
  /\ WF_allVars(Send)
  /\ \A d \in Devices :
       /\ WF_allVars(TurnEnds(d))
       /\ WF_allVars(BudgetExpires(d))
       /\ WF_allVars(Disconnect(d))
       /\ WF_allVars(Raise(d))

FairLinkSpec == LinkSpec /\ Fairness

\* Every holder polls again and again, as a coordinator does.
PollingLinkSpec == FairLinkSpec /\ \A d \in Devices : WF_allVars(Poll(d))
-----------------------------------------------------------------------------
(* Every attempt under way is in the queue exactly once and nobody else is:
   neither a failed, a cancelled nor a timed-out update leaves a request
   behind, and none is lost across another device's disconnect. *)
QueueIsTheAttempts ==
  /\ \A d \in Devices : Polling(d) <=> Contains(queue, d)
  /\ \A i, j \in 1 .. Len(queue) : queue[i] = queue[j] => i = j
  /\ wire # "free" => queue # <<>>

\* A poll that begins on a working link, and during which nothing outside
\* this code goes wrong, delivers values: the disconnects that other devices'
\* exhausted polls still throw at the shared link, and the requests of its own
\* they cut, are within its retries (for up to TransientRetryCount others), as
\* long as its budget covers the blocks of all.
CleanPollDelivers ==
  \A d \in Devices : clean[d] => outcome[d] \in {"none", "values"}

\* Each attempt of the retry code is one that UpdateRetry allows for, and
\* ends: no queue, cut or timer keeps a poll from its end.
ImplementsRetry == FairSpec

\* A link on which the device has stopped answering is given up, if every
\* holder polls again and again, as a coordinator does.
StuckLinkReplaced ==
  (\A d \in Devices : WF_allVars(Poll(d))) => (stuck ~> ~stuck)

\* When nothing goes wrong any more, the polls of every device get their
\* values again, whatever state the faults left retries, queue and link in.
HealsItself ==
  \A d \in Devices : []<>(faults < MaxFaults \/ outcome[d] = "values")

\* The budget covers every block being slow (_async_update_with_timeout's
\* comment): it does not expire where each request is answered in time.
BudgetCoversSlowBlocks ==
  \A d \in Devices : ~Contains(failures[d], "budget")
=============================================================================
