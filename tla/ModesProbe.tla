------------------------------ MODULE ModesProbe ------------------------------
(***************************************************************************)
(* script/balco_modes_probe.py: reads the app's internal registers, the     *)
(* first period of the scheduler table among them, or writes the working   *)
(* mode or one period, and records what became of each job.                *)
(*                                                                         *)
(* The device stores a period, or none (zeros), and emits its registers in *)
(* one of two byte orders.  Whether it serves the internal space at all is *)
(* left open: every request may be rejected.                               *)
(***************************************************************************)
EXTENDS ProbeDevice, TouCodec

CONSTANTS
  Singles,   \* READS before the scheduler table: one register each
  Inputs,    \* FC04_ADDRESSES: read as input registers unless --no-fc04
  Plans      \* what the scheduler table may hold: a period's records, or <<>>

ASSUME ModesAssumption ==
  /\ Singles \in Nat /\ Inputs \in Nat
  /\ \A p \in Plans : p = <<>> \/ p \in AppPeriods
  /\ <<>> \in Plans

VARIABLES
  mstage,     \* where the run stands
  jobs,       \* what the arguments ask for, in order
  job,        \* the job the run is at
  words,      \* registers of that job read so far
  failure,    \* the status it will be recorded with after recover()
  mresults,   \* self.results
  mcode,      \* the exit code, or that an exception ended the run
  plan,       \* the device's first period: two records, or <<>>
  order       \* the byte order it emits the table in

modesVars ==
  <<mstage, jobs, job, words, failure, mresults, mcode, plan, order>>

Operations == {"read", "table", "input", "mode", "period"}
Orders     == {"as-is", "swapped"}

\* run: which steps there are; a read step only when nothing is to be written.
Jobs(mode, period, inputs) ==
  IF mode \/ period
    THEN (IF mode THEN <<"mode">> ELSE <<>>)
         \o (IF period THEN <<"period">> ELSE <<>>)
    ELSE [i \in 1 .. Singles |-> "read"] \o <<"table">>
         \o [i \in 1 .. IF inputs THEN Inputs ELSE 0 |-> "input"]

Count(op) == IF op = "table" THEN PeriodRegisters ELSE 1

ModesTypeOK ==
  /\ mstage \in {"off", "connect", "alive", "version", "job", "recover",
                 "recheck", "final", "close", "over"}
  /\ jobs \in Seq(Operations)
  /\ job \in 0 .. Len(jobs)
  /\ words \in 0 .. PeriodRegisters - 1
  /\ failure \in {"none", "timeout", "protocol"}
  /\ mresults \in Seq([op : Operations \cup {"version"},
                       status : {"data", "confirmed", "illegal-address",
                                 "exception", "timeout", "protocol"}])
  /\ mcode \in {"none", "0", "2", "raised"}
  /\ plan \in Plans
  /\ order \in Orders
  /\ mstage \in {"job", "recover", "recheck"} => job \in DOMAIN jobs
  /\ (failure # "none") <=> mstage \in {"recover", "recheck"}

ModesInit ==
  /\ mstage = "off"
  /\ jobs = <<>> /\ job = 0 /\ words = 0
  /\ failure = "none"
  /\ mresults = <<>>
  /\ mcode = "none"
  /\ plan = <<>> /\ order = "as-is"

ModesReset(next, js, p, o) ==
  /\ mstage' = next
  /\ jobs' = js /\ words' = 0
  /\ job' = IF js = <<>> THEN 0 ELSE 1
  /\ failure' = "none"
  /\ mresults' = <<>>
  /\ mcode' = "none"
  /\ plan' = p /\ order' = o

ModesForgotten == ModesReset("off", <<>>, <<>>, "as-is")

\* Prober.__init__: a run with some arguments, against a table as it is now.
ModesStarts(mode, period, inputs, p, o) ==
  /\ mstage = "off"
  /\ ModesReset("connect", Jobs(mode, period, inputs), p, o)
-----------------------------------------------------------------------------
ModesConnects ==
  /\ mstage = "connect"
  /\ \/ Connects /\ mstage' = "alive" /\ UNCHANGED mcode
     \/ ConnectFails /\ mstage' = "over" /\ mcode' = "2"
  /\ UNCHANGED <<jobs, job, words, failure, mresults, plan, order>>

Alive ==
  /\ mstage = "alive"
  /\ \/ Answers /\ mstage' = "version" /\ UNCHANGED mcode
     \/ \E k \in Failures : Fails(k) /\ mstage' = "close" /\ mcode' = "2"
  /\ UNCHANGED <<jobs, job, words, failure, mresults, plan, order>>

Entry(op, status) == [op |-> op, status |-> status]

\* Both registers of it: one that cannot be read, for whatever reason, is only
\* told.
ReadVersion ==
  /\ mstage = "version"
  /\ \/ /\ Answers
        /\ mresults' = <<Entry("version", "data")>>
     \/ \E k \in Failures : Fails(k) /\ UNCHANGED mresults
  /\ mstage' = "job"
  /\ UNCHANGED <<jobs, job, words, failure, mcode, plan, order>>

\* The next job, if there is one.  A table's words are not part of the state:
\* what it decodes to is Decodings, of the plan the device stores.
NextJob ==
  /\ mstage' = IF job = Len(jobs) THEN "final" ELSE "job"
  /\ job'    = IF job = Len(jobs) THEN job ELSE job + 1
  /\ words'  = 0
  /\ failure' = "none"

JobDone(status) ==
  /\ mresults' = Append(mresults, Entry(jobs[job], status))
  /\ NextJob

Read(op) == op \in {"read", "table", "input"}

\* read_one: one register more; the last one makes the record.
ReadWord ==
  /\ mstage = "job" /\ Read(jobs[job]) /\ Answers
  /\ \/ /\ words + 1 < Count(jobs[job])
        /\ words' = words + 1
        /\ UNCHANGED <<mstage, job, failure, mresults>>
     \/ /\ words + 1 = Count(jobs[job])
        /\ JobDone("data")
  /\ UNCHANGED <<jobs, mcode, plan, order>>

\* write_single and write_period: confirmed, the mode at any address.
Written ==
  /\ mstage = "job" /\ ~ Read(jobs[job]) /\ Answers
  /\ JobDone("confirmed")
  /\ UNCHANGED <<jobs, mcode, plan, order>>

\* The device or its gateway says no; words read before it do not count.
Refuses ==
  /\ mstage = "job"
  /\ \/ Answers /\ JobDone("illegal-address")
     \/ Fails("exception") /\ JobDone("exception")
  /\ UNCHANGED <<jobs, mcode, plan, order>>

\* A timeout or an unreadable reply: recover() first, then the record.
NoReadableReply ==
  /\ mstage = "job"
  /\ \/ Fails("timeout") /\ failure' = "timeout"
     \/ FallsSilent /\ failure' = "timeout"
     \/ Fails("protocol") /\ failure' = "protocol"
  /\ mstage' = "recover"
  /\ words' = 0
  /\ UNCHANGED <<jobs, job, mresults, mcode, plan, order>>

\* A lost link is not caught: the run ends in an exception, with what it has.
Lost ==
  /\ mstage = "job" /\ Fails("lost")
  /\ mstage' = "close"
  /\ mcode' = "raised"
  /\ words' = 0
  /\ UNCHANGED <<jobs, job, failure, mresults, plan, order>>
-----------------------------------------------------------------------------
\* recover(): disconnect, wait, connect.  Its result is not looked at.
Recover ==
  /\ mstage = "recover"
  /\ \/ /\ ReopensAfter(1)
        /\ mstage' = "recheck"
        /\ UNCHANGED <<job, words, failure, mresults>>
     \/ StaysDownAfter(1) /\ JobDone(failure)
  /\ UNCHANGED <<jobs, mcode, plan, order>>

\* Mutant: a device that does not answer after recover() loses the record.
UnrecordedAfterRecover ==
  /\ mstage = "recheck"
  /\ \/ Answers /\ JobDone(failure)
     \/ /\ \E k \in Failures : Fails(k)
        /\ NextJob
        /\ UNCHANGED mresults
  /\ UNCHANGED <<jobs, mcode, plan, order>>

AfterRecover ==
  /\ mstage = "recheck"
  /\ Answers \/ \E k \in Failures : Fails(k)
  /\ JobDone(failure)
  /\ UNCHANGED <<jobs, mcode, plan, order>>

FinalAlive ==
  /\ mstage = "final"
  /\ Answers \/ \E k \in Failures : Fails(k)
  /\ mstage' = "close"
  /\ mcode' = "0"
  /\ UNCHANGED <<jobs, job, words, failure, mresults, plan, order>>

ModesCloses ==
  /\ mstage = "close" /\ Closes
  /\ mstage' = "over"
  /\ UNCHANGED <<jobs, job, words, failure, mresults, mcode, plan, order>>

ModesStep ==
  \/ ModesConnects
  \/ Alive
  \/ ReadVersion
  \/ ReadWord
  \/ Written
  \/ Refuses
  \/ NoReadableReply
  \/ Lost
  \/ Recover
  \/ AfterRecover
  \/ FinalAlive
  \/ ModesCloses
-----------------------------------------------------------------------------
\* The version's record, if it could be read, comes before those of the jobs.
Lead == IF mresults # <<>> /\ mresults[1].op = "version" THEN 1 ELSE 0

\* Every job asked for has one record, in order, whatever recover() came to; a
\* run that an exception ended has those of the jobs before it.
EveryJobRecorded ==
  LET told == Len(mresults) - Lead IN
    /\ \A i \in 1 .. told : i <= Len(jobs) /\ mresults[i + Lead].op = jobs[i]
    /\ mcode = "0" => told = Len(jobs)
    /\ mcode = "raised" => told = job - 1

\* What the device emits for its table, and what read_one makes of it: zeros
\* are not decoded.
Emitted(p, o) ==
  IF o = "swapped" THEN SwapBytes(PeriodToRegisters(p))
                   ELSE PeriodToRegisters(p)

Decodings ==
  [p \in Plans \ {<<>>} |-> [o \in Orders |-> DecodeTable(Emitted(p, o))]]

\* A table in either byte order is decoded as the plan the device stores, if
\* it is stored as it stands or one of its records is recognisable.
TableDecodedAsStored ==
  (\E i \in DOMAIN mresults : mresults[i] = Entry("table", "data")) =>
    \/ plan = <<>>
    \/ Decodings[plan][order] = [order |-> order, events |-> plan]
    \/ order = "swapped" /\ \A k \in DOMAIN plan : ~ Recognisable(plan[k])
=============================================================================
