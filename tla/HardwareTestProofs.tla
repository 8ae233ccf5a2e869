--------------------------- MODULE HardwareTestProofs ---------------------------
(***************************************************************************)
(* The safety properties of the hardware scripts, for any candidates, any  *)
(* limit on timeouts, any periods of the app and any device that falls     *)
(* silent.                                                                 *)
(*                                                                         *)
(* The scripts share nothing but the device, so each has an invariant of   *)
(* its own.  What one script's step does to another's part is to leave it  *)
(* alone, except for the setting, which a late write may change.           *)
(*                                                                         *)
(* At the end, a rank of the run under way, which each of its steps lowers.*)
(***************************************************************************)
EXTENDS HardwareTest, RegisterProbeProofs, TouCodecProofs

(* Only the probe of registers looks at the link in its invariant. *)

LEMMA WriteUsesLink == WriteStep => LinkStep
BY DEF WriteStep, WriteConnects, ReadBefore, WriteSame, ReadAfter, WriteNew,
  ReadNew, Restore, ReadRestored, WriteCloses, Reads, Confirmed, NotConfirmed,
  WriteLost, LinkStep, Failures

LEMMA ModesUsesLink == ModesStep => LinkStep
BY DEF ModesStep, ModesConnects, Alive, ReadVersion, ReadWord, Written, Refuses,
  NoReadableReply, Lost, Recover, AfterRecover, FinalAlive, ModesCloses,
  LinkStep, Failures
-----------------------------------------------------------------------------
(* write_probe.py. *)

SettingTyped == held \in Settings /\ late \subseteq Settings

\* What the device holds while no write of an earlier run is still out.
Accounted ==
  ~ leftover =>
    /\ wstage \in {"connect", "before"} => held = origin /\ late = {}
    /\ wstage \in {"sameValue", "after", "newValue"} =>
         held = origin /\ late = {} /\ current = origin
    /\ wstage \in {"afterNew", "restore", "afterRestore"} =>
         late = {} /\ current = origin
    /\ wstage \in {"close", "over"} =>
         /\ wcode = "0" =>
              /\ late = {}
              /\ ~ keep => held = origin
              /\ (keep /\ new = value) => held = value
         /\ said \in {"nothing written", "nothing changed"} =>
              held = origin /\ late \subseteq {origin}

WriteInv ==
  /\ SettingTyped
  /\ WriteTypeOK
  /\ wstage \notin {"close", "over"} => wcode = "none" /\ said = "none"
  /\ wstage \in {"restore", "afterRestore"} => ~ keep
  /\ Accounted

LEMMA ConfirmedSettles ==
  ASSUME SettingTyped, NEW v \in Settings, Confirmed(v)
  PROVE  /\ SettingTyped' /\ UNCHANGED late
         /\ v = held => UNCHANGED held
BY DEF SettingTyped, Confirmed

LEMMA UnconfirmedSettles ==
  ASSUME SettingTyped, NEW v \in Settings, NotConfirmed(v) \/ WriteLost(v)
  PROVE  /\ SettingTyped'
         /\ v = held => UNCHANGED held /\ late' \subseteq late \cup {v}
BY DEF SettingTyped, NotConfirmed, WriteLost, MayTake, SettingKept

LEMMA WriteInvStep ==
  ASSUME WriteInv, WriteStep
  PROVE  WriteInv'
<1> USE DEF WriteInv
<1>a. \A v \in Settings : v # NoValue /\ v # NotRead
  BY WriteAssumption
<1>1. CASE WriteConnects
  BY <1>1 DEF WriteConnects, Continue, SettingKept, SettingTyped, WriteTypeOK,
    Accounted
<1>2. CASE ReadBefore
  <2>1. PICK v \in Settings \cup {NotRead} :
          /\ Reads(v) /\ current' = v
          /\ IF v = NotRead THEN Return("1", "nothing written")
                            ELSE Continue("sameValue")
    BY <1>2 DEF ReadBefore
  <2>2. /\ wstage = "before" /\ UNCHANGED <<held, late>>
        /\ UNCHANGED <<value, keep, new, origin, leftover>>
    BY <1>2, <2>1 DEF ReadBefore, Reads, SettingKept
  <2>3. CASE v = NotRead
    BY <2>1, <2>2, <2>3 DEF Return, SettingTyped, WriteTypeOK, Accounted
  <2>4. CASE v # NotRead
    <3>1. v = held
      BY <2>1, <2>4 DEF Reads
    <3> QED BY <2>1, <2>2, <2>4, <3>1 DEF Continue, SettingTyped, WriteTypeOK,
      Accounted
  <2> QED BY <2>3, <2>4
<1>3. CASE WriteSame
  <2>1. /\ wstage = "sameValue" /\ current \in Settings
        /\ UNCHANGED <<value, keep, current, new, origin, leftover>>
    BY <1>3 DEF WriteSame, WriteTypeOK
  <2>2. CASE Confirmed(current) /\ Continue("after")
    <3>1. /\ SettingTyped' /\ UNCHANGED late
          /\ current = held => UNCHANGED held
      BY <2>1, <2>2, ConfirmedSettles
    <3> QED BY <2>1, <2>2, <3>1 DEF Continue, WriteTypeOK, Accounted
  <2>3. CASE /\ NotConfirmed(current) \/ WriteLost(current)
             /\ Return("1", "nothing changed") \/ Return("raised", "none")
    <3>1. /\ SettingTyped'
          /\ current = held => UNCHANGED held /\ late' \subseteq late \cup {current}
      BY <2>1, <2>3, UnconfirmedSettles
    <3> QED BY <2>1, <2>3, <3>1 DEF Return, WriteTypeOK, Accounted
  <2> QED BY <1>3, <2>2, <2>3 DEF WriteSame
<1>4. CASE ReadAfter
  <2>1. PICK v \in Settings \cup {NotRead} :
          /\ Reads(v)
          /\ IF v # current            THEN Return("1", "none")
             ELSE IF value = NoValue   THEN Return("0", "none")
             ELSE Continue("newValue")
    BY <1>4 DEF ReadAfter
  <2>2. /\ wstage = "after" /\ UNCHANGED <<held, late>>
        /\ UNCHANGED <<value, keep, current, new, origin, leftover>>
    BY <1>4, <2>1 DEF ReadAfter, Reads, SettingKept
  <2> QED BY <2>1, <2>2 DEF Return, Continue, SettingTyped, WriteTypeOK, Accounted
<1>5. CASE WriteNew
  <2>1. /\ wstage = "newValue" /\ value \in Settings
        /\ UNCHANGED <<value, keep, current, new, origin, leftover>>
    BY <1>5 DEF WriteNew, WriteTypeOK
  <2>2. CASE Confirmed(value) /\ Continue("afterNew")
    <3>1. SettingTyped' /\ UNCHANGED late
      BY <2>1, <2>2, ConfirmedSettles
    <3> QED BY <2>1, <2>2, <3>1 DEF Continue, WriteTypeOK, Accounted
  <2>3. CASE /\ NotConfirmed(value) \/ WriteLost(value)
             /\ Return("1", "none") \/ Return("raised", "none")
    <3>1. SettingTyped'
      BY <2>1, <2>3, UnconfirmedSettles
    <3> QED BY <2>1, <2>3, <3>1 DEF Return, WriteTypeOK, Accounted
  <2> QED BY <1>5, <2>2, <2>3 DEF WriteNew
<1>6. CASE ReadNew
  <2>1. PICK v \in Settings \cup {NotRead} : Reads(v) /\ new' = v
    BY <1>6 DEF ReadNew
  <2>2. /\ wstage = "afterNew" /\ UNCHANGED <<held, late>>
        /\ UNCHANGED <<value, keep, current, origin, leftover>>
        /\ value \in Settings
        /\ IF keep THEN Return("0", "none") ELSE Continue("restore")
    BY <1>6, <2>1 DEF ReadNew, Reads, SettingKept, WriteTypeOK
  <2>3. v = value => held = value
    BY <1>a, <2>1, <2>2 DEF Reads
  <2> QED BY <2>1, <2>2, <2>3 DEF Return, Continue, SettingTyped, WriteTypeOK,
    Accounted
<1>7. CASE Restore
  <2>1. /\ wstage = "restore" /\ current \in Settings
        /\ UNCHANGED <<value, keep, current, new, origin, leftover>>
    BY <1>7 DEF Restore, WriteTypeOK
  <2>2. CASE Confirmed(current) /\ Continue("afterRestore")
    <3>1. SettingTyped' /\ UNCHANGED late
      BY <2>1, <2>2, ConfirmedSettles
    <3> QED BY <2>1, <2>2, <3>1 DEF Continue, WriteTypeOK, Accounted
  <2>3. CASE /\ NotConfirmed(current) \/ WriteLost(current)
             /\ Return("1", "set it back") \/ Return("raised", "none")
    <3>1. SettingTyped'
      BY <2>1, <2>3, UnconfirmedSettles
    <3> QED BY <2>1, <2>3, <3>1 DEF Return, WriteTypeOK, Accounted
  <2> QED BY <1>7, <2>2, <2>3 DEF Restore
<1>8. CASE ReadRestored
  <2>1. PICK v \in Settings \cup {NotRead} :
          Reads(v) /\ Return(IF v = current THEN "0" ELSE "1", "none")
    BY <1>8 DEF ReadRestored
  <2>2. /\ wstage = "afterRestore" /\ UNCHANGED <<held, late>>
        /\ UNCHANGED <<value, keep, current, new, origin, leftover>>
        /\ current \in Settings
    BY <1>8, <2>1 DEF ReadRestored, Reads, SettingKept, WriteTypeOK
  <2>3. v = current => held = current
    BY <1>a, <2>1, <2>2 DEF Reads
  <2> QED BY <2>1, <2>2, <2>3 DEF Return, SettingTyped, WriteTypeOK, Accounted
<1>9. CASE WriteCloses
  BY <1>9 DEF WriteCloses, SettingKept, SettingTyped, WriteTypeOK, Accounted
<1> QED BY <1>1, <1>2, <1>3, <1>4, <1>5, <1>6, <1>7, <1>8, <1>9 DEF WriteStep

LEMMA LateWriteInv ==
  ASSUME WriteInv, NEW v \in Settings, TakesLate(v), UNCHANGED writeVars
  PROVE  WriteInv'
<1> USE DEF WriteInv, TakesLate, writeVars
<1>1. SettingTyped' /\ (wstage \in {"restore", "afterRestore"} => ~ keep)'
  BY DEF SettingTyped
<1>2. WriteTypeOK'
  BY DEF WriteTypeOK
<1>3. Accounted'
  BY DEF Accounted
<1>4. (wstage \notin {"close", "over"} => wcode = "none" /\ said = "none")'
  OBVIOUS
<1> QED BY <1>1, <1>2, <1>3, <1>4

LEMMA WriteAtRest ==
  ASSUME WriteInv, UNCHANGED writeVars, SettingKept
  PROVE  WriteInv'
<1> USE DEF WriteInv, SettingKept, writeVars
<1>1. SettingTyped' /\ (wstage \in {"restore", "afterRestore"} => ~ keep)'
  BY DEF SettingTyped
<1>2. WriteTypeOK'
  BY DEF WriteTypeOK
<1>3. Accounted'
  BY DEF Accounted
<1>4. (wstage \notin {"close", "over"} => wcode = "none" /\ said = "none")'
  OBVIOUS
<1> QED BY <1>1, <1>2, <1>3, <1>4

LEMMA ForgottenWrite ==
  ASSUME WriteForgotten, SettingTyped'
  PROVE  WriteInv' /\ wstage' = "off"
BY DEF WriteForgotten, WriteReset, WriteInv, WriteTypeOK, Accounted

LEMMA StartedWrite ==
  ASSUME WriteInv, NEW v \in Settings \cup {NoValue}, NEW k \in BOOLEAN,
         WriteStarts(v, k), SettingKept
  PROVE  WriteInv'
BY DEF WriteStarts, WriteReset, SettingKept, SettingTyped, WriteInv,
  WriteTypeOK, Accounted

LEMMA SettledTyped ==
  ASSUME SettingTyped, Settled \/ SettingKept
  PROVE  SettingTyped'
BY DEF SettingTyped, Settled, SettingKept
-----------------------------------------------------------------------------
(* balco_modes_probe.py. *)

ModesStatuses ==
  {"data", "confirmed", "illegal-address", "exception", "timeout", "protocol"}

Entries == [op : Operations \cup {"version"}, status : ModesStatuses]

\* How many jobs have a record.
Told == Len(mresults) - Lead

\* Where a run stands in its jobs.
Recorded ==
  /\ mstage # "off" => Len(jobs) >= 1
  /\ mstage \in {"connect", "alive", "version"} => job = 1
  /\ mstage \in {"off", "connect", "alive", "version"} => mresults = <<>>
  /\ \A i \in 1 .. Told : i <= Len(jobs) /\ mresults[i + Lead].op = jobs[i]
  /\ mstage \in {"job", "recover", "recheck"} => Told = job - 1
  /\ mstage = "final" => Told = Len(jobs)
  /\ IF mstage \in {"close", "over"}
       THEN \/ mcode = "0" /\ Told = Len(jobs)
            \/ mcode = "raised" /\ Told = job - 1
            \/ mcode = "2"
       ELSE mcode = "none"

ModesInv == ModesTypeOK /\ Recorded

LEMMA JobFacts ==
  ASSUME ModesTypeOK
  PROVE  /\ jobs \in Seq(Operations) /\ Len(jobs) \in Nat
         /\ DOMAIN jobs = 1 .. Len(jobs)
         /\ job \in Nat /\ job <= Len(jobs)
         /\ mresults \in Seq(Entries) /\ Len(mresults) \in Nat
         /\ Lead \in {0, 1} /\ Lead <= Len(mresults) /\ Told \in Nat
         /\ mstage \in {"job", "recover", "recheck"} =>
              job >= 1 /\ jobs[job] \in Operations
<1>1. jobs \in Seq(Operations) /\ job \in 0 .. Len(jobs) /\ mresults \in Seq(Entries)
  BY DEF ModesTypeOK, Entries, ModesStatuses
<1>2. Len(jobs) \in Nat /\ DOMAIN jobs = 1 .. Len(jobs) /\ Len(mresults) \in Nat
  BY <1>1, LenProperties
<1>3. mresults # <<>> => Len(mresults) >= 1
  BY <1>1, EmptySeq
<1>4. Lead \in {0, 1} /\ Lead <= Len(mresults)
  BY <1>2, <1>3 DEF Lead
<1>5. Told \in Nat
  BY <1>2, <1>4 DEF Told
<1>6. mstage \in {"job", "recover", "recheck"} => job \in 1 .. Len(jobs)
  BY <1>2 DEF ModesTypeOK
<1>7. mstage \in {"job", "recover", "recheck"} => job >= 1 /\ jobs[job] \in Operations
  BY <1>1, <1>6, ElementOfSeq
<1> QED BY <1>1, <1>2, <1>4, <1>5, <1>7

\* A job that is done is recorded, and its record is the next.
LEMMA DoneRecorded ==
  ASSUME ModesInv, mstage \in {"job", "recover", "recheck"},
         NEW s \in ModesStatuses, JobDone(s),
         UNCHANGED <<jobs, mcode, plan, order>>
  PROVE  ModesInv'
<1> DEFINE e == Entry(jobs[job], s)
           n == Len(mresults)
<1>1. /\ jobs \in Seq(Operations) /\ Len(jobs) \in Nat
      /\ DOMAIN jobs = 1 .. Len(jobs)
      /\ job \in Nat /\ 1 <= job /\ job <= Len(jobs) /\ jobs[job] \in Operations
      /\ mresults \in Seq(Entries) /\ n \in Nat
      /\ Lead \in {0, 1} /\ Lead <= n /\ Told = job - 1 /\ n = job - 1 + Lead
  <2>1. ModesTypeOK /\ Told = job - 1
    BY DEF ModesInv, Recorded
  <2>2. n = Told + Lead
    BY <2>1, JobFacts DEF Told
  <2> QED BY <2>1, <2>2, JobFacts
<1>2. e \in Entries /\ e.op = jobs[job]
  BY <1>1 DEF Entry, Entries
<1>3. /\ mresults' = Append(mresults, e)
      /\ mresults' \in Seq(Entries) /\ Len(mresults') = n + 1
      /\ \A i \in 1 .. n : mresults'[i] = mresults[i]
      /\ mresults'[n + 1] = e
  BY <1>1, <1>2 DEF JobDone
<1> HIDE DEF e, n
<1>4. Lead' = Lead
  <2>1. mresults' # <<>>
    BY <1>1, <1>3, EmptySeq
  <2>2. CASE mresults = <<>>
    <3>1. n = 0 /\ mresults'[1] = e
      BY <1>3, <2>2, EmptySeq DEF n
    <3>2. e.op # "version"
      BY <1>1, <1>2 DEF Operations
    <3> QED BY <2>1, <2>2, <3>1, <3>2 DEF Lead
  <2>3. CASE mresults # <<>>
    <3>1. n >= 1 /\ mresults'[1] = mresults[1]
      BY <1>1, <1>3, <2>3, EmptySeq DEF n
    <3> QED BY <2>1, <2>3, <3>1 DEF Lead
  <2> QED BY <2>2, <2>3
<1>5. Told' = job
  BY <1>1, <1>3, <1>4 DEF Told
<1>6. ASSUME NEW i \in 1 .. job
      PROVE  i <= Len(jobs) /\ mresults'[i + Lead].op = jobs[i]
  <2>1. CASE i = job
    <3>1. i + Lead = n + 1
      BY <1>1, <2>1
    <3> QED BY <1>1, <1>2, <1>3, <2>1, <3>1
  <2>2. CASE i # job
    <3>1. i \in 1 .. Told /\ i + Lead \in 1 .. n
      BY <1>1, <2>2
    <3>2. i <= Len(jobs) /\ mresults[i + Lead].op = jobs[i]
      BY <3>1 DEF ModesInv, Recorded
    <3> QED BY <1>3, <3>1, <3>2
  <2> QED BY <2>1, <2>2
<1>7. /\ \/ job = Len(jobs) /\ mstage' = "final" /\ job' = job
         \/ job # Len(jobs) /\ mstage' = "job" /\ job' = job + 1
      /\ words' = 0 /\ failure' = "none" /\ jobs' = jobs
  BY DEF JobDone, NextJob
<1>8. mcode' = "none" /\ mcode = "none"
  BY DEF ModesInv, Recorded
<1>9. \/ job # Len(jobs) /\ mstage' = "job" /\ job' \in 1 .. Len(jobs)
         /\ job' \in 0 .. Len(jobs) /\ job = job' - 1
      \/ mstage' = "final" /\ job' \in 0 .. Len(jobs) /\ job = Len(jobs)
  <2>0. job \in Nat /\ Len(jobs) \in Nat /\ 1 <= job /\ job <= Len(jobs)
    BY <1>1
  <2>1. job # Len(jobs) => job + 1 \in 1 .. Len(jobs) /\ job + 1 \in 0 .. Len(jobs)
                           /\ job = (job + 1) - 1
    BY <2>0
  <2>2. job \in 0 .. Len(jobs)
    BY <1>1
  <2> QED BY <1>7, <2>1, <2>2
<1>10. plan' \in Plans /\ order' \in Orders
  BY DEF ModesInv, ModesTypeOK
<1>11. 0 \in 0 .. PeriodRegisters - 1
  BY DEF PeriodRegisters
<1>12. ModesTypeOK'
  BY <1>1, <1>3, <1>7, <1>8, <1>9, <1>10, <1>11 DEF ModesTypeOK, Entries, ModesStatuses
<1>13. Recorded'
  <2>1. \A i \in 1 .. Told' : i <= Len(jobs') /\ mresults'[i + Lead'].op = jobs'[i]
    BY <1>4, <1>5, <1>6
  <2>2. mstage' = "job" => Told' = job' - 1
    BY <1>5, <1>9
  <2>3. mstage' = "final" => Told' = Len(jobs')
    BY <1>5, <1>7, <1>9
  <2>4. mstage' \in {"job", "final"} /\ Len(jobs') >= 1
    <3>1. Len(jobs) \in Nat /\ job \in Nat /\ 1 <= job /\ job <= Len(jobs)
      BY <1>1
    <3>2. Len(jobs) >= 1
      BY <3>1
    <3> QED BY <1>7, <3>2
  <2> QED BY <1>8, <2>1, <2>2, <2>3, <2>4 DEF Recorded
<1> QED BY <1>12, <1>13 DEF ModesInv

LEMMA NoneTold ==
  ASSUME mresults = <<>>
  PROVE  Told = 0 /\ Lead = 0
<1>1. Len(mresults) = 0 /\ Lead = 0
  BY EmptySeq DEF Lead
<1> QED BY <1>1 DEF Told

LEMMA ModesInvStep ==
  ASSUME ModesInv, ModesStep
  PROVE  ModesInv'
<1> USE DEF ModesInv
<1>a. /\ jobs \in Seq(Operations) /\ Len(jobs) \in Nat
      /\ DOMAIN jobs = 1 .. Len(jobs)
      /\ job \in Nat /\ job <= Len(jobs)
      /\ mresults \in Seq(Entries)
      /\ mstage \in {"job", "recover", "recheck"} =>
           job >= 1 /\ jobs[job] \in Operations
  BY JobFacts
<1>b. ASSUME UNCHANGED mresults
      PROVE  Told' = Told /\ Lead' = Lead
  BY <1>b DEF Told, Lead
<1>1. CASE ModesConnects
  <2>1. /\ mstage = "connect" /\ mresults = <<>>
        /\ UNCHANGED <<jobs, job, words, failure, mresults, plan, order>>
        /\ \/ mstage' = "alive" /\ UNCHANGED mcode
           \/ mstage' = "over" /\ mcode' = "2"
    BY <1>1 DEF ModesConnects, Recorded
  <2>2. ModesTypeOK'
    BY <2>1 DEF ModesTypeOK
  <2>3. Recorded'
    BY <2>1, <1>b DEF Recorded
  <2> QED BY <2>2, <2>3
<1>2. CASE Alive
  <2>1. /\ mstage = "alive" /\ mresults = <<>>
        /\ UNCHANGED <<jobs, job, words, failure, mresults, plan, order>>
        /\ \/ mstage' = "version" /\ UNCHANGED mcode
           \/ mstage' = "close" /\ mcode' = "2"
    BY <1>2 DEF Alive, Recorded
  <2>2. ModesTypeOK'
    BY <2>1 DEF ModesTypeOK
  <2>3. Recorded'
    BY <2>1, <1>b DEF Recorded
  <2> QED BY <2>2, <2>3
<1>3. CASE ReadVersion
  <2>1. /\ mstage = "version" /\ mresults = <<>> /\ job = 1 /\ mstage' = "job"
        /\ UNCHANGED <<jobs, job, words, failure, mcode, plan, order>>
        /\ mcode = "none" /\ Len(jobs) >= 1
    BY <1>3 DEF ReadVersion, Recorded
  <2>2. Told' = 0 /\ mresults' \in Seq(Entries)
    <3>1. CASE UNCHANGED mresults
      BY <2>1, <3>1, <1>a, <1>b, NoneTold
    <3>2. CASE mresults' = <<Entry("version", "data")>>
      <4>1. Entry("version", "data") \in Entries /\ Entry("version", "data").op = "version"
        BY DEF Entry, Entries, ModesStatuses
      <4>2. mresults' # <<>> /\ mresults'[1].op = "version" /\ Len(mresults') = 1
        BY <3>2, <4>1
      <4>3. Lead' = 1
        BY <4>2 DEF Lead
      <4> QED BY <3>2, <4>1, <4>2, <4>3 DEF Told
    <3> QED BY <1>3, <3>1, <3>2 DEF ReadVersion
  <2>3. job \in DOMAIN jobs
    BY <1>a, <2>1
  <2>4. ModesTypeOK'
    BY <2>1, <2>2, <2>3 DEF ModesTypeOK, Entries, ModesStatuses
  <2>5. Recorded'
    BY <2>1, <2>2 DEF Recorded
  <2> QED BY <2>4, <2>5
<1>4. CASE ReadWord
  <2>1. /\ mstage = "job" /\ UNCHANGED <<jobs, mcode, plan, order>>
    BY <1>4 DEF ReadWord
  <2>2. CASE /\ words + 1 < Count(jobs[job]) /\ words' = words + 1
             /\ UNCHANGED <<mstage, job, failure, mresults>>
    <3>1. words' \in 0 .. PeriodRegisters - 1
      BY <2>2 DEF ModesTypeOK, Count, PeriodRegisters
    <3>2. ModesTypeOK'
      BY <2>1, <2>2, <3>1 DEF ModesTypeOK
    <3>3. Recorded'
      BY <2>1, <2>2, <1>b DEF Recorded
    <3> QED BY <3>2, <3>3
  <2>3. CASE JobDone("data")
    BY <2>1, <2>3, DoneRecorded DEF ModesStatuses
  <2> QED BY <1>4, <2>2, <2>3 DEF ReadWord
<1>5. CASE Written
  BY <1>5, DoneRecorded DEF Written, ModesStatuses
<1>6. CASE Refuses
  BY <1>6, DoneRecorded DEF Refuses, ModesStatuses
<1>7. CASE NoReadableReply
  <2>1. /\ mstage = "job" /\ mstage' = "recover" /\ words' = 0
        /\ failure' \in {"timeout", "protocol"}
        /\ UNCHANGED <<jobs, job, mresults, mcode, plan, order>>
    BY <1>7 DEF NoReadableReply
  <2>2. ModesTypeOK'
    BY <2>1 DEF ModesTypeOK, PeriodRegisters
  <2>3. Recorded'
    BY <2>1, <1>b DEF Recorded
  <2> QED BY <2>2, <2>3
<1>8. CASE Lost
  <2>1. /\ mstage = "job" /\ mstage' = "close" /\ mcode' = "raised" /\ words' = 0
        /\ UNCHANGED <<jobs, job, failure, mresults, plan, order>>
    BY <1>8 DEF Lost
  <2>2. ModesTypeOK'
    BY <2>1 DEF ModesTypeOK, PeriodRegisters
  <2>3. Recorded'
    BY <2>1, <1>b DEF Recorded
  <2> QED BY <2>2, <2>3
<1>9. CASE Recover
  <2>1. /\ mstage = "recover" /\ UNCHANGED <<jobs, mcode, plan, order>>
        /\ failure \in ModesStatuses
    BY <1>9 DEF Recover, ModesTypeOK, ModesStatuses
  <2>2. CASE mstage' = "recheck" /\ UNCHANGED <<job, words, failure, mresults>>
    <3>1. ModesTypeOK'
      BY <2>1, <2>2 DEF ModesTypeOK
    <3>2. Recorded'
      BY <2>1, <2>2, <1>b DEF Recorded
    <3> QED BY <3>1, <3>2
  <2>3. CASE JobDone(failure)
    BY <2>1, <2>3, DoneRecorded
  <2> QED BY <1>9, <2>2, <2>3 DEF Recover
<1>10. CASE AfterRecover
  <2>1. mstage = "recheck" /\ failure \in ModesStatuses
    BY <1>10 DEF AfterRecover, ModesTypeOK, ModesStatuses
  <2> QED BY <1>10, <2>1, DoneRecorded DEF AfterRecover
<1>11. CASE FinalAlive
  <2>1. /\ mstage = "final" /\ mstage' = "close" /\ mcode' = "0"
        /\ UNCHANGED <<jobs, job, words, failure, mresults, plan, order>>
    BY <1>11 DEF FinalAlive
  <2>2. ModesTypeOK'
    BY <2>1 DEF ModesTypeOK
  <2>3. Recorded'
    BY <2>1, <1>b DEF Recorded
  <2> QED BY <2>2, <2>3
<1>12. CASE ModesCloses
  <2>1. /\ mstage = "close" /\ mstage' = "over"
        /\ UNCHANGED <<jobs, job, words, failure, mresults, mcode, plan, order>>
    BY <1>12 DEF ModesCloses
  <2>2. ModesTypeOK'
    BY <2>1 DEF ModesTypeOK
  <2>3. Recorded'
    BY <2>1, <1>b DEF Recorded
  <2> QED BY <2>2, <2>3
<1> QED BY <1>1, <1>2, <1>3, <1>4, <1>5, <1>6, <1>7, <1>8, <1>9, <1>10, <1>11,
  <1>12 DEF ModesStep

LEMMA ModesAtRest ==
  ASSUME ModesInv, UNCHANGED modesVars
  PROVE  ModesInv'
<1> USE DEF ModesInv, modesVars
<1>1. ModesTypeOK'
  BY DEF ModesTypeOK
<1>2. Told' = Told /\ Lead' = Lead
  BY DEF Told, Lead
<1>3. Recorded'
  BY <1>2 DEF Recorded
<1> QED BY <1>1, <1>3

\* Every run has a job.
LEMMA JobsAreJobs ==
  ASSUME NEW m \in BOOLEAN, NEW p \in BOOLEAN, NEW i \in BOOLEAN
  PROVE  Jobs(m, p, i) \in Seq(Operations) /\ Len(Jobs(m, p, i)) >= 1
<1>1. Singles \in Nat /\ Inputs \in Nat
  BY ModesAssumption
<1>2. {"read", "table", "input", "mode", "period"} = Operations
  BY DEF Operations
<1>3. CASE m \/ p
  <2>1. Jobs(m, p, i) = (IF m THEN <<"mode">> ELSE <<>>)
                        \o (IF p THEN <<"period">> ELSE <<>>)
    BY <1>3 DEF Jobs
  <2>2. /\ <<"mode">> \in Seq(Operations) /\ Len(<<"mode">>) = 1
        /\ <<"period">> \in Seq(Operations) /\ Len(<<"period">>) = 1
        /\ <<>> \in Seq(Operations)
    BY <1>2
  <2>3. CASE m /\ p
    <3>1. Jobs(m, p, i) = <<"mode">> \o <<"period">>
      BY <2>1, <2>3
    <3> QED BY <2>2, <3>1, ConcatProperties
  <2>4. CASE m /\ ~ p
    <3>1. Jobs(m, p, i) = <<"mode">> \o <<>>
      BY <2>1, <2>4
    <3> QED BY <2>2, <3>1, ConcatEmptySeq
  <2>5. CASE ~ m /\ p
    <3>1. Jobs(m, p, i) = <<>> \o <<"period">>
      BY <2>1, <2>5
    <3> QED BY <2>2, <3>1, ConcatEmptySeq
  <2> QED BY <1>3, <2>3, <2>4, <2>5
<1>4. CASE ~ (m \/ p)
  <2> DEFINE reads  == [k \in 1 .. Singles |-> "read"]
             bound  == IF i THEN Inputs ELSE 0
             inputs == [k \in 1 .. bound |-> "input"]
  <2>1. bound \in Nat
    BY <1>1
  <2> HIDE DEF bound
  <2>2. reads \in Seq(Operations) /\ Len(reads) = Singles
    <3>1. reads \in [1 .. Singles -> Operations]
      BY <1>2
    <3> QED BY <1>1, <3>1, FunctionIsSeq
  <2>3. inputs \in Seq(Operations) /\ Len(inputs) = bound
    <3>1. inputs \in [1 .. bound -> Operations]
      BY <1>2
    <3> QED BY <2>1, <3>1, FunctionIsSeq
  <2>4. <<"table">> \in Seq(Operations) /\ Len(<<"table">>) = 1
    BY <1>2
  <2>5. Jobs(m, p, i) = (reads \o <<"table">>) \o inputs
    BY <1>4 DEF Jobs, bound
  <2> HIDE DEF reads, inputs
  <2>6. reads \o <<"table">> \in Seq(Operations)
        /\ Len(reads \o <<"table">>) = Singles + 1
    BY <2>2, <2>4, ConcatProperties
  <2> DEFINE first == reads \o <<"table">>
  <2> HIDE DEF first
  <2>7. /\ first \o inputs \in Seq(Operations)
        /\ Len(first \o inputs) = Len(first) + bound
    BY <2>3, <2>6, ConcatProperties DEF first
  <2>8. Len(first \o inputs) >= 1
    BY <1>1, <2>1, <2>6, <2>7 DEF first
  <2> QED BY <2>5, <2>7, <2>8 DEF first
<1> QED BY <1>3, <1>4

NewModes ==
  /\ \/ mstage = "off" /\ jobs = <<>> /\ job = 0
     \/ mstage = "connect" /\ jobs \in Seq(Operations) /\ Len(jobs) >= 1 /\ job = 1
  /\ words = 0 /\ failure = "none" /\ mresults = <<>> /\ mcode = "none"
  /\ plan \in Plans /\ order \in Orders

LEMMA FreshModes == NewModes => ModesInv
<1> SUFFICES ASSUME NewModes
             PROVE  ModesInv
  OBVIOUS
<1> USE DEF NewModes
<1>1. Told = 0 /\ mresults \in Seq(Entries)
  BY NoneTold, EmptySeq
<1>2. jobs \in Seq(Operations) /\ Len(jobs) \in Nat /\ job \in 0 .. Len(jobs)
  <2>1. CASE jobs = <<>> /\ job = 0
    BY <2>1, EmptySeq
  <2>2. CASE jobs \in Seq(Operations) /\ Len(jobs) >= 1 /\ job = 1
    <3>1. Len(jobs) \in Nat
      BY <2>2, LenProperties
    <3> QED BY <2>2, <3>1
  <2> QED BY <2>1, <2>2
<1>3. ModesTypeOK
  BY <1>1, <1>2 DEF ModesTypeOK, Entries, ModesStatuses, PeriodRegisters
<1>4. Recorded
  BY <1>1 DEF Recorded
<1> QED BY <1>3, <1>4 DEF ModesInv

LEMMA ForgottenModes == ModesForgotten => ModesInv' /\ mstage' = "off"
<1> SUFFICES ASSUME ModesForgotten
             PROVE  ModesInv' /\ mstage' = "off"
  OBVIOUS
<1>1. NewModes' /\ mstage' = "off"
  BY ModesAssumption DEF ModesForgotten, ModesReset, NewModes, Orders
<1>2. NewModes' => ModesInv'
  BY FreshModes, PTL
<1> QED BY <1>1, <1>2

LEMMA StartedModes ==
  ASSUME NEW m \in BOOLEAN, NEW p \in BOOLEAN, NEW i \in BOOLEAN,
         NEW table \in Plans, NEW o \in Orders, ModesStarts(m, p, i, table, o)
  PROVE  ModesInv'
<1> DEFINE js == Jobs(m, p, i)
<1>1. js \in Seq(Operations) /\ Len(js) >= 1
  BY JobsAreJobs
<1> HIDE DEF js
<1>2. js # <<>>
  BY <1>1, EmptySeq
<1>3. NewModes'
  <2>1. ModesReset("connect", js, table, o)
    BY DEF ModesStarts, js
  <2> QED BY <1>1, <1>2, <2>1 DEF ModesReset, NewModes
<1>4. NewModes' => ModesInv'
  BY FreshModes, PTL
<1> QED BY <1>3, <1>4

\* Decoding does not depend on the state: what the device emits is its plan.
LEMMA TablesDecode ==
  ASSUME NEW p \in Plans \ {<<>>}, NEW o \in Orders
  PROVE  \/ Decodings[p][o] = [order |-> o, events |-> p]
         \/ o = "swapped" /\ \A k \in DOMAIN p : ~ Recognisable(p[k])
<1>1. p \in AppPeriods /\ DOMAIN p = 1 .. 2
  BY ModesAssumption DEF AppPeriods
<1>2. Decodings[p][o] = DecodeTable(Emitted(p, o))
  BY DEF Decodings
<1>3. CASE o = "as-is"
  BY <1>1, <1>2, <1>3, AsIsTableDecodes DEF Emitted
<1>4. CASE o = "swapped" /\ \E i \in 1 .. 2 : Recognisable(p[i])
  BY <1>1, <1>2, <1>4, SwappedTableDecodes DEF Emitted
<1> QED BY <1>1, <1>3, <1>4 DEF Orders
-----------------------------------------------------------------------------
(* The session. *)

OneAtATime ==
  /\ stage  # "off" => wstage = "off" /\ mstage = "off"
  /\ wstage # "off" => stage = "off"  /\ mstage = "off"
  /\ mstage # "off" => stage = "off"  /\ wstage = "off"

HardwareInv ==
  /\ LinkTypeOK
  /\ open \in BOOLEAN
  /\ OneAtATime
  /\ ProbeInv
  /\ WriteInv
  /\ ModesInv

LEMMA HardwareInit == Init => HardwareInv
<1> SUFFICES ASSUME Init
             PROVE  HardwareInv
  OBVIOUS
<1> USE DEF Init
<1>1. LinkTypeOK /\ open \in BOOLEAN /\ SettingTyped
  <2>1. hush = 0 /\ faults = 0 /\ open = FALSE /\ held \in Settings /\ late = {}
    BY DEF DeviceInit
  <2>2. LinkTypeOK
    BY <2>1, Bounds DEF LinkTypeOK
  <2> QED BY <2>1, <2>2 DEF SettingTyped
<1>2. stage = "off" /\ wstage = "off" /\ mstage = "off"
  BY DEF ProbeInit, WriteInit, ModesInit
<1>3. ProbeInv
  <2>1. NewProbe
    BY ServesNothingServes DEF ProbeInit, NewProbe
  <2> QED BY <2>1, FreshProbe
<1>4. WriteInv
  BY <1>1 DEF WriteInit, WriteInv, WriteTypeOK, Accounted
<1>5. ModesInv
  <2>1. NewModes
    BY ModesAssumption DEF ModesInit, NewModes, Orders
  <2> QED BY <2>1, FreshModes
<1> QED BY <1>1, <1>2, <1>3, <1>4, <1>5 DEF HardwareInv, OneAtATime

LEMMA TimePasses ==
  ASSUME LinkTypeOK, open \in BOOLEAN, TimePassed
  PROVE  LinkTypeOK' /\ open' \in BOOLEAN
BY Bounds DEF LinkTypeOK, TimePassed

LEMMA StepsAreRuns ==
  /\ ProbeStep => stage # "off"
  /\ WriteStep => wstage # "off"
  /\ ModesStep => mstage # "off"
<1>1. ProbeStep => stage # "off"
  BY DEF ProbeStep, ProbeConnects, FirstCheck, WordRead, CrossCheck, Rejected,
    ProbeException, ProbeUnreadable, ProbeLost, Reopen, Recheck, FinalCheck,
    ProbeCloses
<1>2. WriteStep => wstage # "off"
  BY DEF WriteStep, WriteConnects, ReadBefore, WriteSame, ReadAfter, WriteNew,
    ReadNew, Restore, ReadRestored, WriteCloses
<1>3. ModesStep => mstage # "off"
  BY DEF ModesStep, ModesConnects, Alive, ReadVersion, ReadWord, Written,
    Refuses, NoReadableReply, Lost, Recover, AfterRecover, FinalAlive,
    ModesCloses
<1> QED BY <1>1, <1>2, <1>3

LEMMA HardwareStep ==
  ASSUME HardwareInv, [Next]_vars
  PROVE  HardwareInv'
<1> USE DEF HardwareInv
<1>0. SettingTyped
  BY DEF WriteInv
<1>1. CASE StartRegisterProbe
  <2>1. PICK s \in Services, b \in BOOLEAN : ProbeStarts(s, b)
    BY <1>1 DEF StartRegisterProbe
  <2>2. ProbeInv'
    BY <2>1, ResetProbe DEF ProbeStarts
  <2>3. LinkTypeOK' /\ open' \in BOOLEAN /\ SettingTyped'
    BY <1>0, <1>1, TimePasses, SettledTyped DEF StartRegisterProbe
  <2>4. WriteInv' /\ wstage' = "off" /\ ModesInv' /\ mstage' = "off"
    BY <1>1, <2>3, ForgottenWrite, ForgottenModes DEF StartRegisterProbe
  <2> QED BY <2>2, <2>3, <2>4 DEF OneAtATime
<1>2. CASE StartWriteProbe
  <2>1. PICK v \in Settings \cup {NoValue}, k \in BOOLEAN : WriteStarts(v, k)
    BY <1>2 DEF StartWriteProbe
  <2>2. WriteInv'
    BY <1>2, <2>1, StartedWrite DEF StartWriteProbe
  <2>3. LinkTypeOK' /\ open' \in BOOLEAN
    BY <1>2, TimePasses DEF StartWriteProbe
  <2>4. ProbeInv' /\ stage' = "off" /\ ModesInv' /\ mstage' = "off"
    BY <1>2, ForgottenProbe, ForgottenModes DEF StartWriteProbe
  <2> QED BY <2>2, <2>3, <2>4 DEF OneAtATime
<1>3. CASE StartModesProbe
  <2>1. ModesInv'
    <3>1. ASSUME NEW m \in BOOLEAN, NEW p \in BOOLEAN,
                 ModesStarts(m, p, FALSE, <<>>, "as-is")
          PROVE  ModesInv'
      <4>1. <<>> \in Plans /\ "as-is" \in Orders /\ FALSE \in BOOLEAN
        BY ModesAssumption DEF Orders
      <4> QED BY <3>1, <4>1, StartedModes
    <3>2. ASSUME NEW i \in BOOLEAN, NEW p \in Plans, NEW o \in Orders,
                 ModesStarts(FALSE, FALSE, i, p, o)
          PROVE  ModesInv'
      <4>1. FALSE \in BOOLEAN
        OBVIOUS
      <4> QED BY <3>2, <4>1, StartedModes
    <3> QED BY <1>3, <3>1, <3>2 DEF StartModesProbe
  <2>2. LinkTypeOK' /\ open' \in BOOLEAN /\ SettingTyped'
    BY <1>0, <1>3, TimePasses, SettledTyped DEF StartModesProbe
  <2>3. ProbeInv' /\ stage' = "off" /\ WriteInv' /\ wstage' = "off"
    BY <1>3, <2>2, ForgottenProbe, ForgottenWrite DEF StartModesProbe
  <2> QED BY <2>1, <2>2, <2>3 DEF OneAtATime
<1>4. CASE ProbeStep /\ SettingKept /\ UNCHANGED <<writeVars, modesVars>>
  <2>1. LinkTypeOK' /\ open' \in BOOLEAN
    BY <1>4, ProbeUsesLink, LinkStaysTyped, OpenStaysBoolean
  <2>2. ProbeInv'
    BY <1>4, <2>1, ProbeInvStep
  <2>3. WriteInv' /\ ModesInv'
    BY <1>4, WriteAtRest, ModesAtRest
  <2>4. OneAtATime'
    BY <1>4, StepsAreRuns DEF OneAtATime, writeVars, modesVars
  <2> QED BY <2>1, <2>2, <2>3, <2>4
<1>5. CASE WriteStep /\ UNCHANGED <<probeVars, modesVars>>
  <2>1. LinkTypeOK' /\ open' \in BOOLEAN
    BY <1>5, WriteUsesLink, LinkStaysTyped, OpenStaysBoolean
  <2>2. WriteInv' /\ ModesInv'
    BY <1>5, WriteInvStep, ModesAtRest
  <2>3. stage = "off" /\ mstage = "off" /\ stage' = "off" /\ mstage' = "off"
    BY <1>5, StepsAreRuns DEF OneAtATime, probeVars, modesVars
  <2>4. ProbeInv'
    BY <1>5, <2>3, ProbeAtRest
  <2> QED BY <2>1, <2>2, <2>3, <2>4 DEF OneAtATime
<1>6. CASE ModesStep /\ SettingKept /\ UNCHANGED <<probeVars, writeVars>>
  <2>1. LinkTypeOK' /\ open' \in BOOLEAN
    BY <1>6, ModesUsesLink, LinkStaysTyped, OpenStaysBoolean
  <2>2. WriteInv' /\ ModesInv'
    BY <1>6, ModesInvStep, WriteAtRest
  <2>3. stage = "off" /\ wstage = "off" /\ stage' = "off" /\ wstage' = "off"
    BY <1>6, StepsAreRuns DEF OneAtATime, probeVars, writeVars
  <2>4. ProbeInv'
    BY <1>6, <2>3, ProbeAtRest
  <2> QED BY <2>1, <2>2, <2>3, <2>4 DEF OneAtATime
<1>7. CASE Exits
  <2>1. ProbeInv' /\ stage' = "off" /\ ModesInv' /\ mstage' = "off"
    BY <1>7, ForgottenProbe, ForgottenModes DEF Exits
  <2>2. LinkTypeOK' /\ open' \in BOOLEAN /\ SettingTyped'
    BY <1>0, <1>7 DEF Exits, deviceVars, LinkTypeOK, SettingTyped
  <2>3. WriteInv' /\ wstage' = "off"
    BY <1>7, <2>2, ForgottenWrite DEF Exits
  <2> QED BY <2>1, <2>2, <2>3 DEF OneAtATime
<1>8. CASE LateWrite
  <2>1. PICK v \in Settings : TakesLate(v)
    BY <1>8 DEF LateWrite
  <2>2. WriteInv' /\ ModesInv'
    BY <1>8, <2>1, LateWriteInv, ModesAtRest DEF LateWrite
  <2>3. UNCHANGED <<open, hush, faults>>
    BY <2>1 DEF TakesLate, linkVars
  <2>4. ProbeInv' /\ LinkTypeOK' /\ open' \in BOOLEAN
    BY <1>8, <2>3, ProbeAtRest DEF LateWrite, LinkTypeOK
  <2>5. OneAtATime'
    BY <1>8 DEF LateWrite, OneAtATime, probeVars, writeVars, modesVars
  <2> QED BY <2>2, <2>4, <2>5
<1>9. CASE UNCHANGED vars
  <2> USE <1>9 DEF vars
  <2>1. WriteInv'
    BY WriteAtRest DEF deviceVars, SettingKept
  <2>2. ModesInv'
    BY ModesAtRest
  <2>3. ProbeInv'
    BY ProbeAtRest DEF deviceVars
  <2>4. LinkTypeOK' /\ open' \in BOOLEAN
    BY DEF deviceVars, LinkTypeOK
  <2>5. OneAtATime'
    BY DEF OneAtATime, probeVars, writeVars, modesVars
  <2> QED BY <2>1, <2>2, <2>3, <2>4, <2>5
<1> QED BY <1>1, <1>2, <1>3, <1>4, <1>5, <1>6, <1>7, <1>8, <1>9
  DEF Next, ScriptStep

LEMMA HardwareInvariant == Spec => []HardwareInv
BY HardwareInit, HardwareStep, PTL DEF Spec
-----------------------------------------------------------------------------
\* In every session every variable has its type.
THEOREM HardwareTyped == Spec => []HardwareTypeOK
<1>1. HardwareInv => HardwareTypeOK
  <2> SUFFICES ASSUME HardwareInv
               PROVE  HardwareTypeOK
    OBVIOUS
  <2>1. DeviceTypeOK
    BY DEF HardwareInv, LinkTypeOK, WriteInv, SettingTyped, DeviceTypeOK
  <2>2. ProbeTypeOK
    <3>1. code \in {"none", "0", "2"}
      BY DEF HardwareInv, ProbeInv, Reported
    <3> QED BY <3>1 DEF HardwareInv, ProbeInv, Reported, ProbeTyped, ProbeStages,
      ProbeTypeOK
  <2> QED BY <2>1, <2>2 DEF HardwareInv, WriteInv, ModesInv, HardwareTypeOK
<1> QED BY <1>1, HardwareInvariant, PTL

\* The report of probe_unexplored_registers.py names every candidate once, in
\* order, however its requests ended and wherever the run stopped.
THEOREM ReportComplete == Spec => []EveryCandidateOnce
<1>1. HardwareInv => EveryCandidateOnce
  <2> SUFFICES ASSUME HardwareInv
               PROVE  EveryCandidateOnce
    OBVIOUS
  <2>1. Reported
    BY DEF HardwareInv, ProbeInv
  <2>2. results \in Seq(Records) /\ DOMAIN results = 1 .. Len(results)
    BY <2>1, LenProperties DEF Reported
  <2>3. Len(results) = 0 => results = <<>>
    BY <2>2, EmptySeq
  <2> QED BY <2>1, <2>2, <2>3 DEF Reported, EveryCandidateOnce
<1> QED BY <1>1, HardwareInvariant, PTL

\* What it says of a candidate is what the device serves of it.
THEOREM ReportTrue == Spec => []StatusIsTheDevices
<1>1. HardwareInv => StatusIsTheDevices
  <2> SUFFICES ASSUME HardwareInv
               PROVE  StatusIsTheDevices
    OBVIOUS
  <2>1. AllTrue /\ DOMAIN results = 1 .. Len(results)
    BY LenProperties DEF HardwareInv, ProbeInv, Reported
  <2> QED BY <2>1 DEF AllTrue, TrueOf, StatusIsTheDevices
<1> QED BY <1>1, HardwareInvariant, PTL

\* No candidate is asked for after a failure before the device has answered
\* its liveness register.
THEOREM LivenessFirst == Spec => []ProbesAfterLiveness
<1>1. HardwareInv => ProbesAfterLiveness
  BY DEF HardwareInv, ProbeInv, Watched, ProbesAfterLiveness
<1> QED BY <1>1, HardwareInvariant, PTL

\* --max-timeouts is kept to, whatever recover() and lost links do in between.
THEOREM TimeoutsLimited == Spec => []BadRunsBounded
<1>1. HardwareInv => BadRunsBounded
  <2> SUFFICES ASSUME HardwareInv, MaxTimeouts > 0,
                      NEW i \in DOMAIN results, NEW j \in DOMAIN results,
                      \A k \in i .. j : results[k].status \in Unanswered
               PROVE  /\ Cardinality(BadIn(results, i, j)) <= MaxTimeouts
                      /\ Cardinality(BadIn(results, i, j)) = MaxTimeouts
                           => stage # "probe"
    BY DEF BadRunsBounded, BadIn
  <2>1. /\ i \in 1 .. Len(results) /\ j \in 1 .. Len(results)
        /\ i \in Nat /\ j \in Nat /\ MaxTimeouts \in Nat
    BY LenProperties, ProbeAssumption DEF HardwareInv, ProbeInv, Reported
  <2>2. Only(results, i, j) /\ Limited
    BY DEF Only, HardwareInv, ProbeInv
  <2>3. Cardinality(BadIn(results, i, j)) <= MaxTimeouts
    BY <2>1, <2>2 DEF Limited, AtMost
  <2>4. ASSUME stage = "probe"
        PROVE  Cardinality(BadIn(results, i, j)) # MaxTimeouts
    <3>1. Cardinality(BadIn(results, i, j)) <= MaxTimeouts - 1
      BY <2>1, <2>2, <2>4 DEF Limited, AtMost, Going
    <3>2. Cardinality(BadIn(results, i, j)) \in Nat
      BY <2>1, BadInFinite
    <3> QED BY <2>1, <3>1, <3>2
  <2> QED BY <2>3, <2>4
<1> QED BY <1>1, HardwareInvariant, PTL

\* A silence that recover() waits out does not end the run.
THEOREM WaitsLongEnough == Spec => []ShortSilenceSurvived
<1>1. HardwareInv => ShortSilenceSurvived
  <2> SUFFICES ASSUME HardwareInv, stage = "final",
                      NEW i \in DOMAIN results, results[i].status = Skipped
               PROVE  Excused
    BY DEF ShortSilenceSurvived, Excused
  <2>1. i \in 1 .. Len(results)
    BY LenProperties DEF HardwareInv, ProbeInv, Reported
  <2> QED BY <2>1 DEF HardwareInv, ProbeInv, Waited, NoneSkipped
<1> QED BY <1>1, HardwareInvariant, PTL

\* A run of write_probe.py that ends with 0 left the setting as it says.
THEOREM CleanExitIsTrue == Spec => []CleanExitRestores
<1>1. HardwareInv => CleanExitRestores
  BY DEF HardwareInv, WriteInv, Accounted, CleanExitRestores, WriteOver
<1> QED BY <1>1, HardwareInvariant, PTL

\* "Nothing was written", or changed, is true even of a write that timed out.
THEOREM NothingChanged == Spec => []NothingChangedIsTrue
<1>1. HardwareInv => NothingChangedIsTrue
  BY DEF HardwareInv, WriteInv, Accounted, NothingChangedIsTrue, WriteOver
<1> QED BY <1>1, HardwareInvariant, PTL

\* Every job of balco_modes_probe.py has its record, in order.
THEOREM JobsRecorded == Spec => []EveryJobRecorded
<1>1. HardwareInv => EveryJobRecorded
  <2> SUFFICES ASSUME HardwareInv
               PROVE  EveryJobRecorded
    OBVIOUS
  <2>1. Recorded /\ ModesTypeOK
    BY DEF HardwareInv, ModesInv
  <2> QED BY <2>1 DEF Recorded, Told, EveryJobRecorded
<1> QED BY <1>1, HardwareInvariant, PTL

\* Any period of the app, in either byte order, is told as the device stores it
\* if one of its records is recognisable or the order is the plain one.
THEOREM TablesAreTold == Spec => []TableDecodedAsStored
<1>1. HardwareInv => TableDecodedAsStored
  <2> SUFFICES ASSUME HardwareInv
               PROVE  TableDecodedAsStored
    OBVIOUS
  <2>1. plan \in Plans /\ order \in Orders
    BY DEF HardwareInv, ModesInv, ModesTypeOK
  <2>2. CASE plan = <<>>
    BY <2>2 DEF TableDecodedAsStored
  <2>3. CASE plan # <<>>
    BY <2>1, <2>3, TablesDecode DEF TableDecodedAsStored
  <2> QED BY <2>2, <2>3
<1> QED BY <1>1, HardwareInvariant, PTL
-----------------------------------------------------------------------------
(* What is left of a run: the part of it, in descending order; the candidates
   or jobs left in that part; the steps left with the one at hand. *)

Lower(r, s) ==
  \/ r[1] < s[1]
  \/ r[1] = s[1] /\ r[2] < s[2]
  \/ r[1] = s[1] /\ r[2] = s[2] /\ r[3] < s[3]

ProbePart ==
  CASE stage = "connect" -> 6 [] stage = "check" -> 5
    [] stage = "final" -> 3   [] stage = "close" -> 2
    [] stage = "over" -> 1    [] stage = "off" -> 0
    [] OTHER -> 4

\* Of a candidate's steps the words come first, two attempts of recover() at
\* most after them, or the comparison of what was read.
ProbeSteps ==
  CASE stage = "probe" -> 5 + (Words[at] - word)
    [] stage = "recover" -> 4 - 2 * tries
    [] stage = "recheck" -> 3 - 2 * tries
    [] OTHER -> 1

ProbeRank == <<ProbePart, Len(Words) - at, ProbeSteps>>

LEMMA ProbeRanked ==
  ASSUME at \in Candidates, ProbeTyped
  PROVE  /\ ProbeRank \in Nat \X Nat \X Nat
         /\ ProbePart = 0 <=> stage = "off"
<1>1. ProbePart \in Nat /\ (ProbePart = 0 <=> stage = "off")
  BY DEF ProbePart
<1>2. Len(Words) - at \in Nat
  BY CandidateFacts DEF Candidates
<1>3. ProbeSteps \in Nat
  <2>1. Words[at] - word \in Nat
    BY CandidateFacts DEF ProbeTyped
  <2>2. tries = 0 \/ tries = 1
    BY DEF ProbeTyped
  <2> QED BY <2>1, <2>2 DEF ProbeSteps
<1> QED BY <1>1, <1>2, <1>3 DEF ProbeRank

\* The next candidate has one less after it; after the last comes the end.
LEMMA ProceedLower ==
  ASSUME at \in Candidates, stage \in {"probe", "cross", "recover", "recheck"},
         Proceed
  PROVE  Lower(ProbeRank', ProbeRank)
<1>1. Len(Words) \in Nat /\ at \in Nat
  BY CandidateFacts
<1>2. ProbePart = 4
  BY DEF ProbePart
<1>3. CASE at = Len(Words)
  <2>1. ProbePart' = 3
    BY <1>3 DEF Proceed, ProbePart
  <2> QED BY <1>2, <2>1 DEF Lower, ProbeRank
<1>4. CASE at # Len(Words)
  <2>1. ProbePart' = 4 /\ Len(Words) - at' < Len(Words) - at
    BY <1>1, <1>4 DEF Proceed, ProbePart
  <2> QED BY <1>2, <2>1 DEF Lower, ProbeRank
<1> QED BY <1>3, <1>4

\* An attempt of recover() that fails is followed by the second, or by none.
LEMMA AttemptLower ==
  ASSUME ProbeTyped, stage \in {"recover", "recheck"}, AttemptFailed
  PROVE  Lower(ProbeRank', ProbeRank)
<1>1. ProbePart = 4 /\ tries \in 0 .. 1
  BY DEF ProbePart, ProbeTyped
<1>2. CASE tries = 0
  <2>1. ProbePart' = 4 /\ at' = at /\ ProbeSteps' = 2 /\ ProbeSteps >= 3
    BY <1>2 DEF AttemptFailed, ProbePart, ProbeSteps
  <2> QED BY <1>1, <2>1 DEF Lower, ProbeRank, ProbeSteps
<1>3. CASE tries # 0
  <2>1. ProbePart' = 3
    BY <1>3 DEF AttemptFailed, Stop, ProbePart
  <2> QED BY <1>1, <2>1 DEF Lower, ProbeRank
<1> QED BY <1>2, <1>3

\* recover() comes after all words of a candidate, read or not.
LEMMA RecoverFromLower ==
  ASSUME at \in Candidates, ProbeTyped, stage = "probe", RecoverFrom
  PROVE  Lower(ProbeRank', ProbeRank)
<1>1. ProbePart = 4 /\ ProbePart' = 4 /\ at' = at
  BY DEF ProbePart, RecoverFrom
<1>2. ProbeSteps \in Nat /\ ProbeSteps > 5
  BY CandidateFacts DEF ProbeSteps, ProbeTyped
<1>3. ProbeSteps' = 4
  BY DEF ProbeSteps, RecoverFrom, ProbeTyped
<1> QED BY <1>1, <1>2, <1>3 DEF Lower, ProbeRank

LEMMA ProbeRunsOut ==
  ASSUME at \in Candidates, ProbeTyped, ProbeStep
  PROVE  Lower(ProbeRank', ProbeRank)
<1>1. CASE ProbeConnects \/ FirstCheck \/ FinalCheck \/ ProbeCloses
  <2>1. \/ stage = "connect" /\ stage' \in {"check", "over"}
        \/ stage = "check" /\ stage' \in {"probe", "close"}
        \/ stage = "final" /\ stage' = "close"
        \/ stage = "close" /\ stage' = "over"
    BY <1>1 DEF ProbeConnects, FirstCheck, FinalCheck, ProbeCloses
  <2>2. ProbePart' < ProbePart
    BY <2>1 DEF ProbePart
  <2> QED BY <2>2 DEF Lower, ProbeRank
<1>2. CASE WordRead
  <2>1. stage = "probe" /\ ProbePart = 4
    BY <1>2 DEF WordRead, ProbePart
  <2>2. Words[at] \in Nat /\ word \in Nat /\ word < Words[at]
    BY CandidateFacts DEF ProbeTyped
  <2>3. ProbeSteps = 5 + (Words[at] - word)
    BY <2>1 DEF ProbeSteps
  <2>4. CASE word' = word + 1 /\ UNCHANGED <<stage, at>>
    <3>1. ProbePart' = 4 /\ ProbeSteps' = 5 + (Words[at] - (word + 1))
      BY <2>1, <2>4 DEF ProbePart, ProbeSteps
    <3> QED BY <2>1, <2>2, <2>3, <2>4, <3>1 DEF Lower, ProbeRank
  <2>5. CASE stage' = "cross" /\ UNCHANGED at
    <3>1. ProbePart' = 4 /\ ProbeSteps' = 1
      BY <2>5 DEF ProbePart, ProbeSteps
    <3> QED BY <2>1, <2>2, <2>3, <2>5, <3>1 DEF Lower, ProbeRank
  <2>6. CASE Proceed
    BY <2>1, <2>6, ProceedLower
  <2> QED BY <1>2, <2>4, <2>5, <2>6 DEF WordRead
<1>3. CASE CrossCheck \/ Rejected \/ ProbeException
  BY <1>3, ProceedLower DEF CrossCheck, Rejected, ProbeException
<1>4. ASSUME NEW s \in Unreadable, ProbeUnreadable(s)
      PROVE  Lower(ProbeRank', ProbeRank)
  <2>1. stage = "probe"
    BY <1>4 DEF ProbeUnreadable
  <2>2. CASE stage' = "final"
    <3>1. ProbePart' < ProbePart
      BY <2>1, <2>2 DEF ProbePart
    <3> QED BY <3>1 DEF Lower, ProbeRank
  <2>3. CASE RecoverFrom
    BY <2>1, <2>3, RecoverFromLower
  <2> QED BY <1>4, <2>2, <2>3 DEF ProbeUnreadable, Stop
<1>5. CASE ProbeLost
  BY <1>5, RecoverFromLower DEF ProbeLost
<1>6. CASE Reopen
  <2>1. stage = "recover"
    BY <1>6 DEF Reopen
  <2>2. CASE stage' = "recheck" /\ UNCHANGED <<at, tries>>
    <3>1. ProbePart = 4 /\ ProbePart' = 4
      BY <2>1, <2>2 DEF ProbePart
    <3>2. tries \in 0 .. 1
      BY DEF ProbeTyped
    <3>3. ProbeSteps' < ProbeSteps
      BY <2>1, <2>2, <3>2 DEF ProbeSteps
    <3> QED BY <2>2, <3>1, <3>3 DEF Lower, ProbeRank
  <2>3. CASE AttemptFailed
    BY <2>1, <2>3, AttemptLower
  <2> QED BY <1>6, <2>2, <2>3 DEF Reopen
<1>7. CASE Recheck
  BY <1>7, ProceedLower, AttemptLower DEF Recheck
<1> QED BY <1>1, <1>2, <1>3, <1>4, <1>5, <1>6, <1>7 DEF ProbeStep

\* The steps of write_probe.py come once each, in this order.
WritePart ==
  IF wstage = "connect"            THEN 10
  ELSE IF wstage = "before"        THEN 9
  ELSE IF wstage = "sameValue"    THEN 8
  ELSE IF wstage = "after"         THEN 7
  ELSE IF wstage = "newValue"     THEN 6
  ELSE IF wstage = "afterNew"     THEN 5
  ELSE IF wstage = "restore"       THEN 4
  ELSE IF wstage = "afterRestore" THEN 3
  ELSE IF wstage = "close"         THEN 2
  ELSE IF wstage = "over"          THEN 1 ELSE 0

WriteRank == <<WritePart, 0, 0>>

LEMMA WriteRanked ==
  ASSUME WriteTypeOK
  PROVE  /\ WriteRank \in Nat \X Nat \X Nat
         /\ WritePart = 0 <=> wstage = "off"
<1>1. wstage \in {"off", "connect", "before", "sameValue", "after", "newValue",
                  "afterNew", "restore", "afterRestore", "close", "over"}
  BY DEF WriteTypeOK
<1>2. WritePart \in Nat /\ (WritePart = 0 <=> wstage = "off")
  BY <1>1 DEF WritePart
<1> QED BY <1>2 DEF WriteRank

LEMMA WriteRunsOut == WriteStep => Lower(WriteRank', WriteRank)
<1> SUFFICES ASSUME WriteStep
             PROVE  Lower(WriteRank', WriteRank)
  OBVIOUS
<1> DEFINE Goes(here, there) == wstage = here /\ wstage' \in there
<1> USE DEF Continue, Return
<1>1. WriteConnects => Goes("connect", {"before", "over"})
  BY Zenon DEF WriteConnects
<1>2. ReadBefore => Goes("before", {"sameValue", "close"})
  BY Zenon DEF ReadBefore
<1>3. WriteSame => Goes("sameValue", {"after", "close"})
  BY Zenon DEF WriteSame
<1>4. ReadAfter => Goes("after", {"newValue", "close"})
  BY Zenon DEF ReadAfter
<1>5. WriteNew => Goes("newValue", {"afterNew", "close"})
  BY Zenon DEF WriteNew
<1>6. ReadNew => Goes("afterNew", {"restore", "close"})
  BY Zenon DEF ReadNew
<1>7. Restore => Goes("restore", {"afterRestore", "close"})
  BY Zenon DEF Restore
<1>8. ReadRestored => Goes("afterRestore", {"close"})
  BY Zenon DEF ReadRestored
<1>9. WriteCloses => Goes("close", {"over"})
  BY Zenon DEF WriteCloses
<1>10. \/ Goes("connect", {"before", "over"})
       \/ Goes("before", {"sameValue", "close"})
       \/ Goes("sameValue", {"after", "close"})
       \/ Goes("after", {"newValue", "close"})
       \/ Goes("newValue", {"afterNew", "close"})
       \/ Goes("afterNew", {"restore", "close"})
       \/ Goes("restore", {"afterRestore", "close"})
       \/ Goes("afterRestore", {"close"})
       \/ Goes("close", {"over"})
  BY <1>1, <1>2, <1>3, <1>4, <1>5, <1>6, <1>7, <1>8, <1>9, Zenon DEF WriteStep
<1>11. WritePart' < WritePart
  BY <1>10 DEF WritePart
<1> QED BY <1>11 DEF Lower, WriteRank

ModesPart ==
  CASE mstage = "connect" -> 7 [] mstage = "alive" -> 6
    [] mstage = "version" -> 5 [] mstage = "final" -> 3
    [] mstage = "close" -> 2   [] mstage = "over" -> 1
    [] mstage = "off" -> 0     [] OTHER -> 4

\* Of a job's steps the words come first, one attempt of recover() after them.
ModesSteps ==
  CASE mstage = "job" -> 2 + (PeriodRegisters - words)
    [] mstage = "recover" -> 2
    [] OTHER -> 1

ModesRank == <<ModesPart, Len(jobs) - job, ModesSteps>>

LEMMA ModesRanked ==
  ASSUME ModesTypeOK
  PROVE  /\ ModesRank \in Nat \X Nat \X Nat
         /\ ModesPart = 0 <=> mstage = "off"
<1>1. ModesPart \in Nat /\ (ModesPart = 0 <=> mstage = "off")
  BY DEF ModesPart
<1>2. Len(jobs) - job \in Nat
  BY JobFacts
<1>3. ModesSteps \in Nat
  BY DEF ModesTypeOK, ModesSteps, PeriodRegisters
<1> QED BY <1>1, <1>2, <1>3 DEF ModesRank

LEMMA NextJobLower ==
  ASSUME ModesTypeOK, mstage \in {"job", "recover", "recheck"}, NextJob,
         UNCHANGED jobs
  PROVE  Lower(ModesRank', ModesRank)
<1>1. Len(jobs) \in Nat /\ job \in Nat
  BY JobFacts
<1>2. ModesPart = 4
  BY DEF ModesPart
<1>3. CASE job = Len(jobs)
  <2>1. ModesPart' = 3
    BY <1>3 DEF NextJob, ModesPart
  <2> QED BY <1>2, <2>1 DEF Lower, ModesRank
<1>4. CASE job # Len(jobs)
  <2>1. ModesPart' = 4 /\ Len(jobs) - job' < Len(jobs) - job
    BY <1>1, <1>4 DEF NextJob, ModesPart
  <2> QED BY <1>2, <2>1 DEF Lower, ModesRank
<1> QED BY <1>3, <1>4

LEMMA ModesRunsOut ==
  ASSUME ModesTypeOK, ModesStep
  PROVE  Lower(ModesRank', ModesRank)
<1>1. CASE ModesConnects \/ Alive \/ ReadVersion \/ Lost \/ FinalAlive \/ ModesCloses
  <2>1. ModesPart' < ModesPart
    BY <1>1 DEF ModesConnects, Alive, ReadVersion, Lost, FinalAlive, ModesCloses,
      ModesPart
  <2> QED BY <2>1 DEF Lower, ModesRank
<1>2. CASE ReadWord
  <2>1. mstage = "job" /\ UNCHANGED jobs /\ ModesPart = 4
    BY <1>2 DEF ReadWord, ModesPart
  <2>2. CASE words' = words + 1 /\ UNCHANGED <<mstage, job>>
    <3>1. ModesPart' = 4 /\ ModesSteps' < ModesSteps
      BY <2>1, <2>2 DEF ModesPart, ModesSteps, ModesTypeOK, PeriodRegisters
    <3> QED BY <2>1, <2>2, <3>1 DEF Lower, ModesRank
  <2>3. CASE NextJob
    BY <2>1, <2>3, NextJobLower
  <2> QED BY <1>2, <2>2, <2>3 DEF ReadWord, JobDone
<1>3. CASE Written \/ Refuses \/ AfterRecover
  BY <1>3, NextJobLower DEF Written, Refuses, AfterRecover, JobDone
<1>4. CASE NoReadableReply
  <2>1. ModesPart = 4 /\ ModesPart' = 4 /\ UNCHANGED <<jobs, job>>
    BY <1>4 DEF NoReadableReply, ModesPart
  <2>2. ModesSteps' < ModesSteps
    BY <1>4 DEF NoReadableReply, ModesSteps, ModesTypeOK, PeriodRegisters
  <2> QED BY <2>1, <2>2 DEF Lower, ModesRank
<1>5. CASE Recover
  <2>1. mstage = "recover" /\ UNCHANGED jobs
    BY <1>5 DEF Recover
  <2>2. CASE mstage' = "recheck" /\ UNCHANGED job
    <3>1. ModesPart = 4 /\ ModesPart' = 4 /\ ModesSteps = 2 /\ ModesSteps' = 1
      BY <2>1, <2>2 DEF ModesPart, ModesSteps
    <3> QED BY <2>1, <2>2, <3>1 DEF Lower, ModesRank
  <2>3. CASE NextJob
    BY <2>1, <2>3, NextJobLower
  <2> QED BY <1>5, <2>2, <2>3 DEF Recover, JobDone
<1> QED BY <1>1, <1>2, <1>3, <1>4, <1>5 DEF ModesStep

\* What is left of the run that is under way, if there is one.
Rank ==
  IF stage # "off" THEN ProbeRank
  ELSE IF wstage # "off" THEN WriteRank
  ELSE ModesRank

LEMMA Ranked ==
  ASSUME HardwareInv
  PROVE  /\ Rank \in Nat \X Nat \X Nat
         /\ AtRest <=> Rank[1] = 0
<1> USE DEF HardwareInv
<1>1. /\ ProbeRank \in Nat \X Nat \X Nat
      /\ ProbeRank[1] = 0 <=> stage = "off"
  BY ProbeRanked DEF ProbeInv, Reported, ProbeRank
<1>2. /\ WriteRank \in Nat \X Nat \X Nat
      /\ WriteRank[1] = 0 <=> wstage = "off"
  BY WriteRanked DEF WriteInv, WriteRank
<1>3. /\ ModesRank \in Nat \X Nat \X Nat
      /\ ModesRank[1] = 0 <=> mstage = "off"
  BY ModesRanked DEF ModesInv, ModesRank
<1> HIDE DEF HardwareInv
<1> QED BY <1>1, <1>2, <1>3 DEF Rank, AtRest

\* No script's step but Exits ends its process.
LEMMA StepsLeaveRuns ==
  /\ ProbeStep => stage' # "off"
  /\ WriteStep => wstage' # "off"
  /\ ModesStep => mstage' # "off"
<1>1. ProbeStep => stage' # "off"
  <2>1. Proceed \/ RecoverFrom \/ AttemptFailed => stage' # "off"
    BY DEF Proceed, RecoverFrom, AttemptFailed, Stop
  <2>2. ProbeConnects \/ FirstCheck \/ FinalCheck \/ ProbeCloses => stage' # "off"
    BY DEF ProbeConnects, FirstCheck, FinalCheck, ProbeCloses
  <2>3. WordRead \/ CrossCheck \/ Rejected \/ ProbeException => stage' # "off"
    BY <2>1 DEF WordRead, CrossCheck, Rejected, ProbeException
  <2>4. (\E s \in Unreadable : ProbeUnreadable(s)) \/ ProbeLost => stage' # "off"
    BY <2>1 DEF ProbeUnreadable, ProbeLost, Stop
  <2>5. Reopen \/ Recheck => stage' # "off"
    BY <2>1 DEF Reopen, Recheck
  <2> QED BY <2>2, <2>3, <2>4, <2>5 DEF ProbeStep
<1>2. WriteStep => wstage' # "off"
  BY DEF WriteStep, WriteConnects, ReadBefore, WriteSame, ReadAfter, WriteNew,
    ReadNew, Restore, ReadRestored, WriteCloses, Continue, Return
<1>3. ModesStep => mstage' # "off"
  BY DEF ModesStep, ModesConnects, Alive, ReadVersion, ReadWord, Written,
    Refuses, NoReadableReply, Lost, Recover, AfterRecover, FinalAlive,
    ModesCloses, JobDone, NextJob
<1> QED BY <1>1, <1>2, <1>3

LEMMA ScriptRunsOut ==
  ASSUME HardwareInv, ScriptStep
  PROVE  Lower(Rank', Rank)
<1>0. OneAtATime
  BY DEF HardwareInv
<1>1. CASE ProbeStep
  <2>1. Lower(ProbeRank', ProbeRank)
    BY <1>1, ProbeRunsOut DEF HardwareInv, ProbeInv, Reported
  <2>2. Rank = ProbeRank
    BY <1>1, StepsAreRuns DEF Rank
  <2>3. Rank' = ProbeRank'
    BY <1>1, StepsLeaveRuns DEF Rank
  <2> QED BY <2>1, <2>2, <2>3
<1>2. CASE WriteStep /\ UNCHANGED <<probeVars, modesVars>>
  <2>1. Lower(WriteRank', WriteRank)
    BY <1>2, WriteRunsOut
  <2>2. stage = "off" /\ stage' = "off"
    BY <1>0, <1>2, StepsAreRuns DEF OneAtATime, probeVars
  <2>3. Rank = WriteRank
    BY <1>2, <2>2, StepsAreRuns DEF Rank
  <2>4. Rank' = WriteRank'
    BY <1>2, <2>2, StepsLeaveRuns DEF Rank
  <2> QED BY <2>1, <2>3, <2>4
<1>3. CASE ModesStep /\ UNCHANGED <<probeVars, writeVars>>
  <2>1. Lower(ModesRank', ModesRank)
    BY <1>3, ModesRunsOut DEF HardwareInv, ModesInv
  <2>2. stage = "off" /\ wstage = "off" /\ stage' = "off" /\ wstage' = "off"
    BY <1>0, <1>3, StepsAreRuns DEF OneAtATime, probeVars, writeVars
  <2>3. Rank = ModesRank /\ Rank' = ModesRank'
    BY <2>2 DEF Rank
  <2> QED BY <2>1, <2>3
<1> QED BY <1>1, <1>2, <1>3 DEF ScriptStep

LEMMA ExitRunsOut ==
  ASSUME HardwareInv, HardwareInv', Exits
  PROVE  Lower(Rank', Rank)
<1>1. AtRest'
  BY DEF Exits, ProbeForgotten, ProbeReset, WriteForgotten, WriteReset,
    ModesForgotten, ModesReset, AtRest
<1>2. ~ AtRest
  BY DEF Exits, AtRest
<1>3. Rank[1] \in Nat /\ Rank[1] # 0
  BY <1>2, Ranked
<1>4. Rank'[1] = 0
  <2>1. stage' = "off" /\ wstage' = "off" /\ mstage' = "off"
    BY <1>1 DEF AtRest
  <2> QED BY <2>1 DEF Rank, ModesRank, ModesPart
<1> QED BY <1>3, <1>4 DEF Lower

\* Each run of a script is over after finitely many steps of it, however the
\* device answers and whatever its late writes do: every step lowers what is
\* left of the run in an order without infinite descents, and nothing is left
\* exactly when no script runs.
THEOREM RunsRunOut ==
  Spec => /\ [](Rank \in Nat \X Nat \X Nat /\ (AtRest <=> Rank[1] = 0))
          /\ [][/\ ScriptStep \/ Exits => Lower(Rank', Rank)
                /\ LateWrite => Rank' = Rank]_vars
<1>1. HardwareInv => Rank \in Nat \X Nat \X Nat /\ (AtRest <=> Rank[1] = 0)
  BY Ranked
<1>2. HardwareInv /\ [Next]_vars =>
        [/\ ScriptStep \/ Exits => Lower(Rank', Rank)
         /\ LateWrite => Rank' = Rank]_vars
  <2> SUFFICES ASSUME HardwareInv, [Next]_vars
               PROVE  /\ ScriptStep \/ Exits => Lower(Rank', Rank)
                      /\ LateWrite => Rank' = Rank
    OBVIOUS
  <2>1. HardwareInv'
    BY HardwareStep
  <2>2. ASSUME LateWrite
        PROVE  Rank' = Rank
    BY <2>2 DEF LateWrite, probeVars, writeVars, modesVars, Rank, ProbeRank,
      ProbePart, ProbeSteps, WriteRank, WritePart, ModesRank, ModesPart, ModesSteps
  <2> QED BY <2>1, <2>2, ScriptRunsOut, ExitRunsOut
<1> QED BY <1>1, <1>2, HardwareInvariant, PTL DEF Spec
=============================================================================
