--------------------------- MODULE RegisterProbeProofs ---------------------------
(***************************************************************************)
(* An invariant of probe_unexplored_registers.py, for any candidates, any  *)
(* limit on timeouts and any device that falls silent: what its report     *)
(* says, and what makes the run go on or end.  HardwareTestProofs draws    *)
(* the properties of a session from it.                                    *)
(***************************************************************************)
EXTENDS RegisterProbe, SequenceTheorems, FiniteSetTheorems, TLAPS

\* Everything a script can do to the link.
LinkStep ==
  \/ Answers
  \/ FallsSilent
  \/ \E k \in Failures : Fails(k)
  \/ Connects
  \/ ConnectFails
  \/ \E ticks \in {1, 3} : ReopensAfter(ticks) \/ StaysDownAfter(ticks)
  \/ Closes

LinkTypeOK ==
  /\ hush   \in 0 .. MaxHush
  /\ faults \in 0 .. MaxFaults

LEMMA Bounds ==
  /\ MaxHush \in Nat /\ MaxFaults \in Nat
  /\ \A h \in Silences : h \in Nat /\ 1 <= h /\ h <= MaxHush
BY DeviceAssumption

LEMMA LinkStaysTyped ==
  ASSUME LinkTypeOK, LinkStep
  PROVE  LinkTypeOK'
<1> USE Bounds DEF LinkTypeOK
<1>1. CASE Answers
  BY <1>1 DEF Answers
<1>2. CASE FallsSilent
  BY <1>2 DEF FallsSilent
<1>3. CASE \E k \in Failures : Fails(k)
  BY <1>3 DEF Fails, linkVars
<1>4. CASE Connects
  BY <1>4 DEF Connects
<1>5. CASE ConnectFails
  BY <1>5 DEF ConnectFails
<1>6. ASSUME NEW ticks \in {1, 3}, ReopensAfter(ticks) \/ StaysDownAfter(ticks)
      PROVE  LinkTypeOK'
  <2>1. Left(ticks) \in 0 .. MaxHush
    BY DEF Left
  <2> QED BY <1>6, <2>1 DEF ReopensAfter, StaysDownAfter
<1>7. CASE Closes
  BY <1>7 DEF Closes
<1> QED BY <1>1, <1>2, <1>3, <1>4, <1>5, <1>6, <1>7 DEF LinkStep

LEMMA OpenStaysBoolean ==
  ASSUME LinkStep, open \in BOOLEAN
  PROVE  open' \in BOOLEAN
<1>1. open' = TRUE \/ open' = FALSE \/ \E k \in Failures : open' = (k # "lost")
           \/ UNCHANGED linkVars
  BY DEF LinkStep, Answers, FallsSilent, Fails, Connects, ConnectFails,
    ReopensAfter, StaysDownAfter, Closes
<1> QED BY <1>1 DEF linkVars

LEMMA ProbeUsesLink == ProbeStep => LinkStep
<1>1. ASSUME NEW s \in Unreadable, ProbeUnreadable(s)
      PROVE  LinkStep
  BY <1>1 DEF ProbeUnreadable, LinkStep, Failures
<1>2. CASE Reopen
  <2>1. Delay \in {1, 3}
    BY DEF Delay
  <2> QED BY <1>2, <2>1 DEF Reopen, LinkStep
<1>3. ASSUME ProbeStep, ~ Reopen, \A s \in Unreadable : ~ ProbeUnreadable(s)
      PROVE  LinkStep
  BY <1>3 DEF ProbeStep, ProbeConnects, FirstCheck, WordRead, CrossCheck, Sane,
    Rejected, ProbeException, ProbeLost, Recheck, FinalCheck, ProbeCloses,
    LinkStep, Failures
<1> QED BY <1>1, <1>2, <1>3

-----------------------------------------------------------------------------
(* The report of probe_unexplored_registers.py. *)

LEMMA CandidateFacts ==
  /\ Len(Words) \in Nat /\ Len(Words) >= 1
  /\ \A c \in Candidates :
       c \in Nat /\ 1 <= c /\ c <= Len(Words) /\ Words[c] \in Nat /\ Words[c] >= 1
<1>1. Words \in Seq(Nat \ {0}) /\ Words # <<>>
  BY ProbeAssumption
<1>2. Len(Words) \in Nat /\ Len(Words) # 0
  BY <1>1, EmptySeq, LenProperties
<1>3. \A c \in 1 .. Len(Words) : Words[c] \in Nat \ {0}
  BY <1>1, ElementOfSeq
<1> QED BY <1>2, <1>3 DEF Candidates

\* Where a run stands in its report: a record of every candidate it has done,
\* and at the end of all.
Reported ==
  /\ results \in Seq(Records)
  /\ at \in Candidates
  /\ \A i \in 1 .. Len(results) : results[i].cand = i
  /\ stage \in {"off", "connect", "check"} => Len(results) = 0 /\ at = 1
  /\ stage \in {"probe", "cross"} => Len(results) = at - 1
  /\ stage \in {"recover", "recheck"} => Len(results) = at
  /\ stage = "final" => Len(results) = Len(Words)
  /\ IF stage \in {"close", "over"}
       THEN \/ code = "0" /\ Len(results) = Len(Words)
            \/ code = "2" /\ Len(results) = 0
       ELSE code = "none"

LEMMA Appended ==
  ASSUME NEW rs \in Seq(Records), NEW rec \in Records
  PROVE  /\ Append(rs, rec) \in Seq(Records)
         /\ Len(rs) \in Nat
         /\ Len(Append(rs, rec)) = Len(rs) + 1
         /\ \A i \in 1 .. Len(rs) : Append(rs, rec)[i] = rs[i]
         /\ Append(rs, rec)[Len(rs) + 1] = rec
BY LenProperties

\* What Stop adds.
Rest == [i \in 1 .. Len(Words) - at |->
           [cand |-> at + i, status |-> Skipped, words |-> 0]]

LEMMA Stopped ==
  ASSUME NEW rs \in Seq(Records), at \in Candidates, Len(rs) = at
  PROVE  /\ rs \o Rest \in Seq(Records)
         /\ Len(rs \o Rest) = Len(Words)
         /\ \A i \in 1 .. at : (rs \o Rest)[i] = rs[i]
         /\ \A i \in at + 1 .. Len(Words) :
              (rs \o Rest)[i] = [cand |-> i, status |-> Skipped, words |-> 0]
<1> DEFINE n == Len(Words) - at
<1>1. n \in Nat /\ at \in Nat /\ at >= 1 /\ at + n = Len(Words)
  BY CandidateFacts
<1>2. \A i \in 1 .. n : [cand |-> at + i, status |-> Skipped, words |-> 0] \in Records
  <2>1. ASSUME NEW i \in 1 .. n
        PROVE  at + i \in Candidates
    BY <1>1 DEF Candidates
  <2>2. Skipped \in Statuses /\ 0 \in Nat
    BY DEF Statuses
  <2> QED BY <2>1, <2>2 DEF Records
<1>3. Rest \in [1 .. n -> Records]
  BY <1>2 DEF Rest
<1>4. Rest \in Seq(Records) /\ Len(Rest) = n
  <2> HIDE DEF n
  <2> QED BY <1>1, <1>3
<1>5. /\ rs \o Rest \in Seq(Records)
      /\ Len(rs \o Rest) = Len(rs) + Len(Rest)
      /\ \A i \in 1 .. Len(rs) + Len(Rest) :
           (rs \o Rest)[i] = IF i <= Len(rs) THEN rs[i] ELSE Rest[i - Len(rs)]
  BY <1>4, ConcatProperties, Zenon
<1>6. ASSUME NEW i \in at + 1 .. Len(Words)
      PROVE  (rs \o Rest)[i] = [cand |-> i, status |-> Skipped, words |-> 0]
  <2>1. /\ i \in 1 .. at + n /\ ~ (i <= at) /\ i - at \in 1 .. n
        /\ at + (i - at) = i
    BY <1>1
  <2>2. (rs \o Rest)[i] = Rest[i - at]
    BY <1>4, <1>5, <2>1
  <2>3. Rest[i - at] = [cand |-> at + (i - at), status |-> Skipped, words |-> 0]
    BY <2>1 DEF Rest
  <2> QED BY <2>1, <2>2, <2>3
<1>7. ASSUME NEW i \in 1 .. at
      PROVE  (rs \o Rest)[i] = rs[i]
  <2>1. i \in 1 .. at + n /\ i <= at
    BY <1>1
  <2> QED BY <1>4, <1>5, <2>1
<1> QED BY <1>1, <1>4, <1>5, <1>6, <1>7

LEMMA NewRecord ==
  ASSUME at \in Candidates, NEW s \in Statuses, NEW n \in Nat
  PROVE  /\ Record(s, n) \in Records
         /\ Record(s, n).cand = at
         /\ Record(s, n).status = s
         /\ Record(s, n).words = n
BY DEF Record, Records

\* A record for each candidate up to the one the run is at.
UpTo(rs) ==
  /\ rs \in Seq(Records)
  /\ Len(rs) = at
  /\ \A i \in 1 .. at : rs[i].cand = i

LEMMA Added ==
  ASSUME Reported, stage \in {"probe", "cross"},
         NEW rec \in Records, rec.cand = at
  PROVE  UpTo(Append(results, rec))
<1>1. at \in Nat /\ at >= 1 /\ Len(results) = at - 1 /\ results \in Seq(Records)
  BY CandidateFacts DEF Reported
<1>2. /\ Append(results, rec) \in Seq(Records)
      /\ Len(Append(results, rec)) = at
      /\ Append(results, rec)[at] = rec
  BY <1>1, Appended
<1>3. ASSUME NEW i \in 1 .. at - 1
      PROVE  Append(results, rec)[i].cand = i
  BY <1>1, Appended DEF Reported
<1>4. \A i \in 1 .. at : i = at \/ i \in 1 .. at - 1
  BY <1>1
<1> QED BY <1>2, <1>3, <1>4 DEF UpTo

LEMMA GoesOn ==
  ASSUME at \in Candidates, code = "none", UNCHANGED code,
         UpTo(results'), Proceed
  PROVE  Reported'
<1>1. at \in Nat /\ at <= Len(Words) /\ Len(Words) \in Nat
  BY CandidateFacts
<1>2. CASE at = Len(Words)
  BY <1>1, <1>2 DEF UpTo, Proceed, Reported
<1>3. CASE at # Len(Words)
  <2>1. at + 1 \in Candidates /\ (at + 1) - 1 = at
    BY <1>1, <1>3, CandidateFacts DEF Candidates
  <2> QED BY <1>3, <2>1 DEF UpTo, Proceed, Reported
<1> QED BY <1>2, <1>3

LEMMA Ends ==
  ASSUME at \in Candidates, code = "none", UNCHANGED code,
         NEW rs, UpTo(rs), Stop(rs)
  PROVE  Reported'
<1>1. results' = rs \o Rest /\ stage' = "final" /\ at' = at
  BY DEF Stop, Rest
<1>2. /\ results' \in Seq(Records) /\ Len(results') = Len(Words)
      /\ \A i \in 1 .. at : results'[i] = rs[i]
      /\ \A i \in at + 1 .. Len(Words) : results'[i].cand = i
  <2>1. rs \in Seq(Records) /\ Len(rs) = at
    BY DEF UpTo
  <2>2. /\ rs \o Rest \in Seq(Records) /\ Len(rs \o Rest) = Len(Words)
        /\ \A i \in 1 .. at : (rs \o Rest)[i] = rs[i]
        /\ \A i \in at + 1 .. Len(Words) :
             (rs \o Rest)[i] = [cand |-> i, status |-> Skipped, words |-> 0]
    BY <2>1, Stopped
  <2>3. ASSUME NEW i \in at + 1 .. Len(Words)
        PROVE  (rs \o Rest)[i].cand = i
    <3>1. [cand |-> i, status |-> Skipped, words |-> 0].cand = i
      OBVIOUS
    <3> QED BY <2>2, <3>1, Zenon
  <2> QED BY <1>1, <2>2, <2>3
<1>3. \A i \in 1 .. Len(Words) : i \in 1 .. at \/ i \in at + 1 .. Len(Words)
  BY CandidateFacts
<1>4. \A i \in 1 .. Len(results') : results'[i].cand = i
  BY <1>2, <1>3 DEF UpTo
<1> QED BY <1>1, <1>2, <1>4 DEF Reported

LEMMA AttemptReported ==
  ASSUME Reported, stage \in {"recover", "recheck"}, UNCHANGED code, AttemptFailed
  PROVE  Reported'
<1>1. UpTo(results) /\ at \in Candidates /\ code = "none"
  BY DEF Reported, UpTo
<1>2. CASE tries = 0
  BY <1>2 DEF AttemptFailed, Reported
<1>3. CASE tries # 0
  BY <1>1, <1>3, Ends DEF AttemptFailed
<1> QED BY <1>2, <1>3

LEMMA ReportedStep ==
  ASSUME Reported, word \in Nat, ProbeStep
  PROVE  Reported'
<1> USE DEF Unreadable, Skipped
<1>0. at \in Candidates /\ Words[at] \in Nat /\ code \in {"none", "0", "2"}
  BY CandidateFacts DEF Reported
<1>1. CASE ProbeConnects
  BY <1>1 DEF ProbeConnects, Reported
<1>2. CASE FirstCheck
  <2>1. /\ stage = "check" /\ UNCHANGED <<at, results>>
        /\ \/ stage' = "probe" /\ UNCHANGED code
           \/ stage' = "close" /\ code' = "2"
    BY <1>2 DEF FirstCheck
  <2> QED BY <2>1 DEF Reported
<1>3. CASE WordRead
  <2>1. stage = "probe" /\ UNCHANGED code /\ code = "none"
    BY <1>3 DEF WordRead, Reported
  <2>2. CASE results' = results /\ at' = at /\ stage' \in {"probe", "cross"}
    BY <2>1, <2>2 DEF Reported
  <2>3. CASE results' = Append(results, Record("data", Words[at])) /\ Proceed
    <3>1. UpTo(results')
      BY <1>0, <2>1, <2>3, NewRecord, Added DEF Statuses
    <3> QED BY <1>0, <2>1, <2>3, <3>1, GoesOn
  <2> QED BY <1>3, <2>1, <2>2, <2>3 DEF WordRead
<1>4. CASE CrossCheck
  <2>1. /\ stage = "cross" /\ UNCHANGED code /\ code = "none" /\ Proceed
        /\ results' = Append(results, Record("data", Words[at]))
    BY <1>4 DEF CrossCheck, Reported
  <2>2. UpTo(results')
    BY <1>0, <2>1, NewRecord, Added DEF Statuses
  <2> QED BY <1>0, <2>1, <2>2, GoesOn
<1>5. CASE Rejected
  <2>1. /\ stage = "probe" /\ UNCHANGED code /\ code = "none" /\ Proceed
        /\ \/ results' = Append(results, Record("partial", word))
           \/ results' = Append(results, Record("illegal-address", 0))
    BY <1>5 DEF Rejected, Reported
  <2>2. /\ Record("partial", word) \in Records
        /\ Record("partial", word).cand = at
        /\ Record("illegal-address", 0) \in Records
        /\ Record("illegal-address", 0).cand = at
    BY <1>0, NewRecord DEF Statuses
  <2>3. UpTo(results')
    BY <2>1, <2>2, Added
  <2> QED BY <1>0, <2>1, <2>3, GoesOn
<1>6. CASE ProbeException
  <2>1. /\ stage = "probe" /\ UNCHANGED code /\ code = "none" /\ Proceed
        /\ results' = Append(results, Record("modbus-exception", 0))
    BY <1>6 DEF ProbeException, Reported
  <2>2. UpTo(results')
    BY <1>0, <2>1, NewRecord, Added DEF Statuses
  <2> QED BY <1>0, <2>1, <2>2, GoesOn
<1>7. ASSUME NEW s \in Unreadable, ProbeUnreadable(s)
      PROVE  Reported'
  <2>1. stage = "probe" /\ UNCHANGED code /\ code = "none"
    BY <1>7 DEF ProbeUnreadable, Reported
  <2>2. UpTo(Append(results, Record(s, 0)))
    BY <1>0, <2>1, NewRecord, Added DEF Statuses
  <2>3. CASE Stop(Append(results, Record(s, 0)))
    BY <1>0, <2>1, <2>2, <2>3, Ends
  <2>4. CASE results' = Append(results, Record(s, 0)) /\ RecoverFrom
    BY <1>0, <2>1, <2>2, <2>4 DEF UpTo, RecoverFrom, Reported
  <2> QED BY <1>7, <2>3, <2>4 DEF ProbeUnreadable
<1>8. CASE ProbeLost
  <2>1. /\ stage = "probe" /\ UNCHANGED code /\ code = "none" /\ RecoverFrom
        /\ results' = Append(results, Record("connection-error", 0))
    BY <1>8 DEF ProbeLost, Reported
  <2>2. UpTo(Append(results, Record("connection-error", 0)))
    BY <1>0, <2>1, NewRecord, Added DEF Statuses
  <2> QED BY <1>0, <2>1, <2>2 DEF UpTo, RecoverFrom, Reported
<1>9. CASE Reopen
  <2>1. stage = "recover" /\ UNCHANGED code
    BY <1>9 DEF Reopen
  <2>2. CASE stage' = "recheck" /\ UNCHANGED <<at, results>>
    BY <2>1, <2>2 DEF Reported
  <2> QED BY <1>9, <2>1, <2>2, AttemptReported DEF Reopen
<1>10. CASE Recheck
  <2>1. stage = "recheck" /\ UNCHANGED code /\ code = "none" /\ UpTo(results)
    BY <1>10 DEF Recheck, Reported, UpTo
  <2>2. CASE Proceed /\ UNCHANGED results
    <3>1. UpTo(results')
      BY <2>1, <2>2 DEF UpTo
    <3> QED BY <1>0, <2>1, <2>2, <3>1, GoesOn
  <2> QED BY <1>10, <2>1, <2>2, AttemptReported DEF Recheck
<1>11. CASE FinalCheck
  BY <1>11 DEF FinalCheck, Reported
<1>12. CASE ProbeCloses
  BY <1>12 DEF ProbeCloses, Reported
<1> QED BY <1>1, <1>2, <1>3, <1>4, <1>5, <1>6, <1>7, <1>8, <1>9, <1>10, <1>11,
  <1>12 DEF ProbeStep
-----------------------------------------------------------------------------
(* Its other variables. *)

Going == stage \notin {"final", "close", "over"}

ProbeStages == {"off", "connect", "check", "probe", "cross", "recover",
                "recheck", "final", "close", "over"}

ProbeTyped ==
  /\ stage \in ProbeStages
  /\ word \in 0 .. Words[at] - 1
  /\ bad \in Nat
  /\ MaxTimeouts > 0 => bad <= MaxTimeouts
  /\ (MaxTimeouts > 0 /\ Going) => bad < MaxTimeouts
  /\ tries \in 0 .. 1
  /\ stage \notin {"recover", "recheck"} => tries = 0
  /\ serves \in Services
  /\ since \in [hush : 0 .. MaxHush, faults : 0 .. MaxFaults]

LEMMA ProceedTyped ==
  ASSUME at \in Candidates, Proceed
  PROVE  /\ stage' \in {"final", "probe"} /\ tries' = 0 /\ word' = 0
         /\ at' \in Candidates /\ word' \in 0 .. Words[at'] - 1
<1>1. at' \in Candidates
  BY CandidateFacts DEF Proceed, Candidates
<1>2. Words[at'] \in Nat /\ Words[at'] >= 1
  BY <1>1, CandidateFacts
<1> QED BY <1>1, <1>2 DEF Proceed

LEMMA AttemptTyped ==
  ASSUME at \in Candidates, ProbeTyped, AttemptFailed, Going, UNCHANGED bad
  PROVE  /\ stage' \in {"recover", "final"} /\ tries' \in 0 .. 1
         /\ stage' = "final" => tries' = 0
         /\ at' = at /\ word' \in 0 .. Words[at'] - 1
BY CandidateFacts DEF ProbeTyped, AttemptFailed, Stop

LEMMA TypedStep ==
  ASSUME at \in Candidates, ProbeTyped, LinkTypeOK', ProbeStep
  PROVE  ProbeTyped'
<1> USE DEF ProbeTyped, Going, ProbeStages
<1>a. MaxTimeouts \in Nat
  BY ProbeAssumption
<1>b. Words[at] \in Nat /\ Words[at] >= 1
  BY CandidateFacts
<1>1. CASE ProbeConnects
  BY <1>a, <1>1 DEF ProbeConnects
<1>2. CASE FirstCheck
  <2>1. /\ stage = "check" /\ stage' \in {"probe", "close"}
        /\ UNCHANGED <<at, word, bad, tries, serves, since>>
    BY <1>2 DEF FirstCheck
  <2> QED BY <1>a, <2>1
<1>3. CASE WordRead
  <2>1. stage = "probe" /\ UNCHANGED <<serves, since>>
    BY <1>3 DEF WordRead
  <2>2. CASE word + 1 < Words[at] /\ word' = word + 1 /\ UNCHANGED <<stage, at, bad, tries>>
    BY <1>a, <1>b, <2>1, <2>2
  <2>3. CASE bad' = 0 /\ stage' = "cross" /\ UNCHANGED <<at, word, tries>>
    BY <1>a, <1>b, <2>1, <2>3
  <2>4. CASE bad' = 0 /\ Proceed
    BY <1>a, <2>1, <2>4, ProceedTyped
  <2> QED BY <1>3, <2>2, <2>3, <2>4 DEF WordRead
<1>4. CASE CrossCheck
  BY <1>a, <1>4, ProceedTyped DEF CrossCheck
<1>5. CASE Rejected
  BY <1>a, <1>5, ProceedTyped DEF Rejected
<1>6. CASE ProbeException
  BY <1>a, <1>6, ProceedTyped DEF ProbeException
<1>7. ASSUME NEW s \in Unreadable, ProbeUnreadable(s)
      PROVE  ProbeTyped'
  <2>1. stage = "probe" /\ bad' = bad + 1 /\ UNCHANGED serves
    BY <1>7 DEF ProbeUnreadable
  <2>2. CASE /\ UNCHANGED since
             /\ stage' = "final" /\ word' = 0 /\ tries' = 0 /\ UNCHANGED at
    BY <1>a, <1>b, <2>1, <2>2
  <2>3. CASE ~ (MaxTimeouts > 0 /\ bad' >= MaxTimeouts) /\ RecoverFrom
    BY <1>a, <1>b, <2>1, <2>3 DEF RecoverFrom, LinkTypeOK
  <2> QED BY <1>7, <2>2, <2>3 DEF ProbeUnreadable, Stop
<1>8. CASE ProbeLost
  <2>1. stage = "probe" /\ RecoverFrom /\ UNCHANGED <<bad, serves>>
    BY <1>8 DEF ProbeLost
  <2> QED BY <1>a, <1>b, <2>1 DEF RecoverFrom, LinkTypeOK
<1>9. CASE Reopen
  <2>1. stage = "recover" /\ UNCHANGED <<bad, serves, since>>
    BY <1>9 DEF Reopen
  <2>2. CASE stage' = "recheck" /\ UNCHANGED <<at, word, tries>>
    BY <1>a, <2>1, <2>2
  <2>3. CASE AttemptFailed
    BY <1>a, <2>1, <2>3, AttemptTyped
  <2> QED BY <1>9, <2>2, <2>3 DEF Reopen
<1>10. CASE Recheck
  <2>1. stage = "recheck" /\ UNCHANGED <<bad, serves, since>>
    BY <1>10 DEF Recheck
  <2>2. CASE Proceed
    BY <1>a, <2>1, <2>2, ProceedTyped
  <2>3. CASE AttemptFailed
    BY <1>a, <2>1, <2>3, AttemptTyped
  <2> QED BY <1>10, <2>2, <2>3 DEF Recheck
<1>11. CASE FinalCheck
  BY <1>a, <1>11 DEF FinalCheck
<1>12. CASE ProbeCloses
  BY <1>a, <1>12 DEF ProbeCloses
<1> QED BY <1>1, <1>2, <1>3, <1>4, <1>5, <1>6, <1>7, <1>8, <1>9, <1>10, <1>11,
  <1>12 DEF ProbeStep
-----------------------------------------------------------------------------
(* What is reported of a candidate. *)

\* The record r of candidate c says what the device serves of it.
TrueOf(c, r) ==
  /\ r.status = "data" => serves[c] >= Words[c]
  /\ r.status = "partial" => r.words = serves[c] /\ r.words \in 1 .. Words[c] - 1
  /\ r.status = "illegal-address" =>
       serves[c] < Words[c] /\ (serves[c] = 0 \/ batched)

\* What has been read of the candidate at hand is served.
Served ==
  /\ stage \notin {"probe", "cross"} => word = 0
  /\ stage = "probe" => word <= serves[at] /\ (word > 0 => ~ WholeField)
  /\ stage = "cross" => serves[at] >= Words[at]

LEMMA ServesFacts ==
  ASSUME NEW s \in Services, NEW c \in Candidates
  PROVE  s[c] \in Nat /\ s[c] <= Words[c]
<1>1. s[c] \in UNION {0 .. Words[d] : d \in Candidates} /\ s[c] <= Words[c]
  BY DEF Services
<1>2. PICK d \in Candidates : s[c] \in 0 .. Words[d]
  BY <1>1
<1>3. Words[d] \in Nat
  BY CandidateFacts
<1> QED BY <1>1, <1>2, <1>3

AllTrue == \A i \in 1 .. Len(results) : TrueOf(i, results[i])

LEMMA OneMoreTrue ==
  ASSUME Reported, AllTrue, stage \in {"probe", "cross"},
         NEW rec \in Records, TrueOf(at, rec)
  PROVE  /\ Len(Append(results, rec)) = at
         /\ \A i \in 1 .. at : TrueOf(i, Append(results, rec)[i])
<1>1. at \in Nat /\ at >= 1 /\ Len(results) = at - 1 /\ results \in Seq(Records)
  BY CandidateFacts DEF Reported
<1>2. /\ Len(Append(results, rec)) = at
      /\ Append(results, rec)[at] = rec
      /\ \A i \in 1 .. at - 1 : Append(results, rec)[i] = results[i]
  BY <1>1, Appended
<1>3. \A i \in 1 .. at : i = at \/ i \in 1 .. at - 1
  BY <1>1
<1>4. \A i \in 1 .. at - 1 : TrueOf(i, results[i])
  BY <1>1 DEF AllTrue
<1> QED BY <1>2, <1>3, <1>4

LEMMA StayTrue ==
  ASSUME UNCHANGED <<serves, batched>>,
         \A i \in 1 .. Len(results') : TrueOf(i, results'[i])
  PROVE  AllTrue'
BY DEF AllTrue, TrueOf

LEMMA StopTrue ==
  ASSUME at \in Candidates, UNCHANGED <<serves, batched>>,
         NEW rs, UpTo(rs), \A i \in 1 .. at : TrueOf(i, rs[i]), Stop(rs)
  PROVE  AllTrue'
<1>1. results' = rs \o Rest
  BY DEF Stop, Rest
<1>2. rs \in Seq(Records) /\ Len(rs) = at
  BY DEF UpTo
<1>3. /\ Len(rs \o Rest) = Len(Words)
      /\ \A i \in 1 .. at : (rs \o Rest)[i] = rs[i]
      /\ \A i \in at + 1 .. Len(Words) :
           (rs \o Rest)[i] = [cand |-> i, status |-> Skipped, words |-> 0]
  BY <1>2, Stopped
<1>4. \A i \in 1 .. Len(Words) : i \in 1 .. at \/ i \in at + 1 .. Len(Words)
  BY CandidateFacts
<1>5. ASSUME NEW i \in 1 .. at
      PROVE  TrueOf(i, (rs \o Rest)[i])
  BY <1>3, <1>5, Zenon
<1>6. ASSUME NEW i \in at + 1 .. Len(Words)
      PROVE  TrueOf(i, (rs \o Rest)[i])
  <2>1. TrueOf(i, [cand |-> i, status |-> Skipped, words |-> 0])
    BY DEF TrueOf, Skipped
  <2> QED BY <1>3, <2>1, Zenon
<1>7. \A i \in 1 .. Len(results') : TrueOf(i, results'[i])
  BY <1>1, <1>3, <1>4, <1>5, <1>6
<1> QED BY <1>7, StayTrue

LEMMA AttemptTrue ==
  ASSUME Reported, AllTrue, stage \in {"recover", "recheck"}, word = 0,
         UNCHANGED <<serves, batched>>, AttemptFailed
  PROVE  AllTrue' /\ word' = 0 /\ stage' \in {"recover", "final"}
<1>1. UpTo(results) /\ \A i \in 1 .. at : TrueOf(i, results[i])
  BY DEF Reported, UpTo, AllTrue
<1>2. CASE tries = 0
  BY <1>2, StayTrue DEF AttemptFailed, AllTrue
<1>3. CASE tries # 0
  BY <1>1, <1>3, StopTrue DEF AttemptFailed, Stop, Reported
<1> QED BY <1>2, <1>3

LEMMA ProceedServed ==
  ASSUME at \in Candidates, serves \in Services, UNCHANGED <<serves, batched>>,
         Proceed
  PROVE  Served'
<1>1. at' \in Candidates /\ stage' \in {"final", "probe"} /\ word' = 0
  BY CandidateFacts DEF Proceed, Candidates
<1>2. serves[at'] \in Nat
  BY <1>1, ServesFacts
<1> QED BY <1>1, <1>2 DEF Served

\* A record that is true of the candidate at hand, and on to the next one.
LEMMA RecordedServed ==
  ASSUME Reported, AllTrue, serves \in Services, stage \in {"probe", "cross"},
         NEW rec \in Records, TrueOf(at, rec),
         results' = Append(results, rec), Proceed, UNCHANGED <<serves, batched>>
  PROVE  Served' /\ AllTrue'
<1>1. Served'
  BY ProceedServed DEF Reported
<1>2. /\ Len(results') = at
      /\ \A i \in 1 .. at : TrueOf(i, results'[i])
  BY OneMoreTrue
<1> QED BY <1>1, <1>2, StayTrue

LEMMA TrueRecord ==
  ASSUME at \in Candidates, NEW s \in Statuses, NEW n \in Nat,
         s = "data" => serves[at] >= Words[at],
         s = "partial" => n = serves[at] /\ n \in 1 .. Words[at] - 1,
         s = "illegal-address" =>
           serves[at] < Words[at] /\ (serves[at] = 0 \/ batched)
  PROVE  /\ Record(s, n) \in Records
         /\ TrueOf(at, Record(s, n))
         /\ Record(s, n).cand = at
<1>1. /\ Record(s, n) \in Records
      /\ Record(s, n).cand = at
      /\ Record(s, n).status = s
      /\ Record(s, n).words = n
  BY NewRecord
<1> DEFINE r == Record(s, n)
<1> HIDE DEF r
<1>2. ASSUME r.status = s, r.words = n
      PROVE  TrueOf(at, r)
  BY <1>2 DEF TrueOf
<1> QED BY <1>1, <1>2 DEF r

LEMMA StatusFacts ==
  /\ {"data", "partial", "illegal-address", "modbus-exception",
      "connection-error"} \subseteq Statuses
  /\ \A s \in Unreadable :
       s \in Statuses /\ s # "data" /\ s # "partial" /\ s # "illegal-address"
BY DEF Statuses, Unreadable

LEMMA ServedStep ==
  ASSUME Reported, ProbeTyped, Served, AllTrue, ProbeStep
  PROVE  Served' /\ AllTrue'
<1>a. /\ at \in Candidates /\ serves \in Services
      /\ Words[at] \in Nat /\ Words[at] >= 1
      /\ word \in Nat /\ word <= Words[at] - 1
      /\ serves[at] \in Nat /\ serves[at] <= Words[at]
  <2>1. at \in Candidates /\ serves \in Services
    BY DEF Reported, ProbeTyped
  <2>2. Words[at] \in Nat /\ Words[at] >= 1
    BY <2>1, CandidateFacts
  <2>3. word \in 0 .. Words[at] - 1
    BY DEF ProbeTyped
  <2> QED BY <2>1, <2>2, <2>3, ServesFacts
<1>b. ASSUME UNCHANGED <<serves, batched, results>>
      PROVE  AllTrue'
  BY <1>b, StayTrue DEF AllTrue
<1>1. CASE ProbeConnects
  BY <1>1, <1>b DEF ProbeConnects, Served
<1>2. CASE FirstCheck
  <2>1. /\ stage = "check" /\ stage' \in {"probe", "close"}
        /\ UNCHANGED <<at, word, results, serves, batched>>
    BY <1>2 DEF FirstCheck
  <2>2. word' = 0 /\ serves'[at'] \in Nat
    BY <1>a, <2>1 DEF Served
  <2>3. Served'
    BY <2>1, <2>2 DEF Served
  <2> QED BY <2>1, <2>3, <1>b
<1>3. CASE WordRead
  <2>1. /\ stage = "probe" /\ UNCHANGED <<serves, batched>> /\ IsServed
    BY <1>3 DEF WordRead
  <2>2. CASE ~ WholeField /\ word + 1 < Words[at]
    <3>1. word' = word + 1 /\ UNCHANGED <<stage, at, results>>
      BY <1>3, <2>2 DEF WordRead
    <3>2. serves[at] > word
      BY <2>1, <2>2 DEF IsServed
    <3>3. word' <= serves'[at']
      BY <1>a, <2>1, <3>1, <3>2
    <3>4. ~ WholeField'
      BY <2>1, <2>2, <3>1 DEF WholeField
    <3>5. Served'
      BY <2>1, <3>1, <3>3, <3>4 DEF Served
    <3> QED BY <2>1, <3>1, <3>5, <1>b
  <2>3. CASE ~ (~ WholeField /\ word + 1 < Words[at])
    <3>1. serves[at] >= Words[at]
      <4>1. CASE WholeField
        BY <2>1, <4>1 DEF IsServed
      <4>2. CASE ~ WholeField
        <5>1. serves[at] > word
          BY <2>1, <4>2 DEF IsServed
        <5>2. ~ (word + 1 < Words[at])
          BY <2>3, <4>2
        <5> QED BY <1>a, <5>1, <5>2
      <4> QED BY <4>1, <4>2
    <3>2. CASE stage' = "cross" /\ UNCHANGED <<at, word, tries, results>>
      <4>1. Served'
        BY <2>1, <3>1, <3>2 DEF Served
      <4> QED BY <2>1, <3>2, <4>1, <1>b
    <3>3. CASE results' = Append(results, Record("data", Words[at])) /\ Proceed
      <4>1. Record("data", Words[at]) \in Records /\ TrueOf(at, Record("data", Words[at]))
        BY <1>a, <3>1, TrueRecord, StatusFacts
      <4> QED BY <1>a, <2>1, <3>3, <4>1, RecordedServed
    <3> QED BY <1>3, <2>3, <3>2, <3>3 DEF WordRead
  <2> QED BY <2>2, <2>3
<1>4. CASE CrossCheck
  <2>1. /\ stage = "cross" /\ UNCHANGED <<serves, batched>> /\ Proceed
        /\ results' = Append(results, Record("data", Words[at]))
    BY <1>4 DEF CrossCheck
  <2>2. serves[at] >= Words[at]
    BY <2>1 DEF Served
  <2>3. Record("data", Words[at]) \in Records /\ TrueOf(at, Record("data", Words[at]))
    BY <1>a, <2>2, TrueRecord, StatusFacts
  <2> QED BY <1>a, <2>1, <2>3, RecordedServed
<1>5. CASE Rejected
  <2>1. /\ stage = "probe" /\ UNCHANGED <<serves, batched>> /\ ~ IsServed /\ Proceed
    BY <1>5 DEF Rejected
  <2>2. CASE word > 0
    <3>1. ~ WholeField /\ word <= serves[at]
      BY <2>1, <2>2 DEF Served
    <3>2. ~ (serves[at] > word)
      BY <2>1, <3>1 DEF IsServed
    <3>3. word = serves[at] /\ word \in 1 .. Words[at] - 1
      BY <1>a, <2>2, <3>1, <3>2
    <3>4. Record("partial", word) \in Records /\ TrueOf(at, Record("partial", word))
      BY <1>a, <3>3, TrueRecord, StatusFacts
    <3>5. results' = Append(results, Record("partial", word))
      BY <1>5, <2>2 DEF Rejected
    <3> QED BY <1>a, <2>1, <3>4, <3>5, RecordedServed
  <2>3. CASE ~ (word > 0)
    <3>1. word = 0
      BY <1>a, <2>3
    <3>2. serves[at] < Words[at] /\ (serves[at] = 0 \/ batched)
      <4>1. CASE WholeField
        <5>1. ~ (serves[at] >= Words[at])
          BY <2>1, <4>1 DEF IsServed
        <5>2. serves[at] < Words[at]
          BY <1>a, <5>1
        <5>3. Words[at] = 1 => serves[at] = 0
          BY <1>a, <5>2
        <5> QED BY <4>1, <5>2, <5>3 DEF WholeField
      <4>2. CASE ~ WholeField
        <5>1. ~ (serves[at] > word)
          BY <2>1, <4>2 DEF IsServed
        <5> QED BY <1>a, <3>1, <5>1
      <4> QED BY <4>1, <4>2
    <3>3. Record("illegal-address", 0) \in Records
          /\ TrueOf(at, Record("illegal-address", 0))
      BY <1>a, <3>2, TrueRecord, StatusFacts
    <3>4. results' = Append(results, Record("illegal-address", 0))
      BY <1>5, <2>3 DEF Rejected
    <3> QED BY <1>a, <2>1, <3>3, <3>4, RecordedServed
  <2> QED BY <2>2, <2>3
<1>6. CASE ProbeException
  <2>1. /\ stage = "probe" /\ UNCHANGED <<serves, batched>> /\ Proceed
        /\ results' = Append(results, Record("modbus-exception", 0))
    BY <1>6 DEF ProbeException
  <2>2. Record("modbus-exception", 0) \in Records
        /\ TrueOf(at, Record("modbus-exception", 0))
    BY <1>a, TrueRecord, StatusFacts
  <2> QED BY <1>a, <2>1, <2>2, RecordedServed
<1>7. ASSUME NEW s \in Unreadable, ProbeUnreadable(s)
      PROVE  Served' /\ AllTrue'
  <2>1. /\ stage = "probe" /\ UNCHANGED <<serves, batched>>
        /\ stage' \in {"final", "recover"} /\ word' = 0
    BY <1>7 DEF ProbeUnreadable, Stop, RecoverFrom
  <2>2. Record(s, 0) \in Records /\ TrueOf(at, Record(s, 0)) /\ Record(s, 0).cand = at
    BY <1>a, TrueRecord, StatusFacts
  <2> DEFINE reported == Append(results, Record(s, 0))
  <2>3. /\ UpTo(reported)
        /\ Len(reported) = at
        /\ \A i \in 1 .. at : TrueOf(i, reported[i])
    BY <2>1, <2>2, Added, OneMoreTrue
  <2> HIDE DEF reported
  <2>4. ASSUME Stop(reported)
        PROVE  AllTrue'
    BY <1>a, <2>1, <2>3, <2>4, StopTrue, Zenon
  <2>5. ASSUME results' = reported
        PROVE  AllTrue'
    <3>1. \A i \in 1 .. Len(results') : TrueOf(i, results'[i])
      BY <2>3, <2>5
    <3> QED BY <2>1, <3>1, StayTrue
  <2>6. AllTrue'
    BY <1>7, <2>4, <2>5 DEF ProbeUnreadable, reported
  <2>7. Served'
    BY <2>1 DEF Served
  <2> QED BY <2>6, <2>7
<1>8. CASE ProbeLost
  <2>1. /\ stage = "probe" /\ UNCHANGED <<serves, batched>>
        /\ stage' = "recover" /\ word' = 0
        /\ results' = Append(results, Record("connection-error", 0))
    BY <1>8 DEF ProbeLost, RecoverFrom
  <2>2. Record("connection-error", 0) \in Records
        /\ TrueOf(at, Record("connection-error", 0))
    BY <1>a, TrueRecord, StatusFacts
  <2>3. AllTrue'
    BY <2>1, <2>2, OneMoreTrue, StayTrue
  <2>4. Served'
    BY <2>1 DEF Served
  <2> QED BY <2>3, <2>4
<1>9. CASE Reopen
  <2>1. stage = "recover" /\ UNCHANGED <<serves, batched>> /\ word = 0
    BY <1>9 DEF Reopen, Served
  <2>2. CASE stage' = "recheck" /\ UNCHANGED <<word, results>>
    <3>1. Served'
      BY <2>1, <2>2 DEF Served
    <3> QED BY <2>1, <2>2, <3>1, <1>b
  <2>3. CASE AttemptFailed
    BY <2>1, <2>3, AttemptTrue DEF Served
  <2> QED BY <1>9, <2>2, <2>3 DEF Reopen
<1>10. CASE Recheck
  <2>1. stage = "recheck" /\ UNCHANGED <<serves, batched>> /\ word = 0
    BY <1>10 DEF Recheck, Served
  <2>2. CASE Proceed /\ UNCHANGED results
    <3>1. Served'
      BY <1>a, <2>1, <2>2, ProceedServed
    <3> QED BY <2>1, <2>2, <3>1, <1>b
  <2>3. CASE AttemptFailed
    BY <2>1, <2>3, AttemptTrue DEF Served
  <2> QED BY <1>10, <2>2, <2>3 DEF Recheck
<1>11. CASE FinalCheck
  BY <1>11, <1>b DEF FinalCheck, Served
<1>12. CASE ProbeCloses
  BY <1>12, <1>b DEF ProbeCloses, Served
<1> QED BY <1>1, <1>2, <1>3, <1>4, <1>5, <1>6, <1>7, <1>8, <1>9, <1>10, <1>11,
  <1>12 DEF ProbeStep
-----------------------------------------------------------------------------
(* What recover() waits for. *)

Watched == stage \in {"probe", "cross"} => alive

LEMMA WatchedStep ==
  ASSUME Watched, ProbeStep
  PROVE  Watched'
<1> USE DEF Watched
<1>1. CASE FirstCheck
  BY <1>1 DEF FirstCheck
<1>2. CASE WordRead
  BY <1>2 DEF WordRead
<1>3. CASE CrossCheck
  BY <1>3 DEF CrossCheck
<1>4. CASE Rejected
  BY <1>4 DEF Rejected
<1>5. CASE ProbeException
  BY <1>5 DEF ProbeException
<1>6. CASE Reopen
  BY <1>6 DEF Reopen, AttemptFailed, Stop
<1>7. CASE Recheck
  BY <1>7 DEF Recheck, AttemptFailed, Stop
<1>8. ASSUME ProbeConnects \/ ProbeLost \/ FinalCheck \/ ProbeCloses
             \/ \E s \in Unreadable : ProbeUnreadable(s)
      PROVE  stage' \notin {"probe", "cross"}
  BY <1>8 DEF ProbeConnects, ProbeLost, FinalCheck, ProbeCloses,
    ProbeUnreadable, RecoverFrom, Stop
<1> QED BY <1>1, <1>2, <1>3, <1>4, <1>5, <1>6, <1>7, <1>8 DEF ProbeStep

\* What is left of a silence h after some ticks.
LeftOf(h, ticks) ==
  IF h = MaxHush THEN h ELSE IF h > ticks THEN h - ticks ELSE 0

NoneSkipped(rs) == \A i \in 1 .. Len(rs) : rs[i].status # Skipped

\* Why a run may have stopped before the last candidate.
Excused ==
  \/ MaxTimeouts > 0 /\ bad = MaxTimeouts
  \/ since.hush > 4 \/ since.hush = MaxHush
  \/ faults > since.faults

\* Since recovery began, either something else went wrong, or the silence is
\* what is left of the first one.
Waited ==
  /\ Going => NoneSkipped(results)
  /\ stage = "final" => NoneSkipped(results) \/ Excused
  /\ stage \in {"recover", "recheck"} =>
       \/ faults > since.faults
       \/ /\ faults = since.faults
          /\ hush = IF tries = 0
                      THEN IF stage = "recover" THEN since.hush
                                                ELSE LeftOf(since.hush, 1)
                      ELSE IF stage = "recover" THEN LeftOf(since.hush, 1)
                                 ELSE LeftOf(LeftOf(since.hush, 1), 3)

LEMMA NoneSkippedAppended ==
  ASSUME NEW rs \in Seq(Records), NoneSkipped(rs),
         NEW rec \in Records, rec.status # Skipped
  PROVE  NoneSkipped(Append(rs, rec))
<1>1. \A i \in 1 .. Len(rs) + 1 : i \in 1 .. Len(rs) \/ i = Len(rs) + 1
  BY LenProperties
<1> QED BY <1>1, Appended DEF NoneSkipped

\* A liveness check or a connection that fails: the device was silent, or a
\* fault is counted.
LEMMA NotAnswered ==
  ASSUME LinkTypeOK, \E k \in Failures : Fails(k)
  PROVE  \/ hush > 0 /\ UNCHANGED <<hush, faults>>
         \/ faults' = faults + 1
BY DEF Fails, linkVars

LEMMA NotReopened ==
  ASSUME LinkTypeOK, NEW ticks \in {1, 3}, StaysDownAfter(ticks)
  PROVE  \/ LeftOf(hush, ticks) > 0 /\ hush' = LeftOf(hush, ticks) /\ UNCHANGED faults
         \/ faults' = faults + 1
BY DEF StaysDownAfter, Left, LeftOf

\* Four ticks do not end it.
LEMMA TooLong ==
  ASSUME NEW h \in 0 .. MaxHush, LeftOf(LeftOf(h, 1), 3) > 0
  PROVE  h > 4 \/ h = MaxHush
BY Bounds DEF LeftOf

\* A failed attempt of recover(), the first or the second.
LEMMA AttemptWaited ==
  ASSUME ProbeTyped, Waited, Going, LinkTypeOK', UNCHANGED <<bad, since>>,
         AttemptFailed,
         LET h == IF tries = 0 THEN LeftOf(since.hush, 1)
                               ELSE LeftOf(LeftOf(since.hush, 1), 3)
         IN \/ faults' > since.faults
            \/ faults' = since.faults /\ hush' = h /\ h > 0
  PROVE  Waited'
<1>1. since.hush \in 0 .. MaxHush /\ since.faults \in 0 .. MaxFaults
      /\ tries \in {0, 1}
  BY DEF ProbeTyped
<1>2. CASE tries = 0
  <2>1. stage' = "recover" /\ tries' = 1 /\ UNCHANGED <<results, since>>
    BY <1>2 DEF AttemptFailed
  <2>2. \/ faults' > since.faults
        \/ faults' = since.faults /\ hush' = LeftOf(since.hush, 1)
    BY <1>2
  <2>3. LeftOf(since.hush, 1)' = LeftOf(since.hush, 1)
    BY <2>1 DEF LeftOf
  <2> QED BY <2>1, <2>2, <2>3 DEF Waited, Going
<1>3. CASE tries = 1
  <2>1. stage' = "final"
    BY <1>3 DEF AttemptFailed, Stop
  <2>2. \/ faults' > since.faults
        \/ LeftOf(LeftOf(since.hush, 1), 3) > 0
    BY <1>3
  <2>3. faults' > since.faults \/ since.hush > 4 \/ since.hush = MaxHush
    BY <1>1, <2>2, TooLong
  <2>4. Excused'
    BY <2>3 DEF Excused
  <2> QED BY <2>1, <2>4 DEF Waited, Going
<1> QED BY <1>1, <1>2, <1>3

LEMMA ProceedWaited ==
  ASSUME NoneSkipped(results'), Proceed
  PROVE  Waited'
BY DEF Waited, Proceed, Going

LEMMA RecoverFromWaited ==
  ASSUME ProbeTyped, NoneSkipped(results'), stage = "probe", RecoverFrom,
         LinkTypeOK'
  PROVE  Waited'
<1>1. stage' = "recover" /\ tries' = 0
  BY DEF RecoverFrom, ProbeTyped
<1>2. since'.hush = hush' /\ since'.faults = faults'
  BY DEF RecoverFrom
<1> QED BY <1>1, <1>2 DEF Waited, Going

LEMMA WaitedStep ==
  ASSUME Reported, ProbeTyped, ProbeTyped', LinkTypeOK, LinkTypeOK', Waited,
         ProbeStep
  PROVE  Waited'
<1>a. /\ at \in Candidates /\ Words[at] \in Nat /\ word \in Nat
      /\ results \in Seq(Records)
      /\ since.hush \in 0 .. MaxHush /\ since.faults \in 0 .. MaxFaults
      /\ tries \in {0, 1} /\ faults \in Nat
  BY CandidateFacts DEF Reported, ProbeTyped, LinkTypeOK
<1>b. ASSUME Going, NEW s \in Statuses, NEW n \in Nat, s # Skipped
      PROVE  NoneSkipped(Append(results, Record(s, n)))
  BY <1>a, <1>b, NewRecord, NoneSkippedAppended DEF Waited
<1>d. /\ {"data", "partial", "illegal-address", "modbus-exception",
          "connection-error", "timeout", "protocol-error"} \subseteq Statuses
      /\ Skipped = "skipped"
  BY DEF Statuses, Unreadable, Skipped
<1>1. CASE ProbeConnects
  BY <1>1 DEF ProbeConnects, Waited, Going
<1>2. CASE FirstCheck
  BY <1>2 DEF FirstCheck, Waited, Going
<1>3. CASE WordRead
  <2>1. Going
    BY <1>3 DEF WordRead, Going
  <2>2. CASE UNCHANGED results /\ stage' \in {"probe", "cross"}
    BY <2>1, <2>2 DEF Waited, Going
  <2>3. CASE results' = Append(results, Record("data", Words[at])) /\ Proceed
    BY <1>a, <1>b, <1>d, <2>1, <2>3, ProceedWaited
  <2> QED BY <1>3, <2>2, <2>3 DEF WordRead
<1>4. CASE CrossCheck
  BY <1>a, <1>b, <1>d, <1>4, ProceedWaited DEF CrossCheck, Going
<1>5. CASE Rejected
  BY <1>a, <1>b, <1>d, <1>5, ProceedWaited DEF Rejected, Going
<1>6. CASE ProbeException
  BY <1>a, <1>b, <1>d, <1>6, ProceedWaited DEF ProbeException, Going
<1>7. ASSUME NEW s \in Unreadable, ProbeUnreadable(s)
      PROVE  Waited'
  <2>1. stage = "probe" /\ Going /\ bad' = bad + 1
    BY <1>7 DEF ProbeUnreadable, Going
  <2>2. NoneSkipped(Append(results, Record(s, 0)))
    BY <1>a, <1>b, <1>d, <2>1 DEF Unreadable
  <2>3. CASE MaxTimeouts > 0 /\ bad' >= MaxTimeouts /\ stage' = "final"
    <3>1. bad' = MaxTimeouts
      BY <2>3, ProbeAssumption DEF ProbeTyped
    <3>2. Excused'
      BY <2>3, <3>1 DEF Excused
    <3> QED BY <2>3, <3>2 DEF Waited, Going
  <2>4. CASE results' = Append(results, Record(s, 0)) /\ RecoverFrom
    BY <2>1, <2>2, <2>4, RecoverFromWaited
  <2> QED BY <1>7, <2>3, <2>4 DEF ProbeUnreadable, Stop
<1>8. CASE ProbeLost
  <2>1. stage = "probe" /\ Going /\ RecoverFrom
        /\ results' = Append(results, Record("connection-error", 0))
    BY <1>8 DEF ProbeLost, Going
  <2> QED BY <1>a, <1>b, <1>d, <2>1, RecoverFromWaited
<1>9. CASE Reopen
  <2>1. stage = "recover" /\ Going /\ UNCHANGED <<bad, since>>
    BY <1>9 DEF Reopen, Going
  <2>2. Delay = IF tries = 0 THEN 1 ELSE 3
    BY DEF Delay
  <2>3. CASE ReopensAfter(Delay) /\ stage' = "recheck" /\ UNCHANGED <<tries, results>>
    <3>1. hush' = LeftOf(hush, Delay) /\ UNCHANGED faults
      BY <2>3 DEF ReopensAfter, Left, LeftOf
    <3>2. tries = 0 => hush' = LeftOf(hush, 1)
      BY <2>2, <3>1
    <3>3. tries # 0 => hush' = LeftOf(hush, 3)
      BY <2>2, <3>1
    <3>4. \/ faults' > since'.faults
          \/ /\ faults' = since'.faults
             /\ hush' = IF tries = 0 THEN LeftOf(since'.hush, 1)
                        ELSE LeftOf(LeftOf(since'.hush, 1), 3)
      BY <2>1, <3>1, <3>2, <3>3 DEF Waited
    <3>5. \/ faults' > since'.faults
          \/ /\ faults' = since'.faults
             /\ hush' = IF tries = 0 THEN LeftOf(since.hush, 1)'
                        ELSE LeftOf(LeftOf(since.hush, 1), 3)'
      BY <3>4 DEF LeftOf
    <3> QED BY <2>1, <2>3, <3>5 DEF Waited, Going
  <2>4. CASE StaysDownAfter(Delay) /\ AttemptFailed
    <3>1. Delay \in {1, 3}
      BY <2>2
    <3>2. \/ LeftOf(hush, Delay) > 0 /\ hush' = LeftOf(hush, Delay) /\ UNCHANGED faults
          \/ faults' = faults + 1
      BY <2>4, <3>1, NotReopened
    <3>3. \/ faults > since.faults
          \/ /\ faults = since.faults
             /\ hush = IF tries = 0 THEN since.hush ELSE LeftOf(since.hush, 1)
      BY <2>1 DEF Waited
    <3>4. CASE tries = 0
      BY <2>1, <2>2, <2>4, <3>2, <3>3, <3>4, <1>a, AttemptWaited
    <3>5. CASE tries = 1
      BY <2>1, <2>2, <2>4, <3>2, <3>3, <3>5, <1>a, AttemptWaited
    <3> QED BY <1>a, <3>4, <3>5
  <2> QED BY <1>9, <2>3, <2>4 DEF Reopen
<1>10. CASE Recheck
  <2>1. stage = "recheck" /\ Going /\ UNCHANGED <<bad, since>>
    BY <1>10 DEF Recheck, Going
  <2>2. CASE Proceed /\ UNCHANGED results
    BY <2>1, <2>2, ProceedWaited DEF Waited, NoneSkipped
  <2>3. CASE (\E k \in Failures : Fails(k)) /\ AttemptFailed
    <3>1. (hush > 0 /\ UNCHANGED <<hush, faults>>) \/ faults' = faults + 1
      BY <2>3, NotAnswered
    <3>2. \/ faults > since.faults
          \/ /\ faults = since.faults
             /\ hush = IF tries = 0 THEN LeftOf(since.hush, 1)
                       ELSE LeftOf(LeftOf(since.hush, 1), 3)
      BY <2>1 DEF Waited
    <3> QED BY <2>1, <2>3, <3>1, <3>2, <1>a, AttemptWaited
  <2> QED BY <1>10, <2>2, <2>3 DEF Recheck, Sane
<1>11. CASE FinalCheck
  BY <1>11 DEF FinalCheck, Waited, Going
<1>12. CASE ProbeCloses
  BY <1>12 DEF ProbeCloses, Waited, Going
<1> QED BY <1>1, <1>2, <1>3, <1>4, <1>5, <1>6, <1>7, <1>8, <1>9, <1>10, <1>11,
  <1>12 DEF ProbeStep
-----------------------------------------------------------------------------
(* Timeouts and corrupted replies that follow one another. *)

BadIn(rs, i, j) == {k \in i .. j : rs[k].status \in Unreadable}

Only(rs, i, j) == \A k \in i .. j : rs[k].status \in Unanswered

\* No run of unanswered candidates has more than n unreadable ones.
AtMost(rs, n) ==
  \A i, j \in 1 .. Len(rs) : Only(rs, i, j) => Cardinality(BadIn(rs, i, j)) <= n

\* Nor has the one the report ends with.
AtMostLast(rs, n) ==
  \A i \in 1 .. Len(rs) :
    Only(rs, i, Len(rs)) => Cardinality(BadIn(rs, i, Len(rs))) <= n

LEMMA BadInFinite ==
  ASSUME NEW rs, NEW i \in Nat, NEW j \in Nat
  PROVE  /\ IsFiniteSet(BadIn(rs, i, j))
         /\ Cardinality(BadIn(rs, i, j)) \in Nat
         /\ i > j => Cardinality(BadIn(rs, i, j)) = 0
<1>1. IsFiniteSet(i .. j)
  BY FS_Interval
<1>2. BadIn(rs, i, j) \in SUBSET (i .. j)
  BY DEF BadIn
<1>3. IsFiniteSet(BadIn(rs, i, j))
  BY <1>1, <1>2, FS_Subset
<1>4. i > j => BadIn(rs, i, j) = {}
  BY DEF BadIn
<1> QED BY <1>3, <1>4, FS_CardinalityType, FS_EmptySet

LEMMA SameRange ==
  ASSUME NEW rs, NEW ts, NEW i \in Nat, NEW j \in Nat,
         \A k \in i .. j : ts[k] = rs[k]
  PROVE  BadIn(ts, i, j) = BadIn(rs, i, j) /\ Only(ts, i, j) = Only(rs, i, j)
BY DEF BadIn, Only

LEMMA AppendedAtMost ==
  ASSUME NEW rs \in Seq(Records), NEW rec \in Records,
         NEW n \in Nat, NEW b \in Nat, NEW c \in Nat,
         AtMost(rs, n), AtMostLast(rs, b),
         rec.status \in Unreadable => c = b + 1, b <= c, c <= n
  PROVE  AtMost(Append(rs, rec), n) /\ AtMostLast(Append(rs, rec), c)
<1> DEFINE l  == Len(rs)
           ts == Append(rs, rec)
<1>1. /\ l \in Nat /\ Len(ts) = l + 1
      /\ \A k \in 1 .. l : ts[k] = rs[k]
      /\ ts[l + 1] = rec
  BY Appended
<1> HIDE DEF ts
<1>2. ASSUME NEW i \in 1 .. l + 1, Only(ts, i, l + 1)
      PROVE  Cardinality(BadIn(ts, i, l + 1)) <= c
  <2>1. /\ i \in Nat /\ l + 1 \in Nat
        /\ i .. l + 1 = (i .. l) \cup {l + 1} /\ i .. l \subseteq 1 .. l
    BY <1>1
  <2>2. BadIn(ts, i, l) = BadIn(rs, i, l) /\ Only(ts, i, l) = Only(rs, i, l)
    <3>1. l \in Nat /\ \A k \in i .. l : ts[k] = rs[k]
      BY <1>1, <2>1
    <3> HIDE DEF l
    <3> QED BY <2>1, <3>1, SameRange
  <2>3. Cardinality(BadIn(rs, i, l)) <= b /\ Cardinality(BadIn(rs, i, l)) \in Nat
    <3>1. CASE i = l + 1
      <4>1. i > l
        BY <1>1, <3>1
      <4> QED BY <1>1, <2>1, <4>1, BadInFinite
    <3>2. CASE i # l + 1
      <4>1. i \in 1 .. l
        BY <1>1, <3>2
      <4>2. Only(ts, i, l)
        BY <1>2, <2>1 DEF Only
      <4>3. Cardinality(BadIn(rs, i, l)) <= b
        BY <2>2, <4>1, <4>2 DEF AtMostLast
      <4> QED BY <1>1, <2>1, <4>3, BadInFinite
    <3> QED BY <3>1, <3>2
  <2>4. CASE rec.status \in Unreadable
    <3>1. BadIn(ts, i, l + 1) = BadIn(rs, i, l) \cup {l + 1}
      BY <1>1, <2>1, <2>2, <2>4 DEF BadIn
    <3>2. IsFiniteSet(BadIn(rs, i, l))
      BY <1>1, <2>1, BadInFinite
    <3>3. Cardinality(BadIn(ts, i, l + 1)) <= Cardinality(BadIn(rs, i, l)) + 1
      <4>1. Cardinality(BadIn(rs, i, l) \cup {l + 1}) =
              IF l + 1 \in BadIn(rs, i, l) THEN Cardinality(BadIn(rs, i, l))
                                           ELSE Cardinality(BadIn(rs, i, l)) + 1
        BY <3>2, FS_AddElement, Zenon
      <4>2. \/ Cardinality(BadIn(ts, i, l + 1)) = Cardinality(BadIn(rs, i, l))
            \/ Cardinality(BadIn(ts, i, l + 1)) = Cardinality(BadIn(rs, i, l)) + 1
        BY <3>1, <4>1, Zenon
      <4> HIDE DEF l
      <4> QED BY <2>3, <4>2
    <3>4. Cardinality(BadIn(ts, i, l + 1)) \in Nat
      BY <2>1, BadInFinite
    <3> QED BY <2>3, <2>4, <3>3, <3>4
  <2>5. CASE rec.status \notin Unreadable
    <3>1. BadIn(ts, i, l + 1) = BadIn(rs, i, l)
      BY <1>1, <2>1, <2>2, <2>5 DEF BadIn
    <3> QED BY <2>3, <3>1
  <2> QED BY <2>4, <2>5
<1>3. ASSUME NEW i \in 1 .. l + 1, NEW j \in 1 .. l + 1, Only(ts, i, j)
      PROVE  Cardinality(BadIn(ts, i, j)) <= n
  <2>1. CASE j = l + 1
    <3>1. Cardinality(BadIn(ts, i, j)) <= c
      BY <1>2, <1>3, <2>1
    <3>2. Cardinality(BadIn(ts, i, j)) \in Nat
      BY <1>1, BadInFinite
    <3> QED BY <3>1, <3>2
  <2>2. CASE j # l + 1 /\ i = l + 1
    <3>1. i > j /\ i \in Nat /\ j \in Nat
      BY <1>1, <2>2
    <3> QED BY <3>1, BadInFinite
  <2>3. CASE j # l + 1 /\ i # l + 1
    <3>1. /\ i \in 1 .. l /\ j \in 1 .. l /\ i \in Nat /\ j \in Nat
          /\ i .. j \subseteq 1 .. l
      BY <1>1, <2>3
    <3>2. BadIn(ts, i, j) = BadIn(rs, i, j) /\ Only(ts, i, j) = Only(rs, i, j)
      BY <1>1, <3>1, SameRange
    <3> QED BY <1>3, <3>1, <3>2 DEF AtMost
  <2> QED BY <2>1, <2>2, <2>3
<1>4. AtMost(ts, n)
  BY <1>1, <1>3 DEF AtMost
<1>5. AtMostLast(ts, c)
  BY <1>1, <1>2 DEF AtMostLast
<1> QED BY <1>4, <1>5 DEF ts

\* A record that ends every run.
LEMMA AnsweredAtMost ==
  ASSUME NEW rs \in Seq(Records), NEW rec \in Records, NEW n \in Nat,
         AtMost(rs, n), rec.status \notin Unanswered
  PROVE  AtMost(Append(rs, rec), n) /\ AtMostLast(Append(rs, rec), 0)
<1> DEFINE l  == Len(rs)
           ts == Append(rs, rec)
<1>1. /\ l \in Nat /\ Len(ts) = l + 1
      /\ \A k \in 1 .. l : ts[k] = rs[k]
      /\ ts[l + 1] = rec
  BY Appended
<1> HIDE DEF ts
<1>2. \A i \in 1 .. l + 1 : ~ Only(ts, i, l + 1)
  BY <1>1 DEF Only
<1>3. ASSUME NEW i \in 1 .. l + 1, NEW j \in 1 .. l + 1, Only(ts, i, j)
      PROVE  Cardinality(BadIn(ts, i, j)) <= n
  <2>1. j \in 1 .. l /\ i \in Nat /\ j \in Nat
    BY <1>1, <1>2, <1>3
  <2>2. CASE i = l + 1
    <3>1. i > j
      BY <1>1, <2>1, <2>2
    <3> QED BY <2>1, <3>1, BadInFinite
  <2>3. CASE i # l + 1
    <3>1. i \in 1 .. l /\ i .. j \subseteq 1 .. l
      BY <1>1, <2>1, <2>3
    <3>2. BadIn(ts, i, j) = BadIn(rs, i, j) /\ Only(ts, i, j) = Only(rs, i, j)
      BY <1>1, <2>1, <3>1, SameRange
    <3> QED BY <1>3, <2>1, <3>1, <3>2 DEF AtMost
  <2> QED BY <2>2, <2>3
<1>4. AtMost(ts, n) /\ AtMostLast(ts, 0)
  BY <1>1, <1>2, <1>3 DEF AtMost, AtMostLast
<1> QED BY <1>4 DEF ts

\* The skipped ones end it, too.
LEMMA StoppedAtMost ==
  ASSUME at \in Candidates, NEW rs \in Seq(Records), Len(rs) = at,
         NEW n \in Nat, AtMost(rs, n)
  PROVE  AtMost(rs \o Rest, n)
<1> DEFINE ts == rs \o Rest
<1>1. /\ at \in Nat /\ Len(ts) = Len(Words) /\ Len(Words) \in Nat
      /\ \A k \in 1 .. at : ts[k] = rs[k]
      /\ \A k \in at + 1 .. Len(Words) :
           ts[k] = [cand |-> k, status |-> Skipped, words |-> 0]
  BY CandidateFacts, Stopped
<1> HIDE DEF ts
<1>2. Skipped \notin Unanswered
  BY DEF Skipped, Unanswered, Unreadable
<1>3. ASSUME NEW k \in at + 1 .. Len(Words)
      PROVE  ts[k].status \notin Unanswered
  <2>1. [cand |-> k, status |-> Skipped, words |-> 0].status = Skipped
    OBVIOUS
  <2> QED BY <1>1, <1>2, <2>1, Zenon
<1>4. ASSUME NEW i \in 1 .. Len(ts), NEW j \in 1 .. Len(ts), Only(ts, i, j)
      PROVE  Cardinality(BadIn(ts, i, j)) <= n
  <2>1. i \in Nat /\ j \in Nat
    BY <1>1
  <2>2. CASE i > j
    BY <2>1, <2>2, BadInFinite
  <2>3. CASE ~ (i > j)
    <3>1. j \in i .. j
      BY <2>1, <2>3
    <3>2. ts[j].status \in Unanswered
      BY <1>4, <3>1 DEF Only
    <3>3. ~ (j \in at + 1 .. Len(Words))
      BY <1>3, <3>2
    <3>4. i \in 1 .. at /\ j \in 1 .. at /\ i .. j \subseteq 1 .. at
      BY <1>1, <2>3, <3>3
    <3>5. BadIn(ts, i, j) = BadIn(rs, i, j) /\ Only(ts, i, j) = Only(rs, i, j)
      <4>1. \A k \in i .. j : ts[k] = rs[k]
        BY <1>1, <3>4
      <4> QED BY <2>1, <4>1, SameRange
    <3> QED BY <1>4, <3>4, <3>5 DEF AtMost
  <2> QED BY <2>2, <2>3
<1>5. AtMost(ts, n)
  BY <1>4 DEF AtMost
<1> QED BY <1>5 DEF ts

\* With a limit: before the end no run has reached it, and the last one has as
\* many unreadable candidates as are counted, or fewer.
Limited ==
  MaxTimeouts > 0 =>
    /\ AtMost(results, MaxTimeouts)
    /\ Going => AtMost(results, MaxTimeouts - 1)
    /\ stage \notin {"cross", "final", "close", "over"} => AtMostLast(results, bad)

LEMMA LimitedKept ==
  ASSUME Limited, UNCHANGED results, Going' => Going,
         stage' \notin {"cross", "final", "close", "over"} =>
           stage # "cross" /\ Going /\ UNCHANGED bad
  PROVE  Limited'
BY DEF Limited, AtMost, AtMostLast, BadIn, Only, Going

\* An answered candidate.
LEMMA LimitedAnswered ==
  ASSUME Limited, Reported, Going, bad' \in Nat,
         NEW rec \in Records, rec.status \notin Unanswered,
         results' = Append(results, rec), Proceed
  PROVE  Limited'
<1> SUFFICES ASSUME MaxTimeouts > 0
             PROVE  Limited'
  BY DEF Limited
<1>1. results \in Seq(Records) /\ MaxTimeouts \in Nat /\ MaxTimeouts - 1 \in Nat
  BY ProbeAssumption DEF Reported
<1>2. AtMost(results, MaxTimeouts) /\ AtMost(results, MaxTimeouts - 1)
  BY DEF Limited
<1>3. /\ AtMost(results', MaxTimeouts) /\ AtMost(results', MaxTimeouts - 1)
      /\ AtMostLast(results', 0)
  BY <1>1, <1>2, AnsweredAtMost
<1>4. AtMostLast(results', bad')
  <2>1. \A i \in 1 .. Len(results') :
          i \in Nat /\ Len(results') \in Nat
          /\ Cardinality(BadIn(results', i, Len(results'))) \in Nat
    <3>1. Len(results') \in Nat
      BY <1>1, Appended
    <3>2. \A i \in 1 .. Len(results') : i \in Nat
      BY <3>1
    <3> QED BY <3>1, <3>2, BadInFinite
  <2>2. \A i \in 1 .. Len(results') : Only(results', i, Len(results')) =>
           Cardinality(BadIn(results', i, Len(results'))) <= 0
    BY <1>3 DEF AtMostLast
  <2>3. \A i \in 1 .. Len(results') : Only(results', i, Len(results')) =>
           Cardinality(BadIn(results', i, Len(results'))) <= bad'
    BY <2>1, <2>2
  <2> QED BY <2>3 DEF AtMostLast
<1>5. stage' \in {"final", "probe"}
  BY DEF Proceed
<1> QED BY <1>3, <1>4, <1>5 DEF Limited, AtMost, AtMostLast, BadIn, Only

\* A failed attempt of recover(): the rest of the candidates end no run.
LEMMA AttemptLimited ==
  ASSUME Limited, Reported, stage \in {"recover", "recheck"}, UNCHANGED bad,
         AttemptFailed
  PROVE  Limited'
<1>1. CASE tries = 0
  BY <1>1, LimitedKept DEF AttemptFailed, Going
<1>2. CASE tries # 0
  <2> SUFFICES ASSUME MaxTimeouts > 0
               PROVE  Limited'
    BY DEF Limited
  <2>1. results' = results \o Rest /\ stage' = "final"
    BY <1>2 DEF AttemptFailed, Stop, Rest
  <2>2. /\ results \in Seq(Records) /\ Len(results) = at /\ at \in Candidates
        /\ AtMost(results, MaxTimeouts) /\ MaxTimeouts \in Nat
    BY ProbeAssumption DEF Reported, Limited
  <2>3. AtMost(results', MaxTimeouts)
    BY <2>1, <2>2, StoppedAtMost
  <2> QED BY <2>1, <2>3 DEF Limited, Going, AtMost, BadIn, Only
<1> QED BY <1>1, <1>2

LEMMA LimitedStep ==
  ASSUME Reported, ProbeTyped, ProbeTyped', Limited, ProbeStep
  PROVE  Limited'
<1>a. /\ at \in Candidates /\ Words[at] \in Nat /\ word \in Nat
      /\ results \in Seq(Records) /\ bad \in Nat /\ bad' \in Nat
      /\ MaxTimeouts \in Nat
  BY CandidateFacts, ProbeAssumption DEF Reported, ProbeTyped
<1>b. /\ {"data", "partial", "illegal-address", "modbus-exception"}
           \subseteq Statuses \ Unanswered
      /\ Unanswered \subseteq Statuses /\ Unreadable \subseteq Unanswered
      /\ "connection-error" \in Unanswered \ Unreadable
  BY DEF Statuses, Unanswered, Unreadable
<1>c. ASSUME NEW s \in Statuses \ Unanswered, NEW n \in Nat, Going,
             results' = Append(results, Record(s, n)), Proceed
      PROVE  Limited'
  <2>1. Record(s, n) \in Records /\ Record(s, n).status = s
    BY <1>a, NewRecord
  <2> QED BY <1>a, <1>c, <2>1, LimitedAnswered
<1>d. ASSUME Going, UNCHANGED <<bad, results>>, stage # "cross",
             stage' # "cross"
      PROVE  Limited'
  BY <1>d, LimitedKept DEF Going
<1>1. CASE ProbeConnects
  BY <1>1, <1>d DEF ProbeConnects, Going
<1>2. CASE FirstCheck
  BY <1>2, <1>d DEF FirstCheck, Going
<1>3. CASE WordRead
  <2>1. stage = "probe" /\ Going
    BY <1>3 DEF WordRead, Going
  <2>2. CASE UNCHANGED <<stage, bad, results>>
    BY <2>1, <2>2, <1>d
  <2>3. CASE stage' = "cross" /\ UNCHANGED results
    BY <2>1, <2>3, LimitedKept DEF Going
  <2>4. CASE results' = Append(results, Record("data", Words[at])) /\ Proceed
    BY <1>a, <1>b, <1>c, <2>1, <2>4
  <2> QED BY <1>3, <2>2, <2>3, <2>4 DEF WordRead
<1>4. CASE CrossCheck
  BY <1>a, <1>b, <1>c, <1>4 DEF CrossCheck, Going
<1>5. CASE Rejected
  BY <1>a, <1>b, <1>c, <1>5 DEF Rejected, Going
<1>6. CASE ProbeException
  BY <1>a, <1>b, <1>c, <1>6 DEF ProbeException, Going
<1>7. ASSUME NEW s \in Unreadable, ProbeUnreadable(s), MaxTimeouts > 0
      PROVE  Limited'
  <2> DEFINE reported == Append(results, Record(s, 0))
  <2>1. /\ stage = "probe" /\ Going /\ bad' = bad + 1
        /\ AtMost(results, MaxTimeouts) /\ AtMost(results, MaxTimeouts - 1)
        /\ AtMostLast(results, bad)
    BY <1>7 DEF ProbeUnreadable, Going, Limited
  <2>2. Record(s, 0) \in Records /\ Record(s, 0).status = s
    BY <1>a, <1>b, NewRecord
  <2>3. bad + 1 \in Nat /\ bad + 1 <= MaxTimeouts
    BY <1>a, <1>7, <2>1 DEF ProbeTyped
  <2>4. reported \in Seq(Records) /\ Len(reported) = Len(results) + 1
    BY <1>a, <2>2, Appended
  <2>5. AtMost(reported, MaxTimeouts) /\ AtMostLast(reported, bad + 1)
    BY <1>a, <2>1, <2>2, <2>3, AppendedAtMost
  <2>6. bad + 1 < MaxTimeouts => AtMost(reported, MaxTimeouts - 1)
    <3> SUFFICES ASSUME bad + 1 < MaxTimeouts
                 PROVE  AtMost(reported, MaxTimeouts - 1)
      OBVIOUS
    <3>1. MaxTimeouts - 1 \in Nat /\ bad + 1 <= MaxTimeouts - 1
      BY <1>a
    <3> QED BY <1>a, <2>1, <2>2, <2>3, <3>1, AppendedAtMost
  <2>7. CASE bad' >= MaxTimeouts /\ Stop(reported)
    <3>1. Len(reported) = at
      BY <1>a, <2>1, <2>4, CandidateFacts DEF Reported
    <3>2. results' = reported \o Rest /\ stage' = "final"
      BY <2>7 DEF Stop, Rest
    <3>3. AtMost(results', MaxTimeouts)
      BY <1>a, <2>4, <2>5, <3>1, <3>2, StoppedAtMost
    <3> QED BY <3>2, <3>3 DEF Limited, Going, AtMost, BadIn, Only
  <2>8. CASE ~ (bad' >= MaxTimeouts) /\ results' = reported /\ RecoverFrom
    <3>1. stage' = "recover" /\ bad + 1 < MaxTimeouts
      BY <1>a, <2>1, <2>8 DEF RecoverFrom
    <3> HIDE DEF reported
    <3>2. /\ AtMost(results', MaxTimeouts) /\ AtMost(results', MaxTimeouts - 1)
          /\ AtMostLast(results', bad')
      BY <2>1, <2>5, <2>6, <2>8, <3>1
    <3> QED BY <3>1, <3>2 DEF Limited, Going, AtMost, AtMostLast, BadIn, Only
  <2> QED BY <1>7, <2>7, <2>8 DEF ProbeUnreadable
<1>8. ASSUME ProbeLost, MaxTimeouts > 0
      PROVE  Limited'
  <2>1. /\ stage = "probe" /\ Going /\ UNCHANGED bad /\ stage' = "recover"
        /\ results' = Append(results, Record("connection-error", 0))
        /\ AtMost(results, MaxTimeouts) /\ AtMost(results, MaxTimeouts - 1)
        /\ AtMostLast(results, bad)
    BY <1>8 DEF ProbeLost, RecoverFrom, Going, Limited
  <2>2. Record("connection-error", 0) \in Records
        /\ Record("connection-error", 0).status \notin Unreadable
    BY <1>a, <1>b, NewRecord
  <2>3. MaxTimeouts - 1 \in Nat /\ bad <= MaxTimeouts - 1 /\ bad <= MaxTimeouts
    BY <1>a, <1>8, <2>1 DEF ProbeTyped
  <2>4. /\ AtMost(results', MaxTimeouts) /\ AtMost(results', MaxTimeouts - 1)
        /\ AtMostLast(results', bad)
    BY <1>a, <2>1, <2>2, <2>3, AppendedAtMost
  <2> QED BY <2>1, <2>4 DEF Limited, Going, AtMost, AtMostLast, BadIn, Only
<1>9. CASE Reopen
  BY <1>9, <1>d, AttemptLimited DEF Reopen, Going
<1>10. CASE Recheck
  <2>1. CASE Proceed /\ UNCHANGED results
    BY <1>10, <2>1, <1>d DEF Recheck, Proceed, Going
  <2>2. CASE AttemptFailed
    BY <1>10, <2>2, AttemptLimited DEF Recheck
  <2> QED BY <1>10, <2>1, <2>2 DEF Recheck
<1>11. CASE FinalCheck
  BY <1>11, LimitedKept DEF FinalCheck, Going
<1>12. CASE ProbeCloses
  BY <1>12, LimitedKept DEF ProbeCloses, Going
<1>13. MaxTimeouts > 0 \/ Limited'
  BY DEF Limited
<1> QED BY <1>1, <1>2, <1>3, <1>4, <1>5, <1>6, <1>7, <1>8, <1>9, <1>10, <1>11,
  <1>12, <1>13 DEF ProbeStep
-----------------------------------------------------------------------------
(* The whole of it. *)

ProbeInv ==
  /\ Reported
  /\ ProbeTyped
  /\ batched \in BOOLEAN /\ alive \in BOOLEAN
  /\ Served
  /\ AllTrue
  /\ Watched
  /\ Waited
  /\ Limited

LEMMA ProbeInvStep ==
  ASSUME ProbeInv, LinkTypeOK, LinkTypeOK', ProbeStep
  PROVE  ProbeInv'
<1>1. at \in Candidates /\ word \in Nat
  <2>1. at \in Candidates /\ word \in 0 .. Words[at] - 1
    BY DEF ProbeInv, Reported, ProbeTyped
  <2> QED BY <2>1, CandidateFacts
<1>2. Reported'
  BY <1>1, ReportedStep DEF ProbeInv
<1>3. ProbeTyped'
  BY <1>1, TypedStep DEF ProbeInv
<1>4. batched' = batched /\ (alive' = alive \/ alive' = TRUE \/ alive' = FALSE)
  BY DEF ProbeStep, ProbeConnects, FirstCheck, WordRead, CrossCheck, Rejected,
    ProbeException, ProbeUnreadable, ProbeLost, Reopen, Recheck, FinalCheck,
    ProbeCloses
<1>5. Served' /\ AllTrue'
  BY ServedStep DEF ProbeInv
<1>6. Watched'
  BY WatchedStep DEF ProbeInv
<1>7. Waited'
  BY <1>3, WaitedStep DEF ProbeInv
<1>8. Limited'
  BY <1>3, LimitedStep DEF ProbeInv
<1> QED BY <1>2, <1>3, <1>4, <1>5, <1>6, <1>7, <1>8 DEF ProbeInv

NewProbe ==
  /\ stage \in {"off", "connect"} /\ at = 1 /\ word = 0 /\ bad = 0 /\ tries = 0
  /\ results = <<>> /\ code = "none"
  /\ serves \in Services /\ batched \in BOOLEAN /\ alive = FALSE
  /\ since = [hush |-> 0, faults |-> 0]

LEMMA FreshProbe == NewProbe => ProbeInv
<1> SUFFICES ASSUME NewProbe
             PROVE  ProbeInv
  OBVIOUS
<1> USE DEF NewProbe
<1>1. 1 \in Candidates /\ Words[1] \in Nat /\ Words[1] >= 1
  BY CandidateFacts DEF Candidates
<1>2. results \in Seq(Records) /\ Len(results) = 0 /\ 1 .. Len(results) = {}
  BY EmptySeq
<1>3. Reported
  BY <1>1, <1>2 DEF Reported
<1>4. ProbeTyped
  <2>1. since \in [hush : 0 .. MaxHush, faults : 0 .. MaxFaults]
    BY Bounds
  <2>2. MaxTimeouts \in Nat
    BY ProbeAssumption
  <2> QED BY <1>1, <2>1, <2>2 DEF ProbeTyped, ProbeStages, Going
<1>5. Served /\ Watched
  BY DEF Served, Watched
<1>6. AllTrue /\ Waited /\ Limited
  BY <1>2 DEF AllTrue, Waited, NoneSkipped, Limited, AtMost, AtMostLast, Going
<1> QED BY <1>3, <1>4, <1>5, <1>6 DEF ProbeInv

LEMMA ServesNothingServes == ServesNothing \in Services
<1>1. \A c \in Candidates : Words[c] \in Nat /\ 0 \in 0 .. Words[c] /\ 0 <= Words[c]
  BY CandidateFacts
<1> QED BY <1>1 DEF ServesNothing, Services

LEMMA ResetProbe ==
  ASSUME NEW next \in {"off", "connect"}, NEW s \in Services, NEW b \in BOOLEAN,
         ProbeReset(next, s, b)
  PROVE  ProbeInv'
<1>1. NewProbe'
  BY DEF NewProbe, ProbeReset
<1>2. NewProbe' => ProbeInv'
  BY FreshProbe, PTL
<1> QED BY <1>1, <1>2

LEMMA ForgottenProbe == ProbeForgotten => ProbeInv' /\ stage' = "off"
BY ResetProbe, ServesNothingServes DEF ProbeForgotten, ProbeReset

LEMMA ProbeAtRest ==
  ASSUME ProbeInv, UNCHANGED probeVars,
         stage = "off" \/ UNCHANGED <<hush, faults>>
  PROVE  ProbeInv'
<1> USE DEF probeVars
<1>1. /\ Reported' /\ ProbeTyped' /\ batched' \in BOOLEAN /\ alive' \in BOOLEAN
      /\ Served' /\ AllTrue' /\ Watched' /\ Limited'
  <2>1. Reported'
    BY DEF ProbeInv, Reported
  <2>2. ProbeTyped'
    BY DEF ProbeInv, ProbeTyped, ProbeStages, Going
  <2>3. Served' /\ Watched'
    BY DEF ProbeInv, Served, Watched, WholeField
  <2>4. AllTrue'
    BY DEF ProbeInv, AllTrue, TrueOf
  <2>5. Limited'
    BY DEF ProbeInv, Limited, AtMost, AtMostLast, BadIn, Only, Going
  <2> QED BY <2>1, <2>2, <2>3, <2>4, <2>5 DEF ProbeInv
<1>2. Waited'
  <2>1. CASE UNCHANGED <<hush, faults>>
    BY <2>1 DEF ProbeInv, probeVars, Waited, NoneSkipped, Excused, LeftOf, Going
  <2>2. CASE stage = "off"
    BY <2>2 DEF ProbeInv, probeVars, Waited, NoneSkipped, Going
  <2> QED BY <2>1, <2>2
<1> QED BY <1>1, <1>2 DEF ProbeInv
=============================================================================
