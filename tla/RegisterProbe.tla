----------------------------- MODULE RegisterProbe -----------------------------
(***************************************************************************)
(* script/probe_unexplored_registers.py: reads candidate fields one by one *)
(* from a device that may reject them, fall silent over them or lose the   *)
(* link, and reports what became of each.                                  *)
(***************************************************************************)
EXTENDS ProbeDevice, Sequences, FiniteSets

CONSTANTS
  Words,          \* Words[c]: registers of the c-th candidate
  CrossChecked,   \* candidates with a documented register to compare with
  MaxTimeouts     \* --max-timeouts; 0: no limit

Candidates == 1 .. Len(Words)

ASSUME ProbeAssumption ==
  /\ Words \in Seq(Nat \ {0}) /\ Words # <<>>
  /\ CrossChecked \subseteq Candidates
  /\ MaxTimeouts \in Nat

VARIABLES
  stage,     \* where the run stands
  at,        \* the candidate it is at
  word,      \* registers of that candidate read so far
  bad,       \* self.consecutive_bad
  tries,     \* attempts of recover() that failed
  results,   \* self.results
  code,      \* the exit code
  serves,    \* serves[c]: how many leading registers of c the device serves
  batched,   \* --batched
  alive,     \* history: the device has answered since the last failed probe
  since      \* history: silence left and faults so far when recovery began

probeVars == <<stage, at, word, bad, tries, results, code, serves, batched,
               alive, since>>

\* How many leading registers of each candidate a device may serve.
Services ==
  {s \in [Candidates -> UNION {0 .. Words[c] : c \in Candidates}] :
     \A c \in Candidates : s[c] <= Words[c]}

Skipped  == "skipped"
Unreadable == {"timeout", "protocol-error"}
\* Registers that hold zeros are "zero" in the code and "data" here.
Statuses == Unreadable \cup
  {"data", "partial", "illegal-address", "modbus-exception",
   "connection-error", Skipped}

Records == [cand : Candidates, status : Statuses, words : Nat]

ProbeTypeOK ==
  /\ stage \in {"off", "connect", "check", "probe", "cross", "recover",
                "recheck", "final", "close", "over"}
  /\ at \in Candidates
  /\ word \in 0 .. Words[at] - 1
  /\ bad \in Nat /\ (MaxTimeouts > 0 => bad <= MaxTimeouts)
  /\ tries \in 0 .. 1
  /\ results \in Seq(Records)
  /\ code \in {"none", "0", "2"}
  /\ serves \in Services
  /\ batched \in BOOLEAN
  /\ alive \in BOOLEAN
  /\ since \in [hush : 0 .. MaxHush, faults : 0 .. MaxFaults]

ServesNothing == [c \in Candidates |-> 0]

ProbeInit ==
  /\ stage = "off"
  /\ at = 1 /\ word = 0 /\ bad = 0 /\ tries = 0
  /\ results = <<>>
  /\ code = "none"
  /\ serves = ServesNothing
  /\ batched = FALSE
  /\ alive = FALSE
  /\ since = [hush |-> 0, faults |-> 0]
-----------------------------------------------------------------------------
ProbeReset(next, s, b) ==
  /\ stage' = next
  /\ at' = 1 /\ word' = 0 /\ bad' = 0 /\ tries' = 0
  /\ results' = <<>>
  /\ code' = "none"
  /\ serves' = s
  /\ batched' = b
  /\ alive' = FALSE
  /\ since' = [hush |-> 0, faults |-> 0]

ProbeForgotten == ProbeReset("off", ServesNothing, FALSE)

\* Prober.__init__: a run against a device that serves what it serves.
ProbeStarts(s, b) == stage = "off" /\ ProbeReset("connect", s, b)

\* run: connect, or give up with 2.
ProbeConnects ==
  /\ stage = "connect"
  /\ \/ Connects /\ stage' = "check" /\ UNCHANGED code
     \/ ConnectFails /\ stage' = "over" /\ code' = "2"
  /\ UNCHANGED <<at, word, bad, tries, results, serves, batched, alive, since>>

\* sanity(): a liveness register with an unexpected value is a failure too.
Sane(ok) == IF ok THEN Answers ELSE \E k \in Failures : Fails(k)

FirstCheck ==
  /\ stage = "check"
  /\ \/ Sane(TRUE) /\ stage' = "probe" /\ alive' = TRUE /\ UNCHANGED code
     \/ Sane(FALSE) /\ stage' = "close" /\ code' = "2" /\ UNCHANGED alive
  /\ UNCHANGED <<at, word, bad, tries, results, serves, batched, since>>
-----------------------------------------------------------------------------
Record(status, n) == [cand |-> at, status |-> status, words |-> n]

\* probe_one returned True: the next candidate, if there is one.
Proceed ==
  /\ at'    = IF at = Len(Words) THEN at ELSE at + 1
  /\ stage' = IF at = Len(Words) THEN "final" ELSE "probe"
  /\ word'  = 0
  /\ tries' = 0

\* Mutant: the candidate the run stopped at is skipped, too.
StopFromHere(reported) ==
  /\ results' = reported \o
       [i \in 1 .. Len(Words) - at + 1 |->
          [cand |-> at + i - 1, status |-> Skipped, words |-> 0]]
  /\ stage' = "final"
  /\ word'  = 0
  /\ tries' = 0
  /\ UNCHANGED at

\* probe_one returned False: what is left is reported as skipped.
Stop(reported) ==
  /\ results' = reported \o
       [i \in 1 .. Len(Words) - at |->
          [cand |-> at + i, status |-> Skipped, words |-> 0]]
  /\ stage' = "final"
  /\ word'  = 0
  /\ tries' = 0
  /\ UNCHANGED at

WholeField == batched \/ Words[at] = 1

\* The register or registers of the next request are served.
IsServed == IF WholeField THEN serves[at] >= Words[at] ELSE serves[at] > word

\* One request of _read_words is answered; the last one makes the field known.
WordRead ==
  /\ stage = "probe" /\ Answers /\ IsServed
  /\ IF ~ WholeField /\ word + 1 < Words[at]
       THEN word' = word + 1 /\ UNCHANGED <<stage, at, bad, tries, results>>
       ELSE /\ bad' = 0
            /\ IF at \in CrossChecked
                 THEN stage' = "cross" /\ UNCHANGED <<at, word, tries, results>>
                 ELSE /\ results' = Append(results, Record("data", Words[at]))
                      /\ Proceed
  /\ UNCHANGED <<code, serves, batched, alive, since>>

\* _cross_check: whatever becomes of it, the candidate is recorded as read.
CrossCheck ==
  /\ stage = "cross"
  /\ Answers \/ \E k \in Failures : Fails(k)
  /\ results' = Append(results, Record("data", Words[at]))
  /\ Proceed
  /\ UNCHANGED <<bad, code, serves, batched, alive, since>>

\* Mutant: a later word's address error counts as the field's.
RejectedAsIllegal ==
  /\ stage = "probe" /\ Answers /\ ~ IsServed
  /\ bad' = 0
  /\ results' = Append(results, Record("illegal-address", 0))
  /\ Proceed
  /\ UNCHANGED <<code, serves, batched, alive, since>>

\* Illegal data address: a partly served field is told from an unserved one.
Rejected ==
  /\ stage = "probe" /\ Answers /\ ~ IsServed
  /\ bad' = 0
  /\ results' = Append(results,
       IF word > 0 THEN Record("partial", word)
                   ELSE Record("illegal-address", 0))
  /\ Proceed
  /\ UNCHANGED <<code, serves, batched, alive, since>>

\* Any other exception response; the words read before it are dropped.
ProbeException ==
  /\ stage = "probe" /\ Fails("exception")
  /\ bad' = 0
  /\ results' = Append(results, Record("modbus-exception", 0))
  /\ Proceed
  /\ UNCHANGED <<code, serves, batched, alive, since>>

RecoverFrom ==
  /\ stage' = "recover"
  /\ since' = [hush |-> hush', faults |-> faults']
  /\ word'  = 0
  /\ UNCHANGED <<at, tries>>

\* A timeout or a reply nobody can read: counted, and the run stops when that
\* makes too many in a row.
ProbeUnreadable(status) ==
  /\ stage = "probe"
  /\ \/ status = "timeout" /\ Fails("timeout")
     \/ status = "timeout" /\ ~ IsServed /\ FallsSilent
     \/ status = "protocol-error" /\ Fails("protocol")
  /\ bad' = bad + 1
  /\ alive' = FALSE
  /\ LET reported == Append(results, Record(status, 0)) IN
       IF MaxTimeouts > 0 /\ bad' >= MaxTimeouts
         THEN Stop(reported) /\ UNCHANGED since
         ELSE results' = reported /\ RecoverFrom
  /\ UNCHANGED <<code, serves, batched>>

\* The link is lost: not counted, but recovered from.
ProbeLost ==
  /\ stage = "probe" /\ Fails("lost")
  /\ alive' = FALSE
  /\ results' = Append(results, Record("connection-error", 0))
  /\ RecoverFrom
  /\ UNCHANGED <<bad, code, serves, batched>>
-----------------------------------------------------------------------------
\* Mutant: both attempts of recover() wait as long.
SameDelay == 1

\* recover(): one wait first, three times that before the second attempt.
Delay == IF tries = 0 THEN 1 ELSE 3

\* Mutant: recover() makes an attempt more.
OneAttemptMore ==
  IF tries < 2
    THEN /\ tries' = tries + 1 /\ stage' = "recover"
         /\ UNCHANGED <<at, word, results>>
    ELSE Stop(results)

\* Mutant: recover() tries until it succeeds.
AttemptsForEver ==
  /\ tries' = 1 /\ stage' = "recover"
  /\ UNCHANGED <<at, word, results>>

\* An attempt of recover() failed; the second one makes probe_one return False.
AttemptFailed ==
  IF tries = 0
    THEN /\ tries' = 1 /\ stage' = "recover"
         /\ UNCHANGED <<at, word, results>>
    ELSE Stop(results)

\* Mutant: a link that is open again is enough to go on.
ReopenedIsAlive ==
  /\ stage = "recover"
  /\ \/ ReopensAfter(Delay) /\ Proceed /\ UNCHANGED results
     \/ StaysDownAfter(Delay) /\ AttemptFailed
  /\ UNCHANGED <<bad, code, serves, batched, alive, since>>

Reopen ==
  /\ stage = "recover"
  /\ \/ /\ ReopensAfter(Delay)
        /\ stage' = "recheck"
        /\ UNCHANGED <<at, word, tries, results>>
     \/ StaysDownAfter(Delay) /\ AttemptFailed
  /\ UNCHANGED <<bad, code, serves, batched, alive, since>>

\* Mutant: a device that answers again starts the count anew.
RecheckForgets ==
  /\ stage = "recheck"
  /\ \/ Sane(TRUE) /\ alive' = TRUE /\ Proceed /\ bad' = 0 /\ UNCHANGED results
     \/ Sane(FALSE) /\ AttemptFailed /\ UNCHANGED <<alive, bad>>
  /\ UNCHANGED <<code, serves, batched, since>>

Recheck ==
  /\ stage = "recheck"
  /\ \/ Sane(TRUE) /\ alive' = TRUE /\ Proceed /\ UNCHANGED results
     \/ Sane(FALSE) /\ AttemptFailed /\ UNCHANGED alive
  /\ UNCHANGED <<bad, code, serves, batched, since>>

\* The final liveness check changes nothing but what is printed.
FinalCheck ==
  /\ stage = "final"
  /\ Answers \/ \E k \in Failures : Fails(k)
  /\ stage' = "close"
  /\ code' = "0"
  /\ UNCHANGED <<at, word, bad, tries, results, serves, batched, alive, since>>

ProbeCloses ==
  /\ stage = "close" /\ Closes
  /\ stage' = "over"
  /\ UNCHANGED <<at, word, bad, tries, results, code, serves, batched,
                 alive, since>>

ProbeStep ==
  \/ ProbeConnects
  \/ FirstCheck
  \/ WordRead
  \/ CrossCheck
  \/ Rejected
  \/ ProbeException
  \/ \E s \in Unreadable : ProbeUnreadable(s)
  \/ ProbeLost
  \/ Reopen
  \/ Recheck
  \/ FinalCheck
  \/ ProbeCloses
-----------------------------------------------------------------------------
Unanswered == Unreadable \cup {"connection-error"}

\* Every candidate is in the report once, in order, whatever path of probe_one
\* its request took and wherever the run stopped; a run that found no device
\* reports none.
EveryCandidateOnce ==
  /\ \A i \in DOMAIN results : results[i].cand = i
  /\ code = "0" => Len(results) = Len(Words)
  /\ code = "2" => results = <<>>

\* A field is reported as served, partly served or not served exactly as the
\* device serves it: a field cut off by an address error is not mistaken for
\* an unserved one, and words read before a timeout do not count.
StatusIsTheDevices ==
  \A i \in DOMAIN results : LET r == results[i] IN
    /\ r.status = "data" => serves[i] >= Words[i]
    /\ r.status = "partial" =>
         r.words = serves[i] /\ r.words \in 1 .. Words[i] - 1
    /\ r.status = "illegal-address" =>
         serves[i] < Words[i] /\ (serves[i] = 0 \/ batched)

\* No candidate is read before the device has answered its liveness register
\* after the last timeout, corrupted reply or lost link of a candidate.
ProbesAfterLiveness == stage = "probe" => alive

\* With a limit on timeouts no more of them than that follow one another
\* without an answered candidate between them, lost links in between or not,
\* and the last of them ends the run.
BadRunsBounded ==
  \A i, j \in DOMAIN results :
    (\A k \in i .. j : results[k].status \in Unanswered) =>
      LET n == Cardinality({k \in i .. j : results[k].status \in Unreadable}) IN
        MaxTimeouts > 0 =>
          n <= MaxTimeouts /\ (n = MaxTimeouts => stage # "probe")

\* A device that is silent for no longer than recover() waits (once, and three
\* times as long) does not end the run, unless timeouts are limited or
\* something else goes wrong meanwhile.
ShortSilenceSurvived ==
  (stage = "final" /\ \E i \in DOMAIN results : results[i].status = Skipped) =>
    \/ MaxTimeouts > 0 /\ bad = MaxTimeouts
    \/ since.hush > 4 \/ since.hush = MaxHush
    \/ faults > since.faults
=============================================================================
