-------------------------- MODULE UpdateRetryProofs --------------------------
(***************************************************************************)
(* The retry code keeps its promises for every number of devices on the    *)
(* connection and every value of TransientRetryCount: type correctness,    *)
(* what is retried and what is raised, busy errors in particular, when the *)
(* shared link is dropped, how many steps a poll has left, and the         *)
(* implementation of PollPromise.                                          *)
(***************************************************************************)
EXTENDS UpdateRetry, TLAPS

(***************************************************************************)
(* How far each stage of async_update_with_retry has got in the failures   *)
(* of the poll.  The three properties follow from it, and it is inductive: *)
(* the properties alone say nothing of the failures behind a poll that is  *)
(* still under way, which is what decides what it may raise or drop next.  *)
(***************************************************************************)
StageShape(d) ==
  /\ stage[d] = "first" => failures[d] = <<>>
  /\ stage[d] = "afterBusy" => Len(failures[d]) = 1 /\ failures[d][1] \in Busy
  /\ stage[d] = "retry" =>
       Len(failures[d]) = attempt[d] + 1 /\ AllTransient(failures[d])
  /\ stage[d] \in {"dropping", "dropped"} => Exhausted(d)
  /\ stage[d] # "idle" => outcome[d] = "none"

Curable(d) ==
  /\ Len(failures[d]) <= TransientRetryCount + 1
  /\ \A i \in 1 .. Len(failures[d]) - 1 :
       failures[d][i] \in Transient
         \/ (i = 1 /\ failures[d][i] \in Busy /\ Len(failures[d]) = 2)
  /\ outcome[d] \in Failures =>
       /\ Len(failures[d]) > 0
       /\ outcome[d] = failures[d][Len(failures[d])]

DropShape(d) ==
  /\ dropped[d] => Exhausted(d) /\ stage[d] \in {"dropped", "idle"}
  /\ stage[d] = "dropping" => linkOf[d] # "none"
  /\ stage[d] = "dropped" => dropped[d] /\ linkOf[d] = "gone"
  /\ outcome[d] \in Failures /\ Exhausted(d) => linkOf[d] = "gone"

RetryInv ==
  /\ TypeOK
  /\ \A d \in Devices : StageShape(d) /\ Curable(d) /\ DropShape(d)

-----------------------------------------------------------------------------
(* One failed attempt appends one failure and nothing else to a history. *)
LEMMA AppendFailure ==
  ASSUME NEW s \in Seq(Failures), NEW k \in Failures
  PROVE  /\ Append(s, k) \in Seq(Failures)
         /\ Len(Append(s, k)) = Len(s) + 1
         /\ \A i \in 1 .. Len(s) : Append(s, k)[i] = s[i]
         /\ Append(s, k)[Len(s) + 1] = k
  OBVIOUS

(* The link an attempt leaves is a link. *)
LEMMA LinkAfterType ==
  ASSUME link \in {"up", "down"}, NEW result
  PROVE  LinkAfter(result) \subseteq {"up", "down"}
  BY DEF LinkAfter

(* A step that leaves a device alone, but for closing the link under it, keeps
   what RetryInv says of that device. *)
LEMMA Untouched ==
  ASSUME NEW e \in Devices, StageShape(e), Curable(e), DropShape(e),
         stage'[e] = stage[e], attempt'[e] = attempt[e],
         outcome'[e] = outcome[e], failures'[e] = failures[e],
         dropped'[e] = dropped[e], linkOf'[e] \in {linkOf[e], "gone"}
  PROVE  StageShape(e)' /\ Curable(e)' /\ DropShape(e)'
  BY DEF StageShape, Curable, DropShape, Exhausted, AllTransient

(* An attempt of d that fails touches the history of d only, and the link. *)
LEMMA FailedEffect ==
  ASSUME TypeOK, NEW d \in Devices, NEW k \in Failures, Failed(d, k)
  PROVE  /\ failures' \in [Devices -> Seq(Failures)]
         /\ failures'[d] = Append(failures[d], k)
         /\ link' \in {"up", "down"}
         /\ linkOf' \in [Devices -> {"none", "open", "gone"}]
         /\ dropped' = dropped
         /\ stage[d] \in Attempting
         /\ \A e \in Devices \ {d} :
              failures'[e] = failures[e] /\ linkOf'[e] \in {linkOf[e], "gone"}
<1>1. link' \in {"up", "down"}
  BY LinkAfterType DEF Failed, TypeOK
<1>2. Append(failures[d], k) \in Seq(Failures)
  BY AppendFailure DEF TypeOK
<1>3. /\ failures' \in [Devices -> Seq(Failures)]
      /\ failures'[d] = Append(failures[d], k)
      /\ \A e \in Devices \ {d} : failures'[e] = failures[e]
  BY <1>2 DEF Failed, TypeOK
<1>4. /\ linkOf' \in [Devices -> {"none", "open", "gone"}]
      /\ \A e \in Devices \ {d} : linkOf'[e] \in {linkOf[e], "gone"}
  BY <1>1 DEF Failed, Closed, TypeOK
<1>5. QED
  BY <1>1, <1>3, <1>4 DEF Failed

-----------------------------------------------------------------------------
(* The steps of one device that are not a failed attempt keep RetryInv. *)
LEMMA OwnSteps ==
  ASSUME RetryInv, NEW d \in Devices,
         \/ StartPoll(d)
         \/ AttemptSucceeds(d)
         \/ DropLink(d)
         \/ RaiseExhausted(d)
         \/ CancelPoll(d)
  PROVE  RetryInv'
<1> USE RetryAssumption DEF Stages, Attempting, RetryInv
<1>1. CASE StartPoll(d)
  <2>1. TypeOK'
    BY <1>1 DEF StartPoll, TypeOK
  <2>2. StageShape(d)' /\ Curable(d)' /\ DropShape(d)'
    BY <1>1 DEF StartPoll, TypeOK, StageShape, Curable, DropShape, Exhausted,
                AllTransient, Failures, Busy, Transient, Permanent
  <2>3. ASSUME NEW e \in Devices \ {d}
        PROVE  StageShape(e)' /\ Curable(e)' /\ DropShape(e)'
    BY <1>1, Untouched DEF StartPoll, TypeOK
  <2>4. QED
    BY <2>1, <2>2, <2>3
<1>2. CASE AttemptSucceeds(d)
  <2>1. TypeOK'
    BY <1>2, LinkAfterType DEF AttemptSucceeds, TypeOK
  <2>2. StageShape(d)' /\ Curable(d)' /\ DropShape(d)'
    BY <1>2 DEF AttemptSucceeds, TypeOK, StageShape, Curable, DropShape,
                Exhausted, AllTransient, Failures, Busy, Transient, Permanent
  <2>3. ASSUME NEW e \in Devices \ {d}
        PROVE  StageShape(e)' /\ Curable(e)' /\ DropShape(e)'
    BY <1>2, Untouched DEF AttemptSucceeds, TypeOK
  <2>4. QED
    BY <2>1, <2>2, <2>3
<1>3. CASE DropLink(d)
  <2>1. TypeOK'
    BY <1>3 DEF DropLink, Closed, TypeOK
  <2>2. StageShape(d)' /\ Curable(d)'
    BY <1>3 DEF DropLink, TypeOK, StageShape, Curable, Exhausted, AllTransient
  <2>3. DropShape(d)'
    BY <1>3 DEF DropLink, Closed, TypeOK, StageShape, DropShape, Exhausted,
                AllTransient, Failures, Busy, Transient, Permanent
  <2>4. ASSUME NEW e \in Devices \ {d}
        PROVE  StageShape(e)' /\ Curable(e)' /\ DropShape(e)'
    BY <1>3, Untouched DEF DropLink, Closed, TypeOK
  <2>5. QED
    BY <2>1, <2>2, <2>3, <2>4
<1>4. CASE RaiseExhausted(d)
  <2>1. Exhausted(d) /\ Len(failures[d]) > 0
    BY <1>4 DEF RaiseExhausted, StageShape, Exhausted
  <2>2. failures[d][Len(failures[d])] \in Failures
    BY <2>1 DEF TypeOK
  <2>3. TypeOK'
    BY <1>4, <2>2 DEF RaiseExhausted, TypeOK
  <2>4. StageShape(d)' /\ Curable(d)' /\ DropShape(d)'
    BY <1>4, <2>1, <2>2 DEF RaiseExhausted, TypeOK, StageShape, Curable,
                            DropShape, Exhausted, AllTransient
  <2>5. ASSUME NEW e \in Devices \ {d}
        PROVE  StageShape(e)' /\ Curable(e)' /\ DropShape(e)'
    BY <1>4, Untouched DEF RaiseExhausted, TypeOK
  <2>6. QED
    BY <2>3, <2>4, <2>5
<1>5. CASE CancelPoll(d)
  <2>1. TypeOK'
    BY <1>5 DEF CancelPoll, TypeOK
  <2>2. StageShape(d)' /\ Curable(d)' /\ DropShape(d)'
    BY <1>5 DEF CancelPoll, TypeOK, StageShape, Curable, DropShape, Exhausted,
                AllTransient, Failures, Busy, Transient, Permanent
  <2>3. ASSUME NEW e \in Devices \ {d}
        PROVE  StageShape(e)' /\ Curable(e)' /\ DropShape(e)'
    BY <1>5, Untouched DEF CancelPoll, TypeOK
  <2>4. QED
    BY <2>1, <2>2, <2>3
<1>6. QED
  BY <1>1, <1>2, <1>3, <1>4, <1>5

(* So does a failed attempt: each way the retry code takes it adds the one
   failure that the stage it enters allows for. *)
LEMMA FailureSteps ==
  ASSUME RetryInv, NEW d \in Devices, NEW k \in Failures, AttemptFails(d, k)
  PROVE  RetryInv'
<1> USE RetryAssumption DEF Stages, Attempting, RetryInv
<1> DEFINE s == failures[d]
<1>0. Failed(d, k)
  BY DEF AttemptFails, BusyRetriedOnce, EnterRetryLoop, RetryAgain,
         RetriesExhausted, RaiseAtOnce
<1>1. /\ failures' \in [Devices -> Seq(Failures)]
      /\ failures'[d] = Append(s, k)
      /\ link' \in {"up", "down"}
      /\ linkOf' \in [Devices -> {"none", "open", "gone"}]
      /\ dropped' = dropped
      /\ \A e \in Devices \ {d} :
           failures'[e] = failures[e] /\ linkOf'[e] \in {linkOf[e], "gone"}
  BY <1>0, FailedEffect
<1>2. /\ s \in Seq(Failures)
      /\ Len(Append(s, k)) = Len(s) + 1
      /\ \A i \in 1 .. Len(s) : Append(s, k)[i] = s[i]
      /\ Append(s, k)[Len(s) + 1] = k
  BY AppendFailure DEF TypeOK
<1>3. ~dropped[d]
  BY <1>0 DEF Failed, DropShape
<1>4. linkOf'[d] # "none"
  BY <1>0, <1>1 DEF Failed, Closed, TypeOK
<1>5. ASSUME NEW e \in Devices \ {d}
      PROVE  StageShape(e)' /\ Curable(e)' /\ DropShape(e)'
  <2>1. /\ stage'[e] = stage[e]
        /\ attempt'[e] = attempt[e]
        /\ outcome'[e] = outcome[e]
    BY DEF AttemptFails, BusyRetriedOnce, EnterRetryLoop, RetryAgain,
           RetriesExhausted, RaiseAtOnce, TypeOK
  <2>2. QED
    BY <1>1, <2>1, Untouched
<1>6. CASE BusyRetriedOnce(d, k)
  <2>1. Len(s) = 0 /\ outcome[d] = "none"
    BY <1>6 DEF BusyRetriedOnce, StageShape
  <2>2. TypeOK'
    BY <1>1, <1>6 DEF BusyRetriedOnce, TypeOK
  <2>3. /\ stage'[d] = "afterBusy" /\ outcome'[d] = "none"
        /\ Len(failures'[d]) = 1 /\ failures'[d][1] \in Busy
    BY <1>1, <1>2, <1>6, <2>1 DEF BusyRetriedOnce, TypeOK
  <2>4. StageShape(d)' /\ Curable(d)' /\ DropShape(d)'
    BY <1>1, <1>3, <2>3
    DEF StageShape, Curable, DropShape, Exhausted, Failures, Busy, Transient,
        Permanent
  <2>5. QED
    BY <1>5, <2>2, <2>4
<1>7. CASE EnterRetryLoop(d, k)
  <2>1. Len(s) = 0
    BY <1>7 DEF EnterRetryLoop, StageShape
  <2>2. TypeOK'
    BY <1>1, <1>7 DEF EnterRetryLoop, TypeOK
  <2>3. StageShape(d)' /\ Curable(d)' /\ DropShape(d)'
    BY <1>1, <1>2, <1>3, <1>7, <2>1
    DEF EnterRetryLoop, TypeOK, StageShape, Curable, DropShape, Exhausted,
        AllTransient, Failures, Busy, Transient, Permanent
  <2>4. QED
    BY <1>5, <2>2, <2>3
<1>8. CASE RetryAgain(d, k)
  <2>1. Len(s) = attempt[d] + 1 /\ AllTransient(s)
    BY <1>8 DEF RetryAgain, StageShape
  <2>2. attempt[d] + 1 \in 0 .. TransientRetryCount - 1
    BY <1>8 DEF RetryAgain, TypeOK
  <2>3. TypeOK'
    BY <1>1, <1>8, <2>2 DEF RetryAgain, TypeOK
  <2>4. AllTransient(Append(s, k))
    BY <1>2, <1>8, <2>1 DEF RetryAgain, AllTransient
  <2>5. StageShape(d)' /\ Curable(d)' /\ DropShape(d)'
    BY <1>1, <1>2, <1>3, <1>8, <2>1, <2>2, <2>4
    DEF RetryAgain, TypeOK, StageShape, Curable, DropShape, Exhausted,
        AllTransient, Failures, Busy, Transient, Permanent
  <2>6. QED
    BY <1>5, <2>3, <2>5
<1>9. CASE RetriesExhausted(d, k)
  <2>1. Len(s) = TransientRetryCount /\ AllTransient(s)
    BY <1>9 DEF RetriesExhausted, StageShape, TypeOK
  <2>2. TypeOK'
    BY <1>1, <1>9 DEF RetriesExhausted, TypeOK
  <2>3. AllTransient(Append(s, k))
    BY <1>2, <1>9, <2>1 DEF RetriesExhausted, AllTransient
  <2>4. StageShape(d)' /\ Curable(d)' /\ DropShape(d)'
    BY <1>1, <1>2, <1>3, <1>4, <1>9, <2>1, <2>3
    DEF RetriesExhausted, TypeOK, StageShape, Curable, DropShape, Exhausted,
        AllTransient, Failures, Busy, Transient, Permanent
  <2>5. QED
    BY <1>5, <2>2, <2>4
<1>10. CASE RaiseAtOnce(d, k)
  <2>1. TypeOK'
    BY <1>1, <1>10 DEF RaiseAtOnce, TypeOK
  <2>2. outcome'[d] = k /\ stage'[d] = "idle"
    BY <1>10 DEF RaiseAtOnce, TypeOK
  <2>3. ~AllTransient(Append(s, k))
    <3>1. CASE stage[d] = "afterBusy"
      BY <1>2, <3>1 DEF StageShape, AllTransient, Busy, Transient
    <3>2. CASE k \notin Transient
      BY <1>2, <3>2 DEF AllTransient
    <3>3. QED
      BY <1>10, <3>1, <3>2 DEF RaiseAtOnce, Permanent, Transient
  <2>4. Curable(d)'
    <3>1. \/ Len(s) = 1 /\ s[1] \in Busy
          \/ Len(s) <= TransientRetryCount /\ AllTransient(s)
      BY <1>10 DEF RaiseAtOnce, StageShape, AllTransient, TypeOK
    <3>2. Len(failures'[d]) <= TransientRetryCount + 1
      BY <1>1, <1>2, <3>1
    <3>3. ASSUME NEW i \in 1 .. Len(s)
          PROVE  \/ failures'[d][i] \in Transient
                 \/ i = 1 /\ failures'[d][i] \in Busy /\ Len(failures'[d]) = 2
      <4>1. failures'[d][i] = s[i] /\ Len(failures'[d]) = Len(s) + 1
        BY <1>1, <1>2
      <4>2. CASE Len(s) = 1 /\ s[1] \in Busy
        BY <4>1, <4>2
      <4>3. CASE AllTransient(s)
        BY <4>1, <4>3 DEF AllTransient
      <4>4. QED
        BY <3>1, <4>2, <4>3
    <3>4. failures'[d][Len(failures'[d])] = k /\ Len(failures'[d]) > 0
      BY <1>1, <1>2
    <3>5. QED
      BY <1>1, <1>2, <2>2, <3>2, <3>3, <3>4 DEF Curable
  <2>5. StageShape(d)' /\ DropShape(d)'
    BY <1>1, <1>3, <2>2, <2>3 DEF StageShape, DropShape, Exhausted
  <2>6. QED
    BY <1>5, <2>1, <2>4, <2>5
<1>11. QED
  BY <1>6, <1>7, <1>8, <1>9, <1>10 DEF AttemptFails

(* What a poll of d does, it does to the stage, the outcome and the failures
   of d alone. *)
LEMMA OthersUntouched ==
  ASSUME RetryInv, NEW d \in Devices,
         \/ AttemptSucceeds(d)
         \/ \E k \in Failures : AttemptFails(d, k)
         \/ CancelPoll(d)
         \/ StartPoll(d)
         \/ DropLink(d)
         \/ RaiseExhausted(d)
  PROVE  \A e \in Devices \ {d} :
           /\ stage'[e] = stage[e]
           /\ outcome'[e] = outcome[e]
           /\ failures'[e] = failures[e]
<1>1. CASE \E k \in Failures : AttemptFails(d, k)
  <2>1. PICK k \in Failures : AttemptFails(d, k)
    BY <1>1
  <2>2. Failed(d, k)
    BY <2>1 DEF AttemptFails, BusyRetriedOnce, EnterRetryLoop, RetryAgain,
                RetriesExhausted, RaiseAtOnce
  <2>3. \A e \in Devices \ {d} : failures'[e] = failures[e]
    BY <2>2 DEF Failed, RetryInv, TypeOK
  <2>4. \A e \in Devices \ {d} :
          stage'[e] = stage[e] /\ outcome'[e] = outcome[e]
    BY <2>1 DEF AttemptFails, BusyRetriedOnce, EnterRetryLoop, RetryAgain,
                RetriesExhausted, RaiseAtOnce, RetryInv, TypeOK
  <2>5. QED
    BY <2>3, <2>4
<1>2. CASE AttemptSucceeds(d) \/ CancelPoll(d) \/ StartPoll(d) \/ DropLink(d)
             \/ RaiseExhausted(d)
  BY <1>2 DEF AttemptSucceeds, CancelPoll, StartPoll, DropLink, RaiseExhausted,
              RetryInv, TypeOK
<1>3. QED
  BY <1>1, <1>2

-----------------------------------------------------------------------------
(* What another holder, or the device, does to the link keeps RetryInv. *)
LEMMA LinkSteps ==
  ASSUME RetryInv, LinkOpens \/ LinkCloses
  PROVE  RetryInv'
<1> USE DEF RetryInv
<1>1. TypeOK'
  BY DEF LinkOpens, LinkCloses, Closed, TypeOK
<1>2. ASSUME NEW e \in Devices
      PROVE  StageShape(e)' /\ Curable(e)' /\ DropShape(e)'
  BY Untouched DEF LinkOpens, LinkCloses, Closed, TypeOK
<1>3. QED
  BY <1>1, <1>2

LEMMA RetryInvInit == Init => RetryInv
  BY RetryAssumption
  DEF Init, RetryInv, TypeOK, StageShape, Curable, DropShape, Exhausted,
      AllTransient, Stages, Attempting, Failures, Busy, Transient, Permanent

LEMMA RetryInvNext == RetryInv /\ [Next]_vars => RetryInv'
<1> SUFFICES ASSUME RetryInv, [Next]_vars
             PROVE  RetryInv'
  OBVIOUS
<1>1. CASE UNCHANGED vars
  BY <1>1 DEF vars, RetryInv, TypeOK, StageShape, Curable, DropShape,
              Exhausted, AllTransient
<1>2. CASE Next
  BY <1>2, OwnSteps, FailureSteps, LinkSteps DEF Next, Step
<1>3. QED
  BY <1>1, <1>2

LEMMA RetryInvariant == Spec => []RetryInv
  BY RetryInvInit, RetryInvNext, PTL DEF Spec

-----------------------------------------------------------------------------
(* The variables keep their types in every reachable state. *)
THEOREM TypeCorrect == Spec => []TypeOK
<1>1. RetryInv => TypeOK
  BY DEF RetryInv
<1>2. QED
  BY <1>1, RetryInvariant, PTL

(* async_update_with_retry goes on only after a failure it may retry, and
   raises the last failure, for any number of retries. *)
THEOREM OnlyTheCurableIsRetried == Spec => []RetriesOnlyTheCurable
<1>1. RetryInv => RetriesOnlyTheCurable
  BY DEF RetryInv, Curable, RetriesOnlyTheCurable
<1>2. QED
  BY <1>1, RetryInvariant, PTL

(* A poll tears the shared connection down only when every attempt it may
   make failed transiently. *)
THEOREM OnlyExhaustionDrops == Spec => []DropsOnlyWhenExhausted
<1>1. RetryInv => DropsOnlyWhenExhausted
  BY DEF RetryInv, DropShape, DropsOnlyWhenExhausted
<1>2. QED
  BY <1>1, RetryInvariant, PTL

(* When such a poll reports its failure, the connection it failed on is gone,
   whatever the other devices have done meanwhile. *)
THEOREM ExhaustionLeavesNoLink == Spec => []ExhaustionReplacesLink
<1>1. RetryInv => ExhaustionReplacesLink
  BY DEF RetryInv, DropShape, ExhaustionReplacesLink
<1>2. QED
  BY <1>1, RetryInvariant, PTL

-----------------------------------------------------------------------------
(* What is true of the docstring's "busy twice in a row".  RetryInv says what
   the failures before the last one are, but not that there is one: a poll
   that ends busy has made more than one attempt. *)

BusyLate(d) == outcome[d] \in Busy => Len(failures[d]) > 1

(* A busy reply ends a poll only on its second attempt, or in the loop. *)
LEMMA RaisedBusyLate ==
  ASSUME RetryInv, NEW d \in Devices, NEW k \in Failures, RaiseAtOnce(d, k)
  PROVE  BusyLate(d)'
<1>1. Failed(d, k) /\ outcome' = [outcome EXCEPT ![d] = k]
  BY DEF RaiseAtOnce
<1>2. TypeOK /\ StageShape(d)
  BY DEF RetryInv
<1>3. failures[d] \in Seq(Failures) /\ failures'[d] = Append(failures[d], k)
  BY <1>1, <1>2, FailedEffect DEF TypeOK
<1>4. Len(failures'[d]) = Len(failures[d]) + 1
  BY <1>3, AppendFailure
<1>5. outcome'[d] = k
  BY <1>1, <1>2 DEF TypeOK
<1>6. CASE stage[d] = "first"
  BY <1>5, <1>6 DEF RaiseAtOnce, BusyLate, Busy, Permanent
<1>7. CASE stage[d] = "afterBusy"
  BY <1>2, <1>4, <1>7 DEF StageShape, BusyLate
<1>8. CASE stage[d] = "retry"
  <2>1. Len(failures[d]) = attempt[d] + 1 /\ attempt[d] \in Nat
    BY <1>2, <1>8, RetryAssumption DEF StageShape, TypeOK
  <2>2. QED
    BY <1>4, <2>1 DEF BusyLate
<1>9. QED
  BY <1>6, <1>7, <1>8 DEF RaiseAtOnce

(* Every step of a poll leaves its device so. *)
LEMMA OwnBusyLate ==
  ASSUME RetryInv, NEW d \in Devices, StartPoll(d) \/ Step(d) \/ CancelPoll(d)
  PROVE  BusyLate(d)'
<1>1. TypeOK /\ StageShape(d)
  BY DEF RetryInv
<1>2. CASE StartPoll(d) \/ AttemptSucceeds(d) \/ CancelPoll(d)
  <2>1. outcome'[d] \in {"none", "values", "cancelled"}
    BY <1>1, <1>2 DEF StartPoll, AttemptSucceeds, CancelPoll, TypeOK
  <2>2. QED
    BY <2>1 DEF BusyLate, Busy
<1>3. CASE DropLink(d)
  BY <1>1, <1>3 DEF DropLink, StageShape, BusyLate, Busy
<1>4. CASE RaiseExhausted(d)
  <2>1. Exhausted(d) /\ failures' = failures
    BY <1>1, <1>4 DEF RaiseExhausted, StageShape
  <2>2. QED
    BY <2>1, RetryAssumption DEF Exhausted, BusyLate
<1>5. ASSUME NEW k \in Failures, AttemptFails(d, k)
      PROVE  BusyLate(d)'
  <2>1. CASE RaiseAtOnce(d, k)
    BY <2>1, RaisedBusyLate
  <2>2. CASE ~RaiseAtOnce(d, k)
    <3>1. outcome' = outcome /\ stage[d] # "idle"
      BY <1>5, <2>2 DEF AttemptFails, BusyRetriedOnce, EnterRetryLoop,
                        RetryAgain, RetriesExhausted
    <3>2. outcome'[d] = "none"
      BY <1>1, <3>1 DEF StageShape
    <3>3. QED
      BY <3>2 DEF BusyLate, Busy
  <2>3. QED
    BY <2>1, <2>2
<1>6. QED
  BY <1>2, <1>3, <1>4, <1>5 DEF Step

(* A poll that raises a bare busy error had it twice in a row, or had nothing
   but transient failures before it: the retry loop, which passes a busy reply
   on as it is, is the one place where the docstring's sentence fails.  In
   particular the first attempt's busy reply is never raised. *)
THEOREM BareBusyComesLate ==
  Spec => [](\A d \in Devices :
               outcome[d] \in Busy =>
                 LET n == Len(failures[d])
                 IN  /\ n > 1
                     /\ \/ n = 2 /\ failures[d][1] \in Busy
                        \/ \A i \in 1 .. n - 1 : failures[d][i] \in Transient)
<1> DEFINE Late == \A d \in Devices : BusyLate(d)
<1>1. Init => Late
  BY DEF Init, BusyLate, Busy
<1>2. RetryInv /\ Late /\ [Next]_vars => Late'
  <2> SUFFICES ASSUME RetryInv, Late, [Next]_vars, NEW d \in Devices
               PROVE  BusyLate(d)'
    OBVIOUS
  <2>1. ASSUME NEW e \in Devices \ {d}, StartPoll(e) \/ Step(e) \/ CancelPoll(e)
        PROVE  BusyLate(d)'
    <3>1. outcome'[d] = outcome[d] /\ failures'[d] = failures[d]
      BY <2>1, OthersUntouched DEF Step
    <3>2. QED
      BY <3>1 DEF BusyLate
  <2>2. CASE LinkOpens \/ LinkCloses \/ UNCHANGED vars
    BY <2>2 DEF LinkOpens, LinkCloses, vars, BusyLate
  <2>3. QED
    BY <2>1, <2>2, OwnBusyLate DEF Next
<1>3. ASSUME RetryInv, Late, NEW d \in Devices, outcome[d] \in Busy
      PROVE  LET n == Len(failures[d])
             IN  /\ n > 1
                 /\ \/ n = 2 /\ failures[d][1] \in Busy
                    \/ \A i \in 1 .. n - 1 : failures[d][i] \in Transient
  BY <1>3 DEF BusyLate, RetryInv, Curable
<1>4. RetryInv /\ Late =>
        \A d \in Devices :
          outcome[d] \in Busy =>
            LET n == Len(failures[d])
            IN  /\ n > 1
                /\ \/ n = 2 /\ failures[d][1] \in Busy
                   \/ \A i \in 1 .. n - 1 : failures[d][i] \in Transient
  BY <1>3
<1>5. QED
  BY <1>1, <1>2, <1>4, RetryInvariant, PTL DEF Spec

-----------------------------------------------------------------------------
(* How many steps a poll may still make, at most.  That it makes them is a
   matter of fairness, which TLC checks (PollEnds); that there are so few is
   one of the retry loop alone. *)

StepsLeft(d) ==
  IF stage[d] = "first"         THEN TransientRetryCount + 3
  ELSE IF stage[d] = "retry"    THEN TransientRetryCount - attempt[d] + 2
  ELSE IF stage[d] = "dropping" THEN 2
  ELSE IF stage[d] = "idle"     THEN 0
  ELSE 1

RunsOut(d) ==
  stage[d] # "idle" =>
    /\ StepsLeft(d)' <= StepsLeft(d)
    /\ Step(d) => StepsLeft(d)' < StepsLeft(d)

(* The count is a number of steps, and is used up when the poll is over. *)
LEMMA StepsCounted ==
  ASSUME TypeOK, NEW d \in Devices
  PROVE  /\ StepsLeft(d) \in 0 .. TransientRetryCount + 3
         /\ StepsLeft(d) = 0 <=> stage[d] = "idle"
<1>1. stage[d] \in Stages /\ attempt[d] \in 0 .. TransientRetryCount - 1
  BY DEF TypeOK
<1>2. QED
  BY <1>1, RetryAssumption DEF StepsLeft, Stages, Attempting

(* Whatever the end of an attempt leads to has fewer steps before it. *)
LEMMA FailureUsesStep ==
  ASSUME TypeOK, NEW d \in Devices, NEW k \in Failures, AttemptFails(d, k)
  PROVE  StepsLeft(d)' < StepsLeft(d)
<1> USE RetryAssumption
<1>1. stage[d] \in Stages /\ attempt[d] \in 0 .. TransientRetryCount - 1
  BY DEF TypeOK
<1>2. CASE BusyRetriedOnce(d, k)
  BY <1>1, <1>2 DEF BusyRetriedOnce, StepsLeft, TypeOK
<1>3. CASE EnterRetryLoop(d, k)
  BY <1>1, <1>3 DEF EnterRetryLoop, StepsLeft, TypeOK
<1>4. CASE RetryAgain(d, k)
  BY <1>1, <1>4 DEF RetryAgain, StepsLeft, TypeOK
<1>5. CASE RetriesExhausted(d, k)
  BY <1>1, <1>5 DEF RetriesExhausted, StepsLeft, TypeOK
<1>6. CASE RaiseAtOnce(d, k)
  <2>1. stage'[d] = "idle" /\ stage[d] # "idle"
    BY <1>6 DEF RaiseAtOnce, TypeOK
  <2>2. StepsLeft(d)' = 0 /\ StepsLeft(d) > 0
    BY <1>1, <2>1 DEF StepsLeft
  <2>3. QED
    BY <2>2
<1>7. QED
  BY <1>2, <1>3, <1>4, <1>5, <1>6 DEF AttemptFails

(* So does every other step of the poll. *)
LEMMA StepUsesStep ==
  ASSUME TypeOK, NEW d \in Devices, Step(d)
  PROVE  StepsLeft(d)' < StepsLeft(d)
<1> USE RetryAssumption
<1>1. stage[d] \in Stages /\ attempt[d] \in 0 .. TransientRetryCount - 1
  BY DEF TypeOK
<1>2. CASE AttemptSucceeds(d)
  <2>1. stage'[d] = "idle" /\ stage[d] \in Attempting
    BY <1>2 DEF AttemptSucceeds, TypeOK
  <2>2. QED
    BY <1>1, <2>1 DEF StepsLeft, Attempting
<1>3. CASE DropLink(d) \/ RaiseExhausted(d)
  BY <1>1, <1>3 DEF DropLink, RaiseExhausted, StepsLeft, TypeOK
<1>4. QED
  BY <1>2, <1>3, FailureUsesStep DEF Step

(* Nor do the steps of others give a poll any more of its own. *)
LEMMA OthersAddNoSteps ==
  ASSUME RetryInv, NEW d \in Devices, stage[d] # "idle", [Next]_vars
  PROVE  StepsLeft(d)' <= StepsLeft(d)
<1>1. StepsLeft(d) \in Nat
  BY StepsCounted DEF RetryInv
<1>2. CASE Step(d)
  <2>1. StepsLeft(d)' < StepsLeft(d)
    BY <1>2, StepUsesStep DEF RetryInv
  <2>2. TypeOK'
    BY RetryInvNext DEF RetryInv
  <2>3. stage'[d] \in Stages /\ attempt'[d] \in 0 .. TransientRetryCount - 1
    BY <2>2 DEF TypeOK
  <2>4. StepsLeft(d)' \in Nat
    BY <2>3, RetryAssumption DEF StepsLeft
  <2>5. QED
    BY <1>1, <2>1, <2>4
<1>3. CASE CancelPoll(d)
  <2>1. StepsLeft(d)' = 0
    BY <1>3 DEF CancelPoll, StepsLeft, RetryInv, TypeOK
  <2>2. QED
    BY <1>1, <2>1
<1>4. ASSUME stage'[d] = stage[d], attempt'[d] = attempt[d]
      PROVE  StepsLeft(d)' <= StepsLeft(d)
  BY <1>1, <1>4 DEF StepsLeft
<1>5. ASSUME NEW e \in Devices \ {d}, StartPoll(e) \/ Step(e) \/ CancelPoll(e)
      PROVE  stage'[d] = stage[d] /\ attempt'[d] = attempt[d]
  BY <1>5 DEF StartPoll, Step, AttemptSucceeds, AttemptFails, BusyRetriedOnce,
              EnterRetryLoop, RetryAgain, RetriesExhausted, RaiseAtOnce,
              DropLink, RaiseExhausted, CancelPoll, RetryInv, TypeOK
<1>6. CASE LinkOpens \/ LinkCloses \/ UNCHANGED vars
  BY <1>4, <1>6 DEF LinkOpens, LinkCloses, vars
<1>7. ~StartPoll(d)
  BY DEF StartPoll
<1>8. QED
  BY <1>2, <1>3, <1>4, <1>5, <1>6, <1>7 DEF Next

(* A poll makes at most TransientRetryCount + 3 steps, and each brings it
   nearer its end: neither its retries, nor the polls of other devices that
   drop and reopen the link meanwhile, can keep it going.  It is over when
   none is left. *)
THEOREM PollsRunOut ==
  Spec => /\ [](\A d \in Devices : /\ StepsLeft(d) \in 0 .. TransientRetryCount + 3
                                   /\ StepsLeft(d) = 0 <=> stage[d] = "idle")
          /\ [][\A d \in Devices : RunsOut(d)]_vars
<1>1. RetryInv =>
        \A d \in Devices : /\ StepsLeft(d) \in 0 .. TransientRetryCount + 3
                           /\ StepsLeft(d) = 0 <=> stage[d] = "idle"
  BY StepsCounted DEF RetryInv
<1>2. RetryInv /\ [Next]_vars => [\A d \in Devices : RunsOut(d)]_vars
  <2> SUFFICES ASSUME RetryInv, [Next]_vars
               PROVE  \A d \in Devices : RunsOut(d)
    OBVIOUS
  <2>1. QED
    BY StepUsesStep, OthersAddNoSteps DEF RunsOut, RetryInv
<1>3. QED
  BY <1>1, <1>2, RetryInvariant, PTL DEF Spec

-----------------------------------------------------------------------------
(* UpdateRetry implements PollPromise: under the mapping of UpdateRetry, each
   step of the code is a step of the promise or changes nothing in it. *)

LEMMA PromisedResults ==
  /\ \A o \in {"none", "values", "cancelled"} : PromisedResult(o) = o
  /\ \A o \in Transient : PromisedResult(o) = "curable"
  /\ \A o \in Failures : PromisedResult(o) \in {"busy", "curable", "fatal"}
<1> USE DEF PromisedResult, Failures, Busy, Transient, Permanent
<1>1. \A o \in {"none", "values", "cancelled"} : PromisedResult(o) = o
  OBVIOUS
<1>2. \A o \in Transient : PromisedResult(o) = "curable"
  OBVIOUS
<1>3. \A o \in Failures : PromisedResult(o) \in {"busy", "curable", "fatal"}
  OBVIOUS
<1>4. QED
  BY <1>1, <1>2, <1>3

LEMMA PromiseInit == Init => Promise!Init
<1> SUFFICES ASSUME Init
             PROVE  Promise!Init
  OBVIOUS
<1>1. \A d \in Devices : /\ (stage[d] # "idle") = FALSE
                         /\ Len(failures[d]) = 0
                         /\ PromisedResult(outcome[d]) = "none"
  BY PromisedResults DEF Init
<1>2. QED
  BY <1>1 DEF Init, Promise!Init

(* A poll that is about to make an attempt has one left. *)
LEMMA AttemptLeft ==
  ASSUME RetryInv, NEW d \in Devices, stage[d] \in Attempting
  PROVE  Len(failures[d]) < TransientRetryCount + 1
<1> USE RetryAssumption DEF RetryInv, StageShape
<1>1. CASE stage[d] = "first"
  <2>1. failures[d] = <<>>
    BY <1>1
  <2>2. QED
    BY <2>1
<1>2. CASE stage[d] = "afterBusy"
  <2>1. Len(failures[d]) = 1
    BY <1>2
  <2>2. 1 < TransientRetryCount + 1
    OBVIOUS
  <2>3. QED
    BY <2>1, <2>2
<1>3. CASE stage[d] = "retry"
  <2>1. Len(failures[d]) = attempt[d] + 1
    BY <1>3
  <2>2. attempt[d] \in 0 .. TransientRetryCount - 1
    BY DEF TypeOK
  <2>3. QED
    BY <2>1, <2>2
<1>4. QED
  BY <1>1, <1>2, <1>3 DEF Attempting

LEMMA PromiseOwnSteps ==
  ASSUME RetryInv, RetryInv', NEW d \in Devices,
         \/ StartPoll(d)
         \/ AttemptSucceeds(d)
         \/ DropLink(d)
         \/ RaiseExhausted(d)
         \/ CancelPoll(d)
  PROVE  Promise!Next
<1> USE RetryAssumption DEF RetryInv, Attempting
<1>1. CASE StartPoll(d)
  <2>1. Promise!Begin(d)
    BY <1>1 DEF StartPoll, Promise!Begin, TypeOK, PromisedResult, Busy,
                Transient, Permanent
  <2>2. QED
    BY <2>1 DEF Promise!Next
<1>2. CASE AttemptSucceeds(d)
  <2>1. Len(failures[d]) < TransientRetryCount + 1
    BY <1>2, AttemptLeft DEF AttemptSucceeds
  <2>2. Promise!Deliver(d)
    BY <1>2, <2>1 DEF AttemptSucceeds, Promise!Deliver, TypeOK,
                      PromisedResult, Busy, Transient, Permanent
  <2>3. QED
    BY <2>2 DEF Promise!Next, Promise!Progress
<1>3. CASE DropLink(d)
  <2>1. Len(failures[d]) = TransientRetryCount + 1 /\ ~dropped[d]
    BY <1>3 DEF DropLink, StageShape, DropShape, Exhausted, TypeOK
  <2>2. Promise!TearDown(d)
    BY <1>3, <2>1 DEF DropLink, Promise!TearDown, TypeOK
  <2>3. QED
    BY <2>2 DEF Promise!Next, Promise!Progress
<1>4. CASE RaiseExhausted(d)
  <2>1. dropped[d] /\ failures[d][Len(failures[d])] \in Transient
    BY <1>4 DEF RaiseExhausted, StageShape, DropShape, Exhausted, AllTransient
  <2>2. PromisedResult(failures[d][Len(failures[d])]) = "curable"
    BY <2>1, PromisedResults
  <2>3. Promise!Exhaust(d)
    BY <1>4, <2>1, <2>2 DEF RaiseExhausted, Promise!Exhaust, TypeOK
  <2>4. QED
    BY <2>3 DEF Promise!Next, Promise!Progress
<1>5. CASE CancelPoll(d)
  <2>1. Promise!Cancel(d)
    BY <1>5 DEF CancelPoll, Promise!Cancel, TypeOK, PromisedResult, Busy,
                Transient, Permanent
  <2>2. QED
    BY <2>1 DEF Promise!Next
<1>6. QED
  BY <1>1, <1>2, <1>3, <1>4, <1>5

LEMMA PromiseFailureSteps ==
  ASSUME RetryInv, RetryInv', NEW d \in Devices, NEW k \in Failures,
         AttemptFails(d, k)
  PROVE  Promise!Next
<1> USE RetryAssumption DEF RetryInv, Attempting
<1>0. Failed(d, k)
  BY DEF AttemptFails, BusyRetriedOnce, EnterRetryLoop, RetryAgain,
         RetriesExhausted, RaiseAtOnce
<1>1. /\ failures' = [failures EXCEPT ![d] = Append(@, k)]
      /\ Len(Append(failures[d], k)) = Len(failures[d]) + 1
      /\ dropped' = dropped
      /\ stage[d] # "idle"
  BY <1>0, AppendFailure DEF Failed, TypeOK
<1>2. [e \in Devices |-> Len(failures'[e])]
        = [[e \in Devices |-> Len(failures[e])] EXCEPT ![d] = @ + 1]
  BY <1>1 DEF TypeOK
<1>3. Len(failures[d]) < TransientRetryCount + 1
  BY <1>0, AttemptLeft DEF Failed
<1>4. CASE RaiseAtOnce(d, k)
  <2>1. PromisedResult(k) \in {"busy", "curable", "fatal"}
    BY PromisedResults
  <2>2. Promise!GiveUp(d, PromisedResult(k))
    BY <1>1, <1>2, <1>3, <1>4 DEF RaiseAtOnce, Promise!GiveUp, TypeOK
  <2>3. QED
    BY <2>1, <2>2 DEF Promise!Next, Promise!Progress
<1>5. CASE ~RaiseAtOnce(d, k)
  <2>1. /\ outcome' = outcome
        /\ \E st \in Stages \ {"idle"} : stage' = [stage EXCEPT ![d] = st]
    BY <1>1, <1>5
    DEF AttemptFails, BusyRetriedOnce, EnterRetryLoop, RetryAgain,
        RetriesExhausted, TypeOK, Stages
  <2>2. [e \in Devices |-> stage'[e] # "idle"]
          = [e \in Devices |-> stage[e] # "idle"]
    BY <1>1, <2>1 DEF TypeOK
  <2>3. Promise!FailAndGoOn(d)
    BY <1>1, <1>2, <1>3, <2>1, <2>2 DEF Promise!FailAndGoOn
  <2>4. QED
    BY <2>3 DEF Promise!Next, Promise!Progress
<1>6. QED
  BY <1>4, <1>5

LEMMA PromiseNext ==
  RetryInv /\ RetryInv' /\ [Next]_vars => [Promise!Next]_(Promise!vars)
<1> SUFFICES ASSUME RetryInv, RetryInv', [Next]_vars
             PROVE  [Promise!Next]_(Promise!vars)
  OBVIOUS
<1>1. CASE LinkOpens \/ LinkCloses \/ UNCHANGED vars
  BY <1>1 DEF LinkOpens, LinkCloses, vars, Promise!vars
<1>2. CASE \E d \in Devices : StartPoll(d) \/ Step(d) \/ CancelPoll(d)
  BY <1>2, PromiseOwnSteps, PromiseFailureSteps DEF Step
<1>3. QED
  BY <1>1, <1>2 DEF Next

(* Every behaviour of the retry code is one that PollPromise allows: at most
   TransientRetryCount + 1 updates a poll, one result, and the connection torn
   down only by a poll that has used them all up. *)
THEOREM Refines == Spec => PromiseKept
<1>1. QED
  BY PromiseInit, PromiseNext, RetryInvariant, PTL
  DEF Spec, PromiseKept, Promise!Spec
=============================================================================
