-------------------------- MODULE SharedLinkProofs --------------------------
(***************************************************************************)
(* The shared connection for every number of devices, blocks, retries and  *)
(* faults.  Six layers, each resting on some of the ones before it:        *)
(*   - the link's steps are steps of UpdateRetry, so what is proved of the *)
(*     retry code, and its implementation of PollPromise, holds of the     *)
(*     link as well;                                                       *)
(*   - QueueInv: the pacer's queue holds each attempt under way, once;     *)
(*   - InTime: the time an attempt has spent is bounded by its block, its  *)
(*     place in the queue and the time the device takes to answer, so that *)
(*     a budget that covers the answers never expires;                     *)
(*   - CleanInv: a poll that nothing outside this code disturbs keeps a    *)
(*     retry for every device whose disconnect may still cut it;           *)
(*   - AttemptGetsOn: what is left of an attempt, in blocks, places and    *)
(*     ticks, goes down with everything that happens on the wire;          *)
(*   - on a link that stays stuck, polls go on to their disconnect.        *)
(***************************************************************************)
EXTENDS SharedLink, UpdateRetryProofs, FiniteSetTheorems

-----------------------------------------------------------------------------
(* The retry code is left alone: whatever the connection does, to UpdateRetry
   it is the end of an attempt, a link that opens or closes, or nothing. *)

LEMMA LinkStepsAreRetrySteps == [LinkNext]_allVars => [Next]_vars
<1> SUFFICES ASSUME [LinkNext]_allVars
             PROVE  [Next]_vars
  OBVIOUS
<1>1. CASE UNCHANGED allVars
  BY <1>1 DEF allVars, vars
<1>2. ASSUME NEW d \in Devices, Poll(d)
      PROVE  Next
  BY <1>2 DEF Poll, Next
<1>3. ASSUME NEW d \in Devices, TurnEnds(d)
      PROVE  [Next]_vars
  <2>1. CASE BlockAnswered(d)
    BY <2>1 DEF BlockAnswered
  <2>2. CASE UpdateDone(d)
    BY <2>2 DEF UpdateDone, Next, Step
  <2>3. CASE RequestTimesOut(d)
    BY <2>3 DEF RequestTimesOut, Next, Step, Failures, Transient
  <2>4. CASE RequestCut(d)
    BY <2>4 DEF RequestCut, Next, Step, Failures, Transient
  <2>5. QED
    BY <1>3, <2>1, <2>2, <2>3, <2>4 DEF TurnEnds
<1>4. ASSUME NEW d \in Devices, ConnectFails(d) \/ ConnectionLost(d)
      PROVE  Next
  BY <1>4 DEF ConnectFails, ConnectionLost, Next, Step, Failures, Transient
<1>5. ASSUME NEW d \in Devices, NEW k \in Failures, BadReply(d, k)
      PROVE  Next
  BY <1>5 DEF BadReply, Next, Step
<1>6. ASSUME NEW d \in Devices, BudgetExpires(d)
      PROVE  Next
  <2>1. PICK k \in {"budget", "lost", "permanent"} : AttemptFails(d, k)
    BY <1>6 DEF BudgetExpires
  <2>2. k \in Failures
    BY DEF Failures, Transient, Permanent
  <2>3. QED
    BY <2>1, <2>2 DEF Next, Step
<1>7. ASSUME NEW d \in Devices, Disconnect(d) \/ Raise(d) \/ Cancel(d)
      PROVE  Next
  BY <1>7 DEF Disconnect, Raise, Cancel, Next, Step
<1>8. CASE Send \/ IdleLinkCloses \/ LinkSticks \/ Tick
  BY <1>8 DEF Send, IdleLinkCloses, LinkSticks, Tick, Next
<1>9. QED
  BY <1>1, <1>2, <1>3, <1>4, <1>5, <1>6, <1>7, <1>8 DEF LinkNext

(* SharedLink implements UpdateRetry: every behaviour of the link is, seen
   from the retry code, one that UpdateRetry allows for. *)
THEOREM LinkImplementsRetry == LinkSpec => Spec
<1>1. LinkInit => Init
  BY DEF LinkInit
<1>2. QED
  BY <1>1, LinkStepsAreRetrySteps, PTL DEF LinkSpec, Spec

(* The invariant of the retry code holds on the link. *)
LEMMA LinkRetryInv == LinkSpec => []RetryInv
  BY LinkImplementsRetry, RetryInvariant, PTL

(* And so it keeps the promise UpdateRetry keeps: with a queue, request
   timeouts, cuts and a budget under it, a poll makes no more attempts, drops
   the link for no other reason and reports nothing else. *)
THEOREM LinkKeepsPromise == LinkSpec => PromiseKept
  BY LinkImplementsRetry, Refines, PTL

-----------------------------------------------------------------------------
(* The queue for the pacer. *)

OnceEach(q) == \A i, j \in 1 .. Len(q) : q[i] = q[j] => i = j

(* Leaving a queue one is in once closes the gap. *)
LEMMA LeavingAt ==
  ASSUME NEW q \in Seq(Devices), OnceEach(q), NEW n \in 1 .. Len(q)
  PROVE  /\ RemoveFirst(q, q[n]) \in Seq(Devices)
         /\ Len(RemoveFirst(q, q[n])) = Len(q) - 1
         /\ \A i \in 1 .. Len(q) - 1 :
              RemoveFirst(q, q[n])[i] = IF i < n THEN q[i] ELSE q[i + 1]
<1> DEFINE I == {i \in 1 .. Len(q) : q[i] = q[n]}
           u == SubSeq(q, 1, n - 1)
           v == SubSeq(q, n + 1, Len(q))
<1>1. I = {n}
  BY DEF OnceEach
<1>2. Min(I) = n
  BY <1>1 DEF Min
<1>3. SelectInSeq(q, LAMBDA t : t = q[n]) = n
  BY <1>1, <1>2 DEF SelectInSeq
<1>4. RemoveFirst(q, q[n]) = u \o v
  BY <1>3 DEF RemoveFirst, RemoveAt
<1>5. /\ u \in Seq(Devices) /\ Len(u) = n - 1
      /\ \A i \in 1 .. n - 1 : u[i] = q[i]
  OBVIOUS
<1>6. /\ v \in Seq(Devices) /\ Len(v) = Len(q) - n
      /\ \A i \in 1 .. Len(q) - n : v[i] = q[n + i]
  OBVIOUS
<1> HIDE DEF u, v
<1>7. /\ u \o v \in Seq(Devices)
      /\ Len(u \o v) = Len(q) - 1
  BY <1>5, <1>6
<1>8. ASSUME NEW i \in 1 .. Len(q) - 1
      PROVE  (u \o v)[i] = IF i < n THEN q[i] ELSE q[i + 1]
  <2>1. CASE i < n
    BY <2>1, <1>5, <1>6
  <2>2. CASE ~(i < n)
    <3>1. (u \o v)[i] = v[i - (n - 1)]
      BY <2>2, <1>5, <1>6
    <3>2. i - (n - 1) \in 1 .. Len(q) - n
      BY <2>2
    <3>3. v[i - (n - 1)] = q[n + (i - (n - 1))]
      BY <3>2, <1>6
    <3>4. n + (i - (n - 1)) = i + 1
      OBVIOUS
    <3>5. QED
      BY <2>2, <3>1, <3>3, <3>4
  <2>3. QED
    BY <2>1, <2>2
<1>9. QED
  BY <1>4, <1>7, <1>8

(* Who leaves the queue leaves the others in it, in their order: nobody falls
   back, and if it was the first one, everybody moves up. *)
LEMMA LeavingQueue ==
  ASSUME NEW q \in Seq(Devices), OnceEach(q), NEW d \in Devices
  PROVE  /\ RemoveFirst(q, d) \in Seq(Devices)
         /\ OnceEach(RemoveFirst(q, d))
         /\ \A e \in Devices :
              Contains(RemoveFirst(q, d), e) <=> Contains(q, e) /\ e # d
         /\ \A i \in 1 .. Len(RemoveFirst(q, d)) :
              \E j \in i .. Len(q) :
                q[j] = RemoveFirst(q, d)[i] /\ (q[1] = d => j > i)
         /\ q # <<>> /\ q[1] # d =>
              RemoveFirst(q, d) # <<>> /\ RemoveFirst(q, d)[1] = q[1]
<1> DEFINE w == RemoveFirst(q, d)
<1>1. CASE ~Contains(q, d)
  <2>1. w = q
    BY <1>1 DEF RemoveFirst, Contains
  <2>2. \A i \in 1 .. Len(w) :
          \E j \in i .. Len(q) : q[j] = w[i] /\ (q[1] = d => j > i)
    <3>1. Len(q) \in Nat
      OBVIOUS
    <3>2. \A i \in 1 .. Len(q) : i \in i .. Len(q) /\ q[1] # d
      BY <1>1, <3>1 DEF Contains
    <3>3. QED
      BY <2>1, <3>2
  <2>3. QED
    BY <1>1, <2>1, <2>2
<1>2. CASE Contains(q, d)
  <2>1. PICK n \in 1 .. Len(q) : q[n] = d
    BY <1>2 DEF Contains
  <2>2. /\ w \in Seq(Devices)
        /\ Len(w) = Len(q) - 1
        /\ \A i \in 1 .. Len(q) - 1 : w[i] = IF i < n THEN q[i] ELSE q[i + 1]
    BY <2>1, LeavingAt
  <2> HIDE DEF w
  <2>3. OnceEach(w)
    BY <2>2 DEF OnceEach
  <2>4. ASSUME NEW e \in Devices
        PROVE  Contains(w, e) <=> Contains(q, e) /\ e # d
    <3>1. ASSUME NEW i \in 1 .. Len(w), w[i] = e
          PROVE  Contains(q, e) /\ e # d
      <4>1. CASE i < n
        BY <2>1, <2>2, <3>1, <4>1 DEF Contains, OnceEach
      <4>2. CASE ~(i < n)
        BY <2>1, <2>2, <3>1, <4>2 DEF Contains, OnceEach
      <4>3. QED
        BY <4>1, <4>2
    <3>2. ASSUME NEW i \in 1 .. Len(q), q[i] = e, e # d
          PROVE  Contains(w, e)
      <4>1. CASE i < n
        <5>1. i \in 1 .. Len(w) /\ w[i] = e
          BY <2>2, <3>2, <4>1
        <5>2. QED
          BY <5>1 DEF Contains
      <4>2. CASE ~(i < n)
        <5>1. i - 1 \in 1 .. Len(w) /\ w[i - 1] = e
          BY <2>1, <2>2, <3>2, <4>2
        <5>2. QED
          BY <5>1 DEF Contains
      <4>3. QED
        BY <4>1, <4>2
    <3>3. QED
      BY <3>1, <3>2 DEF Contains
  <2>5. ASSUME NEW i \in 1 .. Len(w)
        PROVE  \E j \in i .. Len(q) : q[j] = w[i] /\ (q[1] = d => j > i)
    <3>1. CASE i < n
      <4>1. i \in i .. Len(q) /\ q[i] = w[i] /\ q[1] # d
        BY <2>1, <2>2, <3>1 DEF OnceEach
      <4>2. QED
        BY <4>1
    <3>2. CASE ~(i < n)
      <4>1. i + 1 \in i .. Len(q) /\ q[i + 1] = w[i]
        BY <2>2, <3>2
      <4>2. QED
        BY <4>1
    <3>3. QED
      BY <3>1, <3>2
  <2>6. ASSUME q # <<>>, q[1] # d
        PROVE  w # <<>> /\ w[1] = q[1]
    <3>1. n > 1
      BY <2>1, <2>6
    <3>2. Len(w) >= 1 /\ w[1] = q[1]
      BY <2>2, <3>1
    <3>3. QED
      BY <3>2
  <2>7. QED
    BY <2>2, <2>3, <2>4, <2>5, <2>6 DEF w
<1>3. QED
  BY <1>1, <1>2

(* Queueing up, behind everyone. *)
LEMMA JoiningQueue ==
  ASSUME NEW q \in Seq(Devices), OnceEach(q),
         NEW d \in Devices, ~Contains(q, d)
  PROVE  /\ Append(q, d) \in Seq(Devices)
         /\ OnceEach(Append(q, d))
         /\ \A e \in Devices :
              Contains(Append(q, d), e) <=> Contains(q, e) \/ e = d
         /\ Len(Append(q, d)) = Len(q) + 1
         /\ \A i \in 1 .. Len(q) : Append(q, d)[i] = q[i]
         /\ Append(q, d)[Len(q) + 1] = d
<1> DEFINE a == Append(q, d)
<1>1. /\ a \in Seq(Devices)
      /\ Len(a) = Len(q) + 1
      /\ \A i \in 1 .. Len(q) : a[i] = q[i]
      /\ a[Len(q) + 1] = d
  OBVIOUS
<1>2. \A i \in 1 .. Len(q) : q[i] # d
  BY DEF Contains
<1> HIDE DEF a
<1>3. OnceEach(a)
  BY <1>1, <1>2 DEF OnceEach
<1>4. ASSUME NEW e \in Devices
      PROVE  Contains(a, e) <=> Contains(q, e) \/ e = d
  <2>1. \A i \in 1 .. Len(a) : i \in 1 .. Len(q) \/ i = Len(q) + 1
    BY <1>1
  <2>2. Len(q) + 1 \in 1 .. Len(a) /\ \A i \in 1 .. Len(q) : i \in 1 .. Len(a)
    BY <1>1
  <2>3. QED
    BY <1>1, <2>1, <2>2 DEF Contains
<1>5. QED
  BY <1>1, <1>3, <1>4 DEF a

(* The first of the queue is the one it is the turn of. *)
LEMMA FirstsTurn ==
  ASSUME queue \in Seq(Devices), NEW d \in Devices
  PROVE  OnTurn(d) <=> Len(queue) > 0 /\ queue[1] = d
  BY DEF OnTurn

-----------------------------------------------------------------------------
(* The queue holds the attempts under way, and the variables of the link keep
   their types. *)

Typed(q, w, a) ==
  /\ q \in Seq(Devices)
  /\ w \in {"free", "sent", "cut"}
  /\ a \in 0 .. RequestTimeout

QueueInv ==
  /\ Typed(queue, wire, age)
  /\ block \in [Devices -> 0 .. NumBlocks - 1]
  /\ spent \in [Devices -> 0 .. Budget]
  /\ OnceEach(queue)
  /\ \A d \in Devices : Polling(d) <=> Contains(queue, d)
  /\ wire # "free" => queue # <<>>
  /\ wire = "free" => age = 0

\* The rest of the link, which the queue does not depend on.
RestTyped ==
  /\ stuck  \in BOOLEAN
  /\ faults \in 0 .. MaxFaults
  /\ clean  \in [Devices -> BOOLEAN]

(* An attempt of d that ends, and what the queue is then: the others keep
   their order and move up if it was d's turn, d waits behind them if another
   attempt follows. *)
LEMMA EndingAttempt ==
  ASSUME QueueInv, NEW d \in Devices, EndAttempt(d),
         \A e \in Devices \ {d} : stage'[e] = stage[e]
  PROVE  /\ QueueInv'
         /\ \A i \in 1 .. Len(queue') :
              IF queue'[i] = d
                THEN spent'[d] = 0
                ELSE /\ block'[queue'[i]] = block[queue'[i]]
                     /\ spent'[queue'[i]] = spent[queue'[i]]
                     /\ \E j \in i .. Len(queue) :
                          queue[j] = queue'[i] /\ (OnTurn(d) => j > i)
         /\ age' = IF OnTurn(d) THEN 0 ELSE age
         /\ wire' = IF OnTurn(d) THEN "free" ELSE wire
         /\ queue # <<>> /\ ~OnTurn(d) => queue' # <<>> /\ Head(queue') = Head(queue)
<1> DEFINE w == RemoveFirst(queue, d)
<1> USE RetryAssumption, LinkAssumption
<1>1. /\ queue \in Seq(Devices) /\ OnceEach(queue)
      /\ OnTurn(d) <=> queue # <<>> /\ queue[1] = d
  BY FirstsTurn DEF QueueInv, Typed
<1>2. /\ w \in Seq(Devices) /\ OnceEach(w)
      /\ \A e \in Devices : Contains(w, e) <=> Contains(queue, e) /\ e # d
      /\ \A i \in 1 .. Len(w) :
           \E j \in i .. Len(queue) : queue[j] = w[i] /\ (queue[1] = d => j > i)
      /\ queue # <<>> /\ queue[1] # d => w # <<>> /\ w[1] = queue[1]
  BY <1>1, LeavingQueue
<1>3. ~Contains(w, d)
  BY <1>2
<1>4. /\ Append(w, d) \in Seq(Devices) /\ OnceEach(Append(w, d))
      /\ \A e \in Devices : Contains(Append(w, d), e) <=> Contains(w, e) \/ e = d
      /\ Len(Append(w, d)) = Len(w) + 1
      /\ \A i \in 1 .. Len(w) : Append(w, d)[i] = w[i]
      /\ Append(w, d)[Len(w) + 1] = d
  BY <1>2, <1>3, JoiningQueue
<1>5. /\ queue' = IF Polling(d)' THEN Append(w, d) ELSE w
      /\ wire' = IF OnTurn(d) THEN "free" ELSE wire
      /\ age' = IF OnTurn(d) THEN 0 ELSE age
      /\ block' = [block EXCEPT ![d] = 0]
      /\ spent' = [spent EXCEPT ![d] = 0]
  BY DEF EndAttempt, LeaveWire, Without
<1> HIDE DEF w
<1>6. queue' \in Seq(Devices) /\ OnceEach(queue')
  BY <1>2, <1>4, <1>5
<1>7. ASSUME NEW e \in Devices
      PROVE  Polling(e)' <=> Contains(queue', e)
  <2>1. CASE e = d
    BY <1>2, <1>4, <1>5, <2>1
  <2>2. CASE e # d
    <3>1. Polling(e)' <=> Polling(e)
      BY <2>2 DEF Polling
    <3>2. Contains(queue', e) <=> Contains(queue, e)
      BY <1>2, <1>4, <1>5, <2>2
    <3>3. QED
      BY <3>1, <3>2 DEF QueueInv
  <2>3. QED
    BY <2>1, <2>2
<1>8. /\ block' \in [Devices -> 0 .. NumBlocks - 1]
      /\ spent' \in [Devices -> 0 .. Budget]
      /\ block'[d] = 0 /\ spent'[d] = 0
      /\ \A e \in Devices \ {d} : block'[e] = block[e] /\ spent'[e] = spent[e]
  BY <1>5 DEF QueueInv
<1>9. /\ wire' \in {"free", "sent", "cut"} /\ age' \in 0 .. RequestTimeout
      /\ wire' = "free" => age' = 0
  BY <1>5 DEF QueueInv, Typed
<1>10. ASSUME queue # <<>>, ~OnTurn(d)
       PROVE  queue' # <<>> /\ Head(queue') = Head(queue)
  <2>1. w # <<>> /\ w[1] = queue[1]
    BY <1>1, <1>2, <1>10
  <2>2. Len(w) > 0 /\ Len(queue) > 0
    BY <1>1, <1>2, <1>10, <2>1
  <2>3. Len(queue') > 0 /\ queue'[1] = queue[1]
    BY <1>2, <1>4, <1>5, <2>1, <2>2
  <2>4. QED
    BY <1>1, <1>6, <2>2, <2>3
<1>11. wire' # "free" => queue' # <<>>
  BY <1>5, <1>10 DEF QueueInv
<1>12. QueueInv'
  BY <1>6, <1>7, <1>8, <1>9, <1>11 DEF QueueInv, Typed
<1>13. ASSUME NEW i \in 1 .. Len(queue'), queue'[i] # d
       PROVE  /\ block'[queue'[i]] = block[queue'[i]]
              /\ spent'[queue'[i]] = spent[queue'[i]]
              /\ \E j \in i .. Len(queue) :
                   queue[j] = queue'[i] /\ (OnTurn(d) => j > i)
  <2>1. queue'[i] \in Devices
    BY <1>6
  <2>2. i \in 1 .. Len(w) /\ queue'[i] = w[i]
    BY <1>2, <1>4, <1>5, <1>13
  <2>3. PICK j \in i .. Len(queue) : queue[j] = w[i] /\ (queue[1] = d => j > i)
    BY <1>2, <2>2
  <2>4. QED
    BY <1>1, <1>8, <1>13, <2>1, <2>2, <2>3
<1>14. QED
  BY <1>5, <1>8, <1>10, <1>12, <1>13

(* All the ways an attempt, or a poll, ends on the link. *)
AttemptEnds(d) ==
  \/ UpdateDone(d)
  \/ ConnectFails(d)
  \/ \E k \in Failures : BadReply(d, k)
  \/ ConnectionLost(d)
  \/ RequestTimesOut(d)
  \/ RequestCut(d)
  \/ BudgetExpires(d)
  \/ Cancel(d)

(* Whatever ends an attempt takes it out of the queue and leaves the stages
   of the other devices alone. *)
LEMMA AttemptEndsAll ==
  ASSUME RetryInv, NEW d \in Devices, AttemptEnds(d)
  PROVE  /\ EndAttempt(d)
         /\ \A e \in Devices \ {d} :
              /\ stage'[e] = stage[e]
              /\ outcome'[e] = outcome[e]
              /\ failures'[e] = failures[e]
<1>1. EndAttempt(d)
  BY DEF AttemptEnds, UpdateDone, ConnectFails, BadReply, ConnectionLost,
         RequestTimesOut, RequestCut, BudgetExpires, Cancel
<1>2. {"budget", "lost", "permanent", "timeout"} \subseteq Failures
  BY DEF Failures, Transient, Permanent
<1>3. \/ AttemptSucceeds(d)
      \/ \E k \in Failures : AttemptFails(d, k)
      \/ CancelPoll(d)
  BY <1>2 DEF AttemptEnds, UpdateDone, ConnectFails, BadReply, ConnectionLost,
         RequestTimesOut, RequestCut, BudgetExpires, Cancel
<1>4. QED
  BY <1>1, <1>3, OthersUntouched

(* The steps of the link, as the invariants below tell them apart. *)
LEMMA LinkNextCases ==
  LinkNext <=>
    \/ \E d \in Devices : \/ Poll(d)
                          \/ BlockAnswered(d)
                          \/ AttemptEnds(d)
                          \/ Disconnect(d)
                          \/ Raise(d)
    \/ Send
    \/ IdleLinkCloses
    \/ LinkSticks
    \/ Tick
  BY DEF LinkNext, TurnEnds, AttemptEnds

(* Initially nobody polls and nobody queues. *)
LEMMA QueueInvInit == LinkInit => QueueInv /\ RestTyped
<1> SUFFICES ASSUME LinkInit
             PROVE  QueueInv /\ RestTyped
  OBVIOUS
<1>1. queue = <<>> /\ Len(queue) = 0
  BY DEF LinkInit
<1>2. \A d \in Devices : ~Contains(queue, d)
  BY <1>1 DEF Contains
<1>3. \A d \in Devices : ~Polling(d)
  BY DEF LinkInit, Init, Polling, Attempting
<1>4. Typed(queue, wire, age) /\ OnceEach(queue)
  BY <1>1, LinkAssumption DEF LinkInit, Typed, OnceEach
<1>5. /\ block \in [Devices -> 0 .. NumBlocks - 1]
      /\ spent \in [Devices -> 0 .. Budget]
  BY LinkAssumption DEF LinkInit
<1>6. QueueInv
  BY <1>2, <1>3, <1>4, <1>5 DEF LinkInit, QueueInv
<1>7. RestTyped
  <2>1. stuck \in BOOLEAN /\ clean \in [Devices -> BOOLEAN]
    BY DEF LinkInit
  <2>2. faults \in 0 .. MaxFaults
    BY LinkAssumption DEF LinkInit
  <2>3. QED
    BY <2>1, <2>2 DEF RestTyped
<1>8. QED
  BY <1>6, <1>7

(* A poll begins: its attempt waits behind all the others. *)
LEMMA BeginningPoll ==
  ASSUME RetryInv, QueueInv, NEW d \in Devices, Poll(d)
  PROVE  /\ QueueInv'
         /\ Len(queue') = Len(queue) + 1
         /\ \A i \in 1 .. Len(queue) : queue'[i] = queue[i] /\ queue[i] # d
         /\ queue'[Len(queue')] = d
<1> USE LinkAssumption
<1>1. ~Contains(queue, d) /\ ~Polling(d)
  BY DEF Poll, StartPoll, Polling, Attempting, QueueInv
<1>2. /\ queue' = Append(queue, d)
      /\ UNCHANGED <<wire, age>>
      /\ block' = [block EXCEPT ![d] = 0]
      /\ spent' = [spent EXCEPT ![d] = 0]
      /\ stage' = [stage EXCEPT ![d] = "first"]
  BY DEF Poll, StartPoll
<1>3. /\ queue' \in Seq(Devices) /\ OnceEach(queue')
      /\ \A e \in Devices : Contains(queue', e) <=> Contains(queue, e) \/ e = d
      /\ Len(queue') = Len(queue) + 1
      /\ \A i \in 1 .. Len(queue) : queue'[i] = queue[i]
      /\ queue'[Len(queue) + 1] = d
  BY <1>1, <1>2, JoiningQueue DEF QueueInv, Typed
<1>4. ASSUME NEW e \in Devices
      PROVE  Polling(e)' <=> Contains(queue', e)
  BY <1>2, <1>3 DEF Polling, Attempting, QueueInv, RetryInv, TypeOK
<1>5. queue' # <<>>
  BY <1>3 DEF QueueInv, Typed
<1>6. /\ block' \in [Devices -> 0 .. NumBlocks - 1]
      /\ spent' \in [Devices -> 0 .. Budget]
  BY <1>2 DEF QueueInv
<1>7. QueueInv'
  BY <1>2, <1>3, <1>4, <1>5, <1>6 DEF QueueInv, Typed
<1>8. \A i \in 1 .. Len(queue) : queue[i] # d
  BY <1>1 DEF Contains
<1>9. QED
  BY <1>3, <1>7, <1>8

(* A block is answered: the first one goes to the end of the queue, and all
   the others move up. *)
LEMMA AnsweringBlock ==
  ASSUME QueueInv, NEW d \in Devices, BlockAnswered(d)
  PROVE  /\ QueueInv'
         /\ queue[1] = d
         /\ Len(queue) > 0 /\ Len(queue') = Len(queue)
         /\ \A i \in 1 .. Len(queue) - 1 :
              queue'[i] = queue[i + 1] /\ queue[i + 1] # d
         /\ queue'[Len(queue')] = d
<1> DEFINE t == Tail(queue)
<1>1. /\ queue \in Seq(Devices) /\ OnceEach(queue)
      /\ Len(queue) > 0 /\ queue[1] = d
  BY FirstsTurn DEF QueueInv, Typed, BlockAnswered, OnWire
<1>2. /\ queue' = Append(t, d)
      /\ wire' = "free" /\ age' = 0
      /\ block' = [block EXCEPT ![d] = @ + 1]
      /\ block[d] < NumBlocks - 1
      /\ UNCHANGED <<stage, spent>>
  BY DEF BlockAnswered, LeaveWire, OnWire, vars
<1>3. /\ t \in Seq(Devices) /\ Len(t) = Len(queue) - 1
      /\ \A i \in 1 .. Len(queue) - 1 : t[i] = queue[i + 1]
  BY <1>1
<1> HIDE DEF t
<1>4. \A i \in 1 .. Len(queue) - 1 : queue[i + 1] # d
  BY <1>1 DEF OnceEach
<1>5. OnceEach(t)
  BY <1>1, <1>3 DEF OnceEach
<1>6. ~Contains(t, d)
  BY <1>3, <1>4 DEF Contains
<1>7. \A e \in Devices : Contains(queue, e) <=> Contains(t, e) \/ e = d
  <2> SUFFICES ASSUME NEW e \in Devices
               PROVE  Contains(queue, e) <=> Contains(t, e) \/ e = d
    OBVIOUS
  <2>1. ASSUME NEW i \in 1 .. Len(queue), queue[i] = e, e # d
        PROVE  Contains(t, e)
    <3>1. i - 1 \in 1 .. Len(t) /\ t[i - 1] = e
      BY <1>1, <1>3, <2>1
    <3>2. QED
      BY <3>1 DEF Contains
  <2>2. ASSUME NEW i \in 1 .. Len(t), t[i] = e
        PROVE  Contains(queue, e)
    <3>1. i + 1 \in 1 .. Len(queue) /\ queue[i + 1] = e
      BY <1>1, <1>3, <2>2
    <3>2. QED
      BY <3>1 DEF Contains
  <2>3. Contains(queue, d)
    BY <1>1 DEF Contains
  <2>4. QED
    BY <2>1, <2>2, <2>3 DEF Contains
<1>8. /\ queue' \in Seq(Devices) /\ OnceEach(queue')
      /\ \A e \in Devices : Contains(queue', e) <=> Contains(t, e) \/ e = d
      /\ Len(queue') = Len(queue)
      /\ \A i \in 1 .. Len(queue) - 1 : queue'[i] = queue[i + 1]
      /\ queue'[Len(queue')] = d
  BY <1>1, <1>2, <1>3, <1>5, <1>6, JoiningQueue
<1>9. block' \in [Devices -> 0 .. NumBlocks - 1]
  BY <1>2, LinkAssumption DEF QueueInv
<1>10. \A e \in Devices : Polling(e)' <=> Contains(queue', e)
  BY <1>2, <1>7, <1>8 DEF QueueInv, Polling
<1>11. QueueInv'
  BY <1>2, <1>8, <1>9, <1>10, LinkAssumption DEF QueueInv, Typed
<1>12. QED
  BY <1>1, <1>4, <1>8, <1>11

(* The other steps leave the queue as it is. *)
LEMMA KeepingQueue ==
  ASSUME RetryInv, QueueInv,
         \/ \E d \in Devices : Disconnect(d) \/ Raise(d)
         \/ Send \/ IdleLinkCloses \/ LinkSticks \/ Tick
         \/ UNCHANGED allVars
  PROVE  QueueInv' /\ queue' = queue
<1> USE LinkAssumption
<1>1. \A e \in Devices : Polling(e)' <=> Polling(e)
  <2>1. ASSUME NEW d \in Devices, Disconnect(d) \/ Raise(d)
        PROVE  \A e \in Devices : Polling(e)' <=> Polling(e)
    BY <2>1 DEF Disconnect, Raise, DropLink, RaiseExhausted, Polling, Attempting,
                RetryInv, TypeOK
  <2>2. CASE Send \/ IdleLinkCloses \/ LinkSticks \/ Tick \/ UNCHANGED allVars
    BY <2>2 DEF Send, LinkOpens, IdleLinkCloses, LinkCloses, LinkSticks, Tick,
                allVars, vars, Polling
  <2>3. QED
    BY <2>1, <2>2
<1>2. queue' = queue /\ block' = block
  BY DEF Disconnect, Raise, Send, IdleLinkCloses, LinkSticks, Tick, allVars,
         linkVars
<1>3. /\ Typed(queue, wire, age)'
      /\ wire' # "free" => queue' # <<>>
      /\ wire' = "free" => age' = 0
  BY <1>2 DEF Disconnect, Raise, Send, IdleLinkCloses, LinkSticks, Tick, allVars,
         linkVars, QueueInv, Typed
<1>4. spent' \in [Devices -> 0 .. Budget]
  <2>1. CASE Tick
    <3>1. spent' = [d \in Devices |-> IF Polling(d) THEN spent[d] + 1 ELSE 0]
      BY <2>1 DEF Tick
    <3>2. \A d \in Devices : Polling(d) => spent[d] + 1 \in 0 .. Budget
      BY <2>1 DEF Tick, QueueInv
    <3>3. QED
      BY <3>1, <3>2
  <2>2. CASE ~Tick
    BY <2>2 DEF Disconnect, Raise, Send, IdleLinkCloses, LinkSticks, allVars,
                linkVars, QueueInv
  <2>3. QED
    BY <2>1, <2>2
<1>5. QED
  BY <1>1, <1>2, <1>3, <1>4 DEF QueueInv

(* Every step of the link keeps the queue in order. *)
LEMMA QueueInvNext == RetryInv /\ QueueInv /\ [LinkNext]_allVars => QueueInv'
<1> SUFFICES ASSUME RetryInv, QueueInv, [LinkNext]_allVars
             PROVE  QueueInv'
  OBVIOUS
<1>1. ASSUME NEW d \in Devices, AttemptEnds(d)
      PROVE  QueueInv'
  BY <1>1, AttemptEndsAll, EndingAttempt
<1>2. QED
  BY <1>1, BeginningPoll, AnsweringBlock, KeepingQueue, LinkNextCases

(* Faults are counted, and a fault is all that the rest of the link tells. *)
LEMMA RestTypedNext == RestTyped /\ [LinkNext]_allVars => RestTyped'
<1> SUFFICES ASSUME RestTyped, [LinkNext]_allVars
             PROVE  RestTyped'
  OBVIOUS
<1>1. ASSUME NEW f, Fault(f)
      PROVE  faults' \in 0 .. MaxFaults /\ clean' \in [Devices -> BOOLEAN]
  BY <1>1, LinkAssumption DEF Fault, RestTyped
<1>2. ASSUME NEW d \in Devices,
             \/ Poll(d) \/ BlockAnswered(d) \/ UpdateDone(d) \/ RequestCut(d)
             \/ BudgetExpires(d) \/ Disconnect(d) \/ Raise(d)
      PROVE  RestTyped'
  BY <1>2 DEF Poll, BlockAnswered, UpdateDone, RequestCut, BudgetExpires,
              Disconnect, Raise, linkVars, RestTyped
<1>3. ASSUME NEW d \in Devices, NEW k \in Failures,
             \/ ConnectFails(d) \/ BadReply(d, k) \/ ConnectionLost(d)
             \/ RequestTimesOut(d) \/ Cancel(d)
      PROVE  RestTyped'
  BY <1>1, <1>3 DEF ConnectFails, BadReply, ConnectionLost, RequestTimesOut,
                    Cancel, NoFault, RestTyped
<1>4. CASE Send \/ IdleLinkCloses \/ LinkSticks \/ Tick \/ UNCHANGED allVars
  BY <1>1, <1>4 DEF Send, IdleLinkCloses, LinkSticks, Tick, allVars, linkVars,
                    RestTyped
<1>5. "lost" \in Failures
  BY DEF Failures, Transient
<1>6. QED
  BY <1>2, <1>3, <1>4, <1>5 DEF LinkNext, TurnEnds

(* The queue is in order in every reachable state. *)
LEMMA QueueInvariant == LinkSpec => [](RetryInv /\ QueueInv /\ RestTyped)
  BY QueueInvInit, QueueInvNext, RestTypedNext, LinkRetryInv, PTL DEF LinkSpec

(* The variables of the link keep their types. *)
THEOREM LinkTyped == LinkSpec => []LinkTypeOK
<1>1. RetryInv /\ QueueInv /\ RestTyped => LinkTypeOK
  BY DEF RetryInv, QueueInv, Typed, RestTyped, LinkTypeOK
<1>2. QED
  BY <1>1, QueueInvariant, PTL

(* Whatever ends an attempt - its last block, an error, a cut, a cancellation,
   the budget - takes its request out of the queue, and nothing takes out
   another device's. *)
THEOREM QueueHoldsAttempts == LinkSpec => []QueueIsTheAttempts
<1>1. QueueInv => QueueIsTheAttempts
  BY DEF QueueInv, OnceEach, QueueIsTheAttempts
<1>2. QED
  BY <1>1, QueueInvariant, PTL

-----------------------------------------------------------------------------
(* The budget.  Take turns of R ticks.  A device that is the i-th in the queue
   and has b blocks behind it has waited for no more of them than b rounds of
   the queue and the turns that brought it up to the i-th place. *)

Holders == Cardinality(Devices)

Due(R, b, i) == R * (b * Holders + (Holders - i))

\* The devices of S have waited for turns of R ticks only, and for as much of
\* the present one as has passed.
InTime(R, S) ==
  \A i \in 1 .. Len(queue) :
    queue[i] \in S =>
      /\ spent[queue[i]] <= Due(R, block[queue[i]], i) + age
      /\ spent[queue[i]] <= Due(R, block[queue[i]], i) + R

\* The device answers, or its request comes to another end, within R ticks.
AnsweredWithin(R) == wire = "sent" => age <= R

\* A budget for answers within R ticks, to every block of every holder.  R is
\* the device's, not the code's: at 30 s it is 1.8 s for the sixteen blocks of
\* one device alone, 0.6 s for those of three.
BudgetCovers(R) ==
  /\ IsFiniteSet(Devices)
  /\ NumBlocks * Holders * R < Budget

(* Multiplying by a natural number keeps an order. *)
LEMMA ScaledOrder ==
  ASSUME NEW R \in Nat, NEW x \in Int, NEW y \in Int, x <= y
  PROVE  R * x <= R * y
  OBVIOUS

(* How the time that may have passed grows: by a turn with every place
   gained, and by a turn with the block that is answered. *)
LEMMA DueGrows ==
  ASSUME Holders \in Nat, NEW R \in Nat, NEW b \in 0 .. NumBlocks - 1, NEW i \in 1 .. Holders
  PROVE  /\ Due(R, b, i) \in Int /\ 0 <= Due(R, b, i)
         /\ \A j \in i .. Holders : Due(R, b, j) <= Due(R, b, i)
         /\ \A j \in i .. Holders : j > i => Due(R, b, j) + R <= Due(R, b, i)
         /\ Due(R, b, 1) + R <= Due(R, b + 1, i)
         /\ Due(R, b, i) + R <= NumBlocks * Holders * R
<1> DEFINE bh == b * Holders
<1>1. bh \in Nat /\ (b + 1) * Holders = bh + Holders
  OBVIOUS
<1>2. NumBlocks * Holders \in Nat /\ bh + Holders <= NumBlocks * Holders
  <2>1. PICK m \in Nat : NumBlocks = b + 1 + m
    <3>1. NumBlocks - b - 1 \in Nat /\ NumBlocks = b + 1 + (NumBlocks - b - 1)
      BY LinkAssumption
    <3>2. QED
      BY <3>1
  <2>2. NumBlocks * Holders = (b + 1) * Holders + m * Holders
    BY <2>1
  <2>3. m * Holders \in Nat
    OBVIOUS
  <2>4. QED
    BY <1>1, <2>2, <2>3, LinkAssumption
<1> HIDE DEF bh
<1>3. \A j \in Int : R * j \in Int
  BY <1>1
<1>4. \A j \in Int : R * (j + 1) = R * j + R
  BY <1>1
<1>5. \A j \in 1 .. Holders : Due(R, b, j) = R * (bh + (Holders - j))
  BY DEF Due, bh
<1>6. Due(R, b, i) \in Int /\ 0 <= Due(R, b, i)
  <2>1. bh + (Holders - i) \in Int /\ 0 <= bh + (Holders - i)
    BY <1>1
  <2>2. R * 0 = 0
    BY <1>1
  <2>3. QED
    BY <1>3, <1>5, <2>1, <2>2, ScaledOrder
<1>7. ASSUME NEW j \in i .. Holders
      PROVE  Due(R, b, j) <= Due(R, b, i)
  BY <1>1, <1>5, ScaledOrder
<1>8. ASSUME NEW j \in i .. Holders, j > i
      PROVE  Due(R, b, j) + R <= Due(R, b, i)
  <2>1. R * ((bh + (Holders - j)) + 1)
          <= R * (bh + (Holders - i))
    BY <1>1, <1>8, ScaledOrder
  <2>2. QED
    BY <1>1, <1>4, <1>5, <2>1
<1>9. Due(R, b, 1) + R <= Due(R, b + 1, i)
  <2>1. R * ((bh + (Holders - 1)) + 1)
          <= R * ((bh + Holders) + (Holders - i))
    BY <1>1, ScaledOrder
  <2>2. Due(R, b + 1, i) = R * ((bh + Holders) + (Holders - i))
    BY <1>1 DEF Due
  <2>3. QED
    BY <1>1, <1>4, <1>5, <2>1, <2>2
<1>10. Due(R, b, i) + R <= NumBlocks * Holders * R
  <2>1. R * ((bh + (Holders - i)) + 1)
          <= R * (NumBlocks * Holders)
    BY <1>1, <1>2, ScaledOrder
  <2>2. R * (NumBlocks * Holders) = NumBlocks * Holders * R
    BY <1>1, <1>2
  <2>3. QED
    BY <1>1, <1>4, <1>5, <2>1, <2>2
<1>11. QED
  BY <1>6, <1>7, <1>8, <1>9, <1>10

(* Nobody waits behind more than all the others. *)
LEMMA QueueLength ==
  ASSUME IsFiniteSet(Devices), NEW q \in Seq(Devices), OnceEach(q)
  PROVE  Holders \in Nat /\ Len(q) \in Nat /\ Len(q) <= Holders
<1>1. Holders \in Nat
  BY FS_CardinalityType DEF Holders
<1>2. Len(q) \in Nat /\ q \in [1 .. Len(q) -> Devices]
  OBVIOUS
<1>3. q \in Injection(1 .. Len(q), Devices)
  BY <1>2 DEF OnceEach, Injection, IsInjective
<1>4. Cardinality(1 .. Len(q)) <= Holders
  BY <1>3, FS_Injection DEF Holders
<1>5. Cardinality(1 .. Len(q)) = Len(q)
  BY <1>2, FS_Interval
<1>6. QED
  BY <1>1, <1>2, <1>4, <1>5

(* Initially nobody waits. *)
LEMMA InTimeInit == LinkInit => \A R, S : InTime(R, S)
  BY DEF LinkInit, InTime

(* One place of the queue: what may be said of its holder. *)
LEMMA PlaceInTime ==
  ASSUME IsFiniteSet(Devices), QueueInv, NEW R \in Nat, NEW S, InTime(R, S),
         NEW i \in 1 .. Len(queue)
  PROVE  /\ queue[i] \in Devices
         /\ block[queue[i]] \in 0 .. NumBlocks - 1
         /\ spent[queue[i]] \in Int
         /\ i \in 1 .. Holders /\ Holders \in Nat
         /\ age \in 0 .. RequestTimeout /\ RequestTimeout \in Nat
         /\ Due(R, block[queue[i]], i) \in Int
         /\ queue[i] \in S =>
              /\ spent[queue[i]] <= Due(R, block[queue[i]], i) + age
              /\ spent[queue[i]] <= Due(R, block[queue[i]], i) + R
<1>1. Holders \in Nat /\ Len(queue) \in Nat /\ Len(queue) <= Holders
  BY QueueLength DEF QueueInv, Typed
<1>2. /\ queue[i] \in Devices
      /\ block[queue[i]] \in 0 .. NumBlocks - 1
      /\ spent[queue[i]] \in Int
      /\ i \in 1 .. Holders
      /\ age \in 0 .. RequestTimeout /\ RequestTimeout \in Nat
  BY <1>1, LinkAssumption DEF QueueInv, Typed
<1>3. QED
  BY <1>1, <1>2, DueGrows DEF InTime

(* Every step keeps to the time it may take: a clock tick is counted for the
   turn on the wire, whose age it is part of, and a turn that ends moves
   everybody behind it up.  All this takes from the device is that no tick
   lets the present turn grow older than R while one of S waits. *)
LEMMA InTimeNext ==
  ASSUME IsFiniteSet(Devices), RetryInv, QueueInv, QueueInv', [LinkNext]_allVars,
         NEW R \in Nat, NEW S, NEW S2, InTime(R, S),
         \A e \in Devices : e \in S2 => e \in S \/ spent'[e] = 0,
         Tick => \A i \in 1 .. Len(queue) : queue[i] \in S2 => age' <= R
  PROVE  InTime(R, S2)'
<1> USE LinkAssumption
<1> DEFINE OnTime(i) == /\ spent'[queue'[i]] <= Due(R, block'[queue'[i]], i) + age'
                        /\ spent'[queue'[i]] <= Due(R, block'[queue'[i]], i) + R
<1> SUFFICES ASSUME NEW i \in 1 .. Len(queue'), queue'[i] \in S2
             PROVE  OnTime(i)
  BY DEF InTime
<1>1. /\ Holders \in Nat
      /\ Len(queue) \in Nat /\ Len(queue) <= Holders
      /\ Len(queue') \in Nat /\ Len(queue') <= Holders
  BY QueueLength DEF QueueInv, Typed
<1>2. \A e \in Devices : block[e] \in 0 .. NumBlocks - 1 /\ block'[e] \in 0 .. NumBlocks - 1
  BY DEF QueueInv
<1>3. age \in 0 .. RequestTimeout /\ age' \in Nat /\ RequestTimeout \in Nat
  BY DEF QueueInv, Typed
<1>4. queue'[i] \in Devices /\ i \in 1 .. Holders
  BY <1>1 DEF QueueInv, Typed
\* One whose attempt begins.
<1>5. CASE spent'[queue'[i]] = 0
  <2>1. /\ Due(R, block'[queue'[i]], i) \in Int
        /\ 0 <= Due(R, block'[queue'[i]], i)
    BY <1>1, <1>2, <1>4, DueGrows
  <2>2. QED
    BY <1>3, <1>5, <2>1
\* A holder that is where it was, or further to the front.
<1>6. ASSUME NEW j \in i .. Len(queue), queue'[i] = queue[j], queue[j] \in S,
             block'[queue[j]] = block[queue[j]], spent'[queue[j]] = spent[queue[j]],
             age' = age \/ j > i
      PROVE  OnTime(i)
  <2> DEFINE b == block[queue[j]]
             s == spent[queue[j]]
  <2>1. j \in 1 .. Len(queue) /\ j \in i .. Holders
    BY <1>1, <1>6
  <2>2. b \in 0 .. NumBlocks - 1 /\ s \in Int
    BY <2>1, PlaceInTime
  <2>3. s <= Due(R, b, j) + age /\ s <= Due(R, b, j) + R /\ Due(R, b, j) \in Int
    BY <1>6, <2>1, PlaceInTime
  <2> HIDE DEF b, s
  <2>4. /\ Due(R, b, i) \in Int
        /\ Due(R, b, j) <= Due(R, b, i)
        /\ j > i => Due(R, b, j) + R <= Due(R, b, i)
    BY <1>1, <1>4, <2>1, <2>2, DueGrows
  <2>5. s <= Due(R, b, i) + age' /\ s <= Due(R, b, i) + R
    BY <1>3, <1>6, <2>2, <2>3, <2>4
  <2>6. QED
    BY <1>6, <2>5 DEF b, s
<1> SUFFICES ASSUME spent'[queue'[i]] # 0, queue'[i] \in S
             PROVE  OnTime(i)
  BY <1>4, <1>5
<1> HIDE DEF OnTime
<1>7. ASSUME NEW d \in Devices, AttemptEnds(d)
      PROVE  OnTime(i)
  <2>1. EndAttempt(d) /\ \A e \in Devices \ {d} : stage'[e] = stage[e]
    BY <1>7, AttemptEndsAll
  <2>2. /\ IF queue'[i] = d
             THEN spent'[d] = 0
             ELSE /\ block'[queue'[i]] = block[queue'[i]]
                  /\ spent'[queue'[i]] = spent[queue'[i]]
                  /\ \E j \in i .. Len(queue) :
                       queue[j] = queue'[i] /\ (OnTurn(d) => j > i)
        /\ age' = IF OnTurn(d) THEN 0 ELSE age
    BY <2>1, EndingAttempt
  <2>3. PICK j \in i .. Len(queue) : queue[j] = queue'[i] /\ (OnTurn(d) => j > i)
    BY <2>2
  <2>4. QED
    BY <1>6, <2>2, <2>3
<1>8. ASSUME NEW d \in Devices, Poll(d)
      PROVE  OnTime(i)
  <2>1. /\ Len(queue') = Len(queue) + 1
        /\ \A k \in 1 .. Len(queue) : queue'[k] = queue[k] /\ queue[k] # d
        /\ queue'[Len(queue')] = d
    BY <1>8, BeginningPoll
  <2>2. /\ spent' = [spent EXCEPT ![d] = 0]
        /\ block' = [block EXCEPT ![d] = 0]
        /\ age' = age
    BY <1>8 DEF Poll
  <2>3. spent'[d] = 0
    BY <2>2 DEF QueueInv
  <2>4. i \in 1 .. Len(queue) /\ i \in i .. Len(queue)
    BY <1>1, <2>1, <2>3
  <2>5. queue'[i] = queue[i] /\ queue[i] # d
    BY <2>1, <2>4
  <2>6. block'[queue[i]] = block[queue[i]] /\ spent'[queue[i]] = spent[queue[i]]
    BY <1>4, <2>2, <2>5 DEF QueueInv
  <2>7. QED
    BY <1>6, <2>2, <2>4, <2>5, <2>6
<1>9. ASSUME NEW d \in Devices, BlockAnswered(d)
      PROVE  OnTime(i)
  <2>1. /\ queue[1] = d
        /\ Len(queue) > 0 /\ Len(queue') = Len(queue)
        /\ \A k \in 1 .. Len(queue) - 1 :
             queue'[k] = queue[k + 1] /\ queue[k + 1] # d
        /\ queue'[Len(queue')] = d
    BY <1>9, AnsweringBlock
  <2>2. /\ block' = [block EXCEPT ![d] = @ + 1]
        /\ block[d] < NumBlocks - 1
        /\ spent' = spent
    BY <1>9 DEF BlockAnswered
  <2>3. CASE i = Len(queue')
    <3>1. 1 \in 1 .. Len(queue) /\ 1 \in 1 .. Holders /\ queue'[i] = d /\ d \in S
      BY <1>1, <2>1, <2>3
    <3>2. /\ spent[d] \in Int /\ Due(R, block[d], 1) \in Int
          /\ spent[d] <= Due(R, block[d], 1) + R
      BY <2>1, <3>1, PlaceInTime
    <3>3. block[d] \in 0 .. NumBlocks - 1 /\ block[d] + 1 \in 0 .. NumBlocks - 1
      BY <1>2, <2>2
    <3>4. Due(R, block[d], 1) + R <= Due(R, block[d] + 1, i)
      BY <1>1, <1>4, <3>1, <3>3, DueGrows
    <3>5. Due(R, block[d] + 1, i) \in Int
      BY <1>1, <1>4, <3>3, DueGrows
    <3>6. spent'[d] = spent[d] /\ block'[d] = block[d] + 1
      BY <2>2 DEF QueueInv
    <3>7. spent'[d] <= Due(R, block'[d], i) + age' /\ spent'[d] <= Due(R, block'[d], i) + R
      BY <1>3, <3>2, <3>4, <3>5, <3>6
    <3>8. QED
      BY <3>1, <3>7 DEF OnTime
  <2>4. CASE i # Len(queue')
    <3>1. /\ i \in 1 .. Len(queue) - 1 /\ i + 1 \in i .. Len(queue)
          /\ i + 1 \in 1 .. Len(queue) /\ i + 1 > i
      BY <1>1, <2>1, <2>4
    <3>2. /\ queue'[i] = queue[i + 1] /\ queue[i + 1] # d
          /\ block'[queue[i + 1]] = block[queue[i + 1]]
          /\ spent'[queue[i + 1]] = spent[queue[i + 1]]
      BY <2>1, <2>2, <3>1 DEF QueueInv, Typed
    <3>3. QED
      BY <1>6, <3>1, <3>2
  <2>5. QED
    BY <2>3, <2>4
<1>10. CASE Tick
  <2>1. queue' = queue
    BY <1>10, KeepingQueue
  <2>2. queue[i] \in Devices /\ Polling(queue[i]) /\ queue # <<>>
    <3>1. queue[i] \in Devices /\ queue # <<>>
      BY <2>1 DEF QueueInv, Typed
    <3>2. Contains(queue, queue[i])
      BY <2>1 DEF Contains
    <3>3. QED
      BY <3>1, <3>2 DEF QueueInv
  <2>3. spent'[queue[i]] = spent[queue[i]] + 1 /\ age' = age + 1 /\ block' = block
    BY <1>10, <2>2 DEF Tick
  <2>4. /\ spent[queue[i]] \in Int /\ Due(R, block[queue[i]], i) \in Int
        /\ spent[queue[i]] <= Due(R, block[queue[i]], i) + age
    BY <2>1, PlaceInTime
  <2>5. age' <= R
    BY <1>10, <2>1
  <2>6. QED
    BY <1>3, <2>1, <2>3, <2>4, <2>5 DEF OnTime
<1>11. ASSUME \/ \E d \in Devices : Disconnect(d) \/ Raise(d)
              \/ Send \/ IdleLinkCloses \/ LinkSticks
              \/ UNCHANGED allVars
       PROVE  OnTime(i)
  <2>1. UNCHANGED <<queue, block, spent>>
    BY <1>11 DEF Disconnect, Raise, Send, IdleLinkCloses, LinkSticks, allVars,
                 linkVars
  <2>2. age' = age
    BY <1>11 DEF Disconnect, Raise, Send, IdleLinkCloses, LinkSticks, allVars,
                 linkVars, QueueInv
  <2>3. i \in i .. Len(queue)
    BY <1>1, <2>1
  <2>4. QED
    BY <1>6, <2>1, <2>2, <2>3
<1>12. QED
  BY <1>7, <1>8, <1>9, <1>10, <1>11, LinkNextCases

(* So no attempt waits longer than every block of every holder may take, and
   none at its first block longer than a turn of every holder. *)
LEMMA AttemptInTime ==
  ASSUME IsFiniteSet(Devices), QueueInv, NEW R \in Nat, NEW S, InTime(R, S),
         NEW d \in Devices, d \in S, Polling(d)
  PROVE  /\ Holders \in Nat
         /\ spent[d] \in Int
         /\ spent[d] <= NumBlocks * Holders * R
         /\ block[d] = 0 => spent[d] <= Holders * R
<1>1. PICK i \in 1 .. Len(queue) : queue[i] = d
  BY DEF QueueInv, Contains
<1>2. /\ block[d] \in 0 .. NumBlocks - 1 /\ spent[d] \in Int
      /\ i \in 1 .. Holders /\ Holders \in Nat
      /\ Due(R, block[d], i) \in Int
      /\ spent[d] <= Due(R, block[d], i) + R
  BY <1>1, PlaceInTime
<1>3. Due(R, block[d], i) + R <= NumBlocks * Holders * R
  BY <1>2, DueGrows
<1>4. NumBlocks * Holders * R \in Int
  BY <1>2, LinkAssumption
<1>5. ASSUME block[d] = 0
      PROVE  spent[d] <= Holders * R
  <2>1. Due(R, 0, i) = R * (Holders - i)
    BY <1>2 DEF Due
  <2>2. R * ((Holders - i) + 1) <= R * Holders
    BY <1>2, ScaledOrder
  <2>3. R * ((Holders - i) + 1) = R * (Holders - i) + R /\ R * Holders = Holders * R
    BY <1>2
  <2>4. Holders * R \in Int
    BY <1>2
  <2>5. QED
    BY <1>2, <1>5, <2>1, <2>2, <2>3, <2>4
<1>6. QED
  BY <1>2, <1>3, <1>4, <1>5

(* Nor does it use up a budget that covers them, so that there is no step in
   which that budget expires. *)
LEMMA NothingExpires ==
  ASSUME QueueInv, NEW R \in Nat, BudgetCovers(R), NEW S, InTime(R, S),
         NEW d \in Devices, d \in S
  PROVE  ~BudgetExpires(d)
<1> SUFFICES ASSUME BudgetExpires(d)
             PROVE  FALSE
  OBVIOUS
<1>1. Polling(d) /\ spent[d] = Budget
  BY DEF BudgetExpires
<1>2. /\ Holders \in Nat /\ spent[d] \in Int
      /\ spent[d] <= NumBlocks * Holders * R
  BY <1>1, AttemptInTime DEF BudgetCovers
<1>3. NumBlocks * Holders * R \in Int /\ Budget \in Int
  BY <1>2, LinkAssumption
<1>4. QED
  BY <1>1, <1>2, <1>3 DEF BudgetCovers

(* Every attempt is in time in every reachable state: of turns as long as the
   request timeout whatever the device does, and of turns of R ticks if it
   answers within them. *)
LEMMA InTimeInvariant ==
  ASSUME IsFiniteSet(Devices)
  PROVE  LinkSpec => []InTime(RequestTimeout, Devices)
<1>1. RetryInv /\ QueueInv /\ QueueInv' /\ InTime(RequestTimeout, Devices)
        /\ [LinkNext]_allVars
        => InTime(RequestTimeout, Devices)'
  <2> SUFFICES ASSUME RetryInv, QueueInv, QueueInv', InTime(RequestTimeout, Devices),
                      [LinkNext]_allVars
               PROVE  InTime(RequestTimeout, Devices)'
    OBVIOUS
  <2>1. RequestTimeout \in Nat /\ age' <= RequestTimeout
    BY LinkAssumption DEF QueueInv, Typed
  <2>2. QED
    BY <2>1, InTimeNext
<1>2. LinkInit => InTime(RequestTimeout, Devices)
  BY InTimeInit
<1>3. QED
  BY <1>1, <1>2, QueueInvariant, PTL DEF LinkSpec

LEMMA AnsweredInTime ==
  ASSUME IsFiniteSet(Devices), NEW R \in Nat
  PROVE  LinkSpec /\ []AnsweredWithin(R) => []InTime(R, Devices)
<1>1. RetryInv /\ QueueInv /\ QueueInv' /\ AnsweredWithin(R)' /\ InTime(R, Devices)
        /\ [LinkNext]_allVars
        => InTime(R, Devices)'
  <2> SUFFICES ASSUME RetryInv, QueueInv, QueueInv', AnsweredWithin(R)',
                      InTime(R, Devices), [LinkNext]_allVars
               PROVE  InTime(R, Devices)'
    OBVIOUS
  <2>1. ASSUME Tick, NEW i \in 1 .. Len(queue)
        PROVE  age' <= R
    <3>1. queue # <<>>
      BY DEF QueueInv, Typed
    <3>2. wire' = "sent"
      BY <2>1, <3>1 DEF Tick
    <3>3. QED
      BY <3>2 DEF AnsweredWithin
  <2>2. QED
    BY <2>1, InTimeNext
<1>2. LinkInit => InTime(R, Devices)
  BY InTimeInit
<1>3. QED
  BY <1>1, <1>2, QueueInvariant, PTL DEF LinkSpec

(* The pacer starves nobody: whatever goes wrong, however often the others
   poll, retry, are cut or cancelled, and whatever the budget, an attempt has
   its values or its error after no more request timeouts than there are
   blocks of all holders. *)
THEOREM WaitingBounded ==
  ASSUME IsFiniteSet(Devices)
  PROVE  LinkSpec => [](\A d \in Devices :
                          Polling(d) => spent[d] <= NumBlocks * Holders * RequestTimeout)
<1>1. QueueInv /\ InTime(RequestTimeout, Devices) =>
        \A d \in Devices :
          Polling(d) => spent[d] <= NumBlocks * Holders * RequestTimeout
  <2>1. RequestTimeout \in Nat
    BY LinkAssumption
  <2>2. QED
    BY <2>1, AttemptInTime
<1>2. QED
  BY <1>1, InTimeInvariant, QueueInvariant, PTL

(* What a failed attempt adds to the failures of a poll. *)
LEMMA FailureIsAdded ==
  ASSUME RetryInv, NEW d \in Devices, NEW k \in Failures, AttemptFails(d, k)
  PROVE  /\ failures' = [failures EXCEPT ![d] = Append(@, k)]
         /\ failures'[d] = Append(failures[d], k)
         /\ Len(failures'[d]) = Len(failures[d]) + 1
<1>1. failures' = [failures EXCEPT ![d] = Append(@, k)]
  BY DEF AttemptFails, BusyRetriedOnce, EnterRetryLoop, RetryAgain,
         RetriesExhausted, RaiseAtOnce, Failed
<1>2. failures'[d] = Append(failures[d], k) /\ failures[d] \in Seq(Failures)
  BY <1>1 DEF RetryInv, TypeOK
<1>3. QED
  BY <1>1, <1>2

(* No step but an expiring budget adds one to the failures. *)
LEMMA OtherFailures ==
  ASSUME RetryInv, [LinkNext]_allVars, \A d \in Devices : ~BudgetExpires(d),
         BudgetCoversSlowBlocks
  PROVE  BudgetCoversSlowBlocks'
<1>1. ASSUME \A e \in Devices : failures'[e] \in {failures[e], <<>>}
      PROVE  BudgetCoversSlowBlocks'
  <2>1. ~Contains(<<>>, "budget")
    BY DEF Contains
  <2>2. QED
    BY <1>1, <2>1 DEF BudgetCoversSlowBlocks
<1>2. ASSUME NEW d \in Devices, NEW k \in Failures \ {"budget"}, AttemptFails(d, k)
      PROVE  BudgetCoversSlowBlocks'
  <2>1. /\ failures' = [failures EXCEPT ![d] = Append(@, k)]
        /\ failures'[d] = Append(failures[d], k)
    BY <1>2, FailureIsAdded
  <2>2. failures[d] \in Seq(Failures)
    BY DEF RetryInv, TypeOK
  <2>3. /\ Len(failures'[d]) = Len(failures[d]) + 1
        /\ \A i \in 1 .. Len(failures[d]) : failures'[d][i] = failures[d][i]
        /\ failures'[d][Len(failures[d]) + 1] = k
    BY <2>1, <2>2, AppendFailure
  <2>4. ~Contains(failures[d], "budget")
    BY DEF BudgetCoversSlowBlocks
  <2>5. ~Contains(failures'[d], "budget")
    BY <1>2, <2>2, <2>3, <2>4 DEF Contains
  <2>6. \A e \in Devices \ {d} : failures'[e] = failures[e]
    BY <2>1 DEF RetryInv, TypeOK
  <2>7. QED
    BY <2>5, <2>6 DEF BudgetCoversSlowBlocks
<1>3. {"lost", "timeout"} \subseteq Failures \ {"budget"}
      /\ {"busy", "protocol", "permanent"} \subseteq Failures \ {"budget"}
  BY DEF Failures, Busy, Transient, Permanent
<1>4. ASSUME NEW d \in Devices,
             \/ ConnectFails(d) \/ ConnectionLost(d) \/ RequestTimesOut(d)
             \/ RequestCut(d) \/ \E k \in Failures : BadReply(d, k)
      PROVE  BudgetCoversSlowBlocks'
  BY <1>2, <1>3, <1>4 DEF ConnectFails, ConnectionLost, RequestTimesOut,
                          RequestCut, BadReply
<1>5. ASSUME NEW d \in Devices,
             \/ Poll(d) \/ BlockAnswered(d) \/ UpdateDone(d) \/ Disconnect(d)
             \/ Raise(d) \/ Cancel(d)
      PROVE  BudgetCoversSlowBlocks'
  BY <1>1, <1>5 DEF Poll, StartPoll, BlockAnswered, UpdateDone, AttemptSucceeds,
                    Disconnect, DropLink, Raise, RaiseExhausted, Cancel,
                    CancelPoll, vars, RetryInv, TypeOK
<1>6. CASE Send \/ IdleLinkCloses \/ LinkSticks \/ Tick \/ UNCHANGED allVars
  BY <1>1, <1>6 DEF Send, LinkOpens, IdleLinkCloses, LinkCloses, LinkSticks,
                    Tick, allVars, vars
<1>7. QED
  BY <1>4, <1>5, <1>6 DEF LinkNext, TurnEnds

(* How far _async_update_with_timeout's comment is true.  As long as no request
   is on the wire for more than R ticks, a budget that covers a turn of R for
   every block of every holder cuts no update off, whatever else goes wrong.
   The comment says the same of R = RequestTimeout, which the 30 s cover only
   for up to two blocks of all holders together: link_slow_blocks. *)
THEOREM SufficientBudgetCovers ==
  ASSUME NEW R \in Nat, BudgetCovers(R)
  PROVE  LinkSpec /\ []AnsweredWithin(R) => []BudgetCoversSlowBlocks
<1>1. LinkInit => BudgetCoversSlowBlocks
  <2>1. ~Contains(<<>>, "budget")
    BY DEF Contains
  <2>2. LinkInit => \A d \in Devices : failures[d] = <<>>
    BY DEF LinkInit, Init
  <2>3. QED
    BY <2>1, <2>2 DEF BudgetCoversSlowBlocks
<1>2. /\ RetryInv /\ QueueInv /\ InTime(R, Devices) /\ BudgetCoversSlowBlocks
      /\ [LinkNext]_allVars
      => BudgetCoversSlowBlocks'
  BY NothingExpires, OtherFailures
<1>3. LinkSpec /\ []AnsweredWithin(R) => []InTime(R, Devices)
  BY AnsweredInTime DEF BudgetCovers
<1>4. QED
  BY <1>1, <1>2, <1>3, QueueInvariant, PTL DEF LinkSpec

-----------------------------------------------------------------------------
(* Clean polls.  What still disturbs one is the disconnect of another device,
   and only a poll that was not clean itself can be exhausted and disconnect:
   a poll that begins on a working link is cut no more often than there are
   such polls.  Each of them disconnects once, so the cuts a clean poll has
   behind it, the one that may be in store, and the polls that may still cut
   it never are more than its retries. *)

Suspects ==
  {e \in Devices : ~clean[e] /\ stage[e] \in Attempting \cup {"dropping"}}

IsCut(d) == OnTurn(d) /\ wire = "cut"

\* The cuts d has behind it, and those it may still see.
Cuts(d) == Len(failures[d]) + Cardinality(Suspects)

CleanShape(d) ==
  clean[d] =>
    /\ ~stuck
    /\ stage[d] \in {"idle", "first", "retry"}
    /\ outcome[d] \in {"none", "values"}
    /\ Cuts(d) <= TransientRetryCount
    /\ IsCut(d) => Cuts(d) < TransientRetryCount

CleanInv == \A d \in Devices : CleanShape(d)

\* As many devices as a poll may make attempts.
HoldersWithinRetries ==
  /\ IsFiniteSet(Devices)
  /\ Holders <= TransientRetryCount + 1

(* Subsets of a finite set are no larger than it, and smaller by one where
   they leave an element out. *)
LEMMA SuspectsCounted ==
  ASSUME IsFiniteSet(Devices), NEW S \in SUBSET Devices
  PROVE  /\ Cardinality(S) \in Nat
         /\ \A T \in SUBSET S : Cardinality(T) \in Nat /\ Cardinality(T) <= Cardinality(S)
         /\ \A e \in S : \A T \in SUBSET (S \ {e}) : Cardinality(T) + 1 <= Cardinality(S)
<1>1. IsFiniteSet(S) /\ Cardinality(S) \in Nat
  BY FS_Subset, FS_CardinalityType
<1>2. ASSUME NEW T \in SUBSET S
      PROVE  IsFiniteSet(T) /\ Cardinality(T) \in Nat /\ Cardinality(T) <= Cardinality(S)
  BY <1>1, FS_Subset, FS_CardinalityType
<1>3. ASSUME NEW e \in S, NEW T \in SUBSET (S \ {e})
      PROVE  Cardinality(T) + 1 <= Cardinality(S)
  <2>1. IsFiniteSet(S \ {e}) /\ Cardinality(S \ {e}) = Cardinality(S) - 1
    BY <1>1, FS_RemoveElement
  <2>2. Cardinality(T) \in Nat /\ Cardinality(T) <= Cardinality(S \ {e})
    BY <2>1, FS_Subset, FS_CardinalityType
  <2>3. QED
    BY <1>1, <2>1, <2>2
<1>4. QED
  BY <1>1, <1>2, <1>3

(* A device that nothing happens to stays clean while nobody becomes suspect. *)
LEMMA StaysClean ==
  ASSUME IsFiniteSet(Devices), RetryInv, NEW e \in Devices, CleanShape(e),
         clean'[e] => clean[e], stuck' = stuck,
         stage'[e] = stage[e], outcome'[e] = outcome[e],
         failures'[e] = failures[e], IsCut(e)' => IsCut(e),
         clean[e] => Suspects' \subseteq Suspects
  PROVE  CleanShape(e)'
<1> SUFFICES ASSUME clean'[e]
             PROVE  CleanShape(e)'
  BY DEF CleanShape
<1>1. Cardinality(Suspects) \in Nat /\ Cardinality(Suspects)' \in Nat
      /\ Cardinality(Suspects)' <= Cardinality(Suspects)
  <2>1. Suspects \in SUBSET Devices /\ Suspects' \in SUBSET Suspects
    BY DEF Suspects
  <2>2. QED
    BY <2>1, SuspectsCounted
<1>2. Len(failures[e]) \in Nat
  BY DEF RetryInv, TypeOK
<1>3. Cuts(e) \in Nat /\ Cuts(e)' \in Nat /\ Cuts(e)' <= Cuts(e)
  BY <1>1, <1>2 DEF Cuts
<1>4. Cuts(e)' <= TransientRetryCount
  BY <1>3, RetryAssumption DEF CleanShape
<1>5. IsCut(e)' => Cuts(e)' < TransientRetryCount
  BY <1>3, RetryAssumption DEF CleanShape
<1>6. QED
  BY <1>4, <1>5 DEF CleanShape

(* A fault outside this code leaves no poll clean. *)
LEMMA FaultsSpoil ==
  ASSUME NEW f, Fault(f)
  PROVE  CleanInv'
  BY DEF Fault, CleanInv, CleanShape

(* Initially no poll is clean. *)
LEMMA CleanInvInit == LinkInit => CleanInv
  BY DEF LinkInit, CleanInv, CleanShape

(* Suspects do not multiply: nobody becomes one while a poll is clean. *)
LEMMA SuspectsOnlyLeave ==
  ASSUME NEW d \in Devices,
         \A e \in Devices \ {d} : stage'[e] = stage[e] /\ clean'[e] = clean[e],
         \/ d \in Suspects
         \/ clean'[d]
         \/ stage'[d] \notin Attempting \cup {"dropping"}
  PROVE  Suspects' \subseteq Suspects
  BY DEF Suspects

(* A poll that begins is clean if the link works, and has all its retries. *)
LEMMA CleanBeginning ==
  ASSUME HoldersWithinRetries, RetryInv, QueueInv, RestTyped, CleanInv,
         NEW d \in Devices, Poll(d)
  PROVE  CleanInv'
<1>1. /\ stage' = [stage EXCEPT ![d] = "first"]
      /\ outcome' = [outcome EXCEPT ![d] = "none"]
      /\ failures' = [failures EXCEPT ![d] = <<>>]
      /\ clean' = [clean EXCEPT ![d] = ~stuck]
      /\ UNCHANGED <<wire, stuck>>
  BY DEF Poll, StartPoll
<1>2. /\ stage'[d] = "first" /\ outcome'[d] = "none" /\ failures'[d] = <<>>
      /\ clean'[d] = ~stuck
      /\ \A e \in Devices \ {d} :
           /\ stage'[e] = stage[e] /\ outcome'[e] = outcome[e]
           /\ failures'[e] = failures[e] /\ clean'[e] = clean[e]
  BY <1>1 DEF RetryInv, TypeOK, RestTyped
<1>3. \A e \in Devices : IsCut(e)' => IsCut(e) /\ e # d
  <2> SUFFICES ASSUME NEW e \in Devices, IsCut(e)'
               PROVE  IsCut(e) /\ e # d
    OBVIOUS
  <2>1. wire = "cut" /\ queue # <<>>
    BY <1>1 DEF IsCut, QueueInv
  <2>2. /\ Len(queue') = Len(queue) + 1
        /\ \A i \in 1 .. Len(queue) : queue'[i] = queue[i] /\ queue[i] # d
        /\ queue \in Seq(Devices) /\ queue' \in Seq(Devices)
    BY BeginningPoll DEF QueueInv, Typed
  <2>3. Len(queue) > 0
    BY <2>1, <2>2
  <2>4. Head(queue') = queue[1] /\ Head(queue) = queue[1] /\ queue[1] # d
    BY <2>2, <2>3
  <2>5. QED
    BY <2>1, <2>4 DEF IsCut, OnTurn
<1>4. ~stuck => Suspects' \subseteq Suspects /\ d \notin Suspects'
  BY <1>2, SuspectsOnlyLeave DEF Suspects
<1>5. ASSUME NEW e \in Devices \ {d}
      PROVE  CleanShape(e)'
  <2>1. clean[e] => ~stuck
    BY DEF CleanInv, CleanShape
  <2>2. QED
    BY <1>1, <1>2, <1>3, <1>4, <2>1, StaysClean DEF HoldersWithinRetries, CleanInv
<1>6. CleanShape(d)'
  <2> SUFFICES ASSUME clean'[d]
               PROVE  CleanShape(d)'
    BY DEF CleanShape
  <2>1. ~stuck /\ ~stuck'
    BY <1>1, <1>2
  <2>2. Cardinality(Suspects)' \in Nat /\ Cardinality(Suspects)' + 1 <= Holders
    <3>1. Suspects' \in SUBSET (Devices \ {d}) /\ IsFiniteSet(Devices)
      BY <1>4, <2>1 DEF Suspects, HoldersWithinRetries
    <3>2. Cardinality(Suspects') \in Nat /\ Cardinality(Suspects') + 1 <= Holders
      BY <3>1, SuspectsCounted DEF Holders
    <3>3. QED
      BY <3>2
  <2>3. Holders \in Nat /\ Holders <= TransientRetryCount + 1
    BY FS_CardinalityType DEF HoldersWithinRetries, Holders
  <2>4. ~IsCut(d)'
    BY <1>3
  <2>5. Cuts(d)' = Cardinality(Suspects)'
    BY <1>2, <2>2 DEF Cuts
  <2>6. Cuts(d)' <= TransientRetryCount
    BY <2>2, <2>3, <2>5, RetryAssumption
  <2>7. QED
    BY <1>2, <2>1, <2>4, <2>6 DEF CleanShape
<1>7. QED
  BY <1>5, <1>6 DEF CleanInv

(* An update that is done delivers its values. *)
LEMMA CleanDone ==
  ASSUME IsFiniteSet(Devices), RetryInv, CleanInv, NEW d \in Devices, UpdateDone(d)
  PROVE  CleanInv'
<1>1. /\ stage' = [stage EXCEPT ![d] = "idle"]
      /\ outcome' = [outcome EXCEPT ![d] = "values"]
      /\ wire' = "free"
      /\ UNCHANGED <<failures, clean, stuck>>
  BY DEF UpdateDone, AttemptSucceeds, EndAttempt, LeaveWire, OnWire
<1>2. \A e \in Devices : ~IsCut(e)'
  BY <1>1 DEF IsCut
<1>3. /\ stage'[d] = "idle" /\ outcome'[d] = "values"
      /\ \A e \in Devices \ {d} : stage'[e] = stage[e] /\ outcome'[e] = outcome[e]
  BY <1>1 DEF RetryInv, TypeOK
<1>4. Suspects' \subseteq Suspects
  BY <1>1, <1>3, SuspectsOnlyLeave DEF Attempting
<1>5. ASSUME NEW e \in Devices \ {d}
      PROVE  CleanShape(e)'
  BY <1>1, <1>2, <1>3, <1>4, StaysClean DEF CleanInv
<1>6. CleanShape(d)'
  <2> SUFFICES ASSUME clean[d]
               PROVE  CleanShape(d)'
    BY <1>1 DEF CleanShape
  <2>1. /\ Cardinality(Suspects) \in Nat /\ Cardinality(Suspects)' \in Nat
        /\ Cardinality(Suspects)' <= Cardinality(Suspects)
    <3>1. Suspects \in SUBSET Devices /\ Suspects' \in SUBSET Suspects
      BY <1>4 DEF Suspects
    <3>2. QED
      BY <3>1, SuspectsCounted
  <2>2. Len(failures[d]) \in Nat
    BY DEF RetryInv, TypeOK
  <2>3. Cuts(d)' <= TransientRetryCount /\ ~stuck
    BY <1>1, <2>1, <2>2, RetryAssumption DEF Cuts, CleanInv, CleanShape
  <2>4. QED
    BY <1>1, <1>2, <1>3, <2>3 DEF CleanShape
<1>7. QED
  BY <1>5, <1>6 DEF CleanInv

(* A clean poll that is cut makes another attempt: it has retries left. *)
LEMMA CleanCut ==
  ASSUME IsFiniteSet(Devices), RetryInv, CleanInv, NEW d \in Devices, RequestCut(d)
  PROVE  CleanInv'
<1>1. /\ AttemptFails(d, "lost")
      /\ IsCut(d)
      /\ wire' = "free"
      /\ UNCHANGED <<clean, stuck>>
  BY DEF RequestCut, EndAttempt, LeaveWire, IsCut
<1>2. "lost" \in Transient /\ "lost" \in Failures
      /\ "lost" \notin Busy /\ "lost" \notin Permanent
  BY DEF Failures, Busy, Transient, Permanent
<1>3. /\ failures'[d] = Append(failures[d], "lost")
      /\ Len(failures'[d]) = Len(failures[d]) + 1
  BY <1>1, <1>2, FailureIsAdded
<1>4. \A e \in Devices \ {d} : /\ stage'[e] = stage[e]
                               /\ outcome'[e] = outcome[e]
                               /\ failures'[e] = failures[e]
  BY <1>1, <1>2, OthersUntouched
<1>5. \A e \in Devices : ~IsCut(e)'
  BY <1>1 DEF IsCut
<1>6. stage[d] \in Attempting
  BY <1>1 DEF AttemptFails, BusyRetriedOnce, EnterRetryLoop, RetryAgain,
              RetriesExhausted, RaiseAtOnce, Failed
<1>7. Suspects' \subseteq Suspects
  <2>1. CASE clean[d]
    BY <1>1, <1>4, <2>1, SuspectsOnlyLeave
  <2>2. CASE ~clean[d]
    <3>1. d \in Suspects
      BY <1>6, <2>2 DEF Suspects
    <3>2. QED
      BY <1>1, <1>4, <3>1, SuspectsOnlyLeave
  <2>3. QED
    BY <2>1, <2>2
<1>8. ASSUME NEW e \in Devices \ {d}
      PROVE  CleanShape(e)'
  BY <1>1, <1>4, <1>5, <1>7, StaysClean DEF CleanInv
<1>9. CleanShape(d)'
  <2> SUFFICES ASSUME clean[d]
               PROVE  CleanShape(d)'
    BY <1>1 DEF CleanShape
  <2>1. /\ ~stuck /\ stage[d] \in {"first", "retry"}
        /\ outcome[d] \in {"none", "values"}
        /\ Cuts(d) < TransientRetryCount
    BY <1>1, <1>6 DEF CleanInv, CleanShape, Attempting
  <2>2. /\ Cardinality(Suspects) \in Nat /\ Cardinality(Suspects)' \in Nat
        /\ Cardinality(Suspects)' <= Cardinality(Suspects)
    <3>1. Suspects \in SUBSET Devices /\ Suspects' \in SUBSET Suspects
      BY <1>7 DEF Suspects
    <3>2. QED
      BY <3>1, SuspectsCounted
  <2>3. Len(failures[d]) \in Nat /\ Len(failures[d]) < TransientRetryCount
    BY <2>1, <2>2, RetryAssumption DEF Cuts, RetryInv, TypeOK
  <2>4. Cuts(d)' <= TransientRetryCount
    BY <1>3, <2>1, <2>2, <2>3, RetryAssumption DEF Cuts
  <2>5. stage[d] = "retry" => attempt[d] # TransientRetryCount - 1
    <3>1. stage[d] = "retry" => Len(failures[d]) = attempt[d] + 1
      BY DEF RetryInv, StageShape
    <3>2. attempt[d] \in Int
      BY DEF RetryInv, TypeOK
    <3>3. QED
      BY <2>3, <3>1, <3>2, RetryAssumption
  <2>6. EnterRetryLoop(d, "lost") \/ RetryAgain(d, "lost")
    BY <1>1, <1>2, <2>1, <2>5
    DEF AttemptFails, BusyRetriedOnce, RetriesExhausted, RaiseAtOnce
  <2>7. stage'[d] = "retry" /\ outcome'[d] = outcome[d]
    BY <2>1, <2>6 DEF EnterRetryLoop, RetryAgain, RetryInv, TypeOK
  <2>8. QED
    BY <1>1, <1>5, <2>1, <2>4, <2>7 DEF CleanShape
<1>10. QED
  BY <1>8, <1>9 DEF CleanInv

(* A disconnect cuts at most one request, and the poll that threw it is one
   suspect less. *)
LEMMA CleanDisconnect ==
  ASSUME IsFiniteSet(Devices), RetryInv, CleanInv, NEW d \in Devices, Disconnect(d)
  PROVE  CleanInv'
<1>1. /\ stage[d] = "dropping"
      /\ stage' = [stage EXCEPT ![d] = "dropped"]
      /\ UNCHANGED <<outcome, failures, clean>>
      /\ stuck' = FALSE
  BY DEF Disconnect, DropLink
<1>2. ~clean[d] /\ d \in Suspects
  BY <1>1 DEF CleanInv, CleanShape, Suspects
<1>3. \A e \in Devices \ {d} : stage'[e] = stage[e]
  BY <1>1 DEF RetryInv, TypeOK
<1>4. Suspects' \in SUBSET (Suspects \ {d}) /\ Suspects \in SUBSET Devices
  <2>1. d \notin Suspects'
    BY <1>1 DEF Suspects, Attempting, RetryInv, TypeOK
  <2>2. Suspects' \subseteq Suspects
    BY <1>1, <1>2, <1>3, SuspectsOnlyLeave
  <2>3. QED
    BY <2>1, <2>2 DEF Suspects
<1>5. /\ Cardinality(Suspects) \in Nat /\ Cardinality(Suspects)' \in Nat
      /\ Cardinality(Suspects)' + 1 <= Cardinality(Suspects)
  <2>1. Suspects' \in SUBSET Suspects
    BY <1>4
  <2>2. QED
    BY <1>2, <1>4, <2>1, SuspectsCounted
<1>6. ASSUME NEW e \in Devices, clean[e]
      PROVE  CleanShape(e)'
  <2>1. e # d /\ Len(failures[e]) \in Nat
    BY <1>2, <1>6 DEF RetryInv, TypeOK
  <2>2. Cuts(e)' < TransientRetryCount
    BY <1>1, <1>5, <1>6, <2>1, RetryAssumption DEF Cuts, CleanInv, CleanShape
  <2>3. Cuts(e)' \in Nat
    BY <1>1, <1>5, <2>1 DEF Cuts
  <2>4. Cuts(e)' <= TransientRetryCount
    BY <2>2, <2>3, RetryAssumption
  <2>5. QED
    BY <1>1, <1>3, <1>6, <2>1, <2>2, <2>4 DEF CleanInv, CleanShape
<1>7. QED
  BY <1>1, <1>6 DEF CleanInv, CleanShape

(* The other steps of the link leave clean polls as they are. *)
LEMMA CleanKept ==
  ASSUME IsFiniteSet(Devices), RetryInv, QueueInv, CleanInv,
         \/ \E d \in Devices : BlockAnswered(d) \/ Raise(d)
         \/ Send \/ Tick \/ UNCHANGED allVars
  PROVE  CleanInv'
<1>1. /\ UNCHANGED <<failures, clean, stuck>>
      /\ wire' = "cut" => wire = "cut" /\ queue' = queue
  BY DEF BlockAnswered, LeaveWire, OnWire, Raise, RaiseExhausted, Send,
         LinkOpens, Tick, allVars, linkVars, vars
<1>2. \A e \in Devices : IsCut(e)' => IsCut(e)
  BY <1>1 DEF IsCut, OnTurn
<1>3. ASSUME NEW d \in Devices, Raise(d)
      PROVE  CleanInv'
  <2>1. /\ stage[d] = "dropped"
        /\ stage' = [stage EXCEPT ![d] = "idle"]
        /\ \E o : outcome' = [outcome EXCEPT ![d] = o]
    BY <1>3 DEF Raise, RaiseExhausted
  <2>2. ~clean[d] /\ stage'[d] = "idle"
    BY <2>1 DEF CleanInv, CleanShape, RetryInv, TypeOK
  <2>3. \A e \in Devices \ {d} : stage'[e] = stage[e] /\ outcome'[e] = outcome[e]
    BY <2>1 DEF RetryInv, TypeOK
  <2>4. Suspects' \subseteq Suspects
    BY <1>1, <2>2, <2>3, SuspectsOnlyLeave DEF Attempting
  <2>5. \A e \in Devices \ {d} : CleanShape(e)'
    BY <1>1, <1>2, <2>3, <2>4, StaysClean DEF CleanInv
  <2>6. CleanShape(d)'
    BY <1>1, <2>2 DEF CleanShape
  <2>7. QED
    BY <2>5, <2>6 DEF CleanInv
<1>4. CASE (\E d \in Devices : BlockAnswered(d)) \/ Send \/ Tick \/ UNCHANGED allVars
  <2>1. UNCHANGED <<stage, outcome>>
    BY <1>4 DEF BlockAnswered, Send, LinkOpens, Tick, allVars, vars
  <2>2. Suspects' = Suspects
    BY <1>1, <2>1 DEF Suspects
  <2>3. \A e \in Devices : CleanShape(e)'
    BY <1>1, <1>2, <2>1, <2>2, StaysClean DEF CleanInv
  <2>4. QED
    BY <2>3 DEF CleanInv
<1>5. QED
  BY <1>3, <1>4

(* A poll that is given up by its budget is no longer one that may disconnect;
   where it was not clean, the clean ones are left as they are. *)
LEMMA CleanExpiry ==
  ASSUME IsFiniteSet(Devices), RetryInv, QueueInv, CleanInv,
         NEW d \in Devices, BudgetExpires(d), ~clean[d]
  PROVE  CleanInv'
<1>1. UNCHANGED <<clean, stuck>>
  BY DEF BudgetExpires
<1>2. AttemptEnds(d) /\ stage[d] \in Attempting
  BY DEF AttemptEnds, BudgetExpires, Polling
<1>3. /\ EndAttempt(d)
      /\ \A e \in Devices \ {d} : /\ stage'[e] = stage[e]
                                  /\ outcome'[e] = outcome[e]
                                  /\ failures'[e] = failures[e]
  BY <1>2, AttemptEndsAll
<1>4. /\ wire' = IF OnTurn(d) THEN "free" ELSE wire
      /\ queue # <<>> /\ ~OnTurn(d) => queue' # <<>> /\ Head(queue') = Head(queue)
  BY <1>3, EndingAttempt
<1>5. ASSUME NEW e \in Devices, IsCut(e)'
      PROVE  IsCut(e)
  <2>1. wire = "cut" /\ ~OnTurn(d) /\ queue # <<>>
    BY <1>4, <1>5 DEF IsCut, QueueInv
  <2>2. QED
    BY <1>4, <1>5, <2>1 DEF IsCut, OnTurn
<1>6. d \in Suspects
  BY <1>2 DEF Suspects
<1>7. Suspects' \subseteq Suspects
  BY <1>1, <1>3, <1>6, SuspectsOnlyLeave
<1>8. ASSUME NEW e \in Devices \ {d}
      PROVE  CleanShape(e)'
  BY <1>1, <1>3, <1>5, <1>7, StaysClean DEF CleanInv
<1>9. CleanShape(d)'
  BY <1>1 DEF CleanShape
<1>10. QED
  BY <1>8, <1>9 DEF CleanInv

\* The budget of no clean poll expires in this step.
NoCleanExpiry == \A d \in Devices : clean[d] => ~BudgetExpires(d)

(* Every other step keeps what is known of clean polls. *)
LEMMA CleanInvNext ==
  ASSUME HoldersWithinRetries, RetryInv, QueueInv, RestTyped, CleanInv,
         [LinkNext]_allVars, NoCleanExpiry
  PROVE  CleanInv'
<1>1. IsFiniteSet(Devices)
  BY DEF HoldersWithinRetries
<1>2. ASSUME NEW d \in Devices, NEW k \in Failures,
             ConnectFails(d) \/ BadReply(d, k) \/ ConnectionLost(d) \/ Cancel(d)
      PROVE  CleanInv'
  BY <1>2, FaultsSpoil DEF ConnectFails, BadReply, ConnectionLost, Cancel
<1>3. ASSUME NEW d \in Devices, RequestTimesOut(d)
      PROVE  CleanInv'
  <2>1. CASE stuck
    BY <1>3, <2>1 DEF RequestTimesOut, NoFault, CleanInv, CleanShape
  <2>2. CASE ~stuck
    BY <1>3, <2>2, FaultsSpoil DEF RequestTimesOut
  <2>3. QED
    BY <2>1, <2>2
<1>4. CASE IdleLinkCloses \/ LinkSticks
  BY <1>4, FaultsSpoil DEF IdleLinkCloses, LinkSticks
<1>5. ASSUME NEW d \in Devices, BudgetExpires(d)
      PROVE  CleanInv'
  <2>1. ~clean[d]
    BY <1>5 DEF NoCleanExpiry
  <2>2. QED
    BY <1>1, <1>5, <2>1, CleanExpiry
<1>6. ASSUME NEW d \in Devices, AttemptEnds(d)
      PROVE  CleanInv'
  <2>1. "lost" \in Failures
    BY DEF Failures, Transient
  <2>2. QED
    BY <1>1, <1>2, <1>3, <1>5, <1>6, <2>1, CleanDone, CleanCut DEF AttemptEnds
<1>7. QED
  BY <1>1, <1>4, <1>6, CleanBeginning, CleanDisconnect, CleanKept, LinkNextCases

(* Disconnects never use a poll's retries up.  Whatever the budget, the request
   timeout and the number of blocks: a poll that begins on a working link, and
   during which nothing goes wrong outside this code, delivers values, unless
   its own budget expires - for as many holders as a poll makes attempts.  So
   only time can take the values from it; how much of it the others may take
   is CleanPollsDeliver. *)
THEOREM CleanUnlessExpired ==
  ASSUME HoldersWithinRetries
  PROVE  LinkSpec /\ [][NoCleanExpiry]_allVars => []CleanPollDelivers
<1>1. /\ RetryInv /\ QueueInv /\ RestTyped /\ CleanInv
      /\ [LinkNext]_allVars /\ [NoCleanExpiry]_allVars
      => CleanInv'
  <2> SUFFICES ASSUME RetryInv, QueueInv, RestTyped, CleanInv,
                      [LinkNext]_allVars, [NoCleanExpiry]_allVars
               PROVE  CleanInv'
    OBVIOUS
  <2>1. CASE NoCleanExpiry
    BY <2>1, CleanInvNext
  <2>2. CASE UNCHANGED allVars
    <3>1. IsFiniteSet(Devices)
      BY DEF HoldersWithinRetries
    <3>2. QED
      BY <2>2, <3>1, CleanKept
  <2>3. QED
    BY <2>1, <2>2
<1>2. CleanInv => CleanPollDelivers
  BY DEF CleanInv, CleanShape, CleanPollDelivers
<1>3. QED
  BY <1>1, <1>2, CleanInvInit, QueueInvariant, PTL DEF LinkSpec

CleanOnes == {d \in Devices : clean[d]}

\* While a clean poll is under way, no request is on the wire for more than R
\* ticks.  For R = RequestTimeout that is always so.
CleanAnsweredWithin(R) ==
  (\E d \in CleanOnes : Polling(d)) => AnsweredWithin(R)

(* Who is clean after a step was so before it, or its poll just begins. *)
LEMMA CleanBegins ==
  ASSUME QueueInv, RestTyped, [LinkNext]_allVars,
         NEW d \in Devices, clean'[d]
  PROVE  clean[d] \/ spent'[d] = 0
<1>1. ASSUME NEW f, Fault(f)
      PROVE  FALSE
  BY <1>1 DEF Fault
<1>2. ASSUME NEW e \in Devices, Poll(e)
      PROVE  clean[d] \/ spent'[d] = 0
  BY <1>2 DEF Poll, QueueInv, RestTyped
<1>3. ASSUME NEW e \in Devices,
             \/ BlockAnswered(e) \/ UpdateDone(e) \/ RequestCut(e)
             \/ BudgetExpires(e) \/ Disconnect(e) \/ Raise(e)
      PROVE  clean' = clean
  BY <1>3 DEF BlockAnswered, UpdateDone, RequestCut, BudgetExpires, Disconnect,
              Raise, linkVars
<1>4. ASSUME NEW e \in Devices,
             \/ ConnectFails(e) \/ ConnectionLost(e) \/ RequestTimesOut(e)
             \/ Cancel(e) \/ \E k \in Failures : BadReply(e, k)
      PROVE  clean' = clean
  BY <1>1, <1>4 DEF ConnectFails, BadReply, ConnectionLost, RequestTimesOut,
                    Cancel, NoFault
<1>5. CASE Send \/ IdleLinkCloses \/ LinkSticks \/ Tick \/ UNCHANGED allVars
  BY <1>1, <1>5 DEF Send, IdleLinkCloses, LinkSticks, Tick, allVars, linkVars
<1>6. QED
  BY <1>2, <1>3, <1>4, <1>5 DEF LinkNext, TurnEnds

(* Clean polls are in time by the answers given while one is under way. *)
LEMMA CleanInTimeNext ==
  ASSUME IsFiniteSet(Devices), RetryInv, QueueInv, QueueInv', RestTyped,
         [LinkNext]_allVars, NEW R \in Nat, InTime(R, CleanOnes),
         CleanAnsweredWithin(R)'
  PROVE  InTime(R, CleanOnes)'
<1>1. PICK S : S = CleanOnes
  OBVIOUS
<1>2. PICK S2 : S2 = {d \in Devices : clean'[d]}
  OBVIOUS
<1>3. InTime(R, S)
  BY <1>1 DEF InTime
<1>4. \A d \in Devices : d \in S2 => d \in S \/ spent'[d] = 0
  BY <1>1, <1>2, CleanBegins DEF CleanOnes
<1>5. ASSUME Tick, NEW i \in 1 .. Len(queue), queue[i] \in S2
      PROVE  age' <= R
  <2>1. PICK d : d = queue[i]
    OBVIOUS
  <2>2. d \in Devices /\ Contains(queue, d) /\ queue # <<>>
    BY <2>1 DEF Contains, QueueInv, Typed
  <2>3. Polling(d)'
    <3>1. Polling(d)
      BY <2>2 DEF QueueInv
    <3>2. stage' = stage
      BY <1>5 DEF Tick, vars
    <3>3. QED
      BY <3>1, <3>2 DEF Polling
  <2>4. AnsweredWithin(R)'
    BY <1>2, <1>5, <2>1, <2>2, <2>3 DEF CleanAnsweredWithin, CleanOnes
  <2>5. wire' = "sent"
    BY <1>5, <2>2 DEF Tick
  <2>6. QED
    BY <2>4, <2>5 DEF AnsweredWithin
<1>6. InTime(R, S2)'
  BY <1>3, <1>4, <1>5, InTimeNext
<1>7. QED
  BY <1>2, <1>6 DEF InTime, CleanOnes

(* A poll that begins on a working link delivers values unless something goes
   wrong outside this code: for as many holders as a poll makes attempts, and
   a device that answers, while such a poll is under way, fast enough for the
   budget to cover the blocks of all (0.6 s where three read sixteen blocks in
   30 s).  What it does at other times - stay silent until requests time out,
   stick - does not matter, nor what the other polls, retries and disconnects
   do at any time. *)
THEOREM CleanPollsDeliver ==
  ASSUME HoldersWithinRetries, NEW R \in Nat, BudgetCovers(R)
  PROVE  LinkSpec /\ []CleanAnsweredWithin(R) => []CleanPollDelivers
<1>1. /\ RetryInv /\ QueueInv /\ QueueInv' /\ RestTyped /\ [LinkNext]_allVars
      /\ InTime(R, CleanOnes) /\ CleanAnsweredWithin(R)'
      => InTime(R, CleanOnes)'
  BY CleanInTimeNext DEF HoldersWithinRetries
<1>2. LinkInit => InTime(R, CleanOnes)
  BY DEF LinkInit, InTime
<1>3. QueueInv /\ InTime(R, CleanOnes) => [NoCleanExpiry]_allVars
  <2> SUFFICES ASSUME QueueInv, InTime(R, CleanOnes), NEW d \in Devices, clean[d]
               PROVE  ~BudgetExpires(d)
    BY DEF NoCleanExpiry
  <2>1. PICK S : S = CleanOnes
    OBVIOUS
  <2>2. InTime(R, S) /\ d \in S
    BY <2>1 DEF InTime, CleanOnes
  <2>3. QED
    BY <2>2, NothingExpires
<1>4. QED
  BY <1>1, <1>2, <1>3, CleanUnlessExpired, QueueInvariant, PTL DEF LinkSpec

-----------------------------------------------------------------------------
(* How an attempt comes to its end.  That time passes, requests are sent and
   turns end is a matter of fairness, which TLC checks (ImplementsRetry); that
   no more than a bounded number of them lies before an attempt, whatever the
   others do, is one of the queue alone. *)

PlaceIn(q, d) == CHOOSE i \in 1 .. Len(q) : q[i] = d

\* The steps the turn on the wire has before it, at most: to be sent, to be
\* waited for until the request times out, to end.
TurnOf(w, a) ==
  IF w = "sent" THEN RequestTimeout + 1 - a
  ELSE IF w = "free" THEN RequestTimeout + 2
  ELSE 0

TurnLeft == TurnOf(wire, age)

\* What is left of d's attempt: its blocks, the turns up to its own, the turn.
AttemptRest(d) == <<NumBlocks - block[d], PlaceIn(queue, d), TurnLeft>>

Below(r, s) ==
  \/ r[1] < s[1]
  \/ r[1] = s[1] /\ r[2] < s[2]
  \/ r[1] = s[1] /\ r[2] = s[2] /\ r[3] < s[3]

TurnMoves == Tick \/ Send \/ \E e \in Devices : TurnEnds(e)

\* What a step may do to the attempt of d: end it, which uses up one of the
\* poll's own steps, or bring it nearer its end, or leave it where it is.
AttemptGetsOn(d) ==
  Polling(d) =>
    \/ StepsLeft(d)' < StepsLeft(d)
    \/ /\ StepsLeft(d)' = StepsLeft(d)
       /\ \/ Below(AttemptRest(d)', AttemptRest(d))
          \/ AttemptRest(d)' = AttemptRest(d) /\ ~TurnMoves

(* In a queue that holds everybody once, each has one place. *)
LEMMA PlaceFound ==
  ASSUME NEW q \in Seq(Devices), OnceEach(q), NEW i \in 1 .. Len(q)
  PROVE  PlaceIn(q, q[i]) = i
<1>1. \E k \in 1 .. Len(q) : q[k] = q[i]
  OBVIOUS
<1>2. PlaceIn(q, q[i]) \in 1 .. Len(q) /\ q[PlaceIn(q, q[i])] = q[i]
  BY <1>1 DEF PlaceIn
<1>3. QED
  BY <1>2 DEF OnceEach

(* What is left of a turn is a number of steps. *)
LEMMA TurnTyped ==
  ASSUME NEW q, NEW w, NEW a, Typed(q, w, a)
  PROVE  TurnOf(w, a) \in 0 .. RequestTimeout + 2
  BY LinkAssumption DEF Typed, TurnOf

LEMMA TurnCounted ==
  /\ QueueInv  => TurnLeft  \in 0 .. RequestTimeout + 2
  /\ QueueInv' => TurnLeft' \in 0 .. RequestTimeout + 2
  BY TurnTyped DEF QueueInv, TurnLeft

(* What is left of an attempt is bounded: its blocks, a turn of every holder,
   the time of one turn. *)
LEMMA AttemptBounded ==
  ASSUME IsFiniteSet(Devices), QueueInv, NEW d \in Devices, Polling(d)
  PROVE  AttemptRest(d) \in (1 .. NumBlocks) \X (1 .. Holders) \X (0 .. RequestTimeout + 2)
<1> USE LinkAssumption
<1>1. PICK i \in 1 .. Len(queue) : queue[i] = d
  BY DEF QueueInv, Contains
<1>2. PlaceIn(queue, d) = i
  BY <1>1, PlaceFound DEF QueueInv, Typed
<1>3. Holders \in Nat /\ Len(queue) \in Nat /\ Len(queue) <= Holders
  BY QueueLength DEF QueueInv, Typed
<1>4. NumBlocks - block[d] \in 1 .. NumBlocks
  BY DEF QueueInv
<1>5. TurnLeft \in 0 .. RequestTimeout + 2
  BY TurnCounted
<1>6. QED
  BY <1>1, <1>2, <1>3, <1>4, <1>5 DEF AttemptRest

(* One attempt before and after a step: it is nearer its end if it has a block
   more behind it, or somebody less before it, or less of the turn. *)
LEMMA AttemptCompared ==
  ASSUME QueueInv, QueueInv', NEW d \in Devices,
         NEW j \in 1 .. Len(queue), queue[j] = d,
         NEW i \in 1 .. Len(queue'), queue'[i] = d,
         \/ block'[d] > block[d]
         \/ /\ block'[d] = block[d]
            /\ i < j \/ (i = j /\ TurnLeft' <= TurnLeft)
  PROVE  /\ \/ Below(AttemptRest(d)', AttemptRest(d))
            \/ AttemptRest(d)' = AttemptRest(d)
         /\ block'[d] > block[d] \/ i < j \/ TurnLeft' < TurnLeft =>
              Below(AttemptRest(d)', AttemptRest(d))
<1> USE LinkAssumption
<1>1. PlaceIn(queue, d) = j
  BY PlaceFound DEF QueueInv, Typed
<1>2. PlaceIn(queue', d) = i
  BY PlaceFound DEF QueueInv, Typed
<1>3. AttemptRest(d) = <<NumBlocks - block[d], j, TurnLeft>>
  BY <1>1 DEF AttemptRest
<1>4. AttemptRest(d)' = <<NumBlocks - block'[d], i, TurnLeft'>>
  BY <1>2 DEF AttemptRest
<1>5. block[d] \in Nat /\ block'[d] \in Nat /\ NumBlocks \in Nat
  BY DEF QueueInv
<1>6. TurnLeft \in Nat /\ TurnLeft' \in Nat
  BY TurnCounted
<1>7. i \in Nat /\ j \in Nat
  OBVIOUS
<1>8. QED
  BY <1>3, <1>4, <1>5, <1>6, <1>7 DEF Below

(* The end of another device's attempt: d stays in the queue, moves up if the
   other one was before it, and finds the turn as it was if not. *)
LEMMA OthersEnd ==
  ASSUME RetryInv, QueueInv, NEW d \in Devices, Polling(d),
         NEW e \in Devices \ {d}, AttemptEnds(e)
  PROVE  /\ \/ Below(AttemptRest(d)', AttemptRest(d))
            \/ AttemptRest(d)' = AttemptRest(d)
         /\ OnTurn(e) => Below(AttemptRest(d)', AttemptRest(d))
<1>1. /\ EndAttempt(e)
      /\ \A x \in Devices \ {e} : stage'[x] = stage[x]
  BY AttemptEndsAll
<1>2. /\ QueueInv'
      /\ \A i \in 1 .. Len(queue') :
           queue'[i] # e =>
             /\ block'[queue'[i]] = block[queue'[i]]
             /\ \E j \in i .. Len(queue) :
                  queue[j] = queue'[i] /\ (OnTurn(e) => j > i)
      /\ age' = IF OnTurn(e) THEN 0 ELSE age
      /\ wire' = IF OnTurn(e) THEN "free" ELSE wire
  BY <1>1, EndingAttempt
<1>3. Polling(d)'
  BY <1>1 DEF Polling
<1>4. PICK i \in 1 .. Len(queue') : queue'[i] = d
  BY <1>2, <1>3 DEF QueueInv, Contains
<1>5. PICK j \in i .. Len(queue) : queue[j] = d /\ (OnTurn(e) => j > i)
  BY <1>2, <1>4
<1>6. block'[d] = block[d]
  BY <1>2, <1>4
<1>7. j \in 1 .. Len(queue) /\ i <= j
  BY <1>4, <1>5
<1>8. CASE OnTurn(e)
  <2>1. block'[d] = block[d] /\ i < j
    BY <1>5, <1>6, <1>7, <1>8
  <2>2. QED
    BY <1>2, <1>4, <1>5, <1>7, <2>1, AttemptCompared
<1>9. CASE ~OnTurn(e)
  <2>1. TurnLeft' = TurnLeft /\ TurnLeft \in Nat
    BY <1>2, <1>9, LinkAssumption DEF TurnLeft, TurnOf, QueueInv, Typed
  <2>2. block'[d] = block[d] /\ (i < j \/ (i = j /\ TurnLeft' <= TurnLeft))
    BY <1>6, <1>7, <2>1
  <2>3. QED
    BY <1>2, <1>4, <1>5, <1>7, <1>9, <2>2, AttemptCompared
<1>10. QED
  BY <1>8, <1>9

(* An answered block is progress for everybody: for its device, and for those
   behind it in the queue. *)
LEMMA AnswersMoveAll ==
  ASSUME QueueInv, NEW d \in Devices, Polling(d),
         NEW e \in Devices, BlockAnswered(e)
  PROVE  Below(AttemptRest(d)', AttemptRest(d))
<1>1. /\ QueueInv'
      /\ queue[1] = e
      /\ Len(queue) > 0 /\ Len(queue') = Len(queue)
      /\ \A i \in 1 .. Len(queue) - 1 : queue'[i] = queue[i + 1]
      /\ queue'[Len(queue')] = e
  BY AnsweringBlock
<1>2. block' = [block EXCEPT ![e] = @ + 1]
  BY DEF BlockAnswered
<1>3. PICK j \in 1 .. Len(queue) : queue[j] = d
  BY DEF QueueInv, Contains
<1>4. CASE d = e
  <2>1. block'[d] > block[d]
    BY <1>2, <1>4 DEF QueueInv
  <2>2. Len(queue') \in 1 .. Len(queue') /\ queue'[Len(queue')] = d
    BY <1>1, <1>4
  <2>3. QED
    BY <1>1, <1>3, <2>1, <2>2, AttemptCompared
<1>5. CASE d # e
  <2>1. j # 1
    BY <1>1, <1>3, <1>5
  <2>2. j - 1 \in 1 .. Len(queue') /\ queue'[j - 1] = d /\ j - 1 < j
    BY <1>1, <1>3, <2>1
  <2>3. block'[d] = block[d] /\ j - 1 < j
    BY <1>2, <1>5, <2>2 DEF QueueInv
  <2>4. QED
    BY <1>1, <1>3, <2>2, <2>3, AttemptCompared
<1>6. QED
  BY <1>4, <1>5

(* A poll that begins queues up behind the others. *)
LEMMA BeginningsWait ==
  ASSUME RetryInv, QueueInv, NEW d \in Devices, Polling(d),
         NEW e \in Devices, Poll(e)
  PROVE  \/ Below(AttemptRest(d)', AttemptRest(d))
         \/ AttemptRest(d)' = AttemptRest(d)
<1>1. /\ QueueInv'
      /\ Len(queue') = Len(queue) + 1
      /\ \A i \in 1 .. Len(queue) : queue'[i] = queue[i] /\ queue[i] # e
  BY BeginningPoll
<1>2. PICK j \in 1 .. Len(queue) : queue[j] = d
  BY DEF QueueInv, Contains
<1>3. d # e /\ j \in 1 .. Len(queue') /\ queue'[j] = d
  BY <1>1, <1>2
<1>4. block'[d] = block[d]
  BY <1>3 DEF Poll, QueueInv
<1>5. TurnLeft' = TurnLeft /\ TurnLeft \in Nat
  BY LinkAssumption DEF Poll, TurnLeft, TurnOf, QueueInv, Typed
<1>6. j = j /\ TurnLeft' <= TurnLeft
  BY <1>5
<1>7. QED
  BY <1>1, <1>2, <1>3, <1>4, <1>6, AttemptCompared

(* Where the queue stays as it is, the turn gets on: with the request that is
   sent, with the time it waits, with the disconnect that cuts it. *)
LEMMA TurnsGetOn ==
  ASSUME RetryInv, QueueInv, NEW d \in Devices, Polling(d),
         \/ \E e \in Devices : Disconnect(e) \/ Raise(e)
         \/ Send \/ IdleLinkCloses \/ LinkSticks \/ Tick
         \/ UNCHANGED allVars
  PROVE  /\ \/ Below(AttemptRest(d)', AttemptRest(d))
            \/ AttemptRest(d)' = AttemptRest(d)
         /\ Send \/ Tick => Below(AttemptRest(d)', AttemptRest(d))
<1> USE LinkAssumption
<1>1. QueueInv' /\ queue' = queue
  BY KeepingQueue
<1>2. PICK j \in 1 .. Len(queue) : queue[j] = d
  BY DEF QueueInv, Contains
<1>3. j \in 1 .. Len(queue') /\ queue'[j] = d /\ queue # <<>>
  BY <1>1, <1>2 DEF QueueInv, Typed
<1>4. block'[d] = block[d]
  BY DEF Disconnect, Raise, Send, IdleLinkCloses, LinkSticks, Tick, allVars,
         linkVars
<1>5. /\ TurnLeft \in Nat /\ TurnLeft' \in Nat
      /\ age \in 0 .. RequestTimeout
  <2>1. TurnLeft \in 0 .. RequestTimeout + 2 /\ TurnLeft' \in 0 .. RequestTimeout + 2
    BY <1>1, TurnCounted
  <2>2. age \in 0 .. RequestTimeout
    BY DEF QueueInv, Typed
  <2>3. QED
    BY <2>1, <2>2
<1>6. ASSUME NEW e \in Devices, Disconnect(e)
      PROVE  TurnLeft' <= TurnLeft
  BY <1>5, <1>6 DEF Disconnect, TurnLeft, TurnOf
<1>7. CASE Send
  <2>1. TurnLeft' < TurnLeft
    BY <1>5, <1>7 DEF Send, TurnLeft, TurnOf
  <2>2. QED
    BY <1>1, <1>2, <1>3, <1>4, <1>5, <2>1, AttemptCompared
<1>8. CASE Tick
  <2>1. TurnLeft' < TurnLeft
    BY <1>3, <1>5, <1>8 DEF Tick, TurnLeft, TurnOf
  <2>2. QED
    BY <1>1, <1>2, <1>3, <1>4, <1>5, <2>1, AttemptCompared
<1>9. ASSUME UNCHANGED <<wire, age>>
      PROVE  TurnLeft' = TurnLeft
  BY <1>9 DEF TurnLeft, TurnOf
<1>10. CASE ~Send /\ ~Tick
  <2>1. TurnLeft' <= TurnLeft
    BY <1>5, <1>6, <1>9, <1>10
       DEF Raise, IdleLinkCloses, LinkSticks, allVars, linkVars
  <2>2. QED
    BY <1>1, <1>2, <1>3, <1>4, <1>10, <2>1, AttemptCompared
<1>11. QED
  BY <1>7, <1>8, <1>10

(* The end of the attempt itself uses up a step of its poll. *)
LEMMA OwnEnd ==
  ASSUME RetryInv, NEW d \in Devices, Polling(d), AttemptEnds(d)
  PROVE  StepsLeft(d)' < StepsLeft(d)
<1>1. {"budget", "lost", "permanent", "timeout"} \subseteq Failures
  BY DEF Failures, Transient, Permanent
<1>2. \/ AttemptSucceeds(d)
      \/ \E k \in Failures : AttemptFails(d, k)
      \/ CancelPoll(d)
  BY <1>1 DEF AttemptEnds, UpdateDone, ConnectFails, BadReply, ConnectionLost,
         RequestTimesOut, RequestCut, BudgetExpires, Cancel
<1>3. CASE CancelPoll(d)
  <2>1. stage'[d] = "idle" /\ stage[d] # "idle"
    BY <1>3 DEF CancelPoll, RetryInv, TypeOK
  <2>2. StepsLeft(d)' = 0
    BY <2>1 DEF StepsLeft
  <2>3. StepsLeft(d) \in Nat /\ StepsLeft(d) # 0
    BY <2>1, StepsCounted, RetryAssumption DEF RetryInv
  <2>4. QED
    BY <2>2, <2>3
<1>4. CASE ~CancelPoll(d)
  BY <1>2, <1>4, StepUsesStep DEF Step, RetryInv
<1>5. QED
  BY <1>3, <1>4

(* What a turn that ends is: a block that was answered, or an end. *)
LEMMA TurnsEnd ==
  ASSUME NEW e \in Devices, TurnEnds(e)
  PROVE  BlockAnswered(e) \/ (AttemptEnds(e) /\ OnTurn(e))
  BY DEF TurnEnds, AttemptEnds, UpdateDone, RequestTimesOut, RequestCut, OnWire

(* Every step of the link, for one attempt under way. *)
LEMMA EveryStepGetsOn ==
  ASSUME RetryInv, QueueInv, [LinkNext]_allVars, NEW d \in Devices
  PROVE  AttemptGetsOn(d)
<1> SUFFICES ASSUME Polling(d)
             PROVE  \/ StepsLeft(d)' < StepsLeft(d)
                    \/ /\ StepsLeft(d)' = StepsLeft(d)
                       /\ \/ Below(AttemptRest(d)', AttemptRest(d))
                          \/ AttemptRest(d)' = AttemptRest(d) /\ ~TurnMoves
  BY DEF AttemptGetsOn
<1>1. StepsLeft(d)' < StepsLeft(d) \/ StepsLeft(d)' = StepsLeft(d)
  <2>1. stage[d] # "idle"
    BY DEF Polling, Attempting
  <2>2. StepsLeft(d)' <= StepsLeft(d)
    BY <2>1, LinkStepsAreRetrySteps, OthersAddNoSteps
  <2>3. RetryInv'
    BY LinkStepsAreRetrySteps, RetryInvNext
  <2>4. stage'[d] \in Stages /\ attempt'[d] \in 0 .. TransientRetryCount - 1
    BY <2>3 DEF RetryInv, TypeOK
  <2>5. StepsLeft(d)' \in Nat
    BY <2>4, RetryAssumption DEF StepsLeft
  <2>6. StepsLeft(d) \in Nat
    BY StepsCounted, RetryAssumption DEF RetryInv
  <2>7. QED
    BY <2>2, <2>5, <2>6
<1> SUFFICES ASSUME ~(StepsLeft(d)' < StepsLeft(d))
             PROVE  \/ Below(AttemptRest(d)', AttemptRest(d))
                    \/ AttemptRest(d)' = AttemptRest(d) /\ ~TurnMoves
  BY <1>1
<1>2. ~AttemptEnds(d)
  BY OwnEnd
<1>3. CASE TurnMoves
  <2>1. ASSUME NEW e \in Devices, TurnEnds(e)
        PROVE  Below(AttemptRest(d)', AttemptRest(d))
    <3>1. BlockAnswered(e) \/ (AttemptEnds(e) /\ OnTurn(e))
      BY <2>1, TurnsEnd
    <3>2. CASE BlockAnswered(e)
      BY <3>2, AnswersMoveAll
    <3>3. CASE AttemptEnds(e) /\ OnTurn(e)
      <4>1. e \in Devices \ {d}
        BY <1>2, <3>3
      <4>2. QED
        BY <3>3, <4>1, OthersEnd
    <3>4. QED
      BY <3>1, <3>2, <3>3
  <2>2. Send \/ Tick => Below(AttemptRest(d)', AttemptRest(d))
    BY TurnsGetOn
  <2>3. QED
    BY <1>3, <2>1, <2>2 DEF TurnMoves
<1>4. CASE ~TurnMoves
  <2>1. ASSUME NEW e \in Devices, AttemptEnds(e)
        PROVE  \/ Below(AttemptRest(d)', AttemptRest(d))
               \/ AttemptRest(d)' = AttemptRest(d)
    <3>1. e \in Devices \ {d}
      BY <1>2, <2>1
    <3>2. QED
      BY <2>1, <3>1, OthersEnd
  <2>2. \/ Below(AttemptRest(d)', AttemptRest(d))
        \/ AttemptRest(d)' = AttemptRest(d)
    BY <2>1, AnswersMoveAll, BeginningsWait, TurnsGetOn, LinkNextCases
  <2>3. QED
    BY <1>4, <2>2
<1>5. QED
  BY <1>3, <1>4

(* The safety core of ImplementsRetry, which UpdateRetry assumes when it calls
   its steps fair: between two of the poll's own steps there is a bounded
   measure - blocks left, place in the queue, what is left of the turn - that
   no step of anybody raises, and that every tick, every request sent and
   every turn that ends, d's own or another's, lowers.  New polls, retries and
   disconnects of the other devices never put an attempt back. *)
THEOREM AttemptsRunOut ==
  ASSUME IsFiniteSet(Devices)
  PROVE  LinkSpec =>
           /\ [](\A d \in Devices :
                   Polling(d) => AttemptRest(d) \in (1 .. NumBlocks) \X (1 .. Holders)
                                                      \X (0 .. RequestTimeout + 2))
           /\ [][\A d \in Devices : AttemptGetsOn(d)]_allVars
<1>1. QueueInv =>
        \A d \in Devices :
          Polling(d) => AttemptRest(d) \in (1 .. NumBlocks) \X (1 .. Holders)
                                             \X (0 .. RequestTimeout + 2)
  BY AttemptBounded
<1>2. RetryInv /\ QueueInv /\ [LinkNext]_allVars
        => [\A d \in Devices : AttemptGetsOn(d)]_allVars
  BY EveryStepGetsOn
<1>3. QED
  BY <1>1, <1>2, QueueInvariant, PTL DEF LinkSpec

-----------------------------------------------------------------------------
(* A link that has stopped answering.  Only a poll that runs out of retries
   replaces it (StuckLinkReplaced, which fails where the budget ends the polls
   before that: link_three_holders). *)

\* Where a poll is that has neither had a busy reply nor dropped the link.
Suspecting == {"first", "retry", "dropping"}

(* A transient failure leads on, to a retry or to the disconnect. *)
LEMMA TransientLeadsOn ==
  ASSUME RetryInv, NEW d \in Devices, stage[d] \in Suspecting,
         AttemptFails(d, "timeout") \/ AttemptFails(d, "lost")
  PROVE  stage'[d] # "idle"
<1>1. \A k \in {"timeout", "lost"} : k \notin Busy /\ k \in Transient /\ k \notin Permanent
  BY DEF Busy, Transient, Permanent
<1>2. PICK k \in {"timeout", "lost"} : AttemptFails(d, k)
  OBVIOUS
<1>3. ~BusyRetriedOnce(d, k) /\ ~RaiseAtOnce(d, k)
  BY <1>1 DEF BusyRetriedOnce, RaiseAtOnce, Suspecting
<1>4. \/ stage' = [stage EXCEPT ![d] = "retry"]
      \/ stage' = [stage EXCEPT ![d] = "dropping"]
      \/ stage' = stage
  BY <1>2, <1>3 DEF AttemptFails, EnterRetryLoop, RetryAgain, RetriesExhausted
<1>5. QED
  BY <1>4 DEF Suspecting, RetryInv, TypeOK

(* What a step that ends such a poll of d is, while the link stays stuck. *)
LEMMA StuckEndings ==
  ASSUME RetryInv, QueueInv, [LinkNext]_allVars,
         NEW d \in Devices, stuck, stuck',
         stage[d] \in Suspecting, stage'[d] = "idle"
  PROVE  BudgetExpires(d) \/ \E f : Fault(f)
<1>1. stage'[d] # stage[d]
  BY DEF Suspecting
<1>2. ASSUME NEW e \in Devices, AttemptEnds(e)
      PROVE  BudgetExpires(d) \/ \E f : Fault(f)
  <2>1. e = d
    BY <1>1, <1>2, AttemptEndsAll
  <2>2. ~UpdateDone(d) /\ ~(\E k \in Failures : BadReply(d, k))
    BY DEF UpdateDone, BadReply
  <2>3. ~RequestTimesOut(d) /\ ~RequestCut(d)
    BY TransientLeadsOn DEF RequestTimesOut, RequestCut
  <2>4. BudgetExpires(d) \/ ConnectFails(d) \/ ConnectionLost(d) \/ Cancel(d)
    BY <1>2, <2>1, <2>2, <2>3 DEF AttemptEnds
  <2>5. QED
    BY <2>4 DEF ConnectFails, ConnectionLost, Cancel
<1>3. ASSUME NEW e \in Devices, Poll(e) \/ Raise(e)
      PROVE  FALSE
  <2>1. stage[e] \in {"idle", "dropped"} /\ \E t \in {"first", "idle"} : stage' = [stage EXCEPT ![e] = t]
    BY <1>3 DEF Poll, StartPoll, Raise, RaiseExhausted
  <2>2. e # d
    BY <2>1 DEF Suspecting
  <2>3. stage'[d] = stage[d]
    BY <2>1, <2>2 DEF RetryInv, TypeOK
  <2>4. QED
    BY <1>1, <2>3
<1>4. ASSUME NEW e \in Devices, Disconnect(e)
      PROVE  FALSE
  BY <1>4 DEF Disconnect
<1>5. ASSUME NEW e \in Devices, BlockAnswered(e)
      PROVE  FALSE
  BY <1>5 DEF BlockAnswered
<1>6. CASE Send \/ IdleLinkCloses \/ LinkSticks \/ Tick \/ UNCHANGED allVars
  <2>1. stage' = stage
    BY <1>6 DEF Send, LinkOpens, IdleLinkCloses, LinkCloses, LinkSticks, Tick,
                allVars, vars
  <2>2. QED
    BY <1>1, <2>1
<1>7. QED
  BY <1>2, <1>3, <1>4, <1>5, <1>6, LinkNextCases

\* What may happen to such a poll of d while the link stays stuck.
GoesOnToDisconnect(d) ==
  stuck /\ stuck' =>
    /\ block[d] = 0 => block'[d] = 0
    /\ stage[d] \in Suspecting /\ stage'[d] = "idle" =>
         \/ faults' # faults
         \/ BudgetExpires(d) /\ (block[d] = 0 => Budget <= Holders * RequestTimeout)

(* The safety core of StuckLinkReplaced, for every number of blocks and every
   budget: on a link that has stopped answering, and until it is replaced, a
   poll that has not had a busy reply goes on to its disconnect unless
   something goes wrong outside this code (a cancellation, a lost connection)
   or its budget expires; and the budget of an attempt that begins on the stuck
   link, which answers it no block, can only expire where it is no longer than
   a request timeout of every holder.  At the code's 30 s and 10 s that takes
   three holders, and the run link_three_holders shows that three are enough:
   for one and two every retry of the poll ends by its request timeout.  Its
   turns and steps before the disconnect are bounded by AttemptsRunOut and
   PollsRunOut. *)
THEOREM StuckPollsGoOn ==
  ASSUME IsFiniteSet(Devices)
  PROVE  LinkSpec => [][\A d \in Devices : GoesOnToDisconnect(d)]_allVars
<1>1. /\ RetryInv /\ QueueInv /\ RestTyped /\ InTime(RequestTimeout, Devices)
      /\ [LinkNext]_allVars
      => [\A d \in Devices : GoesOnToDisconnect(d)]_allVars
  <2> SUFFICES ASSUME RetryInv, QueueInv, RestTyped, InTime(RequestTimeout, Devices),
                      [LinkNext]_allVars, NEW d \in Devices, stuck, stuck'
               PROVE  /\ block[d] = 0 => block'[d] = 0
                      /\ stage[d] \in Suspecting /\ stage'[d] = "idle" =>
                           \/ faults' # faults
                           \/ /\ BudgetExpires(d)
                              /\ block[d] = 0 => Budget <= Holders * RequestTimeout
    BY DEF GoesOnToDisconnect
  <2>1. ASSUME block[d] = 0
        PROVE  block'[d] = 0
    <3>1. ASSUME NEW e \in Devices, AttemptEnds(e)
          PROVE  block'[d] = 0
      <4>1. block' = [block EXCEPT ![e] = 0]
        BY <3>1, AttemptEndsAll DEF EndAttempt
      <4>2. QED
        BY <2>1, <4>1 DEF QueueInv
    <3>2. ASSUME NEW e \in Devices, Poll(e)
          PROVE  block'[d] = 0
      BY <2>1, <3>2 DEF Poll, QueueInv
    <3>3. ASSUME NEW e \in Devices, BlockAnswered(e)
          PROVE  FALSE
      BY <3>3 DEF BlockAnswered
    <3>4. ASSUME \/ \E e \in Devices : Disconnect(e) \/ Raise(e)
                 \/ Send \/ IdleLinkCloses \/ LinkSticks \/ Tick
                 \/ UNCHANGED allVars
          PROVE  block' = block
      BY <3>4 DEF Disconnect, Raise, Send, IdleLinkCloses, LinkSticks, Tick,
                  allVars, linkVars
    <3>5. QED
      BY <2>1, <3>1, <3>2, <3>3, <3>4, LinkNextCases
  <2>2. ASSUME stage[d] \in Suspecting, stage'[d] = "idle", faults' = faults
        PROVE  BudgetExpires(d)
    <3>1. ASSUME NEW f, Fault(f)
          PROVE  FALSE
      <4>1. faults \in Nat /\ faults' = faults + 1
        BY <3>1, LinkAssumption DEF Fault, RestTyped
      <4>2. QED
        BY <2>2, <4>1
    <3>2. QED
      BY <2>2, <3>1, StuckEndings
  <2>3. ASSUME BudgetExpires(d), block[d] = 0
        PROVE  Budget <= Holders * RequestTimeout
    <3>1. Polling(d) /\ spent[d] = Budget /\ RequestTimeout \in Nat
      BY <2>3, LinkAssumption DEF BudgetExpires
    <3>2. spent[d] <= Holders * RequestTimeout
      BY <2>3, <3>1, AttemptInTime
    <3>3. QED
      BY <3>1, <3>2
  <2>4. QED
    BY <2>1, <2>2, <2>3
<1>2. QED
  BY <1>1, InTimeInvariant, QueueInvariant, PTL DEF LinkSpec
=============================================================================
