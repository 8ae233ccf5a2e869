--------------------------- MODULE ReadValuesProofs ---------------------------
(***************************************************************************)
(* read_values for every number of devices and retries, with and without   *)
(* other holders of the connection.  The retry code inside it keeps its    *)
(* invariant although read_values itself, and whoever else reads over the  *)
(* connection, opens and closes the link between its steps; on top of that *)
(* ReadInv says what a call knows of the connection while it is under way. *)
(* LoneInv adds what only a retry can do to a device that is alone on it.  *)
(***************************************************************************)
EXTENDS ReadValues, UpdateRetryProofs

-----------------------------------------------------------------------------
(* The retry code. *)

(* The link dropped before the poll is the one step in which a poll begins and
   a link closes. *)
LEMMA DropBeforeKeepsRetryInv ==
  ASSUME RetryInv, NEW d \in Devices, DropBefore(d)
  PROVE  RetryInv'
<1> USE RetryAssumption DEF DropBefore, Fresh, RetryInv, Closed
<1>1. TypeOK'
  BY DEF TypeOK, Stages, Attempting
<1>2. StageShape(d)' /\ Curable(d)' /\ DropShape(d)'
  BY DEF TypeOK, StageShape, Curable, DropShape, Exhausted, AllTransient,
         Stages, Attempting, Failures, Busy, Transient, Permanent
<1>3. ASSUME NEW e \in Devices \ {d}
      PROVE  StageShape(e)' /\ Curable(e)' /\ DropShape(e)'
  BY Untouched DEF TypeOK
<1>4. QED
  BY <1>1, <1>2, <1>3

(* The steps that touch nothing of the retry code but the link under it. *)
LEMMA LinkOnlySteps ==
  ASSUME RetryInv, OtherReads \/ (\E d \in Devices : Return(d))
  PROVE  RetryInv'
<1> USE DEF RetryInv
<1>1. /\ UNCHANGED <<stage, attempt, outcome, failures, dropped>>
      /\ linkOf' = linkOf \/ linkOf' = Closed(linkOf)
      /\ link' \in {"up", "down"}
  BY DEF OtherReads, Return, Fresh
<1>2. TypeOK'
  BY <1>1 DEF Closed, TypeOK
<1>3. ASSUME NEW e \in Devices
      PROVE  StageShape(e)' /\ Curable(e)' /\ DropShape(e)'
  BY <1>1, Untouched DEF Closed, TypeOK
<1>4. QED
  BY <1>2, <1>3

(* Every step of read_values, and of the others on the connection, keeps the
   invariant of the retry code. *)
LEMMA ReadKeepsRetryInv == RetryInv /\ [ReadNext]_allVars => RetryInv'
<1> SUFFICES ASSUME RetryInv, [ReadNext]_allVars
             PROVE  RetryInv'
  OBVIOUS
<1>1. CASE UNCHANGED vars
  BY <1>1, RetryInvNext
<1>2. ASSUME NEW d \in Devices,
             \/ Call(d) \/ Update(d) \/ RetryDrops(d) \/ RaiseError(d)
             \/ CancelCall(d)
      PROVE  RetryInv'
  BY <1>1, <1>2, OwnSteps DEF Call, Update, RetryDrops, RaiseError, CancelCall
<1>3. ASSUME NEW d \in Devices, NEW k \in Failures, UpdateFails(d, k)
      PROVE  RetryInv'
  BY <1>3, FailureSteps DEF UpdateFails, FailedRead
<1>4. CASE ConnectionOpens \/ ConnectionCloses
  BY <1>4, LinkSteps DEF ConnectionOpens, ConnectionCloses
<1>5. CASE UNCHANGED allVars
  BY <1>1, <1>5 DEF allVars
<1>6. QED
  BY <1>2, <1>3, <1>4, <1>5, DropBeforeKeepsRetryInv, LinkOnlySteps DEF ReadNext

(* The invariant of the retry code holds inside read_values. *)
LEMMA ReadRetryInv == ReadSpec => []RetryInv
<1>1. ReadInit => RetryInv
  BY RetryInvInit DEF ReadInit
<1>2. QED
  BY <1>1, ReadKeepsRetryInv, PTL DEF ReadSpec

(* Inside read_values too a poll goes on only after a failure it may retry. *)
THEOREM ReadRetriesTheCurable == ReadSpec => []RetriesOnlyTheCurable
<1>1. RetryInv => RetriesOnlyTheCurable
  BY DEF RetryInv, Curable, RetriesOnlyTheCurable
<1>2. QED
  BY <1>1, ReadRetryInv, PTL

(* The retry code tears the connection down only when it is exhausted, and a
   caller told so does not read over that connection again, although others
   open new ones. *)
THEOREM ReadDropsAndReplaces ==
  ReadSpec => [](DropsOnlyWhenExhausted /\ ExhaustionReplacesLink)
<1>1. RetryInv => DropsOnlyWhenExhausted /\ ExhaustionReplacesLink
  BY DEF RetryInv, DropShape, DropsOnlyWhenExhausted, ExhaustionReplacesLink
<1>2. QED
  BY <1>1, ReadRetryInv, PTL

-----------------------------------------------------------------------------
(* What a call knows of the connection. *)

CallTyped ==
  /\ call      \in [Devices -> {"idle", "dropping", "polling", "leaving"}]
  /\ used      \in BOOLEAN
  /\ values    \in [Devices -> Readings]
  /\ returned  \in [Devices -> Readings \cup {"error"}]
  /\ disturbed \in [Devices -> BOOLEAN]

\* A call is at the poll as long as the poll goes on, has its values when it
\* leaves, and returns nothing before.
CallShape(d) ==
  /\ call[d] = "polling" <=> stage[d] # "idle"
  /\ call[d] = "leaving" => outcome[d] = "values" /\ values[d] # "none"
  /\ call[d] # "idle" => returned[d] = "none"
  /\ returned[d] \in {"measurements", "zeros"} =>
       outcome[d] = "values" /\ returned[d] = values[d]

\* While nobody disturbs it, a call polls over a connection nobody has read
\* over yet: the one property that speaks of the reading returned says nothing
\* of the reading to come.
FreshShape(d) ==
  ~disturbed[d] =>
    /\ call[d] = "polling" => ~used
    /\ call[d] = "leaving" => values[d] # "zeros"
    /\ returned[d] # "zeros"

ReadInv ==
  /\ CallTyped
  /\ used => link = "up"
  /\ \A d \in Devices : CallShape(d) /\ FreshShape(d)

(* A device that a step leaves alone keeps its shape, if it is told of a read
   over its connection. *)
LEMMA Bystander ==
  ASSUME NEW e \in Devices, CallShape(e), FreshShape(e),
         stage'[e] = stage[e], outcome'[e] = outcome[e],
         call'[e] = call[e], values'[e] = values[e],
         returned'[e] = returned[e],
         disturbed[e] => disturbed'[e],
         call[e] = "polling" /\ ~disturbed'[e] /\ used' => used
  PROVE  CallShape(e)' /\ FreshShape(e)'
  BY DEF CallShape, FreshShape

(* A call begins; over a link that is down its poll begins with it, and such
   a link has not been read over. *)
LEMMA CallKeeps ==
  ASSUME RetryInv, ReadInv, NEW d \in Devices, Call(d)
  PROVE  ReadInv'
<1> USE DEF ReadInv, CallTyped
<1>1. /\ call[d] = "idle" /\ used' = used /\ values' = values /\ link' = link
      /\ returned' = [returned EXCEPT ![d] = "none"]
      /\ disturbed' = [disturbed EXCEPT ![d] = FALSE]
  BY DEF Call, StartPoll, vars
<1>2. CallTyped'
  BY <1>1 DEF Call, Readings
<1>3. ASSUME NEW e \in Devices \ {d}
      PROVE  CallShape(e)' /\ FreshShape(e)'
  <2>1. stage'[e] = stage[e] /\ outcome'[e] = outcome[e] /\ call'[e] = call[e]
    BY OthersUntouched DEF Call, vars
  <2>2. QED
    BY <1>1, <2>1, Bystander
<1>4. CASE link = "up"
  <2>1. call'[d] = "dropping" /\ stage' = stage
    BY <1>4 DEF Call, vars
  <2>2. CallShape(d)' /\ FreshShape(d)'
    BY <1>1, <2>1 DEF CallShape, FreshShape
  <2>3. QED
    BY <1>1, <1>2, <1>3, <2>2
<1>5. CASE link # "up"
  <2>1. call'[d] = "polling" /\ stage'[d] = "first"
    BY <1>5 DEF Call, StartPoll, RetryInv, TypeOK
  <2>2. CallShape(d)' /\ FreshShape(d)'
    BY <1>1, <1>5, <2>1 DEF CallShape, FreshShape
  <2>3. QED
    BY <1>1, <1>2, <1>3, <2>2
<1>6. QED
  BY <1>4, <1>5

(* The link is dropped before the poll: what comes next is the first read. *)
LEMMA DropBeforeKeeps ==
  ASSUME RetryInv, ReadInv, NEW d \in Devices, DropBefore(d)
  PROVE  ReadInv'
<1> USE DEF ReadInv, CallTyped
<1>1. /\ call[d] = "dropping" /\ used' = FALSE
      /\ call' = [call EXCEPT ![d] = "polling"]
      /\ stage' = [stage EXCEPT ![d] = "first"]
      /\ outcome' = [outcome EXCEPT ![d] = "none"]
      /\ UNCHANGED <<values, returned, disturbed>>
  BY DEF DropBefore, Fresh
<1>2. CallTyped'
  BY <1>1
<1>3. ASSUME NEW e \in Devices \ {d}
      PROVE  CallShape(e)' /\ FreshShape(e)'
  BY <1>1, Bystander DEF RetryInv, TypeOK
<1>4. CallShape(d)' /\ FreshShape(d)'
  BY <1>1 DEF CallShape, FreshShape, RetryInv, TypeOK
<1>5. QED
  BY <1>1, <1>2, <1>3, <1>4

(* An update that succeeds reads over the connection: it spoils it for the
   others, and decodes zeros itself only if another has done so to it. *)
LEMMA UpdateKeeps ==
  ASSUME RetryInv, ReadInv, NEW d \in Devices, Update(d)
  PROVE  ReadInv'
<1> USE DEF ReadInv, CallTyped
<1>1. /\ stage[d] # "idle" /\ link' = "up"
      /\ stage'[d] = "idle" /\ outcome'[d] = "values"
  BY DEF Update, AttemptSucceeds, LinkAfter, Attempting, RetryInv, TypeOK
<1>2. /\ used' = TRUE /\ returned' = returned
      /\ call' = [call EXCEPT ![d] = "leaving"]
      /\ values' = [values EXCEPT ![d] =
                      IF link = "up" /\ used THEN "zeros" ELSE "measurements"]
      /\ disturbed' = [e \in Devices |->
           disturbed[e] \/ (e # d /\ call[e] \in {"dropping", "polling"})]
  BY DEF Update, Spoils
<1>3. CallTyped'
  BY <1>2 DEF Readings
<1>4. ASSUME NEW e \in Devices \ {d}
      PROVE  CallShape(e)' /\ FreshShape(e)'
  <2>1. stage'[e] = stage[e] /\ outcome'[e] = outcome[e]
    BY OthersUntouched DEF Update
  <2>2. /\ call'[e] = call[e] /\ values'[e] = values[e]
        /\ disturbed[e] => disturbed'[e]
        /\ call[e] = "polling" => disturbed'[e]
    BY <1>2
  <2>3. QED
    BY <1>2, <2>1, <2>2, Bystander
<1>5. call[d] = "polling" /\ returned[d] = "none"
  BY <1>1 DEF CallShape
<1>6. /\ call'[d] = "leaving" /\ values'[d] # "none" /\ returned'[d] = "none"
      /\ disturbed'[d] = disturbed[d]
      /\ values'[d] = "zeros" => used
  BY <1>2, <1>5
<1>7. CallShape(d)' /\ FreshShape(d)'
  BY <1>1, <1>5, <1>6 DEF CallShape, FreshShape
<1>8. QED
  BY <1>1, <1>3, <1>4, <1>7

(* An attempt that fails either leaves the link closed, or tells every call
   under way, its own included, that the connection may have been read over. *)
LEMMA UpdateFailsKeeps ==
  ASSUME RetryInv, RetryInv', ReadInv, NEW d \in Devices, NEW k \in Failures,
         UpdateFails(d, k)
  PROVE  ReadInv'
<1> USE DEF ReadInv, CallTyped
<1>1. /\ AttemptFails(d, k) /\ values' = values
      /\ link' = "down" => used' = FALSE
      /\ used' \in BOOLEAN
      /\ disturbed' = [e \in Devices |->
           disturbed[e] \/ (call[e] \in {"dropping", "polling"} /\ link' = "up")]
  BY DEF UpdateFails, FailedRead
<1>2. link' \in {"up", "down"}
  BY DEF RetryInv, TypeOK
<1>3. stage[d] # "idle"
  BY <1>1 DEF AttemptFails, BusyRetriedOnce, EnterRetryLoop, RetryAgain,
              RetriesExhausted, RaiseAtOnce, Failed, Attempting
<1>4. IF stage'[d] = "idle"
        THEN /\ call'     = [call EXCEPT ![d] = "idle"]
             /\ returned' = [returned EXCEPT ![d] = "error"]
        ELSE UNCHANGED <<call, returned>>
  BY DEF UpdateFails
<1>5. CallTyped'
  BY <1>1, <1>2, <1>4 DEF Readings
<1>6. ASSUME NEW e \in Devices
      PROVE  /\ disturbed[e] => disturbed'[e]
             /\ call[e] = "polling" /\ ~disturbed'[e] => ~used'
  BY <1>1, <1>2
<1>7. ASSUME NEW e \in Devices \ {d}
      PROVE  CallShape(e)' /\ FreshShape(e)'
  <2>1. stage'[e] = stage[e] /\ outcome'[e] = outcome[e]
    BY <1>1, OthersUntouched
  <2>2. call'[e] = call[e] /\ values'[e] = values[e] /\ returned'[e] = returned[e]
    BY <1>1, <1>4
  <2>3. QED
    BY <1>6, <2>1, <2>2, Bystander
<1>8. call[d] = "polling" /\ returned[d] = "none"
  BY <1>3 DEF CallShape
<1>9. CallShape(d)' /\ FreshShape(d)'
  <2>1. CASE stage'[d] = "idle"
    BY <1>4, <2>1 DEF CallShape, FreshShape
  <2>2. CASE stage'[d] # "idle"
    BY <1>4, <1>6, <1>8, <2>2 DEF CallShape, FreshShape
  <2>3. QED
    BY <2>1, <2>2
<1>10. used' => link' = "up"
  BY <1>1, <1>2
<1>11. QED
  BY <1>5, <1>7, <1>9, <1>10

(* The disconnect of the retry code brings a fresh connection. *)
LEMMA RetryDropsKeeps ==
  ASSUME RetryInv, ReadInv, NEW d \in Devices, RetryDrops(d)
  PROVE  ReadInv'
<1> USE DEF ReadInv, CallTyped
<1>1. /\ used' = FALSE
      /\ stage[d] = "dropping" /\ stage' = [stage EXCEPT ![d] = "dropped"]
      /\ UNCHANGED <<call, values, returned, disturbed, outcome>>
  BY DEF RetryDrops, DropLink, Fresh
<1>2. CallTyped'
  BY <1>1
<1>3. ASSUME NEW e \in Devices \ {d}
      PROVE  CallShape(e)' /\ FreshShape(e)'
  BY <1>1, Bystander DEF RetryInv, TypeOK
<1>4. CallShape(d)' /\ FreshShape(d)'
  BY <1>1 DEF CallShape, FreshShape, RetryInv, TypeOK
<1>5. QED
  BY <1>1, <1>2, <1>3, <1>4

(* An error, of an exhausted poll or of a cancelled task, ends the call
   wherever it stands, and returns nothing that was decoded. *)
LEMMA ErrorsKeep ==
  ASSUME RetryInv, ReadInv, NEW d \in Devices, RaiseError(d) \/ CancelCall(d)
  PROVE  ReadInv'
<1> USE DEF ReadInv, CallTyped
<1>1. /\ call' = [call EXCEPT ![d] = "idle"]
      /\ returned' = [returned EXCEPT ![d] = "error"]
      /\ UNCHANGED <<used, values, disturbed, link>>
  BY DEF RaiseError, RaiseExhausted, CancelCall, CancelPoll, vars
<1>2. CallTyped'
  BY <1>1 DEF Readings
<1>3. stage'[d] = "idle"
  BY DEF RaiseError, RaiseExhausted, CancelCall, CancelPoll, CallShape, vars,
         RetryInv, TypeOK
<1>4. ASSUME NEW e \in Devices \ {d}
      PROVE  CallShape(e)' /\ FreshShape(e)'
  <2>1. stage'[e] = stage[e] /\ outcome'[e] = outcome[e]
    BY OthersUntouched DEF RaiseError, CancelCall, vars
  <2>2. QED
    BY <1>1, <2>1, Bystander
<1>5. CallShape(d)' /\ FreshShape(d)'
  BY <1>1, <1>3 DEF CallShape, FreshShape
<1>6. QED
  BY <1>1, <1>2, <1>4, <1>5

(* What is returned is what this call decoded. *)
LEMMA ReturnKeeps ==
  ASSUME RetryInv, ReadInv, NEW d \in Devices, Return(d)
  PROVE  ReadInv'
<1> USE DEF ReadInv, CallTyped
<1>1. /\ call[d] = "leaving" /\ used' = FALSE
      /\ call' = [call EXCEPT ![d] = "idle"]
      /\ returned' = [returned EXCEPT ![d] = values[d]]
      /\ UNCHANGED <<stage, outcome, values, disturbed>>
  BY DEF Return, Fresh
<1>2. CallTyped'
  BY <1>1
<1>3. ASSUME NEW e \in Devices \ {d}
      PROVE  CallShape(e)' /\ FreshShape(e)'
  BY <1>1, Bystander
<1>4. CallShape(d)' /\ FreshShape(d)'
  BY <1>1 DEF CallShape, FreshShape
<1>5. QED
  BY <1>1, <1>2, <1>3, <1>4

(* What others do to the connection, every call under way is told of if it is
   a read. *)
LEMMA OthersKeep ==
  ASSUME RetryInv, ReadInv,
         OtherReads \/ ConnectionOpens \/ ConnectionCloses \/ UNCHANGED allVars
  PROVE  ReadInv'
<1> USE DEF ReadInv, CallTyped
<1>1. /\ UNCHANGED <<stage, outcome, call, values, returned>>
      /\ used' => link' = "up"
      /\ used' \in BOOLEAN
      /\ disturbed' \in [Devices -> BOOLEAN]
      /\ \A e \in Devices :
           /\ disturbed[e] => disturbed'[e]
           /\ call[e] = "polling" /\ ~disturbed'[e] /\ used' => used
  <2>1. CASE OtherReads
    BY <2>1 DEF OtherReads
  <2>2. CASE ConnectionOpens
    BY <2>2 DEF ConnectionOpens, LinkOpens, readVars
  <2>3. CASE ConnectionCloses
    BY <2>3 DEF ConnectionCloses, LinkCloses
  <2>4. CASE UNCHANGED allVars
    BY <2>4 DEF allVars, vars, readVars
  <2>5. QED
    BY <2>1, <2>2, <2>3, <2>4
<1>2. ASSUME NEW e \in Devices
      PROVE  CallShape(e)' /\ FreshShape(e)'
  BY <1>1, Bystander
<1>3. QED
  BY <1>1, <1>2

(* Initially nobody calls, and the link that is down has not been read over. *)
LEMMA ReadInvInit == ReadInit => ReadInv
<1> SUFFICES ASSUME ReadInit
             PROVE  ReadInv
  OBVIOUS
<1> USE DEF ReadInit, Init
<1>1. CallTyped
  BY DEF CallTyped, Readings
<1>2. ASSUME NEW d \in Devices
      PROVE  CallShape(d) /\ FreshShape(d)
  BY DEF CallShape, FreshShape
<1>3. QED
  BY <1>1, <1>2 DEF ReadInv

(* Every step keeps ReadInv. *)
LEMMA ReadInvNext ==
  RetryInv /\ RetryInv' /\ ReadInv /\ [ReadNext]_allVars => ReadInv'
<1> SUFFICES ASSUME RetryInv, RetryInv', ReadInv, [ReadNext]_allVars
             PROVE  ReadInv'
  OBVIOUS
<1>1. ASSUME NEW d \in Devices, NEW k \in Failures, UpdateFails(d, k)
      PROVE  ReadInv'
  BY <1>1, UpdateFailsKeeps
<1>2. QED
  BY <1>1, CallKeeps, DropBeforeKeeps, UpdateKeeps, RetryDropsKeeps, ErrorsKeep,
     ReturnKeeps, OthersKeep DEF ReadNext

(* ReadInv holds in every reachable state. *)
LEMMA ReadInvariant == ReadSpec => [](RetryInv /\ ReadInv)
  BY ReadRetryInv, ReadInvInit, ReadInvNext, PTL DEF ReadSpec

-----------------------------------------------------------------------------
(* The variables keep their types, and a call is at its poll as long as the
   poll goes on. *)
THEOREM ReadTyped == ReadSpec => []ReadTypeOK
<1>1. RetryInv /\ ReadInv => ReadTypeOK
  BY DEF RetryInv, ReadInv, CallTyped, CallShape, ReadTypeOK
<1>2. QED
  BY <1>1, ReadInvariant, PTL

(* read_values never takes the zeros of an S Meter for measurements unless
   its connection was spoiled during the call. *)
THEOREM UndisturbedReadsAreLive == ReadSpec => []UndisturbedReadIsLive
<1>1. ReadInv => UndisturbedReadIsLive
  BY DEF ReadInv, CallTyped, FreshShape, UndisturbedReadIsLive
<1>2. QED
  BY <1>1, ReadInvariant, PTL

(* What read_values returns was decoded by this very call. *)
THEOREM ReadsAnswerTheirCall == ReadSpec => []AnswersAreOfThisCall
<1>1. ReadInv => AnswersAreOfThisCall
  BY DEF ReadInv, CallShape, AnswersAreOfThisCall
<1>2. QED
  BY <1>1, ReadInvariant, PTL

-----------------------------------------------------------------------------
(* What is true of the claim that the read is the connection's first. *)

\* One S Meter, and nobody else on its connection.
Alone == ~OtherHolders /\ \A d, e \in Devices : d = e

\* Where nobody else reads, only a failed attempt of the call itself spoils
\* its connection, and no attempt is made before the link is dropped.
LoneShape(d) ==
  /\ call[d] = "dropping" => ~disturbed[d]
  /\ disturbed[d] => failures[d] # <<>>

LoneInv == \A d \in Devices : LoneShape(d)

(* A failed attempt that spoils the connection is on record. *)
LEMMA LoneFailure ==
  ASSUME Alone, RetryInv, ReadInv, LoneInv,
         NEW d \in Devices, NEW k \in Failures, UpdateFails(d, k)
  PROVE  LoneInv'
<1>1. AttemptFails(d, k) /\ FailedRead(d, k)
  BY DEF UpdateFails, FailedRead
<1>2. failures' = [failures EXCEPT ![d] = Append(@, k)]
  BY <1>1 DEF AttemptFails, BusyRetriedOnce, EnterRetryLoop, RetryAgain,
              RetriesExhausted, RaiseAtOnce, Failed
<1>3. failures \in [Devices -> Seq(Failures)]
  BY DEF RetryInv, TypeOK
<1>4. failures'[d] # <<>>
  BY <1>2, <1>3
<1>5. stage[d] # "idle"
  BY <1>1 DEF AttemptFails, BusyRetriedOnce, EnterRetryLoop, RetryAgain,
              RetriesExhausted, RaiseAtOnce, Failed, Attempting
<1>6. call[d] = "polling"
  BY <1>5 DEF ReadInv, CallShape
<1>7. call'[d] # "dropping"
  BY <1>6 DEF UpdateFails, ReadInv, CallTyped
<1>8. ASSUME NEW e \in Devices
      PROVE  e = d
  BY DEF Alone
<1>9. QED
  BY <1>4, <1>7, <1>8 DEF LoneInv, LoneShape

(* Every other step leaves the connection of a lone device unspoiled, or its
   failures on record. *)
LEMMA LoneSteps ==
  ASSUME Alone, RetryInv, ReadInv, LoneInv, [ReadNext]_allVars
  PROVE  LoneInv'
<1> SUFFICES ASSUME NEW e \in Devices
             PROVE  LoneShape(e)'
  BY DEF LoneInv
<1>1. LoneShape(e) /\ CallShape(e)
  BY DEF LoneInv, ReadInv
<1>2. \A d \in Devices : d = e
  BY DEF Alone
<1>3. CASE Call(e)
  BY <1>3 DEF Call, ReadInv, CallTyped, LoneShape
<1>4. CASE DropBefore(e)
  BY <1>1, <1>4 DEF DropBefore, ReadInv, CallTyped, LoneShape
<1>5. CASE Update(e)
  <2>1. failures' = failures
    BY <1>5 DEF Update, AttemptSucceeds
  <2>2. disturbed'[e] = disturbed[e]
    BY <1>5 DEF Update, Spoils, ReadInv, CallTyped
  <2>3. call'[e] = "leaving"
    BY <1>5 DEF Update, ReadInv, CallTyped
  <2>4. QED
    BY <1>1, <2>1, <2>2, <2>3 DEF LoneShape
<1>6. CASE \E k \in Failures : UpdateFails(e, k)
  BY <1>6, LoneFailure DEF LoneInv
<1>7. CASE RetryDrops(e)
  BY <1>1, <1>7 DEF RetryDrops, DropLink, LoneShape
<1>8. CASE RaiseError(e) \/ CancelCall(e)
  BY <1>1, <1>8 DEF RaiseError, RaiseExhausted, CancelCall, CancelPoll, vars,
                    ReadInv, CallTyped, LoneShape
<1>9. CASE Return(e)
  BY <1>1, <1>9 DEF Return, ReadInv, CallTyped, LoneShape
<1>10. CASE ConnectionOpens \/ ConnectionCloses \/ UNCHANGED allVars
  BY <1>1, <1>10 DEF ConnectionOpens, ConnectionCloses, LinkOpens, LinkCloses,
                     allVars, readVars, vars, LoneShape
<1>11. ~OtherReads
  BY DEF Alone, OtherReads
<1>12. QED
  BY <1>2, <1>3, <1>4, <1>5, <1>6, <1>7, <1>8, <1>9, <1>10, <1>11 DEF ReadNext

(* Of one S Meter that nobody else reads, read_values returns zeros only in a
   call whose update failed before it succeeded: the retry, which reads again
   over the connection a failed read has spoiled, is all it takes to break the
   docstring's promise, and without a retry the promise is kept. *)
THEOREM LoneReadsAreLive ==
  ASSUME Alone
  PROVE  ReadSpec =>
           [](\A d \in Devices : returned[d] = "zeros" => failures[d] # <<>>)
<1>1. ReadInit => LoneInv
  BY DEF ReadInit, LoneInv, LoneShape
<1>2. RetryInv /\ ReadInv /\ LoneInv /\ [ReadNext]_allVars => LoneInv'
  BY LoneSteps
<1>3. ReadInv /\ LoneInv =>
        \A d \in Devices : returned[d] = "zeros" => failures[d] # <<>>
  BY DEF ReadInv, CallTyped, FreshShape, LoneInv, LoneShape
<1>4. QED
  BY <1>1, <1>2, <1>3, ReadInvariant, PTL DEF ReadSpec
=============================================================================
