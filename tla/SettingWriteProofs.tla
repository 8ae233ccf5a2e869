-------------------------- MODULE SettingWriteProofs --------------------------
(***************************************************************************)
(* What a write of a setting reports, and what it may do to the device,    *)
(* for any number of callers and registers, any profile, any bounds and    *)
(* any number of looks; and that a call has a bounded number of steps.     *)
(***************************************************************************)
EXTENDS SettingWrite, TLAPS

(***************************************************************************)
(* A call under way was accepted and has no result yet; one that reads     *)
(* back, or reports success, has had its value taken.  What lingers was    *)
(* accepted once, since only a call's own write is sent.                   *)
(***************************************************************************)
Declared(r, v) ==
  r \in Ranged \cup Flagged /\ (r \in Ranged => v \in Bounds[r])

CallShape(c) ==
  /\ pc[c] # "idle" =>
       result[c] = "none" /\ Declared(call[c].reg, call[c].val)
  /\ pc[c] \in {"settling", "looking"} => took[c]
  /\ result[c] \in {"written", "applied"} => took[c]

WriteInv ==
  /\ TypeOK
  /\ \A c \in Callers : CallShape(c)
  /\ \A o \in late : Declared(o.reg, o.val)

-----------------------------------------------------------------------------
LEMMA Numbers ==
  /\ ReadBackAttempts \in Nat /\ ReadBackAttempts > 0 /\ Lag \in Nat
  /\ 0 \in 0 .. ReadBackAttempts - 1
<1>1. ReadBackAttempts \in Nat /\ ReadBackAttempts # 0 /\ Lag \in Nat
  BY WriteAssumption
<1>2. QED
  BY <1>1

LEMMA CallFields ==
  /\ \A o \in Calls : /\ o.via \in Operations
                      /\ o.reg \in Registers
                      /\ o.val \in Words[o.reg]
                      /\ [reg |-> o.reg, val |-> o.val] \in Writes
  /\ \A o \in Writes : o.reg \in Registers /\ o.val \in Words[o.reg]
  /\ NoCall \notin Calls
<1>1. \A o \in Calls : o.via \in Operations /\ o.reg \in Registers
                         /\ o.val \in Words[o.reg]
  BY DEF Calls
<1>2. \A o \in Calls : [reg |-> o.reg, val |-> o.val] \in Writes
  BY <1>1 DEF Writes
<1>3. \A o \in Writes : o.reg \in Registers /\ o.val \in Words[o.reg]
  BY DEF Writes
<1>4. NoCall \notin Calls
  BY <1>1 DEF NoCall, Operations
<1>5. QED
  BY <1>1, <1>2, <1>3, <1>4

LEMMA Put ==
  ASSUME NEW f \in Contents, NEW r \in Registers, NEW v \in Words[r]
  PROVE  [f EXCEPT ![r] = v] \in Contents
  BY DEF Contents

(* What the device takes is in order, and says so to the others. *)
LEMMA TakeEffect ==
  ASSUME TypeOK, NEW others, NEW r \in Registers, NEW v \in Words[r],
         Take(others, r, v)
  PROVE  /\ held' \in Contents
         /\ shown' \in Contents
         /\ lag' \in [Registers -> 0 .. Lag]
         /\ touched' \in [Callers -> BOOLEAN]
         /\ \A q \in Registers : lag'[q] = 0 => shown'[q] = held'[q]
<1>0. held \in Contents /\ shown \in Contents
  BY DEF TypeOK
<1>1. held' \in Contents /\ shown' \in Contents
  <2>1. /\ [held EXCEPT ![r] = v] \in Contents
        /\ [shown EXCEPT ![r] = v] \in Contents
    BY <1>0, Put
  <2>2. QED
    BY <1>0, <2>1 DEF Take
<1>2. lag' \in [Registers -> 0 .. Lag]
  <2>1. Lag \in Nat /\ lag \in [Registers -> 0 .. Lag]
    BY Numbers DEF TypeOK
  <2>2. /\ [lag EXCEPT ![r] = 0] \in [Registers -> 0 .. Lag]
        /\ [lag EXCEPT ![r] = Lag] \in [Registers -> 0 .. Lag]
    BY <2>1
  <2>3. QED
    BY <2>2 DEF Take
<1>3. touched' \in [Callers -> BOOLEAN]
  BY DEF Take, TypeOK
<1>4. \A q \in Registers : lag'[q] = 0 => shown'[q] = held'[q]
  <2> SUFFICES ASSUME NEW q \in Registers, lag'[q] = 0
               PROVE  shown'[q] = held'[q]
    OBVIOUS
  <2>1. /\ lag \in [Registers -> 0 .. Lag]
        /\ held \in [Registers -> UNION {Words[x] : x \in Registers}]
        /\ shown \in [Registers -> UNION {Words[x] : x \in Registers}]
        /\ lag[q] = 0 => shown[q] = held[q]
    BY <1>0 DEF TypeOK, Contents
  <2>2. CASE q = r
    BY <2>1, <2>2 DEF Take
  <2>3. CASE q # r
    BY <2>1, <2>3 DEF Take
  <2>4. QED
    BY <2>2, <2>3
<1>5. QED
  BY <1>1, <1>2, <1>3, <1>4

-----------------------------------------------------------------------------
LEMMA WriteInit == Init => WriteInv
  BY WriteAssumption, CallFields
  DEF Init, WriteInv, TypeOK, CallShape

(* The part of TypeOK about the calls, kept by everything a call does. *)
CallsTyped ==
  /\ pc     \in [Callers -> {"idle", "sent", "settling", "looking"}]
  /\ call   \in [Callers -> Calls \cup {NoCall}]
  /\ looks  \in [Callers -> 0 .. ReadBackAttempts - 1]
  /\ result \in [Callers -> {"none", "refused", "error", "cancelled",
                             "written", "applied", "not applied"}]
  /\ \A c \in Callers : pc[c] # "idle" <=> call[c] \in Calls

LEMMA EndsTyped ==
  ASSUME TypeOK, NEW c \in Callers,
         NEW how \in {"refused", "error", "cancelled", "written", "applied",
                      "not applied"},
         Ends(c, how)
  PROVE  CallsTyped'
<1>2. looks' \in [Callers -> 0 .. ReadBackAttempts - 1]
  BY Numbers DEF TypeOK, Ends
<1>3. \A e \in Callers : (pc[e] # "idle" <=> call[e] \in Calls)'
  BY CallFields DEF TypeOK, Ends
<1>4. QED
  BY <1>2, <1>3 DEF TypeOK, CallsTyped, Ends

LEMMA AcceptedTyped ==
  ASSUME TypeOK, NEW c \in Callers, pc[c] = "sent", Accepted(c)
  PROVE  CallsTyped'
<1>1. CASE Ends(c, "written")
  BY <1>1, EndsTyped
<1>2. CASE ~Ends(c, "written")
  BY <1>2 DEF Accepted, TypeOK, CallsTyped
<1>3. QED
  BY <1>1, <1>2

(* The part of TypeOK about the device, kept by everything it does. *)
DeviceTyped ==
  /\ held  \in Contents
  /\ shown \in Contents
  /\ lag   \in [Registers -> 0 .. Lag]
  /\ late  \subseteq Writes
  /\ touched \in [Callers -> BOOLEAN]
  /\ \A r \in Registers : lag[r] = 0 => shown[r] = held[r]

LEMMA BothTyped ==
  /\ TypeOK <=> CallsTyped /\ DeviceTyped /\ took \in [Callers -> BOOLEAN]
  /\ TypeOK' <=> CallsTyped' /\ DeviceTyped' /\ took' \in [Callers -> BOOLEAN]
  BY DEF TypeOK, CallsTyped, DeviceTyped

(* A step of c's call leaves the calls of the others as they are. *)
LEMMA OthersKeep ==
  ASSUME NEW c \in Callers, NEW e \in Callers \ {c}, CallShape(e),
         pc'[e] = pc[e], call'[e] = call[e], result'[e] = result[e],
         took'[e] = took[e]
  PROVE  CallShape(e)'
  BY DEF CallShape

-----------------------------------------------------------------------------
(* Each step keeps WriteInv. *)
LEMMA CallKeeps ==
  ASSUME WriteInv, NEW c \in Callers, NEW o \in Calls, Call(c, o)
  PROVE  WriteInv'
<1>1. /\ TypeOK /\ CallsTyped /\ DeviceTyped
      /\ took' \in [Callers -> BOOLEAN] /\ touched' \in [Callers -> BOOLEAN]
  BY BothTyped DEF WriteInv, Call, TypeOK
<1>2. CallsTyped'
  <2>1. CASE Ends(c, "refused")
    BY <1>1, <2>1, EndsTyped
  <2>2. CASE ~Ends(c, "refused")
    <3>1. /\ pc' = [pc EXCEPT ![c] = "sent"]
          /\ call' = [call EXCEPT ![c] = o]
          /\ result' = [result EXCEPT ![c] = "none"]
          /\ looks' = looks
      BY <2>2 DEF Call
    <3>2. QED
      BY <1>1, <3>1 DEF CallsTyped
  <2>3. QED
    BY <2>1, <2>2
<1>3. TypeOK'
  BY <1>1, <1>2, BothTyped DEF Call, deviceVars, DeviceTyped
<1>4. CallShape(c)'
  BY <1>1 DEF WriteInv, Call, Ends, CallsTyped, CallShape, Accepts, Declared
<1>5. ASSUME NEW e \in Callers \ {c} PROVE CallShape(e)'
  BY <1>1, OthersKeep DEF WriteInv, Call, Ends, CallsTyped
<1>6. QED
  BY <1>3, <1>4, <1>5 DEF WriteInv, Call, deviceVars

(* A call that is under way names a register and a value of it, both in the
   profile. *)
LEMMA UnderWay ==
  ASSUME WriteInv, NEW c \in Callers, pc[c] # "idle"
  PROVE  /\ call[c].reg \in Registers
         /\ call[c].val \in Words[call[c].reg]
         /\ [reg |-> call[c].reg, val |-> call[c].val] \in Writes
         /\ Declared(call[c].reg, call[c].val)
  BY CallFields DEF WriteInv, TypeOK, CallShape

LEMMA AnswerKeeps ==
  ASSUME WriteInv, NEW c \in Callers, Answered(c)
  PROVE  WriteInv'
<1>0. /\ TypeOK /\ CallsTyped /\ DeviceTyped
      /\ took \in [Callers -> BOOLEAN]
      /\ pc[c] = "sent"
      /\ \A e \in Callers : CallShape(e)
  BY BothTyped DEF WriteInv, Answered, Confirmed, ConfirmedAnother, Refused,
                   NoConfirmation
<1> DEFINE r == call[c].reg
           w == [reg |-> call[c].reg, val |-> call[c].val]
<1>1. /\ r \in Registers /\ call[c].val \in Words[r] /\ w \in Writes
      /\ Declared(r, call[c].val)
  BY <1>0, UnderWay
<1>2. \/ Accepted(c) /\ took' = [took EXCEPT ![c] = TRUE]
      \/ Ends(c, "error") /\ took' \in {took, [took EXCEPT ![c] = TRUE]}
  BY DEF Answered, Confirmed, ConfirmedAnother, Refused, NoConfirmation
<1>3. CallsTyped'
  BY <1>0, <1>2, AcceptedTyped, EndsTyped
<1>4. /\ late' \in {late, late \cup {w}}
      /\ \/ \E v \in Words[r] : Take(Callers \ {c}, r, v)
         \/ Nothing
  BY <1>1 DEF Answered, Confirmed, ConfirmedAnother, Refused, NoConfirmation,
              Lingers
<1>5. DeviceTyped'
  BY <1>0, <1>1, <1>4, TakeEffect DEF DeviceTyped, Nothing
<1>6. TypeOK'
  BY <1>0, <1>2, <1>3, <1>5, BothTyped
<1>7. CallShape(c)'
  BY <1>0, <1>2 DEF CallsTyped, CallShape, Accepted, Ends
<1>8. ASSUME NEW e \in Callers \ {c} PROVE CallShape(e)'
  <2>1. /\ pc'[e] = pc[e] /\ call'[e] = call[e]
        /\ result'[e] = result[e] /\ took'[e] = took[e]
    BY <1>0, <1>2 DEF CallsTyped, Accepted, Ends
  <2>2. QED
    BY <1>0, <2>1, OthersKeep
<1>9. \A o \in late' : Declared(o.reg, o.val)
  BY <1>1, <1>4 DEF WriteInv
<1>10. QED
  BY <1>6, <1>7, <1>8, <1>9 DEF WriteInv

LEMMA LookKeeps ==
  ASSUME WriteInv, NEW c \in Callers, Look(c) \/ LookFails(c) \/ Cancel(c)
  PROVE  WriteInv'
<1>0. /\ TypeOK /\ CallsTyped /\ DeviceTyped
      /\ took \in [Callers -> BOOLEAN]
      /\ pc[c] # "idle"
      /\ \A e \in Callers : CallShape(e)
  BY BothTyped DEF WriteInv, Look, LookFails, Cancel
<1>1. /\ [reg |-> call[c].reg, val |-> call[c].val] \in Writes
      /\ Declared(call[c].reg, call[c].val)
  BY <1>0, UnderWay
<1>2. took' = took /\ UNCHANGED <<held, shown, lag, touched>>
  BY DEF Look, LookFails, Cancel, deviceVars
<1>3. late' \in {late, late \cup {[reg |-> call[c].reg, val |-> call[c].val]}}
  BY DEF Look, LookFails, Cancel, deviceVars, Lingers
<1>4. DeviceTyped'
  BY <1>0, <1>1, <1>2, <1>3 DEF DeviceTyped
<1>5. CASE Look(c) /\ UNCHANGED result
  <2>1. /\ pc[c] = "looking" /\ looks[c] # ReadBackAttempts - 1
        /\ looks' = [looks EXCEPT ![c] = @ + 1]
        /\ pc' = [pc EXCEPT ![c] = "settling"]
        /\ call' = call /\ result' = result
    BY <1>0, <1>5 DEF Look, Ends, LooksSpent, CallShape, CallsTyped
  <2>2. CallsTyped'
    <3>1. looks[c] + 1 \in 0 .. ReadBackAttempts - 1
      <4>1. looks[c] \in 0 .. ReadBackAttempts - 1
        BY <1>0 DEF CallsTyped
      <4>2. QED
        BY <2>1, <4>1, Numbers
    <3>2. looks' \in [Callers -> 0 .. ReadBackAttempts - 1]
      BY <1>0, <2>1, <3>1 DEF CallsTyped
    <3>3. QED
      BY <1>0, <2>1, <3>2 DEF CallsTyped
  <2>3. \A e \in Callers : CallShape(e)'
    BY <1>0, <1>2, <2>1 DEF CallShape, CallsTyped
  <2>4. QED
    BY <1>0, <1>1, <1>2, <1>3, <1>4, <2>2, <2>3, BothTyped DEF WriteInv
<1>6. CASE \E how \in {"error", "cancelled", "applied", "not applied"} :
             /\ Ends(c, how)
             /\ how = "applied" => pc[c] = "looking"
  <2>1. CallsTyped'
    BY <1>0, <1>6, EndsTyped
  <2>2. \A e \in Callers : CallShape(e)'
    BY <1>0, <1>2, <1>6 DEF CallShape, CallsTyped, Ends
  <2>3. QED
    BY <1>0, <1>1, <1>2, <1>3, <1>4, <2>1, <2>2, BothTyped DEF WriteInv
<1>7. QED
  BY <1>5, <1>6 DEF Look, LookFails, Cancel

LEMMA DeviceKeeps ==
  ASSUME WriteInv,
         \/ Settle
         \/ \E o \in late : TakenLate(o)
         \/ \E r \in Registers : CatchesUp(r)
         \/ UNCHANGED vars
  PROVE  WriteInv'
<1>0. /\ TypeOK /\ CallsTyped /\ DeviceTyped
      /\ \A e \in Callers : CallShape(e)
      /\ \A o \in late : Declared(o.reg, o.val)
  BY BothTyped DEF WriteInv
<1>1. CASE Settle
  <2>1. CallsTyped' /\ \A e \in Callers : CallShape(e)'
    BY <1>0, <1>1 DEF Settle, CallsTyped, CallShape
  <2>2. /\ held' \in Contents /\ late' \subseteq Writes
        /\ touched' \in [Callers -> BOOLEAN]
    BY <1>0, <1>1 DEF Settle, DeviceTyped
  <2>3. lag' \in [Registers -> 0 .. Lag]
    BY <1>0, <1>1, Numbers DEF Settle, DeviceTyped
  <2>4. shown' \in Contents
    BY <1>0, <1>1 DEF Settle, DeviceTyped, Contents
  <2>5. \A r \in Registers : (lag[r] = 0 => shown[r] = held[r])'
    BY <1>0, <1>1, Numbers DEF Settle, DeviceTyped
  <2>6. QED
    BY <1>0, <1>1, <2>1, <2>2, <2>3, <2>4, <2>5, BothTyped
    DEF WriteInv, Settle, DeviceTyped
<1>2. CASE \E o \in late : TakenLate(o)
  <2>1. PICK o \in late : TakenLate(o)
    BY <1>2
  <2>2. o.reg \in Registers /\ o.val \in Words[o.reg]
    BY <1>0, CallFields DEF DeviceTyped
  <2>3. DeviceTyped'
    BY <1>0, <2>1, <2>2, TakeEffect DEF TakenLate, DeviceTyped
  <2>4. CallsTyped' /\ took' = took /\ \A e \in Callers : CallShape(e)'
    BY <1>0, <2>1 DEF TakenLate, callVars, CallsTyped, CallShape
  <2>5. QED
    BY <1>0, <2>1, <2>3, <2>4, BothTyped DEF WriteInv, TakenLate
<1>3. CASE \E r \in Registers : CatchesUp(r)
  <2>1. PICK r \in Registers : CatchesUp(r)
    BY <1>3
  <2>2. CallsTyped' /\ took' = took /\ \A e \in Callers : CallShape(e)'
    BY <1>0, <2>1 DEF CatchesUp, callVars, CallsTyped, CallShape
  <2>3. held[r] \in Words[r]
    BY <1>0 DEF DeviceTyped, Contents
  <2>4. shown' \in Contents
    BY <1>0, <2>1, <2>3, Put DEF CatchesUp, DeviceTyped
  <2>5. lag' \in [Registers -> 0 .. Lag]
    BY <1>0, <2>1, Numbers DEF CatchesUp, DeviceTyped
  <2>6. \A q \in Registers : (lag[q] = 0 => shown[q] = held[q])'
    BY <1>0, <2>1 DEF CatchesUp, DeviceTyped, Contents
  <2>7. QED
    BY <1>0, <2>1, <2>2, <2>4, <2>5, <2>6, BothTyped
    DEF WriteInv, CatchesUp, DeviceTyped
<1>4. CASE UNCHANGED vars
  BY <1>0, <1>4
  DEF WriteInv, vars, callVars, deviceVars, TypeOK, CallShape
<1>5. QED
  BY <1>1, <1>2, <1>3, <1>4

LEMMA WriteStep == WriteInv /\ [Next]_vars => WriteInv'
<1> SUFFICES ASSUME WriteInv, [Next]_vars PROVE WriteInv'
  OBVIOUS
<1>1. CASE \E c \in Callers : \E o \in Calls : Call(c, o)
  BY <1>1, CallKeeps
<1>2. CASE \E c \in Callers : Answered(c)
  BY <1>2, AnswerKeeps
<1>3. CASE \E c \in Callers : Look(c) \/ LookFails(c) \/ Cancel(c)
  BY <1>3, LookKeeps
<1>4. QED
  BY <1>1, <1>2, <1>3, DeviceKeeps DEF Next

\* The invariant of the calls and of what lingers holds throughout.
LEMMA WriteInvariant == Spec => []WriteInv
  BY WriteInit, WriteStep, PTL DEF Spec

-----------------------------------------------------------------------------
(* Whatever callers, device and connection do, the state has its type: in
   particular no more looks than READ_BACK_ATTEMPTS are ever taken. *)
THEOREM TypeCorrect == Spec => []TypeOK
  BY WriteInvariant, PTL DEF WriteInv

(* Success is only reported of a write the device has taken. *)
THEOREM SuccessIsOfTaken == Spec => []SuccessWasTaken
<1>1. WriteInv => SuccessWasTaken
  BY DEF WriteInv, CallShape, SuccessWasTaken
<1>2. QED
  BY <1>1, WriteInvariant, PTL

(* No value reaches a register that the profile does not declare for it. *)
THEOREM ChangesAreDeclared == Spec => SettingsChangeAsDeclared
<1> DEFINE Change ==
      \A r \in Registers :
       held'[r] # held[r] =>
         r \in Ranged \cup Flagged /\ (r \in Ranged => held'[r] \in Bounds[r])
<1>1. ASSUME WriteInv, NEW others, NEW q \in Registers, NEW v,
             Declared(q, v), Take(others, q, v)
      PROVE  Change
  BY <1>1 DEF Take, Declared, WriteInv, TypeOK, Contents
<1>2. ASSUME WriteInv, NEW c \in Callers, Answered(c) PROVE Change
  <2>1. /\ pc[c] # "idle"
        /\ \/ Nothing
           \/ Take(Callers \ {c}, call[c].reg, call[c].val)
           \/ \E v \in Words[call[c].reg] :
                ConfirmedAnother(c, v) /\ Take(Callers \ {c}, call[c].reg, v)
    BY <1>2 DEF Answered, Confirmed, ConfirmedAnother, Refused, NoConfirmation
  <2>2. call[c].reg \in Registers /\ Declared(call[c].reg, call[c].val)
    BY <1>2, <2>1, UnderWay
  <2>3. \A v : ConfirmedAnother(c, v) => Declared(call[c].reg, v)
    BY <2>2 DEF ConfirmedAnother, Declared
  <2>4. QED
    BY <1>1, <1>2, <2>1, <2>2, <2>3 DEF Nothing
<1>3. ASSUME WriteInv, NEW o \in late, TakenLate(o) PROVE Change
  <2>1. o.reg \in Registers /\ Declared(o.reg, o.val)
    BY <1>3, CallFields DEF WriteInv, TypeOK
  <2>2. QED
    BY <1>1, <1>3, <2>1 DEF TakenLate
<1>4. WriteInv /\ [Next]_vars => [Change]_vars
  <2> SUFFICES ASSUME WriteInv, Next PROVE Change
    OBVIOUS
  <2>1. CASE \E c \in Callers : Answered(c)
    BY <1>2, <2>1
  <2>2. CASE \E o \in late : TakenLate(o)
    BY <1>3, <2>2
  <2>3. CASE held' = held
    BY <2>3
  <2>4. QED
    BY <2>1, <2>2, <2>3
    DEF Next, Call, Look, LookFails, Cancel, Settle, CatchesUp, deviceVars
<1>5. QED
  BY <1>4, WriteInvariant, PTL DEF Spec, SettingsChangeAsDeclared

-----------------------------------------------------------------------------
(***************************************************************************)
(* Why a write that was taken is seen: while nobody else writes the        *)
(* register it holds the value, and the device has one settle period less  *)
(* left to serve the old one with each look.                               *)
(***************************************************************************)
Slept(c) == IF pc[c] = "looking" THEN looks[c] + 1 ELSE looks[c]

Alone(c) ==
  /\ pc[c] \in {"idle", "sent"} => looks[c] = 0
  /\ pc[c] \in {"settling", "looking"} /\ ~touched[c] =>
       /\ held[call[c].reg] = call[c].val
       /\ lag[call[c].reg] = 0 \/ lag[call[c].reg] + Slept(c) <= Lag
  /\ result[c] = "not applied" => touched[c]

SeenInv == WriteInv /\ \A c \in Callers : Alone(c)

(* While a call is under way, others only ever mark it as touched. *)
LEMMA AloneKept ==
  ASSUME SeenInv, NEW e \in Callers,
         pc'[e] = pc[e], call'[e] = call[e], looks'[e] = looks[e],
         result'[e] = result[e],
         \/ touched'[e]
         \/ pc[e] = "idle" /\ touched'[e] = touched[e]
         \/ /\ touched'[e] = touched[e]
            /\ held'[call[e].reg] = held[call[e].reg]
            /\ lag'[call[e].reg] \in {lag[call[e].reg], 0}
  PROVE  Alone(e)'
  BY DEF SeenInv, Alone, Slept

(* What the device takes for one register is news to nobody but the callers
   that have it under way. *)
LEMMA TakeKeepsAlone ==
  ASSUME SeenInv, NEW others, NEW q \in Registers, NEW v \in Words[q],
         Take(others, q, v), NEW e \in Callers, e \in others,
         pc'[e] = pc[e], call'[e] = call[e], looks'[e] = looks[e],
         result'[e] = result[e]
  PROVE  Alone(e)'
<1>1. CASE pc[e] # "idle" /\ call[e].reg = q
  BY <1>1, AloneKept DEF Take
<1>2. CASE pc[e] = "idle"
  BY <1>2, AloneKept DEF Take, SeenInv, WriteInv, TypeOK
<1>3. CASE pc[e] # "idle" /\ call[e].reg # q
  <2>1. call[e].reg \in Registers
    BY <1>3, UnderWay DEF SeenInv
  <2>2. /\ touched'[e] = touched[e]
        /\ held'[call[e].reg] = held[call[e].reg]
        /\ lag'[call[e].reg] = lag[call[e].reg]
    BY <1>3, <2>1 DEF Take, SeenInv, WriteInv, TypeOK, Contents
  <2>3. QED
    BY <2>2, AloneKept
<1>4. QED
  BY <1>1, <1>2, <1>3

LEMMA AloneInit == Init => \A c \in Callers : Alone(c)
  BY DEF Init, Alone

LEMMA AloneStep ==
  ASSUME Lag <= ReadBackAttempts, SeenInv, [Next]_vars, NEW e \in Callers
  PROVE  Alone(e)'
<1>0. /\ TypeOK /\ CallsTyped /\ DeviceTyped
      /\ \A c \in Callers : CallShape(c) /\ Alone(c)
      /\ touched \in [Callers -> BOOLEAN]
  BY BothTyped DEF SeenInv, WriteInv, TypeOK
<1>1. CASE \E c \in Callers : \E o \in Calls : Call(c, o)
  <2>1. PICK c \in Callers, o \in Calls : Call(c, o)
    BY <1>1
  <2>2. CASE c = e
    BY <1>0, <2>1, <2>2 DEF Call, Ends, Alone, CallsTyped
  <2>3. CASE c # e
    <3>1. /\ pc'[e] = pc[e] /\ call'[e] = call[e] /\ looks'[e] = looks[e]
          /\ result'[e] = result[e] /\ touched'[e] = touched[e]
          /\ held' = held /\ lag' = lag
      BY <1>0, <2>1, <2>3 DEF Call, Ends, CallsTyped, deviceVars
    <3>2. QED
      BY <3>1, AloneKept
  <2>4. QED
    BY <2>2, <2>3
<1>2. CASE \E c \in Callers : Answered(c)
  <2>1. PICK c \in Callers : Answered(c)
    BY <1>2
  <2>2. pc[c] = "sent" /\ call[c].reg \in Registers
        /\ call[c].val \in Words[call[c].reg]
    BY <2>1, UnderWay DEF SeenInv, Answered, Confirmed, ConfirmedAnother,
                          Refused, NoConfirmation
  <2>3. \/ Nothing
        \/ \E v \in Words[call[c].reg] : Take(Callers \ {c}, call[c].reg, v)
    BY <2>1, <2>2 DEF Answered, Confirmed, ConfirmedAnother, Refused,
                      NoConfirmation
  <2>4. CASE c # e
    <3>1. /\ pc'[e] = pc[e] /\ call'[e] = call[e] /\ looks'[e] = looks[e]
          /\ result'[e] = result[e]
      BY <1>0, <2>1, <2>4
      DEF Answered, Confirmed, ConfirmedAnother, Refused, NoConfirmation,
          Accepted, Ends, CallsTyped
    <3>2. CASE Nothing
      BY <3>1, <3>2, AloneKept DEF Nothing
    <3>3. CASE ~Nothing
      BY <2>2, <2>3, <2>4, <3>1, <3>3, TakeKeepsAlone
    <3>4. QED
      BY <3>2, <3>3
  <2>5. CASE c = e /\ Confirmed(e) /\ pc'[e] = "settling"
    <3>1. /\ Take(Callers \ {e}, call[e].reg, call[e].val)
          /\ call' = call /\ looks' = looks /\ result' = result
      BY <2>5, <1>0 DEF Confirmed, Accepted, Ends, CallsTyped
    <3>2. held'[call[e].reg] = call[e].val
      BY <1>0, <2>2, <2>5, <3>1 DEF Take, DeviceTyped, Contents
    <3>3. lag'[call[e].reg] = 0 \/ lag'[call[e].reg] = Lag
      BY <1>0, <2>2, <2>5, <3>1 DEF Take, DeviceTyped
    <3>4. looks[e] = 0
      BY <1>0, <2>2, <2>5 DEF Alone
    <3>5. Slept(e)' = 0 /\ result'[e] = "none"
      BY <1>0, <2>2, <2>5, <3>1, <3>4 DEF Slept, CallShape
    <3>6. lag'[call[e].reg] = 0 \/ lag'[call[e].reg] + Slept(e)' <= Lag
      BY <3>3, <3>5, Numbers
    <3>7. QED
      BY <2>5, <3>1, <3>2, <3>5, <3>6 DEF Alone
  <2>6. CASE c = e /\ ~(Confirmed(e) /\ pc'[e] = "settling")
    <3>1. pc'[e] = "idle" /\ result'[e] # "not applied" /\ looks'[e] = 0
      BY <1>0, <2>1, <2>6
      DEF Answered, Confirmed, ConfirmedAnother, Refused, NoConfirmation,
          Accepted, Ends, CallsTyped
    <3>2. QED
      BY <3>1 DEF Alone
  <2>7. QED
    BY <2>4, <2>5, <2>6
<1>3. CASE \E c \in Callers : Look(c) \/ LookFails(c) \/ Cancel(c)
  <2>1. PICK c \in Callers : Look(c) \/ LookFails(c) \/ Cancel(c)
    BY <1>3
  <2>2. held' = held /\ lag' = lag /\ touched' = touched
    BY <2>1 DEF Look, LookFails, Cancel, deviceVars
  <2>3. CASE c # e
    <3>1. /\ pc'[e] = pc[e] /\ call'[e] = call[e] /\ looks'[e] = looks[e]
          /\ result'[e] = result[e]
      BY <1>0, <2>1, <2>3 DEF Look, LookFails, Cancel, Ends, CallsTyped
    <3>2. QED
      BY <2>2, <3>1, AloneKept
  <2>4. CASE c = e /\ Look(e) /\ pc'[e] = "settling"
    <3>1. /\ pc[e] = "looking" /\ call' = call /\ result' = result
          /\ looks'[e] = looks[e] + 1
      BY <1>0, <2>4 DEF Look, Ends, CallsTyped
    <3>2. QED
      BY <1>0, <2>2, <2>4, <3>1 DEF Alone, Slept, CallShape
  <2>5. CASE c = e /\ Look(e) /\ Ends(e, "not applied")
    <3>1. /\ pc[e] = "looking"
          /\ shown[call[e].reg] # call[e].val
          /\ looks[e] = ReadBackAttempts - 1
      BY <1>0, <2>5 DEF Look, Ends, LooksSpent, CallsTyped
    <3>2. call[e].reg \in Registers
      BY <3>1, UnderWay DEF SeenInv
    <3>3. lag[call[e].reg] \in 0 .. Lag
      BY <1>0, <3>2 DEF DeviceTyped
    <3>4. touched[e]
      <4>1. SUFFICES ASSUME ~touched[e] PROVE FALSE
        OBVIOUS
      <4>2. /\ held[call[e].reg] = call[e].val
            /\ lag[call[e].reg] = 0 \/ lag[call[e].reg] + Slept(e) <= Lag
        BY <1>0, <3>1, <4>1 DEF Alone
      <4>3. lag[call[e].reg] = 0
        <5>1. Slept(e) = ReadBackAttempts
          BY <3>1, Numbers DEF Slept
        <5>2. QED
          BY <3>3, <4>2, <5>1, Numbers
      <4>4. QED
        BY <1>0, <3>1, <3>2, <4>2, <4>3 DEF DeviceTyped
    <3>5. pc'[e] = "idle" /\ looks'[e] = 0
      BY <1>0, <2>5 DEF Ends, CallsTyped
    <3>6. QED
      BY <2>2, <3>4, <3>5 DEF Alone
  <2>6. CASE /\ c = e
             /\ \E how \in {"error", "cancelled", "applied"} : Ends(e, how)
    BY <1>0, <2>6 DEF Ends, Alone, CallsTyped
  <2>7. QED
    BY <2>1, <2>3, <2>4, <2>5, <2>6, <1>0
    DEF Look, LookFails, Cancel, CallsTyped
<1>4. CASE Settle
  <2>1. /\ call' = call /\ looks' = looks /\ result' = result
        /\ held' = held /\ touched' = touched
    BY <1>4 DEF Settle
  <2>2. pc'[e] = IF pc[e] = "settling" THEN "looking" ELSE pc[e]
    BY <1>4 DEF Settle
  <2>3. CASE pc'[e] = "looking" /\ ~touched[e]
    <3>1. call[e].reg \in Registers
      BY <2>2, <2>3, UnderWay DEF SeenInv
    <3>2. /\ lag[call[e].reg] \in 0 .. Lag
          /\ lag'[call[e].reg] =
               IF lag[call[e].reg] = 0 THEN 0 ELSE lag[call[e].reg] - 1
      BY <1>0, <1>4, <3>1 DEF Settle, DeviceTyped
    <3>3. looks[e] \in Nat
      <4>1. looks[e] \in 0 .. ReadBackAttempts - 1
        BY <1>0 DEF CallsTyped
      <4>2. QED
        BY <4>1, Numbers
    <3>4. /\ held[call[e].reg] = call[e].val
          /\ \/ lag[call[e].reg] = 0
             \/ lag[call[e].reg] + Slept(e) <= Lag
          /\ Slept(e) = IF pc[e] = "looking" THEN looks[e] + 1 ELSE looks[e]
      BY <1>0, <2>2, <2>3 DEF Alone, Slept
    <3>5. Slept(e)' = looks[e] + 1
      BY <2>1, <2>3 DEF Slept
    <3>6. lag'[call[e].reg] = 0 \/ lag'[call[e].reg] + Slept(e)' <= Lag
      BY <3>2, <3>3, <3>4, <3>5, Numbers
    <3>7. QED
      BY <1>0, <2>1, <2>2, <2>3, <3>4, <3>6 DEF Alone
  <2>4. CASE ~(pc'[e] = "looking" /\ ~touched[e])
    BY <1>0, <2>1, <2>2, <2>4 DEF Alone, CallsTyped
  <2>5. QED
    BY <2>3, <2>4
<1>5. CASE \E o \in late : TakenLate(o)
  <2>1. PICK o \in late : TakenLate(o)
    BY <1>5
  <2>2. o.reg \in Registers /\ o.val \in Words[o.reg]
    BY <1>0, CallFields DEF DeviceTyped
  <2>3. QED
    BY <2>1, <2>2, TakeKeepsAlone DEF TakenLate, callVars
<1>6. CASE \E r \in Registers : CatchesUp(r)
  <2>1. PICK r \in Registers : CatchesUp(r)
    BY <1>6
  <2>2. CASE pc[e] = "idle"
    BY <2>1, <2>2, AloneKept DEF CatchesUp, callVars
  <2>3. CASE pc[e] # "idle"
    <3>1. call[e].reg \in Registers
      BY <2>3, UnderWay DEF SeenInv
    <3>2. lag'[call[e].reg] \in {lag[call[e].reg], 0}
      BY <1>0, <2>1, <3>1 DEF CatchesUp, DeviceTyped
    <3>3. QED
      BY <2>1, <3>2, AloneKept DEF CatchesUp, callVars
  <2>4. QED
    BY <2>2, <2>3
<1>7. CASE UNCHANGED vars
  BY <1>7, AloneKept DEF vars, callVars, deviceVars
<1>8. QED
  BY <1>1, <1>2, <1>3, <1>4, <1>5, <1>6, <1>7 DEF Next

(* A device that serves the old value for no more settle periods than there
   are looks causes no false alarm: a write it took and confirmed is seen,
   unless another one of the same register came in between. *)
THEOREM TakenWritesAreSeen ==
  ASSUME Lag <= ReadBackAttempts
  PROVE  Spec => []TakenIsSeen
<1>1. Init => SeenInv
  BY WriteInit, AloneInit DEF SeenInv
<1>2. SeenInv /\ [Next]_vars => SeenInv'
  BY WriteStep, AloneStep DEF SeenInv
<1>3. SeenInv => TakenIsSeen
  BY DEF SeenInv, Alone, TakenIsSeen
<1>4. QED
  BY <1>1, <1>2, <1>3, PTL DEF Spec

-----------------------------------------------------------------------------
(* How long a call may take: an answer, then a sleep and a look for each of
   ReadBackAttempts.  That a device answers, or the connection's request
   timeout does, is modbus_connection's to see to; that nothing else keeps a
   call going is the loop's. *)

StepsAt(p, k) ==
  IF p = "sent"          THEN 2 * ReadBackAttempts + 1
  ELSE IF p = "settling" THEN 2 * (ReadBackAttempts - k)
  ELSE IF p = "looking"  THEN 2 * (ReadBackAttempts - k) - 1
  ELSE 0

StepsOf(c) == StepsAt(pc[c], looks[c])

\* The steps of c's call: what answers it, its sleeps and its looks, its end.
OwnMove(c) ==
  \/ Answered(c)
  \/ pc[c] = "settling" /\ Settle
  \/ Look(c)
  \/ LookFails(c)
  \/ Cancel(c)

RunsDown(c) ==
  pc[c] # "idle" =>
    IF OwnMove(c) THEN StepsOf(c)' < StepsOf(c) ELSE StepsOf(c)' = StepsOf(c)

(* The count is one of steps, and is used up when the call is over. *)
LEMMA StepsBounded ==
  ASSUME TypeOK, NEW c \in Callers
  PROVE  /\ StepsOf(c) \in 0 .. 2 * ReadBackAttempts + 1
         /\ StepsOf(c) = 0 <=> pc[c] = "idle"
<1>1. /\ pc[c] \in {"idle", "sent", "settling", "looking"}
      /\ looks[c] \in 0 .. ReadBackAttempts - 1
  BY DEF TypeOK
<1>2. QED
  BY <1>1, Numbers DEF StepsOf, StepsAt

(* A call that is over has none left. *)
LEMMA EndRunsDown ==
  ASSUME TypeOK, NEW c \in Callers, pc[c] # "idle", NEW how, Ends(c, how)
  PROVE  StepsOf(c)' < StepsOf(c)
<1>1. pc'[c] = "idle"
  BY DEF Ends, TypeOK
<1>2. StepsOf(c)' = 0
  BY <1>1 DEF StepsOf, StepsAt
<1>3. StepsOf(c) \in Nat /\ StepsOf(c) # 0
  BY StepsBounded, Numbers
<1>4. QED
  BY <1>2, <1>3

(* Each of its own steps brings a call nearer its end: the answer, the sleep
   it sleeps together with the others, the look that is one of so many. *)
LEMMA OwnMovesRunDown ==
  ASSUME TypeOK, NEW c \in Callers, pc[c] # "idle", OwnMove(c)
  PROVE  StepsOf(c)' < StepsOf(c)
<1>1. /\ looks[c] \in 0 .. ReadBackAttempts - 1
      /\ ReadBackAttempts \in Nat /\ ReadBackAttempts > 0
  BY Numbers DEF TypeOK
<1>2. CASE \E how : Ends(c, how)
  BY <1>2, EndRunsDown
<1>3. CASE Confirmed(c) /\ ~(\E how : Ends(c, how))
  <2>1. pc[c] = "sent" /\ pc'[c] = "settling" /\ looks' = looks
    BY <1>3 DEF Confirmed, Accepted, TypeOK
  <2>2. StepsOf(c) = 2 * ReadBackAttempts + 1
    BY <2>1 DEF StepsOf, StepsAt
  <2>3. StepsOf(c)' = 2 * (ReadBackAttempts - looks[c])
    BY <2>1 DEF StepsOf, StepsAt
  <2>4. QED
    BY <1>1, <2>2, <2>3
<1>4. CASE pc[c] = "settling" /\ Settle
  <2>1. pc'[c] = "looking" /\ looks' = looks
    BY <1>4 DEF Settle
  <2>2. StepsOf(c) = 2 * (ReadBackAttempts - looks[c])
    BY <1>4 DEF StepsOf, StepsAt
  <2>3. StepsOf(c)' = 2 * (ReadBackAttempts - looks[c]) - 1
    BY <2>1 DEF StepsOf, StepsAt
  <2>4. QED
    BY <1>1, <2>2, <2>3
<1>5. CASE Look(c) /\ ~(\E how : Ends(c, how))
  <2>1. pc[c] = "looking" /\ pc'[c] = "settling" /\ looks'[c] = looks[c] + 1
    BY <1>5 DEF Look, TypeOK
  <2>2. StepsOf(c) = 2 * (ReadBackAttempts - looks[c]) - 1
    BY <2>1 DEF StepsOf, StepsAt
  <2>3. StepsOf(c)' = 2 * (ReadBackAttempts - (looks[c] + 1))
    BY <2>1 DEF StepsOf, StepsAt
  <2>4. QED
    BY <1>1, <2>2, <2>3
<1>6. QED
  BY <1>2, <1>3, <1>4, <1>5
     DEF OwnMove, Answered, ConfirmedAnother, Refused, NoConfirmation, LookFails,
         Cancel

(* What anybody else does - another caller's write of the same register, its
   looks, a write the device takes late - takes no step from a call and gives
   it none. *)
LEMMA OthersTakeNoSteps ==
  ASSUME TypeOK, NEW c \in Callers, pc[c] # "idle", ~OwnMove(c), [Next]_vars
  PROVE  StepsOf(c)' = StepsOf(c)
<1>1. ASSUME pc'[c] = pc[c], looks'[c] = looks[c]
      PROVE  StepsOf(c)' = StepsOf(c)
  BY <1>1 DEF StepsOf
<1>2. ASSUME NEW e \in Callers \ {c}, NEW how, Ends(e, how)
      PROVE  pc'[c] = pc[c] /\ looks'[c] = looks[c]
  BY <1>2 DEF Ends, TypeOK
<1>3. ASSUME NEW e \in Callers, NEW o \in Calls, Call(e, o)
      PROVE  StepsOf(c)' = StepsOf(c)
  <2>1. e # c
    BY <1>3 DEF Call
  <2>2. pc'[c] = pc[c] /\ looks'[c] = looks[c]
    BY <1>2, <1>3, <2>1 DEF Call, TypeOK
  <2>3. QED
    BY <1>1, <2>2
<1>4. ASSUME NEW e \in Callers, Answered(e) \/ Look(e) \/ LookFails(e) \/ Cancel(e)
      PROVE  StepsOf(c)' = StepsOf(c)
  <2>1. e # c
    BY <1>4 DEF OwnMove
  <2>2. CASE \E how : Ends(e, how)
    BY <1>1, <1>2, <2>1, <2>2
  <2>3. CASE ~(\E how : Ends(e, how))
    <3>1. \/ Confirmed(e) /\ Accepted(e)
          \/ Look(e)
      BY <1>4, <2>3 DEF Answered, Confirmed, ConfirmedAnother, Refused,
                        NoConfirmation, LookFails, Cancel
    <3>2. pc'[c] = pc[c] /\ looks'[c] = looks[c]
      BY <2>1, <2>3, <3>1 DEF Accepted, Look, TypeOK
    <3>3. QED
      BY <1>1, <3>2
  <2>4. QED
    BY <2>2, <2>3
<1>5. CASE Settle
  <2>1. pc[c] # "settling"
    BY <1>5 DEF OwnMove
  <2>2. QED
    BY <1>1, <1>5, <2>1 DEF Settle, TypeOK
<1>6. CASE (\E o \in late : TakenLate(o)) \/ (\E r \in Registers : CatchesUp(r))
           \/ UNCHANGED vars
  BY <1>1, <1>6 DEF TakenLate, CatchesUp, callVars, vars
<1>7. QED
  BY <1>3, <1>4, <1>5, <1>6 DEF Next

(* A call is over after its answer and ReadBackAttempts sleeps and looks, at
   the latest: each of its steps is one of these, and neither the writes of
   other callers to the same register nor a device that keeps serving the old
   value gives it another.  So the read back of write_register never goes on
   for ever, whatever the device shows. *)
THEOREM CallsRunOut ==
  Spec => /\ [](\A c \in Callers : /\ StepsOf(c) \in 0 .. 2 * ReadBackAttempts + 1
                                   /\ StepsOf(c) = 0 <=> pc[c] = "idle")
          /\ [][\A c \in Callers : RunsDown(c)]_vars
<1>1. WriteInv =>
        \A c \in Callers : /\ StepsOf(c) \in 0 .. 2 * ReadBackAttempts + 1
                           /\ StepsOf(c) = 0 <=> pc[c] = "idle"
  BY StepsBounded DEF WriteInv
<1>2. WriteInv /\ [Next]_vars => [\A c \in Callers : RunsDown(c)]_vars
  BY OwnMovesRunDown, OthersTakeNoSteps DEF RunsDown, WriteInv
<1>3. QED
  BY <1>1, <1>2, WriteInvariant, PTL DEF Spec
=============================================================================
