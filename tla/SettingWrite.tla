----------------------------- MODULE SettingWrite -----------------------------
(***************************************************************************)
(* Writing settings: BluettiDevice.write_register and write, and the       *)
(* command line's write_field on top of write.  Several callers write over *)
(* one connection to a device that applies a write at once but serves the  *)
(* old value for a while, may confirm it at an internal address, may clamp *)
(* it, and may apply a write whose confirmation never arrives.             *)
(***************************************************************************)
EXTENDS Naturals

CONSTANTS
  Callers,            \* the tasks that write
  Registers,          \* the fields' addresses
  Words,              \* Words[r]: the values register r can hold
  Ranged,             \* registers whose field has a Range as writable
  Flagged,            \* registers whose field has writable=True
  Bounds,             \* Bounds[r]: what the Range of r's field accepts
  Table,              \* WRITABLE_REGISTERS: a function on some addresses
  ReadBackAttempts,   \* READ_BACK_ATTEMPTS
  Lag                 \* settle periods a device may serve the old value for

ASSUME WriteAssumption ==
  /\ Ranged \subseteq Registers /\ Flagged \subseteq Registers
  /\ Ranged \cap Flagged = {}
  /\ DOMAIN Words = Registers /\ DOMAIN Bounds = Ranged
  /\ \A r \in Ranged : Bounds[r] \subseteq Words[r]
  /\ DOMAIN Table \subseteq Registers
  /\ \A r \in DOMAIN Table : Table[r] \subseteq Words[r]
  /\ ReadBackAttempts \in Nat \ {0} /\ Lag \in Nat

VARIABLES
  pc,       \* pc[c]: where c's call stands
  call,     \* call[c]: the operation, the register and the value
  looks,    \* looks[c]: how often the register was read back
  result,   \* result[c]: what the caller of c's latest call got
  held,     \* held[r]: the setting the device applies
  shown,    \* shown[r]: the value it serves to a read
  lag,      \* lag[r]: settle periods until shown[r] must be held[r]
  late,     \* writes the device received and has neither taken nor dropped
  took,     \* history: the device took the write of c's latest call
  touched   \* history: another write of that register landed during the call

callVars   == <<pc, call, looks, result>>
deviceVars == <<held, shown, lag, late>>
vars       == <<callVars, deviceVars, took, touched>>

Operations == {"write_register", "write", "write_field"}

\* write returns once the device has confirmed; the other two read back.
ReadsBack == {"write_register", "write_field"}

Writes == UNION {[reg : {r}, val : Words[r]] : r \in Registers}

Calls == UNION {[via : Operations, reg : {r}, val : Words[r]] : r \in Registers}

\* What the registers of the device may hold.
Contents == {f \in [Registers -> UNION {Words[r] : r \in Registers}] :
               \A r \in Registers : f[r] \in Words[r]}

NoCall == [via |-> "none"]

TypeOK ==
  /\ pc      \in [Callers -> {"idle", "sent", "settling", "looking"}]
  /\ call    \in [Callers -> Calls \cup {NoCall}]
  /\ looks   \in [Callers -> 0 .. ReadBackAttempts - 1]
  /\ result  \in [Callers -> {"none", "refused", "error", "cancelled",
                              "written", "applied", "not applied"}]
  /\ held    \in Contents
  /\ shown   \in Contents
  /\ lag     \in [Registers -> 0 .. Lag]
  /\ late    \subseteq Writes
  /\ took    \in [Callers -> BOOLEAN]
  /\ touched \in [Callers -> BOOLEAN]
  /\ \A c \in Callers : pc[c] # "idle" <=> call[c] \in Calls
  /\ \A r \in Registers : lag[r] = 0 => shown[r] = held[r]

Init ==
  /\ pc     = [c \in Callers |-> "idle"]
  /\ call   = [c \in Callers |-> NoCall]
  /\ looks  = [c \in Callers |-> 0]
  /\ result = [c \in Callers |-> "none"]
  /\ held \in Contents
  /\ shown = held
  /\ lag   = [r \in Registers |-> 0]
  /\ late  = {}
  /\ took    = [c \in Callers |-> FALSE]
  /\ touched = [c \in Callers |-> FALSE]
-----------------------------------------------------------------------------
\* Mutant: the table's bound counts where the field states one as well.
TableBoundFirst(o) ==
  /\ o.reg \in Ranged \cup Flagged
  /\ IF o.via = "write_register"
       THEN o.reg \in DOMAIN Table /\ o.val \in Table[o.reg]
       ELSE o.reg \in Ranged => o.val \in Bounds[o.reg]

\* What is sent at all: write_register wants a register of the table whose
\* field is writable, and a value in the field's own bound if it states one,
\* else in the table's; write wants a writable field and its bound if any.
Accepts(o) ==
  /\ o.reg \in Ranged \cup Flagged
  /\ o.via = "write_register" => o.reg \in DOMAIN Table
  /\ o.reg \in Ranged => o.val \in Bounds[o.reg]
  /\ o.via = "write_register" /\ o.reg \in Flagged => o.val \in Table[o.reg]

\* The device takes value v for r and may serve the old one for a while.  The
\* calls of others that are under way on r are no longer alone on it.
Take(others, r, v) ==
  /\ held' = [held EXCEPT ![r] = v]
  /\ \/ shown' = [shown EXCEPT ![r] = v] /\ lag' = [lag EXCEPT ![r] = 0]
     \/ Lag > 0 /\ lag' = [lag EXCEPT ![r] = Lag] /\ UNCHANGED shown
  /\ touched' = [e \in Callers |->
       touched[e] \/ (e \in others /\ pc[e] # "idle" /\ call[e].reg = r)]

Nothing == UNCHANGED <<held, shown, lag, touched>>

Lingers(c) == late' = late \cup {[reg |-> call[c].reg, val |-> call[c].val]}

\* The call returns or raises; nothing of it is kept.
Ends(c, how) ==
  /\ pc'     = [pc EXCEPT ![c] = "idle"]
  /\ call'   = [call EXCEPT ![c] = NoCall]
  /\ looks'  = [looks EXCEPT ![c] = 0]
  /\ result' = [result EXCEPT ![c] = how]

\* A call is refused before anything is sent, or its write goes out.
Call(c, o) ==
  /\ pc[c] = "idle"
  /\ took'    = [took EXCEPT ![c] = FALSE]
  /\ touched' = [touched EXCEPT ![c] = FALSE]
  /\ \/ /\ Accepts(o)
        /\ pc'     = [pc EXCEPT ![c] = "sent"]
        /\ call'   = [call EXCEPT ![c] = o]
        /\ result' = [result EXCEPT ![c] = "none"]
        /\ UNCHANGED looks
     \/ /\ ~ Accepts(o)
        /\ Ends(c, "refused")
  /\ UNCHANGED deviceVars

\* The confirmation is accepted: write is done, the others wait to read back.
Accepted(c) ==
  \/ /\ call[c].via \in ReadsBack
     /\ pc' = [pc EXCEPT ![c] = "settling"]
     /\ UNCHANGED <<call, looks, result>>
  \/ /\ call[c].via \notin ReadsBack
     /\ Ends(c, "written")

\* The device takes the write and confirms it, at the address written to or -
\* a protocol error whose response is a confirmation of the same value - at
\* the setting's internal one.
Confirmed(c) ==
  /\ pc[c] = "sent"
  /\ Take(Callers \ {c}, call[c].reg, call[c].val)
  /\ took' = [took EXCEPT ![c] = TRUE]
  /\ Accepted(c)
  /\ UNCHANGED late

\* Mutant: the value a confirmation carries is not compared.
AnyEchoAccepted(c, v) ==
  /\ pc[c] = "sent"
  /\ v # call[c].val
  /\ call[c].reg \in Ranged => v \in Bounds[call[c].reg]
  /\ Take(Callers \ {c}, call[c].reg, v)
  /\ Accepted(c)
  /\ UNCHANGED <<late, took>>

\* The device takes another value than the one asked for and confirms that: a
\* protocol error that is a confirmation, but not of this write.
ConfirmedAnother(c, v) ==
  /\ pc[c] = "sent"
  /\ v # call[c].val
  /\ call[c].reg \in Ranged => v \in Bounds[call[c].reg]
  /\ Take(Callers \ {c}, call[c].reg, v)
  /\ Ends(c, "error")
  /\ UNCHANGED <<late, took>>

\* The device refuses, with a Modbus exception.
Refused(c) ==
  /\ pc[c] = "sent"
  /\ Ends(c, "error")
  /\ Nothing
  /\ UNCHANGED <<late, took>>

\* No confirmation that can be read: a corrupted one, a busy reply, none in
\* time, or the connection lost.  The write is not repeated; the device has
\* taken it, takes it later or never does.
NoConfirmation(c) ==
  /\ pc[c] = "sent"
  /\ Ends(c, "error")
  /\ \/ /\ Take(Callers \ {c}, call[c].reg, call[c].val)
        /\ took' = [took EXCEPT ![c] = TRUE]
        /\ UNCHANGED late
     \/ /\ Lingers(c)
        /\ Nothing
        /\ UNCHANGED took
     \/ Nothing /\ UNCHANGED <<late, took>>

\* await asyncio.sleep(settle) of the callers that wait, and the device
\* settling in the meantime: one of its periods for each of their sleeps.
Settle ==
  /\ \E c \in Callers : pc[c] = "settling"
  /\ pc' = [c \in Callers |-> IF pc[c] = "settling" THEN "looking" ELSE pc[c]]
  /\ lag' = [r \in Registers |-> IF lag[r] = 0 THEN 0 ELSE lag[r] - 1]
  /\ shown' = [r \in Registers |-> IF lag[r] <= 1 THEN held[r] ELSE shown[r]]
  /\ UNCHANGED <<call, looks, result, held, late, took, touched>>

\* Mutants: one look too few, and one too many.
OneLookLess(c) == looks[c] >= ReadBackAttempts - 2
OneLookMore(c) == looks[c] = ReadBackAttempts

\* The loop over range(READ_BACK_ATTEMPTS) is through.
LooksSpent(c) == looks[c] = ReadBackAttempts - 1

\* Reading the register back: done if it holds the value or has been read
\* ReadBackAttempts times.
Look(c) ==
  /\ pc[c] = "looking"
  /\ LET same == shown[call[c].reg] = call[c].val IN
       \/ /\ same
          /\ Ends(c, "applied")
       \/ /\ ~ same /\ LooksSpent(c)
          /\ Ends(c, "not applied")
       \/ /\ ~ same /\ ~ LooksSpent(c)
          /\ looks' = [looks EXCEPT ![c] = @ + 1]
          /\ pc'    = [pc EXCEPT ![c] = "settling"]
          /\ UNCHANGED <<call, result>>
  /\ UNCHANGED <<deviceVars, took, touched>>

LookFails(c) ==
  /\ pc[c] = "looking"
  /\ Ends(c, "error")
  /\ UNCHANGED <<deviceVars, took, touched>>

\* The caller is cancelled; a write that is out may still reach the device.
Cancel(c) ==
  /\ pc[c] # "idle"
  /\ Ends(c, "cancelled")
  /\ \/ pc[c] = "sent" /\ Lingers(c)
     \/ UNCHANGED late
  /\ UNCHANGED <<held, shown, lag, took, touched>>

\* The device gets to a write nobody waits for any more.
TakenLate(o) ==
  /\ late' = late \ {o}
  /\ Take(Callers, o.reg, o.val)
  /\ UNCHANGED <<callVars, took>>

\* The device serves what it holds, before it has to.
CatchesUp(r) ==
  /\ lag[r] > 0
  /\ shown' = [shown EXCEPT ![r] = held[r]]
  /\ lag'   = [lag EXCEPT ![r] = 0]
  /\ UNCHANGED <<callVars, held, late, took, touched>>

Answered(c) ==
  \/ Confirmed(c)
  \/ pc[c] = "sent" /\ \E v \in Words[call[c].reg] : ConfirmedAnother(c, v)
  \/ Refused(c)
  \/ NoConfirmation(c)

Next ==
  \/ \E c \in Callers :
       \/ \E o \in Calls : Call(c, o)
       \/ Answered(c)
       \/ Look(c)
       \/ LookFails(c)
       \/ Cancel(c)
  \/ Settle
  \/ \E o \in late : TakenLate(o)
  \/ \E r \in Registers : CatchesUp(r)

Spec == Init /\ [][Next]_vars
-----------------------------------------------------------------------------
\* A call that reports success had its own value taken by the device: neither
\* a confirmation of another value nor the luck of reading the value some
\* other write left there passes for it (the echoed[1] != value checks).
SuccessWasTaken ==
  \A c \in Callers : result[c] \in {"written", "applied"} => took[c]

\* No false alarm: a write the device took and confirmed is reported as
\* applied, however many of the ReadBackAttempts looks still see the old value,
\* unless another write of the register landed in between.
TakenIsSeen ==
  \A c \in Callers : result[c] = "not applied" => touched[c]

\* The device's settings change as the profile declares, whichever operation is
\* called with whatever value, and late writes included: only fields marked
\* writable, and inside the Range a field states even where the table of
\* write_register knows a wider one.
SettingsChangeAsDeclared ==
  [][\A r \in Registers :
       held'[r] # held[r] =>
         r \in Ranged \cup Flagged /\ (r \in Ranged => held'[r] \in Bounds[r])]_vars
=============================================================================
