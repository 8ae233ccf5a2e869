------------------------------ MODULE ProbeDevice ------------------------------
(***************************************************************************)
(* What the hardware scripts (script/*.py) talk to: one device behind one  *)
(* modbus_connection, modelled from how the scripts use it.  A device may  *)
(* fall silent for some time, a link may be lost, an answer corrupted; a   *)
(* write nobody confirmed may have been taken, may be taken later, or not. *)
(*                                                                         *)
(* A tick is the --recover-delay of the scripts.                           *)
(***************************************************************************)
EXTENDS Naturals

CONSTANTS
  Settings,    \* the values of the register write_probe.py writes
  MaxHush,     \* silent for that many ticks: silent for good
  Silences,    \* for how many ticks a device falls silent
  MaxFaults    \* how often something goes wrong in a run of a script

ASSUME DeviceAssumption ==
  /\ MaxHush \in Nat /\ MaxFaults \in Nat
  /\ Silences \subseteq 1 .. MaxHush

VARIABLES
  open,     \* the script's connection is open
  hush,     \* ticks for which the device answers nothing
  faults,   \* faults so far
  held,     \* the setting the device applies
  late      \* writes it received and has neither taken nor dropped

linkVars   == <<open, hush, faults>>
deviceVars == <<open, hush, faults, held, late>>

DeviceTypeOK ==
  /\ open   \in BOOLEAN
  /\ hush   \in 0 .. MaxHush
  /\ faults \in 0 .. MaxFaults
  /\ held   \in Settings
  /\ late   \subseteq Settings

DeviceInit ==
  /\ open   = FALSE
  /\ hush   = 0
  /\ faults = 0
  /\ held \in Settings
  /\ late   = {}

Failures == {"timeout", "protocol", "exception", "lost"}

\* A request is answered; the backend connects on demand.
Answers ==
  /\ hush = 0
  /\ open' = TRUE
  /\ UNCHANGED <<hush, faults>>

\* A request of something the device does not serve and does not reject.
FallsSilent ==
  /\ hush = 0
  /\ open' = TRUE
  /\ hush' \in {0} \cup Silences
  /\ UNCHANGED faults

\* A request fails: while the device is silent, or by a fault.
Fails(k) ==
  \/ /\ hush > 0
     /\ k = "timeout" \/ (k = "lost" /\ ~ open)
     /\ UNCHANGED linkVars
  \/ /\ hush = 0
     /\ faults < MaxFaults
     /\ faults' = faults + 1
     /\ open'   = (k # "lost")
     /\ hush' \in IF k \in {"timeout", "lost"} THEN {0} \cup Silences ELSE {0}

\* conn.connect(): a silent device may still accept a connection.
Connects ==
  /\ open' = TRUE
  /\ UNCHANGED <<hush, faults>>

ConnectFails ==
  /\ open' = FALSE
  /\ \/ hush > 0 /\ UNCHANGED <<hush, faults>>
     \/ /\ hush = 0
        /\ faults < MaxFaults
        /\ faults' = faults + 1
        /\ hush' \in Silences

\* conn.disconnect(), a wait, and conn.connect(): link says how that goes.
Left(ticks) ==
  IF hush = MaxHush THEN hush ELSE IF hush > ticks THEN hush - ticks ELSE 0

ReopensAfter(ticks) ==
  /\ open' = TRUE
  /\ hush' = Left(ticks)
  /\ UNCHANGED faults

StaysDownAfter(ticks) ==
  /\ open' = FALSE
  /\ \/ Left(ticks) > 0 /\ hush' = Left(ticks) /\ UNCHANGED faults
     \/ /\ Left(ticks) = 0
        /\ faults < MaxFaults
        /\ faults' = faults + 1
        /\ hush' \in Silences

Closes ==
  /\ open' = FALSE
  /\ UNCHANGED <<hush, faults>>

SettingKept == UNCHANGED <<held, late>>

\* A write of v that was not confirmed.
MayTake(v) ==
  \/ held' = v /\ UNCHANGED late
  \/ late' = late \cup {v} /\ UNCHANGED held
  \/ SettingKept

\* The device gets to a write nobody waits for any more.
TakesLate(v) ==
  /\ v \in late
  /\ held' = v
  /\ late' = late \ {v}
  /\ UNCHANGED linkVars
=============================================================================
