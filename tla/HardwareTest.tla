----------------------------- MODULE HardwareTest -----------------------------
(***************************************************************************)
(* An owner's hardware session: the scripts run one at a time, as they ask *)
(* for, in any order and any number of times, against one device.  What a  *)
(* run leaves behind in the device meets the next one: a silence, a write   *)
(* that nobody confirmed.  A script that starts is a new process.          *)
(***************************************************************************)
EXTENDS RegisterProbe, WriteProbe, ModesProbe

vars == <<deviceVars, probeVars, writeVars, modesVars>>

Init ==
  /\ DeviceInit
  /\ ProbeInit
  /\ WriteInit
  /\ ModesInit

AtRest == stage = "off" /\ wstage = "off" /\ mstage = "off"

\* A run is over and its process gone; what is left is the device.
Exits ==
  /\ stage = "over" \/ wstage = "over" \/ mstage = "over"
  /\ ProbeForgotten /\ WriteForgotten /\ ModesForgotten
  /\ UNCHANGED deviceVars

\* Time passes between two runs; the faults of the next one are its own.
TimePassed ==
  /\ hush' \in {0, hush}
  /\ faults' = 0
  /\ UNCHANGED open

\* By the time another script is used, the device has got to a late write, or
\* has dropped it.
Settled ==
  /\ held' \in {held} \cup late
  /\ late' = {}

StartRegisterProbe ==
  /\ AtRest
  /\ TimePassed /\ Settled
  /\ \E s \in Services, b \in BOOLEAN : ProbeStarts(s, b)
  /\ WriteForgotten /\ ModesForgotten

StartWriteProbe ==
  /\ AtRest
  /\ TimePassed /\ SettingKept
  /\ \E v \in Settings \cup {NoValue}, k \in BOOLEAN : WriteStarts(v, k)
  /\ ProbeForgotten /\ ModesForgotten

StartModesProbe ==
  /\ AtRest
  /\ TimePassed /\ Settled
  /\ \/ \E mode, period \in BOOLEAN :
          (mode \/ period) /\ ModesStarts(mode, period, FALSE, <<>>, "as-is")
     \/ \E inputs \in BOOLEAN, p \in Plans, o \in Orders :
          ModesStarts(FALSE, FALSE, inputs, p, o)
  /\ ProbeForgotten /\ WriteForgotten

ScriptStep ==
  \/ ProbeStep /\ SettingKept /\ UNCHANGED <<writeVars, modesVars>>
  \/ WriteStep /\ UNCHANGED <<probeVars, modesVars>>
  \/ ModesStep /\ SettingKept /\ UNCHANGED <<probeVars, writeVars>>

LateWrite ==
  /\ \E v \in Settings : TakesLate(v)
  /\ UNCHANGED <<probeVars, writeVars, modesVars>>

Next ==
  \/ StartRegisterProbe
  \/ StartWriteProbe
  \/ StartModesProbe
  \/ ScriptStep
  \/ Exits
  \/ LateWrite

\* Every request of a script is answered or times out, every sleep ends.
Spec == Init /\ [][Next]_vars /\ WF_vars(ScriptStep \/ Exits)
-----------------------------------------------------------------------------
HardwareTypeOK == DeviceTypeOK /\ ProbeTypeOK /\ WriteTypeOK /\ ModesTypeOK

\* Every run of a script ends, the device silent for good or not.
EveryRunEnds == []<>AtRest
=============================================================================
