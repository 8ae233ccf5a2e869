------------------------------ MODULE WriteProbe ------------------------------
(***************************************************************************)
(* script/write_probe.py: writes a setting register the value it holds,    *)
(* then, if asked to, a new value, which it reads back and takes back.     *)
(***************************************************************************)
EXTENDS ProbeDevice

NoValue == "none"
NotRead == "unread"

ASSUME WriteAssumption == NoValue \notin Settings /\ NotRead \notin Settings

VARIABLES
  wstage,     \* where the run stands
  value,      \* --value, or NoValue
  keep,       \* --keep
  current,    \* the value read first
  new,        \* what was read after the new value was written
  wcode,      \* the exit code, or that an exception ended the run
  said,       \* what the run told of the setting when it ended early
  origin,     \* history: the setting when the run began
  leftover    \* history: a write of an earlier run was still out then

writeVars ==
  <<wstage, value, keep, current, new, wcode, said, origin, leftover>>

WriteTypeOK ==
  /\ wstage \in {"off", "connect", "before", "sameValue", "after", "newValue",
                 "afterNew", "restore", "afterRestore", "close", "over"}
  /\ value \in Settings \cup {NoValue}
  /\ keep \in BOOLEAN /\ (keep => value # NoValue)
  /\ current \in Settings \cup {NotRead}
  /\ new \in Settings \cup {NotRead}
  /\ wcode \in {"none", "0", "1", "raised"}
  /\ said \in {"none", "nothing written", "nothing changed", "set it back"}
  /\ origin \in Settings \cup {NotRead}
  /\ leftover \in BOOLEAN
  /\ wstage \in {"sameValue", "after", "newValue", "afterNew", "restore",
                 "afterRestore"} => current \in Settings
  /\ wstage \in {"newValue", "afterNew", "restore", "afterRestore"} =>
       value \in Settings

WriteInit ==
  /\ wstage = "off"
  /\ value = NoValue /\ keep = FALSE
  /\ current = NotRead /\ new = NotRead
  /\ wcode = "none" /\ said = "none"
  /\ origin = NotRead
  /\ leftover = FALSE

WriteReset(next, v, k) ==
  /\ wstage' = next
  /\ value' = v /\ keep' = k
  /\ current' = NotRead /\ new' = NotRead
  /\ wcode' = "none" /\ said' = "none"

\* WriteProbe.__init__: a run with or without a value to write (parse_args).
WriteStarts(v, k) ==
  /\ wstage = "off"
  /\ k => v # NoValue
  /\ WriteReset("connect", v, k)
  /\ origin' = held
  /\ leftover' = (late # {})

WriteForgotten ==
  /\ WriteReset("off", NoValue, FALSE)
  /\ origin' = NotRead
  /\ leftover' = FALSE
-----------------------------------------------------------------------------
Continue(next) == wstage' = next /\ UNCHANGED <<wcode, said>>

Return(how, words) == wstage' = "close" /\ wcode' = how /\ said' = words

\* run: a connection that fails is raised, before there is one to close.
WriteConnects ==
  /\ wstage = "connect"
  /\ \/ Connects /\ Continue("before")
     \/ ConnectFails /\ wstage' = "over" /\ wcode' = "raised" /\ UNCHANGED said
  /\ SettingKept
  /\ UNCHANGED <<value, keep, current, new, origin, leftover>>

\* read(): the register's value, or None whatever went wrong.
Reads(v) ==
  /\ v # NotRead => Answers /\ v = held
  /\ v = NotRead => \E k \in Failures : Fails(k)
  /\ SettingKept

ReadBefore ==
  /\ wstage = "before"
  /\ \E v \in Settings \cup {NotRead} :
       /\ Reads(v)
       /\ current' = v
       /\ IF v = NotRead THEN Return("1", "nothing written")
                         ELSE Continue("sameValue")
  /\ UNCHANGED <<value, keep, new, origin, leftover>>

\* write(): confirmed at the register's address or at an internal one.  A
\* device may settle on another value than the one it confirmed, unless it is
\* the one it holds.
Confirmed(v) ==
  /\ Answers
  /\ held' \in IF v = held THEN {v} ELSE Settings
  /\ UNCHANGED late

\* Refused, or without a confirmation: then nobody knows whether it was taken.
NotConfirmed(v) ==
  \/ Answers /\ SettingKept
  \/ \E k \in Failures \ {"lost"} : Fails(k) /\ MayTake(v)

\* A lost link is not caught.
WriteLost(v) == Fails("lost") /\ MayTake(v)

WriteSame ==
  /\ wstage = "sameValue"
  /\ \/ Confirmed(current) /\ Continue("after")
     \/ NotConfirmed(current) /\ Return("1", "nothing changed")
     \/ WriteLost(current) /\ Return("raised", "none")
  /\ UNCHANGED <<value, keep, current, new, origin, leftover>>

ReadAfter ==
  /\ wstage = "after"
  /\ \E v \in Settings \cup {NotRead} :
       /\ Reads(v)
       /\ IF v # current            THEN Return("1", "none")
          ELSE IF value = NoValue   THEN Return("0", "none")
          ELSE Continue("newValue")
  /\ UNCHANGED <<value, keep, current, new, origin, leftover>>

\* Mutant: a new value without a confirmation is taken for a refused one.
UnconfirmedIsUnchanged ==
  /\ wstage = "newValue"
  /\ \/ Confirmed(value) /\ Continue("afterNew")
     \/ NotConfirmed(value) /\ Return("1", "nothing changed")
     \/ WriteLost(value) /\ Return("raised", "none")
  /\ UNCHANGED <<value, keep, current, new, origin, leftover>>

\* A new value that is not confirmed ends the run: nothing is restored.
WriteNew ==
  /\ wstage = "newValue"
  /\ \/ Confirmed(value) /\ Continue("afterNew")
     \/ NotConfirmed(value) /\ Return("1", "none")
     \/ WriteLost(value) /\ Return("raised", "none")
  /\ UNCHANGED <<value, keep, current, new, origin, leftover>>

\* Whatever is read back is only told; with --keep that is all.
ReadNew ==
  /\ wstage = "afterNew"
  /\ \E v \in Settings \cup {NotRead} : Reads(v) /\ new' = v
  /\ IF keep THEN Return("0", "none") ELSE Continue("restore")
  /\ UNCHANGED <<value, keep, current, origin, leftover>>

Restore ==
  /\ wstage = "restore"
  /\ \/ Confirmed(current) /\ Continue("afterRestore")
     \/ NotConfirmed(current) /\ Return("1", "set it back")
     \/ WriteLost(current) /\ Return("raised", "none")
  /\ UNCHANGED <<value, keep, current, new, origin, leftover>>

\* Mutant: the exit code does not say what is read after the restore.
RestoreUnchecked ==
  /\ wstage = "afterRestore"
  /\ \E v \in Settings \cup {NotRead} : Reads(v)
  /\ Return("0", "none")
  /\ UNCHANGED <<value, keep, current, new, origin, leftover>>

ReadRestored ==
  /\ wstage = "afterRestore"
  /\ \E v \in Settings \cup {NotRead} :
       Reads(v) /\ Return(IF v = current THEN "0" ELSE "1", "none")
  /\ UNCHANGED <<value, keep, current, new, origin, leftover>>

WriteCloses ==
  /\ wstage = "close" /\ Closes /\ SettingKept
  /\ wstage' = "over"
  /\ UNCHANGED <<value, keep, current, new, wcode, said, origin, leftover>>

WriteStep ==
  \/ WriteConnects
  \/ ReadBefore
  \/ WriteSame
  \/ ReadAfter
  \/ WriteNew
  \/ ReadNew
  \/ Restore
  \/ ReadRestored
  \/ WriteCloses
-----------------------------------------------------------------------------
WriteOver == wstage = "over" /\ ~ leftover

\* A run that ends with 0 without --keep leaves the setting as it found it,
\* with no write of it still under way; one that ends with 0 with --keep and
\* said that its value applied leaves that value.  Only a write of an earlier
\* run that nobody confirmed can make either untrue.
CleanExitRestores ==
  (WriteOver /\ wcode = "0") =>
    /\ late = {}
    /\ ~ keep => held = origin
    /\ (keep /\ new = value) => held = value

\* Told that nothing was written or changed, the owner finds the setting as it
\* was, even if a write went out and timed out: it can only be the old value.
NothingChangedIsTrue ==
  (WriteOver /\ said \in {"nothing written", "nothing changed"}) =>
    held = origin /\ late \subseteq {origin}
=============================================================================
