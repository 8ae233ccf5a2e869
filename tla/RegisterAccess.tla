---------------------------- MODULE RegisterAccess ----------------------------
(***************************************************************************)
(* The registers of a device that may be read: the runs                    *)
(* BluettiDevice.readable_ranges computes and read_registers keeps to, and *)
(* the blocks a poll reads, planned by modbus_connection from the same     *)
(* fields.  A read that touches an address the device does not serve may   *)
(* get no reply at all, so the two computations have to agree.             *)
(*                                                                         *)
(* A device is known by its profile: the spans of registers its fields     *)
(* occupy, and the ranges the profile declares, if any.  Both computations *)
(* are loops over the sorted spans, a step here is one round of a loop.    *)
(***************************************************************************)
EXTENDS Integers

CONSTANTS
  Profiles,   \* the profiles of devices (module Profiles)
  MaxGap      \* BluettiDevice.max_gap

IsSpan(s) == s \in Int \X Int /\ s[1] <= s[2]

Inside(s, r) == r[1] <= s[1] /\ s[2] <= r[2]

\* What a profile has to be for a poll to read it: no field is longer than a
\* block, and where ranges are declared each field lies in one of them.
ASSUME ProfileAssumption ==
  /\ MaxGap \in Nat \ {0}
  /\ \A p \in Profiles :
       /\ p.span \in Nat
       /\ \A f \in p.fields : IsSpan(f) /\ f[2] - f[1] < p.span
       /\ \A r \in p.declared : IsSpan(r)
       /\ p.declared # {} =>
            \A f \in p.fields : \E r \in p.declared : Inside(f, r)

\* The first register of the settings.
SettingsStart == 57001

\* What the profiles of the Balco family have to be for the settings to be read
\* apart: two fields near enough to be read together, and in one range where
\* there are any, have no register between them that is beyond SettingsStart
\* and in no field.
ASSUME SettingsAssumption ==
  \A p \in Profiles : p.balco =>
    \A f, g \in p.fields :
      /\ g[1] - f[2] <= MaxGap
      /\ p.declared = {} \/ \E r \in p.declared : Inside(<<f[2], g[1]>>, r)
      => \A x \in f[2] + 1 .. g[1] - 1 :
           x >= SettingsStart => \E h \in p.fields : Inside(<<x, x>>, h)

VARIABLES
  profile,   \* that of the device at hand
  phase,     \* which loop is running: "ranges", "plan", or none ("ready",
             \* and "answered" after a call of read_registers)
  todo,      \* the spans the loop has not come to
  last,      \* the run or block at the end of its list
  ranges,    \* readable_ranges
  blocks,    \* the blocks of a poll
  read       \* the registers read_registers asked for last, as a span

accessVars == <<profile, phase, todo, last, ranges, blocks, read>>

NoRead == <<0, -1>>

Fields   == profile.fields
Declared == profile.declared
MaxSpan  == profile.span

RegTypeOK ==
  /\ profile \in Profiles
  /\ phase \in {"ranges", "plan", "ready", "answered"}
  /\ todo \subseteq Fields
  /\ \A r \in ranges \cup blocks : IsSpan(r)
  /\ read = NoRead \/ IsSpan(read)

Init ==
  /\ profile \in Profiles
  /\ phase  = "ranges"
  /\ todo   = Fields
  /\ last   = NoRead
  /\ ranges = {}
  /\ blocks = {}
  /\ read   = NoRead
-----------------------------------------------------------------------------
Larger(m, n) == IF m >= n THEN m ELSE n

\* s is the next one of the sorted spans.
Least(s) ==
  /\ s \in todo
  /\ \A t \in todo : s[1] < t[1] \/ (s[1] = t[1] /\ s[2] <= t[2])

Extended(r, s) == <<r[1], Larger(r[2], s[2])>>

\* Mutant: a gap is counted in the registers it leaves out.
NearByRegisters(s) == s[1] - last[2] - 1 <= MaxGap

\* Close enough to the last run, or block, for one read.
Near(s) == s[1] - last[2] <= MaxGap

DeclaredRanges ==
  /\ phase = "ranges"
  /\ Declared # {}
  /\ ranges' = Declared
  /\ phase'  = "plan"
  /\ UNCHANGED <<profile, todo, last, blocks, read>>

\* Mutant: the run ends where the span that joins it does.
JoinRunAtItsEnd(s) ==
  /\ phase = "ranges"
  /\ Declared = {}
  /\ Least(s)
  /\ ranges # {} /\ Near(s)
  /\ last'   = <<last[1], s[2]>>
  /\ ranges' = (ranges \ {last}) \cup {last'}
  /\ todo'   = todo \ {s}
  /\ UNCHANGED <<profile, phase, blocks, read>>

JoinRun(s) ==
  /\ phase = "ranges"
  /\ Declared = {}
  /\ Least(s)
  /\ ranges # {} /\ Near(s)
  /\ last'   = Extended(last, s)
  /\ ranges' = (ranges \ {last}) \cup {last'}
  /\ todo'   = todo \ {s}
  /\ UNCHANGED <<profile, phase, blocks, read>>

OpenRun(s) ==
  /\ phase = "ranges"
  /\ Declared = {}
  /\ Least(s)
  /\ ~(ranges # {} /\ Near(s))
  /\ last'   = s
  /\ ranges' = ranges \cup {s}
  /\ todo'   = todo \ {s}
  /\ UNCHANGED <<profile, phase, blocks, read>>

RangesDone ==
  /\ phase = "ranges"
  /\ Declared = {}
  /\ todo = {}
  /\ phase' = "plan"
  /\ todo'  = Fields
  /\ UNCHANGED <<profile, last, ranges, blocks, read>>
-----------------------------------------------------------------------------
(* The plan of a poll, modbus_connection's: the blocks it is known to plan
   for the profiles of this repository.  A block is kept within max_span, and
   within one declared range where there are any. *)

\* Mutant: the declared ranges are not given to the planner.
NothingDeclared(s) == TRUE

InOneRange(s) ==
  Declared = {} \/ \E r \in Declared : Inside(Extended(last, s), r)

\* Mutant: max_span counts the registers after the first.
FitsButOne(s) == Extended(last, s)[2] - last[1] <= MaxSpan

Fits(s) == Extended(last, s)[2] - last[1] < MaxSpan

Extends(s) == blocks # {} /\ Near(s) /\ Fits(s) /\ InOneRange(s)

ExtendBlock(s) ==
  /\ phase = "plan"
  /\ Least(s)
  /\ Extends(s)
  /\ last'   = Extended(last, s)
  /\ blocks' = (blocks \ {last}) \cup {last'}
  /\ todo'   = todo \ {s}
  /\ UNCHANGED <<profile, phase, ranges, read>>

OpenBlock(s) ==
  /\ phase = "plan"
  /\ Least(s)
  /\ ~Extends(s)
  /\ last'   = s
  /\ blocks' = blocks \cup {s}
  /\ todo'   = todo \ {s}
  /\ UNCHANGED <<profile, phase, ranges, read>>

PlanDone ==
  /\ phase = "plan"
  /\ todo = {}
  /\ phase' = "ready"
  /\ UNCHANGED <<profile, todo, last, ranges, blocks, read>>
-----------------------------------------------------------------------------
\* Mutant: the last register of a read is address + count.
AcceptsShort(address, count) ==
  /\ 1 <= count /\ count <= MaxSpan
  /\ \E r \in ranges : Inside(<<address, address + count>>, r)

\* Mutant: a read of no registers is not refused.
AcceptsNone(address, count) ==
  /\ count <= MaxSpan
  /\ \E r \in ranges : Inside(<<address, address + count - 1>>, r)

\* The checks of read_registers.
Accepts(address, count) ==
  /\ 1 <= count /\ count <= MaxSpan
  /\ \E r \in ranges : Inside(<<address, address + count - 1>>, r)

ReadRegisters(address, count) ==
  /\ phase = "ready"
  /\ Accepts(address, count)
  /\ read'  = <<address, address + count - 1>>
  /\ phase' = "answered"
  /\ UNCHANGED <<profile, todo, last, ranges, blocks>>

\* ValueError: nothing is sent.
ReadRefused(address, count) ==
  /\ phase = "ready"
  /\ ~Accepts(address, count)
  /\ phase' = "answered"
  /\ UNCHANGED <<profile, todo, last, ranges, blocks, read>>

\* The addresses reads are tried at: about every field's ends.
Addresses == UNION {{f[1] - 1, f[1], f[2], f[2] + 1} : f \in Fields}

Next ==
  \/ DeclaredRanges
  \/ \E s \in todo : JoinRun(s) \/ OpenRun(s)
  \/ RangesDone
  \/ \E s \in todo : ExtendBlock(s) \/ OpenBlock(s)
  \/ PlanDone
  \/ \E a \in Addresses, n \in 0 .. MaxSpan + 1 :
       ReadRegisters(a, n) \/ ReadRefused(a, n)

Spec == Init /\ [][Next]_accessVars
-----------------------------------------------------------------------------
\* Whatever a poll reads, read_registers would have read: each planned block
\* lies in one readable run and is no longer than it may be.  The two loops
\* are written apart, in two packages, and have to break at the same places.
PollStaysReadable ==
  phase = "ready" => \A b \in blocks : Accepts(b[1], b[2] - b[1] + 1)

\* Every field can be read raw, in one request; in particular a register
\* that write_register has written can be read back, instead of failing with
\* ValueError when the write is already done.
FieldsReadable ==
  phase = "ready" => \A f \in Fields : Accepts(f[1], f[2] - f[1] + 1)

\* A register no field occupies is asked for only if there is a field less
\* than MaxGap before it and one less than MaxGap after it: the computed runs
\* do not reach into what the profile knows nothing of.
ReadsStayClose ==
  Declared = {} =>
    \A x \in read[1] .. read[2] :
      /\ \E f \in Fields : f[1] <= x /\ x - f[2] < MaxGap
      /\ \E f \in Fields : x <= f[2] /\ f[1] - x < MaxGap

\* On the Balco family no block of the settings covers a register the profile
\* does not declare: the device would not answer it, and the whole poll would
\* fail (import.py, ISOLATED_SETTINGS_DEVICES).
SettingsNotBridged ==
  phase = "ready" /\ profile.balco =>
    \A b \in blocks :
      \A x \in b[1] .. b[2] :
        x >= SettingsStart => \E f \in Fields : Inside(<<x, x>>, f)

\* What import.py declares for a device whose settings are to be read apart:
\* the planned blocks below the settings, and the runs of adjacent settings.
AdjacentRuns(words) ==
  {r \in words \X words :
     /\ r[1] <= r[2]
     /\ r[1] .. r[2] \subseteq words
     /\ r[1] - 1 \notin words /\ r[2] + 1 \notin words}

GeneratedRanges ==
  {b \in blocks : b[1] < SettingsStart}
    \cup AdjacentRuns(UNION {f[1] .. f[2] : f \in {g \in Fields : g[1] >= SettingsStart}})

\* The ranges in the profile are the ones the generator would write today:
\* they were computed from a plan of the same fields, and go stale if a
\* field, max_gap or max_span changes under them.
RangesAreGenerated ==
  phase = "ready" /\ profile.generated # {} =>
    profile.generated = GeneratedRanges
-----------------------------------------------------------------------------
\* What the docstring of readable_ranges says of a device that declares no
\* ranges: they are "the runs that poll reads".
ReadableIsPolled ==
  Declared = {} =>
    \A x \in read[1] .. read[2] : \E b \in blocks : Inside(<<x, x>>, b)
=============================================================================
