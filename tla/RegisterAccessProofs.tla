------------------------- MODULE RegisterAccessProofs -------------------------
(***************************************************************************)
(* That readable_ranges and the plan of a poll agree, for every profile of *)
(* the kind ProfileAssumption describes and every MaxGap.                  *)
(*                                                                         *)
(* The invariant follows the two loops.  What it has to carry is why the   *)
(* second one cannot leave a run the first one made: the runs are more     *)
(* than MaxGap apart, every field is in one, and since the spans come in   *)
(* order, a span near enough to extend a block starts inside that block's  *)
(* run.                                                                    *)
(*                                                                         *)
(* After that, what a poll reads besides the fields, and from it that the  *)
(* settings of a Balco are read apart.  At the end, what the runs of a     *)
(* device without declared ranges hold exactly, that no field is lost      *)
(* between two blocks, and how far the runs are what the poll reads.       *)
(***************************************************************************)
EXTENDS RegisterAccess, TLAPS

\* Close enough to fields on both sides to be read with them.
CloseToFields(x) ==
  /\ \E f \in Fields : f[1] <= x /\ x - f[2] < MaxGap
  /\ \E f \in Fields : x <= f[2] /\ f[1] - x < MaxGap

\* The spans come in order: none that is left starts before one that is done,
\* nor before the run or block at the end of its list.
InOrder == \A t \in todo : last[1] <= t[1]

\* The state of the loop of readable_ranges.
RunsInv ==
  phase = "ranges" =>
    /\ blocks = {}
    /\ Declared # {} => ranges = {} /\ todo = Fields
    /\ ranges = {} => todo = Fields
    /\ ranges # {} =>
         /\ last \in ranges
         /\ InOrder
         /\ \E f \in Fields : f[2] = last[2]
         /\ \A r \in ranges : r = last \/ r[2] + MaxGap < last[1]

\* Which fields the runs hold so far.
Covered ==
  \A f \in Fields :
    (phase = "ranges" => f \notin todo) => \E r \in ranges : Inside(f, r)

\* Computed runs are apart, and reach no further than the fields do.
Apart ==
  Declared = {} =>
    \A q, r \in ranges : q = r \/ q[2] + MaxGap < r[1] \/ r[2] + MaxGap < q[1]

Tight ==
  Declared = {} => \A r \in ranges : \A x \in r[1] .. r[2] : CloseToFields(x)

\* The state of the planner's loop.
PlanInv ==
  /\ \A b \in blocks : b[2] - b[1] < MaxSpan /\ \E r \in ranges : Inside(b, r)
  /\ phase = "plan" /\ blocks # {} => last \in blocks /\ InOrder
  /\ phase # "ranges" /\ Declared # {} => ranges = Declared

ReadInv == read = NoRead \/ \E r \in ranges : Inside(read, r)

ReadOnlyAnswered == phase # "answered" => read = NoRead

AccessInv ==
  /\ RegTypeOK
  /\ IsSpan(last) \/ last = NoRead
  /\ RunsInv
  /\ Covered
  /\ Apart
  /\ Tight
  /\ PlanInv
  /\ ReadInv
  /\ ReadOnlyAnswered
-----------------------------------------------------------------------------
\* What ProfileAssumption says of the profile at hand.
LEMMA AtHand ==
  ASSUME profile \in Profiles
  PROVE  /\ MaxGap \in Int /\ MaxGap > 0
         /\ MaxSpan \in Int
         /\ \A f \in Fields : IsSpan(f) /\ f[2] - f[1] < MaxSpan
         /\ \A r \in Declared : IsSpan(r)
         /\ Declared # {} => \A f \in Fields : \E r \in Declared : Inside(f, r)
  BY ProfileAssumption DEF Fields, Declared, MaxSpan

LEMMA SpanEnds ==
  ASSUME NEW s, IsSpan(s)
  PROVE  s[1] \in Int /\ s[2] \in Int /\ s[1] <= s[2]
  BY DEF IsSpan

\* A span and one that is not before it make a span again, that holds both.
LEMMA ExtendedHoldsBoth ==
  ASSUME NEW r, NEW s, IsSpan(r), IsSpan(s), r[1] <= s[1]
  PROVE  /\ IsSpan(Extended(r, s))
         /\ Extended(r, s)[1] = r[1]
         /\ Extended(r, s)[2] \in {r[2], s[2]}
         /\ r[2] <= Extended(r, s)[2] /\ s[2] <= Extended(r, s)[2]
         /\ Inside(r, Extended(r, s)) /\ Inside(s, Extended(r, s))
  BY DEF Extended, Larger, Inside, IsSpan

\* The registers of a field are close to fields: to itself.
LEMMA FieldIsClose ==
  ASSUME profile \in Profiles, NEW f \in Fields, NEW x \in f[1] .. f[2]
  PROVE  CloseToFields(x)
<1>1. IsSpan(f) /\ MaxGap \in Int /\ MaxGap > 0
  BY AtHand
<1>2. f[1] \in Int /\ f[2] \in Int /\ x \in Int /\ f[1] <= x /\ x <= f[2]
  BY <1>1, SpanEnds
<1>3. x - f[2] < MaxGap /\ f[1] - x < MaxGap
  BY <1>1, <1>2
<1>4. QED
  BY <1>2, <1>3 DEF CloseToFields

\* What stays true of the fields that were covered while a run is replaced by
\* one that holds it.
LEMMA StillCovered ==
  ASSUME NEW R, NEW r, NEW t, Inside(r, t), IsSpan(r), IsSpan(t),
         NEW f, IsSpan(f), \A q \in R : IsSpan(q),
         \E q \in R : Inside(f, q)
  PROVE  \E q \in (R \ {r}) \cup {t} : Inside(f, q)
<1>1. PICK q \in R : Inside(f, q)
  OBVIOUS
<1>2. CASE q = r
  <2>1. Inside(f, t)
    BY <1>1, <1>2 DEF Inside, IsSpan
  <2>2. QED
    BY <2>1
<1>3. CASE q # r
  BY <1>1, <1>3
<1>4. QED
  BY <1>2, <1>3
-----------------------------------------------------------------------------
LEMMA InvInit == Init => AccessInv
<1> SUFFICES ASSUME Init PROVE AccessInv
  OBVIOUS
<1>1. RegTypeOK
  BY DEF Init, RegTypeOK
<1>2. RunsInv /\ Covered /\ Apart /\ Tight /\ PlanInv /\ ReadInv /\ ReadOnlyAnswered
  BY DEF Init, RunsInv, Covered, Apart, Tight, PlanInv, ReadInv, ReadOnlyAnswered
<1>3. QED
  BY <1>1, <1>2 DEF Init, AccessInv
-----------------------------------------------------------------------------
\* A span that joins the last run: the run gets no closer to the others, and
\* what is new in it lies between two fields no more than MaxGap apart.
LEMMA JoinKeeps ==
  ASSUME AccessInv, NEW s, JoinRun(s)
  PROVE  AccessInv'
<1> DEFINE run == Extended(last, s)
<1>1. /\ phase = "ranges" /\ Declared = {} /\ Least(s)
      /\ ranges # {} /\ Near(s)
      /\ last' = run
      /\ ranges' = (ranges \ {last}) \cup {run}
      /\ todo' = todo \ {s}
      /\ UNCHANGED <<profile, phase, blocks, read>>
  BY DEF JoinRun
<1>2. /\ Fields' = Fields /\ Declared' = Declared /\ MaxSpan' = MaxSpan
      /\ todo \subseteq Fields
      /\ \A r \in ranges : IsSpan(r)
  BY <1>1 DEF Fields, Declared, MaxSpan, AccessInv, RegTypeOK
<1>3. /\ MaxGap \in Int /\ MaxGap > 0
      /\ \A f \in Fields : IsSpan(f)
  BY AtHand DEF AccessInv, RegTypeOK
<1>4. /\ last \in ranges /\ IsSpan(last) /\ IsSpan(s)
      /\ s \in todo /\ s \in Fields
      /\ last[1] <= s[1]
      /\ s[1] - last[2] <= MaxGap
      /\ blocks = {} /\ read = NoRead
      /\ \A r \in ranges : r = last \/ r[2] + MaxGap < last[1]
  BY <1>1, <1>2, <1>3 DEF AccessInv, RunsInv, InOrder, Least, Near, ReadOnlyAnswered
<1>5. /\ IsSpan(run) /\ run[1] = last[1] /\ run[2] \in {last[2], s[2]}
      /\ last[2] <= run[2] /\ s[2] <= run[2]
      /\ Inside(last, run) /\ Inside(s, run)
  BY <1>4, ExtendedHoldsBoth
<1>6. /\ last[1] \in Int /\ last[2] \in Int /\ s[1] \in Int /\ s[2] \in Int
      /\ s[1] <= s[2] /\ last[1] <= last[2]
  BY <1>4, SpanEnds
<1>7. RegTypeOK'
  BY <1>1, <1>2, <1>5 DEF AccessInv, RegTypeOK
<1>8. RunsInv'
  <2>1. InOrder'
    <3>1. \A t \in todo : last[1] <= t[1]
      BY <1>1, <1>4 DEF AccessInv, RunsInv, InOrder
    <3>2. QED
      BY <3>1, <1>1, <1>5 DEF InOrder
  <2>2. \E f \in Fields : f[2] = run[2]
    <3>1. \E f \in Fields : f[2] = last[2]
      BY <1>1 DEF AccessInv, RunsInv
    <3>2. QED
      BY <3>1, <1>4, <1>5
  <2>3. \A r \in ranges' : r = run \/ r[2] + MaxGap < run[1]
    BY <1>1, <1>4, <1>5
  <2>4. QED
    BY <1>1, <1>2, <1>4, <2>1, <2>2, <2>3 DEF RunsInv
<1>9. Covered'
  <2> SUFFICES ASSUME NEW f \in Fields, f \notin todo'
               PROVE  \E r \in ranges' : Inside(f, r)
    BY <1>1, <1>2 DEF Covered
  <2>1. CASE f = s
    BY <2>1, <1>1, <1>5
  <2>2. CASE f # s
    <3>1. \E r \in ranges : Inside(f, r)
      BY <2>2, <1>1 DEF AccessInv, Covered
    <3>2. QED
      BY <3>1, <1>1, <1>2, <1>3, <1>4, <1>5, StillCovered
  <2>3. QED
    BY <2>1, <2>2
<1>10. Apart'
  <2>1. \A q \in ranges : q # last => q[2] + MaxGap < run[1]
    BY <1>4, <1>5
  <2>2. \A q, r \in ranges : q = r \/ q[2] + MaxGap < r[1] \/ r[2] + MaxGap < q[1]
    BY <1>1 DEF AccessInv, Apart
  <2>3. QED
    BY <2>1, <2>2, <1>1, <1>2 DEF Apart
<1>11. Tight'
  <2> SUFFICES ASSUME NEW r \in ranges', NEW x \in r[1] .. r[2]
               PROVE  CloseToFields(x)
    BY <1>1, <1>2 DEF Tight, CloseToFields
  <2>0. \A q \in ranges : \A y \in q[1] .. q[2] : CloseToFields(y)
    BY <1>1 DEF AccessInv, Tight
  <2>1. CASE r # run
    BY <2>0, <2>1, <1>1
  <2>2. CASE r = run
    <3>1. x \in Int /\ last[1] <= x /\ x <= run[2]
      BY <2>2, <1>5, <1>6
    <3>2. CASE x <= last[2]
      BY <2>0, <3>1, <3>2, <1>4, <1>6
    <3>3. CASE x > last[2] /\ x >= s[1]
      <4>1. x \in s[1] .. s[2]
        BY <3>1, <3>3, <1>5, <1>6
      <4>2. QED
        BY <4>1, <1>4, FieldIsClose DEF AccessInv, RegTypeOK
    <3>4. CASE x > last[2] /\ x < s[1]
      <4>1. PICK f \in Fields : f[2] = last[2]
        BY <1>1 DEF AccessInv, RunsInv
      <4>2. f[1] \in Int /\ f[1] <= f[2]
        BY <4>1, <1>3, SpanEnds
      <4>3. f[1] <= x /\ x - f[2] < MaxGap
        BY <4>1, <4>2, <3>1, <3>4, <1>3, <1>4, <1>6
      <4>4. x <= s[2] /\ s[1] - x < MaxGap
        BY <3>1, <3>4, <1>3, <1>4, <1>6
      <4>5. QED
        BY <4>3, <4>4, <1>4 DEF CloseToFields
    <3>5. QED
      BY <3>1, <3>2, <3>3, <3>4, <1>6
  <2>3. QED
    BY <2>1, <2>2
<1>12. PlanInv' /\ ReadInv' /\ ReadOnlyAnswered'
  BY <1>1, <1>2, <1>4 DEF PlanInv, ReadInv, ReadOnlyAnswered
<1>13. IsSpan(last')
  BY <1>1, <1>5
<1>14. QED
  BY <1>7, <1>8, <1>9, <1>10, <1>11, <1>12, <1>13 DEF AccessInv

\* A span too far from the last run, or the first one, is a run of its own.
LEMMA OpenKeeps ==
  ASSUME AccessInv, NEW s, OpenRun(s)
  PROVE  AccessInv'
<1>1. /\ phase = "ranges" /\ Declared = {} /\ Least(s)
      /\ ~(ranges # {} /\ Near(s))
      /\ last' = s
      /\ ranges' = ranges \cup {s}
      /\ todo' = todo \ {s}
      /\ UNCHANGED <<profile, phase, blocks, read>>
  BY DEF OpenRun
<1>2. /\ Fields' = Fields /\ Declared' = Declared /\ MaxSpan' = MaxSpan
      /\ todo \subseteq Fields
      /\ \A r \in ranges : IsSpan(r)
  BY <1>1 DEF Fields, Declared, MaxSpan, AccessInv, RegTypeOK
<1>3. /\ MaxGap \in Int /\ MaxGap > 0
      /\ \A f \in Fields : IsSpan(f)
  BY AtHand DEF AccessInv, RegTypeOK
<1>4. /\ s \in todo /\ s \in Fields /\ IsSpan(s)
      /\ \A t \in todo : s[1] <= t[1]
      /\ blocks = {} /\ read = NoRead
  <2>1. s \in todo /\ s \in Fields /\ IsSpan(s) /\ blocks = {} /\ read = NoRead
    BY <1>1, <1>2, <1>3 DEF AccessInv, RunsInv, Least, ReadOnlyAnswered
  <2>2. ASSUME NEW t \in todo PROVE s[1] <= t[1]
    <3>1. IsSpan(t)
      BY <1>2, <1>3
    <3>2. s[1] < t[1] \/ s[1] = t[1]
      BY <1>1 DEF Least
    <3>3. QED
      BY <3>1, <3>2, <2>1, SpanEnds
  <2>3. QED
    BY <2>1, <2>2
<1>5. s[1] \in Int /\ s[2] \in Int /\ s[1] <= s[2]
  BY <1>4, SpanEnds
<1>6. \A r \in ranges : r[2] + MaxGap < s[1]
  <2> SUFFICES ASSUME NEW r \in ranges PROVE r[2] + MaxGap < s[1]
    OBVIOUS
  <2>1. /\ last \in ranges /\ IsSpan(last) /\ last[1] <= s[1]
        /\ r = last \/ r[2] + MaxGap < last[1]
    BY <1>1, <1>2, <1>4 DEF AccessInv, RunsInv, InOrder
  <2>2. /\ last[1] \in Int /\ last[2] \in Int /\ r[1] \in Int /\ r[2] \in Int
    BY <2>1, <1>2, SpanEnds
  <2>3. ~(s[1] - last[2] <= MaxGap)
    BY <1>1 DEF Near
  <2>4. QED
    BY <2>1, <2>2, <2>3, <1>3, <1>5
<1>7. RegTypeOK'
  BY <1>1, <1>2, <1>4 DEF AccessInv, RegTypeOK
<1>8. RunsInv'
  <2>1. InOrder'
    BY <1>1, <1>4 DEF InOrder
  <2>2. QED
    BY <1>1, <1>2, <1>4, <1>6, <2>1 DEF RunsInv
<1>9. Covered'
  <2> SUFFICES ASSUME NEW f \in Fields, f \notin todo'
               PROVE  \E r \in ranges' : Inside(f, r)
    BY <1>1, <1>2 DEF Covered
  <2>1. CASE f = s
    BY <2>1, <1>1, <1>5 DEF Inside
  <2>2. CASE f # s
    BY <2>2, <1>1 DEF AccessInv, Covered
  <2>3. QED
    BY <2>1, <2>2
<1>10. Apart'
  <2>1. \A q, r \in ranges : q = r \/ q[2] + MaxGap < r[1] \/ r[2] + MaxGap < q[1]
    BY <1>1 DEF AccessInv, Apart
  <2>2. QED
    BY <2>1, <1>1, <1>2, <1>6 DEF Apart
<1>11. Tight'
  <2> SUFFICES ASSUME NEW r \in ranges', NEW x \in r[1] .. r[2]
               PROVE  CloseToFields(x)
    BY <1>1, <1>2 DEF Tight, CloseToFields
  <2>1. CASE r = s
    BY <2>1, <1>4, FieldIsClose DEF AccessInv, RegTypeOK
  <2>2. CASE r # s
    BY <2>2, <1>1 DEF AccessInv, Tight
  <2>3. QED
    BY <2>1, <2>2
<1>12. PlanInv' /\ ReadInv' /\ ReadOnlyAnswered'
  BY <1>1, <1>2, <1>4 DEF PlanInv, ReadInv, ReadOnlyAnswered
<1>13. QED
  BY <1>1, <1>4, <1>7, <1>8, <1>9, <1>10, <1>11, <1>12 DEF AccessInv

\* The ranges a profile declares hold every field of it, and nothing is said
\* of how far apart they are.
LEMMA DeclaredKeeps == AccessInv /\ DeclaredRanges => AccessInv'
<1> SUFFICES ASSUME AccessInv, DeclaredRanges PROVE AccessInv'
  OBVIOUS
<1>1. /\ phase = "ranges" /\ phase' = "plan" /\ Declared # {}
      /\ ranges' = Declared
      /\ UNCHANGED <<profile, todo, last, blocks, read>>
  BY DEF DeclaredRanges
<1>2. Fields' = Fields /\ Declared' = Declared /\ MaxSpan' = MaxSpan
  BY <1>1 DEF Fields, Declared, MaxSpan
<1>3. /\ \A r \in Declared : IsSpan(r)
      /\ \A f \in Fields : \E r \in Declared : Inside(f, r)
  BY <1>1, AtHand DEF AccessInv, RegTypeOK
<1>4. RegTypeOK'
  BY <1>1, <1>2, <1>3 DEF AccessInv, RegTypeOK
<1>5. RunsInv' /\ Covered' /\ Apart' /\ Tight'
  BY <1>1, <1>2, <1>3 DEF RunsInv, Covered, Apart, Tight
<1>6. PlanInv' /\ ReadInv' /\ ReadOnlyAnswered'
  BY <1>1, <1>2 DEF AccessInv, RunsInv, PlanInv, ReadInv, ReadOnlyAnswered
<1>7. QED
  BY <1>1, <1>4, <1>5, <1>6 DEF AccessInv

LEMMA RangesDoneKeeps == AccessInv /\ RangesDone => AccessInv'
<1> SUFFICES ASSUME AccessInv, RangesDone PROVE AccessInv'
  OBVIOUS
<1>1. /\ phase = "ranges" /\ phase' = "plan" /\ Declared = {}
      /\ todo = {} /\ todo' = Fields
      /\ UNCHANGED <<profile, last, ranges, blocks, read>>
  BY DEF RangesDone
<1>2. Fields' = Fields /\ Declared' = Declared /\ MaxSpan' = MaxSpan
  BY <1>1 DEF Fields, Declared, MaxSpan
<1>3. RegTypeOK'
  BY <1>1, <1>2 DEF AccessInv, RegTypeOK
<1>4. RunsInv' /\ Covered'
  BY <1>1, <1>2 DEF AccessInv, RunsInv, Covered
<1>5. Apart' /\ Tight'
  BY <1>1, <1>2 DEF AccessInv, Apart, Tight, CloseToFields
<1>6. PlanInv' /\ ReadInv' /\ ReadOnlyAnswered'
  BY <1>1, <1>2 DEF AccessInv, RunsInv, PlanInv, ReadInv, ReadOnlyAnswered
<1>7. QED
  BY <1>1, <1>3, <1>4, <1>5, <1>6 DEF AccessInv
-----------------------------------------------------------------------------
\* A span that extends a block lies in the run the block lies in: the next
\* run begins more than MaxGap behind it.
LEMMA ExtensionStaysInRun ==
  ASSUME AccessInv, phase = "plan", NEW s \in todo, Extends(s)
  PROVE  \E r \in ranges : Inside(Extended(last, s), r)
<1>1. /\ last \in blocks /\ last[1] <= s[1]
      /\ IsSpan(last) /\ IsSpan(s)
      /\ \A r \in ranges : IsSpan(r)
      /\ MaxGap \in Int /\ MaxGap > 0
      /\ s \in Fields /\ s[1] - last[2] <= MaxGap
  BY AtHand DEF AccessInv, RegTypeOK, PlanInv, InOrder, Extends, Near
<1>2. CASE Declared # {}
  <2>1. ranges = Declared
    BY <1>2 DEF AccessInv, PlanInv
  <2>2. QED
    BY <1>2, <2>1 DEF Extends, InOneRange
<1>3. CASE Declared = {}
  <2>1. PICK r \in ranges : Inside(last, r)
    BY <1>1 DEF AccessInv, PlanInv
  <2>2. PICK q \in ranges : Inside(s, q)
    BY <1>1 DEF AccessInv, Covered
  <2>3. q = r \/ q[2] + MaxGap < r[1] \/ r[2] + MaxGap < q[1]
    BY <1>3, <2>1, <2>2 DEF AccessInv, Apart
  <2>4. /\ r[1] \in Int /\ r[2] \in Int /\ q[1] \in Int /\ q[2] \in Int
        /\ s[1] \in Int /\ s[2] \in Int /\ last[1] \in Int /\ last[2] \in Int
        /\ s[1] <= s[2]
    BY <1>1, <2>1, <2>2, SpanEnds
  <2>5. /\ r[1] <= last[1] /\ last[2] <= r[2]
        /\ q[1] <= s[1] /\ s[2] <= q[2]
    BY <2>1, <2>2 DEF Inside
  <2>6. ~(q[2] + MaxGap < r[1]) /\ ~(r[2] + MaxGap < q[1])
    BY <1>1, <2>4, <2>5
  <2>7. Inside(s, r)
    BY <2>2, <2>3, <2>6
  <2>8. QED
    BY <1>1, <2>1, <2>7, ExtendedHoldsBoth DEF Inside
<1>4. QED
  BY <1>2, <1>3

LEMMA ExtendKeeps ==
  ASSUME AccessInv, NEW s, ExtendBlock(s)
  PROVE  AccessInv'
<1> DEFINE block == Extended(last, s)
<1>1. /\ phase = "plan" /\ s \in todo /\ Extends(s)
      /\ last' = block
      /\ blocks' = (blocks \ {last}) \cup {block}
      /\ todo' = todo \ {s}
      /\ UNCHANGED <<profile, phase, ranges, read>>
  BY DEF ExtendBlock, Least
<1>2. /\ Fields' = Fields /\ Declared' = Declared /\ MaxSpan' = MaxSpan
      /\ last \in blocks /\ InOrder
      /\ IsSpan(last) /\ IsSpan(s) /\ last[1] <= s[1]
  BY <1>1, AtHand
     DEF Fields, Declared, MaxSpan, AccessInv, RegTypeOK, PlanInv, InOrder, Extends
<1>3. IsSpan(block) /\ block[1] = last[1]
  BY <1>2, ExtendedHoldsBoth
<1>4. block[2] - block[1] < MaxSpan
  BY <1>1, <1>3 DEF Extends, Fits
<1>5. \E r \in ranges : Inside(block, r)
  BY <1>1, ExtensionStaysInRun
<1>6. RegTypeOK'
  BY <1>1, <1>2, <1>3 DEF AccessInv, RegTypeOK
<1>7. RunsInv' /\ Covered' /\ Apart' /\ Tight' /\ ReadInv' /\ ReadOnlyAnswered'
  BY <1>1, <1>2
     DEF AccessInv, RunsInv, Covered, Apart, Tight, CloseToFields, ReadInv,
         ReadOnlyAnswered
<1>8. PlanInv'
  <2>1. InOrder'
    BY <1>1, <1>2, <1>3 DEF InOrder
  <2>2. \A b \in blocks' : b[2] - b[1] < MaxSpan /\ \E r \in ranges : Inside(b, r)
    BY <1>1, <1>4, <1>5 DEF AccessInv, PlanInv
  <2>3. QED
    BY <1>1, <1>2, <2>1, <2>2 DEF AccessInv, PlanInv
<1>9. QED
  BY <1>1, <1>3, <1>6, <1>7, <1>8 DEF AccessInv

\* A span of its own is a field, so it lies in a run and is short enough.
LEMMA OpenBlockKeeps ==
  ASSUME AccessInv, NEW s, OpenBlock(s)
  PROVE  AccessInv'
<1>1. /\ phase = "plan" /\ Least(s) /\ s \in todo
      /\ last' = s
      /\ blocks' = blocks \cup {s}
      /\ todo' = todo \ {s}
      /\ UNCHANGED <<profile, phase, ranges, read>>
  BY DEF OpenBlock, Least
<1>2. /\ Fields' = Fields /\ Declared' = Declared /\ MaxSpan' = MaxSpan
      /\ s \in Fields /\ IsSpan(s) /\ s[2] - s[1] < MaxSpan
      /\ \A t \in todo : IsSpan(t)
  BY <1>1, AtHand DEF Fields, Declared, MaxSpan, AccessInv, RegTypeOK
<1>3. \E r \in ranges : Inside(s, r)
  BY <1>1, <1>2 DEF AccessInv, Covered
<1>4. RegTypeOK'
  BY <1>1, <1>2 DEF AccessInv, RegTypeOK
<1>5. RunsInv' /\ Covered' /\ Apart' /\ Tight' /\ ReadInv' /\ ReadOnlyAnswered'
  BY <1>1, <1>2
     DEF AccessInv, RunsInv, Covered, Apart, Tight, CloseToFields, ReadInv,
         ReadOnlyAnswered
<1>6. PlanInv'
  <2>1. ASSUME NEW t \in todo PROVE s[1] <= t[1]
    <3>1. s[1] < t[1] \/ s[1] = t[1]
      BY <1>1 DEF Least
    <3>2. QED
      BY <3>1, <1>2, SpanEnds
  <2>2. InOrder'
    BY <2>1, <1>1 DEF InOrder
  <2>3. \A b \in blocks' : b[2] - b[1] < MaxSpan /\ \E r \in ranges : Inside(b, r)
    BY <1>1, <1>2, <1>3 DEF AccessInv, PlanInv
  <2>4. QED
    BY <1>1, <1>2, <2>2, <2>3 DEF AccessInv, PlanInv
<1>7. QED
  BY <1>1, <1>2, <1>4, <1>5, <1>6 DEF AccessInv

LEMMA PlanDoneKeeps == AccessInv /\ PlanDone => AccessInv'
  BY DEF PlanDone, AccessInv, RegTypeOK, RunsInv, Covered, Apart, Tight,
         CloseToFields, PlanInv, ReadInv, ReadOnlyAnswered, Fields, Declared, MaxSpan
-----------------------------------------------------------------------------
\* A read is taken only inside a run, and one of at least one register is a
\* span.
LEMMA ReadKeeps ==
  ASSUME AccessInv, NEW a \in Int, NEW n \in Int, ReadRegisters(a, n)
  PROVE  AccessInv'
<1>1. /\ phase = "ready" /\ phase' = "answered"
      /\ read' = <<a, a + n - 1>>
      /\ UNCHANGED <<profile, todo, last, ranges, blocks>>
      /\ 1 <= n
      /\ \E r \in ranges : Inside(<<a, a + n - 1>>, r)
  BY DEF ReadRegisters, Accepts
<1>2. Fields' = Fields /\ Declared' = Declared /\ MaxSpan' = MaxSpan
  BY <1>1 DEF Fields, Declared, MaxSpan
<1>3. IsSpan(<<a, a + n - 1>>)
  BY <1>1 DEF IsSpan
<1>4. RegTypeOK'
  BY <1>1, <1>2, <1>3 DEF AccessInv, RegTypeOK
<1>5. RunsInv' /\ Covered' /\ Apart' /\ Tight' /\ PlanInv' /\ ReadInv'
      /\ ReadOnlyAnswered'
  BY <1>1, <1>2
     DEF AccessInv, RunsInv, Covered, Apart, Tight, CloseToFields, PlanInv,
         ReadInv, ReadOnlyAnswered
<1>6. QED
  BY <1>1, <1>4, <1>5 DEF AccessInv

LEMMA RefusedKeeps ==
  ASSUME AccessInv, NEW a, NEW n, ReadRefused(a, n)
  PROVE  AccessInv'
  BY DEF ReadRefused, AccessInv, RegTypeOK, RunsInv, Covered, Apart, Tight,
         CloseToFields, PlanInv, ReadInv, ReadOnlyAnswered, Fields, Declared, MaxSpan

LEMMA StutterKeeps == AccessInv /\ UNCHANGED accessVars => AccessInv'
  BY DEF accessVars, AccessInv, RegTypeOK, RunsInv, InOrder, Covered, Apart, Tight,
         CloseToFields, PlanInv, ReadInv, ReadOnlyAnswered, Fields, Declared, MaxSpan

LEMMA InvNext == AccessInv /\ [Next]_accessVars => AccessInv'
<1> SUFFICES ASSUME AccessInv, [Next]_accessVars PROVE AccessInv'
  OBVIOUS
<1>1. CASE DeclaredRanges
  BY <1>1, DeclaredKeeps
<1>2. CASE \E s \in todo : JoinRun(s) \/ OpenRun(s)
  BY <1>2, JoinKeeps, OpenKeeps
<1>3. CASE RangesDone
  BY <1>3, RangesDoneKeeps
<1>4. CASE \E s \in todo : ExtendBlock(s) \/ OpenBlock(s)
  BY <1>4, ExtendKeeps, OpenBlockKeeps
<1>5. CASE PlanDone
  BY <1>5, PlanDoneKeeps
<1>6. CASE \E a \in Addresses, n \in 0 .. MaxSpan + 1 :
             ReadRegisters(a, n) \/ ReadRefused(a, n)
  <2>1. PICK a \in Addresses, n \in 0 .. MaxSpan + 1 :
               ReadRegisters(a, n) \/ ReadRefused(a, n)
    BY <1>6
  <2>2. a \in Int
    <3>1. PICK f \in Fields : a \in {f[1] - 1, f[1], f[2], f[2] + 1}
      BY DEF Addresses
    <3>2. IsSpan(f)
      BY AtHand DEF AccessInv, RegTypeOK
    <3>3. QED
      BY <3>1, <3>2, SpanEnds
  <2>3. n \in Int
    OBVIOUS
  <2>4. QED
    BY <2>1, <2>2, <2>3, ReadKeeps, RefusedKeeps
<1>7. CASE UNCHANGED accessVars
  BY <1>7, StutterKeeps
<1>8. QED
  BY <1>1, <1>2, <1>3, <1>4, <1>5, <1>6, <1>7 DEF Next

LEMMA Invariance == Spec => []AccessInv
  BY InvInit, InvNext, PTL DEF Spec
-----------------------------------------------------------------------------
\* A span that lies in a run and is short enough is one request.
LEMMA ShortAndInsideIsAccepted ==
  ASSUME profile \in Profiles, NEW b, IsSpan(b), b[2] - b[1] < MaxSpan,
         \E r \in ranges : Inside(b, r)
  PROVE  Accepts(b[1], b[2] - b[1] + 1)
<1>1. b[1] \in Int /\ b[2] \in Int /\ b[1] <= b[2] /\ MaxSpan \in Int
  BY SpanEnds, AtHand
<1>2. b[1] + (b[2] - b[1] + 1) - 1 = b[2]
  BY <1>1
<1>3. \E r \in ranges : Inside(<<b[1], b[1] + (b[2] - b[1] + 1) - 1>>, r)
  BY <1>2 DEF Inside
<1>4. 1 <= b[2] - b[1] + 1 /\ b[2] - b[1] + 1 <= MaxSpan
  BY <1>1
<1>5. QED
  BY <1>3, <1>4 DEF Accepts

\* The runs, the blocks, and what is read are always spans, of a profile that
\* Profiles holds.
THEOREM TypeCorrect == Spec => []RegTypeOK
<1>1. AccessInv => RegTypeOK
  BY DEF AccessInv
<1>2. QED
  BY <1>1, Invariance, PTL

\* What a poll reads, read_registers would read too: the planner never
\* bridges a gap, nor crosses a declared range, that readable_ranges breaks at.
THEOREM PollReadable == Spec => []PollStaysReadable
<1>1. AccessInv => PollStaysReadable
  <2> SUFFICES ASSUME AccessInv, phase = "ready", NEW b \in blocks
               PROVE  Accepts(b[1], b[2] - b[1] + 1)
    BY DEF PollStaysReadable
  <2>1. /\ IsSpan(b) /\ b[2] - b[1] < MaxSpan
        /\ \E r \in ranges : Inside(b, r)
    BY DEF AccessInv, RegTypeOK, PlanInv
  <2>2. QED
    BY <2>1, ShortAndInsideIsAccepted DEF AccessInv, RegTypeOK
<1>2. QED
  BY <1>1, Invariance, PTL

\* Every field, so every register that can be written, can be read raw in one
\* request: the read back of write_register is never refused.
THEOREM AllFieldsReadable == Spec => []FieldsReadable
<1>1. AccessInv => FieldsReadable
  <2> SUFFICES ASSUME AccessInv, phase = "ready", NEW f \in Fields
               PROVE  Accepts(f[1], f[2] - f[1] + 1)
    BY DEF FieldsReadable
  <2>1. IsSpan(f) /\ f[2] - f[1] < MaxSpan
    BY AtHand DEF AccessInv, RegTypeOK
  <2>2. \E r \in ranges : Inside(f, r)
    BY DEF AccessInv, Covered
  <2>3. QED
    BY <2>1, <2>2, ShortAndInsideIsAccepted DEF AccessInv, RegTypeOK
<1>2. QED
  BY <1>1, Invariance, PTL

\* Where no ranges are declared, read_registers asks for a register between
\* fields only if fields closer than MaxGap lie on both sides of it.
THEOREM ReadsClose == Spec => []ReadsStayClose
<1>1. AccessInv => ReadsStayClose
  <2> SUFFICES ASSUME AccessInv, Declared = {}, NEW x \in read[1] .. read[2]
               PROVE  CloseToFields(x)
    BY DEF ReadsStayClose, CloseToFields
  <2>1. CASE read = NoRead
    BY <2>1 DEF NoRead
  <2>2. CASE read # NoRead
    <3>1. PICK r \in ranges : Inside(read, r)
      BY <2>2 DEF AccessInv, ReadInv
    <3>2. IsSpan(read) /\ IsSpan(r)
      BY <2>2 DEF AccessInv, RegTypeOK
    <3>3. x \in r[1] .. r[2]
      BY <3>1, <3>2, SpanEnds DEF Inside
    <3>4. QED
      BY <3>3 DEF AccessInv, Tight
  <2>3. QED
    BY <2>1, <2>2
<1>2. QED
  BY <1>1, Invariance, PTL
-----------------------------------------------------------------------------
(* What a block holds besides fields. *)

InField(x) == \E f \in Fields : Inside(<<x, x>>, f)

\* Between two fields near enough to be read together, in one declared range
\* where there are any.
Bridged(x) ==
  \E f, g \in Fields :
    /\ x \in f[2] + 1 .. g[1] - 1
    /\ g[1] - f[2] <= MaxGap
    /\ Declared = {} \/ \E r \in Declared : Inside(<<f[2], g[1]>>, r)

\* The planner bridges no other gaps.  It is inductive with the other half:
\* the block a span is added to ends where a field does.
BridgesInv ==
  /\ \A b \in blocks : \A x \in b[1] .. b[2] : InField(x) \/ Bridged(x)
  /\ phase = "plan" /\ blocks # {} => \E f \in Fields : f[2] = last[2]

\* A span that extends a block adds its own registers to it, and those between
\* it and the field the block ended with.
LEMMA ExtensionBridges ==
  ASSUME AccessInv, BridgesInv, phase = "plan", NEW s \in todo, Extends(s),
         NEW x \in Extended(last, s)[1] .. Extended(last, s)[2]
  PROVE  InField(x) \/ Bridged(x)
<1>1. /\ last \in blocks /\ last[1] <= s[1]
      /\ IsSpan(last) /\ IsSpan(s)
      /\ MaxGap \in Int /\ MaxGap > 0
      /\ s \in Fields /\ s[1] - last[2] <= MaxGap
      /\ \A r \in Declared : IsSpan(r)
  BY AtHand DEF AccessInv, RegTypeOK, PlanInv, InOrder, Extends, Near
<1>2. /\ last[1] \in Int /\ last[2] \in Int /\ s[1] \in Int /\ s[2] \in Int
      /\ last[1] <= last[2] /\ s[1] <= s[2]
  BY <1>1, SpanEnds
<1>3. x \in Int /\ last[1] <= x /\ (x <= last[2] \/ x <= s[2])
  BY <1>1, <1>2, ExtendedHoldsBoth
<1>4. CASE x <= last[2]
  <2>1. x \in last[1] .. last[2]
    BY <1>2, <1>3, <1>4
  <2>2. QED
    BY <1>1, <2>1 DEF BridgesInv
<1>5. CASE s[1] <= x /\ x <= s[2]
  BY <1>1, <1>5 DEF InField, Inside
<1>6. CASE last[2] < x /\ x < s[1]
  <2>1. PICK f \in Fields : f[2] = last[2]
    BY <1>1 DEF BridgesInv
  <2>2. x \in f[2] + 1 .. s[1] - 1
    BY <1>2, <1>3, <1>6, <2>1
  <2>3. s[1] - f[2] <= MaxGap
    BY <1>1, <2>1
  <2>4. ASSUME Declared # {}
        PROVE  \E r \in Declared : Inside(<<f[2], s[1]>>, r)
    <3>1. PICK r \in Declared : Inside(Extended(last, s), r)
      BY <2>4 DEF Extends, InOneRange
    <3>2. r[1] \in Int /\ r[2] \in Int
      BY <1>1, <3>1, SpanEnds
    <3>3. r[1] <= last[1] /\ Extended(last, s)[2] <= r[2]
      BY <1>1, <3>1, ExtendedHoldsBoth DEF Inside
    <3>4. s[2] <= Extended(last, s)[2] /\ Extended(last, s)[2] \in {last[2], s[2]}
      BY <1>1, ExtendedHoldsBoth
    <3>5. r[1] <= f[2] /\ s[1] <= r[2]
      BY <1>2, <2>1, <3>2, <3>3, <3>4
    <3>6. Inside(<<f[2], s[1]>>, r)
      BY <3>5 DEF Inside
    <3>7. QED
      BY <3>1, <3>6
  <2>5. QED
    BY <1>1, <2>2, <2>3, <2>4 DEF Bridged
<1>7. QED
  BY <1>2, <1>3, <1>4, <1>5, <1>6

\* Every step of the two loops, and of read_registers, keeps that.
LEMMA BridgesNext == AccessInv /\ BridgesInv /\ [Next]_accessVars => BridgesInv'
<1> SUFFICES ASSUME AccessInv, BridgesInv, [Next]_accessVars
             PROVE  BridgesInv'
  OBVIOUS
<1>1. profile' = profile
  BY DEF Next, DeclaredRanges, JoinRun, OpenRun, RangesDone, ExtendBlock,
         OpenBlock, PlanDone, ReadRegisters, ReadRefused, accessVars
<1>2. /\ Fields' = Fields /\ Declared' = Declared
      /\ \A x : InField(x)' <=> InField(x)
      /\ \A x : Bridged(x)' <=> Bridged(x)
  BY <1>1 DEF Fields, Declared, InField, Bridged
<1>3. CASE UNCHANGED <<blocks, last, phase>> \/ (blocks' = {} /\ phase = "ranges")
  BY <1>2, <1>3 DEF BridgesInv
<1>4. ASSUME NEW s \in todo, ExtendBlock(s)
      PROVE  BridgesInv'
  <2>1. /\ phase = "plan" /\ Extends(s)
        /\ last' = Extended(last, s)
        /\ blocks' = (blocks \ {last}) \cup {last'}
    BY <1>4 DEF ExtendBlock
  <2>2. \A x \in last'[1] .. last'[2] : InField(x) \/ Bridged(x)
    BY <2>1, ExtensionBridges
  <2>3. \A b \in blocks' : \A x \in b[1] .. b[2] : InField(x) \/ Bridged(x)
    BY <2>1, <2>2 DEF BridgesInv
  <2>4. \E f \in Fields : f[2] = last'[2]
    <3>1. s \in Fields /\ \E f \in Fields : f[2] = last[2]
      BY <2>1 DEF AccessInv, RegTypeOK, BridgesInv, Extends
    <3>2. last'[2] \in {last[2], s[2]}
      BY <2>1 DEF Extended, Larger
    <3>3. QED
      BY <3>1, <3>2
  <2>5. QED
    BY <1>2, <2>3, <2>4 DEF BridgesInv
<1>5. ASSUME NEW s \in todo, OpenBlock(s)
      PROVE  BridgesInv'
  <2>1. s \in Fields /\ last' = s /\ blocks' = blocks \cup {s}
    BY <1>5 DEF OpenBlock, AccessInv, RegTypeOK
  <2>2. ASSUME NEW x \in s[1] .. s[2]
        PROVE  InField(x)
    <3>1. s[1] <= x /\ x <= s[2]
      <4>1. IsSpan(s)
        BY <2>1, AtHand DEF AccessInv, RegTypeOK
      <4>2. QED
        BY <4>1, SpanEnds
    <3>2. QED
      BY <2>1, <3>1 DEF InField, Inside
  <2>3. \A b \in blocks' : \A x \in b[1] .. b[2] : InField(x) \/ Bridged(x)
    BY <2>1, <2>2 DEF BridgesInv
  <2>4. QED
    BY <1>2, <2>1, <2>3 DEF BridgesInv
<1>6. CASE DeclaredRanges \/ RangesDone \/ (\E s \in todo : JoinRun(s) \/ OpenRun(s))
  <2>1. phase = "ranges" /\ blocks' = blocks
    BY <1>6 DEF DeclaredRanges, RangesDone, JoinRun, OpenRun
  <2>2. QED
    BY <1>3, <2>1 DEF AccessInv, RunsInv
<1>7. CASE PlanDone \/ (\E a \in Addresses, n \in 0 .. MaxSpan + 1 :
                          ReadRegisters(a, n) \/ ReadRefused(a, n))
  <2>1. blocks' = blocks /\ phase' # "plan"
    BY <1>7 DEF PlanDone, ReadRegisters, ReadRefused
  <2>2. QED
    BY <1>2, <2>1 DEF BridgesInv
<1>8. CASE UNCHANGED accessVars
  BY <1>3, <1>8 DEF accessVars
<1>9. QED
  BY <1>4, <1>5, <1>6, <1>7, <1>8 DEF Next

\* What a poll reads besides the fields lies between two of them that are no
\* more than MaxGap apart, and in the declared range they are in, if any are
\* declared: for every profile, this is all the planner ever adds.
THEOREM BlocksBridgeShortGaps ==
  Spec => [](\A b \in blocks : \A x \in b[1] .. b[2] : InField(x) \/ Bridged(x))
<1>1. Init => BridgesInv
  BY DEF Init, BridgesInv
<1>2. BridgesInv => \A b \in blocks : \A x \in b[1] .. b[2] : InField(x) \/ Bridged(x)
  BY DEF BridgesInv
<1>3. QED
  BY <1>1, <1>2, BridgesNext, Invariance, PTL DEF Spec

\* So on a profile of the Balco family the blocks of the settings hold settings
\* only: the gaps that SettingsAssumption allows for are not bridged.
THEOREM SettingsApart == Spec => []SettingsNotBridged
<1>1. AccessInv /\ (\A b \in blocks : \A x \in b[1] .. b[2] : InField(x) \/ Bridged(x))
      => SettingsNotBridged
  <2> SUFFICES ASSUME AccessInv, profile.balco, NEW b \in blocks,
                      NEW x \in b[1] .. b[2], InField(x) \/ Bridged(x),
                      x >= SettingsStart
               PROVE  InField(x)
    BY DEF SettingsNotBridged, InField
  <2>1. CASE Bridged(x)
    <3>1. PICK f, g \in Fields :
            /\ x \in f[2] + 1 .. g[1] - 1
            /\ g[1] - f[2] <= MaxGap
            /\ Declared = {} \/ \E r \in Declared : Inside(<<f[2], g[1]>>, r)
      BY <2>1 DEF Bridged
    <3>2. profile \in Profiles
      BY DEF AccessInv, RegTypeOK
    <3>3. \E h \in profile.fields : Inside(<<x, x>>, h)
      BY <3>1, <3>2, SettingsAssumption DEF Fields, Declared
    <3>4. QED
      BY <3>3 DEF InField, Fields
  <2>2. QED
    BY <2>1
<1>2. QED
  BY <1>1, BlocksBridgeShortGaps, Invariance, PTL

-----------------------------------------------------------------------------
(* What the readable runs hold, exactly, and how much of it a poll reads. *)

InRun(x) == \E r \in ranges : r[1] <= x /\ x <= r[2]

\* Computed runs hold fields and bridged gaps only, from a field to a field.
RunShape(r) ==
  /\ \A x \in r[1] .. r[2] : InField(x) \/ Bridged(x)
  /\ \E f \in Fields : f[1] = r[1]
  /\ \E f \in Fields : f[2] = r[2]

RunShapes == Declared = {} => \A r \in ranges : RunShape(r)

\* A span that joins the last run adds its own registers to it, and those
\* between it and the field the run ended with.
LEMMA JoinShapes ==
  ASSUME AccessInv, RunShapes, NEW s \in todo, JoinRun(s)
  PROVE  RunShape(Extended(last, s))
<1> DEFINE run == Extended(last, s)
<1>1. /\ phase = "ranges" /\ Declared = {} /\ ranges # {} /\ Near(s)
      /\ last \in ranges /\ last[1] <= s[1] /\ s \in Fields
      /\ IsSpan(last) /\ IsSpan(s)
      /\ \E f \in Fields : f[2] = last[2]
      /\ MaxGap \in Int
  BY AtHand DEF JoinRun, AccessInv, RegTypeOK, RunsInv, InOrder
<1>2. /\ last[1] \in Int /\ last[2] \in Int /\ s[1] \in Int /\ s[2] \in Int
      /\ last[1] <= last[2] /\ s[1] <= s[2]
      /\ s[1] - last[2] <= MaxGap
  BY <1>1, SpanEnds DEF Near
<1>3. RunShape(last)
  BY <1>1 DEF RunShapes
<1>4. /\ run[1] = last[1] /\ run[2] \in {last[2], s[2]}
  BY <1>1, ExtendedHoldsBoth
<1> HIDE DEF run
<1>5. ASSUME NEW x \in run[1] .. run[2]
      PROVE  InField(x) \/ Bridged(x)
  <2>1. x \in Int /\ last[1] <= x /\ (x <= last[2] \/ x <= s[2])
    BY <1>2, <1>4
  <2>2. CASE x <= last[2]
    <3>1. x \in last[1] .. last[2]
      BY <1>2, <2>1, <2>2
    <3>2. QED
      BY <1>3, <3>1 DEF RunShape
  <2>3. CASE s[1] <= x /\ x <= s[2]
    BY <1>1, <2>3 DEF InField, Inside
  <2>4. CASE last[2] < x /\ x < s[1]
    <3>1. PICK f \in Fields : f[2] = last[2]
      BY <1>1
    <3>2. x \in f[2] + 1 .. s[1] - 1 /\ s[1] - f[2] <= MaxGap
      BY <1>2, <2>1, <2>4, <3>1
    <3>3. QED
      BY <1>1, <3>2 DEF Bridged
  <2>5. QED
    BY <1>2, <2>1, <2>2, <2>3, <2>4
<1>6. (\E f \in Fields : f[1] = run[1]) /\ (\E f \in Fields : f[2] = run[2])
  BY <1>1, <1>3, <1>4 DEF RunShape
<1>7. RunShape(run)
  BY <1>5, <1>6 DEF RunShape
<1>8. QED
  BY <1>7 DEF run

\* A field is a run of that shape.
LEMMA FieldShapes ==
  ASSUME AccessInv, NEW s \in Fields
  PROVE  RunShape(s)
<1>1. s[1] \in Int /\ s[2] \in Int
  BY AtHand, SpanEnds DEF AccessInv, RegTypeOK
<1>2. \A x \in s[1] .. s[2] : InField(x)
  BY <1>1 DEF InField, Inside
<1>3. QED
  BY <1>2 DEF RunShape

LEMMA ShapesNext == AccessInv /\ RunShapes /\ [Next]_accessVars => RunShapes'
<1> SUFFICES ASSUME AccessInv, RunShapes, [Next]_accessVars
             PROVE  RunShapes'
  OBVIOUS
<1>1. profile' = profile
  BY DEF Next, DeclaredRanges, JoinRun, OpenRun, RangesDone, ExtendBlock,
         OpenBlock, PlanDone, ReadRegisters, ReadRefused, accessVars
<1>2. Fields' = Fields /\ Declared' = Declared
  BY <1>1 DEF Fields, Declared
<1>3. \A r : RunShape(r)' <=> RunShape(r)
  BY <1>2 DEF RunShape, InField, Bridged
<1>4. ASSUME NEW s \in todo, JoinRun(s)
      PROVE  RunShapes'
  <2>1. ranges' = (ranges \ {last}) \cup {Extended(last, s)}
    BY <1>4 DEF JoinRun
  <2>2. RunShape(Extended(last, s))
    BY <1>4, JoinShapes
  <2>3. QED
    BY <1>2, <1>3, <2>1, <2>2 DEF RunShapes
<1>5. ASSUME NEW s \in todo, OpenRun(s)
      PROVE  RunShapes'
  <2>1. ranges' = ranges \cup {s} /\ s \in Fields
    BY <1>5 DEF OpenRun, AccessInv, RegTypeOK
  <2>2. RunShape(s)
    BY <2>1, FieldShapes
  <2>3. QED
    BY <1>2, <1>3, <2>1, <2>2 DEF RunShapes
<1>6. CASE DeclaredRanges
  BY <1>2, <1>6 DEF DeclaredRanges, RunShapes
<1>7. ASSUME ranges' = ranges
      PROVE  RunShapes'
  BY <1>2, <1>3, <1>7 DEF RunShapes
<1>8. QED
  BY <1>4, <1>5, <1>6, <1>7
     DEF Next, RangesDone, ExtendBlock, OpenBlock, PlanDone, ReadRegisters,
         ReadRefused, accessVars

LEMMA Shapes == Spec => [](AccessInv /\ RunShapes)
<1>1. Init => RunShapes
  BY DEF Init, RunShapes
<1>2. QED
  BY <1>1, ShapesNext, Invariance, PTL DEF Spec

\* Two computed runs that have a register in common are the same run.
LEMMA SameRun ==
  ASSUME AccessInv, Declared = {}, NEW q \in ranges, NEW r \in ranges,
         NEW x \in Int, q[1] <= x, x <= q[2], r[1] <= x, x <= r[2]
  PROVE  q = r
<1>1. /\ q[1] \in Int /\ q[2] \in Int /\ r[1] \in Int /\ r[2] \in Int
      /\ MaxGap \in Int /\ MaxGap > 0
  BY AtHand, SpanEnds DEF AccessInv, RegTypeOK
<1>2. q = r \/ q[2] + MaxGap < r[1] \/ r[2] + MaxGap < q[1]
  BY DEF AccessInv, Apart
<1>3. QED
  BY <1>1, <1>2

\* Two fields near enough to be read together are in one computed run.
LEMMA BridgeInRun ==
  ASSUME AccessInv, Declared = {}, phase # "ranges",
         NEW f \in Fields, NEW g \in Fields, f[2] < g[1], g[1] - f[2] <= MaxGap
  PROVE  \E r \in ranges : Inside(f, r) /\ Inside(g, r)
<1>1. PICK q \in ranges : Inside(f, q)
  BY DEF AccessInv, Covered
<1>2. PICK r \in ranges : Inside(g, r)
  BY DEF AccessInv, Covered
<1>3. /\ MaxGap \in Int /\ MaxGap > 0
      /\ IsSpan(f) /\ IsSpan(g) /\ IsSpan(q) /\ IsSpan(r)
  BY AtHand DEF AccessInv, RegTypeOK
<1>4. /\ f[1] \in Int /\ f[2] \in Int /\ g[1] \in Int /\ g[2] \in Int
      /\ q[1] \in Int /\ q[2] \in Int /\ r[1] \in Int /\ r[2] \in Int
      /\ f[1] <= f[2] /\ g[1] <= g[2]
  BY <1>3, SpanEnds
<1>5. /\ q[1] <= f[1] /\ f[2] <= q[2] /\ r[1] <= g[1] /\ g[2] <= r[2]
  BY <1>1, <1>2 DEF Inside
<1>6. q = r \/ q[2] + MaxGap < r[1] \/ r[2] + MaxGap < q[1]
  BY DEF AccessInv, Apart
<1>7. q = r
  BY <1>3, <1>4, <1>5, <1>6
<1>8. QED
  BY <1>1, <1>2, <1>7

\* Where no ranges are declared, the readable runs hold the registers of the
\* fields, those of every gap between two fields that are no more than MaxGap
\* apart, and nothing else: whatever order the loop comes to the fields in and
\* however they overlap, it neither reaches into what the profile knows
\* nothing of nor leaves a gap out that it should have bridged.
THEOREM ReadableExactly ==
  Spec => [](Declared = {} /\ phase # "ranges" =>
               \A x \in Int : InRun(x) <=> InField(x) \/ Bridged(x))
<1>1. AccessInv /\ RunShapes =>
        (Declared = {} /\ phase # "ranges" =>
           \A x \in Int : InRun(x) <=> InField(x) \/ Bridged(x))
  <2> SUFFICES ASSUME AccessInv, RunShapes, Declared = {}, phase # "ranges",
                      NEW x \in Int
               PROVE  InRun(x) <=> InField(x) \/ Bridged(x)
    OBVIOUS
  <2>1. ASSUME InRun(x)
        PROVE  InField(x) \/ Bridged(x)
    <3>1. PICK r \in ranges : r[1] <= x /\ x <= r[2]
      BY <2>1 DEF InRun
    <3>2. r[1] \in Int /\ r[2] \in Int
      BY SpanEnds DEF AccessInv, RegTypeOK
    <3>3. x \in r[1] .. r[2]
      BY <3>1, <3>2
    <3>4. QED
      BY <3>3 DEF RunShapes, RunShape
  <2>2. ASSUME InField(x)
        PROVE  InRun(x)
    <3>1. PICK f \in Fields : f[1] <= x /\ x <= f[2]
      BY <2>2 DEF InField, Inside
    <3>2. PICK r \in ranges : r[1] <= f[1] /\ f[2] <= r[2]
      BY DEF AccessInv, Covered, Inside
    <3>3. f[1] \in Int /\ f[2] \in Int /\ r[1] \in Int /\ r[2] \in Int
      BY AtHand, SpanEnds DEF AccessInv, RegTypeOK
    <3>4. r[1] <= x /\ x <= r[2]
      BY <3>1, <3>2, <3>3
    <3>5. QED
      BY <3>4 DEF InRun
  <2>3. ASSUME Bridged(x)
        PROVE  InRun(x)
    <3>1. PICK f, g \in Fields : x \in f[2] + 1 .. g[1] - 1 /\ g[1] - f[2] <= MaxGap
      BY <2>3 DEF Bridged
    <3>2. f[1] \in Int /\ f[2] \in Int /\ g[1] \in Int /\ g[2] \in Int
          /\ f[1] <= f[2] /\ g[1] <= g[2]
      BY AtHand, SpanEnds DEF AccessInv, RegTypeOK
    <3>3. f[2] < x /\ x < g[1]
      BY <3>1, <3>2
    <3>4. PICK r \in ranges : Inside(f, r) /\ Inside(g, r)
      BY <3>1, <3>2, <3>3, BridgeInRun
    <3>5. r[1] \in Int /\ r[2] \in Int /\ r[1] <= f[1] /\ g[2] <= r[2]
      BY <3>4, SpanEnds DEF AccessInv, RegTypeOK, Inside
    <3>6. r[1] <= x /\ x <= r[2]
      BY <3>2, <3>3, <3>5
    <3>7. QED
      BY <3>6 DEF InRun
  <2>4. QED
    BY <2>1, <2>2, <2>3
<1>2. QED
  BY <1>1, Shapes, PTL
-----------------------------------------------------------------------------
\* Every field the planner has come to is in one block.
FieldsPlanned ==
  phase # "ranges" =>
    /\ \A f \in Fields : f \in todo \/ \E b \in blocks : Inside(f, b)
    /\ phase # "plan" => todo = {}

LEMMA PlannedNext == AccessInv /\ FieldsPlanned /\ [Next]_accessVars => FieldsPlanned'
<1> SUFFICES ASSUME AccessInv, FieldsPlanned, [Next]_accessVars
             PROVE  FieldsPlanned'
  OBVIOUS
<1>1. profile' = profile
  BY DEF Next, DeclaredRanges, JoinRun, OpenRun, RangesDone, ExtendBlock,
         OpenBlock, PlanDone, ReadRegisters, ReadRefused, accessVars
<1>2. Fields' = Fields
  BY <1>1 DEF Fields
<1>3. \A f \in Fields : IsSpan(f)
  BY AtHand DEF AccessInv, RegTypeOK
<1>4. ASSUME NEW s \in todo, ExtendBlock(s)
      PROVE  FieldsPlanned'
  <2>1. /\ phase = "plan" /\ phase' = "plan" /\ Extends(s)
        /\ blocks' = (blocks \ {last}) \cup {Extended(last, s)}
        /\ todo' = todo \ {s}
    BY <1>4 DEF ExtendBlock
  <2>2. /\ last \in blocks /\ IsSpan(last) /\ IsSpan(s) /\ last[1] <= s[1]
        /\ \A b \in blocks : IsSpan(b)
    BY <1>3, <2>1 DEF AccessInv, RegTypeOK, PlanInv, InOrder, Extends
  <2>3. /\ Inside(s, Extended(last, s)) /\ Inside(last, Extended(last, s))
        /\ IsSpan(Extended(last, s))
    BY <2>2, ExtendedHoldsBoth
  <2>4. ASSUME NEW f \in Fields, f \notin todo'
        PROVE  \E b \in blocks' : Inside(f, b)
    <3>1. CASE f = s
      BY <2>1, <2>3, <3>1
    <3>2. CASE f # s
      <4>1. \E b \in blocks : Inside(f, b)
        BY <2>1, <2>4, <3>2 DEF FieldsPlanned
      <4>2. QED
        BY <1>3, <2>1, <2>2, <2>3, <4>1, StillCovered
    <3>3. QED
      BY <3>1, <3>2
  <2>5. QED
    BY <1>2, <2>1, <2>4 DEF FieldsPlanned
<1>5. ASSUME NEW s \in todo, OpenBlock(s)
      PROVE  FieldsPlanned'
  <2>1. /\ phase = "plan" /\ phase' = "plan" /\ s \in Fields
        /\ blocks' = blocks \cup {s} /\ todo' = todo \ {s}
    BY <1>5 DEF OpenBlock, AccessInv, RegTypeOK
  <2>2. Inside(s, s)
    BY <1>3, <2>1, SpanEnds DEF Inside
  <2>3. QED
    BY <1>2, <2>1, <2>2 DEF FieldsPlanned
<1>6. CASE DeclaredRanges
  <2>1. phase = "ranges" /\ phase' = "plan" /\ todo' = todo /\ Declared # {}
    BY <1>6 DEF DeclaredRanges
  <2>2. todo = Fields
    BY <2>1 DEF AccessInv, RunsInv
  <2>3. QED
    BY <1>2, <2>1, <2>2 DEF FieldsPlanned
<1>7. CASE RangesDone
  BY <1>2, <1>7 DEF RangesDone, FieldsPlanned
<1>8. ASSUME NEW s \in todo, JoinRun(s) \/ OpenRun(s)
      PROVE  FieldsPlanned'
  BY <1>8 DEF JoinRun, OpenRun, FieldsPlanned
<1>9. CASE PlanDone \/ UNCHANGED accessVars
           \/ (\E a \in Addresses, n \in 0 .. MaxSpan + 1 :
                 ReadRegisters(a, n) \/ ReadRefused(a, n))
  BY <1>2, <1>9 DEF PlanDone, ReadRegisters, ReadRefused, accessVars, FieldsPlanned
<1>10. QED
  BY <1>4, <1>5, <1>6, <1>7, <1>8, <1>9 DEF Next

LEMMA Planned == Spec => [](AccessInv /\ RunShapes /\ FieldsPlanned)
<1>1. Init => FieldsPlanned
  BY DEF Init, FieldsPlanned
<1>2. QED
  BY <1>1, PlannedNext, Shapes, PTL DEF Spec

\* A poll reads every field, whole: none is lost where the planner cuts a
\* block for its length or at the end of a declared range.
THEOREM FieldsPolledWhole ==
  Spec => [](phase \in {"ready", "answered"} =>
               \A f \in Fields : \E b \in blocks : Inside(f, b))
<1>1. FieldsPlanned => (phase \in {"ready", "answered"} =>
                          \A f \in Fields : \E b \in blocks : Inside(f, b))
  BY DEF FieldsPlanned
<1>2. QED
  BY <1>1, Planned, PTL

\* What is true of the claim ReadableIsPolled on every device that declares no
\* ranges: a register that read_registers asks for and the poll does not is in
\* no field; it lies between two fields no more than MaxGap apart.
THEOREM UnpolledIsBridged ==
  Spec => [](Declared = {} =>
               \A x \in read[1] .. read[2] :
                 (\E b \in blocks : Inside(<<x, x>>, b)) \/ (Bridged(x) /\ ~InField(x)))
<1>1. AccessInv /\ RunShapes /\ FieldsPlanned =>
        (Declared = {} =>
           \A x \in read[1] .. read[2] :
             (\E b \in blocks : Inside(<<x, x>>, b)) \/ (Bridged(x) /\ ~InField(x)))
  <2> SUFFICES ASSUME AccessInv, RunShapes, FieldsPlanned, Declared = {},
                      NEW x \in read[1] .. read[2],
                      ~(\E b \in blocks : Inside(<<x, x>>, b))
               PROVE  Bridged(x) /\ ~InField(x)
    OBVIOUS
  <2>1. read # NoRead /\ phase = "answered"
    BY DEF NoRead, AccessInv, ReadOnlyAnswered
  <2>2. PICK r \in ranges : Inside(read, r)
    BY <2>1 DEF AccessInv, ReadInv
  <2>3. /\ read[1] \in Int /\ read[2] \in Int /\ r[1] \in Int /\ r[2] \in Int
    BY <2>1, SpanEnds DEF AccessInv, RegTypeOK
  <2>4. x \in r[1] .. r[2]
    BY <2>2, <2>3 DEF Inside
  <2>5. InField(x) \/ Bridged(x)
    BY <2>4 DEF RunShapes, RunShape
  <2>6. ~InField(x)
    <3> SUFFICES ASSUME InField(x) PROVE FALSE
      OBVIOUS
    <3>1. PICK f \in Fields : f[1] <= x /\ x <= f[2]
      BY DEF InField, Inside
    <3>2. PICK b \in blocks : Inside(f, b)
      BY <2>1 DEF FieldsPlanned
    <3>3. /\ f[1] \in Int /\ f[2] \in Int /\ b[1] \in Int /\ b[2] \in Int
      BY AtHand, SpanEnds DEF AccessInv, RegTypeOK
    <3>4. b[1] <= x /\ x <= b[2]
      BY <2>3, <3>1, <3>2, <3>3 DEF Inside
    <3>5. QED
      BY <3>4 DEF Inside
  <2>7. QED
    BY <2>5, <2>6
<1>2. QED
  BY <1>1, Planned, PTL
-----------------------------------------------------------------------------
(* Where every computed run is short enough for one block, nothing is cut and
   the two loops come to the same spans. *)

RunsFit == \A r \in ranges : r[2] - r[1] < MaxSpan

\* The planner has one block to a run, which begins where the run does.
StartsInv ==
  Declared = {} /\ RunsFit =>
    \A b \in blocks :
      /\ \E r \in ranges : b[1] = r[1]
      /\ \A c \in blocks : c[1] = b[1] => c = b
      /\ phase = "plan" => b[1] <= last[1]

\* The block that has a register of a run is the one that begins with it.
LEMMA BlockOfRun ==
  ASSUME AccessInv, StartsInv, Declared = {}, RunsFit,
         NEW b \in blocks, NEW r \in ranges,
         NEW x \in Int, b[1] <= x, x <= b[2], r[1] <= x, x <= r[2]
  PROVE  b[1] = r[1] /\ Inside(b, r)
<1>1. PICK q \in ranges : b[1] = q[1]
  BY DEF StartsInv
<1>2. PICK p \in ranges : Inside(b, p)
  BY DEF AccessInv, PlanInv
<1>3. IsSpan(b) /\ IsSpan(q) /\ IsSpan(p) /\ IsSpan(r)
  BY DEF AccessInv, RegTypeOK
<1>4. /\ b[1] \in Int /\ b[2] \in Int /\ q[1] \in Int /\ q[2] \in Int
      /\ p[1] \in Int /\ p[2] \in Int /\ r[1] \in Int /\ r[2] \in Int
      /\ b[1] <= b[2] /\ q[1] <= q[2] /\ p[1] <= b[1] /\ b[2] <= p[2]
  BY <1>2, <1>3, SpanEnds DEF Inside
<1>5. q = p
  <2>1. q[1] <= b[1] /\ b[1] <= q[2] /\ p[1] <= b[1] /\ b[1] <= p[2]
    BY <1>1, <1>4
  <2>2. QED
    BY <1>4, <2>1, SameRun
<1>6. p = r
  <2>1. p[1] <= x /\ x <= p[2]
    BY <1>4
  <2>2. QED
    BY <2>1, SameRun
<1>7. QED
  BY <1>1, <1>2, <1>5, <1>6

\* A span of the run the last block is in extends that block: it is no longer
\* than the run then, and between the two there is no gap wider than MaxGap,
\* since the run holds fields and bridged gaps only.
LEMMA RunGoesOn ==
  ASSUME AccessInv, RunShapes, FieldsPlanned, StartsInv, phase = "plan",
         Declared = {}, RunsFit, NEW s \in todo, \A t \in todo : s[1] <= t[1],
         blocks # {}, NEW q \in ranges, Inside(s, q), q[1] <= last[1]
  PROVE  Extends(s)
<1>1. /\ last \in blocks /\ last[1] <= s[1] /\ s \in Fields
      /\ IsSpan(last) /\ IsSpan(s) /\ IsSpan(q)
      /\ MaxGap \in Int /\ MaxGap > 0 /\ MaxSpan \in Int
  BY AtHand DEF AccessInv, RegTypeOK, PlanInv, InOrder
<1>2. /\ last[1] \in Int /\ last[2] \in Int /\ s[1] \in Int /\ s[2] \in Int
      /\ q[1] \in Int /\ q[2] \in Int
      /\ last[1] <= last[2] /\ s[1] <= s[2] /\ q[1] <= s[1] /\ s[2] <= q[2]
  BY <1>1, SpanEnds DEF Inside
<1>3. last[1] = q[1] /\ last[2] <= q[2]
  <2>1. q[1] <= last[1] /\ last[1] <= q[2]
    BY <1>1, <1>2
  <2>2. last[1] = q[1] /\ Inside(last, q)
    BY <1>1, <1>2, <2>1, BlockOfRun
  <2>3. QED
    BY <2>2 DEF Inside
<1>4. ASSUME NEW f \in Fields, f \notin todo, q[1] <= f[1], f[1] <= q[2]
      PROVE  f[2] <= last[2]
  <2>1. PICK c \in blocks : Inside(f, c)
    BY <1>4 DEF FieldsPlanned
  <2>2. IsSpan(f) /\ IsSpan(c)
    BY AtHand DEF AccessInv, RegTypeOK
  <2>3. /\ f[1] \in Int /\ c[1] <= f[1] /\ f[1] <= c[2] /\ f[2] <= c[2]
    <3>1. /\ f[1] \in Int /\ f[2] \in Int /\ c[1] \in Int /\ c[2] \in Int
          /\ f[1] <= f[2]
      BY <2>2, SpanEnds
    <3>2. QED
      BY <2>1, <3>1 DEF Inside
  <2>4. c[1] = q[1]
    BY <1>4, <2>3, BlockOfRun
  <2>5. c = last
    BY <1>1, <1>3, <2>4 DEF StartsInv
  <2>6. QED
    BY <2>3, <2>5
<1>5. Near(s)
  <2> SUFFICES ASSUME ~(s[1] - last[2] <= MaxGap)
               PROVE  FALSE
    BY DEF Near
  <2> DEFINE x == last[2] + 1
  <2>1. x \in Int /\ x \in q[1] .. q[2] /\ last[2] < x /\ x < s[1]
    BY <1>1, <1>2, <1>3
  <2> HIDE DEF x
  <2>2. InField(x) \/ Bridged(x)
    BY <2>1 DEF RunShapes, RunShape
  <2>3. ASSUME InField(x)
        PROVE  FALSE
    <3>1. PICK f \in Fields : f[1] <= x /\ x <= f[2]
      BY <2>3 DEF InField, Inside
    <3>2. f[1] \in Int /\ f[2] \in Int /\ f[1] <= f[2]
      BY AtHand, SpanEnds DEF AccessInv, RegTypeOK
    <3>3. f \notin todo
      BY <1>2, <2>1, <3>1, <3>2
    <3>4. PICK r \in ranges : Inside(f, r)
      BY DEF AccessInv, Covered
    <3>5. r[1] \in Int /\ r[2] \in Int /\ r[1] <= f[1] /\ f[2] <= r[2]
      BY <3>4, SpanEnds DEF AccessInv, RegTypeOK, Inside
    <3>6. r = q
      <4>1. r[1] <= x /\ x <= r[2] /\ q[1] <= x /\ x <= q[2]
        BY <1>2, <2>1, <3>1, <3>2, <3>5
      <4>2. QED
        BY <2>1, <4>1, SameRun
    <3>7. q[1] <= f[1] /\ f[1] <= q[2]
      BY <3>2, <3>5, <3>6
    <3>8. f[2] <= last[2]
      BY <1>4, <3>3, <3>7
    <3>9. QED
      BY <1>2, <2>1, <3>1, <3>2, <3>8
  <2>4. ASSUME Bridged(x)
        PROVE  FALSE
    <3>1. PICK f, g \in Fields : x \in f[2] + 1 .. g[1] - 1 /\ g[1] - f[2] <= MaxGap
      BY <2>4 DEF Bridged
    <3>2. /\ f[1] \in Int /\ f[2] \in Int /\ g[1] \in Int /\ g[2] \in Int
          /\ f[1] <= f[2] /\ g[1] <= g[2]
      BY AtHand, SpanEnds DEF AccessInv, RegTypeOK
    <3>3. f[2] < x /\ x < g[1] /\ f[2] < g[1]
      BY <2>1, <3>1, <3>2
    <3>4. PICK r \in ranges : Inside(f, r) /\ Inside(g, r)
      BY <3>1, <3>3, BridgeInRun
    <3>5. /\ r[1] \in Int /\ r[2] \in Int
          /\ r[1] <= f[1] /\ r[1] <= g[1] /\ g[2] <= r[2]
      BY <3>4, SpanEnds DEF AccessInv, RegTypeOK, Inside
    <3>6. r = q
      <4>1. r[1] <= x /\ x <= r[2] /\ q[1] <= x /\ x <= q[2]
        BY <1>2, <2>1, <3>2, <3>3, <3>5
      <4>2. QED
        BY <2>1, <4>1, SameRun
    <3>7. g \in todo
      <4> SUFFICES ASSUME g \notin todo
                   PROVE  FALSE
        OBVIOUS
      <4>1. q[1] <= g[1] /\ g[1] <= q[2]
        BY <3>2, <3>5, <3>6
      <4>2. g[2] <= last[2]
        BY <1>4, <4>1
      <4>3. QED
        BY <1>2, <2>1, <3>2, <3>3, <4>2
    <3>8. s[1] <= g[1] /\ f[2] <= last[2]
      BY <1>2, <3>2, <3>3, <3>7 DEF x
    <3>9. QED
      BY <1>1, <1>2, <3>1, <3>2, <3>8
  <2>5. QED
    BY <2>2, <2>3, <2>4
<1>6. Fits(s)
  <2>1. Extended(last, s)[2] \in {last[2], s[2]}
    BY <1>1, ExtendedHoldsBoth
  <2>2. q[2] - q[1] < MaxSpan
    BY DEF RunsFit
  <2>3. Extended(last, s)[2] - last[1] < MaxSpan
    BY <1>1, <1>2, <1>3, <2>1, <2>2
  <2>4. QED
    BY <2>3 DEF Fits
<1>7. QED
  BY <1>5, <1>6 DEF Extends, InOneRange

\* So a new block is opened only where a run begins that has none yet.
LEMMA OpensAtRunStart ==
  ASSUME AccessInv, RunShapes, FieldsPlanned, StartsInv, phase = "plan",
         Declared = {}, RunsFit, NEW s, OpenBlock(s)
  PROVE  \E q \in ranges : s[1] = q[1] /\ \A b \in blocks : b[1] < q[1]
<1>1. /\ s \in todo /\ s \in Fields /\ ~Extends(s)
      /\ \A t \in todo : IsSpan(t)
      /\ MaxGap \in Int /\ MaxGap > 0
  BY AtHand DEF OpenBlock, Least, AccessInv, RegTypeOK
<1>2. \A t \in todo : s[1] <= t[1]
  <2> SUFFICES ASSUME NEW t \in todo
               PROVE  s[1] <= t[1]
    OBVIOUS
  <2>1. s[1] < t[1] \/ s[1] = t[1]
    BY DEF OpenBlock, Least
  <2>2. s[1] \in Int /\ t[1] \in Int
    BY <1>1, SpanEnds
  <2>3. QED
    BY <2>1, <2>2
<1>3. PICK q \in ranges : Inside(s, q)
  BY <1>1 DEF AccessInv, Covered
<1>4. /\ s[1] \in Int /\ s[2] \in Int /\ q[1] \in Int /\ q[2] \in Int
      /\ s[1] <= s[2] /\ q[1] <= s[1] /\ s[2] <= q[2]
  <2>1. IsSpan(q) /\ IsSpan(s)
    BY <1>1 DEF AccessInv, RegTypeOK
  <2>2. QED
    BY <1>3, <2>1, SpanEnds DEF Inside
<1>5. ASSUME NEW b \in blocks
      PROVE  b[1] < q[1]
  <2>1. ~(q[1] <= last[1])
    BY <1>1, <1>2, <1>3, RunGoesOn DEF OpenBlock
  <2>2. b[1] <= last[1] /\ last \in blocks
    BY DEF StartsInv, AccessInv, PlanInv
  <2>3. b[1] \in Int /\ last[1] \in Int
    BY <2>2, SpanEnds DEF AccessInv, RegTypeOK
  <2>4. QED
    BY <1>4, <2>1, <2>2, <2>3
<1>6. s[1] = q[1]
  <2>1. PICK g \in Fields : g[1] = q[1]
    BY DEF RunShapes, RunShape
  <2>2. g \in todo
    <3> SUFFICES ASSUME g \notin todo
                 PROVE  FALSE
      OBVIOUS
    <3>1. PICK b \in blocks : Inside(g, b)
      BY DEF FieldsPlanned
    <3>2. /\ g[1] \in Int /\ g[2] \in Int /\ b[1] \in Int /\ b[2] \in Int
          /\ g[1] <= g[2]
      BY AtHand, SpanEnds DEF AccessInv, RegTypeOK
    <3>3. b[1] <= g[1] /\ g[1] <= b[2] /\ q[1] <= g[1] /\ g[1] <= q[2]
      BY <1>4, <2>1, <3>1, <3>2 DEF Inside
    <3>4. b[1] = q[1]
      BY <3>2, <3>3, BlockOfRun
    <3>5. QED
      BY <1>4, <1>5, <3>4
  <2>3. QED
    BY <1>2, <1>4, <2>1, <2>2
<1>7. QED
  BY <1>5, <1>6

LEMMA StartsNext ==
  AccessInv /\ RunShapes /\ FieldsPlanned /\ StartsInv /\ [Next]_accessVars
  => StartsInv'
<1> SUFFICES ASSUME AccessInv, RunShapes, FieldsPlanned, StartsInv, [Next]_accessVars
             PROVE  StartsInv'
  OBVIOUS
<1>1. profile' = profile
  BY DEF Next, DeclaredRanges, JoinRun, OpenRun, RangesDone, ExtendBlock,
         OpenBlock, PlanDone, ReadRegisters, ReadRefused, accessVars
<1>2. Declared' = Declared /\ MaxSpan' = MaxSpan
  BY <1>1 DEF Declared, MaxSpan
<1>3. ASSUME NEW s \in todo, ExtendBlock(s)
      PROVE  StartsInv'
  <2> SUFFICES ASSUME Declared = {}, RunsFit'
               PROVE  StartsInv'
    BY <1>2 DEF StartsInv
  <2>1. /\ phase = "plan" /\ ranges' = ranges /\ last \in blocks
        /\ last' = Extended(last, s)
        /\ blocks' = (blocks \ {last}) \cup {last'}
    BY <1>3 DEF ExtendBlock, Extends, AccessInv, PlanInv
  <2>2. last'[1] = last[1]
    BY <2>1 DEF Extended
  <2>3. RunsFit
    BY <1>2, <2>1 DEF RunsFit
  <2>4. \A b \in blocks : /\ \E r \in ranges : b[1] = r[1]
                          /\ \A c \in blocks : c[1] = b[1] => c = b
                          /\ b[1] <= last[1]
    BY <2>1, <2>3 DEF StartsInv
  <2>5. \A b \in blocks' : /\ \E r \in ranges : b[1] = r[1]
                           /\ \A c \in blocks' : c[1] = b[1] => c = b
                           /\ b[1] <= last'[1]
    BY <2>1, <2>2, <2>4
  <2>6. QED
    BY <2>1, <2>5 DEF StartsInv
<1>4. ASSUME NEW s \in todo, OpenBlock(s)
      PROVE  StartsInv'
  <2> SUFFICES ASSUME Declared = {}, RunsFit'
               PROVE  StartsInv'
    BY <1>2 DEF StartsInv
  <2>1. /\ phase = "plan" /\ ranges' = ranges
        /\ last' = s /\ blocks' = blocks \cup {s}
    BY <1>4 DEF OpenBlock
  <2>2. RunsFit
    BY <1>2, <2>1 DEF RunsFit
  <2>3. PICK q \in ranges : s[1] = q[1] /\ \A b \in blocks : b[1] < q[1]
    BY <1>4, <2>1, <2>2, OpensAtRunStart
  <2>4. \A b \in blocks : b[1] \in Int
    BY SpanEnds DEF AccessInv, RegTypeOK
  <2>5. s[1] \in Int
    BY AtHand, SpanEnds DEF AccessInv, RegTypeOK
  <2>6. \A b \in blocks : /\ \E r \in ranges : b[1] = r[1]
                          /\ \A c \in blocks : c[1] = b[1] => c = b
    BY <2>2 DEF StartsInv
  <2>7. \A b \in blocks' : /\ \E r \in ranges : b[1] = r[1]
                           /\ \A c \in blocks' : c[1] = b[1] => c = b
                           /\ b[1] <= s[1]
    BY <2>1, <2>3, <2>4, <2>5, <2>6
  <2>8. QED
    BY <2>1, <2>7 DEF StartsInv
<1>5. CASE DeclaredRanges
  BY <1>2, <1>5 DEF DeclaredRanges, StartsInv
<1>6. CASE RangesDone \/ (\E s \in todo : JoinRun(s) \/ OpenRun(s))
  BY <1>6 DEF RangesDone, JoinRun, OpenRun, AccessInv, RunsInv, StartsInv
<1>7. ASSUME UNCHANGED <<ranges, blocks>>,
             phase' # "plan" \/ UNCHANGED <<phase, last>>
      PROVE  StartsInv'
  BY <1>2, <1>7 DEF StartsInv, RunsFit
<1>8. CASE PlanDone \/ UNCHANGED accessVars
           \/ (\E a \in Addresses, n \in 0 .. MaxSpan + 1 :
                 ReadRegisters(a, n) \/ ReadRefused(a, n))
  BY <1>7, <1>8 DEF PlanDone, ReadRegisters, ReadRefused, accessVars
<1>9. QED
  BY <1>3, <1>4, <1>5, <1>6, <1>8 DEF Next

\* On a device that declares no ranges and whose runs all fit into one block,
\* the poll's blocks are the readable runs, and the docstring's claim
\* ReadableIsPolled is true: a run longer than max_span, where a poll leaves a
\* gap out as it cuts, is the one thing that breaks it.
THEOREM RunsThatFitArePolled ==
  Spec => [](Declared = {} /\ RunsFit =>
               /\ phase \in {"ready", "answered"} => blocks = ranges
               /\ ReadableIsPolled)
<1>1. Init => StartsInv
  BY DEF Init, StartsInv
<1>2. AccessInv /\ RunShapes /\ FieldsPlanned /\ StartsInv =>
        (Declared = {} /\ RunsFit =>
           /\ phase \in {"ready", "answered"} => blocks = ranges
           /\ ReadableIsPolled)
  <2> SUFFICES ASSUME AccessInv, RunShapes, FieldsPlanned, StartsInv,
                      Declared = {}, RunsFit
               PROVE  /\ phase \in {"ready", "answered"} => blocks = ranges
                      /\ ReadableIsPolled
    OBVIOUS
  <2>1. ASSUME phase \in {"ready", "answered"}, NEW r \in ranges
        PROVE  \E b \in blocks : b[1] = r[1] /\ b = r
    <3>1. PICK f \in Fields : f[2] = r[2]
      BY DEF RunShapes, RunShape
    <3>2. PICK b \in blocks : Inside(f, b)
      BY <2>1 DEF FieldsPlanned
    <3>3. IsSpan(f) /\ IsSpan(b) /\ IsSpan(r)
      BY AtHand DEF AccessInv, RegTypeOK
    <3>4. /\ f[1] \in Int /\ f[2] \in Int /\ b[1] \in Int /\ b[2] \in Int
          /\ r[1] \in Int /\ r[2] \in Int /\ f[1] <= f[2] /\ r[1] <= r[2]
      BY <3>3, SpanEnds
    <3>5. b[1] <= r[2] /\ r[2] <= b[2]
      BY <3>1, <3>2, <3>4 DEF Inside
    <3>6. b[1] = r[1] /\ b[2] <= r[2]
      <4>1. b[1] = r[1] /\ Inside(b, r)
        BY <3>4, <3>5, BlockOfRun
      <4>2. QED
        BY <4>1 DEF Inside
    <3>7. b[2] = r[2]
      BY <3>4, <3>5, <3>6
    <3>8. b = r
      BY <3>3, <3>6, <3>7 DEF IsSpan
    <3>9. QED
      BY <3>6, <3>8
  <2>2. ASSUME phase \in {"ready", "answered"}
        PROVE  blocks = ranges
    <3>1. ranges \subseteq blocks
      BY <2>1, <2>2
    <3>2. ASSUME NEW b \in blocks
          PROVE  b \in ranges
      <4>1. PICK r \in ranges : b[1] = r[1]
        BY DEF StartsInv
      <4>2. r \in blocks
        BY <3>1
      <4>3. QED
        BY <4>1, <4>2 DEF StartsInv
    <3>3. QED
      BY <3>1, <3>2
  <2>3. ReadableIsPolled
    <3> SUFFICES ASSUME NEW x \in read[1] .. read[2]
                 PROVE  \E b \in blocks : Inside(<<x, x>>, b)
      BY DEF ReadableIsPolled
    <3>1. read # NoRead /\ phase = "answered"
      BY DEF NoRead, AccessInv, ReadOnlyAnswered
    <3>2. PICK r \in ranges : Inside(read, r)
      BY <3>1 DEF AccessInv, ReadInv
    <3>3. /\ read[1] \in Int /\ read[2] \in Int /\ r[1] \in Int /\ r[2] \in Int
      BY <3>1, SpanEnds DEF AccessInv, RegTypeOK
    <3>4. Inside(<<x, x>>, r)
      BY <3>2, <3>3 DEF Inside
    <3>5. QED
      BY <2>2, <3>1, <3>4
  <2>4. QED
    BY <2>2, <2>3
<1>3. QED
  BY <1>1, <1>2, StartsNext, Planned, PTL DEF Spec
=============================================================================
