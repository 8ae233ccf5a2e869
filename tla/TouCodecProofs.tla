----------------------------- MODULE TouCodecProofs -----------------------------
(***************************************************************************)
(* What the record codec promises for every record: unpacking undoes       *)
(* packing, swapping twice changes nothing, and a recognisable record with *)
(* its bytes swapped has a calendar the app does not write.                *)
(***************************************************************************)
EXTENDS TouCodec, SequenceTheorems, TLAPS

LEMMA FieldNames ==
  /\ BitFields = {"seconds_of_day", "week_mask", "day_of_month_mask",
                  "month_mask", "reg_type", "target_id", "time_type"}
  /\ "target_reg" \notin BitFields /\ "target_value" \notin BitFields
BY DEF BitFields, Offset

LEMMA FieldBounds ==
  ASSUME NEW f \in BitFields
  PROVE  /\ Offset[f] \in 0 .. 77 /\ Width[f] \in 2 .. 31
         /\ Offset[f] + Width[f] <= 80
BY FieldNames DEF Offset, Width

\* Fields do not overlap.
LEMMA OneField ==
  ASSUME NEW f \in BitFields, NEW g \in BitFields,
         NEW c \in 0 .. Width[f] - 1, NEW d \in 0 .. Width[g] - 1,
         c + Offset[f] = d + Offset[g]
  PROVE  f = g /\ c = d
BY FieldNames DEF Offset, Width

\* The registers of a record.
RecordOf == [1 .. RecordRegisters -> Register]

LEMMA PackedIsRecord ==
  ASSUME NEW e \in Events
  PROVE  ToRegisters(e) \in RecordOf
BY DEF ToRegisters, RecordOf, Events, Register, PlainFields, RecordRegisters

\* A position of the 80 bits lies in one place of one register.
LEMMA Position ==
  ASSUME NEW p \in 0 .. 79
  PROVE  /\ p \div 16 + 1 \in 1 .. 5 /\ p % 16 \in 0 .. 15
         /\ p = (p % 16) + 16 * ((p \div 16 + 1) - 1)
OBVIOUS

LEMMA PackedBit ==
  ASSUME NEW e \in Events, NEW f \in BitFields, NEW c \in 0 .. Width[f] - 1
  PROVE  (c + Offset[f]) % 16 \in ToRegisters(e)[(c + Offset[f]) \div 16 + 1]
           <=> c \in e[f]
<1> DEFINE p == c + Offset[f]
           k == p \div 16 + 1
           b == p % 16
<1>1. p \in 0 .. 79
  BY FieldBounds
<1>2. k \in 1 .. 5 /\ b \in 0 .. 15 /\ p = b + 16 * (k - 1)
  BY <1>1, Position
<1>3. b \in ToRegisters(e)[k]
        <=> \E g \in BitFields : \E d \in e[g] : d + Offset[g] = p
  <2> HIDE DEF p, k, b
  <2> QED BY <1>2 DEF ToRegisters, RecordRegisters
<1>4. ASSUME NEW g \in BitFields, NEW d \in e[g], d + Offset[g] = p
      PROVE  c \in e[f]
  <2>1. d \in 0 .. Width[g] - 1
    BY DEF Events
  <2> QED BY <1>4, <2>1, OneField
<1> QED BY <1>3, <1>4

\* Unpacking a record's registers gives the record back, whatever is in it.
THEOREM UnpackingUndoesPacking ==
  ASSUME NEW e \in Events
  PROVE  FromRegisters(ToRegisters(e)) = e
<1> DEFINE u == FromRegisters(ToRegisters(e))
<1>1. e \in [BitFields \cup PlainFields -> SUBSET (0 .. 30)]
  BY DEF Events
<1>2. u = [f \in BitFields \cup PlainFields |-> u[f]]
  BY DEF FromRegisters
<1>3. ASSUME NEW f \in BitFields
      PROVE  u[f] = e[f]
  <2>1. u[f] = {c \in 0 .. Width[f] - 1 : (c + Offset[f]) % 16
                  \in ToRegisters(e)[(c + Offset[f]) \div 16 + 1]}
    BY FieldNames DEF FromRegisters
  <2>2. e[f] \subseteq 0 .. Width[f] - 1
    BY DEF Events
  <2> QED BY <2>1, <2>2, PackedBit
<1>4. u["target_reg"] = e["target_reg"] /\ u["target_value"] = e["target_value"]
  BY DEF FromRegisters, ToRegisters, PlainFields, RecordRegisters
<1> QED BY <1>1, <1>2, <1>3, <1>4 DEF PlainFields

\* Swapping the bytes of each register twice changes nothing.
THEOREM SwappingTwice ==
  ASSUME NEW n \in Nat, NEW regs \in [1 .. n -> Register]
  PROVE  SwapBytes(SwapBytes(regs)) = regs
<1>1. ASSUME NEW k \in 1 .. n
      PROVE  SwapBytes(SwapBytes(regs))[k] = regs[k]
  <2>1. regs[k] \subseteq 0 .. 15
    BY DEF Register
  <2>2. SwapBytes(regs)[k] = {b \in 0 .. 15 : (b + 8) % 16 \in regs[k]}
    BY DEF SwapBytes
  <2>3. SwapBytes(SwapBytes(regs))[k]
          = {b \in 0 .. 15 : (b + 8) % 16 \in SwapBytes(regs)[k]}
    BY DEF SwapBytes
  <2>4. \A b \in 0 .. 15 :
          (b + 8) % 16 \in 0 .. 15 /\ (((b + 8) % 16) + 8) % 16 = b
    OBVIOUS
  <2> QED BY <2>1, <2>2, <2>3, <2>4
<1>2. /\ SwapBytes(SwapBytes(regs)) = [k \in 1 .. n |->
           SwapBytes(SwapBytes(regs))[k]]
      /\ regs = [k \in 1 .. n |-> regs[k]]
  BY DEF SwapBytes
<1> QED BY <1>1, <1>2
-----------------------------------------------------------------------------
\* Where the bit at a position comes from when bytes are swapped.
Swapped(p) == 16 * (p \div 16) + ((p + 8) % 16)

LEMMA SwappedBit ==
  ASSUME NEW e \in Events,
         NEW f \in BitFields, NEW c \in 0 .. Width[f] - 1,
         NEW g \in BitFields, NEW d \in 0 .. Width[g] - 1,
         d + Offset[g] = Swapped(c + Offset[f])
  PROVE  c \in FromRegisters(SwapBytes(ToRegisters(e)))[f] <=> d \in e[g]
<1> DEFINE regs == ToRegisters(e)
           p == c + Offset[f]
           q == d + Offset[g]
           k == p \div 16 + 1
<1>1. p \in 0 .. 79 /\ q \in 0 .. 79
  BY FieldBounds
<1>2. k \in 1 .. 5 /\ q \div 16 + 1 = k /\ q % 16 = (p + 8) % 16
  <2>1. q = Swapped(p)
    OBVIOUS
  <2> HIDE DEF p, q
  <2> QED BY <1>1, <2>1 DEF Swapped
<1>3. k \in DOMAIN regs
  BY <1>2 DEF ToRegisters, RecordRegisters
<1>4. c \in FromRegisters(SwapBytes(regs))[f] <=> p % 16 \in SwapBytes(regs)[k]
  BY FieldNames DEF FromRegisters
<1>5. p % 16 \in SwapBytes(regs)[k] <=> ((p % 16) + 8) % 16 \in regs[k]
  <2>1. p % 16 \in 0 .. 15
    BY <1>1, Position
  <2> HIDE DEF p, k, regs
  <2> QED BY <1>3, <2>1 DEF SwapBytes
<1>6. q % 16 \in regs[q \div 16 + 1] <=> d \in e[g]
  BY PackedBit
<1>7. ((p % 16) + 8) % 16 = q % 16
  <2> HIDE DEF p, q, k
  <2> QED BY <1>1, <1>2
<1> HIDE DEF p, q, k, regs
<1> QED BY <1>2, <1>4, <1>5, <1>6, <1>7 DEF regs

\* What the swapped calendar is made of: its weekdays are the 2nd to the 8th,
\* its 2nd to 8th are the weekdays, its February to August the 25th to 31st,
\* and its October to December bits 3 to 5 of the target.
LEMMA SwappedCalendar ==
  ASSUME NEW e \in Events
  PROVE  LET u == FromRegisters(SwapBytes(ToRegisters(e))) IN
           /\ \A i \in 0 .. 6 : i \in u.week_mask <=> i + 1 \in e.day_of_month_mask
           /\ \A i \in 1 .. 7 : i \in u.day_of_month_mask <=> i - 1 \in e.week_mask
           /\ \A i \in 1 .. 7 : i \in u.month_mask <=> i + 23 \in e.day_of_month_mask
           /\ \A i \in 9 .. 11 : i \in u.month_mask <=> i - 6 \in e.target_id
<1> DEFINE u == FromRegisters(SwapBytes(ToRegisters(e)))
<1>1. ASSUME NEW i \in 0 .. 6
      PROVE  i \in u["week_mask"] <=> i + 1 \in e["day_of_month_mask"]
  <2>1. i + 1 + Offset["day_of_month_mask"] = Swapped(i + Offset["week_mask"])
    BY DEF Offset, Swapped
  <2> QED BY <2>1, SwappedBit, FieldNames DEF Width
<1>2. ASSUME NEW i \in 1 .. 7
      PROVE  i \in u["day_of_month_mask"] <=> i - 1 \in e["week_mask"]
  <2>1. i - 1 + Offset["week_mask"] = Swapped(i + Offset["day_of_month_mask"])
    BY DEF Offset, Swapped
  <2> QED BY <2>1, SwappedBit, FieldNames DEF Width
<1>3. ASSUME NEW i \in 1 .. 7
      PROVE  i \in u["month_mask"] <=> i + 23 \in e["day_of_month_mask"]
  <2>1. i + 23 + Offset["day_of_month_mask"] = Swapped(i + Offset["month_mask"])
    BY DEF Offset, Swapped
  <2> QED BY <2>1, SwappedBit, FieldNames DEF Width
<1>4. ASSUME NEW i \in 9 .. 11
      PROVE  i \in u["month_mask"] <=> i - 6 \in e["target_id"]
  <2>1. i - 6 + Offset["target_id"] = Swapped(i + Offset["month_mask"])
    BY DEF Offset, Swapped
  <2> QED BY <2>1, SwappedBit, FieldNames DEF Width
<1> QED BY <1>1, <1>2, <1>3, <1>4

\* Of a recognisable record the swapped bytes never pass for a calendar of the
\* app, so decode_table's guess cannot be wrong about it.
THEOREM SwappedIsNoCalendar ==
  ASSUME NEW e \in Events, Recognisable(e)
  PROVE  ~ Plausible(FromRegisters(SwapBytes(ToRegisters(e))))
<1> DEFINE u == FromRegisters(SwapBytes(ToRegisters(e)))
<1> USE SwappedCalendar DEF EveryWeekday, EveryDayOfMonth, EveryMonth
<1>1. u.month_mask # EveryMonth
  <2>1. PICK b \in {3, 4, 5} : b \notin e.target_id
    BY DEF Recognisable
  <2>2. b + 6 \notin u.month_mask
    BY <2>1
  <2> QED BY <2>2
<1>2. u.day_of_month_mask # {} \/ u.week_mask # {}
  <2>1. 0 \in e.week_mask \/ 1 \in e.day_of_month_mask
    BY DEF Recognisable
  <2> QED BY <2>1
<1>3. \/ u.week_mask # EveryWeekday
      \/ \A m \in EveryMonth : u.month_mask # {m}
  <2>1. CASE 1 .. 7 \subseteq e.day_of_month_mask
    <3>1. e.day_of_month_mask = EveryDayOfMonth
      BY <2>1 DEF Recognisable
    <3>2. 1 \in u.month_mask /\ 2 \in u.month_mask
      BY <3>1
    <3> QED BY <3>2
  <2>2. CASE ~ (1 .. 7 \subseteq e.day_of_month_mask)
    <3>1. PICK d \in 1 .. 7 : d \notin e.day_of_month_mask
      BY <2>2
    <3>2. d - 1 \in 0 .. 6 /\ d - 1 \notin u.week_mask
      BY <3>1
    <3> QED BY <3>2
  <2> QED BY <2>1, <2>2
<1>4. ~ Plausible(u)
  <2> HIDE DEF u
  <2> QED BY <1>1, <1>2, <1>3 DEF Plausible
<1> QED BY <1>4
-----------------------------------------------------------------------------
LEMMA FunctionIsSeq ==
  ASSUME NEW S, NEW n \in Nat, NEW r \in [1 .. n -> S]
  PROVE  r \in Seq(S) /\ Len(r) = n
OBVIOUS

LEMMA TwoRecords ==
  ASSUME NEW r \in RecordOf, NEW s \in RecordOf
  PROVE  /\ r \o s \in [1 .. PeriodRegisters -> Register]
         /\ RecordAt(r \o s, 1) = r
         /\ RecordAt(r \o s, 2) = s
<1>1. r \in [1 .. 7 -> Register] /\ s \in [1 .. 7 -> Register]
  BY DEF RecordOf, RecordRegisters
<1>2. /\ r \in Seq(Register) /\ Len(r) = 7
      /\ s \in Seq(Register) /\ Len(s) = 7
  BY <1>1, FunctionIsSeq
<1>3. /\ r \o s \in Seq(Register) /\ Len(r \o s) = 14
      /\ \A k \in 1 .. 14 :
           (r \o s)[k] = IF k <= 7 THEN r[k] ELSE s[k - 7]
  <2>1. /\ r \o s \in Seq(Register)
        /\ Len(r \o s) = Len(r) + Len(s)
        /\ \A k \in 1 .. Len(r) + Len(s) :
             (r \o s)[k] = IF k <= Len(r) THEN r[k] ELSE s[k - Len(r)]
    BY <1>2, ConcatProperties, Zenon
  <2>2. Len(r) + Len(s) = 14
    BY <1>2
  <2> QED BY <1>2, <2>1, <2>2
<1>4. r \o s \in [1 .. 14 -> Register]
  BY <1>3, LenProperties
<1>5. /\ \A k \in 1 .. 7 : (r \o s)[7 * (1 - 1) + k] = r[k]
      /\ \A k \in 1 .. 7 : (r \o s)[7 * (2 - 1) + k] = s[k]
  <2> DEFINE rs == r \o s
  <2>1. ASSUME NEW k \in 1 .. 7
        PROVE  rs[k] = r[k] /\ rs[7 + k] = s[k]
    <3>1. /\ k \in 1 .. 14 /\ 7 + k \in 1 .. 14 /\ (7 + k) - 7 = k
          /\ k <= 7 /\ ~ (7 + k <= 7)
      OBVIOUS
    <3> HIDE DEF rs
    <3>2. \A j \in 1 .. 14 : rs[j] = IF j <= 7 THEN r[j] ELSE s[j - 7]
      BY <1>3 DEF rs
    <3> QED BY <3>1, <3>2
  <2>2. \A k \in 1 .. 7 : 7 * (1 - 1) + k = k /\ 7 * (2 - 1) + k = 7 + k
    OBVIOUS
  <2> HIDE DEF rs
  <2> QED BY <2>1, <2>2 DEF rs
<1>6. /\ RecordAt(r \o s, 1) = [k \in 1 .. 7 |-> r[k]]
      /\ RecordAt(r \o s, 2) = [k \in 1 .. 7 |-> s[k]]
  BY <1>5 DEF RecordAt, RecordRegisters
<1> QED BY <1>1, <1>4, <1>6 DEF PeriodRegisters

\* The registers of a period are those of its two records.
LEMMA PeriodIsTwoRecords ==
  ASSUME NEW p \in AppPeriods
  PROVE  /\ PeriodToRegisters(p) \in [1 .. PeriodRegisters -> Register]
         /\ \A i \in 1 .. 2 :
              RecordAt(PeriodToRegisters(p), i) = ToRegisters(p[i])
<1>1. ToRegisters(p[1]) \in RecordOf /\ ToRegisters(p[2]) \in RecordOf
  BY PackedIsRecord DEF AppPeriods
<1> QED BY <1>1, TwoRecords DEF PeriodToRegisters

\* Swapping a table swaps its records.
LEMMA SwappedRecord ==
  ASSUME NEW regs \in [1 .. PeriodRegisters -> Register], NEW i \in 1 .. 2
  PROVE  /\ SwapBytes(regs) \in [1 .. PeriodRegisters -> Register]
         /\ RecordAt(SwapBytes(regs), i) = SwapBytes(RecordAt(regs, i))
BY DEF SwapBytes, RecordAt, PeriodRegisters, RecordRegisters, Register

LEMMA TableLength ==
  ASSUME NEW regs \in [1 .. PeriodRegisters -> Register]
  PROVE  /\ Len(regs) % RecordRegisters = 0
         /\ 1 .. Len(regs) \div RecordRegisters = 1 .. 2
<1>1. Len(regs) = 14
  BY DEF PeriodRegisters
<1> QED BY <1>1 DEF RecordRegisters

ByteOrders == {"as-is", "swapped"}

\* A table's registers, read in one byte order.
ReadIn(regs, ord) == IF ord = "swapped" THEN SwapBytes(regs) ELSE regs

\* A table both of whose records are used decodes record by record.
LEMMA BothUsed ==
  ASSUME NEW regs \in [1 .. PeriodRegisters -> Register], NEW ord \in ByteOrders,
         \A i \in 1 .. 2 : RecordAt(ReadIn(regs, ord), i)[6] # {}
  PROVE  Decoded(regs, ord)
           = [i \in 1 .. 2 |-> FromRegisters(RecordAt(ReadIn(regs, ord), i))]
<1>1. {i \in 1 .. Len(regs) \div RecordRegisters :
         \E k \in 1 .. RecordRegisters :
           RecordAt(ReadIn(regs, ord), i)[k] # {}} = 1 .. 2
  <2>1. 6 \in 1 .. RecordRegisters
    BY DEF RecordRegisters
  <2> QED BY <2>1, TableLength
<1> QED BY <1>1 DEF Decoded, ReadIn

LEMMA TargetStays ==
  ASSUME NEW p \in AppPeriods, NEW i \in 1 .. 2
  PROVE  /\ ToRegisters(p[i])[6] # {}
         /\ SwapBytes(ToRegisters(p[i]))[6] # {}
<1>1. p[i] \in Events /\ p[i].target_reg # {} /\ p[i].target_reg \in Register
  BY DEF AppPeriods, Events, PlainFields
<1>2. ToRegisters(p[i])[6] = p[i].target_reg /\ 6 \in DOMAIN ToRegisters(p[i])
  BY DEF ToRegisters, RecordRegisters
<1>3. PICK b \in 0 .. 15 : b \in p[i].target_reg
  BY <1>1 DEF Register
<1>4. (b + 8) % 16 \in 0 .. 15 /\ (((b + 8) % 16) + 8) % 16 = b
  OBVIOUS
<1>5. (b + 8) % 16 \in SwapBytes(ToRegisters(p[i]))[6]
  BY <1>2, <1>3, <1>4 DEF SwapBytes
<1> QED BY <1>1, <1>2, <1>5

LEMMA StoredOrder ==
  ASSUME NEW p \in AppPeriods, NEW ord \in ByteOrders,
         NEW regs \in [1 .. PeriodRegisters -> Register],
         ReadIn(regs, ord) = PeriodToRegisters(p)
  PROVE  Decoded(regs, ord) = p
<1> DEFINE w == PeriodToRegisters(p)
<1>1. \A i \in 1 .. 2 : RecordAt(w, i) = ToRegisters(p[i])
  BY PeriodIsTwoRecords
<1>2. \A i \in 1 .. 2 : RecordAt(w, i)[6] # {}
  BY <1>1, TargetStays
<1>3. Decoded(regs, ord) = [i \in 1 .. 2 |-> FromRegisters(RecordAt(w, i))]
  BY <1>2, BothUsed
<1>4. \A i \in 1 .. 2 : FromRegisters(RecordAt(w, i)) = p[i]
  BY <1>1, UnpackingUndoesPacking DEF AppPeriods
<1>5. p = [i \in 1 .. 2 |-> p[i]]
  BY DEF AppPeriods
<1> QED BY <1>3, <1>4, <1>5

LEMMA AppRecord ==
  ASSUME NEW p \in AppPeriods, NEW i \in 1 .. 2
  PROVE  Fits(p[i]) /\ Plausible(p[i])
BY DEF AppPeriods

\* A period of the app stored as it stands is decoded as itself.
THEOREM AsIsTableDecodes ==
  ASSUME NEW p \in AppPeriods
  PROVE  DecodeTable(PeriodToRegisters(p)) = [order |-> "as-is", events |-> p]
<1> DEFINE w == PeriodToRegisters(p)
<1>1. w \in [1 .. PeriodRegisters -> Register]
  BY PeriodIsTwoRecords
<1>2. Decoded(w, "as-is") = p /\ DOMAIN p = 1 .. 2
  BY <1>1, StoredOrder DEF AppPeriods, ByteOrders, ReadIn
<1>3. \A i \in DOMAIN Decoded(w, "as-is") :
        Fits(Decoded(w, "as-is")[i]) /\ Plausible(Decoded(w, "as-is")[i])
  BY <1>2, AppRecord
<1> HIDE DEF w
<1>4. DecodeTable(w) = [order |-> "as-is", events |-> p]
  BY <1>1, <1>2, <1>3, TableLength DEF DecodeTable
<1> QED BY <1>4 DEF w

\* One that the device emits with its bytes swapped is decoded as itself, too,
\* if one of its records is recognisable.
THEOREM SwappedTableDecodes ==
  ASSUME NEW p \in AppPeriods, \E i \in 1 .. 2 : Recognisable(p[i])
  PROVE  DecodeTable(SwapBytes(PeriodToRegisters(p)))
           = [order |-> "swapped", events |-> p]
<1> DEFINE w == PeriodToRegisters(p)
           s == SwapBytes(w)
<1>1. w \in [1 .. PeriodRegisters -> Register]
  BY PeriodIsTwoRecords
<1>2. s \in [1 .. PeriodRegisters -> Register] /\ SwapBytes(s) = w
  BY <1>1, SwappedRecord, SwappingTwice DEF PeriodRegisters
<1>3. Decoded(s, "swapped") = p /\ DOMAIN p = 1 .. 2
  BY <1>2, StoredOrder DEF AppPeriods, ByteOrders, ReadIn
<1>4. \A i \in DOMAIN Decoded(s, "swapped") :
        Fits(Decoded(s, "swapped")[i]) /\ Plausible(Decoded(s, "swapped")[i])
  BY <1>3, AppRecord
<1>5. \A i \in 1 .. 2 : RecordAt(s, i) = SwapBytes(ToRegisters(p[i]))
  BY <1>1, SwappedRecord, PeriodIsTwoRecords
<1>6. Decoded(s, "as-is") = [i \in 1 .. 2 |-> FromRegisters(RecordAt(s, i))]
  <2>1. \A i \in 1 .. 2 : RecordAt(s, i)[6] # {}
    BY <1>5, TargetStays
  <2>2. "as-is" \in ByteOrders /\ ReadIn(s, "as-is") = s
    BY DEF ByteOrders, ReadIn
  <2> HIDE DEF s
  <2> QED BY <1>2, <2>1, <2>2, BothUsed
<1>7. PICK i \in 1 .. 2 : Recognisable(p[i])
  OBVIOUS
<1>8. ~ Plausible(Decoded(s, "as-is")[i]) /\ i \in DOMAIN Decoded(s, "as-is")
  BY <1>5, <1>6, <1>7, SwappedIsNoCalendar DEF AppPeriods
<1> HIDE DEF s
<1>9. DecodeTable(s) = [order |-> "swapped", events |-> p]
  BY <1>2, <1>3, <1>4, <1>8, TableLength DEF DecodeTable
<1> QED BY <1>9 DEF s
=============================================================================
