------------------------------- MODULE TouCodec -------------------------------
(***************************************************************************)
(* script/tou_codec.py: the records of the Balco family's scheduler table. *)
(*                                                                         *)
(* A register, and every field of a record, is the set of its one bits, bit *)
(* 0 the lowest.  A record's fields lie side by side in an 80 bit number,  *)
(* so packing, masking and shifting are sums and differences of positions. *)
(***************************************************************************)
EXTENDS Naturals, Sequences

\* _FIELDS: where a field starts in the 80 bits, and how many it has.
Offset ==
  [seconds_of_day |-> 0, week_mask |-> 17, day_of_month_mask |-> 24,
   month_mask |-> 55, reg_type |-> 67, target_id |-> 69, time_type |-> 77]
Width ==
  [seconds_of_day |-> 17, week_mask |-> 7, day_of_month_mask |-> 31,
   month_mask |-> 12, reg_type |-> 2, target_id |-> 8, time_type |-> 3]

BitFields   == DOMAIN Offset
PlainFields == {"target_reg", "target_value"}

Register         == SUBSET (0 .. 15)
RecordRegisters  == 7
PeriodRegisters  == 14

\* A record before its constructor has looked at the time of day.
Events ==
  {e \in [BitFields \cup PlainFields -> SUBSET (0 .. 30)] :
     /\ \A f \in BitFields : e[f] \subseteq 0 .. Width[f] - 1
     /\ \A f \in PlainFields : e[f] \in Register}

\* One number is less than another: the highest bit they differ in is the
\* other's.
Less(s, t) == \E b \in t \ s : \A c \in s \ t : c < b

\* 86400.
SecondsPerDay == {7, 8, 12, 14, 16}

\* What TouEvent's constructor lets pass.
Fits(e) == Less(e.seconds_of_day, SecondsPerDay)
-----------------------------------------------------------------------------
\* TouEvent.to_registers: five registers of bits, then the two plain ones.
ToRegisters(e) ==
  [k \in 1 .. RecordRegisters |->
     IF k = 6 THEN e.target_reg
     ELSE IF k = 7 THEN e.target_value
     ELSE {b \in 0 .. 15 : \E f \in BitFields : \E c \in e[f] :
             c + Offset[f] = b + 16 * (k - 1)}]

\* TouEvent.from_registers, up to the constructor's look at the time of day.
FromRegisters(regs) ==
  [f \in BitFields \cup PlainFields |->
     IF f = "target_reg" THEN regs[6]
     ELSE IF f = "target_value" THEN regs[7]
     ELSE {c \in 0 .. Width[f] - 1 :
             (c + Offset[f]) % 16 \in regs[(c + Offset[f]) \div 16 + 1]}]

\* Each register's two bytes exchanged.
SwapBytes(regs) ==
  [k \in DOMAIN regs |-> {b \in 0 .. 15 : (b + 8) % 16 \in regs[k]}]

EveryWeekday    == 0 .. 6
EveryDayOfMonth == 0 .. 30
EveryMonth      == 0 .. 11

\* Mutant: dates of any months pass for the app's.
AnyMonths(e) ==
  \/ e.week_mask = {} /\ e.day_of_month_mask = {} /\ e.month_mask = {}
  \/ e.day_of_month_mask = EveryDayOfMonth /\ e.month_mask = EveryMonth
  \/ /\ e.week_mask = EveryWeekday
     /\ e.day_of_month_mask # {} /\ e.month_mask # {}

\* _plausible: one of the three calendars the app writes.
Plausible(e) ==
  \/ e.week_mask = {} /\ e.day_of_month_mask = {} /\ e.month_mask = {}
  \/ e.day_of_month_mask = EveryDayOfMonth /\ e.month_mask = EveryMonth
  \/ /\ e.week_mask = EveryWeekday
     /\ e.day_of_month_mask # {}
     /\ \E m \in EveryMonth : e.month_mask = {m}

\* A calendar the app writes whose bytes do not pass for another one when they
\* are swapped: not a single date, and not dates that include all of the 2nd to
\* the 8th; and a target below 56.
Recognisable(e) ==
  /\ ~ ({3, 4, 5} \subseteq e.target_id)
  /\ \/ \E w \in SUBSET EveryWeekday :
          <<e.week_mask, e.day_of_month_mask, e.month_mask>>
            = <<w, EveryDayOfMonth, EveryMonth>>
     \/ /\ e.week_mask = EveryWeekday
        /\ ~ (1 .. 7 \subseteq e.day_of_month_mask)

\* The i-th record's registers of a table.
RecordAt(regs, i) ==
  [k \in 1 .. RecordRegisters |-> regs[RecordRegisters * (i - 1) + k]]

\* The used records of a table, decoded in one byte order: events by the place
\* of their record, an unused slot has none.
Decoded(regs, order) ==
  LET words     == IF order = "swapped" THEN SwapBytes(regs) ELSE regs
      Used(i)   == \E k \in 1 .. RecordRegisters : RecordAt(words, i)[k] # {}
      places    == {i \in 1 .. Len(regs) \div RecordRegisters : Used(i)}
  IN [i \in places |-> FromRegisters(RecordAt(words, i))]

Refused == [order |-> "none", events |-> <<>>]

\* decode_table with byte_order "auto": the first order in which all records
\* are records, with a calendar the app writes.
DecodeTable(regs) ==
  LET Reads(order) == \A i \in DOMAIN Decoded(regs, order) :
        LET e == Decoded(regs, order)[i] IN Fits(e) /\ Plausible(e)
      As(order) == [order |-> order, events |-> Decoded(regs, order)]
  IN IF Len(regs) % RecordRegisters # 0 THEN Refused
     ELSE IF Reads("as-is")             THEN As("as-is")
     ELSE IF Reads("swapped")           THEN As("swapped")
     ELSE Refused
-----------------------------------------------------------------------------
(* The app's three ways to repeat a plan. *)

Once             == [week |-> {}, days |-> {}, months |-> {}]
Weekly(weekdays) ==
  [week |-> weekdays, days |-> EveryDayOfMonth, months |-> EveryMonth]
OnDates(days, m) == [week |-> EveryWeekday, days |-> days, months |-> {m}]

\* _period: a start and an end record, told apart by the time type; common is
\* a record with the rest of the fields.
Period(calendar, times, types, values, common) ==
  [i \in 1 .. 2 |->
     [f \in BitFields \cup PlainFields |->
        CASE f = "seconds_of_day"    -> times[i]
          [] f = "time_type"         -> types[i]
          [] f = "target_value"      -> values[i]
          [] f = "week_mask"         -> calendar.week
          [] f = "day_of_month_mask" -> calendar.days
          [] f = "month_mask"        -> calendar.months
          [] OTHER                   -> common[f]]]

\* Periods the app writes: at a time of day, with one of its three calendars,
\* for a register.
AppPeriods ==
  {p \in [1 .. 2 -> Events] :
     \A i \in 1 .. 2 : Fits(p[i]) /\ Plausible(p[i]) /\ p[i].target_reg # {}}

\* TouPeriod.to_registers.
PeriodToRegisters(p) == ToRegisters(p[1]) \o ToRegisters(p[2])
=============================================================================
