------------------------------- MODULE Profiles -------------------------------
(***************************************************************************)
(* The device profiles (bluetti_modbus_lib/devices) as far as reading      *)
(* goes: which registers the fields of a device occupy, how long a block   *)
(* may be, which ranges it declares.  What a field means is left out.      *)
(***************************************************************************)
EXTENDS Integers

\* A field by its address and the number of its registers.
Span(address, count) == <<address, address + count - 1>>

\* The registers of the field types: a count given to a number is not used.
Number16(addresses)    == {Span(a, 1) : a \in addresses}
Number32(addresses)    == {Span(a, 2) : a \in addresses}
Number64(addresses)    == {Span(a, 4) : a \in addresses}
Text(address, length)  == {Span(address, length)}
Flags(address, count)  == {Span(address, count)}

\* Every other address: numbers of two registers in a row.
Pairs(first, end) == {a \in first .. end : a % 2 = first % 2}

\* A profile without ranges of its own: the planner decides what to join.
Planned(fields, maxSpan) ==
  [fields |-> fields, span |-> maxSpan, declared |-> {}, generated |-> {},
   balco |-> FALSE]

\* One that declares the registers of each field as a range.
Isolated(fields, maxSpan) ==
  [Planned(fields, maxSpan) EXCEPT !.declared = fields]
-----------------------------------------------------------------------------
AC200LData ==
  Number16((50267 .. 50270) \cup (51002 .. 51004) \cup {50002, 50004, 50006,
      50022, 50214, 50215, 50217, 50219, 50229, 57001, 57005, 57016, 57017,
      57022, 57023})
  \cup Number32({50012, 50018, 50210, 50212}) \cup Number64({50206})
  \cup Flags(50023, 4) \cup Text(50200, 6)
AC200L ==
  Isolated(AC200LData, 50)

AC240Data1 ==
  Number16(Pairs(50002, 50008) \cup (50235 .. 50237)
      \cup (50255 .. 50257) \cup {50022, 50214, 50215, 50217, 50219, 50229,
      50245, 50247, 50267, 50268})
  \cup Number32({50012, 50018, 50210, 50212}) \cup Number64({50206})
  \cup Flags(50023, 4) \cup Text(50200, 6)
AC240Data2 ==
  Number16((50269 .. 50271) \cup (51001 .. 51004) \cup {51219, 51221, 51222,
      57001, 57005, 57009, 57016, 57017, 57022, 57024})
  \cup Number32({51211, 53011}) \cup Number64({53007}) \cup Text(53001, 6)
AC240 ==
  Isolated(AC240Data1 \cup AC240Data2, 50)

AC500Data ==
  Number16((50267 .. 50270) \cup (51001 .. 51004) \cup {50002, 50004, 50006,
      50022, 50214, 50215, 50217, 50219, 50229, 50272, 50273, 57001, 57005,
      57009, 57016, 57017})
  \cup Number32({50012, 50018, 50210, 50212}) \cup Number64({50206})
  \cup Flags(50023, 4) \cup Text(50200, 6)
AC500 ==
  Isolated(AC500Data, 50)

Balco260Data1 ==
  Number16((50234 .. 50240) \cup {50001, 50022, 50214})
  \cup Number32(Pairs(50002, 50020) \cup {50210, 50212, 50219})
  \cup Number64({50206}) \cup Flags(50023, 4) \cup Flags(50027, 5)
  \cup Text(50200, 6)
Balco260Data2 ==
  Number16(50241 .. 50267)
Balco260Data3 ==
  Number16((50268 .. 50283) \cup (51001 .. 51008) \cup {51210})
  \cup Number32(Pairs(51211, 51217)) \cup Number64({51206})
  \cup Text(51200, 6)
Balco260Data4 ==
  Number16((51219 .. 51223) \cup {51234, 51235, 51242, 51245, 57001, 57009,
      57010, 57016, 57017})
  \cup Number32({51236, 51238, 51240, 51246, 53011}) \cup Number64({53007})
  \cup Text(53001, 6)
Balco260 ==
  [Planned(Balco260Data1 \cup Balco260Data2 \cup Balco260Data3
         \cup Balco260Data4, 20) EXCEPT !.balco = TRUE]

Balco500Data1 ==
  Number16({50001, 50022, 50214})
  \cup Number32(Pairs(50002, 50020) \cup Pairs(50215, 50227) \cup {50210})
  \cup Number64({50206}) \cup Flags(50023, 4) \cup Flags(50027, 5)
  \cup Text(50200, 6)
Balco500Data2 ==
  Number16(50233 .. 50257) \cup Number32({50229, 50231})
Balco500Data3 ==
  Number16((50258 .. 50271) \cup (51001 .. 51008) \cup {51210, 51219})
  \cup Number32(Pairs(51211, 51217)) \cup Number64({51206})
  \cup Text(51200, 6)
Balco500Data4 ==
  Number16((51220 .. 51224) \cup {51234, 51235, 51242, 51245, 51248, 51249,
      57001, 57009, 57010, 57016, 57017})
  \cup Number32({51236, 51238, 51240, 51246, 53011}) \cup Number64({53007})
  \cup Text(53001, 6)
Balco500 ==
  [Planned(Balco500Data1 \cup Balco500Data2 \cup Balco500Data3
         \cup Balco500Data4, 50) EXCEPT !.balco = TRUE]

BalcotransData ==
  Number16((50234 .. 50237) \cup (50244 .. 50247) \cup (50254 .. 50258)
      \cup {50001, 50022, 50214, 51002, 51004})
  \cup Number32({50002, 50004, 50008, 50210, 50212}) \cup Number64({50206})
  \cup Flags(50023, 4) \cup Flags(50027, 5) \cup Text(50200, 6)
Balcotrans ==
  [Isolated(BalcotransData, 10) EXCEPT !.balco = TRUE]

EP2000Data1 ==
  Number16(Pairs(50048, 50068) \cup {50001, 50022})
  \cup Number32(Pairs(50002, 50020)) \cup Flags(50023, 4) \cup Flags(50027, 5)
  \cup Text(50032, 16)
EP2000Data2 ==
  Number16((50233 .. 50243) \cup {50069, 50070, 50214})
  \cup Number32(Pairs(50215, 50231) \cup {50210, 50212})
  \cup Number64({50206}) \cup Text(50200, 6)
EP2000Data3 ==
  Number16(50244 .. 50270)
EP2000Data4 ==
  Number16((50271 .. 50275) \cup Pairs(50288, 50310)
      \cup (50402 .. 50410) \cup {51001})
  \cup Text(50400, 2)
EP2000Data5 ==
  Number16((51002 .. 51008) \cup (51219 .. 51224) \cup {51210, 51234, 51235,
      51242, 51245, 51248, 51249})
  \cup Number32(Pairs(51211, 51217) \cup {51236, 51238, 51240, 51246, 53011})
  \cup Number64({51206, 53007}) \cup Text(51200, 6) \cup Text(53001, 6)
EP2000Data6 ==
  Number16(Pairs(57030, 57050) \cup (57051 .. 57053) \cup {57001, 57009,
      57010, 57016, 57017, 57503, 57504, 57506, 57508, 57509, 57511, 57513})
EP2000 ==
  Planned(EP2000Data1 \cup EP2000Data2 \cup EP2000Data3
         \cup EP2000Data4 \cup EP2000Data5 \cup EP2000Data6, 50)

EP500PData ==
  Number16(Pairs(50002, 50008) \cup (51001 .. 51004) \cup {50022, 50214,
      50215, 50217, 50219, 50229, 50267, 57001, 57005, 57009, 57016, 57017})
  \cup Number32({50012, 50018, 50210, 50212}) \cup Number64({50206})
  \cup Flags(50023, 4) \cup Text(50200, 6)
EP500P ==
  Isolated(EP500PData, 50)

FPData1 ==
  Number16({50001, 50022, 50214})
  \cup Number32(Pairs(50002, 50020) \cup Pairs(50215, 50227) \cup {50210,
      50212})
  \cup Number64({50206}) \cup Flags(50023, 4) \cup Flags(50027, 5)
  \cup Text(50200, 6)
FPData2 ==
  Number16(50233 .. 50257) \cup Number32({50229, 50231})
FPData3 ==
  Number16((50258 .. 50283) \cup {51001})
FPData4 ==
  Number16((51002 .. 51008) \cup (51219 .. 51224) \cup {51210, 51234, 51235,
      51242, 51245, 51248, 51249, 57001})
  \cup Number32(Pairs(51211, 51217) \cup {51236, 51238, 51240, 51246, 53011})
  \cup Number64({51206, 53007}) \cup Text(51200, 6) \cup Text(53001, 6)
FPData5 ==
  Number16({57005, 57009, 57010, 57016, 57017})
FPRanges ==
  {<<50001, 50019>>, <<50020, 50031>>, <<50200, 50218>>, <<50219, 50238>>,
   <<50239, 50258>>, <<50259, 50278>>, <<50279, 50283>>, <<51001, 51008>>,
   <<51200, 51219>>, <<51220, 51224>>, <<51234, 51249>>, <<53001, 53012>>,
   <<57001, 57001>>, <<57005, 57005>>, <<57009, 57010>>, <<57016, 57017>>}
FP ==
  [Planned(FPData1 \cup FPData2 \cup FPData3 \cup FPData4 \cup FPData5, 20)
    EXCEPT !.declared = FPRanges, !.balco = TRUE]

PA030Data1 ==
  Number16(Pairs(50002, 50008) \cup (50234 .. 50237)
      \cup (50244 .. 50247) \cup {50022, 50214, 50215, 50217, 50219, 50229})
  \cup Number32(Pairs(50012, 50018) \cup {50210, 50212})
  \cup Number64({50206}) \cup Flags(50023, 4) \cup Text(50200, 6)
PA030Data2 ==
  Number16((50248 .. 50250) \cup (50254 .. 50259) \cup (50267 .. 50275)
      \cup (51001 .. 51007) \cup {50261, 50262})
  \cup Text(51200, 6)
PA030Data3 ==
  Number16({51210, 51221, 51234, 51235, 57001, 57005, 57009, 57016, 57017})
  \cup Number32({51211, 53011}) \cup Number64({51206})
PA030 ==
  Isolated(PA030Data1 \cup PA030Data2 \cup PA030Data3, 50)

SMeterData ==
  Number16({55111}) \cup Number32(Pairs(55112, 55170))
SMeter ==
  Planned(SMeterData, 50)
-----------------------------------------------------------------------------
(* Components restricted to some fields of a device (battery_pack.py). *)

PackInfo         == {f \in Balco260.fields : 51200 <= f[1] /\ f[1] <= 51249}
AggregateSummary == {f \in Balco260.fields : 51001 <= f[1] /\ f[1] <= 51008}

Balco260Pack      == [Balco260 EXCEPT !.fields = PackInfo]
Balco260Aggregate == [Balco260 EXCEPT !.fields = AggregateSummary]

\* The same names, at the same addresses, on a FridgePower.
FPPack == [FP EXCEPT !.fields = PackInfo]

\* The FridgePower's profile as import.py has it when it computes the ranges.
FPBeforeRanges ==
  [FP EXCEPT !.declared = {}, !.generated = FPRanges, !.balco = FALSE]
=============================================================================
