----------------------------- MODULE MCHardwareTest -----------------------------
(* The scripts with a field of one register and one of two, and plans of all
   three calendars of the app, those whose swapped bytes pass for another
   calendar among them.                                                      *)
EXTENDS HardwareTest

MCWords == <<2, 1, 1>>

\* Bits of a number below 2^17.
Number(n) == {b \in 0 .. 16 : (n \div 2^b) % 2 = 1}

Common ==
  [f \in BitFields \cup PlainFields |->
     IF f = "target_reg" THEN Number(2011) ELSE {}]

\* From 18:00 to 19:00; the switch on, then off; time types 1 and 2.
Evening(calendar) ==
  Period(calendar, <<Number(64800), Number(68400)>>, <<{0}, {1}>>,
         <<{0}, {}>>, Common)

\* What balco_modes_probe.py writes with --write-period 1,2.
Inert ==
  Period(Weekly(EveryWeekday), <<Number(60), Number(120)>>, <<{0}, {1}>>,
         <<{0}, {0}>>, Common)

MCPlans ==
  {<<>>, Inert, Evening(Weekly({1, 3})), Evening(Once),
   Evening(OnDates({0, 14}, 2)), Evening(OnDates(1 .. 7, 8))}
=============================================================================
