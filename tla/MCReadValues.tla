---------------------------- MODULE MCReadValues ----------------------------
(* ReadValues on small instances.  TransientRetryCount is 1 where there are
   two devices, so that two failures exhaust a poll, and FewFailures bounds
   the failures the latest polls of all devices have seen together.          *)
EXTENDS ReadValues, FiniteSetsExt, TLC

CONSTANT MaxFailures

Symmetric == Permutations(Devices)

FewFailures ==
  MapThenSumSet(LAMBDA d : Len(failures[d]), Devices) <= MaxFailures
=============================================================================
