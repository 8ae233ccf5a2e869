---------------------------- MODULE MCSettingWrite ----------------------------
(* SettingWrite for one register, a percentage whose field states a Range
   narrower than the table's (b_soc_low of a Balco 260), with two callers and
   the three looks of the code.  SettingWriteProofs has the theorems for any
   number of registers of any kind.                                          *)
EXTENDS SettingWrite, TLC

MCWords  == [r \in Registers |-> 0 .. 2]
MCBounds == [r \in Ranged |-> {1, 2}]
MCTable  == [r \in Registers |-> 0 .. 2]

Symmetry == Permutations(Callers)
=============================================================================
