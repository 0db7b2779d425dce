---------------------------- MODULE MCElectrum ----------------------------
(***************************************************************************)
(* Instances of Electrum for TLC.                                          *)
(***************************************************************************)
EXTENDS Electrum, TLC

CONSTANTS s, u   \* tasks

Times == [h \in Height |-> h + 1]
Tasks == Permutations(Task)
=============================================================================
