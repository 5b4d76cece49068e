------------------------- MODULE MCDmabufCollection -------------------------
(* The instances of DmabufCollection are interchangeable.                  *)
EXTENDS DmabufCollection, TLC

InstanceSymmetry == Permutations(Instances)
=============================================================================
