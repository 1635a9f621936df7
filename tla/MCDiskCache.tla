---------------------------- MODULE MCDiskCache ----------------------------
(***************************************************************************)
(* DiskCache instantiated for TLC: three disk sectors, calls of up to two *)
(* sectors, two payload values and two ratios, so that a 50% threshold    *)
(* can be exceeded (usage 100) or met.                                     *)
(***************************************************************************)
EXTENDS DiskCache, TLC

MCRatios == {50, 100}

\* Payload values are only compared for equality.
MCSymmetry == Permutations(Vals)
=============================================================================
