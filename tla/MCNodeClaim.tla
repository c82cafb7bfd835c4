---------------------------- MODULE MCNodeClaim ----------------------------
(***************************************************************************)
(* Instances of NodeClaim for TLC.  VMIDs are interchangeable; the         *)
(* liveness runs do not use the symmetry.                                  *)
(***************************************************************************)
EXTENDS NodeClaim, TLC

VMIDSymmetry == Permutations(VMIDs)
=============================================================================
