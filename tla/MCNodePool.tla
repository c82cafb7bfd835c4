----------------------------- MODULE MCNodePool -----------------------------
(***************************************************************************)
(* Instances of NodePool for TLC.  Pods of the pool are interchangeable;   *)
(* claims are not, since scale-down takes them in the order of their names. *)
(***************************************************************************)
EXTENDS NodePool, TLC

PodSymmetry == Permutations(Pods \ OtherPods)
=============================================================================
