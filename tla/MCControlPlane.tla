--------------------------- MODULE MCControlPlane ---------------------------
(***************************************************************************)
(* An instance of ControlPlane for TLC: users list the pool p1 or no pool. *)
(***************************************************************************)
EXTENDS ControlPlane, TLC

CONSTANT p1

Lists == {<<>>, <<p1>>}
=============================================================================
