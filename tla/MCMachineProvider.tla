------------------------- MODULE MCMachineProvider --------------------------
(***************************************************************************)
(* An instance of MachineProvider for TLC: two machine names.              *)
(***************************************************************************)
EXTENDS MachineProvider, TLC

CONSTANTS n1, n2

ASSUME NamesAssumption == {n1, n2} \subseteq Names

Symmetry ==
  Permutations(Names) \cup Permutations(Callers) \cup Permutations(Hosts)

\* The managed VMs of each of the two names, as module Proxmox sees them.
View1 == INSTANCE Proxmox WITH
  VMIDs <- VMIDRange, HostsMaySkip <- TRUE,
  vms <- Machines(n1), running <- RunningMachines(n1)

View2 == INSTANCE Proxmox WITH
  VMIDs <- VMIDRange, HostsMaySkip <- TRUE,
  vms <- Machines(n2), running <- RunningMachines(n2)

\* Of the managed VMs of each name, the requests of all calls make no more than
\* what Proxmox, and with it NodeClaim, assumes of the provider.
OneNameView == View1!ProxmoxSpec /\ View2!ProxmoxSpec
=============================================================================
