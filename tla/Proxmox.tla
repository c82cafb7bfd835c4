------------------------------ MODULE Proxmox ------------------------------
(***************************************************************************)
(* The Proxmox provider (internal/provider/proxmox/proxmox.go), seen by    *)
(* the callers of one machine name: the VMs that carry the name and which  *)
(* of them are powered on.                                                 *)
(*                                                                         *)
(* A provider call is a sequence of Proxmox API requests; the operators    *)
(* below are the requests that change a VM, each with the effect it has    *)
(* when it succeeds.  The callers decide which of them fail.  Hosts,       *)
(* memory and CPU fit, MAC addresses and VM options do not reach any       *)
(* property and are left out: a host without room is a failed request.     *)
(***************************************************************************)
EXTENDS FiniteSets

CONSTANTS
  VMIDs,        \* the configured vmIDRange
  HostsMaySkip  \* whether a host may be offline or fail to list its VMs

ASSUME HostsMaySkipAssumption == HostsMaySkip \in BOOLEAN

VARIABLES
  vms,      \* the VMIDs in use by VMs that carry the machine name
  running   \* those of them that are powered on

proxmoxVars == <<vms, running>>

ProxmoxTypeOK ==
  /\ vms \subseteq VMIDs
  /\ running \subseteq vms

ProxmoxInit ==
  /\ vms = {}
  /\ running = {}

(***************************************************************************)
(* What findNodeByVMName may see: every VM of the name, or, because it     *)
(* passes over a host that is offline or does not answer and goes on with  *)
(* the next one, only those on the hosts that answered.                    *)
(***************************************************************************)
Visible == IF HostsMaySkip THEN SUBSET vms ELSE {vms}

\* The ids generateNewVMID can return, wherever its random probe starts.
FreeVMIDs == VMIDs \ vms

\* ProvisionMachine finds a VM of the name and powers it on if it is off.
ReuseVM(id) ==
  /\ running' = running \cup {id}
  /\ UNCHANGED vms

\* ProvisionMachine creates the VM and powers it on, unless the start fails.
CreateVM(id, started) ==
  /\ vms' = vms \cup {id}
  /\ running' = IF started THEN running \cup {id} ELSE running

\* DeprovisionMachine stops the VM ...
StopVM(id) ==
  /\ running' = running \ {id}
  /\ UNCHANGED vms

\* Mutant: the VM is deleted without being stopped.
DeleteRunningVM(id) ==
  /\ vms' = vms \ {id}
  /\ UNCHANGED running

\* ... and then deletes it.
DeleteVM(id) ==
  /\ running' = running \ {id}
  /\ vms' = vms \ {id}

\* What the requests for one name may do to its VMs.
ProxmoxNext ==
  \/ \E id \in vms : ReuseVM(id) \/ StopVM(id) \/ DeleteVM(id)
  \/ \E id \in FreeVMIDs, started \in BOOLEAN : CreateVM(id, started)

ProxmoxSpec == ProxmoxInit /\ [][ProxmoxNext]_proxmoxVars
=============================================================================
