-------------------------- MODULE MachineProvider ---------------------------
(***************************************************************************)
(* ProvisionMachine and DeprovisionMachine of the Proxmox provider         *)
(* (internal/provider/proxmox/proxmox.go) request by request, on a Proxmox *)
(* cluster that users share: machines of several names, hosts that go      *)
(* offline, VMIDs that users take, requests that fail before or after they *)
(* had their effect, and callers that crash.                               *)
(*                                                                         *)
(* Module Proxmox is the view of one name that NodeClaim builds on; the    *)
(* property OneNameView shows that this module implements it.  Calls for   *)
(* one name are serialised by the workqueue of the process; two callers    *)
(* are two processes at work on different claims.                          *)
(***************************************************************************)
EXTENDS Naturals, FiniteSets, FiniteSetsExt

CONSTANTS
  Callers,        \* processes that call the provider
  Names,          \* machine names
  Hosts,          \* Proxmox hosts
  NodeWhitelist,  \* nodeWhitelist, empty for all hosts
  Lower, Upper,   \* vmIDRange
  MaxVMID,        \* bound on the VMIDs of the cluster
  TagConfigured,  \* whether managedNodeTag is set: the field is optional
  None,           \* no name, VM or host
  MaxErrors,      \* bound on failed requests and hosts going offline
  MaxCrashes,     \* bound on crashes of callers
  MaxUserVMs      \* bound on VMs that users create

VMIDRange == Lower..Upper
AllVMIDs == 1..MaxVMID

\* tagged: the tags of the VM contain the managedNodeTag.
VM == [name : Names, tagged : BOOLEAN, running : BOOLEAN, host : Hosts]

ASSUME MachineProviderAssumption ==
  /\ {Lower, Upper, MaxVMID, MaxErrors, MaxCrashes, MaxUserVMs} \subseteq Nat
  /\ Lower <= Upper /\ VMIDRange \subseteq AllVMIDs
  /\ NodeWhitelist \subseteq Hosts
  /\ TagConfigured \in BOOLEAN
  /\ None \notin Names \cup Hosts \cup AllVMIDs \cup VM

VARIABLES
  vms,     \* the VM with each VMID, or None
  online,  \* the hosts that are up
  call,    \* per caller: the call it is in
  budget   \* what remains of the bounds

vars == <<vms, online, call, budget>>

Call == [pc : {"idle", "provision", "startFound", "allocate", "create", "start",
               "deprovision", "stop", "delete"},
         name : Names \cup {None}, id : AllVMIDs \cup {None},
         result : {"none", "launched", "noVMID"}]

\* Every variable has its type, and what the provider creates stays in the
\* configured range of VMIDs.
TypeOK ==
  /\ vms \in [AllVMIDs -> VM \cup {None}]
  /\ \A id \in AllVMIDs \ VMIDRange : vms[id] # None => ~vms[id].tagged
  /\ online \subseteq Hosts
  /\ call \in [Callers -> Call]
  /\ budget \in [{"error", "crash", "user"} -> Nat]

NoCall == [pc |-> "idle", name |-> None, id |-> None, result |-> "none"]

Init ==
  /\ vms = [id \in AllVMIDs |-> None]
  /\ online = Hosts
  /\ call = [c \in Callers |-> NoCall]
  /\ budget = [error |-> MaxErrors, crash |-> MaxCrashes, user |-> MaxUserVMs]

-----------------------------------------------------------------------------
(* Requests *)

Spend(fault) ==
  /\ budget[fault] > 0
  /\ budget' = [budget EXCEPT ![fault] = @ - 1]

Used == {id \in AllVMIDs : vms[id] # None}

Goto(c, where, id) == call' = [call EXCEPT ![c].pc = where, ![c].id = id]

\* Errors and the end of a DeprovisionMachine are not told apart.
Return(c, result) ==
  call' = [call EXCEPT ![c] = [NoCall EXCEPT !.result = result]]

\* A request fails without an effect, and the call returns an error.
RequestFails(c) == Spend("error") /\ Return(c, "none") /\ UNCHANGED vms

On(hosts, name) ==
  {id \in Used : vms[id].name = name /\ vms[id].host \in hosts}

\* Mutant: only one of the hosts is searched.
FoundOnOneHost(c, ids) ==
  /\ \E h \in online : ids = On({h}, call[c].name)
  /\ UNCHANGED budget

\* findNodeByVMName: the VMs of the name on the hosts that are online, without
\* those of a host that does not answer; the first one is returned, in an order
\* that Proxmox chooses.
FoundOn(c, ids) ==
  \/ ids = On(online, call[c].name) /\ UNCHANGED budget
  \/ \E h \in online : ids = On(online \ {h}, call[c].name) /\ Spend("error")

\* The managed VMs of one name and those of them that run: what module Proxmox
\* calls vms and running.
Machines(name) == {id \in Used : vms[id].name = name /\ vms[id].tagged}
RunningMachines(name) == {id \in Machines(name) : vms[id].running}

\* Start, Stop and Delete name the VM by its VMID and host, and fail when the
\* host is offline or has no such VM.
Reachable(id) == vms[id] # None /\ vms[id].host \in online

\* A request for the VM, and what it makes of it.  An error is returned when it
\* cannot be served, when it fails, or when the answer is lost or waited for in
\* vain although it was served.
Request(c, id, vm, Success) ==
  \/ Reachable(id) /\ vms' = [vms EXCEPT ![id] = vm] /\ Success /\ UNCHANGED budget
  \/ Reachable(id) /\ vms' = [vms EXCEPT ![id] = vm] /\ Spend("error") /\ Return(c, "none")
  \/ ~Reachable(id) /\ Return(c, "none") /\ UNCHANGED <<vms, budget>>
  \/ RequestFails(c)

-----------------------------------------------------------------------------
(* ProvisionMachine *)

Begin(c, operation) ==
  /\ call[c].pc = "idle"
  /\ \E name \in Names \ {call[d].name : d \in Callers} :
       call' = [call EXCEPT ![c] = [NoCall EXCEPT !.pc = operation, !.name = name]]
  /\ UNCHANGED <<vms, online, budget>>

\* Mutant: a VM that was found is taken as it is.
ReuseAsItIs(c) ==
  /\ call[c].pc = "provision"
  /\ \E ids \in SUBSET Used :
       /\ FoundOn(c, ids)
       /\ IF ids = {} THEN Goto(c, "allocate", None) ELSE Return(c, "launched")
  /\ UNCHANGED <<vms, online>>

\* A VM of the name is looked for and reused, whatever its tags.
FindExisting(c) ==
  /\ call[c].pc = "provision"
  /\ \/ \E ids \in SUBSET Used :
          /\ FoundOn(c, ids)
          /\ \/ ids = {} /\ Goto(c, "allocate", None)
             \/ \E id \in ids : IF vms[id].running THEN Return(c, "launched")
                                ELSE Goto(c, "startFound", id)
          /\ UNCHANGED vms
     \/ RequestFails(c)
  /\ UNCHANGED online

Running(id) == [vms[id] EXCEPT !.running = TRUE]

StartFound(c) ==
  /\ call[c].pc = "startFound"
  /\ Request(c, call[c].id, Running(call[c].id), Return(c, "launched"))
  /\ UNCHANGED online

\* Mutant: the probe runs past the end of the range.
ProbeNoWrap(start, i) == start + i

\* Mutant: the probe wraps around to the second VMID of the range.
ProbeOffByOne(start, i) ==
  IF start + i > Upper THEN Lower + (start + i - Upper) ELSE start + i

\* The i-th candidate of generateNewVMID's probe.
Probe(start, i) ==
  IF start + i > Upper THEN Lower + (start + i - Upper - 1) ELSE start + i

\* generateNewVMID: the first candidate that is not used, from a random start.
GenerateNewVMID(used, start) ==
  LET span == Upper - Lower + 1
      free == {i \in 0..(span - 1) : Probe(start, i) \notin used}
  IN  IF Cardinality(used) >= span \/ free = {} THEN None ELSE Probe(start, Min(free))

\* The cluster's VMs are listed, those of offline hosts too, and a VMID is chosen.
AllocateVMID(c) ==
  /\ call[c].pc = "allocate"
  /\ \/ /\ \E start \in VMIDRange :
             LET id == GenerateNewVMID(Used \cap VMIDRange, start) IN
             IF id = None THEN Return(c, "noVMID") ELSE Goto(c, "create", id)
        /\ UNCHANGED <<vms, budget>>
     \/ RequestFails(c)
  /\ UNCHANGED online

\* getAvailableNode: hosts that are online and in the whitelist, if there is one.
Candidates == IF NodeWhitelist = {} THEN online ELSE NodeWhitelist \cap online

\* buildVirtualMachineOptions: the VM has the name and the managedNodeTag.
NewVM(name, host) ==
  [name |-> name, tagged |-> TRUE, running |-> FALSE, host |-> host]

\* Proxmox refuses a VMID that was taken since the list.  No host may have room.
CreateVM(c) ==
  LET id == call[c].id IN
  /\ call[c].pc = "create"
  /\ \/ \E h \in Candidates :
          /\ vms[id] = None
          /\ vms' = [vms EXCEPT ![id] = NewVM(call[c].name, h)]
          /\ \/ Goto(c, "start", id) /\ UNCHANGED budget
             \/ Spend("error") /\ Return(c, "none")
     \/ /\ vms[id] # None \/ Candidates = {}
        /\ Return(c, "none")
        /\ UNCHANGED <<vms, budget>>
     \/ RequestFails(c)
  /\ UNCHANGED online

StartNew(c) ==
  /\ call[c].pc = "start"
  /\ Request(c, call[c].id, Running(call[c].id), Return(c, "launched"))
  /\ UNCHANGED online

-----------------------------------------------------------------------------
(* DeprovisionMachine *)

\* Mutant: the tags are not looked at.
ManagedByName(vm) == TRUE

\* strings.Contains(tags, managedNodeTag), which holds of all tags if there is no
\* managedNodeTag.
Managed(vm) == TagConfigured => vm.tagged

\* The VM is looked for, and left alone if it is not managed.
FindToDelete(c) ==
  /\ call[c].pc = "deprovision"
  /\ \/ \E ids \in SUBSET Used :
          /\ FoundOn(c, ids)
          /\ \/ ids = {} /\ Return(c, "none")
             \/ \E id \in ids : IF Managed(vms[id]) THEN Goto(c, "stop", id)
                                ELSE Return(c, "none")
          /\ UNCHANGED vms
     \/ RequestFails(c)
  /\ UNCHANGED online

StopVM(c) ==
  LET id == call[c].id IN
  /\ call[c].pc = "stop"
  /\ Request(c, id, [vms[id] EXCEPT !.running = FALSE], Goto(c, "delete", id))
  /\ UNCHANGED online

\* Mutant: every machine of the name is deleted.
DeleteAllVMs(c) ==
  /\ call[c].pc = "delete"
  /\ vms' = [id \in AllVMIDs |-> IF id \in Machines(call[c].name) THEN None ELSE vms[id]]
  /\ Return(c, "none")
  /\ UNCHANGED <<online, budget>>

DeleteVM(c) ==
  /\ call[c].pc = "delete"
  /\ Request(c, call[c].id, None, Return(c, "none"))
  /\ UNCHANGED online

-----------------------------------------------------------------------------
(* The cluster and its users *)

Crash(c) ==
  /\ call[c].pc # "idle"
  /\ Spend("crash")
  /\ call' = [call EXCEPT ![c] = NoCall]
  /\ UNCHANGED <<vms, online>>

\* A user's VM may have any VMID and name, but not the managed tag.
UserCreates(id) ==
  /\ vms[id] = None
  /\ Spend("user")
  /\ \E name \in Names, h \in online, on \in BOOLEAN :
       vms' = [vms EXCEPT ![id] = [name |-> name, tagged |-> FALSE,
                                   running |-> on, host |-> h]]
  /\ UNCHANGED <<online, call>>

UserDeletes(id) ==
  /\ Reachable(id) /\ ~vms[id].tagged
  /\ vms' = [vms EXCEPT ![id] = None]
  /\ UNCHANGED <<online, call, budget>>

HostFails(h) ==
  /\ h \in online
  /\ Spend("error")
  /\ online' = online \ {h}
  /\ UNCHANGED <<vms, call>>

HostReturns(h) ==
  /\ h \notin online
  /\ online' = online \cup {h}
  /\ UNCHANGED <<vms, call, budget>>

Step(c) ==
  \/ Begin(c, "provision") \/ Begin(c, "deprovision")
  \/ FindExisting(c) \/ StartFound(c)
  \/ AllocateVMID(c) \/ CreateVM(c) \/ StartNew(c)
  \/ FindToDelete(c) \/ StopVM(c) \/ DeleteVM(c)

Next ==
  \/ \E c \in Callers : Step(c) \/ Crash(c)
  \/ \E id \in AllVMIDs : UserCreates(id) \/ UserDeletes(id)
  \/ \E h \in Hosts : HostFails(h) \/ HostReturns(h)

Spec == Init /\ [][Next]_vars

-----------------------------------------------------------------------------
(* Properties *)

\* Whatever the names and however VMIDs are taken and given back, a call stops
\* and deletes no VM of a user, if a managedNodeTag is configured.  It may start
\* one that has the name of a machine.
UserMachinesKept ==
  [][TagConfigured /\ call' # call =>
       \A id \in Used : ~vms[id].tagged => vms'[id] \in {vms[id], Running(id)}]_vars

\* Unless a request failed or a host was offline, a machine name has one managed
\* VM at most, however calls for it crash and are repeated.
OneMachinePerName ==
  budget.error = MaxErrors =>
    \A a, b \in Used :
      vms[a].tagged /\ vms[b].tagged /\ vms[a].name = vms[b].name => a = b

\* ProvisionMachine succeeds only when a VM of the name is running.  Only a VM of
\* a user that was taken for the machine may have given its VMID to another one
\* before it is started.
LaunchedIsRunning ==
  [][\A c \in Callers :
       call[c].pc # "idle" /\ call'[c].result = "launched" =>
         \/ \E id \in AllVMIDs :
              vms'[id] # None /\ vms'[id].name = call[c].name /\ vms'[id].running
         \/ call[c].pc = "startFound" /\ budget.user < MaxUserVMs]_vars

\* A VMID is found whenever one of the range is free, wherever the probe starts.
FreeVMIDFound ==
  [][\A c \in Callers : call[c].pc = "allocate" /\ call'[c].result = "noVMID" =>
                          VMIDRange \subseteq Used]_vars

\* The managed VMs of one name, seen as module Proxmox sees them.
View(name) == INSTANCE Proxmox WITH
  VMIDs <- VMIDRange, HostsMaySkip <- TRUE,
  vms <- Machines(name), running <- RunningMachines(name)
=============================================================================
