----------------------- MODULE MachineProviderProofs ------------------------
(***************************************************************************)
(* Invariants, action properties and the refinement of MachineProvider,    *)
(* proved for every value of its constants.                                *)
(***************************************************************************)
EXTENDS MCMachineProvider, DataInduction, TLAPS

-----------------------------------------------------------------------------
(* The invariant *)

BudgetTypeOK ==
  /\ budget \in [{"error", "crash", "user"} -> Nat]
  /\ budget.error <= MaxErrors /\ budget.user <= MaxUserVMs

\* A call has a name and no result until it returns, and the VM it is about.
Formed(r) ==
  /\ r.pc = "idle" <=> r.name = None
  /\ r.pc # "idle" => r.result = "none"
  /\ r.pc = "create" => r.id \in VMIDRange
  /\ r.pc \in {"startFound", "start", "stop", "delete"} => r.id \in AllVMIDs

CallTypeOK == call \in [Callers -> Call] /\ \A c \in Callers : Formed(call[c])

VMTypeOK ==
  /\ vms \in [AllVMIDs -> VM \cup {None}]
  /\ \A id \in AllVMIDs \ VMIDRange : vms[id] # None => ~vms[id].tagged

\* What is inductive of the types.
TypeInv == VMTypeOK /\ online \subseteq Hosts /\ CallTypeOK /\ BudgetTypeOK

\* The workqueue never has two calls for one name at a time.
NamesApart ==
  \A c, d \in Callers : call[c].name = call[d].name /\ c # d => call[c].name = None

\* The VM of call c is a managed one of its name.
Own(c) ==
  vms[call[c].id] # None /\ vms[call[c].id].tagged /\ vms[call[c].id].name = call[c].name

\* A call that is to start, stop or delete a VM still has its own VM at the VMID
\* it remembers; only a VM of a user may have changed hands.
HoldsItsOwn ==
  TagConfigured => \A c \in Callers :
    /\ call[c].pc \in {"start", "stop", "delete"} => Own(c)
    /\ call[c].pc = "startFound" => Own(c) \/ budget.user < MaxUserVMs

\* Until a user creates one, all VMs are managed.
AllManaged ==
  budget.user = MaxUserVMs => \A id \in Used : vms[id].tagged

\* Until a request fails or a host goes offline, all hosts are searched and a
\* call that is about to create a machine is right that there is none.
NoneToFind ==
  budget.error = MaxErrors =>
    /\ online = Hosts
    /\ \A c \in Callers :
         call[c].pc \in {"allocate", "create"} => Machines(call[c].name) = {}

ProviderInv ==
  NamesApart /\ HoldsItsOwn /\ AllManaged /\ NoneToFind /\ OneMachinePerName

-----------------------------------------------------------------------------
(* The probe of generateNewVMID *)

\* The bounds of the range are natural numbers, the lower one first.
LEMMA RangeBounds == Lower \in Nat /\ Upper \in Nat /\ Lower <= Upper
  BY MachineProviderAssumption

\* The probe stays in the configured range: it wraps around at its upper end.
LEMMA ProbeInRange ==
  ASSUME NEW start \in VMIDRange, NEW i \in 0..(Upper - Lower)
  PROVE  Probe(start, i) \in VMIDRange
  BY RangeBounds DEF Probe, VMIDRange

\* Wherever it starts, the probe comes by every VMID of the range.
LEMMA ProbeReachesAll ==
  ASSUME NEW start \in VMIDRange, NEW id \in VMIDRange
  PROVE  \E i \in 0..(Upper - Lower) : Probe(start, i) = id
  <1> USE RangeBounds
  <1>1. CASE id >= start
    <2>1. id - start \in 0..(Upper - Lower) /\ Probe(start, id - start) = id
      BY <1>1 DEF Probe, VMIDRange
    <2> QED BY <2>1
  <1>2. CASE id < start
    <2> DEFINE i == (Upper - start + 1) + (id - Lower)
    <2>1. i \in 0..(Upper - Lower) /\ Probe(start, i) = id
      BY <1>2 DEF Probe, VMIDRange
    <2> QED BY <2>1
  <1> QED BY <1>1, <1>2 DEF VMIDRange

\* generateNewVMID returns a VMID of the range that is not used, or none when all
\* of them are used.
LEMMA GeneratedVMID ==
  ASSUME NEW used \in SUBSET VMIDRange, NEW start \in VMIDRange
  PROVE  \/ GenerateNewVMID(used, start) \in VMIDRange \ used
         \/ GenerateNewVMID(used, start) = None /\ used = VMIDRange
  <1> DEFINE span == Upper - Lower + 1
             free == {i \in 0..(span - 1) : Probe(start, i) \notin used}
  <1>1. span - 1 = Upper - Lower /\ span \in Nat
    BY RangeBounds
  <1>2. CASE Cardinality(used) >= span
    <2>1. IsFiniteSet(VMIDRange) /\ Cardinality(VMIDRange) = span
      BY FS_Interval, RangeBounds DEF VMIDRange
    <2>2. Cardinality(used) <= span /\ Cardinality(used) \in Nat
      BY <2>1, FS_Subset, FS_CardinalityType
    <2>3. Cardinality(used) = Cardinality(VMIDRange)
      BY <1>1, <1>2, <2>1, <2>2
    <2>4. used = VMIDRange
      BY <2>1, <2>3, FS_Subset
    <2> QED BY <1>2, <2>4 DEF GenerateNewVMID
  <1>3. CASE free = {}
    <2>1. VMIDRange \subseteq used
      BY <1>1, <1>3, ProbeReachesAll
    <2> QED BY <1>3, <2>1 DEF GenerateNewVMID
  <1>4. CASE free # {} /\ ~(Cardinality(used) >= span)
    <2>1. Min(free) \in free
      BY <1>4, LeastElement
    <2>2. Probe(start, Min(free)) \in VMIDRange \ used
      BY <1>1, <2>1, ProbeInRange
    <2> QED BY <1>4, <2>2 DEF GenerateNewVMID
  <1> QED BY <1>2, <1>3, <1>4

-----------------------------------------------------------------------------
(* What the requests preserve of the types *)

\* Only caller c moved.
OthersKept(c) == \A d \in Callers \ {c} : call'[d] = call[d]

\* A well-formed call of one caller leaves well-formed calls.
LEMMA CallWritten ==
  ASSUME CallTypeOK, NEW c \in Callers, NEW r \in Call, Formed(r),
         call' = [call EXCEPT ![c] = r]
  PROVE  CallTypeOK' /\ OthersKept(c) /\ call'[c] = r
  <1>1. call' \in [Callers -> Call] /\ call'[c] = r /\ OthersKept(c)
    BY DEF CallTypeOK, OthersKept
  <1>2. \A d \in Callers : Formed(call'[d])
    BY <1>1 DEF CallTypeOK, OthersKept
  <1> QED BY <1>1, <1>2 DEF CallTypeOK, Formed

\* Moving on within a call, to a step that has the VM it is about, leaves the
\* calls well-formed.
LEMMA GotoType ==
  ASSUME CallTypeOK, NEW c \in Callers, call[c].pc # "idle",
         NEW where \in {"startFound", "allocate", "create", "start", "stop", "delete"},
         NEW id \in AllVMIDs \cup {None},
         where = "create" => id \in VMIDRange,
         where \in {"startFound", "start", "stop", "delete"} => id \in AllVMIDs,
         Goto(c, where, id)
  PROVE  /\ CallTypeOK' /\ OthersKept(c)
         /\ call'[c].pc = where /\ call'[c].id = id /\ call'[c].name = call[c].name
         /\ call'[c].result = "none"
  <1> DEFINE r == [call[c] EXCEPT !.pc = where, !.id = id]
  <1>1. call[c] \in Call /\ call[c].result = "none" /\ call[c].name # None
    BY DEF CallTypeOK, Formed
  <1>2. /\ r \in Call /\ r.pc = where /\ r.id = id /\ r.name = call[c].name
        /\ r.result = "none"
    BY <1>1 DEF Call
  <1>3. call' = [call EXCEPT ![c] = r]
    BY <1>1 DEF Goto, CallTypeOK, Call
  <1> HIDE DEF r
  <1>4. Formed(r)
    BY <1>1, <1>2 DEF Formed
  <1> QED BY <1>2, <1>3, <1>4, CallWritten

\* So does the return of a call.
LEMMA ReturnType ==
  ASSUME CallTypeOK, NEW c \in Callers, NEW result \in {"none", "launched", "noVMID"},
         Return(c, result)
  PROVE  /\ CallTypeOK' /\ OthersKept(c)
         /\ call'[c].pc = "idle" /\ call'[c].name = None /\ call'[c].result = result
  <1> DEFINE r == [NoCall EXCEPT !.result = result]
  <1>1. r \in Call /\ r.pc = "idle" /\ r.name = None /\ r.result = result
    BY DEF Call, NoCall
  <1>2. call' = [call EXCEPT ![c] = r]
    BY DEF Return
  <1> HIDE DEF r
  <1>3. Formed(r)
    BY <1>1 DEF Formed
  <1> QED BY <1>1, <1>2, <1>3, CallWritten

\* A fault that is spent is no longer at its bound.
LEMMA SpendType ==
  ASSUME BudgetTypeOK, NEW f \in {"error", "crash", "user"}, Spend(f)
  PROVE  /\ BudgetTypeOK' /\ budget'[f] < budget[f]
         /\ \A g \in {"error", "crash", "user"} \ {f} : budget'[g] = budget[g]
  <1>1. budget[f] \in Nat /\ budget[f] > 0
    BY DEF BudgetTypeOK, Spend
  <1>2. budget[f] - 1 \in Nat /\ budget[f] - 1 < budget[f]
    BY <1>1
  <1>3. budget' = [budget EXCEPT ![f] = budget[f] - 1]
    BY DEF Spend
  <1>4. /\ budget' \in [{"error", "crash", "user"} -> Nat]
        /\ budget'[f] = budget[f] - 1
        /\ \A g \in {"error", "crash", "user"} \ {f} : budget'[g] = budget[g]
    BY <1>2, <1>3 DEF BudgetTypeOK
  <1>5. budget'.error <= budget.error /\ budget'.user <= budget.user
    BY <1>2, <1>4 DEF BudgetTypeOK
  <1>6. budget'.error <= MaxErrors /\ budget'.user <= MaxUserVMs
    BY <1>4, <1>5, MachineProviderAssumption DEF BudgetTypeOK
  <1> QED BY <1>2, <1>4, <1>6 DEF BudgetTypeOK

-----------------------------------------------------------------------------
(* What a step of a caller does to the VMs *)

\* No VM comes, goes, or changes its name or tags.
SameVMs ==
  \A id \in AllVMIDs :
    /\ vms'[id] = None <=> vms[id] = None
    /\ vms[id] # None =>
         vms'[id].name = vms[id].name /\ vms'[id].tagged = vms[id].tagged

\* A caller that is to start, stop, delete or create a VM does this to the VM at
\* the VMID it remembers and nothing else.
VMStep(c) ==
  LET id == call[c].id IN
  \/ vms' = vms
  \/ /\ call[c].pc \in {"startFound", "start"} /\ vms[id] # None
     /\ vms' = [vms EXCEPT ![id] = Running(id)]
  \/ /\ call[c].pc = "stop" /\ vms[id] # None
     /\ vms' = [vms EXCEPT ![id] = [vms[id] EXCEPT !.running = FALSE]]
  \/ /\ call[c].pc = "delete" /\ vms[id] # None
     /\ vms' = [vms EXCEPT ![id] = None]
  \/ /\ call[c].pc = "create" /\ vms[id] = None
     /\ \E h \in Hosts : vms' = [vms EXCEPT ![id] = NewVM(call[c].name, h)]

\* Every VMID of the range is a VMID, and None is no VM.
LEMMA VMFacts ==
  VMIDRange \subseteq AllVMIDs /\ None \notin VM /\ None \notin AllVMIDs /\ None \notin Names
  BY MachineProviderAssumption

\* A VM that is started or stopped stays the VM it is.
LEMMA PowerChange ==
  ASSUME VMTypeOK, NEW id \in AllVMIDs, vms[id] # None, NEW on \in BOOLEAN,
         vms' = [vms EXCEPT ![id] = [vms[id] EXCEPT !.running = on]]
  PROVE  VMTypeOK' /\ SameVMs /\ vms'[id].running = on
  <1>1. vms[id] \in VM
    BY DEF VMTypeOK
  <1>2. /\ [vms[id] EXCEPT !.running = on] \in VM
        /\ [vms[id] EXCEPT !.running = on].name = vms[id].name
        /\ [vms[id] EXCEPT !.running = on].tagged = vms[id].tagged
        /\ [vms[id] EXCEPT !.running = on].running = on
    BY <1>1 DEF VM
  <1>3. /\ vms' \in [AllVMIDs -> VM \cup {None}]
        /\ vms'[id] = [vms[id] EXCEPT !.running = on]
        /\ \A x \in AllVMIDs \ {id} : vms'[x] = vms[x]
    BY <1>2 DEF VMTypeOK
  <1>4. SameVMs
    BY <1>1, <1>2, <1>3, VMFacts DEF SameVMs
  <1>5. \A x \in AllVMIDs \ VMIDRange : vms'[x] # None => ~vms'[x].tagged
    BY <1>4 DEF SameVMs, VMTypeOK
  <1> QED BY <1>2, <1>3, <1>4, <1>5 DEF VMTypeOK

\* The VMs keep their types, and those the provider creates are in its range.
LEMMA VMStepType ==
  ASSUME VMTypeOK, CallTypeOK, NEW c \in Callers, VMStep(c)
  PROVE  VMTypeOK'
  <1> DEFINE id == call[c].id
  <1>f. Formed(call[c]) /\ call[c] \in Call
    BY DEF CallTypeOK
  <1>1. CASE vms' = vms
    BY <1>1 DEF VMTypeOK
  <1>2. CASE /\ call[c].pc \in {"startFound", "start"} /\ vms[id] # None
             /\ vms' = [vms EXCEPT ![id] = Running(id)]
    BY <1>2, <1>f, PowerChange DEF Formed, Running
  <1>3. CASE /\ call[c].pc = "stop" /\ vms[id] # None
             /\ vms' = [vms EXCEPT ![id] = [vms[id] EXCEPT !.running = FALSE]]
    BY <1>3, <1>f, PowerChange DEF Formed
  <1>4. CASE call[c].pc = "delete" /\ vms' = [vms EXCEPT ![id] = None]
    BY <1>4, <1>f DEF VMTypeOK, Formed
  <1>5. ASSUME call[c].pc = "create", NEW h \in Hosts,
               vms' = [vms EXCEPT ![id] = NewVM(call[c].name, h)]
        PROVE  VMTypeOK'
    <2>1. id \in VMIDRange /\ call[c].name \in Names
      BY <1>5, <1>f DEF Formed, Call
    <2>2. NewVM(call[c].name, h) \in VM
      BY <2>1 DEF NewVM, VM
    <2> QED BY <1>5, <2>1, <2>2, VMFacts DEF VMTypeOK
  <1> QED BY <1>1, <1>2, <1>3, <1>4, <1>5 DEF VMStep

\* What a step may spend: an error, and then it is known that there was one.
BudgetStep ==
  /\ BudgetTypeOK' /\ budget'.user = budget.user
  /\ budget' = budget \/ budget'.error < MaxErrors

\* A failed request is counted.
LEMMA ErrorSpent ==
  ASSUME BudgetTypeOK, Spend("error")
  PROVE  BudgetStep /\ budget'.error < MaxErrors
  <1>1. BudgetTypeOK' /\ budget'.error < budget.error /\ budget'.user = budget.user
    BY SpendType
  <1>2. budget'.error < MaxErrors
    BY <1>1, MachineProviderAssumption DEF BudgetTypeOK
  <1> QED BY <1>1, <1>2 DEF BudgetStep

\* findNodeByVMName finds VMs of the name only, and all of those on the hosts
\* that are online unless an error is counted.
LEMMA FoundVMs ==
  ASSUME BudgetTypeOK, NEW c \in Callers, NEW ids, FoundOn(c, ids)
  PROVE  /\ BudgetStep
         /\ ids \subseteq On(online, call[c].name)
         /\ budget'.error = MaxErrors => ids = On(online, call[c].name)
  <1>1. CASE ids = On(online, call[c].name) /\ UNCHANGED budget
    BY <1>1 DEF BudgetStep, BudgetTypeOK
  <1>2. ASSUME NEW h \in online, ids = On(online \ {h}, call[c].name), Spend("error")
        PROVE  /\ BudgetStep /\ budget'.error # MaxErrors
               /\ ids \subseteq On(online, call[c].name)
    <2>1. BudgetStep /\ budget'.error < MaxErrors /\ budget'.error \in Nat
      BY <1>2, ErrorSpent DEF BudgetStep, BudgetTypeOK
    <2>2. budget'.error # MaxErrors
      BY <2>1, MachineProviderAssumption
    <2>3. ids \subseteq On(online, call[c].name)
      BY <1>2 DEF On
    <2> QED BY <2>1, <2>2, <2>3
  <1> QED BY <1>1, <1>2 DEF FoundOn

\* Each step of a caller keeps the types and moves that caller alone.
LEMMA StepEffect ==
  ASSUME TypeInv, NEW c \in Callers, Step(c)
  PROVE  TypeInv' /\ OthersKept(c) /\ VMStep(c) /\ UNCHANGED online /\ BudgetStep
  <1>t. VMTypeOK /\ CallTypeOK /\ BudgetTypeOK /\ online \subseteq Hosts
    BY DEF TypeInv
  <1>b. /\ Spend("error") => BudgetStep
        /\ UNCHANGED budget => BudgetStep
    BY <1>t, ErrorSpent DEF BudgetStep, BudgetTypeOK
  <1>r. /\ call[c] \in Call /\ Formed(call[c])
        /\ Return(c, "none") => CallTypeOK' /\ OthersKept(c)
        /\ Return(c, "launched") => CallTypeOK' /\ OthersKept(c)
        /\ Return(c, "noVMID") => CallTypeOK' /\ OthersKept(c)
    BY <1>t, ReturnType DEF CallTypeOK
  <1>v. /\ VMStep(c) /\ UNCHANGED online /\ BudgetStep /\ CallTypeOK' /\ OthersKept(c)
        => TypeInv' /\ OthersKept(c) /\ VMStep(c) /\ UNCHANGED online /\ BudgetStep
    BY <1>t, VMStepType DEF TypeInv, BudgetStep
  <1>1. ASSUME NEW operation \in {"provision", "deprovision"}, Begin(c, operation)
        PROVE  TypeInv' /\ OthersKept(c) /\ VMStep(c) /\ UNCHANGED online /\ BudgetStep
    <2>1. PICK name \in Names :
            call' = [call EXCEPT ![c] = [NoCall EXCEPT !.pc = operation, !.name = name]]
      BY <1>1 DEF Begin
    <2> DEFINE r == [NoCall EXCEPT !.pc = operation, !.name = name]
    <2>2. r \in Call /\ Formed(r)
      BY VMFacts DEF NoCall, Call, Formed
    <2>3. CallTypeOK' /\ OthersKept(c)
      BY <1>t, <2>1, <2>2, CallWritten
    <2>4. VMStep(c) /\ UNCHANGED online /\ BudgetStep
      BY <1>1, <1>b DEF Begin, VMStep
    <2> QED BY <2>3, <2>4, <1>v
  <1>2. CASE FindExisting(c)
    <2>1. call[c].pc = "provision" /\ VMStep(c) /\ UNCHANGED online
      BY <1>2 DEF FindExisting, RequestFails, VMStep
    <2>2. BudgetStep
      BY <1>2, <1>t, <1>b, FoundVMs DEF FindExisting, RequestFails
    <2>3. CallTypeOK' /\ OthersKept(c)
      BY <1>2, <1>t, <1>r, <2>1, GotoType DEF FindExisting, RequestFails, Used
    <2> QED BY <2>1, <2>2, <2>3, <1>v
  <1>3. CASE StartFound(c)
    <2>1. /\ UNCHANGED online /\ call[c].pc = "startFound"
          /\ \/ vms' = vms
             \/ Reachable(call[c].id) /\ vms' = [vms EXCEPT ![call[c].id] = Running(call[c].id)]
      BY <1>3 DEF StartFound, Request, RequestFails
    <2>2. VMStep(c)
      BY <2>1 DEF VMStep, Reachable
    <2>3. BudgetStep
      BY <1>3, <1>t, <1>b DEF StartFound, Request, RequestFails
    <2>4. CallTypeOK' /\ OthersKept(c)
      BY <1>3, <1>t, <1>r, <2>1 DEF StartFound, Request, RequestFails
    <2> QED BY <2>1, <2>2, <2>3, <2>4, <1>v
  <1>4. CASE StartNew(c)
    <2>1. /\ UNCHANGED online /\ call[c].pc = "start"
          /\ \/ vms' = vms
             \/ Reachable(call[c].id) /\ vms' = [vms EXCEPT ![call[c].id] = Running(call[c].id)]
      BY <1>4 DEF StartNew, Request, RequestFails
    <2>2. VMStep(c)
      BY <2>1 DEF VMStep, Reachable
    <2>3. BudgetStep
      BY <1>4, <1>t, <1>b DEF StartNew, Request, RequestFails
    <2>4. CallTypeOK' /\ OthersKept(c)
      BY <1>4, <1>t, <1>r, <2>1 DEF StartNew, Request, RequestFails
    <2> QED BY <2>1, <2>2, <2>3, <2>4, <1>v
  <1>5. CASE AllocateVMID(c)
    <2>1. call[c].pc = "allocate" /\ VMStep(c) /\ UNCHANGED online /\ BudgetStep
      BY <1>5, <1>b DEF AllocateVMID, RequestFails, VMStep
    <2>2. ASSUME NEW start \in VMIDRange,
                 LET id == GenerateNewVMID(Used \cap VMIDRange, start) IN
                   IF id = None THEN Return(c, "noVMID") ELSE Goto(c, "create", id)
          PROVE  CallTypeOK' /\ OthersKept(c)
      <3> DEFINE id == GenerateNewVMID(Used \cap VMIDRange, start)
      <3>1. id \in VMIDRange \/ id = None
        BY GeneratedVMID
      <3> HIDE DEF id
      <3>2. IF id = None THEN Return(c, "noVMID") ELSE Goto(c, "create", id)
        BY <2>2 DEF id
      <3> QED BY <1>t, <1>r, <2>1, <3>1, <3>2, GotoType, VMFacts
    <2>3. CallTypeOK' /\ OthersKept(c)
      BY <1>5, <1>r, <2>2 DEF AllocateVMID, RequestFails
    <2> QED BY <2>1, <2>3, <1>v
  <1>6. CASE CreateVM(c)
    <2>1. call[c].pc = "create" /\ UNCHANGED online
      BY <1>6 DEF CreateVM
    <2>2. VMStep(c)
      BY <1>6, <1>t DEF CreateVM, RequestFails, VMStep, Candidates
    <2>3. BudgetStep
      BY <1>6, <1>b DEF CreateVM, RequestFails
    <2>4. call[c].id \in AllVMIDs
      BY <1>r, <2>1, VMFacts DEF Formed
    <2>5. CallTypeOK' /\ OthersKept(c)
      BY <1>6, <1>t, <1>r, <2>1, <2>4, GotoType DEF CreateVM, RequestFails
    <2> QED BY <2>1, <2>2, <2>3, <2>5, <1>v
  <1>7. CASE FindToDelete(c)
    <2>1. call[c].pc = "deprovision" /\ VMStep(c) /\ UNCHANGED online
      BY <1>7 DEF FindToDelete, RequestFails, VMStep
    <2>2. BudgetStep
      BY <1>7, <1>t, <1>b, FoundVMs DEF FindToDelete, RequestFails
    <2>3. CallTypeOK' /\ OthersKept(c)
      BY <1>7, <1>t, <1>r, <2>1, GotoType DEF FindToDelete, RequestFails, Used
    <2> QED BY <2>1, <2>2, <2>3, <1>v
  <1>8. CASE StopVM(c)
    <2>1. /\ UNCHANGED online /\ call[c].pc = "stop"
          /\ \/ vms' = vms
             \/ Reachable(call[c].id) /\ vms' = [vms EXCEPT ![call[c].id] = [vms[call[c].id] EXCEPT !.running = FALSE]]
      BY <1>8 DEF StopVM, Request, RequestFails
    <2>2. VMStep(c)
      BY <2>1 DEF VMStep, Reachable
    <2>3. BudgetStep
      BY <1>8, <1>t, <1>b DEF StopVM, Request, RequestFails
    <2>4. CallTypeOK' /\ OthersKept(c)
      BY <1>8, <1>t, <1>r, <2>1, GotoType DEF StopVM, Request, RequestFails, Formed
    <2> QED BY <2>1, <2>2, <2>3, <2>4, <1>v
  <1>9. CASE DeleteVM(c)
    <2>1. /\ UNCHANGED online /\ call[c].pc = "delete"
          /\ \/ vms' = vms
             \/ Reachable(call[c].id) /\ vms' = [vms EXCEPT ![call[c].id] = None]
      BY <1>9 DEF DeleteVM, Request, RequestFails
    <2>2. VMStep(c)
      BY <2>1 DEF VMStep, Reachable
    <2>3. BudgetStep
      BY <1>9, <1>t, <1>b DEF DeleteVM, Request, RequestFails
    <2>4. CallTypeOK' /\ OthersKept(c)
      BY <1>9, <1>t, <1>r, <2>1 DEF DeleteVM, Request, RequestFails
    <2> QED BY <2>1, <2>2, <2>3, <2>4, <1>v
  <1> QED BY <1>1, <1>2, <1>3, <1>4, <1>5, <1>6, <1>7, <1>8, <1>9 DEF Step

\* Crashes, users and hosts keep the types.
LEMMA EnvironmentType ==
  ASSUME TypeInv,
         \/ \E c \in Callers : Crash(c)
         \/ \E id \in AllVMIDs : UserCreates(id) \/ UserDeletes(id)
         \/ \E h \in Hosts : HostFails(h) \/ HostReturns(h)
  PROVE  TypeInv'
  <1>t. VMTypeOK /\ CallTypeOK /\ BudgetTypeOK /\ online \subseteq Hosts
    BY DEF TypeInv
  <1>1. ASSUME NEW c \in Callers, Crash(c) PROVE TypeInv'
    <2>1. NoCall \in Call /\ Formed(NoCall)
      BY DEF NoCall, Call, Formed
    <2>2. CallTypeOK'
      BY <1>1, <1>t, <2>1, CallWritten DEF Crash
    <2>3. BudgetTypeOK'
      BY <1>1, <1>t, SpendType DEF Crash
    <2> QED BY <1>1, <1>t, <2>2, <2>3 DEF Crash, TypeInv, VMTypeOK
  <1>2. ASSUME NEW id \in AllVMIDs, UserCreates(id) PROVE TypeInv'
    <2>1. PICK name \in Names, h \in online, on \in BOOLEAN :
            vms' = [vms EXCEPT ![id] = [name |-> name, tagged |-> FALSE,
                                        running |-> on, host |-> h]]
      BY <1>2 DEF UserCreates
    <2>2. [name |-> name, tagged |-> FALSE, running |-> on, host |-> h] \in VM
      BY <1>t DEF VM
    <2>3. VMTypeOK'
      BY <1>t, <2>1, <2>2 DEF VMTypeOK
    <2>4. BudgetTypeOK'
      BY <1>2, <1>t, SpendType DEF UserCreates
    <2> QED BY <1>2, <1>t, <2>3, <2>4 DEF UserCreates, TypeInv, CallTypeOK
  <1>3. ASSUME NEW id \in AllVMIDs, UserDeletes(id) PROVE TypeInv'
    <2>1. VMTypeOK'
      BY <1>3, <1>t DEF UserDeletes, VMTypeOK
    <2> QED BY <1>3, <1>t, <2>1 DEF UserDeletes, TypeInv, CallTypeOK, BudgetTypeOK
  <1>4. ASSUME NEW h \in Hosts, HostFails(h) \/ HostReturns(h) PROVE TypeInv'
    <2>1. BudgetTypeOK'
      BY <1>4, <1>t, SpendType DEF HostFails, HostReturns, BudgetTypeOK
    <2> QED BY <1>4, <1>t, <2>1 DEF HostFails, HostReturns, TypeInv, CallTypeOK, VMTypeOK
  <1> QED BY <1>1, <1>2, <1>3, <1>4

\* What is inductive of the types holds throughout.
LEMMA TypeInvariant == Spec => []TypeInv
  <1>1. Init => TypeInv
    <2>1. SUFFICES ASSUME Init PROVE TypeInv
      OBVIOUS
    <2>2. NoCall \in Call /\ Formed(NoCall)
      BY DEF NoCall, Call, Formed
    <2>3. CallTypeOK
      BY <2>1, <2>2 DEF Init, CallTypeOK
    <2>4. VMTypeOK
      BY <2>1 DEF Init, VMTypeOK
    <2>5. BudgetTypeOK
      BY <2>1, MachineProviderAssumption DEF Init, BudgetTypeOK
    <2> QED BY <2>1, <2>3, <2>4, <2>5 DEF Init, TypeInv
  <1>2. TypeInv /\ [Next]_vars => TypeInv'
    <2>1. CASE Next
      BY <2>1, StepEffect, EnvironmentType DEF Next
    <2>2. CASE UNCHANGED vars
      BY <2>2 DEF vars, TypeInv, VMTypeOK, CallTypeOK, BudgetTypeOK
    <2> QED BY <2>1, <2>2
  <1> QED BY <1>1, <1>2, PTL DEF Spec

\* Every variable keeps its type, and a managed VM never has a VMID outside the
\* configured range: the wrap-around of generateNewVMID stays within it.
THEOREM TypeCorrect == Spec => []TypeOK
  <1>1. TypeInv => TypeOK
    BY DEF TypeInv, TypeOK, VMTypeOK, CallTypeOK, BudgetTypeOK
  <1> QED BY <1>1, TypeInvariant, PTL

-----------------------------------------------------------------------------
(* The invariant behind ownership and uniqueness *)

\* A step of a caller keeps the name of its call, drops it, or takes one that no
\* call has.
LEMMA StepName ==
  ASSUME TypeInv, NEW c \in Callers, Step(c)
  PROVE  \/ call'[c].name \in {call[c].name, None}
         \/ call'[c].name \notin {call[d].name : d \in Callers}
  <1>t. call \in [Callers -> Call] /\ CallTypeOK
    BY DEF TypeInv, CallTypeOK
  <1>g. ASSUME NEW where, NEW id, Goto(c, where, id) PROVE call'[c].name = call[c].name
    BY <1>g, <1>t DEF Goto, Call
  <1>r. ASSUME NEW result \in {"none", "launched", "noVMID"}, Return(c, result)
        PROVE  call'[c].name = None
    BY <1>r, <1>t, ReturnType
  <1>1. ASSUME NEW operation, Begin(c, operation)
        PROVE  call'[c].name \notin {call[d].name : d \in Callers}
    <2>1. PICK name \in Names \ {call[d].name : d \in Callers} :
            call' = [call EXCEPT ![c] = [NoCall EXCEPT !.pc = operation, !.name = name]]
      BY <1>1 DEF Begin
    <2>2. call'[c].name = name
      BY <1>t, <2>1 DEF NoCall
    <2> QED BY <2>2
  <1>2. CASE FindExisting(c) \/ FindToDelete(c)
    BY <1>2, <1>g, <1>r DEF FindExisting, FindToDelete, RequestFails
  <1>3. CASE AllocateVMID(c)
    BY <1>3, <1>g, <1>r DEF AllocateVMID, RequestFails
  <1>4. CASE CreateVM(c)
    BY <1>4, <1>g, <1>r DEF CreateVM, RequestFails
  <1>5. CASE StartFound(c) \/ StartNew(c) \/ StopVM(c) \/ DeleteVM(c)
    BY <1>5, <1>g, <1>r DEF StartFound, StartNew, StopVM, DeleteVM, Request, RequestFails
  <1> QED BY <1>1, <1>2, <1>3, <1>4, <1>5 DEF Step

\* Names of calls stay apart when one caller takes such a step.
LEMMA NamesStayApart ==
  ASSUME NamesApart, NEW c \in Callers, OthersKept(c),
         \/ call'[c].name \in {call[c].name, None}
         \/ call'[c].name \notin {call[d].name : d \in Callers}
  PROVE  NamesApart'
  BY DEF NamesApart, OthersKept

\* Whether a VM is a call's own does not change while VMs keep name and tags.
LEMMA SameOwn ==
  ASSUME TypeInv, SameVMs, NEW d \in Callers, call'[d].id = call[d].id,
         call'[d].name = call[d].name, call[d].id \in AllVMIDs, Own(d)
  PROVE  Own(d)'
  BY DEF SameVMs, Own

\* The effect of a caller's step on the VMs, by what it does to their number.
LEMMA VMStepKinds ==
  ASSUME TypeInv, NEW c \in Callers, VMStep(c)
  PROVE  \/ SameVMs
         \/ /\ call[c].pc = "delete" /\ call[c].id \in AllVMIDs
            /\ vms[call[c].id] # None /\ vms' = [vms EXCEPT ![call[c].id] = None]
         \/ /\ call[c].pc = "create" /\ call[c].id \in VMIDRange
            /\ vms[call[c].id] = None
            /\ \E h \in Hosts :
                 /\ NewVM(call[c].name, h) \in VM
                 /\ vms' = [vms EXCEPT ![call[c].id] = NewVM(call[c].name, h)]
  <1>t. VMTypeOK /\ Formed(call[c]) /\ call[c] \in Call
    BY DEF TypeInv, CallTypeOK
  <1> DEFINE id == call[c].id
  <1>1. CASE vms' = vms
    BY <1>1 DEF SameVMs
  <1>2. CASE /\ call[c].pc \in {"startFound", "start"} /\ vms[id] # None
             /\ vms' = [vms EXCEPT ![id] = Running(id)]
    BY <1>2, <1>t, PowerChange DEF Formed, Running
  <1>3. CASE /\ call[c].pc = "stop" /\ vms[id] # None
             /\ vms' = [vms EXCEPT ![id] = [vms[id] EXCEPT !.running = FALSE]]
    BY <1>3, <1>t, PowerChange DEF Formed
  <1>4. CASE /\ call[c].pc = "delete" /\ vms[id] # None
             /\ vms' = [vms EXCEPT ![id] = None]
    BY <1>4, <1>t DEF Formed
  <1>5. ASSUME call[c].pc = "create", vms[id] = None, NEW h \in Hosts,
               vms' = [vms EXCEPT ![id] = NewVM(call[c].name, h)]
        PROVE  id \in VMIDRange /\ NewVM(call[c].name, h) \in VM
    BY <1>5, <1>t DEF Formed, Call, NewVM, VM
  <1> QED BY <1>1, <1>2, <1>3, <1>4, <1>5 DEF VMStep

\* What a step of caller c must leave in its own call.
OwnAfter(c) ==
  TagConfigured =>
    /\ call'[c].pc \in {"start", "stop", "delete"} => Own(c)'
    /\ call'[c].pc = "startFound" => Own(c)' \/ budget'.user < MaxUserVMs

NoneAfter(c) ==
  budget'.error = MaxErrors /\ call'[c].pc \in {"allocate", "create"} =>
    Machines(call[c].name)' = {}

\* A caller's step leaves its call with a VM of its own and right about the
\* machines there are.
LEMMA StepAfter ==
  ASSUME TypeInv, ProviderInv, NEW c \in Callers, Step(c)
  PROVE  OwnAfter(c) /\ NoneAfter(c)
  <1>t. /\ VMTypeOK /\ CallTypeOK /\ BudgetTypeOK /\ online \subseteq Hosts
        /\ call[c] \in Call /\ Formed(call[c])
    BY DEF TypeInv, CallTypeOK
  <1>e. OthersKept(c) /\ VMStep(c) /\ BudgetStep
    BY StepEffect
  <1>i. HoldsItsOwn /\ AllManaged /\ NoneToFind
    BY DEF ProviderInv
  <1>r. ASSUME NEW result \in {"none", "launched", "noVMID"}, Return(c, result)
        PROVE  OwnAfter(c) /\ NoneAfter(c)
    BY <1>r, <1>t, ReturnType DEF OwnAfter, NoneAfter
  <1>g. ASSUME NEW where, NEW id, Goto(c, where, id)
        PROVE  call'[c].pc = where /\ call'[c].id = id /\ call'[c].name = call[c].name
    BY <1>g, <1>t DEF Goto, CallTypeOK, Call
  <1>m. budget'.error = MaxErrors => budget' = budget
    <2>1. budget'.error < MaxErrors => budget'.error # MaxErrors
      BY <1>e, MachineProviderAssumption DEF BudgetStep, BudgetTypeOK
    <2> QED BY <1>e, <2>1 DEF BudgetStep
  <1>1. ASSUME NEW operation \in {"provision", "deprovision"}, Begin(c, operation)
        PROVE  OwnAfter(c) /\ NoneAfter(c)
    <2>1. call'[c].pc = operation
      BY <1>1, <1>t DEF Begin, NoCall, CallTypeOK
    <2> QED BY <2>1 DEF OwnAfter, NoneAfter
  <1>2. CASE FindExisting(c)
    <2>1. ASSUME NEW ids \in SUBSET Used, FoundOn(c, ids), UNCHANGED vms, ids = {},
                 Goto(c, "allocate", None)
          PROVE  OwnAfter(c) /\ NoneAfter(c)
      <3>1. ASSUME budget'.error = MaxErrors PROVE Machines(call[c].name)' = {}
        <4>1. On(online, call[c].name) = {}
          BY <1>t, <2>1, <3>1, FoundVMs
        <4>2. online = Hosts
          BY <1>i, <1>m, <3>1 DEF NoneToFind
        <4>3. \A id \in Used : vms[id].host \in Hosts
          BY <1>t DEF Used, VMTypeOK, VM
        <4>4. Machines(call[c].name) = {}
          BY <4>1, <4>2, <4>3 DEF Machines, On
        <4>5. call'[c].name = call[c].name
          BY <1>g, <2>1
        <4> QED BY <2>1, <4>4, <4>5 DEF Machines, Used
      <3> QED BY <1>g, <2>1, <3>1 DEF OwnAfter, NoneAfter
    <2>2. ASSUME NEW ids \in SUBSET Used, FoundOn(c, ids), UNCHANGED vms,
                 NEW id \in ids, Goto(c, "startFound", id)
          PROVE  OwnAfter(c) /\ NoneAfter(c)
      <3>1. vms[id] # None /\ vms[id].name = call[c].name
        BY <1>t, <2>2, FoundVMs DEF On, Used
      <3>2. budget'.user < MaxUserVMs \/ vms[id].tagged
        <4>1. budget'.user = budget.user /\ budget.user \in Nat /\ budget.user <= MaxUserVMs
          BY <1>t, <1>e DEF BudgetStep, BudgetTypeOK
        <4>2. budget.user < MaxUserVMs \/ budget.user = MaxUserVMs
          BY <4>1, MachineProviderAssumption
        <4>3. CASE budget.user < MaxUserVMs
          BY <4>1, <4>3
        <4>4. CASE budget.user = MaxUserVMs
          BY <1>i, <2>2, <4>4 DEF AllManaged
        <4> QED BY <4>2, <4>3, <4>4
      <3>3. /\ call'[c].pc = "startFound" /\ call'[c].id = id
            /\ call'[c].name = call[c].name
        BY <1>g, <2>2
      <3>4. vms' = vms
        BY <2>2
      <3> QED BY <3>1, <3>2, <3>3, <3>4 DEF OwnAfter, NoneAfter, Own
    <2> QED BY <1>2, <1>r, <2>1, <2>2 DEF FindExisting, RequestFails
  <1>3. CASE StartFound(c) \/ StartNew(c) \/ DeleteVM(c)
    BY <1>3, <1>r DEF StartFound, StartNew, DeleteVM, Request, RequestFails
  <1>4. CASE AllocateVMID(c)
    <2>1. ASSUME NEW id, Goto(c, "create", id), UNCHANGED vms
          PROVE  OwnAfter(c) /\ NoneAfter(c)
      <3>1. call'[c].pc = "create" /\ call'[c].name = call[c].name
        BY <1>g, <2>1
      <3>2. budget'.error = MaxErrors => Machines(call[c].name) = {}
        BY <1>4, <1>i, <1>m DEF AllocateVMID, NoneToFind
      <3> QED BY <2>1, <3>1, <3>2 DEF OwnAfter, NoneAfter, Machines, Used
    <2> QED BY <1>4, <1>r, <2>1 DEF AllocateVMID, RequestFails
  <1>5. CASE CreateVM(c)
    <2> DEFINE id == call[c].id
    <2>1. ASSUME NEW h \in Candidates,
                 vms' = [vms EXCEPT ![id] = NewVM(call[c].name, h)], Goto(c, "start", id)
          PROVE  OwnAfter(c) /\ NoneAfter(c)
      <3>1. id \in AllVMIDs
        BY <1>5, <1>t, VMFacts DEF CreateVM, Formed
      <3>2. h \in Hosts /\ call[c].name \in Names
        BY <1>5, <1>t DEF CreateVM, Candidates, Formed, Call
      <3>3. NewVM(call[c].name, h) \in VM
        BY <3>2 DEF NewVM, VM
      <3>4. /\ vms'[id] # None /\ vms'[id].tagged /\ vms'[id].name = call[c].name
        BY <1>t, <2>1, <3>1, <3>3, VMFacts DEF VMTypeOK, NewVM
      <3>5. call'[c].pc = "start" /\ call'[c].id = id /\ call'[c].name = call[c].name
        BY <1>g, <2>1
      <3> QED BY <3>4, <3>5 DEF OwnAfter, NoneAfter, Own
    <2> QED BY <1>5, <1>r, <2>1 DEF CreateVM, RequestFails
  <1>6. CASE FindToDelete(c)
    <2>1. ASSUME NEW ids \in SUBSET Used, FoundOn(c, ids), UNCHANGED vms,
                 NEW id \in ids, Managed(vms[id]), Goto(c, "stop", id)
          PROVE  OwnAfter(c) /\ NoneAfter(c)
      <3>1. /\ vms[id] # None /\ vms[id].name = call[c].name
            /\ TagConfigured => vms[id].tagged
        BY <1>t, <2>1, FoundVMs DEF On, Used, Managed
      <3>2. call'[c].pc = "stop" /\ call'[c].id = id /\ call'[c].name = call[c].name
        BY <1>g, <2>1
      <3>3. vms' = vms
        BY <2>1
      <3> QED BY <3>1, <3>2, <3>3 DEF OwnAfter, NoneAfter, Own
    <2> QED BY <1>6, <1>r, <2>1 DEF FindToDelete, RequestFails
  <1>7. CASE StopVM(c)
    <2>1. ASSUME Goto(c, "delete", call[c].id)
          PROVE  OwnAfter(c) /\ NoneAfter(c)
      <3>1. SameVMs /\ call[c].pc = "stop" /\ call[c].id \in AllVMIDs
        BY <1>7, <1>e, <1>t, VMStepKinds DEF StopVM, Formed
      <3>2. /\ call'[c].pc = "delete" /\ call'[c].id = call[c].id
            /\ call'[c].name = call[c].name
        BY <1>g, <2>1
      <3>3. TagConfigured => Own(c)
        BY <1>i, <3>1 DEF HoldsItsOwn
      <3> QED BY <3>1, <3>2, <3>3, SameOwn DEF OwnAfter, NoneAfter
    <2> QED BY <1>7, <1>r, <2>1 DEF StopVM, Request, RequestFails
  <1> QED BY <1>1, <1>2, <1>3, <1>4, <1>5, <1>6, <1>7 DEF Step

\* A step of a caller preserves the invariant: it takes no VM from another call.
LEMMA StepKeeps ==
  ASSUME TypeInv, ProviderInv, NEW c \in Callers, Step(c)
  PROVE  ProviderInv'
  <1> DEFINE id == call[c].id
             deletes == /\ call[c].pc = "delete" /\ id \in AllVMIDs /\ vms[id] # None
                        /\ vms' = [vms EXCEPT ![id] = None]
             creates == /\ call[c].pc = "create" /\ id \in VMIDRange /\ vms[id] = None
                        /\ \E h \in Hosts :
                             /\ NewVM(call[c].name, h) \in VM
                             /\ vms' = [vms EXCEPT ![id] = NewVM(call[c].name, h)]
  <1>t. /\ VMTypeOK /\ CallTypeOK /\ BudgetTypeOK
        /\ \A d \in Callers : call[d] \in Call /\ Formed(call[d])
    BY DEF TypeInv, CallTypeOK
  <1>e. OthersKept(c) /\ BudgetStep /\ UNCHANGED online /\ TypeInv'
    BY StepEffect
  <1>a. OwnAfter(c) /\ NoneAfter(c)
    BY StepAfter
  <1>i. NamesApart /\ HoldsItsOwn /\ AllManaged /\ NoneToFind /\ OneMachinePerName
    BY DEF ProviderInv
  <1>k. SameVMs \/ deletes \/ creates
    BY StepEffect, VMStepKinds
  <1>n. creates => /\ vms'[id] # None /\ vms'[id].tagged /\ vms'[id].name = call[c].name
                   /\ \A x \in AllVMIDs \ {id} : vms'[x] = vms[x]
    <2>1. SUFFICES ASSUME creates
                   PROVE  /\ vms'[id] # None /\ vms'[id].tagged
                          /\ vms'[id].name = call[c].name
                          /\ \A x \in AllVMIDs \ {id} : vms'[x] = vms[x]
      OBVIOUS
    <2>2. PICK h \in Hosts : /\ NewVM(call[c].name, h) \in VM
                            /\ vms' = [vms EXCEPT ![id] = NewVM(call[c].name, h)]
      BY <2>1
    <2>3. /\ vms'[id] = NewVM(call[c].name, h)
          /\ \A x \in AllVMIDs \ {id} : vms'[x] = vms[x]
      BY <1>t, <2>1, <2>2, VMFacts DEF VMTypeOK
    <2>4. NewVM(call[c].name, h).tagged /\ NewVM(call[c].name, h).name = call[c].name
      BY DEF NewVM
    <2>5. NewVM(call[c].name, h) # None
      BY <2>2, VMFacts
    <2> QED BY <2>3, <2>4, <2>5
  <1>d. deletes => vms'[id] = None /\ \A x \in AllVMIDs \ {id} : vms'[x] = vms[x]
    BY <1>t DEF VMTypeOK
  <1>m. budget'.error = MaxErrors => budget' = budget
    <2>1. budget'.error < MaxErrors => budget'.error # MaxErrors
      BY <1>e, MachineProviderAssumption DEF BudgetStep, BudgetTypeOK
    <2> QED BY <1>e, <2>1 DEF BudgetStep
  <1>c. VMIDRange \subseteq AllVMIDs
    BY VMFacts
  <1> HIDE DEF deletes, creates
  <1>1. NamesApart'
    BY <1>e, <1>i, StepName, NamesStayApart
  <1>2. ASSUME NEW d \in Callers \ {c}, TagConfigured, Own(d), call[d].id \in AllVMIDs,
               call[d].pc # "idle"
        PROVE  Own(d)'
    <2>1. call'[d] = call[d]
      BY <1>e DEF OthersKept
    <2>2. CASE SameVMs
      BY <1>2, <2>1, <2>2, SameOwn
    <2>3. CASE deletes
      <3>1. Own(c) /\ call[c].name # None
        BY <1>2, <1>i, <1>t, <2>3 DEF HoldsItsOwn, Formed, deletes
      <3>2. call[d].name # call[c].name
        BY <1>2, <1>i, <3>1 DEF NamesApart
      <3>3. call[d].id # id
        BY <1>2, <3>1, <3>2 DEF Own
      <3> QED BY <1>2, <1>d, <2>1, <2>3, <3>3 DEF Own
    <2>4. CASE creates
      <3>1. call[d].id # id
        BY <1>2, <2>4 DEF Own, creates
      <3> QED BY <1>2, <1>n, <2>1, <2>4, <3>1 DEF Own
    <2> QED BY <1>k, <2>2, <2>3, <2>4
  <1>3. HoldsItsOwn'
    <2>1. SUFFICES ASSUME TagConfigured, NEW d \in Callers
                   PROVE  /\ call'[d].pc \in {"start", "stop", "delete"} => Own(d)'
                          /\ call'[d].pc = "startFound" =>
                               Own(d)' \/ budget'.user < MaxUserVMs
      BY DEF HoldsItsOwn
    <2>2. CASE d = c
      BY <1>a, <2>1, <2>2 DEF OwnAfter
    <2>3. CASE d # c
      <3>1. call'[d] = call[d] /\ budget'.user = budget.user
        BY <1>e, <2>3 DEF OthersKept, BudgetStep
      <3>2. call[d].pc \in {"startFound", "start", "stop", "delete"} => call[d].id \in AllVMIDs
        BY <1>t DEF Formed
      <3> QED BY <1>2, <1>i, <2>1, <2>3, <3>1, <3>2 DEF HoldsItsOwn
    <2> QED BY <2>2, <2>3
  <1>4. AllManaged'
    <2>1. SUFFICES ASSUME budget'.user = MaxUserVMs, NEW x \in AllVMIDs, vms'[x] # None
                   PROVE  vms'[x].tagged
      BY DEF AllManaged, Used
    <2>2. \A y \in AllVMIDs : vms[y] # None => vms[y].tagged
      BY <1>e, <1>i, <2>1 DEF AllManaged, Used, BudgetStep
    <2>3. CASE SameVMs
      BY <2>1, <2>2, <2>3 DEF SameVMs
    <2>4. CASE deletes \/ creates
      BY <1>d, <1>n, <2>1, <2>2, <2>4
    <2> QED BY <1>k, <2>3, <2>4
  <1>5. NoneToFind'
    <2>1. SUFFICES ASSUME budget'.error = MaxErrors
                   PROVE  /\ online' = Hosts
                          /\ \A d \in Callers : call'[d].pc \in {"allocate", "create"} =>
                               Machines(call[d].name)' = {}
      BY DEF NoneToFind
    <2>2. online' = Hosts
      BY <1>e, <1>i, <1>m, <2>1 DEF NoneToFind
    <2>3. ASSUME NEW d \in Callers, d # c, call'[d].pc \in {"allocate", "create"}
          PROVE  Machines(call[d].name)' = {}
      <3>1. call'[d] = call[d]
        BY <1>e, <2>3 DEF OthersKept
      <3>2. \A x \in AllVMIDs :
              ~(vms[x] # None /\ vms[x].name = call[d].name /\ vms[x].tagged)
        BY <1>i, <1>m, <2>1, <2>3, <3>1 DEF NoneToFind, Machines, Used
      <3>3. ASSUME NEW x \in AllVMIDs, vms'[x] # None, vms'[x].tagged,
                   vms'[x].name = call[d].name
            PROVE  FALSE
        <4>1. CASE SameVMs
          BY <3>2, <3>3, <4>1 DEF SameVMs
        <4>2. CASE deletes
          BY <1>d, <3>2, <3>3, <4>2
        <4>3. CASE creates
          <5>1. call[c].name # None
            BY <1>t, <4>3 DEF Formed, creates
          <5>2. call[d].name # call[c].name
            BY <1>i, <2>3, <5>1 DEF NamesApart
          <5> QED BY <1>n, <3>2, <3>3, <4>3, <5>2
        <4> QED BY <1>k, <4>1, <4>2, <4>3
      <3> QED BY <3>1, <3>3 DEF Machines, Used
    <2> QED BY <1>a, <2>1, <2>2, <2>3 DEF NoneAfter
  <1>6. OneMachinePerName'
    <2>1. SUFFICES ASSUME budget'.error = MaxErrors,
                          NEW x \in AllVMIDs, NEW y \in AllVMIDs,
                          vms'[x] # None, vms'[y] # None, vms'[x].tagged, vms'[y].tagged,
                          vms'[x].name = vms'[y].name
                   PROVE  x = y
      BY DEF OneMachinePerName, Used
    <2>2. \A a, b \in AllVMIDs :
            /\ vms[a] # None /\ vms[b] # None /\ vms[a].tagged /\ vms[b].tagged
            /\ vms[a].name = vms[b].name
            => a = b
      BY <1>i, <1>m, <2>1 DEF OneMachinePerName, Used
    <2>3. CASE SameVMs
      BY <2>1, <2>2, <2>3 DEF SameVMs
    <2>4. CASE deletes
      BY <1>d, <2>1, <2>2, <2>4
    <2>5. CASE creates
      <3>1. \A a \in AllVMIDs :
              ~(vms[a] # None /\ vms[a].name = call[c].name /\ vms[a].tagged)
        BY <1>i, <1>m, <2>1, <2>5 DEF NoneToFind, Machines, Used, creates
      <3> QED BY <1>n, <2>1, <2>2, <2>5, <3>1
    <2> QED BY <1>k, <2>3, <2>4, <2>5
  <1> QED BY <1>1, <1>3, <1>4, <1>5, <1>6 DEF ProviderInv

\* So do crashes, users that take and free VMIDs, and hosts that come and go.
LEMMA EnvironmentKeeps ==
  ASSUME TypeInv, ProviderInv,
         \/ \E c \in Callers : Crash(c)
         \/ \E id \in AllVMIDs : UserCreates(id) \/ UserDeletes(id)
         \/ \E h \in Hosts : HostFails(h) \/ HostReturns(h)
  PROVE  ProviderInv'
  <1>t. /\ VMTypeOK /\ CallTypeOK /\ BudgetTypeOK
        /\ \A d \in Callers : call[d] \in Call /\ Formed(call[d])
    BY DEF TypeInv, CallTypeOK
  <1>i. NamesApart /\ HoldsItsOwn /\ AllManaged /\ NoneToFind /\ OneMachinePerName
    BY DEF ProviderInv
  <1>1. ASSUME NEW c \in Callers, Crash(c) PROVE ProviderInv'
    <2>1. OthersKept(c) /\ call'[c].pc = "idle" /\ call'[c].name = None
      BY <1>1, <1>t DEF Crash, CallTypeOK, NoCall, OthersKept
    <2>2. UNCHANGED <<vms, online>> /\ budget'.error = budget.error /\ budget'.user = budget.user
      BY <1>1, <1>t, SpendType DEF Crash
    <2>3. NamesApart'
      BY <1>i, <2>1, NamesStayApart
    <2>4. HoldsItsOwn'
      BY <1>i, <2>1, <2>2 DEF HoldsItsOwn, Own, OthersKept
    <2>5. NoneToFind'
      BY <1>i, <2>1, <2>2 DEF NoneToFind, Machines, Used, OthersKept
    <2> QED BY <1>i, <2>2, <2>3, <2>4, <2>5
            DEF ProviderInv, AllManaged, OneMachinePerName, Used
  <1>2. ASSUME NEW id \in AllVMIDs, UserCreates(id) PROVE ProviderInv'
    <2>1. PICK name \in Names, h \in online, on \in BOOLEAN :
            vms' = [vms EXCEPT ![id] = [name |-> name, tagged |-> FALSE,
                                        running |-> on, host |-> h]]
      BY <1>2 DEF UserCreates
    <2>2. /\ vms[id] = None /\ ~vms'[id].tagged
          /\ \A x \in AllVMIDs \ {id} : vms'[x] = vms[x]
      BY <1>2, <1>t, <2>1 DEF UserCreates, VMTypeOK
    <2>3. /\ UNCHANGED <<online, call>> /\ budget'.error = budget.error
          /\ budget'.user < budget.user /\ BudgetTypeOK'
      BY <1>2, <1>t, SpendType DEF UserCreates
    <2>4. budget'.user < MaxUserVMs /\ budget'.user # MaxUserVMs
      BY <1>t, <2>3, MachineProviderAssumption DEF BudgetTypeOK
    <2>5. NamesApart' /\ AllManaged'
      BY <1>i, <2>3, <2>4 DEF NamesApart, AllManaged
    <2>6. HoldsItsOwn'
      <3>1. SUFFICES ASSUME TagConfigured, NEW d \in Callers,
                            call[d].pc \in {"start", "stop", "delete"}
                     PROVE  Own(d)'
        BY <2>3, <2>4 DEF HoldsItsOwn
      <3>2. Own(d) /\ call[d].id \in AllVMIDs
        BY <1>i, <1>t, <3>1 DEF HoldsItsOwn, Formed
      <3> QED BY <2>2, <2>3, <3>2 DEF Own
    <2>7. NoneToFind'
      BY <1>i, <2>2, <2>3 DEF NoneToFind, Machines, Used
    <2>8. OneMachinePerName'
      BY <1>i, <2>2, <2>3 DEF OneMachinePerName, Used
    <2> QED BY <2>5, <2>6, <2>7, <2>8 DEF ProviderInv
  <1>3. ASSUME NEW id \in AllVMIDs, UserDeletes(id) PROVE ProviderInv'
    <2>1. /\ ~vms[id].tagged /\ vms'[id] = None
          /\ \A x \in AllVMIDs \ {id} : vms'[x] = vms[x]
      BY <1>3, <1>t DEF UserDeletes, VMTypeOK
    <2>2. UNCHANGED <<online, call, budget>>
      BY <1>3 DEF UserDeletes
    <2>3. HoldsItsOwn'
      <3>1. SUFFICES ASSUME TagConfigured, NEW d \in Callers, Own(d),
                            call[d].id \in AllVMIDs
                     PROVE  Own(d)'
        BY <1>i, <1>t, <2>2 DEF HoldsItsOwn, Formed
      <3> QED BY <2>1, <2>2, <3>1 DEF Own
    <2>4. NamesApart' /\ AllManaged' /\ NoneToFind' /\ OneMachinePerName'
      BY <1>i, <2>1, <2>2
         DEF NamesApart, AllManaged, NoneToFind, OneMachinePerName, Machines, Used
    <2> QED BY <2>3, <2>4 DEF ProviderInv
  <1>4. ASSUME NEW h \in Hosts, HostFails(h) PROVE ProviderInv'
    <2>1. UNCHANGED <<vms, call>> /\ BudgetStep /\ budget'.error < MaxErrors
      BY <1>4, <1>t, ErrorSpent DEF HostFails
    <2>2. budget'.user = budget.user /\ budget'.error # MaxErrors
      BY <2>1, MachineProviderAssumption DEF BudgetStep, BudgetTypeOK
    <2> QED BY <1>i, <2>1, <2>2
            DEF ProviderInv, NamesApart, HoldsItsOwn, Own, AllManaged, NoneToFind,
                OneMachinePerName, Used
  <1>5. ASSUME NEW h \in Hosts, HostReturns(h) PROVE ProviderInv'
    BY <1>i, <1>5 DEF HostReturns, ProviderInv, NamesApart, HoldsItsOwn, Own, AllManaged,
                      NoneToFind, OneMachinePerName, Machines, Used
  <1> QED BY <1>1, <1>2, <1>3, <1>4, <1>5

\* The invariant holds throughout.
LEMMA ProviderInvariant == Spec => [](TypeInv /\ ProviderInv)
  <1>1. Init => ProviderInv
    BY DEF Init, NoCall, ProviderInv, NamesApart, HoldsItsOwn, AllManaged, NoneToFind,
           OneMachinePerName, Used
  <1>2. TypeInv /\ ProviderInv /\ [Next]_vars => ProviderInv'
    <2>1. CASE TypeInv /\ ProviderInv /\ Next
      BY <2>1, StepKeeps, EnvironmentKeeps DEF Next
    <2>2. CASE ProviderInv /\ UNCHANGED vars
      BY <2>2 DEF vars, ProviderInv, NamesApart, HoldsItsOwn, Own, AllManaged, NoneToFind,
                  OneMachinePerName, Machines, Used
    <2> QED BY <2>1, <2>2
  <1> QED BY <1>1, <1>2, TypeInvariant, PTL DEF Spec

\* Unless a request failed or a host was offline, a machine name has one managed
\* VM at most, however many callers there are and however they crash and start
\* over, whatever VMs users create and whether a managedNodeTag is set or not.
THEOREM OneMachine == Spec => []OneMachinePerName
  <1>1. ProviderInv => OneMachinePerName
    BY DEF ProviderInv
  <1> QED BY <1>1, ProviderInvariant, PTL

-----------------------------------------------------------------------------
(* What a step may never do *)

\* With a managedNodeTag no call changes a VM without it, but to start it.
LEMMA StepSparesUsers ==
  ASSUME TypeInv, ProviderInv, TagConfigured, NEW c \in Callers, Step(c),
         NEW id \in Used, ~vms[id].tagged
  PROVE  vms'[id] \in {vms[id], Running(id)}
  <1> DEFINE own == call[c].id
  <1>t. vms \in [AllVMIDs -> VM \cup {None}] /\ id \in AllVMIDs /\ vms[id] # None
    BY DEF TypeInv, VMTypeOK, Used
  <1>v. VMStep(c)
    BY StepEffect
  <1>o. call[c].pc \in {"stop", "delete"} => own # id
    BY DEF ProviderInv, HoldsItsOwn, Own
  <1>1. CASE vms' = vms
    BY <1>1
  <1>2. CASE vms' = [vms EXCEPT ![own] = Running(own)]
    BY <1>2, <1>t
  <1>3. CASE own # id /\ \E vm : vms' = [vms EXCEPT ![own] = vm]
    BY <1>3, <1>t
  <1>4. CASE call[c].pc = "create" /\ vms[own] = None
    BY <1>1, <1>3, <1>4, <1>t, <1>v DEF VMStep
  <1> QED BY <1>1, <1>2, <1>3, <1>4, <1>o, <1>v DEF VMStep

\* With a managedNodeTag, a call stops and deletes no VM of a user, even when the
\* VMID it remembers from the search was freed and taken again in between.
THEOREM UsersKept == Spec => UserMachinesKept
  <1> DEFINE Kept == TagConfigured /\ call' # call =>
                       \A id \in Used : ~vms[id].tagged => vms'[id] \in {vms[id], Running(id)}
  <1>1. TypeInv /\ ProviderInv /\ [Next]_vars => [Kept]_vars
    <2>1. SUFFICES ASSUME TypeInv, ProviderInv, Next, TagConfigured, call' # call,
                          NEW id \in Used, ~vms[id].tagged
                   PROVE  vms'[id] \in {vms[id], Running(id)}
      OBVIOUS
    <2>2. PICK c \in Callers : Step(c) \/ Crash(c)
      BY <2>1 DEF Next, UserCreates, UserDeletes, HostFails, HostReturns
    <2>3. CASE Step(c)
      BY <2>1, <2>3, StepSparesUsers
    <2>4. CASE Crash(c)
      BY <2>4 DEF Crash
    <2> QED BY <2>2, <2>3, <2>4
  <1> QED BY <1>1, ProviderInvariant, PTL DEF Spec, UserMachinesKept

\* The result of a call that is under way changes by its own steps only.
LEMMA ResultIsOwn ==
  ASSUME TypeInv, Next, NEW c \in Callers, call[c].pc # "idle",
         call'[c].result # "none"
  PROVE  Step(c)
  <1>1. call[c].result = "none" /\ CallTypeOK
    BY DEF TypeInv, CallTypeOK, Formed
  <1>2. call'[c] # call[c]
    BY <1>1
  <1>3. PICK d \in Callers : Step(d) \/ Crash(d)
    BY <1>2 DEF Next, UserCreates, UserDeletes, HostFails, HostReturns
  <1>4. CASE Step(d)
    BY <1>2, <1>4, StepEffect DEF OthersKept
  <1>5. CASE Crash(d)
    <2>1. call'[c] \in {call[c], NoCall}
      BY <1>1, <1>5 DEF Crash, CallTypeOK
    <2> QED BY <1>1, <2>1 DEF NoCall
  <1> QED BY <1>3, <1>4, <1>5

\* A step that reports success has just seen or made a VM of the name running.
LEMMA StepLaunches ==
  ASSUME TagConfigured, TypeInv, ProviderInv, NEW c \in Callers, call[c].pc # "idle",
         Step(c), call'[c].result = "launched"
  PROVE  \/ \E id \in AllVMIDs :
              vms'[id] # None /\ vms'[id].name = call[c].name /\ vms'[id].running
         \/ call[c].pc = "startFound" /\ budget.user < MaxUserVMs
  <1>t. /\ VMTypeOK /\ CallTypeOK /\ BudgetTypeOK /\ call[c] \in Call
        /\ Formed(call[c]) /\ call[c].result = "none"
    BY DEF TypeInv, CallTypeOK, Formed
  <1>r. ASSUME NEW result \in {"none", "noVMID"}, Return(c, result) PROVE FALSE
    BY <1>r, <1>t, ReturnType
  <1>g. ASSUME NEW where, NEW id, Goto(c, where, id) PROVE FALSE
    <2>1. call'[c].result = call[c].result
      BY <1>g, <1>t DEF Goto, CallTypeOK, Call
    <2> QED BY <1>t, <2>1
  <1>1. CASE FindExisting(c)
    <2>0. PICK ids \in SUBSET Used :
            FoundOn(c, ids) /\ UNCHANGED vms /\ \E id \in ids : vms[id].running
      BY <1>1, <1>g, <1>r DEF FindExisting, RequestFails
    <2>1. PICK id \in ids : FoundOn(c, ids) /\ vms[id].running /\ UNCHANGED vms
      BY <2>0
    <2>2. id \in AllVMIDs /\ vms[id] # None /\ vms[id].name = call[c].name
      BY <1>t, <2>1, FoundVMs DEF On, Used
    <2> QED BY <2>1, <2>2
  <1>2. CASE StartFound(c) \/ StartNew(c)
    <2> DEFINE id == call[c].id
    <2>1. /\ call[c].pc \in {"startFound", "start"}
          /\ vms[id] # None /\ vms' = [vms EXCEPT ![id] = Running(id)]
      BY <1>2, <1>r DEF StartFound, StartNew, Request, RequestFails, Reachable
    <2>2. id \in AllVMIDs
      BY <1>t, <2>1 DEF Formed
    <2>3. SameVMs /\ vms'[id].running
      BY <1>t, <2>1, <2>2, PowerChange DEF Running
    <2>4. Own(c) \/ (call[c].pc = "startFound" /\ budget.user < MaxUserVMs)
      BY <2>1 DEF ProviderInv, HoldsItsOwn
    <2> QED BY <2>1, <2>2, <2>3, <2>4 DEF Own, SameVMs
  <1>3. CASE AllocateVMID(c)
    BY <1>3, <1>g, <1>r DEF AllocateVMID, RequestFails
  <1>4. CASE CreateVM(c)
    BY <1>4, <1>g, <1>r DEF CreateVM, RequestFails
  <1>5. CASE FindToDelete(c)
    BY <1>5, <1>g, <1>r DEF FindToDelete, RequestFails
  <1>6. CASE StopVM(c) \/ DeleteVM(c)
    BY <1>6, <1>g, <1>r DEF StopVM, DeleteVM, Request, RequestFails
  <1>7. ASSUME NEW operation, Begin(c, operation) PROVE FALSE
    BY <1>7 DEF Begin
  <1> QED BY <1>1, <1>2, <1>3, <1>4, <1>5, <1>6, <1>7 DEF Step

\* With a managedNodeTag, ProvisionMachine reports success only when a VM of the
\* name runs, or when it took a user's VM for the machine.
THEOREM Launched ==
  ASSUME TagConfigured
  PROVE  Spec => LaunchedIsRunning
  <1> DEFINE Runs(c) ==
        call[c].pc # "idle" /\ call'[c].result = "launched" =>
          \/ \E id \in AllVMIDs :
               vms'[id] # None /\ vms'[id].name = call[c].name /\ vms'[id].running
          \/ call[c].pc = "startFound" /\ budget.user < MaxUserVMs
  <1>1. TypeInv /\ ProviderInv /\ [Next]_vars => [\A c \in Callers : Runs(c)]_vars
    BY ResultIsOwn, StepLaunches
  <1> QED BY <1>1, ProviderInvariant, PTL DEF Spec, LaunchedIsRunning

\* AllocateVMID reports that there is no VMID only when all of the range are used.
LEMMA StepFindsVMID ==
  ASSUME TypeInv, NEW c \in Callers, call[c].pc = "allocate", Step(c),
         call'[c].result = "noVMID"
  PROVE  VMIDRange \subseteq Used
  <1>t. CallTypeOK /\ call[c] \in Call /\ call[c].result = "none"
    BY DEF TypeInv, CallTypeOK, Formed
  <1>1. AllocateVMID(c)
    BY DEF Step, Begin, FindExisting, StartFound, CreateVM, StartNew, FindToDelete, StopVM,
           DeleteVM
  <1>2. ~RequestFails(c)
    BY <1>t, ReturnType DEF RequestFails
  <1>3. PICK start \in VMIDRange :
          LET id == GenerateNewVMID(Used \cap VMIDRange, start) IN
          IF id = None THEN Return(c, "noVMID") ELSE Goto(c, "create", id)
    BY <1>1, <1>2 DEF AllocateVMID
  <1> DEFINE id == GenerateNewVMID(Used \cap VMIDRange, start)
  <1>4. ~Goto(c, "create", id)
    <2>1. Goto(c, "create", id) => call'[c].result = call[c].result
      BY <1>t DEF Goto, CallTypeOK, Call
    <2> QED BY <1>t, <2>1
  <1>5. id = None
    BY <1>3, <1>4
  <1>6. Used \cap VMIDRange = VMIDRange
    BY <1>5, GeneratedVMID, VMFacts
  <1> QED BY <1>6

\* A VMID is found whenever one of the range is free, wherever the random probe
\* of generateNewVMID starts and however large the range is.
THEOREM FreeFound == Spec => FreeVMIDFound
  <1> DEFINE Found(c) == call[c].pc = "allocate" /\ call'[c].result = "noVMID" =>
                           VMIDRange \subseteq Used
  <1>1. TypeInv /\ [Next]_vars => [\A c \in Callers : Found(c)]_vars
    <2>1. SUFFICES ASSUME TypeInv, Next, NEW c \in Callers, call[c].pc = "allocate",
                          call'[c].result = "noVMID"
                   PROVE  VMIDRange \subseteq Used
      OBVIOUS
    <2>2. Step(c)
      BY <2>1, ResultIsOwn
    <2> QED BY <2>1, <2>2, StepFindsVMID
  <1> QED BY <1>1, TypeInvariant, PTL DEF Spec, FreeVMIDFound

-----------------------------------------------------------------------------
(* The view of one name: MachineProvider implements Proxmox *)

\* A step that leaves the managed VMs alone is a stuttering step of every view.
LEMMA ViewStutters ==
  ASSUME NEW name,
         \A id \in AllVMIDs :
           \/ vms'[id] = vms[id]
           \/ (vms[id] = None \/ ~vms[id].tagged) /\ (vms'[id] = None \/ ~vms'[id].tagged)
  PROVE  UNCHANGED View(name)!proxmoxVars
  <1>1. Machines(name)' = Machines(name)
    BY DEF Machines, Used
  <1>2. RunningMachines(name)' = RunningMachines(name)
    BY <1>1 DEF RunningMachines, Machines, Used
  <1> QED BY <1>1, <1>2 DEF View!proxmoxVars

\* Starting or stopping a VM is ReuseVM or StopVM of the view that has it.
LEMMA PowerView ==
  ASSUME TypeInv, NEW name, NEW id \in AllVMIDs, vms[id] # None, NEW on \in BOOLEAN,
         vms' = [vms EXCEPT ![id] = [vms[id] EXCEPT !.running = on]]
  PROVE  View(name)!ProxmoxNext \/ UNCHANGED View(name)!proxmoxVars
  <1>1. SameVMs /\ vms'[id].running = on /\ \A x \in AllVMIDs \ {id} : vms'[x] = vms[x]
    BY PowerChange DEF TypeInv, VMTypeOK
  <1>2. Machines(name)' = Machines(name)
    BY <1>1 DEF SameVMs, Machines, Used
  <1>3. CASE id \notin Machines(name)
    <2>1. RunningMachines(name)' = RunningMachines(name)
      BY <1>1, <1>2, <1>3 DEF RunningMachines, Machines, Used
    <2> QED BY <1>2, <2>1 DEF View!proxmoxVars
  <1>4. CASE id \in Machines(name) /\ on
    <2>1. RunningMachines(name)' = RunningMachines(name) \cup {id}
      BY <1>1, <1>2, <1>4 DEF RunningMachines, Machines, Used
    <2>2. View(name)!ReuseVM(id)
      BY <1>2, <2>1 DEF View!ReuseVM
    <2> QED BY <1>4, <2>2 DEF View!ProxmoxNext
  <1>5. CASE id \in Machines(name) /\ ~on
    <2>1. RunningMachines(name)' = RunningMachines(name) \ {id}
      BY <1>1, <1>2, <1>5 DEF RunningMachines, Machines, Used
    <2>2. View(name)!StopVM(id)
      BY <1>2, <2>1 DEF View!StopVM
    <2> QED BY <1>5, <2>2 DEF View!ProxmoxNext
  <1> QED BY <1>3, <1>4, <1>5

\* Every step of a caller is a step of the view of a name, or leaves it alone.
LEMMA StepView ==
  ASSUME TypeInv, NEW name \in Names, NEW c \in Callers, Step(c)
  PROVE  View(name)!ProxmoxNext \/ UNCHANGED View(name)!proxmoxVars
  <1> DEFINE id == call[c].id
  <1>t. /\ vms \in [AllVMIDs -> VM \cup {None}] /\ Formed(call[c]) /\ call[c] \in Call
        /\ VMIDRange \subseteq AllVMIDs
    BY VMFacts DEF TypeInv, VMTypeOK, CallTypeOK
  <1>v. VMStep(c)
    BY StepEffect
  <1>1. CASE vms' = vms
    BY <1>1, ViewStutters
  <1>2. CASE /\ call[c].pc \in {"startFound", "start"} /\ vms[id] # None
             /\ vms' = [vms EXCEPT ![id] = Running(id)]
    BY <1>2, <1>t, PowerView DEF Formed, Running
  <1>3. CASE /\ call[c].pc = "stop" /\ vms[id] # None
             /\ vms' = [vms EXCEPT ![id] = [vms[id] EXCEPT !.running = FALSE]]
    BY <1>3, <1>t, PowerView DEF Formed
  <1>4. CASE call[c].pc = "delete" /\ vms' = [vms EXCEPT ![id] = None]
    <2>1. id \in AllVMIDs /\ vms'[id] = None /\ \A x \in AllVMIDs \ {id} : vms'[x] = vms[x]
      BY <1>4, <1>t DEF Formed
    <2>2. /\ Machines(name)' = Machines(name) \ {id}
          /\ RunningMachines(name)' = RunningMachines(name) \ {id}
      BY <2>1 DEF RunningMachines, Machines, Used
    <2>3. CASE id \in Machines(name)
      BY <2>2, <2>3 DEF View!ProxmoxNext, View!DeleteVM
    <2>4. CASE id \notin Machines(name)
      BY <2>2, <2>4 DEF View!proxmoxVars, RunningMachines
    <2> QED BY <2>3, <2>4
  <1>5. ASSUME call[c].pc = "create", vms[id] = None, NEW h \in Hosts,
               vms' = [vms EXCEPT ![id] = NewVM(call[c].name, h)]
        PROVE  View(name)!ProxmoxNext \/ UNCHANGED View(name)!proxmoxVars
    <2>1. id \in VMIDRange /\ id \in AllVMIDs
      BY <1>5, <1>t DEF Formed
    <2>2. /\ vms'[id] = NewVM(call[c].name, h)
          /\ \A x \in AllVMIDs \ {id} : vms'[x] = vms[x]
      BY <1>5, <1>t, <2>1
    <2>3. /\ NewVM(call[c].name, h).name = call[c].name /\ NewVM(call[c].name, h).tagged
          /\ ~NewVM(call[c].name, h).running
      BY DEF NewVM
    <2>4. NewVM(call[c].name, h) # None
      <3>1. NewVM(call[c].name, h) \in VM
        BY <1>5, <1>t DEF NewVM, VM, Formed, Call
      <3> QED BY <3>1, VMFacts
    <2>5. /\ Machines(name)' = IF call[c].name = name THEN Machines(name) \cup {id}
                               ELSE Machines(name)
          /\ id \notin Machines(name)
      BY <1>5, <2>1, <2>2, <2>3, <2>4 DEF Machines, Used
    <2>6. RunningMachines(name)' = RunningMachines(name)
      BY <1>5, <2>1, <2>2, <2>3, <2>5 DEF RunningMachines, Machines, Used
    <2>7. CASE call[c].name = name
      <3>1. View(name)!CreateVM(id, FALSE)
        BY <2>5, <2>6, <2>7 DEF View!CreateVM
      <3> QED BY <2>1, <2>5, <3>1 DEF View!ProxmoxNext, View!FreeVMIDs
    <2>8. CASE call[c].name # name
      BY <2>5, <2>6, <2>8 DEF View!proxmoxVars
    <2> QED BY <2>7, <2>8
  <1> QED BY <1>1, <1>2, <1>3, <1>4, <1>5, <1>v DEF VMStep

\* So is every other step: users never touch a managed VM.
LEMMA NextView ==
  ASSUME TypeInv, NEW name \in Names, Next
  PROVE  View(name)!ProxmoxNext \/ UNCHANGED View(name)!proxmoxVars
  <1>t. vms \in [AllVMIDs -> VM \cup {None}]
    BY DEF TypeInv, VMTypeOK
  <1>1. ASSUME NEW c \in Callers, Step(c)
        PROVE  View(name)!ProxmoxNext \/ UNCHANGED View(name)!proxmoxVars
    BY <1>1, StepView
  <1>2. ASSUME NEW id \in AllVMIDs, UserCreates(id)
        PROVE  UNCHANGED View(name)!proxmoxVars
    <2>1. PICK n \in Names, h \in online, on \in BOOLEAN :
            vms' = [vms EXCEPT ![id] = [name |-> n, tagged |-> FALSE,
                                        running |-> on, host |-> h]]
      BY <1>2 DEF UserCreates
    <2>2. /\ vms[id] = None /\ ~vms'[id].tagged
          /\ \A x \in AllVMIDs \ {id} : vms'[x] = vms[x]
      BY <1>2, <1>t, <2>1 DEF UserCreates
    <2> QED BY <2>2, ViewStutters
  <1>3. ASSUME NEW id \in AllVMIDs, UserDeletes(id)
        PROVE  UNCHANGED View(name)!proxmoxVars
    <2>1. /\ ~vms[id].tagged /\ vms'[id] = None
          /\ \A x \in AllVMIDs \ {id} : vms'[x] = vms[x]
      BY <1>3, <1>t DEF UserDeletes
    <2> QED BY <2>1, ViewStutters
  <1>4. CASE vms' = vms
    BY <1>4, ViewStutters
  <1> QED BY <1>1, <1>2, <1>3, <1>4 DEF Next, Crash, HostFails, HostReturns

\* The provider implements module Proxmox for each machine name, whatever callers,
\* users and hosts do: NodeClaim's view of the provider is sound.
THEOREM OneName ==
  ASSUME NEW name \in Names
  PROVE  Spec => View(name)!ProxmoxSpec
  <1>1. Init => View(name)!ProxmoxInit
    BY DEF Init, View!ProxmoxInit, Machines, RunningMachines, Used
  <1>2. TypeInv /\ [Next]_vars => [View(name)!ProxmoxNext]_(View(name)!proxmoxVars)
    <2>1. CASE TypeInv /\ Next
      BY <2>1, NextView
    <2>2. CASE UNCHANGED vars
      BY <2>2, ViewStutters DEF vars
    <2> QED BY <2>1, <2>2
  <1> QED BY <1>1, <1>2, TypeInvariant, PTL DEF Spec, View!ProxmoxSpec

\* In particular it does for the two names of the checked instance.
THEOREM TwoNames == Spec => OneNameView
  <1>1. n1 \in Names /\ n2 \in Names
    BY NamesAssumption
  <1>2. Spec => View(n1)!ProxmoxSpec
    BY <1>1, OneName
  <1>3. Spec => View(n2)!ProxmoxSpec
    BY <1>1, OneName
  <1>4. /\ View(n1)!ProxmoxInit <=> View1!ProxmoxInit
        /\ [View(n1)!ProxmoxNext]_(View(n1)!proxmoxVars)
             <=> [View1!ProxmoxNext]_(View1!proxmoxVars)
    BY DEF View!ProxmoxInit, View!ProxmoxNext, View!proxmoxVars, View!FreeVMIDs,
           View!ReuseVM, View!CreateVM, View!StopVM, View!DeleteRunningVM, View!DeleteVM,
           View1!ProxmoxInit, View1!ProxmoxNext, View1!proxmoxVars, View1!FreeVMIDs,
           View1!ReuseVM, View1!CreateVM, View1!StopVM, View1!DeleteRunningVM, View1!DeleteVM
  <1>5. /\ View(n2)!ProxmoxInit <=> View2!ProxmoxInit
        /\ [View(n2)!ProxmoxNext]_(View(n2)!proxmoxVars)
             <=> [View2!ProxmoxNext]_(View2!proxmoxVars)
    BY DEF View!ProxmoxInit, View!ProxmoxNext, View!proxmoxVars, View!FreeVMIDs,
           View!ReuseVM, View!CreateVM, View!StopVM, View!DeleteRunningVM, View!DeleteVM,
           View2!ProxmoxInit, View2!ProxmoxNext, View2!proxmoxVars, View2!FreeVMIDs,
           View2!ReuseVM, View2!CreateVM, View2!StopVM, View2!DeleteRunningVM, View2!DeleteVM
  <1>6. Spec => View1!ProxmoxSpec
    BY <1>2, <1>4, PTL DEF View!ProxmoxSpec, View1!ProxmoxSpec
  <1>7. Spec => View2!ProxmoxSpec
    BY <1>3, <1>5, PTL DEF View!ProxmoxSpec, View2!ProxmoxSpec
  <1> QED BY <1>6, <1>7 DEF OneNameView
=============================================================================
