----------------------------- MODULE NodeClaim -----------------------------
(***************************************************************************)
(* The NodeSmithClaim controller (internal/controller/                     *)
(* nodeclaim_controller.go) driving one claim through launch, registration *)
(* and initialization, recycling its node, and finalizing it, together     *)
(* with the cluster it acts on: the claim object on the API server, the    *)
(* controllers' informer caches, the Kubernetes Node that carries the      *)
(* claim's name and the Proxmox VMs that carry it.                         *)
(*                                                                         *)
(* A worker is a controller process.  The workqueue never runs two         *)
(* reconciles of one claim in one process, so a worker has one program     *)
(* counter; two workers are two replicas without leader election.  A step  *)
(* of a worker is the code between two requests that other parties can     *)
(* interleave with.                                                        *)
(*                                                                         *)
(* The client reads from an informer cache and writes to the API server,   *)
(* which refuses a write that carries an old resourceVersion.  cache and   *)
(* seen are what the caches hold; fresh and rv say whether a version held  *)
(* in the cache, or by the running reconcile, is still the current one.    *)
(*                                                                         *)
(* Clocks are abstracted: a timeout may fire whenever the code looks at    *)
(* the clock, except that a lease does not expire while a worker that      *)
(* heartbeats it is launching.                                             *)
(***************************************************************************)
EXTENDS Naturals, Proxmox

CONSTANTS
  Workers,            \* controller processes
  NoLease,            \* the value of an absent status.lease
  MaxLaunchAttempts,  \* maxLaunchAttempts
  StaleReads,         \* whether the informer caches may lag behind
  MaxCrashes,         \* bound on crashes of controller processes
  MaxErrors,          \* bound on failed API server and Proxmox requests
  MaxDisruptions,     \* bound on nodes lost or degraded from outside
  MaxJoins            \* bound on registrations of the Node by a kubelet

ASSUME NodeClaimAssumption ==
  /\ MaxLaunchAttempts \in Nat \ {0}
  /\ StaleReads \in BOOLEAN
  /\ NoLease \notin Workers
  /\ {MaxCrashes, MaxErrors, MaxDisruptions, MaxJoins} \subseteq Nat

VARIABLES
  meta,    \* the claim's metadata on the API server
  status,  \* the claim's status on the API server
  cache,   \* per worker: the claim in its informer cache
  fresh,   \* per worker: the cached claim is the current version
  seen,    \* per worker: the Node in its informer cache
  pc,      \* per worker: where its reconcile of the claim stands
  st,      \* per worker: the reconcile's own copy of the claim's status
  rv,      \* per worker: the reconcile's resourceVersion is current
  node,    \* the Node object with the claim's name
  pool,    \* whether the NodeSmithPool (and its provider) still exists
  calls,   \* ProvisionMachine calls since the last registration
  budget   \* what remains of the bounds on failures

claimVars == <<meta, status, cache, fresh, rv>>
nodeVars  == <<node, seen>>
vars == <<claimVars, nodeVars, proxmoxVars, pc, st, pool, calls, budget>>

-----------------------------------------------------------------------------
(* Types *)

Condition == {"Unset", "True", "False"}

\* NodeSmithClaimStatus: providerID and nodeName are set or not, for their
\* values are functions of the claim's name.  Initialized is written with
\* Ready and always to the same value.
Status ==
  [providerID : BOOLEAN, nodeName : BOOLEAN, attempts : Nat,
   launched : Condition, registered : Condition, ready : Condition,
   failed : BOOLEAN, lease : Workers \cup {NoLease}]

Meta == [exists : BOOLEAN, finalizer : BOOLEAN, deleting : BOOLEAN]

Node == [status : {"None", "NotReady", "Ready"},
         deleting : BOOLEAN, labeled : BOOLEAN]

\* Between acquireLease and its deferred releaseLease.
LaunchingPC == {"launch", "find", "create", "saveLaunched", "saveError",
                "release", "abort"}

PC == LaunchingPC \cup
      {"idle", "addFinalizer", "clear", "acquire", "register", "labelled",
       "timeout", "init", "recycle", "saveRecycle",
       "finalize", "deprovision", "removeFinalizer"}

Fault == {"crash", "error", "disruption", "join"}

ClaimTypeOK ==
  /\ meta \in Meta
  /\ status \in Status
  /\ cache \in [Workers -> [meta : Meta, status : Status]]
  /\ fresh \in [Workers -> BOOLEAN]
  /\ rv \in [Workers -> BOOLEAN]

NodeTypeOK ==
  /\ node \in Node
  /\ seen \in [Workers -> Node]

WorkerTypeOK ==
  /\ pc \in [Workers -> PC]
  /\ st \in [Workers -> Status]

\* Every variable has its type; a VM that runs is one that exists.
TypeOK ==
  /\ ProxmoxTypeOK
  /\ ClaimTypeOK
  /\ NodeTypeOK
  /\ WorkerTypeOK
  /\ pool \in BOOLEAN
  /\ calls \in Nat
  /\ budget \in [Fault -> Nat]

NewStatus ==
  [providerID |-> FALSE, nodeName |-> FALSE, attempts |-> 0,
   launched |-> "Unset", registered |-> "Unset", ready |-> "Unset",
   failed |-> FALSE, lease |-> NoLease]

NewMeta == [exists |-> TRUE, finalizer |-> FALSE, deleting |-> FALSE]

NoNode == [status |-> "None", deleting |-> FALSE, labeled |-> FALSE]

\* A claim as the pool controller's ensureClaim creates it.
Init ==
  /\ ProxmoxInit
  /\ meta = NewMeta
  /\ status = NewStatus
  /\ cache = [w \in Workers |-> [meta |-> NewMeta, status |-> NewStatus]]
  /\ fresh = [w \in Workers |-> TRUE]
  /\ rv = [w \in Workers |-> FALSE]
  /\ seen = [w \in Workers |-> NoNode]
  /\ node = NoNode
  /\ pc = [w \in Workers |-> "idle"]
  /\ st = [w \in Workers |-> NewStatus]
  /\ pool = TRUE
  /\ calls = 0
  /\ budget = [crash |-> MaxCrashes, error |-> MaxErrors,
               disruption |-> MaxDisruptions, join |-> MaxJoins]

-----------------------------------------------------------------------------
(* Requests *)

Spend(fault) ==
  /\ budget[fault] > 0
  /\ budget' = [budget EXCEPT ![fault] = @ - 1]

Goto(w, where, s) ==
  /\ pc' = [pc EXCEPT ![w] = where]
  /\ st' = [st EXCEPT ![w] = s]

Return(w) == Goto(w, "idle", NewStatus)

\* The API server accepts a write of the claim: every version held elsewhere
\* is now old, and the caches follow at once or when they are synchronized.
WriteClaim(m, s) ==
  /\ meta' = m
  /\ status' = s
  /\ rv' = [w \in Workers |-> FALSE]
  /\ fresh' = [w \in Workers |-> ~StaleReads]
  /\ cache' = IF StaleReads THEN cache
              ELSE [w \in Workers |-> [meta |-> m, status |-> s]]

WriteNode(n) ==
  /\ node' = n
  /\ seen' = IF StaleReads THEN seen ELSE [w \in Workers |-> n]

\* The status a call of updateStatus starts from: its Get reads the cache.
Latest(w) == cache[w].status

\* updateStatus(claim, mutate) returns nil, where new is the mutated status.
\* A conflict is retried until the cache holds the current version.
StatusUpdated(w, new) ==
  IF new = Latest(w)
  THEN cache[w].meta.exists /\ UNCHANGED claimVars
  ELSE fresh[w] /\ meta.exists /\ WriteClaim(meta, new)

\* updateStatus returns an error: the claim is gone, or the request failed.
StatusRefused ==
  /\ \/ ~meta.exists /\ UNCHANGED budget
     \/ Spend("error")
  /\ UNCHANGED claimVars

\* updateStatus returns an error although the API server applied the write.
StatusReplyLost(w, new) ==
  /\ Spend("error")
  /\ fresh[w] /\ meta.exists
  /\ WriteClaim(meta, new)

StatusFailed(w, new) == StatusRefused \/ StatusReplyLost(w, new)

\* Both outcomes, for the callers that only log an error.
StatusTried(w, new) ==
  \/ StatusUpdated(w, new) /\ UNCHANGED budget
  \/ StatusFailed(w, new)

\* r.Delete of the Node: NotFound is not an error.
DeleteNode ==
  IF node.status = "None" THEN UNCHANGED nodeVars
  ELSE WriteNode([node EXCEPT !.deleting = TRUE])

\* getProviderForClaim followed by DeprovisionMachine, whose errors every
\* caller ignores.  The VM is looked up by KubeNodeName, which the callers
\* take from status.nodeName: when it is empty no VM has that name.
Deprovision(named) ==
  \/ /\ ~pool \/ ~named
     /\ UNCHANGED <<proxmoxVars, budget>>
  \/ /\ pool /\ named
     /\ Spend("error")
     /\ UNCHANGED proxmoxVars
  \/ /\ pool /\ named
     /\ \E found \in Visible :
          \/ found = {} /\ UNCHANGED <<proxmoxVars, budget>>
          \/ \E id \in found :
               \/ DeleteVM(id) /\ UNCHANGED budget
               \/ StopVM(id) /\ Spend("error")

-----------------------------------------------------------------------------
(* Reconcile: the claim is read from the cache and a phase is chosen. *)

\* The phases after launch: registration needs a providerID and no nodeName,
\* initialization needs a nodeName, and without either the reconcile ends.
PhaseAfterLaunch(s) ==
  CASE s.providerID /\ ~s.nodeName -> "register"
    [] s.nodeName                  -> "init"
    [] OTHER                       -> "idle"

\* Mutant: the finalizer is added but the reconcile goes on without it.
PhaseWithoutFinalizer(m, s) ==
  CASE m.deleting                    -> IF m.finalizer THEN "finalize" ELSE "idle"
    [] ~m.deleting /\ s.failed       -> "idle"
    [] ~m.deleting /\ ~s.failed /\ s.providerID -> PhaseAfterLaunch(s)
    [] OTHER -> IF s.lease = NoLease THEN "acquire" ELSE "clear"

\* Mutant: a lease is respected for ever, expired or not.
PhaseWithoutExpiry(m, s) ==
  CASE m.deleting                    -> IF m.finalizer THEN "finalize" ELSE "idle"
    [] ~m.deleting /\ ~m.finalizer   -> "addFinalizer"
    [] OTHER -> CASE s.failed        -> "idle"
                  [] ~s.failed /\ s.providerID -> PhaseAfterLaunch(s)
                  [] OTHER -> IF s.lease = NoLease THEN "acquire" ELSE "idle"

Phase(m, s) ==
  CASE m.deleting /\ m.finalizer     -> "finalize"
    [] m.deleting /\ ~m.finalizer    -> "idle"
    [] ~m.deleting /\ ~m.finalizer   -> "addFinalizer"
    [] OTHER ->
         CASE s.failed               -> "idle"
           [] ~s.failed /\ s.providerID -> PhaseAfterLaunch(s)
           [] OTHER -> IF s.lease = NoLease THEN "acquire" ELSE "clear"

\* A worker that is launching heartbeats the lease and keeps it alive.
LeaseMayExpire == \A v \in Workers : pc[v] \notin LaunchingPC

Reconcile(w) ==
  /\ pc[w] = "idle"
  /\ cache[w].meta.exists
  /\ LET phase == Phase(cache[w].meta, Latest(w)) IN
       /\ phase # "idle"
       /\ phase = "clear" => LeaseMayExpire
       /\ Goto(w, phase, Latest(w))
  /\ rv' = [rv EXCEPT ![w] = fresh[w]]
  /\ UNCHANGED <<meta, status, cache, fresh, nodeVars, proxmoxVars, pool,
                 calls, budget>>

\* r.Update with the resourceVersion that was read; a conflict or an error
\* ends the reconcile.
AddFinalizer(w) ==
  /\ pc[w] = "addFinalizer"
  /\ \/ /\ rv[w] /\ meta.exists
        /\ WriteClaim([meta EXCEPT !.finalizer = TRUE], status)
        /\ UNCHANGED budget
     \/ ~(rv[w] /\ meta.exists) /\ UNCHANGED <<claimVars, budget>>
     \/ Spend("error") /\ UNCHANGED claimVars
  /\ Return(w)
  /\ UNCHANGED <<nodeVars, proxmoxVars, pool, calls>>

-----------------------------------------------------------------------------
(* reconcileLaunch *)

\* releaseLease of an expired lease, whoever holds it.
ClearExpiredLease(w) ==
  LET new == [Latest(w) EXCEPT !.lease = NoLease] IN
  /\ pc[w] = "clear"
  /\ \/ StatusUpdated(w, new) /\ UNCHANGED budget /\ Goto(w, "acquire", new)
     \/ StatusFailed(w, new) /\ Return(w)
  /\ UNCHANGED <<nodeVars, proxmoxVars, pool, calls>>

\* The lease is written whatever lease the retried Get reads: every write of
\* it carries a new timestamp.
AcquireLease(w) ==
  LET new == [Latest(w) EXCEPT !.lease = w] IN
  /\ pc[w] = "acquire"
  /\ \/ /\ fresh[w] /\ meta.exists
        /\ WriteClaim(meta, new)
        /\ Goto(w, "launch", new)
        /\ UNCHANGED budget
     \/ StatusFailed(w, new) /\ Return(w)
  /\ UNCHANGED <<nodeVars, proxmoxVars, pool, calls>>

\* runLeaseHeartbeat: a write that moves lastHeartbeat only, until leaseCancel
\* stops it just before the release.
Heartbeat(w) ==
  /\ pc[w] \in LaunchingPC \ {"release", "abort"}
  /\ Latest(w).lease # NoLease
  /\ fresh[w] /\ meta.exists
  /\ WriteClaim(meta, Latest(w))
  /\ UNCHANGED <<nodeVars, proxmoxVars, pc, st, pool, calls, budget>>

AttemptsExhausted(w) == st[w].attempts >= MaxLaunchAttempts

FailLaunch(w) ==
  LET new == [Latest(w) EXCEPT !.failed = TRUE, !.launched = "False"] IN
  /\ pc[w] = "launch"
  /\ AttemptsExhausted(w)
  /\ StatusTried(w, new)
  /\ Goto(w, "abort", st[w])
  /\ UNCHANGED <<nodeVars, proxmoxVars, pool, calls>>

\* A Node with the claim's name is still there, or the Get failed.
AwaitOldNode(w) ==
  /\ pc[w] = "launch"
  /\ ~AttemptsExhausted(w)
  /\ \/ seen[w].status # "None" /\ UNCHANGED budget
     \/ Spend("error")
  /\ Goto(w, "abort", st[w])
  /\ UNCHANGED <<claimVars, nodeVars, proxmoxVars, pool, calls>>

\* getProviderForClaim failed: the attempt is not counted.
ProviderUnavailable(w) ==
  LET new == [Latest(w) EXCEPT !.launched = "False"] IN
  /\ pc[w] = "launch"
  /\ ~AttemptsExhausted(w)
  /\ seen[w].status = "None"
  /\ ~pool
  /\ StatusTried(w, new)
  /\ Goto(w, "abort", st[w])
  /\ UNCHANGED <<nodeVars, proxmoxVars, pool, calls>>

StartProvisioning(w) ==
  /\ pc[w] = "launch"
  /\ ~AttemptsExhausted(w)
  /\ seen[w].status = "None"
  /\ pool
  /\ Goto(w, "find", st[w])
  /\ calls' = calls + 1
  /\ UNCHANGED <<claimVars, nodeVars, proxmoxVars, pool, budget>>

\* Mutant: ProvisionMachine does not look for a VM it created before.
CreateWithoutLooking(w) ==
  /\ pc[w] = "find"
  /\ Goto(w, "create", st[w])
  /\ UNCHANGED <<claimVars, nodeVars, proxmoxVars, pool, calls, budget>>

\* ProvisionMachine looks for a VM of the claim's name and reuses it.
FindExistingVM(w) ==
  /\ pc[w] = "find"
  /\ \/ \E found \in Visible :
          \/ /\ found = {}
             /\ UNCHANGED proxmoxVars
             /\ Goto(w, "create", st[w])
          \/ \E id \in found : ReuseVM(id) /\ Goto(w, "saveLaunched", st[w])
        /\ UNCHANGED budget
     \/ /\ Spend("error")
        /\ UNCHANGED proxmoxVars \/ \E id \in vms : ReuseVM(id)
        /\ Goto(w, "saveError", st[w])
  /\ UNCHANGED <<claimVars, nodeVars, pool, calls>>

\* No VM was found: ProvisionMachine creates one.  A failure may come before
\* the VM exists, between its creation and its start, or after both.
CreateNewVM(w) ==
  /\ pc[w] = "create"
  /\ \/ /\ \E id \in FreeVMIDs : CreateVM(id, TRUE)
        /\ Goto(w, "saveLaunched", st[w])
        /\ UNCHANGED budget
     \/ /\ FreeVMIDs = {}
        /\ Goto(w, "saveError", st[w])
        /\ UNCHANGED <<proxmoxVars, budget>>
     \/ /\ Spend("error")
        /\ \/ UNCHANGED proxmoxVars
           \/ \E id \in FreeVMIDs, started \in BOOLEAN : CreateVM(id, started)
        /\ Goto(w, "saveError", st[w])
  /\ UNCHANGED <<claimVars, nodeVars, pool, calls>>

SaveLaunchError(w) ==
  LET new == [Latest(w) EXCEPT !.attempts = st[w].attempts + 1,
                               !.launched = "False"] IN
  /\ pc[w] = "saveError"
  /\ StatusTried(w, new)
  /\ Goto(w, "abort", st[w])
  /\ UNCHANGED <<nodeVars, proxmoxVars, pool, calls>>

\* Mutant: the attempt is not saved with the providerID.
SaveLaunchedWithoutAttempt(w) ==
  LET new == [Latest(w) EXCEPT !.providerID = TRUE, !.launched = "True"] IN
  /\ pc[w] = "saveLaunched"
  /\ \/ StatusUpdated(w, new) /\ UNCHANGED budget /\ Goto(w, "release", new)
     \/ StatusFailed(w, new) /\ Goto(w, "abort", st[w])
  /\ UNCHANGED <<nodeVars, proxmoxVars, pool, calls>>

SaveLaunched(w) ==
  LET new == [Latest(w) EXCEPT !.providerID = TRUE,
                               !.attempts = st[w].attempts + 1,
                               !.launched = "True"] IN
  /\ pc[w] = "saveLaunched"
  /\ \/ StatusUpdated(w, new) /\ UNCHANGED budget /\ Goto(w, "release", new)
     \/ StatusFailed(w, new) /\ Goto(w, "abort", st[w])
  /\ UNCHANGED <<nodeVars, proxmoxVars, pool, calls>>

\* The deferred releaseLease, whose error is only logged.  After a launch the
\* reconcile goes on with the status the release leaves in its copy, which is
\* the cached one when the cached claim has no lease.
ReleaseLease(w) ==
  LET new == [Latest(w) EXCEPT !.lease = NoLease] IN
  /\ \/ /\ pc[w] = "release"
        /\ \/ /\ StatusUpdated(w, new)
              /\ Goto(w, PhaseAfterLaunch(new),
                      IF PhaseAfterLaunch(new) = "idle" THEN NewStatus ELSE new)
              /\ UNCHANGED budget
           \/ /\ StatusFailed(w, new)
              /\ Goto(w, PhaseAfterLaunch(st[w]), st[w])
     \/ pc[w] = "abort" /\ StatusTried(w, new) /\ Return(w)
  /\ UNCHANGED <<nodeVars, proxmoxVars, pool, calls>>

-----------------------------------------------------------------------------
(* reconcileRegistration *)

NodeRegistered(w) == seen[w].status # "None" /\ ~seen[w].deleting

\* getPoolForClaim and ensureNodeLabels: the patch goes to the Node that has
\* the name now, and is skipped when the cached Node has the labels.
LabelNode(w) ==
  /\ pc[w] = "register"
  /\ NodeRegistered(w)
  /\ \/ /\ pool
        /\ \/ seen[w].labeled /\ UNCHANGED nodeVars
           \/ /\ ~seen[w].labeled
              /\ node.status # "None"
              /\ WriteNode([node EXCEPT !.labeled = TRUE])
        /\ Goto(w, "labelled", st[w])
        /\ UNCHANGED budget
     \/ /\ ~pool \/ (~seen[w].labeled /\ node.status = "None")
        /\ Return(w)
        /\ UNCHANGED <<nodeVars, budget>>
     \/ Spend("error") /\ Return(w) /\ UNCHANGED nodeVars
  /\ UNCHANGED <<claimVars, proxmoxVars, pool, calls>>

\* Mutant: the attempts are not counted anew.
SaveRegisteredKeepsAttempts(w) ==
  LET new == [Latest(w) EXCEPT !.nodeName = TRUE, !.failed = FALSE,
                               !.registered = "True"] IN
  /\ pc[w] = "labelled"
  /\ \/ /\ StatusUpdated(w, new)
        /\ calls' = 0
        /\ Goto(w, "init", new)
        /\ UNCHANGED budget
     \/ StatusReplyLost(w, new) /\ calls' = 0 /\ Return(w)
     \/ StatusRefused /\ Return(w) /\ UNCHANGED calls
  /\ UNCHANGED <<nodeVars, proxmoxVars, pool>>

SaveRegistered(w) ==
  LET new == [Latest(w) EXCEPT !.nodeName = TRUE, !.attempts = 0,
                               !.failed = FALSE, !.registered = "True"] IN
  /\ pc[w] = "labelled"
  /\ \/ /\ StatusUpdated(w, new)
        /\ calls' = 0
        /\ Goto(w, "init", new)
        /\ UNCHANGED budget
     \/ StatusReplyLost(w, new) /\ calls' = 0 /\ Return(w)
     \/ StatusRefused /\ Return(w) /\ UNCHANGED calls
  /\ UNCHANGED <<nodeVars, proxmoxVars, pool>>

AwaitNode(w) ==
  /\ pc[w] = "register"
  /\ ~NodeRegistered(w)
  /\ Return(w)
  /\ UNCHANGED <<claimVars, nodeVars, proxmoxVars, pool, calls, budget>>

\* registrationTimeout has passed since Launched last changed.
RegistrationTimeout(w) ==
  /\ pc[w] = "register"
  /\ ~NodeRegistered(w)
  /\ st[w].launched # "Unset"
  /\ Deprovision(st[w].nodeName)
  /\ Goto(w, "timeout", st[w])
  /\ UNCHANGED <<claimVars, nodeVars, pool, calls>>

\* Mutant: the claim is given up one attempt too early.
SaveTimeoutTooEarly(w) ==
  LET new == [Latest(w) EXCEPT !.providerID = FALSE, !.registered = "False",
                               !.launched = "False",
                               !.failed = st[w].attempts + 1 >= MaxLaunchAttempts]
  IN
  /\ pc[w] = "timeout"
  /\ StatusTried(w, new)
  /\ Return(w)
  /\ UNCHANGED <<nodeVars, proxmoxVars, pool, calls>>

\* Mutant: the providerID is not cleared, so that nothing is launched again.
SaveTimeoutKeepsMachine(w) ==
  LET new == [Latest(w) EXCEPT !.registered = "False", !.launched = "False",
                               !.failed = @ \/ st[w].attempts >= MaxLaunchAttempts]
  IN
  /\ pc[w] = "timeout"
  /\ StatusTried(w, new)
  /\ Return(w)
  /\ UNCHANGED <<nodeVars, proxmoxVars, pool, calls>>

\* attempts is the reconcile's copy, counted as one when it is zero.
SaveTimeout(w) ==
  LET attempts == IF st[w].attempts = 0 THEN 1 ELSE st[w].attempts
      new == [Latest(w) EXCEPT !.providerID = FALSE, !.registered = "False",
                               !.launched = "False",
                               !.failed = @ \/ attempts >= MaxLaunchAttempts]
  IN
  /\ pc[w] = "timeout"
  /\ StatusTried(w, new)
  /\ Return(w)
  /\ UNCHANGED <<nodeVars, proxmoxVars, pool, calls>>

-----------------------------------------------------------------------------
(* reconcileInitialization and recycleUnhealthyNode *)

SaveReady(w) ==
  LET new == [Latest(w) EXCEPT !.ready = "True"] IN
  /\ pc[w] = "init"
  /\ seen[w].status = "Ready"
  /\ StatusTried(w, new)
  /\ Return(w)
  /\ UNCHANGED <<nodeVars, proxmoxVars, pool, calls>>

AwaitReady(w) ==
  /\ pc[w] = "init"
  /\ seen[w].status = "NotReady"
  /\ Return(w)
  /\ UNCHANGED <<claimVars, nodeVars, proxmoxVars, pool, calls, budget>>

\* The Node has been NotReady for readinessDegradeTimeout, and is deleted.
RecycleStuckNode(w) ==
  /\ pc[w] = "init"
  /\ seen[w].status = "NotReady"
  /\ \/ DeleteNode /\ Goto(w, "recycle", st[w]) /\ UNCHANGED budget
     \/ Spend("error") /\ Return(w) /\ UNCHANGED nodeVars
  /\ UNCHANGED <<claimVars, proxmoxVars, pool, calls>>

RecycleLostNode(w) ==
  /\ pc[w] = "init"
  /\ seen[w].status = "None"
  /\ Goto(w, "recycle", st[w])
  /\ UNCHANGED <<claimVars, nodeVars, proxmoxVars, pool, calls, budget>>

RecycleMachine(w) ==
  /\ pc[w] = "recycle"
  /\ IF st[w].providerID THEN Deprovision(st[w].nodeName)
     ELSE UNCHANGED <<proxmoxVars, budget>>
  /\ Goto(w, "saveRecycle", st[w])
  /\ UNCHANGED <<claimVars, nodeVars, pool, calls>>

\* Mutant: the recycled claim keeps the name of its lost Node.
SaveRecycleKeepsNode(w) ==
  LET attempts == st[w].attempts + 1
      new == [Latest(w) EXCEPT !.providerID = FALSE, !.attempts = attempts,
                               !.launched = "False", !.registered = "False",
                               !.ready = "False",
                               !.failed = attempts >= MaxLaunchAttempts]
  IN
  /\ pc[w] = "saveRecycle"
  /\ StatusTried(w, new)
  /\ Return(w)
  /\ UNCHANGED <<nodeVars, proxmoxVars, pool, calls>>

SaveRecycle(w) ==
  LET attempts == st[w].attempts + 1
      new == [Latest(w) EXCEPT !.providerID = FALSE, !.nodeName = FALSE,
                               !.attempts = attempts, !.launched = "False",
                               !.registered = "False", !.ready = "False",
                               !.failed = attempts >= MaxLaunchAttempts]
  IN
  /\ pc[w] = "saveRecycle"
  /\ StatusTried(w, new)
  /\ Return(w)
  /\ UNCHANGED <<nodeVars, proxmoxVars, pool, calls>>

-----------------------------------------------------------------------------
(* finalize *)

\* Mutant: finalize waits for the Node to go without deleting it.
FinalizeNodeWaits(w) ==
  /\ pc[w] = "finalize"
  /\ IF st[w].nodeName /\ seen[w].status # "None"
     THEN Return(w)
     ELSE Goto(w, "deprovision", st[w])
  /\ UNCHANGED <<claimVars, nodeVars, proxmoxVars, pool, calls, budget>>

\* Delete the Node and come back until the cache no longer holds it.
FinalizeNode(w) ==
  /\ pc[w] = "finalize"
  /\ IF st[w].nodeName /\ seen[w].status # "None"
     THEN /\ \/ DeleteNode /\ UNCHANGED budget
             \/ Spend("error") /\ UNCHANGED nodeVars
          /\ Return(w)
     ELSE Goto(w, "deprovision", st[w]) /\ UNCHANGED <<nodeVars, budget>>
  /\ UNCHANGED <<claimVars, proxmoxVars, pool, calls>>

FinalizeMachine(w) ==
  /\ pc[w] = "deprovision"
  /\ IF st[w].providerID THEN Deprovision(st[w].nodeName)
     ELSE UNCHANGED <<proxmoxVars, budget>>
  /\ Goto(w, "removeFinalizer", st[w])
  /\ UNCHANGED <<claimVars, nodeVars, pool, calls>>

\* Mutant: the finalizer is removed by a patch, which carries no
\* resourceVersion and cannot conflict.
RemoveFinalizerByPatch(w) ==
  /\ pc[w] = "removeFinalizer"
  /\ \/ /\ meta.exists
        /\ WriteClaim([meta EXCEPT !.exists = FALSE, !.finalizer = FALSE], status)
        /\ UNCHANGED budget
     \/ ~meta.exists /\ UNCHANGED <<claimVars, budget>>
     \/ Spend("error") /\ UNCHANGED claimVars
  /\ Return(w)
  /\ UNCHANGED <<nodeVars, proxmoxVars, pool, calls>>

\* r.Update without the finalizer: the API server drops the claim, unless
\* the claim changed since it was read.
RemoveFinalizer(w) ==
  /\ pc[w] = "removeFinalizer"
  /\ \/ /\ rv[w] /\ meta.exists
        /\ WriteClaim([meta EXCEPT !.exists = FALSE, !.finalizer = FALSE], status)
        /\ UNCHANGED budget
     \/ ~(rv[w] /\ meta.exists) /\ UNCHANGED <<claimVars, budget>>
     \/ Spend("error") /\ UNCHANGED claimVars
  /\ Return(w)
  /\ UNCHANGED <<nodeVars, proxmoxVars, pool, calls>>

-----------------------------------------------------------------------------
(* The cluster around the controller *)

\* An informer catches up.
SyncClaim(w) ==
  /\ ~fresh[w]
  /\ cache' = [cache EXCEPT ![w] = [meta |-> meta, status |-> status]]
  /\ fresh' = [fresh EXCEPT ![w] = TRUE]
  /\ UNCHANGED <<meta, status, rv, nodeVars, proxmoxVars, pc, st, pool, calls,
                 budget>>

SyncNode(w) ==
  /\ seen[w] # node
  /\ seen' = [seen EXCEPT ![w] = node]
  /\ UNCHANGED <<claimVars, node, proxmoxVars, pc, st, pool, calls, budget>>

\* The process dies and is restarted: it lists its caches anew.
Crash(w) ==
  /\ Spend("crash")
  /\ Return(w)
  /\ cache' = [cache EXCEPT ![w] = [meta |-> meta, status |-> status]]
  /\ fresh' = [fresh EXCEPT ![w] = TRUE]
  /\ seen' = [seen EXCEPT ![w] = node]
  /\ UNCHANGED <<meta, status, rv, node, proxmoxVars, pool, calls>>

\* A user, the pool controller's scale down or the garbage collector deletes
\* the claim: without a finalizer it is gone at once.
DeleteClaim ==
  /\ meta.exists /\ ~meta.deleting
  /\ WriteClaim([meta EXCEPT !.deleting = TRUE, !.exists = meta.finalizer],
                status)
  /\ UNCHANGED <<nodeVars, proxmoxVars, pc, st, pool, calls, budget>>

\* The pool controller drops its finalizer once the claims are being deleted.
PoolRemoved ==
  /\ pool /\ meta.deleting
  /\ pool' = FALSE
  /\ UNCHANGED <<claimVars, nodeVars, proxmoxVars, pc, st, calls, budget>>

\* The kubelet of a running VM registers the Node, whenever it gets to it.
NodeJoins ==
  /\ node.status = "None"
  /\ running # {}
  /\ Spend("join")
  /\ WriteNode([NoNode EXCEPT !.status = "NotReady"])
  /\ UNCHANGED <<claimVars, proxmoxVars, pc, st, pool, calls>>

NodeBecomesReady ==
  /\ node.status = "NotReady"
  /\ running # {}
  /\ WriteNode([node EXCEPT !.status = "Ready"])
  /\ UNCHANGED <<claimVars, proxmoxVars, pc, st, pool, calls, budget>>

\* The Node goes NotReady: its VM is down, or something disrupts it.
NodeDegrades ==
  /\ node.status = "Ready"
  /\ \/ running = {} /\ UNCHANGED budget
     \/ Spend("disruption")
  /\ WriteNode([node EXCEPT !.status = "NotReady"])
  /\ UNCHANGED <<claimVars, proxmoxVars, pc, st, pool, calls>>

\* Somebody else deletes the Node object.
NodeLost ==
  /\ node.status # "None"
  /\ Spend("disruption")
  /\ WriteNode(NoNode)
  /\ UNCHANGED <<claimVars, proxmoxVars, pc, st, pool, calls>>

\* The API server finishes the deletion of the Node.
NodeRemoved ==
  /\ node.deleting
  /\ WriteNode(NoNode)
  /\ UNCHANGED <<claimVars, proxmoxVars, pc, st, pool, calls, budget>>

-----------------------------------------------------------------------------
Step(w) ==
  \/ AddFinalizer(w)
  \/ ClearExpiredLease(w) \/ AcquireLease(w)
  \/ FailLaunch(w) \/ AwaitOldNode(w) \/ ProviderUnavailable(w)
  \/ StartProvisioning(w) \/ FindExistingVM(w) \/ CreateNewVM(w)
  \/ SaveLaunchError(w) \/ SaveLaunched(w) \/ ReleaseLease(w)
  \/ LabelNode(w) \/ SaveRegistered(w) \/ AwaitNode(w)
  \/ RegistrationTimeout(w) \/ SaveTimeout(w)
  \/ SaveReady(w) \/ AwaitReady(w)
  \/ RecycleStuckNode(w) \/ RecycleLostNode(w)
  \/ RecycleMachine(w) \/ SaveRecycle(w)
  \/ FinalizeNode(w) \/ FinalizeMachine(w) \/ RemoveFinalizer(w)

Environment ==
  \/ DeleteClaim \/ PoolRemoved
  \/ NodeJoins \/ NodeBecomesReady \/ NodeDegrades \/ NodeLost \/ NodeRemoved

Next ==
  \/ \E w \in Workers : \/ Reconcile(w) \/ Step(w) \/ Heartbeat(w)
                        \/ SyncClaim(w) \/ SyncNode(w) \/ Crash(w)
  \/ Environment

Spec == Init /\ [][Next]_vars

(***************************************************************************)
(* Fairness.  A process runs its reconcile to the end, and the manager's   *)
(* SyncPeriod (30s) brings every claim back to it; informers catch up; the *)
(* API server finishes deletions.  The two timeouts are measured from a    *)
(* recorded time that a waiting reconcile does not move, so a wait that is *)
(* resumed for ever reaches them: strong fairness.  So is that of a step,  *)
(* which heartbeats minutes apart do not keep in conflict for ever.        *)
(* Nothing is assumed of kubelets, users, crashes and failed requests.     *)
(***************************************************************************)
Fairness ==
  /\ \A w \in Workers :
       /\ WF_vars(Reconcile(w))
       /\ SF_vars(Step(w))
       /\ WF_vars(SyncClaim(w))
       /\ WF_vars(SyncNode(w))
       /\ SF_vars(RegistrationTimeout(w))
       /\ SF_vars(RecycleStuckNode(w))
  /\ WF_vars(NodeRemoved)

FairSpec == Spec /\ Fairness

-----------------------------------------------------------------------------
(* Properties *)

\* ProvisionMachine is idempotent in the machine's name: however launches
\* crash, fail half-way or are retried, a claim never owns two VMs.
AtMostOneMachine == \A a, b \in vms : a = b

\* No VM is created for a claim that the API server could drop without the
\* controller seeing it: Reconcile persists the finalizer before it goes on.
FinalizerBeforeProvisioning ==
  [][vms' \subseteq vms \/ (meta.exists /\ meta.finalizer)]_vars

\* Between two registrations ProvisionMachine is called at most
\* maxLaunchAttempts times, and once more for each crash or failed request
\* that kept LaunchAttempts from being persisted.
LaunchesBounded ==
  calls <= MaxLaunchAttempts + (MaxCrashes - budget.crash)
                             + (MaxErrors - budget.error)

\* Launch, Register, Initialize, Ready: no later phase is recorded of a
\* machine whose earlier phases are not.
LifecycleOrder ==
  /\ status.nodeName => status.providerID
  /\ status.ready = "True" => status.registered = "True"
  /\ status.registered = "True" => status.launched = "True"

\* The controller never takes back Failed, and has not given up on a claim
\* before its attempts were used up.
FailedIsFinal ==
  [][status.failed => /\ status'.failed
                      /\ status.attempts >= MaxLaunchAttempts]_vars

\* What finalize leaves behind: as long as no request failed, a VM outlives
\* its claim only if the pool was gone or the claim did not know the machine
\* (no providerID) or its Node (no nodeName) when the finalizer went.
OrphansExplained ==
  ~meta.exists /\ vms # {} /\ budget.error = MaxErrors =>
    \/ ~pool
    \/ ~status.providerID
    \/ ~status.nodeName

\* A claim whose deletion is asked for does go away.
DeletionCompletes == meta.deleting ~> ~meta.exists

\* A lease that a crashed worker or a failed release leaves behind does not
\* keep the claim from being launched for ever.
AbandonedLeaseRecovered ==
  status.lease # NoLease /\ ~status.providerID ~>
    \/ status.lease = NoLease
    \/ status.providerID
    \/ status.failed
    \/ meta.deleting

\* A claim settles: it is served, given up or deleted, unless a Node of its
\* name occupies the name while the claim has no machine recorded.
SettlesUnlessNameTaken ==
  meta.exists ~>
    \/ status.ready = "True"
    \/ status.failed
    \/ meta.deleting
    \/ node.status # "None" /\ ~status.providerID

\* How far the status says the claim is.
LifecyclePhase ==
  CASE ~meta.exists -> "gone"
    [] meta.exists /\ status.failed -> "failed"
    [] OTHER -> CASE status.ready = "True" -> "ready"
                  [] status.ready # "True" /\ status.nodeName -> "registered"
                  [] OTHER -> IF status.providerID THEN "launched" ELSE "pending"

Lifecycle == INSTANCE ClaimLifecycle WITH
  MaxAttempts <- MaxLaunchAttempts, phase <- LifecyclePhase,
  attempts <- status.attempts, deleting <- meta.deleting

\* With caches that do not lag, the steps of the controller, whatever crashes and
\* fails in between, show as a run of the lifecycle: no write skips a phase,
\* launches once too often or takes back what was given up.
ImplementsLifecycle == Lifecycle!LifecycleSpec

-----------------------------------------------------------------------------
(* What comments and API documentation say, and the code does not do *)

\* "Finalizer for NodeSmithClaim to ensure proper cleanup of cloud resources":
\* a claim that is gone has left no VM behind.
FinalizerCleansUp == ~meta.exists => vms = {}
=============================================================================
