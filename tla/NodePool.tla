------------------------------ MODULE NodePool ------------------------------
(***************************************************************************)
(* The NodeSmithPool controller (internal/controller/nodepool_controller.go *)
(* and claims.go, with the queries of internal/kube) deciding about one    *)
(* pool: its finalizer, scale-up, scale-down and teardown.                 *)
(*                                                                         *)
(* The pods are of one size.  The controller sizes a claim by the largest  *)
(* pod it has to place, so a node holds one pod, and first fit over the    *)
(* buckets is a difference of counts.  Claims are named by their sequence  *)
(* number, as are the Nodes that join for them.                            *)
(*                                                                         *)
(* A reconcile reads pods and nodes from the API server and claims and the *)
(* pool from informer caches, at different times: each read is a step.     *)
(* What the claim controller, the scheduler and the users do in between is *)
(* the environment, an abstraction of module NodeClaim.                    *)
(***************************************************************************)
EXTENDS Naturals, FiniteSets, FiniteSetsExt

CONSTANTS
  Pods,           \* pods that may have to be scheduled
  OtherPods,      \* those of them that do not target the pool
  MaxClaims,      \* bound on the claim sequence
  MinNodes,       \* limits.minNodes
  MaxNodes,       \* limits.maxNodes, 0 for no limit
  CapacityLimit,  \* limits.cpuCores / memoryMiB in nodes, 0 for no limit
  StaleReads,     \* whether the informer caches may lag behind
  MaxAborts,      \* bound on reconciles cut off by an error or a crash
  MaxListErrors,  \* bound on failed node lists, which do not end a reconcile
  MaxAged,        \* bound on claims that grow older than 15 minutes
  MaxLost,        \* bound on nodes lost from outside
  MaxFailed,      \* bound on claims that end up Failed
  MaxArrivals     \* bound on arrivals of pods

ASSUME NodePoolAssumption ==
  /\ {MaxClaims, MinNodes, MaxNodes, CapacityLimit} \subseteq Nat
  /\ {MaxAborts, MaxListErrors, MaxAged, MaxLost, MaxFailed, MaxArrivals}
       \subseteq Nat
  /\ StaleReads \in BOOLEAN
  /\ IsFiniteSet(Pods) /\ OtherPods \subseteq Pods

VARIABLES
  pool,      \* the NodeSmithPool on the API server
  poolRead,  \* the pool in the informer cache
  poolFresh, \* poolRead is the current version
  claims,    \* the NodeSmithClaims on the API server
  listed,    \* the claims in the informer cache
  nodes,     \* the Nodes that carry the pool's label
  present,   \* the pods that exist
  place,     \* the node each pod runs on, 0 for none
  leaked,    \* machines left running when their claim went
  pc,        \* where the reconcile of the pool stands
  run,       \* the reconcile's local variables
  budget     \* what remains of the bounds

poolVars  == <<pool, poolRead, poolFresh>>
claimVars == <<claims, listed>>
podVars   == <<nodes, present, place, leaked>>
vars == <<poolVars, claimVars, podVars, pc, run, budget>>

Names == 1..MaxClaims

Phases == {"none", "pending", "registered", "ready", "failed"}
Claim == [phase : Phases, deleting : BOOLEAN, old : BOOLEAN]
NoClaim == [phase |-> "none", deleting |-> FALSE, old |-> FALSE]

\* seq is status.nextClaimSequence; full says that the Available condition is
\* False for MaxNodesReached or ResourceLimitReached; recent says that
\* lastScaleActivity is within the scale-down stabilization window.
Pool == [exists : BOOLEAN, finalizer : BOOLEAN, deleting : BOOLEAN,
         seq : Nat, full : BOOLEAN, recent : BOOLEAN]

\* seq and recent are the reconcile's copy of the pool's status, and fresh says
\* that the resourceVersion it read is current.  A field is reset once nothing
\* reads it any more.
Run == [pods : SUBSET Pods, nodes : SUBSET Names, seq : Nat, create : Nat,
        recent : BOOLEAN, fresh : BOOLEAN, delete : SUBSET Names,
        wait : BOOLEAN]

PC == {"idle", "addFinalizer", "pods", "nodes", "refresh", "choose", "plan",
       "blocked", "create", "saveUp", "candidates", "remove",
       "saveDown", "finalize", "delete", "removeFinalizer"}

Bounds == {"abort", "listError", "aged", "lost", "failed", "arrival"}

\* Every variable has its type, and pods run on nodes of the pool.
TypeOK ==
  /\ pool \in Pool /\ poolRead \in Pool /\ poolFresh \in BOOLEAN
  /\ claims \in [Names -> Claim] /\ listed \in [Names -> Claim]
  /\ nodes \subseteq Names
  /\ present \subseteq Pods
  /\ place \in [Pods -> {0} \cup nodes]
  /\ leaked \subseteq Names
  /\ pc \in PC
  /\ run \in Run
  /\ budget \in [Bounds -> Nat]

NewPool == [exists |-> TRUE, finalizer |-> FALSE, deleting |-> FALSE,
            seq |-> 0, full |-> FALSE, recent |-> FALSE]

NoRun == [pods |-> {}, nodes |-> {}, seq |-> 0, create |-> 0,
          recent |-> FALSE, fresh |-> FALSE, delete |-> {}, wait |-> FALSE]

Init ==
  /\ pool = NewPool /\ poolRead = NewPool /\ poolFresh = TRUE
  /\ claims = [i \in Names |-> NoClaim]
  /\ listed = claims
  /\ nodes = {}
  /\ present = {}
  /\ place = [p \in Pods |-> 0]
  /\ leaked = {}
  /\ pc = "idle"
  /\ run = NoRun
  /\ budget = [abort |-> MaxAborts, listError |-> MaxListErrors,
               aged |-> MaxAged, lost |-> MaxLost, failed |-> MaxFailed,
               arrival |-> MaxArrivals]

-----------------------------------------------------------------------------
(* Requests *)

Spend(bound) ==
  /\ budget[bound] > 0
  /\ budget' = [budget EXCEPT ![bound] = @ - 1]

Goto(where, r) == pc' = where /\ run' = r

Return == Goto("idle", NoRun)

WritePool(p) ==
  /\ pool' = p
  /\ poolFresh' = ~StaleReads
  /\ poolRead' = IF StaleReads THEN poolRead ELSE p

\* updateStatus: the mutated copy of the cached pool is written unless it is
\* equal; a conflict is retried until the cache is current.
PoolUpdated(new) ==
  IF new = poolRead THEN poolRead.exists /\ UNCHANGED poolVars
  ELSE poolFresh /\ pool.exists /\ WritePool(new)

WriteClaims(c) ==
  /\ claims' = c
  /\ listed' = IF StaleReads THEN listed ELSE c

Unschedulable == {p \in present : place[p] = 0}

Idle(i) == i \in nodes /\ \A p \in Pods : place[p] # i

-----------------------------------------------------------------------------
(* Sizes, as the code counts them *)

\* countInflightClaims: neither deleted, nor Ready, nor older than 15 minutes.
Inflight(c) ==
  {i \in Names : /\ c[i].phase \in {"pending", "registered", "failed"}
                 /\ ~c[i].deleting
                 /\ ~c[i].old}

\* Mutant: Ready claims are not skipped.
PendingBucketsWithReady(c) == {i \in Names : c[i].phase # "none"}

\* buildPendingClaimBuckets: whatever is not Ready counts as room for a pod.
PendingBuckets(c) == {i \in Names : c[i].phase \in {"pending", "registered", "failed"}}

\* buildNodeBuckets: nodes of the first list, with the pods they have now.
NodeBuckets(ns) == {i \in ns : \A p \in Pods : place[p] # i}

\* planCapacity for pods of one size: one claim for each that finds no room.
PlannedClaims(pods, ns, c) ==
  LET room == Cardinality(NodeBuckets(ns)) + Cardinality(PendingBuckets(c))
      need == Cardinality(pods)
  IN  IF need > room THEN need - room ELSE 0

\* Mutant: exceedsPoolLimits takes the nodes of the first list.
ExceedsLimitsByFirstList(ns, c, new) ==
  LET pending == Cardinality(Inflight(c)) IN
  \/ MaxNodes > 0 /\ Cardinality(ns) + pending + new > MaxNodes
  \/ CapacityLimit > 0 /\ Cardinality(ns) + pending + new > CapacityLimit

\* The MaxNodes check of reconcileScaleUp and the one of exceedsPoolLimits:
\* the first counts the nodes of the first list, the second lists them anew.
ExceedsLimits(ns, c, new) ==
  LET pending == Cardinality(Inflight(c)) IN
  \/ MaxNodes > 0 /\ Cardinality(ns) + pending + new > MaxNodes
  \/ CapacityLimit > 0 /\ Cardinality(nodes) + pending + new > CapacityLimit

\* refreshPoolStatus: Available is False from MaxNodes on, and above a limit.
AtLimit(c) ==
  LET size == Cardinality(nodes) + Cardinality(Inflight(c)) IN
  \/ MaxNodes > 0 /\ size >= MaxNodes
  \/ CapacityLimit > 0 /\ size > CapacityLimit

-----------------------------------------------------------------------------
(* Reconcile *)

Reconcile ==
  /\ pc = "idle"
  /\ poolRead.exists
  /\ poolRead.deleting => poolRead.finalizer
  /\ \/ /\ poolRead.deleting
        /\ Goto("finalize", [NoRun EXCEPT !.fresh = poolFresh])
     \/ /\ ~poolRead.deleting /\ ~poolRead.finalizer
        /\ Goto("addFinalizer", [NoRun EXCEPT !.fresh = poolFresh])
     \/ /\ ~poolRead.deleting /\ poolRead.finalizer
        /\ Goto("pods", [NoRun EXCEPT !.seq = poolRead.seq,
                                      !.recent = poolRead.recent])
  /\ UNCHANGED <<poolVars, claimVars, podVars, budget>>

AddFinalizer ==
  /\ pc = "addFinalizer"
  /\ \/ run.fresh /\ pool.exists /\ WritePool([pool EXCEPT !.finalizer = TRUE])
     \/ ~(run.fresh /\ pool.exists) /\ UNCHANGED poolVars
  /\ Return
  /\ UNCHANGED <<claimVars, podVars, budget>>

ListPods ==
  /\ pc = "pods"
  /\ Goto("nodes", [run EXCEPT !.pods = Unschedulable])
  /\ UNCHANGED <<poolVars, claimVars, podVars, budget>>

\* An error of the list is logged and the reconcile goes on with no nodes.
ListNodes ==
  /\ pc = "nodes"
  /\ \/ Goto("refresh", [run EXCEPT !.nodes = nodes]) /\ UNCHANGED budget
     \/ Goto("refresh", run) /\ Spend("listError")
  /\ UNCHANGED <<poolVars, claimVars, podVars>>

\* refreshPoolStatus, which leaves the status it wrote (or read) in the
\* reconcile's copy, or logs that it could not.
RefreshStatus ==
  LET new == [poolRead EXCEPT !.full = AtLimit(listed)] IN
  /\ pc = "refresh"
  /\ \/ /\ PoolUpdated(new)
        /\ Goto("choose", [run EXCEPT !.seq = new.seq, !.recent = new.recent])
        /\ UNCHANGED budget
     \/ Spend("abort") /\ Goto("choose", run) /\ UNCHANGED poolVars
  /\ UNCHANGED <<claimVars, podVars>>

\* Mutant: off by one above minNodes.
ChooseAboveOne ==
  /\ pc = "choose"
  /\ \/ run.pods # {} /\ Goto("plan", [run EXCEPT !.recent = FALSE])
     \/ /\ run.pods = {} /\ Cardinality(run.nodes) > MinNodes + 1
        /\ Goto("candidates", [NoRun EXCEPT !.recent = run.recent])
     \/ run.pods = {} /\ Cardinality(run.nodes) <= MinNodes + 1 /\ Return
  /\ UNCHANGED <<poolVars, claimVars, podVars, budget>>

\* Grow for unschedulable pods; without any, shrink above minNodes.
Choose ==
  /\ pc = "choose"
  /\ \/ run.pods # {} /\ Goto("plan", [run EXCEPT !.recent = FALSE])
     \/ /\ run.pods = {} /\ Cardinality(run.nodes) > MinNodes
        /\ Goto("candidates", [NoRun EXCEPT !.recent = run.recent])
     \/ run.pods = {} /\ Cardinality(run.nodes) <= MinNodes /\ Return
  /\ UNCHANGED <<poolVars, claimVars, podVars, budget>>

-----------------------------------------------------------------------------
(* reconcileScaleUp *)

\* Mutant: the saved sequence is taken for the last name in use.
FirstSequenceOffByOne == IF run.seq = 0 THEN 1 ELSE run.seq - 1

FirstSequence == IF run.seq = 0 THEN 1 ELSE run.seq

\* filterPodsForPool, then the plan, from the pods and nodes read before and
\* the cached claims.  A plan beyond the bound MaxClaims is dropped.
Plan ==
  LET candidates == run.pods \ OtherPods
      new == PlannedClaims(candidates, run.nodes, listed) IN
  /\ pc = "plan"
  /\ \/ new = 0 /\ Return
     \/ new > 0 /\ FirstSequence + new - 1 > MaxClaims /\ Return
     \/ new > 0 /\ ExceedsLimits(run.nodes, listed, new) /\ Goto("blocked", NoRun)
     \/ /\ new > 0
        /\ ~ExceedsLimits(run.nodes, listed, new)
        /\ FirstSequence + new - 1 <= MaxClaims
        /\ Goto("create", [NoRun EXCEPT !.create = new, !.seq = FirstSequence])
  /\ UNCHANGED <<poolVars, claimVars, podVars, budget>>

\* ScaleUpBlocked: Available becomes False.
Blocked ==
  /\ pc = "blocked"
  /\ PoolUpdated([poolRead EXCEPT !.full = TRUE])
  /\ Return
  /\ UNCHANGED <<claimVars, podVars, budget>>

\* Mutant: the loop runs once more than there are claims to create.
EnsureClaimOnceMore ==
  /\ pc = "create"
  /\ IF listed[run.seq].phase = "none" /\ claims[run.seq].phase = "none"
     THEN WriteClaims([claims EXCEPT ![run.seq] =
                         [NoClaim EXCEPT !.phase = "pending"]])
     ELSE UNCHANGED claimVars
  /\ Goto(IF run.create = 0 THEN "saveUp" ELSE "create",
          [run EXCEPT !.seq = @ + 1, !.create = @ - 1])
  /\ UNCHANGED <<poolVars, podVars, budget>>

\* ensureClaim: a claim of the name, in the cache or on the API server, will
\* do.
EnsureClaim ==
  /\ pc = "create"
  /\ IF listed[run.seq].phase = "none" /\ claims[run.seq].phase = "none"
     THEN WriteClaims([claims EXCEPT ![run.seq] =
                         [NoClaim EXCEPT !.phase = "pending"]])
     ELSE UNCHANGED claimVars
  /\ Goto(IF run.create = 1 THEN "saveUp" ELSE "create",
          [run EXCEPT !.seq = @ + 1, !.create = @ - 1])
  /\ UNCHANGED <<poolVars, podVars, budget>>

\* Mutant: the number of claims created is saved in place of the sequence.
SaveScaleUpCount ==
  /\ pc = "saveUp"
  /\ PoolUpdated([poolRead EXCEPT
                    !.seq = run.seq - (IF @ = 0 THEN 1 ELSE @),
                    !.recent = TRUE])
  /\ Return
  /\ UNCHANGED <<claimVars, podVars, budget>>

SaveScaleUp ==
  /\ pc = "saveUp"
  /\ PoolUpdated([poolRead EXCEPT !.seq = run.seq, !.recent = TRUE])
  /\ Return
  /\ UNCHANGED <<claimVars, podVars, budget>>

-----------------------------------------------------------------------------
(* reconcileScaleDown *)

\* GetScaleDownCandidates and the stabilization window.
Candidates ==
  LET idle == {i \in nodes : Idle(i)} IN
  /\ pc = "candidates"
  /\ \/ (idle = {} \/ run.recent) /\ Return
     \/ idle # {} /\ ~run.recent /\ Goto("remove", [NoRun EXCEPT !.delete = idle])
  /\ UNCHANGED <<poolVars, claimVars, podVars, budget>>

\* The first candidate, in the order of the names, that a cached claim names
\* as its node: the claim is deleted.
RemoveClaim ==
  LET owned == {i \in run.delete : listed[i].phase \in {"registered", "ready"}}
  IN
  /\ pc = "remove"
  /\ \/ owned = {} /\ Return /\ UNCHANGED claimVars
     \/ /\ owned # {}
        /\ claims[Min(owned)].phase # "none"
        /\ WriteClaims([claims EXCEPT ![Min(owned)].deleting = TRUE])
        /\ Goto("saveDown", NoRun)
     \/ /\ owned # {}
        /\ claims[Min(owned)].phase = "none"
        /\ Return /\ UNCHANGED claimVars
  /\ UNCHANGED <<poolVars, podVars, budget>>

SaveScaleDown ==
  /\ pc = "saveDown"
  /\ PoolUpdated([poolRead EXCEPT !.recent = TRUE])
  /\ Return
  /\ UNCHANGED <<claimVars, podVars, budget>>

-----------------------------------------------------------------------------
(* finalizePool *)

\* Mutant: claims without a node are not deleted.
ListForFinalizeWithNode ==
  /\ pc = "finalize"
  /\ Goto("delete",
          [run EXCEPT
             !.delete = {i \in Names : /\ listed[i].phase \in {"registered", "ready"}
                                       /\ ~listed[i].deleting},
             !.wait = \E i \in Names : listed[i].phase # "none"
                                       /\ listed[i].deleting])
  /\ UNCHANGED <<poolVars, claimVars, podVars, budget>>

\* wait says that claimsRemaining is positive: claims that were being deleted
\* when they were listed.
ListForFinalize ==
  /\ pc = "finalize"
  /\ Goto("delete",
          [run EXCEPT
             !.delete = {i \in Names : listed[i].phase # "none"
                                       /\ ~listed[i].deleting},
             !.wait = \E i \in Names : listed[i].phase # "none"
                                       /\ listed[i].deleting])
  /\ UNCHANGED <<poolVars, claimVars, podVars, budget>>

DeleteForFinalize ==
  /\ pc = "delete"
  /\ \/ \E i \in run.delete :
          /\ IF claims[i].phase = "none" THEN UNCHANGED claimVars
             ELSE WriteClaims([claims EXCEPT ![i].deleting = TRUE])
          /\ Goto("delete", [run EXCEPT !.delete = @ \ {i}])
     \/ /\ run.delete = {}
        /\ IF run.wait THEN Return ELSE Goto("removeFinalizer", run)
        /\ UNCHANGED claimVars
  /\ UNCHANGED <<poolVars, podVars, budget>>

\* Mutant: the finalizer is removed in memory and never saved.
RemovePoolFinalizerInMemory ==
  /\ pc = "removeFinalizer"
  /\ Return
  /\ UNCHANGED <<poolVars, claimVars, podVars, budget>>

RemovePoolFinalizer ==
  /\ pc = "removeFinalizer"
  /\ \/ /\ run.fresh /\ pool.exists
        /\ WritePool([pool EXCEPT !.exists = FALSE, !.finalizer = FALSE])
     \/ ~(run.fresh /\ pool.exists) /\ UNCHANGED poolVars
  /\ Return
  /\ UNCHANGED <<claimVars, podVars, budget>>

\* A request fails and the reconcile returns its error, or the process dies.
Abort ==
  /\ pc # "idle"
  /\ Spend("abort")
  /\ Return
  /\ UNCHANGED <<poolVars, claimVars, podVars>>

SyncPool ==
  /\ ~poolFresh
  /\ poolRead' = pool /\ poolFresh' = TRUE
  /\ UNCHANGED <<pool, claimVars, podVars, pc, run, budget>>

SyncClaims ==
  /\ listed # claims
  /\ listed' = claims
  /\ UNCHANGED <<poolVars, claims, podVars, pc, run, budget>>
-----------------------------------------------------------------------------
(* The claim controller (see NodeClaim), the scheduler and the users *)

SetPhase(i, phase) == WriteClaims([claims EXCEPT ![i].phase = phase])

\* The machine of claim i joins: its Node is labelled and the claim names it.
NodeRegisters(i) ==
  /\ claims[i].phase = "pending" /\ ~claims[i].deleting
  /\ SetPhase(i, "registered")
  /\ nodes' = nodes \cup {i}
  /\ UNCHANGED <<poolVars, present, place, leaked, pc, run, budget>>

ClaimReady(i) ==
  /\ claims[i].phase = "registered" /\ ~claims[i].deleting
  /\ i \in nodes
  /\ SetPhase(i, "ready")
  /\ UNCHANGED <<poolVars, podVars, pc, run, budget>>

ClaimFails(i) ==
  /\ claims[i].phase = "pending" /\ ~claims[i].deleting
  /\ Spend("failed")
  /\ SetPhase(i, "failed")
  /\ UNCHANGED <<poolVars, podVars, pc, run>>

\* A claim that is not Ready is 15 minutes old.
ClaimAges(i) ==
  /\ i \in Inflight(claims)
  /\ Spend("aged")
  /\ WriteClaims([claims EXCEPT ![i].old = TRUE])
  /\ UNCHANGED <<poolVars, podVars, pc, run>>

\* Pods on a Node that goes are created anew by their controllers.
DropNode(i) ==
  /\ nodes' = nodes \ {i}
  /\ place' = [p \in Pods |-> IF place[p] = i THEN 0 ELSE place[p]]
  /\ UNCHANGED <<present, leaked>>

NodeLost(i) ==
  /\ i \in nodes
  /\ Spend("lost")
  /\ DropNode(i)
  /\ UNCHANGED <<poolVars, claimVars, pc, run>>

ClaimRecycled(i) ==
  /\ claims[i].phase \in {"registered", "ready"} /\ ~claims[i].deleting
  /\ i \notin nodes
  /\ SetPhase(i, "pending")
  /\ UNCHANGED <<poolVars, podVars, pc, run, budget>>

\* finalize of a claim: the Node is deleted, then the machine and the claim go.
\* A claim that no longer finds its pool goes without its machine.
ClaimFinalizesNode(i) ==
  /\ claims[i].deleting /\ i \in nodes
  /\ DropNode(i)
  /\ UNCHANGED <<poolVars, claimVars, pc, run, budget>>

ClaimFinalized(i) ==
  /\ claims[i].deleting /\ i \notin nodes
  /\ WriteClaims([claims EXCEPT ![i] = NoClaim])
  /\ leaked' = IF claims[i].phase \in {"registered", "ready"} /\ ~poolRead.exists
               THEN leaked \cup {i} ELSE leaked
  /\ UNCHANGED <<poolVars, nodes, present, place, pc, run, budget>>

\* The claims carry an owner reference to the pool (SetControllerReference).
ClaimCollected(i) ==
  /\ ~pool.exists
  /\ claims[i].phase # "none" /\ ~claims[i].deleting
  /\ WriteClaims([claims EXCEPT ![i].deleting = TRUE])
  /\ UNCHANGED <<poolVars, podVars, pc, run, budget>>

PodArrives(p) ==
  /\ p \notin present
  /\ Spend("arrival")
  /\ present' = present \cup {p}
  /\ UNCHANGED <<poolVars, claimVars, nodes, place, leaked, pc, run>>

\* The scheduler binds to any free node: none of them is cordoned.
PodScheduled(p) ==
  /\ p \in Unschedulable \ OtherPods
  /\ \E i \in nodes : Idle(i) /\ place' = [place EXCEPT ![p] = i]
  /\ UNCHANGED <<poolVars, claimVars, nodes, present, leaked, pc, run, budget>>

PodLeaves(p) ==
  /\ p \in present
  /\ present' = present \ {p}
  /\ place' = [place EXCEPT ![p] = 0]
  /\ UNCHANGED <<poolVars, claimVars, nodes, leaked, pc, run, budget>>

DeletePool ==
  /\ pool.exists /\ ~pool.deleting
  /\ WritePool([pool EXCEPT !.deleting = TRUE, !.exists = pool.finalizer])
  /\ run' = [run EXCEPT !.fresh = FALSE]
  /\ UNCHANGED <<claimVars, podVars, pc, budget>>

\* The stabilization window is over: time, not a write.
WindowPasses ==
  /\ pool.recent \/ poolRead.recent \/ run.recent
  /\ pool' = [pool EXCEPT !.recent = FALSE]
  /\ poolRead' = [poolRead EXCEPT !.recent = FALSE]
  /\ run' = [run EXCEPT !.recent = FALSE]
  /\ UNCHANGED <<poolFresh, claimVars, podVars, pc, budget>>

-----------------------------------------------------------------------------
Controller ==
  \/ AddFinalizer \/ ListPods \/ ListNodes \/ RefreshStatus \/ Choose
  \/ Plan \/ Blocked \/ EnsureClaim \/ SaveScaleUp
  \/ Candidates \/ RemoveClaim \/ SaveScaleDown
  \/ ListForFinalize \/ DeleteForFinalize \/ RemovePoolFinalizer
  \/ Abort

ClaimController(i) ==
  \/ NodeRegisters(i) \/ ClaimReady(i) \/ ClaimRecycled(i)
  \/ ClaimFinalizesNode(i) \/ ClaimFinalized(i) \/ ClaimCollected(i)

Next ==
  \/ Reconcile \/ Controller \/ SyncPool \/ SyncClaims
  \/ \E i \in Names : \/ ClaimController(i) \/ ClaimFails(i)
                      \/ ClaimAges(i) \/ NodeLost(i)
  \/ \E p \in Pods : PodArrives(p) \/ PodScheduled(p) \/ PodLeaves(p)
  \/ DeletePool \/ WindowPasses

Spec == Init /\ [][Next]_vars

(***************************************************************************)
(* Fairness.  Reconciles run to their end and the manager's SyncPeriod     *)
(* (30s) repeats them; caches catch up; the scheduler binds pods and the   *)
(* claim controller carries its claims on.  Pods need not come or leave,   *)
(* and nothing has to fail.                                                *)
(***************************************************************************)
Fairness ==
  /\ WF_vars(Reconcile) /\ WF_vars(Controller)
  /\ WF_vars(SyncPool) /\ WF_vars(SyncClaims) /\ WF_vars(WindowPasses)
  /\ \A i \in Names : WF_vars(ClaimController(i))
  /\ \A p \in Pods : SF_vars(PodScheduled(p))

FairSpec == Spec /\ Fairness

-----------------------------------------------------------------------------
(* Properties *)

\* The sequence never goes back: a name is not handed out twice.
SequenceGrows == [][pool'.seq >= pool.seq]_vars

\* When the pool goes, every claim it had is gone or being deleted: finalizePool
\* misses none, though it may be cut off anywhere and start over.
TeardownReachesAll ==
  ~pool.exists => \A i \in Names : claims[i].phase = "none" \/ claims[i].deleting

\* A claim is created under a name the saved sequence has not passed.
NamesAreNew ==
  [][\A i \in Names :
       claims[i].phase = "none" /\ claims'[i].phase # "none" => i >= pool.seq]_vars

\* The claims that the limits are about: neither being deleted nor overdue.
Live ==
  {i \in Names : /\ claims[i].phase # "none"
                 /\ ~claims[i].deleting
                 /\ ~claims[i].old}

FailedLists == MaxListErrors - budget.listError

LostNodes == MaxLost - budget.lost

\* maxNodes may be overshot, since reconcileScaleUp compares it with nodes that
\* were listed before the claims: a claim that becomes Ready in between is in
\* neither count.  But a later plan knows its node, so the overshoots do not add
\* up, and the pool stays within twice maxNodes.  Each failed list of nodes lets
\* one plan more through, and a lost node counts nowhere until it is recycled.
SizeBounded ==
  MaxNodes > 0 =>
    Cardinality(Live) <= (2 + FailedLists) * MaxNodes + LostNodes

\* The other limits are compared with nodes that are listed together with the
\* claims: no interleaving and no failed list lets a pool exceed them, but for
\* nodes that were lost.
CapacityKept ==
  CapacityLimit > 0 => Cardinality(Live) <= CapacityLimit + LostNodes

\* The model's bound on the sequence may keep a plan from being carried out.
SequenceSpent == pool.seq + Cardinality(Pods) > MaxClaims + 1

\* A pod of the pool that cannot be scheduled gets a node in the end, unless it
\* goes, the pool is deleted or its pods are more than maxNodes nodes can hold.
PodsServed ==
  \A p \in Pods \ OtherPods :
    p \in Unschedulable ~>
      \/ p \notin Unschedulable
      \/ pool.deleting \/ SequenceSpent
      \/ MaxNodes > 0 /\ Cardinality(present \ OtherPods) > MaxNodes

\* Once no pod is left for good, the pool shrinks to its minimum.
IdlePoolShrinks ==
  <>[](present = {} /\ ~pool.deleting) => <>[](Cardinality(nodes) <= MinNodes)

\* Deleting the pool removes it, and its claims with it.
TeardownCompletes ==
  pool.deleting ~> ~pool.exists /\ \A i \in Names : claims[i].phase = "none"

-----------------------------------------------------------------------------
(* What comments and documentation say, and the code does not do *)

\* "Handle deletion - ensure all claims are cleaned up before removing pool":
\* no machine stays behind because its claim no longer found the pool.
TeardownFreesMachines == leaked = {}
=============================================================================
