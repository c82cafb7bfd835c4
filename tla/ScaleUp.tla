------------------------------ MODULE ScaleUp -------------------------------
(***************************************************************************)
(* How reconcileScaleUp (internal/controller/nodepool_controller.go) sizes *)
(* claims: pods and nodes have CPU and memory, and the plan is a first fit *)
(* of the pods, largest CPU first, into what nodes and pending claims have *)
(* left.  Module NodePool has the interleavings of a reconcile with the    *)
(* rest of the cluster; here a reconcile is one step and the sizes count.  *)
(*                                                                         *)
(* CPU is measured in half cores and memory in half MiB, so that a request *)
(* need not be a whole number of cores or MiB while a claim's requirements *)
(* are.  Claims are numbered in the order of their names.                  *)
(***************************************************************************)
EXTENDS PodMatching

CONSTANTS
  PodSpecs,       \* what the pods that arrive may look like
  MaxPods,        \* number of pods, in the order in which they are listed
  MaxClaims,      \* bound on the claims; a plan beyond it is dropped
  MaxNodes,       \* limits.maxNodes, 0 for no limit
  Limit,          \* limits.cpuCores and limits.memoryMiB, 0 for no limit
  Reserve,        \* what the kubelet and DaemonSet pods take of a node
  MemOverhead,    \* vmMemOverheadMiB: memory a VM gets on top of its claim's
  MaxArrivals,    \* bound on arrivals of pods
  MaxAged,        \* bound on claims that are not Ready for over 15 minutes
  MaxListErrors   \* bound on failed node lists, which do not end a reconcile

Resources == [cpu : Nat, mem : Nat]

ASSUME ScaleUpAssumption ==
  /\ {MaxPods, MaxClaims, MaxNodes, MemOverhead, MaxArrivals, MaxAged,
      MaxListErrors} \subseteq Nat
  /\ {Limit, Reserve} \subseteq Resources
  /\ \A s \in PodSpecs : s.requests \in Resources

VARIABLES
  pods,       \* the pods: a PodSpec each, or NoPod
  place,      \* the node each pod runs on, 0 for none
  claims,     \* the pool's claims, each with its requirements and phase
  available,  \* reason of the pool's Available condition
  budget      \* what remains of the bounds

vars == <<pods, place, claims, available, budget>>

Pods == 1..MaxPods
NoPod == [requests |-> [cpu |-> 0, mem |-> 0], selector |-> <<>>,
          terms |-> <<>>, absent |-> TRUE]

Whole == {r \in Resources : r.cpu % 2 = 0 /\ r.mem % 2 = 0}

Claim == [size : Whole, phase : {"pending", "registered", "ready"}, aged : BOOLEAN]

\* Every variable has its type: claims ask for whole cores and MiB, and pods run
\* on nodes that have joined.
TypeOK ==
  /\ pods \in [Pods -> PodSpecs \cup {NoPod}]
  /\ claims \in Seq(Claim) /\ Len(claims) <= MaxClaims
  /\ place \in [Pods -> {0} \cup {i \in DOMAIN claims : claims[i].phase # "pending"}]
  /\ available \in {"Available", "MaxNodesReached", "ResourceLimitReached"}
  /\ budget \in [{"arrival", "aged", "listError"} -> Nat]

Init ==
  /\ pods = [p \in Pods |-> NoPod]
  /\ place = [p \in Pods |-> 0]
  /\ claims = <<>>
  /\ available = "Available"
  /\ budget = [arrival |-> MaxArrivals, aged |-> MaxAged,
               listError |-> MaxListErrors]

-----------------------------------------------------------------------------
(* Resources *)

Nothing == [cpu |-> 0, mem |-> 0]

Less(a, b) == IF a > b THEN a - b ELSE 0

Fits(r, room) == r.cpu <= room.cpu /\ r.mem <= room.mem

Plus(r, s) == [cpu |-> r.cpu + s.cpu, mem |-> r.mem + s.mem]

\* Differences are cut off at zero.
Minus(r, s) == [cpu |-> Less(r.cpu, s.cpu), mem |-> Less(r.mem, s.mem)]

\* Mutant: a claim has the size of the template even if its pod needs more.
OfTheTemplate(r, s) == r

Larger(r, s) == [cpu |-> Max({r.cpu, s.cpu}), mem |-> Max({r.mem, s.mem})]

\* The sum of the resources that a function has.
Total(size) ==
  [cpu |-> SumFunction([x \in DOMAIN size |-> size[x].cpu]),
   mem |-> SumFunction([x \in DOMAIN size |-> size[x].mem])]

\* Mutant: sizes are not rounded.
NotRounded(r) == r

\* Whole cores and MiB, rounded up.
RoundedUp(r) ==
  [cpu |-> 2 * ((r.cpu + 1) \div 2), mem |-> 2 * ((r.mem + 1) \div 2)]

-----------------------------------------------------------------------------
(* The cluster, as the code reads it *)

Nodes == {i \in DOMAIN claims : claims[i].phase # "pending"}
NotReady == {i \in DOMAIN claims : claims[i].phase # "ready"}

\* countInflightClaims passes over claims that are older than 15 minutes.
Inflight == {i \in NotReady : ~claims[i].aged}

\* The VM has the claim's cores and memory, and the configured memory overhead
\* (buildVirtualMachineOptions).
Capacity(i) == Plus(claims[i].size, [cpu |-> 0, mem |-> MemOverhead])

Allocatable(i) == Minus(Capacity(i), Reserve)

Room(i) ==
  Minus(Allocatable(i),
        Total([p \in {q \in Pods : place[q] = i} |-> pods[p].requests]))

Unschedulable == {p \in Pods : pods[p] # NoPod /\ place[p] = 0}

Candidates == {p \in Unschedulable : Targets(pods[p])}

-----------------------------------------------------------------------------
(* The plan *)

Sized(r) == r.cpu > 0 /\ r.mem > 0

\* determineNodeCapacity: the first node, else the first claim that
\* has requirements, else the largest requests.
NodeCapacity(nodes) ==
  IF nodes # {} THEN Allocatable(Min(nodes))
  ELSE IF \E i \in DOMAIN claims : Sized(claims[i].size)
       THEN claims[Min({i \in DOMAIN claims : Sized(claims[i].size)})].size
  ELSE [cpu |-> Max({0} \cup {pods[p].requests.cpu : p \in Candidates}),
        mem |-> Max({0} \cup {pods[p].requests.mem : p \in Candidates})]

TemplateKnown(nodes) == Sized(NodeCapacity(nodes))

\* Mutant: claims that are not Ready yet do not count as room.
OnlyNodeBuckets(nodes) ==
  [i \in DOMAIN claims |-> IF i \in nodes THEN Room(i) ELSE Nothing]

\* buildNodeBuckets and buildPendingClaimBuckets, in the order of the names: a
\* claim whose node has joined and is not Ready yet counts twice.  Instead of no
\* bucket there is an empty one, in which no pod that asks for something fits.
Buckets(nodes) ==
  [i \in DOMAIN claims |-> IF i \in nodes THEN Room(i) ELSE Nothing] \o
  [i \in DOMAIN claims |-> IF i \in NotReady THEN claims[i].size ELSE Nothing]

\* planCapacity's demands: pods that ask for nothing are left out.
Demands == {p \in Candidates : pods[p].requests # Nothing}

\* The stable sort of planCapacity: the largest CPU request comes first.
Before(p, q) ==
  LET cpu(r) == pods[r].requests.cpu IN
  cpu(p) > cpu(q) \/ (cpu(p) = cpu(q) /\ p <= q)

First(todo) == CHOOSE p \in todo : \A q \in todo : Before(p, q)

\* How far planCapacity is: the pods it has yet to place, what the buckets have
\* left, and the sizes of the claims to create.
Progress == [todo : SUBSET Pods, buckets : Seq(Resources), new : Seq(Resources)]

\* Mutant: a pod takes nothing of the bucket it is placed in.
PlaceForFree(plan, template) ==
  LET pod == First(plan.todo)
      request == pods[pod].requests
      size == Larger(template, request)
      left == plan.todo \ {pod}
  IN
  IF \E k \in DOMAIN plan.buckets : Fits(request, plan.buckets[k])
  THEN [plan EXCEPT !.todo = left]
  ELSE [todo |-> left, buckets |-> Append(plan.buckets, size),
        new |-> Append(plan.new, RoundedUp(size))]

\* A turn of planCapacity's loop: the next pod goes into the first bucket it fits,
\* or into a new one of the template's size, or larger if the pod is.
Place(plan, template) ==
  LET pod == First(plan.todo)
      request == pods[pod].requests
      fit == {k \in DOMAIN plan.buckets : Fits(request, plan.buckets[k])}
      size == Larger(template, request)
      left == plan.todo \ {pod}
  IN
  IF fit # {}
  THEN [plan EXCEPT !.todo = left, !.buckets[Min(fit)] = Minus(@, request)]
  ELSE [todo |-> left, buckets |-> Append(plan.buckets, Minus(size, request)),
        new |-> Append(plan.new, RoundedUp(size))]

\* planCapacity: what the loop comes to from any turn on.
Planned(template) ==
  LET result[plan \in Progress] ==
        IF plan.todo = {} THEN plan.new ELSE result[Place(plan, template)]
  IN  result

\* The sizes of the claims to create.  There are none without candidates or
\* without a size for a node.
Plan(nodes) ==
  IF Candidates # {} /\ TemplateKnown(nodes)
  THEN Planned(NodeCapacity(nodes))[[todo |-> Demands, buckets |-> Buckets(nodes),
                                     new |-> <<>>]]
  ELSE <<>>

\* GetPoolResourceUsage: it lists the pool's nodes anew.
TotalCapacity == Total([i \in Nodes |-> Capacity(i)])

\* Mutant: what pending claims ask for is left out of the sum.
ExceededByNodes(new) ==
  LET after == Plus(TotalCapacity, Total(new))
  IN
  \/ Limit.cpu > 0 /\ after.cpu > Limit.cpu
  \/ Limit.mem > 0 /\ after.mem > Limit.mem

\* exceedsPoolLimits, with the capacity of the nodes and what the claims that
\* are in flight ask for.
Exceeded(new) ==
  LET after == Plus(Plus(TotalCapacity,
                         Total([i \in Inflight |-> claims[i].size])),
                    Total(new))
  IN
  \/ Limit.cpu > 0 /\ after.cpu > Limit.cpu
  \/ Limit.mem > 0 /\ after.mem > Limit.mem

\* The check of maxNodes, with the nodes that were listed.
AboveMaxNodes(nodes, new) ==
  MaxNodes > 0 /\ Cardinality(nodes) + Cardinality(Inflight) + Len(new) > MaxNodes

\* refreshPoolStatus: one more node would be too many, or the limits are exceeded.
Refreshed ==
  IF AboveMaxNodes(Nodes, <<Nothing>>) THEN "MaxNodesReached"
  ELSE IF Exceeded(<<>>) THEN "ResourceLimitReached"
  ELSE "Available"

-----------------------------------------------------------------------------
(* Actions *)

\* Mutant: a plan that is beyond the limits is dropped without a word.
QuietlyBlocked(nodes, new) ==
  /\ new # <<>> /\ (AboveMaxNodes(nodes, new) \/ Exceeded(new))
  /\ available' = Refreshed
  /\ UNCHANGED claims

\* The plan is beyond the limits: nothing is created, and the condition says so.
Blocked(nodes, new) ==
  /\ new # <<>> /\ (AboveMaxNodes(nodes, new) \/ Exceeded(new))
  /\ available' = IF AboveMaxNodes(nodes, new) THEN "MaxNodesReached"
                  ELSE "ResourceLimitReached"
  /\ UNCHANGED claims

CreateClaims(nodes, new) ==
  /\ ~AboveMaxNodes(nodes, new) /\ ~Exceeded(new)
  /\ Len(claims) + Len(new) <= MaxClaims
  /\ claims' = claims \o [k \in DOMAIN new |-> [size |-> new[k], phase |-> "pending",
                                                aged |-> FALSE]]
  /\ available' = Refreshed

\* refreshPoolStatus and reconcileScaleUp with the nodes that were listed; an
\* empty plan creates nothing.
ScaleUpWith(nodes) ==
  /\ UNCHANGED <<pods, place>>
  /\ \E new \in {Plan(nodes)} :
       IF new = <<>> THEN available' = Refreshed /\ UNCHANGED claims
       ELSE Blocked(nodes, new) \/ CreateClaims(nodes, new)

Reconcile == UNCHANGED budget /\ ScaleUpWith(Nodes)

\* The list of nodes failed: the error is logged and the plan has none.
ReconcileWithoutNodes ==
  /\ budget.listError > 0
  /\ budget' = [budget EXCEPT !.listError = @ - 1]
  /\ ScaleUpWith({})

NodeJoins(i) ==
  /\ claims[i].phase = "pending"
  /\ claims' = [claims EXCEPT ![i].phase = "registered"]
  /\ UNCHANGED <<pods, place, available, budget>>

ClaimReady(i) ==
  /\ claims[i].phase = "registered"
  /\ claims' = [claims EXCEPT ![i].phase = "ready"]
  /\ UNCHANGED <<pods, place, available, budget>>

\* A claim waits for its machine for more than 15 minutes.
ClaimAges(i) ==
  /\ i \in Inflight
  /\ budget.aged > 0
  /\ budget' = [budget EXCEPT !.aged = @ - 1]
  /\ claims' = [claims EXCEPT ![i].aged = TRUE]
  /\ UNCHANGED <<pods, place, available>>

\* The scheduler binds the pod to any node of the pool that has room, which may
\* be before the node's claim is marked Ready.
Schedule(p) ==
  /\ p \in Unschedulable /\ Schedulable(pods[p])
  /\ \E i \in Nodes :
       Fits(pods[p].requests, Room(i)) /\ place' = [place EXCEPT ![p] = i]
  /\ UNCHANGED <<pods, claims, available, budget>>

PodArrives(p) ==
  /\ pods[p] = NoPod
  /\ budget.arrival > 0
  /\ budget' = [budget EXCEPT !.arrival = @ - 1]
  /\ \E s \in PodSpecs : pods' = [pods EXCEPT ![p] = s]
  /\ UNCHANGED <<place, claims, available>>

PodLeaves(p) ==
  /\ pods[p] # NoPod
  /\ pods' = [pods EXCEPT ![p] = NoPod]
  /\ place' = [place EXCEPT ![p] = 0]
  /\ UNCHANGED <<claims, available, budget>>

Next ==
  \/ Reconcile \/ ReconcileWithoutNodes
  \/ \E i \in DOMAIN claims : NodeJoins(i) \/ ClaimReady(i) \/ ClaimAges(i)
  \/ \E p \in Pods : Schedule(p) \/ PodArrives(p) \/ PodLeaves(p)

Spec == Init /\ [][Next]_vars

\* Reconciles are repeated, claims are launched and become Ready (see
\* NodeClaim), and the scheduler retries pods; pods need not leave.
Fairness ==
  /\ WF_vars(Reconcile)
  /\ \A i \in 1..MaxClaims : WF_vars(i \in DOMAIN claims
                                     /\ (NodeJoins(i) \/ ClaimReady(i)))
  /\ \A p \in Pods : SF_vars(Schedule(p))

FairSpec == Spec /\ Fairness

-----------------------------------------------------------------------------
(* Properties *)

\* What the pods ask for that host puts into bucket k.
Load(host, k) == Total([p \in {q \in DOMAIN host : host[q] = k} |-> pods[p].requests])

\* First fit loses nobody: the pods that wait can be put, all of them at once, into
\* the room that planCapacity was given and the claims it asks for, without one of
\* them being overfull, in whatever order the pods were placed and bound before.
PlanHasRoom ==
  \A nodes \in {Nodes, {}} :
    LET rooms == Buckets(nodes) \o Plan(nodes) IN
    TemplateKnown(nodes) =>
      \E host \in [Demands -> DOMAIN rooms] :
        \A k \in DOMAIN rooms : Fits(Load(host, k), rooms[k])

\* The pool does not run away.  A pod may be displaced from the claim planned for
\* it by another pod, which makes the pool grow once more; but each claim that was
\* made because of an arrival then runs a pod or has room for one that waits, so
\* there are at most MaxPods of them, and as many for each reconcile that planned
\* without the nodes.
GrowthBounded ==
  Len(claims) <= MaxPods * ((MaxArrivals - budget.arrival)
                            + (MaxListErrors - budget.listError))

\* limits.cpuCores and limits.memoryMiB bound what the claims together ask for,
\* whatever joins, becomes Ready or is planned in between.  Claims that took more
\* than 15 minutes are left out of the sum: the code takes them for dead, plans
\* others, and they may join all the same.
LimitKept ==
  LET asked == Total([i \in {k \in DOMAIN claims : ~claims[k].aged} |->
                        claims[i].size])
  IN
  /\ Limit.cpu > 0 => asked.cpu <= Limit.cpu
  /\ Limit.mem > 0 => asked.mem <= Limit.mem

\* The pool grows only when there is a pod that its nodes can run, except that
\* the code takes an empty affinity term for a match, which the scheduler does
\* not, and knows nothing of the labels a kubelet adds.
GrowsForItsPods ==
  [][Len(claims') > Len(claims) =>
       \E p \in Unschedulable : \/ Schedulable(pods[p])
                                \/ HasEmptyTerm(pods[p])
                                \/ UsesForeignLabel(pods[p])]_vars

\* A claim is asked for with a pod in mind, and the VM it becomes, less what the
\* kubelet and the DaemonSets take of it, can run one of the pods that wait.
VMBigEnough ==
  [][\A k \in DOMAIN claims' \ DOMAIN claims : \E p \in Demands :
       Fits(pods[p].requests,
            Minus(Plus(claims'[k].size, [cpu |-> 0, mem |-> MemOverhead]), Reserve))]_vars

\* A pod that the pool's nodes can run and that names a label of the pool gets
\* a node or the pool's status says why not, unless it asks for nothing or no
\* size of a node can be told from the pods that wait.
PodsHosted ==
  \A p \in Pods :
    p \in Demands /\ Schedulable(pods[p])
      ~> p \notin Demands \/ available # "Available" \/ ~TemplateKnown(Nodes)
=============================================================================
