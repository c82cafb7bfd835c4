--------------------------- MODULE ScaleUpProofs ----------------------------
(***************************************************************************)
(* What a pool is grown for, how large its claims are and that they keep   *)
(* within its limits, proved of ScaleUp for all pods, labels and sizes.    *)
(***************************************************************************)
EXTENDS ScaleUp, DataInduction, SequenceTheorems, TLAPS

-----------------------------------------------------------------------------
(* Matching *)

\* On a label of the pool the nodes say what the pool says, so a match expression
\* that names one holds for the nodes when it holds for the pool.
LEMMA ExpressionKept ==
  ASSUME NEW expr, expr.key \in DOMAIN PoolLabels, ExpressionHolds(expr, PoolLabels)
  PROVE  ExpressionHolds(expr, NodeLabels)
  <1>1. /\ expr.key \in DOMAIN NodeLabels
        /\ NodeLabels[expr.key] = PoolLabels[expr.key]
    BY PodMatchingAssumption
  <1> QED BY <1>1 DEF ExpressionHolds

\* podMatchesPool is sound: a pod that it takes for the pool's can run on the
\* pool's nodes, but for empty terms and labels the pool does not know.
LEMMA TargetsSchedulable ==
  ASSUME NEW pod, Targets(pod)
  PROVE  Schedulable(pod) \/ HasEmptyTerm(pod) \/ UsesForeignLabel(pod)
  <1>1. SUFFICES ASSUME ~HasEmptyTerm(pod), ~UsesForeignLabel(pod)
                 PROVE  Schedulable(pod)
    OBVIOUS
  <1>2. \A key \in DOMAIN pod.selector :
          key \in DOMAIN NodeLabels /\ pod.selector[key] = NodeLabels[key]
    BY PodMatchingAssumption DEF Targets, SelectorMatches
  <1>3. ASSUME pod.terms # <<>>
        PROVE  \E i \in DOMAIN pod.terms :
                 /\ pod.terms[i] # {}
                 /\ \A expr \in pod.terms[i] : ExpressionHolds(expr, NodeLabels)
    <2>1. PICK i \in DOMAIN pod.terms : TermMatches(pod.terms[i])
      BY <1>3 DEF Targets, MatchingTerms
    <2>2. pod.terms[i] # {}
      BY <1>1 DEF HasEmptyTerm
    <2>3. ASSUME NEW expr \in pod.terms[i] PROVE ExpressionHolds(expr, NodeLabels)
      <3>1. expr.key \in DOMAIN PoolLabels
        BY <1>1 DEF UsesForeignLabel
      <3>2. ExpressionHolds(expr, PoolLabels)
        BY <2>1 DEF TermMatches
      <3> QED BY <3>1, <3>2, ExpressionKept
    <2> QED BY <2>2, <2>3
  <1> QED BY <1>2, <1>3 DEF Schedulable

-----------------------------------------------------------------------------
(* Resources *)

\* Amounts stay amounts.
LEMMA Amounts ==
  ASSUME NEW r \in Resources, NEW s \in Resources
  PROVE  /\ Plus(r, s) \in Resources /\ Minus(r, s) \in Resources
         /\ Larger(r, s) \in Resources /\ Nothing \in Resources
  <1>1. r.cpu \in Nat /\ r.mem \in Nat /\ s.cpu \in Nat /\ s.mem \in Nat
    BY DEF Resources
  <1>2. r.cpu + s.cpu \in Nat /\ r.mem + s.mem \in Nat
    BY <1>1
  <1>3. Less(r.cpu, s.cpu) \in Nat /\ Less(r.mem, s.mem) \in Nat
    BY <1>1 DEF Less
  <1>4. ASSUME NEW a \in Nat, NEW b \in Nat PROVE Max({a, b}) \in Nat
    BY DEF Max
  <1>5. Max({r.cpu, s.cpu}) \in Nat /\ Max({r.mem, s.mem}) \in Nat
    BY <1>1, <1>4
  <1> QED BY <1>2, <1>3, <1>5 DEF Plus, Minus, Larger, Nothing, Resources

\* What a claim is rounded up to is whole.
LEMMA RoundedUpIsWhole ==
  ASSUME NEW r \in Resources
  PROVE  RoundedUp(r) \in Whole
  <1>1. r.cpu \in Nat /\ r.mem \in Nat
    BY DEF Resources
  <1>2. ASSUME NEW a \in Nat
        PROVE  2 * ((a + 1) \div 2) \in Nat /\ (2 * ((a + 1) \div 2)) % 2 = 0
    <2> DEFINE b == (a + 1) \div 2
    <2>1. b \in Nat
      OBVIOUS
    <2> HIDE DEF b
    <2>2. 2 * b \in Nat /\ (2 * b) % 2 = 0
      BY <2>1
    <2> QED BY <2>2 DEF b
  <1> DEFINE c == 2 * ((r.cpu + 1) \div 2)
             m == 2 * ((r.mem + 1) \div 2)
  <1>3. c \in Nat /\ m \in Nat /\ c % 2 = 0 /\ m % 2 = 0
    BY <1>1, <1>2
  <1>4. RoundedUp(r) = [cpu |-> c, mem |-> m]
    BY DEF RoundedUp
  <1> HIDE DEF c, m
  <1> QED BY <1>3, <1>4 DEF Whole, Resources

\* A sum of amounts is one.
LEMMA TotalType ==
  ASSUME NEW size, IsFiniteSet(DOMAIN size),
         \A x \in DOMAIN size : size[x] \in Resources
  PROVE  Total(size) \in Resources
  <1> DEFINE S == DOMAIN size
             c == [x \in S |-> size[x].cpu]
             m == [x \in S |-> size[x].mem]
  <1>1. \A x \in S : c[x] \in Nat /\ m[x] \in Nat
    BY DEF Resources
  <1>2. DOMAIN c = S /\ DOMAIN m = S
    OBVIOUS
  <1>3. Total(size) = [cpu |-> SumFunctionOnSet(c, DOMAIN c),
                       mem |-> SumFunctionOnSet(m, DOMAIN m)]
    BY DEF Total, SumFunction
  <1> HIDE DEF S, c, m
  <1>4. SumFunctionOnSet(c, S) \in Nat /\ SumFunctionOnSet(m, S) \in Nat
    <2>1. IsFiniteSet(S)
      BY DEF S
    <2> QED BY <1>1, <2>1, SumType
  <1> QED BY <1>2, <1>3, <1>4 DEF Resources

\* A pod asks for an amount.
LEMMA RequestsType ==
  ASSUME TypeOK, NEW p \in Pods
  PROVE  pods[p].requests \in Resources
  <1>1. pods[p] \in PodSpecs \/ pods[p] = NoPod
    BY DEF TypeOK
  <1>2. NoPod.requests \in Resources
    BY DEF NoPod, Resources
  <1> QED BY <1>1, <1>2, ScaleUpAssumption

-----------------------------------------------------------------------------
(* What the plan is made from *)

\* A claim has whole sizes, and the sets of claims are finite.
LEMMA ClaimTypes ==
  ASSUME TypeOK
  PROVE  /\ Len(claims) \in Nat /\ DOMAIN claims = 1..Len(claims)
         /\ IsFiniteSet(DOMAIN claims) /\ DOMAIN claims \subseteq Nat
         /\ \A i \in DOMAIN claims :
              /\ claims[i] \in Claim /\ claims[i].size \in Whole
              /\ claims[i].size \in Resources /\ Capacity(i) \in Resources
              /\ Allocatable(i) \in Resources
  <1>1. claims \in Seq(Claim)
    BY DEF TypeOK
  <1>2. Len(claims) \in Nat /\ DOMAIN claims = 1..Len(claims)
    BY <1>1
  <1>3. IsFiniteSet(DOMAIN claims) /\ DOMAIN claims \subseteq Nat
    BY <1>2, FS_Interval
  <1>4. ASSUME NEW i \in DOMAIN claims
        PROVE  /\ claims[i] \in Claim /\ claims[i].size \in Whole
               /\ claims[i].size \in Resources
    <2>1. claims[i] \in Claim
      BY <1>1
    <2>2. claims[i].size \in Whole
      BY <2>1 DEF Claim
    <2> QED BY <2>1, <2>2 DEF Whole
  <1>5. [cpu |-> 0, mem |-> MemOverhead] \in Resources /\ Reserve \in Resources
    BY ScaleUpAssumption DEF Resources
  <1>6. \A i \in DOMAIN claims :
          Capacity(i) \in Resources /\ Allocatable(i) \in Resources
    BY <1>4, <1>5, Amounts DEF Capacity, Allocatable
  <1> QED BY <1>2, <1>3, <1>4, <1>6

\* The pods are finitely many.
LEMMA PodsFinite == IsFiniteSet(Pods) /\ Pods \subseteq Nat /\ Cardinality(Pods) = MaxPods
  <1>1. MaxPods \in Nat
    BY ScaleUpAssumption
  <1>2. IsFiniteSet(1..MaxPods) /\ Cardinality(1..MaxPods) = MaxPods
    BY <1>1, FS_Interval
  <1> QED BY <1>1, <1>2 DEF Pods

\* What a node has left is an amount.
LEMMA RoomType ==
  ASSUME TypeOK, NEW i \in DOMAIN claims
  PROVE  Room(i) \in Resources
  <1> DEFINE S == {q \in Pods : place[q] = i}
             requests == [p \in S |-> pods[p].requests]
  <1>1. IsFiniteSet(S)
    BY PodsFinite, FS_Subset
  <1>2. DOMAIN requests = S /\ \A p \in S : requests[p] \in Resources
    BY RequestsType
  <1>3. Room(i) = Minus(Allocatable(i), Total(requests))
    BY DEF Room
  <1> HIDE DEF S, requests
  <1>4. Total(requests) \in Resources
    BY <1>1, <1>2, TotalType
  <1>5. Allocatable(i) \in Resources
    BY ClaimTypes
  <1> QED BY <1>3, <1>4, <1>5, Amounts

\* The size of a node that planCapacity goes by is an amount.
LEMMA NodeCapacityType ==
  ASSUME TypeOK, NEW nodes \in SUBSET DOMAIN claims
  PROVE  NodeCapacity(nodes) \in Resources
  <1>1. DOMAIN claims \subseteq Nat
    BY ClaimTypes
  <1>2. CASE nodes # {}
    <2>1. Min(nodes) \in nodes
      BY <1>1, <1>2, LeastElement
    <2> QED BY <1>2, <2>1, ClaimTypes DEF NodeCapacity
  <1>3. CASE nodes = {} /\ \E i \in DOMAIN claims : Sized(claims[i].size)
    <2> DEFINE S == {i \in DOMAIN claims : Sized(claims[i].size)}
    <2>1. S \in SUBSET Nat /\ S # {}
      BY <1>1, <1>3
    <2>2. Min(S) \in S
      <3> HIDE DEF S
      <3> QED BY <2>1, LeastElement
    <2>3. NodeCapacity(nodes) = claims[Min(S)].size
      BY <1>3 DEF NodeCapacity
    <2> QED BY <2>2, <2>3, ClaimTypes
  <1>4. CASE nodes = {} /\ ~\E i \in DOMAIN claims : Sized(claims[i].size)
    <2> DEFINE C == {0} \cup {pods[p].requests.cpu : p \in Candidates}
               M == {0} \cup {pods[p].requests.mem : p \in Candidates}
    <2>1. Candidates \subseteq Pods /\ IsFiniteSet(Candidates)
      BY PodsFinite, FS_Subset DEF Candidates, Unschedulable
    <2>2. C \in SUBSET Nat /\ M \in SUBSET Nat
      BY <2>1, RequestsType DEF Resources
    <2>3. IsFiniteSet(C) /\ IsFiniteSet(M)
      <3> DEFINE cpu == [p \in Candidates |-> pods[p].requests.cpu]
                 mem == [p \in Candidates |-> pods[p].requests.mem]
      <3>1. /\ C = {0} \cup {cpu[p] : p \in Candidates}
            /\ M = {0} \cup {mem[p] : p \in Candidates}
        OBVIOUS
      <3>2. /\ IsFiniteSet({cpu[p] : p \in Candidates})
            /\ IsFiniteSet({mem[p] : p \in Candidates})
        <4> HIDE DEF cpu, mem
        <4> QED BY <2>1, ImageFinite
      <3> HIDE DEF cpu, mem, C, M
      <3> QED BY <3>1, <3>2, FS_Singleton, FS_Union
    <2>4. Max(C) \in C /\ Max(M) \in M
      <3>1. C # {} /\ M # {}
        OBVIOUS
      <3> HIDE DEF C, M
      <3> QED BY <2>2, <2>3, <3>1, LargestElement
    <2>5. NodeCapacity(nodes) = [cpu |-> Max(C), mem |-> Max(M)]
      BY <1>4 DEF NodeCapacity
    <2> HIDE DEF C, M
    <2>6. Max(C) \in Nat /\ Max(M) \in Nat
      BY <2>2, <2>4
    <2> QED BY <2>5, <2>6 DEF Resources
  <1> QED BY <1>2, <1>3, <1>4

\* The room in nodes and pending claims is a sequence of amounts.
LEMMA BucketsType ==
  ASSUME TypeOK, NEW nodes \in SUBSET DOMAIN claims
  PROVE  Buckets(nodes) \in Seq(Resources)
  <1> DEFINE old == [i \in DOMAIN claims |-> IF i \in nodes THEN Room(i) ELSE Nothing]
             coming == [i \in DOMAIN claims |-> IF i \in NotReady THEN claims[i].size
                                                ELSE Nothing]
  <1>1. Nothing \in Resources
    BY DEF Nothing, Resources
  <1>2. \A i \in DOMAIN claims : claims[i].size \in Resources /\ Room(i) \in Resources
    BY ClaimTypes, RoomType
  <1>3. /\ old \in [1..Len(claims) -> Resources] /\ Len(claims) \in Nat
        /\ coming \in [1..Len(claims) -> Resources]
    BY <1>1, <1>2, ClaimTypes
  <1>4. Buckets(nodes) = old \o coming
    BY DEF Buckets
  <1> HIDE DEF old, coming
  <1>5. old \in Seq(Resources) /\ coming \in Seq(Resources)
    BY <1>3, SeqDef
  <1> QED BY <1>4, <1>5, ConcatProperties

-----------------------------------------------------------------------------
(* The plan *)

\* There is a pod to place next as long as pods are left.
LEMMA FirstInTodo ==
  ASSUME TypeOK, NEW todo \in SUBSET Pods, todo # {}
  PROVE  First(todo) \in todo
  <1> DEFINE cpu(p) == pods[p].requests.cpu
             Q == {s \in SUBSET Pods : s = {} \/ \E p \in s : \A q \in s : Before(p, q)}
  <1>1. \A p \in Pods : cpu(p) \in Nat /\ p \in Nat
    BY RequestsType, PodsFinite DEF Resources
  <1>2. \A p, q \in Pods : Before(p, q) <=> cpu(p) > cpu(q) \/ (cpu(p) = cpu(q) /\ p <= q)
    BY DEF Before
  <1> HIDE DEF cpu
  <1>3. {} \in Q
    OBVIOUS
  <1>4. \A s \in SUBSET Pods : \A x \in Pods \ s : s \in Q => s \cup {x} \in Q
    <2>1. SUFFICES ASSUME NEW s \in SUBSET Pods, NEW x \in Pods \ s, s \in Q
                   PROVE  \E p \in s \cup {x} : \A q \in s \cup {x} : Before(p, q)
      OBVIOUS
    <2>2. Before(x, x)
      BY <1>1, <1>2
    <2>3. CASE s = {}
      BY <2>2, <2>3
    <2>4. CASE s # {}
      <3>1. PICK p \in s : \A q \in s : Before(p, q)
        BY <2>1, <2>4
      <3>2. CASE Before(p, x)
        BY <3>1, <3>2
      <3>3. CASE ~Before(p, x)
        <4>1. ASSUME NEW q \in s PROVE Before(x, q)
          <5>1. /\ cpu(p) \in Nat /\ cpu(q) \in Nat /\ cpu(x) \in Nat
                /\ p \in Nat /\ q \in Nat /\ x \in Nat
            BY <1>1
          <5>2. cpu(p) > cpu(q) \/ (cpu(p) = cpu(q) /\ p <= q)
            BY <1>2, <3>1
          <5>3. ~(cpu(p) > cpu(x) \/ (cpu(p) = cpu(x) /\ p <= x))
            BY <1>2, <3>3
          <5>4. cpu(x) > cpu(q) \/ (cpu(x) = cpu(q) /\ x <= q)
            BY <5>1, <5>2, <5>3
          <5> QED BY <1>2, <5>4
        <4> QED BY <2>2, <4>1
      <3> QED BY <3>2, <3>3
    <2> QED BY <2>3, <2>4
  <1>5. SUBSET Pods \subseteq Q
    <2>1. IsFiniteSet(Pods)
      BY PodsFinite
    <2> HIDE DEF Q
    <2> QED BY ONLY <2>1, <1>3, <1>4, SetOfSubsets
  <1>6. \E p \in todo : \A q \in todo : Before(p, q)
    BY <1>5
  <1> QED BY <1>6 DEF First

\* The sizes a claim may be given: whole, and large enough for a pod that waits.
Wanted == {r \in Whole : \E p \in Demands : Fits(pods[p].requests, r)}

\* A turn of the loop places one pod, and adds at most one claim, which that pod
\* fits.
LEMMA PlaceOne ==
  ASSUME TypeOK, NEW template \in Resources, NEW plan \in Progress, plan.todo # {}
  PROVE  LET pod == First(plan.todo)
             after == Place(plan, template)
         IN /\ pod \in plan.todo
            /\ after \in Progress
            /\ after.todo = plan.todo \ {pod}
            /\ \/ after.new = plan.new
               \/ \E size \in Whole : /\ after.new = Append(plan.new, size)
                                      /\ Fits(pods[pod].requests, size)
  <1> DEFINE pod == First(plan.todo)
             request == pods[pod].requests
             fit == {k \in DOMAIN plan.buckets : Fits(request, plan.buckets[k])}
             size == Larger(template, request)
             left == plan.todo \ {pod}
             after == Place(plan, template)
  <1>1. /\ plan.todo \in SUBSET Pods /\ plan.buckets \in Seq(Resources)
        /\ plan.new \in Seq(Resources)
        /\ plan = [todo |-> plan.todo, buckets |-> plan.buckets, new |-> plan.new]
    BY DEF Progress
  <1>2. pod \in plan.todo
    BY <1>1, FirstInTodo
  <1>3. request \in Resources
    BY <1>1, <1>2, RequestsType
  <1>4. size \in Resources /\ Minus(size, request) \in Resources
    BY <1>3, Amounts
  <1>5. after = IF fit # {}
                THEN [plan EXCEPT !.todo = left, !.buckets[Min(fit)] = Minus(@, request)]
                ELSE [todo |-> left, buckets |-> Append(plan.buckets, Minus(size, request)),
                      new |-> Append(plan.new, RoundedUp(size))]
    BY DEF Place
  <1>6. left \in SUBSET Pods
    BY <1>1
  <1> HIDE DEF pod, request, left, after
  <1>7. CASE fit # {}
    <2>1. Min(fit) \in DOMAIN plan.buckets
      <3>1. fit \in SUBSET Nat
        BY <1>1
      <3> HIDE DEF fit
      <3>2. Min(fit) \in fit
        BY <1>7, <3>1, LeastElement
      <3> QED BY <3>2 DEF fit
    <2> DEFINE k == Min(fit)
               buckets == [plan.buckets EXCEPT ![k] = Minus(plan.buckets[k], request)]
    <2>2. after = [todo |-> left, buckets |-> buckets, new |-> plan.new]
      <3>1. after = [plan EXCEPT !.todo = left, !.buckets[k] = Minus(@, request)]
        BY <1>5, <1>7
      <3>2. after = [plan EXCEPT !.todo = left, !.buckets = buckets]
        BY <3>1
      <3> HIDE DEF buckets
      <3> QED BY <1>1, <3>2
    <2>3. buckets \in Seq(Resources)
      <3> HIDE DEF fit, k
      <3>0. k \in DOMAIN plan.buckets
        BY <2>1 DEF k
      <3>1. Minus(plan.buckets[k], request) \in Resources
        BY <1>1, <1>3, <3>0, Amounts
      <3> QED BY <1>1, <3>0, <3>1
    <2> HIDE DEF buckets, fit
    <2>4. after \in Progress /\ after.todo = left /\ after.new = plan.new
      BY <1>1, <1>6, <2>2, <2>3 DEF Progress
    <2> QED BY <1>2, <2>4 DEF pod, left, after
  <1>8. CASE fit = {}
    <2> HIDE DEF fit, size
    <2>1. after = [todo |-> left, buckets |-> Append(plan.buckets, Minus(size, request)),
                   new |-> Append(plan.new, RoundedUp(size))]
      BY <1>5, <1>8
    <2>2. RoundedUp(size) \in Whole /\ RoundedUp(size) \in Resources
      BY <1>4, RoundedUpIsWhole DEF Whole
    <2>3. /\ Append(plan.buckets, Minus(size, request)) \in Seq(Resources)
          /\ Append(plan.new, RoundedUp(size)) \in Seq(Resources)
      BY <1>1, <1>4, <2>2
    <2>4. /\ after \in Progress /\ after.todo = left
          /\ after.new = Append(plan.new, RoundedUp(size))
      BY <1>6, <2>1, <2>3 DEF Progress
    <2>5. Fits(request, RoundedUp(size))
      <3>1. /\ request.cpu \in Nat /\ request.mem \in Nat
            /\ size.cpu \in Nat /\ size.mem \in Nat
            /\ template.cpu \in Nat /\ template.mem \in Nat
        BY <1>3, <1>4 DEF Resources
      <3>2. ASSUME NEW a \in Nat, NEW b \in Nat PROVE b <= Max({a, b})
        BY DEF Max
      <3>3. request.cpu <= size.cpu /\ request.mem <= size.mem
        BY <3>1, <3>2 DEF size, Larger
      <3>4. ASSUME NEW a \in Nat PROVE a <= 2 * ((a + 1) \div 2)
        OBVIOUS
      <3>5. size.cpu <= RoundedUp(size).cpu /\ size.mem <= RoundedUp(size).mem
        BY <3>1, <3>4 DEF RoundedUp
      <3>6. RoundedUp(size).cpu \in Nat /\ RoundedUp(size).mem \in Nat
        BY <2>2 DEF Resources
      <3> QED BY <3>1, <3>3, <3>5, <3>6 DEF Fits
    <2> QED BY <1>2, <2>2, <2>4, <2>5 DEF pod, request, left, after
  <1> QED BY <1>7, <1>8

\* The loop ends: planCapacity is the function that its recursion describes.
LEMMA PlannedDefined ==
  ASSUME TypeOK, NEW template \in Resources
  PROVE  Planned(template) =
           [plan \in Progress |-> IF plan.todo = {} THEN plan.new
                                  ELSE Planned(template)[Place(plan, template)]]
  <1> DEFINE V == Seq(Resources)
             Turn(g, plan) == IF plan.todo = {} THEN plan.new ELSE g[Place(plan, template)]
             rank == [plan \in Progress |-> Cardinality(plan.todo)]
             base == [plan \in Progress |-> plan.new]
             next == [plan \in Progress |-> IF plan.todo = {} THEN plan
                                            ELSE Place(plan, template)]
             op == [q \in Progress \X V |-> q[2]]
  <1>1. \A plan \in Progress :
          /\ IsFiniteSet(plan.todo) /\ Cardinality(plan.todo) \in Nat
          /\ Cardinality(plan.todo) <= MaxPods
          /\ Cardinality(plan.todo) = 0 <=> plan.todo = {}
    <2>1. \A plan \in Progress : plan.todo \in SUBSET Pods
      BY DEF Progress
    <2> QED BY <2>1, PodsFinite, FS_Subset, FS_CardinalityType, FS_EmptySet
  <1>2. \A plan \in Progress : plan.todo # {} =>
          /\ Place(plan, template) \in Progress
          /\ Cardinality(Place(plan, template).todo) < Cardinality(plan.todo)
    <2>1. SUFFICES ASSUME NEW plan \in Progress, plan.todo # {}
                   PROVE  /\ Place(plan, template) \in Progress
                          /\ Cardinality(Place(plan, template).todo)
                               < Cardinality(plan.todo)
      OBVIOUS
    <2>2. /\ First(plan.todo) \in plan.todo /\ Place(plan, template) \in Progress
          /\ Place(plan, template).todo = plan.todo \ {First(plan.todo)}
      BY <2>1, PlaceOne
    <2>3. Cardinality(plan.todo \ {First(plan.todo)}) = Cardinality(plan.todo) - 1
      BY <1>1, <2>2, FS_RemoveElement
    <2> QED BY <1>1, <2>2, <2>3
  <1>3. /\ MaxPods \in Nat /\ rank \in [Progress -> Nat] /\ base \in [Progress -> V]
        /\ next \in [Progress -> Progress] /\ op \in [Progress \X V -> V]
    <2>1. MaxPods \in Nat
      BY ScaleUpAssumption
    <2>2. \A plan \in Progress : plan.new \in V
      BY DEF Progress
    <2> HIDE DEF V
    <2> QED BY <1>1, <1>2, <2>1, <2>2
  <1>4. \A x \in Progress : rank[x] <= MaxPods /\ (rank[x] # 0 => rank[next[x]] < rank[x])
    BY <1>1, <1>2
  <1>5. ASSUME NEW plan \in Progress
        PROVE  /\ rank[plan] = 0 <=> plan.todo = {}
               /\ base[plan] = plan.new
               /\ plan.todo # {} => next[plan] = Place(plan, template)
               /\ \A v \in V : op[<<plan, v>>] = v
    BY <1>1
  <1> HIDE DEF rank, base, next, op, V
  <1>6. Recursion(Progress, V, MaxPods, rank, base, next, op)
    BY <1>3, <1>4 DEF Recursion
  <1>7. PICK g \in [Progress -> V] : Solves(g, Progress, rank, base, next, op)
    BY <1>6, RecursionDefines
  <1>8. g = [plan \in Progress |-> Turn(g, plan)]
    <2>1. ASSUME NEW plan \in Progress PROVE g[plan] = Turn(g, plan)
      <3>1. g[plan] = IF rank[plan] = 0 THEN base[plan] ELSE op[<<plan, g[next[plan]]>>]
        BY <1>7 DEF Solves
      <3>2. CASE plan.todo = {}
        BY <1>5, <3>1, <3>2
      <3>3. CASE plan.todo # {}
        <4>1. g[Place(plan, template)] \in V
          BY <1>2, <3>3
        <4> QED BY <1>5, <3>1, <3>3, <4>1
      <3> QED BY <3>2, <3>3
    <2> HIDE DEF Turn
    <2> QED BY <2>1
  <1> DEFINE result == CHOOSE r : r = [plan \in Progress |-> Turn(r, plan)]
  <1>9. result = [plan \in Progress |-> Turn(result, plan)]
    BY <1>8
  <1>10. Planned(template) = result
    BY DEF Planned
  <1> QED BY <1>9, <1>10

\* What is planned: claims that are wanted, and no more of them than pods.
LEMMA PlannedIsWanted ==
  ASSUME TypeOK, NEW template \in Resources, NEW plan \in Progress,
         plan.todo \subseteq Demands, plan.new \in Seq(Wanted)
  PROVE  /\ Planned(template)[plan] \in Seq(Wanted)
         /\ Len(Planned(template)[plan]) <= Len(plan.new) + Cardinality(plan.todo)
  <1> DEFINE result == Planned(template)
             Good(x) == x.todo \subseteq Demands /\ x.new \in Seq(Wanted) =>
                          /\ result[x] \in Seq(Wanted)
                          /\ Len(result[x]) <= Len(x.new) + Cardinality(x.todo)
             T == {n \in Nat : \A x \in Progress : Cardinality(x.todo) = n => Good(x)}
  <1>1. \A x \in Progress :
          /\ IsFiniteSet(x.todo) /\ Cardinality(x.todo) \in Nat
          /\ Cardinality(x.todo) = 0 <=> x.todo = {}
    <2>1. \A x \in Progress : x.todo \in SUBSET Pods
      BY DEF Progress
    <2> QED BY <2>1, PodsFinite, FS_Subset, FS_CardinalityType, FS_EmptySet
  <1>2. \A x \in Progress :
          result[x] = IF x.todo = {} THEN x.new ELSE result[Place(x, template)]
    <2>1. result = [x \in Progress |-> IF x.todo = {} THEN x.new
                                       ELSE result[Place(x, template)]]
      BY PlannedDefined
    <2> HIDE DEF result
    <2> QED BY <2>1
  <1> HIDE DEF result
  <1>3. 0 \in T
    <2>1. ASSUME NEW x \in Progress, Cardinality(x.todo) = 0 PROVE Good(x)
      <3>1. result[x] = x.new
        BY <1>1, <1>2, <2>1
      <3>2. x.new \in Seq(Wanted) => Len(x.new) <= Len(x.new) + 0
        OBVIOUS
      <3> QED BY <2>1, <3>1, <3>2
    <2> QED BY <2>1
  <1>4. ASSUME NEW n \in Nat, n \in T PROVE n + 1 \in T
    <2>1. SUFFICES ASSUME NEW x \in Progress, Cardinality(x.todo) = n + 1,
                          x.todo \subseteq Demands, x.new \in Seq(Wanted)
                   PROVE  /\ result[x] \in Seq(Wanted)
                          /\ Len(result[x]) <= Len(x.new) + Cardinality(x.todo)
      OBVIOUS
    <2> DEFINE y == Place(x, template)
               pod == First(x.todo)
    <2>2. x.todo # {}
      BY <1>1, <2>1
    <2>3. /\ pod \in x.todo /\ y \in Progress /\ y.todo = x.todo \ {pod}
          /\ \/ y.new = x.new
             \/ \E size \in Whole : /\ y.new = Append(x.new, size)
                                    /\ Fits(pods[pod].requests, size)
      BY <2>2, PlaceOne
    <2>4. result[x] = result[y]
      BY <1>2, <2>2
    <2> HIDE DEF y, pod
    <2>5. Cardinality(y.todo) = n
      <3>1. Cardinality(x.todo \ {pod}) = Cardinality(x.todo) - 1
        BY <1>1, <2>3, FS_RemoveElement
      <3> QED BY <2>1, <2>3, <3>1
    <2>6. y.todo \subseteq Demands
      BY <2>1, <2>3
    <2>7. y.new \in Seq(Wanted) /\ Len(y.new) <= Len(x.new) + 1
      <3>1. CASE y.new = x.new
        BY <2>1, <3>1
      <3>2. CASE \E size \in Whole : /\ y.new = Append(x.new, size)
                                     /\ Fits(pods[pod].requests, size)
        <4>1. PICK size \in Whole : /\ y.new = Append(x.new, size)
                                    /\ Fits(pods[pod].requests, size)
          BY <3>2
        <4>2. size \in Wanted
          BY <2>1, <2>3, <4>1 DEF Wanted
        <4> QED BY <2>1, <4>1, <4>2
      <3> QED BY <2>3, <3>1, <3>2
    <2>8. result[y] \in Seq(Wanted) /\ Len(result[y]) <= Len(y.new) + n
      BY <1>4, <2>3, <2>5, <2>6, <2>7
    <2>9. Len(result[y]) \in Nat /\ Len(y.new) \in Nat /\ Len(x.new) \in Nat
      BY <2>1, <2>7, <2>8
    <2>10. Len(result[y]) <= Len(x.new) + (n + 1)
      <3>1. ASSUME NEW a \in Nat, NEW b \in Nat, NEW c \in Nat, a <= b + n, b <= c + 1
            PROVE  a <= c + (n + 1)
        BY <3>1
      <3> QED BY ONLY <2>7, <2>8, <2>9, <3>1
    <2> QED BY <2>1, <2>4, <2>8, <2>10
  <1>5. Nat \subseteq T
    <2> HIDE DEF T
    <2> QED BY <1>3, <1>4, SetOfNaturals
  <1>6. Good(plan)
    <2> HIDE DEF Good
    <2> QED BY <1>1, <1>5
  <1> QED BY <1>6 DEF result

\* The claims that a reconcile plans are wanted, no more than the pods that wait,
\* and there are none unless a pod matches the pool.
LEMMA PlanIsWanted ==
  ASSUME TypeOK, NEW nodes \in SUBSET DOMAIN claims
  PROVE  /\ Plan(nodes) \in Seq(Wanted)
         /\ Len(Plan(nodes)) <= Cardinality(Demands)
         /\ Plan(nodes) # <<>> => Candidates # {}
  <1>1. CASE Candidates # {} /\ TemplateKnown(nodes)
    <2> DEFINE start == [todo |-> Demands, buckets |-> Buckets(nodes), new |-> <<>>]
               template == NodeCapacity(nodes)
    <2>1. /\ start \in Progress /\ start.todo = Demands /\ start.new = <<>>
      <3>1. Demands \in SUBSET Pods
        BY DEF Demands, Candidates, Unschedulable
      <3>2. Buckets(nodes) \in Seq(Resources) /\ <<>> \in Seq(Resources)
        BY BucketsType
      <3> QED BY <3>1, <3>2 DEF Progress
    <2>2. template \in Resources
      BY NodeCapacityType
    <2>3. Plan(nodes) = Planned(template)[start]
      BY <1>1 DEF Plan
    <2> HIDE DEF start, template
    <2>4. <<>> \in Seq(Wanted) /\ Len(<<>>) = 0
      OBVIOUS
    <2>5. /\ Planned(template)[start] \in Seq(Wanted)
          /\ Len(Planned(template)[start]) <= Len(start.new) + Cardinality(start.todo)
      BY <2>1, <2>2, <2>4, PlannedIsWanted
    <2>6. Cardinality(Demands) \in Nat
      <3>1. Demands \in SUBSET Pods
        BY DEF Demands, Candidates, Unschedulable
      <3> QED BY <3>1, PodsFinite, FS_Subset, FS_CardinalityType
    <2> QED BY <1>1, <2>1, <2>3, <2>4, <2>5, <2>6
  <1>2. CASE ~(Candidates # {} /\ TemplateKnown(nodes))
    <2>1. Plan(nodes) = <<>>
      BY <1>2 DEF Plan
    <2>2. Cardinality(Demands) \in Nat
      <3>1. Demands \in SUBSET Pods
        BY DEF Demands, Candidates, Unschedulable
      <3> QED BY <3>1, PodsFinite, FS_Subset, FS_CardinalityType
    <2>3. <<>> \in Seq(Wanted) /\ Len(<<>>) = 0
      OBVIOUS
    <2> QED BY <2>1, <2>2, <2>3
  <1> QED BY <1>1, <1>2

-----------------------------------------------------------------------------
(* Steps *)

\* What CreateClaims makes of the claims.
LEMMA CreatedClaims ==
  ASSUME TypeOK, NEW new \in Seq(Whole),
         claims' = claims \o [k \in DOMAIN new |-> [size |-> new[k], phase |-> "pending",
                                                    aged |-> FALSE]]
  PROVE  /\ claims' \in Seq(Claim)
         /\ Len(claims') = Len(claims) + Len(new)
         /\ DOMAIN claims' = 1..(Len(claims) + Len(new))
         /\ \A i \in 1..Len(claims) : claims'[i] = claims[i]
         /\ \A k \in 1..Len(new) :
              claims'[Len(claims) + k] = [size |-> new[k], phase |-> "pending",
                                          aged |-> FALSE]
  <1> DEFINE fresh == [k \in DOMAIN new |-> [size |-> new[k], phase |-> "pending",
                                             aged |-> FALSE]]
  <1>1. Len(new) \in Nat /\ DOMAIN new = 1..Len(new) /\ \A k \in DOMAIN new : new[k] \in Whole
    OBVIOUS
  <1>2. fresh \in [1..Len(new) -> Claim]
    BY <1>1 DEF Claim
  <1>3. \A k \in 1..Len(new) : fresh[k] = [size |-> new[k], phase |-> "pending",
                                           aged |-> FALSE]
    BY <1>1
  <1>4. claims' = claims \o fresh
    OBVIOUS
  <1> HIDE DEF fresh
  <1>5. fresh \in Seq(Claim) /\ Len(fresh) = Len(new)
    BY <1>1, <1>2, SeqDef
  <1>6. claims \in Seq(Claim)
    BY DEF TypeOK
  <1>7. /\ claims \o fresh \in Seq(Claim)
        /\ Len(claims \o fresh) = Len(claims) + Len(fresh)
        /\ \A i \in 1..(Len(claims) + Len(fresh)) :
             (claims \o fresh)[i] = IF i <= Len(claims) THEN claims[i]
                                    ELSE fresh[i - Len(claims)]
    BY <1>5, <1>6, ConcatProperties
  <1>8. Len(claims) \in Nat
    BY <1>6
  <1>9. claims' \in Seq(Claim) /\ Len(claims') = Len(claims) + Len(new)
    BY <1>4, <1>5, <1>7
  <1>10. DOMAIN claims' = 1..(Len(claims) + Len(new))
    BY <1>9
  <1>11. \A i \in 1..Len(claims) : claims'[i] = claims[i]
    BY <1>1, <1>4, <1>5, <1>7, <1>8
  <1>12. ASSUME NEW k \in 1..Len(new)
         PROVE  claims'[Len(claims) + k] = [size |-> new[k], phase |-> "pending",
                                            aged |-> FALSE]
    <2>1. /\ Len(claims) + k \in 1..(Len(claims) + Len(fresh))
          /\ ~(Len(claims) + k <= Len(claims)) /\ (Len(claims) + k) - Len(claims) = k
      BY <1>1, <1>5, <1>8
    <2> QED BY <1>3, <1>4, <1>7, <2>1
  <1> QED BY <1>9, <1>10, <1>11, <1>12

\* A step of one claim: its machine joins, it becomes Ready, or it ages.
ClaimStep(i) ==
  /\ i \in DOMAIN claims
  /\ UNCHANGED <<pods, place, available>>
  /\ \/ NodeJoins(i)
     \/ ClaimReady(i)
     \/ ClaimAges(i)

\* A claim keeps its size, a node stays, and no claim comes or goes.
LEMMA ClaimSteps ==
  ASSUME TypeOK, NEW i, ClaimStep(i)
  PROVE  /\ claims' \in Seq(Claim) /\ Len(claims') = Len(claims)
         /\ DOMAIN claims' = DOMAIN claims
         /\ \A j \in DOMAIN claims :
              /\ claims'[j].size = claims[j].size
              /\ claims[j].phase # "pending" => claims'[j].phase # "pending"
              /\ claims[j].aged => claims'[j].aged
  <1> DEFINE c == claims[i]
  <1>1. claims \in Seq(Claim) /\ i \in DOMAIN claims /\ c \in Claim
    BY DEF TypeOK, ClaimStep
  <1>2. PICK d \in Claim : /\ claims' = [claims EXCEPT ![i] = d]
                           /\ d.size = c.size
                           /\ c.phase # "pending" => d.phase # "pending"
                           /\ c.aged => d.aged
    <2>1. CASE NodeJoins(i)
      <3> DEFINE d == [c EXCEPT !.phase = "registered"]
      <3>1. claims' = [claims EXCEPT ![i] = d]
        BY <2>1 DEF NodeJoins
      <3>2. /\ d \in Claim /\ d.size = c.size /\ d.phase = "registered"
            /\ d.aged = c.aged
        BY <1>1 DEF Claim
      <3> HIDE DEF c, d
      <3> QED BY <3>1, <3>2
    <2>2. CASE ClaimReady(i)
      <3> DEFINE d == [c EXCEPT !.phase = "ready"]
      <3>1. claims' = [claims EXCEPT ![i] = d]
        BY <2>2 DEF ClaimReady
      <3>2. /\ d \in Claim /\ d.size = c.size /\ d.phase = "ready"
            /\ d.aged = c.aged
        BY <1>1 DEF Claim
      <3> HIDE DEF c, d
      <3> QED BY <3>1, <3>2
    <2>3. CASE ClaimAges(i)
      <3>1. claims' = [claims EXCEPT ![i] = [c EXCEPT !.aged = TRUE]]
        BY <2>3 DEF ClaimAges
      <3> QED BY <1>1, <3>1 DEF Claim
    <2> QED BY <2>1, <2>2, <2>3 DEF ClaimStep
  <1>3. claims' \in Seq(Claim) /\ Len(claims') = Len(claims)
        /\ DOMAIN claims' = DOMAIN claims
    BY <1>1, <1>2
  <1>4. \A j \in DOMAIN claims : claims'[j] = IF j = i THEN d ELSE claims[j]
    BY <1>1, <1>2
  <1> QED BY <1>1, <1>2, <1>3, <1>4

\* The nodes a reconcile has listed are those of claims, and what it does to the
\* claims is to leave them or to add the claims of its plan, within the limits.
LEMMA Reconciles ==
  ASSUME TypeOK, Reconcile \/ ReconcileWithoutNodes
  PROVE  /\ UNCHANGED <<pods, place>>
         /\ budget' \in [{"arrival", "aged", "listError"} -> Nat]
         /\ available' \in {"Available", "MaxNodesReached", "ResourceLimitReached"}
         /\ \/ UNCHANGED claims
            \/ \E nodes \in {Nodes, {}} :
                 /\ Plan(nodes) \in Seq(Wanted) /\ Candidates # {}
                 /\ Len(Plan(nodes)) <= Cardinality(Demands)
                 /\ CreateClaims(nodes, Plan(nodes))
  <1>1. budget' \in [{"arrival", "aged", "listError"} -> Nat]
    <2>1. budget \in [{"arrival", "aged", "listError"} -> Nat]
      BY DEF TypeOK
    <2>2. CASE Reconcile
      BY <2>1, <2>2 DEF Reconcile
    <2>3. CASE ReconcileWithoutNodes
      <3>1. budget["listError"] \in Nat /\ budget["listError"] > 0
        BY <2>1, <2>3 DEF ReconcileWithoutNodes
      <3>2. budget["listError"] - 1 \in Nat
        BY <3>1
      <3>3. budget' = [budget EXCEPT !["listError"] = budget["listError"] - 1]
        BY <2>3 DEF ReconcileWithoutNodes
      <3> QED BY <2>1, <3>2, <3>3
    <2> QED BY <2>2, <2>3
  <1>2. PICK nodes \in {Nodes, {}} : ScaleUpWith(nodes)
    BY DEF Reconcile, ReconcileWithoutNodes
  <1>3. nodes \in SUBSET DOMAIN claims
    BY DEF Nodes
  <1>4. /\ Plan(nodes) \in Seq(Wanted) /\ (Plan(nodes) # <<>> => Candidates # {})
        /\ Len(Plan(nodes)) <= Cardinality(Demands)
    BY <1>3, PlanIsWanted
  <1>5. Refreshed \in {"Available", "MaxNodesReached", "ResourceLimitReached"}
    BY DEF Refreshed
  <1> DEFINE new == Plan(nodes)
  <1>6. UNCHANGED <<pods, place>>
    BY <1>2 DEF ScaleUpWith
  <1>7. CASE new = <<>>
    <2>1. available' = Refreshed /\ UNCHANGED claims
      BY <1>2, <1>7 DEF ScaleUpWith
    <2> QED BY <1>1, <1>5, <1>6, <2>1
  <1>8. CASE new # <<>> /\ Blocked(nodes, new)
    <2>1. /\ available' \in {"Available", "MaxNodesReached", "ResourceLimitReached"}
          /\ UNCHANGED claims
      BY <1>8 DEF Blocked
    <2> QED BY <1>1, <1>6, <2>1
  <1>9. CASE new # <<>> /\ CreateClaims(nodes, new)
    <2>1. available' \in {"Available", "MaxNodesReached", "ResourceLimitReached"}
      BY <1>5, <1>9 DEF CreateClaims
    <2> HIDE DEF new
    <2> QED BY <1>1, <1>4, <1>6, <1>9, <2>1 DEF new
  <1>10. new = <<>> \/ Blocked(nodes, new) \/ CreateClaims(nodes, new)
    BY <1>2 DEF ScaleUpWith
  <1> QED BY <1>7, <1>8, <1>9, <1>10

\* A step that is not a reconcile is one of a claim or of a pod.
LEMMA OtherSteps ==
  ASSUME Next, ~(Reconcile \/ ReconcileWithoutNodes)
  PROVE  \/ \E i : ClaimStep(i)
         \/ \E p \in Pods : Schedule(p) \/ PodArrives(p) \/ PodLeaves(p)
  <1>1. CASE \E i \in DOMAIN claims : NodeJoins(i) \/ ClaimReady(i) \/ ClaimAges(i)
    BY <1>1 DEF ClaimStep, NodeJoins, ClaimReady, ClaimAges
  <1> QED BY <1>1 DEF Next

\* Every step keeps the types.
LEMMA TypeStep ==
  ASSUME TypeOK, [Next]_vars
  PROVE  TypeOK'
  <1>0. /\ pods \in [Pods -> PodSpecs \cup {NoPod}]
        /\ claims \in Seq(Claim) /\ Len(claims) <= MaxClaims
        /\ place \in [Pods -> {0} \cup Nodes]
        /\ available \in {"Available", "MaxNodesReached", "ResourceLimitReached"}
        /\ budget \in [{"arrival", "aged", "listError"} -> Nat]
    BY DEF TypeOK, Nodes
  <1>a. TypeOK' <=>
          /\ pods' \in [Pods -> PodSpecs \cup {NoPod}]
          /\ claims' \in Seq(Claim) /\ Len(claims') <= MaxClaims
          /\ place' \in [Pods -> {0} \cup Nodes']
          /\ available' \in {"Available", "MaxNodesReached", "ResourceLimitReached"}
          /\ budget' \in [{"arrival", "aged", "listError"} -> Nat]
    BY DEF TypeOK, Nodes
  <1>1. CASE UNCHANGED vars
    BY <1>0, <1>1, <1>a DEF vars, Nodes
  <1>2. CASE Reconcile \/ ReconcileWithoutNodes
    <2>1. /\ UNCHANGED <<pods, place>>
          /\ budget' \in [{"arrival", "aged", "listError"} -> Nat]
          /\ available' \in {"Available", "MaxNodesReached", "ResourceLimitReached"}
      BY <1>2, Reconciles
    <2>2. CASE UNCHANGED claims
      <3>1. Nodes' = Nodes
        BY <2>2 DEF Nodes
      <3> QED BY <1>0, <1>a, <2>1, <2>2, <3>1
    <2>3. CASE ~UNCHANGED claims
      <3>1. PICK nodes : /\ Plan(nodes) \in Seq(Wanted)
                         /\ CreateClaims(nodes, Plan(nodes))
        BY <1>2, <2>3, Reconciles
      <3> DEFINE new == Plan(nodes)
      <3>2. new \in Seq(Whole)
        <4>1. Wanted \subseteq Whole
          BY DEF Wanted
        <4> HIDE DEF new
        <4>2. new \in Seq(Wanted)
          BY <3>1 DEF new
        <4> QED BY <4>1, <4>2
      <3>3. /\ Len(claims) + Len(new) <= MaxClaims
            /\ claims' = claims \o [k \in DOMAIN new |-> [size |-> new[k],
                                        phase |-> "pending", aged |-> FALSE]]
        BY <3>1 DEF CreateClaims
      <3> HIDE DEF new
      <3>4. /\ claims' \in Seq(Claim) /\ Len(claims') = Len(claims) + Len(new)
            /\ DOMAIN claims' = 1..(Len(claims) + Len(new))
            /\ \A i \in 1..Len(claims) : claims'[i] = claims[i]
        BY <3>2, <3>3, CreatedClaims
      <3>5. Nodes \subseteq Nodes'
        <4>1. DOMAIN claims = 1..Len(claims) /\ Len(claims) \in Nat /\ Len(new) \in Nat
          BY <1>0, <3>2
        <4>2. 1..Len(claims) \subseteq 1..(Len(claims) + Len(new))
          BY <4>1
        <4> QED BY <3>4, <4>1, <4>2 DEF Nodes
      <3>6. place' \in [Pods -> {0} \cup Nodes']
        BY <1>0, <2>1, <3>5
      <3> QED BY <1>0, <1>a, <2>1, <3>3, <3>4, <3>6
    <2> QED BY <2>2, <2>3
  <1>3. ASSUME NEW i, ClaimStep(i) PROVE TypeOK'
    <2>1. /\ claims' \in Seq(Claim) /\ Len(claims') = Len(claims)
          /\ DOMAIN claims' = DOMAIN claims
          /\ \A j \in DOMAIN claims :
               claims[j].phase # "pending" => claims'[j].phase # "pending"
      BY <1>3, ClaimSteps
    <2>2. Nodes \subseteq Nodes'
      BY <2>1 DEF Nodes
    <2>3. UNCHANGED <<pods, place, available>>
      BY <1>3 DEF ClaimStep
    <2>4. place' \in [Pods -> {0} \cup Nodes']
      BY <1>0, <2>2, <2>3
    <2>5. budget' \in [{"arrival", "aged", "listError"} -> Nat]
      <3>1. CASE UNCHANGED budget
        BY <1>0, <3>1
      <3>2. CASE ClaimAges(i)
        <4>1. /\ budget["aged"] \in Nat /\ budget["aged"] > 0
              /\ budget' = [budget EXCEPT !["aged"] = budget["aged"] - 1]
          BY <1>0, <3>2 DEF ClaimAges
        <4>2. budget["aged"] - 1 \in Nat
          BY <4>1
        <4> QED BY <1>0, <4>1, <4>2
      <3> QED BY <1>3, <3>1, <3>2 DEF ClaimStep, NodeJoins, ClaimReady
    <2> QED BY <1>0, <1>a, <2>1, <2>3, <2>4, <2>5
  <1>4. ASSUME NEW p \in Pods, Schedule(p) PROVE TypeOK'
    <2>1. PICK i \in Nodes : place' = [place EXCEPT ![p] = i]
      BY <1>4 DEF Schedule
    <2>2. UNCHANGED <<pods, claims, available, budget>>
      BY <1>4 DEF Schedule
    <2>3. Nodes' = Nodes
      BY <2>2 DEF Nodes
    <2>4. place' \in [Pods -> {0} \cup Nodes']
      BY <1>0, <2>1, <2>3
    <2> QED BY <1>0, <1>a, <2>2, <2>4
  <1>5. ASSUME NEW p \in Pods, PodArrives(p) PROVE TypeOK'
    <2>1. PICK s \in PodSpecs : pods' = [pods EXCEPT ![p] = s]
      BY <1>5 DEF PodArrives
    <2>2. /\ UNCHANGED <<place, claims, available>> /\ budget["arrival"] > 0
          /\ budget' = [budget EXCEPT !["arrival"] = budget["arrival"] - 1]
      BY <1>5 DEF PodArrives
    <2>3. budget["arrival"] - 1 \in Nat
      BY <1>0, <2>2
    <2>4. /\ budget' \in [{"arrival", "aged", "listError"} -> Nat]
          /\ pods' \in [Pods -> PodSpecs \cup {NoPod}]
      BY <1>0, <2>1, <2>2, <2>3
    <2>5. Nodes' = Nodes
      BY <2>2 DEF Nodes
    <2> QED BY <1>0, <1>a, <2>2, <2>4, <2>5
  <1>6. ASSUME NEW p \in Pods, PodLeaves(p) PROVE TypeOK'
    <2>1. /\ pods' = [pods EXCEPT ![p] = NoPod] /\ place' = [place EXCEPT ![p] = 0]
          /\ UNCHANGED <<claims, available, budget>>
      BY <1>6 DEF PodLeaves
    <2>2. Nodes' = Nodes
      BY <2>1 DEF Nodes
    <2>3. /\ pods' \in [Pods -> PodSpecs \cup {NoPod}]
          /\ place' \in [Pods -> {0} \cup Nodes']
      BY <1>0, <2>1, <2>2
    <2> QED BY <1>0, <1>a, <2>1, <2>3
  <1> QED BY <1>1, <1>2, <1>3, <1>4, <1>5, <1>6, OtherSteps

\* Nothing has happened yet.
LEMMA TypeInit ==
  ASSUME Init
  PROVE  TypeOK
  <1>1. claims \in Seq(Claim) /\ Len(claims) = 0 /\ 0 <= MaxClaims
    BY ScaleUpAssumption DEF Init
  <1>2. budget \in [{"arrival", "aged", "listError"} -> Nat]
    <2>1. MaxArrivals \in Nat /\ MaxAged \in Nat /\ MaxListErrors \in Nat
      BY ScaleUpAssumption
    <2>2. budget = [arrival |-> MaxArrivals, aged |-> MaxAged, listError |-> MaxListErrors]
      BY DEF Init
    <2> QED BY <2>1, <2>2
  <1>3. /\ pods \in [Pods -> PodSpecs \cup {NoPod}]
        /\ place \in [Pods -> {0} \cup {i \in DOMAIN claims : claims[i].phase # "pending"}]
    BY DEF Init
  <1> QED BY <1>1, <1>2, <1>3 DEF Init, TypeOK

\* Claims ask for whole cores and MiB whatever is planned, and pods run on nodes
\* that have joined.
THEOREM TypeCorrect == Spec => []TypeOK
  BY TypeInit, TypeStep, PTL DEF Spec

\* podMatchesPool and planCapacity keep a pool from growing for the pods of
\* others: without a pod that the pool's nodes can run, but for empty affinity
\* terms and labels of the kubelet, no claim is created.
THEOREM Grows == Spec => GrowsForItsPods
  <1>1. ASSUME TypeOK, [Next]_vars
        PROVE  [Len(claims') > Len(claims) =>
                  \E p \in Unschedulable : \/ Schedulable(pods[p])
                                           \/ HasEmptyTerm(pods[p])
                                           \/ UsesForeignLabel(pods[p])]_vars
    <2>0. Len(claims) \in Nat
      BY <1>1, ClaimTypes
    <2>1. SUFFICES ASSUME Next, Len(claims') > Len(claims)
                   PROVE  \E p \in Unschedulable : \/ Schedulable(pods[p])
                                                   \/ HasEmptyTerm(pods[p])
                                                   \/ UsesForeignLabel(pods[p])
      BY <1>1
    <2>2. claims' # claims
      BY <2>0, <2>1
    <2>3. ~\E i : ClaimStep(i)
      BY <1>1, <2>0, <2>1, ClaimSteps
    <2>4. Reconcile \/ ReconcileWithoutNodes
      BY <2>1, <2>2, <2>3, OtherSteps DEF Schedule, PodArrives, PodLeaves
    <2>5. Candidates # {}
      BY <1>1, <2>2, <2>4, Reconciles
    <2>6. PICK p \in Unschedulable : Targets(pods[p])
      BY <2>5 DEF Candidates
    <2> QED BY <2>6, TargetsSchedulable
  <1> QED BY <1>1, TypeCorrect, PTL DEF Spec, GrowsForItsPods

-----------------------------------------------------------------------------
(* The limits *)

\* The claims that count for the limits, and what each claim asks for.
Young(cs) == {k \in DOMAIN cs : ~cs[k].aged}
Cpu(cs) == [i \in DOMAIN cs |-> cs[i].size.cpu]
Mem(cs) == [i \in DOMAIN cs |-> cs[i].size.mem]

\* LimitKept, one kind of resource after the other.
Within(cs) ==
  /\ Limit.cpu > 0 => SumFunctionOnSet(Cpu(cs), Young(cs)) <= Limit.cpu
  /\ Limit.mem > 0 => SumFunctionOnSet(Mem(cs), Young(cs)) <= Limit.mem

\* The parts of a sum of amounts.
LEMMA TotalParts ==
  ASSUME NEW S, IsFiniteSet(S), NEW size, DOMAIN size = S, NEW cpu, NEW mem,
         \A x \in S : size[x] \in Resources,
         \A x \in S : cpu[x] = size[x].cpu /\ mem[x] = size[x].mem
  PROVE  /\ Total(size).cpu = SumFunctionOnSet(cpu, S)
         /\ Total(size).mem = SumFunctionOnSet(mem, S)
  <1> DEFINE c == [x \in DOMAIN size |-> size[x].cpu]
             m == [x \in DOMAIN size |-> size[x].mem]
  <1>1. /\ Total(size).cpu = SumFunctionOnSet(c, DOMAIN c)
        /\ Total(size).mem = SumFunctionOnSet(m, DOMAIN m)
    BY DEF Total, SumFunction
  <1>2. DOMAIN c = S /\ DOMAIN m = S
    OBVIOUS
  <1>3. \A x \in S : /\ c[x] \in Nat /\ c[x] = cpu[x]
                     /\ m[x] \in Nat /\ m[x] = mem[x]
    BY DEF Resources
  <1> HIDE DEF c, m
  <1>4. /\ SumFunctionOnSet(c, S) = SumFunctionOnSet(cpu, S)
        /\ SumFunctionOnSet(m, S) = SumFunctionOnSet(mem, S)
    BY <1>3, SumEqual
  <1> QED BY <1>1, <1>2, <1>4

\* Of one kind of resource: nodes have what their claims asked for, a claim that
\* counts is in flight or has a node, and m new claims come after the n old ones.
\* The sets are young, nodes and inflight; the functions say what the old claims,
\* the nodes, the new claims and all claims together have.
Growth(n, m, set, fun) ==
  /\ n \in Nat /\ m \in Nat
  /\ set.young \subseteq 1..n /\ set.nodes \subseteq 1..n /\ set.inflight \subseteq 1..n
  /\ set.young \subseteq set.nodes \cup set.inflight
  /\ \A i \in 1..n : fun.old[i] \in Nat /\ fun.after[i] = fun.old[i]
  /\ \A i \in set.nodes : fun.node[i] \in Nat /\ fun.old[i] <= fun.node[i]
  /\ \A k \in 1..m : fun.new[k] \in Nat /\ fun.after[n + k] = fun.new[k]

\* Then the claims that count are within what is summed up for the limit.
LEMMA LimitSum ==
  ASSUME NEW n, NEW m, NEW set, NEW fun, Growth(n, m, set, fun), NEW limit \in Nat,
         SumFunctionOnSet(fun.node, set.nodes) + SumFunctionOnSet(fun.old, set.inflight)
           + SumFunctionOnSet(fun.new, 1..m) <= limit
  PROVE  SumFunctionOnSet(fun.after, set.young \cup ((n + 1)..(n + m))) <= limit
  <1> DEFINE young == set.young
             nodes == set.nodes
             inflight == set.inflight
             old == fun.old
             capacity == fun.node
             new == fun.new
             after == fun.after
  <1>0. /\ n \in Nat /\ m \in Nat
        /\ young \subseteq 1..n /\ nodes \subseteq 1..n /\ inflight \subseteq 1..n
        /\ young \subseteq nodes \cup inflight
        /\ \A i \in 1..n : old[i] \in Nat /\ after[i] = old[i]
        /\ \A i \in nodes : capacity[i] \in Nat /\ old[i] <= capacity[i]
        /\ \A k \in 1..m : new[k] \in Nat /\ after[n + k] = new[k]
        /\ SumFunctionOnSet(capacity, nodes) + SumFunctionOnSet(old, inflight)
             + SumFunctionOnSet(new, 1..m) <= limit
    BY DEF Growth
  <1>a. SUFFICES SumFunctionOnSet(after, young \cup ((n + 1)..(n + m))) <= limit
    OBVIOUS
  <1> HIDE DEF young, nodes, inflight, old, capacity, new, after
  <1> USE <1>0
  <1> DEFINE fresh == (n + 1)..(n + m)
             rest == inflight \ nodes
  <1>1. IsFiniteSet(1..n) /\ IsFiniteSet(1..m) /\ IsFiniteSet(fresh)
    BY FS_Interval
  <1>2. /\ IsFiniteSet(young) /\ IsFiniteSet(nodes) /\ IsFiniteSet(inflight)
        /\ IsFiniteSet(rest) /\ IsFiniteSet(nodes \cup rest)
    BY <1>1, FS_Subset
  <1>3. \A x \in fresh : after[x] \in Nat
    <2>1. SUFFICES ASSUME NEW x \in fresh PROVE after[x] \in Nat
      OBVIOUS
    <2>2. x - n \in 1..m /\ n + (x - n) = x
      OBVIOUS
    <2> QED BY <2>2
  <1>4. young \cap fresh = {}
    OBVIOUS
  <1> DEFINE Sum(f, S) == SumFunctionOnSet(f, S)
  <1>5. Sum(after, young \cup fresh) = Sum(after, young) + Sum(after, fresh)
    <2>1. \A x \in young \cup fresh : after[x] \in Nat
      BY <1>3
    <2> HIDE DEF fresh
    <2> QED BY <1>1, <1>2, <1>4, <2>1, SumUnion
  <1>6. Sum(after, fresh) = Sum(new, 1..m)
    <2>1. \A k \in 1..m : new[k] \in Nat /\ after[n + k] = new[k]
      OBVIOUS
    <2>2. n \in Nat /\ m \in Nat
      OBVIOUS
    <2> QED BY ONLY <2>1, <2>2, SumMoved
  <1>7. Sum(after, young) = Sum(old, young)
    <2>1. \A x \in young : after[x] \in Nat /\ after[x] = old[x]
      OBVIOUS
    <2> QED BY <1>2, <2>1, SumEqual
  <1>8. Sum(old, young) <= Sum(old, nodes \cup rest)
    <2> DEFINE all == nodes \cup rest
    <2>1. young \in SUBSET all /\ \A x \in all : old[x] \in Nat
      OBVIOUS
    <2>2. IsFiniteSet(all)
      BY <1>2
    <2> HIDE DEF all
    <2>3. Sum(old, young) <= Sum(old, all)
      BY <2>1, <2>2, SumPart
    <2> QED BY <2>3 DEF all
  <1>9. Sum(old, nodes \cup rest) = Sum(old, nodes) + Sum(old, rest)
    <2>1. nodes \cap rest = {} /\ \A x \in nodes \cup rest : old[x] \in Nat
      OBVIOUS
    <2> HIDE DEF rest
    <2> QED BY <1>2, <2>1, SumUnion
  <1>10. Sum(old, nodes) <= Sum(capacity, nodes)
    <2>1. \A x \in nodes : old[x] \in Nat /\ capacity[x] \in Nat /\ old[x] <= capacity[x]
      OBVIOUS
    <2> QED BY <1>2, <2>1, SumMonotonic
  <1>11. Sum(old, rest) <= Sum(old, inflight)
    <2>1. rest \in SUBSET inflight /\ \A x \in inflight : old[x] \in Nat
      OBVIOUS
    <2> HIDE DEF rest
    <2> QED BY <1>2, <2>1, SumPart
  <1>12. /\ Sum(old, young) \in Nat /\ Sum(new, 1..m) \in Nat /\ Sum(old, nodes) \in Nat
         /\ Sum(old, rest) \in Nat /\ Sum(capacity, nodes) \in Nat
         /\ Sum(old, inflight) \in Nat
    <2>1. /\ \A x \in young : old[x] \in Nat
          /\ \A x \in nodes : old[x] \in Nat /\ capacity[x] \in Nat
          /\ \A x \in rest : old[x] \in Nat
          /\ \A x \in inflight : old[x] \in Nat
          /\ \A x \in 1..m : new[x] \in Nat
      OBVIOUS
    <2> HIDE DEF rest
    <2> QED BY <1>1, <1>2, <2>1, SumType
  <1>13. Sum(capacity, nodes) + Sum(old, inflight) + Sum(new, 1..m) <= limit
    OBVIOUS
  <1>14. Sum(after, young \cup fresh) <= limit
    <2> HIDE DEF Sum, fresh, rest
    <2> QED BY <1>5, <1>6, <1>7, <1>8, <1>9, <1>10, <1>11, <1>12, <1>13
  <1> QED BY <1>14

\* What sequences of claims ask for.
LEMMA AskedFor ==
  ASSUME NEW cs \in Seq(Claim)
  PROVE  /\ IsFiniteSet(DOMAIN cs) /\ IsFiniteSet(Young(cs))
         /\ Young(cs) \subseteq DOMAIN cs
         /\ \A i \in DOMAIN cs : /\ cs[i].size \in Resources
                                 /\ Cpu(cs)[i] \in Nat /\ Cpu(cs)[i] = cs[i].size.cpu
                                 /\ Mem(cs)[i] \in Nat /\ Mem(cs)[i] = cs[i].size.mem
         /\ LET asked == Total([i \in {k \in DOMAIN cs : ~cs[k].aged} |-> cs[i].size])
            IN /\ asked.cpu = SumFunctionOnSet(Cpu(cs), Young(cs))
               /\ asked.mem = SumFunctionOnSet(Mem(cs), Young(cs))
  <1>1. IsFiniteSet(DOMAIN cs)
    BY FS_Interval
  <1>2. Young(cs) \subseteq DOMAIN cs
    BY DEF Young
  <1>3. IsFiniteSet(Young(cs))
    BY <1>1, <1>2, FS_Subset
  <1>4. \A i \in DOMAIN cs : cs[i].size \in Resources
    <2>1. \A i \in DOMAIN cs : cs[i] \in Claim
      OBVIOUS
    <2> QED BY <2>1 DEF Claim, Whole
  <1>5. \A i \in DOMAIN cs : /\ Cpu(cs)[i] \in Nat /\ Cpu(cs)[i] = cs[i].size.cpu
                             /\ Mem(cs)[i] \in Nat /\ Mem(cs)[i] = cs[i].size.mem
    BY <1>4 DEF Cpu, Mem, Resources
  <1> DEFINE S == Young(cs)
             size == [i \in S |-> cs[i].size]
             cpu == Cpu(cs)
             mem == Mem(cs)
  <1>6. /\ DOMAIN size = S
        /\ \A x \in S : size[x] \in Resources /\ cpu[x] = size[x].cpu /\ mem[x] = size[x].mem
    BY <1>2, <1>4, <1>5
  <1>7. Total(size).cpu = SumFunctionOnSet(cpu, S) /\ Total(size).mem = SumFunctionOnSet(mem, S)
    <2>1. IsFiniteSet(S)
      BY <1>3
    <2> HIDE DEF S, size, cpu, mem
    <2> QED BY <1>6, <2>1, TotalParts
  <1>8. [i \in {k \in DOMAIN cs : ~cs[k].aged} |-> cs[i].size] = size
    BY DEF Young
  <1> QED BY <1>1, <1>2, <1>3, <1>4, <1>5, <1>7, <1>8

\* The limits are kept when claims are created: exceedsPoolLimits counts the
\* nodes at least at what their claims asked for, and every other claim that is
\* not aged as one in flight.
LEMMA CreateWithin ==
  ASSUME TypeOK, NEW nodes, NEW new \in Seq(Whole), CreateClaims(nodes, new)
  PROVE  Within(claims')
  <1> DEFINE n == Len(claims)
             m == Len(new)
             capacity == [i \in Nodes |-> Capacity(i)]
             coming == [i \in Inflight |-> claims[i].size]
  <1>1. claims \in Seq(Claim) /\ n \in Nat /\ m \in Nat /\ DOMAIN claims = 1..n
        /\ DOMAIN new = 1..m
    BY DEF TypeOK
  <1>2. /\ claims' \in Seq(Claim) /\ DOMAIN claims' = 1..(n + m)
        /\ \A i \in 1..n : claims'[i] = claims[i]
        /\ \A k \in 1..m : claims'[n + k] = [size |-> new[k], phase |-> "pending",
                                             aged |-> FALSE]
    BY CreatedClaims DEF CreateClaims
  <1>3. /\ Nodes \in SUBSET (1..n) /\ Inflight \in SUBSET (1..n)
        /\ Young(claims) \in SUBSET (1..n)
        /\ Young(claims) \subseteq Nodes \cup Inflight
    BY <1>1 DEF Nodes, Inflight, NotReady, Young
  <1>4. Young(claims') = Young(claims) \cup ((n + 1)..(n + m))
    <2>1. \A i \in 1..n : i \in Young(claims') <=> i \in Young(claims)
      BY <1>1, <1>2 DEF Young
    <2>2. \A i \in (n + 1)..(n + m) : i \in Young(claims')
      <3>1. SUFFICES ASSUME NEW i \in (n + 1)..(n + m) PROVE i \in Young(claims')
        OBVIOUS
      <3>2. i - n \in 1..m /\ n + (i - n) = i /\ i \in 1..(n + m)
        BY <1>1
      <3>3. ~claims'[i].aged
        <4>1. claims'[n + (i - n)] = [size |-> new[i - n], phase |-> "pending",
                                      aged |-> FALSE]
          BY <1>2, <3>2
        <4> HIDE DEF n
        <4> QED BY <3>2, <4>1
      <3> QED BY <1>2, <3>2, <3>3 DEF Young
    <2>3. Young(claims') \subseteq 1..(n + m)
      BY <1>2 DEF Young
    <2>4. \A i \in 1..(n + m) : i \in 1..n \/ i \in (n + 1)..(n + m)
      BY <1>1
    <2> QED BY <1>3, <2>1, <2>2, <2>3, <2>4
  <1>5. /\ IsFiniteSet(Nodes) /\ IsFiniteSet(Inflight) /\ IsFiniteSet(DOMAIN new)
    <2> HIDE DEF n, m
    <2>1. IsFiniteSet(1..n) /\ IsFiniteSet(1..m)
      BY <1>1, FS_Interval
    <2> QED BY <1>1, <1>3, <2>1, FS_Subset
  <1>6. \A k \in 1..m : new[k] \in Resources
    BY DEF Whole
  <1> DEFINE newCpu == [k \in 1..m |-> new[k].cpu]
             newMem == [k \in 1..m |-> new[k].mem]
             capCpu == [i \in Nodes |-> Capacity(i).cpu]
             capMem == [i \in Nodes |-> Capacity(i).mem]
  <1>7. /\ \A k \in 1..m : newCpu[k] = new[k].cpu /\ newMem[k] = new[k].mem
        /\ \A i \in Nodes : capCpu[i] = Capacity(i).cpu /\ capMem[i] = Capacity(i).mem
    OBVIOUS
  <1>8. \A k \in 1..m : newCpu[k] \in Nat /\ newMem[k] \in Nat
    BY <1>6, <1>7 DEF Resources
  <1>9. /\ Total(new).cpu = SumFunctionOnSet(newCpu, 1..m)
        /\ Total(new).mem = SumFunctionOnSet(newMem, 1..m)
    <2> DEFINE S == 1..m
    <2>1. /\ IsFiniteSet(S) /\ DOMAIN new = S /\ \A k \in S : new[k] \in Resources
          /\ \A k \in S : newCpu[k] = new[k].cpu /\ newMem[k] = new[k].mem
      BY <1>1, <1>5, <1>6, <1>7
    <2> HIDE DEF newCpu, newMem, S
    <2>2. /\ Total(new).cpu = SumFunctionOnSet(newCpu, S)
          /\ Total(new).mem = SumFunctionOnSet(newMem, S)
      BY ONLY <2>1, TotalParts
    <2> QED BY <2>2 DEF S
  <1>10. /\ TotalCapacity.cpu = SumFunctionOnSet(capCpu, Nodes)
         /\ TotalCapacity.mem = SumFunctionOnSet(capMem, Nodes)
    <2>1. \A i \in Nodes : Capacity(i) \in Resources
      BY <1>1, <1>3, ClaimTypes
    <2>2. DOMAIN capacity = Nodes /\ \A i \in Nodes :
            capacity[i] \in Resources /\ capCpu[i] = capacity[i].cpu
            /\ capMem[i] = capacity[i].mem
      BY <2>1
    <2>3. TotalCapacity = Total(capacity)
      BY DEF TotalCapacity
    <2> HIDE DEF capacity, capCpu, capMem
    <2> QED BY <1>5, <2>2, <2>3, TotalParts
  <1>11. /\ Total(coming).cpu = SumFunctionOnSet(Cpu(claims), Inflight)
         /\ Total(coming).mem = SumFunctionOnSet(Mem(claims), Inflight)
    <2> DEFINE cpu == Cpu(claims)
               mem == Mem(claims)
    <2>1. DOMAIN coming = Inflight /\ \A i \in Inflight :
            coming[i] \in Resources /\ cpu[i] = coming[i].cpu /\ mem[i] = coming[i].mem
      BY <1>1, <1>3, AskedFor
    <2> HIDE DEF coming, cpu, mem
    <2>2. /\ Total(coming).cpu = SumFunctionOnSet(cpu, Inflight)
          /\ Total(coming).mem = SumFunctionOnSet(mem, Inflight)
      BY <1>5, <2>1, TotalParts
    <2> QED BY <2>2 DEF cpu, mem
  <1>12. /\ \A i \in 1..n : /\ Cpu(claims)[i] \in Nat /\ Cpu(claims')[i] = Cpu(claims)[i]
                            /\ Mem(claims)[i] \in Nat /\ Mem(claims')[i] = Mem(claims)[i]
         /\ \A k \in 1..m : /\ Cpu(claims')[n + k] = newCpu[k]
                            /\ Mem(claims')[n + k] = newMem[k]
    <2>1. \A i \in 1..n : i \in 1..(n + m)
      BY <1>1
    <2>2. \A k \in 1..m : n + k \in 1..(n + m)
      BY <1>1
    <2>3. \A i \in 1..n : Cpu(claims)[i] \in Nat /\ Mem(claims)[i] \in Nat
      BY <1>1, AskedFor
    <2>4. \A i \in 1..n : Cpu(claims')[i] = Cpu(claims)[i] /\ Mem(claims')[i] = Mem(claims)[i]
      BY <1>1, <1>2, <2>1 DEF Cpu, Mem
    <2>5. \A k \in 1..m : /\ Cpu(claims')[n + k] = newCpu[k]
                          /\ Mem(claims')[n + k] = newMem[k]
      <3>1. SUFFICES ASSUME NEW k \in 1..m
                     PROVE  /\ Cpu(claims')[n + k] = newCpu[k]
                            /\ Mem(claims')[n + k] = newMem[k]
        OBVIOUS
      <3>2. n + k \in DOMAIN claims'
        BY <1>2, <2>2
      <3>3. claims'[n + k].size = new[k]
        <4>1. claims'[n + k] = [size |-> new[k], phase |-> "pending", aged |-> FALSE]
          BY <1>2
        <4> HIDE DEF n, m
        <4> QED BY ONLY <4>1
      <3> HIDE DEF n
      <3>4. /\ Cpu(claims')[n + k] = claims'[n + k].size.cpu
            /\ Mem(claims')[n + k] = claims'[n + k].size.mem
        BY <3>2 DEF Cpu, Mem
      <3> QED BY <1>7, <3>3, <3>4
    <2> QED BY <2>3, <2>4, <2>5
  <1>13. \A i \in Nodes : /\ capCpu[i] \in Nat /\ Cpu(claims)[i] <= capCpu[i]
                          /\ capMem[i] \in Nat /\ Mem(claims)[i] <= capMem[i]
    <2>1. SUFFICES ASSUME NEW i \in Nodes
                   PROVE  /\ capCpu[i] \in Nat /\ Cpu(claims)[i] <= capCpu[i]
                          /\ capMem[i] \in Nat /\ Mem(claims)[i] <= capMem[i]
      OBVIOUS
    <2>2. /\ Cpu(claims)[i] \in Nat /\ Cpu(claims)[i] = claims[i].size.cpu
          /\ Mem(claims)[i] \in Nat /\ Mem(claims)[i] = claims[i].size.mem
      BY <1>1, <1>3, AskedFor
    <2>3. /\ Capacity(i).cpu = claims[i].size.cpu + 0
          /\ Capacity(i).mem = claims[i].size.mem + MemOverhead
      BY DEF Capacity, Plus
    <2>4. MemOverhead \in Nat
      BY ScaleUpAssumption
    <2>5. capCpu[i] = Capacity(i).cpu /\ capMem[i] = Capacity(i).mem
      OBVIOUS
    <2> HIDE DEF capCpu, capMem
    <2> QED BY <2>2, <2>3, <2>4, <2>5
  <1>14. Limit.cpu \in Nat /\ Limit.mem \in Nat
    BY ScaleUpAssumption DEF Resources
  <1>15. /\ Limit.cpu > 0 =>
              ~(TotalCapacity.cpu + Total(coming).cpu + Total(new).cpu > Limit.cpu)
         /\ Limit.mem > 0 =>
              ~(TotalCapacity.mem + Total(coming).mem + Total(new).mem > Limit.mem)
    BY DEF CreateClaims, Exceeded, Plus
  <1>16. ASSUME Limit.cpu > 0
         PROVE  SumFunctionOnSet(Cpu(claims'), Young(claims')) <= Limit.cpu
    <2> DEFINE old == Cpu(claims)
               after == Cpu(claims')
               young == Young(claims)
               C == SumFunctionOnSet(capCpu, Nodes)
               I == SumFunctionOnSet(old, Inflight)
               N == SumFunctionOnSet(newCpu, 1..m)
    <2> HIDE DEF capCpu, newCpu, capMem, newMem, capacity, n, m
    <2>1. C \in Nat /\ I \in Nat /\ N \in Nat
      <3>1. /\ \A i \in Nodes : capCpu[i] \in Nat
            /\ \A i \in Inflight : old[i] \in Nat
            /\ \A k \in 1..m : newCpu[k] \in Nat
        BY <1>3, <1>8, <1>12, <1>13
      <3>2. IsFiniteSet(1..m)
        BY <1>1, <1>5
      <3> HIDE DEF old
      <3> QED BY <1>5, <3>1, <3>2, SumType
    <2>2. C + I + N <= Limit.cpu
      <3>1. ~(C + I + N > Limit.cpu)
        BY <1>9, <1>10, <1>11, <1>15, <1>16
      <3> HIDE DEF C, I, N
      <3> QED BY <1>14, <2>1, <3>1
    <2>3. /\ \A i \in 1..n : old[i] \in Nat /\ after[i] = old[i]
          /\ \A i \in Nodes : capCpu[i] \in Nat /\ old[i] <= capCpu[i]
          /\ \A k \in 1..m : newCpu[k] \in Nat /\ after[n + k] = newCpu[k]
      BY <1>8, <1>12, <1>13
    <2>4. young \in SUBSET (1..n) /\ young \subseteq Nodes \cup Inflight
      BY <1>3
    <2> DEFINE set == [young |-> young, nodes |-> Nodes, inflight |-> Inflight]
               fun == [old |-> old, node |-> capCpu, new |-> newCpu, after |-> after]
    <2> HIDE DEF old, after, young
    <2>5. Growth(n, m, set, fun)
      BY <1>1, <1>3, <2>3, <2>4 DEF Growth
    <2>6. /\ set.young = young /\ set.nodes = Nodes /\ set.inflight = Inflight
          /\ fun.node = capCpu /\ fun.old = old /\ fun.new = newCpu /\ fun.after = after
      OBVIOUS
    <2> HIDE DEF set, fun
    <2>7. SumFunctionOnSet(fun.after, set.young \cup ((n + 1)..(n + m))) <= Limit.cpu
      BY <1>14, <2>2, <2>5, <2>6, LimitSum
    <2>8. SumFunctionOnSet(after, young \cup ((n + 1)..(n + m))) <= Limit.cpu
      BY <2>6, <2>7
    <2> QED BY <1>4, <2>8 DEF after, young
  <1>17. ASSUME Limit.mem > 0
         PROVE  SumFunctionOnSet(Mem(claims'), Young(claims')) <= Limit.mem
    <2> DEFINE old == Mem(claims)
               after == Mem(claims')
               young == Young(claims)
               C == SumFunctionOnSet(capMem, Nodes)
               I == SumFunctionOnSet(old, Inflight)
               N == SumFunctionOnSet(newMem, 1..m)
    <2> HIDE DEF capCpu, newCpu, capMem, newMem, capacity, n, m
    <2>1. C \in Nat /\ I \in Nat /\ N \in Nat
      <3>1. /\ \A i \in Nodes : capMem[i] \in Nat
            /\ \A i \in Inflight : old[i] \in Nat
            /\ \A k \in 1..m : newMem[k] \in Nat
        BY <1>3, <1>8, <1>12, <1>13
      <3>2. IsFiniteSet(1..m)
        BY <1>1, <1>5
      <3> HIDE DEF old
      <3> QED BY <1>5, <3>1, <3>2, SumType
    <2>2. C + I + N <= Limit.mem
      <3>1. ~(C + I + N > Limit.mem)
        BY <1>9, <1>10, <1>11, <1>15, <1>17
      <3> HIDE DEF C, I, N
      <3> QED BY <1>14, <2>1, <3>1
    <2>3. /\ \A i \in 1..n : old[i] \in Nat /\ after[i] = old[i]
          /\ \A i \in Nodes : capMem[i] \in Nat /\ old[i] <= capMem[i]
          /\ \A k \in 1..m : newMem[k] \in Nat /\ after[n + k] = newMem[k]
      BY <1>8, <1>12, <1>13
    <2>4. young \in SUBSET (1..n) /\ young \subseteq Nodes \cup Inflight
      BY <1>3
    <2> DEFINE set == [young |-> young, nodes |-> Nodes, inflight |-> Inflight]
               fun == [old |-> old, node |-> capMem, new |-> newMem, after |-> after]
    <2> HIDE DEF old, after, young
    <2>5. Growth(n, m, set, fun)
      BY <1>1, <1>3, <2>3, <2>4 DEF Growth
    <2>6. /\ set.young = young /\ set.nodes = Nodes /\ set.inflight = Inflight
          /\ fun.node = capMem /\ fun.old = old /\ fun.new = newMem /\ fun.after = after
      OBVIOUS
    <2> HIDE DEF set, fun
    <2>7. SumFunctionOnSet(fun.after, set.young \cup ((n + 1)..(n + m))) <= Limit.mem
      BY <1>14, <2>2, <2>5, <2>6, LimitSum
    <2>8. SumFunctionOnSet(after, young \cup ((n + 1)..(n + m))) <= Limit.mem
      BY <2>6, <2>7
    <2> QED BY <1>4, <2>8 DEF after, young
  <1> QED BY <1>16, <1>17 DEF Within

\* No step breaks the limits: claims keep their size, and one that ages counts no
\* more.
LEMMA LimitStep ==
  ASSUME TypeOK, TypeOK', LimitKept, [Next]_vars
  PROVE  LimitKept'
  <1>0. claims \in Seq(Claim) /\ claims' \in Seq(Claim)
    BY DEF TypeOK
  <1>1. Within(claims)
    BY <1>0, AskedFor DEF LimitKept, Within
  <1>2. SUFFICES Within(claims')
    BY <1>0, AskedFor DEF LimitKept, Within
  <1>3. CASE UNCHANGED claims
    BY <1>1, <1>3
  <1>4. ASSUME Reconcile \/ ReconcileWithoutNodes, ~UNCHANGED claims
        PROVE  Within(claims')
    <2>1. PICK nodes : /\ Plan(nodes) \in Seq(Wanted)
                       /\ CreateClaims(nodes, Plan(nodes))
      BY <1>4, Reconciles
    <2> DEFINE new == Plan(nodes)
    <2>2. new \in Seq(Wanted) /\ CreateClaims(nodes, new)
      BY <2>1
    <2> HIDE DEF new
    <2>3. Wanted \subseteq Whole
      BY DEF Wanted
    <2>4. new \in Seq(Whole)
      BY <2>2, <2>3
    <2> QED BY <2>2, <2>4, CreateWithin
  <1>5. ASSUME NEW i, ClaimStep(i) PROVE Within(claims')
    <2> DEFINE S == Young(claims)
               R == Young(claims')
               c == Cpu(claims)
               d == Cpu(claims')
               m == Mem(claims)
               k == Mem(claims')
    <2>1. /\ DOMAIN claims' = DOMAIN claims
          /\ \A j \in DOMAIN claims : /\ claims'[j].size = claims[j].size
                                      /\ claims[j].aged => claims'[j].aged
      BY <1>5, ClaimSteps
    <2>2. R \in SUBSET S /\ S \subseteq DOMAIN claims
      BY <2>1 DEF Young
    <2>3. IsFiniteSet(S) /\ IsFiniteSet(R)
      BY <1>0, AskedFor
    <2>4. \A j \in S : c[j] \in Nat /\ m[j] \in Nat
      BY <1>0, <2>2, AskedFor
    <2>5. \A j \in R : /\ c[j] \in Nat /\ c[j] = d[j]
                       /\ m[j] \in Nat /\ m[j] = k[j]
      BY <2>1, <2>2, <2>4 DEF Cpu, Mem
    <2> HIDE DEF S, R, c, d, m, k
    <2>6. /\ SumFunctionOnSet(c, R) <= SumFunctionOnSet(c, S)
          /\ SumFunctionOnSet(m, R) <= SumFunctionOnSet(m, S)
      BY <2>2, <2>3, <2>4, SumPart
    <2>7. /\ SumFunctionOnSet(c, R) = SumFunctionOnSet(d, R)
          /\ SumFunctionOnSet(m, R) = SumFunctionOnSet(k, R)
      BY <2>3, <2>5, SumEqual
    <2>8. /\ SumFunctionOnSet(c, R) \in Nat /\ SumFunctionOnSet(c, S) \in Nat
          /\ SumFunctionOnSet(m, R) \in Nat /\ SumFunctionOnSet(m, S) \in Nat
      BY <2>2, <2>3, <2>4, SumType
    <2>9. Limit.cpu \in Nat /\ Limit.mem \in Nat
      BY ScaleUpAssumption DEF Resources
    <2>10. /\ Limit.cpu > 0 => SumFunctionOnSet(c, S) <= Limit.cpu
           /\ Limit.mem > 0 => SumFunctionOnSet(m, S) <= Limit.mem
      BY <1>1 DEF Within, S, c, m
    <2>11. /\ Limit.cpu > 0 => SumFunctionOnSet(d, R) <= Limit.cpu
           /\ Limit.mem > 0 => SumFunctionOnSet(k, R) <= Limit.mem
      BY <2>6, <2>7, <2>8, <2>9, <2>10
    <2> QED BY <2>11 DEF Within, R, d, k
  <1>6. ASSUME NEW p, Schedule(p) \/ PodArrives(p) \/ PodLeaves(p)
        PROVE  Within(claims')
    BY <1>3, <1>6 DEF Schedule, PodArrives, PodLeaves
  <1> QED BY <1>3, <1>4, <1>5, <1>6, OtherSteps DEF vars

\* limits.cpuCores and limits.memoryMiB hold for the claims together, whatever is
\* planned, joins, ages or leaves, for any pods and any limits: exceedsPoolLimits
\* never undercounts.
THEOREM Limits == Spec => []LimitKept
  <1>1. ASSUME Init PROVE LimitKept
    <2>1. claims = <<>>
      BY <1>1 DEF Init
    <2>2. claims \in Seq(Claim)
      BY <2>1
    <2>3. Young(claims) = {}
      BY <2>1 DEF Young
    <2>4. /\ SumFunctionOnSet(Cpu(claims), Young(claims)) = 0
          /\ SumFunctionOnSet(Mem(claims), Young(claims)) = 0
      BY <2>3, SumEmpty
    <2>5. Limit.cpu \in Nat /\ Limit.mem \in Nat
      BY ScaleUpAssumption DEF Resources
    <2>6. Within(claims)
      BY <2>4, <2>5 DEF Within
    <2> QED BY <2>2, <2>6, AskedFor DEF LimitKept, Within
  <1> QED BY <1>1, LimitStep, TypeCorrect, PTL DEF Spec

-----------------------------------------------------------------------------
(* The size of a VM *)

\* A claim is large enough for a pod that waits, and so is its VM when what the
\* kubelet and the DaemonSets take of it is not more than the overhead it gets.
\* Otherwise it is not: planCapacity knows nothing of the difference.
THEOREM BigEnough ==
  ASSUME Fits(Reserve, [cpu |-> 0, mem |-> MemOverhead])
  PROVE  Spec => VMBigEnough
  <1> DEFINE Vm(size) == Minus(Plus(size, [cpu |-> 0, mem |-> MemOverhead]), Reserve)
  <1>1. ASSUME TypeOK, [Next]_vars
        PROVE  [\A k \in DOMAIN claims' \ DOMAIN claims : \E p \in Demands :
                  Fits(pods[p].requests, Vm(claims'[k].size))]_vars
    <2>1. SUFFICES ASSUME Next, NEW k \in DOMAIN claims' \ DOMAIN claims
                   PROVE  \E p \in Demands : Fits(pods[p].requests, Vm(claims'[k].size))
      BY <1>1
    <2>2. claims' # claims
      BY <2>1
    <2>3. ~\E i : ClaimStep(i)
      BY <1>1, <2>1, ClaimSteps
    <2>4. Reconcile \/ ReconcileWithoutNodes
      BY <2>1, <2>2, <2>3, OtherSteps DEF Schedule, PodArrives, PodLeaves
    <2>5. PICK nodes : Plan(nodes) \in Seq(Wanted) /\ CreateClaims(nodes, Plan(nodes))
      BY <1>1, <2>2, <2>4, Reconciles
    <2> DEFINE new == Plan(nodes)
               n == Len(claims)
    <2>6. new \in Seq(Wanted) /\ CreateClaims(nodes, new)
      BY <2>5
    <2> HIDE DEF new
    <2>7. new \in Seq(Whole)
      <3>1. Wanted \subseteq Whole
        BY DEF Wanted
      <3> QED BY <2>6, <3>1
    <2>8. /\ DOMAIN claims' = 1..(n + Len(new))
          /\ \A j \in 1..Len(new) :
               claims'[n + j] = [size |-> new[j], phase |-> "pending", aged |-> FALSE]
      BY <1>1, <2>6, <2>7, CreatedClaims DEF CreateClaims
    <2>9. n \in Nat /\ DOMAIN claims = 1..n /\ Len(new) \in Nat
      BY <1>1, <2>7, ClaimTypes
    <2> HIDE DEF n
    <2>10. k - n \in 1..Len(new) /\ n + (k - n) = k
      BY <2>1, <2>8, <2>9
    <2> DEFINE size == new[k - n]
    <2>11. claims'[k].size = size /\ size \in Wanted
      <3>1. claims'[n + (k - n)] = [size |-> new[k - n], phase |-> "pending",
                                    aged |-> FALSE]
        BY <2>8, <2>10
      <3>2. new[k - n] \in Wanted
        BY <2>6, <2>10
      <3> QED BY <2>10, <3>1, <3>2
    <2> HIDE DEF size
    <2>12. PICK p \in Demands : Fits(pods[p].requests, size)
      BY <2>11 DEF Wanted
    <2>13. /\ size.cpu \in Nat /\ size.mem \in Nat
           /\ pods[p].requests.cpu \in Nat /\ pods[p].requests.mem \in Nat
           /\ Reserve.cpu \in Nat /\ Reserve.mem \in Nat /\ MemOverhead \in Nat
      <3>1. pods[p].requests \in Resources
        BY <1>1, RequestsType DEF Demands, Candidates, Unschedulable
      <3>2. size \in Resources
        BY <2>11 DEF Wanted, Whole
      <3> QED BY <3>1, <3>2, ScaleUpAssumption DEF Resources
    <2>14. Reserve.cpu <= 0 /\ Reserve.mem <= MemOverhead
      BY DEF Fits
    <2>15. /\ Vm(size).cpu = Less(size.cpu + 0, Reserve.cpu)
           /\ Vm(size).mem = Less(size.mem + MemOverhead, Reserve.mem)
      BY DEF Minus, Plus
    <2>16. ASSUME NEW a \in Nat, NEW b \in Nat, NEW c \in Nat, c <= b
           PROVE  a <= Less(a + b, c)
      BY <2>16 DEF Less
    <2>17. /\ size.cpu <= Less(size.cpu + 0, Reserve.cpu)
           /\ size.mem <= Less(size.mem + MemOverhead, Reserve.mem)
      BY <2>13, <2>14, <2>16
    <2>18. /\ Less(size.cpu + 0, Reserve.cpu) \in Nat
           /\ Less(size.mem + MemOverhead, Reserve.mem) \in Nat
      BY <2>13 DEF Less
    <2> HIDE DEF Vm
    <2>19. Fits(pods[p].requests, Vm(size))
      BY <2>12, <2>13, <2>15, <2>17, <2>18 DEF Fits
    <2> QED BY <2>11, <2>19
  <1> QED BY <1>1, TypeCorrect, PTL DEF Spec, VMBigEnough
=============================================================================
