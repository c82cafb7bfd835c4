------------------------ MODULE ScaleUpGrowthProofs -------------------------
(***************************************************************************)
(* That planCapacity plans no claim without need and room for everyone,    *)
(* that a pool does not run away, and that podMatchesPool is exact, proved *)
(* of ScaleUp for all pods, sizes and limits.                              *)
(***************************************************************************)
EXTENDS ScaleUpProofs

-----------------------------------------------------------------------------
(* A plan *)

\* What holds of a plan in progress and is kept by a turn of the loop holds in
\* the end: the invariant is given as the set of the plans that satisfy it.
LEMMA PlannedInduction ==
  ASSUME TypeOK, NEW template \in Resources, NEW S \in SUBSET Progress,
         \A x \in S : x.todo # {} => Place(x, template) \in S,
         NEW plan \in S
  PROVE  \E last \in S : last.todo = {} /\ Planned(template)[plan] = last.new
  <1> DEFINE result == Planned(template)
             Good(x) == \E last \in S : last.todo = {} /\ result[x] = last.new
             T == {n \in Nat : \A x \in S : Cardinality(x.todo) = n => Good(x)}
  <1>1. \A x \in S :
          /\ x \in Progress
          /\ IsFiniteSet(x.todo) /\ Cardinality(x.todo) \in Nat
          /\ Cardinality(x.todo) = 0 <=> x.todo = {}
    <2>1. \A x \in S : x \in Progress /\ x.todo \in SUBSET Pods
      BY DEF Progress
    <2> QED BY <2>1, PodsFinite, FS_Subset, FS_CardinalityType, FS_EmptySet
  <1>2. \A x \in S : result[x] = IF x.todo = {} THEN x.new ELSE result[Place(x, template)]
    <2>1. result = [x \in Progress |-> IF x.todo = {} THEN x.new
                                       ELSE result[Place(x, template)]]
      BY PlannedDefined
    <2> HIDE DEF result
    <2> QED BY <1>1, <2>1
  <1> HIDE DEF result
  <1>3. 0 \in T
    BY <1>1, <1>2
  <1>4. ASSUME NEW n \in Nat, n \in T PROVE n + 1 \in T
    <2>1. SUFFICES ASSUME NEW x \in S, Cardinality(x.todo) = n + 1 PROVE Good(x)
      OBVIOUS
    <2> DEFINE y == Place(x, template)
               pod == First(x.todo)
    <2>2. x.todo # {}
      BY <1>1, <2>1
    <2>3. y \in S /\ result[x] = result[y]
      BY <1>2, <2>2
    <2>4. pod \in x.todo /\ y.todo = x.todo \ {pod}
      BY <1>1, <2>2, PlaceOne
    <2> HIDE DEF y, pod
    <2>5. Cardinality(x.todo \ {pod}) = Cardinality(x.todo) - 1
      BY <1>1, <2>4, FS_RemoveElement
    <2>6. Cardinality(y.todo) = n
      BY <2>1, <2>4, <2>5
    <2> QED BY <1>4, <2>3, <2>6
  <1>5. Nat \subseteq T
    <2> HIDE DEF T
    <2> QED BY <1>3, <1>4, SetOfNaturals
  <1>6. Good(plan)
    <2> HIDE DEF Good
    <2> QED BY <1>1, <1>5
  <1> QED BY <1>6 DEF result

\* A turn of the loop in full: the pod goes into a bucket that it fits, or it fits
\* none and gets a new one, for which a claim is planned.
LEMMA PlaceTurn ==
  ASSUME TypeOK, NEW template \in Resources, NEW plan \in Progress, plan.todo # {}
  PROVE  LET request == pods[First(plan.todo)].requests
             size == Larger(template, request)
             after == Place(plan, template)
         IN \/ /\ after.new = plan.new
               /\ \E k \in DOMAIN plan.buckets :
                    /\ Fits(request, plan.buckets[k])
                    /\ after.buckets = [plan.buckets EXCEPT
                                          ![k] = Minus(plan.buckets[k], request)]
            \/ /\ \A k \in DOMAIN plan.buckets : ~Fits(request, plan.buckets[k])
               /\ after.buckets = Append(plan.buckets, Minus(size, request))
               /\ after.new = Append(plan.new, RoundedUp(size))
  <1> DEFINE pod == First(plan.todo)
             request == pods[pod].requests
             fit == {k \in DOMAIN plan.buckets : Fits(request, plan.buckets[k])}
             size == Larger(template, request)
             left == plan.todo \ {pod}
             after == Place(plan, template)
  <1>1. /\ plan.buckets \in Seq(Resources)
        /\ plan = [todo |-> plan.todo, buckets |-> plan.buckets, new |-> plan.new]
    BY DEF Progress
  <1>2. after = IF fit # {}
                THEN [plan EXCEPT !.todo = left, !.buckets[Min(fit)] = Minus(@, request)]
                ELSE [todo |-> left, buckets |-> Append(plan.buckets, Minus(size, request)),
                      new |-> Append(plan.new, RoundedUp(size))]
    BY DEF Place
  <1> HIDE DEF pod, request, left, after
  <1>3. CASE fit # {}
    <2> DEFINE k == Min(fit)
               buckets == [plan.buckets EXCEPT ![k] = Minus(plan.buckets[k], request)]
    <2>1. k \in fit
      <3>1. fit \in SUBSET Nat
        BY <1>1
      <3> HIDE DEF fit
      <3> QED BY <1>3, <3>1, LeastElement
    <2>2. after = [todo |-> left, buckets |-> buckets, new |-> plan.new]
      <3>1. after = [plan EXCEPT !.todo = left, !.buckets[k] = Minus(@, request)]
        BY <1>2, <1>3
      <3>2. after = [plan EXCEPT !.todo = left, !.buckets = buckets]
        BY <3>1
      <3> HIDE DEF buckets
      <3> QED BY <1>1, <3>2
    <2>3. k \in DOMAIN plan.buckets /\ Fits(request, plan.buckets[k])
      BY <2>1
    <2> HIDE DEF k, fit, buckets
    <2>4. after.new = plan.new /\ after.buckets = buckets
      BY <2>2
    <2> QED BY <2>3, <2>4 DEF pod, request, after, buckets
  <1>4. CASE fit = {}
    <2>1. /\ after.buckets = Append(plan.buckets, Minus(size, request))
          /\ after.new = Append(plan.new, RoundedUp(size))
      BY <1>2, <1>4
    <2>2. \A k \in DOMAIN plan.buckets : ~Fits(request, plan.buckets[k])
      BY <1>4
    <2> QED BY <2>1, <2>2 DEF pod, request, after
  <1> QED BY <1>3, <1>4

\* The buckets that had room for pod p when the loop began.
RoomFor(start, p) == {b \in DOMAIN start : Fits(pods[p].requests, start[b])}

\* The planned claims are for different pods, which fit them, and of the buckets
\* there were, too few had room for such a pod to serve all the pods that wait.
Needed(new, start, waiting) ==
  \E who \in [DOMAIN new -> waiting] :
    /\ \A k, l \in DOMAIN new : who[k] = who[l] => k = l
    /\ \A k \in DOMAIN new :
         /\ Fits(pods[who[k]].requests, new[k])
         /\ Cardinality(RoomFor(start, who[k])) < Cardinality(Demands)

Changed(plan, start) == {b \in DOMAIN start : plan.buckets[b] # start[b]}

\* A bucket changes only when a pod is placed in it, so that there are at most as
\* many changed ones as pods that have been placed.
Sound(plan, start) ==
  /\ plan.todo \subseteq Demands
  /\ DOMAIN start \subseteq DOMAIN plan.buckets
  /\ Cardinality(Changed(plan, start)) + Cardinality(plan.todo) <= Cardinality(Demands)
  /\ Needed(plan.new, start, Demands \ plan.todo)

\* The pods that wait are finitely many.
LEMMA DemandsFinite ==
  ASSUME NEW s \in SUBSET Demands
  PROVE  /\ s \in SUBSET Pods /\ IsFiniteSet(s) /\ Cardinality(s) \in Nat
         /\ Cardinality(s) <= Cardinality(Demands) /\ Cardinality(Demands) \in Nat
         /\ IsFiniteSet(Demands)
  <1>1. Demands \in SUBSET Pods
    BY DEF Demands, Candidates, Unschedulable
  <1>2. IsFiniteSet(Demands) /\ Cardinality(Demands) \in Nat
    BY <1>1, PodsFinite, FS_Subset, FS_CardinalityType
  <1> QED BY <1>1, <1>2, FS_Subset, FS_CardinalityType

\* A turn of the loop keeps this.
LEMMA PlaceSound ==
  ASSUME TypeOK, NEW template \in Resources, NEW start \in Seq(Resources),
         NEW plan \in Progress, plan.todo # {}, Sound(plan, start)
  PROVE  Place(plan, template) \in Progress /\ Sound(Place(plan, template), start)
  <1> DEFINE pod == First(plan.todo)
             request == pods[pod].requests
             size == Larger(template, request)
             after == Place(plan, template)
  <1>1. /\ plan.todo \in SUBSET Demands /\ DOMAIN start \subseteq DOMAIN plan.buckets
        /\ Cardinality(Changed(plan, start)) + Cardinality(plan.todo) <= Cardinality(Demands)
        /\ plan.buckets \in Seq(Resources) /\ plan.new \in Seq(Resources)
    BY DEF Sound, Progress
  <1>2. /\ pod \in plan.todo /\ after \in Progress /\ after.todo = plan.todo \ {pod}
        /\ \/ after.new = plan.new
           \/ \E s \in Whole : after.new = Append(plan.new, s) /\ Fits(request, s)
    BY PlaceOne
  <1>3. \/ /\ after.new = plan.new
           /\ \E k \in DOMAIN plan.buckets :
                /\ Fits(request, plan.buckets[k])
                /\ after.buckets = [plan.buckets EXCEPT
                                      ![k] = Minus(plan.buckets[k], request)]
        \/ /\ \A k \in DOMAIN plan.buckets : ~Fits(request, plan.buckets[k])
           /\ after.buckets = Append(plan.buckets, Minus(size, request))
           /\ after.new = Append(plan.new, RoundedUp(size))
    BY PlaceTurn
  <1>4. /\ IsFiniteSet(plan.todo) /\ Cardinality(plan.todo) \in Nat
        /\ Cardinality(after.todo) = Cardinality(plan.todo) - 1
        /\ after.todo \subseteq Demands /\ Cardinality(Demands) \in Nat
    <2>1. IsFiniteSet(plan.todo) /\ Cardinality(plan.todo) \in Nat
          /\ Cardinality(Demands) \in Nat
      BY <1>1, DemandsFinite
    <2>2. Cardinality(plan.todo \ {pod}) = Cardinality(plan.todo) - 1
      BY <1>2, <2>1, FS_RemoveElement
    <2> QED BY <1>1, <1>2, <2>1, <2>2
  <1>5. /\ IsFiniteSet(DOMAIN start)
        /\ IsFiniteSet(Changed(plan, start)) /\ Cardinality(Changed(plan, start)) \in Nat
        /\ IsFiniteSet(Changed(after, start)) /\ Cardinality(Changed(after, start)) \in Nat
    <2>1. DOMAIN start = 1..Len(start) /\ Len(start) \in Nat
      OBVIOUS
    <2>2. IsFiniteSet(DOMAIN start)
      BY <2>1, FS_Interval
    <2> QED BY <2>2, FS_Subset, FS_CardinalityType DEF Changed
  <1>6. PICK who \in [DOMAIN plan.new -> Demands \ plan.todo] :
          /\ \A k, l \in DOMAIN plan.new : who[k] = who[l] => k = l
          /\ \A k \in DOMAIN plan.new :
               /\ Fits(pods[who[k]].requests, plan.new[k])
               /\ Cardinality(RoomFor(start, who[k])) < Cardinality(Demands)
    BY DEF Sound, Needed
  <1> HIDE DEF after, pod, size
  <1>7. CASE /\ after.new = plan.new
             /\ \E k \in DOMAIN plan.buckets :
                  /\ Fits(request, plan.buckets[k])
                  /\ after.buckets = [plan.buckets EXCEPT
                                        ![k] = Minus(plan.buckets[k], request)]
    <2>1. PICK k \in DOMAIN plan.buckets :
            after.buckets = [plan.buckets EXCEPT ![k] = Minus(plan.buckets[k], request)]
      BY <1>7
    <2>2. /\ DOMAIN after.buckets = DOMAIN plan.buckets
          /\ \A b \in DOMAIN plan.buckets : b # k => after.buckets[b] = plan.buckets[b]
      BY <2>1
    <2>3. Changed(after, start) \subseteq Changed(plan, start) \cup {k}
      BY <1>1, <2>2 DEF Changed
    <2>4. Cardinality(Changed(after, start)) <= Cardinality(Changed(plan, start)) + 1
      <3>1. /\ IsFiniteSet(Changed(plan, start) \cup {k})
            /\ Cardinality(Changed(plan, start) \cup {k})
                 = IF k \in Changed(plan, start) THEN Cardinality(Changed(plan, start))
                   ELSE Cardinality(Changed(plan, start)) + 1
        BY <1>5, FS_AddElement
      <3>2. Cardinality(Changed(after, start)) <= Cardinality(Changed(plan, start) \cup {k})
        BY <2>3, <3>1, FS_Subset
      <3> QED BY <1>5, <3>1, <3>2
    <2>5. Cardinality(Changed(after, start)) + Cardinality(after.todo) <= Cardinality(Demands)
      BY <1>1, <1>4, <1>5, <2>4
    <2>6. Needed(after.new, start, Demands \ after.todo)
      <3>1. who \in [DOMAIN after.new -> Demands \ after.todo]
        BY <1>2, <1>6, <1>7
      <3> QED BY <1>6, <1>7, <3>1 DEF Needed
    <2> QED BY <1>1, <1>2, <1>4, <2>2, <2>5, <2>6 DEF Sound, after
  <1>8. CASE /\ \A k \in DOMAIN plan.buckets : ~Fits(request, plan.buckets[k])
             /\ after.buckets = Append(plan.buckets, Minus(size, request))
             /\ after.new = Append(plan.new, RoundedUp(size))
    <2> DEFINE n == Len(plan.new)
               s == RoundedUp(size)
    <2>1. /\ n \in Nat /\ DOMAIN plan.new = 1..n /\ DOMAIN after.new = 1..(n + 1)
          /\ after.new[n + 1] = s /\ \A k \in 1..n : after.new[k] = plan.new[k]
      BY <1>1, <1>8
    <2>2. Fits(request, s)
      <3>1. after.new # plan.new
        <4>1. Len(after.new) = n + 1 /\ Len(plan.new) = n
          BY <1>1, <1>8
        <4> QED BY <2>1, <4>1
      <3>2. PICK r \in Whole : after.new = Append(plan.new, r) /\ Fits(request, r)
        BY <1>2, <3>1
      <3>3. after.new[n + 1] = r
        BY <1>1, <3>2
      <3> QED BY <2>1, <3>2, <3>3
    <2>3. /\ DOMAIN plan.buckets \subseteq DOMAIN after.buckets
          /\ \A b \in DOMAIN plan.buckets : after.buckets[b] = plan.buckets[b]
      BY <1>1, <1>8
    <2>4. Changed(after, start) = Changed(plan, start)
      BY <1>1, <2>3 DEF Changed
    <2>5. Cardinality(Changed(after, start)) + Cardinality(after.todo) <= Cardinality(Demands)
      BY <1>1, <1>4, <1>5, <2>4
    <2>6. Cardinality(RoomFor(start, pod)) < Cardinality(Demands)
      <3>1. RoomFor(start, pod) \subseteq Changed(plan, start)
        BY <1>1, <1>8 DEF RoomFor, Changed
      <3>2. /\ Cardinality(RoomFor(start, pod)) <= Cardinality(Changed(plan, start))
            /\ Cardinality(RoomFor(start, pod)) \in Nat
        BY <1>5, <3>1, FS_Subset, FS_CardinalityType
      <3>3. Cardinality(plan.todo) > 0
        BY <1>2, <1>4, FS_EmptySet
      <3> QED BY <1>1, <1>4, <1>5, <3>2, <3>3
    <2> DEFINE whoAll == [k \in 1..(n + 1) |-> IF k = n + 1 THEN pod ELSE who[k]]
    <2>7. /\ whoAll \in [1..(n + 1) -> Demands \ after.todo]
          /\ whoAll[n + 1] = pod /\ \A k \in 1..n : whoAll[k] = who[k]
      <3>1. \A k \in 1..(n + 1) : k = n + 1 \/ k \in 1..n
        BY <2>1
      <3>2. pod \in Demands \ after.todo /\ \A k \in 1..n : who[k] \in Demands \ after.todo
        BY <1>1, <1>2, <1>6, <2>1
      <3>3. n + 1 \in 1..(n + 1) /\ \A k \in 1..n : k \in 1..(n + 1) /\ k # n + 1
        BY <2>1
      <3> QED BY <3>1, <3>2, <3>3
    <2>8. \A k \in 1..n : who[k] # pod
      BY <1>2, <1>6, <2>1
    <2>9. \A k \in 1..(n + 1) : k = n + 1 \/ k \in 1..n
      BY <2>1
    <2> HIDE DEF whoAll, n, s
    <2>10. \A k, l \in 1..(n + 1) : whoAll[k] = whoAll[l] => k = l
      BY <1>6, <2>1, <2>7, <2>8, <2>9
    <2>11. \A k \in 1..(n + 1) :
             /\ Fits(pods[whoAll[k]].requests, after.new[k])
             /\ Cardinality(RoomFor(start, whoAll[k])) < Cardinality(Demands)
      BY <1>6, <2>1, <2>2, <2>6, <2>7, <2>9
    <2>12. Needed(after.new, start, Demands \ after.todo)
      BY <2>1, <2>7, <2>10, <2>11 DEF Needed
    <2> QED BY <1>1, <1>2, <1>4, <2>3, <2>5, <2>12 DEF Sound, after
  <1> QED BY <1>3, <1>7, <1>8

\* A plan without claims is for no pod.
LEMMA NothingNeeded ==
  ASSUME NEW start, NEW waiting
  PROVE  Needed(<<>>, start, waiting)
  <1>1. DOMAIN <<>> = {}
    OBVIOUS
  <1>2. [x \in {} |-> x] \in [DOMAIN <<>> -> waiting]
    BY <1>1
  <1>3. \A k \in DOMAIN <<>> : FALSE
    BY <1>1
  <1> QED BY <1>2, <1>3 DEF Needed

\* planCapacity plans no claim without need.
LEMMA PlanIsNeeded ==
  ASSUME TypeOK, NEW nodes \in SUBSET DOMAIN claims
  PROVE  Needed(Plan(nodes), Buckets(nodes), Demands)
  <1> DEFINE start == Buckets(nodes)
             template == NodeCapacity(nodes)
             first == [todo |-> Demands, buckets |-> start, new |-> <<>>]
             S == {x \in Progress : Sound(x, start)}
  <1>1. CASE Candidates # {} /\ TemplateKnown(nodes)
    <2>1. start \in Seq(Resources) /\ template \in Resources
      BY BucketsType, NodeCapacityType
    <2>2. Plan(nodes) = Planned(template)[first]
      BY <1>1 DEF Plan
    <2> HIDE DEF start, template
    <2>3. first \in Progress /\ first.todo = Demands /\ first.buckets = start
          /\ first.new = <<>>
      <3>1. Demands \in SUBSET Pods /\ <<>> \in Seq(Resources)
        BY DemandsFinite
      <3> QED BY <2>1, <3>1 DEF Progress
    <2> HIDE DEF first
    <2>4. Sound(first, start)
      <3>1. Changed(first, start) = {}
        BY <2>3 DEF Changed
      <3>2. Cardinality(Changed(first, start)) = 0
        BY <3>1, FS_EmptySet
      <3>3. Cardinality(Demands) \in Nat
        BY DemandsFinite
      <3>4. Needed(first.new, start, Demands \ first.todo)
        BY <2>3, NothingNeeded
      <3>5. Cardinality(Changed(first, start)) + Cardinality(Demands) <= Cardinality(Demands)
        BY <3>2, <3>3
      <3> QED BY <2>3, <3>4, <3>5 DEF Sound
    <2>5. \A x \in S : x.todo # {} => Place(x, template) \in S
      BY <2>1, PlaceSound
    <2>6. first \in S /\ S \in SUBSET Progress
      BY <2>3, <2>4
    <2>7. PICK last \in S : last.todo = {} /\ Planned(template)[first] = last.new
      <3> HIDE DEF S
      <3> QED BY <2>1, <2>5, <2>6, PlannedInduction
    <2>8. Needed(last.new, start, Demands \ last.todo) /\ Demands \ last.todo = Demands
      BY <2>7 DEF Sound
    <2>9. Needed(last.new, start, Demands)
      BY <2>8
    <2> QED BY <2>2, <2>7, <2>9 DEF start
  <1>2. CASE ~(Candidates # {} /\ TemplateKnown(nodes))
    <2>1. Plan(nodes) = <<>>
      BY <1>2 DEF Plan
    <2> QED BY <2>1, NothingNeeded
  <1> QED BY <1>1, <1>2

-----------------------------------------------------------------------------
(* How many claims there are for one pod *)

\* The buckets of a reconcile that has listed the nodes: one for each claim by its
\* node, and one by its requirements.
LEMMA BucketsOfClaims ==
  ASSUME TypeOK
  PROVE  LET n == Len(claims) IN
         /\ DOMAIN Buckets(Nodes) = 1..(n + n)
         /\ \A i \in Nodes : Buckets(Nodes)[i] = Room(i)
         /\ \A i \in NotReady : Buckets(Nodes)[n + i] = claims[i].size
  <1> DEFINE n == Len(claims)
             old == [i \in DOMAIN claims |-> IF i \in Nodes THEN Room(i) ELSE Nothing]
             coming == [i \in DOMAIN claims |-> IF i \in NotReady THEN claims[i].size
                                                ELSE Nothing]
  <1>1. n \in Nat /\ DOMAIN claims = 1..n
    BY ClaimTypes
  <1>2. /\ \A i \in DOMAIN claims : claims[i].size \in Resources /\ Room(i) \in Resources
        /\ Nothing \in Resources
    BY ClaimTypes, RoomType DEF Nothing, Resources
  <1>3. old \in [1..n -> Resources] /\ coming \in [1..n -> Resources]
    BY <1>1, <1>2
  <1>4. /\ old \in Seq(Resources) /\ coming \in Seq(Resources)
        /\ Len(old) = n /\ Len(coming) = n
    BY <1>1, <1>3, SeqDef
  <1>5. /\ \A i \in Nodes : i \in 1..n /\ old[i] = Room(i)
        /\ \A i \in NotReady : i \in 1..n /\ coming[i] = claims[i].size
    BY <1>1 DEF Nodes, NotReady
  <1>6. Buckets(Nodes) = old \o coming
    BY DEF Buckets
  <1> HIDE DEF old, coming, n
  <1>7. /\ Len(old \o coming) = n + n /\ old \o coming \in Seq(Resources)
        /\ \A i \in 1..(n + n) : (old \o coming)[i] = IF i <= n THEN old[i]
                                                      ELSE coming[i - n]
    <2>1. /\ Len(old \o coming) = Len(old) + Len(coming)
          /\ old \o coming \in Seq(Resources)
          /\ \A i \in 1..(Len(old) + Len(coming)) :
               (old \o coming)[i] = IF i <= Len(old) THEN old[i] ELSE coming[i - Len(old)]
      BY <1>4, ConcatProperties
    <2>2. Len(old) = n /\ Len(coming) = n
      BY <1>4
    <2> QED BY ONLY <2>1, <2>2
  <1>8. DOMAIN Buckets(Nodes) = 1..(n + n)
    BY <1>6, <1>7
  <1>9. \A i \in 1..n : (old \o coming)[i] = old[i] /\ (old \o coming)[n + i] = coming[i]
    <2>1. ASSUME NEW i \in 1..n
          PROVE  /\ i \in 1..(n + n) /\ i <= n /\ n + i \in 1..(n + n)
                 /\ ~(n + i <= n) /\ (n + i) - n = i
      BY <1>1
    <2> QED BY <1>7, <2>1
  <1> QED BY <1>5, <1>6, <1>8, <1>9 DEF n

\* A VM whose overhead makes up for what the kubelet takes has room for what its
\* claim asked for as long as no pod runs on it.
LEMMA EmptyNodeHasRoom ==
  ASSUME TypeOK, Fits(Reserve, [cpu |-> 0, mem |-> MemOverhead]),
         NEW i \in DOMAIN claims, \A q \in Pods : place[q] # i,
         NEW r \in Resources, Fits(r, claims[i].size)
  PROVE  Fits(r, Room(i))
  <1> DEFINE size == claims[i].size
             used == Total([p \in {q \in Pods : place[q] = i} |-> pods[p].requests])
  <1>1. {q \in Pods : place[q] = i} = {}
    OBVIOUS
  <1>2. used.cpu = 0 /\ used.mem = 0
    <2> DEFINE f == [p \in {q \in Pods : place[q] = i} |-> pods[p].requests]
    <2>1. DOMAIN f = {}
      BY <1>1
    <2> HIDE DEF f
    <2>2. \A g : DOMAIN g = {} => SumFunction(g) = 0
      BY SumEmpty DEF SumFunction
    <2>3. Total(f).cpu = 0 /\ Total(f).mem = 0
      BY <2>1, <2>2 DEF Total
    <2> QED BY <2>3 DEF f
  <1>3. /\ size.cpu \in Nat /\ size.mem \in Nat /\ r.cpu \in Nat /\ r.mem \in Nat
        /\ Reserve.cpu \in Nat /\ Reserve.mem \in Nat /\ MemOverhead \in Nat
    BY ClaimTypes, ScaleUpAssumption DEF Resources
  <1>4. Reserve.cpu <= 0 /\ Reserve.mem <= MemOverhead
    BY DEF Fits
  <1>5. r.cpu <= size.cpu /\ r.mem <= size.mem
    BY DEF Fits
  <1>6. /\ Room(i).cpu = Less(Less(size.cpu + 0, Reserve.cpu), used.cpu)
        /\ Room(i).mem = Less(Less(size.mem + MemOverhead, Reserve.mem), used.mem)
    BY DEF Room, Allocatable, Capacity, Minus, Plus
  <1> HIDE DEF size, used
  <1>7. r.cpu <= Room(i).cpu /\ r.mem <= Room(i).mem
    BY <1>2, <1>3, <1>4, <1>5, <1>6 DEF Less
  <1> QED BY <1>7 DEF Fits

\* A pod for which a claim is planned has had few claims so far: each of those that
\* it fits runs a pod by now, or the plan has given its room to one that waits.
LEMMA FewForOne ==
  ASSUME TypeOK, Fits(Reserve, [cpu |-> 0, mem |-> MemOverhead]),
         NEW p \in Demands,
         Cardinality(RoomFor(Buckets(Nodes), p)) < Cardinality(Demands),
         NEW S \in SUBSET DOMAIN claims,
         \A i \in S : Fits(pods[p].requests, claims[i].size)
  PROVE  IsFiniteSet(S) /\ Cardinality(S) < MaxPods
  <1> DEFINE n == Len(claims)
             busy == {i \in S : \E q \in Pods : place[q] = i}
             free == S \ busy
             placed == {q \in Pods : place[q] # 0}
             room == RoomFor(Buckets(Nodes), p)
  <1>1. /\ n \in Nat /\ DOMAIN claims = 1..n /\ IsFiniteSet(S) /\ IsFiniteSet(busy)
        /\ IsFiniteSet(free) /\ Cardinality(S) = Cardinality(busy) + Cardinality(free)
        /\ Cardinality(busy) \in Nat /\ Cardinality(free) \in Nat
    <2>1. n \in Nat /\ DOMAIN claims = 1..n /\ IsFiniteSet(S)
      BY ClaimTypes, FS_Subset
    <2>2. /\ busy \in SUBSET S /\ free \in SUBSET S /\ busy \cup free = S
          /\ busy \cap free = {}
      OBVIOUS
    <2> HIDE DEF busy, free
    <2>3. IsFiniteSet(busy) /\ IsFiniteSet(free)
      BY <2>1, <2>2, FS_Subset
    <2>4. Cardinality(busy \cup free)
            = Cardinality(busy) + Cardinality(free) - Cardinality(busy \cap free)
      BY <2>3, FS_Union
    <2>5. Cardinality(busy \cap free) = 0
      BY <2>2, FS_EmptySet
    <2>6. Cardinality(busy) \in Nat /\ Cardinality(free) \in Nat
      BY <2>3, FS_CardinalityType
    <2>7. Cardinality(S) = Cardinality(busy) + Cardinality(free)
      <3>1. Cardinality(S) = Cardinality(busy) + Cardinality(free) - 0
        BY ONLY <2>2, <2>4, <2>5
      <3> QED BY ONLY <2>6, <3>1
    <2> QED BY <2>1, <2>3, <2>6, <2>7
  <1>2. /\ IsFiniteSet(placed) /\ Cardinality(placed) \in Nat /\ Cardinality(Demands) \in Nat
        /\ Cardinality(placed) + Cardinality(Demands) <= MaxPods
    <2>1. /\ placed \in SUBSET Pods /\ Demands \in SUBSET Pods /\ placed \cap Demands = {}
      BY DEF Demands, Candidates, Unschedulable
    <2> HIDE DEF placed
    <2>2. /\ IsFiniteSet(placed) /\ Cardinality(placed) \in Nat
          /\ IsFiniteSet(Demands) /\ Cardinality(Demands) \in Nat
      BY <2>1, PodsFinite, FS_Subset, FS_CardinalityType
    <2>3. /\ IsFiniteSet(placed \cup Demands)
          /\ Cardinality(placed \cup Demands)
               = Cardinality(placed) + Cardinality(Demands) - Cardinality(placed \cap Demands)
      BY <2>2, FS_Union
    <2>4. Cardinality(placed \cap Demands) = 0
      BY <2>1, FS_EmptySet
    <2>5. Cardinality(placed \cup Demands) <= MaxPods
      <3>1. placed \cup Demands \in SUBSET Pods
        BY <2>1
      <3> QED BY <3>1, PodsFinite, FS_Subset
    <2> QED BY <2>2, <2>3, <2>4, <2>5
  <1>3. Cardinality(busy) <= Cardinality(placed)
    <2> DEFINE runs == [i \in busy |-> CHOOSE q \in Pods : place[q] = i]
    <2>1. \A i \in busy : runs[i] \in placed /\ place[runs[i]] = i
      <3>1. \A i \in busy : i # 0
        BY <1>1
      <3> QED BY <3>1
    <2>2. runs \in Injection(busy, placed)
      <3>1. runs \in [busy -> placed]
        BY <2>1
      <3> HIDE DEF runs, busy, placed
      <3> QED BY <2>1, <3>1 DEF Injection, IsInjective
    <2> HIDE DEF runs, busy, placed
    <2> QED BY <1>2, <2>2, FS_Injection
  <1>4. Cardinality(free) <= Cardinality(room) /\ Cardinality(room) \in Nat
    <2> DEFINE bucket == [i \in free |-> IF i \in Nodes THEN i ELSE n + i]
    <2>1. /\ DOMAIN Buckets(Nodes) = 1..(n + n)
          /\ \A i \in Nodes : Buckets(Nodes)[i] = Room(i)
          /\ \A i \in NotReady : Buckets(Nodes)[n + i] = claims[i].size
      BY BucketsOfClaims
    <2>2. pods[p].requests \in Resources
      BY RequestsType DEF Demands, Candidates, Unschedulable
    <2>3. ASSUME NEW i \in free PROVE bucket[i] \in room
      <3>1. i \in 1..n /\ Fits(pods[p].requests, claims[i].size)
            /\ \A q \in Pods : place[q] # i
        BY <1>1
      <3>2. CASE i \in Nodes
        <4>1. Fits(pods[p].requests, Room(i))
          BY <1>1, <2>2, <3>1, EmptyNodeHasRoom
        <4>2. i \in 1..(n + n)
          BY <1>1, <3>1
        <4> QED BY <2>1, <3>2, <4>1, <4>2 DEF RoomFor
      <3>3. CASE i \notin Nodes
        <4>1. i \in NotReady
          BY <1>1, <3>1, <3>3 DEF Nodes, NotReady
        <4>2. n + i \in 1..(n + n)
          BY <1>1, <3>1
        <4> QED BY <2>1, <3>1, <3>3, <4>1, <4>2 DEF RoomFor
      <3> QED BY <3>2, <3>3
    <2>4. \A i, j \in free : bucket[i] = bucket[j] => i = j
      <3>1. \A i \in free : i \in 1..n
        BY <1>1
      <3>2. \A i \in free : bucket[i] = i \/ bucket[i] = n + i
        OBVIOUS
      <3>3. \A i, j \in 1..n : i # n + j /\ (n + i = n + j => i = j)
        BY <1>1
      <3>4. \A i \in free : (i \in Nodes => bucket[i] = i) /\ (i \notin Nodes => bucket[i] = n + i)
        OBVIOUS
      <3> HIDE DEF bucket, free, n
      <3> QED BY <3>1, <3>3, <3>4
    <2>5. IsFiniteSet(room) /\ Cardinality(room) \in Nat
      <3>1. IsFiniteSet(1..(n + n))
        BY <1>1, FS_Interval
      <3>2. room \in SUBSET (1..(n + n))
        BY <2>1 DEF RoomFor
      <3> QED BY <3>1, <3>2, FS_Subset, FS_CardinalityType
    <2>6. bucket \in Injection(free, room)
      <3>1. bucket \in [free -> room]
        BY <2>3
      <3> HIDE DEF bucket, free, room
      <3> QED BY <2>4, <3>1 DEF Injection, IsInjective
    <2> HIDE DEF bucket, free, room
    <2> QED BY <2>5, <2>6, FS_Injection
  <1>5. Cardinality(room) < Cardinality(Demands) /\ MaxPods \in Nat
    BY ScaleUpAssumption
  <1> HIDE DEF busy, free, placed, room
  <1> QED BY <1>1, <1>2, <1>3, <1>4, <1>5

-----------------------------------------------------------------------------
(* The inductive invariant *)

Present(ps) == {p \in Pods : ps[p] # NoPod}

\* Each pod has a cause to its name, its arrival, and each claim is charged to a
\* cause, at most MaxPods claims to one: a slot is a cause and a number.  A claim
\* that is charged to a pod that is still there is large enough for it.
Charged(ps, cs, causes, cause, slot) ==
  /\ cause \in [Present(ps) -> causes]
  /\ slot \in [DOMAIN cs -> causes \X Pods]
  /\ \A p, q \in Present(ps) : cause[p] = cause[q] => p = q
  /\ \A i, j \in DOMAIN cs : slot[i] = slot[j] => i = j
  /\ \A i \in DOMAIN cs : \A p \in Present(ps) :
       slot[i][1] = cause[p] => Fits(ps[p].requests, cs[i].size)

\* What a pool may grow for: an arrival, or a reconcile without the nodes.
Count == (MaxArrivals - budget.arrival) + (MaxListErrors - budget.listError)

GrowthInv ==
  /\ budget.arrival <= MaxArrivals /\ budget.listError <= MaxListErrors
  /\ \E cause, slot : Charged(pods, claims, 1..Count, cause, slot)

\* The number of causes is a number.
LEMMA CountType ==
  ASSUME TypeOK, GrowthInv
  PROVE  Count \in Nat /\ budget.arrival \in Nat /\ budget.listError \in Nat
  <1>1. budget.arrival \in Nat /\ budget.listError \in Nat
    BY DEF TypeOK
  <1>2. MaxArrivals \in Nat /\ MaxListErrors \in Nat
    BY ScaleUpAssumption
  <1> QED BY <1>1, <1>2 DEF GrowthInv, Count

\* The invariant bounds the growth: slots are told apart by the claims.
LEMMA GrowthImplied ==
  ASSUME TypeOK, GrowthInv
  PROVE  GrowthBounded
  <1>1. PICK cause, slot : Charged(pods, claims, 1..Count, cause, slot)
    BY DEF GrowthInv
  <1>2. Count \in Nat /\ MaxPods \in Nat
    BY CountType, ScaleUpAssumption
  <1>3. /\ IsFiniteSet(1..Count) /\ Cardinality(1..Count) = Count
        /\ IsFiniteSet(Pods) /\ Cardinality(Pods) = MaxPods
    <2>1. /\ IsFiniteSet(1..Count)
          /\ Cardinality(1..Count) = IF 1 > Count THEN 0 ELSE Count - 1 + 1
      BY <1>2, FS_Interval
    <2> QED BY <1>2, <2>1, PodsFinite
  <1>4. /\ IsFiniteSet((1..Count) \X Pods)
        /\ Cardinality((1..Count) \X Pods) = Count * MaxPods
    BY <1>3, FS_Product
  <1>5. slot \in Injection(DOMAIN claims, (1..Count) \X Pods)
    BY <1>1 DEF Charged, Injection, IsInjective
  <1>6. Cardinality(DOMAIN claims) <= Count * MaxPods
    BY <1>4, <1>5, FS_Injection
  <1>7. Cardinality(DOMAIN claims) = Len(claims) /\ Len(claims) \in Nat
    <2>1. Len(claims) \in Nat /\ DOMAIN claims = 1..Len(claims)
      BY ClaimTypes
    <2>2. Cardinality(1..Len(claims)) = IF 1 > Len(claims) THEN 0 ELSE Len(claims) - 1 + 1
      BY <2>1, FS_Interval
    <2> QED BY <2>1, <2>2
  <1>8. Count * MaxPods = MaxPods * Count
    BY <1>2
  <1> QED BY <1>6, <1>7, <1>8 DEF GrowthBounded, Count

ChargedTo(c, slot, D) == {i \in D : slot[i][1] = c}

\* While fewer than MaxPods claims are charged to a cause, it has a slot left.
LEMMA FreeSlot ==
  ASSUME NEW D, NEW slot, NEW c,
         IsFiniteSet(ChargedTo(c, slot, D)),
         Cardinality(ChargedTo(c, slot, D)) < MaxPods
  PROVE  \E j \in Pods : \A i \in D : slot[i] # <<c, j>>
  <1> DEFINE S == ChargedTo(c, slot, D)
             taken == [j \in Pods |-> CHOOSE i \in D : slot[i] = <<c, j>>]
  <1>1. SUFFICES ASSUME \A j \in Pods : \E i \in D : slot[i] = <<c, j>>
                 PROVE  FALSE
    OBVIOUS
  <1>2. \A j \in Pods : taken[j] \in D /\ slot[taken[j]] = <<c, j>>
    BY <1>1
  <1>3. taken \in [Pods -> S]
    <2>1. ASSUME NEW j \in Pods PROVE taken[j] \in S
      <3> HIDE DEF taken
      <3>1. taken[j] \in D /\ slot[taken[j]] = <<c, j>>
        BY <1>2
      <3>2. slot[taken[j]][1] = c
        BY ONLY <3>1
      <3> QED BY ONLY <3>1, <3>2 DEF ChargedTo
    <2> QED BY <2>1
  <1>4. \A j, l \in Pods : taken[j] = taken[l] => j = l
    <2>1. SUFFICES ASSUME NEW j \in Pods, NEW l \in Pods, taken[j] = taken[l]
                   PROVE  j = l
      OBVIOUS
    <2>2. <<c, j>> = <<c, l>>
      BY <1>2, <2>1
    <2> QED BY <2>2
  <1> HIDE DEF taken
  <1>5. taken \in Injection(Pods, S)
    <2> HIDE DEF S
    <2> QED BY <1>3, <1>4 DEF Injection, IsInjective
  <1>6. Cardinality(Pods) <= Cardinality(S)
    <2> HIDE DEF S
    <2> QED BY <1>5, FS_Injection DEF S
  <1>7. Cardinality(S) \in Nat /\ Cardinality(Pods) = MaxPods /\ MaxPods \in Nat
    BY PodsFinite, FS_CardinalityType, ScaleUpAssumption
  <1> HIDE DEF S
  <1>8. Cardinality(S) < MaxPods
    BY DEF S
  <1> QED BY <1>6, <1>7, <1>8

\* To n claims m more are added, and the slots for them.
Addition(ps, cs, more, n, m, causes, cause, slot, extra) ==
  /\ n \in Nat /\ m \in Nat /\ DOMAIN cs = 1..n /\ DOMAIN more = 1..(n + m)
  /\ \A i \in 1..n : more[i].size = cs[i].size
  /\ extra \in [1..m -> causes \X Pods]
  /\ \A k, l \in 1..m : extra[k] = extra[l] => k = l
  /\ \A k \in 1..m : \A i \in 1..n : slot[i] # extra[k]
  /\ \A k \in 1..m : \A p \in Present(ps) :
       extra[k][1] = cause[p] => Fits(ps[p].requests, more[n + k].size)

\* Claims that a reconcile adds are charged to slots that are not taken.
LEMMA MoreCharged ==
  ASSUME NEW ps, NEW cs, NEW more, NEW n, NEW m, NEW causes, NEW cause, NEW slot, NEW extra,
         Charged(ps, cs, causes, cause, slot),
         Addition(ps, cs, more, n, m, causes, cause, slot, extra)
  PROVE  \E all : Charged(ps, more, causes, cause, all)
  <1>0. /\ n \in Nat /\ m \in Nat /\ DOMAIN cs = 1..n /\ DOMAIN more = 1..(n + m)
        /\ \A i \in 1..n : more[i].size = cs[i].size
        /\ extra \in [1..m -> causes \X Pods]
        /\ \A k, l \in 1..m : extra[k] = extra[l] => k = l
        /\ \A k \in 1..m : \A i \in 1..n : slot[i] # extra[k]
        /\ \A k \in 1..m : \A p \in Present(ps) :
             extra[k][1] = cause[p] => Fits(ps[p].requests, more[n + k].size)
    BY DEF Addition
  <1> DEFINE all == [i \in 1..(n + m) |-> IF i <= n THEN slot[i] ELSE extra[i - n]]
  <1>1. \A i \in 1..(n + m) : \/ i \in 1..n /\ i <= n
                              \/ i - n \in 1..m /\ ~(i <= n) /\ i = n + (i - n)
    BY <1>0
  <1>2. /\ \A i \in 1..(n + m) : i <= n => all[i] = slot[i]
        /\ \A i \in 1..(n + m) : ~(i <= n) => all[i] = extra[i - n]
    OBVIOUS
  <1>3. /\ slot \in [1..n -> causes \X Pods]
        /\ \A i, j \in 1..n : slot[i] = slot[j] => i = j
        /\ \A i \in 1..n : \A p \in Present(ps) :
             slot[i][1] = cause[p] => Fits(ps[p].requests, cs[i].size)
        /\ cause \in [Present(ps) -> causes]
        /\ \A p, q \in Present(ps) : cause[p] = cause[q] => p = q
    BY <1>0 DEF Charged
  <1>4. all \in [1..(n + m) -> causes \X Pods]
    <2>1. \A i \in 1..(n + m) : all[i] \in causes \X Pods
      <3> HIDE DEF all
      <3> QED BY <1>0, <1>1, <1>2, <1>3
    <2> QED BY <2>1
  <1> HIDE DEF all
  <1>5. \A i, j \in 1..(n + m) : all[i] = all[j] => i = j
    <2>1. SUFFICES ASSUME NEW i \in 1..(n + m), NEW j \in 1..(n + m), all[i] = all[j]
                   PROVE  i = j
      OBVIOUS
    <2>2. CASE i <= n /\ j <= n
      BY <1>1, <1>2, <1>3, <2>1, <2>2
    <2>3. CASE i <= n /\ ~(j <= n)
      <3>1. i \in 1..n /\ j - n \in 1..m
        BY <1>1, <2>3
      <3>2. slot[i] = extra[j - n]
        BY <1>2, <2>1, <2>3
      <3> QED BY <1>0, <3>1, <3>2
    <2>4. CASE ~(i <= n) /\ j <= n
      <3>1. j \in 1..n /\ i - n \in 1..m
        BY <1>1, <2>4
      <3>2. slot[j] = extra[i - n]
        BY <1>2, <2>1, <2>4
      <3> QED BY <1>0, <3>1, <3>2
    <2>5. CASE ~(i <= n) /\ ~(j <= n)
      <3>1. i - n = j - n
        BY <1>0, <1>1, <1>2, <2>1, <2>5
      <3> QED BY <1>0, <2>1, <3>1
    <2> QED BY <2>2, <2>3, <2>4, <2>5
  <1>6. \A i \in 1..(n + m) : \A p \in Present(ps) :
          all[i][1] = cause[p] => Fits(ps[p].requests, more[i].size)
    <2>1. SUFFICES ASSUME NEW i \in 1..(n + m), NEW p \in Present(ps), all[i][1] = cause[p]
                   PROVE  Fits(ps[p].requests, more[i].size)
      OBVIOUS
    <2>2. CASE i <= n
      <3>1. i \in 1..n /\ slot[i][1] = cause[p]
        BY <1>1, <1>2, <2>1, <2>2
      <3>2. Fits(ps[p].requests, cs[i].size) /\ more[i].size = cs[i].size
        BY <1>0, <1>3, <3>1
      <3> QED BY <3>2
    <2>3. CASE ~(i <= n)
      <3> DEFINE k == i - n
      <3>1. k \in 1..m /\ extra[k][1] = cause[p] /\ i = n + k
        BY <1>1, <1>2, <2>1, <2>3
      <3> HIDE DEF k
      <3>2. Fits(ps[p].requests, more[n + k].size)
        BY <1>0, <3>1
      <3> QED BY <3>1, <3>2
    <2> QED BY <2>2, <2>3
  <1>7. Charged(ps, more, causes, cause, all)
    BY <1>0, <1>3, <1>4, <1>5, <1>6 DEF Charged
  <1> QED BY <1>7

-----------------------------------------------------------------------------
(* Steps *)

\* What a reconcile does to the claims.
LEMMA ScalesUp ==
  ASSUME TypeOK, NEW nodes \in SUBSET DOMAIN claims, ScaleUpWith(nodes)
  PROVE  /\ pods' = pods
         /\ \/ claims' = claims
            \/ LET n == Len(claims)
                   new == Plan(nodes)
                   m == Len(new)
               IN /\ n \in Nat /\ DOMAIN claims = 1..n /\ m \in Nat /\ DOMAIN new = 1..m
                  /\ DOMAIN claims' = 1..(n + m)
                  /\ \A i \in 1..n : claims'[i].size = claims[i].size
                  /\ \A k \in 1..m : claims'[n + k].size = new[k]
  <1> DEFINE n == Len(claims)
             new == Plan(nodes)
             m == Len(new)
  <1>1. pods' = pods /\ (claims' = claims \/ CreateClaims(nodes, new))
    BY DEF ScaleUpWith, Blocked
  <1>2. new \in Seq(Whole)
    <2>1. new \in Seq(Wanted)
      BY PlanIsWanted
    <2>2. Wanted \subseteq Whole
      BY DEF Wanted
    <2> HIDE DEF new
    <2>3. DOMAIN new = 1..Len(new) /\ Len(new) \in Nat /\ \A k \in 1..Len(new) : new[k] \in Whole
      BY <2>1, <2>2
    <2> QED BY <2>1, <2>3, SeqDef
  <1>3. n \in Nat /\ DOMAIN claims = 1..n
    BY ClaimTypes
  <1> HIDE DEF new
  <1>4. m \in Nat /\ DOMAIN new = 1..m
    BY <1>2
  <1>5. CASE claims' = claims
    BY <1>1, <1>5
  <1>6. CASE CreateClaims(nodes, new)
    <2>1. claims' = claims \o [k \in DOMAIN new |-> [size |-> new[k], phase |-> "pending",
                                                     aged |-> FALSE]]
      BY <1>6 DEF CreateClaims
    <2>2. /\ DOMAIN claims' = 1..(n + m)
          /\ \A i \in 1..n : claims'[i] = claims[i]
          /\ \A k \in 1..m : claims'[n + k] = [size |-> new[k], phase |-> "pending",
                                               aged |-> FALSE]
      BY <1>2, <2>1, CreatedClaims
    <2>3. \A i \in 1..n : claims'[i].size = claims[i].size
      BY <2>2
    <2>4. ASSUME NEW k \in 1..m PROVE claims'[n + k].size = new[k]
      <3> HIDE DEF m, n
      <3>1. claims'[n + k] = [size |-> new[k], phase |-> "pending", aged |-> FALSE]
        BY <2>2
      <3> QED BY ONLY <3>1
    <2> QED BY <1>1, <1>3, <1>4, <2>2, <2>3, <2>4 DEF new
  <1> QED BY <1>1, <1>5, <1>6

\* A reconcile charges a claim to the pod that needs it.
LEMMA ReconcileGrowth ==
  ASSUME TypeOK, Fits(Reserve, [cpu |-> 0, mem |-> MemOverhead]), GrowthInv, Reconcile
  PROVE  GrowthInv'
  <1> DEFINE n == Len(claims)
             new == Plan(Nodes)
             m == Len(new)
             start == Buckets(Nodes)
  <1>1. budget' = budget /\ ScaleUpWith(Nodes) /\ Nodes \in SUBSET DOMAIN claims
    BY DEF Reconcile, Nodes
  <1>2. /\ pods' = pods
        /\ \/ claims' = claims
           \/ /\ n \in Nat /\ DOMAIN claims = 1..n /\ m \in Nat /\ DOMAIN new = 1..m
              /\ DOMAIN claims' = 1..(n + m)
              /\ \A i \in 1..n : claims'[i].size = claims[i].size
              /\ \A k \in 1..m : claims'[n + k].size = new[k]
    BY <1>1, ScalesUp
  <1>3. /\ Count' = Count
        /\ budget'.arrival <= MaxArrivals /\ budget'.listError <= MaxListErrors
    BY <1>1 DEF Count, GrowthInv
  <1>4. PICK cause, slot : Charged(pods, claims, 1..Count, cause, slot)
    BY DEF GrowthInv
  <1>5. PICK who \in [DOMAIN new -> Demands] :
          /\ \A k, l \in DOMAIN new : who[k] = who[l] => k = l
          /\ \A k \in DOMAIN new :
               /\ Fits(pods[who[k]].requests, new[k])
               /\ Cardinality(RoomFor(start, who[k])) < Cardinality(Demands)
    BY <1>1, PlanIsNeeded DEF Needed
  <1>6. SUFFICES \E all : Charged(pods, claims', 1..Count, cause, all)
    BY <1>2, <1>3 DEF GrowthInv
  <1>7. CASE claims' = claims
    BY <1>4, <1>7
  <1>8. CASE claims' # claims
    <2>1. /\ n \in Nat /\ DOMAIN claims = 1..n /\ m \in Nat /\ DOMAIN new = 1..m
          /\ DOMAIN claims' = 1..(n + m)
          /\ \A i \in 1..n : claims'[i].size = claims[i].size
          /\ \A k \in 1..m : claims'[n + k].size = new[k]
      BY <1>2, <1>8
    <2>2. /\ cause \in [Present(pods) -> 1..Count]
          /\ slot \in [DOMAIN claims -> (1..Count) \X Pods]
          /\ \A p, q \in Present(pods) : cause[p] = cause[q] => p = q
          /\ \A i \in DOMAIN claims : \A p \in Present(pods) :
               slot[i][1] = cause[p] => Fits(pods[p].requests, claims[i].size)
      BY <1>4 DEF Charged
    <2>3. Demands \subseteq Present(pods)
      BY DEF Demands, Candidates, Unschedulable, Present
    <2> HIDE DEF n, new, m
    <2>4. ASSUME NEW k \in 1..m
          PROVE  \E j \in Pods : \A i \in DOMAIN claims : slot[i] # <<cause[who[k]], j>>
      <3> DEFINE p == who[k]
                 S == ChargedTo(cause[p], slot, DOMAIN claims)
      <3>1. /\ p \in Demands /\ p \in Present(pods) /\ cause[p] \in 1..Count
            /\ Cardinality(RoomFor(start, p)) < Cardinality(Demands)
        BY <1>5, <2>1, <2>2, <2>3
      <3>2. S \in SUBSET DOMAIN claims /\ \A i \in S : Fits(pods[p].requests, claims[i].size)
        BY <2>2, <3>1 DEF ChargedTo
      <3> HIDE DEF p, S
      <3>3. IsFiniteSet(S) /\ Cardinality(S) < MaxPods
        BY <3>1, <3>2, FewForOne
      <3>4. \E j \in Pods : \A i \in DOMAIN claims : slot[i] # <<cause[p], j>>
        <4>1. /\ IsFiniteSet(ChargedTo(cause[p], slot, DOMAIN claims))
              /\ Cardinality(ChargedTo(cause[p], slot, DOMAIN claims)) < MaxPods
          BY <3>3 DEF S
        <4> QED BY ONLY <4>1, FreeSlot
      <3> QED BY <3>4 DEF p
    <2> DEFINE free(k) == CHOOSE j \in Pods :
                            \A i \in DOMAIN claims : slot[i] # <<cause[who[k]], j>>
               extra == [k \in 1..m |-> <<cause[who[k]], free(k)>>]
    <2>5. \A k \in 1..m : /\ free(k) \in Pods
                          /\ \A i \in DOMAIN claims : slot[i] # <<cause[who[k]], free(k)>>
      BY <2>4
    <2> HIDE DEF free
    <2>6. \A k \in 1..m : who[k] \in Present(pods) /\ cause[who[k]] \in 1..Count
      BY <1>5, <2>1, <2>2, <2>3
    <2>7. /\ extra \in [1..m -> (1..Count) \X Pods]
          /\ \A k \in 1..m : extra[k] = <<cause[who[k]], free(k)>>
                             /\ extra[k][1] = cause[who[k]]
      BY <2>5, <2>6
    <2> HIDE DEF extra
    <2>8. \A k, l \in 1..m : extra[k] = extra[l] => k = l
      <3>1. SUFFICES ASSUME NEW k \in 1..m, NEW l \in 1..m, extra[k] = extra[l]
                     PROVE  k = l
        OBVIOUS
      <3>2. cause[who[k]] = cause[who[l]]
        BY <2>7, <3>1
      <3>3. who[k] = who[l]
        BY <2>2, <2>6, <3>2
      <3> QED BY <1>5, <2>1, <3>3
    <2>9. \A k \in 1..m : \A i \in 1..n : slot[i] # extra[k]
      <3>1. ASSUME NEW k \in 1..m, NEW i \in 1..n PROVE slot[i] # extra[k]
        <4>1. extra[k] = <<cause[who[k]], free(k)>>
          BY <2>7
        <4>2. slot[i] # <<cause[who[k]], free(k)>>
          BY <2>1, <2>5
        <4> QED BY ONLY <4>1, <4>2
      <3> QED BY <3>1
    <2>10. \A k \in 1..m : \A p \in Present(pods) :
             extra[k][1] = cause[p] => Fits(pods[p].requests, claims'[n + k].size)
      <3>1. SUFFICES ASSUME NEW k \in 1..m, NEW p \in Present(pods), extra[k][1] = cause[p]
                     PROVE  Fits(pods[p].requests, claims'[n + k].size)
        OBVIOUS
      <3>2. p = who[k]
        BY <2>2, <2>6, <2>7, <3>1
      <3>3. Fits(pods[who[k]].requests, new[k]) /\ claims'[n + k].size = new[k]
        BY <1>5, <2>1
      <3> QED BY <3>2, <3>3
    <2>11. Addition(pods, claims, claims', n, m, 1..Count, cause, slot, extra)
      BY <2>1, <2>7, <2>8, <2>9, <2>10 DEF Addition
    <2> QED BY ONLY <1>4, <2>11, MoreCharged
  <1> QED BY <1>7, <1>8

\* A reconcile without the nodes is a cause of its own.
LEMMA BlindGrowth ==
  ASSUME TypeOK, GrowthInv, ReconcileWithoutNodes
  PROVE  GrowthInv'
  <1> DEFINE n == Len(claims)
             new == Plan({})
             m == Len(new)
  <1>1. /\ ScaleUpWith({}) /\ {} \in SUBSET DOMAIN claims
        /\ budget.listError > 0
        /\ budget' = [budget EXCEPT !.listError = @ - 1]
    BY DEF ReconcileWithoutNodes
  <1>2. /\ pods' = pods
        /\ \/ claims' = claims
           \/ /\ n \in Nat /\ DOMAIN claims = 1..n /\ m \in Nat /\ DOMAIN new = 1..m
              /\ DOMAIN claims' = 1..(n + m)
              /\ \A i \in 1..n : claims'[i].size = claims[i].size
              /\ \A k \in 1..m : claims'[n + k].size = new[k]
    BY <1>1, ScalesUp
  <1>3. /\ Count' = Count + 1 /\ Count \in Nat
        /\ budget'.arrival <= MaxArrivals /\ budget'.listError <= MaxListErrors
    <2>1. /\ budget'.arrival = budget.arrival /\ budget'.listError = budget.listError - 1
      BY <1>1 DEF TypeOK
    <2>2. /\ MaxArrivals \in Nat /\ MaxListErrors \in Nat
          /\ budget.arrival \in Nat /\ budget.listError \in Nat
      BY CountType, ScaleUpAssumption
    <2>3. /\ budget.arrival <= MaxArrivals /\ budget.listError <= MaxListErrors
          /\ Count \in Nat
      BY CountType DEF GrowthInv
    <2> QED BY <2>1, <2>2, <2>3 DEF Count
  <1>4. PICK cause, slot : Charged(pods, claims, 1..Count, cause, slot)
    BY DEF GrowthInv
  <1> DEFINE causes == 1..(Count + 1)
  <1>5. Charged(pods, claims, causes, cause, slot)
    <2>1. 1..Count \subseteq causes
      BY <1>3
    <2> HIDE DEF causes
    <2>2. /\ cause \in [Present(pods) -> 1..Count]
          /\ slot \in [DOMAIN claims -> (1..Count) \X Pods]
      BY <1>4 DEF Charged
    <2>3. cause \in [Present(pods) -> causes] /\ slot \in [DOMAIN claims -> causes \X Pods]
      BY <2>1, <2>2
    <2> QED BY <1>4, <2>3 DEF Charged
  <1>6. SUFFICES \E all : Charged(pods, claims', causes, cause, all)
    BY <1>2, <1>3 DEF GrowthInv
  <1>7. CASE claims' = claims
    BY <1>5, <1>7
  <1>8. CASE claims' # claims
    <2>1. /\ n \in Nat /\ DOMAIN claims = 1..n /\ m \in Nat /\ DOMAIN new = 1..m
          /\ DOMAIN claims' = 1..(n + m)
          /\ \A i \in 1..n : claims'[i].size = claims[i].size
          /\ \A k \in 1..m : claims'[n + k].size = new[k]
      BY <1>2, <1>8
    <2>2. 1..m \subseteq Pods
      <3>1. m <= Cardinality(Demands)
        BY <1>1, PlanIsWanted
      <3>2. Cardinality(Demands) <= MaxPods /\ Cardinality(Demands) \in Nat /\ MaxPods \in Nat
        <4>1. Demands \in SUBSET Pods
          BY DemandsFinite
        <4> QED BY <4>1, PodsFinite, FS_Subset, FS_CardinalityType, ScaleUpAssumption
      <3> HIDE DEF m
      <3>3. m <= MaxPods
        BY <2>1, <3>1, <3>2
      <3> QED BY <2>1, <3>2, <3>3 DEF Pods
    <2> DEFINE extra == [k \in 1..m |-> <<Count + 1, k>>]
    <2> HIDE DEF n, new, m
    <2>3. /\ extra \in [1..m -> causes \X Pods]
          /\ \A k \in 1..m : extra[k] = <<Count + 1, k>> /\ extra[k][1] = Count + 1
                             /\ extra[k][2] = k
      <3>1. Count + 1 \in causes
        BY <1>3
      <3> HIDE DEF causes
      <3> QED BY <2>2, <3>1
    <2> HIDE DEF extra
    <2>4. \A k, l \in 1..m : extra[k] = extra[l] => k = l
      BY <2>3
    <2>5. /\ \A i \in 1..n : slot[i][1] \in 1..Count
          /\ \A p \in Present(pods) : cause[p] \in 1..Count
      BY <1>4, <2>1 DEF Charged
    <2>6. \A c \in 1..Count : c # Count + 1
      BY <1>3
    <2>7. \A k \in 1..m : \A i \in 1..n : slot[i] # extra[k]
      BY <2>3, <2>5, <2>6
    <2>8. \A k \in 1..m : \A p \in Present(pods) : extra[k][1] # cause[p]
      BY <2>3, <2>5, <2>6
    <2> HIDE DEF causes
    <2>9. Addition(pods, claims, claims', n, m, causes, cause, slot, extra)
      BY <2>1, <2>3, <2>4, <2>7, <2>8 DEF Addition
    <2> QED BY ONLY <1>5, <2>9, MoreCharged
  <1> QED BY <1>7, <1>8

\* A pod that arrives is a cause; one that leaves stays the cause of its claims.
LEMMA PodGrowth ==
  ASSUME TypeOK, GrowthInv, NEW p \in Pods, PodArrives(p) \/ PodLeaves(p)
  PROVE  GrowthInv'
  <1>0. pods \in [Pods -> PodSpecs \cup {NoPod}] /\ claims' = claims
    BY DEF TypeOK, PodArrives, PodLeaves
  <1>1. PICK cause, slot : Charged(pods, claims, 1..Count, cause, slot)
    BY DEF GrowthInv
  <1>2. /\ cause \in [Present(pods) -> 1..Count]
        /\ slot \in [DOMAIN claims -> (1..Count) \X Pods]
        /\ \A r, q \in Present(pods) : cause[r] = cause[q] => r = q
        /\ \A i, j \in DOMAIN claims : slot[i] = slot[j] => i = j
        /\ \A i \in DOMAIN claims : \A q \in Present(pods) :
             slot[i][1] = cause[q] => Fits(pods[q].requests, claims[i].size)
    BY <1>1 DEF Charged
  <1>3. /\ Count \in Nat /\ budget.arrival \in Nat /\ budget.listError \in Nat
        /\ budget.arrival <= MaxArrivals /\ budget.listError <= MaxListErrors
        /\ MaxArrivals \in Nat /\ MaxListErrors \in Nat
    BY CountType, ScaleUpAssumption DEF GrowthInv
  <1>4. CASE PodArrives(p)
    <2>1. PICK s : pods' = [pods EXCEPT ![p] = s]
      BY <1>4 DEF PodArrives
    <2>2. /\ pods[p] = NoPod /\ budget.arrival > 0
          /\ budget' = [budget EXCEPT !.arrival = @ - 1]
      BY <1>4 DEF PodArrives
    <2>3. /\ Count' = Count + 1
          /\ budget'.arrival <= MaxArrivals /\ budget'.listError <= MaxListErrors
      <3>1. /\ budget'.arrival = budget.arrival - 1
            /\ budget'.listError = budget.listError
        BY <2>2 DEF TypeOK
      <3> QED BY <1>3, <2>2, <3>1 DEF Count
    <2>4. \A q \in Pods \ {p} : pods'[q] = pods[q]
      BY <1>0, <2>1
    <2>5. Present(pods') \subseteq Present(pods) \cup {p} /\ p \notin Present(pods)
      BY <2>2, <2>4 DEF Present
    <2> DEFINE causes == 1..(Count + 1)
               more == [q \in Present(pods') |-> IF q = p THEN Count + 1 ELSE cause[q]]
    <2>6. Count + 1 \in causes /\ 1..Count \subseteq causes
      BY <1>3
    <2>7. \A c \in 1..Count : c # Count + 1
      BY <1>3
    <2>8. \A q \in Present(pods') : \/ q = p /\ more[q] = Count + 1
                                    \/ /\ q # p /\ q \in Present(pods) /\ more[q] = cause[q]
                                       /\ more[q] \in 1..Count /\ pods'[q] = pods[q]
      BY <1>2, <2>4, <2>5 DEF Present
    <2> HIDE DEF causes
    <2>9. more \in [Present(pods') -> causes]
      BY <2>6, <2>8
    <2> HIDE DEF more
    <2>10. slot \in [DOMAIN claims -> causes \X Pods]
      BY <1>2, <2>6
    <2>11. \A r, q \in Present(pods') : more[r] = more[q] => r = q
      BY <1>2, <2>7, <2>8
    <2>12. \A i \in DOMAIN claims : slot[i][1] \in 1..Count
      BY <1>2
    <2>13. \A i \in DOMAIN claims : \A q \in Present(pods') :
             slot[i][1] = more[q] => Fits(pods'[q].requests, claims[i].size)
      BY <1>2, <2>7, <2>8, <2>12
    <2>14. Charged(pods', claims, causes, more, slot)
      BY <1>2, <2>9, <2>10, <2>11, <2>13 DEF Charged
    <2> QED BY <1>0, <2>3, <2>14 DEF GrowthInv, causes
  <1>5. CASE PodLeaves(p)
    <2>1. pods' = [pods EXCEPT ![p] = NoPod] /\ budget' = budget
      BY <1>5 DEF PodLeaves
    <2>2. /\ Present(pods') \subseteq Present(pods)
          /\ \A q \in Present(pods') : pods'[q] = pods[q]
      BY <1>0, <2>1 DEF Present
    <2> DEFINE less == [q \in Present(pods') |-> cause[q]]
    <2>3. less \in [Present(pods') -> 1..Count] /\ \A q \in Present(pods') : less[q] = cause[q]
      BY <1>2, <2>2
    <2> HIDE DEF less
    <2>4. /\ \A r, q \in Present(pods') : less[r] = less[q] => r = q
          /\ \A i \in DOMAIN claims : \A q \in Present(pods') :
               slot[i][1] = less[q] => Fits(pods'[q].requests, claims[i].size)
      BY <1>2, <2>2, <2>3
    <2>5. Charged(pods', claims, 1..Count, less, slot)
      BY <1>2, <2>3, <2>4 DEF Charged
    <2>6. Count' = Count
      BY <2>1 DEF Count
    <2> QED BY <1>0, <1>3, <2>1, <2>5, <2>6 DEF GrowthInv
  <1> QED BY <1>4, <1>5

\* Claims keep their number and their sizes when machines join or age.
LEMMA ClaimGrowth ==
  ASSUME TypeOK, GrowthInv, NEW i, ClaimStep(i)
  PROVE  GrowthInv'
  <1>1. PICK cause, slot : Charged(pods, claims, 1..Count, cause, slot)
    BY DEF GrowthInv
  <1>2. DOMAIN claims' = DOMAIN claims
        /\ \A j \in DOMAIN claims : claims'[j].size = claims[j].size
    BY ClaimSteps
  <1>3. Charged(pods, claims', 1..Count, cause, slot)
    BY <1>1, <1>2 DEF Charged
  <1>4. pods' = pods
    BY DEF ClaimStep
  <1>5. budget'.arrival = budget.arrival /\ budget'.listError = budget.listError
    BY DEF ClaimStep, NodeJoins, ClaimReady, ClaimAges, TypeOK
  <1>6. Count' = Count
    BY <1>5 DEF Count
  <1> QED BY <1>3, <1>4, <1>5, <1>6 DEF GrowthInv

\* Every step keeps the invariant.
LEMMA GrowthStep ==
  ASSUME Fits(Reserve, [cpu |-> 0, mem |-> MemOverhead]), TypeOK, GrowthInv, [Next]_vars
  PROVE  GrowthInv'
  <1>1. CASE Reconcile
    BY <1>1, ReconcileGrowth
  <1>2. CASE ReconcileWithoutNodes
    BY <1>2, BlindGrowth
  <1>3. ASSUME NEW i, ClaimStep(i) PROVE GrowthInv'
    BY <1>3, ClaimGrowth
  <1>4. ASSUME NEW p \in Pods, PodArrives(p) \/ PodLeaves(p) PROVE GrowthInv'
    BY <1>4, PodGrowth
  <1>5. CASE pods' = pods /\ claims' = claims /\ budget' = budget
    BY <1>5 DEF GrowthInv, Count
  <1>6. ASSUME NEW p \in Pods, Schedule(p) PROVE GrowthInv'
    BY <1>5, <1>6 DEF Schedule
  <1>7. CASE UNCHANGED vars
    BY <1>5, <1>7 DEF vars
  <1> QED BY <1>1, <1>2, <1>3, <1>4, <1>6, <1>7, OtherSteps

\* It holds before anything has arrived.
LEMMA GrowthInit == Init => GrowthInv
  <1>1. SUFFICES ASSUME Init PROVE GrowthInv
    OBVIOUS
  <1>2. /\ \A p \in Pods : pods[p] = NoPod
        /\ claims = <<>>
        /\ budget.arrival = MaxArrivals /\ budget.listError = MaxListErrors
    BY <1>1 DEF Init
  <1>3. Present(pods) = {} /\ DOMAIN claims = {}
    BY <1>2 DEF Present
  <1> DEFINE none == [x \in {} |-> x]
  <1>4. none \in [{} -> 1..Count] /\ none \in [{} -> (1..Count) \X Pods]
    OBVIOUS
  <1>5. Charged(pods, claims, 1..Count, none, none)
    BY <1>3, <1>4 DEF Charged
  <1>6. MaxArrivals \in Nat /\ MaxListErrors \in Nat
    BY ScaleUpAssumption
  <1> HIDE DEF none
  <1> QED BY <1>2, <1>5, <1>6 DEF GrowthInv

\* The claims can be charged to their causes in every state.
LEMMA GrowthHolds ==
  ASSUME Fits(Reserve, [cpu |-> 0, mem |-> MemOverhead])
  PROVE  Spec => []GrowthInv
  <1>1. TypeOK /\ GrowthInv /\ [Next]_vars => GrowthInv'
    BY GrowthStep
  <1> QED BY <1>1, GrowthInit, TypeCorrect, PTL DEF Spec

\* The pool does not run away, whatever arrives, leaves, joins, ages and is bound in
\* whatever order, when VMs get what their kubelets take on top of what their
\* claims ask for.  Without this hypothesis a pod may never fit the nodes made for
\* it, and the pool grows as long as its limits let it.
THEOREM NoRunaway ==
  ASSUME Fits(Reserve, [cpu |-> 0, mem |-> MemOverhead])
  PROVE  Spec => []GrowthBounded
  <1>1. TypeOK /\ GrowthInv => GrowthBounded
    BY GrowthImplied
  <1> QED BY <1>1, GrowthHolds, TypeCorrect, PTL

-----------------------------------------------------------------------------
(* The room in a plan *)

\* The pods in bucket k, and what pods ask for of either kind.
At(host, k) == {q \in DOMAIN host : host[q] = k}

CpuOf == [p \in Pods |-> pods[p].requests.cpu]

MemOf == [p \in Pods |-> pods[p].requests.mem]

\* A load is the sum of what the pods in the bucket ask for.
LEMMA LoadParts ==
  ASSUME TypeOK, NEW host, DOMAIN host \subseteq Pods, NEW k
  PROVE  /\ Load(host, k) \in Resources
         /\ Load(host, k).cpu = SumFunctionOnSet(CpuOf, At(host, k))
         /\ Load(host, k).mem = SumFunctionOnSet(MemOf, At(host, k))
         /\ IsFiniteSet(At(host, k)) /\ At(host, k) \subseteq Pods
  <1> DEFINE S == At(host, k)
             size == [p \in S |-> pods[p].requests]
  <1>1. S \subseteq Pods
    BY DEF At
  <1>2. IsFiniteSet(S)
    BY <1>1, PodsFinite, FS_Subset
  <1>3. Load(host, k) = Total(size) /\ DOMAIN size = S
    BY DEF Load, At
  <1>4. \A x \in S : size[x] \in Resources
    BY <1>1, RequestsType
  <1>5. \A x \in S : CpuOf[x] = size[x].cpu /\ MemOf[x] = size[x].mem
    BY <1>1 DEF CpuOf, MemOf
  <1> HIDE DEF S, size
  <1>6. Total(size) \in Resources
    BY <1>2, <1>3, <1>4, TotalType
  <1>7. /\ Total(size).cpu = SumFunctionOnSet(CpuOf, S)
        /\ Total(size).mem = SumFunctionOnSet(MemOf, S)
    BY <1>2, <1>3, <1>4, <1>5, TotalParts
  <1> QED BY <1>1, <1>2, <1>3, <1>6, <1>7 DEF S

\* A bucket without pods has no load.
LEMMA LoadNothing ==
  ASSUME TypeOK, NEW host, DOMAIN host \subseteq Pods, NEW k, At(host, k) = {}
  PROVE  Load(host, k).cpu = 0 /\ Load(host, k).mem = 0
  BY LoadParts, SumEmpty

\* One more pod has been put into bucket b.
Puts(host, more, pod, b) ==
  /\ pod \in Pods /\ DOMAIN host \subseteq Pods /\ pod \notin DOMAIN host
  /\ DOMAIN more = DOMAIN host \cup {pod} /\ more[pod] = b
  /\ \A p \in DOMAIN host : more[p] = host[p]

\* It adds what it asks for to its bucket and nothing to the others.
LEMMA LoadAdd ==
  ASSUME TypeOK, NEW host, NEW more, NEW pod, NEW b, Puts(host, more, pod, b)
  PROVE  /\ Load(more, b).cpu = Load(host, b).cpu + pods[pod].requests.cpu
         /\ Load(more, b).mem = Load(host, b).mem + pods[pod].requests.mem
         /\ \A k : k # b => /\ Load(more, k).cpu = Load(host, k).cpu
                            /\ Load(more, k).mem = Load(host, k).mem
  <1>1. DOMAIN more \subseteq Pods /\ DOMAIN host \subseteq Pods /\ pod \in Pods
    BY DEF Puts
  <1>2. At(more, b) \ {pod} = At(host, b) /\ pod \in At(more, b)
    BY DEF At, Puts
  <1>3. \A k : k # b => At(more, k) = At(host, k)
    BY DEF At, Puts
  <1>4. \A p \in Pods : CpuOf[p] \in Nat /\ MemOf[p] \in Nat
    BY RequestsType DEF CpuOf, MemOf, Resources
  <1>5. IsFiniteSet(At(more, b)) /\ \A x \in At(more, b) : CpuOf[x] \in Nat /\ MemOf[x] \in Nat
    BY <1>1, <1>4, LoadParts
  <1>6. /\ SumFunctionOnSet(CpuOf, At(more, b)) = CpuOf[pod] + SumFunctionOnSet(CpuOf, At(host, b))
        /\ SumFunctionOnSet(MemOf, At(more, b)) = MemOf[pod] + SumFunctionOnSet(MemOf, At(host, b))
    BY <1>2, <1>5, SumRemove
  <1>7. CpuOf[pod] = pods[pod].requests.cpu /\ MemOf[pod] = pods[pod].requests.mem
    BY <1>1 DEF CpuOf, MemOf
  <1>8. \A k : /\ Load(more, k).cpu = SumFunctionOnSet(CpuOf, At(more, k))
               /\ Load(more, k).mem = SumFunctionOnSet(MemOf, At(more, k))
               /\ Load(host, k).cpu = SumFunctionOnSet(CpuOf, At(host, k))
               /\ Load(host, k).mem = SumFunctionOnSet(MemOf, At(host, k))
    BY <1>1, LoadParts
  <1>9. /\ Load(host, b).cpu \in Nat /\ Load(host, b).mem \in Nat
        /\ CpuOf[pod] \in Nat /\ MemOf[pod] \in Nat
    BY <1>1, <1>4, LoadParts DEF Resources
  <1> QED BY <1>3, <1>6, <1>7, <1>8, <1>9

\* Rounding takes nothing away.
LEMMA RoundedUpIsMore ==
  ASSUME NEW r \in Resources
  PROVE  r.cpu <= RoundedUp(r).cpu /\ r.mem <= RoundedUp(r).mem
  <1>1. ASSUME NEW a \in Nat PROVE a <= 2 * ((a + 1) \div 2)
    OBVIOUS
  <1>2. r.cpu \in Nat /\ r.mem \in Nat
    BY DEF Resources
  <1>3. r.cpu <= 2 * ((r.cpu + 1) \div 2) /\ r.mem <= 2 * ((r.mem + 1) \div 2)
    BY <1>1, <1>2
  <1> QED BY <1>3 DEF RoundedUp

\* What a pod leaves of a bucket that it fits and what it takes make the bucket.
LEMMA TakenAndLeft ==
  ASSUME NEW r \in Resources, NEW room \in Resources, Fits(r, room)
  PROVE  /\ r.cpu + Minus(room, r).cpu = room.cpu /\ r.mem + Minus(room, r).mem = room.mem
         /\ Minus(room, r) \in Resources
  <1>1. r.cpu \in Nat /\ r.mem \in Nat /\ room.cpu \in Nat /\ room.mem \in Nat
    BY DEF Resources
  <1>2. Minus(room, r).cpu = Less(room.cpu, r.cpu) /\ Minus(room, r).mem = Less(room.mem, r.mem)
    BY DEF Minus
  <1> QED BY <1>1, <1>2, Amounts DEF Fits, Less

\* The pods that have been placed are spread over the buckets, and what they ask for
\* and what is left of a bucket are not more than it had to begin with.
Spread(host, buckets, rooms) ==
  \A k \in DOMAIN buckets :
    /\ Load(host, k).cpu + buckets[k].cpu <= rooms[k].cpu
    /\ Load(host, k).mem + buckets[k].mem <= rooms[k].mem

\* A turn that takes room of a bucket keeps the pods spread.
LEMMA SpreadInBucket ==
  ASSUME TypeOK, NEW host, NEW more, NEW pod, NEW b, Puts(host, more, pod, b),
         NEW buckets \in Seq(Resources), b \in DOMAIN buckets,
         Fits(pods[pod].requests, buckets[b]),
         NEW rooms \in Seq(Resources), DOMAIN buckets \subseteq DOMAIN rooms,
         Spread(host, buckets, rooms)
  PROVE  Spread(more, [buckets EXCEPT ![b] = Minus(buckets[b], pods[pod].requests)], rooms)
  <1> DEFINE r == pods[pod].requests
             left == Minus(buckets[b], r)
             after == [buckets EXCEPT ![b] = left]
  <1>1. /\ r \in Resources /\ pod \in Pods /\ DOMAIN host \subseteq Pods
        /\ \A k \in DOMAIN buckets : buckets[k] \in Resources /\ rooms[k] \in Resources
    BY RequestsType DEF Puts
  <1>2. /\ r.cpu + left.cpu = buckets[b].cpu /\ r.mem + left.mem = buckets[b].mem
        /\ left \in Resources
    BY <1>1, TakenAndLeft
  <1>3. /\ Load(more, b).cpu = Load(host, b).cpu + r.cpu
        /\ Load(more, b).mem = Load(host, b).mem + r.mem
        /\ \A k : k # b => /\ Load(more, k).cpu = Load(host, k).cpu
                           /\ Load(more, k).mem = Load(host, k).mem
    BY LoadAdd
  <1>4. \A k : Load(host, k).cpu \in Nat /\ Load(host, k).mem \in Nat
    BY <1>1, LoadParts DEF Resources
  <1>5. /\ r.cpu \in Nat /\ r.mem \in Nat /\ left.cpu \in Nat /\ left.mem \in Nat
        /\ \A k \in DOMAIN buckets : rooms[k].cpu \in Nat /\ rooms[k].mem \in Nat
        /\ \A k \in DOMAIN buckets : buckets[k].cpu \in Nat /\ buckets[k].mem \in Nat
    BY <1>1, <1>2 DEF Resources
  <1>6. /\ DOMAIN after = DOMAIN buckets /\ after[b] = left
        /\ \A k \in DOMAIN buckets : k # b => after[k] = buckets[k]
    OBVIOUS
  <1>7. \A k \in DOMAIN buckets :
          /\ Load(host, k).cpu + buckets[k].cpu <= rooms[k].cpu
          /\ Load(host, k).mem + buckets[k].mem <= rooms[k].mem
    BY DEF Spread
  <1> HIDE DEF r, left, after
  <1>8. ASSUME NEW k \in DOMAIN buckets
        PROVE  /\ Load(more, k).cpu + after[k].cpu <= rooms[k].cpu
               /\ Load(more, k).mem + after[k].mem <= rooms[k].mem
    <2>1. CASE k = b
      <3>1. /\ Load(host, b).cpu + (r.cpu + left.cpu) <= rooms[b].cpu
            /\ Load(host, b).mem + (r.mem + left.mem) <= rooms[b].mem
        BY <1>2, <1>7
      <3>2. /\ (Load(host, b).cpu + r.cpu) + left.cpu <= rooms[b].cpu
            /\ (Load(host, b).mem + r.mem) + left.mem <= rooms[b].mem
        BY <1>4, <1>5, <3>1
      <3> QED BY <1>3, <1>6, <2>1, <3>2
    <2>2. CASE k # b
      BY <1>3, <1>6, <1>7, <2>2
    <2> QED BY <2>1, <2>2
  <1> QED BY <1>6, <1>8 DEF Spread, after, left, r

\* A sequence with one more element.
LEMMA Appended ==
  ASSUME NEW s \in Seq(Resources), NEW x \in Resources
  PROVE  /\ Append(s, x) \in Seq(Resources) /\ Len(Append(s, x)) = Len(s) + 1
         /\ DOMAIN Append(s, x) = DOMAIN s \cup {Len(s) + 1}
         /\ Append(s, x)[Len(s) + 1] = x
         /\ \A k \in DOMAIN s : Append(s, x)[k] = s[k] /\ k # Len(s) + 1
  OBVIOUS

\* So does one that adds a bucket for the pod.
LEMMA SpreadInNew ==
  ASSUME TypeOK, NEW host, NEW more, NEW pod,
         NEW buckets \in Seq(Resources), NEW size \in Resources,
         Puts(host, more, pod, Len(buckets) + 1),
         \A p \in DOMAIN host : host[p] \in DOMAIN buckets,
         Fits(pods[pod].requests, size),
         NEW rooms \in Seq(Resources), Len(buckets) = Len(rooms),
         Spread(host, buckets, rooms)
  PROVE  Spread(more, Append(buckets, Minus(size, pods[pod].requests)),
                Append(rooms, RoundedUp(size)))
  <1> DEFINE r == pods[pod].requests
             left == Minus(size, r)
             after == Append(buckets, left)
             b == Len(buckets) + 1
             whole == RoundedUp(size)
             larger == Append(rooms, whole)
  <1>1. r \in Resources /\ Len(buckets) \in Nat /\ DOMAIN buckets = 1..Len(buckets)
        /\ DOMAIN rooms = DOMAIN buckets /\ pod \in Pods /\ DOMAIN host \subseteq Pods
    BY RequestsType DEF Puts
  <1>2. /\ r.cpu + left.cpu = size.cpu /\ r.mem + left.mem = size.mem /\ left \in Resources
    BY <1>1, TakenAndLeft
  <1>3. /\ Load(more, b).cpu = Load(host, b).cpu + r.cpu
        /\ Load(more, b).mem = Load(host, b).mem + r.mem
        /\ \A k : k # b => /\ Load(more, k).cpu = Load(host, k).cpu
                           /\ Load(more, k).mem = Load(host, k).mem
    BY LoadAdd
  <1>4. Load(host, b).cpu = 0 /\ Load(host, b).mem = 0
    <2>1. b \notin DOMAIN buckets
      BY <1>1
    <2>2. At(host, b) = {}
      BY <2>1 DEF At
    <2> QED BY <1>1, <2>2, LoadNothing
  <1>5. size.cpu <= whole.cpu /\ size.mem <= whole.mem
    BY RoundedUpIsMore
  <1>6. r.cpu \in Nat /\ r.mem \in Nat /\ left.cpu \in Nat /\ left.mem \in Nat
    BY <1>1, <1>2 DEF Resources
  <1>7. /\ DOMAIN after = DOMAIN buckets \cup {b} /\ after[b] = left
        /\ \A k \in DOMAIN buckets : after[k] = buckets[k] /\ k # b
    <2> HIDE DEF left
    <2> QED BY <1>1, <1>2, Appended
  <1>8. \A k \in DOMAIN buckets :
          /\ Load(host, k).cpu + buckets[k].cpu <= rooms[k].cpu
          /\ Load(host, k).mem + buckets[k].mem <= rooms[k].mem
    BY DEF Spread
  <1>9. larger[b] = whole /\ \A k \in DOMAIN buckets : larger[k] = rooms[k]
    <2>1. whole \in Resources
      BY RoundedUpIsWhole DEF Whole
    <2> HIDE DEF whole
    <2> QED BY <1>1, <2>1, Appended
  <1> HIDE DEF r, left, after, b, whole, larger
  <1>10. /\ Load(more, b).cpu + after[b].cpu <= larger[b].cpu
         /\ Load(more, b).mem + after[b].mem <= larger[b].mem
    <2>1. /\ Load(more, b).cpu + after[b].cpu = size.cpu
          /\ Load(more, b).mem + after[b].mem = size.mem
      <3>1. Load(more, b).cpu = r.cpu /\ Load(more, b).mem = r.mem
        BY <1>3, <1>4, <1>6
      <3> QED BY <1>2, <1>7, <3>1
    <2> QED BY <1>5, <1>9, <2>1
  <1>11. \A k \in DOMAIN buckets :
           /\ Load(more, k).cpu + after[k].cpu <= larger[k].cpu
           /\ Load(more, k).mem + after[k].mem <= larger[k].mem
    BY <1>3, <1>7, <1>8, <1>9
  <1> QED BY <1>7, <1>10, <1>11 DEF Spread, after, left, r, larger, whole

\* A pod is left to be placed when the others are spread over the buckets.
Unplaced(pod, host, buckets, rooms) ==
  /\ pod \in Pods /\ DOMAIN host \subseteq Pods /\ pod \notin DOMAIN host
  /\ buckets \in Seq(Resources) /\ rooms \in Seq(Resources) /\ Len(buckets) = Len(rooms)
  /\ \A p \in DOMAIN host : host[p] \in DOMAIN buckets
  /\ Spread(host, buckets, rooms)

\* All pods are spread over the buckets.
SpreadOver(all, buckets, rooms) ==
  /\ Len(buckets) = Len(rooms)
  /\ \E host \in [all -> DOMAIN buckets] : Spread(host, buckets, rooms)

\* The pods that the loop has placed are spread over the buckets it was given and
\* those it has added.
Hosted(plan, start) ==
  /\ plan.todo \subseteq Demands
  /\ SpreadOver(Demands \ plan.todo, plan.buckets, start \o plan.new)

\* The pod may go into a bucket that it fits.
LEMMA IntoBucket ==
  ASSUME TypeOK, NEW pod, NEW host, NEW buckets, NEW rooms,
         Unplaced(pod, host, buckets, rooms),
         NEW k \in DOMAIN buckets, Fits(pods[pod].requests, buckets[k])
  PROVE  SpreadOver(DOMAIN host \cup {pod},
                    [buckets EXCEPT ![k] = Minus(buckets[k], pods[pod].requests)], rooms)
  <1> DEFINE left == Minus(buckets[k], pods[pod].requests)
             after == [buckets EXCEPT ![k] = left]
             more == [p \in DOMAIN host \cup {pod} |-> IF p = pod THEN k ELSE host[p]]
  <1>1. /\ pod \in Pods /\ DOMAIN host \subseteq Pods /\ pod \notin DOMAIN host
        /\ buckets \in Seq(Resources) /\ rooms \in Seq(Resources) /\ Len(buckets) = Len(rooms)
        /\ \A p \in DOMAIN host : host[p] \in DOMAIN buckets
        /\ Spread(host, buckets, rooms)
    BY DEF Unplaced
  <1>2. Puts(host, more, pod, k)
    BY <1>1 DEF Puts
  <1>3. DOMAIN buckets = 1..Len(buckets) /\ DOMAIN rooms = 1..Len(rooms)
    BY <1>1
  <1>4. Spread(more, after, rooms)
    <2> HIDE DEF more
    <2> QED BY <1>1, <1>2, <1>3, SpreadInBucket
  <1>5. left \in Resources
    BY <1>1, RequestsType, TakenAndLeft
  <1>6. more \in [DOMAIN host \cup {pod} -> DOMAIN buckets]
    BY <1>1
  <1> HIDE DEF left, more
  <1>7. DOMAIN after = DOMAIN buckets /\ Len(after) = Len(buckets)
    BY <1>1, <1>5
  <1> HIDE DEF after
  <1>8. SpreadOver(DOMAIN host \cup {pod}, after, rooms)
    BY <1>1, <1>4, <1>6, <1>7 DEF SpreadOver
  <1> QED BY <1>8 DEF after, left

\* Or into a new one.
LEMMA IntoNew ==
  ASSUME TypeOK, NEW pod, NEW host, NEW buckets, NEW rooms,
         Unplaced(pod, host, buckets, rooms),
         NEW size \in Resources, Fits(pods[pod].requests, size)
  PROVE  SpreadOver(DOMAIN host \cup {pod},
                    Append(buckets, Minus(size, pods[pod].requests)),
                    Append(rooms, RoundedUp(size)))
  <1> DEFINE left == Minus(size, pods[pod].requests)
             whole == RoundedUp(size)
             b == Len(buckets) + 1
             more == [p \in DOMAIN host \cup {pod} |-> IF p = pod THEN b ELSE host[p]]
  <1>1. /\ pod \in Pods /\ DOMAIN host \subseteq Pods /\ pod \notin DOMAIN host
        /\ buckets \in Seq(Resources) /\ rooms \in Seq(Resources) /\ Len(buckets) = Len(rooms)
        /\ \A p \in DOMAIN host : host[p] \in DOMAIN buckets
        /\ Spread(host, buckets, rooms)
    BY DEF Unplaced
  <1>2. Puts(host, more, pod, b)
    BY <1>1 DEF Puts
  <1>3. left \in Resources /\ whole \in Resources
    BY <1>1, RequestsType, TakenAndLeft, RoundedUpIsWhole DEF Whole
  <1>4. Spread(more, Append(buckets, left), Append(rooms, whole))
    <2> HIDE DEF more
    <2> QED BY <1>1, <1>2, SpreadInNew
  <1> HIDE DEF left, whole
  <1>5. /\ DOMAIN Append(buckets, left) = DOMAIN buckets \cup {b}
        /\ Len(Append(buckets, left)) = Len(buckets) + 1
        /\ Len(Append(rooms, whole)) = Len(rooms) + 1
    BY <1>1, <1>3, Appended
  <1>6. more \in [DOMAIN host \cup {pod} -> DOMAIN Append(buckets, left)]
    BY <1>1, <1>5
  <1> HIDE DEF more
  <1>7. SpreadOver(DOMAIN host \cup {pod}, Append(buckets, left), Append(rooms, whole))
    BY <1>1, <1>4, <1>5, <1>6 DEF SpreadOver
  <1> QED BY <1>7 DEF left, whole

\* A turn of the loop finds room for one more pod.
LEMMA PlaceHosted ==
  ASSUME TypeOK, NEW template \in Resources, NEW start \in Seq(Resources),
         NEW plan \in Progress, plan.todo # {}, Hosted(plan, start)
  PROVE  Place(plan, template) \in Progress /\ Hosted(Place(plan, template), start)
  <1> DEFINE pod == First(plan.todo)
             request == pods[pod].requests
             size == Larger(template, request)
             after == Place(plan, template)
             buckets == plan.buckets
             rooms == start \o plan.new
  <1>1. /\ plan.todo \in SUBSET Demands /\ Len(buckets) = Len(rooms)
        /\ buckets \in Seq(Resources) /\ plan.new \in Seq(Resources)
    BY DEF Hosted, SpreadOver, Progress
  <1>2. PICK host \in [Demands \ plan.todo -> DOMAIN buckets] :
          Spread(host, buckets, rooms)
    BY DEF Hosted, SpreadOver
  <1>3. /\ pod \in plan.todo /\ after \in Progress /\ after.todo = plan.todo \ {pod}
    BY PlaceOne
  <1>4. \/ /\ after.new = plan.new
           /\ \E k \in DOMAIN buckets :
                /\ Fits(request, buckets[k])
                /\ after.buckets = [buckets EXCEPT ![k] = Minus(buckets[k], request)]
        \/ /\ after.buckets = Append(buckets, Minus(size, request))
           /\ after.new = Append(plan.new, RoundedUp(size))
    BY PlaceTurn
  <1>5. /\ Demands \in SUBSET Pods /\ pod \in Pods /\ request \in Resources
        /\ size \in Resources
    <2>1. Demands \in SUBSET Pods
      BY DemandsFinite
    <2>2. pod \in Pods
      BY <1>1, <1>3, <2>1
    <2> HIDE DEF pod
    <2>3. request \in Resources
      BY <2>2, RequestsType
    <2> QED BY <2>1, <2>2, <2>3, Amounts
  <1>6. Fits(request, size)
    <2>1. /\ template.cpu \in Nat /\ template.mem \in Nat
          /\ request.cpu \in Nat /\ request.mem \in Nat
      BY <1>5 DEF Resources
    <2>2. ASSUME NEW x \in Nat, NEW y \in Nat PROVE y <= Max({x, y})
      <3>1. IsFiniteSet({x, y}) /\ {x, y} \in SUBSET Nat /\ {x, y} # {}
        <4>1. {x, y} = {x} \cup {y} /\ {x, y} \in SUBSET Nat /\ {x, y} # {}
          OBVIOUS
        <4>2. IsFiniteSet({x})
          BY FS_Singleton
        <4>3. IsFiniteSet({x} \cup {y})
          BY <4>2, FS_AddElement
        <4> QED BY <4>1, <4>3
      <3> QED BY <3>1, LargestElement
    <2> HIDE DEF request
    <2>3. /\ request.cpu <= Max({template.cpu, request.cpu})
          /\ request.mem <= Max({template.mem, request.mem})
      BY <2>1, <2>2
    <2> QED BY <2>3 DEF Fits, Larger
  <1> HIDE DEF pod, after, size
  <1>7. rooms \in Seq(Resources) /\ Len(buckets) = Len(rooms)
    BY <1>1
  <1>8. /\ DOMAIN host = Demands \ plan.todo /\ DOMAIN host \subseteq Pods
        /\ pod \notin DOMAIN host /\ Demands \ after.todo = DOMAIN host \cup {pod}
        /\ \A p \in DOMAIN host : host[p] \in DOMAIN buckets
    BY <1>1, <1>2, <1>3, <1>5
  <1>9. Unplaced(pod, host, buckets, rooms)
    BY <1>1, <1>2, <1>5, <1>7, <1>8 DEF Unplaced
  <1>10. after.todo \subseteq Demands
    BY <1>1, <1>3
  <1>11. SpreadOver(Demands \ after.todo, after.buckets, start \o after.new)
    <2>1. ASSUME NEW k \in DOMAIN buckets, after.new = plan.new, Fits(request, buckets[k]),
                 after.buckets = [buckets EXCEPT ![k] = Minus(buckets[k], request)]
          PROVE  SpreadOver(DOMAIN host \cup {pod}, after.buckets, start \o after.new)
      <3>1. SpreadOver(DOMAIN host \cup {pod},
                       [buckets EXCEPT ![k] = Minus(buckets[k], request)], rooms)
        BY <1>9, <2>1, IntoBucket
      <3>2. start \o after.new = rooms
        BY <2>1
      <3> HIDE DEF buckets, rooms, request
      <3> QED BY <2>1, <3>1, <3>2
    <2>2. ASSUME after.buckets = Append(buckets, Minus(size, request)),
                 after.new = Append(plan.new, RoundedUp(size))
          PROVE  SpreadOver(DOMAIN host \cup {pod}, after.buckets, start \o after.new)
      <3>1. SpreadOver(DOMAIN host \cup {pod}, Append(buckets, Minus(size, request)),
                       Append(rooms, RoundedUp(size)))
        BY <1>5, <1>6, <1>9, IntoNew
      <3>2. RoundedUp(size) \in Resources
        BY <1>5, RoundedUpIsWhole DEF Whole
      <3>3. start \o after.new = Append(rooms, RoundedUp(size))
        BY <1>1, <2>2, <3>2
      <3> HIDE DEF buckets, rooms, request
      <3> QED BY <2>2, <3>1, <3>3
    <2> HIDE DEF buckets, rooms, request
    <2> QED BY <1>4, <1>8, <2>1, <2>2
  <1> QED BY <1>3, <1>10, <1>11 DEF Hosted, after

\* No pods are spread over any buckets.
LEMMA SpreadNone ==
  ASSUME TypeOK, NEW start \in Seq(Resources)
  PROVE  SpreadOver({}, start, start \o <<>>)
  <1> DEFINE none == [x \in {} |-> x]
  <1>1. none \in [{} -> DOMAIN start] /\ DOMAIN none = {}
    OBVIOUS
  <1> HIDE DEF none
  <1>2. \A k : At(none, k) = {}
    BY <1>1 DEF At
  <1>3. \A k : Load(none, k).cpu = 0 /\ Load(none, k).mem = 0
    BY <1>1, <1>2, LoadNothing
  <1>4. start \o <<>> = start
    OBVIOUS
  <1>5. \A k \in DOMAIN start : start[k].cpu \in Nat /\ start[k].mem \in Nat
    <2>1. \A k \in DOMAIN start : start[k] \in Resources
      OBVIOUS
    <2> QED BY <2>1 DEF Resources
  <1>6. Spread(none, start, start)
    BY <1>3, <1>5 DEF Spread
  <1> QED BY <1>1, <1>4, <1>6 DEF SpreadOver

\* When planCapacity is through, every pod is in a bucket.
LEMMA PlanHosted ==
  ASSUME TypeOK, NEW nodes \in SUBSET DOMAIN claims, TemplateKnown(nodes)
  PROVE  \E buckets \in Seq(Resources) :
           SpreadOver(Demands, buckets, Buckets(nodes) \o Plan(nodes))
  <1> DEFINE start == Buckets(nodes)
             template == NodeCapacity(nodes)
             first == [todo |-> Demands, buckets |-> start, new |-> <<>>]
             S == {x \in Progress : Hosted(x, start)}
  <1>1. start \in Seq(Resources) /\ template \in Resources
    BY BucketsType, NodeCapacityType
  <1>2. CASE Candidates # {}
    <2>1. Plan(nodes) = Planned(template)[first]
      BY <1>2 DEF Plan
    <2> HIDE DEF start, template
    <2>2. first \in Progress /\ first.todo = Demands /\ first.buckets = start
          /\ first.new = <<>>
      <3>1. Demands \in SUBSET Pods /\ <<>> \in Seq(Resources)
        BY DemandsFinite
      <3> QED BY <1>1, <3>1 DEF Progress
    <2> HIDE DEF first
    <2>3. Hosted(first, start)
      <3>1. SpreadOver({}, start, start \o <<>>)
        BY <1>1, SpreadNone
      <3>2. Demands \ first.todo = {}
        BY <2>2
      <3> QED BY <2>2, <3>1, <3>2 DEF Hosted
    <2>4. \A x \in S : x.todo # {} => Place(x, template) \in S
      BY <1>1, PlaceHosted
    <2>5. first \in S /\ S \in SUBSET Progress
      BY <2>2, <2>3
    <2>6. PICK last \in S : last.todo = {} /\ Planned(template)[first] = last.new
      <3> HIDE DEF S
      <3> QED BY <1>1, <2>4, <2>5, PlannedInduction
    <2>7. /\ SpreadOver(Demands \ last.todo, last.buckets, start \o last.new)
          /\ last.buckets \in Seq(Resources) /\ Demands \ last.todo = Demands
      BY <2>6 DEF Hosted, Progress
    <2>8. SpreadOver(Demands, last.buckets, start \o Plan(nodes))
      BY <2>1, <2>6, <2>7
    <2> QED BY <2>7, <2>8 DEF start
  <1>3. CASE Candidates = {}
    <2>1. Plan(nodes) = <<>> /\ Demands = {}
      BY <1>3 DEF Plan, Demands
    <2> HIDE DEF start
    <2>2. SpreadOver({}, start, start \o <<>>)
      BY <1>1, SpreadNone
    <2>3. SpreadOver(Demands, start, start \o Plan(nodes))
      BY <2>1, <2>2
    <2> QED BY <1>1, <2>3 DEF start
  <1> QED BY <1>2, <1>3

\* Pods that are spread over buckets do not overfill what these had to begin with.
LEMMA SpreadFits ==
  ASSUME TypeOK, NEW rooms \in Seq(Resources), NEW buckets \in Seq(Resources),
         SpreadOver(Demands, buckets, rooms)
  PROVE  \E host \in [Demands -> DOMAIN rooms] :
           \A k \in DOMAIN rooms : Fits(Load(host, k), rooms[k])
  <1>1. DOMAIN buckets = DOMAIN rooms
    BY DEF SpreadOver
  <1>2. PICK host \in [Demands -> DOMAIN buckets] : Spread(host, buckets, rooms)
    BY DEF SpreadOver
  <1>3. DOMAIN host \subseteq Pods
    BY <1>2, DemandsFinite
  <1>4. \A k : Load(host, k).cpu \in Nat /\ Load(host, k).mem \in Nat
    BY <1>3, LoadParts DEF Resources
  <1>5. \A k \in DOMAIN rooms : /\ buckets[k].cpu \in Nat /\ buckets[k].mem \in Nat
                                /\ rooms[k].cpu \in Nat /\ rooms[k].mem \in Nat
    <2>1. \A k \in DOMAIN rooms : buckets[k] \in Resources /\ rooms[k] \in Resources
      BY <1>1
    <2> QED BY <2>1 DEF Resources
  <1>6. \A k \in DOMAIN rooms : /\ Load(host, k).cpu + buckets[k].cpu <= rooms[k].cpu
                                /\ Load(host, k).mem + buckets[k].mem <= rooms[k].mem
    BY <1>1, <1>2 DEF Spread
  <1>7. \A k \in DOMAIN rooms : Fits(Load(host, k), rooms[k])
    <2>1. ASSUME NEW a \in Nat, NEW b \in Nat, NEW c \in Nat, a + b <= c PROVE a <= c
      BY <2>1
    <2>2. \A k \in DOMAIN rooms : Load(host, k).cpu <= rooms[k].cpu /\ Load(host, k).mem <= rooms[k].mem
      BY <1>4, <1>5, <1>6, <2>1
    <2> QED BY <2>2 DEF Fits
  <1> QED BY <1>1, <1>2, <1>7

\* First fit loses nobody, for all pods, sizes and nodes: what waits when a reconcile
\* plans fits, all of it at once, into the room there is and the claims planned.
THEOREM PlanSuffices == Spec => []PlanHasRoom
  <1>1. ASSUME TypeOK, NEW nodes \in SUBSET DOMAIN claims, TemplateKnown(nodes)
        PROVE  \E host \in [Demands -> DOMAIN (Buckets(nodes) \o Plan(nodes))] :
                 \A k \in DOMAIN (Buckets(nodes) \o Plan(nodes)) :
                   Fits(Load(host, k), (Buckets(nodes) \o Plan(nodes))[k])
    <2> DEFINE rooms == Buckets(nodes) \o Plan(nodes)
    <2>1. PICK buckets \in Seq(Resources) : SpreadOver(Demands, buckets, rooms)
      BY <1>1, PlanHosted
    <2>2. rooms \in Seq(Resources)
      <3>1. Buckets(nodes) \in Seq(Resources)
        BY <1>1, BucketsType
      <3>2. Plan(nodes) \in Seq(Wanted)
        BY <1>1, PlanIsWanted
      <3>3. Plan(nodes) \in Seq(Resources)
        BY <3>2 DEF Wanted, Whole
      <3> QED BY <3>1, <3>3
    <2> HIDE DEF rooms
    <2>3. \E host \in [Demands -> DOMAIN rooms] :
            \A k \in DOMAIN rooms : Fits(Load(host, k), rooms[k])
      BY <1>1, <2>1, <2>2, SpreadFits
    <2> QED BY <2>3 DEF rooms
  <1>2. TypeOK => Nodes \in SUBSET DOMAIN claims /\ {} \in SUBSET DOMAIN claims
    BY DEF Nodes
  <1>3. TypeOK => PlanHasRoom
    BY <1>1, <1>2 DEF PlanHasRoom
  <1> QED BY <1>3, TypeCorrect, PTL

-----------------------------------------------------------------------------
(* Matching *)

\* The pool knows all labels that the pod relies on, and the pod has no term that
\* says nothing.
Plain(pod) == ~UsesForeignLabel(pod) /\ ~HasEmptyTerm(pod)

\* The pod asks for a particular node at all.
Asks(pod) == DOMAIN pod.selector # {} \/ pod.terms # <<>>

\* A match expression on a label of the pool means the same for pool and nodes.
LEMMA ExpressionSame ==
  ASSUME NEW expr, expr.key \in DOMAIN PoolLabels
  PROVE  ExpressionHolds(expr, NodeLabels) => ExpressionHolds(expr, PoolLabels)
  <1>1. /\ expr.key \in DOMAIN NodeLabels
        /\ NodeLabels[expr.key] = PoolLabels[expr.key]
    BY PodMatchingAssumption
  <1> QED BY <1>1 DEF ExpressionHolds

\* podMatchesPool is complete: it takes every pod for the pool's that asks for
\* something and that the scheduler would put on a node of the pool.
LEMMA SchedulableTargets ==
  ASSUME NEW pod, DOMAIN pod.terms \subseteq Nat, Plain(pod), Asks(pod), Schedulable(pod)
  PROVE  Targets(pod)
  <1> DEFINE terms == MatchingTerms(pod)
  <1>1. SelectorMatches(pod)
    BY PodMatchingAssumption DEF Plain, UsesForeignLabel, Schedulable, SelectorMatches
  <1>2. ASSUME pod.terms # <<>> PROVE terms # {} /\ TermRequires(pod.terms[Min(terms)])
    <2>1. PICK i \in DOMAIN pod.terms :
            \A expr \in pod.terms[i] : ExpressionHolds(expr, NodeLabels)
      BY <1>2 DEF Schedulable
    <2>2. \A k \in DOMAIN pod.terms : \A expr \in pod.terms[k] : expr.key \in DOMAIN PoolLabels
      BY DEF Plain, UsesForeignLabel
    <2>3. TermMatches(pod.terms[i])
      BY <2>1, <2>2, ExpressionSame DEF TermMatches
    <2>4. i \in terms /\ terms \in SUBSET Nat /\ terms \subseteq DOMAIN pod.terms
      BY <2>3 DEF MatchingTerms
    <2> HIDE DEF terms
    <2>5. Min(terms) \in DOMAIN pod.terms
      BY <2>4, LeastElement
    <2>6. pod.terms[Min(terms)] # {}
      BY <2>5 DEF Plain, HasEmptyTerm
    <2>7. TermRequires(pod.terms[Min(terms)])
      BY <2>2, <2>5, <2>6 DEF TermRequires
    <2> QED BY <2>4, <2>7
  <1> QED BY <1>1, <1>2 DEF Targets, Asks

\* podMatchesPool and the scheduler agree on every pod that asks for a particular
\* node and relies on the pool's own labels only, empty terms apart: a pool is
\* grown for exactly those pods that its nodes can run.
THEOREM Matching ==
  ASSUME NEW pod, DOMAIN pod.terms \subseteq Nat, Plain(pod)
  PROVE  Targets(pod) <=> Schedulable(pod) /\ Asks(pod)
  <1>1. Targets(pod) => Schedulable(pod)
    BY TargetsSchedulable DEF Plain
  <1>2. Targets(pod) => Asks(pod)
    <2>1. pod.terms = <<>> => MatchingTerms(pod) = {}
      BY DEF MatchingTerms
    <2> QED BY <2>1 DEF Targets, Asks
  <1> QED BY <1>1, <1>2, SchedulableTargets
=============================================================================
