--------------------------- MODULE NodePoolProofs ---------------------------
(***************************************************************************)
(* Invariants and action properties of NodePool, proved for every value of *)
(* its constants.                                                          *)
(***************************************************************************)
EXTENDS NodePool, Integers, FiniteSetTheorems, TLAPS

-----------------------------------------------------------------------------
(* What the requests preserve of the types *)

PoolTypeOK == pool \in Pool /\ poolRead \in Pool /\ poolFresh \in BOOLEAN

ClaimTypeOK == claims \in [Names -> Claim] /\ listed \in [Names -> Claim]

\* A write of a well-formed pool leaves well-formed pools on the API server and
\* in the cache.
LEMMA WritePoolType ==
  ASSUME PoolTypeOK, NEW p \in Pool, WritePool(p)
  PROVE  PoolTypeOK'
  BY NodePoolAssumption DEF PoolTypeOK, WritePool

\* So does updateStatus, whether it writes or finds nothing to write.
LEMMA PoolUpdatedType ==
  ASSUME PoolTypeOK, NEW p \in Pool, PoolUpdated(p)
  PROVE  PoolTypeOK'
  BY WritePoolType DEF PoolUpdated, PoolTypeOK, poolVars

\* A write of well-formed claims leaves well-formed claims on the API server and
\* in the cache.
LEMMA WriteClaimsType ==
  ASSUME ClaimTypeOK, NEW c \in [Names -> Claim], WriteClaims(c)
  PROVE  ClaimTypeOK'
  BY DEF ClaimTypeOK, WriteClaims

\* Setting the phase of a claim leaves well-formed claims.
LEMMA SetPhaseType ==
  ASSUME ClaimTypeOK, NEW i \in Names, NEW phase \in Phases, SetPhase(i, phase)
  PROVE  ClaimTypeOK'
  <1>1. [claims EXCEPT ![i].phase = phase] \in [Names -> Claim]
    BY DEF ClaimTypeOK, Claim
  <1> QED BY <1>1, WriteClaimsType DEF SetPhase

\* Marking a claim as deleted leaves well-formed claims.
LEMMA MarkDeletedType ==
  ASSUME ClaimTypeOK, NEW i,
         WriteClaims([claims EXCEPT ![i].deleting = TRUE])
  PROVE  ClaimTypeOK'
  <1>1. [claims EXCEPT ![i].deleting = TRUE] \in [Names -> Claim]
    BY DEF ClaimTypeOK, Claim
  <1> QED BY <1>1, WriteClaimsType

\* Using up a bound leaves a typed budget.
LEMMA SpendType ==
  ASSUME budget \in [Bounds -> Nat], NEW b \in Bounds, Spend(b)
  PROVE  budget' \in [Bounds -> Nat]
  BY DEF Spend

\* Every reconcile starts from well-formed local variables.
LEMMA NoRunType == NoRun \in Run
  BY DEF NoRun, Run

\* The number of claims that a plan asks for is a natural number.
LEMMA PlannedClaimsType ==
  ASSUME NEW pods \in SUBSET Pods, NEW ns \in SUBSET Names, NEW c
  PROVE  PlannedClaims(pods, ns, c) \in Nat
  <1>1. IsFiniteSet(Names)
    BY FS_Interval, NodePoolAssumption DEF Names
  <1>2. NodeBuckets(ns) \in SUBSET Names /\ PendingBuckets(c) \in SUBSET Names
    BY DEF NodeBuckets, PendingBuckets
  <1>3. /\ Cardinality(NodeBuckets(ns)) \in Nat
        /\ Cardinality(PendingBuckets(c)) \in Nat
    BY <1>1, <1>2, FS_Subset, FS_CardinalityType
  <1>4. Cardinality(pods) \in Nat
    BY FS_Subset, FS_CardinalityType, NodePoolAssumption
  <1> QED BY <1>3, <1>4 DEF PlannedClaims

\* DropNode takes the pods off the node that goes.
LEMMA DropNodeType ==
  ASSUME nodes \subseteq Names, place \in [Pods -> {0} \cup nodes],
         NEW i \in Names, DropNode(i)
  PROVE  nodes' \subseteq Names /\ place' \in [Pods -> {0} \cup nodes']
  <1>1. nodes' = nodes \ {i}
    BY DEF DropNode
  <1>2. \A p \in Pods : (IF place[p] = i THEN 0 ELSE place[p]) \in {0} \cup nodes'
    BY <1>1
  <1> QED BY <1>1, <1>2 DEF DropNode

-----------------------------------------------------------------------------
(* The type invariant *)

\* While claims are being created, the ones that are left have a name.
CreatesNamed ==
  pc = "create" =>
    run.seq >= 1 /\ run.create >= 1 /\ run.seq + run.create <= MaxClaims + 1

\* What is inductive of the types: the countdown of reconcileScaleUp's loop stays
\* a natural number because it is positive while the loop runs.
TypeInv == TypeOK /\ CreatesNamed

\* The initial states have the types.
LEMMA InitType == Init => TypeInv
  <1>1. SUFFICES ASSUME Init PROVE TypeInv
    OBVIOUS
  <1>2. NewPool \in Pool /\ NoClaim \in Claim
    BY DEF NewPool, Pool, NoClaim, Claim, Phases
  <1>3. budget \in [Bounds -> Nat]
    BY <1>1, NodePoolAssumption DEF Init, Bounds
  <1>4. pc \in PC /\ CreatesNamed
    BY <1>1 DEF Init, PC, CreatesNamed
  <1> QED BY <1>1, <1>2, <1>3, <1>4, NoRunType DEF Init, TypeInv, TypeOK

\* Each step of a reconcile preserves them.
LEMMA ControllerType ==
  ASSUME TypeInv, Reconcile \/ Controller
  PROVE  TypeInv'
  <1> USE DEF TypeInv
  <1>b. "abort" \in Bounds /\ "listError" \in Bounds
    BY DEF Bounds
  <1>p. PoolTypeOK /\ ClaimTypeOK /\ run \in Run /\ budget \in [Bounds -> Nat]
    BY DEF TypeOK, PoolTypeOK, ClaimTypeOK
  <1>r. /\ run.seq \in Nat /\ run.create \in Nat /\ run.recent \in BOOLEAN
        /\ run.pods \in SUBSET Pods /\ run.nodes \in SUBSET Names
        /\ run.delete \in SUBSET Names /\ run.fresh \in BOOLEAN
        /\ run.wait \in BOOLEAN
    BY <1>p DEF Run
  <1>w. \A p \in Pool : PoolUpdated(p) => PoolTypeOK'
    BY <1>p, PoolUpdatedType
  <1>1. CASE Reconcile
    BY <1>1, <1>p, NoRunType
       DEF Reconcile, Goto, TypeOK, CreatesNamed, PC, Run, Pool, poolVars, claimVars,
           podVars
  <1>2. CASE AddFinalizer
    <2>1. [pool EXCEPT !.finalizer = TRUE] \in Pool
      BY <1>p DEF PoolTypeOK, Pool
    <2>2. PoolTypeOK'
      BY <1>2, <1>p, <2>1, WritePoolType DEF AddFinalizer, PoolTypeOK, poolVars
    <2> QED BY <1>2, <2>2, NoRunType
            DEF AddFinalizer, Return, Goto, TypeOK, PoolTypeOK, CreatesNamed, PC,
                claimVars, podVars
  <1>3. CASE ListPods
    <2>1. Unschedulable \in SUBSET Pods
      BY DEF TypeOK, Unschedulable
    <2> QED BY <1>3, <1>p, <2>1
            DEF ListPods, Goto, TypeOK, CreatesNamed, PC, Run, poolVars, claimVars, podVars
  <1>4. CASE ListNodes
    BY <1>4, <1>b, <1>p, SpendType
       DEF ListNodes, Goto, TypeOK, CreatesNamed, PC, Run, poolVars, claimVars, podVars
  <1>5. CASE RefreshStatus
    <2> DEFINE new == [poolRead EXCEPT !.full = AtLimit(listed)]
    <2>1. new \in Pool /\ new.seq \in Nat /\ new.recent \in BOOLEAN
      BY <1>p DEF PoolTypeOK, Pool, AtLimit
    <2> HIDE DEF new
    <2>2. PoolTypeOK' /\ budget' \in [Bounds -> Nat]
      BY <1>5, <1>b, <1>p, <1>w, <2>1, SpendType
         DEF RefreshStatus, PoolTypeOK, poolVars, new
    <2>3. run' \in Run /\ pc' \in PC /\ CreatesNamed'
      BY <1>5, <1>p, <2>1 DEF RefreshStatus, Goto, Run, PC, CreatesNamed, new
    <2> QED BY <1>5, <2>2, <2>3
            DEF RefreshStatus, TypeOK, PoolTypeOK, claimVars, podVars
  <1>6. CASE Choose
    BY <1>6, <1>p, <1>r, NoRunType
       DEF Choose, Goto, Return, TypeOK, CreatesNamed, PC, Run, poolVars, claimVars, podVars
  <1>7. CASE Plan
    <2> DEFINE new == PlannedClaims(run.pods \ OtherPods, run.nodes, listed)
    <2>1. new \in Nat
      BY <1>r, PlannedClaimsType
    <2>2. FirstSequence \in Nat /\ FirstSequence >= 1
      BY <1>r DEF FirstSequence
    <2> HIDE DEF new
    <2>3. /\ run' \in Run /\ pc' \in PC
          /\ pc' = "create" =>
               run'.seq >= 1 /\ run'.create >= 1 /\ run'.seq + run'.create <= MaxClaims + 1
      <3>1. CASE Return
        BY <3>1, NoRunType DEF Return, Goto, PC
      <3>2. CASE Goto("blocked", NoRun)
        BY <3>2, NoRunType DEF Goto, PC
      <3>3. CASE /\ new > 0 /\ FirstSequence + new - 1 <= MaxClaims
                 /\ Goto("create", [NoRun EXCEPT !.create = new, !.seq = FirstSequence])
        <4>1. run' = [NoRun EXCEPT !.create = new, !.seq = FirstSequence] /\ pc' \in PC
          BY <3>3 DEF Goto, PC
        <4>2. run' \in Run /\ run'.create = new /\ run'.seq = FirstSequence
          BY <4>1, <2>1, <2>2 DEF NoRun, Run
        <4>3. new >= 1 /\ FirstSequence + new <= MaxClaims + 1
          BY <3>3, <2>1, <2>2, NodePoolAssumption
        <4> QED BY <4>1, <4>2, <4>3, <2>2
      <3> QED BY <1>7, <3>1, <3>2, <3>3 DEF Plan, new
    <2> QED BY <1>7, <2>3
            DEF Plan, TypeOK, CreatesNamed, poolVars, claimVars, podVars
  <1>8. CASE Blocked
    <2>1. [poolRead EXCEPT !.full = TRUE] \in Pool
      BY <1>p DEF PoolTypeOK, Pool
    <2> QED BY <1>8, <1>w, <2>1, NoRunType
            DEF Blocked, Return, Goto, TypeOK, PoolTypeOK, CreatesNamed, PC, claimVars,
                podVars
  <1>9. CASE EnsureClaim
    <2>1. [NoClaim EXCEPT !.phase = "pending"] \in Claim
      BY DEF NoClaim, Claim, Phases
    <2>2. ClaimTypeOK'
      <3>1. [claims EXCEPT ![run.seq] = [NoClaim EXCEPT !.phase = "pending"]]
              \in [Names -> Claim]
        BY <1>p, <2>1 DEF ClaimTypeOK
      <3> QED BY <1>9, <1>p, <3>1, WriteClaimsType DEF EnsureClaim, ClaimTypeOK, claimVars
    <2>3. run.seq >= 1 /\ run.create >= 1 /\ run.seq + run.create <= MaxClaims + 1
      BY <1>9 DEF EnsureClaim, CreatesNamed
    <2>4. run' = [run EXCEPT !.seq = @ + 1, !.create = @ - 1]
      BY <1>9 DEF EnsureClaim, Goto
    <2>5. /\ run' \in Run /\ run'.seq = run.seq + 1 /\ run'.create = run.create - 1
          /\ run.seq + 1 \in Nat /\ run.create - 1 \in Nat
      <3>1. run.seq + 1 \in Nat /\ run.create - 1 \in Nat
        BY <1>r, <2>3
      <3>2. run'.seq = run.seq + 1 /\ run'.create = run.create - 1
        BY <1>p, <2>4 DEF Run
      <3>3. run' \in Run
        BY <1>p, <2>4, <3>1 DEF Run
      <3> QED BY <3>1, <3>2, <3>3
    <2>6. pc' \in PC /\ (pc' = "create" => run.create # 1)
      BY <1>9 DEF EnsureClaim, Goto, PC
    <2>7. CreatesNamed'
      BY <1>r, <2>3, <2>5, <2>6, NodePoolAssumption DEF CreatesNamed
    <2> QED BY <1>9, <2>2, <2>5, <2>6, <2>7
            DEF EnsureClaim, TypeOK, ClaimTypeOK, poolVars, podVars
  <1>10. CASE SaveScaleUp
    <2>1. [poolRead EXCEPT !.seq = run.seq, !.recent = TRUE] \in Pool
      BY <1>p, <1>r DEF PoolTypeOK, Pool
    <2> QED BY <1>10, <1>w, <2>1, NoRunType
            DEF SaveScaleUp, Return, Goto, TypeOK, PoolTypeOK, CreatesNamed, PC, claimVars,
                podVars
  <1>11. CASE Candidates
    <2>1. {i \in nodes : Idle(i)} \in SUBSET Names
      BY DEF TypeOK
    <2> QED BY <1>11, <2>1, NoRunType
            DEF Candidates, Return, Goto, TypeOK, CreatesNamed, PC, Run, poolVars, claimVars,
                podVars
  <1>12. CASE RemoveClaim
    <2>1. ClaimTypeOK'
      BY <1>12, <1>p, MarkDeletedType DEF RemoveClaim, ClaimTypeOK, claimVars
    <2>2. run' = NoRun /\ pc' \in {"idle", "saveDown"}
      BY <1>12 DEF RemoveClaim, Return, Goto
    <2> QED BY <1>12, <2>1, <2>2, NoRunType
            DEF RemoveClaim, TypeOK, ClaimTypeOK, CreatesNamed, PC, poolVars, podVars
  <1>13. CASE SaveScaleDown
    <2>1. [poolRead EXCEPT !.recent = TRUE] \in Pool
      BY <1>p DEF PoolTypeOK, Pool
    <2> QED BY <1>13, <1>w, <2>1, NoRunType
            DEF SaveScaleDown, Return, Goto, TypeOK, PoolTypeOK, CreatesNamed, PC, claimVars,
                podVars
  <1>14. CASE ListForFinalize
    BY <1>14, <1>p
       DEF ListForFinalize, Goto, TypeOK, CreatesNamed, PC, Run, poolVars, claimVars, podVars
  <1>15. CASE DeleteForFinalize
    <2>1. ClaimTypeOK'
      BY <1>15, <1>p, MarkDeletedType DEF DeleteForFinalize, ClaimTypeOK, claimVars
    <2>2. run' \in Run /\ pc' \in {"idle", "delete", "removeFinalizer"}
      BY <1>15, <1>p, <1>r, NoRunType DEF DeleteForFinalize, Return, Goto, Run
    <2> QED BY <1>15, <2>1, <2>2
            DEF DeleteForFinalize, TypeOK, ClaimTypeOK, CreatesNamed, PC, poolVars, podVars
  <1>16. CASE RemovePoolFinalizer
    <2>1. [pool EXCEPT !.exists = FALSE, !.finalizer = FALSE] \in Pool
      BY <1>p DEF PoolTypeOK, Pool
    <2>2. PoolTypeOK'
      BY <1>16, <1>p, <2>1, WritePoolType DEF RemovePoolFinalizer, PoolTypeOK, poolVars
    <2> QED BY <1>16, <2>2, NoRunType
            DEF RemovePoolFinalizer, Return, Goto, TypeOK, PoolTypeOK, CreatesNamed, PC,
                claimVars, podVars
  <1>17. CASE Abort
    BY <1>17, <1>b, <1>p, SpendType, NoRunType
       DEF Abort, Return, Goto, TypeOK, CreatesNamed, PC, poolVars, claimVars, podVars
  <1> QED BY <1>1, <1>2, <1>3, <1>4, <1>5, <1>6, <1>7, <1>8, <1>9, <1>10, <1>11, <1>12,
             <1>13, <1>14, <1>15, <1>16, <1>17 DEF Controller

\* Each step of the claim controller, the scheduler, the users and the caches
\* preserves them.
LEMMA EnvironmentType ==
  ASSUME TypeInv,
         \/ SyncPool \/ SyncClaims \/ DeletePool \/ WindowPasses
         \/ \E i \in Names : \/ ClaimController(i) \/ ClaimFails(i)
                             \/ ClaimAges(i) \/ NodeLost(i)
         \/ \E p \in Pods : PodArrives(p) \/ PodScheduled(p) \/ PodLeaves(p)
  PROVE  TypeInv'
  <1> USE DEF TypeInv
  <1>b. {"aged", "lost", "failed", "arrival"} \subseteq Bounds
    BY DEF Bounds
  <1>f. Phases = {"none", "pending", "registered", "ready", "failed"}
    BY DEF Phases
  <1>p. /\ PoolTypeOK /\ ClaimTypeOK /\ budget \in [Bounds -> Nat]
        /\ nodes \subseteq Names /\ place \in [Pods -> {0} \cup nodes]
    BY DEF TypeOK, PoolTypeOK, ClaimTypeOK
  <1>s. \A i \in Names, phase \in Phases : SetPhase(i, phase) => ClaimTypeOK'
    BY <1>p, SetPhaseType
  <1>1. CASE SyncPool
    BY <1>1, <1>p DEF SyncPool, TypeOK, PoolTypeOK, CreatesNamed, claimVars, podVars
  <1>2. CASE SyncClaims
    BY <1>2, <1>p DEF SyncClaims, TypeOK, ClaimTypeOK, CreatesNamed, poolVars, podVars
  <1>3. CASE DeletePool
    <2>1. [pool EXCEPT !.deleting = TRUE, !.exists = pool.finalizer] \in Pool
      BY <1>p DEF PoolTypeOK, Pool
    <2>2. PoolTypeOK'
      BY <1>3, <1>p, <2>1, WritePoolType DEF DeletePool
    <2>3. run' \in Run /\ run'.seq = run.seq /\ run'.create = run.create
      BY <1>3 DEF DeletePool, TypeOK, Run
    <2> QED BY <1>3, <2>2, <2>3
            DEF DeletePool, TypeOK, PoolTypeOK, CreatesNamed, claimVars, podVars
  <1>4. CASE WindowPasses
    <2>1. pool' \in Pool /\ poolRead' \in Pool
      BY <1>4, <1>p DEF WindowPasses, PoolTypeOK, Pool
    <2>2. run' \in Run /\ run'.seq = run.seq /\ run'.create = run.create
      BY <1>4 DEF WindowPasses, TypeOK, Run
    <2> QED BY <1>4, <2>1, <2>2 DEF WindowPasses, TypeOK, CreatesNamed, claimVars, podVars
  <1>5. ASSUME NEW i \in Names,
               ClaimController(i) \/ ClaimFails(i) \/ ClaimAges(i) \/ NodeLost(i)
        PROVE  TypeInv'
    <2>1. CASE NodeRegisters(i)
      <3>1. ClaimTypeOK'
        BY <2>1, <1>f, <1>s DEF NodeRegisters
      <3>2. nodes' = nodes \cup {i} /\ UNCHANGED place
        BY <2>1 DEF NodeRegisters
      <3>3. place' \in [Pods -> {0} \cup nodes'] /\ nodes' \subseteq Names
        BY <1>p, <3>2
      <3> QED BY <2>1, <3>1, <3>3
              DEF NodeRegisters, TypeOK, ClaimTypeOK, CreatesNamed, poolVars
    <2>2. CASE ClaimReady(i)
      BY <2>2, <1>f, <1>s DEF ClaimReady, TypeOK, ClaimTypeOK, CreatesNamed, poolVars, podVars
    <2>3. CASE ClaimFails(i)
      BY <2>3, <1>b, <1>f, <1>p, <1>s, SpendType
         DEF ClaimFails, TypeOK, ClaimTypeOK, CreatesNamed, poolVars, podVars
    <2>4. CASE ClaimAges(i)
      <3>1. [claims EXCEPT ![i].old = TRUE] \in [Names -> Claim]
        BY <1>p DEF ClaimTypeOK, Claim
      <3> QED BY <2>4, <1>b, <1>p, <3>1, SpendType, WriteClaimsType
              DEF ClaimAges, TypeOK, ClaimTypeOK, CreatesNamed, poolVars, podVars
    <2>5. CASE NodeLost(i)
      BY <2>5, <1>b, <1>p, SpendType, DropNodeType
         DEF NodeLost, DropNode, TypeOK, CreatesNamed, poolVars, claimVars
    <2>6. CASE ClaimRecycled(i)
      BY <2>6, <1>f, <1>s
         DEF ClaimRecycled, TypeOK, ClaimTypeOK, CreatesNamed, poolVars, podVars
    <2>7. CASE ClaimFinalizesNode(i)
      BY <2>7, <1>p, DropNodeType
         DEF ClaimFinalizesNode, DropNode, TypeOK, CreatesNamed, poolVars, claimVars
    <2>8. CASE ClaimFinalized(i)
      <3>1. [claims EXCEPT ![i] = NoClaim] \in [Names -> Claim]
        BY <1>p, <1>f DEF ClaimTypeOK, Claim, NoClaim
      <3>2. ClaimTypeOK'
        BY <2>8, <1>p, <3>1, WriteClaimsType DEF ClaimFinalized
      <3>3. leaked' \subseteq Names
        BY <2>8 DEF ClaimFinalized, TypeOK
      <3> QED BY <2>8, <3>2, <3>3
              DEF ClaimFinalized, TypeOK, ClaimTypeOK, CreatesNamed, poolVars
    <2>9. CASE ClaimCollected(i)
      BY <2>9, <1>p, MarkDeletedType
         DEF ClaimCollected, TypeOK, ClaimTypeOK, CreatesNamed, poolVars, podVars
    <2> QED BY <1>5, <2>1, <2>2, <2>3, <2>4, <2>5, <2>6, <2>7, <2>8, <2>9
            DEF ClaimController
  <1>6. ASSUME NEW p \in Pods, PodArrives(p) \/ PodScheduled(p) \/ PodLeaves(p)
        PROVE  TypeInv'
    <2>1. CASE PodArrives(p)
      BY <2>1, <1>b, <1>p, SpendType
         DEF PodArrives, TypeOK, CreatesNamed, poolVars, claimVars
    <2>2. CASE PodScheduled(p)
      <3>1. PICK i \in nodes : place' = [place EXCEPT ![p] = i]
        BY <2>2 DEF PodScheduled
      <3>2. place' \in [Pods -> {0} \cup nodes]
        BY <1>p, <3>1
      <3> QED BY <2>2, <3>2 DEF PodScheduled, TypeOK, CreatesNamed, poolVars, claimVars
    <2>3. CASE PodLeaves(p)
      BY <2>3, <1>p DEF PodLeaves, TypeOK, CreatesNamed, poolVars, claimVars
    <2> QED BY <1>6, <2>1, <2>2, <2>3
  <1> QED BY <1>1, <1>2, <1>3, <1>4, <1>5, <1>6

\* Every variable keeps its type, pods run on nodes of the pool only, and the loop
\* that creates claims never runs past the names it planned, however caches lag,
\* reconciles are cut off and nodes are lost.
THEOREM TypeCorrect == Spec => [](TypeOK /\ CreatesNamed)
  <1>1. Init => TypeInv
    BY InitType
  <1>2. TypeInv /\ [Next]_vars => TypeInv'
    <2>1. CASE Next
      BY <2>1, ControllerType, EnvironmentType DEF Next
    <2>2. CASE UNCHANGED vars
      BY <2>2 DEF vars, TypeInv, TypeOK, CreatesNamed, poolVars, claimVars, podVars
    <2> QED BY <2>1, <2>2
  <1> QED BY <1>1, <1>2, PTL DEF Spec, TypeInv

-----------------------------------------------------------------------------
(* The invariant behind teardown and the claim sequence, for caches that are *)
(* current                                                                   *)

ScalingPC == {"pods", "nodes", "refresh", "choose", "plan", "blocked", "create",
              "saveUp", "candidates", "remove", "saveDown"}

FinalizingPC == {"finalize", "delete", "removeFinalizer"}

\* The caches show what the API server has.
CurrentCaches == poolRead = pool /\ poolFresh /\ listed = claims

\* Claim i is gone or on its way out.
Leaving(i) == claims[i].phase = "none" \/ claims[i].deleting

\* The pool cannot go while a reconcile works for it: the finalizer holds it.
FinalizerHolds ==
  pc \in ScalingPC \cup FinalizingPC => pool.exists /\ pool.finalizer

\* A pool that could go at once has no claims yet.
NoClaimsBefore ==
  pool.exists /\ ~pool.finalizer => \A i \in Names : claims[i].phase = "none"

\* A finalizing reconcile has all claims behind it but those left to delete.
DeletesTheRest ==
  /\ pc = "delete" => \A i \in Names : i \in run.delete \/ Leaving(i)
  /\ pc = "removeFinalizer" => \A i \in Names : Leaving(i)

\* The reconcile's copy of the sequence is the saved one, and then runs ahead.
SequenceKnown ==
  /\ pc \in {"pods", "nodes", "refresh", "choose", "plan"} => run.seq = pool.seq
  /\ pc \in {"create", "saveUp"} => run.seq >= pool.seq

PoolInv ==
  /\ CurrentCaches
  /\ FinalizerHolds
  /\ NoClaimsBefore
  /\ DeletesTheRest
  /\ SequenceKnown
  /\ TeardownReachesAll

\* What others may do to the claims: they create none and take no deletion back.
ClaimsOnlyLeave ==
  \A i \in Names : claims'[i].phase # "none" =>
    claims[i].phase # "none" /\ (claims[i].deleting => claims'[i].deleting)

\* The claim controller, failures and time neither create claims nor revive them,
\* and leave the pool and its reconcile alone.
LEMMA ClaimsLeave ==
  ASSUME ~StaleReads, TypeOK, listed = claims, NEW i \in Names,
         ClaimController(i) \/ ClaimFails(i) \/ ClaimAges(i) \/ NodeLost(i)
  PROVE  ClaimsOnlyLeave /\ listed' = claims' /\ UNCHANGED <<poolVars, pc, run>>
  <1>t. claims \in [Names -> Claim]
    BY DEF TypeOK
  <1>1. ASSUME NEW phase, SetPhase(i, phase), claims[i].phase # "none"
        PROVE  ClaimsOnlyLeave /\ listed' = claims'
    BY <1>1, <1>t DEF SetPhase, WriteClaims, ClaimsOnlyLeave, Claim
  <1>2. CASE NodeRegisters(i)
    BY <1>1, <1>2 DEF NodeRegisters
  <1>3. CASE ClaimReady(i)
    BY <1>1, <1>3 DEF ClaimReady
  <1>4. CASE ClaimRecycled(i)
    BY <1>1, <1>4 DEF ClaimRecycled
  <1>5. CASE ClaimFails(i)
    BY <1>1, <1>5 DEF ClaimFails
  <1>6. CASE ClaimFinalized(i)
    BY <1>6, <1>t DEF ClaimFinalized, WriteClaims, ClaimsOnlyLeave, NoClaim
  <1>7. CASE ClaimCollected(i)
    BY <1>7, <1>t DEF ClaimCollected, WriteClaims, ClaimsOnlyLeave, Claim
  <1>8. CASE ClaimAges(i)
    BY <1>8, <1>t DEF ClaimAges, WriteClaims, ClaimsOnlyLeave, Claim
  <1>9. CASE NodeLost(i) \/ ClaimFinalizesNode(i)
    BY <1>9 DEF NodeLost, ClaimFinalizesNode, claimVars, ClaimsOnlyLeave
  <1> QED BY <1>2, <1>3, <1>4, <1>5, <1>6, <1>7, <1>8, <1>9 DEF ClaimController

\* A step that only lets claims leave keeps the invariant.
LEMMA LeavingKeeps ==
  ASSUME PoolInv, ClaimsOnlyLeave, listed' = claims', UNCHANGED <<poolVars, pc, run>>
  PROVE  PoolInv'
  <1>1. \A i \in Names : Leaving(i) => Leaving(i)'
    BY DEF ClaimsOnlyLeave, Leaving
  <1>2. CurrentCaches' /\ FinalizerHolds' /\ SequenceKnown'
    BY DEF PoolInv, CurrentCaches, FinalizerHolds, SequenceKnown, poolVars
  <1>3. NoClaimsBefore'
    BY DEF PoolInv, NoClaimsBefore, ClaimsOnlyLeave, poolVars
  <1>4. DeletesTheRest'
    BY <1>1 DEF PoolInv, DeletesTheRest
  <1>5. TeardownReachesAll'
    BY <1>1 DEF PoolInv, TeardownReachesAll, Leaving, poolVars
  <1> QED BY <1>2, <1>3, <1>4, <1>5 DEF PoolInv

\* With current caches, updateStatus leaves the pool with the status it was given.
LEMMA PoolUpdatedCurrent ==
  ASSUME ~StaleReads, CurrentCaches, NEW new, PoolUpdated(new)
  PROVE  pool' = new /\ poolRead' = new /\ poolFresh'
  BY DEF CurrentCaches, PoolUpdated, WritePool, poolVars

\* A reconcile that returned, having changed neither claims nor what the pool is,
\* keeps the invariant.
LEMMA ReturnKeeps ==
  ASSUME PoolInv, UNCHANGED claimVars, pc' = "idle",
         poolRead' = pool', poolFresh',
         pool'.exists = pool.exists,
         pool'.finalizer = pool.finalizer \/ pool'.finalizer
  PROVE  PoolInv'
  BY DEF PoolInv, CurrentCaches, FinalizerHolds, NoClaimsBefore, DeletesTheRest,
         SequenceKnown, TeardownReachesAll, Leaving, ScalingPC, FinalizingPC, claimVars

\* Each step of a reconcile preserves the invariant.
LEMMA ControllerKeeps ==
  ASSUME ~StaleReads, TypeInv, PoolInv, Reconcile \/ Controller
  PROVE  PoolInv'
  <1>c. CurrentCaches /\ listed = claims /\ poolRead = pool /\ poolFresh
    BY DEF PoolInv, CurrentCaches
  <1>t. /\ pool \in Pool /\ run \in Run /\ claims \in [Names -> Claim]
        /\ run.seq \in Nat /\ pool.seq \in Nat
    BY DEF TypeInv, TypeOK, Run, Pool
  <1>i. /\ PoolInv => FinalizerHolds /\ NoClaimsBefore /\ DeletesTheRest
        /\ PoolInv => SequenceKnown /\ TeardownReachesAll
    BY DEF PoolInv
  <1> USE DEF ScalingPC, FinalizingPC
  <1>1. CASE Reconcile
    <2>1. UNCHANGED <<poolVars, claimVars>>
      BY <1>1 DEF Reconcile
    <2>2. /\ pc' \in {"finalize", "addFinalizer", "pods"}
          /\ pc' \in {"finalize", "pods"} => pool.exists /\ pool.finalizer
          /\ pc' = "pods" => run'.seq = pool.seq
      BY <1>1, <1>c DEF Reconcile, Goto, NoRun
    <2> QED BY <1>c, <1>i, <2>1, <2>2
            DEF PoolInv, CurrentCaches, FinalizerHolds, NoClaimsBefore, DeletesTheRest,
                SequenceKnown, TeardownReachesAll, poolVars, claimVars
  <1>2. CASE AddFinalizer
    <2>1. pc' = "idle" /\ UNCHANGED claimVars
      BY <1>2 DEF AddFinalizer, Return, Goto
    <2>2. /\ poolRead' = pool' /\ poolFresh' /\ pool'.exists = pool.exists
          /\ pool'.finalizer = pool.finalizer \/ pool'.finalizer
      BY <1>2, <1>c, <1>t DEF AddFinalizer, WritePool, poolVars, Pool
    <2> QED BY <2>1, <2>2, ReturnKeeps
  <1>3. CASE ListPods \/ ListNodes
    <2>1. UNCHANGED <<poolVars, claimVars>>
      BY <1>3 DEF ListPods, ListNodes
    <2>2. pc \in {"pods", "nodes"} /\ pc' \in {"nodes", "refresh"} /\ run'.seq = run.seq
      BY <1>3, <1>t DEF ListPods, ListNodes, Goto, Run
    <2> QED BY <1>c, <1>i, <2>1, <2>2
            DEF PoolInv, CurrentCaches, FinalizerHolds, NoClaimsBefore, DeletesTheRest,
                SequenceKnown, TeardownReachesAll, poolVars, claimVars
  <1>4. CASE RefreshStatus
    <2> DEFINE new == [poolRead EXCEPT !.full = AtLimit(listed)]
    <2>1. /\ new.exists = pool.exists /\ new.finalizer = pool.finalizer
          /\ new.seq = pool.seq
      BY <1>c, <1>t DEF Pool
    <2> HIDE DEF new
    <2>2. pc = "refresh" /\ pc' = "choose" /\ UNCHANGED claimVars
      BY <1>4 DEF RefreshStatus, Goto
    <2>3. /\ poolRead' = pool' /\ poolFresh' /\ pool'.exists = pool.exists
          /\ pool'.finalizer = pool.finalizer /\ pool'.seq = pool.seq
      BY <1>4, <1>c, <2>1, PoolUpdatedCurrent DEF RefreshStatus, poolVars, new
    <2>4. run'.seq = pool.seq
      BY <1>4, <1>i, <1>t, <2>1, <2>2 DEF RefreshStatus, Goto, SequenceKnown, Run, new
    <2> QED BY <1>c, <1>i, <2>2, <2>3, <2>4
            DEF PoolInv, CurrentCaches, FinalizerHolds, NoClaimsBefore, DeletesTheRest,
                SequenceKnown, TeardownReachesAll, claimVars
  <1>5. CASE Choose
    <2>1. UNCHANGED <<poolVars, claimVars>> /\ pc = "choose"
      BY <1>5 DEF Choose
    <2>2. pc' \in {"plan", "candidates", "idle"} /\ (pc' = "plan" => run'.seq = run.seq)
      BY <1>5, <1>t DEF Choose, Goto, Return, Run
    <2> QED BY <1>c, <1>i, <2>1, <2>2
            DEF PoolInv, CurrentCaches, FinalizerHolds, NoClaimsBefore, DeletesTheRest,
                SequenceKnown, TeardownReachesAll, poolVars, claimVars
  <1>6. CASE Plan
    <2>1. UNCHANGED <<poolVars, claimVars>> /\ pc = "plan"
      BY <1>6 DEF Plan
    <2>2. pc' \in {"create", "blocked", "idle"}
      BY <1>6 DEF Plan, Goto, Return
    <2>3. pc' = "create" => run'.seq = FirstSequence
      BY <1>6 DEF Plan, Goto, Return, NoRun
    <2>4. FirstSequence >= pool.seq
      BY <1>i, <1>t, <2>1 DEF FirstSequence, SequenceKnown
    <2> QED BY <1>c, <1>i, <2>1, <2>2, <2>3, <2>4
            DEF PoolInv, CurrentCaches, FinalizerHolds, NoClaimsBefore, DeletesTheRest,
                SequenceKnown, TeardownReachesAll, poolVars, claimVars
  <1>7. CASE Blocked \/ SaveScaleUp \/ SaveScaleDown
    <2>1. pc' = "idle" /\ UNCHANGED claimVars
      BY <1>7 DEF Blocked, SaveScaleUp, SaveScaleDown, Return, Goto
    <2> DEFINE full == [poolRead EXCEPT !.full = TRUE]
               up == [poolRead EXCEPT !.seq = run.seq, !.recent = TRUE]
               down == [poolRead EXCEPT !.recent = TRUE]
    <2>f. \A new \in {full, up, down} :
            new.exists = pool.exists /\ new.finalizer = pool.finalizer
      BY <1>c, <1>t DEF Pool
    <2>u. PoolUpdated(full) \/ PoolUpdated(up) \/ PoolUpdated(down)
      BY <1>7 DEF Blocked, SaveScaleUp, SaveScaleDown
    <2> HIDE DEF full, up, down
    <2>2. PICK new \in {full, up, down} :
            /\ PoolUpdated(new)
            /\ new.exists = pool.exists /\ new.finalizer = pool.finalizer
      BY <2>f, <2>u
    <2>3. pool' = new /\ poolRead' = new /\ poolFresh'
      BY <1>c, <2>2, PoolUpdatedCurrent
    <2> QED BY <2>1, <2>2, <2>3, ReturnKeeps
  <1>8. CASE EnsureClaim
    <2>1. UNCHANGED poolVars /\ pc = "create" /\ pc' \in {"create", "saveUp"}
      BY <1>8 DEF EnsureClaim, Goto
    <2>2. run'.seq = run.seq + 1
      BY <1>8, <1>t DEF EnsureClaim, Goto, Run
    <2>3. run'.seq >= pool.seq /\ pool.exists /\ pool.finalizer
      BY <1>i, <1>t, <2>1, <2>2 DEF SequenceKnown, FinalizerHolds
    <2>4. listed' = claims'
      BY <1>8, <1>c DEF EnsureClaim, WriteClaims, claimVars
    <2> QED BY <1>c, <2>1, <2>3, <2>4
            DEF PoolInv, CurrentCaches, FinalizerHolds, NoClaimsBefore, DeletesTheRest,
                SequenceKnown, TeardownReachesAll, poolVars
  <1>9. CASE Candidates
    <2>1. UNCHANGED <<poolVars, claimVars>> /\ pc = "candidates"
      BY <1>9 DEF Candidates
    <2>2. pc' \in {"remove", "idle"}
      BY <1>9 DEF Candidates, Goto, Return
    <2> QED BY <1>c, <1>i, <2>1, <2>2
            DEF PoolInv, CurrentCaches, FinalizerHolds, NoClaimsBefore, DeletesTheRest,
                SequenceKnown, TeardownReachesAll, poolVars, claimVars
  <1>10. CASE RemoveClaim
    <2>1. UNCHANGED poolVars /\ pc = "remove" /\ pc' \in {"saveDown", "idle"}
      BY <1>10 DEF RemoveClaim, Goto, Return
    <2>2. listed' = claims'
      BY <1>10, <1>c DEF RemoveClaim, WriteClaims, claimVars
    <2>3. pool.exists /\ pool.finalizer
      BY <1>i, <2>1 DEF FinalizerHolds
    <2> QED BY <1>c, <2>1, <2>2, <2>3
            DEF PoolInv, CurrentCaches, FinalizerHolds, NoClaimsBefore, DeletesTheRest,
                SequenceKnown, TeardownReachesAll, poolVars
  <1>11. CASE ListForFinalize
    <2>1. UNCHANGED <<poolVars, claimVars>> /\ pc = "finalize" /\ pc' = "delete"
      BY <1>11 DEF ListForFinalize, Goto
    <2>2. run'.delete = {i \in Names : claims[i].phase # "none" /\ ~claims[i].deleting}
      BY <1>11, <1>c, <1>t DEF ListForFinalize, Goto, Run
    <2>3. DeletesTheRest'
      BY <2>1, <2>2 DEF DeletesTheRest, Leaving, claimVars
    <2> QED BY <1>c, <1>i, <2>1, <2>3
            DEF PoolInv, CurrentCaches, FinalizerHolds, NoClaimsBefore,
                SequenceKnown, TeardownReachesAll, poolVars, claimVars
  <1>12. CASE DeleteForFinalize
    <2>1. UNCHANGED poolVars /\ pc = "delete" /\ pc' \in {"delete", "removeFinalizer", "idle"}
      BY <1>12 DEF DeleteForFinalize, Goto, Return
    <2>2. listed' = claims'
      BY <1>12, <1>c DEF DeleteForFinalize, WriteClaims, claimVars
    <2>3. pool.exists /\ pool.finalizer
      BY <1>i, <2>1 DEF FinalizerHolds
    <2>4. DeletesTheRest'
      <3>1. ASSUME NEW i \in run.delete,
                   IF claims[i].phase = "none" THEN UNCHANGED claimVars
                   ELSE WriteClaims([claims EXCEPT ![i].deleting = TRUE]),
                   Goto("delete", [run EXCEPT !.delete = @ \ {i}])
            PROVE  DeletesTheRest'
        <4>1. run'.delete = run.delete \ {i} /\ pc' = "delete" /\ i \in Names
          BY <1>t, <3>1 DEF Goto, Run
        <4>2. Leaving(i)' /\ \A j \in Names : Leaving(j) => Leaving(j)'
          BY <1>t, <3>1, <4>1 DEF WriteClaims, claimVars, Leaving, Claim
        <4> QED BY <1>i, <2>1, <4>1, <4>2 DEF DeletesTheRest
      <3>2. ASSUME run.delete = {}, UNCHANGED claimVars, pc' \in {"idle", "removeFinalizer"}
            PROVE  DeletesTheRest'
        BY <1>i, <2>1, <3>2 DEF DeletesTheRest, Leaving, claimVars
      <3> QED BY <1>12, <3>1, <3>2 DEF DeleteForFinalize, Return, Goto
    <2> QED BY <1>c, <2>1, <2>2, <2>3, <2>4
            DEF PoolInv, CurrentCaches, FinalizerHolds, NoClaimsBefore,
                SequenceKnown, TeardownReachesAll, poolVars
  <1>13. CASE RemovePoolFinalizer
    <2>1. pc = "removeFinalizer" /\ pc' = "idle" /\ UNCHANGED claimVars
      BY <1>13 DEF RemovePoolFinalizer, Return, Goto
    <2>2. \A i \in Names : Leaving(i)'
      BY <1>i, <2>1 DEF DeletesTheRest, Leaving, claimVars
    <2>3. /\ poolRead' = pool' /\ poolFresh'
          /\ UNCHANGED poolVars \/ ~pool'.exists
      BY <1>13, <1>c, <1>t DEF RemovePoolFinalizer, WritePool, poolVars, Pool
    <2> QED BY <1>c, <1>i, <2>1, <2>2, <2>3
            DEF PoolInv, CurrentCaches, FinalizerHolds, NoClaimsBefore, DeletesTheRest,
                SequenceKnown, TeardownReachesAll, Leaving, poolVars, claimVars
  <1>14. CASE Abort
    BY <1>14, <1>c, ReturnKeeps DEF Abort, Return, Goto, poolVars
  <1> QED BY <1>1, <1>2, <1>3, <1>4, <1>5, <1>6, <1>7, <1>8, <1>9, <1>10, <1>11, <1>12,
             <1>13, <1>14 DEF Controller

\* Every step preserves the invariant: the environment's too, and a DeletePool at
\* any point of a reconcile.
LEMMA NextKeeps ==
  ASSUME ~StaleReads, TypeInv, PoolInv, [Next]_vars
  PROVE  PoolInv'
  <1>c. CurrentCaches /\ listed = claims /\ poolRead = pool /\ poolFresh
    BY DEF PoolInv, CurrentCaches
  <1>t. TypeOK /\ pool \in Pool /\ run \in Run
    BY DEF TypeInv, TypeOK
  <1>1. CASE Reconcile \/ Controller
    BY <1>1, ControllerKeeps
  <1>2. CASE SyncPool \/ SyncClaims
    BY <1>2, <1>c DEF SyncPool, SyncClaims
  <1>3. ASSUME NEW i \in Names,
               ClaimController(i) \/ ClaimFails(i) \/ ClaimAges(i) \/ NodeLost(i)
        PROVE  PoolInv'
    BY <1>3, <1>c, <1>t, ClaimsLeave, LeavingKeeps
  <1>4. CASE UNCHANGED <<poolVars, claimVars, pc, run>>
    BY <1>4, <1>c, LeavingKeeps DEF claimVars, ClaimsOnlyLeave
  <1>5. ASSUME NEW p \in Pods, PodArrives(p) \/ PodScheduled(p) \/ PodLeaves(p)
        PROVE  PoolInv'
    BY <1>4, <1>5 DEF PodArrives, PodScheduled, PodLeaves
  <1>6. CASE DeletePool
    <2>1. /\ UNCHANGED <<claimVars, pc>> /\ pool.exists
          /\ run'.seq = run.seq /\ run'.delete = run.delete
      BY <1>6, <1>t DEF DeletePool, Run
    <2>2. /\ poolRead' = pool' /\ poolFresh'
          /\ pool'.exists = pool.finalizer /\ pool'.finalizer = pool.finalizer
          /\ pool'.seq = pool.seq
      BY <1>6, <1>c, <1>t DEF DeletePool, WritePool, Pool
    <2> QED BY <1>c, <2>1, <2>2
            DEF PoolInv, CurrentCaches, FinalizerHolds, NoClaimsBefore, DeletesTheRest,
                SequenceKnown, TeardownReachesAll, Leaving, claimVars
  <1>7. CASE WindowPasses
    <2>1. /\ UNCHANGED <<claimVars, pc, poolFresh>>
          /\ run'.seq = run.seq /\ run'.delete = run.delete
      BY <1>7, <1>t DEF WindowPasses, Run
    <2>2. /\ poolRead' = pool' /\ pool'.exists = pool.exists
          /\ pool'.finalizer = pool.finalizer /\ pool'.seq = pool.seq
      BY <1>7, <1>c, <1>t DEF WindowPasses, Pool
    <2> QED BY <1>c, <2>1, <2>2
            DEF PoolInv, CurrentCaches, FinalizerHolds, NoClaimsBefore, DeletesTheRest,
                SequenceKnown, TeardownReachesAll, Leaving, claimVars
  <1>8. CASE UNCHANGED vars
    BY <1>4, <1>8 DEF vars
  <1> QED BY <1>1, <1>2, <1>3, <1>5, <1>6, <1>7, <1>8 DEF Next

\* The invariant holds throughout.
LEMMA PoolInvariant ==
  ASSUME ~StaleReads
  PROVE  Spec => [](TypeInv /\ PoolInv)
  <1>1. Init => PoolInv
    BY DEF Init, NewPool, NoClaim, PoolInv, CurrentCaches, FinalizerHolds, NoClaimsBefore,
           DeletesTheRest, SequenceKnown, TeardownReachesAll, ScalingPC, FinalizingPC
  <1>2. TypeInv /\ PoolInv /\ [Next]_vars => PoolInv'
    BY NextKeeps
  <1>3. Spec => []TypeInv
    BY TypeCorrect DEF TypeInv
  <1> QED BY <1>1, <1>2, <1>3, PTL DEF Spec

-----------------------------------------------------------------------------
(* Teardown and the claim sequence *)

\* With current caches, when the pool goes every claim it had is gone or being
\* deleted: finalizePool misses none, wherever it is cut off, whatever is created
\* before it and whenever the pool is deleted.
THEOREM Teardown ==
  ASSUME ~StaleReads
  PROVE  Spec => []TeardownReachesAll
  <1>1. PoolInv => TeardownReachesAll
    BY DEF PoolInv
  <1> QED BY <1>1, PoolInvariant, PTL

\* A step never moves the saved sequence back.
LEMMA StepSequence ==
  ASSUME ~StaleReads, TypeInv, PoolInv, [Next]_vars
  PROVE  pool'.seq >= pool.seq
  <1>c. CurrentCaches /\ poolRead = pool /\ SequenceKnown
    BY DEF PoolInv, CurrentCaches
  <1>t. pool \in Pool /\ pool.seq \in Nat /\ run.seq \in Nat
    BY DEF TypeInv, TypeOK, Pool, Run
  <1>1. CASE pool' = pool
    BY <1>1, <1>t
  <1>2. CASE AddFinalizer \/ RemovePoolFinalizer \/ DeletePool \/ WindowPasses
    <2>1. pool'.seq = pool.seq
      BY <1>2, <1>t DEF AddFinalizer, RemovePoolFinalizer, DeletePool, WindowPasses,
                        WritePool, poolVars, Pool
    <2> QED BY <2>1, <1>t
  <1>3. CASE RefreshStatus \/ Blocked \/ SaveScaleDown
    <2>1. pool'.seq = pool.seq
      BY <1>3, <1>c, <1>t, PoolUpdatedCurrent
         DEF RefreshStatus, Blocked, SaveScaleDown, poolVars, Pool
    <2> QED BY <2>1, <1>t
  <1>4. CASE SaveScaleUp
    <2> DEFINE new == [poolRead EXCEPT !.seq = run.seq, !.recent = TRUE]
    <2>n. new.seq = run.seq
      BY <1>c, <1>t DEF Pool
    <2>u. PoolUpdated(new)
      BY <1>4 DEF SaveScaleUp
    <2> HIDE DEF new
    <2>1. pool'.seq = run.seq
      BY <1>c, <2>n, <2>u, PoolUpdatedCurrent
    <2>2. run.seq >= pool.seq
      BY <1>4, <1>c DEF SaveScaleUp, SequenceKnown
    <2> QED BY <2>1, <2>2
  <1>5. CASE \/ Reconcile \/ ListPods \/ ListNodes \/ Choose \/ Plan \/ EnsureClaim
             \/ Candidates \/ RemoveClaim \/ ListForFinalize \/ DeleteForFinalize \/ Abort
    <2>1. pool' = pool
      BY <1>5 DEF Reconcile, ListPods, ListNodes, Choose, Plan, EnsureClaim, Candidates,
                  RemoveClaim, ListForFinalize, DeleteForFinalize, Abort, poolVars
    <2> QED BY <1>1, <2>1
  <1>6. CASE SyncPool \/ SyncClaims
    BY <1>1, <1>6 DEF SyncPool, SyncClaims, poolVars
  <1>7. ASSUME NEW i \in Names,
               ClaimController(i) \/ ClaimFails(i) \/ ClaimAges(i) \/ NodeLost(i)
        PROVE  pool' = pool
    BY <1>7 DEF ClaimController, NodeRegisters, ClaimReady, ClaimRecycled,
                ClaimFinalizesNode, ClaimFinalized, ClaimCollected, ClaimFails, ClaimAges,
                NodeLost, poolVars
  <1>8. ASSUME NEW p \in Pods, PodArrives(p) \/ PodScheduled(p) \/ PodLeaves(p)
        PROVE  pool' = pool
    BY <1>8 DEF PodArrives, PodScheduled, PodLeaves, poolVars
  <1>9. CASE UNCHANGED vars
    BY <1>1, <1>9 DEF vars, poolVars
  <1> QED BY <1>1, <1>2, <1>3, <1>4, <1>5, <1>6, <1>7, <1>8, <1>9 DEF Next, Controller

\* With current caches the claim sequence never goes back, so a name is not handed
\* out twice, though a reconcile may die between creating claims and saving it.
THEOREM Sequence ==
  ASSUME ~StaleReads
  PROVE  Spec => SequenceGrows
  <1>1. TypeInv /\ PoolInv /\ [Next]_vars => [pool'.seq >= pool.seq]_vars
    BY StepSequence
  <1> QED BY <1>1, PoolInvariant, PTL DEF Spec, SequenceGrows

\* A claim that a step creates has a name the saved sequence has not passed.
LEMMA StepNames ==
  ASSUME ~StaleReads, TypeInv, PoolInv, [Next]_vars,
         NEW i \in Names, claims[i].phase = "none", claims'[i].phase # "none"
  PROVE  i >= pool.seq
  <1>c. CurrentCaches /\ listed = claims /\ SequenceKnown
    BY DEF PoolInv, CurrentCaches
  <1>t. /\ claims \in [Names -> Claim] /\ run \in Run
        /\ pool.seq \in Nat /\ run.seq \in Nat /\ Names \subseteq Nat
    BY DEF TypeInv, TypeOK, Pool, Run, Names
  <1>0. claims' # claims
    OBVIOUS
  <1>1. CASE EnsureClaim
    <2>1. i = run.seq
      BY <1>1, <1>t, <1>0 DEF EnsureClaim, WriteClaims, claimVars
    <2> QED BY <1>1, <1>c, <1>t, <2>1 DEF EnsureClaim, SequenceKnown
  <1>2. CASE RemoveClaim \/ DeleteForFinalize
    <2>1. PICK j : claims' = [claims EXCEPT ![j].deleting = TRUE]
      BY <1>2, <1>0 DEF RemoveClaim, DeleteForFinalize, WriteClaims, claimVars
    <2>2. claims'[i].phase = claims[i].phase
      BY <1>t, <2>1 DEF Claim
    <2> QED BY <2>2
  <1>3. CASE \/ Reconcile \/ AddFinalizer \/ ListPods \/ ListNodes \/ RefreshStatus
             \/ Choose \/ Plan \/ Blocked \/ SaveScaleUp \/ Candidates \/ SaveScaleDown
             \/ ListForFinalize \/ RemovePoolFinalizer \/ Abort
    BY <1>0, <1>3 DEF Reconcile, AddFinalizer, ListPods, ListNodes, RefreshStatus, Choose,
                      Plan, Blocked, SaveScaleUp, Candidates, SaveScaleDown,
                      ListForFinalize, RemovePoolFinalizer, Abort, claimVars
  <1>4. CASE SyncPool \/ SyncClaims \/ DeletePool \/ WindowPasses
    BY <1>0, <1>4 DEF SyncPool, SyncClaims, DeletePool, WindowPasses, claimVars
  <1>5. ASSUME NEW j \in Names,
               ClaimController(j) \/ ClaimFails(j) \/ ClaimAges(j) \/ NodeLost(j)
        PROVE  FALSE
    BY <1>5, <1>c, ClaimsLeave DEF TypeInv, ClaimsOnlyLeave
  <1>6. ASSUME NEW p \in Pods, PodArrives(p) \/ PodScheduled(p) \/ PodLeaves(p)
        PROVE  FALSE
    BY <1>0, <1>6 DEF PodArrives, PodScheduled, PodLeaves, claimVars
  <1>7. CASE UNCHANGED vars
    BY <1>0, <1>7 DEF vars, claimVars
  <1> QED BY <1>1, <1>2, <1>3, <1>4, <1>5, <1>6, <1>7 DEF Next, Controller

\* With current caches a claim is only ever created under a name that the saved
\* sequence has not passed.
THEOREM NewNames ==
  ASSUME ~StaleReads
  PROVE  Spec => NamesAreNew
  <1>1. TypeInv /\ PoolInv /\ [Next]_vars =>
          [\A i \in Names : claims[i].phase = "none" /\ claims'[i].phase # "none" =>
             i >= pool.seq]_vars
    BY StepNames
  <1> QED BY <1>1, PoolInvariant, PTL DEF Spec, NamesAreNew

-----------------------------------------------------------------------------
(* The size of the pool, for caches that are current *)

\* Claims that are not Ready with a Node.
Outside == {i \in Live : claims[i].phase # "ready" \/ i \notin nodes}

\* Ready claims whose Node was lost: they are in no count.
Astray == {i \in Live : claims[i].phase = "ready" /\ i \notin nodes}

\* What the plan under way has left to create.
Left == IF pc = "create" THEN run.create ELSE 0

\* The reconcile holds a list of nodes for its plan.
HoldsList == pc \in {"refresh", "choose", "plan"}

\* Plans are made against the nodes that were listed and the claims outside of
\* them, so what is outside is bounded by maxNodes alone.  The claims that a list
\* of nodes does not show were outside when it was made, or the list failed.
SizeInv ==
  /\ listed = claims
  /\ budget.listError <= MaxListErrors
  /\ Cardinality(Astray) <= LostNodes
  /\ MaxNodes > 0 =>
       /\ Cardinality(Outside) + Left <= MaxNodes + LostNodes
       /\ HoldsList =>
            Cardinality(Live \ run.nodes) <= (1 + FailedLists) * MaxNodes + LostNodes
       /\ Cardinality(Live) + Left <= (2 + FailedLists) * MaxNodes + LostNodes
  /\ CapacityLimit > 0 => Cardinality(Live) + Left <= CapacityLimit + LostNodes

\* Sets of names are finite, and their sizes go with inclusion.
LEMMA NamesFinite ==
  /\ \A S \in SUBSET Names : IsFiniteSet(S) /\ Cardinality(S) \in Nat
  /\ \A S, T \in SUBSET Names : S \subseteq T => Cardinality(S) <= Cardinality(T)
  /\ \A S, T \in SUBSET Names :
       Cardinality(S \cup T) <= Cardinality(S) + Cardinality(T)
  /\ \A i \in Names : Cardinality({i}) = 1
  <1>1. IsFiniteSet(Names)
    <2>1. 1 \in Int /\ MaxClaims \in Int
      BY NodePoolAssumption
    <2> QED BY <2>1, FS_Interval DEF Names
  <1>2. \A S \in SUBSET Names : IsFiniteSet(S) /\ Cardinality(S) \in Nat
    BY <1>1, FS_Subset, FS_CardinalityType
  <1>3. ASSUME NEW S \in SUBSET Names, NEW T \in SUBSET Names
        PROVE  Cardinality(S \cup T) <= Cardinality(S) + Cardinality(T)
    <2>1. /\ IsFiniteSet(S) /\ IsFiniteSet(T)
          /\ Cardinality(S \cap T) \in Nat /\ Cardinality(S) \in Nat /\ Cardinality(T) \in Nat
      BY <1>2
    <2>2. Cardinality(S \cup T) = Cardinality(S) + Cardinality(T) - Cardinality(S \cap T)
      BY <2>1, FS_Union
    <2> QED BY <2>1, <2>2
  <1> QED BY <1>2, <1>3, FS_Subset, FS_Singleton

\* All sets of claims are sets of names.
LEMMA ClaimSets ==
  /\ Live \in SUBSET Names /\ Outside \in SUBSET Names /\ Astray \in SUBSET Names
  /\ Inflight(claims) \in SUBSET Names /\ Live \ run.nodes \in SUBSET Names
  /\ Cardinality(Live) \in Nat /\ Cardinality(Outside) \in Nat
  /\ Cardinality(Astray) \in Nat /\ Cardinality(Inflight(claims)) \in Nat
  /\ Cardinality(Live \ run.nodes) \in Nat
  <1>1. /\ Live \in SUBSET Names /\ Outside \in SUBSET Names /\ Astray \in SUBSET Names
        /\ Inflight(claims) \in SUBSET Names /\ Live \ run.nodes \in SUBSET Names
    BY DEF Live, Outside, Astray, Inflight
  <1> QED BY <1>1, NamesFinite

\* One more failed list is one more maxNodes.
LEMMA OneMore ==
  ASSUME NEW n \in Nat, NEW e \in Nat
  PROVE  /\ (2 + e) * n = (1 + e) * n + n /\ (1 + (e + 1)) * n = (2 + e) * n
         /\ (1 + e) * n \in Nat /\ (2 + e) * n \in Nat /\ n <= (1 + e) * n
  <1>1. (2 + e) * n = (1 + e) * n + n /\ (1 + (e + 1)) * n = (2 + e) * n
    OBVIOUS
  <1>2. e * n \in Nat /\ (1 + e) * n = n + e * n
    OBVIOUS
  <1> QED BY <1>1, <1>2

\* The bounds are numbers.
LEMMA SizeTypes ==
  ASSUME TypeOK
  PROVE  /\ MaxNodes \in Nat /\ CapacityLimit \in Nat /\ MaxListErrors \in Nat
         /\ budget.listError \in Nat /\ budget.lost \in Nat
         /\ FailedLists \in Int /\ LostNodes \in Int
         /\ run.create \in Nat /\ Left \in Nat
         /\ budget.listError <= MaxListErrors => FailedLists \in Nat
  <1>1. budget.listError \in Nat /\ budget.lost \in Nat
    BY DEF TypeOK, Bounds
  <1>2. run.create \in Nat
    BY DEF TypeOK, Run
  <1> QED BY <1>1, <1>2, NodePoolAssumption DEF FailedLists, LostNodes, Left

\* A step that neither lets claims in, nor nodes out, nor a new list in.
Quiet ==
  /\ listed' = claims'
  /\ budget'.listError = budget.listError /\ budget'.lost = budget.lost
  /\ Live' \subseteq Live /\ Outside' \subseteq Outside /\ Astray' \subseteq Astray
  /\ Left' \in Nat /\ Left' <= Left
  /\ HoldsList' => HoldsList /\ run'.nodes = run.nodes

\* Such a step keeps the invariant.
LEMMA QuietKeeps ==
  ASSUME TypeOK, SizeInv, Quiet
  PROVE  SizeInv'
  <1>1. FailedLists' = FailedLists /\ LostNodes' = LostNodes
    BY DEF Quiet, FailedLists, LostNodes
  <1>2. HoldsList' => Live' \ run'.nodes \subseteq Live \ run.nodes
    BY DEF Quiet
  <1>3. /\ Live' \in SUBSET Names /\ Outside' \in SUBSET Names /\ Astray' \in SUBSET Names
        /\ Live' \ run'.nodes \in SUBSET Names
    BY ClaimSets DEF Quiet
  <1>4. /\ Cardinality(Live') <= Cardinality(Live)
        /\ Cardinality(Outside') <= Cardinality(Outside)
        /\ Cardinality(Astray') <= Cardinality(Astray)
        /\ HoldsList' => Cardinality(Live' \ run'.nodes) <= Cardinality(Live \ run.nodes)
    BY <1>2, <1>3, ClaimSets, NamesFinite DEF Quiet
  <1>5. /\ Cardinality(Live') \in Nat /\ Cardinality(Outside') \in Nat
        /\ Cardinality(Astray') \in Nat /\ Cardinality(Live' \ run'.nodes) \in Nat
    BY <1>3, NamesFinite
  <1>6. /\ Cardinality(Live)' = Cardinality(Live') /\ Cardinality(Outside)' = Cardinality(Outside')
        /\ Cardinality(Astray)' = Cardinality(Astray')
    OBVIOUS
  <1> DEFINE b1 == (1 + FailedLists) * MaxNodes
             b2 == (2 + FailedLists) * MaxNodes
  <1>7. b1 \in Nat /\ b2 \in Nat
    BY SizeTypes, OneMore DEF SizeInv
  <1>8. b1' = b1 /\ b2' = b2
    BY <1>1
  <1>9. /\ listed' = claims' /\ budget'.listError <= MaxListErrors
        /\ Cardinality(Astray') <= LostNodes'
    BY <1>1, <1>4, <1>5, ClaimSets, SizeTypes DEF Quiet, SizeInv
  <1> HIDE DEF b1, b2
  <1>10. ASSUME MaxNodes > 0
         PROVE  /\ Cardinality(Outside') + Left' <= MaxNodes + LostNodes'
                /\ HoldsList' => Cardinality(Live' \ run'.nodes) <= b1 + LostNodes'
                /\ Cardinality(Live') + Left' <= b2 + LostNodes'
    <2>1. /\ Cardinality(Outside) + Left <= MaxNodes + LostNodes
          /\ HoldsList => Cardinality(Live \ run.nodes) <= b1 + LostNodes
          /\ Cardinality(Live) + Left <= b2 + LostNodes
      BY <1>10 DEF SizeInv, b1, b2
    <2>2. Left' \in Nat /\ Left' <= Left /\ (HoldsList' => HoldsList)
      BY DEF Quiet
    <2> QED BY <1>1, <1>4, <1>5, <1>7, <2>1, <2>2, ClaimSets, SizeTypes
  <1>11. ASSUME CapacityLimit > 0
         PROVE  Cardinality(Live') + Left' <= CapacityLimit + LostNodes'
    <2>1. Cardinality(Live) + Left <= CapacityLimit + LostNodes
      BY <1>11 DEF SizeInv
    <2>2. Left' \in Nat /\ Left' <= Left
      BY DEF Quiet
    <2> QED BY <1>1, <1>4, <1>5, <2>1, <2>2, ClaimSets, SizeTypes
  <1> QED BY <1>8, <1>9, <1>10, <1>11 DEF SizeInv, b1, b2

\* What the claim controller, failures and time do to a claim and its Node is quiet:
\* a claim leaves the sets or stays, and a Ready one is outside only without a Node.
LEMMA ClaimQuiet ==
  ASSUME ~StaleReads, TypeOK, listed = claims, NEW i \in Names,
         ClaimController(i) \/ ClaimFails(i) \/ ClaimAges(i)
  PROVE  Quiet
  <1>t. claims \in [Names -> Claim] /\ budget \in [Bounds -> Nat]
    BY DEF TypeOK
  <1>l. Left \in Nat
    BY SizeTypes
  <1>b. /\ "failed" # "listError" /\ "failed" # "lost" /\ "aged" # "listError" /\ "aged" # "lost"
        /\ {"failed", "aged", "listError", "lost"} \subseteq Bounds
    BY DEF Bounds
  <1>q. ASSUME listed' = claims', UNCHANGED <<pc, run>>,
               budget'.listError = budget.listError, budget'.lost = budget.lost,
               \A k \in Names \ {i} : claims'[k] = claims[k] /\ (k \in nodes <=> k \in nodes'),
               \/ i \notin Live'
               \/ /\ i \in Live
                  /\ i \in Outside' => i \in Outside
                  /\ i \in Astray' => i \in Astray
        PROVE  Quiet
    <2>1. Live' \subseteq Live /\ Outside' \subseteq Outside /\ Astray' \subseteq Astray
      BY <1>q DEF Live, Outside, Astray
    <2>2. Left' = Left /\ (HoldsList' => HoldsList /\ run'.nodes = run.nodes)
      BY <1>q DEF Left, HoldsList
    <2> QED BY <1>l, <1>q, <2>1, <2>2 DEF Quiet
  <1>p. ASSUME NEW phase, SetPhase(i, phase)
        PROVE  /\ listed' = claims' /\ claims'[i] = [claims[i] EXCEPT !.phase = phase]
               /\ \A k \in Names \ {i} : claims'[k] = claims[k]
    BY <1>p, <1>t DEF SetPhase, WriteClaims
  <1>1. CASE NodeRegisters(i)
    <2>1. /\ claims[i].phase = "pending" /\ ~claims[i].deleting
          /\ claims'[i] = [claims[i] EXCEPT !.phase = "registered"]
          /\ listed' = claims' /\ \A k \in Names \ {i} : claims'[k] = claims[k]
          /\ nodes' = nodes \cup {i} /\ UNCHANGED <<pc, run, budget>>
      BY <1>1, <1>p DEF NodeRegisters
    <2>2. /\ claims'[i].phase = "registered" /\ claims'[i].deleting = claims[i].deleting
          /\ claims'[i].old = claims[i].old
      BY <1>t, <2>1 DEF Claim
    <2>3. i \notin Live' \/ (i \in Live /\ i \in Outside /\ i \notin Astray')
      BY <2>1, <2>2 DEF Live, Outside, Astray
    <2> QED BY <1>q, <2>1, <2>3
  <1>2. CASE ClaimReady(i)
    <2>1. /\ claims[i].phase = "registered" /\ ~claims[i].deleting /\ i \in nodes
          /\ claims'[i] = [claims[i] EXCEPT !.phase = "ready"]
          /\ listed' = claims' /\ \A k \in Names \ {i} : claims'[k] = claims[k]
          /\ nodes' = nodes /\ UNCHANGED <<pc, run, budget>>
      BY <1>2, <1>p DEF ClaimReady, podVars
    <2>2. /\ claims'[i].phase = "ready" /\ claims'[i].deleting = claims[i].deleting
          /\ claims'[i].old = claims[i].old
      BY <1>t, <2>1 DEF Claim
    <2>3. i \notin Live' \/ (i \in Live /\ i \in Outside /\ i \notin Astray')
      BY <2>1, <2>2 DEF Live, Outside, Astray
    <2> QED BY <1>q, <2>1, <2>3
  <1>3. CASE ClaimRecycled(i)
    <2>1. /\ claims[i].phase \in {"registered", "ready"} /\ ~claims[i].deleting
          /\ i \notin nodes
          /\ claims'[i] = [claims[i] EXCEPT !.phase = "pending"]
          /\ listed' = claims' /\ \A k \in Names \ {i} : claims'[k] = claims[k]
          /\ nodes' = nodes /\ UNCHANGED <<pc, run, budget>>
      BY <1>3, <1>p DEF ClaimRecycled, podVars
    <2>2. /\ claims'[i].phase = "pending" /\ claims'[i].deleting = claims[i].deleting
          /\ claims'[i].old = claims[i].old
      BY <1>t, <2>1 DEF Claim
    <2>3. i \notin Live' \/ (i \in Live /\ i \in Outside /\ i \notin Astray')
      BY <2>1, <2>2 DEF Live, Outside, Astray
    <2> QED BY <1>q, <2>1, <2>3
  <1>4. CASE ClaimFails(i)
    <2>1. /\ claims[i].phase = "pending" /\ ~claims[i].deleting
          /\ claims'[i] = [claims[i] EXCEPT !.phase = "failed"]
          /\ listed' = claims' /\ \A k \in Names \ {i} : claims'[k] = claims[k]
          /\ nodes' = nodes /\ UNCHANGED <<pc, run>>
      BY <1>4, <1>p DEF ClaimFails, podVars
    <2>2. /\ claims'[i].phase = "failed" /\ claims'[i].deleting = claims[i].deleting
          /\ claims'[i].old = claims[i].old
      BY <1>t, <2>1 DEF Claim
    <2>3. i \notin Live' \/ (i \in Live /\ i \in Outside /\ i \notin Astray')
      BY <2>1, <2>2 DEF Live, Outside, Astray
    <2>4. budget'.listError = budget.listError /\ budget'.lost = budget.lost
      BY <1>4, <1>b, <1>t DEF ClaimFails, Spend
    <2> QED BY <1>q, <2>1, <2>3, <2>4
  <1>5. CASE ClaimAges(i)
    <2>1. /\ claims'[i] = [claims[i] EXCEPT !.old = TRUE]
          /\ listed' = claims' /\ \A k \in Names \ {i} : claims'[k] = claims[k]
          /\ nodes' = nodes /\ UNCHANGED <<pc, run>>
      BY <1>5, <1>t DEF ClaimAges, WriteClaims, podVars
    <2>2. i \notin Live'
      BY <1>t, <2>1 DEF Live, Claim
    <2>3. budget'.listError = budget.listError /\ budget'.lost = budget.lost
      BY <1>5, <1>b, <1>t DEF ClaimAges, Spend
    <2> QED BY <1>q, <2>1, <2>2, <2>3
  <1>6. CASE ClaimFinalizesNode(i)
    <2>1. /\ claims' = claims /\ listed' = listed /\ claims[i].deleting
          /\ nodes' = nodes \ {i} /\ UNCHANGED <<pc, run, budget>>
      BY <1>6 DEF ClaimFinalizesNode, DropNode, claimVars
    <2>2. i \notin Live'
      BY <2>1 DEF Live
    <2> QED BY <1>q, <2>1, <2>2
  <1>7. CASE ClaimFinalized(i)
    <2>1. /\ claims'[i] = NoClaim /\ listed' = claims'
          /\ \A k \in Names \ {i} : claims'[k] = claims[k]
          /\ nodes' = nodes /\ UNCHANGED <<pc, run, budget>>
      BY <1>7, <1>t DEF ClaimFinalized, WriteClaims
    <2>2. i \notin Live'
      BY <2>1 DEF Live, NoClaim
    <2> QED BY <1>q, <2>1, <2>2
  <1>8. CASE ClaimCollected(i)
    <2>1. /\ claims'[i] = [claims[i] EXCEPT !.deleting = TRUE] /\ listed' = claims'
          /\ \A k \in Names \ {i} : claims'[k] = claims[k]
          /\ nodes' = nodes /\ UNCHANGED <<pc, run, budget>>
      BY <1>8, <1>t DEF ClaimCollected, WriteClaims, podVars
    <2>2. i \notin Live'
      BY <1>t, <2>1 DEF Live, Claim
    <2> QED BY <1>q, <2>1, <2>2
  <1> QED BY <1>1, <1>2, <1>3, <1>4, <1>5, <1>6, <1>7, <1>8 DEF ClaimController

\* So are the steps of a reconcile, but for the three that list nodes, plan and
\* create claims.
LEMMA ControllerQuiet ==
  ASSUME ~StaleReads, TypeOK, listed = claims, Reconcile \/ Controller,
         ~ListNodes, ~Plan, ~EnsureClaim
  PROVE  Quiet
  <1>t. /\ claims \in [Names -> Claim] /\ budget \in [Bounds -> Nat] /\ run \in Run
    BY DEF TypeOK
  <1>l. Left \in Nat
    BY SizeTypes
  <1>s. ASSUME Spend("abort")
        PROVE  budget'.listError = budget.listError /\ budget'.lost = budget.lost
    BY <1>s, <1>t DEF Spend, Bounds
  <1>q. ASSUME listed' = claims', nodes' = nodes, pc' # "create",
               budget'.listError = budget.listError, budget'.lost = budget.lost,
               \A k \in Names : claims'[k] = claims[k] \/ claims'[k].deleting,
               HoldsList' => HoldsList /\ run'.nodes = run.nodes
        PROVE  Quiet
    <2>1. Live' \subseteq Live /\ Outside' \subseteq Outside /\ Astray' \subseteq Astray
      BY <1>q DEF Live, Outside, Astray
    <2>2. Left' = 0
      BY <1>q DEF Left
    <2> QED BY <1>l, <1>q, <2>1, <2>2 DEF Quiet
  <1>m. ASSUME NEW k, WriteClaims([claims EXCEPT ![k].deleting = TRUE])
        PROVE  listed' = claims' /\ \A j \in Names : claims'[j] = claims[j] \/ claims'[j].deleting
    BY <1>m, <1>t DEF WriteClaims, Claim
  <1>1. CASE Reconcile
    <2>1. pc' \in {"finalize", "addFinalizer", "pods"} /\ UNCHANGED <<claimVars, podVars, budget>>
      BY <1>1 DEF Reconcile, Goto
    <2> QED BY <1>q, <2>1 DEF claimVars, podVars, HoldsList
  <1>2. CASE AddFinalizer \/ Blocked \/ SaveScaleUp \/ SaveScaleDown \/ RemovePoolFinalizer
    <2>1. pc' = "idle" /\ UNCHANGED <<claimVars, podVars, budget>>
      BY <1>2 DEF AddFinalizer, Blocked, SaveScaleUp, SaveScaleDown, RemovePoolFinalizer,
                  Return, Goto
    <2> QED BY <1>q, <2>1 DEF claimVars, podVars, HoldsList
  <1>3. CASE ListPods \/ ListForFinalize \/ Candidates
    <2>1. /\ pc' \in {"nodes", "delete", "idle", "remove"}
          /\ UNCHANGED <<claimVars, podVars, budget>>
      BY <1>3 DEF ListPods, ListForFinalize, Candidates, Return, Goto
    <2> QED BY <1>q, <2>1 DEF claimVars, podVars, HoldsList
  <1>4. CASE RefreshStatus
    <2>1. pc = "refresh" /\ pc' = "choose" /\ UNCHANGED <<claimVars, podVars>>
      BY <1>4 DEF RefreshStatus, Goto
    <2>2. run'.nodes = run.nodes
      BY <1>4, <1>t DEF RefreshStatus, Goto, Run
    <2>3. budget'.listError = budget.listError /\ budget'.lost = budget.lost
      BY <1>4, <1>s DEF RefreshStatus
    <2> QED BY <1>q, <2>1, <2>2, <2>3 DEF claimVars, podVars, HoldsList
  <1>5. CASE Choose
    <2>1. /\ pc = "choose" /\ pc' \in {"plan", "candidates", "idle"}
          /\ UNCHANGED <<claimVars, podVars, budget>>
      BY <1>5 DEF Choose, Goto, Return
    <2>2. pc' = "plan" => run'.nodes = run.nodes
      BY <1>5, <1>t DEF Choose, Goto, Return, Run
    <2> QED BY <1>q, <2>1, <2>2 DEF claimVars, podVars, HoldsList
  <1>6. CASE RemoveClaim
    <2>1. pc' \in {"idle", "saveDown"} /\ UNCHANGED <<podVars, budget>>
      BY <1>6 DEF RemoveClaim, Goto, Return
    <2>2. listed' = claims' /\ \A j \in Names : claims'[j] = claims[j] \/ claims'[j].deleting
      BY <1>6, <1>m DEF RemoveClaim, claimVars
    <2> QED BY <1>q, <2>1, <2>2 DEF podVars, HoldsList
  <1>7. CASE DeleteForFinalize
    <2>1. pc' \in {"idle", "delete", "removeFinalizer"} /\ UNCHANGED <<podVars, budget>>
      BY <1>7 DEF DeleteForFinalize, Goto, Return
    <2>2. listed' = claims' /\ \A j \in Names : claims'[j] = claims[j] \/ claims'[j].deleting
      BY <1>7, <1>m DEF DeleteForFinalize, claimVars
    <2> QED BY <1>q, <2>1, <2>2 DEF podVars, HoldsList
  <1>8. CASE Abort
    <2>1. pc' = "idle" /\ UNCHANGED <<claimVars, podVars>>
      BY <1>8 DEF Abort, Return, Goto
    <2>2. budget'.listError = budget.listError /\ budget'.lost = budget.lost
      BY <1>8, <1>s DEF Abort
    <2> QED BY <1>q, <2>1, <2>2 DEF claimVars, podVars, HoldsList
  <1> QED BY <1>1, <1>2, <1>3, <1>4, <1>5, <1>6, <1>7, <1>8 DEF Controller

\* And so is what the users, the scheduler, time and the caches do.
LEMMA OthersQuiet ==
  ASSUME TypeOK, listed = claims,
         \/ SyncPool \/ SyncClaims \/ DeletePool \/ WindowPasses \/ UNCHANGED vars
         \/ \E p \in Pods : PodArrives(p) \/ PodScheduled(p) \/ PodLeaves(p)
  PROVE  Quiet
  <1>t. budget \in [Bounds -> Nat] /\ run \in Run
    BY DEF TypeOK
  <1>l. Left \in Nat
    BY SizeTypes
  <1>1. claims' = claims /\ listed' = claims' /\ nodes' = nodes /\ pc' = pc
    BY DEF SyncPool, SyncClaims, DeletePool, WindowPasses, PodArrives, PodScheduled,
           PodLeaves, vars, claimVars, podVars
  <1>2. run'.nodes = run.nodes /\ run'.create = run.create
    BY <1>t DEF SyncPool, SyncClaims, DeletePool, WindowPasses, PodArrives, PodScheduled,
                PodLeaves, vars, Run
  <1>3. budget'.listError = budget.listError /\ budget'.lost = budget.lost
    BY <1>t DEF SyncPool, SyncClaims, DeletePool, WindowPasses, PodArrives, PodScheduled,
                PodLeaves, vars, Spend, Bounds
  <1>4. Live' = Live /\ Outside' = Outside /\ Astray' = Astray
    BY <1>1 DEF Live, Outside, Astray
  <1>5. Left' = Left /\ (HoldsList' => HoldsList)
    BY <1>1, <1>2 DEF Left, HoldsList
  <1> QED BY <1>l, <1>1, <1>2, <1>3, <1>4, <1>5 DEF Quiet

\* A list of nodes: what it does not show is outside, or it failed and its failure
\* is counted.
LEMMA ListKeeps ==
  ASSUME TypeOK, SizeInv, ListNodes
  PROVE  SizeInv'
  <1>1. /\ pc = "nodes" /\ pc' = "refresh" /\ claims' = claims /\ listed' = listed
        /\ nodes' = nodes
    BY DEF ListNodes, Goto, claimVars, podVars
  <1>2. Live' = Live /\ Outside' = Outside /\ Astray' = Astray
    BY <1>1 DEF Live, Outside, Astray
  <1>3. Left = 0 /\ Left' = 0
    BY <1>1 DEF Left
  <1>4. MaxNodes > 0 =>
          /\ Cardinality(Outside) <= MaxNodes + LostNodes
          /\ Cardinality(Live) <= (2 + FailedLists) * MaxNodes + LostNodes
    BY <1>3, ClaimSets DEF SizeInv
  <1>5. CapacityLimit > 0 => Cardinality(Live) <= CapacityLimit + LostNodes
    BY <1>3, ClaimSets DEF SizeInv
  <1>6. listed = claims /\ Cardinality(Astray) <= LostNodes /\ FailedLists \in Nat
    BY SizeTypes DEF SizeInv
  <1>7. CASE run'.nodes = nodes /\ budget' = budget
    <2>1. FailedLists' = FailedLists /\ LostNodes' = LostNodes
      BY <1>7 DEF FailedLists, LostNodes
    <2>2. Live \ run'.nodes \in SUBSET Names /\ Live \ run'.nodes \subseteq Outside
      BY <1>7, ClaimSets DEF Outside
    <2>3. Cardinality(Live \ run'.nodes) <= Cardinality(Outside)
      BY <2>2, ClaimSets, NamesFinite
    <2>4. MaxNodes <= (1 + FailedLists) * MaxNodes /\ (1 + FailedLists) * MaxNodes \in Nat
      BY <1>6, OneMore, SizeTypes
    <2>5. MaxNodes > 0 =>
            Cardinality(Live \ run'.nodes) <= (1 + FailedLists) * MaxNodes + LostNodes
      <3> DEFINE b == (1 + FailedLists) * MaxNodes
                 k == Cardinality(Live \ run'.nodes)
      <3>1. b \in Nat /\ MaxNodes <= b
        BY <2>4
      <3>2. k \in Nat /\ k <= Cardinality(Outside)
        BY <2>2, <2>3, NamesFinite
      <3> HIDE DEF b, k
      <3>3. MaxNodes > 0 => k <= b + LostNodes
        BY <1>4, <3>1, <3>2, ClaimSets, SizeTypes
      <3> QED BY <3>3 DEF b, k
    <2>6. budget'.listError <= MaxListErrors
      BY <1>7 DEF SizeInv
    <2> QED BY <1>1, <1>2, <1>3, <1>4, <1>5, <1>6, <2>1, <2>5, <2>6, ClaimSets DEF SizeInv
  <1>8. CASE run' = run /\ Spend("listError")
    <2>1. /\ budget'.listError = budget.listError - 1 /\ budget'.lost = budget.lost
          /\ budget.listError \in Nat
      BY <1>8 DEF Spend, TypeOK, Bounds
    <2>2. FailedLists' = FailedLists + 1 /\ LostNodes' = LostNodes
      BY <2>1, SizeTypes DEF FailedLists, LostNodes
    <2>3. /\ (1 + FailedLists') * MaxNodes = (2 + FailedLists) * MaxNodes
          /\ (2 + FailedLists') * MaxNodes = (1 + FailedLists') * MaxNodes + MaxNodes
          /\ (2 + FailedLists) * MaxNodes \in Nat
      <3>1. FailedLists' \in Nat
        BY <1>6, <2>2
      <3> QED BY <1>6, <2>2, <3>1, OneMore, SizeTypes
    <2>4. Live \ run'.nodes \in SUBSET Names /\ Live \ run'.nodes \subseteq Live
      BY ClaimSets
    <2>5. Cardinality(Live \ run'.nodes) <= Cardinality(Live)
      BY <2>4, ClaimSets, NamesFinite
    <2>6. budget'.listError <= MaxListErrors
      BY <2>1, SizeTypes DEF SizeInv
    <2>7. MaxNodes > 0 =>
            /\ Cardinality(Live \ run'.nodes) <= (1 + FailedLists') * MaxNodes + LostNodes'
            /\ Cardinality(Live) <= (2 + FailedLists') * MaxNodes + LostNodes'
      <3> DEFINE b == (2 + FailedLists) * MaxNodes
                 k == Cardinality(Live \ run'.nodes)
      <3>1. b \in Nat /\ (1 + FailedLists') * MaxNodes = b
            /\ (2 + FailedLists') * MaxNodes = b + MaxNodes
        BY <2>3
      <3>2. k \in Nat /\ k <= Cardinality(Live)
        BY <2>4, <2>5, NamesFinite
      <3>3. MaxNodes > 0 => Cardinality(Live) <= b + LostNodes
        BY <1>4
      <3> HIDE DEF b, k
      <3>4. MaxNodes > 0 => k <= b + LostNodes /\ Cardinality(Live) <= b + MaxNodes + LostNodes
        BY <3>1, <3>2, <3>3, ClaimSets, SizeTypes
      <3> QED BY <2>2, <3>1, <3>4 DEF k
    <2> QED BY <1>1, <1>2, <1>3, <1>4, <1>5, <1>6, <2>2, <2>6, <2>7, ClaimSets DEF SizeInv
  <1>9. run \in Run
    BY DEF TypeOK
  <1>10. \/ run'.nodes = nodes /\ budget' = budget
         \/ run' = run /\ Spend("listError")
    BY <1>9 DEF ListNodes, Goto, Run
  <1> QED BY <1>7, <1>8, <1>10

\* A plan that is carried out leaves room for what is outside, and for what its
\* list did not show.
LEMMA PlanKeeps ==
  ASSUME TypeOK, SizeInv, Plan
  PROVE  SizeInv'
  <1>1. /\ pc = "plan" /\ claims' = claims /\ listed' = listed /\ nodes' = nodes
        /\ budget' = budget /\ listed = claims
    BY DEF Plan, claimVars, podVars, SizeInv
  <1>2. /\ Live' = Live /\ Outside' = Outside /\ Astray' = Astray
        /\ FailedLists' = FailedLists /\ LostNodes' = LostNodes
    BY <1>1 DEF Live, Outside, Astray, FailedLists, LostNodes
  <1>3. CASE pc' # "create"
    <2>1. pc' \in {"idle", "blocked"}
      BY <1>3 DEF Plan, Return, Goto
    <2>2. Left = 0 /\ Left' = 0 /\ ~HoldsList'
      BY <1>1, <2>1 DEF Left, HoldsList
    <2>3. Quiet
      BY <1>1, <1>2, <2>2 DEF Quiet
    <2> QED BY <2>3, QuietKeeps
  <1>4. CASE pc' = "create"
    <2> DEFINE new == PlannedClaims(run.pods \ OtherPods, run.nodes, listed)
               pending == Cardinality(Inflight(claims))
               shown == Cardinality(run.nodes)
    <2>1. ~ExceedsLimits(run.nodes, listed, new) /\ run' = [NoRun EXCEPT !.create = new, !.seq = FirstSequence]
      BY <1>4 DEF Plan, Return, Goto
    <2>2. new \in Nat
      <3>1. run.pods \ OtherPods \in SUBSET Pods /\ run.nodes \in SUBSET Names
        BY DEF TypeOK, Run
      <3> QED BY <3>1, PlannedClaimsType
    <2>3. Left' = new /\ ~HoldsList'
      BY <1>4, <2>1 DEF Left, HoldsList, NoRun
    <2>4. /\ MaxNodes > 0 => ~(shown + pending + new > MaxNodes)
          /\ CapacityLimit > 0 => ~(Cardinality(nodes) + pending + new > CapacityLimit)
      BY <1>1, <2>1 DEF ExceedsLimits
    <2> HIDE DEF new
    <2>5. /\ run.nodes \in SUBSET Names /\ nodes \in SUBSET Names
          /\ claims \in [Names -> Claim]
      BY DEF TypeOK, Run
    <2>6. shown \in Nat /\ pending \in Nat /\ Cardinality(nodes) \in Nat
      BY <2>5, ClaimSets, NamesFinite
    <2>7. /\ Outside \subseteq Inflight(claims) \cup Astray
          /\ Live \subseteq run.nodes \cup (Live \ run.nodes)
          /\ Live \subseteq nodes \cup Outside
      BY <2>5 DEF Live, Outside, Astray, Inflight, Claim, Phases
    <2>8. /\ Cardinality(Outside) <= pending + Cardinality(Astray)
          /\ Cardinality(Live) <= shown + Cardinality(Live \ run.nodes)
          /\ Cardinality(Live) <= Cardinality(nodes) + Cardinality(Outside)
      <3>1. ASSUME NEW S \in SUBSET Names, NEW T \in SUBSET Names, NEW U \in SUBSET Names,
                   S \subseteq T \cup U
            PROVE  Cardinality(S) <= Cardinality(T) + Cardinality(U)
        <4>1. T \cup U \in SUBSET Names
          OBVIOUS
        <4>2. /\ Cardinality(S) <= Cardinality(T \cup U)
              /\ Cardinality(T \cup U) <= Cardinality(T) + Cardinality(U)
          BY <3>1, <4>1, NamesFinite
        <4>3. /\ Cardinality(S) \in Nat /\ Cardinality(T \cup U) \in Nat
              /\ Cardinality(T) \in Nat /\ Cardinality(U) \in Nat
          BY <4>1, NamesFinite
        <4> QED BY <4>2, <4>3
      <3> QED BY <2>5, <2>7, <3>1, ClaimSets
    <2> HIDE DEF pending, shown
    <2>9. Cardinality(Astray) <= LostNodes /\ FailedLists \in Nat
      BY SizeTypes DEF SizeInv
    <2>10. MaxNodes > 0 => Cardinality(Outside) + new <= MaxNodes + LostNodes
      BY <2>2, <2>4, <2>6, <2>8, <2>9, ClaimSets, SizeTypes
    <2>11. MaxNodes > 0 =>
             Cardinality(Live) + new <= (2 + FailedLists) * MaxNodes + LostNodes
      <3> DEFINE b == (1 + FailedLists) * MaxNodes
      <3>1. b \in Nat /\ (2 + FailedLists) * MaxNodes = b + MaxNodes
        BY <2>9, OneMore, SizeTypes
      <3>2. MaxNodes > 0 => Cardinality(Live \ run.nodes) <= b + LostNodes
        BY <1>1 DEF SizeInv, HoldsList
      <3> HIDE DEF b
      <3>3. MaxNodes > 0 => Cardinality(Live) + new <= b + MaxNodes + LostNodes
        BY <2>2, <2>4, <2>6, <2>8, <3>1, <3>2, ClaimSets, SizeTypes
      <3> QED BY <3>1, <3>3
    <2>12. CapacityLimit > 0 => Cardinality(Live) + new <= CapacityLimit + LostNodes
      BY <2>2, <2>4, <2>6, <2>8, <2>9, ClaimSets, SizeTypes
    <2>13. listed' = claims' /\ budget'.listError <= MaxListErrors
      BY <1>1 DEF SizeInv
    <2> QED BY <1>2, <2>3, <2>9, <2>10, <2>11, <2>12, <2>13 DEF SizeInv
  <1> QED BY <1>3, <1>4

\* The loop that creates claims uses up what the plan left for it.
LEMMA CreateKeeps ==
  ASSUME ~StaleReads, TypeInv, SizeInv, EnsureClaim
  PROVE  SizeInv'
  <1>t. TypeOK
    BY DEF TypeInv
  <1>1. /\ pc = "create" /\ run.create \in Nat /\ run.create >= 1
        /\ run.seq \in Names /\ claims \in [Names -> Claim]
    BY NodePoolAssumption DEF TypeInv, TypeOK, CreatesNamed, Run, EnsureClaim, Names
  <1>2. /\ nodes' = nodes /\ budget' = budget
        /\ pc' = IF run.create = 1 THEN "saveUp" ELSE "create"
        /\ run'.create = run.create - 1
    BY DEF EnsureClaim, Goto, podVars, TypeInv, TypeOK, Run
  <1>3. /\ listed' = claims'
        /\ \A k \in Names \ {run.seq} : claims'[k] = claims[k]
        /\ claims'[run.seq] = claims[run.seq] \/ claims'[run.seq].phase = "pending"
    BY <1>1 DEF EnsureClaim, WriteClaims, claimVars, SizeInv, NoClaim
  <1>4. /\ Live' \subseteq Live \cup {run.seq} /\ Outside' \subseteq Outside \cup {run.seq}
        /\ Astray' \subseteq Astray
    BY <1>1, <1>2, <1>3 DEF Live, Outside, Astray
  <1>5. Left = run.create /\ Left' = run.create - 1 /\ ~HoldsList'
    BY <1>1, <1>2 DEF Left, HoldsList
  <1>6. FailedLists' = FailedLists /\ LostNodes' = LostNodes
    BY <1>2 DEF FailedLists, LostNodes
  <1>7. /\ Live' \in SUBSET Names /\ Outside' \in SUBSET Names /\ Astray' \in SUBSET Names
        /\ {run.seq} \in SUBSET Names
        /\ Live \cup {run.seq} \in SUBSET Names /\ Outside \cup {run.seq} \in SUBSET Names
    BY <1>1, <1>4, ClaimSets
  <1>8. /\ Cardinality(Live') <= Cardinality(Live) + 1
        /\ Cardinality(Outside') <= Cardinality(Outside) + 1
        /\ Cardinality(Astray') <= Cardinality(Astray)
    <2>1. ASSUME NEW S \in SUBSET Names, NEW T \in SUBSET Names, T \subseteq S \cup {run.seq}
          PROVE  Cardinality(T) <= Cardinality(S) + 1
      <3>1. S \cup {run.seq} \in SUBSET Names
        BY <1>1
      <3>2. Cardinality(T) <= Cardinality(S \cup {run.seq})
        BY <2>1, <3>1, NamesFinite
      <3>3. Cardinality(S \cup {run.seq}) <= Cardinality(S) + Cardinality({run.seq})
        BY <1>7, NamesFinite
      <3>4. Cardinality({run.seq}) = 1
        BY <1>1, NamesFinite
      <3>5. Cardinality(T) \in Nat /\ Cardinality(S) \in Nat /\ Cardinality(S \cup {run.seq}) \in Nat
        BY <3>1, NamesFinite
      <3> QED BY <3>2, <3>3, <3>4, <3>5
    <2> QED BY <1>4, <1>7, <2>1, ClaimSets, NamesFinite
  <1>9. Cardinality(Live') \in Nat /\ Cardinality(Outside') \in Nat /\ Cardinality(Astray') \in Nat
    BY <1>7, NamesFinite
  <1> DEFINE b == (2 + FailedLists) * MaxNodes
  <1>10. b \in Nat
    BY <1>t, OneMore, SizeTypes DEF SizeInv
  <1>11. /\ MaxNodes > 0 => /\ Cardinality(Outside) + Left <= MaxNodes + LostNodes
                            /\ Cardinality(Live) + Left <= b + LostNodes
         /\ CapacityLimit > 0 => Cardinality(Live) + Left <= CapacityLimit + LostNodes
         /\ Cardinality(Astray) <= LostNodes /\ budget.listError <= MaxListErrors
    BY DEF SizeInv
  <1> HIDE DEF b
  <1>12. /\ MaxNodes > 0 => /\ Cardinality(Outside') + Left' <= MaxNodes + LostNodes
                            /\ Cardinality(Live') + Left' <= b + LostNodes
         /\ CapacityLimit > 0 => Cardinality(Live') + Left' <= CapacityLimit + LostNodes
         /\ Cardinality(Astray') <= LostNodes
    BY <1>t, <1>1, <1>5, <1>8, <1>9, <1>10, <1>11, ClaimSets, SizeTypes
  <1> QED BY <1>2, <1>3, <1>5, <1>6, <1>11, <1>12 DEF SizeInv, b

\* A lost node puts one claim outside, and is counted.
LEMMA LostKeeps ==
  ASSUME TypeOK, SizeInv, NEW i \in Names, NodeLost(i)
  PROVE  SizeInv'
  <1>1. /\ claims' = claims /\ listed' = listed /\ nodes' = nodes \ {i} /\ UNCHANGED <<pc, run>>
    BY DEF NodeLost, DropNode, claimVars
  <1>2. /\ budget'.lost = budget.lost - 1 /\ budget'.listError = budget.listError
    BY DEF NodeLost, Spend, TypeOK, Bounds
  <1>3. FailedLists' = FailedLists /\ LostNodes' = LostNodes + 1
    BY <1>2, SizeTypes, NodePoolAssumption DEF FailedLists, LostNodes
  <1>4. /\ Live' = Live /\ Outside' \subseteq Outside \cup {i}
        /\ Astray' \subseteq Astray \cup {i}
    BY <1>1 DEF Live, Outside, Astray
  <1>5. Left' = Left /\ HoldsList' = HoldsList
    BY <1>1 DEF Left, HoldsList
  <1>6. ASSUME NEW S \in SUBSET Names, NEW T, T \subseteq S \cup {i}
        PROVE  Cardinality(T) \in Nat /\ Cardinality(T) <= Cardinality(S) + 1
    <2>1. S \cup {i} \in SUBSET Names /\ {i} \in SUBSET Names /\ T \in SUBSET Names
      BY <1>6
    <2>2. /\ Cardinality(T) <= Cardinality(S \cup {i}) /\ Cardinality({i}) = 1
          /\ Cardinality(S \cup {i}) <= Cardinality(S) + Cardinality({i})
      BY <1>6, <2>1, NamesFinite
    <2>3. Cardinality(T) \in Nat /\ Cardinality(S) \in Nat /\ Cardinality(S \cup {i}) \in Nat
      BY <2>1, NamesFinite
    <2> QED BY <2>2, <2>3
  <1>7. /\ Cardinality(Outside') \in Nat /\ Cardinality(Outside') <= Cardinality(Outside) + 1
        /\ Cardinality(Astray') \in Nat /\ Cardinality(Astray') <= Cardinality(Astray) + 1
    BY <1>4, <1>6, ClaimSets
  <1> DEFINE b1 == (1 + FailedLists) * MaxNodes
             b2 == (2 + FailedLists) * MaxNodes
  <1>8. b1 \in Nat /\ b2 \in Nat
    BY OneMore, SizeTypes DEF SizeInv
  <1>9. /\ MaxNodes > 0 =>
             /\ Cardinality(Outside) + Left <= MaxNodes + LostNodes
             /\ HoldsList => Cardinality(Live \ run.nodes) <= b1 + LostNodes
             /\ Cardinality(Live) + Left <= b2 + LostNodes
        /\ CapacityLimit > 0 => Cardinality(Live) + Left <= CapacityLimit + LostNodes
        /\ Cardinality(Astray) <= LostNodes
    BY DEF SizeInv
  <1> HIDE DEF b1, b2
  <1>10. /\ MaxNodes > 0 =>
              /\ Cardinality(Outside') + Left <= MaxNodes + LostNodes'
              /\ HoldsList => Cardinality(Live \ run.nodes) <= b1 + LostNodes'
              /\ Cardinality(Live) + Left <= b2 + LostNodes'
         /\ CapacityLimit > 0 => Cardinality(Live) + Left <= CapacityLimit + LostNodes'
         /\ Cardinality(Astray') <= LostNodes'
    BY <1>3, <1>7, <1>8, <1>9, ClaimSets, SizeTypes
  <1>11. listed' = claims' /\ budget'.listError <= MaxListErrors
    BY <1>1, <1>2 DEF SizeInv
  <1> QED BY <1>1, <1>3, <1>4, <1>5, <1>10, <1>11 DEF SizeInv, b1, b2

\* Every step keeps the invariant.
LEMMA SizeStep ==
  ASSUME ~StaleReads, TypeInv, SizeInv, [Next]_vars
  PROVE  SizeInv'
  <1>1. TypeOK /\ listed = claims
    BY DEF TypeInv, SizeInv
  <1>2. CASE Reconcile \/ Controller
    <2>1. CASE ListNodes
      BY <1>1, <2>1, ListKeeps
    <2>2. CASE Plan
      BY <1>1, <2>2, PlanKeeps
    <2>3. CASE EnsureClaim
      BY <2>3, CreateKeeps
    <2> QED BY <1>1, <1>2, <2>1, <2>2, <2>3, ControllerQuiet, QuietKeeps
  <1>3. ASSUME NEW i \in Names, ClaimController(i) \/ ClaimFails(i) \/ ClaimAges(i)
        PROVE  SizeInv'
    BY <1>1, <1>3, ClaimQuiet, QuietKeeps
  <1>4. ASSUME NEW i \in Names, NodeLost(i) PROVE SizeInv'
    BY <1>1, <1>4, LostKeeps
  <1>5. CASE \/ SyncPool \/ SyncClaims \/ DeletePool \/ WindowPasses \/ UNCHANGED vars
             \/ \E p \in Pods : PodArrives(p) \/ PodScheduled(p) \/ PodLeaves(p)
    BY <1>1, <1>5, OthersQuiet, QuietKeeps
  <1> QED BY <1>2, <1>3, <1>4, <1>5 DEF Next

\* The pool starts empty.
LEMMA SizeInit == Init => SizeInv
  <1>1. SUFFICES ASSUME Init PROVE SizeInv
    OBVIOUS
  <1>2. Live = {} /\ Outside = {} /\ Astray = {}
    BY <1>1 DEF Init, Live, Outside, Astray, NoClaim
  <1>3. Left = 0 /\ ~HoldsList /\ listed = claims
    BY <1>1 DEF Init, Left, HoldsList
  <1>4. FailedLists = 0 /\ LostNodes = 0 /\ budget.listError <= MaxListErrors
    BY <1>1, NodePoolAssumption DEF Init, FailedLists, LostNodes
  <1>5. Cardinality({}) = 0
    BY FS_EmptySet
  <1>6. (2 + 0) * MaxNodes >= 0 /\ MaxNodes \in Nat /\ CapacityLimit \in Nat
    BY NodePoolAssumption
  <1> QED BY <1>2, <1>3, <1>4, <1>5, <1>6 DEF SizeInv

\* The invariant holds in every state.
LEMMA SizeHolds ==
  ASSUME ~StaleReads
  PROVE  Spec => []SizeInv
  <1>1. TypeInv /\ SizeInv /\ [Next]_vars => SizeInv'
    BY SizeStep
  <1> QED BY <1>1, SizeInit, TypeCorrect, PTL DEF Spec, TypeInv

\* With current caches the pool never has more than twice maxNodes claims, and one
\* maxNodes more for each failed list of nodes, for any number of pods, rounds and
\* plans: the overshoot of one round is known to the next.
THEOREM Size ==
  ASSUME ~StaleReads
  PROVE  Spec => []SizeBounded
  <1>1. TypeOK /\ SizeInv => SizeBounded
    <2>1. SUFFICES ASSUME TypeOK, SizeInv, MaxNodes > 0
                   PROVE  Cardinality(Live) <= (2 + FailedLists) * MaxNodes + LostNodes
      BY DEF SizeBounded
    <2> DEFINE b == (2 + FailedLists) * MaxNodes
    <2>2. b \in Nat /\ Cardinality(Live) + Left <= b + LostNodes
      BY <2>1, OneMore, SizeTypes DEF SizeInv
    <2> HIDE DEF b
    <2>3. Cardinality(Live) <= b + LostNodes
      BY <2>1, <2>2, ClaimSets, SizeTypes
    <2> QED BY <2>3 DEF b
  <1> QED BY <1>1, SizeHolds, TypeCorrect, PTL

\* With current caches the limits on cpuCores and memoryMiB hold, whatever becomes
\* Ready, fails, ages or is deleted while a reconcile plans, and whichever lists of
\* nodes fail, but for nodes lost from outside.
THEOREM Capacity ==
  ASSUME ~StaleReads
  PROVE  Spec => []CapacityKept
  <1>1. TypeOK /\ SizeInv => CapacityKept
    <2>1. SUFFICES ASSUME TypeOK, SizeInv, CapacityLimit > 0
                   PROVE  Cardinality(Live) <= CapacityLimit + LostNodes
      BY DEF CapacityKept
    <2>2. Cardinality(Live) + Left <= CapacityLimit + LostNodes
      BY <2>1 DEF SizeInv
    <2> QED BY <2>1, <2>2, ClaimSets, SizeTypes
  <1> QED BY <1>1, SizeHolds, TypeCorrect, PTL
=============================================================================
