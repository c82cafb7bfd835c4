-------------------------- MODULE NodeClaimProofs --------------------------
(***************************************************************************)
(* Invariants of NodeClaim, proved for every value of its constants.       *)
(***************************************************************************)
EXTENDS NodeClaim, TLAPS

-----------------------------------------------------------------------------
(* What the requests preserve of the types *)

\* An accepted write of a well-formed claim leaves well-formed claims on the
\* API server and in the caches.
LEMMA WriteClaimType ==
  ASSUME ClaimTypeOK, NEW m \in Meta, NEW s \in Status, WriteClaim(m, s)
  PROVE  ClaimTypeOK'
  BY DEF ClaimTypeOK, WriteClaim

\* Using up a bound leaves a typed budget.
LEMMA SpendType ==
  ASSUME budget \in [Fault -> Nat], NEW f \in Fault, Spend(f)
  PROVE  budget' \in [Fault -> Nat]
  BY DEF Spend

\* The three outcomes of updateStatus keep the claim and the budget typed.
LEMMA StatusUpdatedType ==
  ASSUME ClaimTypeOK, NEW w \in Workers, NEW new \in Status,
         StatusUpdated(w, new)
  PROVE  ClaimTypeOK'
  <1>1. CASE UNCHANGED claimVars
    BY <1>1 DEF ClaimTypeOK, claimVars
  <1>2. CASE WriteClaim(meta, new)
    BY <1>2, WriteClaimType DEF ClaimTypeOK
  <1> QED BY <1>1, <1>2 DEF StatusUpdated

\* updateStatus that returns an error (refused, or its reply lost) keeps types.
LEMMA StatusFailedType ==
  ASSUME ClaimTypeOK, budget \in [Fault -> Nat],
         NEW w \in Workers, NEW new \in Status, StatusFailed(w, new)
  PROVE  ClaimTypeOK' /\ budget' \in [Fault -> Nat]
  <1>1. "error" \in Fault
    BY DEF Fault
  <1>2. CASE StatusRefused
    BY <1>1, <1>2, SpendType DEF StatusRefused, ClaimTypeOK, claimVars
  <1>3. CASE StatusReplyLost(w, new)
    BY <1>1, <1>3, SpendType, WriteClaimType DEF StatusReplyLost, ClaimTypeOK
  <1> QED BY <1>2, <1>3 DEF StatusFailed

\* So does updateStatus when the caller does not look at its outcome.
LEMMA StatusTriedType ==
  ASSUME ClaimTypeOK, budget \in [Fault -> Nat],
         NEW w \in Workers, NEW new \in Status, StatusTried(w, new)
  PROVE  ClaimTypeOK' /\ budget' \in [Fault -> Nat]
  BY StatusUpdatedType, StatusFailedType DEF StatusTried

\* The copy that updateStatus mutates is a well-formed status.
LEMMA LatestType ==
  ASSUME ClaimTypeOK, NEW w \in Workers
  PROVE  Latest(w) \in Status
  BY DEF ClaimTypeOK, Latest

\* A worker's move to a program counter keeps the workers' variables typed.
LEMMA GotoType ==
  ASSUME WorkerTypeOK, NEW w \in Workers, NEW where \in PC, NEW s \in Status,
         Goto(w, where, s)
  PROVE  WorkerTypeOK'
  BY DEF WorkerTypeOK, Goto

\* A claim starts with a well-formed status.
LEMMA NewStatusType == NewStatus \in Status
  BY NodeClaimAssumption DEF NewStatus, Status, Condition

\* The return of a reconcile keeps the workers' variables typed.
LEMMA ReturnType ==
  ASSUME WorkerTypeOK, NEW w \in Workers, Return(w)
  PROVE  WorkerTypeOK'
  BY GotoType, NewStatusType DEF Return, PC

\* A write of a well-formed Node leaves well-formed Nodes.
LEMMA WriteNodeType ==
  ASSUME NodeTypeOK, NEW n \in Node, WriteNode(n)
  PROVE  NodeTypeOK'
  BY DEF NodeTypeOK, WriteNode

\* Deleting the Node, a no-op when it is gone, leaves well-formed Nodes.
LEMMA DeleteNodeType ==
  ASSUME NodeTypeOK, DeleteNode
  PROVE  NodeTypeOK'
  <1>1. [node EXCEPT !.deleting = TRUE] \in Node
    BY DEF NodeTypeOK, Node
  <1> QED BY <1>1, WriteNodeType DEF DeleteNode, NodeTypeOK, nodeVars

\* DeprovisionMachine, whatever its outcome, keeps the provider typed.
LEMMA DeprovisionType ==
  ASSUME ProxmoxTypeOK, budget \in [Fault -> Nat], NEW named, Deprovision(named)
  PROVE  ProxmoxTypeOK' /\ budget' \in [Fault -> Nat]
  <1>1. "error" \in Fault
    BY DEF Fault
  <1> QED BY <1>1, SpendType
          DEF Deprovision, ProxmoxTypeOK, proxmoxVars, DeleteVM, StopVM, Visible

\* Where a reconcile goes is a program counter.
LEMMA PhaseType ==
  ASSUME NEW m, NEW s
  PROVE  Phase(m, s) \in PC /\ PhaseAfterLaunch(s) \in PC
  BY DEF Phase, PhaseAfterLaunch, PC

-----------------------------------------------------------------------------
(* The type invariant *)

\* The initial states have the types.
LEMMA InitType == Init => TypeOK
  <1>1. SUFFICES ASSUME Init PROVE TypeOK
    OBVIOUS
  <1>2. NewMeta \in Meta /\ NoNode \in Node
    BY DEF NewMeta, Meta, NoNode, Node
  <1>3. ProxmoxTypeOK
    BY <1>1 DEF Init, ProxmoxInit, ProxmoxTypeOK
  <1>4. ClaimTypeOK /\ NodeTypeOK
    BY <1>1, <1>2, NewStatusType DEF Init, ClaimTypeOK, NodeTypeOK
  <1>5. WorkerTypeOK
    BY <1>1, NewStatusType DEF Init, WorkerTypeOK, PC
  <1>6. budget \in [Fault -> Nat]
    BY <1>1, NodeClaimAssumption DEF Init, Fault
  <1> QED BY <1>1, <1>3, <1>4, <1>5, <1>6 DEF Init, TypeOK

\* Each step of a worker preserves the types.
LEMMA StepType ==
  ASSUME TypeOK, NEW w \in Workers, Step(w)
  PROVE  TypeOK'
  <1> USE DEF TypeOK
  <1>f. "error" \in Fault
    BY DEF Fault
  <1>l. Latest(w) \in Status
    BY LatestType
  <1>s. st[w] \in Status /\ st[w].attempts \in Nat /\ st[w].attempts + 1 \in Nat
    BY DEF WorkerTypeOK, Status
  <1>p. {"acquire", "launch", "abort", "find", "create", "saveLaunched",
         "saveError", "release", "labelled", "init", "timeout", "recycle",
         "saveRecycle", "deprovision", "removeFinalizer"} \subseteq PC
    BY DEF PC, LaunchingPC
  <1>1. CASE AddFinalizer(w)
    <2>1. [meta EXCEPT !.finalizer = TRUE] \in Meta /\ status \in Status
      BY DEF ClaimTypeOK, Meta
    <2>2. ClaimTypeOK' /\ budget' \in [Fault -> Nat]
      BY <1>1, <1>f, <2>1, WriteClaimType, SpendType
         DEF AddFinalizer, ClaimTypeOK, claimVars
    <2> QED BY <1>1, <2>2, ReturnType
            DEF AddFinalizer, nodeVars, proxmoxVars, NodeTypeOK, ProxmoxTypeOK
  <1>2. CASE ClearExpiredLease(w)
    <2> DEFINE new == [Latest(w) EXCEPT !.lease = NoLease]
    <2>1. new \in Status
      BY <1>l, <1>s DEF Status, Condition
    <2> HIDE DEF new
    <2>2. ClaimTypeOK' /\ budget' \in [Fault -> Nat] /\ WorkerTypeOK' /\ calls' \in Nat
      BY <1>2, <1>f, <1>s, <1>p, <2>1, StatusUpdatedType, StatusFailedType,
         StatusTriedType, GotoType, ReturnType
         DEF ClearExpiredLease, new
    <2> QED BY <1>2, <2>2
            DEF ClearExpiredLease, nodeVars, proxmoxVars, NodeTypeOK, ProxmoxTypeOK
  <1>3. CASE AcquireLease(w)
    <2> DEFINE new == [Latest(w) EXCEPT !.lease = w]
    <2>1. new \in Status
      BY <1>l, <1>s DEF Status, Condition
    <2> HIDE DEF new
    <2>2. ClaimTypeOK' /\ budget' \in [Fault -> Nat] /\ WorkerTypeOK' /\ calls' \in Nat
      BY <1>3, <1>f, <1>s, <1>p, <2>1, StatusUpdatedType, StatusFailedType,
         StatusTriedType, GotoType, ReturnType, WriteClaimType
         DEF AcquireLease, ClaimTypeOK, new
    <2> QED BY <1>3, <2>2
            DEF AcquireLease, nodeVars, proxmoxVars, NodeTypeOK, ProxmoxTypeOK
  <1>4. CASE FailLaunch(w)
    <2> DEFINE new == [Latest(w) EXCEPT !.failed = TRUE, !.launched = "False"]
    <2>1. new \in Status
      BY <1>l, <1>s DEF Status, Condition
    <2> HIDE DEF new
    <2>2. ClaimTypeOK' /\ budget' \in [Fault -> Nat] /\ WorkerTypeOK' /\ calls' \in Nat
      BY <1>4, <1>f, <1>s, <1>p, <2>1, StatusUpdatedType, StatusFailedType,
         StatusTriedType, GotoType, ReturnType
         DEF FailLaunch, new
    <2> QED BY <1>4, <2>2
            DEF FailLaunch, nodeVars, proxmoxVars, NodeTypeOK, ProxmoxTypeOK
  <1>5. CASE ProviderUnavailable(w)
    <2> DEFINE new == [Latest(w) EXCEPT !.launched = "False"]
    <2>1. new \in Status
      BY <1>l, <1>s DEF Status, Condition
    <2> HIDE DEF new
    <2>2. ClaimTypeOK' /\ budget' \in [Fault -> Nat] /\ WorkerTypeOK' /\ calls' \in Nat
      BY <1>5, <1>f, <1>s, <1>p, <2>1, StatusUpdatedType, StatusFailedType,
         StatusTriedType, GotoType, ReturnType
         DEF ProviderUnavailable, new
    <2> QED BY <1>5, <2>2
            DEF ProviderUnavailable, nodeVars, proxmoxVars, NodeTypeOK, ProxmoxTypeOK
  <1>6. CASE SaveLaunchError(w)
    <2> DEFINE new == [Latest(w) EXCEPT !.attempts = st[w].attempts + 1,
                                !.launched = "False"]
    <2>1. new \in Status
      BY <1>l, <1>s DEF Status, Condition
    <2> HIDE DEF new
    <2>2. ClaimTypeOK' /\ budget' \in [Fault -> Nat] /\ WorkerTypeOK' /\ calls' \in Nat
      BY <1>6, <1>f, <1>s, <1>p, <2>1, StatusUpdatedType, StatusFailedType,
         StatusTriedType, GotoType, ReturnType
         DEF SaveLaunchError, new
    <2> QED BY <1>6, <2>2
            DEF SaveLaunchError, nodeVars, proxmoxVars, NodeTypeOK, ProxmoxTypeOK
  <1>7. CASE SaveLaunched(w)
    <2> DEFINE new == [Latest(w) EXCEPT !.providerID = TRUE,
                                !.attempts = st[w].attempts + 1,
                                !.launched = "True"]
    <2>1. new \in Status
      BY <1>l, <1>s DEF Status, Condition
    <2> HIDE DEF new
    <2>2. ClaimTypeOK' /\ budget' \in [Fault -> Nat] /\ WorkerTypeOK' /\ calls' \in Nat
      BY <1>7, <1>f, <1>s, <1>p, <2>1, StatusUpdatedType, StatusFailedType,
         StatusTriedType, GotoType, ReturnType
         DEF SaveLaunched, new
    <2> QED BY <1>7, <2>2
            DEF SaveLaunched, nodeVars, proxmoxVars, NodeTypeOK, ProxmoxTypeOK
  <1>8. CASE ReleaseLease(w)
    <2> DEFINE new == [Latest(w) EXCEPT !.lease = NoLease]
    <2>1. new \in Status
      BY <1>l, <1>s DEF Status, Condition
    <2> HIDE DEF new
    <2>2. ClaimTypeOK' /\ budget' \in [Fault -> Nat] /\ WorkerTypeOK' /\ calls' \in Nat
      BY <1>8, <1>f, <1>s, <1>p, <2>1, StatusUpdatedType, StatusFailedType,
         StatusTriedType, GotoType, ReturnType, PhaseType, NewStatusType
         DEF ReleaseLease, new
    <2> QED BY <1>8, <2>2
            DEF ReleaseLease, nodeVars, proxmoxVars, NodeTypeOK, ProxmoxTypeOK
  <1>9. CASE SaveRegistered(w)
    <2> DEFINE new == [Latest(w) EXCEPT !.nodeName = TRUE, !.attempts = 0,
                                !.failed = FALSE, !.registered = "True"]
    <2>1. new \in Status
      BY <1>l, <1>s DEF Status, Condition
    <2> HIDE DEF new
    <2>2. ClaimTypeOK' /\ budget' \in [Fault -> Nat] /\ WorkerTypeOK' /\ calls' \in Nat
      BY <1>9, <1>f, <1>s, <1>p, <2>1, StatusUpdatedType, StatusFailedType,
         StatusTriedType, GotoType, ReturnType, WriteClaimType
         DEF SaveRegistered, StatusFailed, new
    <2> QED BY <1>9, <2>2
            DEF SaveRegistered, nodeVars, proxmoxVars, NodeTypeOK, ProxmoxTypeOK
  <1>10. CASE SaveReady(w)
    <2> DEFINE new == [Latest(w) EXCEPT !.ready = "True"]
    <2>1. new \in Status
      BY <1>l, <1>s DEF Status, Condition
    <2> HIDE DEF new
    <2>2. ClaimTypeOK' /\ budget' \in [Fault -> Nat] /\ WorkerTypeOK' /\ calls' \in Nat
      BY <1>10, <1>f, <1>s, <1>p, <2>1, StatusUpdatedType, StatusFailedType,
         StatusTriedType, GotoType, ReturnType
         DEF SaveReady, new
    <2> QED BY <1>10, <2>2
            DEF SaveReady, nodeVars, proxmoxVars, NodeTypeOK, ProxmoxTypeOK
  <1>11. CASE AwaitOldNode(w)
    BY <1>11, <1>f, <1>s, <1>p, GotoType, ReturnType, SpendType
       DEF AwaitOldNode, claimVars, nodeVars, proxmoxVars, ClaimTypeOK, NodeTypeOK,
           ProxmoxTypeOK
  <1>12. CASE StartProvisioning(w)
    BY <1>12, <1>f, <1>s, <1>p, GotoType, ReturnType, SpendType
       DEF StartProvisioning, claimVars, nodeVars, proxmoxVars, ClaimTypeOK, NodeTypeOK,
           ProxmoxTypeOK
  <1>13. CASE FindExistingVM(w)
    BY <1>13, <1>f, <1>s, <1>p, GotoType, ReturnType, SpendType
       DEF FindExistingVM, claimVars, nodeVars, proxmoxVars, ClaimTypeOK, NodeTypeOK,
           ProxmoxTypeOK, Visible, ReuseVM
  <1>14. CASE CreateNewVM(w)
    BY <1>14, <1>f, <1>s, <1>p, GotoType, ReturnType, SpendType
       DEF CreateNewVM, claimVars, nodeVars, proxmoxVars, ClaimTypeOK, NodeTypeOK,
           ProxmoxTypeOK, FreeVMIDs, CreateVM
  <1>15. CASE LabelNode(w)
    <2>1. [node EXCEPT !.labeled = TRUE] \in Node
      BY DEF NodeTypeOK, Node
    <2>2. NodeTypeOK' /\ WorkerTypeOK' /\ budget' \in [Fault -> Nat]
      BY <1>15, <1>f, <1>s, <1>p, <2>1, WriteNodeType, GotoType, ReturnType,
         SpendType
         DEF LabelNode, nodeVars, NodeTypeOK
    <2> QED BY <1>15, <2>2
            DEF LabelNode, claimVars, proxmoxVars, ClaimTypeOK, ProxmoxTypeOK
  <1>16. CASE AwaitNode(w)
    BY <1>16, <1>f, <1>s, <1>p, GotoType, ReturnType, SpendType
       DEF AwaitNode, claimVars, nodeVars, proxmoxVars, ClaimTypeOK, NodeTypeOK,
           ProxmoxTypeOK
  <1>17. CASE RegistrationTimeout(w)
    <2>1. ProxmoxTypeOK' /\ budget' \in [Fault -> Nat]
      BY <1>17, DeprovisionType DEF RegistrationTimeout, ProxmoxTypeOK, proxmoxVars
    <2> QED BY <1>17, <1>s, <1>p, <2>1, GotoType
            DEF RegistrationTimeout, claimVars, nodeVars, ClaimTypeOK, NodeTypeOK
  <1>18. CASE SaveTimeout(w)
    <2> DEFINE attempts == IF st[w].attempts = 0 THEN 1 ELSE st[w].attempts
    <2> DEFINE failed == Latest(w).failed \/ attempts >= MaxLaunchAttempts
    <2> DEFINE new == [Latest(w) EXCEPT !.providerID = FALSE, !.registered = "False",
                                !.launched = "False",
                                !.failed = failed]
    <2>1. attempts \in Nat /\ failed \in BOOLEAN
      BY <1>s
    <2> HIDE DEF attempts, failed
    <2>2. new \in Status
      BY <1>l, <2>1 DEF Status, Condition
    <2> HIDE DEF new
    <2>3. ClaimTypeOK' /\ budget' \in [Fault -> Nat] /\ WorkerTypeOK'
      BY <1>18, <2>2, StatusTriedType, ReturnType DEF SaveTimeout, new, attempts, failed
    <2> QED BY <1>18, <2>3
            DEF SaveTimeout, nodeVars, proxmoxVars, NodeTypeOK, ProxmoxTypeOK
  <1>19. CASE SaveRecycle(w)
    <2> DEFINE attempts == st[w].attempts + 1
    <2> DEFINE failed == attempts >= MaxLaunchAttempts
    <2> DEFINE new == [Latest(w) EXCEPT !.providerID = FALSE, !.nodeName = FALSE,
                                !.attempts = attempts, !.launched = "False",
                                !.registered = "False", !.ready = "False",
                                !.failed = failed]
    <2>1. attempts \in Nat /\ failed \in BOOLEAN
      BY <1>s
    <2> HIDE DEF attempts, failed
    <2>2. new \in Status
      BY <1>l, <2>1 DEF Status, Condition
    <2> HIDE DEF new
    <2>3. ClaimTypeOK' /\ budget' \in [Fault -> Nat] /\ WorkerTypeOK'
      BY <1>19, <2>2, StatusTriedType, ReturnType DEF SaveRecycle, new, attempts, failed
    <2> QED BY <1>19, <2>3
            DEF SaveRecycle, nodeVars, proxmoxVars, NodeTypeOK, ProxmoxTypeOK
  <1>20. CASE AwaitReady(w)
    BY <1>20, <1>f, <1>s, <1>p, GotoType, ReturnType, SpendType
       DEF AwaitReady, claimVars, nodeVars, proxmoxVars, ClaimTypeOK, NodeTypeOK,
           ProxmoxTypeOK
  <1>21. CASE RecycleStuckNode(w)
    BY <1>21, <1>f, <1>s, <1>p, GotoType, ReturnType, SpendType, DeleteNodeType
       DEF RecycleStuckNode, claimVars, nodeVars, proxmoxVars, ClaimTypeOK, NodeTypeOK,
           ProxmoxTypeOK
  <1>22. CASE RecycleLostNode(w)
    BY <1>22, <1>f, <1>s, <1>p, GotoType, ReturnType, SpendType
       DEF RecycleLostNode, claimVars, nodeVars, proxmoxVars, ClaimTypeOK, NodeTypeOK,
           ProxmoxTypeOK
  <1>23. CASE RecycleMachine(w)
    <2>1. ProxmoxTypeOK' /\ budget' \in [Fault -> Nat]
      BY <1>23, DeprovisionType DEF RecycleMachine, ProxmoxTypeOK, proxmoxVars
    <2> QED BY <1>23, <1>s, <1>p, <2>1, GotoType
            DEF RecycleMachine, claimVars, nodeVars, ClaimTypeOK, NodeTypeOK
  <1>24. CASE FinalizeNode(w)
    BY <1>24, <1>f, <1>s, <1>p, GotoType, ReturnType, SpendType, DeleteNodeType
       DEF FinalizeNode, claimVars, nodeVars, proxmoxVars, ClaimTypeOK, NodeTypeOK,
           ProxmoxTypeOK
  <1>25. CASE FinalizeMachine(w)
    <2>1. ProxmoxTypeOK' /\ budget' \in [Fault -> Nat]
      BY <1>25, DeprovisionType DEF FinalizeMachine, ProxmoxTypeOK, proxmoxVars
    <2> QED BY <1>25, <1>s, <1>p, <2>1, GotoType
            DEF FinalizeMachine, claimVars, nodeVars, ClaimTypeOK, NodeTypeOK
  <1>26. CASE RemoveFinalizer(w)
    <2>1. /\ [meta EXCEPT !.exists = FALSE, !.finalizer = FALSE] \in Meta
          /\ status \in Status
      BY DEF ClaimTypeOK, Meta
    <2>2. ClaimTypeOK' /\ budget' \in [Fault -> Nat]
      BY <1>26, <1>f, <2>1, WriteClaimType, SpendType
         DEF RemoveFinalizer, ClaimTypeOK, claimVars
    <2> QED BY <1>26, <2>2, ReturnType
            DEF RemoveFinalizer, nodeVars, proxmoxVars, NodeTypeOK, ProxmoxTypeOK
  <1> QED BY <1>1, <1>2, <1>3, <1>4, <1>5, <1>6, <1>7, <1>8, <1>9, <1>10, <1>11, <1>12, <1>13, <1>14, <1>15, <1>16, <1>17, <1>18, <1>19, <1>20, <1>21, <1>22, <1>23, <1>24, <1>25, <1>26 DEF Step

\* So do the other actions of a worker ...
LEMMA WorkerType ==
  ASSUME TypeOK, NEW w \in Workers,
         Reconcile(w) \/ Heartbeat(w) \/ SyncClaim(w) \/ SyncNode(w) \/ Crash(w)
  PROVE  TypeOK'
  <1> USE DEF TypeOK
  <1>l. Latest(w) \in Status
    BY LatestType
  <1>1. CASE Reconcile(w)
    <2>1. WorkerTypeOK'
      BY <1>1, <1>l, PhaseType, GotoType DEF Reconcile
    <2>2. ClaimTypeOK'
      BY <1>1 DEF Reconcile, ClaimTypeOK
    <2> QED BY <1>1, <2>1, <2>2
            DEF Reconcile, nodeVars, proxmoxVars, NodeTypeOK, ProxmoxTypeOK
  <1>2. CASE Heartbeat(w)
    <2>1. ClaimTypeOK'
      BY <1>2, <1>l, WriteClaimType DEF Heartbeat, ClaimTypeOK
    <2> QED BY <1>2, <2>1 DEF Heartbeat, nodeVars, proxmoxVars, NodeTypeOK,
                              ProxmoxTypeOK, WorkerTypeOK
  <1>3. CASE SyncClaim(w)
    BY <1>3 DEF SyncClaim, ClaimTypeOK, nodeVars, proxmoxVars, NodeTypeOK,
                ProxmoxTypeOK, WorkerTypeOK
  <1>4. CASE SyncNode(w)
    BY <1>4 DEF SyncNode, claimVars, ClaimTypeOK, proxmoxVars, NodeTypeOK,
                ProxmoxTypeOK, WorkerTypeOK
  <1>5. CASE Crash(w)
    <2>1. ClaimTypeOK' /\ NodeTypeOK'
      BY <1>5 DEF Crash, ClaimTypeOK, NodeTypeOK
    <2>2. WorkerTypeOK' /\ budget' \in [Fault -> Nat]
      BY <1>5, ReturnType, SpendType DEF Crash, Fault
    <2> QED BY <1>5, <2>1, <2>2 DEF Crash, proxmoxVars, ProxmoxTypeOK
  <1> QED BY <1>1, <1>2, <1>3, <1>4, <1>5

\* ... and the steps of the cluster.
LEMMA EnvironmentType ==
  ASSUME TypeOK, Environment
  PROVE  TypeOK'
  <1> USE DEF TypeOK
  <1>f. {"join", "disruption"} \subseteq Fault
    BY DEF Fault
  <1>m. meta \in Meta /\ status \in Status /\ meta.finalizer \in BOOLEAN
    BY DEF ClaimTypeOK, Meta
  <1>n. /\ NoNode \in Node
        /\ [NoNode EXCEPT !.status = "NotReady"] \in Node
        /\ [node EXCEPT !.status = "Ready"] \in Node
        /\ [node EXCEPT !.status = "NotReady"] \in Node
    BY DEF NodeTypeOK, NoNode, Node
  <1>1. CASE DeleteClaim
    <2>1. [meta EXCEPT !.deleting = TRUE, !.exists = meta.finalizer] \in Meta
      BY <1>m DEF Meta
    <2>2. ClaimTypeOK'
      BY <1>1, <1>m, <2>1, WriteClaimType DEF DeleteClaim
    <2> QED BY <1>1, <2>2 DEF DeleteClaim, nodeVars, proxmoxVars, NodeTypeOK,
                              ProxmoxTypeOK, WorkerTypeOK
  <1>2. CASE PoolRemoved
    BY <1>2 DEF PoolRemoved, claimVars, nodeVars, proxmoxVars, ClaimTypeOK,
                NodeTypeOK, ProxmoxTypeOK, WorkerTypeOK
  <1>3. CASE NodeJoins
    BY <1>3, <1>f, <1>n, WriteNodeType, SpendType
       DEF NodeJoins, claimVars, proxmoxVars, ClaimTypeOK, ProxmoxTypeOK,
           WorkerTypeOK
  <1>4. CASE NodeBecomesReady
    BY <1>4, <1>n, WriteNodeType
       DEF NodeBecomesReady, claimVars, proxmoxVars, ClaimTypeOK, ProxmoxTypeOK,
           WorkerTypeOK
  <1>5. CASE NodeDegrades
    BY <1>5, <1>f, <1>n, WriteNodeType, SpendType
       DEF NodeDegrades, claimVars, proxmoxVars, ClaimTypeOK, ProxmoxTypeOK,
           WorkerTypeOK
  <1>6. CASE NodeLost
    BY <1>6, <1>f, <1>n, WriteNodeType, SpendType
       DEF NodeLost, claimVars, proxmoxVars, ClaimTypeOK, ProxmoxTypeOK,
           WorkerTypeOK
  <1>7. CASE NodeRemoved
    BY <1>7, <1>n, WriteNodeType
       DEF NodeRemoved, claimVars, proxmoxVars, ClaimTypeOK, ProxmoxTypeOK,
           WorkerTypeOK
  <1> QED BY <1>1, <1>2, <1>3, <1>4, <1>5, <1>6, <1>7 DEF Environment

\* Whatever the number of workers, the staleness of the caches and the
\* failures, every variable keeps its type, and only existing VMs run.
THEOREM TypeCorrect == Spec => []TypeOK
  <1>1. TypeOK /\ [Next]_vars => TypeOK'
    <2>1. SUFFICES ASSUME TypeOK, [Next]_vars PROVE TypeOK'
      OBVIOUS
    <2>2. CASE UNCHANGED vars
      BY <2>1, <2>2 DEF vars, claimVars, nodeVars, proxmoxVars, TypeOK,
                        ClaimTypeOK, NodeTypeOK, ProxmoxTypeOK, WorkerTypeOK
    <2> QED BY <2>1, <2>2, StepType, WorkerType, EnvironmentType DEF Next
  <1> QED BY <1>1, InitType, PTL DEF Spec

-----------------------------------------------------------------------------
(* At most one machine *)

\* Leader election lets one process act at a time.
LeaderElected == \A v, w \in Workers : v = w

\* AtMostOneMachine is not inductive: a worker that is about to create a VM
\* has looked for one and found none, and nobody else creates VMs.
MachineInv ==
  /\ AtMostOneMachine
  /\ \A w \in Workers : pc[w] = "create" => vms = {}

\* DeprovisionMachine never adds a VM.
LEMMA DeprovisionShrinks ==
  ASSUME ProxmoxTypeOK, NEW named, Deprovision(named)
  PROVE  vms' \subseteq vms
  BY DEF Deprovision, proxmoxVars, DeleteVM, StopVM

\* No step but the creation of a VM adds one, and no step but the search that
\* found nothing leads to it.
LEMMA StepMachines ==
  ASSUME TypeOK, NEW w \in Workers, Step(w),
         ~FindExistingVM(w), ~CreateNewVM(w)
  PROVE  vms' \subseteq vms /\ pc'[w] # "create"
  <1> USE DEF TypeOK, WorkerTypeOK, Goto, Return, proxmoxVars, PhaseAfterLaunch
  <1>1. CASE AddFinalizer(w)
           \/ ClearExpiredLease(w)
           \/ AcquireLease(w)
           \/ FailLaunch(w)
    BY <1>1 DEF AddFinalizer, ClearExpiredLease, AcquireLease, FailLaunch
  <1>2. CASE AwaitOldNode(w)
           \/ ProviderUnavailable(w)
           \/ StartProvisioning(w)
           \/ SaveLaunchError(w)
    BY <1>2 DEF AwaitOldNode, ProviderUnavailable, StartProvisioning,
                SaveLaunchError
  <1>3. CASE SaveLaunched(w)
           \/ ReleaseLease(w)
           \/ LabelNode(w)
           \/ SaveRegistered(w)
    BY <1>3 DEF SaveLaunched, ReleaseLease, LabelNode, SaveRegistered
  <1>4. CASE AwaitNode(w)
           \/ SaveTimeout(w)
           \/ SaveReady(w)
           \/ AwaitReady(w)
    BY <1>4 DEF AwaitNode, SaveTimeout, SaveReady, AwaitReady
  <1>5. CASE RecycleStuckNode(w)
           \/ RecycleLostNode(w)
           \/ SaveRecycle(w)
           \/ FinalizeNode(w)
           \/ RemoveFinalizer(w)
    BY <1>5 DEF RecycleStuckNode, RecycleLostNode, SaveRecycle,
                FinalizeNode, RemoveFinalizer
  <1>6. CASE RegistrationTimeout(w)
    BY <1>6, DeprovisionShrinks DEF RegistrationTimeout
  <1>7. CASE RecycleMachine(w)
    BY <1>7, DeprovisionShrinks DEF RecycleMachine
  <1>8. CASE FinalizeMachine(w)
    BY <1>8, DeprovisionShrinks DEF FinalizeMachine
  <1> QED BY <1>1, <1>2, <1>3, <1>4, <1>5, <1>6, <1>7, <1>8 DEF Step

\* Every step preserves the invariant of a lone worker that reaches all hosts.
LEMMA NextMachines ==
  ASSUME LeaderElected, ~HostsMaySkip, TypeOK, MachineInv, [Next]_vars
  PROVE  MachineInv'
  <1> USE DEF MachineInv, AtMostOneMachine
  <1>1. CASE UNCHANGED vars
    BY <1>1 DEF vars, proxmoxVars
  <1>2. CASE Environment
    <2>1. UNCHANGED <<vms, pc>>
      BY <1>2 DEF Environment, DeleteClaim, PoolRemoved, NodeJoins,
                  NodeBecomesReady, NodeDegrades, NodeLost, NodeRemoved,
                  proxmoxVars
    <2> QED BY <2>1
  <1>3. ASSUME NEW w \in Workers,
               Reconcile(w) \/ Heartbeat(w) \/ SyncClaim(w) \/ SyncNode(w) \/ Crash(w)
        PROVE  MachineInv'
    <2>1. vms' = vms
      BY <1>3 DEF Reconcile, Heartbeat, SyncClaim, SyncNode, Crash, proxmoxVars
    <2>2. pc' = pc \/ pc'[w] # "create"
      BY <1>3 DEF Reconcile, Heartbeat, SyncClaim, SyncNode, Crash, Goto, Return,
                  Phase, PhaseAfterLaunch, TypeOK, WorkerTypeOK
    <2> QED BY <2>1, <2>2 DEF LeaderElected
  <1>4. ASSUME NEW w \in Workers, Step(w)
        PROVE  MachineInv'
    <2>1. CASE FindExistingVM(w)
      <3>1. vms' = vms
        BY <2>1 DEF FindExistingVM, ReuseVM, proxmoxVars
      <3>2. pc'[w] = "create" => vms = {}
        BY <2>1 DEF FindExistingVM, Visible, Goto, TypeOK, WorkerTypeOK
      <3> QED BY <3>1, <3>2 DEF LeaderElected
    <2>2. CASE CreateNewVM(w)
      <3>1. vms = {}
        BY <2>2 DEF CreateNewVM
      <3>2. pc'[w] # "create"
        BY <2>2 DEF CreateNewVM, Goto, TypeOK, WorkerTypeOK
      <3>3. vms' = {} \/ \E id \in VMIDs : vms' = {id}
        BY <2>2, <3>1 DEF CreateNewVM, CreateVM, FreeVMIDs, proxmoxVars
      <3> QED BY <3>2, <3>3 DEF LeaderElected
    <2>3. CASE ~FindExistingVM(w) /\ ~CreateNewVM(w)
      BY <1>4, <2>3, StepMachines DEF LeaderElected
    <2> QED BY <2>1, <2>2, <2>3
  <1> QED BY <1>1, <1>2, <1>3, <1>4 DEF Next

\* Under leader election, and when findNodeByVMName reaches every host, a claim
\* never has two VMs, however often its launches crash, fail or are retried,
\* and however stale the caches are.
THEOREM OneMachine ==
  ASSUME LeaderElected, ~HostsMaySkip
  PROVE  Spec => []AtMostOneMachine
  <1>1. Init => MachineInv
    BY DEF Init, ProxmoxInit, MachineInv, AtMostOneMachine
  <1>2. TypeOK /\ MachineInv /\ [Next]_vars => MachineInv'
    BY NextMachines
  <1>3. MachineInv => AtMostOneMachine
    BY DEF MachineInv
  <1> QED BY <1>1, <1>2, <1>3, TypeCorrect, PTL DEF Spec

-----------------------------------------------------------------------------
(* The finalizer is there before the machine *)

\* A finalizer a worker has once seen is only dropped with the claim, so the
\* worker may go on with the launch; from the moment it holds the lease the
\* claim itself can no longer go away behind its back.
FinalizerInv ==
  \A w \in Workers :
    /\ cache[w].meta.finalizer /\ meta.exists => meta.finalizer
    /\ pc[w] \in {"clear", "acquire"} /\ meta.exists => meta.finalizer
    /\ pc[w] \in LaunchingPC => meta.exists /\ meta.finalizer

\* updateStatus, whatever its outcome, leaves the metadata alone.
LEMMA StatusKeepsMeta ==
  ASSUME ClaimTypeOK, NEW w \in Workers, NEW new,
         \/ StatusUpdated(w, new) \/ StatusTried(w, new) \/ StatusFailed(w, new)
         \/ StatusRefused \/ StatusReplyLost(w, new) \/ WriteClaim(meta, new)
  PROVE  /\ meta' = meta
         /\ \A v \in Workers : cache'[v].meta \in {cache[v].meta, meta}
  BY DEF StatusUpdated, StatusTried, StatusFailed, StatusRefused,
         StatusReplyLost, WriteClaim, claimVars, ClaimTypeOK

\* Only the two updates of the finalizer change the metadata.
LEMMA StepKeepsMeta ==
  ASSUME TypeOK, NEW w \in Workers, Step(w),
         ~AddFinalizer(w), ~RemoveFinalizer(w)
  PROVE  /\ meta' = meta
         /\ \A v \in Workers : cache'[v].meta \in {cache[v].meta, meta}
  <1>1. CASE \/ ClearExpiredLease(w) \/ AcquireLease(w) \/ FailLaunch(w)
           \/ ProviderUnavailable(w) \/ SaveLaunchError(w) \/ SaveLaunched(w)
    BY <1>1, StatusKeepsMeta
       DEF TypeOK, ClearExpiredLease, AcquireLease, FailLaunch,
           ProviderUnavailable, SaveLaunchError, SaveLaunched
  <1>2. CASE \/ ReleaseLease(w) \/ SaveRegistered(w) \/ SaveTimeout(w)
           \/ SaveReady(w) \/ SaveRecycle(w)
    BY <1>2, StatusKeepsMeta
       DEF TypeOK, ReleaseLease, SaveRegistered, SaveTimeout, SaveReady,
           SaveRecycle
  <1>3. CASE \/ AwaitOldNode(w) \/ StartProvisioning(w) \/ FindExistingVM(w)
           \/ CreateNewVM(w) \/ LabelNode(w) \/ AwaitNode(w)
           \/ RegistrationTimeout(w) \/ AwaitReady(w) \/ RecycleStuckNode(w)
           \/ RecycleLostNode(w) \/ RecycleMachine(w) \/ FinalizeNode(w)
           \/ FinalizeMachine(w)
    <2>1. UNCHANGED claimVars
      BY <1>3 DEF AwaitOldNode, StartProvisioning, FindExistingVM, CreateNewVM,
                  LabelNode, AwaitNode, RegistrationTimeout, AwaitReady,
                  RecycleStuckNode, RecycleLostNode, RecycleMachine,
                  FinalizeNode, FinalizeMachine
    <2> QED BY <2>1 DEF claimVars
  <1> QED BY <1>1, <1>2, <1>3 DEF Step

\* A launch begins with an accepted write of the lease, and a lease is
\* acquired after Reconcile or after clearing an expired one.
LEMMA StepLaunching ==
  ASSUME TypeOK, NEW w \in Workers, Step(w)
  PROVE  /\ pc'[w] \in LaunchingPC =>
              pc[w] \in LaunchingPC \/ (pc[w] = "acquire" /\ meta.exists)
         /\ pc'[w] \in {"clear", "acquire"} => pc[w] = "clear"
  <1> USE DEF TypeOK, WorkerTypeOK, Goto, Return, PhaseAfterLaunch, LaunchingPC
  <1>1. CASE \/ AddFinalizer(w) \/ ClearExpiredLease(w) \/ AcquireLease(w)
           \/ FailLaunch(w)
    BY <1>1 DEF AddFinalizer, ClearExpiredLease, AcquireLease, FailLaunch
  <1>2. CASE \/ AwaitOldNode(w) \/ ProviderUnavailable(w)
           \/ StartProvisioning(w) \/ FindExistingVM(w) \/ CreateNewVM(w)
    BY <1>2 DEF AwaitOldNode, ProviderUnavailable, StartProvisioning,
                FindExistingVM, CreateNewVM
  <1>3. CASE \/ SaveLaunchError(w) \/ SaveLaunched(w) \/ ReleaseLease(w)
    BY <1>3 DEF SaveLaunchError, SaveLaunched, ReleaseLease
  <1>4. CASE \/ LabelNode(w) \/ SaveRegistered(w) \/ AwaitNode(w)
           \/ RegistrationTimeout(w) \/ SaveTimeout(w)
    BY <1>4 DEF LabelNode, SaveRegistered, AwaitNode, RegistrationTimeout,
                SaveTimeout
  <1>5. CASE \/ SaveReady(w) \/ AwaitReady(w) \/ RecycleStuckNode(w)
           \/ RecycleLostNode(w) \/ RecycleMachine(w)
    BY <1>5 DEF SaveReady, AwaitReady, RecycleStuckNode, RecycleLostNode,
                RecycleMachine
  <1>6. CASE \/ SaveRecycle(w) \/ FinalizeNode(w) \/ FinalizeMachine(w)
           \/ RemoveFinalizer(w)
    BY <1>6 DEF SaveRecycle, FinalizeNode, FinalizeMachine, RemoveFinalizer
  <1> QED BY <1>1, <1>2, <1>3, <1>4, <1>5, <1>6 DEF Step

\* Every step of a lone worker's system preserves the invariant.
LEMMA NextFinalizer ==
  ASSUME LeaderElected, TypeOK, FinalizerInv, [Next]_vars
  PROVE  FinalizerInv'
  <1> USE DEF FinalizerInv
  <1>1. CASE UNCHANGED vars
    BY <1>1 DEF vars, claimVars
  <1>2. CASE Environment
    <2>1. CASE DeleteClaim
      <3>1. /\ meta.exists
            /\ meta' = [meta EXCEPT !.deleting = TRUE, !.exists = meta.finalizer]
            /\ pc' = pc
            /\ \A v \in Workers : cache'[v].meta \in {cache[v].meta, meta'}
        BY <2>1 DEF DeleteClaim, WriteClaim, TypeOK, ClaimTypeOK
      <3>2. meta'.finalizer = meta.finalizer /\ meta'.exists = meta.finalizer
        BY <3>1 DEF TypeOK, ClaimTypeOK, Meta
      <3> QED BY <3>1, <3>2
    <2>2. CASE ~DeleteClaim
      <3>1. UNCHANGED <<meta, cache, pc>>
        BY <1>2, <2>2 DEF Environment, PoolRemoved, NodeJoins, NodeBecomesReady,
                          NodeDegrades, NodeLost, NodeRemoved, claimVars
      <3> QED BY <3>1
    <2> QED BY <2>1, <2>2
  <1>3. ASSUME NEW w \in Workers, Reconcile(w)
        PROVE  FinalizerInv'
    <2>1. UNCHANGED <<meta, cache>>
      BY <1>3 DEF Reconcile
    <2>2. /\ pc'[w] \notin LaunchingPC
          /\ pc'[w] \in {"clear", "acquire"} => cache[w].meta.finalizer
      BY <1>3 DEF Reconcile, Goto, Phase, PhaseAfterLaunch, LaunchingPC, TypeOK,
                  WorkerTypeOK
    <2> QED BY <2>1, <2>2 DEF LeaderElected
  <1>4. ASSUME NEW w \in Workers, Heartbeat(w)
        PROVE  FinalizerInv'
    BY <1>4, StatusKeepsMeta DEF Heartbeat, TypeOK
  <1>5. ASSUME NEW w \in Workers, SyncClaim(w) \/ SyncNode(w)
        PROVE  FinalizerInv'
    <2>1. UNCHANGED <<meta, pc>>
      BY <1>5 DEF SyncClaim, SyncNode, claimVars
    <2>2. cache'[w].meta \in {cache[w].meta, meta}
      BY <1>5 DEF SyncClaim, SyncNode, claimVars, TypeOK, ClaimTypeOK
    <2> QED BY <2>1, <2>2 DEF LeaderElected
  <1>6. ASSUME NEW w \in Workers, Crash(w)
        PROVE  FinalizerInv'
    <2>1. meta' = meta /\ cache'[w].meta = meta /\ pc'[w] = "idle"
      BY <1>6 DEF Crash, Return, Goto, TypeOK, ClaimTypeOK, WorkerTypeOK
    <2> QED BY <2>1 DEF LeaderElected, LaunchingPC
  <1>7. ASSUME NEW w \in Workers, Step(w)
        PROVE  FinalizerInv'
    <2>1. CASE AddFinalizer(w) \/ RemoveFinalizer(w)
      <3>1. pc'[w] = "idle"
        BY <2>1 DEF AddFinalizer, RemoveFinalizer, Return, Goto, TypeOK,
                    WorkerTypeOK
      <3>2. \/ UNCHANGED <<meta, cache>>
            \/ meta'.finalizer \/ ~meta'.exists
        BY <2>1 DEF AddFinalizer, RemoveFinalizer, WriteClaim, claimVars, TypeOK,
                    ClaimTypeOK, Meta
      <3> QED BY <3>1, <3>2 DEF LeaderElected, LaunchingPC
    <2>2. CASE ~AddFinalizer(w) /\ ~RemoveFinalizer(w)
      <3>1. /\ meta' = meta
            /\ cache'[w].meta \in {cache[w].meta, meta}
        BY <1>7, <2>2, StepKeepsMeta
      <3> QED BY <1>7, <3>1, StepLaunching DEF LeaderElected
    <2> QED BY <2>1, <2>2
  <1> QED BY <1>1, <1>2, <1>3, <1>4, <1>5, <1>6, <1>7 DEF Next

\* Under leader election no VM is created for a claim without its finalizer,
\* even from a stale cache, and even when the claim is deleted meanwhile.
THEOREM FinalizerFirst ==
  ASSUME LeaderElected
  PROVE  Spec => FinalizerBeforeProvisioning
  <1>1. Init => FinalizerInv
    BY DEF Init, FinalizerInv, NewMeta, LaunchingPC
  <1>2. TypeOK /\ FinalizerInv /\ [Next]_vars => FinalizerInv'
    BY NextFinalizer
  <1>3. TypeOK /\ FinalizerInv /\ [Next]_vars
          => [vms' \subseteq vms \/ (meta.exists /\ meta.finalizer)]_vars
    <2>1. SUFFICES ASSUME TypeOK, FinalizerInv, Next
                   PROVE  vms' \subseteq vms \/ (meta.exists /\ meta.finalizer)
      OBVIOUS
    <2>2. CASE Environment
      BY <2>2 DEF Environment, DeleteClaim, PoolRemoved, NodeJoins,
                  NodeBecomesReady, NodeDegrades, NodeLost, NodeRemoved,
                  proxmoxVars
    <2>3. ASSUME NEW w \in Workers,
                 \/ Reconcile(w) \/ Heartbeat(w) \/ SyncClaim(w) \/ SyncNode(w)
                 \/ Crash(w)
          PROVE  vms' \subseteq vms
      BY <2>3 DEF Reconcile, Heartbeat, SyncClaim, SyncNode, Crash, proxmoxVars
    <2>4. ASSUME NEW w \in Workers, Step(w)
          PROVE  vms' \subseteq vms \/ (meta.exists /\ meta.finalizer)
      <3>1. CASE FindExistingVM(w)
        BY <3>1 DEF FindExistingVM, ReuseVM, proxmoxVars
      <3>2. CASE CreateNewVM(w)
        BY <2>1, <3>2 DEF CreateNewVM, FinalizerInv, LaunchingPC
      <3> QED BY <2>1, <2>4, <3>1, <3>2, StepMachines
    <2> QED BY <2>1, <2>2, <2>3, <2>4 DEF Next
  <1> QED BY <1>1, <1>2, <1>3, TypeCorrect, PTL DEF Spec, FinalizerBeforeProvisioning
=============================================================================
