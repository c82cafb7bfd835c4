---------------------- MODULE NodeClaimLifecycleProofs ----------------------
(***************************************************************************)
(* The lifecycle of a claim, proved of NodeClaim for one controller        *)
(* process whose caches do not lag: what the status may say at all, that   *)
(* Failed is final, how often ProvisionMachine is called, and that the     *)
(* controller implements ClaimLifecycle.  The last part, on the VMs that   *)
(* finalize leaves behind, allows the caches to be arbitrarily old.        *)
(***************************************************************************)
EXTENDS NodeClaimProofs, Integers

-----------------------------------------------------------------------------
(* The inductive invariant *)

\* The worker looks at, or waits for, a launch of a claim without a machine ...
Pending == {"clear", "acquire", "launch", "find", "create", "saveLaunched",
            "saveError"}

\* ... which ProvisionMachine has begun and LaunchAttempts does not count yet.
Busy == {"find", "create", "saveLaunched", "saveError"}

\* The worker has seen a machine whose Node has not joined.
Joining == {"release", "register", "labelled", "timeout"}

\* The worker looks after a Node.
Serving == {"init", "recycle", "saveRecycle"}

Finalizing == {"finalize", "deprovision", "removeFinalizer"}

\* The caches hold what the API server holds.
CacheCurrent ==
  \A w \in Workers : fresh[w] /\ cache[w] = [meta |-> meta, status |-> status]

\* What a status may say: the conditions and the two names tell the same story,
\* a claim with a machine is not given up, one that is given up has used its
\* attempts, and the attempts count the launches since the last registration.
Sound(s) ==
  /\ s.launched = "True" <=> s.providerID
  /\ s.registered = "True" <=> s.nodeName
  /\ s.ready = "True" => s.nodeName
  /\ s.nodeName => s.providerID
  /\ s.providerID => ~s.failed
  /\ s.failed => s.attempts >= MaxLaunchAttempts
  /\ s.attempts <= MaxLaunchAttempts
  /\ s.nodeName => s.attempts = 0
  /\ s.providerID /\ ~s.nodeName => s.attempts > 0

\* What a worker's place in Reconcile tells of the claim.
PlaceInv(w) ==
  /\ pc[w] \in Pending => ~status.providerID /\ ~status.failed
  /\ pc[w] \in Busy => status.attempts < MaxLaunchAttempts
  /\ pc[w] \in Joining => status.providerID /\ ~status.nodeName
  /\ pc[w] \in Serving => status.nodeName
  /\ pc[w] \in Finalizing => meta.deleting

\* The copy of the status that the reconcile holds is still right.
CopyInv(w) ==
  pc[w] \in Pending \cup Joining \cup Serving =>
    /\ st[w].providerID = status.providerID
    /\ st[w].nodeName = status.nodeName
    /\ st[w].attempts = status.attempts

\* The crashes and failed requests so far.
Spent == (MaxCrashes - budget.crash) + (MaxErrors - budget.error)

\* A call of ProvisionMachine is counted in LaunchAttempts, unless it is still
\* under way or a crash or a failed request kept it from being counted.
CallsInv ==
  /\ budget.crash <= MaxCrashes /\ budget.error <= MaxErrors
  /\ calls <= status.attempts + Spent + 1
  /\ (\A w \in Workers : pc[w] \notin Busy) => calls <= status.attempts + Spent

LifecycleInv ==
  /\ CacheCurrent
  /\ Sound(status)
  /\ \A w \in Workers : PlaceInv(w) /\ CopyInv(w)
  /\ CallsInv

-----------------------------------------------------------------------------
(* What the writes do to a sound status *)

\* The phase that LifecyclePhase reads off a claim.
PhaseOf(m, s) ==
  CASE ~m.exists -> "gone"
    [] m.exists /\ s.failed -> "failed"
    [] OTHER -> CASE s.ready = "True" -> "ready"
                  [] s.ready # "True" /\ s.nodeName -> "registered"
                  [] OTHER -> IF s.providerID THEN "launched" ELSE "pending"

\* The phase of a claim that exists, by what its sound status says.
LEMMA PhaseSound ==
  ASSUME NEW m \in Meta, NEW s \in Status, Sound(s), m.exists
  PROVE  /\ s.failed => PhaseOf(m, s) = "failed"
         /\ s.ready = "True" => PhaseOf(m, s) = "ready"
         /\ s.nodeName /\ s.ready # "True" => PhaseOf(m, s) = "registered"
         /\ s.providerID /\ ~s.nodeName => PhaseOf(m, s) = "launched"
         /\ ~s.providerID /\ ~s.failed => PhaseOf(m, s) = "pending"
  BY DEF PhaseOf, Sound, Status, Meta

\* The lease is not part of the lifecycle.
LEMMA LeaseSound ==
  ASSUME NEW m \in Meta, NEW s \in Status, Sound(s),
         NEW l \in Workers \cup {NoLease}, NEW new, new = [s EXCEPT !.lease = l]
  PROVE  /\ new \in Status
         /\ Sound(new)
         /\ PhaseOf(m, new) = PhaseOf(m, s)
         /\ new.providerID = s.providerID
         /\ new.nodeName = s.nodeName
         /\ new.attempts = s.attempts
         /\ new.failed = s.failed
  BY DEF PhaseOf, Sound, Status

\* A launch that failed.
LEMMA LaunchErrorSound ==
  ASSUME NEW s \in Status, Sound(s), ~s.providerID, ~s.failed,
         s.attempts < MaxLaunchAttempts,
         NEW new, new = [s EXCEPT !.attempts = s.attempts + 1, !.launched = "False"]
  PROVE  /\ new \in Status
         /\ Sound(new)
         /\ ~new.providerID /\ ~new.failed
         /\ new.attempts = s.attempts + 1
  <1>1. s.attempts \in Nat /\ s.attempts + 1 \in Nat
    BY DEF Status
  <1>2. /\ new \in Status
        /\ new.attempts = s.attempts + 1
        /\ new.launched = "False" /\ new.registered = s.registered
        /\ new.ready = s.ready
    BY <1>1 DEF Status, Condition
  <1>3. new.providerID = s.providerID /\ new.nodeName = s.nodeName /\ new.failed = s.failed
    BY <1>1 DEF Status, Condition
  <1> QED BY <1>1, <1>2, <1>3, NodeClaimAssumption DEF Sound

\* A launch that succeeded.
LEMMA LaunchedSound ==
  ASSUME NEW s \in Status, Sound(s), ~s.providerID, ~s.failed,
         s.attempts < MaxLaunchAttempts,
         NEW new, new = [s EXCEPT !.providerID = TRUE,
                                  !.attempts = s.attempts + 1,
                                  !.launched = "True"]
  PROVE  /\ new \in Status
         /\ Sound(new)
         /\ new.providerID /\ ~new.nodeName
         /\ new.attempts = s.attempts + 1
  <1>1. s.attempts \in Nat /\ s.attempts + 1 \in Nat
    BY DEF Status
  <1>2. /\ new \in Status
        /\ new.attempts = s.attempts + 1
        /\ new.launched = "True" /\ new.registered = s.registered
        /\ new.ready = s.ready
    BY <1>1 DEF Status, Condition
  <1>3. new.providerID /\ new.nodeName = s.nodeName /\ new.failed = s.failed
    BY <1>1 DEF Status, Condition
  <1> QED BY <1>1, <1>2, <1>3, NodeClaimAssumption DEF Sound

\* A registration: nothing that was given up is taken back, for a claim with a
\* machine has not been given up.
LEMMA RegisteredSound ==
  ASSUME NEW s \in Status, Sound(s), s.providerID, ~s.nodeName,
         NEW new, new = [s EXCEPT !.nodeName = TRUE, !.attempts = 0,
                                  !.failed = FALSE, !.registered = "True"]
  PROVE  /\ new \in Status
         /\ Sound(new)
         /\ ~s.failed
         /\ new.providerID /\ new.nodeName
         /\ new.attempts = 0
         /\ new.ready # "True"
  <1>1. /\ new \in Status
        /\ new.attempts = 0
        /\ new.launched = s.launched /\ new.registered = "True"
        /\ new.ready = s.ready
    BY DEF Status, Condition
  <1>2. new.providerID = s.providerID /\ new.nodeName /\ ~new.failed
    BY DEF Status, Condition
  <1> QED BY <1>1, <1>2, NodeClaimAssumption DEF Sound

\* A Node that became ready.
LEMMA ReadySound ==
  ASSUME NEW s \in Status, Sound(s), s.nodeName,
         NEW new, new = [s EXCEPT !.ready = "True"]
  PROVE  /\ new \in Status
         /\ Sound(new)
         /\ new.ready = "True"
         /\ new.nodeName
         /\ new.attempts = s.attempts
  BY DEF Sound, Status, Condition

-----------------------------------------------------------------------------
(* What a request does when the caches are current *)

\* updateStatus starts from the claim as it is.
LEMMA LatestCurrent ==
  ASSUME CacheCurrent, NEW w \in Workers
  PROVE  /\ Latest(w) = status /\ cache[w].meta = meta
         /\ fresh[w]
  BY DEF CacheCurrent, Latest

\* An accepted write reaches the caches at once.
LEMMA WriteCurrent ==
  ASSUME ~StaleReads, NEW m, NEW s, WriteClaim(m, s)
  PROVE  meta' = m /\ status' = s /\ CacheCurrent'
  BY DEF WriteClaim, CacheCurrent

\* updateStatus that returns nil has written the mutated status.
LEMMA UpdatedCurrent ==
  ASSUME ~StaleReads, CacheCurrent, NEW w \in Workers, NEW new,
         StatusUpdated(w, new)
  PROVE  meta' = meta /\ status' = new /\ CacheCurrent' /\ meta.exists
  <1>1. CASE new = Latest(w)
    BY <1>1, LatestCurrent DEF StatusUpdated, claimVars, CacheCurrent
  <1>2. CASE new # Latest(w)
    BY <1>2, WriteCurrent DEF StatusUpdated
  <1> QED BY <1>1, <1>2

\* updateStatus that returns an error has written it or not.
LEMMA FailedCurrent ==
  ASSUME ~StaleReads, CacheCurrent, NEW w \in Workers, NEW new,
         StatusFailed(w, new)
  PROVE  /\ meta' = meta /\ CacheCurrent'
         /\ \/ status' = new /\ meta.exists /\ Spend("error")
            \/ status' = status /\ ~meta.exists /\ UNCHANGED budget
            \/ status' = status /\ Spend("error")
  <1>1. CASE StatusRefused
    BY <1>1 DEF StatusRefused, claimVars, CacheCurrent
  <1>2. CASE StatusReplyLost(w, new)
    BY <1>2, WriteCurrent DEF StatusReplyLost
  <1> QED BY <1>1, <1>2 DEF StatusFailed

\* The same for the callers that ignore the outcome.
LEMMA TriedCurrent ==
  ASSUME ~StaleReads, CacheCurrent, NEW w \in Workers, NEW new,
         StatusTried(w, new)
  PROVE  /\ meta' = meta /\ CacheCurrent'
         /\ \/ status' = new /\ meta.exists /\ (UNCHANGED budget \/ Spend("error"))
            \/ status' = status /\ ~meta.exists /\ UNCHANGED budget
            \/ status' = status /\ Spend("error")
  BY UpdatedCurrent, FailedCurrent DEF StatusTried

\* What a step takes from the budget shows in Spent.
LEMMA SpentCounts ==
  ASSUME budget \in [Fault -> Nat]
  PROVE  /\ UNCHANGED budget \/ Spend("join") \/ Spend("disruption") =>
              /\ Spent' = Spent
              /\ budget'.crash = budget.crash /\ budget'.error = budget.error
         /\ Spend("error") =>
              /\ Spent' = Spent + 1
              /\ budget'.crash = budget.crash /\ budget'.error < budget.error
         /\ Spend("crash") =>
              /\ Spent' = Spent + 1
              /\ budget'.crash < budget.crash /\ budget'.error = budget.error
  <1>1. /\ {"join", "disruption", "error", "crash"} \subseteq Fault
        /\ MaxCrashes \in Nat /\ MaxErrors \in Nat
    BY NodeClaimAssumption DEF Fault
  <1> QED BY <1>1 DEF Spend, Spent

-----------------------------------------------------------------------------
(* The steps *)

\* A step shows in the lifecycle as one of its steps, or not at all.
LifecycleStep ==
  \/ Lifecycle!LifecycleNext
  \/ UNCHANGED <<LifecyclePhase, status.attempts, meta.deleting>>

\* What every step keeps: the invariant, the lifecycle and a final Failed.
Keeps ==
  /\ LifecycleInv'
  /\ LifecycleStep
  /\ status.failed => status'.failed

\* LifecyclePhase before and after a step.
LEMMA PhaseIs ==
  LifecyclePhase = PhaseOf(meta, status) /\ LifecyclePhase' = PhaseOf(meta', status')
  BY DEF LifecyclePhase, PhaseOf

\* The numbers the bounds compare.
LEMMA Numbers ==
  ASSUME TypeOK
  PROVE  /\ status.attempts \in Nat /\ calls \in Nat
         /\ budget.crash \in Nat /\ budget.error \in Nat
         /\ MaxCrashes \in Nat /\ MaxErrors \in Nat /\ MaxLaunchAttempts \in Nat
         /\ Spent \in Int
  <1>1. /\ status.attempts \in Nat /\ calls \in Nat
        /\ budget.crash \in Nat /\ budget.error \in Nat
        /\ MaxCrashes \in Nat /\ MaxErrors \in Nat /\ MaxLaunchAttempts \in Nat
    BY NodeClaimAssumption DEF TypeOK, ClaimTypeOK, Status, Fault
  <1> QED BY <1>1 DEF Spent

\* The same after a step.
LEMMA NumbersNext ==
  ASSUME TypeOK'
  PROVE  /\ status'.attempts \in Nat /\ calls' \in Nat
         /\ budget'.crash \in Nat /\ budget'.error \in Nat
         /\ Spent' \in Int
  <1>1. /\ status'.attempts \in Nat /\ calls' \in Nat
        /\ budget'.crash \in Nat /\ budget'.error \in Nat
        /\ MaxCrashes \in Nat /\ MaxErrors \in Nat
    BY NodeClaimAssumption DEF TypeOK, ClaimTypeOK, Status, Fault
  <1> QED BY <1>1 DEF Spent

\* The faults only add up.
LEMMA SpentGrows ==
  ASSUME TypeOK, TypeOK',
         \/ UNCHANGED budget \/ Spend("error") \/ Spend("crash")
         \/ Spend("join") \/ Spend("disruption")
  PROVE  /\ Spent' >= Spent
         /\ budget'.crash <= budget.crash /\ budget'.error <= budget.error
  <1>1. budget \in [Fault -> Nat]
    BY DEF TypeOK
  <1> QED BY <1>1, SpentCounts, Numbers, NumbersNext

\* The calls stay accounted for by a step of a lone worker: a launch that is no
\* longer under way has been counted or has cost a fault.
LEMMA CallsKept ==
  ASSUME LeaderElected, NEW w \in Workers, TypeOK, TypeOK', CallsInv,
         calls' = calls,
         budget'.crash <= budget.crash, budget'.error <= budget.error,
         status'.attempts + Spent' >= status.attempts + Spent,
         \/ pc'[w] \in Busy \/ pc[w] \notin Busy
         \/ status'.attempts + Spent' > status.attempts + Spent
  PROVE  CallsInv'
  <1>1. /\ status.attempts \in Nat /\ calls \in Nat /\ status'.attempts \in Nat
        /\ Spent \in Int /\ Spent' \in Int
    BY Numbers, NumbersNext
  <1>2. budget'.crash <= MaxCrashes /\ budget'.error <= MaxErrors
    BY Numbers, NumbersNext DEF CallsInv
  <1>3. pc[w] \notin Busy => calls <= status.attempts + Spent
    BY DEF LeaderElected, CallsInv
  <1>4. calls' <= status'.attempts + Spent' + 1
    BY <1>1 DEF CallsInv
  <1>5. pc'[w] \notin Busy => calls' <= status'.attempts + Spent'
    BY <1>1, <1>3 DEF CallsInv
  <1> QED BY <1>2, <1>4, <1>5 DEF CallsInv

\* A step that leaves the status alone, modulo the lease.
LEMMA StatusKept ==
  ASSUME LeaderElected, NEW w \in Workers, TypeOK, TypeOK', LifecycleInv,
         meta' = meta, CacheCurrent',
         status' = status \/ \E l \in Workers \cup {NoLease} :
                                status' = [status EXCEPT !.lease = l],
         CallsInv',
         PlaceInv(w)', CopyInv(w)'
  PROVE  Keeps
  <1>1. status \in Status /\ meta \in Meta /\ Sound(status)
    BY DEF TypeOK, ClaimTypeOK, LifecycleInv
  <1>2. /\ Sound(status')
        /\ PhaseOf(meta, status') = PhaseOf(meta, status)
        /\ status'.attempts = status.attempts
        /\ status'.failed = status.failed
    BY <1>1, LeaseSound
  <1>3. LifecycleStep
    BY <1>2, PhaseIs DEF LifecycleStep
  <1> QED BY <1>2, <1>3 DEF Keeps, LifecycleInv, LeaderElected

\* A worker that returns, or only has the lease to release, has nothing to know.
LEMMA Leaves ==
  ASSUME NEW w \in Workers, pc'[w] \in {"idle", "abort", "addFinalizer"}
  PROVE  PlaceInv(w)' /\ CopyInv(w)' /\ pc'[w] \notin Busy
  BY DEF PlaceInv, CopyInv, Pending, Busy, Joining, Serving, Finalizing

\* The steps that do not write the claim: the worker goes on with its copy or
\* returns, and only StartProvisioning begins a call.
LEMMA StepWithoutWrite ==
  ASSUME LeaderElected, TypeOK, TypeOK', LifecycleInv, NEW w \in Workers,
         \/ AwaitOldNode(w) \/ StartProvisioning(w) \/ FindExistingVM(w)
         \/ CreateNewVM(w) \/ LabelNode(w) \/ AwaitNode(w)
         \/ RegistrationTimeout(w) \/ AwaitReady(w) \/ RecycleStuckNode(w)
         \/ RecycleLostNode(w) \/ RecycleMachine(w) \/ FinalizeNode(w)
         \/ FinalizeMachine(w)
  PROVE  Keeps
  <1>1. UNCHANGED claimVars
    BY DEF AwaitOldNode, StartProvisioning, FindExistingVM, CreateNewVM,
           LabelNode, AwaitNode, RegistrationTimeout, AwaitReady,
           RecycleStuckNode, RecycleLostNode, RecycleMachine, FinalizeNode,
           FinalizeMachine
  <1>2. meta' = meta /\ status' = status /\ CacheCurrent'
    BY <1>1 DEF claimVars, CacheCurrent, LifecycleInv
  <1>3. PlaceInv(w) /\ CopyInv(w)
    BY DEF LifecycleInv
  <1>4. UNCHANGED budget \/ Spend("error")
    BY DEF AwaitOldNode, StartProvisioning, FindExistingVM, CreateNewVM,
           LabelNode, AwaitNode, RegistrationTimeout, AwaitReady,
           RecycleStuckNode, RecycleLostNode, RecycleMachine, FinalizeNode,
           FinalizeMachine, Deprovision
  <1>5. /\ Spent' >= Spent
        /\ budget'.crash <= budget.crash /\ budget'.error <= budget.error
        /\ Spent \in Int /\ status.attempts \in Nat /\ calls \in Nat
    BY <1>4, SpentGrows, Numbers
  <1>6. CASE StartProvisioning(w)
    <2>1. pc[w] = "launch" /\ pc'[w] = "find" /\ st'[w] = st[w] /\ calls' = calls + 1
      BY <1>6 DEF StartProvisioning, Goto, TypeOK, WorkerTypeOK
    <2>2. status.attempts < MaxLaunchAttempts
      <3>1. st[w].attempts = status.attempts
        BY <1>3, <2>1 DEF CopyInv, Pending
      <3>2. ~(status.attempts >= MaxLaunchAttempts)
        BY <1>6, <3>1 DEF StartProvisioning, AttemptsExhausted
      <3> QED BY <1>5, <3>2, NodeClaimAssumption
    <2>3. PlaceInv(w)' /\ CopyInv(w)'
      BY <1>2, <1>3, <2>1, <2>2
         DEF PlaceInv, CopyInv, Pending, Busy, Joining, Serving, Finalizing
    <2>4. calls <= status.attempts + Spent
      BY <2>1 DEF LifecycleInv, CallsInv, LeaderElected, Busy
    <2>5. budget' = budget
      BY <1>6 DEF StartProvisioning
    <2>6. CallsInv'
      BY <1>2, <1>5, <2>1, <2>4, <2>5 DEF CallsInv, LifecycleInv, Busy, Spent
    <2> QED BY <1>2, <2>3, <2>6, StatusKept
  <1>7. CASE ~StartProvisioning(w)
    <2>1. calls' = calls
      BY <1>7 DEF AwaitOldNode, FindExistingVM, CreateNewVM,
             LabelNode, AwaitNode, RegistrationTimeout, AwaitReady,
             RecycleStuckNode, RecycleLostNode, RecycleMachine, FinalizeNode,
             FinalizeMachine
    <2>2. \/ pc'[w] \in {"idle", "abort"} /\ pc[w] \notin Busy
          \/ /\ st'[w] = st[w]
             /\ \/ pc[w] \in Busy /\ pc'[w] \in Busy
                \/ pc[w] \in Joining /\ pc'[w] \in Joining
                \/ pc[w] \in Serving /\ pc'[w] \in Serving
                \/ pc[w] \in Finalizing /\ pc'[w] \in Finalizing
      BY <1>7 DEF AwaitOldNode, FindExistingVM, CreateNewVM,
             LabelNode, AwaitNode, RegistrationTimeout, AwaitReady,
             RecycleStuckNode, RecycleLostNode, RecycleMachine, FinalizeNode,
             FinalizeMachine, Goto, Return, TypeOK, WorkerTypeOK, Pending, Busy,
             Joining, Serving, Finalizing
    <2>3. PlaceInv(w)' /\ CopyInv(w)'
      BY <1>2, <1>3, <2>2
         DEF PlaceInv, CopyInv, Pending, Busy, Joining, Serving, Finalizing
    <2>4. pc'[w] \in Busy \/ pc[w] \notin Busy
      BY <2>2 DEF Busy, Joining, Serving, Finalizing
    <2>5. status'.attempts + Spent' >= status.attempts + Spent
      BY <1>2, <1>5, NumbersNext
    <2>6. CallsInv'
      BY <1>5, <2>1, <2>4, <2>5, CallsKept DEF LifecycleInv
    <2> QED BY <1>2, <2>3, <2>6, StatusKept
  <1> QED BY <1>6, <1>7

\* The steps that write the lease only.
LEMMA StepOfLease ==
  ASSUME LeaderElected, ~StaleReads, TypeOK, TypeOK', LifecycleInv,
         NEW w \in Workers,
         ClearExpiredLease(w) \/ AcquireLease(w) \/ ReleaseLease(w)
  PROVE  Keeps
  <1>1. PlaceInv(w) /\ CopyInv(w) /\ CacheCurrent /\ Latest(w) = status
    BY LatestCurrent DEF LifecycleInv
  <1>2. status \in Status /\ meta \in Meta /\ Sound(status)
    BY DEF TypeOK, ClaimTypeOK, LifecycleInv
  <1>3. CASE ClearExpiredLease(w)
    <2> DEFINE new == [status EXCEPT !.lease = NoLease]
    <2>1. /\ new.providerID = status.providerID /\ new.nodeName = status.nodeName
          /\ new.attempts = status.attempts /\ new.failed = status.failed
      BY <1>2, LeaseSound
    <2> HIDE DEF new
    <2>2. /\ meta' = meta /\ CacheCurrent'
          /\ status' = new \/ status' = status
          /\ UNCHANGED budget \/ Spend("error")
          /\ \/ status' = new /\ pc'[w] = "acquire" /\ st'[w] = new
             \/ pc'[w] = "idle"
      BY <1>1, <1>3, UpdatedCurrent, FailedCurrent
         DEF ClearExpiredLease, Goto, Return, TypeOK, WorkerTypeOK, new
    <2>3. pc[w] = "clear" /\ calls' = calls /\ pc[w] \notin Busy
      BY <1>3 DEF ClearExpiredLease, Busy
    <2>4. PlaceInv(w)' /\ CopyInv(w)'
      BY <1>1, <2>1, <2>2, <2>3, Leaves
         DEF PlaceInv, CopyInv, Pending, Busy, Joining, Serving, Finalizing
    <2>5. CallsInv'
      BY <2>1, <2>2, <2>3, SpentGrows, Numbers, NumbersNext, CallsKept
         DEF LifecycleInv
    <2> QED BY <2>2, <2>4, <2>5, StatusKept DEF new
  <1>4. CASE AcquireLease(w)
    <2> DEFINE new == [status EXCEPT !.lease = w]
    <2>1. /\ new.providerID = status.providerID /\ new.nodeName = status.nodeName
          /\ new.attempts = status.attempts /\ new.failed = status.failed
      BY <1>2, LeaseSound
    <2> HIDE DEF new
    <2>2. /\ meta' = meta /\ CacheCurrent'
          /\ status' = new \/ status' = status
          /\ UNCHANGED budget \/ Spend("error")
          /\ \/ status' = new /\ pc'[w] = "launch" /\ st'[w] = new
             \/ pc'[w] = "idle"
      BY <1>1, <1>4, WriteCurrent, FailedCurrent
         DEF AcquireLease, Goto, Return, TypeOK, WorkerTypeOK, new
    <2>3. pc[w] = "acquire" /\ calls' = calls /\ pc[w] \notin Busy
      BY <1>4 DEF AcquireLease, Busy
    <2>4. PlaceInv(w)' /\ CopyInv(w)'
      BY <1>1, <2>1, <2>2, <2>3, Leaves
         DEF PlaceInv, CopyInv, Pending, Busy, Joining, Serving, Finalizing
    <2>5. CallsInv'
      BY <2>1, <2>2, <2>3, SpentGrows, Numbers, NumbersNext, CallsKept
         DEF LifecycleInv
    <2> QED BY <2>2, <2>4, <2>5, StatusKept DEF new
  <1>5. CASE ReleaseLease(w)
    <2> DEFINE new == [status EXCEPT !.lease = NoLease]
    <2>1. /\ new.providerID = status.providerID /\ new.nodeName = status.nodeName
          /\ new.attempts = status.attempts /\ new.failed = status.failed
      BY <1>2, LeaseSound
    <2> HIDE DEF new
    <2>2. /\ meta' = meta /\ CacheCurrent'
          /\ status' = new \/ status' = status
          /\ UNCHANGED budget \/ Spend("error")
      BY <1>1, <1>5, UpdatedCurrent, FailedCurrent, TriedCurrent
         DEF ReleaseLease, new
    <2>3. pc[w] \in {"release", "abort"} /\ calls' = calls /\ pc[w] \notin Busy
      BY <1>5 DEF ReleaseLease, Busy
    <2>4. pc[w] = "release" => pc'[w] = "register" /\ st'[w] \in {new, st[w]}
      <3>1. SUFFICES ASSUME pc[w] = "release"
                     PROVE  pc'[w] = "register" /\ st'[w] \in {new, st[w]}
        OBVIOUS
      <3>2. PhaseAfterLaunch(new) = "register" /\ PhaseAfterLaunch(st[w]) = "register"
        BY <1>1, <2>1, <3>1 DEF PlaceInv, CopyInv, Joining, PhaseAfterLaunch
      <3> QED BY <1>1, <1>5, <3>1, <3>2
              DEF ReleaseLease, Goto, TypeOK, WorkerTypeOK, new
    <2>5. pc[w] = "abort" => pc'[w] = "idle"
      BY <1>5 DEF ReleaseLease, Goto, Return, TypeOK, WorkerTypeOK
    <2>6. PlaceInv(w)' /\ CopyInv(w)'
      BY <1>1, <2>1, <2>2, <2>3, <2>4, <2>5, Leaves
         DEF PlaceInv, CopyInv, Pending, Busy, Joining, Serving, Finalizing
    <2>7. CallsInv'
      BY <2>1, <2>2, <2>3, SpentGrows, Numbers, NumbersNext, CallsKept
         DEF LifecycleInv
    <2> QED BY <2>2, <2>6, <2>7, StatusKept DEF new
  <1> QED BY <1>3, <1>4, <1>5

\* The two writes of the finalizer: dropping it ends the lifecycle.
LEMMA StepOfFinalizer ==
  ASSUME LeaderElected, ~StaleReads, TypeOK, TypeOK', LifecycleInv,
         NEW w \in Workers, AddFinalizer(w) \/ RemoveFinalizer(w)
  PROVE  Keeps
  <1>1. status \in Status /\ meta \in Meta /\ Sound(status) /\ PlaceInv(w)
    BY DEF TypeOK, ClaimTypeOK, LifecycleInv
  <1>2. /\ UNCHANGED budget \/ Spend("error")
        /\ pc'[w] = "idle" /\ pc[w] \notin Busy /\ calls' = calls
    BY DEF AddFinalizer, RemoveFinalizer, Return, Goto, TypeOK, WorkerTypeOK, Busy
  <1>3. status' = status /\ CacheCurrent'
    BY WriteCurrent
       DEF AddFinalizer, RemoveFinalizer, claimVars, LifecycleInv, CacheCurrent
  <1>4. CallsInv'
    BY <1>2, <1>3, SpentGrows, Numbers, NumbersNext, CallsKept DEF LifecycleInv
  <1>5. LifecycleStep
    <2>1. CASE meta' = meta
      BY <1>3, <2>1, PhaseIs DEF LifecycleStep
    <2>2. CASE AddFinalizer(w) /\ meta' # meta
      <3>1. meta' = [meta EXCEPT !.finalizer = TRUE]
        BY <2>2 DEF AddFinalizer, WriteClaim, claimVars
      <3>2. meta'.exists = meta.exists /\ meta'.deleting = meta.deleting
        BY <1>1, <3>1 DEF Meta
      <3>3. PhaseOf(meta', status') = PhaseOf(meta, status)
        BY <1>3, <3>2 DEF PhaseOf
      <3> QED BY <1>3, <3>2, <3>3, PhaseIs DEF LifecycleStep
    <2>3. CASE RemoveFinalizer(w) /\ meta' # meta
      <3>1. /\ meta' = [meta EXCEPT !.exists = FALSE, !.finalizer = FALSE]
            /\ pc[w] = "removeFinalizer"
        BY <2>3 DEF RemoveFinalizer, WriteClaim, claimVars
      <3>2. ~meta'.exists /\ meta'.deleting = meta.deleting /\ meta.deleting
        BY <1>1, <3>1 DEF Meta, PlaceInv, Finalizing
      <3>3. PhaseOf(meta', status') = "gone"
        BY <3>2 DEF PhaseOf
      <3>4. Lifecycle!Remove
        BY <1>3, <3>2, <3>3, PhaseIs DEF Lifecycle!Remove
      <3> QED BY <3>4 DEF LifecycleStep, Lifecycle!LifecycleNext
    <2> QED BY <2>1, <2>2, <2>3
  <1> QED BY <1>1, <1>2, <1>3, <1>4, <1>5, Leaves
          DEF Keeps, LifecycleInv, LeaderElected

\* Giving up before a launch, and reporting that there is no provider.
LEMMA StepNotLaunched ==
  ASSUME LeaderElected, ~StaleReads, TypeOK, TypeOK', LifecycleInv,
         NEW w \in Workers, FailLaunch(w) \/ ProviderUnavailable(w)
  PROVE  Keeps
  <1>1. status \in Status /\ meta \in Meta /\ Sound(status) /\ Latest(w) = status
    BY LatestCurrent DEF TypeOK, ClaimTypeOK, LifecycleInv
  <1>2. /\ pc[w] = "launch" /\ pc'[w] = "abort" /\ pc[w] \notin Busy
        /\ calls' = calls
    BY DEF FailLaunch, ProviderUnavailable, Goto, TypeOK, WorkerTypeOK, Busy
  <1>3. /\ ~status.providerID /\ ~status.failed
        /\ FailLaunch(w) => status.attempts >= MaxLaunchAttempts
    BY <1>2 DEF FailLaunch, AttemptsExhausted, LifecycleInv, PlaceInv, CopyInv,
                Pending
  <1>4. \E g \in BOOLEAN :
          /\ StatusTried(w, [status EXCEPT !.failed = g, !.launched = "False"])
          /\ g => status.attempts >= MaxLaunchAttempts
    <2>1. CASE FailLaunch(w)
      <3>1. StatusTried(w, [status EXCEPT !.failed = TRUE, !.launched = "False"])
        BY <1>1, <2>1 DEF FailLaunch
      <3> QED BY <1>3, <2>1, <3>1
    <2>2. CASE ProviderUnavailable(w)
      <3>1. [status EXCEPT !.launched = "False"]
              = [status EXCEPT !.failed = FALSE, !.launched = "False"]
        <4>1. status.failed = FALSE
          BY <1>1, <1>3 DEF Status
        <4> QED BY <1>1, <4>1 DEF Status
      <3>2. StatusTried(w, [status EXCEPT !.failed = FALSE, !.launched = "False"])
        BY <1>1, <2>2, <3>1 DEF ProviderUnavailable
      <3> QED BY <3>2
    <2> QED BY <2>1, <2>2
  <1>5. PICK f \in BOOLEAN :
          /\ StatusTried(w, [status EXCEPT !.failed = f, !.launched = "False"])
          /\ f => status.attempts >= MaxLaunchAttempts
    BY <1>4
  <1> DEFINE new == [status EXCEPT !.failed = f, !.launched = "False"]
  <1>6. /\ new \in Status /\ Sound(new) /\ ~new.providerID /\ new.failed = f
        /\ new.attempts = status.attempts /\ new.nodeName = status.nodeName
    <2>1. /\ new \in Status
          /\ new.launched = "False" /\ new.registered = status.registered
          /\ new.ready = status.ready /\ new.attempts = status.attempts
      BY <1>1 DEF Status, Condition
    <2>2. /\ new.providerID = status.providerID /\ new.nodeName = status.nodeName
          /\ new.failed = f
      BY <1>1 DEF Status, Condition
    <2> HIDE DEF new
    <2> QED BY <1>1, <1>3, <1>5, <2>1, <2>2 DEF Sound
  <1> HIDE DEF new
  <1>7. /\ meta' = meta /\ CacheCurrent'
        /\ (status' = new /\ meta.exists) \/ status' = status
        /\ UNCHANGED budget \/ Spend("error")
    BY <1>5, TriedCurrent DEF LifecycleInv, new
  <1>8. CallsInv'
    BY <1>2, <1>6, <1>7, SpentGrows, Numbers, NumbersNext, CallsKept
       DEF LifecycleInv
  <1>9. LifecycleStep
    <2>1. CASE status' = status
      BY <1>7, <2>1, PhaseIs DEF LifecycleStep
    <2>2. CASE status' = new /\ meta.exists /\ f
      <3>1. PhaseOf(meta, status) = "pending" /\ PhaseOf(meta, new) = "failed"
        BY <1>1, <1>3, <1>6, <2>2, PhaseSound
      <3>2. Lifecycle!GiveUp
        BY <1>5, <1>6, <1>7, <2>2, <3>1, PhaseIs DEF Lifecycle!GiveUp
      <3> QED BY <3>2 DEF LifecycleStep, Lifecycle!LifecycleNext
    <2>3. CASE status' = new /\ meta.exists /\ ~f
      <3>1. PhaseOf(meta, status) = "pending" /\ PhaseOf(meta, new) = "pending"
        BY <1>1, <1>3, <1>6, <2>3, PhaseSound
      <3> QED BY <1>6, <1>7, <2>3, <3>1, PhaseIs DEF LifecycleStep
    <2> QED BY <1>7, <2>1, <2>2, <2>3
  <1>10. Sound(status')
    BY <1>1, <1>6, <1>7
  <1> QED BY <1>2, <1>3, <1>7, <1>8, <1>9, <1>10, Leaves
          DEF Keeps, LifecycleInv, LeaderElected

\* The end of a launch: the attempt is counted with its outcome, unless the
\* request fails.
LEMMA StepLaunched ==
  ASSUME LeaderElected, ~StaleReads, TypeOK, TypeOK', LifecycleInv, FinalizerInv,
         NEW w \in Workers, SaveLaunched(w)
  PROVE  Keeps
  <1> DEFINE new == [status EXCEPT !.providerID = TRUE,
                                   !.attempts = status.attempts + 1,
                                   !.launched = "True"]
  <1>1. status \in Status /\ meta \in Meta /\ Sound(status) /\ Latest(w) = status
    BY LatestCurrent DEF TypeOK, ClaimTypeOK, LifecycleInv
  <1>2. pc[w] = "saveLaunched" /\ calls' = calls
    BY DEF SaveLaunched
  <1>3. /\ ~status.providerID /\ ~status.failed
        /\ status.attempts < MaxLaunchAttempts
        /\ st[w].attempts = status.attempts
        /\ meta.exists
    BY <1>2 DEF LifecycleInv, PlaceInv, CopyInv, Pending, Busy, FinalizerInv,
                LaunchingPC
  <1>4. /\ new \in Status /\ Sound(new) /\ new.providerID /\ ~new.nodeName
        /\ new.attempts = status.attempts + 1
    BY <1>1, <1>3, LaunchedSound
  <1> HIDE DEF new
  <1>5. /\ meta' = meta /\ CacheCurrent'
        /\ \/ status' = new /\ (UNCHANGED budget \/ Spend("error"))
           \/ status' = status /\ Spend("error")
        /\ \/ status' = new /\ pc'[w] = "release" /\ st'[w] = new
           \/ pc'[w] = "abort"
    BY <1>1, <1>3, UpdatedCurrent, FailedCurrent
       DEF SaveLaunched, Goto, TypeOK, WorkerTypeOK, LifecycleInv, new
  <1>6. PlaceInv(w)' /\ CopyInv(w)'
    BY <1>4, <1>5, Leaves
       DEF PlaceInv, CopyInv, Pending, Busy, Joining, Serving, Finalizing
  <1>7. CallsInv'
    <2>1. status'.attempts + Spent' > status.attempts + Spent
      <3>1. CASE status' = new
        BY <1>4, <1>5, <3>1, SpentGrows, Numbers, NumbersNext
      <3>2. CASE status' = status /\ Spend("error")
        BY <3>2, SpentCounts, Numbers DEF TypeOK
      <3> QED BY <1>5, <3>1, <3>2
    <2> QED BY <1>2, <1>5, <2>1, SpentGrows, Numbers, NumbersNext, CallsKept
            DEF LifecycleInv
  <1>8. LifecycleStep
    <2>1. CASE status' = status
      BY <1>5, <2>1, PhaseIs DEF LifecycleStep
    <2>2. CASE status' = new
      <3>1. PhaseOf(meta, status) = "pending" /\ PhaseOf(meta, new) = "launched"
        BY <1>1, <1>3, <1>4, PhaseSound
      <3>2. Lifecycle!Launch
        BY <1>3, <1>4, <1>5, <2>2, <3>1, PhaseIs DEF Lifecycle!Launch
      <3> QED BY <3>2 DEF LifecycleStep, Lifecycle!LifecycleNext
    <2> QED BY <1>5, <2>1, <2>2
  <1>9. Sound(status')
    BY <1>1, <1>4, <1>5
  <1> QED BY <1>3, <1>5, <1>6, <1>7, <1>8, <1>9
          DEF Keeps, LifecycleInv, LeaderElected

\* The same when ProvisionMachine failed.
LEMMA StepLaunchError ==
  ASSUME LeaderElected, ~StaleReads, TypeOK, TypeOK', LifecycleInv, FinalizerInv,
         NEW w \in Workers, SaveLaunchError(w)
  PROVE  Keeps
  <1> DEFINE new == [status EXCEPT !.attempts = status.attempts + 1,
                                   !.launched = "False"]
  <1>1. status \in Status /\ meta \in Meta /\ Sound(status) /\ Latest(w) = status
    BY LatestCurrent DEF TypeOK, ClaimTypeOK, LifecycleInv
  <1>2. pc[w] = "saveError" /\ pc'[w] = "abort" /\ calls' = calls
    BY DEF SaveLaunchError, Goto, TypeOK, WorkerTypeOK
  <1>3. /\ ~status.providerID /\ ~status.failed
        /\ status.attempts < MaxLaunchAttempts
        /\ st[w].attempts = status.attempts
        /\ meta.exists
    BY <1>2 DEF LifecycleInv, PlaceInv, CopyInv, Pending, Busy, FinalizerInv,
                LaunchingPC
  <1>4. /\ new \in Status /\ Sound(new) /\ ~new.providerID /\ ~new.failed
        /\ new.attempts = status.attempts + 1
    BY <1>1, <1>3, LaunchErrorSound
  <1> HIDE DEF new
  <1>5. /\ meta' = meta /\ CacheCurrent'
        /\ \/ status' = new /\ (UNCHANGED budget \/ Spend("error"))
           \/ status' = status /\ Spend("error")
    BY <1>1, <1>3, TriedCurrent DEF SaveLaunchError, LifecycleInv, new
  <1>6. CallsInv'
    <2>1. status'.attempts + Spent' > status.attempts + Spent
      <3>1. CASE status' = new
        BY <1>4, <1>5, <3>1, SpentGrows, Numbers, NumbersNext
      <3>2. CASE status' = status /\ Spend("error")
        BY <3>2, SpentCounts, Numbers DEF TypeOK
      <3> QED BY <1>5, <3>1, <3>2
    <2> QED BY <1>2, <1>5, <2>1, SpentGrows, Numbers, NumbersNext, CallsKept
            DEF LifecycleInv
  <1>7. LifecycleStep
    <2>1. CASE status' = status
      BY <1>5, <2>1, PhaseIs DEF LifecycleStep
    <2>2. CASE status' = new
      <3>1. PhaseOf(meta, status) = "pending" /\ PhaseOf(meta, new) = "pending"
        BY <1>1, <1>3, <1>4, PhaseSound
      <3>2. Lifecycle!LaunchFails
        BY <1>3, <1>4, <1>5, <2>2, <3>1, PhaseIs DEF Lifecycle!LaunchFails
      <3> QED BY <3>2 DEF LifecycleStep, Lifecycle!LifecycleNext
    <2> QED BY <1>5, <2>1, <2>2
  <1>8. Sound(status')
    BY <1>1, <1>4, <1>5
  <1> QED BY <1>2, <1>3, <1>5, <1>6, <1>7, <1>8, Leaves
          DEF Keeps, LifecycleInv, LeaderElected

\* A registration that is recorded.
LEMMA StepRegistered ==
  ASSUME LeaderElected, ~StaleReads, TypeOK, TypeOK', LifecycleInv,
         NEW w \in Workers, SaveRegistered(w)
  PROVE  Keeps
  <1> DEFINE new == [status EXCEPT !.nodeName = TRUE, !.attempts = 0,
                                   !.failed = FALSE, !.registered = "True"]
  <1>1. status \in Status /\ meta \in Meta /\ Sound(status) /\ Latest(w) = status
    BY LatestCurrent DEF TypeOK, ClaimTypeOK, LifecycleInv
  <1>2. pc[w] = "labelled" /\ pc[w] \notin Busy
    BY DEF SaveRegistered, Busy
  <1>3. status.providerID /\ ~status.nodeName
    BY <1>2 DEF LifecycleInv, PlaceInv, Joining
  <1>4. /\ new \in Status /\ Sound(new) /\ ~status.failed
        /\ new.providerID /\ new.nodeName /\ new.attempts = 0
        /\ new.ready # "True"
    BY <1>1, <1>3, RegisteredSound
  <1> HIDE DEF new
  <1>5. /\ meta' = meta /\ CacheCurrent'
        /\ UNCHANGED budget \/ Spend("error")
        /\ \/ status' = new /\ meta.exists /\ calls' = 0
           \/ status' = status /\ calls' = calls
        /\ \/ status' = new /\ pc'[w] = "init" /\ st'[w] = new
           \/ pc'[w] = "idle"
    <2>1. CASE StatusUpdated(w, new) /\ calls' = 0 /\ Goto(w, "init", new)
                 /\ UNCHANGED budget
      BY <2>1, UpdatedCurrent DEF Goto, TypeOK, WorkerTypeOK, LifecycleInv
    <2>2. CASE StatusReplyLost(w, new) /\ calls' = 0 /\ Return(w)
      <3>1. StatusFailed(w, new) /\ Spend("error") /\ meta.exists
        BY <2>2 DEF StatusFailed, StatusReplyLost
      <3>2. meta' = meta /\ CacheCurrent' /\ status' = new
        BY <2>2, WriteCurrent DEF StatusReplyLost
      <3> QED BY <2>2, <3>1, <3>2 DEF Return, Goto, TypeOK, WorkerTypeOK
    <2>3. CASE StatusRefused /\ Return(w) /\ UNCHANGED calls
      BY <2>3 DEF StatusRefused, claimVars, CacheCurrent, LifecycleInv, Return,
                  Goto, TypeOK, WorkerTypeOK
    <2> QED BY <1>1, <2>1, <2>2, <2>3 DEF SaveRegistered, new
  <1>6. PlaceInv(w)' /\ CopyInv(w)'
    BY <1>4, <1>5, Leaves
       DEF PlaceInv, CopyInv, Pending, Busy, Joining, Serving, Finalizing
  <1>7. CallsInv'
    <2>1. CASE status' = new /\ calls' = 0
      <3>1. budget'.crash <= MaxCrashes /\ budget'.error <= MaxErrors
        BY <1>5, SpentGrows, Numbers, NumbersNext DEF LifecycleInv, CallsInv
      <3>2. Spent' >= 0
        BY <3>1, Numbers, NumbersNext DEF Spent
      <3> QED BY <1>4, <2>1, <3>1, <3>2, NumbersNext DEF CallsInv
    <2>2. CASE status' = status /\ calls' = calls
      BY <1>2, <1>5, <2>2, SpentGrows, Numbers, NumbersNext, CallsKept
         DEF LifecycleInv
    <2> QED BY <1>5, <2>1, <2>2
  <1>8. LifecycleStep
    <2>1. CASE status' = status
      BY <1>5, <2>1, PhaseIs DEF LifecycleStep
    <2>2. CASE status' = new /\ meta.exists
      <3>1. PhaseOf(meta, status) = "launched" /\ PhaseOf(meta, new) = "registered"
        BY <1>1, <1>3, <1>4, <2>2, PhaseSound
      <3>2. Lifecycle!Register
        BY <1>4, <1>5, <2>2, <3>1, PhaseIs DEF Lifecycle!Register
      <3> QED BY <3>2 DEF LifecycleStep, Lifecycle!LifecycleNext
    <2> QED BY <1>5, <2>1, <2>2
  <1>9. Sound(status')
    BY <1>1, <1>4, <1>5
  <1> QED BY <1>4, <1>5, <1>6, <1>7, <1>8, <1>9
          DEF Keeps, LifecycleInv, LeaderElected

\* A registration that timed out: the machine is given up, and with it the claim
\* when its attempts are used up.  They are not zero, so counting a zero as one
\* changes nothing.
LEMMA StepTimeout ==
  ASSUME LeaderElected, ~StaleReads, TypeOK, TypeOK', LifecycleInv,
         NEW w \in Workers, SaveTimeout(w)
  PROVE  Keeps
  <1> DEFINE n == IF st[w].attempts = 0 THEN 1 ELSE st[w].attempts
  <1> DEFINE f == status.failed \/ n >= MaxLaunchAttempts
  <1> DEFINE new == [status EXCEPT !.providerID = FALSE, !.registered = "False",
                                   !.launched = "False", !.failed = f]
  <1>1. status \in Status /\ meta \in Meta /\ Sound(status) /\ Latest(w) = status
    BY LatestCurrent DEF TypeOK, ClaimTypeOK, LifecycleInv
  <1>2. /\ pc[w] = "timeout" /\ pc'[w] = "idle" /\ pc[w] \notin Busy
        /\ calls' = calls
    BY DEF SaveTimeout, Return, Goto, TypeOK, WorkerTypeOK, Busy
  <1>3. /\ status.providerID /\ ~status.nodeName
        /\ st[w].attempts = status.attempts
    BY <1>2 DEF LifecycleInv, PlaceInv, CopyInv, Joining
  <1>4. ~status.failed /\ status.attempts > 0 /\ status.attempts \in Nat
    BY <1>1, <1>3, Numbers DEF Sound
  <1>5. f \in BOOLEAN /\ (f <=> status.attempts >= MaxLaunchAttempts)
    <2>1. n = status.attempts
      BY <1>3, <1>4
    <2> QED BY <1>4, <2>1
  <1>6. StatusTried(w, new)
    BY <1>1 DEF SaveTimeout
  <1> HIDE DEF f, n
  <1>7. /\ new \in Status /\ Sound(new) /\ ~new.providerID /\ new.failed = f
        /\ new.attempts = status.attempts
    <2>1. /\ new \in Status
          /\ new.launched = "False" /\ new.registered = "False"
          /\ new.ready = status.ready /\ new.attempts = status.attempts
      BY <1>1, <1>5 DEF Status, Condition
    <2>2. ~new.providerID /\ new.nodeName = status.nodeName /\ new.failed = f
      BY <1>1, <1>5 DEF Status, Condition
    <2> HIDE DEF new
    <2> QED BY <1>1, <1>3, <1>5, <2>1, <2>2 DEF Sound
  <1> HIDE DEF new
  <1>8. /\ meta' = meta /\ CacheCurrent'
        /\ (status' = new /\ meta.exists) \/ status' = status
        /\ UNCHANGED budget \/ Spend("error")
    BY <1>6, TriedCurrent DEF LifecycleInv
  <1>9. CallsInv'
    BY <1>2, <1>7, <1>8, SpentGrows, Numbers, NumbersNext, CallsKept
       DEF LifecycleInv
  <1>10. LifecycleStep
    <2>1. CASE status' = status
      BY <1>8, <2>1, PhaseIs DEF LifecycleStep
    <2>2. CASE status' = new /\ meta.exists /\ f
      <3>1. PhaseOf(meta, status) = "launched" /\ PhaseOf(meta, new) = "failed"
        BY <1>1, <1>3, <1>7, <2>2, PhaseSound
      <3>2. Lifecycle!GiveUp
        BY <1>5, <1>7, <1>8, <2>2, <3>1, PhaseIs DEF Lifecycle!GiveUp
      <3> QED BY <3>2 DEF LifecycleStep, Lifecycle!LifecycleNext
    <2>3. CASE status' = new /\ meta.exists /\ ~f
      <3>1. PhaseOf(meta, status) = "launched" /\ PhaseOf(meta, new) = "pending"
        BY <1>1, <1>3, <1>7, <2>3, PhaseSound
      <3>2. status.attempts < MaxLaunchAttempts
        BY <1>5, <2>3, Numbers
      <3>3. Lifecycle!Timeout
        BY <1>7, <1>8, <2>3, <3>1, <3>2, PhaseIs DEF Lifecycle!Timeout
      <3> QED BY <3>3 DEF LifecycleStep, Lifecycle!LifecycleNext
    <2> QED BY <1>8, <2>1, <2>2, <2>3
  <1>11. Sound(status')
    BY <1>1, <1>7, <1>8
  <1> QED BY <1>2, <1>4, <1>8, <1>9, <1>10, <1>11, Leaves
          DEF Keeps, LifecycleInv, LeaderElected

\* A Node that became ready.
LEMMA StepReady ==
  ASSUME LeaderElected, ~StaleReads, TypeOK, TypeOK', LifecycleInv,
         NEW w \in Workers, SaveReady(w)
  PROVE  Keeps
  <1> DEFINE new == [status EXCEPT !.ready = "True"]
  <1>1. status \in Status /\ meta \in Meta /\ Sound(status) /\ Latest(w) = status
    BY LatestCurrent DEF TypeOK, ClaimTypeOK, LifecycleInv
  <1>2. /\ pc[w] = "init" /\ pc'[w] = "idle" /\ pc[w] \notin Busy
        /\ calls' = calls
    BY DEF SaveReady, Return, Goto, TypeOK, WorkerTypeOK, Busy
  <1>3. status.nodeName /\ ~status.failed
    BY <1>1, <1>2 DEF LifecycleInv, PlaceInv, Serving, Sound
  <1>4. /\ new \in Status /\ Sound(new) /\ new.ready = "True"
        /\ new.attempts = status.attempts
    BY <1>1, <1>3, ReadySound
  <1> HIDE DEF new
  <1>5. /\ meta' = meta /\ CacheCurrent'
        /\ (status' = new /\ meta.exists) \/ status' = status
        /\ UNCHANGED budget \/ Spend("error")
    BY <1>1, TriedCurrent DEF SaveReady, LifecycleInv, new
  <1>6. CallsInv'
    BY <1>2, <1>4, <1>5, SpentGrows, Numbers, NumbersNext, CallsKept
       DEF LifecycleInv
  <1>7. LifecycleStep
    <2>1. CASE status' = status
      BY <1>5, <2>1, PhaseIs DEF LifecycleStep
    <2>2. CASE status' = new /\ meta.exists
      <3>1. /\ PhaseOf(meta, status) \in {"registered", "ready"}
            /\ PhaseOf(meta, new) = "ready"
        BY <1>1, <1>3, <1>4, <2>2, PhaseSound
      <3>2. CASE PhaseOf(meta, status) = "ready"
        BY <1>4, <1>5, <2>2, <3>1, <3>2, PhaseIs DEF LifecycleStep
      <3>3. CASE PhaseOf(meta, status) = "registered"
        <4>1. Lifecycle!Initialize
          BY <1>4, <1>5, <2>2, <3>1, <3>3, PhaseIs DEF Lifecycle!Initialize
        <4> QED BY <4>1 DEF LifecycleStep, Lifecycle!LifecycleNext
      <3> QED BY <3>1, <3>2, <3>3
    <2> QED BY <1>5, <2>1, <2>2
  <1>8. Sound(status')
    BY <1>1, <1>4, <1>5
  <1> QED BY <1>2, <1>3, <1>5, <1>6, <1>7, <1>8, Leaves
          DEF Keeps, LifecycleInv, LeaderElected

\* A Node that was lost or stuck: the launches begin anew.
LEMMA StepRecycled ==
  ASSUME LeaderElected, ~StaleReads, TypeOK, TypeOK', LifecycleInv,
         NEW w \in Workers, SaveRecycle(w)
  PROVE  Keeps
  <1> DEFINE n == st[w].attempts + 1
  <1> DEFINE f == n >= MaxLaunchAttempts
  <1> DEFINE new == [status EXCEPT !.providerID = FALSE, !.nodeName = FALSE,
                                   !.attempts = n, !.launched = "False",
                                   !.registered = "False", !.ready = "False",
                                   !.failed = f]
  <1>1. status \in Status /\ meta \in Meta /\ Sound(status) /\ Latest(w) = status
    BY LatestCurrent DEF TypeOK, ClaimTypeOK, LifecycleInv
  <1>2. /\ pc[w] = "saveRecycle" /\ pc'[w] = "idle" /\ pc[w] \notin Busy
        /\ calls' = calls
    BY DEF SaveRecycle, Return, Goto, TypeOK, WorkerTypeOK, Busy
  <1>3. status.nodeName /\ st[w].attempts = status.attempts
    BY <1>2 DEF LifecycleInv, PlaceInv, CopyInv, Serving
  <1>4. ~status.failed /\ status.attempts = 0
    BY <1>1, <1>3 DEF Sound
  <1>5. /\ n = status.attempts + 1 /\ n = 1 /\ n \in Nat
        /\ f \in BOOLEAN /\ (f <=> n >= MaxLaunchAttempts)
    BY <1>3, <1>4
  <1>6. StatusTried(w, new)
    BY <1>1 DEF SaveRecycle
  <1> HIDE DEF f, n
  <1>7. /\ new \in Status /\ Sound(new) /\ ~new.providerID /\ new.failed = f
        /\ new.attempts = n
    <2>1. /\ new \in Status
          /\ new.launched = "False" /\ new.registered = "False"
          /\ new.ready = "False" /\ new.attempts = n
      BY <1>1, <1>5 DEF Status, Condition
    <2>2. ~new.providerID /\ ~new.nodeName /\ new.failed = f
      BY <1>1, <1>5 DEF Status, Condition
    <2> HIDE DEF new
    <2> QED BY <1>5, <2>1, <2>2, NodeClaimAssumption DEF Sound
  <1> HIDE DEF new
  <1>8. /\ meta' = meta /\ CacheCurrent'
        /\ (status' = new /\ meta.exists) \/ status' = status
        /\ UNCHANGED budget \/ Spend("error")
    BY <1>6, TriedCurrent DEF LifecycleInv
  <1>9. CallsInv'
    <2>1. status'.attempts + Spent' >= status.attempts + Spent
      BY <1>5, <1>7, <1>8, SpentGrows, Numbers, NumbersNext
    <2> QED BY <1>2, <1>8, <2>1, SpentGrows, CallsKept DEF LifecycleInv
  <1>10. LifecycleStep
    <2>1. CASE status' = status
      BY <1>8, <2>1, PhaseIs DEF LifecycleStep
    <2>2. CASE status' = new /\ meta.exists
      <3>1. /\ PhaseOf(meta, status) \in {"registered", "ready"}
            /\ f => PhaseOf(meta, new) = "failed"
            /\ ~f => PhaseOf(meta, new) = "pending"
        BY <1>1, <1>3, <1>7, <2>2, PhaseSound
      <3>2. n < MaxLaunchAttempts <=> ~f
        BY <1>5, Numbers
      <3>3. Lifecycle!Recycle
        BY <1>5, <1>7, <1>8, <2>2, <3>1, <3>2, PhaseIs DEF Lifecycle!Recycle
      <3> QED BY <3>3 DEF LifecycleStep, Lifecycle!LifecycleNext
    <2> QED BY <1>8, <2>1, <2>2
  <1>11. Sound(status')
    BY <1>1, <1>7, <1>8
  <1> QED BY <1>2, <1>4, <1>8, <1>9, <1>10, <1>11, Leaves
          DEF Keeps, LifecycleInv, LeaderElected

\* The other actions of a worker.
LEMMA WorkerKeeps ==
  ASSUME LeaderElected, ~StaleReads, TypeOK, TypeOK', LifecycleInv,
         NEW w \in Workers,
         Reconcile(w) \/ Heartbeat(w) \/ SyncClaim(w) \/ SyncNode(w) \/ Crash(w)
  PROVE  Keeps
  <1>1. /\ status \in Status /\ meta \in Meta
        /\ CacheCurrent /\ PlaceInv(w) /\ CopyInv(w)
        /\ Latest(w) = status /\ cache[w].meta = meta /\ fresh[w]
    BY LatestCurrent DEF TypeOK, ClaimTypeOK, LifecycleInv
  <1>2. CASE Reconcile(w)
    <2>1. /\ meta' = meta /\ status' = status /\ CacheCurrent'
          /\ UNCHANGED <<calls, budget>>
      BY <1>1, <1>2 DEF Reconcile, CacheCurrent
    <2>2. /\ pc[w] = "idle" /\ st'[w] = status
          /\ pc'[w] = Phase(meta, status) /\ pc'[w] # "idle"
      BY <1>1, <1>2 DEF Reconcile, Goto, TypeOK, WorkerTypeOK
    <2>3. PlaceInv(w)'
      BY <1>1, <2>1, <2>2
         DEF PlaceInv, Phase, PhaseAfterLaunch, Pending, Busy, Joining, Serving,
             Finalizing
    <2>4. CopyInv(w)'
      BY <2>1, <2>2 DEF CopyInv
    <2>5. CallsInv'
      BY <2>1, <2>2, SpentGrows, Numbers, NumbersNext, CallsKept
         DEF LifecycleInv, Busy
    <2> QED BY <2>1, <2>3, <2>4, <2>5, StatusKept
  <1>3. CASE Heartbeat(w)
    <2>1. /\ meta' = meta /\ status' = status /\ CacheCurrent'
          /\ UNCHANGED <<pc, st, calls, budget>>
      BY <1>1, <1>3, WriteCurrent DEF Heartbeat
    <2>2. PlaceInv(w)' /\ CopyInv(w)'
      BY <1>1, <2>1 DEF PlaceInv, CopyInv
    <2>3. CallsInv'
      BY <2>1, SpentGrows, Numbers, NumbersNext, CallsKept DEF LifecycleInv
    <2> QED BY <2>1, <2>2, <2>3, StatusKept
  <1>4. CASE SyncClaim(w)
    BY <1>1, <1>4 DEF SyncClaim
  <1>5. CASE SyncNode(w)
    <2>1. /\ meta' = meta /\ status' = status /\ CacheCurrent'
          /\ UNCHANGED <<pc, st, calls, budget>>
      BY <1>1, <1>5 DEF SyncNode, claimVars, CacheCurrent
    <2>2. PlaceInv(w)' /\ CopyInv(w)'
      BY <1>1, <2>1 DEF PlaceInv, CopyInv
    <2>3. CallsInv'
      BY <2>1, SpentGrows, Numbers, NumbersNext, CallsKept DEF LifecycleInv
    <2> QED BY <2>1, <2>2, <2>3, StatusKept
  <1>6. CASE Crash(w)
    <2>1. /\ meta' = meta /\ status' = status
          /\ calls' = calls /\ Spend("crash") /\ pc'[w] = "idle"
      BY <1>6 DEF Crash, Return, Goto, TypeOK, WorkerTypeOK
    <2>2. CacheCurrent'
      BY <1>6, <2>1 DEF Crash, CacheCurrent, LeaderElected, TypeOK, ClaimTypeOK
    <2>3. status'.attempts + Spent' > status.attempts + Spent
      BY <2>1, SpentCounts, Numbers DEF TypeOK
    <2>4. CallsInv'
      BY <2>1, <2>3, SpentGrows, Numbers, NumbersNext, CallsKept DEF LifecycleInv
    <2> QED BY <2>1, <2>2, <2>4, Leaves, StatusKept
  <1> QED BY <1>2, <1>3, <1>4, <1>5, <1>6

\* The steps of the cluster, and steps of other parts of the system.
LEMMA EnvironmentKeeps ==
  ASSUME LeaderElected, ~StaleReads, TypeOK, TypeOK', LifecycleInv,
         Environment \/ UNCHANGED vars
  PROVE  Keeps
  <1>1. status \in Status /\ meta \in Meta
    BY DEF TypeOK, ClaimTypeOK
  <1>2. UNCHANGED <<status, pc, st, calls>> /\ CacheCurrent'
    BY WriteCurrent
       DEF Environment, DeleteClaim, PoolRemoved, NodeJoins, NodeBecomesReady,
           NodeDegrades, NodeLost, NodeRemoved, vars, claimVars, LifecycleInv,
           CacheCurrent
  <1>3. UNCHANGED budget \/ Spend("join") \/ Spend("disruption")
    BY DEF Environment, DeleteClaim, PoolRemoved, NodeJoins, NodeBecomesReady,
           NodeDegrades, NodeLost, NodeRemoved, vars
  <1>4. CallsInv'
    <2>1. Spent' = Spent /\ budget'.crash = budget.crash /\ budget'.error = budget.error
      BY <1>3, SpentCounts DEF TypeOK
    <2> QED BY <1>2, <2>1 DEF LifecycleInv, CallsInv
  <1>5. CASE DeleteClaim
    <2>1. /\ meta.exists /\ ~meta.deleting
          /\ meta' = [meta EXCEPT !.deleting = TRUE, !.exists = meta.finalizer]
      BY <1>5 DEF DeleteClaim, WriteClaim
    <2>2. meta'.deleting = TRUE /\ meta'.exists = meta.finalizer
      BY <1>1, <2>1 DEF Meta
    <2>3. \A w \in Workers : PlaceInv(w)' /\ CopyInv(w)'
      BY <1>2, <2>2 DEF LifecycleInv, PlaceInv, CopyInv
    <2>4. Lifecycle!Delete
      <3>1. PhaseOf(meta, status) # "gone"
        BY <2>1 DEF PhaseOf
      <3>2. PhaseOf(meta', status') \in {PhaseOf(meta, status), "gone"}
        BY <1>1, <1>2, <2>1, <2>2 DEF PhaseOf, Meta
      <3> QED BY <1>2, <2>1, <2>2, <3>1, <3>2, PhaseIs DEF Lifecycle!Delete
    <2>5. LifecycleStep
      BY <2>4 DEF LifecycleStep, Lifecycle!LifecycleNext
    <2> QED BY <1>2, <1>4, <2>3, <2>5 DEF Keeps, LifecycleInv
  <1>6. CASE ~DeleteClaim
    <2>1. meta' = meta
      BY <1>6 DEF Environment, PoolRemoved, NodeJoins, NodeBecomesReady,
                  NodeDegrades, NodeLost, NodeRemoved, vars, claimVars
    <2>2. \A w \in Workers : PlaceInv(w)' /\ CopyInv(w)'
      BY <1>2, <2>1 DEF LifecycleInv, PlaceInv, CopyInv
    <2>3. LifecycleStep
      BY <1>2, <2>1, PhaseIs DEF LifecycleStep
    <2> QED BY <1>2, <1>4, <2>2, <2>3 DEF Keeps, LifecycleInv
  <1> QED BY <1>5, <1>6

\* Every step of a lone worker's system keeps the invariant and the lifecycle.
LEMMA NextKeeps ==
  ASSUME LeaderElected, ~StaleReads, TypeOK, TypeOK', LifecycleInv, FinalizerInv,
         [Next]_vars
  PROVE  Keeps
  <1>1. ASSUME NEW w \in Workers, Step(w)
        PROVE  Keeps
    BY <1>1, StepWithoutWrite, StepOfLease, StepOfFinalizer, StepNotLaunched,
       StepLaunched, StepLaunchError, StepRegistered, StepTimeout, StepReady,
       StepRecycled
       DEF Step
  <1> QED BY <1>1, WorkerKeeps, EnvironmentKeeps DEF Next

\* The initial states satisfy the invariant.
LEMMA InitLifecycle == Init => LifecycleInv /\ FinalizerInv
  <1>1. SUFFICES ASSUME Init PROVE LifecycleInv /\ FinalizerInv
    OBVIOUS
  <1>2. FinalizerInv
    BY <1>1 DEF Init, FinalizerInv, NewMeta, LaunchingPC
  <1>3. CacheCurrent
    BY <1>1 DEF Init, CacheCurrent
  <1>4. Sound(status)
    BY <1>1, NodeClaimAssumption DEF Init, NewStatus, Sound
  <1>5. \A w \in Workers : PlaceInv(w) /\ CopyInv(w)
    BY <1>1 DEF Init, PlaceInv, CopyInv, Pending, Busy, Joining, Serving, Finalizing
  <1>6. CallsInv
    BY <1>1, NodeClaimAssumption DEF Init, CallsInv, Spent, NewStatus
  <1> QED BY <1>2, <1>3, <1>4, <1>5, <1>6 DEF LifecycleInv

\* So the invariant holds in every state.
LEMMA LifecycleHolds ==
  ASSUME LeaderElected, ~StaleReads
  PROVE  Spec => [](TypeOK /\ LifecycleInv /\ FinalizerInv)
  <1>1. TypeOK /\ TypeOK' /\ LifecycleInv /\ FinalizerInv /\ [Next]_vars
          => LifecycleInv' /\ FinalizerInv'
    BY NextKeeps, NextFinalizer DEF Keeps
  <1> QED BY <1>1, InitLifecycle, TypeCorrect, PTL DEF Spec

-----------------------------------------------------------------------------
(* The theorems *)

\* With one process and current caches, the status of a claim never records a
\* later phase of the lifecycle without the earlier ones, whatever crashes and
\* fails between two writes.
THEOREM Order ==
  ASSUME LeaderElected, ~StaleReads
  PROVE  Spec => []LifecycleOrder
  <1>1. LifecycleInv => LifecycleOrder
    BY DEF LifecycleInv, Sound, LifecycleOrder
  <1> QED BY <1>1, LifecycleHolds, PTL

\* Under the same conditions a claim that was given up stays so, and has used
\* its attempts: SaveRegistered, which writes failed = FALSE, never meets one.
THEOREM GivenUp ==
  ASSUME LeaderElected, ~StaleReads
  PROVE  Spec => FailedIsFinal
  <1>1. TypeOK /\ LifecycleInv /\ FinalizerInv /\ TypeOK' /\ [Next]_vars
          => [status.failed => /\ status'.failed
                               /\ status.attempts >= MaxLaunchAttempts]_vars
    BY NextKeeps DEF Keeps, LifecycleInv, Sound
  <1> QED BY <1>1, LifecycleHolds, PTL DEF Spec, FailedIsFinal

\* Under the same conditions ProvisionMachine is called at most
\* maxLaunchAttempts times between two registrations, and once more for each
\* crash and each failed request: the only launches that go uncounted.
THEOREM Launches ==
  ASSUME LeaderElected, ~StaleReads
  PROVE  Spec => []LaunchesBounded
  <1>1. TypeOK /\ LifecycleInv => LaunchesBounded
    <2>1. SUFFICES ASSUME TypeOK, LifecycleInv PROVE LaunchesBounded
      OBVIOUS
    <2>2. status.attempts <= MaxLaunchAttempts
      BY <2>1 DEF LifecycleInv, Sound
    <2>3. CASE \A w \in Workers : pc[w] \notin Busy
      <3>1. calls <= status.attempts + Spent
        BY <2>1, <2>3 DEF LifecycleInv, CallsInv
      <3>2. calls <= MaxLaunchAttempts + Spent
        BY <2>1, <2>2, <3>1, Numbers
      <3> QED BY <2>1, <3>2, Numbers DEF LaunchesBounded, Spent
    <2>4. CASE \E w \in Workers : pc[w] \in Busy
      <3>1. status.attempts < MaxLaunchAttempts
        BY <2>1, <2>4 DEF LifecycleInv, PlaceInv
      <3>2. calls <= status.attempts + Spent + 1
        BY <2>1 DEF LifecycleInv, CallsInv
      <3>3. calls <= MaxLaunchAttempts + Spent
        BY <2>1, <3>1, <3>2, Numbers
      <3> QED BY <2>1, <3>3, Numbers DEF LaunchesBounded, Spent
    <2> QED BY <2>3, <2>4
  <1> QED BY <1>1, LifecycleHolds, PTL

\* Under the same conditions NodeClaim implements ClaimLifecycle: a new claim is
\* pending, and every step of the controller, its crashes and its environment is
\* a step of the lifecycle or does not show in it.
THEOREM Implements ==
  ASSUME LeaderElected, ~StaleReads
  PROVE  Spec => ImplementsLifecycle
  <1>1. Init => Lifecycle!LifecycleInit
    <2>1. SUFFICES ASSUME Init PROVE Lifecycle!LifecycleInit
      OBVIOUS
    <2>2. /\ meta.exists = TRUE /\ meta.deleting = FALSE /\ status.attempts = 0
          /\ status.ready = "Unset"
      BY <2>1 DEF Init, NewMeta, NewStatus
    <2>3. ~status.failed /\ ~status.nodeName /\ ~status.providerID
      BY <2>1 DEF Init, NewStatus
    <2>4. LifecyclePhase = "pending"
      BY <2>2, <2>3 DEF LifecyclePhase
    <2> QED BY <2>2, <2>4 DEF Lifecycle!LifecycleInit
  <1>2. TypeOK /\ LifecycleInv /\ FinalizerInv /\ TypeOK' /\ [Next]_vars
          => [Lifecycle!LifecycleNext]_(Lifecycle!lifecycleVars)
    BY NextKeeps DEF Keeps, LifecycleStep, Lifecycle!lifecycleVars
  <1> QED BY <1>1, <1>2, LifecycleHolds, PTL
          DEF Spec, ImplementsLifecycle, Lifecycle!LifecycleSpec

-----------------------------------------------------------------------------
(* What finalize leaves behind *)

\* OrphansExplained is about the moment the finalizer goes.  A reconcile that
\* may still drop it has finalized the claim as it is: the copy it works with is
\* the current one, and once it has passed the machine there is none left, unless
\* a request failed, the pool is gone or the claim did not know the machine.
OrphanInv ==
  /\ \A w \in Workers :
       /\ fresh[w] => cache[w] = [meta |-> meta, status |-> status]
       /\ pc[w] \in Finalizing /\ rv[w] =>
            /\ st[w].providerID = status.providerID
            /\ st[w].nodeName = status.nodeName
       /\ /\ pc[w] = "removeFinalizer" /\ rv[w]
          /\ budget.error = MaxErrors /\ pool
          /\ status.providerID /\ status.nodeName
          => vms = {}
  /\ meta.exists /\ ~meta.finalizer => vms = {}
  /\ budget.error <= MaxErrors
  /\ OrphansExplained

\* A step writes the claim, which exists then, or leaves it and all copies alone.
LEMMA StepWrites ==
  ASSUME TypeOK, NEW w \in Workers, Step(w)
  PROVE  \/ UNCHANGED claimVars
         \/ meta.exists /\ \E m, s : WriteClaim(m, s)
  <1> USE DEF StatusUpdated, StatusFailed, StatusTried, StatusRefused,
              StatusReplyLost
  <1>1. CASE \/ AddFinalizer(w) \/ RemoveFinalizer(w)
    BY <1>1 DEF AddFinalizer, RemoveFinalizer
  <1>2. CASE \/ ClearExpiredLease(w) \/ AcquireLease(w) \/ ReleaseLease(w)
    BY <1>2 DEF ClearExpiredLease, AcquireLease, ReleaseLease
  <1>3. CASE \/ FailLaunch(w) \/ ProviderUnavailable(w) \/ SaveLaunchError(w)
    BY <1>3 DEF FailLaunch, ProviderUnavailable, SaveLaunchError
  <1>4. CASE \/ SaveLaunched(w) \/ SaveRegistered(w)
    BY <1>4 DEF SaveLaunched, SaveRegistered
  <1>5. CASE \/ SaveTimeout(w) \/ SaveReady(w) \/ SaveRecycle(w)
    BY <1>5 DEF SaveTimeout, SaveReady, SaveRecycle
  <1>6. CASE \/ AwaitOldNode(w) \/ StartProvisioning(w) \/ FindExistingVM(w)
             \/ CreateNewVM(w) \/ LabelNode(w) \/ AwaitNode(w)
             \/ RegistrationTimeout(w) \/ AwaitReady(w) \/ RecycleStuckNode(w)
             \/ RecycleLostNode(w) \/ RecycleMachine(w) \/ FinalizeNode(w)
             \/ FinalizeMachine(w)
    BY <1>6 DEF AwaitOldNode, StartProvisioning, FindExistingVM, CreateNewVM,
                LabelNode, AwaitNode, RegistrationTimeout, AwaitReady,
                RecycleStuckNode, RecycleLostNode, RecycleMachine, FinalizeNode,
                FinalizeMachine
  <1> QED BY <1>1, <1>2, <1>3, <1>4, <1>5, <1>6 DEF Step

\* A worker finalizes with the copy it began with, and passes the machine before
\* it comes to the finalizer.
LEMMA StepFinalizing ==
  ASSUME TypeOK, NEW w \in Workers, Step(w), pc'[w] \in Finalizing
  PROVE  /\ pc[w] \in Finalizing /\ st'[w] = st[w] /\ UNCHANGED claimVars
         /\ pc'[w] = "removeFinalizer" => FinalizeMachine(w)
  <1> USE DEF TypeOK, WorkerTypeOK, Goto, Return, PhaseAfterLaunch, Finalizing
  <1>1. CASE \/ AddFinalizer(w) \/ ClearExpiredLease(w) \/ AcquireLease(w)
             \/ FailLaunch(w)
    BY <1>1 DEF AddFinalizer, ClearExpiredLease, AcquireLease, FailLaunch
  <1>2. CASE \/ AwaitOldNode(w) \/ ProviderUnavailable(w)
             \/ StartProvisioning(w) \/ FindExistingVM(w) \/ CreateNewVM(w)
    BY <1>2 DEF AwaitOldNode, ProviderUnavailable, StartProvisioning,
                FindExistingVM, CreateNewVM
  <1>3. CASE \/ SaveLaunchError(w) \/ SaveLaunched(w) \/ ReleaseLease(w)
    BY <1>3 DEF SaveLaunchError, SaveLaunched, ReleaseLease
  <1>4. CASE \/ LabelNode(w) \/ SaveRegistered(w) \/ AwaitNode(w)
             \/ RegistrationTimeout(w) \/ SaveTimeout(w)
    BY <1>4 DEF LabelNode, SaveRegistered, AwaitNode, RegistrationTimeout,
                SaveTimeout
  <1>5. CASE \/ SaveReady(w) \/ AwaitReady(w) \/ RecycleStuckNode(w)
             \/ RecycleLostNode(w) \/ RecycleMachine(w)
    BY <1>5 DEF SaveReady, AwaitReady, RecycleStuckNode, RecycleLostNode,
                RecycleMachine
  <1>6. CASE \/ SaveRecycle(w) \/ RemoveFinalizer(w)
    BY <1>6 DEF SaveRecycle, RemoveFinalizer
  <1>7. CASE \/ FinalizeNode(w) \/ FinalizeMachine(w)
    BY <1>7 DEF FinalizeNode, FinalizeMachine
  <1> QED BY <1>1, <1>2, <1>3, <1>4, <1>5, <1>6, <1>7 DEF Step

\* What a step of a worker takes from the budget, and that it keeps the pool.
LEMMA StepSpends ==
  ASSUME NEW w \in Workers, Step(w)
  PROVE  (UNCHANGED budget \/ Spend("error")) /\ pool' = pool
  <1> USE DEF StatusFailed, StatusTried, StatusRefused, StatusReplyLost
  <1>1. CASE \/ AddFinalizer(w) \/ RemoveFinalizer(w) \/ ClearExpiredLease(w)
             \/ AcquireLease(w) \/ ReleaseLease(w)
    BY <1>1 DEF AddFinalizer, RemoveFinalizer, ClearExpiredLease, AcquireLease,
                ReleaseLease
  <1>2. CASE \/ FailLaunch(w) \/ ProviderUnavailable(w) \/ SaveLaunchError(w)
             \/ SaveLaunched(w) \/ SaveRegistered(w)
    BY <1>2 DEF FailLaunch, ProviderUnavailable, SaveLaunchError, SaveLaunched,
                SaveRegistered
  <1>3. CASE \/ SaveTimeout(w) \/ SaveReady(w) \/ SaveRecycle(w)
    BY <1>3 DEF SaveTimeout, SaveReady, SaveRecycle
  <1>4. CASE \/ AwaitOldNode(w) \/ StartProvisioning(w) \/ FindExistingVM(w)
             \/ CreateNewVM(w) \/ LabelNode(w) \/ AwaitNode(w)
             \/ RegistrationTimeout(w) \/ AwaitReady(w) \/ RecycleStuckNode(w)
             \/ RecycleLostNode(w) \/ RecycleMachine(w) \/ FinalizeNode(w)
             \/ FinalizeMachine(w)
    BY <1>4 DEF AwaitOldNode, StartProvisioning, FindExistingVM, CreateNewVM,
                LabelNode, AwaitNode, RegistrationTimeout, AwaitReady,
                RecycleStuckNode, RecycleLostNode, RecycleMachine, FinalizeNode,
                FinalizeMachine, Deprovision
  <1> QED BY <1>1, <1>2, <1>3, <1>4 DEF Step

\* A failed request shows for good.
LEMMA ErrorsShow ==
  ASSUME TypeOK, budget.error <= MaxErrors,
         \/ UNCHANGED budget \/ Spend("error") \/ Spend("crash")
         \/ Spend("join") \/ Spend("disruption")
  PROVE  /\ budget'.error <= MaxErrors
         /\ budget'.error = MaxErrors => budget.error = MaxErrors /\ ~Spend("error")
  <1>1. /\ budget \in [Fault -> Nat] /\ MaxErrors \in Nat
        /\ {"join", "disruption", "error", "crash"} \subseteq Fault
    BY NodeClaimAssumption DEF TypeOK, Fault
  <1> QED BY <1>1 DEF Spend

\* A write makes every version held elsewhere an old one.
LEMMA WriteMakesOld ==
  ASSUME NEW m, NEW s, WriteClaim(m, s), NEW w \in Workers
  PROVE  /\ ~rv'[w]
         /\ fresh'[w] => cache'[w] = [meta |-> meta', status |-> status']
  BY DEF WriteClaim

\* Once finalize has passed the machine of the claim there is none left, unless
\* the request failed or could not be sent.
LEMMA FinalizedMachine ==
  ASSUME ~HostsMaySkip, TypeOK, MachineInv, NEW w \in Workers, FinalizeMachine(w),
         ~Spend("error"), pool, st[w].providerID, st[w].nodeName
  PROVE  vms' = {}
  <1>1. Deprovision(st[w].nodeName)
    BY DEF FinalizeMachine
  <1>2. \E found \in Visible :
          \/ found = {} /\ UNCHANGED proxmoxVars
          \/ \E id \in found : DeleteVM(id)
    BY <1>1 DEF Deprovision
  <1>3. Visible = {vms}
    BY DEF Visible
  <1>4. CASE vms = {} /\ UNCHANGED proxmoxVars
    BY <1>4 DEF proxmoxVars
  <1>5. CASE \E id \in vms : DeleteVM(id)
    BY <1>5 DEF DeleteVM, MachineInv, AtMostOneMachine
  <1> QED BY <1>2, <1>3, <1>4, <1>5

\* Every step of a lone worker that reaches all hosts preserves the invariant.
LEMMA NextOrphans ==
  ASSUME LeaderElected, ~HostsMaySkip, TypeOK, MachineInv, FinalizerInv, OrphanInv,
         [Next]_vars
  PROVE  OrphanInv'
  <1>1. ASSUME NEW w \in Workers, Step(w)
        PROVE  OrphanInv'
    <2>1. /\ pool' = pool
          /\ budget'.error <= MaxErrors
          /\ budget'.error = MaxErrors => budget.error = MaxErrors /\ ~Spend("error")
      BY <1>1, StepSpends, ErrorsShow DEF OrphanInv
    <2>2. \/ vms' \subseteq vms
          \/ CreateNewVM(w) /\ meta.exists /\ meta.finalizer
      <3>1. CASE FindExistingVM(w)
        BY <3>1 DEF FindExistingVM, ReuseVM, proxmoxVars
      <3>2. CASE CreateNewVM(w)
        BY <3>2 DEF CreateNewVM, FinalizerInv, LaunchingPC
      <3> QED BY <1>1, <3>1, <3>2, StepMachines
    <2>3. /\ fresh'[w] => cache'[w] = [meta |-> meta', status |-> status']
          /\ pc'[w] \in Finalizing /\ rv'[w] =>
               /\ st'[w].providerID = status'.providerID
               /\ st'[w].nodeName = status'.nodeName
      <3>1. CASE UNCHANGED claimVars
        BY <1>1, <3>1, StepFinalizing DEF OrphanInv, claimVars
      <3>2. CASE \E m, s : WriteClaim(m, s)
        BY <3>2, WriteMakesOld
      <3> QED BY <1>1, <3>1, <3>2, StepWrites
    <2>4. ASSUME pc'[w] = "removeFinalizer", rv'[w], budget'.error = MaxErrors,
                 pool', status'.providerID, status'.nodeName
          PROVE  vms' = {}
      <3>1. FinalizeMachine(w) /\ pc[w] \in Finalizing /\ UNCHANGED claimVars
        BY <1>1, <2>4, StepFinalizing DEF Finalizing
      <3>2. st[w].providerID /\ st[w].nodeName
        BY <2>4, <3>1 DEF OrphanInv, claimVars
      <3> QED BY <2>1, <2>4, <3>1, <3>2, FinalizedMachine
    <2>5. CASE AddFinalizer(w)
      <3>1. vms' = vms /\ status' = status /\ UNCHANGED pool
        BY <2>5 DEF AddFinalizer, proxmoxVars, WriteClaim, claimVars
      <3>2. meta' = meta \/ (meta.exists /\ meta'.exists /\ meta'.finalizer)
        BY <2>5 DEF AddFinalizer, WriteClaim, claimVars, TypeOK, ClaimTypeOK, Meta
      <3>3. meta'.exists /\ ~meta'.finalizer => vms' = {}
        BY <3>1, <3>2 DEF OrphanInv
      <3>4. OrphansExplained'
        BY <2>1, <3>1, <3>2 DEF OrphanInv, OrphansExplained
      <3> QED BY <2>1, <2>3, <2>4, <3>3, <3>4 DEF OrphanInv, LeaderElected
    <2>6. CASE RemoveFinalizer(w)
      <3>1. vms' = vms /\ status' = status /\ UNCHANGED pool
        BY <2>6 DEF RemoveFinalizer, proxmoxVars, WriteClaim, claimVars
      <3>2. \/ meta' = meta
            \/ pc[w] = "removeFinalizer" /\ rv[w] /\ ~meta'.exists
        BY <2>6 DEF RemoveFinalizer, WriteClaim, claimVars, TypeOK, ClaimTypeOK, Meta
      <3>3. meta'.exists /\ ~meta'.finalizer => vms' = {}
        BY <3>1, <3>2 DEF OrphanInv
      <3>4. OrphansExplained'
        BY <2>1, <3>1, <3>2 DEF OrphanInv, OrphansExplained
      <3> QED BY <2>1, <2>3, <2>4, <3>3, <3>4 DEF OrphanInv, LeaderElected
    <2>7. CASE ~AddFinalizer(w) /\ ~RemoveFinalizer(w)
      <3>1. meta' = meta
        BY <1>1, <2>7, StepKeepsMeta
      <3>2. meta'.exists /\ ~meta'.finalizer => vms' = {}
        BY <2>2, <3>1 DEF OrphanInv
      <3>3. OrphansExplained'
        <4>1. CASE meta.exists
          BY <3>1, <4>1 DEF OrphansExplained
        <4>2. CASE ~meta.exists
          <5>1. status' = status
            BY <1>1, <4>2, StepWrites DEF claimVars
          <5> QED BY <2>1, <2>2, <3>1, <4>2, <5>1 DEF OrphanInv, OrphansExplained
        <4> QED BY <4>1, <4>2
      <3> QED BY <2>1, <2>3, <2>4, <3>2, <3>3 DEF OrphanInv, LeaderElected
    <2> QED BY <2>5, <2>6, <2>7
  <1>2. ASSUME NEW w \in Workers,
               Reconcile(w) \/ Heartbeat(w) \/ SyncClaim(w) \/ SyncNode(w) \/ Crash(w)
        PROVE  OrphanInv'
    <2>1. /\ UNCHANGED <<vms, pool>>
          /\ meta' = meta
          /\ UNCHANGED budget \/ Spend("crash")
      BY <1>2 DEF Reconcile, Heartbeat, SyncClaim, SyncNode, Crash, proxmoxVars,
                  WriteClaim, claimVars
    <2>2. /\ budget'.error <= MaxErrors
          /\ budget'.error = MaxErrors => budget.error = MaxErrors
      BY <2>1, ErrorsShow DEF OrphanInv
    <2>3. status' = status \/ meta.exists
      BY <1>2 DEF Reconcile, Heartbeat, SyncClaim, SyncNode, Crash, claimVars
    <2>4. OrphansExplained'
      BY <2>1, <2>2, <2>3 DEF OrphanInv, OrphansExplained
    <2>5. CASE Reconcile(w)
      <3>1. UNCHANGED <<meta, status, cache, fresh>>
        BY <2>5 DEF Reconcile
      <3>2. st'[w] = cache[w].status /\ pc'[w] # "removeFinalizer"
        BY <2>5 DEF Reconcile, Goto, Latest, Phase, PhaseAfterLaunch, TypeOK,
                    WorkerTypeOK
      <3>3. rv'[w] => st'[w] = status
        <4>1. rv'[w] => fresh[w]
          BY <2>5 DEF Reconcile, TypeOK, ClaimTypeOK
        <4>2. fresh[w] => cache[w].status = status
          BY DEF OrphanInv
        <4> QED BY <3>2, <4>1, <4>2
      <3> QED BY <2>1, <2>2, <2>4, <3>1, <3>2, <3>3 DEF OrphanInv, LeaderElected
    <2>6. CASE Heartbeat(w)
      <3>1. WriteClaim(meta, Latest(w))
        BY <2>6 DEF Heartbeat
      <3> QED BY <2>1, <2>2, <2>4, <3>1, WriteMakesOld DEF OrphanInv
    <2>7. CASE SyncClaim(w)
      BY <2>1, <2>2, <2>4, <2>7
         DEF SyncClaim, OrphanInv, LeaderElected, TypeOK, ClaimTypeOK
    <2>8. CASE SyncNode(w)
      BY <2>1, <2>2, <2>4, <2>8 DEF SyncNode, claimVars, OrphanInv
    <2>9. CASE Crash(w)
      <3>1. /\ cache'[w] = [meta |-> meta', status |-> status']
            /\ pc'[w] = "idle"
        BY <2>9 DEF Crash, Return, Goto, TypeOK, WorkerTypeOK, ClaimTypeOK
      <3> QED BY <2>1, <2>2, <2>4, <3>1 DEF OrphanInv, LeaderElected, Finalizing
    <2> QED BY <1>2, <2>5, <2>6, <2>7, <2>8, <2>9
  <1>3. CASE Environment \/ UNCHANGED vars
    <2>1. /\ UNCHANGED <<vms, status, pc, st>> /\ (pool' => pool)
          /\ UNCHANGED budget \/ Spend("join") \/ Spend("disruption")
      BY <1>3 DEF Environment, DeleteClaim, PoolRemoved, NodeJoins,
                  NodeBecomesReady, NodeDegrades, NodeLost, NodeRemoved, vars,
                  claimVars, proxmoxVars, WriteClaim
    <2>2. /\ budget'.error <= MaxErrors
          /\ budget'.error = MaxErrors => budget.error = MaxErrors
      BY <2>1, ErrorsShow DEF OrphanInv
    <2>3. CASE DeleteClaim
      <3>1. /\ meta'.finalizer = meta.finalizer /\ meta'.exists = meta.finalizer
            /\ meta.exists
        <4>1. /\ meta \in Meta /\ meta.exists
              /\ meta' = [meta EXCEPT !.deleting = TRUE, !.exists = meta.finalizer]
          BY <2>3 DEF DeleteClaim, WriteClaim, TypeOK, ClaimTypeOK
        <4> QED BY <4>1 DEF Meta
      <3>2. \A w \in Workers :
              /\ ~rv'[w]
              /\ fresh'[w] => cache'[w] = [meta |-> meta', status |-> status']
        BY <2>3, WriteMakesOld DEF DeleteClaim
      <3>3. meta'.exists \/ vms' = {}
        BY <2>1, <3>1 DEF OrphanInv
      <3> QED BY <2>1, <2>2, <3>1, <3>2, <3>3 DEF OrphanInv, OrphansExplained
    <2>4. CASE ~DeleteClaim
      <3>1. UNCHANGED claimVars
        BY <1>3, <2>4 DEF Environment, PoolRemoved, NodeJoins, NodeBecomesReady,
                          NodeDegrades, NodeLost, NodeRemoved, vars
      <3> QED BY <2>1, <2>2, <3>1 DEF claimVars, OrphanInv, OrphansExplained
    <2> QED BY <2>3, <2>4
  <1> QED BY <1>1, <1>2, <1>3 DEF Next

\* With one process and hosts that all answer, however old its cache is: as long
\* as no request failed, a VM outlives its claim only if the pool was gone or the
\* claim did not record the machine and its Node.  The resourceVersion of the
\* last update is what makes finalize decide on the claim as it is.
THEOREM Orphans ==
  ASSUME LeaderElected, ~HostsMaySkip
  PROVE  Spec => []OrphansExplained
  <1>1. Init => MachineInv /\ FinalizerInv /\ OrphanInv
    <2>1. SUFFICES ASSUME Init PROVE MachineInv /\ FinalizerInv /\ OrphanInv
      OBVIOUS
    <2>2. MachineInv
      BY <2>1 DEF Init, ProxmoxInit, MachineInv, AtMostOneMachine
    <2>3. FinalizerInv
      BY <2>1, InitLifecycle
    <2>4. vms = {} /\ budget.error <= MaxErrors
      BY <2>1, NodeClaimAssumption DEF Init, ProxmoxInit
    <2> QED BY <2>1, <2>2, <2>3, <2>4
            DEF Init, OrphanInv, OrphansExplained, Finalizing
  <1>2. TypeOK /\ MachineInv /\ FinalizerInv /\ OrphanInv /\ [Next]_vars
          => MachineInv' /\ FinalizerInv' /\ OrphanInv'
    BY NextMachines, NextFinalizer, NextOrphans
  <1>3. OrphanInv => OrphansExplained
    BY DEF OrphanInv
  <1> QED BY <1>1, <1>2, <1>3, TypeCorrect, PTL DEF Spec
=============================================================================
