------------------------- MODULE ControlPlaneProofs -------------------------
(***************************************************************************)
(* No wake-up is lost, proved of ControlPlane for any number of control    *)
(* planes, pools and providers and any number of edits, faults and crashes.*)
(***************************************************************************)
EXTENDS ControlPlane, DataInduction, TLAPS

-----------------------------------------------------------------------------
(* The inductive invariant *)

\* The types, and what the provers need with them: the bounds only shrink, and a
\* reconcile under way has a control plane and a place in its list.
TypeInv ==
  /\ TypeOK
  /\ budget.edit <= MaxEdits /\ budget.secret <= MaxSecretEdits
  /\ run.next > 0
  /\ pc # "idle" => run.plane \in Planes
  /\ pc = "build" => run.ref \in Providers /\ run.next <= Len(run.pools)

\* The copies of provider a that are around: the object, the cached one, and the
\* one a reconcile has read and not built yet.
Copy(a, x) ==
  \/ x = providers[a]
  \/ x = seen.providers[a]
  \/ pc = "build" /\ run.ref = a /\ x = run.provider

\* A resourceVersion stands for one state of the object, and what has been built
\* was valid, and, as long as the Secret has not been touched, so was the Secret.
VersionInv ==
  \A a \in Providers :
    /\ built[a] < NextVersion
    /\ \A x, y \in Provider :
         /\ Copy(a, x) => x.version < NextVersion
         /\ Copy(a, x) /\ x.config # "absent" => x.version > 0
         /\ Copy(a, x) /\ Copy(a, y) /\ x.version = y.version => x = y
         /\ Copy(a, x) /\ x.config # "absent" /\ built[a] = x.version =>
              /\ x.config = "valid"
              /\ budget.secret = MaxSecretEdits => secret

\* A control plane that has changed since the informer saw it never becomes what
\* the informer saw again, and one that does not exist lists no pools.
PlaneInv ==
  \A c \in Planes :
    /\ ~planes[c].exists => planes[c].pools = <<>>
    /\ ~seen.planes[c].exists => seen.planes[c].pools = <<>>
    /\ planes[c].uid < NextVersion /\ seen.planes[c].uid < NextVersion
    /\ planes[c].exists /\ planes[c].uid = seen.planes[c].uid =>
         seen.planes[c].gen <= planes[c].gen

\* What keeps pool p from resolving, as the caches are now.
SeenProblem(p) ==
  LET obj == seen.providers[seen.pools[p]] IN
  CASE seen.pools[p] = Absent -> "PoolMissing"
    [] seen.pools[p] = NoRef  -> "ProviderRefMissing"
    [] seen.pools[p] \in Providers ->
         CASE obj.config = "absent" -> "ProviderMissing"
           [] obj.config = "blank"  -> "ProviderTypeMissing"
           [] obj.config = "valid" /\ secret -> "PoolsResolved"
           [] OTHER -> "ProviderInitializationFailed"

SeenExpected(list) ==
  LET bad == {i \in DOMAIN list : SeenProblem(list[i]) # "PoolsResolved"} IN
  IF bad = {} THEN "PoolsResolved" ELSE SeenProblem(list[Min(bad)])

\* An event is pending of the control plane or of what its verdict rests on.
Touched(c) ==
  \/ c \in notify
  \/ \E p \in Range(seen.planes[c].pools) :
       p \in notify \/ seen.pools[p] \in notify \cap Providers

Woken(c) == c \in queue \/ Touched(c)

\* The status is the verdict on what the caches hold.
VerdictSaved(c) ==
  LET status == planes[c].status IN
  /\ status.observed = planes[c].gen
  /\ status.reason = SeenExpected(planes[c].pools)
  /\ status.reason = "PoolsResolved" => status.pools = planes[c].pools

\* The reconcile of c is on its way to that verdict.
VerdictComing(c) ==
  /\ seen.planes[c].exists
  /\ run.gen = seen.planes[c].gen /\ run.pools = seen.planes[c].pools
  /\ pc \in {"pool", "build"} =>
       \A i \in DOMAIN run.pools :
         i < run.next => SeenProblem(run.pools[i]) = "PoolsResolved"
  /\ pc = "build" =>
       /\ run.ref = seen.pools[run.pools[run.next]]
       /\ run.provider = seen.providers[run.ref]
       /\ run.provider.config \in {"valid", "invalid"}
  /\ pc = "save" => run.reason = SeenExpected(run.pools)

\* The status of c is the verdict, unless the informer has a change of c to
\* deliver, or a reconcile is on its way to it.
Settled(c) ==
  /\ (pc = "idle" \/ run.plane # c) /\ seen.planes[c].exists
       /\ seen.planes[c] = planes[c] => VerdictSaved(c)
  /\ pc # "idle" /\ run.plane = c => VerdictComing(c)

\* A control plane that nothing will wake has its verdict, or is getting it.
WakeInv == \A c \in Planes : ~Woken(c) => Settled(c)

ControlInv ==
  /\ TypeInv
  /\ VersionInv
  /\ PlaneInv
  /\ budget.secret = MaxSecretEdits => WakeInv

-----------------------------------------------------------------------------
(* Types *)

\* The constant records have their types.
LEMMA ConstantTypes ==
  NoStatus \in Status /\ NoPlane \in Plane /\ NoProvider \in Provider /\ NoRun \in Run
  <1>1. <<>> \in PoolLists
    BY ControlPlaneAssumption
  <1>2. NoStatus \in Status
    BY <1>1 DEF NoStatus, Status, Reasons
  <1>3. NoProvider \in Provider
    BY DEF NoProvider, Provider
  <1>4. NoPlane \in Plane
    BY <1>1, <1>2 DEF NoPlane, Plane
  <1>5. NoRun \in Run
    BY <1>1, <1>3 DEF NoRun, Run, Ref, Reasons
  <1> QED BY <1>2, <1>3, <1>4, <1>5

\* A reconcile that has returned is nowhere.
LEMMA ReturnType ==
  ASSUME Return
  PROVE  pc' = "idle" /\ run' = NoRun /\ run' \in Run /\ run'.next = 1
  BY ConstantTypes DEF Return, Goto, NoRun

\* A reconcile that goes on with what it has.
LEMMA GoesOnType ==
  ASSUME TypeInv, pc # "idle", NEW why \in Reasons, Verdict(why) \/ Continue
  PROVE  /\ pc' \in {"pool", "save"} /\ run' \in Run
         /\ run'.next > 0 /\ run'.plane \in Planes
         /\ run'.plane = run.plane /\ run'.gen = run.gen /\ run'.pools = run.pools
  <1>1. run \in Run /\ NoProvider \in Provider /\ NoRef \in Ref
    BY ConstantTypes DEF TypeInv, TypeOK, Ref
  <1>2. /\ run.next \in Nat /\ run.next > 0 /\ run.next + 1 \in Nat
        /\ run.next + 1 > 0 /\ run.plane \in Planes
    BY <1>1 DEF TypeInv, Run
  <1>3. CASE Verdict(why)
    BY <1>1, <1>2, <1>3 DEF Verdict, Goto, Run
  <1>4. CASE Continue
    BY <1>1, <1>2, <1>4 DEF Continue, Goto, Run
  <1> QED BY <1>3, <1>4

\* Versions are numbers, and only grow.
LEMMA VersionType ==
  ASSUME TypeInv
  PROVE  /\ NextVersion \in Nat
         /\ MaxEdits \in Nat /\ MaxSecretEdits \in Nat
         /\ budget.edit \in Nat /\ budget.secret \in Nat
         /\ UNCHANGED budget \/ Spend("secret") \/ Spend("fault") =>
              budget'.edit = budget.edit /\ NextVersion' = NextVersion
         /\ Spend("edit") =>
              budget'.edit = budget.edit - 1 /\ NextVersion' = NextVersion + 1
         /\ UNCHANGED budget \/ Spend("edit") \/ Spend("fault") =>
              budget'.secret = budget.secret
         /\ Spend("secret") => budget'.secret < budget.secret
  <1>1. /\ MaxEdits \in Nat /\ MaxSecretEdits \in Nat
        /\ budget \in [{"edit", "secret", "fault"} -> Nat]
        /\ budget.edit <= MaxEdits
    BY ControlPlaneAssumption DEF TypeInv, TypeOK
  <1>2. budget.edit \in Nat /\ budget.secret \in Nat
    BY <1>1
  <1> QED BY <1>1, <1>2 DEF NextVersion, Spend

\* The bounds stay bounds.
LEMMA SpendType ==
  ASSUME TypeInv,
         UNCHANGED budget \/ Spend("edit") \/ Spend("secret") \/ Spend("fault")
  PROVE  /\ budget' \in [{"edit", "secret", "fault"} -> Nat]
         /\ budget'.edit <= MaxEdits /\ budget'.secret <= MaxSecretEdits
  <1>1. budget' \in [{"edit", "secret", "fault"} -> Nat]
    BY DEF TypeInv, TypeOK, Spend
  <1> QED BY <1>1, VersionType DEF TypeInv

\* The initial states have the types.
LEMMA InitType == Init => TypeInv
  <1>1. SUFFICES ASSUME Init PROVE TypeInv
    OBVIOUS
  <1>2. planes \in [Planes -> Plane]
    <2>1. PICK list \in [Planes -> PoolLists \ {<<>>}] :
            planes = [c \in Planes |-> [NoPlane EXCEPT !.exists = TRUE, !.uid = 1,
                                                 !.gen = 1, !.pools = list[c]]]
      BY <1>1 DEF Init
    <2>2. \A c \in Planes : [NoPlane EXCEPT !.exists = TRUE, !.uid = 1,
                                            !.gen = 1, !.pools = list[c]] \in Plane
      BY ConstantTypes DEF Plane
    <2> QED BY <2>1, <2>2
  <1>3. providers \in [Providers -> Provider] /\ pools \in [Pools -> Ref]
    <2>1. [version |-> 1, config |-> "valid"] \in Provider
      BY DEF Provider
    <2>2. pools \in [Pools -> Ref]
      <3>1. pools \in [Pools -> Providers] /\ Providers \subseteq Ref
        BY <1>1 DEF Init, Ref
      <3> HIDE DEF Ref
      <3> QED BY <3>1
    <2> QED BY <1>1, <2>1, <2>2 DEF Init
  <1>4. seen \in Caches
    <2>1. seen = [planes |-> planes, pools |-> pools, providers |-> providers]
      BY <1>1 DEF Init, Actual
    <2> QED BY <1>2, <1>3, <2>1 DEF Caches
  <1>5. notify \subseteq Planes \cup Pools \cup Providers /\ queue \subseteq Planes
    BY <1>1 DEF Init, Existing
  <1>6. /\ budget \in [{"edit", "secret", "fault"} -> Nat]
        /\ budget.edit <= MaxEdits /\ budget.secret <= MaxSecretEdits
    <2>1. budget = [edit |-> MaxEdits, secret |-> MaxSecretEdits, fault |-> MaxFaults]
      BY <1>1 DEF Init
    <2>2. MaxEdits \in Nat /\ MaxSecretEdits \in Nat /\ MaxFaults \in Nat
      BY ControlPlaneAssumption
    <2> QED BY <2>1, <2>2
  <1>7. run \in Run /\ run.next > 0
    <2>1. run = NoRun /\ NoRun.next = 1
      BY <1>1 DEF Init, NoRun
    <2> QED BY <2>1, ConstantTypes
  <1> QED BY <1>1, <1>2, <1>3, <1>4, <1>5, <1>6, <1>7 DEF Init, TypeInv, TypeOK

\* The informers and handlers keep the types.
LEMMA WatchType ==
  ASSUME TypeInv,
         \/ Informers \/ Resync
         \/ \E n \in Planes \cup Pools \cup Providers : Handle(n)
  PROVE  TypeInv'
  <1>1. CASE Informers
    <2>1. UNCHANGED <<objects, queue, built, pc, run, budget>>
      BY <1>1 DEF Informers, SyncPlane, SyncPool, SyncProvider
    <2>2. notify' \subseteq Planes \cup Pools \cup Providers
      BY <1>1 DEF Informers, SyncPlane, SyncPool, SyncProvider, TypeInv, TypeOK
    <2>3. seen' \in Caches
      <3>1. /\ seen \in Caches /\ planes \in [Planes -> Plane]
            /\ pools \in [Pools -> Ref] /\ providers \in [Providers -> Provider]
        BY DEF TypeInv, TypeOK
      <3>2. ASSUME NEW c \in Planes, SyncPlane(c) PROVE seen' \in Caches
        BY <3>1, <3>2 DEF SyncPlane, Caches
      <3>3. ASSUME NEW p \in Pools, SyncPool(p) PROVE seen' \in Caches
        BY <3>1, <3>3 DEF SyncPool, Caches
      <3>4. ASSUME NEW a \in Providers, SyncProvider(a) PROVE seen' \in Caches
        BY <3>1, <3>4 DEF SyncProvider, Caches
      <3> QED BY <1>1, <3>2, <3>3, <3>4 DEF Informers
    <2> QED BY <2>1, <2>2, <2>3 DEF TypeInv, TypeOK, objects
  <1>2. CASE Resync
    BY <1>2 DEF Resync, Cached, objects, TypeInv, TypeOK
  <1>3. ASSUME NEW n \in Planes \cup Pools \cup Providers, Handle(n)
        PROVE  TypeInv'
    <2>1. queue' \subseteq Planes
      BY <1>3 DEF Handle, Requests, mapPoolToControllers,
                  mapProviderToControllers, TypeInv, TypeOK
    <2> QED BY <1>3, <2>1 DEF Handle, objects, TypeInv, TypeOK
  <1> QED BY <1>1, <1>2, <1>3

\* A turn of the loop ends it, goes on, or leads to the factory.
LEMMA TurnType ==
  ASSUME TypeInv, ResolvePool
  PROVE  \/ \E why \in Reasons : Verdict(why) \/ Continue
         \/ LET ref == seen.pools[run.pools[run.next]] IN
            /\ ref \in Providers /\ run.next <= Len(run.pools)
            /\ Goto("build", [run EXCEPT !.ref = ref,
                                         !.provider = seen.providers[ref]])
  <1>1. {"PoolsResolved", "PoolMissing", "ProviderRefMissing", "ProviderMissing",
         "ProviderTypeMissing"} \subseteq Reasons
    BY DEF Reasons
  <1> QED BY <1>1 DEF ResolvePool

\* The worker keeps the types.
LEMMA WorkerTypes ==
  ASSUME TypeInv, Worker \/ \E c \in Planes : Reconcile(c)
  PROVE  TypeInv'
  <1>t. TypeOK /\ run \in Run /\ run.next > 0
    BY DEF TypeInv, TypeOK
  <1>1. ASSUME NEW c \in Planes, Reconcile(c)
        PROVE  TypeInv'
    <2>1. /\ pc' \in {"idle", "pool"} /\ run' \in Run /\ run'.next > 0
          /\ pc' # "idle" => run'.plane \in Planes
      <3>1. CASE seen.planes[c].exists
        <4>1. seen.planes[c].gen \in Nat /\ seen.planes[c].pools \in PoolLists
          BY <1>t DEF TypeOK, Caches, Plane
        <4>2. /\ pc' = "pool"
              /\ run' = [NoRun EXCEPT !.plane = c, !.gen = seen.planes[c].gen,
                                      !.pools = seen.planes[c].pools]
          BY <1>1, <3>1 DEF Reconcile, Goto
        <4>3. NoRun \in Run /\ NoRun.next = 1
          BY ConstantTypes DEF NoRun
        <4>4. run' \in Run
          BY <4>1, <4>2, <4>3 DEF Run
        <4>5. run'.plane = c /\ run'.next = 1
          BY <4>2, <4>3 DEF Run
        <4> QED BY <4>2, <4>4, <4>5
      <3>2. CASE ~seen.planes[c].exists
        BY <1>1, <1>t, <3>2 DEF Reconcile
      <3> QED BY <3>1, <3>2
    <2> QED BY <1>1, <2>1 DEF Reconcile, objects, watch, TypeInv, TypeOK
  <1>2. CASE ResolvePool
    <2>1. pc = "pool" /\ UNCHANGED <<objects, watch, queue, built, budget>>
      BY <1>2 DEF ResolvePool
    <2>2. /\ pc' \in {"pool", "save", "build"} /\ run' \in Run /\ run'.next > 0
          /\ run'.plane \in Planes
          /\ pc' = "build" => run'.ref \in Providers /\ run'.next <= Len(run'.pools)
      <3>1. CASE \E why \in Reasons : Verdict(why) \/ Continue
        BY <2>1, <3>1, GoesOnType
      <3> DEFINE ref == seen.pools[run.pools[run.next]]
      <3>2. CASE /\ ref \in Providers /\ run.next <= Len(run.pools)
                 /\ Goto("build", [run EXCEPT !.ref = ref,
                                              !.provider = seen.providers[ref]])
        <4>1. seen.providers[ref] \in Provider /\ ref \in Ref
          BY <1>t, <3>2 DEF TypeOK, Caches, Ref
        <4>2. /\ run' = [run EXCEPT !.ref = ref, !.provider = seen.providers[ref]]
              /\ pc' = "build"
          BY <3>2 DEF Goto
        <4> HIDE DEF ref
        <4>3. run.plane \in Planes
          BY <2>1 DEF TypeInv
        <4> QED BY <1>t, <3>2, <4>1, <4>2, <4>3 DEF Run
      <3> QED BY <1>2, <3>1, <3>2, TurnType
    <2> QED BY <2>1, <2>2 DEF objects, watch, TypeInv, TypeOK
  <1>3. CASE BuildProvider
    <2>1. /\ pc = "build" /\ run.ref \in Providers /\ run.provider.version \in Nat
          /\ "ProviderInitializationFailed" \in Reasons
      BY <1>3, <1>t DEF BuildProvider, TypeInv, Run, Provider, Reasons
    <2>2. built' \in [Providers -> Nat]
      BY <1>3, <1>t, <2>1 DEF BuildProvider, TypeOK
    <2>3. Continue \/ Verdict("ProviderInitializationFailed")
      BY <1>3 DEF BuildProvider
    <2>4. /\ pc' \in {"pool", "save"} /\ run' \in Run /\ run'.next > 0
          /\ run'.plane \in Planes
      BY <2>1, <2>3, GoesOnType
    <2> QED BY <1>3, <2>2, <2>4
            DEF BuildProvider, objects, watch, TypeInv, TypeOK
  <1>4. CASE SaveStatus
    <2>1. /\ pc = "save" /\ run.plane \in Planes
          /\ UNCHANGED <<pools, providers, secret, seen, built>> /\ Return
      BY <1>4 DEF SaveStatus, TypeInv
    <2>2. StatusFound \in Status
      BY <1>t, ControlPlaneAssumption DEF StatusFound, Status, Run
    <2>3. planes' \in [Planes -> Plane]
      <3>1. [planes EXCEPT ![run.plane].status = StatusFound] \in [Planes -> Plane]
        BY <1>t, <2>1, <2>2 DEF TypeOK, Plane
      <3> QED BY <1>4, <1>t, <3>1 DEF SaveStatus, TypeOK
    <2>4. /\ queue' \subseteq Planes
          /\ notify' \subseteq Planes \cup Pools \cup Providers
          /\ UNCHANGED budget \/ Spend("fault")
      BY <1>4, <1>t, <2>1 DEF SaveStatus, TypeOK
    <2> QED BY <2>1, <2>3, <2>4, ReturnType, SpendType DEF TypeInv, TypeOK
  <1> QED BY <1>1, <1>2, <1>3, <1>4 DEF Worker

\* So do a restart and the users.
LEMMA OutsideTypes ==
  ASSUME TypeInv, Crash \/ Users
  PROVE  TypeInv'
  <1>t. TypeOK
    BY DEF TypeInv
  <1>1. CASE Crash
    <2>1. seen' \in Caches
      BY <1>1, <1>t DEF Crash, Actual, Caches, TypeOK
    <2>2. notify' \subseteq Planes \cup Pools \cup Providers
      BY <1>1 DEF Crash, Existing
    <2> QED BY <1>1, <2>1, <2>2, ReturnType, SpendType
            DEF Crash, objects, TypeInv, TypeOK
  <1>2. CASE Users
    <2>1. /\ UNCHANGED <<watch, queue, built, pc, run>>
          /\ Spend("edit") \/ Spend("secret")
      BY <1>2 DEF Users, WritePlane, DeletePlane, EditPool, EditProvider, EditSecret
    <2>2. planes' \in [Planes -> Plane]
      <3>1. ASSUME NEW c \in Planes, WritePlane(c) PROVE planes' \in [Planes -> Plane]
        <4>1. PICK list \in PoolLists :
                \/ planes' = [planes EXCEPT ![c].pools = list, ![c].gen = @ + 1]
                \/ planes' = [planes EXCEPT ![c] =
                                [NoPlane EXCEPT !.exists = TRUE, !.uid = NextVersion,
                                                !.gen = 1, !.pools = list]]
          BY <3>1 DEF WritePlane
        <4>2. NextVersion \in Nat /\ planes \in [Planes -> Plane] /\ NoPlane \in Plane
          BY <1>t, VersionType, ConstantTypes DEF TypeOK
        <4>3. [planes EXCEPT ![c].pools = list, ![c].gen = @ + 1] \in [Planes -> Plane]
          <5>1. [planes[c] EXCEPT !.pools = list, !.gen = planes[c].gen + 1] \in Plane
            <6>1. planes[c] \in Plane /\ planes[c].gen + 1 \in Nat
              BY <4>2 DEF Plane
            <6> QED BY <6>1 DEF Plane
          <5>2. [planes EXCEPT ![c].pools = list, ![c].gen = @ + 1] =
                  [planes EXCEPT ![c] = [planes[c] EXCEPT !.pools = list,
                                                          !.gen = planes[c].gen + 1]]
            BY <4>2 DEF Plane
          <5> QED BY <4>2, <5>1, <5>2
        <4>4. [NoPlane EXCEPT !.exists = TRUE, !.uid = NextVersion,
                              !.gen = 1, !.pools = list] \in Plane
          BY <4>2 DEF Plane
        <4> QED BY <4>1, <4>2, <4>3, <4>4
      <3>2. ASSUME NEW c \in Planes, DeletePlane(c) PROVE planes' \in [Planes -> Plane]
        BY <1>t, <3>2, ConstantTypes DEF DeletePlane, TypeOK
      <3>3. CASE planes' = planes
        BY <1>t, <3>3 DEF TypeOK
      <3> QED BY <1>2, <3>1, <3>2, <3>3
              DEF Users, EditPool, EditProvider, EditSecret
    <2>3. pools' \in [Pools -> Ref]
      BY <1>2, <1>t DEF Users, WritePlane, DeletePlane, EditPool, EditProvider,
                        EditSecret, TypeOK
    <2>4. providers' \in [Providers -> Provider]
      <3>1. ASSUME NEW a \in Providers, EditProvider(a)
            PROVE  providers' \in [Providers -> Provider]
        <4>1. PICK config \in {"absent", "valid", "blank", "invalid"} :
                providers' = [providers EXCEPT ![a] =
                                IF config = "absent" THEN NoProvider
                                ELSE [version |-> NextVersion, config |-> config]]
          BY <3>1 DEF EditProvider
        <4>2. [version |-> NextVersion, config |-> config] \in Provider
          BY VersionType DEF Provider
        <4> QED BY <1>t, <4>1, <4>2, ConstantTypes DEF TypeOK
      <3>2. CASE providers' = providers
        BY <1>t, <3>2 DEF TypeOK
      <3> QED BY <1>2, <3>1, <3>2
              DEF Users, WritePlane, DeletePlane, EditPool, EditSecret
    <2>5. secret' \in BOOLEAN
      BY <1>2, <1>t DEF Users, WritePlane, DeletePlane, EditPool, EditProvider,
                        EditSecret, TypeOK
    <2> QED BY <2>1, <2>2, <2>3, <2>4, <2>5, SpendType DEF watch, TypeInv, TypeOK
  <1> QED BY <1>1, <1>2

\* Every step keeps the types.
LEMMA NextType == TypeInv /\ [Next]_vars => TypeInv'
  <1>1. CASE UNCHANGED vars
    BY <1>1 DEF vars, objects, watch, TypeInv, TypeOK
  <1> QED BY <1>1, WatchType, WorkerTypes, OutsideTypes DEF Next

\* Every variable keeps its type, for any number of objects, edits and faults.
THEOREM TypeCorrect == Spec => []TypeOK
  <1>1. TypeInv => TypeOK
    BY DEF TypeInv
  <1> QED BY <1>1, InitType, NextType, PTL DEF Spec

-----------------------------------------------------------------------------
(* Versions *)

\* A step that neither edits nor builds a provider keeps the versions in order
\* if it makes no new copies.
LEMMA VersionsKept ==
  ASSUME TypeInv, VersionInv, built' = built, NextVersion' \in {NextVersion, NextVersion + 1},
         \A a \in Providers, x \in Provider : Copy(a, x)' => Copy(a, x),
         budget'.secret = MaxSecretEdits =>
           budget.secret = MaxSecretEdits /\ (secret => secret')
  PROVE  VersionInv'
  <1>1. \A a \in Providers : built[a] \in Nat
    BY DEF TypeInv, TypeOK
  <1>2. NextVersion \in Nat /\ \A x \in Provider : x.version \in Nat
    BY VersionType DEF Provider
  <1>3. ASSUME NEW a \in Providers
        PROVE  built'[a] < NextVersion'
    BY <1>1, <1>2 DEF VersionInv
  <1>4. ASSUME NEW a \in Providers, NEW x \in Provider, Copy(a, x)'
        PROVE  /\ x.version < NextVersion'
               /\ x.config # "absent" => x.version > 0
               /\ x.config # "absent" /\ built'[a] = x.version =>
                    /\ x.config = "valid"
                    /\ budget'.secret = MaxSecretEdits => secret'
    <2>1. Copy(a, x)
      BY <1>4
    <2>2. x.version < NextVersion
      BY <2>1 DEF VersionInv
    <2> QED BY <1>2, <2>1, <2>2 DEF VersionInv
  <1>5. ASSUME NEW a \in Providers, NEW x \in Provider, NEW y \in Provider,
               Copy(a, x)', Copy(a, y)', x.version = y.version
        PROVE  x = y
    BY <1>5 DEF VersionInv
  <1> QED BY <1>3, <1>4, <1>5 DEF VersionInv

\* The steps that make no new copy, or one of what is there.
LEMMA WatchVersions ==
  ASSUME TypeInv, VersionInv,
         \/ Informers \/ Resync \/ ResolvePool \/ SaveStatus
         \/ \E n \in Planes \cup Pools \cup Providers : Handle(n)
         \/ \E c \in Planes : Reconcile(c) \/ WritePlane(c) \/ DeletePlane(c)
         \/ \E p \in Pools : EditPool(p)
         \/ EditSecret
  PROVE  VersionInv'
  <1>1. UNCHANGED <<providers, built>>
    BY DEF Informers, SyncPlane, SyncPool, SyncProvider, Resync, ResolvePool,
           SaveStatus, Handle, Reconcile, WritePlane, DeletePlane, EditPool,
           EditSecret, objects
  <1>2. UNCHANGED budget \/ Spend("edit") \/ Spend("secret") \/ Spend("fault")
    BY DEF Informers, SyncPlane, SyncPool, SyncProvider, Resync, ResolvePool,
           SaveStatus, Handle, Reconcile, WritePlane, DeletePlane, EditPool,
           EditSecret
  <1>3. UNCHANGED secret \/ Spend("secret")
    BY DEF Informers, SyncPlane, SyncPool, SyncProvider, Resync, ResolvePool,
           SaveStatus, Handle, Reconcile, WritePlane, DeletePlane, EditPool,
           EditSecret, objects
  <1>4. budget'.secret = MaxSecretEdits =>
          budget.secret = MaxSecretEdits /\ secret' = secret
    BY <1>2, <1>3, VersionType DEF TypeInv
  <1>5. \A a \in Providers :
          seen'.providers[a] = seen.providers[a] \/ seen'.providers[a] = providers[a]
    <2>1. seen \in Caches
      BY DEF TypeInv, TypeOK
    <2>2. CASE UNCHANGED seen
      BY <2>2
    <2>3. ASSUME NEW c \in Planes, SyncPlane(c)
          PROVE  seen'.providers = seen.providers
      BY <2>1, <2>3 DEF SyncPlane, Caches
    <2>4. ASSUME NEW p \in Pools, SyncPool(p)
          PROVE  seen'.providers = seen.providers
      BY <2>1, <2>4 DEF SyncPool, Caches
    <2>5. ASSUME NEW b \in Providers, SyncProvider(b)
          PROVE  seen'.providers = [seen.providers EXCEPT ![b] = providers[b]]
      BY <2>1, <2>5 DEF SyncProvider, Caches
    <2>6. Informers \/ UNCHANGED seen
      BY DEF Resync, ResolvePool, SaveStatus, Handle, Reconcile, WritePlane,
             DeletePlane, EditPool, EditSecret, watch
    <2> QED BY <2>1, <2>2, <2>3, <2>4, <2>5, <2>6 DEF Informers, Caches
  <1>6. \/ pc' # "build"
        \/ pc' = "build" /\ pc = "build" /\ UNCHANGED run
        \/ pc' = "build" /\ run'.provider = seen.providers[run'.ref]
    <2>1. CASE ResolvePool
      <3>1. pc = "pool" /\ run \in Run
        BY <2>1 DEF ResolvePool, TypeInv, TypeOK
      <3>2. CASE \E why \in Reasons : Verdict(why) \/ Continue
        BY <3>1, <3>2, GoesOnType
      <3> DEFINE ref == seen.pools[run.pools[run.next]]
      <3>3. CASE /\ ref \in Providers /\ run.next <= Len(run.pools)
                 /\ Goto("build", [run EXCEPT !.ref = ref,
                                              !.provider = seen.providers[ref]])
        <4>1. run' = [run EXCEPT !.ref = ref, !.provider = seen.providers[ref]]
              /\ pc' = "build"
          BY <3>3 DEF Goto
        <4> HIDE DEF ref
        <4> QED BY <3>1, <4>1 DEF Run
      <3> QED BY <2>1, <3>2, <3>3, TurnType
    <2>2. CASE SaveStatus \/ \E c \in Planes : Reconcile(c)
      BY <2>2 DEF SaveStatus, Return, Reconcile, Goto
    <2>3. CASE UNCHANGED <<pc, run>>
      BY <2>3
    <2> QED BY <2>1, <2>2, <2>3
            DEF Informers, SyncPlane, SyncPool, SyncProvider, Resync, Handle,
                WritePlane, DeletePlane, EditPool, EditSecret
  <1>7. \A a \in Providers, x \in Provider : Copy(a, x)' => Copy(a, x)
    BY <1>1, <1>5, <1>6 DEF Copy
  <1> QED BY <1>1, <1>2, <1>4, <1>7, VersionType, VersionsKept

\* What the factory has built from is the object the version stands for.
LEMMA BuildVersions ==
  ASSUME TypeInv, VersionInv, BuildProvider
  PROVE  VersionInv'
  <1>1. /\ pc = "build" /\ run.ref \in Providers /\ run.provider \in Provider
        /\ UNCHANGED <<objects, seen, budget>>
    BY DEF BuildProvider, TypeInv, TypeOK, Run, watch
  <1>2. Copy(run.ref, run.provider)
    BY <1>1 DEF Copy
  <1>3. pc' # "build"
    BY DEF BuildProvider, Continue, Verdict, Goto
  <1>4. \A a \in Providers, x \in Provider : Copy(a, x)' => Copy(a, x)
    BY <1>1, <1>3 DEF Copy, objects
  <1>5. NextVersion' = NextVersion /\ budget'.secret = budget.secret /\ secret' = secret
    BY <1>1 DEF NextVersion, objects
  <1>6. CASE ~NewProvider(run.provider)
    <2>1. built' = built
      BY <1>6 DEF BuildProvider
    <2> QED BY <1>4, <1>5, <2>1, VersionsKept
  <1>7. CASE NewProvider(run.provider)
    <2>1. built' = [built EXCEPT ![run.ref] = run.provider.version]
      BY <1>7 DEF BuildProvider
    <2>2. run.provider.config = "valid" /\ secret
      BY <1>7 DEF NewProvider
    <2>3. run.provider.version < NextVersion
      BY <1>1, <1>2 DEF VersionInv
    <2>4. built \in [Providers -> Nat]
      BY DEF TypeInv, TypeOK
    <2>5. ASSUME NEW a \in Providers
          PROVE  built'[a] < NextVersion'
      BY <1>5, <2>1, <2>3, <2>4 DEF VersionInv
    <2>6. ASSUME NEW a \in Providers, NEW x \in Provider, NEW y \in Provider
          PROVE  /\ Copy(a, x)' => x.version < NextVersion'
                 /\ Copy(a, x)' /\ x.config # "absent" => x.version > 0
                 /\ Copy(a, x)' /\ Copy(a, y)' /\ x.version = y.version => x = y
      BY <1>4, <1>5 DEF VersionInv
    <2>7. ASSUME NEW a \in Providers, NEW x \in Provider, Copy(a, x)',
                 x.config # "absent", built'[a] = x.version
          PROVE  x.config = "valid" /\ (budget'.secret = MaxSecretEdits => secret')
      <3>1. Copy(a, x)
        BY <1>4, <2>7
      <3>2. CASE a = run.ref
        <4>1. x.version = run.provider.version
          BY <2>1, <2>4, <2>7, <3>2
        <4>2. x = run.provider
          BY <1>1, <1>2, <3>1, <3>2, <4>1 DEF VersionInv
        <4> QED BY <1>5, <2>2, <4>2
      <3>3. CASE a # run.ref
        <4>1. built[a] = x.version
          BY <2>1, <2>4, <2>7, <3>3
        <4> QED BY <1>5, <2>7, <3>1, <4>1 DEF VersionInv
      <3> QED BY <3>2, <3>3
    <2> QED BY <2>5, <2>6, <2>7 DEF VersionInv
  <1> QED BY <1>6, <1>7

\* An edited provider has a version that nobody has seen or built.
LEMMA EditVersions ==
  ASSUME TypeInv, VersionInv, NEW b \in Providers, EditProvider(b)
  PROVE  VersionInv'
  <1>1. /\ UNCHANGED <<secret, seen, built, pc, run>> /\ Spend("edit")
        /\ providers \in [Providers -> Provider]
    BY DEF EditProvider, watch, TypeInv, TypeOK
  <1>2. /\ NextVersion \in Nat /\ NextVersion' = NextVersion + 1
        /\ budget'.secret = budget.secret
    BY <1>1, VersionType
  <1>3. PICK config \in {"absent", "valid", "blank", "invalid"} :
          providers' = [providers EXCEPT ![b] =
                          IF config = "absent" THEN NoProvider
                          ELSE [version |-> NextVersion, config |-> config]]
    BY DEF EditProvider
  <1> DEFINE New(x) == x = IF config = "absent" THEN NoProvider
                           ELSE [version |-> NextVersion, config |-> config]
  <1>4. \A a \in Providers, x \in Provider :
          Copy(a, x)' => Copy(a, x) \/ New(x)
    BY <1>1, <1>3 DEF Copy
  <1>5. \A x \in Provider : New(x) =>
          \/ x.version = 0 /\ x.config = "absent"
          \/ x.version = NextVersion /\ x.config # "absent"
    BY DEF NoProvider
  <1> HIDE DEF New
  <1>6. \A x, y \in Provider : New(x) /\ New(y) => x = y
    BY DEF New
  <1>7. \A x, y \in Provider :
          x.version = y.version /\ x.config = y.config => x = y
    BY DEF Provider
  <1>8. \A x \in Provider : x.version \in Nat
    BY DEF Provider
  <1>9. \A a \in Providers : built[a] \in Nat
    BY DEF TypeInv, TypeOK
  <1>10. ASSUME NEW a \in Providers
         PROVE  built'[a] < NextVersion'
    BY <1>1, <1>2, <1>9 DEF VersionInv
  <1>11. ASSUME NEW a \in Providers, NEW x \in Provider, Copy(a, x)'
         PROVE  /\ x.version < NextVersion'
                /\ x.config # "absent" => x.version > 0
                /\ x.config # "absent" /\ built'[a] = x.version =>
                     /\ x.config = "valid"
                     /\ budget'.secret = MaxSecretEdits => secret'
    <2>1. CASE Copy(a, x)
      <3>1. x.version < NextVersion
        BY <2>1 DEF VersionInv
      <3> QED BY <1>1, <1>2, <1>8, <2>1, <3>1 DEF VersionInv
    <2>2. CASE New(x)
      <3>1. built[a] < NextVersion
        BY DEF VersionInv
      <3>2. NextVersion > 0
        BY <3>1, <1>2, <1>9
      <3> QED BY <1>1, <1>2, <1>5, <1>8, <1>9, <2>2, <3>1, <3>2
    <2> QED BY <1>4, <1>11, <2>1, <2>2
  <1>12. ASSUME NEW a \in Providers, NEW x \in Provider, NEW y \in Provider,
                Copy(a, x), New(y), x.version = y.version
         PROVE  x = y
    <2>1. x.version < NextVersion /\ (x.config # "absent" => x.version > 0)
      BY <1>12 DEF VersionInv
    <2>2. y.version = 0 /\ y.config = "absent"
      BY <1>2, <1>5, <1>8, <1>12, <2>1
    <2>3. x.config = "absent"
      BY <1>8, <1>12, <2>1, <2>2
    <2> QED BY <1>7, <1>12, <2>2, <2>3
  <1>13. ASSUME NEW a \in Providers, NEW x \in Provider, NEW y \in Provider,
                Copy(a, x)', Copy(a, y)', x.version = y.version
         PROVE  x = y
    <2>1. CASE Copy(a, x) /\ Copy(a, y)
      BY <1>13, <2>1 DEF VersionInv
    <2>2. CASE New(x) /\ New(y)
      BY <1>6, <2>2
    <2>3. CASE Copy(a, x) /\ New(y)
      BY <1>12, <1>13, <2>3
    <2>4. CASE New(x) /\ Copy(a, y)
      BY <1>12, <1>13, <2>4
    <2> QED BY <1>4, <1>13, <2>1, <2>2, <2>3, <2>4
  <1> QED BY <1>10, <1>11, <1>13 DEF VersionInv

\* A restart forgets what was built; a version 0 stands for no object.
LEMMA CrashVersions ==
  ASSUME TypeInv, VersionInv, Crash
  PROVE  VersionInv'
  <1>1. /\ UNCHANGED objects /\ pc' = "idle" /\ seen' = Actual /\ Spend("fault")
        /\ built' = [a \in Providers |-> 0]
    BY DEF Crash, Return, Goto
  <1>2. NextVersion \in Nat /\ NextVersion' = NextVersion /\ NextVersion > 0
    <2>1. NextVersion \in Nat /\ NextVersion' = NextVersion
      BY <1>1, VersionType
    <2>2. MaxEdits \in Nat /\ budget.edit \in Nat /\ budget.edit <= MaxEdits
      BY VersionType DEF TypeInv
    <2> QED BY <2>1, <2>2 DEF NextVersion
  <1>3. seen'.providers = providers /\ providers' = providers
    BY <1>1 DEF Actual, objects
  <1>4. \A a \in Providers, x \in Provider : Copy(a, x)' => x = providers[a]
    BY <1>1, <1>3 DEF Copy
  <1>5. \A a \in Providers, x \in Provider : Copy(a, x)' => Copy(a, x)
    BY <1>4 DEF Copy
  <1>6. \A x \in Provider : x.version \in Nat
    BY DEF Provider
  <1>7. ASSUME NEW a \in Providers, NEW x \in Provider, Copy(a, x)'
        PROVE  /\ x.version < NextVersion'
               /\ x.config # "absent" => x.version > 0
    BY <1>2, <1>5, <1>7 DEF VersionInv
  <1>8. \A a \in Providers : built'[a] = 0
    BY <1>1
  <1>9. ASSUME NEW a \in Providers, NEW x \in Provider, Copy(a, x)',
               x.config # "absent"
        PROVE  built'[a] # x.version
    BY <1>6, <1>7, <1>8, <1>9
  <1> QED BY <1>2, <1>4, <1>7, <1>8, <1>9 DEF VersionInv

\* The versions are in order at first.
LEMMA InitVersions == Init => VersionInv
  <1>1. SUFFICES ASSUME Init PROVE VersionInv
    OBVIOUS
  <1>2. providers = [a \in Providers |-> [version |-> 1, config |-> "valid"]]
    BY <1>1 DEF Init
  <1>3. seen.providers = providers
    BY <1>1 DEF Init, Actual
  <1>4. built = [a \in Providers |-> 0] /\ pc = "idle"
    BY <1>1 DEF Init
  <1>5. NextVersion = 2
    <2>1. budget = [edit |-> MaxEdits, secret |-> MaxSecretEdits, fault |-> MaxFaults]
      BY <1>1 DEF Init
    <2>2. budget.edit = MaxEdits /\ MaxEdits \in Nat
      BY <2>1, ControlPlaneAssumption
    <2> QED BY <2>2 DEF NextVersion
  <1>6. ASSUME NEW a \in Providers, NEW x \in Provider, Copy(a, x)
        PROVE  x = [version |-> 1, config |-> "valid"]
    BY <1>2, <1>3, <1>4, <1>6 DEF Copy
  <1>7. ASSUME NEW a \in Providers, NEW x \in Provider, Copy(a, x)
        PROVE  x.version = 1
    BY <1>6, <1>7
  <1> QED BY <1>4, <1>5, <1>6, <1>7 DEF VersionInv

\* Every step keeps the versions in order.
LEMMA NextVersions == TypeInv /\ VersionInv /\ [Next]_vars => VersionInv'
  <1>1. CASE UNCHANGED vars
    <2>1. UNCHANGED <<providers, secret, seen, built, pc, run, budget>>
      BY <1>1 DEF vars, objects, watch
    <2> QED BY <2>1 DEF VersionInv, Copy, NextVersion
  <1> QED BY <1>1, WatchVersions, BuildVersions, EditVersions, CrashVersions
          DEF Next, Worker, Users

-----------------------------------------------------------------------------
(* Control planes *)

\* What a step does to the caches.
LEMMA SeenStep ==
  ASSUME TypeInv, [Next]_vars
  PROVE  \/ UNCHANGED seen
         \/ Crash /\ seen' = Actual
         \/ \E c \in Planes :
              /\ SyncPlane(c) /\ seen'.pools = seen.pools
              /\ seen'.providers = seen.providers
              /\ seen'.planes = [seen.planes EXCEPT ![c] = planes[c]]
         \/ \E p \in Pools :
              /\ SyncPool(p) /\ seen'.planes = seen.planes
              /\ seen'.providers = seen.providers
              /\ seen'.pools = [seen.pools EXCEPT ![p] = pools[p]]
         \/ \E a \in Providers :
              /\ SyncProvider(a) /\ seen'.planes = seen.planes
              /\ seen'.pools = seen.pools
              /\ seen'.providers = [seen.providers EXCEPT ![a] = providers[a]]
  <1>1. seen \in Caches
    BY DEF TypeInv, TypeOK
  <1>2. ASSUME NEW c \in Planes, SyncPlane(c)
        PROVE  /\ seen'.pools = seen.pools /\ seen'.providers = seen.providers
               /\ seen'.planes = [seen.planes EXCEPT ![c] = planes[c]]
    BY <1>1, <1>2 DEF SyncPlane, Caches
  <1>3. ASSUME NEW p \in Pools, SyncPool(p)
        PROVE  /\ seen'.planes = seen.planes /\ seen'.providers = seen.providers
               /\ seen'.pools = [seen.pools EXCEPT ![p] = pools[p]]
    BY <1>1, <1>3 DEF SyncPool, Caches
  <1>4. ASSUME NEW a \in Providers, SyncProvider(a)
        PROVE  /\ seen'.planes = seen.planes /\ seen'.pools = seen.pools
               /\ seen'.providers = [seen.providers EXCEPT ![a] = providers[a]]
    BY <1>1, <1>4 DEF SyncProvider, Caches
  <1>5. UNCHANGED seen \/ (Crash /\ seen' = Actual) \/ Informers
    <2>1. CASE Crash
      BY <2>1 DEF Crash
    <2>2. CASE Worker \/ Users \/ Resync \/ UNCHANGED vars
      BY <2>2 DEF Worker, ResolvePool, BuildProvider, SaveStatus, Users, Resync,
                  WritePlane, DeletePlane, EditPool, EditProvider, EditSecret,
                  watch, vars
    <2>3. CASE \/ \E n \in Planes \cup Pools \cup Providers : Handle(n)
               \/ \E c \in Planes : Reconcile(c)
      BY <2>3 DEF Handle, Reconcile, watch
    <2> QED BY <2>1, <2>2, <2>3 DEF Next
  <1> QED BY <1>2, <1>3, <1>4, <1>5 DEF Informers

\* A control plane that is written has a new generation, or is a new one.
LEMMA WriteStep ==
  ASSUME TypeInv, NEW c \in Planes, WritePlane(c)
  PROVE  /\ planes'[c].exists
         /\ \/ planes'[c].uid = NextVersion
            \/ /\ planes[c].exists /\ planes'[c].uid = planes[c].uid
               /\ planes'[c].gen = planes[c].gen + 1
         /\ \A d \in Planes \ {c} : planes'[d] = planes[d]
  <1>1. planes \in [Planes -> Plane]
    BY DEF TypeInv, TypeOK
  <1>2. PICK list \in PoolLists :
          \/ /\ planes[c].exists /\ list # planes[c].pools
             /\ planes' = [planes EXCEPT ![c].pools = list, ![c].gen = @ + 1]
          \/ /\ ~planes[c].exists
             /\ planes' = [planes EXCEPT ![c] =
                             [NoPlane EXCEPT !.exists = TRUE, !.uid = NextVersion,
                                             !.gen = 1, !.pools = list]]
    BY DEF WritePlane
  <1>3. CASE planes[c].exists
    <2>1. [planes EXCEPT ![c].pools = list, ![c].gen = @ + 1] =
            [planes EXCEPT ![c] = [planes[c] EXCEPT !.pools = list,
                                                    !.gen = planes[c].gen + 1]]
      BY <1>1 DEF Plane
    <2>2. planes' = [planes EXCEPT ![c] = [planes[c] EXCEPT !.pools = list,
                                                    !.gen = planes[c].gen + 1]]
      BY <1>2, <1>3, <2>1
    <2> QED BY <1>1, <1>3, <2>2 DEF Plane
  <1>4. CASE ~planes[c].exists
    <2>1. planes' = [planes EXCEPT ![c] =
                       [NoPlane EXCEPT !.exists = TRUE, !.uid = NextVersion,
                                       !.gen = 1, !.pools = list]]
      BY <1>2, <1>4
    <2> QED BY <1>1, <2>1 DEF NoPlane
  <1> QED BY <1>3, <1>4

\* What a step does to the control planes.
LEMMA PlanesStep ==
  ASSUME TypeInv, [Next]_vars
  PROVE  \/ UNCHANGED planes
         \/ \E c \in Planes : WritePlane(c)
         \/ \E c \in Planes :
              DeletePlane(c) /\ planes' = [planes EXCEPT ![c] = NoPlane]
         \/ /\ SaveStatus /\ run.plane \in Planes
            /\ planes' = [planes EXCEPT ![run.plane] =
                            [planes[run.plane] EXCEPT !.status = StatusFound]]
  <1>1. CASE SaveStatus
    <2>1. run.plane \in Planes /\ planes \in [Planes -> Plane]
      BY <1>1 DEF SaveStatus, TypeInv, TypeOK
    <2>2. [planes EXCEPT ![run.plane].status = StatusFound] =
            [planes EXCEPT ![run.plane] =
               [planes[run.plane] EXCEPT !.status = StatusFound]]
      BY <2>1 DEF Plane
    <2>3. \/ UNCHANGED planes
          \/ planes' = [planes EXCEPT ![run.plane].status = StatusFound]
      BY <1>1 DEF SaveStatus
    <2> QED BY <1>1, <2>1, <2>2, <2>3
  <1>2. CASE \E c \in Planes : DeletePlane(c)
    BY <1>2 DEF DeletePlane
  <1>3. CASE \/ Informers \/ ResolvePool \/ BuildProvider \/ Resync \/ Crash
             \/ EditSecret \/ UNCHANGED vars
    BY <1>3 DEF Informers, SyncPlane, SyncPool, SyncProvider, ResolvePool,
                BuildProvider, Resync, Crash, EditSecret, objects, vars
  <1>4. CASE \/ \E n \in Planes \cup Pools \cup Providers : Handle(n)
             \/ \E c \in Planes : Reconcile(c)
             \/ \E p \in Pools : EditPool(p)
             \/ \E a \in Providers : EditProvider(a)
    BY <1>4 DEF Handle, Reconcile, EditPool, EditProvider, objects
  <1> QED BY <1>1, <1>2, <1>3, <1>4 DEF Next, Worker, Users

\* How a step spends the bounds.
LEMMA BudgetStep ==
  ASSUME TypeInv, [Next]_vars
  PROVE  /\ UNCHANGED budget \/ Spend("edit") \/ Spend("secret") \/ Spend("fault")
         /\ UNCHANGED secret \/ Spend("secret")
  <1>1. CASE Informers \/ Worker \/ Resync \/ Crash \/ UNCHANGED vars
    BY <1>1 DEF Informers, SyncPlane, SyncPool, SyncProvider, Worker, ResolvePool,
                BuildProvider, SaveStatus, Resync, Crash, objects, vars
  <1>2. CASE Users
    BY <1>2 DEF Users, WritePlane, DeletePlane, EditPool, EditProvider, EditSecret
  <1>3. CASE \/ \E n \in Planes \cup Pools \cup Providers : Handle(n)
             \/ \E c \in Planes : Reconcile(c)
    BY <1>3 DEF Handle, Reconcile, objects
  <1> QED BY <1>1, <1>2, <1>3 DEF Next

\* A control plane has its identity and its generation for ever.
LEMMA InitPlanes == Init => PlaneInv
  <1>1. SUFFICES ASSUME Init PROVE PlaneInv
    OBVIOUS
  <1>2. planes \in [Planes -> Plane]
    BY <1>1, InitType DEF TypeInv, TypeOK
  <1>3. \A c \in Planes : planes[c].uid = 1 /\ planes[c].exists
    <2>1. PICK list \in [Planes -> PoolLists \ {<<>>}] :
            planes = [c \in Planes |-> [NoPlane EXCEPT !.exists = TRUE, !.uid = 1,
                                                 !.gen = 1, !.pools = list[c]]]
      BY <1>1 DEF Init
    <2> QED BY <2>1 DEF NoPlane
  <1>4. seen.planes = planes
    BY <1>1 DEF Init, Actual
  <1>5. NextVersion = 2
    <2>1. budget = [edit |-> MaxEdits, secret |-> MaxSecretEdits, fault |-> MaxFaults]
      BY <1>1 DEF Init
    <2>2. budget.edit = MaxEdits /\ MaxEdits \in Nat
      BY <2>1, ControlPlaneAssumption
    <2> QED BY <2>2 DEF NextVersion
  <1>6. \A c \in Planes : planes[c].gen \in Nat
    BY <1>2 DEF Plane
  <1> QED BY <1>3, <1>4, <1>5, <1>6 DEF PlaneInv

\* Every step keeps them.
LEMMA NextPlanes == TypeInv /\ PlaneInv /\ [Next]_vars => PlaneInv'
  <1>1. SUFFICES ASSUME TypeInv, PlaneInv, [Next]_vars, NEW c \in Planes
        PROVE  /\ ~planes'[c].exists => planes'[c].pools = <<>>
               /\ ~seen'.planes[c].exists => seen'.planes[c].pools = <<>>
               /\ planes'[c].uid < NextVersion' /\ seen'.planes[c].uid < NextVersion'
               /\ planes'[c].exists /\ planes'[c].uid = seen'.planes[c].uid =>
                    seen'.planes[c].gen <= planes'[c].gen
    BY DEF PlaneInv
  <1>2. /\ planes \in [Planes -> Plane] /\ seen.planes \in [Planes -> Plane]
        /\ planes[c] \in Plane /\ seen.planes[c] \in Plane
    BY <1>1 DEF TypeInv, TypeOK, Caches
  <1>3. /\ planes[c].uid \in Nat /\ planes[c].gen \in Nat
        /\ seen.planes[c].uid \in Nat /\ seen.planes[c].gen \in Nat
    BY <1>2 DEF Plane
  <1>4. /\ ~planes[c].exists => planes[c].pools = <<>>
        /\ ~seen.planes[c].exists => seen.planes[c].pools = <<>>
        /\ planes[c].uid < NextVersion /\ seen.planes[c].uid < NextVersion
        /\ planes[c].exists /\ planes[c].uid = seen.planes[c].uid =>
                    seen.planes[c].gen <= planes[c].gen
    BY <1>1 DEF PlaneInv
  <1>5. NextVersion \in Nat /\ NextVersion' \in {NextVersion, NextVersion + 1}
    BY <1>1, BudgetStep, VersionType
  <1>6. seen'.planes[c] = seen.planes[c] \/ seen'.planes[c] = planes[c]
    <2>1. Actual.planes = planes
      BY DEF Actual
    <2>2. ASSUME NEW d \in Planes, seen'.planes = [seen.planes EXCEPT ![d] = planes[d]]
          PROVE  seen'.planes[c] = seen.planes[c] \/ seen'.planes[c] = planes[c]
      BY <1>2, <2>2
    <2> QED BY <1>1, <2>1, <2>2, SeenStep
  <1>7. CASE UNCHANGED planes
    BY <1>3, <1>4, <1>5, <1>6, <1>7
  <1>8. CASE planes' # planes
    <2>1. seen' = seen
      <3>1. CASE Crash
        BY <1>8, <3>1 DEF Crash, objects
      <3>2. CASE Informers
        BY <1>8, <3>2 DEF Informers, SyncPlane, SyncPool, SyncProvider, objects
      <3> QED BY <1>1, <3>1, <3>2, SeenStep DEF Informers
    <2>2. ASSUME NEW d \in Planes, WritePlane(d)
          PROVE  \/ planes'[c] = planes[c]
                 \/ /\ planes'[c].exists /\ planes'[c].uid = NextVersion
                    /\ NextVersion' = NextVersion + 1
                 \/ /\ planes[c].exists /\ planes'[c].uid = planes[c].uid
                    /\ planes'[c].exists /\ planes'[c].gen = planes[c].gen + 1
      <3>1. Spend("edit")
        BY <2>2 DEF WritePlane
      <3> QED BY <1>1, <2>2, <3>1, WriteStep, VersionType
    <2>3. ASSUME NEW d \in Planes, planes' = [planes EXCEPT ![d] = NoPlane]
          PROVE  \/ planes'[c] = planes[c]
                 \/ /\ planes'[c].uid = 0 /\ ~planes'[c].exists
                    /\ planes'[c].pools = <<>>
      BY <1>2, <2>3 DEF NoPlane
    <2>4. ASSUME run.plane \in Planes,
                 planes' = [planes EXCEPT ![run.plane] =
                              [planes[run.plane] EXCEPT !.status = StatusFound]]
          PROVE  /\ planes'[c].uid = planes[c].uid /\ planes'[c].gen = planes[c].gen
                 /\ planes'[c].exists = planes[c].exists
                 /\ planes'[c].pools = planes[c].pools
      BY <1>2, <2>4 DEF Plane
    <2>5. \/ planes'[c] = planes[c]
          \/ /\ planes'[c].exists /\ planes'[c].uid = NextVersion
             /\ NextVersion' = NextVersion + 1
          \/ /\ planes[c].exists /\ planes'[c].uid = planes[c].uid
             /\ planes'[c].exists /\ planes'[c].gen = planes[c].gen + 1
          \/ planes'[c].uid = 0 /\ ~planes'[c].exists /\ planes'[c].pools = <<>>
          \/ /\ planes'[c].uid = planes[c].uid /\ planes'[c].gen = planes[c].gen
             /\ planes'[c].exists = planes[c].exists
             /\ planes'[c].pools = planes[c].pools
      BY <1>1, <1>8, <2>2, <2>3, <2>4, PlanesStep
    <2> QED BY <1>3, <1>4, <1>5, <2>1, <2>5
  <1> QED BY <1>7, <1>8

-----------------------------------------------------------------------------
(* Verdicts *)

\* A list of pools without a problem resolves.
LEMMA NoProblem ==
  ASSUME NEW list,
         \A i \in DOMAIN list : SeenProblem(list[i]) = "PoolsResolved"
  PROVE  SeenExpected(list) = "PoolsResolved"
  BY DEF SeenExpected

\* The verdict on a list of pools is that on the first one with a problem.
LEMMA FirstProblem ==
  ASSUME NEW list \in Seq(Pools), NEW n \in 1 .. Len(list),
         \A i \in DOMAIN list : i < n => SeenProblem(list[i]) = "PoolsResolved",
         SeenProblem(list[n]) # "PoolsResolved"
  PROVE  SeenExpected(list) = SeenProblem(list[n])
  <1> DEFINE bad == {i \in DOMAIN list : SeenProblem(list[i]) # "PoolsResolved"}
  <1>1. n \in bad /\ bad \subseteq Nat
    OBVIOUS
  <1>2. \A i \in bad : n <= i
    <2>1. SUFFICES ASSUME NEW i \in bad, ~(n <= i) PROVE FALSE
      OBVIOUS
    <2>2. i \in DOMAIN list /\ i \in Nat /\ n \in Nat
      BY <1>1, <2>1
    <2>3. i < n
      BY <2>1, <2>2
    <2> QED BY <2>1, <2>2, <2>3
  <1>3. Min(bad) = n
    <2> HIDE DEF bad
    <2>1. Min(bad) \in bad /\ Min(bad) <= n
      BY <1>1, LeastElement
    <2>2. n <= Min(bad) /\ Min(bad) \in Nat /\ n \in Nat
      BY <1>1, <1>2, <2>1
    <2> QED BY <2>1, <2>2
  <1>4. bad # {}
    BY <1>1
  <1> QED BY <1>3, <1>4 DEF SeenExpected

\* The verdict on a list rests on what the caches say of its pools.
LEMMA ExpectedFrame ==
  ASSUME NEW list \in Seq(Pools),
         \A p \in Range(list) : SeenProblem(p)' = SeenProblem(p)
  PROVE  SeenExpected(list)' = SeenExpected(list)
  <1>1. \A i \in DOMAIN list : SeenProblem(list[i])' = SeenProblem(list[i])
    BY DEF Range
  <1> DEFINE bad == {i \in DOMAIN list : SeenProblem(list[i]) # "PoolsResolved"}
  <1>2. bad' = bad
    BY <1>1
  <1>3. CASE bad = {}
    BY <1>2, <1>3 DEF SeenExpected
  <1>4. CASE bad # {}
    <2>1. bad \subseteq Nat /\ bad \subseteq DOMAIN list
      OBVIOUS
    <2>2. Min(bad) \in DOMAIN list
      <3> HIDE DEF bad
      <3> QED BY <1>4, <2>1, LeastElement
    <2> QED BY <1>1, <1>2, <1>4, <2>2 DEF SeenExpected
  <1> QED BY <1>3, <1>4

\* The verdict of the caches rests on the caches and the Secret.
LEMMA SameCaches ==
  ASSUME UNCHANGED <<seen, secret>>
  PROVE  /\ \A p : SeenProblem(p)' = SeenProblem(p)
         /\ \A list : SeenExpected(list)' = SeenExpected(list)
  BY DEF SeenExpected, SeenProblem

\* The lists of pools are lists, and a control plane's pools are pools.
LEMMA ListType ==
  ASSUME TypeInv, NEW c \in Planes
  PROVE  /\ seen.planes[c].pools \in Seq(Pools) /\ planes[c].pools \in Seq(Pools)
         /\ run.pools \in Seq(Pools)
         /\ Range(seen.planes[c].pools) \subseteq Pools
  <1>1. /\ seen.planes[c].pools \in PoolLists /\ planes[c].pools \in PoolLists
        /\ run.pools \in PoolLists
    BY DEF TypeInv, TypeOK, Caches, Plane, Run
  <1>2. /\ seen.planes[c].pools \in Seq(Pools) /\ planes[c].pools \in Seq(Pools)
        /\ run.pools \in Seq(Pools)
    BY <1>1, ControlPlaneAssumption
  <1> QED BY <1>2 DEF Range

\* A control plane whose verdict rests on nothing that changes stays settled.
LEMMA Unaffected ==
  ASSUME TypeInv, NEW c \in Planes, Settled(c),
         seen'.planes[c] = seen.planes[c], planes'[c] = planes[c],
         UNCHANGED <<pc, run>>,
         \A p \in Range(seen.planes[c].pools) :
           /\ seen'.pools[p] = seen.pools[p]
           /\ seen.pools[p] \in Providers =>
                seen'.providers[seen.pools[p]] = seen.providers[seen.pools[p]],
         UNCHANGED secret
  PROVE  Settled(c)'
  <1> DEFINE list == seen.planes[c].pools
  <1>1. list \in Seq(Pools) /\ Range(list) \subseteq Pools /\ list' = list
    BY ListType
  <1>2. \A p \in Range(list) : seen.pools[p] \in Providers \cup {NoRef, Absent}
    BY <1>1 DEF TypeInv, TypeOK, Caches, Ref
  <1>3. \A p \in Range(list) : SeenProblem(p)' = SeenProblem(p)
    <2>1. SUFFICES ASSUME NEW p \in Range(list)
                   PROVE  SeenProblem(p)' = SeenProblem(p)
      OBVIOUS
    <2>2. seen'.pools[p] = seen.pools[p] /\ secret' = secret
      OBVIOUS
    <2>3. CASE seen.pools[p] = Absent
      BY <2>2, <2>3 DEF SeenProblem
    <2>4. CASE seen.pools[p] = NoRef
      BY <2>2, <2>4, ControlPlaneAssumption DEF SeenProblem
    <2>5. CASE seen.pools[p] \in Providers
      <3>1. seen'.providers[seen.pools[p]] = seen.providers[seen.pools[p]]
        BY <2>5
      <3> QED BY <2>2, <2>5, <3>1, ControlPlaneAssumption DEF SeenProblem
    <2> QED BY <1>2, <2>3, <2>4, <2>5
  <1>4. SeenExpected(list)' = SeenExpected(list)
    <2> HIDE DEF list
    <2> QED BY <1>1, <1>3, ExpectedFrame
  <1>5. \A i \in DOMAIN list : SeenProblem(list[i])' = SeenProblem(list[i])
    BY <1>3 DEF Range
  <1>6. VerdictSaved(c) /\ seen.planes[c] = planes[c] => VerdictSaved(c)'
    BY <1>4 DEF VerdictSaved
  <1>7. VerdictComing(c) => VerdictComing(c)'
    <2>1. SUFFICES ASSUME VerdictComing(c) PROVE VerdictComing(c)'
      OBVIOUS
    <2>2. run.pools = list /\ run' = run /\ pc' = pc
      BY <2>1 DEF VerdictComing
    <2>3. ASSUME pc = "build"
          PROVE  /\ seen'.pools[run.pools[run.next]] = seen.pools[run.pools[run.next]]
                 /\ seen'.providers[run.ref] = seen.providers[run.ref]
      <3>1. /\ run.next \in Nat /\ run.next > 0 /\ run.next <= Len(list)
            /\ run.ref \in Providers
        BY <2>2, <2>3 DEF TypeInv, TypeOK, Run
      <3>2. list[run.next] \in Range(list)
        <4> HIDE DEF list
        <4>1. run.next \in DOMAIN list
          BY <1>1, <3>1
        <4> QED BY <4>1 DEF Range
      <3>3. run.ref = seen.pools[list[run.next]]
        BY <2>1, <2>2, <2>3 DEF VerdictComing
      <3>4. \A p \in Range(list) :
              /\ seen'.pools[p] = seen.pools[p]
              /\ seen.pools[p] \in Providers =>
                   seen'.providers[seen.pools[p]] = seen.providers[seen.pools[p]]
        OBVIOUS
      <3> HIDE DEF list
      <3>5. seen'.pools[list[run.next]] = seen.pools[list[run.next]]
        BY <3>2, <3>4
      <3>6. seen'.providers[run.ref] = seen.providers[run.ref]
        BY <3>1, <3>2, <3>3, <3>4
      <3> QED BY <2>2, <3>5, <3>6
    <2>4. seen'.planes[c].exists /\ run'.gen = seen'.planes[c].gen
          /\ run'.pools = seen'.planes[c].pools
      BY <2>1, <2>2 DEF VerdictComing
    <2>5. ASSUME pc' \in {"pool", "build"}, NEW i \in DOMAIN run'.pools, i < run'.next
          PROVE  SeenProblem(run.pools[i])' = "PoolsResolved"
      BY <1>5, <2>1, <2>2, <2>5 DEF VerdictComing
    <2>6. ASSUME pc' = "build"
          PROVE  /\ run'.ref = seen'.pools[run'.pools[run'.next]]
                 /\ run'.provider = seen'.providers[run'.ref]
                 /\ run'.provider.config \in {"valid", "invalid"}
      BY <2>1, <2>2, <2>3, <2>6 DEF VerdictComing
    <2>7. ASSUME pc' = "save"
          PROVE  run'.reason = SeenExpected(run.pools)'
      BY <1>4, <2>1, <2>2, <2>7 DEF VerdictComing
    <2> QED BY <2>4, <2>5, <2>6, <2>7 DEF VerdictComing
  <1> QED BY <1>6, <1>7 DEF Settled

\* The pools of a control plane, and what they refer to, are all its verdict
\* rests on.
LEMMA SamePools ==
  ASSUME NEW c \in Planes, seen'.planes[c] = seen.planes[c],
         \A p \in Range(seen.planes[c].pools) : seen'.pools[p] = seen.pools[p],
         notify \subseteq notify', Woken(c), c \in queue => c \in queue'
  PROVE  Woken(c)'
  BY DEF Woken, Touched

-----------------------------------------------------------------------------
(* Wake-ups *)

\* A change that an informer delivers wakes every control plane it affects.
LEMMA InformerWakes ==
  ASSUME TypeInv, WakeInv, Informers
  PROVE  WakeInv'
  <1>1. SUFFICES ASSUME NEW c \in Planes, ~Woken(c)'
                 PROVE  Settled(c)'
    BY DEF WakeInv
  <1>2. UNCHANGED <<planes, secret, queue, pc, run>>
    BY DEF Informers, SyncPlane, SyncPool, SyncProvider, objects
  <1>3. /\ c \notin queue' /\ c \notin notify'
        /\ \A p \in Range(seen'.planes[c].pools) :
             p \notin notify' /\ seen'.pools[p] \notin notify' \cap Providers
    BY <1>1 DEF Woken, Touched
  <1>4. Range(seen.planes[c].pools) \subseteq Pools
    BY ListType
  <1>s. seen \in Caches
    BY DEF TypeInv, TypeOK
  <1>5. ASSUME NEW d \in Planes, SyncPlane(d)
        PROVE  /\ notify' = notify \cup {d} /\ seen'.planes[c] = seen.planes[c]
               /\ seen'.pools = seen.pools /\ seen'.providers = seen.providers
    <2>1. /\ notify' = notify \cup {d} /\ seen'.pools = seen.pools
          /\ seen'.planes = [seen.planes EXCEPT ![d] = planes[d]]
          /\ seen'.providers = seen.providers
      BY <1>s, <1>5 DEF SyncPlane, Caches
    <2>2. c # d
      BY <1>3, <2>1
    <2> QED BY <1>s, <2>1, <2>2 DEF Caches
  <1>6. ASSUME NEW q \in Pools, SyncPool(q)
        PROVE  /\ notify' = notify \cup {q} /\ seen'.planes = seen.planes
               /\ \A p \in Range(seen.planes[c].pools) : seen'.pools[p] = seen.pools[p]
               /\ seen'.providers = seen.providers
    <2>1. /\ notify' = notify \cup {q} /\ seen'.planes = seen.planes
          /\ seen'.pools = [seen.pools EXCEPT ![q] = pools[q]]
          /\ seen'.providers = seen.providers
      BY <1>s, <1>6 DEF SyncPool, Caches
    <2>2. q \notin Range(seen.planes[c].pools)
      BY <1>3, <2>1
    <2>3. seen.pools \in [Pools -> Ref]
      BY <1>s DEF Caches
    <2> QED BY <1>4, <2>1, <2>2, <2>3
  <1>7. ASSUME NEW a \in Providers, SyncProvider(a)
        PROVE  /\ notify' = notify \cup {a} /\ seen'.planes = seen.planes
               /\ seen'.pools = seen.pools
               /\ \A p \in Range(seen.planes[c].pools) :
                    seen.pools[p] \in Providers =>
                      seen'.providers[seen.pools[p]] = seen.providers[seen.pools[p]]
    <2>1. /\ notify' = notify \cup {a} /\ seen'.planes = seen.planes
          /\ seen'.pools = seen.pools
          /\ seen'.providers = [seen.providers EXCEPT ![a] = providers[a]]
      BY <1>s, <1>7 DEF SyncProvider, Caches
    <2>2. \A p \in Range(seen.planes[c].pools) : seen.pools[p] # a
      BY <1>3, <2>1
    <2>3. seen.providers \in [Providers -> Provider]
      BY <1>s DEF Caches
    <2> QED BY <2>1, <2>2, <2>3
  <1>8. /\ notify \subseteq notify' /\ seen'.planes[c] = seen.planes[c]
        /\ \A p \in Range(seen.planes[c].pools) :
             /\ seen'.pools[p] = seen.pools[p]
             /\ seen.pools[p] \in Providers =>
                  seen'.providers[seen.pools[p]] = seen.providers[seen.pools[p]]
    BY <1>5, <1>6, <1>7 DEF Informers
  <1>9. Settled(c)
    BY <1>1, <1>2, <1>8, SamePools DEF WakeInv
  <1> QED BY <1>2, <1>8, <1>9, Unaffected

\* A handler turns an event into requests for all the control planes it touches.
LEMMA HandlerWakes ==
  ASSUME TypeInv, PlaneInv, WakeInv, NEW n \in Planes \cup Pools \cup Providers,
         Handle(n)
  PROVE  WakeInv'
  <1>1. SUFFICES ASSUME NEW c \in Planes, ~Woken(c)'
                 PROVE  Settled(c)'
    BY DEF WakeInv
  <1>2. /\ UNCHANGED <<planes, secret, seen, pc, run>>
        /\ notify' = notify \ {n} /\ queue' = queue \cup Requests(n)
    BY DEF Handle, objects
  <1>3. /\ c \notin queue' /\ c \notin notify'
        /\ \A p \in Range(seen.planes[c].pools) :
             p \notin notify' /\ seen.pools[p] \notin notify' \cap Providers
    BY <1>1, <1>2 DEF Woken, Touched
  <1>4. Range(seen.planes[c].pools) \subseteq Pools
    BY ListType
  <1>5. c \notin Requests(n)
    BY <1>2, <1>3
  <1>6. n # c
    <2>1. Requests(c) = {c}
      BY ControlPlaneAssumption DEF Requests
    <2> QED BY <1>5, <2>1
  <1>7. \A p \in Range(seen.planes[c].pools) : seen.planes[c].exists
    <2>1. CASE seen.planes[c].exists
      BY <2>1
    <2>2. CASE ~seen.planes[c].exists
      <3>1. seen.planes[c].pools = <<>>
        BY <2>2 DEF PlaneInv
      <3> QED BY <3>1 DEF Range
    <2> QED BY <2>1, <2>2
  <1>8. n \notin Range(seen.planes[c].pools)
    <2>1. SUFFICES ASSUME n \in Range(seen.planes[c].pools) PROVE FALSE
      OBVIOUS
    <2>2. n \in Pools /\ n \notin Planes
      BY <1>4, <2>1, ControlPlaneAssumption
    <2>3. Requests(n) = mapPoolToControllers(n)
      BY <2>2, ControlPlaneAssumption DEF Requests
    <2>4. c \in mapPoolToControllers(n)
      BY <1>7, <2>1 DEF mapPoolToControllers
    <2> QED BY <1>5, <2>3, <2>4
  <1>9. ASSUME NEW p \in Range(seen.planes[c].pools), seen.pools[p] = n,
               n \in Providers
        PROVE  FALSE
    <2>1. n \notin Planes /\ n \notin Pools
      BY <1>9, ControlPlaneAssumption
    <2>2. Requests(n) = mapProviderToControllers(n)
      BY <1>9, <2>1 DEF Requests
    <2>3. c \in mapProviderToControllers(n)
      BY <1>7, <1>9 DEF mapProviderToControllers
    <2> QED BY <1>5, <2>2, <2>3
  <1>10. ~Woken(c)
    BY <1>2, <1>3, <1>6, <1>8, <1>9 DEF Woken, Touched
  <1>11. Settled(c)
    BY <1>10 DEF WakeInv
  <1> QED BY <1>2, <1>11, Unaffected

\* Steps that change nothing a verdict rests on and take no event back.
LEMMA OthersWake ==
  ASSUME TypeInv, WakeInv, UNCHANGED <<planes, secret, seen, queue, pc, run>>,
         notify \subseteq notify'
  PROVE  WakeInv'
  <1>1. SUFFICES ASSUME NEW c \in Planes, ~Woken(c)'
                 PROVE  Settled(c)'
    BY DEF WakeInv
  <1>2. ~Woken(c)
    BY <1>1, SamePools
  <1>3. Settled(c)
    BY <1>2 DEF WakeInv
  <1> QED BY <1>3, Unaffected

\* A reconcile starts from what the caches hold, and leaves the other control
\* planes as they are.
LEMMA ReconcileWakes ==
  ASSUME TypeInv, WakeInv, NEW d \in Planes, Reconcile(d)
  PROVE  WakeInv'
  <1>1. SUFFICES ASSUME NEW c \in Planes, ~Woken(c)'
                 PROVE  Settled(c)'
    BY DEF WakeInv
  <1>2. /\ UNCHANGED <<planes, secret, seen, notify>> /\ pc = "idle"
        /\ queue' = queue \ {d}
    BY DEF Reconcile, objects, watch
  <1>3. CASE ~seen.planes[d].exists
    <2>1. UNCHANGED <<pc, run>>
      BY <1>3 DEF Reconcile
    <2>2. CASE c = d
      BY <1>2, <1>3, <2>1, <2>2 DEF Settled
    <2>3. CASE c # d
      <3>1. ~Woken(c)
        BY <1>1, <1>2, <2>3 DEF Woken, Touched
      <3>2. Settled(c)
        BY <3>1 DEF WakeInv
      <3> QED BY <1>2, <2>1, <3>2, Unaffected
    <2> QED BY <2>2, <2>3
  <1>4. CASE seen.planes[d].exists
    <2>1. /\ pc' = "pool"
          /\ run' = [NoRun EXCEPT !.plane = d, !.gen = seen.planes[d].gen,
                                  !.pools = seen.planes[d].pools]
      BY <1>4 DEF Reconcile, Goto
    <2>2. /\ run'.plane = d /\ run'.gen = seen.planes[d].gen
          /\ run'.pools = seen.planes[d].pools /\ run'.next = 1
      BY <2>1 DEF NoRun
    <2>3. CASE c = d
      <3>1. run'.pools \in Seq(Pools)
        BY <2>2, ListType
      <3>2. \A i \in DOMAIN run'.pools : ~(i < run'.next)
        BY <2>2, <3>1
      <3>3. VerdictComing(c)'
        BY <1>2, <1>4, <2>1, <2>2, <2>3, <3>2 DEF VerdictComing
      <3> QED BY <2>1, <2>2, <2>3, <3>3 DEF Settled
    <2>4. CASE c # d
      <3>1. ~Woken(c)
        BY <1>1, <1>2, <2>4 DEF Woken, Touched
      <3>2. seen.planes[c].exists /\ seen.planes[c] = planes[c] => VerdictSaved(c)
        BY <1>2, <3>1 DEF WakeInv, Settled
      <3>3. VerdictSaved(c) => VerdictSaved(c)'
        <4>1. \A list : SeenExpected(list)' = SeenExpected(list)
          BY <1>2, SameCaches
        <4> QED BY <1>2, <4>1 DEF VerdictSaved
      <3> QED BY <1>2, <2>2, <2>4, <3>2, <3>3 DEF Settled
    <2> QED BY <2>3, <2>4
  <1> QED BY <1>3, <1>4

\* The turns of the loop and the factory concern the control plane of the
\* reconcile: the others stay as they are, and so does that one if its verdict
\* keeps coming.
LEMMA WorkerWakes ==
  ASSUME TypeInv, WakeInv, pc \in {"pool", "build"}, run'.plane = run.plane,
         UNCHANGED <<planes, secret, seen, notify, queue>>, pc' # "idle",
         \A c \in Planes : c = run.plane /\ VerdictComing(c) => VerdictComing(c)'
  PROVE  WakeInv'
  <1>1. SUFFICES ASSUME NEW c \in Planes, ~Woken(c)'
                 PROVE  Settled(c)'
    BY DEF WakeInv
  <1>2. ~Woken(c)
    BY <1>1 DEF Woken, Touched
  <1>3. Settled(c) /\ pc # "idle"
    BY <1>2 DEF WakeInv
  <1>4. CASE c = run.plane
    BY <1>3, <1>4 DEF Settled
  <1>5. CASE c # run.plane
    <2>1. \A list : SeenExpected(list)' = SeenExpected(list)
      BY SameCaches
    <2>2. VerdictSaved(c) => VerdictSaved(c)'
      BY <2>1 DEF VerdictSaved
    <2> QED BY <1>3, <1>5, <2>2 DEF Settled
  <1> QED BY <1>4, <1>5

\* A verdict ends the loop at the first pool with a problem.
LEMMA VerdictFound ==
  ASSUME TypeInv, NEW c \in Planes, VerdictComing(c), pc \in {"pool", "build"},
         UNCHANGED <<seen, secret>>, run.next <= Len(run.pools),
         NEW why, why = SeenProblem(run.pools[run.next]), why # "PoolsResolved",
         Verdict(why)
  PROVE  VerdictComing(c)'
  <1>1. /\ run \in Run /\ run.pools \in Seq(Pools)
        /\ run.next \in Nat /\ run.next > 0
    BY ListType DEF TypeInv, TypeOK, Run
  <1>2. pc' = "save" /\ run'.reason = why /\ run'.pools = run.pools /\ run'.gen = run.gen
    BY <1>1 DEF Verdict, Goto, Run
  <1>3. run.next \in 1 .. Len(run.pools)
    BY <1>1
  <1>4. \A i \in DOMAIN run.pools :
          i < run.next => SeenProblem(run.pools[i]) = "PoolsResolved"
    BY DEF VerdictComing
  <1>5. SeenExpected(run.pools) = why
    BY <1>1, <1>3, <1>4, FirstProblem
  <1>6. \A list : SeenExpected(list)' = SeenExpected(list)
    BY SameCaches
  <1> QED BY <1>2, <1>5, <1>6 DEF VerdictComing

\* A pool without a problem leads to the next one.
LEMMA VerdictContinues ==
  ASSUME TypeInv, NEW c \in Planes, VerdictComing(c), pc \in {"pool", "build"},
         UNCHANGED <<seen, secret>>, run.next <= Len(run.pools),
         SeenProblem(run.pools[run.next]) = "PoolsResolved", Continue
  PROVE  VerdictComing(c)'
  <1>1. /\ run \in Run /\ run.pools \in Seq(Pools)
        /\ run.next \in Nat /\ run.next > 0
    BY ListType DEF TypeInv, TypeOK, Run
  <1>2. /\ pc' = "pool" /\ run'.pools = run.pools /\ run'.gen = run.gen
        /\ run'.next = run.next + 1
    BY <1>1 DEF Continue, Goto, Run
  <1>3. \A i \in DOMAIN run.pools :
          i < run.next + 1 => SeenProblem(run.pools[i]) = "PoolsResolved"
    <2>1. SUFFICES ASSUME NEW i \in DOMAIN run.pools, i < run.next + 1
                   PROVE  SeenProblem(run.pools[i]) = "PoolsResolved"
      OBVIOUS
    <2>2. i \in Nat
      BY <1>1
    <2>3. i < run.next \/ i = run.next
      BY <1>1, <2>1, <2>2
    <2> QED BY <2>1, <2>3 DEF VerdictComing
  <1>4. \A p : SeenProblem(p)' = SeenProblem(p)
    BY SameCaches
  <1> QED BY <1>2, <1>3, <1>4 DEF VerdictComing

\* A turn of the loop comes closer to the verdict.  A provider that is found among
\* those built was built from the object in the cache, so it has no problem.
LEMMA ResolveWakes ==
  ASSUME TypeInv, VersionInv, WakeInv, budget.secret = MaxSecretEdits, ResolvePool
  PROVE  WakeInv'
  <1>1. /\ pc = "pool" /\ run \in Run /\ run.plane \in Planes
        /\ UNCHANGED <<planes, secret, seen, notify, queue>>
    BY DEF ResolvePool, objects, watch, TypeInv, TypeOK
  <1> DEFINE ref == seen.pools[run.pools[run.next]]
             obj == seen.providers[ref]
  <1>2. CASE run.next > Len(run.pools) /\ Verdict("PoolsResolved")
    <2>1. /\ pc' = "save" /\ run'.reason = "PoolsResolved" /\ run'.pools = run.pools
          /\ run'.gen = run.gen /\ run'.plane = run.plane
      BY <1>1, <1>2 DEF Verdict, Goto, Run
    <2>2. ASSUME NEW c \in Planes, c = run.plane, VerdictComing(c)
          PROVE  VerdictComing(c)'
      <3>1. run.pools \in Seq(Pools) /\ run.next \in Nat
        BY <1>1, ListType DEF Run
      <3>2. \A i \in DOMAIN run.pools : i < run.next
        <4>1. SUFFICES ASSUME NEW i \in 1 .. Len(run.pools) PROVE i < run.next
          BY <3>1
        <4> QED BY <1>2, <3>1, <4>1
      <3>3. SeenExpected(run.pools) = "PoolsResolved"
        BY <1>1, <2>2, <3>2, NoProblem DEF VerdictComing
      <3>4. \A list : SeenExpected(list)' = SeenExpected(list)
        BY <1>1, SameCaches
      <3> QED BY <1>1, <2>1, <2>2, <3>3, <3>4 DEF VerdictComing
    <2> QED BY <1>1, <2>1, <2>2, WorkerWakes
  <1>3. ASSUME run.next <= Len(run.pools), NEW why \in Reasons,
               why = SeenProblem(run.pools[run.next]), why # "PoolsResolved",
               Verdict(why)
        PROVE  WakeInv'
    <2>1. pc' = "save" /\ run'.plane = run.plane
      BY <1>1, <1>3 DEF Verdict, Goto, Run
    <2>2. \A c \in Planes : c = run.plane /\ VerdictComing(c) => VerdictComing(c)'
      BY <1>1, <1>3, VerdictFound
    <2> QED BY <1>1, <2>1, <2>2, WorkerWakes
  <1>4. CASE run.next <= Len(run.pools) /\ ref = Absent /\ Verdict("PoolMissing")
    <2>1. SeenProblem(run.pools[run.next]) = "PoolMissing"
      BY <1>4, ControlPlaneAssumption DEF SeenProblem
    <2> QED BY <1>3, <1>4, <2>1 DEF Reasons
  <1>5. CASE run.next <= Len(run.pools) /\ ref = NoRef /\ Verdict("ProviderRefMissing")
    <2>1. SeenProblem(run.pools[run.next]) = "ProviderRefMissing"
      BY <1>5, ControlPlaneAssumption DEF SeenProblem
    <2> QED BY <1>3, <1>5, <2>1 DEF Reasons
  <1>6. CASE run.next <= Len(run.pools) /\ ref \in Providers
    <2>0. /\ obj \in Provider /\ ref # Absent /\ ref # NoRef
          /\ run.next \in Nat /\ run.next > 0
      BY <1>1, <1>6, ControlPlaneAssumption DEF TypeInv, TypeOK, Caches, Run
    <2>1. CASE obj.config = "absent" /\ Verdict("ProviderMissing")
      <3>1. SeenProblem(run.pools[run.next]) = "ProviderMissing"
        BY <1>6, <2>0, <2>1 DEF SeenProblem
      <3> QED BY <1>3, <1>6, <2>1, <3>1 DEF Reasons
    <2>2. CASE obj.config = "blank" /\ Verdict("ProviderTypeMissing")
      <3>1. SeenProblem(run.pools[run.next]) = "ProviderTypeMissing"
        BY <1>6, <2>0, <2>2 DEF SeenProblem
      <3> QED BY <1>3, <1>6, <2>2, <3>1 DEF Reasons
    <2>3. CASE obj.config \notin {"absent", "blank"} /\ Built(ref) /\ Continue
      <3>1. Copy(ref, obj)
        BY DEF Copy
      <3>2. built[ref] = obj.version
        BY <2>3 DEF Built
      <3>3. obj.config = "valid" /\ secret
        <4> HIDE DEF ref, obj
        <4> QED BY <1>6, <2>0, <2>3, <3>1, <3>2 DEF VersionInv
      <3>4. SeenProblem(run.pools[run.next]) = "PoolsResolved"
        BY <1>6, <2>0, <3>3 DEF SeenProblem
      <3>5. pc' = "pool" /\ run'.plane = run.plane
        BY <1>1, <2>3 DEF Continue, Goto, Run
      <3>6. \A c \in Planes : c = run.plane /\ VerdictComing(c) => VerdictComing(c)'
        BY <1>1, <1>6, <2>3, <3>4, VerdictContinues
      <3> QED BY <1>1, <3>5, <3>6, WorkerWakes
    <2>4. CASE /\ obj.config \notin {"absent", "blank"}
               /\ Goto("build", [run EXCEPT !.ref = ref, !.provider = obj])
      <3>1. pc' = "build" /\ run' = [run EXCEPT !.ref = ref, !.provider = obj]
        BY <2>4 DEF Goto
      <3>2. /\ run'.plane = run.plane /\ run'.gen = run.gen
            /\ run'.pools = run.pools /\ run'.next = run.next
            /\ run'.ref = ref /\ run'.provider = obj
        <4> HIDE DEF ref, obj
        <4> QED BY <1>1, <3>1 DEF Run
      <3>3. obj.config \in {"valid", "invalid"}
        BY <2>0, <2>4 DEF Provider
      <3>4. \A p : SeenProblem(p)' = SeenProblem(p)
        BY <1>1, SameCaches
      <3>5. \A c \in Planes : c = run.plane /\ VerdictComing(c) => VerdictComing(c)'
        BY <1>1, <3>1, <3>2, <3>3, <3>4 DEF VerdictComing
      <3> QED BY <1>1, <3>1, <3>2, <3>5, WorkerWakes
    <2>5. \/ obj.config = "absent" /\ Verdict("ProviderMissing")
          \/ obj.config = "blank" /\ Verdict("ProviderTypeMissing")
          \/ obj.config \notin {"absent", "blank"} /\ Built(ref) /\ Continue
          \/ /\ obj.config \notin {"absent", "blank"}
             /\ Goto("build", [run EXCEPT !.ref = ref, !.provider = obj])
      <3>1. run.pools \in Seq(Pools) /\ Len(run.pools) \in Nat
        BY <1>1, ListType
      <3>2. ~(run.next > Len(run.pools))
        BY <1>6, <2>0, <3>1
      <3>3. (CASE obj.config = "absent" -> Verdict("ProviderMissing")
               [] obj.config = "blank"  -> Verdict("ProviderTypeMissing")
               [] OTHER -> IF Built(ref) THEN Continue
                           ELSE Goto("build", [run EXCEPT !.ref = ref,
                                                          !.provider = obj]))
        BY <1>6, <2>0, <3>2 DEF ResolvePool
      <3> HIDE DEF ref, obj
      <3> QED BY <3>3
    <2> QED BY <2>1, <2>2, <2>3, <2>4, <2>5
  <1>7. \/ run.next > Len(run.pools) /\ Verdict("PoolsResolved")
        \/ run.next <= Len(run.pools) /\ ref = Absent /\ Verdict("PoolMissing")
        \/ run.next <= Len(run.pools) /\ ref = NoRef /\ Verdict("ProviderRefMissing")
        \/ run.next <= Len(run.pools) /\ ref \in Providers
    BY DEF ResolvePool
  <1> QED BY <1>2, <1>4, <1>5, <1>6, <1>7

\* The factory answers for the object that is in the cache.
LEMMA BuildWakes ==
  ASSUME TypeInv, WakeInv, BuildProvider
  PROVE  WakeInv'
  <1>1. /\ pc = "build" /\ run \in Run /\ run.plane \in Planes
        /\ run.ref \in Providers /\ run.next <= Len(run.pools)
        /\ run.provider \in Provider
        /\ UNCHANGED <<planes, secret, seen, notify, queue>>
    BY DEF BuildProvider, objects, watch, TypeInv, TypeOK, Run
  <1>2. "ProviderInitializationFailed" \in Reasons
    BY DEF Reasons
  <1>3. Continue \/ Verdict("ProviderInitializationFailed")
    BY DEF BuildProvider
  <1>4. pc' \in {"pool", "save"} /\ run'.plane = run.plane
    BY <1>1, <1>2, <1>3, GoesOnType
  <1>5. ASSUME NEW c \in Planes, c = run.plane, VerdictComing(c)
        PROVE  VerdictComing(c)'
    <2> DEFINE p == run.pools[run.next]
    <2>1. /\ seen.pools[p] = run.ref /\ seen.providers[run.ref] = run.provider
          /\ run.provider.config \in {"valid", "invalid"}
          /\ run.ref # Absent /\ run.ref # NoRef
      BY <1>1, <1>5, ControlPlaneAssumption DEF VerdictComing
    <2>2. CASE NewProvider(run.provider)
      <3>1. SeenProblem(p) = "PoolsResolved"
        <4> HIDE DEF p
        <4> QED BY <1>1, <2>1, <2>2 DEF NewProvider, SeenProblem
      <3>2. Continue
        BY <2>2 DEF BuildProvider
      <3> QED BY <1>1, <1>5, <3>1, <3>2, VerdictContinues
    <2>3. CASE ~NewProvider(run.provider)
      <3>1. SeenProblem(p) = "ProviderInitializationFailed"
        <4> HIDE DEF p
        <4> QED BY <1>1, <2>1, <2>3 DEF NewProvider, SeenProblem
      <3>2. Verdict("ProviderInitializationFailed")
        BY <2>3 DEF BuildProvider
      <3> QED BY <1>1, <1>5, <3>1, <3>2, VerdictFound
    <2> QED BY <2>2, <2>3
  <1> QED BY <1>1, <1>4, <1>5, WorkerWakes

\* A status that is saved is the verdict on the control plane it is saved to, and
\* one that could not be saved brings the control plane back into the queue.
LEMMA SaveWakes ==
  ASSUME TypeInv, WakeInv, SaveStatus
  PROVE  WakeInv'
  <1>1. SUFFICES ASSUME NEW c \in Planes, ~Woken(c)'
                 PROVE  Settled(c)'
    BY DEF WakeInv
  <1>2. /\ pc = "save" /\ run \in Run /\ run.plane \in Planes /\ pc' = "idle"
        /\ UNCHANGED <<secret, seen>> /\ planes \in [Planes -> Plane]
        /\ notify \subseteq notify' /\ queue \subseteq queue'
    BY DEF SaveStatus, Return, Goto, TypeInv, TypeOK
  <1>3. ~Woken(c)
    BY <1>1, <1>2, SamePools
  <1>4. Settled(c)
    BY <1>3 DEF WakeInv
  <1>5. \A list : SeenExpected(list)' = SeenExpected(list)
    BY <1>2, SameCaches
  <1>6. CASE c # run.plane
    <2>1. \/ planes' = planes
          \/ planes' = [planes EXCEPT ![run.plane].status = StatusFound]
      BY DEF SaveStatus
    <2>2. planes'[c] = planes[c]
      BY <1>2, <1>6, <2>1
    <2>3. VerdictSaved(c) => VerdictSaved(c)'
      BY <1>5, <2>2 DEF VerdictSaved
    <2> QED BY <1>2, <1>4, <1>6, <2>2, <2>3 DEF Settled
  <1>7. CASE c = run.plane
    <2>1. c \notin queue'
      BY <1>1 DEF Woken
    <2>2. /\ seen.planes[c] = planes[c]
          /\ planes' = [planes EXCEPT ![c].status = StatusFound]
      BY <1>7, <2>1 DEF SaveStatus
    <2>3. /\ planes'[c].status = StatusFound /\ planes'[c].gen = planes[c].gen
          /\ planes'[c].pools = planes[c].pools
      BY <1>2, <2>2 DEF Plane
    <2>4. VerdictComing(c)
      BY <1>2, <1>4, <1>7 DEF Settled
    <2>5. /\ run.gen = planes[c].gen /\ run.pools = planes[c].pools
          /\ run.reason = SeenExpected(run.pools)
      BY <1>2, <2>2, <2>4 DEF VerdictComing
    <2>6. /\ StatusFound.reason = run.reason /\ StatusFound.observed = run.gen
          /\ run.reason = "PoolsResolved" => StatusFound.pools = run.pools
      BY DEF StatusFound
    <2>7. VerdictSaved(c)'
      BY <1>5, <2>3, <2>5, <2>6 DEF VerdictSaved
    <2> QED BY <1>2, <2>7 DEF Settled
  <1> QED BY <1>6, <1>7

\* A restarted process lists every control plane there is.
LEMMA CrashWakes ==
  ASSUME TypeInv, Crash
  PROVE  WakeInv'
  <1>1. pc' = "idle" /\ seen' = Actual /\ notify' = Existing /\ planes' = planes
    BY DEF Crash, Return, Goto, objects
  <1>2. seen'.planes = planes
    BY <1>1 DEF Actual
  <1>3. ASSUME NEW c \in Planes, ~Woken(c)'
        PROVE  Settled(c)'
    <2>1. ~planes[c].exists
      BY <1>1, <1>3 DEF Woken, Touched, Existing
    <2> QED BY <1>1, <1>2, <2>1 DEF Settled
  <1> QED BY <1>3 DEF WakeInv

\* A control plane that users change is not what its informer has seen.
LEMMA PlaneEditWakes ==
  ASSUME TypeInv, PlaneInv, WakeInv, NEW d \in Planes, WritePlane(d) \/ DeletePlane(d)
  PROVE  WakeInv'
  <1>1. SUFFICES ASSUME NEW c \in Planes, ~Woken(c)'
                 PROVE  Settled(c)'
    BY DEF WakeInv
  <1>2. UNCHANGED <<secret, seen, notify, queue, pc, run>>
    BY DEF WritePlane, DeletePlane, watch
  <1>3. ~Woken(c)
    BY <1>1, <1>2, SamePools
  <1>4. Settled(c)
    BY <1>3 DEF WakeInv
  <1>5. planes \in [Planes -> Plane] /\ seen.planes[c] \in Plane
    BY DEF TypeInv, TypeOK, Caches
  <1>6. CASE c # d
    <2>1. planes'[c] = planes[c]
      BY <1>5, <1>6, WriteStep DEF DeletePlane
    <2> QED BY <1>2, <1>4, <2>1, Unaffected
  <1>7. CASE c = d
    <2>1. ~(seen.planes[c].exists /\ seen.planes[c] = planes'[c])
      <3>1. CASE DeletePlane(d)
        <4>1. planes'[c] = NoPlane
          BY <1>5, <1>7, <3>1 DEF DeletePlane
        <4> QED BY <4>1 DEF NoPlane
      <3>2. CASE WritePlane(d)
        <4>1. /\ seen.planes[c].uid \in Nat /\ seen.planes[c].gen \in Nat
              /\ planes[c].gen \in Nat /\ planes[c].uid \in Nat
              /\ NextVersion \in Nat
          BY <1>5, VersionType DEF Plane
        <4>2. CASE planes'[c].uid = NextVersion
          <5>1. seen.planes[c].uid < NextVersion
            BY DEF PlaneInv
          <5>2. seen.planes[c].uid # planes'[c].uid
            BY <4>1, <4>2, <5>1
          <5> QED BY <5>2
        <4>3. CASE /\ planes[c].exists /\ planes'[c].uid = planes[c].uid
                   /\ planes'[c].gen = planes[c].gen + 1
          <5>1. planes[c].uid = seen.planes[c].uid =>
                  seen.planes[c].gen <= planes[c].gen
            BY <4>3 DEF PlaneInv
          <5>2. \/ seen.planes[c].uid # planes'[c].uid
                \/ seen.planes[c].gen # planes'[c].gen
            BY <4>1, <4>3, <5>1
          <5> QED BY <5>2
        <4> QED BY <1>7, <3>2, <4>2, <4>3, WriteStep
      <3> QED BY <3>1, <3>2
    <2>2. VerdictComing(c) => VerdictComing(c)'
      <3>1. /\ \A p : SeenProblem(p)' = SeenProblem(p)
            /\ \A list : SeenExpected(list)' = SeenExpected(list)
        BY <1>2, SameCaches
      <3> QED BY <1>2, <3>1 DEF VerdictComing
    <2> QED BY <1>2, <1>4, <2>1, <2>2 DEF Settled
  <1> QED BY <1>6, <1>7

\* Every step of a system whose Secret nobody touches loses no wake-up.
LEMMA NextWakes ==
  ASSUME TypeInv, VersionInv, PlaneInv, budget.secret = MaxSecretEdits => WakeInv,
         [Next]_vars
  PROVE  budget'.secret = MaxSecretEdits => WakeInv'
  <1>1. SUFFICES ASSUME budget'.secret = MaxSecretEdits PROVE WakeInv'
    OBVIOUS
  <1>2. budget.secret = MaxSecretEdits /\ WakeInv /\ ~Spend("secret")
    <2>1. /\ budget.secret \in Nat /\ MaxSecretEdits \in Nat
          /\ budget.secret <= MaxSecretEdits
      BY VersionType DEF TypeInv
    <2>2. ~Spend("secret")
      <3>1. SUFFICES ASSUME Spend("secret") PROVE FALSE
        OBVIOUS
      <3>2. budget'.secret < budget.secret
        BY <3>1, VersionType
      <3> QED BY <1>1, <2>1, <3>2
    <2>3. budget'.secret = budget.secret
      BY <2>2, BudgetStep, VersionType
    <2> QED BY <1>1, <2>2, <2>3
  <1>3. CASE UNCHANGED vars
    <2>1. UNCHANGED <<planes, secret, seen, queue, pc, run, notify>>
      BY <1>3 DEF vars, objects, watch
    <2> QED BY <1>2, <2>1, OthersWake
  <1>4. CASE Informers
    BY <1>2, <1>4, InformerWakes
  <1>5. CASE Worker
    BY <1>2, <1>5, ResolveWakes, BuildWakes, SaveWakes DEF Worker
  <1>6. CASE Crash
    BY <1>6, CrashWakes
  <1>7. CASE Resync
    <2>1. UNCHANGED <<planes, secret, seen, queue, pc, run>> /\ notify \subseteq notify'
      BY <1>7 DEF Resync, objects
    <2> QED BY <1>2, <2>1, OthersWake
  <1>8. ASSUME NEW n \in Planes \cup Pools \cup Providers, Handle(n)
        PROVE  WakeInv'
    BY <1>2, <1>8, HandlerWakes
  <1>9. ASSUME NEW c \in Planes, Reconcile(c)
        PROVE  WakeInv'
    BY <1>2, <1>9, ReconcileWakes
  <1>10. CASE Users
    <2>1. ASSUME NEW c \in Planes, WritePlane(c) \/ DeletePlane(c)
          PROVE  WakeInv'
      BY <1>2, <2>1, PlaneEditWakes
    <2>2. CASE \/ \E p \in Pools : EditPool(p)
               \/ \E a \in Providers : EditProvider(a)
      <3>1. UNCHANGED <<planes, secret, seen, queue, pc, run, notify>>
        BY <2>2 DEF EditPool, EditProvider, watch
      <3> QED BY <1>2, <3>1, OthersWake
    <2>3. ~EditSecret
      BY <1>2 DEF EditSecret
    <2> QED BY <1>10, <2>1, <2>2, <2>3 DEF Users
  <1> QED BY <1>3, <1>4, <1>5, <1>6, <1>7, <1>8, <1>9, <1>10 DEF Next

\* The first events of the informers wake every control plane.
LEMMA InitWakes == Init => WakeInv
  <1>1. SUFFICES ASSUME Init, NEW c \in Planes, ~Woken(c)
        PROVE  Settled(c)
    BY DEF WakeInv
  <1>2. notify = Existing /\ pc = "idle"
    BY <1>1 DEF Init
  <1>3. seen.planes = planes
    BY <1>1 DEF Init, Actual
  <1>4. ~planes[c].exists
    BY <1>1, <1>2 DEF Woken, Touched, Existing
  <1> QED BY <1>2, <1>3, <1>4 DEF Settled

\* The invariant is inductive.
LEMMA ControlInvariant == Spec => []ControlInv
  <1>1. Init => ControlInv
    BY InitType, InitVersions, InitPlanes, InitWakes DEF ControlInv
  <1>2. ControlInv /\ [Next]_vars => ControlInv'
    <2>1. SUFFICES ASSUME ControlInv, [Next]_vars PROVE ControlInv'
      OBVIOUS
    <2>2. TypeInv' /\ VersionInv' /\ PlaneInv'
      BY <2>1, NextType, NextVersions, NextPlanes DEF ControlInv
    <2>3. budget'.secret = MaxSecretEdits => WakeInv'
      BY <2>1, NextWakes DEF ControlInv
    <2> QED BY <2>2, <2>3 DEF ControlInv
  <1> QED BY <1>1, <1>2, PTL DEF Spec

\* A provider that has been built was built from the object its version stands
\* for, so what the caches say of a pool is what is so when they are up to date.
LEMMA ProblemSeen ==
  ASSUME TypeInv, VersionInv, seen = Actual, budget.secret = MaxSecretEdits,
         NEW p \in Pools
  PROVE  Problem(p) = SeenProblem(p)
  <1>1. seen.pools = pools /\ seen.providers = providers
    BY DEF Actual
  <1>2. pools[p] \in Providers \cup {NoRef, Absent}
    BY DEF TypeInv, TypeOK, Ref
  <1>3. CASE pools[p] = Absent
    BY <1>1, <1>3, ControlPlaneAssumption DEF Problem, SeenProblem
  <1>4. CASE pools[p] = NoRef
    BY <1>1, <1>4, ControlPlaneAssumption DEF Problem, SeenProblem
  <1>5. CASE pools[p] \in Providers
    <2> DEFINE a == pools[p]
               obj == providers[a]
    <2>1. obj \in Provider /\ a # Absent /\ a # NoRef
      BY <1>5, ControlPlaneAssumption DEF TypeInv, TypeOK
    <2>2. Copy(a, obj)
      BY DEF Copy
    <2>3. built[a] = obj.version /\ obj.config # "absent" =>
            obj.config = "valid" /\ secret
      <3> HIDE DEF obj, a
      <3>1. a \in Providers
        BY <1>5 DEF a
      <3> QED BY <2>1, <2>2, <3>1 DEF VersionInv
    <2>4. obj.config \in {"absent", "valid", "blank", "invalid"}
      BY <2>1 DEF Provider
    <2>5. CASE obj.config = "absent"
      BY <1>1, <1>5, <2>1, <2>5 DEF Problem, SeenProblem
    <2>6. CASE obj.config = "blank"
      BY <1>1, <1>5, <2>1, <2>6 DEF Problem, SeenProblem
    <2>7. CASE obj.config = "valid" /\ secret
      BY <1>1, <1>5, <2>1, <2>7 DEF Problem, SeenProblem
    <2>8. CASE obj.config \in {"valid", "invalid"} /\ ~(obj.config = "valid" /\ secret)
      <3>1. built[a] # obj.version
        BY <2>3, <2>8
      <3> QED BY <1>1, <1>5, <2>1, <2>8, <3>1 DEF Problem, SeenProblem
    <2> QED BY <2>4, <2>5, <2>6, <2>7, <2>8
  <1> QED BY <1>2, <1>3, <1>4, <1>5

\* The watches lose no wake-up, for any number of control planes, pools and
\* providers, edits, failed updates and restarts: a control plane for which
\* nothing is pending has the status that its pools and providers call for.
THEOREM WakeUps == Spec => []NoWakeUpLost
  <1>1. ControlInv => NoWakeUpLost
    <2>1. SUFFICES ASSUME ControlInv, budget.secret = MaxSecretEdits,
                          NEW c \in Planes, planes[c].exists, Quiet(c)
                   PROVE  UpToDate(c)
      BY DEF NoWakeUpLost
    <2>2. TypeInv /\ VersionInv /\ WakeInv
      BY <2>1 DEF ControlInv
    <2>3. /\ seen = Actual /\ notify = {} /\ c \notin queue /\ run.plane # c
      BY <2>1 DEF Quiet
    <2>4. ~Woken(c)
      BY <2>3 DEF Woken, Touched
    <2>5. seen.planes = planes
      BY <2>3 DEF Actual
    <2>6. VerdictSaved(c)
      BY <2>1, <2>2, <2>3, <2>4, <2>5 DEF WakeInv, Settled
    <2> DEFINE list == planes[c].pools
    <2>7. list \in Seq(Pools)
      BY <2>2, ListType
    <2>8. Expected(list) = SeenExpected(list)
      <3> HIDE DEF list
      <3>1. \A i \in DOMAIN list : Problem(list[i]) = SeenProblem(list[i])
        BY <2>1, <2>2, <2>3, <2>7, ProblemSeen
      <3> DEFINE bad == {i \in DOMAIN list : SeenProblem(list[i]) # "PoolsResolved"}
      <3>2. bad = {i \in DOMAIN list : Problem(list[i]) # "PoolsResolved"}
        BY <3>1
      <3>3. CASE bad = {}
        BY <3>2, <3>3 DEF Expected, SeenExpected
      <3>4. CASE bad # {}
        <4>1. bad \subseteq Nat /\ bad \subseteq DOMAIN list
          BY <2>7
        <4>2. Min(bad) \in DOMAIN list
          <5> HIDE DEF bad
          <5> QED BY <3>4, <4>1, LeastElement
        <4>3. Expected(list) = Problem(list[Min(bad)])
          BY <3>2, <3>4 DEF Expected
        <4>4. SeenExpected(list) = SeenProblem(list[Min(bad)])
          BY <3>4 DEF SeenExpected
        <4> HIDE DEF bad
        <4> QED BY <3>1, <4>2, <4>3, <4>4
      <3> QED BY <3>3, <3>4
    <2> QED BY <2>6, <2>8 DEF VerdictSaved, UpToDate
  <1> QED BY <1>1, ControlInvariant, PTL
=============================================================================
