---------------------------- MODULE ControlPlane ----------------------------
(***************************************************************************)
(* The NodeSmithControlPlane controller (internal/controller/              *)
(* controlplane_controller.go): it resolves the pools a control plane      *)
(* lists and their providers, builds and caches the providers, and records *)
(* in the Ready condition whether everything resolved.                     *)
(*                                                                         *)
(* Users edit four kinds of objects.  Control planes, pools and providers  *)
(* reach the controller through informers, one per kind and not ordered    *)
(* among each other: an informer first changes its cache and later hands   *)
(* the event to a handler, which maps it to requests for control planes.   *)
(* A Secret is read from the API server when a provider is built and is    *)
(* not watched.  The controller has one worker (MaxConcurrentReconciles is *)
(* not set).  A pool and its provider are read from the caches in one      *)
(* step: the informers are independent, so reading the two one after the   *)
(* other sees nothing that another order of deliveries does not show.      *)
(***************************************************************************)
EXTENDS Naturals, Sequences, FiniteSetsExt, Functions

CONSTANTS
  Planes,          \* names of control planes
  Pools,           \* names of pools
  Providers,       \* names of providers
  PoolLists,       \* the values of spec.pools that users write
  NoRef,           \* an empty spec.providerRef
  Absent,          \* the state of a pool that does not exist
  MaxEdits,        \* bound on edits of control planes, pools and providers
  MaxSecretEdits,  \* bound on edits of the credentials Secret
  MaxFaults        \* bound on failed status updates and process crashes

ASSUME ControlPlaneAssumption ==
  /\ {MaxEdits, MaxSecretEdits, MaxFaults} \subseteq Nat
  /\ PoolLists \subseteq Seq(Pools) /\ <<>> \in PoolLists
  /\ NoRef \notin Providers /\ Absent \notin Providers \cup {NoRef}
  /\ Planes \cap Pools = {} /\ Planes \cap Providers = {}
  /\ Pools \cap Providers = {}

VARIABLES
  planes,     \* the NodeSmithControlPlanes on the API server
  pools,      \* spec.providerRef of every NodeSmithPool
  providers,  \* the NodeSmithProviders
  secret,     \* whether the credentials Secret is there and complete
  seen,       \* the informer caches of the three watched kinds
  notify,     \* objects whose event the handlers have yet to map
  queue,      \* the work queue
  built,      \* providerCache: the resourceVersion each provider has, or 0
  pc,         \* where the reconcile stands
  run,        \* its local variables
  budget      \* what remains of the bounds

objects == <<planes, pools, providers, secret>>
watch   == <<seen, notify>>
vars == <<objects, watch, queue, built, pc, run, budget>>

-----------------------------------------------------------------------------
(* Types *)

Reasons == {"PoolsResolved", "PoolMissing", "ProviderRefMissing",
            "ProviderMissing", "ProviderTypeMissing",
            "ProviderInitializationFailed"}

\* The Ready condition is True with the reason PoolsResolved and False with
\* any other; its message names the resolved pools.
Status == [reason : Reasons \cup {"Unset"}, observed : Nat, pools : PoolLists]

Plane == [exists : BOOLEAN, uid : Nat, gen : Nat, pools : PoolLists,
          status : Status]

\* A provider of config blank has no spec.type; one of config invalid has a
\* type without a factory or a spec that parseOptions refuses.
Provider == [version : Nat, config : {"absent", "valid", "blank", "invalid"}]

NoStatus == [reason |-> "Unset", observed |-> 0, pools |-> <<>>]
NoPlane == [exists |-> FALSE, uid |-> 0, gen |-> 0, pools |-> <<>>,
            status |-> NoStatus]
NoProvider == [version |-> 0, config |-> "absent"]

Ref == Providers \cup {NoRef, Absent}

Caches == [planes : [Planes -> Plane], pools : [Pools -> Ref],
           providers : [Providers -> Provider]]

Run == [plane : Planes \cup {Absent}, gen : Nat, pools : PoolLists,
        next : Nat, ref : Ref, provider : Provider, reason : Reasons]

NoRun == [plane |-> Absent, gen |-> 0, pools |-> <<>>, next |-> 1,
          ref |-> NoRef, provider |-> NoProvider, reason |-> "PoolsResolved"]

\* Every variable has its type.
TypeOK ==
  /\ planes \in [Planes -> Plane] /\ pools \in [Pools -> Ref]
  /\ providers \in [Providers -> Provider] /\ secret \in BOOLEAN
  /\ seen \in Caches
  /\ notify \subseteq Planes \cup Pools \cup Providers
  /\ queue \subseteq Planes
  /\ built \in [Providers -> Nat]
  /\ pc \in {"idle", "pool", "build", "save"}
  /\ run \in Run
  /\ budget \in [{"edit", "secret", "fault"} -> Nat]

Actual == [planes |-> planes, pools |-> pools, providers |-> providers]

\* What the informers list when the process starts.
Existing ==
  {c \in Planes : planes[c].exists} \cup
  {p \in Pools : pools[p] # Absent} \cup
  {a \in Providers : providers[a].config # "absent"}

\* The controller starts in a cluster whose control planes, pools and providers
\* have been written and are in order; the Secret may be missing.
Init ==
  /\ \E list \in [Planes -> PoolLists \ {<<>>}] :
       planes = [c \in Planes |-> [NoPlane EXCEPT !.exists = TRUE, !.uid = 1,
                                                 !.gen = 1, !.pools = list[c]]]
  /\ pools \in [Pools -> Providers]
  /\ providers = [a \in Providers |-> [version |-> 1, config |-> "valid"]]
  /\ secret \in BOOLEAN
  /\ seen = Actual
  /\ notify = Existing /\ queue = {}
  /\ built = [a \in Providers |-> 0]
  /\ pc = "idle" /\ run = NoRun
  /\ budget = [edit |-> MaxEdits, secret |-> MaxSecretEdits,
               fault |-> MaxFaults]

Spend(bound) ==
  /\ budget[bound] > 0
  /\ budget' = [budget EXCEPT ![bound] = @ - 1]

\* The API server's next resourceVersion: every edit moves it.
NextVersion == MaxEdits - budget.edit + 2

-----------------------------------------------------------------------------
(* Watches *)

\* Mutant: the pool that changed is looked for in status, not in spec.
PoolRequestsFromStatus(p) ==
  {c \in Planes : seen.planes[c].exists /\ p \in Range(seen.planes[c].status.pools)}

\* Mutant: the request carries the name of the pool.
PoolRequestsByPool(p) == {p}

mapPoolToControllers(p) ==
  {c \in Planes : seen.planes[c].exists /\ p \in Range(seen.planes[c].pools)}

\* The control planes that list a pool of the provider, or, when there are
\* none, all of them.
mapProviderToControllers(a) ==
  LET using == {c \in Planes : /\ seen.planes[c].exists
                               /\ \E p \in Range(seen.planes[c].pools) :
                                    seen.pools[p] = a}
  IN  IF using # {} THEN using ELSE {c \in Planes : seen.planes[c].exists}

Requests(n) ==
  CASE n \in Planes    -> {n}
    [] n \in Pools     -> mapPoolToControllers(n)
    [] n \in Providers -> mapProviderToControllers(n)

\* An informer receives a change: its cache holds the object's new state, and
\* the event waits for its handler.
SyncPlane(c) ==
  /\ seen.planes[c] # planes[c]
  /\ seen' = [seen EXCEPT !.planes[c] = planes[c]]
  /\ notify' = notify \cup {c}
  /\ UNCHANGED <<objects, queue, built, pc, run, budget>>

SyncPool(p) ==
  /\ seen.pools[p] # pools[p]
  /\ seen' = [seen EXCEPT !.pools[p] = pools[p]]
  /\ notify' = notify \cup {p}
  /\ UNCHANGED <<objects, queue, built, pc, run, budget>>

SyncProvider(a) ==
  /\ seen.providers[a] # providers[a]
  /\ seen' = [seen EXCEPT !.providers[a] = providers[a]]
  /\ notify' = notify \cup {a}
  /\ UNCHANGED <<objects, queue, built, pc, run, budget>>

Handle(n) ==
  /\ n \in notify
  /\ notify' = notify \ {n}
  /\ queue' = queue \cup Requests(n)
  /\ UNCHANGED <<objects, seen, built, pc, run, budget>>

Cached ==
  {c \in Planes : seen.planes[c].exists} \cup
  {p \in Pools : seen.pools[p] # Absent} \cup
  {a \in Providers : seen.providers[a].config # "absent"}

\* Mutant: the manager is started without a SyncPeriod.
NoResync == FALSE /\ UNCHANGED vars

\* SyncPeriod: every 30 seconds the informers hand out an event for every
\* cached object.  A resync matters when the controller has nothing else to do:
\* one that falls among other events only repeats their requests.
Resync ==
  /\ notify = {} /\ queue = {} /\ pc = "idle"
  /\ Cached # {}
  /\ notify' = Cached
  /\ UNCHANGED <<objects, seen, queue, built, pc, run, budget>>

-----------------------------------------------------------------------------
(* Reconcile *)

Goto(where, r) == pc' = where /\ run' = r

Return == Goto("idle", NoRun)

Verdict(why) == Goto("save", [run EXCEPT !.reason = why, !.ref = NoRef,
                                         !.provider = NoProvider])

\* The next pool of the loop over spec.pools.
Continue == Goto("pool", [run EXCEPT !.next = @ + 1, !.ref = NoRef,
                                     !.provider = NoProvider])

Reconcile(c) ==
  /\ pc = "idle" /\ c \in queue
  /\ queue' = queue \ {c}
  /\ IF seen.planes[c].exists
     THEN Goto("pool", [NoRun EXCEPT !.plane = c, !.gen = seen.planes[c].gen,
                                     !.pools = seen.planes[c].pools])
     ELSE UNCHANGED <<pc, run>>
  /\ UNCHANGED <<objects, watch, built, budget>>

\* ensureProvider's lookup in providerCache.
Built(a) == built[a] = seen.providers[a].version

\* One turn of the loop: the pool and its provider are read from the caches,
\* and ensureProvider looks for the provider among those it has built.
ResolvePool ==
  LET ref == seen.pools[run.pools[run.next]]
      obj == seen.providers[ref]
  IN
  /\ pc = "pool"
  /\ \/ run.next > Len(run.pools) /\ Verdict("PoolsResolved")
     \/ /\ run.next <= Len(run.pools)
        /\ \/ ref = Absent /\ Verdict("PoolMissing")
           \/ ref = NoRef /\ Verdict("ProviderRefMissing")
           \/ /\ ref \in Providers
              /\ CASE obj.config = "absent" -> Verdict("ProviderMissing")
                   [] obj.config = "blank"  -> Verdict("ProviderTypeMissing")
                   [] OTHER -> IF Built(ref) THEN Continue
                               ELSE Goto("build", [run EXCEPT !.ref = ref,
                                                              !.provider = obj])
  /\ UNCHANGED <<objects, watch, queue, built, budget>>

\* The factory: it parses the options and loads the credentials.
NewProvider(obj) == obj.config = "valid" /\ secret

\* ensureProvider calls the factory with the object that was read.  A failure is
\* not cached.
BuildProvider ==
  /\ pc = "build"
  /\ IF NewProvider(run.provider)
     THEN built' = [built EXCEPT ![run.ref] = run.provider.version] /\ Continue
     ELSE Verdict("ProviderInitializationFailed") /\ UNCHANGED built
  /\ UNCHANGED <<objects, watch, queue, budget>>

\* The status the reconcile has come to.
StatusFound ==
  [reason |-> run.reason, observed |-> run.gen,
   pools |-> IF run.reason = "PoolsResolved" THEN run.pools ELSE <<>>]

\* updateStatus writes it over the status of the object that has the name now.
\* It always carries a new lastSyncTime, which the API server keeps in seconds:
\* a status that is otherwise the same is an update, with an event of its own,
\* unless it comes within the same second.  When the cache stays behind, when
\* the control plane is gone or when the request fails, the error brings the
\* control plane back into the queue.
SaveStatus ==
  /\ pc = "save"
  /\ LET c == run.plane IN
     \/ /\ planes[c].exists /\ seen.planes[c] = planes[c]
        /\ planes' = [planes EXCEPT ![c].status = StatusFound]
        /\ \/ UNCHANGED notify
           \/ planes' = planes /\ notify' = notify \cup {c}
        /\ UNCHANGED <<queue, budget>>
     \/ /\ ~(planes[c].exists /\ seen.planes[c] = planes[c])
        /\ queue' = queue \cup {c}
        /\ UNCHANGED <<planes, notify, budget>>
     \/ /\ Spend("fault")
        /\ queue' = queue \cup {c}
        /\ UNCHANGED <<planes, notify>>
  /\ Return
  /\ UNCHANGED <<pools, providers, secret, seen, built>>

\* The process is restarted: empty queue and provider cache, new informers.
Crash ==
  /\ Spend("fault")
  /\ Return
  /\ queue' = {}
  /\ built' = [a \in Providers |-> 0]
  /\ seen' = Actual
  /\ notify' = Existing
  /\ UNCHANGED objects

-----------------------------------------------------------------------------
(* Users *)

WritePlane(c) ==
  /\ Spend("edit")
  /\ \E list \in PoolLists :
       \/ /\ planes[c].exists /\ list # planes[c].pools
          /\ planes' = [planes EXCEPT ![c].pools = list, ![c].gen = @ + 1]
       \/ /\ ~planes[c].exists
          /\ planes' = [planes EXCEPT ![c] =
                          [NoPlane EXCEPT !.exists = TRUE, !.uid = NextVersion,
                                          !.gen = 1, !.pools = list]]
  /\ UNCHANGED <<pools, providers, secret, watch, queue, built, pc, run>>

DeletePlane(c) ==
  /\ planes[c].exists
  /\ Spend("edit")
  /\ planes' = [planes EXCEPT ![c] = NoPlane]
  /\ UNCHANGED <<pools, providers, secret, watch, queue, built, pc, run>>

EditPool(p) ==
  /\ Spend("edit")
  /\ \E ref \in Ref \ {pools[p]} : pools' = [pools EXCEPT ![p] = ref]
  /\ UNCHANGED <<planes, providers, secret, watch, queue, built, pc, run>>

EditProvider(a) ==
  /\ Spend("edit")
  /\ \E config \in {"absent", "valid", "blank", "invalid"} \ {providers[a].config} :
       providers' = [providers EXCEPT ![a] =
                       IF config = "absent" THEN NoProvider
                       ELSE [version |-> NextVersion, config |-> config]]
  /\ UNCHANGED <<planes, pools, secret, watch, queue, built, pc, run>>

EditSecret ==
  /\ Spend("secret")
  /\ secret' = ~secret
  /\ UNCHANGED <<planes, pools, providers, watch, queue, built, pc, run>>

-----------------------------------------------------------------------------
Informers ==
  \/ \E c \in Planes : SyncPlane(c)
  \/ \E p \in Pools : SyncPool(p)
  \/ \E a \in Providers : SyncProvider(a)

Worker == ResolvePool \/ BuildProvider \/ SaveStatus

Users ==
  \/ \E c \in Planes : WritePlane(c) \/ DeletePlane(c)
  \/ \E p \in Pools : EditPool(p)
  \/ \E a \in Providers : EditProvider(a)
  \/ EditSecret

Next ==
  \/ Informers \/ Worker \/ Users \/ Crash \/ Resync
  \/ \E n \in Planes \cup Pools \cup Providers : Handle(n)
  \/ \E c \in Planes : Reconcile(c)

Spec == Init /\ [][Next]_vars

(***************************************************************************)
(* Fairness.  Informers deliver what they watch, handlers run, and the     *)
(* worker finishes its reconciles and takes every queued control plane in  *)
(* its turn (the queue is first in, first out).                            *)
(***************************************************************************)
Fairness ==
  /\ \A c \in Planes : WF_vars(SyncPlane(c)) /\ SF_vars(Reconcile(c))
  /\ \A p \in Pools : WF_vars(SyncPool(p))
  /\ \A a \in Providers : WF_vars(SyncProvider(a))
  /\ \A n \in Planes \cup Pools \cup Providers : WF_vars(Handle(n))
  /\ WF_vars(Worker)

FairSpec == Spec /\ Fairness

-----------------------------------------------------------------------------
(* Properties *)

\* What keeps pool p from resolving, as the objects are now.
Problem(p) ==
  LET obj == providers[pools[p]] IN
  CASE pools[p] = Absent -> "PoolMissing"
    [] pools[p] = NoRef  -> "ProviderRefMissing"
    [] pools[p] \in Providers ->
         CASE obj.config = "absent" -> "ProviderMissing"
           [] obj.config = "blank"  -> "ProviderTypeMissing"
           [] built[pools[p]] = obj.version \/ (obj.config = "valid" /\ secret)
                                    -> "PoolsResolved"
           [] OTHER                 -> "ProviderInitializationFailed"

\* The verdict on a list of pools: that on the first one with a problem.
Expected(list) ==
  LET bad == {i \in DOMAIN list : Problem(list[i]) # "PoolsResolved"} IN
  IF bad = {} THEN "PoolsResolved" ELSE Problem(list[Min(bad)])

UpToDate(c) ==
  LET status == planes[c].status IN
  /\ status.observed = planes[c].gen
  /\ status.reason = Expected(planes[c].pools)
  /\ status.reason = "PoolsResolved" => status.pools = planes[c].pools

\* Nothing is left that would bring about a reconcile of c.
Quiet(c) ==
  /\ seen = Actual /\ notify = {}
  /\ c \notin queue /\ run.plane # c

\* The watches lose no wake-up: when nothing is pending for a control plane,
\* its status is the verdict on its pools and providers as they are, however
\* their events were ordered and however often reconciles failed or crashed.
\* The Secret, which nothing watches, has not been touched.
NoWakeUpLost ==
  budget.secret = MaxSecretEdits =>
    \A c \in Planes : planes[c].exists /\ Quiet(c) => UpToDate(c)

\* With the periodic resync, which also makes up for changes of the Secret,
\* every status ends up as the verdict on what the users last wrote.
StatusSettles ==
  SF_vars(Resync) => <>[](\A c \in Planes : planes[c].exists => UpToDate(c))
=============================================================================
