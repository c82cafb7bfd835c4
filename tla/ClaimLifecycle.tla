--------------------------- MODULE ClaimLifecycle ---------------------------
(***************************************************************************)
(* What a NodeSmithClaim promises to those who watch its status: the       *)
(* lifecycle Launch, Register, Initialize, Ready, with a bounded number of *)
(* launches before each registration, of which api/v1alpha1 and the        *)
(* comment on NodeClaimReconciler.Reconcile speak.  NodeClaim implements   *)
(* it.                                                                     *)
(***************************************************************************)
EXTENDS Naturals

CONSTANT MaxAttempts  \* maxLaunchAttempts

VARIABLES
  phase,     \* how far the claim is, "failed" when it was given up
  attempts,  \* status.launchAttempts
  deleting   \* the claim's deletion was asked for

lifecycleVars == <<phase, attempts, deleting>>

LifecycleInit ==
  /\ phase = "pending"
  /\ attempts = 0
  /\ deleting = FALSE

\* A machine was provisioned.
Launch ==
  /\ phase = "pending" /\ attempts < MaxAttempts
  /\ phase' = "launched"
  /\ attempts' = attempts + 1
  /\ UNCHANGED deleting

LaunchFails ==
  /\ phase = "pending" /\ attempts < MaxAttempts
  /\ attempts' = attempts + 1
  /\ UNCHANGED <<phase, deleting>>

\* The Node joined, and the attempts are counted anew.
Register ==
  /\ phase = "launched"
  /\ phase' = "registered"
  /\ attempts' = 0
  /\ UNCHANGED deleting

\* The Node did not join in time; the machine is given up.
Timeout ==
  /\ phase = "launched" /\ attempts < MaxAttempts
  /\ phase' = "pending"
  /\ UNCHANGED <<attempts, deleting>>

Initialize ==
  /\ phase = "registered"
  /\ phase' = "ready"
  /\ UNCHANGED <<attempts, deleting>>

\* The Node is gone or has been NotReady for too long: start again.
Recycle ==
  /\ phase \in {"registered", "ready"}
  /\ attempts' = attempts + 1
  /\ phase' = IF attempts' < MaxAttempts THEN "pending" ELSE "failed"
  /\ UNCHANGED deleting

GiveUp ==
  /\ phase \in {"pending", "launched"} /\ attempts >= MaxAttempts
  /\ phase' = "failed"
  /\ UNCHANGED <<attempts, deleting>>

\* A claim without a finalizer is gone at once.
Delete ==
  /\ phase # "gone" /\ ~deleting
  /\ deleting' = TRUE
  /\ phase' \in {phase, "gone"}
  /\ UNCHANGED attempts

Remove ==
  /\ deleting
  /\ phase' = "gone"
  /\ UNCHANGED <<attempts, deleting>>

LifecycleNext ==
  \/ Launch \/ LaunchFails \/ Register \/ Timeout \/ Initialize \/ Recycle
  \/ GiveUp \/ Delete \/ Remove

LifecycleSpec == LifecycleInit /\ [][LifecycleNext]_lifecycleVars
=============================================================================
