---------------------------- MODULE PodMatching -----------------------------
(***************************************************************************)
(* Which pods a pool is grown for: filterPodsForPool and podMatchesPool of *)
(* internal/controller/nodepool_controller.go, next to what the Kubernetes *)
(* scheduler makes of the same fields for a node of the pool.              *)
(*                                                                         *)
(* A pod's nodeSelector is a function from label keys to values; each term *)
(* of its required node affinity is a set of match expressions.  Label     *)
(* values are integers: a negative one stands for a word that does not     *)
(* parse as a number.                                                      *)
(***************************************************************************)
EXTENDS Integers, Sequences, FiniteSetsExt

CONSTANTS
  PoolLabels,    \* buildPoolLabelSet: pool label and machineTemplate.labels
  NodeLabels     \* all labels of a node of the pool, the kubelet's included

ASSUME PodMatchingAssumption ==
  /\ DOMAIN PoolLabels \subseteq DOMAIN NodeLabels
  /\ \A key \in DOMAIN PoolLabels : NodeLabels[key] = PoolLabels[key]

IsNumber(value) == value >= 0

\* One match expression against a set of labels.  Gt and Lt compare with the
\* first value, and fail when either side is not a number.
ExpressionHolds(expr, labels) ==
  LET has == expr.key \in DOMAIN labels
      number == has /\ IsNumber(labels[expr.key]) /\ IsNumber(expr.values[1])
      listed == has /\ \E i \in DOMAIN expr.values :
                         expr.values[i] = labels[expr.key]
  IN
  CASE expr.op = "In"           -> listed
    [] expr.op = "NotIn"        -> ~listed
    [] expr.op = "Exists"       -> has
    [] expr.op = "DoesNotExist" -> ~has
    [] expr.op = "Gt"           -> number /\ labels[expr.key] > expr.values[1]
    [] expr.op = "Lt"           -> number /\ labels[expr.key] < expr.values[1]

\* nodeSelectorTermMatches: a term without expressions holds.
TermMatches(term) == \A expr \in term : ExpressionHolds(expr, PoolLabels)

TermRequires(term) == \E expr \in term : expr.key \in DOMAIN PoolLabels

\* Mutant: the value of a nodeSelector entry is not compared.
SelectorKeysMatch(pod) == DOMAIN pod.selector \subseteq DOMAIN PoolLabels

SelectorMatches(pod) ==
  \A key \in DOMAIN pod.selector :
    key \in DOMAIN PoolLabels /\ pod.selector[key] = PoolLabels[key]

MatchingTerms(pod) == {i \in DOMAIN pod.terms : TermMatches(pod.terms[i])}

\* podMatchesPool: the pod matches, and the selector or the first matching term
\* names a label of the pool.
Targets(pod) ==
  LET terms == MatchingTerms(pod) IN
  /\ SelectorMatches(pod)
  /\ pod.terms # <<>> => terms # {}
  /\ \/ DOMAIN pod.selector # {}
     \/ terms # {} /\ TermRequires(pod.terms[Min(terms)])

-----------------------------------------------------------------------------
(* The scheduler: all labels of the node count, and a term without match   *)
(* expressions matches no node.                                            *)

Schedulable(pod) ==
  /\ \A key \in DOMAIN pod.selector :
       key \in DOMAIN NodeLabels /\ pod.selector[key] = NodeLabels[key]
  /\ pod.terms # <<>> =>
       \E i \in DOMAIN pod.terms :
         /\ pod.terms[i] # {}
         /\ \A expr \in pod.terms[i] : ExpressionHolds(expr, NodeLabels)

\* The pod relies on a label the kubelet adds, of which the pool knows nothing.
UsesForeignLabel(pod) ==
  \/ ~(DOMAIN pod.selector \subseteq DOMAIN PoolLabels)
  \/ \E i \in DOMAIN pod.terms : \E expr \in pod.terms[i] :
       expr.key \notin DOMAIN PoolLabels

HasEmptyTerm(pod) == \E i \in DOMAIN pod.terms : pod.terms[i] = {}
=============================================================================
