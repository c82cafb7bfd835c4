----------------------------- MODULE MCScaleUp ------------------------------
(***************************************************************************)
(* An instance of ScaleUp for TLC.  The pool labels its nodes with itself  *)
(* and with a generation; the kubelet adds the operating system.  Pods are *)
(* small, large or without a memory request, and name the pool in          *)
(* different ways.                                                         *)
(***************************************************************************)
EXTENDS ScaleUp, TLC

ThisPool  == -1
OtherPool == -2
Linux     == -3

Labels == ("pool" :> ThisPool) @@ ("generation" :> 5)
AllLabels == Labels @@ ("os" :> Linux)

Expr(key, op, values) == [key |-> key, op |-> op, values |-> values]

Pod(cpu, mem, selector, terms) ==
  [requests |-> [cpu |-> cpu, mem |-> mem], selector |-> selector,
   terms |-> terms, absent |-> FALSE]

NoSelector == <<>>

\* One pod for each way to name the pool.  The last two are taken for the pool's
\* and can run on none of its nodes.
Specs ==
  {Pod(1, 1, "pool" :> ThisPool, <<>>),
   Pod(3, 2, NoSelector, <<{Expr("pool", "In", <<OtherPool>>)},
                           {Expr("pool", "In", <<ThisPool>>),
                            Expr("generation", "Gt", <<4>>)}>>),
   Pod(2, 0, NoSelector, <<{Expr("pool", "Exists", <<>>),
                            Expr("generation", "Lt", <<6>>),
                            Expr("gpu", "DoesNotExist", <<>>)}>>),
   Pod(1, 2, "pool" :> OtherPool, <<>>),
   Pod(1, 2, "pool" :> ThisPool, <<{}>>),
   Pod(1, 2, "pool" :> ThisPool, <<{Expr("os", "NotIn", <<Linux>>)}>>)}

NoLimit == [cpu |-> 0, mem |-> 0]
LimitOf8 == [cpu |-> 8, mem |-> 8]
HalfMiB == [cpu |-> 0, mem |-> 1]
HalfCore == [cpu |-> 1, mem |-> 0]
=============================================================================
