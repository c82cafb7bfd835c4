--------------------------- MODULE DataInduction ----------------------------
(***************************************************************************)
(* Facts about data that the proofs of the components share: least         *)
(* elements, induction with a set in the place of the property, functions  *)
(* defined by recursion, and sums.                                         *)
(***************************************************************************)
EXTENDS FiniteSetsExt, FiniteSetTheorems, TLAPS

-----------------------------------------------------------------------------
(* Induction *)

\* A set of natural numbers that is not empty has a least element.
LEMMA LeastElement ==
  ASSUME NEW S \in SUBSET Nat, S # {}
  PROVE  Min(S) \in S /\ \A i \in S : Min(S) <= i
  <1> DEFINE R == {ss \in Nat \X Nat : ss[1] < ss[2]}
  <1>1. R = OpToRel(<, Nat)
    BY Zenon DEF OpToRel
  <1>2. IsWellFoundedOn(R, Nat)
    BY <1>1, NatLessThanWellFounded
  <1>3. PICK x \in S : \A y \in S : ~(<<y, x>> \in R)
    BY <1>2, WFMin
  <1>4. ASSUME NEW y \in S PROVE x <= y
    <2>1. ~(<<y, x>> \in R) /\ x \in Nat /\ y \in Nat
      BY <1>3
    <2>2. ~(y < x)
      BY <2>1
    <2> QED BY <2>1, <2>2
  <1> QED BY <1>4 DEF Min

\* A set with 0 and the successors of its members has all natural numbers.
LEMMA SetOfNaturals ==
  ASSUME NEW T, 0 \in T, \A n \in Nat : n \in T => n + 1 \in T
  PROVE  Nat \subseteq T
  <1>1. SUFFICES ASSUME Nat \ T # {} PROVE FALSE
    OBVIOUS
  <1> DEFINE m == Min(Nat \ T)
  <1>2. m \in Nat \ T /\ \A i \in Nat \ T : m <= i
    BY <1>1, LeastElement
  <1> HIDE DEF m
  <1>3. m # 0
    BY <1>2
  <1>4. m - 1 \in Nat /\ ~(m <= m - 1)
    BY <1>2, <1>3
  <1>5. m - 1 \in T
    BY <1>2, <1>4
  <1>6. (m - 1) + 1 \in T
    BY <1>4, <1>5
  <1> QED BY <1>2, <1>6

\* A set of subsets with {} and all that one more element makes of its members
\* has every subset of a finite set.
LEMMA SetOfSubsets ==
  ASSUME NEW S, IsFiniteSet(S), NEW Q, {} \in Q,
         \A s \in SUBSET S : \A x \in S \ s : s \in Q => s \cup {x} \in Q
  PROVE  SUBSET S \subseteq Q
  <1> DEFINE T == {n \in Nat : \A s \in SUBSET S : Cardinality(s) = n => s \in Q}
  <1>1. \A s \in SUBSET S : IsFiniteSet(s) /\ Cardinality(s) \in Nat
    BY FS_Subset, FS_CardinalityType
  <1>2. 0 \in T
    BY <1>1, FS_EmptySet
  <1>3. ASSUME NEW n \in Nat, n \in T PROVE n + 1 \in T
    <2>1. SUFFICES ASSUME NEW s \in SUBSET S, Cardinality(s) = n + 1
                   PROVE  s \in Q
      OBVIOUS
    <2>2. s # {}
      BY <2>1, FS_EmptySet
    <2>3. PICK x \in s : TRUE
      BY <2>2
    <2>4. s \ {x} \in SUBSET S /\ x \in S \ (s \ {x}) /\ s = (s \ {x}) \cup {x}
      OBVIOUS
    <2>5. Cardinality(s \ {x}) = n
      <3>1. Cardinality(s \ {x}) = Cardinality(s) - 1
        BY <1>1, FS_RemoveElement
      <3> QED BY <2>1, <3>1
    <2>6. s \ {x} \in Q
      BY <1>3, <2>4, <2>5
    <2>7. (s \ {x}) \cup {x} \in Q
      BY <2>4, <2>6
    <2> QED BY <2>4, <2>7
  <1>4. Nat \subseteq T
    <2> HIDE DEF T
    <2> QED BY <1>2, <1>3, SetOfNaturals
  <1> QED BY <1>1, <1>4

-----------------------------------------------------------------------------
(* Recursion *)

\* A recursion over D with values in V: the argument x leads to the call with
\* next[x], until the rank, which no x has above N, is down to 0.
Recursion(D, V, N, rank, base, next, op) ==
  /\ N \in Nat /\ rank \in [D -> Nat] /\ base \in [D -> V]
  /\ next \in [D -> D] /\ op \in [D \X V -> V]
  /\ \A x \in D : rank[x] <= N /\ (rank[x] # 0 => rank[next[x]] < rank[x])

Solves(g, D, rank, base, next, op) ==
  \A x \in D : g[x] = IF rank[x] = 0 THEN base[x] ELSE op[<<x, g[next[x]]>>]

\* A recursion that comes closer to its end with every call defines a function.
LEMMA RecursionDefines ==
  ASSUME NEW D, NEW V, NEW N, NEW rank, NEW base, NEW next, NEW op,
         Recursion(D, V, N, rank, base, next, op)
  PROVE  \E g \in [D -> V] : Solves(g, D, rank, base, next, op)
  <1>0. /\ N \in Nat /\ rank \in [D -> Nat] /\ base \in [D -> V]
        /\ next \in [D -> D] /\ op \in [D \X V -> V]
        /\ \A x \in D : rank[x] <= N /\ (rank[x] # 0 => rank[next[x]] < rank[x])
    BY DEF Recursion
  <1> DEFINE Turn(g, x) == IF rank[x] = 0 THEN base[x] ELSE op[<<x, g[next[x]]>>]
             T == {n \in Nat : \E g \in [D -> V] : \A x \in D :
                     rank[x] <= n => g[x] = Turn(g, x)}
  <1>1. 0 \in T
    <2>1. \A x \in D : rank[x] <= 0 => base[x] = Turn(base, x)
      BY <1>0
    <2> QED BY <1>0, <2>1
  <1>2. ASSUME NEW n \in Nat, n \in T PROVE n + 1 \in T
    <2>1. PICK g \in [D -> V] : \A x \in D : rank[x] <= n => g[x] = Turn(g, x)
      BY <1>2
    <2> DEFINE h == [x \in D |-> Turn(g, x)]
    <2>2. h \in [D -> V]
      <3>1. ASSUME NEW x \in D PROVE Turn(g, x) \in V
        BY <1>0, <3>1
      <3> HIDE DEF Turn
      <3> QED BY <3>1
    <2>3. ASSUME NEW x \in D, rank[x] <= n + 1
          PROVE  h[x] = Turn(h, x)
      <3>1. CASE rank[x] = 0
        BY <3>1
      <3>2. CASE rank[x] # 0
        <4>1. next[x] \in D /\ rank[next[x]] <= n
          <5>1. /\ rank[x] \in Nat /\ next[x] \in D /\ rank[next[x]] \in Nat
                /\ rank[next[x]] < rank[x]
            BY <1>0, <3>2
          <5> QED BY <2>3, <5>1
        <4>2. h[next[x]] = g[next[x]]
          BY <2>1, <4>1
        <4>3. h[x] = op[<<x, g[next[x]]>>]
          BY <3>2
        <4> HIDE DEF h
        <4> QED BY <3>2, <4>2, <4>3
      <3> QED BY <3>1, <3>2
    <2> HIDE DEF h, Turn
    <2> QED BY <2>2, <2>3
  <1>3. Nat \subseteq T
    <2> HIDE DEF T
    <2> QED BY <1>1, <1>2, SetOfNaturals
  <1>4. PICK g \in [D -> V] : \A x \in D : rank[x] <= N => g[x] = Turn(g, x)
    BY <1>0, <1>3
  <1> QED BY <1>0, <1>4 DEF Solves

\* What holds where such a recursion ends, and holds of x if it does of next[x],
\* holds everywhere.
LEMMA RecursionInduction ==
  ASSUME NEW D, NEW V, NEW N, NEW rank, NEW base, NEW next, NEW op, NEW Q,
         Recursion(D, V, N, rank, base, next, op),
         \A x \in D : rank[x] = 0 \/ next[x] \in Q => x \in Q
  PROVE  D \subseteq Q
  <1>0. /\ rank \in [D -> Nat] /\ next \in [D -> D]
        /\ \A x \in D : rank[x] # 0 => rank[next[x]] < rank[x]
    BY DEF Recursion
  <1> DEFINE T == {n \in Nat : \A x \in D : rank[x] <= n => x \in Q}
  <1>1. 0 \in T
    <2>1. ASSUME NEW x \in D, rank[x] <= 0 PROVE x \in Q
      <3>1. rank[x] = 0
        BY <1>0, <2>1
      <3> QED BY <3>1
    <2> QED BY <2>1
  <1>2. ASSUME NEW n \in Nat, n \in T PROVE n + 1 \in T
    <2>1. SUFFICES ASSUME NEW x \in D, rank[x] <= n + 1 PROVE x \in Q
      OBVIOUS
    <2>2. CASE rank[x] = 0
      BY <2>2
    <2>3. CASE rank[x] # 0
      <3>1. /\ rank[x] \in Nat /\ next[x] \in D /\ rank[next[x]] \in Nat
            /\ rank[next[x]] < rank[x]
        BY <1>0, <2>3
      <3>2. rank[next[x]] <= n
        BY <2>1, <3>1
      <3> QED BY <1>2, <3>1, <3>2
    <2> QED BY <2>2, <2>3
  <1>3. Nat \subseteq T
    <2> HIDE DEF T
    <2> QED BY <1>1, <1>2, SetOfNaturals
  <1>4. \A x \in D : rank[x] \in T /\ rank[x] <= rank[x]
    BY <1>0, <1>3
  <1> QED BY <1>4

-----------------------------------------------------------------------------
(* Sums *)

\* The recursion of SumFunctionOnSet takes elements away in some order.
Some(s) == CHOOSE x \in s : TRUE

Sums(f, S) ==
  CHOOSE g : g = [s \in SUBSET S |-> IF s = {} THEN 0
                                     ELSE f[Some(s)] + g[s \ {Some(s)}]]

\* SumFunctionOnSet is defined by that recursion.
LEMMA SumIsLast ==
  ASSUME NEW f, NEW S
  PROVE  SumFunctionOnSet(f, S) = Sums(f, S)[S]
  BY DEF Sums, Some, SumFunctionOnSet, FoldFunctionOnSet, MapThenFoldSet

\* The recursion defines a function with natural numbers for values.
LEMMA SumsDefined ==
  ASSUME NEW S, IsFiniteSet(S), NEW f, \A x \in S : f[x] \in Nat
  PROVE  /\ Sums(f, S) = [s \in SUBSET S |-> IF s = {} THEN 0
                                ELSE f[Some(s)] + Sums(f, S)[s \ {Some(s)}]]
         /\ \A s \in SUBSET S : Sums(f, S)[s] \in Nat
  <1> DEFINE D == SUBSET S
             rank == [s \in D |-> Cardinality(s)]
             next == [s \in D |-> IF s = {} THEN s ELSE s \ {Some(s)}]
             base == [s \in D |-> 0]
             op == [p \in D \X Nat |-> IF p[1] = {} THEN 0 ELSE f[Some(p[1])] + p[2]]
             N == Cardinality(S)
  <1>1. \A s \in D : /\ IsFiniteSet(s) /\ Cardinality(s) \in Nat
                     /\ Cardinality(s) <= N
                     /\ Cardinality(s) = 0 <=> s = {}
    BY FS_Subset, FS_CardinalityType, FS_EmptySet
  <1>2. \A s \in D : s # {} => Some(s) \in s /\ f[Some(s)] \in Nat
    BY DEF Some
  <1>3. /\ N \in Nat /\ rank \in [D -> Nat] /\ base \in [D -> Nat]
        /\ next \in [D -> D]
    BY <1>1, FS_CardinalityType
  <1>4. op \in [D \X Nat -> Nat]
    <2>1. ASSUME NEW p \in D \X Nat
          PROVE  (IF p[1] = {} THEN 0 ELSE f[Some(p[1])] + p[2]) \in Nat
      <3>1. p[1] \in D /\ p[2] \in Nat
        OBVIOUS
      <3> QED BY <1>2, <3>1
    <2> QED BY <2>1
  <1>5. \A s \in D : rank[s] <= N /\ (rank[s] # 0 => rank[next[s]] < rank[s])
    <2>1. SUFFICES ASSUME NEW s \in D, rank[s] # 0 PROVE rank[next[s]] < rank[s]
      BY <1>1
    <2>2. s # {} /\ Some(s) \in s
      BY <1>1, <1>2, <2>1
    <2>3. Cardinality(s \ {Some(s)}) = Cardinality(s) - 1
      BY <1>1, <2>2, FS_RemoveElement
    <2>4. next[s] = s \ {Some(s)} /\ s \ {Some(s)} \in D
      BY <2>2
    <2>5. rank[next[s]] = Cardinality(s) - 1 /\ rank[s] = Cardinality(s)
      BY <2>3, <2>4
    <2> HIDE DEF rank, next
    <2> QED BY <1>1, <2>5
  <1>6. Recursion(D, Nat, N, rank, base, next, op)
    <2> HIDE DEF rank, base, next, op, N, D
    <2> QED BY <1>3, <1>4, <1>5 DEF Recursion
  <1>7. ASSUME NEW s \in D
        PROVE  /\ rank[s] = 0 <=> s = {}
               /\ base[s] = 0 /\ (s # {} => next[s] = s \ {Some(s)})
               /\ \A v \in Nat : s # {} => op[<<s, v>>] = f[Some(s)] + v
    BY <1>1
  <1> HIDE DEF rank, next, base, op, N
  <1>8. PICK g \in [D -> Nat] : Solves(g, D, rank, base, next, op)
    BY <1>6, RecursionDefines
  <1>9. g = [s \in SUBSET S |-> IF s = {} THEN 0
                                ELSE f[Some(s)] + g[s \ {Some(s)}]]
    <2>1. ASSUME NEW s \in D
          PROVE  g[s] = IF s = {} THEN 0 ELSE f[Some(s)] + g[s \ {Some(s)}]
      <3>1. g[s \ {Some(s)}] \in Nat
        OBVIOUS
      <3>2. g[s] = IF rank[s] = 0 THEN base[s] ELSE op[<<s, g[next[s]]>>]
        BY <1>8 DEF Solves
      <3>3. CASE s = {}
        BY <1>7, <3>2, <3>3
      <3>4. CASE s # {}
        <4>1. g[s] = op[<<s, g[s \ {Some(s)}]>>]
          BY <1>7, <3>2, <3>4
        <4> QED BY <1>7, <3>1, <3>4, <4>1
      <3> QED BY <3>3, <3>4
    <2> QED BY <2>1
  <1> DEFINE sums == Sums(f, S)
  <1>10. sums = [s \in SUBSET S |-> IF s = {} THEN 0
                                    ELSE f[Some(s)] + sums[s \ {Some(s)}]]
    BY <1>9 DEF Sums
  <1> HIDE DEF sums
  <1> DEFINE Q == {s \in D : sums[s] \in Nat}
  <1>11. ASSUME NEW s \in D, rank[s] = 0 \/ next[s] \in Q
         PROVE  s \in Q
    <2>1. CASE s = {}
      BY <1>10, <2>1
    <2>2. CASE s # {}
      <3>1. sums[s \ {Some(s)}] \in Nat
        BY <1>7, <1>11, <2>2
      <3>2. sums[s] = f[Some(s)] + sums[s \ {Some(s)}]
        BY <1>10, <2>2
      <3> QED BY <1>2, <2>2, <3>1, <3>2
    <2> QED BY <2>1, <2>2
  <1>12. SUBSET S \subseteq Q
    <2> HIDE DEF Q
    <2> QED BY <1>6, <1>11, RecursionInduction
  <1> QED BY <1>10, <1>12 DEF sums

\* The sum over a set is the same in the recursion of any larger set.
LEMMA SumsOfSubset ==
  ASSUME NEW S, IsFiniteSet(S), NEW f, \A x \in S : f[x] \in Nat, NEW R \in SUBSET S
  PROVE  Sums(f, S)[R] = SumFunctionOnSet(f, R)
  <1> DEFINE T == {n \in Nat : \A s \in SUBSET R :
                     Cardinality(s) = n => Sums(f, S)[s] = Sums(f, R)[s]}
  <1>1. IsFiniteSet(R) /\ \A x \in R : f[x] \in Nat
    BY FS_Subset
  <1>2. \A s \in SUBSET R : /\ IsFiniteSet(s) /\ Cardinality(s) \in Nat
                            /\ Cardinality(s) = 0 <=> s = {}
    BY <1>1, FS_Subset, FS_CardinalityType, FS_EmptySet
  <1>3. Sums(f, S) = [s \in SUBSET S |-> IF s = {} THEN 0
                                ELSE f[Some(s)] + Sums(f, S)[s \ {Some(s)}]]
    BY SumsDefined
  <1>4. Sums(f, R) = [s \in SUBSET R |-> IF s = {} THEN 0
                                ELSE f[Some(s)] + Sums(f, R)[s \ {Some(s)}]]
    BY <1>1, SumsDefined
  <1> DEFINE large == Sums(f, S)
             small == Sums(f, R)
  <1>5. \A s \in SUBSET R :
          /\ large[s] = IF s = {} THEN 0 ELSE f[Some(s)] + large[s \ {Some(s)}]
          /\ small[s] = IF s = {} THEN 0 ELSE f[Some(s)] + small[s \ {Some(s)}]
    <2> HIDE DEF large, small
    <2>1. /\ large = [s \in SUBSET S |-> IF s = {} THEN 0
                                ELSE f[Some(s)] + large[s \ {Some(s)}]]
          /\ small = [s \in SUBSET R |-> IF s = {} THEN 0
                                ELSE f[Some(s)] + small[s \ {Some(s)}]]
      BY <1>3, <1>4 DEF large, small
    <2> QED BY <2>1
  <1> HIDE DEF large, small
  <1>6. T = {n \in Nat : \A s \in SUBSET R : Cardinality(s) = n => large[s] = small[s]}
    BY DEF large, small
  <1> HIDE DEF T
  <1>7. 0 \in T
    BY <1>2, <1>5, <1>6
  <1>8. ASSUME NEW n \in Nat, n \in T PROVE n + 1 \in T
    <2>1. SUFFICES ASSUME NEW s \in SUBSET R, Cardinality(s) = n + 1
                   PROVE  large[s] = small[s]
      BY <1>6
    <2>2. s # {}
      BY <1>2, <2>1
    <2>3. Some(s) \in s
      BY <2>2 DEF Some
    <2>4. Cardinality(s \ {Some(s)}) = Cardinality(s) - 1
      BY <1>2, <2>3, FS_RemoveElement
    <2>5. Cardinality(s \ {Some(s)}) = n /\ s \ {Some(s)} \in SUBSET R
      BY <2>1, <2>4
    <2>6. large[s \ {Some(s)}] = small[s \ {Some(s)}]
      BY <1>6, <1>8, <2>5
    <2> QED BY <1>5, <2>2, <2>6
  <1>9. Nat \subseteq T
    BY <1>7, <1>8, SetOfNaturals
  <1>10. large[R] = small[R]
    BY <1>2, <1>6, <1>9
  <1> QED BY <1>10, SumIsLast DEF large, small

\* A sum of natural numbers is one.
LEMMA SumType ==
  ASSUME NEW S, IsFiniteSet(S), NEW f, \A x \in S : f[x] \in Nat
  PROVE  SumFunctionOnSet(f, S) \in Nat
  BY SumsDefined, SumIsLast

\* The sum over no elements.
LEMMA SumEmpty ==
  ASSUME NEW f
  PROVE  SumFunctionOnSet(f, {}) = 0
  <1>1. IsFiniteSet({})
    BY FS_EmptySet
  <1>2. Sums(f, {}) = [s \in SUBSET {} |-> IF s = {} THEN 0
                                ELSE f[Some(s)] + Sums(f, {})[s \ {Some(s)}]]
    BY <1>1, SumsDefined
  <1>3. Sums(f, {})[{}] = 0
    <2> DEFINE g == Sums(f, {})
    <2>1. g = [s \in SUBSET {} |-> IF s = {} THEN 0
                                ELSE f[Some(s)] + g[s \ {Some(s)}]]
      BY <1>2
    <2> HIDE DEF g
    <2>2. g[{}] = 0
      BY <2>1
    <2> QED BY <2>2 DEF g
  <1> QED BY <1>3, SumIsLast

\* One element can be taken away.
LEMMA SumSome ==
  ASSUME NEW S, IsFiniteSet(S), NEW f, \A x \in S : f[x] \in Nat, S # {}
  PROVE  /\ Some(S) \in S
         /\ SumFunctionOnSet(f, S) = f[Some(S)] + SumFunctionOnSet(f, S \ {Some(S)})
  <1>1. Some(S) \in S
    BY DEF Some
  <1> DEFINE g == Sums(f, S)
  <1>2. g = [s \in SUBSET S |-> IF s = {} THEN 0 ELSE f[Some(s)] + g[s \ {Some(s)}]]
    BY SumsDefined
  <1>3. g[S] = SumFunctionOnSet(f, S)
    BY SumIsLast
  <1>4. g[S \ {Some(S)}] = SumFunctionOnSet(f, S \ {Some(S)})
    BY SumsOfSubset
  <1> HIDE DEF g
  <1> QED BY <1>1, <1>2, <1>3, <1>4

\* It does not matter which.
LEMMA SumRemove ==
  ASSUME NEW S, IsFiniteSet(S), NEW f, \A x \in S : f[x] \in Nat, NEW x \in S
  PROVE  SumFunctionOnSet(f, S) = f[x] + SumFunctionOnSet(f, S \ {x})
  <1> DEFINE Sum(s) == SumFunctionOnSet(f, s)
             T == {n \in Nat : \A s \in SUBSET S : Cardinality(s) = n =>
                     \A y \in s : Sum(s) = f[y] + Sum(s \ {y})}
  <1>1. \A s \in SUBSET S : /\ IsFiniteSet(s) /\ Cardinality(s) \in Nat
                            /\ Cardinality(s) = 0 <=> s = {}
                            /\ \A y \in s : f[y] \in Nat
    BY FS_Subset, FS_CardinalityType, FS_EmptySet
  <1>2. \A s \in SUBSET S : Sum(s) \in Nat
    BY <1>1, SumType
  <1>3. \A s \in SUBSET S : s # {} =>
          Some(s) \in s /\ Sum(s) = f[Some(s)] + Sum(s \ {Some(s)})
    BY <1>1, SumSome
  <1> HIDE DEF Sum
  <1>4. 0 \in T
    BY <1>1
  <1>5. ASSUME NEW n \in Nat, n \in T PROVE n + 1 \in T
    <2>1. SUFFICES ASSUME NEW s \in SUBSET S, Cardinality(s) = n + 1, NEW y \in s
                   PROVE  Sum(s) = f[y] + Sum(s \ {y})
      OBVIOUS
    <2> DEFINE z == Some(s)
    <2>2. z \in s /\ Sum(s) = f[z] + Sum(s \ {z})
      BY <1>3
    <2> HIDE DEF z
    <2>3. CASE y = z
      BY <2>2, <2>3
    <2>4. CASE y # z
      <3>1. /\ s \ {y} \in SUBSET S /\ s \ {z} \in SUBSET S
            /\ (s \ {y}) \ {z} = (s \ {z}) \ {y} /\ (s \ {z}) \ {y} \in SUBSET S
            /\ z \in s \ {y} /\ y \in s \ {z}
        BY <2>2, <2>4
      <3>2. Cardinality(s \ {y}) = n /\ Cardinality(s \ {z}) = n
        <4>1. /\ Cardinality(s \ {y}) = Cardinality(s) - 1
              /\ Cardinality(s \ {z}) = Cardinality(s) - 1
          BY <1>1, <2>2, FS_RemoveElement
        <4> QED BY <2>1, <4>1
      <3>3. Sum(s \ {z}) = f[y] + Sum((s \ {z}) \ {y})
        BY <1>5, <3>1, <3>2
      <3>4. Sum(s \ {y}) = f[z] + Sum((s \ {y}) \ {z})
        BY <1>5, <3>1, <3>2
      <3>5. f[y] \in Nat /\ f[z] \in Nat /\ Sum((s \ {z}) \ {y}) \in Nat
        BY <1>1, <1>2, <2>2, <3>1
      <3>6. Sum((s \ {y}) \ {z}) = Sum((s \ {z}) \ {y})
        BY <3>1
      <3> QED BY <2>2, <3>3, <3>4, <3>5, <3>6
    <2> QED BY <2>3, <2>4
  <1>6. Nat \subseteq T
    <2> HIDE DEF T
    <2> QED BY <1>4, <1>5, SetOfNaturals
  <1>7. Sum(S) = f[x] + Sum(S \ {x})
    BY <1>1, <1>6
  <1> QED BY <1>7 DEF Sum

\* Where two functions agree, or one is below the other, so are their sums.
LEMMA SumMonotonic ==
  ASSUME NEW S, IsFiniteSet(S), NEW f, NEW g,
         \A x \in S : f[x] \in Nat /\ g[x] \in Nat /\ f[x] <= g[x]
  PROVE  SumFunctionOnSet(f, S) <= SumFunctionOnSet(g, S)
  <1> DEFINE F(s) == SumFunctionOnSet(f, s)
             G(s) == SumFunctionOnSet(g, s)
             Q == {s \in SUBSET S : F(s) <= G(s)}
  <1>1. \A s \in SUBSET S : IsFiniteSet(s) /\ \A x \in s : f[x] \in Nat /\ g[x] \in Nat
    BY FS_Subset
  <1>2. \A s \in SUBSET S : F(s) \in Nat /\ G(s) \in Nat
    BY <1>1, SumType
  <1>3. \A s \in SUBSET S : \A x \in s :
          F(s) = f[x] + F(s \ {x}) /\ G(s) = g[x] + G(s \ {x})
    BY <1>1, SumRemove
  <1>4. F({}) = 0 /\ G({}) = 0
    BY SumEmpty
  <1> HIDE DEF F, G
  <1>5. {} \in Q
    BY <1>4
  <1>6. ASSUME NEW s \in SUBSET S, NEW x \in S \ s, s \in Q
        PROVE  s \cup {x} \in Q
    <2>1. s \cup {x} \in SUBSET S /\ x \in s \cup {x} /\ (s \cup {x}) \ {x} = s
      OBVIOUS
    <2>2. F(s \cup {x}) = f[x] + F(s) /\ G(s \cup {x}) = g[x] + G(s)
      BY <1>3, <2>1
    <2>3. F(s) \in Nat /\ G(s) \in Nat /\ F(s) <= G(s)
      BY <1>2, <1>6
    <2>4. F(s \cup {x}) <= G(s \cup {x})
      BY <2>2, <2>3
    <2> QED BY <2>1, <2>4
  <1>7. SUBSET S \subseteq Q
    <2> HIDE DEF Q
    <2> QED BY <1>5, <1>6, SetOfSubsets
  <1>8. F(S) <= G(S)
    BY <1>7
  <1> QED BY <1>8 DEF F, G

\* Functions that agree on a set have the same sum over it.
LEMMA SumEqual ==
  ASSUME NEW S, IsFiniteSet(S), NEW f, NEW g,
         \A x \in S : f[x] \in Nat /\ f[x] = g[x]
  PROVE  SumFunctionOnSet(f, S) = SumFunctionOnSet(g, S)
  <1>1. \A x \in S : f[x] \in Nat /\ g[x] \in Nat /\ f[x] <= g[x] /\ g[x] <= f[x]
    OBVIOUS
  <1>2. /\ SumFunctionOnSet(f, S) <= SumFunctionOnSet(g, S)
        /\ SumFunctionOnSet(g, S) <= SumFunctionOnSet(f, S)
    BY <1>1, SumMonotonic
  <1>3. SumFunctionOnSet(f, S) \in Nat /\ SumFunctionOnSet(g, S) \in Nat
    BY <1>1, SumType
  <1> QED BY <1>2, <1>3

\* The sum over two sets without a common element.
LEMMA SumUnion ==
  ASSUME NEW A, NEW B, IsFiniteSet(A), IsFiniteSet(B), A \cap B = {},
         NEW f, \A x \in A \cup B : f[x] \in Nat
  PROVE  SumFunctionOnSet(f, A \cup B) = SumFunctionOnSet(f, A) + SumFunctionOnSet(f, B)
  <1> DEFINE F(s) == SumFunctionOnSet(f, s)
             Q == {s \in SUBSET B : F(A \cup s) = F(A) + F(s)}
  <1>1. IsFiniteSet(A \cup B)
    BY FS_Union
  <1>2. \A s \in SUBSET (A \cup B) : IsFiniteSet(s) /\ \A x \in s : f[x] \in Nat
    BY <1>1, FS_Subset
  <1>3. \A s \in SUBSET (A \cup B) : F(s) \in Nat /\ \A x \in s : F(s) = f[x] + F(s \ {x})
    BY <1>2, SumType, SumRemove
  <1>4. F({}) = 0
    BY SumEmpty
  <1> HIDE DEF F
  <1>5. {} \in Q
    <2>1. A \cup {} = A /\ F(A) \in Nat
      BY <1>3
    <2> QED BY <1>4, <2>1
  <1>6. ASSUME NEW s \in SUBSET B, NEW x \in B \ s, s \in Q
        PROVE  s \cup {x} \in Q
    <2>1. /\ s \cup {x} \in SUBSET (A \cup B) /\ A \cup (s \cup {x}) \in SUBSET (A \cup B)
          /\ x \in s \cup {x} /\ (s \cup {x}) \ {x} = s
          /\ (A \cup (s \cup {x})) \ {x} = A \cup s
      OBVIOUS
    <2>2. /\ F(s \cup {x}) = f[x] + F(s)
          /\ F(A \cup (s \cup {x})) = f[x] + F(A \cup s)
      BY <1>3, <2>1
    <2>3. F(A) \in Nat /\ F(s) \in Nat /\ f[x] \in Nat /\ F(A \cup s) = F(A) + F(s)
      BY <1>3, <1>6
    <2>4. F(A \cup (s \cup {x})) = F(A) + F(s \cup {x})
      BY <2>2, <2>3
    <2> QED BY <2>4
  <1>7. SUBSET B \subseteq Q
    <2>1. \A s \in SUBSET B : \A x \in B \ s : s \in Q => s \cup {x} \in Q
      BY <1>6
    <2> HIDE DEF Q
    <2> QED BY ONLY IsFiniteSet(B), <1>5, <2>1, SetOfSubsets
  <1>8. F(A \cup B) = F(A) + F(B)
    BY <1>7
  <1> QED BY <1>8 DEF F

\* The sum over a part is not above the sum over the whole.
LEMMA SumPart ==
  ASSUME NEW B, IsFiniteSet(B), NEW A \in SUBSET B, NEW f, \A x \in B : f[x] \in Nat
  PROVE  SumFunctionOnSet(f, A) <= SumFunctionOnSet(f, B)
  <1>1. IsFiniteSet(A) /\ IsFiniteSet(B \ A) /\ A \cap (B \ A) = {} /\ A \cup (B \ A) = B
    BY FS_Subset
  <1>2. SumFunctionOnSet(f, B) = SumFunctionOnSet(f, A) + SumFunctionOnSet(f, B \ A)
    <2>1. \A x \in A \cup (B \ A) : f[x] \in Nat
      OBVIOUS
    <2>2. SumFunctionOnSet(f, A \cup (B \ A))
            = SumFunctionOnSet(f, A) + SumFunctionOnSet(f, B \ A)
      BY <1>1, <2>1, SumUnion
    <2> QED BY <1>1, <2>2
  <1>3. SumFunctionOnSet(f, A) \in Nat /\ SumFunctionOnSet(f, B \ A) \in Nat
    BY <1>1, SumType
  <1> QED BY <1>2, <1>3

\* A sum over 1..m, with the numbers moved up by n.
LEMMA SumMoved ==
  ASSUME NEW n \in Nat, NEW m \in Nat, NEW f, NEW g,
         \A k \in 1..m : g[k] \in Nat /\ f[n + k] = g[k]
  PROVE  SumFunctionOnSet(f, (n + 1)..(n + m)) = SumFunctionOnSet(g, 1..m)
  <1> DEFINE F(k) == SumFunctionOnSet(f, (n + 1)..(n + k))
             G(k) == SumFunctionOnSet(g, 1..k)
             T == {k \in Nat : k <= m => F(k) = G(k)}
  <1>1. 0 \in T
    <2>1. (n + 1)..(n + 0) = {} /\ 1..0 = {}
      OBVIOUS
    <2>2. F(0) = 0 /\ G(0) = 0
      BY <2>1, SumEmpty
    <2> HIDE DEF F, G
    <2> QED BY <2>2
  <1>2. ASSUME NEW k \in Nat, k \in T PROVE k + 1 \in T
    <2>1. SUFFICES ASSUME k + 1 <= m PROVE F(k + 1) = G(k + 1)
      <3> HIDE DEF F, G
      <3> QED BY <2>1
    <2>2. F(k) = G(k)
      <3> HIDE DEF F, G
      <3> QED BY <1>2, <2>1
    <2>3. /\ (n + (k + 1)) \in (n + 1)..(n + (k + 1)) /\ k + 1 \in 1..(k + 1)
          /\ ((n + 1)..(n + (k + 1))) \ {n + (k + 1)} = (n + 1)..(n + k)
          /\ (1..(k + 1)) \ {k + 1} = 1..k
      OBVIOUS
    <2>4. \A x \in 1..(k + 1) : g[x] \in Nat
      BY <2>1
    <2>5. \A x \in (n + 1)..(n + (k + 1)) : f[x] \in Nat
      <3>1. SUFFICES ASSUME NEW x \in (n + 1)..(n + (k + 1)) PROVE f[x] \in Nat
        OBVIOUS
      <3>2. x - n \in 1..m /\ n + (x - n) = x
        BY <2>1
      <3> QED BY <3>2
    <2>6. IsFiniteSet(1..(k + 1)) /\ IsFiniteSet((n + 1)..(n + (k + 1)))
      BY FS_Interval
    <2>7. F(k + 1) = f[n + (k + 1)] + F(k)
      <3> DEFINE S == (n + 1)..(n + (k + 1))
                 x == n + (k + 1)
      <3>1. IsFiniteSet(S) /\ (\A y \in S : f[y] \in Nat) /\ x \in S
        BY <2>3, <2>5, <2>6
      <3> HIDE DEF S, x
      <3>2. SumFunctionOnSet(f, S) = f[x] + SumFunctionOnSet(f, S \ {x})
        BY <3>1, SumRemove
      <3> QED BY <2>3, <3>2 DEF S, x
    <2>8. G(k + 1) = g[k + 1] + G(k)
      <3> DEFINE S == 1..(k + 1)
                 x == k + 1
      <3>1. IsFiniteSet(S) /\ (\A y \in S : g[y] \in Nat) /\ x \in S
        BY <2>3, <2>4, <2>6
      <3> HIDE DEF S, x
      <3>2. SumFunctionOnSet(g, S) = g[x] + SumFunctionOnSet(g, S \ {x})
        BY <3>1, SumRemove
      <3> QED BY <2>3, <3>2 DEF S, x
    <2>9. f[n + (k + 1)] = g[k + 1]
      BY <2>1
    <2> HIDE DEF F, G
    <2> QED BY <2>2, <2>7, <2>8, <2>9
  <1>3. Nat \subseteq T
    <2> HIDE DEF T
    <2> QED BY <1>1, <1>2, SetOfNaturals
  <1>4. F(m) = G(m)
    <2> HIDE DEF F, G
    <2> QED BY <1>3
  <1> QED BY <1>4

-----------------------------------------------------------------------------
(* Largest elements *)

\* A finite set of natural numbers that is not empty has a largest element.
LEMMA LargestElement ==
  ASSUME NEW S \in SUBSET Nat, IsFiniteSet(S), S # {}
  PROVE  Max(S) \in S /\ \A i \in S : i <= Max(S)
  <1> DEFINE Q == {s \in SUBSET S : s = {} \/ \E x \in s : \A y \in s : x >= y}
  <1>1. {} \in Q
    OBVIOUS
  <1>2. \A s \in SUBSET S : \A x \in S \ s : s \in Q => s \cup {x} \in Q
    <2>1. SUFFICES ASSUME NEW s \in SUBSET S, NEW x \in S \ s, s \in Q
                   PROVE  \E z \in s \cup {x} : \A y \in s \cup {x} : z >= y
      OBVIOUS
    <2>2. CASE s = {}
      BY <2>2
    <2>3. CASE s # {}
      <3>1. PICK z \in s : \A y \in s : z >= y
        BY <2>1, <2>3
      <3>2. CASE z >= x
        BY <3>1, <3>2
      <3>3. CASE ~(z >= x)
        BY <3>1, <3>3
      <3> QED BY <3>2, <3>3
    <2> QED BY <2>2, <2>3
  <1>3. SUBSET S \subseteq Q
    <2> HIDE DEF Q
    <2> QED BY ONLY IsFiniteSet(S), <1>1, <1>2, SetOfSubsets
  <1>4. PICK x \in S : \A y \in S : x >= y
    BY <1>3
  <1>5. Max(S) \in S /\ \A y \in S : Max(S) >= y
    BY <1>4 DEF Max
  <1> QED BY <1>5

\* A function takes finitely many values on a finite set.
LEMMA ImageFinite ==
  ASSUME NEW S, IsFiniteSet(S), NEW f
  PROVE  IsFiniteSet({f[x] : x \in S})
  <1> DEFINE T == {f[x] : x \in S}
             g == [x \in S |-> f[x]]
  <1>1. g \in Surjection(S, T)
    BY DEF Surjection
  <1> HIDE DEF T, g
  <1>2. IsFiniteSet(T)
    BY <1>1, FS_Surjection
  <1> QED BY <1>2 DEF T
=============================================================================
