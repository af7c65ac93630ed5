----------------------------- MODULE SumLemmas -----------------------------
(***************************************************************************)
(* What sums over finite sets return: the lemmas by which custody, pools   *)
(* and deposits are balanced.                                              *)
(*                                                                         *)
(* SumFunctionOnSet(f, S) takes the elements of S one by one, in an order  *)
(* CHOOSE fixes.  The lemmas are proved by induction on the size of S; the *)
(* induction itself is that every non-empty set of naturals has a least    *)
(* element, which unlike the library's induction rules is first-order.     *)
(***************************************************************************)
EXTENDS Functions, Integers, FiniteSetTheorems, WellFoundedInduction, TLAPS

\* A set of naturals that holds 0 and every successor of its elements.
LEMMA Induction ==
    ASSUME NEW Good \in SUBSET Nat, 0 \in Good, \A n \in Good : n + 1 \in Good
    PROVE  Good = Nat
<1> SUFFICES ASSUME Nat \ Good # {} PROVE FALSE
  OBVIOUS
<1> DEFINE below == {ss \in Nat \X Nat : ss[1] < ss[2]}
<1>1. IsWellFoundedOn(below, Nat)
  BY NatLessThanWellFounded, Zenon DEF OpToRel
<1>2. \A n, m \in Nat : <<m, n>> \notin below => n <= m
  OBVIOUS
<1> HIDE DEF below
<1>3. PICK n \in Nat \ Good : \A m \in Nat \ Good : <<m, n>> \notin below
  <2>1. Nat \ Good \subseteq Nat
    OBVIOUS
  <2> QED
    BY <1>1, <2>1, WFMin
<1>4. n # 0 /\ n - 1 \in Nat
  BY <1>3
<1>5. n - 1 \in Good
  <2> SUFFICES ASSUME n - 1 \in Nat \ Good PROVE FALSE
    BY <1>4
  <2>1. <<n - 1, n>> \notin below
    BY <1>3
  <2>2. n <= n - 1
    BY <1>2, <1>3, <1>4, <2>1
  <2> QED
    BY <1>3, <2>2
<1>6. (n - 1) + 1 \in Good
  BY <1>5
<1> QED
  BY <1>3, <1>6

LEMMA LeastExists ==
    ASSUME NEW S \in SUBSET Nat, S # {} PROVE \E n \in S : \A m \in S : n <= m
<1> DEFINE below == {ss \in Nat \X Nat : ss[1] < ss[2]}
<1>1. IsWellFoundedOn(below, Nat)
  BY NatLessThanWellFounded, Zenon DEF OpToRel
<1>2. \A n, m \in Nat : <<m, n>> \notin below => n <= m
  OBVIOUS
<1> HIDE DEF below
<1>3. PICK n \in S : \A m \in S : <<m, n>> \notin below
  BY <1>1, WFMin
<1>4. \A m \in S : n <= m
  BY <1>2, <1>3
<1> QED
  BY <1>3, <1>4

-----------------------------------------------------------------------------
(* The recursion. *)

Pick(s) == CHOOSE x \in s : TRUE

\* g sums f over every subset of S.
Sums(g, f, S) ==
    g = [s \in SUBSET S |-> IF s = {} THEN 0 ELSE f[Pick(s)] + g[s \ {Pick(s)}]]

LEMMA PickIn == ASSUME NEW s, s # {} PROVE Pick(s) \in s
  BY DEF Pick

\* A set that loses its pick is smaller by one.
LEMMA PickSmaller ==
    ASSUME NEW S, IsFiniteSet(S), NEW s \in SUBSET S, s # {}
    PROVE  /\ s \ {Pick(s)} \in SUBSET S /\ IsFiniteSet(s)
           /\ Cardinality(s) \in Nat \ {0}
           /\ Cardinality(s \ {Pick(s)}) = Cardinality(s) - 1
<1>1. IsFiniteSet(s)
  BY FS_Subset
<1>2. Cardinality(s) \in Nat /\ Cardinality(s) # 0
  BY <1>1, FS_CardinalityType, FS_EmptySet
<1> QED
  BY <1>1, <1>2, PickIn, FS_RemoveElement

\* A property of sets that every subset of S has when the smaller ones do.
LEMMA SubsetInduction ==
    ASSUME NEW S, IsFiniteSet(S), NEW Good \in SUBSET SUBSET S,
           \A s \in SUBSET S : (\A t \in SUBSET s : t # s => t \in Good) => s \in Good
    PROVE  Good = SUBSET S
<1> DEFINE UpTo(n) == \A s \in SUBSET S : Cardinality(s) <= n => s \in Good
           Sizes == {n \in Nat : UpTo(n)}
<1>1. \A s \in SUBSET S : IsFiniteSet(s) /\ Cardinality(s) \in Nat
  BY FS_Subset, FS_CardinalityType
<1>2. ASSUME NEW s \in SUBSET S, NEW t \in SUBSET s, t # s
      PROVE  Cardinality(t) < Cardinality(s)
  <2>1. IsFiniteSet(s) /\ t \in SUBSET S
    BY <1>1
  <2>2. Cardinality(t) <= Cardinality(s) /\ (Cardinality(t) = Cardinality(s) => t = s)
    BY <2>1, FS_Subset
  <2> QED
    BY <1>1, <1>2, <2>1, <2>2
<1>3. 0 \in Sizes
  <2> SUFFICES ASSUME NEW s \in SUBSET S, Cardinality(s) <= 0 PROVE s \in Good
    OBVIOUS
  <2>1. \A t \in SUBSET s : t = s
    BY <1>1, <1>2
  <2> QED
    BY <2>1
<1>4. ASSUME NEW n \in Sizes PROVE n + 1 \in Sizes
  <2>1. n \in Nat /\ UpTo(n)
    BY <1>4
  <2>2. ASSUME NEW s \in SUBSET S, Cardinality(s) <= n + 1 PROVE s \in Good
    <3>1. ASSUME NEW t \in SUBSET s, t # s PROVE t \in Good
      BY <1>1, <1>2, <2>1, <2>2, <3>1
    <3> QED
      BY <3>1
  <2> QED
    BY <2>1, <2>2
<1>5. Sizes = Nat
  <2> HIDE DEF Sizes
  <2>1. Sizes \subseteq Nat
    BY DEF Sizes
  <2> QED
    BY <1>3, <1>4, <2>1, Induction
<1> QED
  BY <1>1, <1>5

LEMMA SumsExist == ASSUME NEW f, NEW S, IsFiniteSet(S) PROVE \E g : Sums(g, f, S)
<1> DEFINE Body(g, s) == IF s = {} THEN 0 ELSE f[Pick(s)] + g[s \ {Pick(s)}]
           UpTo(g, n) == \A s \in SUBSET S : Cardinality(s) <= n => g[s] = Body(g, s)
           Good == {n \in Nat : \E g : UpTo(g, n)}
<1>1. \A s \in SUBSET S : IsFiniteSet(s) /\ Cardinality(s) \in Nat
  BY FS_Subset, FS_CardinalityType
<1>2. 0 \in Good
  <2> DEFINE g == [s \in SUBSET S |-> 0]
  <2>1. \A s \in SUBSET S : Cardinality(s) <= 0 => s = {}
    BY <1>1, FS_EmptySet
  <2>2. UpTo(g, 0)
    BY <2>1
  <2> QED
    BY <2>2
<1>3. ASSUME NEW n \in Good PROVE n + 1 \in Good
  <2>1. PICK g : UpTo(g, n)
    BY <1>3
  <2> DEFINE h == [s \in SUBSET S |-> IF Cardinality(s) <= n THEN g[s] ELSE Body(g, s)]
  <2>2. ASSUME NEW s \in SUBSET S, Cardinality(s) <= n + 1
        PROVE  h[s] = Body(h, s)
    <3>1. h[s] = Body(g, s)
      BY <2>1
    <3>2. CASE s = {}
      BY <3>1, <3>2
    <3>3. CASE s # {}
      <4>1. /\ s \ {Pick(s)} \in SUBSET S
            /\ Cardinality(s) \in Nat /\ Cardinality(s \ {Pick(s)}) = Cardinality(s) - 1
        BY <3>3, PickSmaller
      <4>2. Cardinality(s \ {Pick(s)}) <= n
        BY <1>3, <2>2, <4>1
      <4>3. h[s \ {Pick(s)}] = g[s \ {Pick(s)}]
        BY <4>1, <4>2
      <4> QED
        BY <3>1, <4>3
    <3> QED
      BY <3>2, <3>3
  <2>3. UpTo(h, n + 1)
    BY <2>2
  <2>4. n + 1 \in Nat
    BY <1>3
  <2> QED
    BY <2>3, <2>4
<1>4. Good = Nat
  <2> HIDE DEF Good
  <2>1. Good \subseteq Nat
    BY DEF Good
  <2> QED
    BY <1>2, <1>3, <2>1, Induction
<1>5. Cardinality(S) \in Nat
  BY <1>1
<1>6. PICK g : UpTo(g, Cardinality(S))
  BY <1>4, <1>5
<1>7. \A s \in SUBSET S : Cardinality(s) <= Cardinality(S)
  BY FS_Subset
<1> DEFINE h == [s \in SUBSET S |-> g[s]]
<1>8. ASSUME NEW s \in SUBSET S PROVE h[s] = Body(h, s)
  <2>1. s # {} => s \ {Pick(s)} \in SUBSET S
    OBVIOUS
  <2> QED
    BY <1>6, <1>7, <2>1
<1>9. Sums(h, f, S)
  <2>1. h = [s \in SUBSET S |-> Body(h, s)]
    BY <1>8
  <2> QED
    BY <2>1 DEF Sums
<1> QED
  BY <1>9

\* Two functions that agree on s have the same sum there, whatever larger
\* sets their sums are defined on.
LEMMA SumsAgree ==
    ASSUME NEW S, IsFiniteSet(S), NEW T, NEW f, NEW e, NEW g, NEW h,
           Sums(g, f, S), Sums(h, e, T),
           NEW U, U \subseteq S, U \subseteq T, \A x \in U : f[x] = e[x]
    PROVE  g[U] = h[U]
<1> DEFINE Good == {s \in SUBSET U : g[s] = h[s]}
<1>1. IsFiniteSet(U)
  BY FS_Subset
<1>2. ASSUME NEW s \in SUBSET U, \A t \in SUBSET s : t # s => t \in Good
      PROVE  s \in Good
  <2>1. /\ g[s] = IF s = {} THEN 0 ELSE f[Pick(s)] + g[s \ {Pick(s)}]
        /\ h[s] = IF s = {} THEN 0 ELSE e[Pick(s)] + h[s \ {Pick(s)}]
    BY Zenon DEF Sums
  <2>2. CASE s = {}
    BY <2>1, <2>2
  <2>3. CASE s # {}
    <3>1. Pick(s) \in s
      BY <2>3, PickIn
    <3>2. g[s \ {Pick(s)}] = h[s \ {Pick(s)}]
      BY <1>2, <3>1
    <3> QED
      BY <2>1, <2>3, <3>1, <3>2
  <2> QED
    BY <2>2, <2>3
<1>3. Good = SUBSET U
  <2> HIDE DEF Good
  <2>1. Good \subseteq SUBSET U
    BY DEF Good
  <2> QED
    BY <1>1, <1>2, <2>1, SubsetInduction
<1> QED
  BY <1>3

-----------------------------------------------------------------------------
(* Sums over a finite set. *)

LEMMA SumIsOne ==
    ASSUME NEW f, NEW S, IsFiniteSet(S)
    PROVE  \E g : Sums(g, f, S) /\ SumFunctionOnSet(f, S) = g[S]
<1> DEFINE G == CHOOSE g : Sums(g, f, S)
<1>1. Sums(G, f, S)
  BY SumsExist
<1>2. SumFunctionOnSet(f, S) = G[S]
  BY DEF SumFunctionOnSet, FoldFunctionOnSet, MapThenFoldSet, Sums, Pick
<1> QED
  BY <1>1, <1>2

LEMMA SumCongruence ==
    ASSUME NEW S, IsFiniteSet(S), NEW f, NEW e, \A x \in S : f[x] = e[x]
    PROVE  SumFunctionOnSet(f, S) = SumFunctionOnSet(e, S)
<1>1. PICK g : Sums(g, f, S) /\ SumFunctionOnSet(f, S) = g[S]
  BY SumIsOne
<1>2. PICK h : Sums(h, e, S) /\ SumFunctionOnSet(e, S) = h[S]
  BY SumIsOne
<1> QED
  BY <1>1, <1>2, SumsAgree

LEMMA SumEmpty == ASSUME NEW f PROVE SumFunctionOnSet(f, {}) = 0
<1>1. PICK g : Sums(g, f, {}) /\ SumFunctionOnSet(f, {}) = g[{}]
  BY SumIsOne, FS_EmptySet
<1>2. g[{}] = 0
  BY <1>1 DEF Sums
<1> QED
  BY <1>1, <1>2

\* The element the sum takes first.
LEMMA SumPick ==
    ASSUME NEW S, IsFiniteSet(S), S # {}, NEW f
    PROVE  SumFunctionOnSet(f, S) = f[Pick(S)] + SumFunctionOnSet(f, S \ {Pick(S)})
<1> DEFINE R == S \ {Pick(S)}
<1>1. PICK g : Sums(g, f, S) /\ SumFunctionOnSet(f, S) = g[S]
  BY SumIsOne
<1>2. IsFiniteSet(R)
  BY FS_Subset
<1>3. PICK h : Sums(h, f, R) /\ SumFunctionOnSet(f, R) = h[R]
  BY <1>2, SumIsOne
<1>4. g[R] = h[R]
  BY <1>1, <1>2, <1>3, SumsAgree
<1>5. g[S] = f[Pick(S)] + g[R]
  BY <1>1, Zenon DEF Sums
<1> QED
  BY <1>1, <1>3, <1>4, <1>5

\* A set closed under addition holds the sums of its elements.
LEMMA SumClosed ==
    ASSUME NEW N, 0 \in N, \A m, n \in N : m + n \in N,
           NEW S, IsFiniteSet(S), NEW f, \A x \in S : f[x] \in N
    PROVE  SumFunctionOnSet(f, S) \in N
<1> DEFINE Good == {s \in SUBSET S : SumFunctionOnSet(f, s) \in N}
<1>1. ASSUME NEW s \in SUBSET S, \A t \in SUBSET s : t # s => t \in Good
      PROVE  s \in Good
  <2>1. CASE s = {}
    BY <2>1, SumEmpty
  <2>2. CASE s # {}
    <3>1. Pick(s) \in s /\ IsFiniteSet(s)
      BY <2>2, PickIn, FS_Subset
    <3>2. SumFunctionOnSet(f, s \ {Pick(s)}) \in N
      BY <1>1, <3>1
    <3>3. SumFunctionOnSet(f, s) = f[Pick(s)] + SumFunctionOnSet(f, s \ {Pick(s)})
      BY <2>2, <3>1, SumPick
    <3> QED
      BY <3>1, <3>2, <3>3
  <2> QED
    BY <2>1, <2>2
<1>2. Good = SUBSET S
  <2> HIDE DEF Good
  <2>1. Good \subseteq SUBSET S
    BY DEF Good
  <2> QED
    BY <1>1, <2>1, SubsetInduction
<1> QED
  BY <1>2

LEMMA SumInt ==
    ASSUME NEW S, IsFiniteSet(S), NEW f, \A x \in S : f[x] \in Int
    PROVE  SumFunctionOnSet(f, S) \in Int
<1>1. 0 \in Int /\ \A m, n \in Int : m + n \in Int
  OBVIOUS
<1> QED
  BY <1>1, SumClosed

LEMMA SumNat ==
    ASSUME NEW S, IsFiniteSet(S), NEW f, \A x \in S : f[x] \in Nat
    PROVE  SumFunctionOnSet(f, S) \in Nat
<1>1. 0 \in Nat /\ \A m, n \in Nat : m + n \in Nat
  OBVIOUS
<1> QED
  BY <1>1, SumClosed

\* The order does not matter: any element may be taken first.
LEMMA SumRemove ==
    ASSUME NEW S, IsFiniteSet(S), NEW f, \A x \in S : f[x] \in Int, NEW y \in S
    PROVE  SumFunctionOnSet(f, S) = f[y] + SumFunctionOnSet(f, S \ {y})
<1> DEFINE Sum(s) == SumFunctionOnSet(f, s)
           Good == {s \in SUBSET S : \A x \in s : Sum(s) = f[x] + Sum(s \ {x})}
<1>1. \A s \in SUBSET S : IsFiniteSet(s) /\ Sum(s) \in Int
  BY FS_Subset, SumInt
<1>2. \A s \in SUBSET S : s # {} => Pick(s) \in s /\ Sum(s) = f[Pick(s)] + Sum(s \ {Pick(s)})
  BY <1>1, PickIn, SumPick
<1> HIDE DEF Sum
<1>3. ASSUME NEW s \in SUBSET S, \A t \in SUBSET s : t # s => t \in Good,
             NEW x \in s
      PROVE  Sum(s) = f[x] + Sum(s \ {x})
  <2> DEFINE p == Pick(s)
  <2>1. p \in s /\ Sum(s) = f[p] + Sum(s \ {p})
    BY <1>2
  <2> HIDE DEF p
  <2>2. CASE p = x
    BY <2>1, <2>2
  <2>3. CASE p # x
    <3>1. s \ {p} \in Good /\ s \ {x} \in Good
      <4>1. \A t \in SUBSET s : t # s => t \in Good
        BY <1>3
      <4>2. /\ s \ {p} \in SUBSET s /\ s \ {p} # s
            /\ s \ {x} \in SUBSET s /\ s \ {x} # s
        BY <1>3, <2>1
      <4> HIDE DEF Good
      <4> QED
        BY <4>1, <4>2
    <3>2. Sum(s \ {p}) = f[x] + Sum((s \ {p}) \ {x})
      BY <2>3, <3>1
    <3>3. Sum(s \ {x}) = f[p] + Sum((s \ {x}) \ {p})
      BY <2>1, <2>3, <3>1
    <3>4. (s \ {p}) \ {x} = (s \ {x}) \ {p} /\ (s \ {p}) \ {x} \in SUBSET S
      OBVIOUS
    <3>5. Sum((s \ {p}) \ {x}) \in Int /\ f[p] \in Int /\ f[x] \in Int
      BY <1>1, <2>1, <3>4
    <3>6. Sum(s) = f[p] + (f[x] + Sum((s \ {p}) \ {x}))
      BY <2>1, <3>2
    <3>7. Sum(s \ {x}) = f[p] + Sum((s \ {p}) \ {x})
      BY <3>3, <3>4
    <3> QED
      BY <3>5, <3>6, <3>7
  <2> QED
    BY <2>2, <2>3
<1>4. Good = SUBSET S
  <2>1. \A s \in SUBSET S : (\A t \in SUBSET s : t # s => t \in Good) => s \in Good
    BY <1>3
  <2> HIDE DEF Good
  <2>2. Good \subseteq SUBSET S
    BY DEF Good
  <2> QED
    BY <2>1, <2>2, SubsetInduction
<1>5. Sum(S) = f[y] + Sum(S \ {y})
  BY <1>4
<1> QED
  BY <1>5 DEF Sum

LEMMA SumAdd ==
    ASSUME NEW S, IsFiniteSet(S), NEW y, y \notin S,
           NEW f, \A x \in S \cup {y} : f[x] \in Int
    PROVE  SumFunctionOnSet(f, S \cup {y}) = SumFunctionOnSet(f, S) + f[y]
<1>1. IsFiniteSet(S \cup {y}) /\ (S \cup {y}) \ {y} = S
  BY FS_AddElement
<1>2. SumFunctionOnSet(f, S) \in Int
  BY SumInt
<1>3. SumFunctionOnSet(f, S \cup {y}) = f[y] + SumFunctionOnSet(f, S)
  <2>1. y \in S \cup {y}
    OBVIOUS
  <2> QED
    BY <1>1, <2>1, SumRemove
<1> QED
  BY <1>2, <1>3

\* y takes the place of x.
LEMMA SumReplace ==
    ASSUME NEW S, IsFiniteSet(S), NEW x \in S, NEW y, y \notin S \ {x},
           NEW f, \A z \in S \cup {y} : f[z] \in Int
    PROVE  SumFunctionOnSet(f, (S \ {x}) \cup {y}) = SumFunctionOnSet(f, S) - f[x] + f[y]
<1> DEFINE Sum(s) == SumFunctionOnSet(f, s)
<1>1. IsFiniteSet(S \ {x})
  BY FS_Subset
<1>2. Sum(S) = f[x] + Sum(S \ {x})
  BY SumRemove
<1>3. Sum((S \ {x}) \cup {y}) = Sum(S \ {x}) + f[y]
  BY <1>1, SumAdd
<1>4. Sum(S \ {x}) \in Int /\ f[x] \in Int /\ f[y] \in Int
  BY <1>1, SumInt
<1> HIDE DEF Sum
<1>5. Sum((S \ {x}) \cup {y}) = Sum(S) - f[x] + f[y]
  BY <1>2, <1>3, <1>4
<1> QED
  BY <1>5 DEF Sum

\* One value of the function changes.
LEMMA SumPoint ==
    ASSUME NEW S, IsFiniteSet(S), NEW y \in S, NEW f, NEW e,
           \A x \in S : f[x] \in Int /\ e[x] \in Int,
           \A x \in S \ {y} : e[x] = f[x]
    PROVE  SumFunctionOnSet(e, S) = SumFunctionOnSet(f, S) - f[y] + e[y]
<1> DEFINE R == S \ {y}
<1>1. IsFiniteSet(R)
  BY FS_Subset
<1>2. /\ SumFunctionOnSet(f, S) = f[y] + SumFunctionOnSet(f, R)
      /\ SumFunctionOnSet(e, S) = e[y] + SumFunctionOnSet(e, R)
  BY SumRemove
<1>3. SumFunctionOnSet(e, R) = SumFunctionOnSet(f, R)
  BY <1>1, SumCongruence
<1>4. SumFunctionOnSet(f, R) \in Int /\ f[y] \in Int /\ e[y] \in Int
  BY <1>1, SumInt
<1> QED
  BY <1>2, <1>3, <1>4

\* No natural term exceeds the sum.
LEMMA SumLeast ==
    ASSUME NEW S, IsFiniteSet(S), NEW y \in S, NEW f, \A x \in S : f[x] \in Nat
    PROVE  f[y] <= SumFunctionOnSet(f, S)
<1>1. IsFiniteSet(S \ {y})
  BY FS_Subset
<1>2. SumFunctionOnSet(f, S) = f[y] + SumFunctionOnSet(f, S \ {y})
  BY SumRemove
<1>3. SumFunctionOnSet(f, S \ {y}) \in Nat /\ f[y] \in Nat
  BY <1>1, SumNat
<1> QED
  BY <1>2, <1>3

\* The sum of a difference.
LEMMA SumDifference ==
    ASSUME NEW S, IsFiniteSet(S), NEW f, NEW e, NEW d,
           \A x \in S : f[x] \in Int /\ e[x] \in Int /\ d[x] = f[x] - e[x]
    PROVE  SumFunctionOnSet(d, S) = SumFunctionOnSet(f, S) - SumFunctionOnSet(e, S)
<1> DEFINE Good == {s \in SUBSET S : SumFunctionOnSet(d, s)
                                         = SumFunctionOnSet(f, s) - SumFunctionOnSet(e, s)}
<1>1. ASSUME NEW s \in SUBSET S, \A t \in SUBSET s : t # s => t \in Good
      PROVE  s \in Good
  <2>1. CASE s = {}
    BY <2>1, SumEmpty
  <2>2. CASE s # {}
    <3> DEFINE x == Pick(s)
               R == s \ {x}
    <3>1. IsFiniteSet(s) /\ IsFiniteSet(R) /\ x \in s
      BY <2>2, FS_Subset, PickIn
    <3>2. /\ SumFunctionOnSet(d, s) = d[x] + SumFunctionOnSet(d, R)
          /\ SumFunctionOnSet(f, s) = f[x] + SumFunctionOnSet(f, R)
          /\ SumFunctionOnSet(e, s) = e[x] + SumFunctionOnSet(e, R)
      BY <2>2, <3>1, SumPick
    <3>3. R \in Good
      BY <1>1, <3>1
    <3>4. SumFunctionOnSet(f, R) \in Int /\ SumFunctionOnSet(e, R) \in Int
      <4>1. (\A z \in R : f[z] \in Int) /\ (\A z \in R : e[z] \in Int)
        OBVIOUS
      <4> QED
        BY <3>1, <4>1, SumInt
    <3>5. f[x] \in Int /\ e[x] \in Int /\ d[x] = f[x] - e[x]
      BY <3>1
    <3>6. SumFunctionOnSet(d, R) = SumFunctionOnSet(f, R) - SumFunctionOnSet(e, R)
      BY <3>3
    <3> HIDE DEF x, R
    <3>7. SumFunctionOnSet(d, s) = SumFunctionOnSet(f, s) - SumFunctionOnSet(e, s)
      BY <3>2, <3>4, <3>5, <3>6
    <3> QED
      BY <3>7
  <2> QED
    BY <2>1, <2>2
<1>2. Good \in SUBSET SUBSET S
  OBVIOUS
<1> HIDE DEF Good
<1>3. Good = SUBSET S
  BY <1>1, <1>2, SubsetInduction
<1>4. S \in Good
  BY <1>3
<1> QED
  BY <1>4 DEF Good

\* Terms that stand, one to one, for natural terms of another sum: each x of D
\* for that of h[x], which is no less.
LEMMA SumInto ==
    ASSUME NEW D, IsFiniteSet(D), NEW S, IsFiniteSet(S), NEW h \in [D -> S],
           \A x, y \in D : h[x] = h[y] => x = y,
           NEW f, \A x \in D : f[x] \in Nat, NEW e, \A x \in S : e[x] \in Nat,
           \A x \in D : f[x] <= e[h[x]]
    PROVE  SumFunctionOnSet(f, D) <= SumFunctionOnSet(e, S)
<1> DEFINE Sum(g, s) == SumFunctionOnSet(g, s)
           Good == {s \in SUBSET D : \A T \in SUBSET S :
                        (\A x \in s : h[x] \in T) => Sum(f, s) <= Sum(e, T)}
<1>1. /\ \A s \in SUBSET D : IsFiniteSet(s) /\ Sum(f, s) \in Nat
      /\ \A T \in SUBSET S : IsFiniteSet(T) /\ Sum(e, T) \in Nat
  <2>1. \A s \in SUBSET D : IsFiniteSet(s) /\ \A x \in s : f[x] \in Nat
    BY FS_Subset
  <2>2. \A T \in SUBSET S : IsFiniteSet(T) /\ \A x \in T : e[x] \in Nat
    BY FS_Subset
  <2> QED
    BY <2>1, <2>2, SumNat
<1>2. ASSUME NEW s \in SUBSET D, \A t \in SUBSET s : t # s => t \in Good
      PROVE  s \in Good
  <2> SUFFICES ASSUME NEW T \in SUBSET S, \A x \in s : h[x] \in T
               PROVE  Sum(f, s) <= Sum(e, T)
    OBVIOUS
  <2>1. CASE s = {}
    <3>1. Sum(f, s) = 0 /\ Sum(e, T) \in Nat
      BY <1>1, <2>1, SumEmpty
    <3> QED
      BY <3>1
  <2>2. CASE s # {}
    <3>1. PICK x \in s : x = Pick(s)
      BY <2>2, PickIn
    <3> DEFINE R == s \ {x}
    <3>2. R \in SUBSET s /\ R # s
      OBVIOUS
    <3>3. PICK U \in SUBSET S : U = T \ {h[x]}
      OBVIOUS
    <3>4. Sum(f, s) = f[x] + Sum(f, R)
      <4>1. IsFiniteSet(s) /\ s # {}
        BY <1>1, <2>2
      <4> QED
        BY <3>1, <4>1, SumPick
    <3>5. Sum(e, T) = e[h[x]] + Sum(e, U)
      <4>1. IsFiniteSet(T) /\ h[x] \in T /\ \A z \in T : e[z] \in Int
        BY <1>1
      <4> QED
        BY <3>3, <4>1, SumRemove
    <3>6. \A z \in R : h[z] \in U
      BY <3>3
    <3>7. Sum(f, R) <= Sum(e, U)
      BY <1>2, <3>2, <3>6
    <3>8. /\ Sum(f, R) \in Nat /\ Sum(e, U) \in Nat
          /\ f[x] \in Nat /\ e[h[x]] \in Nat /\ f[x] <= e[h[x]]
      BY <1>1
    <3> HIDE DEF Sum, Good, R
    <3> QED
      BY <3>4, <3>5, <3>7, <3>8
  <2> QED
    BY <2>1, <2>2
<1>3. D \in Good
  <2>1. Good \in SUBSET SUBSET D
    OBVIOUS
  <2> HIDE DEF Good
  <2>2. Good = SUBSET D
    BY <1>2, <2>1, SubsetInduction
  <2> QED
    BY <2>2
<1>4. \A x \in D : h[x] \in S
  OBVIOUS
<1> QED
  BY <1>3, <1>4

\* A sum of zeros.
LEMMA SumZero ==
    ASSUME NEW S, IsFiniteSet(S), NEW f, \A x \in S : f[x] = 0
    PROVE  SumFunctionOnSet(f, S) = 0
<1>1. 0 \in {0} /\ \A m, n \in {0} : m + n \in {0}
  OBVIOUS
<1>2. \A x \in S : f[x] \in {0}
  OBVIOUS
<1>3. SumFunctionOnSet(f, S) \in {0}
  BY <1>1, <1>2, SumClosed
<1> QED
  BY <1>3

-----------------------------------------------------------------------------
(* What a step may do to a set: an element starts, moves to another, ends. *)

Starts(S, T, x) == x \notin S /\ T = S \cup {x}
Moves(S, T, x, y) == x \in S /\ y \notin S \ {x} /\ T = (S \ {x}) \cup {y}
Ends(S, T, x) == x \in S /\ T = S \ {x}

LEMMA FiniteSteps ==
    ASSUME NEW S, NEW T, NEW x, NEW y, IsFiniteSet(S),
           Starts(S, T, x) \/ Moves(S, T, x, y) \/ Ends(S, T, x)
    PROVE  IsFiniteSet(T)
<1>1. IsFiniteSet(S \ {x})
  BY FS_Subset
<1> QED
  BY <1>1, FS_AddElement DEF Starts, Moves, Ends

\* The sum of a natural weight over the chains after each.
LEMMA SumStarts ==
    ASSUME NEW U, NEW f \in [U -> Nat], NEW S \in SUBSET U, IsFiniteSet(S),
           NEW T, NEW x \in U, Starts(S, T, x)
    PROVE  SumFunctionOnSet(f, T) = SumFunctionOnSet(f, S) + f[x]
<1>1. \A z \in S \cup {x} : f[z] \in Int
  OBVIOUS
<1> QED
  BY <1>1, SumAdd DEF Starts

LEMMA SumMoves ==
    ASSUME NEW U, NEW f \in [U -> Nat], NEW S \in SUBSET U, IsFiniteSet(S),
           NEW T, NEW x, NEW y \in U, Moves(S, T, x, y)
    PROVE  SumFunctionOnSet(f, T) = SumFunctionOnSet(f, S) - f[x] + f[y]
<1>1. \A z \in S \cup {y} : f[z] \in Int
  OBVIOUS
<1> QED
  BY <1>1, SumReplace DEF Moves

LEMMA SumEnds ==
    ASSUME NEW U, NEW f \in [U -> Nat], NEW S \in SUBSET U, IsFiniteSet(S),
           NEW T, NEW x, Ends(S, T, x)
    PROVE  SumFunctionOnSet(f, T) = SumFunctionOnSet(f, S) - f[x]
<1>1. \A z \in S : f[z] \in Int
  OBVIOUS
<1>2. x \in S /\ T = S \ {x} /\ IsFiniteSet(T)
  BY FS_Subset DEF Ends
<1>3. SumFunctionOnSet(f, S) = f[x] + SumFunctionOnSet(f, T)
  BY <1>1, <1>2, SumRemove
<1>4. SumFunctionOnSet(f, T) \in Int /\ f[x] \in Int
  BY <1>1, <1>2, SumInt
<1> QED
  BY <1>3, <1>4

-----------------------------------------------------------------------------
(* The same when the values come with the set, as in [x \in S |-> Weight(x)]. *)

LEMMA SumOnDomain ==
    ASSUME NEW f PROVE SumFunction(f) = SumFunctionOnSet(f, DOMAIN f)
  BY DEF SumFunction, SumFunctionOnSet, FoldFunction

LEMMA SumGrows ==
    ASSUME NEW f, NEW e, IsFiniteSet(DOMAIN f), NEW y, y \notin DOMAIN f,
           DOMAIN e = DOMAIN f \cup {y}, e[y] \in Int,
           \A x \in DOMAIN f : f[x] \in Int /\ e[x] = f[x]
    PROVE  SumFunction(e) = SumFunction(f) + e[y]
<1> DEFINE S == DOMAIN f
<1>1. \A x \in S \cup {y} : e[x] \in Int
  OBVIOUS
<1>2. SumFunctionOnSet(e, S \cup {y}) = SumFunctionOnSet(e, S) + e[y]
  BY <1>1, SumAdd
<1>3. SumFunctionOnSet(e, S) = SumFunctionOnSet(f, S)
  BY SumCongruence
<1> QED
  BY <1>2, <1>3, SumOnDomain

LEMMA SumShrinks ==
    ASSUME NEW f, NEW e, IsFiniteSet(DOMAIN f), NEW y \in DOMAIN f,
           DOMAIN e = DOMAIN f \ {y},
           \A x \in DOMAIN f : f[x] \in Int, \A x \in DOMAIN e : e[x] = f[x]
    PROVE  SumFunction(e) = SumFunction(f) - f[y]
<1> DEFINE S == DOMAIN f
<1>1. SumFunctionOnSet(f, S) = f[y] + SumFunctionOnSet(f, S \ {y})
  BY SumRemove
<1>2. IsFiniteSet(S \ {y})
  BY FS_Subset
<1>3. SumFunctionOnSet(e, S \ {y}) = SumFunctionOnSet(f, S \ {y})
  BY <1>2, SumCongruence
<1>4. SumFunctionOnSet(f, S \ {y}) \in Int /\ f[y] \in Int
  BY <1>2, SumInt
<1> QED
  BY <1>1, <1>3, <1>4, SumOnDomain

LEMMA SumChanges ==
    ASSUME NEW f, NEW e, IsFiniteSet(DOMAIN f), NEW y \in DOMAIN f, DOMAIN e = DOMAIN f,
           \A x \in DOMAIN f : f[x] \in Int, e[y] \in Int,
           \A x \in DOMAIN f \ {y} : e[x] = f[x]
    PROVE  SumFunction(e) = SumFunction(f) - f[y] + e[y]
<1>1. \A x \in DOMAIN f : f[x] \in Int /\ e[x] \in Int
  OBVIOUS
<1> QED
  BY <1>1, SumPoint, SumOnDomain
=============================================================================
