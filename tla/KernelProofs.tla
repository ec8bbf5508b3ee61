---------------------------- MODULE KernelProofs ----------------------------
(***************************************************************************)
(* Theorems about Kernel, for any number of actors, envelopes, holds,      *)
(* requests and tasks and any costs and budgets.  The lemmas about finite  *)
(* sums that this module and the ones that extend it need come first.      *)
(***************************************************************************)
EXTENDS KernelProps, FiniteSetTheorems, TLAPS

-----------------------------------------------------------------------------
(***************************************************************************)
(* Finite sums.  SumFunction folds a function by a recursive function on   *)
(* the subsets of its domain, choosing one element after the other.  The   *)
(* lemmas show that this recursion has a solution, that the order of the   *)
(* choices does not matter, and what a sum becomes when an element is      *)
(* added, removed or changed.  They are proved from the existence of       *)
(* minimal counterexamples (WFMin), which takes sets where the library's   *)
(* induction rules take predicates.                                        *)
(***************************************************************************)

\* The element the fold takes from a set next.
Pick(s) == CHOOSE x \in s : TRUE

\* g solves the recursion of SumFunctionOnSet(f, S).
Sums(g, f, S) ==
    g = [s \in SUBSET S |-> IF s = {} THEN 0 ELSE f[Pick(s)] + g[s \ {Pick(s)}]]

-----------------------------------------------------------------------------
\* A non-empty collection of subsets of a finite set has a minimal member.
LEMMA MinimalSubset ==
    ASSUME NEW S, IsFiniteSet(S), NEW B \in SUBSET (SUBSET S), B # {}
    PROVE  \E m \in B : \A u \in B : u \subseteq m => u = m
<1>1. IsWellFoundedOn(StrictSubsetOrdering(S), SUBSET S)
    BY FS_StrictSubsetOrderingWellFounded, FS_FiniteSubsetsOfFinite
<1>2. PICK m \in B : \A u \in B : ~(<<u, m>> \in StrictSubsetOrdering(S))
    BY <1>1, WFMin
<1>3. ASSUME NEW u \in B, u \subseteq m, u # m
      PROVE  FALSE
    <2>1. <<u, m>> \in (SUBSET S) \X (SUBSET S)
        OBVIOUS
    <2>2. <<u, m>> \in StrictSubsetOrdering(S)
        BY <1>3, <2>1 DEF StrictSubsetOrdering
    <2> QED
        BY <1>2, <1>3, <2>2
<1> QED
    BY <1>3

\* The fold takes an element of the set.
LEMMA PickIn ==
    ASSUME NEW s, s # {}
    PROVE  Pick(s) \in s
BY DEF Pick

\* Two solutions agree where both are defined.
LEMMA SumsAgree ==
    ASSUME NEW f, NEW S, IsFiniteSet(S), NEW T, NEW g, NEW h, Sums(g, f, S), Sums(h, f, T),
           NEW u, u \subseteq S, u \subseteq T
    PROVE  g[u] = h[u]
<1> DEFINE B == {v \in SUBSET S : v \subseteq T /\ g[v] # h[v]}
<1> SUFFICES ASSUME B # {} PROVE FALSE
    OBVIOUS
<1>1. PICK m \in B : \A v \in B : v \subseteq m => v = m
    <2>1. B \in SUBSET (SUBSET S)
        OBVIOUS
    <2> HIDE DEF B
    <2> QED
        BY <2>1, MinimalSubset
<1>2. g[m] = IF m = {} THEN 0 ELSE f[Pick(m)] + g[m \ {Pick(m)}]
    BY <1>1 DEF Sums
<1>3. h[m] = IF m = {} THEN 0 ELSE f[Pick(m)] + h[m \ {Pick(m)}]
    BY <1>1 DEF Sums
<1>4. m # {}
    BY <1>1, <1>2, <1>3
<1>5. g[m \ {Pick(m)}] = h[m \ {Pick(m)}]
    BY <1>1, <1>4, PickIn
<1> QED
    BY <1>1, <1>2, <1>3, <1>5

\* The recursion has a solution.
LEMMA SumsExist ==
    ASSUME NEW f, NEW S, IsFiniteSet(S)
    PROVE  \E g : Sums(g, f, S)
<1> DEFINE B == {v \in SUBSET S : ~\E g : Sums(g, f, v)}
<1> SUFFICES ASSUME B # {} PROVE FALSE
    OBVIOUS
<1>1. PICK m \in B : \A v \in B : v \subseteq m => v = m
    <2>1. B \in SUBSET (SUBSET S)
        OBVIOUS
    <2> HIDE DEF B
    <2> QED
        BY <2>1, MinimalSubset
<1> DEFINE sol(v) == CHOOSE g : Sums(g, f, v)
           below == [v \in SUBSET m |-> IF v = m THEN 0 ELSE sol(v)[v]]
           G == [v \in SUBSET m |-> IF v = {} THEN 0 ELSE f[Pick(v)] + below[v \ {Pick(v)}]]
<1>2. ASSUME NEW v \in SUBSET m, v # m
      PROVE  Sums(sol(v), f, v)
    <2>1. \E g : Sums(g, f, v)
        BY <1>1, <1>2
    <2> QED
        BY <2>1
<1>3. ASSUME NEW v \in SUBSET m, v # m
      PROVE  G[v] = sol(v)[v]
    <2>1. Sums(sol(v), f, v) /\ v \in SUBSET v
        BY <1>2, <1>3
    <2>2. sol(v)[v] = IF v = {} THEN 0 ELSE f[Pick(v)] + sol(v)[v \ {Pick(v)}]
        BY <2>1 DEF Sums
    <2>3. CASE v = {}
        BY <2>2, <2>3
    <2>4. CASE v # {}
        <3> DEFINE w == v \ {Pick(v)}
        <3>1. w \in SUBSET m /\ w # m /\ w \subseteq v
            BY <1>3, <2>4, PickIn
        <3>2. Sums(sol(w), f, w)
            BY <1>2, <3>1
        <3>3. IsFiniteSet(v)
            BY <1>1, FS_Subset
        <3>4. sol(v)[w] = sol(w)[w]
            <4> HIDE DEF sol, w
            <4> QED
            BY <2>1, <3>1, <3>2, <3>3, SumsAgree
        <3>5. below[w] = sol(w)[w]
            BY <3>1
        <3> QED
            BY <2>2, <2>4, <3>4, <3>5
    <2> QED
        BY <2>3, <2>4
<1>4. Sums(G, f, m)
    <2>1. ASSUME NEW v \in SUBSET m, v # {}
          PROVE  below[v \ {Pick(v)}] = G[v \ {Pick(v)}]
        <3>1. v \ {Pick(v)} \in SUBSET m /\ v \ {Pick(v)} # m
            BY <2>1, PickIn
        <3> QED
            BY <1>3, <3>1
    <2> DEFINE R == [v \in SUBSET m |-> IF v = {} THEN 0 ELSE f[Pick(v)] + G[v \ {Pick(v)}]]
    <2>2. ASSUME NEW v \in SUBSET m
          PROVE  G[v] = R[v]
        <3>1. G[v] = IF v = {} THEN 0 ELSE f[Pick(v)] + below[v \ {Pick(v)}]
            BY Zenon
        <3>2. R[v] = IF v = {} THEN 0 ELSE f[Pick(v)] + G[v \ {Pick(v)}]
            BY Zenon
        <3> HIDE DEF G, R, below
        <3> QED
            BY <2>1, <3>1, <3>2
    <2>3. G = R
        <3> HIDE DEF below
        <3> SUFFICES \A v \in SUBSET m : G[v] = R[v]
            OBVIOUS
        <3> QED
            BY <2>2
    <2> HIDE DEF G
    <2> QED
        BY <2>3 DEF Sums
<1> QED
    BY <1>1, <1>4

\* SumFunctionOnSet is the value of a solution.
LEMMA SumIsSolution ==
    ASSUME NEW f, NEW S, IsFiniteSet(S)
    PROVE  \E g : Sums(g, f, S) /\ SumFunctionOnSet(f, S) = g[S]
<1> DEFINE iter == CHOOSE g : Sums(g, f, S)
<1>1. SumFunctionOnSet(f, S) = iter[S]
    BY DEF SumFunctionOnSet, FoldFunctionOnSet, MapThenFoldSet, Sums, Pick
<1>2. Sums(iter, f, S)
    BY SumsExist
<1> QED
    BY <1>1, <1>2

-----------------------------------------------------------------------------
\* The sum over the empty set.
LEMMA SumEmpty ==
    ASSUME NEW f
    PROVE  SumFunctionOnSet(f, {}) = 0
<1>1. PICK g : Sums(g, f, {}) /\ SumFunctionOnSet(f, {}) = g[{}]
    BY SumIsSolution, FS_EmptySet
<1> QED
    BY <1>1 DEF Sums

\* The recursion, for the element the fold takes first.
LEMMA SumPick ==
    ASSUME NEW f, NEW S, IsFiniteSet(S), S # {}
    PROVE  SumFunctionOnSet(f, S) = f[Pick(S)] + SumFunctionOnSet(f, S \ {Pick(S)})
<1> DEFINE T == S \ {Pick(S)}
<1>1. PICK g : Sums(g, f, S) /\ SumFunctionOnSet(f, S) = g[S]
    BY SumIsSolution
<1>2. PICK h : Sums(h, f, T) /\ SumFunctionOnSet(f, T) = h[T]
    BY SumIsSolution, FS_RemoveElement
<1>3. g[T] = h[T]
    BY <1>1, <1>2, SumsAgree
<1>4. g[S] = f[Pick(S)] + g[T]
    BY <1>1 DEF Sums
<1> QED
    BY <1>1, <1>2, <1>3, <1>4

\* A sum of integers is an integer, whatever else f maps.
LEMMA SumInt ==
    ASSUME NEW S, IsFiniteSet(S), NEW f, \A x \in S : f[x] \in Int
    PROVE  SumFunctionOnSet(f, S) \in Int
<1> DEFINE B == {v \in SUBSET S : SumFunctionOnSet(f, v) \notin Int}
<1> SUFFICES ASSUME B # {} PROVE FALSE
    OBVIOUS
<1>1. PICK m \in B : \A v \in B : v \subseteq m => v = m
    <2>1. B \in SUBSET (SUBSET S)
        OBVIOUS
    <2> HIDE DEF B
    <2> QED
        BY <2>1, MinimalSubset
<1>2. m # {}
    <2>1. SumFunctionOnSet(f, {}) \in Int
        BY SumEmpty
    <2> QED
        BY <2>1
<1>3. SumFunctionOnSet(f, m \ {Pick(m)}) \in Int
    BY <1>1, <1>2, PickIn
<1>4. IsFiniteSet(m)
    BY <1>1, FS_Subset
<1>5. SumFunctionOnSet(f, m) = f[Pick(m)] + SumFunctionOnSet(f, m \ {Pick(m)})
    BY <1>2, <1>4, SumPick
<1>6. f[Pick(m)] \in Int
    BY <1>1, <1>2, PickIn
<1> QED
    BY <1>1, <1>3, <1>5, <1>6

\* Any element may be taken first: the order of the fold does not matter.
LEMMA SumRemove ==
    ASSUME NEW S, IsFiniteSet(S), NEW f, \A y \in S : f[y] \in Int, NEW x \in S
    PROVE  SumFunctionOnSet(f, S) = f[x] + SumFunctionOnSet(f, S \ {x})
<1> DEFINE B == {v \in SUBSET S : \E y \in v :
                    SumFunctionOnSet(f, v) # f[y] + SumFunctionOnSet(f, v \ {y})}
<1> SUFFICES ASSUME B # {} PROVE FALSE
    OBVIOUS
<1>1. PICK m \in B : \A v \in B : v \subseteq m => v = m
    <2>1. B \in SUBSET (SUBSET S)
        OBVIOUS
    <2> HIDE DEF B
    <2> QED
        BY <2>1, MinimalSubset
<1>2. PICK y \in m : SumFunctionOnSet(f, m) # f[y] + SumFunctionOnSet(f, m \ {y})
    BY <1>1
<1> DEFINE p == Pick(m)
<1>3. p \in m
    BY <1>2, PickIn
<1>4. IsFiniteSet(m) /\ IsFiniteSet(m \ {p}) /\ IsFiniteSet(m \ {y})
      /\ IsFiniteSet((m \ {p}) \ {y})
    BY <1>1, FS_Subset, FS_RemoveElement
<1>5. SumFunctionOnSet(f, m) = f[p] + SumFunctionOnSet(f, m \ {p})
    BY <1>2, <1>4, SumPick
<1> HIDE DEF p
<1>6. y # p
    BY <1>2, <1>5
<1>7. m \ {p} \notin B /\ m \ {y} \notin B
    BY <1>1, <1>2, <1>3
<1>8. SumFunctionOnSet(f, m \ {p}) = f[y] + SumFunctionOnSet(f, (m \ {p}) \ {y})
    BY <1>1, <1>2, <1>6, <1>7
<1>9. SumFunctionOnSet(f, m \ {y}) = f[p] + SumFunctionOnSet(f, (m \ {y}) \ {p})
    BY <1>1, <1>3, <1>6, <1>7
<1>10. (m \ {p}) \ {y} = (m \ {y}) \ {p}
    OBVIOUS
<1>11. /\ f[p] \in Int /\ f[y] \in Int
       /\ SumFunctionOnSet(f, (m \ {p}) \ {y}) \in Int
    BY <1>1, <1>2, <1>3, <1>4, SumInt
<1> DEFINE rest == SumFunctionOnSet(f, (m \ {p}) \ {y})
<1>12. SumFunctionOnSet(f, m) = f[p] + (f[y] + rest)
    BY <1>5, <1>8
<1>13. SumFunctionOnSet(f, m \ {y}) = f[p] + rest
    BY <1>9, <1>10
<1>14. f[p] + (f[y] + rest) = f[y] + (f[p] + rest)
    <2> HIDE DEF rest, B
    <2> QED
        BY <1>11 DEF rest
<1> QED
    BY <1>2, <1>12, <1>13, <1>14, Zenon

\* Fewer and smaller terms have the smaller sum.
LEMMA SumCompare ==
    ASSUME NEW S, IsFiniteSet(S), NEW T \in SUBSET S, NEW f, NEW g,
           \A y \in S : f[y] \in Int, \A y \in T : g[y] \in Int /\ g[y] <= f[y],
           \A y \in S \ T : f[y] >= 0
    PROVE  SumFunctionOnSet(g, T) <= SumFunctionOnSet(f, S)
<1> DEFINE B == {v \in SUBSET S :
                    ~(SumFunctionOnSet(g, v \cap T) <= SumFunctionOnSet(f, v))}
<1>0. SUFFICES ASSUME B # {} PROVE FALSE
    <2>1. S \cap T = T
        OBVIOUS
    <2> QED
        BY <2>1
<1>1. PICK m \in B : \A v \in B : v \subseteq m => v = m
    <2>1. B \in SUBSET (SUBSET S)
        OBVIOUS
    <2> HIDE DEF B
    <2> QED
        BY <1>0, <2>1, MinimalSubset
<1>2. m # {}
    <2>1. SumFunctionOnSet(g, {}) = 0 /\ SumFunctionOnSet(f, {}) = 0 /\ {} \cap T = {}
        BY SumEmpty
    <2>2. SumFunctionOnSet(g, {} \cap T) <= SumFunctionOnSet(f, {})
        BY <2>1
    <2> QED
        BY <1>1, <2>2
<1>3. PICK p \in m : TRUE
    BY <1>2
<1> DEFINE n == m \ {p}
<1>4. SumFunctionOnSet(g, n \cap T) <= SumFunctionOnSet(f, n)
    BY <1>1, <1>3
<1>5. IsFiniteSet(m) /\ IsFiniteSet(n) /\ IsFiniteSet(m \cap T) /\ IsFiniteSet(n \cap T)
    <2>1. m \subseteq S /\ n \subseteq S /\ m \cap T \subseteq S /\ n \cap T \subseteq S
        BY <1>1
    <2> QED
        BY <2>1, FS_Subset
<1>6. SumFunctionOnSet(f, m) = f[p] + SumFunctionOnSet(f, n)
    BY <1>1, <1>3, <1>5, SumRemove
<1>7. /\ SumFunctionOnSet(f, n) \in Int /\ f[p] \in Int
      /\ SumFunctionOnSet(g, n \cap T) \in Int
    BY <1>1, <1>3, <1>5, SumInt
<1>8. ~(SumFunctionOnSet(g, m \cap T) <= SumFunctionOnSet(f, m))
    BY <1>1
<1>9. CASE p \in T
    <2>1. (m \cap T) \ {p} = n \cap T /\ p \in m \cap T
        BY <1>3, <1>9
    <2>2. SumFunctionOnSet(g, m \cap T) = g[p] + SumFunctionOnSet(g, (m \cap T) \ {p})
        BY <1>1, <1>5, <2>1, SumRemove
    <2>3. g[p] \in Int /\ g[p] <= f[p]
        BY <1>9
    <2> DEFINE F == SumFunctionOnSet(f, n)
               G == SumFunctionOnSet(g, n \cap T)
    <2>4. SumFunctionOnSet(g, m \cap T) = g[p] + G
        BY <2>1, <2>2
    <2>5. g[p] + G <= f[p] + F
        <3>1. F \in Int /\ G \in Int /\ G <= F /\ f[p] \in Int
            BY <1>4, <1>7
        <3> HIDE DEF F, G, B
        <3> QED
            BY <2>3, <3>1
    <2> QED
        BY <1>6, <1>8, <2>4, <2>5, Zenon
<1>10. CASE p \notin T
    <2>1. m \cap T = n \cap T
        BY <1>10
    <2>2. f[p] >= 0
        BY <1>1, <1>3, <1>10
    <2> DEFINE F == SumFunctionOnSet(f, n)
               G == SumFunctionOnSet(g, n \cap T)
    <2>3. G <= f[p] + F
        <3>1. F \in Int /\ G \in Int /\ G <= F /\ f[p] \in Int
            BY <1>4, <1>7
        <3> HIDE DEF F, G, B
        <3> QED
            BY <2>2, <3>1
    <2> QED
        BY <1>6, <1>8, <2>1, <2>3, Zenon
<1> QED
    BY <1>9, <1>10

-----------------------------------------------------------------------------
\* The sum of a function's values, in the form the model uses.

\* A finite function whose values are integers.
Summable(f) == IsFiniteSet(DOMAIN f) /\ \A y \in DOMAIN f : f[y] \in Int

\* What x contributes to the sum of f.
Term(f, x) == IF x \in DOMAIN f THEN f[x] ELSE 0

\* The sum of integers is an integer.
LEMMA SumFunctionInt ==
    ASSUME NEW f, Summable(f)
    PROVE  SumFunction(f) \in Int
BY SumInt DEF Summable, SumFunction

\* The sum of nothing is zero.
LEMMA SumFunctionEmpty ==
    ASSUME NEW f, DOMAIN f = {}
    PROVE  SumFunction(f) = 0
BY SumEmpty DEF SumFunction

\* Removing terms that are not negative, or making terms smaller.
LEMMA SumShrinks ==
    ASSUME NEW f, NEW g, Summable(f), Summable(g), DOMAIN g \subseteq DOMAIN f,
           \A y \in DOMAIN g : g[y] <= f[y], \A y \in DOMAIN f : f[y] >= 0
    PROVE  SumFunction(g) <= SumFunction(f)
BY SumCompare DEF Summable, SumFunction

\* The sum of natural numbers is one.
LEMMA SumNat ==
    ASSUME NEW f, Summable(f), \A y \in DOMAIN f : f[y] >= 0
    PROVE  SumFunction(f) >= 0
<1>1. SumFunctionOnSet(f, {}) <= SumFunctionOnSet(f, DOMAIN f)
    BY SumCompare DEF Summable
<1> QED
    BY <1>1, SumEmpty DEF SumFunction

\* Two functions that agree have the same sum.
LEMMA SumSame ==
    ASSUME NEW S, IsFiniteSet(S), NEW f, NEW g, \A y \in S : f[y] \in Int /\ g[y] = f[y]
    PROVE  SumFunctionOnSet(f, S) = SumFunctionOnSet(g, S)
<1>1. /\ SumFunctionOnSet(f, S) <= SumFunctionOnSet(g, S)
      /\ SumFunctionOnSet(g, S) <= SumFunctionOnSet(f, S)
    BY SumCompare
<1>2. SumFunctionOnSet(f, S) \in Int /\ SumFunctionOnSet(g, S) \in Int
    BY SumInt
<1> QED
    BY <1>1, <1>2

\* A sum of zeroes.
LEMMA SumZero ==
    ASSUME NEW f, IsFiniteSet(DOMAIN f), \A y \in DOMAIN f : f[y] = 0
    PROVE  SumFunction(f) = 0
<1>0. Summable(f) /\ SumFunction(f) \in Int /\ SumFunction(f) >= 0
    BY SumFunctionInt, SumNat DEF Summable
<1>1. SUFFICES ASSUME SumFunction(f) > 0 PROVE FALSE
    BY <1>0
<1> DEFINE B == {v \in SUBSET DOMAIN f : SumFunctionOnSet(f, v) # 0}
<1>2. DOMAIN f \in B
    BY <1>1 DEF SumFunction
<1>3. PICK m \in B : \A v \in B : v \subseteq m => v = m
    <2>1. B \in SUBSET (SUBSET DOMAIN f)
        OBVIOUS
    <2> HIDE DEF B
    <2> QED
        BY <1>2, <2>1, MinimalSubset
<1>4. m # {}
    BY <1>3, SumEmpty
<1>5. PICK p \in m : TRUE
    BY <1>4
<1>6. SumFunctionOnSet(f, m \ {p}) = 0
    BY <1>3, <1>5
<1>7. SumFunctionOnSet(f, m) = f[p] + SumFunctionOnSet(f, m \ {p})
    <2>1. IsFiniteSet(m) /\ \A y \in m : f[y] \in Int
        BY <1>3, FS_Subset
    <2> QED
        BY <1>5, <2>1, SumRemove
<1> QED
    BY <1>3, <1>5, <1>6, <1>7

\* Taking the term of x out of a sum.
LEMMA SumWithout ==
    ASSUME NEW f, Summable(f), NEW x
    PROVE  /\ SumFunctionOnSet(f, DOMAIN f \ {x}) \in Int
           /\ Term(f, x) \in Int
           /\ SumFunction(f) = Term(f, x) + SumFunctionOnSet(f, DOMAIN f \ {x})
<1>1. SumFunctionOnSet(f, DOMAIN f \ {x}) \in Int
    BY SumInt, FS_RemoveElement DEF Summable
<1>2. Term(f, x) \in Int
    BY DEF Term, Summable
<1>3. CASE x \in DOMAIN f
    <2>1. SumFunctionOnSet(f, DOMAIN f) = f[x] + SumFunctionOnSet(f, DOMAIN f \ {x})
        BY <1>3, SumRemove DEF Summable
    <2> QED
        BY <1>1, <1>2, <1>3, <2>1 DEF Term, SumFunction
<1>4. CASE x \notin DOMAIN f
    <2>1. DOMAIN f \ {x} = DOMAIN f
        BY <1>4
    <2> QED
        BY <1>1, <1>4, <2>1 DEF Term, SumFunction
<1> QED
    BY <1>1, <1>2, <1>3, <1>4

\* Two functions that differ at x only, where one of them or both may be
\* undefined: their sums differ by what x contributes.
LEMMA SumStep ==
    ASSUME NEW f, NEW g, NEW x, Summable(f), Summable(g),
           DOMAIN f \ {x} = DOMAIN g \ {x}, \A y \in DOMAIN f \ {x} : g[y] = f[y]
    PROVE  /\ SumFunction(f) \in Int /\ SumFunction(g) \in Int
           /\ SumFunction(g) = SumFunction(f) - Term(f, x) + Term(g, x)
<1> DEFINE S == DOMAIN f \ {x}
           F == SumFunctionOnSet(f, S)
           G == SumFunctionOnSet(g, S)
<1>1. F \in Int /\ Term(f, x) \in Int /\ SumFunction(f) = Term(f, x) + F
    BY SumWithout
<1>2. G \in Int /\ Term(g, x) \in Int /\ SumFunction(g) = Term(g, x) + G
    BY SumWithout
<1>3. F = G
    <2>1. IsFiniteSet(S) /\ \A y \in S : f[y] \in Int /\ g[y] = f[y]
        BY FS_RemoveElement DEF Summable
    <2> HIDE DEF S
    <2> QED
        BY <2>1, SumSame
<1> HIDE DEF F, G
<1> QED
    BY <1>1, <1>2, <1>3

\* A sum of natural numbers is at least each of them.
LEMMA SumCovers ==
    ASSUME NEW f, Summable(f), \A y \in DOMAIN f : f[y] >= 0, NEW x \in DOMAIN f
    PROVE  f[x] <= SumFunction(f)
<1> DEFINE S == DOMAIN f \ {x}
<1>1. /\ SumFunctionOnSet(f, S) \in Int /\ Term(f, x) \in Int
      /\ SumFunction(f) = Term(f, x) + SumFunctionOnSet(f, S)
    BY SumWithout
<1>2. IsFiniteSet(S) /\ \A y \in S : f[y] \in Int /\ f[y] >= 0
    BY FS_RemoveElement DEF Summable
<1> HIDE DEF S
<1>3. SumFunctionOnSet(f, {}) <= SumFunctionOnSet(f, S)
    BY <1>2, SumCompare
<1>4. Term(f, x) = f[x]
    BY DEF Term
<1> QED
    BY <1>1, <1>3, <1>4, SumEmpty

-----------------------------------------------------------------------------
(***************************************************************************)
(* Type correctness.                                                       *)
(***************************************************************************)

\* What a task record may refer to, given the actors and the envelopes tables:
\* a row is never deleted, so what a task has read still exists when it acts.
TaskOK(r, act, env) ==
    /\ r.pc \notin {"new", "done"} => r.action # None
    /\ r.envelope # None => env[r.envelope] # NoEnvelope
    /\ r.via # None => r.reserved > 0
    /\ r.pc \in {"expire_envelope", "list_holds", "expire_holds", "trigger", "consume"} =>
          r.envelope # None
    /\ r.pc \in {"respond", "list_late", "expire_late", "resolve"} => IsHoldResponse(r.action)
    /\ r.pc \in {"reserve", "finalize"} /\ IsCreateEnvelope(r.action) => r.action.arg.budget > 0
    /\ r.pc \in {"reserve", "finalize", "account", "consume", "lifecycle"}
          /\ IsLifecycle(r.action) => act[r.action.arg.subject] # NoActor
    /\ r.pc = "lifecycle" => IsLifecycle(r.action)
    /\ r.pc \in {"finalize", "lifecycle"} => r.reserved > 0 \/ SelfPriced(r)
    /\ r.pc \in {"account", "consume"} => r.reserved > 0
    /\ r.pc \notin {"finalize", "lifecycle"} => r.reserved >= 0

TasksOK == \A t \in Tasks : TaskOK(task[t], actor, envelope)

HoldsLock == \A h \in Holds : hold[h] # NoHold => hold[h].reserved > 0

TInv == TypeOK /\ TasksOK /\ HoldsLock

\* What no step does to a table: delete a row.
Keeps(S, old, new, absent) == \A x \in S : old[x] # absent => new[x] # absent

-----------------------------------------------------------------------------
\* Lemmas about the operators.

\* Every action has a positive price (quote_cost + append_cost).
LEMMA QuotePositive ==
    ASSUME NEW a \in Requests
    PROVE  QuoteCost(a) \in Nat /\ QuoteCost(a) > 0
<1>1. a.payloadBytes \in Nat /\ a.outputBytes \in Nat
    BY RequestsAssumption DEF RequestOK
<1>2. ActionCost(a) \in Nat
    BY <1>1 DEF ActionCost
<1> QED
    BY <1>1, <1>2 DEF QuoteCost

\* The commitment cost never exceeds what the hold has locked.
LEMMA CommitmentBounded ==
    ASSUME NEW r \in Nat
    PROVE  CommitmentCost(r) \in Nat /\ CommitmentCost(r) <= r
BY DEF CommitmentCost

\* A settlement that CanSettle lets through keeps a row consistent, as long as
\* it charges no more than it unlocks.
LEMMA SettleConsistent ==
    ASSUME NEW row \in Row, NEW reserved \in Nat, NEW actual \in Nat, actual <= reserved,
           CanSettle(row, reserved, actual)
    PROVE  /\ Settle(row, reserved, actual) \in Row
           /\ Consistent(row) => Consistent(Settle(row, reserved, actual))
BY DEF Row, CanSettle, Settle, Consistent, Available, ExtraNeeded

\* A reservation that CanReserve admits keeps reserved <= balance.
LEMMA ReserveConsistent ==
    ASSUME NEW row \in Row, NEW cost \in Nat, CanReserve(row, cost)
    PROVE  /\ Reserve(row, cost) \in Row
           /\ Consistent(row) => Consistent(Reserve(row, cost))
BY DEF Row, CanReserve, Reserve, Consistent, Available

\* What a tick credits is never negative.
LEMMA AllocationType ==
    ASSUME NEW energy \in Nat, NEW share, IsFiniteSet(DOMAIN share),
           NEW credit \in Allocations(energy, share)
    PROVE  credit \in [DOMAIN share -> Nat]
<1>1. PICK floor \in Floors(energy, share),
           order \in Bijection(1..Cardinality(DOMAIN share), DOMAIN share) :
              credit = RoundRobin(floor, order, energy - SumFunction(floor))
    BY DEF Allocations
<1>2. floor \in [DOMAIN share -> Nat]
    BY DEF Floors
<1> DEFINE left == energy - SumFunction(floor)
           units(a) == {k \in 0..(left - 1) : order[(k % Cardinality(DOMAIN floor)) + 1] = a}
<1>3. left \in Int
    BY <1>2, SumFunctionInt DEF Summable
<1>4. \A a : Cardinality(units(a)) \in Nat
    <2> HIDE DEF left
    <2>1. IsFiniteSet(0..(left - 1))
        BY <1>3, FS_Interval
    <2> QED
        BY <2>1, FS_Subset, FS_CardinalityType
<1>5. credit = [a \in DOMAIN floor |-> floor[a] + Cardinality(units(a))]
    BY <1>1 DEF RoundRobin
<1> HIDE DEF units
<1> QED
    BY <1>2, <1>4, <1>5

\* Where a request is sent, and what is then known of it.
LEMMA RouteSteps ==
    ASSUME NEW a, NEW via
    PROVE  /\ Route(a, via) \in {"respond", "parse", "finalize", "reserve"}
           /\ Route(a, via) = "respond" => IsHoldResponse(a)
           /\ Route(a, via) \in {"finalize", "reserve"} =>
                 ~IsLifecycle(a) /\ ~IsCreateEnvelope(a)
           /\ Route(a, via) = "finalize" => via # None
BY DEF Route, AfterParse

\* Moving a task record keeps it a task record.
LEMMA AtType ==
    ASSUME NEW r \in TaskRow, NEW pc \in Steps
    PROVE  /\ At(r, pc) \in TaskRow
           /\ Returned \in TaskRow
<1>1. 0 \in Amount
    BY DEF Amount
<1> QED
    BY <1>1 DEF At, Returned, NewTask, TaskRow, Steps

\* Nothing is claimed of a call that has returned.
LEMMA ReturnedOK ==
    ASSUME NEW act, NEW env
    PROVE  TaskOK(Returned, act, env)
BY DEF TaskOK, Returned, NewTask, SelfPriced

\* Routing an authorised request keeps its record in order.
LEMMA RoutedOK ==
    ASSUME NEW r \in TaskRow, NEW act, NEW env, TaskOK(r, act, env), r.action # None,
           r.pc \notin {"finalize", "lifecycle"}
    PROVE  /\ At(r, Route(r.action, r.via)) \in TaskRow
           /\ TaskOK(At(r, Route(r.action, r.via)), act, env)
<1> DEFINE pc == Route(r.action, r.via)
<1>1. /\ pc \in {"respond", "parse", "finalize", "reserve"}
      /\ pc = "respond" => IsHoldResponse(r.action)
      /\ pc \in {"finalize", "reserve"} =>
            ~IsLifecycle(r.action) /\ ~IsCreateEnvelope(r.action)
      /\ pc = "finalize" => r.via # None
    BY RouteSteps
<1> HIDE DEF pc
<1>2. At(r, pc) = [r EXCEPT !.pc = pc]
    BY <1>1 DEF At
<1>3. At(r, pc) \in TaskRow
    BY <1>1, <1>2 DEF TaskRow, Steps
<1>4. TaskOK([r EXCEPT !.pc = pc], act, env)
    BY <1>1 DEF TaskOK, TaskRow, SelfPriced
<1> QED
    BY <1>2, <1>3, <1>4 DEF pc

\* A task that does not move stays in order while no row is deleted.
LEMMA TaskPersists ==
    ASSUME NEW r \in TaskRow, NEW act, NEW act2, NEW env, NEW env2,
           Keeps(Actors, act, act2, NoActor), Keeps(Envelopes, env, env2, NoEnvelope),
           TaskOK(r, act, env)
    PROVE  TaskOK(r, act2, env2)
<1>1. r.action # None /\ IsLifecycle(r.action) => r.action.arg.subject \in Actors
    BY RequestsAssumption DEF RequestOK, TaskRow
<1> QED
    BY <1>1 DEF TaskOK, Keeps, TaskRow, SelfPriced

\* One task moves and no row is deleted.
LEMMA TaskMoves ==
    ASSUME TInv, NEW t \in Tasks, NEW row \in TaskRow, Update(t, row),
           TaskOK(row, actor', envelope'),
           Keeps(Actors, actor, actor', NoActor),
           Keeps(Envelopes, envelope, envelope', NoEnvelope)
    PROVE  task' \in [Tasks -> TaskRow] /\ TasksOK'
<1>1. task \in [Tasks -> TaskRow]
    BY DEF TInv, TypeOK
<1>2. task' = [task EXCEPT ![t] = row]
    BY DEF Update
<1>3. ASSUME NEW s \in Tasks PROVE TaskOK(task'[s], actor', envelope')
    <2>1. CASE s = t
        BY <1>1, <1>2, <2>1
    <2>2. CASE s # t
        <3>1. TaskOK(task[s], actor, envelope)
            BY DEF TInv, TasksOK
        <3>2. TaskOK(task[s], actor', envelope')
            BY <1>1, <3>1, TaskPersists
        <3> QED
            BY <1>1, <1>2, <2>2, <3>2
    <2> QED
        BY <2>1, <2>2
<1> QED
    BY <1>1, <1>2, <1>3 DEF TasksOK

\* Steps that change no table, only the record of a task.
LEMMA TaskOnly ==
    ASSUME TInv, NEW t \in Tasks, NEW row \in TaskRow, Update(t, row),
           TaskOK(row, actor, envelope), UNCHANGED db, UNCHANGED world
    PROVE  TInv'
<1>1. task' \in [Tasks -> TaskRow] /\ TasksOK'
    <2>1. TaskOK(row, actor', envelope')
        BY DEF db
    <2>2. Keeps(Actors, actor, actor', NoActor) /\ Keeps(Envelopes, envelope, envelope', NoEnvelope)
        BY DEF db, Keeps
    <2> QED
        BY <2>1, <2>2, TaskMoves
<1>2. TypeOK'
    BY <1>1 DEF TInv, TypeOK, db, world
<1>3. HoldsLock'
    BY DEF TInv, HoldsLock, db
<1> QED
    BY <1>1, <1>2, <1>3 DEF TInv

\* The answer of a request that changes no table.
LEMMA ReturnOnly ==
    ASSUME TInv, NEW t \in Tasks, Return(t), UNCHANGED db, UNCHANGED world
    PROVE  TInv'
<1>1. Returned \in TaskRow
    BY AtType DEF TInv, TypeOK, Steps
<1> QED
    BY <1>1, ReturnedOK, TaskOnly DEF Return

\* Routing an authorised request.
LEMMA RouteOnly ==
    ASSUME TInv, NEW t \in Tasks, task[t].action # None,
           task[t].pc \notin {"finalize", "lifecycle"},
           Goto(t, Route(task[t].action, task[t].via)), UNCHANGED db, UNCHANGED world
    PROVE  TInv'
<1>1. task[t] \in TaskRow /\ TaskOK(task[t], actor, envelope)
    BY DEF TInv, TypeOK, TasksOK
<1> QED
    BY <1>1, RoutedOK, TaskOnly DEF Goto

\* The steps of a request up to its reservation that only read.
LEMMA ReadingSteps ==
    ASSUME TInv, NEW t \in Tasks, UNCHANGED world,
           \/ Submit(t) \/ Abort(t) \/ Check(t) \/ CheckLineage(t)
           \/ Respond(t) \/ SkipTimeout(t)
    PROVE  TInv'
<1>0. task[t] \in TaskRow /\ TaskOK(task[t], actor, envelope)
    BY DEF TInv, TypeOK, TasksOK
<1>1. CASE Submit(t)
    <2>1. PICK a \in Requests : Update(t, [task[t] EXCEPT !.pc = "check", !.action = a])
        BY <1>1 DEF Submit
    <2> DEFINE row == [task[t] EXCEPT !.pc = "check", !.action = a]
    <2>2. row \in TaskRow
        BY <1>0 DEF TaskRow, Steps
    <2>3. TaskOK(row, actor, envelope)
        <3>1. task[t].pc = "new"
            BY <1>1 DEF Submit
        <3> QED
            BY <1>0, <3>1, NoneAssumption DEF TaskRow, TaskOK
    <2> QED
        BY <1>1, <2>1, <2>2, <2>3, TaskOnly DEF Submit
<1>2. CASE Abort(t)
    BY <1>2, ReturnOnly DEF Abort
<1>3. CASE Check(t) \/ CheckLineage(t)
    <2> DEFINE a == task[t].action
    <2>1. task[t].pc \in {"check", "lineage"} /\ a # None /\ UNCHANGED db
        BY <1>0, <1>3 DEF Check, CheckLineage, TaskOK, SelfPriced
    <2>2. CASE Return(t)
        BY <2>1, <2>2, ReturnOnly
    <2>3. ASSUME NEW pc \in {"lineage", "authorize"}, Goto(t, pc)
          PROVE  TInv'
        <3> DEFINE row == At(task[t], pc)
        <3>1. row \in TaskRow
            BY <1>0, AtType DEF Steps
        <3>2. TaskOK(row, actor, envelope)
            BY <1>0, <2>1 DEF At, TaskRow, TaskOK, SelfPriced
        <3> QED
            BY <2>1, <2>3, <3>1, <3>2, TaskOnly DEF Goto
    <2>4. CASE Goto(t, Route(a, task[t].via))
        BY <2>1, <2>4, RouteOnly
    <2> QED
        BY <1>3, <2>2, <2>3, <2>4 DEF Check, AfterCheck, CheckLineage
<1>4. CASE Respond(t) \/ SkipTimeout(t)
    <2>1. task[t].pc = "respond" /\ UNCHANGED db
        BY <1>4 DEF Respond, SkipTimeout
    <2>2. CASE Return(t)
        BY <2>1, <2>2, ReturnOnly
    <2>3. ASSUME NEW pc \in {"list_late", "resolve"}, Goto(t, pc)
          PROVE  TInv'
        <3> DEFINE row == At(task[t], pc)
        <3>1. row \in TaskRow
            BY <1>0, AtType DEF Steps
        <3>2. TaskOK(row, actor, envelope)
            BY <1>0, <2>1 DEF At, TaskRow, TaskOK, SelfPriced
        <3> QED
            BY <2>1, <2>3, <3>1, <3>2, TaskOnly DEF Goto
    <2> QED
        BY <1>4, <2>2, <2>3 DEF Respond, SkipTimeout
<1> QED
    BY <1>1, <1>2, <1>3, <1>4

\* An envelope that a query finds is a row.
LEMMA NewestExists ==
    ASSUME TInv, NEW a, NEW e \in NewestActive(a)
    PROVE  e \in Envelopes /\ envelope[e] # NoEnvelope /\ e # None
BY NoneAssumption DEF NewestActive, ActiveEnvelopes, NoEnvelope

\* The record of an agent's request with the envelope it has read.
LEMMA CoveredOK ==
    ASSUME TInv, NEW t \in Tasks, task[t].action # None, task[t].pc = "authorize",
           NEW e \in NewestActive(task[t].action.actor),
           NEW pc \in {"expire_envelope", "list_holds", AfterAuthorize(t, e)}
    PROVE  /\ [task[t] EXCEPT !.pc = pc, !.envelope = e] \in TaskRow
           /\ TaskOK([task[t] EXCEPT !.pc = pc, !.envelope = e], actor, envelope)
<1> DEFINE row == [task[t] EXCEPT !.pc = pc, !.envelope = e]
           a == task[t].action
<1>0. task[t] \in TaskRow /\ TaskOK(task[t], actor, envelope)
    BY DEF TInv, TypeOK, TasksOK
<1>1. e \in Envelopes /\ envelope[e] # NoEnvelope /\ e # None
    BY NewestExists
<1>2. /\ pc \in {"expire_envelope", "list_holds", "trigger", "respond", "parse", "finalize", "reserve"}
      /\ pc = "respond" => IsHoldResponse(a)
      /\ pc \in {"finalize", "reserve"} => ~IsLifecycle(a) /\ ~IsCreateEnvelope(a)
      /\ pc = "finalize" => task[t].via # None
    <2>1. CASE pc \in {"expire_envelope", "list_holds", "trigger"}
        BY <2>1
    <2>2. CASE pc = Route(a, task[t].via)
        BY <2>2, RouteSteps
    <2> QED
        BY <2>1, <2>2 DEF AfterAuthorize
<1>3. row \in TaskRow
    BY <1>0, <1>1, <1>2 DEF TaskRow, Steps
<1>4. TaskOK(row, actor, envelope)
    BY <1>0, <1>1, <1>2 DEF TaskRow, TaskOK, SelfPriced
<1> QED
    BY <1>3, <1>4

\* Reading the envelope keeps TInv.
LEMMA AuthorizeStep ==
    ASSUME TInv, NEW t \in Tasks, UNCHANGED world, Authorize(t)
    PROVE  TInv'
<1> DEFINE a == task[t].action
<1>1. a # None /\ task[t].pc = "authorize" /\ UNCHANGED db
    BY DEF TInv, TasksOK, TaskOK, Authorize
<1>2. CASE Return(t)
    BY <1>1, <1>2, ReturnOnly
<1>3. CASE Goto(t, Route(a, task[t].via))
    BY <1>1, <1>3, RouteOnly
<1>4. ASSUME NEW e \in NewestActive(a.actor),
             NEW pc \in {"expire_envelope", "list_holds", AfterAuthorize(t, e)},
             Update(t, [task[t] EXCEPT !.pc = pc, !.envelope = e])
      PROVE  TInv'
    BY <1>1, <1>4, CoveredOK, TaskOnly
<1> QED
    BY <1>2, <1>3, <1>4 DEF Authorize

\* Where the expiry of overdue holds leaves a request.
LEMMA ExpiringOK ==
    ASSUME TInv, NEW t \in Tasks, NEW todo \in SUBSET Holds,
           task[t].pc \in {"list_holds", "expire_holds", "list_late", "expire_late"},
           NEW e,
           NEW pc \in {IF task[t].pc \in {"list_late", "expire_late"} THEN "done"
                       ELSE AfterAuthorize(t, e),
                       IF task[t].pc \in {"list_late", "expire_late"} THEN "expire_late"
                       ELSE "expire_holds"}
    PROVE  /\ At([task[t] EXCEPT !.todo = todo], pc) \in TaskRow
           /\ TaskOK(At([task[t] EXCEPT !.todo = todo], pc), actor, envelope)
<1> DEFINE r == [task[t] EXCEPT !.todo = todo]
           a == task[t].action
<1>0. task[t] \in TaskRow /\ TaskOK(task[t], actor, envelope)
    BY DEF TInv, TypeOK, TasksOK
<1>1. r \in TaskRow
    BY <1>0 DEF TaskRow
<1>2. CASE pc = "done"
    BY <1>1, <1>2, AtType, ReturnedOK DEF At, Steps
<1>3. CASE pc # "done"
    <2>1. /\ pc \in {"expire_late", "expire_holds", "trigger", "respond", "parse", "finalize", "reserve"}
          /\ pc \in {"respond", "expire_late"} => IsHoldResponse(a)
          /\ pc \in {"trigger", "expire_holds"} => task[t].envelope # None
          /\ pc \in {"finalize", "reserve"} => ~IsLifecycle(a) /\ ~IsCreateEnvelope(a)
          /\ pc = "finalize" => task[t].via # None
        <3>1. CASE pc \in {"expire_late", "expire_holds", "trigger"}
            BY <1>0, <3>1, RouteSteps DEF TaskOK, AfterAuthorize, SelfPriced
        <3>2. CASE pc = Route(a, task[t].via)
            BY <3>2, RouteSteps
        <3> QED
            BY <1>3, <3>1, <3>2 DEF AfterAuthorize
    <2>2. At(r, pc) = [r EXCEPT !.pc = pc]
        BY <1>3 DEF At
    <2>3. [r EXCEPT !.pc = pc] \in TaskRow
        BY <1>1, <2>1 DEF TaskRow, Steps
    <2>4. TaskOK([r EXCEPT !.pc = pc], actor, envelope)
        BY <1>0, <2>1 DEF TaskRow, TaskOK, SelfPriced
    <2> QED
        BY <2>2, <2>3, <2>4
<1> QED
    BY <1>2, <1>3

\* Listing the overdue holds keeps TInv: they exist and belong to an envelope that exists.
LEMMA ListHoldsStep ==
    ASSUME TInv, NEW t \in Tasks, UNCHANGED world, ListHolds(t)
    PROVE  TInv'
<1> DEFINE late == task[t].pc = "list_late"
           e == IF late THEN hold[task[t].action.arg.hold].envelope ELSE task[t].envelope
           todo == OverdueHolds(e)
           after == IF late THEN "done" ELSE AfterAuthorize(t, e)
           pc == IF todo = {} THEN after ELSE IF late THEN "expire_late" ELSE "expire_holds"
<1>1. /\ task[t].pc \in {"list_holds", "list_late"}
      /\ Update(t, At([task[t] EXCEPT !.todo = todo], pc))
      /\ UNCHANGED db
    BY DEF ListHolds
<1>2. todo \in SUBSET Holds
    BY DEF OverdueHolds
<1>3. pc \in {IF task[t].pc \in {"list_late", "expire_late"} THEN "done" ELSE AfterAuthorize(t, e),
              IF task[t].pc \in {"list_late", "expire_late"} THEN "expire_late" ELSE "expire_holds"}
    BY <1>1
<1> HIDE DEF e, todo, pc
<1>4. /\ At([task[t] EXCEPT !.todo = todo], pc) \in TaskRow
      /\ TaskOK(At([task[t] EXCEPT !.todo = todo], pc), actor, envelope)
    BY <1>1, <1>2, <1>3, ExpiringOK
<1> QED
    BY <1>1, <1>4, TaskOnly

\* Reading the specs keeps TInv: a parent envelope that is kept exists.
LEMMA ParseStep ==
    ASSUME TInv, NEW t \in Tasks, UNCHANGED world, Parse(t)
    PROVE  TInv'
<1> DEFINE a == task[t].action
           next == AfterParse(task[t].via)
<1>0. task[t] \in TaskRow /\ TaskOK(task[t], actor, envelope)
    BY DEF TInv, TypeOK, TasksOK
<1>1. task[t].pc = "parse" /\ a # None /\ UNCHANGED db
    BY <1>0 DEF Parse, TaskOK, SelfPriced
<1>2. /\ next \in {"finalize", "reserve"}
      /\ next = "finalize" => task[t].via # None
    BY DEF AfterParse
<1>3. CASE Return(t)
    BY <1>1, <1>3, ReturnOnly
<1>4. ASSUME IsLifecycle(a) => Exists(a.arg.subject),
             IsCreateEnvelope(a) => a.arg.budget > 0,
             NEW parent \in Envelopes \cup {None},
             Update(t, [task[t] EXCEPT !.pc = next, !.parent = parent])
      PROVE  TInv'
    <2> HIDE DEF next
    <2>1. [task[t] EXCEPT !.pc = next, !.parent = parent] \in TaskRow
        BY <1>0, <1>2 DEF TaskRow, Steps
    <2>2. TaskOK([task[t] EXCEPT !.pc = next, !.parent = parent], actor, envelope)
        BY <1>0, <1>1, <1>2, <1>4 DEF TaskRow, TaskOK, Exists, SelfPriced
    <2> QED
        BY <1>1, <1>4, <2>1, <2>2, TaskOnly
<1>5. ASSUME Goto(t, next)
      PROVE  Update(t, [task[t] EXCEPT !.pc = next, !.parent = task[t].parent])
    <2>1. At(task[t], next) = [task[t] EXCEPT !.pc = next]
        BY <1>2 DEF At
    <2>2. [task[t] EXCEPT !.pc = next] = [task[t] EXCEPT !.pc = next, !.parent = task[t].parent]
        BY <1>0 DEF TaskRow
    <2> QED
        BY <1>5, <2>1, <2>2 DEF Goto
<1>6. task[t].parent \in Envelopes \cup {None}
    BY <1>0 DEF TaskRow
<1>7. Goto(t, "done") => Return(t)
    BY DEF Goto, Return, At
<1>8. CASE IsLifecycle(a) /\ Goto(t, IF LifecycleAllowed(a) THEN next ELSE "done")
    BY <1>3, <1>4, <1>5, <1>6, <1>7, <1>8 DEF LifecycleAllowed, IsLifecycle, IsCreateEnvelope
<1>9. CASE IsCreateActor(a) /\ Goto(t, IF CreateActorAllowed(a) THEN next ELSE "done")
    BY <1>3, <1>4, <1>5, <1>6, <1>7, <1>9 DEF IsLifecycle, IsCreateEnvelope, IsCreateActor
<1>10. CASE IsCreateEnvelope(a) /\ Goto(t, IF SpecValid(a.arg) THEN next ELSE "done")
    BY <1>3, <1>4, <1>5, <1>6, <1>7, <1>10 DEF IsLifecycle, IsCreateEnvelope, SpecValid
<1>11. ASSUME IsCreateEnvelope(a), NEW p \in NewestActive(a.actor), SpecValid(a.arg),
              Update(t, [task[t] EXCEPT !.pc = next, !.parent = p])
       PROVE  TInv'
    <2>1. p \in Envelopes \cup {None}
        BY NewestExists
    <2> QED
        BY <1>4, <1>11, <2>1 DEF IsLifecycle, IsCreateEnvelope, SpecValid
<1> QED
    BY <1>3, <1>8, <1>9, <1>10, <1>11 DEF Parse

\* Where a committed request goes on is in order.
LEMMA AfterBudgetOK ==
    ASSUME NEW r \in TaskRow, NEW act, NEW env, TaskOK(r, act, env), r.action # None,
           r.pc \in {"finalize", "account", "consume"}
    PROVE  /\ At(r, AfterBudget(r.action)) \in TaskRow
           /\ TaskOK(At(r, AfterBudget(r.action)), act, env)
<1>1. CASE IsLifecycle(r.action)
    <2>1. At(r, AfterBudget(r.action)) = [r EXCEPT !.pc = "lifecycle"]
        BY <1>1 DEF AfterBudget, At
    <2> QED
        BY <1>1, <2>1 DEF TaskRow, TaskOK, Steps, SelfPriced
<1>2. CASE ~IsLifecycle(r.action)
    <2>1. At(r, AfterBudget(r.action)) = Returned
        BY <1>2 DEF AfterBudget, At
    <2> QED
        BY <2>1, AtType, ReturnedOK DEF Steps
<1> QED
    BY <1>1, <1>2

\* Taking the Halt decision, skipping the charge and rejecting a payload keep TInv.
LEMMA AccountStep ==
    ASSUME TInv, NEW t \in Tasks, UNCHANGED world,
           Account(t) \/ SkipBudget(t) \/ RejectPayload(t)
    PROVE  TInv'
<1> DEFINE a == task[t].action
<1>0. task[t] \in TaskRow /\ TaskOK(task[t], actor, envelope)
    BY DEF TInv, TypeOK, TasksOK
<1>1. CASE RejectPayload(t)
    BY <1>1, ReturnOnly DEF RejectPayload
<1>2. CASE Account(t)
    <2>1. task[t].pc = "account" /\ a # None /\ UNCHANGED db
        BY <1>0, <1>2 DEF Account, TaskOK, SelfPriced
    <2>2. CASE Goto(t, AfterBudget(a))
        BY <1>0, <2>1, <2>2, AfterBudgetOK, TaskOnly DEF Goto
    <2>3. ASSUME NEW e \in NewestActive(a.actor), NEW halt \in BOOLEAN,
                 Update(t, [task[t] EXCEPT !.pc = "consume", !.envelope = e, !.halt = halt])
          PROVE  TInv'
        <3> DEFINE row == [task[t] EXCEPT !.pc = "consume", !.envelope = e, !.halt = halt]
        <3>1. e \in Envelopes /\ envelope[e] # NoEnvelope /\ e # None
            BY NewestExists
        <3>2. row \in TaskRow
            BY <1>0, <3>1 DEF TaskRow, Steps
        <3>3. TaskOK(row, actor, envelope)
            BY <1>0, <2>1, <3>1 DEF TaskRow, TaskOK, SelfPriced
        <3> QED
            BY <2>1, <2>3, <3>2, <3>3, TaskOnly
    <2>4. \A e, c : HaltDue(envelope[e], c) \in BOOLEAN
        BY DEF HaltDue
    <2> QED
        BY <1>2, <2>2, <2>3, <2>4 DEF Account
<1>3. CASE SkipBudget(t)
    <2>1. task[t].pc \in {"account", "consume"} /\ a # None /\ UNCHANGED db
        BY <1>0, <1>3 DEF SkipBudget, TaskOK, SelfPriced
    <2> QED
        BY <1>0, <1>3, <2>1, AfterBudgetOK, TaskOnly DEF SkipBudget, Goto
<1> QED
    BY <1>1, <1>2, <1>3

-----------------------------------------------------------------------------
\* Steps that write tables.

\* A transaction of a task that leaves every table well typed and deletes no row.
LEMMA Transaction ==
    ASSUME TInv, NEW t \in Tasks, NEW row \in TaskRow, Update(t, row),
           TaskOK(row, actor', envelope'),
           Keeps(Actors, actor, actor', NoActor),
           Keeps(Envelopes, envelope, envelope', NoEnvelope),
           UNCHANGED world,
           actor' \in [Actors -> ActorRow \cup {NoActor}],
           ledger' \in [Actors -> Row],
           envelope' \in [Envelopes -> EnvelopeRow \cup {NoEnvelope}],
           hold' \in [Holds -> HoldRow \cup {NoHold}],
           log' \in Seq(EventRow),
           minted' \in [Actors -> Nat],
           HoldsLock'
    PROVE  TInv'
<1>1. task' \in [Tasks -> TaskRow] /\ TasksOK'
    BY TaskMoves
<1>2. TypeOK'
    BY <1>1 DEF TInv, TypeOK, world
<1> QED
    BY <1>1, <1>2 DEF TInv

\* A table that does not change loses no row.
LEMMA KeepsSame ==
    ASSUME NEW S, NEW old, NEW absent
    PROVE  Keeps(S, old, old, absent)
BY DEF Keeps

\* The lazy expiry of an envelope keeps TInv.
LEMMA ExpireEnvelopeStep ==
    ASSUME TInv, NEW t \in Tasks, UNCHANGED world, ExpireEnvelope(t)
    PROVE  TInv'
<1> DEFINE a == task[t].action
           e == task[t].envelope
<1>0. task[t] \in TaskRow /\ TaskOK(task[t], actor, envelope)
    BY DEF TInv, TypeOK, TasksOK
<1>1. /\ a # None /\ task[t].pc = "expire_envelope"
      /\ e \in Envelopes
      /\ envelope[e] \in EnvelopeRow
    BY <1>0 DEF ExpireEnvelope, TaskOK, TaskRow, TInv, TypeOK, SelfPriced
<1>2. /\ envelope' = [envelope EXCEPT ![e].status = "expired"]
      /\ UNCHANGED <<actor, ledger, hold, log, minted>>
    BY DEF ExpireEnvelope
<1>3. [envelope[e] EXCEPT !.status = "expired"] \in EnvelopeRow
    BY <1>1 DEF EnvelopeRow
<1>4. [envelope[e] EXCEPT !.status = "expired"] # NoEnvelope
    BY <1>1 DEF EnvelopeRow, NoEnvelope
<1>5. envelope' \in [Envelopes -> EnvelopeRow \cup {NoEnvelope}]
    BY <1>1, <1>2, <1>3 DEF TInv, TypeOK
<1>6. Keeps(Envelopes, envelope, envelope', NoEnvelope)
    BY <1>1, <1>2, <1>4 DEF Keeps, TInv, TypeOK
<1>7. Keeps(Actors, actor, actor', NoActor)
    BY <1>2, KeepsSame
<1>8. PICK row \in TaskRow : Update(t, row) /\ TaskOK(row, actor, envelope)
    <2>1. CASE Return(t)
        BY <2>1, <1>0, AtType, ReturnedOK DEF Return, Steps
    <2>2. CASE Goto(t, Route(a, task[t].via))
        BY <2>2, <1>0, <1>1, RoutedOK DEF Goto
    <2> QED
        BY <2>1, <2>2 DEF ExpireEnvelope
<1>9. TaskOK(row, actor', envelope')
    BY <1>6, <1>7, <1>8, TaskPersists
<1>10. HoldsLock'
    BY <1>2 DEF HoldsLock, TInv
<1> QED
    BY <1>2, <1>5, <1>6, <1>7, <1>8, <1>9, <1>10, Transaction DEF TInv, TypeOK

\* Deciding a hold keeps the table well typed.
LEMMA HoldDecided ==
    ASSUME TInv, NEW h \in Holds, StillPending(hold[h]),
           NEW status \in {"approved", "rejected", "timed_out"},
           hold' = [hold EXCEPT ![h].status = status]
    PROVE  /\ hold[h] \in HoldRow
           /\ hold' \in [Holds -> HoldRow \cup {NoHold}]
           /\ HoldsLock'
<1>1. hold \in [Holds -> HoldRow \cup {NoHold}]
    BY DEF TInv, TypeOK
<1>2. hold[h] \in HoldRow /\ hold[h] # NoHold
    BY <1>1 DEF StillPending, NoHold
<1>3. [hold[h] EXCEPT !.status = status] \in HoldRow
    BY <1>2 DEF HoldRow
<1>4. [hold[h] EXCEPT !.status = status].reserved = hold[h].reserved
    BY <1>2 DEF HoldRow
<1>5. hold' \in [Holds -> HoldRow \cup {NoHold}]
    BY <1>1, <1>3
<1>6. HoldsLock'
    BY <1>1, <1>2, <1>4 DEF HoldsLock, TInv
<1> QED
    BY <1>2, <1>5, <1>6

\* A settlement keeps the ledger well typed.
LEMMA SettledType ==
    ASSUME ledger \in [Actors -> Row], NEW a \in Actors, NEW reserved \in Nat, NEW actual \in Nat,
           actual <= reserved, CanSettle(ledger[a], reserved, actual)
    PROVE  [ledger EXCEPT ![a] = Settle(@, reserved, actual)] \in [Actors -> Row]
BY SettleConsistent

\* The timeout of a hold keeps TInv.
LEMMA ExpireHoldStep ==
    ASSUME TInv, NEW t \in Tasks, UNCHANGED world, ExpireHold(t)
    PROVE  TInv'
<1> DEFINE late == task[t].pc = "expire_late"
           after == IF late THEN "done" ELSE AfterAuthorize(t, task[t].envelope)
<1>0. /\ task[t] \in TaskRow /\ TaskOK(task[t], actor, envelope)
      /\ task[t].pc \in {"expire_holds", "expire_late"}
    BY DEF TInv, TypeOK, TasksOK, ExpireHold
<1>1. CASE Return(t) /\ UNCHANGED db
    BY <1>1, ReturnOnly
<1>2. ASSUME NEW h \in task[t].todo,
             StillPending(hold[h]),
             CanSettle(ledger[hold[h].agent], hold[h].reserved, CommitmentCost(hold[h].reserved)),
             hold' = [hold EXCEPT ![h].status = "timed_out"],
             ledger' = [ledger EXCEPT ![hold[h].agent] =
                           Settle(@, hold[h].reserved, CommitmentCost(hold[h].reserved))],
             log' = Append(log, HoldEvent("hold_timeout", hold[h].agent, hold[h].agent, h,
                                          hold[h].reserved, CommitmentCost(hold[h].reserved))),
             Update(t, At([task[t] EXCEPT !.todo = task[t].todo \ {h}],
                          IF task[t].todo \ {h} = {} THEN after ELSE task[t].pc)),
             UNCHANGED <<actor, envelope, minted>>
      PROVE  TInv'
    <2>1. h \in Holds
        BY <1>0 DEF TaskRow
    <2>2. hold[h] \in HoldRow /\ hold' \in [Holds -> HoldRow \cup {NoHold}] /\ HoldsLock'
        BY <1>2, <2>1, HoldDecided
    <2>3. hold[h].agent \in Actors /\ hold[h].reserved \in Nat
        BY <2>2 DEF HoldRow
    <2>4. /\ CommitmentCost(hold[h].reserved) \in Nat
          /\ CommitmentCost(hold[h].reserved) <= hold[h].reserved
        BY <2>3, CommitmentBounded
    <2>5. ledger' \in [Actors -> Row]
        BY <1>2, <2>3, <2>4, SettledType DEF TInv, TypeOK
    <2>6. log' \in Seq(EventRow)
        <3>1. HoldEvent("hold_timeout", hold[h].agent, hold[h].agent, h,
                        hold[h].reserved, CommitmentCost(hold[h].reserved)) \in EventRow
            <4>1. hold[h].reserved \in Amount /\ CommitmentCost(hold[h].reserved) \in Amount
                BY <2>3, <2>4 DEF Amount
            <4> QED
                BY <2>1, <2>3, <4>1 DEF HoldEvent, EventRow, EventTypes, Targets
        <3> QED
            BY <1>2, <3>1 DEF TInv, TypeOK
    <2> DEFINE todo == task[t].todo \ {h}
               pc == IF todo = {} THEN after ELSE task[t].pc
               row == At([task[t] EXCEPT !.todo = todo], pc)
    <2>7. todo \in SUBSET Holds
        BY <1>0 DEF TaskRow
    <2>8. pc \in {IF task[t].pc \in {"list_late", "expire_late"} THEN "done"
                  ELSE AfterAuthorize(t, task[t].envelope),
                  IF task[t].pc \in {"list_late", "expire_late"} THEN "expire_late"
                  ELSE "expire_holds"}
        BY <1>0
    <2>9. row \in TaskRow /\ TaskOK(row, actor, envelope)
        <3> HIDE DEF todo, pc
        <3> QED
            BY <1>0, <2>7, <2>8, ExpiringOK
    <2>10. TaskOK(row, actor', envelope')
        BY <1>2, <2>9
    <2>11. Update(t, row)
        BY <1>2
    <2>12. Keeps(Actors, actor, actor', NoActor) /\ Keeps(Envelopes, envelope, envelope', NoEnvelope)
        BY <1>2, KeepsSame
    <2> HIDE DEF row
    <2> QED
        BY <1>2, <2>2, <2>5, <2>6, <2>9, <2>10, <2>11, <2>12, Transaction DEF TInv, TypeOK
<1> QED
    BY <1>1, <1>2 DEF ExpireHold

\* Triggering a hold keeps TInv: the new row locks a positive cost.
LEMMA TriggerStep ==
    ASSUME TInv, NEW t \in Tasks, UNCHANGED world, Trigger(t)
    PROVE  TInv'
<1> DEFINE a == task[t].action
           cost == QuoteCost(a)
<1>0. task[t] \in TaskRow /\ TaskOK(task[t], actor, envelope)
    BY DEF TInv, TypeOK, TasksOK
<1>1. /\ a \in Requests
      /\ task[t].envelope \in Envelopes
      /\ Return(t)
    BY <1>0 DEF Trigger, TaskOK, TaskRow, SelfPriced
<1>2. a.actor \in Actors
    BY <1>1, RequestsAssumption DEF RequestOK
<1>3. cost \in Nat /\ cost > 0
    BY <1>1, QuotePositive
<1>4. CASE UNCHANGED db
    BY <1>1, <1>4, ReturnOnly
<1>5. ASSUME NEW h \in Holds,
             CanReserve(ledger[a.actor], cost),
             hold' = [hold EXCEPT ![h] =
                  [status |-> "pending", envelope |-> task[t].envelope, agent |-> a.actor,
                   action |-> a, reserved |-> cost, triggeredAt |-> clock]],
             ledger' = [ledger EXCEPT ![a.actor] = Reserve(@, cost)],
             log' = Append(log, HoldEvent("hold_request", a.actor, a.actor, h, cost, 0)),
             UNCHANGED <<actor, envelope, minted>>
      PROVE  TInv'
    <2> HIDE DEF cost
    <2> DEFINE r == [status |-> "pending", envelope |-> task[t].envelope, agent |-> a.actor,
                     action |-> a, reserved |-> cost, triggeredAt |-> clock]
    <2>1. r \in HoldRow
        BY <1>1, <1>2, <1>3 DEF HoldRow, TInv, TypeOK
    <2>2. hold' \in [Holds -> HoldRow \cup {NoHold}]
        BY <1>5, <2>1 DEF TInv, TypeOK
    <2>3. HoldsLock'
        BY <1>3, <1>5 DEF HoldsLock, TInv, TypeOK
    <2>4. ledger' \in [Actors -> Row]
        BY <1>2, <1>3, <1>5, ReserveConsistent DEF TInv, TypeOK
    <2>5. log' \in Seq(EventRow)
        <3>1. HoldEvent("hold_request", a.actor, a.actor, h, cost, 0) \in EventRow
            <4>1. cost \in Amount /\ 0 \in Amount
                BY <1>3 DEF Amount
            <4> QED
                BY <1>2, <4>1 DEF HoldEvent, EventRow, EventTypes, Targets
        <3> QED
            BY <1>5, <3>1 DEF TInv, TypeOK
    <2>6. Keeps(Actors, actor, actor', NoActor) /\ Keeps(Envelopes, envelope, envelope', NoEnvelope)
        BY <1>5, KeepsSame
    <2>7. Returned \in TaskRow /\ TaskOK(Returned, actor', envelope') /\ Update(t, Returned)
        BY <1>0, <1>1, AtType, ReturnedOK DEF Return, Steps
    <2> QED
        BY <1>5, <2>2, <2>3, <2>4, <2>5, <2>6, <2>7, Transaction DEF TInv, TypeOK
<1> QED
    BY <1>4, <1>5 DEF Trigger

\* Resolving a hold keeps TInv, with the task that re-executes its action.
LEMMA ResolveStep ==
    ASSUME TInv, NEW t \in Tasks, UNCHANGED world, Resolve(t)
    PROVE  TInv'
<1> DEFINE a == task[t].action
           h == a.arg.hold
           r == hold[h]
           reject == a.arg.decision = "reject"
           cost == IF reject THEN CommitmentCost(r.reserved) ELSE 0
           again == [NewTask EXCEPT !.pc = "check", !.action = r.action,
                                    !.via = h, !.reserved = r.reserved]
<1>0. task[t] \in TaskRow /\ TaskOK(task[t], actor, envelope)
    BY DEF TInv, TypeOK, TasksOK
<1>1. a \in Requests /\ IsHoldResponse(a)
    BY <1>0 DEF Resolve, TaskOK, TaskRow, SelfPriced
<1>2. a.actor \in Actors /\ h \in Holds
    BY <1>1, RequestsAssumption DEF RequestOK
<1>3. CASE Return(t) /\ UNCHANGED db
    BY <1>3, ReturnOnly
<1>4. ASSUME StillPending(r),
             reject => CanSettle(ledger[r.agent], r.reserved, cost),
             hold' = [hold EXCEPT ![h].status = Decided(a.arg.decision)],
             ledger' = IF reject THEN [ledger EXCEPT ![r.agent] = Settle(@, r.reserved, cost)]
                       ELSE ledger,
             log' = Append(log, HoldEvent("hold_response", a.actor, r.agent, h, r.reserved, cost)),
             Return(t) \/ Update(t, again),
             UNCHANGED <<actor, envelope, minted>>
      PROVE  TInv'
    <2>1. Decided(a.arg.decision) \in {"approved", "rejected", "timed_out"}
        BY DEF Decided
    <2>2. r \in HoldRow /\ hold' \in [Holds -> HoldRow \cup {NoHold}] /\ HoldsLock'
        BY <1>2, <1>4, <2>1, HoldDecided
    <2>3. /\ r.agent \in Actors /\ r.reserved \in Nat /\ r.action \in Requests
          /\ r.reserved > 0
        BY <1>2, <2>2 DEF HoldRow, TInv, HoldsLock, NoHold
    <2>4. cost \in Nat /\ cost <= r.reserved
        BY <2>3, CommitmentBounded
    <2>5. ledger' \in [Actors -> Row]
        <3> HIDE DEF cost, r, reject
        <3> QED
            BY <1>4, <2>3, <2>4, SettledType DEF TInv, TypeOK
    <2>6. log' \in Seq(EventRow)
        <3> DEFINE event == HoldEvent("hold_response", a.actor, r.agent, h, r.reserved, cost)
        <3>1. event \in EventRow
            <4>1. r.reserved \in Amount /\ cost \in Amount
                BY <2>3, <2>4 DEF Amount
            <4> HIDE DEF cost
            <4> QED
                BY <1>2, <2>3, <4>1 DEF HoldEvent, EventRow, EventTypes, Targets
        <3>2. log' = Append(log, event)
            BY <1>4
        <3> HIDE DEF event
        <3> QED
            BY <3>1, <3>2 DEF TInv, TypeOK
    <2>7. Keeps(Actors, actor, actor', NoActor) /\ Keeps(Envelopes, envelope, envelope', NoEnvelope)
        BY <1>4, KeepsSame
    <2>8. PICK row \in TaskRow : Update(t, row) /\ TaskOK(row, actor', envelope')
        <3>1. CASE Return(t)
            BY <3>1, <1>0, AtType, ReturnedOK DEF Return, Steps
        <3>2. CASE Update(t, again)
            <4>1. again \in TaskRow
                <5>1. 0 \in Amount /\ r.reserved \in Amount
                    BY <2>3 DEF Amount
                <5> QED
                    BY <1>2, <2>3, <5>1 DEF NewTask, TaskRow, Steps
            <4>2. TaskOK(again, actor', envelope')
                <5>1. /\ again.pc = "check" /\ again.action = r.action /\ again.envelope = None
                      /\ again.reserved = r.reserved
                    BY DEF NewTask
                <5>2. r.action # None
                    BY <2>3, NoneAssumption
                <5> HIDE DEF again
                <5> QED
                    BY <2>3, <5>1, <5>2 DEF TaskOK
            <4> QED
                BY <3>2, <4>1, <4>2
        <3> QED
            BY <1>4, <3>1, <3>2
    <2> QED
        BY <1>4, <2>2, <2>5, <2>6, <2>7, <2>8, Transaction DEF TInv, TypeOK
<1> QED
    BY <1>3, <1>4 DEF Resolve

\* The reservation keeps TInv: what the task carries is positive.
LEMMA ReserveStep ==
    ASSUME TInv, NEW t \in Tasks, UNCHANGED world, ReserveEnergy(t)
    PROVE  TInv'
<1> DEFINE a == task[t].action
           cost == QuoteCost(a)
           row == [task[t] EXCEPT !.pc = "finalize", !.reserved = cost]
<1>0. task[t] \in TaskRow /\ TaskOK(task[t], actor, envelope)
    BY DEF TInv, TypeOK, TasksOK
<1>1. task[t].pc = "reserve" /\ a \in Requests
    BY <1>0 DEF ReserveEnergy, TaskOK, TaskRow, SelfPriced
<1>2. a.actor \in Actors
    BY <1>1, RequestsAssumption DEF RequestOK
<1>3. cost \in Nat /\ cost > 0
    BY <1>1, QuotePositive
<1>4. CASE Return(t) /\ UNCHANGED db
    BY <1>4, ReturnOnly
<1>5. ASSUME CanReserve(ledger[a.actor], cost),
             ledger' = [ledger EXCEPT ![a.actor] = Reserve(@, cost)],
             Update(t, row),
             UNCHANGED <<actor, envelope, hold, log, minted>>
      PROVE  TInv'
    <2> HIDE DEF cost
    <2>1. ledger' \in [Actors -> Row]
        BY <1>2, <1>3, <1>5, ReserveConsistent DEF TInv, TypeOK
    <2>2. row \in TaskRow
        <3>1. cost \in Amount
            BY <1>3 DEF Amount
        <3> QED
            BY <1>0, <3>1 DEF TaskRow, Steps
    <2>3. TaskOK(row, actor, envelope)
        BY <1>0, <1>1, <1>3 DEF TaskOK, TaskRow, SelfPriced
    <2>4. TaskOK(row, actor', envelope')
        BY <1>5, <2>3
    <2>5. Keeps(Actors, actor, actor', NoActor) /\ Keeps(Envelopes, envelope, envelope', NoEnvelope)
        BY <1>5, KeepsSame
    <2>6. HoldsLock'
        BY <1>5 DEF HoldsLock, TInv
    <2> QED
        BY <1>5, <2>1, <2>2, <2>4, <2>5, <2>6, Transaction DEF TInv, TypeOK
<1> QED
    BY <1>4, <1>5 DEF ReserveEnergy

\* Taking a cost from the payload keeps TInv.
LEMMA PrepaidStep ==
    ASSUME TInv, NEW t \in Tasks, UNCHANGED world, TakePrepaid(t)
    PROVE  TInv'
<1> DEFINE a == task[t].action
           row == [task[t] EXCEPT !.pc = "finalize", !.reserved = a.prepaid]
<1>0. task[t] \in TaskRow /\ TaskOK(task[t], actor, envelope)
    BY DEF TInv, TypeOK, TasksOK
<1>1. task[t].pc = "reserve" /\ a \in Requests /\ SelfPriced(task[t])
    BY <1>0 DEF TakePrepaid, TaskOK, TaskRow
<1>2. a.prepaid \in Int
    BY <1>1, RequestsAssumption DEF RequestOK, SelfPriced
<1>3. row \in TaskRow
    <2>1. a.prepaid \in Amount
        BY <1>2 DEF Amount
    <2> QED
        BY <1>0, <2>1 DEF TaskRow, Steps
<1>4. TaskOK(row, actor, envelope)
    BY <1>0, <1>1 DEF TaskOK, TaskRow, SelfPriced
<1> QED
    BY <1>3, <1>4, TaskOnly DEF TakePrepaid

\* The event of a request has its type.
LEMMA ActionEventType ==
    ASSUME NEW r \in TaskRow, r.action # None
    PROVE  ActionEvent(r) \in EventRow
<1>1. r.action \in Requests
    BY DEF TaskRow
<1>2. /\ r.action.type \in Types /\ r.action.target \in Targets
      /\ r.action.actor \in Actors /\ r.action.approved \in BOOLEAN
    BY <1>1, RequestsAssumption DEF RequestOK
<1>3. SelfApproved(r) \in BOOLEAN /\ SelfPriced(r) \in BOOLEAN
    BY <1>2 DEF SelfApproved, SelfPriced
<1> QED
    BY <1>2, <1>3 DEF ActionEvent, EventRow, EventTypes, TaskRow

\* The three writes of finalize_energy_and_event, table by table.
LEMMA FinalizeStep ==
    ASSUME TInv, NEW t \in Tasks, UNCHANGED world, Finalize(t)
    PROVE  TInv'
<1> DEFINE a == task[t].action
           cost == task[t].reserved
           settled == IF cost > 0 THEN [ledger EXCEPT ![a.actor] = Settle(@, cost, cost)] ELSE ledger
           event == ActionEvent(task[t])
<1>0. task[t] \in TaskRow /\ TaskOK(task[t], actor, envelope)
    BY DEF TInv, TypeOK, TasksOK
<1>1. /\ task[t].pc = "finalize" /\ a \in Requests /\ a # None
      /\ cost \in Int
      /\ cost > 0 \/ SelfPriced(task[t])
    BY <1>0 DEF Finalize, TaskOK, TaskRow, Amount
<1>2. RequestOK(a)
    BY <1>1, RequestsAssumption
<1>3. CASE Return(t) /\ UNCHANGED db
    BY <1>3, ReturnOnly
<1>4. ASSUME cost > 0 => CanSettle(ledger[a.actor], cost, cost),
             IsCreateActor(a) => a.arg.energy >= 0 /\ ~Exists(a.arg.id),
             IF IsCreateActor(a)
             THEN /\ ledger' = [settled EXCEPT ![a.arg.id] = NewAccount(a.arg.energy)]
                  /\ actor' = [actor EXCEPT ![a.arg.id] = NewActor(a)]
                  /\ minted' = [minted EXCEPT ![a.arg.id] = a.arg.energy]
             ELSE ledger' = settled /\ UNCHANGED <<actor, minted>>,
             IF IsCreateEnvelope(a)
             THEN \E e \in Envelopes :
                     /\ envelope[e] = NoEnvelope
                     /\ envelope' = [envelope EXCEPT ![e] = GrantedEnvelope(a, task[t].parent)]
             ELSE UNCHANGED envelope,
             log' = Append(log, event),
             Goto(t, AfterCommit(a, cost)),
             UNCHANGED hold
      PROVE  TInv'
    <2>1. a.actor \in Actors /\ a.type \in Types /\ a.target \in Targets
        BY <1>2 DEF RequestOK
    <2>2. settled \in [Actors -> Row]
        <3>1. ledger \in [Actors -> Row]
            BY DEF TInv, TypeOK
        <3>2. CASE cost > 0
            <4>1. cost \in Nat /\ cost <= cost
                BY <1>1, <3>2
            <4>2. [ledger EXCEPT ![a.actor] = Settle(@, cost, cost)] \in [Actors -> Row]
                BY <1>4, <2>1, <3>1, <3>2, <4>1, SettledType
            <4> QED
                BY <3>2, <4>2
        <3>3. CASE ~(cost > 0)
            BY <3>1, <3>3
        <3> QED
            BY <3>2, <3>3
    <2>3. /\ ledger' \in [Actors -> Row]
          /\ minted' \in [Actors -> Nat]
        <3> HIDE DEF settled
        <3>1. CASE IsCreateActor(a)
            <4>1. a.arg.energy \in Nat
                BY <1>2, <1>4, <3>1 DEF RequestOK
            <4>2. NewAccount(a.arg.energy) \in Row
                BY <4>1 DEF NewAccount, Row
            <4> QED
                BY <1>4, <2>2, <3>1, <4>1, <4>2 DEF TInv, TypeOK
        <3>2. CASE ~IsCreateActor(a)
            BY <1>4, <2>2, <3>2 DEF TInv, TypeOK
        <3> QED
            BY <3>1, <3>2
    <2>4. /\ actor' \in [Actors -> ActorRow \cup {NoActor}]
          /\ Keeps(Actors, actor, actor', NoActor)
        <3>1. CASE IsCreateActor(a)
            <4>1. NewActor(a) \in ActorRow
                BY <1>2, <2>1, <3>1 DEF RequestOK, NewActor, ActorRow
            <4>2. NewActor(a) # NoActor
                BY DEF NewActor, NoActor
            <4> QED
                BY <1>4, <3>1, <4>1, <4>2 DEF TInv, TypeOK, Keeps
        <3>2. CASE ~IsCreateActor(a)
            BY <1>4, <3>2, KeepsSame DEF TInv, TypeOK
        <3> QED
            BY <3>1, <3>2
    <2>5. /\ envelope' \in [Envelopes -> EnvelopeRow \cup {NoEnvelope}]
          /\ Keeps(Envelopes, envelope, envelope', NoEnvelope)
        <3>1. CASE IsCreateEnvelope(a)
            <4>1. PICK e \in Envelopes :
                     /\ envelope[e] = NoEnvelope
                     /\ envelope' = [envelope EXCEPT ![e] = GrantedEnvelope(a, task[t].parent)]
                BY <1>4, <3>1
            <4>2. a.arg.budget \in Nat
                BY <1>0, <1>1, <1>2, <3>1 DEF RequestOK, TaskOK, SelfPriced
            <4>3. /\ a.arg.holder \in Actors
                  /\ a.arg.targets \subseteq Patterns /\ a.arg.actions \subseteq Types
                  /\ a.arg.holdOn \subseteq Targets \X Types /\ a.arg.timeout \in Nat
                  /\ a.arg.duration \in Nat \cup {Never}
                BY <1>2, <3>1 DEF RequestOK
            <4>4. clock \in Nat /\ task[t].parent \in Envelopes \cup {None}
                BY <1>0 DEF TInv, TypeOK, TaskRow
            <4>5. (IF a.arg.duration = Never THEN Never ELSE clock + a.arg.duration)
                     \in Nat \cup {Never}
                BY <4>3, <4>4
            <4>6. GrantedEnvelope(a, task[t].parent) \in EnvelopeRow
                BY <4>2, <4>3, <4>4, <4>5 DEF GrantedEnvelope, EnvelopeRow
            <4>7. GrantedEnvelope(a, task[t].parent) # NoEnvelope
                BY DEF GrantedEnvelope, NoEnvelope
            <4> QED
                BY <4>1, <4>6, <4>7 DEF TInv, TypeOK, Keeps
        <3>2. CASE ~IsCreateEnvelope(a)
            BY <1>4, <3>2, KeepsSame DEF TInv, TypeOK
        <3> QED
            BY <3>1, <3>2
    <2>6. log' \in Seq(EventRow)
        <3>1. event \in EventRow
            BY <1>0, <1>1, ActionEventType
        <3> HIDE DEF event
        <3> QED
            BY <1>4, <3>1 DEF TInv, TypeOK
    <2>7. HoldsLock'
        BY <1>4 DEF HoldsLock, TInv
    <2> DEFINE row == At(task[t], AfterCommit(a, cost))
    <2>8. row \in TaskRow /\ TaskOK(row, actor, envelope)
        <3>1. CASE AfterCommit(a, cost) = "account" /\ cost > 0
            <4>1. row = [task[t] EXCEPT !.pc = "account"]
                BY <3>1 DEF At
            <4> QED
                BY <1>0, <1>1, <3>1, <4>1 DEF TaskRow, TaskOK, Steps, SelfPriced
        <3>2. CASE AfterCommit(a, cost) = AfterBudget(a)
            BY <1>0, <1>1, <3>2, AfterBudgetOK
        <3> QED
            BY <3>1, <3>2 DEF AfterCommit
    <2>9. TaskOK(row, actor', envelope')
        BY <2>4, <2>5, <2>8, TaskPersists
    <2>10. Update(t, row)
        BY <1>4 DEF Goto
    <2> HIDE DEF row
    <2> QED
        BY <1>4, <2>3, <2>4, <2>5, <2>6, <2>7, <2>8, <2>9, <2>10, Transaction DEF TInv, TypeOK
<1> QED
    BY <1>3, <1>4 DEF Finalize

\* The charge to the envelope keeps TInv.
LEMMA ConsumeStep ==
    ASSUME TInv, NEW t \in Tasks, UNCHANGED world, Consume(t)
    PROVE  TInv'
<1> DEFINE a == task[t].action
           e == task[t].envelope
           consumed == envelope[e].consumed + task[t].reserved
           charged == [envelope[e] EXCEPT !.consumed = consumed,
                                          !.status = IF task[t].halt THEN "expired" ELSE @]
<1>0. task[t] \in TaskRow /\ TaskOK(task[t], actor, envelope)
    BY DEF TInv, TypeOK, TasksOK
<1>1. /\ task[t].pc = "consume" /\ a # None
      /\ e \in Envelopes /\ envelope[e] \in EnvelopeRow
      /\ UNCHANGED <<actor, ledger, hold, log, minted>>
    BY <1>0 DEF Consume, TaskOK, TaskRow, TInv, TypeOK, SelfPriced
<1>2. charged \in EnvelopeRow
    <2> DEFINE status == IF task[t].halt THEN "expired" ELSE envelope[e].status
    <2>1. consumed \in Nat
        <3>1. task[t].reserved \in Int /\ task[t].reserved > 0
            BY <1>0, <1>1 DEF TaskRow, TaskOK, Amount
        <3> QED
            BY <1>1, <3>1 DEF EnvelopeRow
    <2>2. status \in {"active", "expired"}
        BY <1>1 DEF EnvelopeRow
    <2> HIDE DEF status, consumed
    <2>3. [envelope[e] EXCEPT !.consumed = consumed, !.status = status] \in EnvelopeRow
        BY <1>1, <2>1, <2>2 DEF EnvelopeRow
    <2> QED
        BY <2>3 DEF status
<1>3. charged # NoEnvelope
    BY <1>2 DEF EnvelopeRow, NoEnvelope
<1>4. envelope' = envelope \/ envelope' = [envelope EXCEPT ![e] = charged]
    BY <1>1 DEF Consume, TInv, TypeOK
<1>5. /\ envelope' \in [Envelopes -> EnvelopeRow \cup {NoEnvelope}]
      /\ Keeps(Envelopes, envelope, envelope', NoEnvelope)
    <2> HIDE DEF charged
    <2> QED
        BY <1>1, <1>2, <1>3, <1>4 DEF TInv, TypeOK, Keeps
<1>6. Keeps(Actors, actor, actor', NoActor)
    BY <1>1, KeepsSame
<1> DEFINE row == At(task[t], AfterBudget(a))
<1>7. row \in TaskRow /\ TaskOK(row, actor, envelope) /\ Update(t, row)
    BY <1>0, <1>1, AfterBudgetOK DEF Consume, Goto
<1>8. TaskOK(row, actor', envelope')
    BY <1>5, <1>6, <1>7, TaskPersists
<1>9. HoldsLock'
    BY <1>1 DEF HoldsLock, TInv
<1> HIDE DEF row
<1> QED
    BY <1>1, <1>5, <1>6, <1>7, <1>8, <1>9, Transaction DEF TInv, TypeOK

\* Freeze, unfreeze, terminate and the change of a share keep TInv.
LEMMA LifecycleStep ==
    ASSUME TInv, NEW t \in Tasks, UNCHANGED world, Lifecycle(t)
    PROVE  TInv'
<1> DEFINE a == task[t].action
           arg == a.arg
<1>0. task[t] \in TaskRow /\ TaskOK(task[t], actor, envelope)
    BY DEF TInv, TypeOK, TasksOK
<1>1. /\ a \in Requests /\ IsLifecycle(a)
      /\ actor[arg.subject] # NoActor
      /\ Return(t) /\ UNCHANGED <<ledger, envelope, hold, log, minted>>
    BY <1>0 DEF Lifecycle, TaskOK, TaskRow, SelfPriced
<1>2. arg.subject \in Actors /\ arg.share \in Nat
    BY <1>1, RequestsAssumption DEF RequestOK
<1>3. actor \in [Actors -> ActorRow \cup {NoActor}]
    BY DEF TInv, TypeOK
<1>4. \A b \in FrozenWith(arg.subject) : b \in Actors /\ actor[b] \in ActorRow
    BY <1>1, <1>2, <1>3 DEF FrozenWith, NoActor
<1>5. \A b \in Actors : actor[b] \in ActorRow =>
          /\ [actor[b] EXCEPT !.status = "frozen"] \in ActorRow
          /\ [actor[b] EXCEPT !.status = "active"] \in ActorRow
          /\ [actor[b] EXCEPT !.share = arg.share] \in ActorRow
    BY <1>2 DEF ActorRow
<1>6. NoActor \notin ActorRow
    BY DEF NoActor, ActorRow
<1>7. /\ actor' \in [Actors -> ActorRow \cup {NoActor}]
      /\ Keeps(Actors, actor, actor', NoActor)
    <2>1. CASE actor' = [b \in Actors |-> IF b \in FrozenWith(arg.subject)
                                          THEN [actor[b] EXCEPT !.status = "frozen"] ELSE actor[b]]
        <3> HIDE DEF arg
        <3> QED
            BY <1>3, <1>4, <1>5, <1>6, <2>1 DEF Keeps
    <2>2. CASE actor' = [actor EXCEPT ![arg.subject].status = "active"]
        BY <1>1, <1>2, <1>3, <1>5, <1>6, <2>2 DEF Keeps
    <2>3. CASE actor' = [actor EXCEPT ![arg.subject].share = arg.share]
        BY <1>1, <1>2, <1>3, <1>5, <1>6, <2>3 DEF Keeps
    <2> QED
        BY <2>1, <2>2, <2>3 DEF Lifecycle
<1>8. Keeps(Envelopes, envelope, envelope', NoEnvelope)
    BY <1>1, KeepsSame
<1>9. Returned \in TaskRow /\ TaskOK(Returned, actor', envelope') /\ Update(t, Returned)
    BY <1>0, <1>1, AtType, ReturnedOK DEF Return, Steps
<1>10. HoldsLock'
    BY <1>1 DEF HoldsLock, TInv
<1> QED
    BY <1>1, <1>7, <1>8, <1>9, <1>10, Transaction DEF TInv, TypeOK

\* The producer's credit, the clock, a crash and a restart.
LEMMA SystemStep ==
    ASSUME TInv, System
    PROVE  TInv'
<1>0. TypeOK /\ TasksOK /\ HoldsLock
    BY DEF TInv
<1>1. CASE ListShares
    <2>1. UNCHANGED <<db, task, up, clock>> /\ ticks' = ticks + 1
        BY <1>1 DEF ListShares
    <2>2. producer' # None => producer' = ActiveShares
        BY <1>1 DEF ListShares
    <2>3. DOMAIN ActiveShares \subseteq Actors /\ ActiveShares \in [DOMAIN ActiveShares -> Nat]
        BY <1>0 DEF ActiveShares, TypeOK, ActorRow, NoActor
    <2>4. TypeOK'
        BY <1>0, <2>1, <2>2, <2>3 DEF TypeOK, db
    <2> QED
        BY <1>0, <2>1, <2>4 DEF TInv, TasksOK, HoldsLock, db
<1>2. CASE CreditShares
    <2> DEFINE given(credit, a) == IF a \in DOMAIN credit THEN credit[a] ELSE 0
    <2>1. PICK credit \in Allocations(EnergyPerTick, producer) :
             /\ ledger' = [a \in Actors |-> Credit(ledger[a], given(credit, a))]
             /\ minted' = [a \in Actors |-> minted[a] + given(credit, a)]
        BY <1>2, Zenon DEF CreditShares
    <2>2. \A a \in Actors : given(credit, a) \in Nat
        <3>1. IsFiniteSet(DOMAIN producer)
            BY <1>0, <1>2, ActorsAssumption, FS_Subset DEF TypeOK, CreditShares
        <3> QED
            BY <3>1, AllocationType, BoundsAssumption
    <2> HIDE DEF given
    <2>3. ledger' \in [Actors -> Row]
        <3>1. \A row \in Row, n \in Nat : Credit(row, n) \in Row
            BY DEF Credit, Row
        <3> QED
            BY <1>0, <2>1, <2>2, <3>1 DEF TypeOK
    <2>4. minted' \in [Actors -> Nat]
        BY <1>0, <2>1, <2>2 DEF TypeOK
    <2>5. producer' = None /\ UNCHANGED <<actor, envelope, hold, log, task, up, clock, ticks>>
        BY <1>2 DEF CreditShares
    <2> QED
        BY <1>0, <2>3, <2>4, <2>5 DEF TInv, TypeOK, TasksOK, HoldsLock
<1>3. CASE CreditFails
    BY <1>0, <1>3 DEF CreditFails, TInv, TypeOK, TasksOK, HoldsLock, db
<1>4. CASE Elapse
    BY <1>0, <1>4 DEF Elapse, TInv, TypeOK, TasksOK, HoldsLock, db
<1>5. CASE Crash
    <2>1. /\ producer' = None /\ up' = FALSE /\ UNCHANGED <<db, clock, ticks>>
          /\ task' = [t \in Tasks |-> IF task[t].pc = "new" THEN task[t] ELSE Returned]
        BY <1>5 DEF Crash
    <2>2. ASSUME NEW t \in Tasks
          PROVE  task'[t] \in TaskRow /\ TaskOK(task'[t], actor', envelope')
        <3>1. task[t] \in TaskRow /\ TaskOK(task[t], actor, envelope)
            BY <1>0 DEF TypeOK, TasksOK
        <3>2. Returned \in TaskRow /\ TaskOK(Returned, actor, envelope)
            BY <3>1, AtType, ReturnedOK DEF Steps
        <3> QED
            BY <2>1, <3>1, <3>2 DEF db
    <2>3. task' \in [Tasks -> TaskRow]
        BY <2>1, <2>2
    <2> QED
        BY <1>0, <2>1, <2>2, <2>3 DEF TInv, TypeOK, TasksOK, HoldsLock, db
<1>6. CASE Restart
    BY <1>0, <1>6 DEF Restart, TInv, TypeOK, TasksOK, HoldsLock, db
<1> QED
    BY <1>1, <1>2, <1>3, <1>4, <1>5, <1>6 DEF System

-----------------------------------------------------------------------------
\* Init establishes TInv.
LEMMA InitTInv == Init => TInv
<1> SUFFICES ASSUME Init PROVE TInv
    OBVIOUS
<1>1. TypeOK
    <2>1. NewTask \in TaskRow
        <3>1. 0 \in Amount
            BY DEF Amount
        <3> QED
            BY <3>1 DEF NewTask, TaskRow, Steps
    <2>2. minted \in [Actors -> Nat]
        BY TablesAssumption DEF Init, Row
    <2> QED
        BY <2>1, <2>2, TablesAssumption DEF Init, TypeOK
<1>2. TasksOK
    <2>1. TaskOK(NewTask, actor, envelope)
        BY DEF NewTask, TaskOK, SelfPriced
    <2> QED
        BY <2>1 DEF Init, TasksOK
<1>3. HoldsLock
    BY DEF Init, HoldsLock
<1> QED
    BY <1>1, <1>2, <1>3 DEF TInv

\* Every step of Next keeps TInv.
LEMMA NextTInv == TInv /\ [Next]_vars => TInv'
<1> SUFFICES ASSUME TInv, [Next]_vars PROVE TInv'
    OBVIOUS
<1>1. CASE System
    BY <1>1, SystemStep
<1>2. ASSUME NEW t \in Tasks, TaskStep(t) PROVE TInv'
    <2>1. UNCHANGED world
        BY <1>2 DEF TaskStep
    <2> QED
        BY <1>2, <2>1, ReadingSteps, AuthorizeStep, ListHoldsStep, ParseStep, AccountStep,
           ExpireEnvelopeStep, ExpireHoldStep, TriggerStep, ResolveStep, ReserveStep, PrepaidStep,
           FinalizeStep, ConsumeStep, LifecycleStep
        DEF TaskStep, Progress
<1>3. ASSUME NEW t \in Tasks, ClientStep(t) PROVE TInv'
    BY <1>3, ReadingSteps, AccountStep DEF ClientStep
<1>4. CASE UNCHANGED vars
    <2>1. UNCHANGED <<actor, ledger, envelope, hold, log, task, producer, up, clock, ticks, minted>>
        BY <1>4 DEF vars
    <2> QED
        BY <2>1 DEF TInv, TypeOK, TasksOK, HoldsLock
<1> QED
    BY <1>1, <1>2, <1>3, <1>4 DEF Next

\* No interleaving of requests, ticks, crashes and restarts makes a row ill
\* formed: in particular no request acts on an envelope, hold or actor that it
\* has read and that is not there, and no envelope gets a negative budget.
THEOREM TypeCorrect == Spec => []TypeOK
<1>1. Spec => []TInv
    BY InitTInv, NextTInv, PTL DEF Spec
<1>2. TInv => TypeOK
    BY DEF TInv
<1> QED
    BY <1>1, <1>2, PTL
=============================================================================
