----------------------------- MODULE SumTheorems -----------------------------
(***************************************************************************)
(* What the sums of the models obey: SumFunctionOnSet(f, S) of the         *)
(* community module Functions, the sum of f[x] over the x in a finite set  *)
(* S.  Ledgers, vaults and windows all hold such sums, and their proofs    *)
(* need only how a sum changes when a few of its parts do.                 *)
(*                                                                         *)
(* SumFunctionOnSet is defined by an iteration that picks the elements in  *)
(* an unknown order, so every fact about it is an induction over finite    *)
(* sets.  SubsetInduct is that induction with a set for its hypothesis in  *)
(* place of an operator, derived from the minimal element that a           *)
(* well-founded ordering has (WFMin).                                      *)
(*                                                                         *)
(* The second half is about meters: a counter with the time its window     *)
(* began, beside a ledger of what was counted when.  A window that counts  *)
(* all its ledger holds since it began (MeterFits), and whose ledger sees  *)
(* at most two caps in any stretch of one duration (CapFits), stays so     *)
(* when it counts another amount (MeterKept, CapKept).  The windows of the *)
(* contracts and of the Solana program both are such meters.               *)
(***************************************************************************)
EXTENDS Functions, FiniteSets, FiniteSetTheorems, WellFoundedInduction, TLAPS

\* Induction over the subsets of a finite set: if Good holds every subset whose
\* proper subsets it holds, it holds all of them.
LEMMA SubsetInduct ==
    ASSUME NEW S, IsFiniteSet(S), NEW Good,
           \A T \in SUBSET S : (\A U \in SUBSET T : U # T => U \in Good) => T \in Good
    PROVE  \A T \in SUBSET S : T \in Good
  <1> DEFINE Bad == {T \in SUBSET S : T \notin Good}
  <1>1. FiniteSubsetsOf(S) = SUBSET S
    BY FS_FiniteSubsetsOfFinite
  <1>2. IsWellFoundedOn(StrictSubsetOrdering(S), SUBSET S)
    BY <1>1, FS_StrictSubsetOrderingWellFounded
  <1>3. SUFFICES ASSUME Bad # {} PROVE FALSE
    OBVIOUS
  <1>4. PICK T \in Bad : \A U \in Bad : <<U, T>> \notin StrictSubsetOrdering(S)
    <2>1. Bad \subseteq SUBSET S
      OBVIOUS
    <2> HIDE DEF Bad
    <2> QED BY <1>2, <1>3, <2>1, WFMin
  <1>5. \A U \in SUBSET T : U # T => U \in Good
    BY <1>4 DEF StrictSubsetOrdering
  <1> QED BY <1>4, <1>5

-----------------------------------------------------------------------------
(* The sum as the iteration that defines it.                               *)

\* The element that the iteration takes next.
Chosen(s) == CHOOSE x \in s : TRUE

\* g is the iteration over the subsets of S.
Adds(f, S, g) ==
  g = [s \in SUBSET S |-> IF s = {} THEN 0 ELSE f[Chosen(s)] + g[s \ {Chosen(s)}]]

\* The definition in the library, in these terms.
LEMMA SumIsIter == ASSUME NEW f, NEW S PROVE SumFunctionOnSet(f, S) = (CHOOSE g : Adds(f, S, g))[S]
  BY DEF SumFunctionOnSet, FoldFunctionOnSet, MapThenFoldSet, Adds, Chosen

\* One round of the iteration.
LEMMA AddsAt ==
    ASSUME NEW f, NEW S, NEW g, Adds(f, S, g), NEW T \in SUBSET S
    PROVE  g[T] = IF T = {} THEN 0 ELSE f[Chosen(T)] + g[T \ {Chosen(T)}]
  <1> DEFINE Body(s) == IF s = {} THEN 0 ELSE f[Chosen(s)] + g[s \ {Chosen(s)}]
  <1>1. g = [s \in SUBSET S |-> Body(s)]
    BY DEF Adds
  <1> HIDE DEF Body
  <1>2. g[T] = Body(T)
    BY <1>1
  <1> QED BY <1>2 DEF Body

\* Two iterations agree wherever both are defined.
LEMMA AddsUnique ==
    ASSUME NEW f, NEW S, IsFiniteSet(S), NEW T, NEW U, NEW g, NEW h,
           S \subseteq T, S \subseteq U, Adds(f, T, g), Adds(f, U, h)
    PROVE  g[S] = h[S]
  <1> DEFINE Good == {s \in SUBSET S : g[s] = h[s]}
  <1>1. ASSUME NEW s \in SUBSET S, \A r \in SUBSET s : r # s => r \in Good
        PROVE  s \in Good
    <2>1. g[s] = IF s = {} THEN 0 ELSE f[Chosen(s)] + g[s \ {Chosen(s)}]
      <3>1. s \in SUBSET T OBVIOUS
      <3> QED BY <3>1, AddsAt
    <2>2. h[s] = IF s = {} THEN 0 ELSE f[Chosen(s)] + h[s \ {Chosen(s)}]
      <3>1. s \in SUBSET U OBVIOUS
      <3> QED BY <3>1, AddsAt
    <2>3. s # {} => Chosen(s) \in s
      BY DEF Chosen
    <2>4. s # {} => s \ {Chosen(s)} \in Good
      BY <1>1, <2>3
    <2> QED BY <2>1, <2>2, <2>4
  <1> HIDE DEF Good
  <1>2. S \in Good
    BY <1>1, SubsetInduct
  <1> QED BY <1>2 DEF Good

\* There is an iteration over the subsets of every finite set: built from the
\* ones over smaller sets.
LEMMA AddsExists ==
    ASSUME NEW f, NEW S, IsFiniteSet(S)
    PROVE  \E g : Adds(f, S, g)
  <1> DEFINE Good == {s \in SUBSET S : \E g : Adds(f, s, g)}
  <1>1. ASSUME NEW s \in SUBSET S, \A r \in SUBSET s : r # s => r \in Good
        PROVE  s \in Good
    <2> DEFINE G(r) == CHOOSE g : Adds(f, r, g)
               g == [r \in SUBSET s |->
                       IF r # s THEN G(r)[r]
                       ELSE IF s = {} THEN 0 ELSE f[Chosen(s)] + G(s \ {Chosen(s)})[s \ {Chosen(s)}]]
    <2>1. ASSUME NEW r \in SUBSET s, r # s PROVE Adds(f, r, G(r))
      BY <1>1, <2>1
    <2>2. ASSUME NEW r \in SUBSET s
          PROVE  g[r] = IF r = {} THEN 0 ELSE f[Chosen(r)] + g[r \ {Chosen(r)}]
      <3>1. r # {} => Chosen(r) \in r
        BY DEF Chosen
      <3>2. CASE r = s
        <4> HIDE DEF G
        <4> QED BY <3>1, <3>2
      <3>3. CASE r # s /\ r = {}
        <4>0. Adds(f, r, G(r))
          BY <2>1, <3>3
        <4> HIDE DEF G
        <4>1. G(r)[r] = 0
          BY <4>0, <3>3, AddsAt
        <4> QED BY <3>3, <4>1
      <3>4. CASE r # s /\ r # {}
        <4> DEFINE q == r \ {Chosen(r)}
        <4>1. q \in SUBSET r /\ q # s /\ q \in SUBSET s
          BY <3>1, <3>4
        <4>3. IsFiniteSet(q)
          BY FS_Subset
        <4>4. Adds(f, r, G(r)) /\ Adds(f, q, G(q))
          BY <2>1, <3>4, <4>1
        <4> HIDE DEF G
        <4>2. G(r)[r] = f[Chosen(r)] + G(r)[q]
          BY <4>4, <3>4, AddsAt
        <4> HIDE DEF q
        <4>5. G(r)[q] = G(q)[q]
          BY <4>1, <4>3, <4>4, AddsUnique
        <4>6. g[r] = G(r)[r] /\ g[q] = G(q)[q]
          BY <3>4, <4>1
        <4>7. g[r] = f[Chosen(r)] + g[q]
          BY <4>2, <4>5, <4>6
        <4> HIDE DEF g
        <4> QED BY <4>7, <3>4 DEF q
      <3> QED BY <3>2, <3>3, <3>4
    <2>3. Adds(f, s, g)
      <3>1. g = [r \in SUBSET s |-> g[r]]
        <4> HIDE DEF G
        <4> QED OBVIOUS
      <3> HIDE DEF g
      <3> QED BY <2>2, <3>1 DEF Adds
    <2> QED BY <2>3
  <1> HIDE DEF Good
  <1>2. S \in Good
    BY <1>1, SubsetInduct
  <1> QED BY <1>2 DEF Good

\* So the sum takes one element and goes on with the rest.
LEMMA SumChosen ==
    ASSUME NEW f, NEW S, IsFiniteSet(S), S # {}
    PROVE  SumFunctionOnSet(f, S) = f[Chosen(S)] + SumFunctionOnSet(f, S \ {Chosen(S)})
  <1> DEFINE G(r) == CHOOSE g : Adds(f, r, g)
             T == S \ {Chosen(S)}
  <1>1. IsFiniteSet(T)
    BY FS_Subset
  <1>2. Adds(f, S, G(S)) /\ Adds(f, T, G(T))
    BY <1>1, AddsExists
  <1>3. SumFunctionOnSet(f, S) = G(S)[S] /\ SumFunctionOnSet(f, T) = G(T)[T]
    BY SumIsIter
  <1> HIDE DEF G
  <1>4. G(S)[S] = f[Chosen(S)] + G(S)[T]
    BY <1>2, AddsAt
  <1>6. T \subseteq S /\ T \subseteq T
    OBVIOUS
  <1> HIDE DEF T
  <1>5. G(S)[T] = G(T)[T]
    BY <1>1, <1>2, <1>6, AddsUnique
  <1> QED BY <1>3, <1>4, <1>5 DEF T

-----------------------------------------------------------------------------
(* The sum as a sum.                                                       *)

\* Nothing sums to 0.
LEMMA SumEmpty == ASSUME NEW f PROVE SumFunctionOnSet(f, {}) = 0
  <1> DEFINE g == CHOOSE g : Adds(f, {}, g)
  <1>1. Adds(f, {}, g)
    BY AddsExists, FS_EmptySet
  <1>2. SumFunctionOnSet(f, {}) = g[{}]
    BY SumIsIter
  <1>3. g[{}] = 0
    BY <1>1 DEF Adds
  <1> QED BY <1>2, <1>3

\* Integers sum to an integer.
LEMMA SumInt ==
    ASSUME NEW S, IsFiniteSet(S), NEW f, \A x \in S : f[x] \in Int
    PROVE  SumFunctionOnSet(f, S) \in Int
  <1> DEFINE Good == {s \in SUBSET S : SumFunctionOnSet(f, s) \in Int}
  <1>1. ASSUME NEW s \in SUBSET S, \A r \in SUBSET s : r # s => r \in Good
        PROVE  s \in Good
    <2>1. CASE s = {}
      BY <2>1, SumEmpty
    <2>2. CASE s # {}
      <3>1. Chosen(s) \in s
        BY <2>2 DEF Chosen
      <3>2. IsFiniteSet(s)
        BY FS_Subset
      <3>3. SumFunctionOnSet(f, s \ {Chosen(s)}) \in Int
        BY <1>1, <3>1
      <3> QED BY <2>2, <3>1, <3>2, <3>3, SumChosen
    <2> QED BY <2>1, <2>2
  <1> HIDE DEF Good
  <1>2. S \in Good
    BY <1>1, SubsetInduct
  <1> QED BY <1>2 DEF Good

\* Any element may be taken first: the order of the iteration does not matter.
LEMMA SumRemove ==
    ASSUME NEW S, IsFiniteSet(S), NEW f, \A x \in S : f[x] \in Int, NEW a \in S
    PROVE  SumFunctionOnSet(f, S) = f[a] + SumFunctionOnSet(f, S \ {a})
  <1> DEFINE Good == {s \in SUBSET S : \A x \in s :
                        SumFunctionOnSet(f, s) = f[x] + SumFunctionOnSet(f, s \ {x})}
  <1>1. ASSUME NEW s \in SUBSET S, \A r \in SUBSET s : r # s => r \in Good
        PROVE  s \in Good
    <2> SUFFICES ASSUME NEW x \in s
                 PROVE  SumFunctionOnSet(f, s) = f[x] + SumFunctionOnSet(f, s \ {x})
      OBVIOUS
    <2> DEFINE c == Chosen(s)
    <2>1. c \in s
      BY DEF Chosen
    <2>2. \A r \in SUBSET s : IsFiniteSet(r) /\ SumFunctionOnSet(f, r) \in Int
      BY FS_Subset, SumInt
    <2>3. SumFunctionOnSet(f, s) = f[c] + SumFunctionOnSet(f, s \ {c})
      BY <2>2, SumChosen
    <2> HIDE DEF c
    <2>4. CASE x = c
      BY <2>3, <2>4
    <2>5. CASE x # c
      <3>1. SumFunctionOnSet(f, s \ {c}) = f[x] + SumFunctionOnSet(f, (s \ {c}) \ {x})
        BY <1>1, <2>1, <2>5
      <3>2. SumFunctionOnSet(f, s \ {x}) = f[c] + SumFunctionOnSet(f, (s \ {x}) \ {c})
        BY <1>1, <2>1, <2>5
      <3>3. (s \ {c}) \ {x} = (s \ {x}) \ {c}
        OBVIOUS
      <3>4. f[c] \in Int /\ f[x] \in Int
        BY <2>1
      <3> DEFINE r == SumFunctionOnSet(f, (s \ {x}) \ {c})
      <3>5. r \in Int
        BY <2>2
      <3>6. /\ SumFunctionOnSet(f, s) = f[c] + (f[x] + r)
            /\ SumFunctionOnSet(f, s \ {x}) = f[c] + r
        BY <2>3, <3>1, <3>2, <3>3
      <3> HIDE DEF r
      <3>7. f[c] + (f[x] + r) = f[x] + (f[c] + r)
        BY <3>4, <3>5
      <3> QED BY <3>6, <3>7
    <2> QED BY <2>4, <2>5
  <1> HIDE DEF Good
  <1>2. S \in Good
    BY <1>1, SubsetInduct
  <1> QED BY <1>2 DEF Good

\* The sum depends only on the values on the set.
LEMMA SumSame ==
    ASSUME NEW S, IsFiniteSet(S), NEW f, NEW g, \A x \in S : f[x] = g[x]
    PROVE  SumFunctionOnSet(f, S) = SumFunctionOnSet(g, S)
  <1> DEFINE Good == {s \in SUBSET S : SumFunctionOnSet(f, s) = SumFunctionOnSet(g, s)}
  <1>1. ASSUME NEW s \in SUBSET S, \A r \in SUBSET s : r # s => r \in Good
        PROVE  s \in Good
    <2>1. CASE s = {}
      BY <2>1, SumEmpty
    <2>2. CASE s # {}
      <3>1. Chosen(s) \in s
        BY <2>2 DEF Chosen
      <3>2. IsFiniteSet(s)
        BY FS_Subset
      <3>3. s \ {Chosen(s)} \in Good
        BY <1>1, <3>1
      <3> QED BY <2>2, <3>1, <3>2, <3>3, SumChosen
    <2> QED BY <2>1, <2>2
  <1> HIDE DEF Good
  <1>2. S \in Good
    BY <1>1, SubsetInduct
  <1> QED BY <1>2 DEF Good

\* When one part changes, the sum changes by as much.
LEMMA SumUpdate ==
    ASSUME NEW S, IsFiniteSet(S), NEW f, \A x \in S : f[x] \in Int, NEW a \in S,
           NEW g, g[a] \in Int, \A x \in S \ {a} : g[x] = f[x]
    PROVE  SumFunctionOnSet(g, S) = SumFunctionOnSet(f, S) + (g[a] - f[a])
  <1> DEFINE r == SumFunctionOnSet(f, S \ {a})
  <1>1. IsFiniteSet(S \ {a})
    BY FS_Subset
  <1>2. \A x \in S : g[x] \in Int
    OBVIOUS
  <1>3. SumFunctionOnSet(g, S \ {a}) = r
    BY <1>1, SumSame
  <1>4. r \in Int
    BY <1>1, SumInt
  <1>5. SumFunctionOnSet(g, S) = g[a] + r /\ SumFunctionOnSet(f, S) = f[a] + r
    BY <1>2, <1>3, SumRemove
  <1> HIDE DEF r
  <1> QED BY <1>4, <1>5

\* When two parts change, the sum changes by both: a move between them leaves
\* it as it is.
LEMMA SumMove ==
    ASSUME NEW S, IsFiniteSet(S), NEW f, \A x \in S : f[x] \in Int,
           NEW a \in S, NEW b \in S, a # b,
           NEW g, g[a] \in Int, g[b] \in Int, \A x \in S \ {a, b} : g[x] = f[x]
    PROVE  SumFunctionOnSet(g, S) = SumFunctionOnSet(f, S) + (g[a] - f[a]) + (g[b] - f[b])
  <1> DEFINE T == S \ {a}
  <1>1. IsFiniteSet(T) /\ b \in T
    BY FS_Subset
  <1>2. \A x \in S : g[x] \in Int
    OBVIOUS
  <1>3. \A x \in T \ {b} : g[x] = f[x]
    OBVIOUS
  <1>4. \A x \in T : f[x] \in Int
    OBVIOUS
  <1>5. SumFunctionOnSet(g, S) = g[a] + SumFunctionOnSet(g, T)
    BY <1>2, SumRemove
  <1>6. SumFunctionOnSet(f, S) = f[a] + SumFunctionOnSet(f, T)
    BY SumRemove
  <1>7. SumFunctionOnSet(g, T) = SumFunctionOnSet(f, T) + (g[b] - f[b])
    <2> HIDE DEF T
    <2> QED BY <1>1, <1>3, <1>4, SumUpdate
  <1>8. SumFunctionOnSet(f, T) \in Int
    BY <1>1, <1>4, SumInt
  <1>9. f[a] \in Int /\ f[b] \in Int
    OBVIOUS
  <1> HIDE DEF T
  <1> QED BY <1>5, <1>6, <1>7, <1>8, <1>9

\* Larger parts make a larger sum.
LEMMA SumLeq ==
    ASSUME NEW S, IsFiniteSet(S), NEW f, NEW g,
           \A x \in S : f[x] \in Int /\ g[x] \in Int /\ f[x] <= g[x]
    PROVE  SumFunctionOnSet(f, S) <= SumFunctionOnSet(g, S)
  <1> DEFINE Good == {s \in SUBSET S : SumFunctionOnSet(f, s) <= SumFunctionOnSet(g, s)}
  <1>1. ASSUME NEW s \in SUBSET S, \A r \in SUBSET s : r # s => r \in Good
        PROVE  s \in Good
    <2>1. CASE s = {}
      BY <2>1, SumEmpty
    <2>2. CASE s # {}
      <3> DEFINE c == Chosen(s)
                 t == s \ {c}
      <3>1. c \in s
        BY <2>2 DEF Chosen
      <3>2. IsFiniteSet(s) /\ IsFiniteSet(t)
        BY FS_Subset
      <3>3. t \in Good
        BY <1>1, <3>1
      <3>4. SumFunctionOnSet(f, s) = f[c] + SumFunctionOnSet(f, t)
        BY <2>2, <3>2, SumChosen
      <3>5. SumFunctionOnSet(g, s) = g[c] + SumFunctionOnSet(g, t)
        BY <2>2, <3>2, SumChosen
      <3>6. SumFunctionOnSet(f, t) \in Int /\ SumFunctionOnSet(g, t) \in Int
        BY <3>2, SumInt
      <3>7. f[c] \in Int /\ g[c] \in Int /\ f[c] <= g[c]
        BY <3>1
      <3> HIDE DEF c, t
      <3> QED BY <3>3, <3>4, <3>5, <3>6, <3>7
    <2> QED BY <2>1, <2>2
  <1> HIDE DEF Good
  <1>2. S \in Good
    BY <1>1, SubsetInduct
  <1> QED BY <1>2 DEF Good

\* Zeros sum to 0.
LEMMA SumZero ==
    ASSUME NEW S, IsFiniteSet(S), NEW f, \A x \in S : f[x] = 0
    PROVE  SumFunctionOnSet(f, S) = 0
  <1> DEFINE Good == {s \in SUBSET S : SumFunctionOnSet(f, s) = 0}
  <1>1. ASSUME NEW s \in SUBSET S, \A r \in SUBSET s : r # s => r \in Good
        PROVE  s \in Good
    <2>1. CASE s = {}
      BY <2>1, SumEmpty
    <2>2. CASE s # {}
      <3>1. Chosen(s) \in s
        BY <2>2 DEF Chosen
      <3>2. IsFiniteSet(s)
        BY FS_Subset
      <3>3. s \ {Chosen(s)} \in Good
        BY <1>1, <3>1
      <3> QED BY <2>2, <3>1, <3>2, <3>3, SumChosen
    <2> QED BY <2>1, <2>2
  <1> HIDE DEF Good
  <1>2. S \in Good
    BY <1>1, SubsetInduct
  <1> QED BY <1>2 DEF Good

\* Naturals sum to a natural.
LEMMA SumNat ==
    ASSUME NEW S, IsFiniteSet(S), NEW f, \A x \in S : f[x] \in Nat
    PROVE  SumFunctionOnSet(f, S) \in Nat
  <1> DEFINE z == [x \in S |-> 0]
  <1>1. SumFunctionOnSet(z, S) = 0
    BY SumZero
  <1>2. SumFunctionOnSet(f, S) \in Int
    BY SumInt
  <1>3. SumFunctionOnSet(z, S) <= SumFunctionOnSet(f, S)
    BY SumLeq
  <1> QED BY <1>1, <1>2, <1>3

\* No part of a sum of naturals exceeds it.
LEMMA SumMember ==
    ASSUME NEW S, IsFiniteSet(S), NEW f, \A x \in S : f[x] \in Nat, NEW a \in S
    PROVE  f[a] <= SumFunctionOnSet(f, S)
  <1>1. SumFunctionOnSet(f, S \ {a}) \in Nat
    BY FS_Subset, SumNat
  <1>2. SumFunctionOnSet(f, S) = f[a] + SumFunctionOnSet(f, S \ {a})
    BY SumRemove
  <1> QED BY <1>1, <1>2

\* The sum of pairwise sums is the sum of the two sums.
LEMMA SumPlus ==
    ASSUME NEW S, IsFiniteSet(S), NEW f, NEW g, NEW h,
           \A x \in S : f[x] \in Int /\ g[x] \in Int /\ h[x] = f[x] + g[x]
    PROVE  SumFunctionOnSet(h, S) = SumFunctionOnSet(f, S) + SumFunctionOnSet(g, S)
  <1> DEFINE Good == {s \in SUBSET S :
                        SumFunctionOnSet(h, s) = SumFunctionOnSet(f, s) + SumFunctionOnSet(g, s)}
  <1>1. ASSUME NEW s \in SUBSET S, \A r \in SUBSET s : r # s => r \in Good
        PROVE  s \in Good
    <2>1. CASE s = {}
      BY <2>1, SumEmpty
    <2>2. CASE s # {}
      <3> DEFINE c == Chosen(s)
                 t == s \ {c}
      <3>1. c \in s
        BY <2>2 DEF Chosen
      <3>2. IsFiniteSet(s) /\ IsFiniteSet(t)
        BY FS_Subset
      <3>3. t \in Good
        BY <1>1, <3>1
      <3>4. /\ SumFunctionOnSet(f, s) = f[c] + SumFunctionOnSet(f, t)
            /\ SumFunctionOnSet(g, s) = g[c] + SumFunctionOnSet(g, t)
            /\ SumFunctionOnSet(h, s) = h[c] + SumFunctionOnSet(h, t)
        BY <2>2, <3>2, SumChosen
      <3>6. SumFunctionOnSet(f, t) \in Int /\ SumFunctionOnSet(g, t) \in Int
        BY <3>2, SumInt
      <3>7. f[c] \in Int /\ g[c] \in Int /\ h[c] = f[c] + g[c]
        BY <3>1
      <3>8. SumFunctionOnSet(h, t) = SumFunctionOnSet(f, t) + SumFunctionOnSet(g, t)
        BY <3>3
      <3> HIDE DEF c, t
      <3>9. SumFunctionOnSet(h, s) = SumFunctionOnSet(f, s) + SumFunctionOnSet(g, s)
        BY <3>4, <3>6, <3>7, <3>8
      <3> QED BY <3>9
    <2> QED BY <2>1, <2>2
  <1> HIDE DEF Good
  <1>2. S \in Good
    BY <1>1, SubsetInduct
  <1> QED BY <1>2 DEF Good

\* The sum over two sets without a common element.
LEMMA SumDisjoint ==
    ASSUME NEW S, IsFiniteSet(S), NEW T, IsFiniteSet(T), S \cap T = {},
           NEW f, \A x \in S \cup T : f[x] \in Int
    PROVE  SumFunctionOnSet(f, S \cup T) = SumFunctionOnSet(f, S) + SumFunctionOnSet(f, T)
  <1> DEFINE Good == {U \in SUBSET T : SumFunctionOnSet(f, S \cup U)
                                         = SumFunctionOnSet(f, S) + SumFunctionOnSet(f, U)}
  <1>0. SumFunctionOnSet(f, S) \in Int
    BY SumInt
  <1>1. ASSUME NEW U \in SUBSET T, \A r \in SUBSET U : r # U => r \in Good
        PROVE  U \in Good
    <2>1. CASE U = {}
      <3>1. S \cup U = S
        BY <2>1
      <3> QED BY <1>0, <2>1, <3>1, SumEmpty
    <2>2. CASE U # {}
      <3> DEFINE c == Chosen(U)
                 V == U \ {c}
      <3>1. c \in U
        BY <2>2 DEF Chosen
      <3>2. IsFiniteSet(U) /\ IsFiniteSet(V)
        BY FS_Subset
      <3>3. IsFiniteSet(S \cup U)
        BY <3>2, FS_Union
      <3>4. (S \cup U) \ {c} = S \cup V
        BY <3>1
      <3>5. \A x \in S \cup U : f[x] \in Int
        OBVIOUS
      <3>6. SumFunctionOnSet(f, S \cup U) = f[c] + SumFunctionOnSet(f, S \cup V)
        BY <3>1, <3>3, <3>4, <3>5, SumRemove
      <3>7. SumFunctionOnSet(f, U) = f[c] + SumFunctionOnSet(f, V)
        BY <2>2, <3>2, SumChosen
      <3>8. SumFunctionOnSet(f, S \cup V) = SumFunctionOnSet(f, S) + SumFunctionOnSet(f, V)
        BY <1>1, <3>1
      <3>9. f[c] \in Int /\ SumFunctionOnSet(f, V) \in Int
        BY <3>1, <3>2, SumInt
      <3> HIDE DEF c, V
      <3>10. SumFunctionOnSet(f, S \cup U) = SumFunctionOnSet(f, S) + SumFunctionOnSet(f, U)
        BY <1>0, <3>6, <3>7, <3>8, <3>9
      <3> QED BY <3>10
    <2> QED BY <2>1, <2>2
  <1> HIDE DEF Good
  <1>2. T \in Good
    BY <1>1, SubsetInduct
  <1> QED BY <1>2 DEF Good

\* Leaving out zeros leaves the sum as it is.
LEMMA SumSupport ==
    ASSUME NEW S, IsFiniteSet(S), NEW f, \A x \in S : f[x] \in Int,
           NEW T \in SUBSET S, \A x \in S \ T : f[x] = 0
    PROVE  SumFunctionOnSet(f, S) = SumFunctionOnSet(f, T)
  <1>1. IsFiniteSet(T) /\ IsFiniteSet(S \ T)
    BY FS_Subset
  <1>2. S = T \cup (S \ T) /\ T \cap (S \ T) = {}
    OBVIOUS
  <1>3. \A x \in T \cup (S \ T) : f[x] \in Int
    OBVIOUS
  <1>4. SumFunctionOnSet(f, S) = SumFunctionOnSet(f, T) + SumFunctionOnSet(f, S \ T)
    BY <1>1, <1>2, <1>3, SumDisjoint
  <1>5. SumFunctionOnSet(f, S \ T) = 0
    BY <1>1, SumZero
  <1>6. SumFunctionOnSet(f, T) \in Int
    BY <1>1, SumInt
  <1> QED BY <1>4, <1>5, <1>6

\* Part of a sum of naturals is no more than the whole of it.
LEMMA SumPart ==
    ASSUME NEW S, IsFiniteSet(S), NEW f, \A x \in S : f[x] \in Nat, NEW T \in SUBSET S
    PROVE  SumFunctionOnSet(f, T) <= SumFunctionOnSet(f, S)
  <1>1. IsFiniteSet(T) /\ IsFiniteSet(S \ T)
    BY FS_Subset
  <1>2. S = T \cup (S \ T) /\ T \cap (S \ T) = {}
    OBVIOUS
  <1>3. \A x \in T \cup (S \ T) : f[x] \in Int
    OBVIOUS
  <1>4. SumFunctionOnSet(f, S) = SumFunctionOnSet(f, T) + SumFunctionOnSet(f, S \ T)
    BY <1>1, <1>2, <1>3, SumDisjoint
  <1>5. SumFunctionOnSet(f, T) \in Nat /\ SumFunctionOnSet(f, S \ T) \in Nat
    BY <1>1, SumNat
  <1> QED BY <1>4, <1>5

\* A common factor comes out of the sum.
LEMMA SumScale ==
    ASSUME NEW S, IsFiniteSet(S), NEW f, NEW g, NEW c \in Int,
           \A x \in S : f[x] \in Int /\ g[x] = c * f[x]
    PROVE  SumFunctionOnSet(g, S) = c * SumFunctionOnSet(f, S)
  <1> DEFINE Good == {s \in SUBSET S :
                        SumFunctionOnSet(g, s) = c * SumFunctionOnSet(f, s)}
  <1>1. ASSUME NEW s \in SUBSET S, \A r \in SUBSET s : r # s => r \in Good
        PROVE  s \in Good
    <2>1. CASE s = {}
      BY <2>1, SumEmpty
    <2>2. CASE s # {}
      <3> DEFINE e == Chosen(s)
                 t == s \ {e}
      <3>1. e \in s
        BY <2>2 DEF Chosen
      <3>2. IsFiniteSet(s) /\ IsFiniteSet(t)
        BY FS_Subset
      <3>3. t \in Good
        BY <1>1, <3>1
      <3>4. /\ SumFunctionOnSet(f, s) = f[e] + SumFunctionOnSet(f, t)
            /\ SumFunctionOnSet(g, s) = g[e] + SumFunctionOnSet(g, t)
        BY <2>2, <3>2, SumChosen
      <3>5. f[e] \in Int /\ SumFunctionOnSet(f, t) \in Int /\ g[e] = c * f[e]
        BY <3>1, <3>2, SumInt
      <3>6. \A x, y \in Int : c * (x + y) = c * x + c * y
        OBVIOUS
      <3>7. SumFunctionOnSet(g, t) = c * SumFunctionOnSet(f, t)
        BY <3>3
      <3> HIDE DEF e, t
      <3>8. SumFunctionOnSet(g, s) = c * SumFunctionOnSet(f, s)
        BY <3>4, <3>5, <3>6, <3>7
      <3> QED BY <3>8
    <2> QED BY <2>1, <2>2
  <1> HIDE DEF Good
  <1>2. S \in Good
    BY <1>1, SubsetInduct
  <1> QED BY <1>2 DEF Good

\* Ones sum to the number of elements.
LEMMA SumOnes ==
    ASSUME NEW S, IsFiniteSet(S), NEW f, \A x \in S : f[x] = 1
    PROVE  SumFunctionOnSet(f, S) = Cardinality(S)
  <1> DEFINE Good == {s \in SUBSET S : SumFunctionOnSet(f, s) = Cardinality(s)}
  <1>1. ASSUME NEW s \in SUBSET S, \A r \in SUBSET s : r # s => r \in Good
        PROVE  s \in Good
    <2>1. CASE s = {}
      BY <2>1, SumEmpty, FS_EmptySet
    <2>2. CASE s # {}
      <3> DEFINE c == Chosen(s)
                 t == s \ {c}
      <3>1. c \in s
        BY <2>2 DEF Chosen
      <3>2. IsFiniteSet(s) /\ IsFiniteSet(t)
        BY FS_Subset
      <3>3. t \in Good
        BY <1>1, <3>1
      <3>4. SumFunctionOnSet(f, s) = f[c] + SumFunctionOnSet(f, t)
        BY <2>2, <3>2, SumChosen
      <3>5. Cardinality(t) = Cardinality(s) - 1 /\ Cardinality(s) \in Nat
        BY <3>1, <3>2, FS_RemoveElement, FS_CardinalityType
      <3>6. f[c] = 1 /\ SumFunctionOnSet(f, t) = Cardinality(t)
        BY <3>1, <3>3
      <3> HIDE DEF c, t
      <3>7. SumFunctionOnSet(f, s) = Cardinality(s)
        BY <3>4, <3>5, <3>6
      <3> QED BY <3>7
    <2> QED BY <2>1, <2>2
  <1> HIDE DEF Good
  <1>2. S \in Good
    BY <1>1, SubsetInduct
  <1> QED BY <1>2 DEF Good

-----------------------------------------------------------------------------
(* A row L of a ledger holds an amount for each moment of 0 .. N.          *)

Moments(N) == 0 .. N

Over(L, N, times) == SumFunctionOnSet(L, times \cap Moments(N))

LEMMA FiniteTimes ==
    ASSUME NEW N \in Nat, NEW times
    PROVE  IsFiniteSet(times \cap Moments(N))
  <1>1. IsFiniteSet(Moments(N))
    BY FS_Interval DEF Moments
  <1>2. times \cap Moments(N) \in SUBSET Moments(N)
    OBVIOUS
  <1> QED BY <1>1, <1>2, FS_Subset

LEMMA OverType ==
    ASSUME NEW N \in Nat, NEW L \in [Moments(N) -> Nat], NEW times
    PROVE  Over(L, N, times) \in Nat
  BY FiniteTimes, SumNat DEF Over

\* Fewer moments see no more.
LEMMA OverPart ==
    ASSUME NEW N \in Nat, NEW L \in [Moments(N) -> Nat], NEW times, NEW more,
           times \cap Moments(N) \subseteq more
    PROVE  Over(L, N, times) <= Over(L, N, more)
  <1> DEFINE S == more \cap Moments(N)
             T == times \cap Moments(N)
  <1>1. IsFiniteSet(S) /\ T \in SUBSET S /\ \A t \in S : L[t] \in Nat
    BY FiniteTimes
  <1> HIDE DEF S, T
  <1>2. SumFunctionOnSet(L, T) <= SumFunctionOnSet(L, S)
    BY <1>1, SumPart
  <1> QED BY <1>2 DEF S, T, Over

\* A stretch that reaches over a moment is what lies before it and what lies
\* after it.
LEMMA OverSplit ==
    ASSUME NEW N \in Nat, NEW L \in [Moments(N) -> Nat], NEW t \in Nat, NEW e \in Int,
           NEW start \in Nat
    PROVE  Over(L, N, t .. e) <= Over(L, N, t .. start - 1) + Over(L, N, start .. N)
  <1> DEFINE S == (t .. start - 1) \cap Moments(N)
             T == (start .. N) \cap Moments(N)
             both == S \cup T
  <1>1. IsFiniteSet(S) /\ IsFiniteSet(T)
    BY FiniteTimes
  <1>2. S \cap T = {}
    OBVIOUS
  <1>3. \A x \in S \cup T : L[x] \in Int
    OBVIOUS
  <1>4. SumFunctionOnSet(L, S \cup T) = SumFunctionOnSet(L, S) + SumFunctionOnSet(L, T)
    <2> HIDE DEF S, T
    <2> QED BY <1>1, <1>2, <1>3, SumDisjoint
  <1>5. (t .. e) \cap Moments(N) \subseteq both /\ both \cap Moments(N) = S \cup T
    BY DEF Moments
  <1>6. Over(L, N, t .. e) <= Over(L, N, both)
    <2> DEFINE stretch == t .. e
    <2>1. stretch \cap Moments(N) \subseteq both
      BY <1>5
    <2> HIDE DEF both, stretch
    <2>2. Over(L, N, stretch) <= Over(L, N, both)
      BY <2>1, OverPart
    <2> QED BY <2>2 DEF stretch
  <1> QED BY <1>4, <1>5, <1>6 DEF Over

LEMMA OverZero ==
    ASSUME NEW N \in Nat, NEW L, NEW times, \A t \in times \cap Moments(N) : L[t] = 0
    PROVE  Over(L, N, times) = 0
  BY FiniteTimes, SumZero DEF Over

\* M is L with one amount more at one moment.
RecordedAt(L, M, N, at, amount) ==
    /\ M \in [Moments(N) -> Nat]
    /\ M[at] = L[at] + amount
    /\ \A t \in Moments(N) \ {at} : M[t] = L[t]

LEMMA RecordedByUpdate ==
    ASSUME NEW N, NEW L \in [Moments(N) -> Nat], NEW at \in Moments(N), NEW amount \in Nat
    PROVE  RecordedAt(L, [L EXCEPT ![at] = @ + amount], N, at, amount)
  BY DEF RecordedAt

\* What is recorded is seen by the stretches that contain the moment.
LEMMA OverRecorded ==
    ASSUME NEW N \in Nat, NEW L \in [Moments(N) -> Nat], NEW at \in Moments(N),
           NEW amount \in Nat, NEW M, RecordedAt(L, M, N, at, amount), NEW times
    PROVE  /\ at \in times => Over(M, N, times) = Over(L, N, times) + amount
           /\ at \notin times => Over(M, N, times) = Over(L, N, times)
  <1> DEFINE S == times \cap Moments(N)
  <1>1. IsFiniteSet(S) /\ \A t \in S : L[t] \in Int
    <2>1. IsFiniteSet(S)
      BY FiniteTimes
    <2> QED BY <2>1
  <1>2. \A t \in S \ {at} : M[t] = L[t]
    BY DEF RecordedAt
  <1>3. M[at] \in Int /\ M[at] - L[at] = amount
    BY DEF RecordedAt
  <1>4. /\ at \in times <=> at \in S
        /\ Over(M, N, times) = SumFunctionOnSet(M, S)
        /\ Over(L, N, times) = SumFunctionOnSet(L, S)
    BY DEF Over
  <1> HIDE DEF S
  <1>5. ASSUME at \in S
        PROVE  SumFunctionOnSet(M, S) = SumFunctionOnSet(L, S) + (M[at] - L[at])
    BY <1>1, <1>2, <1>3, <1>5, SumUpdate
  <1>6. ASSUME at \notin S
        PROVE  SumFunctionOnSet(M, S) = SumFunctionOnSet(L, S)
    <2>1. \A t \in S : L[t] = M[t]
      BY <1>2, <1>6
    <2> QED BY <1>1, <2>1, SumSame
  <1> QED BY <1>3, <1>4, <1>5, <1>6

-----------------------------------------------------------------------------
(* A meter of a limit over a window: the counter, spent, and the start of  *)
(* the window, reset, which lasts for duration.  Nothing else is kept of   *)
(* the row it stands for.                                                  *)

\* Nothing was metered after the end of the window, and the counter holds what
\* was metered since its start.
MeterFits(L, N, at, reset, duration, spent) ==
    /\ \A t \in Moments(N) : L[t] > 0 => t <= at /\ t < reset + duration
    /\ Over(L, N, reset .. N) <= spent

\* The window, what is left of the one before it in any stretch that reaches
\* into the window, and every stretch.
CapFits(L, N, reset, duration, limit) ==
    /\ Over(L, N, reset .. N) <= limit
    /\ \A t \in Moments(N) : t + duration > reset => Over(L, N, t .. reset - 1) <= limit
    /\ \A t \in Moments(N) : Over(L, N, t .. t + duration - 1) <= 2 * limit

\* A row without entries fits every meter.
LEMMA EmptyRowFits ==
    ASSUME NEW N \in Nat, NEW L, \A t \in Moments(N) : L[t] = 0, NEW at,
           NEW reset, NEW duration, NEW spent \in Nat, NEW limit \in Nat
    PROVE  MeterFits(L, N, at, reset, duration, spent) /\ CapFits(L, N, reset, duration, limit)
  <1>1. \A times : Over(L, N, times) = 0
    BY OverZero
  <1>2. \A t \in Moments(N) : ~(L[t] > 0)
    OBVIOUS
  <1> QED BY <1>1, <1>2 DEF MeterFits, CapFits

\* Metering keeps the fit: in a window that is still open both sides grow by
\* the amount, and one that restarts has nothing in it yet.
LEMMA MeterKept ==
    ASSUME NEW N \in Nat, NEW L \in [Moments(N) -> Nat], NEW at \in Moments(N),
           NEW reset \in Nat, reset <= at, NEW duration \in Nat, duration >= 1,
           NEW spent \in Nat, NEW amount \in Nat,
           MeterFits(L, N, at, reset, duration, spent),
           NEW M, RecordedAt(L, M, N, at, amount),
           NEW start, NEW count,
           \/ at < reset + duration /\ start = reset /\ count = spent + amount
           \/ at >= reset + duration /\ start = at /\ count = amount
    PROVE  MeterFits(M, N, at, start, duration, count)
  <1>0. at \in Nat /\ at <= N
    BY DEF Moments
  <1>1. \A t \in Moments(N) : t # at => M[t] = L[t]
    BY DEF RecordedAt
  <1>2. CASE at < reset + duration
    <2>1. start = reset /\ count = spent + amount
      BY <1>0, <1>2
    <2> DEFINE since == reset .. N
    <2>2. at \in since
      BY <1>0
    <2> HIDE DEF since
    <2>3. Over(M, N, since) = Over(L, N, since) + amount
      BY <2>2, OverRecorded
    <2>4. Over(L, N, since) \in Nat
      BY OverType
    <2>5. Over(L, N, since) <= spent
      BY DEF MeterFits, since
    <2>6. Over(M, N, since) <= count
      BY <2>1, <2>3, <2>4, <2>5
    <2>7. \A t \in Moments(N) : M[t] > 0 => t <= at /\ t < start + duration
      BY <1>0, <1>1, <1>2, <2>1 DEF MeterFits
    <2> QED BY <2>1, <2>6, <2>7 DEF MeterFits, since
  <1>3. CASE at >= reset + duration
    <2>1. start = at /\ count = amount
      BY <1>0, <1>3
    <2> DEFINE since == at .. N
    <2>2. \A t \in since \cap Moments(N) : L[t] = 0
      BY <1>0, <1>3 DEF MeterFits, Moments
    <2>3. at \in since
      BY <1>0
    <2> HIDE DEF since
    <2>4. Over(L, N, since) = 0
      BY <2>2, OverZero
    <2>5. Over(M, N, since) = amount
      BY <2>3, <2>4, OverRecorded
    <2>6. \A t \in Moments(N) : M[t] > 0 => t <= at /\ t < start + duration
      BY <1>0, <1>1, <2>1 DEF MeterFits, Moments
    <2> QED BY <2>1, <2>5, <2>6 DEF MeterFits, since
  <1> QED BY <1>0, <1>2, <1>3

\* And it keeps within the limit, when the counter does or nothing is added.
LEMMA CapKept ==
    ASSUME NEW N \in Nat, NEW L \in [Moments(N) -> Nat], NEW at \in Moments(N),
           NEW reset \in Nat, reset <= at, NEW duration \in Nat, duration >= 1,
           NEW spent \in Nat, NEW amount \in Nat, NEW limit \in Nat,
           MeterFits(L, N, at, reset, duration, spent),
           CapFits(L, N, reset, duration, limit),
           NEW M, RecordedAt(L, M, N, at, amount),
           NEW start, NEW count,
           \/ at < reset + duration /\ start = reset /\ count = spent + amount
           \/ at >= reset + duration /\ start = at /\ count = amount,
           amount = 0 \/ count <= limit
    PROVE  CapFits(M, N, start, duration, limit)
  <1>0. at \in Nat /\ at <= N /\ start \in Nat /\ start <= at /\ count \in Nat
    <2>1. at \in Nat /\ at <= N
      BY DEF Moments
    <2> QED BY <2>1
  <1>1. M \in [Moments(N) -> Nat] /\ MeterFits(M, N, at, start, duration, count)
    BY MeterKept DEF RecordedAt
  <1>2. Over(M, N, start .. N) <= limit
    <2> DEFINE since == start .. N
    <2>1. Over(M, N, since) <= count
      BY <1>1 DEF MeterFits
    <2>2. CASE amount = 0 /\ at < reset + duration
      <3>1. start = reset /\ Over(L, N, since) <= limit
        BY <1>0, <2>2 DEF CapFits
      <3> HIDE DEF since
      <3>2. Over(M, N, since) = Over(L, N, since) \/ Over(M, N, since) = Over(L, N, since) + amount
        BY OverRecorded
      <3>3. Over(L, N, since) \in Nat
        BY OverType
      <3>4. Over(M, N, since) <= limit
        BY <2>2, <3>1, <3>2, <3>3
      <3> QED BY <3>4 DEF since
    <2>3. CASE ~(amount = 0 /\ at < reset + duration)
      <3>1. count <= limit
        BY <1>0, <2>3
      <3> HIDE DEF since
      <3>2. Over(M, N, since) \in Nat
        BY <1>1, OverType
      <3>3. Over(M, N, since) <= limit
        BY <1>0, <2>1, <3>1, <3>2
      <3> QED BY <3>3 DEF since
    <2> QED BY <2>2, <2>3
  <1>3. ASSUME NEW t \in Moments(N), t + duration > start
        PROVE  Over(M, N, t .. start - 1) <= limit
    <2> DEFINE before == t .. start - 1
               since == reset .. N
    <2>0. t \in Nat
      BY DEF Moments
    <2>1. at \notin before
      BY <1>0, <2>0
    <2>2. CASE start = reset
      <3>1. Over(L, N, before) <= limit
        BY <1>3, <2>2 DEF CapFits
      <3> HIDE DEF before
      <3>2. Over(M, N, before) = Over(L, N, before)
        BY <2>1, OverRecorded
      <3>3. Over(M, N, before) <= limit
        BY <3>1, <3>2
      <3> QED BY <3>3 DEF before
    <2>3. CASE start # reset
      <3>1. start = at /\ at >= reset + duration
        BY <1>0, <2>3
      <3>2. before \cap Moments(N) \subseteq since
        BY <1>0, <1>3, <2>0, <3>1 DEF Moments
      <3>3. Over(L, N, since) <= limit
        BY DEF CapFits
      <3> HIDE DEF before, since
      <3>4. Over(M, N, before) = Over(L, N, before)
        BY <2>1, OverRecorded
      <3>5. Over(L, N, before) <= Over(L, N, since)
        BY <3>2, OverPart
      <3>6. Over(L, N, before) \in Nat /\ Over(L, N, since) \in Nat
        BY OverType
      <3>7. Over(M, N, before) <= limit
        BY <3>3, <3>4, <3>5, <3>6
      <3> QED BY <3>7 DEF before
    <2> QED BY <2>2, <2>3
  <1>4. ASSUME NEW t \in Moments(N)
        PROVE  Over(M, N, t .. t + duration - 1) <= 2 * limit
    <2> DEFINE e == t + duration - 1
               stretch == t .. e
    <2>0. t \in Nat /\ e \in Int
      BY DEF Moments
    <2>1. CASE at \notin stretch
      <3>1. Over(L, N, stretch) <= 2 * limit
        BY DEF CapFits
      <3> HIDE DEF stretch
      <3>2. Over(M, N, stretch) = Over(L, N, stretch)
        BY <2>1, OverRecorded
      <3>3. Over(M, N, stretch) <= 2 * limit
        BY <3>1, <3>2
      <3> QED BY <3>3 DEF stretch
    <2>2. CASE at \in stretch
      <3> DEFINE before == t .. start - 1
                 since == start .. N
      <3>1. t + duration > start
        BY <1>0, <2>0, <2>2
      <3>2. Over(M, N, before) <= limit
        BY <1>3, <3>1
      <3>3. Over(M, N, since) <= limit
        BY <1>2
      <3>4. Over(M, N, stretch) <= Over(M, N, before) + Over(M, N, since)
        <4> HIDE DEF e
        <4> QED BY <1>0, <1>1, <2>0, OverSplit
      <3> HIDE DEF before, since, stretch
      <3>5. /\ Over(M, N, before) \in Nat /\ Over(M, N, since) \in Nat
            /\ Over(M, N, stretch) \in Nat
        BY <1>1, OverType
      <3>6. Over(M, N, stretch) <= 2 * limit
        BY <3>2, <3>3, <3>4, <3>5
      <3> QED BY <3>6 DEF stretch
    <2> QED BY <2>1, <2>2
  <1> QED BY <1>2, <1>3, <1>4 DEF CapFits

\* A row that is left alone keeps the fit, whatever the counter does.
LEMMA FitIdle ==
    ASSUME NEW N \in Nat, NEW L \in [Moments(N) -> Nat], NEW at \in Moments(N),
           NEW reset \in Nat, reset <= at, NEW duration \in Nat, duration >= 1,
           NEW spent \in Nat, NEW amount \in Nat, NEW limit \in Nat,
           MeterFits(L, N, at, reset, duration, spent),
           CapFits(L, N, reset, duration, limit),
           NEW start, NEW count,
           \/ at < reset + duration /\ start = reset /\ count = spent + amount
           \/ at >= reset + duration /\ start = at /\ count = amount
    PROVE  MeterFits(L, N, at, start, duration, count) /\ CapFits(L, N, start, duration, limit)
  <1>0. at \in Nat /\ at <= N
    <2>1. at \in Nat /\ at <= N
      BY DEF Moments
    <2> QED BY <2>1
  <1>1. RecordedAt(L, L, N, at, 0)
    BY DEF RecordedAt
  <1>2. PICK less \in Nat : /\ less <= count
                            /\ \/ at < reset + duration /\ start = reset /\ less = spent + 0
                               \/ at >= reset + duration /\ start = at /\ less = 0
    <2>1. CASE at < reset + duration
      <3>1. spent + 0 \in Nat /\ spent + 0 <= count /\ start = reset
        BY <1>0, <2>1
      <3> QED BY <2>1, <3>1
    <2>2. CASE at >= reset + duration
      <3>1. 0 \in Nat /\ 0 <= count /\ start = at
        BY <1>0, <2>2
      <3> QED BY <2>2, <3>1
    <2> QED BY <1>0, <2>1, <2>2
  <1>3. MeterFits(L, N, at, start, duration, less)
    BY <1>1, <1>2, MeterKept
  <1>4. CapFits(L, N, start, duration, limit)
    BY <1>1, <1>2, CapKept
  <1>5. MeterFits(L, N, at, start, duration, count)
    <2>1. Over(L, N, start .. N) \in Nat
      BY OverType
    <2>2. count \in Nat
      BY <1>0
    <2>3. Over(L, N, start .. N) <= count
      BY <1>2, <1>3, <2>1, <2>2 DEF MeterFits
    <2> QED BY <1>3, <2>3 DEF MeterFits
  <1> QED BY <1>4, <1>5

\* The first window of a row, from the moment the row was opened, sees one
\* limit only: while it lasts it is the window of the meter, and afterwards
\* nothing is added to it.
FirstFits(L, N, from, reset, duration, limit) ==
    /\ reset = from \/ reset >= from + duration
    /\ Over(L, N, from .. from + duration - 1) <= limit

LEMMA FirstKept ==
    ASSUME NEW N \in Nat, NEW L \in [Moments(N) -> Nat], NEW at \in Moments(N),
           NEW reset \in Nat, reset <= at, NEW duration \in Nat, duration >= 1,
           NEW amount \in Nat, NEW limit \in Nat, NEW from \in Nat,
           FirstFits(L, N, from, reset, duration, limit),
           NEW M, RecordedAt(L, M, N, at, amount),
           NEW start,
           \/ at < reset + duration /\ start = reset
           \/ at >= reset + duration /\ start = at,
           CapFits(M, N, start, duration, limit)
    PROVE  FirstFits(M, N, from, start, duration, limit)
  <1> DEFINE e == from + duration - 1
             first == from .. e
             since == start .. N
  <1>0. at \in Nat /\ at <= N /\ M \in [Moments(N) -> Nat] /\ e \in Int
    <2>1. at \in Nat /\ at <= N
      BY DEF Moments
    <2> QED BY <2>1 DEF RecordedAt
  <1>1. CASE at < from + duration /\ start = from
    <2>1. first \cap Moments(N) \subseteq since
      BY <1>1 DEF Moments
    <2>2. Over(M, N, since) <= limit
      BY DEF CapFits
    <2> HIDE DEF first, since
    <2>3. Over(M, N, first) <= Over(M, N, since)
      BY <1>0, <2>1, OverPart
    <2>4. Over(M, N, first) \in Nat /\ Over(M, N, since) \in Nat
      BY <1>0, OverType
    <2>5. Over(M, N, first) <= limit
      BY <2>2, <2>3, <2>4
    <2> QED BY <1>1, <2>5 DEF FirstFits, first
  <1>2. CASE ~(at < from + duration /\ start = from)
    <2>1. at >= from + duration /\ (start = from \/ start >= from + duration)
      BY <1>0, <1>2 DEF FirstFits
    <2>2. at \notin first
      BY <1>0, <2>1
    <2>3. Over(L, N, first) <= limit
      BY DEF FirstFits
    <2> HIDE DEF first
    <2>4. Over(M, N, first) = Over(L, N, first)
      BY <2>2, OverRecorded
    <2>5. Over(M, N, first) <= limit
      BY <2>3, <2>4
    <2> QED BY <2>1, <2>5 DEF FirstFits, first
  <1> QED BY <1>1, <1>2

\* Moments at which nothing is held may be left out.
LEMMA OverSupport ==
    ASSUME NEW N \in Nat, NEW L \in [Moments(N) -> Nat], NEW times, NEW some,
           \A t \in Moments(N) : t \in times /\ t \notin some => L[t] = 0
    PROVE  Over(L, N, times) <= Over(L, N, some)
  <1> DEFINE S == times \cap Moments(N)
             T == (times \cap some) \cap Moments(N)
  <1>1. /\ IsFiniteSet(S) /\ T \in SUBSET S /\ \A t \in S : L[t] \in Int
        /\ \A t \in S \ T : L[t] = 0
    BY FiniteTimes
  <1> HIDE DEF S, T
  <1>2. SumFunctionOnSet(L, S) = SumFunctionOnSet(L, T)
    BY <1>1, SumSupport
  <1>3. Over(L, N, times) = Over(L, N, times \cap some)
    BY <1>2 DEF S, T, Over
  <1>4. (times \cap some) \cap Moments(N) \subseteq some
    OBVIOUS
  <1>5. Over(L, N, times \cap some) <= Over(L, N, some)
    BY <1>4, OverPart
  <1> QED BY <1>3, <1>5

\* Two rows laid together.
LEMMA OverPlus ==
    ASSUME NEW N \in Nat, NEW L \in [Moments(N) -> Nat], NEW M \in [Moments(N) -> Nat],
           NEW both, \A t \in Moments(N) : both[t] = L[t] + M[t], NEW times
    PROVE  Over(both, N, times) = Over(L, N, times) + Over(M, N, times)
  <1> DEFINE S == times \cap Moments(N)
  <1>1. IsFiniteSet(S)
    BY FiniteTimes
  <1>2. \A t \in S : L[t] \in Int /\ M[t] \in Int /\ both[t] = L[t] + M[t]
    OBVIOUS
  <1> HIDE DEF S
  <1>3. SumFunctionOnSet(both, S) = SumFunctionOnSet(L, S) + SumFunctionOnSet(M, S)
    BY <1>1, <1>2, SumPlus
  <1> QED BY <1>3 DEF Over, S
=============================================================================
