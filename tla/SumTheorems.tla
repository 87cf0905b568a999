---------------------------- MODULE SumTheorems -----------------------------
(***************************************************************************)
(* Sums of functions with a finite domain, as SumFunction and              *)
(* SumFunctionOnSet of the community module Functions define them: what    *)
(* the proofs about vaults and budgets need to know.                       *)
(*                                                                         *)
(* The library's induction theorems take a predicate as a parameter, which *)
(* the provers cannot instantiate.  A set of sets can stand for it: the    *)
(* strict inclusion of finite sets is well-founded, so a set of subsets    *)
(* that has every subset all of whose smaller ones it has, has them all    *)
(* (SubsetInduction).                                                      *)
(***************************************************************************)
EXTENDS Integers, FiniteSets, Functions, FiniteSetTheorems,
        WellFoundedInduction, TLAPS

-----------------------------------------------------------------------------
(***************************************************************************)
(* Induction over the subsets of a finite set.                             *)
(***************************************************************************)

LEMMA SubsetInduction ==
  ASSUME NEW S, IsFiniteSet(S), NEW Good,
         \A T \in SUBSET S : (\A U \in SUBSET T : U # T => U \in Good) => T \in Good
  PROVE  S \in Good
<1> DEFINE Bad == {T \in SUBSET S : T \notin Good}
<1>1. SUFFICES ASSUME Bad # {} PROVE FALSE
  <2>1. S \in SUBSET S  OBVIOUS
  <2> QED  BY <2>1
<1>2. Bad \subseteq FiniteSubsetsOf(S)  BY FS_FiniteSubsetsOfFinite
<1>3. PICK T \in Bad : \A U \in Bad : ~ (<<U, T>> \in StrictSubsetOrdering(S))
  <2>1. IsWellFoundedOn(StrictSubsetOrdering(S), FiniteSubsetsOf(S))
    BY FS_StrictSubsetOrderingWellFounded
  <2> HIDE DEF Bad
  <2> QED  BY <1>1, <1>2, <2>1, WFMin
<1>4. ASSUME NEW U \in SUBSET T, U # T PROVE U \in Good
  <2>1. <<U, T>> \in StrictSubsetOrdering(S)  BY <1>4 DEF StrictSubsetOrdering
  <2>2. U \notin Bad  BY <1>3, <2>1
  <2> QED  BY <2>2
<1> QED  BY <1>3, <1>4

LEMMA ElementInduction ==
  ASSUME NEW S, IsFiniteSet(S), NEW Good, {} \in Good,
         \A T \in SUBSET S : \A x \in T : T \ {x} \in Good => T \in Good
  PROVE  S \in Good
<1>1. ASSUME NEW T \in SUBSET S, \A U \in SUBSET T : U # T => U \in Good
      PROVE  T \in Good
  <2>1. CASE T = {}  BY <2>1
  <2>2. CASE T # {}
    <3>1. PICK x \in T : TRUE  BY <2>2
    <3>2. T \ {x} \in Good  BY <1>1
    <3> QED  BY <3>2
  <2> QED  BY <2>1, <2>2
<1> QED  BY <1>1, SubsetInduction

-----------------------------------------------------------------------------
(***************************************************************************)
(* The function by which a sum is defined exists and is the same for every *)
(* set, so a sum is its first element and the sum of the rest.             *)
(***************************************************************************)

FirstOf(s) == CHOOSE x \in s : TRUE

SumsOf(f, S, g) ==
  g = [s \in SUBSET S |-> IF s = {} THEN 0 ELSE f[FirstOf(s)] + g[s \ {FirstOf(s)}]]

LEMMA SumDef ==
  ASSUME NEW f, NEW S
  PROVE  SumFunctionOnSet(f, S) = (CHOOSE g : SumsOf(f, S, g))[S]
BY Zenon DEF SumFunctionOnSet, FoldFunctionOnSet, MapThenFoldSet, SumsOf, FirstOf

LEMMA FirstIn == ASSUME NEW s, s # {} PROVE FirstOf(s) \in s
BY DEF FirstOf

LEMMA SumsAt ==
  ASSUME NEW f, NEW S, NEW g, SumsOf(f, S, g), NEW s \in SUBSET S
  PROVE  g[s] = IF s = {} THEN 0 ELSE f[FirstOf(s)] + g[s \ {FirstOf(s)}]
BY Zenon DEF SumsOf

LEMMA SumsUnique ==
  ASSUME NEW f, NEW S, NEW T, NEW g, NEW h, SumsOf(f, S, g), SumsOf(f, T, h),
         NEW s \in SUBSET (S \cap T), IsFiniteSet(s)
  PROVE  g[s] = h[s]
<1> DEFINE Good == {r \in SUBSET s : g[r] = h[r]}
<1>1. ASSUME NEW r \in SUBSET s, \A U \in SUBSET r : U # r => U \in Good
      PROVE  r \in Good
  <2>1. /\ g[r] = IF r = {} THEN 0 ELSE f[FirstOf(r)] + g[r \ {FirstOf(r)}]
        /\ h[r] = IF r = {} THEN 0 ELSE f[FirstOf(r)] + h[r \ {FirstOf(r)}]
    <3>1. r \in SUBSET S /\ r \in SUBSET T  OBVIOUS
    <3> HIDE DEF Good
    <3>2. g[r] = IF r = {} THEN 0 ELSE f[FirstOf(r)] + g[r \ {FirstOf(r)}]
      BY <3>1, Zenon DEF SumsOf
    <3>3. h[r] = IF r = {} THEN 0 ELSE f[FirstOf(r)] + h[r \ {FirstOf(r)}]
      BY <3>1, Zenon DEF SumsOf
    <3> QED  BY <3>2, <3>3
  <2>2. CASE r = {}  BY <2>1, <2>2
  <2>3. CASE r # {}
    <3>1. FirstOf(r) \in r  BY <2>3, FirstIn
    <3>2. r \ {FirstOf(r)} \in Good  BY <1>1, <3>1
    <3> QED  BY <2>1, <2>3, <3>2
  <2> QED  BY <2>2, <2>3
<1>2. s \in Good
  <2> HIDE DEF Good
  <2> QED  BY <1>1, SubsetInduction
<1> QED  BY <1>2

LEMMA SumsExist ==
  ASSUME NEW f, NEW S, IsFiniteSet(S)
  PROVE  SumsOf(f, S, CHOOSE g : SumsOf(f, S, g))
<1> DEFINE G(s) == CHOOSE g : SumsOf(f, s, g)
           Good == {r \in SUBSET S : SumsOf(f, r, G(r))}
<1>1. ASSUME NEW r \in SUBSET S, \A U \in SUBSET r : U # r => U \in Good
      PROVE  r \in Good
  <2> DEFINE H == [s \in SUBSET r |-> IF s = {} THEN 0
                     ELSE f[FirstOf(s)] + G(s \ {FirstOf(s)})[s \ {FirstOf(s)}]]
  <2>1. ASSUME NEW s \in SUBSET r, s # r PROVE SumsOf(f, s, G(s))  BY <1>1, <2>1
  <2>2. ASSUME NEW s \in SUBSET r, s # r PROVE G(s)[s] = H[s]
    <3>1. G(s)[s] = IF s = {} THEN 0 ELSE f[FirstOf(s)] + G(s)[s \ {FirstOf(s)}]
      <4>1. s \in SUBSET s  OBVIOUS
      <4> HIDE DEF G, H, Good
      <4> QED  BY <2>1, <2>2, <4>1, SumsAt
    <3> DEFINE q == s \ {FirstOf(s)}
    <3>2. CASE s = {}
      <4> HIDE DEF G
      <4> QED  BY <3>1, <3>2
    <3>3. CASE s # {}
      <4>1. q \in SUBSET r /\ q # r /\ q \in SUBSET (s \cap q)  BY <2>2
      <4>2. SumsOf(f, s, G(s)) /\ SumsOf(f, q, G(q))  BY <2>1, <2>2, <4>1
      <4>3. IsFiniteSet(q)
        <5>1. q \in SUBSET S  BY <4>1
        <5> HIDE DEF q
        <5> QED  BY <5>1, FS_Subset
      <4>4. G(s)[q] = G(q)[q]
        <5> HIDE DEF G, q, H, Good
        <5> QED  BY <4>1, <4>2, <4>3, SumsUnique
      <4> HIDE DEF G
      <4> QED  BY <3>1, <3>3, <4>4
    <3> QED  BY <3>2, <3>3
  <2>3. ASSUME NEW s \in SUBSET r, s # {}
        PROVE  G(s \ {FirstOf(s)})[s \ {FirstOf(s)}] = H[s \ {FirstOf(s)}]
    <3>1. s \ {FirstOf(s)} # r  BY <2>3, FirstIn
    <3> HIDE DEF G, H
    <3> QED  BY <2>2, <3>1
  <2>4. H = [s \in SUBSET r |-> IF s = {} THEN 0
                                ELSE f[FirstOf(s)] + H[s \ {FirstOf(s)}]]
    <3>1. H = [s \in SUBSET r |-> IF s = {} THEN 0
                 ELSE f[FirstOf(s)] + G(s \ {FirstOf(s)})[s \ {FirstOf(s)}]]
      OBVIOUS
    <3> HIDE DEF H, G
    <3> QED  BY <2>3, <3>1
  <2>5. SumsOf(f, r, H)
    <3> HIDE DEF H
    <3> QED  BY <2>4, Zenon DEF SumsOf
  <2>6. SumsOf(f, r, G(r))
    <3> HIDE DEF H
    <3> QED  BY <2>5, Zenon
  <2> QED  BY <2>6
<1>2. S \in Good
  <2> HIDE DEF Good
  <2> QED  BY <1>1, SubsetInduction
<1> QED  BY <1>2

LEMMA SumEmpty == ASSUME NEW f PROVE SumFunctionOnSet(f, {}) = 0
<1> DEFINE g == CHOOSE g : SumsOf(f, {}, g)
<1>1. SumsOf(f, {}, g)  BY SumsExist, FS_EmptySet
<1>2. SumFunctionOnSet(f, {}) = g[{}]  BY SumDef, Zenon
<1> HIDE DEF g
<1>3. g[{}] = 0  BY <1>1, SumsAt
<1> QED  BY <1>2, <1>3

LEMMA SumFirst ==
  ASSUME NEW f, NEW S, IsFiniteSet(S), S # {}
  PROVE  SumFunctionOnSet(f, S) = f[FirstOf(S)] + SumFunctionOnSet(f, S \ {FirstOf(S)})
<1> DEFINE T == S \ {FirstOf(S)}
           g == CHOOSE g : SumsOf(f, S, g)
           h == CHOOSE h : SumsOf(f, T, h)
<1>1. IsFiniteSet(T)  BY FS_Subset
<1>2. SumsOf(f, S, g) /\ SumsOf(f, T, h)
  <2> HIDE DEF T
  <2> QED  BY <1>1, SumsExist
<1>3. SumFunctionOnSet(f, S) = g[S] /\ SumFunctionOnSet(f, T) = h[T]
  <2> HIDE DEF T
  <2> QED  BY SumDef, Zenon
<1>4. T \in SUBSET S /\ T \in SUBSET (S \cap T)  OBVIOUS
<1>5. g[S] = f[FirstOf(S)] + g[T]
  <2> HIDE DEF g, h
  <2> QED  BY <1>2, SumsAt
<1>6. g[T] = h[T]
  <2> HIDE DEF g, h, T
  <2> QED  BY <1>1, <1>2, <1>4, SumsUnique
<1> HIDE DEF g, h
<1> QED  BY <1>3, <1>5, <1>6

-----------------------------------------------------------------------------
(***************************************************************************)
(* The laws of sums over a set.                                            *)
(***************************************************************************)

\* A sum of integers is one, and any element can be taken out of it.
LEMMA SumInt ==
  ASSUME NEW f, NEW S, IsFiniteSet(S), \A x \in S : f[x] \in Int
  PROVE  SumFunctionOnSet(f, S) \in Int
<1> DEFINE Good == {r \in SUBSET S : SumFunctionOnSet(f, r) \in Int}
<1>1. ASSUME NEW r \in SUBSET S, \A U \in SUBSET r : U # r => U \in Good
      PROVE  r \in Good
  <2>1. CASE r = {}  BY <2>1, SumEmpty
  <2>2. CASE r # {}
    <3>1. FirstOf(r) \in r  BY <2>2, FirstIn
    <3>2. IsFiniteSet(r)  BY FS_Subset
    <3>3. SumFunctionOnSet(f, r)
            = f[FirstOf(r)] + SumFunctionOnSet(f, r \ {FirstOf(r)})
      BY <2>2, <3>2, SumFirst
    <3>4. r \ {FirstOf(r)} \in Good  BY <1>1, <3>1
    <3> QED  BY <3>1, <3>3, <3>4
  <2> QED  BY <2>1, <2>2
<1>2. S \in Good
  <2> HIDE DEF Good
  <2> QED  BY <1>1, SubsetInduction
<1> QED  BY <1>2

LEMMA SumSplit ==
  ASSUME NEW f, NEW S, IsFiniteSet(S), \A x \in S : f[x] \in Int
  PROVE  \A x \in S : SumFunctionOnSet(f, S) = f[x] + SumFunctionOnSet(f, S \ {x})
<1> DEFINE Splits(r) == \A x \in r : SumFunctionOnSet(f, r)
                                       = f[x] + SumFunctionOnSet(f, r \ {x})
           Good == {r \in SUBSET S : Splits(r)}
<1>1. ASSUME NEW r \in SUBSET S, \A U \in SUBSET r : U # r => U \in Good
      PROVE  r \in Good
  <2>1. SUFFICES ASSUME NEW x \in r
                 PROVE  SumFunctionOnSet(f, r) = f[x] + SumFunctionOnSet(f, r \ {x})
    OBVIOUS
  <2> DEFINE p == FirstOf(r)
             q == (r \ {p}) \ {x}
  <2>2. p \in r  BY FirstIn
  <2>3. SumFunctionOnSet(f, r) = f[p] + SumFunctionOnSet(f, r \ {p})
    <3>1. IsFiniteSet(r)  BY FS_Subset
    <3> QED  BY <3>1, SumFirst
  <2>4. CASE p = x  BY <2>3, <2>4
  <2>5. CASE p # x
    <3>1. Splits(r \ {p}) /\ Splits(r \ {x})
      <4>1. r \ {p} \in Good /\ r \ {x} \in Good  BY <1>1, <2>2
      <4> QED  BY <4>1
    <3>2. SumFunctionOnSet(f, r \ {p}) = f[x] + SumFunctionOnSet(f, q)
      BY <2>5, <3>1
    <3>3. SumFunctionOnSet(f, r \ {x}) = f[p] + SumFunctionOnSet(f, q)
      <4>1. q = (r \ {x}) \ {p}  OBVIOUS
      <4>2. p \in r \ {x}  BY <2>2, <2>5
      <4> HIDE DEF p, q
      <4> QED  BY <3>1, <4>1, <4>2
    <3>4. SumFunctionOnSet(f, q) \in Int
      <4>1. q \in SUBSET S  OBVIOUS
      <4>2. IsFiniteSet(q)
        <5> HIDE DEF q
        <5> QED  BY <4>1, FS_Subset
      <4> HIDE DEF q
      <4> QED  BY <4>1, <4>2, SumInt
    <3>5. f[p] \in Int /\ f[x] \in Int  BY <2>2
    <3> HIDE DEF p, q
    <3> QED  BY <2>3, <3>2, <3>3, <3>4, <3>5
  <2> QED  BY <2>4, <2>5
<1>2. S \in Good
  <2> HIDE DEF Good
  <2> QED  BY <1>1, SubsetInduction
<1> QED  BY <1>2

LEMMA SumNat ==
  ASSUME NEW f, NEW S, IsFiniteSet(S), \A x \in S : f[x] \in Nat
  PROVE  SumFunctionOnSet(f, S) \in Nat
<1> DEFINE Good == {r \in SUBSET S : SumFunctionOnSet(f, r) \in Nat}
<1>1. {} \in Good  BY SumEmpty
<1>2. ASSUME NEW r \in SUBSET S, NEW x \in r, r \ {x} \in Good
      PROVE  r \in Good
  <2>1. IsFiniteSet(r)  BY FS_Subset
  <2>2. SumFunctionOnSet(f, r) = f[x] + SumFunctionOnSet(f, r \ {x})
    BY <2>1, SumSplit
  <2> QED  BY <1>2, <2>2
<1>3. S \in Good
  <2> HIDE DEF Good
  <2> QED  BY <1>1, <1>2, ElementInduction
<1> QED  BY <1>3

\* Only the values on the set count.
LEMMA SumSame ==
  ASSUME NEW f, NEW g, NEW S, IsFiniteSet(S), \A x \in S : f[x] \in Int /\ g[x] = f[x]
  PROVE  SumFunctionOnSet(g, S) = SumFunctionOnSet(f, S)
<1> DEFINE Good == {r \in SUBSET S : SumFunctionOnSet(g, r) = SumFunctionOnSet(f, r)}
<1>1. {} \in Good  BY SumEmpty
<1>2. ASSUME NEW r \in SUBSET S, NEW x \in r, r \ {x} \in Good
      PROVE  r \in Good
  <2>1. IsFiniteSet(r) /\ (\A y \in r : f[y] \in Int) /\ (\A y \in r : g[y] \in Int)
    BY FS_Subset
  <2>2. SumFunctionOnSet(f, r) = f[x] + SumFunctionOnSet(f, r \ {x})
    BY <2>1, SumSplit
  <2>3. SumFunctionOnSet(g, r) = g[x] + SumFunctionOnSet(g, r \ {x})
    BY <2>1, SumSplit
  <2> QED  BY <1>2, <2>2, <2>3
<1>3. S \in Good
  <2> HIDE DEF Good
  <2> QED  BY <1>1, <1>2, ElementInduction
<1> QED  BY <1>3

\* One element written: the sum changes by what is written.
LEMMA SumOnSetWrites ==
  ASSUME NEW f, NEW g, NEW S, NEW T, NEW x, IsFiniteSet(S), T = S \cup {x},
         \A y \in S : f[y] \in Int, g[x] \in Int, \A y \in S \ {x} : g[y] = f[y]
  PROVE  /\ SumFunctionOnSet(f, S) \in Int /\ SumFunctionOnSet(g, T) \in Int
         /\ SumFunctionOnSet(g, T)
              = SumFunctionOnSet(f, S) + g[x] - (IF x \in S THEN f[x] ELSE 0)
<1>1. IsFiniteSet(T) /\ IsFiniteSet(S \ {x})
  BY FS_AddElement, FS_RemoveElement, FS_Subset
<1>2. T \ {x} = S \ {x}  OBVIOUS
<1>3. \A y \in T : g[y] \in Int  OBVIOUS
<1>4. SumFunctionOnSet(g, T) = g[x] + SumFunctionOnSet(g, T \ {x})
  BY <1>1, <1>3, SumSplit
<1>5. SumFunctionOnSet(g, S \ {x}) = SumFunctionOnSet(f, S \ {x})
  BY <1>1, SumSame
<1>6. SumFunctionOnSet(f, S \ {x}) \in Int  BY <1>1, SumInt
<1>7. SumFunctionOnSet(f, S) \in Int  BY SumInt
<1> DEFINE rest == SumFunctionOnSet(f, S \ {x})
           before == SumFunctionOnSet(f, S)
           after == SumFunctionOnSet(g, T)
           old == IF x \in S THEN f[x] ELSE 0
<1>8. after = g[x] + rest /\ rest \in Int  BY <1>2, <1>4, <1>5, <1>6, Zenon
<1>9. before = old + rest /\ old \in Int
  <2>1. CASE x \in S
    <3>1. SumFunctionOnSet(f, S) = f[x] + SumFunctionOnSet(f, S \ {x})
      BY <2>1, SumSplit
    <3> HIDE DEF rest, before
    <3>2. old = f[x]  BY <2>1
    <3> QED  BY <2>1, <3>1, <3>2 DEF rest, before
  <2>2. CASE x \notin S
    <3>1. S \ {x} = S  BY <2>2
    <3>2. before = rest /\ old = 0  BY <2>2, <3>1, Zenon
    <3> HIDE DEF rest, before, old
    <3> QED  BY <1>8, <3>2
  <2> QED  BY <2>1, <2>2
<1> HIDE DEF rest, before, after, old
<1>10. before \in Int /\ after \in Int /\ after = before + g[x] - old
  BY <1>8, <1>9
<1> QED  BY <1>10, Zenon DEF before, after, old

\* Two disjoint sets are added up one after the other.
LEMMA SumUnion ==
  ASSUME NEW f, NEW S, NEW T, IsFiniteSet(S), IsFiniteSet(T), S \cap T = {},
         \A x \in S \cup T : f[x] \in Int
  PROVE  SumFunctionOnSet(f, S \cup T) = SumFunctionOnSet(f, S) + SumFunctionOnSet(f, T)
<1> DEFINE Good == {r \in SUBSET T : SumFunctionOnSet(f, S \cup r)
                                = SumFunctionOnSet(f, S) + SumFunctionOnSet(f, r)}
<1>0. SumFunctionOnSet(f, S) \in Int  BY SumInt
<1>1. {} \in Good
  <2>1. S \cup {} = S  OBVIOUS
  <2> QED  BY <2>1, <1>0, SumEmpty
<1>2. ASSUME NEW r \in SUBSET T, NEW x \in r, r \ {x} \in Good
      PROVE  r \in Good
  <2>1. IsFiniteSet(r) /\ IsFiniteSet(S \cup r) /\ IsFiniteSet(r \ {x})
    BY FS_Subset, FS_Union
  <2>2. SumFunctionOnSet(f, r) = f[x] + SumFunctionOnSet(f, r \ {x})
    BY <2>1, SumSplit
  <2>3. SumFunctionOnSet(f, S \cup r) = f[x] + SumFunctionOnSet(f, (S \cup r) \ {x})
    BY <2>1, SumSplit
  <2>4. (S \cup r) \ {x} = S \cup (r \ {x})  OBVIOUS
  <2>5. SumFunctionOnSet(f, r \ {x}) \in Int  BY <2>1, SumInt
  <2>6. f[x] \in Int  OBVIOUS
  <2>7. SumFunctionOnSet(f, S \cup (r \ {x}))
          = SumFunctionOnSet(f, S) + SumFunctionOnSet(f, r \ {x})
    BY <1>2
  <2>8. SumFunctionOnSet(f, S \cup r)
          = f[x] + (SumFunctionOnSet(f, S) + SumFunctionOnSet(f, r \ {x}))
    BY <2>3, <2>4, <2>7
  <2>9. SumFunctionOnSet(f, S \cup r) = SumFunctionOnSet(f, S) + SumFunctionOnSet(f, r)
    BY <1>0, <2>2, <2>5, <2>6, <2>8
  <2> QED  BY <2>9
<1>3. T \in Good
  <2> HIDE DEF Good
  <2> QED  BY <1>1, <1>2, ElementInduction
<1> QED  BY <1>3

\* Different things of the same value, one for each element of a set.
LEMMA SumImage ==
  ASSUME NEW f, NEW h, NEW g, NEW S, IsFiniteSet(S), \A x \in S : f[x] \in Int,
         \A x \in S : g[h[x]] = f[x],
         \A x, y \in S : h[x] = h[y] => x = y
  PROVE  /\ IsFiniteSet({h[x] : x \in S})
         /\ SumFunctionOnSet(g, {h[x] : x \in S}) = SumFunctionOnSet(f, S)
<1> DEFINE Image(r) == {h[x] : x \in r}
           Good == {r \in SUBSET S : /\ IsFiniteSet(Image(r))
                     /\ SumFunctionOnSet(g, Image(r)) = SumFunctionOnSet(f, r)}
<1>1. {} \in Good
  <2>1. Image({}) = {}  OBVIOUS
  <2> QED  BY <2>1, SumEmpty, FS_EmptySet
<1>2. ASSUME NEW r \in SUBSET S, NEW x \in r, r \ {x} \in Good
      PROVE  r \in Good
  <2>1. IsFiniteSet(r)  BY FS_Subset
  <2>2. SumFunctionOnSet(f, r) = f[x] + SumFunctionOnSet(f, r \ {x})
    BY <2>1, SumSplit
  <2>3. Image(r) = Image(r \ {x}) \cup {h[x]}  OBVIOUS
  <2>4. Image(r) \ {h[x]} = Image(r \ {x})  OBVIOUS
  <2>5. IsFiniteSet(Image(r \ {x}))  BY <1>2
  <2>6. IsFiniteSet(Image(r))
    <3> DEFINE I == Image(r \ {x})
    <3> HIDE DEF I
    <3>1. IsFiniteSet(I \cup {h[x]})  BY <2>5, FS_AddElement DEF I
    <3> QED  BY <2>3, <3>1, Zenon DEF I
  <2>7. \A y \in Image(r) : g[y] \in Int  OBVIOUS
  <2>8. h[x] \in Image(r)  OBVIOUS
  <2>9. SumFunctionOnSet(g, Image(r)) = g[h[x]] + SumFunctionOnSet(g, Image(r) \ {h[x]})
    <3> HIDE DEF Image
    <3> QED  BY <2>6, <2>7, <2>8, SumSplit
  <2> QED  BY <1>2, <2>2, <2>4, <2>6, <2>9
<1>3. S \in Good
  <2> HIDE DEF Good
  <2> QED  BY <1>1, <1>2, ElementInduction
<1> QED  BY <1>3

\* What grows everywhere by a multiple of something grows in total by that
\* multiple of its total.
LEMMA SumGrows ==
  ASSUME NEW f, NEW g, NEW w, NEW S, NEW c \in Int, IsFiniteSet(S),
         \A x \in S : f[x] \in Int /\ w[x] \in Int /\ g[x] = f[x] + c * w[x]
  PROVE  SumFunctionOnSet(g, S) = SumFunctionOnSet(f, S) + c * SumFunctionOnSet(w, S)
<1> DEFINE Good == {r \in SUBSET S : SumFunctionOnSet(g, r)
                          = SumFunctionOnSet(f, r) + c * SumFunctionOnSet(w, r)}
<1>1. {} \in Good
  BY SumEmpty
<1>2. ASSUME NEW r \in SUBSET S, NEW x \in r, r \ {x} \in Good
      PROVE  r \in Good
  <2>1. /\ IsFiniteSet(r) /\ IsFiniteSet(r \ {x})
        /\ \A y \in r : f[y] \in Int
        /\ \A y \in r : w[y] \in Int
        /\ \A y \in r : g[y] \in Int
    BY FS_Subset
  <2>2. SumFunctionOnSet(f, r) = f[x] + SumFunctionOnSet(f, r \ {x})
    BY <2>1, SumSplit
  <2>3. SumFunctionOnSet(g, r) = g[x] + SumFunctionOnSet(g, r \ {x})
    BY <2>1, SumSplit
  <2>4. SumFunctionOnSet(w, r) = w[x] + SumFunctionOnSet(w, r \ {x})
    BY <2>1, SumSplit
  <2>5. SumFunctionOnSet(f, r \ {x}) \in Int  BY <2>1, SumInt
  <2>6. SumFunctionOnSet(w, r \ {x}) \in Int  BY <2>1, SumInt
  <2>7. SumFunctionOnSet(g, r \ {x})
          = SumFunctionOnSet(f, r \ {x}) + c * SumFunctionOnSet(w, r \ {x})
    BY <1>2
  <2>8. f[x] \in Int /\ w[x] \in Int /\ g[x] = f[x] + c * w[x]  OBVIOUS
  <2>9. \A i, j \in Int : c * (i + j) = c * i + c * j  OBVIOUS
  <2>10. c * SumFunctionOnSet(w, r) = c * w[x] + c * SumFunctionOnSet(w, r \ {x})
    BY <2>4, <2>6, <2>8, <2>9
  <2> QED  BY <2>2, <2>3, <2>5, <2>6, <2>7, <2>8, <2>10
<1>3. S \in Good
  <2> HIDE DEF Good
  <2> QED  BY <1>1, <1>2, ElementInduction
<1> QED  BY <1>3

LEMMA SumAtMost ==
  ASSUME NEW f, NEW S, IsFiniteSet(S), \A x \in S : f[x] \in Nat
  PROVE  \A x \in S : f[x] <= SumFunctionOnSet(f, S)
<1> TAKE x \in S
<1>1. SumFunctionOnSet(f, S) = f[x] + SumFunctionOnSet(f, S \ {x})  BY SumSplit
<1>2. SumFunctionOnSet(f, S \ {x}) \in Nat  BY FS_Subset, SumNat
<1> QED  BY <1>1, <1>2

-----------------------------------------------------------------------------
(***************************************************************************)
(* The same for all of a function, as the programs' books are added up.    *)
(***************************************************************************)

LEMMA SumAll == ASSUME NEW f PROVE SumFunction(f) = SumFunctionOnSet(f, DOMAIN f)
BY DEF SumFunction

\* One entry created or written over.
LEMMA SumWrites ==
  ASSUME NEW f, NEW g, NEW x, IsFiniteSet(DOMAIN f), DOMAIN g = DOMAIN f \cup {x},
         \A y \in DOMAIN f : f[y] \in Int, g[x] \in Int,
         \A y \in DOMAIN f \ {x} : g[y] = f[y]
  PROVE  /\ SumFunction(f) \in Int /\ SumFunction(g) \in Int
         /\ IsFiniteSet(DOMAIN g)
         /\ SumFunction(g) = SumFunction(f) + g[x] - (IF x \in DOMAIN f THEN f[x] ELSE 0)
<1>1. IsFiniteSet(DOMAIN g)  BY FS_AddElement
<1> QED  BY <1>1, SumOnSetWrites, SumAll

LEMMA SumNone == ASSUME NEW f, DOMAIN f = {} PROVE SumFunction(f) = 0
BY SumEmpty, SumAll

\* Where nothing stands, the sum is nothing.
LEMMA SumZero ==
  ASSUME NEW f, IsFiniteSet(DOMAIN f), \A x \in DOMAIN f : f[x] = 0
  PROVE  SumFunction(f) = 0
<1> DEFINE Good == {r \in SUBSET DOMAIN f : SumFunctionOnSet(f, r) = 0}
<1>1. {} \in Good  BY SumEmpty
<1>2. ASSUME NEW r \in SUBSET DOMAIN f, NEW x \in r, r \ {x} \in Good
      PROVE  r \in Good
  <2>1. IsFiniteSet(r) /\ \A y \in r : f[y] \in Int  BY FS_Subset
  <2>2. SumFunctionOnSet(f, r) = f[x] + SumFunctionOnSet(f, r \ {x})  BY <2>1, SumSplit
  <2>3. SumFunctionOnSet(f, r \ {x}) = 0  BY <1>2
  <2> QED  BY <2>2, <2>3
<1>3. DOMAIN f \in Good
  <2> HIDE DEF Good
  <2> QED  BY <1>1, <1>2, ElementInduction
<1> QED  BY <1>3, SumAll

\* What is nowhere more is not more in total.
LEMMA SumLess ==
  ASSUME NEW f, NEW g, NEW S, IsFiniteSet(S),
         \A x \in S : f[x] \in Int /\ g[x] \in Int /\ f[x] <= g[x]
  PROVE  SumFunctionOnSet(f, S) <= SumFunctionOnSet(g, S)
<1> DEFINE Good == {r \in SUBSET S : SumFunctionOnSet(f, r) <= SumFunctionOnSet(g, r)}
<1>1. {} \in Good  BY SumEmpty
<1>2. ASSUME NEW r \in SUBSET S, NEW x \in r, r \ {x} \in Good
      PROVE  r \in Good
  <2>1. IsFiniteSet(r) /\ IsFiniteSet(r \ {x})  BY FS_Subset
  <2>2. SumFunctionOnSet(f, r) = f[x] + SumFunctionOnSet(f, r \ {x})
    BY <2>1, SumSplit
  <2>3. SumFunctionOnSet(g, r) = g[x] + SumFunctionOnSet(g, r \ {x})
    BY <2>1, SumSplit
  <2>4. SumFunctionOnSet(f, r \ {x}) \in Int /\ SumFunctionOnSet(g, r \ {x}) \in Int
    BY <2>1, SumInt
  <2>5. SumFunctionOnSet(f, r \ {x}) <= SumFunctionOnSet(g, r \ {x})
    BY <1>2
  <2> QED  BY <2>2, <2>3, <2>4, <2>5
<1>3. S \in Good
  <2> HIDE DEF Good
  <2> QED  BY <1>1, <1>2, ElementInduction
<1> QED  BY <1>3

\* Multiplying each multiplies the total.
LEMMA SumTimes ==
  ASSUME NEW f, NEW g, NEW S, NEW c \in Int, IsFiniteSet(S),
         \A x \in S : f[x] \in Int /\ g[x] = c * f[x]
  PROVE  SumFunctionOnSet(g, S) = c * SumFunctionOnSet(f, S)
<1> DEFINE none == [x \in S |-> 0]
<1>1. \A x \in S : none[x] \in Int /\ f[x] \in Int /\ g[x] = none[x] + c * f[x]
  OBVIOUS
<1>2. DOMAIN none = S /\ \A x \in S : none[x] = 0  OBVIOUS
<1> HIDE DEF none
<1>3. SumFunctionOnSet(g, S) = SumFunctionOnSet(none, S) + c * SumFunctionOnSet(f, S)
  BY <1>1, SumGrows
<1>4. SumFunctionOnSet(none, S) = 0
  BY <1>2, SumAll, SumZero
<1>5. SumFunctionOnSet(f, S) \in Int  BY SumInt
<1> QED  BY <1>3, <1>4, <1>5

-----------------------------------------------------------------------------
(***************************************************************************)
(* Least members, and subsets of a size.                                   *)
(***************************************************************************)

\* Where every member has a natural number, one member has the least.
LEMMA LeastMember ==
  ASSUME NEW S, S # {}, NEW f, \A x \in S : f[x] \in Nat
  PROVE  \E x \in S : \A y \in S : f[x] <= f[y]
<1> DEFINE T == {f[x] : x \in S}
<1>1. T \subseteq Nat /\ T # {}
  OBVIOUS
<1>2. PICK n \in T : \A m \in T : ~ (<<m, n>> \in OpToRel(<, Nat))
  BY <1>1, NatLessThanWellFounded, WFMin
<1>3. \A m \in T : ~ (m < n)
  BY <1>1, <1>2 DEF OpToRel
<1>4. PICK x \in S : f[x] = n
  OBVIOUS
<1>5. \A y \in S : f[y] \in T /\ f[y] \in Nat
  OBVIOUS
<1> HIDE DEF T
<1> QED  BY <1>3, <1>4, <1>5

\* A finite set has subsets of every smaller size.
LEMMA SubsetOfSize ==
  ASSUME NEW S, IsFiniteSet(S), NEW n \in Nat, n <= Cardinality(S)
  PROVE  \E W \in SUBSET S : Cardinality(W) = n
<1> DEFINE Good == {r \in SUBSET S : Cardinality(r) < n \/ \E W \in SUBSET r : Cardinality(W) = n}
<1>1. {} \in Good
  BY FS_EmptySet
<1>2. ASSUME NEW r \in SUBSET S, NEW x \in r, r \ {x} \in Good PROVE r \in Good
  <2>1. IsFiniteSet(r)
    BY FS_Subset
  <2>2. Cardinality(r \ {x}) = Cardinality(r) - 1 /\ Cardinality(r) \in Nat
    BY <2>1, FS_RemoveElement, FS_CardinalityType
  <2>3. CASE Cardinality(r \ {x}) < n
    <3>1. Cardinality(r) < n \/ Cardinality(r) = n
      BY <2>2, <2>3
    <3> QED  BY <3>1
  <2>4. CASE \E W \in SUBSET (r \ {x}) : Cardinality(W) = n
    BY <2>4
  <2> QED  BY <1>2, <2>3, <2>4
<1> HIDE DEF Good
<1>3. S \in Good
  BY <1>1, <1>2, ElementInduction
<1> QED  BY <1>3, FS_CardinalityType DEF Good

=============================================================================
