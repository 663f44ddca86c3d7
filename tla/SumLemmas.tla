------------------------------ MODULE SumLemmas ------------------------------
(*****************************************************************************)
(* Sums over finite sets: SumFunctionOnSet of the community modules, by which *)
(* the models add up quantities and amounts.                                 *)
(*                                                                           *)
(* The sum is defined by a recursive function over the subsets of the set.   *)
(* That such a function exists, and what it is, follows by induction over    *)
(* the subsets, stated as a fact about a set of subsets.                     *)
(*****************************************************************************)
EXTENDS FiniteSetsExt, FiniteSetTheorems, TLAPS

\* A set of subsets of S that has every subset all of whose own subsets it has
\* is the set of all of them.
LEMMA SubsetInduction ==
  ASSUME NEW S, IsFiniteSet(S), NEW F, F \subseteq SUBSET S,
         \A T \in SUBSET S : (\A U \in SUBSET T : U # T => U \in F) => T \in F
  PROVE  SUBSET S = F
<1> DEFINE R == StrictSubsetOrdering(S)
           Bad == (SUBSET S) \ F
<1>1. IsWellFoundedOn(R, SUBSET S)
  BY FS_StrictSubsetOrderingWellFounded, FS_FiniteSubsetsOfFinite
<1>2. ASSUME Bad # {} PROVE FALSE
  <2>0. Bad \subseteq SUBSET S OBVIOUS
  <2>1. PICK T \in Bad : \A U \in Bad : <<U, T>> \notin R
    <3> HIDE DEF Bad, R
    <3> QED BY <1>1, <1>2, <2>0, WFMin
  <2>2. ASSUME NEW U \in SUBSET T, U # T PROVE U \in F
    BY <2>1, <2>2 DEF StrictSubsetOrdering
  <2> QED BY <2>2
<1> QED BY <1>2

-----------------------------------------------------------------------------
(* The recursion.                                                          *)

Pick(s) == CHOOSE x \in s : TRUE

LEMMA PickIn == ASSUME NEW s, s # {} PROVE Pick(s) \in s
  BY DEF Pick

\* The recursion of a sum over the subsets of S
IsSum(it, f, S) ==
  it = [s \in SUBSET S |-> IF s = {} THEN 0 ELSE f[Pick(s)] + it[s \ {Pick(s)}]]

\* The definition, unfolded.
LEMMA SumDef == ASSUME NEW f, NEW S
  PROVE SumFunctionOnSet(f, S) = (CHOOSE it : IsSum(it, f, S))[S]
  BY DEF SumFunctionOnSet, FoldFunctionOnSet, MapThenFoldSet, IsSum, Pick

LEMMA IsSumAt ==
  ASSUME NEW it, NEW f, NEW S, IsSum(it, f, S), NEW s \in SUBSET S
  PROVE  it[s] = IF s = {} THEN 0 ELSE f[Pick(s)] + it[s \ {Pick(s)}]
  BY DEF IsSum

\* Two such functions agree on the subsets they share.
LEMMA IsSumAgree ==
  ASSUME NEW S, IsFiniteSet(S), NEW T \in SUBSET S, NEW f, NEW g, NEW h,
         IsSum(g, f, S), IsSum(h, f, T)
  PROVE  \A s \in SUBSET T : g[s] = h[s]
<1> DEFINE F == {s \in SUBSET T : g[s] = h[s]}
<1>1. ASSUME NEW s \in SUBSET T, \A u \in SUBSET s : u # s => u \in F
      PROVE  s \in F
  <2>1. g[s] = IF s = {} THEN 0 ELSE f[Pick(s)] + g[s \ {Pick(s)}]
    BY IsSumAt
  <2>2. h[s] = IF s = {} THEN 0 ELSE f[Pick(s)] + h[s \ {Pick(s)}]
    BY IsSumAt
  <2>3. s # {} => g[s \ {Pick(s)}] = h[s \ {Pick(s)}]
    BY <1>1, PickIn
  <2> QED BY <2>1, <2>2, <2>3
<1>2. IsFiniteSet(T) BY FS_Subset
<1>3. F \subseteq SUBSET T OBVIOUS
<1>4. SUBSET T = F
  <2> HIDE DEF F
  <2> QED BY <1>1, <1>2, <1>3, SubsetInduction
<1> QED BY <1>4

\* For a finite set there is one.
LEMMA IsSumExists ==
  ASSUME NEW S, IsFiniteSet(S), NEW f
  PROVE  \E it : IsSum(it, f, S)
<1> DEFINE F == {T \in SUBSET S : \E it : IsSum(it, f, T)}
<1>1. ASSUME NEW T \in SUBSET S, \A U \in SUBSET T : U # T => U \in F
      PROVE  T \in F
  <2> DEFINE V(s) == (CHOOSE it : IsSum(it, f, s))[s]
             it == [s \in SUBSET T |-> IF s = {} THEN 0 ELSE f[Pick(s)] + V(s \ {Pick(s)})]
  <2>1. ASSUME NEW u \in SUBSET T, u # T
        PROVE  V(u) = IF u = {} THEN 0 ELSE f[Pick(u)] + V(u \ {Pick(u)})
    <3> DEFINE g == CHOOSE i : IsSum(i, f, u)
               w == u \ {Pick(u)}
               h == CHOOSE i : IsSum(i, f, w)
    <3>1. IsSum(g, f, u)
      BY <1>1, <2>1
    <3>2. u # {} => w \in SUBSET u /\ w # T /\ w \in SUBSET T
      BY <2>1, PickIn
    <3>3. u # {} => IsSum(h, f, w)
      BY <1>1, <3>2
    <3>4. IsFiniteSet(u)
      BY FS_Subset
    <3>5. u # {} => g[w] = h[w]
      <4> HIDE DEF g, h, w
      <4> QED BY <3>1, <3>2, <3>3, <3>4, IsSumAgree
    <3>6. g[u] = IF u = {} THEN 0 ELSE f[Pick(u)] + g[w]
      <4> HIDE DEF g
      <4> QED BY <3>1, IsSumAt
    <3>7. V(u) = g[u] /\ V(w) = h[w]
      OBVIOUS
    <3> HIDE DEF V, g, h
    <3> QED BY <3>5, <3>6, <3>7
  <2>2. ASSUME NEW s \in SUBSET T
        PROVE  it[s] = IF s = {} THEN 0 ELSE f[Pick(s)] + it[s \ {Pick(s)}]
    <3>1. s # {} => s \ {Pick(s)} \in SUBSET T /\ s \ {Pick(s)} # T
      BY PickIn
    <3>2. s # {} => it[s \ {Pick(s)}] = V(s \ {Pick(s)})
      <4> HIDE DEF V
      <4> QED BY <3>1, <2>1
    <3> HIDE DEF V
    <3> QED BY <3>2
  <2>3. IsSum(it, f, T)
    <3> HIDE DEF V
    <3>1. it = [s \in SUBSET T |-> it[s]]
      OBVIOUS
    <3> HIDE DEF it
    <3> QED BY <3>1, <2>2 DEF IsSum
  <2> HIDE DEF it
  <2> QED BY <2>3
<1>3. F \subseteq SUBSET S OBVIOUS
<1>4. SUBSET S = F
  <2> HIDE DEF F
  <2> QED BY <1>1, <1>3, SubsetInduction
<1> QED BY <1>4

\* It is the sum of every subset.
LEMMA SumIs ==
  ASSUME NEW S, IsFiniteSet(S), NEW f, NEW it, IsSum(it, f, S), NEW T \in SUBSET S
  PROVE  SumFunctionOnSet(f, T) = it[T]
<1>1. IsFiniteSet(T) BY FS_Subset
<1> DEFINE h == CHOOSE i : IsSum(i, f, T)
<1>2. IsSum(h, f, T) BY <1>1, IsSumExists
<1>3. SumFunctionOnSet(f, T) = h[T] BY SumDef
<1> HIDE DEF h
<1> QED BY <1>2, <1>3, IsSumAgree

LEMMA SumEmpty == ASSUME NEW f PROVE SumFunctionOnSet(f, {}) = 0
<1>1. PICK it : IsSum(it, f, {}) BY IsSumExists, FS_EmptySet
<1>2. SumFunctionOnSet(f, {}) = it[{}] BY <1>1, SumIs, FS_EmptySet
<1> QED BY <1>1, <1>2, IsSumAt

LEMMA SumPick ==
  ASSUME NEW S, IsFiniteSet(S), S # {}, NEW f
  PROVE  SumFunctionOnSet(f, S) = f[Pick(S)] + SumFunctionOnSet(f, S \ {Pick(S)})
<1>1. PICK it : IsSum(it, f, S) BY IsSumExists
<1>2. SumFunctionOnSet(f, S) = it[S] BY <1>1, SumIs
<1>3. SumFunctionOnSet(f, S \ {Pick(S)}) = it[S \ {Pick(S)}] BY <1>1, SumIs
<1> QED BY <1>1, <1>2, <1>3, IsSumAt

-----------------------------------------------------------------------------
(* What the proofs use.                                                    *)

\* A sum of integers is an integer.
LEMMA SumInt ==
  ASSUME NEW S, IsFiniteSet(S), NEW f, \A x \in S : f[x] \in Int
  PROVE  SumFunctionOnSet(f, S) \in Int
<1> DEFINE F == {T \in SUBSET S : SumFunctionOnSet(f, T) \in Int}
<1>1. ASSUME NEW T \in SUBSET S, \A U \in SUBSET T : U # T => U \in F
      PROVE  T \in F
  <2>1. CASE T = {}
    BY <2>1, SumEmpty
  <2>2. CASE T # {}
    <3>1. Pick(T) \in T
      BY <2>2, PickIn
    <3>2. T \ {Pick(T)} \in F
      BY <1>1, <3>1
    <3>3. SumFunctionOnSet(f, T) = f[Pick(T)] + SumFunctionOnSet(f, T \ {Pick(T)})
      BY <2>2, SumPick, FS_Subset
    <3>4. f[Pick(T)] \in Int
      BY <3>1
    <3>5. QED BY <3>2, <3>3, <3>4
  <2>3. QED BY <2>1, <2>2
<1>2. F \subseteq SUBSET S OBVIOUS
<1>3. SUBSET S = F
  <2> HIDE DEF F
  <2>1. QED BY <1>1, <1>2, SubsetInduction
<1>4. QED BY <1>3

\* Any summand can be taken out first.
LEMMA SumRemove ==
  ASSUME NEW S, IsFiniteSet(S), NEW f, \A x \in S : f[x] \in Int, NEW x \in S
  PROVE  SumFunctionOnSet(f, S) = f[x] + SumFunctionOnSet(f, S \ {x})
<1> DEFINE Removes(T, y) == SumFunctionOnSet(f, T) = f[y] + SumFunctionOnSet(f, T \ {y})
           F == {T \in SUBSET S : \A y \in T : Removes(T, y)}
<1>1. ASSUME NEW T \in SUBSET S, \A U \in SUBSET T : U # T => U \in F
      PROVE  T \in F
  <2> SUFFICES ASSUME NEW y \in T PROVE Removes(T, y)
    OBVIOUS
  <2> DEFINE p == Pick(T)
             R == T \ {p, y}
  <2>1. p \in T
    BY PickIn
  <2>2. IsFiniteSet(T)
    BY FS_Subset
  <2>3. Removes(T, p)
    BY <2>2, SumPick
  <2>4. CASE y = p
    BY <2>3, <2>4
  <2>5. CASE y # p
    <3>1. T \ {p} \in F /\ T \ {y} \in F
      BY <1>1, <2>1
    <3>2. y \in T \ {p} /\ p \in T \ {y}
      BY <2>1, <2>5
    <3>3. Removes(T \ {p}, y) /\ Removes(T \ {y}, p)
      BY <3>1, <3>2
    <3>4. (T \ {p}) \ {y} = R /\ (T \ {y}) \ {p} = R
      OBVIOUS
    <3>5. f[y] \in Int /\ f[p] \in Int
      BY <2>1
    <3>6. SumFunctionOnSet(f, R) \in Int
      BY SumInt, FS_Subset
    <3> HIDE DEF p, R
    <3>7. QED BY <2>3, <3>3, <3>4, <3>5, <3>6
  <2>6. QED BY <2>4, <2>5
<1>2. F \subseteq SUBSET S OBVIOUS
<1>3. SUBSET S = F
  <2> HIDE DEF F
  <2>1. QED BY <1>1, <1>2, SubsetInduction
<1>4. QED BY <1>3

LEMMA SumAdd ==
  ASSUME NEW S, IsFiniteSet(S), NEW f, NEW x, x \notin S, \A y \in S \union {x} : f[y] \in Int
  PROVE  SumFunctionOnSet(f, S \union {x}) = f[x] + SumFunctionOnSet(f, S)
<1>1. IsFiniteSet(S \union {x})
  BY FS_AddElement
<1>2. (S \union {x}) \ {x} = S
  OBVIOUS
<1>3. QED BY <1>1, <1>2, SumRemove

\* A sum is made of nothing but its summands.
LEMMA SumSame ==
  ASSUME NEW S, IsFiniteSet(S), NEW f, NEW g, \A x \in S : f[x] = g[x]
  PROVE  SumFunctionOnSet(f, S) = SumFunctionOnSet(g, S)
<1> DEFINE F == {T \in SUBSET S : SumFunctionOnSet(f, T) = SumFunctionOnSet(g, T)}
<1>1. ASSUME NEW T \in SUBSET S, \A U \in SUBSET T : U # T => U \in F
      PROVE  T \in F
  <2>1. CASE T = {}
    BY <2>1, SumEmpty
  <2>2. CASE T # {}
    <3>1. Pick(T) \in T
      BY <2>2, PickIn
    <3>2. T \ {Pick(T)} \in F
      BY <1>1, <3>1
    <3>3. /\ SumFunctionOnSet(f, T) = f[Pick(T)] + SumFunctionOnSet(f, T \ {Pick(T)})
          /\ SumFunctionOnSet(g, T) = g[Pick(T)] + SumFunctionOnSet(g, T \ {Pick(T)})
      BY <2>2, SumPick, FS_Subset
    <3>4. f[Pick(T)] = g[Pick(T)]
      BY <3>1
    <3>5. QED BY <3>2, <3>3, <3>4
  <2>3. QED BY <2>1, <2>2
<1>2. F \subseteq SUBSET S OBVIOUS
<1>3. SUBSET S = F
  <2> HIDE DEF F
  <2>1. QED BY <1>1, <1>2, SubsetInduction
<1>4. QED BY <1>3

\* One summand changes, the others do not.
LEMMA SumChange ==
  ASSUME NEW S, IsFiniteSet(S), NEW f, NEW g, NEW x \in S,
         \A y \in S : f[y] \in Int /\ g[y] \in Int,
         \A y \in S \ {x} : g[y] = f[y]
  PROVE  SumFunctionOnSet(g, S) = SumFunctionOnSet(f, S) + (g[x] - f[x])
<1>1. IsFiniteSet(S \ {x})
  BY FS_Subset
<1>2. SumFunctionOnSet(f, S \ {x}) = SumFunctionOnSet(g, S \ {x})
  BY <1>1, SumSame
<1>3. SumFunctionOnSet(f, S \ {x}) \in Int
  BY <1>1, SumInt
<1>4. /\ SumFunctionOnSet(f, S) = f[x] + SumFunctionOnSet(f, S \ {x})
      /\ SumFunctionOnSet(g, S) = g[x] + SumFunctionOnSet(g, S \ {x})
  BY SumRemove
<1>5. f[x] \in Int /\ g[x] \in Int
  OBVIOUS
<1>6. QED BY <1>2, <1>3, <1>4, <1>5

\* Sums add up summand by summand.
LEMMA SumPlus ==
  ASSUME NEW S, IsFiniteSet(S), NEW f, NEW g, NEW h,
         \A x \in S : f[x] \in Int /\ g[x] \in Int /\ h[x] = f[x] + g[x]
  PROVE  SumFunctionOnSet(h, S) = SumFunctionOnSet(f, S) + SumFunctionOnSet(g, S)
<1> DEFINE F == {T \in SUBSET S :
              SumFunctionOnSet(h, T) = SumFunctionOnSet(f, T) + SumFunctionOnSet(g, T)}
<1>1. ASSUME NEW T \in SUBSET S, \A U \in SUBSET T : U # T => U \in F
      PROVE  T \in F
  <2>1. CASE T = {}
    BY <2>1, SumEmpty
  <2>2. CASE T # {}
    <3> DEFINE p == Pick(T)
               R == T \ {p}
    <3>1. p \in T
      BY <2>2, PickIn
    <3>2. R \in F
      BY <1>1, <3>1
    <3>3. /\ SumFunctionOnSet(f, T) = f[p] + SumFunctionOnSet(f, R)
          /\ SumFunctionOnSet(g, T) = g[p] + SumFunctionOnSet(g, R)
          /\ SumFunctionOnSet(h, T) = h[p] + SumFunctionOnSet(h, R)
      BY <2>2, SumPick, FS_Subset
    <3>4. f[p] \in Int /\ g[p] \in Int /\ h[p] = f[p] + g[p]
      BY <3>1
    <3>5. SumFunctionOnSet(f, R) \in Int /\ SumFunctionOnSet(g, R) \in Int
      BY SumInt, FS_Subset
    <3> HIDE DEF p, R
    <3>6. QED BY <3>2, <3>3, <3>4, <3>5
  <2>3. QED BY <2>1, <2>2
<1>2. F \subseteq SUBSET S OBVIOUS
<1>3. SUBSET S = F
  <2> HIDE DEF F
  <2>1. QED BY <1>1, <1>2, SubsetInduction
<1>4. QED BY <1>3

LEMMA SumZero ==
  ASSUME NEW S, IsFiniteSet(S), NEW f, \A x \in S : f[x] = 0
  PROVE  SumFunctionOnSet(f, S) = 0
<1>1. SumFunctionOnSet(f, S) = SumFunctionOnSet(f, S) + SumFunctionOnSet(f, S)
  BY SumPlus
<1>2. SumFunctionOnSet(f, S) \in Int
  BY SumInt
<1>3. \A n \in Int : n = n + n => n = 0
  OBVIOUS
<1>4. QED BY <1>1, <1>2, <1>3

\* Summands that are not negative, and summands that grow.
LEMMA SumNat ==
  ASSUME NEW S, IsFiniteSet(S), NEW f, \A x \in S : f[x] \in Nat
  PROVE  SumFunctionOnSet(f, S) \in Nat
<1> DEFINE F == {T \in SUBSET S : SumFunctionOnSet(f, T) \in Nat}
<1>1. ASSUME NEW T \in SUBSET S, \A U \in SUBSET T : U # T => U \in F
      PROVE  T \in F
  <2>1. CASE T = {}
    BY <2>1, SumEmpty
  <2>2. CASE T # {}
    <3>1. Pick(T) \in T
      BY <2>2, PickIn
    <3>2. T \ {Pick(T)} \in F
      BY <1>1, <3>1
    <3>3. SumFunctionOnSet(f, T) = f[Pick(T)] + SumFunctionOnSet(f, T \ {Pick(T)})
      BY <2>2, SumPick, FS_Subset
    <3>4. f[Pick(T)] \in Nat
      BY <3>1
    <3>5. QED BY <3>2, <3>3, <3>4
  <2>3. QED BY <2>1, <2>2
<1>2. F \subseteq SUBSET S OBVIOUS
<1>3. SUBSET S = F
  <2> HIDE DEF F
  <2>1. QED BY <1>1, <1>2, SubsetInduction
<1>4. QED BY <1>3

LEMMA SumGrows ==
  ASSUME NEW S, IsFiniteSet(S), NEW f, NEW g,
         \A x \in S : f[x] \in Int /\ g[x] \in Int /\ f[x] <= g[x]
  PROVE  SumFunctionOnSet(f, S) <= SumFunctionOnSet(g, S)
<1> DEFINE d == [x \in S |-> g[x] - f[x]]
<1>1. \A x \in S : d[x] \in Nat
  OBVIOUS
<1>2. SumFunctionOnSet(d, S) \in Nat
  <2> HIDE DEF d
  <2>1. QED BY <1>1, SumNat
<1>3. \A x \in S : g[x] = f[x] + d[x]
  OBVIOUS
<1>4. SumFunctionOnSet(g, S) = SumFunctionOnSet(f, S) + SumFunctionOnSet(d, S)
  <2> HIDE DEF d
  <2>1. QED BY <1>1, <1>3, SumPlus
<1>5. SumFunctionOnSet(f, S) \in Int
  BY SumInt
<1> HIDE DEF d
<1>6. QED BY <1>2, <1>4, <1>5

\* The sum of a sequence, an item longer and cut in two.
LEMMA SumNext ==
  ASSUME NEW n \in Nat, NEW f, \A i \in 1..(n + 1) : f[i] \in Int
  PROVE  SumFunctionOnSet(f, 1..(n + 1)) = SumFunctionOnSet(f, 1..n) + f[n + 1]
<1>1. 1..(n + 1) = (1..n) \union {n + 1} /\ n + 1 \notin 1..n
  OBVIOUS
<1>2. IsFiniteSet(1..n)
  BY FS_Interval
<1>3. SumFunctionOnSet(f, (1..n) \union {n + 1}) = f[n + 1] + SumFunctionOnSet(f, 1..n)
  BY <1>1, <1>2, SumAdd
<1>4. SumFunctionOnSet(f, 1..n) \in Int /\ f[n + 1] \in Int
  BY <1>2, SumInt
<1>5. SumFunctionOnSet(f, 1..(n + 1)) = f[n + 1] + SumFunctionOnSet(f, 1..n)
  BY <1>1, <1>3
<1>6. QED BY <1>4, <1>5

LEMMA SumLonger ==
  ASSUME NEW n \in Nat, NEW f, NEW g, \A i \in 1..n : f[i] \in Int /\ g[i] = f[i],
         g[n + 1] \in Int
  PROVE  SumFunctionOnSet(g, 1..(n + 1)) = SumFunctionOnSet(f, 1..n) + g[n + 1]
<1>1. \A i \in 1..(n + 1) : g[i] \in Int
  <2>1. \A i \in 1..(n + 1) : i \in 1..n \/ i = n + 1
    OBVIOUS
  <2>2. QED BY <2>1
<1>2. IsFiniteSet(1..n)
  BY FS_Interval
<1>3. SumFunctionOnSet(g, 1..n) = SumFunctionOnSet(f, 1..n)
  BY <1>2, SumSame
<1>4. QED BY <1>1, <1>3, SumNext

\* Two disjoint sets, one beside the other.
LEMMA SumUnion ==
  ASSUME NEW S, IsFiniteSet(S), NEW T, IsFiniteSet(T), S \intersect T = {}, NEW f,
         \A x \in S \union T : f[x] \in Int
  PROVE  SumFunctionOnSet(f, S \union T) = SumFunctionOnSet(f, S) + SumFunctionOnSet(f, T)
<1> DEFINE Adds(U) ==
             SumFunctionOnSet(f, S \union U) = SumFunctionOnSet(f, S) + SumFunctionOnSet(f, U)
           F == {U \in SUBSET T : Adds(U)}
<1>0. SumFunctionOnSet(f, S) \in Int
  BY SumInt
<1>1. ASSUME NEW U \in SUBSET T, \A V \in SUBSET U : V # U => V \in F
      PROVE  U \in F
  <2>1. CASE U = {}
    <3>1. S \union U = S
      BY <2>1
    <3>2. QED BY <1>0, <2>1, <3>1, SumEmpty
  <2>2. CASE U # {}
    <3> DEFINE p == Pick(U)
               V == U \ {p}
    <3>1. p \in U
      BY <2>2, PickIn
    <3>2. V \in F
      BY <1>1, <3>1
    <3>3. SumFunctionOnSet(f, U) = f[p] + SumFunctionOnSet(f, V)
      BY <2>2, SumPick, FS_Subset
    <3>4. IsFiniteSet(V) /\ IsFiniteSet(S \union V)
      BY FS_Subset, FS_Union
    <3>5. p \notin S \union V /\ (S \union V) \union {p} = S \union U
      BY <3>1
    <3>6. SumFunctionOnSet(f, (S \union V) \union {p}) = f[p] + SumFunctionOnSet(f, S \union V)
      <4>1. \A y \in (S \union V) \union {p} : f[y] \in Int
        BY <3>1
      <4> HIDE DEF p, V
      <4>2. QED BY <4>1, <3>4, <3>5, SumAdd
    <3>7. f[p] \in Int /\ SumFunctionOnSet(f, V) \in Int
      BY <3>1, <3>4, SumInt
    <3>8. SumFunctionOnSet(f, S \union U) = f[p] + SumFunctionOnSet(f, S \union V)
      BY <3>5, <3>6
    <3>9. Adds(V)
      BY <3>2
    <3> HIDE DEF p, V
    <3>10. QED BY <1>0, <3>3, <3>7, <3>8, <3>9
  <2>3. QED BY <2>1, <2>2
<1>2. F \subseteq SUBSET T OBVIOUS
<1>3. SUBSET T = F
  <2> HIDE DEF F
  <2>1. QED BY <1>1, <1>2, SubsetInduction
<1>4. QED BY <1>3

\* Summands of zero do not count.
LEMMA SumSparse ==
  ASSUME NEW S, IsFiniteSet(S), NEW T \in SUBSET S, NEW f, \A x \in S : f[x] \in Int,
         \A x \in S \ T : f[x] = 0
  PROVE  SumFunctionOnSet(f, S) = SumFunctionOnSet(f, T)
<1> DEFINE R == S \ T
<1>1. IsFiniteSet(T) /\ IsFiniteSet(R)
  BY FS_Subset
<1>2. T \intersect R = {} /\ S = T \union R
  OBVIOUS
<1>3. \A x \in T \union R : f[x] \in Int
  OBVIOUS
<1>4. SumFunctionOnSet(f, R) = 0
  BY <1>1, SumZero
<1>5. SumFunctionOnSet(f, T) \in Int
  BY <1>1, SumInt
<1> HIDE DEF R
<1>6. SumFunctionOnSet(f, T \union R) = SumFunctionOnSet(f, T) + SumFunctionOnSet(f, R)
  BY <1>1, <1>2, <1>3, SumUnion
<1>7. QED BY <1>2, <1>4, <1>5, <1>6

LEMMA ImageFinite ==
  ASSUME NEW S, IsFiniteSet(S), NEW p
  PROVE  IsFiniteSet({p[x] : x \in S})
<1> DEFINE T == {p[x] : x \in S}
           h == [x \in S |-> p[x]]
<1>1. h \in Surjection(S, T)
  BY DEF Surjection
<1> HIDE DEF T, h
<1>2. IsFiniteSet(T)
  BY <1>1, FS_Surjection
<1>3. QED BY <1>2 DEF T

\* The same summands under other indices.
LEMMA SumImage ==
  ASSUME NEW S, IsFiniteSet(S), NEW p, \A x, y \in S : p[x] = p[y] => x = y,
         NEW f, NEW g, \A x \in S : g[x] = f[p[x]] /\ g[x] \in Int
  PROVE  SumFunctionOnSet(f, {p[x] : x \in S}) = SumFunctionOnSet(g, S)
<1> DEFINE Im(U) == {p[x] : x \in U}
           F == {U \in SUBSET S : SumFunctionOnSet(f, Im(U)) = SumFunctionOnSet(g, U)}
<1>1. ASSUME NEW U \in SUBSET S, \A V \in SUBSET U : V # U => V \in F
      PROVE  U \in F
  <2>1. CASE U = {}
    <3>1. Im(U) = {}
      BY <2>1
    <3>2. QED BY <2>1, <3>1, SumEmpty
  <2>2. CASE U # {}
    <3> DEFINE q == Pick(U)
               V == U \ {q}
    <3>1. q \in U
      BY <2>2, PickIn
    <3>2. V \in F
      BY <1>1, <3>1
    <3>3. SumFunctionOnSet(g, U) = g[q] + SumFunctionOnSet(g, V)
      BY <2>2, SumPick, FS_Subset
    <3>4. p[q] \notin Im(V) /\ Im(V) \union {p[q]} = Im(U)
      BY <3>1
    <3>5. IsFiniteSet(Im(V))
      <4>1. IsFiniteSet(V)
        BY FS_Subset
      <4> DEFINE h == [x \in V |-> p[x]]
      <4>2. h \in Surjection(V, Im(V))
        BY DEF Surjection
      <4> HIDE DEF V
      <4>3. QED BY <4>1, <4>2, FS_Surjection
    <3>6. \A y \in Im(V) \union {p[q]} : f[y] \in Int
      BY <3>1
    <3>7. SumFunctionOnSet(f, Im(V) \union {p[q]}) = f[p[q]] + SumFunctionOnSet(f, Im(V))
      <4> HIDE DEF q, V, Im
      <4>1. QED BY <3>4, <3>5, <3>6, SumAdd
    <3>8. f[p[q]] = g[q]
      BY <3>1
    <3>9. SumFunctionOnSet(f, Im(V)) = SumFunctionOnSet(g, V)
      BY <3>2
    <3>10. SumFunctionOnSet(f, Im(U)) = SumFunctionOnSet(g, U)
      <4> HIDE DEF q, V, Im
      <4>1. QED BY <3>3, <3>4, <3>7, <3>8, <3>9
    <3>11. QED BY <3>10
  <2>3. QED BY <2>1, <2>2
<1>2. F \subseteq SUBSET S OBVIOUS
<1>3. SUBSET S = F
  <2> HIDE DEF F
  <2>1. QED BY <1>1, <1>2, SubsetInduction
<1>4. QED BY <1>3

\* One sequence of summands after the other.
LEMMA SumConcat ==
  ASSUME NEW m \in Nat, NEW n \in Nat, NEW f, NEW g, NEW h,
         \A i \in 1..m : h[i] = f[i] /\ f[i] \in Int,
         \A i \in 1..n : h[m + i] = g[i] /\ g[i] \in Int
  PROVE  SumFunctionOnSet(h, 1..(m + n)) =
           SumFunctionOnSet(f, 1..m) + SumFunctionOnSet(g, 1..n)
<1> DEFINE A == 1..m
           B == (m + 1)..(m + n)
           p == [i \in 1..n |-> m + i]
<1>1. IsFiniteSet(A) /\ IsFiniteSet(1..n) /\ IsFiniteSet(B)
  BY FS_Interval
<1>2. 1..(m + n) = A \union B /\ A \intersect B = {}
  OBVIOUS
<1>3. B = {p[i] : i \in 1..n}
  <2>1. \A i \in 1..n : p[i] \in B
    OBVIOUS
  <2>2. \A j \in B : j - m \in 1..n /\ p[j - m] = j
    OBVIOUS
  <2>3. QED BY <2>1, <2>2
<1>4. \A i, j \in 1..n : p[i] = p[j] => i = j
  OBVIOUS
<1>5. \A i \in 1..n : g[i] = h[p[i]] /\ g[i] \in Int
  OBVIOUS
<1>6. SumFunctionOnSet(h, B) = SumFunctionOnSet(g, 1..n)
  <2> DEFINE N == 1..n
  <2>1. /\ IsFiniteSet(N)
        /\ \A i, j \in N : p[i] = p[j] => i = j
        /\ \A i \in N : g[i] = h[p[i]] /\ g[i] \in Int
    BY <1>1, <1>4, <1>5
  <2> HIDE DEF B, p, N
  <2>2. SumFunctionOnSet(h, {p[i] : i \in N}) = SumFunctionOnSet(g, N)
    BY <2>1, SumImage
  <2>3. B = {p[i] : i \in N}
    BY <1>3 DEF N
  <2>4. SumFunctionOnSet(h, B) = SumFunctionOnSet(g, N)
    BY <2>2, <2>3
  <2>5. QED BY <2>4 DEF N
<1>7. SumFunctionOnSet(h, A) = SumFunctionOnSet(f, A)
  BY <1>1, SumSame
<1>8. \A i \in A \union B : h[i] \in Int
  <2>1. ASSUME NEW j \in B PROVE h[j] \in Int
    <3>1. j - m \in 1..n /\ m + (j - m) = j
      OBVIOUS
    <3>2. QED BY <3>1
  <2>2. \A i \in A : h[i] \in Int
    OBVIOUS
  <2> HIDE DEF A, B
  <2>3. QED BY <2>1, <2>2
<1>9. SumFunctionOnSet(h, A \union B) = SumFunctionOnSet(h, A) + SumFunctionOnSet(h, B)
  <2> HIDE DEF A, B
  <2>1. QED BY <1>1, <1>2, <1>8, SumUnion
<1>10. QED
  <2> HIDE DEF A, B
  <2>1. SumFunctionOnSet(h, 1..(m + n)) =
           SumFunctionOnSet(f, A) + SumFunctionOnSet(g, 1..n)
    BY <1>2, <1>6, <1>7, <1>9
  <2>2. QED BY <2>1 DEF A

-----------------------------------------------------------------------------
(* The members of a finite set of numbers, in order.                       *)

UpTo(S, i) == {j \in S : j <= i}

Ranked(S) == \A n \in 1..Cardinality(S) : \E i \in S : Cardinality(UpTo(S, i)) = n

LEMMA GreatestExists ==
  ASSUME NEW S, IsFiniteSet(S), S \subseteq Int, S # {}
  PROVE  \E m \in S : \A i \in S : i <= m
<1> DEFINE F == {T \in SUBSET S : T # {} => \E m \in T : \A i \in T : i <= m}
<1>1. ASSUME NEW T \in SUBSET S, \A U \in SUBSET T : U # T => U \in F
      PROVE  T \in F
  <2> SUFFICES ASSUME T # {} PROVE \E m \in T : \A i \in T : i <= m
    OBVIOUS
  <2>1. PICK x : x \in T
    OBVIOUS
  <2> DEFINE U == T \ {x}
  <2>2. U \in F
    BY <1>1, <2>1
  <2>3. CASE U = {}
    <3>1. \A i \in T : i = x
      BY <2>3
    <3>2. QED BY <2>1, <3>1
  <2>4. CASE U # {}
    <3>1. PICK m \in U : \A i \in U : i <= m
      BY <2>2, <2>4
    <3>2. m \in Int /\ x \in Int /\ \A i \in T : i \in Int /\ (i = x \/ i \in U)
      BY <2>1, <3>1
    <3>3. CASE x <= m
      BY <3>1, <3>2, <3>3
    <3>4. CASE m <= x
      <4>1. \A i \in T : i <= x
        BY <3>1, <3>2, <3>4
      <4>2. QED BY <2>1, <4>1
    <3>5. QED BY <3>2, <3>3, <3>4
  <2>5. QED BY <2>3, <2>4
<1>2. F \subseteq SUBSET S OBVIOUS
<1>3. SUBSET S = F
  <2> HIDE DEF F
  <2>1. QED BY <1>1, <1>2, SubsetInduction
<1>4. QED BY <1>3

\* No two members have as many up to them.
LEMMA RankInjective ==
  ASSUME NEW S, IsFiniteSet(S), S \subseteq Int, NEW i \in S, NEW j \in S,
         Cardinality(UpTo(S, i)) = Cardinality(UpTo(S, j))
  PROVE  i = j
<1>1. ASSUME NEW a \in S, NEW b \in S, a < b,
             Cardinality(UpTo(S, a)) = Cardinality(UpTo(S, b))
      PROVE  FALSE
  <2>1. \A x \in S : x <= a => x <= b
    BY <1>1
  <2>2. UpTo(S, a) \subseteq UpTo(S, b)
    BY <2>1 DEF UpTo
  <2>3. b <= b /\ ~(b <= a)
    BY <1>1
  <2>4. b \in UpTo(S, b) /\ b \notin UpTo(S, a)
    BY <1>1, <2>3 DEF UpTo
  <2>5. IsFiniteSet(UpTo(S, b))
    <3>1. UpTo(S, b) \subseteq S
      BY DEF UpTo
    <3>2. QED BY <3>1, FS_Subset
  <2>6. UpTo(S, a) = UpTo(S, b)
    BY <1>1, <2>2, <2>5, FS_Subset
  <2>7. QED BY <2>6, <2>4
<1>2. i \in Int /\ j \in Int
  OBVIOUS
<1>3. QED BY <1>1, <1>2

\* A new greatest member leaves the ranks of the others alone.
LEMMA RankAdd ==
  ASSUME NEW S, IsFiniteSet(S), S \subseteq Int, NEW m \in Int, \A i \in S : i < m
  PROVE  /\ IsFiniteSet(S \union {m}) /\ Cardinality(S \union {m}) = Cardinality(S) + 1
         /\ UpTo(S \union {m}, m) = S \union {m}
         /\ \A i \in S : UpTo(S \union {m}, i) = UpTo(S, i)
<1>1. m \notin S
  OBVIOUS
<1>2. IsFiniteSet(S \union {m}) /\ Cardinality(S \union {m}) = Cardinality(S) + 1
  BY <1>1, FS_AddElement
<1>3. UpTo(S \union {m}, m) = S \union {m}
  <2>1. \A i \in S \union {m} : i <= m
    OBVIOUS
  <2>2. QED BY <2>1 DEF UpTo
<1>4. \A i \in S : UpTo(S \union {m}, i) = UpTo(S, i)
  BY DEF UpTo
<1>5. QED BY <1>2, <1>3, <1>4

\* Every rank is taken.
LEMMA AllRanked ==
  ASSUME NEW S, IsFiniteSet(S), S \subseteq Int
  PROVE  Ranked(S)
<1> DEFINE F == {T \in SUBSET S : Ranked(T)}
<1>1. ASSUME NEW T \in SUBSET S, \A U \in SUBSET T : U # T => U \in F
      PROVE  T \in F
  <2>1. IsFiniteSet(T) /\ T \subseteq Int
    BY FS_Subset
  <2>2. CASE T = {}
    <3>1. Cardinality(T) = 0
      BY <2>2, FS_EmptySet
    <3>2. QED BY <3>1 DEF Ranked
  <2>3. CASE T # {}
    <3>1. PICK m \in T : \A i \in T : i <= m
      BY <2>1, <2>3, GreatestExists
    <3> DEFINE U == T \ {m}
    <3>2. U \in F /\ IsFiniteSet(U)
      BY <1>1, <2>1, FS_Subset
    <3>3. U \subseteq Int /\ m \in Int /\ (\A i \in U : i < m) /\ T = U \union {m}
      BY <2>1, <3>1
    <3>4. Ranked(U)
      BY <3>2
    <3>5. Cardinality(U) \in Nat
      BY <3>2, FS_CardinalityType
    <3> HIDE DEF U
    <3>6. /\ Cardinality(T) = Cardinality(U) + 1 /\ UpTo(T, m) = T
          /\ \A i \in U : UpTo(T, i) = UpTo(U, i)
      BY <3>2, <3>3, RankAdd
    <3>7. ASSUME NEW n \in 1..Cardinality(T) PROVE \E i \in T : Cardinality(UpTo(T, i)) = n
      <4>1. CASE n = Cardinality(T)
        BY <3>1, <3>6, <4>1
      <4>2. CASE n # Cardinality(T)
        <5>1. n \in 1..Cardinality(U)
          BY <3>5, <3>6, <4>2
        <5>2. PICK i \in U : Cardinality(UpTo(U, i)) = n
          BY <3>4, <5>1 DEF Ranked
        <5>3. i \in T /\ Cardinality(UpTo(T, i)) = n
          BY <3>3, <3>6, <5>2
        <5>4. QED BY <5>3
      <4>3. QED BY <4>1, <4>2
    <3>8. QED BY <3>7 DEF Ranked
  <2>4. QED BY <2>2, <2>3
<1>2. F \subseteq SUBSET S OBVIOUS
<1>3. SUBSET S = F
  <2> HIDE DEF F
  <2>1. QED BY <1>1, <1>2, SubsetInduction
<1>4. QED BY <1>3
=============================================================================
