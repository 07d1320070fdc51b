------------------------------ MODULE SumProofs ------------------------------
(***************************************************************************)
(* Theorems about sums over finite sets, about the settlement arithmetic   *)
(* that is built from them, and about what a wager or a settlement does to *)
(* a wagers hash and to the wallets, for every wagers hash.                *)
(*                                                                         *)
(* A sum is a fold, that is a function on the subsets of the set defined   *)
(* by recursion.  The induction theorems of the library take the property  *)
(* as an operator; here the property is a set of subsets instead, which    *)
(* follows from its having a minimal element outside (SubsetInduction).    *)
(***************************************************************************)
EXTENDS Store, FiniteSetTheorems, TLAPS

\* What holds of every subset of T if it holds of all the smaller ones, holds
\* of a finite set and each of its subsets.
LEMMA SubsetInduction ==
  ASSUME NEW S, IsFiniteSet(S), NEW G,
         \A T \in SUBSET S : (\A U \in SUBSET T : U # T => U \in G) => T \in G
  PROVE  SUBSET S \subseteq G
<1>. DEFINE Bad == {T \in SUBSET S : T \notin G}
            R == StrictSubsetOrdering(S)
<1>1. SUFFICES ASSUME Bad # {}  PROVE FALSE
  OBVIOUS
<1>2. IsWellFoundedOn(R, FiniteSubsetsOf(S)) /\ FiniteSubsetsOf(S) = SUBSET S
  BY FS_StrictSubsetOrderingWellFounded, FS_FiniteSubsetsOfFinite
<1>3. Bad \subseteq SUBSET S
  OBVIOUS
<1>4. PICK T \in Bad : \A U \in Bad : <<U, T>> \notin R
  <2>. HIDE DEF Bad, R
  <2>. QED
    BY <1>1, <1>2, <1>3, WFMin
<1>5. \A U \in SUBSET T : U # T => U \in G
  BY <1>4 DEF StrictSubsetOrdering
<1>. QED
  BY <1>4, <1>5

-----------------------------------------------------------------------------
(* The recursion behind SumFunctionOnSet *)

\* The element a fold takes first.
First(s) == CHOOSE x \in s : TRUE

\* The equation that defines the fold.
IsSumOf(it, f, S) ==
  it = [s \in SUBSET S |-> IF s = {} THEN 0 ELSE f[First(s)] + it[s \ {First(s)}]]

\* The function that SumFunctionOnSet defines by recursion over SUBSET S.
SumOf(f, S) == CHOOSE it : IsSumOf(it, f, S)

\* A sum is the value of that function at the whole set.
LEMMA SumIsSumOf ==
  ASSUME NEW f, NEW S
  PROVE  SumFunctionOnSet(f, S) = SumOf(f, S)[S]
BY DEF SumFunctionOnSet, FoldFunctionOnSet, MapThenFoldSet, SumOf, IsSumOf, First

\* Taking an element leaves a smaller set.
LEMMA FirstIn ==
  ASSUME NEW S, S # {}
  PROVE  First(S) \in S /\ S \ {First(S)} \in SUBSET S /\ S \ {First(S)} # S
BY DEF First

\* The equation has a solution over a finite set, and it agrees with the sums of the subsets.
LEMMA SumOfExists ==
  ASSUME NEW f, NEW S, IsFiniteSet(S)
  PROVE  /\ IsSumOf(SumOf(f, S), f, S)
         /\ \A s \in SUBSET S : SumOf(f, S)[s] = SumFunctionOnSet(f, s)
<1>. DEFINE G == {T \in SUBSET S : /\ IsSumOf(SumOf(f, T), f, T)
                                   /\ \A s \in SUBSET T : SumOf(f, T)[s] = SumFunctionOnSet(f, s)}
<1>1. ASSUME NEW T \in SUBSET S, \A U \in SUBSET T : U # T => U \in G
      PROVE  T \in G
  <2>. DEFINE g == [s \in SUBSET T |->
                      IF s = {} THEN 0 ELSE f[First(s)] + SumFunctionOnSet(f, s \ {First(s)})]
              h == SumOf(f, T)
  <2>1. ASSUME NEW U \in SUBSET T, U # T
        PROVE  SumFunctionOnSet(f, U) =
                 IF U = {} THEN 0 ELSE f[First(U)] + SumFunctionOnSet(f, U \ {First(U)})
    <3>1. U \in G
      BY <1>1, <2>1
    <3>2. SumFunctionOnSet(f, U) = SumOf(f, U)[U]
      BY SumIsSumOf
    <3>3. SumOf(f, U)[U] = IF U = {} THEN 0 ELSE f[First(U)] + SumOf(f, U)[U \ {First(U)}]
      BY <3>1 DEF IsSumOf
    <3>4. U # {} => SumOf(f, U)[U \ {First(U)}] = SumFunctionOnSet(f, U \ {First(U)})
      BY <3>1, FirstIn
    <3>. QED
      BY <3>2, <3>3, <3>4
  <2>2. IsSumOf(g, f, T)
    <3>1. ASSUME NEW s \in SUBSET T, s # {}
          PROVE  g[s \ {First(s)}] = SumFunctionOnSet(f, s \ {First(s)})
      <4>1. s \ {First(s)} \in SUBSET T /\ s \ {First(s)} # T
        BY <3>1, FirstIn
      <4>. QED
        BY <2>1, <4>1
    <3>2. g = [s \in SUBSET T |-> IF s = {} THEN 0 ELSE f[First(s)] + g[s \ {First(s)}]]
      BY <3>1
    <3>. QED
      BY <3>2 DEF IsSumOf
  <2>3. IsSumOf(h, f, T)
    BY <2>2 DEF SumOf
  <2>4. \A s \in SUBSET T : h[s] = IF s = {} THEN 0 ELSE f[First(s)] + h[s \ {First(s)}]
    BY <2>3 DEF IsSumOf
  <2>. HIDE DEF g, h
  <2>5. \A s \in SUBSET T : h[s] = SumFunctionOnSet(f, s)
    <3>. DEFINE H == {s \in SUBSET T : h[s] = SumFunctionOnSet(f, s)}
    <3>1. ASSUME NEW s \in SUBSET T, \A u \in SUBSET s : u # s => u \in H
          PROVE  s \in H
      <4>1. CASE s = T
        BY <4>1, SumIsSumOf DEF h
      <4>2. CASE s # T
        <5>1. s # {} => h[s \ {First(s)}] = SumFunctionOnSet(f, s \ {First(s)})
          BY <3>1, FirstIn
        <5>. QED
          BY <2>1, <2>4, <4>2, <5>1
      <4>. QED
        BY <4>1, <4>2
    <3>2. IsFiniteSet(T)
      BY FS_Subset
    <3>3. SUBSET T \subseteq H
      <4>. HIDE DEF H
      <4>. QED
        BY <3>1, <3>2, SubsetInduction
    <3>. QED
      BY <3>3
  <2>. QED
    BY <2>3, <2>5 DEF h
<1>2. SUBSET S \subseteq G
  <2>. HIDE DEF G
  <2>. QED
    BY <1>1, SubsetInduction
<1>3. S \in G
  BY <1>2
<1>. QED
  BY <1>3

\* The sum over no elements.
LEMMA SumEmpty ==
  ASSUME NEW f
  PROVE  SumFunctionOnSet(f, {}) = 0
<1>1. IsSumOf(SumOf(f, {}), f, {})
  BY SumOfExists, FS_EmptySet
<1>2. SumOf(f, {})[{}] = 0
  BY <1>1 DEF IsSumOf
<1>. QED
  BY <1>2, SumIsSumOf

\* The sum of a set that is not empty, by the element the fold chooses.
LEMMA SumFirst ==
  ASSUME NEW f, NEW S, IsFiniteSet(S), S # {}
  PROVE  SumFunctionOnSet(f, S) = f[First(S)] + SumFunctionOnSet(f, S \ {First(S)})
<1>1. /\ IsSumOf(SumOf(f, S), f, S)
      /\ \A s \in SUBSET S : SumOf(f, S)[s] = SumFunctionOnSet(f, s)
  BY SumOfExists
<1>2. SumOf(f, S)[S] = f[First(S)] + SumOf(f, S)[S \ {First(S)}]
  BY <1>1 DEF IsSumOf
<1>. QED
  BY <1>1, <1>2, FirstIn

-----------------------------------------------------------------------------
(* Sums of integers over a finite set *)

\* What holds of {} and, if it holds of T without x, of T, holds of a finite set.
LEMMA SumInduction ==
  ASSUME NEW S, IsFiniteSet(S), NEW G, {} \in G,
         \A T \in SUBSET S : \A x \in T : T \ {x} \in G => T \in G
  PROVE  S \in G
<1>1. ASSUME NEW T \in SUBSET S, \A U \in SUBSET T : U # T => U \in G
      PROVE  T \in G
  <2>1. CASE T = {}
    BY <2>1
  <2>2. CASE T # {}
    <3>1. First(T) \in T /\ T \ {First(T)} \in G
      BY <1>1, <2>2, FirstIn
    <3>. QED
      BY <3>1
  <2>. QED
    BY <2>1, <2>2
<1>2. SUBSET S \subseteq G
  BY <1>1, SubsetInduction
<1>. QED
  BY <1>2

\* A sum of integers is an integer.
LEMMA SumInt ==
  ASSUME NEW f, NEW S, IsFiniteSet(S), \A x \in S : f[x] \in Int
  PROVE  SumFunctionOnSet(f, S) \in Int
<1>. DEFINE G == {T \in SUBSET S : SumFunctionOnSet(f, T) \in Int}
<1>1. ASSUME NEW T \in SUBSET S, \A U \in SUBSET T : U # T => U \in G
      PROVE  T \in G
  <2>1. CASE T = {}
    BY <2>1, SumEmpty
  <2>2. CASE T # {}
    <3>1. IsFiniteSet(T)
      BY FS_Subset
    <3>2. SumFunctionOnSet(f, T) = f[First(T)] + SumFunctionOnSet(f, T \ {First(T)})
      BY <2>2, <3>1, SumFirst
    <3>3. SumFunctionOnSet(f, T \ {First(T)}) \in Int /\ First(T) \in S
      BY <1>1, <2>2, FirstIn
    <3>. QED
      BY <3>2, <3>3
  <2>. QED
    BY <2>1, <2>2
<1>2. SUBSET S \subseteq G
  <2>. HIDE DEF G
  <2>. QED
    BY <1>1, SubsetInduction
<1>. QED
  BY <1>2

\* Any element may be taken out first.
LEMMA SumRemove ==
  ASSUME NEW f, NEW S, IsFiniteSet(S), \A x \in S : f[x] \in Int, NEW e \in S
  PROVE  SumFunctionOnSet(f, S) = f[e] + SumFunctionOnSet(f, S \ {e})
<1>. DEFINE G == {T \in SUBSET S : \A x \in T :
                    SumFunctionOnSet(f, T) = f[x] + SumFunctionOnSet(f, T \ {x})}
<1>1. ASSUME NEW T \in SUBSET S, \A U \in SUBSET T : U # T => U \in G
      PROVE  T \in G
  <2>. SUFFICES ASSUME NEW x \in T
                PROVE  SumFunctionOnSet(f, T) = f[x] + SumFunctionOnSet(f, T \ {x})
    OBVIOUS
  <2>. DEFINE c == First(T)
  <2>1. c \in T
    BY FirstIn
  <2>. HIDE DEF c
  <2>2. SumFunctionOnSet(f, T) = f[c] + SumFunctionOnSet(f, T \ {c})
    BY FS_Subset, SumFirst DEF c
  <2>3. CASE x = c
    BY <2>2, <2>3
  <2>4. CASE x # c
    <3>. DEFINE rest == SumFunctionOnSet(f, (T \ {c}) \ {x})
    <3>1. SumFunctionOnSet(f, T \ {c}) = f[x] + rest
      <4>1. T \ {c} \in G /\ x \in T \ {c}
        BY <1>1, <2>1, <2>4
      <4>. QED
        BY <4>1
    <3>2. SumFunctionOnSet(f, T \ {x}) = f[c] + SumFunctionOnSet(f, (T \ {x}) \ {c})
      <4>1. T \ {x} \in G /\ c \in T \ {x}
        BY <1>1, <2>1, <2>4
      <4>. QED
        BY <4>1
    <3>3. (T \ {x}) \ {c} = (T \ {c}) \ {x}
      OBVIOUS
    <3>4. rest \in Int /\ f[x] \in Int /\ f[c] \in Int
      BY <2>1, FS_Subset, SumInt
    <3>. HIDE DEF rest
    <3>5. SumFunctionOnSet(f, T \ {x}) = f[c] + rest
      BY <3>2, <3>3 DEF rest
    <3>. QED
      BY <2>2, <3>1, <3>4, <3>5
  <2>. QED
    BY <2>3, <2>4
<1>2. SUBSET S \subseteq G
  <2>. HIDE DEF G
  <2>. QED
    BY <1>1, SubsetInduction
<1>. QED
  BY <1>2

\* Equal terms, equal sums.
LEMMA SumEq ==
  ASSUME NEW f, NEW g, NEW S, IsFiniteSet(S), \A x \in S : f[x] \in Int /\ f[x] = g[x]
  PROVE  SumFunctionOnSet(f, S) = SumFunctionOnSet(g, S)
<1>. DEFINE G == {T \in SUBSET S : SumFunctionOnSet(f, T) = SumFunctionOnSet(g, T)}
<1>1. {} \in G
  BY SumEmpty
<1>2. ASSUME NEW T \in SUBSET S, NEW x \in T, T \ {x} \in G
      PROVE  T \in G
  <2>1. SumFunctionOnSet(f, T) = f[x] + SumFunctionOnSet(f, T \ {x})
    BY FS_Subset, SumRemove
  <2>2. SumFunctionOnSet(g, T) = g[x] + SumFunctionOnSet(g, T \ {x})
    BY FS_Subset, SumRemove
  <2>. QED
    BY <1>2, <2>1, <2>2
<1>3. S \in G
  <2>. HIDE DEF G
  <2>. QED
    BY <1>1, <1>2, SumInduction
<1>. QED
  BY <1>3

\* Sums add up term by term.
LEMMA SumPlus ==
  ASSUME NEW f, NEW g, NEW h, NEW S, IsFiniteSet(S),
         \A x \in S : f[x] \in Int /\ g[x] \in Int /\ h[x] = f[x] + g[x]
  PROVE  SumFunctionOnSet(h, S) = SumFunctionOnSet(f, S) + SumFunctionOnSet(g, S)
<1>. DEFINE G == {T \in SUBSET S :
                    SumFunctionOnSet(h, T) = SumFunctionOnSet(f, T) + SumFunctionOnSet(g, T)}
<1>1. {} \in G
  BY SumEmpty
<1>2. ASSUME NEW T \in SUBSET S, NEW x \in T, T \ {x} \in G
      PROVE  T \in G
  <2>0. IsFiniteSet(T) /\ IsFiniteSet(T \ {x})
    BY FS_Subset
  <2>1. SumFunctionOnSet(f, T) = f[x] + SumFunctionOnSet(f, T \ {x})
    BY <2>0, SumRemove
  <2>2. SumFunctionOnSet(g, T) = g[x] + SumFunctionOnSet(g, T \ {x})
    BY <2>0, SumRemove
  <2>3. SumFunctionOnSet(h, T) = h[x] + SumFunctionOnSet(h, T \ {x})
    BY <2>0, SumRemove
  <2>4. SumFunctionOnSet(f, T \ {x}) \in Int /\ SumFunctionOnSet(g, T \ {x}) \in Int
    BY <2>0, SumInt
  <2>5. f[x] \in Int /\ g[x] \in Int /\ h[x] = f[x] + g[x]
    OBVIOUS
  <2>. QED
    BY <1>2, <2>1, <2>2, <2>3, <2>4, <2>5
<1>3. S \in G
  <2>. HIDE DEF G
  <2>. QED
    BY <1>1, <1>2, SumInduction
<1>. QED
  BY <1>3

\* A common factor comes out of a sum.
LEMMA SumScale ==
  ASSUME NEW f, NEW h, NEW S, NEW c \in Int, IsFiniteSet(S),
         \A x \in S : f[x] \in Int /\ h[x] = f[x] * c
  PROVE  SumFunctionOnSet(h, S) = SumFunctionOnSet(f, S) * c
<1>. DEFINE G == {T \in SUBSET S : SumFunctionOnSet(h, T) = SumFunctionOnSet(f, T) * c}
<1>1. {} \in G
  BY SumEmpty
<1>2. ASSUME NEW T \in SUBSET S, NEW x \in T, T \ {x} \in G
      PROVE  T \in G
  <2>0. IsFiniteSet(T) /\ IsFiniteSet(T \ {x})
    BY FS_Subset
  <2>1. SumFunctionOnSet(f, T) = f[x] + SumFunctionOnSet(f, T \ {x})
    BY <2>0, SumRemove
  <2>2. SumFunctionOnSet(h, T) = h[x] + SumFunctionOnSet(h, T \ {x})
    BY <2>0, SumRemove
  <2>3. SumFunctionOnSet(f, T \ {x}) \in Int /\ f[x] \in Int
    BY <2>0, SumInt
  <2>4. \A a, b \in Int : (a + b) * c = a * c + b * c
    OBVIOUS
  <2>5. (f[x] + SumFunctionOnSet(f, T \ {x})) * c = f[x] * c + SumFunctionOnSet(f, T \ {x}) * c
    BY <2>3, <2>4
  <2>6. SumFunctionOnSet(h, T \ {x}) = SumFunctionOnSet(f, T \ {x}) * c /\ h[x] = f[x] * c
    BY <1>2
  <2>. QED
    BY <2>1, <2>2, <2>5, <2>6
<1>3. S \in G
  <2>. HIDE DEF G
  <2>. QED
    BY <1>1, <1>2, SumInduction
<1>. QED
  BY <1>3

\* Smaller terms, smaller sum.
LEMMA SumMono ==
  ASSUME NEW f, NEW g, NEW S, IsFiniteSet(S),
         \A x \in S : f[x] \in Int /\ g[x] \in Int /\ f[x] <= g[x]
  PROVE  SumFunctionOnSet(f, S) <= SumFunctionOnSet(g, S)
<1>. DEFINE G == {T \in SUBSET S : SumFunctionOnSet(f, T) <= SumFunctionOnSet(g, T)}
<1>1. {} \in G
  BY SumEmpty
<1>2. ASSUME NEW T \in SUBSET S, NEW x \in T, T \ {x} \in G
      PROVE  T \in G
  <2>0. IsFiniteSet(T) /\ IsFiniteSet(T \ {x})
    BY FS_Subset
  <2>1. SumFunctionOnSet(f, T) = f[x] + SumFunctionOnSet(f, T \ {x})
    BY <2>0, SumRemove
  <2>2. SumFunctionOnSet(g, T) = g[x] + SumFunctionOnSet(g, T \ {x})
    BY <2>0, SumRemove
  <2>3. SumFunctionOnSet(f, T \ {x}) \in Int /\ SumFunctionOnSet(g, T \ {x}) \in Int
    BY <2>0, SumInt
  <2>4. f[x] \in Int /\ g[x] \in Int /\ f[x] <= g[x]
    OBVIOUS
  <2>. QED
    BY <1>2, <2>1, <2>2, <2>3, <2>4
<1>3. S \in G
  <2>. HIDE DEF G
  <2>. QED
    BY <1>1, <1>2, SumInduction
<1>. QED
  BY <1>3

\* Adding the same number for every element multiplies it.
LEMMA SumConst ==
  ASSUME NEW f, NEW S, NEW c \in Int, IsFiniteSet(S), \A x \in S : f[x] = c
  PROVE  /\ Cardinality(S) \in Nat
         /\ SumFunctionOnSet(f, S) = Cardinality(S) * c
<1>. DEFINE G == {T \in SUBSET S : SumFunctionOnSet(f, T) = Cardinality(T) * c}
<1>1. {} \in G
  BY SumEmpty, FS_EmptySet
<1>2. ASSUME NEW T \in SUBSET S, NEW x \in T, T \ {x} \in G
      PROVE  T \in G
  <2>0. IsFiniteSet(T) /\ IsFiniteSet(T \ {x})
    BY FS_Subset
  <2>1. SumFunctionOnSet(f, T) = f[x] + SumFunctionOnSet(f, T \ {x})
    BY <2>0, SumRemove
  <2>2. Cardinality(T) \in Nat /\ Cardinality(T \ {x}) = Cardinality(T) - 1
    BY <2>0, FS_RemoveElement, FS_CardinalityType
  <2>3. \A n \in Int : c + (n - 1) * c = n * c
    OBVIOUS
  <2>4. c + (Cardinality(T) - 1) * c = Cardinality(T) * c
    BY <2>2, <2>3
  <2>. QED
    BY <1>2, <2>1, <2>2, <2>4
<1>3. S \in G
  <2>. HIDE DEF G
  <2>. QED
    BY <1>1, <1>2, SumInduction
<1>. QED
  BY <1>3, FS_CardinalityType

\* A sum of zeros.
LEMMA SumZeros ==
  ASSUME NEW f, NEW S, IsFiniteSet(S), \A x \in S : f[x] = 0
  PROVE  SumFunctionOnSet(f, S) = 0
<1>1. SumFunctionOnSet(f, S) = Cardinality(S) * 0 /\ Cardinality(S) \in Nat
  BY SumConst
<1>. QED
  BY <1>1

\* A sum of natural numbers is one.
LEMMA SumNat ==
  ASSUME NEW f, NEW S, IsFiniteSet(S), \A x \in S : f[x] \in Nat
  PROVE  SumFunctionOnSet(f, S) \in Nat
<1>. DEFINE z == [x \in S |-> 0]
<1>1. SumFunctionOnSet(z, S) = 0
  BY SumZeros
<1>2. SumFunctionOnSet(z, S) <= SumFunctionOnSet(f, S)
  BY SumMono
<1>3. SumFunctionOnSet(f, S) \in Int
  BY SumInt
<1>. QED
  BY <1>1, <1>2, <1>3

\* The sum over two disjoint sets.
LEMMA SumUnion ==
  ASSUME NEW f, NEW A, NEW B, IsFiniteSet(A), IsFiniteSet(B), A \cap B = {},
         \A x \in A \cup B : f[x] \in Int
  PROVE  SumFunctionOnSet(f, A \cup B) = SumFunctionOnSet(f, A) + SumFunctionOnSet(f, B)
<1>. DEFINE G == {T \in SUBSET A : SumFunctionOnSet(f, T \cup B)
                                     = SumFunctionOnSet(f, T) + SumFunctionOnSet(f, B)}
<1>0. SumFunctionOnSet(f, B) \in Int
  BY SumInt
<1>1. {} \in G
  <2>1. {} \cup B = B
    OBVIOUS
  <2>. QED
    BY <1>0, <2>1, SumEmpty
<1>2. ASSUME NEW T \in SUBSET A, NEW x \in T, T \ {x} \in G
      PROVE  T \in G
  <2>0. IsFiniteSet(T) /\ IsFiniteSet(T \ {x}) /\ IsFiniteSet(T \cup B)
    BY FS_Subset, FS_Union
  <2>1. SumFunctionOnSet(f, T) = f[x] + SumFunctionOnSet(f, T \ {x})
    BY <2>0, SumRemove
  <2>2. SumFunctionOnSet(f, T \cup B) = f[x] + SumFunctionOnSet(f, (T \cup B) \ {x})
    BY <2>0, SumRemove
  <2>3. (T \cup B) \ {x} = (T \ {x}) \cup B
    OBVIOUS
  <2>4. SumFunctionOnSet(f, T \ {x}) \in Int /\ f[x] \in Int
    BY <2>0, SumInt
  <2>5. SumFunctionOnSet(f, (T \cup B) \ {x})
          = SumFunctionOnSet(f, T \ {x}) + SumFunctionOnSet(f, B)
    BY <1>2, <2>3
  <2>. QED
    BY <1>0, <2>1, <2>2, <2>4, <2>5
<1>3. A \in G
  <2>. HIDE DEF G
  <2>. QED
    BY <1>1, <1>2, SumInduction
<1>. QED
  BY <1>3

\* Elements that count for nothing may be left out.
LEMMA SumSubset ==
  ASSUME NEW f, NEW S, NEW T \in SUBSET S, IsFiniteSet(S),
         \A x \in S : f[x] \in Int, \A x \in S \ T : f[x] = 0
  PROVE  SumFunctionOnSet(f, S) = SumFunctionOnSet(f, T)
<1>1. IsFiniteSet(T) /\ IsFiniteSet(S \ T)
  BY FS_Subset
<1>2. T \cup (S \ T) = S /\ T \cap (S \ T) = {}
  OBVIOUS
<1>3. SumFunctionOnSet(f, T \cup (S \ T)) = SumFunctionOnSet(f, T) + SumFunctionOnSet(f, S \ T)
  BY <1>1, <1>2, SumUnion
<1>4. SumFunctionOnSet(f, S \ T) = 0
  BY <1>1, SumZeros
<1>5. SumFunctionOnSet(f, T) \in Int
  BY <1>1, SumInt
<1>6. SumFunctionOnSet(f, S) = SumFunctionOnSet(f, T) + 0
  BY <1>2, <1>3, <1>4
<1>. QED
  BY <1>5, <1>6

\* Changing one term changes the sum by as much.
LEMMA SumChange ==
  ASSUME NEW f, NEW g, NEW S, IsFiniteSet(S), NEW e \in S,
         \A x \in S : f[x] \in Int /\ g[x] \in Int,
         \A x \in S \ {e} : g[x] = f[x]
  PROVE  SumFunctionOnSet(g, S) = SumFunctionOnSet(f, S) + (g[e] - f[e])
<1>1. SumFunctionOnSet(f, S) = f[e] + SumFunctionOnSet(f, S \ {e})
  BY SumRemove
<1>2. SumFunctionOnSet(g, S) = g[e] + SumFunctionOnSet(g, S \ {e})
  BY SumRemove
<1>3. SumFunctionOnSet(f, S \ {e}) = SumFunctionOnSet(g, S \ {e})
  BY SumEq, FS_RemoveElement
<1>4. SumFunctionOnSet(f, S \ {e}) \in Int
  BY SumInt, FS_RemoveElement
<1>. QED
  BY <1>1, <1>2, <1>3, <1>4

\* One more term, the others unchanged.
LEMMA SumAdd ==
  ASSUME NEW f, NEW g, NEW S, IsFiniteSet(S), NEW e, e \notin S, g[e] \in Int,
         \A x \in S : f[x] \in Int /\ g[x] = f[x]
  PROVE  SumFunctionOnSet(g, S \cup {e}) = SumFunctionOnSet(f, S) + g[e]
<1>1. IsFiniteSet(S \cup {e}) /\ (S \cup {e}) \ {e} = S
  BY FS_AddElement
<1>2. SumFunctionOnSet(g, S \cup {e}) = g[e] + SumFunctionOnSet(g, (S \cup {e}) \ {e})
  <2>1. \A x \in S \cup {e} : g[x] \in Int
    OBVIOUS
  <2>. QED
    BY <1>1, <2>1, SumRemove
<1>3. SumFunctionOnSet(f, S) = SumFunctionOnSet(g, S) /\ SumFunctionOnSet(f, S) \in Int
  BY SumEq, SumInt
<1>4. SumFunctionOnSet(g, S \cup {e}) = g[e] + SumFunctionOnSet(f, S)
  BY <1>1, <1>2, <1>3
<1>. QED
  BY <1>3, <1>4

\* What p maps to u.
Fibre(S, p, u) == {x \in S : p[x] = u}

\* A sum may be taken fibre by fibre of a function p into a finite set.
LEMMA SumFibres ==
  ASSUME NEW f, NEW S, IsFiniteSet(S), \A x \in S : f[x] \in Int,
         NEW U, IsFiniteSet(U), NEW p, \A x \in S : p[x] \in U,
         NEW g, \A u \in U : g[u] = SumFunctionOnSet(f, Fibre(S, p, u))
  PROVE  SumFunctionOnSet(g, U) = SumFunctionOnSet(f, S)
<1>. USE DEF Fibre
<1>. DEFINE Over(V) == {x \in S : p[x] \in V}
            G == {V \in SUBSET U : SumFunctionOnSet(g, V) = SumFunctionOnSet(f, Over(V))}
<1>1. {} \in G
  <2>1. Over({}) = {}
    OBVIOUS
  <2>. QED
    BY <2>1, SumEmpty
<1>2. ASSUME NEW V \in SUBSET U, NEW u \in V, V \ {u} \in G
      PROVE  V \in G
  <2>. DEFINE Fib == {x \in S : p[x] = u}
  <2>0. IsFiniteSet(V) /\ IsFiniteSet(Fib) /\ IsFiniteSet(Over(V \ {u}))
    BY FS_Subset
  <2>1. \A v \in V : g[v] \in Int
    <3>. SUFFICES ASSUME NEW v \in V PROVE g[v] \in Int
      OBVIOUS
    <3>1. IsFiniteSet({x \in S : p[x] = v})
      BY FS_Subset
    <3>2. SumFunctionOnSet(f, {x \in S : p[x] = v}) \in Int
      BY <3>1, SumInt
    <3>. QED
      BY <3>2
  <2>2. SumFunctionOnSet(g, V) = g[u] + SumFunctionOnSet(g, V \ {u})
    BY <2>0, <2>1, SumRemove
  <2>3. Over(V) = Fib \cup Over(V \ {u}) /\ Fib \cap Over(V \ {u}) = {}
    OBVIOUS
  <2>4. SumFunctionOnSet(f, Fib \cup Over(V \ {u}))
          = SumFunctionOnSet(f, Fib) + SumFunctionOnSet(f, Over(V \ {u}))
    BY <2>0, <2>3, SumUnion
  <2>5. g[u] = SumFunctionOnSet(f, Fib)
    OBVIOUS
  <2>6. SumFunctionOnSet(g, V \ {u}) = SumFunctionOnSet(f, Over(V \ {u}))
    BY <1>2
  <2>. QED
    BY <2>2, <2>3, <2>4, <2>5, <2>6
<1>3. U \in G
  <2>. HIDE DEF G
  <2>. QED
    BY <1>1, <1>2, SumInduction
<1>4. Over(U) = S
  OBVIOUS
<1>. QED
  BY <1>3, <1>4

\* The sum of a function is the sum over its domain.
LEMMA SumDomain ==
  ASSUME NEW f
  PROVE  SumFunction(f) = SumFunctionOnSet(f, DOMAIN f)
BY DEF SumFunction, SumFunctionOnSet, FoldFunction

-----------------------------------------------------------------------------
(* The settlement arithmetic of one round *)

\* Integer division rounds down, by less than one.
LEMMA DivFacts ==
  ASSUME NEW a \in Nat, NEW b \in Nat, b > 0
  PROVE  /\ a \div b \in Nat
         /\ (a \div b) * b <= a
         /\ a <= (a \div b) * b + (b - 1)
OBVIOUS

\* A wagers hash has finitely many fields.
LEMMA FieldsFinite ==
  /\ IsFiniteSet(Fields)
  /\ \A w : IsFiniteSet(Stakes(w))
BY FiniteBoard, FS_Product, FS_Subset DEF Fields, Stakes

\* What is staked on any set of fields.
LEMMA SumStakes ==
  ASSUME NEW w \in Wagers, NEW F \in SUBSET Fields
  PROVE  /\ IsFiniteSet(F)
         /\ SumFunctionOnSet(w, F) \in Nat
         /\ SumFunctionOnSet(w, F) = SumFunctionOnSet(w, F \cap Stakes(w))
<1>1. IsFiniteSet(F)
  BY FieldsFinite, FS_Subset
<1>2. \A x \in F : w[x] \in Nat
  BY DEF Wagers
<1>3. \A x \in F \ (F \cap Stakes(w)) : w[x] = 0
  BY <1>2 DEF Stakes
<1>. QED
  BY <1>1, <1>2, <1>3, SumNat, SumSubset

\* What a round holds; empty fields add nothing.
LEMMA TotalStakedNat ==
  ASSUME NEW w \in Wagers
  PROVE  TotalStaked(w) \in Nat /\ TotalStaked(w) = SumFunctionOnSet(w, Fields)
<1>1. Stakes(w) \in SUBSET Fields /\ Fields \cap Stakes(w) = Stakes(w)
  BY DEF Stakes
<1>. QED
  BY <1>1, SumStakes DEF TotalStaked

\* A refund gives every player back what the player staked, all of it.
LEMMA AggregateSums ==
  ASSUME NEW w \in Wagers
  PROVE  /\ AggregateStakes(w) \in [Users -> Nat]
         /\ SumFunction(AggregateStakes(w)) = TotalStaked(w)
<1>. DEFINE g == AggregateStakes(w)
            p == [f \in Fields |-> f[1]]
<1>1. \A u \in Users : g[u] = SumFunctionOnSet(w, Fibre(Stakes(w), p, u))
  <2>1. \A u : Fibre(Stakes(w), p, u) = StakesOf(w, u)
    BY DEF Stakes, StakesOf, Fibre
  <2>. QED
    BY <2>1 DEF AggregateStakes
<1>2. \A u \in Users : g[u] \in Nat
  <2>1. \A u : Fibre(Stakes(w), p, u) \in SUBSET Fields
    BY DEF Stakes, Fibre
  <2>. QED
    BY <1>1, <2>1, SumStakes
<1>3. DOMAIN g = Users /\ g \in [Users -> Nat]
  BY <1>2 DEF AggregateStakes
<1>4. \A f \in Stakes(w) : w[f] \in Int /\ p[f] \in Users
  BY DEF Wagers, Stakes, Fields
<1>5. SumFunctionOnSet(g, Users) = SumFunctionOnSet(w, Stakes(w))
  <2>. HIDE DEF g, p
  <2>. QED
    BY <1>1, <1>4, FiniteBoard, FieldsFinite, SumFibres
<1>. QED
  BY <1>3, <1>5, SumDomain DEF TotalStaked

\* The stakes on the winning outcome.
WinningStakes(w, win) == {f \in Stakes(w) : f[2] = win}

\* The winning pool is a part of the whole one.
LEMMA WinningPoolNat ==
  ASSUME NEW w \in Wagers, NEW win
  PROVE  /\ WinningStakes(w, win) \in SUBSET Fields
         /\ IsFiniteSet(WinningStakes(w, win))
         /\ WinningPool(w, win) \in Nat
         /\ WinningPool(w, win) = SumFunctionOnSet(w, WinningStakes(w, win))
         /\ WinningPool(w, win) <= TotalStaked(w)
<1>. DEFINE F == WinningStakes(w, win)
<1>1. F \in SUBSET Fields /\ Stakes(w) \ F \in SUBSET Fields
  BY DEF WinningStakes, Stakes
<1>2. IsFiniteSet(F) /\ SumFunctionOnSet(w, F) \in Nat
  BY <1>1, SumStakes
<1>3. WinningPool(w, win) = SumFunctionOnSet(w, F)
  BY DEF WinningPool, WinningStakes
<1>4. IsFiniteSet(Stakes(w) \ F) /\ SumFunctionOnSet(w, Stakes(w) \ F) \in Nat
  BY <1>1, SumStakes
<1>5. F \cup (Stakes(w) \ F) = Stakes(w)
  BY DEF WinningStakes
<1>6. \A x \in F \cup (Stakes(w) \ F) : w[x] \in Int
  BY <1>1 DEF Wagers
<1>7. SumFunctionOnSet(w, F \cup (Stakes(w) \ F))
        = SumFunctionOnSet(w, F) + SumFunctionOnSet(w, Stakes(w) \ F)
  <2>1. F \cap (Stakes(w) \ F) = {}
    OBVIOUS
  <2>. HIDE DEF F
  <2>. QED
    BY <1>2, <1>4, <1>6, <2>1, SumUnion
<1>8. TotalStaked(w) = SumFunctionOnSet(w, F) + SumFunctionOnSet(w, Stakes(w) \ F)
  BY <1>5, <1>7 DEF TotalStaked
<1>. QED
  BY <1>1, <1>2, <1>3, <1>4, <1>8

\* A winning stake's payout is its exact share rounded down.
LEMMA PayoutShare ==
  ASSUME NEW w \in Wagers, NEW win, ~IsRefund(w, win), NEW f \in WinningStakes(w, win)
  PROVE  LET pool  == WinningPool(w, win)
             total == TotalStaked(w)
             paid  == WinnerPayout(w[f], total, pool)
         IN  /\ paid \in Nat
             /\ pool \in Nat \ {0}
             /\ paid * pool <= w[f] * total
             /\ w[f] * total <= paid * pool + (pool - 1)
<1>1. w[f] \in Nat
  BY DEF WinningStakes, Stakes, Wagers
<1>2. TotalStaked(w) \in Nat
  BY TotalStakedNat
<1>3. WinningPool(w, win) \in Nat \ {0}
  BY WinningPoolNat DEF IsRefund
<1>4. w[f] * TotalStaked(w) \in Nat
  BY <1>1, <1>2
<1>. QED
  BY <1>3, <1>4, DivFacts DEF WinnerPayout

\* The stakes that are credited, and with how much.
LEMMA PayoutsNat ==
  ASSUME NEW w \in Wagers, NEW win
  PROVE  /\ DOMAIN Payouts(w, win) = IF IsRefund(w, win) THEN Stakes(w)
                                     ELSE WinningStakes(w, win)
         /\ DOMAIN Payouts(w, win) \in SUBSET Fields
         /\ IsFiniteSet(DOMAIN Payouts(w, win))
         /\ \A f \in DOMAIN Payouts(w, win) : Payouts(w, win)[f] \in Nat
         /\ Paid(w, win) \in Nat
         /\ Paid(w, win) = SumFunctionOnSet(Payouts(w, win), DOMAIN Payouts(w, win))
<1>. DEFINE P == Payouts(w, win)
<1>1. DOMAIN P = IF IsRefund(w, win) THEN Stakes(w) ELSE WinningStakes(w, win)
  BY DEF Payouts, WinningStakes
<1>2. DOMAIN P \in SUBSET Fields /\ IsFiniteSet(DOMAIN P)
  BY <1>1, WinningPoolNat, FieldsFinite DEF Stakes
<1>3. ASSUME NEW f \in DOMAIN P
      PROVE  P[f] \in Nat
  <2>1. CASE IsRefund(w, win)
    BY <1>1, <2>1 DEF Payouts, Stakes, Wagers
  <2>2. CASE ~IsRefund(w, win)
    <3>1. P[f] = WinnerPayout(w[f], TotalStaked(w), WinningPool(w, win))
      BY <1>1, <2>2 DEF Payouts, WinningStakes
    <3>2. f \in WinningStakes(w, win)
      BY <1>1, <2>2
    <3>. QED
      BY <2>2, <3>1, <3>2, PayoutShare
  <2>. QED
    BY <2>1, <2>2
<1>. HIDE DEF P
<1>4. Paid(w, win) = SumFunctionOnSet(P, DOMAIN P)
  BY SumDomain DEF Paid, P
<1>5. SumFunctionOnSet(P, DOMAIN P) \in Nat
  BY <1>2, <1>3, SumNat
<1>. QED
  BY <1>1, <1>2, <1>3, <1>4, <1>5 DEF P

\* The wallets get what is paid, player by player.
LEMMA CreditsSum ==
  ASSUME NEW w \in Wagers, NEW win
  PROVE  /\ Credits(w, win) \in [Users -> Nat]
         /\ SumFunction(Credits(w, win)) = Paid(w, win)
<1>. DEFINE P == Payouts(w, win)
            D == DOMAIN P
            g == Credits(w, win)
            p == [f \in Fields |-> f[1]]
<1>1. D \in SUBSET Fields /\ IsFiniteSet(D) /\ \A f \in D : P[f] \in Nat
  BY PayoutsNat
<1>2. \A u \in Users : g[u] = SumFunctionOnSet(P, Fibre(D, p, u))
  <2>1. \A u : Fibre(D, p, u) = {f \in DOMAIN P : f[1] = u}
    BY <1>1 DEF Fibre
  <2>. QED
    BY <2>1 DEF Credits
<1>3. DOMAIN g = Users /\ g = [u \in Users |-> g[u]]
  BY DEF Credits
<1>4. \A f \in D : P[f] \in Int /\ p[f] \in Users
  BY <1>1 DEF Fields
<1>. HIDE DEF P, D, g, p
<1>5. ASSUME NEW u \in Users
      PROVE  g[u] \in Nat
  <2>1. IsFiniteSet(Fibre(D, p, u)) /\ \A f \in Fibre(D, p, u) : P[f] \in Nat
    BY <1>1, FS_Subset DEF Fibre
  <2>. QED
    BY <1>2, <2>1, SumNat
<1>6. SumFunctionOnSet(g, Users) = SumFunctionOnSet(P, D)
  BY <1>1, <1>2, <1>4, FiniteBoard, SumFibres
<1>7. Paid(w, win) = SumFunctionOnSet(P, D)
  BY PayoutsNat DEF P, D
<1>8. SumFunction(g) = SumFunctionOnSet(g, Users)
  BY <1>3, SumDomain
<1>. QED
  BY <1>3, <1>5, <1>6, <1>7, <1>8 DEF g

\* Nobody backed the winner: all of it is paid back.
LEMMA RefundPaysAll ==
  ASSUME NEW w \in Wagers, NEW win, IsRefund(w, win)
  PROVE  Dust(w, win) = 0
<1>. DEFINE P == Payouts(w, win)
<1>1. DOMAIN P = Stakes(w) /\ \A f \in Stakes(w) : P[f] = w[f] /\ w[f] \in Int
  BY DEF Payouts, Stakes, Wagers
<1>2. SumFunctionOnSet(P, Stakes(w)) = TotalStaked(w)
  <2>. HIDE DEF P
  <2>. QED
    BY <1>1, FieldsFinite, SumEq DEF TotalStaked
<1>3. Paid(w, win) = TotalStaked(w)
  BY <1>1, <1>2, PayoutsNat
<1>. QED
  BY <1>3, TotalStakedNat DEF Dust

\* Otherwise flooring keeps back less than one token per winning stake.
LEMMA DustBound ==
  ASSUME NEW w \in Wagers, NEW win, ~IsRefund(w, win)
  PROVE  /\ Cardinality(WinningStakes(w, win)) \in Nat
         /\ Dust(w, win) \in 0..(Cardinality(WinningStakes(w, win)) - 1)
<1>. DEFINE F == WinningStakes(w, win)
            P == Payouts(w, win)
            T == TotalStaked(w)
            K == WinningPool(w, win)
            N == Cardinality(F)
            a == [f \in F |-> w[f] * T]
            b == [f \in F |-> P[f] * K]
            c == [f \in F |-> K - 1]
            d == [f \in F |-> b[f] + c[f]]
<1>1. IsFiniteSet(F) /\ K \in Nat \ {0} /\ T \in Nat /\ K = SumFunctionOnSet(w, F)
  BY WinningPoolNat, TotalStakedNat DEF IsRefund
<1>2. DOMAIN P = F /\ Paid(w, win) \in Nat /\ Paid(w, win) = SumFunctionOnSet(P, F)
  BY PayoutsNat
<1>3. \A f \in F : /\ w[f] \in Nat /\ P[f] \in Nat
                   /\ P[f] * K <= w[f] * T
                   /\ w[f] * T <= P[f] * K + (K - 1)
  <2>. SUFFICES ASSUME NEW f \in F
                PROVE  /\ w[f] \in Nat /\ P[f] \in Nat
                       /\ P[f] * K <= w[f] * T
                       /\ w[f] * T <= P[f] * K + (K - 1)
    OBVIOUS
  <2>1. P[f] = WinnerPayout(w[f], T, K)
    BY DEF Payouts, WinningStakes
  <2>2. w[f] \in Nat
    BY DEF WinningStakes, Stakes, Wagers
  <2>. QED
    BY <2>1, <2>2, PayoutShare
<1>. HIDE DEF F, P, T, K
<1>4. \A f \in F : /\ a[f] \in Int /\ b[f] \in Int /\ c[f] \in Int /\ d[f] \in Int
                   /\ b[f] <= a[f] /\ a[f] <= d[f]
                   /\ a[f] = w[f] * T /\ b[f] = P[f] * K /\ c[f] = K - 1 /\ d[f] = b[f] + c[f]
  <2>1. \A f \in F : w[f] * T \in Int /\ P[f] * K \in Int
    BY <1>1, <1>3
  <2>. QED
    BY <1>1, <1>3, <2>1
<1>. HIDE DEF a, b, c, d
<1>5. SumFunctionOnSet(a, F) = K * T
  BY <1>1, <1>3, <1>4, SumScale
<1>6. SumFunctionOnSet(b, F) = Paid(w, win) * K
  BY <1>1, <1>2, <1>3, <1>4, SumScale
<1>7. SumFunctionOnSet(c, F) = N * (K - 1) /\ N \in Nat
  <2>1. K - 1 \in Int /\ \A f \in F : c[f] = K - 1
    BY <1>1, <1>4
  <2>. DEFINE k == K - 1
  <2>. HIDE DEF k
  <2>2. k \in Int /\ \A f \in F : c[f] = k
    BY <2>1 DEF k
  <2>3. SumFunctionOnSet(c, F) = Cardinality(F) * k /\ Cardinality(F) \in Nat
    BY <1>1, <2>2, SumConst
  <2>. QED
    BY <2>3 DEF k
<1>8. SumFunctionOnSet(d, F) = SumFunctionOnSet(b, F) + SumFunctionOnSet(c, F)
  BY <1>1, <1>4, SumPlus
<1>9. SumFunctionOnSet(b, F) <= SumFunctionOnSet(a, F)
  BY <1>1, <1>4, SumMono
<1>10. SumFunctionOnSet(a, F) <= SumFunctionOnSet(d, F)
  BY <1>1, <1>4, SumMono
<1>11. Paid(w, win) * K <= K * T /\ K * T <= Paid(w, win) * K + N * (K - 1)
  BY <1>5, <1>6, <1>7, <1>8, <1>9, <1>10
<1>12. N >= 1
  <2>1. F # {}
    BY <1>1, SumEmpty
  <2>. QED
    BY <1>1, <1>7, <2>1, FS_EmptySet
<1>. DEFINE D == T - Paid(w, win)
<1>13. D \in Int /\ K * D >= 0 /\ K * D <= N * (K - 1)
  <2>1. \A x, y, z \in Int : z * (x - y) = z * x - y * z
    OBVIOUS
  <2>2. K * D = K * T - Paid(w, win) * K
    BY <1>1, <1>2, <2>1
  <2>3. K * T \in Int /\ Paid(w, win) * K \in Int /\ N * (K - 1) \in Int
    BY <1>1, <1>2, <1>7
  <2>. QED
    BY <1>1, <1>2, <1>11, <2>2, <2>3
<1>14. D >= 0
  <2>1. \A k \in Nat \ {0}, x \in Int : k * x >= 0 => x >= 0
    OBVIOUS
  <2>. QED
    BY <1>1, <1>13, <2>1
<1>15. D < N
  <2>1. \A k \in Nat \ {0}, n \in Nat \ {0}, x \in Int : x >= n => k * x >= k * n
    OBVIOUS
  <2>2. \A k \in Nat \ {0}, n \in Nat \ {0} : n * (k - 1) < k * n
    OBVIOUS
  <2>3. K \in Nat \ {0} /\ N \in Nat \ {0}
    BY <1>1, <1>7, <1>12
  <2>4. K * N \in Int /\ K * D \in Int /\ N * (K - 1) \in Int
    BY <1>13, <2>3
  <2>. HIDE DEF D
  <2>. QED
    BY <1>13, <2>1, <2>2, <2>3, <2>4
<1>. QED
  BY <1>7, <1>13, <1>14, <1>15 DEF Dust, F, T

\* Players without a stake stake nothing and are credited nothing.
LEMMA OnlyBettorsCount ==
  ASSUME NEW w \in Wagers, NEW win
  PROVE  /\ Bettors(w) \in SUBSET Users
         /\ \A u \in Users \ Bettors(w) : AggregateStakes(w)[u] = 0 /\ Credits(w, win)[u] = 0
<1>1. Bettors(w) \in SUBSET Users
  BY DEF Bettors, Stakes, Fields
<1>2. ASSUME NEW u \in Users \ Bettors(w)
      PROVE  AggregateStakes(w)[u] = 0 /\ Credits(w, win)[u] = 0
  <2>1. StakesOf(w, u) = {}
    BY DEF Bettors, StakesOf
  <2>2. DOMAIN Payouts(w, win) \subseteq Stakes(w)
    BY PayoutsNat DEF WinningStakes
  <2>3. {f \in DOMAIN Payouts(w, win) : f[1] = u} = {}
    BY <2>2 DEF Bettors
  <2>4. AggregateStakes(w)[u] = SumFunctionOnSet(w, {})
    BY <2>1 DEF AggregateStakes
  <2>5. Credits(w, win)[u] = SumFunctionOnSet(Payouts(w, win), {})
    BY <2>3 DEF Credits
  <2>. QED
    BY <2>4, <2>5, SumEmpty
<1>. QED
  BY <1>1, <1>2

\* What the settlement event says was staked is what it says came back.
LEMMA SettlementAddsUp ==
  ASSUME NEW w \in Wagers, NEW win
  PROVE  /\ Dust(w, win) \in Nat
         /\ SumFunction(Credits(w, win)) \in Nat
         /\ SumFunction(Credits(w, win)) + Dust(w, win) = TotalStaked(w)
<1>1. Dust(w, win) \in Nat
  BY RefundPaysAll, DustBound
<1>2. Paid(w, win) \in Nat /\ TotalStaked(w) \in Nat
  BY PayoutsNat, TotalStakedNat
<1>. QED
  BY <1>1, <1>2, CreditsSum DEF Dust

-----------------------------------------------------------------------------
(***************************************************************************)
(* What a wager and a settlement do to the wagers and to the wallets.      *)
(***************************************************************************)

\* The credits and the dust of a settlement that shares out the stakes w.
SharesOut(w, credits, dust) ==
  /\ credits \in [Users -> Nat]
  /\ dust \in Nat
  /\ SumFunction(credits) + dust = TotalStaked(w)
  /\ \A u \in Users \ Bettors(w) : credits[u] = 0

\* settle_round.lua shares out the stakes it is given.
LEMMA SettleSharesOut ==
  ASSUME NEW w \in Wagers, NEW win
  PROVE  SharesOut(w, Credits(w, win), Dust(w, win))
BY CreditsSum, SettlementAddsUp, OnlyBettorsCount DEF SharesOut

\* So does refund_round.lua, leaving no dust.
LEMMA RefundSharesOut ==
  ASSUME NEW w \in Wagers
  PROVE  SharesOut(w, AggregateStakes(w), 0)
BY AggregateSums, TotalStakedNat, OnlyBettorsCount DEF SharesOut

\* A stake adds its player to the bettors.
LEMMA BettorsOfMore ==
  ASSUME NEW w \in Wagers, NEW u \in Users, NEW o \in Outcomes, NEW a \in Nat \ {0}
  PROVE  LET v == [w EXCEPT ![<<u, o>>] = w[<<u, o>>] + a]
         IN  v \in Wagers /\ Bettors(v) = Bettors(w) \cup {u}
<1>. DEFINE v == [w EXCEPT ![<<u, o>>] = w[<<u, o>>] + a]
<1>1. <<u, o>> \in Fields /\ w \in [Fields -> Nat]
  BY DEF Fields, Wagers
<1>2. v \in Wagers /\ v[<<u, o>>] = w[<<u, o>>] + a
      /\ \A f \in Fields : f # <<u, o>> => v[f] = w[f]
  BY <1>1 DEF Wagers
<1>3. v[<<u, o>>] > 0
  BY <1>1, <1>2
<1>. HIDE DEF v
<1>4. Stakes(v) = Stakes(w) \cup {<<u, o>>}
  BY <1>1, <1>2, <1>3 DEF Stakes
<1>5. ASSUME NEW x
      PROVE  x \in Bettors(v) <=> (x \in Bettors(w) \/ x = u)
  <2>. DEFINE e == <<u, o>>
  <2>1. e[1] = u /\ Stakes(v) = Stakes(w) \cup {e}
    BY <1>4
  <2>. HIDE DEF e
  <2>2. x \in Bettors(v) <=> \E f \in Stakes(w) \cup {e} : x = f[1]
    BY <2>1 DEF Bettors
  <2>3. x \in Bettors(w) <=> \E f \in Stakes(w) : x = f[1]
    BY DEF Bettors
  <2>. QED
    BY <2>1, <2>2, <2>3
<1>. QED
  BY <1>2, <1>5 DEF v

\* An empty hash has none.
LEMMA BettorsOfNone == Bettors(NoWagers) = {}
BY DEF Bettors, Stakes, NoWagers

\* One more stake is as much more staked.
LEMMA TotalOfMore ==
  ASSUME NEW w \in Wagers, NEW u \in Users, NEW o \in Outcomes, NEW a \in Nat
  PROVE  LET v == [w EXCEPT ![<<u, o>>] = w[<<u, o>>] + a]
         IN  v \in Wagers /\ TotalStaked(v) = TotalStaked(w) + a
<1>. DEFINE e == <<u, o>>
            v == [w EXCEPT ![e] = w[e] + a]
<1>1. e \in Fields /\ \A f \in Fields : w[f] \in Nat
  BY DEF Fields, Wagers
<1>2. v \in Wagers /\ v[e] = w[e] + a /\ \A f \in Fields \ {e} : v[f] = w[f]
  BY <1>1 DEF Wagers
<1>. HIDE DEF e, v
<1>3. \A f \in Fields : v[f] \in Nat
  BY <1>2 DEF Wagers
<1>4. SumFunctionOnSet(v, Fields) = SumFunctionOnSet(w, Fields) + (v[e] - w[e])
  BY <1>1, <1>2, <1>3, FieldsFinite, SumChange
<1>5. TotalStaked(v) = TotalStaked(w) + a
  BY <1>1, <1>2, <1>4, TotalStakedNat
<1>. QED
  BY <1>2, <1>5 DEF v, e

\* Nothing is staked in an empty hash.
LEMMA TotalOfNone == NoWagers \in Wagers /\ TotalStaked(NoWagers) = 0
<1>1. NoWagers \in Wagers /\ \A f \in Fields : NoWagers[f] = 0
  BY DEF NoWagers, Wagers
<1>2. SumFunctionOnSet(NoWagers, Fields) = 0
  BY <1>1, FieldsFinite, SumZeros
<1>. QED
  BY <1>1, <1>2, TotalStakedNat

\* Only stakers are credited, so that a settlement creates no field of the hash.
LEMMA CreditsAdd ==
  ASSUME NEW hash \in [Users -> Nat \cup {None}], None \notin Nat,
         NEW w, Bettors(w) \subseteq Users, \A u \in Bettors(w) : hash[u] # None,
         NEW credits, NEW dust, SharesOut(w, credits, dust)
  PROVE  /\ HIncrBy(hash, credits) \in [Users -> Nat \cup {None}]
         /\ \A u \in Users : HIncrBy(hash, credits)[u] = None <=> hash[u] = None
         /\ \A u \in Users : hash[u] # None => HIncrBy(hash, credits)[u] = hash[u] + credits[u]
         /\ \A u \in Users : hash[u] = None => credits[u] = 0
<1>. DEFINE h == HIncrBy(hash, credits)
<1>1. credits \in [Users -> Nat] /\ \A u \in Users : hash[u] = None => credits[u] = 0
  BY DEF SharesOut
<1>2. ASSUME NEW u \in Users
      PROVE  /\ hash[u] = None => h[u] = None
             /\ hash[u] # None => h[u] = hash[u] + credits[u] /\ hash[u] \in Nat
  BY <1>1 DEF HIncrBy
<1>3. DOMAIN h = Users /\ h = [u \in Users |-> h[u]]
  BY DEF HIncrBy
<1>. HIDE DEF h
<1>4. \A u \in Users : h[u] \in Nat \cup {None}
  BY <1>1, <1>2
<1>5. \A u \in Users : h[u] = None <=> hash[u] = None
  <2>1. \A u \in Users : hash[u] # None => h[u] \in Nat
    BY <1>1, <1>2
  <2>. QED
    BY <1>2, <2>1
<1>. QED
  BY <1>1, <1>2, <1>3, <1>4, <1>5 DEF h
=============================================================================
