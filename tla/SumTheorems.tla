---------------------------- MODULE SumTheorems ----------------------------
(***************************************************************************)
(* Lemmas about SumFunctionOnSet, the sum of the values of a function over *)
(* a finite set, which the proofs about money and about signatures need.   *)
(*                                                                         *)
(* The sum is a fold, which picks the elements one after the other.        *)
(* Induction is over the subsets of a finite set, which are well-founded;  *)
(* "it holds of T" is written T \in G, for the set G of the subsets of     *)
(* which it holds.                                                         *)
(***************************************************************************)
EXTENDS Integers, FiniteSets, Functions, FiniteSetTheorems, WellFoundedInduction, TLAPS

Pick(T) == CHOOSE x \in T : TRUE
PickStep(g, f, T) == IF T = {} THEN 0 ELSE f[Pick(T)] + g[T \ {Pick(T)}]
Iterated(f, S) == CHOOSE g : g = [T \in SUBSET S |-> PickStep(g, f, T)]

LEMMA SumIsIterated == \A f, S : SumFunctionOnSet(f, S) = Iterated(f, S)[S]
BY DEF SumFunctionOnSet, FoldFunctionOnSet, MapThenFoldSet, Iterated, PickStep, Pick

LEMMA SetInduction ==
  ASSUME NEW S, IsFiniteSet(S), NEW G, {} \in G,
         \A T \in SUBSET S, x \in S : T \in G /\ x \notin T => T \cup {x} \in G
  PROVE  S \in G
<1> SUFFICES ASSUME S \notin G PROVE FALSE
  OBVIOUS
<1> DEFINE Bad == {T \in FiniteSubsetsOf(S) : T \notin G}
<1>1. Bad \subseteq FiniteSubsetsOf(S) /\ Bad # {}
  BY DEF FiniteSubsetsOf
<1>2. PICK T \in Bad : \A U \in Bad : ~(<<U, T>> \in StrictSubsetOrdering(S))
  <2> HIDE DEF Bad
  <2> QED
    BY <1>1, WFMin, FS_StrictSubsetOrderingWellFounded
<1>3. T # {} /\ T \in SUBSET S /\ IsFiniteSet(T) /\ T \notin G
  BY <1>2 DEF FiniteSubsetsOf
<1>4. PICK x \in T : TRUE
  BY <1>3
<1> DEFINE U == T \ {x}
<1>5. IsFiniteSet(U) /\ U \in SUBSET S /\ U \cup {x} = T /\ x \in S /\ x \notin U /\ U # T
  BY <1>3, <1>4, FS_RemoveElement
<1>6. <<U, T>> \in StrictSubsetOrdering(S)
  BY <1>3, <1>5 DEF StrictSubsetOrdering
<1>7. U \in G
  BY <1>2, <1>5, <1>6 DEF FiniteSubsetsOf
<1> QED
  BY <1>3, <1>5, <1>7

LEMMA IteratedDef ==
  ASSUME NEW S, IsFiniteSet(S), NEW f
  PROVE  Iterated(f, S) = [T \in SUBSET S |-> PickStep(Iterated(f, S), f, T)]
<1> DEFINE Upto(U, g) == \A T \in SUBSET S :
             Cardinality(T) <= Cardinality(U) => g[T] = PickStep(g, f, T)
           G == {U \in SUBSET S : \E g : Upto(U, g)}
<1>0. \A T \in SUBSET S : /\ IsFiniteSet(T) /\ Cardinality(T) \in Nat
                          /\ T # {} => /\ Pick(T) \in T
                                       /\ Cardinality(T \ {Pick(T)}) = Cardinality(T) - 1
  <2> SUFFICES ASSUME NEW T \in SUBSET S
               PROVE  /\ IsFiniteSet(T) /\ Cardinality(T) \in Nat
                      /\ T # {} => /\ Pick(T) \in T
                                   /\ Cardinality(T \ {Pick(T)}) = Cardinality(T) - 1
    OBVIOUS
  <2>1. IsFiniteSet(T) /\ Cardinality(T) \in Nat
    BY FS_Subset, FS_CardinalityType
  <2>2. T # {} => Pick(T) \in T
    BY DEF Pick
  <2> QED
    BY <2>1, <2>2, FS_RemoveElement
<1>1. {} \in G
  <2> DEFINE z == [T \in SUBSET S |-> 0]
  <2>1. ASSUME NEW T \in SUBSET S, Cardinality(T) <= Cardinality({})
        PROVE  z[T] = PickStep(z, f, T)
    <3>0. IsFiniteSet(T) /\ Cardinality(T) \in Nat /\ Cardinality({}) = 0
      BY <1>0, FS_EmptySet
    <3>1. Cardinality(T) = 0
      BY <3>0, <2>1
    <3>2. T = {}
      BY <3>0, <3>1, FS_EmptySet
    <3> QED
      BY <3>2 DEF PickStep
  <2>2. Upto({}, z)
    BY <2>1
  <2> HIDE DEF z, Upto
  <2> QED
    BY <2>2
<1>2. ASSUME NEW U \in SUBSET S, NEW x \in S, U \in G, x \notin U PROVE U \cup {x} \in G
  <2>0. Cardinality(U \cup {x}) = Cardinality(U) + 1 /\ Cardinality(U) \in Nat
    BY <1>0, <1>2, FS_AddElement
  <2>1. PICK g : Upto(U, g)
    BY <1>2
  <2> DEFINE h == [T \in SUBSET S |->
                    IF Cardinality(T) <= Cardinality(U) THEN g[T] ELSE PickStep(g, f, T)]
  <2>2. ASSUME NEW T \in SUBSET S, Cardinality(T) <= Cardinality(U \cup {x})
        PROVE  h[T] = PickStep(h, f, T)
    <3>1. h[T] = PickStep(g, f, T)
      BY <2>1
    <3>2. ASSUME T # {} PROVE h[T \ {Pick(T)}] = g[T \ {Pick(T)}]
      <4> DEFINE V == T \ {Pick(T)}
      <4>1. V \in SUBSET S /\ Cardinality(V) = Cardinality(T) - 1 /\ Cardinality(T) \in Nat
        BY <1>0, <3>2
      <4>2. Cardinality(V) <= Cardinality(U)
        BY <2>0, <2>2, <4>1
      <4> HIDE DEF V
      <4>3. h[V] = g[V]
        BY <4>1, <4>2
      <4> QED
        BY <4>3 DEF V
    <3> QED
      BY <3>1, <3>2 DEF PickStep
  <2>3. Upto(U \cup {x}, h)
    BY <2>2
  <2> HIDE DEF h, Upto
  <2> QED
    BY <2>3
<1>3. S \in G
  <2> HIDE DEF G
  <2> QED
    BY <1>1, <1>2, SetInduction
<1>4. PICK g : Upto(S, g)
  BY <1>3
<1> DEFINE h == [T \in SUBSET S |-> g[T]]
<1>5. \A T \in SUBSET S : h[T] = PickStep(h, f, T)
  <2>1. \A T \in SUBSET S : Cardinality(T) <= Cardinality(S)
    BY FS_Subset
  <2> QED
    BY <1>4, <2>1 DEF PickStep
<1>6. h = [T \in SUBSET S |-> PickStep(h, f, T)]
  BY <1>5
<1> HIDE DEF h
<1> QED
  BY <1>6 DEF Iterated

LEMMA IteratedAt ==
  ASSUME NEW S, IsFiniteSet(S), NEW f, NEW T \in SUBSET S
  PROVE  Iterated(f, S)[T] = PickStep(Iterated(f, S), f, T)
<1> DEFINE g == Iterated(f, S)
<1>1. g = [U \in SUBSET S |-> PickStep(g, f, U)]
  BY IteratedDef
<1> HIDE DEF g
<1>2. g[T] = PickStep(g, f, T)
  BY <1>1
<1> QED
  BY <1>2 DEF g

LEMMA StrongSetInduction ==
  ASSUME NEW S, IsFiniteSet(S), NEW G,
         \A T \in SUBSET S : (\A U \in SUBSET T : U # T => U \in G) => T \in G
  PROVE  S \in G
<1> SUFFICES ASSUME S \notin G PROVE FALSE
  OBVIOUS
<1> DEFINE Bad == {T \in FiniteSubsetsOf(S) : T \notin G}
<1>1. Bad \subseteq FiniteSubsetsOf(S) /\ Bad # {}
  BY DEF FiniteSubsetsOf
<1>2. PICK T \in Bad : \A U \in Bad : ~(<<U, T>> \in StrictSubsetOrdering(S))
  <2> HIDE DEF Bad
  <2> QED
    BY <1>1, WFMin, FS_StrictSubsetOrderingWellFounded
<1>3. T \in SUBSET S /\ IsFiniteSet(T) /\ T \notin G
  BY <1>2 DEF FiniteSubsetsOf
<1>4. ASSUME NEW U \in SUBSET T, U # T PROVE U \in G
  <2>1. IsFiniteSet(U) /\ U \in SUBSET S
    BY <1>3, FS_Subset
  <2>2. <<U, T>> \in StrictSubsetOrdering(S)
    BY <1>3, <1>4, <2>1 DEF StrictSubsetOrdering
  <2> QED
    BY <1>2, <2>1, <2>2 DEF FiniteSubsetsOf
<1> QED
  BY <1>3, <1>4

LEMMA IteratedOfSubset ==
  ASSUME NEW S, IsFiniteSet(S), NEW f, NEW T \in SUBSET S
  PROVE  Iterated(f, S)[T] = Iterated(f, T)[T]
<1> DEFINE G == {U \in SUBSET T : Iterated(f, S)[U] = Iterated(f, T)[U]}
<1>0. IsFiniteSet(T)
  BY FS_Subset
<1>1. ASSUME NEW U \in SUBSET T, \A V \in SUBSET U : V # U => V \in G PROVE U \in G
  <2>1. /\ Iterated(f, S)[U] = PickStep(Iterated(f, S), f, U)
        /\ Iterated(f, T)[U] = PickStep(Iterated(f, T), f, U)
    <3>1. U \in SUBSET S
      OBVIOUS
    <3> QED
      BY <1>0, <3>1, IteratedAt
  <2>2. CASE U = {}
    BY <2>1, <2>2 DEF PickStep
  <2>3. CASE U # {}
    <3>1. Pick(U) \in U
      BY <2>3 DEF Pick
    <3>2. U \ {Pick(U)} \in G
      BY <1>1, <3>1
    <3> QED
      BY <2>1, <2>3, <3>2 DEF PickStep
  <2> QED
    BY <2>2, <2>3
<1>2. T \in G
  <2> HIDE DEF G
  <2> QED
    BY <1>0, <1>1, StrongSetInduction
<1> QED
  BY <1>2

LEMMA SumOfNone == \A f : SumFunctionOnSet(f, {}) = 0
<1> SUFFICES ASSUME NEW f PROVE SumFunctionOnSet(f, {}) = 0
  OBVIOUS
<1>1. IsFiniteSet({})
  BY FS_EmptySet
<1>2. Iterated(f, {})[{}] = PickStep(Iterated(f, {}), f, {})
  BY <1>1, IteratedAt
<1> QED
  BY <1>2, SumIsIterated DEF PickStep

LEMMA SumUnfold ==
  ASSUME NEW S, IsFiniteSet(S), S # {}, NEW f
  PROVE  /\ Pick(S) \in S
         /\ SumFunctionOnSet(f, S) = f[Pick(S)] + SumFunctionOnSet(f, S \ {Pick(S)})
<1>1. Pick(S) \in S
  BY DEF Pick
<1>2. Iterated(f, S)[S] = PickStep(Iterated(f, S), f, S)
  BY IteratedAt
<1>3. Iterated(f, S)[S \ {Pick(S)}] = Iterated(f, S \ {Pick(S)})[S \ {Pick(S)}]
  BY IteratedOfSubset
<1> QED
  BY <1>1, <1>2, <1>3, SumIsIterated DEF PickStep

LEMMA PickInduction ==
  ASSUME NEW S, IsFiniteSet(S), NEW G, {} \in G,
         \A T \in SUBSET S : T # {} /\ T \ {Pick(T)} \in G => T \in G
  PROVE  S \in G
<1>1. ASSUME NEW T \in SUBSET S, \A U \in SUBSET T : U # T => U \in G PROVE T \in G
  <2>1. CASE T = {}
    BY <2>1
  <2>2. CASE T # {}
    <3>1. Pick(T) \in T
      BY <2>2 DEF Pick
    <3>2. T \ {Pick(T)} \in G
      BY <1>1, <3>1
    <3> QED
      BY <2>2, <3>2
  <2> QED
    BY <2>1, <2>2
<1> QED
  BY <1>1, StrongSetInduction

LEMMA SumType ==
  ASSUME NEW S, IsFiniteSet(S), NEW f, \A x \in S : f[x] \in Int
  PROVE  SumFunctionOnSet(f, S) \in Int
<1> DEFINE G == {T \in SUBSET S : SumFunctionOnSet(f, T) \in Int}
<1>1. {} \in G
  BY SumOfNone
<1>2. ASSUME NEW T \in SUBSET S, T # {}, T \ {Pick(T)} \in G PROVE T \in G
  <2>1. IsFiniteSet(T)
    BY FS_Subset
  <2>2. /\ Pick(T) \in T
        /\ SumFunctionOnSet(f, T) = f[Pick(T)] + SumFunctionOnSet(f, T \ {Pick(T)})
    BY <1>2, <2>1, SumUnfold
  <2> QED
    BY <1>2, <2>2
<1>3. S \in G
  <2> HIDE DEF G
  <2> QED
    BY <1>1, <1>2, PickInduction
<1> QED
  BY <1>3

LEMMA SumLinear ==
  ASSUME NEW S, IsFiniteSet(S), NEW c \in Int, NEW f, NEW g, NEW h,
         \A x \in S : f[x] \in Int /\ g[x] \in Int /\ h[x] = f[x] + c * g[x]
  PROVE  SumFunctionOnSet(h, S) = SumFunctionOnSet(f, S) + c * SumFunctionOnSet(g, S)
<1> DEFINE s(e, T) == SumFunctionOnSet(e, T)
           G == {T \in SUBSET S : s(h, T) = s(f, T) + c * s(g, T)}
<1>1. {} \in G
  BY SumOfNone
<1>2. ASSUME NEW T \in SUBSET S, T # {}, T \ {Pick(T)} \in G PROVE T \in G
  <2> DEFINE x == Pick(T)
             U == T \ {x}
  <2>1. IsFiniteSet(T) /\ IsFiniteSet(U)
    BY FS_Subset
  <2>2. /\ x \in T /\ x \in S
        /\ s(h, T) = h[x] + s(h, U) /\ s(f, T) = f[x] + s(f, U) /\ s(g, T) = g[x] + s(g, U)
    BY <1>2, <2>1, SumUnfold
  <2>3. f[x] \in Int /\ g[x] \in Int /\ h[x] = f[x] + c * g[x]
    BY <2>2
  <2>4. s(f, U) \in Int /\ s(g, U) \in Int
    BY <2>1, SumType
  <2>5. s(h, U) = s(f, U) + c * s(g, U)
    BY <1>2
  <2>6. ASSUME NEW a \in Int, NEW b \in Int, NEW d \in Int, NEW e \in Int
        PROVE  a + c * b + (d + c * e) = (a + d) + c * (b + e)
    OBVIOUS
  <2>7. f[x] + c * g[x] + (s(f, U) + c * s(g, U)) = (f[x] + s(f, U)) + c * (g[x] + s(g, U))
    <3> HIDE DEF s, U, x
    <3> QED
      BY <2>3, <2>4, <2>6
  <2> QED
    BY <2>2, <2>3, <2>5, <2>7
<1>3. S \in G
  <2> HIDE DEF G
  <2> QED
    BY <1>1, <1>2, PickInduction
<1> QED
  BY <1>3

LEMMA SumScale ==
  ASSUME NEW S, IsFiniteSet(S), NEW c \in Int, NEW f, NEW g,
         \A x \in S : f[x] \in Int /\ g[x] = c * f[x]
  PROVE  SumFunctionOnSet(g, S) = c * SumFunctionOnSet(f, S)
<1> DEFINE zero == [x \in S |-> 0]
           z == SumFunctionOnSet(zero, S)
<1>1. \A x \in S : zero[x] \in Int /\ zero[x] = zero[x] + 1 * zero[x]
                   /\ g[x] = zero[x] + c * f[x]
  OBVIOUS
<1> HIDE DEF zero
<1>2. z \in Int /\ z = z + 1 * z
  BY <1>1, SumType, SumLinear
<1>3. SumFunctionOnSet(g, S) = z + c * SumFunctionOnSet(f, S)
  BY <1>1, SumLinear
<1>4. SumFunctionOnSet(f, S) \in Int
  BY SumType
<1> HIDE DEF z
<1> QED
  BY <1>2, <1>3, <1>4

LEMMA SumAdd ==
  ASSUME NEW S, IsFiniteSet(S), NEW x, x \notin S, NEW f, \A y \in S \cup {x} : f[y] \in Int
  PROVE  SumFunctionOnSet(f, S \cup {x}) = SumFunctionOnSet(f, S) + f[x]
<1> DEFINE s(T) == SumFunctionOnSet(f, T)
           W == S \cup {x}
           G == {T \in SUBSET W : \A y \in W \ T : s(T \cup {y}) = s(T) + f[y]}
<1>0. IsFiniteSet(W)
  BY FS_AddElement
<1>1. \A T \in SUBSET W : IsFiniteSet(T) /\ s(T) \in Int
  BY <1>0, FS_Subset, SumType
<1>2. ASSUME NEW T \in SUBSET W, \A U \in SUBSET T : U # T => U \in G PROVE T \in G
  <2> SUFFICES ASSUME NEW y \in W, y \notin T PROVE s(T \cup {y}) = s(T) + f[y]
    OBVIOUS
  <2> DEFINE V == T \cup {y}
             c == Pick(V)
             U == T \ {c}
  <2>1. V \in SUBSET W /\ V # {}
    OBVIOUS
  <2>2. c \in V /\ s(V) = f[c] + s(V \ {c})
    BY <1>1, <2>1, SumUnfold
  <2>3. CASE c = y
    <3>1. V \ {c} = T
      BY <2>3
    <3> QED
      BY <1>1, <2>2, <2>3, <3>1
  <2>4. CASE c # y
    <3> HIDE DEF c
    <3>0. c \in T
      BY <2>2, <2>4
    <3>1. V \ {c} = U \cup {y} /\ U \cup {c} = T /\ y \in W \ U /\ c \in W \ U
      BY <3>0, <2>4
    <3>5. U \in G
      BY <1>2, <3>0
    <3>2. s(U \cup {y}) = s(U) + f[y] /\ s(T) = s(U) + f[c]
      BY <3>1, <3>5
    <3>3. s(V) = f[c] + s(U \cup {y})
      BY <2>2, <3>1
    <3>4. f[c] \in Int /\ f[y] \in Int /\ s(U) \in Int
      BY <1>1, <3>0, <3>1
    <3> QED
      BY <3>2, <3>3, <3>4
  <2> QED
    BY <2>3, <2>4
<1>3. S \in SUBSET W
  OBVIOUS
<1>4. S \in G
  <2> HIDE DEF G, W
  <2>1. \A T \in SUBSET S : T \in SUBSET W
    BY <1>3
  <2>2. ASSUME NEW T \in SUBSET S, \A U \in SUBSET T : U # T => U \in G PROVE T \in G
    BY <1>2, <2>1, <2>2
  <2> QED
    BY <2>2, StrongSetInduction
<1>5. x \in W \ S
  OBVIOUS
<1> QED
  BY <1>4, <1>5

LEMMA SumNat ==
  ASSUME NEW S, IsFiniteSet(S), NEW f, \A x \in S : f[x] \in Nat
  PROVE  /\ SumFunctionOnSet(f, S) \in Nat
         /\ \A x \in S : f[x] <= SumFunctionOnSet(f, S)
<1> DEFINE s(T) == SumFunctionOnSet(f, T)
           G == {T \in SUBSET S : s(T) \in Nat}
<1>1. {} \in G
  BY SumOfNone
<1>2. ASSUME NEW T \in SUBSET S, T # {}, T \ {Pick(T)} \in G PROVE T \in G
  <2>1. IsFiniteSet(T)
    BY FS_Subset
  <2>2. Pick(T) \in T /\ s(T) = f[Pick(T)] + s(T \ {Pick(T)})
    BY <1>2, <2>1, SumUnfold
  <2> QED
    BY <1>2, <2>2
<1>3. S \in G
  <2> HIDE DEF G
  <2> QED
    BY <1>1, <1>2, PickInduction
<1>4. ASSUME NEW U \in SUBSET S PROVE U \in G
  <2>1. IsFiniteSet(U)
    BY FS_Subset
  <2>2. ASSUME NEW T \in SUBSET U, T # {}, T \ {Pick(T)} \in G PROVE T \in G
    BY <1>2, <2>2
  <2> HIDE DEF G
  <2> QED
    BY <1>1, <2>1, <2>2, PickInduction
<1>5. ASSUME NEW x \in S PROVE f[x] <= s(S)
  <2> DEFINE U == S \ {x}
  <2>1. U \in SUBSET S /\ S = U \cup {x} /\ x \notin U /\ IsFiniteSet(U)
    BY FS_Subset
  <2>2. \A y \in U \cup {x} : f[y] \in Int
    OBVIOUS
  <2> HIDE DEF U
  <2>3. s(U \cup {x}) = s(U) + f[x]
    BY <2>1, <2>2, SumAdd
  <2>4. s(U) \in Nat
    BY <1>4, <2>1
  <2> QED
    BY <2>1, <2>3, <2>4
<1> QED
  BY <1>3, <1>5

LEMMA SumRemove ==
  ASSUME NEW S, IsFiniteSet(S), NEW x \in S, NEW f, \A y \in S : f[y] \in Int
  PROVE  SumFunctionOnSet(f, S) = SumFunctionOnSet(f, S \ {x}) + f[x]
<1> DEFINE U == S \ {x}
<1>1. S = U \cup {x} /\ x \notin U /\ IsFiniteSet(U)
  BY FS_Subset
<1> HIDE DEF U
<1>2. SumFunctionOnSet(f, U \cup {x}) = SumFunctionOnSet(f, U) + f[x]
  BY <1>1, SumAdd
<1> QED
  BY <1>1, <1>2 DEF U

LEMMA SumSame ==
  ASSUME NEW S, IsFiniteSet(S), NEW f, NEW g, \A x \in S : f[x] = g[x]
  PROVE  SumFunctionOnSet(f, S) = SumFunctionOnSet(g, S)
<1> DEFINE G == {T \in SUBSET S : SumFunctionOnSet(f, T) = SumFunctionOnSet(g, T)}
<1>1. {} \in G
  BY SumOfNone
<1>2. ASSUME NEW T \in SUBSET S, T # {}, T \ {Pick(T)} \in G PROVE T \in G
  <2>1. IsFiniteSet(T)
    BY FS_Subset
  <2>2. /\ Pick(T) \in T
        /\ SumFunctionOnSet(f, T) = f[Pick(T)] + SumFunctionOnSet(f, T \ {Pick(T)})
        /\ SumFunctionOnSet(g, T) = g[Pick(T)] + SumFunctionOnSet(g, T \ {Pick(T)})
    BY <1>2, <2>1, SumUnfold
  <2> QED
    BY <1>2, <2>2
<1>3. S \in G
  <2> HIDE DEF G
  <2> QED
    BY <1>1, <1>2, PickInduction
<1> QED
  BY <1>3

\* Two functions that differ at one element.
LEMMA SumChanged ==
  ASSUME NEW S, IsFiniteSet(S), NEW x \in S, NEW f, NEW g,
         \A y \in S : f[y] \in Int /\ g[y] \in Int,
         \A y \in S \ {x} : g[y] = f[y]
  PROVE  SumFunctionOnSet(g, S) = SumFunctionOnSet(f, S) + (g[x] - f[x])
<1>1. IsFiniteSet(S \ {x}) /\ \A y \in S \ {x} : f[y] \in Int
  BY FS_Subset
<1>2. SumFunctionOnSet(f, S) = SumFunctionOnSet(f, S \ {x}) + f[x]
  BY SumRemove
<1>3. SumFunctionOnSet(g, S) = SumFunctionOnSet(g, S \ {x}) + g[x]
  BY SumRemove
<1>4. SumFunctionOnSet(g, S \ {x}) = SumFunctionOnSet(f, S \ {x})
  BY <1>1, SumSame
<1>5. SumFunctionOnSet(f, S \ {x}) \in Int
  BY <1>1, SumType
<1> QED
  BY <1>2, <1>3, <1>4, <1>5

LEMMA ImageFinite ==
  ASSUME NEW S, IsFiniteSet(S), NEW r
  PROVE  IsFiniteSet({r[x] : x \in S})
<1> DEFINE f == [x \in S |-> r[x]]
           Im == {r[x] : x \in S}
<1>1. f \in Surjection(S, Im)
  BY DEF Surjection
<1> HIDE DEF f, Im
<1>2. IsFiniteSet(Im)
  BY <1>1, FS_Surjection
<1> QED
  BY <1>2 DEF Im

\* The elements are renamed, and no two become one.
LEMMA SumRenamed ==
  ASSUME NEW S, IsFiniteSet(S), NEW r, \A x, y \in S : r[x] = r[y] => x = y,
         NEW f, NEW g, \A x \in S : f[x] \in Int /\ g[r[x]] = f[x]
  PROVE  SumFunctionOnSet(g, {r[x] : x \in S}) = SumFunctionOnSet(f, S)
<1> DEFINE Im(U) == {r[x] : x \in U}
           G == {U \in SUBSET S : SumFunctionOnSet(g, Im(U)) = SumFunctionOnSet(f, U)}
<1>1. {} \in G
  <2>1. Im({}) = {}
    OBVIOUS
  <2> QED
    BY <2>1, SumOfNone
<1>2. ASSUME NEW U \in SUBSET S, NEW x \in S, U \in G, x \notin U PROVE U \cup {x} \in G
  <2>1. IsFiniteSet(U)
    BY FS_Subset
  <2>2. IsFiniteSet(Im(U))
    BY <2>1, ImageFinite
  <2>3. Im(U \cup {x}) = Im(U) \cup {r[x]} /\ r[x] \notin Im(U)
    BY <1>2
  <2>4. \A y \in Im(U) \cup {r[x]} : g[y] \in Int
    OBVIOUS
  <2>5. SumFunctionOnSet(f, U \cup {x}) = SumFunctionOnSet(f, U) + f[x]
    BY <1>2, <2>1, SumAdd
  <2>6. SumFunctionOnSet(g, Im(U) \cup {r[x]}) = SumFunctionOnSet(g, Im(U)) + g[r[x]]
    <3> DEFINE V == Im(U)
               y == r[x]
    <3>1. IsFiniteSet(V) /\ y \notin V /\ \A z \in V \cup {y} : g[z] \in Int
      BY <2>2, <2>3, <2>4
    <3> HIDE DEF V, y
    <3>2. SumFunctionOnSet(g, V \cup {y}) = SumFunctionOnSet(g, V) + g[y]
      BY <3>1, SumAdd
    <3> QED
      BY <3>2 DEF V, y
  <2> QED
    BY <1>2, <2>3, <2>5, <2>6
<1>3. S \in G
  <2> HIDE DEF G
  <2> QED
    BY <1>1, <1>2, SetInduction
<1> QED
  BY <1>3

\* The sum over a part of the set, and over the rest of it.
LEMMA SumSplit ==
  ASSUME NEW S, IsFiniteSet(S), NEW T \in SUBSET S, NEW f, \A x \in S : f[x] \in Int
  PROVE  SumFunctionOnSet(f, S) = SumFunctionOnSet(f, T) + SumFunctionOnSet(f, S \ T)
<1> DEFINE s(U) == SumFunctionOnSet(f, U)
           G == {U \in SUBSET T : s(S) = s(U) + s(S \ U)}
<1>0. \A U \in SUBSET S : IsFiniteSet(U) /\ s(U) \in Int
  BY FS_Subset, SumType
<1>1. {} \in G
  <2>1. S \ {} = S
    OBVIOUS
  <2> QED
    BY <1>0, <2>1, SumOfNone
<1>2. ASSUME NEW U \in SUBSET T, NEW x \in T, U \in G, x \notin U PROVE U \cup {x} \in G
  <2> DEFINE R == S \ U
  <2>1. U \in SUBSET S /\ R \in SUBSET S /\ x \in R /\ R \ {x} \in SUBSET S
        /\ S \ (U \cup {x}) = R \ {x} /\ f[x] \in Int
    BY <1>2
  <2>2. s(U \cup {x}) = s(U) + f[x]
    BY <1>0, <1>2, <2>1, SumAdd
  <2>3. s(R) = s(R \ {x}) + f[x]
    <3> HIDE DEF R
    <3> QED
      BY <1>0, <2>1, SumRemove
  <2>4. s(U) \in Int /\ s(R \ {x}) \in Int
    BY <1>0, <2>1
  <2>5. s(S) = s(U) + s(R)
    BY <1>2
  <2>6. s(S) = s(U \cup {x}) + s(R \ {x})
    BY <2>1, <2>2, <2>3, <2>4, <2>5
  <2>7. s(S) = s(U \cup {x}) + s(S \ (U \cup {x}))
    BY <2>1, <2>6
  <2> QED
    BY <2>7
<1>3. T \in G
  <2>1. IsFiniteSet(T)
    BY FS_Subset
  <2> HIDE DEF G
  <2> QED
    BY <1>1, <1>2, <2>1, SetInduction
<1> QED
  BY <1>3
=============================================================================
