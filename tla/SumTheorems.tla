------------------------------ MODULE SumTheorems ------------------------------
(***************************************************************************)
(* Sums of a function over a finite set, as the models take them of the    *)
(* pieces, cents and balances of many rows: what a sum is, that its order  *)
(* does not matter, and what one row more, less or changed does to it.     *)
(*                                                                         *)
(* A set takes the place of the predicate of an induction, so that the     *)
(* lemmas have no operator for a parameter.                                *)
(***************************************************************************)
EXTENDS Integers, FiniteSetsExt, FiniteSetTheorems, WellFoundedInduction, TLAPS

-----------------------------------------------------------------------------
(* Induction over the subsets of a finite set.                             *)

LEMMA StrongSubsetInduction ==
  ASSUME NEW S, IsFiniteSet(S), NEW P,
         \A T \in SUBSET S : (\A U \in SUBSET T : U # T => U \in P) => T \in P
  PROVE  \A T \in SUBSET S : T \in P
<1> SUFFICES ASSUME NEW W \in SUBSET S, W \notin P
             PROVE  FALSE
  OBVIOUS
<1> DEFINE Rest == {T \in SUBSET S : T \notin P}
<1>1. IsWellFoundedOn(StrictSubsetOrdering(S), SUBSET S)
  <2>1. FiniteSubsetsOf(S) = SUBSET S
    BY FS_FiniteSubsetsOfFinite
  <2>2. IsWellFoundedOn(StrictSubsetOrdering(S), FiniteSubsetsOf(S))
    BY FS_StrictSubsetOrderingWellFounded
  <2>3. QED
    BY <2>1, <2>2
<1>2. Rest \subseteq SUBSET S /\ Rest # {}
  OBVIOUS
<1> HIDE DEF Rest
<1>3. PICK T \in Rest : \A U \in Rest : <<U, T>> \notin StrictSubsetOrdering(S)
  BY <1>1, <1>2, WFMin
<1>4. \A U \in SUBSET T : U # T => U \in P
  BY <1>3 DEF Rest, StrictSubsetOrdering
<1>5. QED
  BY <1>3, <1>4 DEF Rest

\* What holds of the empty set, and of a set when it does of it less one
\* element, holds of every finite set.
LEMMA SubsetInduction ==
  ASSUME NEW S, IsFiniteSet(S), NEW P, {} \in P,
         \A T \in SUBSET S : T # {} => \E x \in T : T \ {x} \in P => T \in P
  PROVE  S \in P
<1>1. ASSUME NEW T \in SUBSET S, \A U \in SUBSET T : U # T => U \in P
      PROVE  T \in P
  <2>1. CASE T = {}
    BY <2>1
  <2>2. CASE T # {}
    <3>1. PICK x \in T : T \ {x} \in P => T \in P
      BY <2>2
    <3>2. T \ {x} \in SUBSET T /\ T \ {x} # T
      OBVIOUS
    <3>3. QED
      BY <1>1, <3>1, <3>2
  <2>3. QED
    BY <2>1, <2>2
<1>2. \A T \in SUBSET S : T \in P
  BY <1>1, StrongSubsetInduction
<1>3. QED
  BY <1>2

-----------------------------------------------------------------------------
(* The sums of all subsets exist, one way only.                            *)

Element(s) == CHOOSE x \in s : TRUE
Next1(g, F, s) == IF s = {} THEN 0 ELSE F[Element(s)] + g[s \ {Element(s)}]
IsSums(g, F, S) == g = [s \in SUBSET S |-> Next1(g, F, s)]

LEMMA ElementIn == ASSUME NEW s, s # {} PROVE Element(s) \in s
  BY DEF Element

LEMMA SumsAreUnique ==
  ASSUME NEW F, NEW S, IsFiniteSet(S), NEW T \in SUBSET S,
         NEW g, IsSums(g, F, S), NEW h, IsSums(h, F, T)
  PROVE  g[T] = h[T]
<1> DEFINE P == {U \in SUBSET T : g[U] = h[U]}
<1>1. IsFiniteSet(T)
  BY FS_Subset
<1>2. ASSUME NEW U \in SUBSET T, \A V \in SUBSET U : V # U => V \in P
      PROVE  U \in P
  <2>1. g[U] = Next1(g, F, U) /\ h[U] = Next1(h, F, U)
    BY DEF IsSums
  <2>2. CASE U = {}
    BY <2>1, <2>2 DEF Next1
  <2>3. CASE U # {}
    <3>1. U \ {Element(U)} \in SUBSET U /\ U \ {Element(U)} # U
      BY <2>3, ElementIn
    <3>2. g[U \ {Element(U)}] = h[U \ {Element(U)}]
      BY <1>2, <3>1
    <3>3. QED
      BY <2>1, <2>3, <3>2 DEF Next1
  <2>4. QED
    BY <2>2, <2>3
<1> HIDE DEF P
<1>3. T \in P
  BY <1>1, <1>2, StrongSubsetInduction
<1>4. QED
  BY <1>3 DEF P

LEMMA SumsExist ==
  ASSUME NEW F, NEW S, IsFiniteSet(S)
  PROVE  \E g : IsSums(g, F, S)
<1> DEFINE P == {T \in SUBSET S : \E g : IsSums(g, F, T)}
           Sums(U) == CHOOSE h : IsSums(h, F, U)
<1>1. ASSUME NEW T \in SUBSET S, \A U \in SUBSET T : U # T => U \in P
      PROVE  T \in P
  <2> DEFINE g == [s \in SUBSET T |-> IF s = {} THEN 0
                   ELSE F[Element(s)] + Sums(s \ {Element(s)})[s \ {Element(s)}]]
  <2>1. \A U \in SUBSET T : U # T => IsSums(Sums(U), F, U)
    BY <1>1
  <2>2. ASSUME NEW U \in SUBSET T, U # T
        PROVE  g[U] = Sums(U)[U]
    <3>1. Sums(U)[U] = Next1(Sums(U), F, U)
      BY <2>1, <2>2 DEF IsSums
    <3>2. CASE U = {}
      BY <3>1, <3>2 DEF Next1
    <3>3. CASE U # {}
      <4> DEFINE V == U \ {Element(U)}
      <4>1. V \in SUBSET U /\ V \in SUBSET T /\ V # T /\ IsFiniteSet(U)
        BY <2>2, <3>3, ElementIn, FS_Subset
      <4>2. IsSums(Sums(U), F, U) /\ IsSums(Sums(V), F, V)
        BY <2>1, <2>2, <4>1
      <4> HIDE DEF Sums
      <4>3. Sums(U)[V] = Sums(V)[V]
        BY <4>1, <4>2, SumsAreUnique
      <4>4. QED
        BY <3>1, <3>3, <4>3 DEF Next1
    <3>4. QED
      BY <3>2, <3>3
  <2>3. ASSUME NEW s \in SUBSET T
        PROVE  g[s] = Next1(g, F, s)
    <3>1. CASE s = {}
      BY <3>1 DEF Next1
    <3>2. CASE s # {}
      <4>1. s \ {Element(s)} \in SUBSET T /\ s \ {Element(s)} # T
        BY <3>2, ElementIn
      <4>2. g[s \ {Element(s)}] = Sums(s \ {Element(s)})[s \ {Element(s)}]
        BY <2>2, <4>1
      <4> HIDE DEF Sums
      <4>3. g[s] = F[Element(s)] + Sums(s \ {Element(s)})[s \ {Element(s)}]
        BY <3>2
      <4> HIDE DEF g
      <4>4. QED
        BY <3>2, <4>2, <4>3 DEF Next1
    <3>3. QED
      BY <3>1, <3>2
  <2>4. IsSums(g, F, T)
    <3>1. g = [s \in SUBSET T |-> g[s]]
      OBVIOUS
    <3> HIDE DEF g
    <3>2. QED
      BY <2>3, <3>1 DEF IsSums
  <2>5. QED
    BY <2>4
<1> HIDE DEF P
<1>2. S \in P
  BY <1>1, StrongSubsetInduction
<1>3. QED
  BY <1>2 DEF P

LEMMA SumIsOfSums ==
  ASSUME NEW F, NEW S, IsFiniteSet(S)
  PROVE  \E g : IsSums(g, F, S) /\ SumFunctionOnSet(F, S) = g[S]
<1> DEFINE g == CHOOSE g : IsSums(g, F, S)
<1>1. IsSums(g, F, S)
  BY SumsExist
<1>2. SumFunctionOnSet(F, S) = g[S]
  BY DEF SumFunctionOnSet, FoldFunctionOnSet, MapThenFoldSet, IsSums, Next1, Element
<1>3. QED
  BY <1>1, <1>2

-----------------------------------------------------------------------------
(* What a sum is.                                                          *)

LEMMA SumEmpty == ASSUME NEW F PROVE SumFunctionOnSet(F, {}) = 0
<1>1. PICK g : IsSums(g, F, {}) /\ SumFunctionOnSet(F, {}) = g[{}]
  BY SumIsOfSums, FS_EmptySet
<1>2. QED
  BY <1>1 DEF IsSums, Next1

LEMMA SumStep ==
  ASSUME NEW F, NEW S, IsFiniteSet(S), S # {}
  PROVE  SumFunctionOnSet(F, S) = F[Element(S)] + SumFunctionOnSet(F, S \ {Element(S)})
<1> DEFINE T == S \ {Element(S)}
<1>1. PICK g : IsSums(g, F, S) /\ SumFunctionOnSet(F, S) = g[S]
  BY SumIsOfSums
<1>2. IsFiniteSet(T) /\ T \in SUBSET S
  BY FS_Subset
<1>3. PICK h : IsSums(h, F, T) /\ SumFunctionOnSet(F, T) = h[T]
  BY <1>2, SumIsOfSums
<1>4. g[T] = h[T]
  BY <1>1, <1>2, <1>3, SumsAreUnique
<1>5. g[S] = F[Element(S)] + g[T]
  BY <1>1 DEF IsSums, Next1
<1>6. QED
  BY <1>1, <1>3, <1>4, <1>5

LEMMA SumIsInt ==
  ASSUME NEW F, NEW S, IsFiniteSet(S), \A x \in S : F[x] \in Int
  PROVE  SumFunctionOnSet(F, S) \in Int
<1> DEFINE P == {T \in SUBSET S : SumFunctionOnSet(F, T) \in Int}
<1>1. {} \in P
  BY SumEmpty
<1>2. ASSUME NEW T \in SUBSET S, T # {}
      PROVE  \E x \in T : T \ {x} \in P => T \in P
  <2>1. Element(T) \in T /\ IsFiniteSet(T)
    BY <1>2, ElementIn, FS_Subset
  <2>2. SumFunctionOnSet(F, T) = F[Element(T)] + SumFunctionOnSet(F, T \ {Element(T)})
    BY <1>2, <2>1, SumStep
  <2>3. QED
    BY <2>1, <2>2
<1> HIDE DEF P
<1>3. S \in P
  BY <1>1, <1>2, SubsetInduction
<1>4. QED
  BY <1>3 DEF P

LEMMA SumIsNat ==
  ASSUME NEW F, NEW S, IsFiniteSet(S), \A x \in S : F[x] \in Nat
  PROVE  SumFunctionOnSet(F, S) \in Nat
<1> DEFINE P == {T \in SUBSET S : SumFunctionOnSet(F, T) \in Nat}
<1>1. {} \in P
  BY SumEmpty
<1>2. ASSUME NEW T \in SUBSET S, T # {}
      PROVE  \E x \in T : T \ {x} \in P => T \in P
  <2>1. Element(T) \in T /\ IsFiniteSet(T)
    BY <1>2, ElementIn, FS_Subset
  <2>2. SumFunctionOnSet(F, T) = F[Element(T)] + SumFunctionOnSet(F, T \ {Element(T)})
    BY <1>2, <2>1, SumStep
  <2>3. F[Element(T)] \in Nat /\ T \ {Element(T)} \in SUBSET S
    BY <2>1
  <2>4. T \ {Element(T)} \in P => T \in P
    BY <2>2, <2>3
  <2>5. QED
    BY <2>1, <2>4
<1> HIDE DEF P
<1>3. S \in P
  BY <1>1, <1>2, SubsetInduction
<1>4. QED
  BY <1>3 DEF P

\* Any element may be the first, whichever the definition chooses.
LEMMA SumRemove ==
  ASSUME NEW F, NEW S, IsFiniteSet(S), \A x \in S : F[x] \in Int, NEW e \in S
  PROVE  SumFunctionOnSet(F, S) = F[e] + SumFunctionOnSet(F, S \ {e})
<1> DEFINE Total(T) == SumFunctionOnSet(F, T)
           P == {T \in SUBSET S : \A x \in T : Total(T) = F[x] + Total(T \ {x})}
<1>1. ASSUME NEW T \in SUBSET S, \A U \in SUBSET T : U # T => U \in P, NEW x \in T
      PROVE  Total(T) = F[x] + Total(T \ {x})
  <2> DEFINE c == Element(T)
  <2>1. c \in T /\ IsFiniteSet(T) /\ Total(T) = F[c] + Total(T \ {c})
    BY ElementIn, FS_Subset, SumStep
  <2>2. CASE c = x
    BY <2>1, <2>2
  <2>3. CASE c # x
    <3>1. T \ {c} \in P /\ T \ {x} \in P
      BY <1>1, <2>1
    <3>2. Total(T \ {c}) = F[x] + Total((T \ {c}) \ {x})
      BY <2>3, <3>1
    <3>3. Total(T \ {x}) = F[c] + Total((T \ {x}) \ {c})
      BY <2>1, <2>3, <3>1
    <3>4. (T \ {c}) \ {x} = (T \ {x}) \ {c}
      OBVIOUS
    <3>5. IsFiniteSet((T \ {c}) \ {x}) /\ \A y \in (T \ {c}) \ {x} : F[y] \in Int
      BY <2>1, FS_Subset
    <3>6. Total((T \ {c}) \ {x}) \in Int /\ F[x] \in Int /\ F[c] \in Int
      BY <2>1, <3>5, SumIsInt
    <3>7. Total((T \ {x}) \ {c}) = Total((T \ {c}) \ {x})
      BY <3>4
    <3> HIDE DEF Total, c
    <3>8. QED
      BY <2>1, <3>2, <3>3, <3>6, <3>7
  <2>4. QED
    BY <2>2, <2>3
<1>2. \A T \in SUBSET S : (\A U \in SUBSET T : U # T => U \in P) => T \in P
  BY <1>1
<1> HIDE DEF P
<1>3. S \in P
  BY <1>2, StrongSubsetInduction
<1>4. QED
  BY <1>3 DEF P

LEMMA SumAdd ==
  ASSUME NEW F, NEW S, IsFiniteSet(S), NEW e, e \notin S, \A x \in S \union {e} : F[x] \in Int
  PROVE  SumFunctionOnSet(F, S \union {e}) = F[e] + SumFunctionOnSet(F, S)
<1>1. IsFiniteSet(S \union {e}) /\ (S \union {e}) \ {e} = S
  BY FS_AddElement
<1>2. QED
  BY <1>1, SumRemove

-----------------------------------------------------------------------------
(* What another function, or another set, makes of a sum.                  *)

LEMMA SumEqual ==
  ASSUME NEW F, NEW G, NEW S, IsFiniteSet(S), \A x \in S : F[x] = G[x]
  PROVE  SumFunctionOnSet(F, S) = SumFunctionOnSet(G, S)
<1> DEFINE P == {T \in SUBSET S : SumFunctionOnSet(F, T) = SumFunctionOnSet(G, T)}
<1>1. {} \in P
  BY SumEmpty
<1>2. ASSUME NEW T \in SUBSET S, T # {}
      PROVE  \E x \in T : T \ {x} \in P => T \in P
  <2>1. Element(T) \in T /\ IsFiniteSet(T)
    BY <1>2, ElementIn, FS_Subset
  <2>2. /\ SumFunctionOnSet(F, T) = F[Element(T)] + SumFunctionOnSet(F, T \ {Element(T)})
        /\ SumFunctionOnSet(G, T) = G[Element(T)] + SumFunctionOnSet(G, T \ {Element(T)})
    BY <1>2, <2>1, SumStep
  <2>3. QED
    BY <2>1, <2>2
<1> HIDE DEF P
<1>3. S \in P
  BY <1>1, <1>2, SubsetInduction
<1>4. QED
  BY <1>3 DEF P

\* One value is another.
LEMMA SumChange ==
  ASSUME NEW F, NEW G, NEW S, IsFiniteSet(S), NEW e \in S,
         \A x \in S : F[x] \in Int, G[e] \in Int,
         \A x \in S \ {e} : G[x] = F[x]
  PROVE  SumFunctionOnSet(G, S) = SumFunctionOnSet(F, S) - F[e] + G[e]
<1>1. IsFiniteSet(S \ {e}) /\ \A x \in S \ {e} : F[x] \in Int
  BY FS_RemoveElement
<1>2. SumFunctionOnSet(F, S \ {e}) = SumFunctionOnSet(G, S \ {e})
  BY <1>1, SumEqual
<1>3. SumFunctionOnSet(F, S \ {e}) \in Int
  BY <1>1, SumIsInt
<1>4. SumFunctionOnSet(F, S) = F[e] + SumFunctionOnSet(F, S \ {e})
  BY SumRemove
<1>5. \A x \in S : G[x] \in Int
  OBVIOUS
<1>6. SumFunctionOnSet(G, S) = G[e] + SumFunctionOnSet(G, S \ {e})
  BY <1>5, SumRemove
<1>7. QED
  BY <1>2, <1>3, <1>4, <1>6

LEMMA SumIsMonotonic ==
  ASSUME NEW F, NEW G, NEW S, IsFiniteSet(S),
         \A x \in S : F[x] \in Int /\ G[x] \in Int /\ F[x] <= G[x]
  PROVE  SumFunctionOnSet(F, S) <= SumFunctionOnSet(G, S)
<1> DEFINE P == {T \in SUBSET S : SumFunctionOnSet(F, T) <= SumFunctionOnSet(G, T)}
<1>1. {} \in P
  BY SumEmpty
<1>2. ASSUME NEW T \in SUBSET S, T # {}
      PROVE  \E x \in T : T \ {x} \in P => T \in P
  <2> DEFINE e == Element(T)
  <2>1. e \in T /\ IsFiniteSet(T) /\ IsFiniteSet(T \ {e})
    BY <1>2, ElementIn, FS_Subset
  <2>2. /\ SumFunctionOnSet(F, T) = F[e] + SumFunctionOnSet(F, T \ {e})
        /\ SumFunctionOnSet(G, T) = G[e] + SumFunctionOnSet(G, T \ {e})
    BY <1>2, <2>1, SumStep
  <2>3. SumFunctionOnSet(F, T \ {e}) \in Int /\ SumFunctionOnSet(G, T \ {e}) \in Int
    BY <2>1, SumIsInt
  <2> HIDE DEF e
  <2>4. F[e] \in Int /\ G[e] \in Int /\ F[e] <= G[e]
    BY <2>1
  <2>5. SumFunctionOnSet(F, T \ {e}) <= SumFunctionOnSet(G, T \ {e})
          => SumFunctionOnSet(F, T) <= SumFunctionOnSet(G, T)
    BY <2>2, <2>3, <2>4
  <2>6. QED
    BY <2>1, <2>5
<1> HIDE DEF P
<1>3. S \in P
  BY <1>1, <1>2, SubsetInduction
<1>4. QED
  BY <1>3 DEF P

LEMMA SumOfUnion ==
  ASSUME NEW F, NEW S, IsFiniteSet(S), NEW R, IsFiniteSet(R), S \intersect R = {},
         \A x \in S \union R : F[x] \in Int
  PROVE  SumFunctionOnSet(F, S \union R) = SumFunctionOnSet(F, S) + SumFunctionOnSet(F, R)
<1> DEFINE Total(T) == SumFunctionOnSet(F, T)
           P == {T \in SUBSET S : Total(T \union R) = Total(T) + Total(R)}
<1>1. {} \in P
  <2>1. Total({}) = 0 /\ {} \union R = R /\ Total(R) \in Int
    BY SumEmpty, SumIsInt
  <2> HIDE DEF Total
  <2>2. QED
    BY <2>1
<1>2. ASSUME NEW T \in SUBSET S, T # {}
      PROVE  \E x \in T : T \ {x} \in P => T \in P
  <2>1. PICK e \in T : TRUE
    BY <1>2
  <2>2. /\ IsFiniteSet(T) /\ IsFiniteSet(T \ {e}) /\ IsFiniteSet(T \union R)
        /\ (T \union R) \ {e} = (T \ {e}) \union R /\ e \in T \union R
        /\ T \ {e} \in SUBSET S
    BY FS_Subset, FS_Union
  <2>3. Total(T \union R) = F[e] + Total((T \ {e}) \union R) /\ Total(T) = F[e] + Total(T \ {e})
    BY <2>2, SumRemove
  <2>4. Total(T \ {e}) \in Int /\ Total(R) \in Int /\ F[e] \in Int
    BY <2>2, SumIsInt
  <2>5. Total((T \ {e}) \union R) = Total(T \ {e}) + Total(R)
          => Total(T \union R) = Total(T) + Total(R)
    <3> HIDE DEF Total
    <3>1. QED
      BY <2>3, <2>4
  <2>6. QED
    BY <2>2, <2>5
<1> HIDE DEF P
<1>3. S \in P
  BY <1>1, <1>2, SubsetInduction
<1>4. QED
  BY <1>3 DEF P

LEMMA SumOfPart ==
  ASSUME NEW F, NEW S, IsFiniteSet(S), NEW T \in SUBSET S, \A x \in S : F[x] \in Nat
  PROVE  /\ SumFunctionOnSet(F, T) <= SumFunctionOnSet(F, S)
         /\ SumFunctionOnSet(F, T) \in Nat /\ SumFunctionOnSet(F, S) \in Nat
<1>1. IsFiniteSet(T) /\ IsFiniteSet(S \ T) /\ T \union (S \ T) = S /\ T \intersect (S \ T) = {}
  BY FS_Subset
<1>2. SumFunctionOnSet(F, T \union (S \ T)) =
        SumFunctionOnSet(F, T) + SumFunctionOnSet(F, S \ T)
  BY <1>1, SumOfUnion
<1>3. /\ SumFunctionOnSet(F, T) \in Nat /\ SumFunctionOnSet(F, S \ T) \in Nat
      /\ SumFunctionOnSet(F, S) \in Nat
  BY <1>1, SumIsNat
<1>4. QED
  BY <1>1, <1>2, <1>3

LEMMA SumOfDifference ==
  ASSUME NEW F, NEW S, IsFiniteSet(S), NEW T \in SUBSET S, \A x \in S : F[x] \in Int
  PROVE  SumFunctionOnSet(F, S \ T) = SumFunctionOnSet(F, S) - SumFunctionOnSet(F, T)
<1>1. /\ IsFiniteSet(T) /\ IsFiniteSet(S \ T)
      /\ T \union (S \ T) = S /\ T \intersect (S \ T) = {}
      /\ \A x \in T : F[x] \in Int
      /\ \A x \in S \ T : F[x] \in Int
  BY FS_Subset
<1>2. SumFunctionOnSet(F, T \union (S \ T)) =
        SumFunctionOnSet(F, T) + SumFunctionOnSet(F, S \ T)
  BY <1>1, SumOfUnion
<1>3. SumFunctionOnSet(F, S) = SumFunctionOnSet(F, T) + SumFunctionOnSet(F, S \ T)
  BY <1>1, <1>2
<1>4. SumFunctionOnSet(F, T) \in Int /\ SumFunctionOnSet(F, S \ T) \in Int
  BY <1>1, SumIsInt
<1>5. QED
  BY <1>3, <1>4

LEMMA SumOfSums ==
  ASSUME NEW F, NEW G, NEW H, NEW S, IsFiniteSet(S),
         \A x \in S : F[x] \in Int /\ G[x] \in Int /\ H[x] = F[x] + G[x]
  PROVE  SumFunctionOnSet(H, S) = SumFunctionOnSet(F, S) + SumFunctionOnSet(G, S)
<1> DEFINE P == {T \in SUBSET S :
                   SumFunctionOnSet(H, T) = SumFunctionOnSet(F, T) + SumFunctionOnSet(G, T)}
<1>1. {} \in P
  BY SumEmpty
<1>2. ASSUME NEW T \in SUBSET S, T # {}
      PROVE  \E x \in T : T \ {x} \in P => T \in P
  <2> DEFINE e == Element(T)
  <2>1. e \in T /\ IsFiniteSet(T) /\ IsFiniteSet(T \ {e})
    BY <1>2, ElementIn, FS_Subset
  <2>2. /\ SumFunctionOnSet(F, T) = F[e] + SumFunctionOnSet(F, T \ {e})
        /\ SumFunctionOnSet(G, T) = G[e] + SumFunctionOnSet(G, T \ {e})
        /\ SumFunctionOnSet(H, T) = H[e] + SumFunctionOnSet(H, T \ {e})
    BY <1>2, <2>1, SumStep
  <2>3. SumFunctionOnSet(F, T \ {e}) \in Int /\ SumFunctionOnSet(G, T \ {e}) \in Int
    BY <2>1, SumIsInt
  <2> HIDE DEF e
  <2>4. F[e] \in Int /\ G[e] \in Int /\ H[e] = F[e] + G[e]
    BY <2>1
  <2>5. SumFunctionOnSet(H, T \ {e}) = SumFunctionOnSet(F, T \ {e}) + SumFunctionOnSet(G, T \ {e})
          => SumFunctionOnSet(H, T) = SumFunctionOnSet(F, T) + SumFunctionOnSet(G, T)
    BY <2>2, <2>3, <2>4
  <2>6. QED
    BY <2>1, <2>5
<1> HIDE DEF P
<1>3. S \in P
  BY <1>1, <1>2, SubsetInduction
<1>4. QED
  BY <1>3 DEF P

LEMMA SumOfZeros ==
  ASSUME NEW F, NEW S, IsFiniteSet(S), \A x \in S : F[x] = 0
  PROVE  SumFunctionOnSet(F, S) = 0
<1> DEFINE P == {T \in SUBSET S : SumFunctionOnSet(F, T) = 0}
<1>1. {} \in P
  BY SumEmpty
<1>2. ASSUME NEW T \in SUBSET S, T # {}
      PROVE  \E x \in T : T \ {x} \in P => T \in P
  <2>1. Element(T) \in T /\ IsFiniteSet(T)
    BY <1>2, ElementIn, FS_Subset
  <2>2. SumFunctionOnSet(F, T) = F[Element(T)] + SumFunctionOnSet(F, T \ {Element(T)})
    BY <1>2, <2>1, SumStep
  <2>3. QED
    BY <2>1, <2>2
<1> HIDE DEF P
<1>3. S \in P
  BY <1>1, <1>2, SubsetInduction
<1>4. QED
  BY <1>3 DEF P

=============================================================================
