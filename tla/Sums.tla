-------------------------------- MODULE Sums --------------------------------
(***************************************************************************)
(* Facts about sums over finite sets, SumFunctionOnSet of the community    *)
(* module Functions.  A finite set is reached by adding its elements one   *)
(* by one, so the proofs go by induction over its subsets; the induction   *)
(* is stated for a set F of subsets, rather than for a predicate, and      *)
(* follows from the well-foundedness of strict inclusion (WFMin,           *)
(* FS_StrictSubsetOrderingWellFounded).                                    *)
(***************************************************************************)
EXTENDS Integers, FiniteSets, Functions, TLAPS, FiniteSetTheorems, WellFoundedInduction

\* Induction over the finite set S, for the set F of the subsets it holds for.
LEMMA SubsetInduction ==
    ASSUME NEW S, IsFiniteSet(S), NEW F,
           \A T \in SUBSET S : (\A U \in SUBSET T : U # T => U \in F) => T \in F
    PROVE  \A T \in SUBSET S : T \in F
<1> DEFINE Bad == {T \in SUBSET S : T \notin F}
<1> SUFFICES ASSUME Bad # {} PROVE FALSE
  OBVIOUS
<1>1. IsWellFoundedOn(StrictSubsetOrdering(S), SUBSET S)
  <2>1. FiniteSubsetsOf(S) = SUBSET S
    BY FS_FiniteSubsetsOfFinite
  <2>2. IsWellFoundedOn(StrictSubsetOrdering(S), FiniteSubsetsOf(S))
    BY FS_StrictSubsetOrderingWellFounded
  <2> QED  BY <2>1, <2>2
<1>2. PICK T \in Bad : \A U \in Bad : <<U, T>> \notin StrictSubsetOrdering(S)
  <2> HIDE DEF Bad
  <2>1. Bad \subseteq SUBSET S
    BY DEF Bad
  <2> QED  BY <1>1, <2>1, WFMin
<1>3. \A U \in SUBSET T : U # T => U \in F
  BY <1>2 DEF StrictSubsetOrdering
<1> QED  BY <1>2, <1>3

\* The recursive function the sum is defined by: it takes out some element first.
Chosen(s) == CHOOSE x \in s : TRUE
SumStep(f, g, s) == IF s = {} THEN 0 ELSE f[Chosen(s)] + g[s \ {Chosen(s)}]
SumsBelow(f, g, S) == g = [s \in SUBSET S |-> SumStep(f, g, s)]

LEMMA SumDef == ASSUME NEW f, NEW S PROVE SumFunctionOnSet(f, S) = (CHOOSE g : SumsBelow(f, g, S))[S]
BY DEF SumFunctionOnSet, FoldFunctionOnSet, MapThenFoldSet, Chosen, SumsBelow, SumStep

\* A solution on subsets of S is one on subsets of a smaller set.
LEMMA SumsAgree ==
    ASSUME NEW f, NEW S, NEW T, NEW R, IsFiniteSet(R), R \subseteq S, R \subseteq T,
           NEW g, NEW h, SumsBelow(f, g, S), SumsBelow(f, h, T)
    PROVE  g[R] = h[R]
<1> DEFINE F == {U \in SUBSET R : g[U] = h[U]}
<1>2. ASSUME NEW U \in SUBSET R, \A V \in SUBSET U : V # U => V \in F
      PROVE  g[U] = h[U]
  <2>1. g[U] = SumStep(f, g, U) /\ h[U] = SumStep(f, h, U)
    BY DEF SumsBelow
  <2>2. CASE U = {}
    BY <2>1, <2>2 DEF SumStep
  <2>3. CASE U # {}
    <3>1. Chosen(U) \in U
      BY <2>3 DEF Chosen
    <3>2. U \ {Chosen(U)} \in F
      BY <1>2, <3>1
    <3> QED  BY <2>1, <2>3, <3>2 DEF SumStep
  <2> QED  BY <2>2, <2>3
<1> HIDE DEF F
<1>3. \A U \in SUBSET R : (\A V \in SUBSET U : V # U => V \in F) => U \in F
  BY <1>2 DEF F
<1>4. R \in F
  BY <1>3, SubsetInduction
<1> QED  BY <1>4 DEF F

LEMMA SumsExist ==
    ASSUME NEW f, NEW S, IsFiniteSet(S)
    PROVE  \E g : SumsBelow(f, g, S)
<1> DEFINE F == {T \in SUBSET S : \E g : SumsBelow(f, g, T)}
<1>1. ASSUME NEW T \in SUBSET S, \A U \in SUBSET T : U # T => U \in F
      PROVE  \E g : SumsBelow(f, g, T)
  <2> DEFINE k == [U \in SUBSET T |-> CHOOSE g : SumsBelow(f, g, U)]
             h == [s \in SUBSET T |->
                     IF s = {} THEN 0 ELSE f[Chosen(s)] + k[s \ {Chosen(s)}][s \ {Chosen(s)}]]
  <2>1. \A U \in SUBSET T : U # T => SumsBelow(f, k[U], U)
    BY <1>1
  <2>2. ASSUME NEW U \in SUBSET T, U # T PROVE h[U] = k[U][U]
    <3>1. SumsBelow(f, k[U], U)
      BY <2>1, <2>2
    <3>2. k[U][U] = SumStep(f, k[U], U)
      BY <3>1 DEF SumsBelow
    <3>3. CASE U = {}
      BY <3>2, <3>3 DEF SumStep
    <3>4. CASE U # {}
      <4> DEFINE V == U \ {Chosen(U)}
      <4>1. Chosen(U) \in U
        BY <3>4 DEF Chosen
      <4>2. V \in SUBSET T /\ V # T /\ V \subseteq U
        BY <4>1
      <4>3. SumsBelow(f, k[V], V)
        BY <2>1, <4>2
      <4>4. IsFiniteSet(U) /\ IsFiniteSet(V)
        BY FS_Subset
      <4> HIDE DEF k, h
      <4>5. k[U][V] = k[V][V]
        <5> HIDE DEF V
        <5> QED  BY <3>1, <4>2, <4>3, <4>4, SumsAgree
      <4>6. h[U] = f[Chosen(U)] + k[V][V]
        BY <3>4 DEF h
      <4> QED  BY <3>2, <3>4, <4>5, <4>6 DEF SumStep
    <3> QED  BY <3>3, <3>4
  <2>3. ASSUME NEW s \in SUBSET T PROVE h[s] = SumStep(f, h, s)
    <3>1. CASE s = {}
      BY <3>1 DEF SumStep
    <3>2. CASE s # {}
      <4>1. Chosen(s) \in s
        BY <3>2 DEF Chosen
      <4>2. s \ {Chosen(s)} \in SUBSET T /\ s \ {Chosen(s)} # T
        BY <4>1
      <4>3. h[s] = f[Chosen(s)] + k[s \ {Chosen(s)}][s \ {Chosen(s)}]
        BY <3>2
      <4> HIDE DEF h, k
      <4> QED  BY <2>2, <3>2, <4>2, <4>3 DEF SumStep
    <3> QED  BY <3>1, <3>2
  <2>4. h = [s \in SUBSET T |-> h[s]]
    OBVIOUS
  <2> HIDE DEF h
  <2>5. h = [s \in SUBSET T |-> SumStep(f, h, s)]
    BY <2>3, <2>4, Zenon
  <2>6. SumsBelow(f, h, T)
    BY <2>5 DEF SumsBelow
  <2> QED  BY <2>6
<1> HIDE DEF F
<1>2. \A T \in SUBSET S : (\A U \in SUBSET T : U # T => U \in F) => T \in F
  BY <1>1 DEF F
<1>3. S \in F
  BY <1>2, SubsetInduction
<1> QED  BY <1>3 DEF F

LEMMA SumSolves ==
    ASSUME NEW f, NEW S, IsFiniteSet(S)
    PROVE  \E g : SumsBelow(f, g, S) /\ SumFunctionOnSet(f, S) = g[S]
<1> DEFINE g == CHOOSE g : SumsBelow(f, g, S)
<1>1. SumsBelow(f, g, S)
  BY SumsExist
<1>2. SumFunctionOnSet(f, S) = g[S]
  BY SumDef
<1> HIDE DEF g
<1> QED  BY <1>1, <1>2

\* The recursion equation of the sum.
LEMMA SumEquation ==
    ASSUME NEW f, NEW S, IsFiniteSet(S)
    PROVE  SumFunctionOnSet(f, S) = IF S = {} THEN 0
                                    ELSE f[Chosen(S)] + SumFunctionOnSet(f, S \ {Chosen(S)})
<1> DEFINE R == S \ {Chosen(S)}
<1>1. IsFiniteSet(R) /\ R \subseteq S
  BY FS_Subset
<1>2. PICK g : SumsBelow(f, g, S) /\ SumFunctionOnSet(f, S) = g[S]
  BY SumSolves
<1> HIDE DEF R
<1>3. PICK h : SumsBelow(f, h, R) /\ SumFunctionOnSet(f, R) = h[R]
  BY <1>1, SumSolves
<1>4. g[R] = h[R]
  BY <1>1, <1>2, <1>3, SumsAgree
<1>5. g[S] = SumStep(f, g, S)
  BY <1>2 DEF SumsBelow
<1> QED  BY <1>2, <1>3, <1>4, <1>5 DEF SumStep, R

\* Sums of numbers are numbers.
LEMMA SumType ==
    ASSUME NEW S, IsFiniteSet(S), NEW f, NEW N \in {Nat, Int}, \A x \in S : f[x] \in N
    PROVE  SumFunctionOnSet(f, S) \in N
<1> DEFINE F == {T \in SUBSET S : SumFunctionOnSet(f, T) \in N}
<1>1. ASSUME NEW T \in SUBSET S, \A U \in SUBSET T : U # T => U \in F
      PROVE  SumFunctionOnSet(f, T) \in N
  <2>1. IsFiniteSet(T)
    BY FS_Subset
  <2>2. CASE T = {}
    <3>1. SumFunctionOnSet(f, T) = 0
      BY <2>1, <2>2, SumEquation
    <3> QED  BY <3>1
  <2>3. CASE T # {}
    <3>1. Chosen(T) \in T
      BY <2>3 DEF Chosen
    <3>2. T \ {Chosen(T)} \in F
      BY <1>1, <3>1
    <3>3. SumFunctionOnSet(f, T) = f[Chosen(T)] + SumFunctionOnSet(f, T \ {Chosen(T)})
      BY <2>1, <2>3, SumEquation
    <3>4. f[Chosen(T)] \in N /\ SumFunctionOnSet(f, T \ {Chosen(T)}) \in N
      BY <3>1, <3>2
    <3>5. \A m, n \in N : m + n \in N
      OBVIOUS
    <3> QED  BY <3>3, <3>4, <3>5
  <2> QED  BY <2>2, <2>3
<1> HIDE DEF F
<1>2. \A T \in SUBSET S : (\A U \in SUBSET T : U # T => U \in F) => T \in F
  BY <1>1 DEF F
<1>3. S \in F
  BY <1>2, SubsetInduction
<1> QED  BY <1>3 DEF F

\* Any element can be taken out first.
LEMMA SumTake ==
    ASSUME NEW S, IsFiniteSet(S), NEW f, \A x \in S : f[x] \in Int, NEW a \in S
    PROVE  SumFunctionOnSet(f, S) = f[a] + SumFunctionOnSet(f, S \ {a})
<1> DEFINE Sum(T) == SumFunctionOnSet(f, T)
           F == {T \in SUBSET S : \A x \in T : Sum(T) = f[x] + Sum(T \ {x})}
<1>1. ASSUME NEW T \in SUBSET S, \A U \in SUBSET T : U # T => U \in F, NEW x \in T
      PROVE  Sum(T) = f[x] + Sum(T \ {x})
  <2> DEFINE p == Chosen(T)
  <2>1. IsFiniteSet(T) /\ p \in T
    BY FS_Subset DEF Chosen
  <2>2. Sum(T) = f[p] + Sum(T \ {p})
    BY <2>1, SumEquation
  <2>3. CASE x = p
    BY <2>2, <2>3
  <2>4. CASE x # p
    <3> DEFINE U == T \ {p}
               V == T \ {x}
               W == T \ {p, x}
    <3>1. /\ U \in F /\ V \in F /\ x \in U /\ p \in V
      BY <1>1, <2>1, <2>4
    <3>2. U \ {x} = W /\ V \ {p} = W /\ W \in SUBSET S
      OBVIOUS
    <3>3. Sum(U) = f[x] + Sum(W) /\ Sum(V) = f[p] + Sum(W)
      BY <3>1, <3>2
    <3>4. Sum(W) \in Int
      BY <3>2, FS_Subset, SumType
    <3>5. f[x] \in Int /\ f[p] \in Int
      BY <2>1
    <3> HIDE DEF Sum, U, V, W, p
    <3>6. Sum(T) = f[p] + Sum(U)
      BY <2>2 DEF U
    <3>7. Sum(T) = f[x] + Sum(V)
      BY <3>3, <3>4, <3>5, <3>6
    <3> QED  BY <3>7 DEF V
  <2> QED  BY <2>3, <2>4
<1> HIDE DEF F
<1>2. \A T \in SUBSET S : (\A U \in SUBSET T : U # T => U \in F) => T \in F
  BY <1>1 DEF F
<1>3. S \in F
  BY <1>2, SubsetInduction
<1> QED  BY <1>3 DEF F

\* Sums over the empty set.
LEMMA SumEmpty == ASSUME NEW f PROVE SumFunctionOnSet(f, {}) = 0
<1>1. IsFiniteSet({})  BY FS_EmptySet
<1> QED  BY <1>1, SumEquation

\* Only the values on the set matter.
LEMMA SumAgree ==
    ASSUME NEW S, IsFiniteSet(S), NEW f, NEW g, \A x \in S : f[x] = g[x]
    PROVE  SumFunctionOnSet(f, S) = SumFunctionOnSet(g, S)
<1> DEFINE F == {T \in SUBSET S : SumFunctionOnSet(f, T) = SumFunctionOnSet(g, T)}
<1>1. ASSUME NEW T \in SUBSET S, \A U \in SUBSET T : U # T => U \in F
      PROVE  SumFunctionOnSet(f, T) = SumFunctionOnSet(g, T)
  <2>1. IsFiniteSet(T)  BY FS_Subset
  <2>2. CASE T = {}  BY <2>2, SumEmpty
  <2>3. CASE T # {}
    <3>1. Chosen(T) \in T  BY <2>3 DEF Chosen
    <3>2. T \ {Chosen(T)} \in F  BY <1>1, <3>1
    <3>3. f[Chosen(T)] = g[Chosen(T)]  BY <3>1
    <3> QED  BY <2>1, <2>3, <3>2, <3>3, SumEquation
  <2> QED  BY <2>2, <2>3
<1> HIDE DEF F
<1>2. \A T \in SUBSET S : (\A U \in SUBSET T : U # T => U \in F) => T \in F
  BY <1>1 DEF F
<1>3. S \in F  BY <1>2, SubsetInduction
<1> QED  BY <1>3 DEF F

\* One summand changes, comes or goes, and the others stay.
LEMMA SumPoint ==
    ASSUME NEW A, IsFiniteSet(A), NEW B, NEW a, A \ {a} = B \ {a},
           NEW f, \A x \in A : f[x] \in Int, NEW g, \A x \in B : g[x] \in Int,
           \A x \in A : x # a => g[x] = f[x]
    PROVE  /\ SumFunctionOnSet(f, A) \in Int
           /\ SumFunctionOnSet(g, B) \in Int
           /\ SumFunctionOnSet(g, B) + (IF a \in A THEN f[a] ELSE 0)
                = SumFunctionOnSet(f, A) + (IF a \in B THEN g[a] ELSE 0)
<1> DEFINE C == A \ {a}
           c == SumFunctionOnSet(f, C)
<1>1. IsFiniteSet(C) /\ IsFiniteSet(B)
  <2>1. IsFiniteSet(C)  BY FS_Subset
  <2>2. IsFiniteSet(C \cup {a})  BY <2>1, FS_AddElement
  <2>3. B \subseteq C \cup {a}  OBVIOUS
  <2> QED  BY <2>1, <2>2, <2>3, FS_Subset
<1>2. c \in Int /\ SumFunctionOnSet(g, C) = c
  <2>1. \A x \in C : f[x] \in Int /\ f[x] = g[x]  OBVIOUS
  <2>2. Int \in {Nat, Int}  OBVIOUS
  <2> HIDE DEF C
  <2> QED  BY <1>1, <2>1, <2>2, SumType, SumAgree
<1>3. /\ SumFunctionOnSet(f, A) = c + (IF a \in A THEN f[a] ELSE 0)
      /\ SumFunctionOnSet(f, A) \in Int
  <2>1. CASE a \in A
    <3>1. f[a] \in Int /\ SumFunctionOnSet(f, A) = f[a] + c  BY <2>1, SumTake
    <3> HIDE DEF c
    <3> QED  BY <1>2, <2>1, <3>1
  <2>2. CASE a \notin A
    <3>1. A = C  BY <2>2
    <3> QED  BY <1>2, <2>2, <3>1
  <2> QED  BY <2>1, <2>2
<1>4. /\ SumFunctionOnSet(g, B) = c + (IF a \in B THEN g[a] ELSE 0)
      /\ SumFunctionOnSet(g, B) \in Int
  <2>1. CASE a \in B
    <3>1. B \ {a} = C  OBVIOUS
    <3>2. g[a] \in Int /\ SumFunctionOnSet(g, B) = g[a] + SumFunctionOnSet(g, C)
      BY <1>1, <2>1, <3>1, SumTake
    <3> HIDE DEF c, C
    <3> QED  BY <1>2, <2>1, <3>2
  <2>2. CASE a \notin B
    <3>1. B = C  BY <2>2
    <3> QED  BY <1>2, <2>2, <3>1
  <2> QED  BY <2>1, <2>2
<1>5. \A x \in {a} : (x \in A => f[x] \in Int) /\ (x \in B => g[x] \in Int)  OBVIOUS
<1> HIDE DEF c
<1> QED  BY <1>2, <1>3, <1>4, <1>5

\* Summands that are zero can be left out.
LEMMA SumZeros ==
    ASSUME NEW S, IsFiniteSet(S), NEW T \in SUBSET S, NEW f, \A x \in S : f[x] \in Int,
           \A x \in S \ T : f[x] = 0
    PROVE  SumFunctionOnSet(f, S) = SumFunctionOnSet(f, T)
<1> DEFINE F == {U \in SUBSET S : T \subseteq U =>
                   SumFunctionOnSet(f, U) = SumFunctionOnSet(f, T)}
<1>1. ASSUME NEW U \in SUBSET S, \A V \in SUBSET U : V # U => V \in F, T \subseteq U
      PROVE  SumFunctionOnSet(f, U) = SumFunctionOnSet(f, T)
  <2>1. CASE U = T  BY <2>1
  <2>2. CASE U # T
    <3>1. PICK x \in U : x \notin T  BY <1>1, <2>2
    <3>2. U \ {x} \in F /\ T \subseteq U \ {x}  BY <1>1, <3>1
    <3>3. SumFunctionOnSet(f, U \ {x}) = SumFunctionOnSet(f, T)  BY <3>2
    <3>4. IsFiniteSet(U) /\ IsFiniteSet(U \ {x})  BY FS_Subset
    <3>5. SumFunctionOnSet(f, U) = f[x] + SumFunctionOnSet(f, U \ {x})
      BY <3>4, SumTake
    <3>6. SumFunctionOnSet(f, U \ {x}) \in Int
      <4>1. Int \in {Nat, Int} /\ \A y \in U \ {x} : f[y] \in Int  OBVIOUS
      <4> QED  BY <3>4, <4>1, SumType
    <3>7. f[x] = 0  BY <3>1
    <3> QED  BY <3>3, <3>5, <3>6, <3>7
  <2> QED  BY <2>1, <2>2
<1> HIDE DEF F
<1>2. \A U \in SUBSET S : (\A V \in SUBSET U : V # U => V \in F) => U \in F
  BY <1>1 DEF F
<1>3. S \in F  BY <1>2, SubsetInduction
<1> QED  BY <1>3 DEF F

\* More summands, a larger sum.
LEMMA SumSubset ==
    ASSUME NEW S, IsFiniteSet(S), NEW T \in SUBSET S, NEW f, \A x \in S : f[x] \in Nat
    PROVE  SumFunctionOnSet(f, T) <= SumFunctionOnSet(f, S)
<1> DEFINE F == {U \in SUBSET S : T \subseteq U =>
                   SumFunctionOnSet(f, T) <= SumFunctionOnSet(f, U)}
<1>1. ASSUME NEW U \in SUBSET S
      PROVE  IsFiniteSet(U) /\ SumFunctionOnSet(f, U) \in Nat
  <2>1. Nat \in {Nat, Int} /\ \A y \in U : f[y] \in Nat  OBVIOUS
  <2> QED  BY <2>1, FS_Subset, SumType
<1>2. ASSUME NEW U \in SUBSET S, \A V \in SUBSET U : V # U => V \in F, T \subseteq U
      PROVE  SumFunctionOnSet(f, T) <= SumFunctionOnSet(f, U)
  <2>1. CASE U = T  BY <1>1, <2>1
  <2>2. CASE U # T
    <3>1. PICK x \in U : x \notin T  BY <1>2, <2>2
    <3>2. U \ {x} \in F /\ T \subseteq U \ {x} /\ U \ {x} \in SUBSET S  BY <1>2, <3>1
    <3>3. SumFunctionOnSet(f, T) <= SumFunctionOnSet(f, U \ {x})  BY <3>2
    <3>4. \A y \in U : f[y] \in Int  OBVIOUS
    <3>5. SumFunctionOnSet(f, U) = f[x] + SumFunctionOnSet(f, U \ {x})
      BY <1>1, <3>4, SumTake
    <3>6. /\ SumFunctionOnSet(f, U \ {x}) \in Nat /\ SumFunctionOnSet(f, T) \in Nat
          /\ f[x] \in Nat
      BY <1>1, <3>2
    <3> QED  BY <3>3, <3>5, <3>6
  <2> QED  BY <2>1, <2>2
<1> HIDE DEF F
<1>3. \A U \in SUBSET S : (\A V \in SUBSET U : V # U => V \in F) => U \in F
  BY <1>2 DEF F
<1>4. S \in F  BY <1>3, SubsetInduction
<1> QED  BY <1>4 DEF F
=============================================================================
