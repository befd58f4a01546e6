---------------------------- MODULE SumTheorems ----------------------------
(***************************************************************************)
(* Facts about SumFunctionOnSet, the sum of the values a function has on a *)
(* finite set: the amounts of the lines of an invoice, the refunds of a    *)
(* payment, the effects of the events of a charge.  The fold of module     *)
(* Folds takes elements out in an order of its own; what the proofs need   *)
(* is that the order does not matter.                                      *)
(***************************************************************************)
EXTENDS Functions, FiniteSetTheorems, WellFoundedInduction, TLAPS

\* A non-empty collection of subsets of a finite set has a smallest one, which is
\* how the proofs below reason by induction over finite sets.
LEMMA SmallestSubset ==
  ASSUME NEW S, IsFiniteSet(S), NEW F \in SUBSET (SUBSET S), F # {}
  PROVE  \E m \in F : \A n \in F : n \subseteq m => n = m
<1>1. F \subseteq FiniteSubsetsOf(S)
  BY FS_Subset DEF FiniteSubsetsOf
<1>2. PICK m \in F : \A n \in F : ~(<<n, m>> \in StrictSubsetOrdering(S))
  BY <1>1, FS_StrictSubsetOrderingWellFounded, WFMin
<1> QED BY <1>2 DEF StrictSubsetOrdering
-----------------------------------------------------------------------------
(***************************************************************************)
(* The fold exists.                                                        *)
(***************************************************************************)

\* The element that is added first, the sum from there on, and the function that
\* gives the sum of f over every subset of S.
Added(s) == CHOOSE x \in s : TRUE
SumFrom(f, g, s) == IF s = {} THEN 0 ELSE f[Added(s)] + g[s \ {Added(s)}]
SumsOf(f, S, g) == g = [s \in SUBSET S |-> SumFrom(f, g, s)]

\* SumFunctionOnSet, with the definitions of Functions and Folds expanded.
LEMMA SumIsFold ==
  ASSUME NEW f, NEW S
  PROVE  SumFunctionOnSet(f, S) = (CHOOSE g : SumsOf(f, S, g))[S]
BY DEF SumFunctionOnSet, FoldFunctionOnSet, MapThenFoldSet, SumsOf, SumFrom, Added

LEMMA AddedIsElement ==
  ASSUME NEW s, s # {}
  PROVE  Added(s) \in s
BY DEF Added

\* There is one such function for a set, and it goes with those of its subsets.
LEMMA SumsAgree ==
  ASSUME NEW f, NEW T, NEW S \in SUBSET T, IsFiniteSet(S), NEW g, NEW h,
         SumsOf(f, S, g), SumsOf(f, T, h)
  PROVE  \A s \in SUBSET S : g[s] = h[s]
<1> DEFINE Differ == {s \in SUBSET S : g[s] # h[s]}
<1> SUFFICES ASSUME Differ # {} PROVE FALSE
  OBVIOUS
<1>1. PICK s \in Differ : \A r \in Differ : r \subseteq s => r = s
  <2>1. Differ \in SUBSET (SUBSET S)
    OBVIOUS
  <2> HIDE DEF Differ
  <2> QED BY <2>1, SmallestSubset
<1>2. /\ s \in SUBSET S /\ s \in SUBSET T
      /\ g[s] = SumFrom(f, g, s) /\ h[s] = SumFrom(f, h, s)
  BY DEF SumsOf
<1>3. s # {}
  BY <1>1, <1>2 DEF SumFrom
<1>4. s \ {Added(s)} \notin Differ
  BY <1>1, <1>3, AddedIsElement
<1>5. g[s \ {Added(s)}] = h[s \ {Added(s)}]
  BY <1>2, <1>4
<1> QED BY <1>1, <1>2, <1>3, <1>5 DEF SumFrom

LEMMA SumsAgreeOn ==
  ASSUME NEW f, NEW S, NEW T, S \subseteq T, IsFiniteSet(S), NEW g, NEW h,
         SumsOf(f, S, g), SumsOf(f, T, h)
  PROVE  g[S] = h[S]
BY SumsAgree

LEMMA SumsExist ==
  ASSUME NEW f, NEW S, IsFiniteSet(S)
  PROVE  \E g : SumsOf(f, S, g)
<1> DEFINE Without == {T \in SUBSET S : ~ \E g : SumsOf(f, T, g)}
           h(T) == CHOOSE g : SumsOf(f, T, g)
<1> SUFFICES ASSUME Without # {} PROVE FALSE
  OBVIOUS
<1>1. PICK T \in Without : \A U \in Without : U \subseteq T => U = T
  <2>1. Without \in SUBSET (SUBSET S)
    OBVIOUS
  <2> HIDE DEF Without
  <2> QED BY <2>1, SmallestSubset
<1>2. ASSUME NEW U \in SUBSET T, U # T PROVE SumsOf(f, U, h(U)) /\ IsFiniteSet(U)
  <2>1. \E g : SumsOf(f, U, g)
    BY <1>1, <1>2
  <2> QED BY <2>1, <1>1, FS_Subset
<1> HIDE DEF h
<1> DEFINE g == [s \in SUBSET T |->
                   IF s = {} THEN 0 ELSE f[Added(s)] + h(s \ {Added(s)})[s \ {Added(s)}]]
<1>3. ASSUME NEW s \in SUBSET T, s # T PROVE g[s] = h(s)[s]
  <2>1. SumsOf(f, s, h(s)) /\ IsFiniteSet(s)
    BY <1>2, <1>3
  <2>2. h(s)[s] = SumFrom(f, h(s), s)
    BY <2>1 DEF SumsOf
  <2>3. CASE s = {}
    BY <2>2, <2>3 DEF SumFrom
  <2>4. CASE s # {}
    <3> DEFINE r == s \ {Added(s)}
    <3>1. r \in SUBSET T /\ r # T /\ r \in SUBSET s
      BY <2>4, AddedIsElement
    <3>2. SumsOf(f, r, h(r)) /\ IsFiniteSet(r)
      BY <3>1, <1>2
    <3> HIDE DEF r
    <3>3. h(r)[r] = h(s)[r]
      BY <3>1, <3>2, <2>1, SumsAgreeOn
    <3> USE DEF r
    <3> QED BY <2>2, <2>4, <3>3 DEF SumFrom
  <2> QED BY <2>3, <2>4
<1>4. ASSUME NEW s \in SUBSET T PROVE g[s] = SumFrom(f, g, s)
  <2>1. CASE s = {}
    BY <2>1 DEF SumFrom
  <2>2. CASE s # {}
    <3>1. s \ {Added(s)} \in SUBSET T /\ s \ {Added(s)} # T
      BY <2>2, AddedIsElement
    <3>2. g[s \ {Added(s)}] = h(s \ {Added(s)})[s \ {Added(s)}]
      BY <3>1, <1>3
    <3> QED BY <2>2, <3>2 DEF SumFrom
  <2> QED BY <2>1, <2>2
<1>5. g = [s \in SUBSET T |-> SumFrom(f, g, s)]
  BY <1>4
<1>6. SumsOf(f, T, g)
  BY <1>5 DEF SumsOf
<1> QED BY <1>1, <1>6

\* So a sum over a finite set is what the fold says it is.
LEMMA SumEmpty ==
  ASSUME NEW f
  PROVE  SumFunctionOnSet(f, {}) = 0
<1>1. PICK g : SumsOf(f, {}, g)
  BY SumsExist, FS_EmptySet
<1>2. SumsOf(f, {}, CHOOSE h : SumsOf(f, {}, h))
  BY <1>1
<1> DEFINE h == CHOOSE h : SumsOf(f, {}, h)
<1>3. h[{}] = 0
  BY <1>2 DEF SumsOf, SumFrom
<1> QED BY <1>3, SumIsFold

LEMMA SumAdded ==
  ASSUME NEW f, NEW S, IsFiniteSet(S), S # {}
  PROVE  SumFunctionOnSet(f, S) = f[Added(S)] + SumFunctionOnSet(f, S \ {Added(S)})
<1> DEFINE h(T) == CHOOSE g : SumsOf(f, T, g)
           R == S \ {Added(S)}
<1>1. IsFiniteSet(R) /\ R \in SUBSET S
  BY FS_Subset
<1>2. SumsOf(f, S, h(S)) /\ SumsOf(f, R, h(R))
  BY <1>1, SumsExist
<1>3. SumFunctionOnSet(f, S) = h(S)[S] /\ SumFunctionOnSet(f, R) = h(R)[R]
  BY SumIsFold
<1> HIDE DEF h
<1>4. h(R)[R] = h(S)[R]
  <2> HIDE DEF R
  <2> QED BY <1>1, <1>2, SumsAgreeOn
<1>5. h(S)[S] = SumFrom(f, h(S), S)
  BY <1>2 DEF SumsOf
<1> QED BY <1>3, <1>4, <1>5 DEF SumFrom
-----------------------------------------------------------------------------
(***************************************************************************)
(* What the proofs use.                                                    *)
(***************************************************************************)

\* Induction over the subsets of a finite set: a collection that has the empty set,
\* and every other subset whose own strict subsets it has, has them all.
LEMMA SubsetInduction ==
  ASSUME NEW S, IsFiniteSet(S), NEW F \in SUBSET (SUBSET S), {} \in F,
         \A T \in SUBSET S : T # {} /\ (\A U \in SUBSET T : U # T => U \in F) => T \in F
  PROVE  F = SUBSET S
<1> DEFINE Others == {T \in SUBSET S : T \notin F}
<1> SUFFICES ASSUME Others # {} PROVE FALSE
  OBVIOUS
<1>1. PICK T \in Others : \A U \in Others : U \subseteq T => U = T
  <2>1. Others \in SUBSET (SUBSET S)
    OBVIOUS
  <2> HIDE DEF Others
  <2> QED BY <2>1, SmallestSubset
<1>2. T \in SUBSET S /\ T \notin F
  BY <1>1
<1>3. \A U \in SUBSET T : U # T => U \in F
  BY <1>1, <1>2
<1>4. T # {}
  BY <1>2
<1> QED BY <1>2, <1>3, <1>4

\* A sum of integers is an integer.
LEMMA SumType ==
  ASSUME NEW f, NEW S, IsFiniteSet(S), \A x \in S : f[x] \in Int
  PROVE  SumFunctionOnSet(f, S) \in Int
<1> DEFINE F == {T \in SUBSET S : SumFunctionOnSet(f, T) \in Int}
<1>1. {} \in F
  BY SumEmpty
<1>2. ASSUME NEW T \in SUBSET S, T # {}, \A U \in SUBSET T : U # T => U \in F
      PROVE  T \in F
  <2>1. SumFunctionOnSet(f, T) = f[Added(T)] + SumFunctionOnSet(f, T \ {Added(T)})
    BY <1>2, SumAdded, FS_Subset
  <2>2. T \ {Added(T)} \in F /\ f[Added(T)] \in Int
    BY <1>2, AddedIsElement
  <2> QED BY <2>1, <2>2
<1> HIDE DEF F
<1>3. F \in SUBSET (SUBSET S)
  BY DEF F
<1>4. F = SUBSET S
  BY <1>1, <1>2, <1>3, SubsetInduction
<1> QED BY <1>4 DEF F

\* A sum of natural numbers is a natural number.
LEMMA SumNat ==
  ASSUME NEW f, NEW S, IsFiniteSet(S), \A x \in S : f[x] \in Nat
  PROVE  SumFunctionOnSet(f, S) \in Nat
<1> DEFINE F == {T \in SUBSET S : SumFunctionOnSet(f, T) \in Nat}
<1>1. {} \in F
  BY SumEmpty
<1>2. ASSUME NEW T \in SUBSET S, T # {}, \A U \in SUBSET T : U # T => U \in F
      PROVE  T \in F
  <2>1. SumFunctionOnSet(f, T) = f[Added(T)] + SumFunctionOnSet(f, T \ {Added(T)})
    BY <1>2, SumAdded, FS_Subset
  <2>2. T \ {Added(T)} \in F /\ f[Added(T)] \in Nat
    BY <1>2, AddedIsElement
  <2> QED BY <2>1, <2>2
<1> HIDE DEF F
<1>3. F \in SUBSET (SUBSET S)
  BY DEF F
<1>4. F = SUBSET S
  BY <1>1, <1>2, <1>3, SubsetInduction
<1> QED BY <1>4 DEF F

\* Zeros add up to zero.
LEMMA SumOfZeros ==
  ASSUME NEW f, NEW S, IsFiniteSet(S), \A x \in S : f[x] = 0
  PROVE  SumFunctionOnSet(f, S) = 0
<1> DEFINE F == {T \in SUBSET S : SumFunctionOnSet(f, T) = 0}
<1>1. {} \in F
  BY SumEmpty
<1>2. ASSUME NEW T \in SUBSET S, T # {}, \A U \in SUBSET T : U # T => U \in F
      PROVE  T \in F
  <2>1. SumFunctionOnSet(f, T) = f[Added(T)] + SumFunctionOnSet(f, T \ {Added(T)})
    BY <1>2, SumAdded, FS_Subset
  <2>2. T \ {Added(T)} \in F /\ f[Added(T)] = 0
    BY <1>2, AddedIsElement
  <2> QED BY <2>1, <2>2
<1> HIDE DEF F
<1>3. F \in SUBSET (SUBSET S)
  BY DEF F
<1>4. F = SUBSET S
  BY <1>1, <1>2, <1>3, SubsetInduction
<1> QED BY <1>4 DEF F

\* Functions that agree on a set have the same sum over it.
LEMMA SumSame ==
  ASSUME NEW f, NEW g, NEW S, IsFiniteSet(S), \A x \in S : f[x] = g[x]
  PROVE  SumFunctionOnSet(f, S) = SumFunctionOnSet(g, S)
<1> DEFINE F == {T \in SUBSET S : SumFunctionOnSet(f, T) = SumFunctionOnSet(g, T)}
<1>1. {} \in F
  BY SumEmpty
<1>2. ASSUME NEW T \in SUBSET S, T # {}, \A U \in SUBSET T : U # T => U \in F
      PROVE  T \in F
  <2>1. /\ SumFunctionOnSet(f, T) = f[Added(T)] + SumFunctionOnSet(f, T \ {Added(T)})
        /\ SumFunctionOnSet(g, T) = g[Added(T)] + SumFunctionOnSet(g, T \ {Added(T)})
    BY <1>2, SumAdded, FS_Subset
  <2>2. T \ {Added(T)} \in F /\ f[Added(T)] = g[Added(T)]
    BY <1>2, AddedIsElement
  <2> QED BY <2>1, <2>2
<1> HIDE DEF F
<1>3. F \in SUBSET (SUBSET S)
  BY DEF F
<1>4. F = SUBSET S
  BY <1>1, <1>2, <1>3, SubsetInduction
<1> QED BY <1>4 DEF F

\* Any element can be taken out of a sum, not only the one the fold chose: the
\* order of the fold does not matter.
LEMMA SumElement ==
  ASSUME NEW f, NEW S, IsFiniteSet(S), \A x \in S : f[x] \in Int, NEW y \in S
  PROVE  SumFunctionOnSet(f, S) = f[y] + SumFunctionOnSet(f, S \ {y})
<1> DEFINE F == {T \in SUBSET S : \A x \in T :
                   SumFunctionOnSet(f, T) = f[x] + SumFunctionOnSet(f, T \ {x})}
<1>1. {} \in F
  OBVIOUS
<1>2. ASSUME NEW T \in SUBSET S, T # {}, \A U \in SUBSET T : U # T => U \in F
      PROVE  T \in F
  <2> SUFFICES ASSUME NEW x \in T
               PROVE  SumFunctionOnSet(f, T) = f[x] + SumFunctionOnSet(f, T \ {x})
    OBVIOUS
  <2> DEFINE a == Added(T)
             R == (T \ {a}) \ {x}
  <2>1. a \in T /\ IsFiniteSet(T) /\ IsFiniteSet(R)
    BY <1>2, AddedIsElement, FS_Subset
  <2>2. SumFunctionOnSet(f, T) = f[a] + SumFunctionOnSet(f, T \ {a})
    BY <1>2, <2>1, SumAdded
  <2>3. CASE x = a
    BY <2>2, <2>3
  <2>4. CASE x # a
    <3>1. SumFunctionOnSet(f, T \ {a}) = f[x] + SumFunctionOnSet(f, R)
      <4>1. T \ {a} \in F /\ x \in T \ {a}
        BY <1>2, <2>1, <2>4
      <4> QED BY <4>1
    <3>2. SumFunctionOnSet(f, T \ {x}) = f[a] + SumFunctionOnSet(f, R)
      <4>1. T \ {x} \in F /\ a \in T \ {x} /\ (T \ {x}) \ {a} = R
        BY <1>2, <2>1, <2>4
      <4> QED BY <4>1
    <3>3. SumFunctionOnSet(f, R) \in Int /\ f[a] \in Int /\ f[x] \in Int
      BY <2>1, SumType
    <3> QED BY <2>2, <3>1, <3>2, <3>3
  <2> QED BY <2>3, <2>4
<1> HIDE DEF F
<1>3. F \in SUBSET (SUBSET S)
  BY DEF F
<1>4. F = SUBSET S
  BY <1>1, <1>2, <1>3, SubsetInduction
<1> QED BY <1>4 DEF F

\* A new element adds its value.
LEMMA SumAdd ==
  ASSUME NEW f, NEW S, IsFiniteSet(S), NEW y, y \notin S, \A x \in S \cup {y} : f[x] \in Int
  PROVE  SumFunctionOnSet(f, S \cup {y}) = f[y] + SumFunctionOnSet(f, S)
<1>1. IsFiniteSet(S \cup {y}) /\ (S \cup {y}) \ {y} = S
  BY FS_AddElement
<1> QED BY <1>1, SumElement

\* One value changes, and the sum by as much.
LEMMA SumChanged ==
  ASSUME NEW f, NEW g, NEW S, IsFiniteSet(S), NEW y \in S,
         \A x \in S : f[x] \in Int /\ g[x] \in Int, \A x \in S : x # y => g[x] = f[x]
  PROVE  SumFunctionOnSet(g, S) = SumFunctionOnSet(f, S) + g[y] - f[y]
<1> DEFINE R == S \ {y}
<1>1. IsFiniteSet(R) /\ \A x \in R : f[x] \in Int /\ g[x] = f[x]
  BY FS_Subset
<1>2. SumFunctionOnSet(f, S) = f[y] + SumFunctionOnSet(f, R)
  BY SumElement
<1>3. SumFunctionOnSet(g, S) = g[y] + SumFunctionOnSet(g, R)
  BY SumElement
<1> HIDE DEF R
<1>4. SumFunctionOnSet(g, R) = SumFunctionOnSet(f, R) /\ SumFunctionOnSet(f, R) \in Int
  BY <1>1, SumSame, SumType
<1> QED BY <1>2, <1>3, <1>4

\* No natural number exceeds a sum it is part of.
LEMMA SumAtLeast ==
  ASSUME NEW f, NEW S, IsFiniteSet(S), \A x \in S : f[x] \in Nat, NEW y \in S
  PROVE  f[y] <= SumFunctionOnSet(f, S)
<1> DEFINE R == S \ {y}
<1>1. IsFiniteSet(R) /\ \A x \in R : f[x] \in Nat
  BY FS_Subset
<1>2. SumFunctionOnSet(f, S) = f[y] + SumFunctionOnSet(f, R)
  BY SumElement
<1> HIDE DEF R
<1>3. SumFunctionOnSet(f, R) \in Nat
  BY <1>1, SumNat
<1> QED BY <1>2, <1>3

\* The sum does not change when the elements are given other names.
LEMMA SumOfImage ==
  ASSUME NEW S, IsFiniteSet(S), NEW h, \A x, y \in S : h[x] = h[y] => x = y,
         NEW f, NEW g, \A x \in S : f[x] \in Int /\ g[h[x]] = f[x]
  PROVE  /\ IsFiniteSet({h[x] : x \in S})
         /\ SumFunctionOnSet(g, {h[x] : x \in S}) = SumFunctionOnSet(f, S)
<1> DEFINE image(T) == {h[x] : x \in T}
           F == {T \in SUBSET S : /\ IsFiniteSet(image(T))
                                  /\ SumFunctionOnSet(g, image(T)) = SumFunctionOnSet(f, T)}
<1>1. {} \in F
  <2>1. image({}) = {}
    OBVIOUS
  <2> QED BY <2>1, SumEmpty, FS_EmptySet
<1>2. ASSUME NEW T \in SUBSET S, T # {}, \A U \in SUBSET T : U # T => U \in F
      PROVE  T \in F
  <2> DEFINE x == Added(T)
             R == T \ {x}
             I == image(R)
  <2>1. x \in T /\ R \in F
    BY <1>2, AddedIsElement
  <2>2. IsFiniteSet(T) /\ IsFiniteSet(I) /\ SumFunctionOnSet(g, I) = SumFunctionOnSet(f, R)
    BY <2>1, FS_Subset
  <2>3. SumFunctionOnSet(f, T) = f[x] + SumFunctionOnSet(f, R)
    BY <1>2, <2>2, SumAdded
  <2>4. image(T) = I \cup {h[x]} /\ h[x] \notin I
    BY <2>1
  <2>5. g[h[x]] = f[x] /\ \A z \in I \cup {h[x]} : g[z] \in Int
    BY <2>1
  <2> HIDE DEF I, x
  <2>6. /\ IsFiniteSet(I \cup {h[x]})
        /\ SumFunctionOnSet(g, I \cup {h[x]}) = g[h[x]] + SumFunctionOnSet(g, I)
    BY <2>2, <2>4, <2>5, SumAdd, FS_AddElement
  <2> QED BY <2>2, <2>3, <2>4, <2>5, <2>6
<1> HIDE DEF F
<1>3. F \in SUBSET (SUBSET S)
  BY DEF F
<1>4. F = SUBSET S
  BY <1>1, <1>2, <1>3, SubsetInduction
<1> QED BY <1>4 DEF F

\* A sum over two sets without a common element.
LEMMA SumUnion ==
  ASSUME NEW f, NEW S, NEW T, IsFiniteSet(S), IsFiniteSet(T), S \cap T = {},
         \A x \in S \cup T : f[x] \in Int
  PROVE  SumFunctionOnSet(f, S \cup T) = SumFunctionOnSet(f, S) + SumFunctionOnSet(f, T)
<1> DEFINE F == {U \in SUBSET S :
                   SumFunctionOnSet(f, U \cup T) = SumFunctionOnSet(f, U) + SumFunctionOnSet(f, T)}
<1>1. {} \in F
  <2>1. {} \cup T = T /\ SumFunctionOnSet(f, T) \in Int
    BY SumType
  <2> QED BY <2>1, SumEmpty
<1>2. ASSUME NEW U \in SUBSET S, U # {}, \A V \in SUBSET U : V # U => V \in F
      PROVE  U \in F
  <2> DEFINE a == Added(U)
             V == U \ {a}
  <2>1. a \in U /\ V \in F /\ IsFiniteSet(V)
    BY <1>2, AddedIsElement, FS_Subset
  <2>2. IsFiniteSet(V \cup T) /\ a \notin V \cup T /\ (V \cup T) \cup {a} = U \cup T
    BY <2>1, FS_Union
  <2>3. SumFunctionOnSet(f, U \cup T) = f[a] + SumFunctionOnSet(f, V \cup T)
    <3> DEFINE W == V \cup T
    <3>1. IsFiniteSet(W) /\ a \notin W /\ \A x \in W \cup {a} : f[x] \in Int
      BY <2>1, <2>2
    <3> HIDE DEF W
    <3>2. SumFunctionOnSet(f, W \cup {a}) = f[a] + SumFunctionOnSet(f, W)
      BY <3>1, SumAdd
    <3> QED BY <3>2, <2>2 DEF W
  <2>4. SumFunctionOnSet(f, U) = f[a] + SumFunctionOnSet(f, V)
    BY <1>2, <2>1, SumAdded, FS_Subset
  <2>5. /\ f[a] \in Int /\ SumFunctionOnSet(f, V) \in Int /\ SumFunctionOnSet(f, T) \in Int
    BY <2>1, SumType
  <2>6. SumFunctionOnSet(f, V \cup T) = SumFunctionOnSet(f, V) + SumFunctionOnSet(f, T)
    BY <2>1
  <2> QED BY <2>3, <2>4, <2>5, <2>6
<1> HIDE DEF F
<1>3. F \in SUBSET (SUBSET S)
  BY DEF F
<1>4. F = SUBSET S
  BY <1>1, <1>2, <1>3, SubsetInduction
<1> QED BY <1>4 DEF F

\* What an element contributes to the sum over a part of the set.
Share(f, P, x) == IF x \in P THEN f[x] ELSE 0

LEMMA SumOverPart ==
  ASSUME NEW f, NEW T, NEW P, IsFiniteSet(T), NEW x \in T, \A y \in T : f[y] \in Int
  PROVE  SumFunctionOnSet(f, T \cap P)
           = Share(f, P, x) + SumFunctionOnSet(f, (T \ {x}) \cap P)
<1> DEFINE U == T \cap P
           V == (T \ {x}) \cap P
<1>1. IsFiniteSet(U) /\ \A y \in U : f[y] \in Int
  BY FS_Subset
<1>2. CASE x \in P
  <2>1. x \in U /\ U \ {x} = V
    BY <1>2
  <2> HIDE DEF U, V
  <2>2. SumFunctionOnSet(f, U) = f[x] + SumFunctionOnSet(f, V)
    BY <1>1, <2>1, SumElement
  <2> QED BY <1>2, <2>2 DEF U, V, Share
<1>3. CASE x \notin P
  <2>1. U = V
    BY <1>3
  <2>2. SumFunctionOnSet(f, U) \in Int
    BY <1>1, SumType
  <2> QED BY <1>3, <2>1, <2>2 DEF Share
<1> QED BY <1>2, <1>3

\* Every value of g is that of f counted in neither, one or both of two parts.
Apportioned(f, g, S, P, Q) ==
  \A x \in S : f[x] \in Int /\ g[x] = Share(f, P, x) + Share(f, Q, x)

\* Then the sum of g is that of f over the two parts.
LEMMA SumOfParts ==
  ASSUME NEW f, NEW g, NEW S, NEW P \in SUBSET S, NEW Q \in SUBSET S, IsFiniteSet(S),
         Apportioned(f, g, S, P, Q)
  PROVE  SumFunctionOnSet(g, S) = SumFunctionOnSet(f, P) + SumFunctionOnSet(f, Q)
<1>0. /\ \A x \in S : f[x] \in Int
      /\ \A x \in S : g[x] = Share(f, P, x) + Share(f, Q, x)
  BY DEF Apportioned
<1> DEFINE sum(T) == SumFunctionOnSet(f, T)
           F == {T \in SUBSET S : SumFunctionOnSet(g, T) = sum(T \cap P) + sum(T \cap Q)}
<1>1. {} \in F
  <2>1. {} \cap P = {} /\ {} \cap Q = {}
    OBVIOUS
  <2> QED BY <2>1, SumEmpty
<1>2. ASSUME NEW T \in SUBSET S, T # {}, \A U \in SUBSET T : U # T => U \in F
      PROVE  T \in F
  <2> DEFINE x == Added(T)
             R == T \ {x}
             vp == Share(f, P, x)
             vq == Share(f, Q, x)
  <2>1. x \in T /\ R \in F /\ IsFiniteSet(T) /\ IsFiniteSet(R)
    BY <1>2, AddedIsElement, FS_Subset
  <2>2. SumFunctionOnSet(g, T) = g[x] + SumFunctionOnSet(g, R)
    BY <1>2, <2>1, SumAdded
  <2>3. SumFunctionOnSet(g, R) = sum(R \cap P) + sum(R \cap Q)
    BY <2>1
  <2>4. g[x] = vp + vq /\ vp \in Int /\ vq \in Int
    BY <1>0, <2>1 DEF Share
  <2>5. sum(R \cap P) \in Int /\ sum(R \cap Q) \in Int
    <3>1. /\ IsFiniteSet(R \cap P) /\ \A y \in R \cap P : f[y] \in Int
          /\ IsFiniteSet(R \cap Q) /\ \A y \in R \cap Q : f[y] \in Int
      BY <1>0, <2>1, FS_Subset
    <3> QED BY <3>1, SumType
  <2>6. sum(T \cap P) = vp + sum(R \cap P) /\ sum(T \cap Q) = vq + sum(R \cap Q)
    <3>1. x \in T /\ IsFiniteSet(T) /\ \A y \in T : f[y] \in Int
      BY <1>0, <2>1
    <3> HIDE DEF x
    <3> QED BY <3>1, SumOverPart
  <2> HIDE DEF vp, vq, sum
  <2>7. SumFunctionOnSet(g, T) = sum(T \cap P) + sum(T \cap Q)
    BY <2>2, <2>3, <2>4, <2>5, <2>6
  <2> QED BY <2>7
<1> HIDE DEF F
<1>3. F \in SUBSET (SUBSET S)
  BY DEF F
<1>4. F = SUBSET S
  BY <1>1, <1>2, <1>3, SubsetInduction
<1>5. S \cap P = P /\ S \cap Q = Q /\ S \in F
  BY <1>4
<1> QED BY <1>5 DEF F
-----------------------------------------------------------------------------
(***************************************************************************)
(* Sums over the whole domain of a function.                               *)
(***************************************************************************)

\* The domain gets a new element: the other values stay, its value is added.
LEMMA SumOfMore ==
  ASSUME NEW S, IsFiniteSet(S), NEW y, y \notin S, NEW f, NEW g,
         DOMAIN f = S, DOMAIN g = S \cup {y}, \A x \in S : g[x] = f[x],
         \A x \in S \cup {y} : g[x] \in Int
  PROVE  SumFunction(g) = g[y] + SumFunction(f)
<1>1. SumFunctionOnSet(g, S \cup {y}) = g[y] + SumFunctionOnSet(g, S)
  BY SumAdd
<1>2. SumFunctionOnSet(g, S) = SumFunctionOnSet(f, S)
  BY SumSame
<1> QED BY <1>1, <1>2 DEF SumFunction

\* A sum of natural numbers is one.
LEMMA SumOfNats ==
  ASSUME NEW f, IsFiniteSet(DOMAIN f), \A x \in DOMAIN f : f[x] \in Nat
  PROVE  SumFunction(f) \in Nat
BY SumNat DEF SumFunction

\* A part of some natural numbers is no more than all of them.
LEMMA SumOfSubset ==
  ASSUME NEW f, NEW S, IsFiniteSet(S), \A x \in S : f[x] \in Nat, NEW T \in SUBSET S
  PROVE  SumFunctionOnSet(f, T) <= SumFunctionOnSet(f, S)
<1>1. IsFiniteSet(T) /\ IsFiniteSet(S \ T)
  BY FS_Subset
<1>2. T \cup (S \ T) = S /\ T \cap (S \ T) = {} /\ \A x \in T \cup (S \ T) : f[x] \in Int
  OBVIOUS
<1>3. SumFunctionOnSet(f, S) = SumFunctionOnSet(f, T) + SumFunctionOnSet(f, S \ T)
  BY <1>1, <1>2, SumUnion
<1>4. SumFunctionOnSet(f, T) \in Nat /\ SumFunctionOnSet(f, S \ T) \in Nat
  BY <1>1, SumNat
<1> QED BY <1>3, <1>4

\* Nothing adds up to zero.
LEMMA SumOfNothing ==
  ASSUME NEW f, DOMAIN f = {}
  PROVE  SumFunction(f) = 0
BY SumEmpty DEF SumFunction
=============================================================================
