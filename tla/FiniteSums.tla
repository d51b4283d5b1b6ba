------------------------------ MODULE FiniteSums ------------------------------
(***************************************************************************)
(* Sums over finite sets, for the proofs about what is summed: requests by *)
(* age, returns by snapshot, holdings by facility.  SumFunctionOnSet adds  *)
(* the values of a function in an order that CHOOSE picks; the lemmas say  *)
(* that the order does not matter, and what sums inherit from the values.  *)
(*                                                                         *)
(* All rest on SubsetInduction, induction on the subsets of a finite set,  *)
(* stated with a set instead of a predicate: a counterexample that is      *)
(* minimal for inclusion contradicts the step.                             *)
(***************************************************************************)
EXTENDS Integers, FiniteSets, Functions, FiniteSetTheorems, TLAPS

LEMMA SubsetInduction ==
  ASSUME NEW S, IsFiniteSet(S), NEW P \in SUBSET (SUBSET S),
         \A T \in SUBSET S : (\A U \in SUBSET T : U # T => U \in P) => T \in P
  PROVE  P = SUBSET S
<1>. DEFINE Bad == (SUBSET S) \ P
            R == StrictSubsetOrdering(S)
<1>1. SUFFICES ASSUME Bad # {} PROVE FALSE
  OBVIOUS
<1>2. IsWellFoundedOn(R, FiniteSubsetsOf(S)) /\ FiniteSubsetsOf(S) = SUBSET S
  BY FS_StrictSubsetOrderingWellFounded, FS_FiniteSubsetsOfFinite
<1>. HIDE DEF R
<1>3. PICK T \in Bad : \A U \in Bad : ~(<<U, T>> \in R)
  <2>1. Bad \subseteq FiniteSubsetsOf(S)
    BY <1>2
  <2>. HIDE DEF Bad
  <2>2. QED BY <1>1, <1>2, <2>1, WFMin
<1>4. ASSUME NEW U \in SUBSET T, U # T PROVE U \in P
  BY <1>3, <1>4 DEF R, StrictSubsetOrdering
<1>5. QED BY <1>3, <1>4

-----------------------------------------------------------------------------
(* The recursion, unfolded.                                                *)

Chosen(s) == CHOOSE x \in s : TRUE

Unfolded(f, s) ==
  IF s = {} THEN 0 ELSE f[Chosen(s)] + SumFunctionOnSet(f, s \ {Chosen(s)})

\* g is the recursive function by which the sum over T is defined.
Step(f, g, s) == IF s = {} THEN 0 ELSE f[Chosen(s)] + g[s \ {Chosen(s)}]
Iterates(f, g, T) == g = [s \in SUBSET T |-> Step(f, g, s)]

LEMMA SumIsIterated ==
  ASSUME NEW f, NEW T
  PROVE  SumFunctionOnSet(f, T) = (CHOOSE g : Iterates(f, g, T))[T]
BY DEF SumFunctionOnSet, FoldFunctionOnSet, MapThenFoldSet, Iterates, Step, Chosen

LEMMA ChosenIsIn ==
  ASSUME NEW s, s # {}
  PROVE  Chosen(s) \in s
BY DEF Chosen

LEMMA OneIteration ==
  ASSUME NEW f, NEW T, IsFiniteSet(T), NEW g, NEW h, Iterates(f, g, T), Iterates(f, h, T)
  PROVE  g[T] = h[T]
<1>. DEFINE P == {s \in SUBSET T : g[s] = h[s]}
<1>1. ASSUME NEW s \in SUBSET T, \A u \in SUBSET s : u # s => u \in P
      PROVE  s \in P
  <2>1. g[s] = Step(f, g, s) /\ h[s] = Step(f, h, s)
    BY DEF Iterates
  <2>2. CASE s = {}
    BY <2>1, <2>2 DEF Step
  <2>3. CASE s # {}
    <3>1. g[s \ {Chosen(s)}] = h[s \ {Chosen(s)}]
      BY <1>1, <2>3, ChosenIsIn
    <3>2. QED BY <2>1, <2>3, <3>1 DEF Step
  <2>4. QED BY <2>2, <2>3
<1>2. P = SUBSET T
  <2>1. P \in SUBSET (SUBSET T)
    OBVIOUS
  <2>. HIDE DEF P
  <2>2. QED BY <1>1, <2>1, SubsetInduction
<1>3. QED BY <1>2

LEMMA SumUnfolds ==
  ASSUME NEW f, NEW S, IsFiniteSet(S)
  PROVE  SumFunctionOnSet(f, S) = Unfolded(f, S)
<1>. DEFINE P == {T \in SUBSET S : SumFunctionOnSet(f, T) = Unfolded(f, T)}
<1>1. ASSUME NEW T \in SUBSET S, \A U \in SUBSET T : U # T => U \in P
      PROVE  T \in P
  <2>. DEFINE h == [s \in SUBSET T |-> Unfolded(f, s)]
  <2>1. ASSUME NEW s \in SUBSET T PROVE Unfolded(f, s) = Step(f, h, s)
    <3>1. CASE s = {}
      BY <3>1 DEF Unfolded, Step
    <3>2. CASE s # {}
      <4>1. s \ {Chosen(s)} \in SUBSET T /\ s \ {Chosen(s)} # T
        BY <3>2, ChosenIsIn
      <4>2. h[s \ {Chosen(s)}] = SumFunctionOnSet(f, s \ {Chosen(s)})
        BY <1>1, <4>1
      <4>. HIDE DEF h
      <4>3. QED BY <3>2, <4>2 DEF Unfolded, Step
    <3>3. QED BY <3>1, <3>2
  <2>2. Iterates(f, h, T)
    <3>1. h = [s \in SUBSET T |-> Step(f, h, s)]
      <4>. DEFINE k == h
      <4>1. \A s \in SUBSET T : Unfolded(f, s) = Step(f, k, s)
        BY <2>1
      <4>2. k = [s \in SUBSET T |-> Unfolded(f, s)]
        OBVIOUS
      <4>. HIDE DEF k
      <4>3. k = [s \in SUBSET T |-> Step(f, k, s)]
        BY <4>1, <4>2
      <4>4. QED BY <4>3 DEF k
    <3>2. QED BY <3>1 DEF Iterates
  <2>3. h[T] = Unfolded(f, T)
    OBVIOUS
  <2>. HIDE DEF h
  <2>4. Iterates(f, CHOOSE g : Iterates(f, g, T), T)
    BY <2>2
  <2>5. IsFiniteSet(T)
    BY FS_Subset
  <2>6. (CHOOSE g : Iterates(f, g, T))[T] = h[T]
    BY <2>2, <2>4, <2>5, OneIteration
  <2>7. QED BY <2>3, <2>6, SumIsIterated
<1>2. P = SUBSET S
  <2>1. P \in SUBSET (SUBSET S)
    OBVIOUS
  <2>. HIDE DEF P
  <2>2. QED BY <1>1, <2>1, SubsetInduction
<1>3. QED BY <1>2

LEMMA EmptySum == \A f : SumFunctionOnSet(f, {}) = 0
BY FS_EmptySet, SumUnfolds DEF Unfolded

(* A sum of integers is an integer, and one of naturals a natural.         *)
LEMMA SumType ==
  ASSUME NEW S, IsFiniteSet(S), NEW f, NEW N \in {Int, Nat}, \A x \in S : f[x] \in N
  PROVE  \A T \in SUBSET S : SumFunctionOnSet(f, T) \in N
<1>. DEFINE P == {T \in SUBSET S : SumFunctionOnSet(f, T) \in N}
<1>1. ASSUME NEW T \in SUBSET S, \A U \in SUBSET T : U # T => U \in P
      PROVE  T \in P
  <2>1. SumFunctionOnSet(f, T) = Unfolded(f, T)
    BY FS_Subset, SumUnfolds
  <2>2. CASE T = {}
    BY <2>1, <2>2 DEF Unfolded
  <2>3. CASE T # {}
    <3>1. Chosen(T) \in T
      BY <2>3, ChosenIsIn
    <3>2. SumFunctionOnSet(f, T \ {Chosen(T)}) \in N /\ f[Chosen(T)] \in N
      BY <1>1, <3>1
    <3>3. Unfolded(f, T) = f[Chosen(T)] + SumFunctionOnSet(f, T \ {Chosen(T)})
      BY <2>3 DEF Unfolded
    <3>4. f[Chosen(T)] + SumFunctionOnSet(f, T \ {Chosen(T)}) \in N
      BY <3>2
    <3>5. QED BY <2>1, <3>3, <3>4
  <2>4. QED BY <2>2, <2>3
<1>2. P = SUBSET S
  <2>1. P \in SUBSET (SUBSET S)
    OBVIOUS
  <2>. HIDE DEF P
  <2>2. QED BY <1>1, <2>1, SubsetInduction
<1>3. QED BY <1>2

(* Any element may be added last.                                          *)
LEMMA SumTakesOut ==
  ASSUME NEW S, IsFiniteSet(S), NEW f, \A x \in S : f[x] \in Int
  PROVE  \A T \in SUBSET S : \A x \in T :
           SumFunctionOnSet(f, T) = f[x] + SumFunctionOnSet(f, T \ {x})
<1>. DEFINE Sum(T) == SumFunctionOnSet(f, T)
            P == {T \in SUBSET S : \A x \in T : Sum(T) = f[x] + Sum(T \ {x})}
<1>0. \A T \in SUBSET S : Sum(T) \in Int
  BY SumType
<1>1. ASSUME NEW T \in SUBSET S, \A U \in SUBSET T : U # T => U \in P
      PROVE  T \in P
  <2>. SUFFICES ASSUME NEW x \in T PROVE Sum(T) = f[x] + Sum(T \ {x})
    OBVIOUS
  <2>. DEFINE c == Chosen(T)
  <2>1. c \in T
    BY ChosenIsIn
  <2>2. Sum(T) = f[c] + Sum(T \ {c})
    BY FS_Subset, SumUnfolds DEF Unfolded
  <2>. HIDE DEF c
  <2>3. CASE x # c
    <3>1. Sum(T \ {c}) = f[x] + Sum((T \ {c}) \ {x})
      BY <1>1, <2>1, <2>3
    <3>2. Sum(T \ {x}) = f[c] + Sum((T \ {x}) \ {c})
      BY <1>1, <2>1, <2>3
    <3>3. (T \ {c}) \ {x} = (T \ {x}) \ {c}
      OBVIOUS
    <3>4. PICK r \in Int : r = Sum((T \ {c}) \ {x})
      BY <1>0
    <3>5. Sum(T \ {c}) = f[x] + r /\ Sum(T \ {x}) = f[c] + r
      BY <3>1, <3>2, <3>3, <3>4
    <3>6. f[c] + (f[x] + r) = f[x] + (f[c] + r)
      BY <2>1
    <3>7. QED BY <2>2, <3>5, <3>6
  <2>4. QED BY <2>2, <2>3
<1>2. P = SUBSET S
  <2>1. P \in SUBSET (SUBSET S)
    OBVIOUS
  <2>. HIDE DEF P
  <2>2. QED BY <1>1, <2>1, SubsetInduction
<1>3. QED BY <1>2

(* A sum over two parts.                                                   *)
LEMMA SumSplits ==
  ASSUME NEW S, IsFiniteSet(S), NEW f, \A x \in S : f[x] \in Int, NEW A \in SUBSET S
  PROVE  SumFunctionOnSet(f, S) = SumFunctionOnSet(f, A) + SumFunctionOnSet(f, S \ A)
<1>. DEFINE Sum(T) == SumFunctionOnSet(f, T)
            P == {T \in SUBSET S : Sum(T) = Sum(T \cap A) + Sum(T \ A)}
<1>0. /\ \A T \in SUBSET S : Sum(T) \in Int
      /\ \A T \in SUBSET S : \A x \in T : Sum(T) = f[x] + Sum(T \ {x})
  BY SumType, SumTakesOut
<1>1. ASSUME NEW T \in SUBSET S, \A U \in SUBSET T : U # T => U \in P
      PROVE  T \in P
  <2>1. CASE T = {}
    <3>1. T \cap A = {} /\ T \ A = {} /\ Sum({}) = 0
      BY <2>1, EmptySum
    <3>2. QED BY <2>1, <3>1
  <2>2. CASE T # {}
    <3>1. PICK x \in T : TRUE
      BY <2>2
    <3>. DEFINE U == T \ {x}
    <3>2. Sum(U) = Sum(U \cap A) + Sum(U \ A)
      BY <1>1
    <3>3. Sum(T) = f[x] + Sum(U)
      BY <1>0
    <3>4. PICK r \in Int, q \in Int : r = Sum(U \cap A) /\ q = Sum(U \ A)
      BY <1>0
    <3>5. Sum(T) = f[x] + (r + q) /\ f[x] \in Int
      BY <3>2, <3>3, <3>4
    <3>6. CASE x \in A
      <4>1. U \cap A = (T \cap A) \ {x} /\ U \ A = T \ A
        BY <3>6
      <4>2. Sum(T \cap A) = f[x] + Sum((T \cap A) \ {x})
        BY <1>0, <3>6
      <4>3. Sum(T \cap A) = f[x] + r /\ Sum(T \ A) = q
        BY <3>4, <4>1, <4>2
      <4>4. f[x] + (r + q) = (f[x] + r) + q
        BY <3>5
      <4>5. QED BY <3>5, <4>3, <4>4
    <3>7. CASE x \notin A
      <4>1. U \ A = (T \ A) \ {x} /\ U \cap A = T \cap A
        BY <3>7
      <4>2. Sum(T \ A) = f[x] + Sum((T \ A) \ {x})
        BY <1>0, <3>7
      <4>3. Sum(T \ A) = f[x] + q /\ Sum(T \cap A) = r
        BY <3>4, <4>1, <4>2
      <4>4. f[x] + (r + q) = r + (f[x] + q)
        BY <3>5
      <4>5. QED BY <3>5, <4>3, <4>4
    <3>8. QED BY <3>6, <3>7
  <2>3. QED BY <2>1, <2>2
<1>2. P = SUBSET S
  <2>1. P \in SUBSET (SUBSET S)
    OBVIOUS
  <2>. HIDE DEF P
  <2>2. QED BY <1>1, <2>1, SubsetInduction
<1>3. S \cap A = A
  OBVIOUS
<1>4. QED BY <1>2, <1>3

(* More elements make a sum of naturals larger.                            *)
LEMMA SumGrows ==
  ASSUME NEW S, IsFiniteSet(S), NEW f, \A x \in S : f[x] \in Nat, NEW A \in SUBSET S
  PROVE  SumFunctionOnSet(f, A) <= SumFunctionOnSet(f, S)
<1>1. \A T \in SUBSET S : SumFunctionOnSet(f, T) \in Nat
  BY SumType
<1>2. \A x \in S : f[x] \in Int
  OBVIOUS
<1>3. SumFunctionOnSet(f, S) = SumFunctionOnSet(f, A) + SumFunctionOnSet(f, S \ A)
  BY <1>2, SumSplits
<1>4. SumFunctionOnSet(f, A) \in Nat /\ SumFunctionOnSet(f, S \ A) \in Nat
  BY <1>1
<1>5. QED BY <1>3, <1>4

(* What values have in common, sums have in common.                        *)
LEMMA SumIsLinear ==
  ASSUME NEW S, IsFiniteSet(S), NEW f, NEW g, NEW h, NEW a \in Int, NEW b \in Int,
         \A x \in S : f[x] \in Int /\ g[x] \in Int /\ h[x] = a * f[x] + b * g[x]
  PROVE  SumFunctionOnSet(h, S) = a * SumFunctionOnSet(f, S) + b * SumFunctionOnSet(g, S)
<1>. DEFINE P == {T \in SUBSET S : SumFunctionOnSet(h, T)
                                     = a * SumFunctionOnSet(f, T) + b * SumFunctionOnSet(g, T)}
<1>1. \A x \in S : f[x] \in Int /\ g[x] \in Int /\ h[x] \in Int
  OBVIOUS
<1>2. ASSUME NEW T \in SUBSET S, \A U \in SUBSET T : U # T => U \in P
      PROVE  T \in P
  <2>1. CASE T = {}
    <3>1. a * 0 + b * 0 = 0
      OBVIOUS
    <3>2. QED BY <2>1, <3>1, EmptySum
  <2>2. CASE T # {}
    <3>1. PICK x \in T : TRUE
      BY <2>2
    <3>2. PICK F \in Int, G \in Int : /\ F = SumFunctionOnSet(f, T \ {x})
                                      /\ G = SumFunctionOnSet(g, T \ {x})
      BY <1>1, SumType
    <3>3. SumFunctionOnSet(h, T \ {x}) = a * F + b * G
      BY <1>2, <3>2
    <3>4. /\ SumFunctionOnSet(f, T) = f[x] + F
          /\ SumFunctionOnSet(g, T) = g[x] + G
          /\ SumFunctionOnSet(h, T) = h[x] + (a * F + b * G)
      BY <1>1, <3>2, <3>3, SumTakesOut
    <3>5. PICK p \in Int, q \in Int : p = f[x] /\ q = g[x] /\ h[x] = a * p + b * q
      BY <1>1
    <3>6. (a * p + b * q) + (a * F + b * G) = a * (p + F) + b * (q + G)
      BY <3>2, <3>5
    <3>7. QED BY <3>4, <3>5, <3>6
  <2>3. QED BY <2>1, <2>2
<1>3. P = SUBSET S
  <2>1. P \in SUBSET (SUBSET S)
    OBVIOUS
  <2>. HIDE DEF P
  <2>2. QED BY <1>2, <2>1, SubsetInduction
<1>4. QED BY <1>3

LEMMA SumAgrees ==
  ASSUME NEW S, IsFiniteSet(S), NEW f, NEW g, \A x \in S : f[x] \in Int /\ g[x] = f[x]
  PROVE  SumFunctionOnSet(g, S) = SumFunctionOnSet(f, S)
<1>1. \A x \in S : f[x] \in Int /\ f[x] \in Int /\ g[x] = 1 * f[x] + 0 * f[x]
  OBVIOUS
<1>2. SumFunctionOnSet(g, S) = 1 * SumFunctionOnSet(f, S) + 0 * SumFunctionOnSet(f, S)
  BY <1>1, SumIsLinear
<1>3. SumFunctionOnSet(f, S) \in Int
  BY SumType
<1>4. QED BY <1>2, <1>3

(* Where one value is larger by one, so is the sum.                        *)
LEMMA SumCounts ==
  ASSUME NEW S, IsFiniteSet(S), NEW f, NEW g, NEW y \in S, \A x \in S : f[x] \in Int,
         \A x \in S : g[x] = IF x = y THEN f[x] + 1 ELSE f[x]
  PROVE  SumFunctionOnSet(g, S) = SumFunctionOnSet(f, S) + 1
<1>1. \A x \in S : g[x] \in Int
  OBVIOUS
<1>2. SumFunctionOnSet(g, S \ {y}) = SumFunctionOnSet(f, S \ {y})
  <2>1. IsFiniteSet(S \ {y})
    BY FS_RemoveElement
  <2>2. \A x \in S \ {y} : f[x] \in Int /\ g[x] = f[x]
    OBVIOUS
  <2>3. QED BY <2>1, <2>2, SumAgrees
<1>3. PICK r \in Int : r = SumFunctionOnSet(f, S \ {y})
  BY SumType
<1>4. SumFunctionOnSet(f, S) = f[y] + r /\ SumFunctionOnSet(g, S) = g[y] + r
  BY <1>1, <1>2, <1>3, SumTakesOut
<1>5. QED BY <1>4

(* A sum of terms between -k and k is at most k per term away from 0.      *)
LEMMA SumIsBounded ==
  ASSUME NEW S, IsFiniteSet(S), NEW f, NEW k \in Nat,
         \A x \in S : f[x] \in Int /\ f[x] <= k /\ -k <= f[x]
  PROVE  /\ SumFunctionOnSet(f, S) <= k * Cardinality(S)
         /\ -(k * Cardinality(S)) <= SumFunctionOnSet(f, S)
<1>. DEFINE P == {T \in SUBSET S : /\ SumFunctionOnSet(f, T) <= k * Cardinality(T)
                                   /\ -(k * Cardinality(T)) <= SumFunctionOnSet(f, T)}
<1>1. ASSUME NEW T \in SUBSET S, \A U \in SUBSET T : U # T => U \in P
      PROVE  T \in P
  <2>1. CASE T = {}
    <3>1. k * 0 = 0 /\ Cardinality({}) = 0 /\ SumFunctionOnSet(f, {}) = 0
      BY EmptySum, FS_EmptySet
    <3>2. QED BY <2>1, <3>1
  <2>2. CASE T # {}
    <3>1. PICK x \in T : TRUE
      BY <2>2
    <3>2. PICK F \in Int : F = SumFunctionOnSet(f, T \ {x})
      BY SumType
    <3>3. PICK n \in Nat : n = Cardinality(T \ {x})
      BY FS_Subset, FS_CardinalityType
    <3>4. Cardinality(T) = n + 1
      <4>1. T \ {x} \in SUBSET S /\ x \notin T \ {x} /\ (T \ {x}) \cup {x} = T
        OBVIOUS
      <4>2. QED BY <3>3, <4>1, FS_Subset, FS_AddElement
    <3>5. F <= k * n /\ -(k * n) <= F
      BY <1>1, <3>2, <3>3
    <3>6. SumFunctionOnSet(f, T) = f[x] + F
      BY <3>2, SumTakesOut
    <3>7. k * (n + 1) = k * n + k /\ k * n \in Int
      BY <3>3
    <3>8. PICK p \in Int : p = f[x] /\ p <= k /\ -k <= p
      OBVIOUS
    <3>9. p + F <= k * n + k /\ -(k * n + k) <= p + F
      BY <3>2, <3>5, <3>7, <3>8
    <3>10. QED BY <3>4, <3>6, <3>7, <3>8, <3>9
  <2>3. QED BY <2>1, <2>2
<1>2. P = SUBSET S
  <2>1. P \in SUBSET (SUBSET S)
    OBVIOUS
  <2>. HIDE DEF P
  <2>2. QED BY <1>1, <2>1, SubsetInduction
<1>3. QED BY <1>2

(* The same values under other names.                                      *)
LEMMA SumRenames ==
  ASSUME NEW S, IsFiniteSet(S), NEW f, NEW g, NEW name,
         \A x \in S : f[x] \in Int /\ g[name[x]] = f[x],
         \A x, y \in S : name[x] = name[y] => x = y
  PROVE  /\ IsFiniteSet({name[x] : x \in S})
         /\ Cardinality({name[x] : x \in S}) = Cardinality(S)
         /\ SumFunctionOnSet(g, {name[x] : x \in S}) = SumFunctionOnSet(f, S)
<1>. DEFINE Image(T) == {name[x] : x \in T}
            P == {T \in SUBSET S : /\ IsFiniteSet(Image(T))
                                   /\ Cardinality(Image(T)) = Cardinality(T)
                                   /\ SumFunctionOnSet(g, Image(T)) = SumFunctionOnSet(f, T)}
<1>1. ASSUME NEW T \in SUBSET S, \A U \in SUBSET T : U # T => U \in P
      PROVE  T \in P
  <2>1. CASE T = {}
    <3>1. Image(T) = {}
      BY <2>1
    <3>2. QED BY <2>1, <3>1, EmptySum, FS_EmptySet
  <2>2. CASE T # {}
    <3>1. PICK x \in T : TRUE
      BY <2>2
    <3>. DEFINE U == T \ {x}
                new == name[x]
    <3>2. U \in P
      BY <1>1
    <3>3. Image(T) = Image(U) \cup {new} /\ new \notin Image(U) /\ Image(T) \ {new} = Image(U)
      OBVIOUS
    <3>4. IsFiniteSet(T) /\ IsFiniteSet(U) /\ T = U \cup {x} /\ x \notin U
      BY FS_Subset
    <3>5. \A v \in Image(T) : g[v] \in Int
      OBVIOUS
    <3>6. PICK V, W : V = Image(U) /\ W = Image(T)
      OBVIOUS
    <3>7. /\ IsFiniteSet(V) /\ Cardinality(V) = Cardinality(U)
          /\ SumFunctionOnSet(g, V) = SumFunctionOnSet(f, U)
          /\ W = V \cup {new} /\ new \notin V /\ W \ {new} = V
          /\ \A v \in W : g[v] \in Int
      BY <3>2, <3>3, <3>5, <3>6
    <3>. HIDE DEF Image, U, new
    <3>8. IsFiniteSet(W) /\ Cardinality(W) = Cardinality(V) + 1
      BY <3>7, FS_AddElement
    <3>9. Cardinality(T) = Cardinality(U) + 1
      BY <3>4, FS_AddElement
    <3>10. SumFunctionOnSet(f, T) = f[x] + SumFunctionOnSet(f, U)
      BY SumTakesOut DEF U
    <3>11. SumFunctionOnSet(g, W) = g[new] + SumFunctionOnSet(g, V)
      BY <3>7, <3>8, SumTakesOut
    <3>12. g[new] = f[x]
      BY DEF new
    <3>13. QED BY <3>6, <3>7, <3>8, <3>9, <3>10, <3>11, <3>12
  <2>3. QED BY <2>1, <2>2
<1>2. P = SUBSET S
  <2>1. P \in SUBSET (SUBSET S)
    OBVIOUS
  <2>. HIDE DEF P
  <2>2. QED BY <1>1, <2>1, SubsetInduction
<1>3. QED BY <1>2
===============================================================================
