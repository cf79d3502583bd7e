------------------------------ MODULE SumLemmas ------------------------------
(***************************************************************************)
(* Facts about SumFunctionOnSet, with which the models count bytes and     *)
(* frames, and the induction they rest on: a collection of finite sets     *)
(* that is not empty has a member that is minimal in it.  The weights are  *)
(* a function, so that the lemmas can be used for any of them.             *)
(***************************************************************************)
EXTENDS Integers, Sequences, FiniteSets, Functions, FiniteSetTheorems, WellFoundedInduction, TLAPS

\* A set of naturals that is not empty has a least element.
LEMMA LeastNat ==
  ASSUME NEW T, T \subseteq Nat, T # {}
  PROVE  \E n \in T : \A m \in T : n <= m
<1>1. PICK x \in T : \A y \in T : ~(<<y, x>> \in OpToRel(<, Nat))
  BY NatLessThanWellFounded, WFMin
<1>2. \A y \in T : y < x => <<y, x>> \in OpToRel(<, Nat)
  BY DEF OpToRel
<1>3. \A y \in T : ~(y < x)
  BY <1>1, <1>2
<1>4. \A y \in T : x <= y
  BY <1>3
<1> QED  BY <1>4

\* A bounded set of naturals that is not empty has a greatest element.
LEMMA GreatestNat ==
  ASSUME NEW T, T \subseteq Nat, T # {}, NEW b \in Nat, \A n \in T : n <= b
  PROVE  \E n \in T : \A m \in T : m <= n
<1> DEFINE U == {b - n : n \in T}
<1>1. U \subseteq Nat /\ U # {}
  OBVIOUS
<1>2. PICK u \in U : \A v \in U : u <= v
  <2> HIDE DEF U
  <2> QED  BY <1>1, LeastNat
<1>3. PICK n \in T : u = b - n
  OBVIOUS
<1>4. ASSUME NEW m \in T PROVE m <= n
  <2>1. b - m \in U
    OBVIOUS
  <2>2. b - n <= b - m
    BY <1>2, <1>3, <2>1
  <2> QED  BY <2>2
<1> QED  BY <1>4

\* Induction over finite sets: a collection of them that is not empty has a member
\* from which no element can be taken out without leaving the collection.
LEMMA MinimalSet ==
  ASSUME NEW C, C # {}, \A s \in C : IsFiniteSet(s)
  PROVE  \E s \in C : \A x \in s : s \ {x} \notin C
<1> DEFINE Sizes == {Cardinality(s) : s \in C}
<1>1. Sizes \subseteq Nat /\ Sizes # {}
  BY FS_CardinalityType
<1>2. PICK n \in Sizes : \A m \in Sizes : n <= m
  <2> HIDE DEF Sizes
  <2> QED  BY <1>1, LeastNat
<1>3. PICK s \in C : n = Cardinality(s)
  OBVIOUS
<1>4. ASSUME NEW x \in s, s \ {x} \in C PROVE FALSE
  <2>1. Cardinality(s \ {x}) = n - 1 /\ n \in Nat
    BY <1>3, FS_RemoveElement, FS_CardinalityType
  <2>2. n <= Cardinality(s \ {x})
    BY <1>2, <1>4
  <2> QED  BY <2>1, <2>2
<1> QED  BY <1>4

-----------------------------------------------------------------------------
(* SumFunctionOnSet is a recursive function on the subsets of the set.     *)

Pick(s) == CHOOSE x \in s : TRUE

\* One unfolding of the recursive function, and the functions it leaves alone.
Unfold(g, w, D) == [s \in D |-> IF s = {} THEN 0 ELSE w[Pick(s)] + g[s \ {Pick(s)}]]
IsSum(g, w, S)  == g = Unfold(g, w, SUBSET S)

\* SumFunctionOnSet is a function that the unfolding leaves alone, at the whole set.
LEMMA SumIsUnfolding ==
  ASSUME NEW w, NEW S
  PROVE  SumFunctionOnSet(w, S) = (CHOOSE g : IsSum(g, w, S))[S]
  BY DEF SumFunctionOnSet, FoldFunctionOnSet, MapThenFoldSet, IsSum, Unfold, Pick

\* What is picked from a set that is not empty is in it.
LEMMA PickIn == ASSUME NEW s, s # {} PROVE Pick(s) \in s
  BY DEF Pick

\* Two such functions agree where both are defined.
LEMMA UnfoldingsAgree ==
  ASSUME NEW w, NEW S, NEW T, IsFiniteSet(S), T \subseteq S,
         NEW g, NEW h, IsSum(g, w, S), IsSum(h, w, T)
  PROVE  \A s \in SUBSET T : g[s] = h[s]
<1> DEFINE C == {s \in SUBSET T : g[s] # h[s]}
<1> SUFFICES ASSUME C # {} PROVE FALSE
  OBVIOUS
<1>1. \A s \in C : IsFiniteSet(s)
  BY FS_Subset
<1>2. PICK s \in C : \A x \in s : s \ {x} \notin C
  <2> HIDE DEF C
  <2> QED  BY <1>1, MinimalSet
<1>3. s \in SUBSET S
  OBVIOUS
<1>4. s # {}
  BY <1>3 DEF IsSum, Unfold
<1>5. g[s \ {Pick(s)}] = h[s \ {Pick(s)}]
  BY <1>2, <1>4, PickIn
<1>6. g[s] = w[Pick(s)] + g[s \ {Pick(s)}]
  BY <1>3, <1>4 DEF IsSum, Unfold
<1>7. h[s] = w[Pick(s)] + h[s \ {Pick(s)}]
  BY <1>4 DEF IsSum, Unfold
<1> QED  BY <1>5, <1>6, <1>7

\* There is one: it is built up by the number of elements.
LEMMA UnfoldingExists ==
  ASSUME NEW w, NEW S, IsFiniteSet(S)
  PROVE  \E g : IsSum(g, w, S)
<1> DEFINE Small(n) == {s \in SUBSET S : Cardinality(s) <= n}
           Has(n)   == \E g : g = Unfold(g, w, Small(n))
           Bad      == {n \in Nat : ~Has(n)}
<1>1. \A s \in SUBSET S : IsFiniteSet(s) /\ Cardinality(s) \in Nat
                          /\ Cardinality(s) <= Cardinality(S)
  BY FS_Subset, FS_CardinalityType
<1>2. Has(0)
  <2> DEFINE g == [s \in Small(0) |-> 0]
  <2>1. \A s \in Small(0) : s = {}
    BY <1>1, FS_EmptySet
  <2>2. g = Unfold(g, w, Small(0))
    BY <2>1 DEF IsSum, Unfold
  <2> QED  BY <2>2
<1>3. ASSUME NEW n \in Nat \ {0}, Has(n - 1) PROVE Has(n)
  <2>1. PICK g : g = Unfold(g, w, Small(n - 1))
    BY <1>3
  <2> DEFINE h == Unfold(g, w, Small(n))
  <2>2. Small(n - 1) \subseteq Small(n)
    BY <1>1
  <2>3. \A s \in Small(n - 1) : h[s] = g[s]
    BY <2>1, <2>2 DEF IsSum, Unfold
  <2>4. \A s \in Small(n) : s # {} => s \ {Pick(s)} \in Small(n - 1)
    BY <1>1, PickIn, FS_RemoveElement
  <2>5. h = Unfold(h, w, Small(n))
    BY <2>3, <2>4 DEF IsSum, Unfold
  <2> QED  BY <2>5
<1>4. ASSUME Bad # {} PROVE FALSE
  <2>1. PICK n \in Bad : \A m \in Bad : n <= m
    <3>1. Bad \subseteq Nat
      OBVIOUS
    <3> HIDE DEF Bad
    <3> QED  BY <1>4, <3>1, LeastNat
  <2>2. n \in Nat \ {0} /\ ~Has(n)
    BY <1>2
  <2>3. Has(n - 1)
    <3>1. n - 1 \in Nat /\ ~(n <= n - 1)
      BY <2>2
    <3> QED  BY <2>1, <3>1
  <2> QED  BY <1>3, <2>2, <2>3
<1>5. Has(Cardinality(S))
  BY <1>1, <1>4
<1>6. Small(Cardinality(S)) = SUBSET S
  BY <1>1
<1> QED  BY <1>5, <1>6 DEF IsSum

\* A sum is the weight of the element picked and the sum of the others.
LEMMA SumUnfolds ==
  ASSUME NEW w, NEW S, IsFiniteSet(S), S # {}
  PROVE  SumFunctionOnSet(w, S) = w[Pick(S)] + SumFunctionOnSet(w, S \ {Pick(S)})
<1> DEFINE T == S \ {Pick(S)}
           g == CHOOSE g : IsSum(g, w, S)
           h == CHOOSE h : IsSum(h, w, T)
<1>1. IsFiniteSet(T)
  BY FS_RemoveElement
<1>2. IsSum(g, w, S)
  BY UnfoldingExists
<1>3. IsSum(h, w, T)
  BY <1>1, UnfoldingExists
<1>4. SumFunctionOnSet(w, S) = g[S] /\ SumFunctionOnSet(w, T) = h[T]
  BY SumIsUnfolding
<1>5. g[T] = h[T]
  <2> HIDE DEF g, h
  <2> QED  BY <1>2, <1>3, UnfoldingsAgree
<1>6. g[S] = w[Pick(S)] + g[T]
  <2> HIDE DEF g
  <2> QED  BY <1>2 DEF IsSum, Unfold
<1> QED  BY <1>4, <1>5, <1>6

-----------------------------------------------------------------------------
(* What the proofs about the models use.                                   *)

Weights(w, S) == IsFiniteSet(S) /\ \A x \in S : w[x] \in Nat

\* The empty sum.
LEMMA SumEmpty == ASSUME NEW w PROVE SumFunctionOnSet(w, {}) = 0
<1>1. IsSum(CHOOSE g : IsSum(g, w, {}), w, {})
  BY UnfoldingExists, FS_EmptySet
<1> QED  BY <1>1, SumIsUnfolding DEF IsSum, Unfold

\* A sum of naturals is a natural.
LEMMA SumType ==
  ASSUME NEW w, NEW S, Weights(w, S)
  PROVE  SumFunctionOnSet(w, S) \in Nat
<1> DEFINE C == {s \in SUBSET S : SumFunctionOnSet(w, s) \notin Nat}
<1> SUFFICES ASSUME C # {} PROVE FALSE
  OBVIOUS
<1>1. \A s \in SUBSET S : IsFiniteSet(s)
  BY FS_Subset DEF Weights
<1>2. PICK s \in C : \A x \in s : s \ {x} \notin C
  <2>1. \A s \in C : IsFiniteSet(s)
    BY <1>1
  <2> HIDE DEF C
  <2> QED  BY <2>1, MinimalSet
<1>3. s # {}
  BY <1>2, SumEmpty
<1>4. Pick(s) \in s
  BY <1>3, PickIn
<1>5. SumFunctionOnSet(w, s) = w[Pick(s)] + SumFunctionOnSet(w, s \ {Pick(s)})
  BY <1>1, <1>3, SumUnfolds
<1>6. SumFunctionOnSet(w, s \ {Pick(s)}) \in Nat
  BY <1>2, <1>4
<1> QED  BY <1>4, <1>5, <1>6 DEF Weights

\* Any element can be taken out of the sum.
LEMMA SumRemove ==
  ASSUME NEW w, NEW S, Weights(w, S), NEW y \in S
  PROVE  SumFunctionOnSet(w, S) = w[y] + SumFunctionOnSet(w, S \ {y})
<1> DEFINE Good(s) == \A x \in s : SumFunctionOnSet(w, s) = w[x] + SumFunctionOnSet(w, s \ {x})
           C       == {s \in SUBSET S : ~Good(s)}
<1> SUFFICES ASSUME C # {} PROVE FALSE
  OBVIOUS
<1>1. \A s \in SUBSET S : IsFiniteSet(s) /\ Weights(w, s)
  BY FS_Subset DEF Weights
<1>2. PICK s \in C : \A x \in s : s \ {x} \notin C
  <2>1. \A s \in C : IsFiniteSet(s)
    BY <1>1
  <2> HIDE DEF C
  <2> QED  BY <2>1, MinimalSet
<1>3. PICK x \in s : SumFunctionOnSet(w, s) # w[x] + SumFunctionOnSet(w, s \ {x})
  BY <1>2
<1> DEFINE p == Pick(s)
<1>4. p \in s
  BY <1>3, PickIn
<1>5. SumFunctionOnSet(w, s) = w[p] + SumFunctionOnSet(w, s \ {p})
  BY <1>1, <1>3, SumUnfolds
<1>6. x # p
  BY <1>3, <1>5
<1>7. Good(s \ {p}) /\ Good(s \ {x})
  BY <1>2, <1>4
<1>8. SumFunctionOnSet(w, s \ {p}) = w[x] + SumFunctionOnSet(w, (s \ {p}) \ {x})
  BY <1>6, <1>7
<1>9. SumFunctionOnSet(w, s \ {x}) = w[p] + SumFunctionOnSet(w, (s \ {x}) \ {p})
  BY <1>4, <1>6, <1>7
<1>10. (s \ {p}) \ {x} = (s \ {x}) \ {p}
  OBVIOUS
<1>11. w[x] \in Nat /\ w[p] \in Nat /\ SumFunctionOnSet(w, (s \ {p}) \ {x}) \in Nat
  BY <1>1, <1>4, SumType DEF Weights
<1> DEFINE a == SumFunctionOnSet(w, (s \ {p}) \ {x})
<1>12. SumFunctionOnSet(w, s) = w[p] + (w[x] + a)
  BY <1>5, <1>8
<1>13. SumFunctionOnSet(w, s \ {x}) = w[p] + a
  BY <1>9, <1>10
<1>14. w[p] + (w[x] + a) = w[x] + (w[p] + a)
  <2>1. a \in Nat /\ w[x] \in Nat /\ w[p] \in Nat
    BY <1>11
  <2> HIDE DEF a, p
  <2> QED  BY <2>1
<1> QED  BY <1>3, <1>12, <1>13, <1>14

\* An element that joins adds its weight.
LEMMA SumAdd ==
  ASSUME NEW w, NEW S, Weights(w, S), NEW y, y \notin S, w[y] \in Nat
  PROVE  SumFunctionOnSet(w, S \cup {y}) = w[y] + SumFunctionOnSet(w, S)
<1>1. Weights(w, S \cup {y})
  BY FS_AddElement DEF Weights
<1>2. (S \cup {y}) \ {y} = S
  OBVIOUS
<1>3. y \in S \cup {y}
  OBVIOUS
<1> QED  BY <1>1, <1>2, <1>3, SumRemove

\* Equal weights give equal sums.
LEMMA SumSame ==
  ASSUME NEW w, NEW v, NEW S, IsFiniteSet(S), \A x \in S : w[x] = v[x]
  PROVE  SumFunctionOnSet(w, S) = SumFunctionOnSet(v, S)
<1> DEFINE C == {s \in SUBSET S : SumFunctionOnSet(w, s) # SumFunctionOnSet(v, s)}
<1> SUFFICES ASSUME C # {} PROVE FALSE
  OBVIOUS
<1>1. \A s \in SUBSET S : IsFiniteSet(s)
  BY FS_Subset
<1>2. PICK s \in C : \A x \in s : s \ {x} \notin C
  <2>1. \A s \in C : IsFiniteSet(s)
    BY <1>1
  <2> HIDE DEF C
  <2> QED  BY <2>1, MinimalSet
<1>3. s # {}
  BY <1>2, SumEmpty
<1>4. Pick(s) \in s
  BY <1>3, PickIn
<1>5. SumFunctionOnSet(w, s \ {Pick(s)}) = SumFunctionOnSet(v, s \ {Pick(s)})
  BY <1>2, <1>4
<1>6. /\ SumFunctionOnSet(w, s) = w[Pick(s)] + SumFunctionOnSet(w, s \ {Pick(s)})
      /\ SumFunctionOnSet(v, s) = v[Pick(s)] + SumFunctionOnSet(v, s \ {Pick(s)})
  BY <1>1, <1>3, SumUnfolds
<1> QED  BY <1>2, <1>4, <1>5, <1>6

\* The sums of two parts that have nothing in common add up.
LEMMA SumParts ==
  ASSUME NEW w, NEW S, Weights(w, S), NEW T \in SUBSET S
  PROVE  SumFunctionOnSet(w, S) = SumFunctionOnSet(w, T) + SumFunctionOnSet(w, S \ T)
<1> DEFINE Good(t) == SumFunctionOnSet(w, S) =
                        SumFunctionOnSet(w, t) + SumFunctionOnSet(w, S \ t)
           C       == {t \in SUBSET S : ~Good(t)}
<1> SUFFICES ASSUME C # {} PROVE FALSE
  OBVIOUS
<1>1. \A t \in SUBSET S : IsFiniteSet(t) /\ Weights(w, t) /\ SumFunctionOnSet(w, t) \in Nat
  BY FS_Subset, SumType DEF Weights
<1>2. PICK t \in C : \A x \in t : t \ {x} \notin C
  <2>1. \A t \in C : IsFiniteSet(t)
    BY <1>1
  <2> HIDE DEF C
  <2> QED  BY <2>1, MinimalSet
<1>3. t # {}
  <2>1. Good({})
    <3>1. S \ {} = S
      OBVIOUS
    <3> QED  BY <1>1, <3>1, SumEmpty
  <2> QED  BY <2>1
<1>4. PICK x \in t : TRUE
  BY <1>3
<1>5. Good(t \ {x})
  BY <1>2
<1>6. SumFunctionOnSet(w, t) = w[x] + SumFunctionOnSet(w, t \ {x})
  BY <1>1, SumRemove
<1>7. SumFunctionOnSet(w, S \ (t \ {x})) = w[x] + SumFunctionOnSet(w, S \ t)
  <2>1. S \ (t \ {x}) = (S \ t) \cup {x} /\ x \notin S \ t
    BY <1>4
  <2>2. Weights(w, S \ t) /\ w[x] \in Nat
    BY <1>1 DEF Weights
  <2> QED  BY <2>1, <2>2, SumAdd
<1>8. /\ w[x] \in Nat /\ SumFunctionOnSet(w, t \ {x}) \in Nat
      /\ SumFunctionOnSet(w, S \ t) \in Nat
  <2>1. t \ {x} \in SUBSET S /\ S \ t \in SUBSET S
    OBVIOUS
  <2> QED  BY <1>1, <2>1 DEF Weights
<1>9. Good(t)
  BY <1>5, <1>6, <1>7, <1>8
<1> QED  BY <1>9

\* A part has at most the sum of the whole.
LEMMA SumSubset ==
  ASSUME NEW w, NEW S, Weights(w, S), NEW T \in SUBSET S
  PROVE  SumFunctionOnSet(w, T) <= SumFunctionOnSet(w, S)
<1>1. Weights(w, T) /\ Weights(w, S \ T)
  BY FS_Subset DEF Weights
<1> QED  BY <1>1, SumType, SumParts

\* A sum is at most the number of its terms times the largest.
LEMMA SumBound ==
  ASSUME NEW w, NEW S, Weights(w, S), NEW n \in Nat, \A x \in S : w[x] <= n
  PROVE  SumFunctionOnSet(w, S) <= Cardinality(S) * n
<1> DEFINE C == {s \in SUBSET S : ~(SumFunctionOnSet(w, s) <= Cardinality(s) * n)}
<1> SUFFICES ASSUME C # {} PROVE FALSE
  OBVIOUS
<1>1. \A s \in SUBSET S : /\ IsFiniteSet(s) /\ Weights(w, s) /\ SumFunctionOnSet(w, s) \in Nat
                          /\ Cardinality(s) \in Nat
  BY FS_Subset, FS_CardinalityType, SumType DEF Weights
<1>2. PICK s \in C : \A x \in s : s \ {x} \notin C
  <2>1. \A s \in C : IsFiniteSet(s)
    BY <1>1
  <2> HIDE DEF C
  <2> QED  BY <2>1, MinimalSet
<1>3. s # {}
  <2>1. SumFunctionOnSet(w, {}) = 0 /\ Cardinality({}) = 0 /\ 0 * n = 0
    BY SumEmpty, FS_EmptySet
  <2> QED  BY <1>2, <2>1
<1>4. PICK x \in s : TRUE
  BY <1>3
<1> DEFINE c == Cardinality(s \ {x})
           a == SumFunctionOnSet(w, s \ {x})
<1>5. c \in Nat /\ a \in Nat /\ w[x] \in Nat /\ w[x] <= n /\ a <= c * n
  <2>1. s \ {x} \in SUBSET S
    OBVIOUS
  <2> QED  BY <1>1, <1>2, <2>1 DEF Weights
<1>6. Cardinality(s) = c + 1 /\ SumFunctionOnSet(w, s) = w[x] + a
  <2>1. c = Cardinality(s) - 1 /\ Cardinality(s) \in Nat
    BY <1>1, FS_RemoveElement
  <2>2. SumFunctionOnSet(w, s) = w[x] + a
    BY <1>1, SumRemove
  <2> HIDE DEF c
  <2> QED  BY <2>1, <2>2
<1>7. w[x] + a <= (c + 1) * n
  <2> HIDE DEF c, a
  <2>1. (c + 1) * n = c * n + n
    BY <1>5
  <2>2. c * n \in Nat
    BY <1>5
  <2> QED  BY <1>5, <2>1, <2>2
<1> QED  BY <1>2, <1>6, <1>7

-----------------------------------------------------------------------------
(* Sums along a queue.                                                     *)

Along(w, q)    == [i \in 1..Len(q) |-> w[q[i]]]
SumAlong(w, q) == SumFunctionOnSet(Along(w, q), 1..Len(q))

\* Weights moved by one place have the same sum.
LEMMA SumShift ==
  ASSUME NEW n \in Nat, NEW v, NEW w,
         \A i \in 1..n : v[i] = w[i + 1] /\ w[i + 1] \in Nat
  PROVE  SumFunctionOnSet(v, 1..n) = SumFunctionOnSet(w, 2..(n + 1))
<1> DEFINE Good(k) == SumFunctionOnSet(v, 1..k) = SumFunctionOnSet(w, 2..(k + 1))
           Bad     == {k \in 0..n : ~Good(k)}
<1>1. Good(0)
  <2>1. 1..0 = {} /\ 2..(0 + 1) = {}
    OBVIOUS
  <2> QED  BY <2>1, SumEmpty
<1>2. ASSUME NEW k \in 1..n, Good(k - 1) PROVE Good(k)
  <2> DEFINE A == 1..(k - 1)
             B == 2..k
  <2>1. /\ 1..k = A \cup {k} /\ k \notin A
        /\ 2..(k + 1) = B \cup {k + 1} /\ k + 1 \notin B
    OBVIOUS
  <2>2. IsFiniteSet(A) /\ IsFiniteSet(B)
    <3>1. k - 1 \in Int /\ k \in Int /\ 1 \in Int /\ 2 \in Int
      OBVIOUS
    <3> QED  BY <3>1, FS_Interval
  <2>3. Weights(v, A) /\ v[k] \in Nat /\ Weights(w, B) /\ w[k + 1] \in Nat /\ v[k] = w[k + 1]
    <3>1. \A i \in A : v[i] \in Nat
      OBVIOUS
    <3>2. \A i \in B : w[i] \in Nat
      <4> SUFFICES ASSUME NEW i \in B PROVE w[i] \in Nat
        OBVIOUS
      <4>1. i - 1 \in 1..n /\ i - 1 + 1 = i
        OBVIOUS
      <4> QED  BY <4>1
    <3> QED  BY <2>2, <3>1, <3>2 DEF Weights
  <2> HIDE DEF A, B
  <2>4. SumFunctionOnSet(v, A \cup {k}) = v[k] + SumFunctionOnSet(v, A)
    BY <2>1, <2>3, SumAdd
  <2> DEFINE j == k + 1
  <2>5. j \notin B /\ w[j] \in Nat
    BY <2>1, <2>3
  <2> HIDE DEF j
  <2>6. SumFunctionOnSet(w, B \cup {j}) = w[j] + SumFunctionOnSet(w, B)
    BY <2>3, <2>5, SumAdd
  <2>7. SumFunctionOnSet(v, A) = SumFunctionOnSet(w, B)
    <3>1. k - 1 + 1 = k
      OBVIOUS
    <3> QED  BY <1>2, <3>1 DEF A, B
  <2> QED  BY <2>1, <2>3, <2>4, <2>6, <2>7 DEF j
<1> HIDE DEF Good
<1>3. ASSUME Bad # {} PROVE FALSE
  <2>1. PICK k \in Bad : \A m \in Bad : k <= m
    <3>1. Bad \subseteq Nat
      OBVIOUS
    <3> HIDE DEF Bad
    <3> QED  BY <1>3, <3>1, LeastNat
  <2>2. k \in 1..n /\ ~Good(k)
    BY <1>1
  <2>3. Good(k - 1)
    <3>1. k - 1 \in 0..n /\ ~(k <= k - 1)
      BY <2>2
    <3> QED  BY <2>1, <3>1
  <2> QED  BY <1>2, <2>2, <2>3
<1>4. Good(n)
  BY <1>3
<1> QED  BY <1>4 DEF Good

\* The empty queue.
LEMMA AlongEmpty == ASSUME NEW w PROVE SumAlong(w, <<>>) = 0
<1>1. 1..Len(<<>>) = {}
  OBVIOUS
<1> QED  BY <1>1, SumEmpty DEF SumAlong

\* Every sum along a queue is a natural.
LEMMA AlongType ==
  ASSUME NEW S, NEW w, \A x \in S : w[x] \in Nat, NEW q \in Seq(S)
  PROVE  /\ SumAlong(w, q) \in Nat
         /\ Weights(Along(w, q), 1..Len(q))
<1>1. Len(q) \in Int /\ 1 \in Int /\ \A i \in 1..Len(q) : Along(w, q)[i] \in Nat
  BY DEF Along
<1>2. Weights(Along(w, q), 1..Len(q))
  BY <1>1, FS_Interval DEF Weights
<1> QED  BY <1>2, SumType DEF SumAlong

\* What is put at the tail adds its weight.
LEMMA AlongAppend ==
  ASSUME NEW S, NEW w, \A x \in S : w[x] \in Nat, NEW q \in Seq(S), NEW y \in S
  PROVE  SumAlong(w, Append(q, y)) = w[y] + SumAlong(w, q)
<1> DEFINE n == Len(q)
           v == Along(w, Append(q, y))
           u == Along(w, q)
           I == 1..n
           j == n + 1
<1>1. /\ n \in Nat /\ Len(Append(q, y)) = j /\ 1..j = I \cup {j} /\ j \notin I
      /\ v[j] = w[y] /\ \A i \in I : v[i] = u[i]
  BY DEF Along
<1>2. Weights(u, I)
  BY AlongType
<1>3. Weights(v, I) /\ v[j] \in Nat /\ j \notin I
  BY <1>1, <1>2 DEF Weights
<1>4. SumFunctionOnSet(v, I \cup {j}) = v[j] + SumFunctionOnSet(v, I)
  <2> HIDE DEF v, I, j
  <2> QED  BY <1>3, SumAdd
<1>5. SumFunctionOnSet(v, I) = SumFunctionOnSet(u, I)
  <2>1. IsFiniteSet(I) /\ \A i \in I : v[i] = u[i]
    BY <1>1, <1>2 DEF Weights
  <2> HIDE DEF v, u, I
  <2> QED  BY <2>1, SumSame
<1>6. SumAlong(w, Append(q, y)) = SumFunctionOnSet(v, I \cup {j})
  <2> HIDE DEF I, j
  <2> QED  BY <1>1 DEF SumAlong
<1> QED  BY <1>1, <1>4, <1>5, <1>6 DEF SumAlong

\* What is taken from the head takes its weight along.
LEMMA AlongTail ==
  ASSUME NEW S, NEW w, \A x \in S : w[x] \in Nat, NEW q \in Seq(S), q # <<>>
  PROVE  SumAlong(w, q) = w[Head(q)] + SumAlong(w, Tail(q))
<1> DEFINE n == Len(q) - 1
           v == Along(w, Tail(q))
           u == Along(w, q)
           I == 1..Len(q)
<1>1. /\ n \in Nat /\ Len(Tail(q)) = n /\ n + 1 = Len(q)
      /\ 1 \in I /\ I \ {1} = 2..(n + 1) /\ u[1] = w[Head(q)]
      /\ \A i \in 1..n : v[i] = u[i + 1]
  BY DEF Along
<1>2. Weights(u, I)
  BY AlongType
<1>3. \A i \in 1..n : u[i + 1] \in Nat
  <2> SUFFICES ASSUME NEW i \in 1..n PROVE u[i + 1] \in Nat
    OBVIOUS
  <2>1. i + 1 \in I
    OBVIOUS
  <2> QED  BY <1>2, <2>1 DEF Weights
<1>4. SumFunctionOnSet(u, I) = u[1] + SumFunctionOnSet(u, I \ {1})
  <2>1. 1 \in I
    BY <1>1
  <2> DEFINE one == 1
  <2>2. one \in I
    BY <2>1
  <2> HIDE DEF u, I, one
  <2>3. SumFunctionOnSet(u, I) = u[one] + SumFunctionOnSet(u, I \ {one})
    BY <1>2, <2>2, SumRemove
  <2> QED  BY <2>3 DEF one
<1>5. SumFunctionOnSet(v, 1..n) = SumFunctionOnSet(u, 2..(n + 1))
  <2>1. \A i \in 1..n : v[i] = u[i + 1] /\ u[i + 1] \in Nat
    BY <1>1, <1>3
  <2> HIDE DEF u, v, n
  <2> QED  BY <1>1, <2>1, SumShift
<1>6. SumAlong(w, Tail(q)) = SumFunctionOnSet(v, 1..n)
  BY <1>1 DEF SumAlong
<1>7. SumAlong(w, q) = SumFunctionOnSet(u, I)
  BY DEF SumAlong
<1> HIDE DEF u, v, I, n
<1> QED  BY <1>1, <1>4, <1>5, <1>6, <1>7
=============================================================================
