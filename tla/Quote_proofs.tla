------------------------------ MODULE Quote_proofs ------------------------------
(***************************************************************************)
(* What Quote promises, for any catalogue, carts, requests and bounds.     *)
(*                                                                         *)
(*   1. Sums and products over finite sets, for all that follows: induction*)
(*      over the subsets of a finite set, then the laws of a sum.          *)
(*   2. The invariant: every sale is a snapshot of its request, its amounts*)
(*      are in range and add up, and an untouched estimate is the price.   *)
(*   3. Held orders and sales follow the same rules; what is stored is in  *)
(*      range; a receipt adds up and never changes.                        *)
(*   4. A request that comes again is told from every other.               *)
(*   5. The reports agree, whatever was rounded.                           *)
(***************************************************************************)
EXTENDS Quote, FiniteSetTheorems, TLAPS

-----------------------------------------------------------------------------
(* 1. Finite sums                                                          *)

\* Induction over the naturals, for a set of them instead of a predicate: the
\* least number that is left out would have a predecessor that is not.
LEMMA NatInduct ==
  ASSUME NEW G, 0 \in G, \A n \in Nat : n \in G => n + 1 \in G
  PROVE  \A n \in Nat : n \in G
<1> DEFINE B == Nat \ G
<1> SUFFICES ASSUME B # {} PROVE FALSE
  OBVIOUS
<1>1. PICK m \in B : \A n \in B : ~(<<n, m>> \in OpToRel(<, Nat))
  BY NatLessThanWellFounded, WFMin, Zenon
<1>2. m \in Nat /\ m \notin G
  OBVIOUS
<1>3. \A n \in B : ~(n < m)
  BY <1>1 DEF OpToRel
<1>4. m # 0 /\ m - 1 \in Nat
  BY <1>2
<1>5. m - 1 \in G
  BY <1>3, <1>4
<1> QED
  BY <1>2, <1>4, <1>5

\* And over the size of the subsets of a finite set.
LEMMA SizeInduct ==
  ASSUME NEW S, IsFiniteSet(S), NEW F, {} \in F,
         \A T \in SUBSET S : (T # {} /\ \A x \in T : T \ {x} \in F) => T \in F
  PROVE  \A T \in SUBSET S : T \in F
<1> DEFINE G == {n \in Nat : \A T \in SUBSET S : Cardinality(T) = n => T \in F}
<1>1. \A T \in SUBSET S : IsFiniteSet(T) /\ Cardinality(T) \in Nat
  BY FS_Subset, FS_CardinalityType
<1>2. 0 \in G
  BY <1>1, FS_EmptySet
<1>3. ASSUME NEW n \in Nat, n \in G PROVE n + 1 \in G
  <2> SUFFICES ASSUME NEW T \in SUBSET S, Cardinality(T) = n + 1 PROVE T \in F
    OBVIOUS
  <2>1. T # {}
    BY <1>1, FS_EmptySet
  <2>2. ASSUME NEW x \in T PROVE T \ {x} \in F
    <3>1. Cardinality(T \ {x}) = n
      BY <1>1, FS_RemoveElement
    <3> QED
      BY <1>3, <3>1
  <2> QED
    BY <2>1, <2>2
<1> HIDE DEF G
<1>4. \A n \in Nat : n \in G
  BY <1>2, <1>3, NatInduct
<1> QED
  BY <1>1, <1>4 DEF G

\* Element by element.
LEMMA FiniteInduct ==
  ASSUME NEW S, IsFiniteSet(S), NEW F, {} \in F,
         \A T \in SUBSET S : \A x \in S \ T : T \in F => T \cup {x} \in F
  PROVE  \A T \in SUBSET S : T \in F
<1>1. ASSUME NEW T \in SUBSET S, T # {}, \A x \in T : T \ {x} \in F PROVE T \in F
  <2>1. PICK x \in T : TRUE
    BY <1>1
  <2>2. T = (T \ {x}) \cup {x} /\ T \ {x} \in SUBSET S /\ x \in S \ (T \ {x})
    BY <2>1
  <2>3. T \ {x} \in F
    BY <1>1
  <2> QED
    BY <2>2, <2>3
<1> QED
  BY <1>1, SizeInduct

-----------------------------------------------------------------------------
(* The sum and the product of a function over a finite set.                *)

Combine(how, a, b) == IF how = "times" THEN a * b ELSE a + b
Unit(how) == IF how = "times" THEN 1 ELSE 0

Iterates(I, how, f, S) ==
  I = [s \in SUBSET S |->
        IF s = {} THEN Unit(how)
        ELSE LET x == CHOOSE x \in s : TRUE IN Combine(how, f[x], I[s \ {x}])]

ProductOnSet(f, S) == FoldFunctionOnSet(LAMBDA a, b : a * b, 1, f, S)
Fold(how, f, S) == IF how = "times" THEN ProductOnSet(f, S) ELSE SumFunctionOnSet(f, S)

\* A fold over S is the last value of the recursion over the subsets of S.
LEMMA FoldIsChosen ==
  ASSUME NEW how \in {"plus", "times"}, NEW f, NEW S
  PROVE  Fold(how, f, S) = (CHOOSE I : Iterates(I, how, f, S))[S]
<1>1. CASE how = "times"
  BY <1>1 DEF Fold, ProductOnSet, FoldFunctionOnSet, MapThenFoldSet, Iterates, Combine, Unit
<1>2. CASE how = "plus"
  BY <1>2 DEF Fold, SumFunctionOnSet, FoldFunctionOnSet, MapThenFoldSet, Iterates, Combine, Unit
<1> QED
  BY <1>1, <1>2

\* The recursion over the subsets has a solution: one up to any size.
LEMMA FoldExists ==
  ASSUME NEW how \in {"plus", "times"}, NEW f, NEW S, IsFiniteSet(S)
  PROVE  \E I : Iterates(I, how, f, S)
<1> DEFINE Step(I, s) ==
             IF s = {} THEN Unit(how)
             ELSE LET x == CHOOSE x \in s : TRUE IN Combine(how, f[x], I[s \ {x}])
           Upto(n) == {s \in SUBSET S : Cardinality(s) <= n}
           G == {n \in Nat : \E I : I = [s \in Upto(n) |-> Step(I, s)]}
<1>1. \A s \in SUBSET S : IsFiniteSet(s) /\ Cardinality(s) \in Nat
  BY FS_Subset, FS_CardinalityType
<1>2. 0 \in G
  <2>1. \A s \in Upto(0) : s = {}
    BY <1>1, FS_EmptySet
  <2>2. [s \in Upto(0) |-> Unit(how)] = [s \in Upto(0) |-> Step([t \in Upto(0) |-> Unit(how)], s)]
    BY <2>1
  <2> QED
    BY <2>2
<1>3. ASSUME NEW n \in Nat, n \in G PROVE n + 1 \in G
  <2>1. PICK I : I = [s \in Upto(n) |-> Step(I, s)]
    BY <1>3
  <2> DEFINE J == [s \in Upto(n + 1) |-> Step(I, s)]
  <2>2. \A s \in Upto(n + 1) : s # {} => s \ {CHOOSE x \in s : TRUE} \in Upto(n)
    <3> SUFFICES ASSUME NEW s \in SUBSET S, Cardinality(s) <= n + 1, s # {}
                 PROVE  Cardinality(s \ {CHOOSE x \in s : TRUE}) <= n
      OBVIOUS
    <3>1. PICK x \in s : x = CHOOSE y \in s : TRUE
      OBVIOUS
    <3>2. Cardinality(s \ {x}) = Cardinality(s) - 1 /\ Cardinality(s) \in Nat
      BY <1>1, FS_RemoveElement
    <3> QED
      BY <3>1, <3>2
  <2>3. \A s \in Upto(n) : s \in Upto(n + 1) /\ J[s] = I[s]
    <3>1. \A s \in Upto(n) : s \in Upto(n + 1)
      BY <1>1
    <3>2. \A s \in Upto(n) : I[s] = Step(I, s)
      BY <2>1
    <3> HIDE DEF Step, Upto
    <3> QED
      BY <3>1, <3>2
  <2>4. \A s \in Upto(n + 1) : Step(J, s) = Step(I, s)
    <3> HIDE DEF J, Upto
    <3> QED
      BY <2>2, <2>3
  <2>5. J = [s \in Upto(n + 1) |-> Step(J, s)]
    <3> HIDE DEF Step, Upto
    <3> QED
      BY <2>4
  <2> HIDE DEF J, Step, Upto
  <2> QED
    BY <2>5
<1> HIDE DEF G
<1>4. Cardinality(S) \in G
  BY <1>1, <1>2, <1>3, NatInduct
<1>5. Upto(Cardinality(S)) = SUBSET S
  BY <1>1, FS_Subset
<1> QED
  <2>1. PICK I : I = [s \in Upto(Cardinality(S)) |-> Step(I, s)]
    BY <1>4 DEF G
  <2>2. I = [s \in SUBSET S |-> Step(I, s)]
    BY <1>5, <2>1
  <2> QED
    BY <2>2 DEF Iterates

\* Two solutions agree where both are defined.
LEMMA FoldUnique ==
  ASSUME NEW how \in {"plus", "times"}, NEW f, NEW S, IsFiniteSet(S), NEW T \in SUBSET S,
         NEW I, NEW J, Iterates(I, how, f, S), Iterates(J, how, f, T)
  PROVE  \A s \in SUBSET T : I[s] = J[s]
<1> DEFINE F == {s \in SUBSET T : I[s] = J[s]}
<1>1. IsFiniteSet(T)
  BY FS_Subset
<1>2. {} \in F
  BY DEF Iterates
<1>3. ASSUME NEW s \in SUBSET T, s # {}, \A x \in s : s \ {x} \in F PROVE s \in F
  <2> DEFINE x == CHOOSE x \in s : TRUE
  <2>1. x \in s
    BY <1>3
  <2>2. I[s] = Combine(how, f[x], I[s \ {x}]) /\ J[s] = Combine(how, f[x], J[s \ {x}])
    BY <1>3 DEF Iterates
  <2>3. I[s \ {x}] = J[s \ {x}]
    BY <1>3, <2>1
  <2> QED
    BY <2>2, <2>3
<1> HIDE DEF F
<1>4. \A s \in SUBSET T : s \in F
  BY <1>1, <1>2, <1>3, SizeInduct
<1> QED
  BY <1>4 DEF F

\* The recursion, with the element that was chosen.
LEMMA FoldStep ==
  ASSUME NEW how \in {"plus", "times"}, NEW f, NEW S, IsFiniteSet(S)
  PROVE  /\ Fold(how, f, {}) = Unit(how)
         /\ S # {} => \E x \in S : Fold(how, f, S) = Combine(how, f[x], Fold(how, f, S \ {x}))
<1> DEFINE It(T) == CHOOSE I : Iterates(I, how, f, T)
<1>1. ASSUME NEW T, IsFiniteSet(T) PROVE Iterates(It(T), how, f, T)
  BY <1>1, FoldExists
<1> HIDE DEF It
<1>2. \A T : Fold(how, f, T) = It(T)[T]
  BY FoldIsChosen DEF It
<1>3. Fold(how, f, {}) = Unit(how)
  BY <1>1, <1>2, FS_EmptySet DEF Iterates
<1>4. ASSUME S # {}
      PROVE  \E x \in S : Fold(how, f, S) = Combine(how, f[x], Fold(how, f, S \ {x}))
  <2> DEFINE x == CHOOSE x \in S : TRUE
  <2>1. x \in S
    BY <1>4
  <2>2. IsFiniteSet(S \ {x}) /\ S \ {x} \in SUBSET S
    BY FS_RemoveElement
  <2>3. It(S)[S] = Combine(how, f[x], It(S)[S \ {x}])
    BY <1>1, <1>4 DEF Iterates
  <2>4. It(S)[S \ {x}] = It(S \ {x})[S \ {x}]
    BY <1>1, <2>2, FoldUnique
  <2> QED
    BY <1>2, <2>1, <2>3, <2>4
<1> QED
  BY <1>3, <1>4

\* A fold of integers is one.
LEMMA FoldInt ==
  ASSUME NEW how \in {"plus", "times"}, NEW f, NEW S, IsFiniteSet(S), \A x \in S : f[x] \in Int
  PROVE  \A T \in SUBSET S : Fold(how, f, T) \in Int
<1> DEFINE F == {T \in SUBSET S : Fold(how, f, T) \in Int}
<1>1. {} \in F
  BY FoldStep, FS_EmptySet DEF Unit
<1>2. ASSUME NEW T \in SUBSET S, T # {}, \A x \in T : T \ {x} \in F PROVE T \in F
  <2>1. IsFiniteSet(T)
    BY FS_Subset
  <2>2. PICK x \in T : Fold(how, f, T) = Combine(how, f[x], Fold(how, f, T \ {x}))
    BY <1>2, <2>1, FoldStep
  <2> QED
    BY <1>2, <2>2 DEF Combine
<1> HIDE DEF F
<1>3. \A T \in SUBSET S : T \in F
  BY <1>1, <1>2, SizeInduct
<1> QED
  BY <1>3 DEF F

\* Which element comes first does not matter.
LEMMA FoldAdd ==
  ASSUME NEW how \in {"plus", "times"}, NEW f, NEW S, IsFiniteSet(S), \A x \in S : f[x] \in Int
  PROVE  \A T \in SUBSET S : \A x \in T :
           Fold(how, f, T) = Combine(how, f[x], Fold(how, f, T \ {x}))
<1> DEFINE F == {T \in SUBSET S : \A x \in T :
                   Fold(how, f, T) = Combine(how, f[x], Fold(how, f, T \ {x}))}
<1>1. {} \in F
  OBVIOUS
<1>2. ASSUME NEW T \in SUBSET S, T # {}, \A x \in T : T \ {x} \in F PROVE T \in F
  <2> SUFFICES ASSUME NEW x \in T
               PROVE  Fold(how, f, T) = Combine(how, f[x], Fold(how, f, T \ {x}))
    OBVIOUS
  <2>1. PICK y \in T : Fold(how, f, T) = Combine(how, f[y], Fold(how, f, T \ {y}))
    BY <1>2, FoldStep, FS_Subset
  <2>2. CASE x = y
    BY <2>1, <2>2
  <2>3. CASE x # y
    <3> DEFINE rest == Fold(how, f, (T \ {y}) \ {x})
    <3>1. Fold(how, f, T \ {y}) = Combine(how, f[x], rest)
      BY <1>2, <2>3
    <3>2. Fold(how, f, T \ {x}) = Combine(how, f[y], Fold(how, f, (T \ {x}) \ {y}))
      BY <1>2, <2>3
    <3>3. (T \ {x}) \ {y} = (T \ {y}) \ {x}
      OBVIOUS
    <3>4. rest \in Int /\ f[x] \in Int /\ f[y] \in Int
      BY FoldInt
    <3> HIDE DEF rest
    <3>5. Combine(how, f[y], Combine(how, f[x], rest)) = Combine(how, f[x], Combine(how, f[y], rest))
      BY <3>4 DEF Combine
    <3> QED
      BY <2>1, <3>1, <3>2, <3>3, <3>5 DEF rest
  <2> QED
    BY <2>2, <2>3
<1> HIDE DEF F
<1>3. \A T \in SUBSET S : T \in F
  BY <1>1, <1>2, SizeInduct
<1> QED
  BY <1>3 DEF F

-----------------------------------------------------------------------------
(* What is known of sums.                                                  *)

Sum(f, S) == SumFunctionOnSet(f, S)

\* A sum is an integer, and an element can be split off or added.
LEMMA SumBasics ==
  ASSUME NEW f, NEW S, IsFiniteSet(S), \A x \in S : f[x] \in Int
  PROVE  /\ Sum(f, {}) = 0
         /\ \A T \in SUBSET S : Sum(f, T) \in Int
         /\ \A T \in SUBSET S : \A x \in T : Sum(f, T) = f[x] + Sum(f, T \ {x})
         /\ \A T \in SUBSET S : \A x \in S \ T : Sum(f, T \cup {x}) = f[x] + Sum(f, T)
<1>1. \A T : Fold("plus", f, T) = Sum(f, T)
  BY DEF Fold, Sum
<1>2. Sum(f, {}) = 0
  BY <1>1, FoldStep DEF Unit
<1>3. \A T \in SUBSET S : Sum(f, T) \in Int
  BY <1>1, FoldInt
<1>4. ASSUME NEW T \in SUBSET S, NEW x \in T PROVE Sum(f, T) = f[x] + Sum(f, T \ {x})
  <2>1. Fold("plus", f, T) = Combine("plus", f[x], Fold("plus", f, T \ {x}))
    BY FoldAdd
  <2> QED
    BY <1>1, <2>1 DEF Combine
<1>5. ASSUME NEW T \in SUBSET S, NEW x \in S \ T PROVE Sum(f, T \cup {x}) = f[x] + Sum(f, T)
  <2>1. (T \cup {x}) \ {x} = T /\ T \cup {x} \in SUBSET S /\ x \in T \cup {x}
    OBVIOUS
  <2> QED
    BY <1>4, <2>1
<1> QED
  BY <1>2, <1>3, <1>4, <1>5

\* It depends only on the values over its set.
LEMMA SumSame ==
  ASSUME NEW S, IsFiniteSet(S), NEW f, NEW g, \A x \in S : f[x] \in Int /\ g[x] = f[x]
  PROVE  Sum(f, S) = Sum(g, S)
<1> DEFINE F == {T \in SUBSET S : Sum(f, T) = Sum(g, T)}
<1>1. {} \in F
  BY SumBasics
<1>2. ASSUME NEW T \in SUBSET S, NEW x \in S \ T, T \in F PROVE T \cup {x} \in F
  <2>1. Sum(f, T \cup {x}) = f[x] + Sum(f, T) /\ Sum(g, T \cup {x}) = g[x] + Sum(g, T)
    BY SumBasics
  <2> QED
    BY <1>2, <2>1
<1> HIDE DEF F
<1>3. \A T \in SUBSET S : T \in F
  BY <1>1, <1>2, FiniteInduct
<1> QED
  BY <1>3 DEF F

\* A sum of natural numbers is at least each of them.
LEMMA SumBounds ==
  ASSUME NEW S, IsFiniteSet(S), NEW f, \A x \in S : f[x] \in Nat
  PROVE  Sum(f, S) \in Nat /\ \A x \in S : f[x] <= Sum(f, S)
<1> DEFINE F == {T \in SUBSET S : Sum(f, T) \in Nat}
<1>1. {} \in F
  BY SumBasics
<1>2. ASSUME NEW T \in SUBSET S, NEW x \in S \ T, T \in F PROVE T \cup {x} \in F
  <2>1. Sum(f, T \cup {x}) = f[x] + Sum(f, T)
    BY SumBasics
  <2> QED
    BY <1>2, <2>1
<1> HIDE DEF F
<1>3. \A T \in SUBSET S : T \in F
  BY <1>1, <1>2, FiniteInduct
<1>4. Sum(f, S) \in Nat
  BY <1>3 DEF F
<1>5. ASSUME NEW x \in S PROVE f[x] <= Sum(f, S)
  <2>1. Sum(f, S) = f[x] + Sum(f, S \ {x}) /\ Sum(f, S \ {x}) \in Nat
    BY <1>3, SumBasics DEF F
  <2> QED
    BY <2>1
<1> QED
  BY <1>4, <1>5

\* The sum of two functions.
LEMMA SumPlus ==
  ASSUME NEW S, IsFiniteSet(S), NEW f, NEW g, \A x \in S : f[x] \in Int /\ g[x] \in Int
  PROVE  Sum([x \in S |-> f[x] + g[x]], S) = Sum(f, S) + Sum(g, S)
<1> DEFINE h == [x \in S |-> f[x] + g[x]]
           F == {T \in SUBSET S : Sum(h, T) = Sum(f, T) + Sum(g, T)}
<1>1. \A x \in S : h[x] = f[x] + g[x] /\ h[x] \in Int
  OBVIOUS
<1> HIDE DEF h
<1>2. {} \in F
  BY <1>1, SumBasics
<1>3. ASSUME NEW T \in SUBSET S, NEW x \in S \ T, T \in F PROVE T \cup {x} \in F
  <2>1. /\ Sum(f, T \cup {x}) = f[x] + Sum(f, T) /\ Sum(f, T) \in Int
        /\ Sum(g, T \cup {x}) = g[x] + Sum(g, T) /\ Sum(g, T) \in Int
        /\ Sum(h, T \cup {x}) = h[x] + Sum(h, T) /\ Sum(h, T) \in Int
    BY <1>1, SumBasics
  <2> QED
    BY <1>1, <1>3, <2>1
<1> HIDE DEF F
<1>4. \A T \in SUBSET S : T \in F
  BY <1>2, <1>3, FiniteInduct
<1> QED
  BY <1>4 DEF F, h

\* The sum of the multiples.
LEMMA SumScaled ==
  ASSUME NEW S, IsFiniteSet(S), NEW f, NEW k \in Int, \A x \in S : f[x] \in Int
  PROVE  Sum([x \in S |-> f[x] * k], S) = Sum(f, S) * k
<1> DEFINE h == [x \in S |-> f[x] * k]
           F == {T \in SUBSET S : Sum(h, T) = Sum(f, T) * k}
<1>1. \A x \in S : h[x] = f[x] * k /\ h[x] \in Int
  OBVIOUS
<1> HIDE DEF h
<1>2. {} \in F
  <2>1. Sum(f, {}) = 0
    BY SumBasics
  <2>2. Sum(h, {}) = 0
    BY <1>1, SumBasics
  <2> QED
    BY <2>1, <2>2
<1>3. ASSUME NEW T \in SUBSET S, NEW x \in S \ T, T \in F PROVE T \cup {x} \in F
  <2>1. /\ Sum(f, T \cup {x}) = f[x] + Sum(f, T) /\ Sum(f, T) \in Int
        /\ Sum(h, T \cup {x}) = h[x] + Sum(h, T) /\ Sum(h, T) \in Int
    BY <1>1, SumBasics
  <2>2. (f[x] + Sum(f, T)) * k = f[x] * k + Sum(f, T) * k
    BY <2>1
  <2> QED
    BY <1>1, <1>3, <2>1, <2>2
<1> HIDE DEF F
<1>4. \A T \in SUBSET S : T \in F
  BY <1>2, <1>3, FiniteInduct
<1> QED
  BY <1>4 DEF F, h

\* A greater function has a greater sum.
LEMMA SumMonotone ==
  ASSUME NEW S, IsFiniteSet(S), NEW f, NEW g, \A x \in S : f[x] \in Int /\ g[x] \in Int /\ f[x] <= g[x]
  PROVE  Sum(f, S) <= Sum(g, S)
<1> DEFINE F == {T \in SUBSET S : Sum(f, T) <= Sum(g, T)}
<1>1. {} \in F
  <2>1. Sum(f, {}) = 0
    BY SumBasics
  <2>2. Sum(g, {}) = 0
    BY SumBasics
  <2> QED
    BY <2>1, <2>2
<1>2. ASSUME NEW T \in SUBSET S, NEW x \in S \ T, T \in F PROVE T \cup {x} \in F
  <2>1. /\ Sum(f, T \cup {x}) = f[x] + Sum(f, T) /\ Sum(f, T) \in Int
        /\ Sum(g, T \cup {x}) = g[x] + Sum(g, T) /\ Sum(g, T) \in Int
    BY SumBasics
  <2> QED
    BY <1>2, <2>1
<1> HIDE DEF F
<1>3. \A T \in SUBSET S : T \in F
  BY <1>1, <1>2, FiniteInduct
<1> QED
  BY <1>3 DEF F

\* The sum of a constant.
LEMMA SumConstant ==
  ASSUME NEW S, IsFiniteSet(S), NEW k \in Int
  PROVE  Sum([x \in S |-> k], S) = Cardinality(S) * k
<1> DEFINE h == [x \in S |-> k]
           F == {T \in SUBSET S : Sum(h, T) = Cardinality(T) * k}
<1>1. \A x \in S : h[x] = k /\ h[x] \in Int
  OBVIOUS
<1> HIDE DEF h
<1>2. {} \in F
  BY <1>1, SumBasics, FS_EmptySet
<1>3. ASSUME NEW T \in SUBSET S, NEW x \in S \ T, T \in F PROVE T \cup {x} \in F
  <2>1. Sum(h, T \cup {x}) = k + Sum(h, T)
    BY <1>1, SumBasics
  <2>2. Cardinality(T \cup {x}) = Cardinality(T) + 1 /\ Cardinality(T) \in Nat
    BY FS_Subset, FS_CardinalityType, FS_AddElement
  <2>3. (Cardinality(T) + 1) * k = Cardinality(T) * k + k
    BY <2>2
  <2>4. Cardinality(T) * k \in Int
    BY <2>2
  <2> QED
    BY <1>3, <2>1, <2>2, <2>3, <2>4
<1> HIDE DEF F
<1>4. \A T \in SUBSET S : T \in F
  BY <1>2, <1>3, FiniteInduct
<1> QED
  BY <1>4 DEF F, h

\* The sum over the classes of a set is the sum over the set.
LEMMA SumByClass ==
  ASSUME NEW S, IsFiniteSet(S), NEW C, IsFiniteSet(C), NEW f, \A x \in S : f[x] \in Int,
         NEW class, \A x \in S : class[x] \in C
  PROVE  Sum([c \in C |-> Sum(f, {x \in S : class[x] = c})], C) = Sum(f, S)
<1> DEFINE Of(T, c) == {x \in T : class[x] = c}
           Classes(T) == [c \in C |-> Sum(f, Of(T, c))]
           F == {T \in SUBSET S : Sum(Classes(T), C) = Sum(f, T)}
<1>1. \A T \in SUBSET S : \A c \in C : Sum(f, Of(T, c)) \in Int
  <2>1. \A T \in SUBSET S : \A c \in C : Of(T, c) \in SUBSET S
    OBVIOUS
  <2> HIDE DEF Of
  <2> QED
    BY <2>1, SumBasics
<1>2. \A T : \A c \in C : Classes(T)[c] = Sum(f, Of(T, c))
  OBVIOUS
<1>3. {} \in F
  <2>1. \A c \in C : Of({}, c) = {}
    OBVIOUS
  <2>2. Sum(f, {}) = 0
    BY SumBasics
  <2>3. Classes({}) = [c \in C |-> 0]
    BY <2>1, <2>2
  <2>4. Sum([c \in C |-> 0], C) = 0
    <3>1. Sum([c \in C |-> 0], C) = Cardinality(C) * 0
      <4>1. 0 \in Int
        OBVIOUS
      <4> QED
        BY <4>1, SumConstant
    <3>2. Cardinality(C) \in Nat
      BY FS_CardinalityType
    <3> QED
      BY <3>1, <3>2
  <2> HIDE DEF Classes
  <2> QED
    BY <2>2, <2>3, <2>4
<1>4. ASSUME NEW T \in SUBSET S, NEW y \in S \ T, T \in F PROVE T \cup {y} \in F
  <2> DEFINE k == class[y]
             U == T \cup {y}
             g == Classes(T)
             h == Classes(U)
  <2>1. k \in C /\ U \in SUBSET S
    OBVIOUS
  <2>2. \A c \in C : g[c] \in Int /\ h[c] \in Int
    BY <1>1, <1>2, <2>1
  <2>3. h[k] = f[y] + g[k]
    <3>1. Of(U, k) = Of(T, k) \cup {y} /\ Of(T, k) \in SUBSET S /\ y \in S \ Of(T, k)
      OBVIOUS
    <3>2. \A V \in SUBSET S : \A x \in S \ V : Sum(f, V \cup {x}) = f[x] + Sum(f, V)
      BY SumBasics
    <3>3. Sum(f, Of(U, k)) = f[y] + Sum(f, Of(T, k))
      <4> HIDE DEF Of
      <4> QED
        BY <3>1, <3>2
    <3> QED
      BY <1>2, <2>1, <3>3
  <2>4. \A c \in C \ {k} : h[c] = g[c]
    <3>1. \A c \in C \ {k} : Of(U, c) = Of(T, c)
      OBVIOUS
    <3> HIDE DEF Of
    <3> QED
      BY <1>2, <3>1
  <2>5. IsFiniteSet(C \ {k})
    BY FS_RemoveElement
  <2> HIDE DEF g, h
  <2>6. Sum(g, C) = g[k] + Sum(g, C \ {k}) /\ Sum(h, C) = h[k] + Sum(h, C \ {k})
    <3>1. \A x \in C : Sum(g, C) = g[x] + Sum(g, C \ {x})
      BY <2>2, SumBasics
    <3>2. \A x \in C : Sum(h, C) = h[x] + Sum(h, C \ {x})
      <4>1. \A c \in C : h[c] \in Int
        BY <2>2
      <4> QED
        BY <4>1, SumBasics
    <3> QED
      BY <2>1, <3>1, <3>2
  <2>7. Sum(g, C \ {k}) = Sum(h, C \ {k}) /\ Sum(g, C \ {k}) \in Int
    BY <2>2, <2>4, <2>5, SumSame, SumBasics
  <2>8. Sum(f, U) = f[y] + Sum(f, T) /\ f[y] \in Int
    BY SumBasics
  <2>9. Sum(g, C) = Sum(f, T)
    BY <1>4 DEF g
  <2>10. Sum(h, C) = Sum(f, U)
    BY <2>1, <2>2, <2>3, <2>6, <2>7, <2>8, <2>9
  <2> QED
    BY <2>1, <2>10 DEF h
<1> HIDE DEF F
<1>5. \A T \in SUBSET S : T \in F
  BY <1>3, <1>4, FiniteInduct
<1>6. Sum(Classes(S), C) = Sum(f, S)
  BY <1>5 DEF F
<1> QED
  BY <1>6

\* A sum is the same over other indices.
LEMMA SumRenamed ==
  ASSUME NEW S, IsFiniteSet(S), NEW f, \A x \in S : f[x] \in Int,
         NEW to, \A x, y \in S : to[x] = to[y] => x = y,
         NEW R, R = {to[x] : x \in S}, NEW g, \A x \in S : g[to[x]] = f[x]
  PROVE  Sum(g, R) = Sum(f, S)
<1> DEFINE Image(T) == {to[x] : x \in T}
           F == {T \in SUBSET S : IsFiniteSet(Image(T)) /\ Sum(g, Image(T)) = Sum(f, T)}
<1>1. {} \in F
  BY SumBasics, FS_EmptySet
<1>2. ASSUME NEW T \in SUBSET S, NEW x \in S \ T, T \in F PROVE T \cup {x} \in F
  <2> DEFINE I == Image(T)
  <2>1. Image(T \cup {x}) = I \cup {to[x]} /\ to[x] \notin I /\ \A y \in I \cup {to[x]} : g[y] \in Int
    OBVIOUS
  <2>2. IsFiniteSet(I) /\ Sum(g, I) = Sum(f, T)
    BY <1>2
  <2> HIDE DEF I
  <2>3. IsFiniteSet(I \cup {to[x]})
    BY <2>2, FS_AddElement
  <2>4. Sum(g, I \cup {to[x]}) = g[to[x]] + Sum(g, I)
    BY <2>1, <2>3, SumBasics
  <2>5. Sum(f, T \cup {x}) = f[x] + Sum(f, T)
    BY SumBasics
  <2> QED
    BY <2>1, <2>2, <2>3, <2>4, <2>5
<1> HIDE DEF F
<1>3. \A T \in SUBSET S : T \in F
  BY <1>1, <1>2, FiniteInduct
<1> QED
  BY <1>3 DEF F

\* Each factor divides the product.
LEMMA ProductFactors ==
  ASSUME NEW S, IsFiniteSet(S), NEW f, \A x \in S : f[x] \in Nat \ {0}
  PROVE  /\ ProductOnSet(f, S) \in Nat \ {0}
         /\ \A x \in S : \E k \in Nat : ProductOnSet(f, S) = f[x] * k
<1> DEFINE F == {T \in SUBSET S : ProductOnSet(f, T) \in Nat \ {0}}
<1>1. \A T : Fold("times", f, T) = ProductOnSet(f, T)
  BY DEF Fold
<1>2. {} \in F
  <2>1. Fold("times", f, {}) = Unit("times")
    BY FoldStep
  <2>2. Fold("times", f, {}) = 1
    BY <2>1 DEF Unit
  <2>3. 1 \in Nat \ {0}
    OBVIOUS
  <2> QED
    BY <1>1, <2>2, <2>3
<1>3. ASSUME NEW T \in SUBSET S, NEW x \in T
      PROVE  ProductOnSet(f, T) = f[x] * ProductOnSet(f, T \ {x})
  <2>1. \A y \in S : f[y] \in Int
    OBVIOUS
  <2>2. Fold("times", f, T) = Combine("times", f[x], Fold("times", f, T \ {x}))
    BY <2>1, FoldAdd
  <2> QED
    BY <1>1, <2>2 DEF Combine
<1>4. ASSUME NEW T \in SUBSET S, T # {}, \A x \in T : T \ {x} \in F PROVE T \in F
  <2>1. PICK x \in T : TRUE
    BY <1>4
  <2>2. f[x] \in Nat \ {0} /\ ProductOnSet(f, T \ {x}) \in Nat \ {0}
    BY <1>4, <2>1
  <2>3. \A a, b \in Nat \ {0} : a * b \in Nat \ {0}
    OBVIOUS
  <2> QED
    BY <1>3, <2>1, <2>2, <2>3
<1> HIDE DEF F
<1>5. \A T \in SUBSET S : T \in F
  BY <1>2, <1>4, SizeInduct
<1>6. ASSUME NEW x \in S PROVE \E k \in Nat : ProductOnSet(f, S) = f[x] * k
  BY <1>3, <1>5 DEF F
<1> QED
  BY <1>5, <1>6 DEF F

-----------------------------------------------------------------------------
(* 2. The invariant                                                        *)
\* The shape of requests, by parts: sequences, lines, payments.
IsSeq(s) == s \in Seq(Range(s))

LineOK(line) ==
  /\ line = [product |-> line.product, options |-> line.options,
             quantity |-> line.quantity, note |-> line.note]
  /\ line.product \in Product /\ line.options \subseteq Option
  /\ line.quantity \in Nat \ {0}

LinesOK(lines) == IsSeq(lines) /\ lines # <<>> /\ \A i \in DOMAIN lines : LineOK(lines[i])

PaymentOK(payment) == {payment.amount, payment.received} \subseteq 0..MaxSafe \cup {Nothing}

\* The catalogue, and the held order.
CatalogueOK ==
  /\ product \in [Product -> ProductRows]
  /\ option \in [Option -> [delta : DeltaRows, active : BOOLEAN]]
  /\ rate \in Rates \cup FirstRates

OrderOK ==
  \/ order = NoOrder
  \/ /\ order = [status |-> order.status, lines |-> order.lines, due |-> order.due,
                 fresh |-> order.fresh]
     /\ order.status \in {"OPEN", "CONVERTED"} /\ LinesOK(order.lines) /\ order.due \in Due
     /\ order.fresh \in BOOLEAN

\* What is open and untouched can be held as it is, for what it was estimated.
EstimateOK ==
  order.status = "OPEN" /\ order.fresh =>
    HoldAccepts(order.lines) /\ order.due = Estimate(order.lines)

\* A stored line is a snapshot of the one that was asked for.
ItemOK(item, line) ==
  /\ item.product = line.product /\ item.quantity = line.quantity /\ item.note = line.note
  /\ {m.option : m \in item.options} = line.options
  /\ item.unit \in Nat /\ item.cost \in Nat
  /\ item.subtotal = item.unit * item.quantity

\* Its amounts add up, and only a sale of something is recorded.
DueOK(due) ==
  /\ due \in Due /\ due.total > 0 /\ due.subtotal > 0 /\ due.discount <= due.subtotal
  /\ due.subtotal - due.discount + due.tax = due.total

\* Its payment is the tender; a row from before V1 has it in amount.
PaidOK(sale, q) ==
  LET tender == ResolveTender(q.payment)
      paid == sale.payment
  IN  /\ paid.method = q.payment.method
      /\ IF paid.method = "CASH"
         THEN /\ tender \in sale.due.total..MaxSafe
              /\ \/ paid.received = tender /\ paid.change = tender - sale.due.total
                 \/ paid.received = Nothing /\ paid.change = Nothing /\ paid.amount = tender
         ELSE tender = Nothing /\ paid.received = Nothing /\ paid.change = Nothing

\* Either all its lines keep their names or, from before V1, none does.
SaleOK(sale, q) ==
  /\ LinesOK(q.lines)
  /\ sale.items = [j \in DOMAIN q.lines |-> sale.items[j]]
  /\ \A j \in DOMAIN q.lines : ItemOK(sale.items[j], q.lines[j])
  /\ \/ \A j \in DOMAIN q.lines : sale.items[j].name # Nothing
     \/ \A j \in DOMAIN q.lines : sale.items[j].name = Nothing
  /\ DueOK(sale.due) /\ sale.due.discount = q.discount
  /\ sale.due.subtotal = Sum([j \in DOMAIN q.lines |-> sale.items[j].subtotal], DOMAIN q.lines)
  /\ PaidOK(sale, q)

SalesOK ==
  /\ IsSeq(sales) /\ IsSeq(asked) /\ Len(sales) = Len(asked)
  /\ \A i \in DOMAIN sales : SaleOK(sales[i], asked[i])

IInv == CatalogueOK /\ OrderOK /\ EstimateOK /\ SalesOK

-----------------------------------------------------------------------------
\* Sequences, by their elements: length and domain.
LEMMA SeqFacts ==
  ASSUME NEW s, IsSeq(s)
  PROVE  Len(s) \in Nat /\ DOMAIN s = 1..Len(s) /\ IsFiniteSet(DOMAIN s)
<1>1. Len(s) \in Nat /\ DOMAIN s = 1..Len(s)
  BY DEF IsSeq
<1> QED
  BY <1>1, FS_Interval

\* A function over 1..n is a sequence.
LEMMA SeqBuilt ==
  ASSUME NEW n \in Nat, NEW s, s = [i \in 1..n |-> s[i]]
  PROVE  IsSeq(s) /\ Len(s) = n
<1>1. \A i \in 1..n : s[i] \in Range(s)
  BY DEF Range
<1>2. s \in [1..n -> Range(s)]
  BY <1>1
<1>3. s \in Seq(Range(s))
  BY <1>2
<1> QED
  BY <1>2, <1>3 DEF IsSeq

\* And so is every member of Seq(S).
LEMMA SeqOf ==
  ASSUME NEW S, NEW s \in Seq(S)
  PROVE  IsSeq(s)
<1>1. Len(s) \in Nat /\ s \in [1..Len(s) -> S]
  OBVIOUS
<1>2. s = [i \in 1..Len(s) |-> s[i]]
  BY <1>1
<1> QED
  BY <1>1, <1>2, SeqBuilt

\* Append adds one element behind the others.
LEMMA SeqAppended ==
  ASSUME NEW s, IsSeq(s), NEW e
  PROVE  /\ IsSeq(Append(s, e)) /\ Len(Append(s, e)) = Len(s) + 1
         /\ \A i \in DOMAIN s : Append(s, e)[i] = s[i]
         /\ Append(s, e)[Len(s) + 1] = e
<1>1. s \in Seq(Range(s) \cup {e})
  BY SeqFacts DEF IsSeq
<1>2. Append(s, e) \in Seq(Range(s) \cup {e})
  BY <1>1
<1>3. IsSeq(Append(s, e))
  BY <1>2, SeqOf
<1>4. /\ Len(Append(s, e)) = Len(s) + 1 /\ Append(s, e)[Len(s) + 1] = e
      /\ \A i \in DOMAIN s : Append(s, e)[i] = s[i]
  BY <1>1
<1> QED
  BY <1>3, <1>4

\* What the assumption on carts says of one.
LEMMA CartsOK ==
  ASSUME NEW lines \in Carts
  PROVE  LinesOK(lines)
<1>1. lines \in Seq(Range(lines)) /\ lines # <<>> /\ \A line \in Range(lines) : LineOK(line)
  BY CartAssumption DEF LineOK
<1>2. \A i \in DOMAIN lines : lines[i] \in Range(lines)
  BY DEF Range
<1> QED
  BY <1>1, <1>2 DEF LinesOK, IsSeq

\* The range of amounts, and that a null is none of them.
LEMMA MaxSafeOK == MaxSafe \in Nat /\ Nothing \notin Int
  BY RequestAssumption

-----------------------------------------------------------------------------
(* Money                                                                   *)

\* A line costs at least its price, and neither is negative.
LEMMA LineMoney ==
  ASSUME CatalogueOK, NEW line, LineOK(line)
  PROVE  /\ EffectivePrice(line) \in Nat /\ LineTotal(line) \in Nat
         /\ EffectivePrice(line) <= LineTotal(line)
<1> DEFINE d == [o \in line.options |-> option[o].delta]
<1>1. IsFiniteSet(line.options)
  BY CatalogueAssumption, FS_Subset DEF LineOK
<1>2. \A o \in line.options : d[o] \in Nat
  BY CatalogueAssumption DEF LineOK, CatalogueOK
<1>3. SumFunction(d) = Sum(d, line.options)
  BY DEF SumFunction, Sum
<1> HIDE DEF d
<1>4. Sum(d, line.options) \in Nat
  BY <1>1, <1>2, SumBounds
<1>5. product[line.product].price \in Nat
  BY CatalogueAssumption DEF LineOK, CatalogueOK
<1>6. EffectivePrice(line) \in Nat
  BY <1>3, <1>4, <1>5 DEF EffectivePrice, d
<1>7. line.quantity \in Nat \ {0}
  BY DEF LineOK
<1>8. \A a \in Nat : \A n \in Nat \ {0} : a * n \in Nat /\ a <= a * n
  <2> SUFFICES ASSUME NEW a \in Nat, NEW n \in Nat \ {0} PROVE a * n \in Nat /\ a <= a * n
    OBVIOUS
  <2>1. a * n = a + a * (n - 1) /\ a * (n - 1) \in Nat
    OBVIOUS
  <2> QED
    BY <2>1
<1> QED
  BY <1>6, <1>7, <1>8 DEF LineTotal

\* And it costs at most what the whole cart does.
LEMMA CartMoney ==
  ASSUME CatalogueOK, NEW lines, LinesOK(lines)
  PROVE  /\ Subtotal(lines) \in Nat
         /\ \A i \in DOMAIN lines : LineTotal(lines[i]) <= Subtotal(lines)
<1> DEFINE f == [i \in DOMAIN lines |-> LineTotal(lines[i])]
<1>1. IsFiniteSet(DOMAIN lines)
  BY SeqFacts DEF LinesOK
<1>2. \A i \in DOMAIN lines : f[i] = LineTotal(lines[i]) /\ f[i] \in Nat
  BY LineMoney DEF LinesOK
<1>3. Subtotal(lines) = Sum(f, DOMAIN lines)
  BY DEF SumFunction, Sum, Subtotal
<1> HIDE DEF f
<1> QED
  BY <1>1, <1>2, <1>3, SumBounds

\* A tax is not negative, and none is due for nothing.
LEMMA Taxed ==
  ASSUME CatalogueOK, NEW base \in Nat
  PROVE  LET taxed == CalculateTax(rate.enabled, rate.basisPoints, base)
         IN  /\ taxed.tax \in Nat /\ taxed.total \in Nat /\ taxed.total = base + taxed.tax
             /\ base = 0 => taxed.tax = 0
<1>1. PICK b \in 0..10000 : rate.basisPoints = b
  <2>1. rate \in Rates \cup FirstRates
    BY DEF CatalogueOK
  <2>2. \A r \in Rates \cup FirstRates : r.basisPoints \in 0..10000
    BY RateAssumption
  <2>3. rate.basisPoints \in 0..10000
    BY <2>1, <2>2
  <2> QED
    BY <2>3
<1>2. \A a \in Nat : (a + 5000) \div 10000 \in Nat
  OBVIOUS
<1>3. base * b \in Nat
  OBVIOUS
<1>4. (base * b + 5000) \div 10000 \in Nat
  BY <1>2, <1>3
<1>5. base = 0 => (base * b + 5000) \div 10000 = 0
  <2>1. base = 0 => base * b = 0
    OBVIOUS
  <2>2. 5000 \div 10000 = 0
    OBVIOUS
  <2> QED
    BY <2>1, <2>2
<1> QED
  BY <1>1, <1>4, <1>5 DEF CalculateTax

\* What is due for a cart, when the discount is at most the subtotal.
LEMMA PricedMoney ==
  ASSUME CatalogueOK, NEW lines, LinesOK(lines), NEW discount \in Nat,
         discount <= Subtotal(lines)
  PROVE  /\ Priced(lines, discount).subtotal = Subtotal(lines)
         /\ Priced(lines, discount).discount = discount
         /\ Priced(lines, discount).tax \in Nat /\ Priced(lines, discount).total \in Nat
         /\ Priced(lines, discount).total = Subtotal(lines) - discount + Priced(lines, discount).tax
         /\ Subtotal(lines) = discount => Priced(lines, discount).total = 0
         /\ Priced(lines, discount) =
              [subtotal |-> Subtotal(lines), discount |-> discount,
               tax |-> Priced(lines, discount).tax, total |-> Priced(lines, discount).total]
<1>1. Subtotal(lines) \in Nat /\ Subtotal(lines) - discount \in Nat
  BY CartMoney
<1> DEFINE taxed == CalculateTax(rate.enabled, rate.basisPoints, Subtotal(lines) - discount)
<1>2. /\ taxed.tax \in Nat /\ taxed.total \in Nat /\ taxed.total = Subtotal(lines) - discount + taxed.tax
      /\ Subtotal(lines) - discount = 0 => taxed.tax = 0
  BY <1>1, Taxed
<1>3. Priced(lines, discount) = [subtotal |-> Subtotal(lines), discount |-> discount,
                                 tax |-> taxed.tax, total |-> taxed.total]
  BY DEF Priced
<1> HIDE DEF taxed
<1> QED
  BY <1>2, <1>3

\* The rules of the held order accept what those of the sale accept.
LEMMA LineRules ==
  ASSUME CatalogueOK, NEW line, LineOK(line), LineTotal(line) <= MaxSafe
  PROVE  SaleLineFits(line) <=> HoldLineFits(line)
<1>1. Money(EffectivePrice(line)) /\ Money(LineTotal(line))
  BY LineMoney, MaxSafeOK DEF Money
<1>2. CASE line.options # {}
  BY <1>1, <1>2 DEF SaleLineFits, HoldLineFits
<1>3. CASE line.options = {}
  <2>1. OptionsFit(line)
    BY <1>3 DEF OptionsFit
  <2>2. ASSUME NEW g PROVE SelectionFits(line, g) <=> assigned[line.product][g] # "requiredSingle"
    <3>1. Cardinality(Picked(line, g)) = 0
      BY <1>3, FS_EmptySet DEF Picked
    <3> QED
      BY <3>1 DEF SelectionFits
  <2> QED
    BY <1>1, <1>3, <2>1, <2>2 DEF SaleLineFits, HoldLineFits
<1> QED
  BY <1>2, <1>3

\* A cart that is paid exactly can be sold when it can be held and costs something.
LEMMA RulesAgree ==
  ASSUME CatalogueOK, NEW lines, LinesOK(lines), NEW q, q.lines = lines, q.discount = 0,
         q.payment = Exact(Priced(lines, 0).total)
  PROVE  SaleAccepts(q) <=> HoldAccepts(lines) /\ Estimate(lines).total > 0
<1> DEFINE due == Priced(lines, 0)
<1>1. due.total \in Nat /\ due.tax \in Nat /\ due.subtotal = Subtotal(lines) /\ Subtotal(lines) \in Nat
  BY PricedMoney, CartMoney
<1>2. PaymentShapeFits(q.payment) /\ ResolveTender(q.payment) = due.total /\ due.total # Nothing
  BY <1>1, MaxSafeOK DEF PaymentShapeFits, ResolveTender, Exact
<1>3. SaleAccepts(q) <=>
        /\ \A i \in DOMAIN lines : SaleLineFits(lines[i])
        /\ Money(due.subtotal) /\ Money(due.tax) /\ Money(due.total) /\ due.total > 0
  BY <1>1, <1>2 DEF SaleAccepts
<1>4. HoldAccepts(lines) <=>
        /\ \A i \in DOMAIN lines : HoldLineFits(lines[i])
        /\ Money(due.subtotal) /\ Money(due.tax) /\ Money(due.total)
  BY DEF HoldAccepts, Estimate
<1>5. ASSUME Money(due.subtotal), NEW i \in DOMAIN lines
      PROVE  SaleLineFits(lines[i]) <=> HoldLineFits(lines[i])
  <2>1. LineTotal(lines[i]) <= Subtotal(lines) /\ LineOK(lines[i])
    BY CartMoney DEF LinesOK
  <2>2. LineTotal(lines[i]) <= MaxSafe
    BY <1>1, <1>5, <2>1, LineMoney, MaxSafeOK DEF Money
  <2> QED
    BY <2>1, <2>2, LineRules
<1> HIDE DEF due
<1> QED
  BY <1>3, <1>4, <1>5 DEF due, Estimate

-----------------------------------------------------------------------------
(* Sales                                                                   *)

\* The row of a line keeps what was asked for and what it cost.
LEMMA ItemsSnapshot ==
  ASSUME CatalogueOK, NEW line, LineOK(line)
  PROVE  /\ ItemOK(ItemRow(line), line) /\ ItemRow(line).subtotal = LineTotal(line)
         /\ ItemRow(line).name # Nothing
         /\ LET old == [ItemRow(line) EXCEPT !.name = Nothing, !.base = Nothing]
            IN  ItemOK(old, line) /\ old.subtotal = LineTotal(line) /\ old.name = Nothing
<1>1. product[line.product].cost \in Nat /\ product[line.product].name # Nothing
  BY CatalogueAssumption DEF LineOK, CatalogueOK
<1>2. EffectivePrice(line) \in Nat
  BY LineMoney
<1>3. {m.option : m \in {[option |-> o, delta |-> option[o].delta] : o \in line.options}} = line.options
  <2> DEFINE row(o) == [option |-> o, delta |-> option[o].delta]
  <2>1. \A o : row(o).option = o
    OBVIOUS
  <2> HIDE DEF row
  <2>2. {m.option : m \in {row(o) : o \in line.options}} = line.options
    BY <2>1
  <2> QED
    BY <2>2 DEF row
<1> QED
  BY <1>1, <1>2, <1>3 DEF ItemRow, ItemOK, LineTotal

\* The amounts of a sale that passed the checks.
LEMMA DueSound ==
  ASSUME CatalogueOK, NEW lines, LinesOK(lines), NEW discount \in Nat,
         discount <= Subtotal(lines), Money(Priced(lines, discount).subtotal),
         Money(Priced(lines, discount).tax), Money(Priced(lines, discount).total)
  PROVE  /\ Priced(lines, discount) \in Due
         /\ Priced(lines, discount).total > 0 => DueOK(Priced(lines, discount))
<1> DEFINE due == Priced(lines, discount)
<1>1. /\ due.subtotal = Subtotal(lines) /\ due.discount = discount
      /\ due.total = Subtotal(lines) - discount + due.tax
      /\ due = [subtotal |-> Subtotal(lines), discount |-> discount, tax |-> due.tax,
                total |-> due.total]
      /\ Subtotal(lines) = discount => due.total = 0
  BY PricedMoney
<1>2. {due.subtotal, due.tax, due.total, discount} \subseteq 0..MaxSafe
  BY <1>1, MaxSafeOK, CartMoney DEF Money
<1> HIDE DEF due
<1>3. due \in Due
  BY <1>1, <1>2 DEF Due
<1>4. due.total > 0 => DueOK(due)
  BY <1>1, <1>2, <1>3, MaxSafeOK DEF DueOK
<1> QED
  BY <1>3, <1>4 DEF due

\* What a request asks for, without the catalogue.
RequestOK(q) ==
  LinesOK(q.lines) /\ q.discount \in Nat /\ PaymentOK(q.payment)

\* A payment of the right shape tenders an amount exactly when it is in cash.
LEMMA Tendered ==
  ASSUME NEW payment, PaymentOK(payment), PaymentShapeFits(payment)
  PROVE  /\ payment.method = "CASH" => ResolveTender(payment) \in 0..MaxSafe
         /\ payment.method # "CASH" => ResolveTender(payment) = Nothing
  BY MaxSafeOK DEF PaymentOK, PaymentShapeFits, ResolveTender

\* The row of a payment keeps the tender and the change.
LEMMA PaymentStored ==
  ASSUME NEW q, PaymentOK(q.payment), PaymentShapeFits(q.payment), NEW sale,
         sale.due.total \in Nat, sale.payment = PaymentRow(q.payment, sale.due),
         ResolveTender(q.payment) # Nothing => ResolveTender(q.payment) >= sale.due.total
  PROVE  PaidOK(sale, q)
<1>1. /\ q.payment.method = "CASH" => ResolveTender(q.payment) \in 0..MaxSafe
      /\ q.payment.method # "CASH" => ResolveTender(q.payment) = Nothing
  BY Tendered
<1>2. /\ sale.payment.method = q.payment.method
      /\ sale.payment.received = ResolveTender(q.payment)
      /\ sale.payment.change = IF ResolveTender(q.payment) = Nothing THEN Nothing
                               ELSE ResolveTender(q.payment) - sale.due.total
  BY DEF PaymentRow
<1> QED
  BY <1>1, <1>2, MaxSafeOK DEF PaidOK

\* A recorded sale is a snapshot of its request.
LEMMA SaleStored ==
  ASSUME CatalogueOK, NEW q, RequestOK(q), SaleAccepts(q)
  PROVE  SaleOK(SaleRow(q), q)
<1> DEFINE sale == SaleRow(q)
           due == Priced(q.lines, q.discount)
<1>1. sale.items = [j \in DOMAIN q.lines |-> ItemRow(q.lines[j])] /\ sale.due = due
      /\ sale.payment = PaymentRow(q.payment, due)
  BY DEF SaleRow
<1>2. LinesOK(q.lines) /\ q.discount \in Nat /\ PaymentOK(q.payment)
  BY DEF RequestOK
<1>3. /\ PaymentShapeFits(q.payment) /\ q.discount <= due.subtotal /\ due.total > 0
      /\ Money(due.subtotal) /\ Money(due.tax) /\ Money(due.total)
      /\ ResolveTender(q.payment) # Nothing => ResolveTender(q.payment) >= due.total
  BY DEF SaleAccepts
<1>4. due.subtotal = Subtotal(q.lines) /\ due.discount = q.discount
  BY DEF Priced
<1>5. DueOK(due)
  BY <1>2, <1>3, <1>4, DueSound
<1>6. \A j \in DOMAIN q.lines :
        /\ ItemOK(sale.items[j], q.lines[j]) /\ sale.items[j].name # Nothing
        /\ sale.items[j].subtotal = LineTotal(q.lines[j])
  BY <1>1, <1>2, ItemsSnapshot DEF LinesOK
<1>7. due.total \in Nat
  BY <1>5, MaxSafeOK DEF DueOK, Due
<1> HIDE DEF sale, due
<1>8. PaidOK(sale, q)
  BY <1>1, <1>2, <1>3, <1>7, PaymentStored
<1>9. Subtotal(q.lines) = Sum([j \in DOMAIN q.lines |-> sale.items[j].subtotal], DOMAIN q.lines)
  <2>1. [j \in DOMAIN q.lines |-> sale.items[j].subtotal]
          = [j \in DOMAIN q.lines |-> LineTotal(q.lines[j])]
    BY <1>6
  <2>2. Subtotal(q.lines) = Sum([j \in DOMAIN q.lines |-> LineTotal(q.lines[j])], DOMAIN q.lines)
    BY DEF Subtotal, SumFunction, Sum
  <2> QED
    BY <2>1, <2>2
<1>10. sale.items = [j \in DOMAIN q.lines |-> sale.items[j]]
  BY <1>1
<1>11. SaleOK(sale, q)
  BY <1>1, <1>2, <1>4, <1>5, <1>6, <1>8, <1>9, <1>10 DEF SaleOK
<1> QED
  BY <1>11 DEF sale

\* And so was one from before V1, but for the names.
LEMMA OldSaleStored ==
  ASSUME CatalogueOK, NEW cart \in OldCarts, SaleAccepts(OldRequest(cart))
  PROVE  SaleOK(OldSaleRow(cart), OldRequest(cart))
<1> DEFINE sale == OldSaleRow(cart)
           due == Priced(cart, 0)
           q == OldRequest(cart)
           old(line) == [ItemRow(line) EXCEPT !.name = Nothing, !.base = Nothing]
<1>1. /\ sale.items = [j \in DOMAIN cart |-> old(cart[j])] /\ sale.due = due
      /\ sale.payment = [method |-> "CASH", amount |-> MaxSafe, received |-> Nothing, change |-> Nothing]
  BY DEF OldSaleRow
<1>2. LinesOK(cart)
  BY RequestAssumption, CartsOK
<1>3. q.lines = cart /\ q.discount = 0 /\ q.payment.method = "CASH" /\ ResolveTender(q.payment) = MaxSafe
  BY DEF OldRequest, OldPayment, ResolveTender
<1>4. /\ q.discount <= due.subtotal /\ due.total > 0
      /\ Money(due.subtotal) /\ Money(due.tax) /\ Money(due.total)
  BY <1>3 DEF SaleAccepts
<1>5. due.subtotal = Subtotal(cart) /\ due.discount = 0
  BY DEF Priced
<1>6. DueOK(due)
  BY <1>2, <1>3, <1>4, <1>5, DueSound
<1>7. \A j \in DOMAIN cart :
        /\ ItemOK(sale.items[j], cart[j]) /\ sale.items[j].name = Nothing
        /\ sale.items[j].subtotal = LineTotal(cart[j])
  <2> SUFFICES ASSUME NEW j \in DOMAIN cart
               PROVE  /\ ItemOK(old(cart[j]), cart[j]) /\ old(cart[j]).name = Nothing
                      /\ old(cart[j]).subtotal = LineTotal(cart[j])
    BY <1>1
  <2>1. LineOK(cart[j])
    BY <1>2 DEF LinesOK
  <2> QED
    BY <2>1, ItemsSnapshot
<1>8. due.total \in 0..MaxSafe
  BY <1>6 DEF DueOK, Due
<1> HIDE DEF sale, due, old, q
<1>9. PaidOK(sale, q)
  BY <1>1, <1>3, <1>8, MaxSafeOK DEF PaidOK
<1>10. Subtotal(cart) = Sum([j \in DOMAIN cart |-> sale.items[j].subtotal], DOMAIN cart)
  <2>1. [j \in DOMAIN cart |-> sale.items[j].subtotal] = [j \in DOMAIN cart |-> LineTotal(cart[j])]
    BY <1>7
  <2>2. Subtotal(cart) = Sum([j \in DOMAIN cart |-> LineTotal(cart[j])], DOMAIN cart)
    BY DEF Subtotal, SumFunction, Sum
  <2> QED
    BY <2>1, <2>2
<1>11. sale.items = [j \in DOMAIN cart |-> sale.items[j]]
  BY <1>1
<1>12. SaleOK(sale, q)
  BY <1>1, <1>2, <1>3, <1>5, <1>6, <1>7, <1>9, <1>10, <1>11 DEF SaleOK
<1> QED
  BY <1>12 DEF sale, q

\* What the assumptions say of the requests.
LEMMA RequestsOK ==
  /\ \A q \in Sent : RequestOK(q)
  /\ \A payment \in Payments : PaymentOK(payment)
<1>1. \A payment \in Payments : PaymentOK(payment)
  BY RequestAssumption DEF PaymentOK
<1>2. ASSUME NEW q \in Sent PROVE RequestOK(q)
  <2>1. q.lines \in Carts /\ q.payment \in Payments /\ q.discount \in 0..MaxSafe /\ MaxSafe \in Nat
    BY RequestAssumption
  <2> QED
    BY <1>1, <2>1, CartsOK DEF RequestOK
<1> QED
  BY <1>1, <1>2
-----------------------------------------------------------------------------
(* The invariant                                                           *)

\* A held order keeps its lines, but for the notes, and so their price.
LEMMA HeldLinesSame ==
  ASSUME CatalogueOK, NEW lines, LinesOK(lines)
  PROVE  /\ LinesOK(HeldLines(lines))
         /\ HoldAccepts(lines) => HoldAccepts(HeldLines(lines))
         /\ Estimate(HeldLines(lines)) = Estimate(lines)
<1> DEFINE held == HeldLines(lines)
<1>1. Len(lines) \in Nat /\ DOMAIN lines = 1..Len(lines) /\ Len(lines) # 0
  <2>1. IsSeq(lines) /\ lines # <<>>
    BY DEF LinesOK
  <2> QED
    BY <2>1, SeqFacts DEF IsSeq
<1>2. /\ held = [i \in 1..Len(lines) |-> held[i]]
      /\ \A i \in DOMAIN lines :
           /\ LineOK(held[i]) /\ held[i].product = lines[i].product
           /\ held[i].options = lines[i].options /\ held[i].quantity = lines[i].quantity
  <2>1. held = [i \in 1..Len(lines) |-> held[i]]
    BY <1>1 DEF HeldLines
  <2>2. ASSUME NEW i \in DOMAIN lines
        PROVE  /\ LineOK(held[i]) /\ held[i].product = lines[i].product
               /\ held[i].options = lines[i].options /\ held[i].quantity = lines[i].quantity
    <3>1. PICK note : held[i] = [lines[i] EXCEPT !.note = note]
      BY DEF HeldLines
    <3>2. LineOK(lines[i])
      BY DEF LinesOK
    <3> HIDE DEF held
    <3> QED
      BY <3>1, <3>2 DEF LineOK
  <2> HIDE DEF held
  <2> QED
    BY <2>1, <2>2
<1>3. IsSeq(held) /\ Len(held) = Len(lines) /\ DOMAIN held = DOMAIN lines
  <2> HIDE DEF held
  <2> QED
    BY <1>1, <1>2, SeqBuilt
<1> HIDE DEF held
<1>4. LinesOK(held)
  BY <1>1, <1>2, <1>3 DEF LinesOK
<1>5. \A i \in DOMAIN lines : EffectivePrice(held[i]) = EffectivePrice(lines[i])
  BY <1>2 DEF EffectivePrice
<1>6. \A i \in DOMAIN lines : LineTotal(held[i]) = LineTotal(lines[i])
  BY <1>2, <1>5 DEF LineTotal
<1>7. Subtotal(held) = Subtotal(lines)
  <2>1. [i \in DOMAIN held |-> LineTotal(held[i])] = [i \in DOMAIN lines |-> LineTotal(lines[i])]
    BY <1>3, <1>6
  <2> QED
    BY <2>1 DEF Subtotal
<1>8. Estimate(held) = Estimate(lines)
  BY <1>7 DEF Estimate, Priced
<1>9. \A i \in DOMAIN lines : HoldLineFits(lines[i]) => HoldLineFits(held[i])
  <2>1. \A i \in DOMAIN lines : \A g : Picked(held[i], g) = Picked(lines[i], g)
    BY <1>2 DEF Picked
  <2>2. \A i \in DOMAIN lines : \A g : SelectionFits(lines[i], g) => SelectionFits(held[i], g)
    BY <1>2, <2>1 DEF SelectionFits
  <2>3. \A i \in DOMAIN lines : OptionsFit(lines[i]) => OptionsFit(held[i])
    BY <1>2 DEF OptionsFit
  <2> QED
    BY <1>2, <1>5, <1>6, <2>2, <2>3 DEF HoldLineFits
<1>10. HoldAccepts(lines) => HoldAccepts(held)
  BY <1>3, <1>8, <1>9 DEF HoldAccepts
<1> QED
  BY <1>4, <1>8, <1>10 DEF held

\* The first state has at most one sale, from before V1.
LEMMA InvInit == Init => IInv
<1> SUFFICES ASSUME Init PROVE IInv
  OBVIOUS
<1>1. CatalogueOK
  <2>1. product \in [Product -> ProductRows]
    <3>1. FirstProduct \in [Product -> Range(FirstProduct)] /\ product = FirstProduct
      BY CatalogueAssumption DEF Init
    <3> QED
      BY <3>1 DEF ProductRows
  <2>2. option \in [Option -> [delta : DeltaRows, active : BOOLEAN]]
    BY CatalogueAssumption, Zenon DEF Init
  <2>3. rate \in Rates \cup FirstRates
    BY DEF Init
  <2> QED
    BY <2>1, <2>2, <2>3 DEF CatalogueOK
<1>2. OrderOK /\ EstimateOK
  <2>1. order = NoOrder /\ order.status = "none"
    BY DEF Init, NoOrder
  <2> QED
    BY <2>1 DEF OrderOK, EstimateOK
<1>3. SalesOK
  <2>1. PICK old \in {<<>>} \cup {<<cart>> : cart \in {c \in OldCarts : SaleAccepts(OldRequest(c))}} :
          /\ sales = [i \in DOMAIN old |-> OldSaleRow(old[i])]
          /\ asked = [i \in DOMAIN old |-> OldRequest(old[i])]
    BY DEF Init
  <2>2. PICK n \in {0, 1} : DOMAIN old = 1..n
    BY <2>1
  <2>3. \A i \in 1..n : old[i] \in OldCarts /\ SaleAccepts(OldRequest(old[i]))
    BY <2>1, <2>2
  <2>4. \A i \in 1..n : SaleOK(sales[i], asked[i])
    BY <1>1, <2>1, <2>2, <2>3, OldSaleStored
  <2>5. sales = [i \in 1..n |-> sales[i]] /\ asked = [i \in 1..n |-> asked[i]] /\ n \in Nat
    BY <2>1, <2>2
  <2>6. IsSeq(sales) /\ IsSeq(asked) /\ Len(sales) = n /\ Len(asked) = n
    BY <2>5, SeqBuilt
  <2> QED
    BY <2>4, <2>5, <2>6 DEF SalesOK
<1> QED
  BY <1>1, <1>2, <1>3 DEF IInv

\* What a step does to the sales: nothing, or it records one more.
LEMMA RecordStep ==
  ASSUME CatalogueOK, SalesOK, NEW q, RequestOK(q), Record(q)
  PROVE  /\ SalesOK'
         /\ DOMAIN sales \subseteq DOMAIN sales' /\ \A i \in DOMAIN sales : sales'[i] = sales[i]
<1>1. sales' = Append(sales, SaleRow(q)) /\ asked' = Append(asked, q) /\ SaleAccepts(q)
  BY DEF Record
<1>2. IsSeq(sales) /\ IsSeq(asked) /\ Len(sales) = Len(asked)
      /\ \A i \in DOMAIN sales : SaleOK(sales[i], asked[i])
  BY DEF SalesOK
<1>3. /\ Len(sales) \in Nat /\ DOMAIN sales = 1..Len(sales) /\ DOMAIN asked = 1..Len(sales)
  BY <1>2, SeqFacts
<1>4. /\ IsSeq(sales') /\ Len(sales') = Len(sales) + 1 /\ \A i \in DOMAIN sales : sales'[i] = sales[i]
      /\ sales'[Len(sales) + 1] = SaleRow(q)
  BY <1>1, <1>2, SeqAppended
<1>5. /\ IsSeq(asked') /\ Len(asked') = Len(asked) + 1 /\ \A i \in DOMAIN asked : asked'[i] = asked[i]
      /\ asked'[Len(asked) + 1] = q
  BY <1>1, <1>2, SeqAppended
<1>6. DOMAIN sales' = 1..(Len(sales) + 1)
  <2>1. DOMAIN sales' = 1..Len(sales')
    BY <1>4 DEF IsSeq
  <2> QED
    BY <1>4, <2>1
<1>7. SaleOK(SaleRow(q), q)
  BY <1>1, SaleStored
<1>8. \A i \in DOMAIN sales' : SaleOK(sales'[i], asked'[i])
  <2> SUFFICES ASSUME NEW i \in 1..(Len(sales) + 1) PROVE SaleOK(sales'[i], asked'[i])
    BY <1>6
  <2>1. CASE i \in 1..Len(sales)
    BY <1>2, <1>3, <1>4, <1>5, <2>1
  <2>2. CASE i = Len(sales) + 1
    BY <1>2, <1>4, <1>5, <1>7, <2>2
  <2> QED
    BY <1>3, <2>1, <2>2
<1>9. SalesOK'
  BY <1>2, <1>4, <1>5, <1>8 DEF SalesOK, IsSeq, Range
<1> QED
  BY <1>3, <1>4, <1>6, <1>9
\* Every step leaves the sales as they are, or records one more.
LEMMA InvNext ==
  ASSUME IInv, [Next]_vars
  PROVE  /\ IInv'
         /\ DOMAIN sales \subseteq DOMAIN sales' /\ \A i \in DOMAIN sales : sales'[i] = sales[i]
<1> DEFINE Goal == /\ IInv'
                   /\ DOMAIN sales \subseteq DOMAIN sales'
                   /\ \A i \in DOMAIN sales : sales'[i] = sales[i]
<1>0. CatalogueOK /\ OrderOK /\ EstimateOK /\ SalesOK
  BY DEF IInv
<1>1. ASSUME NEW lines \in Carts, HoldOrder(lines) \/ UpdateOrder(lines) PROVE Goal
  <2>1. PutOrder(lines)
    BY <1>1 DEF HoldOrder, UpdateOrder
  <2>2. UNCHANGED <<product, option, assigned, groupOn, rate, sales, asked>>
    BY <2>1 DEF PutOrder, catalogue
  <2>3. CatalogueOK' /\ SalesOK'
    BY <1>0, <2>2 DEF CatalogueOK, SalesOK
  <2>4. LinesOK(lines) /\ HoldAccepts(lines)
    BY <2>1, CartsOK DEF PutOrder
  <2>5. /\ LinesOK(HeldLines(lines)) /\ HoldAccepts(HeldLines(lines))
        /\ Estimate(HeldLines(lines)) = Estimate(lines)
    BY <1>0, <2>4, HeldLinesSame
  <2>6. Estimate(lines) \in Due
    <3>1. Subtotal(lines) \in Nat /\ 0 \in Nat /\ 0 <= Subtotal(lines)
      BY <1>0, <2>4, CartMoney
    <3> QED
      BY <1>0, <2>4, <3>1, DueSound DEF Estimate, HoldAccepts
  <2>7. order' = [status |-> "OPEN", lines |-> HeldLines(lines), due |-> Estimate(lines), fresh |-> TRUE]
    BY <2>1 DEF PutOrder
  <2>8. OrderOK'
    BY <2>5, <2>6, <2>7 DEF OrderOK
  <2>9. EstimateOK'
    <3>1. order'.lines = HeldLines(lines) /\ order'.due = Estimate(lines)
      BY <2>7
    <3>2. \A ls : HoldAccepts(ls)' <=> HoldAccepts(ls)
      BY <2>2 DEF HoldAccepts, HoldLineFits, OptionsFit, SelectionFits, Live, Picked, EffectivePrice,
                  LineTotal, Estimate, Priced, Subtotal
    <3>3. \A ls : Estimate(ls)' = Estimate(ls)
      BY <2>2 DEF Estimate, Priced, Subtotal, LineTotal, EffectivePrice
    <3> QED
      BY <2>5, <3>1, <3>2, <3>3 DEF EstimateOK
  <2> QED
    BY <2>2, <2>3, <2>8, <2>9 DEF IInv
<1>2. ASSUME NEW payment \in Payments, ConvertOrder(payment) PROVE Goal
  <2>1. /\ order.status = "OPEN" /\ Record(Converted(payment))
        /\ order' = [order EXCEPT !.status = "CONVERTED"]
        /\ UNCHANGED <<product, option, assigned, groupOn, rate>>
    BY <1>2 DEF ConvertOrder, catalogue
  <2>2. order # NoOrder
    BY <2>1 DEF NoOrder
  <2>3. RequestOK(Converted(payment))
    BY <1>0, <2>2, RequestsOK DEF RequestOK, Converted, OrderOK
  <2>4. /\ SalesOK' /\ DOMAIN sales \subseteq DOMAIN sales'
        /\ \A i \in DOMAIN sales : sales'[i] = sales[i]
    BY <1>0, <2>1, <2>3, RecordStep
  <2>5. CatalogueOK'
    BY <1>0, <2>1 DEF CatalogueOK
  <2>6. OrderOK' /\ EstimateOK'
    BY <1>0, <2>1, <2>2 DEF OrderOK, EstimateOK
  <2> QED
    BY <2>4, <2>5, <2>6 DEF IInv
<1>3. ASSUME NEW q \in Sent, Sell(q) PROVE Goal
  <2>1. Record(q) /\ UNCHANGED <<product, option, assigned, groupOn, rate, order>>
    BY <1>3 DEF Sell, catalogue
  <2>2. RequestOK(q)
    BY RequestsOK
  <2>3. /\ SalesOK' /\ DOMAIN sales \subseteq DOMAIN sales'
        /\ \A i \in DOMAIN sales : sales'[i] = sales[i]
    BY <1>0, <2>1, <2>2, RecordStep
  <2>4. CatalogueOK' /\ OrderOK'
    BY <1>0, <2>1 DEF CatalogueOK, OrderOK
  <2>5. EstimateOK'
    <3>1. /\ HoldAccepts(order.lines)' <=> HoldAccepts(order.lines)
          /\ Estimate(order.lines)' = Estimate(order.lines)
      BY <2>1 DEF HoldAccepts, HoldLineFits, OptionsFit, SelectionFits, Live, Picked, EffectivePrice,
                  LineTotal, Estimate, Priced, Subtotal
    <3> QED
      BY <1>0, <2>1, <3>1 DEF EstimateOK
  <2> QED
    BY <2>3, <2>4, <2>5 DEF IInv
<1>4. ASSUME Edit, CatalogueOK' PROVE Goal
  <2>1. order' = [order EXCEPT !.fresh = FALSE] /\ UNCHANGED <<sales, asked>>
    BY <1>4 DEF Edit
  <2>2. SalesOK'
    BY <1>0, <2>1 DEF SalesOK
  <2>3. CASE order = NoOrder
    <3>1. order' = NoOrder /\ order'.status = "none"
      BY <2>1, <2>3 DEF NoOrder
    <3> QED
      BY <1>4, <2>1, <2>2, <3>1 DEF OrderOK, EstimateOK, IInv
  <2>4. CASE order # NoOrder
    <3>1. /\ order = [status |-> order.status, lines |-> order.lines, due |-> order.due,
                      fresh |-> order.fresh]
          /\ order.status \in {"OPEN", "CONVERTED"} /\ LinesOK(order.lines) /\ order.due \in Due
      BY <1>0, <2>4 DEF OrderOK
    <3>2. order' = [status |-> order.status, lines |-> order.lines, due |-> order.due, fresh |-> FALSE]
      BY <2>1, <3>1
    <3>3. OrderOK'
      BY <3>1, <3>2 DEF OrderOK
    <3>4. EstimateOK'
      BY <3>2 DEF EstimateOK
    <3> QED
      BY <1>4, <2>1, <2>2, <3>3, <3>4 DEF IInv
  <2> QED
    BY <2>3, <2>4
<1>5. ASSUME NEW p \in Product, NEW data \in ProductData, UpdateProduct(p, data) PROVE Goal
  <2>1. product' \in [Product -> ProductRows]
    BY <1>0, <1>5 DEF CatalogueOK, UpdateProduct, ProductRows
  <2> QED
    BY <1>0, <1>4, <1>5, <2>1 DEF UpdateProduct, CatalogueOK
<1>6. ASSUME NEW o \in Option, NEW d \in Deltas, UpdateOption(o, d) PROVE Goal
  <2>1. option' \in [Option -> [delta : DeltaRows, active : BOOLEAN]]
    BY <1>0, <1>6 DEF CatalogueOK, UpdateOption, DeltaRows
  <2> QED
    BY <1>0, <1>4, <1>6, <2>1 DEF UpdateOption, CatalogueOK
<1>7. ASSUME NEW o \in Option, SwitchOption(o) PROVE Goal
  <2>1. option' \in [Option -> [delta : DeltaRows, active : BOOLEAN]]
    BY <1>0, <1>7 DEF CatalogueOK, SwitchOption
  <2> QED
    BY <1>0, <1>4, <1>7, <2>1 DEF SwitchOption, CatalogueOK
<1>8. ASSUME NEW g \in Group, SwitchGroup(g) PROVE Goal
  BY <1>0, <1>4, <1>8 DEF SwitchGroup, CatalogueOK
<1>9. ASSUME NEW p \in Product, NEW g \in Group, NEW kind \in Kind, AssignGroup(p, g, kind) PROVE Goal
  BY <1>0, <1>4, <1>9 DEF AssignGroup, CatalogueOK
<1>10. ASSUME NEW r \in Rates, SetRate(r) PROVE Goal
  BY <1>0, <1>4, <1>10 DEF SetRate, CatalogueOK
<1>11. ASSUME UNCHANGED vars PROVE Goal
  <2>1. UNCHANGED <<product, option, assigned, groupOn, rate, order, sales, asked>>
    BY <1>11 DEF vars, catalogue
  <2>2. CatalogueOK' /\ OrderOK' /\ SalesOK'
    BY <1>0, <2>1 DEF CatalogueOK, OrderOK, SalesOK
  <2>3. EstimateOK'
    <3>1. /\ HoldAccepts(order.lines)' <=> HoldAccepts(order.lines)
          /\ Estimate(order.lines)' = Estimate(order.lines)
      BY <2>1 DEF HoldAccepts, HoldLineFits, OptionsFit, SelectionFits, Live, Picked, EffectivePrice,
                  LineTotal, Estimate, Priced, Subtotal
    <3> QED
      BY <1>0, <2>1, <3>1 DEF EstimateOK
  <2> QED
    BY <2>1, <2>2, <2>3 DEF IInv
<1> HIDE DEF Goal
<1>12. Goal
  BY <1>1, <1>2, <1>3, <1>5, <1>6, <1>7, <1>8, <1>9, <1>10, <1>11 DEF Next
<1> QED
  BY <1>12 DEF Goal

-----------------------------------------------------------------------------
(* 3. Prices, amounts and receipts                                         *)

\* Every reachable state is well formed, and every sale in it a snapshot of its
\* request that adds up: what checkout writes can be read for ever.
THEOREM InvariantHolds == Spec => []IInv
<1>1. IInv /\ [Next]_vars => IInv'
  BY InvNext
<1> QED
  BY InvInit, <1>1, PTL DEF Spec

\* A line is at most its sum, which is in range, and its price at most the line.
LEMMA InRangeNow == IInv => StoredInRange
<1> SUFFICES ASSUME IInv PROVE StoredInRange
  OBVIOUS
<1>1. OrderOK /\ SalesOK
  BY DEF IInv
<1>2. order.due # Nothing => order.due \in Due
  <2>1. NoOrder.due = Nothing
    BY DEF NoOrder
  <2> QED
    BY <1>1, <2>1 DEF OrderOK
<1>3. ASSUME NEW i \in DOMAIN sales
      PROVE  /\ sales[i].due \in Due
             /\ \A j \in DOMAIN sales[i].items :
                  {sales[i].items[j].unit, sales[i].items[j].subtotal} \subseteq 0..MaxSafe
             /\ ReceiptChange(sales[i]) # Nothing => ReceiptChange(sales[i]) \in 0..MaxSafe
  <2> DEFINE sale == sales[i]
             q == asked[i]
             f == [j \in DOMAIN q.lines |-> sale.items[j].subtotal]
  <2>1. SaleOK(sale, q)
    BY <1>1 DEF SalesOK
  <2> HIDE DEF sale, q
  <2>2. DueOK(sale.due) /\ sale.due \in Due /\ sale.due.subtotal \in 0..MaxSafe
        /\ sale.due.total \in 0..MaxSafe
    BY <2>1 DEF SaleOK, DueOK, Due
  <2>3. DOMAIN sale.items = DOMAIN q.lines /\ LinesOK(q.lines)
    BY <2>1 DEF SaleOK
  <2>4. IsFiniteSet(DOMAIN q.lines)
    BY <2>3, SeqFacts DEF LinesOK
  <2>5. ASSUME NEW j \in DOMAIN q.lines
        PROVE  /\ sale.items[j].unit \in Nat /\ sale.items[j].subtotal \in Nat
               /\ sale.items[j].unit <= sale.items[j].subtotal
    <3>1. ItemOK(sale.items[j], q.lines[j]) /\ LineOK(q.lines[j])
      BY <2>1, <2>3 DEF SaleOK, LinesOK
    <3>2. PICK a \in Nat : sale.items[j].unit = a
      BY <3>1 DEF ItemOK
    <3>3. PICK n \in Nat \ {0} : sale.items[j].quantity = n
      BY <3>1 DEF ItemOK, LineOK
    <3>4. sale.items[j].subtotal = a * n
      BY <3>1, <3>2, <3>3 DEF ItemOK
    <3>5. a * n = a + a * (n - 1) /\ a * (n - 1) \in Nat
      OBVIOUS
    <3> QED
      BY <3>2, <3>4, <3>5
  <2>6. \A j \in DOMAIN q.lines : f[j] = sale.items[j].subtotal /\ f[j] \in Nat
    BY <2>5
  <2>7. sale.due.subtotal = Sum(f, DOMAIN q.lines)
    BY <2>1 DEF SaleOK
  <2> HIDE DEF f
  <2>8. \A j \in DOMAIN q.lines : sale.items[j].subtotal <= sale.due.subtotal
    BY <2>4, <2>6, <2>7, SumBounds
  <2>9. \A j \in DOMAIN sale.items : {sale.items[j].unit, sale.items[j].subtotal} \subseteq 0..MaxSafe
    BY <2>2, <2>3, <2>5, <2>8, MaxSafeOK
  <2>10. PaidOK(sale, q)
    BY <2>1 DEF SaleOK
  <2>11. ReceiptChange(sale) # Nothing => ReceiptChange(sale) \in 0..MaxSafe
    BY <2>2, <2>10, MaxSafeOK DEF PaidOK, ReceiptChange
  <2> QED
    BY <2>2, <2>9, <2>11 DEF sale
<1> QED
  BY <1>2, <1>3 DEF StoredInRange

\* By RulesAgree, for the carts.
LEMMA SameRulesNow == IInv => SameRules
<1> SUFFICES ASSUME IInv, NEW lines \in Carts
             PROVE  SaleAccepts(PlainSale(lines)) <=> HoldAccepts(lines) /\ Estimate(lines).total > 0
  BY DEF SameRules
<1>1. CatalogueOK /\ LinesOK(lines)
  BY CartsOK DEF IInv
<1> QED
  BY <1>1, RulesAgree DEF PlainSale

\* By RulesAgree, for the lines of the order, which its estimate priced.
LEMMA EstimateNow == IInv => EstimateHonoured
<1> SUFFICES ASSUME IInv, order.status = "OPEN", order.fresh
             PROVE  /\ Priced(order.lines, 0) = order.due
                    /\ SaleAccepts(Converted(Exact(order.due.total))) <=> order.due.total > 0
  BY DEF EstimateHonoured
<1>1. CatalogueOK /\ HoldAccepts(order.lines) /\ order.due = Estimate(order.lines)
  BY DEF IInv, EstimateOK
<1>2. LinesOK(order.lines)
  <2>1. order # NoOrder
    BY DEF NoOrder
  <2> QED
    BY <2>1 DEF IInv, OrderOK
<1>3. Priced(order.lines, 0) = order.due
  BY <1>1 DEF Estimate
<1> DEFINE q == Converted(Exact(order.due.total))
<1>4. q.lines = order.lines /\ q.discount = 0 /\ q.payment = Exact(Priced(order.lines, 0).total)
  BY <1>3 DEF Converted
<1> HIDE DEF q
<1>5. SaleAccepts(q) <=> HoldAccepts(order.lines) /\ Estimate(order.lines).total > 0
  BY <1>1, <1>2, <1>4, RulesAgree
<1> QED
  BY <1>1, <1>3, <1>5 DEF q

\* A receipt shows what the sale keeps.
LEMMA AddsUpNow == IInv => ReceiptAddsUp
<1> SUFFICES ASSUME IInv, NEW i \in DOMAIN sales
             PROVE  LET r == Receipt(i)
                        due == r.totals
                        tender == ResolveTender(asked[i].payment)
                    IN  /\ SumFunction([j \in DOMAIN r.items |-> r.items[j].subtotal]) = due.subtotal
                        /\ \A j \in DOMAIN r.items :
                             r.items[j].unit * r.items[j].quantity = r.items[j].subtotal
                        /\ due.subtotal - due.discount + due.tax = due.total
                        /\ tender # Nothing => due.total + r.change = tender
  BY DEF ReceiptAddsUp
<1> DEFINE sale == sales[i]
           q == asked[i]
           r == Receipt(i)
           tender == ResolveTender(q.payment)
<1>1. SaleOK(sale, q)
  BY DEF IInv, SalesOK
<1>2. /\ DOMAIN r.items = DOMAIN sale.items /\ r.totals = sale.due /\ r.change = ReceiptChange(sale)
      /\ \A j \in DOMAIN sale.items :
           /\ r.items[j].unit = sale.items[j].unit /\ r.items[j].quantity = sale.items[j].quantity
           /\ r.items[j].subtotal = sale.items[j].subtotal
  BY DEF Receipt, ReceiptItem
<1> HIDE DEF sale, q, r
<1>3. DOMAIN sale.items = DOMAIN q.lines /\ DueOK(sale.due) /\ PaidOK(sale, q)
  BY <1>1 DEF SaleOK
<1>4. SumFunction([j \in DOMAIN r.items |-> r.items[j].subtotal]) = sale.due.subtotal
  <2>1. [j \in DOMAIN r.items |-> r.items[j].subtotal]
          = [j \in DOMAIN q.lines |-> sale.items[j].subtotal]
    BY <1>2, <1>3
  <2> QED
    BY <1>1, <2>1 DEF SaleOK, SumFunction, Sum
<1>5. \A j \in DOMAIN r.items : r.items[j].unit * r.items[j].quantity = r.items[j].subtotal
  <2>1. \A j \in DOMAIN q.lines : sale.items[j].subtotal = sale.items[j].unit * sale.items[j].quantity
    BY <1>1 DEF SaleOK, ItemOK
  <2> QED
    BY <1>2, <1>3, <2>1
<1>6. tender # Nothing => sale.due.total + r.change = tender
  BY <1>2, <1>3, MaxSafeOK DEF PaidOK, ReceiptChange, DueOK, Due
<1>7. sale.due.subtotal - sale.due.discount + sale.due.tax = sale.due.total
  BY <1>3 DEF DueOK
<1> QED
  BY <1>2, <1>4, <1>5, <1>6, <1>7 DEF q, r

\* What a step leaves of a receipt: all of it, but for names that it does not keep.
LEMMA FrozenStep ==
  ASSUME IInv, [Next]_vars, NEW i \in DOMAIN sales
  PROVE  /\ WithoutNames(Receipt(i)) = WithoutNames(Receipt(i))'
         /\ sales[i].items[1].name # Nothing => Receipt(i) = Receipt(i)'
<1>1. sales'[i] = sales[i]
  BY InvNext
<1>2. /\ Receipt(i) = [items |-> [j \in DOMAIN sales[i].items |-> ReceiptItem(sales[i].items[j])],
                       totals |-> sales[i].due, payment |-> sales[i].payment,
                       change |-> ReceiptChange(sales[i])]
      /\ Receipt(i)' = [items |-> [j \in DOMAIN sales[i].items |-> ReceiptItem(sales[i].items[j])'],
                        totals |-> sales[i].due, payment |-> sales[i].payment,
                        change |-> ReceiptChange(sales[i])]
  BY <1>1 DEF Receipt, ReceiptItem, ReceiptChange
<1>3. /\ \A j \in DOMAIN sales[i].items :
           [ReceiptItem(sales[i].items[j]) EXCEPT !.name = Nothing]
             = [ReceiptItem(sales[i].items[j])' EXCEPT !.name = Nothing]
      /\ \A j \in DOMAIN sales[i].items : sales[i].items[j].name # Nothing =>
           ReceiptItem(sales[i].items[j]) = ReceiptItem(sales[i].items[j])'
  BY <1>1 DEF ReceiptItem
<1>4. WithoutNames(Receipt(i)) = WithoutNames(Receipt(i))'
  <2>1. PICK S, f, g, totals, payment, change :
          /\ S = DOMAIN sales[i].items /\ totals = sales[i].due /\ payment = sales[i].payment
          /\ change = ReceiptChange(sales[i])
          /\ f = [j \in S |-> ReceiptItem(sales[i].items[j])]
          /\ g = [j \in S |-> ReceiptItem(sales[i].items[j])']
    OBVIOUS
  <2>2. /\ Receipt(i) = [items |-> f, totals |-> totals, payment |-> payment, change |-> change]
        /\ Receipt(i)' = [items |-> g, totals |-> totals, payment |-> payment, change |-> change]
    BY <1>2, <2>1
  <2>3. \A j \in S : [f[j] EXCEPT !.name = Nothing] = [g[j] EXCEPT !.name = Nothing]
    BY <1>3, <2>1
  <2> DEFINE F == [items |-> f, totals |-> totals, payment |-> payment, change |-> change]
             G == [items |-> g, totals |-> totals, payment |-> payment, change |-> change]
             h == [j \in S |-> [g[j] EXCEPT !.name = Nothing]]
  <2>4. [j \in S |-> [f[j] EXCEPT !.name = Nothing]] = h
    BY <2>3
  <2>5. WithoutNames(F) = [F EXCEPT !.items = h] /\ WithoutNames(G) = [G EXCEPT !.items = h]
    <3>1. DOMAIN f = S /\ DOMAIN g = S
      BY <2>1
    <3>2. WithoutNames(F) = [F EXCEPT !.items = [j \in S |-> [f[j] EXCEPT !.name = Nothing]]]
      BY <3>1 DEF WithoutNames
    <3>3. WithoutNames(G) = [G EXCEPT !.items = h]
      BY <3>1 DEF WithoutNames
    <3> QED
      BY <2>4, <3>2, <3>3
  <2>6. WithoutNames(Receipt(i))' = WithoutNames(Receipt(i)')
    BY DEF WithoutNames
  <2>7. [F EXCEPT !.items = h] = [G EXCEPT !.items = h]
    <3> HIDE DEF h
    <3> QED
      OBVIOUS
  <2> HIDE DEF h
  <2> QED
    BY <2>2, <2>5, <2>6, <2>7
<1>5. ASSUME sales[i].items[1].name # Nothing PROVE Receipt(i) = Receipt(i)'
  <2>1. SaleOK(sales[i], asked[i])
    BY DEF IInv, SalesOK
  <2>2. DOMAIN sales[i].items = DOMAIN asked[i].lines /\ 1 \in DOMAIN asked[i].lines
    <3>1. LinesOK(asked[i].lines) /\ DOMAIN sales[i].items = DOMAIN asked[i].lines
      BY <2>1 DEF SaleOK
    <3> QED
      BY <3>1 DEF LinesOK, IsSeq
  <2>3. \A j \in DOMAIN sales[i].items : sales[i].items[j].name # Nothing
    BY <1>5, <2>1, <2>2 DEF SaleOK
  <2> QED
    BY <1>2, <1>3, <2>3
<1> QED
  BY <1>4, <1>5

-----------------------------------------------------------------------------
(* 4. A request that comes again                                           *)

\* Two sequences are the same bag exactly when one is the other in another order.
LEMMA BagsMatch ==
  ASSUME NEW a, NEW b, IsSeq(a), IsSeq(b)
  PROVE  SameBag(a, b) <=>
           /\ Len(b) = Len(a)
           /\ \E f \in Bijection(DOMAIN b, DOMAIN a) : \A i \in DOMAIN b : b[i] = a[f[i]]
<1> DEFINE At(s, k) == {i \in DOMAIN s : s[i] = k}
<1>1. /\ Len(a) \in Nat /\ DOMAIN a = 1..Len(a) /\ IsFiniteSet(DOMAIN a)
      /\ Len(b) \in Nat /\ DOMAIN b = 1..Len(b) /\ IsFiniteSet(DOMAIN b)
  BY SeqFacts
<1>2. \A k : IsFiniteSet(At(a, k)) /\ IsFiniteSet(At(b, k))
  <2>1. \A k : At(a, k) \in SUBSET DOMAIN a /\ At(b, k) \in SUBSET DOMAIN b
    OBVIOUS
  <2> HIDE DEF At
  <2> QED
    BY <1>1, <2>1, FS_Subset
<1>3. \A s, k : Times(s, k) = Cardinality(At(s, k))
  BY DEF Times
<1>4. ASSUME Len(b) = Len(a), NEW f \in Bijection(DOMAIN b, DOMAIN a),
             \A i \in DOMAIN b : b[i] = a[f[i]]
      PROVE  SameBag(a, b)
  <2>1. ASSUME NEW k PROVE Times(a, k) = Times(b, k)
    <3> DEFINE g == [i \in At(b, k) |-> f[i]]
    <3>1. f \in [DOMAIN b -> DOMAIN a] /\ (\A i, j \in DOMAIN b : f[i] = f[j] => i = j)
          /\ \A t \in DOMAIN a : \E s \in DOMAIN b : f[s] = t
      BY DEF Bijection, Injection, Surjection, IsInjective
    <3>2. g \in [At(b, k) -> At(a, k)]
      BY <1>4, <3>1
    <3>3. \A i, j \in At(b, k) : g[i] = g[j] => i = j
      BY <3>1
    <3>4. \A t \in At(a, k) : \E s \in At(b, k) : g[s] = t
      BY <1>4, <3>1
    <3> HIDE DEF g, At
    <3>5. g \in Bijection(At(b, k), At(a, k))
      BY <3>2, <3>3, <3>4 DEF Bijection, Injection, Surjection, IsInjective
    <3>6. ExistsBijection(At(b, k), At(a, k))
      BY <3>5 DEF ExistsBijection
    <3> QED
      BY <1>2, <1>3, <3>6, FS_Bijection
  <2> QED
    BY <1>4, <2>1 DEF SameBag
<1>5. ASSUME SameBag(a, b)
      PROVE  \E f \in Bijection(DOMAIN b, DOMAIN a) : \A i \in DOMAIN b : b[i] = a[f[i]]
  <2> DEFINE keys == {a[i] : i \in DOMAIN a}
             B == {i \in DOMAIN b : b[i] \in keys}
             h == [k \in keys |-> CHOOSE g : g \in Bijection(At(b, k), At(a, k))]
             f == [i \in B |-> h[b[i]][i]]
  <2>1. \A k \in keys : h[k] \in Bijection(At(b, k), At(a, k))
    <3> SUFFICES ASSUME NEW k \in keys PROVE \E g : g \in Bijection(At(b, k), At(a, k))
      OBVIOUS
    <3>1. Cardinality(At(b, k)) = Cardinality(At(a, k))
      BY <1>3, <1>5 DEF SameBag
    <3> HIDE DEF At
    <3>2. ExistsBijection(At(b, k), At(a, k))
      BY <1>2, <3>1, FS_SameCardinalityBij
    <3> QED
      BY <3>2 DEF ExistsBijection
  <2>2. \A k \in keys :
          /\ \A i \in At(b, k) : h[k][i] \in At(a, k)
          /\ \A i, j \in At(b, k) : h[k][i] = h[k][j] => i = j
          /\ \A t \in At(a, k) : \E s \in At(b, k) : h[k][s] = t
    <3> HIDE DEF h, keys, At
    <3> QED
      BY <2>1 DEF Bijection, Injection, Surjection, IsInjective
  <2> HIDE DEF h
  <2>3. \A i \in B : f[i] \in DOMAIN a /\ a[f[i]] = b[i]
    <3> SUFFICES ASSUME NEW i \in B PROVE f[i] \in DOMAIN a /\ a[f[i]] = b[i]
      OBVIOUS
    <3>1. b[i] \in keys /\ i \in At(b, b[i]) /\ f[i] = h[b[i]][i]
      OBVIOUS
    <3>2. f[i] \in At(a, b[i])
      <4> HIDE DEF At, keys, f, B
      <4> QED
        BY <2>2, <3>1
    <3> QED
      BY <3>2
  <2>4. \A i, j \in B : f[i] = f[j] => i = j
    <3> SUFFICES ASSUME NEW i \in B, NEW j \in B, f[i] = f[j] PROVE i = j
      OBVIOUS
    <3>1. b[i] = b[j]
      BY <2>3
    <3>2. i \in At(b, b[i]) /\ j \in At(b, b[i]) /\ b[i] \in keys
      BY <3>1
    <3>3. h[b[i]][i] = h[b[i]][j]
      BY <3>1
    <3> HIDE DEF At, keys, f, B
    <3> QED
      BY <2>2, <3>2, <3>3
  <2>5. \A t \in DOMAIN a : \E s \in B : f[s] = t
    <3> SUFFICES ASSUME NEW t \in DOMAIN a PROVE \E s \in B : f[s] = t
      OBVIOUS
    <3>1. a[t] \in keys /\ t \in At(a, a[t])
      OBVIOUS
    <3>2. PICK s \in At(b, a[t]) : h[a[t]][s] = t
      BY <2>2, <3>1
    <3> QED
      BY <3>1, <3>2
  <2>6. f \in [B -> DOMAIN a]
    BY <2>3
  <2> HIDE DEF f
  <2>7. f \in Bijection(B, DOMAIN a)
    BY <2>4, <2>5, <2>6 DEF Bijection, Injection, Surjection, IsInjective
  <2>8. B \in SUBSET DOMAIN b
    OBVIOUS
  <2> HIDE DEF B
  <2>9. IsFiniteSet(B) /\ Cardinality(DOMAIN a) = Cardinality(B)
    <3>1. ExistsBijection(B, DOMAIN a)
      BY <2>7 DEF ExistsBijection
    <3>2. IsFiniteSet(B)
      BY <1>1, <2>8, FS_Subset
    <3> QED
      BY <3>1, <3>2, FS_Bijection
  <2>10. DOMAIN a = DOMAIN b
    BY <1>1, <1>5 DEF SameBag
  <2>11. B = DOMAIN b
    BY <1>1, <2>8, <2>9, <2>10, FS_Subset
  <2> QED
    BY <2>3, <2>7, <2>11
<1>6. SameBag(a, b) => Len(b) = Len(a)
  BY DEF SameBag
<1> QED
  BY <1>4, <1>5, <1>6

\* Lines with the same key are the same.
LEMMA KeysTell ==
  ASSUME NEW x, NEW y, LineOK(x), LineOK(y)
  PROVE  LineKey(x) = LineKey(y) <=> x = y
  BY DEF LineOK, LineKey

\* A stored payment is told from another by method and tender, whichever field has it.
LEMMA PaymentsTell ==
  ASSUME NEW sale, NEW r, NEW payment, PaidOK(sale, r), DueOK(sale.due), PaymentOK(payment),
         PaymentShapeFits(payment)
  PROVE  SamePayment(sale.payment, payment) <=>
           /\ payment.method = r.payment.method
           /\ ResolveTender(payment) = ResolveTender(r.payment)
<1>1. /\ payment.method = "CASH" => ResolveTender(payment) \in 0..MaxSafe
      /\ payment.method # "CASH" => ResolveTender(payment) = Nothing
  BY Tendered
<1> QED
  BY <1>1, MaxSafeOK DEF PaidOK, SamePayment, DueOK, Due

\* So assertSameRequest is exact.
LEMMA ReplayNow == IInv => ReplayExactly
<1> SUFFICES ASSUME IInv, NEW i \in DOMAIN sales, NEW q \in Request, PaymentShapeFits(q.payment)
             PROVE  SameRequest(sales[i], q) <=> Means(q, asked[i])
  BY DEF ReplayExactly
<1> DEFINE sale == sales[i]
           r == asked[i]
           a == [j \in DOMAIN sale.items |-> StoredKey(sale.items[j])]
           b == [j \in DOMAIN q.lines |-> LineKey(q.lines[j])]
<1>1. SaleOK(sale, r)
  BY DEF IInv, SalesOK
<1>2. LinesOK(q.lines) /\ PaymentOK(q.payment)
  BY CartsOK, RequestsOK DEF Request
<1>3. SameRequest(sale, q) <=>
        sale.due.discount = q.discount /\ SamePayment(sale.payment, q.payment) /\ SameBag(a, b)
  BY DEF SameRequest
<1> HIDE DEF sale, r
<1>4. /\ LinesOK(r.lines) /\ DOMAIN sale.items = DOMAIN r.lines
      /\ \A j \in DOMAIN r.lines : ItemOK(sale.items[j], r.lines[j])
      /\ sale.due.discount = r.discount /\ PaidOK(sale, r) /\ DueOK(sale.due)
  BY <1>1 DEF SaleOK
<1>5. SamePayment(sale.payment, q.payment) <=>
        q.payment.method = r.payment.method /\ ResolveTender(q.payment) = ResolveTender(r.payment)
  BY <1>2, <1>4, PaymentsTell
<1>6. /\ DOMAIN a = DOMAIN r.lines /\ \A j \in DOMAIN r.lines : a[j] = LineKey(r.lines[j])
      /\ DOMAIN b = DOMAIN q.lines /\ \A j \in DOMAIN q.lines : b[j] = LineKey(q.lines[j])
  BY <1>4 DEF ItemOK, StoredKey, LineKey
<1>7. /\ a = [j \in 1..Len(r.lines) |-> a[j]] /\ b = [j \in 1..Len(q.lines) |-> b[j]]
      /\ Len(r.lines) \in Nat /\ Len(q.lines) \in Nat
  <2>1. /\ DOMAIN r.lines = 1..Len(r.lines) /\ Len(r.lines) \in Nat
        /\ DOMAIN q.lines = 1..Len(q.lines) /\ Len(q.lines) \in Nat
    BY <1>2, <1>4, SeqFacts DEF LinesOK
  <2> QED
    BY <1>4, <2>1
<1> HIDE DEF a, b
<1>8. IsSeq(a) /\ IsSeq(b) /\ Len(a) = Len(r.lines) /\ Len(b) = Len(q.lines)
  BY <1>7, SeqBuilt
<1>9. SameBag(a, b) <=>
        /\ Len(b) = Len(a)
        /\ \E f \in Bijection(DOMAIN b, DOMAIN a) : \A j \in DOMAIN b : b[j] = a[f[j]]
  BY <1>8, BagsMatch
<1>10. ASSUME NEW f \in Bijection(DOMAIN q.lines, DOMAIN r.lines)
       PROVE  \A j \in DOMAIN q.lines : b[j] = a[f[j]] <=> q.lines[j] = r.lines[f[j]]
  <2>1. \A j \in DOMAIN q.lines : f[j] \in DOMAIN r.lines
    BY DEF Bijection, Injection
  <2> QED
    BY <1>2, <1>4, <1>6, <2>1, KeysTell DEF LinesOK
<1>11. SameBag(a, b) <=>
         /\ Len(q.lines) = Len(r.lines)
         /\ \E f \in Bijection(DOMAIN q.lines, DOMAIN r.lines) :
              \A j \in DOMAIN q.lines : q.lines[j] = r.lines[f[j]]
  BY <1>6, <1>8, <1>9, <1>10
<1>12. Means(q, r) <=>
         /\ q.discount = r.discount /\ q.payment.method = r.payment.method
         /\ ResolveTender(q.payment) = ResolveTender(r.payment) /\ Len(q.lines) = Len(r.lines)
         /\ \E f \in Bijection(DOMAIN q.lines, DOMAIN r.lines) :
              \A j \in DOMAIN q.lines : q.lines[j] = r.lines[f[j]]
  BY DEF Means
<1>13. SameRequest(sale, q) <=> Means(q, r)
  BY <1>3, <1>4, <1>5, <1>11, <1>12 DEF sale
<1> QED
  BY <1>13 DEF sale, r

-----------------------------------------------------------------------------
(* 5. The reports                                                          *)

\* The image of a finite set.
LEMMA ImageFinite ==
  ASSUME NEW S, IsFiniteSet(S), NEW f
  PROVE  IsFiniteSet({f[x] : x \in S})
<1> DEFINE T == {f[x] : x \in S}
           g == [x \in S |-> f[x]]
<1>1. g \in Surjection(S, T)
  BY DEF Surjection
<1> HIDE DEF g, T
<1>2. IsFiniteSet(T)
  BY <1>1, FS_Surjection
<1> QED
  BY <1>2 DEF T

\* The items are finitely many.
LEMMA ItemsFinite ==
  ASSUME SalesOK
  PROVE  /\ IsFiniteSet(DOMAIN sales) /\ IsFiniteSet(Items)
         /\ \A i \in DOMAIN sales : IsFiniteSet(DOMAIN sales[i].items)
<1>1. IsFiniteSet(DOMAIN sales)
  BY SeqFacts DEF SalesOK
<1>2. ASSUME NEW i \in DOMAIN sales PROVE IsFiniteSet(DOMAIN sales[i].items)
  <2>1. SaleOK(sales[i], asked[i])
    BY DEF SalesOK
  <2>2. DOMAIN sales[i].items = DOMAIN asked[i].lines /\ IsSeq(asked[i].lines)
    BY <2>1 DEF SaleOK, LinesOK
  <2> QED
    BY <2>2, SeqFacts
<1> DEFINE row == [i \in DOMAIN sales |-> {<<i, j>> : j \in DOMAIN sales[i].items}]
<1>3. ASSUME NEW i \in DOMAIN sales PROVE IsFiniteSet(row[i])
  <2> DEFINE to == [j \in DOMAIN sales[i].items |-> <<i, j>>]
  <2>1. row[i] = {to[j] : j \in DOMAIN sales[i].items}
    OBVIOUS
  <2> HIDE DEF to, row
  <2> QED
    BY <1>2, <2>1, ImageFinite
<1>4. Items = UNION {row[i] : i \in DOMAIN sales}
  BY DEF Items
<1> HIDE DEF row
<1>5. IsFiniteSet({row[i] : i \in DOMAIN sales})
  BY <1>1, ImageFinite
<1>6. IsFiniteSet(Items)
  BY <1>3, <1>4, <1>5, FS_UNION
<1> QED
  BY <1>1, <1>2, <1>6

\* A sum over all items is one over the sales of the sums over their items.
LEMMA SumBySale ==
  ASSUME SalesOK, NEW f, \A x \in Items : f[x] \in Int, NEW g,
         \A i \in DOMAIN sales :
           g[i] = Sum([j \in DOMAIN sales[i].items |-> f[<<i, j>>]], DOMAIN sales[i].items)
  PROVE  Sum(f, Items) = Sum(g, DOMAIN sales)
<1> DEFINE class == [x \in Items |-> x[1]]
           Of(i) == {x \in Items : class[x] = i}
           h == [i \in DOMAIN sales |-> Sum(f, Of(i))]
<1>1. IsFiniteSet(DOMAIN sales) /\ IsFiniteSet(Items)
  BY ItemsFinite
<1>2. \A x \in Items : class[x] \in DOMAIN sales
  BY DEF Items
<1>3. ASSUME NEW i \in DOMAIN sales PROVE Sum(f, Of(i)) = g[i]
  <2> DEFINE D == DOMAIN sales[i].items
             to == [j \in D |-> <<i, j>>]
             R == Of(i)
             own == [j \in D |-> f[<<i, j>>]]
  <2>1. R = {to[j] : j \in D}
    <3>1. \A j \in D : to[j] \in Items /\ to[j] \in R
      BY DEF Items
    <3>2. ASSUME NEW x \in R PROVE \E j \in D : x = to[j]
      <4>1. PICK k \in DOMAIN sales : \E j \in DOMAIN sales[k].items : x = <<k, j>>
        BY DEF Items
      <4>2. k = i
        BY <4>1
      <4> QED
        BY <4>1, <4>2
    <3> HIDE DEF R, to, D
    <3> QED
      BY <3>1, <3>2
  <2>2. \A j \in D : <<i, j>> \in Items
    BY DEF Items
  <2>3. \A j \in D : own[j] \in Int /\ f[to[j]] = own[j]
    BY <2>2
  <2>4. \A j, k \in D : to[j] = to[k] => j = k
    OBVIOUS
  <2>5. IsFiniteSet(D)
    BY ItemsFinite
  <2>6. g[i] = Sum(own, D)
    OBVIOUS
  <2> HIDE DEF to, R, own, D
  <2>7. Sum(f, R) = Sum(own, D)
    BY <2>1, <2>3, <2>4, <2>5, SumRenamed
  <2> QED
    BY <2>6, <2>7 DEF R
<1>4. Sum([i \in DOMAIN sales |-> Sum(f, {x \in Items : class[x] = i})], DOMAIN sales) = Sum(f, Items)
  <2> HIDE DEF class
  <2> QED
    BY <1>1, <1>2, SumByClass
<1>5. \A i \in DOMAIN sales : h[i] \in Int
  <2>1. \A i \in DOMAIN sales : Of(i) \in SUBSET Items
    OBVIOUS
  <2> HIDE DEF Of
  <2>2. \A T \in SUBSET Items : Sum(f, T) \in Int
    BY <1>1, SumBasics
  <2> QED
    BY <2>1, <2>2
<1>6. \A i \in DOMAIN sales : g[i] = h[i]
  BY <1>3
<1>7. Sum(h, DOMAIN sales) = Sum(g, DOMAIN sales)
  <2> HIDE DEF h
  <2> QED
    BY <1>1, <1>5, <1>6, SumSame
<1> QED
  BY <1>4, <1>7

\* And one over the products of the sums over theirs.
LEMMA SumByProduct ==
  ASSUME SalesOK, NEW f, \A x \in Items : f[x] \in Int
  PROVE  /\ \A p \in Product : Sum(f, ItemsOf(p)) \in Int
         /\ Sum([p \in Product |-> Sum(f, ItemsOf(p))], Product) = Sum(f, Items)
<1> DEFINE class == [x \in Items |-> Item(x).product]
<1>1. IsFiniteSet(Items) /\ IsFiniteSet(Product)
  BY ItemsFinite, CatalogueAssumption
<1>2. \A x \in Items : class[x] \in Product
  <2> SUFFICES ASSUME NEW i \in DOMAIN sales, NEW j \in DOMAIN sales[i].items
               PROVE  sales[i].items[j].product \in Product
    BY DEF Items, Item
  <2>1. SaleOK(sales[i], asked[i])
    BY DEF SalesOK
  <2> QED
    BY <2>1 DEF SaleOK, ItemOK, LinesOK, LineOK
<1>3. \A p : ItemsOf(p) = {x \in Items : class[x] = p}
  BY DEF ItemsOf
<1> HIDE DEF class
<1>4. Sum([p \in Product |-> Sum(f, {x \in Items : class[x] = p})], Product) = Sum(f, Items)
  BY <1>1, <1>2, SumByClass
<1>5. [p \in Product |-> Sum(f, {x \in Items : class[x] = p})] = [p \in Product |-> Sum(f, ItemsOf(p))]
  BY <1>3
<1>6. \A p \in Product : ItemsOf(p) \in SUBSET Items
  BY DEF ItemsOf
<1>7. \A T \in SUBSET Items : Sum(f, T) \in Int
  BY <1>1, SumBasics
<1> QED
  BY <1>4, <1>5, <1>6, <1>7

\* The sum of a function that is given on some of the items.
LEMMA SumOnSome ==
  ASSUME SalesOK, NEW T \in SUBSET Items, NEW f, \A x \in Items : f[x] \in Int,
         NEW g, \A x \in T : g[x] = f[x]
  PROVE  Sum(g, T) = Sum(f, T)
<1>1. IsFiniteSet(T)
  BY ItemsFinite, FS_Subset
<1> QED
  BY <1>1, SumSame

\* The types of what the reports read.
LEMMA ItemFacts ==
  ASSUME SalesOK
  PROVE  /\ \A x \in Items : /\ x[1] \in DOMAIN sales /\ x = <<x[1], x[2]>>
                             /\ Item(x).subtotal \in Nat /\ CostOf(x) \in Nat
         /\ \A i \in DOMAIN sales :
              /\ DueOK(sales[i].due)
              /\ sales[i].due.subtotal =
                   Sum([j \in DOMAIN sales[i].items |-> sales[i].items[j].subtotal],
                       DOMAIN sales[i].items)
<1>1. ASSUME NEW i \in DOMAIN sales
      PROVE  /\ DueOK(sales[i].due) /\ DOMAIN sales[i].items = DOMAIN asked[i].lines
             /\ sales[i].due.subtotal =
                  Sum([j \in DOMAIN sales[i].items |-> sales[i].items[j].subtotal],
                      DOMAIN sales[i].items)
             /\ \A j \in DOMAIN sales[i].items :
                  sales[i].items[j].subtotal \in Nat /\ CostOf(<<i, j>>) \in Nat
  <2>1. SaleOK(sales[i], asked[i])
    BY DEF SalesOK
  <2>2. DueOK(sales[i].due) /\ DOMAIN sales[i].items = DOMAIN asked[i].lines
    BY <2>1 DEF SaleOK
  <2>3. sales[i].due.subtotal =
          Sum([j \in DOMAIN sales[i].items |-> sales[i].items[j].subtotal], DOMAIN sales[i].items)
    BY <2>1, <2>2 DEF SaleOK
  <2>4. ASSUME NEW j \in DOMAIN sales[i].items
        PROVE  sales[i].items[j].subtotal \in Nat /\ CostOf(<<i, j>>) \in Nat
    <3> DEFINE item == sales[i].items[j]
    <3>1. ItemOK(item, asked[i].lines[j]) /\ LineOK(asked[i].lines[j])
      BY <2>1, <2>2 DEF SaleOK, LinesOK
    <3>2. Item(<<i, j>>) = item
      BY DEF Item
    <3> HIDE DEF item
    <3>3. PICK a \in Nat, n \in Nat, c \in Nat :
            item.unit = a /\ item.quantity = n /\ item.cost = c /\ item.subtotal = a * n
      BY <3>1 DEF ItemOK, LineOK
    <3>4. a * n \in Nat /\ n * c \in Nat
      OBVIOUS
    <3>5. item.subtotal \in Nat /\ CostOf(<<i, j>>) \in Nat
      BY <3>2, <3>3, <3>4 DEF CostOf
    <3> QED
      BY <3>5 DEF item
  <2> QED
    BY <2>2, <2>3, <2>4
<1>2. ASSUME NEW x \in Items
      PROVE  /\ x[1] \in DOMAIN sales /\ x = <<x[1], x[2]>>
             /\ Item(x).subtotal \in Nat /\ CostOf(x) \in Nat
  <2>1. PICK i \in DOMAIN sales : \E j \in DOMAIN sales[i].items : x = <<i, j>>
    BY DEF Items
  <2>2. PICK j \in DOMAIN sales[i].items : x = <<i, j>>
    BY <2>1
  <2> QED
    BY <1>1, <2>2 DEF Item
<1> QED
  BY <1>1, <1>2

\* The products gross what the sales do.
LEMMA GrossReconciles ==
  ASSUME SalesOK
  PROVE  SumFunction([p \in Product |-> ProductRow(p).gross]) = Summary.gross
<1> DEFINE f == [x \in Items |-> Item(x).subtotal]
           g == [i \in DOMAIN sales |-> sales[i].due.subtotal]
<1>1. \A x \in Items : f[x] = Item(x).subtotal /\ f[x] \in Int
  BY ItemFacts
<1>2. \A i \in DOMAIN sales :
        g[i] = Sum([j \in DOMAIN sales[i].items |-> f[<<i, j>>]], DOMAIN sales[i].items)
  <2> SUFFICES ASSUME NEW i \in DOMAIN sales
               PROVE  g[i] = Sum([j \in DOMAIN sales[i].items |-> f[<<i, j>>]], DOMAIN sales[i].items)
    OBVIOUS
  <2>1. \A j \in DOMAIN sales[i].items : f[<<i, j>>] = sales[i].items[j].subtotal
    BY DEF Items, Item
  <2>2. [j \in DOMAIN sales[i].items |-> f[<<i, j>>]]
          = [j \in DOMAIN sales[i].items |-> sales[i].items[j].subtotal]
    BY <2>1
  <2> QED
    BY <2>2, ItemFacts
<1>3. \A p : ProductRow(p).gross = Sum([x \in ItemsOf(p) |-> Item(x).subtotal], ItemsOf(p))
  BY DEF ProductRow, SumFunction, Sum
<1>4. Summary.gross = Sum(g, DOMAIN sales)
  BY DEF Summary, SumFunction, Sum
<1> HIDE DEF f, g
<1>5. \A p \in Product : ProductRow(p).gross = Sum(f, ItemsOf(p))
  <2> SUFFICES ASSUME NEW p \in Product
               PROVE  Sum([x \in ItemsOf(p) |-> Item(x).subtotal], ItemsOf(p)) = Sum(f, ItemsOf(p))
    BY <1>3
  <2> DEFINE h == [x \in ItemsOf(p) |-> Item(x).subtotal]
  <2>1. ItemsOf(p) \in SUBSET Items
    BY DEF ItemsOf
  <2>2. \A x \in ItemsOf(p) : h[x] = f[x]
    BY <1>1, <2>1
  <2> HIDE DEF h
  <2>3. Sum(h, ItemsOf(p)) = Sum(f, ItemsOf(p))
    BY <1>1, <2>1, <2>2, SumOnSome
  <2> QED
    BY <2>3 DEF h
<1>6. SumFunction([p \in Product |-> ProductRow(p).gross])
        = Sum([p \in Product |-> Sum(f, ItemsOf(p))], Product)
  BY <1>5 DEF SumFunction, Sum
<1> QED
  BY <1>1, <1>2, <1>4, <1>6, SumByProduct, SumBySale

\* And cost what they do.
LEMMA CostsReconcile ==
  ASSUME SalesOK
  PROVE  /\ \A p \in Product : ProductCost(p) \in Int
         /\ Summary.cogs \in Int
         /\ Sum([p \in Product |-> ProductCost(p)], Product) = Summary.cogs
<1> DEFINE f == [x \in Items |-> CostOf(x)]
<1>1. \A x \in Items : f[x] = CostOf(x) /\ f[x] \in Int
  BY ItemFacts
<1>2. \A p : ProductCost(p) = Sum([x \in ItemsOf(p) |-> CostOf(x)], ItemsOf(p))
  BY DEF ProductCost, SumFunction, Sum
<1>3. Summary.cogs = Sum(f, Items)
  BY DEF Summary, SumFunction, Sum
<1> HIDE DEF f
<1>4. \A p \in Product : ProductCost(p) = Sum(f, ItemsOf(p))
  <2> SUFFICES ASSUME NEW p \in Product
               PROVE  Sum([x \in ItemsOf(p) |-> CostOf(x)], ItemsOf(p)) = Sum(f, ItemsOf(p))
    BY <1>2
  <2> DEFINE h == [x \in ItemsOf(p) |-> CostOf(x)]
  <2>1. ItemsOf(p) \in SUBSET Items
    BY DEF ItemsOf
  <2>2. \A x \in ItemsOf(p) : h[x] = f[x]
    BY <1>1, <2>1
  <2> HIDE DEF h
  <2>3. Sum(h, ItemsOf(p)) = Sum(f, ItemsOf(p))
    BY <1>1, <2>1, <2>2, SumOnSome
  <2> QED
    BY <2>3 DEF h
<1>5. [p \in Product |-> ProductCost(p)] = [p \in Product |-> Sum(f, ItemsOf(p))]
  BY <1>4
<1>6. Sum(f, Items) \in Int
  BY <1>1, ItemsFinite, SumBasics
<1> QED
  BY <1>1, <1>3, <1>4, <1>5, <1>6, SumByProduct

\* Net and tax make the total.
LEMMA TaxReconciles ==
  ASSUME SalesOK
  PROVE  Summary.net + Summary.tax = Summary.total
<1> DEFINE D == DOMAIN sales
           f == [i \in D |-> sales[i].due.subtotal - sales[i].due.discount]
           g == [i \in D |-> sales[i].due.tax]
           t == [i \in D |-> sales[i].due.total]
<1>1. \A i \in D : f[i] \in Int /\ g[i] \in Int /\ t[i] = f[i] + g[i]
  <2> SUFFICES ASSUME NEW i \in D PROVE f[i] \in Int /\ g[i] \in Int /\ t[i] = f[i] + g[i]
    OBVIOUS
  <2>1. DueOK(sales[i].due)
    BY ItemFacts
  <2> QED
    BY <2>1, MaxSafeOK DEF DueOK, Due
<1>2. Summary.net = Sum(f, D) /\ Summary.tax = Sum(g, D) /\ Summary.total = Sum(t, D)
  BY DEF Summary, SumFunction, Sum
<1>3. t = [i \in D |-> f[i] + g[i]]
  BY <1>1
<1>4. IsFiniteSet(D)
  BY ItemsFinite
<1> HIDE DEF D, f, g, t
<1>5. Sum(t, D) = Sum(f, D) + Sum(g, D)
  BY <1>1, <1>3, <1>4, SumPlus
<1> QED
  BY <1>2, <1>5

\* A factor divides its product.
LEMMA DivideExactly ==
  ASSUME NEW s \in Nat \ {0}, NEW k \in Nat
  PROVE  (s * k) \div s = k
  OBVIOUS

\* Rounding half up moves a quotient by half a unit at most.
LEMMA RoundedHalf ==
  ASSUME NEW x \in Int, NEW s \in Nat \ {0}
  PROVE  LET n == (2 * x + s) \div (2 * s)
         IN  n \in Int /\ -s <= 2 * (n * s) - 2 * x /\ 2 * (n * s) - 2 * x <= s
<1> DEFINE d == 2 * s
           a == 2 * x + s
           n == a \div d
<1>1. a \in Int /\ d \in Nat \ {0}
  OBVIOUS
<1> HIDE DEF a, d
<1>2. d * n <= a /\ a < d * n + d /\ n \in Int
  BY <1>1
<1> HIDE DEF n
<1>3. d * n = 2 * (n * s) /\ n * s \in Int
  BY <1>2 DEF d
<1> QED
  BY <1>2, <1>3 DEF a, d, n

\* Quotients that add up to m before they are rounded add up to m after it,
\* but for half a unit for each.
LEMMA RoundingsAddUp ==
  ASSUME NEW C, IsFiniteSet(C), NEW s \in Nat \ {0}, NEW X, NEW P, NEW m \in Int,
         \A p \in C : X[p] \in Int /\ P[p] = (2 * X[p] + s) \div (2 * s),
         Sum(X, C) = m * s
  PROVE  /\ \A p \in C : P[p] \in Int
         /\ 2 * (Sum(P, C) - m) \in -Cardinality(C)..Cardinality(C)
<1> DEFINE n == Sum(P, C)
           c == Cardinality(C)
           e == [p \in C |-> (P[p] * (2 * s)) + (X[p] * (-2))]
<1>1. \A p \in C : /\ P[p] \in Int
                   /\ -s <= 2 * (P[p] * s) - 2 * X[p] /\ 2 * (P[p] * s) - 2 * X[p] <= s
  <2> SUFFICES ASSUME NEW p \in C
               PROVE  /\ P[p] \in Int
                      /\ -s <= 2 * (P[p] * s) - 2 * X[p] /\ 2 * (P[p] * s) - 2 * X[p] <= s
    OBVIOUS
  <2>1. PICK x \in Int : X[p] = x
    OBVIOUS
  <2>2. P[p] = (2 * x + s) \div (2 * s)
    BY <2>1
  <2> QED
    BY <2>1, <2>2, RoundedHalf
<1>2. \A p \in C : e[p] \in Int /\ -s <= e[p] /\ e[p] <= s
  <2> SUFFICES ASSUME NEW p \in C PROVE e[p] \in Int /\ -s <= e[p] /\ e[p] <= s
    OBVIOUS
  <2>1. PICK k \in Int, x \in Int : P[p] = k /\ X[p] = x
    BY <1>1
  <2>2. k * (2 * s) = 2 * (k * s) /\ k * s \in Int
    OBVIOUS
  <2>3. e[p] = k * (2 * s) + x * (-2)
    BY <2>1
  <2>4. e[p] = 2 * (k * s) - 2 * x /\ e[p] \in Int
    BY <2>2, <2>3
  <2> QED
    BY <1>1, <2>1, <2>4
<1>3. Sum(e, C) = n * (2 * s) + (m * s) * (-2) /\ n \in Int
  <2> DEFINE u == [p \in C |-> P[p] * (2 * s)]
             v == [p \in C |-> X[p] * (-2)]
  <2>1. 2 * s \in Int /\ -2 \in Int
    OBVIOUS
  <2>2. Sum(u, C) = n * (2 * s)
    BY <1>1, <2>1, SumScaled
  <2>3. Sum(v, C) = (m * s) * (-2)
    BY <2>1, SumScaled
  <2>4. \A p \in C : u[p] \in Int /\ v[p] \in Int /\ e[p] = u[p] + v[p]
    <3> SUFFICES ASSUME NEW p \in C PROVE P[p] * (2 * s) \in Int /\ X[p] * (-2) \in Int
      OBVIOUS
    <3> QED
      BY <1>1, <2>1
  <2>5. e = [p \in C |-> u[p] + v[p]]
    OBVIOUS
  <2>6. n \in Int
    BY <1>1, SumBasics
  <2> HIDE DEF u, v, e, n
  <2>7. Sum(e, C) = Sum(u, C) + Sum(v, C)
    BY <2>4, <2>5, SumPlus
  <2> QED
    BY <2>2, <2>3, <2>6, <2>7
<1>4. -(c * s) <= Sum(e, C) /\ Sum(e, C) <= c * s
  <2> DEFINE up == [p \in C |-> s]
             down == [p \in C |-> -s]
  <2>1. s \in Int /\ -s \in Int
    OBVIOUS
  <2>2. Sum(up, C) = c * s
    BY <2>1, SumConstant
  <2>3. Sum(down, C) = c * (-s)
    BY <2>1, SumConstant
  <2>4. \A p \in C : /\ e[p] \in Int /\ up[p] \in Int /\ down[p] \in Int
                     /\ down[p] <= e[p] /\ e[p] <= up[p]
    BY <1>2, <2>1
  <2> HIDE DEF up, down, e
  <2>5. Sum(e, C) <= Sum(up, C)
    BY <2>4, SumMonotone
  <2>6. Sum(down, C) <= Sum(e, C)
    BY <2>4, SumMonotone
  <2>7. c * (-s) = -(c * s)
    BY <2>1, FS_CardinalityType
  <2> QED
    BY <2>2, <2>3, <2>5, <2>6, <2>7
<1>5. c \in Nat
  BY FS_CardinalityType
<1> HIDE DEF e, n, c
<1>6. n * (2 * s) + (m * s) * (-2) = (2 * (n - m)) * s
  BY <1>3
<1>7. (-c) * s <= (2 * (n - m)) * s /\ (2 * (n - m)) * s <= c * s
  BY <1>3, <1>4, <1>5, <1>6
<1>8. \A a, b \in Int : a * s <= b * s => a <= b
  OBVIOUS
<1>9. -c <= 2 * (n - m) /\ 2 * (n - m) <= c
  BY <1>3, <1>5, <1>7, <1>8
<1> QED
  BY <1>1, <1>3, <1>5, <1>9 DEF n, c

\* Every subtotal divides the common scale.
LEMMA ScaleDivided ==
  ASSUME SalesOK
  PROVE  /\ Scale \in Nat \ {0}
         /\ \A i \in DOMAIN sales :
              /\ sales[i].due.subtotal \in Nat \ {0}
              /\ sales[i].due.subtotal - sales[i].due.discount \in Nat
              /\ Scale \div sales[i].due.subtotal \in Nat
              /\ Scale = sales[i].due.subtotal * (Scale \div sales[i].due.subtotal)
<1> DEFINE D == DOMAIN sales
           sub == [i \in D |-> sales[i].due.subtotal]
<1>1. \A i \in D : /\ sales[i].due.subtotal \in Nat \ {0}
                   /\ sales[i].due.subtotal - sales[i].due.discount \in Nat
  <2> SUFFICES ASSUME NEW i \in D
               PROVE  /\ sales[i].due.subtotal \in Nat \ {0}
                      /\ sales[i].due.subtotal - sales[i].due.discount \in Nat
    OBVIOUS
  <2>1. DueOK(sales[i].due)
    BY ItemFacts
  <2> QED
    BY <2>1, MaxSafeOK DEF DueOK, Due
<1>2. Scale = ProductOnSet(sub, D)
  BY DEF Scale, FoldFunction, ProductOnSet
<1>3. Scale \in Nat \ {0} /\ \A i \in D : \E k \in Nat : Scale = sub[i] * k
  <2>1. (\A i \in D : sub[i] \in Nat \ {0}) /\ IsFiniteSet(D)
    BY <1>1, ItemsFinite
  <2> HIDE DEF D, sub
  <2> QED
    BY <1>2, <2>1, ProductFactors
<1>4. ASSUME NEW i \in D
      PROVE  /\ Scale \div sales[i].due.subtotal \in Nat
             /\ Scale = sales[i].due.subtotal * (Scale \div sales[i].due.subtotal)
  <2>1. PICK s \in Nat \ {0} : sales[i].due.subtotal = s
    BY <1>1
  <2>2. PICK k \in Nat : Scale = s * k
    BY <1>3, <2>1
  <2>3. (s * k) \div s = k
    BY DivideExactly
  <2> QED
    BY <2>1, <2>2, <2>3
<1> QED
  BY <1>1, <1>3, <1>4

\* The shares of the items of all sales are what the sales net.
LEMMA SharesAddUp ==
  ASSUME SalesOK
  PROVE  /\ \A x \in Items : NetShare(x) \in Int
         /\ Summary.net \in Int
         /\ Sum([x \in Items |-> NetShare(x)], Items) = Summary.net * Scale
<1> DEFINE D == DOMAIN sales
           S == Scale
           sub(i) == sales[i].due.subtotal
           net == [i \in D |-> sub(i) - sales[i].due.discount]
           w == [i \in D |-> net[i] * (S \div sub(i))]
           f == [x \in Items |-> NetShare(x)]
           g == [i \in D |-> net[i] * S]
<1>1. /\ S \in Nat \ {0}
      /\ \A i \in D : sub(i) \in Nat \ {0} /\ net[i] \in Nat /\ S \div sub(i) \in Nat
                      /\ S = sub(i) * (S \div sub(i))
  BY ScaleDivided
<1>2. \A i \in D : w[i] \in Nat /\ sub(i) * w[i] = net[i] * S
  <2> SUFFICES ASSUME NEW i \in D PROVE w[i] \in Nat /\ sub(i) * w[i] = net[i] * S
    OBVIOUS
  <2>1. PICK s \in Nat \ {0}, n \in Nat, k \in Nat :
          sub(i) = s /\ net[i] = n /\ S \div sub(i) = k /\ S = s * k
    BY <1>1
  <2>2. n * k \in Nat /\ s * (n * k) = n * (s * k)
    OBVIOUS
  <2> QED
    BY <2>1, <2>2
<1>3. \A x \in Items : f[x] = Item(x).subtotal * w[x[1]] /\ f[x] \in Int
  <2> SUFFICES ASSUME NEW x \in Items
               PROVE  NetShare(x) = Item(x).subtotal * w[x[1]] /\ NetShare(x) \in Int
    OBVIOUS
  <2>1. x[1] \in D /\ Item(x).subtotal \in Nat
    BY ItemFacts
  <2>2. PICK a \in Nat, n \in Nat, k \in Nat :
          Item(x).subtotal = a /\ net[x[1]] = n /\ S \div sub(x[1]) = k
    BY <1>1, <2>1
  <2>3. NetShare(x) = a * n * k
    BY <2>1, <2>2 DEF NetShare
  <2>4. w[x[1]] = n * k
    BY <2>1, <2>2
  <2>5. a * n * k = a * (n * k) /\ a * n * k \in Int
    OBVIOUS
  <2> QED
    BY <2>2, <2>3, <2>4, <2>5
<1>4. ASSUME NEW i \in D
      PROVE  g[i] = Sum([j \in DOMAIN sales[i].items |-> f[<<i, j>>]], DOMAIN sales[i].items)
  <2> DEFINE J == DOMAIN sales[i].items
             own == [j \in J |-> sales[i].items[j].subtotal]
             k == w[i]
  <2>1. \A j \in J : <<i, j>> \in Items /\ Item(<<i, j>>) = sales[i].items[j]
    BY DEF Items, Item
  <2>2. \A j \in J : f[<<i, j>>] = own[j] * k /\ own[j] \in Int
    <3> SUFFICES ASSUME NEW j \in J
                 PROVE  f[<<i, j>>] = own[j] * k /\ own[j] \in Int
      OBVIOUS
    <3>1. <<i, j>> \in Items /\ Item(<<i, j>>).subtotal = own[j] /\ <<i, j>>[1] = i
      BY <2>1
    <3>2. own[j] \in Int
      BY <3>1, ItemFacts
    <3> HIDE DEF f, w, own
    <3>3. f[<<i, j>>] = own[j] * w[i]
      BY <1>3, <3>1
    <3> QED
      BY <3>2, <3>3
  <2>3. [j \in J |-> f[<<i, j>>]] = [j \in J |-> own[j] * k]
    BY <2>2
  <2>4. IsFiniteSet(J)
    BY ItemsFinite
  <2>5. k \in Int /\ sub(i) * k = net[i] * S
    BY <1>2
  <2>6. sub(i) = Sum(own, J)
    BY ItemFacts
  <2> HIDE DEF own, J, k
  <2>7. Sum([j \in J |-> own[j] * k], J) = Sum(own, J) * k
    BY <2>2, <2>4, <2>5, SumScaled
  <2> QED
    BY <2>3, <2>5, <2>6, <2>7 DEF J
<1>5. Summary.net = Sum(net, D)
  BY DEF Summary, SumFunction, Sum
<1>6. (\A i \in D : net[i] \in Int) /\ (\A x \in Items : f[x] \in Int) /\ S \in Int /\ IsFiniteSet(D)
  <2>1. (\A i \in D : net[i] \in Int) /\ S \in Int
    BY <1>1
  <2>2. \A x \in Items : f[x] \in Int
    BY <1>3
  <2> QED
    BY <2>1, <2>2, ItemsFinite
<1>7. \A x \in Items : f[x] = NetShare(x)
  OBVIOUS
<1> HIDE DEF f, g, w, net, D, S
<1>8. Sum(f, Items) = Sum(g, D)
  BY <1>4, <1>6, SumBySale DEF D
<1>9. Sum(g, D) = Sum(net, D) * S /\ Sum(net, D) \in Int
  BY <1>6, SumScaled, SumBasics DEF g
<1> QED
  BY <1>5, <1>6, <1>7, <1>8, <1>9 DEF f, S

\* The products net what the sales do, but for half a unit each.
LEMMA NetReconciles ==
  ASSUME SalesOK
  PROVE  /\ \A p \in Product : ProductNet(p) \in Int
         /\ Summary.net \in Int
         /\ 2 * (Sum([p \in Product |-> ProductNet(p)], Product) - Summary.net)
              \in -Cardinality(Product)..Cardinality(Product)
<1> DEFINE f == [x \in Items |-> NetShare(x)]
           P == [p \in Product |-> ProductNet(p)]
           X == [p \in Product |-> Sum(f, ItemsOf(p))]
<1>1. \A x \in Items : f[x] = NetShare(x) /\ f[x] \in Int
  BY SharesAddUp
<1>2. Summary.net \in Int /\ Sum(f, Items) = Summary.net * Scale
  BY SharesAddUp
<1>3. \A p : ProductNet(p)
               = (2 * Sum([x \in ItemsOf(p) |-> NetShare(x)], ItemsOf(p)) + Scale) \div (2 * Scale)
  BY DEF ProductNet, SumFunction, Sum
<1> HIDE DEF f
<1>4. \A p \in Product : Sum([x \in ItemsOf(p) |-> NetShare(x)], ItemsOf(p)) = Sum(f, ItemsOf(p))
  <2> SUFFICES ASSUME NEW p \in Product
               PROVE  Sum([x \in ItemsOf(p) |-> NetShare(x)], ItemsOf(p)) = Sum(f, ItemsOf(p))
    OBVIOUS
  <2> DEFINE h == [x \in ItemsOf(p) |-> NetShare(x)]
  <2>1. ItemsOf(p) \in SUBSET Items
    BY DEF ItemsOf
  <2>2. \A x \in ItemsOf(p) : h[x] = f[x]
    BY <1>1, <2>1
  <2> HIDE DEF h
  <2>3. Sum(h, ItemsOf(p)) = Sum(f, ItemsOf(p))
    BY <1>1, <2>1, <2>2, SumOnSome
  <2> QED
    BY <2>3 DEF h
<1>5. \A p \in Product : X[p] \in Int /\ P[p] = (2 * X[p] + Scale) \div (2 * Scale)
  BY <1>1, <1>3, <1>4, SumByProduct
<1>6. Sum(X, Product) = Summary.net * Scale
  BY <1>1, <1>2, SumByProduct
<1>7. IsFiniteSet(Product) /\ Scale \in Nat \ {0}
  BY CatalogueAssumption, ScaleDivided
<1>8. \A p \in Product : P[p] = ProductNet(p)
  OBVIOUS
<1> HIDE DEF P, X
<1>9. /\ \A p \in Product : P[p] \in Int
      /\ 2 * (Sum(P, Product) - Summary.net) \in -Cardinality(Product)..Cardinality(Product)
  BY <1>2, <1>5, <1>6, <1>7, RoundingsAddUp
<1> QED
  BY <1>2, <1>8, <1>9 DEF P

\* The profits follow, as the costs are exact.
LEMMA ReportsNow == IInv => ReportsReconcile
<1> SUFFICES ASSUME SalesOK PROVE ReportsReconcile
  BY DEF IInv
<1> DEFINE P == [p \in Product |-> ProductNet(p)]
           C == [p \in Product |-> ProductCost(p)]
           minus == [p \in Product |-> C[p] * (-1)]
           profit == [p \in Product |-> ProductRow(p).profit]
<1>1. IsFiniteSet(Product) /\ Cardinality(Product) \in Nat
  BY CatalogueAssumption, FS_CardinalityType
<1>2. /\ \A p \in Product : P[p] \in Int
      /\ Summary.net \in Int
      /\ 2 * (Sum(P, Product) - Summary.net) \in -Cardinality(Product)..Cardinality(Product)
  BY NetReconciles
<1>3. (\A p \in Product : C[p] \in Int) /\ Summary.cogs \in Int /\ Sum(C, Product) = Summary.cogs
  BY CostsReconcile
<1>4. \A p \in Product : minus[p] = -C[p] /\ minus[p] \in Int
  <2> SUFFICES ASSUME NEW p \in Product PROVE C[p] * (-1) = -C[p] /\ -C[p] \in Int
    OBVIOUS
  <2>1. C[p] \in Int
    BY <1>3
  <2> HIDE DEF C
  <2> QED
    BY <2>1
<1>5. profit = [p \in Product |-> P[p] + minus[p]]
  <2> SUFFICES ASSUME NEW p \in Product PROVE ProductRow(p).profit = P[p] + minus[p]
    OBVIOUS
  <2>1. ProductRow(p).profit = P[p] - C[p] /\ minus[p] = -C[p] /\ P[p] \in Int /\ C[p] \in Int
    BY <1>2, <1>3, <1>4 DEF ProductRow
  <2> HIDE DEF P, C, minus
  <2> QED
    BY <2>1
<1>6. SumFunction([p \in Product |-> ProductRow(p).cogs]) = Summary.cogs
  BY <1>3 DEF ProductRow, SumFunction, Sum
<1>7. SumFunction([p \in Product |-> ProductRow(p).profit]) = Sum(profit, Product)
  BY DEF SumFunction, Sum
<1> HIDE DEF P, C, minus, profit
<1>8. Sum(profit, Product) = Sum(P, Product) + Sum(minus, Product)
  BY <1>1, <1>2, <1>4, <1>5, SumPlus
<1>9. Sum(minus, Product) = -Summary.cogs
  <2>1. Sum([p \in Product |-> C[p] * (-1)], Product) = Sum(C, Product) * (-1)
    <3>1. -1 \in Int
      OBVIOUS
    <3> QED
      BY <1>1, <1>3, <3>1, SumScaled
  <2> QED
    BY <1>3, <2>1 DEF minus
<1>10. Sum(P, Product) \in Int
  BY <1>1, <1>2, SumBasics
<1>11. 2 * Distance(Sum(profit, Product), Summary.net - Summary.cogs) <= Cardinality(Product)
  BY <1>1, <1>2, <1>3, <1>8, <1>9, <1>10 DEF Distance
<1> QED
  BY <1>6, <1>7, <1>11, GrossReconciles, TaxReconciles DEF ReportsReconcile

-----------------------------------------------------------------------------
\* Whatever is sold, held, edited or repriced, no amount that is stored leaves
\* the safe integers, though only the totals of a sale are checked (money of
\* TransactionsService, HeldOrdersService and ReceiptsService).
THEOREM AmountsStayInRange == Spec => []StoredInRange
  BY InvariantHolds, InRangeNow, PTL

\* resolveItems of a held order and the loop of checkout accept the same carts,
\* for every catalogue that the edits can make.
THEOREM RulesAreTheSame == Spec => []SameRules
  BY InvariantHolds, SameRulesNow, PTL

\* A conversion charges the estimate of an order that nothing was edited under.
THEOREM EstimateIsHonoured == Spec => []EstimateHonoured
  BY InvariantHolds, EstimateNow, PTL

\* The lines of a receipt add up to its subtotal, this to its total, and the
\* total with the change to the tender (ReceiptsService).
THEOREM ReceiptsAddUp == Spec => []ReceiptAddsUp
  BY InvariantHolds, AddsUpNow, PTL

\* No edit of the catalogue and no other sale changes a receipt that exists.
THEOREM ReceiptsAreFrozen == Spec => ReceiptFrozen
<1>1. IInv /\ [Next]_vars =>
        \A i \in DOMAIN sales :
          /\ WithoutNames(Receipt(i)) = WithoutNames(Receipt(i))'
          /\ sales[i].items[1].name # Nothing => Receipt(i) = Receipt(i)'
  BY FrozenStep
<1> QED
  BY <1>1, InvariantHolds, PTL DEF Spec, ReceiptFrozen

\* assertSameRequest recognises exactly the requests that mean the recorded one,
\* however many lines they have and in whatever order.
THEOREM ReplaysAreExact == Spec => []ReplayExactly
  BY InvariantHolds, ReplayNow, PTL

\* The sales summary and the rows of the products agree, for any number of sales,
\* items and products: the roundings of the discount add up to half a Rupiah for
\* each product at most (ReportsService).
THEOREM ReportsAgree == Spec => []ReportsReconcile
  BY InvariantHolds, ReportsNow, PTL
===============================================================================
