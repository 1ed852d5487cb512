----------------------------- MODULE FoldProofs -----------------------------
(***************************************************************************)
(* What the other proofs use of finite sets and sums.  The folds of the    *)
(* community modules are recursive functions on the subsets of a finite    *)
(* set; that such functions exist, and what they give, is shown here with  *)
(* a smallest counterexample in place of an induction.                     *)
(***************************************************************************)
EXTENDS Coins, SequenceTheorems, FiniteSetTheorems, WellFoundedInduction, TLAPS

\* The order of the numbers.
Smaller == {p \in Nat \X Nat : p[1] < p[2]}

\* A set of numbers has a least one.
LEMMA SmallestNumber ==
  ASSUME NEW S \in SUBSET Nat, S # {}
  PROVE  \E n \in S : \A m \in S : n <= m
<1>1. IsWellFoundedOn(Smaller, Nat)
  BY NatLessThanWellFounded DEF OpToRel, Smaller
<1>2. PICK n \in S : \A m \in S : <<m, n>> \notin Smaller
  BY <1>1, WFMin
<1>3. ASSUME NEW m \in S PROVE n <= m
  <2>1. m \in Nat /\ n \in Nat /\ <<m, n>> \notin Smaller
    BY <1>2
  <2> QED
    BY <2>1 DEF Smaller
<1> QED
  BY <1>3

\* A set of finite sets has one of least cardinality.
LEMMA SmallestSet ==
  ASSUME NEW SS, SS # {}, \A s \in SS : IsFiniteSet(s)
  PROVE  \E s \in SS : \A t \in SS : Cardinality(t) \in Nat /\ Cardinality(s) <= Cardinality(t)
<1> DEFINE Sizes == {Cardinality(s) : s \in SS}
<1>1. \A s \in SS : Cardinality(s) \in Nat
  BY FS_CardinalityType
<1>2. PICK n \in Sizes : \A m \in Sizes : n <= m
  <2>1. Sizes \in SUBSET Nat /\ Sizes # {}
    BY <1>1
  <2> HIDE DEF Sizes
  <2> QED
    BY <2>1, SmallestNumber
<1> QED
  BY <1>1, <1>2

-----------------------------------------------------------------------------
(* Folds. *)

\* One step of a fold: what it gives for s, from what F gives for less.
Step(F, s, C, G, e) == IF s = {} THEN e ELSE G[<<C[s], F[s \ {C[s]}]>>]

\* F is the fold of G over the subsets of D, from e, where C chooses the next element.
IsFold(F, D, C, G, e) == F = [s \in SUBSET D |-> Step(F, s, C, G, e)]

Chooses(C, D) == \A s \in SUBSET D : s # {} => C[s] \in s

\* A smaller set is left.
LEMMA OneLess ==
  ASSUME NEW D, IsFiniteSet(D), NEW s \in SUBSET D, NEW x \in s
  PROVE  /\ IsFiniteSet(s) /\ s \ {x} \in SUBSET D
         /\ Cardinality(s) \in Nat /\ Cardinality(s \ {x}) \in Nat
         /\ Cardinality(s \ {x}) = Cardinality(s) - 1
<1>1. IsFiniteSet(s)
  BY FS_Subset
<1>2. IsFiniteSet(s \ {x}) /\ Cardinality(s \ {x}) = Cardinality(s) - 1
  BY <1>1, FS_RemoveElement
<1> QED
  BY <1>1, <1>2, FS_CardinalityType

\* There is such a function: it is made of those of the smaller sets.
LEMMA FoldExists ==
  ASSUME NEW D, IsFiniteSet(D), NEW C, Chooses(C, D), NEW G, NEW e
  PROVE  \E F : IsFold(F, D, C, G, e)
<1> DEFINE Upto(n) == {s \in SUBSET D : Cardinality(s) <= n}
           Good(F, n) == \A s \in Upto(n) : F[s] = Step(F, s, C, G, e)
           Bad == {n \in Nat : ~ \E F : Good(F, n)}
           Next(F) == [s \in SUBSET D |-> Step(F, s, C, G, e)]
<1>1. \A s \in SUBSET D : IsFiniteSet(s) /\ Cardinality(s) \in Nat
  BY FS_Subset, FS_CardinalityType
<1>2. ASSUME NEW F, NEW n \in Nat, Good(F, n)
      PROVE  Good(Next(F), n + 1)
  <2> SUFFICES ASSUME NEW s \in Upto(n + 1), s # {}
               PROVE  G[<<C[s], F[s \ {C[s]}]>>] = G[<<C[s], Next(F)[s \ {C[s]}]>>]
    BY DEF Step
  <2>1. C[s] \in s
    BY DEF Chooses
  <2>2. s \ {C[s]} \in Upto(n)
    BY <1>1, <2>1, OneLess
  <2>3. F[s \ {C[s]}] = Next(F)[s \ {C[s]}]
    BY <1>2, <2>2
  <2> QED
    BY <2>3
<1>3. Good([s \in SUBSET D |-> e], 0)
  <2> SUFFICES ASSUME NEW s \in Upto(0) PROVE s = {}
    BY DEF Step
  <2> QED
    BY <1>1, FS_EmptySet
<1>4. Bad = {}
  <2> SUFFICES ASSUME Bad # {} PROVE FALSE
    OBVIOUS
  <2>1. PICK n \in Bad : \A m \in Bad : n <= m
    <3>1. Bad \in SUBSET Nat
      OBVIOUS
    <3> HIDE DEF Bad
    <3> QED
      BY <3>1, SmallestNumber
  <2>2. n \in Nat /\ ~ \E F : Good(F, n)
    OBVIOUS
  <2>3. n # 0
    <3> HIDE DEF Good
    <3> QED
      BY <1>3, <2>2
  <2>4. n - 1 \in Nat /\ n - 1 \notin Bad
    <3> HIDE DEF Bad
    <3> QED
      BY <2>1, <2>2, <2>3
  <2>5. PICK F : Good(F, n - 1)
    BY <2>4
  <2>6. Good(Next(F), n)
    <3> HIDE DEF Good, Next
    <3>1. Good(Next(F), (n - 1) + 1) /\ (n - 1) + 1 = n
      BY <1>2, <2>2, <2>4, <2>5
    <3> QED
      BY <3>1
  <2> QED
    BY <2>2, <2>6
<1>5. PICK F : Good(F, Cardinality(D))
  <2>1. Cardinality(D) \in Nat
    BY FS_CardinalityType
  <2> QED
    BY <1>4, <2>1
<1>6. \A s \in SUBSET D : F[s] = Next(F)[s]
  BY <1>5, FS_Subset
<1>7. \A s \in SUBSET D : Next(F)[s] = Step(Next(F), s, C, G, e)
  <2> SUFFICES ASSUME NEW s \in SUBSET D, s # {}
               PROVE  G[<<C[s], F[s \ {C[s]}]>>] = G[<<C[s], Next(F)[s \ {C[s]}]>>]
    BY DEF Step
  <2>1. s \ {C[s]} \in SUBSET D
    OBVIOUS
  <2> HIDE DEF Next
  <2> QED
    BY <1>6, <2>1
<1>8. IsFold(Next(F), D, C, G, e)
  BY <1>7 DEF IsFold
<1> QED
  BY <1>8

\* A fold is what one step gives from it.
LEMMA FoldStep ==
  ASSUME NEW D, NEW C, NEW G, NEW e, NEW F, IsFold(F, D, C, G, e), NEW s \in SUBSET D
  PROVE  F[s] = Step(F, s, C, G, e)
BY DEF IsFold

\* There is one fold only.
LEMMA FoldUnique ==
  ASSUME NEW D, IsFiniteSet(D), NEW C, Chooses(C, D), NEW G, NEW e,
         NEW F, IsFold(F, D, C, G, e), NEW H, IsFold(H, D, C, G, e)
  PROVE  F = H
<1> DEFINE Bad == {s \in SUBSET D : F[s] # H[s]}
<1>1. Bad = {}
  <2> SUFFICES ASSUME Bad # {} PROVE FALSE
    OBVIOUS
  <2>1. \A s \in Bad : IsFiniteSet(s)
    BY FS_Subset
  <2>2. PICK s \in Bad : \A t \in Bad : Cardinality(t) \in Nat /\ Cardinality(s) <= Cardinality(t)
    <3> HIDE DEF Bad
    <3> QED
      BY <2>1, SmallestSet
  <2>3. s # {}
    <3>1. F[s] = Step(F, s, C, G, e) /\ H[s] = Step(H, s, C, G, e) /\ F[s] # H[s]
      BY FoldStep
    <3> QED
      BY <3>1 DEF Step
  <2>4. C[s] \in s
    BY <2>3 DEF Chooses
  <2>5. s \ {C[s]} \notin Bad /\ s \ {C[s]} \in SUBSET D
    <3>1. Cardinality(s \ {C[s]}) < Cardinality(s) /\ s \ {C[s]} \in SUBSET D
      BY <2>4, OneLess
    <3> HIDE DEF Bad
    <3> QED
      BY <2>2, <3>1
  <2>6. F[s \ {C[s]}] = H[s \ {C[s]}]
    BY <2>5
  <2>7. Step(F, s, C, G, e) = Step(H, s, C, G, e)
    BY <2>6 DEF Step
  <2> QED
    BY <2>7, FoldStep
<1>2. \A s \in SUBSET D : F[s] = H[s]
  BY <1>1
<1>3. /\ F = [s \in SUBSET D |-> F[s]]
      /\ H = [s \in SUBSET D |-> H[s]]
  BY DEF IsFold
<1> QED
  BY <1>2, <1>3

\* What holds of the value at {}, and at a set whenever it holds at the set without
\* the element chosen, holds everywhere.
LEMMA SubsetInduction ==
  ASSUME NEW D, IsFiniteSet(D), NEW C, Chooses(C, D), NEW F, NEW R, F[{}] \in R,
         \A s \in SUBSET D : s # {} /\ F[s \ {C[s]}] \in R => F[s] \in R
  PROVE  \A s \in SUBSET D : F[s] \in R
<1> DEFINE Bad == {s \in SUBSET D : F[s] \notin R}
<1> SUFFICES ASSUME Bad # {} PROVE FALSE
  OBVIOUS
<1>1. \A s \in Bad : IsFiniteSet(s)
  BY FS_Subset
<1>2. PICK s \in Bad : \A t \in Bad : Cardinality(t) \in Nat /\ Cardinality(s) <= Cardinality(t)
  <2> HIDE DEF Bad
  <2> QED
    BY <1>1, SmallestSet
<1>3. s \in SUBSET D /\ F[s] \notin R /\ s # {}
  OBVIOUS
<1>4. C[s] \in s
  BY <1>3 DEF Chooses
<1>5. s \ {C[s]} \notin Bad /\ s \ {C[s]} \in SUBSET D
  <2>1. Cardinality(s \ {C[s]}) < Cardinality(s) /\ s \ {C[s]} \in SUBSET D
    BY <1>3, <1>4, OneLess
  <2> HIDE DEF Bad
  <2> QED
    BY <1>2, <2>1
<1>6. F[s \ {C[s]}] \in R
  BY <1>5
<1> QED
  BY <1>3, <1>6

\* A fold gives what its function gives.
LEMMA FoldType ==
  ASSUME NEW D, IsFiniteSet(D), NEW C, Chooses(C, D), NEW G, NEW e,
         NEW F, IsFold(F, D, C, G, e),
         NEW R, e \in R, \A x \in D, r \in R : G[<<x, r>>] \in R
  PROVE  \A s \in SUBSET D : F[s] \in R
<1>1. F[{}] \in R
  <2>1. F[{}] = Step(F, {}, C, G, e)
    BY FoldStep
  <2> QED
    BY <2>1 DEF Step
<1>2. ASSUME NEW s \in SUBSET D, s # {}, F[s \ {C[s]}] \in R PROVE F[s] \in R
  <2>1. F[s] = Step(F, s, C, G, e)
    BY FoldStep
  <2>2. C[s] \in D
    BY <1>2 DEF Chooses
  <2> QED
    BY <1>2, <2>1, <2>2 DEF Step
<1> QED
  BY <1>1, <1>2, SubsetInduction

-----------------------------------------------------------------------------
(* Sums of the values of a function. *)

AnyOf(D)   == [s \in SUBSET D |-> CHOOSE x \in s : TRUE]
Plus(w, D) == [p \in D \X Int |-> w[p[1]] + p[2]]
Sums(w)    == CHOOSE F : IsFold(F, DOMAIN w, AnyOf(DOMAIN w), Plus(w, DOMAIN w), 0)
SumAll(w)  == Sums(w)[DOMAIN w]

\* Choosing any element is a way of choosing.
LEMMA AnyOfChooses ==
  ASSUME NEW D
  PROVE  Chooses(AnyOf(D), D)
<1> SUFFICES ASSUME NEW s \in SUBSET D, s # {} PROVE AnyOf(D)[s] \in s
  BY DEF Chooses
<1> QED
  BY DEF AnyOf

\* The recursion of the sums: one of the elements is taken, and the sum of the rest.
LEMMA SumsStep ==
  ASSUME NEW D, IsFiniteSet(D), NEW w \in [D -> Int], NEW s \in SUBSET D
  PROVE  /\ Sums(w)[s] \in Int
         /\ s = {} => Sums(w)[s] = 0
         /\ s # {} => /\ AnyOf(D)[s] \in s
                      /\ Sums(w)[s] = w[AnyOf(D)[s]] + Sums(w)[s \ {AnyOf(D)[s]}]
<1> DEFINE C == AnyOf(D)
<1>1. Chooses(C, D)
  BY AnyOfChooses
<1>2. DOMAIN w = D
  OBVIOUS
<1>3. \E F : IsFold(F, D, C, Plus(w, D), 0)
  <2> HIDE DEF C
  <2> QED
    BY <1>1, FoldExists
<1>4. IsFold(Sums(w), D, C, Plus(w, D), 0)
  <2>1. \E F : IsFold(F, DOMAIN w, AnyOf(DOMAIN w), Plus(w, DOMAIN w), 0)
    BY <1>2, <1>3
  <2>2. IsFold(Sums(w), DOMAIN w, AnyOf(DOMAIN w), Plus(w, DOMAIN w), 0)
    BY <2>1, Zenon DEF Sums
  <2> QED
    BY <1>2, <2>2
<1>5. \A x \in D, r \in Int : Plus(w, D)[<<x, r>>] = w[x] + r /\ w[x] + r \in Int
  <2> SUFFICES ASSUME NEW x \in D, NEW r \in Int
               PROVE  Plus(w, D)[<<x, r>>] = w[x] + r /\ w[x] + r \in Int
    OBVIOUS
  <2>1. <<x, r>> \in D \X Int
    OBVIOUS
  <2>2. Plus(w, D)[<<x, r>>] = w[<<x, r>>[1]] + <<x, r>>[2]
    BY <2>1, Zenon DEF Plus
  <2> QED
    BY <2>2
<1>6. \A t \in SUBSET D : Sums(w)[t] \in Int
  <2> HIDE DEF C
  <2>1. \A x \in D, r \in Int : Plus(w, D)[<<x, r>>] \in Int
    BY <1>5
  <2> QED
    BY <1>1, <1>4, <2>1, FoldType
<1>7. Sums(w)[s] = Step(Sums(w), s, C, Plus(w, D), 0)
  <2> HIDE DEF C
  <2> QED
    BY <1>4, FoldStep
<1>8. CASE s = {}
  BY <1>6, <1>7, <1>8 DEF Step
<1>9. CASE s # {}
  <2>1. C[s] \in s /\ C[s] \in D /\ s \ {C[s]} \in SUBSET D
    BY <1>1, <1>9 DEF Chooses
  <2>2. Sums(w)[s] = Plus(w, D)[<<C[s], Sums(w)[s \ {C[s]}]>>]
    BY <1>7, <1>9 DEF Step
  <2> QED
    BY <1>5, <1>6, <1>9, <2>1, <2>2
<1> QED
  BY <1>8, <1>9

\* Any element may be taken first.
LEMMA SumsRemove ==
  ASSUME NEW D, IsFiniteSet(D), NEW w \in [D -> Int], NEW s \in SUBSET D, NEW x \in s
  PROVE  Sums(w)[s] = w[x] + Sums(w)[s \ {x}]
<1> DEFINE Wrong(t, y) == Sums(w)[t] # w[y] + Sums(w)[t \ {y}]
           Bad == {t \in SUBSET D : \E y \in t : Wrong(t, y)}
<1> SUFFICES ASSUME Bad # {} PROVE FALSE
  OBVIOUS
<1>1. \A t \in Bad : IsFiniteSet(t)
  BY FS_Subset
<1>2. PICK t \in Bad : \A u \in Bad : Cardinality(u) \in Nat /\ Cardinality(t) <= Cardinality(u)
  <2> HIDE DEF Bad
  <2> QED
    BY <1>1, SmallestSet
<1>3. PICK y \in t : Wrong(t, y)
  OBVIOUS
<1> DEFINE c == AnyOf(D)[t]
<1>4. c \in t /\ Wrong(t, y) /\ ~Wrong(t, c) /\ c # y
  <2>1. t \in SUBSET D /\ t # {}
    OBVIOUS
  <2>2. c \in t /\ Sums(w)[t] = w[c] + Sums(w)[t \ {c}]
    <3> HIDE DEF Bad
    <3> QED
      BY <2>1, SumsStep
  <2> QED
    BY <1>3, <2>2
<1>5. ~Wrong(t \ {c}, y) /\ ~Wrong(t \ {y}, c)
  <2>1. /\ Cardinality(t \ {c}) < Cardinality(t) /\ t \ {c} \in SUBSET D
        /\ Cardinality(t \ {y}) < Cardinality(t) /\ t \ {y} \in SUBSET D
    BY <1>4, OneLess
  <2>2. t \ {c} \notin Bad /\ t \ {y} \notin Bad
    <3> HIDE DEF Bad
    <3> QED
      BY <1>2, <2>1
  <2>3. y \in t \ {c} /\ c \in t \ {y}
    BY <1>4
  <2> HIDE DEF Wrong, c
  <2> QED
    BY <2>1, <2>2, <2>3
<1>6. (t \ {c}) \ {y} = (t \ {y}) \ {c}
  OBVIOUS
<1>7. /\ Sums(w)[t \ {c}] \in Int /\ Sums(w)[t \ {y}] \in Int
      /\ Sums(w)[(t \ {y}) \ {c}] \in Int /\ w[c] \in Int /\ w[y] \in Int
  <2> HIDE DEF Wrong
  <2>1. t \ {c} \in SUBSET D /\ t \ {y} \in SUBSET D /\ (t \ {y}) \ {c} \in SUBSET D
    OBVIOUS
  <2>2. c \in D /\ y \in D
    BY <1>4
  <2> HIDE DEF c, Bad
  <2> QED
    BY <2>1, <2>2, SumsStep
<1>8. /\ Sums(w)[t] = w[c] + Sums(w)[t \ {c}]
      /\ Sums(w)[t \ {c}] = w[y] + Sums(w)[(t \ {y}) \ {c}]
      /\ Sums(w)[t \ {y}] = w[c] + Sums(w)[(t \ {y}) \ {c}]
      /\ Sums(w)[t] # w[y] + Sums(w)[t \ {y}]
  <2> HIDE DEF c, Bad
  <2> QED
    BY <1>4, <1>5, <1>6, Zenon
<1> HIDE DEF c, Bad, Wrong
<1> QED
  BY <1>7, <1>8

\* The sum over a set depends on the values there only.
LEMMA SumsAgree ==
  ASSUME NEW D, IsFiniteSet(D), NEW w \in [D -> Int],
         NEW E, IsFiniteSet(E), NEW v \in [E -> Int],
         NEW s, s \subseteq D, s \subseteq E, \A x \in s : v[x] = w[x]
  PROVE  Sums(v)[s] = Sums(w)[s]
<1> DEFINE Bad == {t \in SUBSET s : Sums(v)[t] # Sums(w)[t]}
<1> SUFFICES ASSUME Bad # {} PROVE FALSE
  OBVIOUS
<1>1. \A t \in Bad : IsFiniteSet(t)
  BY FS_Subset
<1>2. PICK t \in Bad : \A u \in Bad : Cardinality(u) \in Nat /\ Cardinality(t) <= Cardinality(u)
  <2> HIDE DEF Bad
  <2> QED
    BY <1>1, SmallestSet
<1>3. t \in SUBSET D /\ t \in SUBSET E /\ t \subseteq s /\ Sums(v)[t] # Sums(w)[t]
  OBVIOUS
<1>4. t # {}
  <2>1. t = {} => Sums(w)[t] = 0
    BY <1>3, SumsStep
  <2>2. t = {} => Sums(v)[t] = 0
    BY <1>3, SumsStep
  <2> QED
    BY <1>3, <2>1, <2>2
<1>5. PICK x : x \in t
  BY <1>4
<1>6. Sums(v)[t] = v[x] + Sums(v)[t \ {x}]
  BY <1>3, <1>5, SumsRemove
<1>7. Sums(w)[t] = w[x] + Sums(w)[t \ {x}]
  BY <1>3, <1>5, SumsRemove
<1>8. t \ {x} \notin Bad
  <2>1. Cardinality(t \ {x}) < Cardinality(t)
    BY <1>3, <1>5, OneLess
  <2> HIDE DEF Bad
  <2> QED
    BY <1>2, <2>1
<1>9. Sums(v)[t \ {x}] = Sums(w)[t \ {x}]
  BY <1>3, <1>8
<1> QED
  BY <1>3, <1>5, <1>6, <1>7, <1>9

\* The sum of nothing is 0; a sum is that of the rest and the value left out.
LEMMA SumAllOfRest ==
  ASSUME NEW D, IsFiniteSet(D), NEW w \in [D -> Int]
  PROVE  /\ SumAll(w) \in Int
         /\ D = {} => SumAll(w) = 0
         /\ \A x \in D : SumAll(w) = w[x] + SumAll([y \in D \ {x} |-> w[y]])
<1>1. DOMAIN w = D /\ D \in SUBSET D
  OBVIOUS
<1>2. SumAll(w) = Sums(w)[D]
  BY <1>1 DEF SumAll
<1>3. SumAll(w) \in Int /\ (D = {} => SumAll(w) = 0)
  <2>1. Sums(w)[D] \in Int /\ (D = {} => Sums(w)[D] = 0)
    BY <1>1, SumsStep
  <2> QED
    BY <1>2, <2>1
<1>4. ASSUME NEW x \in D PROVE SumAll(w) = w[x] + SumAll([y \in D \ {x} |-> w[y]])
  <2> DEFINE v == [y \in D \ {x} |-> w[y]]
  <2>1. IsFiniteSet(D \ {x}) /\ v \in [D \ {x} -> Int] /\ DOMAIN v = D \ {x}
    BY FS_RemoveElement
  <2>2. \A y \in D \ {x} : v[y] = w[y]
    OBVIOUS
  <2> HIDE DEF v
  <2>3. Sums(v)[D \ {x}] = Sums(w)[D \ {x}]
    BY <2>1, <2>2, SumsAgree
  <2>4. Sums(w)[D] = w[x] + Sums(w)[D \ {x}]
    BY <1>1, SumsRemove
  <2>5. SumAll(v) = Sums(v)[D \ {x}]
    BY <2>1 DEF SumAll
  <2>6. SumAll(w) = w[x] + SumAll(v)
    BY <1>2, <2>3, <2>4, <2>5
  <2> QED
    BY <2>6 DEF v
<1> QED
  BY <1>3, <1>4

\* F satisfies the recursion of the sums.
AddsUp(F, D, w) ==
  \A s \in SUBSET D :
     F[s] = IF s = {} THEN 0 ELSE w[AnyOf(D)[s]] + F[s \ {AnyOf(D)[s]}]

\* What satisfies the recursion gives the sums.
LEMMA SumsUnique ==
  ASSUME NEW D, IsFiniteSet(D), NEW w \in [D -> Int], NEW F, AddsUp(F, D, w)
  PROVE  \A s \in SUBSET D : F[s] = Sums(w)[s]
<1> DEFINE Bad == {s \in SUBSET D : F[s] # Sums(w)[s]}
<1> SUFFICES ASSUME Bad # {} PROVE FALSE
  OBVIOUS
<1>1. \A t \in Bad : IsFiniteSet(t)
  BY FS_Subset
<1>2. PICK t \in Bad : \A u \in Bad : Cardinality(u) \in Nat /\ Cardinality(t) <= Cardinality(u)
  <2> HIDE DEF Bad
  <2> QED
    BY <1>1, SmallestSet
<1>3. t \in SUBSET D /\ F[t] # Sums(w)[t]
  OBVIOUS
<1>4. t # {}
  <2>1. t = {} => Sums(w)[t] = 0
    BY <1>3, SumsStep
  <2>2. t = {} => F[t] = 0
    BY <1>3 DEF AddsUp
  <2> QED
    BY <1>3, <2>1, <2>2
<1> DEFINE c == AnyOf(D)[t]
<1>5. c \in t /\ Sums(w)[t] = w[c] + Sums(w)[t \ {c}]
  BY <1>3, <1>4, SumsStep
<1>6. t \ {c} \notin Bad /\ t \ {c} \in SUBSET D
  <2>1. Cardinality(t \ {c}) < Cardinality(t) /\ t \ {c} \in SUBSET D
    BY <1>3, <1>5, OneLess
  <2> HIDE DEF Bad, c
  <2> QED
    BY <1>2, <2>1
<1>7. F[t \ {c}] = Sums(w)[t \ {c}]
  BY <1>6
<1>8. F[t] = w[c] + F[t \ {c}]
  BY <1>3, <1>4 DEF AddsUp
<1> QED
  BY <1>3, <1>5, <1>7, <1>8

\* A sum of natural numbers is one.
LEMMA SumsNat ==
  ASSUME NEW D, IsFiniteSet(D), NEW w \in [D -> Nat], NEW s \in SUBSET D
  PROVE  Sums(w)[s] \in Nat
<1> DEFINE Bad == {t \in SUBSET D : Sums(w)[t] \notin Nat}
<1> SUFFICES ASSUME Bad # {} PROVE FALSE
  OBVIOUS
<1>1. \A t \in Bad : IsFiniteSet(t)
  BY FS_Subset
<1>2. PICK t \in Bad : \A u \in Bad : Cardinality(u) \in Nat /\ Cardinality(t) <= Cardinality(u)
  <2> HIDE DEF Bad
  <2> QED
    BY <1>1, SmallestSet
<1>3. t \in SUBSET D /\ Sums(w)[t] \notin Nat /\ w \in [D -> Int]
  OBVIOUS
<1>4. t # {}
  <2>1. t = {} => Sums(w)[t] = 0
    BY <1>3, SumsStep
  <2> QED
    BY <1>3, <2>1
<1>5. PICK x : x \in t
  BY <1>4
<1>6. Sums(w)[t] = w[x] + Sums(w)[t \ {x}]
  BY <1>3, <1>5, SumsRemove
<1>7. t \ {x} \notin Bad
  <2>1. Cardinality(t \ {x}) < Cardinality(t)
    BY <1>3, <1>5, OneLess
  <2> HIDE DEF Bad
  <2> QED
    BY <1>2, <2>1
<1>8. Sums(w)[t \ {x}] \in Nat
  BY <1>3, <1>7
<1> QED
  BY <1>3, <1>5, <1>6, <1>8

\* The sum over two sets that share nothing.
LEMMA SumsUnion ==
  ASSUME NEW D, IsFiniteSet(D), NEW w \in [D -> Int],
         NEW A \in SUBSET D, NEW B \in SUBSET D, A \cap B = {}
  PROVE  Sums(w)[A \cup B] = Sums(w)[A] + Sums(w)[B]
<1> DEFINE Bad == {t \in SUBSET B : Sums(w)[A \cup t] # Sums(w)[A] + Sums(w)[t]}
<1> SUFFICES ASSUME Bad # {} PROVE FALSE
  OBVIOUS
<1>1. \A t \in Bad : IsFiniteSet(t)
  BY FS_Subset
<1>2. PICK t \in Bad : \A u \in Bad : Cardinality(u) \in Nat /\ Cardinality(t) <= Cardinality(u)
  <2> HIDE DEF Bad
  <2> QED
    BY <1>1, SmallestSet
<1>3. /\ t \in SUBSET D /\ t \subseteq B /\ A \cup t \in SUBSET D
      /\ Sums(w)[A \cup t] # Sums(w)[A] + Sums(w)[t]
  OBVIOUS
<1>4. t # {}
  <2>1. t = {} => Sums(w)[t] = 0 /\ A \cup t = A
    BY <1>3, SumsStep
  <2>2. Sums(w)[A] \in Int
    BY SumsStep
  <2>3. t = {} => Sums(w)[A \cup t] = Sums(w)[A] /\ Sums(w)[t] = 0
    BY <2>1, Zenon
  <2> HIDE DEF Bad
  <2> QED
    BY <1>3, <2>2, <2>3
<1>5. PICK x : x \in t
  BY <1>4
<1>6. Sums(w)[t] = w[x] + Sums(w)[t \ {x}]
  BY <1>3, <1>5, SumsRemove
<1>7. Sums(w)[A \cup t] = w[x] + Sums(w)[A \cup (t \ {x})]
  <2>1. x \in A \cup t /\ (A \cup t) \ {x} = A \cup (t \ {x})
    BY <1>3, <1>5
  <2>2. Sums(w)[A \cup t] = w[x] + Sums(w)[(A \cup t) \ {x}]
    BY <1>3, <2>1, SumsRemove
  <2> QED
    BY <2>1, <2>2
<1>8. t \ {x} \notin Bad
  <2>1. Cardinality(t \ {x}) < Cardinality(t)
    BY <1>3, <1>5, OneLess
  <2> HIDE DEF Bad
  <2> QED
    BY <1>2, <2>1
<1>9. Sums(w)[A \cup (t \ {x})] = Sums(w)[A] + Sums(w)[t \ {x}]
  BY <1>3, <1>8
<1>10. Sums(w)[A] \in Int /\ Sums(w)[t \ {x}] \in Int /\ w[x] \in Int
  <2>1. t \ {x} \in SUBSET D /\ x \in D
    BY <1>3, <1>5
  <2> HIDE DEF Bad
  <2> QED
    BY <2>1, SumsStep
<1> HIDE DEF Bad
<1> QED
  BY <1>3, <1>6, <1>7, <1>9, <1>10

\* h gives each element of E a name of its own in D, with the same number.
Renames(h, E, v, D, w) ==
    /\ h \in [E -> D] /\ v \in [E -> Int] /\ w \in [D -> Int]
    /\ \A x \in E : v[x] = w[h[x]]
    /\ \A x, y \in E : h[x] = h[y] => x = y
    /\ D = {h[x] : x \in E}

\* Another name for each element changes no sum.
LEMMA SumsRenamed ==
  ASSUME NEW D, IsFiniteSet(D), NEW E, IsFiniteSet(E), NEW v, NEW w, NEW h,
         Renames(h, E, v, D, w)
  PROVE  Sums(v)[E] = Sums(w)[D]
<1>0. /\ h \in [E -> D] /\ v \in [E -> Int] /\ w \in [D -> Int]
      /\ \A x \in E : v[x] = w[h[x]]
      /\ \A x, y \in E : h[x] = h[y] => x = y
      /\ D = {h[x] : x \in E}
  BY DEF Renames
<1> SUFFICES Sums(v)[E] = Sums(w)[{h[x] : x \in E}]
  BY <1>0
<1> DEFINE Image(s) == {h[x] : x \in s}
           Bad == {t \in SUBSET E : Sums(v)[t] # Sums(w)[Image(t)]}
<1> SUFFICES ASSUME Bad # {} PROVE FALSE
  OBVIOUS
<1>1. \A t \in Bad : IsFiniteSet(t)
  BY FS_Subset
<1>2. PICK t \in Bad : \A u \in Bad : Cardinality(u) \in Nat /\ Cardinality(t) <= Cardinality(u)
  <2> HIDE DEF Bad
  <2> QED
    BY <1>1, SmallestSet
<1>3. t \in SUBSET E /\ Image(t) \in SUBSET D /\ Sums(v)[t] # Sums(w)[Image(t)]
  BY <1>0
<1>4. t # {}
  <2>1. t = {} => Sums(v)[t] = 0
    BY <1>0, <1>3, SumsStep
  <2>2. Image(t) = {} => Sums(w)[Image(t)] = 0
    <3> HIDE DEF Image
    <3> QED
      BY <1>0, <1>3, SumsStep
  <2>3. t = {} => Image(t) = {}
    OBVIOUS
  <2> HIDE DEF Image
  <2> QED
    BY <1>3, <2>1, <2>2, <2>3
<1>5. PICK x : x \in t
  BY <1>4
<1>6. Sums(v)[t] = v[x] + Sums(v)[t \ {x}]
  BY <1>0, <1>3, <1>5, SumsRemove
<1>7. h[x] \in Image(t) /\ Image(t) \ {h[x]} = Image(t \ {x}) /\ v[x] = w[h[x]]
  BY <1>0, <1>3, <1>5
<1>8. Sums(w)[Image(t)] = w[h[x]] + Sums(w)[Image(t \ {x})]
  <2> HIDE DEF Image
  <2>0. w \in [D -> Int] /\ Image(t) \in SUBSET D
    BY <1>0, <1>3
  <2>a. PICK y \in Image(t) : y = h[x]
    BY <1>7
  <2>b. Sums(w)[Image(t)] = w[y] + Sums(w)[Image(t) \ {y}]
    BY ONLY IsFiniteSet(D), <2>0, <2>a, SumsRemove
  <2>1. Sums(w)[Image(t)] = w[h[x]] + Sums(w)[Image(t) \ {h[x]}]
    BY <2>a, <2>b
  <2> QED
    BY <1>7, <2>1
<1>9. t \ {x} \notin Bad
  <2>1. Cardinality(t \ {x}) < Cardinality(t)
    BY <1>3, <1>5, OneLess
  <2> HIDE DEF Bad
  <2> QED
    BY <1>2, <2>1
<1>10. Sums(v)[t \ {x}] = Sums(w)[Image(t \ {x})]
  BY <1>3, <1>9
<1> HIDE DEF Bad, Image
<1> QED
  BY <1>3, <1>6, <1>7, <1>8, <1>10

-----------------------------------------------------------------------------
(* The sums of Coins and of the community modules. *)

Values(coins) == [i \in DOMAIN coins |-> coins[i].value]

\* The sum of a sequence of coins.
LEMMA SumOfCoins ==
  ASSUME NEW coins, IsFiniteSet(DOMAIN coins), \A i \in DOMAIN coins : coins[i].value \in Int
  PROVE  SumOf(coins) = SumAll(Values(coins))
<1> DEFINE D == DOMAIN coins
           w == Values(coins)
           Rec(F) == [s \in SUBSET D |-> IF s = {} THEN 0
                        ELSE coins[CHOOSE x \in s : TRUE].value
                             + F[s \ {CHOOSE x \in s : TRUE}]]
           Fold == CHOOSE F : F = Rec(F)
<1>1. SumOf(coins) = Fold[D]
  BY Zenon DEF SumOf, FoldSeq, FoldFunction, FoldFunctionOnSet, MapThenFoldSet
<1>2. w \in [D -> Int] /\ DOMAIN w = D /\ \A i \in D : w[i] = coins[i].value
  BY DEF Values
<1>3. \A s \in SUBSET D : s # {} => AnyOf(D)[s] = (CHOOSE x \in s : TRUE) /\ AnyOf(D)[s] \in D
  <2> SUFFICES ASSUME NEW s \in SUBSET D, s # {}
               PROVE  AnyOf(D)[s] = (CHOOSE x \in s : TRUE) /\ AnyOf(D)[s] \in D
    OBVIOUS
  <2>1. AnyOf(D)[s] = (CHOOSE x \in s : TRUE)
    BY Zenon DEF AnyOf
  <2>2. AnyOf(D)[s] \in s
    BY AnyOfChooses DEF Chooses
  <2> QED
    BY <2>1, <2>2
<1> DEFINE G == [s \in SUBSET D |-> Sums(w)[s]]
<1>4. G = Rec(G)
  <2> SUFFICES ASSUME NEW s \in SUBSET D
               PROVE  Sums(w)[s] = IF s = {} THEN 0
                        ELSE coins[CHOOSE x \in s : TRUE].value
                             + G[s \ {CHOOSE x \in s : TRUE}]
    OBVIOUS
  <2> DEFINE c == CHOOSE x \in s : TRUE
  <2>1. s = {} => Sums(w)[s] = 0
    BY <1>2, SumsStep
  <2>2. s # {} => AnyOf(D)[s] = c /\ Sums(w)[s] = w[AnyOf(D)[s]] + Sums(w)[s \ {AnyOf(D)[s]}]
    BY <1>2, <1>3, SumsStep
  <2>3. G[s \ {c}] = Sums(w)[s \ {c}]
    OBVIOUS
  <2>4. s # {} => w[c] = coins[c].value
    BY <1>2, <1>3
  <2> HIDE DEF G, w
  <2> QED
    BY <2>1, <2>2, <2>3, <2>4, Zenon
<1>5. Fold = Rec(Fold)
  <2>1. \E F : F = Rec(F)
    BY <1>4
  <2> QED
    BY <2>1, Zenon
<1>6. AddsUp(Fold, D, w)
  <2> SUFFICES ASSUME NEW s \in SUBSET D
               PROVE  Fold[s] = IF s = {} THEN 0
                                ELSE w[AnyOf(D)[s]] + Fold[s \ {AnyOf(D)[s]}]
    BY DEF AddsUp
  <2>1. Fold[s] = IF s = {} THEN 0 ELSE coins[CHOOSE x \in s : TRUE].value
                                        + Fold[s \ {CHOOSE x \in s : TRUE}]
    <3>1. Fold[s] = Rec(Fold)[s]
      BY <1>5, Zenon
    <3> HIDE DEF Fold
    <3> QED
      BY <3>1, Zenon
  <2> HIDE DEF Fold, w
  <2> QED
    BY <1>2, <1>3, <2>1, Zenon
<1>7. Fold[D] = Sums(w)[D]
  <2>1. IsFiniteSet(D) /\ D \in SUBSET D
    OBVIOUS
  <2> HIDE DEF Fold, w, D
  <2>2. \A s \in SUBSET D : Fold[s] = Sums(w)[s]
    BY <1>2, <1>6, <2>1, SumsUnique
  <2> QED
    BY <2>1, <2>2
<1> QED
  BY <1>1, <1>2, <1>7 DEF SumAll

\* The sum of a sequence of coins is a number.
LEMMA SumOfNat ==
  ASSUME NEW S, \A c \in S : c.value \in Nat, NEW coins \in Seq(S)
  PROVE  SumOf(coins) \in Nat
<1>1. DOMAIN coins = 1 .. Len(coins) /\ IsFiniteSet(DOMAIN coins)
  BY FS_Interval
<1>2. \A i \in DOMAIN coins : coins[i].value \in Nat
  BY <1>1, ElementOfSeq
<1>3. SumOf(coins) = SumAll(Values(coins))
  BY <1>1, <1>2, SumOfCoins
<1>4. Values(coins) \in [DOMAIN coins -> Nat] /\ DOMAIN Values(coins) = DOMAIN coins
  BY <1>2 DEF Values
<1> QED
  BY <1>1, <1>3, <1>4, SumsNat DEF SumAll

-----------------------------------------------------------------------------
(* The least and the greatest number of a set, and the coins taken. *)

\* The smallest of some natural numbers is one of them and below the others.
LEMMA MinOfNumbers ==
  ASSUME NEW S \in SUBSET Nat, S # {}
  PROVE  Min(S) \in S /\ \A n \in S : Min(S) <= n
<1>1. \E n \in S : \A m \in S : n <= m
  BY SmallestNumber
<1> QED
  BY <1>1, Zenon DEF Min

\* The greatest of some natural numbers, if they have a bound, is one of them and above
\* the others.
LEMMA MaxOfNumbers ==
  ASSUME NEW S \in SUBSET Nat, S # {}, IsFiniteSet(S)
  PROVE  Max(S) \in S /\ \A n \in S : Max(S) >= n
<1> DEFINE Greatest(s) == \E m \in s : \A n \in s : m >= n
           Bad == {s \in SUBSET S : s # {} /\ ~Greatest(s)}
<1>1. Bad = {}
  <2> SUFFICES ASSUME Bad # {} PROVE FALSE
    OBVIOUS
  <2>1. \A s \in Bad : IsFiniteSet(s)
    BY FS_Subset
  <2>2. PICK s \in Bad : \A t \in Bad : Cardinality(t) \in Nat /\ Cardinality(s) <= Cardinality(t)
    <3> HIDE DEF Bad
    <3> QED
      BY <2>1, SmallestSet
  <2>3. s \in SUBSET S /\ s # {} /\ ~Greatest(s)
    OBVIOUS
  <2>4. PICK x : x \in s
    BY <2>3
  <2>5. s \ {x} \notin Bad /\ s \ {x} \in SUBSET S
    <3> HIDE DEF Bad, Greatest
    <3>1. /\ s \ {x} \in SUBSET S
          /\ Cardinality(s) \in Nat /\ Cardinality(s \ {x}) \in Nat
          /\ Cardinality(s \ {x}) = Cardinality(s) - 1
      BY <2>3, <2>4, OneLess
    <3> QED
      BY <2>2, <3>1
  <2>6. CASE s \ {x} = {}
    <3>1. s = {x}
      BY <2>4, <2>6
    <3>2. x >= x
      BY <2>3, <2>4
    <3> QED
      BY <2>3, <3>1, <3>2
  <2>7. CASE s \ {x} # {}
    <3>1. PICK m \in s \ {x} : \A n \in s \ {x} : m >= n
      BY <2>5, <2>7
    <3>2. m \in Nat /\ x \in Nat /\ \A n \in s : n \in Nat
      BY <2>3, <2>4
    <3>3. CASE m >= x
      <4>1. \A n \in s : m >= n
        BY <3>1, <3>3
      <4> QED
        BY <2>3, <4>1
    <3>4. CASE x >= m
      <4>1. \A n \in s : x >= n
        BY <3>1, <3>2, <3>4
      <4> QED
        BY <2>3, <2>4, <4>1
    <3> QED
      BY <3>2, <3>3, <3>4
  <2> QED
    BY <2>6, <2>7
<1>2. \E m \in S : \A n \in S : m >= n
  BY <1>1
<1> QED
  BY <1>2, Zenon DEF Max

\* What is taken is the first coins, as many as are there at most.
LEMMA TakePrefix ==
  ASSUME NEW S, NEW coins \in Seq(S), NEW target
  PROVE  \E n \in 0 .. Len(coins) : Take(coins, target) = SubSeq(coins, 1, n)
<1> DEFINE reach == {n \in 1 .. Len(coins) : SumOf(SubSeq(coins, 1, n)) >= target}
<1>1. CASE reach = {}
  <2>1. Take(coins, target) = coins
    BY <1>1, Zenon DEF Take
  <2>2. coins = SubSeq(coins, 1, Len(coins)) /\ Len(coins) \in 0 .. Len(coins)
    BY SubSeqFull
  <2> QED
    BY <2>1, <2>2
<1>2. CASE reach # {}
  <2>1. Take(coins, target) = SubSeq(coins, 1, Min(reach))
    BY <1>2, Zenon DEF Take
  <2>2. reach \in SUBSET Nat /\ reach \subseteq 0 .. Len(coins)
    OBVIOUS
  <2> HIDE DEF reach
  <2>3. Min(reach) \in 0 .. Len(coins)
    BY <1>2, <2>2, MinOfNumbers
  <2> QED
    BY <2>1, <2>3
<1> QED
  BY <1>1, <1>2

\* The coins taken are coins of the list.
LEMMA TakeType ==
  ASSUME NEW S, NEW coins \in Seq(S), NEW target
  PROVE  Take(coins, target) \in Seq(S)
<1>1. PICK n \in 0 .. Len(coins) : Take(coins, target) = SubSeq(coins, 1, n)
  BY TakePrefix
<1>2. \A i \in 1 .. n : coins[i] \in S
  BY ElementOfSeq
<1>3. SubSeq(coins, 1, n) \in Seq(S)
  BY <1>2, SubSeqProperties
<1> QED
  BY <1>1, <1>3

\* The greatest number of a set is one of them.
LEMMA MaxChooses ==
  ASSUME NEW n \in Nat
  PROVE  Chooses([s \in SUBSET (1 .. n) |-> Max(s)], 1 .. n)
<1> SUFFICES ASSUME NEW s \in SUBSET (1 .. n), s # {} PROVE Max(s) \in s
  BY DEF Chooses
<1>1. IsFiniteSet(1 .. n)
  BY FS_Interval
<1>2. IsFiniteSet(s)
  BY <1>1, FS_Subset
<1>3. s \in SUBSET Nat
  OBVIOUS
<1> QED
  BY <1>2, <1>3, MaxOfNumbers

\* There is a fold that stays in a set its function does not leave.
LEMMA FoldInside ==
  ASSUME NEW D, IsFiniteSet(D), NEW C, Chooses(C, D), NEW G, NEW e,
         NEW R, e \in R, \A x \in D, r \in R : G[<<x, r>>] \in R
  PROVE  \E F : IsFold(F, D, C, G, e) /\ \A s \in SUBSET D : F[s] \in R
<1>1. PICK F : IsFold(F, D, C, G, e)
  BY FoldExists
<1>2. \A s \in SUBSET D : F[s] \in R
  BY <1>1, FoldType
<1> QED
  BY <1>1, <1>2

\* Sequences of coins put one after the other.
LEMMA JoinType ==
  ASSUME NEW S, NEW seqs \in Seq(Seq(S))
  PROVE  FoldLeft(\o, <<>>, seqs) \in Seq(S)
<1> DEFINE n == Len(seqs)
           D == 1 .. n
           R == Seq(S)
           C == [s \in SUBSET D |-> Max(s)]
           G == [p \in D \X R |-> p[2] \o seqs[p[1]]]
           Rec(F) == [s \in SUBSET D |-> IF s = {} THEN <<>>
                        ELSE F[s \ {Max(s)}] \o seqs[Max(s)]]
           Fold == CHOOSE F : F = Rec(F)
<1>1. DOMAIN seqs = D /\ n \in Nat /\ IsFiniteSet(D) /\ \A i \in D : seqs[i] \in R
  BY LenProperties, ElementOfSeq, FS_Interval
<1>2. FoldLeft(\o, <<>>, seqs) = Fold[D]
  <2>1. FoldLeft(\o, <<>>, seqs) =
          (CHOOSE F : F = [s \in SUBSET (DOMAIN seqs) |-> IF s = {} THEN <<>>
                        ELSE F[s \ {Max(s)}] \o seqs[Max(s)]])[DOMAIN seqs]
    BY Zenon DEF FoldLeft, MapThenFoldSet
  <2> HIDE DEF D
  <2> QED
    BY <1>1, <2>1, Zenon
<1>3. Chooses(C, D)
  BY <1>1, MaxChooses
<1>4. \A x \in D, r \in R : G[<<x, r>>] = r \o seqs[x] /\ G[<<x, r>>] \in R
  <2> SUFFICES ASSUME NEW x \in D, NEW r \in R
               PROVE  G[<<x, r>>] = r \o seqs[x] /\ r \o seqs[x] \in R
    OBVIOUS
  <2>1. <<x, r>> \in D \X R
    OBVIOUS
  <2>2. G[<<x, r>>] = <<x, r>>[2] \o seqs[<<x, r>>[1]]
    BY <2>1, Zenon
  <2> QED
    BY <1>1, <2>2, ConcatProperties
<1>5. PICK H : IsFold(H, D, C, G, <<>>) /\ \A s \in SUBSET D : H[s] \in R
  <2>1. <<>> \in R
    OBVIOUS
  <2>2. \A x \in D, r \in R : G[<<x, r>>] \in R
    <3> HIDE DEF D, C, G, R
    <3> QED
      BY <1>4
  <2> HIDE DEF D, C, G, R
  <2> QED
    BY <1>1, <1>3, <2>1, <2>2, FoldInside
<1>6. H = Rec(H)
  <2>1. ASSUME NEW s \in SUBSET D, s # {}
        PROVE  Step(H, s, C, G, <<>>) = H[s \ {Max(s)}] \o seqs[Max(s)]
    <3>1. C[s] = Max(s) /\ C[s] \in D /\ s \ {Max(s)} \in SUBSET D
      BY <1>3, <2>1 DEF Chooses
    <3>2. G[<<C[s], H[s \ {C[s]}]>>] = H[s \ {C[s]}] \o seqs[C[s]]
      <4> HIDE DEF C, G, R
      <4> QED
        BY <1>4, <1>5, <3>1
    <3> HIDE DEF C, G
    <3> QED
      BY <2>1, <3>1, <3>2 DEF Step
  <2>2. \A s \in SUBSET D : Step(H, s, C, G, <<>>) =
          IF s = {} THEN <<>> ELSE H[s \ {Max(s)}] \o seqs[Max(s)]
    <3> HIDE DEF C, G, D
    <3> QED
      BY <2>1 DEF Step
  <2> HIDE DEF C, G, D
  <2> QED
    BY <1>5, <2>2 DEF IsFold
<1>7. Fold = Rec(Fold)
  <2>1. \E F : F = Rec(F)
    BY <1>6
  <2> QED
    BY <2>1, Zenon
<1> HIDE DEF Fold
<1>8. \A s \in SUBSET D : Fold[s] \in R
  <2>1. Fold[{}] \in R
    <3>1. Fold[{}] = Rec(Fold)[{}]
      BY <1>7, Zenon
    <3> QED
      BY <3>1
  <2>2. ASSUME NEW s \in SUBSET D, s # {}, Fold[s \ {C[s]}] \in R
        PROVE  Fold[s] \in R
    <3>1. C[s] = Max(s) /\ C[s] \in D
      BY <1>3, <2>2 DEF Chooses
    <3>2. Fold[s] = Rec(Fold)[s]
      BY <1>7, Zenon
    <3>3. Fold[s] = Fold[s \ {Max(s)}] \o seqs[Max(s)]
      BY <2>2, <3>2, Zenon
    <3> HIDE DEF C
    <3> QED
      BY <1>1, <2>2, <3>1, <3>3, ConcatProperties
  <2> HIDE DEF C, D, R
  <2> QED
    BY <1>1, <1>3, <2>1, <2>2, SubsetInduction
<1> QED
  BY <1>2, <1>8

-----------------------------------------------------------------------------
(* Sums of functions and of sets. *)

\* The recursion of the community modules for the sums of w.
SumRec(F, w, D) ==
    [s \in SUBSET D |-> IF s = {} THEN 0
                        ELSE w[CHOOSE x \in s : TRUE] + F[s \ {CHOOSE x \in s : TRUE}]]

\* It has a solution, and a solution gives the sums of w.
LEMMA SumsRec ==
  ASSUME NEW D, IsFiniteSet(D), NEW w \in [D -> Int]
  PROVE  /\ \E F : F = SumRec(F, w, D)
         /\ \A F : F = SumRec(F, w, D) => \A s \in SUBSET D : F[s] = Sums(w)[s]
<1> DEFINE Rec(F) == [s \in SUBSET D |-> IF s = {} THEN 0
                        ELSE w[CHOOSE x \in s : TRUE] + F[s \ {CHOOSE x \in s : TRUE}]]
           G == [s \in SUBSET D |-> Sums(w)[s]]
<1>1. \A s \in SUBSET D : AnyOf(D)[s] = (CHOOSE x \in s : TRUE)
  BY Zenon DEF AnyOf
<1>2. G = Rec(G)
  <2> SUFFICES ASSUME NEW s \in SUBSET D
               PROVE  Sums(w)[s] = IF s = {} THEN 0
                        ELSE w[CHOOSE x \in s : TRUE] + G[s \ {CHOOSE x \in s : TRUE}]
    OBVIOUS
  <2> DEFINE c == CHOOSE x \in s : TRUE
  <2>1. s = {} => Sums(w)[s] = 0
    BY SumsStep
  <2>2. s # {} => Sums(w)[s] = w[AnyOf(D)[s]] + Sums(w)[s \ {AnyOf(D)[s]}]
    BY SumsStep
  <2>3. AnyOf(D)[s] = c
    BY <1>1, Zenon
  <2>4. G[s \ {c}] = Sums(w)[s \ {c}]
    OBVIOUS
  <2> HIDE DEF G
  <2> QED
    BY <2>1, <2>2, <2>3, <2>4, Zenon
<1>3. ASSUME NEW F, F = Rec(F) PROVE \A s \in SUBSET D : F[s] = Sums(w)[s]
  <2>1. AddsUp(F, D, w)
    <3> SUFFICES ASSUME NEW s \in SUBSET D
                 PROVE  F[s] = IF s = {} THEN 0 ELSE w[AnyOf(D)[s]] + F[s \ {AnyOf(D)[s]}]
      BY DEF AddsUp
    <3>1. F[s] = Rec(F)[s]
      BY <1>3, Zenon
    <3>2. F[s] = IF s = {} THEN 0 ELSE w[CHOOSE x \in s : TRUE] + F[s \ {CHOOSE x \in s : TRUE}]
      BY <3>1, Zenon
    <3>3. AnyOf(D)[s] = (CHOOSE x \in s : TRUE)
      BY <1>1
    <3> QED
      BY <3>2, <3>3, Zenon
  <2> HIDE DEF Rec
  <2> QED
    BY <2>1, SumsUnique
<1>4. \E F : F = Rec(F)
  BY <1>2
<1> HIDE DEF Rec
<1>5. \A F : F = Rec(F) => \A s \in SUBSET D : F[s] = Sums(w)[s]
  BY <1>3
<1>6. \A F : SumRec(F, w, D) = Rec(F)
  BY DEF SumRec, Rec
<1> QED
  BY <1>4, <1>5, <1>6

\* The sum of a function, or of its values on some of its domain.
LEMMA SumOnSet ==
  ASSUME NEW D, IsFiniteSet(D), NEW f \in [D -> Int], NEW I \in SUBSET D
  PROVE  SumFunctionOnSet(f, I) = Sums(f)[I]
<1> DEFINE w == [i \in I |-> f[i]]
           Rec2(F) == [s \in SUBSET I |-> IF s = {} THEN 0
                        ELSE f[CHOOSE x \in s : TRUE] + F[s \ {CHOOSE x \in s : TRUE}]]
           Fold == CHOOSE F : F = Rec2(F)
<1>1. SumFunctionOnSet(f, I) = Fold[I]
  BY Zenon DEF SumFunctionOnSet, FoldFunctionOnSet, MapThenFoldSet
<1>2. IsFiniteSet(I) /\ w \in [I -> Int] /\ \A i \in I : w[i] = f[i]
  BY FS_Subset
<1>3. ASSUME NEW F PROVE SumRec(F, w, I) = Rec2(F)
  <2>1. \A s \in SUBSET I : s # {} => w[CHOOSE x \in s : TRUE] = f[CHOOSE x \in s : TRUE]
    <3> SUFFICES ASSUME NEW s \in SUBSET I, s # {}
                 PROVE  w[CHOOSE x \in s : TRUE] = f[CHOOSE x \in s : TRUE]
      OBVIOUS
    <3>1. (CHOOSE x \in s : TRUE) \in s
      BY Zenon
    <3> QED
      BY <1>2, <3>1
  <2> HIDE DEF w
  <2> QED
    BY <2>1 DEF SumRec
<1> HIDE DEF w
<1>4. /\ \E F : F = SumRec(F, w, I)
      /\ \A F : F = SumRec(F, w, I) => \A s \in SUBSET I : F[s] = Sums(w)[s]
  BY <1>2, SumsRec
<1> HIDE DEF Rec2
<1>5. Fold = Rec2(Fold)
  <2>1. \E F : F = Rec2(F)
    BY <1>3, <1>4
  <2> QED
    BY <2>1, Zenon
<1> HIDE DEF Fold
<1>6. Fold[I] = Sums(w)[I]
  BY <1>3, <1>4, <1>5
<1>7. Sums(w)[I] = Sums(f)[I]
  BY <1>2, SumsAgree
<1> QED
  BY <1>1, <1>6, <1>7

\* The sum of a function is the sum over its domain.
LEMMA SumOfFunction ==
  ASSUME NEW D, IsFiniteSet(D), NEW f \in [D -> Int]
  PROVE  SumFunction(f) = Sums(f)[D] /\ SumFunction(f) \in Int
<1>1. D \in SUBSET D /\ DOMAIN f = D
  OBVIOUS
<1>2. SumFunction(f) = Sums(f)[D]
  BY <1>1, SumOnSet DEF SumFunction
<1>3. Sums(f)[D] \in Int
  BY <1>1, SumsStep
<1> QED
  BY <1>2, <1>3

\* The sum of the values of a set of coins.
LEMMA SumOfValues ==
  ASSUME NEW D, IsFiniteSet(D), \A c \in D : c.value \in Int
  PROVE  MapThenSumSet(LAMBDA c : c.value, D) = Sums([c \in D |-> c.value])[D]
<1> DEFINE w == [c \in D |-> c.value]
           Rec2(F) == [s \in SUBSET D |-> IF s = {} THEN 0
                        ELSE (CHOOSE x \in s : TRUE).value + F[s \ {CHOOSE x \in s : TRUE}]]
           Fold == CHOOSE F : F = Rec2(F)
<1>1. MapThenSumSet(LAMBDA c : c.value, D) = Fold[D]
  BY Zenon DEF MapThenSumSet, MapThenFoldSet
<1>2. w \in [D -> Int] /\ \A i \in D : w[i] = i.value
  OBVIOUS
<1>3. ASSUME NEW F PROVE SumRec(F, w, D) = Rec2(F)
  <2>1. \A s \in SUBSET D : s # {} => w[CHOOSE x \in s : TRUE] = (CHOOSE x \in s : TRUE).value
    <3> SUFFICES ASSUME NEW s \in SUBSET D, s # {}
                 PROVE  w[CHOOSE x \in s : TRUE] = (CHOOSE x \in s : TRUE).value
      OBVIOUS
    <3>1. (CHOOSE x \in s : TRUE) \in s
      BY Zenon
    <3> QED
      BY <1>2, <3>1
  <2> HIDE DEF w
  <2> QED
    BY <2>1 DEF SumRec
<1> HIDE DEF w
<1>4. /\ \E F : F = SumRec(F, w, D)
      /\ \A F : F = SumRec(F, w, D) => \A s \in SUBSET D : F[s] = Sums(w)[s]
  BY <1>2, SumsRec
<1> HIDE DEF Rec2
<1>5. Fold = Rec2(Fold)
  <2>1. \E F : F = Rec2(F)
    BY <1>3, <1>4
  <2> QED
    BY <2>1, Zenon
<1> HIDE DEF Fold
<1>6. Fold[D] = Sums(w)[D]
  BY <1>3, <1>4, <1>5
<1> QED
  BY <1>1, <1>6 DEF w

\* The elements of S with an address, and with one of some addresses.
Group(S, a)  == {c \in S : c.address = a}
Groups(S, s) == {c \in S : c.address \in s}

\* Each number of w is r for each element of S with the address.
CountsGroups(w, r, S, D) == \A a \in D : w[a] = r * Cardinality(Group(S, a))

\* Numbers that are r for each element of S with an address sum to r for each element
\* with one of the addresses.
LEMMA SumsOfGroups ==
  ASSUME NEW D, IsFiniteSet(D), NEW w \in [D -> Int], NEW r \in Nat, NEW S, IsFiniteSet(S),
         CountsGroups(w, r, S, D)
  PROVE  \A s \in SUBSET D : Sums(w)[s] = r * Cardinality(Groups(S, s))
<1> USE DEF CountsGroups, Group, Groups
<1> DEFINE Of(s) == {c \in S : c.address \in s}
           Good(s) == Sums(w)[s] = r * Cardinality(Of(s))
           Bad == {s \in SUBSET D : ~Good(s)}
<1> SUFFICES ASSUME Bad # {} PROVE FALSE
  OBVIOUS
<1>1. \A t \in Bad : IsFiniteSet(t)
  BY FS_Subset
<1>2. PICK t \in Bad : \A u \in Bad : Cardinality(u) \in Nat /\ Cardinality(t) <= Cardinality(u)
  <2> HIDE DEF Bad
  <2> QED
    BY <1>1, SmallestSet
<1>3. t \in SUBSET D /\ ~Good(t)
  OBVIOUS
<1> HIDE DEF Bad
<1>4. t # {}
  <2>1. Sums(w)[{}] = 0
    <3>1. {} \in SUBSET D
      OBVIOUS
    <3> QED
      BY <3>1, SumsStep
  <2>2. Of({}) = {} /\ r * 0 = 0
    OBVIOUS
  <2>3. Good({})
    BY <2>1, <2>2, FS_EmptySet
  <2> QED
    BY <1>3, <2>3
<1>5. PICK x : x \in t
  BY <1>4
<1> DEFINE u == t \ {x}
           one == {c \in S : c.address = x}
<1>6. u \in SUBSET D /\ Cardinality(t) \in Nat /\ Cardinality(u) = Cardinality(t) - 1
  <2>1. /\ t \ {x} \in SUBSET D
        /\ Cardinality(t) \in Nat /\ Cardinality(t \ {x}) \in Nat
        /\ Cardinality(t \ {x}) = Cardinality(t) - 1
    BY <1>3, <1>5, OneLess
  <2> QED
    BY <2>1
<1>7. Sums(w)[t] = w[x] + Sums(w)[u] /\ w[x] = r * Cardinality(one)
  BY <1>3, <1>5, SumsRemove
<1>8. /\ Of(t) = Of(u) \cup one /\ Of(u) \cap one = {}
      /\ Of(u) \in SUBSET S /\ one \in SUBSET S
  BY <1>5
<1> HIDE DEF u, Good, Of, one
<1>9. Good(u)
  <2>1. u \notin Bad
    BY <1>2, <1>6
  <2> QED
    BY <1>6, <2>1 DEF Bad
<1>10. /\ Cardinality(Of(u)) \in Nat /\ Cardinality(one) \in Nat
       /\ Cardinality(Of(t)) = Cardinality(Of(u)) + Cardinality(one)
  <2>1. IsFiniteSet(Of(u)) /\ IsFiniteSet(one)
    BY <1>8, FS_Subset
  <2>2. /\ Cardinality(Of(u)) \in Nat /\ Cardinality(one) \in Nat
        /\ Cardinality(Of(u) \cap one) = 0
    BY <1>8, <2>1, FS_CardinalityType, FS_EmptySet
  <2>3. Cardinality(Of(u) \cup one) =
          Cardinality(Of(u)) + Cardinality(one) - Cardinality(Of(u) \cap one)
    BY <2>1, FS_Union
  <2> QED
    BY <1>8, <2>2, <2>3
<1>11. \A a, b \in Nat : r * (a + b) = r * b + r * a
  OBVIOUS
<1>12. Sums(w)[t] = r * Cardinality(one) + r * Cardinality(Of(u))
  BY <1>7, <1>9 DEF Good
<1>13. Good(t)
  BY <1>10, <1>11, <1>12 DEF Good
<1> QED
  BY <1>3, <1>13

\* Greater numbers have a greater sum.
LEMMA SumsLeq ==
  ASSUME NEW D, IsFiniteSet(D), NEW v \in [D -> Int], NEW w \in [D -> Int],
         \A x \in D : v[x] <= w[x]
  PROVE  \A s \in SUBSET D : Sums(v)[s] <= Sums(w)[s]
<1> DEFINE Good(s) == Sums(v)[s] <= Sums(w)[s]
           Bad == {s \in SUBSET D : ~Good(s)}
<1> SUFFICES ASSUME Bad # {} PROVE FALSE
  OBVIOUS
<1>1. \A t \in Bad : IsFiniteSet(t)
  BY FS_Subset
<1>2. PICK t \in Bad : \A u \in Bad : Cardinality(u) \in Nat /\ Cardinality(t) <= Cardinality(u)
  <2> HIDE DEF Bad
  <2> QED
    BY <1>1, SmallestSet
<1>3. t \in SUBSET D /\ ~Good(t)
  OBVIOUS
<1> HIDE DEF Bad
<1>4. t # {}
  <2>1. t = {} => Sums(v)[t] = 0 /\ Sums(w)[t] = 0
    BY <1>3, SumsStep
  <2> QED
    BY <1>3, <2>1
<1>5. PICK x : x \in t
  BY <1>4
<1> DEFINE u == t \ {x}
<1>6. /\ u \in SUBSET D
      /\ Cardinality(t) \in Nat /\ Cardinality(u) \in Nat /\ Cardinality(u) = Cardinality(t) - 1
  BY <1>3, <1>5, OneLess
<1>7. Sums(v)[t] = v[x] + Sums(v)[u] /\ Sums(w)[t] = w[x] + Sums(w)[u]
  BY <1>3, <1>5, SumsRemove
<1> HIDE DEF u
<1>8. Sums(v)[u] \in Int /\ Sums(w)[u] \in Int
  BY <1>6, SumsStep
<1>9. Good(u)
  <2> HIDE DEF Good
  <2>1. u \notin Bad
    BY <1>2, <1>6
  <2> QED
    BY <1>6, <2>1 DEF Bad
<1>10. v[x] \in Int /\ w[x] \in Int /\ v[x] <= w[x]
  BY <1>3, <1>5
<1> QED
  BY <1>3, <1>7, <1>8, <1>9, <1>10
===============================================================================
