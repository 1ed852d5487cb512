--------------------------- MODULE EncodingProofs ---------------------------
(***************************************************************************)
(* Lemmas about the operators the codecs are built from, for any base and  *)
(* any sizes: powers, digits and the numbers they stand for; the reader of *)
(* each part of a format reads what its writer wrote and leaves what       *)
(* follows; the numbers of a signature; an address is decoded to the bytes *)
(* it was made of.  A fold over a sequence is a recursive function over    *)
(* sets of indices: it is unfolded to its steps (a function T of the       *)
(* number of elements taken) once for each operator, and everything else   *)
(* is said of the steps.                                                   *)
(***************************************************************************)
EXTENDS FormatReader, AddressCodec, FoldProofs

(* Folds of sequences, step by step. *)

\* What holds at 0, and at the next number with each, holds up to any number.
LEMMA UpTo ==
  ASSUME NEW n \in Nat, NEW S, 0 \in S, \A i \in 0 .. n - 1 : i \in S => i + 1 \in S
  PROVE  \A i \in 0 .. n : i \in S
<1> DEFINE Bad == {i \in 0 .. n : i \notin S}
<1> SUFFICES ASSUME Bad # {} PROVE FALSE
  OBVIOUS
<1>1. PICK i \in Bad : \A j \in Bad : i <= j
  <2>1. Bad \in SUBSET Nat
    OBVIOUS
  <2> HIDE DEF Bad
  <2> QED
    BY <2>1, SmallestNumber
<1>2. i \in 0 .. n /\ i \notin S /\ i # 0
  OBVIOUS
<1>3. i - 1 \in 0 .. n - 1 /\ i - 1 \notin Bad /\ (i - 1) + 1 = i
  <2> HIDE DEF Bad
  <2> QED
    BY <1>1, <1>2
<1>4. i - 1 \in S
  BY <1>3
<1>5. i \in S
  BY <1>3, <1>4
<1> QED
  BY <1>2, <1>5

\* The first numbers without the last of them.
LEMMA FirstNumbers ==
  ASSUME NEW n \in Nat, NEW i \in 1 .. n
  PROVE  /\ 1 .. i # {} /\ Max(1 .. i) = i /\ (1 .. i) \ {i} = 1 .. i - 1
         /\ (1 .. i) \in SUBSET (1 .. n)
<1>1. i \in 1 .. i /\ (1 .. i) \in SUBSET Nat /\ IsFiniteSet(1 .. i)
  BY FS_Interval
<1>2. Max(1 .. i) \in 1 .. i /\ \A k \in 1 .. i : Max(1 .. i) >= k
  BY <1>1, MaxOfNumbers
<1>3. Max(1 .. i) = i
  BY <1>1, <1>2
<1>4. (1 .. i) \ {i} = 1 .. i - 1 /\ (1 .. i) \in SUBSET (1 .. n)
  OBVIOUS
<1> QED
  BY <1>1, <1>3, <1>4

\* The last numbers without the first of them.
LEMMA LastNumbers ==
  ASSUME NEW n \in Nat, NEW i \in 1 .. n
  PROVE  /\ i .. n # {} /\ Min(i .. n) = i /\ (i .. n) \ {i} = i + 1 .. n
         /\ (i .. n) \in SUBSET (1 .. n)
<1>1. i \in i .. n /\ (i .. n) \in SUBSET Nat
  OBVIOUS
<1>2. Min(i .. n) \in i .. n /\ \A k \in i .. n : Min(i .. n) <= k
  BY <1>1, MinOfNumbers
<1>3. Min(i .. n) = i
  BY <1>1, <1>2
<1>4. (i .. n) \ {i} = i + 1 .. n /\ (i .. n) \in SUBSET (1 .. n)
  OBVIOUS
<1> QED
  BY <1>1, <1>3, <1>4

\* The least number of a set is one of them.
LEMMA MinChooses ==
  ASSUME NEW n \in Nat
  PROVE  Chooses([s \in SUBSET (1 .. n) |-> Min(s)], 1 .. n)
<1> SUFFICES ASSUME NEW s \in SUBSET (1 .. n), s # {} PROVE Min(s) \in s
  BY DEF Chooses
<1>1. s \in SUBSET Nat
  OBVIOUS
<1> QED
  BY <1>1, MinOfNumbers

\* H folds G over the first n numbers, from the left, and stays in R.
FoldsLeft(H, n, R, e, G) ==
    /\ H = [s \in SUBSET (1 .. n) |-> H[s]]
    /\ \A s \in SUBSET (1 .. n) :
         /\ H[s] \in R
         /\ s = {} => H[s] = e
         /\ s # {} => Max(s) \in 1 .. n /\ H[s] = G[<<Max(s), H[s \ {Max(s)}]>>]

\* There are such folds.
LEMMA LeftFold ==
  ASSUME NEW n \in Nat, NEW R, NEW e \in R, NEW G, \A x \in 1 .. n, r \in R : G[<<x, r>>] \in R
  PROVE  \E H : FoldsLeft(H, n, R, e, G)
<1> DEFINE D == 1 .. n
           A == [s \in SUBSET D |-> Max(s)]
<1>1. IsFiniteSet(D) /\ Chooses(A, D)
  <2>1. IsFiniteSet(D)
    BY FS_Interval
  <2>2. Chooses(A, D)
    BY MaxChooses
  <2> QED
    BY <2>1, <2>2
<1>2. /\ \A s \in SUBSET D : A[s] = Max(s)
      /\ \A s \in SUBSET D : s # {} => A[s] \in D
  <2>1. \A s \in SUBSET D : A[s] = Max(s)
    OBVIOUS
  <2> HIDE DEF A
  <2> QED
    BY <1>1, <2>1 DEF Chooses
<1> HIDE DEF A, D
<1>3. PICK F : IsFold(F, D, A, G, e) /\ \A s \in SUBSET D : F[s] \in R
  BY <1>1, FoldInside DEF D
<1>4. /\ F = [s \in SUBSET D |-> F[s]]
      /\ \A s \in SUBSET D :
           /\ s = {} => F[s] = e
           /\ s # {} => F[s] = G[<<Max(s), F[s \ {Max(s)}]>>]
  <2>1. F = [s \in SUBSET D |-> Step(F, s, A, G, e)]
    BY <1>3 DEF IsFold
  <2>2. \A s \in SUBSET D : Step(F, s, A, G, e) =
                              IF s = {} THEN e ELSE G[<<Max(s), F[s \ {Max(s)}]>>]
    BY <1>2 DEF Step
  <2> QED
    BY <2>1, <2>2
<1>5. \A s \in SUBSET D : s # {} => Max(s) \in D
  BY <1>2
<1>6. \A s \in SUBSET D : F[s] \in R
  BY <1>3
<1> QED
  BY <1>4, <1>5, <1>6 DEF D, FoldsLeft

\* H folds G over the first n numbers, from the right, and stays in R.
FoldsRight(H, n, R, e, G) ==
    /\ H = [s \in SUBSET (1 .. n) |-> H[s]]
    /\ \A s \in SUBSET (1 .. n) :
         /\ H[s] \in R
         /\ s = {} => H[s] = e
         /\ s # {} => Min(s) \in 1 .. n /\ H[s] = G[<<Min(s), H[s \ {Min(s)}]>>]

\* There are such folds.
LEMMA RightFold ==
  ASSUME NEW n \in Nat, NEW R, NEW e \in R, NEW G, \A x \in 1 .. n, r \in R : G[<<x, r>>] \in R
  PROVE  \E H : FoldsRight(H, n, R, e, G)
<1> DEFINE D == 1 .. n
           A == [s \in SUBSET D |-> Min(s)]
<1>1. IsFiniteSet(D) /\ Chooses(A, D)
  <2>1. IsFiniteSet(D)
    BY FS_Interval
  <2>2. Chooses(A, D)
    BY MinChooses
  <2> QED
    BY <2>1, <2>2
<1>2. /\ \A s \in SUBSET D : A[s] = Min(s)
      /\ \A s \in SUBSET D : s # {} => A[s] \in D
  <2>1. \A s \in SUBSET D : A[s] = Min(s)
    OBVIOUS
  <2> HIDE DEF A
  <2> QED
    BY <1>1, <2>1 DEF Chooses
<1> HIDE DEF A, D
<1>3. PICK F : IsFold(F, D, A, G, e) /\ \A s \in SUBSET D : F[s] \in R
  BY <1>1, FoldInside DEF D
<1>4. /\ F = [s \in SUBSET D |-> F[s]]
      /\ \A s \in SUBSET D :
           /\ s = {} => F[s] = e
           /\ s # {} => F[s] = G[<<Min(s), F[s \ {Min(s)}]>>]
  <2>1. F = [s \in SUBSET D |-> Step(F, s, A, G, e)]
    BY <1>3 DEF IsFold
  <2>2. \A s \in SUBSET D : Step(F, s, A, G, e) =
                              IF s = {} THEN e ELSE G[<<Min(s), F[s \ {Min(s)}]>>]
    BY <1>2 DEF Step
  <2> QED
    BY <2>1, <2>2
<1>5. \A s \in SUBSET D : s # {} => Min(s) \in D
  BY <1>2
<1>6. \A s \in SUBSET D : F[s] \in R
  BY <1>3
<1> QED
  BY <1>4, <1>5, <1>6 DEF D, FoldsRight
\* The powers of the base.
PowerSteps(T, base, n) ==
    /\ T[0] = 1
    /\ \A i \in 1 .. n : T[i] = T[i - 1] * base
    /\ \A i \in 0 .. n : T[i] \in Nat

\* Power multiplies one by the base, n times.
LEMMA PowerTrace ==
  ASSUME NEW base \in Nat, NEW n \in Nat
  PROVE  \E T : PowerSteps(T, base, n) /\ Power(base, n) = T[n]
<1> DEFINE D == 1 .. n
           R == Nat
           Rec(F) == [s \in SUBSET D |-> IF s = {} THEN 1
                        ELSE F[s \ {Max(s)}] * base]
           Fold == CHOOSE F : F = Rec(F)
           T == [i \in 0 .. n |-> Fold[1 .. i]]
           G == [p \in D \X R |-> p[2] * base]
<1>1. Power(base, n) = Fold[D]
  <2>1. DOMAIN [i \in 1 .. n |-> i] = D
    OBVIOUS
  <2>2. Power(base, n) = (CHOOSE F : F = [s \in SUBSET (DOMAIN [i \in 1 .. n |-> i]) |->
                             IF s = {} THEN 1 ELSE F[s \ {Max(s)}] * base])[DOMAIN [i \in 1 .. n |-> i]]
    BY Zenon DEF Power, FoldLeft, MapThenFoldSet
  <2> HIDE DEF D
  <2> QED
    BY <2>1, <2>2, Zenon
<1>2. /\ 1 \in R
      /\ \A x \in D, r \in R : r * base \in R
OBVIOUS
<1>3. \A x \in D, r \in R : G[<<x, r>>] = r * base
  <2> SUFFICES ASSUME NEW x \in D, NEW r \in R PROVE G[<<x, r>>] = r * base
    OBVIOUS
  <2>1. <<x, r>> \in D \X R /\ <<x, r>>[1] = x /\ <<x, r>>[2] = r
    OBVIOUS
  <2> QED
    BY <2>1, Zenon
<1> HIDE DEF G, R
<1>4. PICK H : FoldsLeft(H, n, R, 1, G)
  <2>1. \A x \in D, r \in R : G[<<x, r>>] \in R
    BY <1>2, <1>3
  <2>2. 1 \in R /\ \A x \in 1 .. n, r \in R : G[<<x, r>>] \in R
    BY <1>2, <2>1
  <2> QED
    BY <2>2, LeftFold
<1>5. H = Rec(H)
  <2>1. /\ H = [s \in SUBSET D |-> H[s]]
        /\ \A s \in SUBSET D :
             /\ s = {} => H[s] = 1
             /\ s # {} => /\ H[s] = G[<<Max(s), H[s \ {Max(s)}]>>]
                          /\ Max(s) \in D /\ H[s \ {Max(s)}] \in R
    BY <1>4 DEF FoldsLeft
  <2>2. \A s \in SUBSET D : s # {} => H[s] = H[s \ {Max(s)}] * base
    BY <1>3, <2>1
  <2>3. \A s \in SUBSET D : H[s] = IF s = {} THEN 1 ELSE H[s \ {Max(s)}] * base
    BY <2>1, <2>2
  <2> QED
    BY <2>1, <2>3
<1>6. Fold = Rec(Fold)
  <2>1. \E F : F = Rec(F)
    BY <1>5
  <2> QED
    BY <2>1, Zenon
<1> HIDE DEF Fold
<1>7. \A s \in SUBSET D : Fold[s] = IF s = {} THEN 1 ELSE Fold[s \ {Max(s)}] * base
  <2> SUFFICES ASSUME NEW s \in SUBSET D
               PROVE  Fold[s] = IF s = {} THEN 1 ELSE Fold[s \ {Max(s)}] * base
    OBVIOUS
  <2>1. Fold[s] = Rec(Fold)[s]
    BY <1>6, Zenon
  <2> QED
    BY <2>1, Zenon
<1>8. T[0] = 1 /\ \A i \in 1 .. n : T[i] = T[i - 1] * base
  <2>1. \A i \in 0 .. n : T[i] = Fold[1 .. i]
    OBVIOUS
  <2> HIDE DEF T
  <2>2. T[0] = 1
    <3>1. 1 .. 0 = {} /\ {} \in SUBSET D
      OBVIOUS
    <3>2. Fold[{}] = 1
      BY <1>7, <3>1
    <3> QED
      BY <2>1, <3>1, <3>2
  <2> SUFFICES ASSUME NEW i \in 1 .. n PROVE T[i] = T[i - 1] * base
    BY <2>2
  <2>3. 1 .. i # {} /\ Max(1 .. i) = i /\ (1 .. i) \ {i} = 1 .. i - 1 /\ 1 .. i \in SUBSET D
    BY FirstNumbers
  <2>4. Fold[1 .. i] = Fold[1 .. i - 1] * base
    BY <1>7, <2>3
  <2>5. T[i] = Fold[1 .. i] /\ T[i - 1] = Fold[1 .. i - 1]
    BY <2>1
  <2> QED
    BY <2>4, <2>5
<1>9. \A i \in 0 .. n : T[i] \in R
  <2> DEFINE S == {i \in 0 .. n : T[i] \in R}
  <2>1. 0 \in S
    BY <1>2, <1>8
  <2>2. \A i \in 0 .. n - 1 : i \in S => i + 1 \in S
    <3> HIDE DEF T, D
    <3> SUFFICES ASSUME NEW i \in 0 .. n - 1, T[i] \in R PROVE T[i + 1] \in R
      OBVIOUS
    <3>1. i + 1 \in 1 .. n /\ (i + 1) - 1 = i
      OBVIOUS
    <3>2. T[i + 1] = T[i] * base
      BY <1>8, <3>1
    <3> QED
      BY <1>2, <3>1, <3>2 DEF D
  <2>3. \A i \in 0 .. n : i \in S
    <3> HIDE DEF S
    <3> QED
      BY <2>1, <2>2, UpTo
  <2> QED
    BY <2>3
<1>10. Power(base, n) = T[n]
  BY <1>1
<1> HIDE DEF T
<1> USE DEF R
<1> QED
  BY <1>8, <1>9, <1>10 DEF PowerSteps


\* The numbers of the first digits.
ValueSteps(T, base, digits, n) ==
    /\ T[0] = 0
    /\ \A i \in 1 .. n : T[i] = T[i - 1] * base + digits[i]
    /\ \A i \in 0 .. n : T[i] \in Nat

\* The number of digits: the number of those before, times the base, and the next digit.
LEMMA ValueTrace ==
  ASSUME NEW base \in Nat, NEW digits \in Seq(Nat), NEW n \in Nat, n = Len(digits)
  PROVE  \E T : ValueSteps(T, base, digits, n) /\ ValueIn(base, digits) = T[n]
<1>0. n \in Nat /\ DOMAIN digits = 1 .. n /\ \A i \in 1 .. n : digits[i] \in Nat
  BY LenProperties, ElementOfSeq
<1> DEFINE D == 1 .. n
           R == Nat
           Rec(F) == [s \in SUBSET D |-> IF s = {} THEN 0
                        ELSE F[s \ {Max(s)}] * base + digits[Max(s)]]
           Fold == CHOOSE F : F = Rec(F)
           T == [i \in 0 .. n |-> Fold[1 .. i]]
           G == [p \in D \X R |-> p[2] * base + digits[p[1]]]
<1>1. ValueIn(base, digits) = Fold[D]
  <2>1. ValueIn(base, digits) = (CHOOSE F : F = [s \in SUBSET (DOMAIN digits) |->
                                    IF s = {} THEN 0 ELSE F[s \ {Max(s)}] * base + digits[Max(s)]])[DOMAIN digits]
    BY Zenon DEF ValueIn, FoldLeft, MapThenFoldSet
  <2> HIDE DEF D
  <2>2. DOMAIN digits = D
    BY <1>0 DEF D
  <2> QED
    BY <2>1, <2>2, Zenon
<1>2. /\ 0 \in R
      /\ \A x \in D, r \in R : r * base + digits[x] \in R
  BY <1>0
<1>3. \A x \in D, r \in R : G[<<x, r>>] = r * base + digits[x]
  <2> SUFFICES ASSUME NEW x \in D, NEW r \in R PROVE G[<<x, r>>] = r * base + digits[x]
    OBVIOUS
  <2>1. <<x, r>> \in D \X R /\ <<x, r>>[1] = x /\ <<x, r>>[2] = r
    OBVIOUS
  <2> QED
    BY <2>1, Zenon
<1> HIDE DEF G, R
<1>4. PICK H : FoldsLeft(H, n, R, 0, G)
  <2>1. \A x \in D, r \in R : G[<<x, r>>] \in R
    BY <1>2, <1>3
  <2>2. 0 \in R /\ \A x \in 1 .. n, r \in R : G[<<x, r>>] \in R
    BY <1>2, <2>1
  <2> QED
    BY <2>2, LeftFold
<1>5. H = Rec(H)
  <2>1. /\ H = [s \in SUBSET D |-> H[s]]
        /\ \A s \in SUBSET D :
             /\ s = {} => H[s] = 0
             /\ s # {} => /\ H[s] = G[<<Max(s), H[s \ {Max(s)}]>>]
                          /\ Max(s) \in D /\ H[s \ {Max(s)}] \in R
    BY <1>4 DEF FoldsLeft
  <2>2. \A s \in SUBSET D : s # {} => H[s] = H[s \ {Max(s)}] * base + digits[Max(s)]
    BY <1>3, <2>1
  <2>3. \A s \in SUBSET D : H[s] = IF s = {} THEN 0 ELSE H[s \ {Max(s)}] * base + digits[Max(s)]
    BY <2>1, <2>2
  <2> QED
    BY <2>1, <2>3
<1>6. Fold = Rec(Fold)
  <2>1. \E F : F = Rec(F)
    BY <1>5
  <2> QED
    BY <2>1, Zenon
<1> HIDE DEF Fold
<1>7. \A s \in SUBSET D : Fold[s] = IF s = {} THEN 0 ELSE Fold[s \ {Max(s)}] * base + digits[Max(s)]
  <2> SUFFICES ASSUME NEW s \in SUBSET D
               PROVE  Fold[s] = IF s = {} THEN 0 ELSE Fold[s \ {Max(s)}] * base + digits[Max(s)]
    OBVIOUS
  <2>1. Fold[s] = Rec(Fold)[s]
    BY <1>6, Zenon
  <2> QED
    BY <2>1, Zenon
<1>8. T[0] = 0 /\ \A i \in 1 .. n : T[i] = T[i - 1] * base + digits[i]
  <2>1. \A i \in 0 .. n : T[i] = Fold[1 .. i]
    OBVIOUS
  <2> HIDE DEF T
  <2>2. T[0] = 0
    <3>1. 1 .. 0 = {} /\ {} \in SUBSET D
      OBVIOUS
    <3>2. Fold[{}] = 0
      BY <1>7, <3>1
    <3> QED
      BY <2>1, <3>1, <3>2
  <2> SUFFICES ASSUME NEW i \in 1 .. n PROVE T[i] = T[i - 1] * base + digits[i]
    BY <2>2
  <2>3. 1 .. i # {} /\ Max(1 .. i) = i /\ (1 .. i) \ {i} = 1 .. i - 1 /\ 1 .. i \in SUBSET D
    BY FirstNumbers
  <2>4. Fold[1 .. i] = Fold[1 .. i - 1] * base + digits[i]
    BY <1>7, <2>3
  <2>5. T[i] = Fold[1 .. i] /\ T[i - 1] = Fold[1 .. i - 1]
    BY <2>1
  <2> QED
    BY <2>4, <2>5
<1>9. \A i \in 0 .. n : T[i] \in R
  <2> DEFINE S == {i \in 0 .. n : T[i] \in R}
  <2>1. 0 \in S
    BY <1>2, <1>8
  <2>2. \A i \in 0 .. n - 1 : i \in S => i + 1 \in S
    <3> HIDE DEF T, D
    <3> SUFFICES ASSUME NEW i \in 0 .. n - 1, T[i] \in R PROVE T[i + 1] \in R
      OBVIOUS
    <3>1. i + 1 \in 1 .. n /\ (i + 1) - 1 = i
      OBVIOUS
    <3>2. T[i + 1] = T[i] * base + digits[i + 1]
      BY <1>8, <3>1
    <3> QED
      BY <1>2, <3>1, <3>2 DEF D
  <2>3. \A i \in 0 .. n : i \in S
    <3> HIDE DEF S
    <3> QED
      BY <2>1, <2>2, UpTo
  <2> QED
    BY <2>3
<1>10. ValueIn(base, digits) = T[n]
  BY <1>1
<1> HIDE DEF T
<1> USE DEF R
<1> QED
  BY <1>8, <1>9, <1>10 DEF ValueSteps


\* The last sequences joined.
JoinSteps(T, S, seqs, n) ==
    /\ T[n] = <<>>
    /\ \A i \in 1 .. n : T[i - 1] = seqs[i] \o T[i]
    /\ \A i \in 0 .. n : T[i] \in Seq(S)

\* Sequences are joined from the last on.
LEMMA JoinTrace ==
  ASSUME NEW S, NEW seqs \in Seq(Seq(S)), NEW n \in Nat, n = Len(seqs)
  PROVE  \E T : JoinSteps(T, S, seqs, n) /\ Join(seqs) = T[0]
<1>0. n \in Nat /\ DOMAIN seqs = 1 .. n /\ \A i \in 1 .. n : seqs[i] \in Seq(S)
  BY LenProperties, ElementOfSeq
<1> DEFINE D == 1 .. n
           R == Seq(S)
           Rec(F) == [s \in SUBSET D |-> IF s = {} THEN <<>>
                        ELSE seqs[Min(s)] \o F[s \ {Min(s)}]]
           Fold == CHOOSE F : F = Rec(F)
           T == [i \in 0 .. n |-> Fold[i + 1 .. n]]
           G == [p \in D \X R |-> seqs[p[1]] \o p[2]]
<1>1. Join(seqs) = Fold[D]
  <2>1. Join(seqs) = (CHOOSE F : F = [s \in SUBSET (DOMAIN seqs) |->
                         IF s = {} THEN <<>> ELSE seqs[Min(s)] \o F[s \ {Min(s)}]])[DOMAIN seqs]
    BY Zenon DEF Join, FoldRight, MapThenFoldSet
  <2> HIDE DEF D
  <2>2. DOMAIN seqs = D
    BY <1>0 DEF D
  <2> QED
    BY <2>1, <2>2, Zenon
<1>2. /\ <<>> \in R
      /\ \A x \in D, r \in R : seqs[x] \o r \in R
  BY <1>0, ConcatProperties
<1>3. \A x \in D, r \in R : G[<<x, r>>] = seqs[x] \o r
  <2> SUFFICES ASSUME NEW x \in D, NEW r \in R PROVE G[<<x, r>>] = seqs[x] \o r
    OBVIOUS
  <2>1. <<x, r>> \in D \X R /\ <<x, r>>[1] = x /\ <<x, r>>[2] = r
    OBVIOUS
  <2> QED
    BY <2>1, Zenon
<1> HIDE DEF G, R
<1>4. PICK H : FoldsRight(H, n, R, <<>>, G)
  <2>1. \A x \in D, r \in R : G[<<x, r>>] \in R
    BY <1>2, <1>3
  <2>2. <<>> \in R /\ \A x \in 1 .. n, r \in R : G[<<x, r>>] \in R
    BY <1>2, <2>1
  <2> QED
    BY <2>2, RightFold
<1>5. H = Rec(H)
  <2>1. /\ H = [s \in SUBSET D |-> H[s]]
        /\ \A s \in SUBSET D :
             /\ s = {} => H[s] = <<>>
             /\ s # {} => /\ H[s] = G[<<Min(s), H[s \ {Min(s)}]>>]
                          /\ Min(s) \in D /\ H[s \ {Min(s)}] \in R
    BY <1>4 DEF FoldsRight
  <2>2. \A s \in SUBSET D : s # {} => H[s] = seqs[Min(s)] \o H[s \ {Min(s)}]
    BY <1>3, <2>1
  <2>3. \A s \in SUBSET D : H[s] = IF s = {} THEN <<>> ELSE seqs[Min(s)] \o H[s \ {Min(s)}]
    BY <2>1, <2>2
  <2> QED
    BY <2>1, <2>3
<1>6. Fold = Rec(Fold)
  <2>1. \E F : F = Rec(F)
    BY <1>5
  <2> QED
    BY <2>1, Zenon
<1> HIDE DEF Fold
<1>7. \A s \in SUBSET D : Fold[s] = IF s = {} THEN <<>> ELSE seqs[Min(s)] \o Fold[s \ {Min(s)}]
  <2> SUFFICES ASSUME NEW s \in SUBSET D
               PROVE  Fold[s] = IF s = {} THEN <<>> ELSE seqs[Min(s)] \o Fold[s \ {Min(s)}]
    OBVIOUS
  <2>1. Fold[s] = Rec(Fold)[s]
    BY <1>6, Zenon
  <2> QED
    BY <2>1, Zenon
<1>8. T[n] = <<>> /\ \A i \in 1 .. n : T[i - 1] = seqs[i] \o T[i]
  <2>1. \A i \in 0 .. n : T[i] = Fold[i + 1 .. n]
    OBVIOUS
  <2> HIDE DEF T
  <2>2. T[n] = <<>>
    <3>1. n + 1 .. n = {} /\ {} \in SUBSET D
      OBVIOUS
    <3>2. Fold[{}] = <<>>
      BY <1>7, <3>1
    <3> QED
      BY <2>1, <3>1, <3>2
  <2> SUFFICES ASSUME NEW i \in 1 .. n PROVE T[i - 1] = seqs[i] \o T[i]
    BY <2>2
  <2>3. /\ i .. n # {} /\ Min(i .. n) = i /\ (i .. n) \ {i} = i + 1 .. n
        /\ i .. n \in SUBSET D
    BY LastNumbers
  <2>4. Fold[i .. n] = seqs[i] \o Fold[i + 1 .. n]
    BY <1>7, <2>3
  <2>5. T[i] = Fold[i + 1 .. n] /\ T[i - 1] = Fold[i .. n]
    <3>1. i - 1 \in 0 .. n /\ (i - 1) + 1 = i
      OBVIOUS
    <3> QED
      BY <2>1, <3>1
  <2> QED
    BY <2>4, <2>5
<1>9. \A i \in 0 .. n : T[i] \in R
  <2> DEFINE Good == {i \in 0 .. n : T[n - i] \in R}
  <2>1. 0 \in Good
    BY <1>2, <1>8
  <2>2. \A i \in 0 .. n - 1 : i \in Good => i + 1 \in Good
    <3> HIDE DEF T, D
    <3> SUFFICES ASSUME NEW i \in 0 .. n - 1, T[n - i] \in R PROVE T[n - (i + 1)] \in R
      OBVIOUS
    <3> DEFINE j == n - i
    <3>1. j \in 1 .. n /\ j - 1 = n - (i + 1)
      OBVIOUS
    <3>2. T[j - 1] = seqs[j] \o T[j]
      BY <1>8, <3>1
    <3> QED
      BY <1>2, <3>1, <3>2 DEF D
  <2>3. \A i \in 0 .. n : i \in Good
    <3> HIDE DEF Good
    <3> QED
      BY <2>1, <2>2, UpTo
  <2>4. \A i \in 0 .. n : n - i \in 0 .. n /\ n - (n - i) = i
    OBVIOUS
  <2> HIDE DEF T
  <2> QED
    BY <2>3, <2>4
<1>10. Join(seqs) = T[0]
  BY <1>1
<1> HIDE DEF T
<1> USE DEF R
<1> QED
  BY <1>8, <1>9, <1>10 DEF JoinSteps

-----------------------------------------------------------------------------
(* Powers and digits. *)

\* Each power is the one before times the base.
LEMMA PowerStep ==
  ASSUME NEW base \in Nat, NEW n \in Nat
  PROVE  /\ Power(base, n) \in Nat
         /\ Power(base, 0) = 1
         /\ Power(base, n + 1) = Power(base, n) * base
<1> USE DEF PowerSteps
<1>1. PICK T : PowerSteps(T, base, n) /\ Power(base, n) = T[n]
  <2> HIDE DEF PowerSteps
  <2> QED
    BY PowerTrace
<1>2. PICK U : PowerSteps(U, base, n + 1) /\ Power(base, n + 1) = U[n + 1]
  <2> HIDE DEF PowerSteps
  <2>1. n + 1 \in Nat
    OBVIOUS
  <2> QED
    BY <2>1, PowerTrace
<1>3. \A i \in 0 .. n : T[i] = U[i]
  <2> DEFINE S == {i \in 0 .. n : T[i] = U[i]}
  <2>1. 0 \in S
    BY <1>1, <1>2
  <2>2. \A i \in 0 .. n - 1 : i \in S => i + 1 \in S
    <3> SUFFICES ASSUME NEW i \in 0 .. n - 1, T[i] = U[i] PROVE T[i + 1] = U[i + 1]
      OBVIOUS
    <3>1. i + 1 \in 1 .. n /\ i + 1 \in 1 .. n + 1 /\ (i + 1) - 1 = i
      OBVIOUS
    <3>2. T[i + 1] = T[i] * base /\ U[i + 1] = U[i] * base
      BY <1>1, <1>2, <3>1
    <3> QED
      BY <3>2
  <2>3. \A i \in 0 .. n : i \in S
    <3> HIDE DEF S
    <3> QED
      BY <2>1, <2>2, UpTo
  <2> QED
    BY <2>3
<1>4. U[n + 1] = U[n] * base
  <2>1. n + 1 \in 1 .. n + 1 /\ (n + 1) - 1 = n
    OBVIOUS
  <2> QED
    BY <1>2, <2>1
<1>5. Power(base, 0) = 1
  <2>1. PICK V : PowerSteps(V, base, 0) /\ Power(base, 0) = V[0]
    <3> HIDE DEF PowerSteps
    <3> QED
      BY PowerTrace
  <2> QED
    BY <2>1
<1>6. T[n] \in Nat /\ T[n] = U[n]
  BY <1>1, <1>3
<1> QED
  BY <1>1, <1>2, <1>4, <1>5, <1>6

\* The number of some digits, by its steps.
LEMMA ValueIs ==
  ASSUME NEW base \in Nat, NEW digits \in Seq(Nat), NEW n \in Nat, n = Len(digits), NEW U,
         ValueSteps(U, base, digits, n)
  PROVE  ValueIn(base, digits) = U[n]
<1> USE DEF ValueSteps
<1>1. PICK T : ValueSteps(T, base, digits, n) /\ ValueIn(base, digits) = T[n]
  <2> HIDE DEF ValueSteps
  <2> QED
    BY ValueTrace
<1> DEFINE S == {i \in 0 .. n : T[i] = U[i]}
<1>2. 0 \in S
  BY <1>1
<1>3. \A i \in 0 .. n - 1 : i \in S => i + 1 \in S
  <2> SUFFICES ASSUME NEW i \in 0 .. n - 1, T[i] = U[i] PROVE T[i + 1] = U[i + 1]
    OBVIOUS
  <2>1. i + 1 \in 1 .. n /\ (i + 1) - 1 = i
    OBVIOUS
  <2>2. T[i + 1] = T[i] * base + digits[i + 1] /\ U[i + 1] = U[i] * base + digits[i + 1]
    BY <1>1, <2>1
  <2> QED
    BY <2>2
<1>4. \A i \in 0 .. n : i \in S
  <2> HIDE DEF S
  <2> QED
    BY <1>2, <1>3, UpTo
<1> QED
  BY <1>1, <1>4

\* Quotients and remainders.
LEMMA Division ==
  ASSUME NEW v \in Nat, NEW d \in Nat \ {0}
  PROVE  /\ v \div d \in Nat /\ v % d \in 0 .. d - 1
         /\ v = (v \div d) * d + (v % d)
<1>1. v \div d \in Int /\ v % d \in 0 .. d - 1
  OBVIOUS
<1>2. v - d * (v \div d) = v % d
  OBVIOUS
<1>3. d * (v \div d) = (v \div d) * d /\ d * (v \div d) \in Int
  BY <1>1
<1>4. v \div d \in Nat
  OBVIOUS
<1> DEFINE a == d * (v \div d)
           b == v % d
           c == (v \div d) * d
<1>5. a \in Int /\ b \in Int /\ v - a = b /\ a = c
  BY <1>1, <1>2, <1>3
<1>6. v = c + b
  <2> HIDE DEF a, b, c
  <2> QED
    BY <1>5
<1> QED
  BY <1>1, <1>4, <1>6, Zenon

\* There is one quotient and one remainder.
LEMMA DivisionUnique ==
  ASSUME NEW d \in Nat \ {0}, NEW t \in Nat, NEW r \in 0 .. d - 1
  PROVE  (t * d + r) \div d = t /\ (t * d + r) % d = r
<1>1. d * t = t * d
  OBVIOUS
<1>2. ASSUME NEW v \in Nat, v = d * t + r PROVE v \div d = t /\ v % d = r
  BY <1>2
<1>3. t * d + r \in Nat /\ t * d + r = d * t + r
  BY <1>1
<1> QED
  BY <1>2, <1>3

\* To divide twice is to divide by the product.
LEMMA DivDiv ==
  ASSUME NEW v \in Nat, NEW p \in Nat \ {0}, NEW b \in Nat \ {0}
  PROVE  (v \div p) \div b = v \div (p * b)
<1> DEFINE q == v \div p
           r == v % p
           t == q \div b
           s == q % b
<1>1. q \in Nat /\ r \in 0 .. p - 1 /\ v = q * p + r
  BY Division
<1>2. t \in Nat /\ s \in 0 .. b - 1 /\ q = t * b + s
  BY <1>1, Division
<1> HIDE DEF q, r, t, s
<1>3. v = t * (p * b) + (s * p + r)
  <2>1. q * p = (t * b) * p + s * p
    BY <1>2
  <2>2. (t * b) * p = t * (p * b)
    BY <1>2
  <2> QED
    BY <1>1, <1>2, <2>1, <2>2
<1>4. s * p + r \in 0 .. p * b - 1 /\ p * b \in Nat \ {0}
  <2>1. p * b \in Nat \ {0}
    OBVIOUS
  <2>2. s * p <= (b - 1) * p
    BY <1>2
  <2>3. (b - 1) * p = p * b - p
    OBVIOUS
  <2>4. s * p \in Nat
    BY <1>2
  <2> QED
    BY <1>1, <2>1, <2>2, <2>3, <2>4
<1>5. v \div (p * b) = t
  <2> DEFINE d == p * b
             u == s * p + r
  <2>1. d \in Nat \ {0} /\ u \in 0 .. d - 1 /\ v = t * d + u
    BY <1>3, <1>4
  <2> HIDE DEF d, u
  <2>2. (t * d + u) \div d = t
    BY <1>2, <2>1, DivisionUnique
  <2> QED
    BY <2>1, <2>2 DEF d
<1> QED
  BY <1>5 DEF t, q

\* A power is greater than its exponent.
LEMMA PowerIsGreater ==
  ASSUME NEW base \in Nat \ {0, 1}, NEW n \in Nat
  PROVE  Power(base, n) \in Nat /\ Power(base, n) > n
<1> DEFINE S == {i \in 0 .. n : Power(base, i) > i}
<1>1. 0 \in S
  BY PowerStep
<1>2. \A i \in 0 .. n - 1 : i \in S => i + 1 \in S
  <2> SUFFICES ASSUME NEW i \in 0 .. n - 1, Power(base, i) > i PROVE Power(base, i + 1) > i + 1
    OBVIOUS
  <2>1. Power(base, i) \in Nat /\ Power(base, i + 1) = Power(base, i) * base
    BY PowerStep
  <2>2. ASSUME NEW p \in Nat, p > i PROVE p * base > i + 1
    <3>1. p * base >= p * 2
      OBVIOUS
    <3>2. p * 2 = p + p
      OBVIOUS
    <3>3. p * base \in Nat
      OBVIOUS
    <3> QED
      BY <2>2, <3>1, <3>2, <3>3
  <2> QED
    BY <2>1, <2>2
<1>3. \A i \in 0 .. n : i \in S
  <2> HIDE DEF S
  <2> QED
    BY <1>1, <1>2, UpTo
<1>4. Power(base, n) \in Nat
  BY PowerStep
<1> QED
  BY <1>3, <1>4

\* A number by a power of the base is the one by the power before, by the base.
LEMMA DivPower ==
  ASSUME NEW base \in Nat \ {0, 1}, NEW v \in Nat, NEW k \in Nat
  PROVE  /\ v \div Power(base, k) \in Nat
         /\ v \div Power(base, k + 1) = (v \div Power(base, k)) \div base
         /\ v \div Power(base, 0) = v
         /\ v < Power(base, k) => v \div Power(base, k) = 0
<1>1. Power(base, k) \in Nat \ {0} /\ Power(base, k + 1) = Power(base, k) * base
  BY PowerStep, PowerIsGreater
<1>2. v \div Power(base, k) \in Nat
  BY <1>1, Division
<1>3. (v \div Power(base, k)) \div base = v \div (Power(base, k) * base)
  <2>1. base \in Nat \ {0}
    OBVIOUS
  <2> QED
    BY <1>1, <2>1, DivDiv
<1>4. v \div Power(base, 0) = v
  <2>1. Power(base, 0) = 1
    BY PowerStep
  <2>2. v \div 1 = v
    OBVIOUS
  <2> QED
    BY <2>1, <2>2
<1>5. ASSUME NEW p \in Nat \ {0}, v < p PROVE v \div p = 0
  BY <1>5
<1> QED
  BY <1>1, <1>2, <1>3, <1>4, <1>5

\* Digits of a number.
LEMMA DigitType ==
  ASSUME NEW base \in Nat \ {0, 1}, NEW v \in Nat, NEW k \in Nat
  PROVE  DigitOf(base, v, k) \in 0 .. base - 1
<1>1. v \div Power(base, k) \in Nat
  BY DivPower
<1>2. \A u \in Nat : u % base \in 0 .. base - 1
  OBVIOUS
<1> QED
  BY <1>1, <1>2 DEF DigitOf

\* As many digits as it needs give a number again.
LEMMA ValueOfDigits ==
  ASSUME NEW base \in Nat \ {0, 1}, NEW n \in Nat, NEW v \in Nat, v < Power(base, n)
  PROVE  LET digits == [i \in 1 .. n |-> DigitOf(base, v, n - i)]
         IN  /\ digits \in Seq(0 .. base - 1) /\ Len(digits) = n
             /\ ValueIn(base, digits) = v
<1>0. \A j \in Nat : /\ v \div Power(base, j) \in Nat
                      /\ v \div Power(base, j + 1) = (v \div Power(base, j)) \div base
  BY DivPower, ZenonT(30)
<1> DEFINE digits == [i \in 1 .. n |-> DigitOf(base, v, n - i)]
           U == [i \in 0 .. n |-> v \div Power(base, n - i)]
<1>1. digits \in Seq(0 .. base - 1) /\ Len(digits) = n /\ digits \in Seq(Nat)
  <2>1. \A i \in 1 .. n : n - i \in Nat
    OBVIOUS
  <2>2. \A i \in 1 .. n : DigitOf(base, v, n - i) \in 0 .. base - 1
    BY <2>1, DigitType
  <2>3. digits \in [1 .. n -> 0 .. base - 1] /\ digits \in [1 .. n -> Nat]
    BY <2>2
  <2> HIDE DEF digits
  <2> QED
    BY <2>3
<1>2. U[0] = 0 /\ U[n] = v
  <2>1. U[0] = v \div Power(base, n) /\ U[n] = v \div Power(base, 0)
    <3>1. n - 0 = n /\ n - n = 0 /\ 0 \in 0 .. n /\ n \in 0 .. n
      OBVIOUS
    <3> QED
      BY <3>1
  <2> QED
    BY <2>1, DivPower
<1>3. \A i \in 1 .. n : U[i] = U[i - 1] * base + digits[i]
  <2> SUFFICES ASSUME NEW i \in 1 .. n PROVE U[i] = U[i - 1] * base + digits[i]
    OBVIOUS
  <2> DEFINE k == n - i
             q == v \div Power(base, k)
  <2>1. k \in Nat /\ n - (i - 1) = k + 1 /\ i - 1 \in 0 .. n /\ i \in 0 .. n
    OBVIOUS
  <2>2. U[i] = q /\ U[i - 1] = v \div Power(base, k + 1) /\ digits[i] = q % base
    BY <2>1 DEF DigitOf
  <2> HIDE DEF k
  <2>3. q \in Nat /\ v \div Power(base, k + 1) = q \div base
    <3>1. v \div Power(base, k) \in Nat
      BY <1>0, <2>1, ZenonT(30)
    <3>2. v \div Power(base, k + 1) = (v \div Power(base, k)) \div base
      BY <1>0, <2>1, ZenonT(30)
    <3> QED
      BY <3>1, <3>2, Zenon DEF q
  <2> HIDE DEF q, U, digits
  <2>4. q = (q \div base) * base + (q % base)
    BY <2>3, Division
  <2> QED
    BY <2>2, <2>3, <2>4
<1>4. ValueIn(base, digits) = U[n]
  <2>1. base \in Nat /\ digits \in Seq(Nat) /\ n = Len(digits)
    BY <1>1
  <2>2. \A i \in 0 .. n : U[i] \in Nat
    <3> SUFFICES ASSUME NEW i \in 0 .. n PROVE v \div Power(base, n - i) \in Nat
      OBVIOUS
    <3>1. n - i \in Nat
      OBVIOUS
    <3> QED
      BY <3>1, DivPower
  <2> HIDE DEF U, digits
  <2>3. ValueSteps(U, base, digits, n)
    BY <1>2, <1>3, <2>2 DEF ValueSteps
  <2> QED
    BY <2>1, <2>3, ValueIs
<1> QED
  BY <1>1, <1>2, <1>4

\* The digits of the number digits stand for are these digits.
LEMMA DigitsOfValue ==
  ASSUME NEW base \in Nat \ {0, 1}, NEW digits \in Seq(0 .. base - 1),
         NEW n \in Nat, n = Len(digits), NEW v, v = ValueIn(base, digits)
  PROVE  /\ v \in Nat /\ v < Power(base, n)
         /\ \A i \in 1 .. n : DigitOf(base, v, n - i) = digits[i]
         /\ n > 0 /\ digits[1] # 0 => Power(base, n - 1) <= v
<1>0. base \in Nat /\ digits \in Seq(Nat) /\ \A i \in 1 .. n : digits[i] \in 0 .. base - 1
  <2>1. \A i \in 1 .. n : digits[i] \in 0 .. base - 1
    BY ElementOfSeq
  <2>2. digits \in [1 .. n -> Nat]
    BY <2>1
  <2> QED
    BY <2>1, <2>2
<1>1. PICK T : ValueSteps(T, base, digits, n) /\ v = T[n]
  BY <1>0, ValueTrace
<1>2. /\ T[0] = 0
      /\ \A i \in 1 .. n : T[i] = T[i - 1] * base + digits[i]
      /\ \A i \in 0 .. n : T[i] \in Nat
  BY <1>1 DEF ValueSteps
<1>3. \A i \in 0 .. n : T[i] < Power(base, i)
  <2> DEFINE S == {i \in 0 .. n : T[i] < Power(base, i)}
  <2>1. 0 \in S
    <3>1. Power(base, 0) = 1
      BY <1>0, PowerStep
    <3> QED
      BY <1>2, <3>1
  <2>2. \A i \in 0 .. n - 1 : i \in S => i + 1 \in S
    <3> SUFFICES ASSUME NEW i \in 0 .. n - 1, T[i] < Power(base, i)
                 PROVE  T[i + 1] < Power(base, i + 1)
      OBVIOUS
    <3>1. i + 1 \in 1 .. n /\ (i + 1) - 1 = i /\ i \in 0 .. n
      OBVIOUS
    <3>2. T[i + 1] = T[i] * base + digits[i + 1] /\ digits[i + 1] \in 0 .. base - 1 /\ T[i] \in Nat
      BY <1>0, <1>2, <3>1
    <3>3. Power(base, i) \in Nat /\ Power(base, i + 1) = Power(base, i) * base
      BY <1>0, <3>1, PowerStep
    <3>4. ASSUME NEW t \in Nat, NEW p \in Nat, t < p, NEW d \in 0 .. base - 1
          PROVE  t * base + d < p * base
      <4>1. (t + 1) * base <= p * base
        BY <3>4
      <4>2. (t + 1) * base = t * base + base
        OBVIOUS
      <4>3. t * base \in Nat /\ p * base \in Nat
        OBVIOUS
      <4> QED
        BY <4>1, <4>2, <4>3
    <3> QED
      BY <3>2, <3>3, <3>4
  <2>3. \A i \in 0 .. n : i \in S
    <3> HIDE DEF S
    <3> QED
      BY <2>1, <2>2, UpTo
  <2> QED
    BY <2>3
<1>4. \A i \in 1 .. n : T[i] \div base = T[i - 1] /\ T[i] % base = digits[i]
  <2> SUFFICES ASSUME NEW i \in 1 .. n PROVE T[i] \div base = T[i - 1] /\ T[i] % base = digits[i]
    OBVIOUS
  <2>1. T[i] = T[i - 1] * base + digits[i] /\ T[i - 1] \in Nat /\ digits[i] \in 0 .. base - 1
    BY <1>0, <1>2
  <2>2. base \in Nat \ {0}
    OBVIOUS
  <2>3. /\ (T[i - 1] * base + digits[i]) \div base = T[i - 1]
        /\ (T[i - 1] * base + digits[i]) % base = digits[i]
    BY <2>1, <2>2, DivisionUnique
  <2> QED
    BY <2>1, <2>3
<1>5. \A k \in 0 .. n : v \div Power(base, k) = T[n - k]
  <2> DEFINE S == {k \in 0 .. n : v \div Power(base, k) = T[n - k]}
  <2>1. 0 \in S
    <3>1. v \in Nat /\ n - 0 = n
      BY <1>1, <1>2
    <3>2. v \div Power(base, 0) = v
      BY <3>1, DivPower
    <3> QED
      BY <1>1, <3>1, <3>2
  <2>2. \A k \in 0 .. n - 1 : k \in S => k + 1 \in S
    <3> SUFFICES ASSUME NEW k \in 0 .. n - 1, v \div Power(base, k) = T[n - k]
                 PROVE  v \div Power(base, k + 1) = T[n - (k + 1)]
      OBVIOUS
    <3>1. v \in Nat /\ k \in Nat
      BY <1>1, <1>2
    <3>2. v \div Power(base, k + 1) = (v \div Power(base, k)) \div base
      BY <3>1, DivPower
    <3>3. n - k \in 1 .. n /\ (n - k) - 1 = n - (k + 1)
      OBVIOUS
    <3> QED
      BY <1>4, <3>2, <3>3
  <2>3. \A k \in 0 .. n : k \in S
    <3> HIDE DEF S
    <3> QED
      BY <2>1, <2>2, UpTo
  <2> QED
    BY <2>3
<1>6. \A i \in 1 .. n : DigitOf(base, v, n - i) = digits[i]
  <2> SUFFICES ASSUME NEW i \in 1 .. n PROVE DigitOf(base, v, n - i) = digits[i]
    OBVIOUS
  <2>1. n - i \in 0 .. n /\ n - (n - i) = i
    OBVIOUS
  <2> QED
    BY <1>4, <1>5, <2>1 DEF DigitOf
<1>7. ASSUME n > 0, digits[1] # 0 PROVE Power(base, n - 1) <= v
  <2> DEFINE m == n - 1
  <2>1. m \in Nat /\ m \in 0 .. n /\ n - m = 1 /\ 1 \in 1 .. n
    BY <1>7
  <2>2. T[1] = T[0] * base + digits[1] /\ T[1] \in Nat /\ digits[1] \in 0 .. base - 1
    <3>1. 1 - 1 = 0
      OBVIOUS
    <3> QED
      BY <1>0, <1>2, <2>1, <3>1
  <2>3. T[1] # 0
    BY <1>2, <1>7, <2>2
  <2>4. v \div Power(base, m) = T[1]
    BY <1>5, <2>1
  <2> HIDE DEF m
  <2>5. ASSUME v < Power(base, m) PROVE FALSE
    <3>1. v \in Nat
      BY <1>1, <1>2
    <3>2. v \div Power(base, m) = 0
      BY <2>1, <2>5, <3>1, DivPower
    <3> QED
      BY <2>3, <2>4, <3>2
  <2>6. Power(base, m) \in Nat /\ v \in Nat
    BY <1>1, <1>2, <2>1, PowerStep
  <2>7. Power(base, m) <= v
    BY <2>5, <2>6
  <2> QED
    BY <2>7 DEF m
<1> QED
  BY <1>1, <1>2, <1>3, <1>6, <1>7

-----------------------------------------------------------------------------
(* Bytes and their readers. *)

Byte == 0 .. Base - 1

\* The base of a byte is large enough for what its numbers are used for.
LEMMA BaseType ==
  /\ Base \in Nat \ {0, 1} /\ Base > 10
  /\ HashSize \in Nat \ {0} /\ BodySize \in Nat \ {0} /\ NumSize \in Nat \ {0}
  /\ 2 * NumSize + 8 < Base /\ HashSize + 9 < Base /\ BodySize < Base
BY EncodingAssumption

\* What stands in front, and what comes behind it.
LEMMA FrontOff ==
  ASSUME NEW S, NEW s \in Seq(S), NEW x \in Seq(S)
  PROVE  First(s \o x, Len(s)) = s /\ Drop(s \o x, Len(s)) = x
<1>1. s \o x \in Seq(S) /\ Len(s \o x) = Len(s) + Len(x) /\ Len(s) \in Nat /\ Len(x) \in Nat
  BY ConcatProperties
<1>2. First(s \o x, Len(s)) = SubSeq(s \o x, 1, Len(s))
  <2>1. (IF Len(s) < Len(s \o x) THEN Len(s) ELSE Len(s \o x)) = Len(s)
    BY <1>1
  <2> QED
    BY <2>1 DEF First
<1>3. SubSeq(s \o x, 1, Len(s)) = s
  <2>1. SubSeq(s \o x, 1, Len(s)) = SubSeq(s, 1, Len(s))
    BY <1>1, SubSeqOfConcat1
  <2> QED
    BY <2>1, SubSeqFull
<1>4. SubSeq(s \o x, Len(s) + 1, Len(s \o x)) = x
  <2>1. SubSeq(s \o x, Len(s) + 1, Len(s \o x)) = SubSeq(x, 1, Len(x))
    BY <1>1, SubSeqOfConcat2
  <2> QED
    BY <2>1, SubSeqFull
<1> QED
  BY <1>2, <1>3, <1>4 DEF Drop

\* Bytes as they are.
LEMMA RawRead ==
  ASSUME NEW S, NEW s \in Seq(S), NEW x \in Seq(S), NEW n, n = Len(s)
  PROVE  Raw(n, s \o x) = Got(s, x)
BY FrontOff DEF Raw

\* The bytes of a number.
LEMMA LittleEndianType ==
  ASSUME NEW v \in Nat, NEW n \in Nat
  PROVE  LittleEndian(v, n) \in Seq(Byte) /\ Len(LittleEndian(v, n)) = n
<1>1. \A i \in 1 .. n : DigitOf(Base, v, i - 1) \in Byte
  <2> SUFFICES ASSUME NEW i \in 1 .. n PROVE DigitOf(Base, v, i - 1) \in Byte
    OBVIOUS
  <2>1. i - 1 \in Nat
    OBVIOUS
  <2> QED
    BY <2>1, BaseType, DigitType DEF Byte
<1>2. LittleEndian(v, n) \in [1 .. n -> Byte]
  BY <1>1 DEF LittleEndian
<1> QED
  BY <1>2

\* A number of a fixed size.
LEMMA FixedRead ==
  ASSUME NEW n \in Nat, NEW v \in Nat, v < Power(Base, n), NEW x \in Seq(Byte)
  PROVE  Fixed(n, LittleEndian(v, n) \o x) = Got(v, x)
<1> DEFINE s == LittleEndian(v, n)
           digits == [i \in 1 .. n |-> DigitOf(Base, v, n - i)]
<1>1. s \in Seq(Byte) /\ Len(s) = n
  BY LittleEndianType
<1>2. Reverse(s) = digits
  <2>1. \A i \in 1 .. n : s[(n - i) + 1] = DigitOf(Base, v, n - i)
    <3> SUFFICES ASSUME NEW i \in 1 .. n PROVE s[(n - i) + 1] = DigitOf(Base, v, n - i)
      OBVIOUS
    <3>1. (n - i) + 1 \in 1 .. n /\ ((n - i) + 1) - 1 = n - i
      OBVIOUS
    <3> QED
      BY <3>1 DEF LittleEndian
  <2>2. Reverse(s) = [i \in 1 .. n |-> s[(n - i) + 1]]
    BY <1>1, Zenon DEF Reverse
  <2> HIDE DEF s
  <2> QED
    BY <2>1, <2>2
<1>3. ValueIn(Base, digits) = v
  BY BaseType, ValueOfDigits
<1> HIDE DEF s, digits
<1>4. First(s \o x, n) = s /\ Drop(s \o x, n) = x
  BY <1>1, FrontOff
<1>5. Fixed(n, s \o x) = Got(v, x)
  BY <1>2, <1>3, <1>4 DEF Fixed, Number
<1> QED
  BY <1>5 DEF s

\* The bytes of numbers joined to others.
LEMMA ByteFront ==
  ASSUME NEW b \in Byte, NEW x \in Seq(Byte)
  PROVE  /\ <<b>> \o x \in Seq(Byte) /\ ByteAt(<<b>> \o x, 1) = b
         /\ Drop(<<b>> \o x, 1) = x
<1>1. <<b>> \in Seq(Byte) /\ Len(<<b>>) = 1
  OBVIOUS
<1>2. <<b>> \o x \in Seq(Byte) /\ Drop(<<b>> \o x, 1) = x
  BY <1>1, FrontOff, ConcatProperties
<1>3. 1 \in DOMAIN (<<b>> \o x) /\ (<<b>> \o x)[1] = b
  BY <1>1, ConcatProperties
<1> QED
  BY <1>2, <1>3 DEF ByteAt

\* A number of one byte.
LEMMA ByteRead ==
  ASSUME NEW b \in Byte, NEW x \in Seq(Byte)
  PROVE  Fixed(1, <<b>> \o x) = Got(b, x)
<1>1. b \in Nat /\ b < Base /\ Base \in Nat
  BY BaseType DEF Byte
<1>2. Power(Base, 0) = 1 /\ Power(Base, 1) = Base
  <2>1. Power(Base, 0 + 1) = Power(Base, 0) * Base /\ Power(Base, 0) = 1
    BY <1>1, PowerStep
  <2>2. 0 + 1 = 1 /\ 1 * Base = Base
    BY <1>1
  <2> QED
    BY <2>1, <2>2
<1>3. LittleEndian(b, 1) = <<b>>
  <2>1. DigitOf(Base, b, 0) = b
    <3>1. b \div 1 = b /\ b % Base = b
      BY <1>1
    <3> QED
      BY <1>2, <3>1 DEF DigitOf
  <2>2. LittleEndian(b, 1) = [i \in 1 .. 1 |-> DigitOf(Base, b, i - 1)]
    BY DEF LittleEndian
  <2>3. \A i \in 1 .. 1 : DigitOf(Base, b, i - 1) = b
    BY <2>1
  <2> QED
    BY <2>2, <2>3
<1> QED
  BY <1>1, <1>2, <1>3, FixedRead

\* The first powers of the base.
LEMMA FirstPowers ==
  /\ Power(Base, 2) \in Nat /\ Power(Base, 4) \in Nat /\ Power(Base, 8) \in Nat
  /\ Base < Power(Base, 2) /\ Power(Base, 2) < Power(Base, 4) /\ Power(Base, 4) < Power(Base, 8)
<1>1. Base \in Nat \ {0, 1} /\ Base \in Nat
  BY BaseType
<1>2. ASSUME NEW n \in Nat
      PROVE  /\ Power(Base, n) \in Nat /\ Power(Base, n) > 0
             /\ Power(Base, n + 1) \in Nat /\ Power(Base, n) < Power(Base, n + 1)
  <2>1. Power(Base, n) \in Nat /\ Power(Base, n) > n /\ Power(Base, n + 1) = Power(Base, n) * Base
    BY <1>1, PowerStep, PowerIsGreater
  <2>2. ASSUME NEW p \in Nat, p > 0 PROVE p * Base > p /\ p * Base \in Nat
    BY <1>1, <2>2
  <2> QED
    BY <2>1, <2>2
<1>3. ASSUME NEW m \in Nat, NEW n \in Nat, n = m + 1
      PROVE  Power(Base, m) \in Nat /\ Power(Base, n) \in Nat /\ Power(Base, m) < Power(Base, n)
  BY <1>2, <1>3
<1>4. /\ Power(Base, 1) \in Nat /\ Power(Base, 1) = Base
      /\ Power(Base, 2) \in Nat /\ Power(Base, 1) < Power(Base, 2)
  <2>1. Power(Base, 0 + 1) = Power(Base, 0) * Base /\ Power(Base, 0) = 1
    BY <1>1, PowerStep
  <2>2. 0 + 1 = 1 /\ 1 * Base = Base /\ 1 + 1 = 2
    BY <1>1
  <2> QED
    BY <1>3, <2>1, <2>2
<1>5. Power(Base, 3) \in Nat /\ Power(Base, 2) < Power(Base, 3)
  BY <1>3
<1>6. Power(Base, 4) \in Nat /\ Power(Base, 3) < Power(Base, 4)
  BY <1>3
<1>7. Power(Base, 5) \in Nat /\ Power(Base, 4) < Power(Base, 5)
  BY <1>3
<1>8. Power(Base, 6) \in Nat /\ Power(Base, 5) < Power(Base, 6)
  BY <1>3
<1>9. Power(Base, 7) \in Nat /\ Power(Base, 6) < Power(Base, 7)
  BY <1>3
<1>10. Power(Base, 8) \in Nat /\ Power(Base, 7) < Power(Base, 8)
  BY <1>3
<1> QED
  BY <1>4, <1>5, <1>6, <1>7, <1>8, <1>9, <1>10

\* A number behind its marker.
LEMMA MarkedRead ==
  ASSUME NEW v \in Nat, NEW x \in Seq(Byte), SizeOf(v) - 1 \in 1 .. 8,
         Marker(SizeOf(v)) \in Byte, Following(Marker(SizeOf(v))) = SizeOf(v) - 1,
         v < Power(Base, SizeOf(v) - 1), SizeOf(v) # 1
  PROVE  /\ VarIntEncode(v) \in Seq(Byte) /\ Len(VarIntEncode(v)) \in 1 .. 9
         /\ VarInt(VarIntEncode(v) \o x) = Got(v, x)
<1> DEFINE n == SizeOf(v) - 1
           m == Marker(SizeOf(v))
           s == VarIntEncode(v)
           t == LittleEndian(v, n)
<1>0. /\ m \in Byte /\ n \in 1 .. 8 /\ n \in Nat /\ Following(m) = n /\ v < Power(Base, n)
      /\ s = <<m>> \o LittleEndian(v, n)
  BY DEF VarIntEncode
<1> HIDE DEF n, m, s
<1>1. t \in Seq(Byte) /\ Len(t) = n
  BY <1>0, LittleEndianType
<1> HIDE DEF t
<1>2. t \o x \in Seq(Byte) /\ <<m>> \in Seq(Byte) /\ Len(<<m>>) = 1
  BY <1>0, <1>1, ConcatProperties
<1>3. s \in Seq(Byte) /\ Len(s) \in 1 .. 9
  BY <1>0, <1>1, <1>2, ConcatProperties DEF t
<1>4. s \o x = <<m>> \o (t \o x)
  BY <1>0, <1>1, <1>2, ConcatAssociative DEF t
<1>5. ByteAt(s \o x, 1) = m /\ Drop(s \o x, 1) = t \o x
  BY <1>0, <1>2, <1>4, ByteFront
<1>6. Fixed(n, t \o x) = Got(v, x)
  BY <1>0, FixedRead DEF t
<1>7. VarInt(s \o x) = Fixed(n, t \o x)
  <2>1. Following(ByteAt(s \o x, 1)) = n /\ n # 0
    BY <1>0, <1>5
  <2> QED
    BY <1>5, <2>1, Zenon DEF VarInt
<1> USE DEF s
<1> QED
  BY <1>3, <1>6, <1>7

\* A variable-length integer is read as it was written.
LEMMA VarIntRead ==
  ASSUME NEW v \in Nat, v < Power(Base, 8), NEW x \in Seq(Byte)
  PROVE  /\ VarIntEncode(v) \in Seq(Byte) /\ Len(VarIntEncode(v)) \in 1 .. 9
         /\ VarInt(VarIntEncode(v) \o x) = Got(v, x)
<1>1. /\ Base - 3 \in Byte /\ Base - 2 \in Byte /\ Base - 1 \in Byte
      /\ Following(Base - 3) = 2 /\ Following(Base - 2) = 4 /\ Following(Base - 1) = 8
  <2>1. Base \in Nat /\ Base > 10
    BY EncodingAssumption
  <2>2. Base - 3 \in Byte /\ Base - 2 \in Byte /\ Base - 1 \in Byte
    BY <2>1 DEF Byte
  <2>3. Base - 2 # Base - 3 /\ Base - 1 # Base - 3 /\ Base - 1 # Base - 2
    BY <2>1
  <2>4. Following(Base - 3) = 2
    BY <2>3, Zenon DEF Following
  <2>5. Following(Base - 2) = 4
    BY <2>3, Zenon DEF Following
  <2>6. Following(Base - 1) = 8
    BY <2>3, Zenon DEF Following
  <2> QED
    BY <2>2, <2>4, <2>5, <2>6
<1>2. CASE v < Base - 3
  <2>0. 0 <= v /\ v < Base - 3 /\ ~(Base - 3 <= v) /\ ~(Power(Base, 2) <= v)
    BY <1>2, BaseType, FirstPowers
  <2>a. SizeOf(v) = 1
    BY <2>0, Zenon DEF SizeOf
  <2>1. VarIntEncode(v) = <<v>>
    BY <2>a DEF VarIntEncode
  <2>2. v \in Byte /\ Following(v) = 0
    BY <1>2, BaseType DEF Byte, Following
  <2>3. <<v>> \in Seq(Byte) /\ Len(<<v>>) = 1
    BY <2>2
  <2>4. ByteAt(<<v>> \o x, 1) = v /\ Drop(<<v>> \o x, 1) = x
    BY <2>2, ByteFront
  <2>5. VarInt(<<v>> \o x) = Got(v, x)
    BY <2>2, <2>4 DEF VarInt
  <2> QED
    BY <2>1, <2>3, <2>5
<1>3. CASE v >= Base - 3 /\ v < Power(Base, 2)
  <2>0. Base - 3 <= v /\ v < Power(Base, 2) /\ ~(v < Base - 3) /\ ~(Power(Base, 2) <= v)
    BY <1>3, BaseType, FirstPowers
  <2>1. SizeOf(v) = 3
    BY <2>0, Zenon DEF SizeOf
  <2>2. /\ SizeOf(v) - 1 = 2 /\ Marker(SizeOf(v)) = Base - 3
        /\ v < Power(Base, SizeOf(v) - 1) /\ SizeOf(v) # 1 /\ SizeOf(v) - 1 \in 1 .. 8
    BY <1>3, <2>1 DEF Marker
  <2> QED
    BY <1>1, <2>2, MarkedRead
<1>4. CASE v >= Power(Base, 2) /\ v < Power(Base, 4)
  <2>0. Power(Base, 2) <= v /\ v < Power(Base, 4) /\ ~(v < Base - 3) /\ ~(v < Power(Base, 2))
    BY <1>4, BaseType, FirstPowers
  <2>1. SizeOf(v) = 5
    BY <2>0, Zenon DEF SizeOf
  <2>2. /\ SizeOf(v) - 1 = 4 /\ Marker(SizeOf(v)) = Base - 2
        /\ v < Power(Base, SizeOf(v) - 1) /\ SizeOf(v) # 1 /\ SizeOf(v) - 1 \in 1 .. 8
    BY <1>4, <2>1 DEF Marker
  <2> QED
    BY <1>1, <2>2, MarkedRead
<1>5. CASE v >= Power(Base, 4)
  <2>0. ~(v < Base - 3) /\ ~(v < Power(Base, 2)) /\ ~(v < Power(Base, 4))
    BY <1>5, BaseType, FirstPowers
  <2>1. SizeOf(v) = 9
    BY <2>0, Zenon DEF SizeOf
  <2>2. /\ SizeOf(v) - 1 = 8 /\ Marker(SizeOf(v)) = Base - 1
        /\ v < Power(Base, SizeOf(v) - 1) /\ SizeOf(v) # 1 /\ SizeOf(v) - 1 \in 1 .. 8
    BY <1>5, <2>1 DEF Marker
  <2> QED
    BY <1>1, <2>2, MarkedRead
<1> QED
  BY <1>2, <1>3, <1>4, <1>5, BaseType, FirstPowers

\* What a reader has got.
LEMMA GotFields ==
  ASSUME NEW v, NEW r PROVE Got(v, r).value = v /\ Got(v, r).rest = r
BY DEF Got

\* Bytes behind their length.
LEMMA WithLengthRead ==
  ASSUME NEW s \in Seq(Byte), Len(s) < Power(Base, 8), NEW x \in Seq(Byte)
  PROVE  /\ GetBytesWithLength(s) \in Seq(Byte) /\ Len(GetBytesWithLength(s)) > 0
         /\ WithLength(GetBytesWithLength(s) \o x) = Got(s, x)
<1> DEFINE n == Len(s)
           size == VarIntEncode(n)
<1>1. n \in Nat /\ n < Power(Base, 8) /\ s \o x \in Seq(Byte)
  BY ConcatProperties
<1> HIDE DEF n
<1>2. size \in Seq(Byte) /\ Len(size) \in 1 .. 9 /\ VarInt(size \o (s \o x)) = Got(n, s \o x)
  BY <1>1, VarIntRead
<1> HIDE DEF size
<1>3. GetBytesWithLength(s) = size \o s
  BY DEF GetBytesWithLength, size, n
<1>4. size \o s \in Seq(Byte) /\ Len(size \o s) = Len(size) + n /\ (size \o s) \o x = size \o (s \o x)
  BY <1>2, ConcatProperties, ConcatAssociative DEF n
<1>5. Raw(n, s \o x) = Got(s, x)
  BY RawRead DEF n
<1>6. WithLength(size \o (s \o x)) = Raw(n, s \o x)
  BY <1>2, GotFields DEF WithLength
<1>7. Len(size) + n > 0
  <2>1. \A k \in 1 .. 9 : k + n > 0
    BY <1>1
  <2> QED
    BY <1>2, <2>1
<1>8. WithLength((size \o s) \o x) = Got(s, x)
  BY <1>4, <1>5, <1>6
<1> QED
  BY <1>3, <1>4, <1>7, <1>8
-----------------------------------------------------------------------------
(* The numbers of signatures. *)

Loop == [going : BOOLEAN, r : Seq(Byte)]
Start(number) == [going |-> TRUE, r |-> number]
Turns == [i \in 1 .. NumSize |-> i]

\* A turn leaves a flag and bytes.
LEMMA TurnType ==
  ASSUME NEW loop \in Loop, NEW i \in Nat \ {0}
  PROVE  Turn(loop, i) \in Loop
<1>1. loop.r \in Seq(Byte) /\ Len(loop.r) \in Nat
  BY DEF Loop
<1>2. CASE ~loop.going
  <2>1. Turn(loop, i) = loop
    BY <1>2, Zenon DEF Turn
  <2> QED
    BY <2>1
<1>3. CASE loop.going /\ (i > Len(loop.r) \/ (i = Len(loop.r) /\ loop.r[i] = 0))
  <2>1. Turn(loop, i) = [going |-> FALSE, r |-> Panic]
    <3>1. ~(i < Len(loop.r))
      BY <1>1, <1>3
    <3> QED
      BY <1>3, <3>1, Zenon DEF Turn
  <2> QED
    BY <2>1 DEF Loop, Panic
<1>4. CASE loop.going /\ i < Len(loop.r) /\ Redundant(loop.r, i)
  <2>1. Turn(loop, i) = [going |-> TRUE, r |-> Tail(loop.r)]
    <3>1. ~(i > Len(loop.r)) /\ i # Len(loop.r)
      BY <1>1, <1>4
    <3> QED
      BY <1>4, <3>1, Zenon DEF Turn
  <2>2. Tail(loop.r) \in Seq(Byte)
    <3>1. loop.r # <<>>
      BY <1>1, <1>4
    <3> QED
      BY <1>1, <3>1, HeadTailProperties
  <2> QED
    BY <2>1, <2>2 DEF Loop
<1>5. CASE /\ loop.going
           /\ ~(i > Len(loop.r) \/ (i = Len(loop.r) /\ loop.r[i] = 0))
           /\ ~(i < Len(loop.r) /\ Redundant(loop.r, i))
  <2>1. Turn(loop, i) = [going |-> FALSE, r |-> loop.r]
    BY <1>5, Zenon DEF Turn
  <2> QED
    BY <1>1, <2>1 DEF Loop
<1> QED
  BY <1>2, <1>3, <1>4, <1>5

\* The turns of the loop.
StripSteps(T, number, n) ==
    /\ T[0] = Start(number)
    /\ \A i \in 1 .. n : T[i] = Turn(T[i - 1], Turns[i])
    /\ \A i \in 0 .. n : T[i] \in Loop

\* Strip makes one turn after the other.
LEMMA StripTrace ==
  ASSUME NEW number \in Seq(Byte), NEW n \in Nat, n = NumSize
  PROVE  \E T : StripSteps(T, number, n) /\ Strip(number) = T[n].r
<1>0. NumSize \in Nat
  BY BaseType
<1> DEFINE D == 1 .. n
           R == Loop
           Rec(F) == [s \in SUBSET D |-> IF s = {} THEN Start(number)
                        ELSE Turn(F[s \ {Max(s)}], Turns[Max(s)])]
           Fold == CHOOSE F : F = Rec(F)
           T == [i \in 0 .. n |-> Fold[1 .. i]]
           G == [p \in D \X R |-> Turn(p[2], Turns[p[1]])]
<1>1. Strip(number) = Fold[D].r
  <2>1. DOMAIN Turns = D
    BY DEF Turns
  <2>2. Strip(number) =
          (CHOOSE F : F = [s \in SUBSET (DOMAIN Turns) |->
             IF s = {} THEN [going |-> TRUE, r |-> number]
             ELSE Turn(F[s \ {Max(s)}], Turns[Max(s)])]
          )[DOMAIN Turns].r
    BY Zenon DEF Strip, FoldLeft, MapThenFoldSet, Turns
  <2> HIDE DEF D
  <2> QED
    BY <2>1, <2>2, Zenon DEF Start
<1>2. /\ Start(number) \in R
      /\ \A x \in D, r \in R : Turn(r, Turns[x]) \in R
  BY TurnType DEF Loop, Start, Turns
<1>3. \A x \in D, r \in R : G[<<x, r>>] = Turn(r, Turns[x])
  <2> SUFFICES ASSUME NEW x \in D, NEW r \in R PROVE G[<<x, r>>] = Turn(r, Turns[x])
    OBVIOUS
  <2>1. <<x, r>> \in D \X R /\ <<x, r>>[1] = x /\ <<x, r>>[2] = r
    OBVIOUS
  <2> QED
    BY <2>1, Zenon
<1> HIDE DEF G, R
<1>4. PICK H : FoldsLeft(H, n, R, Start(number), G)
  <2>1. \A x \in D, r \in R : G[<<x, r>>] \in R
    BY <1>2, <1>3
  <2>2. Start(number) \in R /\ \A x \in 1 .. n, r \in R : G[<<x, r>>] \in R
    BY <1>2, <2>1
  <2> QED
    BY <2>2, LeftFold
<1>5. H = Rec(H)
  <2>1. /\ H = [s \in SUBSET D |-> H[s]]
        /\ \A s \in SUBSET D :
             /\ s = {} => H[s] = Start(number)
             /\ s # {} => /\ H[s] = G[<<Max(s), H[s \ {Max(s)}]>>]
                          /\ Max(s) \in D /\ H[s \ {Max(s)}] \in R
    BY <1>4 DEF FoldsLeft
  <2>2. \A s \in SUBSET D : s # {} => H[s] = Turn(H[s \ {Max(s)}], Turns[Max(s)])
    BY <1>3, <2>1
  <2>3. \A s \in SUBSET D : H[s] = IF s = {} THEN Start(number) ELSE Turn(H[s \ {Max(s)}], Turns[Max(s)])
    BY <2>1, <2>2
  <2> QED
    BY <2>1, <2>3
<1>6. Fold = Rec(Fold)
  <2>1. \E F : F = Rec(F)
    BY <1>5
  <2> QED
    BY <2>1, Zenon
<1> HIDE DEF Fold
<1>7. \A s \in SUBSET D : Fold[s] = IF s = {} THEN Start(number) ELSE Turn(Fold[s \ {Max(s)}], Turns[Max(s)])
  <2> SUFFICES ASSUME NEW s \in SUBSET D
               PROVE  Fold[s] = IF s = {} THEN Start(number) ELSE Turn(Fold[s \ {Max(s)}], Turns[Max(s)])
    OBVIOUS
  <2>1. Fold[s] = Rec(Fold)[s]
    BY <1>6, Zenon
  <2> QED
    BY <2>1, Zenon
<1>8. T[0] = Start(number) /\ \A i \in 1 .. n : T[i] = Turn(T[i - 1], Turns[i])
  <2>1. \A i \in 0 .. n : T[i] = Fold[1 .. i]
    OBVIOUS
  <2> HIDE DEF T
  <2>2. T[0] = Start(number)
    <3>1. 1 .. 0 = {} /\ {} \in SUBSET D
      OBVIOUS
    <3>2. Fold[{}] = Start(number)
      BY <1>7, <3>1
    <3> QED
      BY <2>1, <3>1, <3>2
  <2> SUFFICES ASSUME NEW i \in 1 .. n PROVE T[i] = Turn(T[i - 1], Turns[i])
    BY <2>2
  <2>3. 1 .. i # {} /\ Max(1 .. i) = i /\ (1 .. i) \ {i} = 1 .. i - 1 /\ 1 .. i \in SUBSET D
    BY FirstNumbers
  <2>4. Fold[1 .. i] = Turn(Fold[1 .. i - 1], Turns[i])
    BY <1>7, <2>3
  <2>5. T[i] = Fold[1 .. i] /\ T[i - 1] = Fold[1 .. i - 1]
    BY <2>1
  <2> QED
    BY <2>4, <2>5
<1>9. \A i \in 0 .. n : T[i] \in R
  <2> DEFINE S == {i \in 0 .. n : T[i] \in R}
  <2>1. 0 \in S
    BY <1>2, <1>8
  <2>2. \A i \in 0 .. n - 1 : i \in S => i + 1 \in S
    <3> HIDE DEF T, D
    <3> SUFFICES ASSUME NEW i \in 0 .. n - 1, T[i] \in R PROVE T[i + 1] \in R
      OBVIOUS
    <3>1. i + 1 \in 1 .. n /\ (i + 1) - 1 = i
      OBVIOUS
    <3>2. T[i + 1] = Turn(T[i], Turns[i + 1])
      BY <1>8, <3>1
    <3> QED
      BY <1>2, <3>1, <3>2 DEF D
  <2>3. \A i \in 0 .. n : i \in S
    <3> HIDE DEF S
    <3> QED
      BY <2>1, <2>2, UpTo
  <2> QED
    BY <2>3
<1>10. Strip(number) = T[n].r
  BY <1>1
<1> HIDE DEF T
<1> USE DEF R
<1> QED
  BY <1>8, <1>9, <1>10 DEF StripSteps

\* Bytes of a number that is not negative.
Positive(r, n) == r \in Seq(Byte) /\ Len(r) \in 1 .. n /\ ~High(r[1])

\* What i turns leave: as long as the loop goes on the number without its first i bytes,
\* and of each pair of the bytes looked at the first is zero and the second not high.
Stripped(loop, number, n, i) ==
    /\ loop \in Loop
    /\ loop.going => /\ 2 * i <= n /\ Len(loop.r) = n - i
                     /\ \A j \in 1 .. n - i : loop.r[j] = number[i + j]
                     /\ \A j \in 1 .. i : number[2 * j - 1] = 0 /\ ~High(number[2 * j])
    /\ ~loop.going => Positive(loop.r, n)

\* Zero is not high.
LEMMA ZeroIsLow == ~High(0)
<1>1. Base \in Nat /\ Base > 10
  BY EncodingAssumption
<1>2. Base \div 2 > 0
  BY <1>1
<1> QED
  BY <1>1, <1>2 DEF High

\* A turn keeps it so, of a number with a byte at an odd position that is not zero.
LEMMA TurnStrips ==
  ASSUME NEW n \in Nat, NEW number \in Seq(Byte), Len(number) = n, ~High(number[1]),
         NEW h \in Nat \ {0}, 2 * h - 1 <= n, number[2 * h - 1] # 0,
         NEW i \in 0 .. n - 1, NEW loop, Stripped(loop, number, n, i)
  PROVE  Stripped(Turn(loop, i + 1), number, n, i + 1)
<1> DEFINE r == loop.r
           next == Turn(loop, i + 1)
<1>1. loop \in Loop /\ next \in Loop /\ r \in Seq(Byte) /\ Len(r) \in Nat /\ i \in Nat
  <2>1. loop \in Loop /\ i + 1 \in Nat \ {0}
    BY DEF Stripped
  <2>2. next \in Loop
    BY <2>1, TurnType
  <2> QED
    BY <2>1, <2>2 DEF Loop
<1>2. CASE ~loop.going
  <2>1. next = loop
    BY <1>2, Zenon DEF Turn
  <2> HIDE DEF next
  <2>2. Stripped(next, number, n, i + 1)
    BY <1>1, <1>2, <2>1 DEF Stripped
  <2> QED
    BY <2>2 DEF next
<1>3. CASE loop.going
  <2>1. /\ 2 * i <= n /\ Len(r) = n - i
        /\ \A j \in 1 .. n - i : r[j] = number[i + j]
        /\ \A j \in 1 .. i : number[2 * j - 1] = 0 /\ ~High(number[2 * j])
    BY <1>3 DEF Stripped
  <2> HIDE DEF r
  <2>2. h > i
    BY <1>1, <2>1
  <2>3. i + 1 <= Len(r)
    BY <1>1, <2>1, <2>2
  <2>4. r[i + 1] = number[2 * i + 1]
    <3>1. i + 1 \in 1 .. n - i /\ i + (i + 1) = 2 * i + 1
      BY <1>1, <2>1, <2>3
    <3> QED
      BY <2>1, <3>1
  <2>5. i + 1 = Len(r) => r[i + 1] # 0
    <3> SUFFICES ASSUME i + 1 = Len(r) PROVE r[i + 1] # 0
      OBVIOUS
    <3>1. 2 * h - 1 = 2 * i + 1
      BY <1>1, <2>1, <2>2
    <3> QED
      BY <2>4, <3>1
  <2>6. ~(i + 1 > Len(r) \/ (i + 1 = Len(r) /\ r[i + 1] = 0))
    BY <1>1, <2>3, <2>5
  <2>7. CASE i + 1 < Len(r) /\ Redundant(r, i + 1)
    <3>1. next = [going |-> TRUE, r |-> Tail(r)]
      BY <1>3, <2>6, <2>7, Zenon DEF Turn, r
    <3>2. /\ Len(Tail(r)) = Len(r) - 1
          /\ \A j \in 1 .. Len(r) - 1 : Tail(r)[j] = r[j + 1]
      <4>1. r # <<>>
        BY <1>1, <2>7
      <4> QED
        BY <1>1, <4>1, HeadTailProperties
    <3>3. next.going /\ next.r = Tail(r)
      BY <3>1
    <3> HIDE DEF next
    <3>4. 2 * (i + 1) <= n /\ Len(next.r) = n - (i + 1)
      BY <1>1, <2>1, <2>7, <3>2, <3>3
    <3>5. ASSUME NEW j \in 1 .. n - (i + 1) PROVE next.r[j] = number[(i + 1) + j]
      <4>1. j \in 1 .. Len(r) - 1 /\ j + 1 \in 1 .. n - i /\ i + (j + 1) = (i + 1) + j
        BY <1>1, <2>1
      <4>2. next.r[j] = r[j + 1] /\ r[j + 1] = number[i + (j + 1)]
        BY <2>1, <3>2, <3>3, <4>1
      <4> QED
        BY <4>1, <4>2
    <3>6. number[2 * (i + 1) - 1] = 0 /\ ~High(number[2 * (i + 1)])
      <4>1. r[i + 1] = 0 /\ ~High(r[(i + 1) + 1])
        BY <2>7 DEF Redundant
      <4>2. (i + 1) + 1 \in 1 .. n - i /\ i + ((i + 1) + 1) = 2 * (i + 1) /\ 2 * (i + 1) - 1 = 2 * i + 1
        BY <1>1, <2>1, <2>7
      <4>3. r[(i + 1) + 1] = number[2 * (i + 1)]
        BY <2>1, <4>2
      <4> QED
        BY <2>4, <4>1, <4>2, <4>3
    <3>7. ASSUME NEW j \in 1 .. i + 1 PROVE number[2 * j - 1] = 0 /\ ~High(number[2 * j])
      <4>1. j \in 1 .. i \/ j = i + 1
        BY <1>1
      <4> QED
        BY <2>1, <3>6, <4>1
    <3>8. Stripped(next, number, n, i + 1)
      BY <1>1, <3>3, <3>4, <3>5, <3>7 DEF Stripped
    <3> QED
      BY <3>8 DEF next
  <2>8. CASE ~(i + 1 < Len(r) /\ Redundant(r, i + 1))
    <3>1. next = [going |-> FALSE, r |-> r]
      BY <1>3, <2>6, <2>8, Zenon DEF Turn, r
    <3>2. ~High(r[1])
      <4>1. r[1] = number[i + 1]
        BY <1>1, <2>1, <2>3
      <4>2. CASE i = 0
        BY <4>1, <4>2
      <4>3. CASE i # 0
        <5>1. \E j \in 1 .. i : i + 1 = 2 * j - 1 \/ i + 1 = 2 * j
          <6>1. i = 2 * (i \div 2) \/ i = 2 * (i \div 2) + 1
            BY <1>1
          <6>2. i \div 2 \in Nat
            BY <1>1
          <6>3. CASE i = 2 * (i \div 2)
            <7>1. i \div 2 + 1 \in 1 .. i /\ i + 1 = 2 * (i \div 2 + 1) - 1
              BY <1>1, <4>3, <6>2, <6>3
            <7> QED
              BY <7>1
          <6>4. CASE i = 2 * (i \div 2) + 1
            <7>1. i \div 2 + 1 \in 1 .. i /\ i + 1 = 2 * (i \div 2 + 1)
              BY <1>1, <4>3, <6>2, <6>4
            <7> QED
              BY <7>1
          <6> QED
            BY <6>1, <6>3, <6>4
        <5>2. PICK j \in 1 .. i : i + 1 = 2 * j - 1 \/ i + 1 = 2 * j
          BY <5>1
        <5>3. number[2 * j - 1] = 0 /\ ~High(number[2 * j])
          BY <2>1, <5>2
        <5> QED
          BY <4>1, <5>2, <5>3, ZeroIsLow
      <4> QED
        BY <4>2, <4>3
    <3>3. Len(r) \in 1 .. n
      BY <1>1, <2>1, <2>3
    <3>4. ~next.going /\ next.r = r
      BY <3>1
    <3> HIDE DEF next
    <3>5. Stripped(next, number, n, i + 1)
      BY <1>1, <3>2, <3>3, <3>4 DEF Stripped, Positive
    <3> QED
      BY <3>5 DEF next
  <2> QED
    BY <2>7, <2>8
<1> QED
  BY <1>2, <1>3

\* The numbers that are not written as nothing at all: an odd byte is not zero.
Signable(number) ==
    /\ number \in Seq(Byte) /\ Len(number) = NumSize
    /\ \E h \in Nat \ {0} : 2 * h - 1 <= NumSize /\ number[2 * h - 1] # 0

\* What is left of such a number is a number that is not negative.
LEMMA StripIsPositive ==
  ASSUME NEW number, Signable(number), ~High(number[1])
  PROVE  Positive(Strip(number), NumSize)
<1> DEFINE n == NumSize
<1>1. n \in Nat \ {0} /\ number \in Seq(Byte) /\ Len(number) = n
  BY EncodingAssumption DEF Signable
<1>2. PICK h \in Nat \ {0} : 2 * h - 1 <= n /\ number[2 * h - 1] # 0
  BY DEF Signable
<1> HIDE DEF n
<1>3. n = NumSize
  BY DEF n
<1>4. PICK T : StripSteps(T, number, n) /\ Strip(number) = T[n].r
  BY <1>1, <1>3, StripTrace
<1>5. T[0] = Start(number) /\ \A i \in 1 .. n : T[i] = Turn(T[i - 1], Turns[i])
  BY <1>4 DEF StripSteps
<1> DEFINE S == {i \in 0 .. n : Stripped(T[i], number, n, i)}
<1>6. 0 \in S
  <2>1. Start(number) \in Loop /\ Start(number).going /\ Start(number).r = number
    BY <1>1 DEF Start, Loop
  <2>2. \A j \in 1 .. n - 0 : number[j] = number[0 + j]
    OBVIOUS
  <2>3. 2 * 0 <= n /\ n - 0 = n /\ 1 .. 0 = {}
    BY <1>1
  <2>4. Stripped(Start(number), number, n, 0)
    BY <1>1, <2>1, <2>2, <2>3 DEF Stripped
  <2> QED
    BY <1>1, <1>5, <2>4
<1>7. \A i \in 0 .. n - 1 : i \in S => i + 1 \in S
  <2> SUFFICES ASSUME NEW i \in 0 .. n - 1, Stripped(T[i], number, n, i)
               PROVE  Stripped(T[i + 1], number, n, i + 1)
    BY <1>1
  <2>1. i + 1 \in 1 .. n /\ (i + 1) - 1 = i
    BY <1>1
  <2>2. T[i + 1] = Turn(T[i], i + 1)
    <3>1. Turns[i + 1] = i + 1
      BY <1>3, <2>1 DEF Turns
    <3> QED
      BY <1>5, <2>1, <3>1
  <2>3. Stripped(Turn(T[i], i + 1), number, n, i + 1)
    BY <1>1, <1>2, TurnStrips
  <2> QED
    BY <2>2, <2>3
<1>8. Stripped(T[n], number, n, n)
  <2> HIDE DEF S
  <2>1. \A i \in 0 .. n : i \in S
    BY <1>1, <1>6, <1>7, UpTo
  <2>2. n \in S
    BY <1>1, <2>1
  <2> QED
    BY <2>2 DEF S
<1>9. ~T[n].going
  <2>1. ~(2 * n <= n)
    BY <1>1
  <2> QED
    BY <1>8, <2>1 DEF Stripped
<1> QED
  BY <1>3, <1>4, <1>8, <1>9 DEF Stripped

\* So is what is written of any number.
LEMMA SignedIsPositive ==
  ASSUME NEW number, Signable(number)
  PROVE  Positive(Signed(number), NumSize + 1)
<1>1. NumSize \in Nat \ {0} /\ number \in Seq(Byte) /\ Len(number) = NumSize
  BY EncodingAssumption DEF Signable
<1>2. CASE High(number[1])
  <2>1. <<0>> \in Seq(Byte) /\ Len(<<0>>) = 1
    BY BaseType DEF Byte
  <2>2. /\ <<0>> \o number \in Seq(Byte) /\ Len(<<0>> \o number) = 1 + NumSize
        /\ (<<0>> \o number)[1] = 0
    BY <1>1, <2>1, ConcatProperties
  <2>3. Signed(number) = <<0>> \o number
    BY <1>2 DEF Signed
  <2>4. 1 + NumSize \in 1 .. NumSize + 1
    BY <1>1
  <2> QED
    BY <2>2, <2>3, <2>4, ZeroIsLow DEF Positive
<1>3. CASE ~High(number[1])
  <2>1. Positive(Strip(number), NumSize) /\ Signed(number) = Strip(number)
    BY <1>3, StripIsPositive DEF Signed
  <2>2. \A k \in 1 .. NumSize : k \in 1 .. NumSize + 1
    BY <1>1
  <2> QED
    BY <2>1, <2>2 DEF Positive
<1> QED
  BY <1>2, <1>3

\* Two bytes and what follows them.
LEMMA FieldType ==
  ASSUME NEW tag \in Byte, NEW bytes \in Seq(Byte), Len(bytes) < Base, NEW x \in Seq(Byte)
  PROVE  /\ Field(tag, bytes) \in Seq(Byte) /\ Len(Field(tag, bytes)) = Len(bytes) + 2
         /\ Field(tag, bytes) \o x = <<tag>> \o (<<Len(bytes)>> \o (bytes \o x))
<1> DEFINE size == Len(bytes)
<1>1. size \in Byte /\ size \in Nat
  BY BaseType DEF Byte
<1> HIDE DEF size
<1>2. /\ <<tag>> \in Seq(Byte) /\ <<size>> \in Seq(Byte) /\ <<tag, size>> \in Seq(Byte)
      /\ Len(<<tag, size>>) = 2
  BY <1>1
<1>3. <<tag, size>> = <<tag>> \o <<size>>
  BY <1>1
<1>4. bytes \o x \in Seq(Byte) /\ <<tag, size>> \o bytes \in Seq(Byte)
      /\ Len(<<tag, size>> \o bytes) = 2 + size
  BY <1>2, ConcatProperties DEF size
<1>5. (<<tag, size>> \o bytes) \o x = <<tag, size>> \o (bytes \o x)
  BY <1>2, ConcatAssociative
<1>6. <<tag, size>> \o (bytes \o x) = <<tag>> \o (<<size>> \o (bytes \o x))
  BY <1>2, <1>3, <1>4, ConcatAssociative
<1>7. Field(tag, bytes) = <<tag, size>> \o bytes
  BY DEF Field, size
<1>8. 2 + size = size + 2
  BY <1>1
<1> QED
  BY <1>4, <1>5, <1>6, <1>7, <1>8 DEF size

\* An integer of a signature is read as it was written.
LEMMA IntegerRead ==
  ASSUME NEW number \in Seq(Byte), Len(number) < Base, NEW x \in Seq(Byte)
  PROVE  ReadInteger(Field(IntegerTag, number) \o x) =
           Got([tag |-> IntegerTag, size |-> Len(number), number |-> number], x)
<1> DEFINE size == Len(number)
           rest == number \o x
           all  == Field(IntegerTag, number) \o x
<1>1. IntegerTag \in Byte /\ size \in Byte /\ rest \in Seq(Byte)
  BY BaseType, ConcatProperties DEF Byte, IntegerTag
<1>2. all = <<IntegerTag>> \o (<<size>> \o rest)
  BY <1>1, FieldType
<1>3. Raw(size, rest) = Got(number, x)
  BY RawRead
<1> HIDE DEF size, rest, all
<1>4. <<size>> \o rest \in Seq(Byte)
  BY <1>1, ByteFront
<1>5. Fixed(1, all) = Got(IntegerTag, <<size>> \o rest) /\ Fixed(1, <<size>> \o rest) = Got(size, rest)
  BY <1>1, <1>2, <1>4, ByteRead
<1>6. ReadInteger(all) = Got([tag |-> IntegerTag, size |-> size, number |-> number], x)
  BY <1>3, <1>5, GotFields DEF ReadInteger, IntegerOf
<1> QED
  BY <1>6 DEF all, size

\* Bytes put together.
LEMMA Pieces ==
  ASSUME NEW a \in Seq(Byte), NEW b \in Seq(Byte), NEW c \in Seq(Byte)
  PROVE  /\ a \o b \in Seq(Byte) /\ b \o c \in Seq(Byte)
         /\ (a \o b) \o c = a \o (b \o c)
BY ConcatProperties, ConcatAssociative

\* The middle one of three pieces may go with the first or with the last.
LEMMA Onward ==
  ASSUME NEW q \in Seq(Byte), NEW s \in Seq(Byte), NEW p \in Seq(Byte),
         NEW u, u = q \o s, NEW r, r = s \o p
  PROVE  u \in Seq(Byte) /\ u \o p = q \o r
BY Pieces

\* Their lengths add up.
LEMMA Lengths ==
  ASSUME NEW a \in Seq(Byte), NEW b \in Seq(Byte)
  PROVE  Len(a \o b) = Len(a) + Len(b) /\ Len(a) \in Nat /\ Len(b) \in Nat
BY ConcatProperties

\* What a signature with two numbers says.
MeantInteger(number) == [tag |-> IntegerTag, size |-> Len(Signed(number)), number |-> Signed(number)]
MeantPair(r, s) ==
    [total |-> Len(ToBytes(r, s)) - 1, tag |-> SequenceTag, size |-> Len(ToBytes(r, s)) - 3,
     r |-> MeantInteger(r), s |-> MeantInteger(s)]

\* The numbers of a signature are read as they were written, with their lengths, and what
\* follows them is left.
LEMMA SignatureRead ==
  ASSUME NEW r, NEW s, Signable(r), Signable(s), NEW x \in Seq(Byte)
  PROVE  /\ ToBytes(r, s) \in Seq(Byte) /\ ToBytes(r, s) # Panic /\ Len(ToBytes(r, s)) <= Base
         /\ ReadSignature(ToBytes(r, s) \o x) = Got(MeantPair(r, s), x)
<1> DEFINE p == Signed(r)
           q == Signed(s)
           first == Field(IntegerTag, p)
           second == Field(IntegerTag, q)
           both == first \o second
           pair == Field(SequenceTag, both)
           all == <<Len(pair)>> \o pair
<1>1. /\ p \in Seq(Byte) /\ Len(p) \in Nat /\ Len(p) <= NumSize + 1 /\ p # <<>>
      /\ q \in Seq(Byte) /\ Len(q) \in Nat /\ Len(q) <= NumSize + 1 /\ q # <<>>
      /\ NumSize \in Nat /\ 2 * NumSize + 8 < Base /\ Base \in Nat
      /\ IntegerTag \in Byte /\ SequenceTag \in Byte
  <2>1. Positive(p, NumSize + 1) /\ Positive(q, NumSize + 1)
    BY SignedIsPositive
  <2>2. NumSize \in Nat /\ 2 * NumSize + 8 < Base /\ Base \in Nat
    BY EncodingAssumption
  <2>3. IntegerTag \in Byte /\ SequenceTag \in Byte
    BY BaseType DEF Byte, IntegerTag, SequenceTag
  <2> QED
    BY <2>1, <2>2, <2>3 DEF Positive
<1> HIDE DEF p, q
<1>2. /\ first \in Seq(Byte) /\ Len(first) = Len(p) + 2
      /\ second \in Seq(Byte) /\ Len(second) = Len(q) + 2
  <2>1. Len(p) < Base /\ Len(q) < Base
    BY <1>1
  <2> QED
    BY <1>1, <2>1, FieldType
<1> HIDE DEF first, second
<1>3. both \in Seq(Byte) /\ Len(both) = Len(first) + Len(second)
  BY <1>2, ConcatProperties
<1> DEFINE x1 == second \o x
           x2 == both \o x
           x3 == <<Len(both)>> \o x2
           x4 == pair \o x
<1>4. x1 \in Seq(Byte) /\ x2 \in Seq(Byte) /\ x2 = first \o x1
  <2>1. x1 \in Seq(Byte)
    BY <1>2, Pieces
  <2>2. (first \o second) \o x = first \o (second \o x) /\ first \o second \in Seq(Byte)
    BY <1>2, Pieces
  <2>3. x2 \in Seq(Byte)
    BY <2>2, Pieces
  <2> QED
    BY <2>1, <2>2, <2>3
<1> HIDE DEF both
<1>5. Len(both) < Base /\ Len(both) + 2 < Base /\ Len(both) \in Nat /\ Len(both) + 3 <= Base
  BY <1>1, <1>2, <1>3
<1>6. /\ pair \in Seq(Byte) /\ Len(pair) = Len(both) + 2
      /\ x4 = <<SequenceTag>> \o x3
  BY <1>1, <1>3, <1>5, FieldType
<1> HIDE DEF pair
<1>7. Len(both) \in Byte /\ Len(pair) \in Byte
  BY <1>1, <1>5, <1>6 DEF Byte
<1>8. x3 \in Seq(Byte) /\ x4 \in Seq(Byte)
  <2>1. x3 \in Seq(Byte)
    BY <1>4, <1>7, ByteFront
  <2>2. x4 \in Seq(Byte)
    BY <1>6, Pieces
  <2> QED
    BY <2>1, <2>2
<1>9. /\ all \in Seq(Byte) /\ Len(all) = Len(pair) + 1 /\ all # <<>> /\ Len(all) <= Base
      /\ all \o x = <<Len(pair)>> \o x4
  <2>1. <<Len(pair)>> \in Seq(Byte) /\ Len(<<Len(pair)>>) = 1
    BY <1>7
  <2>2. all \in Seq(Byte) /\ all \o x = <<Len(pair)>> \o x4
    BY <1>6, <2>1, Pieces
  <2>3. Len(all) = 1 + Len(pair) /\ Len(pair) \in Nat
    BY <1>6, <2>1, Lengths
  <2> HIDE DEF all, x4
  <2> QED
    BY <1>1, <1>5, <1>6, <2>2, <2>3
<1>10. ToBytes(r, s) = all
  <2>1. Panic \notin {p, q}
    BY <1>1 DEF Panic
  <2> QED
    BY <2>1, Zenon DEF ToBytes, p, q, first, second, both, pair, all
<1> DEFINE i == [tag |-> IntegerTag, size |-> Len(p), number |-> p]
           j == [tag |-> IntegerTag, size |-> Len(q), number |-> q]
<1>11. ReadInteger(x1) = Got(j, x)
  <2>1. Len(q) < Base
    BY <1>1
  <2> QED
    BY <1>1, <2>1, IntegerRead DEF second
<1>12. ReadInteger(x2) = Got(i, x1)
  <2>1. Len(p) < Base
    BY <1>1
  <2> HIDE DEF x1
  <2>2. ReadInteger(Field(IntegerTag, p) \o x1) = Got(i, x1)
    BY <1>1, <1>4, <2>1, IntegerRead
  <2> QED
    BY <1>4, <2>2 DEF first
<1> HIDE DEF x1, x2
<1>13. Fixed(1, x3) = Got(Len(both), x2)
  BY <1>4, <1>7, ByteRead
<1> HIDE DEF x3
<1>14. Fixed(1, x4) = Got(SequenceTag, x3)
  <2>1. Fixed(1, <<SequenceTag>> \o x3) = Got(SequenceTag, x3)
    BY <1>1, <1>8, ByteRead
  <2> QED
    BY <1>6, <2>1
<1> HIDE DEF x4
<1>15. Fixed(1, all \o x) = Got(Len(pair), x4)
  <2>1. Fixed(1, <<Len(pair)>> \o x4) = Got(Len(pair), x4)
    BY <1>7, <1>8, ByteRead
  <2> QED
    BY <1>9, <2>1
<1> HIDE DEF all, i, j
<1>16. ReadSignature(all \o x) =
         Got([total |-> Len(pair), tag |-> SequenceTag, size |-> Len(both), r |-> i, s |-> j], x)
  BY <1>11, <1>12, <1>13, <1>14, <1>15, GotFields DEF ReadSignature
<1>17. Len(pair) = Len(all) - 1 /\ Len(both) = Len(all) - 3
  BY <1>5, <1>6, <1>9
<1>18. MeantPair(r, s) =
         [total |-> Len(pair), tag |-> SequenceTag, size |-> Len(both), r |-> i, s |-> j]
  BY <1>10, <1>17, Zenon DEF MeantPair, MeantInteger, i, j, p, q
<1> QED
  BY <1>9, <1>10, <1>16, <1>18 DEF Panic

\* A signature with its key is read as it was written.
LEMMA SignedRead ==
  ASSUME NEW sig, sig.pub \in Seq(Byte), Len(sig.pub) < Base, Signable(sig.r), Signable(sig.s),
         NEW x \in Seq(Byte)
  PROVE  /\ SignedBy(sig) \in Seq(Byte) /\ Len(SignedBy(sig)) \in 1 .. 2 * Base + 1
         /\ ReadSigned(SignedBy(sig) \o x) =
              Got([pub |-> sig.pub, type |-> 0, numbers |-> MeantPair(sig.r, sig.s)], x)
<1> DEFINE pub == sig.pub
           n == Len(pub)
           numbers == ToBytes(sig.r, sig.s)
           v == MeantPair(sig.r, sig.s)
           x1 == numbers \o x
           x2 == <<0>> \o x1
           x3 == pub \o x2
<1>1. /\ numbers \in Seq(Byte) /\ Len(numbers) <= Base /\ ReadSignature(x1) = Got(v, x)
      /\ pub \in Seq(Byte)
  BY SignatureRead
<1>2. n \in Byte /\ 0 \in Byte /\ n \in Nat /\ n < Base /\ Base \in Nat
  BY BaseType DEF Byte
<1>3. /\ <<n>> \in Seq(Byte) /\ Len(<<n>>) = 1 /\ <<0>> \in Seq(Byte) /\ Len(<<0>>) = 1
  BY <1>2
<1> HIDE DEF pub, n, numbers, v
<1>4. SignedBy(sig) = ((<<n>> \o pub) \o <<0>>) \o numbers
  BY DEF SignedBy, pub, n, numbers
<1>5. /\ SignedBy(sig) \in Seq(Byte) /\ Len(SignedBy(sig)) = n + 2 + Len(numbers)
      /\ Len(numbers) \in Nat
  <2>1. <<n>> \o pub \in Seq(Byte) /\ Len(<<n>> \o pub) = 1 + n
    BY <1>1, <1>3, ConcatProperties DEF n
  <2> DEFINE a == <<n>> \o pub
             b == a \o <<0>>
  <2> HIDE DEF a
  <2>2. b \in Seq(Byte) /\ Len(b) = Len(a) + 1
    BY <1>3, <2>1, ConcatProperties DEF a
  <2> HIDE DEF b
  <2>3. b \o numbers \in Seq(Byte) /\ Len(b \o numbers) = Len(b) + Len(numbers) /\ Len(numbers) \in Nat
    BY <1>1, <2>2, Pieces, Lengths
  <2>4. Len(a) = 1 + n
    BY <2>1 DEF a
  <2>5. SignedBy(sig) = b \o numbers
    BY <1>4 DEF a, b
  <2> QED
    BY <1>2, <2>2, <2>3, <2>4, <2>5
<1>6. x1 \in Seq(Byte) /\ x2 \in Seq(Byte) /\ x3 \in Seq(Byte)
  <2>1. x1 \in Seq(Byte)
    BY <1>1, Pieces
  <2> HIDE DEF x1
  <2>2. x2 \in Seq(Byte)
    BY <1>2, <2>1, ByteFront
  <2> HIDE DEF x2
  <2>3. x3 \in Seq(Byte)
    BY <1>1, <2>2, Pieces
  <2> QED
    BY <2>1, <2>2, <2>3
<1>7. SignedBy(sig) \o x = <<n>> \o x3
  <2>1. (((<<n>> \o pub) \o <<0>>) \o numbers) \o x = ((<<n>> \o pub) \o <<0>>) \o x1
    <3>1. <<n>> \o pub \in Seq(Byte)
      BY <1>1, <1>3, Pieces
    <3>2. (<<n>> \o pub) \o <<0>> \in Seq(Byte)
      BY <1>3, <3>1, Pieces
    <3> QED
      BY <1>1, <3>2, Pieces
  <2>2. ((<<n>> \o pub) \o <<0>>) \o x1 = (<<n>> \o pub) \o x2
    <3>1. <<n>> \o pub \in Seq(Byte)
      BY <1>1, <1>3, Pieces
    <3> HIDE DEF x1
    <3> QED
      BY <1>3, <1>6, <3>1, ConcatAssociative
  <2>3. (<<n>> \o pub) \o x2 = <<n>> \o x3
    <3> HIDE DEF x2
    <3> QED
      BY <1>1, <1>3, <1>6, Pieces
  <2> QED
    BY <1>4, <2>1, <2>2, <2>3
<1> HIDE DEF x1
<1>8. Fixed(1, x2) = Got(0, x1)
  BY <1>2, <1>6, ByteRead
<1> HIDE DEF x2
<1>9. Raw(n, x3) = Got(pub, x2)
  BY <1>1, <1>6, RawRead DEF n
<1> HIDE DEF x3
<1>10. Fixed(1, <<n>> \o x3) = Got(n, x3)
  BY <1>2, <1>6, ByteRead
<1>11. ReadSigned(<<n>> \o x3) = Got([pub |-> pub, type |-> 0, numbers |-> v], x)
  BY <1>1, <1>8, <1>9, <1>10, GotFields DEF ReadSigned, SignatureOf
<1>12. n + 2 + Len(numbers) \in 1 .. 2 * Base + 1
  BY <1>1, <1>2, <1>5
<1> QED
  BY <1>5, <1>7, <1>11, <1>12 DEF pub, v

-----------------------------------------------------------------------------
(* Items one after the other. *)

\* A function on the first numbers is a sequence.
LEMMA IsSequence ==
  ASSUME NEW S, NEW m \in Nat, NEW f \in [1 .. m -> S]
  PROVE  f \in Seq(S) /\ Len(f) = m
OBVIOUS

\* The first part of a sequence.
LEMMA FirstPart ==
  ASSUME NEW S, NEW s \in Seq(S), NEW m \in Nat, m <= Len(s)
  PROVE  SubSeq(s, 1, m) \in Seq(S) /\ Len(SubSeq(s, 1, m)) = m
<1>1. \A i \in 1 .. m : s[i] \in S
  BY ElementOfSeq
<1>2. 1 \in Int /\ m \in Int
  OBVIOUS
<1>3. /\ SubSeq(s, 1, m) \in Seq(S)
      /\ Len(SubSeq(s, 1, m)) = IF 1 <= m THEN m - 1 + 1 ELSE 0
  BY <1>1, <1>2, SubSeqProperties
<1>4. (IF 1 <= m THEN m - 1 + 1 ELSE 0) = m
  OBVIOUS
<1> QED
  BY <1>3, <1>4

\* What has been read after each of n items.
ItemSteps(T, kind, bytes, n) ==
    T[0] = Got(<<>>, bytes) /\ \A i \in 1 .. n : T[i] = NextItem(kind, T[i - 1])

\* As many items are read as are asked for.
LEMMA ItemsTrace ==
  ASSUME NEW kind, NEW bytes, NEW n \in Nat, DOMAIN First(bytes, n) = 1 .. n, NEW T,
         ItemSteps(T, kind, bytes, n)
  PROVE  ReadItems(kind, n, bytes) = T[n]
<1> DEFINE D == 1 .. n
           e == Got(<<>>, bytes)
           Rec(F) == [s \in SUBSET D |-> IF s = {} THEN e ELSE NextItem(kind, F[s \ {Max(s)}])]
           Fold == CHOOSE F : F = Rec(F)
           H == [s \in SUBSET D |-> T[Cardinality(s)]]
<1>1. ReadItems(kind, n, bytes) = Fold[D]
  <2>1. ReadItems(kind, n, bytes) =
          (CHOOSE F : F = [s \in SUBSET (DOMAIN First(bytes, n)) |->
             IF s = {} THEN e ELSE NextItem(kind, F[s \ {Max(s)}])])[DOMAIN First(bytes, n)]
    BY Zenon DEF ReadItems, FoldLeft, MapThenFoldSet
  <2> HIDE DEF D, e
  <2>2. DOMAIN First(bytes, n) = D
    BY DEF D
  <2> QED
    BY <2>1, <2>2, Zenon
<1>2. T[0] = e /\ \A i \in 1 .. n : T[i] = NextItem(kind, T[i - 1])
  BY DEF ItemSteps
<1>3. H = Rec(H)
  <2>1. ASSUME NEW s \in SUBSET D
        PROVE  H[s] = IF s = {} THEN e ELSE NextItem(kind, H[s \ {Max(s)}])
    <3>1. CASE s = {}
      <4>1. Cardinality({}) = 0 /\ H[s] = T[Cardinality(s)]
        BY FS_EmptySet
      <4> QED
        BY <1>2, <3>1, <4>1
    <3>2. CASE s # {}
      <4>1. IsFiniteSet(D) /\ Cardinality(D) = n
        BY FS_Interval
      <4>2. IsFiniteSet(s) /\ Cardinality(s) \in Nat /\ Cardinality(s) <= n
        <5> HIDE DEF D
        <5>1. IsFiniteSet(s) /\ Cardinality(s) <= Cardinality(D)
          BY <4>1, FS_Subset
        <5>2. Cardinality(s) \in Nat
          BY <5>1, FS_CardinalityType
        <5> QED
          BY <4>1, <5>1, <5>2
      <4>3. Max(s) \in s
        BY <3>2, <4>2, MaxOfNumbers
      <4>4. Cardinality(s \ {Max(s)}) = Cardinality(s) - 1 /\ s \ {Max(s)} \in SUBSET D
        BY <4>2, <4>3, FS_RemoveElement
      <4>5. Cardinality(s) # 0
        BY <3>2, <4>2, FS_EmptySet
      <4>6. Cardinality(s) \in 1 .. n
        BY <4>2, <4>5
      <4>7. H[s] = T[Cardinality(s)] /\ H[s \ {Max(s)}] = T[Cardinality(s) - 1]
        BY <4>4
      <4> QED
        BY <1>2, <3>2, <4>6, <4>7
    <3> QED
      BY <3>1, <3>2
  <2>2. H = [s \in SUBSET D |-> H[s]]
    OBVIOUS
  <2> HIDE DEF H, D, e
  <2> QED
    BY <2>1, <2>2
<1>4. Fold = Rec(Fold)
  <2>1. \E F : F = Rec(F)
    BY <1>3
  <2> QED
    BY <2>1, Zenon
<1> HIDE DEF Fold
<1>5. \A s \in SUBSET D : Fold[s] = IF s = {} THEN e ELSE NextItem(kind, Fold[s \ {Max(s)}])
  <2> SUFFICES ASSUME NEW s \in SUBSET D
               PROVE  Fold[s] = IF s = {} THEN e ELSE NextItem(kind, Fold[s \ {Max(s)}])
    OBVIOUS
  <2>1. Fold[s] = Rec(Fold)[s]
    BY <1>4, Zenon
  <2> QED
    BY <2>1, Zenon
<1> DEFINE S == {i \in 0 .. n : Fold[1 .. i] = T[i]}
<1> HIDE DEF e
<1>6. 0 \in S
  <2>1. 1 .. 0 = {} /\ {} \in SUBSET D
    OBVIOUS
  <2>2. Fold[{}] = e
    BY <1>5, <2>1
  <2> QED
    BY <1>2, <2>1, <2>2
<1>7. \A i \in 0 .. n - 1 : i \in S => i + 1 \in S
  <2> SUFFICES ASSUME NEW i \in 0 .. n - 1, Fold[1 .. i] = T[i]
               PROVE  Fold[1 .. i + 1] = T[i + 1]
    OBVIOUS
  <2> DEFINE j == i + 1
  <2>1. j \in 1 .. n /\ j - 1 = i
    OBVIOUS
  <2> HIDE DEF j
  <2>2. 1 .. j # {} /\ Max(1 .. j) = j /\ (1 .. j) \ {j} = 1 .. j - 1 /\ 1 .. j \in SUBSET D
    BY <2>1, FirstNumbers
  <2>3. Fold[1 .. j] = NextItem(kind, Fold[1 .. j - 1])
    BY <1>5, <2>2
  <2>4. Fold[1 .. j] = T[j]
    BY <1>2, <2>1, <2>3
  <2> QED
    BY <2>4 DEF j
<1> HIDE DEF S
<1>8. \A i \in 0 .. n : i \in S
  BY <1>6, <1>7, UpTo
<1>9. Fold[1 .. n] = T[n]
  <2>1. n \in S
    BY <1>8
  <2> QED
    BY <2>1 DEF S
<1> QED
  BY <1>1, <1>9

\* The bytes s are an item of this kind, and say v.
Says(kind, s, v) ==
    s \in Seq(Byte) /\ Len(s) > 0 /\ \A x \in Seq(Byte) : ReadItem(kind, s \o x) = Got(v, x)

\* The i-th item says the i-th value.
AllSay(kind, seqs, values, n) == \A i \in 1 .. n : Says(kind, seqs[i], values[i])

\* Items one after the other are read as they were written.
LEMMA ItemsRead ==
  ASSUME NEW kind, NEW n \in Nat, NEW seqs \in Seq(Seq(Byte)), Len(seqs) = n,
         NEW values, values = [i \in 1 .. n |-> values[i]], AllSay(kind, seqs, values, n),
         NEW x \in Seq(Byte)
  PROVE  /\ Join(seqs) \in Seq(Byte)
         /\ ReadItems(kind, n, Join(seqs) \o x) = Got(values, x)
<1>1. PICK U : JoinSteps(U, Byte, seqs, n) /\ Join(seqs) = U[0]
  BY JoinTrace
<1>2. /\ U[n] = <<>> /\ \A i \in 1 .. n : U[i - 1] = seqs[i] \o U[i]
      /\ \A i \in 0 .. n : U[i] \in Seq(Byte)
  BY <1>1 DEF JoinSteps
<1>3. /\ \A i \in 1 .. n : seqs[i] \in Seq(Byte) /\ Len(seqs[i]) > 0
      /\ \A i \in 1 .. n : \A y \in Seq(Byte) : ReadItem(kind, seqs[i] \o y) = Got(values[i], y)
  BY DEF AllSay, Says
<1> DEFINE all == Join(seqs) \o x
           T == [i \in 0 .. n |-> Got([j \in 1 .. i |-> values[j]], U[i] \o x)]
           S == {i \in 0 .. n : Len(U[n - i]) >= i}
<1>4. Len(U[0]) >= n /\ U[0] \in Seq(Byte)
  <2>1. 0 \in S
    BY <1>2
  <2>2. \A i \in 0 .. n - 1 : i \in S => i + 1 \in S
    <3> SUFFICES ASSUME NEW i \in 0 .. n - 1, Len(U[n - i]) >= i
                 PROVE  Len(U[n - (i + 1)]) >= i + 1
      OBVIOUS
    <3> DEFINE k == n - i
    <3>1. k \in 1 .. n /\ k \in 0 .. n /\ k - 1 = n - (i + 1)
      OBVIOUS
    <3> HIDE DEF k
    <3>2. U[k - 1] = seqs[k] \o U[k] /\ U[k] \in Seq(Byte) /\ seqs[k] \in Seq(Byte) /\ Len(seqs[k]) > 0
      BY <1>2, <1>3, <3>1
    <3>3. Len(U[k - 1]) = Len(seqs[k]) + Len(U[k]) /\ Len(U[k]) \in Nat /\ Len(seqs[k]) \in Nat
      BY <3>2, ConcatProperties
    <3>4. Len(U[k]) >= i
      BY DEF k
    <3>5. \A a, b \in Nat : a > 0 /\ b >= i => a + b >= i + 1
      OBVIOUS
    <3>6. Len(U[k - 1]) >= i + 1
      BY <3>2, <3>3, <3>4, <3>5
    <3> QED
      BY <3>1, <3>6, Zenon
  <2> HIDE DEF S
  <2>3. \A i \in 0 .. n : i \in S
    BY <2>1, <2>2, UpTo
  <2>4. n \in S
    BY <2>3
  <2>5. Len(U[n - n]) >= n /\ n - n = 0
    BY <2>4 DEF S
  <2>6. U[n - n] = U[0] /\ 0 \in 0 .. n
    BY <2>5
  <2> QED
    BY <1>2, <2>5, <2>6
<1>5. all \in Seq(Byte) /\ Len(all) >= n /\ Len(all) \in Nat
  <2>1. all \in Seq(Byte) /\ Len(all) = Len(U[0]) + Len(x) /\ Len(x) \in Nat /\ Len(U[0]) \in Nat
    BY <1>1, <1>4, ConcatProperties
  <2> HIDE DEF all
  <2> QED
    BY <1>4, <2>1
<1> HIDE DEF all
<1>6. DOMAIN First(all, n) = 1 .. n
  <2>1. (IF n < Len(all) THEN n ELSE Len(all)) = n
    BY <1>5
  <2>2. First(all, n) = SubSeq(all, 1, n)
    BY <2>1 DEF First
  <2>4. SubSeq(all, 1, n) \in Seq(Byte) /\ Len(SubSeq(all, 1, n)) = n
    BY <1>5, FirstPart
  <2> QED
    BY <2>2, <2>4, LenProperties
<1> DEFINE V == {values[i] : i \in 1 .. n}
<1>7. \A i \in 1 .. n : values[i] \in V
  OBVIOUS
<1> HIDE DEF V
<1>8. ItemSteps(T, kind, all, n)
  <2>1. T[0] = Got(<<>>, all)
    <3>1. [j \in 1 .. 0 |-> values[j]] = <<>>
      OBVIOUS
    <3> QED
      BY <1>1, <3>1 DEF all
  <2>2. ASSUME NEW i \in 1 .. n PROVE T[i] = NextItem(kind, T[i - 1])
    <3> DEFINE v == [j \in 1 .. i - 1 |-> values[j]]
               y == U[i] \o x
    <3>1. i - 1 \in 0 .. n /\ i \in 0 .. n
      OBVIOUS
    <3>2. T[i] = Got([j \in 1 .. i |-> values[j]], y) /\ T[i - 1] = Got(v, U[i - 1] \o x)
      BY <3>1
    <3>3. Append(v, values[i]) = [j \in 1 .. i |-> values[j]]
      <4>1. v \in Seq(V) /\ Len(v) = i - 1
        <5>1. \A j \in 1 .. i - 1 : values[j] \in V
          BY <1>7
        <5>2. i - 1 \in Nat
          OBVIOUS
        <5>3. v \in [1 .. i - 1 -> V]
          BY <5>1
        <5> HIDE DEF v
        <5> QED
          BY <5>2, <5>3, IsSequence
      <4>2. /\ Append(v, values[i]) \in Seq(V) /\ Len(Append(v, values[i])) = i
            /\ \A j \in 1 .. i - 1 : Append(v, values[i])[j] = v[j]
            /\ Append(v, values[i])[i] = values[i]
        <5>1. values[i] \in V /\ (i - 1) + 1 = i
          BY <1>7
        <5> HIDE DEF v
        <5> QED
          BY <4>1, <5>1, AppendProperties
      <4>3. \A j \in 1 .. i : Append(v, values[i])[j] = values[j]
        <5>1. \A j \in 1 .. i - 1 : v[j] = values[j]
          OBVIOUS
        <5>2. \A j \in 1 .. i : j \in 1 .. i - 1 \/ j = i
          OBVIOUS
        <5> HIDE DEF v
        <5> QED
          BY <4>2, <5>1, <5>2
      <4> HIDE DEF v
      <4>4. Append(v, values[i]) = [j \in 1 .. i |-> Append(v, values[i])[j]]
        BY <4>2, LenProperties
      <4> QED
        BY <4>3, <4>4
    <3>4. U[i - 1] \o x = seqs[i] \o y /\ y \in Seq(Byte)
      <4>1. U[i - 1] = seqs[i] \o U[i] /\ seqs[i] \in Seq(Byte) /\ U[i] \in Seq(Byte)
        BY <1>2, <1>3, <3>1
      <4>2. (seqs[i] \o U[i]) \o x = seqs[i] \o (U[i] \o x)
        BY <4>1, Pieces
      <4>3. U[i] \o x \in Seq(Byte)
        BY <4>1, Pieces
      <4> QED
        BY <4>1, <4>2, <4>3
    <3>5. ReadItem(kind, seqs[i] \o y) = Got(values[i], y)
      BY <1>3, <3>4
    <3> HIDE DEF T, v, y
    <3>6. NextItem(kind, T[i - 1]) = Got(Append(v, values[i]), y)
      BY <3>2, <3>4, <3>5, GotFields DEF NextItem, Added
    <3> QED
      BY <3>2, <3>3, <3>6
  <2> HIDE DEF T
  <2> QED
    BY <2>1, <2>2 DEF ItemSteps
<1>9. T[n] = Got(values, x)
  <2>1. T[n] = Got([j \in 1 .. n |-> values[j]], U[n] \o x)
    OBVIOUS
  <2>2. [j \in 1 .. n |-> values[j]] = values
    OBVIOUS
  <2>3. U[n] \o x = x
    BY <1>2, ConcatEmptySeq
  <2> HIDE DEF T
  <2> QED
    BY <2>1, <2>2, <2>3
<1>10. ReadItems(kind, n, all) = T[n]
  <2> HIDE DEF T
  <2> QED
    BY <1>6, <1>8, ItemsTrace
<1> QED
  BY <1>1, <1>4, <1>9, <1>10 DEF all

\* No sequence is longer than m.
AtMost(seqs, n, m) == \A i \in 1 .. n : Len(seqs[i]) <= m

\* Then joined they have no more than so many times m elements.
LEMMA JoinLength ==
  ASSUME NEW n \in Nat, NEW seqs \in Seq(Seq(Byte)), Len(seqs) = n, NEW m \in Nat,
         AtMost(seqs, n, m)
  PROVE  Len(Join(seqs)) <= n * m
<1>1. PICK U : JoinSteps(U, Byte, seqs, n) /\ Join(seqs) = U[0]
  BY JoinTrace
<1>2. /\ U[n] = <<>> /\ \A i \in 1 .. n : U[i - 1] = seqs[i] \o U[i]
      /\ \A i \in 0 .. n : U[i] \in Seq(Byte)
  BY <1>1 DEF JoinSteps
<1>3. \A i \in 1 .. n : seqs[i] \in Seq(Byte)
  BY ElementOfSeq
<1> DEFINE S == {i \in 0 .. n : Len(U[n - i]) <= i * m}
<1>4. 0 \in S
  <2>1. Len(U[n - 0]) = 0 /\ 0 * m = 0
    BY <1>2
  <2> QED
    BY <2>1
<1>5. \A i \in 0 .. n - 1 : i \in S => i + 1 \in S
  <2> SUFFICES ASSUME NEW i \in 0 .. n - 1, Len(U[n - i]) <= i * m
               PROVE  Len(U[n - (i + 1)]) <= (i + 1) * m
    OBVIOUS
  <2> DEFINE k == n - i
  <2>1. k \in 1 .. n /\ k \in 0 .. n /\ k - 1 = n - (i + 1)
    OBVIOUS
  <2>2. Len(U[k]) <= i * m
    OBVIOUS
  <2> HIDE DEF k
  <2>3. U[k - 1] = seqs[k] \o U[k] /\ U[k] \in Seq(Byte) /\ seqs[k] \in Seq(Byte)
    BY <1>2, <1>3, <2>1
  <2>4. Len(seqs[k] \o U[k]) = Len(seqs[k]) + Len(U[k]) /\ Len(U[k]) \in Nat /\ Len(seqs[k]) \in Nat
    BY <2>3, Lengths
  <2>5. Len(seqs[k]) <= m
    BY <2>1 DEF AtMost
  <2>6. (i + 1) * m = m + i * m /\ i * m \in Nat
    OBVIOUS
  <2>7. \A a, b, c \in Nat : a <= m /\ b <= c => a + b <= m + c
    OBVIOUS
  <2>8. Len(seqs[k]) + Len(U[k]) <= m + i * m
    BY <2>2, <2>4, <2>5, <2>6, <2>7
  <2>9. Len(U[k - 1]) <= (i + 1) * m
    BY <2>3, <2>4, <2>6, <2>8
  <2> QED
    BY <2>1, <2>9, Zenon
<1> HIDE DEF S
<1>6. n \in S
  <2>1. \A i \in 0 .. n : i \in S
    BY <1>4, <1>5, UpTo
  <2> QED
    BY <2>1
<1>7. Len(U[n - n]) <= n * m /\ n - n = 0
  BY <1>6 DEF S
<1> QED
  BY <1>1, <1>7

\* So many signatures that six bytes count them take fewer bytes than eight bytes count.
LEMMA SectionFits ==
  ASSUME NEW n \in Nat, n < Power(Base, 6), NEW seqs \in Seq(Seq(Byte)), Len(seqs) = n,
         AtMost(seqs, n, 2 * Base + 1)
  PROVE  Len(Join(seqs)) < Power(Base, 8)
<1> DEFINE m == 2 * Base + 1
           p == Power(Base, 6)
           size == Len(Join(seqs))
<1>1. Base \in Nat /\ Base > 10
  BY EncodingAssumption
<1>2. p \in Nat /\ Power(Base, 8) = (p * Base) * Base
  <2>1. 6 \in Nat /\ 7 \in Nat /\ 6 + 1 = 7 /\ 7 + 1 = 8
    OBVIOUS
  <2>2. Power(Base, 6) \in Nat /\ Power(Base, 6 + 1) = Power(Base, 6) * Base
    BY <1>1, <2>1, PowerStep
  <2>3. Power(Base, 7 + 1) = Power(Base, 7) * Base
    BY <1>1, <2>1, PowerStep
  <2> QED
    BY <2>1, <2>2, <2>3
<1>3. m \in Nat /\ m <= Base * Base
  <2>1. 3 * Base <= Base * Base
    BY <1>1
  <2>2. 2 * Base + 1 <= 3 * Base /\ 2 * Base + 1 \in Nat /\ 3 * Base \in Nat
    BY <1>1
  <2>3. Base * Base \in Nat
    BY <1>1
  <2>4. \A a, b, c \in Nat : a <= b /\ b <= c => a <= c
    OBVIOUS
  <2> QED
    BY <2>1, <2>2, <2>3, <2>4
<1>4. size <= n * m /\ size \in Nat
  <2>1. Len(Join(seqs)) \in Nat
    <3>1. PICK U : JoinSteps(U, Byte, seqs, n) /\ Join(seqs) = U[0]
      BY JoinTrace
    <3>2. U[0] \in Seq(Byte)
      BY <3>1 DEF JoinSteps
    <3> QED
      BY <3>1, <3>2
  <2>2. AtMost(seqs, n, m)
    OBVIOUS
  <2> HIDE DEF m
  <2>3. Len(Join(seqs)) <= n * m
    BY <1>3, <2>2, JoinLength
  <2> QED
    BY <2>1, <2>3
<1> HIDE DEF m, p, size
<1>5. ASSUME NEW b \in Nat, b > 0, m <= b PROVE n * m < p * b
  <2>1. n * m <= n * b /\ n * m \in Nat /\ n * b \in Nat
    BY <1>3, <1>5
  <2>2. n + 1 <= p
    BY <1>2 DEF p
  <2>3. (n + 1) * b <= p * b /\ p * b \in Nat
    BY <1>2, <1>5, <2>2
  <2>4. (n + 1) * b = n * b + b
    BY <1>5
  <2> QED
    BY <1>5, <2>1, <2>3, <2>4
<1>6. n * m < p * (Base * Base)
  <2>1. Base * Base \in Nat /\ Base * Base > 0
    BY <1>1
  <2> QED
    BY <1>3, <1>5, <2>1
<1>7. p * (Base * Base) = (p * Base) * Base /\ p * (Base * Base) \in Nat /\ n * m \in Nat
  BY <1>1, <1>2, <1>3
<1>8. size < Power(Base, 8)
  BY <1>2, <1>4, <1>6, <1>7
<1> QED
  BY <1>8 DEF size

\* So are counted items.
LEMMA CountedRead ==
  ASSUME NEW kind, NEW n \in Nat, n < Power(Base, 8), NEW seqs \in Seq(Seq(Byte)), Len(seqs) = n,
         NEW values, values = [i \in 1 .. n |-> values[i]], AllSay(kind, seqs, values, n),
         NEW x \in Seq(Byte)
  PROVE  /\ Counted(seqs) \in Seq(Byte)
         /\ ReadCounted(kind, Counted(seqs) \o x) = Got(values, x)
<1> DEFINE size == VarIntEncode(n)
           items == Join(seqs)
<1>1. items \in Seq(Byte) /\ ReadItems(kind, n, items \o x) = Got(values, x)
  BY ItemsRead
<1> HIDE DEF items
<1>2. items \o x \in Seq(Byte)
  BY <1>1, ConcatProperties
<1>3. size \in Seq(Byte) /\ VarInt(size \o (items \o x)) = Got(n, items \o x)
  BY <1>2, VarIntRead
<1> HIDE DEF size
<1>4. size \o items \in Seq(Byte) /\ (size \o items) \o x = size \o (items \o x)
  <2>1. size \in Seq(Byte) /\ items \in Seq(Byte)
    BY <1>1, <1>3
  <2>2. size \o items \in Seq(Byte)
    BY <2>1, ConcatProperties
  <2>3. (size \o items) \o x = size \o (items \o x)
    BY <2>1, ConcatAssociative, SMTT(30)
  <2> QED
    BY <2>2, <2>3
<1>5. ReadCounted(kind, size \o (items \o x)) = Got(values, x)
  BY <1>1, <1>3, GotFields DEF ReadCounted
<1>6. Counted(seqs) = size \o items
  BY DEF Counted, size, items
<1> QED
  BY <1>4, <1>5, <1>6

-----------------------------------------------------------------------------
(* Addresses. *)

SmallByte == 0 .. ByteBase - 1

\* The check byte of two bytes is a byte.
LEMMA XorType ==
  ASSUME NEW x \in SmallByte, NEW y \in SmallByte PROVE Xor(x, y) \in SmallByte
<1> DEFINE f == [n \in 0 .. 7 |-> ((DigitOf(2, x, n) + DigitOf(2, y, n)) % 2) * Power(2, n)]
<1>1. ByteBase \in Nat \ {0} /\ x \in Nat /\ y \in Nat
  BY CodecAssumption DEF SmallByte
<1>2. f \in [0 .. 7 -> Int]
  <2> SUFFICES ASSUME NEW n \in 0 .. 7
               PROVE  ((DigitOf(2, x, n) + DigitOf(2, y, n)) % 2) * Power(2, n) \in Int
    OBVIOUS
  <2>1. n \in Nat /\ 2 \in Nat \ {0, 1} /\ 2 \in Nat
    OBVIOUS
  <2>2. DigitOf(2, x, n) \in 0 .. 2 - 1 /\ DigitOf(2, y, n) \in 0 .. 2 - 1 /\ Power(2, n) \in Nat
    BY <1>1, <2>1, DigitType, PowerStep
  <2> QED
    BY <2>2
<1>3. SumFunction(f) \in Int
  <2>1. IsFiniteSet(0 .. 7)
    <3>1. 0 \in Int /\ 7 \in Int
      OBVIOUS
    <3> QED
      BY <3>1, FS_Interval
  <2> HIDE DEF f
  <2> QED
    BY <1>2, <2>1, SumOfFunction
<1>4. Xor(x, y) = SumFunction(f) % ByteBase
  BY DEF Xor
<1> HIDE DEF f
<1> QED
  BY <1>1, <1>3, <1>4 DEF SmallByte

\* The check bytes of the first bytes.
XorSteps(T, bytes, n) ==
    /\ T[0] = 0
    /\ \A i \in 1 .. n : T[i] = Xor(T[i - 1], bytes[i])
    /\ \A i \in 0 .. n : T[i] \in SmallByte

\* The bytes are taken one after the other.
LEMMA XorTrace ==
  ASSUME NEW bytes \in Seq(SmallByte), NEW n \in Nat, n = Len(bytes)
  PROVE  \E T : XorSteps(T, bytes, n) /\ GetXor(bytes) = T[n]
<1>0. DOMAIN bytes = 1 .. n /\ \A i \in 1 .. n : bytes[i] \in SmallByte
  BY LenProperties, ElementOfSeq
<1> DEFINE D == 1 .. n
           R == SmallByte
           Rec(F) == [s \in SUBSET D |-> IF s = {} THEN 0
                        ELSE Xor(F[s \ {Max(s)}], bytes[Max(s)])]
           Fold == CHOOSE F : F = Rec(F)
           T == [i \in 0 .. n |-> Fold[1 .. i]]
           G == [p \in D \X R |-> Xor(p[2], bytes[p[1]])]
<1>1. GetXor(bytes) = Fold[D]
  <2>1. GetXor(bytes) = (CHOOSE F : F = [s \in SUBSET (DOMAIN bytes) |->
                           IF s = {} THEN 0 ELSE Xor(F[s \ {Max(s)}], bytes[Max(s)])])[DOMAIN bytes]
    BY Zenon DEF GetXor, FoldLeft, MapThenFoldSet
  <2> HIDE DEF D
  <2>2. DOMAIN bytes = D
    BY <1>0 DEF D
  <2> QED
    BY <2>1, <2>2, Zenon
<1>2. /\ 0 \in R
      /\ \A x \in D, r \in R : Xor(r, bytes[x]) \in R
  <2>1. 0 \in SmallByte
    BY CodecAssumption DEF SmallByte
  <2> QED
    BY <1>0, <2>1, XorType
<1>3. \A x \in D, r \in R : G[<<x, r>>] = Xor(r, bytes[x])
  <2> SUFFICES ASSUME NEW x \in D, NEW r \in R PROVE G[<<x, r>>] = Xor(r, bytes[x])
    OBVIOUS
  <2>1. <<x, r>> \in D \X R /\ <<x, r>>[1] = x /\ <<x, r>>[2] = r
    OBVIOUS
  <2> QED
    BY <2>1, Zenon
<1> HIDE DEF G, R
<1>4. PICK H : FoldsLeft(H, n, R, 0, G)
  <2>1. \A x \in D, r \in R : G[<<x, r>>] \in R
    BY <1>2, <1>3
  <2>2. 0 \in R /\ \A x \in 1 .. n, r \in R : G[<<x, r>>] \in R
    BY <1>2, <2>1
  <2> QED
    BY <2>2, LeftFold
<1>5. H = Rec(H)
  <2>1. /\ H = [s \in SUBSET D |-> H[s]]
        /\ \A s \in SUBSET D :
             /\ s = {} => H[s] = 0
             /\ s # {} => /\ H[s] = G[<<Max(s), H[s \ {Max(s)}]>>]
                          /\ Max(s) \in D /\ H[s \ {Max(s)}] \in R
    BY <1>4 DEF FoldsLeft
  <2>2. \A s \in SUBSET D : s # {} => H[s] = Xor(H[s \ {Max(s)}], bytes[Max(s)])
    BY <1>3, <2>1
  <2>3. \A s \in SUBSET D : H[s] = IF s = {} THEN 0 ELSE Xor(H[s \ {Max(s)}], bytes[Max(s)])
    BY <2>1, <2>2
  <2> QED
    BY <2>1, <2>3
<1>6. Fold = Rec(Fold)
  <2>1. \E F : F = Rec(F)
    BY <1>5
  <2> QED
    BY <2>1, Zenon
<1> HIDE DEF Fold
<1>7. \A s \in SUBSET D : Fold[s] = IF s = {} THEN 0 ELSE Xor(Fold[s \ {Max(s)}], bytes[Max(s)])
  <2> SUFFICES ASSUME NEW s \in SUBSET D
               PROVE  Fold[s] = IF s = {} THEN 0 ELSE Xor(Fold[s \ {Max(s)}], bytes[Max(s)])
    OBVIOUS
  <2>1. Fold[s] = Rec(Fold)[s]
    BY <1>6, Zenon
  <2> QED
    BY <2>1, Zenon
<1>8. T[0] = 0 /\ \A i \in 1 .. n : T[i] = Xor(T[i - 1], bytes[i])
  <2>1. \A i \in 0 .. n : T[i] = Fold[1 .. i]
    OBVIOUS
  <2> HIDE DEF T
  <2>2. T[0] = 0
    <3>1. 1 .. 0 = {} /\ {} \in SUBSET D
      OBVIOUS
    <3>2. Fold[{}] = 0
      BY <1>7, <3>1
    <3> QED
      BY <2>1, <3>1, <3>2
  <2> SUFFICES ASSUME NEW i \in 1 .. n PROVE T[i] = Xor(T[i - 1], bytes[i])
    BY <2>2
  <2>3. 1 .. i # {} /\ Max(1 .. i) = i /\ (1 .. i) \ {i} = 1 .. i - 1 /\ 1 .. i \in SUBSET D
    BY FirstNumbers
  <2>4. Fold[1 .. i] = Xor(Fold[1 .. i - 1], bytes[i])
    BY <1>7, <2>3
  <2>5. T[i] = Fold[1 .. i] /\ T[i - 1] = Fold[1 .. i - 1]
    BY <2>1
  <2> QED
    BY <2>4, <2>5
<1>9. \A i \in 0 .. n : T[i] \in R
  <2> DEFINE S == {i \in 0 .. n : T[i] \in R}
  <2>1. 0 \in S
    BY <1>2, <1>8
  <2>2. \A i \in 0 .. n - 1 : i \in S => i + 1 \in S
    <3> HIDE DEF T, D
    <3> SUFFICES ASSUME NEW i \in 0 .. n - 1, T[i] \in R PROVE T[i + 1] \in R
      OBVIOUS
    <3>1. i + 1 \in 1 .. n /\ (i + 1) - 1 = i
      OBVIOUS
    <3>2. T[i + 1] = Xor(T[i], bytes[i + 1])
      BY <1>8, <3>1
    <3> QED
      BY <1>2, <3>1, <3>2 DEF D
  <2>3. \A i \in 0 .. n : i \in S
    <3> HIDE DEF S
    <3> QED
      BY <2>1, <2>2, UpTo
  <2> QED
    BY <2>3
<1>10. GetXor(bytes) = T[n]
  BY <1>1
<1> HIDE DEF T
<1> USE DEF R
<1> QED
  BY <1>8, <1>9, <1>10 DEF XorSteps


Weighed == [number : Nat, weight : Nat]
Nothing == [number |-> 0, weight |-> 1]

\* A character adds numbers.
LEMMA AddWeighedType ==
  ASSUME NEW sum \in Weighed, NEW char \in Nat
  PROVE  AddWeighed(sum, char) \in Weighed
<1>1. Radix \in Nat /\ sum.number \in Nat /\ sum.weight \in Nat
  BY CodecAssumption DEF Weighed
<1>2. sum.number + char * sum.weight \in Nat /\ sum.weight * Radix \in Nat
  BY <1>1
<1> QED
  BY <1>2 DEF AddWeighed, Weighed

\* The sums of the last characters.
WholeSteps(T, back, n) ==
    /\ T[0] = Nothing
    /\ \A i \in 1 .. n : T[i] = AddWeighed(T[i - 1], back[i])
    /\ \A i \in 0 .. n : T[i] \in Weighed

\* The characters are taken from the last on.
LEMMA WholeTrace ==
  ASSUME NEW chars, NEW back \in Seq(Nat), back = Reverse(chars), NEW n \in Nat, n = Len(back)
  PROVE  \E T : WholeSteps(T, back, n) /\ Whole(chars) = T[n].number
<1>0. DOMAIN back = 1 .. n /\ \A i \in 1 .. n : back[i] \in Nat
  BY LenProperties, ElementOfSeq
<1> DEFINE D == 1 .. n
           R == Weighed
           Rec(F) == [s \in SUBSET D |-> IF s = {} THEN Nothing
                        ELSE AddWeighed(F[s \ {Max(s)}], back[Max(s)])]
           Fold == CHOOSE F : F = Rec(F)
           T == [i \in 0 .. n |-> Fold[1 .. i]]
           G == [p \in D \X R |-> AddWeighed(p[2], back[p[1]])]
<1>1. Whole(chars) = Fold[D].number
  <2>1. Whole(chars) =
          (CHOOSE F : F = [s \in SUBSET (DOMAIN back) |->
             IF s = {} THEN [number |-> 0, weight |-> 1]
             ELSE AddWeighed(F[s \ {Max(s)}], back[Max(s)])])[DOMAIN back].number
    BY Zenon DEF Whole, FoldLeft, MapThenFoldSet
  <2> HIDE DEF D
  <2>2. DOMAIN back = D
    BY <1>0 DEF D
  <2> QED
    BY <2>1, <2>2, Zenon DEF Nothing
<1>2. /\ Nothing \in R
      /\ \A x \in D, r \in R : AddWeighed(r, back[x]) \in R
  <2>1. Nothing \in Weighed
    BY DEF Nothing, Weighed
  <2> QED
    BY <1>0, <2>1, AddWeighedType
<1>3. \A x \in D, r \in R : G[<<x, r>>] = AddWeighed(r, back[x])
  <2> SUFFICES ASSUME NEW x \in D, NEW r \in R PROVE G[<<x, r>>] = AddWeighed(r, back[x])
    OBVIOUS
  <2>1. <<x, r>> \in D \X R /\ <<x, r>>[1] = x /\ <<x, r>>[2] = r
    OBVIOUS
  <2> QED
    BY <2>1, Zenon
<1> HIDE DEF G, R
<1>4. PICK H : FoldsLeft(H, n, R, Nothing, G)
  <2>1. \A x \in D, r \in R : G[<<x, r>>] \in R
    BY <1>2, <1>3
  <2>2. Nothing \in R /\ \A x \in 1 .. n, r \in R : G[<<x, r>>] \in R
    BY <1>2, <2>1
  <2> QED
    BY <2>2, LeftFold
<1>5. H = Rec(H)
  <2>1. /\ H = [s \in SUBSET D |-> H[s]]
        /\ \A s \in SUBSET D :
             /\ s = {} => H[s] = Nothing
             /\ s # {} => /\ H[s] = G[<<Max(s), H[s \ {Max(s)}]>>]
                          /\ Max(s) \in D /\ H[s \ {Max(s)}] \in R
    BY <1>4 DEF FoldsLeft
  <2>2. \A s \in SUBSET D : s # {} => H[s] = AddWeighed(H[s \ {Max(s)}], back[Max(s)])
    BY <1>3, <2>1
  <2>3. \A s \in SUBSET D : H[s] = IF s = {} THEN Nothing ELSE AddWeighed(H[s \ {Max(s)}], back[Max(s)])
    BY <2>1, <2>2
  <2> QED
    BY <2>1, <2>3
<1>6. Fold = Rec(Fold)
  <2>1. \E F : F = Rec(F)
    BY <1>5
  <2> QED
    BY <2>1, Zenon
<1> HIDE DEF Fold
<1>7. \A s \in SUBSET D : Fold[s] = IF s = {} THEN Nothing ELSE AddWeighed(Fold[s \ {Max(s)}], back[Max(s)])
  <2> SUFFICES ASSUME NEW s \in SUBSET D
               PROVE  Fold[s] = IF s = {} THEN Nothing ELSE AddWeighed(Fold[s \ {Max(s)}], back[Max(s)])
    OBVIOUS
  <2>1. Fold[s] = Rec(Fold)[s]
    BY <1>6, Zenon
  <2> QED
    BY <2>1, Zenon
<1>8. T[0] = Nothing /\ \A i \in 1 .. n : T[i] = AddWeighed(T[i - 1], back[i])
  <2>1. \A i \in 0 .. n : T[i] = Fold[1 .. i]
    OBVIOUS
  <2> HIDE DEF T
  <2>2. T[0] = Nothing
    <3>1. 1 .. 0 = {} /\ {} \in SUBSET D
      OBVIOUS
    <3>2. Fold[{}] = Nothing
      BY <1>7, <3>1
    <3> QED
      BY <2>1, <3>1, <3>2
  <2> SUFFICES ASSUME NEW i \in 1 .. n PROVE T[i] = AddWeighed(T[i - 1], back[i])
    BY <2>2
  <2>3. 1 .. i # {} /\ Max(1 .. i) = i /\ (1 .. i) \ {i} = 1 .. i - 1 /\ 1 .. i \in SUBSET D
    BY FirstNumbers
  <2>4. Fold[1 .. i] = AddWeighed(Fold[1 .. i - 1], back[i])
    BY <1>7, <2>3
  <2>5. T[i] = Fold[1 .. i] /\ T[i - 1] = Fold[1 .. i - 1]
    BY <2>1
  <2> QED
    BY <2>4, <2>5
<1>9. \A i \in 0 .. n : T[i] \in R
  <2> DEFINE S == {i \in 0 .. n : T[i] \in R}
  <2>1. 0 \in S
    BY <1>2, <1>8
  <2>2. \A i \in 0 .. n - 1 : i \in S => i + 1 \in S
    <3> HIDE DEF T, D
    <3> SUFFICES ASSUME NEW i \in 0 .. n - 1, T[i] \in R PROVE T[i + 1] \in R
      OBVIOUS
    <3>1. i + 1 \in 1 .. n /\ (i + 1) - 1 = i
      OBVIOUS
    <3>2. T[i + 1] = AddWeighed(T[i], back[i + 1])
      BY <1>8, <3>1
    <3> QED
      BY <1>2, <3>1, <3>2 DEF D
  <2>3. \A i \in 0 .. n : i \in S
    <3> HIDE DEF S
    <3> QED
      BY <2>1, <2>2, UpTo
  <2> QED
    BY <2>3
<1>10. Whole(chars) = T[n].number
  BY <1>1
<1> HIDE DEF T
<1> USE DEF R
<1> QED
  BY <1>8, <1>9, <1>10 DEF WholeSteps

\* Greater powers are greater.
LEMMA PowersGrow ==
  ASSUME NEW base \in Nat \ {0, 1}, NEW m \in Nat, NEW n \in Nat, m <= n
  PROVE  Power(base, m) <= Power(base, n)
<1> DEFINE k == n - m
           S == {d \in 0 .. k : Power(base, m) <= Power(base, m + d)}
<1>1. k \in Nat /\ m + k = n
  OBVIOUS
<1> HIDE DEF k
<1>2. 0 \in S
  <2>1. m + 0 = m /\ Power(base, m) \in Nat
    BY PowerStep
  <2> QED
    BY <1>1, <2>1
<1>3. \A d \in 0 .. k - 1 : d \in S => d + 1 \in S
  <2> SUFFICES ASSUME NEW d \in 0 .. k - 1, Power(base, m) <= Power(base, m + d)
               PROVE  Power(base, m) <= Power(base, m + (d + 1))
    BY <1>1
  <2> DEFINE i == m + d
  <2>1. i \in Nat /\ m + (d + 1) = i + 1
    BY <1>1
  <2> HIDE DEF i
  <2>2. /\ Power(base, i) \in Nat /\ Power(base, m) \in Nat
        /\ Power(base, i + 1) = Power(base, i) * base
    BY <2>1, PowerStep
  <2>3. \A p \in Nat : p <= p * base /\ p * base \in Nat
    OBVIOUS
  <2>4. Power(base, m) <= Power(base, i)
    BY DEF i
  <2>5. Power(base, i) <= Power(base, i + 1) /\ Power(base, i + 1) \in Nat
    BY <2>2, <2>3
  <2> QED
    BY <2>1, <2>2, <2>4, <2>5
<1> HIDE DEF S
<1>4. \A d \in 0 .. k : d \in S
  BY <1>1, <1>2, <1>3, UpTo
<1>5. k \in S
  BY <1>1, <1>4
<1> QED
  BY <1>1, <1>5 DEF S

\* A number has so many digits.
SizeIn(base, v, k) == k \in 0 .. v /\ Power(base, k) > v /\ (k = 0 \/ Power(base, k - 1) <= v)

\* A number has a size.
LEMMA SizeExists ==
  ASSUME NEW base \in Nat \ {0, 1}, NEW v \in Nat
  PROVE  \E k \in 0 .. v : SizeIn(base, v, k)
<1> DEFINE S == {k \in 0 .. v : Power(base, k) > v}
<1>1. v \in S
  BY PowerIsGreater
<1>2. PICK k \in S : \A m \in S : k <= m
  <2>1. S \in SUBSET Nat /\ S # {}
    BY <1>1
  <2> HIDE DEF S
  <2> QED
    BY <2>1, SmallestNumber
<1>3. k \in 0 .. v /\ Power(base, k) > v
  OBVIOUS
<1>4. ASSUME k # 0 PROVE Power(base, k - 1) <= v
  <2>1. k - 1 \in 0 .. v /\ ~(k <= k - 1) /\ k - 1 \in Nat
    BY <1>3, <1>4
  <2>2. k - 1 \notin S /\ Power(base, k - 1) \in Nat
    <3>1. k - 1 \notin S
      <4> HIDE DEF S
      <4> QED
        BY <1>2, <2>1
    <3> QED
      BY <2>1, <3>1, PowerIsGreater
  <2> QED
    BY <2>1, <2>2
<1> QED
  BY <1>3, <1>4 DEF SizeIn

\* No smaller size is its size too.
LEMMA SizeIsUnique ==
  ASSUME NEW base \in Nat \ {0, 1}, NEW v \in Nat, NEW k, NEW n,
         SizeIn(base, v, k), SizeIn(base, v, n)
  PROVE  ~(k < n)
<1> SUFFICES ASSUME k < n PROVE FALSE
  OBVIOUS
<1>1. k \in Nat /\ n \in Nat /\ n - 1 \in Nat /\ k <= n - 1
  BY DEF SizeIn
<1>2. Power(base, k) <= Power(base, n - 1) /\ Power(base, k) \in Nat /\ Power(base, n - 1) \in Nat
  BY <1>1, PowersGrow, PowerIsGreater
<1>3. Power(base, k) > v /\ Power(base, n - 1) <= v
  BY <1>1 DEF SizeIn
<1> QED
  BY <1>2, <1>3

\* The digits of a number of this size.
LEMMA DigitsAre ==
  ASSUME NEW base \in Nat \ {0, 1}, NEW v \in Nat, NEW k, SizeIn(base, v, k)
  PROVE  DigitsIn(base, v) = [i \in 1 .. k |-> DigitOf(base, v, k - i)]
<1> DEFINE P(n) == Power(base, n) > v /\ (n = 0 \/ Power(base, n - 1) <= v)
           size == CHOOSE n \in 0 .. v : P(n)
<1>1. k \in 0 .. v /\ P(k)
  BY DEF SizeIn
<1>2. size \in 0 .. v /\ P(size)
  <2> HIDE DEF P
  <2> QED
    BY <1>1
<1>3. SizeIn(base, v, size)
  <2> HIDE DEF size
  <2> QED
    BY <1>2 DEF SizeIn
<1>4. size = k
  <2>1. size \in Nat /\ k \in Nat
    <3> HIDE DEF size, P
    <3> QED
      BY <1>1, <1>2
  <2> HIDE DEF size
  <2>2. ~(k < size) /\ ~(size < k)
    BY <1>3, SizeIsUnique
  <2> QED
    BY <2>1, <2>2
<1>5. DigitsIn(base, v) = [i \in 1 .. size |-> DigitOf(base, v, size - i)]
  BY Zenon DEF DigitsIn
<1> HIDE DEF size
<1> QED
  BY <1>4, <1>5

\* The digits of a number that is not zero stand for it, and the first is not zero.
LEMMA DigitsInType ==
  ASSUME NEW base \in Nat \ {0, 1}, NEW v \in Nat \ {0}
  PROVE  /\ DigitsIn(base, v) \in Seq(0 .. base - 1) /\ Len(DigitsIn(base, v)) > 0
         /\ ValueIn(base, DigitsIn(base, v)) = v /\ DigitsIn(base, v)[1] # 0
<1>1. PICK k \in 0 .. v : SizeIn(base, v, k)
  BY SizeExists
<1> DEFINE digits == [i \in 1 .. k |-> DigitOf(base, v, k - i)]
<1>2. DigitsIn(base, v) = digits
  BY <1>1, DigitsAre
<1>3. k \in Nat /\ v < Power(base, k) /\ (k = 0 \/ Power(base, k - 1) <= v)
  <2>1. Power(base, k) \in Nat
    BY PowerIsGreater
  <2> QED
    BY <1>1, <2>1 DEF SizeIn
<1>4. k # 0
  <2>1. Power(base, 0) = 1
    BY PowerStep
  <2> QED
    BY <1>3, <2>1
<1>5. digits \in Seq(0 .. base - 1) /\ Len(digits) = k /\ ValueIn(base, digits) = v
  BY <1>3, ValueOfDigits
<1>6. digits[1] # 0
  <2> DEFINE m == k - 1
             q == v \div Power(base, m)
  <2>1. m \in Nat /\ k = m + 1 /\ Power(base, m) <= v /\ Power(base, m) \in Nat \ {0}
    <3>1. k - 1 \in Nat
      BY <1>3, <1>4
    <3> QED
      BY <1>3, <1>4, <3>1, PowerIsGreater
  <2>2. digits[1] = q % base
    <3>1. 1 \in 1 .. k
      BY <1>3, <1>4
    <3> QED
      BY <3>1 DEF DigitOf
  <2> HIDE DEF digits
  <2>3. q \in Nat /\ q \div base = v \div Power(base, m + 1) /\ v \div Power(base, m + 1) = 0
    <3>1. m + 1 \in Nat /\ v < Power(base, m + 1)
      BY <1>3, <2>1
    <3> HIDE DEF m
    <3> QED
      BY <2>1, <3>1, DivPower
  <2>4. q # 0
    <3>1. /\ v \div Power(base, m) \in Nat /\ v % Power(base, m) \in 0 .. Power(base, m) - 1
          /\ v = (v \div Power(base, m)) * Power(base, m) + (v % Power(base, m))
      <4> HIDE DEF m
      <4> QED
        BY <2>1, Division
    <3> SUFFICES ASSUME q = 0 PROVE FALSE
      OBVIOUS
    <3>2. v = 0 * Power(base, m) + (v % Power(base, m))
      BY <3>1
    <3>3. 0 * Power(base, m) = 0
      BY <2>1
    <3> HIDE DEF m
    <3> QED
      BY <2>1, <3>1, <3>2, <3>3
  <2> HIDE DEF q
  <2>5. q = (q \div base) * base + (q % base) /\ q % base \in 0 .. base - 1
    <3>1. base \in Nat \ {0}
      OBVIOUS
    <3> QED
      BY <2>3, <3>1, Division
  <2>6. (q \div base) * base = 0
    BY <2>3
  <2> QED
    BY <2>2, <2>4, <2>5, <2>6
<1> HIDE DEF digits
<1> QED
  BY <1>2, <1>3, <1>4, <1>5, <1>6

\* Digits of which the first is not zero are the digits of their number.
LEMMA DigitsBack ==
  ASSUME NEW base \in Nat \ {0, 1}, NEW digits \in Seq(0 .. base - 1),
         Len(digits) > 0, digits[1] # 0
  PROVE  /\ ValueIn(base, digits) \in Nat \ {0}
         /\ DigitsIn(base, ValueIn(base, digits)) = digits
<1> DEFINE n == Len(digits)
           v == ValueIn(base, digits)
<1>1. n \in Nat \ {0}
  OBVIOUS
<1> HIDE DEF n
<1>2. n = Len(digits) /\ v = ValueIn(base, digits)
  BY DEF n
<1> HIDE DEF v
<1>3. /\ v \in Nat /\ v < Power(base, n)
      /\ \A i \in 1 .. n : DigitOf(base, v, n - i) = digits[i]
      /\ Power(base, n - 1) <= v
  BY <1>1, <1>2, DigitsOfValue
<1>4. n - 1 \in Nat /\ Power(base, n - 1) \in Nat /\ Power(base, n - 1) > n - 1
  <2>1. n - 1 \in Nat
    BY <1>1
  <2> QED
    BY <2>1, PowerIsGreater
<1>5. v # 0 /\ n \in 0 .. v
  BY <1>1, <1>3, <1>4
<1>6. SizeIn(base, v, n)
  <2>1. Power(base, n) \in Nat
    BY <1>1, PowerIsGreater
  <2> QED
    BY <1>1, <1>3, <1>5, <2>1 DEF SizeIn
<1>7. DigitsIn(base, v) = [i \in 1 .. n |-> DigitOf(base, v, n - i)]
  BY <1>3, <1>6, DigitsAre
<1>8. digits = [i \in 1 .. n |-> digits[i]]
  BY LenProperties DEF n
<1>9. DigitsIn(base, v) = digits
  BY <1>3, <1>7, <1>8
<1> QED
  BY <1>3, <1>5, <1>9 DEF v

\* A sequence begins with exactly so many zeros.
Led(s, z) == z \in Nat /\ z < Len(s) /\ (\A i \in 1 .. z : s[i] = 0) /\ s[z + 1] # 0

\* A sequence with something else than zeros begins with some number of zeros.
LEMMA LeadExists ==
  ASSUME NEW s \in Seq(Nat), NEW m \in 1 .. Len(s), s[m] # 0
  PROVE  \E z \in Nat : Led(s, z)
<1> DEFINE S == {i \in 1 .. Len(s) : s[i] # 0}
<1>1. S \in SUBSET Nat /\ S # {}
  OBVIOUS
<1>2. PICK k \in S : \A i \in S : k <= i
  <2> HIDE DEF S
  <2> QED
    BY <1>1, SmallestNumber
<1>3. k \in 1 .. Len(s) /\ s[k] # 0 /\ Len(s) \in Nat
  OBVIOUS
<1>4. ASSUME NEW i \in 1 .. k - 1 PROVE s[i] = 0
  <2>1. i \in 1 .. Len(s) /\ ~(k <= i)
    BY <1>3
  <2>2. i \notin S
    <3> HIDE DEF S
    <3> QED
      BY <1>2, <2>1
  <2> QED
    BY <2>1, <2>2
<1> DEFINE z == k - 1
<1>5. z \in Nat /\ z + 1 = k /\ z < Len(s)
  BY <1>3
<1>6. Led(s, z)
  <2>1. s[z + 1] # 0
    BY <1>3, <1>5
  <2>2. \A i \in 1 .. z : s[i] = 0
    BY <1>4
  <2> HIDE DEF z
  <2> QED
    BY <1>5, <2>1, <2>2 DEF Led
<1> HIDE DEF z
<1> QED
  BY <1>5, <1>6

\* They are counted.
LEMMA LeadIs ==
  ASSUME NEW s \in Seq(Nat), NEW z, Led(s, z)
  PROVE  LeadingZeros(s) = z
<1> DEFINE S == {n \in DOMAIN s : \A i \in 1 .. n : s[i] = 0}
<1>1. z \in Nat /\ DOMAIN s = 1 .. Len(s) /\ Len(s) \in Nat /\ z < Len(s)
  BY LenProperties DEF Led
<1>2. S = 1 .. z
  <2>1. ASSUME NEW n \in 1 .. z PROVE n \in S
    <3>1. n \in DOMAIN s /\ \A i \in 1 .. n : i \in 1 .. z
      BY <1>1
    <3> QED
      BY <3>1 DEF Led
  <2>2. ASSUME NEW n \in S, n \notin 1 .. z PROVE FALSE
    <3>1. n \in 1 .. Len(s) /\ n > z
      BY <1>1, <2>2
    <3>2. z + 1 \in 1 .. n
      BY <1>1, <3>1
    <3>3. s[z + 1] = 0
      BY <3>2
    <3> QED
      BY <3>3 DEF Led
  <2> HIDE DEF S
  <2> QED
    BY <2>1, <2>2
<1>3. Cardinality(1 .. z) = z
  <2>1. 1 \in Int /\ z \in Int
    BY <1>1
  <2>2. Cardinality(1 .. z) = IF 1 > z THEN 0 ELSE z - 1 + 1
    BY <2>1, FS_Interval
  <2> QED
    BY <1>1, <2>2
<1>4. LeadingZeros(s) = Cardinality(S)
  BY DEF LeadingZeros
<1> QED
  BY <1>2, <1>3, <1>4, Zenon

\* So many zeros are a sequence of zeros.
LEMMA ZerosType ==
  ASSUME NEW z \in Nat
  PROVE  /\ Zeros(z) \in Seq(Nat) /\ Len(Zeros(z)) = z
         /\ \A i \in 1 .. z : Zeros(z)[i] = 0
<1>1. Zeros(z) \in [1 .. z -> Nat]
  BY DEF Zeros
<1> QED
  BY <1>1 DEF Zeros

\* Zeros put in front of digits are where it begins, and the rest are the digits.
LEMMA ZerosAhead ==
  ASSUME NEW z \in Nat, NEW rest \in Seq(Nat), Len(rest) > 0, rest[1] # 0
  PROVE  LET s == Zeros(z) \o rest
         IN  /\ s \in Seq(Nat) /\ Len(s) = z + Len(rest) /\ Led(s, z)
             /\ SubSeq(s, z + 1, Len(s)) = rest
<1> DEFINE s == Zeros(z) \o rest
           a == Zeros(z)
<1>1. a \in Seq(Nat) /\ Len(a) = z /\ \A i \in 1 .. z : a[i] = 0
  BY ZerosType
<1> HIDE DEF a
<1>2. s = a \o rest
  BY DEF a
<1> HIDE DEF s
<1>3. /\ s \in Seq(Nat) /\ Len(s) = z + Len(rest) /\ Len(rest) \in Nat
      /\ \A i \in 1 .. z : s[i] = a[i]
      /\ \A i \in 1 .. Len(rest) : s[z + i] = rest[i]
  <2>1. /\ s \in Seq(Nat) /\ Len(s) = z + Len(rest) /\ Len(rest) \in Nat
        /\ \A i \in 1 .. z + Len(rest) : s[i] = IF i <= z THEN a[i] ELSE rest[i - z]
    <3>1. /\ s \in Seq(Nat) /\ Len(s) = Len(a) + Len(rest)
          /\ \A i \in 1 .. Len(a) + Len(rest) : s[i] = IF i <= Len(a) THEN a[i] ELSE rest[i - Len(a)]
      BY <1>1, <1>2, ConcatProperties, Zenon
    <3> QED
      BY <1>1, <3>1
  <2>2. ASSUME NEW i \in 1 .. Len(rest) PROVE s[z + i] = rest[i]
    <3>1. z + i \in 1 .. z + Len(rest) /\ ~(z + i <= z) /\ (z + i) - z = i
      BY <2>1
    <3> QED
      BY <2>1, <3>1
  <2>3. \A i \in 1 .. z : s[i] = a[i]
    BY <2>1
  <2> QED
    BY <2>1, <2>2, <2>3
<1>4. Led(s, z)
  <2>1. s[z + 1] = rest[1]
    BY <1>3
  <2> QED
    BY <1>1, <1>3, <2>1 DEF Led
<1>5. SubSeq(s, z + 1, Len(s)) = rest
  <2> DEFINE t == SubSeq(s, z + 1, Len(s))
  <2>1. t \in Seq(Nat) /\ Len(t) = Len(rest) /\ \A i \in 1 .. Len(rest) : t[i] = s[z + i]
    BY <1>3
  <2> HIDE DEF t
  <2>2. t = rest
    <3>1. Len(t) = Len(rest) /\ \A i \in 1 .. Len(t) : t[i] = rest[i]
      BY <1>3, <2>1
    <3> QED
      BY <2>1, <3>1, SeqEqual
  <2> QED
    BY <2>2 DEF t
<1> QED
  BY <1>3, <1>4, <1>5 DEF s

\* What begins with zeros is these zeros and the rest.
LEMMA ZerosOff ==
  ASSUME NEW b \in Nat, NEW s \in Seq(0 .. b), NEW z, Led(s, z)
  PROVE  LET rest == SubSeq(s, z + 1, Len(s))
         IN  rest \in Seq(0 .. b) /\ Len(rest) > 0 /\ rest[1] # 0 /\ s = Zeros(z) \o rest
<1> DEFINE rest == SubSeq(s, z + 1, Len(s))
           a == Zeros(z)
<1>1. z \in Nat /\ Len(s) \in Nat /\ z < Len(s) /\ s[z + 1] # 0 /\ \A i \in 1 .. z : s[i] = 0
  BY DEF Led
<1>2. a \in Seq(Nat) /\ Len(a) = z /\ \A i \in 1 .. z : a[i] = 0
  BY <1>1, ZerosType
<1>3. /\ rest \in Seq(0 .. b) /\ Len(rest) = Len(s) - z
      /\ \A i \in 1 .. Len(rest) : rest[i] = s[z + i]
  BY <1>1
<1> HIDE DEF rest, a
<1>4. Len(rest) > 0 /\ rest[1] # 0
  <2>1. 1 \in 1 .. Len(rest)
    BY <1>1, <1>3
  <2>2. rest[1] = s[z + 1]
    BY <1>3, <2>1
  <2> QED
    BY <1>1, <2>1, <2>2
<1>5. s = a \o rest
  <2> DEFINE t == a \o rest
  <2>1. s \in Seq(Nat) /\ rest \in Seq(Nat)
    <3>1. 0 .. b \subseteq Nat
      OBVIOUS
    <3> QED
      BY <1>3, <3>1, SeqMonotonic
  <2>2. /\ t \in Seq(Nat) /\ Len(t) = z + Len(rest)
        /\ \A i \in 1 .. z + Len(rest) : t[i] = IF i <= z THEN a[i] ELSE rest[i - z]
    BY <1>2, <2>1, ConcatProperties
  <2> HIDE DEF t
  <2>3. ASSUME NEW i \in 1 .. Len(s) PROVE s[i] = t[i]
    <3>1. CASE i <= z
      BY <1>1, <1>2, <1>3, <2>2, <3>1
    <3>2. CASE i > z
      <4>1. i - z \in 1 .. Len(rest) /\ z + (i - z) = i /\ i \in 1 .. z + Len(rest)
        BY <1>1, <1>3, <3>2
      <4>2. t[i] = rest[i - z] /\ rest[i - z] = s[z + (i - z)]
        BY <1>1, <1>3, <2>2, <3>2, <4>1
      <4> QED
        BY <4>1, <4>2
    <3> QED
      BY <1>1, <3>1, <3>2
  <2>4. Len(s) = Len(t)
    BY <1>1, <1>3, <2>2
  <2>5. s = t
    BY <2>1, <2>2, <2>3, <2>4, SeqEqual
  <2> QED
    BY <2>5 DEF t
<1> QED
  BY <1>3, <1>4, <1>5 DEF rest, a

\* Zeros in front of digits do not count.
LEMMA ZerosIgnored ==
  ASSUME NEW base \in Nat, NEW z \in Nat, NEW rest \in Seq(Nat)
  PROVE  ValueIn(base, Zeros(z) \o rest) = ValueIn(base, rest)
<1> DEFINE n == Len(rest)
           a == Zeros(z)
           s == a \o rest
<1>1. n \in Nat /\ a \in Seq(Nat) /\ Len(a) = z /\ \A i \in 1 .. z : a[i] = 0
  BY ZerosType
<1> HIDE DEF a
<1>2. /\ s \in Seq(Nat) /\ Len(s) = z + n
      /\ \A i \in 1 .. z : s[i] = 0
      /\ \A i \in 1 .. n : s[z + i] = rest[i]
  BY <1>1
<1> HIDE DEF n, s
<1>3. PICK T : ValueSteps(T, base, rest, n) /\ ValueIn(base, rest) = T[n]
  BY <1>1, ValueTrace DEF n
<1> DEFINE m == z + n
           U == [i \in 0 .. m |-> IF i <= z THEN 0 ELSE T[i - z]]
<1>4. m \in Nat /\ U[0] = 0 /\ U[m] = T[n]
  <2>1. T[0] = 0
    BY <1>3 DEF ValueSteps
  <2> QED
    BY <1>1, <2>1
<1>5. ASSUME NEW i \in 1 .. m PROVE U[i] = U[i - 1] * base + s[i]
  <2>1. i - 1 \in 0 .. m /\ i \in 0 .. m
    BY <1>1
  <2>2. CASE i <= z
    <3>1. U[i] = 0 /\ U[i - 1] = 0 /\ s[i] = 0
      BY <1>2, <2>1, <2>2
    <3> HIDE DEF U
    <3> QED
      BY <3>1
  <2>3. CASE i > z
    <3> DEFINE j == i - z
    <3>1. j \in 1 .. n /\ i = z + j /\ (i - 1) - z = j - 1
      BY <1>1, <2>3
    <3>2. U[i] = T[j] /\ s[i] = rest[j]
      BY <1>2, <2>1, <2>3, <3>1
    <3>3. U[i - 1] = T[j - 1]
      <4>1. CASE i - 1 <= z
        <5>1. j - 1 = 0 /\ T[0] = 0
          BY <1>3, <2>3, <3>1, <4>1 DEF ValueSteps
        <5> QED
          BY <2>1, <4>1, <5>1
      <4>2. CASE ~(i - 1 <= z)
        BY <2>1, <3>1, <4>2
      <4> QED
        BY <4>1, <4>2
    <3> HIDE DEF U, j
    <3> QED
      BY <1>3, <3>1, <3>2, <3>3 DEF ValueSteps
  <2> QED
    BY <2>2, <2>3
<1>6. ASSUME NEW i \in 0 .. m PROVE U[i] \in Nat
  <2>1. i <= z \/ i - z \in 0 .. n
    BY <1>1
  <2> QED
    BY <1>3, <2>1 DEF ValueSteps
<1>7. ValueIn(base, s) = U[m]
  <2> HIDE DEF U
  <2>1. ValueSteps(U, base, s, m)
    BY <1>4, <1>5, <1>6 DEF ValueSteps
  <2>2. m = Len(s)
    BY <1>2
  <2> HIDE DEF m
  <2> QED
    BY <1>2, <1>4, <2>1, <2>2, ValueIs
<1> QED
  BY <1>3, <1>4, <1>7 DEF s, a

\* The sum of the weighed characters is the number they stand for.
LEMMA WholeIsValue ==
  ASSUME NEW chars \in Seq(Nat)
  PROVE  Whole(chars) = ValueIn(Radix, chars)
<1> DEFINE n == Len(chars)
           back == Reverse(chars)
<1>1. n \in Nat /\ \A i \in 1 .. n : chars[i] \in Nat
  BY ElementOfSeq
<1>2. back \in Seq(Nat) /\ Len(back) = n /\ \A i \in 1 .. n : back[i] = chars[n - i + 1]
  <2>1. back = [i \in 1 .. n |-> chars[(n - i) + 1]]
    BY DEF Reverse
  <2>2. \A i \in 1 .. n : (n - i) + 1 \in 1 .. n
    BY <1>1
  <2>3. back \in [1 .. n -> Nat]
    BY <1>1, <2>1, <2>2
  <2> HIDE DEF back, n
  <2>4. Len(back) = n
    BY <1>1, <2>3
  <2> QED
    BY <1>1, <2>1, <2>3, <2>4
<1> HIDE DEF n, back
<1>3. PICK T : ValueSteps(T, Radix, chars, n) /\ ValueIn(Radix, chars) = T[n]
  <2>1. Radix \in Nat
    BY CodecAssumption
  <2> QED
    BY <1>1, <2>1, ValueTrace DEF n
<1>4. PICK Q : WholeSteps(Q, back, n) /\ Whole(chars) = Q[n].number
  <2>1. back = Reverse(chars) /\ n = Len(back)
    BY <1>2 DEF back
  <2> QED
    BY <1>1, <1>2, <2>1, WholeTrace
<1> DEFINE Rest(i) == /\ Q[i].weight = Power(Radix, i)
                      /\ T[n] = T[n - i] * Power(Radix, i) + Q[i].number
           S == {i \in 0 .. n : Rest(i)}
<1>5. 0 \in S
  <2>1. Q[0] = Nothing /\ Nothing.weight = 1 /\ Nothing.number = 0 /\ T[n] \in Nat
    BY <1>1, <1>3, <1>4 DEF WholeSteps, ValueSteps, Nothing
  <2>2. Power(Radix, 0) = 1 /\ n - 0 = n
    BY <1>1, CodecAssumption, PowerStep
  <2>3. T[n] = T[n] * 1 + 0
    BY <2>1
  <2> QED
    BY <1>1, <2>1, <2>2, <2>3
<1>6. \A i \in 0 .. n - 1 : i \in S => i + 1 \in S
  <2> SUFFICES ASSUME NEW i \in 0 .. n - 1, Rest(i) PROVE Rest(i + 1)
    <3>1. \A i \in 0 .. n - 1 : i + 1 \in 0 .. n
      BY <1>1
    <3> HIDE DEF Rest
    <3> QED
      BY <3>1
  <2> DEFINE j == n - i
             P == Power(Radix, i)
             q == Q[i].number
             c == chars[j]
  <2>1. /\ j \in 1 .. n /\ n - (i + 1) = j - 1 /\ i + 1 \in 1 .. n /\ (i + 1) - 1 = i
        /\ n - (i + 1) + 1 = j /\ i \in Nat
    BY <1>1
  <2>2. T[j] = T[j - 1] * Radix + c /\ T[j] \in Nat /\ T[j - 1] \in Nat
    <3>1. j - 1 \in 0 .. n /\ j \in 0 .. n
      BY <1>1, <2>1
    <3> QED
      BY <1>3, <2>1, <3>1 DEF ValueSteps
  <2>3. Q[i + 1] = AddWeighed(Q[i], c)
    <3>1. back[i + 1] = c
      BY <1>2, <2>1
    <3> QED
      BY <1>4, <2>1, <3>1 DEF WholeSteps
  <2>4. /\ P \in Nat /\ Power(Radix, i + 1) = P * Radix /\ Radix \in Nat
        /\ c \in Nat /\ q \in Nat
    <3>1. Q[i] \in Weighed
      BY <1>1, <1>4, <2>1 DEF WholeSteps
    <3> QED
      BY <1>1, <2>1, <3>1, CodecAssumption, PowerStep DEF Weighed
  <2>5. Q[i + 1].number = q + c * P /\ Q[i + 1].weight = P * Radix
    BY <2>3 DEF AddWeighed
  <2> DEFINE t == T[j - 1]
  <2>6. T[n] = T[j] * P + q /\ T[j] = t * Radix + c /\ t \in Nat
    BY <2>2
  <2> HIDE DEF j, P, q, c, t
  <2>7. T[n] = t * (P * Radix) + (q + c * P)
    <3>1. T[j] * P = (t * Radix) * P + c * P
      BY <2>4, <2>6
    <3>2. (t * Radix) * P = t * (P * Radix)
      BY <2>4, <2>6
    <3>3. t * (P * Radix) \in Nat /\ c * P \in Nat
      BY <2>4, <2>6
    <3> QED
      BY <2>4, <2>6, <3>1, <3>2, <3>3
  <2> QED
    BY <2>1, <2>4, <2>5, <2>7 DEF t
<1> HIDE DEF S
<1>7. n \in S
  <2>1. \A i \in 0 .. n : i \in S
    BY <1>1, <1>5, <1>6, UpTo
  <2> QED
    BY <1>1, <2>1
<1>8. T[n] = T[n - n] * Power(Radix, n) + Q[n].number
  BY <1>7 DEF S
<1>9. n - n = 0 /\ T[0] = 0 /\ Power(Radix, n) \in Nat /\ Q[n].number \in Nat
  <2>1. Q[n] \in Weighed
    BY <1>1, <1>4 DEF WholeSteps
  <2>2. T[0] = 0 /\ n - n = 0
    BY <1>1, <1>3 DEF ValueSteps
  <2>3. Power(Radix, n) \in Nat
    BY <1>1, CodecAssumption, PowerStep
  <2> QED
    BY <2>1, <2>2, <2>3 DEF Weighed
<1>10. T[n] = Q[n].number
  <2>1. 0 * Power(Radix, n) = 0
    BY <1>9
  <2> QED
    BY <1>8, <1>9, <2>1
<1> QED
  BY <1>3, <1>4, <1>10

\* The check byte of bytes is a byte.
LEMMA GetXorType ==
  ASSUME NEW bytes \in Seq(SmallByte) PROVE GetXor(bytes) \in SmallByte
<1>1. Len(bytes) \in Nat
  OBVIOUS
<1>2. PICK T : XorSteps(T, bytes, Len(bytes)) /\ GetXor(bytes) = T[Len(bytes)]
  BY <1>1, XorTrace
<1>3. Len(bytes) \in 0 .. Len(bytes)
  BY <1>1
<1> QED
  BY <1>2, <1>3 DEF XorSteps

\* Bytes that are not all zero are decoded as they were encoded, by either decoder.
LEMMA Base58Back ==
  ASSUME NEW bytes \in Seq(SmallByte), NEW m \in 1 .. Len(bytes), bytes[m] # 0
  PROVE  LET chars == Base58Encode(bytes)
         IN  DecodeCut(chars) = CutOff(bytes) /\ DecodeWhole(chars) = bytes
<1>1. ByteBase - 1 \in Nat /\ ByteBase \in Nat \ {0, 1} /\ Radix \in Nat \ {0, 1}
  BY CodecAssumption
<1>2. bytes \in Seq(0 .. ByteBase - 1) /\ bytes \in Seq(Nat)
  <2>1. SmallByte = 0 .. ByteBase - 1 /\ SmallByte \subseteq Nat
    BY DEF SmallByte
  <2> QED
    BY <2>1, SeqMonotonic
<1>3. PICK z \in Nat : Led(bytes, z)
  BY <1>2, LeadExists
<1> DEFINE rest == SubSeq(bytes, z + 1, Len(bytes))
           v == ValueIn(ByteBase, rest)
           d == DigitsIn(Radix, v)
           chars == Zeros(z) \o d
<1>4. rest \in Seq(0 .. ByteBase - 1) /\ Len(rest) > 0 /\ rest[1] # 0 /\ bytes = Zeros(z) \o rest
  BY <1>1, <1>2, <1>3, ZerosOff
<1> HIDE DEF rest
<1>5. v \in Nat \ {0} /\ DigitsIn(ByteBase, v) = rest
  BY <1>1, <1>4, DigitsBack
<1>6. ValueIn(ByteBase, bytes) = v
  <2>1. rest \in Seq(Nat)
    <3>1. 0 .. ByteBase - 1 \subseteq Nat
      OBVIOUS
    <3> QED
      BY <1>4, <3>1, SeqMonotonic
  <2> QED
    BY <1>1, <1>4, <2>1, ZerosIgnored
<1> HIDE DEF v
<1>7. /\ d \in Seq(0 .. Radix - 1) /\ Len(d) > 0 /\ d[1] # 0 /\ ValueIn(Radix, d) = v
      /\ d \in Seq(Nat)
  <2>1. d \in Seq(0 .. Radix - 1) /\ Len(d) > 0 /\ d[1] # 0 /\ ValueIn(Radix, d) = v
    BY <1>1, <1>5, DigitsInType
  <2>2. 0 .. Radix - 1 \subseteq Nat
    OBVIOUS
  <2> HIDE DEF d
  <2> QED
    BY <2>1, <2>2, SeqMonotonic
<1>8. Base58Encode(bytes) = chars
  <2>1. LeadingZeros(bytes) = z
    BY <1>2, <1>3, LeadIs
  <2> QED
    BY <1>6, <2>1 DEF Base58Encode
<1> HIDE DEF d
<1>9. /\ chars \in Seq(Nat) /\ LeadingZeros(chars) = z
      /\ SubSeq(chars, z + 1, Len(chars)) = d /\ ValueIn(Radix, chars) = v
  <2>1. /\ chars \in Seq(Nat) /\ Led(chars, z)
        /\ SubSeq(chars, z + 1, Len(chars)) = d
    BY <1>7, ZerosAhead
  <2>2. ValueIn(Radix, chars) = v
    BY <1>1, <1>7, ZerosIgnored
  <2> HIDE DEF chars
  <2> QED
    BY <2>1, <2>2, LeadIs
<1> HIDE DEF chars
<1>10. DecodeCut(chars) = CutOff(bytes)
  BY <1>4, <1>5, <1>7, <1>9, Zenon DEF DecodeCut
<1>11. DecodeWhole(chars) = bytes
  <2>1. Whole(chars) = v
    BY <1>9, WholeIsValue
  <2> QED
    BY <1>4, <1>5, <1>9, <2>1, Zenon DEF DecodeWhole
<1> QED
  BY <1>8, <1>10, <1>11

\* An address is decoded to what it was made of, by either decoder.
LEMMA AddressRead ==
  ASSUME NEW chain \in 0 .. ByteBase * ByteBase - 1, NEW hash \in Seq(SmallByte),
         Len(hash) = KeySize
  PROVE  AddressIsRead(chain, hash)
<1>1. ByteBase \in Nat \ {0, 1} /\ KeySize \in Nat
  BY CodecAssumption
<1> DEFINE a == chain % ByteBase
           b == (chain \div ByteBase) % ByteBase
           body == BodyOf(chain, hash)
           x == GetXor(body)
           bytes == Append(body, x)
<1>2. a \in SmallByte /\ b \in SmallByte /\ 1 \in SmallByte
  <2>1. chain \in Nat /\ ByteBase \in Nat \ {0}
    BY <1>1
  <2>2. chain \div ByteBase \in Nat /\ chain % ByteBase \in 0 .. ByteBase - 1
    BY <2>1, Division
  <2>3. (chain \div ByteBase) % ByteBase \in 0 .. ByteBase - 1
    BY <2>1, <2>2, Division
  <2>4. 1 \in 0 .. ByteBase - 1
    BY <1>1
  <2> QED
    BY <2>2, <2>3, <2>4 DEF SmallByte
<1>3. body = (<<a, b>> \o <<1>>) \o hash
  BY DEF BodyOf, ShortToBytes
<1> HIDE DEF a, b, body
<1>4. body \in Seq(SmallByte) /\ Len(body) = BodyLen /\ body[3] = 1 /\ BodyLen >= 3 /\ BodyLen \in Nat
  <2> DEFINE h == <<a, b>> \o <<1>>
  <2>1. h \in Seq(SmallByte) /\ Len(h) = 3 /\ h[3] = 1
    BY <1>2
  <2> HIDE DEF h
  <2>2. /\ body \in Seq(SmallByte) /\ Len(body) = Len(h) + Len(hash)
        /\ \A i \in 1 .. Len(h) + Len(hash) : body[i] = IF i <= Len(h) THEN h[i] ELSE hash[i - Len(h)]
    BY <1>3, <2>1, ConcatProperties DEF h
  <2> QED
    BY <1>1, <2>1, <2>2 DEF BodyLen
<1>5. x \in SmallByte
  BY <1>4, GetXorType
<1> HIDE DEF x
<1>6. /\ bytes \in Seq(SmallByte) /\ Len(bytes) = BodyLen + 1
      /\ bytes[3] = 1 /\ SubSeq(bytes, 1, BodyLen) = body
  <2>1. /\ bytes \in Seq(SmallByte) /\ Len(bytes) = BodyLen + 1
        /\ \A i \in 1 .. BodyLen : bytes[i] = body[i]
    BY <1>4, <1>5
  <2> HIDE DEF bytes
  <2>2. /\ SubSeq(bytes, 1, BodyLen) \in Seq(SmallByte) /\ Len(SubSeq(bytes, 1, BodyLen)) = BodyLen
        /\ \A i \in 1 .. BodyLen : SubSeq(bytes, 1, BodyLen)[i] = bytes[i]
    BY <1>4, <2>1
  <2>3. SubSeq(bytes, 1, BodyLen) = body
    <3> DEFINE t == SubSeq(bytes, 1, BodyLen)
    <3>1. t \in Seq(SmallByte) /\ Len(t) = Len(body) /\ \A i \in 1 .. Len(t) : t[i] = body[i]
      BY <1>4, <2>1, <2>2
    <3> HIDE DEF t
    <3>2. t = body
      BY <1>4, <3>1, SeqEqual
    <3> QED
      BY <3>2 DEF t
  <2> QED
    BY <1>4, <2>1, <2>3
<1>7. CutOff(bytes) = body
  BY <1>4, <1>6 DEF CutOff
<1>8. AddressOf(chain, hash) = Base58Encode(bytes)
  BY DEF AddressOf, body, x
<1> HIDE DEF bytes
<1>9. /\ DecodeCut(Base58Encode(bytes)) = CutOff(bytes)
      /\ DecodeWhole(Base58Encode(bytes)) = bytes
  <2>1. 3 \in 1 .. Len(bytes) /\ bytes[3] # 0
    BY <1>4, <1>6
  <2> QED
    BY <1>6, <2>1, Base58Back
<1> QED
  BY <1>7, <1>8, <1>9, Zenon DEF AddressIsRead, OwnerOf, body
===============================================================================
