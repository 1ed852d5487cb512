-------------------------- MODULE TokenSummaryProofs --------------------------
(***************************************************************************)
(* Type correctness of TokenSummary and its safety properties: for any     *)
(* addresses and holdings, any number of queries at a time and of failing  *)
(* calls.                                                                  *)
(***************************************************************************)
EXTENDS TokenSummary, FoldProofs

-----------------------------------------------------------------------------
(* The invariant. *)

\* The goroutines that have handed over their results.
Handed == {a \in Address : thread[a] \in {"releasing", "ended"}}

\* Each result is in the channel once.
Channelled ==
    /\ \A m, n \in 1 .. Len(results) : results[m] = results[n] => m = n
    /\ \A n \in 1 .. Len(results) : results[n] \in Handed

\* An address is in the list once, with its answer, after its result has left the channel.
Listed ==
    /\ \A m, n \in 1 .. Len(list) : list[m].address = list[n].address => m = n
    /\ \A n \in 1 .. Len(list) :
        /\ list[n].address \in Handed
        /\ \A m \in 1 .. Len(results) : results[m] # list[n].address
        /\ list[n].balance = answer[list[n].address]

\* A result handed over is in the channel or has been counted.
QueryInv ==
    /\ BalancesTypeOK /\ Channelled /\ Listed
    /\ call = "none" => Idle
    /\ call # "none" => counted + Len(results) = Cardinality(Handed)
    /\ call = "returned" => Collected

CoinsOf(a) == [address : {a}, value : Nat \ {0}, nr : Nat]
AnyCoin    == [address : Address, value : Nat \ {0}, nr : Nat]
Item       == [address : Address, balance : Nat]

\* A token transfer that could be made, and one that gathers tokens.
IsTransfer(t) == t.kind # "support" /\ t.error = "none"
IsSummary(t)  == t.kind = "summary" /\ t.error = "none"

TransferOK(t) ==
    /\ t.sender \in Address /\ t.amount \in Nat
    /\ t.inputs \in Seq(AnyCoin) /\ t.change \in Nat \ {0}

TransactionOK(t) ==
    /\ t.kind \in {"support", "summary", "payment"}
    /\ t.kind = "support" => t.to \subseteq Address
    /\ IsTransfer(t) => TransferOK(t)

LedgerTypes ==
    /\ {tokens, locked, minted, paid} \subseteq [Address -> Nat]
    /\ DOMAIN coins = Address /\ \A a \in Address : coins[a] \in Seq(CoinsOf(a))
    /\ support \in Nat /\ supportLocked \in Nat

RoundTypes ==
    /\ pc \in {"idle", "balances", "check", "support", "build", "pay"}
    /\ todo \in Seq(Item) /\ budget \in Nat /\ toMap \subseteq Address
    /\ isContract \in BOOLEAN

BoundTypes == failures \in 0 .. MaxFailures /\ traffic \in Nat

Types ==
    /\ LedgerTypes /\ RoundTypes /\ BoundTypes
    /\ \A t \in built \cup pool : TransactionOK(t)

\* Where the round is; meanwhile nothing of an earlier round is under way.
Phases ==
    /\ call = "none" <=> pc # "balances"
    /\ pc # "idle" => /\ \A t \in pool : ~OfRound(t)
                      /\ \A t \in built : t.kind # "support"
    /\ pc \in {"support", "build"} => todo # <<>> /\ Worthwhile(Current.balance)
    /\ pc \in {"idle", "balances"} => toMap = {}
    /\ pc = "balances" => \A t \in built : ~OfRound(t)
    /\ pc = "pay" => toMap # {}
    /\ \A t \in pool : t.error = "none" /\ (OfRound(t) => t \notin built)

\* What is left and what is set aside was there when the round began.
SetAside == pc # "idle" => budget + CostOfOne * Cardinality(toMap) <= SupportBalance

\* There is one support payment at most; one that could be made has its coins.
Supported ==
    \A t \in built \cup pool : t.kind = "support" =>
        /\ t.error = "none" => CostOfAll(t.to) <= support
        /\ \A u \in built \cup pool : u.kind = "support" => u = t

\* The tokens of each address, with those paid from it since the round began.
Held == [a \in Address |-> tokens[a] + paid[a]]

\* The items q are there: one of each address, that held the tokens and from which no
\* summary has been made.
Pending(q, held, made) ==
    /\ \A m, n \in 1 .. Len(q) : q[m].address = q[n].address => m = n
    /\ \A n \in 1 .. Len(q) :
        /\ q[n].balance <= held[q[n].address]
        /\ \A t \in made : IsSummary(t) => t.sender # q[n].address

\* No address holds fewer tokens than were read of it, until they are gathered.
Known ==
    /\ \A a \in Address : answer[a] <= Held[a]
    /\ pc \in {"check", "support", "build"} => Pending(todo, Held, built)

\* A summary takes no more than leaves the balance to retain, and pays its fee; there is
\* no other from the same address.
Retaining ==
    \A t \in built \cup pool : IsSummary(t) =>
        /\ t.amount + RetainedBalance <= Held[t.sender]
        /\ SumOf(t.inputs) - t.change = Fee
        /\ \A u \in built \cup pool : IsSummary(u) /\ u.sender = t.sender => u = t

Inv == QueryInv /\ Types /\ Phases /\ SetAside /\ Supported /\ Known /\ Retaining

-----------------------------------------------------------------------------
(* The operators on coins. *)

\* Sorting keeps to the coins: each has a place of its own.
LEMMA AscendingType ==
  ASSUME NEW S, \A c \in S : c.value \in Nat, NEW cs \in Seq(S)
  PROVE  Ascending(cs) \in Seq(S)
<1> DEFINE n == Len(cs)
           Upto(i) == {j \in DOMAIN cs : \/ cs[j].value < cs[i].value
                                         \/ cs[j].value = cs[i].value /\ j <= i}
           place == [i \in 1 .. n |-> Place(cs, i)]
<1>1. /\ n \in Nat /\ DOMAIN cs = 1 .. n
      /\ IsFiniteSet(1 .. n) /\ Cardinality(1 .. n) = n
      /\ \A i \in 1 .. n : cs[i] \in S /\ cs[i].value \in Nat
  <2>1. n \in Nat /\ DOMAIN cs = 1 .. n /\ \A i \in 1 .. n : cs[i] \in S
    BY LenProperties, ElementOfSeq
  <2> HIDE DEF n
  <2>2. IsFiniteSet(1 .. n) /\ Cardinality(1 .. n) = n
    BY <2>1, FS_Interval
  <2> QED
    BY <2>1, <2>2
<1>2. \A i \in 1 .. n : Place(cs, i) = Cardinality(Upto(i))
  BY DEF Place
<1>3. ASSUME NEW i \in 1 .. n
      PROVE  /\ i \in Upto(i) /\ Upto(i) \in SUBSET (1 .. n) /\ IsFiniteSet(Upto(i))
             /\ Cardinality(Upto(i)) \in 1 .. n
  <2>1. i \in Upto(i) /\ Upto(i) \in SUBSET (1 .. n)
    BY <1>1
  <2> HIDE DEF Upto
  <2>2. IsFiniteSet(Upto(i)) /\ Cardinality(Upto(i)) <= n
    BY <1>1, <2>1, FS_Subset
  <2>3. Cardinality(Upto(i)) \in Nat /\ Cardinality(Upto(i)) # 0
    BY <2>1, <2>2, FS_CardinalityType, FS_EmptySet
  <2> QED
    BY <1>1, <2>1, <2>2, <2>3
<1>4. ASSUME NEW i \in 1 .. n, NEW j \in 1 .. n,
             \/ cs[i].value < cs[j].value
             \/ cs[i].value = cs[j].value /\ i < j
      PROVE  Cardinality(Upto(i)) # Cardinality(Upto(j))
  <2>1. Upto(i) \subseteq Upto(j) /\ j \notin Upto(i)
    BY <1>1, <1>4
  <2>2. j \in Upto(j) /\ IsFiniteSet(Upto(j))
    BY <1>3
  <2> HIDE DEF Upto
  <2> QED
    BY <2>1, <2>2, FS_Subset
<1>5. \A i, j \in 1 .. n : Cardinality(Upto(i)) = Cardinality(Upto(j)) => i = j
  <2> SUFFICES ASSUME NEW i \in 1 .. n, NEW j \in 1 .. n, i # j
               PROVE  Cardinality(Upto(i)) # Cardinality(Upto(j))
    OBVIOUS
  <2>1. \/ cs[i].value < cs[j].value
        \/ cs[i].value = cs[j].value /\ i < j
        \/ cs[j].value < cs[i].value
        \/ cs[j].value = cs[i].value /\ j < i
    <3>1. cs[i].value \in Nat /\ cs[j].value \in Nat /\ i \in Int /\ j \in Int
      BY <1>1
    <3> HIDE DEF Upto, place, n
    <3> QED
      BY <3>1
  <2> HIDE DEF Upto
  <2> QED
    BY <1>4, <2>1
<1>6. place \in Injection(1 .. n, 1 .. n)
  <2>1. place \in [1 .. n -> 1 .. n]
    BY <1>2, <1>3
  <2>2. \A i, j \in 1 .. n : place[i] = place[j] => i = j
    BY <1>2, <1>5
  <2> HIDE DEF place
  <2> QED
    BY <2>1, <2>2 DEF Injection, IsInjective
<1>7. place \in Surjection(1 .. n, 1 .. n)
  <2> HIDE DEF place
  <2> QED
    BY <1>1, <1>6, FS_Injection
<1>8. \A k \in 1 .. n : \E i \in 1 .. n : Place(cs, i) = k
  BY <1>7 DEF Surjection
<1>9. \A k \in 1 .. n : cs[CHOOSE i \in DOMAIN cs : Place(cs, i) = k] \in S
  <2> SUFFICES ASSUME NEW k \in 1 .. n
               PROVE  (CHOOSE i \in DOMAIN cs : Place(cs, i) = k) \in 1 .. n
    BY <1>1
  <2>1. \E i \in DOMAIN cs : Place(cs, i) = k
    BY <1>1, <1>8
  <2>2. (CHOOSE i \in DOMAIN cs : Place(cs, i) = k) \in DOMAIN cs
    BY <2>1, Zenon
  <2> QED
    BY <1>1, <2>2
<1>10. Ascending(cs) = [k \in 1 .. n |-> cs[CHOOSE i \in DOMAIN cs : Place(cs, i) = k]]
  BY <1>1 DEF Ascending
<1> QED
  BY <1>1, <1>9, <1>10, SeqDef

\* A coin is put in, or taken out, of coins.
LEMMA PutInType ==
  ASSUME NEW S, NEW cs \in Seq(S), NEW c \in S, NEW i \in 1 .. Len(cs) + 1
  PROVE  InsertAt(cs, i, c) \in Seq(S)
<1>1. \A j \in 1 .. Len(cs) : cs[j] \in S
  BY ElementOfSeq
<1>2. SubSeq(cs, 1, i - 1) \in Seq(S) /\ SubSeq(cs, i, Len(cs)) \in Seq(S)
  <2>1. i \in Int /\ Len(cs) \in Nat
    BY LenProperties
  <2>2. SubSeq(cs, 1, i - 1) \in Seq(S)
    BY <1>1, <2>1, SubSeqProperties
  <2>3. SubSeq(cs, i, Len(cs)) \in Seq(S)
    BY <1>1, <2>1, SubSeqProperties
  <2> QED
    BY <2>2, <2>3
<1>3. <<c>> \in Seq(S)
  OBVIOUS
<1>4. SubSeq(cs, 1, i - 1) \o <<c>> \in Seq(S)
  BY <1>2, <1>3, ConcatProperties
<1>5. (SubSeq(cs, 1, i - 1) \o <<c>>) \o SubSeq(cs, i, Len(cs)) \in Seq(S)
  BY <1>2, <1>4, ConcatProperties
<1> QED
  BY <1>5 DEF InsertAt

\* What is left of a list of coins is a list of coins.
LEMMA TakenOutType ==
  ASSUME NEW S, NEW cs \in Seq(S), NEW c
  PROVE  RemoveFirst(cs, c) \in Seq(S)
<1> DEFINE I == {i \in 1 .. Len(cs) : cs[i] = c}
<1>1. CASE I = {}
  <2>1. ~ \E i \in 1 .. Len(cs) : cs[i] = c
    BY <1>1
  <2> QED
    BY <2>1, Zenon DEF RemoveFirst
<1>2. CASE I # {}
  <2>1. I \in SUBSET Nat
    OBVIOUS
  <2>2. Min(I) \in I
    <3> HIDE DEF I
    <3> QED
      BY <1>2, <2>1, MinOfNumbers
  <2>3. \E i \in 1 .. Len(cs) : cs[i] = c
    BY <1>2
  <2>4. RemoveFirst(cs, c) = RemoveAt(cs, Min(I))
    BY <1>2, <2>3, Zenon DEF RemoveFirst, SelectInSeq
  <2>5. Min(I) \in 1 .. Len(cs) /\ Len(cs) \in Nat
    BY <2>2, LenProperties
  <2> HIDE DEF I
  <2>6. \A j \in 1 .. Len(cs) : cs[j] \in S
    BY ElementOfSeq
  <2>7. SubSeq(cs, 1, Min(I) - 1) \in Seq(S)
    BY <2>5, <2>6, SubSeqProperties
  <2>8. SubSeq(cs, Min(I) + 1, Len(cs)) \in Seq(S)
    BY <2>5, <2>6, SubSeqProperties
  <2>9. SubSeq(cs, 1, Min(I) - 1) \o SubSeq(cs, Min(I) + 1, Len(cs)) \in Seq(S)
    BY <2>7, <2>8, ConcatProperties
  <2> QED
    BY <2>4, <2>9 DEF RemoveAt
<1> QED
  BY <1>1, <1>2

\* A list of coins with one more is a list of coins.
LEMMA WithType ==
  ASSUME NEW S, \A d \in S : d.value \in Nat, NEW cs \in Seq(S), NEW c \in S
  PROVE  With(cs, c) \in Seq(S)
<1> DEFINE less == {i \in DOMAIN cs : cs[i].value < c.value}
<1>1. less \in SUBSET (1 .. Len(cs)) /\ Len(cs) \in Nat
  BY LenProperties
<1>2. IsFiniteSet(1 .. Len(cs)) /\ Cardinality(1 .. Len(cs)) = Len(cs)
  BY <1>1, FS_Interval
<1> HIDE DEF less
<1>3. IsFiniteSet(less) /\ Cardinality(less) <= Len(cs)
  BY <1>1, <1>2, FS_Subset
<1>4. Cardinality(less) \in Nat
  BY <1>3, FS_CardinalityType
<1>5. 1 + Cardinality(less) \in 1 .. Len(cs) + 1
  BY <1>1, <1>3, <1>4
<1>6. InsertAt(cs, 1 + Cardinality(less), c) \in Seq(S)
  BY <1>5, PutInType
<1> QED
  BY <1>6 DEF With, less

\* The coins that have been used are taken out, one after the other.
LEMMA LessType ==
  ASSUME NEW S, NEW cs \in Seq(S), NEW T, NEW used \in Seq(T)
  PROVE  Less(cs, used) \in Seq(S)
<1> DEFINE n == Len(used)
           D == 1 .. n
           R == Seq(S)
           C == [s \in SUBSET D |-> Max(s)]
           G == [p \in D \X R |-> RemoveFirst(p[2], used[p[1]])]
           Rec(F) == [s \in SUBSET D |-> IF s = {} THEN cs
                        ELSE RemoveFirst(F[s \ {Max(s)}], used[Max(s)])]
           Fold == CHOOSE F : F = Rec(F)
<1>1. DOMAIN used = D /\ n \in Nat /\ IsFiniteSet(D)
  BY LenProperties, FS_Interval
<1>2. Less(cs, used) = Fold[D]
  <2>1. Less(cs, used) =
          (CHOOSE F : F = [s \in SUBSET (DOMAIN used) |-> IF s = {} THEN cs
                        ELSE RemoveFirst(F[s \ {Max(s)}], used[Max(s)])])[DOMAIN used]
    BY Zenon DEF Less, FoldLeft, MapThenFoldSet
  <2> HIDE DEF D
  <2> QED
    BY <1>1, <2>1, Zenon
<1>3. Chooses(C, D)
  BY <1>1, MaxChooses
<1>4. \A x \in D, r \in R : G[<<x, r>>] = RemoveFirst(r, used[x]) /\ G[<<x, r>>] \in R
  <2> SUFFICES ASSUME NEW x \in D, NEW r \in R
               PROVE  G[<<x, r>>] = RemoveFirst(r, used[x]) /\ RemoveFirst(r, used[x]) \in R
    OBVIOUS
  <2>1. <<x, r>> \in D \X R
    OBVIOUS
  <2>2. G[<<x, r>>] = RemoveFirst(<<x, r>>[2], used[<<x, r>>[1]])
    BY <2>1, Zenon
  <2>3. RemoveFirst(r, used[x]) \in R
    BY TakenOutType
  <2> QED
    BY <2>2, <2>3
<1>5. PICK H : IsFold(H, D, C, G, cs) /\ \A s \in SUBSET D : H[s] \in R
  <2>1. \A x \in D, r \in R : G[<<x, r>>] \in R
    <3> HIDE DEF D, C, G, R
    <3> QED
      BY <1>4
  <2>2. cs \in R
    OBVIOUS
  <2> HIDE DEF D, C, G, R
  <2> QED
    BY <1>1, <1>3, <2>1, <2>2, FoldInside
<1>6. H = Rec(H)
  <2>1. ASSUME NEW s \in SUBSET D, s # {}
        PROVE  Step(H, s, C, G, cs) = RemoveFirst(H[s \ {Max(s)}], used[Max(s)])
    <3>1. C[s] = Max(s) /\ C[s] \in D /\ s \ {Max(s)} \in SUBSET D
      BY <1>3, <2>1 DEF Chooses
    <3>2. G[<<C[s], H[s \ {C[s]}]>>] = RemoveFirst(H[s \ {C[s]}], used[C[s]])
      <4> HIDE DEF C, G, R
      <4> QED
        BY <1>4, <1>5, <3>1
    <3> HIDE DEF C, G
    <3> QED
      BY <2>1, <3>1, <3>2 DEF Step
  <2>2. \A s \in SUBSET D : Step(H, s, C, G, cs) =
          IF s = {} THEN cs ELSE RemoveFirst(H[s \ {Max(s)}], used[Max(s)])
    <3> HIDE DEF C, G, D
    <3> QED
      BY <2>1 DEF Step
  <2> HIDE DEF C, G, D
  <2> QED
    BY <1>5, <2>2 DEF IsFold
<1>7. Fold = Rec(Fold)
  <2>1. \E F : F = Rec(F)
    BY <1>6
  <2> QED
    BY <2>1, Zenon
<1> HIDE DEF Fold
<1>8. \A s \in SUBSET D : Fold[s] \in R
  <2>1. Fold[{}] \in R
    <3>1. Fold[{}] = Rec(Fold)[{}]
      BY <1>7, Zenon
    <3> QED
      BY <3>1
  <2>2. ASSUME NEW s \in SUBSET D, s # {}, Fold[s \ {C[s]}] \in R
        PROVE  Fold[s] \in R
    <3>1. C[s] = Max(s) /\ C[s] \in D
      BY <1>3, <2>2 DEF Chooses
    <3>2. Fold[s] = Rec(Fold)[s]
      BY <1>7, Zenon
    <3>3. Fold[s] = RemoveFirst(Fold[s \ {Max(s)}], used[Max(s)])
      BY <2>2, <3>2, Zenon
    <3> HIDE DEF C
    <3> QED
      BY <1>1, <2>2, <3>1, <3>3, TakenOutType
  <2> HIDE DEF C, D, R
  <2> QED
    BY <1>1, <1>3, <2>1, <2>2, SubsetInduction
<1> QED
  BY <1>2, <1>8

-----------------------------------------------------------------------------
(* Token transfers. *)

IsView(v) == v.address \in Address /\ v.tokens \in Nat /\ v.coins \in Seq(AnyCoin)

\* Nothing comes of nothing.
LEMMA JoinNothing ==
  ASSUME NEW seqs, DOMAIN seqs = {}
  PROVE  FoldLeft(\o, <<>>, seqs) = <<>>
<1> DEFINE Rec(F) == [s \in SUBSET {} |-> IF s = {} THEN <<>>
                        ELSE F[s \ {Max(s)}] \o seqs[Max(s)]]
           Fold == CHOOSE F : F = Rec(F)
<1>1. FoldLeft(\o, <<>>, seqs) = Fold[{}]
  <2>1. FoldLeft(\o, <<>>, seqs) =
          (CHOOSE F : F = [s \in SUBSET (DOMAIN seqs) |-> IF s = {} THEN <<>>
                        ELSE F[s \ {Max(s)}] \o seqs[Max(s)]])[DOMAIN seqs]
    BY Zenon DEF FoldLeft, MapThenFoldSet
  <2> QED
    BY <2>1, Zenon
<1>2. [s \in SUBSET {} |-> <<>>] = Rec([s \in SUBSET {} |-> <<>>])
  OBVIOUS
<1>3. Fold = Rec(Fold)
  BY <1>2, Zenon
<1> HIDE DEF Fold
<1>4. Fold[{}] = Rec(Fold)[{}]
  BY <1>3, Zenon
<1>5. Rec(Fold)[{}] = <<>>
  OBVIOUS
<1> QED
  BY <1>1, <1>4, <1>5

\* The transfer made of the view: its inputs are the coins used and those left over.
MadeOf(made, view, used, amount) ==
    /\ made.sender = view.address /\ made.amount = amount
    /\ view.tokensRead /\ amount <= view.tokens
    /\ made.inputs \in Seq(AnyCoin) /\ used \in Seq(AnyCoin) /\ SumOf(used) \in Nat
    /\ made.change = SumOf(used) - Fee /\ made.change \in Nat \ {0}

\* A transfer that can be made.  From the first of the views nothing is left over.
LEMMA Made ==
  ASSUME NEW views, NEW n \in Nat, DOMAIN views = 1 .. n, \A i \in 1 .. n : IsView(views[i]),
         NEW amount \in Nat, CreateNrc20(views, amount).error = "none"
  PROVE  \E s \in 1 .. n : LET made == CreateNrc20(views, amount)
                               used == Take(views[s].coins, Fee)
           IN  MadeOf(made, views[s], used, amount) /\ (s = 1 => made.inputs = used)
<1> DEFINE able    == {i \in DOMAIN views : MaySend(views[i], amount)}
           senders == {i \in able : Reaches(views[i])}
           s       == Min(senders)
           passed  == [i \in 1 .. s - 1 |-> IF i \in able THEN views[i].coins ELSE <<>>]
           left    == FoldLeft(\o, <<>>, passed)
           used    == Take(views[s].coins, Fee)
           made    == CreateNrc20(views, amount)
<1>1. made = CASE senders = {}          -> Error("no address can send")
               [] views[s].tokens = 0   -> Error("no tokens")
               [] Change(used) <= 0     -> Error("no output")
               [] OTHER -> [error |-> "none", sender |-> views[s].address, amount |-> amount,
                            inputs |-> left \o used, change |-> Change(used)]
  BY Zenon DEF CreateNrc20
<1>2. /\ senders # {} /\ ~(Change(used) <= 0)
      /\ made = [error |-> "none", sender |-> views[s].address, amount |-> amount,
                 inputs |-> left \o used, change |-> Change(used)]
  <2> HIDE DEF senders, s, left, used
  <2>1. /\ Error("no address can send").error # "none"
        /\ Error("no tokens").error # "none"
        /\ Error("no output").error # "none"
    BY DEF Error
  <2> QED
    BY <1>1, <2>1
<1>3. s \in senders
  <2>1. senders \in SUBSET Nat
    OBVIOUS
  <2> HIDE DEF senders
  <2> QED
    BY <1>2, <2>1, MinOfNumbers
<1>4. s \in 1 .. n /\ views[s].tokensRead /\ views[s].tokens >= amount
  BY <1>3 DEF MaySend
<1> HIDE DEF s
<1>5. used \in Seq(AnyCoin) /\ SumOf(used) \in Nat
  <2>1. views[s].coins \in Seq(AnyCoin)
    BY <1>4 DEF IsView
  <2>2. used \in Seq(AnyCoin)
    BY <2>1, TakeType
  <2>3. \A c \in AnyCoin : c.value \in Nat
    BY DEF AnyCoin
  <2> HIDE DEF used
  <2> QED
    BY <2>2, <2>3, SumOfNat
<1>6. left \in Seq(AnyCoin)
  <2>1. \A i \in 1 .. s - 1 : views[i].coins \in Seq(AnyCoin)
    BY <1>4 DEF IsView
  <2>2. s - 1 \in Nat /\ \A i \in 1 .. s - 1 : passed[i] \in Seq(AnyCoin)
    BY <1>4, <2>1
  <2>3. passed \in [1 .. s - 1 -> Seq(AnyCoin)]
    BY <2>2
  <2>4. passed \in Seq(Seq(AnyCoin))
    <3> HIDE DEF passed
    <3> QED
      BY <2>2, <2>3, SeqDef
  <2> HIDE DEF passed
  <2> QED
    BY <2>4, JoinType
<1>7. s = 1 => left \o used = used
  <2> SUFFICES ASSUME s = 1 PROVE left = <<>>
    BY <1>5, ConcatEmptySeq
  <2>1. DOMAIN passed = {}
    OBVIOUS
  <2> HIDE DEF passed
  <2> QED
    BY <2>1, JoinNothing
<1>8. left \o used \in Seq(AnyCoin)
  BY <1>5, <1>6, ConcatProperties
<1>9. Change(used) = SumOf(used) - Fee /\ Change(used) \in Nat \ {0}
  <2> HIDE DEF used
  <2>1. Change(used) = SumOf(used) - Fee
    BY DEF Change
  <2>2. ~(Change(used) <= 0)
    BY <1>2
  <2> QED
    BY <1>5, <2>1, <2>2, TransferAssumption
<1> HIDE DEF left, used, made
<1>10. made.sender = views[s].address /\ made.amount = amount
  BY <1>2
<1>11. made.inputs = left \o used /\ made.change = Change(used)
  BY <1>2
<1> QED
  BY <1>4, <1>5, <1>7, <1>8, <1>9, <1>10, <1>11 DEF used, made, MadeOf

-----------------------------------------------------------------------------
(* The queries of the balances. *)

\* The addresses are finitely many, and there is room for one at least.
LEMMA AddressIsFinite ==
  /\ IsFiniteSet(Address) /\ Count \in Nat
  /\ Slots \in Nat \ {0} /\ Buffer \in Nat \ {0}
BY BalancesAssumption, FS_CardinalityType DEF Count

\* A step of the round leaves the query as it is.
LEMMA QueryStays ==
  ASSUME QueryInv, UNCHANGED balances
  PROVE  QueryInv'
BY DEF QueryInv, balances, BalancesTypeOK, Channelled, Listed, Handed, Idle, Collected

\* Nothing has been handed over when a call begins.
LEMMA QueryCall ==
  ASSUME QueryInv, Call
  PROVE  QueryInv'
<1>1. BalancesTypeOK'
  BY AddressIsFinite DEF Call, BalancesTypeOK
<1>2. Channelled' /\ Listed'
  BY DEF Call, Channelled, Listed
<1>3. Handed' = {} /\ Cardinality({}) = 0
  BY FS_EmptySet DEF Call, Handed
<1> QED
  BY <1>1, <1>2, <1>3 DEF QueryInv, Call

\* The goroutines that are there are gone with the call.
LEMMA QueryLeave ==
  ASSUME QueryInv, Leave
  PROVE  QueryInv'
<1>1. BalancesTypeOK'
  BY AddressIsFinite DEF Leave, BalancesTypeOK
<1>2. Channelled' /\ Listed'
  BY DEF Leave, Channelled, Listed
<1> QED
  BY <1>1, <1>2 DEF QueryInv, Leave, Idle

\* What a goroutine does before it hands over its result.
LEMMA QueryMoves ==
  ASSUME QueryInv, NEW a \in Address, call # "none",
         UNCHANGED <<call, results, counted, list>>,
         Handed' = Handed, thread' \in [Address -> {"waiting", "asking", "sending", "releasing", "ended"}],
         answer' \in [Address -> Nat \cup {Failed}],
         \A b \in Handed : answer'[b] = answer[b]
  PROVE  QueryInv'
<1>1. BalancesTypeOK'
  BY DEF QueryInv, BalancesTypeOK
<1>2. Channelled'
  BY DEF QueryInv, Channelled
<1>3. Listed'
  BY DEF QueryInv, Listed
<1> QED
  BY <1>1, <1>2, <1>3 DEF QueryInv, Collected

\* A thread takes a slot.
LEMMA QueryTakeSlot ==
  ASSUME QueryInv, NEW a \in Address, TakeSlot(a)
  PROVE  QueryInv'
<1>1. thread' \in [Address -> {"waiting", "asking", "sending", "releasing", "ended"}]
  BY DEF QueryInv, BalancesTypeOK, TakeSlot
<1>2. Handed' = Handed
  BY DEF QueryInv, BalancesTypeOK, TakeSlot, Handed
<1> QED
  BY <1>1, <1>2, QueryMoves DEF TakeSlot, QueryInv, BalancesTypeOK

\* A goroutine that is asking belongs to a call.
LEMMA QueryRuns ==
  ASSUME QueryInv, NEW a \in Address, thread[a] # "ended"
  PROVE  call # "none"
BY DEF QueryInv, Idle

\* A thread has the answer for its address.
LEMMA QueryAsk ==
  ASSUME QueryInv, NEW a \in Address, NEW r \in Nat \cup {Failed}, Ask(a, r)
  PROVE  QueryInv'
<1>1. /\ thread' \in [Address -> {"waiting", "asking", "sending", "releasing", "ended"}]
      /\ answer' \in [Address -> Nat \cup {Failed}]
  BY DEF QueryInv, BalancesTypeOK, Ask
<1>2. Handed' = Handed /\ a \notin Handed
  BY DEF QueryInv, BalancesTypeOK, Ask, Handed
<1>3. \A b \in Handed : answer'[b] = answer[b]
  BY <1>2 DEF QueryInv, BalancesTypeOK, Ask, Handed
<1>4. call # "none"
  BY QueryRuns DEF Ask
<1> QED
  BY <1>1, <1>2, <1>3, <1>4, QueryMoves DEF Ask

\* A thread gives its slot back.
LEMMA QueryRelease ==
  ASSUME QueryInv, NEW a \in Address, ReleaseSlot(a)
  PROVE  QueryInv'
<1>1. thread' \in [Address -> {"waiting", "asking", "sending", "releasing", "ended"}]
  BY DEF QueryInv, BalancesTypeOK, ReleaseSlot
<1>2. Handed' = Handed
  BY DEF QueryInv, BalancesTypeOK, ReleaseSlot, Handed
<1>3. call # "none"
  BY QueryRuns DEF ReleaseSlot
<1> QED
  BY <1>1, <1>2, <1>3, QueryMoves DEF ReleaseSlot, QueryInv, BalancesTypeOK

\* A result more is in the channel, and a goroutine more has handed over its own.
LEMMA QueryHandOver ==
  ASSUME QueryInv, NEW a \in Address, HandOver(a)
  PROVE  QueryInv'
<1>1. BalancesTypeOK'
  <2>1. thread' \in [Address -> {"waiting", "asking", "sending", "releasing", "ended"}]
    BY DEF QueryInv, BalancesTypeOK, HandOver
  <2>2. results' \in Seq(Address) /\ Len(results') = Len(results) + 1 /\ Len(results) \in Nat
    BY AppendProperties, LenProperties DEF QueryInv, BalancesTypeOK, HandOver
  <2> QED
    BY <2>1, <2>2, AddressIsFinite DEF QueryInv, BalancesTypeOK, HandOver
<1>2. Handed' = Handed \cup {a} /\ a \notin Handed /\ Handed \subseteq Address
  BY DEF QueryInv, BalancesTypeOK, HandOver, Handed
<1>3. /\ Len(results') = Len(results) + 1 /\ Len(results) \in Nat
      /\ \A n \in 1 .. Len(results) : results'[n] = results[n]
      /\ results'[Len(results) + 1] = a
  BY AppendProperties, LenProperties DEF QueryInv, BalancesTypeOK, HandOver
<1>4. Channelled'
  <2>1. \A n \in 1 .. Len(results) : results[n] # a
    BY <1>2 DEF QueryInv, Channelled
  <2>2. \A n \in 1 .. Len(results') : n \in 1 .. Len(results) \/ n = Len(results) + 1
    BY <1>3
  <2> QED
    BY <1>2, <1>3, <2>1, <2>2 DEF QueryInv, Channelled
<1>5. Listed'
  <2>1. list' = list /\ answer' = answer
    BY DEF HandOver
  <2>2. \A n \in 1 .. Len(list) : list[n].address \in Handed /\ list[n].address # a
    BY <1>2 DEF QueryInv, Listed
  <2>3. \A n \in 1 .. Len(results') : n \in 1 .. Len(results) \/ n = Len(results) + 1
    BY <1>3
  <2>4. ASSUME NEW n \in 1 .. Len(list), NEW m \in 1 .. Len(results')
        PROVE  results'[m] # list[n].address
    BY <1>3, <2>2, <2>3 DEF QueryInv, Listed
  <2> QED
    BY <1>2, <2>1, <2>2, <2>4 DEF QueryInv, Listed
<1>6. Cardinality(Handed') = Cardinality(Handed) + 1 /\ Cardinality(Handed) \in Nat
  <2>1. IsFiniteSet(Handed)
    BY <1>2, AddressIsFinite, FS_Subset
  <2> QED
    BY <1>2, <2>1, FS_AddElement, FS_CardinalityType
<1>7. call # "none"
  BY QueryRuns DEF HandOver
<1>8. call' = call /\ counted' = counted /\ counted \in Nat
  BY AddressIsFinite DEF HandOver, QueryInv, BalancesTypeOK
<1>9. counted' + Len(results') = Cardinality(Handed')
  BY <1>3, <1>6, <1>7, <1>8 DEF QueryInv
<1> QED
  BY <1>1, <1>4, <1>5, <1>7, <1>8, <1>9 DEF QueryInv, Collected

\* The first result leaves the channel and is counted; when it is a balance, it is
\* put in the list.
LEMMA QueryCollect ==
  ASSUME QueryInv, Collect
  PROVE  QueryInv'
<1> DEFINE h == Head(results)
           k == Len(results)
           n == Len(list)
<1>1. /\ results \in Seq(Address) /\ results # <<>> /\ k \in Nat /\ k >= 1
      /\ h = results[1] /\ h \in Address
      /\ results' \in Seq(Address) /\ Len(results') = k - 1
      /\ \A i \in 1 .. k - 1 : results'[i] = results[i + 1]
  <2>1. results \in Seq(Address) /\ results # <<>> /\ results' = Tail(results)
    BY DEF QueryInv, BalancesTypeOK, Collect
  <2>2. k \in Nat /\ k # 0
    BY <2>1, LenProperties, EmptySeq
  <2>3. h = results[1] /\ h \in Address
    BY <2>1, HeadTailProperties
  <2>4. results' \in Seq(Address) /\ Len(results') = k - 1
    BY <2>1, HeadTailProperties
  <2>5. \A i \in 1 .. k - 1 : results'[i] = results[i + 1]
    BY <2>1, HeadTailProperties
  <2> QED
    BY <2>1, <2>2, <2>3, <2>4, <2>5
<1>2. UNCHANGED <<call, thread, answer>> /\ Handed' = Handed /\ call # "none"
  BY DEF Collect, Handed
<1>3. list \in Seq(Item) /\ n \in Nat /\ \A i \in 1 .. n : list[i] \in Item
  BY LenProperties, ElementOfSeq DEF QueryInv, BalancesTypeOK, Item
<1>4. /\ h \in Handed
      /\ \A i \in 1 .. n : list[i].address # h
  <2> HIDE DEF h, n
  <2>1. h \in Handed
    BY <1>1 DEF QueryInv, Channelled
  <2>2. \A i \in 1 .. Len(list) : list[i].address # h
    BY <1>1 DEF QueryInv, Listed
  <2> QED
    BY <2>1, <2>2 DEF n
<1>5. \A i \in 1 .. Len(results') : results'[i] # h
  <2> SUFFICES ASSUME NEW i \in 1 .. k - 1 PROVE results'[i] # h
    BY <1>1
  <2>1. results'[i] = results[i + 1] /\ i + 1 \in 1 .. k /\ 1 \in 1 .. k /\ i + 1 # 1
    BY <1>1
  <2> QED
    BY <1>1, <2>1 DEF QueryInv, Channelled
<1>6. Channelled'
  <2>1. \A i \in 1 .. Len(results') : /\ i + 1 \in 1 .. k /\ results'[i] = results[i + 1]
                                      /\ i \in Int
    BY <1>1
  <2>2. ASSUME NEW i \in 1 .. Len(results'), NEW j \in 1 .. Len(results'),
               results'[i] = results'[j]
        PROVE  i = j
    <3>1. i + 1 = j + 1
      BY <2>1, <2>2 DEF QueryInv, Channelled
    <3> QED
      BY <2>1, <3>1
  <2>3. \A i \in 1 .. Len(results') : results'[i] \in Handed
    BY <2>1 DEF QueryInv, Channelled
  <2> QED
    BY <1>2, <2>2, <2>3 DEF Channelled
<1>7. \/ list' = list
      \/ /\ list' = Append(list, Result(h)) /\ answer[h] \in Nat
  <2>1. list' = list \o Kept(h)
    BY DEF Collect
  <2>2. answer[h] \in Nat \cup {Failed}
    BY <1>1 DEF QueryInv, BalancesTypeOK
  <2> HIDE DEF h
  <2>3. CASE answer[h] = Failed
    <3>1. Kept(h) = <<>>
      BY <2>3 DEF Kept
    <3> QED
      BY <1>3, <2>1, <3>1, ConcatEmptySeq
  <2>4. CASE answer[h] # Failed
    <3>1. Kept(h) = <<Result(h)>>
      BY <2>4 DEF Kept
    <3>2. Result(h) \in Item
      BY <1>1, <2>2, <2>4 DEF Result, Item
    <3>3. Append(list, Result(h)) = list \o <<Result(h)>>
      BY <1>3, <3>2, AppendIsConcat
    <3> QED
      BY <2>1, <2>2, <2>4, <3>1, <3>3
  <2> QED
    BY <2>3, <2>4
<1>8. Listed' /\ list' \in Seq(Item)
  <2>0. /\ \A i \in 1 .. Len(results') : results'[i] \in Handed /\ i + 1 \in 1 .. k
                                         /\ results'[i] = results[i + 1]
    BY <1>1, <1>2, <1>6 DEF Channelled
  <2>1. CASE list' = list
    <3>1. \A i \in 1 .. Len(list), j \in 1 .. Len(results') : results'[j] # list[i].address
      BY <2>0 DEF QueryInv, Listed
    <3> QED
      BY <1>2, <1>3, <2>1, <3>1 DEF QueryInv, Listed
  <2>2. CASE list' = Append(list, Result(h)) /\ answer[h] \in Nat
    <3>1. Result(h) \in Item /\ Result(h).address = h /\ Result(h).balance = answer[h]
      BY <1>1, <2>2 DEF Result, Item
    <3>2. /\ list' \in Seq(Item) /\ Len(list') = n + 1
          /\ \A i \in 1 .. n : list'[i] = list[i]
          /\ list'[n + 1] = Result(h)
      BY <1>3, <2>2, <3>1, AppendProperties
    <3>3. \A i \in 1 .. Len(list') : i \in 1 .. n \/ i = n + 1
      BY <1>3, <3>2
    <3> HIDE DEF h
    <3>4. \A i, j \in 1 .. Len(list') : list'[i].address = list'[j].address => i = j
      BY <1>4, <3>1, <3>2, <3>3 DEF QueryInv, Listed
    <3>5. ASSUME NEW i \in 1 .. Len(list')
          PROVE  list'[i].address \in Handed /\ list'[i].balance = answer[list'[i].address]
      BY <1>4, <3>1, <3>2, <3>3 DEF QueryInv, Listed
    <3>6. ASSUME NEW i \in 1 .. Len(list'), NEW j \in 1 .. Len(results')
          PROVE  results'[j] # list'[i].address
      BY <1>5, <2>0, <3>1, <3>2, <3>3 DEF QueryInv, Listed
    <3> QED
      BY <1>2, <3>2, <3>4, <3>5, <3>6 DEF Listed
  <2> QED
    BY <1>7, <2>1, <2>2
<1>9. counted' = counted + 1 /\ counted \in Nat /\ counted < Count
  BY AddressIsFinite DEF Collect, QueryInv, BalancesTypeOK
<1>10. BalancesTypeOK'
  BY <1>1, <1>2, <1>8, <1>9, AddressIsFinite DEF QueryInv, BalancesTypeOK, Item
<1>11. counted' + Len(results') = Cardinality(Handed')
  BY <1>1, <1>2, <1>9 DEF QueryInv
<1>12. call' = "running"
  BY DEF Collect
<1> QED
  BY <1>6, <1>8, <1>10, <1>11, <1>12 DEF QueryInv

\* The query returns: the last answer has been collected, and no thread can send.
LEMMA QueryReturn ==
  ASSUME QueryInv, ReturnBalances
  PROVE  QueryInv'
<1>1. Channelled' /\ Listed' /\ Handed' = Handed
  BY DEF QueryInv, ReturnBalances, Channelled, Listed, Handed
<1>2. BalancesTypeOK'
  BY DEF QueryInv, ReturnBalances, BalancesTypeOK
<1> QED
  BY <1>1, <1>2 DEF QueryInv, ReturnBalances, Collected

\* When the call returns, everything has been counted that there is to be handed over.
LEMMA ReturnedIsOver ==
  ASSUME QueryInv, call = "returned"
  PROVE  Handed = Address /\ results = <<>>
<1>1. counted = Count /\ counted + Len(results) = Cardinality(Handed)
  BY DEF QueryInv, Collected
<1>2. Handed \subseteq Address /\ Len(results) \in Nat /\ results \in Seq(Address)
  BY LenProperties DEF Handed, QueryInv, BalancesTypeOK
<1>3. Cardinality(Handed) <= Cardinality(Address) /\ Cardinality(Handed) \in Nat
  BY <1>2, AddressIsFinite, FS_Subset, FS_CardinalityType
<1>4. Cardinality(Handed) = Cardinality(Address) /\ Len(results) = 0
  BY <1>1, <1>2, <1>3, AddressIsFinite DEF Count
<1>5. Handed = Address
  BY <1>2, <1>4, AddressIsFinite, FS_Subset
<1> QED
  BY <1>2, <1>4, <1>5, EmptySeq

\* A list as long as there are addresses has them all.
LEMMA WholeList ==
  ASSUME QueryInv, Complete
  PROVE  {list[i].address : i \in DOMAIN list} = Address
<1> DEFINE n == Len(list)
           place == [i \in 1 .. n |-> list[i].address]
<1>1. /\ list \in Seq(Item) /\ DOMAIN list = 1 .. n /\ n = Count /\ n \in Nat
      /\ \A i \in 1 .. n : list[i].address \in Address
  <2>1. list \in Seq(Item) /\ n = Count /\ n \in Nat
    BY LenProperties DEF QueryInv, BalancesTypeOK, Complete, Item
  <2>2. DOMAIN list = 1 .. n /\ \A i \in 1 .. n : list[i] \in Item
    BY <2>1, LenProperties, ElementOfSeq
  <2> QED
    BY <2>1, <2>2 DEF Item
<1>2. place \in Injection(1 .. n, Address)
  <2>1. place \in [1 .. n -> Address]
    BY <1>1
  <2>2. \A i, j \in 1 .. n : place[i] = place[j] => i = j
    BY DEF QueryInv, Listed
  <2> HIDE DEF place, n
  <2> QED
    BY <2>1, <2>2 DEF Injection, IsInjective
<1>3. place \in Surjection(1 .. n, Address)
  <2>1. IsFiniteSet(1 .. n) /\ Cardinality(1 .. n) = Cardinality(Address)
    <3> HIDE DEF n
    <3> QED
      BY <1>1, FS_Interval DEF Count
  <2> HIDE DEF place, n
  <2> QED
    BY <1>2, <2>1, AddressIsFinite, FS_Injection
<1>4. \A a \in Address : \E i \in 1 .. n : list[i].address = a
  BY <1>3 DEF Surjection
<1> QED
  BY <1>1, <1>4

-----------------------------------------------------------------------------
(* The first state. *)

\* The assumptions on the constants, one by one.
LEMMA Constants ==
  /\ FixSupport \in Nat \ {0} /\ FeeMain \in Nat /\ Fee \in Nat \ {0}
  /\ MinTransfer \in Nat /\ RetainedBalance \in Nat /\ RetainedBalance <= MinTransfer
  /\ Received \in Nat /\ PaymentAmount \in Nat /\ MaxTxInputs \in Nat \ {0}
  /\ MaxTraffic \in Nat /\ MaxFailures \in Nat
  /\ CostOfOne \in Nat
BY SummaryAssumption, TransferAssumption DEF CostOfOne

\* What is held of each address is a number.
LEMMA HeldType ==
  ASSUME LedgerTypes
  PROVE  \A a \in Address : /\ tokens[a] \in Nat /\ paid[a] \in Nat
                            /\ Held[a] = tokens[a] + paid[a] /\ Held[a] \in Nat
BY DEF LedgerTypes, Held

\* The invariant holds in the states the program starts in.
LEMMA InitIsGood ==
  ASSUME Init
  PROVE  Inv
<1>1. QueryInv
  <2>1. BalancesTypeOK
    BY AddressIsFinite DEF Init, Idle, BalancesTypeOK
  <2>2. Channelled /\ Listed
    BY DEF Init, Idle, Channelled, Listed
  <2> QED
    BY <2>1, <2>2 DEF Init, Idle, QueryInv
<1>2. LedgerTypes
  <2> PICK s \in Starts : LET h == s.holdings IN
        /\ support = s.support /\ supportLocked = s.locked
        /\ tokens = [a \in Address |-> h[a].tokens]
        /\ coins = [a \in Address |-> [i \in DOMAIN h[a].coins |-> Coin(a, h[a].coins[i], i)]]
        /\ minted = [a \in Address |-> Len(h[a].coins)]
        /\ locked = [a \in Address |-> h[a].locked]
    BY Zenon DEF Init
  <2> DEFINE h == s.holdings
  <2>1. /\ s.support \in Nat /\ s.locked \in Nat
        /\ \A a \in Address : /\ h[a].tokens \in Nat /\ h[a].coins \in Seq(Nat \ {0})
                              /\ h[a].locked \in Nat
    BY SummaryAssumption, Zenon
  <2>2. ASSUME NEW a \in Address PROVE coins[a] \in Seq(CoinsOf(a)) /\ minted[a] \in Nat
    <3> DEFINE cs == h[a].coins
    <3>1. /\ cs \in Seq(Nat \ {0}) /\ coins[a] = [i \in DOMAIN cs |-> Coin(a, cs[i], i)]
          /\ minted[a] = Len(cs)
      BY <2>1
    <3> HIDE DEF cs, h
    <3>2. /\ DOMAIN cs = 1 .. Len(cs) /\ Len(cs) \in Nat
          /\ \A i \in 1 .. Len(cs) : cs[i] \in Nat \ {0}
      BY <3>1, LenProperties, ElementOfSeq
    <3>3. \A i \in 1 .. Len(cs) : Coin(a, cs[i], i) \in CoinsOf(a)
      BY <3>2 DEF Coin, CoinsOf
    <3>4. coins[a] \in [1 .. Len(cs) -> CoinsOf(a)]
      BY <3>1, <3>2, <3>3
    <3>5. coins[a] \in Seq(CoinsOf(a))
      BY <3>2, <3>4, SeqDef
    <3> QED
      BY <3>1, <3>2, <3>5
  <2>3. /\ tokens \in [Address -> Nat] /\ locked \in [Address -> Nat]
        /\ support \in Nat /\ supportLocked \in Nat /\ minted = [a \in Address |-> minted[a]]
    BY <2>1
  <2>4. DOMAIN coins = Address /\ paid \in [Address -> Nat]
    BY DEF Init
  <2>5. minted \in [Address -> Nat]
    BY <2>2, <2>3
  <2> QED
    BY <2>2, <2>3, <2>4, <2>5 DEF LedgerTypes
<1>3. Types
  BY <1>2, Constants DEF Init, Types, RoundTypes, BoundTypes
<1>4. Phases /\ SetAside
  BY DEF Init, Idle, Phases, SetAside
<1>5. Known
  <2>1. \A a \in Address : answer[a] <= Held[a]
    BY <1>2, HeldType DEF Init, Idle, Failed
  <2> QED
    BY <2>1 DEF Init, Known
<1>6. Supported /\ Retaining
  BY DEF Init, Supported, Retaining
<1> QED
  BY <1>1, <1>3, <1>4, <1>5, <1>6 DEF Inv

-----------------------------------------------------------------------------
(* The steps of a round. *)

\* A call that fails.
LEMMA FailureCounts ==
  ASSUME Types, Failure \/ NoFailure
  PROVE  BoundTypes'
BY Constants DEF Types, BoundTypes, Failure, NoFailure, bounds

\* The ledger as it was.
LEMMA LedgerStays ==
  ASSUME Types, UNCHANGED ledger
  PROVE  /\ LedgerTypes' /\ Held' = Held /\ SupportBalance' = SupportBalance
         /\ UNCHANGED <<tokens, coins, locked, minted, paid, support, supportLocked>>
BY DEF Types, LedgerTypes, Held, SupportBalance, ledger, account, wallet

\* A transaction that stays.
LEMMA StaysOK ==
  ASSUME NEW t, TransactionOK(t)
  PROVE  TransactionOK(t)'
BY DEF TransactionOK, IsTransfer, TransferOK

\* With nothing but payments there is no summary and no support.
LEMMA NoneOfRound ==
  ASSUME NEW S, \A t \in S : ~OfRound(t), \A t \in S : TransactionOK(t)
  PROVE  \A t \in S : t.kind = "payment" /\ ~IsSummary(t) /\ t.kind # "support"
BY DEF OfRound, TransactionOK, IsSummary

\* Between two rounds nothing is asked for.
LEMMA NothingAsked ==
  ASSUME Inv, pc # "balances"
  PROVE  \A a \in Address : answer[a] = Failed
BY DEF Inv, Phases, QueryInv, Idle

\* A round begins: nothing of it is known yet.
LEMMA BeginRoundGood ==
  ASSUME Inv, BeginRound
  PROVE  Inv'
<1>1. /\ pc = "idle" /\ \A t \in built \cup pool : ~OfRound(t)
      /\ toMap = {} /\ call = "none"
      /\ UNCHANGED <<tokens, coins, locked, minted, support, supportLocked>>
      /\ UNCHANGED <<pool, built, todo, toMap, isContract>>
      /\ paid' = [a \in Address |-> 0]
  BY DEF Inv, Phases, BeginRound, account
<1>2. \/ pc' = "balances" /\ Call /\ budget' \in {SupportBalance, 0}
      \/ UNCHANGED <<budget, pc, balances>>
  BY DEF BeginRound
<1>3. QueryInv'
  BY <1>2, QueryCall, QueryStays DEF Inv
<1>4. LedgerTypes'
  BY <1>1 DEF Inv, Types, LedgerTypes
<1>5. SupportBalance' = SupportBalance /\ SupportBalance \in Nat
  BY <1>1 DEF SupportBalance, Inv, Types, LedgerTypes
<1>6. RoundTypes'
  BY <1>1, <1>2, <1>5 DEF Inv, Types, RoundTypes
<1>7. Types'
  <2>1. BoundTypes'
    BY FailureCounts DEF Inv, BeginRound
  <2>2. \A t \in built' \cup pool' : TransactionOK(t)'
    BY <1>1, StaysOK DEF Inv, Types
  <2> QED
    BY <1>4, <1>6, <2>1, <2>2 DEF Types
<1>8. Phases'
  BY <1>1, <1>2 DEF Inv, Phases, Call, balances, OfRound
<1>9. SetAside'
  <2>1. Cardinality(toMap') = 0
    BY <1>1, FS_EmptySet
  <2>2. CostOfOne * 0 = 0
    BY Constants
  <2> QED
    BY <1>1, <1>2, <1>5, <2>1, <2>2 DEF SetAside
<1>10. Known'
  <2>1. \A a \in Address : answer'[a] = Failed
    <3>1. CASE Call
      BY <3>1 DEF Call
    <3>2. CASE UNCHANGED balances
      BY <1>1, <3>2, NothingAsked DEF balances
    <3> QED
      BY <1>2, <3>1, <3>2
  <2>2. \A a \in Address : Held'[a] \in Nat
    BY <1>4 DEF LedgerTypes, Held
  <2>3. \A a \in Address : answer'[a] <= Held'[a]
    BY <2>1, <2>2 DEF Failed
  <2> QED
    BY <1>1, <1>2, <2>3 DEF Known
<1>11. Supported' /\ Retaining'
  <2>1. \A t \in built' \cup pool' : t.kind # "support" /\ t.kind # "summary"
    BY <1>1, NoneOfRound DEF Inv, Types, OfRound
  <2> QED
    BY <2>1 DEF Supported, Retaining, IsSummary
<1> QED
  BY <1>3, <1>7, <1>8, <1>9, <1>10, <1>11 DEF Inv

\* What a step of the queries leaves alone.
LEMMA QueriesOnly ==
  ASSUME Inv, QueryInv', UNCHANGED <<ledger, pool, built, round>>, BoundTypes',
         call # "none", call' # "none", \A a \in Address : answer'[a] <= Held[a]
  PROVE  Inv'
<1>1. /\ UNCHANGED <<pool, built, pc, todo, budget, toMap, isContract>>
      /\ LedgerTypes' /\ Held' = Held /\ SupportBalance' = SupportBalance /\ support' = support
  BY LedgerStays DEF round, Inv
<1>2. Types'
  BY <1>1, StaysOK DEF Inv, Types, RoundTypes
<1>3. Phases' /\ SetAside'
  BY <1>1 DEF Inv, Phases, SetAside, Worthwhile, Current, OfRound
<1>4. Known'
  BY <1>1 DEF Inv, Known, Pending, IsSummary
<1>5. Supported' /\ Retaining'
  BY <1>1 DEF Inv, Supported, Retaining, IsSummary, CostOfAll
<1> QED
  BY <1>2, <1>3, <1>4, <1>5 DEF Inv

\* The node answers for one address, or does not.
LEMMA AskBalanceGood ==
  ASSUME Inv, NEW a \in Address, AskBalance(a)
  PROVE  Inv'
<1>1. PICK r \in {tokens[a], Failed} : Ask(a, r)
  BY DEF AskBalance
<1>2. r \in Nat \cup {Failed} /\ r <= Held[a]
  BY HeldType DEF Inv, Types, Failed
<1>3. QueryInv'
  BY <1>1, <1>2, QueryAsk DEF Inv
<1>4. call # "none" /\ call' = call
  BY <1>1, QueryRuns DEF Inv, Ask
<1>5. \A b \in Address : answer'[b] <= Held[b]
  BY <1>1, <1>2 DEF Ask, Inv, Known, QueryInv, BalancesTypeOK
<1>6. BoundTypes'
  BY FailureCounts DEF Inv, AskBalance
<1>7. UNCHANGED <<ledger, pool, built, round>>
  BY DEF AskBalance
<1> QED
  BY <1>3, <1>4, <1>5, <1>6, <1>7, QueriesOnly

\* A step of the query for the tokens.
LEMMA QueryBalancesGood ==
  ASSUME Inv, QueryBalances
  PROVE  Inv'
<1>1. QueryInv' /\ call # "none" /\ call' # "none" /\ answer' = answer
  <2>1. CASE Collect
    BY <2>1, QueryCollect DEF Inv, Collect
  <2>2. CASE ReturnBalances
    BY <2>2, QueryReturn DEF Inv, ReturnBalances
  <2>3. ASSUME NEW a \in Address, QueryStep(a)
        PROVE  QueryInv' /\ call # "none" /\ call' # "none" /\ answer' = answer
    <3>1. CASE TakeSlot(a)
      BY <3>1, QueryTakeSlot DEF Inv, TakeSlot
    <3>2. CASE HandOver(a)
      BY <3>2, QueryHandOver, QueryRuns DEF Inv, HandOver
    <3>3. CASE ReleaseSlot(a)
      BY <3>3, QueryRelease, QueryRuns DEF Inv, ReleaseSlot
    <3> QED
      BY <2>3, <3>1, <3>2, <3>3 DEF QueryStep
  <2> QED
    BY <2>1, <2>2, <2>3 DEF QueryBalances
<1>2. \A a \in Address : answer'[a] <= Held[a]
  BY <1>1 DEF Inv, Known
<1>3. UNCHANGED <<ledger, pool, built, round, bounds>>
  BY DEF QueryBalances
<1>4. BoundTypes'
  BY <1>3 DEF bounds, Inv, Types, BoundTypes
<1> QED
  BY <1>1, <1>2, <1>3, <1>4, QueriesOnly

\* The first item is looked at, the others are left.
LEMMA RestPending ==
  ASSUME NEW q \in Seq(Item), q # <<>>, NEW held, NEW made, Pending(q, held, made)
  PROVE  /\ Head(q) \in Item /\ Tail(q) \in Seq(Item) /\ Pending(Tail(q), held, made)
         /\ Head(q).balance <= held[Head(q).address]
         /\ \A t \in made : IsSummary(t) => t.sender # Head(q).address
         /\ \A n \in 1 .. Len(Tail(q)) : Tail(q)[n].address # Head(q).address
<1> DEFINE k == Len(q)
           r == Tail(q)
<1>1. k \in Nat /\ k # 0 /\ Head(q) = q[1] /\ Head(q) \in Item
  BY LenProperties, EmptySeq, HeadTailProperties
<1>2. r \in Seq(Item) /\ Len(r) = k - 1
  BY HeadTailProperties
<1>3. \A i \in 1 .. Len(r) : r[i] = q[i + 1] /\ i + 1 \in 1 .. k /\ i + 1 # 1 /\ i \in Int
  <2>1. \A i \in 1 .. k - 1 : r[i] = q[i + 1]
    BY HeadTailProperties
  <2> QED
    BY <1>1, <1>2, <2>1
<1> HIDE DEF r, k
<1>4. 1 \in 1 .. k
  BY <1>1
<1>5. Pending(r, held, made)
  <2>1. ASSUME NEW i \in 1 .. Len(r), NEW j \in 1 .. Len(r), r[i].address = r[j].address
        PROVE  i = j
    <3>1. i + 1 = j + 1
      BY <1>3, <2>1 DEF Pending, k
    <3> QED
      BY <1>3, <3>1
  <2>2. \A n \in 1 .. Len(r) :
          /\ r[n].balance <= held[r[n].address]
          /\ \A t \in made : IsSummary(t) => t.sender # r[n].address
    BY <1>3 DEF Pending, k
  <2> QED
    BY <2>1, <2>2 DEF Pending
<1>6. \A n \in 1 .. Len(r) : r[n].address # Head(q).address
  BY <1>1, <1>3, <1>4 DEF Pending, k
<1> QED
  BY <1>1, <1>2, <1>4, <1>5, <1>6 DEF Pending, r, k

\* With no transfer to be made there is nothing to be asked of one.
LEMMA NothingPending ==
  ASSUME NEW held, NEW made
  PROVE  <<>> \in Seq(Item) /\ Pending(<<>>, held, made)
<1>1. Len(<<>>) = 0
  BY EmptySeq
<1> QED
  BY <1>1 DEF Pending

\* What a step of a round leaves alone that makes no transaction.
LEMMA RoundOnly ==
  ASSUME Inv, UNCHANGED <<balances, ledger, pool, built, bounds>>,
         RoundTypes', Phases', SetAside',
         pc' \in {"check", "support", "build"} => Pending(todo', Held, built)
  PROVE  Inv'
<1>1. /\ UNCHANGED <<pool, built, failures, traffic>> /\ answer' = answer
      /\ LedgerTypes' /\ Held' = Held /\ support' = support
  BY LedgerStays DEF bounds, balances, Inv
<1>2. QueryInv'
  BY QueryStays DEF Inv
<1>3. Types'
  BY <1>1, StaysOK DEF Inv, Types, BoundTypes
<1>4. Known'
  BY <1>1 DEF Inv, Known, Pending, IsSummary
<1>5. Supported' /\ Retaining'
  BY <1>1 DEF Inv, Supported, Retaining, IsSummary, CostOfAll
<1> QED
  BY <1>2, <1>3, <1>4, <1>5 DEF Inv

\* The list is the result of the queries, each with what was read of the address.
LEMMA HaveBalancesGood ==
  ASSUME Inv, HaveBalances
  PROVE  Inv'
<1>1. /\ pc = "balances" /\ call = "returned" /\ Leave /\ toMap = {}
      /\ \A t \in built \cup pool : ~OfRound(t)
      /\ UNCHANGED <<pool, built, budget, toMap, isContract, failures, traffic>>
      /\ LedgerTypes' /\ Held' = Held /\ SupportBalance' = SupportBalance
      /\ \/ Complete /\ pc' = "check" /\ todo' = list
         \/ pc' = "idle" /\ UNCHANGED todo
  BY LedgerStays DEF HaveBalances, Inv, Phases, bounds
<1>2. QueryInv'
  BY <1>1, QueryLeave DEF Inv
<1>3. \A t \in built \cup pool : ~IsSummary(t) /\ t.kind # "support"
  BY <1>1 DEF IsSummary, OfRound, Inv, Types, TransactionOK
<1>4. list \in Seq(Item) /\ Pending(list, Held, built)
  <2>1. list \in Seq(Item)
    BY DEF Inv, QueryInv, BalancesTypeOK, Item
  <2>2. \A n \in 1 .. Len(list) : list[n].balance <= Held[list[n].address]
    <3> SUFFICES ASSUME NEW n \in 1 .. Len(list)
                 PROVE  list[n].balance <= Held[list[n].address]
      OBVIOUS
    <3>1. list[n].address \in Address
      BY DEF Inv, QueryInv, Listed, Handed
    <3>2. list[n].balance = answer[list[n].address]
      BY DEF Inv, QueryInv, Listed
    <3> QED
      BY <3>1, <3>2 DEF Inv, Known
  <2>3. \A m, n \in 1 .. Len(list) : list[m].address = list[n].address => m = n
    BY DEF Inv, QueryInv, Listed
  <2> QED
    BY <1>3, <2>1, <2>2, <2>3 DEF Pending
<1>5. Types'
  BY <1>1, <1>4, StaysOK DEF Inv, Types, RoundTypes, BoundTypes
<1>6. Phases' /\ SetAside'
  BY <1>1, <1>3 DEF Inv, Phases, SetAside, Leave, OfRound
<1>7. Known'
  <2>1. \A a \in Address : answer'[a] <= Held'[a]
    BY <1>1, HeldType DEF Leave, Inv, Types, Failed
  <2>2. pc' \in {"check", "support", "build"} => Pending(todo', Held', built')
    BY <1>1, <1>4 DEF Pending, IsSummary
  <2> QED
    BY <2>1, <2>2 DEF Known
<1>8. Supported' /\ Retaining'
  BY <1>1, <1>3 DEF Supported, Retaining, IsSummary
<1> QED
  BY <1>2, <1>5, <1>6, <1>7, <1>8 DEF Inv

\* An address with too few tokens is passed over.
LEMMA SkipItemGood ==
  ASSUME Inv, SkipItem
  PROVE  Inv'
<1>1. /\ pc = "check" /\ todo # <<>> /\ todo' = Tail(todo)
      /\ UNCHANGED <<call, pool, built, pc, budget, toMap, isContract>>
      /\ UNCHANGED <<balances, ledger, pool, built, bounds>>
      /\ SupportBalance' = SupportBalance
  BY LedgerStays DEF SkipItem, InList, balances, Inv
<1>2. todo' \in Seq(Item) /\ Pending(todo', Held, built)
  BY <1>1, RestPending DEF Inv, Types, RoundTypes, Known
<1>3. Phases' /\ SetAside' /\ RoundTypes'
  BY <1>1, <1>2 DEF Inv, Phases, SetAside, Types, RoundTypes, OfRound
<1> QED
  BY <1>1, <1>2, <1>3, RoundOnly

\* The support account has not enough for one more address, which is left out.
LEMMA NoSupportGood ==
  ASSUME Inv, NoSupport
  PROVE  Inv'
<1>1. /\ pc = "support" /\ pc' = "check" /\ todo # <<>> /\ todo' = Tail(todo)
      /\ UNCHANGED <<call, pool, built, budget, toMap, isContract>>
      /\ UNCHANGED <<balances, ledger, pool, built, bounds>>
      /\ SupportBalance' = SupportBalance
  BY LedgerStays DEF NoSupport, Inv, Phases, balances
<1>2. todo' \in Seq(Item) /\ Pending(todo', Held, built)
  BY <1>1, RestPending DEF Inv, Types, RoundTypes, Known
<1>3. Phases' /\ SetAside' /\ RoundTypes'
  BY <1>1, <1>2 DEF Inv, Phases, SetAside, Types, RoundTypes, OfRound
<1> QED
  BY <1>1, <1>2, <1>3, RoundOnly

\* A round ends: its transactions can be sent.
LEMMA FinishRoundGood ==
  ASSUME Inv, FinishRound
  PROVE  Inv'
<1>1. /\ pc = "check" /\ pc' \in {"idle", "pay"} /\ (pc' = "idle" <=> toMap = {})
      /\ UNCHANGED <<call, pool, built, todo, budget, toMap, isContract>>
      /\ UNCHANGED <<balances, ledger, pool, built, bounds>>
      /\ SupportBalance' = SupportBalance
  BY LedgerStays DEF FinishRound, balances, Inv
<1>2. Phases' /\ SetAside' /\ RoundTypes'
  BY <1>1 DEF Inv, Phases, SetAside, Types, RoundTypes, OfRound
<1> QED
  BY <1>1, <1>2, RoundOnly

\* The application asks for tokens once more.
LEMMA NewRequestGood ==
  ASSUME Inv, NewRequest
  PROVE  Inv'
<1>1. /\ pc = "idle" /\ isContract' = TRUE
      /\ UNCHANGED <<call, pool, built, pc, todo, budget, toMap>>
      /\ UNCHANGED <<balances, ledger, pool, built, bounds>>
  BY DEF NewRequest, balances
<1>2. Phases' /\ SetAside' /\ RoundTypes'
  BY <1>1 DEF Inv, Phases, SetAside, Types, RoundTypes, OfRound
<1> QED
  BY <1>1, <1>2, RoundOnly

\* One address more is noted, and what it takes is set aside.
LEMMA NoteForSupportGood ==
  ASSUME Inv, NoteForSupport
  PROVE  Inv'
<1>1. /\ pc = "support" /\ todo # <<>> /\ budget >= CostOfOne
      /\ toMap' = toMap \cup {Current.address} /\ budget' = budget - CostOfOne
      /\ \/ pc' = "pay" /\ todo' = <<>>
         \/ pc' = "check" /\ todo' = Tail(todo)
      /\ UNCHANGED <<call, pool, built>> /\ isContract' = FALSE
      /\ UNCHANGED <<balances, ledger, pool, built, bounds>>
      /\ SupportBalance' = SupportBalance
  BY LedgerStays DEF NoteForSupport, Enough, BudgetLeft, Inv, Phases, balances
<1>2. /\ Head(todo) \in Item /\ Tail(todo) \in Seq(Item)
      /\ Pending(Tail(todo), Held, built)
  BY <1>1, RestPending DEF Inv, Types, RoundTypes, Known
<1>3. todo' \in Seq(Item) /\ (pc' = "check" => Pending(todo', Held, built))
  BY <1>1, <1>2, NothingPending
<1>4. /\ Current.address \in Address /\ toMap' \subseteq Address /\ toMap' # {}
      /\ budget \in Nat /\ SupportBalance \in Nat /\ budget' \in Nat
  <2>1. Current.address \in Address
    BY <1>2 DEF Current, Item
  <2>2. toMap \subseteq Address /\ budget \in Nat
    BY DEF Inv, Types, RoundTypes
  <2>3. toMap' \subseteq Address /\ toMap' # {}
    BY <1>1, <2>1, <2>2
  <2>4. SupportBalance \in Nat
    BY DEF Inv, Types, LedgerTypes, SupportBalance
  <2>5. budget' \in Nat
    BY <1>1, <2>2, Constants
  <2> QED
    BY <2>1, <2>2, <2>3, <2>4, <2>5
<1>5. SetAside'
  <2>1. IsFiniteSet(toMap)
    BY AddressIsFinite, FS_Subset DEF Inv, Types, RoundTypes
  <2>2. /\ Cardinality(toMap) \in Nat
        /\ Cardinality(toMap') \in {Cardinality(toMap), Cardinality(toMap) + 1}
    BY <1>1, <2>1, FS_AddElement, FS_CardinalityType
  <2>3. budget + CostOfOne * Cardinality(toMap) <= SupportBalance
    BY <1>1 DEF Inv, SetAside
  <2> DEFINE c == Cardinality(toMap)
  <2>4. /\ CostOfOne * (c + 1) = CostOfOne * c + CostOfOne
        /\ CostOfOne * c \in Nat
    <3> HIDE DEF c
    <3>1. c \in Nat
      BY <2>2 DEF c
    <3> QED
      BY <3>1, Constants
  <2>5. budget' + CostOfOne * Cardinality(toMap') <= SupportBalance
    <3> DEFINE d == CostOfOne * c
    <3>1. CostOfOne * Cardinality(toMap') \in {d, d + CostOfOne}
      BY <2>2, <2>4
    <3>2. d \in Nat /\ budget + d <= SupportBalance
      BY <2>3, <2>4
    <3> HIDE DEF c, d
    <3> QED
      BY <1>1, <1>4, <3>1, <3>2, Constants
  <2> QED
    BY <1>1, <2>5 DEF SetAside
<1>6. Phases' /\ RoundTypes'
  BY <1>1, <1>3, <1>4 DEF Inv, Phases, OfRound, RoundTypes
<1> QED
  BY <1>1, <1>3, <1>5, <1>6, RoundOnly

\* The fee is asked for, or the round is given up.
LEMMA CheckFeeGood ==
  ASSUME Inv, CheckFee
  PROVE  Inv'
<1>1. /\ pc = "check" /\ todo # <<>> /\ Worthwhile(Current.balance)
      /\ UNCHANGED <<pool, budget, isContract>>
      /\ UNCHANGED balances /\ call' = call /\ answer' = answer
      /\ \/ pc' \in {"support", "build"} /\ UNCHANGED <<built, todo, toMap>>
         \/ /\ pc' = "idle" /\ todo' = <<>> /\ toMap' = {}
            /\ built' = {t \in built : ~OfRound(t)}
      /\ LedgerTypes' /\ Held' = Held /\ SupportBalance' = SupportBalance /\ support' = support
  BY LedgerStays DEF CheckFee, InList, Abort, balances, Inv
<1>2. QueryInv'
  BY <1>1, QueryStays DEF Inv
<1>3. BoundTypes'
  BY FailureCounts DEF Inv, CheckFee
<1>4. CASE pc' \in {"support", "build"} /\ UNCHANGED <<built, todo, toMap>>
  <2>1. Types'
    BY <1>1, <1>3, <1>4, StaysOK DEF Inv, Types, RoundTypes
  <2>2. Phases' /\ SetAside'
    BY <1>1, <1>4 DEF Inv, Phases, SetAside, Current, Worthwhile, OfRound
  <2>3. Known'
    BY <1>1, <1>4 DEF Inv, Known, Pending, IsSummary
  <2>4. Supported' /\ Retaining'
    BY <1>1, <1>4 DEF Inv, Supported, Retaining, IsSummary, CostOfAll
  <2> QED
    BY <1>2, <2>1, <2>2, <2>3, <2>4 DEF Inv
<1>5. CASE /\ pc' = "idle" /\ todo' = <<>> /\ toMap' = {}
           /\ built' = {t \in built : ~OfRound(t)}
  <2>1. \A t \in built' \cup pool' : t \in built \cup pool /\ ~OfRound(t)
    BY <1>1, <1>5 DEF Inv, Phases
  <2>2. Types'
    <3>1. RoundTypes'
      BY <1>1, <1>5 DEF Inv, Types, RoundTypes
    <3>2. \A t \in built' \cup pool' : TransactionOK(t)'
      BY <2>1, StaysOK DEF Inv, Types
    <3> QED
      BY <1>1, <1>3, <3>1, <3>2 DEF Types
  <2>3. Phases' /\ SetAside'
    BY <1>1, <1>5, <2>1 DEF Inv, Phases, SetAside, OfRound
  <2>4. Known'
    BY <1>1, <1>5 DEF Inv, Known
  <2>5. Supported' /\ Retaining'
    <3>1. \A t \in built' \cup pool' : t.kind # "support" /\ t.kind # "summary"
      BY <2>1 DEF OfRound
    <3> QED
      BY <3>1 DEF Supported, Retaining, IsSummary
  <2> QED
    BY <1>2, <2>2, <2>3, <2>4, <2>5 DEF Inv
<1> QED
  BY <1>1, <1>4, <1>5

\* The fields of a transaction that has been made.
LEMMA TransferFields ==
  ASSUME NEW kind, NEW made
  PROVE  LET t == Transfer(kind, made)
         IN  /\ t.kind = kind /\ t.error = made.error
             /\ made.error = "none" =>
                  /\ t.sender = made.sender /\ t.amount = made.amount
                  /\ t.inputs = made.inputs /\ t.change = made.change
BY DEF Transfer

\* What is known of an address is a view of it.
LEMMA ViewIsOne ==
  ASSUME Types, NEW a \in Address, NEW b, NEW c
  PROVE  /\ IsView(View(a, b, c)) /\ View(a, b, c).address = a
         /\ View(a, b, c).tokens = tokens[a] /\ View(a, b, c).tokensRead = b
<1>1. coins[a] \in Seq(CoinsOf(a)) /\ tokens[a] \in Nat
  BY DEF Types, LedgerTypes
<1>2. CoinsOf(a) \subseteq AnyCoin /\ \A d \in AnyCoin : d.value \in Nat
  BY DEF CoinsOf, AnyCoin
<1>3. coins[a] \in Seq(AnyCoin)
  BY <1>1, <1>2, SeqMonotonic
<1>4. Ascending(coins[a]) \in Seq(AnyCoin)
  BY <1>2, <1>3, AscendingType
<1> QED
  BY <1>1, <1>4 DEF View, IsView

\* The transfer that is made of one address.
LEMMA SummaryMade ==
  ASSUME Types, NEW a \in Address, NEW b \in BOOLEAN, NEW amount \in Nat
  PROVE  LET t == Transfer("summary", CreateNrc20(<<View(a, b, b)>>, amount))
         IN  /\ t.kind = "summary"
             /\ t.error = "none" =>
                  /\ TransferOK(t) /\ t.sender = a /\ t.amount = amount /\ amount <= tokens[a]
                  /\ SumOf(t.inputs) - t.change = Fee
<1> DEFINE views == <<View(a, b, b)>>
           made  == CreateNrc20(views, amount)
           t     == Transfer("summary", made)
<1>1. DOMAIN views = 1 .. 1 /\ \A i \in 1 .. 1 : views[i] = View(a, b, b) /\ i = 1
  OBVIOUS
<1>2. \A i \in 1 .. 1 : IsView(views[i])
  BY <1>1, ViewIsOne
<1>3. t.kind = "summary" /\ t.error = made.error
  BY TransferFields
<1>4. ASSUME made.error = "none"
      PROVE  /\ TransferOK(t) /\ t.sender = a /\ t.amount = amount /\ amount <= tokens[a]
             /\ SumOf(t.inputs) - t.change = Fee
  <2>1. t.sender = made.sender /\ t.amount = made.amount /\ t.inputs = made.inputs /\ t.change = made.change
    BY <1>4, TransferFields
  <2> HIDE DEF views, t
  <2>2. PICK s \in 1 .. 1 : LET used == Take(views[s].coins, Fee)
                            IN  MadeOf(made, views[s], used, amount) /\ (s = 1 => made.inputs = used)
    <3>1. PICK n \in Nat : n = 1
      OBVIOUS
    <3>2. DOMAIN views = 1 .. n /\ \A i \in 1 .. n : IsView(views[i])
      BY <1>1, <1>2, <3>1
    <3>3. \E s \in 1 .. n : LET used == Take(views[s].coins, Fee)
                            IN  MadeOf(made, views[s], used, amount) /\ (s = 1 => made.inputs = used)
      BY <1>4, <3>2, Made
    <3> QED
      BY <3>1, <3>3
  <2>3. made.sender = a /\ amount <= tokens[a]
    BY <1>1, <2>2, ViewIsOne DEF MadeOf
  <2>4. SumOf(made.inputs) - made.change = Fee
    <3> DEFINE used == Take(views[s].coins, Fee)
    <3>1. s = 1 /\ made.inputs = used /\ SumOf(used) \in Nat /\ made.change = SumOf(used) - Fee
      BY <1>1, <2>2 DEF MadeOf
    <3> HIDE DEF used, made
    <3> QED
      BY <3>1, Constants
  <2> HIDE DEF made
  <2> QED
    BY <2>1, <2>2, <2>3, <2>4 DEF TransferOK, MadeOf
<1> QED
  BY <1>3, <1>4

\* The transfer takes what the address has, as far as it was read, less the balance to
\* retain; it is the only summary from this address.
LEMMA BuildTransferGood ==
  ASSUME Inv, BuildTransfer
  PROVE  Inv'
<1> DEFINE a == Current.address
           amount == SumAmount(Current.balance)
<1>1. /\ pc = "build" /\ pc' = "check" /\ todo # <<>> /\ todo' = Tail(todo)
      /\ Worthwhile(Current.balance) /\ \A t \in pool : ~OfRound(t)
      /\ \A t \in built : t.kind # "support"
      /\ UNCHANGED <<pool, budget, toMap, isContract>>
      /\ UNCHANGED balances /\ call' = call /\ answer' = answer
      /\ LedgerTypes' /\ Held' = Held /\ SupportBalance' = SupportBalance
  BY LedgerStays DEF BuildTransfer, Inv, Phases, balances
<1>2. /\ Head(todo) \in Item /\ Tail(todo) \in Seq(Item)
      /\ Pending(Tail(todo), Held, built)
      /\ Current.balance <= Held[a]
      /\ \A t \in built : IsSummary(t) => t.sender # a
      /\ \A n \in 1 .. Len(Tail(todo)) : Tail(todo)[n].address # a
  BY <1>1, RestPending DEF Inv, Types, RoundTypes, Known, Current
<1>3. a \in Address /\ amount \in Nat /\ amount + RetainedBalance = Current.balance
  <2>1. a \in Address /\ Current.balance \in Nat
    BY <1>2 DEF Current, Item
  <2>2. Current.balance >= MinTransfer
    BY <1>1 DEF Worthwhile
  <2> QED
    BY <2>1, <2>2, Constants DEF SumAmount
<1>4. PICK b \in BOOLEAN :
        built' = built \cup {Transfer("summary", CreateNrc20(<<View(a, b, b)>>, amount))}
  BY DEF BuildTransfer
<1> DEFINE new == Transfer("summary", CreateNrc20(<<View(a, b, b)>>, amount))
<1> HIDE DEF a, amount
<1>5. /\ new.kind = "summary"
      /\ new.error = "none" =>
           /\ TransferOK(new) /\ new.sender = a /\ new.amount = amount
           /\ SumOf(new.inputs) - new.change = Fee
  BY <1>3, SummaryMade DEF Inv
<1>6. new.error = "none" => new.amount + RetainedBalance <= Held[new.sender]
  BY <1>2, <1>3, <1>5
<1>7. built' = built \cup {new}
  BY <1>4
<1> HIDE DEF new
<1>8. QueryInv'
  BY <1>1, QueryStays DEF Inv
<1>9. Types'
  <2>1. TransactionOK(new)
    BY <1>5 DEF TransactionOK, IsTransfer
  <2>2. \A t \in built' \cup pool' : TransactionOK(t)'
    BY <1>1, <1>7, <2>1, StaysOK DEF Inv, Types
  <2>3. RoundTypes'
    BY <1>1, <1>2 DEF Inv, Types, RoundTypes
  <2>4. BoundTypes'
    BY FailureCounts DEF Inv, BuildTransfer
  <2> QED
    BY <1>1, <2>2, <2>3, <2>4 DEF Types
<1>10. Phases' /\ SetAside'
  BY <1>1, <1>5, <1>7 DEF Inv, Phases, SetAside, OfRound
<1>11. \A t \in pool : t.kind = "payment"
  BY <1>1 DEF OfRound
<1>12. Supported'
  <2>1. \A t \in built' \cup pool' : t.kind # "support"
    BY <1>1, <1>5, <1>7, <1>11
  <2> QED
    BY <2>1 DEF Supported
<1>13. Known'
  <2>1. Pending(todo', Held', built')
    <3> DEFINE q == Tail(todo)
    <3>1. /\ \A m, n \in 1 .. Len(q) : q[m].address = q[n].address => m = n
          /\ \A n \in 1 .. Len(q) : q[n].balance <= Held[q[n].address]
          /\ \A n \in 1 .. Len(q) : \A t \in built : IsSummary(t) => t.sender # q[n].address
          /\ \A n \in 1 .. Len(q) : q[n].address # a
      BY <1>2 DEF Pending
    <3>2. todo' = q /\ Held' = Held
      BY <1>1
    <3> HIDE DEF q
    <3>3. \A n \in 1 .. Len(q) : \A t \in built' : IsSummary(t) => t.sender # q[n].address
      BY <1>5, <1>7, <3>1 DEF IsSummary
    <3> QED
      BY <3>1, <3>2, <3>3 DEF Pending
  <2> QED
    BY <1>1, <2>1 DEF Inv, Known
<1>14. Retaining'
  <2>1. \A t \in built' \cup pool' : IsSummary(t) =>
          /\ t.amount + RetainedBalance <= Held[t.sender]
          /\ SumOf(t.inputs) - t.change = Fee
    BY <1>1, <1>5, <1>6, <1>7 DEF Inv, Retaining, IsSummary
  <2>2. ASSUME NEW t \in built' \cup pool', NEW u \in built' \cup pool',
               IsSummary(t), IsSummary(u), u.sender = t.sender
        PROVE  u = t
    <3>1. t \in built' /\ u \in built'
      BY <1>1, <1>11, <2>2 DEF IsSummary
    <3>2. CASE t \in built /\ u \in built
      BY <2>2, <3>2 DEF Inv, Retaining
    <3>3. CASE t = new \/ u = new
      BY <1>2, <1>5, <1>7, <2>2, <3>1, <3>3 DEF IsSummary
    <3> QED
      BY <1>7, <3>1, <3>2, <3>3
  <2> QED
    BY <1>1, <2>1, <2>2 DEF Retaining, IsSummary
<1> QED
  BY <1>8, <1>9, <1>10, <1>12, <1>13, <1>14 DEF Inv

\* What has been set aside for each address pays for all of them.
LEMMA AllForOne ==
  ASSUME NEW addresses, IsFiniteSet(addresses), addresses # {}
  PROVE  CostOfAll(addresses) <= CostOfOne * Cardinality(addresses) /\ CostOfAll(addresses) \in Nat
<1> DEFINE c == Cardinality(addresses)
<1>1. c \in Nat /\ c # 0
  BY FS_CardinalityType, FS_EmptySet
<1>2. CostOfAll(addresses) = FixSupport * c + FeeMain /\ CostOfOne = FixSupport + FeeMain
  BY DEF CostOfAll, CostOfOne
<1> HIDE DEF c
<1>3. (FixSupport + FeeMain) * c = FixSupport * c + FeeMain * c
  BY <1>1, Constants
<1>4. FeeMain <= FeeMain * c /\ FeeMain * c \in Nat
  <2>1. PICK d \in Nat : c = d + 1
    BY <1>1
  <2>2. FeeMain * (d + 1) = FeeMain * d + FeeMain /\ FeeMain * d \in Nat
    BY <2>1, Constants
  <2> QED
    BY <2>1, <2>2, Constants
<1>5. FixSupport * c \in Nat
  BY <1>1, Constants
<1> DEFINE x == FixSupport * c
           y == FeeMain * c
<1>6. CostOfAll(addresses) = x + FeeMain /\ CostOfOne * c = x + y
  BY <1>2, <1>3
<1>7. x \in Nat /\ y \in Nat /\ FeeMain <= y
  BY <1>4, <1>5
<1> HIDE DEF x, y
<1>8. x + FeeMain <= x + y /\ x + FeeMain \in Nat
  BY <1>7, Constants
<1> QED
  BY <1>6, <1>8 DEF c

\* The payment costs no more than what was set aside.
LEMMA SetAsidePays ==
  ASSUME Inv, pc = "pay"
  PROVE  /\ CostOfAll(toMap) \in Nat /\ CostOfAll(toMap) <= SupportBalance
<1>1. /\ toMap \subseteq Address /\ toMap # {} /\ budget \in Nat /\ SupportBalance \in Nat
      /\ budget + CostOfOne * Cardinality(toMap) <= SupportBalance
  BY DEF Inv, Types, RoundTypes, LedgerTypes, SupportBalance, SetAside, Phases
<1>2. IsFiniteSet(toMap)
  BY <1>1, AddressIsFinite, FS_Subset
<1>3. CostOfAll(toMap) <= CostOfOne * Cardinality(toMap) /\ CostOfAll(toMap) \in Nat
  BY <1>1, <1>2, AllForOne
<1>4. CostOfOne * Cardinality(toMap) \in Nat
  <2>1. Cardinality(toMap) \in Nat
    BY <1>2, FS_CardinalityType
  <2> QED
    BY <2>1, Constants
<1> DEFINE z == CostOfOne * Cardinality(toMap)
<1>5. CostOfAll(toMap) <= z /\ z \in Nat /\ budget + z <= SupportBalance
  BY <1>1, <1>3, <1>4
<1> HIDE DEF z
<1> QED
  BY <1>1, <1>3, <1>5

\* The one payment is made to the addresses noted.
LEMMA PaySupportGood ==
  ASSUME Inv, PaySupport
  PROVE  Inv'
<1>1. /\ pc = "pay" /\ pc' = "idle" /\ toMap' = {} /\ \A t \in pool : ~OfRound(t)
      /\ \A t \in built : t.kind # "support"
      /\ UNCHANGED <<pool, todo, budget, isContract>>
      /\ UNCHANGED balances /\ call' = call /\ answer' = answer
      /\ LedgerTypes' /\ Held' = Held /\ support' = support
  BY LedgerStays DEF PaySupport, Inv, Phases, balances
<1>2. toMap \subseteq Address /\ support \in Nat /\ CostOfAll(toMap) \in Nat
  BY <1>1, SetAsidePays DEF Inv, Types, RoundTypes, LedgerTypes
<1>3. PICK e : /\ built' = built \cup {SupportOf(toMap, e)}
               /\ e = "none" => CostOfAll(toMap) <= support
  <2>1. CASE built' = built \cup {SupportOf(toMap, "unread")}
    BY <2>1
  <2>2. CASE built' = built \cup {SupportOf(toMap,
                 IF support < CostOfAll(toMap) THEN "no coins" ELSE "none")}
    <3>1. CASE support < CostOfAll(toMap)
      <4>1. built' = built \cup {SupportOf(toMap, "no coins")}
        BY <2>2, <3>1
      <4>2. "no coins" = "none" => CostOfAll(toMap) <= support
        OBVIOUS
      <4> QED
        BY <4>1, <4>2
    <3>2. CASE ~(support < CostOfAll(toMap))
      <4>1. built' = built \cup {SupportOf(toMap, "none")} /\ CostOfAll(toMap) <= support
        BY <1>2, <2>2, <3>2
      <4> QED
        BY <4>1
    <3> QED
      BY <3>1, <3>2
  <2> QED
    BY <2>1, <2>2 DEF PaySupport
<1> DEFINE new == SupportOf(toMap, e)
<1>4. new.kind = "support" /\ new.to = toMap /\ new.error = e
  BY DEF SupportOf
<1>5. built' = built \cup {new}
  BY <1>3
<1> HIDE DEF new
<1>6. QueryInv'
  BY <1>1, QueryStays DEF Inv
<1>7. \A t \in built' \cup pool' : t = new \/ (t \in built \cup pool /\ t.kind # "support")
  BY <1>1, <1>5 DEF OfRound
<1>8. Types'
  <2>1. TransactionOK(new)
    BY <1>2, <1>4 DEF TransactionOK, IsTransfer
  <2>2. \A t \in built' \cup pool' : TransactionOK(t)'
    BY <1>7, <2>1, StaysOK DEF Inv, Types
  <2>3. RoundTypes'
    BY <1>1 DEF Inv, Types, RoundTypes
  <2>4. BoundTypes'
    BY FailureCounts DEF Inv, PaySupport
  <2> QED
    BY <1>1, <2>2, <2>3, <2>4 DEF Types
<1>9. Phases' /\ SetAside'
  BY <1>1 DEF Inv, Phases, SetAside, OfRound
<1>10. Supported'
  <2>1. ASSUME NEW t \in built' \cup pool', t.kind = "support"
        PROVE  t = new
    BY <1>7, <2>1
  <2>2. new.error = "none" => CostOfAll(new.to) <= support'
    BY <1>1, <1>3, <1>4
  <2> QED
    BY <2>1, <2>2 DEF Supported, CostOfAll
<1>11. Known'
  BY <1>1 DEF Inv, Known
<1>12. Retaining'
  <2>1. \A t \in built' \cup pool' : IsSummary(t) => t \in built \cup pool
    BY <1>4, <1>7 DEF IsSummary
  <2> QED
    BY <1>1, <2>1 DEF Inv, Retaining, IsSummary
<1> QED
  BY <1>6, <1>8, <1>9, <1>10, <1>11, <1>12 DEF Inv

-----------------------------------------------------------------------------
(* The steps of the application and the node. *)

\* A payment may be made at any time; it is nothing of the round.
LEMMA PayTokensGood ==
  ASSUME Inv, PayTokens
  PROVE  Inv'
<1>1. /\ UNCHANGED <<pool, pc, todo, budget, toMap, isContract>>
      /\ UNCHANGED balances /\ call' = call /\ answer' = answer
      /\ traffic > 0 /\ traffic' = traffic - 1
      /\ LedgerTypes' /\ Held' = Held /\ SupportBalance' = SupportBalance /\ support' = support
  BY LedgerStays DEF PayTokens, balances, round, Inv
<1>2. PICK unread \in SUBSET Address :
        LET views == [i \in DOMAIN AddressList |->
                         View(AddressList[i], TRUE, AddressList[i] \notin unread)]
        IN  /\ Cardinality(unread) <= failures
            /\ failures' = failures - Cardinality(unread)
            /\ built' = built \cup {Transfer("payment", CreateNrc20(views, PaymentAmount))}
  BY DEF PayTokens
<1> DEFINE views == [i \in DOMAIN AddressList |->
                        View(AddressList[i], TRUE, AddressList[i] \notin unread)]
           n == Len(AddressList)
           made == CreateNrc20(views, PaymentAmount)
           new == Transfer("payment", made)
<1>3. n \in Nat /\ DOMAIN views = 1 .. n /\ \A i \in 1 .. n : IsView(views[i])
  <2>1. /\ AddressList \in Seq(Address) /\ DOMAIN AddressList = 1 .. n /\ n \in Nat
        /\ \A i \in 1 .. n : AddressList[i] \in Address
    BY SummaryAssumption, LenProperties, ElementOfSeq
  <2> HIDE DEF n
  <2>2. DOMAIN views = 1 .. n
    BY <2>1
  <2>3. ASSUME NEW i \in 1 .. n PROVE IsView(views[i])
    <3>1. views[i] = View(AddressList[i], TRUE, AddressList[i] \notin unread)
      BY <2>1
    <3>2. AddressList[i] \in Address
      BY <2>1
    <3>3. Types
      BY DEF Inv
    <3> HIDE DEF views
    <3>4. IsView(View(AddressList[i], TRUE, AddressList[i] \notin unread))
      BY <3>2, <3>3, ViewIsOne, Zenon
    <3> QED
      BY <3>1, <3>4, Zenon
  <2> QED
    BY <2>1, <2>2, <2>3
<1>4. new.kind = "payment" /\ new.error = made.error
  BY TransferFields
<1>5. new.error = "none" => TransferOK(new)
  <2> SUFFICES ASSUME made.error = "none" PROVE TransferOK(new)
    BY <1>4
  <2>1. /\ new.sender = made.sender /\ new.amount = made.amount
        /\ new.inputs = made.inputs /\ new.change = made.change
    BY TransferFields
  <2> HIDE DEF views, n, new
  <2>2. PICK s \in 1 .. n : LET used == Take(views[s].coins, Fee)
                            IN  MadeOf(made, views[s], used, PaymentAmount) /\ (s = 1 => made.inputs = used)
    BY <1>3, Constants, Made
  <2>3. views[s].address \in Address
    BY <1>3 DEF IsView
  <2> HIDE DEF made
  <2> QED
    BY <2>1, <2>2, <2>3, Constants DEF MadeOf, TransferOK
<1>6. built' = built \cup {new}
  BY <1>2
<1> HIDE DEF new, made, views, n
<1>7. BoundTypes'
  <2>1. Cardinality(unread) \in Nat
    BY AddressIsFinite, FS_Subset, FS_CardinalityType
  <2>2. failures' = failures - Cardinality(unread) /\ Cardinality(unread) <= failures
    BY <1>2
  <2> QED
    BY <1>1, <2>1, <2>2, Constants DEF Inv, Types, BoundTypes
<1>8. QueryInv'
  BY <1>1, QueryStays DEF Inv
<1>9. \A t \in built' \cup pool' : t = new \/ t \in built \cup pool
  BY <1>1, <1>6
<1>10. Types'
  <2>1. TransactionOK(new)
    BY <1>4, <1>5 DEF TransactionOK, IsTransfer
  <2>2. \A t \in built' \cup pool' : TransactionOK(t)'
    BY <1>9, <2>1, StaysOK DEF Inv, Types
  <2>3. RoundTypes'
    BY <1>1 DEF Inv, Types, RoundTypes
  <2> QED
    BY <1>1, <1>7, <2>2, <2>3 DEF Types
<1>11. ~OfRound(new) /\ ~IsSummary(new) /\ new.kind # "support"
  BY <1>4 DEF OfRound, IsSummary
<1>12. Phases'
  BY <1>1, <1>6, <1>11 DEF Inv, Phases, Worthwhile, Current, OfRound
<1>13. SetAside' /\ Known'
  BY <1>1, <1>6, <1>11 DEF Inv, SetAside, Known, Pending, IsSummary
<1>14. Supported' /\ Retaining'
  BY <1>1, <1>9, <1>11 DEF Inv, Supported, Retaining, IsSummary, CostOfAll
<1> QED
  BY <1>8, <1>10, <1>12, <1>13, <1>14 DEF Inv

\* What the application does with the transactions made.
LEMMA HandedOn ==
  ASSUME Inv, UNCHANGED <<balances, ledger, round>>, BoundTypes',
         built' \subseteq built, pool' \subseteq built \cup pool,
         \A t \in pool' : t.error = "none" /\ (OfRound(t) => t \notin built'),
         pc # "idle" => \A t \in pool' : ~OfRound(t)
  PROVE  Inv'
<1>1. /\ UNCHANGED <<pc, todo, budget, toMap, isContract>>
      /\ call' = call /\ answer' = answer
      /\ \A t \in built' \cup pool' : t \in built \cup pool
      /\ LedgerTypes' /\ Held' = Held /\ SupportBalance' = SupportBalance /\ support' = support
  BY LedgerStays DEF balances, round, Inv
<1>2. QueryInv'
  BY QueryStays DEF Inv
<1>3. Types'
  BY <1>1, StaysOK DEF Inv, Types, RoundTypes
<1>4. Phases'
  BY <1>1 DEF Inv, Phases, OfRound, Worthwhile, Current
<1>5. SetAside' /\ Known'
  BY <1>1 DEF Inv, SetAside, Known, Pending, IsSummary
<1>6. Supported' /\ Retaining'
  BY <1>1 DEF Inv, Supported, Retaining, IsSummary, CostOfAll
<1> QED
  BY <1>2, <1>3, <1>4, <1>5, <1>6 DEF Inv

\* A transaction is sent, or given up when that fails.
LEMMA SendGood ==
  ASSUME Inv, NEW t, Send(t)
  PROVE  Inv'
<1>1. /\ t \in built /\ (OfRound(t) => pc = "idle") /\ t.error = "none"
      /\ built' = built \ {t} /\ (pool' = pool \cup {t} \/ pool' = pool)
      /\ UNCHANGED <<balances, ledger, round>>
  BY DEF Send, AtHand
<1>2. \A u \in pool' : u.error = "none" /\ (OfRound(u) => u \notin built')
  BY <1>1 DEF Inv, Phases
<1>3. BoundTypes'
  BY FailureCounts DEF Inv, Send
<1>4. built' \subseteq built /\ pool' \subseteq built \cup pool
  BY <1>1
<1>5. pc # "idle" => \A u \in pool' : ~OfRound(u)
  BY <1>1 DEF Inv, Phases
<1> QED
  BY <1>1, <1>2, <1>3, <1>4, <1>5, HandedOn

\* What could not be made is dropped.
LEMMA DropGood ==
  ASSUME Inv, NEW t, Drop(t)
  PROVE  Inv'
<1>1. /\ built' = built \ {t} /\ pool' = pool
      /\ UNCHANGED <<balances, ledger, round>> /\ UNCHANGED <<failures, traffic>>
  BY DEF Drop, bounds
<1>2. \A u \in pool' : u.error = "none" /\ (OfRound(u) => u \notin built')
  BY <1>1 DEF Inv, Phases
<1>3. BoundTypes'
  BY <1>1 DEF Inv, Types, BoundTypes
<1>4. built' \subseteq built /\ pool' \subseteq built \cup pool
  BY <1>1
<1>5. pc # "idle" => \A u \in pool' : ~OfRound(u)
  BY <1>1 DEF Inv, Phases
<1> QED
  BY <1>1, <1>2, <1>3, <1>4, <1>5, HandedOn

\* A coin of an address may be added to its list.
LEMMA CoinFits ==
  ASSUME LedgerTypes, NEW a \in Address, NEW v \in Nat \ {0}, NEW cs \in Seq(CoinsOf(a))
  PROVE  With(cs, NewCoin(a, v)) \in Seq(CoinsOf(a))
<1>1. minted[a] \in Nat
  BY DEF LedgerTypes
<1>2. NewCoin(a, v) \in CoinsOf(a) /\ \A d \in CoinsOf(a) : d.value \in Nat
  BY <1>1 DEF NewCoin, Coin, CoinsOf
<1> QED
  BY <1>2, WithType

\* The tokens go: those of a payment are paid, those of a summary are missed by no other
\* summary.
LEMMA ConfirmTransferGood ==
  ASSUME Inv, NEW t, ConfirmTransfer(t)
  PROVE  Inv'
<1> DEFINE b == t.sender
           m == Moved(t)
<1>1. /\ t \in pool /\ t.kind # "support" /\ pool' = pool \ {t}
      /\ tokens' = [tokens EXCEPT ![b] = @ - m]
      /\ minted' = [minted EXCEPT ![b] = @ + 1]
      /\ paid' = [paid EXCEPT ![b] = IF OfRound(t) THEN @ ELSE @ + m]
      /\ UNCHANGED <<locked, support, supportLocked, built, pc, todo, budget, toMap, isContract>>
      /\ UNCHANGED <<failures, traffic>>
      /\ UNCHANGED balances /\ call' = call /\ answer' = answer
  BY DEF ConfirmTransfer, balances, round, bounds, account
<1>2. /\ t.error = "none" /\ TransferOK(t) /\ t.kind \in {"summary", "payment"}
      /\ b \in Address /\ t.amount \in Nat /\ t.inputs \in Seq(AnyCoin)
      /\ t.change \in Nat \ {0} /\ (OfRound(t) => pc = "idle" /\ t \notin built)
  BY <1>1 DEF Inv, Phases, Types, TransactionOK, IsTransfer, TransferOK
<1>3. {tokens, locked, minted, paid} \subseteq [Address -> Nat] /\ LedgerTypes
  BY DEF Inv, Types, LedgerTypes
<1>4. m \in Nat /\ tokens[b] - m \in Nat
  BY <1>2, <1>3 DEF Moved
<1> HIDE DEF m
<1>5. {tokens', locked', minted', paid'} \subseteq [Address -> Nat]
  <2>1. tokens' \in [Address -> Nat]
    BY <1>1, <1>2, <1>3, <1>4
  <2>2. minted' \in [Address -> Nat] /\ locked' \in [Address -> Nat]
    BY <1>1, <1>2, <1>3
  <2>3. paid' \in [Address -> Nat]
    <3>1. CASE OfRound(t)
      BY <1>1, <1>2, <1>3, <3>1
    <3>2. CASE ~OfRound(t)
      <4>1. paid' = [paid EXCEPT ![b] = @ + m]
        BY <1>1, <3>2
      <4> QED
        BY <1>2, <1>3, <1>4, <4>1
    <3> QED
      BY <3>1, <3>2
  <2> QED
    BY <2>1, <2>2, <2>3
<1>6. DOMAIN coins' = Address /\ \A a \in Address : coins'[a] \in Seq(CoinsOf(a))
  <2> DEFINE rest == [a \in Address |-> Less(coins[a], t.inputs)]
  <2>1. coins' = [rest EXCEPT ![b] = With(@, NewCoin(b, t.change))]
    BY DEF ConfirmTransfer
  <2>2. \A a \in Address : rest[a] \in Seq(CoinsOf(a))
    <3> SUFFICES ASSUME NEW a \in Address PROVE Less(coins[a], t.inputs) \in Seq(CoinsOf(a))
      OBVIOUS
    <3>1. coins[a] \in Seq(CoinsOf(a))
      BY <1>3 DEF LedgerTypes
    <3> QED
      BY <1>2, <3>1, LessType
  <2>3. DOMAIN rest = Address
    OBVIOUS
  <2> HIDE DEF rest
  <2>4. With(rest[b], NewCoin(b, t.change)) \in Seq(CoinsOf(b))
    BY <1>2, <1>3, <2>2, CoinFits
  <2> QED
    BY <1>2, <2>1, <2>2, <2>3, <2>4
<1>7. LedgerTypes' /\ SupportBalance' = SupportBalance
  BY <1>1, <1>3, <1>5, <1>6 DEF LedgerTypes, SupportBalance
<1>8. /\ \A a \in Address : Held[a] = tokens[a] + paid[a] /\ Held[a] \in Nat
      /\ \A a \in Address : Held'[a] = tokens'[a] + paid'[a] /\ Held'[a] \in Nat
  BY <1>3, <1>5 DEF Held
<1>9. /\ \A a \in Address : a # b => Held'[a] = Held[a]
      /\ ~OfRound(t) => Held'[b] = Held[b]
  <2>1. \A a \in Address : a # b => tokens'[a] = tokens[a] /\ paid'[a] = paid[a]
    BY <1>1, <1>3
  <2>2. ~OfRound(t) => tokens'[b] = tokens[b] - m /\ paid'[b] = paid[b] + m
    BY <1>1, <1>2, <1>3
  <2>3. \A a \in Address : tokens[a] \in Nat /\ paid[a] \in Nat
    BY <1>3
  <2>4. \A a \in Address : a # b => Held'[a] = Held[a]
    BY <1>8, <2>1
  <2>5. ASSUME ~OfRound(t) PROVE Held'[b] = Held[b]
    <3>1. Held[b] = tokens[b] + paid[b] /\ Held'[b] = (tokens[b] - m) + (paid[b] + m)
      BY <1>2, <1>8, <2>2, <2>5
    <3> QED
      BY <1>2, <1>4, <2>3, <3>1
  <2> QED
    BY <2>4, <2>5
<1>10. \A u \in built' \cup pool' : u \in built \cup pool
  BY <1>1
<1>11. QueryInv'
  BY <1>1, QueryStays DEF Inv
<1>12. Types'
  <2>1. \A u \in built' \cup pool' : TransactionOK(u)'
    BY <1>10, StaysOK DEF Inv, Types
  <2> QED
    BY <1>1, <1>7, <2>1 DEF Inv, Types, RoundTypes, BoundTypes
<1>13. Phases' /\ SetAside'
  BY <1>1, <1>7 DEF Inv, Phases, SetAside, Worthwhile, Current, OfRound
<1>14. Known'
  <2>1. CASE OfRound(t)
    <3>1. pc = "idle" /\ \A a \in Address : answer[a] = Failed
      BY <1>2, <2>1, NothingAsked
    <3> QED
      BY <1>1, <1>8, <3>1 DEF Known, Failed
  <2>2. CASE ~OfRound(t)
    <3>1. \A a \in Address : Held'[a] = Held[a]
      BY <1>9, <2>2
    <3>2. Held' = Held
      BY <3>1 DEF Held
    <3> QED
      BY <1>1, <3>2 DEF Inv, Known, Pending, IsSummary
  <2> QED
    BY <2>1, <2>2
<1>15. Supported'
  BY <1>1, <1>10 DEF Inv, Supported, CostOfAll
<1>16. Retaining'
  <2>1. ASSUME NEW u \in built' \cup pool', IsSummary(u)
        PROVE  Held'[u.sender] = Held[u.sender]
    <3>1. u.sender \in Address
      BY <1>10, <2>1 DEF Inv, Types, TransactionOK, IsTransfer, IsSummary, TransferOK
    <3>2. CASE OfRound(t)
      <4>1. IsSummary(t) /\ u # t
        BY <1>1, <1>2, <3>2 DEF IsSummary, OfRound
      <4>2. u.sender # b
        BY <1>1, <1>10, <2>1, <4>1 DEF Inv, Retaining
      <4> QED
        BY <1>9, <3>1, <4>2
    <3>3. CASE ~OfRound(t)
      BY <1>9, <3>1, <3>3
    <3> QED
      BY <3>2, <3>3
  <2> QED
    BY <1>10, <2>1 DEF Inv, Retaining, IsSummary
<1> QED
  BY <1>11, <1>12, <1>13, <1>14, <1>15, <1>16 DEF Inv

\* The support account has paid; no other payment of it is there.
LEMMA ConfirmSupportGood ==
  ASSUME Inv, NEW t, ConfirmSupport(t)
  PROVE  Inv'
<1>1. /\ t \in pool /\ t.kind = "support" /\ pool' = pool \ {t}
      /\ support' = support - CostOfAll(t.to)
      /\ UNCHANGED <<tokens, locked, paid, supportLocked, built, pc, todo, budget, toMap>>
      /\ UNCHANGED <<isContract, failures, traffic>>
      /\ minted' = [a \in Address |-> IF a \in t.to THEN minted[a] + 1 ELSE minted[a]]
      /\ UNCHANGED balances /\ call' = call /\ answer' = answer
  BY DEF ConfirmSupport, balances, round, bounds
<1>2. /\ pc = "idle" /\ t.error = "none" /\ t \notin built /\ t.to \subseteq Address
      /\ CostOfAll(t.to) <= support
  BY <1>1 DEF Inv, Phases, Types, TransactionOK, Supported, OfRound
<1>3. support' \in Nat
  <2>1. CostOfAll(t.to) \in Nat
    <3>1. Cardinality(t.to) \in Nat
      BY <1>2, AddressIsFinite, FS_Subset, FS_CardinalityType
    <3>2. FixSupport * Cardinality(t.to) \in Nat
      BY <3>1, Constants
    <3> QED
      BY <3>2, Constants DEF CostOfAll
  <2>2. support \in Nat
    BY DEF Inv, Types, LedgerTypes
  <2> QED
    BY <1>1, <1>2, <2>1, <2>2
<1>4. DOMAIN coins' = Address /\ \A a \in Address : coins'[a] \in Seq(CoinsOf(a))
  <2>1. coins' = [a \in Address |->
                    IF a \in t.to THEN With(coins[a], NewCoin(a, FixSupport)) ELSE coins[a]]
    BY DEF ConfirmSupport
  <2>2. ASSUME NEW a \in Address
        PROVE  coins[a] \in Seq(CoinsOf(a)) /\ With(coins[a], NewCoin(a, FixSupport)) \in Seq(CoinsOf(a))
    <3>1. LedgerTypes /\ coins[a] \in Seq(CoinsOf(a))
      BY DEF Inv, Types, LedgerTypes
    <3> QED
      BY <3>1, Constants, CoinFits
  <2> QED
    BY <2>1, <2>2
<1>5. LedgerTypes' /\ Held' = Held
  <2>1. minted' \in [Address -> Nat]
    BY <1>1 DEF Inv, Types, LedgerTypes
  <2> QED
    BY <1>1, <1>3, <1>4, <2>1 DEF Inv, Types, LedgerTypes, Held
<1>6. \A u \in built' \cup pool' : u \in built \cup pool /\ u # t
  BY <1>1, <1>2
<1>7. \A u \in built' \cup pool' : u.kind # "support"
  BY <1>1, <1>6 DEF Inv, Supported
<1>8. QueryInv'
  BY <1>1, QueryStays DEF Inv
<1>9. Types'
  <2>1. \A u \in built' \cup pool' : TransactionOK(u)'
    BY <1>6, StaysOK DEF Inv, Types
  <2> QED
    BY <1>1, <1>5, <2>1 DEF Inv, Types, RoundTypes, BoundTypes
<1>10. Phases' /\ SetAside' /\ Known'
  BY <1>1, <1>2, <1>5 DEF Inv, Phases, SetAside, Known, OfRound
<1>11. Supported'
  BY <1>7 DEF Supported
<1>12. Retaining'
  BY <1>5, <1>6 DEF Inv, Retaining, IsSummary
<1> QED
  BY <1>8, <1>9, <1>10, <1>11, <1>12 DEF Inv

\* An address holds no fewer tokens than before, or has more coins.
LEMMA MoreThere ==
  ASSUME Inv, UNCHANGED <<balances, pool, built, round, failures>>, traffic' \in Nat,
         LedgerTypes', SupportBalance' = SupportBalance, support' >= support,
         \A a \in Address : Held'[a] >= Held[a]
  PROVE  Inv'
<1>1. /\ UNCHANGED <<pc, todo, budget, toMap, isContract>>
      /\ call' = call /\ answer' = answer
  BY DEF balances, round
<1>2. QueryInv'
  BY QueryStays DEF Inv
<1>3. Types'
  BY <1>1, StaysOK DEF Inv, Types, RoundTypes, BoundTypes
<1>4. Phases' /\ SetAside'
  BY <1>1 DEF Inv, Phases, SetAside, Worthwhile, Current, OfRound
<1>5. Supported'
  <2>1. ASSUME NEW t \in built \cup pool, t.kind = "support", t.error = "none"
        PROVE  CostOfAll(t.to) <= support'
    <3>1. CostOfAll(t.to) <= support
      BY <2>1 DEF Inv, Supported
    <3>2. CostOfAll(t.to) \in Nat
      <4>1. t.to \subseteq Address
        BY <2>1 DEF Inv, Types, TransactionOK
      <4>2. Cardinality(t.to) \in Nat
        BY <4>1, AddressIsFinite, FS_Subset, FS_CardinalityType
      <4>3. FixSupport * Cardinality(t.to) \in Nat
        BY <4>2, Constants
      <4> QED
        BY <4>3, Constants DEF CostOfAll
    <3>3. support \in Nat /\ support' \in Nat
      BY DEF Inv, Types, LedgerTypes
    <3> QED
      BY <3>1, <3>2, <3>3
  <2> QED
    BY <2>1 DEF Inv, Supported, CostOfAll
<1>6. \A a \in Address : Held[a] \in Nat /\ Held'[a] \in Nat /\ Held'[a] >= Held[a]
  <2>1. \A a \in Address : Held[a] \in Nat
    BY HeldType DEF Inv, Types
  <2>2. \A a \in Address : Held'[a] \in Nat
    BY DEF LedgerTypes, Held
  <2> QED
    BY <2>1, <2>2
<1>7. Known'
  <2>2. ASSUME NEW a \in Address PROVE answer[a] <= Held'[a]
    <3>1. answer[a] \in Int /\ answer[a] <= Held[a]
      BY DEF Inv, Known, QueryInv, BalancesTypeOK, Failed
    <3> QED
      BY <1>6, <3>1
  <2>3. ASSUME Pending(todo, Held, built), todo \in Seq(Item)
        PROVE  Pending(todo, Held', built)
    <3>1. ASSUME NEW n \in 1 .. Len(todo) PROVE todo[n].balance <= Held'[todo[n].address]
      <4>1. todo[n].address \in Address /\ todo[n].balance \in Nat
        <5>1. todo[n] \in Item
          BY <2>3, ElementOfSeq
        <5> QED
          BY <5>1 DEF Item
      <4>2. todo[n].balance <= Held[todo[n].address]
        BY <2>3 DEF Pending
      <4> QED
        BY <1>6, <4>1, <4>2
    <3> QED
      BY <2>3, <3>1 DEF Pending
  <2> QED
    BY <1>1, <2>2, <2>3 DEF Inv, Known, Types, RoundTypes, Pending, IsSummary
<1>8. Retaining'
  <2>1. ASSUME NEW t \in built \cup pool, IsSummary(t)
        PROVE  t.amount + RetainedBalance <= Held'[t.sender]
    <3>1. t.sender \in Address /\ t.amount \in Nat
      BY <2>1 DEF Inv, Types, TransactionOK, IsTransfer, IsSummary, TransferOK
    <3>2. t.amount + RetainedBalance <= Held[t.sender]
      BY <2>1 DEF Inv, Retaining
    <3> QED
      BY <1>6, <3>1, <3>2, Constants
  <2> QED
    BY <2>1 DEF Inv, Retaining, IsSummary
<1> QED
  BY <1>2, <1>3, <1>4, <1>5, <1>7, <1>8 DEF Inv

\* The lock time of a coin passes.
LEMMA UnlockGood ==
  ASSUME Inv, NEW a \in Address, Unlock(a)
  PROVE  Inv'
<1>1. /\ locked[a] > 0 /\ UNCHANGED <<tokens, paid, support, supportLocked>>
      /\ coins' = [coins EXCEPT ![a] = With(@, NewCoin(a, locked[a]))]
      /\ minted' = [minted EXCEPT ![a] = @ + 1]
      /\ locked' = [locked EXCEPT ![a] = 0]
      /\ UNCHANGED <<balances, pool, built, round>> /\ UNCHANGED <<failures, traffic>>
  BY DEF Unlock, bounds, account
<1>2. /\ {tokens, locked, minted, paid} \subseteq [Address -> Nat] /\ LedgerTypes
      /\ support \in Nat /\ traffic \in Nat
      /\ DOMAIN coins = Address /\ \A b \in Address : coins[b] \in Seq(CoinsOf(b))
  BY DEF Inv, Types, LedgerTypes, BoundTypes
<1>3. With(coins[a], NewCoin(a, locked[a])) \in Seq(CoinsOf(a))
  <2>1. locked[a] \in Nat \ {0} /\ coins[a] \in Seq(CoinsOf(a))
    BY <1>1, <1>2
  <2> QED
    BY <1>2, <2>1, CoinFits
<1>4. DOMAIN coins' = Address /\ \A b \in Address : coins'[b] \in Seq(CoinsOf(b))
  BY <1>1, <1>2, <1>3
<1>5. LedgerTypes'
  <2>1. locked' \in [Address -> Nat] /\ minted' \in [Address -> Nat]
    BY <1>1, <1>2
  <2> QED
    BY <1>1, <1>2, <1>4, <2>1 DEF LedgerTypes
<1>6. /\ SupportBalance' = SupportBalance /\ support' >= support
      /\ \A b \in Address : Held'[b] >= Held[b]
  <2>1. Held' = Held
    BY <1>1 DEF Held
  <2> QED
    BY <1>1, <1>2, <2>1, HeldType DEF SupportBalance
<1> QED
  BY <1>1, <1>2, <1>5, <1>6, MoreThere

\* The coins of the support account are unlocked.
LEMMA UnlockSupportGood ==
  ASSUME Inv, UnlockSupport
  PROVE  Inv'
<1>1. /\ support' = SupportBalance /\ supportLocked' = 0
      /\ UNCHANGED <<tokens, coins, locked, minted, paid>>
      /\ UNCHANGED <<balances, pool, built, round>> /\ UNCHANGED <<failures, traffic>>
  BY DEF UnlockSupport, bounds, wallet
<1>2. LedgerTypes /\ support \in Nat /\ supportLocked \in Nat /\ traffic \in Nat
  BY DEF Inv, Types, LedgerTypes, BoundTypes
<1>3. /\ LedgerTypes' /\ SupportBalance' = SupportBalance /\ support' >= support
  BY <1>1, <1>2 DEF LedgerTypes, SupportBalance
<1>4. \A b \in Address : Held'[b] >= Held[b]
  <2>1. Held' = Held
    BY <1>1 DEF Held
  <2> QED
    BY <1>2, <2>1, HeldType
<1> QED
  BY <1>1, <1>2, <1>3, <1>4, MoreThere

\* Tokens come from outside.
LEMMA ReceiveGood ==
  ASSUME Inv, NEW a \in Address, Receive(a)
  PROVE  Inv'
<1>1. /\ traffic > 0 /\ traffic' = traffic - 1
      /\ tokens' = [tokens EXCEPT ![a] = @ + Received]
      /\ UNCHANGED <<coins, locked, minted, paid, support, supportLocked>>
      /\ UNCHANGED <<balances, pool, built, round, failures>>
  BY DEF Receive, account
<1>2. LedgerTypes /\ tokens \in [Address -> Nat] /\ support \in Nat /\ traffic \in Nat
  BY DEF Inv, Types, LedgerTypes, BoundTypes
<1>3. tokens' \in [Address -> Nat] /\ traffic' \in Nat
  BY <1>1, <1>2, Constants
<1>4. LedgerTypes' /\ SupportBalance' = SupportBalance /\ support' >= support
  BY <1>1, <1>2, <1>3 DEF LedgerTypes, SupportBalance
<1>5. \A b \in Address : Held'[b] >= Held[b]
  <2>1. \A b \in Address : tokens'[b] >= tokens[b] /\ tokens'[b] \in Nat
    BY <1>1, <1>2, <1>3, Constants
  <2>2. \A b \in Address : Held'[b] = tokens'[b] + paid[b]
    BY <1>1 DEF Held
  <2> QED
    BY <1>2, <2>1, <2>2, HeldType
<1> QED
  BY <1>1, <1>3, <1>4, <1>5, MoreThere

\* Every step keeps the invariant.
LEMMA StepIsGood ==
  ASSUME Inv, [Next]_vars
  PROVE  Inv'
<1>1. CASE BeginRound \/ NewRequest
  BY <1>1, BeginRoundGood, NewRequestGood
<1>2. CASE QueryBalances
  BY <1>2, QueryBalancesGood
<1>3. CASE HaveBalances
  BY <1>3, HaveBalancesGood
<1>4. CASE SkipItem
  BY <1>4, SkipItemGood
<1>5. CASE CheckFee
  BY <1>5, CheckFeeGood
<1>6. CASE NoSupport
  BY <1>6, NoSupportGood
<1>7. CASE NoteForSupport
  BY <1>7, NoteForSupportGood
<1>8. CASE BuildTransfer
  BY <1>8, BuildTransferGood
<1>9. CASE FinishRound
  BY <1>9, FinishRoundGood
<1>10. CASE PaySupport
  BY <1>10, PaySupportGood
<1>11. ASSUME NEW a \in Address, AskBalance(a) \/ Unlock(a) \/ Receive(a) PROVE Inv'
  BY <1>11, AskBalanceGood, UnlockGood, ReceiveGood
<1>12. ASSUME NEW t, Settle(t) PROVE Inv'
  BY <1>12, SendGood, DropGood, ConfirmTransferGood, ConfirmSupportGood DEF Settle
<1>13. CASE PayTokens
  BY <1>13, PayTokensGood
<1>14. CASE UnlockSupport
  BY <1>14, UnlockSupportGood
<1>15. CASE UNCHANGED vars
  <2>1. /\ UNCHANGED <<balances, pool, built, round>> /\ UNCHANGED <<failures, traffic>>
        /\ UNCHANGED ledger
    BY <1>15 DEF vars, bounds
  <2>2. Types
    BY DEF Inv
  <2>3. /\ LedgerTypes' /\ Held' = Held /\ SupportBalance' = SupportBalance /\ support' = support
    BY <2>1, <2>2, LedgerStays
  <2>4. traffic' \in Nat /\ support' >= support /\ \A a \in Address : Held'[a] >= Held[a]
    BY <2>1, <2>2, <2>3, HeldType DEF Types, LedgerTypes, BoundTypes
  <2> QED
    BY <2>1, <2>3, <2>4, MoreThere
<1> QED
  BY <1>1, <1>2, <1>3, <1>4, <1>5, <1>6, <1>7, <1>8, <1>9, <1>10, <1>11, <1>12, <1>13, <1>14, <1>15
  DEF Next, Work, RoundStep, SettleRound, SettlePayment, LockEnds

\* The invariant holds in every state.
LEMMA Invariant == Spec => []Inv
<1>1. Init => Inv
  BY InitIsGood
<1>2. Inv /\ [Next]_vars => Inv'
  BY StepIsGood
<1> QED
  BY <1>1, <1>2, PTL DEF Spec

-----------------------------------------------------------------------------
(* The results. *)

\* Every variable has the values it is meant to have; in particular no coin is worthless or
\* lies at another address, however coins are chosen and moved (lines 220-465 and 560-800
\* of tx_decode.go).
THEOREM SummaryTypeCorrect == Spec => []TypeOK
<1>1. Inv => TypeOK
  <2> SUFFICES ASSUME Inv PROVE TypeOK
    OBVIOUS
  <2>1. ASSUME NEW a \in Address, NEW i \in DOMAIN coins[a]
        PROVE  coins[a][i].address = a /\ coins[a][i].value > 0
    <3>1. coins[a] \in Seq(CoinsOf(a))
      BY DEF Inv, Types, LedgerTypes
    <3>2. coins[a][i] \in CoinsOf(a)
      BY <3>1, LenProperties, ElementOfSeq
    <3> QED
      BY <3>2 DEF CoinsOf
  <2>2. BalancesTypeOK
    BY DEF Inv, QueryInv
  <2> QED
    BY <2>1, <2>2 DEF Inv, Types, LedgerTypes, RoundTypes, BoundTypes, TransactionOK, TypeOK, Item
<1> QED
  BY <1>1, Invariant, PTL

\* No goroutine sends after the channels are closed: the collector has counted a result
\* of each when it returns (lines 101-125 of contract_decoder.go).
THEOREM NoPanicInQueries == Spec => []NoSendAfterReturn
<1>1. Inv => NoSendAfterReturn
  BY ReturnedIsOver DEF Inv, NoSendAfterReturn, Handed
<1> QED
  BY <1>1, Invariant, PTL

\* A list as long as there are addresses has each of them, with what the node said of it
\* (lines 112-158 of contract_decoder.go).
THEOREM ListHasAll == Spec => []ListIsWhole
<1>1. Inv => ListIsWhole
  <2> SUFFICES ASSUME Inv, call = "returned", Complete
               PROVE  /\ {list[i].address : i \in DOMAIN list} = Address
                      /\ \A i \in DOMAIN list : list[i].balance = answer[list[i].address]
    BY DEF ListIsWhole
  <2>1. QueryInv /\ list \in Seq(Item)
    BY DEF Inv, QueryInv, BalancesTypeOK, Item
  <2>2. DOMAIN list = 1 .. Len(list)
    BY <2>1, LenProperties
  <2>3. \A i \in DOMAIN list : list[i].balance = answer[list[i].address]
    BY <2>1, <2>2 DEF QueryInv, Listed
  <2> QED
    BY <2>1, <2>3, WholeList
<1> QED
  BY <1>1, Invariant, PTL

\* The support account has enough for every address noted for support, locked coins
\* included: a payment fails for want of coins only while some that it needs are locked
\* (lines 612-622, 690-700 and 771-780 of tx_decode.go).
THEOREM SupportCanBePaid == Spec => SupportIsAffordable
<1>1. Inv /\ [Next]_vars =>
        [\A t \in built' \ built : t.kind = "support" /\ t.error = "no coins" =>
            support < CostOfAll(t.to) /\ CostOfAll(t.to) <= SupportBalance]_vars
  <2> SUFFICES ASSUME Inv, Next, NEW t \in built' \ built,
                      t.kind = "support", t.error = "no coins"
               PROVE  support < CostOfAll(t.to) /\ CostOfAll(t.to) <= SupportBalance
    OBVIOUS
  <2>1. PaySupport
    <3>1. ~BuildTransfer
      <4> SUFFICES ASSUME BuildTransfer PROVE FALSE
        OBVIOUS
      <4>1. PICK made : built' = built \cup {Transfer("summary", made)}
        BY DEF BuildTransfer
      <4>2. Transfer("summary", made).kind = "summary"
        BY TransferFields
      <4> QED
        BY <4>1, <4>2
    <3>2. ~PayTokens
      <4> SUFFICES ASSUME PayTokens PROVE FALSE
        OBVIOUS
      <4>1. PICK made : built' = built \cup {Transfer("payment", made)}
        BY DEF PayTokens
      <4>2. Transfer("payment", made).kind = "payment"
        BY TransferFields
      <4> QED
        BY <4>1, <4>2
    <3>3. ~CheckFee
      BY DEF CheckFee, Abort
    <3>4. \A u : ~Settle(u)
      BY DEF Settle, Send, Drop, ConfirmTransfer, ConfirmSupport
    <3>5. /\ ~BeginRound /\ ~NewRequest /\ ~UnlockSupport
          /\ \A a \in Address : ~Unlock(a) /\ ~Receive(a) /\ ~AskBalance(a)
      BY DEF BeginRound, NewRequest, UnlockSupport, Unlock, Receive, AskBalance
    <3>6. ~QueryBalances /\ ~HaveBalances /\ ~SkipItem /\ ~NoSupport /\ ~NoteForSupport /\ ~FinishRound
      BY DEF QueryBalances, HaveBalances, SkipItem, NoSupport, NoteForSupport, FinishRound
    <3> QED
      BY <3>1, <3>2, <3>3, <3>4, <3>5, <3>6
      DEF Next, Work, RoundStep, SettleRound, SettlePayment, LockEnds
  <2>2. \A e : /\ SupportOf(toMap, e).to = toMap
               /\ SupportOf(toMap, e).error = e
    BY DEF SupportOf
  <2>3. pc = "pay" /\ t.to = toMap /\ support < CostOfAll(toMap)
    BY <2>1, <2>2 DEF PaySupport
  <2> QED
    BY <2>3, SetAsidePays
<1> QED
  BY <1>1, Invariant, PTL DEF Spec, SupportIsAffordable

\* The coins of a summary are worth its change and its fee (lines 312-338 and 386-388 of
\* tx_decode.go).
THEOREM SummaryCostsFee == Spec => []SummaryPaysItsFee
<1>1. Inv => SummaryPaysItsFee
  BY DEF Inv, Retaining, IsSummary, SummaryPaysItsFee
<1> QED
  BY <1>1, Invariant, PTL

\* A summary that is confirmed leaves the balance to retain, but for what has been paid
\* from the address since the round began (lines 646 and 664 of tx_decode.go).
THEOREM BalanceIsRetained == Spec => SummaryRetainsBalance
<1>1. Inv /\ [Next]_vars =>
        [\A t \in pool \ pool' : t.kind = "summary" =>
            tokens'[t.sender] + paid[t.sender] >= RetainedBalance]_vars
  <2> SUFFICES ASSUME Inv, Next, NEW t \in pool \ pool', t.kind = "summary"
               PROVE  tokens'[t.sender] + paid[t.sender] >= RetainedBalance
    OBVIOUS
  <2>1. PICK u \in built \cup pool : ConfirmTransfer(u) \/ ConfirmSupport(u)
    <3>1. \A u : ~Send(u) /\ ~Drop(u)
      BY DEF Send, Drop
    <3>2. /\ ~BeginRound /\ ~NewRequest /\ ~PayTokens /\ ~UnlockSupport
          /\ \A a \in Address : ~Unlock(a) /\ ~Receive(a)
      BY DEF BeginRound, NewRequest, PayTokens, UnlockSupport, Unlock, Receive
    <3>3. ~RoundStep
      BY DEF RoundStep, QueryBalances, HaveBalances, SkipItem, CheckFee, NoSupport,
             NoteForSupport, BuildTransfer, FinishRound, PaySupport, AskBalance
    <3> QED
      BY <3>1, <3>2, <3>3 DEF Next, Work, SettleRound, SettlePayment, Settle, LockEnds
  <2>2. u = t /\ ConfirmTransfer(t)
    BY <2>1 DEF ConfirmTransfer, ConfirmSupport
  <2>3. /\ IsSummary(t) /\ t.sender \in Address /\ t.amount \in Nat
        /\ t.amount + RetainedBalance <= Held[t.sender]
    <3>1. IsSummary(t)
      BY DEF Inv, Phases, IsSummary
    <3> QED
      BY <3>1 DEF Inv, Types, TransactionOK, TransferOK, IsTransfer, IsSummary, Retaining
  <2>4. /\ tokens[t.sender] \in Nat /\ paid[t.sender] \in Nat
        /\ Held[t.sender] = tokens[t.sender] + paid[t.sender]
    BY <2>3, HeldType DEF Inv, Types
  <2>5. tokens'[t.sender] = tokens[t.sender] - Moved(t)
    BY <2>2, <2>3 DEF ConfirmTransfer, Inv, Types, LedgerTypes
  <2>6. Moved(t) \in Nat /\ Moved(t) <= t.amount
    BY <2>3, <2>4 DEF Moved
  <2> QED
    BY <2>3, <2>4, <2>5, <2>6, Constants
<1> QED
  BY <1>1, Invariant, PTL DEF Spec, SummaryRetainsBalance
===============================================================================
