----------------------------- MODULE CodecsProofs -----------------------------
(***************************************************************************)
(* What module Codecs says of the replies of the node and of the           *)
(* transactions of a block, for transactions with any number of inputs and *)
(* outputs and any accounts: every account is told exactly of what it      *)
(* gains and loses, and no money is made of a failed call.  And of the     *)
(* encodings, for any bases, sizes and inputs of their kinds: numbers,     *)
(* transactions and addresses are read as they were written, signatures    *)
(* are well formed.  What is said of the readers and writers one by one is *)
(* in module EncodingProofs.                                               *)
(***************************************************************************)
EXTENDS Codecs, EncodingProofs

\* The data accounts may have, of inputs and outputs from a set.
AllData(S) == UNION {[A -> [inputs : Seq(S), outputs : Seq(S)]] : A \in SUBSET Accounts}

\* What data say an account puts in and gets out.
InSum(data, account)  == IF account \in DOMAIN data THEN SumOf(data[account].inputs) ELSE 0
OutSum(data, account) == IF account \in DOMAIN data THEN SumOf(data[account].outputs) ELSE 0

\* An address of this account.
Owns(account, address) == address \in DOMAIN AccountOf /\ AccountOf[address] = account

\* The share of an account in one input or output.
ShareOf(account, put) == IF Owns(account, put.address) THEN put.value ELSE 0

\* What is counted on one side only.
OnSide(side, counted, n) == IF side = counted THEN n ELSE 0

-----------------------------------------------------------------------------
(* One input or output. *)

\* The sum of a sequence one coin longer.
LEMMA SumOfAppend ==
  ASSUME NEW S, \A c \in S : c.value \in Int, NEW coins \in Seq(S), NEW c \in S
  PROVE  /\ SumOf(coins) \in Int
         /\ SumOf(Append(coins, c)) = SumOf(coins) + c.value
<1> DEFINE n == Len(coins)
           more == Append(coins, c)
           D == 1 .. n
           E == 1 .. n + 1
           w == Values(coins)
           v == Values(more)
<1>1. /\ n \in Nat /\ DOMAIN coins = D /\ more \in Seq(S) /\ Len(more) = n + 1 /\ DOMAIN more = E
      /\ more[n + 1] = c /\ \A i \in D : more[i] = coins[i]
  BY AppendProperties, LenProperties
<1>2. IsFiniteSet(D) /\ IsFiniteSet(E) /\ n + 1 \in E /\ E \ {n + 1} = D /\ D \subseteq E
  <2>1. IsFiniteSet(D) /\ IsFiniteSet(E)
    BY <1>1, FS_Interval
  <2>2. n + 1 \in E /\ E \ {n + 1} = D /\ D \subseteq E
    BY <1>1
  <2> QED
    BY <2>1, <2>2
<1>3. (\A i \in D : coins[i].value \in Int) /\ (\A i \in E : more[i].value \in Int)
  <2>1. \A i \in D : coins[i] \in S
    BY <1>1, ElementOfSeq
  <2>2. \A i \in E : more[i] \in S
    BY <1>1, ElementOfSeq
  <2> QED
    BY <2>1, <2>2
<1>4. /\ w \in [D -> Int] /\ v \in [E -> Int] /\ v[n + 1] = c.value
      /\ \A i \in D : v[i] = w[i]
  BY <1>1, <1>2, <1>3 DEF Values
<1> HIDE DEF D, E, w, v, n, more
<1>5. SumOf(coins) = Sums(w)[D] /\ SumOf(more) = Sums(v)[E]
  BY <1>1, <1>2, <1>3, <1>4, SumOfCoins DEF SumAll, w, v
<1>6. Sums(v)[E] = v[n + 1] + Sums(v)[D]
  <2>1. E \in SUBSET E
    OBVIOUS
  <2>2. Sums(v)[E] = v[n + 1] + Sums(v)[E \ {n + 1}]
    BY <1>2, <1>4, <2>1, SumsRemove
  <2> QED
    BY <1>2, <2>2
<1>7. Sums(v)[D] = Sums(w)[D]
  BY <1>2, <1>4, SumsAgree
<1>8. Sums(w)[D] \in Int
  <2>1. D \in SUBSET D
    OBVIOUS
  <2> QED
    BY <1>2, <1>4, <2>1, SumsStep
<1> QED
  BY <1>4, <1>5, <1>6, <1>7, <1>8 DEF more

\* Nothing adds up to nothing.
LEMMA SumOfNoCoins == SumOf(<<>>) = 0
<1>1. DOMAIN <<>> = {} /\ IsFiniteSet({})
  BY FS_EmptySet
<1>2. SumOf(<<>>) = SumAll(Values(<<>>))
  BY <1>1, SumOfCoins
<1>3. Values(<<>>) \in [{} -> Int] /\ DOMAIN Values(<<>>) = {}
  BY <1>1 DEF Values
<1> QED
  BY <1>1, <1>2, <1>3, SumsStep DEF SumAll

\* What data tell of an account are numbers.
LEMMA DataType ==
  ASSUME NEW S, \A c \in S : c.value \in Int, NEW data \in AllData(S), NEW a \in Accounts
  PROVE  InSum(data, a) \in Int /\ OutSum(data, a) \in Int
<1>1. PICK A \in SUBSET Accounts : data \in [A -> [inputs : Seq(S), outputs : Seq(S)]]
  BY DEF AllData
<1>2. ASSUME NEW coins \in Seq(S) PROVE SumOf(coins) \in Int
  <2>1. CASE S = {}
    <3>1. coins = <<>>
      BY <2>1, LenProperties
    <3> QED
      BY <3>1, SumOfNoCoins
  <2>2. CASE S # {}
    BY <2>2, SumOfAppend
  <2> QED
    BY <2>1, <2>2
<1>3. CASE a \in A
  <2>1. data[a].inputs \in Seq(S) /\ data[a].outputs \in Seq(S)
    BY <1>1, <1>3
  <2> QED
    BY <1>2, <2>1 DEF InSum, OutSum
<1>4. CASE a \notin A
  BY <1>1, <1>4 DEF InSum, OutSum
<1> QED
  BY <1>3, <1>4

\* AddTo adds the share of its account to one side, and nothing else.
LEMMA AddToAddsShare ==
  ASSUME NEW S, \A c \in S : c.value \in Int, NEW data \in AllData(S), NEW put \in S,
         NEW side \in {"inputs", "outputs"}, NEW more, more = AddTo(data, put, side)
  PROVE  /\ more \in AllData(S)
         /\ \A a : a \in DOMAIN more <=> a \in DOMAIN data \/ Owns(a, put.address)
         /\ \A a \in Accounts :
              /\ InSum(data, a) \in Int /\ OutSum(data, a) \in Int
              /\ InSum(more, a) = InSum(data, a) + OnSide(side, "inputs", ShareOf(a, put))
              /\ OutSum(more, a) = OutSum(data, a) + OnSide(side, "outputs", ShareOf(a, put))
<1> DEFINE Both == [inputs : Seq(S), outputs : Seq(S)]
<1>1. PICK A \in SUBSET Accounts : data \in [A -> Both]
  BY DEF AllData
<1>2. \A a \in Accounts : InSum(data, a) \in Int /\ OutSum(data, a) \in Int
  BY DataType
<1>3. CASE put.address \notin DOMAIN AccountOf
  <2>1. more = data
    BY <1>3 DEF AddTo
  <2>2. \A a : ~Owns(a, put.address) /\ ShareOf(a, put) = 0
    BY <1>3 DEF Owns, ShareOf
  <2>3. more \in AllData(S)
    BY <2>1
  <2>4. \A a : a \in DOMAIN more <=> a \in DOMAIN data \/ Owns(a, put.address)
    BY <2>1, <2>2
  <2>5. \A a \in Accounts : InSum(more, a) = InSum(data, a) + 0 /\ OutSum(more, a) = OutSum(data, a) + 0
    BY <1>2, <2>1
  <2> QED
    BY <1>2, <2>2, <2>3, <2>4, <2>5 DEF OnSide
<1>4. CASE put.address \in DOMAIN AccountOf
  <2> DEFINE account == AccountOf[put.address]
             old == DataOf(data, account)
             new == [old EXCEPT ![side] = Append(@, put)]
  <2>1. account \in Accounts /\ \A a : Owns(a, put.address) <=> a = account
    BY <1>4 DEF Accounts, Owns
  <2>2. more = [a \in A \cup {account} |-> IF a = account THEN new ELSE data[a]]
    BY <1>1, <1>4 DEF AddTo
  <2>3. /\ old \in Both
        /\ SumOf(old.inputs) = InSum(data, account) /\ SumOf(old.outputs) = OutSum(data, account)
    <3>1. CASE account \in A
      BY <1>1, <3>1 DEF DataOf, InSum, OutSum
    <3>2. CASE account \notin A
      BY <1>1, <3>2, SumOfNoCoins DEF DataOf, NewData, InSum, OutSum
    <3> QED
      BY <3>1, <3>2
  <2> HIDE DEF old, account
  <2>4. /\ new \in Both
        /\ SumOf(new.inputs) = SumOf(old.inputs) + OnSide(side, "inputs", put.value)
        /\ SumOf(new.outputs) = SumOf(old.outputs) + OnSide(side, "outputs", put.value)
    <3>1. old.inputs \in Seq(S) /\ old.outputs \in Seq(S)
      BY <2>3
    <3>2. /\ SumOf(old.inputs) \in Int /\ SumOf(old.outputs) \in Int
          /\ SumOf(Append(old.inputs, put)) = SumOf(old.inputs) + put.value
          /\ SumOf(Append(old.outputs, put)) = SumOf(old.outputs) + put.value
      BY <3>1, SumOfAppend
    <3>3. Append(old.inputs, put) \in Seq(S) /\ Append(old.outputs, put) \in Seq(S)
      BY <3>1, AppendProperties
    <3>4. CASE side = "inputs"
      <4>1. new = [old EXCEPT !.inputs = Append(@, put)]
        BY <3>4
      <4>2. new \in Both /\ new.inputs = Append(old.inputs, put) /\ new.outputs = old.outputs
        BY <2>3, <3>3, <4>1
      <4> HIDE DEF new
      <4> QED
        BY <3>2, <3>4, <4>2 DEF OnSide
    <3>5. CASE side = "outputs"
      <4>1. new = [old EXCEPT !.outputs = Append(@, put)]
        BY <3>5
      <4>2. new \in Both /\ new.outputs = Append(old.outputs, put) /\ new.inputs = old.inputs
        BY <2>3, <3>3, <4>1
      <4> HIDE DEF new
      <4> QED
        BY <3>2, <3>5, <4>2 DEF OnSide
    <3> QED
      BY <3>4, <3>5
  <2> HIDE DEF new
  <2>5. DOMAIN more = A \cup {account} /\ more \in [A \cup {account} -> Both]
    <3> HIDE DEF Both
    <3> QED
      BY <1>1, <2>2, <2>4
  <2>6. more \in AllData(S)
    <3>1. A \cup {account} \in SUBSET Accounts
      BY <2>1
    <3> QED
      BY <2>5, <3>1 DEF AllData
  <2>7. \A a : a \in DOMAIN more <=> a \in DOMAIN data \/ Owns(a, put.address)
    BY <1>1, <2>1, <2>5
  <2>8. ASSUME NEW a \in Accounts
        PROVE  /\ InSum(more, a) = InSum(data, a) + OnSide(side, "inputs", ShareOf(a, put))
               /\ OutSum(more, a) = OutSum(data, a) + OnSide(side, "outputs", ShareOf(a, put))
    <3>1. CASE a = account
      <4>1. InSum(more, a) = SumOf(new.inputs) /\ OutSum(more, a) = SumOf(new.outputs)
        BY <2>2, <2>5, <3>1 DEF InSum, OutSum
      <4>2. ShareOf(a, put) = put.value
        BY <2>1, <3>1 DEF ShareOf
      <4> QED
        BY <2>3, <2>4, <3>1, <4>1, <4>2
    <3>2. CASE a # account
      <4>1. InSum(more, a) = InSum(data, a) /\ OutSum(more, a) = OutSum(data, a)
        BY <1>1, <2>2, <2>5, <3>2 DEF InSum, OutSum
      <4>2. ShareOf(a, put) = 0
        BY <2>1, <3>2 DEF ShareOf
      <4> QED
        BY <1>2, <4>1, <4>2 DEF OnSide
    <3> QED
      BY <3>1, <3>2
  <2> QED
    BY <1>2, <2>6, <2>7, <2>8
<1> QED
  BY <1>3, <1>4

-----------------------------------------------------------------------------
(* All inputs or outputs. *)

\* The shares of an account in a sequence of inputs or outputs.
Shares(account, puts) == [i \in DOMAIN puts |-> ShareOf(account, puts[i])]

\* Data that tell of some of the puts, by their places, beyond what earlier data tell.
Tells(more, data, S, puts, places, side) ==
    /\ more \in AllData(S)
    /\ \A a : a \in DOMAIN more <=>
             a \in DOMAIN data \/ \E i \in places : Owns(a, puts[i].address)
    /\ \A a \in Accounts :
         /\ InSum(more, a) =
              InSum(data, a) + OnSide(side, "inputs", Sums(Shares(a, puts))[places])
         /\ OutSum(more, a) =
              OutSum(data, a) + OnSide(side, "outputs", Sums(Shares(a, puts))[places])

\* Shares are numbers.
LEMMA SharesType ==
  ASSUME NEW S, \A c \in S : c.value \in Int, NEW puts \in Seq(S), NEW a
  PROVE  Shares(a, puts) \in [1 .. Len(puts) -> Int] /\ IsFiniteSet(1 .. Len(puts))
<1>1. DOMAIN puts = 1 .. Len(puts) /\ IsFiniteSet(1 .. Len(puts))
  BY LenProperties, FS_Interval
<1>2. \A i \in 1 .. Len(puts) : puts[i].value \in Int
  BY ElementOfSeq
<1> QED
  BY <1>1, <1>2 DEF Shares, ShareOf

\* From no places on.
LEMMA TellsNone ==
  ASSUME NEW S, \A c \in S : c.value \in Int, NEW data \in AllData(S), NEW puts \in Seq(S),
         NEW side \in {"inputs", "outputs"}
  PROVE  Tells(data, data, S, puts, {}, side)
<1>1. \A a \in Accounts : Sums(Shares(a, puts))[{}] = 0
  <2>1. {} \in SUBSET (1 .. Len(puts))
    OBVIOUS
  <2> QED
    BY <2>1, SharesType, SumsStep
<1>2. \A a \in Accounts : InSum(data, a) \in Int /\ OutSum(data, a) \in Int
  BY DataType
<1>3. \A a : a \in DOMAIN data <=> a \in DOMAIN data \/ \E i \in {} : Owns(a, puts[i].address)
  OBVIOUS
<1>4. ASSUME NEW a \in Accounts
      PROVE  /\ InSum(data, a) =
                  InSum(data, a) + OnSide(side, "inputs", Sums(Shares(a, puts))[{}])
             /\ OutSum(data, a) =
                  OutSum(data, a) + OnSide(side, "outputs", Sums(Shares(a, puts))[{}])
  BY <1>1, <1>2 DEF OnSide
<1> QED
  BY <1>3, <1>4 DEF Tells

\* And one place more.
LEMMA TellsOneMore ==
  ASSUME NEW S, \A c \in S : c.value \in Int, NEW data, NEW puts \in Seq(S),
         NEW side \in {"inputs", "outputs"},
         NEW places \in SUBSET (1 .. Len(puts)), NEW x \in places,
         NEW more, Tells(more, data, S, puts, places \ {x}, side),
         \A a \in Accounts : InSum(data, a) \in Int /\ OutSum(data, a) \in Int
  PROVE  Tells(AddTo(more, puts[x], side), data, S, puts, places, side)
<1> DEFINE put == puts[x]
           last == AddTo(more, put, side)
           rest == places \ {x}
<1>1. put \in S /\ more \in AllData(S)
  BY ElementOfSeq DEF Tells
<1>2. /\ last \in AllData(S)
      /\ \A a : a \in DOMAIN last <=> a \in DOMAIN more \/ Owns(a, put.address)
      /\ \A a \in Accounts :
           /\ InSum(last, a) = InSum(more, a) + OnSide(side, "inputs", ShareOf(a, put))
           /\ OutSum(last, a) = OutSum(more, a) + OnSide(side, "outputs", ShareOf(a, put))
  <2>1. last = AddTo(more, put, side)
    OBVIOUS
  <2>2. \A c \in S : c.value \in Int
    OBVIOUS
  <2> HIDE DEF put, last
  <2>3. last \in AllData(S)
    BY ONLY <1>1, <2>1, <2>2, side \in {"inputs", "outputs"}, AddToAddsShare
  <2>4. \A a : a \in DOMAIN last <=> a \in DOMAIN more \/ Owns(a, put.address)
    BY <2>1 DEF AddTo, Owns
  <2>5. \A a \in Accounts :
          InSum(last, a) = InSum(more, a) + OnSide(side, "inputs", ShareOf(a, put))
    BY ONLY <1>1, <2>1, <2>2, side \in {"inputs", "outputs"}, AddToAddsShare
  <2>6. \A a \in Accounts :
          OutSum(last, a) = OutSum(more, a) + OnSide(side, "outputs", ShareOf(a, put))
    BY ONLY <1>1, <2>1, <2>2, side \in {"inputs", "outputs"}, AddToAddsShare
  <2> QED
    BY <2>3, <2>4, <2>5, <2>6
<1>3. \A a : a \in DOMAIN last <=>
        a \in DOMAIN data \/ \E i \in places : Owns(a, puts[i].address)
  <2>1. \A a : (\E i \in places : Owns(a, puts[i].address))
          <=> (\E i \in rest : Owns(a, puts[i].address)) \/ Owns(a, put.address)
    OBVIOUS
  <2>2. \A a : a \in DOMAIN more <=>
          a \in DOMAIN data \/ \E i \in rest : Owns(a, puts[i].address)
    BY DEF Tells
  <2> HIDE DEF last, put, rest
  <2> QED
    BY <1>2, <2>1, <2>2
<1>4. ASSUME NEW a \in Accounts
      PROVE  /\ Sums(Shares(a, puts))[places] = ShareOf(a, put) + Sums(Shares(a, puts))[rest]
             /\ Sums(Shares(a, puts))[rest] \in Int /\ ShareOf(a, put) \in Int
  <2> DEFINE D == 1 .. Len(puts)
             w == Shares(a, puts)
  <2>1. w[x] = ShareOf(a, put)
    BY LenProperties DEF Shares
  <2>2. w \in [D -> Int] /\ IsFiniteSet(D)
    BY SharesType
  <2>3. rest \in SUBSET D /\ places \in SUBSET D /\ x \in D
    OBVIOUS
  <2> HIDE DEF D, w
  <2>4. Sums(w)[places] = w[x] + Sums(w)[places \ {x}]
    BY <2>2, <2>3, SumsRemove
  <2>5. Sums(w)[rest] \in Int
    BY <2>2, <2>3, SumsStep
  <2>6. w[x] \in Int
    BY <2>2, <2>3
  <2> QED
    BY <2>1, <2>4, <2>5, <2>6 DEF w
<1>5. ASSUME NEW a \in Accounts
      PROVE  /\ InSum(last, a) = InSum(data, a)
                   + OnSide(side, "inputs", Sums(Shares(a, puts))[places])
             /\ OutSum(last, a) = OutSum(data, a)
                   + OnSide(side, "outputs", Sums(Shares(a, puts))[places])
  <2>1. /\ InSum(more, a) = InSum(data, a)
              + OnSide(side, "inputs", Sums(Shares(a, puts))[rest])
        /\ OutSum(more, a) = OutSum(data, a)
              + OnSide(side, "outputs", Sums(Shares(a, puts))[rest])
    BY DEF Tells
  <2> HIDE DEF last, put, rest
  <2> QED
    BY <1>2, <1>4, <2>1 DEF OnSide
<1> QED
  BY <1>2, <1>3, <1>5 DEF Tells

\* AddAll tells of all of them.
LEMMA AddAllTells ==
  ASSUME NEW S, \A c \in S : c.value \in Int, NEW data \in AllData(S), NEW puts \in Seq(S),
         NEW side \in {"inputs", "outputs"}
  PROVE  Tells(AddAll(data, puts, side), data, S, puts, 1 .. Len(puts), side)
<1> DEFINE D == 1 .. Len(puts)
           R == AllData(S)
           C == [s \in SUBSET D |-> Max(s)]
           G == [p \in D \X R |-> AddTo(p[2], puts[p[1]], side)]
           Rec(F) == [s \in SUBSET D |-> IF s = {} THEN data
                        ELSE AddTo(F[s \ {Max(s)}], puts[Max(s)], side)]
           Fold == CHOOSE F : F = Rec(F)
           Good == [s \in SUBSET D |-> Tells(Fold[s], data, S, puts, s, side)]
<1>1. DOMAIN puts = D /\ IsFiniteSet(D) /\ \A i \in D : puts[i] \in S
  BY LenProperties, ElementOfSeq, FS_Interval
<1>2. AddAll(data, puts, side) = Fold[D]
  <2>1. AddAll(data, puts, side) =
          (CHOOSE F : F = [s \in SUBSET (DOMAIN puts) |-> IF s = {} THEN data
                        ELSE AddTo(F[s \ {Max(s)}], puts[Max(s)], side)])[DOMAIN puts]
    BY Zenon DEF AddAll, FoldLeft, MapThenFoldSet
  <2> HIDE DEF D
  <2> QED
    BY <1>1, <2>1, Zenon
<1>3. Chooses(C, D)
  BY LenProperties, MaxChooses
<1>4. \A x \in D, r \in R : G[<<x, r>>] = AddTo(r, puts[x], side) /\ G[<<x, r>>] \in R
  <2> SUFFICES ASSUME NEW x \in D, NEW r \in R
               PROVE  G[<<x, r>>] = AddTo(r, puts[x], side) /\ AddTo(r, puts[x], side) \in R
    OBVIOUS
  <2>1. <<x, r>> \in D \X R
    OBVIOUS
  <2>2. G[<<x, r>>] = AddTo(<<x, r>>[2], puts[<<x, r>>[1]], side)
    BY <2>1, Zenon
  <2> HIDE DEF G, D
  <2> QED
    BY <1>1, <2>2, AddToAddsShare
<1>5. PICK H : IsFold(H, D, C, G, data) /\ \A s \in SUBSET D : H[s] \in R
  <2>1. \A x \in D, r \in R : G[<<x, r>>] \in R
    <3> HIDE DEF D, C, G, R
    <3> QED
      BY <1>4
  <2>2. data \in R
    OBVIOUS
  <2> HIDE DEF D, C, G, R
  <2> QED
    BY <1>1, <1>3, <2>1, <2>2, FoldInside
<1>6. H = Rec(H)
  <2>1. ASSUME NEW s \in SUBSET D, s # {}
        PROVE  Step(H, s, C, G, data) = AddTo(H[s \ {Max(s)}], puts[Max(s)], side)
    <3>1. C[s] = Max(s) /\ C[s] \in D /\ s \ {Max(s)} \in SUBSET D
      BY <1>3, <2>1 DEF Chooses
    <3>2. G[<<C[s], H[s \ {C[s]}]>>] = AddTo(H[s \ {C[s]}], puts[C[s]], side)
      <4> HIDE DEF C, G, R
      <4> QED
        BY <1>4, <1>5, <3>1
    <3> HIDE DEF C, G
    <3> QED
      BY <2>1, <3>1, <3>2 DEF Step
  <2>2. \A s \in SUBSET D : Step(H, s, C, G, data) =
          IF s = {} THEN data ELSE AddTo(H[s \ {Max(s)}], puts[Max(s)], side)
    <3> HIDE DEF C, G, D
    <3> QED
      BY <2>1 DEF Step
  <2> HIDE DEF C, G, D
  <2> QED
    BY <1>5, <2>2 DEF IsFold
<1>7. Fold = Rec(Fold)
  <2>1. \E F : F = Rec(F)
    BY <1>6
  <2> QED
    BY <2>1, Zenon
<1> HIDE DEF Fold
<1>8. \A s \in SUBSET D : Good[s] \in {TRUE}
  <2>1. Tells(Fold[{}], data, S, puts, {}, side)
    <3>1. Fold[{}] = Rec(Fold)[{}]
      BY <1>7, Zenon
    <3>2. Fold[{}] = data
      BY <3>1
    <3> QED
      BY <3>2, TellsNone
  <2>2. ASSUME NEW s \in SUBSET D, s # {}, Tells(Fold[s \ {C[s]}], data, S, puts, s \ {C[s]}, side)
        PROVE  Tells(Fold[s], data, S, puts, s, side)
    <3>1. C[s] = Max(s) /\ C[s] \in s
      BY <1>3, <2>2 DEF Chooses
    <3>2. Fold[s] = Rec(Fold)[s]
      BY <1>7, Zenon
    <3>3. Fold[s] = AddTo(Fold[s \ {Max(s)}], puts[Max(s)], side)
      BY <2>2, <3>2, Zenon
    <3>4. \A a \in Accounts : InSum(data, a) \in Int /\ OutSum(data, a) \in Int
      BY DataType
    <3> HIDE DEF C
    <3>5. Tells(AddTo(Fold[s \ {C[s]}], puts[C[s]], side), data, S, puts, s, side)
      BY <2>2, <3>1, <3>4, TellsOneMore
    <3> QED
      BY <3>1, <3>3, <3>5
  <2>3. \A s \in SUBSET D : Good[s] = Tells(Fold[s], data, S, puts, s, side)
    BY Zenon
  <2>4. {} \in SUBSET D /\ \A s \in SUBSET D : s \ {C[s]} \in SUBSET D
    OBVIOUS
  <2> HIDE DEF C, D, Good
  <2>5. Good[{}] \in {TRUE}
    BY <2>1, <2>3, <2>4
  <2>6. \A s \in SUBSET D : s # {} /\ Good[s \ {C[s]}] \in {TRUE} => Good[s] \in {TRUE}
    BY <2>2, <2>3, <2>4
  <2> QED
    BY <1>1, <1>3, <2>5, <2>6, SubsetInduction
<1>9. Good[D] = Tells(Fold[D], data, S, puts, D, side)
  <2>1. D \in SUBSET D
    OBVIOUS
  <2> HIDE DEF D
  <2> QED
    BY <2>1, Zenon
<1> QED
  <2>1. D \in SUBSET D
    OBVIOUS
  <2> HIDE DEF Good
  <2>2. Good[D]
    BY <1>8, <2>1
  <2> QED
    BY <1>2, <1>9, <2>2

-----------------------------------------------------------------------------
(* The ledger. *)

\* The addresses of an account.
AddressesOf(account) == {x \in DOMAIN AccountOf : AccountOf[x] = account}

\* The places of the puts at some addresses, and what is put there.
PlacesAt(puts, addresses) == {i \in DOMAIN puts : puts[i].address \in addresses}
PutAt(puts, addresses)    == Sums(Values(puts))[PlacesAt(puts, addresses)]

\* What each address gains.
Gains(ins, outs) == [x \in DOMAIN AccountOf |-> AtAddress(outs, x) - AtAddress(ins, x)]

\* Zeros add up to zero.
LEMMA SumsZero ==
  ASSUME NEW D, IsFiniteSet(D), NEW w \in [D -> Int], NEW s \in SUBSET D, \A x \in s : w[x] = 0
  PROVE  Sums(w)[s] = 0
<1> DEFINE v == [x \in s |-> 0]
           C == AnyOf(s)
<1>1. IsFiniteSet(s) /\ v \in [s -> Int] /\ \A x \in s : v[x] = w[x]
  BY FS_Subset
<1>2. \A x \in s : v[x] = 0
  OBVIOUS
<1>3. Chooses(C, s) /\ {} \in SUBSET s /\ s \in SUBSET s
  BY AnyOfChooses
<1> DEFINE F == Sums(v)
           R == {0}
<1> HIDE DEF v
<1>4. F[{}] \in R
  <2>1. v \in [s -> Int] /\ IsFiniteSet(s) /\ {} \in SUBSET s
    BY <1>1
  <2>2. Sums(v)[{}] = 0
    BY <2>1, SumsStep
  <2> QED
    BY <2>2
<1>5. \A t \in SUBSET s : t # {} /\ F[t \ {C[t]}] \in R => F[t] \in R
  <2> SUFFICES ASSUME NEW t \in SUBSET s, t # {}, Sums(v)[t \ {C[t]}] = 0
               PROVE  Sums(v)[t] = 0
    OBVIOUS
  <2>1. C[t] \in t /\ Sums(v)[t] = v[C[t]] + Sums(v)[t \ {C[t]}]
    BY <1>1, SumsStep
  <2> HIDE DEF C
  <2> QED
    BY <1>2, <2>1
<1>6. \A t \in SUBSET s : F[t] \in R
  <2> HIDE DEF C, F, R
  <2> QED
    BY <1>1, <1>3, <1>4, <1>5, SubsetInduction
<1>7. Sums(v)[s] = Sums(w)[s]
  BY <1>1, SumsAgree
<1> QED
  BY <1>3, <1>6, <1>7

\* Equal values, equal sums.
LEMMA SumsEqual ==
  ASSUME NEW D, IsFiniteSet(D), NEW w \in [D -> Int], NEW v \in [D -> Int], NEW s \in SUBSET D,
         \A x \in s : w[x] = v[x]
  PROVE  Sums(w)[s] = Sums(v)[s]
BY SumsAgree

\* Values are numbers.
LEMMA PutsType ==
  ASSUME NEW S, \A c \in S : c.value \in Int, NEW puts \in Seq(S)
  PROVE  /\ IsFiniteSet(DOMAIN puts) /\ Values(puts) \in [DOMAIN puts -> Int]
         /\ \A i \in DOMAIN puts : Values(puts)[i] = puts[i].value
<1>1. DOMAIN puts = 1 .. Len(puts) /\ IsFiniteSet(1 .. Len(puts))
  BY LenProperties, FS_Interval
<1>2. \A i \in 1 .. Len(puts) : puts[i].value \in Int
  BY ElementOfSeq
<1> QED
  BY <1>1, <1>2 DEF Values

\* One address and others.
LEMMA PutAtOneMore ==
  ASSUME NEW S, \A c \in S : c.value \in Int, NEW puts \in Seq(S), NEW s, NEW x \in s
  PROVE  /\ PutAt(puts, s) = AtAddress(puts, x) + PutAt(puts, s \ {x})
         /\ AtAddress(puts, x) \in Int /\ PutAt(puts, s \ {x}) \in Int
<1> DEFINE D == DOMAIN puts
           w == Values(puts)
           A == {i \in D : puts[i].address = x}
           B == PlacesAt(puts, s \ {x})
<1>1. IsFiniteSet(D) /\ w \in [D -> Int] /\ w = [i \in D |-> puts[i].value]
  BY PutsType DEF Values
<1>2. /\ A \in SUBSET D /\ B \in SUBSET D /\ A \cap B = {}
      /\ PlacesAt(puts, s) = A \cup B
  BY DEF PlacesAt
<1>3. AtAddress(puts, x) = SumFunctionOnSet(w, A)
  BY <1>1, Zenon DEF AtAddress
<1> HIDE DEF A, B, D, w
<1>4. SumFunctionOnSet(w, A) = Sums(w)[A]
  BY <1>1, <1>2, SumOnSet
<1>5. Sums(w)[A \cup B] = Sums(w)[A] + Sums(w)[B]
  BY <1>1, <1>2, SumsUnion
<1>6. Sums(w)[A] \in Int /\ Sums(w)[B] \in Int
  BY <1>1, <1>2, SumsStep
<1> QED
  BY <1>2, <1>3, <1>4, <1>5, <1>6 DEF PutAt, B, w

\* The gain of an address is a number.
LEMMA GainsType ==
  ASSUME NEW S, \A c \in S : c.value \in Int, NEW ins \in Seq(S), NEW outs \in Seq(S)
  PROVE  Gains(ins, outs) \in [DOMAIN AccountOf -> Int]
<1>1. ASSUME NEW x PROVE AtAddress(outs, x) \in Int /\ AtAddress(ins, x) \in Int
  <2>1. x \in {x}
    OBVIOUS
  <2> QED
    BY <2>1, PutAtOneMore
<1> QED
  BY <1>1 DEF Gains

\* The gains of addresses add up to what is put at them.
LEMMA GainsOfAddresses ==
  ASSUME NEW S, \A c \in S : c.value \in Int, NEW ins \in Seq(S), NEW outs \in Seq(S)
  PROVE  \A s \in SUBSET (DOMAIN AccountOf) :
             Sums(Gains(ins, outs))[s] = PutAt(outs, s) - PutAt(ins, s)
<1> DEFINE D == DOMAIN AccountOf
           g == Gains(ins, outs)
           C == AnyOf(D)
           Good == [s \in SUBSET D |-> Sums(g)[s] = PutAt(outs, s) - PutAt(ins, s)]
<1>1. IsFiniteSet(D)
  BY ExtractAssumption
<1>2. g \in [D -> Int] /\ \A x \in D : g[x] = AtAddress(outs, x) - AtAddress(ins, x)
  BY GainsType DEF Gains
<1>3. Chooses(C, D)
  BY AnyOfChooses
<1>4. {} \in SUBSET D /\ \A s \in SUBSET D : s \ {C[s]} \in SUBSET D
  OBVIOUS
<1>5. \A puts \in {ins, outs} : PutAt(puts, {}) = 0
  <2> SUFFICES ASSUME NEW puts \in {ins, outs} PROVE PutAt(puts, {}) = 0
    OBVIOUS
  <2>1. puts \in Seq(S)
    OBVIOUS
  <2>2. PlacesAt(puts, {}) = {} /\ {} \in SUBSET (DOMAIN puts)
    BY DEF PlacesAt
  <2>3. IsFiniteSet(DOMAIN puts) /\ Values(puts) \in [DOMAIN puts -> Int]
    BY <2>1, PutsType
  <2> QED
    BY <2>2, <2>3, SumsStep DEF PutAt
<1> HIDE DEF g, C
<1>6. Sums(g)[{}] = PutAt(outs, {}) - PutAt(ins, {})
  <2>1. Sums(g)[{}] = 0
    BY <1>1, <1>2, <1>4, SumsStep
  <2> QED
    BY <1>5, <2>1
<1>7. ASSUME NEW s \in SUBSET D, s # {},
             Sums(g)[s \ {C[s]}] = PutAt(outs, s \ {C[s]}) - PutAt(ins, s \ {C[s]})
      PROVE  Sums(g)[s] = PutAt(outs, s) - PutAt(ins, s)
  <2> HIDE DEF D
  <2>1. C[s] \in s
    BY <1>3, <1>7 DEF Chooses
  <2>2. Sums(g)[s] = g[C[s]] + Sums(g)[s \ {C[s]}]
    <3>1. g \in [D -> Int]
      BY <1>2
    <3> QED
      BY <1>1, <2>1, <3>1, SumsRemove
  <2>3. /\ PutAt(outs, s) = AtAddress(outs, C[s]) + PutAt(outs, s \ {C[s]})
        /\ AtAddress(outs, C[s]) \in Int /\ PutAt(outs, s \ {C[s]}) \in Int
    BY <2>1, PutAtOneMore
  <2>4. /\ PutAt(ins, s) = AtAddress(ins, C[s]) + PutAt(ins, s \ {C[s]})
        /\ AtAddress(ins, C[s]) \in Int /\ PutAt(ins, s \ {C[s]}) \in Int
    BY <2>1, PutAtOneMore
  <2>5. g[C[s]] = AtAddress(outs, C[s]) - AtAddress(ins, C[s])
    BY <1>2, <2>1
  <2> QED
    BY <1>7, <2>2, <2>3, <2>4, <2>5
<1>8. \A s \in SUBSET D : Good[s] = (Sums(g)[s] = PutAt(outs, s) - PutAt(ins, s))
  BY Zenon
<1> HIDE DEF Good, D
<1>9. \A s \in SUBSET D : Good[s] \in {TRUE}
  <2>1. Good[{}] \in {TRUE}
    BY <1>4, <1>6, <1>8
  <2>2. \A s \in SUBSET D : s # {} /\ Good[s \ {C[s]}] \in {TRUE} => Good[s] \in {TRUE}
    BY <1>4, <1>7, <1>8
  <2> QED
    BY <1>1, <1>3, <2>1, <2>2, SubsetInduction
<1> QED
  BY <1>8, <1>9 DEF g, D

\* What is put at the addresses of an account is its shares.
LEMMA PutAtAccount ==
  ASSUME NEW S, \A c \in S : c.value \in Int, NEW puts \in Seq(S), NEW a
  PROVE  /\ PutAt(puts, AddressesOf(a)) = Sums(Shares(a, puts))[1 .. Len(puts)]
         /\ PutAt(puts, AddressesOf(a)) \in Int
<1> DEFINE D == 1 .. Len(puts)
           w == Values(puts)
           v == Shares(a, puts)
           A == PlacesAt(puts, AddressesOf(a))
           B == D \ A
<1>1. DOMAIN puts = D
  BY LenProperties
<1>2. IsFiniteSet(D) /\ w \in [D -> Int] /\ v \in [D -> Int]
  BY <1>1, PutsType, SharesType
<1>3. A \in SUBSET D /\ B \in SUBSET D /\ A \cap B = {} /\ A \cup B = D
  BY <1>1 DEF PlacesAt
<1>4. (\A i \in A : v[i] = w[i]) /\ (\A i \in B : v[i] = 0)
  <2>1. \A i \in D : i \in A <=> Owns(a, puts[i].address)
    BY <1>1 DEF PlacesAt, AddressesOf, Owns
  <2>2. \A i \in D : w[i] = puts[i].value /\ v[i] = ShareOf(a, puts[i])
    BY <1>1, PutsType DEF Shares
  <2> HIDE DEF w, v, A
  <2> QED
    BY <1>3, <2>1, <2>2 DEF ShareOf
<1> HIDE DEF D, w, v, A, B
<1>5. Sums(v)[D] = Sums(v)[A] + Sums(v)[B]
  <2>1. Sums(v)[A \cup B] = Sums(v)[A] + Sums(v)[B]
    <3>1. A \in SUBSET D /\ B \in SUBSET D /\ A \cap B = {}
      BY <1>3
    <3>2. IsFiniteSet(D) /\ v \in [D -> Int]
      BY <1>2
    <3> QED
      BY <3>1, <3>2, SumsUnion
  <2> QED
    BY <1>3, <2>1
<1>6. Sums(v)[B] = 0
  BY <1>2, <1>3, <1>4, SumsZero
<1>7. Sums(v)[A] = Sums(w)[A]
  <2>1. \A p, q \in [D -> Int] : (\A x \in A : p[x] = q[x]) => Sums(p)[A] = Sums(q)[A]
    <3> SUFFICES ASSUME NEW p \in [D -> Int], NEW q \in [D -> Int], \A x \in A : p[x] = q[x]
                 PROVE  Sums(p)[A] = Sums(q)[A]
      BY Zenon
    <3>1. A \in SUBSET D
      BY <1>3
    <3>2. IsFiniteSet(D)
      BY <1>2
    <3> QED
      BY <3>1, <3>2, SumsEqual
  <2>2. w \in [D -> Int] /\ v \in [D -> Int] /\ \A x \in A : v[x] = w[x]
    BY <1>2, <1>4
  <2> QED
    BY <2>1, <2>2, Zenon
<1>8. Sums(w)[A] \in Int
  BY <1>2, <1>3, SumsStep
<1>9. PutAt(puts, AddressesOf(a)) = Sums(w)[A]
  BY DEF PutAt, A, w
<1>10. Sums(v)[D] = Sums(w)[A]
  BY <1>5, <1>6, <1>7, <1>8
<1> QED
  BY <1>8, <1>9, <1>10 DEF v, D

-----------------------------------------------------------------------------
(* What accounts are told. *)

\* The data extracted from inputs and outputs are faithful.
LEMMA ExtractedIsFaithful ==
  ASSUME NEW ins, AreCoins(ins), NEW outs, AreCoins(outs)
  PROVE  Faithful(Extracted(ins, outs), ins, outs)
<1> DEFINE S == ToSet(ins) \cup ToSet(outs)
           first == AddAll(NoData, ins, "inputs")
           data == AddAll(first, outs, "outputs")
           told == Extracted(ins, outs)
           I == 1 .. Len(ins)
           O == 1 .. Len(outs)
<1>1. (\A c \in S : c.value \in Int) /\ ins \in Seq(S) /\ outs \in Seq(S)
  BY DEF AreCoins
<1>2. NoData \in AllData(S) /\ DOMAIN NoData = {}
  <2>1. NoData \in [{} -> [inputs : Seq(S), outputs : Seq(S)]] /\ DOMAIN NoData = {}
    BY DEF NoData
  <2> HIDE DEF S
  <2> QED
    BY <2>1 DEF AllData
<1>3. \A a : InSum(NoData, a) = 0 /\ OutSum(NoData, a) = 0
  BY <1>2 DEF InSum, OutSum
<1> HIDE DEF S, first, data
<1>4. Tells(first, NoData, S, ins, I, "inputs")
  BY <1>1, <1>2, AddAllTells DEF first
<1>5. first \in AllData(S)
  BY <1>4 DEF Tells
<1>6. Tells(data, first, S, outs, O, "outputs")
  BY <1>1, <1>5, AddAllTells DEF data
<1>7. \A a : a \in DOMAIN data <=>
        (\E i \in I : Owns(a, ins[i].address)) \/ (\E i \in O : Owns(a, outs[i].address))
  BY <1>2, <1>4, <1>6 DEF Tells
<1>8. ASSUME NEW a \in Accounts
      PROVE  OutSum(data, a) - InSum(data, a) = LedgerGain(ins, outs, a)
  <2> DEFINE in  == Sums(Shares(a, ins))[I]
             out == Sums(Shares(a, outs))[O]
             own == AddressesOf(a)
  <2>1. in = PutAt(ins, own) /\ in \in Int /\ out = PutAt(outs, own) /\ out \in Int
    BY <1>1, PutAtAccount
  <2> HIDE DEF in, out
  <2>2. InSum(first, a) = 0 + in /\ OutSum(first, a) = 0 + 0
    BY <1>3, <1>4 DEF Tells, OnSide, in
  <2>3. InSum(data, a) = InSum(first, a) + 0 /\ OutSum(data, a) = OutSum(first, a) + out
    BY <1>6 DEF Tells, OnSide, out
  <2>4. OutSum(data, a) - InSum(data, a) = out - in
    BY <2>1, <2>2, <2>3
  <2>5. LedgerGain(ins, outs, a) = SumFunctionOnSet(Gains(ins, outs), own)
    BY Zenon DEF LedgerGain, Gains, AddressesOf
  <2>6. own \in SUBSET (DOMAIN AccountOf)
    BY DEF AddressesOf
  <2> HIDE DEF own
  <2>7. SumFunctionOnSet(Gains(ins, outs), own) = Sums(Gains(ins, outs))[own]
    <3>1. Gains(ins, outs) \in [DOMAIN AccountOf -> Int]
      BY <1>1, GainsType
    <3> QED
      BY <2>6, <3>1, ExtractAssumption, SumOnSet
  <2>8. Sums(Gains(ins, outs))[own] = PutAt(outs, own) - PutAt(ins, own)
    BY <1>1, <2>6, GainsOfAddresses
  <2> QED
    BY <2>1, <2>4, <2>5, <2>7, <2>8
<1>9. told = [a \in DOMAIN data |-> [inputs |-> data[a].inputs, outputs |-> data[a].outputs,
                                     fees |-> SumOf(ins) - SumOf(outs)]]
  BY Zenon DEF Extracted, data, first
<1> HIDE DEF told
<1>10. \A a \in Accounts : DataGain(told, a) = OutSum(data, a) - InSum(data, a)
  <2> SUFFICES ASSUME NEW a \in Accounts
               PROVE  DataGain(told, a) = OutSum(data, a) - InSum(data, a)
    OBVIOUS
  <2>1. CASE a \in DOMAIN data
    BY <1>9, <2>1 DEF DataGain, InSum, OutSum
  <2>2. CASE a \notin DOMAIN data
    BY <1>9, <2>2 DEF DataGain, InSum, OutSum
  <2> QED
    BY <2>1, <2>2
<1>11. DOMAIN told = {a \in Accounts : HasShare(ins, outs, a)}
  <2>1. \A a : HasShare(ins, outs, a) <=>
          (\E i \in I : Owns(a, ins[i].address)) \/ (\E i \in O : Owns(a, outs[i].address))
    <3> DEFINE all == ins \o outs
               n == Len(ins)
    <3>1. /\ Len(all) = n + Len(outs) /\ all \in Seq(S) /\ n \in Nat /\ Len(outs) \in Nat
          /\ (\A i \in I : all[i] = ins[i]) /\ (\A i \in O : all[n + i] = outs[i])
      BY <1>1, ConcatProperties, LenProperties
    <3>2. ToSet(all) = {all[i] : i \in 1 .. n + Len(outs)}
      BY <3>1, LenProperties DEF ToSet
    <3> HIDE DEF all
    <3>3. \A i \in 1 .. n + Len(outs) : i \in I \/ (i - n \in O /\ i = n + (i - n))
      BY <3>1
    <3>4. \A i \in I : i \in 1 .. n + Len(outs)
      BY <3>1
    <3>5. \A i \in O : n + i \in 1 .. n + Len(outs)
      BY <3>1
    <3> HIDE DEF I, O, n
    <3>6. \A p : p \in ToSet(all) <=> (\E i \in I : p = ins[i]) \/ (\E i \in O : p = outs[i])
      <4> SUFFICES ASSUME NEW p
                   PROVE  p \in ToSet(all)
                            <=> (\E i \in I : p = ins[i]) \/ (\E i \in O : p = outs[i])
        OBVIOUS
      <4>1. ASSUME p \in ToSet(all)
            PROVE  (\E i \in I : p = ins[i]) \/ (\E i \in O : p = outs[i])
        <5>1. PICK i \in 1 .. n + Len(outs) : p = all[i]
          BY <3>2, <4>1
        <5> QED
          BY <3>1, <3>3, <5>1
      <4>2. ASSUME NEW i \in I, p = ins[i] PROVE p \in ToSet(all)
        BY <3>1, <3>2, <3>4, <4>2
      <4>3. ASSUME NEW i \in O, p = outs[i] PROVE p \in ToSet(all)
        BY <3>1, <3>2, <3>5, <4>3
      <4> QED
        BY <4>1, <4>2, <4>3
    <3> QED
      BY <3>6 DEF HasShare, Owns, all
  <2>2. \A a, x : Owns(a, x) => a \in Accounts
    BY DEF Owns, Accounts
  <2> QED
    BY <1>7, <1>9, <2>1, <2>2
<1> QED
  BY <1>8, <1>10, <1>11 DEF Faithful, told

\* Some of the coins are coins.
LEMMA AreCoinsToo ==
  ASSUME NEW S, \A c \in S : c.value \in Int, NEW coins \in Seq(S)
  PROVE  AreCoins(coins)
<1>1. ToSet(coins) = {coins[i] : i \in 1 .. Len(coins)} /\ \A i \in 1 .. Len(coins) : coins[i] \in S
  BY LenProperties, ElementOfSeq DEF ToSet
<1>2. coins \in [1 .. Len(coins) -> ToSet(coins)] /\ Len(coins) \in Nat
  BY <1>1, LenProperties
<1>3. coins \in Seq(ToSet(coins))
  BY <1>2
<1> QED
  BY <1>1, <1>3 DEF AreCoins

\* The outputs that are not locked are outputs.
LEMMA UnlockedAreCoins ==
  ASSUME NEW tx, AreCoins(tx.outputs)
  PROVE  AreCoins(Unlocked(tx))
<1> DEFINE outs == tx.outputs
           D == 1 .. Len(outs)
           R == Seq(ToSet(outs))
           C == [s \in SUBSET D |-> Max(s)]
           G == [p \in D \X R |-> AddUnlocked(p[2], outs[p[1]], tx.height)]
           Rec(F) == [s \in SUBSET D |-> IF s = {} THEN <<>>
                        ELSE AddUnlocked(F[s \ {Max(s)}], outs[Max(s)], tx.height)]
           Fold == CHOOSE F : F = Rec(F)
<1>1. /\ outs \in R /\ DOMAIN outs = D /\ IsFiniteSet(D) /\ Len(outs) \in Nat
      /\ \A i \in D : outs[i] \in ToSet(outs)
  <2>1. outs \in R
    BY DEF AreCoins
  <2>2. DOMAIN outs = D /\ Len(outs) \in Nat /\ IsFiniteSet(D)
    BY <2>1, LenProperties, FS_Interval
  <2>3. \A i \in D : outs[i] \in ToSet(outs)
    BY <2>1, ElementOfSeq
  <2> QED
    BY <2>1, <2>2, <2>3
<1> HIDE DEF outs
<1>2. Unlocked(tx) = Fold[D]
  <2>1. Unlocked(tx) =
          (CHOOSE F : F = [s \in SUBSET (DOMAIN outs) |-> IF s = {} THEN <<>>
                        ELSE AddUnlocked(F[s \ {Max(s)}], outs[Max(s)], tx.height)])[DOMAIN outs]
    BY Zenon DEF Unlocked, FoldLeft, MapThenFoldSet, outs
  <2> HIDE DEF D
  <2> QED
    BY <1>1, <2>1, Zenon
<1>3. Chooses(C, D)
  BY <1>1, MaxChooses
<1>4. \A x \in D, r \in R : AddUnlocked(r, outs[x], tx.height) \in R
  BY <1>1, AppendProperties DEF AddUnlocked
<1>5. \A x \in D, r \in R : G[<<x, r>>] = AddUnlocked(r, outs[x], tx.height)
  <2> SUFFICES ASSUME NEW x \in D, NEW r \in R
               PROVE  G[<<x, r>>] = AddUnlocked(r, outs[x], tx.height)
    OBVIOUS
  <2>1. <<x, r>> \in D \X R
    OBVIOUS
  <2>2. G[<<x, r>>] = AddUnlocked(<<x, r>>[2], outs[<<x, r>>[1]], tx.height)
    BY <2>1, Zenon
  <2> QED
    BY <2>2
<1>6. PICK H : IsFold(H, D, C, G, <<>>) /\ \A s \in SUBSET D : H[s] \in R
  <2>1. <<>> \in R
    OBVIOUS
  <2>2. \A x \in D, r \in R : G[<<x, r>>] \in R
    <3> HIDE DEF D, G, R
    <3> QED
      BY <1>4, <1>5
  <2> HIDE DEF D, C, G, R
  <2> QED
    BY <1>1, <1>3, <2>1, <2>2, FoldInside
<1>7. H = Rec(H)
  <2>1. ASSUME NEW s \in SUBSET D, s # {}
        PROVE  Step(H, s, C, G, <<>>) = AddUnlocked(H[s \ {Max(s)}], outs[Max(s)], tx.height)
    <3>1. C[s] = Max(s) /\ C[s] \in D /\ s \ {Max(s)} \in SUBSET D
      BY <1>3, <2>1 DEF Chooses
    <3>2. G[<<C[s], H[s \ {C[s]}]>>] = AddUnlocked(H[s \ {C[s]}], outs[C[s]], tx.height)
      <4> HIDE DEF C, G, R
      <4> QED
        BY <1>5, <1>6, <3>1
    <3> HIDE DEF C, G
    <3> QED
      BY <2>1, <3>1, <3>2 DEF Step
  <2>2. \A s \in SUBSET D : Step(H, s, C, G, <<>>) =
          IF s = {} THEN <<>> ELSE AddUnlocked(H[s \ {Max(s)}], outs[Max(s)], tx.height)
    <3> HIDE DEF C, G, D
    <3> QED
      BY <2>1 DEF Step
  <2> HIDE DEF C, G, D
  <2> QED
    BY <1>6, <2>2 DEF IsFold
<1>8. Fold = Rec(Fold)
  <2>1. \E F : F = Rec(F)
    BY <1>7
  <2> QED
    BY <2>1, Zenon
<1> HIDE DEF Fold
<1>9. \A s \in SUBSET D : Fold[s] \in R
  <2>1. Fold[{}] \in R
    <3>1. Fold[{}] = Rec(Fold)[{}]
      BY <1>8, Zenon
    <3> QED
      BY <3>1
  <2>2. ASSUME NEW s \in SUBSET D, s # {}, Fold[s \ {C[s]}] \in R
        PROVE  Fold[s] \in R
    <3>1. C[s] = Max(s) /\ C[s] \in D
      BY <1>3, <2>2 DEF Chooses
    <3>2. Fold[s] = Rec(Fold)[s]
      BY <1>8, Zenon
    <3>3. Fold[s] = AddUnlocked(Fold[s \ {Max(s)}], outs[Max(s)], tx.height)
      BY <2>2, <3>2, Zenon
    <3> HIDE DEF C, R
    <3> QED
      BY <1>4, <2>2, <3>1, <3>3
  <2> HIDE DEF C, D, R
  <2> QED
    BY <1>1, <1>3, <2>1, <2>2, SubsetInduction
<1>10. Unlocked(tx) \in R
  BY <1>2, <1>9
<1>11. \A c \in ToSet(outs) : c.value \in Int
  BY DEF AreCoins, outs
<1> HIDE DEF Fold
<1> QED
  BY <1>10, <1>11, AreCoinsToo

\* So are the two sides of readable transfers.
LEMMA SidesAreCoins ==
  ASSUME NEW transfers, AreCoins(transfers), NEW side
  PROVE  AreCoins(Side(transfers, side))
<1> DEFINE S == {[address |-> t[side], value |-> t.value] : t \in ToSet(transfers)}
           n == Len(transfers)
<1>1. /\ n \in Nat /\ DOMAIN transfers = 1 .. n
      /\ \A i \in 1 .. n : transfers[i] \in ToSet(transfers)
  BY LenProperties, ElementOfSeq DEF AreCoins
<1>2. Side(transfers, side) \in [1 .. n -> S]
  BY <1>1 DEF Side
<1>3. \A c \in S : c.value \in Int
  BY DEF AreCoins
<1> HIDE DEF S, n
<1>4. Side(transfers, side) \in Seq(S)
  BY <1>1, <1>2
<1> QED
  BY <1>3, <1>4, AreCoinsToo

\* AccountsAreTold, of a transaction of a block and an answer about its transfers.
LEMMA TransactionIsTold ==
  ASSUME NEW tx \in BlockTxs, NEW answer \in TokenAnswers
  PROVE  AccountsAreTold(tx, answer)
<1> DEFINE told == ExtractTransaction(tx, answer)
           moved == answer.transfers
<1>1. tx # NoTx => AreCoins(tx.inputs) /\ AreCoins(tx.outputs)
  BY CodecsAssumption
<1>2. AreCoins(moved)
  BY CodecsAssumption
<1>3. tx.type \in {2, 101} => tx # NoTx
  BY DEF NoTx
<1>4. ASSUME tx.type \in {2, 101}
      PROVE  Faithful(told.coins, tx.inputs, Unlocked(tx))
  <2>1. told.coins = Extracted(tx.inputs, Unlocked(tx))
    BY <1>3, <1>4 DEF ExtractTransaction, ExtractCoins
  <2>2. AreCoins(tx.inputs) /\ AreCoins(Unlocked(tx))
    BY <1>1, <1>3, <1>4, UnlockedAreCoins
  <2> QED
    BY <2>1, <2>2, ExtractedIsFaithful
<1>5. ASSUME tx.type = 101, answer.ok, Len(moved) = 1, moved[1].value # NotANumber
      PROVE  Faithful(told.tokens, Side(moved, "from"), Side(moved, "to"))
  <2>1. Readable(moved) = moved
    BY <1>5 DEF Readable
  <2>2. told.tokens = Extracted(Side(moved, "from"), Side(moved, "to"))
    BY <1>3, <1>5, <2>1 DEF ExtractTransaction, ExtractTokens
  <2>3. AreCoins(Side(moved, "from")) /\ AreCoins(Side(moved, "to"))
    BY <1>2, SidesAreCoins
  <2> QED
    BY <2>2, <2>3, ExtractedIsFaithful
<1> QED
  BY <1>4, <1>5 DEF AccountsAreTold

-----------------------------------------------------------------------------
(* Replies. *)

\* A reply with the data asked for makes genuine money, and no other makes any.
LEMMA ReplyMoney ==
  ASSUME NEW r \in Reply
  PROVE  MoneyIsGenuine(r)
<1>1. r.data \in Data
  BY DEF Reply
<1> QED
  BY <1>1 DEF MoneyIsGenuine, GetTokenBalances, GetTokenByHash, SendRawTransaction, Amount,
     Structure, Member, IsJson, CallReq, IsError, Failed, Genuine, Empty, Data

\* Without a reply, or without data, every call fails.
LEMMA NoReply ==
  ASSUME NEW r \in Reply
  PROVE  NoAnswerWithoutReply(r)
BY DEF NoAnswerWithoutReply, GetStructure, GetNewHeight, GetTokenBalances, GetTokenByHash,
   VaildTransaction, SendRawTransaction, Amount, Structure, Member, IsJson, CallReq, IsError,
   Failed, Genuine, Empty

-----------------------------------------------------------------------------
(* Of every input. *)

\* There is no input yet, or one of those the program is given.
TypeOK == input \in Inputs \cup {None}

\* It is always so.
LEMMA InputType == Spec => []TypeOK
<1>1. Init => TypeOK
  BY DEF Init, TypeOK
<1>2. TypeOK /\ [Next]_input => TypeOK'
  BY DEF TypeOK, Next, Pick
<1> QED
  BY <1>1, <1>2, PTL DEF Spec

\* For any accounts with any addresses and transactions with any number of inputs,
\* outputs and unlocked amounts, every account with a share is told of the transaction,
\* no other is, and what each is told of adds up to what the ledger gives it, in coins
\* and in tokens (extractTransaction and extractTokenTransaction of blockscanner.go).
THEOREM AllAccountsAreTold == Spec => []ExtractedIsAccounted
<1>1. TypeOK => ExtractedIsAccounted
  <2> SUFFICES ASSUME TypeOK, Is("extract") PROVE AccountsAreTold(input.tx, input.answer)
    BY DEF ExtractedIsAccounted
  <2>1. PICK t \in BlockTxs, a \in TokenAnswers :
          input = [kind |-> "extract", tx |-> t, answer |-> a]
    BY DEF TypeOK, Is, Inputs, None
  <2>2. input.tx = t /\ input.answer = a
    BY <2>1
  <2> QED
    BY <2>2, TransactionIsTold
<1> QED
  BY <1>1, InputType, PTL

\* Tokens, moved tokens and the hash of a broadcast are made of data of the form asked for
\* and of nothing else, whatever else a reply says (GetTokenBalances, GetTokenByHash and
\* SendRawTransaction of api.go, lines 184-211, 330-352 and 390-404).
THEOREM MoneyOfReplyIsGenuine == Spec => []MoneyAnswersAreGenuine
<1>1. TypeOK => MoneyAnswersAreGenuine
  <2> SUFFICES ASSUME TypeOK, Is("reply") PROVE MoneyIsGenuine(input.reply)
    BY DEF MoneyAnswersAreGenuine
  <2>1. PICK r \in Reply : input = [kind |-> "reply", reply |-> r]
    BY DEF TypeOK, Is, Inputs, None
  <2>2. input.reply = r
    BY <2>1
  <2> QED
    BY <2>2, ReplyMoney
<1> QED
  BY <1>1, InputType, PTL

\* Where nothing arrives, or no data, every answer but the balance of an address is an
\* error (CallPost, isError and the callers of both in api.go).
THEOREM FailedCallsAreErrors == Spec => []FailedCallIsError
<1>1. TypeOK => FailedCallIsError
  <2> SUFFICES ASSUME TypeOK, Is("reply") PROVE NoAnswerWithoutReply(input.reply)
    BY DEF FailedCallIsError
  <2>1. PICK r \in Reply : input = [kind |-> "reply", reply |-> r]
    BY DEF TypeOK, Is, Inputs, None
  <2>2. input.reply = r
    BY <2>1
  <2> QED
    BY <2>2, NoReply
<1> QED
  BY <1>1, InputType, PTL

-----------------------------------------------------------------------------
(* Numbers and signatures. *)

\* A number that fits its bytes is less than the power of the base.
LEMMA FitsIsLess ==
  ASSUME NEW v, NEW k \in Nat, Fits(v, k + 1)
  PROVE  v \in Nat /\ v < Power(Base, k + 1)
<1> DEFINE p == Power(Base, k)
<1>1. v \in Nat /\ v \div p < Base
  <2>1. (k + 1) - 1 = k
    OBVIOUS
  <2> QED
    BY <2>1 DEF Fits
<1>2. Base \in Nat /\ Base \in Nat \ {0, 1} /\ p \in Nat /\ p > 0 /\ Power(Base, k + 1) = p * Base
  <2>1. Base \in Nat /\ Base \in Nat \ {0, 1}
    BY BaseType
  <2>2. p \in Nat /\ p > k /\ Power(Base, k + 1) = p * Base
    BY <2>1, PowerStep, PowerIsGreater
  <2> QED
    BY <2>1, <2>2
<1> HIDE DEF p
<1>3. v \div p \in Nat /\ v % p \in 0 .. p - 1 /\ v = (v \div p) * p + (v % p)
  <2>1. p \in Nat \ {0}
    BY <1>2
  <2> QED
    BY <1>1, <2>1, Division
<1>4. ASSUME NEW q \in Nat, q < Base, NEW m \in 0 .. p - 1 PROVE q * p + m < p * Base
  <2>1. q + 1 <= Base /\ q + 1 \in Nat /\ p \in Nat
    BY <1>2, <1>4
  <2>2. (q + 1) * p <= Base * p
    BY <1>2, <2>1
  <2>3. (q + 1) * p = q * p + p /\ Base * p = p * Base /\ q * p \in Nat
    BY <1>2
  <2> QED
    BY <1>2, <2>2, <2>3
<1>5. v < p * Base
  BY <1>1, <1>3, <1>4
<1> QED
  BY <1>1, <1>2, <1>5

\* A number of eight bytes.
LEMMA FitsEight ==
  ASSUME NEW v, Fits(v, 8) PROVE v \in Nat /\ v < Power(Base, 8)
<1>1. 7 \in Nat /\ 7 + 1 = 8
  OBVIOUS
<1> QED
  BY <1>1, FitsIsLess

\* A number of six bytes.
LEMMA FitsSix ==
  ASSUME NEW v, Fits(v, 6) PROVE v \in Nat /\ v < Power(Base, 6)
<1>1. 5 \in Nat /\ 5 + 1 = 6
  OBVIOUS
<1> QED
  BY <1>1, FitsIsLess

\* For any base, every number that fits eight bytes is read as it was written, with
\* nothing left (VarIntEncode of serializeUtils.go).
THEOREM VarIntsAreRead == Spec => []VarIntIsRead
<1>1. TypeOK => VarIntIsRead
  <2> SUFFICES ASSUME TypeOK, Is("number")
               PROVE  VarInt(VarIntEncode(input.number)) = Got(input.number, <<>>)
    BY DEF VarIntIsRead
  <2>1. PICK n \in Numbers : input = [kind |-> "number", number |-> n]
    BY DEF TypeOK, Is, Inputs, None
  <2>2. n \in Nat /\ n < Power(Base, 8)
    BY CodecsAssumption, FitsEight
  <2>3. <<>> \in Seq(Byte)
    OBVIOUS
  <2>4. VarIntEncode(n) \in Seq(Byte) /\ VarInt(VarIntEncode(n) \o <<>>) = Got(n, <<>>)
    BY <2>2, <2>3, VarIntRead
  <2>5. VarIntEncode(n) \o <<>> = VarIntEncode(n)
    BY <2>4, ConcatEmptySeq
  <2> QED
    BY <2>1, <2>4, <2>5
<1> QED
  BY <1>1, InputType, PTL

\* The numbers of a signature can be written.
LEMMA NumberIsSignable ==
  ASSUME NEW number, IsNumber(number) PROVE Signable(number)
<1>1. number \in Seq(ToSet(number)) /\ ToSet(number) \subseteq 0 .. Base - 1 /\ Len(number) = NumSize
  BY DEF IsNumber, AreBytes
<1>2. number \in Seq(Byte)
  <2>1. Len(number) \in Nat /\ number \in [1 .. Len(number) -> ToSet(number)]
    BY <1>1, LenProperties
  <2>2. number \in [1 .. Len(number) -> Byte]
    BY <1>1, <2>1 DEF Byte
  <2> QED
    BY <2>1, <2>2
<1>3. PICK i \in 1 .. NumSize : i % 2 = 1 /\ number[i] # 0
  BY DEF IsNumber
<1>4. NumSize \in Nat
  BY EncodingAssumption
<1>5. (i + 1) \div 2 \in Nat \ {0} /\ 2 * ((i + 1) \div 2) - 1 = i /\ i <= NumSize
  BY <1>3, <1>4
<1> QED
  BY <1>1, <1>2, <1>3, <1>5 DEF Signable

\* Their signature alone is read, with nothing left.
LEMMA PairRead ==
  ASSUME NEW r, NEW s, Signable(r), Signable(s)
  PROVE  ToBytes(r, s) # Panic /\ ReadSignature(ToBytes(r, s)) = Got(MeantPair(r, s), <<>>)
<1>1. <<>> \in Seq(Byte)
  OBVIOUS
<1>2. /\ ToBytes(r, s) \in Seq(Byte) /\ ToBytes(r, s) # Panic
      /\ ReadSignature(ToBytes(r, s) \o <<>>) = Got(MeantPair(r, s), <<>>)
  BY <1>1, SignatureRead
<1>3. ToBytes(r, s) \o <<>> = ToBytes(r, s)
  BY <1>2, ConcatEmptySeq
<1> QED
  BY <1>2, <1>3

\* For numbers of any size below half a byte's values, of which an odd byte is not zero,
\* a signature is framed as its reader expects it and neither number is negative
\* (SigPub.ToBytes of transaction.go).
THEOREM SignaturesAreWellFormed == Spec => []SignatureIsWellFormed
<1>1. TypeOK => SignatureIsWellFormed
  <2> SUFFICES ASSUME TypeOK, Is("signature")
               PROVE  LET read == ReadSignature(Bytes) IN
                      /\ Bytes # Panic
                      /\ read.value.total = Len(Bytes) - 1 /\ read.value.size = Len(Bytes) - 3
                      /\ read.value.tag = SequenceTag
                      /\ WellFormed(read.value.r) /\ WellFormed(read.value.s)
                      /\ read.rest = <<>>
    BY DEF SignatureIsWellFormed
  <2>1. PICK p \in Signatures : input = [kind |-> "signature", r |-> p[1], s |-> p[2]]
    BY DEF TypeOK, Is, Inputs, None
  <2> DEFINE r == p[1]
             s == p[2]
  <2>2. Signable(r) /\ Signable(s)
    BY CodecsAssumption, NumberIsSignable
  <2>3. Bytes = ToBytes(r, s)
    BY <2>1 DEF Bytes
  <2> HIDE DEF r, s
  <2> DEFINE i == MeantInteger(r)
             j == MeantInteger(s)
             v == MeantPair(r, s)
  <2>4. ~High(Signed(r)[1]) /\ ~High(Signed(s)[1])
    BY <2>2, SignedIsPositive DEF Positive
  <2>5. Bytes # Panic /\ ReadSignature(Bytes) = Got(v, <<>>)
    BY <2>2, <2>3, PairRead
  <2>6. WellFormed(i) /\ WellFormed(j)
    BY <2>4 DEF WellFormed, MeantInteger
  <2> HIDE DEF i, j
  <2>7. /\ v.total = Len(Bytes) - 1 /\ v.size = Len(Bytes) - 3 /\ v.tag = SequenceTag
        /\ v.r = i /\ v.s = j
    BY <2>3 DEF MeantPair, i, j
  <2>8. ReadSignature(Bytes).value = v /\ ReadSignature(Bytes).rest = <<>>
    BY <2>5, GotFields
  <2> HIDE DEF v
  <2> QED
    BY <2>5, <2>6, <2>7, <2>8
<1> QED
  BY <1>1, InputType, PTL

-----------------------------------------------------------------------------
(* Transactions. *)

\* Bytes are a sequence of bytes.
LEMMA BytesAre ==
  ASSUME NEW s, AreBytes(Base, s) PROVE s \in Seq(Byte)
<1>1. s \in Seq(ToSet(s)) /\ ToSet(s) \subseteq Byte
  BY DEF AreBytes, Byte
<1>2. Len(s) \in Nat /\ s \in [1 .. Len(s) -> ToSet(s)]
  BY <1>1, LenProperties
<1>3. s \in [1 .. Len(s) -> Byte]
  BY <1>1, <1>2
<1> QED
  BY <1>2, <1>3

\* Bytes shorter than the base are read after their length.
LEMMA ShortRead ==
  ASSUME NEW s \in Seq(Byte), Len(s) < Base, NEW x \in Seq(Byte)
  PROVE  /\ GetBytesWithLength(s) \in Seq(Byte) /\ Len(GetBytesWithLength(s)) > 0
         /\ WithLength(GetBytesWithLength(s) \o x) = Got(s, x)
<1>1. Len(s) < Power(Base, 8)
  <2>1. Base \in Nat /\ Len(s) \in Nat
    BY BaseType
  <2> QED
    BY <2>1, FirstPowers
<1> QED
  BY <1>1, WithLengthRead

\* The amount and the lock time behind an owner are read as they were written.
LEMMA PutRead ==
  ASSUME NEW put, IsPut(put), NEW s \in Seq(Byte), Len(s) > 0, NEW x \in Seq(Byte)
  PROVE  LET amount == LittleEndian(put.amount, 8)
             lock == LittleEndian(put.lockTime, 6)
         IN  /\ (s \o amount) \o lock \in Seq(Byte) /\ Len((s \o amount) \o lock) > 0
             /\ lock \o x \in Seq(Byte) /\ amount \o (lock \o x) \in Seq(Byte)
             /\ ((s \o amount) \o lock) \o x = s \o (amount \o (lock \o x))
             /\ Fixed(8, amount \o (lock \o x)) = Got(put.amount, lock \o x)
             /\ Fixed(6, lock \o x) = Got(put.lockTime, x)
<1> DEFINE a == put.amount
           l == put.lockTime
           amount == LittleEndian(a, 8)
           lock == LittleEndian(l, 6)
<1>1. a \in Nat /\ a < Power(Base, 8) /\ l \in Nat /\ l < Power(Base, 6)
  BY FitsEight, FitsSix DEF IsPut
<1> HIDE DEF a, l
<1>2. amount \in Seq(Byte) /\ Len(amount) = 8 /\ lock \in Seq(Byte) /\ Len(lock) = 6
  BY <1>1, LittleEndianType
<1>3. /\ lock \o x \in Seq(Byte) /\ Fixed(6, lock \o x) = Got(l, x)
      /\ Fixed(8, amount \o (lock \o x)) = Got(a, lock \o x)
  <2>1. lock \o x \in Seq(Byte)
    BY <1>2, Pieces
  <2> QED
    BY <1>1, <2>1, FixedRead
<1> HIDE DEF amount, lock
<1>4. /\ s \o amount \in Seq(Byte) /\ (s \o amount) \o lock \in Seq(Byte)
      /\ amount \o (lock \o x) \in Seq(Byte)
      /\ ((s \o amount) \o lock) \o x = s \o (amount \o (lock \o x))
  <2>1. s \o amount \in Seq(Byte) /\ amount \o (lock \o x) \in Seq(Byte)
    BY <1>2, <1>3, Pieces
  <2>2. /\ (s \o amount) \o lock \in Seq(Byte)
        /\ ((s \o amount) \o lock) \o x = (s \o amount) \o (lock \o x)
    <3> DEFINE y == s \o amount
    <3>1. y \in Seq(Byte) /\ lock \in Seq(Byte) /\ x \in Seq(Byte)
      BY <1>2, <2>1
    <3> HIDE DEF y
    <3>2. y \o lock \in Seq(Byte)
      BY <3>1, ConcatProperties
    <3>3. (y \o lock) \o x = y \o (lock \o x)
      BY <3>1, ConcatAssociative, SMTT(30)
    <3> QED
      BY <3>2, <3>3 DEF y
  <2>3. (s \o amount) \o (lock \o x) = s \o (amount \o (lock \o x))
    <3> DEFINE y == lock \o x
    <3>1. y \in Seq(Byte) /\ amount \in Seq(Byte) /\ s \in Seq(Byte)
      BY <1>2, <1>3
    <3> HIDE DEF y
    <3>2. (s \o amount) \o y = s \o (amount \o y)
      BY <3>1, Pieces
    <3> QED
      BY <3>2 DEF y
  <2> QED
    BY <2>1, <2>2, <2>3
<1>5. Len((s \o amount) \o lock) > 0
  <2>1. Len(s \o amount) = Len(s) + 8
    BY <1>2, Lengths
  <2>2. Len((s \o amount) \o lock) = Len(s \o amount) + Len(lock)
    BY <1>2, <1>4, Lengths, Zenon
  <2>3. Len(s) \in Nat
    OBVIOUS
  <2> QED
    BY <1>2, <2>1, <2>2, <2>3
<1> QED
  BY <1>3, <1>4, <1>5 DEF amount, lock, a, l

\* An input is read as it was written.
LEMMA InSays ==
  ASSUME NEW in, IsIn(in) PROVE Says("in", TxIn(in), MeantIn(in))
<1> DEFINE owner == GetInputOwnerKey(in.hash, in.index)
           index == VarIntEncode(in.index)
           s == GetBytesWithLength(owner)
<1>1. /\ in.hash \in Seq(Byte) /\ Len(in.hash) = HashSize
      /\ in.index \in Nat /\ in.index < Power(Base, 8) /\ IsPut(in)
  BY BytesAre, FitsEight DEF IsIn, IsHash
<1>2. <<>> \in Seq(Byte) /\ HashSize \in Nat /\ HashSize + 9 < Base /\ Base \in Nat
  BY EncodingAssumption
<1>3. index \in Seq(Byte) /\ Len(index) \in 1 .. 9 /\ VarInt(index) = Got(in.index, <<>>)
  <2>1. /\ index \in Seq(Byte) /\ Len(index) \in 1 .. 9
        /\ VarInt(index \o <<>>) = Got(in.index, <<>>)
    BY <1>1, <1>2, VarIntRead
  <2>2. index \o <<>> = index
    BY <2>1, ConcatEmptySeq
  <2> QED
    BY <2>1, <2>2
<1> HIDE DEF index
<1>4. owner = in.hash \o index
  BY DEF GetInputOwnerKey, index
<1>5. /\ owner \in Seq(Byte) /\ Len(owner) < Base /\ Raw(HashSize, owner) = Got(in.hash, index)
  <2>1. owner \in Seq(Byte) /\ Len(owner) = HashSize + Len(index)
    BY <1>1, <1>3, <1>4, ConcatProperties
  <2>2. Raw(HashSize, owner) = Got(in.hash, index)
    BY <1>1, <1>3, <1>4, RawRead
  <2>3. \A k \in 1 .. 9 : HashSize + k < Base
    BY <1>2
  <2>4. HashSize + Len(index) < Base
    BY <1>3, <2>3
  <2> HIDE DEF owner
  <2> QED
    BY <2>1, <2>2, <2>4
<1> HIDE DEF owner
<1>6. s \in Seq(Byte) /\ Len(s) > 0
  BY <1>2, <1>5, ShortRead
<1>7. TxIn(in) = (s \o LittleEndian(in.amount, 8)) \o LittleEndian(in.lockTime, 6)
  BY DEF TxIn, s, owner
<1>8. TxIn(in) \in Seq(Byte) /\ Len(TxIn(in)) > 0
  <2> HIDE DEF s
  <2> QED
    BY <1>1, <1>2, <1>6, <1>7, PutRead
<1>9. ASSUME NEW x \in Seq(Byte)
      PROVE  ReadItem("in", TxIn(in) \o x) = Got(MeantIn(in), x)
  <2> DEFINE p == LittleEndian(in.lockTime, 6) \o x
             q == LittleEndian(in.amount, 8) \o p
  <2>1. /\ p \in Seq(Byte) /\ q \in Seq(Byte) /\ TxIn(in) \o x = s \o q
        /\ Fixed(8, q) = Got(in.amount, p) /\ Fixed(6, p) = Got(in.lockTime, x)
    <3> HIDE DEF s
    <3>1. /\ p \in Seq(Byte) /\ q \in Seq(Byte)
          /\ ((s \o LittleEndian(in.amount, 8)) \o LittleEndian(in.lockTime, 6)) \o x = s \o q
          /\ Fixed(8, q) = Got(in.amount, p) /\ Fixed(6, p) = Got(in.lockTime, x)
      BY <1>1, <1>6, PutRead
    <3> HIDE DEF p, q
    <3> QED
      BY <1>7, <3>1
  <2> HIDE DEF p, q
  <2>2. WithLength(s \o q) = Got(owner, q)
    BY <1>5, <2>1, ShortRead
  <2>3. ReadIn(s \o q) = Got(MeantIn(in), x)
    <3> HIDE DEF s
    <3> QED
      BY <1>3, <1>5, <2>1, <2>2, GotFields DEF ReadIn, MeantIn
  <2>4. ReadItem("in", s \o q) = ReadIn(s \o q)
    BY Zenon DEF ReadItem
  <2> QED
    BY <2>1, <2>3, <2>4
<1> QED
  BY <1>8, <1>9 DEF Says

\* The first bytes of an address.
LEMMA BodyType ==
  ASSUME NEW address, IsAddress(address)
  PROVE  Body(address) \in Seq(Byte) /\ Len(Body(address)) = BodySize
<1>1. address \in Seq(Byte) /\ Len(address) >= BodySize /\ BodySize \in Nat
  BY BytesAre, EncodingAssumption DEF IsAddress
<1> QED
  BY <1>1, FirstPart DEF Body

\* An output is read as it was written.
LEMMA OutSays ==
  ASSUME NEW out, IsOut(out) PROVE Says("out", TxOut(out), MeantOut(out))
<1> DEFINE owner == Body(out.address)
           s == GetBytesWithLength(owner)
<1>1. owner \in Seq(Byte) /\ Len(owner) < Base /\ IsPut(out)
  BY BodyType, EncodingAssumption DEF IsOut
<1> HIDE DEF owner
<1>2. s \in Seq(Byte) /\ Len(s) > 0
  <2>1. <<>> \in Seq(Byte)
    OBVIOUS
  <2> QED
    BY <1>1, <2>1, ShortRead
<1>3. TxOut(out) = (s \o LittleEndian(out.amount, 8)) \o LittleEndian(out.lockTime, 6)
  BY DEF TxOut, s, owner
<1>4. TxOut(out) \in Seq(Byte) /\ Len(TxOut(out)) > 0
  <2>1. <<>> \in Seq(Byte)
    OBVIOUS
  <2> HIDE DEF s
  <2> QED
    BY <1>1, <1>2, <1>3, <2>1, PutRead
<1>5. ASSUME NEW x \in Seq(Byte)
      PROVE  ReadItem("out", TxOut(out) \o x) = Got(MeantOut(out), x)
  <2> DEFINE p == LittleEndian(out.lockTime, 6) \o x
             q == LittleEndian(out.amount, 8) \o p
  <2>1. /\ p \in Seq(Byte) /\ q \in Seq(Byte) /\ TxOut(out) \o x = s \o q
        /\ Fixed(8, q) = Got(out.amount, p) /\ Fixed(6, p) = Got(out.lockTime, x)
    <3> HIDE DEF s
    <3>1. /\ p \in Seq(Byte) /\ q \in Seq(Byte)
          /\ ((s \o LittleEndian(out.amount, 8)) \o LittleEndian(out.lockTime, 6)) \o x = s \o q
          /\ Fixed(8, q) = Got(out.amount, p) /\ Fixed(6, p) = Got(out.lockTime, x)
      BY <1>1, <1>2, PutRead
    <3> HIDE DEF p, q
    <3> QED
      BY <1>3, <3>1
  <2> HIDE DEF p, q
  <2>2. WithLength(s \o q) = Got(owner, q)
    BY <1>1, <2>1, ShortRead
  <2>3. ReadOut(s \o q) = Got(MeantOut(out), x)
    <3> HIDE DEF s
    <3> QED
      BY <2>1, <2>2, GotFields DEF ReadOut, MeantOut, owner
  <2>4. ReadItem("out", s \o q) = ReadOut(s \o q)
    BY Zenon DEF ReadItem
  <2> QED
    BY <2>1, <2>3, <2>4
<1> QED
  BY <1>4, <1>5 DEF Says

\* An argument is read as it was written.
LEMMA ArgSays ==
  ASSUME NEW arg, IsText(arg) PROVE Says("arg", Arg(arg), MeantArg(arg))
<1> DEFINE s == GetBytesWithLength(arg)
<1>1. arg \in Seq(Byte) /\ Len(arg) < Power(Base, 8)
  BY BytesAre, FitsEight DEF IsText
<1>2. 1 \in Byte /\ <<1>> \in Seq(Byte) /\ Len(<<1>>) = 1 /\ <<>> \in Seq(Byte)
  BY BaseType DEF Byte
<1>3. s \in Seq(Byte)
  BY <1>1, <1>2, WithLengthRead
<1> HIDE DEF s
<1>4. Arg(arg) = <<1>> \o s
  BY DEF Arg, s
<1>5. Arg(arg) \in Seq(Byte) /\ Len(Arg(arg)) > 0
  <2>1. <<1>> \o s \in Seq(Byte) /\ Len(<<1>> \o s) = 1 + Len(s) /\ Len(s) \in Nat
    BY <1>2, <1>3, ConcatProperties
  <2> QED
    BY <1>4, <2>1
<1>6. ASSUME NEW x \in Seq(Byte)
      PROVE  ReadItem("arg", Arg(arg) \o x) = Got(MeantArg(arg), x)
  <2>1. s \o x \in Seq(Byte) /\ Arg(arg) \o x = <<1>> \o (s \o x)
    BY <1>2, <1>3, <1>4, Pieces
  <2>2. WithLength(s \o x) = Got(arg, x)
    BY <1>1, WithLengthRead DEF s
  <2>3. Fixed(1, <<1>> \o (s \o x)) = Got(1, s \o x)
    BY <1>2, <2>1, ByteRead
  <2>4. ReadArg(Arg(arg) \o x) = Got(MeantArg(arg), x)
    BY <2>1, <2>2, <2>3, GotFields DEF ReadArg, MeantArg
  <2>5. ReadItem("arg", Arg(arg) \o x) = ReadArg(Arg(arg) \o x)
    BY Zenon DEF ReadItem
  <2> QED
    BY <2>4, <2>5
<1> QED
  BY <1>5, <1>6 DEF Says

\* The elements of a list.
LEMMA ListElements ==
  ASSUME NEW list, IsList(list)
  PROVE  /\ Len(list) \in Nat /\ Len(list) < Power(Base, 8) /\ DOMAIN list = 1 .. Len(list)
         /\ \A i \in DOMAIN list : list[i] \in ToSet(list)
<1>1. list \in Seq(ToSet(list)) /\ Len(list) \in Nat /\ Len(list) < Power(Base, 8)
  BY FitsEight DEF IsList
<1>2. DOMAIN list = 1 .. Len(list) /\ \A i \in 1 .. Len(list) : list[i] \in ToSet(list)
  BY <1>1, LenProperties, ElementOfSeq
<1> QED
  BY <1>1, <1>2

\* The bytes of a list, and what they say, element by element.
Written(kind, list, seqs, values) ==
    /\ IsList(list)
    /\ seqs = [i \in DOMAIN list |-> seqs[i]] /\ values = [i \in DOMAIN list |-> values[i]]
    /\ \A i \in DOMAIN list : Says(kind, seqs[i], values[i])

\* They are sequences of items and of values.
LEMMA ListSays ==
  ASSUME NEW kind, NEW list, IsList(list),
         NEW seqs, seqs = [i \in DOMAIN list |-> seqs[i]],
         NEW values, values = [i \in DOMAIN list |-> values[i]],
         \A i \in DOMAIN list : Says(kind, seqs[i], values[i])
  PROVE  /\ seqs \in Seq(Seq(Byte)) /\ Len(seqs) = Len(list)
         /\ values = [i \in 1 .. Len(list) |-> values[i]]
         /\ AllSay(kind, seqs, values, Len(list))
<1> DEFINE n == Len(list)
<1>1. n \in Nat /\ DOMAIN list = 1 .. n
  BY ListElements
<1> HIDE DEF n
<1>2. \A i \in 1 .. n : seqs[i] \in Seq(Byte)
  BY <1>1 DEF Says
<1>3. seqs \in [1 .. n -> Seq(Byte)]
  BY <1>1, <1>2
<1>4. seqs \in Seq(Seq(Byte)) /\ Len(seqs) = n
  BY <1>1, <1>3, IsSequence
<1>5. AllSay(kind, seqs, values, n)
  BY <1>1 DEF AllSay
<1>6. values = [i \in 1 .. n |-> values[i]]
  BY <1>1
<1> QED
  BY <1>4, <1>5, <1>6 DEF n

\* A counted list is read as it was written.
LEMMA ListRead ==
  ASSUME NEW kind, NEW list, NEW seqs, NEW values, Written(kind, list, seqs, values),
         NEW x \in Seq(Byte)
  PROVE  Counted(seqs) \in Seq(Byte) /\ ReadCounted(kind, Counted(seqs) \o x) = Got(values, x)
<1> DEFINE n == Len(list)
<1>1. /\ seqs \in Seq(Seq(Byte)) /\ Len(seqs) = n
      /\ values = [i \in 1 .. n |-> values[i]] /\ AllSay(kind, seqs, values, n)
  BY ListSays DEF Written
<1>2. n \in Nat /\ n < Power(Base, 8)
  BY ListElements DEF Written
<1> HIDE DEF n
<1> QED
  BY <1>1, <1>2, CountedRead

\* Nothing behind its length is one zero.
LEMMA NothingIsZero == GetBytesWithLength(<<>>) = <<0>>
<1>1. SizeOf(0) = 1
  <2>1. 0 <= 0 /\ 0 < Base - 3
    BY EncodingAssumption
  <2>2. ~(Base - 3 <= 0) /\ ~(Power(Base, 2) <= 0)
    BY <2>1, FirstPowers, EncodingAssumption
  <2> QED
    BY <2>1, <2>2, Zenon DEF SizeOf
<1>2. VarIntEncode(0) = <<0>>
  BY <1>1 DEF VarIntEncode
<1>3. Len(<<>>) = 0 /\ <<0>> \o <<>> = <<0>>
  OBVIOUS
<1> QED
  BY <1>2, <1>3 DEF GetBytesWithLength

\* The call of a contract is read as it was written.
LEMMA CallRead ==
  ASSUME NEW t, IsCall(t), NEW x \in Seq(Byte)
  PROVE  TokenBytes(t) \in Seq(Byte) /\ ReadCall(TokenBytes(t) \o x) = Got(MeantCall(t), x)
<1> DEFINE n == Len(t.args)
           seqs == [i \in DOMAIN t.args |-> Arg(t.args[i])]
           values == [i \in DOMAIN t.args |-> MeantArg(t.args[i])]
           a == Body(t.sender)
           b == Body(t.contract)
           c == LittleEndian(t.value, 8)
           d == LittleEndian(t.gasLimit, 8)
           e == LittleEndian(t.price, 8)
           f == GetBytesWithLength(t.method)
           g == Join(seqs)
<1>1. /\ IsAddress(t.sender) /\ IsAddress(t.contract)
      /\ t.value \in Nat /\ t.value < Power(Base, 8)
      /\ t.gasLimit \in Nat /\ t.gasLimit < Power(Base, 8)
      /\ t.price \in Nat /\ t.price < Power(Base, 8)
      /\ t.method \in Seq(Byte) /\ Len(t.method) < Power(Base, 8)
      /\ IsList(t.args) /\ \A arg \in ToSet(t.args) : IsText(arg)
      /\ t.argsCount = n /\ n < Base
  BY BytesAre, FitsEight DEF IsCall, IsText
<1>2. n \in Nat /\ DOMAIN t.args = 1 .. n /\ \A i \in DOMAIN t.args : t.args[i] \in ToSet(t.args)
  BY <1>1, ListElements
<1>3. /\ seqs \in Seq(Seq(Byte)) /\ Len(seqs) = n
      /\ values = [i \in 1 .. n |-> values[i]] /\ AllSay("arg", seqs, values, n)
  <2>1. \A i \in DOMAIN t.args : Says("arg", Arg(t.args[i]), MeantArg(t.args[i]))
    BY <1>1, <1>2, ArgSays
  <2>2. \A i \in DOMAIN t.args : Says("arg", seqs[i], values[i])
    BY <2>1
  <2>3. seqs = [i \in DOMAIN t.args |-> seqs[i]] /\ values = [i \in DOMAIN t.args |-> values[i]]
    OBVIOUS
  <2> HIDE DEF seqs, values
  <2> QED
    BY <1>1, <2>2, <2>3, ListSays
<1> HIDE DEF seqs, values
<1>4. g \in Seq(Byte) /\ ReadItems("arg", n, g \o x) = Got(values, x)
  <2> HIDE DEF n
  <2> QED
    BY <1>2, <1>3, ItemsRead
<1> DEFINE p7 == g \o x
           p6 == <<n>> \o p7
           p5 == <<0>> \o p6
           p4 == f \o p5
           p3 == e \o p4
           p2 == d \o p3
           p1 == c \o p2
           p0 == b \o p1
<1>5. /\ a \in Seq(Byte) /\ Len(a) = BodySize /\ b \in Seq(Byte) /\ Len(b) = BodySize
      /\ c \in Seq(Byte) /\ d \in Seq(Byte) /\ e \in Seq(Byte) /\ f \in Seq(Byte)
      /\ 0 \in Byte /\ n \in Byte
  <2>1. a \in Seq(Byte) /\ Len(a) = BodySize /\ b \in Seq(Byte) /\ Len(b) = BodySize
    BY <1>1, BodyType
  <2>2. c \in Seq(Byte) /\ d \in Seq(Byte) /\ e \in Seq(Byte)
    BY <1>1, LittleEndianType
  <2>3. f \in Seq(Byte)
    BY <1>1, WithLengthRead
  <2>4. 0 \in Byte /\ n \in Byte
    BY <1>1, <1>2, BaseType DEF Byte
  <2> QED
    BY <2>1, <2>2, <2>3, <2>4
<1> HIDE DEF n
<1>6. /\ p7 \in Seq(Byte) /\ p6 \in Seq(Byte) /\ p5 \in Seq(Byte)
      /\ Fixed(1, p6) = Got(n, p7) /\ WithLength(p5) = Got(<<>>, p6)
  <2>1. p7 \in Seq(Byte)
    BY <1>4, Pieces
  <2> HIDE DEF p7
  <2>2. p6 \in Seq(Byte) /\ Fixed(1, p6) = Got(n, p7)
    BY <1>5, <2>1, ByteFront, ByteRead
  <2> HIDE DEF p6
  <2>3. p5 \in Seq(Byte)
    BY <1>5, <2>2, ByteFront
  <2>4. WithLength(p5) = Got(<<>>, p6)
    <3>1. <<>> \in Seq(Byte) /\ Len(<<>>) < Base
      BY BaseType
    <3> QED
      BY <2>2, <3>1, NothingIsZero, ShortRead
  <2> QED
    BY <2>1, <2>2, <2>3, <2>4
<1> HIDE DEF a, b, g, p5, p6, p7
<1>7. p4 \in Seq(Byte) /\ WithLength(p4) = Got(t.method, p5)
  <2>1. WithLength(p4) = Got(t.method, p5)
    BY <1>1, <1>6, WithLengthRead
  <2> HIDE DEF f
  <2> QED
    BY <1>5, <1>6, <2>1, Pieces
<1> HIDE DEF f, p4
<1>8. /\ p3 \in Seq(Byte) /\ p2 \in Seq(Byte) /\ p1 \in Seq(Byte) /\ p0 \in Seq(Byte)
      /\ Fixed(8, p3) = Got(t.price, p4) /\ Fixed(8, p2) = Got(t.gasLimit, p3)
      /\ Fixed(8, p1) = Got(t.value, p2)
  <2>1. p3 \in Seq(Byte) /\ Fixed(8, p3) = Got(t.price, p4)
    <3>1. p3 \in Seq(Byte)
      BY <1>5, <1>7, ConcatProperties
    <3>2. Fixed(8, p3) = Got(t.price, p4)
      BY <1>1, <1>7, FixedRead
    <3> QED
      BY <3>1, <3>2
  <2> HIDE DEF p3
  <2>2. p2 \in Seq(Byte) /\ Fixed(8, p2) = Got(t.gasLimit, p3)
    <3>1. p2 \in Seq(Byte)
      BY <1>5, <2>1, ConcatProperties
    <3>2. Fixed(8, p2) = Got(t.gasLimit, p3)
      BY <1>1, <2>1, FixedRead
    <3> QED
      BY <3>1, <3>2
  <2> HIDE DEF p2
  <2>3. p1 \in Seq(Byte) /\ Fixed(8, p1) = Got(t.value, p2)
    BY <1>1, <1>5, <2>2, FixedRead, Pieces
  <2> HIDE DEF p1
  <2>4. p0 \in Seq(Byte)
    BY <1>5, <2>3, Pieces
  <2> QED
    BY <2>1, <2>2, <2>3, <2>4
<1> HIDE DEF c, d, e, p0, p1, p2, p3
<1>9. Raw(BodySize, a \o p0) = Got(a, p0) /\ Raw(BodySize, p0) = Got(b, p1)
  BY <1>5, <1>8, RawRead DEF p0
<1>10. ReadCall(a \o p0) = Got(MeantCall(t), x)
  <2>1. MeantCall(t) = [sender |-> a, contract |-> b, value |-> t.value, gasLimit |-> t.gasLimit,
                        price |-> t.price, method |-> t.method, desc |-> <<>>, args |-> values]
    BY DEF MeantCall, a, b, values
  <2>2. ReadItems("arg", n, p7) = Got(values, x)
    BY <1>4 DEF p7
  <2>3. /\ Raw(BodySize, a \o p0).value = a /\ Raw(BodySize, a \o p0).rest = p0
        /\ Raw(BodySize, p0).value = b /\ Raw(BodySize, p0).rest = p1
        /\ Fixed(8, p1).value = t.value /\ Fixed(8, p1).rest = p2
        /\ Fixed(8, p2).value = t.gasLimit /\ Fixed(8, p2).rest = p3
        /\ Fixed(8, p3).value = t.price /\ Fixed(8, p3).rest = p4
    BY <1>8, <1>9, GotFields
  <2>4. /\ WithLength(p4).value = t.method /\ WithLength(p4).rest = p5
        /\ WithLength(p5).value = <<>> /\ WithLength(p5).rest = p6
        /\ Fixed(1, p6).value = n /\ Fixed(1, p6).rest = p7
        /\ ReadItems("arg", n, p7).value = values /\ ReadItems("arg", n, p7).rest = x
    BY <1>6, <1>7, <2>2, GotFields
  <2> QED
    BY <2>1, <2>3, <2>4, Zenon DEF ReadCall
<1>11. TokenBytes(t) \in Seq(Byte) /\ TokenBytes(t) \o x = a \o p0
  <2> DEFINE h == <<0, n>>
             q1 == a \o b
             q2 == q1 \o c
             q3 == q2 \o d
             q4 == q3 \o e
             q5 == q4 \o f
             q6 == q5 \o h
  <2>1. h \in Seq(Byte) /\ h = <<0>> \o <<n>> /\ <<0>> \in Seq(Byte) /\ <<n>> \in Seq(Byte)
    BY <1>5
  <2>2. n % Base = n
    <3>1. \A m \in Nat : m < Base => m % Base = m
      BY BaseType
    <3> QED
      BY <1>1, <1>2, <3>1 DEF n
  <2>3. TokenBytes(t) = q6 \o g
    BY <1>1, <2>2 DEF TokenBytes, a, b, c, d, e, f, g, seqs, n
  <2>4. p0 = b \o p1 /\ p1 = c \o p2 /\ p2 = d \o p3 /\ p3 = e \o p4 /\ p4 = f \o p5
    BY DEF p0, p1, p2, p3, p4
  <2>5. p5 = h \o p7
    <3>1. p5 = <<0>> \o p6 /\ p6 = <<n>> \o p7
      BY DEF p5, p6
    <3> HIDE DEF h
    <3> QED
      BY <1>6, <2>1, <3>1, Onward
  <2>6. /\ q1 = a \o b /\ q2 = q1 \o c /\ q3 = q2 \o d /\ q4 = q3 \o e /\ q5 = q4 \o f
        /\ q6 = q5 \o h
    OBVIOUS
  <2>7. p7 = g \o x
    BY DEF p7
  <2> HIDE DEF h, q1, q2, q3, q4, q5, q6
  <2>8. q1 \in Seq(Byte) /\ q1 \o p1 = a \o p0
    <3>1. /\ a \in Seq(Byte) /\ b \in Seq(Byte) /\ p1 \in Seq(Byte)
          /\ q1 = a \o b /\ p0 = b \o p1
      BY <1>5, <1>8, <2>4, <2>6
    <3> QED
      BY <3>1, Onward
  <2>9. q2 \in Seq(Byte) /\ q2 \o p2 = q1 \o p1
    <3>1. /\ q1 \in Seq(Byte) /\ c \in Seq(Byte) /\ p2 \in Seq(Byte)
          /\ q2 = q1 \o c /\ p1 = c \o p2
      BY <1>5, <1>8, <2>4, <2>6, <2>8
    <3> QED
      BY <3>1, Onward
  <2>10. q3 \in Seq(Byte) /\ q3 \o p3 = q2 \o p2
    <3>1. /\ q2 \in Seq(Byte) /\ d \in Seq(Byte) /\ p3 \in Seq(Byte)
          /\ q3 = q2 \o d /\ p2 = d \o p3
      BY <1>5, <1>8, <2>4, <2>6, <2>9
    <3> QED
      BY <3>1, Onward
  <2>11. q4 \in Seq(Byte) /\ q4 \o p4 = q3 \o p3
    <3>1. /\ q3 \in Seq(Byte) /\ e \in Seq(Byte) /\ p4 \in Seq(Byte)
          /\ q4 = q3 \o e /\ p3 = e \o p4
      BY <1>5, <1>7, <2>4, <2>6, <2>10
    <3> QED
      BY <3>1, Onward
  <2>12. q5 \in Seq(Byte) /\ q5 \o p5 = q4 \o p4
    <3>1. /\ q4 \in Seq(Byte) /\ f \in Seq(Byte) /\ p5 \in Seq(Byte)
          /\ q5 = q4 \o f /\ p4 = f \o p5
      BY <1>5, <1>6, <2>4, <2>6, <2>11
    <3> QED
      BY <3>1, Onward
  <2>13. q6 \in Seq(Byte) /\ q6 \o p7 = q5 \o p5
    <3>1. /\ q5 \in Seq(Byte) /\ h \in Seq(Byte) /\ p7 \in Seq(Byte)
          /\ q6 = q5 \o h /\ p5 = h \o p7
      BY <1>6, <2>1, <2>5, <2>6, <2>12
    <3> QED
      BY <3>1, Onward
  <2>14. q6 \o g \in Seq(Byte) /\ (q6 \o g) \o x = q6 \o p7
    <3>1. q6 \in Seq(Byte) /\ g \in Seq(Byte) /\ p7 = g \o x
      BY <1>4, <2>7, <2>13
    <3> QED
      BY <3>1, Onward
  <2> QED
    BY <2>3, <2>8, <2>9, <2>10, <2>11, <2>12, <2>13, <2>14
<1> QED
  BY <1>10, <1>11

\* What follows the remark, and the type that announces it.
CallData(tx) ==
    IF tx.token = NoToken THEN [i \in 1 .. 4 |-> Base - 1] ELSE TokenBytes(tx.token[1])
TypeOf(tx) == IF tx.token = NoToken THEN 2 ELSE 101
ReadCallData(type, bytes) == IF type = 2 THEN Raw(4, bytes) ELSE ReadCall(bytes)
MeantCallData(tx) ==
    IF tx.token = NoToken THEN [i \in 1 .. 4 |-> Base - 1] ELSE MeantCall(tx.token[1])

\* It is read as it was written.
LEMMA DataRead ==
  ASSUME NEW tx, IsTransaction(tx), NEW x \in Seq(Byte)
  PROVE  /\ CallData(tx) \in Seq(Byte)
         /\ ReadCallData(TypeOf(tx), CallData(tx) \o x) = Got(MeantCallData(tx), x)
<1>1. CASE tx.token = NoToken
  <2> DEFINE s == [i \in 1 .. 4 |-> Base - 1]
  <2>1. s \in Seq(Byte) /\ Len(s) = 4
    <3>1. Base - 1 \in Byte
      BY BaseType DEF Byte
    <3>2. s \in [1 .. 4 -> Byte] /\ 4 \in Nat
      BY <3>1
    <3> HIDE DEF s
    <3> QED
      BY <3>2, IsSequence, ZenonT(30)
  <2>2. CallData(tx) = s /\ TypeOf(tx) = 2 /\ MeantCallData(tx) = s
    BY <1>1 DEF CallData, TypeOf, MeantCallData
  <2> HIDE DEF s
  <2>3. Raw(4, s \o x) = Got(s, x)
    BY <2>1, RawRead
  <2> QED
    BY <2>1, <2>2, <2>3 DEF ReadCallData
<1>2. CASE tx.token # NoToken
  <2>1. IsCall(tx.token[1])
    BY <1>2 DEF IsTransaction
  <2>2. /\ CallData(tx) = TokenBytes(tx.token[1]) /\ TypeOf(tx) = 101
        /\ MeantCallData(tx) = MeantCall(tx.token[1])
    BY <1>2 DEF CallData, TypeOf, MeantCallData
  <2>3. /\ TokenBytes(tx.token[1]) \in Seq(Byte)
        /\ ReadCall(TokenBytes(tx.token[1]) \o x) = Got(MeantCall(tx.token[1]), x)
    BY <2>1, CallRead
  <2>4. 101 # 2
    OBVIOUS
  <2> QED
    BY <2>2, <2>3, <2>4 DEF ReadCallData
<1> QED
  BY <1>1, <1>2

\* The types fit two bytes.
LEMMA TypeFits ==
  ASSUME NEW tx PROVE TypeOf(tx) \in Nat /\ TypeOf(tx) < Power(Base, 2)
<1>1. Power(Base, 2) = Base * Base
  <2>1. Base \in Nat
    BY BaseType
  <2>2. Power(Base, 0 + 1) = Power(Base, 0) * Base /\ Power(Base, 0) = 1
    BY <2>1, PowerStep
  <2>3. 0 + 1 = 1 /\ 1 * Base = Base /\ 1 + 1 = 2
    BY <2>1
  <2>4. Power(Base, 1 + 1) = Power(Base, 1) * Base
    BY <2>1, PowerStep
  <2> QED
    BY <2>2, <2>3, <2>4
<1>2. Base \in Nat /\ Base >= 11
  BY EncodingAssumption
<1>3. Base * Base >= 121
  <2>1. Base * Base >= 11 * Base /\ 11 * Base >= 11 * 11
    BY <1>2
  <2>2. Base * Base \in Nat /\ 11 * Base \in Nat
    BY <1>2
  <2> QED
    BY <2>1, <2>2
<1>4. Base * Base \in Nat
  BY <1>2
<1> QED
  BY <1>1, <1>3, <1>4 DEF TypeOf

\* A transaction is read as it was written, whatever follows it.
LEMMA TransactionRead ==
  ASSUME NEW tx, IsTransaction(tx), NEW x \in Seq(Byte)
  PROVE  Decode(Encode(tx) \o x) = Got(Meant(tx), x)
<1> DEFINE ins == [i \in DOMAIN tx.ins |-> TxIn(tx.ins[i])]
           outs == [i \in DOMAIN tx.outs |-> TxOut(tx.outs[i])]
           inValues == [i \in DOMAIN tx.ins |-> MeantIn(tx.ins[i])]
           outValues == [i \in DOMAIN tx.outs |-> MeantOut(tx.outs[i])]
           a == LittleEndian(TypeOf(tx), 2)
           b == LittleEndian(tx.time, 6)
           c == GetBytesWithLength(<<>>)
           d == CallData(tx)
           e == Counted(ins)
           f == Counted(outs)
           p4 == f \o x
           p3 == e \o p4
           p2 == d \o p3
           p1 == c \o p2
           p0 == b \o p1
<1>1. /\ tx.time \in Nat /\ tx.time < Power(Base, 6) /\ IsList(tx.ins) /\ IsList(tx.outs)
      /\ \A i \in DOMAIN tx.ins : IsIn(tx.ins[i])
      /\ \A i \in DOMAIN tx.outs : IsOut(tx.outs[i])
  <2>1. /\ Fits(tx.time, 6) /\ IsList(tx.ins) /\ IsList(tx.outs)
        /\ \A in \in ToSet(tx.ins) : IsIn(in)
        /\ \A out \in ToSet(tx.outs) : IsOut(out)
    BY DEF IsTransaction
  <2>2. /\ \A i \in DOMAIN tx.ins : tx.ins[i] \in ToSet(tx.ins)
        /\ \A i \in DOMAIN tx.outs : tx.outs[i] \in ToSet(tx.outs)
    BY <2>1, ListElements
  <2> QED
    BY <2>1, <2>2, FitsSix
<1>2. f \in Seq(Byte) /\ ReadCounted("out", p4) = Got(outValues, x)
  <2>1. \A i \in DOMAIN tx.outs : Says("out", outs[i], outValues[i])
    BY <1>1, OutSays
  <2>2. /\ outs = [i \in DOMAIN tx.outs |-> outs[i]]
        /\ outValues = [i \in DOMAIN tx.outs |-> outValues[i]]
    OBVIOUS
  <2>3. IsList(tx.outs)
    BY <1>1
  <2> HIDE DEF outs, outValues
  <2>4. /\ Counted(outs) \in Seq(Byte)
        /\ ReadCounted("out", Counted(outs) \o x) = Got(outValues, x)
    <3>1. Written("out", tx.outs, outs, outValues)
      BY <2>1, <2>2, <2>3 DEF Written
    <3> QED
      BY <2>3, <3>1, ListRead
  <2> QED
    BY <2>4
<1> HIDE DEF f
<1>3. p4 \in Seq(Byte)
  BY <1>2, Pieces
<1> HIDE DEF p4
<1>4. e \in Seq(Byte) /\ ReadCounted("in", p3) = Got(inValues, p4)
  <2>1. \A i \in DOMAIN tx.ins : Says("in", ins[i], inValues[i])
    BY <1>1, InSays
  <2>2. /\ ins = [i \in DOMAIN tx.ins |-> ins[i]]
        /\ inValues = [i \in DOMAIN tx.ins |-> inValues[i]]
    OBVIOUS
  <2>3. IsList(tx.ins) /\ p4 \in Seq(Byte)
    BY <1>1, <1>3
  <2> HIDE DEF ins, inValues
  <2>4. /\ Counted(ins) \in Seq(Byte)
        /\ ReadCounted("in", Counted(ins) \o p4) = Got(inValues, p4)
    <3>1. Written("in", tx.ins, ins, inValues)
      BY <2>1, <2>2, <2>3 DEF Written
    <3> QED
      BY <2>3, <3>1, ListRead
  <2> QED
    BY <2>4
<1> HIDE DEF e, inValues, outValues
<1>5. p3 \in Seq(Byte)
  BY <1>3, <1>4, Pieces
<1> HIDE DEF p3
<1>6. d \in Seq(Byte) /\ ReadCallData(TypeOf(tx), p2) = Got(MeantCallData(tx), p3)
  BY <1>5, DataRead
<1> HIDE DEF d
<1>7. p2 \in Seq(Byte)
  BY <1>5, <1>6, Pieces
<1> HIDE DEF p2
<1>8. c \in Seq(Byte) /\ WithLength(p1) = Got(<<>>, p2)
  <2>1. <<>> \in Seq(Byte) /\ Len(<<>>) < Base
    BY BaseType
  <2> QED
    BY <1>7, <2>1, ShortRead
<1> HIDE DEF c
<1>9. p1 \in Seq(Byte)
  BY <1>7, <1>8, Pieces
<1> HIDE DEF p1
<1>10. /\ a \in Seq(Byte) /\ b \in Seq(Byte) /\ p0 \in Seq(Byte)
       /\ Fixed(6, p0) = Got(tx.time, p1) /\ Fixed(2, a \o p0) = Got(TypeOf(tx), p0)
  <2>1. a \in Seq(Byte) /\ b \in Seq(Byte)
    BY <1>1, TypeFits, LittleEndianType
  <2>2. Fixed(6, p0) = Got(tx.time, p1)
    BY <1>1, <1>9, FixedRead
  <2>3. p0 \in Seq(Byte)
    <3> HIDE DEF b
    <3> QED
      BY <1>9, <2>1, Pieces
  <2> HIDE DEF p0, b
  <2>4. Fixed(2, a \o p0) = Got(TypeOf(tx), p0)
    BY <2>3, TypeFits, FixedRead
  <2> QED
    BY <2>1, <2>2, <2>3, <2>4
<1> HIDE DEF a, b, p0
<1>11. Encode(tx) \o x = a \o p0
  <2> DEFINE q1 == a \o b
             q2 == q1 \o c
             q3 == q2 \o d
             q4 == q3 \o e
  <2>1. Encode(tx) = q4 \o f
    BY DEF Encode, TypeOf, CallData, a, b, c, d, e, f, ins, outs
  <2>2. q1 = a \o b /\ q2 = q1 \o c /\ q3 = q2 \o d /\ q4 = q3 \o e
    OBVIOUS
  <2>3. p0 = b \o p1 /\ p1 = c \o p2 /\ p2 = d \o p3 /\ p3 = e \o p4 /\ p4 = f \o x
    BY DEF p0, p1, p2, p3, p4
  <2> HIDE DEF q1, q2, q3, q4
  <2>4. q1 \in Seq(Byte) /\ q1 \o p1 = a \o p0
    <3>1. /\ a \in Seq(Byte) /\ b \in Seq(Byte) /\ p1 \in Seq(Byte)
          /\ q1 = a \o b /\ p0 = b \o p1
      BY <1>9, <1>10, <2>2, <2>3
    <3> QED
      BY <3>1, Onward
  <2>5. q2 \in Seq(Byte) /\ q2 \o p2 = q1 \o p1
    <3>1. /\ q1 \in Seq(Byte) /\ c \in Seq(Byte) /\ p2 \in Seq(Byte)
          /\ q2 = q1 \o c /\ p1 = c \o p2
      BY <1>7, <1>8, <2>2, <2>3, <2>4
    <3> QED
      BY <3>1, Onward
  <2>6. q3 \in Seq(Byte) /\ q3 \o p3 = q2 \o p2
    <3>1. /\ q2 \in Seq(Byte) /\ d \in Seq(Byte) /\ p3 \in Seq(Byte)
          /\ q3 = q2 \o d /\ p2 = d \o p3
      BY <1>5, <1>6, <2>2, <2>3, <2>5
    <3> QED
      BY <3>1, Onward
  <2>7. q4 \in Seq(Byte) /\ q4 \o p4 = q3 \o p3
    <3>1. /\ q3 \in Seq(Byte) /\ e \in Seq(Byte) /\ p4 \in Seq(Byte)
          /\ q4 = q3 \o e /\ p3 = e \o p4
      BY <1>3, <1>4, <2>2, <2>3, <2>6
    <3> QED
      BY <3>1, Onward
  <2>8. (q4 \o f) \o x = q4 \o p4
    <3>1. q4 \in Seq(Byte) /\ f \in Seq(Byte) /\ p4 = f \o x
      BY <1>2, <2>3, <2>7
    <3> QED
      BY <3>1, Onward
  <2> QED
    BY <2>1, <2>4, <2>5, <2>6, <2>7, <2>8
<1>12. Decode(a \o p0) =
         Got([type |-> TypeOf(tx), time |-> tx.time, remark |-> <<>>, data |-> MeantCallData(tx),
              ins |-> inValues, outs |-> outValues], x)
  <2>1. /\ Fixed(2, a \o p0).value = TypeOf(tx) /\ Fixed(2, a \o p0).rest = p0
        /\ Fixed(6, p0).value = tx.time /\ Fixed(6, p0).rest = p1
        /\ WithLength(p1).value = <<>> /\ WithLength(p1).rest = p2
    BY <1>8, <1>10, GotFields
  <2>2. /\ ReadCallData(TypeOf(tx), p2).value = MeantCallData(tx) /\ ReadCallData(TypeOf(tx), p2).rest = p3
        /\ ReadCounted("in", p3).value = inValues /\ ReadCounted("in", p3).rest = p4
        /\ ReadCounted("out", p4).value = outValues /\ ReadCounted("out", p4).rest = x
    BY <1>2, <1>4, <1>6, GotFields
  <2>3. Decode(a \o p0) =
          LET type == Fixed(2, a \o p0)
              time == Fixed(6, type.rest)
              remark == WithLength(time.rest)
              data == ReadCallData(type.value, remark.rest)
              in == ReadCounted("in", data.rest)
              out == ReadCounted("out", in.rest)
          IN  Got([type |-> type.value, time |-> time.value, remark |-> remark.value,
                   data |-> data.value, ins |-> in.value, outs |-> out.value], out.rest)
    BY Zenon DEF Decode, ReadCoins, ReadCallData
  <2> QED
    BY <2>1, <2>2, <2>3, Zenon
<1>13. Meant(tx) = [type |-> TypeOf(tx), time |-> tx.time, remark |-> <<>>, data |-> MeantCallData(tx),
                    ins |-> inValues, outs |-> outValues]
  BY Zenon DEF Meant, TypeOf, MeantCallData, inValues, outValues
<1> QED
  BY <1>11, <1>12, <1>13

\* For any sizes, every transaction with numbers that fit their bytes, with and without
\* the call of a contract, is read as it was written, and what is appended to it begins
\* where it ends (encodeToBytes of txStruct.go, newTxTokenToBytes of txToken.go).
THEOREM TransactionsAreRead == Spec => []TransactionIsRead
<1>1. TypeOK => TransactionIsRead
  <2> SUFFICES ASSUME TypeOK, Is("transaction")
               PROVE  Decode(Encode(input.transaction) \o <<0>>) = Got(Meant(input.transaction), <<0>>)
    BY DEF TransactionIsRead
  <2>1. PICK tx \in Transactions : input = [kind |-> "transaction", transaction |-> tx]
    BY DEF TypeOK, Is, Inputs, None
  <2>2. IsTransaction(tx) /\ input.transaction = tx
    BY <2>1, CodecsAssumption
  <2>3. <<0>> \in Seq(Byte)
    BY BaseType DEF Byte
  <2> QED
    BY <2>2, <2>3, TransactionRead
<1> QED
  BY <1>1, InputType, PTL

-----------------------------------------------------------------------------
(* Signed transactions. *)

\* The bytes of a signature, and what they say.
LEMMA SignedSays ==
  ASSUME NEW sig, AreBytes(Base, sig.pub), Len(sig.pub) < Base, IsNumber(sig.r), IsNumber(sig.s)
  PROVE  /\ Says("signed", SignedBy(sig), MeantSigned(sig))
         /\ Len(SignedBy(sig)) <= 2 * Base + 1
<1> DEFINE v == [pub |-> sig.pub, type |-> 0, numbers |-> MeantPair(sig.r, sig.s)]
<1>1. sig.pub \in Seq(Byte) /\ Signable(sig.r) /\ Signable(sig.s)
  BY BytesAre, NumberIsSignable
<1>2. MeantSigned(sig) = v
  <2>1. ReadSignature(ToBytes(sig.r, sig.s)).value = MeantPair(sig.r, sig.s)
    BY <1>1, PairRead, GotFields
  <2> QED
    BY <2>1, Zenon DEF MeantSigned
<1> HIDE DEF v
<1>3. ASSUME NEW x \in Seq(Byte)
      PROVE  /\ SignedBy(sig) \in Seq(Byte) /\ Len(SignedBy(sig)) \in 1 .. 2 * Base + 1
             /\ ReadItem("signed", SignedBy(sig) \o x) = Got(v, x)
  <2>1. /\ SignedBy(sig) \in Seq(Byte) /\ Len(SignedBy(sig)) \in 1 .. 2 * Base + 1
        /\ ReadSigned(SignedBy(sig) \o x) = Got(v, x)
    BY <1>1, SignedRead DEF v
  <2>2. ReadItem("signed", SignedBy(sig) \o x) = ReadSigned(SignedBy(sig) \o x)
    BY Zenon DEF ReadItem
  <2> QED
    BY <2>1, <2>2
<1>4. /\ SignedBy(sig) \in Seq(Byte) /\ Len(SignedBy(sig)) > 0
      /\ Len(SignedBy(sig)) <= 2 * Base + 1
  <2>1. <<>> \in Seq(Byte) /\ Base \in Nat
    BY BaseType
  <2>2. SignedBy(sig) \in Seq(Byte) /\ Len(SignedBy(sig)) \in 1 .. 2 * Base + 1
    BY <1>3, <2>1
  <2> QED
    BY <2>1, <2>2
<1> QED
  BY <1>2, <1>3, <1>4 DEF Says

\* The section of signatures, and the signatures in it.
LEMMA SectionRead ==
  ASSUME NEW sigs, IsSection(sigs)
  PROVE  /\ SignatureSection(sigs) \in Seq(Byte)
         /\ LET section == WithLength(SignatureSection(sigs))
            IN  /\ section.rest = <<>>
                /\ ReadItems("signed", Len(sigs), section.value)
                       = Got([i \in DOMAIN sigs |-> MeantSigned(sigs[i])], <<>>)
<1> DEFINE n == Len(sigs)
           seqs == [i \in DOMAIN sigs |-> SignedBy(sigs[i])]
           values == [i \in DOMAIN sigs |-> MeantSigned(sigs[i])]
           all == Join(seqs)
<1>1. n \in Nat /\ n < Power(Base, 6) /\ DOMAIN sigs = 1 .. n /\ <<>> \in Seq(Byte)
  BY FitsSix, LenProperties DEF IsSection
<1>2. \A i \in 1 .. n : /\ Says("signed", SignedBy(sigs[i]), MeantSigned(sigs[i]))
                        /\ Len(SignedBy(sigs[i])) <= 2 * Base + 1
  <2> SUFFICES ASSUME NEW i \in 1 .. n
               PROVE  /\ Says("signed", SignedBy(sigs[i]), MeantSigned(sigs[i]))
                      /\ Len(SignedBy(sigs[i])) <= 2 * Base + 1
    OBVIOUS
  <2>1. sigs[i] \in ToSet(sigs)
    BY ElementOfSeq DEF IsSection
  <2>2. /\ AreBytes(Base, sigs[i].pub) /\ Len(sigs[i].pub) < Base
        /\ IsNumber(sigs[i].r) /\ IsNumber(sigs[i].s)
    BY <2>1 DEF IsSection
  <2> QED
    BY <2>2, SignedSays
<1>3. /\ seqs \in Seq(Seq(Byte)) /\ Len(seqs) = n
      /\ values = [i \in 1 .. n |-> values[i]] /\ AllSay("signed", seqs, values, n)
      /\ AtMost(seqs, n, 2 * Base + 1)
  <2>1. \A i \in 1 .. n : Says("signed", seqs[i], values[i])
    BY <1>1, <1>2
  <2>2. \A i \in 1 .. n : seqs[i] \in Seq(Byte)
    BY <1>1, <1>2 DEF Says
  <2>3. \A i \in 1 .. n : Len(seqs[i]) <= 2 * Base + 1
    BY <1>1, <1>2
  <2>4. seqs = [i \in 1 .. n |-> seqs[i]] /\ values = [i \in 1 .. n |-> values[i]]
    BY <1>1
  <2> HIDE DEF seqs, values, n
  <2>5. seqs \in [1 .. n -> Seq(Byte)]
    BY <2>2, <2>4
  <2>6. seqs \in Seq(Seq(Byte)) /\ Len(seqs) = n
    BY <1>1, <2>5, IsSequence
  <2> QED
    BY <2>1, <2>3, <2>4, <2>6 DEF AllSay, AtMost
<1> HIDE DEF n, seqs, values
<1>4. /\ all \in Seq(Byte) /\ ReadItems("signed", n, all \o <<>>) = Got(values, <<>>)
      /\ Len(all) < Power(Base, 8)
  <2>1. all \in Seq(Byte) /\ ReadItems("signed", n, all \o <<>>) = Got(values, <<>>)
    BY <1>1, <1>3, ItemsRead, ZenonT(30)
  <2>2. Len(all) < Power(Base, 8)
    BY <1>1, <1>3, SectionFits
  <2> QED
    BY <2>1, <2>2
<1>5. SignatureSection(sigs) = GetBytesWithLength(all)
  BY DEF SignatureSection, seqs
<1> HIDE DEF all
<1>6. all \o <<>> = all
  BY <1>4, ConcatEmptySeq
<1> DEFINE s == GetBytesWithLength(all)
<1>7. s \in Seq(Byte) /\ WithLength(s \o <<>>) = Got(all, <<>>)
  BY <1>1, <1>4, WithLengthRead
<1> HIDE DEF s
<1>8. s \o <<>> = s
  BY <1>7, ConcatEmptySeq
<1>9. WithLength(s).value = all /\ WithLength(s).rest = <<>>
  BY <1>7, <1>8, GotFields
<1>10. SignatureSection(sigs) = s
  BY <1>5 DEF s
<1> QED
  BY <1>4, <1>6, <1>7, <1>9, <1>10 DEF n, values

\* For any sizes, a transaction with any number of signatures is read as it was written:
\* the transaction up to its end, and then every signature (VerifyRawTransaction of
\* tx_decode.go).
THEOREM SignedAreRead == Spec => []SignedIsRead
<1>1. TypeOK => SignedIsRead
  <2> SUFFICES ASSUME TypeOK, Is("signed")
               PROVE  LET tx      == input.transaction
                          sigs    == input.sigs
                          body    == Decode(Encode(tx) \o SignatureSection(sigs))
                          section == WithLength(body.rest)
                      IN  /\ body.value = Meant(tx) /\ section.rest = <<>>
                          /\ ReadItems("signed", Len(sigs), section.value)
                                 = Got([i \in DOMAIN sigs |-> MeantSigned(sigs[i])], <<>>)
    BY DEF SignedIsRead, IsSigned, AreSigned
  <2>1. PICK tx \in Transactions, sigs \in Sections :
          input = [kind |-> "signed", transaction |-> tx, sigs |-> sigs]
    BY DEF TypeOK, Is, Inputs, None
  <2>2. /\ IsTransaction(tx) /\ input.transaction = tx
        /\ IsSection(sigs) /\ input.sigs = sigs
    BY <2>1, CodecsAssumption
  <2> DEFINE x == SignatureSection(sigs)
  <2>3. /\ x \in Seq(Byte) /\ WithLength(x).rest = <<>>
        /\ ReadItems("signed", Len(sigs), WithLength(x).value)
               = Got([i \in DOMAIN sigs |-> MeantSigned(sigs[i])], <<>>)
    BY <2>2, SectionRead
  <2> HIDE DEF x
  <2>4. Decode(Encode(tx) \o x).value = Meant(tx) /\ Decode(Encode(tx) \o x).rest = x
    BY <2>2, <2>3, TransactionRead, GotFields
  <2> QED
    BY <2>2, <2>3, <2>4, Zenon DEF x
<1> QED
  BY <1>1, InputType, PTL

-----------------------------------------------------------------------------
(* Addresses. *)

\* For any bases and size of hash, the address of every key is decoded to chain, type
\* and hash by the decoder of senders and by that of outputs alike (GetAddressByPub of
\* address_decode.go, Base58Encode and the two Base58Decode).
THEOREM KeysAreInAddresses == Spec => []KeyIsInAddress
<1>1. TypeOK => KeyIsInAddress
  <2> SUFFICES ASSUME TypeOK, Is("key")
               PROVE  AddressIsRead(input.chain, input.hash)
    BY DEF KeyIsInAddress
  <2>1. PICK k \in Keys : input = [kind |-> "key", chain |-> k[1], hash |-> k[2]]
    BY DEF TypeOK, Is, Inputs, None
  <2> DEFINE chain == k[1]
             hash == k[2]
  <2>2. IsKey(chain, hash) /\ input.chain = chain /\ input.hash = hash
    BY <2>1, CodecsAssumption
  <2> HIDE DEF chain, hash
  <2>3. chain \in 0 .. ByteBase * ByteBase - 1 /\ Len(hash) = KeySize
    BY <2>2 DEF IsKey
  <2>4. hash \in Seq(SmallByte)
    <3>1. hash \in Seq(ToSet(hash)) /\ ToSet(hash) \subseteq SmallByte
      BY <2>2 DEF IsKey, AreBytes, SmallByte
    <3> QED
      BY <3>1, SeqMonotonic
  <2> QED
    BY <2>2, <2>3, <2>4, AddressRead
<1> QED
  BY <1>1, InputType, PTL
===============================================================================
