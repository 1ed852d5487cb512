--------------------------- MODULE PaymentProofs ---------------------------
(***************************************************************************)
(* Payments and summaries of coins: what the properties of Payment rest    *)
(* on, for any account, any orders and any number of transactions.         *)
(***************************************************************************)
EXTENDS Payment, FoldProofs

\* What a summary can retain at most.
Room == RetainedBalance * MaxTxInputs

\* What two theorems ask of the amounts: all the money there is, with what is retained
\* and the fee, fits in an amount.
SmallMoney == ValueOf(Minted) + Room + Fee < Modulus

\* What coins retain a second time: the balance to retain, for each coin but one of an
\* address.
TwiceOf(ins) == RetainedBalance * (Cardinality(ins) - Cardinality({c.address : c \in ins}))

\* Every coin there can ever be.
AllCoins == Minted \cup {Coin(<<x[1], x[2]>>, x[2], x[3], FALSE) :
                             x \in Tx \X Address \X (0 .. Modulus - 1)}

-----------------------------------------------------------------------------
(* The value of sets of coins. *)

\* Coins with a value.
Purse(S) == IsFiniteSet(S) /\ \A c \in S : c.value \in Nat

\* The value of a part of a purse, as a sum over the purse.
LEMMA ValueIsSum ==
  ASSUME NEW S, Purse(S), NEW T \in SUBSET S
  PROVE  /\ [c \in S |-> c.value] \in [S -> Int]
         /\ Purse(T)
         /\ ValueOf(T) = Sums([c \in S |-> c.value])[T]
<1>1. IsFiniteSet(S) /\ \A c \in S : c.value \in Nat
  BY DEF Purse
<1>2. IsFiniteSet(T)
  BY <1>1, FS_Subset
<1>3. \A c \in T : c.value \in Nat
  BY <1>1
<1> DEFINE v == [c \in T |-> c.value]
           w == [c \in S |-> c.value]
<1>4. /\ v \in [T -> Int] /\ w \in [S -> Int]
      /\ \A c \in T : v[c] = w[c]
  BY <1>1
<1>5. ValueOf(T) = Sums(v)[T]
  <2>1. \A c \in T : c.value \in Int
    BY <1>3
  <2> QED
    BY <1>2, <2>1, SumOfValues DEF ValueOf
<1> HIDE DEF v, w
<1>6. Sums(v)[T] = Sums(w)[T]
  BY <1>1, <1>2, <1>4, SumsAgree
<1> QED
  BY <1>2, <1>3, <1>4, <1>5, <1>6 DEF Purse, w

\* A value is a number, that of nothing is 0.
LEMMA ValueType ==
  ASSUME NEW S, Purse(S)
  PROVE  ValueOf(S) \in Nat /\ (S = {} => ValueOf(S) = 0)
<1> DEFINE w == [c \in S |-> c.value]
<1>1. w \in [S -> Nat] /\ IsFiniteSet(S) /\ S \in SUBSET S
  BY DEF Purse
<1>2. ValueOf(S) = Sums(w)[S] /\ w \in [S -> Int]
  BY <1>1, ValueIsSum
<1> HIDE DEF w
<1>3. Sums(w)[S] \in Nat
  BY <1>1, SumsNat
<1>4. S = {} => Sums(w)[S] = 0
  BY <1>1, <1>2, SumsStep
<1> QED
  BY <1>2, <1>3, <1>4

\* Two purses with no coin in common.
LEMMA ValueOfBoth ==
  ASSUME NEW S, NEW T, Purse(S), Purse(T), S \cap T = {}
  PROVE  Purse(S \cup T) /\ ValueOf(S \cup T) = ValueOf(S) + ValueOf(T)
<1> DEFINE D == S \cup T
           w == [c \in D |-> c.value]
<1>1. Purse(D)
  <2>1. IsFiniteSet(D)
    BY FS_Union DEF Purse
  <2> QED
    BY <2>1 DEF Purse
<1>2. S \in SUBSET D /\ T \in SUBSET D /\ D \in SUBSET D /\ D = S \cup T
  OBVIOUS
<1> HIDE DEF D
<1>3. /\ w \in [D -> Int]
      /\ ValueOf(S) = Sums(w)[S] /\ ValueOf(T) = Sums(w)[T] /\ ValueOf(D) = Sums(w)[D]
  BY <1>1, <1>2, ValueIsSum
<1>4. IsFiniteSet(D)
  BY <1>1 DEF Purse
<1> HIDE DEF w
<1>5. Sums(w)[S \cup T] = Sums(w)[S] + Sums(w)[T]
  BY <1>2, <1>3, <1>4, SumsUnion
<1> QED
  BY <1>1, <1>2, <1>3, <1>5

\* What is left when some coins are taken from a purse.
LEMMA ValueOfRest ==
  ASSUME NEW S, Purse(S), NEW T \in SUBSET S
  PROVE  /\ Purse(S \ T) /\ Purse(T)
         /\ ValueOf(S \ T) = ValueOf(S) - ValueOf(T)
         /\ ValueOf(T) <= ValueOf(S)
<1>1. Purse(S \ T) /\ Purse(T)
  <2>1. S \ T \in SUBSET S
    OBVIOUS
  <2> QED
    BY <2>1, ValueIsSum
<1>2. (S \ T) \cap T = {} /\ (S \ T) \cup T = S
  OBVIOUS
<1>3. ValueOf(S) = ValueOf(S \ T) + ValueOf(T)
  BY <1>1, <1>2, ValueOfBoth
<1>4. ValueOf(S) \in Nat /\ ValueOf(S \ T) \in Nat /\ ValueOf(T) \in Nat
  BY <1>1, ValueType
<1> QED
  BY <1>1, <1>3, <1>4

\* A list that names no coin twice is worth its coins.
LEMMA ValueOfList ==
  ASSUME NEW S, \A c \in S : c.value \in Nat, NEW coins \in Seq(S), IsInjective(coins)
  PROVE  /\ Purse(ToSet(coins))
         /\ ValueOf(ToSet(coins)) = SumOf(coins)
<1> DEFINE E == DOMAIN coins
           D == ToSet(coins)
           v == Values(coins)
           w == [c \in D |-> c.value]
<1>1. IsFiniteSet(E)
  <2>1. E = 1 .. Len(coins) /\ Len(coins) \in Nat
    OBVIOUS
  <2> QED
    BY <2>1, FS_Interval
<1>2. /\ coins \in [E -> D] /\ coins \in Surjection(E, D)
      /\ D = {coins[i] : i \in E}
  BY DEF ToSet, Surjection
<1>3. IsFiniteSet(D)
  BY <1>1, <1>2, FS_Surjection
<1>4. \A c \in D : c.value \in Nat
  <2>1. \A i \in E : coins[i] \in S
    BY ElementOfSeq
  <2> QED
    BY <2>1 DEF ToSet
<1>5. Purse(D) /\ D \in SUBSET D
  BY <1>3, <1>4 DEF Purse
<1>6. ValueOf(D) = Sums(w)[D] /\ w \in [D -> Int]
  BY <1>5, ValueIsSum
<1>7. SumOf(coins) = Sums(v)[E]
  <2>1. \A i \in DOMAIN coins : coins[i].value \in Int
    BY <1>2, <1>4
  <2>2. SumOf(coins) = SumAll(Values(coins))
    BY <1>1, <2>1, SumOfCoins
  <2> QED
    BY <2>2 DEF SumAll, Values
<1>8. v \in [E -> Int] /\ \A i \in E : v[i] = w[coins[i]]
  <2>1. \A i \in E : coins[i] \in D /\ coins[i].value \in Int
    BY <1>2, <1>4
  <2>2. v = [i \in E |-> coins[i].value]
    BY DEF Values
  <2>3. \A c \in D : w[c] = c.value
    OBVIOUS
  <2> HIDE DEF D, E, v, w
  <2> QED
    BY <2>1, <2>2, <2>3
<1>9. \A i, j \in E : coins[i] = coins[j] => i = j
  BY DEF IsInjective
<1> HIDE DEF D, E, v, w
<1>10. Renames(coins, E, v, D, w)
  BY <1>2, <1>6, <1>8, <1>9 DEF Renames
<1>11. Sums(v)[E] = Sums(w)[D]
  BY <1>1, <1>3, <1>10, SumsRenamed
<1> QED
  BY <1>5, <1>6, <1>7, <1>11 DEF D

-----------------------------------------------------------------------------
(* Outputs: how much for each address. *)

\* Outputs whose amounts are in S.
OutputsOf(S) == UNION {[D -> S] : D \in SUBSET Address}

\* The assumptions on the constants, one by one.
LEMMA Constants ==
  /\ IsFiniteSet(Address) /\ Own \in SUBSET Address /\ SummaryAddress \in Address
  /\ IsFiniteSet(Minted)
  /\ Fee \in Nat /\ Fee > 0 /\ Modulus \in Nat /\ Modulus > 0
  /\ RetainedBalance \in Nat /\ MaxTxInputs \in Nat /\ MaxTxInputs > 0 /\ Room \in Nat
BY PaymentAssumption DEF Room

\* What the amounts sum to, and how the sum is divided at the account's border.
LEMMA SumOfOutputs ==
  ASSUME NEW D \in SUBSET Address, NEW outs \in [D -> Int]
  PROVE  /\ IsFiniteSet(D)
         /\ SumFunction(outs) = Sums(outs)[D] /\ SumFunction(outs) \in Int
         /\ Sent(outs) = Sums(outs)[D \ Own] /\ Sent(outs) \in Int
         /\ SumFunction(outs) = Sums(outs)[D \cap Own] + Sent(outs)
         /\ Sums(outs)[D \cap Own] \in Int
<1>1. IsFiniteSet(D)
  BY Constants, FS_Subset
<1>2. D \ Own \in SUBSET D /\ D \cap Own \in SUBSET D /\ D \in SUBSET D
  OBVIOUS
<1>3. SumFunction(outs) = Sums(outs)[D]
  BY <1>1, SumOfFunction
<1>4. Sent(outs) = Sums(outs)[D \ Own]
  <2>1. SumFunctionOnSet(outs, D \ Own) = Sums(outs)[D \ Own]
    BY <1>1, <1>2, SumOnSet
  <2>2. DOMAIN outs = D
    OBVIOUS
  <2> QED
    BY <2>1, <2>2 DEF Sent
<1>5. /\ Sums(outs)[D] \in Int /\ Sums(outs)[D \ Own] \in Int
      /\ Sums(outs)[D \cap Own] \in Int
  BY <1>1, <1>2, SumsStep
<1>6. Sums(outs)[D] = Sums(outs)[D \cap Own] + Sums(outs)[D \ Own]
  <2>1. (D \cap Own) \cap (D \ Own) = {} /\ D = (D \cap Own) \cup (D \ Own)
    OBVIOUS
  <2> QED
    BY <1>1, <1>2, <2>1, SumsUnion
<1> QED
  BY <1>1, <1>3, <1>4, <1>5, <1>6

\* Natural amounts have a natural sum.
LEMMA SumOfNaturals ==
  ASSUME NEW outs \in OutputsOf(Nat)
  PROVE  SumFunction(outs) \in Nat
<1>1. PICK D \in SUBSET Address : outs \in [D -> Nat]
  BY DEF OutputsOf
<1>2. outs \in [D -> Int] /\ D \in SUBSET D
  BY <1>1
<1>3. IsFiniteSet(D) /\ SumFunction(outs) = Sums(outs)[D]
  BY <1>2, SumOfOutputs
<1>4. Sums(outs)[D] \in Nat
  BY <1>1, <1>2, <1>3, SumsNat
<1> QED
  BY <1>3, <1>4

\* One more amount adds to the sum, whether its address has one or not.
LEMMA SumOfAppended ==
  ASSUME NEW D \in SUBSET Address, NEW outs \in [D -> Int], NEW a \in Address, NEW v \in Int
  PROVE  /\ D \cup {a} \in SUBSET Address
         /\ AppendOutput(outs, a, v) \in [D \cup {a} -> Int]
         /\ SumFunction(AppendOutput(outs, a, v)) = SumFunction(outs) + v
         /\ outs \in [D -> Nat] /\ v \in Nat => AppendOutput(outs, a, v) \in [D \cup {a} -> Nat]
<1> DEFINE E == D \cup {a}
           g == AppendOutput(outs, a, v)
<1>1. /\ E \in SUBSET Address /\ a \in E
      /\ g \in [E -> Int] /\ \A x \in E \ {a} : x \in D /\ g[x] = outs[x]
      /\ a \in D => g[a] = v + outs[a]
      /\ a \notin D => g[a] = v
      /\ outs \in [D -> Nat] /\ v \in Nat => g \in [E -> Nat]
  BY DEF AppendOutput
<1>2. E \ {a} = D \ {a} /\ E \ {a} \in SUBSET D /\ E \ {a} \in SUBSET E
  OBVIOUS
<1> HIDE DEF E, g
<1>3. IsFiniteSet(E) /\ SumFunction(g) = Sums(g)[E] /\ SumFunction(outs) = Sums(outs)[D]
  BY <1>1, SumOfOutputs
<1>4. IsFiniteSet(D)
  BY SumOfOutputs
<1>5. Sums(g)[E] = g[a] + Sums(g)[E \ {a}]
  <2>1. E \in SUBSET E /\ g \in [E -> Int]
    BY <1>1
  <2>2. PICK y \in E : y = a
    BY <1>1
  <2>3. Sums(g)[E] = g[y] + Sums(g)[E \ {y}]
    BY <1>3, <2>1, SumsRemove
  <2> QED
    BY <2>2, <2>3
<1>6. Sums(g)[E \ {a}] = Sums(outs)[E \ {a}]
  BY <1>1, <1>2, <1>3, <1>4, SumsAgree
<1>7. Sums(outs)[E \ {a}] \in Int
  BY <1>2, <1>4, SumsStep
<1>8. CASE a \in D
  <2>1. Sums(outs)[D] = outs[a] + Sums(outs)[D \ {a}]
    <3>1. D \in SUBSET D
      OBVIOUS
    <3>2. PICK y \in D : y = a
      BY <1>8
    <3>3. Sums(outs)[D] = outs[y] + Sums(outs)[D \ {y}]
      BY <1>4, <3>1, SumsRemove
    <3> QED
      BY <3>2, <3>3
  <2>2. outs[a] \in Int
    BY <1>8
  <2> QED
    BY <1>1, <1>2, <1>3, <1>5, <1>6, <1>7, <1>8, <2>1, <2>2 DEF E, g
<1>9. CASE a \notin D
  <2>1. E \ {a} = D
    BY <1>2, <1>9
  <2> QED
    BY <1>1, <1>3, <1>5, <1>6, <1>7, <1>9, <2>1 DEF E, g
<1> QED
  BY <1>8, <1>9

\* The same for outputs of any addresses.
LEMMA AppendedOutputs ==
  ASSUME NEW outs \in OutputsOf(Int), NEW a \in Address, NEW v \in Int
  PROVE  /\ AppendOutput(outs, a, v) \in OutputsOf(Int)
         /\ SumFunction(AppendOutput(outs, a, v)) = SumFunction(outs) + v
         /\ outs \in OutputsOf(Nat) /\ v \in Nat => AppendOutput(outs, a, v) \in OutputsOf(Nat)
<1>1. PICK D \in SUBSET Address : outs \in [D -> Int]
  BY DEF OutputsOf
<1>2. outs \in OutputsOf(Nat) => outs \in [D -> Nat]
  BY <1>1 DEF OutputsOf
<1> DEFINE g == AppendOutput(outs, a, v)
           E == D \cup {a}
<1>3. /\ E \in SUBSET Address
      /\ g \in [E -> Int]
      /\ SumFunction(g) = SumFunction(outs) + v
      /\ outs \in [D -> Nat] /\ v \in Nat => g \in [E -> Nat]
  BY <1>1, SumOfAppended
<1> HIDE DEF g, E
<1>4. g \in OutputsOf(Int) /\ (outs \in [D -> Nat] /\ v \in Nat => g \in OutputsOf(Nat))
  BY <1>3 DEF OutputsOf
<1> QED
  BY <1>2, <1>3, <1>4 DEF g

\* What CreateSimple makes of the amounts.
Wrapped(outs) == [a \in DOMAIN outs |-> Uint64(outs[a])]

\* The amounts of a transaction fit in their width.
LEMMA WrappedType ==
  ASSUME NEW D \in SUBSET Address, NEW outs \in [D -> Int]
  PROVE  Wrapped(outs) \in [D -> 0 .. Modulus - 1]
<1>1. \A n \in Int : Uint64(n) \in 0 .. Modulus - 1
  BY Constants DEF Uint64
<1> QED
  BY <1>1 DEF Wrapped

\* Amounts that sum to less than the width allows are not changed.
LEMMA SmallNotWrapped ==
  ASSUME NEW D \in SUBSET Address, NEW outs \in [D -> Nat], SumFunction(outs) < Modulus
  PROVE  Wrapped(outs) = outs
<1>1. outs \in [D -> Int]
  OBVIOUS
<1>2. IsFiniteSet(D) /\ SumFunction(outs) = Sums(outs)[D]
  BY <1>1, SumOfOutputs
<1>3. ASSUME NEW a \in D PROVE Uint64(outs[a]) = outs[a]
  <2>1. Sums(outs)[D] = outs[a] + Sums(outs)[D \ {a}]
    <3>1. D \in SUBSET D
      OBVIOUS
    <3> QED
      BY <1>1, <1>2, <3>1, SumsRemove
  <2>2. Sums(outs)[D \ {a}] \in Nat
    <3>1. D \ {a} \in SUBSET D
      OBVIOUS
    <3> QED
      BY <1>2, <3>1, SumsNat
  <2>3. outs[a] \in Nat /\ outs[a] < Modulus
    BY <1>2, <2>1, <2>2, Constants
  <2>4. \A n \in Nat : n < Modulus => n % Modulus = n
    BY Constants
  <2> QED
    BY <2>3, <2>4 DEF Uint64
<1> QED
  BY <1>3 DEF Wrapped

\* The coins a confirmed transaction makes of some of its outputs.
NewCoins(t, outs, E) == {Coin(<<t, a>>, a, outs[a], FALSE) : a \in E}

\* They are worth what the outputs say.
LEMMA ValueOfNew ==
  ASSUME NEW t, NEW D \in SUBSET Address, NEW outs \in [D -> Nat], NEW E \in SUBSET D
  PROVE  Purse(NewCoins(t, outs, E)) /\ ValueOf(NewCoins(t, outs, E)) = Sums(outs)[E]
<1> DEFINE N == NewCoins(t, outs, E)
           h == [a \in E |-> Coin(<<t, a>>, a, outs[a], FALSE)]
           v == [a \in E |-> outs[a]]
           w == [c \in N |-> c.value]
<1>1. /\ h \in [E -> N] /\ h \in Surjection(E, N)
      /\ N = {h[a] : a \in E}
      /\ \A a \in E : h[a].value = outs[a] /\ h[a].address = a /\ outs[a] \in Nat
  BY DEF NewCoins, Surjection, Coin
<1>2. IsFiniteSet(E) /\ IsFiniteSet(D)
  BY Constants, FS_Subset
<1>3. IsFiniteSet(N)
  BY <1>1, <1>2, FS_Surjection
<1>4. Purse(N) /\ N \in SUBSET N
  <2>1. \A c \in N : c.value \in Nat
    <3> SUFFICES ASSUME NEW c \in N PROVE c.value \in Nat
      OBVIOUS
    <3>1. PICK a \in E : c = h[a]
      BY <1>1
    <3> QED
      BY <1>1, <3>1
  <2> QED
    BY <1>3, <2>1 DEF Purse
<1>5. ValueOf(N) = Sums(w)[N] /\ w \in [N -> Int]
  BY <1>4, ValueIsSum
<1>6. v \in [E -> Int] /\ \A a \in E : v[a] = outs[a]
  OBVIOUS
<1>7. \A a \in E : v[a] = w[h[a]]
  BY <1>1
<1> HIDE DEF N, h, v, w
<1>8. Renames(h, E, v, N, w)
  BY <1>1, <1>5, <1>6, <1>7 DEF Renames
<1>9. Sums(v)[E] = Sums(w)[N]
  BY <1>2, <1>3, <1>8, SumsRenamed
<1>10. Sums(v)[E] = Sums(outs)[E]
  <2>1. outs \in [D -> Int]
    OBVIOUS
  <2> QED
    BY <1>2, <1>6, <2>1, SumsAgree
<1> QED
  BY <1>4, <1>5, <1>9, <1>10 DEF N

\* No coins, no money.
LEMMA SumOfNone == SumOf(<<>>) = 0
<1> DEFINE q == <<>>
<1>1. DOMAIN q = {} /\ IsFiniteSet({})
  BY FS_EmptySet
<1> HIDE DEF q
<1>2. SumOf(q) = SumAll(Values(q))
  BY <1>1, SumOfCoins
<1>3. Values(q) \in [{} -> Int] /\ DOMAIN Values(q) = {}
  BY <1>1 DEF Values
<1>4. SumAll(Values(q)) = 0
  BY <1>1, <1>3, SumAllOfRest
<1> QED
  BY <1>2, <1>4 DEF q

\* Either all the coins are taken and fall short of the target, or the first n that
\* reach it.
LEMMA TakeEnds ==
  ASSUME NEW S, NEW coins \in Seq(S), \A c \in S : c.value \in Nat, NEW target \in Int
  PROVE  \/ Take(coins, target) = coins /\ (coins = <<>> \/ SumOf(coins) < target)
         \/ \E n \in 1 .. Len(coins) :
                /\ Take(coins, target) = SubSeq(coins, 1, n)
                /\ SumOf(SubSeq(coins, 1, n)) >= target
                /\ n > 1 => SumOf(SubSeq(coins, 1, n - 1)) < target
<1> DEFINE First(n) == SubSeq(coins, 1, n)
           reach == {n \in 1 .. Len(coins) : SumOf(First(n)) >= target}
<1>0. \A n \in 0 .. Len(coins) : SumOf(First(n)) \in Nat
  <2> SUFFICES ASSUME NEW n \in 0 .. Len(coins) PROVE SumOf(First(n)) \in Nat
    OBVIOUS
  <2>1. \A i \in 1 .. n : coins[i] \in S
    BY ElementOfSeq
  <2>2. First(n) \in Seq(S)
    BY <2>1, SubSeqProperties
  <2> QED
    BY <2>2, SumOfNat
<1>1. CASE reach = {}
  <2>1. Take(coins, target) = coins
    BY <1>1, Zenon DEF Take
  <2>2. coins # <<>> => Len(coins) \in 1 .. Len(coins)
    BY EmptySeq
  <2>3. First(Len(coins)) = coins
    BY SubSeqFull
  <2>4. Len(coins) \in 0 .. Len(coins)
    OBVIOUS
  <2>5. SumOf(coins) \in Nat
    BY <1>0, <2>3, <2>4
  <2>6. coins # <<>> => ~(SumOf(coins) >= target)
    <3>1. Len(coins) \notin reach
      BY <1>1
    <3> HIDE DEF First
    <3> QED
      BY <2>2, <2>3, <3>1
  <2>7. coins # <<>> => SumOf(coins) < target
    BY <2>5, <2>6
  <2> QED
    BY <2>1, <2>7
<1>2. CASE reach # {}
  <2> DEFINE n == Min(reach)
  <2>1. Take(coins, target) = First(n)
    BY <1>2, Zenon DEF Take
  <2>2. reach \in SUBSET Nat
    OBVIOUS
  <2> HIDE DEF reach
  <2>3. n \in reach /\ \A m \in reach : n <= m
    BY <1>2, <2>2, MinOfNumbers
  <2> HIDE DEF n
  <2>4. n \in 1 .. Len(coins) /\ SumOf(First(n)) >= target
    BY <2>3 DEF reach
  <2>5. n > 1 => SumOf(First(n - 1)) < target
    <3> SUFFICES ASSUME n > 1 PROVE SumOf(First(n - 1)) < target
      OBVIOUS
    <3>1. n - 1 \in 1 .. Len(coins) /\ n - 1 \in 0 .. Len(coins)
      BY <2>4
    <3>2. n - 1 \notin reach
      BY <2>3, <2>4, <3>1
    <3>3. SumOf(First(n - 1)) \in Nat
      BY <1>0, <3>1
    <3> HIDE DEF First
    <3> QED
      BY <3>1, <3>2, <3>3 DEF reach
  <2> QED
    BY <2>1, <2>4, <2>5
<1> QED
  BY <1>1, <1>2

\* What is chosen for a payment: nothing when the coins fall short, else the first
\* coins that reach the amount and the fee, and not one more.
LEMMA ChosenCoins ==
  ASSUME NEW S, NEW coins \in Seq(S), \A c \in S : c.value \in Nat, NEW total \in Nat
  PROVE  /\ ChooseCoins(coins, total, Fee) = <<>> => SumOf(coins) < total + Fee
         /\ ChooseCoins(coins, total, Fee) # <<>> =>
               \E n \in 1 .. Len(coins) :
                  /\ ChooseCoins(coins, total, Fee) = SubSeq(coins, 1, n)
                  /\ SumOf(SubSeq(coins, 1, n)) >= total + Fee
                  /\ SumOf(SubSeq(coins, 1, n - 1)) < total + Fee
<1> DEFINE cost   == total + Fee
           first  == Take(coins, total)
           target == IF SumOf(first) < cost THEN cost ELSE total
           again  == Take(coins, target)
           used   == ChooseCoins(coins, total, Fee)
<1>1. used = IF SumOf(again) < target THEN <<>> ELSE again
  BY Zenon DEF ChooseCoins
<1>2. total \in Int /\ cost \in Nat /\ cost > 0 /\ total <= cost
  BY Constants
<1>3. first \in Seq(S) /\ SumOf(first) \in Nat
  <2> HIDE DEF first
  <2>1. first \in Seq(S)
    BY TakeType DEF first
  <2> QED
    BY <2>1, SumOfNat
<1>4. /\ target \in Int /\ target <= cost
      /\ target # cost => again = first /\ SumOf(first) >= cost
  <2> HIDE DEF cost, first
  <2> QED
    BY <1>2, <1>3 DEF first
<1> HIDE DEF target, cost
<1>5. again \in Seq(S) /\ SumOf(again) \in Nat
  <2> HIDE DEF again
  <2>1. again \in Seq(S)
    BY <1>4, TakeType DEF again
  <2> QED
    BY <2>1, SumOfNat
<1>6. SumOf(coins) \in Nat /\ SumOf(<<>>) = 0
  BY SumOfNat, SumOfNone
<1> HIDE DEF used, first
<1>7. CASE again = coins /\ (coins = <<>> \/ SumOf(coins) < target)
  <2>1. SumOf(coins) < cost
    BY <1>2, <1>4, <1>6, <1>7
  <2>2. used = <<>>
    <3> HIDE DEF again
    <3> QED
      BY <1>1, <1>5, <1>7
  <2> QED
    BY <2>1, <2>2 DEF used, cost
<1>8. ASSUME NEW n \in 1 .. Len(coins), again = SubSeq(coins, 1, n),
             SumOf(SubSeq(coins, 1, n)) >= target,
             n > 1 => SumOf(SubSeq(coins, 1, n - 1)) < target
      PROVE  /\ used # <<>> /\ used = SubSeq(coins, 1, n)
             /\ SumOf(SubSeq(coins, 1, n)) >= cost
             /\ SumOf(SubSeq(coins, 1, n - 1)) < cost
  <2> HIDE DEF again
  <2>1. SubSeq(coins, 1, n) # <<>>
    <3>1. \A i \in 1 .. n : coins[i] \in S
      BY ElementOfSeq
    <3>2. Len(SubSeq(coins, 1, n)) = n
      BY <3>1, SubSeqProperties
    <3> QED
      BY <3>2, EmptySeq
  <2>2. used = again
    BY <1>1, <1>4, <1>5, <1>8
  <2>3. SumOf(again) >= cost
    BY <1>2, <1>3, <1>4, <1>8
  <2>4. SumOf(SubSeq(coins, 1, n - 1)) \in Nat
    <3>1. n - 1 \in Nat /\ \A i \in 1 .. n - 1 : coins[i] \in S
      BY ElementOfSeq
    <3>2. SubSeq(coins, 1, n - 1) \in Seq(S)
      BY <3>1, SubSeqProperties
    <3> QED
      BY <3>2, SumOfNat
  <2>5. n = 1 => SubSeq(coins, 1, n - 1) = <<>>
    BY SubSeqEmpty
  <2>6. SumOf(SubSeq(coins, 1, n - 1)) < cost
    <3> DEFINE before == SubSeq(coins, 1, n - 1)
    <3>1. n > 1 => SumOf(before) < target
      BY <1>8
    <3>2. n = 1 \/ n > 1
      OBVIOUS
    <3> HIDE DEF before
    <3>3. n = 1 => SumOf(before) = 0
      BY <1>6, <2>5 DEF before
    <3>4. SumOf(before) \in Nat
      BY <2>4 DEF before
    <3> QED
      BY <1>2, <1>4, <3>1, <3>2, <3>3, <3>4 DEF before
  <2> QED
    BY <1>8, <2>1, <2>2, <2>3, <2>6
<1>9. \/ again = coins /\ (coins = <<>> \/ SumOf(coins) < target)
      \/ \E n \in 1 .. Len(coins) :
             /\ again = SubSeq(coins, 1, n)
             /\ SumOf(SubSeq(coins, 1, n)) >= target
             /\ n > 1 => SumOf(SubSeq(coins, 1, n - 1)) < target
  BY <1>4, TakeEnds
<1>10. CASE \E n \in 1 .. Len(coins) :
             /\ again = SubSeq(coins, 1, n)
             /\ SumOf(SubSeq(coins, 1, n)) >= target
             /\ n > 1 => SumOf(SubSeq(coins, 1, n - 1)) < target
  <2> HIDE DEF again
  <2>1. PICK n \in 1 .. Len(coins) : /\ used # <<>> /\ used = SubSeq(coins, 1, n)
                                     /\ SumOf(SubSeq(coins, 1, n)) >= cost
                                     /\ SumOf(SubSeq(coins, 1, n - 1)) < cost
    BY <1>8, <1>10
  <2> QED
    BY <2>1 DEF used, cost
<1> HIDE DEF again
<1> QED
  BY <1>7, <1>9, <1>10

-----------------------------------------------------------------------------
(* What a transaction is when it is made. *)

\* Coins listed for the addresses asked: each address is asked once, so that no coin
\* is listed twice.
Listable(coins, asked) ==
    /\ coins \in Seq(AllCoins) /\ IsInjective(coins)
    /\ \A c \in ToSet(coins) : c.address \in asked

\* What goes out is what goes in, less the fee, and what is retained a second time; and
\* the amount says what leaves.
Balanced(ins, outs, amount, twice) ==
    /\ SumFunction(outs) = ValueOf(ins) - Fee + twice
    /\ amount = - (Sent(outs) + Fee)

\* Coins worth a small amount give a balanced transaction, or one that gives more than
\* it takes.
SoundMoney(ins, outs, amount, twice) ==
    ValueOf(ins) + Room + Fee < Modulus =>
        Balanced(ins, outs, amount, twice) \/ SumFunction(outs) > ValueOf(ins)

\* A payment that costs so much is refused for want of coins only, or takes the first
\* coins that cover it.
JustEnough(cost, p, coins, ins) ==
    /\ p = "refused" => SumOf(coins) < cost
    /\ p = "made" => \E n \in 1 .. Len(coins) :
          /\ ins = ToSet(SubSeq(coins, 1, n))
          /\ SumOf(SubSeq(coins, 1, n)) >= cost
          /\ SumOf(SubSeq(coins, 1, n - 1)) < cost

\* Every coin has an owner and a value.
LEMMA CoinFacts ==
  \A c \in AllCoins : /\ c.address \in Address /\ c.value \in Nat
                      /\ c.value \in 0 .. Modulus - 1
<1> SUFFICES ASSUME NEW c \in AllCoins
             PROVE  c.address \in Address /\ c.value \in Nat /\ c.value \in 0 .. Modulus - 1
  OBVIOUS
<1>1. CASE c \in Minted
  BY <1>1, PaymentAssumption
<1>2. CASE \E x \in Tx \X Address \X (0 .. Modulus - 1) :
               c = Coin(<<x[1], x[2]>>, x[2], x[3], FALSE)
  BY <1>2 DEF Coin
<1> QED
  BY <1>1, <1>2 DEF AllCoins

\* The coins there are at first are a purse.
LEMMA MintedValue == Purse(Minted) /\ ValueOf(Minted) \in Nat
<1>1. Minted \in SUBSET AllCoins
  BY DEF AllCoins
<1>2. Purse(Minted)
  BY <1>1, CoinFacts, Constants DEF Purse
<1> QED
  BY <1>2, ValueType

\* Listed coins are worth the sum of the list.
LEMMA ListableValue ==
  ASSUME NEW coins, NEW asked, Listable(coins, asked)
  PROVE  /\ Purse(ToSet(coins)) /\ ToSet(coins) \in SUBSET AllCoins
         /\ ValueOf(ToSet(coins)) = SumOf(coins) /\ SumOf(coins) \in Nat
<1>1. coins \in Seq(AllCoins) /\ IsInjective(coins)
  BY DEF Listable
<1>2. Purse(ToSet(coins)) /\ ValueOf(ToSet(coins)) = SumOf(coins)
  BY <1>1, CoinFacts, ValueOfList
<1>3. SumOf(coins) \in Nat
  BY <1>1, CoinFacts, SumOfNat
<1>4. ToSet(coins) \in SUBSET AllCoins
  BY <1>1, ElementOfSeq DEF ToSet
<1> QED
  BY <1>2, <1>3, <1>4

\* The first coins of a list are listed too.
LEMMA ListablePrefix ==
  ASSUME NEW coins, NEW asked, Listable(coins, asked), NEW n \in 1 .. Len(coins)
  PROVE  Listable(SubSeq(coins, 1, n), asked) /\ SubSeq(coins, 1, n)[1] \in ToSet(coins)
<1> DEFINE q == SubSeq(coins, 1, n)
<1>1. /\ coins \in Seq(AllCoins) /\ Len(coins) \in Nat
      /\ \A i, j \in 1 .. Len(coins) : coins[i] = coins[j] => i = j
      /\ \A i \in 1 .. Len(coins) : coins[i] \in AllCoins /\ coins[i].address \in asked
  BY DEF Listable, IsInjective, ToSet
<1>2. q \in Seq(AllCoins)
  <2>1. \A i \in 1 .. n : coins[i] \in AllCoins
    BY <1>1
  <2> QED
    BY <2>1, SubSeqProperties
<1>3. DOMAIN q = 1 .. n /\ \A i \in 1 .. n : q[i] = coins[i]
  BY <1>1
<1> HIDE DEF q
<1>4. ToSet(q) = {coins[i] : i \in 1 .. n}
  BY <1>3 DEF ToSet
<1>5. IsInjective(q) /\ \A c \in ToSet(q) : c.address \in asked
  BY <1>1, <1>3, <1>4 DEF IsInjective
<1>6. q[1] \in ToSet(coins)
  BY <1>1, <1>3 DEF ToSet
<1> QED
  BY <1>2, <1>5, <1>6 DEF q, Listable

\* The coins used and the amounts of a payment.
Pays(coins, to, used, g) ==
    LET change == SumOf(used) - SumFunction(to) - Fee IN
    /\ used = ChooseCoins(coins, SumFunction(to), Fee) /\ used # <<>>
    /\ g = IF change > 0 THEN AppendOutput(to, used[1].address, change) ELSE to

\* A payment: its coins are chosen, what it sends and its change come to what the
\* coins leave after the fee.
LEMMA PaymentAddsUp ==
  ASSUME NEW coins, Listable(coins, Own),
         NEW to \in OutputsOf(Nat), NEW used, NEW g, Pays(coins, to, used, g)
  PROVE  /\ Listable(used, Own)
         /\ JustEnough(SumFunction(to) + Fee, "made", coins, ToSet(used))
         /\ g \in OutputsOf(Nat)
         /\ SumFunction(g) = ValueOf(ToSet(used)) - Fee
<1> DEFINE total  == SumFunction(to)
           change == SumOf(used) - total - Fee
<1>0. /\ used = ChooseCoins(coins, SumFunction(to), Fee) /\ used # <<>>
      /\ g = IF change > 0 THEN AppendOutput(to, used[1].address, change) ELSE to
  BY Zenon DEF Pays
<1> PICK D \in SUBSET Address : to \in [D -> Nat]
  BY DEF OutputsOf
<1>1. total \in Nat
  BY SumOfNaturals
<1> HIDE DEF total
<1>2. coins \in Seq(AllCoins) /\ \A c \in AllCoins : c.value \in Nat
  BY CoinFacts DEF Listable
<1>3. PICK n \in 1 .. Len(coins) :
          /\ used = SubSeq(coins, 1, n)
          /\ SumOf(SubSeq(coins, 1, n)) >= total + Fee
          /\ SumOf(SubSeq(coins, 1, n - 1)) < total + Fee
  <2>1. ChooseCoins(coins, total, Fee) # <<>>
    BY <1>0 DEF total
  <2>2. \E n \in 1 .. Len(coins) :
          /\ ChooseCoins(coins, total, Fee) = SubSeq(coins, 1, n)
          /\ SumOf(SubSeq(coins, 1, n)) >= total + Fee
          /\ SumOf(SubSeq(coins, 1, n - 1)) < total + Fee
    BY <1>1, <1>2, <2>1, ChosenCoins
  <2> QED
    BY <1>0, <2>2 DEF total
<1>4. Listable(SubSeq(coins, 1, n), Own) /\ SubSeq(coins, 1, n)[1] \in ToSet(coins)
  BY ListablePrefix
<1>5. Listable(used, Own) /\ ValueOf(ToSet(used)) = SumOf(used) /\ SumOf(used) \in Nat
  BY <1>3, <1>4, ListableValue
<1>7. JustEnough(total + Fee, "made", coins, ToSet(used))
  BY <1>3 DEF JustEnough
<1>8. change \in Nat /\ change = SumOf(used) - total - Fee
  BY <1>1, <1>3, <1>5, Constants DEF total
<1>9. used[1].address \in Address
  BY <1>3, <1>4, Constants DEF Listable
<1>10. CASE change > 0
  <2> DEFINE a == used[1].address
  <2>1. a \in Address /\ to \in [D -> Int] /\ change \in Int
    BY <1>8, <1>9
  <2>2. g = AppendOutput(to, a, change)
    BY <1>0, <1>10
  <2> HIDE DEF a
  <2>3. /\ AppendOutput(to, a, change) \in OutputsOf(Nat)
        /\ SumFunction(AppendOutput(to, a, change)) = total + change
    <3>1. to \in OutputsOf(Int) /\ to \in OutputsOf(Nat)
      BY DEF OutputsOf
    <3> QED
      BY <1>8, <2>1, <3>1, AppendedOutputs DEF total
  <2>4. SumFunction(g) = SumOf(used) - Fee
    BY <1>1, <1>5, <1>8, <2>2, <2>3, Constants
  <2> QED
    BY <1>5, <1>7, <2>2, <2>3, <2>4 DEF total
<1>11. CASE ~(change > 0)
  <2>1. g = to /\ change = 0
    BY <1>0, <1>8, <1>11
  <2>2. SumFunction(g) = SumOf(used) - Fee
    BY <1>1, <1>5, <1>8, <2>1, Constants DEF total
  <2>3. g \in OutputsOf(Nat)
    BY <2>1 DEF OutputsOf
  <2> QED
    BY <1>5, <1>7, <2>2, <2>3 DEF total
<1> QED
  BY <1>10, <1>11

\* Amounts that come to what the coins leave after the fee, and some that is retained,
\* are sound.
LEMMA SoundWhenNatural ==
  ASSUME NEW ins, Purse(ins), NEW g \in OutputsOf(Nat), NEW twice \in Nat, twice <= Room,
         SumFunction(g) = ValueOf(ins) - Fee + twice
  PROVE  SoundMoney(ins, Wrapped(g), - (Sent(g) + Fee), twice)
<1> SUFFICES ASSUME ValueOf(ins) + Room + Fee < Modulus
             PROVE  Balanced(ins, Wrapped(g), - (Sent(g) + Fee), twice)
  BY DEF SoundMoney
<1>1. ValueOf(ins) \in Nat
  BY ValueType
<1>2. SumFunction(g) < Modulus
  BY <1>1, Constants
<1>3. PICK D \in SUBSET Address : g \in [D -> Nat]
  BY DEF OutputsOf
<1>4. Wrapped(g) = g
  BY <1>2, <1>3, SmallNotWrapped
<1> QED
  BY <1>4 DEF Balanced

\* Amounts with one below zero become greater, by as much as the width allows.
LEMMA WrappedGrows ==
  ASSUME NEW D \in SUBSET Address, NEW g \in [D -> Int], \A a \in D : g[a] < Modulus,
         \A a \in D : g[a] > - Modulus
  PROVE  /\ SumFunction(Wrapped(g)) \in Int
         /\ SumFunction(Wrapped(g)) >= SumFunction(g)
         /\ \A a \in D : g[a] < 0 => SumFunction(Wrapped(g)) >= SumFunction(g) + Modulus
<1> DEFINE h == Wrapped(g)
<1>1. \A n \in Int : /\ n < 0 /\ n > - Modulus => n % Modulus = n + Modulus
                     /\ n >= 0 /\ n < Modulus => n % Modulus = n
  BY Constants
<1>2. /\ h \in [D -> Int]
      /\ \A a \in D : /\ g[a] < 0 => h[a] = g[a] + Modulus
                      /\ g[a] >= 0 => h[a] = g[a]
  BY <1>1, Constants DEF Wrapped, Uint64
<1> HIDE DEF h
<1>3. \A a \in D : g[a] <= h[a]
  BY <1>2, Constants
<1>4. IsFiniteSet(D) /\ SumFunction(g) = Sums(g)[D] /\ SumFunction(h) = Sums(h)[D]
  BY <1>2, SumOfOutputs
<1>5. \A s \in SUBSET D : Sums(g)[s] <= Sums(h)[s]
  BY <1>2, <1>3, <1>4, SumsLeq
<1>6. D \in SUBSET D /\ Sums(h)[D] \in Int
  <2>1. D \in SUBSET D
    OBVIOUS
  <2> QED
    BY <1>2, <1>4, <2>1, SumsStep
<1>7. ASSUME NEW a \in D, g[a] < 0
      PROVE  Sums(h)[D] >= Sums(g)[D] + Modulus
  <2>1. /\ Sums(h)[D] = h[a] + Sums(h)[D \ {a}]
        /\ Sums(g)[D] = g[a] + Sums(g)[D \ {a}]
    <3>1. h \in [D -> Int]
      BY <1>2
    <3>2. Sums(h)[D] = h[a] + Sums(h)[D \ {a}]
      <4>1. IsFiniteSet(D) /\ D \in SUBSET D
        BY <1>4, <1>6
      <4> QED
        BY <3>1, <4>1, SumsRemove
    <3>3. Sums(g)[D] = g[a] + Sums(g)[D \ {a}]
      BY <1>4, <1>6, SumsRemove
    <3> QED
      BY <3>2, <3>3
  <2>2. Sums(g)[D \ {a}] <= Sums(h)[D \ {a}]
    BY <1>5
  <2>3. Sums(g)[D \ {a}] \in Int /\ Sums(h)[D \ {a}] \in Int
    <3>1. D \ {a} \in SUBSET D
      OBVIOUS
    <3> QED
      BY <1>2, <1>4, <3>1, SumsStep
  <2>4. h[a] = g[a] + Modulus /\ g[a] \in Int
    BY <1>2, <1>7
  <2> QED
    BY <2>1, <2>2, <2>3, <2>4, Constants
<1>8. Sums(g)[D] <= Sums(h)[D]
  BY <1>5, <1>6
<1> QED
  BY <1>4, <1>6, <1>7, <1>8 DEF h

\* What a summary retains: some for each address, as often as the address has coins;
\* that is what is taken off, and what is retained a second time.
LEMMA RetainedFacts ==
  ASSUME NEW coins, Listable(coins, Own), Len(coins) <= MaxTxInputs,
         NEW kept, kept = Retained(coins),
         NEW held, held = RetainedBalance * Cardinality(DOMAIN kept)
  PROVE  /\ kept \in OutputsOf(Nat) /\ \A a \in DOMAIN kept : kept[a] <= Room
         /\ held \in Nat /\ held <= Room
         /\ TwiceOf(ToSet(coins)) \in Nat /\ TwiceOf(ToSet(coins)) <= Room
         /\ SumFunction(kept) = held + TwiceOf(ToSet(coins))
<1> DEFINE S == ToSet(coins)
           A == {c.address : c \in S}
           Of(a) == {c \in S : c.address = a}
           R == RetainedBalance
           twice == TwiceOf(S)
<1>1. IsFiniteSet(S) /\ Cardinality(S) \in Nat /\ Cardinality(S) <= MaxTxInputs
  <2> DEFINE I == 1 .. Len(coins)
  <2>1. coins \in Seq(AllCoins) /\ DOMAIN coins = I /\ Len(coins) \in Nat
    BY DEF Listable
  <2>2. coins \in Surjection(I, S)
    <3>1. S = {coins[i] : i \in I}
      BY <2>1 DEF ToSet
    <3>2. coins \in [I -> S] /\ \A c \in S : \E i \in I : coins[i] = c
      BY <2>1, <3>1
    <3> HIDE DEF I, S
    <3> QED
      BY <3>2 DEF Surjection
  <2>3. IsFiniteSet(I) /\ Cardinality(I) = Len(coins)
    <3> DEFINE n == Len(coins)
    <3>1. 1 \in Int /\ n \in Int /\ n \in Nat
      BY <2>1
    <3>2. IsFiniteSet(1 .. n) /\ Cardinality(1 .. n) = IF 1 > n THEN 0 ELSE n - 1 + 1
      BY <3>1, FS_Interval
    <3> QED
      BY <3>1, <3>2
  <2> HIDE DEF I, S
  <2>4. IsFiniteSet(S) /\ Cardinality(S) <= Cardinality(I)
    BY <2>2, <2>3, FS_Surjection
  <2>5. Cardinality(S) \in Nat
    BY <2>4, FS_CardinalityType
  <2> QED
    BY <2>1, <2>3, <2>4, <2>5, Constants
<1>2. /\ A \in SUBSET Address /\ IsFiniteSet(A)
      /\ Cardinality(A) \in Nat /\ Cardinality(A) <= Cardinality(S)
  <2> DEFINE f == [c \in S |-> c.address]
  <2>1. A \in SUBSET Address
    BY Constants DEF Listable
  <2>2. f \in Surjection(S, A)
    <3>1. \A c \in S : f[c] \in A
      OBVIOUS
    <3>2. f \in [S -> A] /\ \A a \in A : \E c \in S : f[c] = a
      BY <3>1
    <3> HIDE DEF f, A, S
    <3> QED
      BY <3>2 DEF Surjection
  <2> HIDE DEF f, A, S
  <2>3. IsFiniteSet(A) /\ Cardinality(A) <= Cardinality(S)
    BY <1>1, <2>2, FS_Surjection
  <2> QED
    BY <2>1, <2>3, FS_CardinalityType
<1>3. twice = R * (Cardinality(S) - Cardinality(A))
  BY Zenon DEF TwiceOf
<1>4. ASSUME NEW m \in Nat, m <= MaxTxInputs
      PROVE  R * m \in Nat /\ R * m <= Room
  <2>1. PICK d \in Nat : MaxTxInputs = m + d
    <3>1. MaxTxInputs - m \in Nat /\ MaxTxInputs = m + (MaxTxInputs - m)
      BY <1>4, Constants
    <3> QED
      BY <3>1
  <2>2. R * (m + d) = R * m + R * d /\ R * m \in Nat /\ R * d \in Nat
    BY Constants
  <2> QED
    BY <2>1, <2>2 DEF Room
<1>5. /\ twice \in Nat /\ twice <= Room
      /\ R * Cardinality(S) = R * Cardinality(A) + twice
      /\ R * Cardinality(A) \in Nat /\ R * Cardinality(A) <= Room
  <2> HIDE DEF S, A, twice
  <2>1. PICK d \in Nat : Cardinality(S) = Cardinality(A) + d /\ Cardinality(S) - Cardinality(A) = d
    <3>1. /\ Cardinality(S) - Cardinality(A) \in Nat
          /\ Cardinality(S) = Cardinality(A) + (Cardinality(S) - Cardinality(A))
      BY <1>1, <1>2
    <3> QED
      BY <3>1
  <2>2. d <= MaxTxInputs /\ Cardinality(A) <= MaxTxInputs
    BY <1>1, <1>2, <2>1, Constants
  <2>3. twice = R * d
    BY <1>3, <2>1
  <2>4. \A a, b \in Nat : R * (a + b) = R * a + R * b
    BY Constants
  <2>5. R * Cardinality(S) = R * Cardinality(A) + R * d
    BY <1>2, <2>1, <2>4
  <2> QED
    BY <1>2, <1>4, <2>2, <2>3, <2>5
<1> HIDE DEF twice
<1>6. CASE R = 0
  <2>1. kept = Nothing /\ DOMAIN kept = {}
    BY <1>6 DEF Retained, Nothing
  <2>2. kept \in [{} -> Nat] /\ kept \in [{} -> Int] /\ {} \in SUBSET Address
    BY <2>1 DEF Nothing
  <2>3. held = 0 /\ twice = 0
    <3> HIDE DEF S, A
    <3> QED
      BY <1>1, <1>2, <1>3, <1>6, <2>1, FS_EmptySet
  <2>4. SumFunction(kept) = 0
    <3>1. IsFiniteSet({}) /\ {} \in SUBSET {}
      BY FS_EmptySet
    <3>2. SumFunction(kept) = Sums(kept)[{}]
      BY <2>2, <3>1, SumOfFunction
    <3>3. Sums(kept)[{}] = 0
      BY <2>2, <3>1, SumsStep
    <3> QED
      BY <3>2, <3>3
  <2>5. kept \in OutputsOf(Nat)
    BY <2>2 DEF OutputsOf
  <2>6. held \in Nat /\ held <= Room /\ SumFunction(kept) = held + twice
    BY <2>3, <2>4, Constants
  <2>7. \A a \in DOMAIN kept : kept[a] <= Room
    BY <2>1
  <2> QED
    BY <1>5, <2>5, <2>6, <2>7 DEF twice
<1>7. CASE R # 0
  <2>1. kept = [a \in A |-> R * Cardinality(Of(a))]
    BY <1>7, Zenon DEF Retained
  <2>2. DOMAIN kept = A /\ \A a \in A : kept[a] = R * Cardinality({c \in S : c.address = a})
    BY <2>1
  <2>3. {c \in S : c.address \in A} = S
    OBVIOUS
  <2>4. ASSUME NEW a \in A
        PROVE  Cardinality(Of(a)) \in Nat /\ Cardinality(Of(a)) <= MaxTxInputs
    <3>1. Of(a) \in SUBSET S
      OBVIOUS
    <3> HIDE DEF Of, S
    <3>2. IsFiniteSet(Of(a)) /\ Cardinality(Of(a)) <= Cardinality(S)
      BY <1>1, <3>1, FS_Subset
    <3>3. Cardinality(Of(a)) \in Nat
      BY <3>2, FS_CardinalityType
    <3> QED
      BY <1>1, <3>2, <3>3, Constants
  <2>5. \A a \in A : kept[a] \in Nat /\ kept[a] <= Room
    <3> HIDE DEF A, S
    <3> QED
      BY <1>4, <2>2, <2>4
  <2> HIDE DEF A, Of, S
  <2>6. kept \in [A -> Nat] /\ kept \in [A -> Int]
    <3>1. kept = [a \in A |-> kept[a]]
      BY <2>1, Zenon
    <3> QED
      BY <2>5, <3>1
  <2>7. held = R * Cardinality(A)
    BY <2>2
  <2>8. SumFunction(kept) = Sums(kept)[A]
    BY <1>2, <2>6, SumOfFunction
  <2>9. Sums(kept)[A] = R * Cardinality(S)
    <3>1. A \in SUBSET A /\ R \in Nat
      BY Constants
    <3> HIDE DEF R
    <3>2. CountsGroups(kept, R, S, A)
      BY <2>2 DEF CountsGroups, Group
    <3>3. Sums(kept)[A] = R * Cardinality(Groups(S, A))
      BY <1>1, <1>2, <2>6, <3>1, <3>2, SumsOfGroups
    <3> QED
      BY <2>3, <3>3 DEF Groups
  <2>10. kept \in OutputsOf(Nat)
    BY <1>2, <2>6 DEF OutputsOf
  <2>11. SumFunction(kept) = held + twice /\ held \in Nat /\ held <= Room
    BY <1>5, <2>7, <2>8, <2>9
  <2> QED
    BY <1>5, <2>2, <2>5, <2>10, <2>11 DEF twice, S
<1> QED
  BY <1>6, <1>7

\* A summary is sound: it gives what its coins leave after the fee and what it retains
\* a second time; or a huge amount, when they do not cover the fee and what is retained.
LEMMA SoundSummary ==
  ASSUME NEW ins, Purse(ins), NEW kept \in OutputsOf(Nat), \A a \in DOMAIN kept : kept[a] <= Room,
         NEW held \in Nat, held <= Room,
         NEW twice \in Nat, twice <= Room, SumFunction(kept) = held + twice,
         NEW sum, sum = ValueOf(ins) - held - Fee,
         NEW g, g = AppendOutput(kept, SummaryAddress, sum)
  PROVE  SoundMoney(ins, Wrapped(g), - (Sent(g) + Fee), twice) /\ g \in OutputsOf(Int)
<1> DEFINE h == Wrapped(g)
           s == SummaryAddress
<1>1. ValueOf(ins) \in Nat /\ sum \in Int /\ s \in Address
  <2>1. ValueOf(ins) \in Nat
    BY ValueType
  <2> QED
    BY <2>1, Constants
<1>2. kept \in OutputsOf(Int)
  BY DEF OutputsOf
<1>3. /\ g \in OutputsOf(Int)
      /\ SumFunction(g) = ValueOf(ins) - Fee + twice
  <2>1. /\ AppendOutput(kept, s, sum) \in OutputsOf(Int)
        /\ SumFunction(AppendOutput(kept, s, sum)) = SumFunction(kept) + sum
    <3> HIDE DEF s
    <3> QED
      BY <1>1, <1>2, AppendedOutputs
  <2> QED
    BY <1>1, <2>1, Constants
<1>4. PICK D \in SUBSET Address : g \in [D -> Int]
  BY <1>3 DEF OutputsOf
<1>5. /\ s \in D /\ D = DOMAIN kept \cup {s}
      /\ \A a \in D : a # s => a \in DOMAIN kept /\ g[a] = kept[a]
      /\ s \in DOMAIN kept => g[s] = sum + kept[s]
      /\ s \notin DOMAIN kept => g[s] = sum
  <2>1. g = [x \in DOMAIN kept \cup {s} |->
               IF x # s THEN kept[x] ELSE sum + IF s \in DOMAIN kept THEN kept[s] ELSE 0]
    BY Zenon DEF AppendOutput
  <2>2. D = DOMAIN kept \cup {s}
    BY <1>4, <2>1
  <2> HIDE DEF s
  <2> QED
    BY <1>1, <2>1, <2>2
<1>6. \A a \in DOMAIN kept : kept[a] \in Nat /\ kept[a] <= Room
  BY DEF OutputsOf
<1> SUFFICES ASSUME ValueOf(ins) + Room + Fee < Modulus
             PROVE  Balanced(ins, h, - (Sent(g) + Fee), twice) \/ SumFunction(h) > ValueOf(ins)
  BY <1>3 DEF SoundMoney
<1> HIDE DEF s, h
<1>7. \A a \in D : g[a] < Modulus /\ g[a] > - Modulus /\ (g[a] < 0 => a = s)
  <2> SUFFICES ASSUME NEW a \in D
               PROVE  g[a] < Modulus /\ g[a] > - Modulus /\ (g[a] < 0 => a = s)
    OBVIOUS
  <2>1. CASE a # s
    <3>1. g[a] = kept[a] /\ kept[a] \in Nat /\ kept[a] <= Room
      BY <1>5, <1>6, <2>1
    <3> QED
      BY <1>1, <3>1, Constants
  <2>2. CASE a = s /\ s \in DOMAIN kept
    <3>1. g[a] = sum + kept[s] /\ kept[s] \in Nat /\ kept[s] <= Room
      BY <1>5, <1>6, <2>2
    <3> QED
      BY <1>1, <2>2, <3>1, Constants
  <2>3. CASE a = s /\ s \notin DOMAIN kept
    <3>1. g[a] = sum
      BY <1>5, <2>3
    <3> QED
      BY <1>1, <2>3, <3>1, Constants
  <2> QED
    BY <2>1, <2>2, <2>3
<1>8. /\ SumFunction(h) \in Int /\ SumFunction(h) >= SumFunction(g)
      /\ \A a \in D : g[a] < 0 => SumFunction(h) >= SumFunction(g) + Modulus
  BY <1>4, <1>7, WrappedGrows DEF h
<1>9. CASE \E a \in D : g[a] < 0
  BY <1>1, <1>3, <1>8, <1>9, Constants
<1>10. CASE ~ \E a \in D : g[a] < 0
  <2>1. \A a \in D : g[a] \in Nat
    BY <1>4, <1>10
  <2>2. g \in OutputsOf(Nat)
    <3>1. g \in [D -> Nat]
      BY <1>4, <2>1
    <3> QED
      BY <3>1 DEF OutputsOf
  <2>3. SoundMoney(ins, Wrapped(g), - (Sent(g) + Fee), twice)
    BY <1>3, <2>2, SoundWhenNatural
  <2> QED
    BY <2>3 DEF SoundMoney, h
<1> QED
  BY <1>9, <1>10

-----------------------------------------------------------------------------
(* The making of a transaction. *)

\* What is known of a transaction of which the making is at p.
ResultOf(o, p, coins, ins, outs, amount) ==
    /\ p = "made" => /\ Purse(ins) /\ \A c \in ins : c.address \in Own
                     /\ SoundMoney(ins, outs, amount,
                                   IF o.kind = "payment" THEN 0 ELSE TwiceOf(ins))
    /\ o.kind = "payment" => JustEnough(SumFunction(o.to) + Fee, p, coins, ins)

\* The types of what the making changes.
Drafts ==
    /\ pc \in [Tx -> {"new", "listing", "made", "refused"}]
    /\ inputs \in [Tx -> SUBSET AllCoins]
    /\ outputs \in [Tx -> OutputsOf(0 .. Modulus - 1)]
    /\ txAmount \in [Tx -> Int]
    /\ hex \in [Tx -> {"none", "bare", "signed", "spoilt"}]

\* Nothing changes of the other transactions.
OnlyDraft(t) ==
    \A u \in Tx \ {t} : /\ pc'[u] = pc[u] /\ inputs'[u] = inputs[u]
                        /\ outputs'[u] = outputs[u] /\ txAmount'[u] = txAmount[u]

\* The amounts of a transaction are natural.
LEMMA StoredOutputs ==
  ASSUME Drafts, NEW t \in Tx
  PROVE  outputs[t] \in OutputsOf(Nat)
<1>1. PICK D \in SUBSET Address : outputs[t] \in [D -> 0 .. Modulus - 1]
  BY DEF Drafts, OutputsOf
<1>2. outputs[t] \in [D -> Nat]
  BY <1>1, Constants
<1> QED
  BY <1>2 DEF OutputsOf

\* A payment is asked to pay natural amounts to known addresses.
LEMMA OrdersPay ==
  ASSUME order \in [Tx -> Orders], NEW t \in Tx, IsPayment(t)
  PROVE  order[t].to \in OutputsOf(Nat)
<1> DEFINE to == order[t].to
<1>1. DOMAIN to \in SUBSET Address /\ to \in [DOMAIN to -> Nat]
  BY PaymentAssumption DEF IsPayment
<1> HIDE DEF to
<1>2. to \in OutputsOf(Nat)
  BY <1>1 DEF OutputsOf
<1> QED
  BY <1>2 DEF to

\* A transaction refused.
LEMMA RefusedDraft ==
  ASSUME Drafts, NEW t \in Tx, Refuse(t)
  PROVE  Drafts' /\ OnlyDraft(t) /\ pc'[t] = "refused"
BY DEF Drafts, Refuse, OnlyDraft

\* A transaction made of these coins and amounts.
LEMMA SimpleDraft ==
  ASSUME Drafts, NEW t \in Tx, NEW used, Listable(used, Own), used # <<>>,
         NEW g \in OutputsOf(Int), CreateSimple(t, used, g)
  PROVE  /\ Drafts' /\ OnlyDraft(t) /\ pc'[t] = "made"
         /\ inputs'[t] = ToSet(used)
         /\ outputs'[t] = Wrapped(g)
         /\ txAmount'[t] = - (Sent(g) + Fee)
<1>1. ToSet(used) \in SUBSET AllCoins
  BY ListableValue
<1>2. PICK D \in SUBSET Address : g \in [D -> Int]
  BY DEF OutputsOf
<1>3. Wrapped(g) \in OutputsOf(0 .. Modulus - 1)
  <2>1. Wrapped(g) \in [D -> 0 .. Modulus - 1]
    BY <1>2, WrappedType
  <2> QED
    BY <2>1 DEF OutputsOf
<1>4. - (Sent(g) + Fee) \in Int
  <2>1. Sent(g) \in Int
    BY <1>2, SumOfOutputs
  <2> QED
    BY <2>1, Constants
<1>5. /\ pc' = [pc EXCEPT ![t] = "made"]
      /\ inputs' = [inputs EXCEPT ![t] = ToSet(used)]
      /\ outputs' = [outputs EXCEPT ![t] = Wrapped(g)]
      /\ txAmount' = [txAmount EXCEPT ![t] = - (Sent(g) + Fee)]
      /\ hex' = [hex EXCEPT ![t] = "bare"]
  BY Zenon DEF CreateSimple, Wrapped
<1> QED
  BY <1>1, <1>3, <1>4, <1>5 DEF Drafts, OnlyDraft

\* A payment is made, or refused for want of coins.
LEMMA PaymentDraft ==
  ASSUME Drafts, order \in [Tx -> Orders], NEW t \in Tx, IsPayment(t),
         NEW coins, Listable(coins, Own), CreatePayment(t, coins)
  PROVE  /\ Drafts' /\ OnlyDraft(t) /\ pc'[t] # "new"
         /\ ResultOf(order[t], pc'[t], coins, inputs'[t], outputs'[t], txAmount'[t])
<1> DEFINE to     == order[t].to
           total  == SumFunction(to)
           used   == ChooseCoins(coins, total, Fee)
           change == SumOf(used) - total - Fee
           g      == IF change > 0 THEN AppendOutput(to, used[1].address, change) ELSE to
<1>1. to \in OutputsOf(Nat)
  BY OrdersPay
<1>2. IF used = <<>> THEN Refuse(t) ELSE CreateSimple(t, used, g)
  BY Zenon DEF CreatePayment, EstimateFee
<1>3. CASE used = <<>>
  <2> HIDE DEF used
  <2>1. Drafts' /\ OnlyDraft(t) /\ pc'[t] = "refused"
    BY <1>2, <1>3, RefusedDraft
  <2>2. SumOf(coins) < total + Fee
    <3>1. total \in Nat
      BY <1>1, SumOfNaturals
    <3> HIDE DEF total
    <3>2. coins \in Seq(AllCoins) /\ \A c \in AllCoins : c.value \in Nat
      BY CoinFacts DEF Listable
    <3>3. ChooseCoins(coins, total, Fee) = <<>>
      BY <1>3 DEF used
    <3> QED
      BY <3>1, <3>2, <3>3, ChosenCoins
  <2> QED
    BY <2>1, <2>2 DEF ResultOf, JustEnough
<1>4. CASE used # <<>>
  <2>1. CreateSimple(t, used, g)
    BY <1>2, <1>4, Zenon
  <2> HIDE DEF g, change, used, to
  <2>3. /\ Listable(used, Own)
        /\ JustEnough(total + Fee, "made", coins, ToSet(used))
        /\ g \in OutputsOf(Nat)
        /\ SumFunction(g) = ValueOf(ToSet(used)) - Fee
    <3>1. Pays(coins, to, used, g)
      BY <1>4, Zenon DEF Pays, used, change, g
    <3> QED
      BY <1>1, <3>1, PaymentAddsUp
  <2>4. g \in OutputsOf(Int)
    BY <2>3 DEF OutputsOf
  <2>5. /\ Drafts' /\ OnlyDraft(t) /\ pc'[t] = "made"
        /\ inputs'[t] = ToSet(used)
        /\ outputs'[t] = Wrapped(g)
        /\ txAmount'[t] = - (Sent(g) + Fee)
    BY <1>4, <2>1, <2>3, <2>4, SimpleDraft
  <2>6. Purse(ToSet(used)) /\ \A c \in ToSet(used) : c.address \in Own
    BY <2>3, ListableValue DEF Listable
  <2>7. SoundMoney(ToSet(used), Wrapped(g), - (Sent(g) + Fee), 0)
    <3>1. SumFunction(g) = ValueOf(ToSet(used)) - Fee + 0 /\ 0 <= Room
      BY <2>3, <2>6, ValueType, Constants
    <3> QED
      BY <2>3, <2>6, <3>1, SoundWhenNatural
  <2> QED
    BY <2>3, <2>5, <2>6, <2>7 DEF ResultOf, to, IsPayment
<1> QED
  BY <1>3, <1>4

\* A summary is made, or refused when no coin was listed.
LEMMA SummaryDraft ==
  ASSUME Drafts, NEW t \in Tx, ~IsPayment(t),
         NEW coins, Listable(coins, Own), Len(coins) <= MaxTxInputs, CreateSummary(t, coins)
  PROVE  /\ Drafts' /\ OnlyDraft(t) /\ pc'[t] # "new"
         /\ ResultOf(order[t], pc'[t], coins, inputs'[t], outputs'[t], txAmount'[t])
<1> DEFINE kept == Retained(coins)
           held == RetainedBalance * Cardinality(DOMAIN kept)
           sum  == SumOf(coins) - held - Fee
           g    == AppendOutput(kept, SummaryAddress, sum)
           twice == TwiceOf(ToSet(coins))
<1>1. CreateSimple(t, coins, g)
  BY Zenon DEF CreateSummary, EstimateFee
<1>2. CASE coins = <<>>
  <2>1. Refuse(t)
    BY <1>1, <1>2, Zenon DEF CreateSimple
  <2>2. Drafts' /\ OnlyDraft(t) /\ pc'[t] = "refused"
    BY <2>1, RefusedDraft
  <2> QED
    BY <2>2 DEF ResultOf, IsPayment
<1>3. CASE coins # <<>>
  <2>1. /\ kept \in OutputsOf(Nat) /\ \A a \in DOMAIN kept : kept[a] <= Room
        /\ held \in Nat /\ held <= Room
        /\ twice \in Nat /\ twice <= Room /\ SumFunction(kept) = held + twice
    BY RetainedFacts
  <2>2. /\ Purse(ToSet(coins)) /\ \A c \in ToSet(coins) : c.address \in Own
        /\ ValueOf(ToSet(coins)) = SumOf(coins)
    BY ListableValue DEF Listable
  <2>3. sum = ValueOf(ToSet(coins)) - held - Fee
    BY <2>2
  <2> HIDE DEF sum, held, kept, twice
  <2>5. SoundMoney(ToSet(coins), Wrapped(g), - (Sent(g) + Fee), twice) /\ g \in OutputsOf(Int)
    BY <2>1, <2>2, <2>3, SoundSummary
  <2> HIDE DEF g
  <2>6. /\ Drafts' /\ OnlyDraft(t) /\ pc'[t] = "made"
        /\ inputs'[t] = ToSet(coins)
        /\ outputs'[t] = Wrapped(g)
        /\ txAmount'[t] = - (Sent(g) + Fee)
    <3>1. CreateSimple(t, coins, g)
      BY <1>1 DEF g, sum, held, kept
    <3> QED
      BY <1>3, <2>5, <3>1, SimpleDraft
  <2> QED
    BY <2>2, <2>5, <2>6 DEF ResultOf, IsPayment, twice
<1> QED
  BY <1>2, <1>3

-----------------------------------------------------------------------------
(* The inductive invariant. *)

Types ==
    /\ unspent \in SUBSET AllCoins /\ IsFiniteSet(unspent)
    /\ accepted \in SUBSET Tx /\ confirmed \in SUBSET Tx /\ accepted \cap confirmed = {}
    /\ failures \in 0 .. MaxFailures
    /\ order \in [Tx -> Orders]
    /\ todo \in [Tx -> SUBSET Own] /\ listed \in [Tx -> Seq(AllCoins)]
    /\ signed \in [Tx -> BOOLEAN] /\ completed \in [Tx -> BOOLEAN]
    /\ submitted \in [Tx -> BOOLEAN]

\* The coins listed belong to addresses asked already; a summary never has the greatest
\* number of inputs.
Lists == \A t \in Tx : /\ Listable(listed[t], Own \ todo[t])
                       /\ pc[t] = "new" => listed[t] = <<>>
                       /\ IsPayment(t) \/ Len(listed[t]) < MaxTxInputs

\* What is made is sound, and what is refused is refused for want of coins.
Results == \A t \in Tx :
    ResultOf(order[t], pc[t], listed[t], inputs[t], outputs[t], txAmount[t])

\* What is completed or taken by the node has been made.
Lives == \A t \in Tx : completed[t] \/ t \in accepted \cup confirmed => Made(t)

\* The transactions of the pool spend coins that are there, each its own; a coin of a
\* transaction is there when it is confirmed; and nothing that is taken makes money.
Ledger ==
    /\ \A c \in unspent, t \in Tx, a \in Address : c.id = <<t, a>> => t \in confirmed
    /\ \A t \in accepted : inputs[t] \subseteq unspent
    /\ \A t \in accepted, u \in accepted : t # u => inputs[t] \cap inputs[u] = {}
    /\ \A t \in accepted \cup confirmed : /\ ValueOf(inputs[t]) <= ValueOf(Minted)
                                          /\ SumFunction(outputs[t]) <= ValueOf(inputs[t])
    /\ ValueOf(unspent) <= ValueOf(Minted)

Inv == Types /\ Drafts /\ Lists /\ Results /\ Lives /\ Ledger

\* No coins listed.
LEMMA NoneListable ==
  ASSUME NEW asked
  PROVE  Listable(<<>>, asked)
<1>1. <<>> \in Seq(AllCoins) /\ DOMAIN <<>> = {}
  OBVIOUS
<1>2. IsInjective(<<>>) /\ ToSet(<<>>) = {}
  BY <1>1 DEF IsInjective, ToSet
<1> QED
  BY <1>1, <1>2 DEF Listable

\* What is listed for some addresses is listed for more.
LEMMA ListableMore ==
  ASSUME NEW coins, NEW asked, NEW more, Listable(coins, asked), asked \subseteq more
  PROVE  Listable(coins, more)
BY DEF Listable

\* The coins of one more address, after those of others.
LEMMA ListableJoined ==
  ASSUME NEW p, NEW asked, Listable(p, asked), NEW a, a \notin asked,
         NEW q, Listable(q, {a})
  PROVE  Listable(p \o q, asked \cup {a})
<1>1. /\ p \in Seq(AllCoins) /\ Len(p) \in Nat
      /\ \A i, j \in 1 .. Len(p) : p[i] = p[j] => i = j
      /\ \A i \in 1 .. Len(p) : p[i].address \in asked
  BY DEF Listable, IsInjective, ToSet
<1>2. /\ q \in Seq(AllCoins) /\ Len(q) \in Nat
      /\ \A i, j \in 1 .. Len(q) : q[i] = q[j] => i = j
      /\ \A i \in 1 .. Len(q) : q[i].address = a
  BY DEF Listable, IsInjective, ToSet
<1> DEFINE r == p \o q
<1>3. /\ r \in Seq(AllCoins) /\ Len(r) = Len(p) + Len(q) /\ DOMAIN r = 1 .. Len(r)
      /\ \A i \in 1 .. Len(p) : r[i] = p[i]
      /\ \A i \in 1 .. Len(r) : i > Len(p) => i - Len(p) \in 1 .. Len(q) /\ r[i] = q[i - Len(p)]
  BY <1>1, <1>2
<1> HIDE DEF r
<1>4. \A i \in 1 .. Len(r) : /\ i \in 1 .. Len(p) => r[i].address \in asked
                             /\ i \notin 1 .. Len(p) => r[i].address = a
  <2> SUFFICES ASSUME NEW i \in 1 .. Len(r)
               PROVE  /\ i \in 1 .. Len(p) => r[i].address \in asked
                      /\ i \notin 1 .. Len(p) => r[i].address = a
    OBVIOUS
  <2>1. CASE i \in 1 .. Len(p)
    BY <1>1, <1>3, <2>1
  <2>2. CASE i \notin 1 .. Len(p)
    <3>1. i > Len(p)
      BY <1>1, <2>2
    <3>2. PICK j \in 1 .. Len(q) : r[i] = q[j]
      BY <1>3, <3>1
    <3> QED
      BY <1>2, <2>2, <3>2
  <2> QED
    BY <2>1, <2>2
<1>5. ASSUME NEW i \in 1 .. Len(r), NEW j \in 1 .. Len(r), r[i] = r[j]
      PROVE  i = j
  <2>1. i \in 1 .. Len(p) <=> j \in 1 .. Len(p)
    BY <1>4, <1>5
  <2>2. CASE i \in 1 .. Len(p)
    BY <1>1, <1>3, <1>5, <2>1, <2>2
  <2>3. CASE i \notin 1 .. Len(p)
    <3>1. i > Len(p) /\ j > Len(p)
      BY <1>1, <2>1, <2>3
    <3>2. /\ i - Len(p) \in 1 .. Len(q) /\ r[i] = q[i - Len(p)]
          /\ j - Len(p) \in 1 .. Len(q) /\ r[j] = q[j - Len(p)]
      BY <1>3, <3>1
    <3>3. i - Len(p) = j - Len(p)
      BY <1>2, <1>5, <3>2
    <3> QED
      BY <1>1, <3>3
  <2> QED
    BY <2>2, <2>3
<1>6. IsInjective(r)
  BY <1>3, <1>5 DEF IsInjective
<1>7. \A c \in ToSet(r) : c.address \in asked \cup {a}
  BY <1>3, <1>4 DEF ToSet
<1> QED
  BY <1>3, <1>6, <1>7 DEF Listable, r

\* What the node lists for an address are coins of that address.
LEMMA NodeLists ==
  ASSUME Types, NEW a, NEW coins \in MayList(a)
  PROVE  Listable(coins, {a})
<1> DEFINE free == {c \in unspent : c.address = a /\ ~c.locked}
<1>1. ASSUME NEW S \in SUBSET free, coins \in SetToSeqs(S)
      PROVE  Listable(coins, {a})
  <2>1. IsFiniteSet(S)
    BY FS_Subset DEF Types
  <2>2. PICK n \in Nat : n = Cardinality(S)
    BY <2>1, FS_CardinalityType
  <2>3. /\ coins \in [1 .. n -> S]
        /\ \A i, j \in 1 .. n : i # j => coins[i] # coins[j]
    BY <1>1, <2>2, Zenon DEF SetToSeqs
  <2>4. S \in SUBSET AllCoins /\ \A c \in S : c.address = a
    BY DEF Types
  <2> HIDE DEF free
  <2>5. coins \in Seq(AllCoins)
    BY <2>3, <2>4
  <2>6. IsInjective(coins)
    BY <2>3 DEF IsInjective
  <2>7. \A c \in ToSet(coins) : c.address \in {a}
    BY <2>3, <2>4 DEF ToSet
  <2> QED
    BY <2>5, <2>6, <2>7 DEF Listable
<1>2. coins \in SetToSeqs(free) \/ coins \in SetToSeqs(free \ InPool)
  BY Zenon DEF MayList
<1>3. free \in SUBSET free /\ free \ InPool \in SUBSET free
  OBVIOUS
<1> QED
  BY <1>1, <1>2, <1>3

\* The initial states.
LEMMA InitInv == Init => Inv
<1> SUFFICES ASSUME Init PROVE Inv
  OBVIOUS
<1>1. Types
  <2>1. Minted \in SUBSET AllCoins
    BY DEF AllCoins
  <2>2. failures \in 0 .. MaxFailures
    BY PaymentAssumption DEF Init
  <2> QED
    BY <2>1, <2>2, Constants DEF Types, Init
<1>2. Drafts
  <2>1. Nothing \in OutputsOf(0 .. Modulus - 1)
    <3>1. Nothing \in [{} -> 0 .. Modulus - 1] /\ {} \in SUBSET Address
      BY DEF Nothing
    <3> QED
      BY <3>1 DEF OutputsOf
  <2> QED
    BY <2>1 DEF Init, Drafts
<1>3. Lists
  <2>1. \A t \in Tx : listed[t] = <<>>
    BY DEF Init
  <2>2. Len(<<>>) < MaxTxInputs
    BY Constants
  <2> QED
    BY <2>1, <2>2, NoneListable DEF Lists
<1>4. Results
  <2>1. \A t \in Tx : pc[t] = "new"
    BY DEF Init
  <2> QED
    BY <2>1 DEF Results, ResultOf, JustEnough
<1>5. Lives
  BY DEF Init, Lives
<1>6. Ledger
  <2>2. ValueOf(Minted) \in Nat
    BY MintedValue
  <2>3. \A c \in Minted, t \in Tx, a \in Address : c.id # <<t, a>>
    <3>1. \A c \in Minted : c.id \notin Tx \X Address
      BY PaymentAssumption
    <3>2. \A t \in Tx, a \in Address : <<t, a>> \in Tx \X Address
      OBVIOUS
    <3> QED
      BY <3>1, <3>2, Zenon
  <2> QED
    BY <2>2, <2>3 DEF Init, Ledger
<1> QED
  BY <1>1, <1>2, <1>3, <1>4, <1>5, <1>6 DEF Inv

\* The making of one transaction does not touch those that are made.
LEMMA MakingKeeps ==
  ASSUME Inv, NEW t \in Tx, ~Made(t), UNCHANGED <<node, order, completed>>, OnlyDraft(t)
  PROVE  Lives' /\ Ledger'
<1>1. /\ t \notin accepted \cup confirmed /\ ~completed[t]
      /\ accepted \in SUBSET Tx /\ confirmed \in SUBSET Tx
  BY DEF Inv, Lives, Types
<1>2. /\ unspent' = unspent /\ accepted' = accepted /\ confirmed' = confirmed
      /\ completed' = completed
  BY DEF node
<1>3. \A u \in Tx : u # t =>
          inputs'[u] = inputs[u] /\ outputs'[u] = outputs[u] /\ pc'[u] = pc[u]
  BY DEF OnlyDraft
<1>4. Lives'
  BY <1>1, <1>2, <1>3 DEF Inv, Lives, Made
<1>5. \A u \in accepted \cup confirmed : inputs'[u] = inputs[u] /\ outputs'[u] = outputs[u]
  BY <1>1, <1>3
<1>6. Ledger'
  BY <1>2, <1>5 DEF Inv, Ledger
<1> QED
  BY <1>4, <1>6

\* The addresses to ask are noted.
LEMMA BeginKeeps ==
  ASSUME Inv, NEW t \in Tx, Begin(t)
  PROVE  Inv'
<1>1. /\ pc[t] = "new" /\ listed[t] = <<>> /\ ~Made(t)
      /\ Types /\ Drafts
  BY DEF Inv, Lists, Begin, Made
<1>2. PICK asked \in SUBSET Own : AskFor(t, asked) /\ (IsPayment(t) => asked = Own)
  <2>1. Rich \in SUBSET Own
    BY DEF Rich
  <2>2. CASE IsPayment(t)
    BY <2>2 DEF Begin
  <2>3. CASE ~IsPayment(t)
    BY <2>1, <2>3, Zenon DEF Begin
  <2> QED
    BY <2>2, <2>3
<1>3. /\ UNCHANGED <<node, order, completed>>
      /\ UNCHANGED <<listed, inputs, outputs, txAmount, signed, hex, submitted>>
      /\ failures' \in 0 .. MaxFailures
  <2>1. failures' \in 0 .. MaxFailures
    BY <1>1, Constants, PaymentAssumption DEF Begin, NoFailure, Failure, Types
  <2> QED
    BY <2>1 DEF Begin, life
<1>4. /\ todo' = [todo EXCEPT ![t] = asked]
      /\ pc' = [pc EXCEPT ![t] = IF asked = {} THEN "refused" ELSE "listing"]
  BY <1>2 DEF AskFor
<1>5. Types' /\ Drafts'
  BY <1>1, <1>3, <1>4 DEF Types, Drafts, node
<1>6. OnlyDraft(t)
  BY <1>1, <1>3, <1>4 DEF OnlyDraft, Drafts
<1>7. Lives' /\ Ledger'
  BY <1>1, <1>3, <1>6, MakingKeeps
<1>8. pc'[t] = (IF asked = {} THEN "refused" ELSE "listing")
  BY <1>1, <1>4 DEF Drafts
<1>9. Lists'
  <2> SUFFICES ASSUME NEW u \in Tx
               PROVE  /\ Listable(listed'[u], Own \ todo'[u])
                      /\ pc'[u] = "new" => listed'[u] = <<>>
                      /\ order'[u].kind = "payment" \/ Len(listed'[u]) < MaxTxInputs
    BY DEF Lists, IsPayment
  <2>1. CASE u = t
    BY <1>1, <1>3, <1>8, <2>1, NoneListable, Constants
  <2>2. CASE u # t
    BY <1>1, <1>3, <1>4, <1>6, <2>2 DEF Inv, Lists, OnlyDraft, Types, IsPayment
  <2> QED
    BY <2>1, <2>2
<1>10. Results'
  <2> SUFFICES ASSUME NEW u \in Tx
               PROVE  ResultOf(order'[u], pc'[u], listed'[u], inputs'[u], outputs'[u], txAmount'[u])
    BY DEF Results
  <2>1. CASE u = t
    <3>1. IsPayment(t) /\ asked = {} => SumOf(listed'[t]) < SumFunction(order[t].to) + Fee
      <4> SUFFICES ASSUME IsPayment(t) PROVE 0 < SumFunction(order[t].to) + Fee
        BY <1>1, <1>3, SumOfNone
      <4>1. order[t].to \in OutputsOf(Nat)
        BY <1>1, OrdersPay DEF Types
      <4>2. SumFunction(order[t].to) \in Nat
        BY <4>1, SumOfNaturals
      <4> QED
        BY <4>2, Constants
    <3> QED
      BY <1>3, <1>8, <2>1, <3>1 DEF ResultOf, JustEnough, IsPayment
  <2>2. CASE u # t
    BY <1>3, <1>6, <2>2 DEF Inv, Results, OnlyDraft
  <2> QED
    BY <2>1, <2>2
<1> QED
  BY <1>5, <1>7, <1>9, <1>10 DEF Inv

\* One more address has answered, or failed to, with coins in all: the listing goes
\* on or the transaction is made or refused.
LEMMA ListingKeeps ==
  ASSUME Inv, NEW t \in Tx, pc[t] = "listing", NEW a \in todo[t],
         NEW coins, Listable(coins, Own \ (todo[t] \ {a})),
         IsPayment(t) \/ Len(coins) < MaxTxInputs,
         todo' = [todo EXCEPT ![t] = @ \ {a}],
         listed' = [listed EXCEPT ![t] = coins],
         \/ todo[t] # {a} /\ UNCHANGED <<pc, inputs, outputs, txAmount, hex>>
         \/ todo[t] = {a} /\ IsPayment(t) /\ CreatePayment(t, coins)
         \/ todo[t] = {a} /\ ~IsPayment(t) /\ CreateSummary(t, coins)
         \/ todo[t] = {a} /\ ~IsPayment(t) /\ Refuse(t),
         failures' \in 0 .. MaxFailures,
         UNCHANGED <<node, order, signed, completed, submitted>>
  PROVE  Inv'
<1>1. /\ Types /\ Drafts /\ Lists /\ Results /\ ~Made(t)
      /\ UNCHANGED <<node, order, completed>>
  BY DEF Inv, Made
<1>2. /\ Drafts' /\ OnlyDraft(t) /\ pc'[t] # "new"
      /\ ResultOf(order[t], pc'[t], coins, inputs'[t], outputs'[t], txAmount'[t])
  <2>1. CASE todo[t] # {a} /\ UNCHANGED <<pc, inputs, outputs, txAmount, hex>>
    <3>1. Drafts' /\ OnlyDraft(t) /\ pc'[t] = "listing"
      BY <1>1, <2>1 DEF Drafts, OnlyDraft
    <3> QED
      BY <3>1 DEF ResultOf, JustEnough
  <2>2. CASE todo[t] = {a}
    <3>1. Listable(coins, Own)
      BY ListableMore
    <3>2. order \in [Tx -> Orders]
      BY <1>1 DEF Types
    <3>3. CASE IsPayment(t) /\ CreatePayment(t, coins)
      BY <1>1, <3>1, <3>2, <3>3, PaymentDraft
    <3>4. CASE ~IsPayment(t) /\ CreateSummary(t, coins)
      <4>1. Len(coins) <= MaxTxInputs
        BY <3>1, <3>4, Constants DEF Listable
      <4> QED
        BY <1>1, <3>1, <3>4, <4>1, SummaryDraft
    <3>5. CASE ~IsPayment(t) /\ Refuse(t)
      <4>1. Drafts' /\ OnlyDraft(t) /\ pc'[t] = "refused"
        BY <1>1, <3>5, RefusedDraft
      <4> QED
        BY <3>5, <4>1 DEF ResultOf, IsPayment
    <3> QED
      BY <2>2, <3>3, <3>4, <3>5
  <2> QED
    BY <2>1, <2>2
<1>3. Lives' /\ Ledger'
  BY <1>1, <1>2, MakingKeeps
<1>4. Types'
  BY <1>1 DEF Types, node, Listable
<1>5. /\ listed'[t] = coins /\ \A u \in Tx \ {t} : listed'[u] = listed[u]
      /\ todo'[t] = todo[t] \ {a} /\ \A u \in Tx \ {t} : todo'[u] = todo[u]
  BY <1>1 DEF Types
<1>6. Lists'
  <2> SUFFICES ASSUME NEW u \in Tx
               PROVE  /\ Listable(listed'[u], Own \ todo'[u])
                      /\ pc'[u] = "new" => listed'[u] = <<>>
                      /\ order'[u].kind = "payment" \/ Len(listed'[u]) < MaxTxInputs
    BY DEF Lists, IsPayment
  <2>1. CASE u = t
    BY <1>1, <1>2, <1>5, <2>1 DEF IsPayment
  <2>2. CASE u # t
    BY <1>1, <1>2, <1>5, <2>2 DEF Lists, OnlyDraft, IsPayment
  <2> QED
    BY <2>1, <2>2
<1>7. Results'
  <2> SUFFICES ASSUME NEW u \in Tx
               PROVE  ResultOf(order'[u], pc'[u], listed'[u], inputs'[u], outputs'[u], txAmount'[u])
    BY DEF Results
  <2>1. CASE u = t
    BY <1>1, <1>2, <1>5, <2>1
  <2>2. CASE u # t
    BY <1>1, <1>2, <1>5, <2>2 DEF Results, OnlyDraft
  <2> QED
    BY <2>1, <2>2
<1> QED
  BY <1>2, <1>3, <1>4, <1>6, <1>7 DEF Inv

\* The coins that a summary or a payment has when one more address has answered.
LEMMA GatheredCoins ==
  ASSUME Inv, NEW t \in Tx, NEW a \in todo[t], NEW more \in MayList(a)
  PROVE  /\ Listable(Gather(t, more), Own \ (todo[t] \ {a}))
         /\ IsPayment(t) \/ Len(Gather(t, more)) < MaxTxInputs
<1>1. Listable(listed[t], Own \ todo[t]) /\ todo[t] \in SUBSET Own /\ Types
  BY DEF Inv, Lists, Types
<1>2. Listable(more, {a})
  BY <1>1, NodeLists
<1> DEFINE before == Own \ todo[t]
           after  == Own \ (todo[t] \ {a})
<1>3. a \notin before /\ before \cup {a} = after /\ before \subseteq after
  BY <1>1
<1> HIDE DEF before, after
<1>4. Listable(listed[t] \o more, before \cup {a})
  BY <1>1, <1>2, <1>3, ListableJoined DEF before
<1>5. Listable(listed[t], after)
  BY <1>1, <1>3, ListableMore DEF before
<1>6. /\ IsPayment(t) \/ Len(listed[t]) < MaxTxInputs
      /\ Len(listed[t] \o more) = Len(listed[t]) + Len(more)
  BY <1>1, <1>2 DEF Inv, Lists, Listable
<1> QED
  BY <1>3, <1>4, <1>5, <1>6 DEF Gather, after

\* One more address answers.
LEMMA ListUnspentKeeps ==
  ASSUME Inv, NEW t \in Tx, ListUnspent(t)
  PROVE  Inv'
<1> DEFINE Answered(a, more) ==
          /\ todo' = [todo EXCEPT ![t] = @ \ {a}]
          /\ listed' = [listed EXCEPT ![t] = Gather(t, more)]
          /\ \/ todo[t] # {a} /\ UNCHANGED <<pc, inputs, outputs, txAmount, hex>>
             \/ todo[t] = {a} /\ IsPayment(t) /\ CreatePayment(t, Gather(t, more))
             \/ todo[t] = {a} /\ ~IsPayment(t) /\ CreateSummary(t, Gather(t, more))
<1>0. PICK a \in todo[t] : \E more \in MayList(a) : Answered(a, more)
  BY Zenon DEF ListUnspent
<1>1. PICK more \in MayList(a) : Answered(a, more)
  BY <1>0
<1>2. /\ Listable(Gather(t, more), Own \ (todo[t] \ {a}))
      /\ IsPayment(t) \/ Len(Gather(t, more)) < MaxTxInputs
  BY GatheredCoins
<1>3. /\ pc[t] = "listing" /\ failures' \in 0 .. MaxFailures
      /\ UNCHANGED <<node, order, signed, completed, submitted>>
  BY DEF ListUnspent, NoFailure, Inv, Types
<1> QED
  BY <1>1, <1>2, <1>3, ListingKeeps

\* An address cannot be asked.
LEMMA ListFailsKeeps ==
  ASSUME Inv, NEW t \in Tx, ListFails(t)
  PROVE  Inv'
<1>1. PICK a \in todo[t] :
          /\ todo' = [todo EXCEPT ![t] = @ \ {a}]
          /\ \/ todo[t] # {a} /\ UNCHANGED <<pc, inputs, outputs, txAmount, hex>>
             \/ todo[t] = {a} /\ IsPayment(t) /\ CreatePayment(t, listed[t])
             \/ todo[t] = {a} /\ ~IsPayment(t) /\ Refuse(t)
  BY Zenon DEF ListFails
<1>2. Listable(listed[t], Own \ (todo[t] \ {a}))
  <2>1. Listable(listed[t], Own \ todo[t])
    BY DEF Inv, Lists
  <2>2. Own \ todo[t] \subseteq Own \ (todo[t] \ {a})
    OBVIOUS
  <2> QED
    BY <2>1, <2>2, ListableMore
<1>3. /\ pc[t] = "listing" /\ failures' \in 0 .. MaxFailures
      /\ UNCHANGED <<node, order, signed, completed, submitted>>
  BY PaymentAssumption DEF ListFails, Failure, Inv, Types
<1>4. /\ listed' = [listed EXCEPT ![t] = listed[t]]
      /\ IsPayment(t) \/ Len(listed[t]) < MaxTxInputs
  BY DEF ListFails, Inv, Types, Lists
<1> QED
  BY <1>1, <1>2, <1>3, <1>4, ListingKeeps

\* Nothing of what is made or taken changes.
LEMMA StillMade ==
  ASSUME Inv, UNCHANGED <<node, order, making>>,
         failures' \in 0 .. MaxFailures,
         signed' \in [Tx -> BOOLEAN], submitted' \in [Tx -> BOOLEAN],
         completed' \in [Tx -> BOOLEAN],
         \A t \in Tx : completed'[t] => completed[t] \/ Made(t),
         hex' \in [Tx -> {"none", "bare", "signed", "spoilt"}]
  PROVE  Inv'
<1>1. Types'
  BY DEF Inv, Types, node, making
<1>2. Drafts'
  BY DEF Inv, Drafts, making
<1>3. Lists' /\ Results'
  BY DEF Inv, Lists, Results, IsPayment, making
<1>4. Lives'
  BY DEF Inv, Lives, Made, node, making
<1>5. Ledger'
  BY DEF Inv, Ledger, node, making
<1> QED
  BY <1>1, <1>2, <1>3, <1>4, <1>5 DEF Inv

\* A transaction is signed.
LEMMA SignKeeps ==
  ASSUME Inv, NEW t \in Tx, SignRawTransaction(t)
  PROVE  Inv'
<1>1. signed' \in [Tx -> BOOLEAN]
  BY DEF SignRawTransaction, Inv, Types
<1>2. /\ UNCHANGED <<node, order, making>> /\ failures' \in 0 .. MaxFailures
      /\ submitted' \in [Tx -> BOOLEAN] /\ completed' = completed
      /\ completed' \in [Tx -> BOOLEAN]
      /\ hex' \in [Tx -> {"none", "bare", "signed", "spoilt"}]
  BY DEF SignRawTransaction, Inv, Types, Drafts
<1> QED
  BY <1>1, <1>2, StillMade

\* Its signatures are appended.
LEMMA VerifyKeeps ==
  ASSUME Inv, NEW t \in Tx, VerifyRawTransaction(t)
  PROVE  Inv'
<1>1. hex' \in [Tx -> {"none", "bare", "signed", "spoilt"}]
  BY DEF VerifyRawTransaction, Inv, Drafts
<1>2. /\ completed' \in [Tx -> BOOLEAN]
      /\ \A u \in Tx : completed'[u] => completed[u] \/ Made(u)
  BY DEF VerifyRawTransaction, Inv, Types
<1>3. /\ UNCHANGED <<node, order, making>> /\ failures' \in 0 .. MaxFailures
      /\ submitted' \in [Tx -> BOOLEAN] /\ signed' \in [Tx -> BOOLEAN]
  BY DEF VerifyRawTransaction, Inv, Types
<1> QED
  BY <1>1, <1>2, <1>3, StillMade

\* The node takes a transaction: its inputs are there, and of no other in the pool.
LEMMA SubmitKeeps ==
  ASSUME Inv, NEW t \in Tx, SubmitRawTransaction(t)
  PROVE  Inv'
<1>1. /\ t \notin accepted \cup confirmed /\ Made(t)
      /\ inputs[t] \subseteq unspent \ InPool
      /\ ValueOf(inputs[t]) >= SumFunction(outputs[t])
      /\ accepted' = accepted \cup {t}
      /\ UNCHANGED <<unspent, confirmed, order, making, signed, hex, completed>>
  BY DEF SubmitRawTransaction, Acceptable, Inv, Lives
<1>2. Types'
  <2>1. failures' \in 0 .. MaxFailures
    BY PaymentAssumption DEF SubmitRawTransaction, NoFailure, Failure, Inv, Types
  <2>2. submitted' \in [Tx -> BOOLEAN]
    BY DEF SubmitRawTransaction, Inv, Types
  <2> QED
    BY <1>1, <2>1, <2>2 DEF Inv, Types, making
<1>3. Drafts'
  BY <1>1 DEF Inv, Drafts, making
<1>4. Lists' /\ Results'
  BY <1>1 DEF Inv, Lists, Results, IsPayment, making
<1>5. Lives'
  BY <1>1 DEF Inv, Lives, Made, making
<1>6. ValueOf(inputs[t]) <= ValueOf(Minted) /\ SumFunction(outputs[t]) <= ValueOf(inputs[t])
  <2>1. Purse(unspent)
    BY CoinFacts DEF Inv, Types, Purse
  <2>2. Purse(inputs[t]) /\ ValueOf(inputs[t]) <= ValueOf(unspent)
    BY <1>1, <2>1, ValueOfRest
  <2>3. ValueOf(unspent) <= ValueOf(Minted) /\ ValueOf(unspent) \in Nat
    BY <2>1, ValueType DEF Inv, Ledger
  <2>4. ValueOf(Minted) \in Nat
    BY MintedValue
  <2>5. ValueOf(inputs[t]) \in Nat
    BY <2>2, ValueType
  <2>6. SumFunction(outputs[t]) \in Nat
    BY StoredOutputs, SumOfNaturals DEF Inv
  <2> QED
    BY <1>1, <2>2, <2>3, <2>4, <2>5, <2>6
<1>7. Ledger'
  <2>0. inputs' = inputs /\ outputs' = outputs /\ unspent' = unspent /\ confirmed' = confirmed
    BY <1>1 DEF making
  <2>1. \A u \in accepted : inputs[t] \cap inputs[u] = {}
    BY <1>1 DEF InPool
  <2>2. \A u \in accepted', v \in accepted' : u # v => inputs[u] \cap inputs[v] = {}
    BY <1>1, <2>1 DEF Inv, Ledger
  <2>3. \A u \in accepted' : inputs[u] \subseteq unspent
    BY <1>1 DEF Inv, Ledger
  <2>4. \A u \in accepted' \cup confirmed : /\ ValueOf(inputs[u]) <= ValueOf(Minted)
                                            /\ SumFunction(outputs[u]) <= ValueOf(inputs[u])
    BY <1>1, <1>6 DEF Inv, Ledger
  <2>5. /\ \A c \in unspent, u \in Tx, a \in Address : c.id = <<u, a>> => u \in confirmed
        /\ ValueOf(unspent) <= ValueOf(Minted)
    BY DEF Inv, Ledger
  <2> QED
    BY <2>0, <2>2, <2>3, <2>4, <2>5 DEF Ledger
<1> QED
  BY <1>2, <1>3, <1>4, <1>5, <1>7 DEF Inv

\* The coins a confirmation takes away are there, those it makes are not.
LEMMA CoinsOfConfirmed ==
  ASSUME Inv, NEW t \in accepted,
         NEW D, D = DOMAIN outputs[t], NEW made, made = NewCoins(t, outputs[t], D)
  PROVE  /\ D \in SUBSET Address /\ outputs[t] \in [D -> Nat]
         /\ Purse(unspent) /\ inputs[t] \in SUBSET unspent
         /\ made \in SUBSET AllCoins /\ made \cap unspent = {}
         /\ \A c \in made : c.id[1] = t
<1>1. t \in Tx /\ t \notin confirmed
  BY DEF Inv, Types
<1>2. /\ D \in SUBSET Address /\ outputs[t] \in [D -> 0 .. Modulus - 1]
      /\ outputs[t] \in [D -> Nat]
  <2>1. PICK E \in SUBSET Address : outputs[t] \in [E -> 0 .. Modulus - 1]
    BY <1>1 DEF Inv, Drafts, OutputsOf
  <2>2. E = D
    BY <2>1
  <2> QED
    BY <2>1, <2>2, Constants
<1>3. Purse(unspent)
  BY CoinFacts DEF Inv, Types, Purse
<1>4. inputs[t] \in SUBSET unspent
  BY DEF Inv, Ledger
<1>5. made \in SUBSET AllCoins
  <2> SUFFICES ASSUME NEW c \in made PROVE c \in AllCoins
    OBVIOUS
  <2>1. PICK a \in D : c = Coin(<<t, a>>, a, outputs[t][a], FALSE)
    BY DEF NewCoins
  <2>2. a \in Address /\ outputs[t][a] \in 0 .. Modulus - 1
    BY <1>2
  <2> DEFINE x == <<t, a, outputs[t][a]>>
  <2>3. x \in Tx \X Address \X (0 .. Modulus - 1)
    BY <1>1, <2>2
  <2>4. c = Coin(<<x[1], x[2]>>, x[2], x[3], FALSE)
    BY <2>1
  <2> QED
    BY <2>3, <2>4, Zenon DEF AllCoins
<1>6. \A c \in made : \E a \in Address : c.id = <<t, a>>
  BY <1>2 DEF NewCoins, Coin
<1>7. made \cap unspent = {}
  BY <1>1, <1>6 DEF Inv, Ledger
<1> QED
  BY <1>2, <1>3, <1>4, <1>5, <1>6, <1>7

\* A transaction of the pool is confirmed.
LEMMA ConfirmKeeps ==
  ASSUME Inv, NEW t \in Tx, Confirm(t)
  PROVE  Inv'
<1> DEFINE D    == DOMAIN outputs[t]
           made == NewCoins(t, outputs[t], D)
<1>1. /\ t \in accepted /\ t \notin confirmed
      /\ accepted' = accepted \ {t} /\ confirmed' = confirmed \cup {t}
      /\ unspent' = (unspent \ inputs[t]) \cup made
      /\ UNCHANGED <<failures, order, making, life>>
  BY DEF Confirm, NewCoins, Inv, Types
<1>2. /\ D \in SUBSET Address /\ outputs[t] \in [D -> Nat]
      /\ Purse(unspent) /\ inputs[t] \in SUBSET unspent
      /\ made \in SUBSET AllCoins /\ made \cap unspent = {}
      /\ \A c \in made : c.id[1] = t
  BY <1>1, CoinsOfConfirmed
<1>3. Purse(made) /\ ValueOf(made) = SumFunction(outputs[t])
  <2> HIDE DEF D
  <2>1. D \in SUBSET D /\ outputs[t] \in [D -> Int]
    BY <1>2
  <2>2. ValueOf(made) = Sums(outputs[t])[D] /\ Purse(made)
    BY <1>2, <2>1, ValueOfNew
  <2>3. SumFunction(outputs[t]) = Sums(outputs[t])[D]
    BY <1>2, <2>1, SumOfOutputs
  <2> QED
    BY <2>2, <2>3
<1> HIDE DEF made, D
<1>4. /\ Purse(unspent \ inputs[t])
      /\ ValueOf(unspent \ inputs[t]) = ValueOf(unspent) - ValueOf(inputs[t])
      /\ Purse(inputs[t])
  BY <1>2, ValueOfRest
<1>5. /\ Purse(unspent')
      /\ ValueOf(unspent') = ValueOf(unspent) - ValueOf(inputs[t]) + SumFunction(outputs[t])
  <2>1. (unspent \ inputs[t]) \cap made = {}
    BY <1>2
  <2> QED
    BY <1>1, <1>3, <1>4, <2>1, ValueOfBoth
<1>6. Types'
  <2>1. unspent' \in SUBSET AllCoins /\ IsFiniteSet(unspent')
    BY <1>1, <1>2, <1>5 DEF Inv, Types, Purse
  <2> QED
    BY <1>1, <2>1 DEF Inv, Types, making, life
<1>7. Drafts'
  BY <1>1 DEF Inv, Drafts, making, life
<1>8. Lists' /\ Results'
  BY <1>1 DEF Inv, Lists, Results, IsPayment, making
<1>9. Lives'
  BY <1>1 DEF Inv, Lives, Made, making, life
<1>10. Ledger'
  <2>0. inputs' = inputs /\ outputs' = outputs
    BY <1>1 DEF making
  <2>1. ASSUME NEW c \in unspent', NEW u \in Tx, NEW a \in Address, c.id = <<u, a>>
        PROVE  u \in confirmed'
    <3>1. CASE c \in made
      BY <1>1, <1>2, <2>1, <3>1
    <3>2. CASE c \in unspent
      BY <1>1, <2>1, <3>2 DEF Inv, Ledger
    <3> QED
      BY <1>1, <3>1, <3>2
  <2>2. \A u \in accepted' : inputs[u] \subseteq unspent'
    BY <1>1 DEF Inv, Ledger
  <2>3. \A u \in accepted', v \in accepted' : u # v => inputs[u] \cap inputs[v] = {}
    BY <1>1 DEF Inv, Ledger
  <2>4. \A u \in accepted' \cup confirmed' : /\ ValueOf(inputs[u]) <= ValueOf(Minted)
                                             /\ SumFunction(outputs[u]) <= ValueOf(inputs[u])
    BY <1>1 DEF Inv, Ledger
  <2>5. ValueOf(unspent') <= ValueOf(Minted)
    <3>1. ValueOf(unspent) \in Nat /\ ValueOf(inputs[t]) \in Nat /\ ValueOf(made) \in Nat
      BY <1>2, <1>3, <1>4, ValueType
    <3>2. /\ SumFunction(outputs[t]) <= ValueOf(inputs[t])
          /\ ValueOf(unspent) <= ValueOf(Minted)
      BY <1>1 DEF Inv, Ledger
    <3>3. ValueOf(Minted) \in Nat
      BY MintedValue
    <3> QED
      BY <1>3, <1>5, <3>1, <3>2, <3>3
  <2> QED
    BY <2>0, <2>1, <2>2, <2>3, <2>4, <2>5 DEF Ledger
<1> QED
  BY <1>6, <1>7, <1>8, <1>9, <1>10 DEF Inv

-----------------------------------------------------------------------------
(* The theorems. *)

\* The invariant holds throughout.
LEMMA Invariance == Spec => []Inv
<1>1. Inv /\ [Next]_vars => Inv'
  <2> SUFFICES ASSUME Inv, [Next]_vars PROVE Inv'
    OBVIOUS
  <2>1. CASE Next
    <3>1. PICK t \in Tx :
             \/ Begin(t) \/ ListUnspent(t) \/ ListFails(t)
             \/ SignRawTransaction(t) \/ VerifyRawTransaction(t) \/ SubmitRawTransaction(t)
             \/ Confirm(t)
      BY <2>1, Zenon DEF Next
    <3> QED
      BY <3>1, BeginKeeps, ListUnspentKeeps, ListFailsKeeps, SignKeeps, VerifyKeeps,
         SubmitKeeps, ConfirmKeeps
  <2>2. CASE UNCHANGED vars
    <3>1. Types' /\ Drafts'
      BY <2>2 DEF vars, node, making, life, Inv, Types, Drafts
    <3>2. Lists' /\ Results' /\ Lives' /\ Ledger'
      BY <2>2 DEF vars, node, making, life, Inv, Lists, Results, IsPayment, Lives, Made,
         Ledger
    <3> QED
      BY <3>1, <3>2 DEF Inv
  <2> QED
    BY <2>1, <2>2
<1> QED
  BY InitInv, <1>1, PTL DEF Spec

\* Every variable has its type in every reachable state: coins with an owner and an
\* amount that fits, outputs for known addresses (the structures of tx_decode.go).
THEOREM PaymentTypeCorrect == Spec => []TypeOK
<1>1. Inv => TypeOK
  <2> SUFFICES ASSUME Inv PROVE TypeOK
    OBVIOUS
  <2>1. \A c \in unspent : c.address \in Address /\ c.value \in 0 .. Modulus - 1
    BY CoinFacts DEF Inv, Types
  <2>2. ASSUME NEW t \in Tx
        PROVE  /\ DOMAIN outputs[t] \subseteq Address
               /\ \A a \in DOMAIN outputs[t] : outputs[t][a] \in 0 .. Modulus - 1
    <3>1. PICK D \in SUBSET Address : outputs[t] \in [D -> 0 .. Modulus - 1]
      BY DEF Inv, Drafts, OutputsOf
    <3> QED
      BY <3>1
  <2>3. ASSUME NEW t \in Tx
        PROVE  /\ order[t] \in Orders /\ todo[t] \subseteq Own
               /\ pc[t] \in {"new", "listing", "made", "refused"}
               /\ hex[t] \in {"none", "bare", "signed", "spoilt"}
               /\ {signed[t], completed[t], submitted[t]} \subseteq BOOLEAN
    BY DEF Inv, Types, Drafts
  <2> QED
    BY <2>1, <2>2, <2>3 DEF TypeOK, Inv, Types
<1> QED
  BY Invariance, <1>1, PTL

\* A payment is refused only for want of coins, and one that is made takes the first of
\* the coins listed, as many as cover the amount and the fee and not one more: whatever
\* the coins, their order, the amount and the fee, and whatever happens between the
\* answers of the node (lines 136-178 of tx_decode.go).
THEOREM TakesJustEnough == Spec => []PaymentTakesJustEnough
<1>1. Inv => PaymentTakesJustEnough
  <2> SUFFICES ASSUME Inv, NEW t \in Tx, IsPayment(t)
               PROVE  LET cost == SumFunction(order[t].to) + Fee IN
                      /\ pc[t] = "refused" => SumOf(listed[t]) < cost
                      /\ Made(t) => \E n \in 1 .. Len(listed[t]) :
                            /\ inputs[t] = ToSet(SubSeq(listed[t], 1, n))
                            /\ SumOf(SubSeq(listed[t], 1, n)) >= cost
                            /\ SumOf(SubSeq(listed[t], 1, n - 1)) < cost
    BY DEF PaymentTakesJustEnough
  <2>1. JustEnough(SumFunction(order[t].to) + Fee, pc[t], listed[t], inputs[t])
    BY DEF Inv, Results, ResultOf, IsPayment
  <2> QED
    BY <2>1 DEF JustEnough, Made
<1> QED
  BY Invariance, <1>1, PTL

\* What the node has taken is balanced, when amounts are small.
LEMMA TakenIsBalanced ==
  ASSUME SmallMoney, Inv, NEW t \in accepted \cup confirmed
  PROVE  /\ Balanced(inputs[t], outputs[t], txAmount[t], RetainedTwice(t))
         /\ Purse(inputs[t]) /\ \A c \in inputs[t] : c.address \in Own
<1>1. t \in Tx /\ pc[t] = "made"
  BY DEF Inv, Lives, Made, Types
<1>2. /\ Purse(inputs[t]) /\ \A c \in inputs[t] : c.address \in Own
      /\ SoundMoney(inputs[t], outputs[t], txAmount[t], RetainedTwice(t))
  BY <1>1 DEF Inv, Results, ResultOf, RetainedTwice, TwiceOf, IsPayment
<1>3. /\ ValueOf(inputs[t]) <= ValueOf(Minted)
      /\ SumFunction(outputs[t]) <= ValueOf(inputs[t])
  BY DEF Inv, Ledger
<1>4. ValueOf(inputs[t]) \in Nat /\ ValueOf(Minted) \in Nat
  BY <1>2, ValueType, MintedValue
<1>5. ValueOf(inputs[t]) + Room + Fee < Modulus
  BY <1>3, <1>4, Constants DEF SmallMoney
<1>6. ~(SumFunction(outputs[t]) > ValueOf(inputs[t]))
  <2>1. SumFunction(outputs[t]) \in Nat
    BY <1>1, StoredOutputs, SumOfNaturals DEF Inv
  <2> QED
    BY <1>3, <1>4, <2>1
<1> QED
  BY <1>2, <1>5, <1>6 DEF SoundMoney

\* What is retained a second time is a number.
LEMMA TwiceType ==
  ASSUME Inv, NEW t \in accepted \cup confirmed
  PROVE  RetainedTwice(t) \in Int
<1> DEFINE A == {c.address : c \in inputs[t]}
<1>1. t \in Tx /\ IsFiniteSet(inputs[t]) /\ A \in SUBSET Address
  <2>1. t \in Tx /\ Purse(inputs[t]) /\ inputs[t] \in SUBSET AllCoins
    BY DEF Inv, Lives, Made, Types, Drafts, Results, ResultOf
  <2> QED
    BY <2>1, CoinFacts DEF Purse
<1>2. IsFiniteSet(A)
  BY <1>1, Constants, FS_Subset
<1>3. Cardinality(inputs[t]) \in Nat /\ Cardinality(A) \in Nat
  BY <1>1, <1>2, FS_CardinalityType
<1>4. RetainedTwice(t) = IF IsPayment(t) THEN 0
                         ELSE RetainedBalance * (Cardinality(inputs[t]) - Cardinality(A))
  BY Zenon DEF RetainedTwice
<1> HIDE DEF A
<1> QED
  BY <1>3, <1>4, Constants

\* What the node takes gives away its fee, less what a summary retains a second time,
\* whatever coins are spent, made or locked while it is made, and whatever other
\* transactions are made of the same coins (lines 136-213 and 471-546 of tx_decode.go).
THEOREM TakenGivesFee ==
  ASSUME SmallMoney
  PROVE  Spec => []TakenPaysItsFee
<1>1. Inv => TakenPaysItsFee
  <2> SUFFICES ASSUME Inv, NEW t \in accepted \cup confirmed
               PROVE  ValueOf(inputs[t]) - SumFunction(outputs[t]) = Fee - RetainedTwice(t)
    BY DEF TakenPaysItsFee
  <2>1. /\ SumFunction(outputs[t]) = ValueOf(inputs[t]) - Fee + RetainedTwice(t)
        /\ ValueOf(inputs[t]) \in Nat /\ RetainedTwice(t) \in Int
    BY TakenIsBalanced, TwiceType, ValueType DEF Balanced
  <2> QED
    BY <2>1, Constants
<1> QED
  BY Invariance, <1>1, PTL

\* The amount shown for a transaction, and what a summary retains a second time, is what
\* the account's balance changes by when it is confirmed (lines 995-1005 and 1091-1097
\* of tx_decode.go).
THEOREM AmountIsChange ==
  ASSUME SmallMoney
  PROVE  Spec => AmountIsBalanceChange
<1> DEFINE Change == \A t \in confirmed' \ confirmed :
                         OwnBalance' - OwnBalance = txAmount[t] + RetainedTwice(t)
<1>1. ASSUME Inv, NEW t \in Tx, Confirm(t)
      PROVE  OwnBalance' - OwnBalance = txAmount[t] + RetainedTwice(t)
  <2> DEFINE D    == DOMAIN outputs[t]
             made == NewCoins(t, outputs[t], D)
             own  == {c \in unspent : c.address \in Own}
             mine == NewCoins(t, outputs[t], D \cap Own)
  <2>1. t \in accepted /\ unspent' = (unspent \ inputs[t]) \cup made
    BY <1>1 DEF Confirm, NewCoins
  <2>2. /\ D \in SUBSET Address /\ outputs[t] \in [D -> Nat]
        /\ Purse(unspent) /\ inputs[t] \in SUBSET unspent
        /\ made \in SUBSET AllCoins /\ made \cap unspent = {}
    BY <1>1, <2>1, CoinsOfConfirmed
  <2>3. /\ Balanced(inputs[t], outputs[t], txAmount[t], RetainedTwice(t))
        /\ RetainedTwice(t) \in Int
        /\ Purse(inputs[t]) /\ \A c \in inputs[t] : c.address \in Own
    BY <1>1, <2>1, TakenIsBalanced, TwiceType
  <2>4. mine \subseteq made /\ \A c \in made : c.address \in Own <=> c \in mine
    BY <2>2 DEF NewCoins, Coin
  <2>5. /\ inputs[t] \in SUBSET own /\ own \in SUBSET unspent
        /\ (own \ inputs[t]) \cap mine = {}
    BY <2>2, <2>3, <2>4
  <2>6. OwnBalance' = ValueOf((own \ inputs[t]) \cup mine)
    <3>1. {c \in unspent' : c.address \in Own} = (own \ inputs[t]) \cup mine
      <4> HIDE DEF made, mine
      <4> QED
        BY <2>1, <2>3, <2>4
    <3> QED
      BY <3>1, Zenon DEF OwnBalance
  <2>7. Purse(mine) /\ ValueOf(mine) = Sums(outputs[t])[D \cap Own]
    <3> HIDE DEF D
    <3>1. D \cap Own \in SUBSET D
      OBVIOUS
    <3> QED
      BY <2>2, <3>1, ValueOfNew
  <2>8. OwnBalance = ValueOf(own)
    BY Zenon DEF OwnBalance
  <2> HIDE DEF own, mine, made
  <2>9. Purse(own)
    BY <2>2, <2>5, ValueIsSum
  <2>10. Purse(own \ inputs[t]) /\ ValueOf(own \ inputs[t]) = ValueOf(own) - ValueOf(inputs[t])
    BY <2>5, <2>9, ValueOfRest
  <2>11. ValueOf((own \ inputs[t]) \cup mine) = ValueOf(own \ inputs[t]) + ValueOf(mine)
    BY <2>5, <2>7, <2>10, ValueOfBoth
  <2>12. /\ SumFunction(outputs[t]) = Sums(outputs[t])[D \cap Own] + Sent(outputs[t])
         /\ Sent(outputs[t]) \in Int /\ Sums(outputs[t])[D \cap Own] \in Int
    <3> HIDE DEF D
    <3>1. outputs[t] \in [D -> Int]
      BY <2>2
    <3> QED
      BY <2>2, <3>1, SumOfOutputs
  <2>13. ValueOf(own) \in Nat /\ ValueOf(inputs[t]) \in Nat
    BY <2>3, <2>9, ValueType
  <2> HIDE DEF D
  <2>14. /\ SumFunction(outputs[t]) = ValueOf(inputs[t]) - Fee + RetainedTwice(t)
         /\ txAmount[t] = - (Sent(outputs[t]) + Fee)
    BY <2>3 DEF Balanced
  <2> QED
    BY <2>3, <2>6, <2>7, <2>8, <2>10, <2>11, <2>12, <2>13, <2>14, Constants
<1>2. ASSUME Inv, [Next]_vars PROVE Change
  <2>1. CASE Next
    <3>1. PICK t \in Tx :
             \/ Begin(t) \/ ListUnspent(t) \/ ListFails(t)
             \/ SignRawTransaction(t) \/ VerifyRawTransaction(t) \/ SubmitRawTransaction(t)
             \/ Confirm(t)
      BY <2>1, Zenon DEF Next
    <3>2. CASE Confirm(t)
      <4>1. confirmed' \ confirmed \subseteq {t}
        BY <3>2 DEF Confirm
      <4>2. OwnBalance' - OwnBalance = txAmount[t] + RetainedTwice(t)
        BY <1>1, <1>2, <3>2
      <4> QED
        BY <4>1, <4>2, Zenon
    <3>3. CASE ~Confirm(t)
      <4>1. confirmed' = confirmed
        BY <3>1, <3>3 DEF Begin, ListUnspent, ListFails, SignRawTransaction,
           VerifyRawTransaction, SubmitRawTransaction, node
      <4>2. confirmed' \ confirmed = {}
        BY <4>1
      <4> QED
        BY <4>2, Zenon
    <3> QED
      BY <3>2, <3>3
  <2>2. CASE UNCHANGED vars
    <3>1. confirmed' \ confirmed = {}
      BY <2>2 DEF vars, node
    <3> QED
      BY <3>1, Zenon
  <2> QED
    BY <1>2, <2>1, <2>2
<1> HIDE DEF Change
<1>3. Inv /\ [Next]_vars => [Change]_vars
  BY <1>2
<1>4. Spec => [][Change]_vars
  BY Invariance, <1>3, PTL DEF Spec
<1> QED
  BY <1>4 DEF AmountIsBalanceChange, Change
===============================================================================
