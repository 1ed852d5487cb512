------------------------------- MODULE Codecs -------------------------------
(***************************************************************************)
(* The pure parts of the adapter on inputs of each kind: numbers,          *)
(* transactions, signatures, keys, replies of the node and transactions of *)
(* a block.  One input is taken, and what the code makes of it is compared *)
(* with what it should.                                                    *)
(***************************************************************************)
EXTENDS FormatReader, AddressCodec, NodeApi, ExtractData

CONSTANTS
    Numbers,
    Transactions,
    Signatures,     \* pairs of numbers
    Sections,       \* sequences of signatures, each with its key
    Keys,           \* pairs of a chain and the hash of a public key
    BlockTxs, TokenAnswers  \* transactions of a block, answers about their transfers

\* Amounts are numbers.
AreCoins(coins) == coins \in Seq(ToSet(coins)) /\ \A c \in ToSet(coins) : c.value \in Int

\* Numbers of n bytes and bytes.
Fits(v, n) == v \in Nat /\ v \div Power(Base, n - 1) < Base
AreBytes(base, seq) == seq \in Seq(ToSet(seq)) /\ ToSet(seq) \subseteq 0 .. base - 1

\* An address has its bytes and perhaps a checksum; lengths and counts fit their integers.
IsHash(hash) == AreBytes(Base, hash) /\ Len(hash) = HashSize
IsAddress(address) == AreBytes(Base, address) /\ Len(address) >= BodySize
IsText(text) == AreBytes(Base, text) /\ Fits(Len(text), 8)
IsPut(put) == Fits(put.amount, 8) /\ Fits(put.lockTime, 6)
IsIn(in) == IsPut(in) /\ IsHash(in.hash) /\ Fits(in.index, 8)
IsOut(out) == IsPut(out) /\ IsAddress(out.address)
IsList(list) == list \in Seq(ToSet(list)) /\ Fits(Len(list), 8)
IsCall(t) ==
    /\ IsAddress(t.sender) /\ IsAddress(t.contract)
    /\ \A v \in {t.value, t.gasLimit, t.price} : Fits(v, 8)
    /\ IsText(t.method)
    /\ IsList(t.args) /\ \A arg \in ToSet(t.args) : IsText(arg)
    /\ t.argsCount = Len(t.args) /\ t.argsCount < Base
IsTransaction(tx) ==
    /\ Fits(tx.time, 6)
    /\ IsList(tx.ins) /\ \A in \in ToSet(tx.ins) : IsIn(in)
    /\ IsList(tx.outs) /\ \A out \in ToSet(tx.outs) : IsOut(out)
    /\ tx.token # NoToken => tx.token = <<tx.token[1]>> /\ IsCall(tx.token[1])

\* A number of a signature is random: of every second byte one at least is not zero.
IsNumber(number) ==
    /\ AreBytes(Base, number) /\ Len(number) = NumSize
    /\ \E i \in 1 .. NumSize : i % 2 = 1 /\ number[i] # 0

\* The length of a key fits a byte, and that of all signatures an integer.
IsSection(sigs) ==
    /\ sigs \in Seq(ToSet(sigs)) /\ Fits(Len(sigs), 6)
    /\ \A sig \in ToSet(sigs) :
           AreBytes(Base, sig.pub) /\ Len(sig.pub) < Base /\ IsNumber(sig.r) /\ IsNumber(sig.s)

IsKey(chain, hash) ==
    /\ chain \in 0 .. ByteBase * ByteBase - 1
    /\ AreBytes(ByteBase, hash) /\ Len(hash) = KeySize

ASSUME CodecsAssumption ==
    /\ \A n \in Numbers : Fits(n, 8)
    /\ \A t \in Transactions : IsTransaction(t)
    /\ \A p \in Signatures : IsNumber(p[1]) /\ IsNumber(p[2])
    /\ \A l \in Sections : IsSection(l)
    /\ \A k \in Keys : IsKey(k[1], k[2])
    /\ \A t \in BlockTxs : t # NoTx => AreCoins(t.inputs) /\ AreCoins(t.outputs)
    /\ \A a \in TokenAnswers : AreCoins(a.transfers)

VARIABLE input

None == [kind |-> "none"]

Inputs ==
    {[kind |-> "number", number |-> n] : n \in Numbers}
    \cup {[kind |-> "transaction", transaction |-> t] : t \in Transactions}
    \cup {[kind |-> "signature", r |-> p[1], s |-> p[2]] : p \in Signatures}
    \cup {[kind |-> "signed", transaction |-> t, sigs |-> l] : t \in Transactions, l \in Sections}
    \cup {[kind |-> "key", chain |-> k[1], hash |-> k[2]] : k \in Keys}
    \cup {[kind |-> "reply", reply |-> r] : r \in Reply}
    \cup {[kind |-> "extract", tx |-> t, answer |-> a] : t \in BlockTxs, a \in TokenAnswers}

Init == input = None
Pick == input = None /\ input' \in Inputs
Next == Pick
Spec == Init /\ [][Next]_input

Is(kind) == input.kind = kind

-----------------------------------------------------------------------------
(* Properties. *)

\* A variable-length integer is read as it was written, with nothing left, at every
\* size and its boundaries; the length in front of bytes likewise (lines 33-95 of
\* serializeUtils.go).
VarIntIsRead ==
    Is("number") => VarInt(VarIntEncode(input.number)) = Got(input.number, <<>>)

\* What a transaction says; addresses are without their checksums.
MeantIn(in) == [hash |-> in.hash, index |-> in.index, beyond |-> <<>>,
                amount |-> in.amount, lockTime |-> in.lockTime]
MeantOut(out) == [address |-> Body(out.address), amount |-> out.amount, lockTime |-> out.lockTime]
MeantArg(arg) == [count |-> 1, arg |-> arg]
MeantCall(t)  ==
    [sender |-> Body(t.sender), contract |-> Body(t.contract), value |-> t.value,
     gasLimit |-> t.gasLimit, price |-> t.price, method |-> t.method, desc |-> <<>>,
     args |-> [i \in DOMAIN t.args |-> MeantArg(t.args[i])]]

Meant(tx) ==
    [type |-> IF tx.token = NoToken THEN 2 ELSE 101, time |-> tx.time, remark |-> <<>>,
     data |-> IF tx.token = NoToken THEN [i \in 1 .. 4 |-> Base - 1] ELSE MeantCall(tx.token[1]),
     ins  |-> [i \in DOMAIN tx.ins |-> MeantIn(tx.ins[i])],
     outs |-> [i \in DOMAIN tx.outs |-> MeantOut(tx.outs[i])]]

\* A transaction is read as it was written: no field runs into the next, with one or
\* more inputs and outputs, with and without the call of a contract, whose arguments
\* are of any length (lines 59-127 of txStruct.go and 16-43 of txToken.go); and
\* signatures appended to it begin where it ends.
TransactionIsRead ==
    Is("transaction") =>
        LET tx == input.transaction IN
        Encodable(tx) => Decode(Encode(tx) \o <<0>>) = Got(Meant(tx), <<0>>)

Bytes == ToBytes(input.r, input.s)

\* The length of an integer is the length of its number, and the number is not negative.
WellFormed(integer) ==
    /\ integer.tag = IntegerTag
    /\ integer.size = Len(integer.number)
    /\ ~High(integer.number[1])

\* The numbers of a signature are well framed and not negative, whatever their leading
\* bytes (lines 80-117 of transaction.go).
SignatureIsWellFormed ==
    Is("signature") =>
        LET read == ReadSignature(Bytes) IN
        /\ Bytes # Panic
        /\ read.value.total = Len(Bytes) - 1 /\ read.value.size = Len(Bytes) - 3
        /\ read.value.tag = SequenceTag
        /\ WellFormed(read.value.r) /\ WellFormed(read.value.s)
        /\ read.rest = <<>>

\* They are the numbers that were signed (line 840 of tx_decode.go: the transaction is
\* returned with the signatures).
SignatureKeepsNumbers ==
    Is("signature") =>
        LET read == ReadSignature(Bytes).value IN
        Bytes # Panic /\ ValueIn(Base, read.r.number) = ValueIn(Base, input.r)
                      /\ ValueIn(Base, read.s.number) = ValueIn(Base, input.s)

\* What a signature says: its numbers are those it has when it is read alone.
MeantSigned(sig) ==
    [pub |-> sig.pub, type |-> 0, numbers |-> ReadSignature(ToBytes(sig.r, sig.s)).value]

\* The transaction has been read, and nothing but the signatures is in the section after it.
AreSigned(section, sigs) ==
    /\ section.rest = <<>>
    /\ ReadItems("signed", Len(sigs), section.value)
           = Got([i \in DOMAIN sigs |-> MeantSigned(sigs[i])], <<>>)
IsSigned(read, tx, sigs) ==
    read.value = Meant(tx) /\ AreSigned(WithLength(read.rest), sigs)

\* A signed transaction is read as it was written: the signatures begin where the
\* transaction ends, whatever it ends with, and every one of any number of signatures,
\* whose integers have any lengths, begins where the one before it ends (lines 854-891
\* of tx_decode.go).
SignedIsRead ==
    Is("signed") =>
        LET tx == input.transaction
        IN  Encodable(tx) =>
                IsSigned(Decode(Encode(tx) \o SignatureSection(input.sigs)), tx, input.sigs)

\* See AddressIsRead of module AddressCodec.
KeyIsInAddress == Is("key") => AddressIsRead(input.chain, input.hash)

\* See MoneyIsGenuine of module NodeApi.
MoneyAnswersAreGenuine == Is("reply") => MoneyIsGenuine(input.reply)

\* See AccountsAreTold of module ExtractData.
ExtractedIsAccounted == Is("extract") => AccountsAreTold(input.tx, input.answer)

\* See NoAnswerWithoutReply of module NodeApi.
FailedCallIsError == Is("reply") => NoAnswerWithoutReply(input.reply)
=============================================================================
