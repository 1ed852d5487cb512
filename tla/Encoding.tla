------------------------------ MODULE Encoding ------------------------------
(***************************************************************************)
(* How nulsio_trans writes a transaction and its signatures.  A byte is a  *)
(* digit of base Base: with 256 this is the code; a smaller base keeps     *)
(* every branch within reach of small numbers.                             *)
(***************************************************************************)
EXTENDS Digits

CONSTANTS
    Base,       \* 256 in the code
    HashSize,   \* bytes of a transaction hash, 32 in the code
    BodySize,   \* bytes of an address without its checksum, 23 in the code
    NumSize     \* bytes of a number of a signature, 32 in the code

ASSUME EncodingAssumption ==
    /\ Base \in Nat /\ Base > 10
    /\ {HashSize, BodySize, NumSize} \subseteq Nat \ {0}
    /\ 2 * NumSize + 8 < Base /\ HashSize + 9 < Base /\ BodySize < Base

\* Sequences put one after the other.
Join(seqs) == FoldRight(\o, seqs, <<>>)

\* The n lowest bytes of a number, the lowest first.
LittleEndian(v, n) == [i \in 1 .. n |-> DigitOf(Base, v, i - 1)]

-----------------------------------------------------------------------------
(* Variable-length integers. *)

\* Mutant: a single byte also for the first marker.
SizeOfUpToMarker(v) ==
    CASE 0 <= v /\ v <= Base - 3  -> 1
      [] Base - 3 < v /\ v < Power(Base, 2) -> 3
      [] Power(Base, 2) <= v /\ v < Power(Base, 4) -> 5
      [] OTHER -> 9

\* sizeOf: a negative number stands for a great one.
SizeOf(v) ==
    CASE 0 <= v /\ v < Base - 3 -> 1
      [] Base - 3 <= v /\ v < Power(Base, 2) -> 3
      [] Power(Base, 2) <= v /\ v < Power(Base, 4) -> 5
      [] OTHER -> 9

Marker(size) == CASE size = 3 -> Base - 3 [] size = 5 -> Base - 2 [] size = 9 -> Base - 1

VarIntEncode(v) ==
    LET size == SizeOf(v) IN
    IF size = 1 THEN <<v>> ELSE <<Marker(size)>> \o LittleEndian(v, size - 1)

GetBytesWithLength(bytes) == VarIntEncode(Len(bytes)) \o bytes

-----------------------------------------------------------------------------
(* A transaction. *)

\* An input: the hash and the index of the output it spends, an amount, a lock time.
GetInputOwnerKey(hash, index) == hash \o VarIntEncode(index)
TxIn(in)   == GetBytesWithLength(GetInputOwnerKey(in.hash, in.index))
                  \o LittleEndian(in.amount, 8) \o LittleEndian(in.lockTime, 6)

\* An output: the first bytes of the decoded address, without its checksum.
Body(address) == SubSeq(address, 1, BodySize)

\* Mutant: the checksum stays.
TxOutWhole(out) == GetBytesWithLength(out.address)
                       \o LittleEndian(out.amount, 8) \o LittleEndian(out.lockTime, 6)

TxOut(out) == GetBytesWithLength(Body(out.address))
                  \o LittleEndian(out.amount, 8) \o LittleEndian(out.lockTime, 6)

Arg(arg) == <<1>> \o GetBytesWithLength(arg)

\* newTxTokenToBytes: the call of a contract.  The count of arguments is a byte.
TokenBytes(t) ==
    Body(t.sender) \o Body(t.contract)
        \o LittleEndian(t.value, 8) \o LittleEndian(t.gasLimit, 8) \o LittleEndian(t.price, 8)
        \o GetBytesWithLength(t.method)
        \o <<0, t.argsCount % Base>> \o Join([i \in DOMAIN t.args |-> Arg(t.args[i])])

NoToken == <<>>
Counted(items) == VarIntEncode(Len(items)) \o Join(items)

\* newTransaction and encodeToBytes: no remark, and no data or the call of a contract.
\* A transaction without inputs or without outputs is an error.
Encode(tx) ==
    LittleEndian(IF tx.token = NoToken THEN 2 ELSE 101, 2) \o LittleEndian(tx.time, 6)
        \o GetBytesWithLength(<<>>)
        \o (IF tx.token = NoToken THEN [i \in 1 .. 4 |-> Base - 1] ELSE TokenBytes(tx.token[1]))
        \o Counted([i \in DOMAIN tx.ins |-> TxIn(tx.ins[i])])
        \o Counted([i \in DOMAIN tx.outs |-> TxOut(tx.outs[i])])

Encodable(tx) == tx.ins # <<>> /\ tx.outs # <<>>

-----------------------------------------------------------------------------
(* Signatures. *)

High(b) == b >= Base \div 2

\* Mutant: a zero goes whatever follows it.
RedundantZero(r, i) == r[i] = 0

\* A zero that no sign needs.
Redundant(r, i) == r[i] = 0 /\ ~High(r[i + 1])

Panic == <<>>

\* A turn of the loop over a number that is not negative: it takes off the first byte
\* and goes on with the next index of what is left; an index out of range is a panic.
Turn(loop, i) ==
    CASE ~loop.going -> loop
      [] loop.going /\ (i > Len(loop.r) \/ (i = Len(loop.r) /\ loop.r[i] = 0)) ->
             [going |-> FALSE, r |-> Panic]
      [] loop.going /\ i < Len(loop.r) /\ Redundant(loop.r, i) ->
             [going |-> TRUE, r |-> Tail(loop.r)]
      [] OTHER -> [going |-> FALSE, r |-> loop.r]

Strip(number) == FoldLeft(Turn, [going |-> TRUE, r |-> number], [i \in 1 .. NumSize |-> i]).r

\* Mutant: no sign byte is put in front.
SignedAsIs(number) == IF High(number[1]) THEN number ELSE Strip(number)

Signed(number) == IF High(number[1]) THEN <<0>> \o number ELSE Strip(number)

Field(tag, bytes) == <<tag, Len(bytes)>> \o bytes

\* SigPub.ToBytes.  The tags are 2 and 0x30 in the code.
IntegerTag  == 2
SequenceTag == 3
ToBytes(r, s) ==
    IF Panic \in {Signed(r), Signed(s)} THEN Panic
    ELSE LET pair == Field(SequenceTag, Field(IntegerTag, Signed(r)) \o Field(IntegerTag, Signed(s)))
         IN  <<Len(pair)>> \o pair

\* A signature: the key after its length, type 0 and the numbers.
SignedBy(sig) == <<Len(sig.pub)>> \o sig.pub \o <<0>> \o ToBytes(sig.r, sig.s)

\* Mutant: the signatures are counted, not their bytes.
SignatureSectionCounted(sigs) == Counted([i \in DOMAIN sigs |-> SignedBy(sigs[i])])

\* What VerifyRawTransaction appends to a transaction.
SignatureSection(sigs) == GetBytesWithLength(Join([i \in DOMAIN sigs |-> SignedBy(sigs[i])]))
=============================================================================
