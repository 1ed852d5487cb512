--------------------------- MODULE FormatReader ---------------------------
(***************************************************************************)
(* A reader of the format Encoding writes, as a node has it: the reference *)
(* the encoding is checked against.  Each reader takes a value off the     *)
(* front of the bytes and gives it with the rest.                          *)
(***************************************************************************)
EXTENDS Encoding

Got(value, rest) == [value |-> value, rest |-> rest]

\* Where the bytes end too early, what there is.
First(bytes, n)   == SubSeq(bytes, 1, IF n < Len(bytes) THEN n ELSE Len(bytes))
Drop(bytes, n)    == SubSeq(bytes, n + 1, Len(bytes))
ByteAt(bytes, i)  == IF i \in DOMAIN bytes THEN bytes[i] ELSE 0

\* The number of some bytes, the lowest first.
Number(bytes) == ValueIn(Base, Reverse(bytes))

\* Bytes as they are, a number of a fixed size, a variable-length integer, bytes after
\* their length.
Raw(n, bytes)   == Got(First(bytes, n), Drop(bytes, n))
Fixed(n, bytes) == Got(Number(First(bytes, n)), Drop(bytes, n))

\* How many bytes follow the first, which is then a marker.
Following(byte) ==
    CASE byte = Base - 3 -> 2 [] byte = Base - 2 -> 4 [] byte = Base - 1 -> 8 [] OTHER -> 0

VarInt(bytes) ==
    LET size == Following(ByteAt(bytes, 1))
    IN  IF size = 0 THEN Got(ByteAt(bytes, 1), Drop(bytes, 1)) ELSE Fixed(size, Drop(bytes, 1))

WithLength(bytes) == LET size == VarInt(bytes) IN Raw(size.value, size.rest)

-----------------------------------------------------------------------------

\* The owner of an input ends with the index.
ReadIn(bytes) ==
    LET owner  == WithLength(bytes)
        hash   == Raw(HashSize, owner.value)
        index  == VarInt(hash.rest)
        amount == Fixed(8, owner.rest)
        lock   == Fixed(6, amount.rest)
    IN  Got([hash |-> hash.value, index |-> index.value, beyond |-> index.rest,
             amount |-> amount.value, lockTime |-> lock.value], lock.rest)

ReadOut(bytes) ==
    LET address == WithLength(bytes)
        amount  == Fixed(8, address.rest)
        lock    == Fixed(6, amount.rest)
    IN  Got([address |-> address.value, amount |-> amount.value, lockTime |-> lock.value], lock.rest)

\* The values of an argument are counted; there is one.
ReadArg(bytes) ==
    LET count == Fixed(1, bytes)
        arg   == WithLength(count.rest)
    IN  Got([count |-> count.value, arg |-> arg.value], arg.rest)

\* The numbers of a signature: their length, then a sequence of two integers, each with
\* its tag and its length.
IntegerOf(tag, size, number) ==
    Got([tag |-> tag, size |-> size, number |-> number.value], number.rest)
ReadInteger(bytes) ==
    LET tag    == Fixed(1, bytes)
        size   == Fixed(1, tag.rest)
    IN  IntegerOf(tag.value, size.value, Raw(size.value, size.rest))

ReadSignature(bytes) ==
    LET total == Fixed(1, bytes)
        tag   == Fixed(1, total.rest)
        size  == Fixed(1, tag.rest)
        r     == ReadInteger(size.rest)
        s     == ReadInteger(r.rest)
    IN  Got([total |-> total.value, tag |-> tag.value, size |-> size.value,
             r |-> r.value, s |-> s.value], s.rest)

\* A signature of a transaction: a key after its length, a type and the numbers.
SignatureOf(pub, type, numbers) ==
    Got([pub |-> pub, type |-> type, numbers |-> numbers.value], numbers.rest)
ReadSigned(bytes) ==
    LET size == Fixed(1, bytes)
        pub  == Raw(size.value, size.rest)
        type == Fixed(1, pub.rest)
    IN  SignatureOf(pub.value, type.value, ReadSignature(type.rest))

ReadItem(kind, bytes) ==
    CASE kind = "in" -> ReadIn(bytes) [] kind = "out" -> ReadOut(bytes)
      [] kind = "arg" -> ReadArg(bytes) [] kind = "signed" -> ReadSigned(bytes)

\* One item after the other, and no more than there are bytes.
Added(done, item) == Got(Append(done.value, item.value), item.rest)
NextItem(kind, done) == Added(done, ReadItem(kind, done.rest))
ReadItems(kind, count, bytes) ==
    FoldLeft(LAMBDA done, byte : NextItem(kind, done), Got(<<>>, bytes), First(bytes, count))

ReadCounted(kind, bytes) == LET count == VarInt(bytes) IN ReadItems(kind, count.value, count.rest)

\* The call of a contract: the description of its method is empty, and the count of its
\* arguments a byte.
ReadCall(bytes) ==
    LET sender   == Raw(BodySize, bytes)
        contract == Raw(BodySize, sender.rest)
        value    == Fixed(8, contract.rest)
        gasLimit == Fixed(8, value.rest)
        price    == Fixed(8, gasLimit.rest)
        method   == WithLength(price.rest)
        desc     == WithLength(method.rest)
        count    == Fixed(1, desc.rest)
        args     == ReadItems("arg", count.value, count.rest)
    IN  Got([sender |-> sender.value, contract |-> contract.value, value |-> value.value,
             gasLimit |-> gasLimit.value, price |-> price.value, method |-> method.value,
             desc |-> desc.value, args |-> args.value], args.rest)

\* What follows the first fields and the data.
ReadCoins(type, time, remark, data) ==
    LET ins  == ReadCounted("in", data.rest)
        outs == ReadCounted("out", ins.rest)
    IN  Got([type |-> type, time |-> time, remark |-> remark,
             data |-> data.value, ins |-> ins.value, outs |-> outs.value], outs.rest)

Decode(bytes) ==
    LET type   == Fixed(2, bytes)
        time   == Fixed(6, type.rest)
        remark == WithLength(time.rest)
    IN  ReadCoins(type.value, time.value, remark.value,
                  IF type.value = 2 THEN Raw(4, remark.rest) ELSE ReadCall(remark.rest))
=============================================================================
