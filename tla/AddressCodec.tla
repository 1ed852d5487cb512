---------------------------- MODULE AddressCodec ----------------------------
(***************************************************************************)
(* How nulsio_addrdec makes an address of a public key, and the two ways   *)
(* back: Base58Decode of nulsio_addrdec for the sender and the contract of *)
(* a token transfer, Base58Decode of nulsio_trans for an output.  A byte   *)
(* is a digit of base ByteBase, a character one of base Radix.             *)
(***************************************************************************)
EXTENDS Digits, FiniteSets, Functions

CONSTANTS
    ByteBase,   \* 256 in the code, a power of two
    Radix,      \* 58 in the code
    KeySize     \* bytes of the hash of a public key, 20 in the code

ASSUME CodecAssumption == ByteBase \in Nat \ {0, 1} /\ Radix \in Nat \ {0, 1} /\ KeySize \in Nat

BodyLen == KeySize + 3

\* The digits of a number, the highest first, without leading zeros.
DigitsIn(base, v) ==
    LET size == CHOOSE k \in 0 .. v : Power(base, k) > v /\ (k = 0 \/ Power(base, k - 1) <= v)
    IN  [i \in 1 .. size |-> DigitOf(base, v, size - i)]

\* How many zeros a sequence begins with, and that many zeros.
LeadingZeros(s) == Cardinality({n \in DOMAIN s : \A i \in 1 .. n : s[i] = 0})
Zeros(n) == [i \in 1 .. n |-> 0]

\* Mutant: leading zeros are lost.
Base58EncodeBare(bytes) == DigitsIn(Radix, ValueIn(ByteBase, bytes))

\* Base58Encode: the character of zero for each leading zero byte.
Base58Encode(bytes) ==
    Zeros(LeadingZeros(bytes)) \o DigitsIn(Radix, ValueIn(ByteBase, bytes))

\* The first bytes, without the checksum, which is not looked at.  Of a shorter sequence
\* the slice is a panic, or has zeros behind it.
Short == <<>>
CutOff(bytes) == IF Len(bytes) < BodyLen THEN Short ELSE SubSeq(bytes, 1, BodyLen)

\* Base58Decode of nulsio_addrdec: leading zeros apart, then the rest.
DecodeCut(chars) ==
    LET zeros   == LeadingZeros(chars)
        payload == SubSeq(chars, zeros + 1, Len(chars))
    IN  CutOff(Zeros(zeros) \o DigitsIn(ByteBase, ValueIn(Radix, payload)))

\* Base58Decode of nulsio_trans: the whole number from its low end, then the zeros.
\* newTxOut cuts off the checksum.
AddWeighed(sum, char) ==
    [number |-> sum.number + char * sum.weight, weight |-> sum.weight * Radix]
Whole(chars) == FoldLeft(AddWeighed, [number |-> 0, weight |-> 1], Reverse(chars)).number
DecodeWhole(chars) == Zeros(LeadingZeros(chars)) \o DigitsIn(ByteBase, Whole(chars))
OwnerOf(chars) == CutOff(DecodeWhole(chars))

\* The check byte: bit by bit, of the eight a byte has in the code.
Xor(x, y) ==
    SumFunction([n \in 0 .. 7 |-> ((DigitOf(2, x, n) + DigitOf(2, y, n)) % 2) * Power(2, n)])
        % ByteBase
GetXor(bytes) == FoldLeft(Xor, 0, bytes)

\* ShortToBytes: the low byte first.
ShortToBytes(v) == <<v % ByteBase, (v \div ByteBase) % ByteBase>>

\* GetAddressByPub, of the hash of a key: chain, type 1, hash and checksum.
BodyOf(chain, hash) == ShortToBytes(chain) \o <<1>> \o hash
AddressOf(chain, hash) ==
    LET body == BodyOf(chain, hash) IN Base58Encode(Append(body, GetXor(body)))

-----------------------------------------------------------------------------

\* An address is decoded to what it was made of, chain by chain and hash by hash,
\* by the decoder for senders and by the one for outputs alike (lines 49-77 of util.go,
\* 53-92 of base58_2.go, 13-14 of txOut.go).
AddressIsRead(chain, hash) ==
    LET address == AddressOf(chain, hash) IN
    /\ DecodeCut(address) = BodyOf(chain, hash)
    /\ OwnerOf(address) = BodyOf(chain, hash)
=============================================================================
