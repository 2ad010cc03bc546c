------------------------------ MODULE BitString ------------------------------
(****************************************************************************)
(* internal/bitstr: strings of bits kept in words and bytes.  Bytes and     *)
(* words are numbers; their widths (8 and 64) are parameters.               *)
(****************************************************************************)
EXTENDS Integers, Sequences

CONSTANTS ByteBits, WordBits

ASSUME WidthAssumption == ByteBits \in Nat \ {0} /\ WordBits \in Nat \ {0}

Bit(x, i) == (x \div 2^i) % 2

\* mask8LSB and mask8MSB: the bit of its byte that is the i-th, from 0.
LSB == [i \in Nat |-> i % ByteBits]

MSB == [i \in Nat |-> ByteBits - 1 - (i % ByteBits)]

\* The bits from begin up to end; an end of zero is that of the bytes.
BytesMSB(bytes, begin, end) ==
  LET last == IF end = 0 THEN Len(bytes) * ByteBits ELSE end
  IN [i \in 1 .. last - begin |->
        LET j == begin + i - 1 IN Bit(bytes[j \div ByteBits + 1], MSB[j])]

DivCeil(x, z) == x \div z + (IF x % z > 0 THEN 1 ELSE 0)

\* The bytes of a source of bits; the last is filled up with zeros.
AsBytes(bits, mask) ==
  LET or[b \in Nat, i \in 0 .. ByteBits] ==
        LET j == (b - 1) * ByteBits + i
        IN IF i = 0 THEN 0
           ELSE or[b, i - 1] + (IF j <= Len(bits) THEN bits[j] * 2^mask[j - 1] ELSE 0)
  IN [b \in 1 .. DivCeil(Len(bits), ByteBits) |-> or[b, ByteBits]]

AsBytesLSB(bits) == AsBytes(bits, LSB)

AsBytesMSB(bits) == AsBytes(bits, MSB)

----------------------------------------------------------------------------
\* Buffer

EmptyBuffer == [x |-> <<>>, l |-> 0]

set(b, i, v) ==
  LET w == i \div WordBits + 1
      m == 2^(i % WordBits)
  IN [b EXCEPT !.x[w] = @ + (v - Bit(@, i % WordBits)) * m]

BufAt(b, i) == Bit(b.x[i \div WordBits + 1], i % WordBits)

BufAppend(b, v) ==
  LET grown == IF Len(b.x) * WordBits <= b.l THEN [b EXCEPT !.x = Append(@, 0)] ELSE b
  IN [set(grown, b.l, v) EXCEPT !.l = @ + 1]

BufAppendAll(b, bits) ==
  LET after[i \in 0 .. Len(bits)] == IF i = 0 THEN b ELSE BufAppend(after[i - 1], bits[i])
  IN after[Len(bits)]

\* The words stay as they are.
BufTruncate(b, n) == [b EXCEPT !.l = n]

BufBits(b) == [i \in 1 .. b.l |-> BufAt(b, i - 1)]

\* String: the buffer's bytes, whose bits are read LSB first.
StringBits(b) ==
  LET bytes == AsBytesLSB(BufBits(b))
  IN [i \in 1 .. b.l |-> Bit(bytes[(i - 1) \div ByteBits + 1], LSB[i - 1])]

FromSource(bits) == StringBits(BufAppendAll(EmptyBuffer, bits))

=============================================================================
