------------------------------ MODULE BitBuffer ------------------------------
(****************************************************************************)
(* The life of one bitstr.Buffer: bits are appended, set and cut off in any *)
(* order.  Truncate leaves the bits it cuts off in the words, and Append    *)
(* goes over them again.                                                    *)
(****************************************************************************)
EXTENDS BitString

CONSTANT MaxLen    \* bound on the length

VARIABLES
  buf,     \* the Buffer
  bits     \* the string of bits it stands for

vars == <<buf, bits>>

Init == buf = EmptyBuffer /\ bits = <<>>

AppendBit(v) ==
  /\ Len(bits) < MaxLen
  /\ buf' = BufAppend(buf, v)
  /\ bits' = Append(bits, v)

\* AppendByteLSB and AppendByteMSB
AppendByte(x, mask) ==
  LET src == [i \in 1 .. ByteBits |-> Bit(x, mask[i - 1])] IN
  /\ Len(bits) + ByteBits <= MaxLen
  /\ buf' = BufAppendAll(buf, src)
  /\ bits' = bits \o src

\* Set panics beyond the length.
Set(i, v) ==
  /\ i < buf.l
  /\ buf' = set(buf, i, v)
  /\ bits' = [bits EXCEPT ![i + 1] = v]

\* Truncate, and Reset with n = 0.
Truncate(n) ==
  /\ n < buf.l
  /\ buf' = BufTruncate(buf, n)
  /\ bits' = SubSeq(bits, 1, n)

Next ==
  \/ \E v \in {0, 1} : AppendBit(v)
  \/ \E x \in 0 .. 2^ByteBits - 1 : AppendByte(x, LSB) \/ AppendByte(x, MSB)
  \/ \E i \in 0 .. MaxLen - 1, v \in {0, 1} : Set(i, v)
  \/ \E n \in 0 .. MaxLen - 1 : Truncate(n)

Spec == Init /\ [][Next]_vars

\* Whatever was cut off before, the buffer, the String made from it and its
\* bytes in either order have the bits that were put in, and the bits past the
\* end of the last byte are zero.
SameBits ==
  /\ BufBits(buf) = bits
  /\ StringBits(buf) = bits
  /\ Len(bits) > 0 => BytesMSB(AsBytesMSB(BufBits(buf)), 0, buf.l) = bits
  /\ \A i \in Len(bits) .. Len(AsBytesMSB(bits)) * ByteBits - 1 :
       BytesMSB(AsBytesMSB(BufBits(buf)), 0, 0)[i + 1] = 0

=============================================================================
