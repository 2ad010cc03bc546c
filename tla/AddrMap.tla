------------------------------- MODULE AddrMap -------------------------------
(****************************************************************************)
(* How INET256 addresses are mapped into an IPv6 subnet: the number of      *)
(* leading zeros in a few bits, then the bits after the first one, as many  *)
(* as there is room for.  The real sizes are 32 bytes, 16 bytes, a subnet   *)
(* of 7 bits and a count of 7 bits.                                         *)
(****************************************************************************)
EXTENDS BitString

CONSTANTS
  AddrBytes,   \* bytes of an INET256 address
  IPBytes,     \* bytes of an IPv6 address
  NetBytes,    \* the subnet's address, as bytes
  NetBits,     \* and the length of its prefix
  CountBits,   \* the bits of the count
  None

Byte == 0 .. 2^ByteBits - 1

Address == [1 .. AddrBytes -> Byte]

AddrBits(a) == FromSource(BytesMSB(a, 0, AddrBytes * ByteBits))

\* writeUint7 and readUint7: the most significant bit comes first.
WriteCount(x) == [i \in 1 .. CountBits |-> Bit(x, CountBits - i)]

ReadCount(bits) ==
  LET n[i \in 0 .. CountBits] == IF i = 0 THEN 0 ELSE 2 * n[i - 1] + bits[i] IN n[CountBits]

LeadingZeros(bits) ==
  CHOOSE n \in 0 .. Len(bits) :
    /\ \A i \in 1 .. n : bits[i] = 0
    /\ n < Len(bits) => bits[n + 1] = 1

\* Variant: the first one is written again.
CompressKeepsOne(buf, x) ==
  LET firstOne == LeadingZeros(x)
  IN BufAppendAll(BufAppendAll(buf, WriteCount(firstOne)), SubSeq(x, firstOne + 1, Len(x)))

\* It panics where the count does not fit.
compress(buf, x) ==
  LET firstOne == LeadingZeros(x)
  IN BufAppendAll(BufAppendAll(buf, WriteCount(firstOne)), SubSeq(x, firstOne + 2, Len(x)))

Fits(a) == LeadingZeros(AddrBits(a)) < 2^CountBits

uncompress(x) ==
  FromSource([i \in 1 .. ReadCount(x) |-> 0] \o <<1>> \o SubSeq(x, CountBits + 1, Len(x)))

IPv6FromINET256(a) ==
  LET net == BufAppendAll(EmptyBuffer, BytesMSB(NetBytes, 0, NetBits))
      buf == BufTruncate(compress(net, AddrBits(a)), IPBytes * ByteBits)
  IN AsBytesMSB(StringBits(buf))

InSubnet(ip) == BytesMSB(ip, 0, NetBits) = BytesMSB(NetBytes, 0, NetBits)

\* The prefix and number of bits for FindAddr.
INET256PrefixFromIPv6(ip) ==
  LET p == uncompress(FromSource(BytesMSB(ip, NetBits, IPBytes * ByteBits)))
  IN IF InSubnet(ip) THEN [bytes |-> AsBytesMSB(p), nbits |-> Len(p)] ELSE None

----------------------------------------------------------------------------
\* inet256.HasPrefix

\* The leading zeros of the exclusive or of two bytes.
Agree(x, y) == LeadingZeros([i \in 1 .. ByteBits |->
                               (Bit(x, ByteBits - i) + Bit(y, ByteBits - i)) % 2])

\* Bytes are compared until enough bits agree or one does not.
HasPrefix(x, prefix, nbits) ==
  LET total[i \in 0 .. Len(prefix)] == IF i = 0 THEN 0 ELSE total[i - 1] + Agree(x[i], prefix[i])
  IN \E i \in 1 .. Len(prefix) :
       /\ i <= Len(x)
       /\ total[i] >= nbits
       /\ \A j \in 1 .. i - 1 : Agree(x[j], prefix[j]) = ByteBits

=============================================================================
