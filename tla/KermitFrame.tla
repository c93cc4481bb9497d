---- MODULE KermitFrame ----
(***************************************************************************)
(* The framing of src/kermit.rs: build_packet with its three block checks, *)
(* and read_packet, which finds a packet in the bytes that arrive and      *)
(* decides whether it is whole.                                            *)
(***************************************************************************)
EXTENDS KermitCodec, SequencesExt, Bitwise

SOH == 1

\* crc16_kermit, a nibble at a time.
CrcNibble(crc, nibble) == (crc \div 16) ^^ ((((crc ^^ nibble) % 16) * 4225) % 65536)
CrcByte(crc, b) == CrcNibble(CrcNibble(crc, b % 16), b \div 16)
Crc16(s) == FoldLeft(CrcByte, 0, s)

Sum(s) == FoldLeft(+, 0, s)

\* The check characters over the length character and what follows it.
Check(chkt, s) ==
    CASE chkt = 2 -> LET v == Sum(s) % 4096 IN <<tochar(v \div 64), tochar(v % 64)>>
      [] chkt = 3 -> LET v == Crc16(s)
                     IN  <<tochar(v \div 4096), tochar((v \div 64) % 64), tochar(v % 64)>>
      [] OTHER   -> LET v == Sum(s) % 256 IN <<tochar((v + v \div 64) % 64)>>

\* A slip the runs must catch: the length leaves the check out.
BuildPacketShort(seq, type, data, p) ==
    LET covered == <<tochar(Len(data) + 2), tochar(seq % 64), type>> \o data
    IN  <<SOH>> \o covered \o Check(p.chkt, covered) \o <<p.eol>>

BuildPacket(seq, type, data, p) ==
    LET covered == <<tochar(Len(data) + p.chkt + 2), tochar(seq % 64), type>> \o data
    IN  [i \in 1 .. p.npad |-> p.padc] \o <<SOH>> \o covered
        \o Check(p.chkt, covered) \o <<p.eol>>

Malformed == [seq |-> -1, type |-> -1, data |-> <<>>]

\* read_packet over the bytes that have arrived: Malformed stands for every
\* error, running out of bytes before the deadline included.
ReadPacket(s, chkt) ==
    LET start == SelectInSeq(s, LAMBDA b : b = SOH)
        count == unchar(s[start + 1])
        last == start + 1 + count
    IN  IF start = 0 \/ start = Len(s) \/ count < 2 + chkt \/ Len(s) < last
        THEN Malformed
        ELSE LET covered == SubSeq(s, start + 1, last - chkt)
             IN  IF SubSeq(s, last - chkt + 1, last) # Check(chkt, covered)
                 THEN Malformed
                 ELSE [seq |-> unchar(covered[2]), type |-> covered[3],
                       data |-> SubSeq(covered, 4, Len(covered))]
====
