---- MODULE MCKermitCodec ----
(***************************************************************************)
(* KermitCodec and KermitFrame for TLC.  The answers vary what the sender  *)
(* reads from them: the packet length, the padding, the 8th-bit quote and  *)
(* the check; one is cut short after its first field.  The bytes are one   *)
(* of every kind encode_byte tells apart.                                  *)
(***************************************************************************)
EXTENDS KermitFrame

Answer(maxl, npad, quote, chkt) ==
    <<tochar(maxl), tochar(5), tochar(npad), 64, tochar(13), 35, quote, 48 + chkt, 32>>

MCAnswers ==
    {Answer(maxl, 0, quote, chkt) :
        maxl \in {5, 8, 94}, quote \in {89, 38}, chkt \in {1, 2, 3}}
    \union {Answer(10, 2, 96, 2), Answer(8, 0, 64, 0), <<tochar(0)>>, <<>>}

MCBytes == {0, 35, 38, 127, 141, 193, 255}
MCFiles == UNION {[1 .. n -> MCBytes] : n \in {0, 1, 2}}
           \union {[i \in 1 .. 12 |-> (i * 37) % 256]}
MCNames == {<<65, 46, 66>>, <<35, 0, 200, 35>>}

LastPacket == packets[Len(packets)]
JustSent == stage = "loop" /\ packets # <<>>

\* What the sender frames is what a receiver with the same rules reads, after
\* any padding and whichever block check was agreed.
FrameReadBack ==
    JustSent =>
        ReadPacket(BuildPacket(70, 68, LastPacket, params), params.chkt)
            = [seq |-> 6, type |-> 68, data |-> LastPacket]

\* A bit turned over on the line, in any byte the check covers after the
\* length, never makes a packet that reads as another.
DamageIsSeen ==
    JustSent =>
        LET frame == BuildPacket(1, 68, LastPacket, params)
            first == params.npad + 3
        IN  \A j \in first .. Len(frame) - 1 - params.chkt : \A bit \in {1, 64, 128} :
                ReadPacket([frame EXCEPT ![j] = @ ^^ bit], params.chkt) = Malformed

\* Framing is sound: what is sent is read back, and what is damaged is seen.
FramesSound == FrameReadBack /\ DamageIsSeen
====
