---- MODULE KermitCodec ----
(***************************************************************************)
(* How src/kermit.rs turns a file into data packets: the parameters read   *)
(* from the board's answer to Send-Init, the quoting of a byte, and the    *)
(* loop of send_file that fills one packet after another up to the budget  *)
(* those parameters leave.  Sending a packet is KermitTransfer's business. *)
(***************************************************************************)
EXTENDS Integers, Sequences

CONSTANTS
    Answers,        \* the data of the boards' answers to Send-Init
    Names,          \* file names, as bytes
    Files           \* file contents

Byte == 0 .. 255

ASSUME CodecAssumption ==
    /\ Answers \subseteq Seq(Byte)
    /\ Names \subseteq Seq(Byte)
    /\ Files \subseteq Seq(Byte)

NoQuote == -1       \* Option::None for the 8th-bit quote
Qctl == 35          \* '#'

tochar(b) == b + 32
unchar(b) == (b - 32) % 256

\* byte ^ 0x40
ctl(b) == IF (b \div 64) % 2 = 1 THEN b - 64 ELSE b + 64

(***************************************************************************)
(* parse_params                                                            *)
(***************************************************************************)
Missing == -1       \* an answer that is too short to have the field
Get(data, i) == IF i <= Len(data) THEN data[i] ELSE Missing

AtMost(a, b) == IF a < b THEN a ELSE b
AtLeast(a, b) == IF a > b THEN a ELSE b

Unless(b, default) == IF b = Missing \/ unchar(b) = 0 THEN default ELSE unchar(b)

\* Neither 'Y', 'N' nor a space, and printable; where the Kermit protocol
\* allows only 33..62 and 96..126.
Qbin(b) == IF b \in 33 .. 126 /\ b \notin {78, 89} THEN b ELSE NoQuote

Chkt(b) == IF b \in {49, 50, 51} THEN b - 48 ELSE 1

ParseParams(data) ==
    [maxl |-> AtMost(Unless(Get(data, 1), 80), 94),
     npad |-> Unless(Get(data, 3), 0),
     padc |-> IF Get(data, 4) = Missing THEN 0 ELSE ctl(Get(data, 4)),
     eol  |-> Unless(Get(data, 5), 13),
     qbin |-> Qbin(Get(data, 7)),
     chkt |-> Chkt(Get(data, 8))]

ParamsType ==
    [maxl : 0 .. 94, npad : Byte, padc : Byte, eol : Byte,
     qbin : 33 .. 126 \union {NoQuote}, chkt : {1, 2, 3}]

(***************************************************************************)
(* encode_byte, and what a Kermit receiver makes of its output             *)
(***************************************************************************)
Low(b) == b % 128
Control(b) == Low(b) < 32 \/ Low(b) = 127

\* Slips the runs must catch: the 8th bit hides a control character; and the
\* masked byte is what is quoted, which the code's own comment warns of.
QuotedSevenBit(b, q) ==
    IF b < 32 \/ b = 127 THEN <<Qctl, ctl(b)>>
    ELSE IF Low(b) \in {Qctl, q} THEN <<Qctl, b>>
    ELSE <<b>>

QuotedMasked(b, q) ==
    IF Control(b) THEN <<Qctl, ctl(Low(b))>>
    ELSE IF Low(b) \in {Qctl, q} THEN <<Qctl, b>>
    ELSE <<b>>

Quoted(b, q) ==
    IF Control(b) THEN <<Qctl, ctl(b)>>
    ELSE IF Low(b) \in {Qctl, q} THEN <<Qctl, b>>
    ELSE <<b>>

EncodeByte(b, q) ==
    IF q # NoQuote /\ b >= 128 THEN <<q>> \o Quoted(Low(b), q) ELSE Quoted(b, q)

\* The receiver's rule: a quote makes the next character a control character if
\* it is one's image, and itself otherwise.
Unquoted(c) == IF Low(c) \in 63 .. 95 THEN ctl(c) ELSE c

\* The byte that starts at character i, and where the next one does.
DecodeAt(data, i, q) ==
    LET high == q # NoQuote /\ data[i] = q
        start == IF high THEN i + 1 ELSE i
        quoted == data[start] = Qctl
        c == IF quoted THEN Unquoted(data[start + 1]) ELSE data[start]
    IN  [value |-> IF high THEN c + 128 ELSE c,
         next |-> IF quoted THEN start + 2 ELSE start + 1]

\* What is read from each character on; a quote with nothing behind it is the end.
Decoding(data, q) ==
    LET dec[i \in 1 .. Len(data) + 1] ==
            IF i > Len(data) THEN <<>>
            ELSE LET d == DecodeAt(data, i, q)
                 IN  <<d.value>> \o dec[AtMost(d.next, Len(data) + 1)]
    IN  dec

Decode(data, q) == Decoding(data, q)[1]

(***************************************************************************)
(* send_file                                                               *)
(***************************************************************************)
Overhead(params) == params.chkt + 2

Budget(params) == AtLeast(params.maxl - Overhead(params), 4)

VARIABLES
    params,         \* what the board's answer was parsed to
    name,           \* the file's name
    bytes,          \* its contents
    index,          \* how many bytes of the name, then of the contents, are encoded
    chunk,          \* the packet being filled
    packets,        \* the data of the packets sent, the header's first
    stage           \* where send_file is

vars == <<params, name, bytes, index, chunk, packets, stage>>

Init ==
    /\ params \in {ParseParams(a) : a \in Answers}
    /\ name \in Names
    /\ bytes \in Files
    /\ index = 0
    /\ chunk = <<>>
    /\ packets = <<>>
    /\ stage = "header"

EncodeName ==
    /\ stage = "header"
    /\ index < Len(name)
    /\ chunk' = chunk \o EncodeByte(name[index + 1], params.qbin)
    /\ index' = index + 1
    /\ UNCHANGED <<params, name, bytes, packets, stage>>

\* The file name goes into the one header packet, or is refused.
SendHeader ==
    /\ stage = "header"
    /\ index = Len(name)
    /\ Len(chunk) <= Budget(params)
    /\ packets' = <<chunk>>
    /\ stage' = "loop"
    /\ index' = 0
    /\ chunk' = <<>>
    /\ UNCHANGED <<params, name, bytes>>

RefuseName ==
    /\ stage = "header"
    /\ index = Len(name)
    /\ Len(chunk) > Budget(params)
    /\ stage' = "refused"
    /\ UNCHANGED <<params, name, bytes, index, chunk, packets>>

StartChunk ==
    /\ stage = "loop"
    /\ index < Len(bytes)
    /\ chunk' = <<>>
    /\ stage' = "filling"
    /\ UNCHANGED <<params, name, bytes, index, packets>>

\* A slip the runs must catch: room for one more character is enough.
RoomForOne == index < Len(bytes) /\ Len(chunk) + 1 <= Budget(params)

Room == index < Len(bytes) /\ Len(chunk) + 4 <= Budget(params)

EncodeNext ==
    /\ stage = "filling"
    /\ Room
    /\ chunk' = chunk \o EncodeByte(bytes[index + 1], params.qbin)
    /\ index' = index + 1
    /\ UNCHANGED <<params, name, bytes, packets, stage>>

SendChunk ==
    /\ stage = "filling"
    /\ ~Room
    /\ packets' = Append(packets, chunk)
    /\ stage' = "loop"
    /\ UNCHANGED <<params, name, bytes, index, chunk>>

Finish ==
    /\ stage = "loop"
    /\ index = Len(bytes)
    /\ stage' = "done"
    /\ UNCHANGED <<params, name, bytes, index, chunk, packets>>

Done == stage \in {"done", "refused"} /\ UNCHANGED vars

Next ==
    \/ EncodeName \/ SendHeader \/ RefuseName
    \/ StartChunk \/ EncodeNext \/ SendChunk \/ Finish
    \/ Done

Spec == Init /\ [][Next]_vars

(***************************************************************************)
(* Properties                                                              *)
(***************************************************************************)

\* The one type invariant: send_file's locals.
TypeOK ==
    /\ params \in ParamsType
    /\ name \in Seq(Byte)
    /\ bytes \in Seq(Byte)
    /\ index \in 0 .. Len(IF stage \in {"header", "refused"} THEN name ELSE bytes)
    /\ chunk \in Seq(Byte)
    /\ packets \in Seq(Seq(Byte))
    /\ stage \in {"header", "loop", "filling", "done", "refused"}

\* Every data packet carries data, however small the board's packets, so that the
\* loop of send_file gets on; and no packet is longer than the board said it takes,
\* although the byte that closes it may still grow to three characters.  A board that
\* takes fewer than six characters beside the check is apart: Budget's floor
\* overrules it.
PacketFits ==
    /\ \A i \in 2 .. Len(packets) : packets[i] # <<>>
    /\ \A i \in 1 .. Len(packets) :
          \/ Len(packets[i]) + Overhead(params) <= params.maxl
          \/ params.maxl < Overhead(params) + 4 /\ Len(packets[i]) <= 4

\* An 8th-bit quote of the ranges the protocol allows.  parse_params takes
\* others too, and '#' itself, and then a file does not survive.
LegalQuote(q) ==
    \/ q = NoQuote
    \/ q \in 33 .. 126 /\ q # Qctl /\ q \notin 63 .. 95

\* What the board has of the file after each packet.
Received ==
    LET decoded[i \in 1 .. Len(packets)] ==
            IF i = 1 THEN <<>>
            ELSE decoded[i - 1] \o Decode(packets[i], params.qbin)
    IN  decoded

\* What the board decodes, packet by packet, is the file so far: no quoted pair
\* is torn apart at the end of a packet and no byte changes on the way.
RoundTrip ==
    stage \in {"loop", "done"} /\ LegalQuote(params.qbin) =>
        Received[Len(packets)] = SubSeq(bytes, 1, index)

Clean(data) == \A j \in 1 .. Len(data) : ~Control(data[j])

\* Nothing encoded is a control character, so the start-of-packet mark a
\* receiver resynchronises on is never inside a packet.
NoControlInside ==
    \A i \in 1 .. Len(packets) : Clean(packets[i])

(***************************************************************************)
(* The inductive invariant: the packet being filled stays within the       *)
(* budget, and is only empty while there is a byte to put in it.           *)
(***************************************************************************)
ChunkOK ==
    /\ Clean(chunk)
    /\ stage \in {"loop", "filling", "done"} => Len(chunk) <= Budget(params)
    /\ stage = "filling" /\ chunk = <<>> => index < Len(bytes)

PacketsOK ==
    \A i \in 1 .. Len(packets) :
        /\ Len(packets[i]) <= Budget(params)
        /\ Clean(packets[i])
        /\ i >= 2 => packets[i] # <<>>

HeaderFirst == stage \in {"header", "refused"} <=> packets = <<>>

IndInv == TypeOK /\ ChunkOK /\ PacketsOK /\ HeaderFirst
====
