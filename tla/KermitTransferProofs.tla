---- MODULE KermitTransferProofs ----
(***************************************************************************)
(* Proofs about KermitTransfer for every file, modulus, retry count and    *)
(* fault budget: the inductive invariant, the safety properties it gives,  *)
(* that the transfer implements FileTransfer, and that on a calm line no   *)
(* packet runs out of attempts.                                            *)
(***************************************************************************)
EXTENDS MCKermitTransfer, FiniteSetTheorems, TLAPS

USE DEF FatalEvents

(***************************************************************************)
(* Arithmetic of sequence numbers                                          *)
(***************************************************************************)

\* Division by the modulus, in the form the next lemma needs.
LEMMA SeqDivision ==
    \A n \in Nat : /\ n = SeqMod * (n \div SeqMod) + (n % SeqMod)
                   /\ n % SeqMod \in 0 .. SeqMod - 1
                   /\ n \div SeqMod \in Nat
  BY TransferAssumption, SMTT(30)

\* No multiple of the modulus is one.
LEMMA NoUnitMultiple == ASSUME NEW d \in Int, SeqMod * d = 1 PROVE FALSE
  <1>1. CASE d <= 0 BY <1>1, TransferAssumption, SMTT(30)
  <1>2. CASE d >= 1 BY <1>2, TransferAssumption, SMTT(30)
  <1> QED BY <1>1, <1>2

\* Neighbouring packets carry different numbers: what stop-and-wait needs of
\* the modulo-64 counter.
LEMMA NeighboursDiffer == \A n \in Nat : SeqOf(n) # SeqOf(n + 1)
  <1> SUFFICES ASSUME NEW n \in Nat, n % SeqMod = (n + 1) % SeqMod
               PROVE FALSE
    BY DEF SeqOf
  <1> DEFINE a == n \div SeqMod
             b == (n + 1) \div SeqMod
             r == n % SeqMod
  <1>1. n = SeqMod * a + r /\ a \in Nat /\ r \in Int
    BY SeqDivision, TransferAssumption
  <1>2. n + 1 = SeqMod * b + r /\ b \in Nat
    BY SeqDivision, TransferAssumption
  <1> HIDE DEF a, b, r
  <1>3. SeqMod * (b - a) = 1
    BY <1>1, <1>2, TransferAssumption, SMTT(30)
  <1> QED BY <1>3, <1>1, <1>2, NoUnitMultiple

\* A number fits its field.
LEMMA SeqOfType == \A n \in Nat : SeqOf(n) \in 0 .. SeqMod - 1
  BY SeqDivision DEF SeqOf

(***************************************************************************)
(* Lines                                                                   *)
(***************************************************************************)

\* What taking the first message off a line leaves.
LEMMA TailOfLine ==
    ASSUME NEW S, NEW q \in Seq(S), q # <<>>
    PROVE  /\ Head(q) = q[1] /\ Head(q) \in S
           /\ Tail(q) \in Seq(S)
           /\ Len(q) \in Nat /\ Len(q) >= 1
           /\ Len(Tail(q)) = Len(q) - 1
           /\ \A i \in 1 .. Len(Tail(q)) : Tail(q)[i] = q[i + 1]
  OBVIOUS

\* What putting a message on a line leaves.
LEMMA AppendToLine ==
    ASSUME NEW S, NEW q \in Seq(S), NEW m \in S
    PROVE  /\ Append(q, m) \in Seq(S)
           /\ Len(q) \in Nat
           /\ Len(Append(q, m)) = Len(q) + 1
           /\ \A i \in 1 .. Len(q) : Append(q, m)[i] = q[i]
           /\ Append(q, m)[Len(q) + 1] = m
  OBVIOUS

\* There is always an attempt.
LEMMA AttemptsType == Attempts \in Nat /\ Attempts >= 1
  BY TransferAssumption DEF Attempts

(***************************************************************************)
(* The inductive invariant                                                 *)
(***************************************************************************)

\* Every transfer starts in the invariant.
LEMMA InitIndInv == Init => IndInv
  <1> SUFFICES ASSUME Init PROVE IndInv OBVIOUS
  <1> USE TransferAssumption, AttemptsType
  <1>1. TypeOK
    <2>1. idx \in Index /\ tries \in 0 .. Attempts /\ reported \in 0 .. NumChunks /\ faults \in 0 .. MaxFaults
      BY DEF Init, Index, Final
    <2>2. toBoard \in Seq(Packets) /\ toHost \in Seq(Replies) /\ got \in Seq(Index)
      BY DEF Init
    <2>3. cancel \in BOOLEAN BY DEF Init
    <2> QED BY <2>1, <2>2, <2>3 DEF Init, TypeOK
  <1>2. InOrder BY DEF Init, InOrder
  <1>3. Position BY DEF Init, Position, Final
  <1>4. PacketsFollow /\ RepliesFollow BY DEF Init, PacketsFollow, RepliesFollow
  <1>5. ReportFollows BY DEF Init, ReportFollows
  <1> QED BY <1>1, <1>2, <1>3, <1>4, <1>5 DEF IndInv

(***************************************************************************)
(* What a step on a line does to the parts of the invariant                *)
(***************************************************************************)

\* A packet taken off the line, or lost.
LEMMA PacketTaken ==
    ASSUME TypeOK, PacketsFollow, toBoard # <<>>, toBoard' = Tail(toBoard),
           UNCHANGED <<idx, got>>
    PROVE  PacketsFollow' /\ toBoard' \in Seq(Packets)
  <1>1. /\ toBoard \in Seq(Packets) /\ Len(toBoard) \in Nat
        /\ toBoard' \in Seq(Packets)
        /\ Len(toBoard') = Len(toBoard) - 1
        /\ \A i \in 1 .. Len(toBoard') : toBoard'[i] = toBoard[i + 1]
    BY TailOfLine DEF TypeOK
  <1>2. \A i \in 1 .. Len(toBoard') : i + 1 \in 1 .. Len(toBoard)
    BY <1>1
  <1> QED BY <1>1, <1>2 DEF PacketsFollow

\* A packet sent: the one the sender is at.
LEMMA PacketSent ==
    ASSUME TypeOK, PacketsFollow, toBoard' = Append(toBoard, Packet),
           UNCHANGED <<idx, got>>
    PROVE  PacketsFollow' /\ toBoard' \in Seq(Packets)
  <1>1. idx \in Nat /\ idx \in Index BY TransferAssumption DEF TypeOK, Index
  <1>2. Packet \in Packets /\ Packet.n = idx /\ Packet.seq = SeqOf(idx)
    BY <1>1, SeqOfType DEF Packet, Packets
  <1> HIDE DEF Packet
  <1>3. /\ toBoard \in Seq(Packets) /\ Len(toBoard) \in Nat
        /\ toBoard' \in Seq(Packets)
        /\ Len(toBoard') = Len(toBoard) + 1
        /\ \A i \in 1 .. Len(toBoard) : toBoard'[i] = toBoard[i]
        /\ toBoard'[Len(toBoard) + 1] = Packet
    BY <1>2, AppendToLine DEF TypeOK
  <1>4. \A i \in 1 .. Len(toBoard') : i \in 1 .. Len(toBoard) \/ i = Len(toBoard) + 1
    BY <1>3
  <1>5. \A i \in 1 .. Len(toBoard) : toBoard[i].n \in {idx - 1, idx}
    BY DEF PacketsFollow
  <1> QED BY <1>1, <1>2, <1>3, <1>4, <1>5 DEF PacketsFollow

\* An answer read, or lost.
LEMMA ReplyTaken ==
    ASSUME TypeOK, RepliesFollow, toHost # <<>>, toHost' = Tail(toHost),
           UNCHANGED <<idx, got>>
    PROVE  RepliesFollow' /\ toHost' \in Seq(Replies)
  <1>1. /\ toHost \in Seq(Replies) /\ Len(toHost) \in Nat
        /\ toHost' \in Seq(Replies)
        /\ Len(toHost') = Len(toHost) - 1
        /\ \A i \in 1 .. Len(toHost') : toHost'[i] = toHost[i + 1]
    BY TailOfLine DEF TypeOK
  <1>2. \A i \in 1 .. Len(toHost') : i + 1 \in 1 .. Len(toHost)
    BY <1>1
  <1> QED BY <1>1, <1>2 DEF RepliesFollow, Ack

\* An answer that acknowledges nothing.
LEMMA OtherReplySent ==
    ASSUME TypeOK, RepliesFollow, NEW r \in Replies, r.type # "Y",
           toHost' = Append(toHost, r), UNCHANGED <<idx, got>>
    PROVE  RepliesFollow' /\ toHost' \in Seq(Replies)
  <1>1. /\ toHost \in Seq(Replies) /\ Len(toHost) \in Nat
        /\ toHost' \in Seq(Replies)
        /\ Len(toHost') = Len(toHost) + 1
        /\ \A i \in 1 .. Len(toHost) : toHost'[i] = toHost[i]
        /\ toHost'[Len(toHost) + 1] = r
    BY AppendToLine DEF TypeOK
  <1>2. \A i \in 1 .. Len(toHost') : i \in 1 .. Len(toHost) \/ i = Len(toHost) + 1
    BY <1>1
  <1> QED BY <1>1, <1>2 DEF RepliesFollow, Ack

\* An acknowledgement of the packet the board has just stored, or of the one
\* before it again.
LEMMA AckSent ==
    ASSUME TypeOK, RepliesFollow, NEW r \in Replies, r.type = "Y",
           r.seq = SeqOf(r.of), r.of \in Index,
           r.of \in {idx - 1, idx},
           r.of = idx => Len(got') = idx + 1,
           r.of = idx - 1 => Len(got) # idx + 1,
           toHost' = Append(toHost, r), UNCHANGED idx,
           Len(got) = idx + 1 => Len(got') = idx + 1
    PROVE  RepliesFollow' /\ toHost' \in Seq(Replies)
  <1>1. /\ toHost \in Seq(Replies) /\ Len(toHost) \in Nat
        /\ toHost' \in Seq(Replies)
        /\ Len(toHost') = Len(toHost) + 1
        /\ \A i \in 1 .. Len(toHost) : toHost'[i] = toHost[i]
        /\ toHost'[Len(toHost) + 1] = r
    BY AppendToLine DEF TypeOK
  <1>2. \A i \in 1 .. Len(toHost') : i \in 1 .. Len(toHost) \/ i = Len(toHost) + 1
    BY <1>1
  <1>3. idx \in Int BY DEF TypeOK, Index
  <1>4. \A i \in 1 .. Len(toHost) : Ack(i) => toHost[i].of <= r.of
    BY <1>3 DEF RepliesFollow
  <1> QED BY <1>1, <1>2, <1>3, <1>4 DEF RepliesFollow, Ack

(***************************************************************************)
(* The steps                                                               *)
(***************************************************************************)

\* A step that moves neither the transfer's position nor a line: a miss, a
\* cancellation, a refused name, the cancel flag, a board that stops.
LEMMA PositionKept ==
    ASSUME IndInv, UNCHANGED <<idx, reported, got, toBoard, toHost>>,
           sender' \in {"send", "wait"} \union Ended,
           sender' = "ok" => sender = "ok",
           sender' = "send" => tries' < Attempts,
           tries' \in 0 .. Attempts, cancel' \in BOOLEAN,
           faults' \in 0 .. MaxFaults,
           board' = board \/ (board = "receiving" /\ board' \in {"aborted", "dead"})
    PROVE  IndInv'
  <1>1. TypeOK'
    <2>1. cancel' \in BOOLEAN OBVIOUS
    <2>2. board' \in {"receiving", "left", "aborted", "dead"}
      BY DEF IndInv, TypeOK
    <2> QED BY <2>1, <2>2 DEF IndInv, TypeOK
  <1>2. InOrder' BY DEF IndInv, InOrder
  <1>3. Position' BY DEF IndInv, Position
  <1>4. PacketsFollow' BY DEF IndInv, PacketsFollow
  <1>5. RepliesFollow' BY DEF IndInv, RepliesFollow, Ack
  <1>6. ReportFollows' BY DEF IndInv, ReportFollows
  <1> QED BY <1>1, <1>2, <1>3, <1>4, <1>5, <1>6 DEF IndInv

\* A step that changes the two lines only, apart from the sender's own state.
LEMMA LinesMoved ==
    ASSUME IndInv, UNCHANGED <<idx, reported, got>>,
           board' = board \/ (board = "receiving" /\ board' \in {"aborted", "dead"}),
           PacketsFollow', toBoard' \in Seq(Packets),
           RepliesFollow', toHost' \in Seq(Replies),
           sender' \in {"send", "wait"} \union Ended,
           sender' = "ok" => sender = "ok",
           sender' = "send" => tries' < Attempts,
           tries' \in 0 .. Attempts, cancel' \in BOOLEAN,
           faults' \in 0 .. MaxFaults
    PROVE  IndInv'
  <1>1. TypeOK'
    <2>1. cancel' \in BOOLEAN OBVIOUS
    <2>2. board' \in {"receiving", "left", "aborted", "dead"}
      BY DEF IndInv, TypeOK
    <2> QED BY <2>1, <2>2 DEF IndInv, TypeOK
  <1>2. InOrder' BY DEF IndInv, InOrder
  <1>3. Position' BY DEF IndInv, Position
  <1>6. ReportFollows' BY DEF IndInv, ReportFollows
  <1> QED BY <1>1, <1>2, <1>3, <1>6 DEF IndInv

\* A line the step leaves alone keeps its part of the invariant.
LEMMA LinesKept ==
    ASSUME IndInv, UNCHANGED <<idx, got>>
    PROVE  /\ UNCHANGED toBoard => PacketsFollow' /\ toBoard' \in Seq(Packets)
           /\ UNCHANGED toHost => RepliesFollow' /\ toHost' \in Seq(Replies)
  <1>1. UNCHANGED toBoard => PacketsFollow' /\ toBoard' \in Seq(Packets)
    BY DEF IndInv, TypeOK, PacketsFollow
  <1>2. UNCHANGED toHost => RepliesFollow' /\ toHost' \in Seq(Replies)
    BY DEF IndInv, TypeOK, RepliesFollow, Ack
  <1> QED BY <1>1, <1>2

\* A missed answer leaves another attempt or none.
LEMMA AfterMissType ==
    ASSUME IndInv
    PROVE  /\ AfterMiss \in {"send", "exhausted"}
           /\ AfterMiss = "send" => tries < Attempts
  BY DEF AfterMiss

\* The acknowledgement the sender takes is of the packet it is sending, and the
\* board has that packet.
LEMMA AckIsCurrent ==
    ASSUME IndInv, toHost # <<>>, Acknowledges(Head(toHost))
    PROVE  /\ Len(got) = idx + 1
           /\ \A i \in 1 .. Len(toHost) : Ack(i) => toHost[i].of = idx
  <1>1. /\ Head(toHost) = toHost[1] /\ 1 \in 1 .. Len(toHost)
    BY TailOfLine DEF IndInv, TypeOK
  <1>2. /\ Ack(1) /\ toHost[1].of \in Index /\ toHost[1].of \in {idx - 1, idx}
        /\ toHost[1].seq = SeqOf(toHost[1].of)
        /\ toHost[1].of = idx => Len(got) = idx + 1
    BY <1>1 DEF IndInv, RepliesFollow, Acknowledges, Ack
  <1>3. idx \in Nat /\ Index \subseteq Nat
    BY TransferAssumption DEF IndInv, TypeOK, Index
  <1>4. toHost[1].of = idx
    <2>1. CASE idx = 0 BY <2>1, <1>2, <1>3
    <2>2. CASE idx # 0 /\ toHost[1].of = idx - 1
      <3>1. SeqOf(idx - 1) = SeqOf(idx)
        BY <2>2, <1>1, <1>2 DEF Acknowledges
      <3>2. idx - 1 \in Nat /\ (idx - 1) + 1 = idx BY <2>2, <1>3
      <3> QED BY <3>1, <3>2, NeighboursDiffer
    <2> QED BY <2>1, <2>2, <1>2
  <1>5. ASSUME NEW i \in 1 .. Len(toHost), Ack(i) PROVE toHost[i].of = idx
    <2>1. toHost[i].of \in {idx - 1, idx}
      BY <1>5 DEF IndInv, RepliesFollow
    <2>2. CASE i = 1 BY <2>2, <1>4
    <2>3. CASE 1 < i
      <3>1. toHost[1].of <= toHost[i].of
        BY <2>3, <1>1, <1>2, <1>5 DEF IndInv, RepliesFollow
      <3> QED BY <3>1, <2>1, <1>3, <1>4
    <2> QED BY <2>2, <2>3, <1>5
  <1> QED BY <1>2, <1>4, <1>5

\* The sender moves on.
LEMMA ReadAckStep == ASSUME IndInv, ReadAck PROVE IndInv'
  <1>1. /\ Len(got) = idx + 1
        /\ \A i \in 1 .. Len(toHost) : Ack(i) => toHost[i].of = idx
    BY AckIsCurrent DEF ReadAck
  <1>2. /\ idx \in Nat /\ idx <= Final /\ Final \in Nat /\ Final = NumChunks + 3
        /\ NumChunks \in Nat
    BY TransferAssumption DEF IndInv, TypeOK, Index, Final
  <1>3. idx' = IF idx = Final THEN idx ELSE idx + 1
    BY DEF ReadAck
  <1>4. TypeOK'
    <2>1. toHost' \in Seq(Replies)
      BY TailOfLine DEF ReadAck, IndInv, TypeOK
    <2>2. cancel' \in BOOLEAN BY DEF ReadAck, IndInv, TypeOK
    <2>3. idx' \in Index BY <1>2, <1>3 DEF Index
    <2>4. reported' \in 0 .. NumChunks
      BY <1>2 DEF ReadAck, IndInv, TypeOK, Chunk
    <2>5. tries' \in 0 .. Attempts BY AttemptsType DEF ReadAck
    <2>6. sender' \in {"send", "wait"} \union Ended
      BY DEF ReadAck, AfterPacket, Ended
    <2> QED BY <2>1, <2>2, <2>3, <2>4, <2>5, <2>6 DEF ReadAck, IndInv, TypeOK, boardVars
  <1>5. InOrder' BY DEF ReadAck, IndInv, InOrder, boardVars
  <1>6. Position'
    BY <1>1, <1>2, <1>3, AttemptsType DEF ReadAck, IndInv, Position, boardVars, AfterPacket
  <1>7. PacketsFollow'
    <2>1. UNCHANGED <<toBoard, got>> BY DEF ReadAck, boardVars
    <2>2. \A i \in 1 .. Len(toBoard) : toBoard[i].n = idx /\ toBoard[i].seq = SeqOf(idx)
      BY <1>1 DEF IndInv, PacketsFollow
    <2> QED BY <2>1, <2>2, <1>1, <1>2, <1>3 DEF PacketsFollow
  <1>8. RepliesFollow'
    <2>1. /\ Len(toHost') = Len(toHost) - 1 /\ Len(toHost) \in Nat
          /\ \A i \in 1 .. Len(toHost') : toHost'[i] = toHost[i + 1]
      BY TailOfLine DEF ReadAck, IndInv, TypeOK
    <2>2. \A i \in 1 .. Len(toHost') : i + 1 \in 1 .. Len(toHost)
      BY <2>1
    <2>3. ASSUME NEW i \in 1 .. Len(toHost'), Ack(i)'
          PROVE  toHost'[i].of = idx /\ toHost'[i].seq = SeqOf(idx)
      <3>1. Ack(i + 1) /\ i + 1 \in 1 .. Len(toHost) BY <2>1, <2>2, <2>3 DEF Ack
      <3>2. toHost[i + 1].of = idx /\ toHost[i + 1].seq = SeqOf(toHost[i + 1].of)
        BY <3>1, <1>1 DEF IndInv, RepliesFollow
      <3> QED BY <3>2, <2>1
    <2>4. idx \in Index /\ Len(got') = idx + 1
      BY <1>1 DEF ReadAck, IndInv, TypeOK, boardVars
    <2> QED BY <2>3, <2>4, <1>2, <1>3 DEF RepliesFollow
  <1>9. ReportFollows'
    BY <1>2, <1>3 DEF ReadAck, IndInv, ReportFollows, Chunk
  <1> QED BY <1>4, <1>5, <1>6, <1>7, <1>8, <1>9 DEF IndInv

\* The board takes a packet: the new one, an old one again, or one it refuses.
LEMMA BoardReceiveStep == ASSUME IndInv, BoardReceive PROVE IndInv'
  <1> DEFINE pkt == Head(toBoard)
             expected == Len(got) % SeqMod
  <1>1. /\ toBoard # <<>> /\ toBoard' = Tail(toBoard)
        /\ UNCHANGED <<sender, idx, tries, reported, cancel, faults>>
    BY DEF BoardReceive, senderVars
  <1>2. /\ pkt = toBoard[1] /\ 1 \in 1 .. Len(toBoard) /\ pkt \in Packets
        /\ Len(toBoard') = Len(toBoard) - 1 /\ Len(toBoard) \in Nat
        /\ toBoard' \in Seq(Packets)
        /\ \A i \in 1 .. Len(toBoard') : toBoard'[i] = toBoard[i + 1]
    BY <1>1, TailOfLine DEF IndInv, TypeOK
  <1>3. /\ idx \in Nat /\ Index \subseteq Nat /\ Len(got) \in {idx, idx + 1}
        /\ Final \in Nat
    BY TransferAssumption DEF IndInv, TypeOK, Index, Position, Final
  <1>4. /\ pkt.n \in {idx - 1, idx} /\ pkt.n \in Index
        /\ pkt.seq = SeqOf(pkt.n) /\ pkt.seq \in 0 .. SeqMod - 1
        /\ Len(got) = idx + 1 => pkt.n = idx
    BY <1>2 DEF IndInv, PacketsFollow, Packets
  <1>5. expected = SeqOf(Len(got)) BY DEF SeqOf
  <1>6. \A t \in {"Y", "N"} : /\ Reply(t, pkt) \in Replies
                             /\ Reply(t, pkt).type = t
                             /\ Reply(t, pkt).of = pkt.n
                             /\ Reply(t, pkt).seq = pkt.seq
    BY <1>4 DEF Reply, Replies
  <1> HIDE DEF pkt, expected
  <1>7. CASE /\ pkt.seq = expected
             /\ got' = Append(got, pkt.n)
             /\ board' = IF pkt.n = Final THEN "left" ELSE board
             /\ toHost' = Append(toHost, Reply("Y", pkt))
    <2>1. pkt.n = Len(got) /\ Len(got) = idx
      <3>1. CASE Len(got) = idx + 1
        BY <3>1, <1>3, <1>4, <1>5, <1>7, NeighboursDiffer
      <3>2. CASE Len(got) = idx /\ pkt.n = idx - 1
        <4>1. idx - 1 \in Nat /\ (idx - 1) + 1 = idx BY <3>2, <1>3, <1>4
        <4>2. SeqOf(idx - 1) = SeqOf(idx) BY <3>2, <1>4, <1>5, <1>7
        <4> QED BY <4>1, <4>2, NeighboursDiffer
      <3> QED BY <3>1, <3>2, <1>3, <1>4
    <2>2. /\ got \in Seq(Index) /\ got' \in Seq(Index)
          /\ Len(got') = Len(got) + 1
          /\ \A i \in 1 .. Len(got) : got'[i] = got[i]
          /\ got'[Len(got) + 1] = pkt.n
      BY <1>4, <1>7, AppendToLine DEF IndInv, TypeOK
    <2>3. RepliesFollow' /\ toHost' \in Seq(Replies)
      <3>1. Reply("Y", pkt).of = idx /\ Reply("Y", pkt).of # idx - 1
        BY <2>1, <1>3, <1>6
      <3> QED
        BY <3>1, <2>1, <2>2, <1>1, <1>3, <1>4, <1>6, <1>7, AckSent DEF IndInv
    <2>4. PacketsFollow'
      <3>1. ASSUME NEW i \in 1 .. Len(toBoard')
            PROVE  toBoard'[i].n = idx /\ toBoard'[i].seq = SeqOf(idx)
        <4>1. i + 1 \in 1 .. Len(toBoard) /\ 1 < i + 1 /\ toBoard'[i] = toBoard[i + 1]
          BY <1>2
        <4>2. /\ toBoard[1].n <= toBoard[i + 1].n
              /\ toBoard[i + 1].n \in {idx - 1, idx}
              /\ toBoard[i + 1].seq = SeqOf(toBoard[i + 1].n)
          BY <4>1, <1>2 DEF IndInv, PacketsFollow
        <4> QED BY <4>1, <4>2, <2>1, <1>2, <1>3
      <3> QED BY <3>1, <2>1, <1>1, <1>3 DEF PacketsFollow
    <2>5. TypeOK'
      <3>1. cancel' \in BOOLEAN BY <1>1 DEF IndInv, TypeOK
      <3>2. board' \in {"receiving", "left", "aborted", "dead"}
        BY <1>7 DEF IndInv, TypeOK
      <3> QED BY <3>1, <3>2, <2>2, <2>3, <1>1, <1>2 DEF IndInv, TypeOK
    <2>6. InOrder' BY <2>1, <2>2 DEF IndInv, InOrder
    <2>7. Position'
      <3>1. board = "receiving" BY DEF BoardReceive
      <3> QED BY <3>1, <2>1, <2>2, <1>1, <1>3, <1>7 DEF IndInv, Position
    <2>8. ReportFollows' BY <1>1 DEF IndInv, ReportFollows
    <2> QED BY <2>3, <2>4, <2>5, <2>6, <2>7, <2>8 DEF IndInv
  <1>8. CASE /\ pkt.seq # expected
             /\ toHost' = Append(toHost, Reply("Y", pkt))
             /\ UNCHANGED boardVars
    <2>1. UNCHANGED <<got, board>> BY <1>8 DEF boardVars
    <2>2. pkt.n = idx => Len(got) = idx + 1
      BY <1>3, <1>4, <1>5, <1>8
    <2>3. RepliesFollow' /\ toHost' \in Seq(Replies)
      BY <2>1, <2>2, <1>1, <1>3, <1>4, <1>6, <1>8, AckSent DEF IndInv
    <2>4. PacketsFollow' BY <2>1, <1>1, PacketTaken DEF IndInv
    <2> QED BY <2>1, <2>3, <2>4, <1>1, <1>2, LinesMoved DEF IndInv, TypeOK, Position
  <1>9. CASE /\ toHost' = Append(toHost, Reply("N", pkt))
             /\ UNCHANGED boardVars
    <2>1. UNCHANGED <<got, board>> BY <1>9 DEF boardVars
    <2>2. RepliesFollow' /\ toHost' \in Seq(Replies)
      BY <2>1, <1>1, <1>6, <1>9, OtherReplySent DEF IndInv
    <2>3. PacketsFollow' BY <2>1, <1>1, PacketTaken DEF IndInv
    <2> QED BY <2>1, <2>2, <2>3, <1>1, <1>2, LinesMoved DEF IndInv, TypeOK, Position
  <1> QED BY <1>7, <1>8, <1>9 DEF BoardReceive, pkt, expected

\* Every step of the transfer preserves the invariant.
LEMMA NextIndInv == IndInv /\ [Next]_vars => IndInv'
  <1> SUFFICES ASSUME IndInv, [Next]_vars PROVE IndInv' OBVIOUS
  <1> USE DEF senderVars, boardVars, lines
  <1>a. /\ sender \in {"send", "wait"} \union Ended /\ tries \in 0 .. Attempts
        /\ cancel \in BOOLEAN /\ faults \in 0 .. MaxFaults
        /\ sender = "send" => tries < Attempts
    BY DEF IndInv, TypeOK, Position
  <1>b. /\ {"cancelled", "remote", "io", "name", "exhausted"} \subseteq Ended
        /\ MaxFaults \in Nat
        /\ AfterMiss \in {"send", "exhausted"}
        /\ AfterMiss = "send" => tries < Attempts
    BY AfterMissType, TransferAssumption DEF Ended, Failures
  <1>c. Fault => faults' \in 0 .. MaxFaults
    BY <1>a, <1>b DEF Fault
  <1>1. CASE SendPacket
    <2>1. PacketsFollow' /\ toBoard' \in Seq(Packets)
      BY <1>1, PacketSent DEF SendPacket, IndInv
    <2>2. tries' \in 0 .. Attempts
      BY <1>1, <1>a, AttemptsType DEF SendPacket
    <2> QED BY <1>1, <2>1, <2>2, <1>a, LinesKept, LinesMoved DEF SendPacket
  <1>2. CASE Cancelled BY <1>2, <1>a, <1>b, PositionKept DEF Cancelled
  <1>3. CASE SendFails
    <2>1. PacketsFollow' /\ toBoard' \in Seq(Packets)
      BY <1>3, PacketSent, LinesKept DEF SendFails, IndInv
    <2> QED BY <1>3, <2>1, <1>a, <1>b, LinesKept, LinesMoved DEF SendFails
  <1>4. CASE NameTooLong BY <1>4, <1>a, <1>b, PositionKept DEF NameTooLong
  <1>5. CASE ReadAck BY <1>5, ReadAckStep
  <1>6. CASE ReadRemoteError
    <2>1. RepliesFollow' /\ toHost' \in Seq(Replies)
      BY <1>6, ReplyTaken DEF ReadRemoteError, IndInv
    <2> QED BY <1>6, <2>1, <1>a, <1>b, LinesKept, LinesMoved DEF ReadRemoteError
  <1>7. CASE ReadUnexpected
    <2>1. RepliesFollow' /\ toHost' \in Seq(Replies)
      BY <1>7, ReplyTaken DEF ReadUnexpected, IndInv
    <2> QED BY <1>7, <2>1, <1>a, <1>b, LinesKept, LinesMoved DEF ReadUnexpected
  <1>8. CASE Timeout
    <2>1. faults' \in 0 .. MaxFaults BY <1>8, <1>a, <1>b DEF Timeout
    <2> QED BY <1>8, <2>1, <1>a, <1>b, PositionKept DEF Timeout
  <1>9. CASE ReadInterrupted
    BY <1>9, <1>a, <1>b, PositionKept DEF ReadInterrupted
  <1>10. CASE SetCancel BY <1>10, <1>a, PositionKept DEF SetCancel
  <1>11. CASE BoardReceive BY <1>11, BoardReceiveStep
  <1>12. CASE BoardIgnores
    <2>1. PacketsFollow' /\ toBoard' \in Seq(Packets)
      BY <1>12, PacketTaken DEF BoardIgnores, IndInv
    <2> QED BY <1>12, <2>1, <1>a, LinesKept, LinesMoved DEF BoardIgnores
  <1>13. CASE BoardAborts
    <2>1. [type |-> "E", seq |-> 0, of |-> -1] \in Replies
      BY TransferAssumption DEF Replies
    <2>2. RepliesFollow' /\ toHost' \in Seq(Replies)
      BY <1>13, <2>1, OtherReplySent DEF BoardAborts, IndInv
    <2> QED BY <1>13, <2>2, <1>a, LinesKept, LinesMoved DEF BoardAborts
  <1>14. CASE BoardDies BY <1>14, <1>a, PositionKept DEF BoardDies
  <1>15. CASE LosePacket
    <2>1. PacketsFollow' /\ toBoard' \in Seq(Packets)
      BY <1>15, PacketTaken DEF LosePacket, IndInv
    <2> QED BY <1>15, <2>1, <1>a, <1>c, LinesKept, LinesMoved DEF LosePacket
  <1>16. CASE DamagePacket
    <2>1. PacketsFollow' /\ toBoard' \in Seq(Packets)
      BY <1>16, PacketTaken DEF DamagePacket, IndInv
    <2>2. Head(toBoard) \in Packets
      BY <1>16, TailOfLine DEF DamagePacket, IndInv, TypeOK
    <2>3. Reply("N", Head(toBoard)) \in Replies /\ Reply("N", Head(toBoard)).type # "Y"
      BY <2>2 DEF Reply, Replies, Packets
    <2>4. RepliesFollow' /\ toHost' \in Seq(Replies)
      BY <1>16, <2>3, OtherReplySent DEF DamagePacket, IndInv
    <2> QED BY <1>16, <2>1, <2>4, <1>a, <1>c, LinesMoved DEF DamagePacket
  <1>17. CASE LoseReply
    <2>1. RepliesFollow' /\ toHost' \in Seq(Replies)
      BY <1>17, ReplyTaken DEF LoseReply, IndInv
    <2> QED BY <1>17, <2>1, <1>a, <1>c, LinesKept, LinesMoved DEF LoseReply
  <1>18. CASE DamageReply
    <2>1. /\ toHost \in Seq(Replies) /\ toHost # <<>>
          /\ toHost' = [toHost EXCEPT ![1].type = "damaged"]
          /\ UNCHANGED <<idx, got>>
      BY <1>18 DEF DamageReply, IndInv, TypeOK
    <2>2. /\ toHost' \in Seq(Replies) /\ Len(toHost') = Len(toHost)
          /\ Len(toHost) \in Nat
          /\ toHost'[1].type = "damaged"
          /\ \A i \in 1 .. Len(toHost) : i # 1 => toHost'[i] = toHost[i]
      <3>1. toHost[1] \in Replies /\ Len(toHost) >= 1 /\ Len(toHost) \in Nat
        BY <2>1
      <3>2. [toHost[1] EXCEPT !.type = "damaged"] \in Replies
        BY <3>1 DEF Replies
      <3> DEFINE r == [toHost[1] EXCEPT !.type = "damaged"]
      <3>3. r \in Replies /\ r.type = "damaged" BY <3>1, <3>2 DEF Replies
      <3>4. toHost' = [toHost EXCEPT ![1] = r] BY <2>1
      <3> HIDE DEF r
      <3> QED BY <3>1, <3>3, <3>4, <2>1
    <2>3. \A i \in 1 .. Len(toHost') : Ack(i)' => Ack(i) /\ toHost'[i] = toHost[i]
      BY <2>2 DEF Ack
    <2>4. RepliesFollow'
      BY <2>1, <2>2, <2>3 DEF IndInv, RepliesFollow
    <2> QED BY <1>18, <2>2, <2>4, <1>a, <1>c, LinesKept, LinesMoved DEF DamageReply
  <1>19. CASE BoardNak
    <2>1. [type |-> "N", seq |-> Len(got) % SeqMod, of |-> -1] \in Replies
      <3>1. Len(got) \in Nat BY DEF IndInv, TypeOK
      <3> QED BY <3>1, SeqDivision DEF Replies
    <2>2. RepliesFollow' /\ toHost' \in Seq(Replies)
      BY <1>19, <2>1, OtherReplySent DEF BoardNak, IndInv
    <2> QED BY <1>19, <2>2, <1>a, <1>c, LinesKept, LinesMoved DEF BoardNak
  <1>20. CASE UNCHANGED vars
    BY <1>20, <1>a, PositionKept DEF vars
  <1> QED
    BY <1>1, <1>2, <1>3, <1>4, <1>5, <1>6, <1>7, <1>8, <1>9, <1>10, <1>11, <1>12,
       <1>13, <1>14, <1>15, <1>16, <1>17, <1>18, <1>19, <1>20
       DEF Next, SenderNext, LineNext, Done

(***************************************************************************)
(* The theorems                                                            *)
(***************************************************************************)

\* The inductive invariant holds throughout every transfer.
THEOREM Invariance == Spec => []IndInv
  <1> QED BY InitIndInv, NextIndInv, PTL DEF Spec

\* Type correctness.
THEOREM Typing == Spec => []TypeOK
  <1>1. IndInv => TypeOK BY DEF IndInv
  <1> QED BY <1>1, Invariance, PTL

\* The board stores every packet once and in order, whatever the line does.
THEOREM Ordering == Spec => []InOrder
  <1>1. IndInv => InOrder BY DEF IndInv
  <1> QED BY <1>1, Invariance, PTL

\* An upload reported as done is one the board has completely.
THEOREM Delivery == Spec => []SuccessIsDelivery
  <1>1. IndInv => SuccessIsDelivery
    BY DEF IndInv, Position, SuccessIsDelivery
  <1> QED BY <1>1, Invariance, PTL

\* Progress never runs ahead of the board.
THEOREM Progress == Spec => []ProgressHonest
  <1>1. IndInv => ProgressHonest
    <2> SUFFICES ASSUME IndInv PROVE ProgressHonest OBVIOUS
    <2>1. /\ idx \in 0 .. Final /\ Final = NumChunks + 3 /\ NumChunks \in Nat
          /\ Len(got) \in {idx, idx + 1}
          /\ sender = "ok" => idx = Final
      BY TransferAssumption DEF IndInv, TypeOK, Index, Position, Final
    <2>2. reported = IF idx <= 2 THEN 0 ELSE IF idx = Final THEN NumChunks ELSE idx - 2
      BY DEF IndInv, ReportFollows
    <2> QED BY <2>1, <2>2 DEF ProgressHonest
  <1> QED BY <1>1, Invariance, PTL

(***************************************************************************)
(* The transfer implements FileTransfer                                    *)
(***************************************************************************)

\* The start of a transfer is the start of FileTransfer.
LEMMA InitRefines == Init => Transfer!Init
  BY DEF Init, Transfer!Init, Outcome, Failures

\* Storing a packet is FileTransfer's Store; the last acknowledgement is its
\* Succeed; every way to give up is its Fail; the rest it does not see.
LEMMA NextRefines == IndInv /\ IndInv' /\ [Next]_vars => [Transfer!Next]_(Transfer!vars)
  <1> SUFFICES ASSUME IndInv, IndInv', [Next]_vars
               PROVE  [Transfer!Next]_(Transfer!vars)
    OBVIOUS
  <1> USE DEF senderVars, boardVars
  <1>1. CASE UNCHANGED got /\ Outcome' = Outcome
    BY <1>1 DEF Transfer!vars
  <1>2. CASE UNCHANGED got /\ Outcome = "running" /\ Outcome' = "failed"
    BY <1>2 DEF Transfer!Next, Transfer!Fail
  <1>3. CASE ReadAck /\ idx = Final
    <2>1. Len(got) = Final + 1
      BY <1>3, AckIsCurrent DEF ReadAck
    <2>2. Outcome = "running" /\ Outcome' = "done" /\ UNCHANGED got
      BY <1>3 DEF ReadAck, AfterPacket, Outcome, Failures
    <2> QED BY <2>1, <2>2 DEF Transfer!Next, Transfer!Succeed, Transfer!Complete
  <1>4. CASE ReadAck /\ idx # Final
    BY <1>4, <1>1 DEF ReadAck, AfterPacket, Outcome, Failures
  <1>5. CASE BoardReceive /\ ~UNCHANGED got
    <2>1. got' = Append(got, Head(toBoard).n) /\ UNCHANGED sender
      BY <1>5 DEF BoardReceive
    <2>2. /\ got \in Seq(Index) /\ got' \in Seq(Index)
          /\ Head(toBoard).n \in Index
      <3>1. toBoard # <<>> /\ toBoard \in Seq(Packets)
        BY <1>5 DEF BoardReceive, IndInv, TypeOK
      <3>2. Head(toBoard) \in Packets BY <3>1, TailOfLine
      <3> QED BY <3>2 DEF IndInv, TypeOK, Packets
    <2>3. /\ Len(got') = Len(got) + 1 /\ Len(got) \in Nat
          /\ got'[Len(got) + 1] = Head(toBoard).n
      BY <2>1, <2>2, AppendToLine
    <2>4. Head(toBoard).n = Len(got)
      BY <2>3 DEF IndInv, InOrder
    <2>5. Len(got) <= Final
      BY <2>2, <2>4, TransferAssumption DEF Index, Final
    <2>6. Outcome' = Outcome BY <2>1 DEF Outcome
    <2> QED BY <2>1, <2>4, <2>5, <2>6 DEF Transfer!Next, Transfer!Store
  <1>6. CASE BoardReceive /\ UNCHANGED got
    BY <1>6, <1>1 DEF BoardReceive, Outcome
  <1>7. CASE SendPacket
    BY <1>7, <1>1 DEF SendPacket, Outcome, Failures
  <1>8. CASE Cancelled \/ SendFails \/ NameTooLong \/ ReadRemoteError
    BY <1>8, <1>2 DEF Cancelled, SendFails, NameTooLong, ReadRemoteError, Outcome, Failures
  <1>9. CASE ReadUnexpected \/ Timeout \/ ReadInterrupted
    BY <1>9, <1>1, <1>2
       DEF ReadUnexpected, Timeout, ReadInterrupted, AfterMiss, Outcome, Failures
  <1>10. CASE SetCancel \/ BoardIgnores \/ BoardAborts \/ BoardDies
    BY <1>10, <1>1 DEF SetCancel, BoardIgnores, BoardAborts, BoardDies, Outcome
  <1>11. CASE LineNext
    BY <1>11, <1>1
       DEF LineNext, LosePacket, DamagePacket, LoseReply, DamageReply, BoardNak, Outcome
  <1>12. CASE UNCHANGED vars
    BY <1>12, <1>1 DEF vars, Outcome
  <1> QED
    BY <1>3, <1>4, <1>5, <1>6, <1>7, <1>8, <1>9, <1>10, <1>11, <1>12
       DEF Next, SenderNext, Done

\* The Kermit transfer keeps FileTransfer's promise.
THEOREM Refinement == Spec => ImplementsFileTransfer
  <1> QED
    BY InitRefines, NextRefines, Invariance, PTL
       DEF Spec, ImplementsFileTransfer, Transfer!Spec

(***************************************************************************)
(* Attempts are paid for by faults                                         *)
(*                                                                         *)
(* In a calm transfer an attempt is used up by an answer that is not the   *)
(* packet's, or by waiting in vain.  Messages of the packet being sent are *)
(* live; of what else is under way each will cost an attempt, and a fault  *)
(* has paid for it: one that turns live messages into an older packet's is *)
(* paid for by the attempts that wrote them.                               *)
(***************************************************************************)

\* How many messages of a line are in a set.
Places(q, X) == {i \in 1 .. Len(q) : q[i] \in X}
Count(q, X) == Cardinality(Places(q, X))

LEMMA CountType ==
    ASSUME NEW S, NEW q \in Seq(S), NEW X
    PROVE  /\ IsFiniteSet(Places(q, X))
           /\ Count(q, X) \in Nat /\ Count(q, X) <= Len(q) /\ Len(q) \in Nat
  <1>1. Len(q) \in Nat OBVIOUS
  <1>2. IsFiniteSet(1 .. Len(q)) /\ Cardinality(1 .. Len(q)) = Len(q)
    <2>1. PICK n \in Nat : n = Len(q) BY <1>1
    <2>2. IsFiniteSet(1 .. n) /\ Cardinality(1 .. n) = IF 1 > n THEN 0 ELSE n - 1 + 1
      BY FS_Interval
    <2>3. (IF 1 > n THEN 0 ELSE n - 1 + 1) = n OBVIOUS
    <2> QED BY <2>1, <2>2, <2>3
  <1>3. Places(q, X) \in SUBSET (1 .. Len(q)) BY DEF Places
  <1>4. IsFiniteSet(Places(q, X)) /\ Cardinality(Places(q, X)) <= Len(q)
    BY <1>2, <1>3, FS_Subset
  <1> QED BY <1>1, <1>4, FS_CardinalityType DEF Count

LEMMA CountNone ==
    ASSUME NEW S, NEW q \in Seq(S), NEW X, \A i \in 1 .. Len(q) : q[i] \notin X
    PROVE  Count(q, X) = 0
  <1>1. Places(q, X) = {} BY DEF Places
  <1> QED BY <1>1, FS_EmptySet DEF Count

LEMMA CountAppended ==
    ASSUME NEW S, NEW q \in Seq(S), NEW m \in S, NEW X
    PROVE  Count(Append(q, m), X) = Count(q, X) + (IF m \in X THEN 1 ELSE 0)
  <1>1. /\ Len(q) \in Nat /\ Len(Append(q, m)) = Len(q) + 1
        /\ \A i \in 1 .. Len(q) : Append(q, m)[i] = q[i]
        /\ Append(q, m)[Len(q) + 1] = m
    BY AppendToLine
  <1>2. Places(Append(q, m), X) =
            IF m \in X THEN Places(q, X) \union {Len(q) + 1} ELSE Places(q, X)
    BY <1>1 DEF Places
  <1>3. Len(q) + 1 \notin Places(q, X) BY <1>1 DEF Places
  <1>4. IsFiniteSet(Places(q, X)) /\ Count(q, X) \in Nat BY CountType
  <1>5. Cardinality(Places(q, X) \union {Len(q) + 1}) = Count(q, X) + 1
    BY <1>3, <1>4, FS_AddElement DEF Count
  <1> QED BY <1>2, <1>4, <1>5 DEF Count

LEMMA CountTail ==
    ASSUME NEW S, NEW q \in Seq(S), q # <<>>, NEW X
    PROVE  Count(q, X) = Count(Tail(q), X) + (IF Head(q) \in X THEN 1 ELSE 0)
  <1>1. /\ Head(q) = q[1] /\ Len(q) \in Nat /\ Len(q) >= 1
        /\ Tail(q) \in Seq(S) /\ Len(Tail(q)) = Len(q) - 1
        /\ \A i \in 1 .. Len(Tail(q)) : Tail(q)[i] = q[i + 1]
    BY TailOfLine
  <1> DEFINE A == Places(Tail(q), X)
             B == Places(q, X)
             f == [i \in A |-> i + 1]
  <1>2. IsFiniteSet(A) /\ Count(Tail(q), X) = Cardinality(A) /\ Cardinality(A) \in Nat
    BY <1>1, CountType DEF Count
  <1>3. \A i \in A : i \in Nat /\ i >= 1 /\ i + 1 \in B BY <1>1 DEF Places
  <1>4. \A j \in B : j # 1 => j - 1 \in A BY <1>1 DEF Places
  <1>5. 1 \in B <=> Head(q) \in X BY <1>1 DEF Places
  <1>6. \A j \in B : j \in Nat /\ j >= 1 BY <1>1 DEF Places
  <1>11. Count(q, X) = Cardinality(B) BY DEF Count
  <1> HIDE DEF A, B
  <1>7. ExistsBijection(A, B \ {1})
    <2>1. \A i \in A : i + 1 \in B \ {1} BY <1>3
    <2>2. f \in [A -> B \ {1}] BY <2>1
    <2>3. \A i, j \in A : f[i] = f[j] => i = j BY <1>3
    <2>4. \A j \in B \ {1} : \E i \in A : f[i] = j
      <3> SUFFICES ASSUME NEW j \in B \ {1} PROVE \E i \in A : f[i] = j OBVIOUS
      <3>1. j - 1 \in A /\ j \in Nat BY <1>4, <1>6
      <3>2. f[j - 1] = (j - 1) + 1 BY <3>1
      <3> QED BY <3>1, <3>2
    <2> HIDE DEF f
    <2>5. f \in Bijection(A, B \ {1})
      BY <2>2, <2>3, <2>4 DEF Bijection, Injection, Surjection, IsInjective
    <2> QED BY <2>5 DEF ExistsBijection
  <1>8. IsFiniteSet(B \ {1}) /\ Cardinality(B \ {1}) = Cardinality(A)
    BY <1>2, <1>7, FS_Bijection
  <1>9. CASE Head(q) \in X
    <2>1. B = (B \ {1}) \union {1} BY <1>5, <1>9
    <2>2. Cardinality((B \ {1}) \union {1}) = Cardinality(B \ {1}) + 1
      BY <1>8, FS_AddElement
    <2> QED BY <2>1, <2>2, <1>2, <1>8, <1>9, <1>11
  <1>10. CASE Head(q) \notin X
    <2>1. PICK C : C = B \ {1} OBVIOUS
    <2>2. C = B BY <2>1, <1>5, <1>10
    <2>3. Cardinality(C) = Cardinality(A) BY <2>1, <1>8
    <2>4. Cardinality(B) = Cardinality(A) BY <2>2, <2>3
    <2> QED BY <2>4, <1>2, <1>10, <1>11
  <1> QED BY <1>9, <1>10

\* The first message of a line is damaged.
LEMMA CountDamaged ==
    ASSUME NEW S, NEW q \in Seq(S), q # <<>>, NEW r, NEW X, r \notin X
    PROVE  /\ Count([q EXCEPT ![1] = r], X) <= Count(q, X)
           /\ Count([q EXCEPT ![1] = r], X) + 1 >= Count(q, X)
           /\ Count([q EXCEPT ![1] = r], X) \in Nat
  <1> DEFINE p == [q EXCEPT ![1] = r]
  <1>1. /\ Len(q) \in Nat /\ Len(q) >= 1 /\ Len(p) = Len(q)
        /\ p[1] = r /\ \A i \in 1 .. Len(q) : i # 1 => p[i] = q[i]
    BY TailOfLine
  <1> HIDE DEF p
  <1>2. Places(p, X) = Places(q, X) \ {1} BY <1>1 DEF Places
  <1>3. IsFiniteSet(Places(q, X)) /\ Count(q, X) \in Nat BY CountType
  <1>4. Cardinality(Places(q, X) \ {1}) =
            IF 1 \in Places(q, X) THEN Count(q, X) - 1 ELSE Count(q, X)
    BY <1>3, FS_RemoveElement DEF Count
  <1>5. IsFiniteSet(Places(q, X) \ {1}) BY <1>3, FS_RemoveElement
  <1>6. Count(p, X) = Cardinality(Places(q, X) \ {1}) BY <1>2 DEF Count
  <1>7. Count(p, X) \in Nat BY <1>5, <1>6, FS_CardinalityType
  <1> QED BY <1>3, <1>4, <1>6, <1>7 DEF p

PacketsOf(n) == {p \in Packets : p.n = n}
AcksOf(n) == {r \in Replies : r.type = "Y" /\ r.of = n}
LiveAt(n) == Count(toBoard, PacketsOf(n)) + Count(toHost, AcksOf(n))
UnderWay == Len(toBoard) + Len(toHost)

\* Attempts, and what is under way and not live, against the faults so far.
\* The attempt that is waiting for its answer is not paid for yet, as long as
\* there is something to wait for.
PaidFor(s, attempts, paid, len, live) ==
    /\ live <= attempts
    /\ s = "send" => attempts + (len - live) <= paid
    /\ s = "wait" => attempts + (len - live) <= paid + 1
    /\ s = "wait" /\ len = 0 => attempts <= paid
    /\ s = "exhausted" => paid >= Attempts

Paid == PaidFor(sender, tries, faults, UnderWay, LiveAt(idx))

CalmInv == setting = "calm" => IndInv /\ NobodyGivesUp /\ (board # "left" => Paid)

LEMMA Numbers ==
    ASSUME TypeOK
    PROVE  /\ UnderWay \in Nat /\ Len(toBoard) \in Nat /\ Len(toHost) \in Nat
           /\ \A n : LiveAt(n) \in Nat /\ LiveAt(n) <= UnderWay
           /\ tries \in Nat /\ tries <= Attempts /\ faults \in Nat /\ Attempts \in Nat
  <1>1. ASSUME NEW n PROVE LiveAt(n) \in Nat /\ LiveAt(n) <= UnderWay
    <2>1. Count(toBoard, PacketsOf(n)) \in Nat /\ Count(toBoard, PacketsOf(n)) <= Len(toBoard)
      BY CountType DEF TypeOK
    <2>2. Count(toHost, AcksOf(n)) \in Nat /\ Count(toHost, AcksOf(n)) <= Len(toHost)
      BY CountType DEF TypeOK
    <2>3. Len(toBoard) \in Nat /\ Len(toHost) \in Nat BY DEF TypeOK
    <2> QED BY <2>1, <2>2, <2>3 DEF LiveAt, UnderWay
  <1>2. Len(toBoard) \in Nat /\ Len(toHost) \in Nat BY DEF TypeOK
  <1>3. tries \in Nat /\ tries <= Attempts /\ faults \in Nat /\ Attempts \in Nat
    BY TransferAssumption, AttemptsType DEF TypeOK
  <1> QED BY <1>1, <1>2, <1>3 DEF UnderWay

LEMMA NumbersNext ==
    TypeOK' => UnderWay' \in Nat /\ LiveAt(idx)' \in Nat /\ LiveAt(idx)' <= UnderWay'
  <1>1. TypeOK => UnderWay \in Nat /\ LiveAt(idx) \in Nat /\ LiveAt(idx) <= UnderWay
    BY Numbers
  <1>2. (TypeOK => UnderWay \in Nat /\ LiveAt(idx) \in Nat /\ LiveAt(idx) <= UnderWay)'
    BY <1>1, PTL
  <1> QED BY <1>2

\* What a step that takes a message off the line to the board does,
LEMMA PacketGone ==
    ASSUME TypeOK, toBoard # <<>>, toBoard' = Tail(toBoard), UNCHANGED <<idx, toHost>>
    PROVE  /\ UnderWay' = UnderWay - 1
           /\ LiveAt(idx)' \in {LiveAt(idx), LiveAt(idx) - 1}
  <1>1. Count(toBoard, PacketsOf(idx)) = Count(Tail(toBoard), PacketsOf(idx))
            + (IF Head(toBoard) \in PacketsOf(idx) THEN 1 ELSE 0)
    BY CountTail DEF TypeOK
  <1>2. Tail(toBoard) \in Seq(Packets) /\ Len(Tail(toBoard)) = Len(toBoard) - 1
        /\ Len(toBoard) \in Nat /\ Len(toHost) \in Nat
    BY TailOfLine DEF TypeOK
  <1>3. Count(Tail(toBoard), PacketsOf(idx)) \in Nat BY <1>2, CountType
  <1>4. Count(toHost, AcksOf(idx)) \in Nat BY CountType DEF TypeOK
  <1>5. LiveAt(idx)' = Count(Tail(toBoard), PacketsOf(idx)) + Count(toHost, AcksOf(idx))
    BY DEF LiveAt, PacketsOf, AcksOf, Count, Places
  <1> QED BY <1>1, <1>2, <1>3, <1>4, <1>5 DEF LiveAt, UnderWay

\* one off the line back,
LEMMA ReplyGone ==
    ASSUME TypeOK, toHost # <<>>, toHost' = Tail(toHost), UNCHANGED <<idx, toBoard>>
    PROVE  /\ UnderWay' = UnderWay - 1
           /\ LiveAt(idx)' \in {LiveAt(idx), LiveAt(idx) - 1}
           /\ Head(toHost) \notin AcksOf(idx) => LiveAt(idx)' = LiveAt(idx)
  <1>1. Count(toHost, AcksOf(idx)) = Count(Tail(toHost), AcksOf(idx))
            + (IF Head(toHost) \in AcksOf(idx) THEN 1 ELSE 0)
    BY CountTail DEF TypeOK
  <1>2. Tail(toHost) \in Seq(Replies) /\ Len(Tail(toHost)) = Len(toHost) - 1
        /\ Len(toBoard) \in Nat /\ Len(toHost) \in Nat
    BY TailOfLine DEF TypeOK
  <1>3. Count(Tail(toHost), AcksOf(idx)) \in Nat BY <1>2, CountType
  <1>4. Count(toBoard, PacketsOf(idx)) \in Nat BY CountType DEF TypeOK
  <1>5. LiveAt(idx)' = Count(toBoard, PacketsOf(idx)) + Count(Tail(toHost), AcksOf(idx))
    BY DEF LiveAt, PacketsOf, AcksOf, Count, Places
  <1> QED BY <1>1, <1>2, <1>3, <1>4, <1>5 DEF LiveAt, UnderWay

\* and one that the board, or the line, puts there in a packet's stead.
LEMMA PacketAnswered ==
    ASSUME TypeOK, toBoard # <<>>, toBoard' = Tail(toBoard),
           NEW r \in Replies, toHost' = Append(toHost, r), UNCHANGED idx
    PROVE  /\ UnderWay' = UnderWay
           /\ r \notin AcksOf(idx) => LiveAt(idx)' \in {LiveAt(idx), LiveAt(idx) - 1}
           /\ (r \in AcksOf(idx) <=> Head(toBoard) \in PacketsOf(idx))
                => LiveAt(idx)' = LiveAt(idx)
  <1>1. Count(toBoard, PacketsOf(idx)) = Count(Tail(toBoard), PacketsOf(idx))
            + (IF Head(toBoard) \in PacketsOf(idx) THEN 1 ELSE 0)
    BY CountTail DEF TypeOK
  <1>2. Count(Append(toHost, r), AcksOf(idx)) = Count(toHost, AcksOf(idx))
            + (IF r \in AcksOf(idx) THEN 1 ELSE 0)
    BY CountAppended DEF TypeOK
  <1>3. /\ Tail(toBoard) \in Seq(Packets) /\ Len(Tail(toBoard)) = Len(toBoard) - 1
        /\ Len(toBoard) \in Nat /\ Len(toHost) \in Nat
        /\ Len(Append(toHost, r)) = Len(toHost) + 1
    BY TailOfLine, AppendToLine DEF TypeOK
  <1>4. Count(Tail(toBoard), PacketsOf(idx)) \in Nat BY <1>3, CountType
  <1>5. Count(toHost, AcksOf(idx)) \in Nat BY CountType DEF TypeOK
  <1>6. LiveAt(idx)' = Count(Tail(toBoard), PacketsOf(idx)) + Count(Append(toHost, r), AcksOf(idx))
    BY DEF LiveAt, PacketsOf, AcksOf, Count, Places
  <1> QED BY <1>1, <1>2, <1>3, <1>4, <1>5, <1>6 DEF LiveAt, UnderWay

LEMMA ReplyAdded ==
    ASSUME TypeOK, NEW r \in Replies, r.type # "Y", toHost' = Append(toHost, r),
           UNCHANGED <<idx, toBoard>>
    PROVE  UnderWay' = UnderWay + 1 /\ LiveAt(idx)' = LiveAt(idx)
  <1>1. r \notin AcksOf(idx) BY DEF AcksOf
  <1>2. Count(Append(toHost, r), AcksOf(idx)) = Count(toHost, AcksOf(idx))
            + (IF r \in AcksOf(idx) THEN 1 ELSE 0)
    BY CountAppended DEF TypeOK
  <1>3. Len(toBoard) \in Nat /\ Len(toHost) \in Nat /\ Len(Append(toHost, r)) = Len(toHost) + 1
    BY AppendToLine DEF TypeOK
  <1>4. Count(toBoard, PacketsOf(idx)) \in Nat /\ Count(toHost, AcksOf(idx)) \in Nat
    BY CountType DEF TypeOK
  <1>5. LiveAt(idx)' = Count(toBoard, PacketsOf(idx)) + Count(Append(toHost, r), AcksOf(idx))
    BY DEF LiveAt, PacketsOf, AcksOf, Count, Places
  <1> QED BY <1>1, <1>2, <1>3, <1>4, <1>5 DEF LiveAt, UnderWay

\* The line after one fault: one thing less or none, live or not.
LEMMA OneLess ==
    ASSUME NEW len \in Nat, NEW live \in Nat, NEW len2 \in Nat, NEW live2 \in Nat,
           len2 \in {len, len - 1},
           live2 \in {live, live - 1} \/ (live2 <= live /\ live2 + 1 >= live)
    PROVE  live2 <= live /\ len2 - live2 <= len - live + 1
  OBVIOUS

\* A fault pays for what it does to one message.
LEMMA FaultPays ==
    ASSUME NEW s, NEW t \in Nat, NEW f \in Nat, NEW len \in Nat, NEW live \in Nat,
           live <= len, PaidFor(s, t, f, len, live),
           NEW len2 \in Nat, NEW live2 \in Nat, live2 <= len2,
           live2 <= live, len2 - live2 <= len - live + 1
    PROVE  PaidFor(s, t, f + 1, len2, live2)
  BY AttemptsType DEF PaidFor

\* A miss costs the attempt that was waiting.
LEMMA MissPays ==
    ASSUME TypeOK, NEW f \in Nat, NEW len \in Nat, NEW live \in Nat, live <= len,
           live <= tries, tries + (len - live) <= f
    PROVE  PaidFor(AfterMiss, tries, f, len, live)
  <1>1. tries \in Nat /\ Attempts \in Nat BY Numbers
  <1>2. CASE tries < Attempts
    <2>1. AfterMiss = "send" BY <1>2 DEF AfterMiss
    <2> QED BY <1>1, <2>1 DEF PaidFor
  <1>3. CASE ~(tries < Attempts)
    <2>1. AfterMiss = "exhausted" BY <1>3 DEF AfterMiss
    <2>2. f >= Attempts BY <1>1, <1>3
    <2> QED BY <1>1, <2>1, <2>2 DEF PaidFor
  <1> QED BY <1>2, <1>3

\* The board answers a packet with its acknowledgement: it never refuses one.
LEMMA BoardAcknowledges ==
    ASSUME IndInv, BoardReceive
    PROVE  LET r == Reply("Y", Head(toBoard))
           IN  /\ toHost' = Append(toHost, r) /\ r \in Replies
               /\ r \in AcksOf(idx) <=> Head(toBoard) \in PacketsOf(idx)
  <1> DEFINE pkt == Head(toBoard)
             expected == Len(got) % SeqMod
  <1>1. /\ toBoard # <<>> /\ pkt = toBoard[1] /\ pkt \in Packets
        /\ 1 \in 1 .. Len(toBoard)
    BY TailOfLine DEF BoardReceive, IndInv, TypeOK
  <1>2. /\ pkt.seq = SeqOf(pkt.n) /\ pkt.n \in {idx - 1, idx} /\ pkt.n \in Index
        /\ Len(got) = idx + 1 => pkt.n = idx
        /\ Len(got) \in {idx, idx + 1} /\ pkt.seq \in 0 .. SeqMod - 1
    BY <1>1 DEF IndInv, PacketsFollow, Position, Packets
  <1>3. idx \in Nat /\ pkt.n \in Nat /\ Len(got) \in Nat
    BY <1>2, TransferAssumption DEF IndInv, TypeOK, Index
  <1>4. pkt.n = Len(got) \/ (pkt.n = Len(got) - 1 /\ got # <<>>)
    BY <1>2, <1>3
  <1>5. pkt.seq = expected \/ (got # <<>> /\ pkt.seq = (Len(got) - 1) % SeqMod)
    BY <1>2, <1>4 DEF SeqOf
  <1> DEFINE r == Reply("Y", pkt)
  <1>6. toHost' = Append(toHost, r) BY <1>5 DEF BoardReceive
  <1>7. r.type = "Y" /\ r.of = pkt.n /\ r \in Replies
    BY <1>1, <1>2 DEF Reply, Replies
  <1> HIDE DEF r, pkt
  <1>8. r \in AcksOf(idx) <=> pkt \in PacketsOf(idx)
    BY <1>1, <1>7 DEF AcksOf, PacketsOf
  <1> QED BY <1>6, <1>7, <1>8 DEF r, pkt

\* An answer that is not the packet's is not live.
LEMMA UnexpectedIsNotLive ==
    ASSUME IndInv, toHost # <<>>, ~Acknowledges(Head(toHost))
    PROVE  Head(toHost) \notin AcksOf(idx)
  <1> SUFFICES ASSUME Head(toHost) \in AcksOf(idx) PROVE FALSE OBVIOUS
  <1>1. Head(toHost) = toHost[1] /\ 1 \in 1 .. Len(toHost)
    BY TailOfLine DEF IndInv, TypeOK
  <1>2. toHost[1].type = "Y" /\ toHost[1].of = idx BY <1>1 DEF AcksOf
  <1>3. toHost[1].seq = SeqOf(idx) BY <1>1, <1>2 DEF IndInv, RepliesFollow, Ack
  <1> QED BY <1>1, <1>2, <1>3 DEF Acknowledges

\* What is under way when the sender moves on is all of the packet before.
LEMMA NothingLive ==
    ASSUME IndInv, ReadAck, idx # Final
    PROVE  UnderWay' = UnderWay - 1 /\ LiveAt(idx)' = 0
  <1>1. /\ Len(got) = idx + 1
        /\ \A i \in 1 .. Len(toHost) : Ack(i) => toHost[i].of = idx
    BY AckIsCurrent DEF ReadAck
  <1>2. idx \in Nat /\ idx' = idx + 1
    BY TransferAssumption DEF ReadAck, IndInv, TypeOK, Index
  <1>3. /\ toBoard' = toBoard /\ toHost' = Tail(toHost)
        /\ toBoard' \in Seq(Packets) /\ toHost' \in Seq(Replies)
        /\ Len(toHost') = Len(toHost) - 1 /\ Len(toHost) \in Nat /\ Len(toBoard) \in Nat
        /\ \A i \in 1 .. Len(toHost') : toHost'[i] = toHost[i + 1]
    BY TailOfLine DEF ReadAck, IndInv, TypeOK
  <1>4. ASSUME NEW i \in 1 .. Len(toBoard') PROVE toBoard'[i] \notin PacketsOf(idx')
    <2>1. toBoard[i].n = idx BY <1>1, <1>3 DEF IndInv, PacketsFollow
    <2> QED BY <2>1, <1>2, <1>3 DEF PacketsOf
  <1>5. ASSUME NEW i \in 1 .. Len(toHost') PROVE toHost'[i] \notin AcksOf(idx')
    <2>1. i + 1 \in 1 .. Len(toHost) BY <1>3
    <2>2. Ack(i + 1) => toHost[i + 1].of = idx BY <2>1, <1>1
    <2> QED BY <2>2, <1>2, <1>3 DEF AcksOf, Ack
  <1>6. Count(toBoard', PacketsOf(idx')) = 0 BY <1>3, <1>4, CountNone
  <1>7. Count(toHost', AcksOf(idx')) = 0 BY <1>3, <1>5, CountNone
  <1>8. LiveAt(idx)' = Count(toBoard', PacketsOf(idx')) + Count(toHost', AcksOf(idx'))
    BY DEF LiveAt, PacketsOf, AcksOf, Count, Places
  <1> QED BY <1>3, <1>6, <1>7, <1>8 DEF UnderWay

\* The board is not left when a step begins that does not end so.
LEMMA NotLeftBefore ==
    ASSUME Next, board' # "left" PROVE board # "left"
  BY DEF Next, SenderNext, LineNext, SendPacket, Cancelled, SendFails, NameTooLong, ReadAck,
         ReadRemoteError, ReadUnexpected, Timeout, ReadInterrupted, SetCancel, BoardReceive,
         BoardIgnores, BoardAborts, BoardDies, LosePacket, DamagePacket, LoseReply,
         DamageReply, BoardNak, Done, senderVars, boardVars, vars

LEMMA PaidStep ==
    ASSUME IndInv, IndInv', NobodyGivesUp, NobodyGivesUp', Paid, board # "left", board' # "left",
           Next, ReadInterrupted => Quiet
    PROVE  Paid'
  <1> DEFINE len == UnderWay
             live == LiveAt(idx)
  <1>1. /\ TypeOK /\ len \in Nat /\ live \in Nat /\ live <= len
        /\ Len(toBoard) \in Nat /\ Len(toHost) \in Nat
        /\ tries \in Nat /\ tries <= Attempts /\ faults \in Nat /\ Attempts \in Nat
    BY Numbers DEF IndInv
  <1>2. len' \in Nat /\ live' \in Nat /\ live' <= len'
    <2>1. TypeOK' BY DEF IndInv
    <2> QED BY <2>1, NumbersNext
  <1>3. PaidFor(sender, tries, faults, len, live) BY DEF Paid
  <1>4. Paid' = PaidFor(sender', tries', faults', len', live')
    BY DEF Paid, PaidFor, Attempts
  <1>5. len = 0 <=> Quiet
    <2>1. len = 0 <=> Len(toBoard) = 0 /\ Len(toHost) = 0 BY <1>1 DEF UnderWay
    <2>2. toBoard \in Seq(Packets) /\ toHost \in Seq(Replies) BY <1>1 DEF TypeOK
    <2> QED BY <2>1, <2>2 DEF Quiet
  <1>6. board = "receiving" /\ board' \notin {"aborted", "dead"} /\ ~cancel'
        /\ sender' \notin {"io", "name", "remote", "cancelled"}
    BY <1>1 DEF NobodyGivesUp, TypeOK
  <1>7. ASSUME toBoard' = toBoard, toHost' = toHost, idx' = idx
        PROVE  len' = len /\ live' = live
    BY <1>7 DEF UnderWay, LiveAt, Count, Places, PacketsOf, AcksOf
  <1> HIDE DEF len, live
  <1>10. CASE SendPacket
    <2>1. /\ sender = "send" /\ sender' = "wait" /\ tries' = tries + 1
          /\ faults' = faults /\ idx' = idx /\ toHost' = toHost
          /\ toBoard' = Append(toBoard, Packet)
      BY <1>10 DEF SendPacket
    <2>2. len' = len + 1 /\ live' = live + 1
      <3>1. idx \in Nat /\ idx \in Index BY <1>1, TransferAssumption DEF TypeOK, Index
      <3>2. Packet \in Packets /\ Packet.n = idx BY <3>1, SeqOfType DEF Packet, Packets
      <3>3. Packet \in PacketsOf(idx) BY <3>2 DEF PacketsOf
      <3>4. Count(Append(toBoard, Packet), PacketsOf(idx))
                = Count(toBoard, PacketsOf(idx)) + (IF Packet \in PacketsOf(idx) THEN 1 ELSE 0)
        BY <1>1, <3>2, CountAppended DEF TypeOK
      <3>5. Len(Append(toBoard, Packet)) = Len(toBoard) + 1
        BY <1>1, <3>2, AppendToLine DEF TypeOK
      <3>6. Count(toBoard, PacketsOf(idx)) \in Nat /\ Count(toHost, AcksOf(idx)) \in Nat
        BY <1>1, CountType DEF TypeOK
      <3>7. LiveAt(idx)' = Count(Append(toBoard, Packet), PacketsOf(idx))
                           + Count(toHost, AcksOf(idx))
        BY <2>1 DEF LiveAt, PacketsOf, AcksOf, Count, Places
      <3>8. UnderWay' = Len(Append(toBoard, Packet)) + Len(toHost) BY <2>1 DEF UnderWay
      <3> HIDE DEF Packet
      <3>9. UnderWay' = UnderWay + 1 BY <3>5, <3>8, <1>1 DEF UnderWay
      <3>10. LiveAt(idx)' = LiveAt(idx) + 1 BY <3>3, <3>4, <3>6, <3>7 DEF LiveAt
      <3> QED BY <3>9, <3>10 DEF len, live
    <2> QED BY <1>1, <1>3, <1>4, <2>1, <2>2 DEF PaidFor
  <1>11. CASE ReadAck
    <2>1. idx # Final
      <3>1. sender' = "ok" => board' = "left" BY DEF IndInv, Position
      <3>2. idx = Final => sender' = "ok" BY <1>11 DEF ReadAck, AfterPacket
      <3> QED BY <3>1, <3>2
    <2>2. len' = len - 1 /\ live' = 0 BY <1>11, <2>1, NothingLive DEF len, live
    <2>3. sender = "wait" /\ sender' = "send" /\ tries' = 0 /\ faults' = faults
      BY <1>11, <2>1 DEF ReadAck, AfterPacket
    <2> QED BY <1>1, <1>2, <1>3, <1>4, <2>2, <2>3 DEF PaidFor
  <1>12. CASE ReadUnexpected
    <2>1. /\ sender = "wait" /\ sender' = AfterMiss /\ tries' = tries /\ faults' = faults
          /\ toHost # <<>> /\ toHost' = Tail(toHost) /\ ~Acknowledges(Head(toHost))
          /\ UNCHANGED <<idx, toBoard>>
      BY <1>12 DEF ReadUnexpected, boardVars
    <2>2. len' = len - 1 /\ live' = live
      BY <1>1, <2>1, ReplyGone, UnexpectedIsNotLive DEF len, live
    <2>3. live' <= tries /\ tries + (len' - live') <= faults
      BY <1>1, <1>3, <2>1, <2>2 DEF PaidFor
    <2>4. PaidFor(AfterMiss, tries, faults, len', live') BY <1>1, <1>2, <2>3, MissPays
    <2> QED BY <1>4, <2>1, <2>4
  <1>13. CASE Timeout /\ Quiet
    <2>1. /\ sender = "wait" /\ sender' = AfterMiss /\ tries' = tries /\ faults' = faults
          /\ len' = len /\ live' = live
      BY <1>13, <1>7 DEF Timeout, lines
    <2>2. live' <= tries /\ tries + (len' - live') <= faults
      BY <1>1, <1>2, <1>3, <1>5, <1>13, <2>1 DEF PaidFor
    <2>3. PaidFor(AfterMiss, tries, faults, len', live') BY <1>1, <1>2, <2>2, MissPays
    <2> QED BY <1>4, <2>1, <2>3
  <1>14. CASE Timeout /\ ~Quiet
    <2>1. /\ sender = "wait" /\ sender' = AfterMiss /\ tries' = tries /\ faults' = faults + 1
          /\ len' = len /\ live' = live
      BY <1>14, <1>7 DEF Timeout, lines
    <2>2. live' <= tries /\ tries + (len' - live') <= faults + 1 /\ faults + 1 \in Nat
      BY <1>1, <1>3, <2>1 DEF PaidFor
    <2>3. PaidFor(AfterMiss, tries, faults + 1, len', live') BY <1>1, <1>2, <2>2, MissPays
    <2> QED BY <1>4, <2>1, <2>3
  <1>15. CASE ReadInterrupted
    <2>1. /\ sender = "wait" /\ sender' = AfterMiss /\ tries' = tries /\ faults' = faults
          /\ len' = len /\ live' = live
      BY <1>15, <1>7 DEF ReadInterrupted, lines
    <2>2. Quiet BY <1>15
    <2>3. live' <= tries /\ tries + (len' - live') <= faults
      BY <1>1, <1>2, <1>3, <1>5, <2>1, <2>2 DEF PaidFor
    <2>4. PaidFor(AfterMiss, tries, faults, len', live') BY <1>1, <1>2, <2>3, MissPays
    <2> QED BY <1>4, <2>1, <2>4
  <1>16. CASE ReadRemoteError \/ Cancelled \/ SendFails \/ NameTooLong \/ SetCancel
              \/ BoardIgnores \/ BoardAborts \/ BoardDies
    BY <1>6, <1>16 DEF ReadRemoteError, Cancelled, SendFails, NameTooLong, SetCancel,
                       BoardIgnores, BoardAborts, BoardDies
  <1>17. CASE BoardReceive
    <2>1. /\ toBoard # <<>> /\ toBoard' = Tail(toBoard)
          /\ sender' = sender /\ tries' = tries /\ faults' = faults /\ idx' = idx
      BY <1>17 DEF BoardReceive, senderVars
    <2>2. len' = len /\ live' = live
      BY <1>1, <1>17, <2>1, BoardAcknowledges, PacketAnswered DEF len, live
    <2> QED BY <1>3, <1>4, <2>1, <2>2
  <1>18. CASE LosePacket
    <2>1. /\ toBoard # <<>> /\ toBoard' = Tail(toBoard) /\ UNCHANGED <<idx, toHost>>
          /\ sender' = sender /\ tries' = tries /\ faults' = faults + 1
      BY <1>18 DEF LosePacket, Fault, senderVars
    <2>2. len' = len - 1 /\ live' \in {live, live - 1}
      BY <1>1, <2>1, PacketGone DEF len, live
    <2>3. live' <= live /\ len' - live' <= len - live + 1
      <3>1. len' \in {len, len - 1} /\ live' \in {live, live - 1} BY <2>2
      <3> QED BY <3>1, <1>1, <1>2, OneLess, Zenon
    <2>4. PaidFor(sender, tries, faults + 1, len', live') BY <1>1, <1>2, <1>3, <2>3, FaultPays
    <2> QED BY <1>4, <2>1, <2>4
  <1>19. CASE DamagePacket
    <2>1. /\ toBoard # <<>> /\ toBoard' = Tail(toBoard) /\ idx' = idx
          /\ toHost' = Append(toHost, Reply("N", Head(toBoard)))
          /\ sender' = sender /\ tries' = tries /\ faults' = faults + 1
      BY <1>19 DEF DamagePacket, Fault, senderVars
    <2>2. Reply("N", Head(toBoard)) \in Replies /\ Reply("N", Head(toBoard)) \notin AcksOf(idx)
      <3>1. Head(toBoard) \in Packets BY <1>1, <2>1, TailOfLine DEF TypeOK
      <3> QED BY <3>1 DEF Reply, Replies, AcksOf, Packets
    <2>3. len' = len /\ live' \in {live, live - 1}
      BY <1>1, <2>1, <2>2, PacketAnswered DEF len, live
    <2>4. live' <= live /\ len' - live' <= len - live + 1
      <3>1. len' \in {len, len - 1} /\ live' \in {live, live - 1} BY <2>3
      <3> QED BY <3>1, <1>1, <1>2, OneLess, Zenon
    <2>5. PaidFor(sender, tries, faults + 1, len', live') BY <1>1, <1>2, <1>3, <2>4, FaultPays
    <2> QED BY <1>4, <2>1, <2>5
  <1>20. CASE LoseReply
    <2>1. /\ toHost # <<>> /\ toHost' = Tail(toHost) /\ UNCHANGED <<idx, toBoard>>
          /\ sender' = sender /\ tries' = tries /\ faults' = faults + 1
      BY <1>20 DEF LoseReply, Fault, senderVars
    <2>2. len' = len - 1 /\ live' \in {live, live - 1}
      BY <1>1, <2>1, ReplyGone DEF len, live
    <2>3. live' <= live /\ len' - live' <= len - live + 1
      <3>1. len' \in {len, len - 1} /\ live' \in {live, live - 1} BY <2>2
      <3> QED BY <3>1, <1>1, <1>2, OneLess, Zenon
    <2>4. PaidFor(sender, tries, faults + 1, len', live') BY <1>1, <1>2, <1>3, <2>3, FaultPays
    <2> QED BY <1>4, <2>1, <2>4
  <1>21. CASE DamageReply
    <2>1. /\ toHost # <<>> /\ UNCHANGED <<idx, toBoard>>
          /\ toHost' = [toHost EXCEPT ![1].type = "damaged"]
          /\ sender' = sender /\ tries' = tries /\ faults' = faults + 1
      BY <1>21 DEF DamageReply, Fault, senderVars
    <2> DEFINE r == [toHost[1] EXCEPT !.type = "damaged"]
    <2>2. toHost \in Seq(Replies) /\ toHost[1] \in Replies
      BY <1>1, <2>1, TailOfLine DEF TypeOK
    <2>3. r.type = "damaged" BY <2>2 DEF Replies
    <2>4. toHost' = [toHost EXCEPT ![1] = r] BY <2>1
    <2> HIDE DEF r
    <2>5. r \notin AcksOf(idx) BY <2>3 DEF AcksOf
    <2>6. /\ Count(toHost', AcksOf(idx)) <= Count(toHost, AcksOf(idx))
          /\ Count(toHost', AcksOf(idx)) + 1 >= Count(toHost, AcksOf(idx))
          /\ Count(toHost', AcksOf(idx)) \in Nat
      BY <2>1, <2>2, <2>4, <2>5, CountDamaged
    <2>7. Count(toBoard, PacketsOf(idx)) \in Nat /\ Count(toHost, AcksOf(idx)) \in Nat
      BY <1>1, CountType DEF TypeOK
    <2>8. LiveAt(idx)' = Count(toBoard, PacketsOf(idx)) + Count(toHost', AcksOf(idx))
      BY <2>1 DEF LiveAt, PacketsOf, AcksOf, Count, Places
    <2>9. live' <= live /\ live' + 1 >= live BY <2>6, <2>7, <2>8 DEF live, LiveAt
    <2>10. len' = len BY <2>1, <2>2, <2>4 DEF len, UnderWay
    <2>11. live' <= live /\ len' - live' <= len - live + 1
      <3>1. len' \in {len, len - 1} BY <2>10
      <3> QED BY <3>1, <2>9, <1>1, <1>2, OneLess, Zenon
    <2>12. PaidFor(sender, tries, faults + 1, len', live') BY <1>1, <1>2, <1>3, <2>11, FaultPays
    <2> QED BY <1>4, <2>1, <2>12
  <1>22. CASE BoardNak
    <2> DEFINE r == [type |-> "N", seq |-> Len(got) % SeqMod, of |-> -1]
    <2>1. /\ toHost' = Append(toHost, r) /\ UNCHANGED <<idx, toBoard>>
          /\ sender' = sender /\ tries' = tries /\ faults' = faults + 1
      BY <1>22 DEF BoardNak, Fault, senderVars
    <2>2. r \in Replies /\ r.type # "Y"
      <3>1. Len(got) \in Nat BY <1>1 DEF TypeOK
      <3> QED BY <3>1, SeqDivision DEF Replies
    <2> HIDE DEF r
    <2>3. len' = len + 1 /\ live' = live BY <1>1, <2>1, <2>2, ReplyAdded DEF len, live
    <2>4. live' <= live /\ len' - live' <= len - live + 1 BY <1>1, <2>3
    <2>5. PaidFor(sender, tries, faults + 1, len', live') BY <1>1, <1>2, <1>3, <2>4, FaultPays
    <2> QED BY <1>4, <2>1, <2>5
  <1>23. CASE Done
    <2>1. sender' = sender /\ tries' = tries /\ faults' = faults /\ len' = len /\ live' = live
      BY <1>7, <1>23 DEF Done, vars
    <2> QED BY <1>3, <1>4, <2>1
  <1> QED
    BY <1>10, <1>11, <1>12, <1>13, <1>14, <1>15, <1>16, <1>17, <1>18, <1>19, <1>20,
       <1>21, <1>22, <1>23
       DEF Next, SenderNext, LineNext

LEMMA InitCalm == MCInit => CalmInv
  <1> SUFFICES ASSUME MCInit, setting = "calm" PROVE IndInv /\ NobodyGivesUp /\ Paid
    BY DEF CalmInv
  <1>1. Init BY DEF MCInit
  <1>2. IndInv BY <1>1, InitIndInv
  <1>3. NobodyGivesUp BY <1>1 DEF Init, NobodyGivesUp
  <1>4. UnderWay = 0 BY <1>1 DEF Init, UnderWay
  <1>5. LiveAt(idx) = 0
    <2>1. LiveAt(idx) \in Nat /\ LiveAt(idx) <= UnderWay BY <1>2, Numbers DEF IndInv
    <2> QED BY <2>1, <1>4
  <1>6. Paid BY <1>1, <1>4, <1>5 DEF Init, Paid, PaidFor
  <1> QED BY <1>2, <1>3, <1>6

LEMMA NextCalm == CalmInv /\ [MCNext]_mcVars => CalmInv'
  <1> SUFFICES ASSUME CalmInv, [MCNext]_mcVars, setting' = "calm"
               PROVE  IndInv' /\ NobodyGivesUp' /\ (board' # "left" => Paid')
    BY DEF CalmInv
  <1>1. setting = "calm" BY DEF MCNext, mcVars
  <1>2. IndInv /\ NobodyGivesUp /\ (board # "left" => Paid) BY <1>1 DEF CalmInv
  <1>3. CASE UNCHANGED mcVars
    <2>1. UNCHANGED vars BY <1>3 DEF mcVars
    <2>2. IndInv' BY <1>2, <2>1, NextIndInv
    <2>3. NobodyGivesUp' BY <1>2, <2>1 DEF vars, NobodyGivesUp
    <2>4. Paid' <=> Paid
      BY <2>1 DEF vars, Paid, PaidFor, UnderWay, LiveAt, Count, Places, PacketsOf, AcksOf
    <2>5. board' = board BY <2>1 DEF vars
    <2> QED BY <1>2, <2>2, <2>3, <2>4, <2>5
  <1>4. CASE MCNext
    <2>1. Next /\ NobodyGivesUp' /\ (ReadInterrupted => Quiet) BY <1>1, <1>4 DEF MCNext
    <2>2. IndInv' BY <1>2, <2>1, NextIndInv
    <2>3. ASSUME board' # "left" PROVE Paid'
      <3>1. board # "left" BY <2>1, <2>3, NotLeftBefore
      <3> QED BY <1>2, <2>1, <2>2, <2>3, <3>1, PaidStep
    <2> QED BY <2>1, <2>2, <2>3
  <1> QED BY <1>3, <1>4

\* However many faults, attempts and packets there are, and whatever the
\* modulus: a calm transfer never gives up with fewer faults than attempts,
\* though a late answer is paid for once and costs every later packet an
\* attempt.
THEOREM FaultsArePaid == MCSpec => []RetriesSuffice
  <1>1. CalmInv => RetriesSuffice
    BY DEF CalmInv, Paid, PaidFor, RetriesSuffice, FaultsUnderBudget
  <1> QED BY <1>1, InitCalm, NextCalm, PTL DEF MCSpec
====
