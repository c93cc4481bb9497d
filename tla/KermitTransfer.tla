---- MODULE KermitTransfer ----
(***************************************************************************)
(* The Kermit upload of src/kermit.rs: Send-Init, then the file header,    *)
(* the data packets, end of file and break, each sent by send_and_ack and  *)
(* sent again until it is acknowledged or the attempts are used up.        *)
(*                                                                         *)
(* A packet is its sequence number and, for the properties alone, its      *)
(* index in the transfer; what its bytes are is the business of            *)
(* KermitCodec.  The board is external: a stop-and-wait Kermit receiver as *)
(* the sender relies on it.  A serial line neither duplicates nor reorders *)
(* bytes; it loses and damages them, and an answer may be late.            *)
(***************************************************************************)
EXTENDS Integers, Sequences

CONSTANTS
    NumChunks,      \* how many data packets the file makes
    SeqMod,         \* the sequence numbers' modulus, 64 in the code
    MaxRetries,     \* upload.max_retries
    MaxFaults,      \* bound: line faults and late answers in one transfer
    Fatal           \* which fatal events may happen in a run

FatalEvents == {"io", "name", "remote", "dead", "cancel"}

ASSUME TransferAssumption ==
    /\ NumChunks \in Nat
    /\ SeqMod \in Nat /\ SeqMod >= 2
    /\ MaxRetries \in Nat
    /\ MaxFaults \in Nat
    /\ Fatal \subseteq FatalEvents

(***************************************************************************)
(* The transfer's packets are numbered 0 (S), 1 (F), 2.. (D), then Z and   *)
(* B.                                                                      *)
(***************************************************************************)
Final == NumChunks + 3
Index == 0 .. Final

\* A slip the runs must catch: the last data packet's progress is not reported.
ChunkButLast(n) == n \in 2 .. NumChunks

Chunk(n) == n \in 2 .. NumChunks + 1

SeqOf(n) == n % SeqMod

\* Both loops run `0..options.max_retries.max(1)` times.
Attempts == IF MaxRetries = 0 THEN 1 ELSE MaxRetries

VARIABLES
    sender,         \* where the sender is in its loop, or how it ended
    idx,            \* the packet being sent
    tries,          \* how often it has been written
    reported,       \* data packets in the last progress report
    cancel,         \* the cancel flag send_file is given
    toBoard,        \* the line from the program to the board
    toHost,         \* the line back
    got,            \* the packets the board has accepted, in order
    board,          \* what the board is doing
    faults          \* faults so far

senderVars == <<sender, idx, tries, reported>>
boardVars == <<got, board>>
lines == <<toBoard, toHost>>
vars == <<sender, idx, tries, reported, cancel, toBoard, toHost, got, board, faults>>

Failures == {"cancelled", "remote", "io", "name", "exhausted"}
Ended == Failures \union {"ok"}

Packets == [seq : 0 .. SeqMod - 1, n : Index]
\* `of` is the packet a reply answers, -1 for a reply left over from an
\* earlier session; the sender never reads it.
Replies == [type : {"Y", "N", "E", "damaged"}, seq : 0 .. SeqMod - 1, of : Index \union {-1}]

Init ==
    /\ sender = "send" /\ idx = 0 /\ tries = 0 /\ reported = 0
    /\ cancel = FALSE
    /\ toBoard = <<>> /\ toHost = <<>>
    /\ got = <<>> /\ board = "receiving"
    /\ faults = 0

(***************************************************************************)
(* The sender                                                              *)
(***************************************************************************)
Packet == [seq |-> SeqOf(idx), n |-> idx]

\* One turn of the loop up to the read: the cancel check, then write_all and
\* flush.
SendPacket ==
    /\ sender = "send"
    /\ ~cancel
    /\ toBoard' = Append(toBoard, Packet)
    /\ tries' = tries + 1
    /\ sender' = "wait"
    /\ UNCHANGED <<idx, reported, cancel, toHost, got, board, faults>>

Cancelled ==
    /\ sender = "send"
    /\ cancel
    /\ sender' = "cancelled"
    /\ UNCHANGED <<idx, tries, reported, cancel, lines, boardVars, faults>>

\* write_all or flush fails: the packet may have gone out or not.  A file that
\* cannot be read ends the same way, before anything was sent.
SendFails ==
    /\ "io" \in Fatal
    /\ sender = "send"
    /\ ~cancel
    /\ toBoard' \in {toBoard, Append(toBoard, Packet)}
    /\ sender' = "io"
    /\ UNCHANGED <<idx, tries, reported, cancel, toHost, boardVars, faults>>

\* The encoded file name is over the budget the board's parameters leave.
NameTooLong ==
    /\ "name" \in Fatal
    /\ sender = "send" /\ idx = 1 /\ tries = 0
    /\ sender' = "name"
    /\ UNCHANGED <<idx, tries, reported, cancel, lines, boardVars, faults>>

\* A slip the runs must catch: no acknowledgement's number is looked at.
AcknowledgesAny(reply) == reply.type = "Y"

\* exchange_init takes any 'Y'; send_and_ack wants the packet's own number.
Acknowledges(reply) ==
    reply.type = "Y" /\ (idx = 0 \/ reply.seq = SeqOf(idx))

\* A slip the runs must catch: the transfer ends with end of file, no break.
AfterPacketNoBreak(n) == IF n = Final - 1 THEN "ok" ELSE "send"

AfterPacket(n) == IF n = Final THEN "ok" ELSE "send"

ReadAck ==
    /\ sender = "wait"
    /\ toHost # <<>>
    /\ Acknowledges(Head(toHost))
    /\ toHost' = Tail(toHost)
    /\ sender' = AfterPacket(idx)
    /\ idx' = IF idx = Final THEN idx ELSE idx + 1
    /\ tries' = 0
    /\ reported' = IF Chunk(idx) THEN idx - 1 ELSE reported
    /\ UNCHANGED <<cancel, toBoard, boardVars, faults>>

ReadRemoteError ==
    /\ sender = "wait"
    /\ toHost # <<>>
    /\ Head(toHost).type = "E"
    /\ toHost' = Tail(toHost)
    /\ sender' = "remote"
    /\ UNCHANGED <<idx, tries, reported, cancel, toBoard, boardVars, faults>>

\* A slip the runs must catch: one attempt too few.
AfterMissOneLess == IF tries + 1 < Attempts THEN "send" ELSE "exhausted"

AfterMiss == IF tries < Attempts THEN "send" ELSE "exhausted"

\* Any other answer: a NAK, an acknowledgement of another packet, one whose
\* length or block check is wrong.
ReadUnexpected ==
    /\ sender = "wait"
    /\ toHost # <<>>
    /\ ~Acknowledges(Head(toHost))
    /\ Head(toHost).type # "E"
    /\ toHost' = Tail(toHost)
    /\ sender' = AfterMiss
    /\ UNCHANGED <<idx, tries, reported, cancel, toBoard, boardVars, faults>>

Quiet == toBoard = <<>> /\ toHost = <<>>

\* A slip the runs must catch: a read with no deadline.
NoDeadline == FALSE

\* read_byte's deadline passes.  With something still under way the answer is
\* late, and that is a fault.
Timeout ==
    /\ sender = "wait"
    /\ \/ Quiet /\ UNCHANGED faults
       \/ ~Quiet /\ faults < MaxFaults /\ faults' = faults + 1
    /\ sender' = AfterMiss
    /\ UNCHANGED <<idx, tries, reported, cancel, lines, boardVars>>

\* read_byte's own cancel check is an error like any other to the loop.  The
\* same branch takes a port that fails to read.
ReadInterrupted ==
    /\ sender = "wait"
    /\ cancel \/ "io" \in Fatal
    /\ sender' = AfterMiss
    /\ UNCHANGED <<idx, tries, reported, cancel, lines, boardVars, faults>>

SetCancel ==
    /\ "cancel" \in Fatal
    /\ sender \notin Ended
    /\ ~cancel
    /\ cancel' = TRUE
    /\ UNCHANGED <<senderVars, lines, boardVars, faults>>

SenderNext ==
    \/ SendPacket \/ Cancelled \/ SendFails \/ NameTooLong
    \/ ReadAck \/ ReadRemoteError \/ ReadUnexpected
    \/ Timeout \/ ReadInterrupted

(***************************************************************************)
(* The board                                                               *)
(***************************************************************************)
Reply(type, pkt) == [type |-> type, seq |-> pkt.seq, of |-> pkt.n]

\* The receiver counts packets itself: it takes the one it expects and leaves
\* after a break, acknowledges the one before again, and refuses the rest.
BoardReceive ==
    /\ board = "receiving"
    /\ toBoard # <<>>
    /\ toBoard' = Tail(toBoard)
    /\ LET pkt == Head(toBoard)
           expected == Len(got) % SeqMod
       IN  \/ /\ pkt.seq = expected
              /\ got' = Append(got, pkt.n)
              /\ board' = IF pkt.n = Final THEN "left" ELSE board
              /\ toHost' = Append(toHost, Reply("Y", pkt))
           \/ /\ pkt.seq # expected
              /\ got # <<>> /\ pkt.seq = (Len(got) - 1) % SeqMod
              /\ toHost' = Append(toHost, Reply("Y", pkt))
              /\ UNCHANGED boardVars
           \/ /\ pkt.seq # expected
              /\ got = <<>> \/ pkt.seq # (Len(got) - 1) % SeqMod
              /\ toHost' = Append(toHost, Reply("N", pkt))
              /\ UNCHANGED boardVars
    /\ UNCHANGED <<senderVars, cancel, faults>>

\* A board that runs the program, gave up or lost power answers nothing.
BoardIgnores ==
    /\ board # "receiving"
    /\ toBoard # <<>>
    /\ toBoard' = Tail(toBoard)
    /\ UNCHANGED <<senderVars, cancel, toHost, boardVars, faults>>

BoardAborts ==
    /\ "remote" \in Fatal
    /\ board = "receiving"
    /\ board' = "aborted"
    /\ toHost' = Append(toHost, [type |-> "E", seq |-> 0, of |-> -1])
    /\ UNCHANGED <<senderVars, cancel, toBoard, got, faults>>

BoardDies ==
    /\ "dead" \in Fatal
    /\ board = "receiving"
    /\ board' = "dead"
    /\ UNCHANGED <<senderVars, cancel, lines, got, faults>>

(***************************************************************************)
(* The line, and the board's own timer                                     *)
(***************************************************************************)
Fault == faults < MaxFaults /\ faults' = faults + 1

LosePacket ==
    /\ Fault
    /\ toBoard # <<>>
    /\ toBoard' = Tail(toBoard)
    /\ UNCHANGED <<senderVars, cancel, toHost, boardVars>>

DamagePacket ==
    /\ Fault
    /\ board = "receiving"
    /\ toBoard # <<>>
    /\ toHost' = Append(toHost, Reply("N", Head(toBoard)))
    /\ toBoard' = Tail(toBoard)
    /\ UNCHANGED <<senderVars, cancel, boardVars>>

LoseReply ==
    /\ Fault
    /\ toHost # <<>>
    /\ toHost' = Tail(toHost)
    /\ UNCHANGED <<senderVars, cancel, toBoard, boardVars>>

DamageReply ==
    /\ Fault
    /\ toHost # <<>> /\ Head(toHost).type # "damaged"
    /\ toHost' = [toHost EXCEPT ![1].type = "damaged"]
    /\ UNCHANGED <<senderVars, cancel, toBoard, boardVars>>

\* A waiting receiver asks again of its own accord.
BoardNak ==
    /\ Fault
    /\ board = "receiving"
    /\ toHost' = Append(toHost, [type |-> "N", seq |-> Len(got) % SeqMod, of |-> -1])
    /\ UNCHANGED <<senderVars, cancel, toBoard, boardVars>>

LineNext == LosePacket \/ DamagePacket \/ LoseReply \/ DamageReply \/ BoardNak

Done == sender \in Ended /\ toBoard = <<>> /\ UNCHANGED vars

Next ==
    \/ SenderNext \/ SetCancel
    \/ BoardReceive \/ BoardIgnores \/ BoardAborts \/ BoardDies
    \/ LineNext
    \/ Done

Spec == Init /\ [][Next]_vars

(***************************************************************************)
(* The sender is one thread that never blocks past its deadline; a line    *)
(* with power delivers what it holds.  Faults, aborts and late answers are *)
(* never owed to anyone.                                                   *)
(***************************************************************************)
QuietTimeout == Quiet /\ Timeout

Fairness ==
    /\ WF_vars(SendPacket \/ Cancelled)
    /\ WF_vars(ReadAck \/ ReadRemoteError \/ ReadUnexpected)
    /\ WF_vars(QuietTimeout)
    /\ WF_vars(BoardReceive \/ BoardIgnores)

(***************************************************************************)
(* port.clear empties what had arrived before the transfer; an answer that *)
(* an interrupted transfer left under way arrives after it.                *)
(***************************************************************************)
StaleReply == [type |-> "Y", seq |-> 0, of |-> -1]

StaleInit ==
    /\ sender = "send" /\ idx = 0 /\ tries = 0 /\ reported = 0
    /\ cancel = FALSE
    /\ toBoard = <<>>
    /\ \E s \in 0 .. SeqMod - 1 : toHost = <<[StaleReply EXCEPT !.seq = s]>>
    /\ got = <<>> /\ board = "receiving"
    /\ faults = 0

(***************************************************************************)
(* Properties                                                              *)
(***************************************************************************)

\* The one type invariant: what each variable of kermit.rs's transfer holds.
TypeOK ==
    /\ sender \in {"send", "wait"} \union Ended
    /\ idx \in Index
    /\ tries \in 0 .. Attempts
    /\ reported \in 0 .. NumChunks
    /\ cancel \in BOOLEAN
    /\ toBoard \in Seq(Packets)
    /\ toHost \in Seq(Replies)
    /\ got \in Seq(Index)
    /\ board \in {"receiving", "left", "aborted", "dead"}
    /\ faults \in 0 .. MaxFaults

\* The board stores the transfer's packets in order and each once, whatever is
\* lost, late or sent twice, although send_and_ack numbers them modulo 64 only.
InOrder == \A i \in 1 .. Len(got) : got[i] = i - 1

\* send_file returns Ok only when the board has taken every packet and left.
SuccessIsDelivery ==
    sender = "ok" => Len(got) = Final + 1 /\ board = "left"

\* A progress report never counts a data packet the board has not stored, and
\* a transfer that ends well has reported them all.
ProgressHonest ==
    /\ reported > 0 => Len(got) >= reported + 2
    /\ sender = "ok" => reported = NumChunks

\* Fewer faults than attempts never exhaust send_and_ack, even when each late
\* answer costs every later packet an attempt.  The break packet is apart: the
\* board that has taken it is gone and answers no repetition.
FaultsUnderBudget ==
    sender = "exhausted" => faults >= Attempts \/ board = "left"

\* Fewer faults than attempts, and the whole file arrives.
EventuallyDelivered == <>(board = "left")

\* One acknowledgement left over from an interrupted upload may be taken for the
\* answer to Send-Init, but without a fault beside it the file still arrives.
StaleAloneHarmless == <>(board = "left" \/ faults > 0)

\* The upload command ends, whatever the line and the board do.
AlwaysEnds == <>(sender \in Ended)

\* The transfer implements FileTransfer.
Outcome == IF sender = "ok" THEN "done"
           ELSE IF sender \in Failures THEN "failed" ELSE "running"

Transfer == INSTANCE FileTransfer WITH Final <- Final, stored <- got, outcome <- Outcome
ImplementsFileTransfer == Transfer!Spec

(***************************************************************************)
(* The inductive invariant.  The sender is never more than one packet      *)
(* behind the board; so what is under way is the packet being sent or the  *)
(* one before it, in order, and two neighbours never share a number.       *)
(***************************************************************************)
Position ==
    /\ Len(got) \in {idx, idx + 1}
    /\ board = "left" <=> Len(got) = Final + 1
    /\ sender = "ok" => idx = Final /\ board = "left"
    /\ sender = "send" => tries < Attempts

PacketsFollow ==
    /\ \A i \in 1 .. Len(toBoard) :
          /\ toBoard[i].seq = SeqOf(toBoard[i].n)
          /\ toBoard[i].n \in {idx - 1, idx}
          /\ Len(got) = idx + 1 => toBoard[i].n = idx
    /\ \A i, j \in 1 .. Len(toBoard) : i < j => toBoard[i].n <= toBoard[j].n

Ack(i) == toHost[i].type = "Y"

RepliesFollow ==
    /\ \A i \in 1 .. Len(toHost) : Ack(i) =>
          /\ toHost[i].of \in Index
          /\ toHost[i].seq = SeqOf(toHost[i].of)
          /\ toHost[i].of \in {idx - 1, idx}
          /\ toHost[i].of = idx => Len(got) = idx + 1
    /\ \A i, j \in 1 .. Len(toHost) :
          i < j /\ Ack(i) /\ Ack(j) => toHost[i].of <= toHost[j].of

ReportFollows ==
    reported = IF idx <= 2 THEN 0
               ELSE IF idx = Final THEN NumChunks ELSE idx - 2

\* What every step of the transfer preserves: together the parts above say that
\* sender and board are at the same packet, or the board one ahead.
IndInv == TypeOK /\ InOrder /\ Position /\ PacketsFollow /\ RepliesFollow /\ ReportFollows
====
