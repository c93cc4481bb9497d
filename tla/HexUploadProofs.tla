---- MODULE HexUploadProofs ----
(***************************************************************************)
(* Proofs about HexUpload for every record length, memory, number of       *)
(* uploads and budget of faults: an upload writes inside its program, one  *)
(* that failed starts nothing, damaged records are outlived, and while     *)
(* nobody presses reset only whole programs are started.                   *)
(***************************************************************************)
EXTENDS HexUpload, FiniteSetTheorems, SequenceTheorems, WellFoundedInduction, TLAPS

(***************************************************************************)
(* The inductive invariant                                                 *)
(***************************************************************************)
\* What the board has not acted on yet, and what the program has not read yet.
Inbox == line \o toBoard
Outbox == toHost \o printing

Greeting == {"settle L", "L", "L cr", "ready"}
Starting == {"settle R", "digits", "R", "R cr"}

\* A piece is of an upload so far and, of the last one, inside its program.
Inside(p) ==
    /\ p.upload <= upload
    /\ p.upload = upload => load <= p.addr /\ p.addr + p.len <= load + size
    /\ p.addr + p.len <= MemorySize

\* The board holds nothing of a later upload, and of the last one nothing that
\* is outside its program.
Confined ==
    /\ \A i \in 1 .. Len(Inbox) : Inside(Inbox[i])
    /\ \A a \in Addresses : memory[a] <= upload
    /\ WritesInside

\* Where send_program is.
Position ==
    /\ host # "ended" => result = "none" /\ upload >= 1 /\ size > 0 /\ Fits(load, size)
    /\ result # "none" => upload >= 1
    /\ reported > 0 => Fits(load, size)
    /\ host \in Greeting => idx = 1 /\ reported = 0
    /\ host \in {"write", "answer"} => idx \in 1 .. NumRecords
    /\ host \in {"write", "answer", "eof"} =>
        /\ idx \in 1 .. NumRecords + 1
        /\ reported = BytesIn(idx - 1)
    /\ host = "eof" => idx = NumRecords + 1
    /\ host \in {"report", "rest"} \union Starting => reported = size

\* What an upload types is behind what the earlier ones typed.
InTurn == \A i, j \in 1 .. Len(Inbox) : i < j => Inbox[i].upload <= Inbox[j].upload

\* The start command is out, or may be.
Launching == host = "R cr" \/ (host = "ended" /\ result \in {"ok", "died"})

StartsLast ==
    /\ InTurn
    /\ \A i \in 1 .. Len(Inbox) : Inbox[i].upload = upload /\ Inbox[i].type = "R" => Launching
    /\ started.upload <= upload
    /\ started.upload = upload /\ upload > 0 => Launching

\* While nobody presses reset: at most one record is on its way, and only to the
\* loader; the loader's READY is there only while no record is; and the digits of
\* a start command are typed at the prompt, to a line that is empty and a program
\* that is complete.
OneRecord ==
    \A i \in 1 .. Len(Inbox) : Colon(Inbox[i]) =>
        /\ board = "loading"
        /\ \A j \in 1 .. Len(Inbox) : Colon(Inbox[j]) => j = i
        /\ reported > 0 => Inbox[i].upload = upload

OneReady ==
    \A i \in 1 .. Len(Outbox) : Outbox[i] = "READY" =>
        /\ board = "loading"
        /\ \A j \in 1 .. Len(Inbox) : ~Colon(Inbox[j])
        /\ \A j \in i + 1 .. Len(Outbox) : Outbox[j] = "tail"

Complete(p) == \A a \in Program(p) : memory[a] = p.upload

DigitsFirst ==
    \A i \in 1 .. Len(Inbox) : Inbox[i].type = "digits" =>
        i = 1 /\ board = "prompt" /\ Complete(Inbox[i])

OnlyTails(text) == \A i \in 1 .. Len(text) : text[i] = "tail"
NoRecord == \A i \in 1 .. Len(Inbox) : ~Colon(Inbox[i])

Stored(n) == \A a \in load .. load + n - 1 : memory[a] = upload

\* The loader waits for a record, and what it says is over.
MayWrite == board = "loading" /\ NoRecord /\ OnlyTails(Outbox)

\* One record, or one answer to it; and a full stop means that it is stored.
Answering ==
    /\ board = "loading"
    /\ \A i \in 1 .. Len(Inbox) : Colon(Inbox[i]) =>
        /\ Inbox[i].type = "bad" \/ Inbox[i] = Record(idx)
        /\ OnlyTails(Outbox)
    /\ \A i \in 1 .. Len(Outbox) :
        /\ Outbox[i] \in {"tail", ".", "X"}
        /\ Outbox[i] # "tail" => \A j \in i + 1 .. Len(Outbox) : Outbox[j] = "tail"
        /\ Outbox[i] = "." => Stored(BytesIn(idx))

\* A record is the end-of-file record, or what arrives of it, and no line follows.
LastRecord(box) ==
    \A i \in 1 .. Len(box) : Colon(box[i]) =>
        /\ box[i].type \in {"bad", "eof"}
        /\ box[i].type = "eof" => \A j \in i + 1 .. Len(box) : LineFeed(box[j]) => j = Len(box)

\* A report comes from the prompt, with nothing left on the line.
Reporting ==
    /\ board = "loading" \/ (board = "prompt" /\ Inbox = <<>>)
    /\ LastRecord(Inbox)
    /\ Holds(seen, "successful") \/ Holds(Outbox, "successful") => board = "prompt"

AtPrompt ==
    /\ board = "prompt"
    /\ host \in {"settle R", "digits"} => Inbox = <<>>
    /\ \A i \in 1 .. Len(Inbox) : Inbox[i].type = "digits" \/ (Inbox[i].type = "R" /\ host = "R cr")

Speaking ==
    /\ host \in {"write", "eof"} => MayWrite
    /\ host = "answer" => Answering
    /\ host \in {"report", "rest"} => Reporting
    /\ host \in Starting => AtPrompt

Sequential ==
    /\ OneRecord /\ OneReady /\ DigitsFirst /\ Speaking
    /\ board = "running" => Complete(started)
    /\ Stored(reported)

(***************************************************************************)
(* The first upload, with records damaged and nothing else amiss: the      *)
(* program and the monitor take turns, and never is the board quiet while  *)
(* the program waits.                                                      *)
(***************************************************************************)
Calm ==
    /\ upload <= 1
    /\ \A k \in Kinds \ {"checksum"} : faults[k] = 0
    /\ faults["checksum"] <= MaxRetries

Idle == board = "prompt" /\ Inbox = <<>> /\ Outbox = <<>>
Loader == board = "loading" /\ ~damaged

Opening ==
    /\ board = "prompt" /\ Outbox = <<>> /\ toBoard # <<>>
    /\ Len(Inbox) = 2 /\ Inbox[1].type = "L" /\ Inbox[2].type = "cr"

Opened ==
    /\ Loader /\ Inbox = <<>>
    /\ Len(Outbox) = 2 /\ Outbox[1] = "READY" /\ Outbox[2] = "tail"

\* One record is on its way, and its line feed has not come.
Comes(types) ==
    /\ Loader /\ toBoard # <<>>
    /\ Len(Inbox) = 3
    /\ Inbox[1].type \in types /\ Inbox[2].type = "cr" /\ Inbox[3].type = "lf"

\* No more attempts have failed than records were damaged.
Answered ==
    \/ Comes({"data"}) /\ OnlyTails(Outbox) /\ attempt <= faults["checksum"]
    \/ Comes({"bad"}) /\ OnlyTails(Outbox) /\ attempt + 1 <= faults["checksum"]
    \/ /\ Loader /\ Inbox = <<>>
       /\ Holds(Outbox, ".") \/ Holds(Outbox, "X")
       /\ attempt <= faults["checksum"]
       /\ Holds(Outbox, "X") => attempt + 1 <= faults["checksum"]

Report(text) ==
    /\ Holds(text, "Load")
    /\ \E i \in 1 .. Len(text) :
        /\ text[i] = "successful"
        /\ \A j \in 1 .. Len(text) : j # i => text[j] \in {"Load", "tail"}
        /\ \A j \in i + 1 .. Len(text) : text[j] = "tail"

Rejects(text) ==
    /\ Holds(text, "X")
    /\ \A i \in 1 .. Len(text) : text[i] \in {"tail", "X"}

Reported ==
    /\ ~Holds(seen, "Load")
    /\ \/ Comes({"eof", "bad"}) /\ OnlyTails(seen \o Outbox)
       \/ Inbox = <<>> /\ (Report(seen \o Outbox) \/ Rejects(seen \o Outbox))

Lockstep ==
    /\ host = "ended" => result \in {"none", "ok", "refused"} \/ Holds(seen, "X")
    /\ host \in {"settle L", "L"} \/ upload = 0 => Idle
    /\ host \in Greeting => attempt = 0
    /\ host = "L cr" => board = "prompt" /\ Outbox = <<>> /\ Len(Inbox) = 1 /\ Inbox[1].type = "L"
    /\ host = "ready" => Opening \/ Opened
    /\ host \in {"write", "eof"} => Loader /\ Inbox = <<>> /\ attempt <= faults["checksum"]
    /\ host = "answer" => Answered
    /\ host = "report" => Reported
    /\ host = "rest" => Inbox = <<>> /\ Report(seen \o Outbox)

IndInv ==
    /\ TypeOK /\ Confined /\ Position /\ StartsLast
    /\ Undisturbed => Sequential

(***************************************************************************)
(* Sequences                                                               *)
(***************************************************************************)

\* new is old without the d elements after the k-th; with text after it.
Cut(new, old, k, d) ==
    /\ k \in Nat /\ d \in Nat
    /\ Len(old) = Len(new) + d /\ k <= Len(new)
    /\ \A i \in 1 .. Len(new) : new[i] = old[IF i <= k THEN i ELSE i + d]

Longer(new, old, text) ==
    /\ Len(new) = Len(old) + Len(text)
    /\ \A i \in 1 .. Len(old) : new[i] = old[i]
    /\ \A i \in 1 .. Len(text) : new[Len(old) + i] = text[i]

LEMMA Same == ASSUME NEW S, NEW a \in Seq(S) PROVE Cut(a, a, 0, 0)
  BY DEF Cut

LEMMA TailCut ==
  ASSUME NEW S, NEW a \in Seq(S), a # <<>>
  PROVE  Tail(a) \in Seq(S) /\ Head(a) \in S /\ Cut(Tail(a), a, 0, 1)
  BY DEF Cut

\* The first of b goes; a and the first of b go; the first of b moves to a.
LEMMA MiddleCut ==
  ASSUME NEW S, NEW a \in Seq(S), NEW b \in Seq(S), b # <<>>
  PROVE  Cut(a \o Tail(b), a \o b, Len(a), 1)
  <1>1. Len(b) >= 1 /\ Len(Tail(b)) = Len(b) - 1 /\ Tail(b) \in Seq(S)
    OBVIOUS
  <1>2. \A i \in 1 .. Len(Tail(b)) : Tail(b)[i] = b[i + 1]
    OBVIOUS
  <1> QED BY <1>1, <1>2 DEF Cut

LEMMA FrontCut ==
  ASSUME NEW S, NEW a \in Seq(S), NEW b \in Seq(S), b # <<>>
  PROVE  Cut(Tail(b), a \o b, 0, Len(a) + 1)
  <1>1. Len(b) >= 1 /\ Len(Tail(b)) = Len(b) - 1 /\ Tail(b) \in Seq(S)
    OBVIOUS
  <1>2. \A i \in 1 .. Len(Tail(b)) : Tail(b)[i] = b[i + 1]
    OBVIOUS
  <1> QED BY <1>1, <1>2 DEF Cut

LEMMA HeadMoves ==
  ASSUME NEW S, NEW a \in Seq(S), NEW b \in Seq(S), b # <<>>
  PROVE  Append(a, Head(b)) \o Tail(b) = a \o b
  OBVIOUS

LEMMA Rest ==
  ASSUME NEW S, NEW a \in Seq(S), NEW b \in Seq(S), NEW k \in 0 .. Len(a)
  PROVE  /\ SubSeq(a, k + 1, Len(a)) \in Seq(S) /\ SubSeq(a, 1, k) \in Seq(S)
         /\ Cut(SubSeq(a, k + 1, Len(a)) \o b, a \o b, 0, k)
  <1> DEFINE r == SubSeq(a, k + 1, Len(a))
  <1>1. r \in Seq(S) /\ SubSeq(a, 1, k) \in Seq(S)
    OBVIOUS
  <1>2. Len(r) = Len(a) - k /\ \A i \in 1 .. Len(r) : r[i] = a[i + k]
    OBVIOUS
  <1> HIDE DEF r
  <1>3. /\ Len(r \o b) + k = Len(a \o b)
        /\ \A i \in 1 .. Len(r \o b) : (r \o b)[i] = (a \o b)[i + k]
    <2>1. Len(a) \in Nat /\ Len(b) \in Nat /\ Len(r \o b) = Len(r) + Len(b) /\ Len(a \o b) = Len(a) + Len(b)
      BY <1>1
    <2>2. ASSUME NEW i \in 1 .. Len(r \o b) PROVE (r \o b)[i] = (a \o b)[i + k]
      <3>1. CASE i <= Len(r)
        <4>1. (r \o b)[i] = r[i] BY <1>1, <2>1, <3>1
        <4>2. (a \o b)[i + k] = a[i + k] BY <1>2, <2>1, <3>1
        <4> QED BY <1>2, <3>1, <4>1, <4>2
      <3>2. CASE i > Len(r)
        <4>1. (r \o b)[i] = b[i - Len(r)] BY <1>1, <2>1, <3>2
        <4>2. (a \o b)[i + k] = b[i + k - Len(a)] BY <1>2, <2>1, <3>2
        <4>3. i - Len(r) = i + k - Len(a) BY <1>2, <2>1
        <4> QED BY <4>1, <4>2, <4>3
      <3>3. i <= Len(r) \/ i > Len(r) BY ONLY <2>1, i \in 1 .. Len(r \o b), Len(r) \in Nat
      <3> QED BY ONLY <3>1, <3>2, <3>3
    <2> QED BY <1>2, <2>1, <2>2
  <1>4. Cut(r \o b, a \o b, 0, k)
    BY <1>1, <1>3 DEF Cut
  <1> QED BY <1>1, <1>4 DEF r

LEMMA Joined ==
  ASSUME NEW S, NEW a \in Seq(S), NEW text \in Seq(S)
  PROVE  a \o text \in Seq(S) /\ Longer(a \o text, a, text)
  BY DEF Longer

LEMMA Appended ==
  ASSUME NEW S, NEW a \in Seq(S), NEW x \in S
  PROVE  /\ Append(a, x) \in Seq(S) /\ <<x>> \in Seq(S)
         /\ Append(a, x) = a \o <<x>>
  OBVIOUS

\* Three sequences run together in either order of grouping.
Grouped(a, b, c) == (a \o b) \o c = a \o (b \o c)

LEMMA Regroup ==
  ASSUME NEW S, NEW a \in Seq(S), NEW b \in Seq(S), NEW c \in Seq(S)
  PROVE  Grouped(a, b, c)
  BY ONLY a \in Seq(S), b \in Seq(S), c \in Seq(S) DEF Grouped

(***************************************************************************)
(* Records                                                                 *)
(***************************************************************************)
LEMMA Division ==
  ASSUME NEW x \in Nat
  PROVE  LET q == x \div RecordLength
         IN  q \in Nat /\ RecordLength * q <= x /\ x < RecordLength * q + RecordLength
  BY HexAssumption

LEMMA Wrap == ASSUME NEW x \in 0 .. MemorySize - 1 PROVE x % MemorySize = x
  BY HexAssumption

\* The records of a program: all but the last are full, and none is empty.
LEMMA RecordsType ==
  ASSUME size \in Nat
  PROVE  /\ NumRecords \in Nat /\ NumRecords * RecordLength >= size
         /\ \A n \in 1 .. NumRecords : (n - 1) * RecordLength < size
  <1> DEFINE N == NumRecords
  <1>1. N \in Nat /\ RecordLength * N <= size + RecordLength - 1 /\ size + RecordLength - 1 < RecordLength * N + RecordLength
    BY Division, HexAssumption DEF NumRecords
  <1> HIDE DEF N
  <1>2. N * RecordLength = RecordLength * N
    BY <1>1, HexAssumption
  <1>3. ASSUME NEW n \in 1 .. N PROVE (n - 1) * RecordLength < size
    <2>1. PICK m \in Nat : N = n + m
      <3>1. N - n \in Nat /\ N = n + (N - n) BY <1>1
      <3> QED BY <3>1
    <2>2. RecordLength * N = RecordLength * n + RecordLength * m
      BY <2>1, HexAssumption
    <2>3. RecordLength * m >= 0 /\ RecordLength * m \in Int
      BY HexAssumption
    <2>4. (n - 1) * RecordLength = RecordLength * n - RecordLength
      BY HexAssumption
    <2>5. RecordLength * n \in Int /\ RecordLength \in Int
      BY HexAssumption
    <2> QED BY <1>1, <2>2, <2>3, <2>4, <2>5
  <1>4. RecordLength * N \in Int /\ RecordLength \in Int
    BY <1>1, HexAssumption
  <1>5. N * RecordLength >= size
    BY <1>1, <1>2, <1>4
  <1> QED BY <1>1, <1>3, <1>5 DEF N

LEMMA BytesType ==
  ASSUME size \in Nat, NEW n \in Nat
  PROVE  BytesIn(n) \in 0 .. size
  <1>1. n * RecordLength \in Nat
    BY HexAssumption
  <1> QED BY <1>1 DEF BytesIn

LEMMA BytesEnds ==
  ASSUME size \in Nat
  PROVE  BytesIn(0) = 0 /\ BytesIn(NumRecords) = size /\ (size > 0 => NumRecords >= 1)
  <1>1. 0 * RecordLength = 0
    BY HexAssumption
  <1>2. NumRecords * RecordLength \in Nat
    BY RecordsType, HexAssumption
  <1> QED BY <1>1, <1>2, RecordsType DEF BytesIn

\* The n-th record of a program that fits: it does not wrap, and it takes the bytes
\* stored from those of n - 1 records to those of n.
LEMMA RecordPlace ==
  ASSUME TypeOK, Fits(load, size), NEW n \in 1 .. NumRecords
  PROVE  LET rec == Record(n)
         IN  /\ rec.type = "data" /\ rec.upload = upload
             /\ rec.addr = load + BytesIn(n - 1) /\ rec.addr \in Addresses
             /\ rec.len = BytesIn(n) - BytesIn(n - 1) /\ rec.len \in Nat
             /\ load <= rec.addr /\ rec.addr + rec.len <= load + size
  <1>1. load \in 0 .. MemorySize - 1 /\ size \in Nat /\ MemorySize \in Nat /\ load + size <= MemorySize
    BY HexAssumption DEF TypeOK, Addresses, Fits
  <1>2. n \in Nat /\ n - 1 \in Nat
    BY RecordsType, <1>1
  <1>3. (n - 1) * RecordLength \in Nat /\ (n - 1) * RecordLength < size
    BY <1>1, <1>2, RecordsType, HexAssumption
  <1>4. BytesIn(n - 1) = (n - 1) * RecordLength
    BY <1>3 DEF BytesIn
  <1>5. BytesIn(n) \in 0 .. size /\ BytesIn(n) >= BytesIn(n - 1)
    <2>1. n * RecordLength = (n - 1) * RecordLength + RecordLength
      BY <1>2, HexAssumption
    <2> QED BY <1>1, <1>2, <1>3, <1>4, <2>1, BytesType, HexAssumption DEF BytesIn
  <1>6. (load + (n - 1) * RecordLength) % MemorySize = load + (n - 1) * RecordLength
    BY <1>1, <1>3, Wrap
  <1> QED BY <1>1, <1>3, <1>4, <1>5, <1>6 DEF Record, Addresses

(***************************************************************************)
(* What is typed and what is written                                       *)
(***************************************************************************)
LEMMA PieceType ==
  ASSUME TypeOK, Position, host # "ended",
         NEW t \in {"L", "digits", "R", "cr", "lf", "eof", "bad", "junk"}
  PROVE  /\ Piece(t) \in Pieces /\ Inside(Piece(t))
         /\ Piece(t).type = t /\ Piece(t).upload = upload
  BY HexAssumption DEF TypeOK, Position, Piece, Pieces, Inside, Addresses, Uploads, Fits

\* A line of the loader as it arrives, of a record that begins with its colon.
LineOf(rec) == {Written(rec), Written(Piece("bad"))} \union Garbled(rec)

OneColon(rec, text) ==
    /\ Len(text) \in 1 .. 5
    /\ \A i \in 1 .. Len(text) :
        /\ Inside(text[i]) /\ text[i].upload = upload
        /\ text[i].type \in {rec.type, "bad", "junk", "cr", "lf"}
        /\ Colon(text[i]) => text[i].type = "bad" \/ text[i] = rec
    /\ \A i, j \in 1 .. Len(text) : Colon(text[i]) /\ Colon(text[j]) => i = j
    /\ \A i, j \in 1 .. Len(text) :
        text[i].type = "eof" /\ i < j /\ LineFeed(text[j]) => j = Len(text)

LEMMA LineType ==
  ASSUME TypeOK, Position, host # "ended",
         NEW rec \in Pieces, Inside(rec), rec.upload = upload, rec.type \in {"data", "eof"},
         NEW text \in LineOf(rec)
  PROVE  text \in Seq(Pieces) /\ OneColon(rec, text)
  <1> DEFINE bad == Piece("bad")
             junk == Piece("junk")
             cr == Piece("cr")
             lf == Piece("lf")
             P == {rec, bad, junk, cr, lf}
  <1>1. P \subseteq Pieces /\ \A p \in P : Inside(p) /\ p.upload = upload
    BY PieceType
  <1>2. bad.type = "bad" /\ junk.type = "junk" /\ cr.type = "cr" /\ lf.type = "lf"
    BY DEF Piece
  <1>3. text \in {<<rec, cr, lf>>, <<bad, cr, lf>>, <<junk, cr, lf>>, <<rec, cr>>, <<bad, lf, junk, cr, lf>>}
    BY DEF LineOf, Written, Garbled
  <1> HIDE DEF bad, junk, cr, lf
  <1>4. CASE text = <<rec, cr, lf>>
    BY <1>1, <1>2, <1>4 DEF OneColon, Colon, LineFeed
  <1>5. CASE text = <<bad, cr, lf>>
    BY <1>1, <1>2, <1>5 DEF OneColon, Colon, LineFeed
  <1>6. CASE text = <<junk, cr, lf>>
    BY <1>1, <1>2, <1>6 DEF OneColon, Colon, LineFeed
  <1>7. CASE text = <<rec, cr>>
    BY <1>1, <1>2, <1>7 DEF OneColon, Colon, LineFeed
  <1>8. CASE text = <<bad, lf, junk, cr, lf>>
    BY <1>1, <1>2, <1>8 DEF OneColon, Colon, LineFeed
  <1> QED BY <1>3, <1>4, <1>5, <1>6, <1>7, <1>8

\* The record of the turn, and the end-of-file record.
LEMMA TurnType ==
  ASSUME TypeOK, Position
  PROVE  /\ host = "write" => Record(idx) \in Pieces /\ Inside(Record(idx))
         /\ host = "eof" => EndOfFile \in Pieces /\ Inside(EndOfFile)
  <1>1. CASE host = "write"
    <2>1. idx \in 1 .. NumRecords /\ Fits(load, size) /\ upload >= 1
      BY <1>1 DEF Position
    <2> DEFINE rec == Record(idx)
    <2>2. rec = [type |-> rec.type, addr |-> rec.addr, len |-> rec.len, upload |-> rec.upload]
      BY DEF Record
    <2>3. /\ rec.type = "data" /\ rec.upload = upload /\ rec.addr \in Addresses /\ rec.len \in Nat
          /\ load <= rec.addr /\ rec.addr + rec.len <= load + size
      BY <2>1, RecordPlace
    <2> HIDE DEF rec
    <2>4. upload \in Uploads /\ load \in Nat /\ size \in Nat /\ MemorySize \in Nat
      BY <2>1, HexAssumption DEF TypeOK, Uploads, Addresses
    <2>5. rec \in Pieces
      BY <2>2, <2>3, <2>4 DEF Pieces
    <2>6. Inside(rec)
      BY <2>1, <2>3, <2>4, HexAssumption DEF Inside, Fits, Addresses, Uploads
    <2> QED BY <1>1, <2>5, <2>6 DEF rec
  <1>2. CASE host = "eof"
    BY <1>2, PieceType DEF EndOfFile
  <1> QED BY <1>1, <1>2

LEMMA RecordWritten ==
  ASSUME TypeOK, Position, WriteRecord
  PROVE  \E text \in Seq(Pieces) : text \in LineOf(Record(idx)) /\ OneColon(Record(idx), text) /\ toBoard' = toBoard \o text
  <1>1. PICK text \in LineOf(Record(idx)) : toBoard' = toBoard \o text
    BY DEF WriteRecord, WriteLine, LineOf
  <1>2. Record(idx).upload = upload /\ Record(idx).type = "data"
    BY DEF Record
  <1>3. host = "write" /\ Record(idx) \in Pieces /\ Inside(Record(idx))
    BY TurnType DEF WriteRecord
  <1> QED BY <1>1, <1>2, <1>3, LineType

LEMMA EndOfFileWritten ==
  ASSUME TypeOK, Position, WriteEndOfFile
  PROVE  \E text \in Seq(Pieces) : text \in LineOf(EndOfFile) /\ OneColon(EndOfFile, text) /\ toBoard' = toBoard \o text
  <1>1. PICK text \in LineOf(EndOfFile) : toBoard' = toBoard \o text
    BY DEF WriteEndOfFile, WriteLine, LineOf
  <1>2. EndOfFile.upload = upload /\ EndOfFile.type = "eof"
    BY DEF EndOfFile, Piece
  <1>3. host = "eof" /\ EndOfFile \in Pieces /\ Inside(EndOfFile)
    BY TurnType DEF WriteEndOfFile
  <1> QED BY <1>1, <1>2, <1>3, LineType

(***************************************************************************)
(* Types and places                                                        *)
(***************************************************************************)
LEMMA InitIndInv == Init => IndInv
  <1> SUFFICES ASSUME Init PROVE IndInv
    OBVIOUS
  <1>1. TypeOK
    <2>1. MemorySize \in Nat \ {0} /\ MaxUploads \in Nat /\ MaxRetries \in Nat
      BY HexAssumption
    <2>2. load \in Addresses /\ upload \in 0 .. MaxUploads /\ size \in Nat /\ idx \in Nat
          /\ attempt \in 0 .. MaxRetries /\ reported \in 0 .. size
      BY <2>1 DEF Init, Addresses
    <2>3. host \in Phases /\ result \in Results /\ board \in {"prompt", "loading", "running"} /\ damaged \in BOOLEAN
      BY DEF Init, Phases, Results
    <2>4. /\ seen \in Seq(Words) /\ toHost \in Seq(Words) /\ printing \in Seq(Words)
          /\ toBoard \in Seq(Pieces) /\ line \in Seq(Pieces)
      BY DEF Init
    <2>5. memory \in [Addresses -> 0 .. MaxUploads] /\ faults \in [Kinds -> Nat]
      BY <2>1 DEF Init
    <2>6. started \in [upload : 0 .. MaxUploads, addr : Addresses, len : Nat]
      BY <2>1 DEF Init, NoProgram, Addresses
    <2> QED BY <2>2, <2>3, <2>4, <2>5, <2>6 DEF TypeOK
  <1>2. Inbox = <<>> /\ Outbox = <<>>
    BY DEF Init, Inbox, Outbox
  <1>3. Len(Inbox) = 0 /\ Len(Outbox) = 0
    BY <1>2
  <1>4. Confined
    BY <1>3 DEF Init, Confined, WritesInside
  <1>5. Position
    BY DEF Init, Position, Greeting, Starting
  <1>6. StartsLast
    BY <1>3 DEF Init, StartsLast, InTurn, NoProgram
  <1>7. Sequential
    BY <1>3 DEF Init, Sequential, OneRecord, OneReady, DigitsFirst, Speaking, Starting, Stored
  <1> QED BY <1>1, <1>4, <1>5, <1>6, <1>7 DEF IndInv

\* The typing of the messages that a step of the line moves.
LEMMA Moved ==
  ASSUME TypeOK
  PROVE  /\ toBoard # <<>> => Head(toBoard) \in Pieces /\ Tail(toBoard) \in Seq(Pieces)
         /\ toHost # <<>> => Head(toHost) \in Words /\ Tail(toHost) \in Seq(Words)
         /\ printing # <<>> => Head(printing) \in Words /\ Tail(printing) \in Seq(Words)
         /\ \A k \in 0 .. Len(toHost) :
              SubSeq(toHost, k + 1, Len(toHost)) \in Seq(Words) /\ Chunk(k) \in Seq(Words)
  <1> USE DEF TypeOK
  <1>1. toBoard # <<>> => Head(toBoard) \in Pieces /\ Tail(toBoard) \in Seq(Pieces)
    OBVIOUS
  <1>2. toHost # <<>> => Head(toHost) \in Words /\ Tail(toHost) \in Seq(Words)
    OBVIOUS
  <1>3. printing # <<>> => Head(printing) \in Words /\ Tail(printing) \in Seq(Words)
    OBVIOUS
  <1>4. ASSUME NEW k \in 0 .. Len(toHost)
        PROVE  SubSeq(toHost, k + 1, Len(toHost)) \in Seq(Words) /\ Chunk(k) \in Seq(Words)
    BY Rest, printing \in Seq(Words) DEF Chunk
  <1> QED BY <1>1, <1>2, <1>3, <1>4

LEMMA CommandType ==
  ASSUME TypeOK, Command
  PROVE  /\ printing' \in Seq(Words) /\ board' \in {"prompt", "loading", "running"}
         /\ damaged' \in BOOLEAN
         /\ started' \in [upload : 0 .. MaxUploads, addr : Addresses, len : Nat]
  <1>1. CASE Types(line) = <<"L">> /\ board' = "loading" /\ damaged' = FALSE
             /\ Keeps(<<"READY", "tail">>) /\ UNCHANGED started
    <2>1. <<"READY", "tail">> \in Seq(Words)
      BY DEF Words
    <2>2. printing \in Seq(Words) /\ printing' = printing \o <<"READY", "tail">>
      BY <1>1 DEF TypeOK, Keeps
    <2>3. printing' \in Seq(Words)
      BY <2>1, <2>2
    <2> QED BY <1>1, <2>3 DEF TypeOK
  <1>2. CASE Types(line) \in {<<"digits", "R">>, <<"R">>} /\ board' = "running"
             /\ started' = (IF Len(line) = 2
                     THEN [upload |-> line[1].upload, addr |-> line[1].addr, len |-> line[1].len]
                     ELSE NoProgram)
             /\ UNCHANGED <<printing, damaged>>
    <2>1. CASE Len(line) = 2
      <3>1. line[1] \in Pieces
        <4>1. line \in Seq(Pieces) BY DEF TypeOK
        <4> QED BY <2>1, <4>1
      <3> QED BY <1>2, <2>1, <3>1, HexAssumption DEF TypeOK, Pieces, Uploads
    <2>2. CASE Len(line) # 2
      BY <1>2, <2>2, HexAssumption DEF TypeOK, NoProgram, Addresses
    <2> QED BY <2>1, <2>2
  <1>3. CASE UNCHANGED <<printing, board, damaged, started>>
    BY <1>3 DEF TypeOK
  <1> QED BY <1>1, <1>2, <1>3 DEF Command

LEMMA Least ==
    ASSUME NEW S \in SUBSET Nat, S # {} PROVE \E x \in S : \A y \in S : x <= y
  <1>1. PICK n \in S : TRUE OBVIOUS
  <1> DEFINE U == 0 .. n
             upTo(x) == {y \in U : y \in S /\ y <= x}
             family == {upTo(x) : x \in S \intersect U}
             R == StrictSubsetOrdering(U)
  <1>2. IsFiniteSet(U) BY <1>1, FS_Interval
  <1>3. IsWellFoundedOn(R, SUBSET U)
    BY <1>2, FS_FiniteSubsetsOfFinite, FS_StrictSubsetOrderingWellFounded
  <1>4. \A x \in S \intersect U : upTo(x) \in SUBSET U OBVIOUS
  <1>5. upTo(n) \in family BY <1>1
  <1>6. \E M \in family : \A N \in family : <<N, M>> \notin R
    <2>1. family \subseteq SUBSET U
      <3> HIDE DEF upTo
      <3> QED BY <1>4
    <2> HIDE DEF family, R
    <2> QED BY <1>3, <2>1, <1>5, WFMin
  <1>7. PICK x \in S \intersect U : \A N \in family : <<N, upTo(x)>> \notin R
    BY <1>6
  <1>8. ASSUME NEW y \in S, y < x PROVE FALSE
    <2>0. y \in U /\ x \in U /\ y \in Nat /\ x \in Nat BY <1>8, <1>7
    <2>1. upTo(y) \in family BY <1>8, <2>0
    <2>2. x \in upTo(x) /\ x \notin upTo(y) BY <1>8, <2>0
    <2>3. upTo(y) \subseteq upTo(x) BY <1>8, <2>0
    <2>4. upTo(y) \in SUBSET U /\ upTo(x) \in SUBSET U OBVIOUS
    <2>5. <<upTo(y), upTo(x)>> \in R
      <3> HIDE DEF upTo
      <3> QED BY <2>2, <2>3, <2>4 DEF StrictSubsetOrdering
    <2> QED BY <2>1, <2>5, <1>7
  <1> QED BY <1>7, <1>8

\* The colon found is one of the line's.
LEMMA Found ==
  ASSUME NEW text \in Seq(Pieces), Colons(text) # {}
  PROVE  /\ FirstColon(text) \in 1 .. Len(text) /\ Colon(text[FirstColon(text)])
         /\ text[FirstColon(text)] \in Pieces
         /\ \A j \in 1 .. Len(text) : Colon(text[j]) => FirstColon(text) <= j
  <1>1. Colons(text) \subseteq Nat
    BY DEF Colons
  <1>2. \E n \in Colons(text) : \A j \in Colons(text) : n <= j
    BY <1>1, Least
  <1>3. FirstColon(text) \in Colons(text) /\ \A j \in Colons(text) : FirstColon(text) <= j
    BY <1>2 DEF FirstColon
  <1> QED BY <1>3 DEF Colons

LEMMA FaultType ==
  ASSUME TypeOK, NEW kind \in Kinds, Fault(kind) PROVE faults' \in [Kinds -> Nat]
  BY DEF TypeOK, Fault

LEMMA TypeStep == ASSUME TypeOK, Position, [Next]_vars PROVE TypeOK'
  <1> USE DEF Phases, Waiting, Typing, Results
  <1>1. CASE StartUpload
    <2>1. PICK l \in Loads, s \in Sizes :
            /\ load' = l /\ size' = s
            /\ host' \in {"settle L", "ended"} /\ result' \in {"none", "refused"}
      BY <1>1 DEF StartUpload
    <2>2. load' \in Addresses /\ size' \in Nat
      BY <2>1, HexAssumption DEF Addresses
    <2>3. upload' = upload + 1 /\ upload < MaxUploads /\ idx' = 1 /\ attempt' = 0 /\ reported' = 0 /\ seen' = <<>>
      BY <1>1 DEF StartUpload
    <2>4. upload \in 0 .. MaxUploads
      BY DEF TypeOK
    <2>5. upload' \in 0 .. MaxUploads /\ idx' \in Nat /\ attempt' \in 0 .. MaxRetries /\ reported' \in 0 .. size'
      BY <2>2, <2>3, <2>4, HexAssumption
    <2>6. seen' \in Seq(Words)
      BY <2>3
    <2> QED BY <1>1, <2>1, <2>2, <2>5, <2>6 DEF StartUpload, TypeOK, boardVars
  <1>2. CASE Settle
    BY <1>2 DEF Settle, TypeOK, boardVars, After
  <1>3. CASE TypeCharacter
    <2>1. host' \in Phases /\ result' \in Results /\ host # "ended"
      BY <1>3 DEF TypeCharacter, TypeOK, After
    <2>2. Keys \in Seq(Pieces)
      <3>1. CASE host \in {"L cr", "R cr"}
        <4>1. Piece("cr") \in Pieces BY <2>1, PieceType
        <4>2. Keys = <<Piece("cr")>> BY <3>1 DEF Keys
        <4> QED BY <4>1, <4>2
      <3>2. CASE host \in {"L", "digits", "R"}
        <4>1. Piece(host) \in Pieces BY <2>1, <3>2, PieceType
        <4>2. Keys = <<Piece(host)>> BY <3>2 DEF Keys
        <4> QED BY <4>1, <4>2
      <3> QED BY <1>3, <3>1, <3>2 DEF TypeCharacter
    <2>3. toBoard' \in Seq(Pieces)
      <3>1. toBoard \in Seq(Pieces) BY DEF TypeOK
      <3>2. toBoard \o Keys \in Seq(Pieces) BY <2>2, <3>1, Joined
      <3> QED BY <1>3, <3>1, <3>2 DEF TypeCharacter
    <2> QED BY <1>3, <2>1, <2>3 DEF TypeCharacter, TypeOK, boardVars
  <1>4. CASE WriteRecord
    <2>1. toBoard' \in Seq(Pieces)
      <3>1. toBoard \in Seq(Pieces) BY DEF TypeOK
      <3>2. PICK text \in Seq(Pieces) : toBoard' = toBoard \o text BY <1>4, RecordWritten
      <3> QED BY <3>1, <3>2, Joined
    <2>2. faults' \in [Kinds -> Nat]
      BY <1>4, FaultType DEF WriteRecord, WriteLine, Kinds, TypeOK
    <2> QED BY <1>4, <2>1, <2>2 DEF WriteRecord, TypeOK, boardVars
  <1>5. CASE WriteEndOfFile
    <2>1. toBoard' \in Seq(Pieces)
      <3>1. toBoard \in Seq(Pieces) BY DEF TypeOK
      <3>2. PICK text \in Seq(Pieces) : toBoard' = toBoard \o text BY <1>5, EndOfFileWritten
      <3> QED BY <3>1, <3>2, Joined
    <2>2. faults' \in [Kinds -> Nat]
      BY <1>5, FaultType DEF WriteEndOfFile, WriteLine, Kinds, TypeOK
    <2> QED BY <1>5, <2>1, <2>2 DEF WriteEndOfFile, TypeOK, boardVars
  <1>6. CASE ReadReady
    <2>1. toHost' \in Seq(Words)
      <3>1. PICK k \in 1 .. Len(toHost) : toHost' = SubSeq(toHost, k + 1, Len(toHost))
        BY <1>6 DEF ReadReady
      <3> QED BY <3>1, Moved
    <2>2. host' \in Phases
      BY <1>6 DEF ReadReady
    <2> QED BY <1>6, <2>1, <2>2 DEF ReadReady, TypeOK, boardVars
  <1>7. CASE ReadOther
    BY <1>7, Moved DEF ReadOther, TypeOK, hostVars, boardVars
  <1>8. CASE ReadAccepted
    <2>1. reported' \in 0 .. size
      BY <1>8, BytesType DEF ReadAccepted, TypeOK
    <2>2. toHost' \in Seq(Words)
      BY <1>8, Moved DEF ReadAccepted
    <2>3. attempt' \in 0 .. MaxRetries
      BY <1>8, HexAssumption DEF ReadAccepted
    <2>4. host' \in Phases /\ UNCHANGED boardVars
      BY <1>8 DEF ReadAccepted
    <2> QED BY <1>8, <2>1, <2>2, <2>3, <2>4 DEF ReadAccepted, TypeOK, boardVars
  <1>9. CASE ReadRejected
    <2>1. toHost' \in Seq(Words)
      BY <1>9, Moved DEF ReadRejected
    <2>2. host' \in Phases /\ result' \in Results
      BY <1>9 DEF ReadRejected, TypeOK
    <2>3. attempt \in 0 .. MaxRetries /\ (attempt' = attempt \/ (attempt < MaxRetries /\ attempt' = attempt + 1))
      BY <1>9 DEF ReadRejected, MayRetry, TypeOK
    <2>4. attempt' \in 0 .. MaxRetries
      BY <2>3, HexAssumption
    <2> QED BY <1>9, <2>1, <2>2, <2>4 DEF ReadRejected, TypeOK, boardVars
  <1>10. CASE ReadReport
    <2>1. seen' \in Seq(Words) /\ toHost' \in Seq(Words)
      <3>1. PICK k \in 1 .. Len(toHost) : toHost' = SubSeq(toHost, k + 1, Len(toHost)) /\ seen' = seen \o Chunk(k)
        BY <1>10 DEF ReadReport
      <3>2. k \in 0 .. Len(toHost) /\ seen \in Seq(Words)
        <4>1. toHost \in Seq(Words) /\ seen \in Seq(Words) BY DEF TypeOK
        <4>2. Len(toHost) \in Nat BY <4>1
        <4> QED BY <3>1, <4>1, <4>2
      <3>3. Chunk(k) \in Seq(Words) /\ toHost' \in Seq(Words)
        BY <3>1, <3>2, Moved
      <3> QED BY <3>1, <3>2, <3>3, Joined
    <2> QED BY <1>10, <2>1 DEF ReadReport, TypeOK, boardVars
  <1>11. CASE ReadRest
    <2>1. seen' \in Seq(Words) /\ toHost' \in Seq(Words)
      <3>1. PICK k \in 0 .. Len(toHost) : toHost' = SubSeq(toHost, k + 1, Len(toHost)) /\ seen' = seen \o Chunk(k)
        BY <1>11 DEF ReadRest
      <3>2. k \in 0 .. Len(toHost) /\ seen \in Seq(Words)
        <4>1. toHost \in Seq(Words) /\ seen \in Seq(Words) BY DEF TypeOK
        <4>2. Len(toHost) \in Nat BY <4>1
        <4> QED BY <3>1, <4>1, <4>2
      <3>3. Chunk(k) \in Seq(Words) /\ toHost' \in Seq(Words)
        BY <3>1, <3>2, Moved
      <3> QED BY <3>1, <3>2, <3>3, Joined
    <2>2. host' \in Phases /\ result' \in Results
      BY <1>11 DEF ReadRest, Judge, TypeOK
    <2> QED BY <1>11, <2>1, <2>2 DEF ReadRest, TypeOK, boardVars
  <1>12. CASE Timeout
    <2>1. host' \in Phases /\ result' \in Results
      BY <1>12 DEF Timeout, Judge, TypeOK
    <2>2. faults' \in [Kinds -> Nat]
      BY <1>12, FaultType DEF Timeout, Kinds, TypeOK
    <2> QED BY <1>12, <2>1, <2>2 DEF Timeout, TypeOK, boardVars
  <1>13. CASE Dies
    <2>1. faults' \in [Kinds -> Nat]
      BY <1>13, FaultType DEF Dies, Kinds
    <2>2. toBoard' \in Seq(Pieces)
      <3>1. toBoard \in Seq(Pieces) BY DEF TypeOK
      <3>2. Piece("cr") \in Pieces BY <1>13, PieceType DEF Dies
      <3> QED BY <1>13, <3>1, <3>2, Appended DEF Dies
    <2> QED BY <1>13, <2>1, <2>2 DEF Dies, TypeOK, boardVars
  <1>14. CASE ReadsCommand
    <2>1. toBoard' \in Seq(Pieces) /\ Head(toBoard) \in Pieces
      BY <1>14, Moved DEF ReadsCommand
    <2>2. line' \in Seq(Pieces)
      <3>1. line \in Seq(Pieces) BY DEF TypeOK
      <3>2. Append(line, Head(toBoard)) \in Seq(Pieces) BY <2>1, <3>1, Appended
      <3>3. line' = <<>> \/ line' = line \/ line' = Append(line, Head(toBoard))
        BY <1>14 DEF ReadsCommand
      <3>4. <<>> \in Seq(Pieces) OBVIOUS
      <3> QED BY <3>1, <3>2, <3>3, <3>4, Zenon
    <2>3. /\ printing' \in Seq(Words) /\ board' \in {"prompt", "loading", "running"}
          /\ damaged' \in BOOLEAN
          /\ started' \in [upload : 0 .. MaxUploads, addr : Addresses, len : Nat]
      <3>1. CASE Command BY <3>1, CommandType
      <3>2. CASE UNCHANGED <<printing, board, damaged, started>> BY <3>2 DEF TypeOK
      <3> QED BY <1>14, <3>1, <3>2 DEF ReadsCommand
    <2> QED BY <1>14, <2>1, <2>2, <2>3 DEF ReadsCommand, TypeOK, hostVars
  <1>15. CASE ReadsRecord
    <2>1. toBoard' \in Seq(Pieces) /\ Head(toBoard) \in Pieces
      BY <1>15, Moved DEF ReadsRecord
    <2>2. line' \in Seq(Pieces)
      <3>1. line \in Seq(Pieces) BY DEF TypeOK
      <3>2. Append(line, Head(toBoard)) \in Seq(Pieces) BY <2>1, <3>1, Appended
      <3>3. line' = <<>> \/ line' = Append(line, Head(toBoard))
        BY <1>15 DEF ReadsRecord
      <3>4. <<>> \in Seq(Pieces) OBVIOUS
      <3> QED BY <3>1, <3>2, <3>3, <3>4, Zenon
    <2>3. /\ printing' \in Seq(Words) /\ board' \in {"prompt", "loading", "running"}
          /\ damaged' \in BOOLEAN /\ memory' \in [Addresses -> 0 .. MaxUploads]
      <3>1. CASE Colons(line) # {} /\ LoadRecord(line[FirstColon(line)])
        <4> DEFINE rec == line[FirstColon(line)]
        <4>1. rec \in Pieces /\ Colon(rec)
          BY <3>1, Found DEF TypeOK
        <4>2. rec.upload \in 0 .. MaxUploads
          BY <4>1, HexAssumption DEF Pieces, Uploads
        <4>3. rec.type \in {"data", "eof", "bad"} /\ LoadRecord(rec)
          BY <3>1, <4>1 DEF Colon
        <4> HIDE DEF rec
        <4>4. printing \in Seq(Words) BY DEF TypeOK
        <4>5. CASE rec.type = "bad"
          <5>1. <<"X">> \in Seq(Words) BY DEF Words
          <5>2. printing' \in Seq(Words) BY <4>3, <4>4, <4>5, <5>1 DEF LoadRecord, Keeps
          <5> QED BY <4>3, <4>5, <5>2 DEF LoadRecord, TypeOK
        <4>6. CASE rec.type = "data"
          <5>1. <<".">> \in Seq(Words) BY DEF Words
          <5>2. printing' \in Seq(Words) BY <4>3, <4>4, <4>6, <5>1 DEF LoadRecord, Keeps
          <5> QED BY <4>2, <4>3, <4>6, <5>2 DEF LoadRecord, TypeOK
        <4>7. CASE rec.type = "eof"
          <5>1. <<"Load", IF damaged THEN "error" ELSE "successful", "tail">> \in Seq(Words) BY DEF Words
          <5>2. Keeps(<<"Load", IF damaged THEN "error" ELSE "successful", "tail">>)
            BY <4>3, <4>7 DEF LoadRecord
          <5>3. PICK text \in Seq(Words) : Keeps(text) BY ONLY <5>1, <5>2
          <5>4. printing' \in Seq(Words) BY ONLY <4>4, <5>3 DEF Keeps
          <5> QED BY <4>3, <4>7, <5>4 DEF LoadRecord, TypeOK
        <4> QED BY <4>3, <4>5, <4>6, <4>7
      <3>2. CASE UNCHANGED <<printing, board, memory>> /\ damaged' \in {damaged, TRUE}
        BY <3>2 DEF TypeOK
      <3> QED BY <1>15, <3>1, <3>2 DEF ReadsRecord
    <2> QED BY <1>15, <2>1, <2>2, <2>3 DEF ReadsRecord, TypeOK, hostVars
  <1>16. CASE ProgramReads
    BY <1>16, Moved DEF ProgramReads, TypeOK, hostVars, boardVars
  <1>17. CASE ProgramReturns
    <2>1. printing' \in Seq(Words)
      <3>1. printing \in Seq(Words) /\ "tail" \in Words BY DEF TypeOK, Words
      <3> QED BY <1>17, <3>1 DEF ProgramReturns, Keeps
    <2>2. <<>> \in Seq(Pieces)
      OBVIOUS
    <2> QED BY <1>17, <2>1, <2>2 DEF ProgramReturns, TypeOK, hostVars
  <1>18. CASE Prints
    <2>1. toHost' \in Seq(Words)
      <3>1. toHost \in Seq(Words) BY DEF TypeOK
      <3> QED BY <1>18, <3>1, Moved DEF Prints
    <2>2. printing' \in Seq(Words)
      BY <1>18, Moved DEF Prints
    <2> QED BY <1>18, <2>1, <2>2 DEF Prints, TypeOK, hostVars
  <1>19. CASE LoseAnswer
    <2>1. printing' \in Seq(Words)
      BY <1>19, Moved DEF LoseAnswer
    <2>2. faults' \in [Kinds -> Nat]
      <3>1. "lose" \in Kinds /\ Fault("lose") BY <1>19 DEF LoseAnswer, Kinds
      <3> QED BY <3>1, FaultType
    <2> QED BY <1>19, <2>1, <2>2 DEF LoseAnswer, TypeOK, hostVars
  <1>20. CASE Reset
    <2>1. <<"tail">> \in Seq(Words) BY DEF Words
    <2>2. faults' \in [Kinds -> Nat]
      BY <1>20, FaultType DEF Reset, Kinds
    <2>3. <<>> \in Seq(Pieces)
      OBVIOUS
    <2> QED BY <1>20, <2>1, <2>2, <2>3 DEF Reset, TypeOK, hostVars
  <1>21. CASE UNCHANGED vars
    BY <1>21 DEF TypeOK, vars, hostVars, boardVars
  <1> QED BY <1>1, <1>2, <1>3, <1>4, <1>5, <1>6, <1>7, <1>8, <1>9, <1>10, <1>11, <1>12, <1>13,
             <1>14, <1>15, <1>16, <1>17, <1>18, <1>19, <1>20, <1>21
          DEF Next, HostNext, BoardNext, Done

LEMMA PositionStep == ASSUME TypeOK, TypeOK', Position, [Next]_vars PROVE Position'
  <1> USE DEF Greeting, Starting
  <1>1. CASE StartUpload
    <2>0. upload \in Nat
      BY HexAssumption DEF TypeOK
    <2>1. upload' = upload + 1 /\ idx' = 1 /\ reported' = 0
      BY <1>1 DEF StartUpload
    <2>2. PICK l \in Loads, s \in Sizes :
            /\ load' = l /\ size' = s
            /\ \/ s > 0 /\ Fits(l, s) /\ host' = "settle L" /\ result' = "none"
               \/ host' = "ended" /\ result' = "refused"
      BY <1>1 DEF StartUpload
    <2>3. CASE s > 0 /\ Fits(l, s) /\ host' = "settle L" /\ result' = "none"
      <3>1. upload' >= 1
        BY <2>0, <2>1
      <3>2. size' > 0
        BY <2>2, <2>3
      <3>3. Fits(load, size)'
        BY <2>2, <2>3 DEF Fits
      <3> QED BY <2>1, <2>3, <3>1, <3>2, <3>3 DEF Position
    <2>4. CASE host' = "ended" /\ result' = "refused"
      <3>1. upload' >= 1
        BY <2>0, <2>1
      <3>2. ~(reported' > 0)
        BY <2>1
      <3> QED BY <2>1, <2>4, <3>1, <3>2 DEF Position
    <2> QED BY <2>2, <2>3, <2>4
  <1>2. CASE Settle
    BY <1>2 DEF Settle, Position, After, Fits, NumRecords, BytesIn, boardVars
  <1>3. CASE TypeCharacter
    BY <1>3 DEF TypeCharacter, Typing, Position, After, Fits, NumRecords, BytesIn, boardVars
  <1>4. CASE WriteRecord
    BY <1>4 DEF WriteRecord, Position, Fits, NumRecords, BytesIn, boardVars
  <1>5. CASE WriteEndOfFile
    <2>1. reported = size
      <3>1. size \in Nat BY DEF TypeOK
      <3>2. NumRecords \in Nat /\ BytesIn(NumRecords) = size
        BY <3>1, BytesEnds, RecordsType
      <3>3. idx = NumRecords + 1 /\ reported = BytesIn(idx - 1)
        BY <1>5 DEF WriteEndOfFile, Position
      <3>4. idx - 1 = NumRecords
        BY <3>2, <3>3
      <3> QED BY <3>2, <3>3, <3>4
    <2> QED BY <1>5, <2>1 DEF WriteEndOfFile, Position, Fits, NumRecords, BytesIn, boardVars
  <1>6. CASE ReadReady
    <2>1. idx = 1 /\ reported = 0 /\ size > 0 /\ BytesIn(0) = 0 /\ NumRecords \in Nat /\ NumRecords >= 1
      BY <1>6, BytesEnds, RecordsType DEF ReadReady, Position, TypeOK
    <2>2. 1 \in 1 .. NumRecords /\ 1 \in 1 .. NumRecords + 1 /\ reported = BytesIn(1 - 1)
      BY <2>1
    <2> HIDE DEF Greeting
    <2>3. NumRecords' = NumRecords /\ BytesIn(0)' = BytesIn(0) /\ idx' = 1 /\ reported' = reported
      BY <1>6, <2>1 DEF ReadReady, NumRecords, BytesIn
    <2>4. host' \in {"write", "ready"} /\ UNCHANGED <<upload, size, load, result>> /\ host = "ready"
      BY <1>6 DEF ReadReady
    <2>5. BytesIn(idx - 1)' = BytesIn(0)
      BY <2>3, <1>6 DEF ReadReady, BytesIn
    <2> QED BY <2>1, <2>2, <2>3, <2>4, <2>5 DEF Position, Fits, Greeting
  <1>7. CASE ReadOther
    BY <1>7 DEF ReadOther, hostVars, Position, Fits, NumRecords, BytesIn, boardVars
  <1>8. CASE ReadAccepted
    <2>1. idx \in 1 .. NumRecords /\ NumRecords \in Nat
      BY <1>8, RecordsType DEF ReadAccepted, Position, TypeOK
    <2>2. /\ idx' = idx + 1 /\ reported' = BytesIn(idx) /\ NumRecords' = NumRecords
          /\ BytesIn(idx) = BytesIn(idx - 1)'
      BY <1>8, <2>1 DEF ReadAccepted, NumRecords, BytesIn
    <2>3. /\ host = "answer" /\ UNCHANGED <<upload, size, load, result>>
          /\ host' = IF idx < NumRecords THEN "write" ELSE "eof"
      BY <1>8 DEF ReadAccepted
    <2> QED BY <2>1, <2>2, <2>3 DEF Position, Fits
  <1>9. CASE ReadRejected
    BY <1>9 DEF ReadRejected, Position, Fits, NumRecords, BytesIn, boardVars
  <1>10. CASE ReadReport
    BY <1>10 DEF ReadReport, Position, Fits, NumRecords, BytesIn, boardVars
  <1>11. CASE ReadRest
    BY <1>11 DEF ReadRest, Judge, Position, Fits, NumRecords, BytesIn, boardVars
  <1>12. CASE Timeout
    BY <1>12 DEF Timeout, Waiting, Judge, Position, Fits, NumRecords, BytesIn, boardVars
  <1>13. CASE Dies
    BY <1>13 DEF Dies, Position, Fits, NumRecords, BytesIn, boardVars
  <1>14. CASE UNCHANGED hostVars
    BY <1>14 DEF hostVars, Position, Fits, NumRecords, BytesIn
  <1>15. BoardNext \/ ProgramReturns \/ LoseAnswer \/ Reset \/ Done \/ UNCHANGED vars => UNCHANGED hostVars
    BY DEF BoardNext, ReadsCommand, ReadsRecord, ProgramReads, Prints, ProgramReturns,
           LoseAnswer, Reset, Done, vars
  <1> QED BY <1>1, <1>2, <1>3, <1>4, <1>5, <1>6, <1>7, <1>8, <1>9, <1>10, <1>11, <1>12, <1>13,
             <1>14, <1>15 DEF Next, HostNext

(***************************************************************************)
(* What a step does to the two boxes                                       *)
(***************************************************************************)
InboxCut == \E k, d \in Nat : Cut(Inbox', Inbox, k, d)
OutboxCut == \E k, d \in Nat : Cut(Outbox', Outbox, k, d)

LEMMA BoxType == ASSUME TypeOK PROVE Inbox \in Seq(Pieces) /\ Outbox \in Seq(Words)
  BY DEF TypeOK, Inbox, Outbox

LEMMA Kept ==
  ASSUME TypeOK
  PROVE  /\ UNCHANGED <<line, toBoard>> => Inbox' = Inbox /\ InboxCut
         /\ UNCHANGED <<toHost, printing>> => Outbox' = Outbox /\ OutboxCut
  <1>1. Cut(Inbox, Inbox, 0, 0) /\ Cut(Outbox, Outbox, 0, 0)
    BY BoxType, Same
  <1>2. UNCHANGED <<line, toBoard>> => Inbox' = Inbox
    BY DEF Inbox
  <1>3. UNCHANGED <<toHost, printing>> => Outbox' = Outbox
    BY DEF Outbox
  <1> HIDE DEF Inbox, Outbox
  <1> QED BY <1>1, <1>2, <1>3 DEF InboxCut, OutboxCut

LEMMA Emptied ==
  ASSUME TypeOK
  PROVE  /\ Inbox' = <<>> => InboxCut
         /\ Outbox' = <<>> => OutboxCut
  <1>1. Len(Inbox) \in Nat /\ Len(Outbox) \in Nat
    BY BoxType
  <1>2. Cut(<<>>, Inbox, 0, Len(Inbox)) /\ Cut(<<>>, Outbox, 0, Len(Outbox))
    BY <1>1 DEF Cut
  <1> QED BY <1>1, <1>2 DEF InboxCut, OutboxCut

\* A piece the board takes is acted on, ignored, or kept in its line.
LEMMA PieceTaken ==
  ASSUME TypeOK, toBoard # <<>>, toBoard' = Tail(toBoard)
  PROVE  /\ line' = <<>> => InboxCut /\ Inbox' = Tail(toBoard)
         /\ line' = line => InboxCut
         /\ line' = Append(line, Head(toBoard)) => Inbox' = Inbox /\ InboxCut
  <1>1. line \in Seq(Pieces) /\ toBoard \in Seq(Pieces) /\ Tail(toBoard) \in Seq(Pieces) /\ Len(line) \in Nat
    BY Moved DEF TypeOK
  <1>2. ASSUME line' = <<>> PROVE InboxCut /\ Inbox' = Tail(toBoard)
    <2>1. Inbox' = Tail(toBoard)
      BY <1>1, <1>2 DEF Inbox
    <2>2. Cut(Inbox', Inbox, 0, Len(line) + 1)
      BY <1>1, <2>1, FrontCut DEF Inbox
    <2>3. 0 \in Nat /\ Len(line) + 1 \in Nat
      BY <1>1
    <2> QED BY <2>1, <2>2, <2>3 DEF InboxCut
  <1>3. ASSUME line' = line PROVE InboxCut
    <2>1. Cut(Inbox', Inbox, Len(line), 1)
      BY <1>1, <1>3, MiddleCut DEF Inbox
    <2> QED BY <1>1, <2>1 DEF InboxCut
  <1>4. ASSUME line' = Append(line, Head(toBoard)) PROVE Inbox' = Inbox /\ InboxCut
    <2>1. Inbox' = Inbox
      BY <1>1, <1>4, HeadMoves DEF Inbox
    <2>2. Cut(Inbox, Inbox, 0, 0)
      BY BoxType, Same
    <2> QED BY <2>1, <2>2 DEF InboxCut
  <1> QED BY <1>2, <1>3, <1>4

LEMMA HeardCut ==
  ASSUME TypeOK, UNCHANGED printing, NEW k \in 0 .. Len(toHost),
         toHost' = SubSeq(toHost, k + 1, Len(toHost))
  PROVE  Cut(Outbox', Outbox, 0, k) /\ OutboxCut
  <1>1. toHost \in Seq(Words) /\ printing \in Seq(Words)
    BY DEF TypeOK
  <1>2. Cut(Outbox', Outbox, 0, k)
    BY <1>1, Rest DEF Outbox
  <1>3. k \in Nat
    BY <1>1
  <1> QED BY <1>2, <1>3 DEF OutboxCut

LEMMA HeadHeard ==
  ASSUME TypeOK, UNCHANGED printing, toHost # <<>>, toHost' = Tail(toHost)
  PROVE  /\ Cut(Outbox', Outbox, 0, 1) /\ OutboxCut
         /\ Len(Outbox) >= 1 /\ Outbox[1] = Head(toHost)
  <1>1. toHost \in Seq(Words) /\ printing \in Seq(Words) /\ Len(toHost) >= 1
    BY DEF TypeOK
  <1>2. Tail(toHost) = SubSeq(toHost, 2, Len(toHost))
    BY <1>1
  <1>3. 1 \in 0 .. Len(toHost) /\ toHost' = SubSeq(toHost, 1 + 1, Len(toHost))
    BY <1>1, <1>2
  <1>4. Cut(Outbox', Outbox, 0, 1) /\ OutboxCut
    BY <1>3, HeardCut
  <1>5. Len(Outbox) >= 1 /\ Outbox[1] = Head(toHost)
    BY <1>1 DEF Outbox
  <1> QED BY <1>4, <1>5

LEMMA PrintedKept ==
  ASSUME TypeOK, Prints
  PROVE  Outbox' = Outbox /\ OutboxCut
  <1>1. toHost \in Seq(Words) /\ printing \in Seq(Words) /\ printing # <<>>
    BY DEF TypeOK, Prints
  <1>2. Outbox' = Append(toHost, Head(printing)) \o Tail(printing)
    BY DEF Prints, Outbox
  <1>3. Outbox' = Outbox
    BY <1>1, <1>2, HeadMoves DEF Outbox
  <1> QED BY <1>3, BoxType, Same DEF OutboxCut

LEMMA LostCut ==
  ASSUME TypeOK, LoseAnswer
  PROVE  OutboxCut
  <1>1. toHost \in Seq(Words) /\ printing \in Seq(Words) /\ printing # <<>> /\ Len(toHost) \in Nat
    BY DEF TypeOK, LoseAnswer
  <1>2. Outbox' = toHost \o Tail(printing)
    BY DEF LoseAnswer, Outbox
  <1>3. Cut(Outbox', Outbox, Len(toHost), 1)
    BY <1>1, <1>2, MiddleCut DEF Outbox
  <1> QED BY <1>1, <1>3 DEF OutboxCut

LEMMA Told ==
  ASSUME TypeOK, NEW text \in Seq(Words), Keeps(text), UNCHANGED toHost
  PROVE  Longer(Outbox', Outbox, text)
  <1>1. toHost \in Seq(Words) /\ printing \in Seq(Words)
    BY DEF TypeOK
  <1>2. Outbox' = Outbox \o text
    <2>1. Grouped(toHost, printing, text)
      BY ONLY <1>1, text \in Seq(Words), Regroup
    <2>2. (toHost \o printing) \o text = toHost \o (printing \o text)
      BY ONLY <2>1, Zenon DEF Grouped
    <2> QED BY <2>2, Zenon DEF Outbox, Keeps
  <1> QED BY <1>2, BoxType, Joined

LEMMA Sent ==
  ASSUME TypeOK, NEW text \in Seq(Pieces), toBoard' = toBoard \o text, UNCHANGED line
  PROVE  Longer(Inbox', Inbox, text) /\ Inbox' = Inbox \o text
  <1>1. line \in Seq(Pieces) /\ toBoard \in Seq(Pieces)
    BY DEF TypeOK
  <1>2. Inbox' = Inbox \o text
    <2>1. Grouped(line, toBoard, text)
      BY ONLY <1>1, text \in Seq(Pieces), Regroup
    <2>2. (line \o toBoard) \o text = line \o (toBoard \o text)
      BY ONLY <2>1, Zenon DEF Grouped
    <2> QED BY <2>2, Zenon DEF Inbox
  <1> QED BY <1>2, BoxType, Joined

\* One keystroke, or none.
LEMMA Typed ==
  ASSUME TypeOK, Position, TypeCharacter
  PROVE  \/ Inbox' = Inbox /\ InboxCut /\ printing # <<>>
         \/ \E key \in Pieces :
              /\ Longer(Inbox', Inbox, <<key>>)
              /\ key = Piece(IF host \in {"L cr", "R cr"} THEN "cr" ELSE host)
              /\ Inside(key) /\ key.upload = upload
              /\ key.type = IF host \in {"L cr", "R cr"} THEN "cr" ELSE host
  <1>1. host \in Typing /\ host # "ended" /\ UNCHANGED line
    BY DEF TypeCharacter, Typing, boardVars
  <1>2. CASE toBoard' = toBoard \o Keys
    <2> DEFINE t == IF host \in {"L cr", "R cr"} THEN "cr" ELSE host
    <2>1. t \in {"L", "digits", "R", "cr"} /\ Keys = <<Piece(t)>>
      BY <1>1 DEF Typing, Keys
    <2> HIDE DEF t
    <2>2. Piece(t) \in Pieces /\ Inside(Piece(t)) /\ Piece(t).upload = upload /\ Piece(t).type = t
      BY <1>1, <2>1, PieceType
    <2>3. Longer(Inbox', Inbox, <<Piece(t)>>)
      <3>1. <<Piece(t)>> \in Seq(Pieces) BY <2>2
      <3> QED BY <1>1, <1>2, <2>1, <3>1, Sent
    <2> QED BY <2>2, <2>3 DEF t
  <1>3. CASE printing # <<>> /\ UNCHANGED toBoard
    BY <1>1, <1>3, Kept
  <1> QED BY <1>2, <1>3 DEF TypeCharacter

LEMMA DiesTyping ==
  ASSUME TypeOK, Position, Dies
  PROVE  \/ Inbox' = Inbox /\ InboxCut
         \/ /\ host = "R cr"
            /\ \E key \in Pieces :
                /\ Longer(Inbox', Inbox, <<key>>)
                /\ Inside(key) /\ key.upload = upload /\ key.type = "cr"
  <1>1. UNCHANGED line /\ host # "ended"
    BY DEF Dies, boardVars
  <1>2. CASE UNCHANGED toBoard
    BY <1>1, <1>2, Kept
  <1>3. CASE host = "R cr" /\ toBoard' = Append(toBoard, Piece("cr"))
    <2>1. Piece("cr") \in Pieces /\ Inside(Piece("cr")) /\ Piece("cr").upload = upload /\ Piece("cr").type = "cr"
      BY <1>1, PieceType
    <2>2. <<Piece("cr")>> \in Seq(Pieces) /\ toBoard' = toBoard \o <<Piece("cr")>>
      <3>1. toBoard \in Seq(Pieces) BY DEF TypeOK
      <3> QED BY <1>3, <2>1, <3>1, Appended
    <2>3. Longer(Inbox', Inbox, <<Piece("cr")>>)
      BY <1>1, <2>2, Sent
    <2> QED BY <1>3, <2>1, <2>3
  <1> QED BY <1>2, <1>3 DEF Dies

LEMMA BoardTakes ==
  ASSUME TypeOK, ReadsCommand \/ ReadsRecord \/ ProgramReads
  PROVE  InboxCut
  <1>1. CASE ReadsCommand
    <2>1. toBoard # <<>> /\ toBoard' = Tail(toBoard)
      BY <1>1 DEF ReadsCommand
    <2>2. line' = <<>> \/ line' = line \/ line' = Append(line, Head(toBoard))
      BY <1>1 DEF ReadsCommand
    <2> QED BY <2>1, <2>2, PieceTaken
  <1>2. CASE ReadsRecord
    <2>1. toBoard # <<>> /\ toBoard' = Tail(toBoard)
      BY <1>2 DEF ReadsRecord
    <2>2. line' = <<>> \/ line' = Append(line, Head(toBoard))
      BY <1>2 DEF ReadsRecord
    <2> QED BY <2>1, <2>2, PieceTaken
  <1>3. CASE ProgramReads
    BY <1>3, PieceTaken DEF ProgramReads, boardVars
  <1> QED BY <1>1, <1>2, <1>3

LEMMA LineDropped ==
  ASSUME TypeOK, line' = <<>>, UNCHANGED toBoard
  PROVE  InboxCut
  <1>1. line \in Seq(Pieces) /\ toBoard \in Seq(Pieces) /\ Len(line) \in Nat
    BY DEF TypeOK
  <1>2. Inbox' = toBoard
    BY <1>1 DEF Inbox
  <1>3. Cut(toBoard, line \o toBoard, 0, Len(line))
    BY <1>1 DEF Cut
  <1> QED BY <1>1, <1>2, <1>3 DEF InboxCut, Inbox

\* A piece the program adds.
Ours(p) == Inside(p) /\ p.upload = upload /\ (p.type = "R" => host' = "R cr")

LEMMA InboxStep ==
  ASSUME TypeOK, Position, Next, ~StartUpload
  PROVE  /\ UNCHANGED <<upload, load, size>>
         /\ \/ InboxCut
            \/ /\ host # "ended"
               /\ \E text \in Seq(Pieces) :
                    /\ Longer(Inbox', Inbox, text)
                    /\ \A i \in 1 .. Len(text) : Ours(text[i])
  <1>1. CASE TypeCharacter
    <2>1. CASE InboxCut
      BY <1>1, <2>1 DEF TypeCharacter
    <2>2. ASSUME NEW key \in Pieces, Longer(Inbox', Inbox, <<key>>), Ours(key)
          PROVE  \E text \in Seq(Pieces) :
                    /\ Longer(Inbox', Inbox, text)
                    /\ \A i \in 1 .. Len(text) : Ours(text[i])
      <3>1. <<key>> \in Seq(Pieces) /\ \A i \in 1 .. Len(<<key>>) : <<key>>[i] = key
        OBVIOUS
      <3> QED BY <2>2, <3>1
    <2>3. host # "ended" /\ UNCHANGED <<upload, load, size>>
      BY <1>1 DEF TypeCharacter, Typing
    <2>4. ASSUME NEW key \in Pieces, Inside(key), key.upload = upload,
                 key.type = IF host \in {"L cr", "R cr"} THEN "cr" ELSE host
          PROVE  Ours(key)
      BY <1>1, <2>4 DEF Ours, TypeCharacter, After
    <2> QED BY <1>1, Typed, <2>1, <2>2, <2>3, <2>4
  <1>2. CASE Dies
    <2>1. CASE InboxCut
      BY <1>2, <2>1 DEF Dies
    <2>2. ASSUME NEW key \in Pieces, Longer(Inbox', Inbox, <<key>>), Ours(key)
          PROVE  \E text \in Seq(Pieces) :
                    /\ Longer(Inbox', Inbox, text)
                    /\ \A i \in 1 .. Len(text) : Ours(text[i])
      <3>1. <<key>> \in Seq(Pieces) /\ \A i \in 1 .. Len(<<key>>) : <<key>>[i] = key
        OBVIOUS
      <3> QED BY <2>2, <3>1
    <2>3. host # "ended" /\ UNCHANGED <<upload, load, size>>
      BY <1>2 DEF Dies
    <2> QED BY <1>2, DiesTyping, <2>1, <2>2, <2>3 DEF Ours
  <1>3. CASE WriteRecord
    <2>1. PICK text \in Seq(Pieces) : OneColon(Record(idx), text) /\ toBoard' = toBoard \o text
      BY <1>3, RecordWritten
    <2>2. host # "ended" /\ UNCHANGED <<upload, load, size, line>>
      BY <1>3 DEF WriteRecord, boardVars
    <2>3. Longer(Inbox', Inbox, text)
      BY <2>1, <2>2, Sent
    <2>4. Record(idx).type = "data"
      BY DEF Record
    <2>5. \A i \in 1 .. Len(text) : Ours(text[i])
      BY <2>1, <2>4 DEF OneColon, Ours
    <2> QED BY <2>2, <2>3, <2>5
  <1>4. CASE WriteEndOfFile
    <2>1. PICK text \in Seq(Pieces) : OneColon(EndOfFile, text) /\ toBoard' = toBoard \o text
      BY <1>4, EndOfFileWritten
    <2>2. host # "ended" /\ UNCHANGED <<upload, load, size, line>>
      BY <1>4 DEF WriteEndOfFile, boardVars
    <2>3. Longer(Inbox', Inbox, text)
      BY <2>1, <2>2, Sent
    <2>4. EndOfFile.type = "eof"
      BY DEF EndOfFile, Piece
    <2>5. \A i \in 1 .. Len(text) : Ours(text[i])
      BY <2>1, <2>4 DEF OneColon, Ours
    <2> QED BY <2>2, <2>3, <2>5
  <1>5. CASE ReadsCommand \/ ReadsRecord \/ ProgramReads
    BY <1>5, BoardTakes DEF ReadsCommand, ReadsRecord, ProgramReads, hostVars
  <1>6. CASE ProgramReturns
    BY <1>6, LineDropped DEF ProgramReturns, hostVars
  <1>7. CASE Reset
    <2>1. Inbox' = <<>>
      BY <1>7 DEF Reset, Inbox
    <2> QED BY <1>7, <2>1, Emptied DEF Reset, hostVars
  <1>8. CASE UNCHANGED <<line, toBoard, upload, load, size>>
    BY <1>8, Kept
  <1>9. \/ TypeCharacter \/ Dies \/ WriteRecord \/ WriteEndOfFile
        \/ ReadsCommand \/ ReadsRecord \/ ProgramReads \/ ProgramReturns \/ Reset
        \/ UNCHANGED <<line, toBoard, upload, load, size>>
    BY DEF Next, HostNext, BoardNext, Settle, ReadReady, ReadOther, ReadAccepted, ReadRejected,
           ReadReport, ReadRest, Timeout, Prints, LoseAnswer, Done, vars, hostVars, boardVars
  <1> QED BY <1>1, <1>2, <1>3, <1>4, <1>5, <1>6, <1>7, <1>8, <1>9

(***************************************************************************)
(* What the board holds, and what it has stored                            *)
(***************************************************************************)

\* The piece of Inbox at i, seen from the line or from what is still to come.
LEMMA OfTheLine ==
  ASSUME TypeOK
  PROVE  /\ Len(Inbox) = Len(line) + Len(toBoard) /\ Len(line) \in Nat /\ Len(toBoard) \in Nat
         /\ \A i \in 1 .. Len(line) : i \in 1 .. Len(Inbox) /\ Inbox[i] = line[i]
         /\ \A i \in 1 .. Len(toBoard) : Len(line) + i \in 1 .. Len(Inbox) /\ Inbox[Len(line) + i] = toBoard[i]
  <1>1. line \in Seq(Pieces) /\ toBoard \in Seq(Pieces)
    BY DEF TypeOK
  <1> QED BY <1>1 DEF Inbox

LEMMA ConfinedLine ==
  ASSUME TypeOK, TypeOK', Position, Confined, Next, ~StartUpload
  PROVE  (\A i \in 1 .. Len(Inbox) : Inside(Inbox[i]))'
  <1>1. UNCHANGED <<upload, load, size>>
    BY InboxStep
  <1> SUFFICES \A i \in 1 .. Len(Inbox') : Inside(Inbox'[i])
    BY <1>1 DEF Inside
  <1>3. Inbox \in Seq(Pieces) /\ Inbox' \in Seq(Pieces) /\ Len(Inbox) \in Nat /\ Len(Inbox') \in Nat
    <2>1. Inbox \in Seq(Pieces) /\ Inbox' \in Seq(Pieces)
      BY BoxType DEF TypeOK, Inbox
    <2> QED BY <2>1
  <1>4. \A i \in 1 .. Len(Inbox) : Inside(Inbox[i])
    BY DEF Confined
  <1>5. CASE InboxCut
    <2>1. PICK k, d \in Nat : Cut(Inbox', Inbox, k, d)
      BY <1>5 DEF InboxCut
    <2> QED BY <1>3, <1>4, <2>1 DEF Cut
  <1>6. ASSUME NEW text \in Seq(Pieces), Longer(Inbox', Inbox, text), \A i \in 1 .. Len(text) : Inside(text[i])
        PROVE  \A i \in 1 .. Len(Inbox') : Inside(Inbox'[i])
    <2>1. ASSUME NEW i \in 1 .. Len(Inbox') PROVE Inside(Inbox'[i])
      <3>1. CASE i <= Len(Inbox)
        BY <1>3, <1>4, <1>6, <3>1 DEF Longer
      <3>2. CASE i > Len(Inbox)
        <4>1. i - Len(Inbox) \in 1 .. Len(text) /\ i = Len(Inbox) + (i - Len(Inbox))
          BY <1>3, <1>6, <3>2 DEF Longer
        <4> QED BY <1>6, <4>1 DEF Longer
      <3> QED BY <1>3, <3>1, <3>2
    <2> QED BY <2>1
  <1> QED BY InboxStep, <1>5, <1>6 DEF Ours

\* Of the record a loader's line holds.
LEMMA LineRecord ==
  ASSUME TypeOK, Confined, Colons(line) # {}
  PROVE  LET rec == line[FirstColon(line)]
         IN  rec \in Pieces /\ Colon(rec) /\ Inside(rec)
  <1>1. FirstColon(line) \in 1 .. Len(line) /\ Colon(line[FirstColon(line)]) /\ line[FirstColon(line)] \in Pieces
    BY Found DEF TypeOK
  <1> QED BY <1>1, OfTheLine DEF Confined

LEMMA CoversIsInside ==
  ASSUME NEW rec \in Pieces, rec.addr + rec.len <= MemorySize, NEW a \in Addresses
  PROVE  Covers(rec, a) <=> (rec.addr <= a /\ a < rec.addr + rec.len)
  <1>1. rec.addr \in Nat /\ rec.len \in Nat /\ MemorySize \in Nat /\ a \in Nat
    BY HexAssumption DEF Pieces, Addresses
  <1>2. ASSUME NEW i \in 0 .. rec.len - 1 PROVE (rec.addr + i) % MemorySize = rec.addr + i
    <2>1. rec.addr + i \in 0 .. MemorySize - 1
      BY <1>1, <1>2
    <2> QED BY <2>1, Wrap
  <1>3. ASSUME Covers(rec, a) PROVE rec.addr <= a /\ a < rec.addr + rec.len
    <2>1. PICK i \in 0 .. rec.len - 1 : a = (rec.addr + i) % MemorySize
      BY <1>3 DEF Covers
    <2> QED BY <1>1, <1>2, <2>1
  <1>4. ASSUME rec.addr <= a, a < rec.addr + rec.len PROVE Covers(rec, a)
    <2>1. a - rec.addr \in 0 .. rec.len - 1 /\ a = rec.addr + (a - rec.addr)
      BY <1>1, <1>4
    <2> QED BY <1>2, <2>1 DEF Covers
  <1> QED BY <1>3, <1>4

LEMMA RecordRead ==
  ASSUME TypeOK, Confined, ReadsRecord, LineFeed(Head(toBoard)), Colons(line) # {},
         NEW rec \in Pieces, rec = line[FirstColon(line)], rec.type = "data"
  PROVE  memory' = [a \in Addresses |-> IF rec.addr <= a /\ a < rec.addr + rec.len
                                        THEN rec.upload ELSE memory[a]]
  <1>1. LoadRecord(rec)
    BY DEF ReadsRecord
  <1>2. memory' = [a \in Addresses |-> IF Covers(rec, a) THEN rec.upload ELSE memory[a]]
    BY <1>1 DEF LoadRecord
  <1>3. rec.addr + rec.len <= MemorySize
    BY LineRecord DEF Inside
  <1>4. \A a \in Addresses : Covers(rec, a) <=> (rec.addr <= a /\ a < rec.addr + rec.len)
    BY <1>3, CoversIsInside
  <1> QED BY <1>2, <1>4

\* Memory changes by one record of the loader's line.
LEMMA Storing ==
  ASSUME TypeOK, Confined, ReadsRecord
  PROVE  \/ UNCHANGED memory
         \/ \E rec \in Pieces :
              /\ Colons(line) # {} /\ rec = line[FirstColon(line)]
              /\ rec.type = "data" /\ Inside(rec)
              /\ line' = <<>> /\ UNCHANGED board
              /\ Keeps(<<".">>)
              /\ memory' = [a \in Addresses |-> IF rec.addr <= a /\ a < rec.addr + rec.len
                                                THEN rec.upload ELSE memory[a]]
  <1>1. CASE LineFeed(Head(toBoard)) /\ Colons(line) # {} /\ LoadRecord(line[FirstColon(line)]) /\ line' = <<>>
    <2> DEFINE rec == line[FirstColon(line)]
    <2>1. rec \in Pieces /\ Colon(rec) /\ Inside(rec)
      BY <1>1, LineRecord
    <2>2. LoadRecord(rec)
      BY <1>1
    <2>5. rec.type = "data" =>
            memory' = [a \in Addresses |-> IF rec.addr <= a /\ a < rec.addr + rec.len THEN rec.upload ELSE memory[a]]
      BY <1>1, <2>1, RecordRead
    <2> HIDE DEF rec
    <2>3. CASE rec.type = "data"
      <3>1. Keeps(<<".">>) /\ UNCHANGED board
        BY <2>2, <2>3 DEF LoadRecord
      <3> QED BY <1>1, <2>1, <2>3, <2>5, <3>1 DEF rec
    <2>4. CASE rec.type \in {"bad", "eof"}
      BY <2>2, <2>4 DEF LoadRecord
    <2> QED BY <2>1, <2>3, <2>4 DEF Colon
  <1>2. CASE UNCHANGED memory
    BY <1>2
  <1> QED BY <1>1, <1>2 DEF ReadsRecord

LEMMA ConfinedStep ==
  ASSUME TypeOK, TypeOK', Position, Confined, [Next]_vars PROVE Confined'
  <1>0. load \in Nat /\ size \in Nat /\ upload \in Nat /\ MemorySize \in Nat
    BY HexAssumption DEF TypeOK, Addresses
  <1>1. CASE StartUpload
    <2>1. Inbox' = Inbox /\ memory' = memory /\ upload' = upload + 1
      BY <1>1, Kept DEF StartUpload, boardVars
    <2>2. \A i \in 1 .. Len(Inbox) : Inbox[i] \in Pieces
      BY BoxType
    <2>3. ASSUME NEW p \in Pieces, Inside(p)
          PROVE  p.upload <= upload' /\ p.upload # upload' /\ p.addr + p.len <= MemorySize
      <3>1. p.upload \in Int
        BY <2>3 DEF Pieces, Uploads
      <3> QED BY <1>0, <2>1, <2>3, <3>1 DEF Inside
    <2>4. (\A i \in 1 .. Len(Inbox) : Inside(Inbox[i]))'
      BY <2>1, <2>2, <2>3 DEF Confined, Inside
    <2>5. ASSUME NEW a \in Addresses PROVE memory[a] <= upload' /\ memory[a] # upload'
      <3>1. memory[a] \in Nat /\ memory[a] <= upload
        BY HexAssumption DEF TypeOK, Confined
      <3> QED BY <1>0, <2>1, <3>1
    <2> QED BY <2>1, <2>4, <2>5 DEF Confined, WritesInside
  <1>2. CASE Next /\ ~StartUpload
    <2>1. (\A i \in 1 .. Len(Inbox) : Inside(Inbox[i]))'
      BY <1>2, ConfinedLine
    <2>2. UNCHANGED <<upload, load, size>>
      BY <1>2, InboxStep
    <2>3. CASE UNCHANGED memory
      BY <2>1, <2>2, <2>3 DEF Confined, WritesInside
    <2>4. ASSUME NEW rec \in Pieces, Inside(rec),
                 memory' = [a \in Addresses |-> IF rec.addr <= a /\ a < rec.addr + rec.len
                                                THEN rec.upload ELSE memory[a]]
          PROVE  Confined'
      <3>1. rec.addr \in Nat /\ rec.len \in Nat /\ rec.upload \in Nat
        BY <2>4 DEF Pieces, Addresses, Uploads
      <3>2. ASSUME NEW a \in Addresses
            PROVE  memory'[a] <= upload' /\ (upload' > 0 /\ memory'[a] = upload' => a \in load' .. load' + size' - 1)
        <4>1. memory[a] <= upload /\ (upload > 0 /\ memory[a] = upload => a \in load .. load + size - 1) /\ a \in Nat
          BY <1>0 DEF Confined, WritesInside, Addresses
        <4>2. CASE rec.addr <= a /\ a < rec.addr + rec.len
          <5>1. memory'[a] = rec.upload
            BY <2>4, <4>2
          <5> QED BY <1>0, <2>2, <2>4, <3>1, <4>1, <4>2, <5>1 DEF Inside
        <4>3. CASE ~(rec.addr <= a /\ a < rec.addr + rec.len)
          BY <2>2, <2>4, <4>1, <4>3
        <4> QED BY <4>2, <4>3
      <3> QED BY <2>1, <3>2 DEF Confined, WritesInside
    <2>5. CASE ReadsRecord
      BY <2>3, <2>4, <2>5, Storing
    <2>6. ~ReadsRecord => UNCHANGED memory
      BY <1>2 DEF Next, HostNext, BoardNext, Settle, TypeCharacter, WriteRecord, WriteEndOfFile,
           ReadReady, ReadOther, ReadAccepted, ReadRejected, ReadReport, ReadRest, Timeout, Dies,
           ReadsCommand, ProgramReads, ProgramReturns, Prints, LoseAnswer, Reset, Done, vars, boardVars
    <2> QED BY <2>3, <2>5, <2>6
  <1>3. CASE UNCHANGED vars
    <2>1. UNCHANGED <<upload, load, size, memory, line, toBoard>>
      BY <1>3 DEF vars, hostVars, boardVars
    <2>2. Inbox' = Inbox
      BY <2>1, Kept
    <2> QED BY <2>1, <2>2 DEF Confined, WritesInside, Inside
  <1> QED BY <1>1, <1>2, <1>3

(***************************************************************************)
(* The start command                                                       *)
(***************************************************************************)
LEMMA LaunchingKept ==
  ASSUME TypeOK, Next, ~StartUpload, Launching PROVE Launching'
  <1>1. CASE host = "R cr"
    <2>1. \/ TypeCharacter \/ Dies \/ UNCHANGED hostVars
      BY <1>1 DEF Next, HostNext, BoardNext, Settle, WriteRecord, WriteEndOfFile, Waiting,
           ReadReady, ReadOther, ReadAccepted, ReadRejected, ReadReport, ReadRest, Timeout,
           ReadsCommand, ReadsRecord, ProgramReads, ProgramReturns, Prints, LoseAnswer, Reset, Done, vars
    <2> QED BY <1>1, <2>1 DEF TypeCharacter, Dies, Launching, hostVars, After
  <1>2. CASE host = "ended" /\ result \in {"ok", "died"}
    <2>1. UNCHANGED hostVars
      BY <1>2 DEF Next, HostNext, BoardNext, Settle, WriteRecord, WriteEndOfFile, Waiting, Typing,
           ReadReady, ReadOther, ReadAccepted, ReadRejected, ReadReport, ReadRest, Timeout,
           TypeCharacter, Dies,
           ReadsCommand, ReadsRecord, ProgramReads, ProgramReturns, Prints, LoseAnswer, Reset, Done, vars
    <2> QED BY <1>2, <2>1 DEF Launching, hostVars
  <1> QED BY <1>1, <1>2 DEF Launching

LEMMA InTurnStep ==
  ASSUME TypeOK, TypeOK', Position, Confined, InTurn, Next, ~StartUpload PROVE InTurn'
  <1>1. /\ Len(Inbox) \in Nat /\ Len(Inbox') \in Nat /\ upload \in Nat
        /\ \A i \in 1 .. Len(Inbox) : Inbox[i].upload <= upload
    <2>1. Inbox' \in Seq(Pieces)
      BY DEF TypeOK, Inbox
    <2>2. Len(Inbox') \in Nat
      BY <2>1
    <2>3. Len(Inbox) \in Nat /\ upload \in Nat
      BY OfTheLine, HexAssumption DEF TypeOK
    <2> QED BY <2>2, <2>3 DEF Confined, Inside
  <1>2. CASE InboxCut
    <2>1. PICK k, d \in Nat : Cut(Inbox', Inbox, k, d)
      BY <1>2 DEF InboxCut
    <2>2. ASSUME NEW i \in 1 .. Len(Inbox'), NEW j \in 1 .. Len(Inbox'), i < j
          PROVE  Inbox'[i].upload <= Inbox'[j].upload
      <3> DEFINE At(n) == IF n <= k THEN n ELSE n + d
      <3>1. At(i) \in 1 .. Len(Inbox) /\ At(j) \in 1 .. Len(Inbox) /\ At(i) < At(j)
        BY <1>1, <2>1, <2>2 DEF Cut
      <3>2. Inbox'[i] = Inbox[At(i)] /\ Inbox'[j] = Inbox[At(j)]
        BY <2>1 DEF Cut
      <3> HIDE DEF At
      <3> QED BY <3>1, <3>2 DEF InTurn
    <2> QED BY <2>2 DEF InTurn
  <1>3. ASSUME NEW text \in Seq(Pieces), Longer(Inbox', Inbox, text), \A i \in 1 .. Len(text) : Ours(text[i])
        PROVE  InTurn'
    <2>1. ASSUME NEW i \in 1 .. Len(Inbox'), i > Len(Inbox)
          PROVE  Inbox'[i].upload = upload
      <3>1. i - Len(Inbox) \in 1 .. Len(text) /\ i = Len(Inbox) + (i - Len(Inbox))
        BY <1>1, <1>3, <2>1 DEF Longer
      <3> QED BY <1>3, <3>1 DEF Longer, Ours
    <2>2. ASSUME NEW i \in 1 .. Len(Inbox'), NEW j \in 1 .. Len(Inbox'), i < j
          PROVE  Inbox'[i].upload <= Inbox'[j].upload
      <3>1. CASE j <= Len(Inbox)
        <4>1. i \in 1 .. Len(Inbox) /\ j \in 1 .. Len(Inbox)
          BY <1>1, <2>2, <3>1
        <4> QED BY <1>3, <2>2, <4>1 DEF Longer, InTurn
      <3>2. CASE j > Len(Inbox) /\ i > Len(Inbox)
        BY <1>1, <2>1, <3>2
      <3>3. CASE j > Len(Inbox) /\ i <= Len(Inbox)
        <4>1. i \in 1 .. Len(Inbox)
          BY <1>1, <3>3
        <4> QED BY <1>1, <1>3, <2>1, <3>3, <4>1 DEF Longer
      <3> QED BY <1>1, <3>1, <3>2, <3>3
    <2> QED BY <2>2 DEF InTurn
  <1> QED BY InboxStep, <1>2, <1>3

\* The monitor was told to start the upload's program by the upload's R.
LEMMA StartedBy ==
  ASSUME TypeOK, Confined, StartsLast, ReadsCommand
  PROVE  \/ UNCHANGED started
         \/ /\ started'.upload <= upload
            /\ started'.upload = upload /\ upload > 0 => Launching
  <1>1. upload \in Nat
    BY HexAssumption DEF TypeOK
  <1>2. CASE Types(line) \in {<<"digits", "R">>, <<"R">>} /\ Len(line) = 2
             /\ started' = [upload |-> line[1].upload, addr |-> line[1].addr, len |-> line[1].len]
    <2>1. Len(Types(line)) = 2 /\ Types(line)[2] = line[2].type
      BY <1>2 DEF Types
    <2>2. line[2].type = "R"
      BY <1>2, <2>1
    <2>3. /\ 1 \in 1 .. Len(Inbox) /\ 2 \in 1 .. Len(Inbox)
          /\ Inbox[1] = line[1] /\ Inbox[2] = line[2]
      BY <1>2, OfTheLine
    <2>4. line[1].upload <= line[2].upload /\ line[2].upload <= upload
      BY <2>3 DEF StartsLast, InTurn, Confined, Inside
    <2>5. line[1].upload \in Nat /\ line[2].upload \in Nat
      <3>1. Inbox[1] \in Pieces /\ Inbox[2] \in Pieces
        BY <2>3, BoxType
      <3> QED BY <2>3, <3>1, HexAssumption DEF Pieces, Uploads
    <2>6. line[2].upload = upload => Launching
      BY <2>2, <2>3 DEF StartsLast
    <2> QED BY <1>1, <1>2, <2>4, <2>5, <2>6
  <1>3. CASE started' = NoProgram
    BY <1>1, <1>3 DEF NoProgram
  <1> QED BY <1>2, <1>3 DEF ReadsCommand, Command

LEMMA StartsLastStep ==
  ASSUME TypeOK, TypeOK', Position, Confined, StartsLast, [Next]_vars PROVE StartsLast'
  <1>0. upload \in Nat /\ started.upload \in Nat
    BY HexAssumption DEF TypeOK
  <1>1. CASE StartUpload
    <2>1. Inbox' = Inbox /\ started' = started /\ upload' = upload + 1
      BY <1>1, Kept DEF StartUpload, boardVars
    <2>2. \A i \in 1 .. Len(Inbox) : Inbox[i].upload \in Nat /\ Inbox[i].upload <= upload
      <3>1. \A i \in 1 .. Len(Inbox) : Inbox[i] \in Pieces
        BY BoxType
      <3>2. \A p \in Pieces : p.upload \in Nat
        BY HexAssumption DEF Pieces, Uploads
      <3> QED BY <3>1, <3>2 DEF Confined, Inside
    <2>3. started.upload <= upload /\ InTurn
      BY DEF StartsLast
    <2>4. \A i \in 1 .. Len(Inbox) : Inbox[i].upload # upload'
      BY <1>0, <2>1, <2>2
    <2> QED BY <1>0, <2>1, <2>3, <2>4 DEF StartsLast, InTurn
  <1>2. CASE Next /\ ~StartUpload
    <2>1. UNCHANGED <<upload, load, size>> /\ InTurn'
      BY <1>2, InboxStep, InTurnStep DEF StartsLast
    <2>2. Launching => Launching'
      BY <1>2, LaunchingKept
    <2>3. \A i \in 1 .. Len(Inbox') : Inbox'[i].upload = upload /\ Inbox'[i].type = "R" => Launching'
      <3>1. CASE InboxCut
        <4>1. PICK k, d \in Nat : Cut(Inbox', Inbox, k, d)
          BY <3>1 DEF InboxCut
        <4>2. Len(Inbox) \in Nat
          BY OfTheLine
        <4> QED BY <2>2, <4>1, <4>2 DEF Cut, StartsLast
      <3>2. ASSUME NEW text \in Seq(Pieces), Longer(Inbox', Inbox, text), \A i \in 1 .. Len(text) : Ours(text[i]),
                   NEW i \in 1 .. Len(Inbox'), Inbox'[i].upload = upload, Inbox'[i].type = "R"
            PROVE  Launching'
        <4>1. Len(Inbox) \in Nat
          BY OfTheLine
        <4>2. CASE i <= Len(Inbox)
          <5>1. i \in 1 .. Len(Inbox) /\ Inbox'[i] = Inbox[i]
            BY <3>2, <4>1, <4>2 DEF Longer
          <5> QED BY <2>2, <3>2, <5>1 DEF StartsLast
        <4>3. CASE i > Len(Inbox)
          <5>1. i - Len(Inbox) \in 1 .. Len(text) /\ i = Len(Inbox) + (i - Len(Inbox))
            BY <3>2, <4>1, <4>3 DEF Longer
          <5>2. host' = "R cr"
            BY <3>2, <5>1 DEF Longer, Ours
          <5> QED BY <5>2 DEF Launching
        <4> QED BY <4>1, <4>2, <4>3
      <3> QED BY <1>2, InboxStep, <3>1, <3>2
    <2>4. UNCHANGED started \/ ReadsCommand
      BY <1>2 DEF Next, HostNext, BoardNext, Settle, TypeCharacter, WriteRecord, WriteEndOfFile,
           ReadReady, ReadOther, ReadAccepted, ReadRejected, ReadReport, ReadRest, Timeout, Dies,
           ReadsRecord, ProgramReads, ProgramReturns, Prints, LoseAnswer, Reset, Done, vars, boardVars
    <2>5. CASE UNCHANGED started
      BY <2>1, <2>2, <2>3, <2>5 DEF StartsLast
    <2>6. CASE /\ started'.upload <= upload
               /\ started'.upload = upload /\ upload > 0 => Launching
      BY <2>1, <2>2, <2>3, <2>6 DEF StartsLast
    <2> QED BY <2>4, <2>5, <2>6, StartedBy
  <1>3. CASE UNCHANGED vars
    <2>1. UNCHANGED <<upload, started, host, result, line, toBoard>>
      BY <1>3 DEF vars, hostVars, boardVars
    <2>2. Inbox' = Inbox
      BY <2>1, Kept
    <2> QED BY <2>1, <2>2 DEF StartsLast, InTurn, Launching
  <1> QED BY <1>1, <1>2, <1>3

(***************************************************************************)
(* While nobody presses reset: records one at a time                       *)
(***************************************************************************)

\* The records of new are records of old, each of another one.
Fewer(new, old) ==
    \A i, j \in 1 .. Len(new) : Colon(new[i]) /\ Colon(new[j]) =>
        \E m, n \in 1 .. Len(old) : new[i] = old[m] /\ new[j] = old[n] /\ (m = n => i = j)

LEMMA FewerCut ==
  ASSUME NEW S, NEW a \in Seq(S), NEW b \in Seq(S), NEW k \in Nat, NEW d \in Nat, Cut(a, b, k, d)
  PROVE  Fewer(a, b)
  <1> DEFINE At(n) == IF n <= k THEN n ELSE n + d
  <1>1. Len(a) \in Nat /\ Len(b) \in Nat /\ Len(b) = Len(a) + d /\ k <= Len(a)
    BY DEF Cut
  <1>2. \A i \in 1 .. Len(a) : At(i) \in 1 .. Len(b) /\ a[i] = b[At(i)]
    BY <1>1 DEF Cut
  <1>3. \A i, j \in 1 .. Len(a) : At(i) = At(j) => i = j
    BY <1>1
  <1> HIDE DEF At
  <1> QED BY <1>2, <1>3 DEF Fewer

LEMMA FewerGrown ==
  ASSUME NEW S, NEW a \in Seq(S), NEW b \in Seq(S), NEW key, ~Colon(key), Longer(a, b, <<key>>)
  PROVE  Fewer(a, b)
  <1>1. Len(a) \in Nat /\ Len(b) \in Nat /\ Len(a) = Len(b) + 1
    BY DEF Longer
  <1>2. a[Len(b) + 1] = key /\ \A i \in 1 .. Len(b) : a[i] = b[i]
    BY <1>1 DEF Longer
  <1>3. \A i \in 1 .. Len(a) : Colon(a[i]) => i \in 1 .. Len(b) /\ a[i] = b[i]
    BY <1>1, <1>2
  <1> QED BY <1>3 DEF Fewer

LEMMA BoxTypes ==
  ASSUME TypeOK, TypeOK'
  PROVE  /\ Inbox \in Seq(Pieces) /\ Inbox' \in Seq(Pieces)
         /\ Outbox \in Seq(Words) /\ Outbox' \in Seq(Words)
         /\ Len(Inbox) \in Nat /\ Len(Inbox') \in Nat /\ Len(Outbox) \in Nat /\ Len(Outbox') \in Nat
  <1>1. Inbox \in Seq(Pieces) /\ Outbox \in Seq(Words)
    BY BoxType
  <1>2. Inbox' \in Seq(Pieces) /\ Outbox' \in Seq(Words)
    BY DEF TypeOK, Inbox, Outbox
  <1> HIDE DEF Inbox, Outbox
  <1> QED BY <1>1, <1>2

LEMMA InboxFewer ==
  ASSUME TypeOK, TypeOK', InboxCut PROVE Fewer(Inbox', Inbox)
  <1>1. PICK k, d \in Nat : Cut(Inbox', Inbox, k, d)
    BY DEF InboxCut
  <1> QED BY <1>1, BoxTypes, FewerCut

\* Only write and write_all of a record add a record.
LEMMA RecordsFewer ==
  ASSUME TypeOK, TypeOK', Position, Next, ~WriteRecord, ~WriteEndOfFile
  PROVE  Fewer(Inbox', Inbox)
  <1>1. CASE TypeCharacter
    <2>1. CASE InboxCut
      BY <2>1, InboxFewer
    <2>2. ASSUME NEW key \in Pieces, Longer(Inbox', Inbox, <<key>>),
                 key.type = IF host \in {"L cr", "R cr"} THEN "cr" ELSE host
          PROVE  Fewer(Inbox', Inbox)
      <3>1. ~Colon(key)
        BY <1>1, <2>2 DEF Colon, TypeCharacter, Typing
      <3> QED BY <2>2, <3>1, BoxTypes, FewerGrown
    <2> QED BY <1>1, Typed, <2>1, <2>2
  <1>2. CASE Dies
    <2>1. CASE InboxCut
      BY <2>1, InboxFewer
    <2>2. ASSUME NEW key \in Pieces, Longer(Inbox', Inbox, <<key>>), key.type = "cr"
          PROVE  Fewer(Inbox', Inbox)
      <3>1. ~Colon(key)
        BY <2>2 DEF Colon
      <3> QED BY <2>2, <3>1, BoxTypes, FewerGrown
    <2> QED BY <1>2, DiesTyping, <2>1, <2>2
  <1>3. CASE ReadsCommand \/ ReadsRecord \/ ProgramReads
    BY <1>3, BoardTakes, InboxFewer
  <1>4. CASE ProgramReturns
    BY <1>4, LineDropped, InboxFewer DEF ProgramReturns
  <1>5. CASE Reset
    <2>1. Inbox' = <<>>
      BY <1>5 DEF Reset, Inbox
    <2> QED BY <2>1, Emptied, InboxFewer
  <1>6. CASE UNCHANGED <<line, toBoard>>
    BY <1>6, Kept, InboxFewer
  <1>7. \/ TypeCharacter \/ Dies \/ ReadsCommand \/ ReadsRecord \/ ProgramReads \/ ProgramReturns \/ Reset
        \/ UNCHANGED <<line, toBoard>>
    BY DEF Next, HostNext, BoardNext, StartUpload, Settle, ReadReady, ReadOther, ReadAccepted, ReadRejected,
           ReadReport, ReadRest, Timeout, Prints, LoseAnswer, Done, vars, hostVars, boardVars
  <1> QED BY <1>1, <1>2, <1>3, <1>4, <1>5, <1>6, <1>7

LEMMA NoRecordKept ==
  ASSUME NoRecord, Fewer(Inbox', Inbox) PROVE NoRecord'
  BY DEF NoRecord, Fewer

LEMMA OneRecordKept ==
  ASSUME TypeOK, TypeOK', OneRecord, Fewer(Inbox', Inbox), UNCHANGED board,
         reported' > 0 => reported > 0 /\ upload' = upload
  PROVE  OneRecord'
  <1>1. ASSUME NEW i \in 1 .. Len(Inbox'), Colon(Inbox'[i])
        PROVE  /\ board' = "loading" /\ (reported' > 0 => Inbox'[i].upload = upload')
               /\ \A j \in 1 .. Len(Inbox') : Colon(Inbox'[j]) => j = i
    <2>1. PICK m \in 1 .. Len(Inbox) : Inbox'[i] = Inbox[m]
      BY <1>1 DEF Fewer
    <2>2. board = "loading" /\ (reported > 0 => Inbox[m].upload = upload)
      BY <1>1, <2>1 DEF OneRecord
    <2>3. ASSUME NEW j \in 1 .. Len(Inbox'), Colon(Inbox'[j]) PROVE j = i
      <3>1. PICK p \in 1 .. Len(Inbox), q \in 1 .. Len(Inbox) :
                Inbox'[i] = Inbox[p] /\ Inbox'[j] = Inbox[q] /\ (p = q => i = j)
        BY <1>1, <2>3 DEF Fewer
      <3>2. p = q
        BY <1>1, <2>3, <3>1 DEF OneRecord
      <3> QED BY <3>1, <3>2
    <2> QED BY <2>1, <2>2, <2>3
  <1> QED BY <1>1 DEF OneRecord

\* The record the loader has read was the only one.
LEMMA RecordTaken ==
  ASSUME TypeOK, TypeOK', OneRecord, ReadsRecord, Colons(line) # {}, line' = <<>>
  PROVE  NoRecord'
  <1>1. /\ FirstColon(line) \in 1 .. Len(line) /\ Colon(line[FirstColon(line)])
        /\ line \in Seq(Pieces) /\ toBoard \in Seq(Pieces) /\ toBoard # <<>>
    BY Found DEF TypeOK, ReadsRecord
  <1> DEFINE c == FirstColon(line)
  <1>2. c \in 1 .. Len(Inbox) /\ Colon(Inbox[c]) /\ c <= Len(line) /\ Len(line) \in Nat /\ c \in Nat
    BY <1>1, OfTheLine
  <1> HIDE DEF c
  <1>3. Inbox' = Tail(toBoard)
    BY PieceTaken DEF ReadsRecord
  <1>4. Cut(Inbox', Inbox, 0, Len(line) + 1)
    BY <1>1, <1>3, FrontCut DEF Inbox
  <1>5. ASSUME NEW i \in 1 .. Len(Inbox'), Colon(Inbox'[i]) PROVE FALSE
    <2>1. Len(Inbox') \in Nat
      BY BoxTypes
    <2>2. i + (Len(line) + 1) \in 1 .. Len(Inbox) /\ Inbox'[i] = Inbox[i + (Len(line) + 1)]
      BY <1>2, <1>4, <2>1 DEF Cut
    <2>3. i + (Len(line) + 1) = c
      BY <1>2, <1>5, <2>2 DEF OneRecord
    <2> QED BY <1>2, <2>1, <2>3
  <1> QED BY <1>5 DEF NoRecord

LEMMA IdleNoRecord == ASSUME OneRecord, board # "loading" PROVE NoRecord
  BY DEF OneRecord, NoRecord

\* The turn of send_record: there is nothing before the record it writes.
LEMMA OneRecordWritten ==
  ASSUME TypeOK, TypeOK', NoRecord, board' = "loading", UNCHANGED upload,
         NEW rec, NEW text \in Seq(Pieces), OneColon(rec, text), Longer(Inbox', Inbox, text)
  PROVE  OneRecord'
  <1>1. Len(Inbox) \in Nat /\ Len(Inbox') \in Nat /\ Len(Inbox') = Len(Inbox) + Len(text) /\ Len(text) \in Nat
    BY BoxTypes DEF Longer
  <1>2. ASSUME NEW i \in 1 .. Len(Inbox'), Colon(Inbox'[i])
        PROVE  i - Len(Inbox) \in 1 .. Len(text) /\ Inbox'[i] = text[i - Len(Inbox)]
    <2>1. i > Len(Inbox)
      BY <1>1, <1>2 DEF Longer, NoRecord
    <2>2. i - Len(Inbox) \in 1 .. Len(text) /\ i = Len(Inbox) + (i - Len(Inbox))
      BY <1>1, <2>1
    <2> QED BY <2>2 DEF Longer
  <1>3. ASSUME NEW i \in 1 .. Len(Inbox'), Colon(Inbox'[i])
        PROVE  Inbox'[i].upload = upload' /\ \A j \in 1 .. Len(Inbox') : Colon(Inbox'[j]) => j = i
    <2>1. Inbox'[i].upload = upload'
      BY <1>2, <1>3 DEF OneColon
    <2>2. ASSUME NEW j \in 1 .. Len(Inbox'), Colon(Inbox'[j]) PROVE j = i
      <3>1. i - Len(Inbox) = j - Len(Inbox)
        BY <1>2, <1>3, <2>2 DEF OneColon
      <3> QED BY <1>1, <3>1
    <2> QED BY <2>1, <2>2
  <1> QED BY <1>3 DEF OneRecord

LEMMA OneRecordStep ==
  ASSUME TypeOK, TypeOK', Position, Sequential, Next, ~Reset
  PROVE  OneRecord'
  <1>0. OneRecord /\ Speaking
    BY DEF Sequential
  <1>1. CASE WriteRecord
    <2>1. PICK text \in Seq(Pieces) : OneColon(Record(idx), text) /\ toBoard' = toBoard \o text
      BY <1>1, RecordWritten
    <2>2. UNCHANGED <<upload, line, board>> /\ board = "loading" /\ NoRecord
      BY <1>0, <1>1 DEF WriteRecord, boardVars, Speaking, MayWrite
    <2>3. Longer(Inbox', Inbox, text)
      BY <2>1, <2>2, Sent
    <2> QED BY <2>1, <2>2, <2>3, OneRecordWritten
  <1>2. CASE WriteEndOfFile
    <2>1. PICK text \in Seq(Pieces) : OneColon(EndOfFile, text) /\ toBoard' = toBoard \o text
      BY <1>2, EndOfFileWritten
    <2>2. UNCHANGED <<upload, line, board>> /\ board = "loading" /\ NoRecord
      BY <1>0, <1>2 DEF WriteEndOfFile, boardVars, Speaking, MayWrite
    <2>3. Longer(Inbox', Inbox, text)
      BY <2>1, <2>2, Sent
    <2> QED BY <2>1, <2>2, <2>3, OneRecordWritten
  <1>3. CASE ~WriteRecord /\ ~WriteEndOfFile
    <2>1. Fewer(Inbox', Inbox)
      BY <1>3, RecordsFewer
    <2>2. NoRecord => OneRecord'
      BY <2>1, NoRecordKept DEF NoRecord, OneRecord
    <2>3. CASE UNCHANGED board /\ (reported' > 0 => reported > 0 /\ upload' = upload)
      BY <1>0, <2>1, <2>3, OneRecordKept
    <2>4. CASE ReadsCommand \/ ProgramReads \/ ProgramReturns
      BY <1>0, <2>2, <2>4, IdleNoRecord DEF ReadsCommand, ProgramReads, ProgramReturns
    <2>5. CASE ReadsRecord
      <3>1. CASE Colons(line) # {} /\ line' = <<>>
        BY <1>0, <2>5, <3>1, RecordTaken DEF NoRecord, OneRecord
      <3>2. CASE UNCHANGED board
        BY <2>3, <2>5, <3>2 DEF ReadsRecord, hostVars
      <3> QED BY <2>5, <3>1, <3>2 DEF ReadsRecord
    <2>6. CASE ReadAccepted
      <3>1. toHost # <<>> /\ Head(toHost) = "." /\ UNCHANGED printing /\ toHost' = Tail(toHost)
        BY <2>6 DEF ReadAccepted, Accepts, boardVars
      <3>2. Len(Outbox) >= 1 /\ Outbox[1] = "." /\ Len(Outbox) \in Nat
        BY <3>1, HeadHeard, BoxTypes
      <3>3. ~OnlyTails(Outbox)
        BY <3>2 DEF OnlyTails
      <3>4. NoRecord
        BY <1>0, <2>6, <3>3 DEF ReadAccepted, Speaking, Answering, NoRecord
      <3> QED BY <2>2, <3>4
    <2>7. CASE StartUpload
      <3>1. reported' = 0 /\ UNCHANGED board
        BY <2>7 DEF StartUpload, boardVars
      <3> QED BY <2>3, <3>1
    <2>8. \/ ReadsCommand \/ ProgramReads \/ ProgramReturns \/ ReadsRecord \/ ReadAccepted \/ StartUpload
          \/ UNCHANGED <<board, reported, upload>>
      BY <1>3 DEF Next, HostNext, BoardNext, Settle, TypeCharacter, ReadReady, ReadOther, ReadRejected,
           ReadReport, ReadRest, Timeout, Dies, Prints, LoseAnswer, Done, vars, hostVars, boardVars
    <2> QED BY <2>3, <2>4, <2>5, <2>6, <2>7, <2>8
  <1> QED BY <1>1, <1>2, <1>3

LEMMA OutboxRead ==
  ASSUME TypeOK, Next, ~ReadsCommand, ~ReadsRecord, ~ProgramReturns, ~Reset
  PROVE  OutboxCut
  <1>0. Len(toHost) \in Nat
    <2>1. toHost \in Seq(Words) BY DEF TypeOK
    <2> QED BY <2>1
  <1>1. CASE Settle
    <2>1. Outbox' = <<>>
      <3>1. toHost' = <<>> /\ printing' = <<>>
        BY <1>1 DEF Settle, boardVars
      <3> QED BY <3>1 DEF Outbox
    <2> QED BY <2>1, Emptied
  <1>2. CASE \E k \in 0 .. Len(toHost) : toHost' = SubSeq(toHost, k + 1, Len(toHost)) /\ UNCHANGED printing
    BY <1>2, HeardCut
  <1>3. CASE toHost # <<>> /\ toHost' = Tail(toHost) /\ UNCHANGED printing
    BY <1>3, HeadHeard
  <1>4. CASE Prints
    BY <1>4, PrintedKept
  <1>5. CASE LoseAnswer
    BY <1>5, LostCut
  <1>6. CASE UNCHANGED <<toHost, printing>>
    BY <1>6, Kept
  <1>7. ReadReady \/ ReadReport => \E k \in 0 .. Len(toHost) :
            toHost' = SubSeq(toHost, k + 1, Len(toHost)) /\ UNCHANGED printing
    <2>1. \A k \in 1 .. Len(toHost) : k \in 0 .. Len(toHost)
      BY <1>0
    <2> QED BY <2>1 DEF ReadReady, ReadReport, boardVars
  <1>8. ReadRest => \E k \in 0 .. Len(toHost) :
            toHost' = SubSeq(toHost, k + 1, Len(toHost)) /\ UNCHANGED printing
    BY DEF ReadRest, boardVars
  <1>9. ReadOther \/ ReadAccepted \/ ReadRejected => toHost # <<>> /\ toHost' = Tail(toHost) /\ UNCHANGED printing
    BY DEF ReadOther, ReadAccepted, ReadRejected, boardVars
  <1>10. StartUpload \/ TypeCharacter \/ WriteRecord \/ WriteEndOfFile \/ Timeout \/ Dies \/ ProgramReads \/ Done
         => UNCHANGED <<toHost, printing>>
    BY DEF StartUpload, TypeCharacter, WriteRecord, WriteEndOfFile, Timeout, Dies, ProgramReads, Done,
           vars, boardVars
  <1> QED BY <1>1, <1>2, <1>3, <1>4, <1>5, <1>6, <1>7, <1>8, <1>9, <1>10 DEF Next, HostNext, BoardNext

NoReady == \A i \in 1 .. Len(Outbox) : Outbox[i] # "READY"

LEMMA NoReadyGrown ==
  ASSUME TypeOK, TypeOK', NoReady, NEW text, Longer(Outbox', Outbox, text), Len(text) \in Nat,
         \A i \in 1 .. Len(text) : text[i] # "READY"
  PROVE  NoReady'
  <1>1. Len(Outbox) \in Nat /\ Len(Outbox') = Len(Outbox) + Len(text)
    BY BoxTypes DEF Longer
  <1>2. ASSUME NEW i \in 1 .. Len(Outbox') PROVE Outbox'[i] # "READY"
    <2>1. CASE i <= Len(Outbox)
      BY <1>1, <2>1 DEF Longer, NoReady
    <2>2. CASE i > Len(Outbox)
      <3>1. i - Len(Outbox) \in 1 .. Len(text) /\ i = Len(Outbox) + (i - Len(Outbox))
        BY <1>1, <2>2
      <3> QED BY <3>1 DEF Longer
    <2> QED BY <1>1, <2>1, <2>2
  <1> QED BY <1>2 DEF NoReady

LEMMA OneReadyKept ==
  ASSUME TypeOK, TypeOK', OneReady, OutboxCut, UNCHANGED board, NoRecord => NoRecord'
  PROVE  OneReady'
  <1>1. PICK k, d \in Nat : Cut(Outbox', Outbox, k, d)
    BY DEF OutboxCut
  <1>2. Len(Outbox) \in Nat /\ Len(Outbox') \in Nat
    BY BoxTypes
  <1>3. ASSUME NEW i \in 1 .. Len(Outbox'), Outbox'[i] = "READY"
        PROVE  board' = "loading" /\ NoRecord' /\ \A j \in i + 1 .. Len(Outbox') : Outbox'[j] = "tail"
    <2> DEFINE At(n) == IF n <= k THEN n ELSE n + d
    <2>1. \A j \in i .. Len(Outbox') : At(j) \in 1 .. Len(Outbox) /\ Outbox'[j] = Outbox[At(j)]
      BY <1>1, <1>2 DEF Cut
    <2>2. \A j \in i + 1 .. Len(Outbox') : At(j) \in At(i) + 1 .. Len(Outbox)
      BY <1>1, <1>2 DEF Cut
    <2>3. i \in i .. Len(Outbox') /\ \A j \in i + 1 .. Len(Outbox') : j \in i .. Len(Outbox')
      BY <1>2
    <2> HIDE DEF At
    <2>4. At(i) \in 1 .. Len(Outbox) /\ Outbox[At(i)] = "READY"
      BY <1>3, <2>1, <2>3
    <2>5. board = "loading" /\ NoRecord /\ \A j \in At(i) + 1 .. Len(Outbox) : Outbox[j] = "tail"
      BY <2>4 DEF OneReady, NoRecord
    <2> QED BY <2>1, <2>2, <2>3, <2>5
  <1> QED BY <1>3 DEF OneReady, NoRecord

LEMMA NoReadyOneReady == ASSUME NoReady PROVE OneReady
  BY DEF NoReady, OneReady

LEMMA OneReadyStep ==
  ASSUME TypeOK, TypeOK', Position, Sequential, Next, ~Reset
  PROVE  OneReady'
  <1>0. OneRecord /\ OneReady /\ Speaking
    BY DEF Sequential
  <1>1. CASE WriteRecord \/ WriteEndOfFile
    <2>1. OnlyTails(Outbox) /\ Outbox' = Outbox
      BY <1>0, <1>1, Kept DEF WriteRecord, WriteEndOfFile, Speaking, MayWrite, boardVars
    <2>2. NoReady'
      BY <2>1 DEF OnlyTails, NoReady
    <2> QED BY <2>2 DEF NoReady, OneReady
  <1>2. CASE ~WriteRecord /\ ~WriteEndOfFile
    <2>1. NoRecord => NoRecord'
      BY <1>2, RecordsFewer, NoRecordKept
    <2>2. board # "loading" => NoReady /\ NoRecord'
      BY <1>0, <2>1, IdleNoRecord DEF NoReady, OneReady
    <2>3. CASE OutboxCut /\ UNCHANGED board
      BY <1>0, <2>1, <2>3, OneReadyKept
    <2>4. ASSUME OutboxCut, NoReady PROVE OneReady'
      <3>1. PICK k, d \in Nat : Cut(Outbox', Outbox, k, d)
        BY <2>4 DEF OutboxCut
      <3>2. Len(Outbox) \in Nat /\ Len(Outbox') \in Nat
        BY BoxTypes
      <3>3. NoReady'
        BY <2>4, <3>1, <3>2 DEF Cut, NoReady
      <3> QED BY <3>3 DEF NoReady, OneReady
    <2>5. ASSUME NEW text \in Seq(Words), Keeps(text), UNCHANGED toHost, NoReady,
                 \A i \in 1 .. Len(text) : text[i] # "READY"
          PROVE  OneReady'
      <3>1. NoReady'
        BY <2>5, Told, NoReadyGrown
      <3> QED BY <3>1 DEF NoReady, OneReady
    <2>6. CASE ReadsCommand
      <3>1. board = "prompt" /\ UNCHANGED toHost
        BY <2>6 DEF ReadsCommand
      <3>2. CASE board' = "loading" /\ Keeps(<<"READY", "tail">>)
        <4>1. <<"READY", "tail">> \in Seq(Words)
          BY DEF Words
        <4>2. Longer(Outbox', Outbox, <<"READY", "tail">>)
          BY <3>1, <3>2, <4>1, Told
        <4>3. Len(Outbox) \in Nat /\ Len(Outbox') = Len(Outbox) + 2
          BY <4>2, BoxTypes DEF Longer
        <4>4. Outbox'[Len(Outbox) + 1] = "READY" /\ Outbox'[Len(Outbox) + 2] = "tail"
          BY <4>2 DEF Longer
        <4>5. \A i \in 1 .. Len(Outbox) : Outbox'[i] # "READY"
          BY <2>2, <3>1, <4>2 DEF Longer, NoReady
        <4>6. ASSUME NEW i \in 1 .. Len(Outbox'), Outbox'[i] = "READY"
              PROVE  \A j \in i + 1 .. Len(Outbox') : Outbox'[j] = "tail"
          <5>1. i = Len(Outbox) + 1
            BY <4>3, <4>4, <4>5, <4>6
          <5> QED BY <4>3, <4>4, <5>1
        <4> QED BY <2>2, <3>1, <3>2, <4>6 DEF OneReady, NoRecord
      <3>3. CASE UNCHANGED printing
        BY <2>2, <2>4, <3>1, <3>3, Kept
      <3> QED BY <2>6, <3>2, <3>3 DEF ReadsCommand, Command
    <2>7. CASE ReadsRecord
      <3>1. CASE Colons(line) # {} /\ line' = <<>> /\ LoadRecord(line[FirstColon(line)])
        <4>1. /\ FirstColon(line) \in 1 .. Len(Inbox) /\ Colon(Inbox[FirstColon(line)])
              /\ Colon(line[FirstColon(line)])
          BY <3>1, Found, OfTheLine DEF TypeOK
        <4>2. NoReady
          BY <1>0, <4>1 DEF OneReady, NoReady
        <4> DEFINE rec == line[FirstColon(line)]
        <4>3. LoadRecord(rec) /\ rec.type \in {"bad", "data", "eof"} /\ UNCHANGED toHost
          BY <2>7, <3>1, <4>1 DEF Colon, ReadsRecord
        <4> HIDE DEF rec
        <4>4. PICK text \in {<<"X">>, <<".">>, <<"Load", "error", "tail">>, <<"Load", "successful", "tail">>} : Keeps(text)
          BY <4>3 DEF LoadRecord
        <4>5. text \in Seq(Words) /\ \A i \in 1 .. Len(text) : text[i] # "READY"
          <5>1. CASE text = <<"X">> BY <5>1 DEF Words
          <5>2. CASE text = <<".">> BY <5>2 DEF Words
          <5>3. CASE text = <<"Load", "error", "tail">> BY <5>3 DEF Words
          <5>4. CASE text = <<"Load", "successful", "tail">> BY <5>4 DEF Words
          <5> QED BY <4>4, <5>1, <5>2, <5>3, <5>4
        <4> QED BY <2>5, <4>2, <4>3, <4>4, <4>5
      <3>2. CASE UNCHANGED <<printing, board>>
        BY <2>3, <2>7, <3>2, Kept DEF ReadsRecord
      <3> QED BY <2>7, <3>1, <3>2 DEF ReadsRecord
    <2>8. CASE ProgramReturns
      <3>1. <<"tail">> \in Seq(Words) /\ \A i \in 1 .. Len(<<"tail">>) : <<"tail">>[i] # "READY"
        BY DEF Words
      <3> QED BY <2>2, <2>5, <2>8, <3>1 DEF ProgramReturns
    <2>9. CASE ~ReadsCommand /\ ~ReadsRecord /\ ~ProgramReturns
      <3>1. OutboxCut
        BY <2>9, OutboxRead
      <3>2. UNCHANGED board
        BY <2>9 DEF Next, HostNext, BoardNext, StartUpload, Settle, TypeCharacter, WriteRecord, WriteEndOfFile,
             ReadReady, ReadOther, ReadAccepted, ReadRejected, ReadReport, ReadRest, Timeout, Dies,
             ProgramReads, Prints, LoseAnswer, Done, vars, boardVars
      <3> QED BY <2>3, <3>1, <3>2
    <2> QED BY <2>6, <2>7, <2>8, <2>9
  <1> QED BY <1>1, <1>2

(***************************************************************************)
(* While nobody presses reset: what is stored and what is started          *)
(***************************************************************************)
NoDigits == \A i \in 1 .. Len(Inbox) : Inbox[i].type # "digits"

LEMMA NoDigitsKept ==
  ASSUME TypeOK, TypeOK', NoDigits, InboxCut PROVE NoDigits'
  <1>1. PICK k, d \in Nat : Cut(Inbox', Inbox, k, d)
    BY DEF InboxCut
  <1>2. Len(Inbox) \in Nat /\ Len(Inbox') \in Nat
    BY BoxTypes
  <1> QED BY <1>1, <1>2 DEF Cut, NoDigits

LEMMA NoDigitsGrown ==
  ASSUME TypeOK, TypeOK', NoDigits, NEW text \in Seq(Pieces), Longer(Inbox', Inbox, text),
         \A i \in 1 .. Len(text) : text[i].type # "digits"
  PROVE  NoDigits'
  <1>1. Len(Inbox) \in Nat /\ Len(text) \in Nat /\ Len(Inbox') = Len(Inbox) + Len(text)
    BY BoxTypes DEF Longer
  <1>2. ASSUME NEW i \in 1 .. Len(Inbox') PROVE Inbox'[i].type # "digits"
    <2>1. CASE i <= Len(Inbox)
      BY <1>1, <2>1 DEF Longer, NoDigits
    <2>2. CASE i > Len(Inbox)
      <3>1. i - Len(Inbox) \in 1 .. Len(text) /\ i = Len(Inbox) + (i - Len(Inbox))
        BY <1>1, <2>2
      <3> QED BY <3>1 DEF Longer
    <2> QED BY <1>1, <2>1, <2>2
  <1> QED BY <1>2 DEF NoDigits

LEMMA DigitsKept ==
  ASSUME TypeOK, TypeOK', DigitsFirst, UNCHANGED <<board, memory>>,
         InboxCut \/ \E key \in Pieces : Longer(Inbox', Inbox, <<key>>) /\ key.type # "digits"
  PROVE  DigitsFirst'
  <1>1. Len(Inbox) \in Nat /\ Len(Inbox') \in Nat
    BY BoxTypes
  <1>2. ASSUME NEW i \in 1 .. Len(Inbox'), Inbox'[i].type = "digits"
        PROVE  i = 1 /\ 1 \in 1 .. Len(Inbox) /\ Inbox'[i] = Inbox[1] /\ Inbox[1].type = "digits"
    <2>1. CASE InboxCut
      <3>1. PICK k, d \in Nat : Cut(Inbox', Inbox, k, d)
        BY <2>1 DEF InboxCut
      <3>2. PICK j \in 1 .. Len(Inbox) : Inbox'[i] = Inbox[j] /\ i <= j
        BY <1>1, <3>1 DEF Cut
      <3>3. j = 1
        BY <1>2, <3>2 DEF DigitsFirst
      <3> QED BY <1>1, <1>2, <3>2, <3>3
    <2>2. ASSUME NEW key \in Pieces, Longer(Inbox', Inbox, <<key>>), key.type # "digits"
          PROVE  i = 1 /\ 1 \in 1 .. Len(Inbox) /\ Inbox'[i] = Inbox[1] /\ Inbox[1].type = "digits"
      <3>1. Len(Inbox') = Len(Inbox) + 1 /\ Inbox'[Len(Inbox) + 1] = key
        BY <1>1, <2>2 DEF Longer
      <3>2. i \in 1 .. Len(Inbox) /\ Inbox'[i] = Inbox[i]
        BY <1>1, <1>2, <2>2, <3>1 DEF Longer
      <3> QED BY <1>2, <3>2 DEF DigitsFirst
    <2> QED BY <2>1, <2>2
  <1>3. ASSUME 1 \in 1 .. Len(Inbox), Inbox[1].type = "digits"
        PROVE  board' = "prompt" /\ \A a \in Program(Inbox[1]) : memory'[a] = Inbox[1].upload
    BY <1>3 DEF DigitsFirst, Complete
  <1> QED BY <1>2, <1>3 DEF DigitsFirst, Complete, Program

LEMMA NoDigitsFirst == ASSUME NoDigits' PROVE DigitsFirst'
  BY DEF NoDigits, DigitsFirst

LEMMA DigitsFirstStep ==
  ASSUME TypeOK, TypeOK', Position, Sequential, Next, ~Reset
  PROVE  DigitsFirst'
  <1>0. DigitsFirst /\ Speaking /\ Stored(reported)
    BY DEF Sequential
  <1>1. board # "prompt" => NoDigits
    BY <1>0 DEF DigitsFirst, NoDigits
  <1>2. CASE TypeCharacter
    <2>1. UNCHANGED <<board, memory>>
      BY <1>2 DEF TypeCharacter, boardVars
    <2>2. CASE InboxCut
      BY <1>0, <2>1, <2>2, DigitsKept
    <2>3. ASSUME NEW key \in Pieces, Longer(Inbox', Inbox, <<key>>),
                 key = Piece(IF host \in {"L cr", "R cr"} THEN "cr" ELSE host),
                 key.type = IF host \in {"L cr", "R cr"} THEN "cr" ELSE host
          PROVE  DigitsFirst'
      <3>1. CASE host = "digits"
        <4>1. Inbox = <<>> /\ board = "prompt" /\ reported = size
          BY <1>0, <3>1 DEF Speaking, AtPrompt, Position, Starting
        <4>2. Len(Inbox') = 1 /\ Inbox'[1] = key
          <5>1. Len(Inbox) = 0 /\ Len(<<key>>) = 1 /\ <<key>>[1] = key /\ 1 \in 1 .. 1
            BY <4>1
          <5>2. Len(Inbox') = 0 + 1 /\ Inbox'[0 + 1] = <<key>>[1]
            BY <2>3, <5>1 DEF Longer
          <5> QED BY <5>1, <5>2
        <4>3. \A a \in Program(key) : memory[a] = key.upload
          BY <1>0, <2>3, <3>1, <4>1 DEF Program, Piece, Stored
        <4> QED BY <2>1, <4>1, <4>2, <4>3 DEF DigitsFirst, Complete, Program
      <3>2. CASE host # "digits"
        <4>1. key.type # "digits"
          BY <2>3, <3>2
        <4> QED BY <1>0, <2>1, <2>3, <4>1, DigitsKept
      <3> QED BY <3>1, <3>2
    <2> QED BY <1>2, Typed, <2>2, <2>3
  <1>3. CASE WriteRecord \/ WriteEndOfFile
    <2>1. NoDigits /\ UNCHANGED line
      BY <1>0, <1>1, <1>3 DEF WriteRecord, WriteEndOfFile, Speaking, MayWrite, boardVars
    <2>2. PICK text \in Seq(Pieces) : toBoard' = toBoard \o text /\ \A i \in 1 .. Len(text) : text[i].type # "digits"
      <3>1. CASE WriteRecord
        <4>1. PICK text \in Seq(Pieces) : OneColon(Record(idx), text) /\ toBoard' = toBoard \o text
          BY <3>1, RecordWritten
        <4>2. Record(idx).type = "data"
          BY DEF Record
        <4> QED BY <4>1, <4>2 DEF OneColon
      <3>2. CASE WriteEndOfFile
        <4>1. PICK text \in Seq(Pieces) : OneColon(EndOfFile, text) /\ toBoard' = toBoard \o text
          BY <3>2, EndOfFileWritten
        <4>2. EndOfFile.type = "eof"
          BY DEF EndOfFile, Piece
        <4> QED BY <4>1, <4>2 DEF OneColon
      <3> QED BY <1>3, <3>1, <3>2
    <2>3. Longer(Inbox', Inbox, text)
      BY <2>1, <2>2, Sent
    <2> QED BY <2>1, <2>2, <2>3, NoDigitsGrown, NoDigitsFirst
  <1>4. CASE Dies
    <2>1. UNCHANGED <<board, memory>>
      BY <1>4 DEF Dies, boardVars
    <2>2. InboxCut \/ \E key \in Pieces : Longer(Inbox', Inbox, <<key>>) /\ key.type # "digits"
      BY <1>4, DiesTyping
    <2> QED BY <1>0, <2>1, <2>2, DigitsKept
  <1>5. CASE ReadsCommand
    <2>1. /\ toBoard # <<>> /\ toBoard' = Tail(toBoard) /\ UNCHANGED memory
          /\ \/ line' = <<>>
             \/ (line' = line \/ line' = Append(line, Head(toBoard))) /\ UNCHANGED board
      BY <1>5 DEF ReadsCommand
    <2>2. CASE line' = <<>>
      <3>1. line \in Seq(Pieces) /\ toBoard \in Seq(Pieces)
        BY DEF TypeOK
      <3>2. Cut(Inbox', Inbox, 0, Len(line) + 1)
        BY <2>1, <2>2, <3>1, PieceTaken, FrontCut DEF Inbox
      <3>3. Len(line) \in Nat /\ Len(Inbox) \in Nat /\ Len(Inbox') \in Nat
        BY OfTheLine, BoxTypes
      <3>4. ASSUME NEW i \in 1 .. Len(Inbox'), Inbox'[i].type = "digits" PROVE FALSE
        <4>1. i + (Len(line) + 1) \in 1 .. Len(Inbox) /\ Inbox'[i] = Inbox[i + (Len(line) + 1)]
          BY <3>2, <3>3 DEF Cut
        <4>2. i + (Len(line) + 1) = 1
          BY <1>0, <3>4, <4>1 DEF DigitsFirst
        <4> QED BY <3>3, <4>2
      <3> QED BY <3>4 DEF DigitsFirst
    <2>3. CASE (line' = line \/ line' = Append(line, Head(toBoard))) /\ UNCHANGED board
      BY <1>0, <2>1, <2>3, PieceTaken, DigitsKept
    <2> QED BY <2>1, <2>2, <2>3
  <1>6. CASE ReadsRecord \/ ProgramReads \/ ProgramReturns
    <2>1. NoDigits /\ InboxCut
      BY <1>1, <1>6, BoardTakes, LineDropped DEF ReadsRecord, ProgramReads, ProgramReturns
    <2> QED BY <2>1, NoDigitsKept, NoDigitsFirst
  <1>7. CASE UNCHANGED <<line, toBoard, board, memory>>
    BY <1>0, <1>7, Kept, DigitsKept
  <1>8. \/ TypeCharacter \/ WriteRecord \/ WriteEndOfFile \/ Dies \/ ReadsCommand \/ ReadsRecord
        \/ ProgramReads \/ ProgramReturns \/ UNCHANGED <<line, toBoard, board, memory>>
    BY DEF Next, HostNext, BoardNext, StartUpload, Settle, ReadReady, ReadOther, ReadAccepted, ReadRejected,
           ReadReport, ReadRest, Timeout, Prints, LoseAnswer, Done, vars, boardVars
  <1> QED BY <1>2, <1>3, <1>4, <1>5, <1>6, <1>7, <1>8

\* The ends of a loader's line.
LEMMA LineEnds ==
  ASSUME TypeOK, ReadsRecord
  PROVE  \/ ~LineFeed(Head(toBoard)) /\ line' = Append(line, Head(toBoard)) /\ UNCHANGED <<printing, board, damaged, memory>>
         \/ LineFeed(Head(toBoard)) /\ line' = <<>> /\ Colons(line) = {} /\ UNCHANGED <<printing, board, memory>>
         \/ /\ LineFeed(Head(toBoard)) /\ line' = <<>> /\ Colons(line) # {}
            /\ \E rec \in Pieces :
                /\ rec = line[FirstColon(line)]
                /\ \/ rec.type = "bad" /\ Keeps(<<"X">>) /\ UNCHANGED <<board, damaged, memory>>
                   \/ rec.type = "data" /\ Keeps(<<".">>) /\ UNCHANGED <<board, damaged>>
                   \/ /\ rec.type = "eof" /\ board' = "prompt" /\ UNCHANGED <<damaged, memory>>
                      /\ Keeps(<<"Load", IF damaged THEN "error" ELSE "successful", "tail">>)
  <1>1. CASE LineFeed(Head(toBoard)) /\ line' = <<>> /\ Colons(line) # {} /\ LoadRecord(line[FirstColon(line)])
    <2> DEFINE rec == line[FirstColon(line)]
    <2>1. rec \in Pieces /\ rec.type \in {"bad", "data", "eof"} /\ LoadRecord(rec)
      BY <1>1, Found DEF TypeOK, Colon
    <2> HIDE DEF rec
    <2>2. \/ rec.type = "bad" /\ Keeps(<<"X">>) /\ UNCHANGED <<board, damaged, memory>>
          \/ rec.type = "data" /\ Keeps(<<".">>) /\ UNCHANGED <<board, damaged>>
          \/ /\ rec.type = "eof" /\ board' = "prompt" /\ UNCHANGED <<damaged, memory>>
             /\ Keeps(<<"Load", IF damaged THEN "error" ELSE "successful", "tail">>)
      BY <2>1 DEF LoadRecord
    <2> QED BY <1>1, <2>1, <2>2 DEF rec
  <1> QED BY <1>1 DEF ReadsRecord

LEMMA CompleteStep ==
  ASSUME TypeOK, TypeOK', Position, Sequential, Next, ~Reset
  PROVE  board' = "running" => Complete(started)'
  <1>0. DigitsFirst /\ (board = "running" => Complete(started))
    BY DEF Sequential
  <1>1. CASE ReadsCommand
    <2>0. UNCHANGED memory
      BY <1>1 DEF ReadsCommand
    <2>1. CASE board' # "running"
      BY <2>1
    <2>2. CASE Types(line) \in {<<"digits", "R">>, <<"R">>} /\ Len(line) = 2
               /\ started' = [upload |-> line[1].upload, addr |-> line[1].addr, len |-> line[1].len]
      <3>1. Len(Types(line)) = 2 /\ Types(line)[1] = line[1].type
        BY <2>2 DEF Types
      <3>2. line[1].type = "digits"
        BY <2>2, <3>1
      <3>3. 1 \in 1 .. Len(Inbox) /\ Inbox[1] = line[1]
        BY <2>2, OfTheLine
      <3>4. Complete(line[1])
        BY <1>0, <3>2, <3>3 DEF DigitsFirst
      <3> QED BY <2>0, <2>2, <3>4 DEF Complete, Program
    <2>3. CASE started' = NoProgram
      BY <2>3 DEF NoProgram, Complete, Program
    <2>4. board' = "running" => <<"digits", "R">> # <<"R">>
      OBVIOUS
    <2> QED BY <1>1, <2>1, <2>2, <2>3 DEF ReadsCommand, Command
  <1>2. CASE ReadsRecord
    BY <1>2, LineEnds DEF ReadsRecord
  <1>3. CASE ~ReadsCommand /\ ~ReadsRecord
    <2>1. board' = "running" => UNCHANGED <<board, started, memory>>
      BY <1>3 DEF Next, HostNext, BoardNext, StartUpload, Settle, TypeCharacter, WriteRecord, WriteEndOfFile,
           ReadReady, ReadOther, ReadAccepted, ReadRejected, ReadReport, ReadRest, Timeout, Dies,
           ProgramReads, ProgramReturns, Prints, LoseAnswer, Done, vars, boardVars
    <2> QED BY <1>0, <2>1 DEF Complete, Program
  <1> QED BY <1>1, <1>2, <1>3

LEMMA StoredStep ==
  ASSUME TypeOK, TypeOK', Position, Confined, Sequential, Next, ~Reset
  PROVE  Stored(reported)'
  <1>0. Stored(reported) /\ OneRecord /\ Speaking
    BY DEF Sequential
  <1>1. load \in Nat /\ reported \in Nat /\ size \in Nat /\ reported <= size /\ MemorySize \in Nat
    BY HexAssumption DEF TypeOK, Addresses
  <1>2. CASE ReadsRecord
    <2>1. UNCHANGED <<load, reported, upload, size>>
      BY <1>2 DEF ReadsRecord, hostVars
    <2>2. CASE UNCHANGED memory
      BY <1>0, <2>1, <2>2 DEF Stored
    <2>3. ASSUME NEW rec \in Pieces, Colons(line) # {}, rec = line[FirstColon(line)],
                 memory' = [a \in Addresses |-> IF rec.addr <= a /\ a < rec.addr + rec.len
                                                THEN rec.upload ELSE memory[a]]
          PROVE  Stored(reported)'
      <3>1. FirstColon(line) \in 1 .. Len(Inbox) /\ Inbox[FirstColon(line)] = rec /\ Colon(rec)
        BY <2>3, Found, OfTheLine DEF TypeOK
      <3>2. reported > 0 => rec.upload = upload /\ load + size <= MemorySize
        BY <1>0, <3>1 DEF OneRecord, Position, Fits
      <3>3. ASSUME NEW a \in load .. load + reported - 1 PROVE memory'[a] = upload
        <4>1. reported > 0 /\ a \in Addresses
          BY <1>1, <3>2, <3>3 DEF Addresses
        <4>2. memory[a] = upload
          BY <1>0, <3>3 DEF Stored
        <4>3. memory'[a] = rec.upload \/ memory'[a] = memory[a]
          BY <2>3, <4>1
        <4> QED BY <3>2, <4>1, <4>2, <4>3
      <3> QED BY <2>1, <3>3 DEF Stored
    <2> QED BY <1>2, Storing, <2>2, <2>3
  <1>3. CASE ReadAccepted
    <2>1. /\ toHost # <<>> /\ Head(toHost) = "." /\ UNCHANGED <<printing, load, upload, memory>>
          /\ toHost' = Tail(toHost) /\ reported' = BytesIn(idx) /\ host = "answer"
      BY <1>3 DEF ReadAccepted, Accepts, boardVars
    <2>2. Len(Outbox) >= 1 /\ Outbox[1] = "." /\ Len(Outbox) \in Nat
      BY <2>1, HeadHeard, BoxTypes
    <2>3. Stored(BytesIn(idx))
      BY <1>0, <2>1, <2>2 DEF Speaking, Answering
    <2> QED BY <2>1, <2>3 DEF Stored
  <1>4. CASE StartUpload
    <2>1. reported' = 0
      BY <1>4 DEF StartUpload
    <2>2. load' \in Addresses
      BY DEF TypeOK
    <2>3. load' \in Int
      BY <2>2, HexAssumption DEF Addresses
    <2>4. \A n \in Int : \A a \in n .. n + 0 - 1 : FALSE
      OBVIOUS
    <2> QED BY <2>1, <2>3, <2>4 DEF Stored
  <1>5. CASE UNCHANGED <<load, reported, upload, memory>>
    BY <1>0, <1>5 DEF Stored
  <1>6. ReadsRecord \/ ReadAccepted \/ StartUpload \/ UNCHANGED <<load, reported, upload, memory>>
    BY DEF Next, HostNext, BoardNext, Settle, TypeCharacter, WriteRecord, WriteEndOfFile, ReadReady, ReadOther,
         ReadRejected, ReadReport, ReadRest, Timeout, Dies, ReadsCommand, ProgramReads, ProgramReturns,
         Prints, LoseAnswer, Done, vars, hostVars, boardVars
  <1> QED BY <1>2, <1>3, <1>4, <1>5, <1>6

(***************************************************************************)
(* While nobody presses reset: who speaks                                  *)
(***************************************************************************)

\* The steps of the board, and those that read or lose an answer.
BoardStep == ReadsCommand \/ ReadsRecord \/ ProgramReads \/ ProgramReturns \/ Prints \/ LoseAnswer

LEMMA TailsKept ==
  ASSUME TypeOK, TypeOK', OutboxCut, OnlyTails(Outbox) PROVE OnlyTails(Outbox)'
  <1>1. PICK k, d \in Nat : Cut(Outbox', Outbox, k, d)
    BY DEF OutboxCut
  <1>2. Len(Outbox) \in Nat /\ Len(Outbox') \in Nat
    BY BoxTypes
  <1> QED BY <1>1, <1>2 DEF Cut, OnlyTails

LEMMA HostOf ==
  ASSUME Next, ~Reset
  PROVE  /\ host' \in {"write", "eof"} => ReadReady \/ ReadAccepted \/ ReadRejected \/ (BoardStep /\ UNCHANGED hostVars)
         /\ host' = "answer" => WriteRecord \/ ReadOther \/ (BoardStep /\ UNCHANGED hostVars)
         /\ host' \in {"report", "rest"} => WriteEndOfFile \/ ReadReport \/ ReadRest \/ (BoardStep /\ UNCHANGED hostVars)
         /\ host' \in Starting => Settle \/ TypeCharacter \/ ReadRest \/ Timeout \/ (BoardStep /\ UNCHANGED hostVars)
  <1>1. ASSUME BoardStep PROVE UNCHANGED hostVars
    BY <1>1 DEF BoardStep, ReadsCommand, ReadsRecord, ProgramReads, ProgramReturns, Prints, LoseAnswer
  <1>2. CASE StartUpload BY <1>2 DEF StartUpload, Starting
  <1>3. CASE Settle BY <1>3 DEF Settle, After, Starting
  <1>4. CASE TypeCharacter BY <1>4 DEF TypeCharacter, Typing, After, Starting
  <1>5. CASE WriteRecord BY <1>5 DEF WriteRecord, Starting
  <1>6. CASE WriteEndOfFile BY <1>6 DEF WriteEndOfFile, Starting
  <1>7. CASE ReadReady BY <1>7 DEF ReadReady, Starting
  <1>8. CASE ReadOther BY <1>8 DEF ReadOther, hostVars, Starting
  <1>9. CASE ReadAccepted BY <1>9 DEF ReadAccepted, Starting
  <1>10. CASE ReadRejected BY <1>10 DEF ReadRejected, Starting
  <1>11. CASE ReadReport BY <1>11 DEF ReadReport, Starting
  <1>12. CASE ReadRest BY <1>12 DEF ReadRest, Judge, Starting
  <1>13. CASE Timeout BY <1>13 DEF Timeout, Waiting, Judge, Starting
  <1>14. CASE Dies BY <1>14 DEF Dies, Starting
  <1>15. CASE Done BY <1>15 DEF Done, vars, hostVars, Starting
  <1> QED BY <1>1, <1>2, <1>3, <1>4, <1>5, <1>6, <1>7, <1>8, <1>9, <1>10, <1>11, <1>12, <1>13, <1>14, <1>15
          DEF Next, HostNext, BoardNext, BoardStep

\* A reader of answers is left with tails.
LEMMA AnswerTaken ==
  ASSUME TypeOK, TypeOK', Answering, UNCHANGED printing, toHost # <<>>, toHost' = Tail(toHost), Head(toHost) # "tail"
  PROVE  NoRecord /\ OnlyTails(Outbox)'
  <1>1. /\ Cut(Outbox', Outbox, 0, 1) /\ Len(Outbox) >= 1 /\ Outbox[1] # "tail"
        /\ Len(Outbox) \in Nat /\ Len(Outbox') \in Nat
    BY HeadHeard, BoxTypes
  <1>2. NoRecord
    BY <1>1 DEF Answering, NoRecord, OnlyTails
  <1>3. \A j \in 1 + 1 .. Len(Outbox) : Outbox[j] = "tail"
    BY <1>1 DEF Answering
  <1>4. \A i \in 1 .. Len(Outbox') : Outbox'[i] = "tail"
    BY <1>1, <1>3 DEF Cut
  <1> QED BY <1>2, <1>4 DEF OnlyTails

LEMMA MayWriteStep ==
  ASSUME TypeOK, TypeOK', Position, Sequential, Next, ~Reset, host' \in {"write", "eof"}
  PROVE  MayWrite'
  <1>0. OneReady /\ Speaking
    BY DEF Sequential
  <1>1. CASE ReadReady
    <2>1. PICK k \in 1 .. Len(toHost) : toHost' = SubSeq(toHost, k + 1, Len(toHost)) /\ Holds(Chunk(k), "READY")
      BY <1>1 DEF ReadReady
    <2>2. UNCHANGED <<printing, board, line, toBoard>> /\ toHost \in Seq(Words) /\ printing \in Seq(Words)
      BY <1>1 DEF ReadReady, boardVars, TypeOK
    <2>3. k \in 0 .. Len(toHost) /\ k \in Nat /\ Len(toHost) \in Nat
      BY <2>1, <2>2
    <2>4. PICK i \in 1 .. k : toHost[i] = "READY"
      <3>1. Len(Chunk(k)) = k /\ \A n \in 1 .. k : Chunk(k)[n] = toHost[n]
        BY <2>2, <2>3 DEF Chunk
      <3> QED BY <2>1, <3>1 DEF Holds
    <2>5. i \in 1 .. Len(Outbox) /\ Outbox[i] = "READY" /\ Len(Outbox) \in Nat /\ Len(Outbox') \in Nat
      <3>1. i \in 1 .. Len(Outbox) /\ Outbox[i] = toHost[i]
        BY <2>2, <2>3 DEF Outbox
      <3> QED BY <2>4, <3>1, BoxTypes
    <2>6. board = "loading" /\ NoRecord /\ \A j \in i + 1 .. Len(Outbox) : Outbox[j] = "tail"
      BY <1>0, <2>5 DEF OneReady, NoRecord
    <2>7. Cut(Outbox', Outbox, 0, k)
      BY <2>1, <2>2, <2>3, HeardCut
    <2>8. \A n \in 1 .. Len(Outbox') : Outbox'[n] = "tail"
      <3>1. \A n \in 1 .. Len(Outbox') : n + k \in i + 1 .. Len(Outbox) /\ Outbox'[n] = Outbox[n + k]
        BY <2>3, <2>4, <2>5, <2>7 DEF Cut
      <3> QED BY <2>6, <3>1
    <2>9. Inbox' = Inbox
      BY <2>2, Kept
    <2> QED BY <2>2, <2>6, <2>8, <2>9 DEF MayWrite, OnlyTails, NoRecord
  <1>2. CASE ReadAccepted \/ ReadRejected
    <2>1. /\ toHost # <<>> /\ Head(toHost) # "tail" /\ toHost' = Tail(toHost) /\ host = "answer"
          /\ UNCHANGED <<printing, board, line, toBoard>>
      BY <1>2 DEF ReadAccepted, Accepts, ReadRejected, boardVars
    <2>2. Answering
      BY <1>0, <2>1 DEF Speaking
    <2>3. NoRecord /\ OnlyTails(Outbox)'
      BY <2>1, <2>2, AnswerTaken
    <2>4. Inbox' = Inbox
      BY <2>1, Kept
    <2> QED BY <2>1, <2>2, <2>3, <2>4 DEF MayWrite, Answering, NoRecord
  <1>3. CASE BoardStep /\ UNCHANGED hostVars
    <2>1. MayWrite
      BY <1>0, <1>3 DEF hostVars, Speaking
    <2>2. Fewer(Inbox', Inbox)
      <3>1. ~WriteRecord /\ ~WriteEndOfFile
        BY <1>3 DEF hostVars, WriteRecord, WriteEndOfFile
      <3> QED BY <3>1, RecordsFewer
    <2>3. NoRecord'
      BY <2>1, <2>2, NoRecordKept DEF MayWrite
    <2>4. CASE ReadsRecord
      <3>1. Colons(line) = {}
        <4>1. Colons(line) # {} => ~NoRecord
          BY Found, OfTheLine DEF TypeOK, NoRecord
        <4> QED BY <2>1, <4>1 DEF MayWrite
      <3>2. UNCHANGED <<printing, board, toHost>>
        BY <2>4, <3>1 DEF ReadsRecord
      <3> QED BY <2>1, <2>3, <3>2, Kept, TailsKept DEF MayWrite
    <2>5. CASE Prints \/ LoseAnswer
      <3>1. OutboxCut /\ UNCHANGED board
        BY <2>5, PrintedKept, LostCut DEF Prints, LoseAnswer
      <3> QED BY <2>1, <2>3, <3>1, TailsKept DEF MayWrite
    <2> QED BY <1>3, <2>1, <2>4, <2>5 DEF BoardStep, MayWrite, ReadsCommand, ProgramReads, ProgramReturns
  <1> QED BY <1>1, <1>2, <1>3, HostOf

LEMMA AnsweringKept ==
  ASSUME TypeOK, TypeOK', Answering, InboxCut, OutboxCut, UNCHANGED <<board, load, size, idx, upload, memory>>
  PROVE  Answering'
  <1>1. PICK k, d \in Nat : Cut(Inbox', Inbox, k, d)
    BY DEF InboxCut
  <1>2. PICK m, e \in Nat : Cut(Outbox', Outbox, m, e)
    BY DEF OutboxCut
  <1>3. Len(Inbox) \in Nat /\ Len(Inbox') \in Nat /\ Len(Outbox) \in Nat /\ Len(Outbox') \in Nat
    BY BoxTypes
  <1>4. Record(idx)' = Record(idx) /\ Stored(BytesIn(idx))' = Stored(BytesIn(idx))
    BY DEF Record, BytesIn, Stored
  <1>5. ASSUME NEW i \in 1 .. Len(Inbox'), Colon(Inbox'[i])
        PROVE  (Inbox'[i].type = "bad" \/ Inbox'[i] = Record(idx)) /\ OnlyTails(Outbox)'
    <2>1. PICK n \in 1 .. Len(Inbox) : Inbox'[i] = Inbox[n]
      BY <1>1, <1>3 DEF Cut
    <2>2. (Inbox[n].type = "bad" \/ Inbox[n] = Record(idx)) /\ OnlyTails(Outbox)
      BY <1>5, <2>1 DEF Answering
    <2> QED BY <2>1, <2>2, TailsKept
  <1>6. ASSUME NEW i \in 1 .. Len(Outbox')
        PROVE  /\ Outbox'[i] \in {"tail", ".", "X"}
               /\ Outbox'[i] # "tail" => \A j \in i + 1 .. Len(Outbox') : Outbox'[j] = "tail"
               /\ Outbox'[i] = "." => Stored(BytesIn(idx))
    <2> DEFINE At(n) == IF n <= m THEN n ELSE n + e
    <2>1. \A n \in 1 .. Len(Outbox') : At(n) \in 1 .. Len(Outbox) /\ Outbox'[n] = Outbox[At(n)]
      BY <1>2, <1>3 DEF Cut
    <2>2. \A n \in i + 1 .. Len(Outbox') : n \in 1 .. Len(Outbox') /\ At(n) \in At(i) + 1 .. Len(Outbox)
      BY <1>2, <1>3 DEF Cut
    <2> HIDE DEF At
    <2> QED BY <2>1, <2>2 DEF Answering
  <1> QED BY <1>4, <1>5, <1>6 DEF Answering

\* The record send_record has just written, after nothing but tails.
LEMMA AnsweringWritten ==
  ASSUME TypeOK, TypeOK', Position, MayWrite, WriteRecord
  PROVE  Answering'
  <1>1. PICK text \in Seq(Pieces) : OneColon(Record(idx), text) /\ toBoard' = toBoard \o text
    BY RecordWritten
  <1>2. UNCHANGED <<upload, load, size, idx, line, board, toHost, printing>> /\ board = "loading"
    BY DEF WriteRecord, boardVars, MayWrite
  <1>3. Longer(Inbox', Inbox, text) /\ Outbox' = Outbox
    BY <1>1, <1>2, Sent, Kept
  <1>4. Record(idx)' = Record(idx)
    BY <1>2 DEF Record, BytesIn
  <1>5. Len(Inbox) \in Nat /\ Len(Inbox') \in Nat /\ Len(Inbox') = Len(Inbox) + Len(text) /\ Len(text) \in Nat
    BY <1>3, BoxTypes DEF Longer
  <1>6. OnlyTails(Outbox)' /\ OnlyTails(Outbox')
    BY <1>3 DEF MayWrite, OnlyTails
  <1>7. ASSUME NEW i \in 1 .. Len(Inbox'), Colon(Inbox'[i])
        PROVE  Inbox'[i].type = "bad" \/ Inbox'[i] = Record(idx)
    <2>1. i > Len(Inbox)
      BY <1>3, <1>5, <1>7 DEF Longer, MayWrite, NoRecord
    <2>2. i - Len(Inbox) \in 1 .. Len(text) /\ i = Len(Inbox) + (i - Len(Inbox))
      BY <1>5, <2>1
    <2>3. Inbox'[i] = text[i - Len(Inbox)]
      BY <1>3, <2>2 DEF Longer
    <2> QED BY <1>1, <1>7, <2>2, <2>3 DEF OneColon
  <1>8. \A i \in 1 .. Len(Outbox') : Outbox'[i] = "tail" /\ \A j \in i + 1 .. Len(Outbox') : Outbox'[j] = "tail"
    <2>1. Len(Outbox') \in Nat
      BY BoxTypes
    <2> QED BY <1>6, <2>1 DEF OnlyTails
  <1> QED BY <1>2, <1>4, <1>6, <1>7, <1>8 DEF Answering

\* A word after nothing but tails is the last but tails, and there is no other.
LEMMA LastWord ==
  ASSUME TypeOK, TypeOK', OnlyTails(Outbox), NEW word, Longer(Outbox', Outbox, <<word>>)
  PROVE  \A i \in 1 .. Len(Outbox') :
            /\ Outbox'[i] \in {"tail", word}
            /\ Outbox'[i] # "tail" => \A j \in i + 1 .. Len(Outbox') : Outbox'[j] = "tail"
  <1>1. Len(Outbox) \in Nat /\ Len(Outbox') = Len(Outbox) + 1 /\ Outbox'[Len(Outbox) + 1] = word
    BY BoxTypes DEF Longer
  <1>2. \A i \in 1 .. Len(Outbox) : Outbox'[i] = "tail"
    BY DEF Longer, OnlyTails
  <1>3. \A i \in 1 .. Len(Outbox') : i \in 1 .. Len(Outbox) \/ i = Len(Outbox) + 1
    BY <1>1
  <1>4. \A j \in Len(Outbox) + 1 + 1 .. Len(Outbox') : FALSE
    BY <1>1
  <1> QED BY <1>1, <1>2, <1>3, <1>4

\* The bytes stored and the record that comes after them.
LEMMA RecordStored ==
  ASSUME TypeOK, Fits(load, size), idx \in 1 .. NumRecords, Stored(BytesIn(idx - 1)),
         UNCHANGED <<load, size, upload>>,
         memory' = [a \in Addresses |-> IF Record(idx).addr <= a /\ a < Record(idx).addr + Record(idx).len
                                        THEN Record(idx).upload ELSE memory[a]]
  PROVE  \A a \in load .. load + BytesIn(idx) - 1 : memory'[a] = upload
  <1> DEFINE rec == Record(idx)
  <1>1. /\ rec.upload = upload /\ rec.addr = load + BytesIn(idx - 1)
        /\ rec.len = BytesIn(idx) - BytesIn(idx - 1) /\ rec.addr + rec.len <= load + size
    BY RecordPlace
  <1>2. load \in Nat /\ size \in Nat /\ MemorySize \in Nat /\ load + size <= MemorySize
    BY HexAssumption DEF TypeOK, Addresses, Fits
  <1>3. idx \in Nat /\ idx - 1 \in Nat
    BY <1>2, RecordsType
  <1>4. BytesIn(idx) \in 0 .. size /\ BytesIn(idx - 1) \in 0 .. size
    BY <1>2, <1>3, BytesType
  <1>5. memory' = [a \in Addresses |-> IF rec.addr <= a /\ a < rec.addr + rec.len THEN rec.upload ELSE memory[a]]
    OBVIOUS
  <1> HIDE DEF rec
  <1>6. ASSUME NEW a \in load .. load + BytesIn(idx) - 1 PROVE memory'[a] = upload
    <2>1. a \in Addresses
      BY <1>2, <1>4 DEF Addresses
    <2>2. CASE a < rec.addr
      <3>1. a \in load .. load + BytesIn(idx - 1) - 1
        BY <1>1, <1>2, <1>4, <2>2
      <3>2. memory[a] = upload
        BY <3>1 DEF Stored
      <3>3. ~(rec.addr <= a)
        BY <1>1, <1>2, <1>4, <2>2
      <3> QED BY <1>5, <2>1, <3>2, <3>3
    <2>3. CASE ~(a < rec.addr)
      <3>1. rec.addr <= a /\ a < rec.addr + rec.len
        BY <1>1, <1>2, <1>4, <2>3
      <3> QED BY <1>1, <1>5, <2>1, <3>1
    <2> QED BY <2>2, <2>3
  <1> QED BY <1>6

LEMMA AnsweringStep ==
  ASSUME TypeOK, TypeOK', Position, Confined, Sequential, Next, ~Reset, host' = "answer"
  PROVE  Answering'
  <1>0. OneRecord /\ Speaking /\ Stored(reported)
    BY DEF Sequential
  <1>1. CASE WriteRecord
    BY <1>0, <1>1, AnsweringWritten DEF Speaking, WriteRecord
  <1>2. CASE ReadOther
    <2>1. Answering /\ UNCHANGED <<hostVars, toBoard, boardVars>> /\ toHost # <<>> /\ toHost' = Tail(toHost)
      BY <1>0, <1>2 DEF Speaking, ReadOther
    <2>2. InboxCut /\ OutboxCut
      BY <2>1, Kept, HeadHeard DEF boardVars
    <2> QED BY <2>1, <2>2, AnsweringKept DEF hostVars, boardVars, Answering
  <1>3. CASE BoardStep /\ UNCHANGED hostVars
    <2>1. Answering /\ UNCHANGED <<load, size, idx, upload, reported, host>> /\ host = "answer"
      BY <1>0, <1>3 DEF Speaking, hostVars
    <2>2. CASE Prints \/ LoseAnswer
      <3>1. InboxCut /\ OutboxCut /\ UNCHANGED <<board, memory>>
        BY <2>2, Kept, PrintedKept, LostCut DEF Prints, LoseAnswer
      <3> QED BY <2>1, <3>1, AnsweringKept
    <2>3. CASE ReadsRecord
      <3>0. board = "loading" /\ toBoard # <<>> /\ toBoard' = Tail(toBoard) /\ UNCHANGED toHost
        BY <2>3 DEF ReadsRecord
      <3>1. CASE UNCHANGED <<printing, board, memory>>
        <4>1. InboxCut /\ OutboxCut
          BY <2>3, <3>0, <3>1, BoardTakes, Kept
        <4> QED BY <2>1, <3>1, <4>1, AnsweringKept
      <3>2. ASSUME NEW rec \in Pieces, line' = <<>>, Colons(line) # {}, rec = line[FirstColon(line)],
                   LineFeed(Head(toBoard)),
                   \/ rec.type = "bad" /\ Keeps(<<"X">>) /\ UNCHANGED <<board, damaged, memory>>
                   \/ rec.type = "data" /\ Keeps(<<".">>) /\ UNCHANGED <<board, damaged>>
                   \/ rec.type = "eof"
            PROVE  Answering'
        <4>1. NoRecord'
          BY <1>0, <2>3, <3>2, RecordTaken
        <4>2. FirstColon(line) \in 1 .. Len(Inbox) /\ Inbox[FirstColon(line)] = rec /\ Colon(rec)
          BY <3>2, Found, OfTheLine DEF TypeOK
        <4>3. (rec.type = "bad" \/ rec = Record(idx)) /\ OnlyTails(Outbox)
          BY <2>1, <4>2 DEF Answering
        <4>4. Record(idx).type = "data"
          BY DEF Record
        <4>5. PICK word \in {".", "X"} : Keeps(<<word>>) /\ UNCHANGED board /\ (word = "." => rec = Record(idx))
          BY <3>2, <4>3, <4>4
        <4>6. Longer(Outbox', Outbox, <<word>>)
          <5>1. <<word>> \in Seq(Words)
            BY DEF Words
          <5> QED BY <3>0, <4>5, <5>1, Told
        <4>7. word = "." => \A a \in load .. load + BytesIn(idx) - 1 : memory'[a] = upload
          <5>1. SUFFICES ASSUME word = "." PROVE \A a \in load .. load + BytesIn(idx) - 1 : memory'[a] = upload
            OBVIOUS
          <5>2. Fits(load, size) /\ idx \in 1 .. NumRecords /\ reported = BytesIn(idx - 1)
            BY <2>1 DEF Position
          <5>4. memory' = [a \in Addresses |-> IF rec.addr <= a /\ a < rec.addr + rec.len
                                                THEN rec.upload ELSE memory[a]]
            BY <2>3, <3>2, <4>4, <4>5, <5>1, RecordRead
          <5>5. Stored(BytesIn(idx - 1))
            BY <1>0, <5>2
          <5> QED BY <2>1, <4>5, <5>1, <5>2, <5>4, <5>5, RecordStored
        <4>8. Stored(BytesIn(idx))' = \A a \in load .. load + BytesIn(idx) - 1 : memory'[a] = upload
          BY <2>1 DEF Stored, BytesIn
        <4>9. \A i \in 1 .. Len(Outbox') :
                  /\ Outbox'[i] \in {"tail", word}
                  /\ Outbox'[i] # "tail" => \A j \in i + 1 .. Len(Outbox') : Outbox'[j] = "tail"
          BY <4>3, <4>6, LastWord
        <4>10. board' = "loading"
          BY <3>0, <4>5
        <4> QED BY <4>1, <4>5, <4>7, <4>8, <4>9, <4>10 DEF Answering, NoRecord
      <3> QED BY <2>3, <3>1, <3>2, LineEnds
    <2>4. CASE ReadsCommand \/ ProgramReads \/ ProgramReturns
      BY <2>1, <2>4 DEF Answering, ReadsCommand, ProgramReads, ProgramReturns
    <2> QED BY <1>3, <2>2, <2>3, <2>4 DEF BoardStep
  <1> QED BY <1>1, <1>2, <1>3, HostOf

\* What has been read and what has not: reading moves the line between them.
LEMMA Reading ==
  ASSUME TypeOK, UNCHANGED printing, NEW k \in 0 .. Len(toHost),
         toHost' = SubSeq(toHost, k + 1, Len(toHost)), seen' = seen \o Chunk(k)
  PROVE  seen' \o Outbox' = seen \o Outbox
  <1>1. seen \in Seq(Words) /\ toHost \in Seq(Words) /\ printing \in Seq(Words)
    BY DEF TypeOK
  <1>2. Chunk(k) \in Seq(Words) /\ toHost' \in Seq(Words)
    BY Moved
  <1>3. Chunk(k) \o toHost' = toHost
    <2>1. 1 \in 1 .. Len(toHost) + 1 /\ k \in 1 - 1 .. Len(toHost) /\ Len(toHost) \in k .. Len(toHost)
      BY <1>1
    <2>2. Chunk(k) \o toHost' = SubSeq(toHost, 1, Len(toHost))
      BY <1>1, <2>1, ConcatAdjacentSubSeq DEF Chunk
    <2> QED BY <1>1, <2>2, SubSeqFull
  <1> DEFINE x == seen
             y == Chunk(k)
             z == toHost'
             w == printing
             p == x \o y
             q == y \o z
  <1>4. x \in Seq(Words) /\ y \in Seq(Words) /\ z \in Seq(Words) /\ w \in Seq(Words)
    BY <1>1, <1>2
  <1> HIDE DEF x, y, z, w
  <1>6. p \in Seq(Words) /\ q \in Seq(Words)
    BY <1>4
  <1>7. Grouped(x, y, z)
    BY ONLY <1>4, Regroup
  <1> HIDE DEF p, q
  <1>8. Grouped(p, z, w) /\ Grouped(x, q, w)
    BY ONLY <1>4, <1>6, Regroup
  <1>9. p \o z = x \o q
    BY ONLY <1>7, Zenon DEF Grouped, p, q
  <1>10. p \o (z \o w) = x \o (q \o w)
    BY ONLY <1>8, <1>9, Zenon DEF Grouped
  <1>11. seen' \o Outbox' = p \o (z \o w)
    BY DEF p, x, y, z, w, Outbox
  <1>12. seen \o Outbox = x \o (q \o w)
    BY <1>3 DEF q, x, y, z, w, Outbox
  <1> QED BY <1>10, <1>11, <1>12

LEMMA HoldsBoth ==
  ASSUME NEW S, NEW a \in Seq(S), NEW b \in Seq(S), NEW word
  PROVE  Holds(a \o b, word) <=> Holds(a, word) \/ Holds(b, word)
  <1>1. /\ Len(a) \in Nat /\ Len(b) \in Nat /\ Len(a \o b) = Len(a) + Len(b)
        /\ \A i \in 1 .. Len(a) : (a \o b)[i] = a[i]
        /\ \A i \in 1 .. Len(b) : (a \o b)[Len(a) + i] = b[i]
    OBVIOUS
  <1>2. ASSUME Holds(a \o b, word) PROVE Holds(a, word) \/ Holds(b, word)
    <2>1. PICK i \in 1 .. Len(a \o b) : (a \o b)[i] = word
      BY <1>2 DEF Holds
    <2>2. CASE i <= Len(a)
      BY <1>1, <2>1, <2>2 DEF Holds
    <2>3. CASE i > Len(a)
      <3>1. i - Len(a) \in 1 .. Len(b) /\ i = Len(a) + (i - Len(a))
        BY <1>1, <2>1, <2>3
      <3> QED BY <1>1, <2>1, <3>1 DEF Holds
    <2> QED BY <1>1, <2>1, <2>2, <2>3
  <1>3. ASSUME Holds(a, word) PROVE Holds(a \o b, word)
    BY <1>1, <1>3 DEF Holds
  <1>4. ASSUME Holds(b, word) PROVE Holds(a \o b, word)
    <2>1. PICK i \in 1 .. Len(b) : b[i] = word
      BY <1>4 DEF Holds
    <2>2. Len(a) + i \in 1 .. Len(a \o b)
      BY <1>1
    <2> QED BY <1>1, <2>1, <2>2 DEF Holds
  <1> QED BY <1>2, <1>3, <1>4

LEMMA HeldBefore ==
  ASSUME TypeOK, TypeOK', NEW word
  PROVE  /\ OutboxCut => (Holds(Outbox', word) => Holds(Outbox, word))
         /\ \A other : Longer(Outbox', Outbox, <<other>>) /\ other # word =>
                (Holds(Outbox', word) => Holds(Outbox, word))
  <1>1. Len(Outbox) \in Nat /\ Len(Outbox') \in Nat
    BY BoxTypes
  <1>2. ASSUME OutboxCut PROVE Holds(Outbox', word) => Holds(Outbox, word)
    <2>1. PICK k, d \in Nat : Cut(Outbox', Outbox, k, d)
      BY <1>2 DEF OutboxCut
    <2> QED BY <1>1, <2>1 DEF Cut, Holds
  <1>3. ASSUME NEW other, Longer(Outbox', Outbox, <<other>>), other # word
        PROVE  Holds(Outbox', word) => Holds(Outbox, word)
    <2>1. Len(Outbox') = Len(Outbox) + 1 /\ Outbox'[Len(Outbox) + 1] = other
      BY <1>1, <1>3 DEF Longer
    <2>2. \A i \in 1 .. Len(Outbox) : Outbox'[i] = Outbox[i]
      BY <1>3 DEF Longer
    <2>3. \A i \in 1 .. Len(Outbox') : i \in 1 .. Len(Outbox) \/ i = Len(Outbox) + 1
      BY <1>1, <2>1
    <2> QED BY <1>3, <2>1, <2>2, <2>3 DEF Holds
  <1> QED BY <1>2, <1>3

LEMMA LastRecordCut ==
  ASSUME TypeOK, TypeOK', LastRecord(Inbox), InboxCut PROVE LastRecord(Inbox')
  <1>1. PICK k, d \in Nat : Cut(Inbox', Inbox, k, d)
    BY DEF InboxCut
  <1>2. Len(Inbox) \in Nat /\ Len(Inbox') \in Nat
    BY BoxTypes
  <1> DEFINE At(n) == IF n <= k THEN n ELSE n + d
  <1>3. \A n \in 1 .. Len(Inbox') : At(n) \in 1 .. Len(Inbox) /\ Inbox'[n] = Inbox[At(n)]
    BY <1>1, <1>2 DEF Cut
  <1>4. \A i \in 1 .. Len(Inbox') : \A n \in i + 1 .. Len(Inbox') :
            n \in 1 .. Len(Inbox') /\ At(n) \in At(i) + 1 .. Len(Inbox) /\ (At(n) = Len(Inbox) => n = Len(Inbox'))
    BY <1>1, <1>2 DEF Cut
  <1> HIDE DEF At
  <1>5. ASSUME NEW i \in 1 .. Len(Inbox'), Colon(Inbox'[i])
        PROVE  /\ Inbox'[i].type \in {"bad", "eof"}
               /\ Inbox'[i].type = "eof" => \A j \in i + 1 .. Len(Inbox') : LineFeed(Inbox'[j]) => j = Len(Inbox')
    BY <1>3, <1>4, <1>5 DEF LastRecord
  <1> QED BY <1>5 DEF LastRecord

LEMMA LastRecordWritten ==
  ASSUME TypeOK, TypeOK', NoRecord, NEW rec, rec.type = "eof", NEW text \in Seq(Pieces),
         OneColon(rec, text), Longer(Inbox', Inbox, text)
  PROVE  LastRecord(Inbox')
  <1>1. Len(Inbox) \in Nat /\ Len(Inbox') \in Nat /\ Len(Inbox') = Len(Inbox) + Len(text) /\ Len(text) \in Nat
    BY BoxTypes DEF Longer
  <1>2. ASSUME NEW i \in Len(Inbox) + 1 .. Len(Inbox')
        PROVE  i - Len(Inbox) \in 1 .. Len(text) /\ Inbox'[i] = text[i - Len(Inbox)]
    <2>1. i - Len(Inbox) \in 1 .. Len(text) /\ i = Len(Inbox) + (i - Len(Inbox))
      BY <1>1
    <2> QED BY <2>1 DEF Longer
  <1>3. ASSUME NEW i \in 1 .. Len(Inbox'), Colon(Inbox'[i]) PROVE i \in Len(Inbox) + 1 .. Len(Inbox')
    BY <1>1, <1>3 DEF Longer, NoRecord
  <1>4. ASSUME NEW i \in 1 .. Len(Inbox'), Colon(Inbox'[i])
        PROVE  /\ Inbox'[i].type \in {"bad", "eof"}
               /\ Inbox'[i].type = "eof" => \A j \in i + 1 .. Len(Inbox') : LineFeed(Inbox'[j]) => j = Len(Inbox')
    <2>1. i - Len(Inbox) \in 1 .. Len(text) /\ Inbox'[i] = text[i - Len(Inbox)]
      BY <1>2, <1>3, <1>4
    <2>2. Inbox'[i].type \in {"bad", "eof"}
      BY <1>4, <2>1 DEF OneColon
    <2>3. ASSUME Inbox'[i].type = "eof", NEW j \in i + 1 .. Len(Inbox'), LineFeed(Inbox'[j]) PROVE j = Len(Inbox')
      <3>1. j \in Len(Inbox) + 1 .. Len(Inbox')
        BY <1>1, <1>3, <1>4
      <3>2. j - Len(Inbox) \in 1 .. Len(text) /\ Inbox'[j] = text[j - Len(Inbox)]
        BY <1>2, <3>1
      <3>3. i - Len(Inbox) < j - Len(Inbox)
        BY <1>1
      <3>4. j - Len(Inbox) = Len(text)
        BY <2>1, <2>3, <3>2, <3>3 DEF OneColon
      <3> QED BY <1>1, <3>4
    <2> QED BY <2>2, <2>3
  <1> QED BY <1>4 DEF LastRecord

LEMMA ReportingStep ==
  ASSUME TypeOK, TypeOK', Position, Sequential, Next, ~Reset, host' \in {"report", "rest"}
  PROVE  Reporting'
  <1>0. OneRecord /\ Speaking
    BY DEF Sequential
  <1> DEFINE Heard == Holds(seen, "successful") \/ Holds(Outbox, "successful")
             Heard1 == Holds(seen', "successful") \/ Holds(Outbox', "successful")
  <1>1. Reporting <=> /\ board = "loading" \/ (board = "prompt" /\ Inbox = <<>>)
                      /\ LastRecord(Inbox) /\ (Heard => board = "prompt")
    BY DEF Reporting
  <1>2. Reporting' <=> /\ board' = "loading" \/ (board' = "prompt" /\ Inbox' = <<>>)
                       /\ LastRecord(Inbox') /\ (Heard1 => board' = "prompt")
    BY DEF Reporting, LastRecord, Holds
  <1> HIDE DEF Heard
  <1>3. CASE WriteEndOfFile
    <2>1. PICK text \in Seq(Pieces) : OneColon(EndOfFile, text) /\ toBoard' = toBoard \o text
      BY <1>3, EndOfFileWritten
    <2>2. UNCHANGED <<line, board, toHost, printing>> /\ seen' = <<>> /\ MayWrite
      BY <1>0, <1>3 DEF WriteEndOfFile, boardVars, Speaking
    <2>3. LastRecord(Inbox')
      <3>1. EndOfFile.type = "eof" /\ Longer(Inbox', Inbox, text)
        BY <2>1, <2>2, Sent DEF EndOfFile, Piece
      <3> QED BY <2>1, <2>2, <3>1, LastRecordWritten DEF MayWrite
    <2>4. ~Heard1
      BY <2>2, Kept DEF MayWrite, OnlyTails, Holds
    <2> QED BY <1>2, <2>2, <2>3, <2>4 DEF MayWrite
  <1>4. CASE ReadReport \/ ReadRest
    <2>1. PICK k \in 0 .. Len(toHost) : toHost' = SubSeq(toHost, k + 1, Len(toHost)) /\ seen' = seen \o Chunk(k)
      <3>1. \A n \in 1 .. Len(toHost) : n \in 0 .. Len(toHost)
        OBVIOUS
      <3> QED BY <1>4, <3>1 DEF ReadReport, ReadRest
    <2>2. Reporting /\ UNCHANGED <<printing, board, line, toBoard>>
      BY <1>0, <1>4 DEF ReadReport, ReadRest, boardVars, Speaking
    <2>3. Heard1 => Heard
      <3>1. seen' \o Outbox' = seen \o Outbox
        BY <2>1, <2>2, Reading
      <3>2. seen \in Seq(Words) /\ seen' \in Seq(Words) /\ Outbox \in Seq(Words) /\ Outbox' \in Seq(Words)
        BY BoxTypes DEF TypeOK
      <3>3. Heard1 => Holds(seen' \o Outbox', "successful")
        BY <3>2, HoldsBoth
      <3>4. Holds(seen \o Outbox, "successful") => Heard
        BY <3>2, HoldsBoth DEF Heard
      <3> QED BY <3>1, <3>3, <3>4
    <2> QED BY <1>1, <1>2, <2>2, <2>3, Kept
  <1>5. CASE BoardStep /\ UNCHANGED hostVars
    <2>1. Reporting /\ UNCHANGED seen
      BY <1>0, <1>5 DEF Speaking, hostVars
    <2>2. CASE Prints \/ LoseAnswer
      <3>1. OutboxCut /\ UNCHANGED <<board, line, toBoard>>
        BY <2>2, PrintedKept, LostCut DEF Prints, LoseAnswer
      <3>2. Heard1 => Heard
        BY <2>1, <3>1, HeldBefore DEF Heard
      <3> QED BY <1>1, <1>2, <2>1, <3>1, <3>2, Kept
    <2>3. CASE ReadsRecord
      <3>0. board = "loading" /\ toBoard # <<>> /\ toBoard' = Tail(toBoard) /\ UNCHANGED toHost /\ ~Heard
        BY <1>1, <2>1, <2>3 DEF ReadsRecord
      <3>1. CASE UNCHANGED <<printing, board>>
        <4>1. InboxCut /\ Outbox' = Outbox
          BY <2>3, <3>0, <3>1, BoardTakes, Kept
        <4>2. LastRecord(Inbox')
          BY <1>1, <2>1, <4>1, LastRecordCut
        <4>3. Heard1 => Heard
          BY <2>1, <4>1 DEF Heard
        <4> QED BY <1>2, <3>0, <3>1, <4>2, <4>3
      <3>2. ASSUME NEW rec \in Pieces, line' = <<>>, Colons(line) # {}, rec = line[FirstColon(line)],
                   LineFeed(Head(toBoard)),
                   \/ rec.type = "bad" /\ Keeps(<<"X">>) /\ UNCHANGED <<board, damaged, memory>>
                   \/ rec.type = "data"
                   \/ rec.type = "eof" /\ board' = "prompt"
            PROVE  Reporting'
        <4>1. NoRecord' /\ LastRecord(Inbox')
          BY <1>0, <2>3, <3>2, RecordTaken DEF NoRecord, LastRecord
        <4>2. FirstColon(line) \in 1 .. Len(Inbox) /\ Inbox[FirstColon(line)] = rec /\ Colon(rec)
              /\ FirstColon(line) \in 1 .. Len(line)
          BY <3>2, Found, OfTheLine DEF TypeOK
        <4>3. rec.type \in {"bad", "eof"}
          BY <1>1, <2>1, <4>2 DEF LastRecord
        <4>4. CASE rec.type = "bad"
          <5>1. <<"X">> \in Seq(Words)
            BY DEF Words
          <5>2. Longer(Outbox', Outbox, <<"X">>) /\ UNCHANGED board
            BY <3>0, <3>2, <4>4, <5>1, Told
          <5>3. Heard1 => Heard
            BY <2>1, <5>2, HeldBefore DEF Heard
          <5> QED BY <1>2, <3>0, <4>1, <5>2, <5>3
        <4>5. CASE rec.type = "eof"
          <5>1. /\ Len(Inbox) = Len(line) + Len(toBoard) /\ Len(line) \in Nat /\ Len(toBoard) \in Nat
                /\ toBoard \in Seq(Pieces) /\ Len(toBoard) >= 1
            <6>1. toBoard \in Seq(Pieces)
              BY DEF TypeOK
            <6> QED BY <3>0, <6>1, OfTheLine
          <5>2. Inbox[Len(line) + 1] = Head(toBoard) /\ Len(line) + 1 \in FirstColon(line) + 1 .. Len(Inbox)
            <6>1. 1 \in 1 .. Len(toBoard) /\ toBoard[1] = Head(toBoard)
              BY <5>1
            <6> QED BY <4>2, <5>1, <6>1, OfTheLine
          <5>3. Len(line) + 1 = Len(Inbox)
            BY <1>1, <2>1, <3>2, <4>2, <4>5, <5>2 DEF LastRecord
          <5>4. Tail(toBoard) = <<>>
            BY <5>1, <5>3
          <5>5. Inbox' = <<>>
            BY <3>0, <3>2, <5>4, PieceTaken
          <5> QED BY <1>2, <3>2, <4>1, <4>5, <5>5
        <4> QED BY <4>3, <4>4, <4>5
      <3> QED BY <2>3, <3>1, <3>2, LineEnds
    <2>4. CASE ReadsCommand
      <3>1. Inbox = <<>> /\ toBoard # <<>>
        BY <2>1, <2>4 DEF Reporting, ReadsCommand
      <3>2. toBoard = <<>>
        <4>1. line \in Seq(Pieces) /\ toBoard \in Seq(Pieces) BY DEF TypeOK
        <4> QED BY <3>1, <4>1 DEF Inbox
      <3> QED BY <3>1, <3>2
    <2>5. CASE ProgramReads \/ ProgramReturns
      BY <2>1, <2>5 DEF Reporting, ProgramReads, ProgramReturns
    <2> QED BY <1>5, <2>2, <2>3, <2>4, <2>5 DEF BoardStep
  <1> QED BY <1>3, <1>4, <1>5, HostOf

\* Only a report with no fault in it, which the monitor gives from its prompt, lets
\* send_program go on to the start command.
LEMMA JudgedSound ==
  ASSUME TypeOK, TypeOK', Reporting, ReadRest \/ (Timeout /\ host = "rest"), host' \in Starting
  PROVE  AtPrompt'
  <1>1. UNCHANGED <<printing, board, line, toBoard>> /\ host' = "settle R" /\ Sound(seen')
    <2>1. CASE ReadRest
      BY <2>1 DEF ReadRest, Judge, Starting, boardVars
    <2>2. CASE Timeout /\ host = "rest"
      BY <2>2 DEF Timeout, Judge, Starting, boardVars, Sound
    <2> QED BY <2>1, <2>2
  <1>2. Holds(seen', "successful")
    BY <1>1 DEF Sound, Holds
  <1>3. Holds(seen, "successful") \/ Holds(Outbox, "successful")
    <2>1. CASE ReadRest
      <3>1. PICK k \in 0 .. Len(toHost) : toHost' = SubSeq(toHost, k + 1, Len(toHost)) /\ seen' = seen \o Chunk(k)
        BY <2>1 DEF ReadRest
      <3>2. seen' \o Outbox' = seen \o Outbox
        BY <1>1, <3>1, Reading
      <3>3. seen \in Seq(Words) /\ seen' \in Seq(Words) /\ Outbox \in Seq(Words) /\ Outbox' \in Seq(Words)
        BY BoxTypes DEF TypeOK
      <3>4. Holds(seen' \o Outbox', "successful")
        BY <1>2, <3>3, HoldsBoth
      <3>5. Holds(seen \o Outbox, "successful") => Holds(seen, "successful") \/ Holds(Outbox, "successful")
        BY <3>3, HoldsBoth
      <3> QED BY <3>2, <3>4, <3>5
    <2>2. CASE Timeout
      BY <1>2, <2>2 DEF Timeout
    <2> QED BY <2>1, <2>2
  <1>4. board = "prompt" /\ Inbox = <<>>
    BY <1>3 DEF Reporting
  <1>5. Inbox' = <<>> /\ Len(Inbox') = 0
    BY <1>1, <1>4, Kept
  <1>6. board' = "prompt" /\ host' = "settle R"
    BY <1>1, <1>4
  <1>7. \A i \in 1 .. Len(Inbox') : FALSE
    BY <1>5
  <1> QED BY <1>5, <1>6, <1>7 DEF AtPrompt

LEMMA AtPromptStep ==
  ASSUME TypeOK, TypeOK', Position, Sequential, Next, ~Reset, host' \in Starting
  PROVE  AtPrompt'
  <1>0. Speaking
    BY DEF Sequential
  <1>1. CASE Settle
    <2>1. host = "settle R" /\ host' = "digits" /\ UNCHANGED <<board, line, toBoard>>
      BY <1>1 DEF Settle, After, Starting, boardVars
    <2> QED BY <1>0, <2>1, Kept DEF Speaking, Starting, AtPrompt
  <1>2. CASE TypeCharacter
    <2>1. /\ UNCHANGED board
          /\ (host = "digits" /\ host' = "R") \/ (host = "R" /\ host' = "R cr")
      BY <1>2 DEF TypeCharacter, Typing, After, Starting, boardVars
    <2>2. AtPrompt
      BY <1>0, <2>1 DEF Speaking, Starting
    <2>3. ASSUME NEW i \in 1 .. Len(Inbox')
          PROVE  Inbox'[i].type = "digits" \/ (Inbox'[i].type = "R" /\ host' = "R cr")
      <3>1. CASE Inbox' = Inbox
        BY <2>1, <2>2, <3>1 DEF AtPrompt
      <3>2. ASSUME NEW key \in Pieces, Longer(Inbox', Inbox, <<key>>), key.type = host
            PROVE  Inbox'[i].type = "digits" \/ (Inbox'[i].type = "R" /\ host' = "R cr")
        <4>1. Len(Inbox) \in Nat /\ Len(Inbox') = Len(Inbox) + 1 /\ Inbox'[Len(Inbox) + 1] = key
          BY <3>2, BoxTypes DEF Longer
        <4>2. i \in 1 .. Len(Inbox) \/ i = Len(Inbox) + 1
          BY <4>1
        <4>3. CASE i \in 1 .. Len(Inbox)
          <5>1. Inbox'[i] = Inbox[i]
            BY <3>2, <4>3 DEF Longer
          <5> QED BY <2>1, <2>2, <4>3, <5>1 DEF AtPrompt
        <4>4. CASE i = Len(Inbox) + 1
          BY <2>1, <3>2, <4>1, <4>4
        <4> QED BY <4>2, <4>3, <4>4
      <3>3. host \notin {"L cr", "R cr"}
        BY <2>1
      <3> QED BY <1>2, <3>1, <3>2, <3>3, Typed
    <2> QED BY <2>1, <2>2, <2>3 DEF AtPrompt
  <1>3. CASE ReadRest \/ (Timeout /\ host = "rest")
    BY <1>0, <1>3, JudgedSound DEF Speaking, ReadRest
  <1>4. CASE Timeout /\ host # "rest"
    BY <1>4 DEF Timeout, Starting
  <1>5. CASE BoardStep /\ UNCHANGED hostVars
    <2>1. AtPrompt /\ UNCHANGED host
      BY <1>0, <1>5 DEF Speaking, hostVars
    <2>2. CASE ReadsCommand
      <3>1. toBoard # <<>> /\ toBoard' = Tail(toBoard)
        BY <2>2 DEF ReadsCommand
      <3>2. 1 \in 1 .. Len(toBoard) /\ toBoard[1] = Head(toBoard)
        <4>1. toBoard \in Seq(Pieces) BY DEF TypeOK
        <4> QED BY <3>1, <4>1
      <3>3. Head(toBoard).type \in {"digits", "R"}
        <4>1. Len(line) + 1 \in 1 .. Len(Inbox) /\ Inbox[Len(line) + 1] = Head(toBoard)
          BY <3>2, OfTheLine
        <4>2. \A i \in 1 .. Len(Inbox) : Inbox[i].type \in {"digits", "R"}
          BY <2>1 DEF AtPrompt
        <4> QED BY <4>1, <4>2
      <3>4. line' = Append(line, Head(toBoard)) /\ UNCHANGED board
        BY <2>2, <3>3 DEF ReadsCommand, LineFeed
      <3>5. Inbox' = Inbox
        BY <3>1, <3>4, PieceTaken
      <3> QED BY <2>1, <3>4, <3>5 DEF AtPrompt
    <2>3. CASE Prints \/ LoseAnswer
      <3>1. UNCHANGED <<board, host>> /\ Inbox' = Inbox
        BY <2>1, <2>3, Kept DEF Prints, LoseAnswer
      <3> QED BY <2>1, <3>1 DEF AtPrompt
    <2>4. CASE ReadsRecord \/ ProgramReads \/ ProgramReturns
      BY <2>1, <2>4 DEF AtPrompt, ReadsRecord, ProgramReads, ProgramReturns
    <2> QED BY <1>5, <2>2, <2>3, <2>4 DEF BoardStep
  <1> QED BY <1>1, <1>2, <1>3, <1>4, <1>5, HostOf

\* A fault that has happened has happened.
LEMMA FaultsGrow ==
  ASSUME TypeOK, [Next]_vars, NEW kind \in Kinds
  PROVE  faults[kind] \in Nat /\ faults'[kind] \in Nat /\ faults[kind] <= faults'[kind]
  <1>1. faults \in [Kinds -> Nat]
    BY DEF TypeOK
  <1>2. ASSUME NEW k \in Kinds, Fault(k) PROVE faults'[kind] \in Nat /\ faults[kind] <= faults'[kind]
    BY <1>1, <1>2 DEF Fault
  <1>3. UNCHANGED faults \/ \E k \in Kinds : Fault(k)
    BY DEF Next, HostNext, BoardNext, StartUpload, Settle, TypeCharacter, WriteRecord, WriteEndOfFile, WriteLine,
           ReadReady, ReadOther, ReadAccepted, ReadRejected, ReadReport, ReadRest, Timeout, Dies,
           ReadsCommand, ReadsRecord, ProgramReads, ProgramReturns, Prints, LoseAnswer, Reset, Done, vars,
           hostVars, boardVars, Kinds
  <1> QED BY <1>1, <1>2, <1>3

LEMMA SequentialStep ==
  ASSUME TypeOK, TypeOK', Position, Confined, Undisturbed => Sequential, [Next]_vars
  PROVE  Undisturbed' => Sequential'
  <1> SUFFICES ASSUME Undisturbed' PROVE Sequential'
    OBVIOUS
  <1>1. Undisturbed /\ ~Reset
    <2>1. faults'["reset"] = 0
      BY DEF Undisturbed
    <2>2. Reset => faults'["reset"] = faults["reset"] + 1
      BY DEF Reset, Fault, TypeOK, Kinds
    <2>3. faults["reset"] \in Nat /\ faults["reset"] <= faults'["reset"]
      BY FaultsGrow DEF Kinds
    <2> QED BY <2>1, <2>2, <2>3 DEF Undisturbed
  <1>2. Sequential
    BY <1>1
  <1>3. CASE Next
    <2>1. OneRecord' /\ OneReady' /\ DigitsFirst'
      BY <1>1, <1>2, <1>3, OneRecordStep, OneReadyStep, DigitsFirstStep
    <2>2. Speaking'
      <3>1. host' \in {"write", "eof"} => MayWrite'
        BY <1>1, <1>2, <1>3, MayWriteStep
      <3>2. host' = "answer" => Answering'
        BY <1>1, <1>2, <1>3, AnsweringStep
      <3>3. host' \in {"report", "rest"} => Reporting'
        BY <1>1, <1>2, <1>3, ReportingStep
      <3>4. host' \in Starting => AtPrompt'
        BY <1>1, <1>2, <1>3, AtPromptStep
      <3> QED BY <3>1, <3>2, <3>3, <3>4 DEF Speaking, Starting
    <2>3. board' = "running" => Complete(started)'
      BY <1>1, <1>2, <1>3, CompleteStep
    <2>4. Stored(reported)'
      BY <1>1, <1>2, <1>3, StoredStep
    <2> QED BY <2>1, <2>2, <2>3, <2>4 DEF Sequential
  <1>4. CASE UNCHANGED vars
    <2>1. Inbox' = Inbox /\ Outbox' = Outbox
      BY <1>4, Kept DEF vars, hostVars, boardVars
    <2>2. UNCHANGED <<host, upload, load, size, idx, reported, seen, board, memory, started>>
      BY <1>4 DEF vars, hostVars, boardVars
    <2>3. OneRecord' /\ OneReady' /\ DigitsFirst'
      BY <1>2, <2>1, <2>2 DEF Sequential, OneRecord, OneReady, DigitsFirst, Complete, Program
    <2>4. MayWrite' = MayWrite /\ Answering' = Answering /\ Reporting' = Reporting /\ AtPrompt' = AtPrompt
      BY <2>1, <2>2 DEF MayWrite, NoRecord, OnlyTails, Answering, Record, BytesIn, Stored, Reporting, Holds, AtPrompt
    <2>5. Speaking'
      BY <1>2, <2>2, <2>4 DEF Sequential, Speaking, Starting
    <2>6. (board = "running" => Complete(started))' /\ Stored(reported)'
      BY <1>2, <2>2 DEF Sequential, Complete, Program, Stored
    <2> QED BY <2>3, <2>5, <2>6 DEF Sequential
  <1> QED BY <1>3, <1>4

(***************************************************************************)
(* What the inductive invariant gives                                      *)
(***************************************************************************)
LEMMA NextIndInv == IndInv /\ [Next]_vars => IndInv'
  <1> SUFFICES ASSUME IndInv, [Next]_vars PROVE IndInv'
    OBVIOUS
  <1>1. TypeOK /\ Confined /\ Position /\ StartsLast /\ (Undisturbed => Sequential)
    BY DEF IndInv
  <1>2. TypeOK'
    BY <1>1, TypeStep
  <1> QED BY <1>1, <1>2, ConfinedStep, PositionStep, StartsLastStep, SequentialStep DEF IndInv

LEMMA Inductive == Spec => []IndInv
  BY InitIndInv, NextIndInv, PTL DEF Spec

\* The records of an upload write inside its own program, for every record length,
\* size of memory and number of uploads, and whatever happens to the line.
THEOREM WritesInsideOnly == Spec => []MemoryOK
  <1>1. IndInv => MemoryOK
    BY DEF IndInv, Confined, MemoryOK
  <1> QED BY <1>1, Inductive, PTL

\* An upload that was refused, rejected or not answered has started nothing, and no
\* start command of it is out.
THEOREM FailureIsIdle == Spec => []FailureStartsNothing
  <1>1. ASSUME IndInv PROVE FailureStartsNothing
    <2> SUFFICES ASSUME result \in {"refused", "silent", "rejected", "unsound"} PROVE FailureStartsNothing
      BY DEF FailureStartsNothing
    <2>1. TypeOK /\ Position /\ StartsLast
      BY <1>1 DEF IndInv
    <2>2. host = "ended" /\ upload > 0 /\ ~Launching
      <3>1. host = "ended" /\ upload >= 1 /\ upload \in Int
        BY <2>1 DEF Position, TypeOK
      <3> QED BY <3>1 DEF Launching
    <2>3. started.upload # upload
      BY <2>1, <2>2 DEF StartsLast
    <2>4. \A i \in 1 .. Len(Inbox) : Inbox[i].type = "R" => Inbox[i].upload # upload
      BY <2>1, <2>2 DEF StartsLast
    <2> QED BY <2>1, <2>3, <2>4, OfTheLine DEF FailureStartsNothing
  <1> QED BY <1>1, Inductive, PTL

\* However many uploads were lost, killed or rejected before it, the program that is
\* started is whole, unless somebody presses reset.
THEOREM WholeStarts == Spec => []StartsWhole
  <1>1. IndInv => StartsWhole
    BY DEF IndInv, Sequential, Complete, StartsWhole, Whole
  <1> QED BY <1>1, Inductive, PTL

\* No answer is taken for another's, unless somebody presses reset: what a progress
\* report counts is stored.
THEOREM ReportsStored == Spec => []ProgressHonest
  <1>1. IndInv => ProgressHonest
    BY DEF IndInv, Sequential, Stored, ProgressHonest, Honest
  <1> QED BY <1>1, Inductive, PTL

(***************************************************************************)
(* The first upload, with records damaged and nothing else amiss           *)
(***************************************************************************)
\* Nothing on the line, nothing printed.
LEMMA Empty ==
  ASSUME TypeOK
  PROVE  /\ Inbox = <<>> => line = <<>> /\ toBoard = <<>>
         /\ Outbox = <<>> => toHost = <<>> /\ printing = <<>>
  <1>1. line \in Seq(Pieces) /\ toBoard \in Seq(Pieces) /\ toHost \in Seq(Words) /\ printing \in Seq(Words)
    BY DEF TypeOK
  <1> QED BY <1>1 DEF Inbox, Outbox

LEMMA CalmBefore ==
  ASSUME TypeOK, TypeOK', Next, Calm'
  PROVE  /\ Calm /\ Undisturbed /\ upload \in 0 .. 1
         /\ ~Dies /\ ~LoseAnswer /\ ~Reset /\ (Timeout => Quiet)
         /\ faults["checksum"] \in Nat
         /\ \A rec : WriteLine(rec) =>
              \/ toBoard' = toBoard \o Written(rec) /\ UNCHANGED faults
              \/ /\ toBoard' = toBoard \o Written(Piece("bad"))
                 /\ faults'["checksum"] = faults["checksum"] + 1
         /\ StartUpload => upload = 0
  <1>1. \A k \in Kinds : faults[k] \in Nat /\ faults'[k] \in Nat /\ faults[k] <= faults'[k]
    BY FaultsGrow
  <1>2. \A k \in Kinds \ {"checksum"} : faults'[k] = 0
    BY DEF Calm
  <1>3. \A k \in Kinds \ {"checksum"} : faults[k] = 0 /\ ~Fault(k)
    <2> TAKE k \in Kinds \ {"checksum"}
    <2>1. faults[k] \in Nat /\ faults[k] <= faults'[k] /\ faults'[k] = 0
      BY <1>1, <1>2
    <2>2. Fault(k) => faults'[k] = faults[k] + 1
      BY DEF Fault, TypeOK
    <2> QED BY <2>1, <2>2
  <1>4. faults["checksum"] <= MaxRetries /\ faults["checksum"] \in Nat
    <2>1. faults'["checksum"] <= MaxRetries
      BY DEF Calm
    <2> QED BY <1>1, <2>1, HexAssumption DEF Kinds
  <1>5. upload \in 0 .. 1 /\ (StartUpload => upload = 0)
    <2>1. upload \in Nat /\ upload' \in Nat /\ upload' <= 1
      BY HexAssumption DEF TypeOK, Calm
    <2>2. StartUpload => upload' = upload + 1
      BY DEF StartUpload
    <2>3. ~StartUpload => upload' = upload
      BY DEF Next, HostNext, BoardNext, Settle, TypeCharacter, WriteRecord, WriteEndOfFile,
           ReadReady, ReadOther, ReadAccepted, ReadRejected, ReadReport, ReadRest, Timeout, Dies,
           ReadsCommand, ReadsRecord, ProgramReads, ProgramReturns, Prints, LoseAnswer, Reset, Done, vars, hostVars
    <2> QED BY <2>1, <2>2, <2>3
  <1>6. ~Dies /\ ~LoseAnswer /\ ~Reset /\ (Timeout => Quiet)
    BY <1>3 DEF Dies, LoseAnswer, Reset, Timeout, Kinds
  <1>7. Fault("checksum") => faults'["checksum"] = faults["checksum"] + 1
    BY DEF Fault, TypeOK, Kinds
  <1>8. Calm /\ Undisturbed
    BY <1>3, <1>4, <1>5 DEF Calm, Undisturbed, Kinds
  <1>9. ~Fault("garble")
    BY <1>3 DEF Kinds
  <1> QED BY <1>4, <1>5, <1>6, <1>7, <1>8, <1>9 DEF WriteLine

\* What the board has only said, or the program only read past.
LEMMA LockstepKept ==
  ASSUME Lockstep, UNCHANGED <<hostVars, toBoard, board, damaged, faults>>, Inbox' = Inbox, Outbox' = Outbox
  PROVE  Lockstep'
  <1>1. UNCHANGED <<host, upload, result, seen, attempt, toBoard, board, damaged, faults>>
    BY DEF hostVars
  <1>2. /\ Idle' = Idle /\ Opening' = Opening /\ Opened' = Opened
        /\ Answered' = Answered /\ Reported' = Reported
    BY <1>1 DEF Idle, Opening, Opened, Loader, Answered, Reported, Comes, OnlyTails, Holds, Report, Rejects
  <1>3. /\ Holds(seen, "X")' = Holds(seen, "X") /\ Loader' = Loader
        /\ Report(seen \o Outbox)' = Report(seen \o Outbox)
    BY <1>1 DEF Holds, Loader, Report
  <1> QED BY <1>1, <1>2, <1>3 DEF Lockstep, Greeting

\* The piece the board takes next has as many before it as its line holds.
LEMMA NextPiece ==
  ASSUME TypeOK, toBoard # <<>>
  PROVE  \E m, n \in Nat :
            /\ m = Len(line) /\ n = Len(toBoard) /\ n >= 1
            /\ Len(Inbox) = m + n /\ Head(toBoard) = Inbox[m + 1]
  <1>1. toBoard \in Seq(Pieces)
    BY DEF TypeOK
  <1>2. Len(line) \in Nat /\ Len(toBoard) \in Nat /\ Len(Inbox) = Len(line) + Len(toBoard)
    BY OfTheLine
  <1>3. Len(toBoard) >= 1 /\ 1 \in 1 .. Len(toBoard) /\ toBoard[1] = Head(toBoard)
    BY <1>1
  <1>4. Head(toBoard) = Inbox[Len(line) + 1]
    BY <1>3, OfTheLine
  <1> QED BY <1>2, <1>3, <1>4

\* Of what is typed, the first pieces are in the board's line.
LEMMA LineBegins ==
  ASSUME TypeOK, toBoard # <<>>, NEW m \in Nat, m = Len(line)
  PROVE  \A i \in 1 .. m : line[i] = Inbox[i]
  BY OfTheLine

LEMMA LastPiece ==
  ASSUME TypeOK, toBoard # <<>>, NEW n \in Nat, n = Len(toBoard)
  PROVE  Tail(toBoard) = <<>> <=> n = 1
  <1>1. toBoard \in Seq(Pieces) /\ n >= 1
    BY DEF TypeOK
  <1>2. Len(Tail(toBoard)) = n - 1 /\ Tail(toBoard) \in Seq(Pieces)
    BY <1>1
  <1> QED BY <1>1, <1>2

\* The loader takes a piece of the one record there is: it keeps it, or it has
\* the record whole.
LEMMA LoaderReads ==
  ASSUME TypeOK, TypeOK', ReadsRecord, NEW types \in SUBSET {"data", "eof", "bad"}, Comes(types)
  PROVE  \/ Comes(types)' /\ Inbox' = Inbox /\ Outbox' = Outbox
         \/ /\ Inbox' = <<>> /\ Inbox[1].type \in types
            /\ UNCHANGED <<toHost, damaged>>
            /\ \/ Inbox[1].type = "bad" /\ Keeps(<<"X">>) /\ UNCHANGED board
               \/ Inbox[1].type = "data" /\ Keeps(<<".">>) /\ UNCHANGED board
               \/ Inbox[1].type = "eof" /\ Keeps(<<"Load", "successful", "tail">>)
  <1>0. /\ Len(Inbox) = 3 /\ Inbox[1].type \in types /\ Inbox[2].type = "cr" /\ Inbox[3].type = "lf"
        /\ Loader /\ toBoard # <<>> /\ toBoard' = Tail(toBoard) /\ UNCHANGED toHost
        /\ line \in Seq(Pieces) /\ toBoard \in Seq(Pieces)
    BY DEF Comes, ReadsRecord, TypeOK
  <1>1. PICK m, n \in Nat : /\ m = Len(line) /\ n = Len(toBoard) /\ n >= 1
                            /\ Len(Inbox) = m + n /\ Head(toBoard) = Inbox[m + 1]
    BY <1>0, NextPiece
  <1>2. n >= 1 /\ m + n = 3 /\ Head(toBoard) = Inbox[m + 1]
    BY <1>0, <1>1
  <1>3. CASE ~LineFeed(Head(toBoard))
    <2>1. line' = Append(line, Head(toBoard)) /\ UNCHANGED <<printing, board, damaged>>
      BY <1>3 DEF ReadsRecord
    <2>2. Inbox' = Inbox /\ Outbox' = Outbox
      BY <1>0, <2>1, PieceTaken, Kept
    <2>3. m # 2
      BY <1>0, <1>2, <1>3 DEF LineFeed
    <2>4. n # 1
      BY <1>2, <2>3
    <2>5. toBoard' # <<>>
      BY <1>0, <1>1, <2>4, LastPiece
    <2> QED BY <1>0, <2>1, <2>2, <2>5 DEF Comes, Loader
  <1>4. CASE LineFeed(Head(toBoard))
    <2>0. m # 0 /\ m # 1
      BY <1>0, <1>2, <1>4 DEF LineFeed
    <2>1. m = 2 /\ n = 1
      BY <1>2, <2>0
    <2>2. line[1] = Inbox[1] /\ line[2] = Inbox[2] /\ Len(line) = 2
      BY <1>0, <1>1, <2>1, LineBegins
    <2>3. Colon(line[1]) /\ ~Colon(line[2])
      BY <1>0, <2>2 DEF Colon
    <2>4. Colons(line) # {}
      BY <2>2, <2>3 DEF Colons
    <2>5. FirstColon(line) = 1
      <3>1. FirstColon(line) \in 1 .. 2 /\ Colon(line[FirstColon(line)])
        BY <1>0, <2>2, <2>4, Found
      <3> QED BY <2>3, <3>1
    <2>6. line' = <<>>
      BY <1>4 DEF ReadsRecord
    <2>7. Inbox' = <<>>
      <3>1. Tail(toBoard) = <<>>
        BY <1>0, <1>1, <2>1, LastPiece
      <3> QED BY <1>0, <2>6, <3>1, PieceTaken
    <2>8. LoadRecord(Inbox[1])
      BY <1>4, <2>2, <2>4, <2>5 DEF ReadsRecord
    <2>9. Inbox[1].type \in {"data", "eof", "bad"} /\ ~damaged
      BY <1>0 DEF Loader
    <2>10. \/ Inbox[1].type = "bad" /\ Keeps(<<"X">>) /\ UNCHANGED <<board, damaged>>
           \/ Inbox[1].type = "data" /\ Keeps(<<".">>) /\ UNCHANGED <<board, damaged>>
           \/ Inbox[1].type = "eof" /\ Keeps(<<"Load", "successful", "tail">>) /\ UNCHANGED damaged
      BY <2>8, <2>9 DEF LoadRecord
    <2> QED BY <1>0, <2>7, <2>10
  <1> QED BY <1>3, <1>4

LEMMA LockstepCommand ==
  ASSUME TypeOK, TypeOK', Position, Lockstep, ReadsCommand
  PROVE  Lockstep'
  <1>1. /\ UNCHANGED <<hostVars, toHost, faults>> /\ board = "prompt" /\ toBoard # <<>> /\ toBoard' = Tail(toBoard)
        /\ line \in Seq(Pieces) /\ toBoard \in Seq(Pieces)
    BY DEF ReadsCommand, TypeOK
  <1>2. UNCHANGED <<host, upload, result, seen, attempt>>
    BY <1>1 DEF hostVars
  <1>3. Inbox # <<>>
    BY <1>1, Empty
  <1>4. PICK m, n \in Nat : /\ m = Len(line) /\ n = Len(toBoard) /\ n >= 1
                            /\ Len(Inbox) = m + n /\ Head(toBoard) = Inbox[m + 1]
    BY <1>1, NextPiece
  <1>5. n >= 1 /\ Head(toBoard) = Inbox[m + 1]
    BY <1>4
  <1>6. ASSUME Head(toBoard).type = "L"
        PROVE  Inbox' = Inbox /\ Outbox' = Outbox /\ UNCHANGED board
    <2>1. line' = Append(line, Head(toBoard)) /\ UNCHANGED <<printing, board>>
      BY <1>6 DEF ReadsCommand, LineFeed
    <2> QED BY <1>1, <2>1, PieceTaken, Kept
  <1>7. CASE host = "L cr"
    <2>1. Len(Inbox) = 1 /\ Inbox[1].type = "L" /\ Outbox = <<>>
      BY <1>7 DEF Lockstep
    <2>0. attempt = 0 /\ upload # 0
      <3>1. attempt = 0
        BY <1>7 DEF Lockstep, Greeting
      <3>2. host # "ended"
        BY <1>7
      <3>3. upload >= 1
        BY <3>2 DEF Position
      <3> QED BY <3>1, <3>3
    <2>2. m = 0
      <3>1. m + n = 1
        BY <1>4, <2>1
      <3> QED BY <1>5, <3>1
    <2>3. Inbox' = Inbox /\ Outbox' = Outbox /\ UNCHANGED board
      BY <1>5, <1>6, <2>1, <2>2
    <2> QED BY <1>1, <1>2, <1>7, <2>0, <2>1, <2>3 DEF Lockstep
  <1>8. CASE host = "ready"
    <2>1. Len(Inbox) = 2 /\ Inbox[1].type = "L" /\ Inbox[2].type = "cr" /\ Outbox = <<>>
      BY <1>1, <1>8 DEF Lockstep, Opening, Opened, Loader
    <2>0. attempt = 0 /\ upload # 0
      BY <1>8 DEF Lockstep, Greeting, Position
    <2>4. m + n = 2
      BY <1>4, <2>1
    <2>2. CASE m = 0
      <3>1. Inbox' = Inbox /\ Outbox' = Outbox /\ UNCHANGED board
        BY <1>5, <1>6, <2>1, <2>2
      <3>2. Tail(toBoard) # <<>>
        <4>1. n # 1
          BY <2>2, <2>4
        <4> QED BY <1>1, <1>4, <4>1, LastPiece
      <3>3. Opening'
        BY <1>1, <2>1, <3>1, <3>2 DEF Opening
      <3> QED BY <1>2, <1>8, <2>0, <3>3 DEF Lockstep
    <2>3. CASE m # 0
      <3>1. m = 1 /\ n = 1
        BY <1>5, <2>3, <2>4
      <3>2. Head(toBoard).type = "cr" /\ line[1].type = "L" /\ Len(line) = 1
        <4>1. line[1] = Inbox[1]
          BY <1>1, <1>4, <3>1, LineBegins
        <4>2. Head(toBoard) = Inbox[2]
          BY <1>5, <3>1
        <4> QED BY <1>4, <2>1, <3>1, <4>1, <4>2
      <3>3. Types(line) = <<"L">>
        BY <3>2 DEF Types
      <3>4. <<"digits", "R">> # <<"L">> /\ <<"R">> # <<"L">>
        OBVIOUS
      <3>5. board' = "loading" /\ damaged' = FALSE /\ Keeps(<<"READY", "tail">>) /\ line' = <<>>
        BY <3>2, <3>3, <3>4 DEF ReadsCommand, Command
      <3>6. Inbox' = <<>>
        <4>1. Tail(toBoard) = <<>>
          BY <1>1, <1>4, <3>1, LastPiece
        <4> QED BY <1>1, <3>5, <4>1, PieceTaken
      <3>7. Len(Outbox') = 2 /\ Outbox'[1] = "READY" /\ Outbox'[2] = "tail"
        <4>1. <<"READY", "tail">> \in Seq(Words)
          BY DEF Words
        <4>2. Longer(Outbox', Outbox, <<"READY", "tail">>)
          BY <1>1, <3>5, <4>1, Told
        <4> QED BY <2>1, <4>2 DEF Longer
      <3>8. Opened'
        BY <3>5, <3>6, <3>7 DEF Opened, Loader
      <3> QED BY <1>2, <1>8, <2>0, <3>8 DEF Lockstep
    <2> QED BY <2>2, <2>3
  <1>9. CASE host \notin {"L cr", "ready"}
    <2>1. ~Idle /\ ~Answered /\ ~Reported /\ ~Loader
      BY <1>1, <1>3 DEF Idle, Answered, Reported, Comes, Loader
    <2>2. upload # 0 /\ host \notin {"settle L", "L", "write", "eof", "answer", "report", "rest"}
      BY <1>3, <2>1 DEF Lockstep
    <2>3. host = "ended" => result \in {"none", "ok", "refused"} \/ Holds(seen, "X")
      BY DEF Lockstep
    <2>4. Holds(seen, "X")' = Holds(seen, "X")
      BY <1>2 DEF Holds
    <2> QED BY <1>2, <1>9, <2>2, <2>3, <2>4 DEF Lockstep, Greeting
  <1> QED BY <1>7, <1>8, <1>9

LEMMA LockstepRecord ==
  ASSUME TypeOK, TypeOK', Position, Lockstep, ReadsRecord, faults["checksum"] \in Nat
  PROVE  Lockstep'
  <1>1. UNCHANGED <<hostVars, toHost, faults>> /\ board = "loading" /\ toBoard # <<>>
    BY DEF ReadsRecord
  <1>2. UNCHANGED <<host, upload, result, seen, attempt>> /\ UNCHANGED faults
    BY <1>1 DEF hostVars
  <1>3. Inbox # <<>>
    BY <1>1, Empty
  <1>4. Outbox \in Seq(Words) /\ Outbox' \in Seq(Words) /\ Len(Outbox) \in Nat /\ seen \in Seq(Words) /\ Len(Outbox') \in Nat
    BY BoxTypes DEF TypeOK
  <1>5. CASE host = "answer"
    <2>0. upload # 0
      BY <1>5 DEF Position
    <2>1. CASE Comes({"data"}) /\ attempt <= faults["checksum"] /\ OnlyTails(Outbox)
      <3>1. CASE Comes({"data"})' /\ Outbox' = Outbox
        <4>1. OnlyTails(Outbox)'
          BY <2>1, <3>1 DEF OnlyTails
        <4>2. Answered'
          BY <1>2, <2>1, <3>1, <4>1 DEF Answered
        <4> QED BY <1>2, <1>5, <2>0, <4>2 DEF Lockstep, Greeting
      <3>2. CASE Inbox' = <<>> /\ Keeps(<<".">>) /\ UNCHANGED <<toHost, damaged, board>>
        <4>1. <<".">> \in Seq(Words)
          BY DEF Words
        <4>2. Longer(Outbox', Outbox, <<".">>)
          BY <3>2, <4>1, Told
        <4>3. Holds(Outbox', ".") /\ ~Holds(Outbox', "X")
          <5>1. Len(Outbox) + 1 \in 1 .. Len(Outbox') /\ Outbox'[Len(Outbox) + 1] = "."
            BY <1>4, <4>2 DEF Longer
          <5>2. \A i \in 1 .. Len(Outbox') : Outbox'[i] \in {"tail", "."}
            BY <2>1, <4>2, LastWord
          <5> QED BY <5>1, <5>2 DEF Holds
        <4>4. Loader'
          BY <2>1, <3>2 DEF Comes, Loader
        <4>5. Answered'
          BY <1>2, <2>1, <3>2, <4>3, <4>4 DEF Answered, Holds
        <4> QED BY <1>2, <1>5, <2>0, <4>5 DEF Lockstep, Greeting
      <3> QED BY <2>1, <3>1, <3>2, LoaderReads
    <2>2. CASE Comes({"bad"}) /\ attempt + 1 <= faults["checksum"] /\ OnlyTails(Outbox)
      <3>1. CASE Comes({"bad"})' /\ Outbox' = Outbox
        <4>1. OnlyTails(Outbox)'
          BY <2>2, <3>1 DEF OnlyTails
        <4>2. Answered'
          BY <1>2, <2>2, <3>1, <4>1 DEF Answered
        <4> QED BY <1>2, <1>5, <2>0, <4>2 DEF Lockstep, Greeting
      <3>2. CASE Inbox' = <<>> /\ Keeps(<<"X">>) /\ UNCHANGED <<toHost, damaged, board>>
        <4>1. <<"X">> \in Seq(Words)
          BY DEF Words
        <4>2. Longer(Outbox', Outbox, <<"X">>)
          BY <3>2, <4>1, Told
        <4>3. Holds(Outbox', "X")
          <5>1. Len(Outbox) + 1 \in 1 .. Len(Outbox') /\ Outbox'[Len(Outbox) + 1] = "X"
            BY <1>4, <4>2 DEF Longer
          <5> QED BY <5>1 DEF Holds
        <4>4. Loader'
          BY <2>2, <3>2 DEF Comes, Loader
        <4>5. attempt <= faults["checksum"]
          <5>1. attempt \in Nat
            BY HexAssumption DEF TypeOK
          <5> QED BY <2>2, <5>1
        <4>6. Answered'
          BY <1>2, <2>2, <3>2, <4>3, <4>4, <4>5 DEF Answered, Holds
        <4> QED BY <1>2, <1>5, <2>0, <4>6 DEF Lockstep, Greeting
      <3> QED BY <2>2, <3>1, <3>2, LoaderReads
    <2>3. Answered
      BY <1>5 DEF Lockstep
    <2> QED BY <1>3, <2>1, <2>2, <2>3 DEF Answered
  <1>6. CASE host = "report"
    <2>0. upload # 0
      BY <1>6 DEF Position
    <2>1. Reported /\ Comes({"eof", "bad"}) /\ OnlyTails(seen \o Outbox) /\ ~Holds(seen, "Load")
      BY <1>3, <1>6 DEF Lockstep, Reported
    <2>2. CASE Comes({"eof", "bad"})' /\ Outbox' = Outbox
      <3>1. OnlyTails(seen \o Outbox)' /\ ~Holds(seen, "Load")'
        BY <1>2, <2>1, <2>2 DEF OnlyTails, Holds
      <3>2. Reported'
        BY <2>2, <3>1 DEF Reported
      <3> QED BY <1>2, <1>6, <2>0, <3>2 DEF Lockstep, Greeting
    <2>3. CASE Inbox' = <<>> /\ (Keeps(<<"X">>) \/ Keeps(<<"Load", "successful", "tail">>)) /\ UNCHANGED toHost
      <3> DEFINE text == seen \o Outbox
                 text1 == seen' \o Outbox'
      <3>1. text \in Seq(Words) /\ Len(text) \in Nat
        <4>1. text \in Seq(Words)
          BY <1>4
        <4> HIDE DEF text
        <4> QED BY <4>1
      <3>2. PICK said \in {<<"X">>, <<"Load", "successful", "tail">>} : Keeps(said)
        BY <2>3
      <3>3. said \in Seq(Words)
        <4>1. <<"X">> \in Seq(Words) /\ <<"Load", "successful", "tail">> \in Seq(Words)
          BY DEF Words
        <4> QED BY <3>2, <4>1
      <3>4. text1 = text \o said
        <4>1. toHost \in Seq(Words) /\ printing \in Seq(Words)
          BY DEF TypeOK
        <4>2. Outbox' = Outbox \o said
          <5>1. Grouped(toHost, printing, said)
            BY ONLY <3>3, <4>1, Regroup
          <5>2. (toHost \o printing) \o said = toHost \o (printing \o said)
            BY ONLY <5>1, Zenon DEF Grouped
          <5> QED BY <2>3, <3>2, <5>2, Zenon DEF Outbox, Keeps
        <4>3. (seen \o Outbox) \o said = seen \o (Outbox \o said)
          <5>1. Grouped(seen, Outbox, said)
            BY ONLY <1>4, <3>3, Regroup
          <5> QED BY ONLY <5>1, Zenon DEF Grouped
        <4> QED BY <1>2, <4>2, <4>3
      <3> HIDE DEF text
      <3>5. /\ Len(text1) = Len(text) + Len(said)
            /\ \A i \in 1 .. Len(text) : text1[i] = "tail"
            /\ \A i \in 1 .. Len(said) : text1[Len(text) + i] = said[i]
        <4>1. Longer(text \o said, text, said)
          BY <3>1, <3>3, Joined
        <4>2. OnlyTails(text)
          BY <2>1 DEF text
        <4> QED BY <3>4, <4>1, <4>2 DEF Longer, OnlyTails
      <3> HIDE DEF text1
      <3>6. ASSUME said = <<"X">> PROVE Rejects(text1)
        <4>1. Len(text1) = Len(text) + 1 /\ text1[Len(text) + 1] = "X"
          BY <3>5, <3>6
        <4>2. \A i \in 1 .. Len(text1) : i \in 1 .. Len(text) \/ i = Len(text) + 1
          BY <3>1, <4>1
        <4>3. Len(text) + 1 \in 1 .. Len(text1)
          BY <3>1, <4>1
        <4>4. Holds(text1, "X")
          BY <4>1, <4>3 DEF Holds
        <4>5. \A i \in 1 .. Len(text1) : text1[i] \in {"tail", "X"}
          BY <3>5, <4>1, <4>2
        <4> QED BY <4>4, <4>5 DEF Rejects
      <3>7. ASSUME said = <<"Load", "successful", "tail">> PROVE Report(text1)
        <4> DEFINE n == Len(text)
        <4>0. n \in Nat
          BY <3>1
        <4> HIDE DEF n
        <4>1. /\ Len(text1) = n + 3 /\ \A i \in 1 .. n : text1[i] = "tail"
              /\ text1[n + 1] = "Load" /\ text1[n + 2] = "successful" /\ text1[n + 3] = "tail"
          BY <3>5, <3>7 DEF n
        <4>2. \A i \in 1 .. Len(text1) : i \in 1 .. n \/ i = n + 1 \/ i = n + 2 \/ i = n + 3
          BY <4>0, <4>1
        <4>3. n + 1 \in 1 .. Len(text1) /\ n + 2 \in 1 .. Len(text1)
          BY <4>0, <4>1
        <4>4. Holds(text1, "Load")
          BY <4>1, <4>3 DEF Holds
        <4>5. \A j \in 1 .. Len(text1) : j # n + 2 => text1[j] \in {"Load", "tail"}
          BY <4>1, <4>2
        <4>6. \A j \in n + 2 + 1 .. Len(text1) : text1[j] = "tail"
          <5>1. \A j \in n + 2 + 1 .. Len(text1) : j = n + 3
            BY <4>0, <4>1
          <5> QED BY <4>1, <5>1
        <4> QED BY <4>1, <4>3, <4>4, <4>5, <4>6 DEF Report
      <3>8. Report(text1) \/ Rejects(text1)
        BY <3>2, <3>6, <3>7
      <3>9. ~Holds(seen, "Load")'
        BY <1>2, <2>1 DEF Holds
      <3>10. Reported'
        BY <2>3, <3>8, <3>9 DEF Reported, Report, Rejects, Holds, text1
      <3> QED BY <1>2, <1>6, <2>0, <3>10 DEF Lockstep, Greeting
    <2> QED BY <2>1, <2>2, <2>3, LoaderReads
  <1>7. CASE host \notin {"answer", "report"}
    <2>1. ~Idle /\ ~Opening /\ ~Opened
      BY <1>1, <1>3 DEF Idle, Opening, Opened
    <2>2. upload # 0 /\ host \notin {"settle L", "L", "L cr", "ready", "write", "eof", "rest"}
      BY <1>1, <1>3, <2>1 DEF Lockstep
    <2>3. host = "ended" => result \in {"none", "ok", "refused"} \/ Holds(seen, "X")
      BY DEF Lockstep
    <2>4. Holds(seen, "X")' = Holds(seen, "X")
      BY <1>2 DEF Holds
    <2> QED BY <1>2, <1>7, <2>2, <2>3, <2>4 DEF Lockstep, Greeting
  <1> QED BY <1>5, <1>6, <1>7

LEMMA LockstepTyped ==
  ASSUME TypeOK, TypeOK', Position, Lockstep, Settle \/ TypeCharacter \/ (StartUpload /\ upload = 0)
  PROVE  Lockstep'
  <1>0. host # "ended" => upload # 0
    <2>1. host # "ended" => upload >= 1
      BY DEF Position
    <2> QED BY <2>1
  <1>1. CASE StartUpload /\ upload = 0
    <2>1. Idle /\ UNCHANGED <<line, toBoard, toHost, printing, board>>
      BY <1>1 DEF Lockstep, StartUpload, boardVars
    <2>2. Idle'
      BY <2>1, Kept DEF Idle
    <2>3. attempt' = 0 /\ (host' = "settle L" \/ (host' = "ended" /\ result' = "refused"))
      BY <1>1 DEF StartUpload
    <2> QED BY <2>2, <2>3 DEF Lockstep, Greeting
  <1>2. CASE Settle
    <2>1. CASE host = "settle L"
      <3>1. Idle /\ attempt = 0 /\ UNCHANGED <<attempt, upload, line, toBoard, printing, board>> /\ host' = "L" /\ toHost' = <<>>
        BY <1>2, <2>1 DEF Lockstep, Greeting, Settle, After, boardVars
      <3>2. Inbox' = Inbox /\ Outbox' = Outbox
        BY <3>1, Empty, Kept DEF Idle
      <3>3. Idle'
        BY <3>1, <3>2 DEF Idle
      <3> QED BY <3>1, <3>3 DEF Lockstep, Greeting
    <2>2. CASE host = "settle R"
      <3>1. host' = "digits" /\ upload' # 0
        BY <1>0, <1>2, <2>2 DEF Settle, After
      <3> QED BY <3>1 DEF Lockstep, Greeting
    <2> QED BY <1>2, <2>1, <2>2 DEF Settle
  <1>3. CASE TypeCharacter
    <2>0. UNCHANGED <<attempt, upload, board, line, toHost, printing>> /\ host \in Typing /\ host' = After(host)
      BY <1>3 DEF TypeCharacter, boardVars
    <2>1. CASE host = "L"
      <3>1. Idle /\ attempt = 0 /\ host' = "L cr" /\ upload # 0
        BY <1>0, <2>0, <2>1 DEF Lockstep, Greeting, After
      <3>2. printing = <<>> /\ Outbox' = Outbox
        BY <2>0, <3>1, Empty, Kept DEF Idle
      <3>3. PICK key \in Pieces : Longer(Inbox', Inbox, <<key>>) /\ key.type = "L"
        BY <1>3, <2>1, <3>2, Typed
      <3>4. Len(Inbox') = 1 /\ Inbox'[1] = key
        <4>1. Len(Inbox) = 0
          BY <3>1 DEF Idle
        <4> QED BY <3>3, <4>1 DEF Longer
      <3> QED BY <2>0, <3>1, <3>2, <3>3, <3>4 DEF Lockstep, Idle
    <2>2. CASE host = "L cr"
      <3>1. board = "prompt" /\ Outbox = <<>> /\ Len(Inbox) = 1 /\ Inbox[1].type = "L" /\ attempt = 0
        BY <2>2 DEF Lockstep, Greeting
      <3>2. host' = "ready" /\ upload # 0
        BY <1>0, <2>0, <2>2 DEF After
      <3>3. printing = <<>> /\ Outbox' = Outbox
        BY <2>0, <3>1, Empty, Kept
      <3>4. PICK key \in Pieces : Longer(Inbox', Inbox, <<key>>) /\ key.type = "cr"
        BY <1>3, <2>2, <3>3, Typed
      <3>5. Len(Inbox') = 2 /\ Inbox'[1] = Inbox[1] /\ Inbox'[2] = key
        BY <3>1, <3>4 DEF Longer
      <3>6. toBoard' # <<>>
        <4>1. toBoard' = toBoard \o <<Piece("cr")>> /\ toBoard \in Seq(Pieces)
          BY <1>3, <2>2, <3>3 DEF TypeCharacter, Keys, TypeOK
        <4>2. Piece("cr") \in Pieces
          BY <2>2, PieceType
        <4>3. Len(toBoard') = Len(toBoard) + 1 /\ Len(toBoard) \in Nat
          BY <4>1, <4>2
        <4>4. Len(toBoard') # 0
          BY <4>3
        <4> QED BY <4>4
      <3>7. Opening'
        BY <2>0, <3>1, <3>3, <3>4, <3>5, <3>6 DEF Opening
      <3> QED BY <2>0, <3>1, <3>2, <3>7 DEF Lockstep
    <2>3. CASE host \in {"digits", "R"}
      <3>1. host' \in {"R", "R cr"} /\ upload' # 0
        BY <1>0, <2>0, <2>3 DEF After
      <3> QED BY <3>1 DEF Lockstep, Greeting
    <2>4. CASE host = "R cr"
      <3>1. host' = "ended" /\ result' = "ok" /\ upload' # 0
        BY <1>0, <1>3, <2>0, <2>4 DEF After, TypeCharacter
      <3> QED BY <3>1 DEF Lockstep, Greeting
    <2> QED BY <2>0, <2>1, <2>2, <2>3, <2>4 DEF Typing
  <1> QED BY <1>1, <1>2, <1>3

LEMMA RecordComes ==
  ASSUME TypeOK, TypeOK', Loader, Inbox = <<>>, UNCHANGED <<line, board, damaged>>, host # "ended",
         NEW first \in Pieces, NEW types, first.type \in types,
         toBoard' = toBoard \o <<first, Piece("cr"), Piece("lf")>>, Position
  PROVE  Comes(types)'
  <1> DEFINE cr == Piece("cr")
             lf == Piece("lf")
  <1>1. cr \in Pieces /\ lf \in Pieces /\ cr.type = "cr" /\ lf.type = "lf"
    BY PieceType
  <1>2. toBoard' = toBoard \o <<first, cr, lf>>
    OBVIOUS
  <1> HIDE DEF cr, lf
  <1>3. <<first, cr, lf>> \in Seq(Pieces)
    BY <1>1
  <1>4. Longer(Inbox', Inbox, <<first, cr, lf>>)
    BY <1>2, <1>3, Sent
  <1>5. Len(Inbox') = 3 /\ Inbox'[1] = first /\ Inbox'[2] = cr /\ Inbox'[3] = lf
    <2>1. Len(Inbox) = 0
      OBVIOUS
    <2> QED BY <1>4, <2>1 DEF Longer
  <1>6. toBoard' # <<>>
    <2>1. toBoard = <<>>
      BY Empty
    <2>2. toBoard' = <<first, cr, lf>>
      BY <1>2, <1>3, <2>1
    <2> QED BY <2>2
  <1> QED BY <1>1, <1>5, <1>6 DEF Comes, Loader

LEMMA LockstepWritten ==
  ASSUME TypeOK, TypeOK', Position, Lockstep, Speaking, Next, Calm', WriteRecord \/ WriteEndOfFile
  PROVE  Lockstep'
  <1>0. /\ UNCHANGED <<upload, attempt, line, board, damaged, toHost, printing>> /\ host \in {"write", "eof"} /\ upload # 0
        /\ host # "ended"
    <2>1. host \in {"write", "eof"} /\ UNCHANGED <<upload, attempt, line, board, damaged, toHost, printing>>
      BY DEF WriteRecord, WriteEndOfFile, boardVars
    <2>2. host # "ended"
      BY <2>1
    <2>3. upload >= 1
      BY <2>2 DEF Position
    <2> QED BY <2>1, <2>2, <2>3
  <1>1. Loader /\ Inbox = <<>> /\ attempt <= faults["checksum"] /\ OnlyTails(Outbox)
    BY <1>0 DEF Lockstep, Speaking, MayWrite
  <1>2. Outbox' = Outbox
    BY <1>0, Kept
  <1>3. attempt \in Nat /\ faults["checksum"] \in Nat
    <2>1. attempt \in Nat
      BY HexAssumption DEF TypeOK
    <2> QED BY <2>1, CalmBefore
  <1>4. Piece("bad") \in Pieces /\ Piece("bad").type = "bad"
    BY <1>0, PieceType
  <1>5. CASE WriteRecord
    <2>1. Record(idx) \in Pieces /\ Record(idx).type = "data"
      BY <1>5, TurnType DEF WriteRecord, Record
    <2>2. WriteLine(Record(idx)) /\ host' = "answer"
      BY <1>5 DEF WriteRecord
    <2>3. CASE toBoard' = toBoard \o Written(Record(idx)) /\ UNCHANGED faults
      <3>1. Comes({"data"})'
        BY <1>0, <1>1, <2>1, <2>3, RecordComes DEF Written
      <3>2. Answered'
        BY <1>0, <1>1, <1>2, <2>3, <3>1 DEF Answered, OnlyTails
      <3> QED BY <1>0, <2>2, <3>2 DEF Lockstep, Greeting
    <2>4. CASE toBoard' = toBoard \o Written(Piece("bad")) /\ faults'["checksum"] = faults["checksum"] + 1
      <3>1. Comes({"bad"})'
        BY <1>0, <1>1, <1>4, <2>4, RecordComes DEF Written
      <3>2. attempt' + 1 <= faults'["checksum"]
        BY <1>0, <1>1, <1>3, <2>4
      <3>3. Answered'
        BY <1>1, <1>2, <3>1, <3>2 DEF Answered, OnlyTails
      <3> QED BY <1>0, <2>2, <3>3 DEF Lockstep, Greeting
    <2> QED BY <2>2, <2>3, <2>4, CalmBefore
  <1>6. CASE WriteEndOfFile
    <2>1. EndOfFile \in Pieces /\ EndOfFile.type = "eof"
      BY <1>6, TurnType DEF WriteEndOfFile, EndOfFile, Piece
    <2>2. WriteLine(EndOfFile) /\ host' = "report" /\ seen' = <<>>
      BY <1>6 DEF WriteEndOfFile
    <2>3. toBoard' = toBoard \o Written(EndOfFile) \/ toBoard' = toBoard \o Written(Piece("bad"))
      BY <2>2, CalmBefore
    <2>4. Comes({"eof", "bad"})'
      BY <1>0, <1>1, <1>4, <2>1, <2>3, RecordComes DEF Written
    <2>5. seen' \o Outbox' = Outbox
      <3>1. Outbox \in Seq(Words)
        BY BoxTypes
      <3> HIDE DEF Outbox
      <3> QED BY <1>2, <2>2, <3>1
    <2>6. Reported'
      BY <1>1, <2>2, <2>4, <2>5 DEF Reported, OnlyTails, Holds
    <2> QED BY <1>0, <2>2, <2>6 DEF Lockstep, Greeting
  <1> QED BY <1>5, <1>6

LEMMA LockstepAnswer ==
  ASSUME TypeOK, TypeOK', Position, Lockstep, Sequential, Next, Calm',
         ReadReady \/ ReadOther \/ ReadAccepted \/ ReadRejected
  PROVE  Lockstep'
  <1>0. /\ UNCHANGED <<upload, line, toBoard, board, damaged, printing, faults>> /\ host \in {"ready", "answer"} /\ upload # 0
        /\ Inbox' = Inbox
    <2>1. UNCHANGED <<upload, line, toBoard, board, damaged, printing, faults>> /\ host \in {"ready", "answer"}
      BY DEF ReadReady, ReadOther, ReadAccepted, ReadRejected, boardVars, hostVars
    <2>2. host # "ended"
      BY <2>1
    <2>3. upload >= 1
      BY <2>2 DEF Position
    <2> QED BY <2>1, <2>3, Kept
  <1>1. attempt \in Nat /\ faults["checksum"] \in Nat
    <2>1. attempt \in Nat
      BY HexAssumption DEF TypeOK
    <2> QED BY <2>1, CalmBefore
  <1>2. Len(Outbox) \in Nat /\ Len(Outbox') \in Nat /\ toHost \in Seq(Words)
    BY BoxTypes DEF TypeOK
  <1>3. CASE ReadReady
    <2>1. CASE Opening
      <3>1. toHost = <<>>
        BY <2>1, Empty DEF Opening
      <3>2. 1 .. Len(toHost) = {}
        BY <3>1
      <3> QED BY <1>3, <3>2 DEF ReadReady
    <2>2. CASE Opened
      <3>1. attempt = 0 /\ UNCHANGED attempt
        BY <1>3 DEF ReadReady, Lockstep, Greeting
      <3>2. host' \in {"write", "ready"}
        BY <1>3 DEF ReadReady
      <3>3. host' = "write" => Lockstep'
        <4>1. Loader' /\ Inbox' = <<>> /\ upload' # 0
          BY <1>0, <2>2 DEF Opened, Loader
        <4>2. attempt' <= faults'["checksum"]
          BY <1>0, <1>1, <3>1
        <4> QED BY <4>1, <4>2 DEF Lockstep, Greeting
      <3>4. host' # "ready"
        <4>1. PICK k \in 1 .. Len(toHost) : host' = IF Holds(Chunk(k), "READY") THEN "write" ELSE "ready"
          BY <1>3 DEF ReadReady
        <4>2. toHost[1] = "READY"
          <5>1. 1 \in 1 .. Len(toHost) /\ Outbox[1] = toHost[1]
            <6>1. printing \in Seq(Words)
              BY DEF TypeOK
            <6> QED BY <1>2, <4>1, <6>1 DEF Outbox
          <5> QED BY <2>2, <5>1 DEF Opened
        <4>3. 1 \in 1 .. Len(Chunk(k)) /\ Chunk(k)[1] = toHost[1]
          BY <1>2, <4>1 DEF Chunk
        <4> QED BY <4>1, <4>2, <4>3 DEF Holds
      <3> QED BY <3>2, <3>3, <3>4
    <2> QED BY <1>3, <2>1, <2>2 DEF ReadReady, Lockstep
  <1>4. CASE ReadOther \/ ReadAccepted \/ ReadRejected
    <2>1. host = "answer" /\ toHost # <<>> /\ toHost' = Tail(toHost) /\ Answered
      BY <1>4 DEF ReadOther, ReadAccepted, ReadRejected, Lockstep
    <2>2. /\ Cut(Outbox', Outbox, 0, 1) /\ OutboxCut
          /\ Len(Outbox) >= 1 /\ Outbox[1] = Head(toHost)
      BY <1>0, <2>1, HeadHeard
    <2>3. ASSUME Head(toHost) \in {".", "X"}
          PROVE  /\ Loader /\ Inbox = <<>> /\ attempt <= faults["checksum"]
                 /\ Head(toHost) = "X" => attempt + 1 <= faults["checksum"]
      <3>1. ~OnlyTails(Outbox) /\ 1 \in 1 .. Len(Outbox)
        BY <1>2, <2>2, <2>3 DEF OnlyTails
      <3>2. Head(toHost) = "X" => Holds(Outbox, "X")
        BY <2>2, <3>1 DEF Holds
      <3> QED BY <2>1, <3>1, <3>2 DEF Answered
    <2>4. CASE ReadOther
      <3>1. Head(toHost) \notin {".", "X"} /\ UNCHANGED <<host, attempt>>
        BY <2>4 DEF ReadOther, hostVars
      <3>2. OnlyTails(Outbox) => OnlyTails(Outbox)'
        BY <2>2, TailsKept
      <3>3. ASSUME NEW word \in {".", "X"} PROVE Holds(Outbox', word) <=> Holds(Outbox, word)
        <4>1. Holds(Outbox', word) => Holds(Outbox, word)
          BY <2>2, HeldBefore
        <4>2. ASSUME Holds(Outbox, word) PROVE Holds(Outbox', word)
          <5>1. PICK i \in 1 .. Len(Outbox) : Outbox[i] = word
            BY <4>2 DEF Holds
          <5>2. i # 1
            BY <2>2, <3>1, <5>1
          <5>3. i - 1 \in 1 .. Len(Outbox') /\ Outbox'[i - 1] = Outbox[i - 1 + 1]
            BY <1>2, <2>2, <5>2 DEF Cut
          <5>4. i - 1 + 1 = i
            BY <1>2
          <5> QED BY <5>1, <5>3, <5>4 DEF Holds
        <4> QED BY <4>1, <4>2
      <3>4. Comes({"data"})' = Comes({"data"}) /\ Comes({"bad"})' = Comes({"bad"}) /\ Loader' = Loader
        BY <1>0 DEF Comes, Loader
      <3>5. Holds(Outbox, ".")' = Holds(Outbox', ".") /\ Holds(Outbox, "X")' = Holds(Outbox', "X")
        BY DEF Holds
      <3>6. Answered'
        BY <1>0, <2>1, <3>1, <3>2, <3>3, <3>4, <3>5 DEF Answered
      <3> QED BY <1>0, <2>1, <3>1, <3>6 DEF Lockstep, Greeting
    <2>5. CASE ReadAccepted
      <3>1. Head(toHost) = "." /\ attempt' = 0 /\ host' \in {"write", "eof"}
        BY <2>5 DEF ReadAccepted, Accepts
      <3>2. Loader /\ Inbox = <<>>
        BY <2>3, <3>1
      <3>3. Loader' /\ Inbox' = <<>> /\ upload' # 0
        BY <1>0, <3>2 DEF Loader
      <3>4. attempt' <= faults'["checksum"]
        BY <1>0, <1>1, <3>1
      <3> QED BY <3>1, <3>3, <3>4 DEF Lockstep, Greeting
    <2>6. CASE ReadRejected
      <3>1. Loader /\ Inbox = <<>> /\ attempt + 1 <= faults["checksum"]
        BY <2>3, <2>6 DEF ReadRejected
      <3>2. MayRetry
        <4>1. faults["checksum"] <= MaxRetries
          BY CalmBefore DEF Calm
        <4> QED BY <1>1, <3>1, <4>1, HexAssumption DEF MayRetry
      <3>3. attempt' = attempt + 1 /\ host' = "write"
        BY <2>6, <3>2 DEF ReadRejected
      <3> QED BY <1>0, <1>1, <3>1, <3>3 DEF Lockstep, Greeting, Loader
    <2> QED BY <1>4, <2>4, <2>5, <2>6
  <1> QED BY <1>3, <1>4

\* What a sound report's words say as they are read.
LEMMA ReportRead ==
  ASSUME NEW a \in Seq(Words), NEW b \in Seq(Words), Report(a \o b), EndsLine(a)
  PROVE  Sound(a)
  <1>1. /\ Len(a) \in Nat /\ Len(b) \in Nat /\ Len(a \o b) = Len(a) + Len(b)
        /\ \A i \in 1 .. Len(a) : (a \o b)[i] = a[i]
    OBVIOUS
  <1>2. PICK i \in 1 .. Len(a \o b) :
            /\ (a \o b)[i] = "successful"
            /\ \A j \in 1 .. Len(a \o b) : j # i => (a \o b)[j] \in {"Load", "tail"}
            /\ \A j \in i + 1 .. Len(a \o b) : (a \o b)[j] = "tail"
    BY DEF Report
  <1>3. PICK j \in 1 .. Len(a) : a[j] \in {"successful", "error"}
    BY DEF EndsLine, Holds
  <1>4. j \in 1 .. Len(a \o b) /\ (a \o b)[j] = a[j]
    BY <1>1
  <1>5. j = i
    BY <1>2, <1>3, <1>4
  <1>6. ASSUME NEW n \in i + 1 .. Len(a) PROVE a[n] # "Load"
    <2>1. n \in 1 .. Len(a) /\ n \in i + 1 .. Len(a \o b)
      BY <1>1, <1>3, <1>5
    <2> QED BY <1>1, <1>2, <2>1
  <1> QED BY <1>2, <1>3, <1>4, <1>5, <1>6 DEF Sound

LEMMA LockstepReport ==
  ASSUME TypeOK, TypeOK', Position, Lockstep, ReadReport \/ ReadRest
  PROVE  Lockstep'
  <1>0. /\ UNCHANGED <<upload, line, toBoard, board, damaged, printing, faults>> /\ host \in {"report", "rest"} /\ upload # 0
        /\ Inbox' = Inbox
    <2>1. UNCHANGED <<upload, line, toBoard, board, damaged, printing, faults>> /\ host \in {"report", "rest"}
      BY DEF ReadReport, ReadRest, boardVars
    <2>2. host # "ended"
      BY <2>1
    <2>3. upload >= 1
      BY <2>2 DEF Position
    <2> QED BY <2>1, <2>3, Kept
  <1>1. PICK k \in 0 .. Len(toHost) : toHost' = SubSeq(toHost, k + 1, Len(toHost)) /\ seen' = seen \o Chunk(k)
    <2>1. \A n \in 1 .. Len(toHost) : n \in 0 .. Len(toHost)
      OBVIOUS
    <2> QED BY <2>1 DEF ReadReport, ReadRest
  <1>2. seen' \o Outbox' = seen \o Outbox
    BY <1>0, <1>1, Reading
  <1>3. seen' \in Seq(Words) /\ Outbox' \in Seq(Words)
    BY BoxTypes DEF TypeOK
  <1>4. /\ Report(seen \o Outbox)' = Report(seen \o Outbox) /\ Rejects(seen \o Outbox)' = Rejects(seen \o Outbox)
        /\ OnlyTails(seen \o Outbox)' = OnlyTails(seen \o Outbox)
    BY <1>2 DEF Report, Rejects, OnlyTails, Holds
  <1>5. Holds(seen', "Load") => Holds(seen \o Outbox, "Load")
    BY <1>2, <1>3, HoldsBoth
  <1>6. CASE ReadReport
    <2>1. Reported /\ host' = IF Holds(seen', "Load") THEN "rest" ELSE "report"
      BY <1>6 DEF ReadReport, Lockstep
    <2>2. CASE Comes({"eof", "bad"}) /\ OnlyTails(seen \o Outbox)
      <3>1. ~Holds(seen', "Load")
        BY <1>5, <2>2 DEF OnlyTails, Holds
      <3>2. Comes({"eof", "bad"})'
        BY <1>0, <2>2 DEF Comes, Loader
      <3>3. Reported'
        BY <1>4, <2>2, <3>1, <3>2 DEF Reported, Holds
      <3> QED BY <1>0, <2>1, <3>1, <3>3 DEF Lockstep, Greeting
    <2>3. CASE Inbox = <<>> /\ Report(seen \o Outbox)
      <3>1. CASE Holds(seen', "Load")
        BY <1>0, <1>4, <2>1, <2>3, <3>1 DEF Lockstep, Greeting
      <3>2. CASE ~Holds(seen', "Load")
        <4>1. Reported'
          BY <1>0, <1>4, <2>3, <3>2 DEF Reported, Holds
        <4> QED BY <1>0, <2>1, <3>2, <4>1 DEF Lockstep, Greeting
      <3> QED BY <3>1, <3>2
    <2>4. CASE Inbox = <<>> /\ Rejects(seen \o Outbox)
      <3>1. ~Holds(seen', "Load")
        BY <1>5, <2>4 DEF Rejects, Holds
      <3>2. Reported'
        BY <1>0, <1>4, <2>4, <3>1 DEF Reported, Holds
      <3> QED BY <1>0, <2>1, <3>1, <3>2 DEF Lockstep, Greeting
    <2> QED BY <2>1, <2>2, <2>3, <2>4 DEF Reported
  <1>7. CASE ReadRest
    <2>1. Inbox = <<>> /\ Report(seen \o Outbox)
      BY <1>7 DEF ReadRest, Lockstep
    <2>2. CASE EndsLine(seen')
      <3>1. Report(seen' \o Outbox')
        BY <1>2, <2>1
      <3>2. Sound(seen')
        BY <1>3, <2>2, <3>1, ReportRead
      <3>3. host' = "settle R"
        BY <1>7, <2>2, <3>2 DEF ReadRest, Judge
      <3> QED BY <1>0, <3>3 DEF Lockstep, Greeting
    <2>3. CASE ~EndsLine(seen')
      <3>1. host' = "rest"
        BY <1>7, <2>3 DEF ReadRest
      <3> QED BY <1>0, <1>4, <2>1, <3>1 DEF Lockstep, Greeting
    <2> QED BY <2>2, <2>3
  <1> QED BY <1>6, <1>7

\* The program waits in vain only for the report of a rejected end-of-file record.
LEMMA LockstepTimeout ==
  ASSUME TypeOK, TypeOK', Position, Lockstep, Timeout, Quiet
  PROVE  Lockstep'
  <1>0. UNCHANGED <<upload, seen, toBoard, toHost, boardVars>> /\ host \in Waiting /\ upload # 0
    <2>1. UNCHANGED <<upload, seen, toBoard, toHost, boardVars>> /\ host \in Waiting /\ host # "ended"
      BY DEF Timeout, Waiting
    <2>2. upload >= 1
      BY <2>1 DEF Position
    <2> QED BY <2>1, <2>2
  <1>1. toBoard = <<>> /\ toHost = <<>> /\ printing = <<>> /\ Outbox = <<>> /\ Len(Outbox) = 0
    BY DEF Quiet, Outbox
  <1>2. seen \o Outbox = seen /\ Outbox \o seen = seen
    <2>1. seen \in Seq(Words)
      BY DEF TypeOK
    <2> QED BY <1>1, <2>1
  <1>3. ~Opening /\ ~Opened /\ ~Answered /\ \A types : ~Comes(types)
    BY <1>1 DEF Opening, Opened, Answered, Comes, Holds
  <1>4. CASE host = "report"
    <2>1. Holds(seen, "X")
      BY <1>2, <1>3, <1>4 DEF Lockstep, Reported, Report, Rejects
    <2>2. host' = "ended" /\ Holds(seen, "X")'
      BY <1>0, <1>4, <2>1 DEF Timeout, Holds
    <2> QED BY <1>0, <2>2 DEF Lockstep, Greeting
  <1>5. CASE host = "rest"
    <2>1. Report(seen \o Outbox)
      BY <1>5 DEF Lockstep
    <2>2. seen \in Seq(Words) /\ Outbox \in Seq(Words)
      BY BoxType DEF TypeOK
    <2>3. EndsLine(seen)
      BY <1>2, <2>1 DEF Report, EndsLine, Holds
    <2>4. Sound(seen)
      BY <2>1, <2>2, <2>3, ReportRead
    <2>5. host' = "settle R"
      BY <1>5, <2>4 DEF Timeout, Judge
    <2> QED BY <1>0, <2>5 DEF Lockstep, Greeting
  <1>6. host \notin {"ready", "answer"}
    BY <1>3 DEF Lockstep
  <1> QED BY <1>0, <1>4, <1>5, <1>6 DEF Waiting

LEMMA LockstepStep ==
  ASSUME TypeOK, TypeOK', Position, Undisturbed => Sequential, Calm => Lockstep, [Next]_vars
  PROVE  Calm' => Lockstep'
  <1> SUFFICES ASSUME Calm' PROVE Lockstep'
    OBVIOUS
  <1>1. CASE UNCHANGED vars
    <2>1. UNCHANGED <<hostVars, toBoard, board, damaged, faults, upload>>
      BY <1>1 DEF vars, boardVars, hostVars
    <2>2. Inbox' = Inbox /\ Outbox' = Outbox
      BY <1>1, Kept DEF vars, boardVars
    <2>3. Calm
      BY <2>1 DEF Calm
    <2> QED BY <2>1, <2>2, <2>3, LockstepKept
  <1>2. CASE Next
    <2>1. /\ Lockstep /\ Sequential /\ ~Dies /\ ~LoseAnswer /\ ~Reset
          /\ (Timeout => Quiet) /\ (StartUpload => upload = 0) /\ faults["checksum"] \in Nat
      BY <1>2, CalmBefore
    <2>2. CASE StartUpload \/ Settle \/ TypeCharacter
      BY <2>1, <2>2, LockstepTyped
    <2>3. CASE WriteRecord \/ WriteEndOfFile
      BY <1>2, <2>1, <2>3, LockstepWritten DEF Sequential
    <2>4. CASE ReadReady \/ ReadOther \/ ReadAccepted \/ ReadRejected
      BY <1>2, <2>1, <2>4, LockstepAnswer
    <2>5. CASE ReadReport \/ ReadRest
      BY <2>1, <2>5, LockstepReport
    <2>6. CASE Timeout
      BY <2>1, <2>6, LockstepTimeout
    <2>7. CASE ReadsCommand
      BY <2>1, <2>7, LockstepCommand
    <2>8. CASE ReadsRecord
      BY <2>1, <2>8, LockstepRecord
    <2>9. CASE ProgramReads \/ ProgramReturns
      <3>1. board = "running" /\ UNCHANGED <<host, upload, result, seen, attempt>>
        BY <2>9 DEF ProgramReads, ProgramReturns, hostVars
      <3>2. ~Idle /\ ~Opening /\ ~Opened /\ ~Answered /\ ~Loader
        BY <3>1 DEF Idle, Opening, Opened, Answered, Comes, Loader
      <3>3. /\ host \notin {"settle L", "L", "L cr", "ready", "write", "eof", "answer"} /\ upload # 0
            /\ host = "ended" => result \in {"none", "ok", "refused"} \/ Holds(seen, "X")
        BY <2>1, <3>1, <3>2 DEF Lockstep
      <3>4. host \notin {"report", "rest"}
        <4>1. host \in {"report", "rest"} => Reporting
          BY <2>1 DEF Sequential, Speaking
        <4> QED BY <3>1, <4>1 DEF Reporting
      <3>5. Holds(seen, "X")' = Holds(seen, "X")
        BY <3>1 DEF Holds
      <3> QED BY <3>1, <3>3, <3>4, <3>5 DEF Lockstep, Greeting
    <2>10. CASE Prints
      BY <2>1, <2>10, Kept, PrintedKept, LockstepKept DEF Prints
    <2>11. CASE Done
      BY <2>1, <2>11, Kept, LockstepKept DEF Done, vars, boardVars
    <2> QED BY <1>2, <2>1, <2>2, <2>3, <2>4, <2>5, <2>6, <2>7, <2>8, <2>9, <2>10, <2>11
            DEF Next, HostNext, BoardNext
  <1> QED BY <1>1, <1>2

LEMMA InitLockstep == Init => Lockstep
  <1> SUFFICES ASSUME Init PROVE Lockstep
    OBVIOUS
  <1>1. Inbox = <<>> /\ Outbox = <<>>
    BY DEF Init, Inbox, Outbox
  <1> QED BY <1>1 DEF Init, Lockstep, Idle, Greeting

LEMMA InStep == Spec => [](Calm => Lockstep)
  <1>1. IndInv /\ (Calm => Lockstep) /\ [Next]_vars => (Calm => Lockstep)'
    <2> SUFFICES ASSUME IndInv, Calm => Lockstep, [Next]_vars PROVE Calm' => Lockstep'
      OBVIOUS
    <2>1. TypeOK /\ Position /\ (Undisturbed => Sequential) /\ TypeOK'
      BY NextIndInv DEF IndInv
    <2> QED BY <2>1, LockstepStep
  <1> QED BY <1>1, InitLockstep, Inductive, PTL DEF Spec

\* With max_retries as many as there are damaged records, the first upload to a
\* board with nothing else amiss succeeds, for every max_retries.
THEOREM RejectionsOutlived == Spec => []EnoughRetries
  <1>1. ASSUME IndInv, Calm => Lockstep PROVE EnoughRetries
    <2> SUFFICES ASSUME upload = 1, \A k \in Kinds \ {"checksum"} : faults[k] = 0, faults["checksum"] <= MaxRetries
                 PROVE  result \in {"none", "ok", "refused"} \/ Holds(seen, "X")
      BY DEF EnoughRetries
    <2>1. Calm
      BY DEF Calm
    <2>2. host # "ended" => result = "none"
      BY <1>1 DEF IndInv, Position
    <2> QED BY <1>1, <2>1, <2>2 DEF Lockstep
  <1> QED BY <1>1, Inductive, InStep, PTL
====
