---- MODULE HexUpload ----
(***************************************************************************)
(* The rosco_6502 upload of src/ihex.rs: `L` typed at the EWozMon prompt,  *)
(* one Intel hex record at a time, the end-of-file record, the monitor's   *)
(* report, and the command that starts the program.  The same board may be *)
(* uploaded to again after an upload that failed or was killed.            *)
(*                                                                         *)
(* What the program writes is a sequence of pieces: the characters of a    *)
(* command one by one, as they are typed, and a record as its text, its    *)
(* carriage return and its line feed.  The monitor is external: the one    *)
(* send_program relies on, as the fake of the unit tests has it.           *)
(***************************************************************************)
EXTENDS Integers, Sequences

CONSTANTS
    RecordLength,   \* bytes in a record, 16 in the code
    MemorySize,     \* addresses the board has, 2^16 in the code
    Loads,          \* the values of upload.load_address tried
    Sizes,          \* the program sizes tried
    MaxRetries,     \* upload.max_retries
    MaxUploads,     \* bound: uploads in one behaviour
    Budget          \* bound: how many faults of each kind may happen

Kinds == {"checksum", "garble", "lose", "slow", "die", "reset"}

ASSUME HexAssumption ==
    /\ RecordLength \in Nat \ {0}
    /\ MemorySize \in Nat \ {0}
    /\ Loads \subseteq 0 .. MemorySize - 1
    /\ Sizes \subseteq Nat
    /\ MaxRetries \in Nat
    /\ MaxUploads \in Nat
    /\ Budget \in [Kinds -> Nat]

VARIABLES
    host,           \* where send_program is; "ended" between uploads
    upload,         \* the upload under way or last ended, 0 before the first
    load, size,     \* its address and its length
    idx,            \* the record being sent, from 1
    attempt,        \* send_record's attempt, from 0
    reported,       \* bytes in the last progress report
    seen,           \* what wait_for and read_rest_of_line have read
    result,         \* how the last upload ended
    toBoard,        \* the pieces on the line to the board
    toHost,         \* what the board has printed and nobody has read
    printing,       \* what the board is still printing
    board,          \* the monitor at its prompt, loading, or the program
    line,           \* the monitor's input line
    damaged,        \* the load under way is no longer sound
    memory,         \* which upload wrote each address, 0 for none
    started,        \* the program the monitor was last told to start
    faults          \* faults so far, by kind

hostVars == <<host, upload, load, size, idx, attempt, reported, seen, result>>
boardVars == <<printing, board, line, damaged, memory, started>>
vars == <<hostVars, toBoard, toHost, boardVars, faults>>

Addresses == 0 .. MemorySize - 1
Uploads == 1 .. MaxUploads

Waiting == {"ready", "answer", "report", "rest"}
Typing == {"L", "L cr", "digits", "R", "R cr"}
Phases == {"ended", "settle L", "settle R", "write", "eof"} \union Waiting \union Typing
Results == {"none", "ok", "refused", "silent", "rejected", "unsound", "died"}

\* Also a start at some other address: the command's digits were lost.
NoProgram == [upload |-> 0, addr |-> 0, len |-> 0]

(***************************************************************************)
(* Records                                                                 *)
(***************************************************************************)

\* A slip the runs must catch: the last, shorter chunk is dropped.
NumRecordsWhole == size \div RecordLength

NumRecords == (size + RecordLength - 1) \div RecordLength

\* A slip the runs must catch: one byte past the last address still fits.
FitsOneMore(l, s) == l + s <= MemorySize + 1

Fits(l, s) == l + s <= MemorySize

\* The bytes the first n records hold.
BytesIn(n) == IF n * RecordLength < size THEN n * RecordLength ELSE size

Piece(type) == [type |-> type, addr |-> load, len |-> size, upload |-> upload]

\* The n-th record.  The address is a u16: it wraps.
Record(n) == [type |-> "data", addr |-> (load + (n - 1) * RecordLength) % MemorySize,
              len |-> BytesIn(n) - BytesIn(n - 1), upload |-> upload]

EndOfFile == Piece("eof")

(***************************************************************************)
(* What can arrive of a record: itself; a text whose checksum is wrong;    *)
(* or a text with no colon, with no line feed, with one in the middle.     *)
(***************************************************************************)
Written(rec) == <<rec, Piece("cr"), Piece("lf")>>

Garbled(rec) ==
    LET bad == Piece("bad")
        junk == Piece("junk")
        cr == Piece("cr")
        lf == Piece("lf")
    IN  {<<junk, cr, lf>>, <<rec, cr>>, <<bad, lf, junk, cr, lf>>}

Init ==
    /\ host = "ended" /\ upload = 0 /\ load = 0 /\ size = 0
    /\ idx = 0 /\ attempt = 0 /\ reported = 0 /\ seen = <<>> /\ result = "none"
    /\ toBoard = <<>> /\ toHost = <<>> /\ printing = <<>>
    /\ board = "prompt" /\ line = <<>> /\ damaged = FALSE
    /\ memory = [a \in Addresses |-> 0]
    /\ started = NoProgram
    /\ faults = [k \in Kinds |-> 0]

Fault(kind) ==
    /\ faults[kind] < Budget[kind]
    /\ faults' = [faults EXCEPT ![kind] = @ + 1]

(***************************************************************************)
(* The program                                                             *)
(***************************************************************************)

\* An empty program, and one that runs past the last address, are refused
\* before anything is written.
StartUpload ==
    /\ host = "ended"
    /\ upload < MaxUploads
    /\ upload' = upload + 1
    /\ \E l \in Loads, s \in Sizes :
          /\ load' = l /\ size' = s
          /\ IF s > 0 /\ Fits(l, s)
             THEN host' = "settle L" /\ result' = "none"
             ELSE host' = "ended" /\ result' = "refused"
    /\ idx' = 1 /\ attempt' = 0 /\ reported' = 0 /\ seen' = <<>>
    /\ UNCHANGED <<toBoard, toHost, boardVars, faults>>

After(phase) ==
    CASE phase = "settle L" -> "L"
      [] phase = "L" -> "L cr"
      [] phase = "L cr" -> "ready"
      [] phase = "settle R" -> "digits"
      [] phase = "digits" -> "R"
      [] phase = "R" -> "R cr"
      [] phase = "R cr" -> "ended"

\* A slip the runs must catch: a command is typed over whatever is printed.
SettleNot ==
    /\ host \in {"settle L", "settle R"}
    /\ host' = After(host)
    /\ UNCHANGED <<upload, load, size, idx, attempt, reported, seen, result,
                   toBoard, toHost, boardVars, faults>>

\* settle reads and drops until the board is quiet.  Its limit of two seconds is
\* for a board that never stops printing, which a monitor's report does.
Settle ==
    /\ host \in {"settle L", "settle R"}
    /\ printing = <<>>
    /\ toHost' = <<>>
    /\ host' = After(host)
    /\ UNCHANGED <<upload, load, size, idx, attempt, reported, seen, result,
                   toBoard, boardVars, faults>>

\* A slip the runs must catch: a command ends like a record, in a line feed.
KeysLineFeed == IF host \in {"L cr", "R cr"} THEN <<Piece("cr"), Piece("lf")>> ELSE <<Piece(host)>>

Keys == IF host \in {"L cr", "R cr"} THEN <<Piece("cr")>> ELSE <<Piece(host)>>

\* One keystroke of write_command.  A board that is printing may miss it.
TypeCharacter ==
    /\ host \in Typing
    /\ \/ toBoard' = toBoard \o Keys
       \/ printing # <<>> /\ UNCHANGED toBoard
    /\ host' = After(host)
    /\ result' = IF host = "R cr" THEN "ok" ELSE result
    /\ UNCHANGED <<upload, load, size, idx, attempt, reported, seen,
                   toHost, boardVars, faults>>

WriteLine(rec) ==
    \/ toBoard' = toBoard \o Written(rec) /\ UNCHANGED faults
    \/ toBoard' = toBoard \o Written(Piece("bad")) /\ Fault("checksum")
    \/ Fault("garble") /\ \E text \in Garbled(rec) : toBoard' = toBoard \o text

\* One turn of send_record up to its answer.
WriteRecord ==
    /\ host = "write"
    /\ WriteLine(Record(idx))
    /\ host' = "answer"
    /\ UNCHANGED <<upload, load, size, idx, attempt, reported, seen, result, toHost, boardVars>>

\* The end-of-file record, which has no answer of its own and is sent once.
WriteEndOfFile ==
    /\ host = "eof"
    /\ WriteLine(EndOfFile)
    /\ host' = "report" /\ seen' = <<>>
    /\ UNCHANGED <<upload, load, size, idx, attempt, reported, result, toHost, boardVars>>

\* Some of what the board has printed arrives in one read.
Chunk(k) == SubSeq(toHost, 1, k)
Holds(seq, text) == \E i \in 1 .. Len(seq) : seq[i] = text

\* wait_for(READY): whatever comes before it is read past.
ReadReady ==
    /\ host = "ready"
    /\ \E k \in 1 .. Len(toHost) :
          /\ toHost' = SubSeq(toHost, k + 1, Len(toHost))
          /\ host' = IF Holds(Chunk(k), "READY") THEN "write" ELSE "ready"
    /\ UNCHANGED <<upload, load, size, idx, attempt, reported, seen, result,
                   toBoard, boardVars, faults>>

ReadOther ==
    /\ host = "answer"
    /\ toHost # <<>> /\ Head(toHost) \notin {".", "X"}
    /\ toHost' = Tail(toHost)
    /\ UNCHANGED <<hostVars, toBoard, boardVars, faults>>

\* A slip the runs must catch: any answer counts.
AcceptsAny(word) == word \in {".", "X"}

Accepts(word) == word = "."

ReadAccepted ==
    /\ host = "answer"
    /\ toHost # <<>> /\ Accepts(Head(toHost))
    /\ toHost' = Tail(toHost)
    /\ reported' = BytesIn(idx)
    /\ idx' = idx + 1
    /\ attempt' = 0
    /\ host' = IF idx < NumRecords THEN "write" ELSE "eof"
    /\ UNCHANGED <<upload, load, size, seen, result, toBoard, boardVars, faults>>

MayRetry == attempt < MaxRetries

ReadRejected ==
    /\ host = "answer"
    /\ toHost # <<>> /\ Head(toHost) = "X"
    /\ toHost' = Tail(toHost)
    /\ \/ /\ MayRetry
          /\ attempt' = attempt + 1
          /\ host' = "write"
          /\ UNCHANGED result
       \/ /\ ~MayRetry
          /\ host' = "ended" /\ result' = "rejected"
          /\ UNCHANGED attempt
    /\ UNCHANGED <<upload, load, size, idx, reported, seen, toBoard, boardVars, faults>>

\* wait_for(FINISHED), which keeps all it has read.
ReadReport ==
    /\ host = "report"
    /\ \E k \in 1 .. Len(toHost) :
          /\ toHost' = SubSeq(toHost, k + 1, Len(toHost))
          /\ seen' = seen \o Chunk(k)
          /\ host' = IF Holds(seen', "Load") THEN "rest" ELSE "report"
    /\ UNCHANGED <<upload, load, size, idx, attempt, reported, result,
                   toBoard, boardVars, faults>>

\* The report is what follows the last `Load `.
Sound(text) ==
    \E i \in 1 .. Len(text) :
        /\ text[i] = "successful"
        /\ \A j \in i + 1 .. Len(text) : text[j] # "Load"

\* A slip the runs must catch: a bad report is told, and the upload goes on.
JudgeGoesOn(text) ==
    host' = "settle R" /\ result' = IF Sound(text) THEN result ELSE "unsound"

Judge(text) ==
    IF Sound(text) THEN host' = "settle R" /\ result' = result
                   ELSE host' = "ended" /\ result' = "unsound"

EndsLine(text) == Holds(text, "successful") \/ Holds(text, "error")

\* read_rest_of_line, up to the word that tells; it also looks after a read
\* that brought nothing.
ReadRest ==
    /\ host = "rest"
    /\ \E k \in 0 .. Len(toHost) :
          /\ k > 0 \/ EndsLine(seen)
          /\ toHost' = SubSeq(toHost, k + 1, Len(toHost))
          /\ seen' = seen \o Chunk(k)
    /\ IF EndsLine(seen') THEN Judge(seen') ELSE UNCHANGED <<host, result>>
    /\ UNCHANGED <<upload, load, size, idx, attempt, reported, toBoard, boardVars, faults>>

Quiet == toHost = <<>> /\ printing = <<>> /\ toBoard = <<>>

\* A deadline passes.  With something still to come the board is slow, and that
\* is a fault.  Silence only ends the line of a report that has begun.
Timeout ==
    /\ host \in Waiting
    /\ \/ Quiet /\ UNCHANGED faults
       \/ ~Quiet /\ Fault("slow")
    /\ IF host = "rest" THEN Judge(seen) ELSE host' = "ended" /\ result' = "silent"
    /\ UNCHANGED <<upload, load, size, idx, attempt, reported, seen, toBoard, toHost, boardVars>>

\* The port fails, or the program is interrupted, at any point; the last
\* keystroke may have gone out all the same.
Dies ==
    /\ host # "ended"
    /\ Fault("die")
    /\ \/ UNCHANGED toBoard
       \/ host = "R cr" /\ toBoard' = Append(toBoard, Piece("cr"))
    /\ host' = "ended" /\ result' = "died"
    /\ UNCHANGED <<upload, load, size, idx, attempt, reported, seen, toHost, boardVars>>

HostNext ==
    \/ Settle \/ TypeCharacter \/ WriteRecord \/ WriteEndOfFile
    \/ ReadReady \/ ReadOther \/ ReadAccepted \/ ReadRejected \/ ReadReport \/ ReadRest
    \/ Timeout

(***************************************************************************)
(* The board                                                               *)
(***************************************************************************)
Types(pieces) == [i \in 1 .. Len(pieces) |-> pieces[i].type]
LineFeed(piece) == piece.type = "lf"

Keeps(text) == printing' = printing \o text

\* A line at the prompt ends at its carriage return.
Command ==
    \/ /\ Types(line) = <<"L">>
       /\ board' = "loading" /\ damaged' = FALSE
       /\ Keeps(<<"READY", "tail">>)
       /\ UNCHANGED started
    \/ /\ Types(line) \in {<<"digits", "R">>, <<"R">>}
       /\ board' = "running"
       /\ started' = IF Len(line) = 2
                     THEN [upload |-> line[1].upload, addr |-> line[1].addr, len |-> line[1].len]
                     ELSE NoProgram
       /\ UNCHANGED <<printing, damaged>>
    \/ /\ Types(line) \notin {<<"L">>, <<"digits", "R">>, <<"R">>}
       /\ UNCHANGED <<printing, board, damaged, started>>

\* The prompt has no use for a line feed.
ReadsCommand ==
    /\ board = "prompt"
    /\ toBoard # <<>>
    /\ toBoard' = Tail(toBoard)
    /\ \/ Head(toBoard).type = "cr" /\ Command /\ line' = <<>>
       \/ /\ Head(toBoard).type # "cr"
          /\ line' = IF LineFeed(Head(toBoard)) THEN line ELSE Append(line, Head(toBoard))
          /\ UNCHANGED <<printing, board, damaged, started>>
    /\ UNCHANGED <<hostVars, toHost, memory, faults>>

Colon(piece) == piece.type \in {"data", "eof", "bad"}

Covers(rec, a) == \E i \in 0 .. rec.len - 1 : a = (rec.addr + i) % MemorySize

\* A loader's line ends at its line feed, and its record begins at its colon.
LoadRecord(rec) ==
    CASE rec.type = "bad" ->
           Keeps(<<"X">>) /\ UNCHANGED <<board, damaged, memory>>
      [] rec.type = "data" ->
           /\ memory' = [a \in Addresses |-> IF Covers(rec, a) THEN rec.upload ELSE memory[a]]
           /\ Keeps(<<".">>)
           /\ UNCHANGED <<board, damaged>>
      [] rec.type = "eof" ->
           /\ board' = "prompt"
           /\ Keeps(<<"Load", IF damaged THEN "error" ELSE "successful", "tail">>)
           /\ UNCHANGED <<damaged, memory>>

Colons(text) == {i \in 1 .. Len(text) : Colon(text[i])}
FirstColon(text) == CHOOSE i \in Colons(text) : \A j \in Colons(text) : i <= j

ReadsRecord ==
    /\ board = "loading"
    /\ toBoard # <<>>
    /\ toBoard' = Tail(toBoard)
    /\ \/ /\ ~LineFeed(Head(toBoard))
          /\ line' = Append(line, Head(toBoard))
          /\ UNCHANGED <<printing, board, damaged, memory>>
       \/ /\ LineFeed(Head(toBoard)) /\ Colons(line) = {}
          /\ line' = <<>> /\ damaged' = TRUE
          /\ UNCHANGED <<printing, board, memory>>
       \/ /\ LineFeed(Head(toBoard)) /\ Colons(line) # {}
          /\ line' = <<>>
          /\ LoadRecord(line[FirstColon(line)])
    /\ UNCHANGED <<hostVars, toHost, started, faults>>

ProgramReads ==
    /\ board = "running"
    /\ toBoard # <<>>
    /\ toBoard' = Tail(toBoard)
    /\ UNCHANGED <<hostVars, toHost, boardVars, faults>>

\* A program that returns leaves the board at the prompt.
ProgramReturns ==
    /\ board = "running"
    /\ board' = "prompt" /\ line' = <<>>
    /\ Keeps(<<"tail">>)
    /\ UNCHANGED <<hostVars, toBoard, toHost, damaged, memory, started, faults>>

Prints ==
    /\ printing # <<>>
    /\ printing' = Tail(printing)
    /\ toHost' = Append(toHost, Head(printing))
    /\ UNCHANGED <<hostVars, toBoard, board, line, damaged, memory, started, faults>>

\* An answer lost on the line, or damaged into a byte that is no answer.
LoseAnswer ==
    /\ printing # <<>>
    /\ printing' = Tail(printing)
    /\ Fault("lose")
    /\ UNCHANGED <<hostVars, toBoard, toHost, board, line, damaged, memory, started>>

\* Somebody presses reset.
Reset ==
    /\ Fault("reset")
    /\ board' = "prompt" /\ line' = <<>> /\ damaged' = FALSE
    /\ toBoard' = <<>> /\ printing' = <<"tail">>
    /\ UNCHANGED <<hostVars, toHost, memory, started>>

BoardNext == ReadsCommand \/ ReadsRecord \/ ProgramReads \/ Prints

Done ==
    /\ host = "ended" /\ upload = MaxUploads
    /\ toBoard = <<>> /\ printing = <<>>
    /\ UNCHANGED vars

Next ==
    \/ StartUpload \/ HostNext \/ Dies
    \/ BoardNext \/ ProgramReturns \/ LoseAnswer \/ Reset
    \/ Done

Spec == Init /\ [][Next]_vars

(***************************************************************************)
(* The sender is one thread whose every wait has a deadline, and a board   *)
(* with power reads its line and prints.  No fault, reset or return of a   *)
(* program is owed to anyone.                                              *)
(***************************************************************************)
Fairness ==
    /\ WF_vars(Settle \/ TypeCharacter \/ WriteRecord \/ WriteEndOfFile)
    /\ WF_vars(ReadReady \/ ReadOther \/ ReadAccepted \/ ReadRejected \/ ReadReport \/ ReadRest)
    /\ WF_vars(Quiet /\ Timeout)
    /\ WF_vars(ReadsCommand \/ ReadsRecord \/ ProgramReads)
    /\ WF_vars(Prints)

FairSpec == Spec /\ Fairness

(***************************************************************************)
(* Properties                                                              *)
(***************************************************************************)
Pieces == [type : {"L", "digits", "R", "cr", "lf", "data", "eof", "bad", "junk"},
           addr : Addresses, len : Nat, upload : Uploads]
Words == {"READY", "tail", ".", "X", "Load", "successful", "error"}

\* The one type invariant: what each variable of the upload in ihex.rs holds.
TypeOK ==
    /\ host \in Phases
    /\ upload \in 0 .. MaxUploads
    /\ load \in Addresses /\ size \in Nat
    /\ idx \in Nat /\ attempt \in 0 .. MaxRetries /\ reported \in 0 .. size
    /\ seen \in Seq(Words) /\ result \in Results
    /\ toBoard \in Seq(Pieces) /\ toHost \in Seq(Words) /\ printing \in Seq(Words)
    /\ board \in {"prompt", "loading", "running"}
    /\ line \in Seq(Pieces) /\ damaged \in BOOLEAN
    /\ memory \in [Addresses -> 0 .. MaxUploads]
    /\ started \in [upload : 0 .. MaxUploads, addr : Addresses, len : Nat]
    /\ faults \in [Kinds -> Nat]

Program(p) == p.addr .. p.addr + p.len - 1

\* A program the start command of send_program has set off is in memory whole:
\* every byte of it written by that very upload, over any earlier one's.
Whole == board = "running" => \A a \in Program(started) : memory[a] = started.upload

\* A progress report counts no byte the board has not stored, answers of an
\* earlier upload notwithstanding.
Honest == \A a \in load .. load + reported - 1 : memory[a] = upload

Undisturbed == faults["reset"] = 0

\* However many uploads were lost, killed or rejected before it, the program that
\* send_program starts is in memory whole, as long as nobody presses reset.
StartsWhole == Undisturbed => Whole

\* As long as nobody presses reset, no answer of an earlier upload or of an
\* earlier record is taken by send_record for the one it waits for.
ProgressHonest == Undisturbed => Honest

\* A reset at any point of the first two uploads to a board does no harm either.
\* Of the third this would not be true: the READY of a killed first upload, printed
\* before the reset and read by the second, puts the second's records ahead of the
\* monitor, and the third, if the second is killed too, takes their answers.
ResetHarmless == upload <= 2 => Whole /\ Honest

\* The records of an upload write inside the program's own addresses only: none
\* wraps past the last address, and no record's text outlives its upload.
WritesInside ==
    \A a \in Addresses : upload > 0 /\ memory[a] = upload => a \in load .. load + size - 1

\* Every variable is of its type - no attempt beyond max_retries, no progress past
\* the program's size - and so is the memory.
MemoryOK == TypeOK /\ WritesInside

\* An upload that was refused, rejected or not answered starts nothing, and never
\* will: no start command of it is on the line or in the monitor's buffer.
FailureStartsNothing ==
    result \in {"refused", "silent", "rejected", "unsound"} =>
        /\ started.upload # upload
        /\ \A i \in 1 .. Len(toBoard) : toBoard[i].type = "R" => toBoard[i].upload # upload
        /\ \A i \in 1 .. Len(line) : line[i].type = "R" => line[i].upload # upload

\* An upload that reported success has its program started, although nothing
\* confirms the start command: it is never half heard, as write_command's comment
\* fears ("which is how `0800R` becomes `080`"), unless a reset interrupts it.
SuccessStarts ==
    \A u \in Uploads :
        (upload = u /\ result = "ok") ~> (started.upload = u \/ faults["reset"] > 0)

\* Every upload ends, whatever the board does.
AlwaysEnds == host # "ended" ~> host = "ended"

\* Every upload comes to its end, and one that reported success to its start.
EndsAndStarts == AlwaysEnds /\ SuccessStarts

\* On a board at its prompt, and with no more records damaged than max_retries
\* and nothing else amiss, the upload succeeds; unless it is the end-of-file
\* record the board rejects, which `seen` tells.
EnoughRetries ==
    /\ upload = 1
    /\ \A k \in Kinds \ {"checksum"} : faults[k] = 0
    /\ faults["checksum"] <= MaxRetries
    => result \in {"none", "ok", "refused"} \/ Holds(seen, "X")

\* HexOptions: max_retries is "How many times a record rejected for its checksum
\* is sent again".  With nothing else amiss and fewer rejections than that, the
\* upload does not fail.  The code keeps this for data records only (EnoughRetries):
\* one rejected end-of-file record is a counterexample, and no run checks this.
RejectedIsSentAgain ==
    /\ \A k \in Kinds \ {"checksum"} : faults[k] = 0
    /\ faults["checksum"] <= MaxRetries
    => result \notin {"silent", "rejected", "unsound"}
====
