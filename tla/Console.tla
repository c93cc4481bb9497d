---- MODULE Console ----
(***************************************************************************)
(* The interactive session of serial::console: a thread that forwards      *)
(* standard input to the board or the emulator, the main loop that shows   *)
(* what comes back, and the flag `running` they share.                     *)
(***************************************************************************)
EXTENDS Integers, Sequences, FiniteSets

CONSTANTS
    SessionKinds,   \* the kinds of session tried, of "Uart" and "Emulator"
    Faults,         \* which faults may happen
    MaxKeys,        \* bound: keys typed
    MaxPrinted      \* bound: bytes the device prints

ASSUME ConsoleAssumption ==
    /\ SessionKinds \subseteq {"Uart", "Emulator"}
    /\ Faults \subseteq {"closes", "fails", "stalls", "write", "eof"}
    /\ MaxKeys \in Nat
    /\ MaxPrinted \in Nat

Keys == {"key", "quit"}             \* "quit" is Ctrl-C or Ctrl-]
Bytes == {"x", "cr", "lf"}

VARIABLES
    kind,           \* ConsoleKind
    is_raw,         \* the terminal is in raw mode; it is not when stdin is a file
    running,        \* the flag the threads share
    input,          \* where the stdin thread is
    chunk,          \* what its last read brought and it has yet to write
    main,           \* where the main loop is, or how it ended
    stdin,          \* "open", or at its end
    typed,          \* every key typed so far
    taken,          \* how many of them have been read
    received,       \* the keys the device has been sent
    device,         \* the far end: open, open but taking no input, closed, failed
    printed,        \* every byte the device has printed so far
    read,           \* how many of them have been read
    last_was_cr,
    shown           \* what has been written to standard output

inputVars == <<input, chunk, taken, received>>
mainVars == <<main, read, last_was_cr, shown>>
userVars == <<stdin, typed>>
deviceVars == <<device, printed>>
session == <<kind, is_raw>>
consoleVars == <<session, running, inputVars, mainVars, userVars, deviceVars>>

ConsoleInit ==
    /\ kind \in SessionKinds /\ is_raw \in BOOLEAN
    /\ running = TRUE
    /\ input = "check" /\ chunk = <<>> /\ taken = 0 /\ received = <<>>
    /\ main = "check" /\ read = 0 /\ last_was_cr = FALSE /\ shown = <<>>
    /\ stdin = "open" /\ typed = <<>>
    /\ device = "open" /\ printed = <<>>

Ended == {"quit", "closed", "error"}

\* Once the function has returned the process goes, and the thread with it.
Alive == main \notin Ended

Holds(keys, key) == \E i \in 1 .. Len(keys) : keys[i] = key

(***************************************************************************)
(* The stdin thread                                                        *)
(***************************************************************************)
InputChecks ==
    /\ Alive /\ input = "check"
    /\ input' = IF running THEN "read" ELSE "gone"
    /\ UNCHANGED <<session, running, chunk, taken, received, mainVars, userVars, deviceVars>>

\* A slip the runs must catch: only the first byte of a chunk is looked at.
QuitsFirst(keys) == Head(keys) = "quit"

Quits(keys) == Holds(keys, "quit")

\* One read takes some of what has been typed.  A chunk with a quit key in it is
\* dropped whole, the keys before the quit key with it.
InputReads ==
    /\ Alive /\ input = "read"
    /\ \E n \in taken + 1 .. Len(typed) :
          LET keys == SubSeq(typed, taken + 1, n)
          IN  /\ taken' = n
              /\ IF Quits(keys)
                 THEN running' = FALSE /\ input' = "gone" /\ UNCHANGED chunk
                 ELSE chunk' = keys /\ input' = "write" /\ UNCHANGED running
    /\ UNCHANGED <<session, received, mainVars, userVars, deviceVars>>

\* The end of stdin, or an error of it, ends the thread and nothing else.
\* A slip the runs must catch: it ends the session.
InputEndsAll ==
    /\ Alive /\ input = "read" /\ stdin = "ended" /\ taken = Len(typed)
    /\ input' = "gone" /\ running' = FALSE
    /\ UNCHANGED <<session, chunk, taken, received, mainVars, userVars, deviceVars>>

InputEnds ==
    /\ Alive /\ input = "read"
    /\ stdin = "ended" /\ taken = Len(typed)
    /\ input' = "gone"
    /\ UNCHANGED <<session, running, chunk, taken, received, mainVars, userVars, deviceVars>>

\* write_all, one key after the other; then the loop's check.
InputWrites ==
    /\ Alive /\ input = "write"
    /\ device # "stalled"
    /\ received' = Append(received, Head(chunk))
    /\ chunk' = Tail(chunk)
    /\ input' = IF Len(chunk) = 1 THEN "check" ELSE "write"
    /\ UNCHANGED <<session, running, taken, mainVars, userVars, deviceVars>>

\* A serial port that takes nothing before its timeout fails the write, and so
\* does a stream that is closed.  The thread ends and tells nobody.  A socket
\* has no write timeout: with a far end that takes nothing the thread waits.
InputWriteFails ==
    /\ Alive /\ input = "write"
    /\ \/ "write" \in Faults
       \/ device \in {"closed", "failed"}
       \/ device = "stalled" /\ kind = "Uart"
    /\ input' = "gone"
    /\ UNCHANGED <<session, running, chunk, taken, received, mainVars, userVars, deviceVars>>

InputNext == InputChecks \/ InputReads \/ InputEnds \/ InputWrites \/ InputWriteFails

(***************************************************************************)
(* The main loop                                                           *)
(***************************************************************************)
\* A slip the runs must catch: the flag is not looked at again.
MainChecksNot ==
    /\ main = "check"
    /\ main' = "read"
    /\ UNCHANGED <<session, running, inputVars, read, last_was_cr, shown, userVars, deviceVars>>

MainChecks ==
    /\ main = "check"
    /\ main' = IF running THEN "read" ELSE "quit"
    /\ UNCHANGED <<session, running, inputVars, read, last_was_cr, shown, userVars, deviceVars>>

\* A slip the runs must catch: each read starts as if nothing came before it.
BeforeForgets(i) == IF i > read + 1 THEN printed[i - 1] = "cr" ELSE FALSE

\* Whether the byte before the i-th was a carriage return, as last_was_cr has it.
Before(i) == IF i > read + 1 THEN printed[i - 1] = "cr" ELSE last_was_cr

\* What one byte is shown as.
Shown(i) ==
    IF is_raw /\ printed[i] = "lf" /\ ~Before(i) THEN <<"cr", "lf">> ELSE <<printed[i]>>

\* The bytes from..to, each as it is shown.
ShownUpTo(to) ==
    LET show[i \in read .. to] ==
            IF i = read THEN <<>> ELSE show[i - 1] \o Shown(i)
    IN  show[to]

MainReads ==
    /\ main = "read"
    /\ \E n \in read + 1 .. Len(printed) :
          /\ read' = n
          /\ shown' = shown \o ShownUpTo(n)
          /\ last_was_cr' = IF is_raw THEN printed[n] = "cr" ELSE last_was_cr
    /\ main' = "check"
    /\ UNCHANGED <<session, running, inputVars, userVars, deviceVars>>

\* A read that times out, or a serial port with nothing to say.
MainQuiet ==
    /\ main = "read"
    /\ read = Len(printed)
    /\ device \in {"open", "stalled"}
    /\ main' = "check"
    /\ UNCHANGED <<session, running, inputVars, read, last_was_cr, shown, userVars, deviceVars>>

Closed == device = "closed" /\ read = Len(printed)

\* A read of no bytes: the emulator has closed its end, all it printed was read.
MainCloses ==
    /\ main = "read"
    /\ Closed
    /\ kind = "Emulator"
    /\ main' = "closed"
    /\ UNCHANGED <<session, running, inputVars, read, last_was_cr, shown, userVars, deviceVars>>

\* Any other error, such as a serial adapter pulled out.
MainFails ==
    /\ main = "read"
    /\ device = "failed"
    /\ main' = "error"
    /\ running' = FALSE
    /\ UNCHANGED <<session, inputVars, read, last_was_cr, shown, userVars, deviceVars>>

MainNext == MainChecks \/ MainReads \/ MainQuiet \/ MainCloses \/ MainFails

(***************************************************************************)
(* The user and the device                                                 *)
(***************************************************************************)
Types ==
    /\ Alive /\ stdin = "open"
    /\ Len(typed) < MaxKeys
    /\ \E key \in Keys : typed' = Append(typed, key)
    /\ UNCHANGED <<session, running, inputVars, mainVars, stdin, deviceVars>>

EndOfInput ==
    /\ "eof" \in Faults
    /\ Alive /\ stdin = "open"
    /\ stdin' = "ended"
    /\ UNCHANGED <<session, running, inputVars, mainVars, typed, deviceVars>>

DevicePrints ==
    /\ Alive /\ device \in {"open", "stalled"}
    /\ Len(printed) < MaxPrinted
    /\ \E byte \in Bytes : printed' = Append(printed, byte)
    /\ UNCHANGED <<session, running, inputVars, mainVars, userVars, device>>

DeviceGoes ==
    /\ Alive
    /\ \/ "closes" \in Faults /\ kind = "Emulator"
          /\ device \in {"open", "stalled"} /\ device' = "closed"
       \/ "fails" \in Faults
          /\ device \in {"open", "stalled"} /\ device' = "failed"
       \/ "stalls" \in Faults
          /\ device = "open" /\ device' = "stalled"
    /\ UNCHANGED <<session, running, inputVars, mainVars, userVars, printed>>

Returned == ~Alive /\ UNCHANGED consoleVars

ConsoleNext ==
    \/ InputNext \/ MainNext
    \/ Types \/ EndOfInput \/ DevicePrints \/ DeviceGoes
    \/ Returned

ConsoleSpec == ConsoleInit /\ [][ConsoleNext]_consoleVars

(***************************************************************************)
(* Both threads run; the main loop's read always comes back, by its        *)
(* timeout.  Nobody owes the program a key, a byte or a fault.             *)
(***************************************************************************)
Fairness ==
    /\ WF_consoleVars(InputNext)
    /\ WF_consoleVars(MainNext)

FairSpec == ConsoleSpec /\ Fairness

(***************************************************************************)
(* Properties                                                              *)
(***************************************************************************)

\* The one type invariant: what each variable of console() holds.
ConsoleTypeOK ==
    /\ kind \in SessionKinds /\ is_raw \in BOOLEAN /\ running \in BOOLEAN
    /\ input \in {"check", "read", "write", "gone"}
    /\ main \in {"check", "read"} \union Ended
    /\ chunk \in Seq(Keys) /\ typed \in Seq(Keys) /\ received \in Seq(Keys)
    /\ stdin \in {"open", "ended"} /\ device \in {"open", "stalled", "closed", "failed"}
    /\ taken \in 0 .. Len(typed) /\ read \in 0 .. Len(printed)
    /\ printed \in Seq(Bytes) /\ shown \in Seq(Bytes)
    /\ last_was_cr \in BOOLEAN

\* The device is sent what was typed, in order, and never a quit key nor
\* anything typed after one, however the reads cut what was typed.
ForwardsInOrder ==
    \A i \in 1 .. Len(received) : received[i] = typed[i] /\ typed[i] # "quit"

\* A carriage return is added before a line feed that has none before it, and
\* the n-th byte is shown behind those that were added up to it.
Adds(n) == is_raw /\ printed[n] = "lf" /\ (n = 1 \/ printed[n - 1] # "cr")
PlaceOf(n) == n + Cardinality({i \in 1 .. n : Adds(i)})

\* Neither a carriage return nor a line feed is lost or added by the place where
\* a read ends: every byte read is shown, in order, with a carriage return before
\* each line feed in raw mode that lacks one, and nothing else is shown.
ShownAsPrinted ==
    /\ Len(shown) = PlaceOf(read)
    /\ \A n \in 1 .. read :
          /\ shown[PlaceOf(n)] = printed[n]
          /\ Adds(n) => shown[PlaceOf(n) - 1] = "cr"

\* An emulator that exits has everything it printed shown before the session
\* ends, unless the user ended it first.
ShowsTheLast == main = "closed" => read = Len(printed)

\* All is of its type, and what the device prints is shown: every byte, as it was
\* printed, before the session ends.
OutputOK == ConsoleTypeOK /\ ShownAsPrinted /\ ShowsTheLast

\* The end of stdin "only stops forwarding input": without a quit key a session
\* goes on until the device closes or fails.
OnlyQuitEnds ==
    main \in Ended =>
        Holds(SubSeq(typed, 1, taken), "quit") \/ device \in {"closed", "failed"}

\* A quit key that is typed ends the session, except behind keys the device did
\* not take: those are the only ways the stdin thread stops hearing the user.
QuitEnds ==
    Holds(typed, "quit") ~>
        (main \in Ended \/ (input = "gone" /\ chunk # <<>>) \/ device = "stalled")

\* "a closed stream means it exited": an emulator that goes ends its session,
\* whatever the stdin thread is waiting for.
ExitEnds == device \in {"closed", "failed"} ~> main \in Ended

\* A session ends when it is asked to, and when what it shows has gone.
SessionEnds == QuitEnds /\ ExitEnds

\* The banner: "press Ctrl-C to exit".  The code keeps this but for what QuitEnds
\* excepts: a write that fails once is a counterexample, and no run checks this.
CtrlCEnds == Holds(typed, "quit") ~> main \in Ended
====
