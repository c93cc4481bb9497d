---- MODULE Settings ----
(***************************************************************************)
(* The settings files of src/settings.rs and the layers src/config.rs      *)
(* makes of them: the user's file and the project's, read, changed and     *)
(* written back by rosco processes that do not lock them.  A file is       *)
(* truncated before it is written (fs::write).                             *)
(*                                                                         *)
(* The keys are the two of the emulator, the only ones another part of the *)
(* program writes (Installation).  The editor `config edit` starts and the *)
(* file system are external.                                               *)
(***************************************************************************)
EXTENDS Sequences

CONSTANTS
    Procs,      \* rosco processes, each with one command to run
    Programs,   \* paths an emulator may be named by
    Inline,     \* the user may have written the section as an inline table
    Faults      \* which failures may happen

ASSUME SettingsAssumption ==
    /\ Inline \in BOOLEAN
    /\ Faults \subseteq {"open", "full", "killed", "clone"}

VARIABLES
    file,       \* the two files
    pc,         \* where each process is
    path,       \* the file its command is about
    todo,       \* the changes it has yet to make
    doc,        \* the document it has read, changed and has yet to write
    kept,       \* what the commands done so far make of each file, in order
    hurt        \* two commands overlapped on the file, or one was cut short

settingsVars == <<file, pc, path, todo, doc, kept, hurt>>

Files == {"global", "project"}
Keys == {"program", "source"}
None == "none"
Values == [program |-> Programs, source |-> {"host", "docker"}]
Settable == Programs \union {"host", "docker", None}

InSettings == {"read", "truncate", "write", "edit"}

(***************************************************************************)
(* Documents                                                               *)
(***************************************************************************)

Valuations == {v \in [Keys -> Settable] :
                  \A k \in Keys : v[k] \in Values[k] \union {None}}

Empty == [form |-> "text", inline |-> FALSE, vals |-> [k \in Keys |-> None]]
Absent == [Empty EXCEPT !.form = "absent"]
Garbled == [Empty EXCEPT !.form = "garbled"]

Sections == [form : {"text"}, inline : {FALSE}, vals : Valuations]
InlineTables == IF Inline
                THEN [form : {"text"}, inline : {TRUE}, vals : Valuations \ {Empty.vals}]
                ELSE {}
Documents == Sections \union InlineTables
Contents == Documents \union {Absent, Garbled}

\* A slip the runs must catch: all of the keys instead of any.
PinsAll(content, keys) ==
    /\ content.form # "garbled" /\ ~content.inline
    /\ \A k \in keys : content.vals[k] # None

\* pins: whether the file gives one of the keys a value of its own.  It goes by
\* tables, so it sees nothing of an inline one, nor of a file that does not parse.
Pins(content, keys) ==
    /\ content.form # "garbled" /\ ~content.inline
    /\ \E k \in keys : content.vals[k] # None

\* read_document: a file that is not there is an empty document.
ReadDocument(content) == IF content.form = "absent" THEN Empty ELSE content

\* A slip the runs must catch: the section is made anew.
InsertAnew(document, change) == [Empty EXCEPT !.vals[change.key] = change.value]

\* insert and the removal of unset, a change to None.  Either refuses a section
\* that is no table; unset also a key that is not set.
Takes(document, change) ==
    /\ document.form = "text" /\ ~document.inline
    /\ change.value = None => document.vals[change.key] # None

Insert(document, change) == [document EXCEPT !.vals = [@ EXCEPT ![change.key] = change.value]]

\* merge_tables, key by key, the second on top.
Merge(under, over) == [k \in Keys |-> IF over[k] # None THEN over[k] ELSE under[k]]

(***************************************************************************)
(* Steps of a process                                                      *)
(***************************************************************************)

SettingsInit ==
    /\ file \in [Files -> Documents \union {Absent}]
    /\ file["global"].inline = FALSE
    /\ pc = [p \in Procs |-> "new"]
    /\ path = [p \in Procs |-> "global"]
    /\ todo = [p \in Procs |-> <<>>]
    /\ doc = [p \in Procs |-> Empty]
    /\ kept = file
    /\ hurt = [f \in Files |-> FALSE]

Goes(p, to) == pc' = [pc EXCEPT ![p] = to]

\* Others that have read the file and have not written it back.
Overlapped(p, f) == \E q \in Procs \ {p} : path[q] = f /\ pc[q] \in {"truncate", "write", "edit"}

\* The command has ended, well or not; what it held is dropped.
Ends(p) ==
    /\ Goes(p, "ended")
    /\ path' = [path EXCEPT ![p] = "global"]
    /\ todo' = [todo EXCEPT ![p] = <<>>]
    /\ doc' = [doc EXCEPT ![p] = Empty]

\* From here on nothing is said of what the file holds.
Hurts(f) == hurt' = [hurt EXCEPT ![f] = TRUE] /\ kept' = [kept EXCEPT ![f] = Absent]

\* config set and config unset, in the scope the command names.
ConfigSet(p) ==
    /\ pc[p] = "new"
    /\ \E f \in Files, k \in Keys : \E v \in Values[k] :
          /\ path' = [path EXCEPT ![p] = f]
          /\ todo' = [todo EXCEPT ![p] = <<[key |-> k, value |-> v]>>]
    /\ Goes(p, "read")
    /\ UNCHANGED <<file, doc, kept, hurt>>

ConfigUnset(p) ==
    /\ pc[p] = "new"
    /\ \E f \in Files, k \in Keys :
          /\ path' = [path EXCEPT ![p] = f]
          /\ todo' = [todo EXCEPT ![p] = <<[key |-> k, value |-> None]>>]
    /\ Goes(p, "read")
    /\ UNCHANGED <<file, doc, kept, hurt>>

\* set and unset up to their write: read, change, validate.  One that is refused
\* ends the command's changes there.
ReadChange(p) ==
    /\ pc[p] = "read"
    /\ LET f == path[p]
           read == ReadDocument(file[f])
           change == Head(todo[p])
       IN  \/ /\ Takes(read, change)
              /\ doc' = [doc EXCEPT ![p] = Insert(read, change)]
              /\ Goes(p, "truncate")
              /\ IF Overlapped(p, f) THEN Hurts(f) ELSE UNCHANGED <<hurt, kept>>
              /\ UNCHANGED <<path, todo>>
           \/ ~Takes(read, change) /\ Ends(p) /\ UNCHANGED <<hurt, kept>>
    /\ UNCHANGED file

\* write_new creates the directory and truncates the file, or fails at either.
Truncate(p) ==
    /\ pc[p] = "truncate"
    /\ \/ /\ file' = [file EXCEPT ![path[p]] = Empty]
          /\ Goes(p, "write")
          /\ UNCHANGED <<path, todo, doc>>
       \/ "open" \in Faults /\ Ends(p) /\ UNCHANGED file
    /\ UNCHANGED <<kept, hurt>>

\* What a write leaves: of two that truncated before either wrote, the shorter
\* may leave the longer's end behind it.
Written(f, document) == IF file[f] \in {Empty, document} THEN {document} ELSE {document, Garbled}

\* What a finished write makes of a file.
Changed(content, change) ==
    [content EXCEPT !.form = "text", !.vals = [@ EXCEPT ![change.key] = change.value]]

\* The document is written whole.
Write(p) ==
    /\ pc[p] = "write"
    /\ LET f == path[p]
       IN  /\ \E c \in Written(f, doc[p]) : file' = [file EXCEPT ![f] = c]
           /\ kept' = IF hurt[f] THEN kept
                      ELSE [kept EXCEPT ![f] = Changed(@, Head(todo[p]))]
    /\ IF Len(todo[p]) = 1
       THEN Ends(p)
       ELSE /\ Goes(p, "read")
            /\ todo' = [todo EXCEPT ![p] = Tail(@)]
            /\ doc' = [doc EXCEPT ![p] = Empty]
            /\ UNCHANGED path
    /\ UNCHANGED hurt

\* The disk is full, or the process is killed, before all of it is written.
CutShort(p) ==
    /\ pc[p] = "write" /\ Faults \intersect {"full", "killed"} # {}
    /\ \E c \in {file[path[p]], Garbled} : file' = [file EXCEPT ![path[p]] = c]
    /\ Hurts(path[p])
    /\ Ends(p)

\* config edit: a starter file where there is none, then the user's editor.
ConfigEdit(p) ==
    /\ pc[p] = "new"
    /\ \E f \in Files :
          /\ path' = [path EXCEPT ![p] = f]
          /\ file' = [file EXCEPT ![f] = ReadDocument(@)]
          /\ IF Overlapped(p, f) THEN Hurts(f)
             ELSE kept' = [kept EXCEPT ![f] = ReadDocument(@)] /\ UNCHANGED hurt
    /\ Goes(p, "edit")
    /\ UNCHANGED <<todo, doc>>

\* The editor saves, whatever the file has become: the user's text may be
\* anything, and edit's last look at it only reports.  Or the user leaves it.
EditorSaves(p) ==
    /\ pc[p] = "edit"
    /\ \/ \E c \in {Empty, Garbled} \union InlineTables :
             /\ file' = [file EXCEPT ![path[p]] = c]
             /\ kept' = IF hurt[path[p]] THEN kept ELSE [kept EXCEPT ![path[p]] = c]
       \/ UNCHANGED <<file, kept>>
    /\ Ends(p)
    /\ UNCHANGED hurt

\* The process is killed with nothing begun.
KilledInSettings(p) ==
    /\ "killed" \in Faults /\ pc[p] \in InSettings \ {"write"}
    /\ Ends(p)
    /\ UNCHANGED <<file, kept, hurt>>

\* Every step but Write, which may be the last of what somebody waits for.
SettingsStep(p) ==
    \/ ConfigSet(p) \/ ConfigUnset(p) \/ ConfigEdit(p) \/ EditorSaves(p)
    \/ ReadChange(p) \/ Truncate(p) \/ CutShort(p) \/ KilledInSettings(p)

(***************************************************************************)
(* Properties                                                              *)
(***************************************************************************)

SettingsTypeOK ==
    /\ file \in [Files -> Contents]
    /\ path \in [Procs -> Files]
    /\ todo \in [Procs -> Seq([key : Keys, value : Settable])]
    /\ \A p \in Procs : doc[p] \in Documents /\ (pc[p] \in {"read", "truncate", "write"} => todo[p] # <<>>)
    /\ kept \in [Files -> Contents]
    /\ hurt \in [Files -> BOOLEAN]

\* "Writes `key = value`, leaving the rest of the file, comments included,
\* alone" (settings.rs:166): a file holds what the finished commands make of it
\* in the order they wrote, nothing more and nothing less, unless two of them
\* overlapped on it or one was cut short after truncating it.
KeepsTheRest ==
    \A f \in Files :
        \/ hurt[f]
        \/ \E p \in Procs : path[p] = f /\ pc[p] = "write"
        \/ file[f] = kept[f]

====
