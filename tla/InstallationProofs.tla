---- MODULE InstallationProofs ----
(***************************************************************************)
(* Proofs about Settings and Installation, for any number of commands, of  *)
(* paths and of working directories: the settings files keep what no       *)
(* command was to change, a command goes on with an emulator that is       *)
(* there, and an answer once saved leads to itself.                        *)
(*                                                                         *)
(* Three invariants, each resting on the ones before: FilesInv of the      *)
(* files, MenuInv of what a command knows and builds, AnswerInv of the     *)
(* answer it was given and is about to save.                               *)
(***************************************************************************)
EXTENDS Installation, Integers, TLAPS

\* The labels a command may be at, and the changes one may be asked to make.
Marks == {"new"} \union InSettings \union InInstallation \union {"ended"}
Changes == {c \in [key : Keys, value : Settable] : c.value \in Values[c.key] \union {None}}

LEMMA ValuesAre == /\ Values["program"] = Programs
                   /\ Values["source"] = {"host", "docker"}
BY DEF Values, Keys

LEMMA ChangesAre ==
    ASSUME NEW k \in Keys, NEW v \in Values[k] \union {None}
    PROVE  [key |-> k, value |-> v] \in Changes
BY ValuesAre DEF Changes, Keys, Settable

LEMMA ValuationsAre ==
    ASSUME NEW v \in [Keys -> Settable],
           \A k \in Keys : v[k] \in Values[k] \union {None}
    PROVE  v \in Valuations
BY DEF Valuations

LEMMA EmptyIs == /\ Empty \in Documents /\ Empty.form = "text" /\ ~Empty.inline
                 /\ Empty.vals = [k \in Keys |-> None] /\ Empty.vals \in Valuations
BY DEF Empty, Documents, Sections, Valuations, Settable

LEMMA DocumentsAre ==
    /\ \A d \in Documents : d.form = "text" /\ d.inline \in BOOLEAN /\ d.vals \in Valuations
    /\ \A d \in Documents : ~d.inline => d \in Sections
    /\ Documents \subseteq Contents
BY DEF Documents, Sections, InlineTables, Contents

LEMMA AbsentIs == /\ Absent \in Contents /\ Absent.form = "absent" /\ ~Absent.inline
                  /\ Absent \in [form : {"absent"}, inline : {FALSE}, vals : {Empty.vals}]
<1>1. Empty \in [form : {"text"}, inline : {FALSE}, vals : {Empty.vals}]
  BY DEF Empty
<1>2. Absent \in [form : {"absent"}, inline : {FALSE}, vals : {Empty.vals}]
  BY <1>1, Zenon DEF Absent
<1> QED BY <1>2 DEF Contents

LEMMA GarbledIs == Garbled \in Contents /\ Garbled.form = "garbled" /\ ~Garbled.inline
BY DEF Garbled, Empty, Contents

LEMMA ContentsAre ==
    \A c \in Contents : \/ c \in Documents
                        \/ c = Absent
                        \/ c = Garbled
BY DEF Contents

LEMMA ReadIs ==
    ASSUME NEW c \in Contents
    PROVE  /\ ReadDocument(c) \in Contents
           /\ ReadDocument(c).form = "text" => ReadDocument(c) \in Documents
           /\ ReadDocument(ReadDocument(c)) = ReadDocument(c)
BY EmptyIs, AbsentIs, GarbledIs, ContentsAre, DocumentsAre DEF ReadDocument

LEMMA WithVals ==
    ASSUME NEW d \in Sections, NEW w \in Valuations
    PROVE  /\ [d EXCEPT !.vals = w] \in Sections
           /\ [d EXCEPT !.vals = w].vals = w
<1>1. d \in [form : {"text"}, inline : {FALSE}, vals : {d.vals}]
  BY DEF Sections
<1>2. [d EXCEPT !.vals = w] \in [form : {"text"}, inline : {FALSE}, vals : {w}]
  BY <1>1, Zenon
<1> QED BY <1>2, Zenon DEF Sections

LEMMA InsertIs ==
    ASSUME NEW d \in Contents, NEW c \in Changes, Takes(d, c)
    PROVE  /\ Insert(d, c) \in Sections
           /\ Insert(d, c).vals = [d.vals EXCEPT ![c.key] = c.value]
           /\ Insert(d, c).vals[c.key] = c.value
<1>1. d \in Sections /\ d.vals \in Valuations /\ c.key \in Keys
  BY AbsentIs, GarbledIs, ContentsAre, DocumentsAre DEF Takes, Changes
<1> DEFINE w == [d.vals EXCEPT ![c.key] = c.value]
<1>2. c.value \in Values[c.key] \union {None}
  BY DEF Changes
<1>3. w \in Valuations
  BY <1>1, <1>2, ValuesAre DEF Valuations, Keys, Settable
<1>4. Insert(d, c) = [d EXCEPT !.vals = w]
  BY DEF Insert
<1>5. w[c.key] = c.value
  BY <1>1 DEF Valuations
<1>6. [d.vals EXCEPT ![c.key] = c.value] = w
  OBVIOUS
<1> HIDE DEF w
<1> QED BY <1>1, <1>3, <1>4, <1>5, <1>6, WithVals

LEMMA KeptIs ==
    ASSUME NEW d \in Contents, NEW c \in Changes, Takes(ReadDocument(d), c)
    PROVE  Changed(d, c) = Insert(ReadDocument(d), c)
<1> DEFINE e == ReadDocument(d)
           w == [d.vals EXCEPT ![c.key] = c.value]
<1>1. e \in Sections /\ e.vals = d.vals
  <2>1. CASE d \in Documents
    BY <2>1, DocumentsAre DEF Takes, ReadDocument
  <2>2. CASE d = Absent
    BY <2>2, AbsentIs, EmptyIs, DocumentsAre DEF ReadDocument
  <2>3. d # Garbled
    BY GarbledIs DEF Takes, ReadDocument
  <2> QED BY <2>1, <2>2, <2>3, ContentsAre
<1>2. d \in [form : {d.form}, inline : {FALSE}, vals : {d.vals}]
  <2>1. CASE d \in Documents
    BY <1>1, <2>1, DocumentsAre DEF ReadDocument, Sections
  <2>2. CASE d = Absent
    BY <2>2, AbsentIs
  <2>3. d # Garbled
    BY <1>1, GarbledIs DEF ReadDocument, Sections
  <2> QED BY <2>1, <2>2, <2>3, ContentsAre
<1>3. e \in [form : {"text"}, inline : {FALSE}, vals : {d.vals}]
  BY <1>1 DEF Sections
<1>4. Insert(e, c) = [e EXCEPT !.vals = w]
  BY <1>1 DEF Insert
<1>5. Changed(d, c) = [d EXCEPT !.form = "text", !.vals = w]
  BY DEF Changed
<1> HIDE DEF w, e
<1>6. [d EXCEPT !.form = "text", !.vals = w] \in [form : {"text"}, inline : {FALSE}, vals : {w}]
  BY <1>2, Zenon
<1>7. [e EXCEPT !.vals = w] \in [form : {"text"}, inline : {FALSE}, vals : {w}]
  BY <1>3, Zenon
<1>8. [d EXCEPT !.form = "text", !.vals = w] = [e EXCEPT !.vals = w]
  BY <1>6, <1>7
<1> QED BY <1>4, <1>5, <1>8 DEF e

(***************************************************************************)
(* The files: who holds one, and what it has                               *)
(***************************************************************************)

\* p is about to write f, or has it open, or is editing it.
Holds(p, f) == pc[p] \in {"truncate", "write", "edit"} /\ path[p] = f
Writes(p, f) == pc[p] = "write" /\ path[p] = f

FilesTypeOK ==
    /\ file \in [Files -> Contents]
    /\ pc \in [Procs -> Marks]
    /\ path \in [Procs -> Files]
    /\ todo \in [Procs -> Seq(Changes)]
    /\ doc \in [Procs -> Documents]
    /\ kept \in [Files -> Contents]
    /\ hurt \in [Files -> BOOLEAN]

\* What p is to write has the change that it is making.
DocOK(p) ==
    /\ pc[p] \in {"pins", "read", "truncate", "write"} => todo[p] # <<>>
    /\ pc[p] \in {"truncate", "write"} =>
          doc[p] \in Sections /\ doc[p].vals[Head(todo[p]).key] = Head(todo[p]).value

\* A write in progress began from the file as the commands made it.
Making(p, f) ==
    pc[p] \in {"truncate", "write"} /\ path[p] = f =>
        /\ Takes(ReadDocument(kept[f]), Head(todo[p]))
        /\ doc[p] = Insert(ReadDocument(kept[f]), Head(todo[p]))
        /\ pc[p] = "write" => file[f] = Empty

\* A file nobody hurt is held by one command at most, and is as the commands
\* made it, but that it is empty while it is written.
FileOK(f) == ~hurt[f] =>
    /\ \A p, q \in Procs : Holds(p, f) /\ Holds(q, f) => p = q
    /\ (\A p \in Procs : ~Writes(p, f)) => file[f] = kept[f]
    /\ \A p \in Procs : Making(p, f)

FilesInv ==
    /\ FilesTypeOK
    /\ \A p \in Procs : DocOK(p)
    /\ \A f \in Files : FileOK(f)

\* Nothing of q has changed.
Same(q) == pc'[q] = pc[q] /\ path'[q] = path[q] /\ todo'[q] = todo[q] /\ doc'[q] = doc[q]
SameFile(f) == file'[f] = file[f] /\ kept'[f] = kept[f] /\ hurt'[f] = hurt[f]

LEMMA DocsStay ==
    ASSUME FilesInv, NEW p \in Procs, \A q \in Procs \ {p} : Same(q), DocOK(p)'
    PROVE  \A q \in Procs : DocOK(q)'
BY DEF FilesInv, DocOK, Same

LEMMA FileStays ==
    ASSUME FilesInv, NEW p \in Procs, NEW f \in Files, \A q \in Procs \ {p} : Same(q),
           SameFile(f), ~Holds(p, f)', ~Writes(p, f)
    PROVE  FileOK(f)'
BY DEF FilesInv, FileOK, Making, Same, SameFile, Holds, Writes

LEMMA HurtFile ==
    ASSUME NEW f \in Files, hurt'[f] = TRUE
    PROVE  FileOK(f)'
BY DEF FileOK

LEMMA FirstIs ==
    ASSUME FilesInv, NEW p \in Procs, pc[p] \in {"read", "truncate", "write"}
    PROVE  Head(todo[p]) \in Changes /\ Tail(todo[p]) \in Seq(Changes) /\ Len(todo[p]) \in Nat \ {0}
BY DEF FilesInv, FilesTypeOK, DocOK

LEMMA EndsIs ==
    ASSUME FilesInv, NEW p \in Procs, Ends(p)
    PROVE  /\ \A q \in Procs \ {p} : Same(q)
           /\ pc'[p] = "ended" /\ todo'[p] = <<>>
           /\ \A f \in Files : ~Holds(p, f)' /\ ~Writes(p, f)'
           /\ DocOK(p)'
           /\ pc' \in [Procs -> Marks] /\ path' \in [Procs -> Files]
           /\ todo' \in [Procs -> Seq(Changes)] /\ doc' \in [Procs -> Documents]
BY EmptyIs DEF FilesInv, FilesTypeOK, Ends, Goes, Same, Holds, Writes, DocOK, Marks, Files

LEMMA HurtsIs ==
    ASSUME FilesInv, NEW f \in Files, Hurts(f)
    PROVE  /\ hurt'[f] = TRUE
           /\ \A g \in Files \ {f} : kept'[g] = kept[g] /\ hurt'[g] = hurt[g]
           /\ kept' \in [Files -> Contents] /\ hurt' \in [Files -> BOOLEAN]
BY AbsentIs DEF FilesInv, FilesTypeOK, Hurts

LEMMA BeginsIs ==
    ASSUME FilesInv, NEW p \in Procs, ConfigSet(p) \/ ConfigUnset(p)
    PROVE  FilesInv'
<1>1. PICK f \in Files, c \in Changes :
         path' = [path EXCEPT ![p] = f] /\ todo' = [todo EXCEPT ![p] = <<c>>]
  BY ChangesAre DEF ConfigSet, ConfigUnset
<1>2. /\ pc[p] = "new" /\ pc' = [pc EXCEPT ![p] = "read"]
      /\ UNCHANGED <<file, doc, kept, hurt>>
  BY DEF ConfigSet, ConfigUnset, Goes
<1>3. FilesTypeOK'
  BY <1>1, <1>2 DEF FilesInv, FilesTypeOK, Marks, InSettings
<1>4. DocOK(p)' /\ \A q \in Procs \ {p} : Same(q)
  BY <1>1, <1>2 DEF FilesInv, FilesTypeOK, DocOK, Same
<1>5. \A g \in Files : SameFile(g) /\ ~Holds(p, g)' /\ ~Writes(p, g)
  BY <1>1, <1>2 DEF FilesInv, FilesTypeOK, SameFile, Holds, Writes
<1> QED BY <1>3, <1>4, <1>5, DocsStay, FileStays DEF FilesInv

LEMMA ReadChangeIs ==
    ASSUME FilesInv, NEW p \in Procs, ReadChange(p)
    PROVE  FilesInv'
<1>0. PICK f \in Files : path[p] = f
  BY DEF FilesInv, FilesTypeOK
<1>. PICK read, change : read = ReadDocument(file[f]) /\ change = Head(todo[p])
  OBVIOUS
<1>1. pc[p] = "read" /\ path[p] = f /\ change \in Changes /\ read \in Contents /\ file' = file
  BY <1>0, FirstIs, ReadIs DEF ReadChange, FilesInv, FilesTypeOK
<1>2. \A g \in Files : ~Writes(p, g)
  BY <1>1 DEF Writes
<1>3. CASE ~Takes(read, change)
  <2>1. Ends(p) /\ UNCHANGED <<file, hurt, kept>>
    BY <1>1, <1>3 DEF ReadChange
  <2>2. \A g \in Files : SameFile(g)
    BY <2>1 DEF SameFile
  <2>3. FilesTypeOK'
    BY <2>1, EndsIs DEF FilesInv, FilesTypeOK
  <2> QED BY <2>1, <2>2, <2>3, <1>2, EndsIs, DocsStay, FileStays DEF FilesInv
<1>4. CASE Takes(read, change)
  <2>1. /\ doc' = [doc EXCEPT ![p] = Insert(read, change)]
        /\ pc' = [pc EXCEPT ![p] = "truncate"]
        /\ IF Overlapped(p, f) THEN Hurts(f) ELSE UNCHANGED <<hurt, kept>>
        /\ UNCHANGED <<path, todo>>
    BY <1>1, <1>4 DEF ReadChange, Goes
  <2>2. /\ Insert(read, change) \in Sections /\ Insert(read, change) \in Documents
        /\ Insert(read, change).vals[change.key] = change.value
    BY <1>1, <1>4, InsertIs DEF Documents
  <2>3. kept' \in [Files -> Contents] /\ hurt' \in [Files -> BOOLEAN]
    BY <1>1, <2>1, HurtsIs DEF FilesInv, FilesTypeOK
  <2>4. FilesTypeOK'
    BY <1>1, <2>1, <2>2, <2>3 DEF FilesInv, FilesTypeOK, Marks, InSettings
  <2>5. DocOK(p)' /\ \A q \in Procs \ {p} : Same(q)
    BY <1>1, <2>1, <2>2 DEF FilesInv, FilesTypeOK, DocOK, Same
  <2>6. ASSUME NEW g \in Files, g # f PROVE FileOK(g)'
    <3>1. SameFile(g)
      BY <1>1, <2>1, <2>6, HurtsIs DEF SameFile
    <3>2. ~Holds(p, g)'
      BY <1>1, <2>1, <2>6 DEF Holds
    <3> QED BY <3>1, <3>2, <2>5, <1>2, FileStays
  <2>7. FileOK(f)'
    <3>1. CASE Overlapped(p, f) \/ hurt[f]
      <4>1. hurt'[f] = TRUE
        BY <1>1, <2>1, <3>1, HurtsIs DEF FilesInv, FilesTypeOK
      <4> QED BY <1>1, <4>1, HurtFile
    <3>2. CASE ~Overlapped(p, f) /\ ~hurt[f]
      <4>1. SameFile(f)
        BY <1>1, <2>1, <3>2 DEF SameFile
      <4>2. \A q \in Procs \ {p} : ~Holds(q, f)
        BY <3>2 DEF Overlapped, Holds
      <4>3. \A q \in Procs : ~Writes(q, f)
        BY <4>2, <1>1 DEF Holds, Writes
      <4>4. file[f] = kept[f]
        BY <1>1, <3>2, <4>3 DEF FilesInv, FileOK
      <4>5. \A q \in Procs : Holds(q, f)' => q = p
        BY <4>2, <2>5 DEF Holds, Same
      <4>6. \A q \in Procs : ~Writes(q, f)'
        BY <4>3, <2>1, <2>5 DEF FilesInv, FilesTypeOK, Writes, Same
      <4>7. Making(p, f)'
        BY <1>1, <1>4, <2>1, <4>1, <4>4 DEF Making, SameFile, FilesInv, FilesTypeOK
      <4>8. \A q \in Procs \ {p} : Making(q, f)'
        BY <4>5 DEF Making, Holds
      <4> QED BY <4>1, <4>4, <4>5, <4>6, <4>7, <4>8 DEF FileOK, SameFile
    <3> QED BY <3>1, <3>2
  <2> QED BY <2>4, <2>5, <2>6, <2>7, <1>1, DocsStay DEF FilesInv
<1> QED BY <1>3, <1>4

LEMMA TruncateIs ==
    ASSUME FilesInv, NEW p \in Procs, Truncate(p)
    PROVE  FilesInv'
<1>0. PICK f \in Files : path[p] = f
  BY DEF FilesInv, FilesTypeOK
<1>1. pc[p] = "truncate" /\ UNCHANGED <<kept, hurt>> /\ \A g \in Files : ~Writes(p, g)
  BY DEF Truncate, Writes
<1>2. CASE Ends(p) /\ UNCHANGED file
  <2>1. \A g \in Files : SameFile(g)
    BY <1>1, <1>2 DEF SameFile
  <2>2. FilesTypeOK'
    BY <1>1, <1>2, EndsIs DEF FilesInv, FilesTypeOK
  <2> QED BY <1>1, <1>2, <2>1, <2>2, EndsIs, DocsStay, FileStays DEF FilesInv
<1>3. CASE /\ file' = [file EXCEPT ![f] = Empty]
           /\ pc' = [pc EXCEPT ![p] = "write"]
           /\ UNCHANGED <<path, todo, doc>>
  <2>1. FilesTypeOK'
    BY <1>1, <1>3, EmptyIs, DocumentsAre DEF FilesInv, FilesTypeOK, Marks, InSettings
  <2>2. DocOK(p)' /\ \A q \in Procs \ {p} : Same(q)
    BY <1>1, <1>3 DEF FilesInv, FilesTypeOK, DocOK, Same
  <2>3. ASSUME NEW g \in Files, g # f PROVE FileOK(g)'
    <3>1. SameFile(g) /\ ~Holds(p, g)'
      BY <1>0, <1>1, <1>3, <2>3 DEF SameFile, Holds, FilesInv, FilesTypeOK
    <3> QED BY <3>1, <2>2, <1>1, FileStays
  <2>4. ASSUME ~hurt[f] PROVE FileOK(f)'
    <3>1. FileOK(f) /\ Holds(p, f)
      BY <1>0, <1>1 DEF FilesInv, Holds
    <3>2. \A q \in Procs : Holds(q, f) => q = p
      BY <2>4, <3>1 DEF FileOK
    <3>3. \A q \in Procs : Holds(q, f)' => q = p
      BY <3>2, <2>2 DEF Holds, Same
    <3>4. Making(p, f)'
      <4>1. Making(p, f)
        BY <2>4, <3>1 DEF FileOK
      <4>2. kept'[f] = kept[f] /\ doc'[p] = doc[p] /\ todo'[p] = todo[p] /\ file'[f] = Empty
        BY <1>1, <1>3 DEF FilesInv, FilesTypeOK
      <4> QED BY <4>1, <4>2, <1>0, <1>1 DEF Making
    <3>5. \A q \in Procs \ {p} : Making(q, f)'
      BY <3>3 DEF Making, Holds
    <3>6. Writes(p, f)'
      BY <1>0, <1>3 DEF Writes, FilesInv, FilesTypeOK
    <3> QED BY <3>3, <3>4, <3>5, <3>6 DEF FileOK
  <2>5. FileOK(f)'
    BY <2>4, <1>1 DEF FileOK
  <2> QED BY <2>1, <2>2, <2>3, <2>5, DocsStay DEF FilesInv
<1> QED BY <1>0, <1>1, <1>2, <1>3 DEF Truncate, Goes

LEMMA WriteIs ==
    ASSUME FilesInv, NEW p \in Procs, Write(p)
    PROVE  /\ FilesInv'
           /\ ~hurt[path[p]] => file' = [file EXCEPT ![path[p]] = doc[p]]
<1>0. PICK f \in Files : path[p] = f
  BY DEF FilesInv, FilesTypeOK
<1>1. PICK c \in Written(f, doc[p]) : file' = [file EXCEPT ![f] = c]
  BY <1>0 DEF Write
<1>2. PICK change : change = Head(todo[p])
  OBVIOUS
<1>3. /\ pc[p] = "write"
      /\ kept' = IF hurt[f] THEN kept
                 ELSE [kept EXCEPT ![f] = Changed(kept[f], change)]
      /\ UNCHANGED hurt
  BY <1>0, <1>2 DEF Write
<1>4. change \in Changes /\ doc[p] \in Sections /\ doc[p] \in Documents
  BY <1>2, <1>3, FirstIs DEF FilesInv, DocOK, Documents
<1>5. c \in Contents
  BY <1>1, <1>4, GarbledIs, DocumentsAre DEF Written
<1>6. ~hurt[f] => c = doc[p] /\ kept' = [kept EXCEPT ![f] = doc[p]]
  <2> SUFFICES ASSUME ~hurt[f] PROVE c = doc[p] /\ kept' = [kept EXCEPT ![f] = doc[p]]
    OBVIOUS
  <2>1. Making(p, f)
    BY DEF FilesInv, FileOK
  <2>2. /\ Takes(ReadDocument(kept[f]), change)
        /\ doc[p] = Insert(ReadDocument(kept[f]), change)
        /\ file[f] = Empty
    BY <2>1, <1>0, <1>2, <1>3 DEF Making
  <2>3. c = doc[p]
    BY <2>2, <1>1 DEF Written
  <2>4. kept[f] \in Contents
    BY DEF FilesInv, FilesTypeOK
  <2>5. Changed(kept[f], change) = doc[p]
    BY <2>2, <2>4, <1>4, KeptIs
  <2> QED BY <2>3, <2>5, <1>3
<1>7. /\ pc' \in [Procs -> Marks] /\ path' \in [Procs -> Files]
      /\ todo' \in [Procs -> Seq(Changes)] /\ doc' \in [Procs -> Documents]
      /\ DocOK(p)' /\ \A q \in Procs \ {p} : Same(q)
      /\ \A g \in Files : ~Holds(p, g)' /\ ~Writes(p, g)'
  <2>1. CASE Len(todo[p]) = 1
    BY <2>1, EndsIs DEF Write
  <2>2. CASE Len(todo[p]) # 1
    <3>1. /\ pc' = [pc EXCEPT ![p] = "read"]
          /\ todo' = [todo EXCEPT ![p] = Tail(todo[p])]
          /\ doc' = [doc EXCEPT ![p] = Empty]
          /\ UNCHANGED path
      BY <2>2 DEF Write, Goes
    <3>2. Tail(todo[p]) \in Seq(Changes) /\ Tail(todo[p]) # <<>>
      <4>1. /\ todo[p] \in Seq(Changes) /\ Len(todo[p]) \in Nat \ {0}
            /\ Tail(todo[p]) \in Seq(Changes)
        BY <1>3, FirstIs DEF FilesInv, FilesTypeOK
      <4>2. Len(Tail(todo[p])) = Len(todo[p]) - 1
        BY <4>1
      <4>3. Len(Tail(todo[p])) # 0
        BY <4>1, <4>2, <2>2
      <4>4. Len(<<>>) = 0
        OBVIOUS
      <4> QED BY <4>1, <4>3, <4>4
    <3> QED BY <3>1, <3>2, EmptyIs DEF FilesInv, FilesTypeOK, DocOK, Same, Holds, Writes, Marks, InSettings
  <2> QED BY <2>1, <2>2
<1>8. FilesTypeOK'
  <2>1. kept' \in [Files -> Contents]
    BY <1>3, <1>4, <1>6, DocumentsAre DEF FilesInv, FilesTypeOK
  <2> QED BY <1>1, <1>3, <1>5, <1>7, <2>1 DEF FilesInv, FilesTypeOK
<1>9. ASSUME NEW g \in Files, g # f PROVE FileOK(g)'
  <2>1. SameFile(g)
    BY <1>1, <1>3, <1>6, <1>9 DEF SameFile, FilesInv, FilesTypeOK
  <2>2. ~Writes(p, g)
    BY <1>0, <1>9 DEF Writes
  <2> QED BY <2>1, <2>2, <1>7, FileStays
<1>10. ASSUME ~hurt[f] PROVE FileOK(f)'
  <2>1. FileOK(f) /\ Holds(p, f)
    BY <1>0, <1>3 DEF FilesInv, Holds
  <2>2. \A q \in Procs : Holds(q, f) => q = p
    BY <1>10, <2>1 DEF FileOK
  <2>3. \A q \in Procs : ~Holds(q, f)'
    BY <2>2, <1>7 DEF Holds, Same
  <2>4. file'[f] = kept'[f]
    BY <1>1, <1>6, <1>10 DEF FilesInv, FilesTypeOK
  <2>5. \A q \in Procs : Making(q, f)'
    BY <2>3 DEF Making, Holds
  <2> QED BY <2>3, <2>4, <2>5 DEF FileOK
<1>11. FileOK(f)'
  BY <1>3, <1>10 DEF FileOK
<1>12. ~hurt[path[p]] => file' = [file EXCEPT ![path[p]] = doc[p]]
  BY <1>0, <1>1, <1>6
<1> QED BY <1>7, <1>8, <1>9, <1>11, <1>12, DocsStay DEF FilesInv

LEMMA CutShortIs ==
    ASSUME FilesInv, NEW p \in Procs, CutShort(p)
    PROVE  FilesInv'
<1>0. PICK f \in Files : path[p] = f
  BY DEF FilesInv, FilesTypeOK
<1>1. PICK c \in {file[f], Garbled} : file' = [file EXCEPT ![f] = c]
  BY <1>0 DEF CutShort
<1>2. Ends(p) /\ Hurts(f)
  BY <1>0 DEF CutShort
<1>3. FilesTypeOK'
  <2>1. file \in [Files -> Contents] /\ c \in Contents
    BY <1>1, GarbledIs DEF FilesInv, FilesTypeOK
  <2>2. file' \in [Files -> Contents]
    BY ONLY <1>1, <2>1
  <2>3. /\ pc' \in [Procs -> Marks] /\ path' \in [Procs -> Files]
        /\ todo' \in [Procs -> Seq(Changes)] /\ doc' \in [Procs -> Documents]
    BY <1>2, EndsIs
  <2>4. kept' \in [Files -> Contents] /\ hurt' \in [Files -> BOOLEAN]
    BY <1>2, HurtsIs
  <2> QED BY ONLY <2>2, <2>3, <2>4, Zenon DEF FilesTypeOK
<1>4. \A g \in Files : g # f => SameFile(g) /\ ~Writes(p, g)
  BY <1>0, <1>1, <1>2, HurtsIs DEF SameFile, Writes, FilesInv, FilesTypeOK
<1>5. \A g \in Files : FileOK(g)'
  BY <1>2, <1>4, EndsIs, HurtsIs, FileStays, HurtFile
<1> QED BY <1>2, <1>3, <1>5, EndsIs, DocsStay DEF FilesInv

LEMMA ConfigEditIs ==
    ASSUME FilesInv, NEW p \in Procs, ConfigEdit(p)
    PROVE  FilesInv'
<1>1. PICK f \in Files :
          /\ path' = [path EXCEPT ![p] = f]
          /\ file' = [file EXCEPT ![f] = ReadDocument(file[f])]
          /\ IF Overlapped(p, f) THEN Hurts(f)
             ELSE kept' = [kept EXCEPT ![f] = ReadDocument(kept[f])] /\ UNCHANGED hurt
  BY DEF ConfigEdit
<1>2. /\ pc[p] = "new" /\ pc' = [pc EXCEPT ![p] = "edit"]
      /\ UNCHANGED <<todo, doc>>
  BY DEF ConfigEdit, Goes
<1>3. ReadDocument(file[f]) \in Contents /\ ReadDocument(kept[f]) \in Contents
  BY ReadIs DEF FilesInv, FilesTypeOK
<1>4. FilesTypeOK'
  <2>1. kept' \in [Files -> Contents] /\ hurt' \in [Files -> BOOLEAN]
    BY <1>1, <1>3, HurtsIs DEF FilesInv, FilesTypeOK
  <2> QED BY <1>1, <1>2, <1>3, <2>1 DEF FilesInv, FilesTypeOK, Marks, InSettings
<1>5. DocOK(p)' /\ \A q \in Procs \ {p} : Same(q)
  BY <1>1, <1>2 DEF FilesInv, FilesTypeOK, DocOK, Same
<1>6. \A g \in Files : ~Writes(p, g) /\ ~Holds(p, g)
  BY <1>2 DEF Writes, Holds
<1>7. ASSUME NEW g \in Files, g # f PROVE FileOK(g)'
  <2>1. SameFile(g)
    BY <1>1, <1>7, HurtsIs DEF SameFile, FilesInv, FilesTypeOK
  <2>2. ~Holds(p, g)'
    BY <1>1, <1>7 DEF Holds, FilesInv, FilesTypeOK
  <2> QED BY <2>1, <2>2, <1>5, <1>6, FileStays
<1>8. FileOK(f)'
  <2>1. CASE Overlapped(p, f) \/ hurt[f]
    <3>1. hurt'[f] = TRUE
      BY <1>1, <2>1, HurtsIs DEF FilesInv, FilesTypeOK
    <3> QED BY <3>1, HurtFile
  <2>2. CASE ~Overlapped(p, f) /\ ~hurt[f]
    <3>1. \A q \in Procs : ~Holds(q, f)
      BY <2>2, <1>6 DEF Overlapped, Holds
    <3>2. \A q \in Procs : ~Writes(q, f)
      BY <3>1 DEF Writes, Holds
    <3>3. file[f] = kept[f]
      BY <2>2, <3>2 DEF FilesInv, FileOK
    <3>4. file'[f] = kept'[f]
      BY <3>3, <1>1, <2>2 DEF FilesInv, FilesTypeOK
    <3>5. \A q \in Procs : Holds(q, f)' => q = p
      BY <3>1, <1>5 DEF Holds, Same
    <3>6. \A q \in Procs : Making(q, f)'
      BY <3>5, <1>2 DEF Making, Holds, FilesInv, FilesTypeOK
    <3> QED BY <3>4, <3>5, <3>6 DEF FileOK
  <2> QED BY <2>1, <2>2
<1> QED BY <1>4, <1>5, <1>7, <1>8, DocsStay DEF FilesInv

LEMMA EditorSavesIs ==
    ASSUME FilesInv, NEW p \in Procs, EditorSaves(p)
    PROVE  FilesInv'
<1>0. PICK f \in Files : path[p] = f
  BY DEF FilesInv, FilesTypeOK
<1>1. Ends(p) /\ UNCHANGED hurt /\ pc[p] = "edit"
  BY DEF EditorSaves
<1>2. \A g \in Files : ~Writes(p, g)
  BY <1>1 DEF Writes
<1>3. CASE UNCHANGED <<file, kept>>
  <2>1. \A g \in Files : SameFile(g)
    BY <1>1, <1>3 DEF SameFile
  <2>2. FilesTypeOK'
    BY <1>1, <1>3, EndsIs DEF FilesInv, FilesTypeOK
  <2> QED BY <1>1, <1>2, <2>1, <2>2, EndsIs, DocsStay, FileStays DEF FilesInv
<1>4. ASSUME NEW c \in {Empty, Garbled} \union InlineTables,
             file' = [file EXCEPT ![f] = c],
             kept' = IF hurt[f] THEN kept ELSE [kept EXCEPT ![f] = c]
      PROVE  FilesInv'
  <2>1. c \in Contents
    BY EmptyIs, GarbledIs, DocumentsAre DEF Documents
  <2>2. FilesTypeOK'
    <3>1. file' \in [Files -> Contents] /\ kept' \in [Files -> Contents]
      BY <1>4, <2>1 DEF FilesInv, FilesTypeOK
    <3> QED BY <1>1, <3>1, EndsIs DEF FilesInv, FilesTypeOK
  <2>3. ASSUME NEW g \in Files, g # f PROVE FileOK(g)'
    <3>1. SameFile(g)
      BY <1>1, <1>4, <2>3 DEF SameFile, FilesInv, FilesTypeOK
    <3> QED BY <3>1, <1>1, <1>2, EndsIs, FileStays
  <2>4. ASSUME ~hurt[f] PROVE FileOK(f)'
    <3>1. FileOK(f) /\ Holds(p, f)
      BY <1>0, <1>1 DEF FilesInv, Holds
    <3>2. \A q \in Procs : Holds(q, f) => q = p
      BY <2>4, <3>1 DEF FileOK
    <3>3. \A q \in Procs : ~Holds(q, f)'
      BY <3>2, <1>1, EndsIs DEF Holds, Same
    <3>4. file'[f] = kept'[f]
      BY <1>4, <2>4 DEF FilesInv, FilesTypeOK
    <3>5. \A q \in Procs : Making(q, f)'
      BY <3>3 DEF Making, Holds
    <3> QED BY <3>3, <3>4, <3>5 DEF FileOK
  <2>5. FileOK(f)'
    BY <1>1, <2>4 DEF FileOK
  <2> QED BY <2>2, <2>3, <2>5, <1>1, EndsIs, DocsStay DEF FilesInv
<1> QED BY <1>0, <1>3, <1>4 DEF EditorSaves

LEMMA KilledInSettingsIs ==
    ASSUME FilesInv, NEW p \in Procs, KilledInSettings(p)
    PROVE  FilesInv'
<1>1. Ends(p) /\ UNCHANGED <<file, kept, hurt>> /\ \A g \in Files : ~Writes(p, g)
  BY DEF KilledInSettings, Writes, InSettings
<1>2. \A g \in Files : SameFile(g)
  BY <1>1 DEF SameFile
<1>3. FilesTypeOK'
  BY <1>1, EndsIs DEF FilesInv, FilesTypeOK
<1> QED BY <1>1, <1>2, <1>3, EndsIs, DocsStay, FileStays DEF FilesInv

LEMMA SettingsStepIs ==
    ASSUME FilesInv, NEW p \in Procs, SettingsStep(p)
    PROVE  FilesInv'
BY BeginsIs, ReadChangeIs, TruncateIs, CutShortIs, ConfigEditIs, EditorSavesIs, KilledInSettingsIs
   DEF SettingsStep

(***************************************************************************)
(* The menu: what it leaves of the files, and its types                    *)
(***************************************************************************)

\* A step of p that is about no file.
Aside(p) ==
    /\ pc[p] \in {"new"} \union InInstallation
    /\ \E x \in {"read", "ended"} \union InInstallation : pc' = [pc EXCEPT ![p] = x]
    /\ FilesKept /\ UNCHANGED doc
    /\ \E f \in Files : path' = [path EXCEPT ![p] = f]
    /\ \E s \in Seq(Changes) : todo' = [todo EXCEPT ![p] = s]
    /\ pc'[p] \in {"pins", "read"} => todo'[p] # <<>>

LEMMA AsideIs ==
    ASSUME FilesInv, NEW p \in Procs, Aside(p)
    PROVE  FilesInv' /\ \A q \in Procs \ {p} : Same(q)
<1>1. PICK x \in {"read", "ended"} \union InInstallation : pc' = [pc EXCEPT ![p] = x]
  BY DEF Aside
<1>2. PICK f \in Files : path' = [path EXCEPT ![p] = f]
  BY DEF Aside
<1>3. PICK s \in Seq(Changes) : todo' = [todo EXCEPT ![p] = s]
  BY DEF Aside
<1>4. pc[p] \in {"new"} \union InInstallation /\ UNCHANGED <<file, kept, hurt, doc>>
  BY DEF Aside, FilesKept
<1>5. FilesTypeOK'
  BY <1>1, <1>2, <1>3, <1>4 DEF FilesInv, FilesTypeOK, Marks, InSettings
<1>6. \A q \in Procs \ {p} : Same(q)
  BY <1>1, <1>2, <1>3, <1>4 DEF FilesInv, FilesTypeOK, Same
<1>7. DocOK(p)'
  BY <1>1 DEF Aside, FilesInv, FilesTypeOK, DocOK, InInstallation
<1>8. \A g \in Files : SameFile(g) /\ ~Holds(p, g)' /\ ~Writes(p, g)
  BY <1>1, <1>4 DEF SameFile, Holds, Writes, FilesInv, FilesTypeOK, InInstallation
<1> QED BY <1>5, <1>6, <1>7, <1>8, DocsStay, FileStays DEF FilesInv

MenuTypeOK ==
    /\ cwd \in [Procs -> Cwds]
    /\ conf \in [Procs -> Valuations]
    /\ base \in [Procs -> Programs \union {None}]
    /\ tree \in [Places -> {"none", "other", "part", "source", "built"}]
    /\ runner \in [Procs -> Answer]
    /\ stale \in [Procs -> BOOLEAN]
    /\ told \in Answer

LEMMA NoSettingsIs == NoSettings \in Valuations
BY DEF NoSettings, Valuations, Settable

LEMMA ValsAre ==
    ASSUME FilesInv, NEW f \in Files
    PROVE  /\ file[f].vals \in Valuations
           /\ file[f].form = "garbled" => file[f].vals = NoSettings
           /\ ReadDocument(file[f]).vals = file[f].vals
<1>1. Garbled \in [form : {"garbled"}, inline : {FALSE}, vals : {Empty.vals}]
  <2>1. Empty \in [form : {"text"}, inline : {FALSE}, vals : {Empty.vals}]
    BY DEF Empty
  <2> QED BY <2>1, Zenon DEF Garbled
<1>2. Empty.vals = NoSettings
  BY EmptyIs DEF NoSettings
<1>3. file[f] \in Contents
  BY DEF FilesInv, FilesTypeOK
<1>4. CASE file[f] \in Documents
  BY <1>4, DocumentsAre DEF ReadDocument
<1>5. CASE file[f] = Absent
  BY <1>5, <1>2, AbsentIs, NoSettingsIs DEF ReadDocument
<1>6. CASE file[f] = Garbled
  BY <1>6, <1>1, <1>2, NoSettingsIs DEF ReadDocument
<1> QED BY <1>3, <1>4, <1>5, <1>6, ContentsAre

LEMMA MergeIs ==
    ASSUME NEW u \in Valuations, NEW v \in Valuations
    PROVE  Merge(u, v) \in Valuations
BY DEF Merge, Valuations

LEMMA ProgramSettingsAre ==
    ASSUME NEW v, NEW t \in Programs
    PROVE  /\ ProgramSettings(v, t) \in Seq(Changes)
           /\ v["source"] = "docker" =>
                 ProgramSettings(v, t) = <<Change("program", t), Change("source", "host")>>
           /\ v["source"] # "docker" => ProgramSettings(v, t) = <<Change("program", t)>>
           /\ ProgramSettings(v, t) # <<>>
<1>1. Change("program", t) \in Changes /\ Change("source", "host") \in Changes
  BY ChangesAre, ValuesAre DEF Change, Keys
<1>2. \A a, b \in Changes : /\ <<a, b>> \in Seq(Changes) /\ <<a>> \in Seq(Changes)
                            /\ <<a>> # <<>> /\ <<a, b>> # <<>>
  OBVIOUS
<1> QED BY <1>1, <1>2 DEF ProgramSettings

(***************************************************************************)
(* The emulator                                                            *)
(***************************************************************************)

Building == {"fetch", "clone", "compile"}
Asking == {"new", "load", "ready", "menu"} \union Building
Saving == {"pins", "read", "truncate", "write"}

\* A path is had while one builds there, and a clone is of nobody else's place.
BuildingOK(p) ==
    /\ pc[p] \in Building <=> base[p] # None
    /\ base[p] # Itself
    /\ pc[p] = "clone" => /\ tree[Site(p)] = "part"
                          /\ \A q \in Procs \ {p} : pc[q] = "clone" => Site(q) # Site(p)

\* Nothing is to be run before an answer, and what is to be saved is one.
RunnerOK(p) ==
    /\ pc[p] \in Asking => runner[p] = None
    /\ pc[p] = "pins" => runner[p] # None
    /\ pc[p] \in Saving => runner[p] \in Programs \union {Image, None}

MenuInv ==
    /\ MenuTypeOK
    /\ RunsWhatIsThere
    /\ \A p \in Procs : BuildingOK(p) /\ RunnerOK(p)

LEMMA PlacesAre ==
    ASSUME NEW d \in Cwds, NEW t \in Programs \union {Default}
    PROVE  Place(d, t) \in Places
BY DEF Places

LEMMA Moves ==
    ASSUME FilesInv, MenuInv, NEW p \in Procs,
           NEW x \in Marks, NEW b \in Programs \union {None}, NEW r \in Answer,
           UNCHANGED cwd,
           pc' = [pc EXCEPT ![p] = x],
           base' = [base EXCEPT ![p] = b],
           runner' = [runner EXCEPT ![p] = r],
           conf' \in [Procs -> Valuations], stale' \in [Procs -> BOOLEAN], told' \in Answer,
           tree' \in [Places -> {"none", "other", "part", "source", "built"}],
           \A s \in Places : tree[s] = "built" => tree'[s] = "built",
           \A q \in Procs \ {p} : pc[q] = "clone" => tree'[Site(q)] = "part",
           x \in Building <=> b # None,
           b # Itself,
           x = "clone" =>
               /\ tree'[Place(cwd[p], b)] = "part"
               /\ \A q \in Procs \ {p} : pc[q] = "clone" => Site(q) # Place(cwd[p], b),
           x \in Asking => r = None,
           x = "pins" => r # None,
           x \in Saving => r \in Programs \union {Image, None},
           r \notin {None, Image} => tree'[Place(cwd[p], r)] = "built" /\ r # Itself
    PROVE  MenuInv'
<1>1. MenuTypeOK'
  BY DEF MenuInv, MenuTypeOK
<1>2. \A q \in Procs \ {p} : pc'[q] = pc[q] /\ base'[q] = base[q] /\ runner'[q] = runner[q]
  BY DEF FilesInv, FilesTypeOK, MenuInv, MenuTypeOK
<1>3. pc'[p] = x /\ base'[p] = b /\ runner'[p] = r
  BY DEF FilesInv, FilesTypeOK, MenuInv, MenuTypeOK
<1>4. \A q \in Procs \ {p} : Site(q)' = Site(q)
  BY <1>2 DEF Site
<1>5. Site(p)' = Place(cwd[p], b)
  BY <1>3 DEF Site
<1>6. BuildingOK(p)'
  BY <1>2, <1>3, <1>4, <1>5 DEF BuildingOK
<1>7. ASSUME NEW q \in Procs \ {p} PROVE BuildingOK(q)' /\ RunnerOK(q)'
  <2>1. BuildingOK(q) /\ RunnerOK(q)
    BY DEF MenuInv
  <2>2. RunnerOK(q)'
    BY <2>1, <1>2 DEF RunnerOK
  <2>3. pc'[q] = "clone" => tree'[Site(q)'] = "part"
    BY <1>2, <1>4
  <2>4. ASSUME pc'[q] = "clone", NEW o \in Procs \ {q}, pc'[o] = "clone" PROVE Site(o)' # Site(q)'
    <3>1. CASE o = p
      BY <2>4, <3>1, <1>2, <1>3, <1>4, <1>5
    <3>2. CASE o # p
      BY <2>1, <2>4, <3>2, <1>2, <1>4 DEF BuildingOK
    <3> QED BY <3>1, <3>2
  <2>5. BuildingOK(q)'
    BY <2>1, <2>3, <2>4, <1>2 DEF BuildingOK
  <2> QED BY <2>2, <2>5
<1>8. RunnerOK(p)'
  BY <1>3 DEF RunnerOK
<1>9. RunsWhatIsThere'
  <2> SUFFICES ASSUME NEW q \in Procs, runner'[q] \notin {None, Image}
               PROVE  tree'[Place(cwd[q], runner'[q])] = "built" /\ runner'[q] # Itself
    BY DEF RunsWhatIsThere, Located
  <2>1. CASE q = p
    BY <2>1, <1>3
  <2>2. CASE q # p
    <3>1. Located(cwd[q], runner[q]) /\ runner[q] # Itself
      BY <2>2, <1>2 DEF MenuInv, RunsWhatIsThere
    <3>2. Place(cwd[q], runner[q]) \in Places
      BY <2>2, <1>2, PlacesAre DEF MenuInv, MenuTypeOK, Answer
    <3> QED BY <3>1, <3>2, <2>2, <1>2 DEF Located
  <2> QED BY <2>1, <2>2
<1> QED BY <1>1, <1>6, <1>7, <1>8, <1>9 DEF MenuInv

LEMMA BaseIs ==
    ASSUME MenuInv, NEW p \in Procs
    PROVE  /\ pc[p] \in Building => base[p] \in Programs \ {Itself}
           /\ pc[p] \notin Building => base[p] = None
           /\ pc[p] \in Asking => runner[p] = None
           /\ base = [base EXCEPT ![p] = base[p]]
           /\ runner = [runner EXCEPT ![p] = runner[p]]
           /\ base[p] \in Programs \union {None}
           /\ runner[p] \in Answer
BY DEF MenuInv, BuildingOK, RunnerOK, MenuTypeOK

LEMMA ClonesKeep ==
    ASSUME MenuInv, UNCHANGED tree, NEW p \in Procs
    PROVE  /\ \A s \in Places : tree[s] = "built" => tree'[s] = "built"
           /\ \A q \in Procs \ {p} : pc[q] = "clone" => tree'[Site(q)] = "part"
           /\ tree' \in [Places -> {"none", "other", "part", "source", "built"}]
BY DEF MenuInv, BuildingOK, MenuTypeOK

LEMMA NamesAre == None \notin Programs /\ Image \notin Programs /\ None # Image /\ Itself \in Programs
                  /\ Default \notin Programs /\ Default # None /\ Default # Image
BY InstallationAssumption DEF None, Image

\* p does nothing of an emulator, or begins or goes on without one.
LEMMA Rests ==
    ASSUME FilesInv, MenuInv, NEW p \in Procs, NEW x \in Marks \ Building, pc[p] \notin Building,
           UNCHANGED <<cwd, tree, base, runner>>,
           pc' = [pc EXCEPT ![p] = x],
           conf' \in [Procs -> Valuations], stale' \in [Procs -> BOOLEAN], told' \in Answer,
           x \in Asking => runner[p] = None,
           x # "pins",
           x \in Saving => runner[p] \in Programs \union {Image, None}
    PROVE  MenuInv'
<1>1. base[p] = None /\ base' = [base EXCEPT ![p] = None] /\ runner' = [runner EXCEPT ![p] = runner[p]]
  BY BaseIs
<1>2. runner[p] \notin {None, Image} => tree'[Place(cwd[p], runner[p])] = "built" /\ runner[p] # Itself
  BY DEF MenuInv, RunsWhatIsThere, Located
<1>3. x # "clone" /\ x \in Marks /\ None # Itself
  BY NamesAre DEF Building
<1>4. runner[p] \in Answer
  BY BaseIs
<1>5. /\ \A s \in Places : tree[s] = "built" => tree'[s] = "built"
      /\ \A q \in Procs \ {p} : pc[q] = "clone" => tree'[Site(q)] = "part"
      /\ tree' \in [Places -> {"none", "other", "part", "source", "built"}]
  BY ClonesKeep
<1>6. None \in Programs \union {None}
  OBVIOUS
<1>7. UNCHANGED cwd /\ x \notin Building /\ (x \in Building <=> None # None)
  OBVIOUS
<1>8. x \in Asking => runner[p] = None
  OBVIOUS
<1>9. x = "pins" => runner[p] # None
  OBVIOUS
<1>10. x \in Saving => runner[p] \in Programs \union {Image, None}
  OBVIOUS
<1>11. x = "clone" => /\ tree'[Place(cwd[p], None)] = "part"
                      /\ \A q \in Procs \ {p} : pc[q] = "clone" => Site(q) # Place(cwd[p], None)
  BY <1>3
<1>12. /\ FilesInv /\ MenuInv /\ p \in Procs /\ x \in Marks /\ pc' = [pc EXCEPT ![p] = x]
       /\ conf' \in [Procs -> Valuations] /\ stale' \in [Procs -> BOOLEAN] /\ told' \in Answer
  OBVIOUS
<1> QED BY ONLY <1>1, <1>2, <1>3, <1>4, <1>5, <1>6, <1>7, <1>8, <1>9, <1>10, <1>11, <1>12, Moves

LEMMA StopsIs ==
    ASSUME FilesInv, MenuInv, NEW p \in Procs, Stops(p)
    PROVE  /\ pc' = [pc EXCEPT ![p] = "ended"]
           /\ conf' \in [Procs -> Valuations]
BY NoSettingsIs DEF Stops, Goes, MenuInv, MenuTypeOK

LEMMA HistoryIs ==
    ASSUME MenuInv, HistoryKept
    PROVE  stale' \in [Procs -> BOOLEAN] /\ told' \in Answer
BY DEF MenuInv, MenuTypeOK, HistoryKept

LEMMA CommandIs ==
    ASSUME FilesInv, NEW p \in Procs, pc[p] \in {"new"} \union InInstallation, FilesKept, CommandKept,
           NEW x \in {"ended"} \union (InInstallation \ {"pins"}), pc' = [pc EXCEPT ![p] = x]
    PROVE  Aside(p)
<1>1. path' = [path EXCEPT ![p] = path[p]] /\ todo' = [todo EXCEPT ![p] = todo[p]]
  BY DEF FilesInv, FilesTypeOK, CommandKept
<1>2. path[p] \in Files /\ todo[p] \in Seq(Changes)
  BY DEF FilesInv, FilesTypeOK
<1>3. pc'[p] \notin {"pins", "read"}
  BY DEF FilesInv, FilesTypeOK, InInstallation
<1> QED BY <1>1, <1>2, <1>3 DEF Aside, CommandKept

LEMMA LoadIs ==
    ASSUME FilesInv, MenuInv, NEW p \in Procs, LoadGlobal(p) \/ LoadProject(p)
    PROVE  Aside(p) /\ MenuInv'
<1>1. PICK f \in Files, to \in {"load", "ready"} :
         /\ Loads(p, f, to) /\ pc[p] \in {"new", "load"}
         /\ FilesKept /\ CommandKept /\ HistoryKept /\ UNCHANGED <<cwd, base, tree, runner>>
  BY DEF LoadGlobal, LoadProject, Files
<1>2. runner[p] = None /\ pc[p] \notin Building
  BY <1>1, BaseIs DEF Asking, Building
<1>3. PICK x \in {"ended", "load", "ready"} : pc' = [pc EXCEPT ![p] = x] /\ conf' \in [Procs -> Valuations]
  <2>1. CASE file[f].form = "garbled"
    BY <1>1, <2>1, StopsIs DEF Loads
  <2>2. CASE file[f].form # "garbled"
    <3>1. conf' = [conf EXCEPT ![p] = Merge(conf[p], file[f].vals)] /\ pc' = [pc EXCEPT ![p] = to]
      BY <1>1, <2>2 DEF Loads, Goes
    <3>2. conf[p] \in Valuations /\ conf \in [Procs -> Valuations]
      BY DEF MenuInv, MenuTypeOK
    <3> QED BY <3>1, <3>2, ValsAre, MergeIs
  <2> QED BY <2>1, <2>2
<1>4. Aside(p)
  BY <1>1, <1>3, CommandIs DEF InInstallation
<1>5. x \in Marks \ Building /\ x \notin Saving
  BY DEF Marks, Building, InInstallation, Saving
<1>6. MenuInv'
  BY <1>1, <1>2, <1>3, <1>5, HistoryIs, Rests DEF Saving
<1> QED BY <1>4, <1>6

LEMMA ReadyIs ==
    ASSUME FilesInv, MenuInv, NEW p \in Procs, Ready(p)
    PROVE  Aside(p) /\ MenuInv'
<1>1. /\ pc[p] = "ready" /\ FilesKept /\ CommandKept /\ HistoryKept
      /\ UNCHANGED <<cwd, base, tree>>
  BY DEF Ready
<1>2. runner[p] = None /\ pc[p] \notin Building /\ base[p] = None
  BY <1>1, BaseIs DEF Asking, Building
<1>3. PICK cli \in Programs \union {None} : TRUE /\
          LET r == Resolve(conf[p], cli)
          IN  \/ r = Image /\ Stops(p) /\ Returns(p, Image)
              \/ r = Image /\ Offer(p)
              \/ r = Itself /\ Stops(p) /\ UNCHANGED runner
              \/ /\ r \notin {Image, Itself} /\ Located(cwd[p], r)
                 /\ Stops(p) /\ Returns(p, r)
              \/ /\ r \notin {Image, Itself} /\ ~Located(cwd[p], r)
                 /\ IF cli # None THEN Stops(p) /\ UNCHANGED runner ELSE Offer(p)
  BY DEF Ready
<1>4. Resolve(conf[p], cli) \in Answer
  <2>1. conf[p]["program"] \in Programs \union {None}
    BY ValuesAre DEF MenuInv, MenuTypeOK, Valuations, Keys
  <2> QED BY <2>1 DEF Resolve, Answer
<1>5. \/ /\ Stops(p)
         /\ \E r \in Answer :
               /\ runner' = [runner EXCEPT ![p] = r]
               /\ r \notin {None, Image} => tree[Place(cwd[p], r)] = "built" /\ r # Itself
      \/ (Offer(p) \/ Stops(p)) /\ UNCHANGED runner
  <2> DEFINE r == Resolve(conf[p], cli)
  <2> HIDE DEF r
  <2>1. r \in Answer /\ Image \in Answer
    BY <1>4 DEF r, Answer
  <2>2. \/ r = Image /\ Stops(p) /\ Returns(p, Image)
        \/ r = Image /\ Offer(p)
        \/ r = Itself /\ Stops(p) /\ UNCHANGED runner
        \/ /\ r \notin {Image, Itself} /\ Located(cwd[p], r)
           /\ Stops(p) /\ Returns(p, r)
        \/ /\ r \notin {Image, Itself} /\ ~Located(cwd[p], r)
           /\ IF cli # None THEN Stops(p) /\ UNCHANGED runner ELSE Offer(p)
    BY <1>3 DEF r
  <2> QED BY <2>1, <2>2 DEF Offer, Returns, Located
<1>6. CASE (Offer(p) \/ Stops(p)) /\ UNCHANGED runner
  <2>1. PICK x \in {"ended", "menu"} : pc' = [pc EXCEPT ![p] = x] /\ conf' \in [Procs -> Valuations]
    BY <1>6, StopsIs DEF Offer, Goes, MenuInv, MenuTypeOK
  <2>2. Aside(p)
    BY <1>1, <2>1, CommandIs DEF InInstallation
  <2>3. x \in Marks \ Building /\ x \notin Saving /\ x # "pins"
    BY DEF Marks, Building, InInstallation, Saving
  <2>4. MenuInv'
    BY <1>1, <1>2, <1>6, <2>1, <2>3, HistoryIs, Rests
  <2> QED BY <2>2, <2>4
<1>7. CASE /\ Stops(p)
           /\ \E r \in Answer :
               /\ runner' = [runner EXCEPT ![p] = r]
               /\ r \notin {None, Image} => tree[Place(cwd[p], r)] = "built" /\ r # Itself
  <2>0. PICK r \in Answer :
            /\ runner' = [runner EXCEPT ![p] = r]
            /\ r \notin {None, Image} => tree[Place(cwd[p], r)] = "built" /\ r # Itself
    BY <1>7
  <2>1. pc' = [pc EXCEPT ![p] = "ended"] /\ conf' \in [Procs -> Valuations]
    BY <1>7, StopsIs
  <2>2. Aside(p)
    BY <1>1, <2>1, CommandIs DEF InInstallation
  <2>3. "ended" \in Marks /\ "ended" \notin Building \union Asking \union Saving /\ "ended" # "clone" /\ "ended" # "pins"
    BY DEF Marks, Building, Asking, Saving
  <2>4. base' = [base EXCEPT ![p] = None] /\ runner' = [runner EXCEPT ![p] = r] /\ UNCHANGED <<cwd, tree>>
    BY <1>1, <1>2, <2>0, BaseIs
  <2>5. r \notin {None, Image} => tree'[Place(cwd[p], r)] = "built" /\ r # Itself
    BY <2>0, <2>4
  <2>6. stale' \in [Procs -> BOOLEAN] /\ told' \in Answer
    BY <1>1, HistoryIs
  <2>7. /\ \A s \in Places : tree[s] = "built" => tree'[s] = "built"
        /\ \A q \in Procs \ {p} : pc[q] = "clone" => tree'[Site(q)] = "part"
        /\ tree' \in [Places -> {"none", "other", "part", "source", "built"}]
    BY <2>4, ClonesKeep
  <2>8. None \in Programs \union {None} /\ None # Itself
    BY NamesAre
  <2>9. UNCHANGED cwd
    BY <2>4
  <2>10. MenuInv'
    BY <2>1, <2>3, <2>4, <2>5, <2>6, <2>7, <2>8, <2>9, Moves
  <2> QED BY <2>2, <2>10
<1> QED BY <1>5, <1>6, <1>7

LEMMA AnswersIs ==
    ASSUME FilesInv, MenuInv, NEW p \in Procs, pc[p] \in {"menu", "compile"},
           NEW r \in (Programs \ {Itself}) \union {Image},
           NEW changes \in Seq(Changes), changes # <<>>,
           Answers(p, r, changes), FilesKept, HistoryKept, path' = path, doc' = doc, cwd' = cwd,
           base' = [base EXCEPT ![p] = None],
           tree' \in [Places -> {"none", "other", "part", "source", "built"}],
           \A s \in Places : tree[s] = "built" => tree'[s] = "built",
           \A q \in Procs \ {p} : pc[q] = "clone" => tree'[Site(q)] = "part",
           r # Image => tree'[Place(cwd[p], r)] = "built"
    PROVE  Aside(p) /\ MenuInv'
<1>1. /\ runner' = [runner EXCEPT ![p] = r] /\ todo' = [todo EXCEPT ![p] = changes]
      /\ conf' = [conf EXCEPT ![p] = NoSettings] /\ pc' = [pc EXCEPT ![p] = "pins"]
  BY DEF Answers, Returns, Goes
<1>2. Aside(p)
  <2>1. path' = [path EXCEPT ![p] = path[p]] /\ path[p] \in Files
    BY DEF FilesInv, FilesTypeOK
  <2>2. todo'[p] # <<>>
    BY <1>1 DEF FilesInv, FilesTypeOK
  <2> QED BY <1>1, <2>1, <2>2 DEF Aside, InInstallation
<1>3. conf' \in [Procs -> Valuations]
  BY <1>1, NoSettingsIs DEF MenuInv, MenuTypeOK
<1>4. stale' \in [Procs -> BOOLEAN] /\ told' \in Answer
  BY HistoryIs
<1>5. "pins" \in Marks /\ "pins" \notin Building \union Asking /\ "pins" # "clone"
  BY DEF Marks, Building, Asking, InInstallation
<1>6. r \in Answer /\ r # None /\ r \in Programs \union {Image, None} /\ r # Itself
  BY NamesAre DEF Answer
<1>7. None \in Programs \union {None} /\ None # Itself
  BY NamesAre
<1>8. /\ FilesInv /\ MenuInv /\ p \in Procs /\ UNCHANGED cwd /\ base' = [base EXCEPT ![p] = None]
      /\ tree' \in [Places -> {"none", "other", "part", "source", "built"}]
      /\ \A s \in Places : tree[s] = "built" => tree'[s] = "built"
      /\ \A q \in Procs \ {p} : pc[q] = "clone" => tree'[Site(q)] = "part"
      /\ r \notin {None, Image} => tree'[Place(cwd[p], r)] = "built"
  OBVIOUS
<1>9. MenuInv'
  BY ONLY <1>1, <1>3, <1>4, <1>5, <1>6, <1>7, <1>8, Moves
<1> QED BY <1>2, <1>9

LEMMA UseImageIs ==
    ASSUME FilesInv, MenuInv, NEW p \in Procs, UseImage(p)
    PROVE  Aside(p) /\ MenuInv'
<1>1. /\ pc[p] = "menu" /\ Answers(p, Image, <<Change("source", "docker")>>)
      /\ FilesKept /\ HistoryKept /\ path' = path /\ doc' = doc /\ cwd' = cwd /\ base' = base /\ tree' = tree
  BY DEF UseImage
<1>2. base' = [base EXCEPT ![p] = None]
  BY <1>1, BaseIs DEF Building
<1>3. Change("source", "docker") \in Changes
  BY ChangesAre, ValuesAre DEF Change, Keys
<1>4. <<Change("source", "docker")>> \in Seq(Changes) /\ <<Change("source", "docker")>> # <<>>
  BY <1>3
<1>5. /\ \A s \in Places : tree[s] = "built" => tree'[s] = "built"
      /\ \A q \in Procs \ {p} : pc[q] = "clone" => tree'[Site(q)] = "part"
      /\ tree' \in [Places -> {"none", "other", "part", "source", "built"}]
  BY <1>1, ClonesKeep
<1> QED BY <1>1, <1>2, <1>4, <1>5, AnswersIs

LEMMA UseExistingIs ==
    ASSUME FilesInv, MenuInv, NEW p \in Procs, UseExisting(p)
    PROVE  Aside(p) /\ MenuInv'
<1>1. PICK t \in Programs \ {Itself} :
          /\ Located(cwd[p], t)
          /\ Answers(p, t, ProgramSettings(conf[p], t))
  BY DEF UseExisting
<1>2. /\ pc[p] = "menu"
      /\ FilesKept /\ HistoryKept /\ path' = path /\ doc' = doc /\ cwd' = cwd /\ base' = base /\ tree' = tree
  BY DEF UseExisting
<1>3. base' = [base EXCEPT ![p] = None]
  BY <1>2, BaseIs DEF Building
<1>4. ProgramSettings(conf[p], t) \in Seq(Changes) /\ ProgramSettings(conf[p], t) # <<>>
  BY ProgramSettingsAre
<1>5. /\ \A s \in Places : tree[s] = "built" => tree'[s] = "built"
      /\ \A q \in Procs \ {p} : pc[q] = "clone" => tree'[Site(q)] = "part"
      /\ tree' \in [Places -> {"none", "other", "part", "source", "built"}]
  BY <1>2, ClonesKeep
<1>6. tree'[Place(cwd[p], t)] = "built"
  BY <1>1, <1>2 DEF Located
<1> QED BY <1>1, <1>2, <1>3, <1>4, <1>5, <1>6, AnswersIs

LEMMA CancelIs ==
    ASSUME FilesInv, MenuInv, NEW p \in Procs, Cancel(p)
    PROVE  Aside(p) /\ MenuInv'
<1>1. /\ pc[p] = "menu" /\ Stops(p)
      /\ FilesKept /\ CommandKept /\ HistoryKept /\ UNCHANGED <<cwd, base, tree, runner>>
  BY DEF Cancel
<1>2. pc[p] \notin Building /\ "ended" \in Marks \ Building /\ "ended" \notin Asking \union Saving /\ "ended" # "pins"
  BY <1>1 DEF Asking, Building, Marks, Saving
<1>3. pc' = [pc EXCEPT ![p] = "ended"] /\ conf' \in [Procs -> Valuations]
  BY <1>1, StopsIs
<1>4. Aside(p)
  BY <1>1, <1>3, CommandIs DEF InInstallation
<1>5. MenuInv'
  BY <1>1, <1>2, <1>3, HistoryIs, Rests
<1> QED BY <1>4, <1>5

LEMMA BuildsIs ==
    ASSUME FilesInv, MenuInv, NEW p \in Procs, pc[p] \in {"menu"} \union Building,
           NEW x \in {"menu"} \union Building, NEW b \in Programs \union {None},
           FilesKept, CommandKept, HistoryKept, cwd' = cwd, conf' = conf, runner' = runner,
           pc' = [pc EXCEPT ![p] = x],
           base' = [base EXCEPT ![p] = b],
           tree' \in [Places -> {"none", "other", "part", "source", "built"}],
           \A s \in Places : tree[s] = "built" => tree'[s] = "built",
           \A q \in Procs \ {p} : pc[q] = "clone" => tree'[Site(q)] = "part",
           x \in Building <=> b # None,
           b # Itself,
           x = "clone" =>
               /\ tree'[Place(cwd[p], b)] = "part"
               /\ \A q \in Procs \ {p} : pc[q] = "clone" => Site(q) # Place(cwd[p], b)
    PROVE  Aside(p) /\ MenuInv'
<1>1. Aside(p)
  BY CommandIs DEF InInstallation, Building
<1>2. runner[p] = None /\ runner' = [runner EXCEPT ![p] = None] /\ None \in Answer
  BY BaseIs DEF Asking, Building, Answer
<1>3. conf' \in [Procs -> Valuations] /\ stale' \in [Procs -> BOOLEAN] /\ told' \in Answer
  BY HistoryIs DEF MenuInv, MenuTypeOK
<1>4. x \in Marks /\ x # "pins" /\ x \notin Saving
  BY DEF Marks, InInstallation, Building, Saving
<1>5. /\ FilesInv /\ MenuInv /\ p \in Procs /\ UNCHANGED cwd /\ b \in Programs \union {None}
      /\ pc' = [pc EXCEPT ![p] = x] /\ base' = [base EXCEPT ![p] = b]
      /\ tree' \in [Places -> {"none", "other", "part", "source", "built"}]
      /\ \A s \in Places : tree[s] = "built" => tree'[s] = "built"
      /\ \A q \in Procs \ {p} : pc[q] = "clone" => tree'[Site(q)] = "part"
      /\ x \in Building <=> b # None
      /\ b # Itself
      /\ x = "clone" =>
               /\ tree'[Place(cwd[p], b)] = "part"
               /\ \A q \in Procs \ {p} : pc[q] = "clone" => Site(q) # Place(cwd[p], b)
  OBVIOUS
<1>6. MenuInv'
  BY ONLY <1>2, <1>3, <1>4, <1>5, Moves
<1> QED BY <1>1, <1>6

LEMMA BuildHereIs ==
    ASSUME FilesInv, MenuInv, NEW p \in Procs, BuildHere(p)
    PROVE  Aside(p) /\ MenuInv'
<1>1. PICK t \in Programs \ {Itself} : base' = [base EXCEPT ![p] = t]
  BY DEF BuildHere
<1>2. /\ pc[p] = "menu" /\ pc' = [pc EXCEPT ![p] = "fetch"] /\ FilesKept /\ CommandKept /\ HistoryKept
      /\ cwd' = cwd /\ conf' = conf /\ runner' = runner /\ tree' = tree
  BY DEF BuildHere, Goes
<1>3. /\ \A s \in Places : tree[s] = "built" => tree'[s] = "built"
      /\ \A q \in Procs \ {p} : pc[q] = "clone" => tree'[Site(q)] = "part"
      /\ tree' \in [Places -> {"none", "other", "part", "source", "built"}]
  BY <1>2, ClonesKeep
<1>4. "fetch" \in Building /\ t # None /\ t # Itself /\ t \in Programs \union {None} /\ "fetch" # "clone"
  BY NamesAre DEF Building
<1> QED BY <1>1, <1>2, <1>3, <1>4, BuildsIs

LEMMA SiteIs ==
    ASSUME FilesInv, MenuInv, NEW p \in Procs, pc[p] \in Building
    PROVE  /\ base[p] \in Programs \ {Itself} /\ base[p] # None
           /\ Site(p) \in Places /\ Site(p) = Place(cwd[p], base[p])
           /\ tree[Site(p)] \in {"none", "other", "part", "source", "built"}
<1>1. base[p] \in Programs \ {Itself} /\ cwd[p] \in Cwds
  BY BaseIs DEF MenuInv, MenuTypeOK
<1>2. Site(p) \in Places
  BY <1>1, PlacesAre DEF Site
<1> QED BY <1>1, <1>2, NamesAre DEF Site, MenuInv, MenuTypeOK

\* A place becomes something else, and is no clone of another's.
Becomes(p, s, v) ==
    /\ v \in {"none", "other", "part", "source", "built"}
    /\ tree' = [tree EXCEPT ![s] = v] /\ (tree[s] # "built" \/ v = "built")
    /\ \A q \in Procs \ {p} : pc[q] = "clone" => Site(q) # s

LEMMA OnePlace ==
    ASSUME FilesInv, MenuInv, NEW p \in Procs, NEW s \in Places, NEW v, Becomes(p, s, v)
    PROVE  /\ \A o \in Places : tree[o] = "built" => tree'[o] = "built"
           /\ \A q \in Procs \ {p} : pc[q] = "clone" => tree'[Site(q)] = "part"
           /\ tree' \in [Places -> {"none", "other", "part", "source", "built"}]
           /\ tree'[s] = v
<1>0. /\ v \in {"none", "other", "part", "source", "built"}
      /\ tree' = [tree EXCEPT ![s] = v] /\ (tree[s] # "built" \/ v = "built")
      /\ \A q \in Procs \ {p} : pc[q] = "clone" => Site(q) # s
  BY DEF Becomes
<1>1. tree \in [Places -> {"none", "other", "part", "source", "built"}]
  BY DEF MenuInv, MenuTypeOK
<1>2. ASSUME NEW q \in Procs \ {p}, pc[q] = "clone" PROVE tree'[Site(q)] = "part"
  <2>1. Site(q) \in Places /\ tree[Site(q)] = "part" /\ Site(q) # s
    BY <1>0, <1>2, SiteIs DEF MenuInv, BuildingOK, Building
  <2> QED BY <1>0, <1>1, <2>1
<1> QED BY ONLY <1>0, <1>1, <1>2, s \in Places

LEMMA FetchIs ==
    ASSUME FilesInv, MenuInv, NEW p \in Procs, Fetch(p)
    PROVE  Aside(p) /\ MenuInv'
<1>1. /\ pc[p] = "fetch" /\ FilesKept /\ CommandKept /\ HistoryKept
      /\ cwd' = cwd /\ conf' = conf /\ runner' = runner /\ pc[p] \in Building
  BY DEF Fetch, Building
<1>2. PICK s \in Places, b \in Programs \ {Itself} : s = Site(p) /\ b = base[p] /\ s = Place(cwd[p], b) /\ b # None
  BY <1>1, SiteIs
<1>3. base = [base EXCEPT ![p] = b] /\ b \in Programs \union {None} /\ b # Itself /\ None # Itself
  BY <1>2, BaseIs, NamesAre
<1>4. "compile" \in Building /\ "clone" \in Building /\ "menu" \notin Building
  BY DEF Building
<1>5. CASE tree[s] \in {"part", "source", "built"}
  <2>1. pc' = [pc EXCEPT ![p] = "compile"] /\ tree' = tree /\ base' = [base EXCEPT ![p] = b]
    BY <1>2, <1>3, <1>5 DEF Fetch, Goes
  <2>2. /\ \A o \in Places : tree[o] = "built" => tree'[o] = "built"
        /\ \A q \in Procs \ {p} : pc[q] = "clone" => tree'[Site(q)] = "part"
        /\ tree' \in [Places -> {"none", "other", "part", "source", "built"}]
    BY <2>1, ClonesKeep
  <2> QED BY ONLY FilesInv, MenuInv, p \in Procs, <1>1, <1>2, <1>3, <1>4, <2>1, <2>2, BuildsIs
<1>6. CASE tree[s] = "other"
  <2>1. pc' = [pc EXCEPT ![p] = "menu"] /\ tree' = tree /\ base' = [base EXCEPT ![p] = None]
    BY <1>2, <1>6 DEF Fetch, Back, Goes
  <2>2. /\ \A o \in Places : tree[o] = "built" => tree'[o] = "built"
        /\ \A q \in Procs \ {p} : pc[q] = "clone" => tree'[Site(q)] = "part"
        /\ tree' \in [Places -> {"none", "other", "part", "source", "built"}]
    BY <2>1, ClonesKeep
  <2>3. None \in Programs \union {None}
    OBVIOUS
  <2> QED BY ONLY FilesInv, MenuInv, p \in Procs, <1>1, <1>3, <1>4, <2>1, <2>2, <2>3, BuildsIs
<1>7. CASE tree[s] \notin {"part", "source", "built", "other"}
  <2>1. pc' = [pc EXCEPT ![p] = "clone"] /\ tree' = [tree EXCEPT ![s] = "part"] /\ base' = [base EXCEPT ![p] = b]
    BY <1>2, <1>3, <1>7 DEF Fetch, Goes
  <2>2. /\ \A q \in Procs \ {p} : pc[q] = "clone" => Site(q) # s
        /\ Becomes(p, s, "part")
    BY <1>7, <2>1 DEF MenuInv, BuildingOK, Becomes
  <2>3. /\ \A o \in Places : tree[o] = "built" => tree'[o] = "built"
        /\ \A q \in Procs \ {p} : pc[q] = "clone" => tree'[Site(q)] = "part"
        /\ tree' \in [Places -> {"none", "other", "part", "source", "built"}]
        /\ tree'[s] = "part"
    BY ONLY FilesInv, MenuInv, p \in Procs, s \in Places, <2>2, OnePlace
  <2>4. /\ tree'[Place(cwd[p], b)] = "part" /\ pc[p] \in {"menu"} \union Building
        /\ \A q \in Procs \ {p} : pc[q] = "clone" => Site(q) # Place(cwd[p], b)
    BY <1>1, <1>2, <2>2, <2>3
  <2>5. b # None /\ b \in Programs \union {None} /\ b # Itself /\ "clone" \in {"menu"} \union Building
    BY <1>2, <1>3, <1>4
  <2> QED BY ONLY FilesInv, MenuInv, p \in Procs, <1>1, <1>4, <2>1, <2>3, <2>4, <2>5, BuildsIs
<1> QED BY <1>5, <1>6, <1>7

LEMMA CloneIs ==
    ASSUME FilesInv, MenuInv, NEW p \in Procs, Clone(p)
    PROVE  Aside(p) /\ MenuInv'
<1>1. /\ pc[p] = "clone" /\ FilesKept /\ CommandKept /\ HistoryKept
      /\ cwd' = cwd /\ conf' = conf /\ runner' = runner /\ pc[p] \in Building
  BY DEF Clone, Building
<1>2. PICK s \in Places, b \in Programs \ {Itself} : s = Site(p) /\ b = base[p] /\ s = Place(cwd[p], b) /\ b # None
  BY <1>1, SiteIs
<1>3. base = [base EXCEPT ![p] = b] /\ b \in Programs \union {None} /\ b # Itself /\ None # Itself
  BY <1>2, BaseIs, NamesAre
<1>4. "compile" \in Building /\ "menu" \notin Building
  BY DEF Building
<1>5. tree[s] # "built" /\ \A q \in Procs \ {p} : pc[q] = "clone" => Site(q) # s
  BY <1>1, <1>2 DEF MenuInv, BuildingOK
<1>6. PICK v \in {"source", "none"} : tree' = [tree EXCEPT ![s] = v]
  BY <1>2 DEF Clone
<1>7. \/ pc' = [pc EXCEPT ![p] = "compile"] /\ base' = [base EXCEPT ![p] = b]
      \/ pc' = [pc EXCEPT ![p] = "menu"] /\ base' = [base EXCEPT ![p] = None]
  BY <1>3 DEF Clone, Goes, Back
<1>8. /\ \A o \in Places : tree[o] = "built" => tree'[o] = "built"
      /\ \A q \in Procs \ {p} : pc[q] = "clone" => tree'[Site(q)] = "part"
      /\ tree' \in [Places -> {"none", "other", "part", "source", "built"}]
  <2>1. Becomes(p, s, v)
    BY <1>5, <1>6 DEF Becomes
  <2> QED BY ONLY FilesInv, MenuInv, p \in Procs, s \in Places, <2>1, OnePlace
<1>9. None \in Programs \union {None}
  OBVIOUS
<1>10. FilesInv /\ MenuInv /\ p \in Procs
  OBVIOUS
<1>11. CASE pc' = [pc EXCEPT ![p] = "compile"] /\ base' = [base EXCEPT ![p] = b]
  BY ONLY <1>1, <1>2, <1>3, <1>4, <1>8, <1>10, <1>11, BuildsIs
<1>12. CASE pc' = [pc EXCEPT ![p] = "menu"] /\ base' = [base EXCEPT ![p] = None]
  BY ONLY <1>1, <1>3, <1>4, <1>8, <1>9, <1>10, <1>12, BuildsIs
<1> QED BY <1>7, <1>11, <1>12

LEMMA CompileIs ==
    ASSUME FilesInv, MenuInv, NEW p \in Procs, Compile(p)
    PROVE  Aside(p) /\ MenuInv'
<1>1. /\ pc[p] = "compile" /\ FilesKept /\ HistoryKept
      /\ cwd' = cwd /\ path' = path /\ doc' = doc /\ pc[p] \in Building
  BY DEF Compile, Building
<1>2. PICK s \in Places, b \in Programs \ {Itself} : s = Site(p) /\ b = base[p] /\ s = Place(cwd[p], b) /\ b # None
  BY <1>1, SiteIs
<1>3. FilesInv /\ MenuInv /\ p \in Procs
  OBVIOUS
<1>4. CASE /\ tree[s] \in {"source", "built"}
           /\ tree' = [tree EXCEPT ![s] = "built"]
           /\ base' = [base EXCEPT ![p] = None]
           /\ Answers(p, b, ProgramSettings(conf[p], b))
  <2>1. Becomes(p, s, "built")
    BY <1>4 DEF MenuInv, BuildingOK, Becomes
  <2>2. /\ \A o \in Places : tree[o] = "built" => tree'[o] = "built"
        /\ \A q \in Procs \ {p} : pc[q] = "clone" => tree'[Site(q)] = "part"
        /\ tree' \in [Places -> {"none", "other", "part", "source", "built"}]
        /\ tree'[s] = "built"
    BY ONLY FilesInv, MenuInv, p \in Procs, s \in Places, <2>1, OnePlace
  <2>3. ProgramSettings(conf[p], b) \in Seq(Changes) /\ ProgramSettings(conf[p], b) # <<>>
    BY ProgramSettingsAre
  <2> QED BY ONLY <1>1, <1>2, <1>3, <1>4, <2>2, <2>3, AnswersIs
<1>5. CASE /\ pc' = [pc EXCEPT ![p] = "menu"] /\ base' = [base EXCEPT ![p] = None]
           /\ tree' = tree /\ runner' = runner /\ todo' = todo /\ conf' = conf
  <2>1. CommandKept
    BY <1>1, <1>5 DEF CommandKept
  <2>2. None \in Programs \union {None} /\ None # Itself /\ "menu" \notin Building
    BY NamesAre DEF Building
  <2>3. /\ \A o \in Places : tree[o] = "built" => tree'[o] = "built"
        /\ \A q \in Procs \ {p} : pc[q] = "clone" => tree'[Site(q)] = "part"
        /\ tree' \in [Places -> {"none", "other", "part", "source", "built"}]
    BY <1>5, ClonesKeep
  <2> QED BY ONLY <1>1, <1>3, <1>5, <2>1, <2>2, <2>3, BuildsIs
<1> QED BY <1>2, <1>4, <1>5 DEF Compile, Back, Goes

LEMMA RememberIs ==
    ASSUME FilesInv, MenuInv, NEW p \in Procs, Remember(p)
    PROVE  Aside(p) /\ MenuInv'
<1>1. /\ pc[p] = "pins" /\ pc' = [pc EXCEPT ![p] = "read"] /\ FilesKept /\ HistoryKept
      /\ UNCHANGED <<todo, doc, cwd, conf, base, tree, runner>>
      /\ \E f \in Files : path' = [path EXCEPT ![p] = f]
  BY DEF Remember, Goes, Files
<1>2. todo[p] # <<>> /\ todo[p] \in Seq(Changes) /\ todo' = [todo EXCEPT ![p] = todo[p]]
  BY <1>1 DEF FilesInv, FilesTypeOK, DocOK
<1>3. Aside(p)
  BY <1>1, <1>2 DEF Aside, InInstallation
<1>4. pc[p] \notin Building /\ "read" \in Marks \ Building /\ "read" \notin Asking /\ "read" # "pins"
  BY <1>1 DEF Asking, Building, Marks, InSettings
<1>5. conf' \in [Procs -> Valuations] /\ stale' \in [Procs -> BOOLEAN] /\ told' \in Answer
  BY <1>1, HistoryIs DEF MenuInv, MenuTypeOK
<1>6. runner[p] \in Programs \union {Image, None}
  BY <1>1 DEF MenuInv, RunnerOK, Saving
<1>7. MenuInv'
  BY <1>1, <1>4, <1>5, <1>6, Rests
<1> QED BY <1>3, <1>7

LEMMA KilledIs ==
    ASSUME FilesInv, MenuInv, NEW p \in Procs, Killed(p)
    PROVE  Aside(p) /\ MenuInv'
<1>1. /\ pc[p] \in InInstallation /\ Stops(p) /\ base' = [base EXCEPT ![p] = None]
      /\ todo' = [todo EXCEPT ![p] = <<>>] /\ FilesKept /\ HistoryKept
      /\ UNCHANGED <<path, doc, cwd, tree, runner>>
  BY DEF Killed
<1>2. pc' = [pc EXCEPT ![p] = "ended"] /\ conf' \in [Procs -> Valuations]
  BY <1>1, StopsIs
<1>3. Aside(p)
  <2>1. path' = [path EXCEPT ![p] = path[p]] /\ path[p] \in Files /\ pc'[p] = "ended" /\ <<>> \in Seq(Changes)
    BY <1>1, <1>2 DEF FilesInv, FilesTypeOK
  <2> QED BY <1>1, <1>2, <2>1 DEF Aside
<1>4. /\ "ended" \in Marks /\ "ended" \notin Building \union Asking \union Saving
      /\ "ended" # "clone" /\ "ended" # "pins" /\ None \in Programs \union {None} /\ None # Itself
  BY NamesAre DEF Marks, Building, Asking, Saving
<1>5. runner[p] \in Answer /\ runner' = [runner EXCEPT ![p] = runner[p]]
  BY <1>1, BaseIs
<1>6. runner[p] \notin {None, Image} => tree'[Place(cwd[p], runner[p])] = "built" /\ runner[p] # Itself
  BY <1>1 DEF MenuInv, RunsWhatIsThere, Located
<1>7. stale' \in [Procs -> BOOLEAN] /\ told' \in Answer /\ UNCHANGED cwd
  BY <1>1, HistoryIs
<1>8. /\ \A o \in Places : tree[o] = "built" => tree'[o] = "built"
      /\ \A q \in Procs \ {p} : pc[q] = "clone" => tree'[Site(q)] = "part"
      /\ tree' \in [Places -> {"none", "other", "part", "source", "built"}]
  BY <1>1, ClonesKeep
<1>9. base' = [base EXCEPT ![p] = None]
  BY <1>1
<1>10. MenuInv'
  BY ONLY FilesInv, MenuInv, p \in Procs, <1>2, <1>4, <1>5, <1>6, <1>7, <1>8, <1>9, Moves
<1> QED BY <1>3, <1>10

LEMMA FilesMove ==
    ASSUME FilesInv, NEW p \in Procs, SettingsStep(p) \/ Write(p)
    PROVE  /\ pc[p] \in {"new", "read", "truncate", "write", "edit"}
           /\ \E x \in {"ended", "read", "truncate", "write", "edit"} :
                 /\ pc' = [pc EXCEPT ![p] = x]
                 /\ pc[p] = "edit" => x = "ended"
<1>1. CASE Write(p)
  BY <1>1 DEF Write, Ends, Goes
<1>2. CASE ConfigSet(p) \/ ConfigUnset(p) \/ ConfigEdit(p)
  BY <1>2 DEF ConfigSet, ConfigUnset, ConfigEdit, Goes
<1>3. CASE ReadChange(p)
  BY <1>3 DEF ReadChange, Ends, Goes
<1>4. CASE Truncate(p)
  BY <1>4 DEF Truncate, Ends, Goes
<1>5. CASE EditorSaves(p) \/ CutShort(p) \/ KilledInSettings(p)
  BY <1>5 DEF EditorSaves, CutShort, KilledInSettings, Ends, Goes, InSettings
<1> QED BY <1>1, <1>2, <1>3, <1>4, <1>5 DEF SettingsStep

LEMMA InFilesIs ==
    ASSUME FilesInv, MenuInv, NEW p \in Procs, InFiles(p)
    PROVE  FilesInv' /\ MenuInv'
<1>1. /\ SettingsStep(p) \/ Write(p)
      /\ UNCHANGED <<cwd, conf, base, tree, runner>>
      /\ stale' \in [Procs -> BOOLEAN]
      /\ told' \in {told, None, runner[p]}
  BY DEF InFiles
<1>2. FilesInv'
  BY <1>1, SettingsStepIs, WriteIs
<1>3. PICK x \in {"ended", "read", "truncate", "write", "edit"} :
         pc' = [pc EXCEPT ![p] = x] /\ (pc[p] = "edit" => x = "ended")
  BY <1>1, FilesMove
<1>4. pc[p] \in {"new", "read", "truncate", "write", "edit"}
  BY <1>1, FilesMove
<1>5. pc[p] \notin Building /\ x \in Marks \ Building /\ x \notin Asking /\ x # "pins"
  BY <1>3, <1>4 DEF Building, Marks, InSettings, Asking
<1>6. x \in Saving => runner[p] \in Programs \union {Image, None}
  BY <1>3, <1>4 DEF MenuInv, RunnerOK, Saving, Asking
<1>7. conf' \in [Procs -> Valuations] /\ told' \in Answer
  BY <1>1 DEF MenuInv, MenuTypeOK, Answer
<1>8. MenuInv'
  BY <1>1, <1>3, <1>5, <1>6, <1>7, Rests
<1> QED BY <1>2, <1>8

LEMMA MenuStep ==
    ASSUME FilesInv, MenuInv, NEW p \in Procs,
           \/ LoadGlobal(p) \/ LoadProject(p) \/ Ready(p)
           \/ UseImage(p) \/ UseExisting(p) \/ BuildHere(p) \/ Cancel(p)
           \/ Fetch(p) \/ Clone(p) \/ Compile(p)
           \/ Remember(p) \/ Killed(p)
    PROVE  Aside(p) /\ FilesInv' /\ MenuInv'
BY AsideIs, LoadIs, ReadyIs, UseImageIs, UseExistingIs, BuildHereIs, CancelIs, FetchIs, CloneIs, CompileIs,
   RememberIs, KilledIs

LEMMA Begin == Init => FilesInv /\ MenuInv
<1> SUFFICES ASSUME Init PROVE FilesInv /\ MenuInv
  OBVIOUS
<1>1. /\ file \in [Files -> Contents] /\ kept = file
      /\ pc = [p \in Procs |-> "new"]
      /\ path = [p \in Procs |-> "global"]
      /\ todo = [p \in Procs |-> <<>>]
      /\ doc = [p \in Procs |-> Empty]
      /\ hurt = [f \in Files |-> FALSE]
  BY DocumentsAre, AbsentIs DEF Init, SettingsInit
<1>2. FilesTypeOK
  BY <1>1, EmptyIs DEF FilesTypeOK, Marks, Files
<1>3. \A p \in Procs : DocOK(p)
  BY <1>1 DEF DocOK
<1>4. \A f \in Files : FileOK(f)
  BY <1>1 DEF FileOK, Holds, Writes, Making
<1>5. MenuTypeOK /\ \A p \in Procs : runner[p] = None /\ base[p] = None
  BY NoSettingsIs, InstallationAssumption DEF Init, MenuTypeOK, Answer
<1>6. RunsWhatIsThere /\ \A p \in Procs : BuildingOK(p) /\ RunnerOK(p)
  BY <1>1, <1>5, NamesAre DEF RunsWhatIsThere, BuildingOK, RunnerOK, Building, Saving
<1> QED BY <1>2, <1>3, <1>4, <1>5, <1>6 DEF FilesInv, MenuInv

LEMMA StepKeeps == FilesInv /\ MenuInv /\ [Next]_vars => FilesInv' /\ MenuInv'
<1> SUFFICES ASSUME FilesInv, MenuInv, [Next]_vars PROVE FilesInv' /\ MenuInv'
  OBVIOUS
<1>1. CASE UNCHANGED vars
  <2>1. FilesInv'
    BY <1>1 DEF vars, settingsVars, FilesInv, FilesTypeOK, DocOK, FileOK, Making, Holds, Writes
  <2>2. MenuInv'
    BY <1>1 DEF vars, settingsVars, MenuInv, MenuTypeOK, RunsWhatIsThere, Located, BuildingOK, RunnerOK, Site
  <2> QED BY <2>1, <2>2
<1>2. CASE Next
  BY <1>2, InFilesIs, MenuStep DEF Next
<1> QED BY <1>1, <1>2

LEMMA FilesAndMenu == Spec => [](FilesInv /\ MenuInv)
BY Begin, StepKeeps, PTL DEF Spec

\* A settings file nobody else hurt, and that no command is writing, is what the
\* commands made of it: each has changed its own keys and nothing else.
THEOREM RestIsKept == Spec => []KeepsTheRest
<1>1. FilesInv => KeepsTheRest
  BY DEF FilesInv, FileOK, Writes, KeepsTheRest
<1> QED BY <1>1, FilesAndMenu, PTL

\* Whatever ready returns to a command is there in its directory and is not this
\* program, whatever was cut short before; and all stays of its type, so that a
\* file that does not parse never becomes a setting.
THEOREM EmulatorIsThere == Spec => []InstallationOK
<1>1. FilesInv /\ MenuInv => InstallationOK
  <2> SUFFICES ASSUME FilesInv, MenuInv PROVE InstallationOK
    OBVIOUS
  <2>1. \A s \in Seq(Changes) : s \in Seq([key : Keys, value : Settable])
    <3>1. Changes \subseteq [key : Keys, value : Settable]
      BY DEF Changes
    <3>2. ASSUME NEW T, Changes \subseteq T, NEW s \in Seq(Changes) PROVE s \in Seq(T)
      <4>1. s \in [1..Len(s) -> T] /\ Len(s) \in Nat
        BY <3>2
      <4> QED BY <4>1
    <3> QED BY ONLY <3>1, <3>2
  <2>2. SettingsTypeOK
    BY <2>1 DEF FilesInv, FilesTypeOK, DocOK, SettingsTypeOK
  <2> QED BY <2>2 DEF InstallationOK, TypeOK, FilesInv, FilesTypeOK, MenuInv, MenuTypeOK, Marks
<1> QED BY <1>1, FilesAndMenu, PTL

(***************************************************************************)
(* The answer                                                              *)
(***************************************************************************)

\* Where two files' settings lead to, and where the files as they are do.
Leads(g, j) == Resolve(Merge(g, j), None)
Merged == Merge(file["global"].vals, file["project"].vals)

\* The changes an answer asks for.
AnswerTo(settings, r) ==
    IF r = Image THEN <<Change("source", "docker")>> ELSE ProgramSettings(settings, r)

With(v, c) == [v EXCEPT ![c.key] = c.value]

\* One change or two, made in turn.
Apply(v, changes) ==
    IF Len(changes) = 1 THEN With(v, changes[1]) ELSE With(With(v, changes[1]), changes[2])

\* What file f holds once p is done with it.
Shall(p, f) ==
    IF path[p] # f THEN file[f].vals
    ELSE Apply(IF pc[p] \in {"truncate", "write"} THEN doc[p].vals ELSE file[f].vals, todo[p])

\* Where the files lead to once p is done.
Outcome(p) == Leads(Shall(p, "global"), Shall(p, "project"))

Tables == ~file["project"].inline

\* What p has loaded is what the files have, what it is to change is what its
\* answer asks for, and once it has changed it the files lead to the answer -
\* unless another process changed a file meanwhile.
ConfOK(p) ==
    /\ pc[p] = "new" => conf[p] = NoSettings /\ ~stale[p]
    /\ ~stale[p] =>
        /\ pc[p] = "load" => conf[p] = file["global"].vals
        /\ pc[p] \in {"ready", "menu"} \union Building => conf[p] = Merged
        /\ pc[p] = "pins" => todo[p] = AnswerTo(Merged, runner[p])
        /\ pc[p] = "write" => file[path[p]] = Empty
        /\ pc[p] \in {"truncate", "write"} /\ path[p] = "project" => Tables
        /\ pc[p] \in {"read", "truncate", "write"} /\ runner[p] # None /\ Tables =>
               Outcome(p) = runner[p] /\ Len(todo[p]) \in {1, 2}

\* The last answer saved was built or found where a command ran.
ToldOK ==
    /\ told \in Programs \union {Image, None}
    /\ told \notin {None, Image} =>
           told # Itself /\ \E p \in Procs : tree[Place(cwd[p], told)] = "built"
    /\ told # None /\ Tables => Leads(file["global"].vals, file["project"].vals) = told

AnswerInv == ToldOK /\ \A p \in Procs : ConfOK(p)

LEMMA LeadsIs ==
    ASSUME NEW g \in Valuations, NEW j \in Valuations
    PROVE  LET s == IF j["source"] # None THEN j["source"] ELSE g["source"]
               t == IF j["program"] # None THEN j["program"] ELSE g["program"]
           IN  /\ Merge(g, j)["source"] = s /\ Merge(g, j)["program"] = t
               /\ Leads(g, j) = IF s = "docker" THEN Image ELSE IF t # None THEN t ELSE Default
BY DEF Leads, Merge, Resolve, Keys

LEMMA WithIs ==
    ASSUME NEW v \in Valuations, NEW k \in Keys, NEW u \in Values[k] \union {None}
    PROVE  /\ With(v, Change(k, u)) \in Valuations
           /\ With(v, Change(k, u))[k] = u
           /\ \A o \in Keys \ {k} : With(v, Change(k, u))[o] = v[o]
BY ValuesAre DEF With, Change, Valuations, Keys, Settable

LEMMA WithChange ==
    ASSUME NEW v \in Valuations, NEW c \in Changes
    PROVE  /\ With(v, c) \in Valuations
           /\ With(v, c)[c.key] = c.value
           /\ v[c.key] = c.value => With(v, c) = v
<1>1. c.key \in Keys /\ c.value \in Values[c.key] \union {None}
  BY DEF Changes
<1>2. With(v, c) \in Valuations /\ With(v, c)[c.key] = c.value
  BY <1>1, ValuesAre DEF With, Valuations, Keys, Settable
<1> QED BY <1>1, <1>2 DEF With, Valuations

\* Whichever file remember chooses, and whatever the files held, making the changes
\* of an answer in it leads to the answer.
LEMMA RememberLeads ==
    ASSUME NEW g \in Valuations, NEW j \in Valuations, NEW r \in Programs \union {Image},
           NEW changes, changes = AnswerTo(Merge(g, j), r),
           NEW f \in Files,
           f = "global" => \A i \in DOMAIN changes : j[changes[i].key] = None
    PROVE  /\ Len(changes) \in {1, 2}
           /\ f = "global" => Leads(Apply(g, changes), j) = r
           /\ f = "project" => Leads(g, Apply(j, changes)) = r
<1> DEFINE M == Merge(g, j)
           a == Change("program", r)
           b == Change("source", "host")
           d == Change("source", "docker")
<1>1. "program" \in Keys /\ "source" \in Keys /\ "host" \in Values["source"] /\ "docker" \in Values["source"]
      /\ (r # Image => r \in Values["program"]) /\ r # None /\ Image # None
  BY ValuesAre, NamesAre DEF Keys
<1>2. a.key = "program" /\ b.key = "source" /\ d.key = "source"
  BY DEF Change
<1>3. CASE r = Image
  <2>1. changes = <<d>>
    BY <1>3 DEF AnswerTo
  <2>2. Len(changes) = 1 /\ changes[1] = d /\ 1 \in DOMAIN changes
    BY <2>1
  <2>3. /\ With(g, d) \in Valuations /\ With(g, d)["source"] = "docker"
        /\ With(j, d) \in Valuations /\ With(j, d)["source"] = "docker"
    BY <1>1, WithIs
  <2>4. f = "global" => j["source"] = None
    BY <2>2, <1>2
  <2>5. Apply(g, changes) = With(g, d) /\ Apply(j, changes) = With(j, d)
    BY <2>2 DEF Apply
  <2>6. f = "global" => Leads(With(g, d), j) = Image
    BY <2>3, <2>4, LeadsIs
  <2>7. Leads(g, With(j, d)) = Image
    BY <2>3, LeadsIs DEF None
  <2> QED BY <2>2, <2>5, <2>6, <2>7, <1>3
<1>4. CASE r # Image /\ M["source"] # "docker"
  <2>1. changes = <<a>>
    BY <1>4, ProgramSettingsAre DEF AnswerTo
  <2>2. Len(changes) = 1 /\ changes[1] = a /\ 1 \in DOMAIN changes
    BY <2>1
  <2>3. /\ With(g, a) \in Valuations /\ With(g, a)["program"] = r /\ With(g, a)["source"] = g["source"]
        /\ With(j, a) \in Valuations /\ With(j, a)["program"] = r /\ With(j, a)["source"] = j["source"]
    <3>1. r \in Values["program"] \union {None} /\ "source" \in Keys \ {"program"}
      BY <1>1, <1>4
    <3> QED BY <1>1, <3>1, WithIs
  <2>4. f = "global" => j["program"] = None
    BY <2>2, <1>2
  <2>5. Apply(g, changes) = With(g, a) /\ Apply(j, changes) = With(j, a)
    BY <2>2 DEF Apply
  <2>6. (IF j["source"] # None THEN j["source"] ELSE g["source"]) # "docker"
    BY <1>4, LeadsIs
  <2> HIDE DEF a, M
  <2>7. f = "global" => Leads(With(g, a), j) = r
    BY <2>3, <2>4, <2>6, <1>1, LeadsIs
  <2>8. Leads(g, With(j, a)) = r
    BY <2>3, <2>6, <1>1, LeadsIs
  <2> QED BY <2>2, <2>5, <2>7, <2>8
<1>5. CASE r # Image /\ M["source"] = "docker"
  <2>1. changes = <<a, b>>
    BY <1>5, ProgramSettingsAre DEF AnswerTo
  <2>2. Len(changes) = 2 /\ changes[1] = a /\ changes[2] = b /\ 1 \in DOMAIN changes /\ 2 \in DOMAIN changes
    BY <2>1
  <2>3. ASSUME NEW v \in Valuations
        PROVE  LET w == With(With(v, a), b) IN w \in Valuations /\ w["program"] = r /\ w["source"] = "host"
    <3>1. r \in Values["program"] \union {None} /\ "source" \in Keys \ {"program"} /\ "program" \in Keys \ {"source"}
      BY <1>1, <1>5
    <3>2. With(v, a) \in Valuations /\ With(v, a)["program"] = r
      BY <1>1, <3>1, WithIs
    <3> HIDE DEF a
    <3> QED BY <1>1, <3>1, <3>2, WithIs
  <2>4. f = "global" => j["program"] = None /\ j["source"] = None
    BY <2>2, <1>2
  <2>5. Apply(g, changes) = With(With(g, a), b) /\ Apply(j, changes) = With(With(j, a), b)
    BY <2>2 DEF Apply
  <2> HIDE DEF a, b, M
  <2>6. f = "global" => Leads(With(With(g, a), b), j) = r
    BY <2>3, <2>4, <1>1, LeadsIs
  <2>7. Leads(g, With(With(j, a), b)) = r
    BY <2>3, <1>1, LeadsIs DEF None
  <2> QED BY <2>2, <2>5, <2>6, <2>7
<1> QED BY <1>3, <1>4, <1>5

\* What p knows stays true while the files do, or it is stale.
LEMMA OthersKnow ==
    ASSUME NEW q \in Procs, ConfOK(q), Same(q), conf'[q] = conf[q], runner'[q] = runner[q],
           \/ file' = file /\ stale'[q] = stale[q]
           \/ pc[q] = "new" /\ stale'[q] = stale[q]
           \/ pc[q] # "new" /\ stale'[q] = TRUE
           \/ pc[q] = "ended"
    PROVE  ConfOK(q)'
<1>1. CASE pc[q] = "ended"
  BY <1>1 DEF ConfOK, Same, Building
<1>2. CASE pc[q] = "new"
  BY <1>2 DEF ConfOK, Same, Building
<1>3. CASE pc[q] # "new" /\ stale'[q] = TRUE
  BY <1>3 DEF ConfOK, Same
<1>4. CASE file' = file /\ stale'[q] = stale[q]
  <2>1. \A f \in {"global", "project"} : Shall(q, f)' = Shall(q, f)
    BY <1>4 DEF Shall, Same
  <2>2. Outcome(q)' = Outcome(q) /\ Merged' = Merged /\ Tables' = Tables
    BY <1>4, <2>1 DEF Outcome, Merged, Tables
  <2>3. pc[q] = "write" => (file[path[q]] = Empty <=> file'[path'[q]] = Empty)
    BY <1>4 DEF Same
  <2>4. (~stale[q] =>
        /\ pc[q] = "load" => conf[q] = file["global"].vals
        /\ pc[q] \in {"ready", "menu"} \union Building => conf[q] = Merged
        /\ pc[q] = "pins" => todo[q] = AnswerTo(Merged, runner[q])
        /\ pc[q] = "write" => file[path[q]] = Empty
        /\ pc[q] \in {"truncate", "write"} /\ path[q] = "project" => Tables
        /\ pc[q] \in {"read", "truncate", "write"} /\ runner[q] # None /\ Tables =>
               Outcome(q) = runner[q] /\ Len(todo[q]) \in {1, 2})
    BY DEF ConfOK
  <2>5. (~stale'[q] =>
        /\ pc'[q] = "load" => conf'[q] = file'["global"].vals
        /\ pc'[q] \in {"ready", "menu"} \union Building => conf'[q] = Merged'
        /\ pc'[q] = "pins" => todo'[q] = AnswerTo(Merged', runner'[q])
        /\ pc'[q] = "write" => file'[path'[q]] = Empty
        /\ pc'[q] \in {"truncate", "write"} /\ path'[q] = "project" => Tables'
        /\ pc'[q] \in {"read", "truncate", "write"} /\ runner'[q] # None /\ Tables' =>
               Outcome(q)' = runner'[q] /\ Len(todo'[q]) \in {1, 2})
    BY <1>4, <2>2, <2>3, <2>4 DEF Same
  <2> QED BY <1>4, <2>5 DEF ConfOK, Same
<1> QED BY <1>1, <1>2, <1>3, <1>4

LEMMA ToldStays ==
    ASSUME ToldOK, MenuInv, told' = told, file' = file, cwd' = cwd,
           \A s \in Places : tree[s] = "built" => tree'[s] = "built"
    PROVE  ToldOK'
<1>1. told \notin {None, Image} => \E p \in Procs : tree'[Place(cwd[p], told)] = "built"
  <2> SUFFICES ASSUME told \notin {None, Image} PROVE \E p \in Procs : tree'[Place(cwd[p], told)] = "built"
    OBVIOUS
  <2>1. PICK p \in Procs : tree[Place(cwd[p], told)] = "built"
    BY DEF ToldOK
  <2>2. Place(cwd[p], told) \in Places
    BY PlacesAre DEF ToldOK, MenuInv, MenuTypeOK
  <2> QED BY <2>1, <2>2
<1>2. Tables' = Tables
  BY DEF Tables
<1> QED BY <1>1, <1>2 DEF ToldOK

\* The menu's steps: what p has loaded, and what it is told to change.
LEMMA MenuKnows ==
    ASSUME FilesInv, MenuInv, AnswerInv, NEW p \in Procs, Aside(p), MenuInv', FilesInv',
           HistoryKept, \A q \in Procs \ {p} : conf'[q] = conf[q] /\ runner'[q] = runner[q], cwd' = cwd,
           \A s \in Places : tree[s] = "built" => tree'[s] = "built",
           ConfOK(p)'
    PROVE  AnswerInv'
<1>1. \A q \in Procs \ {p} : Same(q)
  BY AsideIs
<1>2. file' = file /\ stale' = stale /\ told' = told
  BY DEF Aside, FilesKept, HistoryKept
<1>3. \A q \in Procs \ {p} : ConfOK(q)'
  BY <1>1, <1>2, OthersKnow DEF AnswerInv
<1>4. ToldOK'
  BY <1>2, ToldStays DEF AnswerInv
<1> QED BY <1>3, <1>4 DEF AnswerInv

LEMMA BuiltStays ==
    ASSUME FilesInv, MenuInv, NEW p \in Procs, Fetch(p) \/ Clone(p) \/ Compile(p)
    PROVE  \A s \in Places : tree[s] = "built" => tree'[s] = "built"
<1>1. pc[p] \in Building
  BY DEF Fetch, Clone, Compile, Building
<1>2. Site(p) \in Places
  BY <1>1, SiteIs
<1>3. tree \in [Places -> {"none", "other", "part", "source", "built"}]
  BY DEF MenuInv, MenuTypeOK
<1>4. CASE Fetch(p)
  BY <1>2, <1>3, <1>4 DEF Fetch
<1>5. CASE Clone(p)
  <2>1. tree[Site(p)] = "part"
    BY <1>5 DEF Clone, MenuInv, BuildingOK
  <2> QED BY <1>2, <1>3, <1>5, <2>1 DEF Clone
<1>6. CASE Compile(p)
  BY <1>2, <1>3, <1>6 DEF Compile
<1> QED BY <1>4, <1>5, <1>6

LEMMA MenuLeaves ==
    ASSUME FilesInv, MenuInv, NEW p \in Procs,
           \/ LoadGlobal(p) \/ LoadProject(p) \/ Ready(p)
           \/ UseImage(p) \/ UseExisting(p) \/ BuildHere(p) \/ Cancel(p)
           \/ Fetch(p) \/ Clone(p) \/ Compile(p)
           \/ Remember(p) \/ Killed(p)
    PROVE  /\ HistoryKept /\ cwd' = cwd /\ file' = file
           /\ \A q \in Procs \ {p} : conf'[q] = conf[q] /\ runner'[q] = runner[q]
           /\ \A s \in Places : tree[s] = "built" => tree'[s] = "built"
<1>0. conf \in [Procs -> Valuations] /\ runner \in [Procs -> Answer]
  BY DEF MenuInv, MenuTypeOK
<1>1. CASE LoadGlobal(p) \/ LoadProject(p)
  BY <1>0, <1>1 DEF LoadGlobal, LoadProject, Loads, Stops, FilesKept
<1>2. CASE Ready(p)
  BY <1>0, <1>2 DEF Ready, Stops, Offer, Returns, FilesKept
<1>3. CASE UseImage(p) \/ UseExisting(p) \/ Cancel(p)
  BY <1>0, <1>3 DEF UseImage, UseExisting, Cancel, Answers, Returns, Stops, FilesKept
<1>4. CASE BuildHere(p) \/ Remember(p) \/ Killed(p)
  BY <1>0, <1>4 DEF BuildHere, Remember, Killed, Stops, FilesKept
<1>5. CASE Fetch(p) \/ Clone(p) \/ Compile(p)
  <2>1. HistoryKept /\ cwd' = cwd /\ file' = file
    BY <1>5 DEF Fetch, Clone, Compile, FilesKept
  <2>2. \A q \in Procs \ {p} : conf'[q] = conf[q] /\ runner'[q] = runner[q]
    BY <1>0, <1>5 DEF Fetch, Clone, Compile, Answers, Returns
  <2> QED BY <1>5, <2>1, <2>2, BuiltStays
<1> QED BY <1>1, <1>2, <1>3, <1>4, <1>5

LEMMA EndedKnows ==
    ASSUME NEW p \in Procs, pc'[p] = "ended"
    PROVE  ConfOK(p)'
BY DEF ConfOK, Building

\* p goes on with the settings it has loaded.
LEMMA GoesOn ==
    ASSUME FilesInv, MenuInv, AnswerInv, NEW p \in Procs, pc[p] \in {"ready", "menu"} \union Building,
           file' = file, stale' = stale, conf'[p] = conf[p],
           pc'[p] \in {"ready", "menu"} \union Building
    PROVE  ConfOK(p)'
<1>1. Merged' = Merged
  BY DEF Merged
<1>2. ~stale[p] => conf[p] = Merged
  BY DEF AnswerInv, ConfOK
<1> QED BY <1>1, <1>2 DEF ConfOK, Building

\* p is given an answer from the settings it has loaded.
LEMMA GetsAnswer ==
    ASSUME FilesInv, MenuInv, AnswerInv, NEW p \in Procs, pc[p] \in {"menu"} \union Building,
           file' = file, stale' = stale, NEW r, NEW changes, Answers(p, r, changes),
           changes = AnswerTo(conf[p], r)
    PROVE  ConfOK(p)'
<1>1. Merged' = Merged
  BY DEF Merged
<1>2. ~stale[p] => conf[p] = Merged
  BY DEF AnswerInv, ConfOK
<1>3. pc'[p] = "pins" /\ todo'[p] = changes /\ runner'[p] = r
  BY DEF Answers, Goes, Returns, FilesInv, FilesTypeOK, MenuInv, MenuTypeOK
<1>4. ~stale'[p] => todo'[p] = AnswerTo(Merged', runner'[p])
  BY <1>1, <1>2, <1>3
<1> QED BY <1>3, <1>4 DEF ConfOK, Building

LEMMA MergeEmpty ==
    ASSUME NEW v \in Valuations
    PROVE  Merge(NoSettings, v) = v
<1>1. Merge(NoSettings, v) \in Valuations
  BY NoSettingsIs, MergeIs
<1>2. \A k \in Keys : Merge(NoSettings, v)[k] = v[k]
  BY DEF Merge, NoSettings
<1> QED BY <1>1, <1>2 DEF Valuations

LEMMA LoadKnows ==
    ASSUME FilesInv, MenuInv, AnswerInv, NEW p \in Procs, LoadGlobal(p) \/ LoadProject(p)
    PROVE  ConfOK(p)'
<1>1. file' = file /\ stale' = stale /\ conf \in [Procs -> Valuations] /\ pc \in [Procs -> Marks]
  BY DEF LoadGlobal, LoadProject, FilesKept, HistoryKept, MenuInv, MenuTypeOK, FilesInv, FilesTypeOK
<1>2. CASE Stops(p)
  BY <1>1, <1>2, EndedKnows DEF Stops, Goes
<1>3. CASE LoadGlobal(p) /\ ~Stops(p)
  <2>1. pc'[p] = "load" /\ conf'[p] = Merge(conf[p], file["global"].vals) /\ pc[p] = "new"
    BY <1>1, <1>3 DEF LoadGlobal, Loads, Goes
  <2>2. conf'[p] = file["global"].vals
    BY <2>1, ValsAre, MergeEmpty DEF AnswerInv, ConfOK, Files
  <2> QED BY <1>1, <2>1, <2>2 DEF ConfOK, Building
<1>4. CASE LoadProject(p) /\ ~Stops(p)
  <2>1. pc'[p] = "ready" /\ conf'[p] = Merge(conf[p], file["project"].vals) /\ pc[p] = "load"
    BY <1>1, <1>4 DEF LoadProject, Loads, Goes
  <2>2. ~stale[p] => conf'[p] = Merged'
    BY <1>1, <2>1 DEF AnswerInv, ConfOK, Merged
  <2> QED BY <1>1, <2>1, <2>2 DEF ConfOK, Building
<1> QED BY <1>2, <1>3, <1>4

LEMMA ChoiceKnows ==
    ASSUME FilesInv, MenuInv, AnswerInv, NEW p \in Procs,
           Ready(p) \/ UseImage(p) \/ UseExisting(p) \/ BuildHere(p) \/ Cancel(p)
    PROVE  ConfOK(p)'
<1>1. file' = file /\ stale' = stale /\ pc \in [Procs -> Marks]
  BY DEF Ready, UseImage, UseExisting, BuildHere, Cancel, FilesKept, HistoryKept, FilesInv, FilesTypeOK
<1>2. CASE Stops(p)
  BY <1>1, <1>2, EndedKnows DEF Stops, Goes
<1>3. CASE (Ready(p) \/ BuildHere(p)) /\ ~Stops(p)
  <2>1. pc[p] \in {"ready", "menu"} /\ pc'[p] \in {"menu", "fetch"} /\ conf'[p] = conf[p]
    BY <1>1, <1>3 DEF Ready, BuildHere, Offer, Goes
  <2> QED BY <1>1, <2>1, GoesOn DEF Building
<1>4. CASE UseImage(p)
  <2>1. Answers(p, Image, <<Change("source", "docker")>>) /\ pc[p] = "menu"
    BY <1>4 DEF UseImage
  <2>2. <<Change("source", "docker")>> = AnswerTo(conf[p], Image)
    BY DEF AnswerTo
  <2> QED BY <1>1, <2>1, <2>2, GetsAnswer
<1>5. CASE UseExisting(p)
  <2>1. PICK t \in Programs \ {Itself} : Answers(p, t, ProgramSettings(conf[p], t))
    BY <1>5 DEF UseExisting
  <2>2. ProgramSettings(conf[p], t) = AnswerTo(conf[p], t)
    BY NamesAre DEF AnswerTo
  <2>3. pc[p] = "menu"
    BY <1>5 DEF UseExisting
  <2> QED BY <1>1, <2>1, <2>2, <2>3, GetsAnswer
<1> QED BY <1>2, <1>3, <1>4, <1>5 DEF Cancel

LEMMA BuildKnows ==
    ASSUME FilesInv, MenuInv, AnswerInv, NEW p \in Procs, Fetch(p) \/ Clone(p) \/ Compile(p)
    PROVE  ConfOK(p)'
<1>1. file' = file /\ stale' = stale /\ pc \in [Procs -> Marks] /\ pc[p] \in Building
  BY DEF Fetch, Clone, Compile, FilesKept, HistoryKept, FilesInv, FilesTypeOK, Building
<1>2. CASE (Fetch(p) \/ Clone(p)) \/ (Compile(p) /\ Back(p) /\ UNCHANGED conf)
  <2>1. pc'[p] \in {"menu", "compile", "clone"} /\ conf'[p] = conf[p]
    BY <1>1, <1>2 DEF Fetch, Clone, Back, Goes
  <2> QED BY <1>1, <2>1, GoesOn DEF Building
<1>3. CASE Compile(p) /\ Answers(p, base[p], ProgramSettings(conf[p], base[p]))
  <2>1. base[p] \in Programs
    BY <1>1, BaseIs
  <2>2. ProgramSettings(conf[p], base[p]) = AnswerTo(conf[p], base[p])
    BY <2>1, NamesAre DEF AnswerTo
  <2> QED BY <1>1, <1>3, <2>2, GetsAnswer
<1> QED BY <1>2, <1>3 DEF Compile

LEMMA RememberKnows ==
    ASSUME FilesInv, MenuInv, AnswerInv, NEW p \in Procs, Remember(p)
    PROVE  ConfOK(p)'
<1>1. /\ pc[p] = "pins" /\ pc'[p] = "read" /\ file' = file /\ stale' = stale /\ todo' = todo /\ runner' = runner
  BY DEF Remember, Goes, FilesKept, HistoryKept, FilesInv, FilesTypeOK
<1>2. PICK f \in Files : path'[p] = f /\ f = IF Pins(file["project"], {todo[p][i].key : i \in DOMAIN todo[p]})
                                              THEN "project" ELSE "global"
  BY DEF Remember, FilesInv, FilesTypeOK, Files
<1>3. PICK g, j \in Valuations : g = file["global"].vals /\ j = file["project"].vals
  BY ValsAre DEF Files
<1>4. ASSUME ~stale[p], Tables PROVE Outcome(p)' = runner'[p] /\ Len(todo'[p]) \in {1, 2}
  <2>1. todo[p] = AnswerTo(Merge(g, j), runner[p])
    BY <1>1, <1>3, <1>4 DEF AnswerInv, ConfOK, Merged
  <2>2. runner[p] \in Programs \union {Image}
    BY <1>1 DEF MenuInv, RunnerOK, Saving
  <2>3. f = "global" => \A i \in DOMAIN todo[p] : j[todo[p][i].key] = None
    <3> SUFFICES ASSUME f = "global", NEW i \in DOMAIN todo[p] PROVE j[todo[p][i].key] = None
      OBVIOUS
    <3>1. ~Pins(file["project"], {todo[p][n].key : n \in DOMAIN todo[p]})
      BY <1>2
    <3>2. todo[p][i].key \in Keys
      <4>1. todo[p] \in Seq(Changes)
        BY DEF FilesInv, FilesTypeOK
      <4>2. todo[p][i] \in Changes
        BY <4>1
      <4> QED BY <4>2 DEF Changes
    <3>3. CASE file["project"].form = "garbled"
      BY <3>2, <3>3, <1>3, ValsAre DEF Files, NoSettings
    <3>4. CASE file["project"].form # "garbled"
      BY <3>1, <3>4, <1>3, <1>4 DEF Pins, Tables
    <3> QED BY <3>3, <3>4
  <2>4. PICK changes, r : changes = todo[p] /\ r = runner[p]
    OBVIOUS
  <2>5. /\ Len(changes) \in {1, 2}
        /\ f = "global" => Leads(Apply(g, changes), j) = r
        /\ f = "project" => Leads(g, Apply(j, changes)) = r
    BY <2>1, <2>2, <2>3, <2>4, RememberLeads
  <2>6. /\ f = "global" => Shall(p, "global")' = Apply(g, changes) /\ Shall(p, "project")' = j
        /\ f = "project" => Shall(p, "global")' = g /\ Shall(p, "project")' = Apply(j, changes)
    BY <1>1, <1>2, <1>3, <2>4 DEF Shall
  <2>7. Outcome(p)' = r
    BY <2>5, <2>6, <1>2 DEF Outcome, Files
  <2> QED BY <2>4, <2>5, <2>7, <1>1
<1>5. Tables' = Tables
  BY <1>1 DEF Tables
<1> QED BY <1>1, <1>4, <1>5 DEF ConfOK, Building

LEMMA MenuAnswers ==
    ASSUME FilesInv, MenuInv, AnswerInv, NEW p \in Procs,
           \/ LoadGlobal(p) \/ LoadProject(p) \/ Ready(p)
           \/ UseImage(p) \/ UseExisting(p) \/ BuildHere(p) \/ Cancel(p)
           \/ Fetch(p) \/ Clone(p) \/ Compile(p)
           \/ Remember(p) \/ Killed(p)
    PROVE  AnswerInv'
<1>1. ConfOK(p)'
  <2>1. CASE Killed(p)
    BY <2>1, EndedKnows DEF Killed, Stops, Goes, FilesInv, FilesTypeOK
  <2> QED BY <2>1, LoadKnows, ChoiceKnows, BuildKnows, RememberKnows
<1> QED BY <1>1, MenuStep, MenuLeaves, MenuKnows

(***************************************************************************)
(* The answer while it is written                                          *)
(***************************************************************************)

\* Making a change again makes nothing more of it.
LEMMA Again ==
    ASSUME NEW v \in Valuations, NEW changes \in Seq(Changes), Len(changes) \in {1, 2}
    PROVE  /\ Apply(With(v, Head(changes)), changes) = Apply(v, changes)
           /\ Len(changes) = 1 => Apply(v, changes) = With(v, Head(changes))
           /\ Len(changes) = 2 =>
                 /\ Len(Tail(changes)) = 1
                 /\ Apply(v, changes) = Apply(With(v, Head(changes)), Tail(changes))
<1>1. Head(changes) = changes[1] /\ changes[1] \in Changes
  OBVIOUS
<1>2. With(With(v, changes[1]), changes[1]) = With(v, changes[1])
  BY <1>1, WithChange
<1>3. Len(changes) = 2 => Len(Tail(changes)) = 1 /\ Tail(changes)[1] = changes[2]
  <2> SUFFICES ASSUME Len(changes) = 2 PROVE Len(Tail(changes)) = 1 /\ Tail(changes)[1] = changes[2]
    OBVIOUS
  <2>2. Len(Tail(changes)) = 1
    OBVIOUS
  <2>3. \A i \in 1 .. Len(Tail(changes)) : Tail(changes)[i] = changes[i + 1]
    OBVIOUS
  <2> QED BY <2>2, <2>3
<1> QED BY <1>1, <1>2, <1>3 DEF Apply

LEMMA ShallIs ==
    ASSUME FilesInv, NEW p \in Procs, NEW f \in Files, path[p] = f
    PROVE  /\ f = "global" => Outcome(p) = Leads(Shall(p, "global"), file["project"].vals)
           /\ f = "project" => Outcome(p) = Leads(file["global"].vals, Shall(p, "project"))
BY DEF Outcome, Shall

\* p goes on from one step of a change to the next with the other file as it was,
\* and its own to become what it was to become.
LEMMA SameOutcome ==
    ASSUME NEW p \in Procs, NEW f \in Files, path[p] = f, path'[p] = f,
           \A g \in Files \ {f} : file'[g] = file[g], Shall(p, f)' = Shall(p, f)
    PROVE  Outcome(p)' = Outcome(p)
<1>1. \A g \in Files \ {f} : Shall(p, g)' = Shall(p, g)
  BY DEF Shall
<1>2. Shall(p, "global")' = Shall(p, "global") /\ Shall(p, "project")' = Shall(p, "project")
  BY <1>1 DEF Files
<1> QED BY <1>2 DEF Outcome

LEMMA ReadKnows ==
    ASSUME FilesInv, MenuInv, AnswerInv, NEW p \in Procs, ReadChange(p), runner' = runner,
           pc'[p] # "ended" => stale'[p] = stale[p]
    PROVE  ConfOK(p)'
<1>1. pc[p] = "read" /\ file' = file /\ pc \in [Procs -> Marks] /\ doc \in [Procs -> Documents]
  BY DEF ReadChange, FilesInv, FilesTypeOK
<1>2. CASE Ends(p)
  BY <1>1, <1>2, EndedKnows DEF Ends, Goes
<1>3. CASE ~Ends(p)
  <2>0. PICK f \in Files : path[p] = f
    BY DEF FilesInv, FilesTypeOK
  <2>1. PICK read, change : read = ReadDocument(file[f]) /\ change = Head(todo[p])
    OBVIOUS
  <2>2. /\ Takes(read, change) /\ doc'[p] = Insert(read, change) /\ pc'[p] = "truncate"
        /\ path' = path /\ todo' = todo
    BY <1>1, <1>3, <2>0, <2>1 DEF ReadChange, Goes
  <2>3. read \in Contents /\ change \in Changes /\ read.vals = file[f].vals /\ read.vals \in Valuations
    BY <1>1, <2>1, ReadIs, FirstIs, ValsAre DEF FilesInv, FilesTypeOK
  <2>4. doc'[p].vals = With(file[f].vals, change)
    BY <2>2, <2>3, InsertIs DEF With
  <2>5. ASSUME Len(todo[p]) \in {1, 2} PROVE Outcome(p)' = Outcome(p)
    <3>1. Shall(p, f) = Apply(file[f].vals, todo[p])
      BY <1>1, <2>0 DEF Shall
    <3>2. Shall(p, f)' = Apply(doc'[p].vals, todo[p])
      BY <2>0, <2>2 DEF Shall
    <3>3. todo[p] \in Seq(Changes)
      BY DEF FilesInv, FilesTypeOK
    <3>4. Shall(p, f)' = Shall(p, f)
      BY <3>1, <3>2, <3>3, <2>1, <2>3, <2>4, <2>5, Again
    <3> QED BY <3>4, <2>0, <2>2, <1>1, SameOutcome
  <2>6. Tables' = Tables /\ (f = "project" => Tables)
    <3>1. file[f].form = "absent" => ~file[f].inline
      BY DocumentsAre, AbsentIs, GarbledIs, ContentsAre DEF FilesInv, FilesTypeOK
    <3>2. ~file[f].inline
      BY <2>1, <2>2, <3>1 DEF Takes, ReadDocument
    <3> QED BY <1>1, <3>2 DEF Tables
  <2>7. ~stale[p] /\ runner[p] # None /\ Tables => Outcome(p) = runner[p] /\ Len(todo[p]) \in {1, 2}
    BY <1>1 DEF AnswerInv, ConfOK
  <2> QED BY <2>0, <2>2, <2>5, <2>6, <2>7 DEF ConfOK, Building
<1> QED BY <1>2, <1>3

LEMMA TruncateKnows ==
    ASSUME FilesInv, MenuInv, AnswerInv, NEW p \in Procs, Truncate(p), runner' = runner,
           pc'[p] # "ended" => stale'[p] = stale[p]
    PROVE  ConfOK(p)'
<1>1. pc[p] = "truncate" /\ pc \in [Procs -> Marks] /\ file \in [Files -> Contents]
  BY DEF Truncate, FilesInv, FilesTypeOK
<1>2. CASE Ends(p)
  BY <1>1, <1>2, EndedKnows DEF Ends, Goes
<1>3. CASE ~Ends(p)
  <2>0. PICK f \in Files : path[p] = f
    BY DEF FilesInv, FilesTypeOK
  <2>1. /\ file' = [file EXCEPT ![f] = Empty] /\ pc'[p] = "write"
        /\ path' = path /\ todo' = todo /\ doc' = doc
    BY <1>1, <1>3, <2>0 DEF Truncate, Goes
  <2>2. Shall(p, f)' = Shall(p, f)
    BY <1>1, <2>0, <2>1 DEF Shall
  <2>3. Outcome(p)' = Outcome(p)
    BY <1>1, <2>0, <2>1, <2>2, SameOutcome
  <2>4. file'[f] = Empty /\ (f # "project" => (Tables' <=> Tables)) /\ (f = "project" => Tables')
    BY <1>1, <2>1, EmptyIs DEF Tables, Files
  <2>5. ~stale[p] =>
          /\ f = "project" => Tables
          /\ runner[p] # None /\ Tables => Outcome(p) = runner[p] /\ Len(todo[p]) \in {1, 2}
    BY <1>1, <2>0 DEF AnswerInv, ConfOK
  <2>6. stale'[p] = stale[p] /\ path'[p] = f /\ file'[path'[p]] = Empty
    BY <2>0, <2>1, <2>4
  <2>7. ~stale'[p] =>
          /\ f = "project" => Tables'
          /\ runner'[p] # None /\ Tables' => Outcome(p)' = runner'[p] /\ Len(todo'[p]) \in {1, 2}
    BY <2>1, <2>3, <2>4, <2>5, <2>6
  <2> QED BY <2>1, <2>6, <2>7 DEF ConfOK, Building
<1> QED BY <1>2, <1>3

LEMMA WriteKnows ==
    ASSUME FilesInv, MenuInv, AnswerInv, NEW p \in Procs, Write(p), runner' = runner,
           pc'[p] # "ended" => stale'[p] = stale[p]
    PROVE  /\ ConfOK(p)'
           /\ Saves(p) /\ Tables' => Leads(file'["global"].vals, file'["project"].vals) = runner[p]
<1>0. PICK f \in Files : path[p] = f
  BY DEF FilesInv, FilesTypeOK
<1>1. pc[p] = "write" /\ pc \in [Procs -> Marks] /\ file \in [Files -> Contents] /\ todo \in [Procs -> Seq(Changes)]
  BY DEF Write, FilesInv, FilesTypeOK
<1>2. /\ doc[p] \in Sections /\ doc[p].vals \in Valuations /\ ~doc[p].inline
      /\ doc[p].vals[Head(todo[p]).key] = Head(todo[p]).value
      /\ Head(todo[p]) \in Changes
  BY <1>1, FirstIs DEF FilesInv, DocOK, Sections
<1>3. With(doc[p].vals, Head(todo[p])) = doc[p].vals
  BY <1>2, WithChange
<1>4. ASSUME ~stale[p]
      PROVE  /\ file' = [file EXCEPT ![f] = doc[p]]
             /\ Tables' <=> Tables
             /\ runner[p] # None /\ Tables => Outcome(p) = runner[p] /\ Len(todo[p]) \in {1, 2}
  <2>1. file[f] = Empty /\ (f = "project" => Tables)
        /\ (runner[p] # None /\ Tables => Outcome(p) = runner[p] /\ Len(todo[p]) \in {1, 2})
    BY <1>0, <1>1, <1>4 DEF AnswerInv, ConfOK
  <2>2. file' = [file EXCEPT ![f] = doc[p]]
    BY <1>0, <2>1 DEF Write, Written
  <2>3. Tables' <=> Tables
    BY <1>1, <1>2, <2>1, <2>2 DEF Tables, Files
  <2> QED BY <2>1, <2>2, <2>3
<1>5. Shall(p, f) = Apply(doc[p].vals, todo[p])
  BY <1>0, <1>1 DEF Shall
<1>6. ASSUME Saves(p), Tables' PROVE Leads(file'["global"].vals, file'["project"].vals) = runner[p]
  <2>1. Len(todo[p]) = 1 /\ runner[p] # None /\ ~stale[p]
    BY <1>6 DEF Saves
  <2>2. file' = [file EXCEPT ![f] = doc[p]] /\ Outcome(p) = runner[p]
    BY <1>4, <1>6, <2>1
  <2>3. Shall(p, f) = doc[p].vals
    BY <1>1, <1>2, <1>3, <1>5, <2>1, Again
  <2>4. file'[f] = doc[p] /\ \A g \in Files \ {f} : file'[g] = file[g]
    BY <1>1, <2>2
  <2> QED BY <1>0, <2>2, <2>3, <2>4, ShallIs DEF Files
<1>7. CASE Len(todo[p]) = 1
  BY <1>1, <1>6, <1>7, EndedKnows DEF Write, Ends, Goes
<1>8. CASE Len(todo[p]) # 1
  <2>1. pc'[p] = "read" /\ todo'[p] = Tail(todo[p]) /\ path' = path
    BY <1>1, <1>8 DEF Write, Goes
  <2>2. ASSUME ~stale[p], runner[p] # None, Tables'
        PROVE  Outcome(p)' = runner[p] /\ Len(todo'[p]) \in {1, 2}
    <3>1. file' = [file EXCEPT ![f] = doc[p]] /\ Outcome(p) = runner[p] /\ Len(todo[p]) = 2
      BY <1>4, <1>8, <2>2
    <3>2. file'[f] = doc[p] /\ \A g \in Files \ {f} : file'[g] = file[g]
      BY <1>1, <3>1
    <3>3. Shall(p, f)' = Apply(doc[p].vals, Tail(todo[p]))
      BY <1>0, <2>1, <3>2 DEF Shall
    <3>4. Shall(p, f) = Apply(doc[p].vals, Tail(todo[p])) /\ Len(Tail(todo[p])) = 1
      BY <1>1, <1>2, <1>3, <1>5, <3>1, Again
    <3>5. Outcome(p)' = Outcome(p)
      BY <1>0, <2>1, <3>2, <3>3, <3>4, SameOutcome
    <3> QED BY <2>1, <3>1, <3>4, <3>5
  <2>3. ConfOK(p)'
    BY <2>1, <2>2 DEF ConfOK, Building
  <2> QED BY <1>6, <2>3
<1> QED BY <1>7, <1>8

LEMMA OtherKnows ==
    ASSUME FilesInv, NEW p \in Procs,
           ConfigSet(p) \/ ConfigUnset(p) \/ ConfigEdit(p) \/ EditorSaves(p) \/ CutShort(p) \/ KilledInSettings(p),
           RunnerOK(p), runner' = runner
    PROVE  ConfOK(p)'
<1>0. pc \in [Procs -> Marks]
  BY DEF FilesInv, FilesTypeOK
<1>1. CASE ConfigSet(p) \/ ConfigUnset(p)
  BY <1>0, <1>1 DEF ConfigSet, ConfigUnset, Goes, RunnerOK, Asking, ConfOK, Building
<1>2. CASE ConfigEdit(p)
  BY <1>0, <1>2 DEF ConfigEdit, Goes, ConfOK, Building
<1>3. CASE EditorSaves(p) \/ CutShort(p) \/ KilledInSettings(p)
  BY <1>0, <1>3, EndedKnows DEF EditorSaves, CutShort, KilledInSettings, Ends, Goes
<1> QED BY <1>1, <1>2, <1>3

LEMMA FilesAnswers ==
    ASSUME FilesInv, MenuInv, AnswerInv, NEW p \in Procs, InFiles(p)
    PROVE  AnswerInv'
<1>1. /\ runner' = runner /\ cwd' = cwd /\ tree' = tree /\ conf' = conf
      /\ stale' = [q \in Procs |->
                    /\ pc'[q] # "ended"
                    /\ stale[q] \/ (q # p /\ file' # file /\ pc[q] # "new")]
  BY DEF InFiles
<1>2. pc'[p] # "ended" => stale'[p] = stale[p]
  BY <1>1 DEF MenuInv, MenuTypeOK
<1>3. RunnerOK(p)
  BY DEF MenuInv
<1>4. ConfOK(p)'
  <2>1. CASE Write(p)
    BY <2>1, <1>1, <1>2, WriteKnows
  <2>2. CASE ReadChange(p) \/ Truncate(p)
    BY <2>2, <1>1, <1>2, ReadKnows, TruncateKnows
  <2>3. CASE ConfigSet(p) \/ ConfigUnset(p) \/ ConfigEdit(p) \/ EditorSaves(p) \/ CutShort(p) \/ KilledInSettings(p)
    BY <2>3, <1>1, <1>3, OtherKnows
  <2> QED BY <2>1, <2>2, <2>3 DEF InFiles, SettingsStep
<1>5. \A q \in Procs \ {p} : Same(q)
  <2>1. CASE Write(p)
    BY <2>1, EndsIs DEF Write, Goes, Same, FilesInv, FilesTypeOK
  <2>2. CASE ReadChange(p)
    BY <2>2, EndsIs DEF ReadChange, Goes, Same, FilesInv, FilesTypeOK
  <2>3. CASE Truncate(p)
    BY <2>3, EndsIs DEF Truncate, Goes, Same, FilesInv, FilesTypeOK
  <2>4. CASE ConfigSet(p) \/ ConfigUnset(p) \/ ConfigEdit(p)
    BY <2>4 DEF ConfigSet, ConfigUnset, ConfigEdit, Goes, Same, FilesInv, FilesTypeOK
  <2>5. CASE EditorSaves(p) \/ CutShort(p) \/ KilledInSettings(p)
    BY <2>5, EndsIs DEF EditorSaves, CutShort, KilledInSettings
  <2> QED BY <2>1, <2>2, <2>3, <2>4, <2>5 DEF InFiles, SettingsStep
<1>6. ASSUME NEW q \in Procs \ {p} PROVE ConfOK(q)'
  <2>1. stale[q] \in BOOLEAN /\ stale'[q] = (pc[q] # "ended" /\ (stale[q] \/ (file' # file /\ pc[q] # "new")))
    BY <1>1, <1>5 DEF Same, MenuInv, MenuTypeOK
  <2>2. ConfOK(q) /\ Same(q)
    BY <1>5 DEF AnswerInv
  <2> QED BY <1>1, <2>1, <2>2, OthersKnow
<1>7. ToldOK'
  <2>1. CASE told' = told /\ file' = file
    BY <1>1, <2>1, ToldStays DEF AnswerInv
  <2>2. CASE told' = None
    BY <2>2 DEF ToldOK
  <2>3. CASE Write(p) /\ Saves(p) /\ told' = runner[p]
    <3>1. runner[p] \in Programs \union {Image} /\ runner[p] # None
      BY <2>3 DEF Saves, Write, MenuInv, RunnerOK, Saving
    <3>2. runner[p] # Image => runner[p] # Itself /\ tree'[Place(cwd[p], runner[p])] = "built"
      BY <3>1, <1>1 DEF MenuInv, RunsWhatIsThere, Located
    <3>3. Tables' => Leads(file'["global"].vals, file'["project"].vals) = runner[p]
      BY <2>3, <1>1, <1>2, WriteKnows
    <3> QED BY <2>3, <3>1, <3>2, <3>3, <1>1 DEF ToldOK
  <2> QED BY <2>1, <2>2, <2>3 DEF InFiles
<1> QED BY <1>4, <1>6, <1>7 DEF AnswerInv

\* From the last write of an answer until somebody changes a file, the two files
\* merged lead to that answer in every directory - if the project's section is a
\* table and the answer names no relative path: no command asks again.
THEOREM AskedOnceWithTables == Spec => []AskedOnceOfTables
<1>1. Init => AnswerInv
  BY Begin, NamesAre DEF Init, SettingsInit, AnswerInv, ToldOK, ConfOK, Building
<1>2. FilesInv /\ MenuInv /\ AnswerInv /\ [Next]_vars => AnswerInv'
  <2> SUFFICES ASSUME FilesInv, MenuInv, AnswerInv, [Next]_vars PROVE AnswerInv'
    OBVIOUS
  <2>1. CASE UNCHANGED vars
    <3>1. \A q \in Procs : Same(q) /\ conf'[q] = conf[q] /\ runner'[q] = runner[q] /\ file' = file /\ stale'[q] = stale[q]
      BY <2>1 DEF vars, settingsVars, Same
    <3>2. told' = told /\ file' = file /\ cwd' = cwd /\ tree' = tree
      BY <2>1 DEF vars, settingsVars
    <3>3. \A q \in Procs : ConfOK(q)'
      BY <3>1, OthersKnow DEF AnswerInv
    <3> QED BY <3>2, <3>3, ToldStays DEF AnswerInv
  <2>2. CASE Next
    BY <2>2, FilesAnswers, MenuAnswers DEF Next
  <2> QED BY <2>1, <2>2
<1>3. MenuInv /\ AnswerInv => AskedOnceOfTables
  <2> SUFFICES ASSUME MenuInv, AnswerInv, told \notin Relative \union {None}, Tables PROVE LeadTo(told)
    BY DEF AskedOnceOfTables, Tables
  <2>1. Resolve(Merge(file["global"].vals, file["project"].vals), None) = told
    BY DEF AnswerInv, ToldOK, Leads
  <2>2. ASSUME told # Image, NEW d \in Cwds PROVE Located(d, told)
    <3>1. PICK p \in Procs : tree[Place(cwd[p], told)] = "built"
      BY <2>2 DEF AnswerInv, ToldOK
    <3> QED BY <3>1 DEF Place, Located
  <2> QED BY <2>1, <2>2 DEF LeadTo
<1> QED BY <1>1, <1>2, <1>3, FilesAndMenu, PTL DEF Spec
====
