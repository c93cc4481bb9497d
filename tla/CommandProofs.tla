---- MODULE CommandProofs ----
(***************************************************************************)
(* Proofs about the commands of the host and the console that some of them *)
(* end in.  Workflow: for every project, every number of edits and every   *)
(* sequence of commands, interruptions and failures.  Console: for any     *)
(* number of keys and printed bytes, any kind of session and any faults.   *)
(***************************************************************************)
EXTENDS Workflow, Console, FiniteSetTheorems, SequenceTheorems, WellFoundedInduction, TLAPS

(***************************************************************************)
(* Workflow: the inductive invariant                                       *)
(***************************************************************************)
LibraryParts == {"headers", "archives", "script"}
Images == [source: Nat, lacks: SUBSET Nat, whole: BOOLEAN, own: BOOLEAN]

\* What is left to copy is an end of Parts.
NoHeaders == <<"archives", "script">>
OnlyScript == <<"script">>
Ends == {Parts, NoHeaders, OnlyScript, <<>>}

TypeOK == /\ project \in Projects
          /\ source \in Nat /\ began \in Nat /\ began =< source
          /\ artifact \in Images \cup {None}
          /\ unseen \in SUBSET Nat /\ compiled \in BOOLEAN
          /\ libs \in [LibraryParts -> {None, "cut", "whole"}]
          /\ cmd \in Commands \cup {NoCommand}
          /\ todo \in Ends
          /\ at = "making" => output \in Images

WholeLibraries == libs["headers"] = "whole" /\ libs["archives"] = "whole"

\* The link scripts are not there before the rest is whole.
Installed == LibrariesBuilt => WholeLibraries

\* While an installation runs, what it has copied is whole.
Installing ==
    at = "install" =>
        /\ todo = Parts => ~LibrariesBuilt
        /\ todo = NoHeaders => ~LibrariesBuilt /\ libs["headers"] = "whole"
        /\ todo = OnlyScript => WholeLibraries
        /\ todo = <<>> => LibrariesBuilt

\* What is built with the libraries has them, and what is on the disk had them.
Building == /\ at = "make" /\ UsesLibraries => LibrariesBuilt
            /\ at = "making" => output.whole
            /\ artifact # None => artifact.whole

\* An image that has what the command saw: of sources no older than it and, once
\* the objects were cleaned away, with no earlier edit missing.
Recent(image) == /\ image.own /\ image.source >= began
                 /\ cmd.clean => \A edit \in image.lacks : edit > began

\* A build makes such an image, and one that succeeds leaves it.
OwnWork == /\ at = "making" => Recent(output)
           /\ (at \in {"libraries", "install", "make"} /\ cmd.clean)
                => \A edit \in unseen : edit > began
           /\ (at \in {"check", "deliver"} /\ cmd.name = "run" /\ project.names)
                => (artifact # None => Recent(artifact))

\* Only a command whose flags were accepted comes to hand something over.
Accepted == /\ (at \in {"ready", "prepare", "clean", "libraries", "install", "make",
                        "making", "check", "deliver"} /\ cmd.name # "build")
                 => ~FlagsRefused
            /\ at \in {"file", "flags", "ready", "deliver"} => cmd.name # "build"
            /\ (at = "deliver" /\ cmd.name = "run" /\ OnEmulator) => FamilyFits

IInv == /\ TypeOK /\ Installed /\ Installing /\ Building /\ OwnWork /\ Accepted
        /\ RunHandsOverItsOwn /\ LinkedAgainstWhole /\ SuitsTheMachine

\* The parts are copied in this order, and what is left tells how far it came.
LEMMA Order ==
    /\ Head(Parts) = "headers" /\ Tail(Parts) = NoHeaders
    /\ Head(NoHeaders) = "archives" /\ Tail(NoHeaders) = OnlyScript
    /\ Head(OnlyScript) = "script" /\ Tail(OnlyScript) = <<>>
    /\ Parts # NoHeaders /\ Parts # OnlyScript /\ Parts # <<>>
    /\ NoHeaders # OnlyScript /\ NoHeaders # <<>> /\ OnlyScript # <<>>
<1> USE DEF Parts, NoHeaders, OnlyScript
<1>1. Head(Parts) = "headers" /\ Head(NoHeaders) = "archives" /\ Head(OnlyScript) = "script"
  OBVIOUS
<1>2. Len(Parts) = 3 /\ Len(NoHeaders) = 2 /\ Len(OnlyScript) = 1 /\ Len(<<>>) = 0
  OBVIOUS
<1>3. Tail(Parts) = NoHeaders
  OBVIOUS
<1>4. Tail(NoHeaders) = OnlyScript
  OBVIOUS
<1>5. Tail(OnlyScript) = <<>>
  OBVIOUS
<1> HIDE DEF Parts, NoHeaders, OnlyScript
<1> QED BY <1>1, <1>2, <1>3, <1>4, <1>5

\* Initially nothing is installed, built or handed over.
LEMMA InitIInv == ASSUME Init PROVE IInv
<1> USE DEF Init
<1>1. TypeOK
  <2>1. Foreign \in Images
    BY DEF Images, Foreign
  <2>4. artifact \in Images \cup {None}
    BY <2>1
  <2>2. libs \in [LibraryParts -> {None, "cut", "whole"}]
    BY DEF LibraryParts
  <2>3. todo \in Ends
    BY DEF Ends
  <2>5. project \in Projects /\ source \in Nat /\ began \in Nat /\ began =< source
    OBVIOUS
  <2>6. unseen \in SUBSET Nat /\ compiled \in BOOLEAN
    OBVIOUS
  <2>7. cmd \in Commands \cup {NoCommand} /\ at # "making"
    OBVIOUS
  <2> QED BY ONLY <2>2, <2>3, <2>4, <2>5, <2>6, <2>7 DEF TypeOK
<1>2. Installed /\ Installing
  BY DEF Installed, Installing, LibrariesBuilt
<1>3. Building /\ OwnWork /\ Accepted
  BY DEF Building, OwnWork, Accepted, Foreign
<1>4. RunHandsOverItsOwn /\ LinkedAgainstWhole /\ SuitsTheMachine
  BY DEF RunHandsOverItsOwn, LinkedAgainstWhole, SuitsTheMachine, HandedAnImage
<1> QED BY <1>1, <1>2, <1>3, <1>4 DEF IInv

\* Every step keeps the types.
LEMMA TypesKept == ASSUME IInv, Next PROVE TypeOK'
<1> USE NoneAssumption DEF IInv, TypeOK, objects
<1>0. ASSUME BuildStops PROVE artifact' \in Images \cup {None} /\ unseen' \in SUBSET Nat
  BY <1>0 DEF BuildStops, Escaped, Images
<1>1. CASE Edit
  <2>1. source' \in Nat /\ began =< source'
    BY <1>1 DEF Edit
  <2>2. unseen' = unseen \/ unseen' = unseen \cup {source'}
    BY <1>1 DEF Edit
  <2>3. unseen' \in SUBSET Nat
    BY <2>1, <2>2
  <2> QED BY <1>1, <2>1, <2>3 DEF Edit
<1>2. CASE Interrupt
  <2>1. artifact' \in Images \cup {None} /\ unseen' \in SUBSET Nat
    BY <1>0, <1>2 DEF Interrupt
  <2>2. at' # "making" /\ todo' \in Ends /\ cmd' \in Commands \cup {NoCommand} /\ began' = 0
    BY <1>2 DEF Interrupt, End, Ends
  <2>3. UNCHANGED <<project, source, compiled, libs>>
    BY <1>2 DEF Interrupt
  <2> QED BY <2>1, <2>2, <2>3
<1>3. ASSUME NEW c \in Commands, Give(c) PROVE TypeOK'
  BY <1>3 DEF Give
<1>4. CASE FindFile \/ ResolveFlags \/ Ready \/ Prepare
  <2>1. CASE FindFile
    BY <2>1 DEF FindFile, End, Ends
  <2>2. CASE ResolveFlags
    BY <2>2 DEF ResolveFlags, End, Ends, AfterReady
  <2>3. CASE Ready
    BY <2>3 DEF Ready, End, Ends, AfterReady
  <2>4. CASE Prepare
    BY <2>4 DEF Prepare, End, Ends
  <2> QED BY <1>4, <2>1, <2>2, <2>3, <2>4
<1>5. CASE Clean
  <2>1. unseen' \in SUBSET Nat /\ compiled' \in BOOLEAN
    BY <1>5 DEF Clean
  <2>2. artifact' \in Images \cup {None} /\ at' # "making" /\ UNCHANGED <<project, source, libs>>
    BY <1>5 DEF Clean, End
  <2>3. todo' \in Ends /\ cmd' \in Commands \cup {NoCommand} /\ began' \in {0, began}
    BY <1>5 DEF Clean, End, Ends
  <2> QED BY <2>1, <2>2, <2>3
<1>6. CASE LookForLibraries
  BY <1>6 DEF LookForLibraries, Ends
<1>7. CASE CopyPart
  BY <1>7 DEF CopyPart
<1>8. CASE PartCopied
  <2>1. todo # <<>> => Tail(todo) \in Ends
    BY Order DEF Ends
  <2>2. <<>> \in Ends
    BY DEF Ends
  <2>3. libs' \in [LibraryParts -> {None, "cut", "whole"}] /\ todo' \in Ends
    BY <1>8, <2>1, <2>2 DEF PartCopied, End
  <2> QED BY <1>8, <2>3 DEF PartCopied, End
<1>9. CASE InstallEnds
  BY <1>9 DEF InstallEnds
<1>10. CASE Make
  <2>1. output' \in Images
    <3>1. CASE UpToDate
      <4>1. artifact \in Images
        BY <3>1 DEF UpToDate
      <4>2. output' = [artifact EXCEPT !.source = source, !.lacks = unseen]
        BY <1>10, <3>1 DEF Make
      <4>3. source \in Nat /\ unseen \in SUBSET Nat
        OBVIOUS
      <4> QED BY ONLY <4>1, <4>2, <4>3 DEF Images
    <3>2. CASE ~UpToDate
      <4>1. PICK lacks \in SUBSET unseen :
              output' = [source |-> source, lacks |-> lacks, own |-> TRUE,
                         whole |-> UsesLibraries => /\ libs["headers"] = "whole"
                                                    /\ libs["archives"] = "whole"]
        BY <1>10, <3>2 DEF Make
      <4>2. source \in Nat /\ lacks \in SUBSET Nat
        OBVIOUS
      <4> QED BY ONLY <4>1, <4>2 DEF Images
    <3> QED BY <3>1, <3>2
  <2> QED BY <1>10, <2>1 DEF Make
<1>11. CASE Made
  <2>1. CASE at' = "check"
    BY <1>11, <2>1 DEF Made, Escaped, Images, End
  <2>2. CASE BuildStops /\ End
    BY <1>0, <1>11, <2>2 DEF Made, End, Ends
  <2> QED BY <1>11, <2>1, <2>2 DEF Made
<1>12. CASE CheckArtifact
  BY <1>12 DEF CheckArtifact, End, Ends
<1>13. CASE Deliver
  BY <1>13 DEF Deliver, End, Ends
<1> QED BY <1>1, <1>2, <1>3, <1>4, <1>5, <1>6, <1>7, <1>8, <1>9, <1>10, <1>11, <1>12,
           <1>13 DEF Next

\* An installation, cut short anywhere, leaves the link scripts for last.
LEMMA InstallKept == ASSUME IInv, Next PROVE Installed' /\ Installing'
<1> USE NoneAssumption, Order DEF IInv, TypeOK, Installed, Installing, LibrariesBuilt, WholeLibraries
<1>1. CASE LookForLibraries
  BY <1>1 DEF LookForLibraries
<1>2. CASE CopyPart
  <2>1. CASE todo = Parts
    BY <1>2, <2>1 DEF CopyPart, LibraryParts
  <2>2. CASE todo = NoHeaders
    BY <1>2, <2>2 DEF CopyPart, LibraryParts
  <2>3. CASE todo = OnlyScript
    BY <1>2, <2>3 DEF CopyPart, LibraryParts
  <2> QED BY <1>2, <2>1, <2>2, <2>3 DEF CopyPart, Ends
<1>3. CASE PartCopied
  <2>1. CASE End
    BY <1>3, <2>1 DEF PartCopied, End
  <2>2. CASE ~End /\ todo = Parts
    BY <1>3, <2>2 DEF PartCopied, LibraryParts
  <2>3. CASE ~End /\ todo = NoHeaders
    BY <1>3, <2>3 DEF PartCopied, LibraryParts
  <2>4. CASE ~End /\ todo = OnlyScript
    BY <1>3, <2>4 DEF PartCopied, LibraryParts
  <2> QED BY <1>3, <2>1, <2>2, <2>3, <2>4 DEF PartCopied, Ends
<1>4. CASE Edit
  BY <1>4 DEF Edit
<1>5. ASSUME NEW c \in Commands, Give(c) PROVE Installed' /\ Installing'
  BY <1>5 DEF Give
<1>6. CASE Interrupt \/ Deliver \/ FindFile \/ ResolveFlags
  BY <1>6 DEF Interrupt, Deliver, FindFile, ResolveFlags, End, AfterReady
<1>7. CASE Ready \/ Prepare \/ Clean
  BY <1>7 DEF Ready, Prepare, Clean, End, AfterReady
<1>8. CASE InstallEnds \/ Make \/ Made \/ CheckArtifact
  BY <1>8 DEF InstallEnds, Make, Made, CheckArtifact, End
<1> QED BY <1>1, <1>2, <1>3, <1>4, <1>5, <1>6, <1>7, <1>8 DEF Next

\* What is built has the libraries, whole.
LEMMA BuildingKept == ASSUME IInv, Next PROVE Building'
<1> USE NoneAssumption DEF IInv, Building
<1>1. CASE Make
  <2>1. output'.whole
    <3>1. CASE UpToDate
      <4>1. artifact.whole /\ artifact \in Images
        BY <3>1 DEF UpToDate, TypeOK
      <4>2. output' = [artifact EXCEPT !.source = source, !.lacks = unseen]
        BY <1>1, <3>1 DEF Make
      <4> QED BY ONLY <4>1, <4>2 DEF Images
    <3>2. CASE ~UpToDate
      <4>1. UsesLibraries => libs["headers"] = "whole" /\ libs["archives"] = "whole"
        BY <1>1 DEF Make, Installed, WholeLibraries
      <4>2. PICK lacks \in SUBSET unseen :
              output' = [source |-> source, lacks |-> lacks, own |-> TRUE,
                         whole |-> UsesLibraries => /\ libs["headers"] = "whole"
                                                    /\ libs["archives"] = "whole"]
        BY ONLY <1>1, <3>2 DEF Make
      <4> QED BY ONLY <4>1, <4>2
    <3> QED BY <3>1, <3>2
  <2> QED BY <1>1, <2>1 DEF Make
<1>2. CASE Made
  BY <1>2 DEF Made, BuildStops, End
<1>3. CASE Interrupt
  BY <1>3 DEF Interrupt, BuildStops, End
<1>4. CASE LookForLibraries \/ CopyPart \/ PartCopied
  BY <1>4 DEF LookForLibraries, CopyPart, PartCopied, LibrariesBuilt, UsesLibraries, End
<1>5. CASE InstallEnds
  BY <1>5 DEF InstallEnds, Installing, TypeOK, LibrariesBuilt, UsesLibraries
<1>6. CASE Clean
  BY <1>6 DEF Clean, End
<1>7. ASSUME NEW c \in Commands, Give(c) PROVE Building'
  BY <1>7 DEF Give
<1>8. CASE Edit
  BY <1>8 DEF Edit, UsesLibraries, LibrariesBuilt
<1>9. CASE FindFile \/ ResolveFlags \/ Ready \/ Prepare \/ CheckArtifact \/ Deliver
  BY <1>9 DEF FindFile, ResolveFlags, Ready, Prepare, CheckArtifact, Deliver, End, AfterReady
<1> QED BY <1>1, <1>2, <1>3, <1>4, <1>5, <1>6, <1>7, <1>8, <1>9 DEF Next

\* What a build makes is of sources no older than its command.
LEMMA OwnWorkKept == ASSUME IInv, Next PROVE OwnWork'
<1> USE DEF IInv, TypeOK, OwnWork, Recent, objects
<1>1. CASE Make
  <2>1. output'.own /\ output'.source = source /\ output'.lacks \subseteq unseen
    <3>1. CASE UpToDate
      BY <1>1, <3>1 DEF Make, UpToDate, Images
    <3>2. CASE ~UpToDate
      BY <1>1, <3>2 DEF Make
    <3> QED BY <3>1, <3>2
  <2> QED BY <1>1, <2>1 DEF Make
<1>2. CASE Made
  BY <1>2 DEF Made, BuildStops, End
<1>3. CASE CheckArtifact
  BY <1>3 DEF CheckArtifact, End
<1>4. CASE ResolveFlags
  BY <1>4 DEF ResolveFlags, AfterReady, End
<1>5. CASE Ready
  BY <1>5 DEF Ready, AfterReady, End
<1>6. CASE Interrupt \/ FindFile \/ Prepare \/ Clean \/ Deliver
  BY <1>6 DEF Interrupt, FindFile, Prepare, Clean, Deliver, End
<1>7. CASE LookForLibraries \/ CopyPart \/ PartCopied \/ InstallEnds
  BY <1>7 DEF LookForLibraries, CopyPart, PartCopied, InstallEnds, End
<1>8. CASE Edit
  BY <1>8 DEF Edit
<1>9. ASSUME NEW c \in Commands, Give(c) PROVE OwnWork'
  BY <1>9 DEF Give
<1> QED BY <1>1, <1>2, <1>3, <1>4, <1>5, <1>6, <1>7, <1>8, <1>9 DEF Next

\* Nothing is handed over whose flags were not accepted.
LEMMA AcceptedKept == ASSUME IInv, Next PROVE Accepted'
<1> USE DEF IInv, Accepted
<1>1. CASE ResolveFlags
  BY <1>1 DEF ResolveFlags, AfterReady, End, FlagsRefused, OnEmulator
<1>2. CASE Ready
  BY <1>2 DEF Ready, AfterReady, End, FlagsRefused, OnEmulator
<1>3. CASE CheckArtifact
  BY <1>3 DEF CheckArtifact, End, FlagsRefused, OnEmulator, FamilyFits, Machine
<1>4. CASE Interrupt \/ FindFile \/ Deliver
  BY <1>4 DEF Interrupt, FindFile, Deliver, End
<1>5. CASE Prepare \/ Clean
  BY <1>5 DEF Prepare, Clean, End, FlagsRefused, OnEmulator
<1>6. CASE LookForLibraries \/ CopyPart \/ InstallEnds
  BY <1>6 DEF LookForLibraries, CopyPart, InstallEnds, FlagsRefused, OnEmulator
<1>7. CASE PartCopied \/ Make \/ Made
  BY <1>7 DEF PartCopied, Make, Made, End, FlagsRefused, OnEmulator
<1>8. CASE Edit
  BY <1>8 DEF Edit, FlagsRefused, OnEmulator, FamilyFits, Machine
<1>9. ASSUME NEW c \in Commands, Give(c) PROVE Accepted'
  BY <1>9 DEF Give
<1> QED BY <1>1, <1>2, <1>3, <1>4, <1>5, <1>6, <1>7, <1>8, <1>9 DEF Next

\* Only Deliver changes what was handed over, and what it hands over is what
\* the invariants say of the image on the disk.
LEMMA HandedKept ==
    ASSUME IInv, Next
    PROVE  RunHandsOverItsOwn' /\ LinkedAgainstWhole' /\ SuitsTheMachine'
<1> USE DEF IInv
<1>1. CASE UNCHANGED <<handed, project>>
  BY <1>1 DEF RunHandsOverItsOwn, LinkedAgainstWhole, SuitsTheMachine, HandedAnImage
<1>2. ASSUME Deliver, handed' # handed PROVE
        /\ at = "deliver" /\ project' = project
        /\ handed' = [by |-> cmd.name, image |-> Image, since |-> began,
                      clean |-> cmd.clean, on |-> IF OnEmulator THEN Machine ELSE "board"]
  BY <1>2 DEF Deliver
<1>3. ASSUME Deliver, handed' # handed, HandedAnImage' PROVE
        Image = Foreign \/ (Image = artifact /\ artifact # None)
  BY <1>2, <1>3 DEF Image, HandedAnImage
<1>4. Machine # "board"
  <2>1. project.machine \in Families
    BY DEF TypeOK, Projects
  <2>2. cmd.machine \in Families \cup {None, "other"}
    BY DEF TypeOK, Commands, NoCommand
  <2> QED BY <2>1, <2>2 DEF Machine, Families
<1>5. CASE Deliver /\ handed' # handed
  <2>1. RunHandsOverItsOwn'
    <3>1. SUFFICES ASSUME HandedAnImage', cmd.name = "run", project.names
                   PROVE  Recent(Image)
      BY <1>2, <1>5 DEF RunHandsOverItsOwn, Recent
    <3>2. Image = artifact /\ artifact # None
      BY <1>2, <1>5, <3>1 DEF Image, HandedAnImage
    <3> QED BY <1>2, <1>5, <3>1, <3>2 DEF OwnWork
  <2>2. LinkedAgainstWhole'
    BY <1>2, <1>3, <1>5 DEF LinkedAgainstWhole, Building, Foreign
  <2>3. SuitsTheMachine'
    <3>1. ~FlagsRefused /\ ((cmd.name = "run" /\ OnEmulator) => FamilyFits)
      BY <1>2, <1>5 DEF Accepted
    <3>2. project.kind \in {"program", "firmware"}
      BY DEF TypeOK, Projects
    <3> QED BY <1>2, <1>4, <1>5, <3>1, <3>2 DEF SuitsTheMachine, FlagsRefused, FamilyFits
  <2> QED BY <2>1, <2>2, <2>3
<1>6. CASE Deliver /\ handed' = handed
  BY <1>1, <1>6 DEF Deliver
<1>7. CASE Edit \/ Interrupt \/ FindFile \/ ResolveFlags \/ Ready \/ Prepare \/ Clean
  BY <1>1, <1>7 DEF Edit, Interrupt, FindFile, ResolveFlags, Ready, Prepare, Clean
<1>8. CASE LookForLibraries \/ CopyPart \/ PartCopied \/ InstallEnds \/ Make \/ Made
        \/ CheckArtifact
  BY <1>1, <1>8 DEF LookForLibraries, CopyPart, PartCopied, InstallEnds, Make, Made,
                   CheckArtifact
<1>9. ASSUME NEW c \in Commands, Give(c)
      PROVE  RunHandsOverItsOwn' /\ LinkedAgainstWhole' /\ SuitsTheMachine'
  <2>1. handed' = None
    BY <1>9 DEF Give
  <2> QED BY <2>1 DEF RunHandsOverItsOwn, LinkedAgainstWhole, SuitsTheMachine, HandedAnImage
<1> QED BY <1>1, <1>5, <1>6, <1>7, <1>8, <1>9 DEF Next

\* The invariant is inductive.
LEMMA Inductive == ASSUME IInv, [Next]_vars PROVE IInv'
<1>1. CASE Next
  BY <1>1, TypesKept, InstallKept, BuildingKept, OwnWorkKept, AcceptedKept, HandedKept DEF IInv
<1>2. CASE UNCHANGED vars
  BY <1>2 DEF vars, IInv, TypeOK, Installed, Installing, WholeLibraries, LibrariesBuilt,
     Building, UsesLibraries, OwnWork, Recent, objects, Accepted, FlagsRefused, OnEmulator, FamilyFits,
     Machine, RunHandsOverItsOwn, LinkedAgainstWhole, SuitsTheMachine, HandedAnImage
<1> QED BY <1>1, <1>2

\* What `run` hands over it brought up to date itself, whatever earlier commands left
\* on the disk: every edit made before the command is in it but those that make does
\* not see, and with --clean those are in it too (app.rs:101-133, build.rs:23-70).
THEOREM RunBuildsWhatItHandsOver == Spec => []RunHandsOverItsOwn
<1>1. IInv => RunHandsOverItsOwn
  BY DEF IInv
<1> QED BY <1>1, InitIInv, Inductive, PTL DEF Spec

\* Nothing is handed over that was linked against libraries whose installation
\* had been stopped half-way (build.rs:37-47).
THEOREM NothingLinkedAgainstHalves == Spec => []LinkedAgainstWhole
<1>1. IInv => LinkedAgainstWhole
  BY DEF IInv
<1> QED BY <1>1, InitIInv, Inductive, PTL DEF Spec

\* A firmware never goes to a board, and `run` starts its image on no machine
\* of another family (app.rs:144-180, 264-273).
THEOREM ImagesSuitTheirMachines == Spec => []SuitsTheMachine
<1>1. IInv => SuitsTheMachine
  BY DEF IInv
<1> QED BY <1>1, InitIInv, Inductive, PTL DEF Spec

(***************************************************************************)
(* The console: what is forwarded, and what ends a session                 *)
(***************************************************************************)

\* What has been sent, and what has been read to be sent, is what was typed.
Forwards ==
    /\ Len(received) <= Len(typed)
    /\ \A i \in 1 .. Len(received) : received[i] = typed[i] /\ typed[i] # "quit"
    /\ input \in {"check", "read"} => chunk = <<>>
    /\ input = "write" => chunk # <<>>
    /\ input # "gone" =>
          /\ Len(received) + Len(chunk) = taken
          /\ \A i \in 1 .. Len(chunk) : chunk[i] = typed[Len(received) + i] /\ chunk[i] # "quit"

\* What has made the flag false, and how the main loop came to its end.
Ending ==
    /\ ~running => \/ \E i \in 1 .. taken : typed[i] = "quit"
                   \/ main = "error"
    /\ main = "quit" => ~running
    /\ main = "closed" => device = "closed" /\ read = Len(printed)
    /\ main = "error" => device = "failed"

ForwardInv == ConsoleTypeOK /\ Forwards

LEMMA AppendIs ==
    ASSUME NEW S, NEW s \in Seq(S), NEW e \in S
    PROVE  /\ Append(s, e) \in Seq(S) /\ Len(Append(s, e)) = Len(s) + 1
           /\ \A i \in 1 .. Len(s) : Append(s, e)[i] = s[i]
           /\ Append(s, e)[Len(s) + 1] = e
OBVIOUS

LEMMA TailIs ==
    ASSUME NEW S, NEW s \in Seq(S), s # <<>>
    PROVE  /\ Head(s) \in S /\ Head(s) = s[1]
           /\ Tail(s) \in Seq(S) /\ Len(Tail(s)) = Len(s) - 1 /\ Len(s) >= 1
           /\ \A i \in 1 .. Len(Tail(s)) : Tail(s)[i] = s[i + 1]
OBVIOUS

LEMMA PartIs ==
    ASSUME NEW S, NEW s \in Seq(S), NEW m \in 0 .. Len(s), NEW n \in m + 1 .. Len(s)
    PROVE  /\ SubSeq(s, m + 1, n) \in Seq(S) /\ Len(SubSeq(s, m + 1, n)) = n - m
           /\ \A i \in 1 .. n - m : SubSeq(s, m + 1, n)[i] = s[m + i]
<1>1. m + 1 \in 1 .. Len(s) /\ n \in 1 .. Len(s) /\ m \in Int /\ n \in Int
  OBVIOUS
<1>2. SubSeq(s, m + 1, n) \in Seq(S) /\ Len(SubSeq(s, m + 1, n)) = n - m
  BY <1>1
<1>3. \A i \in 1 .. n - m : SubSeq(s, m + 1, n)[i] = s[m + i]
  BY <1>1
<1> QED BY <1>2, <1>3

LEMMA InputTypes ==
    ASSUME ConsoleTypeOK
    PROVE  /\ Len(received) \in Nat /\ Len(chunk) \in Nat /\ Len(typed) \in Nat /\ taken \in Nat
           /\ taken <= Len(typed) /\ Len(printed) \in Nat /\ read \in Nat /\ read <= Len(printed)
BY DEF ConsoleTypeOK

LEMMA ReadForwards ==
    ASSUME ForwardInv, InputReads
    PROVE  Forwards' /\ chunk' \in Seq(Keys) /\ taken' \in 0 .. Len(typed)
<1>1. PICK n \in taken + 1 .. Len(typed) :
         /\ taken' = n
         /\ IF Quits(SubSeq(typed, taken + 1, n))
            THEN running' = FALSE /\ input' = "gone" /\ UNCHANGED chunk
            ELSE chunk' = SubSeq(typed, taken + 1, n) /\ input' = "write" /\ UNCHANGED running
  BY DEF InputReads
<1>2. /\ SubSeq(typed, taken + 1, n) \in Seq(Keys) /\ Len(SubSeq(typed, taken + 1, n)) = n - taken
      /\ \A i \in 1 .. n - taken : SubSeq(typed, taken + 1, n)[i] = typed[taken + i]
  BY PartIs DEF ForwardInv, ConsoleTypeOK
<1>3. input = "read" /\ received' = received /\ typed' = typed
  BY DEF InputReads, userVars
<1>4. Len(received) = taken
  <2>1. chunk = <<>> /\ Len(received) + Len(chunk) = taken /\ Len(<<>>) = 0
    BY <1>3 DEF ForwardInv, Forwards
  <2> QED BY <2>1, InputTypes DEF ForwardInv
<1>5. taken' \in 0 .. Len(typed) /\ n \in Nat /\ taken \in Nat /\ n > taken
  BY <1>1, InputTypes DEF ForwardInv
<1>6. CASE Quits(SubSeq(typed, taken + 1, n))
  BY <1>1, <1>3, <1>5, <1>6 DEF ForwardInv, Forwards, ConsoleTypeOK
<1>7. CASE ~Quits(SubSeq(typed, taken + 1, n))
  <2> DEFINE s == SubSeq(typed, taken + 1, n)
  <2>1. chunk' = s /\ input' = "write" /\ s \in Seq(Keys) /\ Len(s) = n - taken
    BY <1>1, <1>2, <1>7
  <2>2. \A i \in 1 .. Len(s) : s[i] = typed[Len(received) + i] /\ s[i] # "quit"
    BY <1>2, <1>4, <1>7 DEF Quits, Holds
  <2> HIDE DEF s
  <2>3. s # <<>> /\ Len(received) + Len(s) = n
    BY <2>1, <1>4, <1>5
  <2> QED BY <1>1, <1>3, <1>5, <2>1, <2>2, <2>3 DEF ForwardInv, Forwards
<1> QED BY <1>6, <1>7

LEMMA WriteForwards ==
    ASSUME ForwardInv, InputWrites
    PROVE  Forwards' /\ chunk' \in Seq(Keys) /\ received' \in Seq(Keys)
<1>1. /\ input = "write" /\ received' = Append(received, Head(chunk)) /\ chunk' = Tail(chunk)
      /\ input' = (IF Len(chunk) = 1 THEN "check" ELSE "write") /\ taken' = taken /\ typed' = typed
  BY DEF InputWrites, userVars
<1>2. /\ chunk # <<>> /\ chunk \in Seq(Keys) /\ received \in Seq(Keys)
      /\ Len(received) + Len(chunk) = taken /\ taken <= Len(typed)
      /\ \A i \in 1 .. Len(chunk) : chunk[i] = typed[Len(received) + i] /\ chunk[i] # "quit"
      /\ \A i \in 1 .. Len(received) : received[i] = typed[i] /\ typed[i] # "quit"
  BY <1>1, InputTypes DEF ForwardInv, Forwards, ConsoleTypeOK
<1>3. /\ Head(chunk) \in Keys /\ Head(chunk) = chunk[1]
      /\ chunk' \in Seq(Keys) /\ Len(chunk') = Len(chunk) - 1 /\ Len(chunk) >= 1
      /\ \A i \in 1 .. Len(chunk') : chunk'[i] = chunk[i + 1]
  BY <1>1, <1>2, TailIs
<1>4. /\ received' \in Seq(Keys) /\ Len(received') = Len(received) + 1
      /\ \A i \in 1 .. Len(received) : received'[i] = received[i]
      /\ received'[Len(received) + 1] = Head(chunk)
  BY <1>1, <1>2, <1>3, AppendIs
<1>5. PICK r, c, t \in Nat : r = Len(received) /\ c = Len(chunk) /\ t = Len(typed)
  BY InputTypes DEF ForwardInv
<1>6. r + c <= t /\ c >= 1 /\ Len(received') = r + 1 /\ Len(chunk') = c - 1 /\ taken' = r + c /\ Len(typed') = t
  BY <1>1, <1>2, <1>3, <1>4, <1>5
<1>7. ASSUME NEW i \in 1 .. r + 1 PROVE received'[i] = typed[i] /\ typed[i] # "quit"
  <2>1. CASE i \in 1 .. r
    BY <2>1, <1>2, <1>4, <1>5
  <2>2. CASE i = r + 1
    BY <2>2, <1>2, <1>3, <1>4, <1>5
  <2> QED BY <2>1, <2>2
<1>8. ASSUME NEW i \in 1 .. c - 1 PROVE chunk'[i] = typed[r + 1 + i] /\ chunk'[i] # "quit"
  <2>1. i + 1 \in 1 .. c /\ r + (i + 1) = r + 1 + i
    OBVIOUS
  <2> QED BY <2>1, <1>2, <1>3, <1>5, <1>6
<1>9. input' = "check" => chunk' = <<>>
  <2> SUFFICES ASSUME input' = "check" PROVE chunk' = <<>>
    OBVIOUS
  <2>1. Len(chunk') = 0
    BY <1>1, <1>3
  <2> QED BY <2>1, <1>3
<1>10. input' = "write" => chunk' # <<>>
  <2> SUFFICES ASSUME input' = "write" PROVE chunk' # <<>>
    OBVIOUS
  <2>1. Len(chunk') # 0 /\ Len(<<>>) = 0
    BY <1>1, <1>3, <1>5, <1>6
  <2> QED BY <2>1
<1>11. Len(received') <= Len(typed') /\ Len(received') + Len(chunk') = taken'
  <2>1. r + 1 <= t /\ (r + 1) + (c - 1) = r + c
    BY <1>5, <1>6
  <2> QED BY <2>1, <1>6
<1>12. input' \in {"check", "write"}
  BY <1>1
<1> QED BY <1>1, <1>3, <1>4, <1>6, <1>7, <1>8, <1>9, <1>10, <1>11, <1>12 DEF Forwards

LEMMA TypingForwards ==
    ASSUME ForwardInv, NEW key \in Keys, typed' = Append(typed, key), UNCHANGED inputVars
    PROVE  Forwards' /\ typed' \in Seq(Keys) /\ taken' \in 0 .. Len(typed')
<1>1. /\ typed' \in Seq(Keys) /\ Len(typed') = Len(typed) + 1
      /\ \A i \in 1 .. Len(typed) : typed'[i] = typed[i]
  BY AppendIs DEF ForwardInv, ConsoleTypeOK
<1>2. input' = input /\ chunk' = chunk /\ taken' = taken /\ received' = received
  BY DEF inputVars
<1>3. PICK r, c, t, k \in Nat : r = Len(received) /\ c = Len(chunk) /\ t = Len(typed) /\ k = taken
  BY InputTypes DEF ForwardInv
<1>4. r <= t /\ k <= t /\ r <= t + 1 /\ k <= t + 1
  BY <1>3, InputTypes DEF ForwardInv, Forwards
<1>5. \A i \in 1 .. r : received[i] = typed'[i] /\ typed'[i] # "quit"
  BY <1>1, <1>3, <1>4 DEF ForwardInv, Forwards
<1>6. input # "gone" => r + c = k /\ \A i \in 1 .. c : chunk[i] = typed'[r + i] /\ chunk[i] # "quit"
  <2> SUFFICES ASSUME input # "gone" PROVE r + c = k /\ \A i \in 1 .. c : chunk[i] = typed'[r + i] /\ chunk[i] # "quit"
    OBVIOUS
  <2>1. r + c = k
    BY <1>3 DEF ForwardInv, Forwards
  <2>2. ASSUME NEW i \in 1 .. c PROVE chunk[i] = typed'[r + i] /\ chunk[i] # "quit"
    <3>1. r + i \in 1 .. t
      BY <2>1, <1>4
    <3>2. chunk[i] = typed[r + i] /\ chunk[i] # "quit"
      BY <1>3 DEF ForwardInv, Forwards
    <3> QED BY <3>1, <3>2, <1>1, <1>3
  <2> QED BY <2>1, <2>2
<1>7. (input \in {"check", "read"} => chunk = <<>>) /\ (input = "write" => chunk # <<>>)
  BY DEF ForwardInv, Forwards
<1>8. Forwards'
  BY <1>1, <1>2, <1>3, <1>4, <1>5, <1>6, <1>7 DEF Forwards
<1> QED BY <1>1, <1>2, <1>3, <1>4, <1>8

LEMMA QuietForwards ==
    ASSUME ForwardInv, UNCHANGED <<received, typed, chunk, taken>>, input' \in {"check", "read", "gone"},
           input' \in {"check", "read"} => input \in {"check", "read"}
    PROVE  Forwards'
BY DEF ForwardInv, Forwards

LEMMA SameForwards ==
    ASSUME ForwardInv, UNCHANGED <<inputVars, typed>>
    PROVE  Forwards'
BY DEF ForwardInv, Forwards, inputVars

LEMMA ForwardsNext ==
    ASSUME ForwardInv, [ConsoleNext]_consoleVars
    PROVE  /\ Forwards'
           /\ chunk' \in Seq(Keys) /\ received' \in Seq(Keys) /\ typed' \in Seq(Keys)
           /\ taken' \in 0 .. Len(typed')
<1>1. chunk \in Seq(Keys) /\ received \in Seq(Keys) /\ typed \in Seq(Keys) /\ taken \in 0 .. Len(typed)
  BY DEF ForwardInv, ConsoleTypeOK
<1>2. CASE InputChecks
  BY <1>1, <1>2, QuietForwards DEF InputChecks, userVars
<1>3. CASE InputReads
  BY <1>1, <1>3, ReadForwards DEF InputReads, userVars
<1>4. CASE InputEnds
  BY <1>1, <1>4, QuietForwards DEF InputEnds, userVars
<1>5. CASE InputWrites
  BY <1>1, <1>5, WriteForwards DEF InputWrites, userVars
<1>6. CASE InputWriteFails
  BY <1>1, <1>6, QuietForwards DEF InputWriteFails, userVars
<1>7. CASE Types
  <2>1. PICK key \in Keys : typed' = Append(typed, key)
    BY <1>7 DEF Types
  <2>2. UNCHANGED inputVars
    BY <1>7 DEF Types
  <2> QED BY <2>1, <2>2, TypingForwards, <1>1 DEF inputVars
<1>8. CASE MainNext \/ EndOfInput \/ DevicePrints \/ DeviceGoes \/ UNCHANGED consoleVars
  <2>1. UNCHANGED <<inputVars, typed>>
    BY <1>8 DEF MainNext, MainChecks, MainReads, MainQuiet, MainCloses, MainFails, EndOfInput, DevicePrints,
                DeviceGoes, consoleVars, userVars
  <2> QED BY <2>1, <1>1, SameForwards DEF inputVars
<1> QED BY <1>2, <1>3, <1>4, <1>5, <1>6, <1>7, <1>8 DEF ConsoleNext, InputNext, Returned

(***************************************************************************)
(* What is shown                                                           *)
(***************************************************************************)

\* What the main loop changes of what it has read and shown keeps its type.
ShowTypes ==
    /\ read \in 0 .. Len(printed) /\ printed \in Seq(Bytes) /\ shown \in Seq(Bytes)
    /\ last_was_cr \in BOOLEAN

\* A byte sequence that shows the first m bytes printed.
Shows(s, m) ==
    /\ s \in Seq(Bytes) /\ Len(s) = PlaceOf(m)
    /\ \A n \in 1 .. m :
          /\ s[PlaceOf(n)] = printed[n]
          /\ Adds(n) => s[PlaceOf(n) - 1] = "cr"

\* Whether the next byte's predecessor was a carriage return.
LastIs == is_raw => (last_was_cr <=> read > 0 /\ printed[read] = "cr")

LEMMA PlaceTypes ==
    ASSUME NEW n \in Nat
    PROVE  /\ PlaceOf(n) \in Nat /\ PlaceOf(n) >= n
           /\ PlaceOf(n + 1) = PlaceOf(n) + (IF Adds(n + 1) THEN 2 ELSE 1)
<1> DEFINE A(k) == {i \in 1 .. k : Adds(i)}
<1>1. \A k \in Nat : IsFiniteSet(A(k)) /\ Cardinality(A(k)) \in Nat
  <2> SUFFICES ASSUME NEW k \in Nat PROVE IsFiniteSet(A(k)) /\ Cardinality(A(k)) \in Nat
    OBVIOUS
  <2>1. IsFiniteSet(1 .. k)
    BY FS_Interval
  <2>2. A(k) \subseteq 1 .. k
    OBVIOUS
  <2>3. IsFiniteSet(A(k))
    BY <2>1, <2>2, FS_Subset
  <2> QED BY <2>3, FS_CardinalityType
<1>2. n + 1 \in Nat /\ n + 1 \notin A(n)
  OBVIOUS
<1>3. CASE Adds(n + 1)
  <2>1. A(n + 1) = A(n) \union {n + 1}
    BY <1>3
  <2> HIDE DEF A
  <2>2. Cardinality(A(n + 1)) = Cardinality(A(n)) + 1
    BY <1>1, <1>2, <2>1, FS_AddElement
  <2> USE DEF A
  <2>3. PlaceOf(n + 1) = n + 1 + Cardinality(A(n + 1)) /\ PlaceOf(n) = n + Cardinality(A(n))
    BY DEF PlaceOf
  <2> HIDE DEF A
  <2> QED BY <1>1, <1>3, <2>2, <2>3
<1>4. CASE ~Adds(n + 1)
  <2>1. A(n + 1) = A(n)
    BY <1>4
  <2>3. PlaceOf(n + 1) = n + 1 + Cardinality(A(n + 1)) /\ PlaceOf(n) = n + Cardinality(A(n))
    BY DEF PlaceOf
  <2> HIDE DEF A
  <2> QED BY <1>1, <1>4, <2>1, <2>3
<1> QED BY <1>3, <1>4

LEMMA PlaceGrows ==
    ASSUME NEW m \in Nat, NEW n \in Nat, m <= n
    PROVE  PlaceOf(m) <= PlaceOf(n)
<1> DEFINE A(k) == {i \in 1 .. k : Adds(i)}
<1>1. IsFiniteSet(1 .. m) /\ IsFiniteSet(1 .. n)
  BY FS_Interval
<1>2. A(m) \subseteq A(n) /\ A(n) \subseteq 1 .. n /\ A(m) \subseteq 1 .. m
  OBVIOUS
<1>3. PlaceOf(m) = m + Cardinality(A(m)) /\ PlaceOf(n) = n + Cardinality(A(n))
  BY DEF PlaceOf
<1> HIDE DEF A
<1>4. IsFiniteSet(A(n)) /\ IsFiniteSet(A(m))
  BY <1>1, <1>2, FS_Subset
<1>5. Cardinality(A(m)) <= Cardinality(A(n)) /\ Cardinality(A(m)) \in Nat /\ Cardinality(A(n)) \in Nat
  BY <1>2, <1>4, FS_Subset, FS_CardinalityType
<1> QED BY <1>3, <1>5

LEMMA ConcatIs ==
    ASSUME NEW S, NEW s \in Seq(S), NEW t \in Seq(S)
    PROVE  /\ s \o t \in Seq(S) /\ Len(s \o t) = Len(s) + Len(t)
           /\ Len(s) \in Nat /\ Len(t) \in Nat
           /\ \A i \in 1 .. Len(s) : (s \o t)[i] = s[i]
           /\ \A i \in 1 .. Len(t) : (s \o t)[Len(s) + i] = t[i]
OBVIOUS

\* Three sequences run together in either order of grouping.
Grouped(s, t, u) == s \o (t \o u) = (s \o t) \o u

LEMMA ConcatTwice ==
    ASSUME NEW S, NEW s \in Seq(S), NEW t \in Seq(S), NEW u \in Seq(S)
    PROVE  Grouped(s, t, u)
BY ONLY s \in Seq(S), t \in Seq(S), u \in Seq(S) DEF Grouped

LEMMA ShownIs ==
    ASSUME ShowTypes, LastIs, NEW i \in read + 1 .. Len(printed)
    PROVE  /\ Shown(i) = (IF Adds(i) THEN <<"cr", "lf">> ELSE <<printed[i]>>)
           /\ Shown(i) \in Seq(Bytes) /\ printed[i] \in Bytes
           /\ Adds(i) => printed[i] = "lf"
<1>1. i \in 1 .. Len(printed) /\ printed[i] \in Bytes
  BY DEF ShowTypes
<1>2. Adds(i) <=> is_raw /\ printed[i] = "lf" /\ ~Before(i)
  <2>1. CASE i > read + 1
    <3>1. i # 1 /\ (Before(i) <=> printed[i - 1] = "cr")
      BY <2>1 DEF ShowTypes, Before
    <3> QED BY <3>1 DEF Adds
  <2>2. CASE i = read + 1
    <3>1. ~(i > read + 1) /\ (i = 1 <=> ~(read > 0)) /\ i - 1 = read
      BY <2>2 DEF ShowTypes
    <3>2. is_raw => (last_was_cr <=> ~(i = 1 \/ printed[i - 1] # "cr"))
      BY <3>1 DEF LastIs
    <3>3. Before(i) = last_was_cr
      BY <3>1 DEF Before
    <3> QED BY <3>2, <3>3 DEF Adds
  <2> QED BY <2>1, <2>2 DEF ShowTypes
<1>3. Shown(i) = (IF Adds(i) THEN <<"cr", "lf">> ELSE <<printed[i]>>)
  BY <1>2, Zenon DEF Shown
<1>4. <<"cr", "lf">> \in Seq(Bytes) /\ <<printed[i]>> \in Seq(Bytes)
  BY <1>1 DEF Bytes
<1> QED BY <1>1, <1>2, <1>3, <1>4

LEMMA ShowsOneMore ==
    ASSUME NEW m \in Nat, NEW s, NEW x \in Seq(Bytes), Shows(s, m),
           x = (IF Adds(m + 1) THEN <<"cr", "lf">> ELSE <<printed[m + 1]>>),
           Adds(m + 1) => printed[m + 1] = "lf"
    PROVE  Shows(s \o x, m + 1)
<1>1. s \in Seq(Bytes) /\ Len(s) = PlaceOf(m)
  BY DEF Shows
<1>2. /\ s \o x \in Seq(Bytes) /\ Len(s \o x) = Len(s) + Len(x)
      /\ \A i \in 1 .. Len(s) : (s \o x)[i] = s[i]
      /\ \A i \in 1 .. Len(x) : (s \o x)[Len(s) + i] = x[i]
  BY <1>1, ConcatIs
<1>3. PlaceOf(m) \in Nat /\ PlaceOf(m + 1) = PlaceOf(m) + (IF Adds(m + 1) THEN 2 ELSE 1)
  BY PlaceTypes
<1>4. Len(x) = (IF Adds(m + 1) THEN 2 ELSE 1)
  OBVIOUS
<1>5. ASSUME NEW n \in 1 .. m
      PROVE  /\ (s \o x)[PlaceOf(n)] = printed[n]
             /\ Adds(n) => (s \o x)[PlaceOf(n) - 1] = "cr"
  <2>1. n - 1 \in Nat /\ n \in Nat /\ n <= m /\ (n - 1) + 1 = n /\ n >= 1
    OBVIOUS
  <2>2. PlaceOf(n) <= PlaceOf(m) /\ PlaceOf(n) >= n /\ PlaceOf(n) \in Nat /\ PlaceOf(n - 1) \in Nat
    BY <2>1, PlaceGrows, PlaceTypes
  <2>3. PlaceOf(n) = PlaceOf(n - 1) + (IF Adds(n) THEN 2 ELSE 1)
    BY <2>1, PlaceTypes
  <2>4. PlaceOf(n) \in 1 .. Len(s)
    BY <1>1, <1>3, <2>1, <2>2
  <2>5. Adds(n) => PlaceOf(n) - 1 \in 1 .. Len(s)
    BY <1>1, <1>3, <2>2, <2>3
  <2> QED BY <1>2, <2>4, <2>5 DEF Shows
<1>6. CASE Adds(m + 1)
  <2>1. x[1] = "cr" /\ x[2] = "lf" /\ 1 \in 1 .. Len(x) /\ 2 \in 1 .. Len(x)
    BY <1>6
  <2>2. (s \o x)[PlaceOf(m) + 1] = "cr" /\ (s \o x)[PlaceOf(m) + 2] = "lf"
    BY <1>1, <1>2, <2>1
  <2>3. PlaceOf(m + 1) = PlaceOf(m) + 2 /\ PlaceOf(m + 1) - 1 = PlaceOf(m) + 1 /\ printed[m + 1] = "lf"
    BY <1>3, <1>6
  <2>4. /\ (s \o x)[PlaceOf(m + 1)] = printed[m + 1]
        /\ (s \o x)[PlaceOf(m + 1) - 1] = "cr"
    BY <2>2, <2>3
  <2>5. \A n \in 1 .. m + 1 : n \in 1 .. m \/ n = m + 1
    OBVIOUS
  <2>6. Len(s \o x) = PlaceOf(m + 1)
    BY <1>1, <1>2, <1>4, <1>6, <2>3
  <2> QED BY <1>2, <1>5, <2>4, <2>5, <2>6 DEF Shows
<1>7. CASE ~Adds(m + 1)
  <2>1. x[1] = printed[m + 1] /\ 1 \in 1 .. Len(x)
    BY <1>7
  <2>2. (s \o x)[PlaceOf(m) + 1] = printed[m + 1]
    BY <1>1, <1>2, <2>1
  <2>3. PlaceOf(m + 1) = PlaceOf(m) + 1
    BY <1>3, <1>7
  <2>5. \A n \in 1 .. m + 1 : n \in 1 .. m \/ n = m + 1
    OBVIOUS
  <2>6. Len(s \o x) = PlaceOf(m + 1)
    BY <1>1, <1>2, <1>4, <1>7, <2>3
  <2> QED BY <1>2, <1>5, <1>7, <2>2, <2>3, <2>5, <2>6 DEF Shows
<1> QED BY <1>6, <1>7

(***************************************************************************)
(* Induction over the naturals                                             *)
(***************************************************************************)

\* A set of naturals has a least element.
LEMMA Least ==
    ASSUME NEW S \in SUBSET Nat, S # {} PROVE \E x \in S : \A y \in S : x <= y
  <1>1. PICK n \in S : TRUE OBVIOUS
  <1> DEFINE U == 0 .. n
             upTo(x) == {y \in U : y \in S /\ y <= x}
             family == {upTo(x) : x \in S \intersect U}
             R == StrictSubsetOrdering(U)
  <1>2. IsFiniteSet(U) BY <1>1, FS_Interval
  <1>3. IsWellFoundedOn(R, SUBSET U)
    BY <1>2, FS_FiniteSubsetsOfFinite, FS_StrictSubsetOrderingWellFounded
  <1>4. \A x \in S \intersect U : upTo(x) \in SUBSET U OBVIOUS
  <1>5. upTo(n) \in family BY <1>1
  <1>6. \E M \in family : \A N \in family : <<N, M>> \notin R
    <2>1. family \subseteq SUBSET U
      <3> HIDE DEF upTo
      <3> QED BY <1>4
    <2> HIDE DEF family, R
    <2> QED BY <1>3, <2>1, <1>5, WFMin
  <1>7. PICK x \in S \intersect U : \A N \in family : <<N, upTo(x)>> \notin R
    BY <1>6
  <1>8. ASSUME NEW y \in S, y < x PROVE FALSE
    <2>0. y \in U /\ x \in U /\ y \in Nat /\ x \in Nat BY <1>8, <1>7
    <2>1. upTo(y) \in family BY <1>8, <2>0
    <2>2. x \in upTo(x) /\ x \notin upTo(y) BY <1>8, <2>0
    <2>3. upTo(y) \subseteq upTo(x) BY <1>8, <2>0
    <2>4. upTo(y) \in SUBSET U /\ upTo(x) \in SUBSET U OBVIOUS
    <2>5. <<upTo(y), upTo(x)>> \in R
      <3> HIDE DEF upTo
      <3> QED BY <2>2, <2>3, <2>4 DEF StrictSubsetOrdering
    <2> QED BY <2>1, <2>5, <1>7
  <1> QED BY <1>7, <1>8

\* What holds of 0 and of the successor of each that it holds of.
LEMMA Induction ==
    ASSUME NEW S \in SUBSET Nat, 0 \in S, \A n \in S : n + 1 \in S
    PROVE  S = Nat
  <1> SUFFICES ASSUME NEW m \in Nat \ S PROVE FALSE OBVIOUS
  <1>1. PICK n \in Nat \ S : \A k \in Nat \ S : n <= k
    <2>1. Nat \ S \in SUBSET Nat /\ Nat \ S # {} OBVIOUS
    <2> QED BY <2>1, Least, Zenon
  <1>2. n # 0 OBVIOUS
  <1>3. n - 1 \in Nat /\ ~(n <= n - 1) /\ (n - 1) + 1 = n BY <1>1, <1>2
  <1>4. n - 1 \in S BY <1>1, <1>3
  <1> QED BY <1>3, <1>4

(***************************************************************************)
(* The bytes of one read                                                   *)
(***************************************************************************)
\* What is shown of the bytes up to the i-th, from what is shown of those before.
Piece(g, i) == IF i = read THEN <<>> ELSE g[i - 1] \o Shown(i)
IsShow(n, g) == g = [i \in read .. n |-> Piece(g, i)]

LEMMA ShowExists ==
    ASSUME read \in Nat, NEW n \in Nat PROVE \E g : IsShow(read + n, g)
<1> DEFINE S == {m \in Nat : \E g : IsShow(read + m, g)}
<1>1. 0 \in S
  <2> DEFINE g == [i \in read .. read + 0 |-> <<>>]
  <2>1. \A i \in read .. read + 0 : Piece(g, i) = <<>>
    BY DEF Piece
  <2>2. g = [i \in read .. read + 0 |-> Piece(g, i)]
    <3>1. g = [i \in read .. read + 0 |-> <<>>]
      OBVIOUS
    <3> HIDE DEF g
    <3> QED BY <3>1, <2>1
  <2> HIDE DEF g
  <2> QED BY <2>2 DEF IsShow
<1>2. ASSUME NEW m \in S PROVE m + 1 \in S
  <2>1. PICK g : g = [i \in read .. read + m |-> Piece(g, i)]
    BY DEF IsShow
  <2> HIDE DEF S
  <2>2. m \in Nat
    BY DEF S
  <2> DEFINE h == [i \in read .. read + (m + 1) |-> IF i = read + (m + 1) THEN Piece(g, i) ELSE g[i]]
  <2>3. ASSUME NEW i \in read .. read + (m + 1) PROVE h[i] = Piece(h, i)
    <3>1. CASE i = read
      <4>1. i # read + (m + 1) /\ i \in read .. read + m
        BY <3>1, <2>2
      <4>2. h[i] = g[i] /\ g[i] = Piece(g, i)
        BY <2>1, <4>1
      <4> QED BY <3>1, <4>2 DEF Piece
    <3>2. CASE i # read
      <4>1. /\ i - 1 \in read .. read + m /\ i - 1 # read + (m + 1)
            /\ i - 1 \in read .. read + (m + 1)
        BY <3>2, <2>2
      <4>2. h[i - 1] = g[i - 1]
        BY <4>1
      <4>3. Piece(h, i) = Piece(g, i)
        BY <4>2 DEF Piece
      <4>4. i # read + (m + 1) => i \in read .. read + m
        BY <2>2
      <4>5. h[i] = Piece(g, i)
        BY <2>1, <4>4
      <4> QED BY <4>3, <4>5
    <3> QED BY <3>1, <3>2
  <2>4. h = [i \in read .. read + (m + 1) |-> h[i]]
    OBVIOUS
  <2> HIDE DEF h
  <2>5. IsShow(read + (m + 1), h)
    BY <2>3, <2>4 DEF IsShow
  <2> QED BY <2>2, <2>5 DEF S
<1>3. S = Nat
  <2>1. S \in SUBSET Nat
    OBVIOUS
  <2> HIDE DEF S
  <2> QED BY <1>1, <1>2, <2>1, Induction
<1>4. n \in S
  BY <1>3
<1> HIDE DEF S
<1> QED BY <1>4 DEF S

LEMMA ShownIsShow ==
    ASSUME read \in Nat, NEW n \in Nat
    PROVE  \E g : IsShow(read + n, g) /\ ShownUpTo(read + n) = g[read + n]
<1> DEFINE g == CHOOSE h : IsShow(read + n, h)
<1>1. IsShow(read + n, g)
  BY ShowExists
<1>2. ShownUpTo(read + n) = g[read + n]
  BY DEF ShownUpTo, IsShow, Piece
<1> HIDE DEF g
<1> QED BY <1>1, <1>2

LEMMA ShowsUpTo ==
    ASSUME ShowTypes, LastIs, Shows(shown, read), NEW n \in read + 1 .. Len(printed)
    PROVE  Shows(shown \o ShownUpTo(n), n)
<1>0. read \in Nat /\ Len(printed) \in Nat /\ n \in Nat
  BY DEF ShowTypes
<1>1. PICK d \in Nat : n = read + d
  <2>1. n - read \in Nat /\ n = read + (n - read)
    BY <1>0
  <2> QED BY <2>1
<1>2. PICK g : IsShow(n, g) /\ ShownUpTo(n) = g[n]
  BY <1>0, <1>1, ShownIsShow
<1>3. /\ g[read] = <<>>
      /\ \A i \in read + 1 .. n : g[i] = g[i - 1] \o Shown(i)
  <2>1. g = [i \in read .. n |-> Piece(g, i)] /\ read \in read .. n /\ n >= read
    BY <1>0, <1>2 DEF IsShow
  <2>2. \A i \in read .. n : g[i] = Piece(g, i)
    BY <2>1
  <2>3. \A i \in read + 1 .. n : i \in read .. n /\ i # read
    BY <1>0
  <2> QED BY <2>1, <2>2, <2>3 DEF Piece
<1> DEFINE S == {k \in Nat : k <= d => g[read + k] \in Seq(Bytes) /\ Shows(shown \o g[read + k], read + k)}
<1>4. 0 \in S
  <2>1. read + 0 = read /\ shown \o <<>> = shown /\ <<>> \in Seq(Bytes)
    BY <1>0 DEF ShowTypes
  <2> QED BY <2>1, <1>3
<1>5. ASSUME NEW k \in S PROVE k + 1 \in S
  <2>0. k \in Nat
    OBVIOUS
  <2> SUFFICES ASSUME k + 1 <= d
               PROVE  g[read + (k + 1)] \in Seq(Bytes) /\ Shows(shown \o g[read + (k + 1)], read + (k + 1))
    BY <2>0
  <2>1. g[read + k] \in Seq(Bytes) /\ Shows(shown \o g[read + k], read + k)
    <3>1. k <= d
      BY <2>0
    <3> QED BY <3>1
  <2> HIDE DEF S
  <2> DEFINE i == read + k
  <2>2. /\ i \in Nat /\ i + 1 = read + (k + 1)
        /\ i + 1 \in read + 1 .. n /\ i + 1 \in read + 1 .. Len(printed)
    BY <1>0, <1>1, <2>0
  <2>3. g[i + 1] = g[i] \o Shown(i + 1)
    <3>1. (i + 1) - 1 = i
      BY <2>2
    <3> HIDE DEF i
    <3> QED BY <3>1, <2>2, <1>3
  <2>5. g[i] \in Seq(Bytes) /\ Shows(shown \o g[i], i) /\ shown \in Seq(Bytes)
    BY <2>1 DEF ShowTypes
  <2> HIDE DEF i
  <2>4. /\ Shown(i + 1) = (IF Adds(i + 1) THEN <<"cr", "lf">> ELSE <<printed[i + 1]>>)
        /\ Shown(i + 1) \in Seq(Bytes)
        /\ Adds(i + 1) => printed[i + 1] = "lf"
    BY <2>2, ShownIs
  <2>6. Shows((shown \o g[i]) \o Shown(i + 1), i + 1)
    BY <2>2, <2>4, <2>5, ShowsOneMore
  <2>7. g[i + 1] \in Seq(Bytes)
    BY <2>3, <2>4, <2>5, ConcatIs
  <2>8. (shown \o g[i]) \o Shown(i + 1) = shown \o g[i + 1]
    <3>1. shown \o (g[i] \o Shown(i + 1)) = (shown \o g[i]) \o Shown(i + 1)
      <4>1. Grouped(shown, g[i], Shown(i + 1))
        BY ONLY <2>4, <2>5, ConcatTwice
      <4> QED BY ONLY <4>1, Zenon DEF Grouped
    <3> QED BY ONLY <3>1, <2>3
  <2> QED BY <2>2, <2>6, <2>7, <2>8
<1>6. S = Nat
  <2>1. S \in SUBSET Nat
    OBVIOUS
  <2> HIDE DEF S
  <2> QED BY <1>4, <1>5, <2>1, Induction
<1>7. d \in S /\ d <= d
  BY <1>6
<1> QED BY <1>1, <1>2, <1>7

LEMMA SameShown ==
    ASSUME ShowTypes, LastIs, Shows(shown, read),
           UNCHANGED <<is_raw, read, last_was_cr, shown, printed>>
    PROVE  ShowTypes' /\ LastIs' /\ Shows(shown, read)'
<1>1. /\ is_raw' = is_raw /\ read' = read /\ last_was_cr' = last_was_cr /\ shown' = shown
      /\ printed' = printed
  OBVIOUS
<1>2. ShowTypes' /\ LastIs'
  BY <1>1 DEF ShowTypes, LastIs
<1>3. Shows(shown, read)'
  BY <1>1 DEF Shows, PlaceOf, Adds
<1> QED BY <1>2, <1>3

LEMMA ReadShows ==
    ASSUME ShowTypes, LastIs, Shows(shown, read), MainReads
    PROVE  ShowTypes' /\ LastIs' /\ Shows(shown, read)'
<1>1. PICK n \in read + 1 .. Len(printed) :
          /\ read' = n
          /\ shown' = shown \o ShownUpTo(n)
          /\ last_was_cr' = IF is_raw THEN printed[n] = "cr" ELSE last_was_cr
  BY DEF MainReads
<1>2. is_raw' = is_raw /\ printed' = printed
  BY DEF MainReads, session, deviceVars
<1>3. Shows(shown', n)
  BY <1>1, ShowsUpTo
<1>4. Shows(shown, read)'
  <2>1. read' = n
    BY <1>1
  <2>2. PlaceOf(n) = PlaceOf(n)' /\ \A m \in 1 .. n : PlaceOf(m)' = PlaceOf(m) /\ Adds(m)' = Adds(m)
    BY ONLY <1>2 DEF PlaceOf, Adds
  <2> QED BY ONLY <1>2, <1>3, <2>1, <2>2 DEF Shows
<1>5. n \in Nat /\ n > 0 /\ n <= Len(printed) /\ Len(printed) \in Nat
  BY DEF ShowTypes
<1>6. LastIs'
  BY <1>1, <1>2, <1>5 DEF LastIs
<1>7. shown' \in Seq(Bytes)
  BY <1>3 DEF Shows
<1>8. ShowTypes'
  <2>1. last_was_cr' \in BOOLEAN
    BY <1>1, Zenon DEF ShowTypes
  <2>2. read' \in 0 .. Len(printed') /\ printed' \in Seq(Bytes)
    BY <1>1, <1>2, <1>5 DEF ShowTypes
  <2> QED BY <1>7, <2>1, <2>2 DEF ShowTypes
<1> QED BY <1>4, <1>6, <1>8

LEMMA PrintShows ==
    ASSUME ShowTypes, LastIs, Shows(shown, read), NEW byte \in Bytes, printed' = Append(printed, byte),
           UNCHANGED <<is_raw, mainVars>>
    PROVE  ShowTypes' /\ LastIs' /\ Shows(shown, read)'
<1>1. is_raw' = is_raw /\ read' = read /\ last_was_cr' = last_was_cr /\ shown' = shown
  BY DEF mainVars
<1>2. /\ printed' \in Seq(Bytes) /\ Len(printed') = Len(printed) + 1
      /\ \A i \in 1 .. Len(printed) : printed'[i] = printed[i]
  BY AppendIs DEF ShowTypes
<1>3. read \in Nat /\ read <= Len(printed) /\ Len(printed) \in Nat
  BY DEF ShowTypes
<1>4. ShowTypes'
  BY <1>1, <1>2, <1>3 DEF ShowTypes
<1>5. LastIs'
  BY <1>1, <1>2, <1>3 DEF LastIs
<1>6. ASSUME NEW i \in 1 .. read PROVE Adds(i)' <=> Adds(i)
  <2>1. printed'[i] = printed[i] /\ (i # 1 => printed'[i - 1] = printed[i - 1])
    BY <1>2, <1>3
  <2>2. (i = 1 \/ printed'[i - 1] # "cr") <=> (i = 1 \/ printed[i - 1] # "cr")
    BY <2>1
  <2>3. printed'[i] = "lf" <=> printed[i] = "lf"
    BY <2>1
  <2>4. is_raw' <=> is_raw
    BY <1>1
  <2> QED BY <2>2, <2>3, <2>4, Zenon DEF Adds
<1>7. ASSUME NEW n \in 0 .. read PROVE PlaceOf(n)' = PlaceOf(n)
  <2>1. \A i \in 1 .. n : i \in 1 .. read
    BY <1>3
  <2>2. {i \in 1 .. n : Adds(i)'} = {i \in 1 .. n : Adds(i)}
    BY <1>6, <2>1
  <2> QED BY <2>2 DEF PlaceOf
<1>8. Len(shown') = PlaceOf(read)'
  <2>1. PICK m \in 0 .. read : m = read
    BY <1>3
  <2>2. PlaceOf(m)' = PlaceOf(m)
    BY <1>7
  <2>3. PlaceOf(read)' = PlaceOf(m)'
    BY <1>1, <2>1 DEF PlaceOf
  <2> QED BY <1>1, <2>1, <2>2, <2>3 DEF Shows
<1>9. \A n \in 1 .. read : /\ shown'[PlaceOf(n)'] = printed'[n]
                           /\ Adds(n)' => shown'[PlaceOf(n)' - 1] = "cr"
  <2> SUFFICES ASSUME NEW n \in 1 .. read
               PROVE  /\ shown'[PlaceOf(n)'] = printed'[n]
                      /\ Adds(n)' => shown'[PlaceOf(n)' - 1] = "cr"
    OBVIOUS
  <2>1. n \in 0 .. read /\ printed'[n] = printed[n]
    BY <1>2, <1>3
  <2>2. PlaceOf(n)' = PlaceOf(n) /\ (Adds(n)' <=> Adds(n))
    BY <1>6, <1>7, <2>1
  <2> QED BY <1>1, <2>1, <2>2 DEF Shows
<1> QED BY <1>1, <1>2, <1>4, <1>5, <1>8, <1>9 DEF Shows, ShowTypes

LEMMA ShowsNext ==
    ASSUME ShowTypes, LastIs, Shows(shown, read), [ConsoleNext]_consoleVars
    PROVE  ShowTypes' /\ LastIs' /\ Shows(shown, read)'
<1>1. CASE MainReads
  BY <1>1, ReadShows
<1>2. CASE DevicePrints
  <2>1. PICK byte \in Bytes : printed' = Append(printed, byte)
    BY <1>2 DEF DevicePrints
  <2>2. UNCHANGED <<is_raw, mainVars>>
    BY <1>2 DEF DevicePrints, session
  <2> QED BY <2>1, <2>2, PrintShows
<1>3. CASE \/ InputNext \/ MainChecks \/ MainQuiet \/ MainCloses \/ MainFails \/ Types
           \/ EndOfInput \/ DeviceGoes \/ UNCHANGED consoleVars
  <2>1. UNCHANGED <<is_raw, read, last_was_cr, shown, printed>>
    <3>1. CASE InputNext
      BY <3>1 DEF InputNext, InputChecks, InputReads, InputEnds, InputWrites, InputWriteFails, session,
                  mainVars, deviceVars
    <3>2. CASE UNCHANGED consoleVars
      BY <3>2 DEF consoleVars, session, mainVars, deviceVars
    <3>3. CASE MainChecks \/ MainQuiet \/ MainCloses \/ MainFails
      BY <3>3 DEF MainChecks, MainQuiet, MainCloses, MainFails, session, deviceVars
    <3>4. CASE Types \/ EndOfInput \/ DeviceGoes
      BY <3>4 DEF Types, EndOfInput, DeviceGoes, session, mainVars, deviceVars
    <3> QED BY <1>3, <3>1, <3>2, <3>3, <3>4
  <2> QED BY <2>1, SameShown
<1> QED BY <1>1, <1>2, <1>3 DEF ConsoleNext, MainNext, Returned

(***************************************************************************)
(* The console's invariant                                                 *)
(***************************************************************************)
\* All that the three theorems need, and it is inductive.
ConsoleInv == ConsoleTypeOK /\ Forwards /\ Ending /\ LastIs /\ Shows(shown, read)

LEMMA ConsoleInvInit ==
    ASSUME ConsoleInit PROVE ConsoleInv
<1>1. Len(<<>>) = 0 /\ <<>> \in Seq(Keys) /\ <<>> \in Seq(Bytes)
  OBVIOUS
<1>2. ConsoleTypeOK
  <2>1. taken \in 0 .. Len(typed) /\ read \in 0 .. Len(printed)
    BY <1>1 DEF ConsoleInit
  <2> QED BY <1>1, <2>1 DEF ConsoleInit, ConsoleTypeOK
<1>3. Forwards
  BY <1>1 DEF ConsoleInit, Forwards
<1>4. Ending /\ LastIs
  BY DEF ConsoleInit, Ending, LastIs
<1>5. PlaceOf(0) = 0
  <2>1. {i \in 1 .. 0 : Adds(i)} = {}
    OBVIOUS
  <2>2. Cardinality({}) = 0
    BY FS_EmptySet
  <2> QED BY <2>1, <2>2 DEF PlaceOf
<1>6. Shows(shown, read)
  BY <1>1, <1>5 DEF ConsoleInit, Shows
<1> QED BY <1>2, <1>3, <1>4, <1>6 DEF ConsoleInv

LEMMA EndingNext ==
    ASSUME ConsoleInv, [ConsoleNext]_consoleVars
    PROVE  Ending'
<1>1. taken \in Nat /\ taken <= Len(typed) /\ Len(typed) \in Nat
  BY InputTypes DEF ConsoleInv
<1>2. CASE InputReads
  <2>1. PICK n \in taken + 1 .. Len(typed) :
         /\ taken' = n
         /\ IF Quits(SubSeq(typed, taken + 1, n))
            THEN running' = FALSE /\ input' = "gone" /\ UNCHANGED chunk
            ELSE chunk' = SubSeq(typed, taken + 1, n) /\ input' = "write" /\ UNCHANGED running
    BY <1>2 DEF InputReads
  <2>2. /\ SubSeq(typed, taken + 1, n) \in Seq(Keys) /\ Len(SubSeq(typed, taken + 1, n)) = n - taken
        /\ \A i \in 1 .. n - taken : SubSeq(typed, taken + 1, n)[i] = typed[taken + i]
    BY PartIs DEF ConsoleInv, ConsoleTypeOK
  <2>3. main' = main /\ device' = device /\ read' = read /\ printed' = printed /\ typed' = typed
    BY <1>2 DEF InputReads, mainVars, deviceVars, userVars
  <2>4. Quits(SubSeq(typed, taken + 1, n)) => \E i \in 1 .. taken' : typed[i] = "quit"
    <3> SUFFICES ASSUME Quits(SubSeq(typed, taken + 1, n)) PROVE \E i \in 1 .. taken' : typed[i] = "quit"
      OBVIOUS
    <3>1. PICK i \in 1 .. n - taken : typed[taken + i] = "quit"
      BY <2>2 DEF Quits, Holds
    <3>2. taken + i \in 1 .. n
      BY <1>1
    <3> QED BY <2>1, <3>1, <3>2
  <2>5. (\E i \in 1 .. taken : typed[i] = "quit") => \E i \in 1 .. taken' : typed[i] = "quit"
    BY <1>1, <2>1
  <2>6. (running' = running \/ Quits(SubSeq(typed, taken + 1, n))) /\ (running' = running \/ running' = FALSE)
    BY <2>1
  <2> QED BY <2>3, <2>4, <2>5, <2>6 DEF ConsoleInv, Ending, ConsoleTypeOK
<1>3. CASE Types
  <2>1. PICK key \in Keys : typed' = Append(typed, key)
    BY <1>3 DEF Types
  <2>2. \A i \in 1 .. taken : typed'[i] = typed[i]
    BY <1>1, <2>1, AppendIs DEF ConsoleInv, ConsoleTypeOK
  <2>3. UNCHANGED <<taken, running, main, device, read, printed>>
    BY <1>3 DEF Types, inputVars, mainVars, deviceVars
  <2> QED BY <2>2, <2>3 DEF ConsoleInv, Ending
<1>4. CASE MainChecks \/ MainReads \/ MainQuiet \/ MainCloses
  BY <1>4 DEF ConsoleInv, Ending, MainChecks, MainReads, MainQuiet, MainCloses, Closed, inputVars, userVars, deviceVars
<1>5. CASE MainFails
  BY <1>5 DEF Ending, MainFails, deviceVars
<1>6. CASE DevicePrints \/ DeviceGoes
  BY <1>6 DEF ConsoleInv, Ending, DevicePrints, DeviceGoes, Alive, Ended, inputVars, userVars, mainVars
<1>7. CASE InputChecks \/ InputEnds \/ InputWrites \/ InputWriteFails \/ EndOfInput \/ UNCHANGED consoleVars
  <2>1. UNCHANGED <<taken, running, main, device, read, printed, typed>>
    BY <1>7 DEF InputChecks, InputEnds, InputWrites, InputWriteFails, EndOfInput, consoleVars, inputVars,
                mainVars, deviceVars, userVars
  <2> QED BY <2>1 DEF ConsoleInv, Ending
<1> QED BY <1>2, <1>3, <1>4, <1>5, <1>6, <1>7 DEF ConsoleNext, InputNext, MainNext, Returned

LEMMA ConsoleInvNext ==
    ASSUME ConsoleInv, [ConsoleNext]_consoleVars
    PROVE  ConsoleInv'
<1>1. /\ Forwards' /\ chunk' \in Seq(Keys) /\ received' \in Seq(Keys) /\ typed' \in Seq(Keys)
      /\ taken' \in 0 .. Len(typed')
  BY ForwardsNext DEF ConsoleInv, ForwardInv
<1>2. ShowTypes /\ LastIs /\ Shows(shown, read)
  BY DEF ConsoleInv, ShowTypes, ConsoleTypeOK
<1>3. ShowTypes' /\ LastIs' /\ Shows(shown, read)'
  BY <1>2, ShowsNext
<1>4. /\ kind' \in SessionKinds /\ is_raw' \in BOOLEAN
      /\ stdin' \in {"open", "ended"} /\ device' \in {"open", "stalled", "closed", "failed"}
  BY DEF ConsoleInv, ConsoleTypeOK, ConsoleNext, InputNext, InputChecks, InputReads, InputEnds, InputWrites,
         InputWriteFails, MainNext, MainChecks, MainReads, MainQuiet, MainCloses, MainFails, Types, EndOfInput,
         DevicePrints, DeviceGoes, Returned, consoleVars, session, deviceVars, userVars
<1>5. running' \in BOOLEAN /\ input' \in {"check", "read", "write", "gone"}
  BY DEF ConsoleInv, ConsoleTypeOK, ConsoleNext, InputNext, InputChecks, InputReads, InputEnds, InputWrites,
         InputWriteFails, MainNext, MainChecks, MainReads, MainQuiet, MainCloses, MainFails, Types, EndOfInput,
         DevicePrints, DeviceGoes, Returned, consoleVars, inputVars
<1>6. main' \in {"check", "read"} \union Ended
  BY DEF ConsoleInv, ConsoleTypeOK, ConsoleNext, InputNext, InputChecks, InputReads, InputEnds, InputWrites,
         InputWriteFails, MainNext, MainChecks, MainReads, MainQuiet, MainCloses, MainFails, Types, EndOfInput,
         DevicePrints, DeviceGoes, Returned, consoleVars, mainVars, Ended
<1>7. ConsoleTypeOK'
  BY <1>1, <1>3, <1>4, <1>5, <1>6 DEF ConsoleTypeOK, ShowTypes
<1>8. Ending'
  BY EndingNext
<1> QED BY <1>1, <1>3, <1>7, <1>8 DEF ConsoleInv

LEMMA ConsoleInvHolds == ConsoleSpec => []ConsoleInv
<1>1. ConsoleInit => ConsoleInv
  BY ConsoleInvInit
<1>2. ConsoleInv /\ [ConsoleNext]_consoleVars => ConsoleInv'
  BY ConsoleInvNext
<1> QED BY <1>1, <1>2, PTL DEF ConsoleSpec

\* However the reads cut what the user types, the board or the emulator is sent
\* it in order, and never a quit key nor what was typed after one.
THEOREM ForwardsInOrderHolds == ConsoleSpec => []ForwardsInOrder
<1>1. ConsoleInv => ForwardsInOrder
  BY DEF ConsoleInv, Forwards, ForwardsInOrder
<1> QED BY <1>1, ConsoleInvHolds, PTL

\* However the reads cut what the device prints, each byte of it is shown, with a
\* carriage return before a line feed that lacks one in raw mode and nothing else
\* between; and an emulator that exits has all it printed shown.
THEOREM AllIsShown == ConsoleSpec => []OutputOK
<1>1. ConsoleInv => OutputOK
  <2> SUFFICES ASSUME ConsoleInv PROVE OutputOK
    OBVIOUS
  <2>1. ShownAsPrinted
    BY DEF ConsoleInv, Shows, ShownAsPrinted
  <2>2. ShowsTheLast
    BY DEF ConsoleInv, Ending, ShowsTheLast
  <2> QED BY <2>1, <2>2 DEF ConsoleInv, OutputOK
<1> QED BY <1>1, ConsoleInvHolds, PTL

\* A session ends only by a quit key the program has read or by a device that has
\* gone: the end of standard input, and a write that fails, do not end it.
THEOREM OnlyQuitEndsHolds == ConsoleSpec => []OnlyQuitEnds
<1>1. ConsoleInv => OnlyQuitEnds
  <2> SUFFICES ASSUME ConsoleInv, main \in Ended, device \notin {"closed", "failed"}
               PROVE  Holds(SubSeq(typed, 1, taken), "quit")
    BY DEF OnlyQuitEnds
  <2>1. PICK i \in 1 .. taken : typed[i] = "quit"
    BY DEF ConsoleInv, Ending, Ended
  <2>2. taken \in 0 + 1 .. Len(typed) /\ 0 \in 0 .. Len(typed) /\ taken \in Nat
    BY <2>1, InputTypes DEF ConsoleInv
  <2>3. /\ Len(SubSeq(typed, 0 + 1, taken)) = taken - 0
        /\ \A j \in 1 .. taken - 0 : SubSeq(typed, 0 + 1, taken)[j] = typed[0 + j]
    BY <2>2, PartIs DEF ConsoleInv, ConsoleTypeOK
  <2>4. SubSeq(typed, 1, taken)[i] = "quit" /\ Len(SubSeq(typed, 1, taken)) = taken
    BY <2>1, <2>2, <2>3
  <2> QED BY <2>1, <2>4 DEF Holds
<1> QED BY <1>1, ConsoleInvHolds, PTL
====
