------------------------------ MODULE Workflow ------------------------------
(***************************************************************************)
(* One project on disk and the commands given in it, one after another:    *)
(* `rosco build`, `upload`, `monitor` and `run` (app.rs) and the build      *)
(* they share (build.rs).  Between the steps the user edits the sources,    *)
(* presses Ctrl-C, and commands fail.  What the make files of the board's   *)
(* templates do is modelled too: rosco reads their work back from the disk. *)
(*                                                                         *)
(* A source is known by its revision, each an edit; an image by the         *)
(* revision make built it at, the earlier edits that it lacks, and what it  *)
(* was linked against.  It can lack one because make goes by what the make  *)
(* files say an object depends on and by the time it was written: an edit   *)
(* to another file, or one older than an object that was being compiled     *)
(* meanwhile, escapes it.  Machines are known by family;                    *)
(* --rom-path and --sd-card are refused exactly as --machine is, and a      *)
(* command carries --machine for the three of them.  What happens once an   *)
(* image is handed over is the matter of KermitTransfer, HexUpload, Console *)
(* and EmulatorSession.                                                     *)
(***************************************************************************)
EXTENDS Naturals, Sequences

CONSTANTS MaxEdits,   \* Bound: the edits made to the sources.
          None        \* Nothing: no option given, no file there, nothing done.

ASSUME MaxEditsAssumption == MaxEdits \in Nat
ASSUME NoneAssumption == None \notin {"cut", "whole"}

VARIABLES project,    \* what rosco.toml says
          source,     \* the revision of the sources
          artifact,   \* the file at the path rosco.toml gives for the artifact
          unseen,     \* the edits the objects on disk lack and make does not see
          compiled,   \* there are objects on disk
          libs,       \* what libs/build holds of each part of the libraries
          cmd,        \* the command being run
          at,         \* where it is
          todo,       \* the parts of the libraries still to be installed
          began,      \* the revision when the command was given
          output,     \* what the build command is making
          handed      \* what the last command handed to a board or an emulator

objects == <<unseen, compiled>>
vars == <<project, source, artifact, objects, libs, cmd, at, todo, began, output, handed>>

Families == {"m68k", "6502"}

\* A slip: the link scripts are copied first.
ScriptsFirst == <<"script", "headers", "archives">>

\* The order in which `make -C libs install` copies: headers, archives, and
\* the directory of link scripts last.
Parts == <<"headers", "archives", "script">>

\* `names`: the artifact's path is the one the build command writes.
\* `machine`: the family of emulator.machine.
Projects == [board: Families, kind: {"program", "firmware"}, names: BOOLEAN,
             target: {"hardware", "emulator"}, machine: Families]

\* `file`: upload's own file argument; `machine`: --machine, of no family rosco
\* knows when "other".
Commands ==
    {c \in [name: {"build", "upload", "monitor", "run"},
            target: {None, "hardware", "emulator"},
            machine: Families \cup {None, "other"}, clean: BOOLEAN, file: BOOLEAN] :
        /\ c.name = "build" => c.target = None /\ c.machine = None
        /\ c.clean => c.name \in {"build", "run"}
        /\ c.file => c.name = "upload"}

\* An image from an earlier life of the project, and a file that is not its own.
Foreign == [source |-> 0, lacks |-> {}, whole |-> TRUE, own |-> FALSE]

NoCommand == [name |-> None, target |-> None, machine |-> None, clean |-> FALSE,
              file |-> FALSE]

Init == /\ project \in Projects
        /\ source = 1
        /\ artifact \in {None} \cup (IF project.names THEN {} ELSE {Foreign})
        /\ unseen = {} /\ compiled = FALSE
        /\ libs = [part \in {"headers", "archives", "script"} |-> None]
        /\ cmd = NoCommand /\ at = "idle"
        /\ todo = <<>> /\ began = 0 /\ output = None /\ handed = None

(***************************************************************************)
(* What a command means.                                                   *)
(***************************************************************************)
OnEmulator == \/ cmd.target = "emulator"
              \/ cmd.target = None /\ project.target = "emulator"

\* use_emulator's two refusals.
FlagsRefused == ~OnEmulator /\ (project.kind = "firmware" \/ cmd.machine # None)

Machine == IF cmd.machine = None THEN project.machine ELSE cmd.machine

\* A slip: whatever --machine names is accepted.
AnyFamily == TRUE

FamilyFits == Machine = project.board

UsesLibraries == project.board = "m68k" /\ project.kind = "program"

LibrariesBuilt == libs["script"] # None

\* Where a command goes once its flags are accepted and the emulator is at hand.
AfterReady == IF cmd.name = "run" THEN "prepare" ELSE "deliver"

\* A command that ends, well or not, leaves what it did on the disk.
End == at' = "idle" /\ cmd' = NoCommand /\ todo' = <<>> /\ began' = 0 /\ output' = None

(***************************************************************************)
(* The user.                                                               *)
(***************************************************************************)
\* An edit that make will see, or, where there are objects, one that it will not.
Edit == /\ source <= MaxEdits
        /\ source' = source + 1
        /\ unseen' \in {unseen} \cup (IF compiled THEN {unseen \cup {source + 1}} ELSE {})
        /\ UNCHANGED <<project, artifact, compiled, libs, cmd, at, todo, began, output, handed>>

Give(c) == /\ at = "idle"
           /\ cmd' = c /\ began' = source
           /\ at' = IF c.name = "build" THEN "prepare"
                    ELSE IF c.name = "upload" THEN "file" ELSE "flags"
           /\ handed' = None
           /\ UNCHANGED <<project, source, artifact, objects, libs, todo, output>>

\* What make does not see once all it is compiling is compiled.
Escaped == output.lacks \cup {edit \in unseen : edit > output.source}

\* A build that stops short leaves some of its objects compiled and the artifact as
\* it was; or it has compiled them all, and leaves none (make deletes the target it
\* was writing) or the new one, made before the listing.
BuildStops ==
    IF at = "making"
      THEN \/ /\ artifact' = artifact
              /\ \E left \in SUBSET unseen : unseen' = Escaped \cup left
           \/ /\ project.names
              /\ artifact' \in {None, output} /\ unseen' = Escaped
      ELSE UNCHANGED <<artifact, unseen>>

\* Ctrl-C reaches the whole group; a part of the libraries that was being
\* copied stays as far as it had come.
Interrupt == /\ at # "idle"
             /\ BuildStops
             /\ End
             /\ UNCHANGED <<project, source, compiled, libs, handed>>

(***************************************************************************)
(* Before the build: run, upload and monitor.                              *)
(***************************************************************************)
\* The file `upload` sends is there, its own argument's always.
FindFile == /\ at = "file"
            /\ \/ (cmd.file \/ artifact # None) /\ at' = "flags"
                  /\ UNCHANGED <<cmd, todo, began, output>>
               \/ ~cmd.file /\ artifact = None /\ End
            /\ UNCHANGED <<project, source, artifact, objects, libs, handed>>

\* use_emulator; a monitored firmware project must have been built.
ResolveFlags ==
    /\ at = "flags"
    /\ LET unbuilt == /\ cmd.name = "monitor" /\ OnEmulator
                      /\ project.kind = "firmware" /\ artifact = None
       IN  \/ (FlagsRefused \/ unbuilt) /\ End
           \/ /\ ~FlagsRefused /\ ~unbuilt
              /\ at' = IF OnEmulator THEN "ready" ELSE AfterReady
              /\ UNCHANGED <<cmd, todo, began, output>>
    /\ UNCHANGED <<project, source, artifact, objects, libs, handed>>

\* install::ready finds or installs an emulator, or the command ends.
Ready == /\ at = "ready"
         /\ \/ at' = AfterReady /\ UNCHANGED <<cmd, todo, began, output>>
            \/ End
         /\ UNCHANGED <<project, source, artifact, objects, libs, handed>>

(***************************************************************************)
(* build::build.                                                           *)
(***************************************************************************)
\* A slip: the objects are left to clean up later.
CleanLater == /\ at = "clean"
              /\ artifact' = (IF project.names THEN None ELSE artifact)
              /\ at' = "libraries"
              /\ UNCHANGED <<project, source, objects, libs, cmd, todo, began, output, handed>>

\* A missing toolchain ends the build before the first command.
Prepare == /\ at = "prepare"
           /\ \/ at' = (IF cmd.clean THEN "clean" ELSE "libraries")
                 /\ UNCHANGED <<cmd, todo, began, output>>
              \/ End
           /\ UNCHANGED <<project, source, artifact, objects, libs, handed>>

Clean == /\ at = "clean"
         /\ \/ /\ at' = "libraries"
               /\ artifact' = IF project.names THEN None ELSE artifact
               /\ unseen' = {} /\ compiled' = FALSE
               /\ UNCHANGED <<cmd, todo, began, output>>
            \/ UNCHANGED <<artifact, objects>> /\ End
         /\ UNCHANGED <<project, source, libs, handed>>

\* The libraries are installed when their link script is not there.
LookForLibraries ==
    /\ at = "libraries"
    /\ IF UsesLibraries /\ ~LibrariesBuilt
         THEN at' = "install" /\ todo' = Parts
         ELSE at' = "make" /\ todo' = todo
    /\ UNCHANGED <<project, source, artifact, objects, libs, cmd, began, output, handed>>

\* cp opens a part's files, and is done with them; or make stops there.
CopyPart == /\ at = "install" /\ todo # <<>>
            /\ libs[Head(todo)] # "cut"
            /\ libs' = [libs EXCEPT ![Head(todo)] = "cut"]
            /\ UNCHANGED <<project, source, artifact, objects, cmd, at, todo, began, output, handed>>

PartCopied == /\ at = "install" /\ todo # <<>>
              /\ libs[Head(todo)] = "cut"
              /\ \/ /\ libs' = [libs EXCEPT ![Head(todo)] = "whole"]
                    /\ todo' = Tail(todo)
                    /\ UNCHANGED <<cmd, at, began, output>>
                 \/ libs' = libs /\ End
              /\ UNCHANGED <<project, source, artifact, objects, handed>>

InstallEnds == /\ at = "install" /\ todo = <<>>
               /\ at' = "make"
               /\ UNCHANGED <<project, source, artifact, objects, libs, cmd, todo, began, output, handed>>

\* Every edit since the image is one that make does not see.
UpToDate == artifact # None /\ artifact.own /\ (artifact.source + 1) .. source \subseteq unseen

\* make reads the sources it finds newer than their objects, and with them perhaps
\* some of what it did not see; or it leaves the image as it is.
Make == /\ at = "make"
        /\ at' = "making"
        /\ IF UpToDate
             THEN output' = [artifact EXCEPT !.source = source, !.lacks = unseen]
             ELSE \E lacks \in SUBSET unseen :
                    output' = [source |-> source, lacks |-> lacks, own |-> TRUE,
                               whole |-> UsesLibraries => /\ libs["headers"] = "whole"
                                                          /\ libs["archives"] = "whole"]
        /\ compiled' = TRUE
        /\ UNCHANGED <<project, source, artifact, unseen, libs, cmd, todo, began, handed>>

\* A slip: the exit status of the build command is not looked at.
MadeUnchecked == /\ at = "making"
                 /\ BuildStops
                 /\ at' = "check"
                 /\ UNCHANGED <<project, source, compiled, libs, cmd, todo, began, output, handed>>

\* The build command succeeds, or fails and the command ends with it.
Made == /\ at = "making"
        /\ \/ /\ artifact' = IF project.names THEN output ELSE artifact
              /\ unseen' = Escaped
              /\ at' = "check"
              /\ UNCHANGED <<cmd, todo, began, output>>
           \/ BuildStops /\ End
        /\ UNCHANGED <<project, source, compiled, libs, handed>>

\* The artifact has to be there; then `build` is done and `run` goes on, if the
\* machine it was told is one the image can run on.
CheckArtifact ==
    /\ at = "check"
    /\ IF artifact # None /\ cmd.name = "run" /\ (OnEmulator => FamilyFits)
         THEN at' = "deliver" /\ UNCHANGED <<cmd, todo, began, output>>
         ELSE End
    /\ UNCHANGED <<project, source, artifact, objects, libs, handed>>

(***************************************************************************)
(* Handing over.                                                           *)
(***************************************************************************)
\* `monitor` has nothing to hand over but to an emulator, a firmware's image.
Image == IF cmd.name = "upload" /\ cmd.file THEN Foreign
         ELSE IF cmd.name = "monitor" /\ (~OnEmulator \/ project.kind = "program") THEN None
         ELSE artifact

\* The port is opened and the file sent, or the emulator started with it; or
\* that fails.
Deliver == /\ at = "deliver"
           /\ \/ handed' = [by |-> cmd.name, image |-> Image, since |-> began,
                            clean |-> cmd.clean,
                            on |-> IF OnEmulator THEN Machine ELSE "board"]
              \/ handed' = handed
           /\ End
           /\ UNCHANGED <<project, source, artifact, objects, libs>>

Next == \/ Edit \/ Interrupt
        \/ \E c \in Commands : Give(c)
        \/ FindFile \/ ResolveFlags \/ Ready
        \/ Prepare \/ Clean \/ LookForLibraries
        \/ CopyPart \/ PartCopied \/ InstallEnds
        \/ Make \/ Made \/ CheckArtifact
        \/ Deliver

Spec == Init /\ [][Next]_vars

(***************************************************************************)
(* Properties.                                                             *)
(***************************************************************************)
HandedAnImage == handed # None /\ handed.image # None

\* What `run` hands over was brought up to date by that very command, whatever
\* failed, was interrupted or was left lying there by earlier ones: it has every
\* edit made before the command but those that escape make, and with --clean it has
\* those too - when rosco.toml names the file the build writes.
RunHandsOverItsOwn ==
    (HandedAnImage /\ handed.by = "run" /\ project.names)
        => /\ handed.image.own /\ handed.image.source >= handed.since
           /\ handed.clean => \A edit \in handed.image.lacks : edit > handed.since

\* Whatever is handed over, by any command, was compiled and linked against
\* headers and archives copied to their end: an installation that was stopped
\* anywhere is done again before anything is built on it.
LinkedAgainstWhole == HandedAnImage => handed.image.whole

\* A firmware's image never goes down a serial cable, and `run` starts what it
\* built on no machine of another family.
SuitsTheMachine ==
    HandedAnImage =>
        /\ handed.on = "board" => project.kind = "program"
        /\ (handed.by = "run" /\ handed.on # "board") => handed.on = project.board

\* What the comment in `run` says of its flags: a bad one fails before the
\* build, so no build is at work for a machine the command cannot use.  The code
\* does not keep it: the machine's family is looked at behind the build.  It is
\* stated for the README, and no run checks it.
BadFlagsFailFirst ==
    (cmd.name = "run" /\ at \in {"clean", "install", "make", "making"})
        => ~FlagsRefused /\ (OnEmulator => FamilyFits)

=============================================================================
