---- MODULE Installation ----
(***************************************************************************)
(* Finding an emulator, src/install.rs: ready, the menu it falls back to,  *)
(* the three ways to get an emulator, and the saving of the answer through *)
(* Settings.  Processes run `config` commands or one that needs an         *)
(* emulator, side by side and one after another.                           *)
(*                                                                         *)
(* git, make, Docker and the user are external.  A killed `git clone`      *)
(* leaves a tree with .git and not all of its sources, and make fails      *)
(* there; a clone that fails on its own takes what it made away again.     *)
(***************************************************************************)
EXTENDS Settings

CONSTANTS
    Default,    \* the path looked for when nothing names one
    Relative,   \* the paths of Programs that depend on the working directory
    Itself,     \* the path of this CLI, which is no emulator
    Cwds,       \* working directories commands are run in
    Trees       \* what may be at a place to begin with

Image == "image"

ASSUME InstallationAssumption ==
    /\ Default \notin Programs
    /\ {None, Image} \intersect (Programs \union {Default}) = {}
    /\ Itself \in Programs
    /\ Relative \subseteq Programs \ {Itself}
    /\ Trees \subseteq {"none", "other", "part", "source", "built"}

VARIABLES
    cwd,        \* where each command is run
    conf,       \* the settings it loaded
    base,       \* the path it builds an emulator at
    tree,       \* what is at each place: "part", "source" and "built" have a .git
    runner,     \* what ready returned
    stale,      \* another process changed a file since this one began to load
    told        \* the last answer saved, if nothing has changed a file since

vars == <<settingsVars, cwd, conf, base, tree, runner, stale, told>>

NoSettings == [k \in Keys |-> None]

InInstallation == {"load", "ready", "menu", "fetch", "clone", "compile", "pins"}

\* A relative path is another place in each directory.
Place(d, program) == IF program \in Relative THEN <<d, program>> ELSE <<"/", program>>
Places == {Place(d, t) : d \in Cwds, t \in Programs \union {Default}}

Init ==
    /\ SettingsInit
    /\ cwd \in [Procs -> Cwds]
    /\ conf = [p \in Procs |-> NoSettings]
    /\ base = [p \in Procs |-> None]
    /\ tree \in [Places -> Trees]
    /\ tree[Place("/", Itself)] = "built"
    /\ tree[Place("/", Default)] \in {"none", "built"}
    /\ runner = [p \in Procs |-> None]
    /\ stale = [p \in Procs |-> FALSE]
    /\ told = None

FilesKept == UNCHANGED <<file, kept, hurt>>
CommandKept == UNCHANGED <<path, todo, doc>>
HistoryKept == UNCHANGED <<stale, told>>

(***************************************************************************)
(* Loading and resolving                                                   *)
(***************************************************************************)

\* The command that needs an emulator has ended, well or not.
Stops(p) == Goes(p, "ended") /\ conf' = [conf EXCEPT ![p] = NoSettings]

Loads(p, f, to) ==
    IF file[f].form = "garbled" THEN Stops(p)
    ELSE conf' = [conf EXCEPT ![p] = Merge(@, file[f].vals)] /\ Goes(p, to)

\* Layers::load_from reads the user's file and then the project's; one that does
\* not parse ends the command.
LoadGlobal(p) ==
    /\ pc[p] = "new"
    /\ Loads(p, "global", "load")
    /\ FilesKept /\ CommandKept /\ HistoryKept /\ UNCHANGED <<cwd, base, tree, runner>>

LoadProject(p) ==
    /\ pc[p] = "load"
    /\ Loads(p, "project", "ready")
    /\ FilesKept /\ CommandKept /\ HistoryKept /\ UNCHANGED <<cwd, base, tree, runner>>

\* resolve_runner and resolve_program: a given path, then the image if that is
\* the source, then the settings' path, then the default.  ROSCO_EMULATOR, which
\* comes between the last two, is a default like the last.
Resolve(settings, cli) ==
    IF cli # None THEN cli
    ELSE IF settings["source"] = "docker" THEN Image
    ELSE IF settings["program"] # None THEN settings["program"]
    ELSE Default

\* locate, or inside: there is something to run.
Located(d, program) == tree[Place(d, program)] = "built"

Returns(p, r) == runner' = [runner EXCEPT ![p] = r]

\* offer: the menu, or the end where there is no terminal to ask in.
Offer(p) ==
    /\ \/ Goes(p, "menu") /\ UNCHANGED conf
       \/ Stops(p)
    /\ UNCHANGED runner

\* ready: what is there is returned.  What is not is asked about, unless it is
\* this CLI or the command line named it.  Docker answers or does not.
Ready(p) ==
    /\ pc[p] = "ready"
    /\ \E cli \in Programs \union {None} :
          LET r == Resolve(conf[p], cli)
          IN  \/ r = Image /\ Stops(p) /\ Returns(p, Image)
              \/ r = Image /\ Offer(p)
              \/ r = Itself /\ Stops(p) /\ UNCHANGED runner
              \/ /\ r \notin {Image, Itself} /\ Located(cwd[p], r)
                 /\ Stops(p) /\ Returns(p, r)
              \/ /\ r \notin {Image, Itself} /\ ~Located(cwd[p], r)
                 /\ IF cli # None THEN Stops(p) /\ UNCHANGED runner ELSE Offer(p)
    /\ FilesKept /\ CommandKept /\ HistoryKept /\ UNCHANGED <<cwd, base, tree>>

(***************************************************************************)
(* The menu                                                                *)
(***************************************************************************)

Change(k, v) == [key |-> k, value |-> v]

\* A path alone would be read past where the settings send every run to the image.
ProgramSettings(settings, program) ==
    IF settings["source"] = "docker"
    THEN <<Change("program", program), Change("source", "host")>>
    ELSE <<Change("program", program)>>

\* What the menu came to is returned, after it has been saved.
Answers(p, r, changes) ==
    /\ Returns(p, r)
    /\ todo' = [todo EXCEPT ![p] = changes]
    /\ conf' = [conf EXCEPT ![p] = NoSettings]
    /\ Goes(p, "pins")

UseImage(p) ==
    /\ pc[p] = "menu"
    /\ Answers(p, Image, <<Change("source", "docker")>>)
    /\ FilesKept /\ HistoryKept /\ UNCHANGED <<path, doc, cwd, base, tree>>

\* Something to run, named by its path; a bare name became the path it is found at.
UseExisting(p) ==
    /\ pc[p] = "menu"
    /\ \E t \in Programs \ {Itself} :
          /\ Located(cwd[p], t)
          /\ Answers(p, t, ProgramSettings(conf[p], t))
    /\ FilesKept /\ HistoryKept /\ UNCHANGED <<path, doc, cwd, base, tree>>

Cancel(p) ==
    /\ pc[p] = "menu"
    /\ Stops(p)
    /\ FilesKept /\ CommandKept /\ HistoryKept /\ UNCHANGED <<cwd, base, tree, runner>>

\* build_here: the tools are there, and the user says where and goes on.
BuildHere(p) ==
    /\ pc[p] = "menu"
    /\ \E t \in Programs \ {Itself} : base' = [base EXCEPT ![p] = t]
    /\ Goes(p, "fetch")
    /\ FilesKept /\ CommandKept /\ HistoryKept /\ UNCHANGED <<cwd, conf, tree, runner>>

Site(p) == Place(cwd[p], base[p])

Back(p) == Goes(p, "menu") /\ base' = [base EXCEPT ![p] = None]

\* A checkout is used; anything else in its place is refused and left alone.
Fetch(p) ==
    /\ pc[p] = "fetch"
    /\ CASE tree[Site(p)] \in {"part", "source", "built"} -> Goes(p, "compile") /\ UNCHANGED <<tree, base>>
         [] tree[Site(p)] = "other" -> Back(p) /\ UNCHANGED tree
         [] OTHER -> Goes(p, "clone") /\ tree' = [tree EXCEPT ![Site(p)] = "part"] /\ UNCHANGED base
    /\ FilesKept /\ CommandKept /\ HistoryKept /\ UNCHANGED <<cwd, conf, runner>>

Clone(p) ==
    /\ pc[p] = "clone"
    /\ \/ tree' = [tree EXCEPT ![Site(p)] = "source"] /\ Goes(p, "compile") /\ UNCHANGED base
       \/ "clone" \in Faults /\ tree' = [tree EXCEPT ![Site(p)] = "none"] /\ Back(p)
    /\ FilesKept /\ CommandKept /\ HistoryKept /\ UNCHANGED <<cwd, conf, runner>>

\* A slip the runs must catch: neither what make says nor what it left is looked at.
CompileAnyhow(p) ==
    /\ pc[p] = "compile"
    /\ tree' = IF tree[Site(p)] = "source" THEN [tree EXCEPT ![Site(p)] = "built"] ELSE tree
    /\ base' = [base EXCEPT ![p] = None]
    /\ Answers(p, base[p], ProgramSettings(conf[p], base[p]))
    /\ FilesKept /\ HistoryKept /\ UNCHANGED <<path, doc, cwd>>

\* make builds what is there to build, or fails and the menu comes back.
Compile(p) ==
    /\ pc[p] = "compile"
    /\ \/ /\ tree[Site(p)] \in {"source", "built"}
          /\ tree' = [tree EXCEPT ![Site(p)] = "built"]
          /\ base' = [base EXCEPT ![p] = None]
          /\ Answers(p, base[p], ProgramSettings(conf[p], base[p]))
       \/ Back(p) /\ UNCHANGED <<tree, runner, todo, conf>>
    /\ FilesKept /\ HistoryKept /\ UNCHANGED <<path, doc, cwd>>

\* settings::remember chooses the file: the project's if it pins one of the keys.
Remember(p) ==
    /\ pc[p] = "pins"
    /\ LET keys == {todo[p][i].key : i \in DOMAIN todo[p]}
       IN  path' = [path EXCEPT ![p] = IF Pins(file["project"], keys) THEN "project" ELSE "global"]
    /\ Goes(p, "read")
    /\ FilesKept /\ HistoryKept /\ UNCHANGED <<todo, doc, cwd, conf, base, tree, runner>>

Killed(p) ==
    /\ "killed" \in Faults /\ pc[p] \in InInstallation
    /\ Stops(p)
    /\ base' = [base EXCEPT ![p] = None]
    /\ todo' = [todo EXCEPT ![p] = <<>>]
    /\ FilesKept /\ HistoryKept /\ UNCHANGED <<path, doc, cwd, tree, runner>>

(***************************************************************************)
(* Together                                                                *)
(***************************************************************************)

\* The last change of an answer is written, and no file has changed under it.
Saves(p) == Len(todo[p]) = 1 /\ runner[p] # None /\ ~stale[p]

\* A step of Settings, and what the history variables make of it.
InFiles(p) ==
    /\ \/ SettingsStep(p) /\ told' = (IF file' = file THEN told ELSE None)
       \/ Write(p) /\ told' = (IF Saves(p) THEN runner[p] ELSE None)
    /\ stale' = [q \in Procs |->
                    /\ pc'[q] # "ended"
                    /\ stale[q] \/ (q # p /\ file' # file /\ pc[q] # "new")]
    /\ UNCHANGED <<cwd, conf, base, tree, runner>>

Next ==
    \E p \in Procs :
        \/ InFiles(p)
        \/ LoadGlobal(p) \/ LoadProject(p) \/ Ready(p)
        \/ UseImage(p) \/ UseExisting(p) \/ BuildHere(p) \/ Cancel(p)
        \/ Fetch(p) \/ Clone(p) \/ Compile(p)
        \/ Remember(p) \/ Killed(p)

Spec == Init /\ [][Next]_vars

(***************************************************************************)
(* Properties                                                              *)
(***************************************************************************)

Answer == Programs \union {Default, Image, None}

TypeOK ==
    /\ SettingsTypeOK
    /\ pc \in [Procs -> {"new"} \union InSettings \union InInstallation \union {"ended"}]
    /\ cwd \in [Procs -> Cwds]
    /\ conf \in [Procs -> Valuations]
    /\ base \in [Procs -> Programs \union {None}]
    /\ tree \in [Places -> {"none", "other", "part", "source", "built"}]
    /\ runner \in [Procs -> Answer]
    /\ stale \in [Procs -> BOOLEAN]
    /\ told \in Answer

\* The settings as the next command reads them lead to this emulator, in whichever
\* directory that command is run.
LeadTo(r) ==
    /\ Resolve(Merge(file["global"].vals, file["project"].vals), None) = r
    /\ r # Image => \A d \in Cwds : Located(d, r)

\* "Whichever is chosen is saved, so the question is asked once" (README.md:515):
\* from an answer's last write until somebody changes a file, no command asks
\* again.  With inline tables, and with a program named by a relative path, the
\* code asks again: no run checks this, only what AskedOnceOfTables keeps of it.
AskedOnce == told # None => LeadTo(told)

\* The same where the project's emulator section is a table and the answer is no
\* relative path: whichever file remember chose, and whatever the two files held
\* before, the merge comes to the answer.
AskedOnceOfTables ==
    told \notin Relative \union {None} /\ ~file["project"].inline => LeadTo(told)

\* What a command goes on with is there to be run, whichever way it was come by
\* and whatever was cut short before.
RunsWhatIsThere ==
    \A p \in Procs :
        runner[p] \notin {None, Image} => Located(cwd[p], runner[p]) /\ runner[p] # Itself

\* Whatever a command reads, writes or is told stays of its type - a file that
\* does not parse never becomes a setting - and what it runs is there.
InstallationOK == TypeOK /\ RunsWhatIsThere
====
