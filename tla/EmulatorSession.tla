---- MODULE EmulatorSession ----
(***************************************************************************)
(* The emulator sessions of src/emulator.rs, several rosco processes on    *)
(* one computer at a time: start_here and start_in_docker, the wait for    *)
(* the console, the sweep of abandoned containers, and the clean-up of     *)
(* attach and of EmulatorSession's drop.                                   *)
(*                                                                         *)
(* The emulator, the `docker run` client and the Docker daemon are         *)
(* external.  The daemon creates the container some time after the client  *)
(* has asked for it, whatever became of the client in between.             *)
(***************************************************************************)
EXTENDS FiniteSets

CONSTANTS
    Procs,      \* rosco processes, each with one session
    AsRoot,     \* those of them that root runs
    Runners,    \* the runners tried, of "here" and "docker"
    Faults      \* which failures may happen

ASSUME SessionAssumption ==
    /\ IsFiniteSet(Procs) /\ AsRoot \subseteq Procs
    /\ Runners \subseteq {"here", "docker"}
    /\ Faults \subseteq {"rom", "spawn", "rm", "killed"}

VARIABLES
    phase,      \* where each process is
    runner,     \* what runs its emulator
    child,      \* the process it spawned: the emulator, or the docker client
    container,  \* its container, as the daemon sees it
    dialled,    \* its emulator has connected the console
    scratch,    \* its scratch directory exists
    listed,     \* the names its sweep has yet to look at
    aimed,      \* the one it has looked at and is about to remove
    doomed,     \* those listed that nobody owned by then
    stuck,      \* those that docker failed to remove for its sweep
    swept,      \* its container was removed by another process's sweep
    missed      \* its own removal did not find the container, or failed

sweepVars == <<listed, aimed, doomed, stuck, swept>>
vars == <<phase, runner, child, container, dialled, scratch, sweepVars, missed>>

Gone == {"ended", "killed"}
CleanUp == {"remove", "kill", "tidy"}
Phases == {"new", "roms", "spawn", "list", "sweep", "accept", "poll", "deadline", "attached"}
             \union CleanUp \union Gone

Init ==
    /\ phase = [p \in Procs |-> "new"]
    /\ runner \in [Procs -> Runners]
    /\ child = [p \in Procs |-> "none"]
    /\ container = [p \in Procs |-> "none"]
    /\ dialled = [p \in Procs |-> FALSE]
    /\ scratch = [p \in Procs |-> FALSE]
    /\ listed = [p \in Procs |-> {}]
    /\ aimed = [p \in Procs |-> {}]
    /\ doomed = [p \in Procs |-> {}]
    /\ stuck = [p \in Procs |-> {}]
    /\ swept = [p \in Procs |-> FALSE]
    /\ missed = [p \in Procs |-> FALSE]

Goes(p, to) == phase' = [phase EXCEPT ![p] = to]

(***************************************************************************)
(* Starting                                                                *)
(***************************************************************************)

\* The listener is open from here on, and the scratch directory is there.
StartHere(p) ==
    /\ phase[p] = "new" /\ runner[p] = "here"
    /\ scratch' = [scratch EXCEPT ![p] = TRUE]
    /\ Goes(p, "roms")
    /\ UNCHANGED <<runner, child, container, dialled, sweepVars, missed>>

\* A rom_set that fails returns at once and leaves the directory behind.
RomSet(p) ==
    /\ phase[p] = "roms"
    /\ \/ Goes(p, "spawn")
       \/ "rom" \in Faults /\ Goes(p, "ended")
    /\ UNCHANGED <<runner, child, container, dialled, scratch, sweepVars, missed>>

StartInDocker(p) ==
    /\ phase[p] = "new" /\ runner[p] = "docker"
    /\ Goes(p, "list")
    /\ UNCHANGED <<runner, child, container, dialled, scratch, sweepVars, missed>>

\* A slip the runs must catch: a process that may not be asked after is taken to
\* be there.
ProcessExistsAlways(p, q) == TRUE

\* process_exists, of q as p may ask: signal 0 to a process of root's is refused to
\* any other user, and a refusal is taken for its absence.  A process whose session
\* has ended exits.
ProcessExists(p, q) == phase[q] \notin Gone /\ (q \in AsRoot => p \in AsRoot)

\* `docker ps` fails, or names the containers that run.
ListContainers(p) ==
    /\ phase[p] = "list"
    /\ LET running == {q \in Procs : container[q] = "running"}
       IN  \/ /\ listed' = [listed EXCEPT ![p] = running]
              /\ doomed' = [doomed EXCEPT ![p] = {q \in running : phase[q] \in Gone}]
              /\ Goes(p, "sweep")
           \/ "rm" \in Faults /\ Goes(p, "spawn") /\ UNCHANGED <<listed, doomed>>
    /\ UNCHANGED <<runner, child, container, dialled, scratch, aimed, stuck, swept, missed>>

\* The names are looked at one by one; the owner may go in the meantime.
Sweep(p) ==
    /\ phase[p] = "sweep" /\ aimed[p] = {}
    /\ \E q \in listed[p] :
          /\ listed' = [listed EXCEPT ![p] = @ \ {q}]
          /\ aimed' = [aimed EXCEPT ![p] = IF ProcessExists(p, q) THEN {} ELSE {q}]
    /\ UNCHANGED <<phase, runner, child, container, dialled, scratch, doomed, stuck, swept, missed>>

\* `docker rm --force` of a container that may have gone since; when docker fails,
\* nobody is told.
RemoveAbandoned(p) ==
    /\ phase[p] = "sweep"
    /\ \E q \in aimed[p] :
          \/ /\ container[q] = "running"
             /\ container' = [container EXCEPT ![q] = "gone"]
             /\ swept' = [swept EXCEPT ![q] = TRUE]
             /\ UNCHANGED stuck
          \/ /\ container[q] = "running" /\ "rm" \in Faults
             /\ stuck' = [stuck EXCEPT ![p] = @ \union {q}]
             /\ UNCHANGED <<container, swept>>
          \/ /\ container[q] # "running"
             /\ UNCHANGED <<container, stuck, swept>>
    /\ aimed' = [aimed EXCEPT ![p] = {}]
    /\ UNCHANGED <<phase, runner, child, dialled, scratch, listed, doomed, missed>>

Swept(p) ==
    /\ phase[p] = "sweep" /\ listed[p] = {} /\ aimed[p] = {}
    /\ Goes(p, "spawn")
    /\ UNCHANGED <<runner, child, container, dialled, scratch, sweepVars, missed>>

Spawn(p) ==
    /\ phase[p] = "spawn"
    /\ \/ /\ child' = [child EXCEPT ![p] = "up"]
          /\ Goes(p, "accept")
          /\ UNCHANGED scratch
       \/ /\ "spawn" \in Faults
          /\ scratch' = [scratch EXCEPT ![p] = FALSE]
          /\ Goes(p, "ended")
          /\ UNCHANGED child
    /\ UNCHANGED <<runner, container, dialled, sweepVars, missed>>

(***************************************************************************)
(* accept_console: three looks, one after the other, every 20 ms.          *)
(***************************************************************************)
Accept(p) ==
    /\ phase[p] = "accept"
    /\ Goes(p, IF dialled[p] THEN "attached" ELSE "poll")
    /\ UNCHANGED <<runner, child, container, dialled, scratch, sweepVars, missed>>

TryWait(p) ==
    /\ phase[p] = "poll"
    /\ Goes(p, IF child[p] = "exited" THEN "remove" ELSE "deadline")
    /\ UNCHANGED <<runner, child, container, dialled, scratch, sweepVars, missed>>

Sleeps(p) ==
    /\ phase[p] = "deadline"
    /\ Goes(p, "accept")
    /\ UNCHANGED <<runner, child, container, dialled, scratch, sweepVars, missed>>

\* A slip the runs must catch: the wait has no limit.
ExpiresNever(p) == FALSE

Expires(p) ==
    /\ phase[p] = "deadline"
    /\ Goes(p, "remove")
    /\ UNCHANGED <<runner, child, container, dialled, scratch, sweepVars, missed>>

\* The console session returns, or setting it up fails; the session is dropped.
Detach(p) ==
    /\ phase[p] = "attached"
    /\ Goes(p, "remove")
    /\ UNCHANGED <<runner, child, container, dialled, scratch, sweepVars, missed>>

(***************************************************************************)
(* The clean-up, the same in attach and in drop                            *)
(***************************************************************************)

\* A slip the runs must catch: the client goes, and with it the way to the
\* container.
KillFirst(p) ==
    /\ phase[p] = "remove"
    /\ child' = [child EXCEPT ![p] = "exited"]
    /\ Goes(p, "tidy")
    /\ UNCHANGED <<runner, container, dialled, scratch, sweepVars, missed>>

\* `docker rm --force`, of a container there may not be yet.  What docker says to
\* it is not looked at.
RemoveContainer(p) ==
    /\ phase[p] = "remove"
    /\ \/ /\ container[p] = "running"
          /\ container' = [container EXCEPT ![p] = "gone"]
          /\ UNCHANGED missed
       \/ /\ container[p] = "running" /\ "rm" \in Faults
          /\ missed' = [missed EXCEPT ![p] = TRUE]
          /\ UNCHANGED container
       \/ /\ container[p] # "running"
          /\ missed' = [missed EXCEPT ![p] = runner[p] = "docker" /\ container[p] # "gone"]
          /\ UNCHANGED container
    /\ Goes(p, "kill")
    /\ UNCHANGED <<runner, child, dialled, scratch, sweepVars>>

Kill(p) ==
    /\ phase[p] = "kill"
    /\ child' = [child EXCEPT ![p] = "exited"]
    /\ Goes(p, "tidy")
    /\ UNCHANGED <<runner, container, dialled, scratch, sweepVars, missed>>

Tidy(p) ==
    /\ phase[p] = "tidy"
    /\ scratch' = [scratch EXCEPT ![p] = FALSE]
    /\ Goes(p, "ended")
    /\ UNCHANGED <<runner, child, container, dialled, sweepVars, missed>>

Killed(p) ==
    /\ "killed" \in Faults
    /\ phase[p] \notin Gone
    /\ Goes(p, "killed")
    /\ UNCHANGED <<runner, child, container, dialled, scratch, sweepVars, missed>>

(***************************************************************************)
(* The emulator, the docker client and the daemon                          *)
(***************************************************************************)
Docker(p) == runner[p] = "docker"

EmulatorRuns(p) == IF Docker(p) THEN container[p] = "running" ELSE child[p] = "up"

ClientAsks(p) ==
    /\ Docker(p) /\ child[p] = "up" /\ container[p] = "none"
    /\ container' = [container EXCEPT ![p] = "asked"]
    /\ UNCHANGED <<phase, runner, child, dialled, scratch, sweepVars, missed>>

ContainerStarts(p) ==
    /\ container[p] = "asked"
    /\ container' = [container EXCEPT ![p] = "running"]
    /\ UNCHANGED <<phase, runner, child, dialled, scratch, sweepVars, missed>>

\* An emulator that finds nobody listening listens itself, and runs on.
Dials(p) ==
    /\ EmulatorRuns(p) /\ ~dialled[p]
    /\ phase[p] \in {"accept", "poll", "deadline"}
    /\ dialled' = [dialled EXCEPT ![p] = TRUE]
    /\ UNCHANGED <<phase, runner, child, container, scratch, sweepVars, missed>>

EmulatorExits(p) ==
    /\ EmulatorRuns(p)
    /\ IF Docker(p)
       THEN container' = [container EXCEPT ![p] = "gone"] /\ UNCHANGED child
       ELSE child' = [child EXCEPT ![p] = "exited"] /\ UNCHANGED container
    /\ UNCHANGED <<phase, runner, dialled, scratch, sweepVars, missed>>

ClientExits(p) ==
    /\ Docker(p) /\ child[p] = "up" /\ container[p] \in {"none", "gone"}
    /\ child' = [child EXCEPT ![p] = "exited"]
    /\ UNCHANGED <<phase, runner, container, dialled, scratch, sweepVars, missed>>

Step(p) ==
    \/ StartHere(p) \/ RomSet(p) \/ StartInDocker(p) \/ ListContainers(p)
    \/ Sweep(p) \/ RemoveAbandoned(p) \/ Swept(p) \/ Spawn(p)
    \/ Accept(p) \/ TryWait(p) \/ Sleeps(p) \/ Expires(p)
    \/ RemoveContainer(p) \/ Kill(p) \/ Tidy(p)

Outside(p) ==
    \/ ClientAsks(p) \/ ContainerStarts(p) \/ Dials(p)
    \/ EmulatorExits(p) \/ ClientExits(p)

Done == (\A p \in Procs : phase[p] \in Gone) /\ UNCHANGED vars

Next == (\E p \in Procs : Step(p) \/ Detach(p) \/ Killed(p) \/ Outside(p)) \/ Done

Spec == Init /\ [][Next]_vars

(***************************************************************************)
(* Every process runs, and its clock does: a deadline looked at again and  *)
(* again passes in the end.  Neither the user, nor the emulator, nor       *)
(* Docker owes the program anything.                                       *)
(***************************************************************************)
FairSpec ==
    /\ Spec
    /\ \A p \in Procs : WF_vars(Step(p)) /\ SF_vars(Expires(p))

(***************************************************************************)
(* Properties                                                              *)
(***************************************************************************)

\* The type invariant: what a session and its surroundings can be.
TypeOK ==
    /\ phase \in [Procs -> Phases]
    /\ runner \in [Procs -> {"here", "docker"}]
    /\ child \in [Procs -> {"none", "up", "exited"}]
    /\ container \in [Procs -> {"none", "asked", "running", "gone"}]
    /\ dialled \in [Procs -> BOOLEAN] /\ scratch \in [Procs -> BOOLEAN]
    /\ listed \in [Procs -> SUBSET Procs] /\ aimed \in [Procs -> SUBSET Procs]
    /\ doomed \in [Procs -> SUBSET Procs] /\ stuck \in [Procs -> SUBSET Procs]
    /\ swept \in [Procs -> BOOLEAN] /\ missed \in [Procs -> BOOLEAN]

\* What the comments on remove_abandoned_containers and process_exists promise: a
\* sweep takes containers whose process is gone, and leaves running what it cannot
\* ask after.  The code does not keep it among users: a process of root's counts as
\* gone for everybody else.  It is stated for the README, and no run checks it.
SparesLive == \A p \in Procs : swept[p] => phase[p] \in Gone

\* A container whose session was gone when it was listed does not run once the
\* sweep is over, whoever had run it and whoever else sweeps, unless docker failed
\* to remove it: "a name whose process is gone belongs to nobody".
SweepsAbandoned ==
    \A p \in Procs : phase[p] \notin {"new", "roms", "list", "sweep", "killed"} =>
        \A q \in doomed[p] : container[q] = "gone" \/ q \in stuck[p]

\* A session that has ended, by whatever path, leaves no process behind, no
\* scratch directory but that of a failed rom_set, and no container but one
\* that its removal came too early for, or failed to remove.
LeavesNothing ==
    \A p \in Procs : phase[p] = "ended" =>
        /\ child[p] # "up"
        /\ scratch[p] => child[p] = "none" /\ "rom" \in Faults
        /\ container[p] = "running" => missed[p]

\* The wait for the console ends, with a session or with its clean-up.
WaitEnds ==
    \A p \in Procs : phase[p] = "accept" ~> phase[p] \in {"attached"} \union Gone

\* EmulatorSession::drop: "The emulator has no reason to outlive the session".
NothingOutlives ==
    \A p \in Procs : phase[p] = "ended" => child[p] # "up" /\ container[p] # "running"
====
