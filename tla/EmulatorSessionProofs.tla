---- MODULE EmulatorSessionProofs ----
(***************************************************************************)
(* Proofs about EmulatorSession for any number of processes and any set of *)
(* faults: the sweep and the clean-up of src/emulator.rs take what they    *)
(* should and nothing else.                                                *)
(***************************************************************************)
EXTENDS EmulatorSession, TLAPS

(***************************************************************************)
(* The inductive invariant                                                 *)
(***************************************************************************)
Before == {"new", "roms", "list", "sweep", "spawn"}

\* A container takes a docker client that was started, and one that has been
\* created is never wanted again once it is gone.
ContainerOK(p) ==
    /\ (runner[p] = "here" \/ child[p] = "none") => container[p] = "none"
    /\ phase[p] \in Before => child[p] = "none"

\* Nothing can come of a removed container but a miss.
Settled(p) == runner[p] = "here" \/ container[p] = "gone" \/ missed[p]

CleanedUp(p) ==
    /\ phase[p] \in {"kill", "tidy"} => Settled(p)
    /\ phase[p] = "tidy" => child[p] = "exited"
    /\ phase[p] = "ended" =>
        /\ child[p] = "none" \/ (child[p] = "exited" /\ Settled(p))
        /\ scratch[p] => child[p] = "none" /\ "rom" \in Faults

\* The doomed are gone for good, and their containers are too, or docker failed at
\* them, or the sweep has yet to come to them.
DoomedOK(p) ==
    \A q \in doomed[p] :
        /\ phase[q] \in Gone
        /\ \/ container[q] = "gone" \/ q \in stuck[p]
           \/ container[q] = "running" /\ q \in listed[p] \union aimed[p] /\ phase[p] \in {"sweep", "killed"}

\* One name at a time is about to be removed.
AimOK(p) == \A q, o \in aimed[p] : q = o

InOrder(p) == ContainerOK(p) /\ CleanedUp(p) /\ DoomedOK(p) /\ AimOK(p)

IInv == TypeOK /\ \A p \in Procs : InOrder(p)

LEMMA InitIInv == Init => IInv
  <1> SUFFICES ASSUME Init PROVE IInv
    OBVIOUS
  <1>1. TypeOK BY SessionAssumption DEF Init, TypeOK, Phases
  <1>2. ASSUME NEW p \in Procs PROVE InOrder(p)
    BY DEF Init, InOrder, ContainerOK, CleanedUp, DoomedOK, AimOK
  <1> QED BY <1>1, <1>2 DEF IInv

LEMMA TypeStep == TypeOK /\ [Next]_vars => TypeOK'
  <1> SUFFICES ASSUME TypeOK, [Next]_vars PROVE TypeOK'
    OBVIOUS
  <1> USE DEF TypeOK, Phases, CleanUp, Gone, Goes, sweepVars
  <1>1. ASSUME NEW p \in Procs, Step(p) PROVE TypeOK'
    <2>1. CASE StartHere(p) BY <2>1 DEF StartHere
    <2>2. CASE RomSet(p) BY <2>2 DEF RomSet
    <2>3. CASE StartInDocker(p) BY <2>3 DEF StartInDocker
    <2>4. CASE ListContainers(p) BY <2>4 DEF ListContainers
    <2>5. CASE Sweep(p)
      <3>1. PICK q \in listed[p] :
                /\ listed' = [listed EXCEPT ![p] = @ \ {q}]
                /\ aimed' = [aimed EXCEPT ![p] = IF ProcessExists(p, q) THEN {} ELSE {q}]
        BY <2>5 DEF Sweep
      <3>2. q \in Procs BY <3>1
      <3>3. listed' \in [Procs -> SUBSET Procs] BY ONLY <3>1, TypeOK DEF TypeOK
      <3>4. PICK A \in SUBSET Procs : aimed' = [aimed EXCEPT ![p] = A]
        <4>1. (IF ProcessExists(p, q) THEN {} ELSE {q}) \in SUBSET Procs BY <3>2
        <4> QED BY <3>1, <4>1
      <3>5. aimed' \in [Procs -> SUBSET Procs] BY <3>4
      <3> QED BY <2>5, <3>3, <3>5 DEF Sweep
    <2>6. CASE Swept(p) BY <2>6 DEF Swept
    <2>15. CASE RemoveAbandoned(p)
      <3>1. PICK q \in Procs :
                /\ container' \in {container, [container EXCEPT ![q] = "gone"]}
                /\ swept' \in {swept, [swept EXCEPT ![q] = TRUE]}
                /\ stuck' \in {stuck, [stuck EXCEPT ![p] = @ \union {q}]}
        BY <2>15 DEF RemoveAbandoned
      <3>2. container' \in [Procs -> {"none", "asked", "running", "gone"}] BY ONLY <3>1, TypeOK DEF TypeOK
      <3>4. swept' \in [Procs -> BOOLEAN] BY ONLY <3>1, TypeOK DEF TypeOK
      <3>5. stuck' \in [Procs -> SUBSET Procs] BY ONLY <3>1, p \in Procs, TypeOK DEF TypeOK
      <3>3. aimed' \in [Procs -> SUBSET Procs] BY <2>15 DEF RemoveAbandoned
      <3> QED BY <2>15, <3>2, <3>3, <3>4, <3>5 DEF RemoveAbandoned
    <2>7. CASE Spawn(p)
      <3>1. child' \in [Procs -> {"none", "up", "exited"}] BY <2>7 DEF Spawn
      <3>2. scratch' \in [Procs -> BOOLEAN] BY <2>7 DEF Spawn
      <3>3. phase' \in [Procs -> Phases] BY <2>7 DEF Spawn
      <3> QED BY <2>7, <3>1, <3>2, <3>3 DEF Spawn
    <2>8. CASE Accept(p) BY <2>8 DEF Accept
    <2>9. CASE TryWait(p) BY <2>9 DEF TryWait
    <2>10. CASE Sleeps(p) BY <2>10 DEF Sleeps
    <2>11. CASE Expires(p) BY <2>11 DEF Expires
    <2>12. CASE RemoveContainer(p) BY <2>12 DEF RemoveContainer
    <2>13. CASE Kill(p) BY <2>13 DEF Kill
    <2>14. CASE Tidy(p) BY <2>14 DEF Tidy
    <2> QED BY <1>1, <2>1, <2>2, <2>3, <2>4, <2>5, <2>6, <2>7, <2>8, <2>9, <2>10, <2>11,
               <2>12, <2>13, <2>14, <2>15 DEF Step
  <1>2. ASSUME NEW p \in Procs, Outside(p) PROVE TypeOK'
    <2>1. CASE ClientAsks(p) BY <2>1 DEF ClientAsks
    <2>2. CASE ContainerStarts(p) BY <2>2 DEF ContainerStarts
    <2>3. CASE Dials(p) BY <2>3 DEF Dials
    <2>4. CASE EmulatorExits(p) BY <2>4 DEF EmulatorExits
    <2>5. CASE ClientExits(p) BY <2>5 DEF ClientExits
    <2> QED BY <1>2, <2>1, <2>2, <2>3, <2>4, <2>5 DEF Outside
  <1>3. ASSUME NEW p \in Procs, Detach(p) PROVE TypeOK' BY <1>3 DEF Detach
  <1>4. ASSUME NEW p \in Procs, Killed(p) PROVE TypeOK' BY <1>4 DEF Killed
  <1>5. CASE UNCHANGED vars BY <1>5 DEF vars, sweepVars
  <1> QED BY <1>1, <1>2, <1>3, <1>4, <1>5 DEF Next, Done

\* A step of process p's session leaves every process in order.
LEMMA SessionStep ==
    ASSUME IInv, NEW p \in Procs, Step(p) \/ Detach(p) \/ Killed(p), NEW r \in Procs
    PROVE  InOrder(r)'
  <1> USE DEF IInv, TypeOK, InOrder, ContainerOK, CleanedUp, DoomedOK, AimOK, Settled, Before, Gone, Goes, sweepVars
  <1>1. CASE StartHere(p) BY <1>1 DEF StartHere
  <1>2. CASE RomSet(p) BY <1>2 DEF RomSet
  <1>3. CASE StartInDocker(p) BY <1>3 DEF StartInDocker
  <1>4. CASE ListContainers(p) BY <1>4 DEF ListContainers
  <1>5. CASE Sweep(p)
    <2>1. PICK q \in listed[p] :
              /\ listed' = [listed EXCEPT ![p] = @ \ {q}]
              /\ aimed' = [aimed EXCEPT ![p] = IF ProcessExists(p, q) THEN {} ELSE {q}]
      BY <1>5 DEF Sweep
    <2>2. ContainerOK(r)' /\ CleanedUp(r)' BY <1>5 DEF Sweep
    <2>4. AimOK(r)' BY <2>1
    <2>3. DoomedOK(r)'
      <3>1. CASE r # p BY <1>5, <2>1, <3>1 DEF Sweep
      <3>2. CASE r = p
        <4>1. aimed[p] = {} /\ phase[p] = "sweep" /\ doomed' = doomed /\ stuck' = stuck
              /\ container' = container /\ phase' = phase
          BY <1>5 DEF Sweep
        <4>2. listed'[p] = listed[p] \ {q} BY <2>1
        <4>3. phase[q] \in Gone => aimed'[p] = {q} BY <2>1 DEF ProcessExists
        <4>4. ASSUME NEW o \in doomed[p] PROVE
                 \/ container[o] = "gone" \/ o \in stuck[p]
                 \/ container[o] = "running" /\ o \in listed'[p] \union aimed'[p]
          <5>1. o # q /\ o \in listed[p] => o \in listed'[p] BY <4>2
          <5>2. o = q => o \in aimed'[p] BY <4>3, <4>4
          <5> QED BY <4>1, <4>4, <5>1, <5>2
        <4> QED BY <3>2, <4>1, <4>4
      <3> QED BY <3>1, <3>2
    <2> QED BY <2>2, <2>3, <2>4
  <1>6. CASE Swept(p) BY <1>6 DEF Swept
  <1>7. CASE Spawn(p) BY <1>7 DEF Spawn
  <1>8. CASE Accept(p) BY <1>8 DEF Accept
  <1>9. CASE TryWait(p) BY <1>9 DEF TryWait
  <1>10. CASE Sleeps(p) BY <1>10 DEF Sleeps
  <1>11. CASE Expires(p) BY <1>11 DEF Expires
  <1>12. CASE RemoveContainer(p)
    <2>1. ContainerOK(r)' BY <1>12 DEF RemoveContainer
    <2>2. CleanedUp(r)'
      <3>1. Settled(p)'
        <4>1. CASE container'[p] = "gone" BY <4>1
        <4>2. CASE container'[p] # "gone" /\ container[p] = "running"
          BY <1>12, <4>2 DEF RemoveContainer
        <4>3. CASE container[p] # "running" /\ runner[p] = "docker" /\ container[p] # "gone"
          <5>1. missed' = [missed EXCEPT ![p] = TRUE] BY <1>12, <4>3 DEF RemoveContainer
          <5> QED BY <5>1
        <4>4. CASE container[p] # "running" /\ container[p] = "gone"
          BY <1>12, <4>4 DEF RemoveContainer
        <4> QED BY <1>12, <4>1, <4>2, <4>3, <4>4 DEF RemoveContainer
      <3>2. CASE r = p BY <1>12, <3>1, <3>2 DEF RemoveContainer
      <3>3. CASE r # p
        <4>1. phase'[r] = phase[r] /\ child'[r] = child[r] /\ scratch'[r] = scratch[r]
              /\ runner'[r] = runner[r] /\ container'[r] = container[r] /\ missed'[r] = missed[r]
          BY <1>12, <3>3 DEF RemoveContainer
        <4> QED BY <4>1
      <3> QED BY <3>2, <3>3
    <2>3. DoomedOK(r)' /\ AimOK(r)' BY <1>12 DEF RemoveContainer
    <2> QED BY <2>1, <2>2, <2>3
  <1>13. CASE Kill(p) BY <1>13 DEF Kill
  <1>14. CASE Tidy(p) BY <1>14 DEF Tidy
  <1>15. CASE Detach(p) BY <1>15 DEF Detach
  <1>16. CASE Killed(p) BY <1>16 DEF Killed
  <1>17. CASE RemoveAbandoned(p)
    <2>1. PICK q \in aimed[p] :
              \/ container' = [container EXCEPT ![q] = "gone"] /\ container[q] = "running" /\ stuck' = stuck
              \/ container' = container /\ container[q] = "running" /\ stuck' = [stuck EXCEPT ![p] = @ \union {q}]
              \/ container' = container /\ container[q] # "running" /\ stuck' = stuck
      BY <1>17 DEF RemoveAbandoned
    <2>2. q \in Procs /\ aimed' = [aimed EXCEPT ![p] = {}]
          /\ UNCHANGED <<phase, runner, child, dialled, scratch, listed, doomed, missed>>
      BY <1>17, <2>1 DEF RemoveAbandoned
    <2>3. \A o \in Procs : container'[o] = container[o] \/ (container'[o] = "gone" /\ container[o] = "running")
      BY <2>1, <2>2
    <2>4. ContainerOK(r)' /\ CleanedUp(r)' BY <2>2, <2>3
    <2>5. DoomedOK(r)'
      <3>1. ASSUME NEW o \in doomed[r]
            PROVE  \/ container'[o] = "gone" \/ o \in stuck'[r]
                   \/ container'[o] = "running" /\ o \in listed'[r] \union aimed'[r]
                        /\ phase'[r] \in {"sweep", "killed"}
        <4>1. o \in Procs BY <3>1
        <4>2. CASE o \in aimed[p] /\ r = p
          <5>1. o = q BY <2>1, <4>2
          <5> QED BY <2>1, <3>1, <4>1, <4>2, <5>1
        <4>3. CASE ~(o \in aimed[p] /\ r = p)
          <5>1. o \in stuck[r] => o \in stuck'[r] BY <2>1, <2>2
          <5>2. o \in listed[r] \union aimed[r] => o \in listed'[r] \union aimed'[r]
            BY <2>2, <4>3
          <5> QED BY <2>2, <2>3, <3>1, <4>1, <5>1, <5>2
        <4> QED BY <4>2, <4>3
      <3> QED BY <2>2, <3>1
    <2>6. AimOK(r)' BY <2>2
    <2> QED BY <2>4, <2>5, <2>6
  <1> QED BY <1>1, <1>2, <1>3, <1>4, <1>5, <1>6, <1>7, <1>8, <1>9, <1>10, <1>11, <1>12, <1>13, <1>14, <1>15, <1>16, <1>17 DEF Step

\* And so does a step of its emulator, of the docker client or of the daemon.
LEMMA OutsideStep ==
    ASSUME IInv, NEW p \in Procs, Outside(p), NEW r \in Procs PROVE InOrder(r)'
  <1> USE DEF IInv, TypeOK, InOrder, ContainerOK, CleanedUp, DoomedOK, AimOK, Settled, Before, Gone, Goes, sweepVars
  <1>1. CASE ClientAsks(p) BY <1>1 DEF ClientAsks, Docker
  <1>2. CASE ContainerStarts(p) BY <1>2 DEF ContainerStarts
  <1>3. CASE Dials(p) BY <1>3 DEF Dials
  <1>4. CASE EmulatorExits(p) BY <1>4 DEF EmulatorExits, Docker, EmulatorRuns
  <1>5. CASE ClientExits(p) BY <1>5 DEF ClientExits, Docker
  <1> QED BY <1>1, <1>2, <1>3, <1>4, <1>5 DEF Outside

LEMMA NextIInv == IInv /\ [Next]_vars => IInv'
  <1> SUFFICES ASSUME IInv, [Next]_vars PROVE IInv'
    OBVIOUS
  <1>1. TypeOK' BY TypeStep DEF IInv
  <1>2. ASSUME NEW r \in Procs PROVE InOrder(r)'
    <2>1. CASE UNCHANGED vars
      BY <2>1 DEF vars, sweepVars, IInv, InOrder, ContainerOK, CleanedUp, DoomedOK, AimOK, Settled
    <2>2. CASE \E p \in Procs : Step(p) \/ Detach(p) \/ Killed(p)
      BY <2>2, SessionStep
    <2>3. CASE \E p \in Procs : Outside(p)
      BY <2>3, OutsideStep
    <2> QED BY <2>1, <2>2, <2>3 DEF Next, Done
  <1> QED BY <1>1, <1>2 DEF IInv

LEMMA Inductive == Spec => []IInv
  BY InitIInv, NextIInv, PTL DEF Spec

(***************************************************************************)
(* The theorems                                                            *)
(***************************************************************************)

\* When a session goes on from its sweep, no container it found abandoned runs but
\* one that docker failed to remove: its look at each owner, which may be another
\* sweep's business at the same moment, passes over none (emulator.rs:492-501).
THEOREM SweepTakesAbandoned == Spec => []SweepsAbandoned
  <1>1. IInv => SweepsAbandoned
    BY DEF IInv, TypeOK, InOrder, DoomedOK, SweepsAbandoned, Gone
  <1> QED BY <1>1, Inductive, PTL

\* On every path to its end a session kills what it spawned and removes what
\* it can: the clean-up of attach and of drop misses none of the early returns.
THEOREM EndsClean == Spec => []LeavesNothing
  <1>1. IInv => LeavesNothing
    BY DEF IInv, TypeOK, InOrder, ContainerOK, CleanedUp, Settled, LeavesNothing
  <1> QED BY <1>1, Inductive, PTL

====
