--------------------------- MODULE CageLifecycleProofs ---------------------------
(***************************************************************************)
(* What holds of a cage for every number of commands and of passt          *)
(* processes, and for every set of faults.                                 *)
(***************************************************************************)
EXTENDS CageLifecycle, TLAPS

ProcSpace == [Procs -> Process]
Iso == PasstIds \cup {NoPasst}

\* What the commands write to state.json is a State, or is torn.
LEMMA FileTypes ==
    /\ NoFile \in StateFile /\ TornFile \in StateFile
    /\ \A m \in Modes \cup {"unset"} : NewFile(m) \in StateFile
    /\ \A f \in StateFile :
          /\ \A s \in {"stopped", "running"} :
                /\ [f EXCEPT !.status = s] \in StateFile
                /\ \A i \in Iso : [f EXCEPT !.status = s, !.iso = i] \in StateFile
          /\ f.iso \in Iso /\ f.mode \in Modes \cup {"unset"}
BY DEF StateFile, NoFile, TornFile, NewFile, Modes, Iso

\* What libvirt makes of a domain is a domain.
LEMMA DomainTypes ==
    /\ NoDomain \in Domain
    /\ \A n \in {"slirp", "passt"}, b \in BOOLEAN : Defined(n, b) \in Domain
    /\ \A d \in Domain :
          /\ Halted(d) \in Domain
          /\ Undefined(d) \in Domain
          /\ [d EXCEPT !.active = TRUE] \in Domain
BY DEF Domain, NoDomain, Defined, Halted, Undefined

\* A command starts with a step.
LEMMA FirstSteps ==
    \A cmd \in {"start", "stop", "restart", "remove"} : FirstStep[cmd] \in Steps
BY DEF FirstStep, Steps, StartSteps, StopSteps, RemoveSteps

\* The steps that are gone to by name.
LEMMA NamedSteps ==
    {"idle", "mkdisk", "genkeys", "define", "save_new", "rc_load", "rc_probe", "rc_undefine",
     "rc_define", "load", "active", "fix_running", "fix_stopped", "isolate", "iso_probe",
     "iso_undefine", "iso_define", "unisolate", "boot", "save_running", "stop_check",
     "stop_vm", "stop_wait", "stop_iso", "save_stopped", "rm_destroy", "rm_undefine",
     "rm_keys", "undo_keys", "delete"} \subseteq Steps
BY DEF Steps, StartSteps, StopSteps, RemoveSteps, DeleteSteps

\* A command's own record, and the ways in which its steps change it.
LEMMA ProcChanges ==
    ASSUME proc \in ProcSpace, NEW p \in Procs
    PROVE  /\ proc[p] \in Process
           /\ proc[p].mode \in Modes /\ proc[p].seen \in StateFile /\ proc[p].mine \in Iso
           /\ proc[p].uris \subseteq Modes /\ proc[p].todo \subseteq Artifacts
           /\ \A c \in Process : Become(p, c) => proc' \in ProcSpace
           /\ Finish(p) => proc' \in ProcSpace
           /\ \A step \in Steps :
                 (Goto(p, step) \/ Rollback(p, step)) => proc' \in ProcSpace
<1>1. /\ proc[p] \in Process
      /\ proc[p].mode \in Modes /\ proc[p].seen \in StateFile /\ proc[p].mine \in Iso
      /\ proc[p].uris \subseteq Modes /\ proc[p].todo \subseteq Artifacts
  BY DEF ProcSpace, Process, Iso
<1>2. \A c \in Process : Become(p, c) => proc' \in ProcSpace
  BY DEF Become, ProcSpace
<1>3. Idle \in Process
  BY FileTypes DEF Idle, Process, Steps, Modes, Iso
<1>4. ASSUME NEW step \in Steps PROVE [proc[p] EXCEPT !.pc = step] \in Process
  BY <1>1 DEF Process
<1>5. ASSUME NEW step \in Steps
      PROVE  [proc[p] EXCEPT !.pc = step, !.todo = ArtifactsOf(proc[p].mode)] \in Process
  <2>1. ArtifactsOf(proc[p].mode) \in SUBSET Artifacts
    BY DEF ArtifactsOf, Artifacts
  <2> QED
    BY <1>1, <2>1 DEF Process
<1> QED
  BY <1>1, <1>2, <1>3, <1>4, <1>5 DEF Finish, Goto, Rollback

\* The steps that change more of the command's record than where it is.
LEMMA Records ==
    ASSUME NEW c \in Process, NEW step \in Steps, NEW f \in StateFile, NEW i \in Iso,
           NEW us \in SUBSET Modes, NEW a
    PROVE  /\ [c EXCEPT !.pc = step, !.seen = f] \in Process
           /\ [c EXCEPT !.pc = step, !.mine = i] \in Process
           /\ [c EXCEPT !.pc = step, !.uris = us] \in Process
           /\ [c EXCEPT !.pc = step, !.seen = f, !.uris = us] \in Process
           /\ [c EXCEPT !.todo = @ \ {a}] \in Process
BY DEF Process, Iso

\* TypeOK, in the words of the lemmas above.
LEMMA TypeSpaces ==
    TypeOK <=> /\ file \in StateFile
               /\ dom \in [Modes -> Domain]
               /\ snaps \subseteq Modes
               /\ disk \in [Modes -> {"none", "fresh", "data"}]
               /\ keys \in BOOLEAN
               /\ passt \subseteq PasstIds
               /\ sock \in Iso
               /\ proc \in ProcSpace
               /\ condemned \in BOOLEAN
BY DEF TypeOK, ProcSpace, Iso

\* Giving up a redefinition ends the command or undoes the isolation.
LEMMA GivenUp ==
    ASSUME TypeOK, NEW p \in Procs, GiveUp(p)
    PROVE  proc' \in ProcSpace
BY TypeSpaces, ProcChanges, NamedSteps DEF GiveUp

\* A mode's domain or disk may be replaced by another one.
LEMMA Replacements ==
    ASSUME TypeOK, NEW m \in Modes
    PROVE  /\ dom[m] \in Domain
           /\ \A d \in Domain : SetDomain(m, d) => dom' \in [Modes -> Domain]
           /\ \A c \in {"none", "fresh", "data"} :
                 [disk EXCEPT ![m] = c] \in [Modes -> {"none", "fresh", "data"}]
BY DEF TypeOK, SetDomain

\* A save that fails leaves a State or a torn file.
LEMMA FailedSave == TypeOK /\ SaveFails => file' \in StateFile
BY FileTypes DEF TypeOK, SaveFails

\* What the steps that only read, and those that only move on, leave behind.
LEMMA OnlyMoved ==
    ASSUME TypeOK, proc' \in ProcSpace, UNCHANGED <<file, hostVars, condemned>>
    PROVE  TypeOK'
BY DEF TypeOK, ProcSpace, hostVars

LEMMA OnlySaved ==
    ASSUME TypeOK, proc' \in ProcSpace, file' \in StateFile, UNCHANGED <<hostVars, condemned>>
    PROVE  TypeOK'
BY DEF TypeOK, ProcSpace, hostVars

LEMMA DomainChanged ==
    ASSUME TypeOK, proc' \in ProcSpace, dom' \in [Modes -> Domain], snaps' \subseteq Modes,
           UNCHANGED <<file, disk, keys, passt, sock, condemned>>
    PROVE  TypeOK'
BY DEF TypeOK, ProcSpace

LEMMA NetworkChanged ==
    ASSUME TypeOK, proc' \in ProcSpace, passt' \subseteq PasstIds, sock' \in Iso,
           UNCHANGED <<file, dom, snaps, disk, keys, condemned>>
    PROVE  TypeOK'
BY DEF TypeOK, ProcSpace, Iso

\* cage start keeps the types.
LEMMA StartTypes ==
    ASSUME TypeOK, NEW p \in Procs, StartStep(p)
    PROVE  TypeOK'
<1>a. /\ proc \in ProcSpace /\ file \in StateFile /\ proc[p] \in Process
      /\ proc[p].mode \in Modes /\ proc[p].seen \in StateFile /\ proc[p].mine \in Iso
  BY TypeSpaces, ProcChanges
<1>b. ASSUME NEW step \in Steps, Goto(p, step) \/ Rollback(p, step) PROVE proc' \in ProcSpace
  BY <1>a, <1>b, ProcChanges
<1>c. Finish(p) => proc' \in ProcSpace
  BY <1>a, ProcChanges
<1>d. \A step \in Steps, f \in StateFile :
         Become(p, [proc[p] EXCEPT !.pc = step, !.seen = f]) => proc' \in ProcSpace
  BY <1>a, ProcChanges, Records DEF Iso
<1>1. CASE StartCheck(p)
  <2>1. proc' \in ProcSpace
    BY <1>1, <1>b, <1>c, NamedSteps DEF StartCheck
  <2> QED
    BY <1>1, <2>1, OnlyMoved DEF StartCheck
<1>2. CASE CreateDisk(p)
  <2>1. proc' \in ProcSpace
    BY <1>2, <1>b, NamedSteps DEF CreateDisk
  <2>2. disk' \in [Modes -> {"none", "fresh", "data"}]
    BY <1>2, <1>a, Replacements, TypeSpaces DEF CreateDisk
  <2> QED
    BY <1>2, <2>1, <2>2 DEF CreateDisk, TypeOK, ProcSpace
<1>3. CASE GenerateKeys(p)
  <2>1. proc' \in ProcSpace
    BY <1>3, <1>b, NamedSteps DEF GenerateKeys
  <2> QED
    BY <1>3, <2>1 DEF GenerateKeys, TypeOK, ProcSpace
<1>4. CASE DefineNew(p)
  <2>1. proc' \in ProcSpace
    BY <1>4, <1>b, NamedSteps DEF DefineNew
  <2>2. EnvInjected \in BOOLEAN
    BY LifecycleAssumption
  <2>3. dom' \in [Modes -> Domain] /\ snaps' \subseteq Modes
    BY <1>4, <1>a, <2>2, Replacements, DomainTypes, TypeSpaces DEF DefineNew
  <2> QED
    BY <1>4, <2>1, <2>3, DomainChanged DEF DefineNew
<1>5. CASE SaveNew(p)
  <2>1. proc' \in ProcSpace
    BY <1>5, <1>b, <1>c, NamedSteps DEF SaveNew
  <2>2. file' \in StateFile
    BY <1>5, <1>a, FileTypes, FailedSave DEF SaveNew
  <2>3. condemned' \in BOOLEAN
    BY <1>5 DEF SaveNew, TypeOK
  <2> QED
    BY <1>5, <2>1, <2>2, <2>3 DEF SaveNew, TypeOK, ProcSpace, hostVars
<1>6. ASSUME NEW here, NEW next \in Steps, RedefineProbe(p, here, next) PROVE TypeOK'
  <2>1. proc' \in ProcSpace
    BY <1>6, <1>b, GivenUp DEF RedefineProbe
  <2> QED
    BY <1>6, <2>1, OnlyMoved DEF RedefineProbe
<1>7. ASSUME NEW here, NEW next \in Steps, RedefineUndefine(p, here, next) PROVE TypeOK'
  <2>1. proc' \in ProcSpace
    BY <1>7, <1>b, GivenUp DEF RedefineUndefine
  <2>2. dom' \in [Modes -> Domain]
    BY <1>7, <1>a, Replacements, DomainTypes, TypeSpaces DEF RedefineUndefine
  <2>3. snaps' \subseteq Modes
    BY <1>7, TypeSpaces DEF RedefineUndefine
  <2> QED
    BY <1>7, <2>1, <2>2, <2>3, DomainChanged DEF RedefineUndefine
<1>8. ASSUME NEW here, NEW next \in Steps, NEW net \in {"slirp", "passt"},
             RedefineDefine(p, here, next, net)
      PROVE  TypeOK'
  <2>1. proc' \in ProcSpace
    BY <1>8, <1>b, GivenUp DEF RedefineDefine
  <2>2. dom' \in [Modes -> Domain] /\ snaps' \subseteq Modes
    BY <1>8, <1>a, Replacements, DomainTypes, TypeSpaces DEF RedefineDefine
  <2> QED
    BY <1>8, <2>1, <2>2, DomainChanged DEF RedefineDefine
<1>9. CASE Reconfigure(p)
  <2>1. CASE ReconfigureLoad(p)
    <3>1. proc' \in ProcSpace
      BY <2>1, <1>b, <1>c, NamedSteps DEF ReconfigureLoad
    <3> QED
      BY <2>1, <3>1, OnlyMoved DEF ReconfigureLoad
  <2> QED
    BY <1>6, <1>7, <1>8, <1>9, <2>1, NamedSteps DEF Reconfigure
<1>10. CASE IsolatedRedefine(p)
  BY <1>6, <1>7, <1>8, <1>10, NamedSteps DEF IsolatedRedefine
<1>11. CASE Load(p)
  <2>1. proc' \in ProcSpace
    BY <1>11, <1>a, <1>c, <1>d, NamedSteps DEF Load
  <2> QED
    BY <1>11, <2>1, OnlyMoved DEF Load
<1>12. AfterActive(proc[p].mode) \in Steps
  BY NamedSteps DEF AfterActive
<1>13. CASE CheckActive(p)
  <2>1. proc' \in ProcSpace
    BY <1>13, <1>b, <1>c, <1>12, NamedSteps DEF CheckActive
  <2> QED
    BY <1>13, <2>1, OnlyMoved DEF CheckActive
<1>14. CASE FixRunning(p)
  <2>1. file' \in StateFile
    BY <1>14, <1>a, FileTypes, FailedSave DEF FixRunning
  <2> QED
    BY <1>14, <1>c, <2>1, OnlySaved DEF FixRunning
<1>15. CASE FixStopped(p)
  <2>1. [proc[p].seen EXCEPT !.status = "stopped"] \in StateFile
    BY <1>a, FileTypes
  <2>2. proc' \in ProcSpace
    BY <1>15, <1>d, <1>12, <2>1 DEF FixStopped
  <2>3. file' \in StateFile
    BY <1>15, <2>1, FailedSave DEF FixStopped
  <2> QED
    BY <1>15, <2>2, <2>3, OnlySaved DEF FixStopped
<1>16. CASE Isolate(p)
  <2>1. \A i \in PasstIds :
           Become(p, [proc[p] EXCEPT !.pc = "iso_probe", !.mine = i]) => proc' \in ProcSpace
    BY <1>a, ProcChanges, Records, NamedSteps DEF Iso
  <2>2. proc' \in ProcSpace
    BY <1>16, <1>b, <2>1, NamedSteps DEF Isolate
  <2>3. passt' \subseteq PasstIds /\ sock' \in Iso
    BY <1>16, TypeSpaces DEF Isolate, Iso
  <2> QED
    BY <1>16, <2>2, <2>3, NetworkChanged DEF Isolate
<1>17. CASE Unisolate(p)
  <2>1. passt' \subseteq PasstIds /\ sock' \in Iso
    BY <1>17, TypeSpaces DEF Unisolate, Cleanup, Iso
  <2> QED
    BY <1>17, <1>c, <2>1, NetworkChanged DEF Unisolate
<1>18. CASE Boot(p)
  <2>1. proc' \in ProcSpace
    BY <1>18, <1>b, <1>c, NamedSteps DEF Boot
  <2>2. /\ dom' \in [Modes -> Domain]
        /\ disk' \in [Modes -> {"none", "fresh", "data"}]
    BY <1>18, <1>a, Replacements, DomainTypes, TypeSpaces DEF Boot
  <2> QED
    BY <1>18, <2>1, <2>2 DEF Boot, TypeOK, ProcSpace
<1>19. CASE SaveRunning(p)
  <2> DEFINE iso == IF proc[p].mine = NoPasst THEN proc[p].seen.iso ELSE proc[p].mine
  <2>1. iso \in Iso
    BY <1>a, FileTypes
  <2>2. [proc[p].seen EXCEPT !.status = "running", !.iso = iso] \in StateFile
    BY <1>a, <2>1, FileTypes
  <2>3. file' \in StateFile
    BY <1>19, <2>2, FailedSave DEF SaveRunning
  <2> QED
    BY <1>19, <1>c, <2>3, OnlySaved DEF SaveRunning
<1> QED
  BY <1>1, <1>2, <1>3, <1>4, <1>5, <1>9, <1>10, <1>11, <1>13, <1>14, <1>15, <1>16, <1>17,
     <1>18, <1>19 DEF StartStep

\* cage stop and cage restart keep the types.
LEMMA StopTypes ==
    ASSUME TypeOK, NEW p \in Procs, StopStep(p)
    PROVE  TypeOK'
<1>a. /\ proc \in ProcSpace /\ file \in StateFile /\ proc[p] \in Process
      /\ proc[p].mode \in Modes /\ proc[p].seen \in StateFile
  BY TypeSpaces, ProcChanges
<1>b. ASSUME NEW step \in Steps, Goto(p, step) PROVE proc' \in ProcSpace
  BY <1>a, <1>b, ProcChanges
<1>c. Finish(p) => proc' \in ProcSpace
  BY <1>a, ProcChanges
<1>d. \A step \in Steps, f \in StateFile :
         Become(p, [proc[p] EXCEPT !.pc = step, !.seen = f]) => proc' \in ProcSpace
  BY <1>a, ProcChanges, Records DEF Iso
<1>1. CASE RestartCheck(p)
  <2>1. proc' \in ProcSpace
    BY <1>1, <1>b, <1>c, NamedSteps DEF RestartCheck
  <2> QED
    BY <1>1, <2>1, OnlyMoved DEF RestartCheck
<1>2. CASE StopCheck(p)
  <2>1. proc' \in ProcSpace
    BY <1>2, <1>a, <1>c, <1>d, NamedSteps DEF StopCheck
  <2> QED
    BY <1>2, <2>1, OnlyMoved DEF StopCheck
<1>3. CASE StopVM(p)
  <2>1. proc' \in ProcSpace
    BY <1>3, <1>b, NamedSteps DEF StopVM
  <2>2. dom' \in [Modes -> Domain] /\ snaps' \subseteq Modes
    BY <1>3, <1>a, Replacements, DomainTypes, TypeSpaces DEF StopVM
  <2> QED
    BY <1>3, <2>1, <2>2, DomainChanged DEF StopVM
<1>4. CASE StopWait(p)
  <2>1. proc' \in ProcSpace
    BY <1>4, <1>b, NamedSteps DEF StopWait
  <2> QED
    BY <1>4, <2>1, OnlyMoved DEF StopWait
<1>5. CASE StopIsolation(p)
  <2>1. proc' \in ProcSpace
    BY <1>5, <1>b, NamedSteps DEF StopIsolation
  <2>2. passt' \subseteq PasstIds /\ sock' \in Iso
    BY <1>5, TypeSpaces DEF StopIsolation, Cleanup, Iso
  <2> QED
    BY <1>5, <2>1, <2>2, NetworkChanged DEF StopIsolation
<1>6. CASE SaveStopped(p)
  <2>1. proc' \in ProcSpace
    BY <1>6, <1>c, <1>d, FileTypes, NamedSteps DEF SaveStopped
  <2>2. [proc[p].seen EXCEPT !.status = "stopped", !.iso = NoPasst] \in StateFile
    BY <1>a, FileTypes DEF Iso
  <2>3. file' \in StateFile
    BY <1>6, <2>2, FailedSave DEF SaveStopped
  <2> QED
    BY <1>6, <2>1, <2>3, OnlySaved DEF SaveStopped
<1> QED
  BY <1>1, <1>2, <1>3, <1>4, <1>5, <1>6 DEF StopStep

\* cage remove keeps the types.
LEMMA RemoveTypes ==
    ASSUME TypeOK, NEW p \in Procs, RemoveStep(p)
    PROVE  TypeOK'
<1>a. /\ proc \in ProcSpace /\ file \in StateFile /\ proc[p] \in Process
      /\ proc[p].mode \in Modes /\ proc[p].uris \subseteq Modes
  BY TypeSpaces, ProcChanges
<1>b. ASSUME NEW step \in Steps, Goto(p, step) \/ Rollback(p, step) PROVE proc' \in ProcSpace
  BY <1>a, <1>b, ProcChanges
<1>c. Finish(p) => proc' \in ProcSpace
  BY <1>a, ProcChanges
<1>d. CurrentUri(p) \in Modes
  BY <1>a DEF CurrentUri, Other, Modes
<1>1. CASE RemoveCheck(p)
  <2>1. (IF proc[p].force THEN Modes ELSE {proc[p].mode}) \in SUBSET Modes
    BY <1>a
  <2>2. \A us \in SUBSET Modes :
           Become(p, [proc[p] EXCEPT !.pc = "rm_destroy", !.seen = file, !.uris = us])
              => proc' \in ProcSpace
    BY <1>a, ProcChanges, Records, NamedSteps DEF Iso
  <2>3. proc' \in ProcSpace
    BY <1>1, <1>c, <2>1, <2>2 DEF RemoveCheck
  <2>4. condemned' \in BOOLEAN
    BY <1>1 DEF RemoveCheck, TypeOK
  <2> QED
    BY <1>1, <2>3, <2>4 DEF RemoveCheck, TypeOK, ProcSpace, hostVars
<1>2. CASE RemoveDestroy(p)
  <2>1. proc' \in ProcSpace
    BY <1>2, <1>b, NamedSteps DEF RemoveDestroy
  <2>2. dom' \in [Modes -> Domain] /\ snaps' \subseteq Modes
    BY <1>2, <1>d, Replacements, DomainTypes, TypeSpaces DEF RemoveDestroy
  <2> QED
    BY <1>2, <2>1, <2>2, DomainChanged DEF RemoveDestroy
<1>3. CASE RemoveUndefine(p)
  <2>1. \A step \in Steps, us \in SUBSET Modes :
           Become(p, [proc[p] EXCEPT !.pc = step, !.uris = us]) => proc' \in ProcSpace
    BY <1>a, ProcChanges, Records DEF Iso
  <2>2. proc[p].uris \ {CurrentUri(p)} \in SUBSET Modes
    BY <1>a
  <2>3. proc' \in ProcSpace
    BY <1>3, <2>1, <2>2, NamedSteps DEF RemoveUndefine
  <2>4. dom' \in [Modes -> Domain] /\ snaps' \subseteq Modes
    BY <1>3, <1>d, Replacements, DomainTypes, TypeSpaces DEF RemoveUndefine
  <2> QED
    BY <1>3, <2>3, <2>4, DomainChanged DEF RemoveUndefine
<1>4. CASE DeleteKeys(p)
  <2>1. proc' \in ProcSpace
    BY <1>4, <1>b, NamedSteps DEF DeleteKeys
  <2> QED
    BY <1>4, <2>1 DEF DeleteKeys, TypeOK, ProcSpace
<1>5. ASSUME NEW a \in Artifacts, DeleteState(p, a) PROVE TypeOK'
  <2>1. Become(p, [proc[p] EXCEPT !.todo = @ \ {a}]) => proc' \in ProcSpace
    BY <1>a, ProcChanges, Records, NamedSteps DEF Iso
  <2>2. proc' \in ProcSpace
    BY <1>5, <1>c, <2>1 DEF DeleteState
  <2>3. file' \in StateFile
    BY <1>5, <1>a, FileTypes DEF DeleteState
  <2>4. a # "file" => a \in Modes
    BY DEF Artifacts, Modes
  <2>5. disk' \in [Modes -> {"none", "fresh", "data"}]
    BY <1>5, <2>4, Replacements, TypeSpaces DEF DeleteState
  <2> QED
    BY <1>5, <2>2, <2>3, <2>5 DEF DeleteState, TypeOK, ProcSpace
<1> QED
  BY <1>1, <1>2, <1>3, <1>4, <1>5 DEF RemoveStep

\* A command's step keeps the types.
LEMMA CommandTypes ==
    ASSUME TypeOK, NEW p \in Procs, CommandStep(p)
    PROVE  TypeOK'
BY StartTypes, StopTypes, RemoveTypes DEF CommandStep

\* What the user, the guest and the host do keeps the types.
LEMMA WorldTypes ==
    ASSUME TypeOK
    PROVE  /\ \A p \in Procs, cmd \in {"start", "stop", "restart", "remove"}, m \in Modes,
                 force \in BOOLEAN, proj \in BOOLEAN :
                    Invoke(p, cmd, m, force, proj) => TypeOK'
           /\ \A p \in Procs : Crash(p) => TypeOK'
           /\ \A m \in Modes : GuestHalts(m) \/ Snapshot(m) => TypeOK'
           /\ HostReboots => TypeOK'
<1>a. proc \in ProcSpace
  BY TypeSpaces
<1>1. ASSUME NEW p \in Procs, NEW cmd \in {"start", "stop", "restart", "remove"},
             NEW m \in Modes, NEW force \in BOOLEAN, NEW proj \in BOOLEAN,
             Invoke(p, cmd, m, force, proj)
      PROVE  TypeOK'
  <2>1. FirstStep[cmd] \in Steps
    BY FirstSteps
  <2>2. [Idle EXCEPT !.pc = FirstStep[cmd], !.cmd = cmd, !.mode = m, !.force = force,
                     !.proj = proj] \in Process
    BY <2>1, FileTypes DEF Idle, Process
  <2>3. proc' \in ProcSpace
    BY <1>1, <1>a, <2>2, ProcChanges DEF Invoke
  <2> QED
    BY <1>1, <2>3, OnlyMoved DEF Invoke
<1>2. ASSUME NEW p \in Procs, Crash(p) PROVE TypeOK'
  <2>1. proc' \in ProcSpace
    BY <1>2, <1>a, ProcChanges DEF Crash
  <2>2. file' \in StateFile
    BY <1>2, FileTypes, TypeSpaces DEF Crash
  <2> QED
    BY <1>2, <2>1, <2>2, OnlySaved DEF Crash
<1>3. ASSUME NEW m \in Modes, GuestHalts(m) PROVE TypeOK'
  <2>1. dom' \in [Modes -> Domain] /\ snaps' \subseteq Modes
    BY <1>3, Replacements, DomainTypes, TypeSpaces DEF GuestHalts
  <2> QED
    BY <1>3, <1>a, <2>1, DomainChanged DEF GuestHalts
<1>4. ASSUME NEW m \in Modes, Snapshot(m) PROVE TypeOK'
  BY <1>4 DEF Snapshot, TypeOK
<1>5. ASSUME HostReboots PROVE TypeOK'
  <2>1. Idle \in Process
    BY FileTypes DEF Idle, Process, Steps, Modes, Iso
  <2>2. \A m \in Modes : Halted(dom[m]) \in Domain
    BY DomainTypes, Replacements
  <2>3. proc' \in ProcSpace /\ dom' \in [Modes -> Domain]
    BY <1>5, <2>1, <2>2 DEF HostReboots, ProcSpace
  <2> QED
    BY <1>5, <2>3 DEF HostReboots, TypeOK, ProcSpace
<1> QED
  BY <1>1, <1>2, <1>3, <1>4, <1>5

\* A new or a legacy cage has its types.
LEMMA InitTypes == Init => TypeOK
<1>1. Idle \in Process
  BY FileTypes DEF Idle, Process, Steps, Modes, Iso
<1>2. NewFile("unset") \in StateFile
  BY FileTypes
<1>3. \A m \in Modes :
           (IF m = "user" THEN Defined("slirp", FALSE) ELSE NoDomain) \in Domain
  BY DomainTypes
<1> DEFINE Cage == /\ file \in StateFile /\ dom \in [Modes -> Domain] /\ keys \in BOOLEAN
                     /\ disk \in [Modes -> {"none", "fresh", "data"}]
<1>4. NoCage => Cage
  BY FileTypes, DomainTypes DEF NoCage
<1>5. LegacyCage => Cage
  BY <1>2, <1>3 DEF LegacyCage
<1> QED
  BY <1>1, <1>4, <1>5 DEF Init, TypeOK

\* Every step keeps them.
LEMMA StepTypes == TypeOK /\ [Next]_vars => TypeOK'
<1>1. CASE UNCHANGED vars
  BY <1>1 DEF vars, TypeOK
<1> QED
  BY <1>1, CommandTypes, WorldTypes DEF Next

\* The cage's parts and the commands keep their types, commands that overlap and
\* every kind of fault included.
THEOREM TypeCorrect == Spec => []TypeOK
BY InitTypes, StepTypes, PTL DEF Spec

-----------------------------------------------------------------------------
(***************************************************************************)
(* DataSafe, for commands that do not overlap.  Whether a disk may be      *)
(* overwritten or deleted is decided steps before it happens, by what      *)
(* state.json said then; so the invariant says of every step of a command  *)
(* what is still known of state.json when that step is taken, and that     *)
(* without a state.json only condemned guest data is left.                 *)
(***************************************************************************)
BirthSteps == {"mkdisk", "genkeys", "define", "save_new", "undo_keys"}
DoomSteps == {"rm_destroy", "rm_undefine", "rm_keys"}
ProbeSteps == {"rc_probe", "rc_undefine", "rc_define"}
SeenSteps == {"active", "fix_running", "fix_stopped", "isolate", "iso_probe", "iso_undefine",
              "iso_define", "unisolate", "boot", "save_running", "stop_vm", "stop_wait",
              "stop_iso", "save_stopped"}

OneAtATime == \A p, q \in Procs : p # q => At(p, "idle") \/ At(q, "idle")

Knows(p) ==
    /\ proc[p].pc \in BirthSteps => file.kind = "absent"
    /\ proc[p].pc \in DoomSteps => condemned
    /\ At(p, "delete") => condemned \/ file.kind = "absent"
    /\ proc[p].pc \in ProbeSteps => file.kind # "absent"
    /\ proc[p].pc \in SeenSteps => file.kind # "absent" /\ proc[p].seen.kind = "saved"

NoOrphanedData ==
    file.kind = "absent" => condemned \/ \A m \in Modes : disk[m] # "data"

DataInv == TypeOK /\ OneAtATime /\ (\A p \in Procs : Knows(p)) /\ NoOrphanedData

\* What the fields of a moved command are.
LEMMA Fields ==
    ASSUME NEW c \in Process
    PROVE  /\ \A s : [c EXCEPT !.pc = s].pc = s /\ [c EXCEPT !.pc = s].seen = c.seen
           /\ \A s, t : [c EXCEPT !.pc = s, !.todo = t].pc = s
           /\ \A s, f : /\ [c EXCEPT !.pc = s, !.seen = f].pc = s
                        /\ [c EXCEPT !.pc = s, !.seen = f].seen = f
           /\ \A s, i : /\ [c EXCEPT !.pc = s, !.mine = i].pc = s
                        /\ [c EXCEPT !.pc = s, !.mine = i].seen = c.seen
           /\ \A s, t : [c EXCEPT !.pc = s, !.uris = t].pc = s
           /\ \A s, f, t : [c EXCEPT !.pc = s, !.seen = f, !.uris = t].pc = s
           /\ \A t : [c EXCEPT !.todo = t].pc = c.pc
BY DEF Process

\* A State whose status changes is as readable as before.
LEMMA SeenFields ==
    ASSUME NEW f \in StateFile, NEW s, NEW i
    PROVE  /\ [f EXCEPT !.status = s].kind = f.kind
           /\ [f EXCEPT !.status = s, !.iso = i].kind = f.kind
<1>1. [f EXCEPT !.status = s].kind = f.kind
  BY DEF StateFile
<1>2. [f EXCEPT !.status = s, !.iso = i].kind = f.kind
  BY DEF StateFile
<1> QED
  BY <1>1, <1>2

\* Where a command is after a step, what it has seen, and that no other moved.
LEMMA Moves ==
    ASSUME TypeOK, NEW p \in Procs
    PROVE  /\ \A c : Become(p, c) =>
                 proc'[p] = c /\ \A q \in Procs \ {p} : proc'[q] = proc[q]
           /\ Finish(p) =>
                 At(p, "idle")' /\ \A q \in Procs \ {p} : proc'[q] = proc[q]
           /\ \A s :
                 /\ Goto(p, s) => /\ At(p, s)' /\ proc'[p].seen = proc[p].seen
                                  /\ \A q \in Procs \ {p} : proc'[q] = proc[q]
                 /\ Rollback(p, s) => /\ At(p, s)'
                                      /\ \A q \in Procs \ {p} : proc'[q] = proc[q]
<1>1. \A c : Become(p, c) => proc'[p] = c /\ \A q \in Procs \ {p} : proc'[q] = proc[q]
  BY DEF Become, TypeOK
<1>2. Finish(p) => At(p, "idle")' /\ \A q \in Procs \ {p} : proc'[q] = proc[q]
  BY <1>1 DEF Finish, Idle, At
<1>3. proc[p] \in Process
  BY DEF TypeOK
<1>4. ASSUME NEW s, Goto(p, s)
      PROVE  /\ At(p, s)' /\ proc'[p].seen = proc[p].seen
             /\ \A q \in Procs \ {p} : proc'[q] = proc[q]
  <2>1. /\ proc'[p] = [proc[p] EXCEPT !.pc = s]
        /\ \A q \in Procs \ {p} : proc'[q] = proc[q]
    BY <1>4 DEF Goto, Become, TypeOK
  <2>2. [proc[p] EXCEPT !.pc = s].pc = s /\ [proc[p] EXCEPT !.pc = s].seen = proc[p].seen
    BY <1>3, Fields
  <2>3. At(p, s)'
    BY <2>1, <2>2 DEF At
  <2> QED
    BY <2>1, <2>2, <2>3
<1>5. ASSUME NEW s, Rollback(p, s)
      PROVE  At(p, s)' /\ \A q \in Procs \ {p} : proc'[q] = proc[q]
  <2> DEFINE t == ArtifactsOf(proc[p].mode)
  <2>1. /\ proc'[p] = [proc[p] EXCEPT !.pc = s, !.todo = t]
        /\ \A q \in Procs \ {p} : proc'[q] = proc[q]
    BY <1>5 DEF Rollback, Become, TypeOK
  <2> HIDE DEF t
  <2>2. [proc[p] EXCEPT !.pc = s, !.todo = t].pc = s
    BY <1>3, Fields
  <2>3. At(p, s)'
    BY <2>1, <2>2 DEF At
  <2> QED
    BY <2>1, <2>3
<1> QED
  BY <1>1, <1>2, <1>4, <1>5

\* A command that is idle has nothing to know, nor one that has yet to look.
LEMMA NothingToKnow ==
    \A p \in Procs :
        proc[p].pc \in {"idle", "start_check", "stop_check", "restart_check", "remove_check",
                        "rc_load", "load"} => Knows(p)
BY DEF Knows, BirthSteps, DoomSteps, ProbeSteps, SeenSteps, At

LEMMA NothingToKnowNext ==
    \A p \in Procs :
        proc'[p].pc \in {"idle", "start_check", "stop_check", "restart_check", "remove_check",
                         "rc_load", "load"} => Knows(p)'
BY DEF Knows, BirthSteps, DoomSteps, ProbeSteps, SeenSteps, At

\* While one command takes its steps the others are idle.
LEMMA OthersIdle ==
    ASSUME DataInv, TypeOK', NEW p \in Procs, ~At(p, "idle"),
           \A q \in Procs \ {p} : proc'[q] = proc[q],
           Knows(p)', NoOrphanedData'
    PROVE  DataInv'
<1>1. \A q \in Procs \ {p} : At(q, "idle")
  BY DEF DataInv, OneAtATime
<1>2. \A q \in Procs \ {p} : At(q, "idle")'
  BY <1>1 DEF At
<1>3. OneAtATime'
  BY <1>2 DEF OneAtATime
<1>4. \A q \in Procs \ {p} : Knows(q)'
  BY <1>2, NothingToKnowNext DEF At
<1> QED
  BY <1>3, <1>4 DEF DataInv

\* A failed save never makes a state.json disappear.
LEMMA SaveKeepsFile ==
    /\ TornFile.kind = "torn"
    /\ SaveFails => file' = file \/ file'.kind = "torn"
    /\ \A m : NewFile(m).kind = "saved"
BY DEF SaveFails, TornFile, NoFile, NewFile

\* A step that leaves state.json, the disks and the verdict alone.
LEMMA QuietStep ==
    ASSUME DataInv, file' = file, disk' = disk, condemned' = condemned
    PROVE  NoOrphanedData'
BY DEF DataInv, NoOrphanedData

\* cage start keeps what is known.
LEMMA StartKnows ==
    ASSUME DataInv, NEW p \in Procs, StartStep(p)
    PROVE  /\ ~At(p, "idle")
           /\ \A q \in Procs \ {p} : proc'[q] = proc[q]
           /\ Knows(p)' /\ NoOrphanedData'
<1>a. TypeOK /\ Knows(p) /\ NoOrphanedData
  BY DEF DataInv
<1>b. /\ proc[p] \in Process /\ proc[p].mode \in Modes
      /\ \A m \in Modes : \A c : [disk EXCEPT ![m] = c][m] = c
      /\ \A m, k \in Modes : \A c : k # m => [disk EXCEPT ![m] = c][k] = disk[k]
  BY <1>a DEF TypeOK, Process
<1>c. ASSUME NEW c, NEW f, NEW s, c \in Process,
             Become(p, [c EXCEPT !.pc = s, !.seen = f])
      PROVE  /\ At(p, s)' /\ proc'[p].seen = f
             /\ \A q \in Procs \ {p} : proc'[q] = proc[q]
  <2>1. /\ proc'[p] = [c EXCEPT !.pc = s, !.seen = f]
        /\ \A q \in Procs \ {p} : proc'[q] = proc[q]
    BY <1>a, <1>c DEF Become, TypeOK
  <2>2. [c EXCEPT !.pc = s, !.seen = f].pc = s /\ [c EXCEPT !.pc = s, !.seen = f].seen = f
    BY <1>c, Fields
  <2>3. At(p, s)'
    BY <2>1, <2>2 DEF At
  <2> QED
    BY <2>1, <2>2, <2>3
<1>1. CASE StartCheck(p)
  <2>1. ~At(p, "idle") /\ file' = file /\ disk' = disk /\ condemned' = condemned
    BY <1>1 DEF StartCheck, At, hostVars
  <2>2. \/ At(p, "idle")' \/ At(p, "load")' \/ At(p, "rc_load")'
        \/ At(p, "mkdisk")' /\ file.kind = "absent"
    BY <1>1, <1>a, Moves DEF StartCheck
  <2>3. Knows(p)'
    BY <2>1, <2>2, NothingToKnowNext DEF At, Knows, BirthSteps, DoomSteps, ProbeSteps, SeenSteps
  <2> QED
    BY <1>1, <1>a, <2>1, <2>3, Moves, QuietStep DEF StartCheck
<1>2. CASE CreateDisk(p)
  <2>1. ~At(p, "idle") /\ file.kind = "absent" /\ file' = file /\ condemned' = condemned
    BY <1>2, <1>a DEF CreateDisk, At, Knows, BirthSteps
  <2>2. At(p, "genkeys")' \/ At(p, "delete")'
    BY <1>2, <1>a, Moves DEF CreateDisk
  <2>3. Knows(p)'
    BY <2>1, <2>2 DEF At, Knows, BirthSteps, DoomSteps, ProbeSteps, SeenSteps
  <2>4. NoOrphanedData'
    BY <1>2, <1>a, <1>b, <2>1 DEF CreateDisk, NoOrphanedData
  <2> QED
    BY <1>2, <1>a, <2>1, <2>3, <2>4, Moves DEF CreateDisk
<1>3. CASE GenerateKeys(p)
  <2>1. /\ ~At(p, "idle") /\ file.kind = "absent"
        /\ file' = file /\ disk' = disk /\ condemned' = condemned
    BY <1>3, <1>a DEF GenerateKeys, At, Knows, BirthSteps
  <2>2. At(p, "define")' \/ At(p, "delete")'
    BY <1>3, <1>a, Moves DEF GenerateKeys
  <2>3. Knows(p)'
    BY <2>1, <2>2 DEF At, Knows, BirthSteps, DoomSteps, ProbeSteps, SeenSteps
  <2> QED
    BY <1>3, <1>a, <2>1, <2>3, Moves, QuietStep DEF GenerateKeys
<1>4. CASE DefineNew(p)
  <2>1. /\ ~At(p, "idle") /\ file.kind = "absent"
        /\ file' = file /\ disk' = disk /\ condemned' = condemned
    BY <1>4, <1>a DEF DefineNew, At, Knows, BirthSteps
  <2>2. At(p, "save_new")' \/ At(p, "undo_keys")'
    BY <1>4, <1>a, Moves DEF DefineNew
  <2>3. Knows(p)'
    BY <2>1, <2>2 DEF At, Knows, BirthSteps, DoomSteps, ProbeSteps, SeenSteps
  <2> QED
    BY <1>4, <1>a, <2>1, <2>3, Moves, QuietStep DEF DefineNew
<1>5. CASE SaveNew(p)
  <2>1. ~At(p, "idle") /\ disk' = disk
    BY <1>5 DEF SaveNew, At, hostVars
  <2>2. At(p, "load")' \/ At(p, "idle")'
    BY <1>5, <1>a, Moves DEF SaveNew
  <2>3. Knows(p)'
    BY <2>2, NothingToKnowNext DEF At
  <2>4. NoOrphanedData'
    BY <1>5, <1>a, <2>1, SaveKeepsFile DEF SaveNew, NoOrphanedData
  <2> QED
    BY <1>5, <1>a, <2>1, <2>3, <2>4, Moves DEF SaveNew
<1>6. CASE ReconfigureLoad(p)
  <2>1. ~At(p, "idle") /\ file' = file /\ disk' = disk /\ condemned' = condemned
    BY <1>6 DEF ReconfigureLoad, At, hostVars
  <2>2. At(p, "idle")' \/ (At(p, "rc_probe")' /\ file.kind = "saved")
    BY <1>6, <1>a, Moves DEF ReconfigureLoad, Saved
  <2>3. Knows(p)'
    BY <2>1, <2>2, NothingToKnowNext DEF At, Knows, BirthSteps, DoomSteps, ProbeSteps, SeenSteps
  <2> QED
    BY <1>6, <1>a, <2>1, <2>3, Moves, QuietStep DEF ReconfigureLoad
<1>7. ASSUME NEW here, NEW next, NEW net,
             \/ here \in ProbeSteps /\ next \in {"rc_undefine", "rc_define", "load"}
             \/ /\ here \in {"iso_probe", "iso_undefine", "iso_define"}
                /\ next \in {"iso_undefine", "iso_define", "boot"},
             \/ RedefineProbe(p, here, next)
             \/ RedefineUndefine(p, here, next)
             \/ RedefineDefine(p, here, next, net)
      PROVE  /\ ~At(p, "idle")
             /\ \A q \in Procs \ {p} : proc'[q] = proc[q]
             /\ Knows(p)' /\ NoOrphanedData'
  <2>1. At(p, here) /\ file' = file /\ disk' = disk /\ condemned' = condemned
    BY <1>7 DEF RedefineProbe, RedefineUndefine, RedefineDefine, hostVars
  <2>2. Goto(p, next) \/ GiveUp(p)
    BY <1>7 DEF RedefineProbe, RedefineUndefine, RedefineDefine
  <2>3. \A q \in Procs \ {p} : proc'[q] = proc[q]
    BY <1>a, <2>2, Moves DEF GiveUp
  <2>4. CASE here \in ProbeSteps
    <3>1. file.kind # "absent" /\ (At(p, next)' \/ At(p, "idle")')
      BY <1>a, <2>1, <2>2, <2>4, Moves DEF GiveUp, Knows, ProbeSteps, At
    <3>2. next \in {"rc_undefine", "rc_define", "load"}
      BY <1>7, <2>4 DEF ProbeSteps
    <3> QED
      BY <2>1, <2>3, <2>4, <3>1, <3>2, QuietStep, NothingToKnowNext
      DEF Knows, BirthSteps, DoomSteps, ProbeSteps, SeenSteps, At
  <2>5. CASE here \in {"iso_probe", "iso_undefine", "iso_define"}
    <3>1. /\ file.kind # "absent" /\ proc'[p].seen.kind = "saved"
          /\ At(p, next)' \/ At(p, "unisolate")'
      BY <1>a, <2>1, <2>2, <2>5, Moves DEF GiveUp, Knows, SeenSteps, At
    <3>2. next \in {"iso_undefine", "iso_define", "boot"}
      BY <1>7, <2>5 DEF ProbeSteps
    <3> QED
      BY <2>1, <2>3, <2>5, <3>1, <3>2, QuietStep
      DEF Knows, BirthSteps, DoomSteps, ProbeSteps, SeenSteps, At
  <2> QED
    BY <1>7, <2>4, <2>5
<1>8. CASE Reconfigure(p) \/ IsolatedRedefine(p)
  BY <1>6, <1>7, <1>8 DEF Reconfigure, IsolatedRedefine, ProbeSteps
<1>9. CASE Load(p)
  <2>1. ~At(p, "idle") /\ file' = file /\ disk' = disk /\ condemned' = condemned
    BY <1>9 DEF Load, At, hostVars
  <2>2. \/ At(p, "idle")'
        \/ At(p, "active")' /\ proc'[p].seen = file /\ file.kind = "saved"
    BY <1>9, <1>a, <1>b, <1>c, Moves DEF Load, Saved
  <2>3. Knows(p)'
    BY <2>1, <2>2, NothingToKnowNext DEF At, Knows, BirthSteps, DoomSteps, ProbeSteps, SeenSteps
  <2> QED
    BY <1>9, <1>a, <1>b, <1>c, <2>1, <2>3, Moves, QuietStep DEF Load
<1>10. CASE CheckActive(p)
  <2>1. /\ ~At(p, "idle") /\ file.kind # "absent" /\ proc[p].seen.kind = "saved"
        /\ file' = file /\ disk' = disk /\ condemned' = condemned
    BY <1>10, <1>a DEF CheckActive, At, Knows, SeenSteps, hostVars
  <2>2. \/ At(p, "idle")'
        \/ /\ \E s \in {"fix_running", "fix_stopped", "isolate", "boot"} : At(p, s)'
           /\ proc'[p].seen = proc[p].seen
    BY <1>10, <1>a, Moves DEF CheckActive, AfterActive
  <2>3. Knows(p)'
    BY <2>1, <2>2, NothingToKnowNext DEF At, Knows, BirthSteps, DoomSteps, ProbeSteps, SeenSteps
  <2> QED
    BY <1>10, <1>a, <2>1, <2>3, Moves, QuietStep DEF CheckActive
<1>11. CASE FixRunning(p) \/ SaveRunning(p)
  <2>1. ~At(p, "idle") /\ file.kind # "absent" /\ proc[p].seen.kind = "saved" /\ disk' = disk
    BY <1>11, <1>a DEF FixRunning, SaveRunning, At, Knows, SeenSteps, hostVars
  <2>2. \A s, i : /\ [proc[p].seen EXCEPT !.status = s].kind = "saved"
                  /\ [proc[p].seen EXCEPT !.status = s, !.iso = i].kind = "saved"
    <3>1. proc[p].seen \in StateFile
      BY <1>b DEF Process
    <3> QED
      BY <2>1, <3>1, SeenFields
  <2>3. NoOrphanedData'
    <3>1. file'.kind # "absent"
      <4>1. CASE FixRunning(p)
        BY <4>1, <2>1, <2>2, SaveKeepsFile DEF FixRunning
      <4>2. CASE SaveRunning(p)
        <5> DEFINE i == IF proc[p].mine = NoPasst THEN proc[p].seen.iso ELSE proc[p].mine
        <5>1. \/ file' = [proc[p].seen EXCEPT !.status = "running", !.iso = i]
              \/ SaveFails
          BY <4>2 DEF SaveRunning
        <5> HIDE DEF i
        <5>2. [proc[p].seen EXCEPT !.status = "running", !.iso = i].kind = "saved"
          BY <2>2
        <5> QED
          BY <2>1, <5>1, <5>2, SaveKeepsFile
      <4> QED
        BY <1>11, <4>1, <4>2
    <3> QED
      BY <3>1 DEF NoOrphanedData
  <2>4. At(p, "idle")'
    BY <1>11, <1>a, Moves DEF FixRunning, SaveRunning
  <2> QED
    BY <1>11, <1>a, <2>1, <2>3, <2>4, Moves, NothingToKnowNext DEF FixRunning, SaveRunning, At
<1>12. CASE FixStopped(p)
  <2> DEFINE f == [proc[p].seen EXCEPT !.status = "stopped"]
  <2>1. ~At(p, "idle") /\ file.kind # "absent" /\ proc[p].seen.kind = "saved" /\ disk' = disk
    BY <1>12, <1>a DEF FixStopped, At, Knows, SeenSteps, hostVars
  <2>2. f.kind = "saved"
    BY <1>b, <2>1 DEF Process, StateFile
  <2>3. file'.kind # "absent"
    BY <1>12, <2>1, <2>2, SaveKeepsFile DEF FixStopped
  <2>4. /\ At(p, AfterActive(proc[p].mode))' /\ proc'[p].seen = f
        /\ \A q \in Procs \ {p} : proc'[q] = proc[q]
    <3>1. Become(p, [proc[p] EXCEPT !.pc = AfterActive(proc[p].mode), !.seen = f])
      BY <1>12 DEF FixStopped
    <3> DEFINE s == AfterActive(proc[p].mode)
    <3>2. Become(p, [proc[p] EXCEPT !.pc = s, !.seen = f])
      BY <3>1
    <3> HIDE DEF f, s
    <3>3. At(p, s)' /\ proc'[p].seen = f /\ \A q \in Procs \ {p} : proc'[q] = proc[q]
      <4>1. /\ proc'[p] = [proc[p] EXCEPT !.pc = s, !.seen = f]
            /\ \A q \in Procs \ {p} : proc'[q] = proc[q]
        BY <1>a, <3>2 DEF Become, TypeOK
      <4>2. /\ [proc[p] EXCEPT !.pc = s, !.seen = f].pc = s
            /\ [proc[p] EXCEPT !.pc = s, !.seen = f].seen = f
        BY <1>b, Fields
      <4>3. At(p, s)'
        BY <4>1, <4>2 DEF At, s
      <4> QED
        BY <4>1, <4>2, <4>3
    <3> QED
      BY <3>3 DEF s
  <2>5. Knows(p)'
    BY <2>2, <2>3, <2>4
    DEF AfterActive, At, Knows, BirthSteps, DoomSteps, ProbeSteps, SeenSteps
  <2> QED
    BY <2>1, <2>3, <2>4, <2>5 DEF NoOrphanedData
<1>13. CASE Isolate(p)
  <2>1. /\ ~At(p, "idle") /\ file.kind # "absent" /\ proc[p].seen.kind = "saved"
        /\ file' = file /\ disk' = disk /\ condemned' = condemned
    BY <1>13, <1>a DEF Isolate, At, Knows, SeenSteps
  <2>2. \A s, i : /\ [proc[p] EXCEPT !.pc = s, !.mine = i].pc = s
                  /\ [proc[p] EXCEPT !.pc = s, !.mine = i].seen = proc[p].seen
    BY <1>b, Fields
  <2>3. /\ At(p, "iso_probe")' \/ At(p, "boot")'
        /\ proc'[p].seen = proc[p].seen
        /\ \A q \in Procs \ {p} : proc'[q] = proc[q]
    <3>1. ASSUME NEW i \in PasstIds, Become(p, [proc[p] EXCEPT !.pc = "iso_probe", !.mine = i])
          PROVE  /\ At(p, "iso_probe")' /\ proc'[p].seen = proc[p].seen
                 /\ \A q \in Procs \ {p} : proc'[q] = proc[q]
      <4>1. /\ proc'[p] = [proc[p] EXCEPT !.pc = "iso_probe", !.mine = i]
            /\ \A q \in Procs \ {p} : proc'[q] = proc[q]
        BY <1>a, <3>1 DEF Become, TypeOK
      <4>2. At(p, "iso_probe")' /\ proc'[p].seen = proc[p].seen
        BY <4>1, <2>2 DEF At
      <4> QED
        BY <4>1, <4>2
    <3> QED
      BY <1>13, <1>a, <3>1, Moves DEF Isolate
  <2>4. Knows(p)'
    BY <2>1, <2>3 DEF At, Knows, BirthSteps, DoomSteps, ProbeSteps, SeenSteps
  <2> QED
    BY <2>1, <2>3, <2>4, QuietStep
<1>14. CASE Unisolate(p)
  BY <1>14, <1>a, Moves, NothingToKnowNext, QuietStep DEF Unisolate, At
<1>15. CASE Boot(p)
  <2>1. /\ ~At(p, "idle") /\ file.kind # "absent" /\ proc[p].seen.kind = "saved"
        /\ file' = file
    BY <1>15, <1>a DEF Boot, At, Knows, SeenSteps
  <2>2. /\ \/ At(p, "idle")'
           \/ /\ At(p, "save_running")' \/ At(p, "unisolate")'
              /\ proc'[p].seen = proc[p].seen
        /\ \A q \in Procs \ {p} : proc'[q] = proc[q]
    BY <1>15, <1>a, Moves DEF Boot
  <2>3. Knows(p)'
    BY <2>1, <2>2, NothingToKnowNext DEF At, Knows, BirthSteps, DoomSteps, ProbeSteps, SeenSteps
  <2> QED
    BY <2>1, <2>2, <2>3 DEF NoOrphanedData
<1> QED
  BY <1>1, <1>2, <1>3, <1>4, <1>5, <1>8, <1>9, <1>10, <1>11, <1>12, <1>13, <1>14, <1>15
  DEF StartStep

\* cage stop and cage restart keep what is known.
LEMMA StopKnows ==
    ASSUME DataInv, NEW p \in Procs, StopStep(p)
    PROVE  /\ ~At(p, "idle")
           /\ \A q \in Procs \ {p} : proc'[q] = proc[q]
           /\ Knows(p)' /\ NoOrphanedData'
<1>a. TypeOK /\ Knows(p) /\ NoOrphanedData
  BY DEF DataInv
<1>b. proc[p] \in Process /\ proc[p].seen \in StateFile
  BY <1>a DEF TypeOK, Process
<1>1. CASE RestartCheck(p)
  <2>1. /\ ~At(p, "idle") /\ file' = file /\ disk' = disk /\ condemned' = condemned
        /\ At(p, "stop_check")' \/ At(p, "idle")'
        /\ \A q \in Procs \ {p} : proc'[q] = proc[q]
    BY <1>1, <1>a, Moves DEF RestartCheck, At, hostVars
  <2> QED
    BY <2>1, NothingToKnowNext, QuietStep DEF At
<1>2. CASE StopCheck(p)
  <2>1. /\ ~At(p, "idle") /\ file' = file /\ disk' = disk /\ condemned' = condemned
    BY <1>2 DEF StopCheck, At, hostVars
  <2>2. CASE Finish(p)
    BY <1>a, <2>1, <2>2, Moves, NothingToKnowNext, QuietStep DEF At
  <2>3. CASE Saved /\ Become(p, [proc[p] EXCEPT !.pc = "stop_vm", !.seen = file])
    <3>1. /\ proc'[p] = [proc[p] EXCEPT !.pc = "stop_vm", !.seen = file]
          /\ \A q \in Procs \ {p} : proc'[q] = proc[q]
      BY <1>a, <2>3 DEF Become, TypeOK
    <3>2. /\ [proc[p] EXCEPT !.pc = "stop_vm", !.seen = file].pc = "stop_vm"
          /\ [proc[p] EXCEPT !.pc = "stop_vm", !.seen = file].seen = file
      BY <1>b, Fields
    <3>3. At(p, "stop_vm")' /\ proc'[p].seen = file
      BY <3>1, <3>2 DEF At
    <3>4. Knows(p)'
      BY <2>1, <2>3, <3>3 DEF Saved, At, Knows, BirthSteps, DoomSteps, ProbeSteps, SeenSteps
    <3> QED
      BY <2>1, <3>1, <3>4, QuietStep
  <2> QED
    BY <1>2, <2>2, <2>3 DEF StopCheck
<1>3. CASE StopVM(p) \/ StopWait(p)
  <2>1. /\ ~At(p, "idle") /\ file.kind # "absent" /\ proc[p].seen.kind = "saved"
        /\ file' = file /\ disk' = disk /\ condemned' = condemned
    BY <1>3, <1>a DEF StopVM, StopWait, At, Knows, SeenSteps, hostVars
  <2>2. /\ At(p, "stop_wait")' \/ At(p, "save_stopped")' \/ At(p, "stop_iso")'
        /\ proc'[p].seen = proc[p].seen
        /\ \A q \in Procs \ {p} : proc'[q] = proc[q]
    BY <1>3, <1>a, Moves DEF StopVM, StopWait
  <2>3. Knows(p)'
    BY <2>1, <2>2 DEF At, Knows, BirthSteps, DoomSteps, ProbeSteps, SeenSteps
  <2> QED
    BY <2>1, <2>2, <2>3, QuietStep
<1>4. CASE StopIsolation(p)
  <2>1. /\ ~At(p, "idle") /\ file.kind # "absent" /\ proc[p].seen.kind = "saved"
        /\ file' = file /\ disk' = disk /\ condemned' = condemned
    BY <1>4, <1>a DEF StopIsolation, At, Knows, SeenSteps
  <2>2. /\ At(p, "save_stopped")' /\ proc'[p].seen = proc[p].seen
        /\ \A q \in Procs \ {p} : proc'[q] = proc[q]
    BY <1>4, <1>a, Moves DEF StopIsolation
  <2>3. Knows(p)'
    BY <2>1, <2>2 DEF At, Knows, BirthSteps, DoomSteps, ProbeSteps, SeenSteps
  <2> QED
    BY <2>1, <2>2, <2>3, QuietStep
<1>5. CASE SaveStopped(p)
  <2>1. ~At(p, "idle") /\ file.kind # "absent" /\ proc[p].seen.kind = "saved"
    BY <1>5, <1>a DEF SaveStopped, At, Knows, SeenSteps
  <2>2. [proc[p].seen EXCEPT !.status = "stopped", !.iso = NoPasst].kind = "saved"
    BY <1>b, <2>1, SeenFields
  <2>3. file'.kind # "absent"
    BY <1>5, <2>1, <2>2, SaveKeepsFile DEF SaveStopped
  <2>4. Finish(p) \/ Become(p, [proc[p] EXCEPT !.pc = "load", !.seen = NoFile])
    BY <1>5 DEF SaveStopped
  <2>5. [proc[p] EXCEPT !.pc = "load", !.seen = NoFile].pc = "load"
    BY <1>b, Fields
  <2>6. /\ At(p, "idle")' \/ At(p, "load")'
        /\ \A q \in Procs \ {p} : proc'[q] = proc[q]
    <3>1. CASE Finish(p)
      BY <1>a, <3>1, Moves
    <3>2. CASE Become(p, [proc[p] EXCEPT !.pc = "load", !.seen = NoFile])
      <4>1. /\ proc'[p] = [proc[p] EXCEPT !.pc = "load", !.seen = NoFile]
            /\ \A q \in Procs \ {p} : proc'[q] = proc[q]
        BY <1>a, <3>2 DEF Become, TypeOK
      <4> QED
        BY <2>5, <4>1 DEF At
    <3> QED
      BY <2>4, <3>1, <3>2
  <2> QED
    BY <2>1, <2>3, <2>6, NothingToKnowNext DEF At, NoOrphanedData
<1> QED
  BY <1>1, <1>2, <1>3, <1>4, <1>5 DEF StopStep

\* cage remove and the rollbacks keep what is known.
LEMMA RemoveKnows ==
    ASSUME DataInv, NEW p \in Procs, RemoveStep(p)
    PROVE  /\ ~At(p, "idle")
           /\ \A q \in Procs \ {p} : proc'[q] = proc[q]
           /\ Knows(p)' /\ NoOrphanedData'
<1>a. TypeOK /\ Knows(p) /\ NoOrphanedData
  BY DEF DataInv
<1>b. proc[p] \in Process
  BY <1>a DEF TypeOK
<1>1. CASE RemoveCheck(p)
  <2>1. ~At(p, "idle") /\ file' = file /\ disk' = disk
    BY <1>1 DEF RemoveCheck, At, hostVars
  <2>2. CASE Finish(p) /\ condemned' = condemned
    BY <1>a, <2>1, <2>2, Moves, NothingToKnowNext, QuietStep DEF At
  <2>3. ASSUME NEW f, NEW t, condemned' = TRUE,
               Become(p, [proc[p] EXCEPT !.pc = "rm_destroy", !.seen = f, !.uris = t])
        PROVE  /\ \A q \in Procs \ {p} : proc'[q] = proc[q]
               /\ Knows(p)' /\ NoOrphanedData'
    <3>1. /\ proc'[p] = [proc[p] EXCEPT !.pc = "rm_destroy", !.seen = f, !.uris = t]
          /\ \A q \in Procs \ {p} : proc'[q] = proc[q]
      BY <1>a, <2>3 DEF Become, TypeOK
    <3>2. [proc[p] EXCEPT !.pc = "rm_destroy", !.seen = f, !.uris = t].pc = "rm_destroy"
      BY <1>b, Fields
    <3>3. At(p, "rm_destroy")'
      BY <3>1, <3>2 DEF At
    <3>4. Knows(p)'
      BY <2>3, <3>3 DEF At, Knows, BirthSteps, DoomSteps, ProbeSteps, SeenSteps
    <3> QED
      BY <2>3, <3>1, <3>4 DEF NoOrphanedData
  <2>4. \/ Finish(p) /\ condemned' = condemned
        \/ \E f, t : /\ condemned' = TRUE
                     /\ Become(p, [proc[p] EXCEPT !.pc = "rm_destroy", !.seen = f, !.uris = t])
    <3> DEFINE t == IF proc[p].force THEN Modes ELSE {proc[p].mode}
    <3>1. \/ Finish(p) /\ condemned' = condemned
          \/ /\ condemned' = TRUE
             /\ Become(p, [proc[p] EXCEPT !.pc = "rm_destroy", !.seen = file, !.uris = t])
      BY <1>1 DEF RemoveCheck
    <3> HIDE DEF t
    <3> QED
      BY <3>1
  <2> QED
    BY <2>1, <2>2, <2>3, <2>4
<1>2. CASE RemoveDestroy(p)
  <2>1. /\ ~At(p, "idle") /\ condemned
        /\ file' = file /\ disk' = disk /\ condemned' = condemned
    BY <1>2, <1>a DEF RemoveDestroy, At, Knows, DoomSteps
  <2>2. /\ At(p, "rm_undefine")'
        /\ \A q \in Procs \ {p} : proc'[q] = proc[q]
    BY <1>2, <1>a, Moves DEF RemoveDestroy
  <2>3. Knows(p)'
    BY <2>1, <2>2 DEF At, Knows, BirthSteps, DoomSteps, ProbeSteps, SeenSteps
  <2> QED
    BY <2>1, <2>2, <2>3, QuietStep
<1>3. CASE RemoveUndefine(p)
  <2>1. /\ ~At(p, "idle") /\ condemned
        /\ file' = file /\ disk' = disk /\ condemned' = condemned
    BY <1>3, <1>a DEF RemoveUndefine, At, Knows, DoomSteps
  <2> DEFINE left == proc[p].uris \ {CurrentUri(p)}
             step == IF left = {} THEN "rm_keys" ELSE "rm_destroy"
  <2>2. Become(p, [proc[p] EXCEPT !.pc = step, !.uris = left])
    BY <1>3 DEF RemoveUndefine
  <2>3. step \in {"rm_keys", "rm_destroy"}
    OBVIOUS
  <2> HIDE DEF left, step
  <2>4. /\ proc'[p] = [proc[p] EXCEPT !.pc = step, !.uris = left]
        /\ \A q \in Procs \ {p} : proc'[q] = proc[q]
    BY <1>a, <2>2 DEF Become, TypeOK
  <2>5. [proc[p] EXCEPT !.pc = step, !.uris = left].pc = step
    BY <1>b, Fields
  <2>6. At(p, "rm_keys")' \/ At(p, "rm_destroy")'
    BY <2>3, <2>4, <2>5 DEF At
  <2>7. Knows(p)'
    BY <2>1, <2>6 DEF At, Knows, BirthSteps, DoomSteps, ProbeSteps, SeenSteps
  <2> QED
    BY <2>1, <2>4, <2>7, QuietStep
<1>4. CASE DeleteKeys(p)
  <2>1. /\ ~At(p, "idle")
        /\ condemned \/ file.kind = "absent"
        /\ file' = file /\ disk' = disk /\ condemned' = condemned
    BY <1>4, <1>a DEF DeleteKeys, At, Knows, DoomSteps, BirthSteps
  <2>2. /\ At(p, "delete")'
        /\ \A q \in Procs \ {p} : proc'[q] = proc[q]
    BY <1>4, <1>a, Moves DEF DeleteKeys
  <2>3. Knows(p)'
    BY <2>1, <2>2 DEF At, Knows, BirthSteps, DoomSteps, ProbeSteps, SeenSteps
  <2> QED
    BY <2>1, <2>2, <2>3, QuietStep
<1>5. ASSUME NEW a \in Artifacts, DeleteState(p, a)
      PROVE  /\ ~At(p, "idle")
             /\ \A q \in Procs \ {p} : proc'[q] = proc[q]
             /\ Knows(p)' /\ NoOrphanedData'
  <2>1. /\ ~At(p, "idle") /\ At(p, "delete")
        /\ condemned \/ file.kind = "absent"
        /\ condemned' = condemned
    BY <1>5, <1>a DEF DeleteState, At, Knows
  <2>2. file.kind = "absent" => file'.kind = "absent"
    BY <1>5 DEF DeleteState, NoFile
  <2>3. a # "file" => a \in Modes
    BY DEF Artifacts, Modes
  <2>4. \A m \in Modes : disk'[m] = disk[m] \/ disk'[m] = "none"
    BY <1>5, <1>a, <2>3 DEF DeleteState, TypeOK
  <2>5. NoOrphanedData'
    BY <1>a, <2>1, <2>4 DEF NoOrphanedData
  <2> DEFINE left == proc[p].todo \ {a}
  <2>6. Finish(p) \/ Become(p, [proc[p] EXCEPT !.todo = left])
    BY <1>5 DEF DeleteState
  <2> HIDE DEF left
  <2>7. [proc[p] EXCEPT !.todo = left].pc = "delete"
    BY <1>b, <2>1, Fields DEF At
  <2>8. /\ At(p, "idle")' \/ At(p, "delete")'
        /\ \A q \in Procs \ {p} : proc'[q] = proc[q]
    <3>1. CASE Finish(p)
      BY <1>a, <3>1, Moves
    <3>2. CASE Become(p, [proc[p] EXCEPT !.todo = left])
      <4>1. /\ proc'[p] = [proc[p] EXCEPT !.todo = left]
            /\ \A q \in Procs \ {p} : proc'[q] = proc[q]
        BY <1>a, <3>2 DEF Become, TypeOK
      <4> QED
        BY <2>7, <4>1 DEF At
    <3> QED
      BY <2>6, <3>1, <3>2
  <2>9. Knows(p)'
    BY <2>1, <2>2, <2>8 DEF At, Knows, BirthSteps, DoomSteps, ProbeSteps, SeenSteps
  <2> QED
    BY <2>1, <2>5, <2>8, <2>9
<1> QED
  BY <1>1, <1>2, <1>3, <1>4, <1>5 DEF RemoveStep

\* What a command does to a disk the guest has written: only a remove, or the
\* rollback of a creation that found no state.json, takes it away.
LEMMA CommandSparesData ==
    ASSUME DataInv, NEW p \in Procs, CommandStep(p)
    PROVE  \A m \in Modes : disk[m] = "data" /\ disk'[m] # "data" => condemned
<1>a. /\ TypeOK /\ Knows(p) /\ NoOrphanedData
      /\ disk \in [Modes -> {"none", "fresh", "data"}]
  BY DEF DataInv, TypeOK
<1>1. CASE CreateDisk(p) \/ \E a \in Artifacts : DeleteState(p, a)
  <2>1. condemned \/ file.kind = "absent"
    BY <1>1, <1>a DEF CreateDisk, DeleteState, Knows, BirthSteps, At
  <2> QED
    BY <1>a, <2>1 DEF NoOrphanedData
<1>2. CASE Boot(p)
  BY <1>2, <1>a DEF Boot
<1>3. CASE \/ StartCheck(p) \/ GenerateKeys(p) \/ DefineNew(p) \/ SaveNew(p)
           \/ Reconfigure(p)
  BY <1>3 DEF StartCheck, GenerateKeys, DefineNew, SaveNew, Reconfigure, ReconfigureLoad,
              RedefineProbe, RedefineUndefine, RedefineDefine, hostVars
<1>4. CASE \/ Load(p) \/ CheckActive(p) \/ FixRunning(p) \/ FixStopped(p) \/ Isolate(p)
           \/ IsolatedRedefine(p) \/ Unisolate(p) \/ SaveRunning(p)
  BY <1>4 DEF Load, CheckActive, FixRunning, FixStopped, Isolate, IsolatedRedefine,
              RedefineProbe, RedefineUndefine, RedefineDefine, Unisolate, SaveRunning, hostVars
<1>5. CASE StopStep(p)
  BY <1>5 DEF StopStep, RestartCheck, StopCheck, StopVM, StopWait, StopIsolation,
              SaveStopped, hostVars
<1>6. CASE RemoveCheck(p) \/ RemoveDestroy(p) \/ RemoveUndefine(p) \/ DeleteKeys(p)
  BY <1>6 DEF RemoveCheck, RemoveDestroy, RemoveUndefine, DeleteKeys, hostVars
<1> QED
  BY <1>1, <1>2, <1>3, <1>4, <1>5, <1>6 DEF CommandStep, StartStep, RemoveStep

\* What the user, the guest and the host do keeps the invariant, and touches no
\* disk; only here does it matter that commands do not overlap.
LEMMA WorldKnows ==
    ASSUME DataInv, ~Concurrent, TypeOK'
    PROVE  /\ \A p \in Procs, cmd \in {"start", "stop", "restart", "remove"}, m \in Modes,
                 force \in BOOLEAN, proj \in BOOLEAN :
                    Invoke(p, cmd, m, force, proj) => DataInv' /\ disk' = disk
           /\ \A p \in Procs : Crash(p) => DataInv' /\ disk' = disk
           /\ \A m \in Modes : GuestHalts(m) \/ Snapshot(m) => DataInv' /\ disk' = disk
           /\ HostReboots => DataInv' /\ disk' = disk
<1>a. TypeOK /\ NoOrphanedData /\ OneAtATime
  BY DEF DataInv
<1>b. Idle \in Process /\ Idle.pc = "idle"
  BY FileTypes DEF Idle, Process, Steps, Modes, Iso
<1>1. ASSUME NEW p \in Procs, NEW cmd \in {"start", "stop", "restart", "remove"},
             NEW m \in Modes, NEW force \in BOOLEAN, NEW proj \in BOOLEAN,
             Invoke(p, cmd, m, force, proj)
      PROVE  DataInv' /\ disk' = disk
  <2>1. /\ \A q \in Procs : At(q, "idle")
        /\ file' = file /\ disk' = disk /\ condemned' = condemned
    BY <1>1 DEF Invoke, hostVars
  <2> DEFINE c == [Idle EXCEPT !.pc = FirstStep[cmd], !.cmd = cmd, !.mode = m,
                               !.force = force, !.proj = proj]
  <2>2. /\ proc'[p] = c
        /\ \A q \in Procs \ {p} : proc'[q] = proc[q]
    BY <1>1, <1>a DEF Invoke, Become, TypeOK
  <2>3. c.pc = FirstStep[cmd]
    BY DEF Idle
  <2>4. FirstStep[cmd] \in {"start_check", "stop_check", "restart_check", "remove_check"}
    BY DEF FirstStep
  <2> HIDE DEF c
  <2>5. \A q \in Procs \ {p} : At(q, "idle")'
    BY <2>1, <2>2 DEF At
  <2>6. OneAtATime'
    BY <2>5 DEF OneAtATime
  <2>7. \A q \in Procs \ {p} : Knows(q)'
    BY <2>5, NothingToKnowNext DEF At
  <2>8. Knows(p)'
    BY <2>2, <2>3, <2>4, NothingToKnowNext
  <2>9. NoOrphanedData'
    BY <2>1, QuietStep
  <2> QED
    BY <2>1, <2>6, <2>7, <2>8, <2>9 DEF DataInv
<1>2. ASSUME NEW p \in Procs, Crash(p) PROVE DataInv' /\ disk' = disk
  <2>1. /\ ~At(p, "idle") /\ disk' = disk /\ condemned' = condemned
        /\ file' = file \/ file'.kind = "torn"
        /\ Finish(p)
    BY <1>2, SaveKeepsFile DEF Crash, hostVars
  <2>2. At(p, "idle")' /\ \A q \in Procs \ {p} : proc'[q] = proc[q]
    BY <1>a, <2>1, Moves
  <2>3. NoOrphanedData'
    BY <1>a, <2>1 DEF NoOrphanedData
  <2>4. Knows(p)'
    BY <2>2, NothingToKnowNext DEF At
  <2> QED
    BY <2>1, <2>2, <2>3, <2>4, OthersIdle
<1>3. ASSUME NEW m \in Modes, GuestHalts(m) \/ Snapshot(m) PROVE DataInv' /\ disk' = disk
  BY <1>3 DEF GuestHalts, Snapshot, DataInv, OneAtATime, Knows, NoOrphanedData, At
<1>4. ASSUME HostReboots PROVE DataInv' /\ disk' = disk
  <2>1. /\ \A q \in Procs : At(q, "idle")'
        /\ file' = file /\ disk' = disk /\ condemned' = condemned
    BY <1>4, <1>b DEF HostReboots, At
  <2>2. OneAtATime' /\ NoOrphanedData'
    BY <2>1, QuietStep DEF OneAtATime
  <2>3. \A q \in Procs : Knows(q)'
    BY <2>1, NothingToKnowNext DEF At
  <2> QED
    BY <2>1, <2>2, <2>3 DEF DataInv
<1> QED
  BY <1>1, <1>2, <1>3, <1>4

\* The invariant holds of a new or a legacy cage.
LEMMA DataInit == Init => DataInv
<1> SUFFICES ASSUME Init PROVE DataInv
  OBVIOUS
<1>1. \A p \in Procs : At(p, "idle")
  BY DEF Init, Idle, At
<1>2. OneAtATime /\ \A p \in Procs : Knows(p)
  BY <1>1, NothingToKnow DEF OneAtATime, At
<1>3. NoOrphanedData
  <2>1. NoCage => \A m \in Modes : disk[m] = "none"
    BY DEF NoCage
  <2>2. LegacyCage => file.kind = "saved"
    BY SaveKeepsFile DEF LegacyCage
  <2> QED
    BY <2>1, <2>2 DEF Init, NoOrphanedData
<1> QED
  BY <1>2, <1>3, InitTypes DEF DataInv

\* Every step keeps it, and no disk is lost unless it is condemned.
LEMMA DataStep ==
    ASSUME ~Concurrent, DataInv, [Next]_vars
    PROVE  /\ DataInv'
           /\ \A m \in Modes : disk[m] = "data" /\ disk'[m] # "data" => condemned
<1>1. TypeOK'
  BY StepTypes DEF DataInv
<1>2. CASE UNCHANGED vars
  BY <1>2 DEF vars, DataInv, TypeOK, OneAtATime, Knows, NoOrphanedData, At
<1>3. ASSUME NEW p \in Procs, CommandStep(p)
      PROVE  /\ DataInv'
             /\ \A m \in Modes : disk[m] = "data" /\ disk'[m] # "data" => condemned
  <2>1. /\ ~At(p, "idle")
        /\ \A q \in Procs \ {p} : proc'[q] = proc[q]
        /\ Knows(p)' /\ NoOrphanedData'
    BY <1>3, StartKnows, StopKnows, RemoveKnows DEF CommandStep
  <2>2. DataInv'
    BY <1>1, <2>1, OthersIdle
  <2> QED
    BY <1>3, <2>2, CommandSparesData
<1>4. Next /\ ~(\E p \in Procs : CommandStep(p)) => DataInv' /\ disk' = disk
  BY <1>1, WorldKnows DEF Next
<1> QED
  BY <1>2, <1>3, <1>4

LEMMA DataInvariance == ~Concurrent => (Spec => []DataInv)
<1> SUFFICES ASSUME ~Concurrent PROVE Spec => []DataInv
  OBVIOUS
<1>1. DataInv /\ [Next]_vars => DataInv'
  BY DataStep
<1> QED
  BY <1>1, DataInit, PTL DEF Spec

\* Guest writes are lost only by a remove, whatever fails, crashes or restarts
\* and whatever state.json is left behind, while commands do not overlap.
THEOREM SafeData == ~Concurrent => (Spec => DataSafe)
<1> SUFFICES ASSUME ~Concurrent PROVE Spec => DataSafe
  OBVIOUS
<1>1. Spec => []DataInv
  BY DataInvariance
<1>2. ASSUME DataInv, [Next]_vars
      PROVE  [\A m \in Modes : disk[m] = "data" /\ disk'[m] # "data" => condemned]_vars
  BY <1>2, DataStep
<1> QED
  BY <1>1, <1>2, PTL DEF Spec, DataSafe

=============================================================================
