----------------------------- MODULE CageLifecycle -----------------------------
(***************************************************************************)
(* The life of one cage, as the commands start, stop, restart and remove   *)
(* drive it.  Every invocation is a process of its own and nothing locks   *)
(* the cage: each step below is one file operation or one virsh call, and  *)
(* other invocations, the guest and the host act in between.               *)
(*                                                                         *)
(* A cage is scattered over state.json, a libvirt domain per connection    *)
(* (user mode: qemu:///session, root mode: qemu:///system), a disk overlay *)
(* per mode, SSH keys and, in root mode, a passt process behind a socket.  *)
(***************************************************************************)
EXTENDS Naturals

CONSTANTS
    Procs,          \* concurrently running cage commands
    MaxPasst,       \* bound: passt processes alive at once
    Concurrent,     \* may a command begin while another is running?
    EnvInjected,    \* the cage's configuration has env variables
    Legacy,         \* also start from a cage saved before modes existed
    Faults          \* what may go wrong

FaultKinds ==
    {"image",       \* images, overlay, keys, env, cloud-init or config cannot be had
     "define",      \* virsh define fails
     "start",       \* virsh start fails
     "isolation",   \* passt isolation fails, or passt dies at once
     "save",        \* state.json cannot be written, or only partly
     "crash",       \* the command is killed between two steps
     "hang",        \* the guest ignores the ACPI shutdown for 30 seconds
     "poweroff",    \* the guest powers off on its own
     "reboot",      \* the host restarts
     "snapshot",    \* the user takes a snapshot
     "denied"}      \* user mode has no access to qemu:///system

ASSUME LifecycleAssumption ==
    /\ MaxPasst \in Nat
    /\ Concurrent \in BOOLEAN
    /\ EnvInjected \in BOOLEAN
    /\ Legacy \in BOOLEAN
    /\ Faults \subseteq FaultKinds

VARIABLES
    file,       \* state.json
    dom,        \* the domain cage-<name> on each connection
    snaps,      \* connections on which the domain has snapshots
    disk,       \* disk.qcow2 in each mode's VM directory
    keys,       \* the SSH key pair exists
    passt,      \* passt processes alive
    sock,       \* the one bound to the cage's socket path, or NoPasst
    proc,       \* the commands in progress
    condemned   \* history: a remove was accepted since the last creation

vars == <<file, dom, snaps, disk, keys, passt, sock, proc, condemned>>

Modes == {"user", "root"}
Other(m) == IF m = "user" THEN "root" ELSE "user"

NoPasst == 0
PasstIds == 1..MaxPasst

(***************************************************************************)
(* state.json: absent, cut short by an interrupted write, or a State.      *)
(***************************************************************************)
StateFile == [kind: {"absent", "torn", "saved"}, status: {"stopped", "running"},
              mode: Modes \cup {"unset"}, iso: PasstIds \cup {NoPasst}]

NoFile == [kind |-> "absent", status |-> "stopped", mode |-> "unset", iso |-> NoPasst]
TornFile == [NoFile EXCEPT !.kind = "torn"]
\* Wrong variant: a status nobody else knows.
NewFileCreated(m) == [kind |-> "saved", status |-> "created", mode |-> m, iso |-> NoPasst]
NewFile(m) == [kind |-> "saved", status |-> "stopped", mode |-> m, iso |-> NoPasst]

Saved == file.kind = "saved"

(***************************************************************************)
(* RequireMode: a State without a mode counts as user mode.                *)
(***************************************************************************)
ModeOf(f) == IF f.mode = "unset" THEN "user" ELSE f.mode

(***************************************************************************)
(* What libvirt does (external).  An active domain that is undefined lives *)
(* on as a transient one and vanishes when it halts; an inactive one with  *)
(* snapshots refuses to be undefined; a name in use refuses a definition,  *)
(* because the XML carries no UUID.                                        *)
(***************************************************************************)
Domain == [defined: BOOLEAN, active: BOOLEAN, net: {"slirp", "passt"}, fs: BOOLEAN]
NoDomain == [defined |-> FALSE, active |-> FALSE, net |-> "slirp", fs |-> FALSE]

Known(d) == d.defined \/ d.active
Halted(d) == IF d.defined THEN [d EXCEPT !.active = FALSE] ELSE NoDomain
Undefined(d) == IF d.active THEN [d EXCEPT !.defined = FALSE] ELSE NoDomain
Defined(net, fs) == [defined |-> TRUE, active |-> FALSE, net |-> net, fs |-> fs]

CanUndefine(m) == dom[m].defined /\ (dom[m].active \/ m \notin snaps)

(***************************************************************************)
(* qemu connects to the passt socket when it starts.                       *)
(***************************************************************************)
CanBoot(m) ==
    /\ dom[m].defined
    /\ ~dom[m].active
    /\ disk[m] # "none"
    /\ dom[m].net = "passt" => sock \in passt

(***************************************************************************)
(* Commands in progress.                                                   *)
(***************************************************************************)
Artifacts == {"file", "user", "root"}

StartSteps == {"start_check", "mkdisk", "genkeys", "define", "save_new",
               "rc_load", "rc_probe", "rc_undefine", "rc_define",
               "load", "active", "fix_running", "fix_stopped", "isolate",
               "iso_probe", "iso_undefine", "iso_define", "unisolate",
               "boot", "save_running"}
StopSteps == {"restart_check", "stop_check", "stop_vm", "stop_wait", "stop_iso",
              "save_stopped"}
RemoveSteps == {"remove_check", "rm_destroy", "rm_undefine", "rm_keys"}
DeleteSteps == {"undo_keys", "delete"}
Steps == {"idle"} \cup StartSteps \cup StopSteps \cup RemoveSteps \cup DeleteSteps

Process ==
    [pc: Steps,
     cmd: {"none", "start", "stop", "restart", "remove"},
     mode: Modes,           \* uid 0 or not
     force: BOOLEAN,        \* --force
     proj: BOOLEAN,         \* run next to a .cage.yml
     seen: StateFile,       \* the State loaded from state.json
     mine: PasstIds \cup {NoPasst},     \* passt started by this command
     uris: SUBSET Modes,    \* connections a remove still has to visit
     todo: SUBSET Artifacts]    \* what DeleteState still has to remove

FirstStep == [start |-> "start_check", stop |-> "stop_check",
              restart |-> "restart_check", remove |-> "remove_check"]

Idle == [pc |-> "idle", cmd |-> "none", mode |-> "user", force |-> FALSE,
         proj |-> FALSE, seen |-> NoFile, mine |-> NoPasst, uris |-> {}, todo |-> {}]

TypeOK ==
    /\ file \in StateFile
    /\ dom \in [Modes -> Domain]
    /\ snaps \subseteq Modes
    /\ disk \in [Modes -> {"none", "fresh", "data"}]
    /\ keys \in BOOLEAN
    /\ passt \subseteq PasstIds
    /\ sock \in PasstIds \cup {NoPasst}
    /\ proc \in [Procs -> Process]
    /\ condemned \in BOOLEAN

NoCage ==
    /\ file = NoFile
    /\ dom = [m \in Modes |-> NoDomain]
    /\ disk = [m \in Modes |-> "none"]
    /\ keys = FALSE

LegacyCage ==
    /\ Legacy
    /\ file = NewFile("unset")
    /\ dom = [m \in Modes |-> IF m = "user" THEN Defined("slirp", FALSE) ELSE NoDomain]
    /\ disk = [m \in Modes |-> IF m = "user" THEN "data" ELSE "none"]
    /\ keys = TRUE

Init ==
    /\ NoCage \/ LegacyCage
    /\ snaps = {}
    /\ passt = {}
    /\ sock = NoPasst
    /\ proc = [p \in Procs |-> Idle]
    /\ condemned = FALSE

At(p, step) == proc[p].pc = step
Become(p, c) == proc' = [proc EXCEPT ![p] = c]
Goto(p, step) == Become(p, [proc[p] EXCEPT !.pc = step])
Finish(p) == Become(p, Idle)
May(fault) == fault \in Faults
SetDomain(m, d) == dom' = [dom EXCEPT ![m] = d]

isoVars == <<passt, sock>>
hostVars == <<dom, snaps, disk, keys, passt, sock>>

(***************************************************************************)
(* os.WriteFile truncates before it writes: a failed SaveState leaves the  *)
(* old bytes, or a torn file.                                              *)
(***************************************************************************)
SaveFails == May("save") /\ file' \in {file, TornFile}

(***************************************************************************)
(* A user types a command.                                                 *)
(***************************************************************************)
Invoke(p, cmd, m, force, proj) ==
    /\ At(p, "idle")
    /\ Concurrent \/ \A q \in Procs : At(q, "idle")
    /\ cmd = "start" => ~force
    /\ cmd # "start" => ~proj
    /\ Become(p, [Idle EXCEPT !.pc = FirstStep[cmd], !.cmd = cmd,
                              !.mode = m, !.force = force, !.proj = proj])
    /\ UNCHANGED <<file, hostVars, condemned>>

-----------------------------------------------------------------------------
\* Wrong variant: a state.json that cannot be read counts as no cage.
StartCheckTornIsNew(p) ==
    /\ At(p, "start_check")
    /\ IF Saved THEN Goto(p, "load")
       ELSE IF proc[p].proj THEN Goto(p, "mkdisk") ELSE Finish(p)
    /\ UNCHANGED <<file, hostVars, condemned>>

(***************************************************************************)
(* cage start: runStartCmd.  The mode guard skips a State that cannot be   *)
(* read or has no mode.  A cage without state.json is created; one next to *)
(* its .cage.yml and not recorded as running is reconfigured first.        *)
(***************************************************************************)
StartCheck(p) ==
    /\ At(p, "start_check")
    /\ \/ /\ Saved /\ file.mode \notin {"unset", proc[p].mode}
          /\ Finish(p)
       \/ /\ file.kind = "absent"
          /\ IF proc[p].proj THEN Goto(p, "mkdisk") ELSE Finish(p)
       \/ /\ file.kind = "torn"
          /\ IF proc[p].proj THEN Finish(p) ELSE Goto(p, "load")
       \/ /\ Saved /\ file.mode \in {"unset", proc[p].mode}
          /\ IF proc[p].proj /\ file.status # "running"
                THEN Goto(p, "rc_load")
                ELSE Goto(p, "load")
       \/ May("image") /\ Finish(p)
    /\ UNCHANGED <<file, hostVars, condemned>>

(***************************************************************************)
(* What DeleteState removes: the metadata directory, which in user mode is *)
(* also the VM directory, and in root mode the separate VM directory.      *)
(***************************************************************************)
ArtifactsOf(m) == IF m = "user" THEN {"file", "user"} ELSE Artifacts

Rollback(p, step) ==
    Become(p, [proc[p] EXCEPT !.pc = step, !.todo = ArtifactsOf(proc[p].mode)])

(***************************************************************************)
(* createCageFromConfig: the overlay.  qemu-img cannot take its lock on a  *)
(* file that a running VM uses; otherwise it overwrites what is there.     *)
(***************************************************************************)
CreateDisk(p) ==
    LET m == proc[p].mode IN
    /\ At(p, "mkdisk")
    /\ \/ /\ ~dom[m].active
          /\ disk' = [disk EXCEPT ![m] = "fresh"]
          /\ Goto(p, "genkeys")
       \/ /\ dom[m].active \/ May("image")
          /\ Rollback(p, "delete")
          /\ UNCHANGED disk
    /\ UNCHANGED <<file, dom, snaps, keys, passt, sock, condemned>>

(***************************************************************************)
(* Keys, runtime directory and cloud-init; the rollback of this part does  *)
(* not remove the keys.                                                    *)
(***************************************************************************)
GenerateKeys(p) ==
    /\ At(p, "genkeys")
    /\ \/ keys' = TRUE /\ Goto(p, "define")
       \/ May("image") /\ keys' \in {keys, TRUE} /\ Rollback(p, "delete")
    /\ UNCHANGED <<file, dom, snaps, disk, passt, sock, condemned>>

DefineNew(p) ==
    LET m == proc[p].mode IN
    /\ At(p, "define")
    /\ \/ /\ ~Known(dom[m])
          /\ SetDomain(m, Defined("slirp", EnvInjected))
          /\ snaps' = snaps \ {m}
          /\ Goto(p, "save_new")
       \/ /\ Known(dom[m]) \/ May("define")
          /\ Rollback(p, "undo_keys")
          /\ UNCHANGED <<dom, snaps>>
    /\ UNCHANGED <<file, disk, keys, passt, sock, condemned>>

(***************************************************************************)
(* If the new State cannot be saved nothing is rolled back: the domain,    *)
(* the disk and the keys stay.                                             *)
(***************************************************************************)
SaveNew(p) ==
    /\ At(p, "save_new")
    /\ \/ /\ file' = NewFile(proc[p].mode)
          /\ condemned' = FALSE
          /\ Goto(p, "load")
       \/ SaveFails /\ Finish(p) /\ UNCHANGED condemned
    /\ UNCHANGED hostVars

-----------------------------------------------------------------------------
(***************************************************************************)
(* RedefineDomain is undefine followed by define, behind a check that the  *)
(* domain is not running.  Reconfigure gives up when it fails; the passt   *)
(* redefinition in startCage tears the isolation down again.               *)
(***************************************************************************)
ReconfigureLoad(p) ==
    /\ At(p, "rc_load")
    /\ IF Saved /\ file.status # "running" THEN Goto(p, "rc_probe") ELSE Finish(p)
    /\ UNCHANGED <<file, hostVars, condemned>>

GiveUp(p) == IF At(p, "rc_probe") \/ At(p, "rc_undefine") \/ At(p, "rc_define")
                THEN Finish(p) ELSE Goto(p, "unisolate")

RedefineProbe(p, here, next) ==
    /\ At(p, here)
    /\ IF dom[proc[p].mode].active THEN GiveUp(p) ELSE Goto(p, next)
    /\ UNCHANGED <<file, hostVars, condemned>>

RedefineUndefine(p, here, next) ==
    LET m == proc[p].mode IN
    /\ At(p, here)
    /\ IF CanUndefine(m)
          THEN SetDomain(m, Undefined(dom[m])) /\ Goto(p, next)
          ELSE GiveUp(p) /\ UNCHANGED dom
    /\ UNCHANGED <<file, snaps, disk, keys, passt, sock, condemned>>

RedefineDefine(p, here, next, net) ==
    LET m == proc[p].mode IN
    /\ At(p, here)
    /\ \/ /\ ~Known(dom[m])
          /\ SetDomain(m, Defined(net, TRUE))
          /\ snaps' = snaps \ {m}
          /\ Goto(p, next)
       \/ /\ Known(dom[m]) \/ May("define")
          /\ GiveUp(p)
          /\ UNCHANGED <<dom, snaps>>
    /\ UNCHANGED <<file, disk, keys, passt, sock, condemned>>

Reconfigure(p) ==
    \/ ReconfigureLoad(p)
    \/ RedefineProbe(p, "rc_probe", "rc_undefine")
    \/ RedefineUndefine(p, "rc_undefine", "rc_define")
    \/ RedefineDefine(p, "rc_define", "load", "slirp")

-----------------------------------------------------------------------------
(***************************************************************************)
(* startCage; before it cage start has written the env file, cage restart  *)
(* has read config.yaml, and either may fail.                              *)
(***************************************************************************)
Load(p) ==
    /\ At(p, "load")
    /\ \/ Saved /\ Become(p, [proc[p] EXCEPT !.pc = "active", !.seen = file])
       \/ ~Saved /\ Finish(p)
       \/ May("image") /\ Finish(p)
    /\ UNCHANGED <<file, hostVars, condemned>>

AfterActive(m) == IF m = "root" THEN "isolate" ELSE "boot"

(***************************************************************************)
(* The domain decides, not the State: a VM found active is recorded as     *)
(* running and the command fails; a State that says running without one is *)
(* corrected to stopped.                                                   *)
(***************************************************************************)
CheckActive(p) ==
    LET m == proc[p].mode
        recorded == proc[p].seen.status = "running"
    IN
    /\ At(p, "active")
    /\ IF dom[m].active
          THEN IF recorded THEN Finish(p) ELSE Goto(p, "fix_running")
          ELSE IF recorded THEN Goto(p, "fix_stopped") ELSE Goto(p, AfterActive(m))
    /\ UNCHANGED <<file, hostVars, condemned>>

FixRunning(p) ==
    /\ At(p, "fix_running")
    /\ file' = [proc[p].seen EXCEPT !.status = "running"] \/ SaveFails
    /\ Finish(p)
    /\ UNCHANGED <<hostVars, condemned>>

FixStopped(p) ==
    LET s == [proc[p].seen EXCEPT !.status = "stopped"] IN
    /\ At(p, "fix_stopped")
    /\ file' = s \/ SaveFails
    /\ Become(p, [proc[p] EXCEPT !.pc = AfterActive(proc[p].mode), !.seen = s])
    /\ UNCHANGED <<hostVars, condemned>>

(***************************************************************************)
(* SetupIsolatedNetwork, root mode only: a new passt takes over the socket *)
(* path.  Should it die at once the socket never appears, which is noticed *)
(* only by qemu.  A failure to set up is a warning and the VM is started   *)
(* with the definition it has.                                             *)
(***************************************************************************)
Isolate(p) ==
    /\ At(p, "isolate")
    /\ \/ \E i \in PasstIds \ passt :
             /\ passt' = passt \cup {i}
             /\ sock' = i
             /\ Become(p, [proc[p] EXCEPT !.pc = "iso_probe", !.mine = i])
       \/ \E i \in PasstIds \ passt :
             /\ May("isolation")
             /\ sock' = NoPasst
             /\ Become(p, [proc[p] EXCEPT !.pc = "iso_probe", !.mine = i])
             /\ UNCHANGED passt
       \/ /\ May("isolation") \/ PasstIds \subseteq passt
          /\ sock' \in {sock, NoPasst}
          /\ Goto(p, "boot")
          /\ UNCHANGED passt
    /\ UNCHANGED <<file, dom, snaps, disk, keys, condemned>>

IsolatedRedefine(p) ==
    \/ RedefineProbe(p, "iso_probe", "iso_undefine")
    \/ RedefineUndefine(p, "iso_undefine", "iso_define")
    \/ RedefineDefine(p, "iso_define", "boot", "passt")

(***************************************************************************)
(* IsolatedNetwork.Cleanup: kill the passt it names, remove the socket.    *)
(***************************************************************************)
Cleanup(i) ==
    /\ passt' = passt \ {i}
    /\ sock' = NoPasst

Unisolate(p) ==
    /\ At(p, "unisolate")
    /\ Cleanup(proc[p].mine)
    /\ Finish(p)
    /\ UNCHANGED <<file, dom, snaps, disk, keys, condemned>>

\* Wrong variant: a start that fails is rolled back like a failed creation.
BootOrDelete(p) ==
    LET m == proc[p].mode IN
    /\ At(p, "boot")
    /\ IF CanBoot(m) /\ ~May("start")
          THEN /\ SetDomain(m, [dom[m] EXCEPT !.active = TRUE])
               /\ disk' = [disk EXCEPT ![m] = "data"]
               /\ Goto(p, "save_running")
          ELSE Rollback(p, "delete") /\ UNCHANGED <<dom, disk>>
    /\ UNCHANGED <<file, snaps, keys, passt, sock, condemned>>

(***************************************************************************)
(* virsh start.  From here on the guest writes to the disk.                *)
(***************************************************************************)
Boot(p) ==
    LET m == proc[p].mode IN
    /\ At(p, "boot")
    /\ \/ /\ CanBoot(m)
          /\ SetDomain(m, [dom[m] EXCEPT !.active = TRUE])
          /\ disk' = [disk EXCEPT ![m] = "data"]
          /\ Goto(p, "save_running")
       \/ /\ ~CanBoot(m) \/ May("start")
          /\ IF proc[p].mine = NoPasst THEN Finish(p) ELSE Goto(p, "unisolate")
          /\ UNCHANGED <<dom, disk>>
    /\ UNCHANGED <<file, snaps, keys, passt, sock, condemned>>

\* Wrong variant: the new passt is not recorded.
SaveRunningOldNetwork(p) ==
    /\ At(p, "save_running")
    /\ file' = [proc[p].seen EXCEPT !.status = "running"] \/ SaveFails
    /\ Finish(p)
    /\ UNCHANGED <<hostVars, condemned>>

SaveRunning(p) ==
    LET iso == IF proc[p].mine = NoPasst THEN proc[p].seen.iso ELSE proc[p].mine IN
    /\ At(p, "save_running")
    /\ file' = [proc[p].seen EXCEPT !.status = "running", !.iso = iso] \/ SaveFails
    /\ Finish(p)
    /\ UNCHANGED <<hostVars, condemned>>

StartStep(p) ==
    \/ StartCheck(p) \/ CreateDisk(p) \/ GenerateKeys(p) \/ DefineNew(p) \/ SaveNew(p)
    \/ Reconfigure(p)
    \/ Load(p) \/ CheckActive(p) \/ FixRunning(p) \/ FixStopped(p)
    \/ Isolate(p) \/ IsolatedRedefine(p) \/ Unisolate(p)
    \/ Boot(p) \/ SaveRunning(p)

-----------------------------------------------------------------------------
(***************************************************************************)
(* cage stop and cage restart.                                             *)
(***************************************************************************)
RestartCheck(p) ==
    /\ At(p, "restart_check")
    /\ IF Saved /\ file.status = "running" THEN Goto(p, "stop_check") ELSE Finish(p)
    /\ UNCHANGED <<file, hostVars, condemned>>

StopCheck(p) ==
    /\ At(p, "stop_check")
    /\ IF Saved /\ ModeOf(file) = proc[p].mode /\ file.status = "running"
          THEN Become(p, [proc[p] EXCEPT !.pc = "stop_vm", !.seen = file])
          ELSE Finish(p)
    /\ UNCHANGED <<file, hostVars, condemned>>

(***************************************************************************)
(* virsh destroy, or an ACPI request the guest may take its time over.     *)
(* Either failing is only a warning.                                       *)
(***************************************************************************)
StopVM(p) ==
    LET m == proc[p].mode IN
    /\ At(p, "stop_vm")
    /\ IF proc[p].force THEN SetDomain(m, Halted(dom[m])) ELSE UNCHANGED dom
    /\ Goto(p, "stop_wait")
    /\ UNCHANGED <<file, snaps, disk, keys, passt, sock, condemned>>

\* Wrong variants: the stop does not wait, or waits for the domain to be gone.
StopAtOnce(p) ==
    /\ At(p, "stop_wait")
    /\ Goto(p, IF proc[p].seen.iso = NoPasst THEN "save_stopped" ELSE "stop_iso")
    /\ UNCHANGED <<file, hostVars, condemned>>

StopWaitGone(p) ==
    /\ At(p, "stop_wait")
    /\ ~Known(dom[proc[p].mode])
    /\ Goto(p, IF proc[p].seen.iso = NoPasst THEN "save_stopped" ELSE "stop_iso")
    /\ UNCHANGED <<file, hostVars, condemned>>

(***************************************************************************)
(* WaitForDomainStopped; its timeout too is only a warning.                *)
(***************************************************************************)
StopWait(p) ==
    /\ At(p, "stop_wait")
    /\ ~dom[proc[p].mode].active \/ May("hang")
    /\ Goto(p, IF proc[p].seen.iso = NoPasst THEN "save_stopped" ELSE "stop_iso")
    /\ UNCHANGED <<file, hostVars, condemned>>

StopIsolation(p) ==
    /\ At(p, "stop_iso")
    /\ Cleanup(proc[p].seen.iso)
    /\ Goto(p, "save_stopped")
    /\ UNCHANGED <<file, dom, snaps, disk, keys, condemned>>

(***************************************************************************)
(* restart goes on with startCage, unless the stop failed.                 *)
(***************************************************************************)
SaveStopped(p) ==
    /\ At(p, "save_stopped")
    /\ \/ /\ file' = [proc[p].seen EXCEPT !.status = "stopped", !.iso = NoPasst]
          /\ IF proc[p].cmd = "restart"
                THEN Become(p, [proc[p] EXCEPT !.pc = "load", !.seen = NoFile])
                ELSE Finish(p)
       \/ SaveFails /\ Finish(p)
    /\ UNCHANGED <<hostVars, condemned>>

StopStep(p) ==
    \/ RestartCheck(p) \/ StopCheck(p) \/ StopVM(p) \/ StopWait(p)
    \/ StopIsolation(p) \/ SaveStopped(p)

-----------------------------------------------------------------------------
(***************************************************************************)
(* cage remove.  With --force a State in the other mode, a running one and *)
(* even a missing one are accepted, and both connections are visited.      *)
(***************************************************************************)
RemoveAccepted(p) ==
    \/ proc[p].force
    \/ Saved /\ ModeOf(file) = proc[p].mode /\ file.status # "running"

\* Wrong variant: --force visits one connection only.
RemoveCheckOneUri(p) ==
    /\ At(p, "remove_check")
    /\ IF RemoveAccepted(p)
          THEN /\ condemned' = TRUE
               /\ Become(p, [proc[p] EXCEPT !.pc = "rm_destroy", !.seen = file,
                                            !.uris = {proc[p].mode}])
          ELSE Finish(p) /\ UNCHANGED condemned
    /\ UNCHANGED <<file, hostVars>>

RemoveCheck(p) ==
    LET m == proc[p].mode IN
    /\ At(p, "remove_check")
    /\ IF RemoveAccepted(p)
          THEN /\ condemned' = TRUE
               /\ Become(p, [proc[p] EXCEPT
                     !.pc = "rm_destroy",
                     !.seen = file,
                     !.uris = IF proc[p].force THEN Modes ELSE {m}])
          ELSE Finish(p) /\ UNCHANGED condemned
    /\ UNCHANGED <<file, hostVars>>

CurrentUri(p) == IF proc[p].mode \in proc[p].uris THEN proc[p].mode ELSE Other(proc[p].mode)

(***************************************************************************)
(* A user's virsh call on qemu:///system may be refused.                   *)
(***************************************************************************)
Refused(p) == May("denied") /\ proc[p].mode = "user" /\ CurrentUri(p) = "root"

(***************************************************************************)
(* The VM is destroyed only if the State was read and says running.        *)
(***************************************************************************)
RemoveDestroy(p) ==
    LET u == CurrentUri(p) IN
    /\ At(p, "rm_destroy")
    /\ \/ /\ proc[p].seen.kind = "saved" /\ proc[p].seen.status = "running"
          /\ SetDomain(u, Halted(dom[u]))
       \/ /\ proc[p].seen.kind # "saved" \/ proc[p].seen.status # "running" \/ Refused(p)
          /\ UNCHANGED dom
    /\ Goto(p, "rm_undefine")
    /\ UNCHANGED <<file, snaps, disk, keys, passt, sock, condemned>>

(***************************************************************************)
(* An undefine that fails is a warning, or silent under --force.           *)
(***************************************************************************)
RemoveUndefine(p) ==
    LET u == CurrentUri(p)
        left == proc[p].uris \ {u}
    IN
    /\ At(p, "rm_undefine")
    /\ \/ CanUndefine(u) /\ SetDomain(u, Undefined(dom[u]))
       \/ (~CanUndefine(u) \/ Refused(p)) /\ UNCHANGED dom
    /\ Become(p, [proc[p] EXCEPT !.pc = IF left = {} THEN "rm_keys" ELSE "rm_destroy",
                                 !.uris = left])
    /\ UNCHANGED <<file, snaps, disk, keys, passt, sock, condemned>>

DeleteKeys(p) ==
    /\ At(p, "rm_keys") \/ At(p, "undo_keys")
    /\ keys' = FALSE
    /\ Rollback(p, "delete")
    /\ UNCHANGED <<file, dom, snaps, disk, passt, sock, condemned>>

(***************************************************************************)
(* DeleteState: RemoveAll of the metadata directory, in whatever order the *)
(* directory lists its entries, then of the root-mode VM directory.        *)
(***************************************************************************)
DeleteState(p, a) ==
    /\ At(p, "delete")
    /\ a \in proc[p].todo
    /\ a = "root" => proc[p].todo = {"root"}
    /\ IF a = "file"
          THEN file' = NoFile /\ UNCHANGED disk
          ELSE disk' = [disk EXCEPT ![a] = "none"] /\ UNCHANGED file
    /\ IF proc[p].todo = {a}
          THEN Finish(p)
          ELSE Become(p, [proc[p] EXCEPT !.todo = @ \ {a}])
    /\ UNCHANGED <<dom, snaps, keys, passt, sock, condemned>>

RemoveStep(p) ==
    \/ RemoveCheck(p) \/ RemoveDestroy(p) \/ RemoveUndefine(p)
    \/ DeleteKeys(p) \/ \E a \in Artifacts : DeleteState(p, a)

-----------------------------------------------------------------------------
(***************************************************************************)
(* The world around the commands.                                          *)
(***************************************************************************)

\* The command dies; in the middle of a SaveState it leaves a torn file.
Crash(p) ==
    /\ May("crash")
    /\ ~At(p, "idle")
    /\ \/ UNCHANGED file
       \/ /\ proc[p].pc \in {"save_new", "fix_running", "fix_stopped", "save_running",
                             "save_stopped"}
          /\ file' = TornFile
    /\ Finish(p)
    /\ UNCHANGED <<hostVars, condemned>>

\* The guest powers off, because it was asked to or on its own.
Asked(m) == \E p \in Procs : At(p, "stop_wait") /\ proc[p].mode = m

GuestHalts(m) ==
    /\ dom[m].active
    /\ Asked(m) \/ May("poweroff")
    /\ SetDomain(m, Halted(dom[m]))
    /\ UNCHANGED <<file, snaps, disk, keys, passt, sock, proc, condemned>>

HostReboots ==
    /\ May("reboot")
    /\ dom' = [m \in Modes |-> Halted(dom[m])]
    /\ passt' = {}
    /\ sock' = NoPasst
    /\ proc' = [p \in Procs |-> Idle]
    /\ UNCHANGED <<file, snaps, disk, keys, condemned>>

\* cage snapshot create / delete --all
Snapshot(m) ==
    /\ May("snapshot")
    /\ dom[m].defined
    /\ snaps' \in {snaps \cup {m}, snaps \ {m}}
    /\ UNCHANGED <<file, dom, disk, keys, passt, sock, proc, condemned>>

CommandStep(p) == StartStep(p) \/ StopStep(p) \/ RemoveStep(p)

Next ==
    \/ \E p \in Procs :
          \/ \E cmd \in {"start", "stop", "restart", "remove"}, m \in Modes,
                force \in BOOLEAN, proj \in BOOLEAN : Invoke(p, cmd, m, force, proj)
          \/ CommandStep(p)
          \/ Crash(p)
    \/ \E m \in Modes : GuestHalts(m) \/ Snapshot(m)
    \/ HostReboots

Spec == Init /\ [][Next]_vars

(***************************************************************************)
(* A command keeps running, and a guest that was asked to shut down does.  *)
(***************************************************************************)
Fairness ==
    /\ \A p \in Procs : WF_vars(CommandStep(p))
    /\ \A m \in Modes : WF_vars(Asked(m) /\ GuestHalts(m))

FairSpec == Spec /\ Fairness

-----------------------------------------------------------------------------
(***************************************************************************)
(* Correctness.                                                            *)
(***************************************************************************)

\* Guest writes are lost only by a remove: no failed start, rollback, crash,
\* torn state.json or host restart ever deletes or overwrites a disk the guest
\* has run on, as long as commands do not overlap.
DataSafe ==
    [][\A m \in Modes : disk[m] = "data" /\ disk'[m] # "data" => condemned]_vars

\* A definition never outlives its disk: a domain that libvirt still lists can
\* be booted (create builds the disk before it defines, remove undefines
\* before it deletes).
DefinedHasDisk == \A m \in Modes : dom[m].defined => disk[m] # "none"

AllIdle == \A p \in Procs : At(p, "idle")

\* Between commands state.json tells the truth: an active VM is recorded as
\* running, in the mode of its connection and with everything it needs to be
\* reached and stopped; a cage that is gone has left no domain behind.
TruthfulState ==
    AllIdle =>
        \A m \in Modes :
            /\ dom[m].active =>
                  /\ Saved /\ file.status = "running" /\ file.mode = m
                  /\ dom[m].defined /\ disk[m] = "data" /\ keys
            /\ file.kind = "absent" => ~Known(dom[m])

\* The VM has the network it was defined with: the passt that state.json
\* records, and that a later stop will kill, is the one serving its socket.
NetworkServed ==
    AllIdle =>
        \A m \in Modes :
            dom[m].active /\ dom[m].net = "passt" => sock \in passt /\ file.iso = sock

\* Every command ends: it never waits for a domain that will not change.
CommandEnds == \A p \in Procs : ~At(p, "idle") ~> At(p, "idle")

(***************************************************************************)
(* The promise of module Cage, read off the cage's parts.                  *)
(***************************************************************************)
Active == \E m \in Modes : dom[m].active

Life ==
    IF condemned THEN IF file.kind = "absent" /\ ~Active THEN "absent" ELSE "doomed"
    ELSE IF file.kind = "absent" THEN "absent"
    ELSE IF Active THEN "running" ELSE "stopped"

KeptData ==
    Life \in {"stopped", "running"} /\ \E m \in Modes : file.mode = m /\ disk[m] = "data"

Promise == INSTANCE Cage WITH life <- Life, data <- KeptData
KeepsPromise == Promise!Spec

=============================================================================
