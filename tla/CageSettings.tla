------------------------------ MODULE CageSettings ------------------------------
(***************************************************************************)
(* What becomes of a cage's settings: .cage.yml and config.yaml, which the *)
(* user edits at any time, are resolved by each start and end up in three  *)
(* places with lives of their own: the cloud-init ISO, burnt when the cage *)
(* is created; the libvirt domain, defined then and redefined by later     *)
(* starts; and env.sh, which the guest reads through virtiofs.  One cage,  *)
(* one command at a time (overlapping commands: module CageLifecycle).     *)
(***************************************************************************)
EXTENDS Naturals, Sequences

CONSTANTS
    Projects,       \* the .cage.yml files the user writes
    ImageEnv,       \* per image: the env of its manifest
    Names,          \* the names of the variables, sorted as env.sh has them
    Sizes,          \* memory sizes of the default profile in config.yaml
    DefaultSize,    \* the one of a config.yaml that cage writes
    IsolatedSize,   \* 4096 MB: the one of every domain that uses passt
    NoGlobal,       \* no config.yaml
    Faults          \* what may go wrong

SettingsFaults ==
    {"host",        \* an image or any call of libvirt fails
     "disk",        \* a file cannot be written, or only in part
     "crash",       \* a command is killed, also while it writes env.sh
     "hang",        \* the guest ignores the shutdown
     "poweroff"}    \* the guest powers off by itself

Images == DOMAIN ImageEnv
NoSize == 0         \* .cage.yml without memory, config.yaml without profiles
Config == [image: Images, memory: Nat, isolation: BOOLEAN]

ASSUME CageSettingsAssumption ==
    /\ \A p \in Projects :
          /\ [image |-> p.image, memory |-> p.memory, isolation |-> p.isolation] \in Config
          /\ p.valid \in BOOLEAN /\ p.shares \in BOOLEAN
    /\ Sizes \subseteq Nat \ {NoSize} /\ {DefaultSize, IsolatedSize} \subseteq Sizes
    /\ NoGlobal \notin Nat /\ Names \in Seq(STRING)
    /\ Faults \subseteq SettingsFaults

VARIABLES
    root,       \* the cage is used with sudo
    project,    \* .cage.yml, NoProject if there is none
    global,     \* the default profile of config.yaml, NoGlobal without the file
    file,       \* state.json, Broken if a write of it was cut short
    seed,       \* the overlay with its cloud-init ISO
    env,        \* what env.sh exports, nothing if there is no such file
    dom, vm,    \* the domain as defined, and as the running VM has it
    cmd,        \* the command in progress
    block,      \* history: the env: block that a start of this cage last took over
    given,      \* history: what its .cage.yml and image have ever set, and to what
    cut         \* history: the last write of env.sh was cut short

vars == <<root, project, global, file, seed, env, dom, vm, cmd, block, given, cut>>
inputs == <<root, project, global>>
machine == <<dom, vm>>
history == <<block, given, cut>>

NoProject == [image |-> "none"]
NoFile == [status |-> "none"]
Broken == [status |-> "broken"]
NoSeed == [isolation |-> FALSE, reads |-> FALSE, disk |-> FALSE]
NoDomain == [memory |-> NoSize, fs |-> FALSE, passt |-> FALSE]
NoEnv == <<>>

Steps == {"create", "define", "savenew", "reconfigure", "env", "load",
          "isolate", "boot", "save"}
Idle == [pc |-> "idle"]
At(step) == cmd.pc = step
Goto(step) == cmd' = [cmd EXCEPT !.pc = step]
Return == cmd' = Idle
May(fault) == fault \in Faults

Seed ==
    [isolation: BOOLEAN,    \* routes that block private networks
     reads: BOOLEAN,        \* mounts /cage/runtime and sources env.sh
     disk: {TRUE}]
Domain ==
    [memory: Nat,
     fs: BOOLEAN,           \* the virtiofs mount of the runtime directory
     passt: BOOLEAN]        \* on a passt socket

TypeOK ==
    /\ root \in BOOLEAN
    /\ project \in Projects \cup {NoProject}
    /\ global \in Sizes \cup {NoSize, NoGlobal}
    /\ file \in {NoFile, Broken} \/ (file.status \in {"stopped", "running"} /\ file.image \in Images)
    /\ seed \in Seed \cup {NoSeed}
    /\ dom \in Domain \cup {NoDomain} /\ vm \in Domain \cup {NoDomain}
    /\ At("idle") \/ cmd.pc \in Steps
    /\ cmd.pc \in {"reconfigure", "env", "load", "isolate", "boot", "save"} => file # NoFile
    /\ cmd.pc \in {"create", "define", "savenew"} => file = NoFile
    /\ cut \in BOOLEAN

Init ==
    /\ root \in BOOLEAN
    /\ project = NoProject /\ global = NoGlobal
    /\ file = NoFile /\ seed = NoSeed /\ env = NoEnv
    /\ dom = NoDomain /\ vm = NoDomain
    /\ cmd = Idle
    /\ block = NoEnv /\ given = {} /\ cut = FALSE

-----------------------------------------------------------------------------
(***************************************************************************)
(* The user edits .cage.yml and config.yaml, whatever cage is doing.       *)
(***************************************************************************)
Edit ==
    /\ \/ project' \in Projects \ {project} /\ UNCHANGED global
       \/ global' \in (Sizes \cup {NoSize}) \ {global} /\ UNCHANGED project
    /\ UNCHANGED <<root, file, seed, env, machine, cmd, history>>

(***************************************************************************)
(* config.Load writes the defaults if there is no config.yaml and goes on  *)
(* with them even if that fails; a file cut short has no profiles.         *)
(***************************************************************************)
Loaded == IF global = NoGlobal THEN DefaultSize ELSE global
Load ==
    \/ global' = Loaded
    \/ May("disk") /\ global = NoGlobal /\ global' \in {NoGlobal, NoSize}

\* cage config init -f.
InitConfig ==
    /\ At("idle")
    /\ \/ global' = DefaultSize
       \/ May("disk") /\ global' = NoSize
    /\ UNCHANGED <<root, project, file, seed, env, machine, cmd, history>>

\* cage init: a file without env, isolated, with shares under --root.
InitProject ==
    /\ At("idle")
    /\ project' \in {p \in Projects : p.env = NoEnv /\ p.isolation}
    /\ Load \/ UNCHANGED global        \* the former only without --image
    /\ UNCHANGED <<root, file, seed, env, machine, cmd, history>>

-----------------------------------------------------------------------------
(***************************************************************************)
(* ResolveProjectConfig.  The profile must exist even if it is overridden. *)
(***************************************************************************)
Resolves(p, size) == p.valid /\ size # NoSize
Resolved(p, size) ==
    [image |-> p.image, env |-> p.env, isolation |-> p.isolation,
     memory |-> IF p.memory = NoSize THEN size ELSE p.memory]

\* mode.RequiredFromConfig, which looks at .cage.yml and not at the image.
RequiresRoot(p) == p.env # NoEnv \/ p.shares

\* An env on top of another, and the one of a new cage: .cage.yml's on the image's.
Over(e, f) == [v \in DOMAIN e \cup DOMAIN f |-> IF v \in DOMAIN e THEN e[v] ELSE f[v]]
Merged(p) == Over(p.env, ImageEnv[p.image])

\* An env as a set of settings; and what a write of it that is cut short leaves:
\* the exports up to some name (no value has an apostrophe to be cut at).
Pairs(e) == {<<v, e[v]>> : v \in DOMAIN e}
Cuts(e) == {[v \in {w \in DOMAIN e : \E i \in 1..n : Names[i] = w} |-> e[v]] :
                n \in 0..Len(Names)}

(***************************************************************************)
(* cage start next to a .cage.yml, which it reads once.  A cage that state *)
(* .json calls running is not reconfigured.                                *)
(***************************************************************************)
StartHere ==
    LET accepted ==
            /\ Resolves(project, Loaded)
            /\ RequiresRoot(project) => root
            /\ file # NoFile => file # Broken /\ file.image = project.image
        first == IF file = NoFile THEN "create"
                 ELSE IF file.status = "running" THEN "env" ELSE "reconfigure" IN
    /\ At("idle") /\ project # NoProject
    /\ Load
    /\ cmd' = IF accepted
                THEN [pc |-> first, cfg |-> Resolved(project, Loaded),
                      asked |-> project, first |-> first, size |-> Loaded,
                      image |-> project.image]
                ELSE Idle
    /\ given' = IF ~accepted THEN given
                ELSE IF file = NoFile THEN Pairs(Merged(project))
                ELSE given \cup Pairs(project.env)
    /\ UNCHANGED <<root, project, file, seed, env, machine, block, cut>>

\* cage start <name>: no .cage.yml is read.
StartByName ==
    /\ At("idle") /\ file \notin {NoFile, Broken}
    /\ Load
    /\ cmd' = [pc |-> "load", first |-> "load", image |-> file.image]
    /\ UNCHANGED <<root, project, file, seed, env, machine, history>>

-----------------------------------------------------------------------------
\* SaveState overwrites the file in place.
Saves(state) == {state} \cup (IF May("disk") THEN {file, Broken} ELSE {})
DeleteState == file' = NoFile /\ seed' = NoSeed /\ env' = NoEnv

(***************************************************************************)
(* createCageFromConfig up to the ISO.  The image's env is merged under    *)
(* that of .cage.yml, into the map the later steps use.  Only with an env  *)
(* is env.sh written and does the ISO make the guest read it: a directory  *)
(* left by a killed creation may hold another one, cut short or whole.  A  *)
(* creation that fails before it has made the directories does not remove  *)
(* them either.                                                            *)
(***************************************************************************)
Create ==
    LET merged == Over(cmd.cfg.env, ImageEnv[cmd.cfg.image]) IN
    /\ At("create")
    /\ \/ /\ seed' = [isolation |-> cmd.cfg.isolation, reads |-> merged # NoEnv, disk |-> TRUE]
          /\ env' = IF merged # NoEnv THEN merged ELSE env
          /\ cmd' = [cmd EXCEPT !.pc = "define", !.cfg.env = merged]
          /\ UNCHANGED file
       \/ /\ May("host") \/ May("disk")
          /\ DeleteState \/ UNCHANGED <<file, seed, env>>
          /\ Return
       \/ /\ May("crash") /\ merged # NoEnv
          /\ env' \in Cuts(merged)
          /\ Return
          /\ UNCHANGED <<file, seed>>
    /\ UNCHANGED <<inputs, machine, history>>

\* The domain of a new cage has the virtiofs mount only if there is an env.
DefineNew ==
    /\ At("define")
    /\ \/ /\ dom = NoDomain /\ vm = NoDomain
          /\ dom' = [memory |-> cmd.cfg.memory, fs |-> cmd.cfg.env # NoEnv, passt |-> FALSE]
          /\ Goto("savenew")
          /\ UNCHANGED <<file, seed, env>>
       \/ /\ May("host") \/ dom # NoDomain \/ vm # NoDomain
          /\ DeleteState /\ Return
          /\ UNCHANGED dom
    /\ UNCHANGED <<inputs, vm, history>>

\* Wrong variant: a state that cannot be saved is only a warning.
SaveNewIgnored ==
    /\ At("savenew")
    /\ file' \in Saves([status |-> "stopped", image |-> cmd.cfg.image])
    /\ Goto("env")
    /\ block' = cmd.asked.env /\ cut' = FALSE
    /\ UNCHANGED <<inputs, seed, env, machine, given>>

SaveNew ==
    /\ At("savenew")
    /\ \/ /\ file' = [status |-> "stopped", image |-> cmd.cfg.image]
          /\ Goto("env")
          /\ block' = cmd.asked.env /\ cut' = FALSE
       \/ May("disk") /\ file' \in {file, Broken} /\ Return /\ UNCHANGED <<block, cut>>
    /\ UNCHANGED <<inputs, seed, env, machine, given>>

(***************************************************************************)
(* RedefineDomain: undefine and define; if the latter fails there is no    *)
(* domain any more.  A running one, or none, is refused; a running one     *)
(* that libvirt's failure hides is undefined, but not defined again.       *)
(***************************************************************************)
Redefine(d, next) ==
    \/ /\ dom # NoDomain /\ vm = NoDomain
       /\ dom' = d
       /\ Goto(next)
    \/ /\ May("host") \/ dom = NoDomain \/ vm # NoDomain
       /\ dom' \in {dom} \cup (IF May("host") THEN {NoDomain} ELSE {})
       /\ Return

\* Wrong variant: a failed redefinition is only a warning.
ReconfigureForgiving ==
    /\ At("reconfigure")
    /\ \/ Redefine([memory |-> cmd.cfg.memory, fs |-> TRUE, passt |-> FALSE], "env")
       \/ May("host") /\ Goto("env") /\ UNCHANGED dom
    /\ UNCHANGED <<inputs, file, seed, env, vm, history>>

\* cage.Reconfigure passes the runtime directory, whatever the ISO says.
Reconfigure ==
    /\ At("reconfigure")
    /\ Redefine([memory |-> cmd.cfg.memory, fs |-> TRUE, passt |-> FALSE], "env")
    /\ UNCHANGED <<inputs, file, seed, env, vm, history>>

\* Wrong variant: only if the cage is not running yet.
WriteEnvStopped ==
    /\ At("env")
    /\ env' = IF cmd.cfg.env = NoEnv \/ cmd.first = "env" THEN env ELSE cmd.cfg.env
    /\ block' = cmd.asked.env /\ cut' = (cut /\ cmd.cfg.env = NoEnv)
    /\ Goto("load")
    /\ UNCHANGED <<inputs, file, seed, machine, given>>

(***************************************************************************)
(* WriteEnvFile, even for a VM that runs: the start is refused only later. *)
(* A .cage.yml without env leaves env.sh as it is.                         *)
(***************************************************************************)
WriteEnv ==
    /\ At("env")
    /\ \/ /\ env' = IF cmd.cfg.env = NoEnv THEN env ELSE cmd.cfg.env
          /\ block' = cmd.asked.env /\ cut' = (cut /\ cmd.cfg.env = NoEnv)
          /\ Goto("load")
       \/ /\ May("disk") \/ May("crash")
          /\ cmd.cfg.env # NoEnv
          /\ env' \in Cuts(cmd.cfg.env) /\ cut' = TRUE
          /\ Return /\ UNCHANGED block
       \/ May("disk") /\ cmd.cfg.env # NoEnv /\ Return /\ UNCHANGED <<env, block, cut>>
    /\ UNCHANGED <<inputs, file, seed, machine, given>>

-----------------------------------------------------------------------------
(***************************************************************************)
(* startCage corrects state.json by what libvirt says, where they differ.  *)
(* If libvirt does not answer the VM passes for inactive.                  *)
(***************************************************************************)
Corrected(status) ==
    IF file.status = status THEN UNCHANGED file
    ELSE file' \in Saves([file EXCEPT !.status = status])

StartCage ==
    /\ At("load")
    /\ \/ vm # NoDomain /\ Corrected("running") /\ Return
       \/ /\ vm = NoDomain \/ May("host")
          /\ Corrected("stopped")
          /\ Goto(IF root THEN "isolate" ELSE "boot")
    /\ UNCHANGED <<inputs, seed, env, machine, history>>

(***************************************************************************)
(* In root mode the domain is redefined onto passt, with sizes of its own; *)
(* if passt cannot be set up it stays as it is.                            *)
(***************************************************************************)
Isolate ==
    /\ At("isolate")
    /\ \/ Redefine([memory |-> IsolatedSize, fs |-> TRUE, passt |-> TRUE], "boot")
       \/ /\ May("host") /\ UNCHANGED dom
          /\ IF dom.passt THEN Return ELSE Goto("boot")
    /\ UNCHANGED <<inputs, file, seed, env, vm, history>>

Boot ==
    /\ At("boot")
    /\ \/ dom # NoDomain /\ vm = NoDomain /\ vm' = dom /\ Goto("save")
       \/ (May("host") \/ dom = NoDomain \/ vm # NoDomain) /\ Return /\ UNCHANGED vm
    /\ UNCHANGED <<inputs, file, seed, env, dom, history>>

SaveRunning ==
    /\ At("save")
    /\ file' \in Saves([status |-> "running", image |-> cmd.image])
    /\ Return
    /\ UNCHANGED <<inputs, seed, env, machine, history>>

Shutdown == vm' = NoDomain \/ (May("hang") /\ UNCHANGED vm)
Stop ==
    /\ At("idle") /\ file.status = "running"
    /\ Shutdown
    /\ file' \in Saves([file EXCEPT !.status = "stopped"])
    /\ UNCHANGED <<inputs, seed, env, dom, cmd, history>>

\* cage restart: stop, then startCage without a look at .cage.yml.
Restart ==
    /\ At("idle") /\ file.status = "running"
    /\ Shutdown
    /\ \/ /\ file' = [file EXCEPT !.status = "stopped"]
          /\ Load
          /\ cmd' = [pc |-> "load", first |-> "load", image |-> file.image]
       \/ May("disk") /\ file' \in {file, Broken} /\ UNCHANGED <<global, cmd>>
    /\ UNCHANGED <<root, project, seed, env, dom, history>>

\* cage remove, with --force where it takes that; it destroys a VM only if
\* state.json says that it runs.
Remove ==
    /\ At("idle")
    /\ DeleteState
    /\ dom' = NoDomain \/ (May("host") /\ UNCHANGED dom)
    /\ vm' = IF file.status = "running" THEN NoDomain ELSE vm
    /\ block' = NoEnv /\ given' = {} /\ cut' = FALSE
    /\ UNCHANGED <<inputs, cmd>>

PowersOff ==
    /\ May("poweroff") /\ vm # NoDomain /\ vm' = NoDomain
    /\ UNCHANGED <<inputs, file, seed, env, dom, cmd, history>>

Crash ==
    /\ May("crash") /\ ~At("idle") /\ Return
    /\ UNCHANGED <<inputs, file, seed, env, machine, history>>

Next ==
    \/ Edit \/ InitConfig \/ InitProject
    \/ StartHere \/ StartByName
    \/ Create \/ DefineNew \/ SaveNew \/ Reconfigure \/ WriteEnv
    \/ StartCage \/ Isolate \/ Boot \/ SaveRunning
    \/ Stop \/ Restart \/ Remove \/ PowersOff \/ Crash

Spec == Init /\ [][Next]_vars

-----------------------------------------------------------------------------
(***************************************************************************)
(* A start next to a .cage.yml that stays on SLIRP boots a VM of the       *)
(* memory that the files asked for when it read them, whatever was defined *)
(* before, has been edited since or has failed, and one that creates the   *)
(* cage boots it with the routes it read.  Root mode's isolation has a     *)
(* size of its own, and a VM that had powered off unnoticed boots as it    *)
(* was: see IsolatedAsAsked and AlwaysAsAsked.                             *)
(***************************************************************************)
Asked == IF cmd.asked.memory = NoSize THEN cmd.size ELSE cmd.asked.memory

AsConfigured ==
    At("save") /\ vm # NoDomain /\ cmd.first \in {"create", "reconfigure"} =>
        /\ ~vm.passt => vm.memory = Asked
        /\ cmd.first = "create" => seed.isolation = cmd.asked.isolation

(***************************************************************************)
(* What the guest of a cage reads from env.sh was set by a .cage.yml or    *)
(* the image of this very cage, never of one that was here before under    *)
(* its name; and unless a write was cut short, every variable of the env:  *)
(* block last taken over is there with its last value, also if the VM was  *)
(* running then.                                                           *)
(***************************************************************************)
EnvCurrent ==
    vm.fs /\ seed.reads /\ file # NoFile =>
        /\ Pairs(env) \subseteq given
        /\ cut \/ Pairs(block) \subseteq Pairs(env)

-----------------------------------------------------------------------------
(***************************************************************************)
(* What the documentation says and the code does not keep.  The memory of  *)
(* .cage.yml and config.yaml, for the VMs of root mode (README.md).        *)
(***************************************************************************)
IsolatedAsAsked ==
    At("save") /\ vm.passt /\ cmd.first \in {"create", "reconfigure"} => vm.memory = Asked

\* "If cage exists: validates configuration and reconfigures if stopped", also
\* if state.json has not noticed that it is (README.md).
AlwaysAsAsked ==
    At("save") /\ vm # NoDomain /\ ~vm.passt /\ cmd.first # "load" => vm.memory = Asked

\* "Cage rewrites that file whenever the env: block changes": a variable taken
\* out of the block is gone from env.sh (docs/cloud-init.md).
BlockRules ==
    vm.fs /\ seed.reads /\ file \notin {NoFile, Broken} /\ ~cut =>
        Pairs(env) \subseteq Pairs(Over(block, ImageEnv[file.image]))

\* "So build-time envs survive": a variable of the image that the block does not
\* set is in env.sh (start.go).
ImageEnvKept ==
    vm.fs /\ seed.reads /\ file \notin {NoFile, Broken} /\ ~cut =>
        Pairs(Over(block, ImageEnv[file.image])) \subseteq Pairs(env)

\* "Allowing changes without recreating the cage": the guest of a cage started
\* with an env: block reads it, also if the block is new (README.md).
EnvReachesGuest ==
    At("save") /\ vm # NoDomain /\ cmd.first # "load" /\ cmd.asked.env # NoEnv =>
        vm.fs /\ seed.reads

\* "Empty env means no virtiofs mount, which lets libvirt session mode work": nor
\* has the VM that a later start boots in user mode one (start.go).
NoMountWithoutEnv ==
    At("boot") /\ ~root /\ cmd.first # "load" /\ Merged(cmd.asked) = NoEnv => ~dom.fs
=============================================================================
