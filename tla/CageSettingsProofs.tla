--------------------------- MODULE CageSettingsProofs ---------------------------
(***************************************************************************)
(* What holds of a cage's settings for any .cage.yml files, images and     *)
(* sizes, whenever the user edits them and whatever fails.                 *)
(***************************************************************************)
EXTENDS CageSettings, TLAPS

(***************************************************************************)
(* A start by name knows the image alone, one next to a .cage.yml what it  *)
(* has read; the image's env has been merged in once the ISO is made.      *)
(***************************************************************************)
NamedSteps == {"load", "isolate", "boot", "save"}
NamedStart(step, image) == [pc |-> step, first |-> "load", image |-> image]

Firsts == {"create", "reconfigure", "env"}
Wanted(asked, size) == IF asked.memory = NoSize THEN size ELSE asked.memory
EnvAt(step, asked, first) ==
    IF first = "create" /\ step # "create" THEN Merged(asked) ELSE asked.env
HereStart(step, asked, first, size) ==
    [pc |-> step,
     cfg |-> [image |-> asked.image, env |-> EnvAt(step, asked, first),
              isolation |-> asked.isolation, memory |-> Wanted(asked, size)],
     asked |-> asked, first |-> first, size |-> size, image |-> asked.image]

InOrder(step, first) ==
    /\ step \in {"create", "define", "savenew"} => first = "create"
    /\ step = "reconfigure" => first = "reconfigure"

Commands ==
    {Idle} \cup {NamedStart(step, image) : step \in NamedSteps, image \in Images} \cup
    {HereStart(step, asked, first, size) :
        step \in Steps, asked \in Projects, first \in Firsts, size \in Sizes}

States == [status: {"stopped", "running"}, image: Images]

(***************************************************************************)
(* The inductive invariant.  What a start that defines the domain itself   *)
(* has defined is what its files asked for, and stays so until it boots.   *)
(***************************************************************************)
AsAsked(d) == ~d.passt => d.memory = Wanted(cmd.asked, cmd.size)
Defines == cmd.first \in {"create", "reconfigure"}

Shaped ==
    /\ TypeOK
    /\ file \in {NoFile, Broken} \cup States
    /\ cmd.pc \in {"reconfigure", "env", "load"} => file \in States
    /\ cmd \in Commands
    /\ ~At("idle") => InOrder(cmd.pc, cmd.first)
Defined ==
    /\ cmd.pc \in {"savenew", "env", "load", "isolate", "boot", "save"} /\ Defines => AsAsked(dom)
    /\ cmd.pc \in Steps \ {"create"} /\ cmd.first = "create" =>
           seed.isolation = cmd.asked.isolation
    /\ At("savenew") => vm = NoDomain
    /\ At("save") => vm \in {NoDomain, dom}

(***************************************************************************)
(* env.sh holds what was given to a cage with a state, and the whole block *)
(* unless it was cut short; until there is a state, it is what the         *)
(* creation in progress merged.  A creation that could not write           *)
(* state.json whole leaves a cage that never boots.                        *)
(***************************************************************************)
Current == Pairs(env) \subseteq given /\ (cut \/ Pairs(block) \subseteq Pairs(env))
Stillborn == At("idle") /\ file = Broken /\ vm = NoDomain
Written ==
    /\ file # NoFile /\ seed.reads => Current \/ Stillborn
    /\ cmd.pc \in {"define", "savenew", "env"} /\ cmd.first = "create" /\ seed.reads =>
           Merged(cmd.asked) # NoEnv /\ env = Merged(cmd.asked)

\* The env that a start in progress writes is given to the cage already.
Writing == {"create", "define", "savenew", "reconfigure", "env"}
Own == IF cmd.first = "create" THEN Merged(cmd.asked) ELSE cmd.asked.env
Given == cmd.pc \in Writing => Pairs(Own) \subseteq given

SettingsInv == Shaped /\ Defined /\ Written /\ Given

-----------------------------------------------------------------------------
\* Commands and files: what they are, and how they differ.
LEMMA Numbers ==
    /\ Sizes \subseteq Nat /\ NoSize \notin Sizes /\ NoGlobal \notin Nat
    /\ DefaultSize \in Sizes /\ IsolatedSize \in Sizes
    /\ \A p \in Projects : /\ p.image \in Images /\ p.memory \in Nat
                           /\ p.isolation \in BOOLEAN
BY CageSettingsAssumption DEF Config, NoSize

LEMMA Files ==
    /\ NoFile # Broken
    /\ \A f \in States : /\ f # NoFile /\ f # Broken /\ f.status \in {"stopped", "running"}
                          /\ f.image \in Images
    /\ \A i \in Images : \A s \in {"stopped", "running"} : [status |-> s, image |-> i] \in States
    /\ \A f \in States : \A s \in {"stopped", "running"} : [f EXCEPT !.status = s] \in States
BY DEF NoFile, Broken, States

LEMMA HereIs ==
    ASSUME NEW step, NEW asked, NEW first, NEW size
    PROVE  LET c == HereStart(step, asked, first, size)
           IN  /\ c.pc = step /\ c.asked = asked /\ c.first = first /\ c.size = size
               /\ c.image = asked.image /\ c.cfg.memory = Wanted(asked, size)
               /\ c.cfg.isolation = asked.isolation /\ c.cfg.image = asked.image
               /\ c.cfg.env = EnvAt(step, asked, first)
BY DEF HereStart

\* The start next to a .cage.yml that is in progress.
LEMMA IsHere ==
    ASSUME cmd \in Commands, cmd.pc \in Steps \ NamedSteps
    PROVE  \E asked \in Projects, first \in Firsts, size \in Sizes :
               cmd = HereStart(cmd.pc, asked, first, size)
<1>1. cmd # Idle
  BY DEF Idle, Steps
<1>2. \A step \in NamedSteps, image \in Images : cmd # NamedStart(step, image)
  BY DEF NamedStart, NamedSteps
<1>3. PICK step \in Steps, asked \in Projects, first \in Firsts, size \in Sizes :
         cmd = HereStart(step, asked, first, size)
  BY <1>1, <1>2 DEF Commands
<1>4. cmd.pc = step
  BY <1>3, HereIs
<1> QED
  BY <1>3, <1>4

\* It is no start by name.
LEMMA IsHereStart ==
    ASSUME cmd \in Commands, cmd.pc \in Steps \ NamedSteps
    PROVE  cmd.first \in Firsts /\ cmd.first # "load"
<1>1. PICK asked \in Projects, first \in Firsts, size \in Sizes :
         cmd = HereStart(cmd.pc, asked, first, size)
  BY IsHere
<1>2. cmd.first = first
  BY <1>1, HereIs
<1> QED
  BY <1>2 DEF Firsts

\* Or whichever start.
LEMMA IsStart ==
    ASSUME cmd \in Commands, cmd.pc \in Steps
    PROVE  \/ \E image \in Images : cmd.pc \in NamedSteps /\ cmd = NamedStart(cmd.pc, image)
           \/ \E asked \in Projects, first \in Firsts, size \in Sizes :
                  cmd = HereStart(cmd.pc, asked, first, size)
<1>1. cmd # Idle
  BY DEF Idle, Steps
<1>2. ASSUME NEW step \in NamedSteps, NEW image \in Images, cmd = NamedStart(step, image)
      PROVE  cmd.pc = step
  BY <1>2 DEF NamedStart
<1>3. ASSUME NEW step \in Steps, NEW asked \in Projects, NEW first \in Firsts,
             NEW size \in Sizes, cmd = HereStart(step, asked, first, size)
      PROVE  cmd.pc = step
  BY <1>3, HereIs
<1> QED
  BY <1>1, <1>2, <1>3 DEF Commands

\* A start that goes on to a later step.
LEMMA Goes ==
    ASSUME cmd \in Commands, cmd.pc \in Steps \ {"create"},
           NEW next \in Steps \ {"create"},
           next \in NamedSteps \/ cmd.pc \notin NamedSteps,
           Goto(next)
    PROVE  /\ cmd' \in Commands /\ cmd'.pc = next /\ cmd'.first = cmd.first
           /\ cmd'.first # "load" => cmd'.asked = cmd.asked /\ cmd'.size = cmd.size
<1>1. ASSUME NEW image \in Images, cmd.pc \in NamedSteps, cmd = NamedStart(cmd.pc, image)
      PROVE  /\ cmd' = NamedStart(next, image) /\ next \in NamedSteps
             /\ cmd'.pc = next /\ cmd'.first = cmd.first /\ cmd'.first = "load"
  <2>1. PICK step : step = cmd.pc
    OBVIOUS
  <2>2. cmd = NamedStart(step, image)
    BY <1>1, <2>1
  <2> QED
    BY <1>1, <2>2 DEF NamedStart, Goto
<1>2. ASSUME NEW asked \in Projects, NEW first \in Firsts, NEW size \in Sizes,
             cmd = HereStart(cmd.pc, asked, first, size)
      PROVE  /\ cmd' = HereStart(next, asked, first, size)
             /\ cmd'.pc = next /\ cmd'.first = cmd.first
             /\ cmd'.asked = cmd.asked /\ cmd'.size = cmd.size
  <2>1. PICK step \in Steps \ {"create"} : step = cmd.pc
    OBVIOUS
  <2>2. cmd = HereStart(step, asked, first, size)
    BY <1>2, <2>1
  <2>3. EnvAt(step, asked, first) = EnvAt(next, asked, first)
    BY DEF EnvAt
  <2>4. cmd' = HereStart(next, asked, first, size)
    BY <2>2, <2>3 DEF HereStart, Goto
  <2> QED
    BY <2>2, <2>4, HereIs
<1>3. CASE \E image \in Images : cmd.pc \in NamedSteps /\ cmd = NamedStart(cmd.pc, image)
  BY <1>1, <1>3 DEF Commands
<1>4. CASE \E asked \in Projects, first \in Firsts, size \in Sizes :
              cmd = HereStart(cmd.pc, asked, first, size)
  BY <1>2, <1>4 DEF Commands
<1> QED
  BY <1>3, <1>4, IsStart

-----------------------------------------------------------------------------
Inputs ==
    /\ root \in BOOLEAN
    /\ project \in Projects \cup {NoProject}
    /\ global \in Sizes \cup {NoSize, NoGlobal}
Machine == dom \in Domain \cup {NoDomain} /\ vm \in Domain \cup {NoDomain}

LEMMA LoadedIs ==
    ASSUME Inputs
    PROVE  /\ Loaded \in Sizes \cup {NoSize}
           /\ Load => global' \in Sizes \cup {NoSize, NoGlobal}
BY Numbers DEF Inputs, Loaded, Load

\* What may follow when no command is in progress afterwards.
LEMMA Rests ==
    ASSUME Inputs', Machine', file' \in {NoFile, Broken} \cup States,
           seed' \in Seed \cup {NoSeed}, cut' \in BOOLEAN, cmd' = Idle,
           file' # NoFile /\ seed'.reads => Current' \/ Stillborn'
    PROVE  SettingsInv'
<1>1. /\ cmd'.pc = "idle" /\ cmd' \in Commands
      /\ cmd'.pc \notin Steps
  BY DEF Idle, Commands, Steps
<1>2. TypeOK'
  BY <1>1, Files DEF Inputs, Machine, TypeOK, At
<1>3. Shaped'
  BY <1>1, <1>2 DEF Shaped, At
<1>4. Defined'
  BY <1>1 DEF Defined, At, Steps
<1>5. Written' /\ Given'
  BY <1>1 DEF Written, Given, Writing
<1> QED
  BY <1>3, <1>4, <1>5 DEF SettingsInv

\* What may follow while a start is in progress that has the cage's state.
LEMMA GoesOn ==
    ASSUME SettingsInv, Inputs', Machine',
           cmd.pc \in Steps \ {"create", "savenew"},
           NEW next \in Steps \ {"create", "define", "savenew", "reconfigure"},
           next \in NamedSteps \/ cmd.pc \notin NamedSteps,
           Goto(next),
           file' \in {Broken} \cup States,
           next \in {"env", "load"} => file' \in States,
           seed' = seed, cut' \in BOOLEAN, given' = given,
           cmd.first \in {"create", "reconfigure"} =>
               (~dom'.passt => dom'.memory = Wanted(cmd.asked, cmd.size)),
           next = "save" => vm' \in {NoDomain, dom'},
           seed.reads => Current',
           next # "env" \/ cmd.first # "create"
    PROVE  SettingsInv'
<1>1. /\ cmd' \in Commands /\ cmd'.pc = next /\ cmd'.first = cmd.first
      /\ cmd'.first # "load" => cmd'.asked = cmd.asked /\ cmd'.size = cmd.size
  BY Goes DEF SettingsInv, Shaped
<1>2. TypeOK'
  BY <1>1, Files DEF Inputs, Machine, TypeOK, At, Steps, SettingsInv, Shaped
<1>3. Shaped'
  BY <1>1, <1>2 DEF Shaped, At, InOrder
<1>4. Defined'
  <2>1. cmd.first = "create" => seed.isolation = cmd.asked.isolation
    BY DEF SettingsInv, Defined
  <2> QED
    BY <1>1, <2>1 DEF Defined, AsAsked, Defines, At
<1>5. Written'
  BY <1>1 DEF Written
<1>6. Given'
  <2> SUFFICES ASSUME next = "env" PROVE Given'
    BY <1>1 DEF Given, Writing, Steps
  <2>1. cmd.pc \in Writing /\ cmd.first # "load"
    BY IsHereStart DEF SettingsInv, Shaped, NamedSteps, Steps, Writing
  <2>2. Own' = Own
    BY <1>1, <2>1 DEF Own
  <2> QED
    BY <2>1, <2>2 DEF SettingsInv, Given
<1> QED
  BY <1>3, <1>4, <1>5, <1>6 DEF SettingsInv

\* What may follow a step of somebody else.
LEMMA Aside ==
    ASSUME SettingsInv, Inputs', UNCHANGED <<file, seed, env, dom, cmd, history>>,
           vm' = vm \/ vm' = NoDomain
    PROVE  SettingsInv'
<1>1. Shaped'
  BY DEF SettingsInv, Shaped, TypeOK, Inputs, At, history
<1>2. Defined'
  BY DEF SettingsInv, Defined, AsAsked, Defines, At
<1>3. Written'
  BY DEF SettingsInv, Written, Current, Stillborn, At, history
<1>4. Given'
  BY DEF SettingsInv, Given, Own, history
<1> QED
  BY <1>1, <1>2, <1>3, <1>4 DEF SettingsInv

LEMMA Known ==
    ASSUME SettingsInv
    PROVE  /\ Inputs /\ Machine /\ file \in {NoFile, Broken} \cup States
           /\ seed \in Seed \cup {NoSeed} /\ cut \in BOOLEAN /\ cmd \in Commands
           /\ ~At("idle") => cmd.pc \in Steps /\ InOrder(cmd.pc, cmd.first)
           /\ file # NoFile /\ seed.reads => Current \/ Stillborn
           /\ cmd.pc \in {"reconfigure", "env", "load", "isolate", "boot", "save"} => file # NoFile
           /\ cmd.pc \in {"create", "define", "savenew"} => file = NoFile
BY DEF SettingsInv, Shaped, TypeOK, Inputs, Machine, Written

-----------------------------------------------------------------------------
LEMMA AsideStep ==
    ASSUME SettingsInv, Edit \/ InitConfig \/ InitProject \/ PowersOff
    PROVE  SettingsInv'
<1>1. Inputs'
  <2>1. Inputs /\ DefaultSize \in Sizes
    BY Known, Numbers
  <2>2. CASE Edit
    BY <2>1, <2>2 DEF Edit, Inputs
  <2>3. CASE InitConfig
    BY <2>1, <2>3 DEF InitConfig, Inputs
  <2>4. CASE InitProject
    BY <2>1, <2>4, LoadedIs DEF InitProject, Inputs
  <2>5. CASE PowersOff
    BY <2>1, <2>5 DEF PowersOff, Inputs, inputs
  <2> QED
    BY <2>2, <2>3, <2>4, <2>5
<1>2. UNCHANGED <<file, seed, env, dom, cmd, history>> /\ (vm' = vm \/ vm' = NoDomain)
  BY DEF Edit, InitConfig, InitProject, PowersOff, machine
<1> QED
  BY <1>1, <1>2, Aside

\* A start by name begins from a state that was read.
LEMMA Begins ==
    ASSUME SettingsInv, Inputs', UNCHANGED <<seed, env, dom, history>>,
           vm' = vm \/ vm' = NoDomain,
           file \in States, file' \in States, NEW image \in Images,
           cmd' = NamedStart("load", image)
    PROVE  SettingsInv'
<1>1. cmd' \in Commands /\ cmd'.pc = "load" /\ cmd'.first = "load"
  BY DEF Commands, NamedStart, NamedSteps
<1>2. TypeOK'
  BY <1>1, Known, Files DEF Inputs, Machine, TypeOK, At, Steps, history
<1>3. Shaped'
  BY <1>1, <1>2 DEF Shaped, InOrder
<1>4. Defined'
  BY <1>1 DEF Defined, Defines, At
<1>5. seed.reads => Current
  BY Known, Files DEF Stillborn
<1>6. Written'
  BY <1>1, <1>5 DEF Written, Current, history
<1>7. Given'
  BY <1>1 DEF Given, Writing
<1> QED
  BY <1>3, <1>4, <1>6, <1>7 DEF SettingsInv

LEMMA StartByNameStep ==
    ASSUME SettingsInv, StartByName
    PROVE  SettingsInv'
<1>1. file \in States /\ file.image \in Images
  BY Known, Files DEF StartByName
<1>2. Inputs'
  BY Known, LoadedIs DEF StartByName, Inputs
<1>3. cmd' = NamedStart("load", file.image)
  BY DEF StartByName, NamedStart
<1>4. UNCHANGED <<file, seed, env, dom, vm, history>>
  BY DEF StartByName, machine
<1> QED
  BY <1>1, <1>2, <1>3, <1>4, Begins

\* A command that ends, or is refused, with the seed and env.sh as they were.
LEMMA Ends ==
    ASSUME SettingsInv, Inputs', Machine', cmd' = Idle, UNCHANGED <<seed, env, history>>,
           vm' = vm \/ vm' = NoDomain,
           \/ file' = file
           \/ /\ file' \in {Broken} \cup States /\ file # NoFile
              /\ ~At("idle") \/ file \in States
    PROVE  SettingsInv'
<1>1. seed' \in Seed \cup {NoSeed} /\ cut' \in BOOLEAN /\ file' \in {NoFile, Broken} \cup States
  BY Known DEF history
<1>2. file # NoFile /\ seed.reads => Current \/ Stillborn
  BY Known
<1>3. Current => Current'
  BY DEF Current, history
<1>4. Stillborn => Stillborn'
  <2> SUFFICES ASSUME Stillborn PROVE Stillborn'
    OBVIOUS
  <2>1. file' = file
    BY Files DEF Stillborn
  <2>2. cmd'.pc = "idle"
    BY DEF Idle
  <2> QED
    BY <2>1, <2>2 DEF Stillborn, At
<1>5. file' # NoFile /\ seed'.reads => Current' \/ Stillborn'
  BY <1>2, <1>3, <1>4
<1> QED
  BY <1>1, <1>5, Rests

LEMMA CrashStep ==
    ASSUME SettingsInv, Crash
    PROVE  SettingsInv'
<1>1. Inputs' /\ Machine'
  BY Known DEF Crash, Inputs, Machine, inputs, machine
<1> QED
  BY <1>1, Ends DEF Crash, Return, machine

LEMMA IdleIs == SettingsInv /\ At("idle") => cmd = Idle
<1> SUFFICES ASSUME SettingsInv, At("idle") PROVE cmd = Idle
  OBVIOUS
<1>1. cmd.pc = "idle" /\ cmd \in Commands
  BY Known DEF At
<1>2. \A step \in NamedSteps, image \in Images : cmd # NamedStart(step, image)
  BY <1>1 DEF NamedStart, NamedSteps
<1>3. \A step \in Steps, asked \in Projects, first \in Firsts, size \in Sizes :
         cmd # HereStart(step, asked, first, size)
  BY <1>1 DEF HereStart, Steps
<1> QED
  BY <1>1, <1>2, <1>3 DEF Commands

LEMMA StopStep ==
    ASSUME SettingsInv, Stop
    PROVE  SettingsInv'
<1>1. file \in States
  BY Known DEF Stop, NoFile, Broken
<1>2. /\ UNCHANGED <<inputs, seed, env, dom, cmd, history>>
      /\ vm' = vm \/ vm' = NoDomain
  BY DEF Stop, Shutdown
<1>3. Inputs' /\ Machine'
  BY <1>2, Known DEF Inputs, Machine, inputs
<1>4. [file EXCEPT !.status = "stopped"] \in States
  BY <1>1, Files
<1>5. file' \in {Broken} \cup States
  BY <1>1, <1>4 DEF Stop, Saves
<1>6. cmd' = Idle
  BY <1>2, IdleIs DEF Stop
<1> QED
  BY <1>1, <1>2, <1>3, <1>5, <1>6, Files, Ends

LEMMA RestartStep ==
    ASSUME SettingsInv, Restart
    PROVE  SettingsInv'
<1>1. file \in States /\ file.image \in Images
  BY Known, Files DEF Restart, NoFile, Broken
<1>2. UNCHANGED <<root, project, seed, env, dom, history>> /\ (vm' = vm \/ vm' = NoDomain)
  BY DEF Restart, Shutdown
<1>3. CASE /\ file' = [file EXCEPT !.status = "stopped"]
           /\ Load
           /\ cmd' = NamedStart("load", file.image)
  <2>1. Inputs'
    BY <1>2, <1>3, Known, LoadedIs DEF Inputs
  <2>2. file' \in States
    BY <1>1, <1>3, Files
  <2> QED
    BY <1>1, <1>2, <1>3, <2>1, <2>2, Begins
<1>4. CASE file' \in {file, Broken} /\ UNCHANGED <<global, cmd>>
  <2>1. Inputs' /\ Machine'
    BY <1>2, <1>4, Known DEF Inputs, Machine
  <2>2. cmd' = Idle
    BY <1>4, IdleIs DEF Restart
  <2> QED
    BY <1>1, <1>2, <1>4, <2>1, <2>2, Files, Ends
<1> QED
  BY <1>3, <1>4 DEF Restart, NamedStart

LEMMA RemoveStep ==
    ASSUME SettingsInv, Remove
    PROVE  SettingsInv'
<1>1. Inputs' /\ Machine'
  BY Known DEF Remove, Inputs, Machine, inputs
<1>2. /\ file' = NoFile /\ seed' \in Seed \cup {NoSeed} /\ cut' \in BOOLEAN
      /\ cmd' = Idle
  BY IdleIs DEF Remove, DeleteState
<1> QED
  BY <1>1, <1>2, Rests

-----------------------------------------------------------------------------
LEMMA StartHereStep ==
    ASSUME SettingsInv, StartHere
    PROVE  SettingsInv'
<1>1. Inputs' /\ Loaded \in Sizes \cup {NoSize}
  BY Known, LoadedIs DEF StartHere, Inputs
<1>2. UNCHANGED <<file, seed, env, dom, vm, block, cut>>
  BY DEF StartHere, machine
<1>3. CASE cmd' = Idle /\ given' = given
  BY <1>1, <1>2, <1>3, Known, Ends DEF Machine, history
<1>4. ASSUME NEW first, cmd' = HereStart(first, project, first, Loaded),
             Resolves(project, Loaded),
             first = IF file = NoFile THEN "create"
                     ELSE IF file.status = "running" THEN "env" ELSE "reconfigure",
             file # NoFile => file # Broken,
             given' = IF file = NoFile THEN Pairs(Merged(project))
                      ELSE given \cup Pairs(project.env)
      PROVE  SettingsInv'
  <2>1. /\ project \in Projects /\ Loaded \in Sizes /\ first \in Firsts /\ first \in Steps
    BY <1>1, <1>4, Known DEF StartHere, Inputs, Resolves, Firsts, Steps
  <2>2. cmd' \in Commands
    BY <1>4, <2>1 DEF Commands
  <2>3. cmd'.pc = first /\ cmd'.first = first
    BY <1>4, HereIs
  <2>4. first = "create" <=> file = NoFile
    BY <1>4
  <2>5. TypeOK'
    BY <1>1, <1>2, <2>1, <2>3, <2>4, Known, Files DEF TypeOK, Inputs, Machine, At, history, Firsts
  <2>6. Shaped'
    <3>1. first # "create" => file \in States
      BY <1>4, <2>4, Known
    <3> QED
      BY <1>2, <2>1, <2>2, <2>3, <2>5, <3>1, Known DEF Shaped, InOrder, Firsts
  <2>7. Defined'
    <3>1. CASE first = "create"
      BY <2>3, <3>1 DEF Defined, At
    <3>2. CASE first # "create"
      BY <2>1, <2>3, <3>2 DEF Defined, Defines, At, Firsts
    <3> QED
      BY <3>1, <3>2
  <2>8. file # NoFile /\ seed.reads => Current
    BY <1>4, Known DEF Stillborn
  <2>9. Written'
    <3>1. CASE file = NoFile
      BY <1>2, <2>3, <2>4, <3>1 DEF Written
    <3>2. CASE file # NoFile
      <4>1. given \subseteq given'
        BY <1>4, <3>2
      <4> QED
        BY <1>2, <2>3, <2>4, <2>8, <3>2, <4>1 DEF Written, Current
    <3> QED
      BY <3>1, <3>2
  <2>10. Given'
    <3>1. Own' = IF file = NoFile THEN Merged(project) ELSE project.env
      BY <1>4, <2>3, <2>4, HereIs DEF Own
    <3> QED
      BY <1>4, <3>1 DEF Given
  <2> QED
    BY <2>6, <2>7, <2>9, <2>10 DEF SettingsInv
<1> QED
  <2> DEFINE first == IF file = NoFile THEN "create"
                      ELSE IF file.status = "running" THEN "env" ELSE "reconfigure"
  <2>1. CASE ~(cmd' = Idle /\ given' = given)
    <3>1. /\ given' = IF file = NoFile THEN Pairs(Merged(project))
                       ELSE given \cup Pairs(project.env)
          /\ Resolves(project, Loaded) /\ (file # NoFile => file # Broken /\ file.image = project.image)
          /\ cmd' = [pc |-> first, cfg |-> Resolved(project, Loaded), asked |-> project,
                     first |-> first, size |-> Loaded, image |-> project.image]
      BY <2>1 DEF StartHere
    <3>2. Resolved(project, Loaded) =
              [image |-> project.image, env |-> EnvAt(first, project, first),
               isolation |-> project.isolation, memory |-> Wanted(project, Loaded)]
      BY DEF Resolved, EnvAt, Wanted
    <3>3. cmd' = HereStart(first, project, first, Loaded)
      BY <3>1, <3>2 DEF HereStart
    <3> HIDE DEF first
    <3> QED
      BY <1>4, <3>1, <3>3 DEF first
  <2> QED
    BY <1>3, <2>1

LEMMA CreateStep ==
    ASSUME SettingsInv, Create
    PROVE  SettingsInv'
<1>1. At("create") /\ file = NoFile /\ UNCHANGED <<inputs, machine, history>>
  BY Known DEF Create, At
<1>2. Inputs' /\ Machine'
  BY <1>1, Known DEF Inputs, Machine, inputs, machine
<1>3. PICK asked \in Projects, first \in Firsts, size \in Sizes :
         cmd = HereStart("create", asked, first, size)
  BY <1>1, Known, IsHere DEF At, Steps, NamedSteps
<1>4. first = "create"
  BY <1>1, <1>3, Known, HereIs DEF At, InOrder
<1>5. /\ cmd.cfg.env = asked.env /\ cmd.cfg.image = asked.image
      /\ cmd.cfg.isolation = asked.isolation
  BY <1>3, HereIs DEF EnvAt
<1>6. PICK merged : merged = Merged(asked)
  OBVIOUS
<1>7. CASE /\ seed' = [isolation |-> cmd.cfg.isolation, reads |-> merged # NoEnv, disk |-> TRUE]
           /\ env' = IF merged # NoEnv THEN merged ELSE env
           /\ cmd' = [cmd EXCEPT !.pc = "define", !.cfg.env = merged]
           /\ UNCHANGED file
  <2>1. cmd' = HereStart("define", asked, "create", size)
    BY <1>3, <1>4, <1>6, <1>7 DEF HereStart, EnvAt
  <2>2. cmd' \in Commands /\ cmd'.pc = "define" /\ cmd'.first = "create" /\ cmd'.asked = asked
    BY <2>1, HereIs DEF Commands, Steps, Firsts
  <2>3. seed' \in Seed
    <3>1. asked.isolation \in BOOLEAN /\ (merged # NoEnv) \in BOOLEAN
      BY Numbers
    <3> QED
      BY <1>5, <1>7, <3>1 DEF Seed
  <2>4. TypeOK'
    BY <1>1, <1>2, <1>7, <2>2, <2>3, Known, Files DEF TypeOK, Inputs, Machine, At, Steps, history
  <2>5. Shaped'
    BY <1>1, <1>7, <2>2, <2>4 DEF Shaped, InOrder
  <2>6. Defined'
    BY <1>5, <1>7, <2>2 DEF Defined, At
  <2>7. Written'
    BY <1>1, <1>6, <1>7, <2>2 DEF Written
  <2>8. Given'
    <3>1. cmd.pc \in Writing /\ Own = merged /\ given' = given
      BY <1>1, <1>3, <1>4, <1>6, HereIs DEF At, Writing, Own, history
    <3>2. Own' = merged
      BY <1>6, <2>2 DEF Own
    <3> QED
      BY <3>1, <3>2 DEF SettingsInv, Given
  <2> QED
    BY <2>5, <2>6, <2>7, <2>8 DEF SettingsInv
<1>8. CASE (DeleteState \/ UNCHANGED <<file, seed>>) /\ Return
  <2>1. file' = NoFile /\ seed' \in Seed \cup {NoSeed} /\ cut' \in BOOLEAN /\ cmd' = Idle
    BY <1>1, <1>8, Known DEF DeleteState, Return, history
  <2> QED
    BY <1>2, <2>1, Rests
<1> QED
  BY <1>5, <1>6, <1>7, <1>8 DEF Create, Merged

LEMMA DefineNewStep ==
    ASSUME SettingsInv, DefineNew
    PROVE  SettingsInv'
<1>1. At("define") /\ file = NoFile /\ UNCHANGED <<inputs, vm, history>>
  BY Known DEF DefineNew, At
<1>2. PICK asked \in Projects, first \in Firsts, size \in Sizes :
         cmd = HereStart("define", asked, first, size)
  BY <1>1, Known, IsHere DEF At, Steps, NamedSteps
<1>3. cmd.first = "create" /\ cmd.asked = asked /\ cmd.size = size /\ cmd.cfg.memory = Wanted(asked, size)
  BY <1>1, <1>2, Known, HereIs DEF At, InOrder
<1>4. CASE /\ dom = NoDomain /\ vm = NoDomain
           /\ dom' = [memory |-> cmd.cfg.memory, fs |-> cmd.cfg.env # NoEnv, passt |-> FALSE]
           /\ Goto("savenew")
           /\ UNCHANGED <<file, seed, env>>
  <2>1. /\ cmd' \in Commands /\ cmd'.pc = "savenew" /\ cmd'.first = "create"
        /\ cmd'.asked = asked /\ cmd'.size = size
    BY <1>1, <1>3, <1>4, Known, Goes DEF At, Steps, NamedSteps
  <2>2. Wanted(asked, size) \in Nat /\ (cmd.cfg.env # NoEnv) \in BOOLEAN
    BY Numbers DEF Wanted
  <2>3. dom' \in Domain /\ dom'.passt = FALSE /\ dom'.memory = Wanted(asked, size)
    BY <1>3, <1>4, <2>2 DEF Domain
  <2>4. Inputs' /\ Machine'
    BY <1>1, <2>3, Known DEF Inputs, Machine, inputs
  <2>5. TypeOK'
    BY <1>1, <1>4, <2>1, <2>4, Known, Files DEF TypeOK, Inputs, Machine, At, Steps, history
  <2>6. Shaped'
    BY <1>1, <1>4, <2>1, <2>5 DEF Shaped, InOrder
  <2>7. Defined'
    <3>1. seed.isolation = asked.isolation
      BY <1>1, <1>3 DEF SettingsInv, Defined, At, Steps
    <3> QED
      BY <1>1, <1>4, <2>1, <2>3, <3>1 DEF Defined, AsAsked, At
  <2>8. Written'
    BY <1>1, <1>3, <1>4, <2>1 DEF SettingsInv, Written, At
  <2>9. Given'
    <3>1. cmd.pc \in Writing /\ Own' = Own /\ given' = given
      BY <1>1, <1>3, <2>1 DEF At, Writing, Own, history
    <3> QED
      BY <3>1 DEF SettingsInv, Given
  <2> QED
    BY <2>6, <2>7, <2>8, <2>9 DEF SettingsInv
<1>5. CASE DeleteState /\ Return /\ UNCHANGED dom
  <2>1. Inputs' /\ Machine'
    BY <1>1, <1>5, Known DEF Inputs, Machine, inputs
  <2>2. file' = NoFile /\ seed' \in Seed \cup {NoSeed} /\ cut' \in BOOLEAN /\ cmd' = Idle
    BY <1>1, <1>5, Known DEF DeleteState, Return, history
  <2> QED
    BY <2>1, <2>2, Rests
<1> QED
  BY <1>4, <1>5 DEF DefineNew

\* The env: block is part of what was merged.
LEMMA BlockIn == \A p \in Projects : Pairs(p.env) \subseteq Pairs(Merged(p))
BY DEF Pairs, Merged, Over

\* The state of a new cage comes with the block that was merged.
LEMMA SaveNewStep ==
    ASSUME SettingsInv, SaveNew
    PROVE  SettingsInv'
<1>1. At("savenew") /\ file = NoFile /\ vm = NoDomain /\ UNCHANGED <<inputs, seed, env, dom, vm, given>>
  BY Known DEF SaveNew, At, SettingsInv, Defined, machine
<1>2. PICK asked \in Projects, first \in Firsts, size \in Sizes :
         cmd = HereStart("savenew", asked, first, size)
  BY <1>1, Known, IsHere DEF At, Steps, NamedSteps
<1>3. cmd.first = "create" /\ cmd.asked = asked /\ cmd.size = size /\ cmd.cfg.image = asked.image
  BY <1>1, <1>2, Known, HereIs DEF At, InOrder
<1>4. Inputs' /\ Machine'
  BY <1>1, Known DEF Inputs, Machine, inputs
<1>5. CASE /\ file' = [status |-> "stopped", image |-> cmd.cfg.image]
           /\ Goto("env")
           /\ block' = cmd.asked.env /\ cut' = FALSE
  <2>1. /\ cmd' \in Commands /\ cmd'.pc = "env" /\ cmd'.first = "create"
        /\ cmd'.asked = asked /\ cmd'.size = size
    BY <1>1, <1>3, <1>5, Known, Goes DEF At, Steps, NamedSteps
  <2>2. file' \in States
    BY <1>3, <1>5, Files, Numbers
  <2>3. TypeOK'
    BY <1>1, <1>4, <1>5, <2>1, <2>2, Known, Files DEF TypeOK, Inputs, Machine, At, Steps
  <2>4. Shaped'
    BY <2>1, <2>2, <2>3 DEF Shaped, InOrder
  <2>5. Defined'
    <3>1. seed.isolation = asked.isolation /\ AsAsked(dom)
      BY <1>1, <1>3 DEF SettingsInv, Defined, Defines, At, Steps
    <3> QED
      BY <1>1, <1>3, <2>1, <3>1 DEF Defined, AsAsked, At
  <2>6. seed.reads => Merged(asked) # NoEnv /\ env = Merged(asked)
    BY <1>1, <1>3 DEF SettingsInv, Written, At
  <2>7. /\ Own = Merged(asked) /\ Own' = Merged(asked)
        /\ Pairs(Merged(asked)) \subseteq given
    <3>1. Own = Merged(asked) /\ Own' = Merged(asked) /\ cmd.pc \in Writing
      BY <1>1, <1>3, <2>1 DEF Own, At, Writing
    <3> QED
      BY <3>1 DEF SettingsInv, Given
  <2>8. Written'
    <3>1. Pairs(asked.env) \subseteq Pairs(Merged(asked))
      BY BlockIn
    <3> QED
      BY <1>1, <1>3, <1>5, <2>1, <2>6, <2>7, <3>1 DEF Written, Current
  <2>9. Given'
    BY <1>1, <2>7 DEF Given
  <2> QED
    BY <2>4, <2>5, <2>8, <2>9 DEF SettingsInv
<1>6. CASE file' \in {file, Broken} /\ Return /\ UNCHANGED <<block, cut>>
  <2>1. cmd' = Idle /\ cmd'.pc = "idle" /\ cut' \in BOOLEAN
    BY <1>6, Known DEF Return, Idle, history
  <2>2. file' # NoFile => Stillborn'
    BY <1>1, <1>6, <2>1 DEF Stillborn, At
  <2> QED
    BY <1>1, <1>4, <1>6, <2>1, <2>2, Known, Rests
<1> QED
  BY <1>5, <1>6 DEF SaveNew

-----------------------------------------------------------------------------
\* A start in progress has the state of the cage, and env.sh is as it should be.
LEMMA Under ==
    ASSUME SettingsInv, cmd.pc \in {"reconfigure", "env"} \cup NamedSteps
    PROVE  /\ cmd.pc \in Steps \ {"create", "savenew"} /\ ~At("idle")
           /\ file \in {Broken} \cup States /\ file # NoFile
           /\ cmd.pc \in {"reconfigure", "env", "load"} => file \in States
           /\ seed.reads => Current
BY Known DEF Stillborn, At, Steps, NamedSteps, SettingsInv, Shaped

\* RedefineDomain that goes on: then the domain is the one asked for.
LEMMA RedefineStep ==
    ASSUME SettingsInv, NEW d \in Domain, NEW next \in {"env", "boot"},
           cmd.pc = IF next = "env" THEN "reconfigure" ELSE "isolate",
           Redefine(d, next),
           UNCHANGED <<inputs, file, seed, env, vm, history>>,
           cmd.first \in {"create", "reconfigure"} =>
               (~d.passt => d.memory = Wanted(cmd.asked, cmd.size))
    PROVE  SettingsInv'
<1>1. cmd.pc \in {"reconfigure", "env"} \cup NamedSteps
  BY DEF NamedSteps
<1>2. CASE dom # NoDomain /\ vm = NoDomain /\ dom' = d /\ Goto(next)
  <2>1. Inputs' /\ Machine' /\ cut' \in BOOLEAN
    BY <1>2, Known DEF Inputs, Machine, inputs, history
  <2>2. next \in NamedSteps \/ cmd.pc \notin NamedSteps
    BY DEF NamedSteps
  <2>3. next \in Steps \ {"create", "define", "savenew", "reconfigure"}
    BY DEF Steps
  <2>4. next # "env" \/ cmd.first # "create"
    BY <1>1, Known, Under DEF InOrder
  <2>5. seed.reads => Current'
    BY <1>1, Under DEF Current, history
  <2> QED
    BY <1>1, <1>2, <2>1, <2>2, <2>3, <2>4, <2>5, Under, GoesOn DEF history
<1>3. CASE dom' \in {dom, NoDomain} /\ Return
  <2>1. Inputs' /\ Machine'
    BY <1>3, Known DEF Inputs, Machine, inputs
  <2> QED
    BY <1>3, <2>1, Ends DEF Return
<1> QED
  BY <1>2, <1>3 DEF Redefine

LEMMA ReconfigureStep ==
    ASSUME SettingsInv, Reconfigure
    PROVE  SettingsInv'
<1>1. cmd.pc = "reconfigure"
  BY DEF Reconfigure, At
<1>2. PICK asked \in Projects, first \in Firsts, size \in Sizes :
         cmd = HereStart("reconfigure", asked, first, size)
  BY <1>1, Known, IsHere DEF Steps, NamedSteps, At
<1>3. cmd.asked = asked /\ cmd.size = size /\ cmd.cfg.memory = Wanted(asked, size)
  BY <1>2, HereIs
<1>4. PICK d : d = [memory |-> cmd.cfg.memory, fs |-> TRUE, passt |-> FALSE]
  OBVIOUS
<1>5. d \in Domain /\ d.passt = FALSE /\ d.memory = Wanted(asked, size)
  BY <1>3, <1>4, Numbers DEF Domain, Wanted
<1> QED
  BY <1>1, <1>3, <1>4, <1>5, RedefineStep DEF Reconfigure

\* A write that is cut short leaves a part of what was to be written.
LEMMA CutsIn == \A e : \A c \in Cuts(e) : Pairs(c) \subseteq Pairs(e)
BY DEF Cuts, Pairs

LEMMA WriteEnvStep ==
    ASSUME SettingsInv, WriteEnv
    PROVE  SettingsInv'
<1>1. cmd.pc = "env" /\ UNCHANGED <<inputs, file, seed, dom, vm, given>>
  BY DEF WriteEnv, At, machine
<1>2. PICK asked \in Projects, first \in Firsts, size \in Sizes :
         cmd = HereStart("env", asked, first, size)
  BY <1>1, Known, IsHere DEF Steps, NamedSteps, At
<1>3. /\ cmd.first = first /\ cmd.asked = asked /\ cmd.size = size
      /\ cmd.cfg.env = EnvAt("env", asked, first)
  BY <1>2, HereIs
<1>4. /\ cmd.pc \in Steps \ {"create", "savenew"} /\ ~At("idle") /\ file \in States
      /\ seed.reads => Current
  BY <1>1, Under
<1>5. Inputs' /\ Machine'
  BY <1>1, Known DEF Inputs, Machine, inputs
<1>6. cmd.cfg.env = Own /\ Pairs(Own) \subseteq given
  <2>1. cmd.cfg.env = Own
    BY <1>3 DEF EnvAt, Own
  <2> QED
    BY <1>1, <2>1 DEF SettingsInv, Given, Writing
<1>7. CASE /\ env' = IF cmd.cfg.env = NoEnv THEN env ELSE cmd.cfg.env
           /\ block' = cmd.asked.env /\ cut' = (cut /\ cmd.cfg.env = NoEnv)
           /\ Goto("load")
  <2>1. cut' \in BOOLEAN
    BY <1>7
  <2>2. seed.reads => Current'
    <3> SUFFICES ASSUME seed.reads PROVE Current'
      OBVIOUS
    <3>1. Pairs(asked.env) \subseteq Pairs(Own)
      BY <1>3, BlockIn DEF Own
    <3>2. CASE Own # NoEnv
      BY <1>1, <1>3, <1>6, <1>7, <3>1, <3>2 DEF Current
    <3>3. CASE Own = NoEnv
      <4>1. Pairs(asked.env) = {}
        BY <3>1, <3>3 DEF Pairs, NoEnv
      <4> QED
        BY <1>1, <1>3, <1>4, <1>6, <1>7, <3>3, <4>1 DEF Current
    <3> QED
      BY <3>2, <3>3
  <2>3. Defines => AsAsked(dom)
    BY <1>1 DEF SettingsInv, Defined
  <2>4. "load" \in NamedSteps /\ "load" \in Steps
    BY DEF NamedSteps, Steps
  <2> QED
    BY <1>1, <1>4, <1>5, <1>7, <2>1, <2>2, <2>3, <2>4, GoesOn DEF Defines, AsAsked
<1>8. CASE env' \in Cuts(cmd.cfg.env) /\ cut' = TRUE /\ Return
  <2>1. cut' \in BOOLEAN /\ cmd' = Idle
    BY <1>8 DEF Return
  <2>2. Current'
    BY <1>1, <1>6, <1>8, CutsIn DEF Current
  <2> QED
    BY <1>1, <1>5, <2>1, <2>2, Known, Rests
<1>9. CASE Return /\ UNCHANGED <<env, block, cut>>
  BY <1>1, <1>4, <1>5, <1>9, Ends DEF Return, history
<1> QED
  BY <1>7, <1>8, <1>9 DEF WriteEnv

\* A step of startCage that leaves the domain alone.
LEMMA NamedStep ==
    ASSUME SettingsInv, cmd.pc \in NamedSteps,
           UNCHANGED <<inputs, seed, env, dom, history>>,
           vm' = vm \/ (vm' = dom /\ dom \in Domain),
           file' = file \/ file' \in {Broken} \cup States,
           NEW next \in {"isolate", "boot", "save"}, Goto(next),
           next = "save" => vm' = dom
    PROVE  SettingsInv'
<1>1. /\ cmd.pc \in Steps \ {"create", "savenew"} /\ ~At("idle") /\ file \in {Broken} \cup States
      /\ seed.reads => Current
  BY Under
<1>2. Inputs' /\ Machine' /\ cut' \in BOOLEAN
  BY Known DEF Inputs, Machine, inputs, history
<1>3. next \in NamedSteps /\ next \in Steps \ {"create", "define", "savenew", "reconfigure"}
  BY DEF NamedSteps, Steps
<1>4. Defines => AsAsked(dom)
  BY DEF SettingsInv, Defined, NamedSteps
<1>5. seed.reads => Current'
  BY <1>1 DEF Current, history
<1> QED
  BY <1>1, <1>2, <1>3, <1>4, <1>5, GoesOn DEF Defines, AsAsked, history

\* state.json as startCage writes it.
LEMMA Saved ==
    ASSUME SettingsInv, cmd.pc \in NamedSteps, NEW s \in {"stopped", "running"},
           Corrected(s), file \in States
    PROVE  file' = file \/ file' \in {Broken} \cup States
BY Files DEF Saves, Corrected

LEMMA StartCageStep ==
    ASSUME SettingsInv, StartCage
    PROVE  SettingsInv'
<1>1. /\ cmd.pc = "load" /\ cmd.pc \in NamedSteps /\ UNCHANGED <<inputs, seed, env, dom, vm, history>>
  BY DEF StartCage, At, NamedSteps, machine
<1>2. file \in States /\ file # NoFile /\ ~At("idle")
  BY <1>1, Under
<1>3. CASE Corrected("running") /\ Return
  <2>1. file' = file \/ file' \in {Broken} \cup States
    BY <1>1, <1>2, <1>3, Saved
  <2>2. Inputs' /\ Machine'
    BY <1>1, Known DEF Inputs, Machine, inputs
  <2> QED
    BY <1>1, <1>2, <1>3, <2>1, <2>2, Ends DEF Return
<1>4. CASE Corrected("stopped") /\ Goto(IF root THEN "isolate" ELSE "boot")
  <2>1. PICK next \in {"isolate", "boot"} : Goto(next)
    BY <1>4
  <2>2. file' = file \/ file' \in {Broken} \cup States
    BY <1>1, <1>2, <1>4, Saved
  <2>3. /\ UNCHANGED <<inputs, seed, env, dom, history>> /\ vm' = vm
        /\ next # "save" /\ next \in {"isolate", "boot", "save"}
    BY <1>1
  <2> QED
    BY <1>1, <2>1, <2>2, <2>3, NamedStep
<1> QED
  BY <1>3, <1>4 DEF StartCage

LEMMA IsolateStep ==
    ASSUME SettingsInv, Isolate
    PROVE  SettingsInv'
<1>1. /\ cmd.pc = "isolate" /\ cmd.pc \in NamedSteps
      /\ UNCHANGED <<inputs, file, seed, env, vm, history>>
  BY DEF Isolate, At, NamedSteps
<1>2. CASE Redefine([memory |-> IsolatedSize, fs |-> TRUE, passt |-> TRUE], "boot")
  <2>1. PICK d : d = [memory |-> IsolatedSize, fs |-> TRUE, passt |-> TRUE]
    OBVIOUS
  <2>2. d \in Domain /\ d.passt = TRUE /\ d.memory = IsolatedSize
    BY <2>1, Numbers DEF Domain
  <2> QED
    BY <1>1, <1>2, <2>1, <2>2, RedefineStep
<1>3. CASE UNCHANGED dom /\ Return
  <2>1. Inputs' /\ Machine'
    BY <1>1, <1>3, Known DEF Inputs, Machine, inputs
  <2> QED
    BY <1>1, <1>3, <2>1, Ends DEF Return
<1>4. CASE UNCHANGED dom /\ Goto("boot")
  <2>1. /\ UNCHANGED <<inputs, seed, env, dom, history>> /\ vm' = vm
        /\ file' = file /\ "boot" \in {"isolate", "boot", "save"}
    BY <1>1, <1>4
  <2> QED
    BY <1>1, <1>4, <2>1, NamedStep
<1> QED
  BY <1>2, <1>3, <1>4 DEF Isolate

LEMMA BootStep ==
    ASSUME SettingsInv, Boot
    PROVE  SettingsInv'
<1>1. /\ cmd.pc = "boot" /\ cmd.pc \in NamedSteps
      /\ UNCHANGED <<inputs, file, seed, env, dom, history>>
  BY DEF Boot, At, NamedSteps
<1>2. CASE dom # NoDomain /\ vm' = dom /\ Goto("save")
  <2>1. dom \in Domain
    BY <1>2, Known DEF Machine
  <2> QED
    BY <1>1, <1>2, <2>1, NamedStep
<1>3. CASE Return /\ UNCHANGED vm
  <2>1. Inputs' /\ Machine'
    BY <1>1, <1>3, Known DEF Inputs, Machine, inputs
  <2> QED
    BY <1>1, <1>3, <2>1, Ends DEF Return
<1> QED
  BY <1>2, <1>3 DEF Boot

LEMMA SaveRunningStep ==
    ASSUME SettingsInv, SaveRunning
    PROVE  SettingsInv'
<1>1. /\ cmd.pc = "save" /\ cmd.pc \in NamedSteps /\ cmd.pc \in Steps /\ cmd' = Idle
      /\ UNCHANGED <<inputs, seed, env, dom, vm, history>>
  BY DEF SaveRunning, At, NamedSteps, Steps, Return, machine
<1>2. cmd.image \in Images
  <2>1. ASSUME NEW image \in Images, cmd = NamedStart(cmd.pc, image)
        PROVE  cmd.image = image
    BY <2>1, <1>1 DEF NamedStart
  <2>2. ASSUME NEW asked \in Projects, NEW first \in Firsts, NEW size \in Sizes,
               cmd = HereStart(cmd.pc, asked, first, size)
        PROVE  cmd.image = asked.image /\ asked.image \in Images
    BY <2>2, HereIs, Numbers
  <2> QED
    BY <1>1, <2>1, <2>2, Known, IsStart
<1>3. file # NoFile /\ ~At("idle")
  BY <1>1, Under
<1>4. [status |-> "running", image |-> cmd.image] \in States
  BY <1>2, Files
<1>5. file' = file \/ file' \in {Broken} \cup States
  BY <1>4 DEF SaveRunning, Saves
<1>6. Inputs' /\ Machine'
  BY <1>1, Known DEF Inputs, Machine, inputs
<1> QED
  BY <1>1, <1>3, <1>5, <1>6, Ends

-----------------------------------------------------------------------------
LEMMA InitInv == Init => SettingsInv
<1> SUFFICES ASSUME Init PROVE SettingsInv
  OBVIOUS
<1>1. /\ cmd = Idle /\ cmd.pc = "idle" /\ cmd.pc \notin Steps /\ cmd \in Commands
      /\ file = NoFile /\ seed = NoSeed
  BY DEF Init, Idle, Steps, Commands
<1>2. Shaped
  BY <1>1 DEF Init, Shaped, TypeOK, At
<1>3. Defined /\ Written /\ Given
  BY <1>1 DEF Defined, Written, Given, Writing, At, Steps
<1> QED
  BY <1>2, <1>3 DEF SettingsInv

LEMMA NextInv == SettingsInv /\ [Next]_vars => SettingsInv'
<1> SUFFICES ASSUME SettingsInv, [Next]_vars PROVE SettingsInv'
  OBVIOUS
<1>1. CASE UNCHANGED vars
  <2>1. Inputs'
    BY <1>1, Known DEF vars, Inputs
  <2> QED
    BY <1>1, <2>1, Aside DEF vars, history
<1>2. CASE Next
  BY <1>2, AsideStep, StartHereStep, StartByNameStep, CreateStep, DefineNewStep, SaveNewStep,
     ReconfigureStep, WriteEnvStep, StartCageStep, IsolateStep, BootStep, SaveRunningStep,
     StopStep, RestartStep, RemoveStep, CrashStep DEF Next
<1> QED
  BY <1>1, <1>2

LEMMA Invariance == Spec => []SettingsInv
BY InitInv, NextInv, PTL DEF Spec

\* The type invariant: a start goes on only while there is a state.json.
THEOREM TypeCorrect == Spec => []TypeOK
<1>1. SettingsInv => TypeOK
  BY DEF SettingsInv, Shaped
<1> QED
  BY <1>1, Invariance, PTL

\* Whatever is edited meanwhile, was defined before or fails, a start that defines the domain
\* itself and stays on SLIRP boots the memory it read, and a new cage the isolation it read.
THEOREM BootsAsConfigured == Spec => []AsConfigured
<1>1. SettingsInv => AsConfigured
  <2> SUFFICES ASSUME SettingsInv, At("save"), vm # NoDomain,
                      cmd.first \in {"create", "reconfigure"}
               PROVE  /\ ~vm.passt => vm.memory = Asked
                      /\ cmd.first = "create" => seed.isolation = cmd.asked.isolation
    BY DEF AsConfigured
  <2>1. vm = dom /\ AsAsked(dom) /\ (cmd.first = "create" => seed.isolation = cmd.asked.isolation)
    BY DEF SettingsInv, Defined, Defines, At, Steps
  <2> QED
    BY <2>1 DEF AsAsked, Wanted, Asked
<1> QED
  BY <1>1, Invariance, PTL

\* Whatever fails or is killed, the env a guest reads was given to this very cage, never to an
\* earlier one, and has all of the env: block last taken over, unless a write was cut short.
THEOREM EnvIsCurrent == Spec => []EnvCurrent
<1>1. SettingsInv => EnvCurrent
  <2> SUFFICES ASSUME SettingsInv, vm.fs, seed.reads, file # NoFile
               PROVE  Current
    BY DEF EnvCurrent, Current
  <2>1. vm # NoDomain
    BY DEF NoDomain
  <2> QED
    BY <2>1, Known DEF Stillborn
<1> QED
  BY <1>1, Invariance, PTL
=============================================================================
