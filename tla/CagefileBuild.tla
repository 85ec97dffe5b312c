----------------------------- MODULE CagefileBuild -----------------------------
(***************************************************************************)
(* cage build: a temporary cage is created on the base image, booted, the  *)
(* instructions of the Cagefile carried out in it over ssh, and its disk   *)
(* saved as an image, while other commands work on the base image (module  *)
(* BaseImages).                                                            *)
(***************************************************************************)
EXTENDS BaseImages, Cagefile
LOCAL INSTANCE SequencesExt

CONSTANTS
    Cagefiles,      \* some Cagefiles, by name: sequences of lines
    Builds,         \* how cage build is called: file, args, arch, keep
    Context,        \* what the context directory holds: "file" or "dir", by name
    Paths, Parent,  \* the directories of the guest that matter, and what they are in
    CagePaths,      \* those among them that belong to the cage user
    Users,          \* the users the guest knows
    MaxCommands     \* bound: how many commands run; a build counts for two

BuildFaults == ImageFaults \cup
    {"host",        \* a host tool or file of the temporary cage fails
     "libvirt",     \* a virsh call fails
     "guest"}       \* the guest does not answer, or a command in it fails

\* Sequences whose elements may be anything.
IsSeq(s) == s \in Seq({s[i] : i \in DOMAIN s})

ASSUME CagefilesAssumption ==
    \A call \in Builds :
        /\ IsSeq(Cagefiles[call.file])
        /\ \A n \in DOMAIN Cagefiles[call.file] :
              IsSeq(Cagefiles[call.file][n].text) /\ Cagefiles[call.file][n].cont \in BOOLEAN
        /\ \A v \in DOMAIN call.args : IsSeq(call.args[v])
        /\ call.arch \in Arches /\ call.keep \in BOOLEAN

ASSUME CagefileBuildAssumption ==
    /\ Faults \subseteq BuildFaults
    /\ "/" \in Paths
    /\ Parent \in [Paths -> Paths]
    /\ CagePaths \subseteq Paths
    /\ {"none", "dir"} \cap DOMAIN Context = {}
    /\ MaxCommands \in Nat

VARIABLES
    build,      \* the build in progress: the Executor
    temp,       \* its temporary cage, besides what BaseImages says of it
    built,      \* what is in the image a build saved under the tag
    more        \* commands that may still be run

vars == <<baseVars, build, temp, built, more>>

(***************************************************************************)
(* What parseCagefile gets for a build.                                    *)
(***************************************************************************)
parseCagefile(call) ==
    LET p == ParseAndValidate(Cagefiles[call.file])
    IN  [p EXCEPT !.insts = ResolveArgs(@, call.args)]

Insts == build.cagefile.insts

BuildSteps ==
    {"idle", "probe", "dir", "overlay", "keys", "iso", "define", "save",
     "start", "mark", "ssh", "run", "stop", "stopped", "copy", "digest", "ref",
     "clean", "ended"}

(***************************************************************************)
(* The guest's files: a directory, or what a COPY put there, and the owner.*)
(***************************************************************************)
Nothing == [what |-> "none", owner |-> "root"]
Directory(user) == [what |-> "dir", owner |-> user]
Fresh == [p \in Paths |-> IF p = "/" THEN Directory("root")
                          ELSE IF p \in CagePaths THEN Directory("cage") ELSE Nothing]

IsDir(fs, p) ==
    p \in Paths /\ (fs[p].what = "dir" \/
                    (fs[p].what \in DOMAIN Context /\ Context[fs[p].what] = "dir"))

Above(p) == {p, Parent[p], Parent[Parent[p]]}
Missing(fs, p) == {q \in Above(p) : fs[q] = Nothing}

\* mkdir -p by a user: what the lowest directory that exists allows.
MayMkdir(fs, p, user) ==
    LET upper == {q \in Above(p) \ Missing(fs, p) : Missing(fs, p) \subseteq {r \in Paths : q \in Above(r)}}
        low == CHOOSE q \in upper : upper \subseteq Above(q)
    IN  /\ p \in Paths
        /\ \A q \in Above(p) \ Missing(fs, p) : IsDir(fs, q)
        /\ Missing(fs, p) = {} \/ user = "root" \/ fs[low].owner = user
Mkdir(fs, p, user) ==
    [q \in Paths |-> IF q \in Missing(fs, p) THEN Directory(user) ELSE fs[q]]

\* keys/<name>/ may be there without a pair of keys in it that can be used.
KeysThere == {"none", "dir", "pair"}
NoTemp == [dir |-> FALSE, keys |-> "none", dom |-> FALSE]
NoCall == [file |-> "none"]
NoBuild == [pc |-> "idle", call |-> NoCall, cagefile |-> Bad, i |-> 1, env |-> <<>>, workdir |-> "/",
            user |-> "root", fs |-> Fresh, runs |-> <<>>, orders |-> <<>>, seen |-> NoFile,
            layer |-> NoImage, end |-> "none"]
NoneBuilt == [call |-> NoCall]

Init ==
    /\ BaseInit
    /\ build = NoBuild
    /\ temp = NoTemp
    /\ built = NoneBuilt
    /\ more = MaxCommands

TypeOK ==
    /\ BaseTypeOK
    /\ build.pc \in BuildSteps
    /\ build.call \in Builds \cup {NoCall}
    /\ DOMAIN build.fs = Paths
    /\ build.seen \in Content \cup {NoFile}
    /\ build.layer \in Image \cup {NoImage}
    /\ build.end \in BuildSteps \cup {"none", "saved", "unclean", "killed"}
    /\ temp.dir \in BOOLEAN /\ temp.keys \in KeysThere /\ temp.dom \in BOOLEAN
    /\ more \in 0 .. MaxCommands

-----------------------------------------------------------------------------
In(step) == build.pc = step
Step(next) == build' = [build EXCEPT !.pc = next]
Ended(how) == [NoBuild EXCEPT !.pc = "ended", !.call = build.call, !.end = how]
Ends(how) == build' = Ended(how)
TempCage(r) == SetCage("temp", r)
theTemp == cage["temp"]
shared == <<files, inplace, proc>>

(***************************************************************************)
(* DeleteState removes both directories of the temporary cage; its keys    *)
(* are in a third.                                                         *)
(***************************************************************************)
DeleteState == TempCage(NoCage)

(***************************************************************************)
(* runBuild and parseCagefile, for a Cagefile that can be read or not.     *)
(* images.Exists(tag) looks for a base image of that name and never at the *)
(* tags.                                                                   *)
(***************************************************************************)
BuildStart(call) ==
    LET c == parseCagefile(call) IN
    /\ In("idle")
    /\ \/ c.ok /\ build' = [NoBuild EXCEPT !.pc = "probe", !.call = call, !.cagefile = c]
       \/ (~c.ok \/ May("host")) /\ build' = [NoBuild EXCEPT !.pc = "ended", !.call = call]
    /\ UNCHANGED <<shared, cage, image, temp, built>>

\* Wrong variant: the base is not asked for its architecture.
BuildProbeAny ==
    /\ In("probe")
    /\ IF There(img)
          THEN build' = [build EXCEPT !.pc = "dir", !.seen = Seen]
          ELSE Ends("probe")
    /\ UNCHANGED <<shared, cage, image, temp, built>>

(***************************************************************************)
(* createTempCage.  The deferred cleanup comes after it: until then every  *)
(* failure cleans up for itself, or does not.                              *)
(***************************************************************************)
BuildProbe ==
    /\ In("probe")
    /\ IF There(img) /\ BaseArch(meta) = build.call.arch
          THEN build' = [build EXCEPT !.pc = "dir", !.seen = Seen]
          ELSE Ends("probe")
    /\ UNCHANGED <<shared, cage, image, temp, built>>

(***************************************************************************)
(* EnsureDir makes two directories; the first stays when the second cannot *)
(* be made.                                                                *)
(***************************************************************************)
BuildDir ==
    /\ In("dir")
    /\ \/ Step("overlay") /\ temp' = [temp EXCEPT !.dir = TRUE]
       \/ /\ May("host")
          /\ Ends("dir")
          /\ \E first \in BOOLEAN : temp' = [temp EXCEPT !.dir = first]
    /\ UNCHANGED <<shared, cage, image, built>>

(***************************************************************************)
(* FindFreePort, then qemu-img create, which opens the base image.         *)
(***************************************************************************)
BuildOverlay ==
    /\ In("overlay")
    /\ \/ /\ There(img)
          /\ TempCage([NoCage EXCEPT !.on = img])
          /\ Step("keys")
          /\ UNCHANGED temp
       \/ /\ ~There(img) \/ May("host")
          /\ DeleteState
          /\ temp' = [temp EXCEPT !.dir = FALSE]
          /\ Ends("overlay")
    /\ UNCHANGED <<shared, image, built>>

(***************************************************************************)
(* GenerateKeyPair: the directory, the pair, its permissions.  What is     *)
(* there when one of them fails stays: DeleteState does not know of it.    *)
(***************************************************************************)
BuildKeys ==
    /\ In("keys")
    /\ \/ Step("iso") /\ temp' = [temp EXCEPT !.keys = "pair"] /\ UNCHANGED cage
       \/ /\ May("host")
          /\ DeleteState
          /\ \E left \in KeysThere : temp' = [temp EXCEPT !.dir = FALSE, !.keys = left]
          /\ Ends("keys")
    /\ UNCHANGED <<shared, image, built>>

(***************************************************************************)
(* The public key is read, the runtime directory made, the ISO, the XML.   *)
(***************************************************************************)
BuildISO ==
    /\ In("iso")
    /\ \/ Step("define") /\ UNCHANGED <<temp, cage>>
       \/ /\ May("host")
          /\ DeleteState
          /\ temp' = [temp EXCEPT !.dir = FALSE]
          /\ Ends("iso")
    /\ UNCHANGED <<shared, image, built>>

\* Wrong variant: the keys alone are deleted.
BuildDefineLeaves ==
    /\ In("define")
    /\ \/ Step("save") /\ temp' = [temp EXCEPT !.dom = TRUE]
       \/ May("libvirt") /\ temp' = [temp EXCEPT !.keys = "none"] /\ Ends("define")
    /\ UNCHANGED <<shared, cage, image, built>>

BuildDefine ==
    /\ In("define")
    /\ \/ Step("save") /\ temp' = [temp EXCEPT !.dom = TRUE] /\ UNCHANGED cage
       \/ /\ May("libvirt")
          /\ DeleteState
          /\ temp' = [temp EXCEPT !.dir = FALSE, !.keys = "none"]
          /\ Ends("define")
    /\ UNCHANGED <<shared, image, built>>

BuildSave ==
    /\ In("save")
    /\ \/ TempCage([theTemp EXCEPT !.state = "stopped"]) /\ Step("start")
       \/ /\ May("host")
          /\ Ends("save")
          /\ \E s \in {"none", "torn"} : TempCage([theTemp EXCEPT !.state = s])
    /\ UNCHANGED <<shared, image, temp, built>>

-----------------------------------------------------------------------------
\* Wrong variant: the flags are forgotten.
FailsCleaned ==
    build' = [Ended(build.pc) EXCEPT !.pc = "clean"]
(***************************************************************************)
(* From here on the deferred call of Build cleans up, unless --keep-on-    *)
(* error or --interactive was given.                                       *)
(***************************************************************************)
Fails ==
    build' = [Ended(build.pc) EXCEPT !.pc = IF build.call.keep THEN "ended" ELSE "clean"]

(***************************************************************************)
(* startCage: errors around state.json are dropped, cloud-init's too.      *)
(***************************************************************************)
BuildBoot ==
    /\ In("start")
    /\ \/ /\ There(img) /\ ~Converting
          /\ TempCage([theTemp EXCEPT !.vm = TRUE])
          /\ Step("mark")
       \/ /\ ~There(img) \/ Converting \/ May("libvirt")
          /\ Fails
          /\ UNCHANGED cage
    /\ UNCHANGED <<shared, image, temp, built>>

BuildMark ==
    /\ In("mark")
    /\ \E s \in {"running"} \cup (IF May("torn") THEN {"stopped", "torn"} ELSE {}) :
          TempCage([theTemp EXCEPT !.state = s])
    /\ Step("ssh")
    /\ UNCHANGED <<shared, image, temp, built>>

BuildSSH ==
    /\ In("ssh")
    /\ Step("run") \/ (May("guest") /\ Fails)
    /\ UNCHANGED <<shared, cage, image, temp, built>>

-----------------------------------------------------------------------------
(***************************************************************************)
(* executeInstructions: the next one, in the guest or in the Executor.     *)
(***************************************************************************)
inst == Insts[build.i]
Word(text) == text[1]

Done1(b) == build' = [b EXCEPT !.i = @ + 1]
Executor(type) ==
    /\ In("run") /\ build.i <= Len(Insts)
    /\ inst.type = type
    /\ UNCHANGED <<shared, cage, image, temp, built>>

ExecArg == Executor("ARG") /\ Done1(build)

\* env with what an ENV sets, whether it was set before or not.
With(env, value) ==
    [k \in DOMAIN env \cup {BeforeEquals(value)} |->
        IF k = BeforeEquals(value) THEN AfterEquals(value) ELSE env[k]]

\* Wrong variant: the map starts anew with every ENV.
ExecEnvFresh ==
    /\ Executor("ENV")
    /\ IF Equals(inst.value) # {}
          THEN Done1([build EXCEPT !.env = With(<<>>, inst.value)])
          ELSE Fails

ExecEnv ==
    /\ Executor("ENV")
    /\ IF Equals(inst.value) # {}
          THEN Done1([build EXCEPT !.env = With(@, inst.value)])
          ELSE Fails

(***************************************************************************)
(* mkdir -p, without sudo: as the cage user, whatever USER says.           *)
(***************************************************************************)
ExecWorkdir ==
    LET dir == Word(inst.value)
        can == MayMkdir(build.fs, dir, "cage")
    IN
    /\ Executor("WORKDIR")
    /\ \/ can /\ Done1([build EXCEPT !.workdir = dir, !.fs = Mkdir(@, dir, "cage")])
       \/ (~can \/ May("guest")) /\ Fails

ExecUser ==
    /\ Executor("USER")
    /\ Done1([build EXCEPT !.user = Word(inst.value)])

(***************************************************************************)
(* "cd workdir && export ...; export ...; command", through sudo unless as *)
(* the cage user.  Without a single export, the command depends on the cd; *)
(* with one, only the first export does: the command runs anyway, where    *)
(* ssh begins.  The exports come in the order in which Go goes through a   *)
(* map, any, and are in double quotes: a value may mention a variable that *)
(* was exported before it.                                                 *)
(***************************************************************************)
Login == "/home/cage"
Without(env, k) == [j \in DOMAIN env \ {k} |-> env[j]]

ExecRun ==
    LET there == IsDir(build.fs, build.workdir)
        can == (there \/ DOMAIN build.env # {}) /\ build.user \in Users
        Ran(order) == [cmd |-> inst.value, as |-> build.user,
                       in |-> IF there THEN build.workdir ELSE Login,
                       env |-> IF there THEN build.env ELSE Without(build.env, Head(order))]
    IN
    /\ Executor("RUN")
    /\ \/ /\ can
          /\ \E order \in SetToSeqs(DOMAIN build.env) :
                Done1([build EXCEPT !.runs = Append(@, Ran(order)), !.orders = Append(@, order)])
       \/ (~can \/ May("guest")) /\ Fails

(***************************************************************************)
(* The first word of a COPY is the source, the last the destination, any   *)
(* in between nothing; a source outside the context is refused.  The copy  *)
(* is staged in /tmp, the destination deleted, and the copy moved there.   *)
(* rm does not delete "/"; an absolute destination that ends in a slash is *)
(* its own directory to filepath.Dir, and mv refuses to make a file of it. *)
(***************************************************************************)
Dest(args, workdir) ==
    LET d == Word(Last(args))
    IN  IF d \in Paths THEN d
        ELSE IF d = "." THEN workdir
        ELSE (IF workdir = "/" THEN "" ELSE workdir) \o "/" \o d

Slashed(args) == Word(Last(args)) \in Paths /\ Len(Last(args)) > 1 /\ Last(Last(args)) = "/"

Placed(fs, src, dest, user) ==
    [q \in Paths |-> IF q = dest THEN [what |-> src, owner |-> user]
                     ELSE IF dest \in Above(q) THEN Nothing ELSE fs[q]]

ExecCopy ==
    LET src == Word(inst.args[1])
        dest == Dest(inst.args, build.workdir)
        above == IF Slashed(inst.args) THEN dest ELSE Parent[dest]
        can == /\ src \in DOMAIN Context
               /\ dest # "/"
               /\ Slashed(inst.args) => Context[src] = "dir"
               /\ MayMkdir(build.fs, above, "root")
               /\ build.user \in Users
    IN
    /\ Executor("COPY")
    /\ \/ /\ can
          /\ Done1([build EXCEPT
                 !.fs = Placed(Mkdir(@, above, "root"), src, dest, build.user)])
       \/ (~can \/ May("guest")) /\ Fails

ExecDone ==
    /\ In("run") /\ build.i > Len(Insts)
    /\ Step("stop")
    /\ UNCHANGED <<shared, cage, image, temp, built>>

-----------------------------------------------------------------------------
(***************************************************************************)
(* stopCage: shutdown, or destroy if that cannot be asked for; after 30    *)
(* seconds it goes on, whether the VM is down or not.                      *)
(***************************************************************************)
BuildStop ==
    /\ In("stop")
    /\ \E alive \in {FALSE} \cup (IF May("hang") \/ May("libvirt") THEN {TRUE} ELSE {}) :
          TempCage([theTemp EXCEPT !.vm = alive])
    /\ Step("stopped")
    /\ UNCHANGED <<shared, image, temp, built>>

\* Wrong variant: state.json is read until it can be.
BuildStoppedRetries ==
    /\ In("stopped") /\ Listed("temp")
    /\ TempCage([theTemp EXCEPT !.state = "stopped"])
    /\ Step("copy")
    /\ UNCHANGED <<shared, image, temp, built>>

(***************************************************************************)
(* LoadState's error is dropped and the nil state dereferenced: the build  *)
(* panics, and the deferred cleanup runs.  SaveState's is dropped too.     *)
(***************************************************************************)
BuildStopped ==
    /\ In("stopped")
    /\ \/ /\ Listed("temp")
          /\ \E s \in {"stopped"} \cup (IF May("torn") THEN {theTemp.state, "torn"} ELSE {}) :
                TempCage([theTemp EXCEPT !.state = s])
          /\ Step("copy")
       \/ ~Listed("temp") /\ Fails /\ UNCHANGED cage
    /\ UNCHANGED <<shared, image, temp, built>>

(***************************************************************************)
(* saveImage and SaveLayered; the ref is written over whatever the tag     *)
(* named before.                                                           *)
(***************************************************************************)
BuildCopy ==
    /\ In("copy")
    /\ \/ /\ There(theTemp.on)
          /\ build' = [build EXCEPT !.pc = "digest", !.layer = Copied("temp", build.call.arch, build.seen)]
       \/ May("host") /\ Fails
    /\ UNCHANGED <<shared, cage, image, temp, built>>

BuildDigest ==
    /\ In("digest")
    /\ \/ There(img) /\ build' = [build EXCEPT !.pc = "ref", !.layer = Hashed(@)]
       \/ (~There(img) \/ May("host")) /\ Fails
    /\ UNCHANGED <<shared, cage, image, temp, built>>

BuildRef ==
    /\ In("ref")
    /\ \/ /\ image' = build.layer
          /\ built' = [call |-> build.call, insts |-> Insts, fs |-> build.fs, runs |-> build.runs,
                       orders |-> build.orders, env |-> build.env, user |-> build.user, workdir |-> build.workdir]
          /\ build' = [Ended("saved") EXCEPT !.pc = "clean"]
       \/ May("host") /\ Fails /\ UNCHANGED <<image, built>>
    /\ UNCHANGED <<shared, cage, temp>>

(***************************************************************************)
(* cleanup: destroy, undefine, keys, known host, directories; what fails   *)
(* is skipped.                                                             *)
(***************************************************************************)
BuildClean ==
    /\ In("clean")
    /\ \/ DeleteState /\ temp' = NoTemp /\ Ends(build.end)
       \/ /\ May("libvirt")
          /\ \E alive \in {FALSE, theTemp.vm} : TempCage([NoCage EXCEPT !.vm = alive])
          /\ temp' = [NoTemp EXCEPT !.dom = TRUE]
          /\ Ends("unclean")
    /\ UNCHANGED <<shared, image, built>>

BuildKilled ==
    /\ May("crash") /\ build.pc \notin {"idle", "ended"}
    /\ Ends("killed")
    /\ UNCHANGED <<shared, cage, image, temp, built>>

BuildNext ==
    /\ \/ BuildProbe \/ BuildDir \/ BuildOverlay \/ BuildKeys \/ BuildISO
       \/ BuildDefine \/ BuildSave \/ BuildBoot \/ BuildMark \/ BuildSSH
       \/ ExecArg \/ ExecEnv \/ ExecWorkdir \/ ExecUser \/ ExecRun \/ ExecCopy \/ ExecDone
       \/ BuildStop \/ BuildStopped \/ BuildCopy \/ BuildDigest \/ BuildRef
       \/ BuildClean
    /\ UNCHANGED more

(***************************************************************************)
(* The other commands.  Which of the free processes runs one makes no      *)
(* difference: it is always the same.                                      *)
(***************************************************************************)
OthersNext ==
    LET begun == {p \in Procs : At(p, "idle") /\ proc'[p].pc # "idle"} IN
    /\ \/ /\ \E p \in Procs : ProcNext(p)
          /\ begun # {} => more > 0 /\ begun = {CHOOSE p \in Procs : At(p, "idle")}
          /\ more' = IF begun = {} THEN more ELSE more - 1
       \/ /\ UserBoots \/ UserStops \/ UserRemoved \/ RefRemoved
          /\ more > 0 /\ more' = more - 1
    /\ UNCHANGED <<build, temp>>
    /\ built' = IF image' = image THEN built ELSE NoneBuilt

Next ==
    \/ \E call \in Builds : more > 1 /\ BuildStart(call) /\ more' = more - 2
    \/ BuildNext
    \/ BuildKilled /\ UNCHANGED more
    \/ OthersNext

(***************************************************************************)
(* The builder goes on as long as it is not killed: a guest that does not  *)
(* answer is waited for 120 seconds, a shutdown 30.  That a command sent   *)
(* to the guest comes to an end is assumed: nothing in the code limits it. *)
(***************************************************************************)
Spec == Init /\ [][Next]_vars /\ WF_vars(BuildNext)

-----------------------------------------------------------------------------
(***************************************************************************)
(* What a Cagefile means, without an executor: the working directory, the  *)
(* environment and the user in force at an instruction are those of the    *)
(* last WORKDIR, ENV of each name, and USER before it.                     *)
(***************************************************************************)
Before(insts, type, i) == {j \in DOMAIN insts : j < i /\ insts[j].type = type}
LastOf(S) == CHOOSE j \in S : \A k \in S : k <= j

WorkdirAt(insts, i) ==
    LET S == Before(insts, "WORKDIR", i)
    IN  IF S = {} THEN "/" ELSE Word(insts[LastOf(S)].value)
UserAt(insts, i) ==
    LET S == Before(insts, "USER", i)
    IN  IF S = {} THEN "root" ELSE Word(insts[LastOf(S)].value)
EnvAt(insts, i) ==
    LET S == Before(insts, "ENV", i)
        Sets(k) == {j \in S : BeforeEquals(insts[j].value) = k}
    IN  [k \in {BeforeEquals(insts[j].value) : j \in S} |->
            AfterEquals(insts[LastOf(Sets(k))].value)]

\* What the RUN lines before i make the guest run, in their order.
RunAt(insts, i) ==
    [cmd |-> insts[i].value, in |-> WorkdirAt(insts, i), env |-> EnvAt(insts, i),
     as |-> UserAt(insts, i)]
RunsTo(insts, i) ==
    Flat([j \in 1 .. i - 1 |-> IF insts[j].type = "RUN" THEN <<RunAt(insts, j)>> ELSE <<>>])

\* The same commands as the same users, wherever they ran.
SameCommands(ran, runs) ==
    /\ DOMAIN ran = DOMAIN runs
    /\ \A n \in DOMAIN runs : ran[n].cmd = runs[n].cmd /\ ran[n].as = runs[n].as

\* Where a COPY puts what it copies, and what is there then.
To(insts, i) == Dest(insts[i].args, WorkdirAt(insts, i))
CopyAt(insts, i) == [what |-> Word(insts[i].args[1]), owner |-> UserAt(insts, i)]

BuiltImage == image # NoImage /\ image.of = "temp"
AtEnd(insts) == Len(insts) + 1

(***************************************************************************)
(* A RUN has its working directory, unless a COPY took the place of it or  *)
(* of one that it is in.                                                   *)
(***************************************************************************)
Copies(insts) == Before(insts, "COPY", AtEnd(insts))
WorkdirStands(insts) ==
    \A i \in Before(insts, "RUN", AtEnd(insts)), n \in Copies(insts) :
        n < i => To(insts, n) \notin Above(WorkdirAt(insts, i))

(***************************************************************************)
(* A COPY of one source to a place where nothing is: no directory of the   *)
(* base image, no WORKDIR, nothing that an earlier COPY made.              *)
(***************************************************************************)
ToNewPlace(insts, n) ==
    /\ To(insts, n) \in Paths /\ Fresh[To(insts, n)] = Nothing
    /\ Len(insts[n].args) = 2
    /\ \A m \in Before(insts, "WORKDIR", n) : To(insts, n) \notin Above(Word(insts[m].value))
    /\ \A m \in Before(insts, "COPY", n) : To(insts, n) \notin Above(To(insts, m))

(***************************************************************************)
(* The image a build saves holds what the Cagefile says: every RUN once,   *)
(* in order, as it is written and as whom it says (root, until USER does), *)
(* and, if the working directories stand, where and with what environment  *)
(* it says; every COPY to a new place that no later one deletes; of the    *)
(* context nothing but what a COPY put where it is; and the same settings  *)
(* in its manifest.  No failure in between is papered over.                *)
(***************************************************************************)
ImageIsCagefile ==
    BuiltImage =>
        LET insts == built.insts
            end == AtEnd(insts)
        IN  /\ SameCommands(built.runs, RunsTo(insts, end))
            /\ WorkdirStands(insts) => built.runs = RunsTo(insts, end)
            /\ \A n \in Copies(insts) :
                   /\ ToNewPlace(insts, n)
                   /\ \A m \in Copies(insts) : m > n => To(insts, m) \notin Above(To(insts, n))
                   => built.fs[To(insts, n)] = CopyAt(insts, n)
            /\ \A q \in Paths : built.fs[q].what \in DOMAIN Context =>
                   \E n \in Copies(insts) : q = To(insts, n) /\ built.fs[q] = CopyAt(insts, n)
            /\ built.workdir = WorkdirAt(insts, end)
            /\ built.user = UserAt(insts, end)
            /\ built.env = EnvAt(insts, end)

(***************************************************************************)
(* "Sets the working directory for subsequent RUN, COPY instructions": all *)
(* RUN lines run where they should and with the environment they should.   *)
(***************************************************************************)
RunsInWorkdir ==
    BuiltImage => built.runs = RunsTo(built.insts, AtEnd(built.insts))

(***************************************************************************)
(* "COPY ./package.json .  # copies to /app/package.json": into the        *)
(* working directory, which is a directory still.                          *)
(***************************************************************************)
CopiesInto ==
    BuiltImage =>
        \A n \in Copies(built.insts) :
            Word(Last(built.insts[n].args)) = "." =>
                built.fs[WorkdirAt(built.insts, n)].what = "dir"

(***************************************************************************)
(* "Commands run as the cage user": those that no USER line is before.     *)
(***************************************************************************)
RunsAsCage ==
    BuiltImage /\ Before(built.insts, "USER", AtEnd(built.insts)) = {} =>
        \A n \in DOMAIN built.runs : built.runs[n].as = "cage"

(***************************************************************************)
(* ENV makes a variable "available to RUN commands", with the value that   *)
(* its line gives: a variable which another's value mentions is exported   *)
(* before that one.                                                        *)
(***************************************************************************)
EnvInOrder ==
    BuiltImage =>
        \A n \in DOMAIN built.runs : \A i, j \in DOMAIN built.orders[n] :
            LET mentioned == Plain(Head(built.orders[n][j]))
                value == built.runs[n].env[built.orders[n][i]]
            IN  i # j /\ (\E k \in DOMAIN value : value[k] = mentioned) => j < i

(***************************************************************************)
(* What the reference shows of WORKDIR ("The directory is created if it    *)
(* doesn't exist.") and of COPY works: no instruction fails, as long as    *)
(* the guest does what it is told.                                         *)
(***************************************************************************)
NoInstructionFails == build.end # "run"

(***************************************************************************)
(* The lines that say something are those that are neither blank nor       *)
(* comments.  A comment inside an instruction is one after a line that     *)
(* this instruction goes on after.                                         *)
(***************************************************************************)
IsComment(line) == line.text # <<>> /\ Head(line.text) = Comment
Says(line) == line.text # <<>> /\ ~IsComment(line)
Continues(lines, n) ==
    \E m \in 1 .. n - 1 : Says(lines[m]) /\ \A k \in m .. n - 1 : lines[k].cont
NoInnerComment(lines) == \A n \in DOMAIN lines : IsComment(lines[n]) => ~Continues(lines, n)
Words(text) == Flat([k \in DOMAIN text |-> IF text[k] = " " THEN <<>> ELSE <<text[k]>>])
Written(lines, n) == IF Says(lines[n]) THEN Words(lines[n].text) ELSE <<>>
Understood(ins) == <<ins.type>> \o Words(ins.value)

AsWritten(lines) ==
    LET out == Parse(lines).out
    IN  Flat([n \in DOMAIN lines |-> Written(lines, n)]) =
        Flat([i \in DOMAIN out |-> Understood(out[i])])

(***************************************************************************)
(* No line of the Cagefile is lost on its way into instructions, however   *)
(* it is broken into lines, and no comment gets there: the words are all   *)
(* there, in their order.  If no comment stands inside an instruction.     *)
(***************************************************************************)
CagefileWhole ==
    BuiltImage =>
        LET lines == Cagefiles[built.call.file]
        IN  NoInnerComment(lines) => AsWritten(lines)

(***************************************************************************)
(* "Lines starting with # are comments": inside an instruction, too.       *)
(***************************************************************************)
CommentsSkipped ==
    BuiltImage => AsWritten(Cagefiles[built.call.file])

GivenArgs(call) == Arguments(ParseAndValidate(Cagefiles[call.file]).insts, call.args)

\* No value that an argument gets mentions an argument.
Unnested ==
    \A call \in Builds :
        LET args == GivenArgs(call) IN
        \A v, w \in DOMAIN args : \A k \in DOMAIN args[w] : args[w][k] \notin {Brace(v), Plain(v)}

(***************************************************************************)
(* A command that ran in an image mentions no argument any more: neither   *)
(* one that is declared, before or after it, nor one given to the build.   *)
(* (Where a value mentions one, the mention may be left: Unnested.)        *)
(***************************************************************************)
ArgsResolved ==
    BuiltImage =>
        \A v \in DOMAIN GivenArgs(built.call), n \in DOMAIN built.runs :
            \A k \in DOMAIN built.runs[n].cmd :
                built.runs[n].cmd[k] \notin {Brace(v), Plain(v)}

\* Where a build ends that cannot be parsed or whose cage cannot be created.
Creating == {"none", "probe", "dir", "overlay", "keys", "iso", "define", "save"}

(***************************************************************************)
(* A build that ends by itself, and was not told to keep the temporary     *)
(* cage, leaves no domain, no VM and no disk of it, unless the state of a  *)
(* domain just defined could not be saved; directories only then and when  *)
(* they could not all be made; keys only then and when the step that makes *)
(* them or the one after it failed.                                        *)
(***************************************************************************)
Kept == build.call.keep /\ build.end \notin Creating \cup {"saved"}
BuildLeavesNothing ==
    In("ended") /\ build.end \notin {"killed", "unclean"} /\ ~Kept =>
        /\ build.end # "save" => theTemp = NoCage /\ ~temp.dom
        /\ temp.dir => build.end \in {"dir", "save"}
        /\ temp.keys # "none" => build.end \in {"keys", "iso", "save"}

(***************************************************************************)
(* "Ensure cleanup unless KeepOnError or Interactive": no domain is left.  *)
(***************************************************************************)
CleanedUp ==
    In("ended") /\ build.end \notin {"killed", "unclean"} /\ ~build.call.keep => ~temp.dom

(***************************************************************************)
(* With --keep-on-error or --interactive, a build that fails once its cage *)
(* is there leaves it as it was: domain, keys and disk, and the VM running *)
(* if it failed at an instruction.                                         *)
(***************************************************************************)
KeptForDebugging ==
    In("ended") /\ build.end \in BuildSteps \ Creating /\ build.call.keep =>
        /\ temp.dir /\ temp.dom /\ temp.keys = "pair" /\ There(theTemp.on)
        /\ build.end \in {"ssh", "run"} => theTemp.vm

(***************************************************************************)
(* "Keep temporary cage defined on build failure (stopped)".               *)
(***************************************************************************)
KeptStopped ==
    In("ended") /\ build.end \in BuildSteps \ Creating /\ build.call.keep => ~theTemp.vm

(***************************************************************************)
(* "Cage must be stopped to avoid corrupted disk state": no image that a   *)
(* build saves, and none that cage image save does, is the copy of a disk  *)
(* in use.                                                                 *)
(***************************************************************************)
BuildSavedAtRest == BuiltImage => ~image.torn
UserSavedAtRest == image # NoImage /\ image.of = "user" => ~image.torn

(***************************************************************************)
(* The same of what a save relies on: one of a user's cage, whose state is *)
(* looked at, and one of a temporary cage, after the build's own stop,     *)
(* begins only when no VM of it runs.                                      *)
(***************************************************************************)
SavesStopped ==
    [][/\ \A p \in Procs : At(p, "idle") /\ proc'[p].pc = "save_copy" => ~cage["user"].vm
       /\ In("stopped") /\ build'.pc = "copy" => ~theTemp.vm]_vars

(***************************************************************************)
(* A build that was begun ends, in whichever way.                          *)
(***************************************************************************)
BuildEnds == ~In("idle") ~> In("ended")
=============================================================================
