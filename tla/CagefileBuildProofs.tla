------------------------- MODULE CagefileBuildProofs -------------------------
(***************************************************************************)
(* What holds of the base image, of what is saved on it and of a build's   *)
(* temporary cage, for any number of commands working on them at once, any *)
(* architectures, Cagefiles, calls and faults; and that the image a build  *)
(* saves is what its Cagefile says.                                        *)
(***************************************************************************)
EXTENDS CagefileBuild, SequenceTheorems, TLAPS
LOCAL INSTANCE SequencesExt
Numbers == INSTANCE WellFoundedInduction

\* The steps of a download that has created its file.
Loading == {"pull_copy", "pull_publish", "pull_convert", "pull_meta"}

FdOpen == \A p \in Procs : proc[p].fd # "none" => At(p, "pull_copy")

LoadsAlone ==
    \A p, q \in Procs : proc[p].pc \in Loading /\ proc[q].pc \in Loading => p = q

Loaded(p) ==
    /\ At(p, "pull_copy") =>
          IF There(tmp) THEN /\ proc[p].fd = "tmp"
                             /\ tmp.by = p /\ ~tmp.mixed /\ tmp.arch = proc[p].arch
                        ELSE proc[p].fd = "gone"
    /\ At(p, "pull_publish") /\ There(tmp) => Whole(tmp) /\ tmp.arch = proc[p].arch
    /\ At(p, "pull_convert") => img.by = p /\ ~img.mixed /\ img.arch = proc[p].arch
    /\ At(p, "pull_meta") => Whole(img) /\ img.arch = proc[p].arch

FilesInv ==
    /\ FdOpen
    /\ ~spoilt => LoadsAlone /\ \A p \in Procs : Loaded(p)
    /\ BaseWhole /\ MetaTruthful

Starting(p) == proc[p].pc \in {"start_disk", "start_save"}
StartsAlone == \A p, q \in Procs : Starting(p) /\ Starting(q) => p = q
UserStarts ==
    \A p \in Procs :
        /\ At(p, "start_disk") => cage["user"] = NoCage
        /\ At(p, "start_save") => There(cage["user"].on) /\ cage["user"].state = "none"
BaseUnder == \A c \in CageNames : Listed(c) => There(cage[c].on)
CagesInv == StartsAlone /\ UserStarts /\ BaseUnder

SeenArch(seen, arch) == ~spoilt /\ There(seen) => arch = seen.arch
LayerRight(layer) == layer # NoImage => SeenArch(layer.seen, layer.arch)
LayersInv ==
    /\ \A p \in Procs :
          /\ LayerRight(proc[p].layer)
          /\ At(p, "save_copy") => SeenArch(proc[p].seen, proc[p].arch)
          /\ proc[p].pc \in {"save_digest", "save_ref"} => proc[p].layer \in Image
    /\ LayerRight(build.layer) /\ LayerRight(image)
    /\ build.pc \notin {"idle", "probe"} => SeenArch(build.seen, build.call.arch)

BuildFields == {"pc", "call", "cagefile", "i", "env", "workdir", "user", "fs", "runs",
                "orders", "seen", "layer", "end"}
Late == {"start", "mark", "ssh", "run", "stop", "stopped", "copy", "digest", "ref"}
Whenever(dir, keys, dom) == temp = [dir |-> dir, keys |-> keys, dom |-> dom]
TempInv ==
    /\ In("idle") \/ In("probe") \/ In("dir") => theTemp = NoCage /\ temp = NoTemp
    /\ In("overlay") => theTemp = NoCage /\ Whenever(TRUE, "none", FALSE)
    /\ In("keys") => Whenever(TRUE, "none", FALSE)
    /\ In("iso") \/ In("define") => Whenever(TRUE, "pair", FALSE)
    /\ build.pc \in {"save"} \cup Late => Whenever(TRUE, "pair", TRUE)
    /\ build.pc \in {"keys", "iso", "define", "save"} \cup Late => There(theTemp.on)
    /\ build.pc \in {"mark", "ssh", "run"} => theTemp.vm
    /\ In("clean") => build.end = "saved" \/ (~build.call.keep /\ build.end \in Late)
    /\ build.pc \in {"digest", "ref"} => build.layer \in Image
    /\ build.pc \notin {"idle", "probe", "ended", "clean"} => build.call.arch \in Arches
Unmade == {"none", "probe", "dir", "overlay", "keys", "iso", "define"}
EndInv ==
    In("ended") =>
        /\ build.end \in {"none", "probe", "dir", "overlay", "keys", "iso", "define", "save",
                          "saved", "unclean", "killed"} \cup Late
        /\ build.end \in Unmade \cup {"saved"} => theTemp = NoCage /\ ~temp.dom
        /\ build.end \in (Unmade \ {"dir"}) \cup {"saved"} => ~temp.dir
        /\ build.end \in (Unmade \ {"keys", "iso"}) \cup {"saved"} => temp.keys = "none"
        /\ build.end \in Late =>
              IF build.call.keep
                 THEN /\ Whenever(TRUE, "pair", TRUE) /\ There(theTemp.on)
                      /\ build.end \in {"ssh", "run"} => theTemp.vm
                 ELSE theTemp = NoCage /\ temp = NoTemp
BuildInv == DOMAIN build = BuildFields /\ TempInv /\ EndInv

BuildIInv == TypeOK /\ FilesInv /\ CagesInv /\ LayersInv /\ BuildInv
-----------------------------------------------------------------------------
\* What is there is not NoFile, and nobody's name is one of the marks.
LEMMA Files ==
    /\ NoFile \notin Content /\ NoFile.by = "absent"
    /\ \A f \in Content : There(f)
    /\ \A p \in Procs : p # Done /\ p # Lost /\ p # "absent"
    /\ HostArch \in Arches /\ Done # Lost
<1>1. \A p \in Procs : p # "done" /\ p # "lost" /\ p # "absent"
  BY BaseImagesAssumption
<1>2. \A f \in Content : f.by # "absent"
  BY <1>1 DEF Content, Done, Lost
<1> QED
  BY <1>1, <1>2, BaseImagesAssumption DEF NoFile, There, Done, Lost

\* Architectures are read or assumed, never made up.
LEMMA KnownArch == \A m : BaseArch(m) \in Arches
BY BaseImagesAssumption DEF BaseArch

LEMMA IdleIs ==
    /\ Idle \in Process
    /\ Idle.pc = "idle" /\ Idle.name = "own" /\ Idle.fd = "none"
    /\ Idle.layer = NoImage
BY BaseImagesAssumption DEF Idle, Process, Steps

LEMMA NoCageIs ==
    /\ NoCage \in Cage /\ NoCage.on = NoFile /\ NoCage.state = "none"
    /\ NoCage.vm = FALSE
BY DEF NoCage, Cage

\* What a step of p leaves alone of another process, and of its open file.
Still(q) ==
    /\ proc'[q].pc = proc[q].pc /\ proc'[q].arch = proc[q].arch
    /\ proc'[q].name = proc[q].name
    /\ proc'[q].seen = proc[q].seen /\ proc'[q].layer = proc[q].layer
Keeps(p) == proc' \in [Procs -> Process] /\ \A q \in Procs \ {p} : Still(q)
Fds(p) == \A q \in Procs \ {p} : proc'[q].fd = proc[q].fd

LEMMA Became ==
    ASSUME BaseTypeOK, NEW p \in Procs, NEW r \in Process, Become(p, r)
    PROVE  Keeps(p) /\ Fds(p) /\ proc'[p] = r
BY DEF BaseTypeOK, Become, Keeps, Fds, Still

LEMMA Gone ==
    ASSUME BaseTypeOK, NEW p \in Procs, NEW s \in Steps, Goto(p, s)
    PROVE  /\ Keeps(p) /\ Fds(p)
           /\ proc'[p].pc = s /\ proc'[p].arch = proc[p].arch /\ proc'[p].name = proc[p].name
           /\ proc'[p].fd = proc[p].fd
           /\ proc'[p].seen = proc[p].seen /\ proc'[p].layer = proc[p].layer
<1> DEFINE n == [proc[p] EXCEPT !.pc = s]
<1>0. proc[p] \in Process
  BY DEF BaseTypeOK
<1>1. /\ n \in Process
      /\ n.pc = s /\ n.arch = proc[p].arch /\ n.name = proc[p].name
      /\ n.fd = proc[p].fd
      /\ n.seen = proc[p].seen /\ n.layer = proc[p].layer
  BY <1>0 DEF Process
<1>2. Become(p, n)
  BY DEF Goto
<1> HIDE DEF n
<1> QED
  BY <1>1, <1>2, Became

LEMMA Finished ==
    ASSUME BaseTypeOK, NEW p \in Procs, Finish(p)
    PROVE  Keeps(p) /\ Fds(p) /\ proc'[p] = Idle
BY IdleIs, Became DEF Finish

\* A step that opens or closes the file it downloads to.
LEMMA Opened ==
    ASSUME BaseTypeOK, NEW p \in Procs, NEW s \in Steps,
           NEW f \in {"none", "tmp", "img", "gone"},
           Become(p, [proc[p] EXCEPT !.pc = s, !.fd = f])
    PROVE  /\ Keeps(p) /\ Fds(p)
           /\ proc'[p].pc = s /\ proc'[p].arch = proc[p].arch /\ proc'[p].name = proc[p].name
           /\ proc'[p].fd = f
           /\ proc'[p].seen = proc[p].seen /\ proc'[p].layer = proc[p].layer
<1> DEFINE n == [proc[p] EXCEPT !.pc = s, !.fd = f]
<1>0. proc[p] \in Process
  BY DEF BaseTypeOK
<1>1. /\ n \in Process
      /\ n.pc = s /\ n.arch = proc[p].arch /\ n.name = proc[p].name
      /\ n.fd = f
      /\ n.seen = proc[p].seen /\ n.layer = proc[p].layer
  BY <1>0 DEF Process
<1>2. Become(p, n)
  OBVIOUS
<1> HIDE DEF n
<1> QED
  BY <1>1, <1>2, Became

\* Open files follow the name, or lose it.
Fd == {"none", "tmp", "img", "gone"}
Moves == {TmpGone, ImgGone, Renamed}

LEMMA MovesAre ==
    /\ Moves \subseteq [Fd -> Fd]
    /\ \A move \in Moves : move["none"] = "none" /\ move["gone"] = "gone"
    /\ TmpGone["tmp"] = "gone" /\ ImgGone["tmp"] = "tmp"
BY DEF Moves, Fd, TmpGone, ImgGone, Renamed, Stay

LEMMA Relinking ==
    ASSUME BaseTypeOK, NEW move \in Moves
    PROVE  /\ Relink(move) \in [Procs -> Process]
           /\ \A q \in Procs :
                 LET n == Relink(move)[q] IN
                 /\ n.pc = proc[q].pc /\ n.arch = proc[q].arch /\ n.name = proc[q].name
                 /\ n.seen = proc[q].seen
                 /\ n.layer = proc[q].layer /\ n.fd = move[proc[q].fd]
<1>1. ASSUME NEW q \in Procs
      PROVE  LET n == [proc[q] EXCEPT !.fd = move[@]] IN
             /\ n \in Process
             /\ n.pc = proc[q].pc /\ n.arch = proc[q].arch /\ n.name = proc[q].name
             /\ n.seen = proc[q].seen
             /\ n.layer = proc[q].layer /\ n.fd = move[proc[q].fd]
  <2>1. proc[q] \in Process
    BY DEF BaseTypeOK
  <2>2. move[proc[q].fd] \in Fd
    BY <2>1, MovesAre DEF Process, Fd
  <2> QED
    BY <2>1, <2>2 DEF Process, Fd
<1> QED
  BY <1>1 DEF Relink

LEMMA Relinked ==
    ASSUME BaseTypeOK, NEW p \in Procs, NEW move \in Moves, NEW s \in Steps, Moved(p, move, s)
    PROVE  /\ Keeps(p) /\ \A q \in Procs \ {p} : proc'[q].fd = move[proc[q].fd]
           /\ proc'[p].pc = s /\ proc'[p].arch = proc[p].arch /\ proc'[p].name = proc[p].name
           /\ proc'[p].fd = "none"
           /\ proc'[p].seen = proc[p].seen /\ proc'[p].layer = proc[p].layer
<1> DEFINE f == Relink(move)
           n == [f[p] EXCEPT !.pc = s, !.fd = "none"]
<1>0. /\ f \in [Procs -> Process] /\ f[p] \in Process
      /\ f[p].arch = proc[p].arch /\ f[p].name = proc[p].name
      /\ f[p].seen = proc[p].seen
      /\ f[p].layer = proc[p].layer
  BY Relinking
<1> HIDE DEF f
<1>1. /\ n \in Process
      /\ n.pc = s /\ n.arch = proc[p].arch /\ n.name = proc[p].name
      /\ n.fd = "none"
      /\ n.seen = proc[p].seen /\ n.layer = proc[p].layer
  BY <1>0 DEF Process
<1>2. proc' = [f EXCEPT ![p] = n]
  BY <1>0 DEF Moved, f
<1> HIDE DEF n
<1>3. proc' \in [Procs -> Process] /\ proc'[p] = n /\ \A q \in Procs \ {p} : proc'[q] = f[q]
  BY <1>0, <1>1, <1>2
<1> QED
  BY <1>1, <1>3, Relinking DEF f, Keeps, Still

LEMMA RelinkedIdle ==
    ASSUME BaseTypeOK, NEW p \in Procs, proc' = [Relink(TmpGone) EXCEPT ![p] = Idle]
    PROVE  /\ Keeps(p) /\ \A q \in Procs \ {p} : proc'[q].fd = TmpGone[proc[q].fd]
           /\ proc'[p] = Idle
<1>1. TmpGone \in Moves
  BY DEF Moves
<1> DEFINE f == Relink(TmpGone)
<1>2. f \in [Procs -> Process]
  BY <1>1, Relinking
<1>3. proc' \in [Procs -> Process] /\ proc'[p] = Idle /\ \A q \in Procs \ {p} : proc'[q] = f[q]
  BY <1>2, IdleIs
<1> QED
  BY <1>1, <1>3, Relinking DEF Keeps, Still

LEMMA RelinkedGoing ==
    ASSUME BaseTypeOK, NEW p \in Procs, NEW s \in Steps,
           proc' = [Relink(ImgGone) EXCEPT ![p].pc = s]
    PROVE  /\ Keeps(p) /\ \A q \in Procs : proc'[q].fd = ImgGone[proc[q].fd]
           /\ proc'[p].pc = s /\ proc'[p].arch = proc[p].arch /\ proc'[p].name = proc[p].name
          
           /\ proc'[p].seen = proc[p].seen /\ proc'[p].layer = proc[p].layer
<1> DEFINE f == Relink(ImgGone)
           n == [f[p] EXCEPT !.pc = s]
<1>m. ImgGone \in Moves
  BY DEF Moves
<1>0. /\ f \in [Procs -> Process] /\ f[p] \in Process
      /\ f[p].arch = proc[p].arch /\ f[p].name = proc[p].name /\ f[p].fd = ImgGone[proc[p].fd]
      /\ f[p].seen = proc[p].seen
      /\ f[p].layer = proc[p].layer
  BY <1>m, Relinking
<1> HIDE DEF f
<1>1. /\ n \in Process
      /\ n.pc = s /\ n.arch = proc[p].arch /\ n.name = proc[p].name
      /\ n.fd = ImgGone[proc[p].fd]
      /\ n.seen = proc[p].seen /\ n.layer = proc[p].layer
  BY <1>0 DEF Process
<1>2. proc' = [f EXCEPT ![p] = n]
  BY <1>0 DEF f
<1> HIDE DEF n
<1>3. proc' \in [Procs -> Process] /\ proc'[p] = n /\ \A q \in Procs \ {p} : proc'[q] = f[q]
  BY <1>0, <1>1, <1>2
<1> QED
  BY <1>m, <1>1, <1>3, Relinking DEF f, Keeps, Still

-----------------------------------------------------------------------------
\* A step of p that neither starts a cage nor saves one.
Minds(p) ==
    /\ proc'[p].pc \notin {"start_disk", "start_save", "save_copy", "save_digest", "save_ref"}
    /\ proc'[p].layer \in {proc[p].layer, NoImage}

Does(p) ==
    /\ BaseTypeOK' /\ FilesInv'
    /\ Keeps(p) /\ Minds(p) /\ UNCHANGED cage
    /\ image' = image /\ (spoilt => spoilt')

\* A file that is closed is the same but for its writer.
LEMMA Closing ==
    ASSUME NEW f \in Content \cup {NoFile}, NEW p \in Procs, NEW end \in {Done, Lost}
    PROVE  /\ Closed(f, p, end) \in Content \cup {NoFile}
           /\ f.by # p => Closed(f, p, end) = f
           /\ f.by = p => /\ f \in Content /\ There(f) /\ There(Closed(f, p, end))
                          /\ Closed(f, p, end).by = end
                          /\ Closed(f, p, end).arch = f.arch
                          /\ Closed(f, p, end).mixed = f.mixed
<1>1. f.by = p => f \in Content /\ There(f)
  BY Files
<1>2. CASE f.by = p
  <2>1. /\ [f EXCEPT !.by = end] \in Content
        /\ [f EXCEPT !.by = end].by = end
        /\ [f EXCEPT !.by = end].arch = f.arch /\ [f EXCEPT !.by = end].mixed = f.mixed
    BY <1>1, <1>2 DEF Content
  <2> QED
    BY <1>1, <1>2, <2>1, Files DEF Closed
<1>3. CASE f.by # p
  BY <1>3 DEF Closed
<1> QED
  BY <1>2, <1>3

\* A step that spoils the history, and closes the files it should.
LEMMA FilesSpoilt ==
    ASSUME spoilt', FdOpen'
    PROVE  FilesInv'
BY DEF FilesInv, BaseWhole, MetaTruthful

\* The others' files stay open only while they download.
LEMMA FdsOpen ==
    ASSUME FdOpen, NEW p \in Procs, Keeps(p), proc'[p].fd # "none" => At(p, "pull_copy")',
           \A q \in Procs \ {p} : proc[q].fd = "none" => proc'[q].fd = "none"
    PROVE  FdOpen'
BY DEF FdOpen, Keeps, Still, At

\* A step that touches no file, of a command that is not downloading to one.
LEMMA FilesAside ==
    ASSUME BaseTypeOK, FilesInv, NEW p \in Procs, Keeps(p), Fds(p), UNCHANGED files,
           proc[p].pc \notin {"pull_copy", "pull_convert", "pull_meta"},
           proc'[p].pc \notin Loading, proc'[p].fd \in {"none", proc[p].fd}
    PROVE  FilesInv'
<1>0. UNCHANGED <<img, tmp, meta, spoilt>>
  BY DEF files
<1>1. FdOpen'
  BY FdsOpen DEF FilesInv, FdOpen, At, Fds
<1>2. ASSUME ~spoilt' PROVE LoadsAlone' /\ \A q \in Procs : Loaded(q)'
  <2>1. ~spoilt /\ LoadsAlone /\ \A q \in Procs : Loaded(q)
    BY <1>0, <1>2 DEF FilesInv
  <2>2. LoadsAlone'
    BY <2>1 DEF LoadsAlone, Keeps, Still
  <2>3. ASSUME NEW q \in Procs PROVE Loaded(q)'
    <3>1. CASE q = p
      BY <3>1 DEF Loaded, At, Loading
    <3>2. CASE q # p
      BY <1>0, <2>1, <3>2 DEF Loaded, At, Keeps, Still, Fds
    <3> QED
      BY <3>1, <3>2
  <2> QED
    BY <2>2, <2>3
<1>3. BaseWhole'
  BY <1>0 DEF FilesInv, BaseWhole, Converting, At, Keeps, Still
<1>4. MetaTruthful'
  BY <1>0 DEF FilesInv, MetaTruthful, Publishing, Keeps, Still
<1> QED
  BY <1>1, <1>2, <1>3, <1>4 DEF FilesInv

\* The types after a step of p.
LEMMA BaseTypes ==
    ASSUME BaseTypeOK, NEW p \in Procs, Keeps(p), UNCHANGED cage,
           img' \in Content \cup {NoFile}, tmp' \in Content \cup {NoFile},
           meta' \in Arches \cup {"none", "torn"}, spoilt' \in BOOLEAN,
           UNCHANGED <<inplace, image>>
    PROVE  BaseTypeOK'
BY DEF BaseTypeOK, Keeps

\* The same of a step that touches no file and no cage.
LEMMA DoesAside ==
    ASSUME BaseTypeOK, FilesInv, NEW p \in Procs, Keeps(p), Fds(p), UNCHANGED files,
           proc[p].pc \notin {"pull_copy", "pull_convert", "pull_meta"},
           proc'[p].pc \notin Loading, proc'[p].fd \in {"none", proc[p].fd},
           UNCHANGED <<inplace, cage, image>>
    PROVE  BaseTypeOK' /\ FilesInv' /\ (spoilt => spoilt')
BY FilesAside, BaseTypes DEF BaseTypeOK, files

LEMMA PullDoes ==
    ASSUME BaseTypeOK, FilesInv, NEW p \in Procs, NEW a \in Arches, Pull(p, a)
    PROVE  Does(p)
<1> DEFINE n == [Idle EXCEPT !.pc = "pull_check", !.arch = a]
<1>1. /\ n \in Process /\ n.pc = "pull_check" /\ n.name = "own" /\ n.fd = "none"
      /\ n.layer = NoImage
  BY IdleIs DEF Process, Steps
<1>2. Become(p, n) /\ At(p, "idle") /\ UNCHANGED files /\ UNCHANGED <<inplace, cage, image>>
  BY DEF Pull
<1> HIDE DEF n
<1>3. Keeps(p) /\ Fds(p) /\ proc'[p] = n
  BY <1>1, <1>2, Became
<1> QED
  BY <1>1, <1>2, <1>3, DoesAside DEF Does, Minds, At, Loading

LEMMA PullCheckDoes ==
    ASSUME BaseTypeOK, FilesInv, NEW p \in Procs, PullCheck(p)
    PROVE  Does(p)
<1>1. /\ At(p, "pull_check") /\ UNCHANGED files /\ UNCHANGED <<inplace, cage, image>>
      /\ Finish(p) \/ Goto(p, "pull_get")
  BY DEF PullCheck
<1>2. /\ Keeps(p) /\ Fds(p)
      /\ proc'[p].pc \in {"idle", "pull_get"} /\ proc'[p].fd \in {"none", proc[p].fd}
      /\ proc'[p].name \in {"own", proc[p].name}
      /\ proc'[p].layer \in {proc[p].layer, NoImage}
  BY <1>1, Finished, Gone, IdleIs DEF Steps
<1> QED
  BY <1>1, <1>2, DoesAside DEF Does, Minds, At, Loading

LEMMA PullGetDoes ==
    ASSUME BaseTypeOK, FilesInv, NEW p \in Procs, PullGet(p)
    PROVE  Does(p)
<1>1. /\ At(p, "pull_get") /\ UNCHANGED files /\ UNCHANGED <<inplace, cage, image>>
      /\ Goto(p, "pull_create") \/ Goto(p, "pull_rmtmp")
  BY DEF PullGet
<1>2. /\ Keeps(p) /\ Fds(p)
      /\ proc'[p].pc \in {"pull_create", "pull_rmtmp"} /\ proc'[p].fd = proc[p].fd
      /\ proc'[p].name = proc[p].name /\ proc'[p].layer = proc[p].layer
  BY <1>1, Gone DEF Steps
<1> QED
  BY <1>1, <1>2, DoesAside DEF Does, Minds, At, Loading

LEMMA PullCreateDoes ==
    ASSUME BaseTypeOK, FilesInv, NEW p \in Procs, PullCreate(p)
    PROVE  Does(p)
<1>0. /\ At(p, "pull_create") /\ UNCHANGED <<meta, inplace, cage, image>>
      /\ proc[p] \in Process
  BY DEF PullCreate, BaseTypeOK
<1>c. UNCHANGED cage
  BY <1>0
<1> DEFINE mix == \E q \in {q \in Procs : proc[q].fd = "tmp"} : proc[q].arch # proc[p].arch
<1>1. CASE /\ tmp' = [arch |-> proc[p].arch, by |-> p, mixed |-> mix]
           /\ img' = IF Converting THEN [img EXCEPT !.mixed = TRUE] ELSE img
           /\ spoilt' = (spoilt \/ Others(p) # {})
           /\ Become(p, [proc[p] EXCEPT !.pc = "pull_copy", !.fd = "tmp"])
  <2>1. /\ Keeps(p) /\ Fds(p)
        /\ proc'[p].pc = "pull_copy" /\ proc'[p].arch = proc[p].arch
        /\ proc'[p].name = proc[p].name /\ proc'[p].fd = "tmp"
        /\ proc'[p].layer = proc[p].layer
    BY <1>1, Opened DEF Steps
  <2>2. tmp' \in Content
    <3> HIDE DEF mix
    <3>1. proc[p].arch \in Arches /\ mix \in BOOLEAN
      BY <1>0 DEF Process, mix
    <3> QED
      BY <1>1, <3>1 DEF Content
  <2>3. img' \in Content \cup {NoFile}
    <3>1. img \in Content => [img EXCEPT !.mixed = TRUE] \in Content
      BY DEF Content
    <3>2. Converting => img \in Content
      BY Files DEF Converting, BaseTypeOK
    <3> QED
      BY <1>1, <3>1, <3>2 DEF BaseTypeOK
  <2>4. spoilt' \in BOOLEAN /\ (spoilt => spoilt')
    BY <1>1
  <2>5. BaseTypeOK'
    BY <1>0, <1>c, <2>1, <2>2, <2>3, <2>4, BaseTypes DEF BaseTypeOK
  <2>6. FdOpen'
    BY <2>1, FdsOpen DEF FilesInv, At, Fds
  <2>7. ASSUME ~spoilt' PROVE FilesInv'
    <3>1. ~spoilt /\ Others(p) = {}
      BY <1>1, <2>7
    <3>2. \A q \in Procs \ {p} : ~Pulling(q)
      BY <3>1 DEF Others
    <3>3. \A q \in Procs : proc[q].pc \notin Loading
      BY <1>0, <3>2 DEF Pulling, Loading, At
    <3>4. ~Converting /\ ~Publishing
      BY <3>3 DEF Converting, Publishing, Loading, At
    <3>5. ~mix
      BY <3>3 DEF FilesInv, FdOpen, At, Loading
    <3>6. /\ tmp' = [arch |-> proc[p].arch, by |-> p, mixed |-> FALSE]
          /\ img' = img
      BY <1>1, <3>4, <3>5
    <3>7. LoadsAlone'
      BY <2>1, <3>3 DEF LoadsAlone, Keeps, Still
    <3>8. ASSUME NEW q \in Procs PROVE Loaded(q)'
      <4>1. CASE q = p
        BY <2>1, <2>2, <3>6, <4>1, Files DEF Loaded, At
      <4>2. CASE q # p
        BY <2>1, <3>3, <4>2 DEF Loaded, At, Keeps, Still, Loading
      <4> QED
        BY <4>1, <4>2
    <3>9. BaseWhole' /\ MetaTruthful'
      BY <1>0, <3>1, <3>4, <3>6 DEF FilesInv, BaseWhole, MetaTruthful
    <3> QED
      BY <2>6, <3>7, <3>8, <3>9 DEF FilesInv
  <2>8. FilesInv'
    BY <2>6, <2>7, FilesSpoilt
  <2> QED
    BY <1>0, <1>c, <2>1, <2>4, <2>5, <2>8 DEF Does, Minds
<1>2. CASE Goto(p, "pull_rmtmp") /\ UNCHANGED <<img, tmp, spoilt>>
  <2>1. /\ Keeps(p) /\ Fds(p)
        /\ proc'[p].pc = "pull_rmtmp" /\ proc'[p].fd = proc[p].fd
        /\ proc'[p].name = proc[p].name /\ proc'[p].layer = proc[p].layer
    BY <1>2, Gone DEF Steps
  <2>2. FilesInv'
    BY <1>0, <1>2, <2>1, FilesAside DEF files, At, Loading
  <2>3. BaseTypeOK'
    BY <1>0, <1>c, <1>2, <2>1, BaseTypes DEF BaseTypeOK
  <2> QED
    BY <1>0, <1>c, <1>2, <2>1, <2>2, <2>3 DEF Does, Minds
<1> QED
  BY <1>1, <1>2 DEF PullCreate

\* The one download there is: what it may rely on, and what it has to keep.
LEMMA LoadsAloneFacts ==
    ASSUME FilesInv, ~spoilt, NEW p \in Procs, proc[p].pc \in Loading
    PROVE  /\ Loaded(p)
           /\ There(img) /\ ~At(p, "pull_convert") => Whole(img)
           /\ There(img) /\ ~At(p, "pull_convert") /\ ~At(p, "pull_meta") =>
                 BaseArch(meta) = img.arch
<1>1. \A q \in Procs \ {p} : proc[q].pc \notin Loading
  BY DEF FilesInv, LoadsAlone
<1>2. ~At(p, "pull_convert") => ~Converting
  BY <1>1 DEF Converting, Loading, At
<1>3. ~At(p, "pull_convert") /\ ~At(p, "pull_meta") => ~Publishing
  BY <1>1 DEF Publishing, Loading, At
<1> QED
  BY <1>2, <1>3 DEF FilesInv, BaseWhole, MetaTruthful

LEMMA LoadsAloneKeeps ==
    ASSUME FilesInv, NEW p \in Procs, Keeps(p), proc[p].pc \in Loading, FdOpen',
           spoilt => spoilt',
           ~spoilt' => Loaded(p)',
           ~spoilt' /\ There(img') =>
              /\ Whole(img') \/ (At(p, "pull_convert")' /\ img'.by = p)
              /\ \/ BaseArch(meta') = img'.arch
                 \/ At(p, "pull_convert")' \/ At(p, "pull_meta")'
    PROVE  FilesInv'
<1> SUFFICES ASSUME ~spoilt' PROVE FilesInv'
  BY FilesSpoilt
<1>1. \A q \in Procs \ {p} : proc'[q].pc \notin Loading
  BY DEF FilesInv, LoadsAlone, Keeps, Still
<1>2. LoadsAlone'
  BY <1>1 DEF LoadsAlone
<1>3. ASSUME NEW q \in Procs PROVE Loaded(q)'
  BY <1>1 DEF Loaded, Loading, At
<1>4. BaseWhole'
  BY DEF BaseWhole, Converting
<1>5. MetaTruthful'
  BY DEF MetaTruthful, Publishing, At
<1> QED
  BY <1>2, <1>3, <1>4, <1>5 DEF FilesInv

LEMMA PullCopyDoes ==
    ASSUME BaseTypeOK, FilesInv, NEW p \in Procs, PullCopy(p)
    PROVE  Does(p)
<1>0. /\ At(p, "pull_copy") /\ UNCHANGED <<meta, inplace, cage, image, spoilt>>
  BY DEF PullCopy
<1>c. UNCHANGED cage
  BY <1>0
<1>1. PICK end \in {Done, Lost}, s \in {"pull_publish", "pull_rmtmp"} :
         /\ WriteEnds(p, end) /\ (s = "pull_publish" => end = Done)
         /\ Become(p, [proc[p] EXCEPT !.pc = s, !.fd = "none"])
  BY DEF PullCopy
<1>2. /\ Keeps(p) /\ Fds(p)
      /\ proc'[p].pc = s /\ proc'[p].arch = proc[p].arch
      /\ proc'[p].name = proc[p].name /\ proc'[p].fd = "none"
      /\ proc'[p].layer = proc[p].layer
  BY <1>1, Opened DEF Steps
<1>3. /\ tmp \in Content \cup {NoFile} /\ img \in Content \cup {NoFile}
      /\ Closed(tmp, p, end) \in Content \cup {NoFile}
      /\ Closed(img, p, end) \in Content \cup {NoFile}
  BY Closing DEF BaseTypeOK
<1>4. /\ tmp' = IF proc[p].fd = "tmp" THEN Closed(tmp, p, end) ELSE tmp
      /\ img' = IF proc[p].fd = "img" THEN Closed(img, p, end) ELSE img
  BY <1>1 DEF WriteEnds
<1>5. BaseTypeOK'
  BY <1>0, <1>c, <1>2, <1>3, <1>4, BaseTypes DEF BaseTypeOK
<1>6. FdOpen'
  BY <1>2, FdsOpen DEF FilesInv, Fds
<1>7. ASSUME ~spoilt' PROVE Loaded(p)' /\ img' = img
  <2>1. IF There(tmp) THEN /\ proc[p].fd = "tmp"
                           /\ tmp.by = p /\ ~tmp.mixed /\ tmp.arch = proc[p].arch
                      ELSE proc[p].fd = "gone"
    BY <1>0, <1>7, LoadsAloneFacts DEF Loaded, At, Loading
  <2>2. img' = img
    BY <1>4, <2>1
  <2>3. s = "pull_publish" /\ There(tmp') => Whole(tmp') /\ tmp'.arch = proc[p].arch
    BY <1>1, <1>3, <1>4, <2>1, Closing DEF Whole
  <2> QED
    BY <1>2, <2>2, <2>3 DEF Loaded, At
<1>8. FilesInv'
  BY <1>0, <1>2, <1>6, <1>7, LoadsAloneFacts, LoadsAloneKeeps DEF At, Loading
<1> QED
  BY <1>0, <1>c, <1>1, <1>2, <1>5, <1>8 DEF Does, Minds

\* A download that cannot go on, or has nothing more to do, takes its file away.
LEMMA PullGivesUp ==
    ASSUME BaseTypeOK, FilesInv, NEW p \in Procs, At(p, "pull_publish"),
           Goto(p, "pull_rmtmp"), UNCHANGED files, UNCHANGED <<inplace, cage, image>>
    PROVE  Does(p)
<1>1. /\ Keeps(p) /\ Fds(p)
      /\ proc'[p].pc = "pull_rmtmp" /\ proc'[p].fd = proc[p].fd
      /\ proc'[p].name = proc[p].name /\ proc'[p].layer = proc[p].layer
  BY Gone DEF Steps
<1>2. FilesInv'
  BY <1>1, FilesAside DEF At, Loading
<1>3. BaseTypeOK'
  BY <1>1, BaseTypes DEF BaseTypeOK, files
<1> QED
  BY <1>1, <1>2, <1>3 DEF Does, Minds, files

LEMMA PullRenameDoes ==
    ASSUME BaseTypeOK, FilesInv, NEW p \in Procs, PullRename(p)
    PROVE  Does(p)
<1>0. /\ At(p, "pull_publish") /\ UNCHANGED <<meta, inplace, cage, image, spoilt>>
  BY DEF PullRename
<1>c. UNCHANGED cage
  BY <1>0
<1>1. CASE There(tmp)
  <2>0. img' = tmp /\ tmp' = NoFile /\ Moved(p, Renamed, "pull_meta")
    BY <1>1 DEF PullRename
  <2>1. Renamed \in Moves /\ "pull_meta" \in Steps
    BY DEF Moves, Steps
  <2>2. /\ Keeps(p) /\ \A q \in Procs \ {p} : proc'[q].fd = Renamed[proc[q].fd]
        /\ proc'[p].pc = "pull_meta" /\ proc'[p].arch = proc[p].arch
        /\ proc'[p].name = proc[p].name /\ proc'[p].fd = "none"
        /\ proc'[p].layer = proc[p].layer
    BY <2>0, <2>1, Relinked
  <2>3. BaseTypeOK'
    BY <1>0, <1>c, <2>0, <2>2, BaseTypes DEF BaseTypeOK
  <2>4. FdOpen'
    BY <2>1, <2>2, MovesAre, FdsOpen DEF FilesInv
  <2>5. ASSUME ~spoilt PROVE Whole(img') /\ img'.arch = proc[p].arch
    BY <1>0, <1>1, <2>0, <2>5, LoadsAloneFacts DEF Loaded, At, Loading
  <2>6. FilesInv'
    BY <1>0, <2>2, <2>4, <2>5, LoadsAloneKeeps DEF At, Loading, Loaded
  <2> QED
    BY <1>0, <1>c, <2>2, <2>3, <2>6 DEF Does, Minds
<1>2. CASE ~There(tmp)
  BY <1>0, <1>2, PullGivesUp DEF PullRename, files
<1> QED
  BY <1>1, <1>2

LEMMA PullConvertDoes ==
    ASSUME BaseTypeOK, FilesInv, NEW p \in Procs, PullConvert(p)
    PROVE  Does(p)
<1>0. /\ At(p, "pull_publish") /\ UNCHANGED <<tmp, meta, inplace, cage, image, spoilt>>
  BY DEF PullConvert
<1>c. UNCHANGED cage
  BY <1>0
<1>1. CASE There(tmp) /\ img' = [arch |-> tmp.arch, by |-> p, mixed |-> ~Whole(tmp)]
           /\ Goto(p, "pull_convert")
  <2>1. /\ Keeps(p) /\ Fds(p)
        /\ proc'[p].pc = "pull_convert" /\ proc'[p].arch = proc[p].arch
        /\ proc'[p].name = proc[p].name /\ proc'[p].fd = proc[p].fd
        /\ proc'[p].layer = proc[p].layer
    BY <1>1, Gone DEF Steps
  <2>2. img' \in Content
    <3>1. tmp \in Content
      BY <1>1 DEF BaseTypeOK, There
    <3>2. (~Whole(tmp)) \in BOOLEAN
      BY DEF Whole
    <3> DEFINE b == ~Whole(tmp)
    <3> HIDE DEF b
    <3>3. [arch |-> tmp.arch, by |-> p, mixed |-> b] \in Content
      BY <3>1, <3>2 DEF Content, b
    <3> QED
      BY <1>1, <3>3 DEF b
  <2>3. BaseTypeOK'
    BY <1>0, <1>c, <2>1, <2>2, BaseTypes DEF BaseTypeOK
  <2>4. FdOpen'
    BY <1>0, <2>1, FdsOpen DEF FilesInv, FdOpen, Fds, At
  <2>5. ASSUME ~spoilt PROVE img'.by = p /\ ~img'.mixed /\ img'.arch = proc[p].arch
    <3>1. Whole(tmp) /\ tmp.arch = proc[p].arch
      BY <1>0, <1>1, <2>5, LoadsAloneFacts DEF Loaded, At, Loading
    <3> QED
      BY <1>1, <3>1
  <2>6. FilesInv'
    BY <1>0, <2>1, <2>4, <2>5, LoadsAloneKeeps DEF At, Loading, Loaded
  <2> QED
    BY <1>0, <1>c, <2>1, <2>3, <2>6 DEF Does, Minds
<1>2. CASE Goto(p, "pull_rmtmp") /\ UNCHANGED img
  BY <1>0, <1>2, PullGivesUp DEF files
<1> QED
  BY <1>1, <1>2 DEF PullConvert

LEMMA PullConvertedDoes ==
    ASSUME BaseTypeOK, FilesInv, NEW p \in Procs, PullConverted(p)
    PROVE  Does(p)
<1>0. /\ At(p, "pull_convert") /\ UNCHANGED <<tmp, meta, inplace, cage, image>>
  BY DEF PullConverted
<1>c. UNCHANGED cage
  BY <1>0
<1>1. PICK end \in {Done, Lost}, s \in {"pull_meta", "pull_rmtmp"} :
         /\ img' = Closed(img, p, end) /\ Goto(p, s)
         /\ IF s = "pull_meta" THEN end = Done /\ UNCHANGED spoilt ELSE spoilt' = TRUE
  BY DEF PullConverted
<1>2. /\ Keeps(p) /\ Fds(p)
      /\ proc'[p].pc = s /\ proc'[p].arch = proc[p].arch
      /\ proc'[p].name = proc[p].name /\ proc'[p].fd = proc[p].fd
      /\ proc'[p].layer = proc[p].layer
  BY <1>1, Gone DEF Steps
<1>3. img \in Content \cup {NoFile} /\ img' \in Content \cup {NoFile} /\ spoilt' \in BOOLEAN
  BY <1>1, Closing DEF BaseTypeOK
<1>4. BaseTypeOK'
  BY <1>0, <1>c, <1>2, <1>3, BaseTypes DEF BaseTypeOK
<1>5. FdOpen'
  BY <1>0, <1>2, FdsOpen DEF FilesInv, FdOpen, Fds, At
<1>6. ASSUME ~spoilt'
      PROVE  s = "pull_meta" /\ Whole(img') /\ img'.arch = proc[p].arch
  <2>1. img.by = p /\ ~img.mixed /\ img.arch = proc[p].arch
    BY <1>0, <1>1, <1>6, LoadsAloneFacts DEF Loaded, At, Loading
  <2> QED
    BY <1>1, <1>3, <1>6, <2>1, Closing DEF Whole
<1>7. FilesInv'
  BY <1>0, <1>1, <1>2, <1>5, <1>6, LoadsAloneKeeps DEF At, Loading, Loaded
<1> QED
  BY <1>0, <1>c, <1>1, <1>2, <1>4, <1>7 DEF Does, Minds

LEMMA PullMetaDoes ==
    ASSUME BaseTypeOK, FilesInv, NEW p \in Procs, PullMeta(p)
    PROVE  Does(p)
<1>0. /\ At(p, "pull_meta") /\ UNCHANGED <<tmp, inplace, cage, image, spoilt>> /\ proc[p].arch \in Arches
  BY DEF PullMeta, BaseTypeOK, Process
<1>c. UNCHANGED cage
  BY <1>0
<1>1. CASE meta' = proc[p].arch /\ Goto(p, "pull_rmtmp") /\ UNCHANGED img
  <2>1. /\ Keeps(p) /\ Fds(p)
        /\ proc'[p].pc = "pull_rmtmp" /\ proc'[p].arch = proc[p].arch
        /\ proc'[p].name = proc[p].name /\ proc'[p].fd = proc[p].fd
        /\ proc'[p].layer = proc[p].layer
    BY <1>1, Gone DEF Steps
  <2>2. BaseTypeOK'
    BY <1>0, <1>c, <1>1, <2>1, BaseTypes DEF BaseTypeOK
  <2>3. FdOpen'
    BY <1>0, <2>1, FdsOpen DEF FilesInv, FdOpen, Fds, At
  <2>4. ASSUME ~spoilt PROVE Whole(img') /\ BaseArch(meta') = img'.arch
    BY <1>0, <1>1, <2>4, LoadsAloneFacts DEF Loaded, At, Loading, BaseArch
  <2>5. FilesInv'
    BY <1>0, <2>1, <2>3, <2>4, LoadsAloneKeeps DEF At, Loading, Loaded
  <2> QED
    BY <1>0, <1>c, <2>1, <2>2, <2>5 DEF Does, Minds
<1>2. CASE meta' \in {meta, "torn"} /\ img' = NoFile /\ Moved(p, ImgGone, "pull_rmtmp")
  <2>0. ImgGone \in Moves /\ "pull_rmtmp" \in Steps
    BY DEF Moves, Steps
  <2>1. /\ Keeps(p) /\ \A q \in Procs \ {p} : proc'[q].fd = ImgGone[proc[q].fd]
        /\ proc'[p].pc = "pull_rmtmp" /\ proc'[p].arch = proc[p].arch
        /\ proc'[p].name = proc[p].name /\ proc'[p].fd = "none"
        /\ proc'[p].layer = proc[p].layer
    BY <1>2, <2>0, Relinked
  <2>2. BaseTypeOK'
    BY <1>0, <1>c, <1>2, <2>1, BaseTypes DEF BaseTypeOK
  <2>3. FdOpen'
    BY <2>0, <2>1, MovesAre, FdsOpen DEF FilesInv
  <2>4. ~There(img')
    BY <1>2 DEF There
  <2>5. FilesInv'
    BY <1>0, <2>1, <2>3, <2>4, LoadsAloneKeeps DEF At, Loading, Loaded
  <2> QED
    BY <1>0, <1>c, <2>1, <2>2, <2>5 DEF Does, Minds
<1> QED
  BY <1>1, <1>2 DEF PullMeta

LEMMA PullRemoveTmpDoes ==
    ASSUME BaseTypeOK, FilesInv, NEW p \in Procs, PullRemoveTmp(p)
    PROVE  Does(p)
<1>0. /\ At(p, "pull_rmtmp") /\ UNCHANGED <<img, meta, inplace, cage, image, spoilt>>
      /\ tmp' = NoFile /\ proc' = [Relink(TmpGone) EXCEPT ![p] = Idle]
  BY DEF PullRemoveTmp
<1>c. UNCHANGED cage
  BY <1>0
<1>1. TmpGone \in Moves /\ ~There(tmp')
  BY <1>0 DEF Moves, There
<1>2. /\ Keeps(p) /\ \A q \in Procs \ {p} : proc'[q].fd = TmpGone[proc[q].fd]
      /\ proc'[p] = Idle
  BY <1>0, RelinkedIdle
<1>3. BaseTypeOK'
  BY <1>0, <1>c, <1>2, BaseTypes DEF BaseTypeOK
<1>4. FdOpen'
  BY <1>1, <1>2, IdleIs, MovesAre, FdsOpen DEF FilesInv
<1>5. ASSUME ~spoilt' PROVE LoadsAlone' /\ \A q \in Procs : Loaded(q)'
  <2>1. ~spoilt /\ LoadsAlone /\ \A q \in Procs : Loaded(q)
    BY <1>0, <1>5 DEF FilesInv
  <2>2. LoadsAlone'
    BY <1>2, <2>1, IdleIs DEF LoadsAlone, Keeps, Still, Loading
  <2>3. ASSUME NEW q \in Procs PROVE Loaded(q)'
    <3>1. CASE q = p
      BY <1>2, <3>1, IdleIs DEF Loaded, At
    <3>2. CASE q # p
      <4>1. At(q, "pull_copy") => proc[q].fd \in {"tmp", "gone"}
        BY <2>1 DEF Loaded
      <4>2. At(q, "pull_copy") => proc'[q].fd = "gone"
        BY <1>1, <1>2, <3>2, <4>1, MovesAre
      <4> QED
        BY <1>0, <1>1, <1>2, <2>1, <3>2, <4>2 DEF Loaded, At, Keeps, Still
    <3> QED
      BY <3>1, <3>2
  <2> QED
    BY <2>2, <2>3
<1>6. BaseWhole'
  BY <1>0, <1>2 DEF FilesInv, BaseWhole, Converting, At, Keeps, Still
<1>7. MetaTruthful'
  BY <1>0, <1>2 DEF FilesInv, MetaTruthful, Publishing, At, Keeps, Still
<1>8. FilesInv'
  BY <1>4, <1>5, <1>6, <1>7 DEF FilesInv
<1> QED
  BY <1>0, <1>c, <1>2, <1>3, <1>8, IdleIs DEF Does, Minds

LEMMA RemoveImageDoes ==
    ASSUME BaseTypeOK, FilesInv, NEW p \in Procs, NEW name \in Typed, RemoveImage(p, name)
    PROVE  Does(p)
<1> DEFINE n == [Idle EXCEPT !.pc = "rm_check", !.name = name]
<1>1. /\ n \in Process /\ n.pc = "rm_check" /\ n.name = name /\ n.fd = "none"
      /\ n.layer = NoImage
  BY IdleIs, BaseImagesAssumption DEF Process, Steps
<1>2. Become(p, n) /\ At(p, "idle") /\ UNCHANGED files /\ UNCHANGED <<inplace, cage, image>>
  BY DEF RemoveImage
<1> HIDE DEF n
<1>3. Keeps(p) /\ Fds(p) /\ proc'[p] = n
  BY <1>1, <1>2, Became
<1> QED
  BY <1>1, <1>2, <1>3, DoesAside DEF Does, Minds, At, Loading

LEMMA RemoveCheckDoes ==
    ASSUME BaseTypeOK, FilesInv, NEW p \in Procs, RemoveCheck(p)
    PROVE  Does(p)
<1>1. /\ At(p, "rm_check") /\ UNCHANGED files /\ UNCHANGED <<inplace, cage, image>>
      /\ Finish(p) \/ Goto(p, "rm_list")
  BY DEF RemoveCheck
<1>2. /\ Keeps(p) /\ Fds(p)
      /\ proc'[p].pc \in {"idle", "rm_list"} /\ proc'[p].fd \in {"none", proc[p].fd}
      /\ proc'[p].name \in {"own", proc[p].name}
      /\ proc'[p].layer \in {proc[p].layer, NoImage}
  BY <1>1, Finished, Gone, IdleIs DEF Steps
<1> QED
  BY <1>1, <1>2, DoesAside DEF Does, Minds, At, Loading

\* A removal that nobody's download meets leaves no file to be wrong about.
LEMMA RemoveFileDoes ==
    ASSUME BaseTypeOK, FilesInv, NEW p \in Procs, RemoveFile(p)
    PROVE  Does(p)
<1>0. At(p, "rm_file") /\ UNCHANGED <<tmp, meta, inplace, cage, image>>
  BY DEF RemoveFile
<1>1. CASE /\ img' = NoFile
           /\ spoilt' = (spoilt \/ Others(p) # {})
           /\ proc' = [Relink(ImgGone) EXCEPT ![p].pc = "rm_meta"]
  <2>0. ImgGone \in Moves /\ "rm_meta" \in Steps /\ ~There(img')
    BY <1>1 DEF Moves, Steps, There
  <2>1. /\ Keeps(p) /\ \A q \in Procs : proc'[q].fd = ImgGone[proc[q].fd]
        /\ proc'[p].pc = "rm_meta" /\ proc'[p].arch = proc[p].arch
        /\ proc'[p].name = proc[p].name /\ proc'[p].layer = proc[p].layer
    BY <1>1, <2>0, RelinkedGoing
  <2>4. spoilt' \in BOOLEAN /\ (spoilt => spoilt')
    BY <1>1
  <2>5. BaseTypeOK'
    BY <1>0, <1>1, <2>1, <2>4, BaseTypes DEF BaseTypeOK
  <2>6. FdOpen'
    <3>1. proc[p].fd = "none"
      BY <1>0 DEF FilesInv, FdOpen, At
    <3> QED
      BY <2>0, <2>1, <3>1, MovesAre, FdsOpen DEF FilesInv
  <2>7. ASSUME ~spoilt' PROVE LoadsAlone' /\ \A q \in Procs : Loaded(q)'
    <3>1. Others(p) = {}
      BY <1>1, <2>7
    <3>2. \A q \in Procs : proc[q].pc \notin Loading
      BY <1>0, <3>1 DEF Others, Pulling, Loading, At
    <3>3. \A q \in Procs : proc'[q].pc \notin Loading
      BY <2>1, <3>2 DEF Keeps, Still, Loading
    <3> QED
      BY <3>3 DEF LoadsAlone, Loaded, Loading, At
  <2>8. FilesInv'
    BY <2>0, <2>6, <2>7 DEF FilesInv, BaseWhole, MetaTruthful
  <2> QED
    BY <1>0, <2>1, <2>4, <2>5, <2>8 DEF Does, Minds
<1>2. CASE Finish(p) /\ UNCHANGED <<img, spoilt>>
  <2>1. Keeps(p) /\ Fds(p) /\ proc'[p] = Idle
    BY <1>2, Finished
  <2>2. UNCHANGED files
    BY <1>0, <1>2 DEF files
  <2> QED
    BY <1>0, <1>2, <2>1, <2>2, IdleIs, DoesAside DEF Does, Minds, At, Loading
<1> QED
  BY <1>1, <1>2 DEF RemoveFile

LEMMA RemoveMetaDoes ==
    ASSUME BaseTypeOK, FilesInv, NEW p \in Procs, RemoveMeta(p)
    PROVE  Does(p)
<1>0. /\ At(p, "rm_meta") /\ UNCHANGED <<img, tmp, inplace, cage, image>>
      /\ meta' \in {"none", meta} /\ spoilt' = (spoilt \/ There(img) \/ Others(p) # {})
      /\ Finish(p)
  BY DEF RemoveMeta
<1>1. Keeps(p) /\ Fds(p) /\ proc'[p] = Idle
  BY <1>0, Finished
<1>2. UNCHANGED cage
  BY <1>0
<1>3. spoilt' \in BOOLEAN /\ (spoilt => spoilt')
  BY <1>0 DEF There
<1>4. BaseTypeOK'
  BY <1>0, <1>1, <1>2, <1>3, BaseTypes DEF BaseTypeOK
<1>5. FdOpen'
  BY <1>1, IdleIs, FdsOpen DEF FilesInv, Fds
<1>6. ASSUME ~spoilt' PROVE ~There(img') /\ LoadsAlone' /\ \A q \in Procs : Loaded(q)'
  <2>1. Others(p) = {} /\ ~There(img)
    BY <1>0, <1>6
  <2>2. \A q \in Procs : proc[q].pc \notin Loading
    BY <1>0, <2>1 DEF Others, Pulling, Loading, At
  <2>3. \A q \in Procs : proc'[q].pc \notin Loading
    BY <1>1, <2>2, IdleIs DEF Keeps, Still, Loading
  <2> QED
    BY <1>0, <2>1, <2>3 DEF LoadsAlone, Loaded, Loading, At
<1>7. FilesInv'
  BY <1>5, <1>6 DEF FilesInv, BaseWhole, MetaTruthful
<1> QED
  BY <1>1, <1>2, <1>3, <1>4, <1>7, IdleIs, <1>0 DEF Does, Minds

\* What a killed command was writing stays, cut short, where it was.
LEMMA CrashDoes ==
    ASSUME BaseTypeOK, FilesInv, NEW p \in Procs, Crash(p)
    PROVE  Does(p)
<1>0. /\ tmp' = Closed(tmp, p, Lost) /\ img' = Closed(img, p, Lost)
      /\ UNCHANGED <<inplace, cage, image>> /\ Finish(p)
      /\ spoilt' = (spoilt \/ At(p, "pull_convert") \/ At(p, "pull_meta") \/ img.by = p)
      /\ meta' \in {meta} \cup (IF At(p, "pull_meta") THEN {"torn"} ELSE {})
  BY DEF Crash
<1>1. Keeps(p) /\ Fds(p) /\ proc'[p] = Idle
  BY <1>0, Finished
<1>2. UNCHANGED cage
  BY <1>0
<1>3. spoilt' \in BOOLEAN /\ (spoilt => spoilt')
  BY <1>0 DEF At
<1>4. /\ tmp \in Content \cup {NoFile} /\ img \in Content \cup {NoFile}
      /\ tmp' \in Content \cup {NoFile} /\ img' \in Content \cup {NoFile}
  BY <1>0, Closing DEF BaseTypeOK
<1>5. BaseTypeOK'
  BY <1>0, <1>1, <1>2, <1>3, <1>4, BaseTypes DEF BaseTypeOK
<1>6. FdOpen'
  BY <1>1, IdleIs, FdsOpen DEF FilesInv, Fds
<1>7. ASSUME ~spoilt'
      PROVE  /\ ~spoilt /\ ~At(p, "pull_convert") /\ ~At(p, "pull_meta") /\ img' = img
             /\ meta' = meta
  BY <1>0, <1>4, <1>7, Closing
<1>8. ASSUME ~spoilt' PROVE LoadsAlone' /\ \A q \in Procs : Loaded(q)'
  <2>1. ~spoilt /\ LoadsAlone /\ \A q \in Procs : Loaded(q)
    BY <1>7, <1>8 DEF FilesInv
  <2>2. LoadsAlone'
    BY <1>1, <2>1, IdleIs DEF LoadsAlone, Keeps, Still, Loading
  <2>3. ASSUME NEW q \in Procs PROVE Loaded(q)'
    <3>1. CASE q = p
      BY <1>1, <3>1, IdleIs DEF Loaded, At
    <3>2. CASE q # p
      <4>1. At(q, "pull_copy") \/ At(q, "pull_publish") => tmp.by # p
        BY <1>4, <2>1, <3>2, Files DEF Loaded, There, Whole
      <4>2. At(q, "pull_copy") \/ At(q, "pull_publish") => tmp' = tmp
        BY <1>0, <1>4, <4>1, Closing
      <4> QED
        BY <1>1, <1>7, <1>8, <2>1, <3>2, <4>2 DEF Loaded, At, Keeps, Still, Fds
    <3> QED
      BY <3>1, <3>2
  <2> QED
    BY <2>2, <2>3
<1>9. ASSUME ~spoilt' PROVE BaseWhole' /\ MetaTruthful'
  <2>1. BaseWhole'
    BY <1>1, <1>7, <1>9 DEF FilesInv, BaseWhole, Converting, At, Keeps, Still
  <2>2. MetaTruthful'
    BY <1>1, <1>7, <1>9 DEF FilesInv, MetaTruthful, Publishing, At, Keeps, Still
  <2> QED
    BY <2>1, <2>2
<1>10. FilesInv'
  BY <1>6, <1>8, <1>9, FilesSpoilt DEF FilesInv
<1> QED
  BY <1>0, <1>1, <1>2, <1>3, <1>5, <1>10, IdleIs DEF Does, Minds

-----------------------------------------------------------------------------
\* The cages, the layers and the build under the steps of other commands.
LEMMA CagesKeep ==
    ASSUME CagesInv, NEW p \in Procs, Keeps(p), UNCHANGED cage,
           proc'[p].pc \notin {"start_disk", "start_save"}
    PROVE  CagesInv'
<1>1. StartsAlone'
  BY DEF CagesInv, StartsAlone, Starting, Keeps, Still
<1>2. UserStarts'
  BY DEF CagesInv, UserStarts, At, Keeps, Still
<1>3. BaseUnder'
  BY DEF CagesInv, BaseUnder, Listed
<1> QED
  BY <1>1, <1>2, <1>3 DEF CagesInv

LEMMA LayersKeep ==
    ASSUME LayersInv, NEW p \in Procs, Keeps(p), spoilt => spoilt', UNCHANGED build,
           LayerRight(image'), LayerRight(proc'[p].layer),
           At(p, "save_copy")' => SeenArch(proc'[p].seen, proc'[p].arch),
           proc'[p].pc \in {"save_digest", "save_ref"} => proc'[p].layer \in Image
    PROVE  LayersInv'
<1>1. ASSUME NEW seen, NEW arch, SeenArch(seen, arch) PROVE SeenArch(seen, arch)'
  BY <1>1 DEF SeenArch
<1>2. ASSUME NEW layer, LayerRight(layer) PROVE LayerRight(layer)'
  BY <1>2, <1>1 DEF LayerRight
<1>3. /\ \A q \in Procs : LayerRight(proc[q].layer)
      /\ \A q \in Procs : At(q, "save_copy") => SeenArch(proc[q].seen, proc[q].arch)
      /\ LayerRight(build.layer)
      /\ build.pc \notin {"idle", "probe"} => SeenArch(build.seen, build.call.arch)
  BY DEF LayersInv
<1>4. ASSUME NEW q \in Procs
      PROVE  /\ LayerRight(proc[q].layer)'
             /\ At(q, "save_copy")' => SeenArch(proc[q].seen, proc[q].arch)'
             /\ proc'[q].pc \in {"save_digest", "save_ref"} => proc'[q].layer \in Image
  <2>1. CASE q = p
    BY <1>1, <1>2, <2>1 DEF LayerRight, SeenArch
  <2>2. CASE q # p
    BY <1>3, <2>2 DEF LayersInv, LayerRight, SeenArch, Keeps, Still, At
  <2> QED
    BY <2>1, <2>2
<1>5. /\ LayerRight(build.layer)' /\ LayerRight(image)'
      /\ build'.pc \notin {"idle", "probe"} => SeenArch(build.seen, build.call.arch)'
  BY <1>3 DEF LayerRight, SeenArch
<1> QED
  BY <1>4, <1>5 DEF LayersInv

LEMMA BuildKeeps ==
    ASSUME BuildInv, UNCHANGED <<build, temp>>,
           theTemp'.on = theTemp.on, theTemp'.vm = theTemp.vm,
           theTemp = NoCage => theTemp' = NoCage
    PROVE  BuildInv'
<1>1. TempInv'
  BY DEF BuildInv, TempInv, In, Whenever
<1>2. EndInv'
  BY DEF BuildInv, EndInv, In, Whenever
<1> QED
  BY <1>1, <1>2 DEF BuildInv

RestInv == CagesInv /\ LayersInv /\ BuildInv
BaseInv == BaseTypeOK /\ FilesInv /\ RestInv

LEMMA DoesKeeps ==
    ASSUME BaseInv, NEW p \in Procs, Does(p), UNCHANGED <<build, temp>>
    PROVE  BaseInv'
<1>1. CagesInv'
  BY CagesKeep DEF BaseInv, RestInv, Does, Minds
<1>2. LayersInv'
  <2>1. LayerRight(proc[p].layer) /\ LayerRight(image) /\ LayerRight(NoImage)
    BY DEF BaseInv, RestInv, LayersInv, LayerRight
  <2> QED
    BY <2>1, LayersKeep DEF BaseInv, RestInv, Does, Minds, At
<1>3. BuildInv'
  BY BuildKeeps DEF BaseInv, RestInv, Does, theTemp
<1> QED
  BY <1>1, <1>2, <1>3 DEF BaseInv, RestInv, Does

\* A step of p that touches its own record only, and is not about to download.
LEMMA OwnKeeps ==
    ASSUME BaseInv, NEW p \in Procs, Keeps(p), Fds(p), UNCHANGED files,
           UNCHANGED <<inplace, cage, image, build, temp>>,
           proc[p].pc \notin {"pull_copy", "pull_convert", "pull_meta"},
           proc'[p].pc \notin Loading \cup {"start_disk", "start_save"},
           proc'[p].fd \in {"none", proc[p].fd},
           LayerRight(proc'[p].layer),
           At(p, "save_copy")' => SeenArch(proc'[p].seen, proc'[p].arch),
           proc'[p].pc \in {"save_digest", "save_ref"} => proc'[p].layer \in Image
    PROVE  BaseInv'
<1>1. BaseTypeOK' /\ FilesInv' /\ (spoilt => spoilt')
  BY DoesAside DEF BaseInv
<1>2. CagesInv'
  BY <1>1, CagesKeep DEF BaseInv, RestInv
<1>3. LayersInv'
  BY <1>1, LayersKeep DEF BaseInv, RestInv, LayersInv
<1>4. BuildInv'
  BY BuildKeeps DEF BaseInv, RestInv, theTemp
<1> QED
  BY <1>1, <1>2, <1>3, <1>4 DEF BaseInv, RestInv

LEMMA RemoveListKeeps ==
    ASSUME BaseInv, NEW p \in Procs, RemoveList(p), UNCHANGED <<build, temp>>
    PROVE  BaseInv'
<1>0. /\ At(p, "rm_list") /\ UNCHANGED files /\ UNCHANGED <<inplace, cage, image>>
      /\ Finish(p) \/ Goto(p, "rm_file")
  BY DEF RemoveList
<1>1. CASE Finish(p)
  <2>1. Keeps(p) /\ Fds(p) /\ proc'[p] = Idle
    BY <1>1, Finished DEF BaseInv
  <2> QED
    BY <1>0, <2>1, IdleIs, OwnKeeps DEF At, Loading, LayerRight
<1>2. CASE Goto(p, "rm_file")
  <2>1. /\ Keeps(p) /\ Fds(p)
        /\ proc'[p].pc = "rm_file" /\ proc'[p].fd = proc[p].fd
        /\ proc'[p].layer = proc[p].layer
    BY <1>2, Gone DEF Steps, BaseInv
  <2>2. LayerRight(proc'[p].layer)
    BY <2>1 DEF BaseInv, RestInv, LayersInv
  <2> QED
    BY <1>0, <2>1, <2>2, OwnKeeps DEF At, Loading
<1> QED
  BY <1>0, <1>1, <1>2

\* What a save looks up, between downloads, is true of the image that is there.
LEMMA SeenTruly ==
    ASSUME FilesInv
    PROVE  SeenArch(Seen, BaseArch(meta))
BY DEF FilesInv, MetaTruthful, SeenArch, Seen, There

LEMMA SeenTyped == BaseTypeOK => Seen \in Content \cup {NoFile}
BY DEF BaseTypeOK, Seen

LEMMA SaveCheckKeeps ==
    ASSUME BaseInv, NEW p \in Procs, SaveCheck(p), UNCHANGED <<build, temp>>
    PROVE  BaseInv'
<1> DEFINE n == [Idle EXCEPT !.pc = "save_copy", !.arch = BaseArch(meta), !.seen = Seen]
<1>0. /\ At(p, "idle") /\ UNCHANGED files /\ UNCHANGED <<inplace, cage, image>>
      /\ Become(p, n)
  BY DEF SaveCheck
<1>1. /\ n \in Process /\ n.pc = "save_copy" /\ n.name = "own" /\ n.fd = "none"
      /\ n.layer = NoImage /\ n.arch = BaseArch(meta) /\ n.seen = Seen
  BY IdleIs, KnownArch, SeenTyped DEF Process, Steps, BaseInv
<1> HIDE DEF n
<1>2. Keeps(p) /\ Fds(p) /\ proc'[p] = n
  BY <1>0, <1>1, Became DEF BaseInv
<1>3. SeenArch(proc'[p].seen, proc'[p].arch)
  BY <1>1, <1>2, SeenTruly DEF BaseInv
<1>4. LayerRight(proc'[p].layer)
  BY <1>1, <1>2 DEF LayerRight
<1> QED
  BY <1>0, <1>1, <1>2, <1>3, <1>4, OwnKeeps DEF At, Loading

\* The layer of a cage, as SaveLayered begins it.
LEMMA CopiedIs ==
    ASSUME BaseTypeOK, NEW c \in CageNames, There(cage[c].on), NEW a \in Arches,
           NEW seen \in Content \cup {NoFile}
    PROVE  /\ Copied(c, a, seen) \in Image
           /\ Copied(c, a, seen).seen = seen /\ Copied(c, a, seen).arch = a
<1>1. cage[c].on \in Content /\ cage[c].vm \in BOOLEAN
  BY DEF BaseTypeOK, Cage, There
<1> QED
  BY <1>1 DEF Copied, Image

LEMMA HashedIs ==
    ASSUME BaseTypeOK, NEW layer \in Image
    PROVE  /\ Hashed(layer) \in Image
           /\ Hashed(layer).seen = layer.seen /\ Hashed(layer).arch = layer.arch
BY DEF BaseTypeOK, Hashed, Image

LEMMA NoLayer == NoImage \notin Image
<1>1. \A l \in Image : l.of \in CageNames
  BY DEF Image
<1> QED
  BY <1>1 DEF NoImage, CageNames

LEMMA SaveCopyKeeps ==
    ASSUME BaseInv, NEW p \in Procs, SaveCopy(p), UNCHANGED <<build, temp>>
    PROVE  BaseInv'
<1>0. /\ At(p, "save_copy") /\ UNCHANGED files /\ UNCHANGED <<inplace, cage, image>>
      /\ proc[p] \in Process
  BY DEF SaveCopy, BaseInv, BaseTypeOK
<1>1. CASE Finish(p)
  <2>1. Keeps(p) /\ Fds(p) /\ proc'[p] = Idle
    BY <1>1, Finished DEF BaseInv
  <2> QED
    BY <1>0, <2>1, IdleIs, OwnKeeps DEF At, Loading, LayerRight
<1>2. CASE There(cage["user"].on)
  <2> DEFINE l == Copied("user", proc[p].arch, proc[p].seen)
             n == [proc[p] EXCEPT !.pc = "save_digest", !.layer = l]
  <2>1. l \in Image /\ l.seen = proc[p].seen /\ l.arch = proc[p].arch
    BY <1>0, <1>2, CopiedIs DEF BaseInv, CageNames, Process
  <2>2. Become(p, n)
    BY <1>2 DEF SaveCopy
  <2> HIDE DEF l
  <2>3. /\ n \in Process /\ n.pc = "save_digest" /\ n.layer = l
        /\ n.name = proc[p].name /\ n.fd = proc[p].fd
    BY <1>0, <2>1 DEF Process, Steps
  <2> HIDE DEF n
  <2>4. Keeps(p) /\ Fds(p) /\ proc'[p] = n
    BY <2>2, <2>3, Became DEF BaseInv
  <2>5. LayerRight(l)
    BY <1>0, <2>1 DEF BaseInv, RestInv, LayersInv, LayerRight
  <2> QED
    BY <1>0, <2>1, <2>3, <2>4, <2>5, OwnKeeps DEF At, Loading
<1> QED
  BY <1>1, <1>2 DEF SaveCopy

LEMMA SaveDigestKeeps ==
    ASSUME BaseInv, NEW p \in Procs, SaveDigest(p), UNCHANGED <<build, temp>>
    PROVE  BaseInv'
<1>0. /\ At(p, "save_digest") /\ UNCHANGED files /\ UNCHANGED <<inplace, cage, image>>
      /\ proc[p] \in Process
      /\ Finish(p) \/ Become(p, [proc[p] EXCEPT !.pc = "save_ref", !.layer = Hashed(@)])
  BY DEF SaveDigest, BaseInv, BaseTypeOK
<1>1. CASE Finish(p)
  <2>1. Keeps(p) /\ Fds(p) /\ proc'[p] = Idle
    BY <1>1, Finished DEF BaseInv
  <2> QED
    BY <1>0, <2>1, IdleIs, OwnKeeps DEF At, Loading, LayerRight
<1>2. CASE Become(p, [proc[p] EXCEPT !.pc = "save_ref", !.layer = Hashed(@)])
  <2> DEFINE l == Hashed(proc[p].layer)
             n == [proc[p] EXCEPT !.pc = "save_ref", !.layer = l]
  <2>1. proc[p].layer \in Image /\ LayerRight(proc[p].layer)
    BY <1>0 DEF BaseInv, RestInv, LayersInv, At
  <2>2. /\ l \in Image /\ l.seen = proc[p].layer.seen /\ l.arch = proc[p].layer.arch
    BY <2>1, HashedIs DEF BaseInv
  <2>3. Become(p, n)
    BY <1>0, <1>2 DEF Process
  <2> HIDE DEF l
  <2>4. /\ n \in Process /\ n.pc = "save_ref" /\ n.layer = l
        /\ n.name = proc[p].name /\ n.fd = proc[p].fd
    BY <1>0, <2>2 DEF Process, Steps
  <2> HIDE DEF n
  <2>5. Keeps(p) /\ Fds(p) /\ proc'[p] = n
    BY <2>3, <2>4, Became DEF BaseInv
  <2>6. LayerRight(l)
    BY <2>1, <2>2, NoLayer DEF LayerRight
  <2> QED
    BY <1>0, <2>2, <2>4, <2>5, <2>6, OwnKeeps DEF At, Loading
<1> QED
  BY <1>0, <1>1, <1>2

LEMMA SaveRefKeeps ==
    ASSUME BaseInv, NEW p \in Procs, SaveRef(p), UNCHANGED <<build, temp>>
    PROVE  BaseInv'
<1>0. /\ At(p, "save_ref") /\ UNCHANGED files /\ UNCHANGED <<inplace, cage>>
      /\ image' = proc[p].layer /\ proc[p] \in Process /\ Finish(p)
  BY DEF SaveRef, BaseInv, BaseTypeOK
<1>1. Keeps(p) /\ Fds(p) /\ proc'[p] = Idle
  BY <1>0, Finished DEF BaseInv
<1>2. UNCHANGED cage
  BY <1>0
<1>3. FilesInv'
  BY <1>0, <1>1, IdleIs, FilesAside DEF BaseInv, At, Loading
<1>4. BaseTypeOK'
  BY <1>0, <1>1, <1>2 DEF BaseInv, BaseTypeOK, files, Keeps, Process
<1>5. CagesInv'
  BY <1>1, <1>2, IdleIs, CagesKeep DEF BaseInv, RestInv
<1>6. LayersInv'
  <2>1. LayerRight(image') /\ LayerRight(NoImage) /\ (spoilt => spoilt')
    BY <1>0 DEF BaseInv, RestInv, LayersInv, LayerRight, files
  <2> QED
    BY <1>1, <2>1, IdleIs, LayersKeep DEF BaseInv, RestInv, At
<1>7. BuildInv'
  BY <1>0, BuildKeeps DEF BaseInv, RestInv, theTemp
<1> QED
  BY <1>3, <1>4, <1>5, <1>6, <1>7 DEF BaseInv, RestInv

-----------------------------------------------------------------------------
\* A cage that is started: its overlay is made on the image that is there by then.
LEMMA StartKeeps ==
    ASSUME BaseInv, NEW p \in Procs, Start(p), UNCHANGED <<build, temp>>
    PROVE  BaseInv'
<1>0. /\ At(p, "idle") /\ cage["user"] = NoCage
      /\ \A q \in Procs : ~Starting(q)
      /\ UNCHANGED files /\ UNCHANGED <<inplace, cage, image>> /\ Goto(p, "start_disk")
  BY DEF Start, Starting, At
<1>1. /\ Keeps(p) /\ Fds(p)
      /\ proc'[p].pc = "start_disk" /\ proc'[p].fd = proc[p].fd
      /\ proc'[p].name = proc[p].name /\ proc'[p].layer = proc[p].layer
  BY <1>0, Gone DEF Steps, BaseInv
<1>2. BaseTypeOK' /\ FilesInv' /\ (spoilt => spoilt')
  BY <1>0, <1>1, DoesAside DEF BaseInv, At, Loading
<1>3. StartsAlone'
  BY <1>0, <1>1 DEF StartsAlone, Starting, Keeps, Still
<1>4. UserStarts'
  BY <1>0, <1>1 DEF UserStarts, Starting, At, Keeps, Still
<1>5. BaseUnder'
  BY <1>0, <1>1 DEF BaseInv, RestInv, CagesInv, BaseUnder, Listed, At, Keeps, Still, files
<1>6. LayersInv'
  <2>1. LayerRight(proc[p].layer) /\ LayerRight(image)
    BY DEF BaseInv, RestInv, LayersInv
  <2> QED
    BY <1>0, <1>1, <1>2, <2>1, LayersKeep DEF BaseInv, RestInv, At
<1>7. BuildInv'
  BY <1>0, BuildKeeps DEF BaseInv, RestInv, theTemp
<1> QED
  BY <1>2, <1>3, <1>4, <1>5, <1>6, <1>7 DEF BaseInv, RestInv, CagesInv

\* A step of p after which the user's cage is r.
LEMMA UserCage ==
    ASSUME BaseInv, NEW p \in Procs, Keeps(p), Fds(p), NEW r \in Cage, SetCage("user", r),
           UNCHANGED files, UNCHANGED <<inplace, image, build, temp>>,
           proc[p].pc \notin {"pull_copy", "pull_convert", "pull_meta"},
           proc'[p].pc \notin Loading \cup {"save_copy", "save_digest", "save_ref"},
           proc'[p].fd \in {"none", proc[p].fd},
           proc'[p].layer \in {proc[p].layer, NoImage},
           Starting(p), ~At(p, "start_disk")',
           At(p, "start_save")' => There(r.on) /\ r.state = "none",
           r.state \in {"stopped", "running"} => There(r.on)
    PROVE  BaseInv'
<1>0. /\ cage' \in [CageNames -> Cage] /\ cage'["user"] = r /\ cage'["temp"] = cage["temp"]
      /\ img' = img /\ spoilt' = spoilt
  BY DEF BaseInv, BaseTypeOK, SetCage, CageNames, files
<1>1. FilesInv'
  BY FilesAside DEF BaseInv
<1>2. BaseTypeOK'
  BY <1>0 DEF BaseInv, BaseTypeOK, files, Keeps
<1>3. /\ \A q \in Procs \ {p} : ~Starting(q)
      /\ \A q \in Procs \ {p} : ~Starting(q)'
  BY DEF BaseInv, RestInv, CagesInv, StartsAlone, Starting, Keeps, Still
<1>4. StartsAlone'
  BY <1>3 DEF StartsAlone
<1>5. UserStarts'
  BY <1>0, <1>3 DEF UserStarts, Starting, At
<1>8. BaseUnder'
  BY <1>0 DEF BaseInv, RestInv, CagesInv, BaseUnder, Listed, CageNames
<1>9. LayersInv'
  <2>1. LayerRight(proc[p].layer) /\ LayerRight(image) /\ LayerRight(NoImage)
    BY DEF BaseInv, RestInv, LayersInv, LayerRight
  <2> QED
    BY <1>0, <2>1, LayersKeep DEF BaseInv, RestInv, At
<1>10. BuildInv'
  BY <1>0, BuildKeeps DEF BaseInv, RestInv, theTemp
<1> QED
  BY <1>1, <1>2, <1>4, <1>5, <1>8, <1>9, <1>10 DEF BaseInv, RestInv, CagesInv

LEMMA StartDiskKeeps ==
    ASSUME BaseInv, NEW p \in Procs, StartDisk(p), UNCHANGED <<build, temp>>
    PROVE  BaseInv'
<1>0. At(p, "start_disk") /\ UNCHANGED files /\ UNCHANGED <<inplace, image>> /\ Starting(p)
  BY DEF StartDisk, Starting, At
<1>1. CASE There(img)
  <2>0. SetCage("user", [NoCage EXCEPT !.on = img]) /\ Goto(p, "start_save")
    BY <1>1 DEF StartDisk
  <2> DEFINE r == [NoCage EXCEPT !.on = img]
  <2>1. /\ r \in Cage /\ r.on = img /\ r.state = "none"
    BY NoCageIs DEF Cage, BaseInv, BaseTypeOK
  <2>2. SetCage("user", r)
    BY <2>0
  <2> HIDE DEF r
  <2>3. /\ Keeps(p) /\ Fds(p)
        /\ proc'[p].pc = "start_save" /\ proc'[p].fd = proc[p].fd
        /\ proc'[p].name = proc[p].name /\ proc'[p].layer = proc[p].layer
    BY <2>0, Gone DEF Steps, BaseInv
  <2> QED
    BY <1>0, <1>1, <2>1, <2>2, <2>3, UserCage DEF At, Loading
<1>2. CASE ~There(img)
  <2>0. Finish(p) /\ UNCHANGED cage
    BY <1>2 DEF StartDisk
  <2>1. Keeps(p) /\ Fds(p) /\ proc'[p] = Idle
    BY <2>0, Finished DEF BaseInv
  <2> QED
    BY <1>0, <2>0, <2>1, IdleIs, OwnKeeps DEF At, Loading, LayerRight
<1> QED
  BY <1>1, <1>2

LEMMA StartSaveKeeps ==
    ASSUME BaseInv, NEW p \in Procs, StartSave(p), UNCHANGED <<build, temp>>
    PROVE  BaseInv'
<1>0. /\ At(p, "start_save") /\ UNCHANGED files /\ UNCHANGED <<inplace, image>>
      /\ Starting(p) /\ Finish(p)
  BY DEF StartSave, Starting, At
<1>1. PICK s \in {"stopped", "torn"} : SetCage("user", [cage["user"] EXCEPT !.state = s])
  BY DEF StartSave
<1> DEFINE r == [cage["user"] EXCEPT !.state = s]
<1>2. cage["user"] \in Cage /\ There(cage["user"].on)
  BY <1>0 DEF BaseInv, BaseTypeOK, RestInv, CagesInv, UserStarts, CageNames
<1>3. /\ r \in Cage /\ r.on = cage["user"].on
  BY <1>2 DEF Cage
<1>4. SetCage("user", r)
  BY <1>1
<1> HIDE DEF r
<1>5. Keeps(p) /\ Fds(p) /\ proc'[p] = Idle
  BY <1>0, Finished DEF BaseInv
<1> QED
  BY <1>0, <1>2, <1>3, <1>4, <1>5, IdleIs, UserCage DEF At, Loading

\* Every step of another command.
LEMMA ProcKeeps ==
    ASSUME BaseInv, NEW p \in Procs, ProcNext(p), UNCHANGED <<build, temp>>
    PROVE  BaseInv'
<1>0. BaseTypeOK /\ FilesInv
  BY DEF BaseInv
<1>1. CASE \/ \E a \in Arches : Pull(p, a)
           \/ PullCheck(p) \/ PullGet(p) \/ PullCreate(p) \/ PullCopy(p)
  BY <1>0, <1>1, DoesKeeps, PullDoes, PullCheckDoes, PullGetDoes, PullCreateDoes, PullCopyDoes
<1>2. CASE \/ PullRename(p) \/ PullConvert(p) \/ PullConverted(p)
           \/ PullMeta(p) \/ PullRemoveTmp(p)
  BY <1>0, <1>2, DoesKeeps, PullRenameDoes, PullConvertDoes, PullConvertedDoes, PullMetaDoes,
     PullRemoveTmpDoes
<1>3. CASE \/ \E name \in Typed : RemoveImage(p, name)
           \/ RemoveCheck(p) \/ RemoveList(p) \/ RemoveFile(p) \/ RemoveMeta(p)
  BY <1>0, <1>3, DoesKeeps, RemoveImageDoes, RemoveCheckDoes, RemoveListKeeps, RemoveFileDoes,
     RemoveMetaDoes
<1>4. CASE Start(p) \/ StartDisk(p) \/ StartSave(p)
  BY <1>4, StartKeeps, StartDiskKeeps, StartSaveKeeps
<1>5. CASE SaveCheck(p) \/ SaveCopy(p) \/ SaveDigest(p) \/ SaveRef(p)
  BY <1>5, SaveCheckKeeps, SaveCopyKeeps, SaveDigestKeeps, SaveRefKeeps
<1>6. CASE Crash(p)
  BY <1>0, <1>6, DoesKeeps, CrashDoes
<1> QED
  BY <1>1, <1>2, <1>3, <1>4, <1>5, <1>6 DEF ProcNext

\* The files are none of a step's business.
LEMMA FilesStay ==
    ASSUME FilesInv, UNCHANGED <<files, proc>>
    PROVE  FilesInv'
BY DEF FilesInv, files, FdOpen, LoadsAlone, Loaded, BaseWhole, MetaTruthful, Converting,
       Publishing, At

\* Nor are the layers that commands carry, if the image and the build's are right.
LEMMA LayersStay ==
    ASSUME LayersInv, UNCHANGED <<proc, spoilt>>, LayerRight(image'), LayerRight(build'.layer),
           build'.pc \notin {"idle", "probe"} => SeenArch(build'.seen, build'.call.arch)
    PROVE  LayersInv'
BY DEF LayersInv, LayerRight, SeenArch, At

\* What the user does with the cage, which is not being created then.
LEMMA UserActs ==
    ASSUME BaseInv, NEW r \in Cage, SetCage("user", r), cage["user"].state # "none",
           UNCHANGED files, UNCHANGED <<inplace, proc, image, build, temp>>,
           r.state \in {"stopped", "running"} => There(r.on)
    PROVE  BaseInv'
<1>0. /\ cage' \in [CageNames -> Cage] /\ cage'["user"] = r /\ cage'["temp"] = cage["temp"]
      /\ img' = img /\ spoilt' = spoilt
  BY DEF BaseInv, BaseTypeOK, SetCage, CageNames, files
<1>1. FilesInv'
  BY FilesStay DEF BaseInv
<1>2. BaseTypeOK'
  BY <1>0 DEF BaseInv, BaseTypeOK, files
<1>3. \A q \in Procs : ~Starting(q)
  BY NoCageIs DEF BaseInv, RestInv, CagesInv, UserStarts, Starting, At
<1>4. StartsAlone' /\ UserStarts'
  BY <1>3 DEF StartsAlone, UserStarts, Starting, At
<1>5. BaseUnder'
  BY <1>0 DEF BaseInv, RestInv, CagesInv, BaseUnder, Listed, CageNames, At
<1>6. LayersInv'
  BY <1>0, LayersStay DEF BaseInv, RestInv, LayersInv
<1>7. BuildInv'
  BY <1>0, BuildKeeps DEF BaseInv, RestInv, theTemp
<1> QED
  BY <1>1, <1>2, <1>4, <1>5, <1>6, <1>7 DEF BaseInv, RestInv, CagesInv

LEMMA UserKeeps ==
    ASSUME BaseInv, UserBoots \/ UserStops \/ UserRemoved, UNCHANGED <<build, temp>>
    PROVE  BaseInv'
<1>0. cage["user"] \in Cage /\ (Listed("user") => There(cage["user"].on))
  BY DEF BaseInv, BaseTypeOK, RestInv, CagesInv, BaseUnder, CageNames
<1>1. CASE UserBoots
  <2> DEFINE r == [cage["user"] EXCEPT !.vm = TRUE, !.state = "running"]
  <2>1. /\ r \in Cage /\ r.on = cage["user"].on
    BY <1>0 DEF Cage
  <2>2. /\ SetCage("user", r) /\ cage["user"].state # "none" /\ Listed("user")
        /\ UNCHANGED files /\ UNCHANGED <<inplace, proc, image>>
    BY <1>1 DEF UserBoots, Listed
  <2> HIDE DEF r
  <2> QED
    BY <1>0, <2>1, <2>2, UserActs
<1>2. CASE UserStops
  <2>0. PICK alive \in BOOLEAN :
           SetCage("user", [cage["user"] EXCEPT !.vm = alive, !.state = "stopped"])
    BY <1>0, <1>2 DEF UserStops, Cage
  <2> DEFINE r == [cage["user"] EXCEPT !.vm = alive, !.state = "stopped"]
  <2>1. /\ r \in Cage /\ r.on = cage["user"].on
    BY <1>0 DEF Cage
  <2>2. /\ SetCage("user", r) /\ cage["user"].state # "none" /\ Listed("user")
        /\ UNCHANGED files /\ UNCHANGED <<inplace, proc, image>>
    BY <1>2, <2>0 DEF UserStops, Listed
  <2> HIDE DEF r
  <2> QED
    BY <1>0, <2>1, <2>2, UserActs
<1>3. CASE UserRemoved
  BY <1>3, NoCageIs, UserActs DEF UserRemoved, There
<1> QED
  BY <1>1, <1>2, <1>3

LEMMA RefRemovedKeeps ==
    ASSUME BaseInv, RefRemoved, UNCHANGED <<build, temp>>
    PROVE  BaseInv'
<1>0. UNCHANGED files /\ UNCHANGED <<inplace, proc, cage>> /\ image' = NoImage
  BY DEF RefRemoved
<1>1. FilesInv'
  BY <1>0, FilesStay DEF BaseInv
<1>2. BaseTypeOK'
  BY <1>0 DEF BaseInv, BaseTypeOK, files
<1>3. CagesInv'
  BY <1>0 DEF BaseInv, RestInv, CagesInv, StartsAlone, Starting, UserStarts, BaseUnder, Listed,
              At, files
<1>4. LayersInv'
  BY <1>0, LayersStay DEF BaseInv, RestInv, LayersInv, LayerRight, files
<1>5. BuildInv'
  BY <1>0, BuildKeeps DEF BaseInv, RestInv, theTemp
<1> QED
  BY <1>1, <1>2, <1>3, <1>4, <1>5 DEF BaseInv, RestInv

-----------------------------------------------------------------------------
\* What TypeOK says of a build.
BuildTyped ==
    /\ build.pc \in BuildSteps /\ build.call \in Builds \cup {NoCall}
    /\ DOMAIN build.fs = Paths
    /\ build.seen \in Content \cup {NoFile} /\ build.layer \in Image \cup {NoImage}
    /\ build.end \in BuildSteps \cup {"none", "saved", "unclean", "killed"}
    /\ temp.dir \in BOOLEAN /\ temp.keys \in KeysThere /\ temp.dom \in BOOLEAN
AllInv == BaseInv /\ BuildTyped

\* A step of the build that takes everything along, and one that drops it.
Carries(step) ==
    /\ DOMAIN build' = BuildFields /\ build'.pc = step /\ step \in BuildSteps
    /\ build'.call = build.call /\ build'.seen = build.seen /\ build'.layer = build.layer
    /\ build'.end = build.end /\ DOMAIN build'.fs = Paths
Drops(step, how) ==
    /\ DOMAIN build' = BuildFields /\ build'.pc = step /\ step \in BuildSteps
    /\ build'.call = build.call /\ build'.seen = NoFile /\ build'.layer = NoImage
    /\ build'.end = how /\ DOMAIN build'.fs = Paths

LEMMA StepCarries ==
    ASSUME AllInv, NEW next \in BuildSteps, Step(next)
    PROVE  Carries(next)
BY DEF AllInv, BaseInv, RestInv, BuildInv, BuildTyped, Carries, Step, BuildFields

LEMMA NoBuildIs ==
    /\ DOMAIN NoBuild = BuildFields /\ NoBuild.pc = "idle" /\ NoBuild.call = NoCall
    /\ NoBuild.seen = NoFile /\ NoBuild.layer = NoImage /\ NoBuild.end = "none"
    /\ DOMAIN NoBuild.fs = Paths
BY DEF NoBuild, BuildFields, Fresh

LEMMA EndsDrops ==
    ASSUME NEW how, Ends(how)
    PROVE  Drops("ended", how)
BY NoBuildIs DEF Ends, Ended, Drops, BuildFields, BuildSteps

LEMMA EndedIs ==
    ASSUME NEW how, NEW step \in BuildSteps, build' = [Ended(how) EXCEPT !.pc = step]
    PROVE  Drops(step, how)
BY NoBuildIs DEF Ended, Drops, BuildFields

LEMMA FailsDrops ==
    ASSUME Fails
    PROVE  \/ build.call.keep /\ Drops("ended", build.pc)
           \/ ~build.call.keep /\ Drops("clean", build.pc)
<1>1. "ended" \in BuildSteps /\ "clean" \in BuildSteps
  BY DEF BuildSteps
<1>2. CASE build.call.keep
  BY <1>1, <1>2, EndedIs DEF Fails
<1>3. CASE ~build.call.keep
  BY <1>1, <1>3, EndedIs DEF Fails
<1> QED
  BY <1>2, <1>3

\* The temporary cage may become r: it is listed only with a disk.
MayBe(r) ==
    /\ r \in Cage
    /\ r.state \in {"stopped", "running"} => There(r.on)

LEMMA MayBeNoCage == MayBe(NoCage)
BY NoCageIs DEF MayBe, There

LEMMA MayBeOn ==
    ASSUME AllInv
    PROVE  LET r == [NoCage EXCEPT !.on = img] IN MayBe(r) /\ r.on = img
BY NoCageIs DEF MayBe, AllInv, BaseInv, BaseTypeOK, Cage, NoCage

LEMMA MayBeAlive ==
    ASSUME NEW alive \in BOOLEAN
    PROVE  MayBe([NoCage EXCEPT !.vm = alive])
<1> DEFINE r == [NoCage EXCEPT !.vm = alive]
<1>1. r \in Cage /\ r.on = NoFile /\ r.state = "none"
  BY NoCageIs DEF Cage
<1> QED
  BY <1>1 DEF MayBe, There

LEMMA MayBeSame ==
    ASSUME AllInv
    PROVE  MayBe(theTemp) /\ cage = [cage EXCEPT !["temp"] = theTemp]
<1>1. theTemp \in Cage /\ cage = [cage EXCEPT !["temp"] = theTemp]
  BY DEF theTemp, AllInv, BaseInv, BaseTypeOK, CageNames
<1>2. theTemp.state \in {"stopped", "running"} => There(theTemp.on)
  BY DEF theTemp, AllInv, BaseInv, RestInv, CagesInv, BaseUnder, Listed, CageNames
<1> QED
  BY <1>1, <1>2 DEF MayBe

LEMMA MayBeState ==
    ASSUME AllInv, There(theTemp.on), NEW s \in {"none", "torn", "stopped", "running"}
    PROVE  LET r == [theTemp EXCEPT !.state = s] IN
           MayBe(r) /\ r.on = theTemp.on /\ r.vm = theTemp.vm
<1> DEFINE r == [theTemp EXCEPT !.state = s]
<1>1. theTemp \in Cage
  BY DEF theTemp, AllInv, BaseInv, BaseTypeOK, CageNames
<1>2. r \in Cage /\ r.on = theTemp.on /\ r.vm = theTemp.vm
  BY <1>1 DEF Cage
<1> QED
  BY <1>2 DEF MayBe

LEMMA MayBeRunning ==
    ASSUME AllInv, There(theTemp.on), NEW alive \in BOOLEAN
    PROVE  LET r == [theTemp EXCEPT !.vm = alive] IN
           MayBe(r) /\ r.on = theTemp.on /\ r.vm = alive
<1> DEFINE r == [theTemp EXCEPT !.vm = alive]
<1>1. theTemp \in Cage
  BY DEF theTemp, AllInv, BaseInv, BaseTypeOK, CageNames
<1>2. r \in Cage /\ r.on = theTemp.on /\ r.vm = alive
  BY <1>1 DEF Cage
<1> QED
  BY <1>2 DEF MayBe

\* Whatever a step of the build does, to no more than is its own.
LEMMA BuildActs ==
    ASSUME BaseInv, NEW r, MayBe(r), TempCage(r), UNCHANGED shared,
           image' \in Image \cup {NoImage}, LayerRight(image'),
           LayerRight(build'.layer),
           build'.pc \notin {"idle", "probe"} => SeenArch(build'.seen, build'.call.arch),
           DOMAIN build' = BuildFields, TempInv', EndInv'
    PROVE  BaseInv'
<1>0. /\ cage' \in [CageNames -> Cage] /\ cage'["temp"] = r /\ cage'["user"] = cage["user"]
      /\ UNCHANGED files /\ UNCHANGED <<inplace, proc, img, spoilt>>
  BY DEF BaseInv, BaseTypeOK, TempCage, SetCage, CageNames, files, shared, MayBe
<1>1. FilesInv'
  BY <1>0, FilesStay DEF BaseInv
<1>2. BaseTypeOK'
  BY <1>0 DEF BaseInv, BaseTypeOK, files
<1>3. StartsAlone' /\ UserStarts'
  BY <1>0 DEF BaseInv, RestInv, CagesInv, StartsAlone, UserStarts, Starting, At
<1>4. BaseUnder'
  BY <1>0 DEF BaseInv, RestInv, CagesInv, BaseUnder, Listed, CageNames, MayBe
<1>5. LayersInv'
  BY <1>0, LayersStay DEF BaseInv, RestInv
<1> QED
  BY <1>1, <1>2, <1>3, <1>4, <1>5 DEF BaseInv, RestInv, CagesInv, BuildInv

\* The build goes on with the next step.
LEMMA GoesOn ==
    ASSUME AllInv, NEW step, Carries(step), step \notin {"idle", "probe", "ended"},
           ~In("idle"), ~In("probe"), NEW r, MayBe(r), TempCage(r), UNCHANGED <<shared, image>>,
           TempInv', temp'.dir \in BOOLEAN, temp'.keys \in KeysThere, temp'.dom \in BOOLEAN
    PROVE  AllInv'
<1>1. EndInv'
  BY DEF EndInv, In, Carries
<1>2. /\ LayerRight(build'.layer) /\ LayerRight(image') /\ image' \in Image \cup {NoImage}
      /\ SeenArch(build'.seen, build'.call.arch)
  BY DEF AllInv, BaseInv, RestInv, LayersInv, BaseTypeOK, Carries, In
<1>3. BaseInv'
  BY <1>1, <1>2, BuildActs DEF AllInv, Carries
<1> QED
  BY <1>3 DEF AllInv, BuildTyped, Carries

\* The build is over, or about to be.
LEMMA ComesToEnd ==
    ASSUME AllInv, NEW step, NEW how, Drops(step, how),
           how \in BuildSteps \cup {"none", "saved", "unclean", "killed"},
           NEW r, MayBe(r), TempCage(r), UNCHANGED shared,
           image' \in Image \cup {NoImage}, LayerRight(image'),
           TempInv', EndInv', temp'.dir \in BOOLEAN, temp'.keys \in KeysThere, temp'.dom \in BOOLEAN
    PROVE  AllInv'
<1>1. /\ LayerRight(build'.layer)
      /\ SeenArch(build'.seen, build'.call.arch)
  BY DEF LayerRight, SeenArch, Drops, There
<1>2. BaseInv'
  BY <1>1, BuildActs DEF AllInv, Drops
<1> QED
  BY <1>2 DEF AllInv, BuildTyped, Drops


-----------------------------------------------------------------------------
\* The build's steps, one by one.
LEMMA StartsRight ==
    ASSUME AllInv, NEW call \in Builds, BuildStart(call)
    PROVE  AllInv'
<1>0. /\ In("idle") /\ UNCHANGED shared /\ UNCHANGED <<cage, image, temp>>
      /\ theTemp = NoCage /\ temp = NoTemp
  BY DEF BuildStart, AllInv, BaseInv, RestInv, BuildInv, TempInv
<1>1. PICK step \in {"probe", "ended"}, c \in {Bad, parseCagefile(call)} :
         build' = [NoBuild EXCEPT !.pc = step, !.call = call, !.cagefile = c]
  <2>1. CASE build' = [NoBuild EXCEPT !.pc = "probe", !.call = call,
                                      !.cagefile = parseCagefile(call)]
    BY <2>1
  <2>2. CASE build' = [NoBuild EXCEPT !.pc = "ended", !.call = call]
    <3>1. NoBuild.cagefile = Bad /\ "cagefile" \in DOMAIN NoBuild
      BY DEF NoBuild
    <3>2. build' = [NoBuild EXCEPT !.pc = "ended", !.call = call, !.cagefile = Bad]
      BY <2>2, <3>1, NoBuildIs DEF NoBuild
    <3> QED
      BY <3>2
  <2> QED
    BY <2>1, <2>2 DEF BuildStart
<1>2. /\ DOMAIN build' = BuildFields /\ build'.pc = step /\ build'.call = call
      /\ build'.seen = NoFile /\ build'.layer = NoImage /\ build'.end = "none"
      /\ DOMAIN build'.fs = Paths
  BY <1>1, NoBuildIs DEF BuildFields
<1>3. theTemp' = NoCage /\ temp' = NoTemp
  BY <1>0 DEF theTemp
<1>4. TempInv' /\ EndInv'
  BY <1>2, <1>3 DEF TempInv, EndInv, In, Late, Unmade, NoTemp
<1>5. /\ LayerRight(build'.layer) /\ SeenArch(build'.seen, build'.call.arch)
      /\ LayerRight(image') /\ image' \in Image \cup {NoImage}
  BY <1>0, <1>2 DEF LayerRight, SeenArch, There, AllInv, BaseInv, BaseTypeOK, RestInv, LayersInv
<1>6. MayBe(theTemp) /\ TempCage(theTemp)
  BY <1>0, MayBeSame DEF TempCage, SetCage
<1>7. BaseInv'
  BY <1>0, <1>2, <1>4, <1>5, <1>6, BuildActs DEF AllInv
<1> QED
  BY <1>0, <1>2, <1>7 DEF AllInv, BuildTyped, BuildSteps

\* What is known while the build is under way.
LEMMA Known ==
    ASSUME AllInv
    PROVE  /\ TempInv /\ EndInv /\ DOMAIN build = BuildFields
           /\ NoTemp = [dir |-> FALSE, keys |-> "none", dom |-> FALSE]
BY DEF AllInv, BaseInv, RestInv, BuildInv, NoTemp

\* A failure that no cage has been left of, at most directories or keys.
LEMMA FailsEarly ==
    ASSUME AllInv, NEW how \in Unmade \ {"none"}, Ends(how),
           TempCage(NoCage), UNCHANGED <<shared, image>>,
           NEW dir \in BOOLEAN, dir => how = "dir",
           NEW keys \in KeysThere, keys # "none" => how \in {"keys", "iso"},
           temp' = [dir |-> dir, keys |-> keys, dom |-> FALSE]
    PROVE  AllInv'
<1>1. Drops("ended", how)
  BY EndsDrops
<1>2. theTemp' = NoCage
  BY DEF TempCage, SetCage, theTemp, AllInv, BaseInv, BaseTypeOK, CageNames
<1>3. TempInv'
  BY <1>1 DEF TempInv, In, Drops, Late
<1>4. EndInv'
  BY <1>1, <1>2 DEF EndInv, In, Drops, Late, Unmade
<1>5. image' \in Image \cup {NoImage} /\ LayerRight(image')
  BY DEF AllInv, BaseInv, BaseTypeOK, RestInv, LayersInv
<1>6. temp'.dir \in BOOLEAN /\ temp'.keys \in KeysThere /\ temp'.dom \in BOOLEAN
  OBVIOUS
<1> QED
  BY <1>1, <1>3, <1>4, <1>5, <1>6, MayBeNoCage, ComesToEnd DEF BuildSteps, Unmade

LEMMA ProbeRight ==
    ASSUME AllInv, BuildProbe
    PROVE  AllInv'
<1>0. /\ In("probe") /\ UNCHANGED shared /\ UNCHANGED <<cage, image, temp>>
      /\ theTemp = NoCage /\ temp = NoTemp /\ theTemp' = theTemp
  BY Known DEF BuildProbe, TempInv, theTemp
<1>m. MayBe(theTemp) /\ TempCage(theTemp)
  BY <1>0, MayBeSame DEF TempCage, SetCage
<1>1. CASE There(img) /\ BaseArch(meta) = build.call.arch
  <2>1. build' = [build EXCEPT !.pc = "dir", !.seen = Seen]
    BY <1>1 DEF BuildProbe
  <2>2. /\ DOMAIN build' = BuildFields /\ build'.pc = "dir" /\ build'.call = build.call
        /\ build'.seen = Seen /\ build'.layer = build.layer /\ build'.end = build.end
        /\ DOMAIN build'.fs = Paths
    BY <2>1, Known DEF BuildFields, AllInv, BuildTyped
  <2>3. SeenArch(Seen, build.call.arch) /\ build.call.arch \in Arches
    BY <1>1, SeenTruly, KnownArch DEF AllInv, BaseInv
  <2>4. TempInv' /\ EndInv'
    BY <1>0, <2>2, <2>3 DEF TempInv, EndInv, In, Late
  <2>5. LayerRight(build'.layer) /\ LayerRight(image') /\ image' \in Image \cup {NoImage}
    BY <1>0, <2>2 DEF AllInv, BaseInv, BaseTypeOK, RestInv, LayersInv
  <2>6. BaseInv'
    BY <1>0, <1>m, <2>2, <2>3, <2>4, <2>5, BuildActs DEF AllInv
  <2> QED
    BY <1>0, <2>2, <2>6, SeenTyped DEF AllInv, BuildTyped, BuildSteps, BaseInv
<1>2. CASE ~(There(img) /\ BaseArch(meta) = build.call.arch)
  <2>1. Ends("probe")
    BY <1>2 DEF BuildProbe
  <2>2. TempCage(NoCage) /\ temp' = [dir |-> FALSE, keys |-> "none", dom |-> FALSE]
    BY <1>0, <1>m, Known
  <2> QED
    BY <1>0, <2>1, <2>2, FailsEarly DEF Unmade, KeysThere
<1> QED
  BY <1>1, <1>2

LEMMA DirRight ==
    ASSUME AllInv, BuildDir
    PROVE  AllInv'
<1>0. /\ In("dir") /\ UNCHANGED shared /\ UNCHANGED <<cage, image>>
      /\ theTemp = NoCage /\ temp = NoTemp /\ theTemp' = theTemp
      /\ build.call.arch \in Arches
  BY Known DEF BuildDir, TempInv, theTemp, In
<1>m. MayBe(theTemp) /\ TempCage(theTemp)
  BY <1>0, MayBeSame DEF TempCage, SetCage
<1>1. CASE Step("overlay") /\ temp' = [temp EXCEPT !.dir = TRUE]
  <2>1. Carries("overlay")
    BY <1>1, StepCarries DEF BuildSteps
  <2>2. temp' = [dir |-> TRUE, keys |-> "none", dom |-> FALSE]
    BY <1>0, <1>1 DEF NoTemp
  <2>3. TempInv'
    BY <1>0, <2>1, <2>2 DEF TempInv, In, Late, Carries, Whenever
  <2> QED
    BY <1>0, <1>m, <2>1, <2>2, <2>3, GoesOn DEF In, KeysThere
<1>2. ASSUME NEW first \in BOOLEAN, temp' = [temp EXCEPT !.dir = first], Ends("dir")
      PROVE  AllInv'
  <2>1. temp' = [dir |-> first, keys |-> "none", dom |-> FALSE] /\ TempCage(NoCage)
    <3>1. temp = [dir |-> FALSE, keys |-> "none", dom |-> FALSE]
      BY <1>0 DEF NoTemp
    <3>2. temp' = [dir |-> first, keys |-> "none", dom |-> FALSE]
      BY <1>2, <3>1
    <3>3. TempCage(NoCage)
      BY <1>0, <1>m
    <3> QED
      BY <3>2, <3>3
  <2>2. "dir" \in Unmade \ {"none"} /\ "none" \in KeysThere
    BY DEF Unmade, KeysThere
  <2>3. UNCHANGED <<shared, image>>
    BY <1>0
  <2> QED
    BY <1>2, <2>1, <2>2, <2>3, FailsEarly
<1> QED
  BY <1>1, <1>2 DEF BuildDir

LEMMA OverlayRight ==
    ASSUME AllInv, BuildOverlay
    PROVE  AllInv'
<1>0. /\ In("overlay") /\ UNCHANGED shared /\ UNCHANGED image
      /\ temp = [dir |-> TRUE, keys |-> "none", dom |-> FALSE]
      /\ build.call.arch \in Arches
  BY Known DEF BuildOverlay, TempInv, In, Whenever
<1>1. CASE There(img) /\ TempCage([NoCage EXCEPT !.on = img]) /\ Step("keys") /\ UNCHANGED temp
  <2> DEFINE r == [NoCage EXCEPT !.on = img]
  <2>1. MayBe(r) /\ r.on = img /\ TempCage(r)
    BY <1>1, MayBeOn
  <2> HIDE DEF r
  <2>2. theTemp' = r
    BY <2>1 DEF TempCage, SetCage, theTemp, AllInv, BaseInv, BaseTypeOK, CageNames
  <2>3. Carries("keys")
    BY <1>1, StepCarries DEF BuildSteps
  <2>4. TempInv'
    BY <1>0, <1>1, <2>1, <2>2, <2>3 DEF TempInv, In, Late, Carries, Whenever
  <2> QED
    BY <1>0, <1>1, <2>1, <2>3, <2>4, GoesOn DEF In, KeysThere
<1>2. CASE DeleteState /\ temp' = [temp EXCEPT !.dir = FALSE] /\ Ends("overlay")
  <2>1. temp' = [dir |-> FALSE, keys |-> "none", dom |-> FALSE] /\ TempCage(NoCage)
    BY <1>0, <1>2 DEF DeleteState
  <2> QED
    BY <1>0, <1>2, <2>1, FailsEarly DEF Unmade, KeysThere
<1> QED
  BY <1>1, <1>2 DEF BuildOverlay

LEMMA KeysRight ==
    ASSUME AllInv, BuildKeys
    PROVE  AllInv'
<1>0. /\ In("keys") /\ UNCHANGED shared /\ UNCHANGED image
      /\ temp = [dir |-> TRUE, keys |-> "none", dom |-> FALSE]
      /\ build.call.arch \in Arches /\ There(theTemp.on)
  BY Known DEF BuildKeys, TempInv, In, Whenever
<1>1. CASE Step("iso") /\ temp' = [temp EXCEPT !.keys = "pair"] /\ UNCHANGED cage
  <2>1. temp' = [dir |-> TRUE, keys |-> "pair", dom |-> FALSE]
    BY <1>0, <1>1
  <2>2. Carries("iso")
    BY <1>1, StepCarries DEF BuildSteps
  <2>3. MayBe(theTemp) /\ TempCage(theTemp) /\ theTemp' = theTemp
    BY <1>1, MayBeSame DEF TempCage, SetCage, theTemp
  <2>4. TempInv'
    BY <1>0, <2>1, <2>2, <2>3 DEF TempInv, In, Late, Carries, Whenever
  <2> QED
    BY <1>0, <2>1, <2>2, <2>3, <2>4, GoesOn DEF In, KeysThere
<1>2. ASSUME NEW left \in KeysThere, temp' = [temp EXCEPT !.dir = FALSE, !.keys = left],
             DeleteState, Ends("keys")
      PROVE  AllInv'
  <2>1. temp' = [dir |-> FALSE, keys |-> left, dom |-> FALSE] /\ TempCage(NoCage)
    BY <1>0, <1>2 DEF DeleteState
  <2> QED
    BY <1>0, <1>2, <2>1, FailsEarly DEF Unmade
<1> QED
  BY <1>1, <1>2 DEF BuildKeys

LEMMA ISORight ==
    ASSUME AllInv, BuildISO
    PROVE  AllInv'
<1>0. /\ In("iso") /\ UNCHANGED shared /\ UNCHANGED image
      /\ temp = [dir |-> TRUE, keys |-> "pair", dom |-> FALSE]
      /\ build.call.arch \in Arches /\ There(theTemp.on)
  BY Known DEF BuildISO, TempInv, In, Whenever
<1>1. CASE Step("define") /\ UNCHANGED <<temp, cage>>
  <2>1. Carries("define")
    BY <1>1, StepCarries DEF BuildSteps
  <2>2. MayBe(theTemp) /\ TempCage(theTemp) /\ theTemp' = theTemp /\ temp' = temp
    BY <1>1, MayBeSame DEF TempCage, SetCage, theTemp
  <2>3. TempInv'
    BY <1>0, <2>1, <2>2 DEF TempInv, In, Late, Carries, Whenever
  <2> QED
    BY <1>0, <2>1, <2>2, <2>3, GoesOn DEF In, KeysThere
<1>2. CASE DeleteState /\ temp' = [temp EXCEPT !.dir = FALSE] /\ Ends("iso")
  <2>1. temp' = [dir |-> FALSE, keys |-> "pair", dom |-> FALSE] /\ TempCage(NoCage)
    BY <1>0, <1>2 DEF DeleteState
  <2> QED
    BY <1>0, <1>2, <2>1, FailsEarly DEF Unmade, KeysThere
<1> QED
  BY <1>1, <1>2 DEF BuildISO

LEMMA DefineRight ==
    ASSUME AllInv, BuildDefine
    PROVE  AllInv'
<1>0. /\ In("define") /\ UNCHANGED shared /\ UNCHANGED image
      /\ temp = [dir |-> TRUE, keys |-> "pair", dom |-> FALSE]
      /\ build.call.arch \in Arches /\ There(theTemp.on)
  BY Known DEF BuildDefine, TempInv, In, Whenever
<1>1. CASE Step("save") /\ temp' = [temp EXCEPT !.dom = TRUE] /\ UNCHANGED cage
  <2>1. temp' = [dir |-> TRUE, keys |-> "pair", dom |-> TRUE]
    BY <1>0, <1>1
  <2>2. Carries("save")
    BY <1>1, StepCarries DEF BuildSteps
  <2>3. MayBe(theTemp) /\ TempCage(theTemp) /\ theTemp' = theTemp
    BY <1>1, MayBeSame DEF TempCage, SetCage, theTemp
  <2>4. TempInv'
    BY <1>0, <2>1, <2>2, <2>3 DEF TempInv, In, Late, Carries, Whenever
  <2> QED
    BY <1>0, <2>1, <2>2, <2>3, <2>4, GoesOn DEF In, KeysThere
<1>2. CASE /\ DeleteState /\ temp' = [temp EXCEPT !.dir = FALSE, !.keys = "none"]
           /\ Ends("define")
  <2>1. temp' = [dir |-> FALSE, keys |-> "none", dom |-> FALSE] /\ TempCage(NoCage)
    BY <1>0, <1>2 DEF DeleteState
  <2> QED
    BY <1>0, <1>2, <2>1, FailsEarly DEF Unmade, KeysThere
<1> QED
  BY <1>1, <1>2 DEF BuildDefine


\* What is known once the state of the cage has been saved.
LEMMA KnownLate ==
    ASSUME AllInv, build.pc \in Late
    PROVE  /\ temp = [dir |-> TRUE, keys |-> "pair", dom |-> TRUE]
           /\ build.call.arch \in Arches /\ There(theTemp.on)
           /\ build.pc \in {"mark", "ssh", "run"} => theTemp.vm
           /\ build.pc \in {"digest", "ref"} => build.layer \in Image
           /\ theTemp \in Cage /\ MayBe(theTemp)
           /\ (UNCHANGED cage => TempCage(theTemp) /\ theTemp' = theTemp)
           /\ image \in Image \cup {NoImage} /\ LayerRight(image)
           /\ ~In("idle") /\ ~In("probe") /\ build.pc \in BuildSteps
           /\ temp.dir \in BOOLEAN /\ temp.keys \in KeysThere /\ temp.dom \in BOOLEAN
<1>1. MayBe(theTemp) /\ (UNCHANGED cage => TempCage(theTemp) /\ theTemp' = theTemp)
  BY MayBeSame DEF TempCage, SetCage, theTemp
<1>2. image \in Image \cup {NoImage} /\ LayerRight(image) /\ theTemp \in Cage
  BY <1>1 DEF AllInv, BaseInv, BaseTypeOK, RestInv, LayersInv, MayBe
<1>3. temp.dir \in BOOLEAN /\ temp.keys \in KeysThere /\ temp.dom \in BOOLEAN
  BY DEF AllInv, BuildTyped
<1> QED
  BY <1>1, <1>2, <1>3, Known DEF TempInv, Whenever, In, Late, BuildSteps

\* From there on a failure either keeps everything or has it cleaned up.
LEMMA FailsLate ==
    ASSUME AllInv, build.pc \in Late, Fails, UNCHANGED <<shared, cage, image, temp>>
    PROVE  AllInv'
<1>k. /\ UNCHANGED shared /\ UNCHANGED <<cage, image, temp>>
      /\ build.pc \in BuildSteps /\ MayBe(theTemp) /\ TempCage(theTemp)
      /\ image \in Image \cup {NoImage} /\ LayerRight(image)
      /\ temp.dir \in BOOLEAN /\ temp.keys \in KeysThere /\ temp.dom \in BOOLEAN
      /\ theTemp' = theTemp
  BY KnownLate
<1>0. /\ image' \in Image \cup {NoImage} /\ LayerRight(image')
      /\ temp'.dir \in BOOLEAN /\ temp'.keys \in KeysThere /\ temp'.dom \in BOOLEAN
  BY <1>k DEF LayerRight
<1>1. CASE build.call.keep /\ Drops("ended", build.pc)
  <2>1. TempInv'
    BY <1>1 DEF TempInv, In, Drops, Late
  <2>2. EndInv'
    BY <1>k, <1>0, <1>1, KnownLate DEF EndInv, In, Drops, Late, Unmade, NoTemp, Whenever
  <2> QED
    BY <1>k, <1>0, <1>1, <2>1, <2>2, ComesToEnd
<1>2. CASE ~build.call.keep /\ Drops("clean", build.pc)
  <2>1. TempInv'
    BY <1>2 DEF TempInv, In, Drops, Late
  <2>2. EndInv'
    BY <1>2 DEF EndInv, In, Drops
  <2> QED
    BY <1>k, <1>0, <1>2, <2>1, <2>2, ComesToEnd
<1> QED
  BY <1>1, <1>2, FailsDrops

\* Nor does the cage lose its disk on the way.
LEMMA GoesOnLate ==
    ASSUME AllInv, build.pc \in {"save"} \cup Late,
           NEW next \in Late \ {"digest", "ref"}, Carries(next),
           NEW r, MayBe(r), There(r.on), next \in {"mark", "ssh", "run"} => r.vm,
           TempCage(r), UNCHANGED <<shared, image, temp>>
    PROVE  AllInv'
<1>0. /\ temp = [dir |-> TRUE, keys |-> "pair", dom |-> TRUE] /\ build.call.arch \in Arches
      /\ temp' = temp
  BY Known DEF TempInv, Whenever, In, Late
<1>1. theTemp' = r
  BY DEF TempCage, SetCage, theTemp, AllInv, BaseInv, BaseTypeOK, CageNames
<1>2. TempInv'
  BY <1>0, <1>1 DEF TempInv, In, Late, Carries, Whenever
<1> QED
  BY <1>0, <1>2, GoesOn DEF In, Late, KeysThere

LEMMA SaveRight ==
    ASSUME AllInv, BuildSave
    PROVE  AllInv'
<1>0. /\ In("save") /\ UNCHANGED shared /\ UNCHANGED <<image, temp>>
      /\ temp = [dir |-> TRUE, keys |-> "pair", dom |-> TRUE] /\ There(theTemp.on)
  BY Known DEF BuildSave, TempInv, In, Whenever, Late
<1>1. PICK s \in {"none", "torn", "stopped", "running"} :
         /\ TempCage([theTemp EXCEPT !.state = s])
         /\ Step("start") \/ Ends("save")
  BY DEF BuildSave
<1> DEFINE r == [theTemp EXCEPT !.state = s]
<1>2. MayBe(r) /\ There(r.on) /\ TempCage(r)
  BY <1>0, <1>1, MayBeState
<1> HIDE DEF r
<1>3. CASE Step("start")
  BY <1>0, <1>2, <1>3, StepCarries, GoesOnLate DEF BuildSteps, Late, In
<1>4. CASE Ends("save")
  <2>1. Drops("ended", "save")
    BY <1>4, EndsDrops
  <2>2. TempInv' /\ EndInv'
    BY <2>1 DEF TempInv, EndInv, In, Drops, Late, Unmade, NoTemp
  <2>3. image' \in Image \cup {NoImage} /\ LayerRight(image')
    BY <1>0 DEF AllInv, BaseInv, BaseTypeOK, RestInv, LayersInv
  <2> QED
    BY <1>0, <1>2, <2>1, <2>2, <2>3, ComesToEnd DEF BuildSteps, KeysThere
<1> QED
  BY <1>1, <1>3, <1>4

LEMMA BootRight ==
    ASSUME AllInv, BuildBoot
    PROVE  AllInv'
<1>0. In("start") /\ UNCHANGED shared /\ UNCHANGED <<image, temp>> /\ build.pc \in Late
  BY DEF BuildBoot, In, Late
<1>1. CASE TempCage([theTemp EXCEPT !.vm = TRUE]) /\ Step("mark")
  <2> DEFINE r == [theTemp EXCEPT !.vm = TRUE]
  <2>1. MayBe(r) /\ There(r.on) /\ r.vm /\ TempCage(r)
    BY <1>0, <1>1, MayBeRunning, KnownLate
  <2> HIDE DEF r
  <2> QED
    BY <1>0, <1>1, <2>1, StepCarries, GoesOnLate DEF BuildSteps, Late
<1>2. CASE Fails /\ UNCHANGED cage
  BY <1>0, <1>2, FailsLate
<1> QED
  BY <1>1, <1>2 DEF BuildBoot

LEMMA MarkRight ==
    ASSUME AllInv, BuildMark
    PROVE  AllInv'
<1>0. In("mark") /\ UNCHANGED shared /\ UNCHANGED <<image, temp>> /\ build.pc \in Late
  BY DEF BuildMark, In, Late
<1>1. PICK s \in {"none", "torn", "stopped", "running"} :
         TempCage([theTemp EXCEPT !.state = s]) /\ Step("ssh")
  BY DEF BuildMark
<1> DEFINE r == [theTemp EXCEPT !.state = s]
<1>2. MayBe(r) /\ There(r.on) /\ r.vm /\ TempCage(r)
  BY <1>0, <1>1, MayBeState, KnownLate DEF In
<1> HIDE DEF r
<1> QED
  BY <1>0, <1>1, <1>2, StepCarries, GoesOnLate DEF BuildSteps, Late

LEMMA SSHRight ==
    ASSUME AllInv, BuildSSH
    PROVE  AllInv'
<1>0. In("ssh") /\ UNCHANGED shared /\ UNCHANGED <<cage, image, temp>> /\ build.pc \in Late
  BY DEF BuildSSH, In, Late
<1>1. CASE Step("run")
  BY <1>0, <1>1, KnownLate, StepCarries, GoesOnLate DEF BuildSteps, Late, In
<1>2. CASE Fails
  BY <1>0, <1>2, FailsLate
<1> QED
  BY <1>1, <1>2 DEF BuildSSH

\* An instruction changes what the Executor knows and nothing else.
LEMMA InstructionRight ==
    ASSUME AllInv, In("run"), NEW b, Done1(b), DOMAIN b = BuildFields, b.pc = build.pc,
           b.call = build.call, b.seen = build.seen, b.layer = build.layer,
           b.end = build.end, DOMAIN b.fs = Paths, UNCHANGED <<shared, cage, image, temp>>
    PROVE  AllInv'
<1>0. /\ UNCHANGED shared /\ UNCHANGED <<cage, image, temp>> /\ build.pc \in Late
      /\ build.pc = "run"
  BY DEF In, Late
<1>1. Carries("run")
  BY <1>0 DEF Carries, Done1, BuildFields, BuildSteps
<1> QED
  BY <1>0, <1>1, KnownLate, GoesOnLate DEF Late, In

LEMMA ExecRight ==
    ASSUME AllInv, \/ ExecArg \/ ExecEnv \/ ExecWorkdir \/ ExecUser \/ ExecRun \/ ExecCopy
    PROVE  AllInv'
<1>0. /\ In("run") /\ UNCHANGED <<shared, cage, image, temp>> /\ build.pc \in Late
      /\ DOMAIN build = BuildFields /\ DOMAIN build.fs = Paths
  BY Known DEF ExecArg, ExecEnv, ExecWorkdir, ExecUser, ExecRun, ExecCopy, Executor, In, Late,
     AllInv, BuildTyped
<1>1. CASE Fails
  BY <1>0, <1>1, FailsLate
<1>2. CASE Done1(build)
  BY <1>0, <1>2, InstructionRight
<1>3. ASSUME NEW env, Done1([build EXCEPT !.env = env]) PROVE AllInv'
  BY <1>0, <1>3, InstructionRight DEF BuildFields
<1>4. ASSUME NEW dir, NEW user, Done1([build EXCEPT !.workdir = dir, !.fs = Mkdir(@, dir, user)])
      PROVE  AllInv'
  BY <1>0, <1>4, InstructionRight DEF BuildFields, Mkdir
<1>5. ASSUME NEW user, Done1([build EXCEPT !.user = user]) PROVE AllInv'
  BY <1>0, <1>5, InstructionRight DEF BuildFields
<1>6. ASSUME NEW run, NEW order,
             Done1([build EXCEPT !.runs = Append(@, run), !.orders = Append(@, order)])
      PROVE  AllInv'
  BY <1>0, <1>6, InstructionRight DEF BuildFields
<1>7. ASSUME NEW src, NEW dest, NEW fs,
             Done1([build EXCEPT !.fs = Placed(fs, src, dest, build.user)])
      PROVE  AllInv'
  BY <1>0, <1>7, InstructionRight DEF BuildFields, Placed
<1>8. CASE ExecArg
  BY <1>8, <1>2 DEF ExecArg
<1>9. CASE ExecEnv
  BY <1>9, <1>1, <1>3 DEF ExecEnv
<1>10. CASE ExecWorkdir
  BY <1>10, <1>1, <1>4 DEF ExecWorkdir
<1>11. CASE ExecUser
  BY <1>11, <1>5 DEF ExecUser
<1>12. CASE ExecRun
  BY <1>12, <1>1, <1>6 DEF ExecRun
<1>13. CASE ExecCopy
  BY <1>13, <1>1, <1>7 DEF ExecCopy
<1> QED
  BY <1>8, <1>9, <1>10, <1>11, <1>12, <1>13


LEMMA StopRight ==
    ASSUME AllInv, ExecDone \/ BuildStop \/ BuildStopped
    PROVE  AllInv'
<1>1. CASE ExecDone
  <2>1. /\ Step("stop") /\ UNCHANGED shared /\ UNCHANGED <<cage, image, temp>>
        /\ build.pc \in Late
    BY <1>1 DEF ExecDone, In, Late
  <2> QED
    BY <2>1, KnownLate, StepCarries, GoesOnLate DEF BuildSteps, Late
<1>2. CASE BuildStop
  <2>1. /\ Step("stopped") /\ UNCHANGED shared /\ UNCHANGED <<image, temp>>
        /\ build.pc \in Late
    BY <1>2 DEF BuildStop, In, Late
  <2>2. PICK alive \in BOOLEAN : TempCage([theTemp EXCEPT !.vm = alive])
    BY <1>2 DEF BuildStop
  <2> DEFINE r == [theTemp EXCEPT !.vm = alive]
  <2>3. MayBe(r) /\ There(r.on) /\ TempCage(r)
    BY <2>1, <2>2, MayBeRunning, KnownLate
  <2> HIDE DEF r
  <2> QED
    BY <2>1, <2>3, StepCarries, GoesOnLate DEF BuildSteps, Late
<1>3. CASE BuildStopped
  <2>1. /\ UNCHANGED shared /\ UNCHANGED <<image, temp>> /\ build.pc \in Late
    BY <1>3 DEF BuildStopped, In, Late
  <2>2. ASSUME NEW s \in {"stopped", theTemp.state, "torn"},
               TempCage([theTemp EXCEPT !.state = s]), Step("copy")
        PROVE  AllInv'
    <3> DEFINE r == [theTemp EXCEPT !.state = s]
    <3>0. s \in {"none", "torn", "stopped", "running"}
      BY <2>1, KnownLate DEF Cage
    <3>1. MayBe(r) /\ There(r.on) /\ TempCage(r)
      BY <2>1, <2>2, <3>0, MayBeState, KnownLate
    <3> HIDE DEF r
    <3> QED
      BY <2>1, <2>2, <3>1, StepCarries, GoesOnLate DEF BuildSteps, Late
  <2>3. CASE Fails /\ UNCHANGED cage
    BY <2>1, <2>3, FailsLate
  <2> QED
    BY <1>3, <2>2, <2>3 DEF BuildStopped
<1> QED
  BY <1>1, <1>2, <1>3

\* A step on the way from the copy to the ref: the layer is one, and rightly labelled.
LEMMA LayerGoesOn ==
    ASSUME AllInv, build.pc \in Late, NEW next \in {"digest", "ref"},
           NEW l \in Image, LayerRight(l), build' = [build EXCEPT !.pc = next, !.layer = l],
           UNCHANGED <<shared, cage, image, temp>>
    PROVE  AllInv'
<1>0. /\ UNCHANGED shared /\ UNCHANGED <<cage, image, temp>> /\ next \in BuildSteps
  BY DEF BuildSteps
<1>1. /\ DOMAIN build' = BuildFields /\ build'.pc = next
      /\ build'.call = build.call /\ build'.seen = build.seen /\ build'.layer = l
      /\ build'.end = build.end /\ DOMAIN build'.fs = Paths
  BY Known DEF BuildFields, AllInv, BuildTyped
<1>2. SeenArch(build'.seen, build'.call.arch)
  BY <1>1, KnownLate DEF In, AllInv, BaseInv, RestInv, LayersInv
<1>3. TempInv' /\ EndInv'
  BY <1>0, <1>1, KnownLate DEF TempInv, EndInv, In, Late, Whenever
<1>4. LayerRight(image') /\ image' \in Image \cup {NoImage} /\ LayerRight(build'.layer)
  BY <1>0, <1>1, KnownLate DEF LayerRight
<1>5. BaseInv'
  BY <1>0, <1>1, <1>2, <1>3, <1>4, KnownLate, BuildActs DEF AllInv
<1> QED
  BY <1>0, <1>1, <1>5 DEF AllInv, BuildTyped

LEMMA CopyRight ==
    ASSUME AllInv, BuildCopy
    PROVE  AllInv'
<1>0. /\ In("copy") /\ UNCHANGED <<shared, cage, image, temp>> /\ build.pc \in Late
  BY DEF BuildCopy, In, Late
<1>1. CASE build' = [build EXCEPT !.pc = "digest",
                                  !.layer = Copied("temp", build.call.arch, build.seen)]
  <2> DEFINE l == Copied("temp", build.call.arch, build.seen)
  <2>1. There(cage["temp"].on) /\ build.call.arch \in Arches
        /\ build.seen \in Content \cup {NoFile}
    BY <1>0, KnownLate DEF theTemp, AllInv, BuildTyped
  <2>2. l \in Image /\ l.seen = build.seen /\ l.arch = build.call.arch
    BY <2>1, CopiedIs DEF AllInv, BaseInv, CageNames
  <2>3. SeenArch(build.seen, build.call.arch)
    BY <1>0, KnownLate DEF In, AllInv, BaseInv, RestInv, LayersInv
  <2>4. build' = [build EXCEPT !.pc = "digest", !.layer = l]
    BY <1>1
  <2> HIDE DEF l
  <2> QED
    BY <1>0, <2>2, <2>3, <2>4, LayerGoesOn DEF LayerRight
<1>2. CASE Fails
  BY <1>0, <1>2, FailsLate
<1> QED
  BY <1>1, <1>2 DEF BuildCopy

LEMMA DigestRight ==
    ASSUME AllInv, BuildDigest
    PROVE  AllInv'
<1>0. /\ In("digest") /\ UNCHANGED <<shared, cage, image, temp>> /\ build.pc \in Late
  BY DEF BuildDigest, In, Late
<1>1. CASE build' = [build EXCEPT !.pc = "ref", !.layer = Hashed(@)]
  <2> DEFINE l == Hashed(build.layer)
  <2>1. build.layer \in Image /\ LayerRight(build.layer)
    BY <1>0, KnownLate DEF In, AllInv, BaseInv, RestInv, LayersInv
  <2>2. l \in Image /\ l.seen = build.layer.seen /\ l.arch = build.layer.arch
    BY <2>1, HashedIs DEF AllInv, BaseInv
  <2>3. build' = [build EXCEPT !.pc = "ref", !.layer = l]
    BY <1>1, Known DEF BuildFields
  <2> HIDE DEF l
  <2>4. LayerRight(l)
    BY <2>1, <2>2, NoLayer DEF LayerRight
  <2> QED
    BY <1>0, <2>2, <2>3, <2>4, LayerGoesOn
<1>2. CASE Fails
  BY <1>0, <1>2, FailsLate
<1> QED
  BY <1>1, <1>2 DEF BuildDigest

LEMMA RefRight ==
    ASSUME AllInv, BuildRef
    PROVE  AllInv'
<1>0. /\ In("ref") /\ UNCHANGED shared /\ UNCHANGED <<cage, temp>> /\ build.pc \in Late
  BY DEF BuildRef, In, Late
<1>1. CASE image' = build.layer /\ build' = [Ended("saved") EXCEPT !.pc = "clean"]
  <2>1. Drops("clean", "saved")
    BY <1>1, EndedIs DEF BuildSteps
  <2>2. TempInv' /\ EndInv'
    BY <2>1 DEF TempInv, EndInv, In, Drops, Late, Unmade, NoTemp
  <2>3. image' \in Image \cup {NoImage} /\ LayerRight(image')
    BY <1>0, <1>1, KnownLate DEF In, AllInv, BaseInv, RestInv, LayersInv, LayerRight
  <2>4. /\ MayBe(theTemp) /\ TempCage(theTemp)
        /\ temp'.dir \in BOOLEAN /\ temp'.keys \in KeysThere /\ temp'.dom \in BOOLEAN
    BY <1>0, KnownLate
  <2> QED
    BY <1>0, <2>1, <2>2, <2>3, <2>4, ComesToEnd
<1>2. CASE Fails /\ UNCHANGED image
  BY <1>0, <1>2, FailsLate
<1> QED
  BY <1>1, <1>2 DEF BuildRef

LEMMA CleanRight ==
    ASSUME AllInv, BuildClean
    PROVE  AllInv'
<1>0. /\ In("clean") /\ UNCHANGED shared /\ image' = image
      /\ image \in Image \cup {NoImage} /\ LayerRight(image)
      /\ build.end \in {"saved"} \cup Late
      /\ build.end \in Late => ~build.call.keep
  BY Known DEF BuildClean, AllInv, BaseInv, BaseTypeOK, RestInv, LayersInv, TempInv, In, Late
<1>i. image' \in Image \cup {NoImage} /\ LayerRight(image')
  BY <1>0 DEF LayerRight
<1>1. CASE DeleteState /\ temp' = NoTemp /\ Ends(build.end)
  <2>1. Drops("ended", build.end)
    BY <1>1, EndsDrops
  <2>2. TempCage(NoCage) /\ theTemp' = NoCage
    BY <1>1 DEF DeleteState, TempCage, SetCage, theTemp, AllInv, BaseInv, BaseTypeOK, CageNames
  <2>3. TempInv'
    BY <2>1 DEF TempInv, In, Drops, Late
  <2>4. EndInv'
    BY <1>0, <1>1, <2>1, <2>2 DEF EndInv, In, Drops, Late, Unmade, NoTemp
  <2>5. temp'.dir \in BOOLEAN /\ temp'.keys \in KeysThere /\ temp'.dom \in BOOLEAN
    BY <1>1 DEF NoTemp, KeysThere
  <2> QED
    BY <1>0, <1>i, <2>1, <2>2, <2>3, <2>4, <2>5, MayBeNoCage, ComesToEnd DEF Late, BuildSteps
<1>2. CASE /\ \E alive \in {FALSE, theTemp.vm} : TempCage([NoCage EXCEPT !.vm = alive])
           /\ temp' = [NoTemp EXCEPT !.dom = TRUE]
           /\ Ends("unclean")
  <2>0. theTemp.vm \in BOOLEAN
    BY DEF AllInv, BaseInv, BaseTypeOK, CageNames, theTemp, Cage
  <2>1. PICK r : MayBe(r) /\ TempCage(r)
    BY <1>2, <2>0, MayBeAlive
  <2>2. Drops("ended", "unclean")
    BY <1>2, EndsDrops
  <2>3. TempInv' /\ EndInv'
    BY <2>2 DEF TempInv, EndInv, In, Drops, Late, Unmade, NoTemp
  <2>4. temp'.dir \in BOOLEAN /\ temp'.keys \in KeysThere /\ temp'.dom \in BOOLEAN
    BY <1>2 DEF NoTemp, KeysThere
  <2> QED
    BY <1>0, <1>i, <2>1, <2>2, <2>3, <2>4, ComesToEnd
<1> QED
  BY <1>1, <1>2 DEF BuildClean

LEMMA KilledRight ==
    ASSUME AllInv, BuildKilled
    PROVE  AllInv'
<1>0. /\ UNCHANGED shared /\ UNCHANGED <<cage, image, temp>>
      /\ Drops("ended", "killed")
      /\ image \in Image \cup {NoImage} /\ LayerRight(image)
      /\ temp.dir \in BOOLEAN /\ temp.keys \in KeysThere /\ temp.dom \in BOOLEAN
  BY EndsDrops DEF BuildKilled, AllInv, BaseInv, BaseTypeOK, RestInv, LayersInv, BuildTyped
<1>1. MayBe(theTemp) /\ TempCage(theTemp)
  BY <1>0, MayBeSame DEF TempCage, SetCage
<1>2. TempInv' /\ EndInv'
  BY <1>0 DEF TempInv, EndInv, In, Drops, Late, Unmade, NoTemp
<1>3. /\ image' \in Image \cup {NoImage} /\ LayerRight(image')
      /\ temp'.dir \in BOOLEAN /\ temp'.keys \in KeysThere /\ temp'.dom \in BOOLEAN
  BY <1>0 DEF LayerRight
<1> QED
  BY <1>0, <1>1, <1>2, <1>3, ComesToEnd


-----------------------------------------------------------------------------
LEMMA BuildNextRight ==
    ASSUME AllInv, BuildNext
    PROVE  AllInv'
<1>1. CASE BuildProbe \/ BuildDir \/ BuildOverlay \/ BuildKeys \/ BuildISO \/ BuildDefine
  BY <1>1, ProbeRight, DirRight, OverlayRight, KeysRight, ISORight,
     DefineRight
<1>2. CASE BuildSave \/ BuildBoot \/ BuildMark \/ BuildSSH
  BY <1>2, SaveRight, BootRight, MarkRight, SSHRight
<1>3. CASE ExecArg \/ ExecEnv \/ ExecWorkdir \/ ExecUser \/ ExecRun \/ ExecCopy
  BY <1>3, ExecRight
<1>4. CASE ExecDone \/ BuildStop \/ BuildStopped
  BY <1>4, StopRight
<1>5. CASE BuildCopy \/ BuildDigest \/ BuildRef \/ BuildClean
  BY <1>5, CopyRight, DigestRight, RefRight, CleanRight
<1> QED
  BY <1>1, <1>2, <1>3, <1>4, <1>5 DEF BuildNext

\* The two ways of saying it.
LEMMA InvIs == BuildIInv <=> AllInv /\ more \in 0 .. MaxCommands
BY DEF BuildIInv, TypeOK, AllInv, BuildTyped, BaseInv, RestInv

LEMMA InitRight == Init => BuildIInv
<1> SUFFICES ASSUME Init PROVE BuildIInv
  OBVIOUS
<1>0. /\ build = NoBuild /\ temp = NoTemp /\ more = MaxCommands
      /\ tmp = NoFile /\ inplace \in BOOLEAN /\ proc = [p \in Procs |-> Idle]
      /\ image = NoImage /\ spoilt = FALSE
  BY DEF Init, BaseInit
<1> DEFINE Begun ==
          /\ img \in Content \cup {NoFile} /\ meta \in Arches \cup {"none", "torn"}
          /\ cage \in [CageNames -> Cage] /\ cage["temp"] = NoCage
          /\ cage["user"].state \in {"none", "stopped"}
          /\ cage["user"].state = "stopped" => There(cage["user"].on) /\ cage["user"].on = img
          /\ cage["user"].state = "none" => cage["user"] = NoCage
          /\ There(img) => Whole(img) /\ meta = img.arch
<1>1. Begun
  <2>1. CASE img = NoFile /\ meta = "none" /\ cage = [c \in CageNames |-> NoCage]
    BY <2>1, NoCageIs DEF CageNames, There
  <2>2. ASSUME NEW a \in Arches, NEW c \in {NoCage, [NoCage EXCEPT !.state = "stopped"]},
               img = [arch |-> a, by |-> Done, mixed |-> FALSE], meta = a,
               cage = [temp |-> NoCage,
                       user |-> IF c = NoCage THEN c ELSE [c EXCEPT !.on = img]]
        PROVE  Begun
    <3>1. img \in Content /\ img.by = Done /\ img.mixed = FALSE /\ img.arch = a
      BY <2>2 DEF Content
    <3>2. There(img) /\ Whole(img)
      BY <3>1, Files DEF Whole
    <3> DEFINE r == [[NoCage EXCEPT !.state = "stopped"] EXCEPT !.on = img]
    <3>3. r \in Cage /\ r.state = "stopped" /\ r.on = img
      BY <3>1 DEF NoCage, Cage
    <3> DEFINE u == IF c = NoCage THEN c ELSE [c EXCEPT !.on = img]
    <3>4. u \in {NoCage, r}
      BY <2>2
    <3>5. cage = [temp |-> NoCage, user |-> u]
      BY <2>2
    <3> HIDE DEF u
    <3>6. cage \in [CageNames -> {NoCage, r}] /\ cage["user"] = u /\ cage["temp"] = NoCage
      BY <3>4, <3>5 DEF CageNames
    <3> HIDE DEF r
    <3> QED
      BY <2>2, <3>1, <3>2, <3>3, <3>4, <3>6, NoCageIs
  <2> QED
    BY <2>1, <2>2 DEF Init, BaseInit
<1>2. BaseTypeOK
  BY <1>0, <1>1, IdleIs DEF BaseTypeOK
<1>3. FilesInv
  <2>1. FdOpen /\ LoadsAlone /\ \A p \in Procs : Loaded(p)
    BY <1>0, IdleIs DEF FdOpen, LoadsAlone, Loaded, Loading, At
  <2>2. BaseWhole
    BY <1>1 DEF BaseWhole
  <2>3. There(img) => img \in Content
    BY <1>1 DEF There
  <2>4. There(img) => BaseArch(meta) = img.arch
    BY <1>1, <2>3 DEF BaseArch, Content
  <2> QED
    BY <2>1, <2>2, <2>4 DEF FilesInv, MetaTruthful
<1>4. CagesInv
  BY <1>0, <1>1, IdleIs, NoCageIs DEF CagesInv, StartsAlone, Starting, UserStarts, BaseUnder,
     CageNames, Listed, There, At
<1>5. LayersInv
  BY <1>0, IdleIs, NoBuildIs DEF LayersInv, LayerRight, At
<1>6. BuildInv
  BY <1>0, <1>1, NoBuildIs DEF BuildInv, TempInv, EndInv, In, Late, theTemp
<1>7. BuildTyped
  BY <1>0, NoBuildIs DEF BuildTyped, BuildSteps, NoTemp, KeysThere
<1> QED
  BY <1>0, <1>2, <1>3, <1>4, <1>5, <1>6, <1>7, InvIs, CagefileBuildAssumption
     DEF AllInv, BaseInv, RestInv

LEMMA NextRight == BuildIInv /\ [Next]_vars => BuildIInv'
<1> SUFFICES ASSUME BuildIInv, [Next]_vars PROVE BuildIInv'
  OBVIOUS
<1>0. AllInv /\ more \in 0 .. MaxCommands /\ MaxCommands \in Nat
  BY InvIs, CagefileBuildAssumption
<1>m. ASSUME AllInv', more' \in 0 .. MaxCommands PROVE BuildIInv'
  BY <1>m DEF BuildIInv, TypeOK, AllInv, BuildTyped, BaseInv, RestInv
<1>1. ASSUME NEW call \in Builds, more > 1, BuildStart(call), more' = more - 2
      PROVE  BuildIInv'
  BY <1>0, <1>1, <1>m, StartsRight
<1>2. CASE BuildNext
  BY <1>0, <1>2, <1>m, BuildNextRight DEF BuildNext
<1>3. CASE BuildKilled /\ UNCHANGED more
  BY <1>0, <1>3, <1>m, KilledRight
<1>4. CASE OthersNext
  <2>1. UNCHANGED <<build, temp>>
    BY <1>4 DEF OthersNext
  <2>2. more' \in 0 .. MaxCommands
    BY <1>0, <1>4 DEF OthersNext
  <2>3. BaseInv'
    <3>1. CASE \E p \in Procs : ProcNext(p)
      BY <1>0, <2>1, <3>1, ProcKeeps DEF AllInv
    <3>2. CASE UserBoots \/ UserStops \/ UserRemoved \/ RefRemoved
      BY <1>0, <2>1, <3>2, UserKeeps, RefRemovedKeeps DEF AllInv
    <3> QED
      BY <1>4, <3>1, <3>2 DEF OthersNext
  <2> QED
    BY <1>0, <1>m, <2>1, <2>2, <2>3 DEF AllInv, BuildTyped
<1>5. CASE UNCHANGED vars
  <2>1. /\ UNCHANGED files /\ UNCHANGED <<inplace, proc, cage, image, build, temp, more>>
    BY <1>5 DEF vars, baseVars, files
  <2>2. FilesInv' /\ BaseTypeOK'
    BY <1>0, <2>1, FilesStay DEF AllInv, BaseInv, BaseTypeOK, files
  <2>3. CagesInv'
    BY <1>0, <2>1 DEF AllInv, BaseInv, RestInv, CagesInv, StartsAlone, Starting, UserStarts,
       BaseUnder, Listed, At, files
  <2>4. LayersInv'
    BY <1>0, <2>1, LayersStay DEF AllInv, BaseInv, RestInv, LayersInv, LayerRight, files
  <2>5. BuildInv'
    BY <1>0, <2>1, BuildKeeps DEF AllInv, BaseInv, RestInv, theTemp
  <2> QED
    BY <1>0, <1>m, <2>1, <2>2, <2>3, <2>4, <2>5 DEF AllInv, BaseInv, RestInv, BuildTyped
<1> QED
  BY <1>1, <1>2, <1>3, <1>4, <1>5 DEF Next

LEMMA Always == Spec => []BuildIInv
BY InitRight, NextRight, PTL DEF Spec

-----------------------------------------------------------------------------
(***************************************************************************)
(* Every command and the build keep to the records and the steps they are  *)
(* said to have, whatever fails and whoever else works on the same files.  *)
(***************************************************************************)
THEOREM TypeCorrect == Spec => []TypeOK
<1>1. BuildIInv => TypeOK
  BY DEF BuildIInv
<1> QED
  BY <1>1, Always, PTL

(***************************************************************************)
(* An image that IsDownloaded finds is whole, however many downloads,      *)
(* removals and kills there were: unless it is being converted in place,   *)
(* or two commands met, or one was cut short there (images.Download).      *)
(***************************************************************************)
THEOREM BaseIsWhole == Spec => []BaseWhole
<1>1. BuildIInv => BaseWhole
  BY DEF BuildIInv, FilesInv
<1> QED
  BY <1>1, Always, PTL

(***************************************************************************)
(* BaseArch, which reads the metadata, tells the architecture of the image *)
(* that is there, between downloads that run alone.                        *)
(***************************************************************************)
THEOREM MetadataTell == Spec => []MetaTruthful
<1>1. BuildIInv => MetaTruthful
  BY DEF BuildIInv, FilesInv
<1> QED
  BY <1>1, Always, PTL

(***************************************************************************)
(* The architecture in the manifest of a saved image, a build's or a       *)
(* cage's, is that of the base under its layer, if the overlay was made on *)
(* the base that was looked at (SaveLayered).                              *)
(***************************************************************************)
THEOREM ArchRecorded == Spec => []ImageArch
<1>1. BuildIInv => ImageArch
  <2> SUFFICES ASSUME BuildIInv, image # NoImage, ~spoilt, image.on = image.seen
               PROVE  image.arch = image.on.arch
    BY DEF ImageArch
  <2>1. image \in Image /\ LayerRight(image)
    BY DEF BuildIInv, TypeOK, BaseTypeOK, LayersInv
  <2>2. There(image.on)
    BY <2>1, Files DEF Image
  <2> QED
    BY <2>1, <2>2 DEF LayerRight, SeenArch
<1> QED
  BY <1>1, Always, PTL

(***************************************************************************)
(* A build that ends by itself, and was not told to keep its temporary     *)
(* cage, leaves neither domain nor disk nor VM of it, unless the state of  *)
(* the domain just defined could not be saved or the cleanup failed; a     *)
(* directory only then and when there should have been two, keys only then *)
(* and when they or the cloud-init image could not be made.                *)
(***************************************************************************)
THEOREM NothingIsLeft == Spec => []BuildLeavesNothing
<1>1. BuildIInv => BuildLeavesNothing
  <2> SUFFICES ASSUME BuildIInv, In("ended"), build.end \notin {"killed", "unclean"}, ~Kept
               PROVE  /\ build.end # "save" => theTemp = NoCage /\ ~temp.dom
                      /\ temp.dir => build.end \in {"dir", "save"}
                      /\ temp.keys # "none" => build.end \in {"keys", "iso", "save"}
    BY DEF BuildLeavesNothing
  <2>1. EndInv
    BY DEF BuildIInv, BuildInv
  <2>2. CASE build.end \in Late
    <3>1. ~build.call.keep
      BY <2>2 DEF Kept, Creating, Late
    <3>2. theTemp = NoCage /\ temp = NoTemp
      BY <2>1, <2>2, <3>1 DEF EndInv
    <3> QED
      BY <3>2 DEF NoTemp
  <2>3. CASE build.end \in Unmade \cup {"saved"}
    BY <2>1, <2>3 DEF EndInv, Unmade
  <2>4. CASE build.end = "save"
    BY <2>4
  <2> QED
    BY <2>1, <2>2, <2>3, <2>4 DEF EndInv, Unmade
<1> QED
  BY <1>1, Always, PTL

(***************************************************************************)
(* With --keep-on-error or --interactive, a build that fails once its cage *)
(* is there leaves domain, keys and disk, and the VM running if it failed  *)
(* at an instruction.                                                      *)
(***************************************************************************)
THEOREM FailureIsKept == Spec => []KeptForDebugging
<1>1. BuildIInv => KeptForDebugging
  <2> SUFFICES ASSUME BuildIInv, In("ended"), build.end \in BuildSteps \ Creating,
                      build.call.keep
               PROVE  /\ temp.dir /\ temp.dom /\ temp.keys = "pair" /\ There(theTemp.on)
                      /\ build.end \in {"ssh", "run"} => theTemp.vm
    BY DEF KeptForDebugging
  <2>1. build.end \in Late
    BY DEF BuildIInv, BuildInv, EndInv, Creating, BuildSteps, Late
  <2>2. /\ Whenever(TRUE, "pair", TRUE) /\ There(theTemp.on)
        /\ build.end \in {"ssh", "run"} => theTemp.vm
    BY <2>1 DEF BuildIInv, BuildInv, EndInv
  <2> QED
    BY <2>2 DEF Whenever
<1> QED
  BY <1>1, Always, PTL

-----------------------------------------------------------------------------
(***************************************************************************)
(* Sequences of texts flattened. The induction theorems of the library     *)
(* take an operator as a parameter, which the provers cannot instantiate:  *)
(* induction is on sets of numbers instead, by WFMin.                      *)
(***************************************************************************)
\* Flattening nothing, and induction over the numbers: the least number outside T
\* is not 0 and not the successor of one inside.
LEMMA FlatEmpty == Flat(<<>>) = <<>>
BY DEF Flat, FlattenSeq

LEMMA Induction ==
    ASSUME NEW T \in SUBSET Nat, 0 \in T, \A n \in T : n + 1 \in T
    PROVE  T = Nat
<1> SUFFICES ASSUME Nat \ T # {} PROVE FALSE
  OBVIOUS
<1> DEFINE R == {ss \in Nat \X Nat : ss[1] < ss[2]}
<1>1. Numbers!IsWellFoundedOn(R, Nat)
  BY Numbers!NatLessThanWellFounded DEF Numbers!OpToRel
<1> DEFINE S == Nat \ T
<1> HIDE DEF R, S
<1>2. S \subseteq Nat /\ S # {}
  BY DEF S
<1>3. PICK m \in S : \A n \in S : ~(<<n, m>> \in R)
  BY <1>1, <1>2, Numbers!WFMin
<1>4. m \in Nat /\ m # 0 /\ m - 1 \in Nat /\ m - 1 < m /\ (m - 1) + 1 = m /\ m \notin T
  BY DEF S
<1>5. m - 1 \in S
  BY <1>4 DEF S
<1>6. <<m - 1, m>> \in R
  BY <1>4 DEF R
<1> QED
  BY <1>3, <1>5, <1>6

\* f starts with s0 and goes on by F, which is given the step and the last value.
Follows(f, s0, F, N) == f[0] = s0 /\ \A n \in 1 .. N : f[n] = F[n][f[n - 1]]

LEMMA Recursion ==
    ASSUME NEW N \in Nat, NEW S, NEW s0 \in S, NEW F \in [1 .. N -> [S -> S]]
    PROVE  \E f \in [0 .. N -> S] : Follows(f, s0, F, N)
<1> DEFINE T == {m \in Nat : m <= N => \E f \in [0 .. m -> S] : Follows(f, s0, F, m)}
<1>1. 0 \in T
  <2>1. [n \in 0 .. 0 |-> s0] \in [0 .. 0 -> S] /\ Follows([n \in 0 .. 0 |-> s0], s0, F, 0)
    BY DEF Follows
  <2> QED
    BY <2>1
<1>2. ASSUME NEW m \in T
      PROVE  m + 1 \in T
  <2> SUFFICES ASSUME m + 1 <= N
               PROVE  \E f \in [0 .. m + 1 -> S] : Follows(f, s0, F, m + 1)
    BY <1>2
  <2>1. PICK f \in [0 .. m -> S] : Follows(f, s0, F, m)
    BY <1>2
  <2> DEFINE g == [n \in 0 .. m + 1 |-> IF n <= m THEN f[n] ELSE F[m + 1][f[m]]]
  <2>2. m \in Nat /\ m + 1 \in 1 .. N /\ f[m] \in S
    BY <1>2
  <2>3. g \in [0 .. m + 1 -> S]
    BY <2>2
  <2>4. /\ \A n \in 0 .. m : g[n] = f[n]
        /\ g[m + 1] = F[m + 1][f[m]]
    BY <2>2
  <2> HIDE DEF g
  <2>5. ASSUME NEW n \in 1 .. m + 1
        PROVE  g[n] = F[n][g[n - 1]]
    <3>1. CASE n <= m
      BY <3>1, <2>1, <2>2, <2>4 DEF Follows
    <3>2. CASE n = m + 1
      <4>1. n - 1 = m /\ m \in 0 .. m
        BY <3>2, <2>2
      <4>2. g[m] = f[m]
        BY <4>1, <2>4
      <4> QED
        BY <3>2, <4>1, <4>2, <2>4
    <3> QED
      BY <3>1, <3>2, <2>2
  <2>6. Follows(g, s0, F, m + 1)
    BY <2>1, <2>2, <2>4, <2>5 DEF Follows
  <2> QED
    BY <2>3, <2>6
<1>3. T = Nat
  <2> HIDE DEF T
  <2>1. T \in SUBSET Nat
    BY DEF T
  <2> QED
    BY <1>1, <1>2, <2>1, Induction
<1> QED
  BY <1>3

LEMMA One == 1 - 1 = 0
OBVIOUS

\* f[n] is the first n elements of s flattened.
Flattens(f, s) == f[0] = <<>> /\ \A n \in 1 .. Len(s) : f[n] = f[n - 1] \o s[n]

\* Flat of a sequence of texts goes through them one by one.
LEMMA Flattening ==
    ASSUME NEW E, NEW s \in Seq(Seq(E))
    PROVE  \E f \in [0 .. Len(s) -> Seq(E)] : Flattens(f, s) /\ Flat(s) = f[Len(s)]
<1> DEFINE N == Len(s)
           F == [n \in 1 .. N |-> [x \in Seq(E) |-> x \o s[n]]]
<1>1. N \in Nat /\ \A n \in 1 .. N : s[n] \in Seq(E)
  OBVIOUS
<1>2. \A n \in 1 .. N, x \in Seq(E) : F[n][x] = x \o s[n] /\ F[n][x] \in Seq(E)
  BY <1>1
<1>3. <<>> \in Seq(E)
  OBVIOUS
<1> HIDE DEF F, N
<1>4. PICK f \in [0 .. N -> Seq(E)] : Follows(f, <<>>, F, N)
  <2>1. F \in [1 .. N -> [Seq(E) -> Seq(E)]]
    BY <1>1 DEF F
  <2> QED
    BY <2>1, <1>1, <1>3, Recursion
<1>5. ASSUME NEW n \in 1 .. N
      PROVE  f[n - 1] \in Seq(E) /\ f[n] = f[n - 1] \o s[n]
  <2>1. n - 1 \in 0 .. N
    BY <1>1
  <2>2. f[n - 1] \in Seq(E)
    BY <2>1, <1>4
  <2> QED
    BY <2>2, <1>2, <1>4 DEF Follows
<1>0. f[0] = <<>>
  BY <1>4 DEF Follows
<1>6. Flat(s) = f[N]
  <2>1. CASE N = 0
    BY <2>1, <1>0 DEF Flat, FlattenSeq, N
  <2>2. CASE N # 0
    <3> DEFINE Is(g) == g = [i \in 1 .. N |-> IF i = 1 THEN s[i] ELSE g[i - 1] \o s[i]]
               g0 == [i \in 1 .. N |-> f[i]]
               g == CHOOSE h : Is(h)
    <3>1. Is(g0)
      <4>1. ASSUME NEW i \in 1 .. N
            PROVE  f[i] = IF i = 1 THEN s[i] ELSE g0[i - 1] \o s[i]
        <5>1. CASE i = 1
          <6>1. f[1] = f[0] \o s[1]
            BY <5>1, <1>5, One
          <6> QED
            BY <5>1, <6>1, <1>1, <1>0
        <5>2. CASE i # 1
          <6>1. i - 1 \in 1 .. N
            BY <5>2, <1>1
          <6> QED
            BY <5>2, <6>1, <1>5
        <5> QED
          BY <5>1, <5>2
      <4> QED
        BY <4>1
    <3>2. Is(g)
      <4> HIDE DEF Is, g0
      <4>1. \E h : Is(h)
        BY <3>1
      <4> QED
        BY <4>1
    <3> HIDE DEF g
    <3>3. g = [i \in 1 .. N |-> IF i = 1 THEN s[i] ELSE g[i - 1] \o s[i]]
      BY <3>2
    <3> DEFINE T == {m \in Nat : m + 1 <= N => g[m + 1] = f[m + 1]}
    <3>4. 0 \in T
      <4>1. 1 \in 1 .. N /\ 0 + 1 = 1
        BY <2>2, <1>1
      <4>2. g[1] = s[1]
        BY <4>1, <3>3
      <4>3. f[1] = f[0] \o s[1]
        BY <4>1, <1>5, One
      <4>4. f[1] = s[1]
        BY <4>1, <4>3, <1>1, <1>0
      <4> QED
        BY <4>1, <4>2, <4>4
    <3>5. ASSUME NEW m \in T
          PROVE  m + 1 \in T
      <4> SUFFICES ASSUME (m + 1) + 1 <= N
                   PROVE  g[(m + 1) + 1] = f[(m + 1) + 1]
        BY <3>5
      <4> DEFINE i == (m + 1) + 1
      <4>1. i \in 1 .. N /\ i # 1 /\ i - 1 = m + 1 /\ m + 1 <= N
        BY <3>5, <1>1
      <4>2. g[m + 1] = f[m + 1]
        BY <3>5, <4>1
      <4> HIDE DEF i
      <4>3. g[i] = g[i - 1] \o s[i]
        BY <3>3, <4>1
      <4>4. g[i] = f[i]
        BY <4>1, <4>2, <4>3, <1>5
      <4> QED
        BY <4>4 DEF i
    <3>6. T = Nat
      <4> HIDE DEF T
      <4>1. T \in SUBSET Nat
        BY DEF T
      <4> QED
        BY <3>4, <3>5, <4>1, Induction
    <3>7. g[N] = f[N]
      <4>1. N - 1 \in Nat /\ (N - 1) + 1 = N /\ N <= N
        BY <2>2, <1>1
      <4>2. N - 1 \in T
        BY <3>6, <4>1
      <4> QED
        BY <4>1, <4>2
    <3>8. Flat(s) = g[N]
      BY <2>2, <3>2 DEF Flat, FlattenSeq, g, N
    <3> QED
      BY <3>7, <3>8
  <2> QED
    BY <2>1, <2>2
<1> QED
  BY <1>0, <1>5, <1>6 DEF N, Flattens

\* One text more, and one sequence of texts after another.
LEMMA FlatAppend ==
    ASSUME NEW E, NEW s \in Seq(Seq(E)), NEW x \in Seq(E)
    PROVE  /\ Flat(s) \in Seq(E) /\ Flat(Append(s, x)) \in Seq(E)
           /\ Flat(Append(s, x)) = Flat(s) \o x
<1> DEFINE t == Append(s, x)
           N == Len(s)
<1>1. /\ t \in Seq(Seq(E)) /\ Len(t) = N + 1 /\ N \in Nat
      /\ \A n \in 1 .. N : t[n] = s[n]
      /\ t[N + 1] = x
  BY AppendProperties
<1> HIDE DEF t
<1>2. PICK f \in [0 .. N -> Seq(E)] : Flattens(f, s) /\ Flat(s) = f[N]
  BY Flattening
<1>3. PICK h \in [0 .. N + 1 -> Seq(E)] : Flattens(h, t) /\ Flat(t) = h[N + 1]
  <2>1. \E h \in [0 .. Len(t) -> Seq(E)] : Flattens(h, t) /\ Flat(t) = h[Len(t)]
    BY <1>1, Flattening
  <2> QED
    BY <2>1, <1>1
<1> DEFINE T == {n \in Nat : n <= N => h[n] = f[n]}
<1>4. 0 \in T
  BY <1>2, <1>3 DEF Flattens
<1>5. ASSUME NEW n \in T
      PROVE  n + 1 \in T
  <2> SUFFICES ASSUME n + 1 <= N
               PROVE  h[n + 1] = f[n + 1]
    BY <1>5
  <2> DEFINE m == n + 1
  <2>1. m \in 1 .. N /\ m \in 1 .. N + 1 /\ m - 1 = n /\ h[n] = f[n]
    BY <1>1, <1>5
  <2> HIDE DEF m
  <2>2. h[m] = h[m - 1] \o t[m] /\ f[m] = f[m - 1] \o s[m] /\ t[m] = s[m]
    BY <2>1, <1>1, <1>2, <1>3 DEF Flattens
  <2>3. h[m] = f[m]
    BY <2>1, <2>2
  <2> QED
    BY <2>3 DEF m
<1>6. T = Nat
  <2> HIDE DEF T
  <2>1. T \in SUBSET Nat
    BY DEF T
  <2> QED
    BY <1>4, <1>5, <2>1, Induction
<1>7. h[N] = f[N]
  <2>1. N \in T /\ N <= N
    <3> HIDE DEF T
    <3> QED
      BY <1>1, <1>6
  <2> QED
    BY <2>1
<1>8. h[N + 1] = h[N] \o x
  <2> DEFINE M == N + 1
  <2>1. M - 1 = N /\ M \in 1 .. Len(t)
    BY <1>1
  <2> HIDE DEF M
  <2>2. h[M] = h[M - 1] \o t[M]
    BY <2>1, <1>3 DEF Flattens
  <2> QED
    BY <2>1, <2>2, <1>1 DEF M
<1>9. N \in 0 .. N /\ N + 1 \in 0 .. N + 1
  BY <1>1
<1> QED
  BY <1>2, <1>3, <1>7, <1>8, <1>9 DEF t

LEMMA FlatConcat ==
    ASSUME NEW E, NEW s \in Seq(Seq(E))
    PROVE  \A t \in Seq(Seq(E)) : Flat(s \o t) = Flat(s) \o Flat(t)
<1> DEFINE T == {n \in Nat : \A t \in Seq(Seq(E)) : Len(t) = n => Flat(s \o t) = Flat(s) \o Flat(t)}
<1>0. <<>> \in Seq(E) /\ Flat(s) \in Seq(E)
  BY FlatAppend
<1>1. 0 \in T
  <2>1. ASSUME NEW t \in Seq(Seq(E)), Len(t) = 0
        PROVE  Flat(s \o t) = Flat(s) \o Flat(t)
    <3>1. t = <<>>
      BY <2>1
    <3>2. s \o t = s /\ Flat(s) \o <<>> = Flat(s)
      BY <3>1, <1>0, ConcatEmptySeq
    <3> QED
      BY <3>1, <3>2, FlatEmpty
  <2> QED
    BY <2>1
<1>2. ASSUME NEW n \in T
      PROVE  n + 1 \in T
  <2>1. ASSUME NEW t \in Seq(Seq(E)), Len(t) = n + 1
        PROVE  Flat(s \o t) = Flat(s) \o Flat(t)
    <3>1. PICK u \in Seq(Seq(E)), x \in Seq(E) : t = Append(u, x)
      <4>1. t # <<>>
        BY <2>1, <1>2
      <4> QED
        BY <4>1, SequenceEmptyOrAppend
    <3>2. Len(u) = n
      BY <2>1, <3>1, <1>2
    <3>3. Flat(s \o u) = Flat(s) \o Flat(u)
      BY <3>2, <1>2
    <3>4. s \o u \in Seq(Seq(E)) /\ s \o t = Append(s \o u, x)
      BY <3>1
    <3>5. Flat(s \o t) = Flat(s \o u) \o x
      BY <3>4, FlatAppend
    <3>6. Flat(t) = Flat(u) \o x /\ Flat(u) \in Seq(E)
      BY <3>1, FlatAppend
    <3>7. (Flat(s) \o Flat(u)) \o x = Flat(s) \o (Flat(u) \o x)
      <4> HIDE DEF T
      <4> QED
        BY <1>0, <3>6, ConcatAssociative
    <3> QED
      BY <3>3, <3>5, <3>6, <3>7
  <2> QED
    BY <2>1, <1>2
<1>3. T = Nat
  <2> HIDE DEF T
  <2>1. T \in SUBSET Nat
    BY DEF T
  <2> QED
    BY <1>1, <1>2, <2>1, Induction
<1> SUFFICES ASSUME NEW t \in Seq(Seq(E))
             PROVE  Flat(s \o t) = Flat(s) \o Flat(t)
  OBVIOUS
<1>4. Len(t) \in T
  BY <1>3
<1> QED
  BY <1>4

-----------------------------------------------------------------------------
(***************************************************************************)
(* The parser: what it makes of lines over some tokens is over them.       *)
(***************************************************************************)
\* The tokens E have the blank; the lines are over them.
HasBlank(E) == " " \in E
Over(lines, E) ==
    /\ IsSeq(lines) /\ HasBlank(E)
    /\ \A n \in DOMAIN lines : lines[n].text \in Seq(E) /\ lines[n].cont \in BOOLEAN

\* What parseLine makes of a text over E, and the states of a parser of such texts.
Parsed(E) == {parseLine(t)[1] : t \in {u \in Seq(E) : parseLine(u) # <<>>}}
ParserStates(E) == [buf : Seq(E), out : Seq(Parsed(E)), ok : BOOLEAN]

LEMMA ConcatAt ==
    ASSUME NEW E, NEW u \in Seq(E), NEW v \in Seq(E), NEW i \in 1 .. Len(u) + Len(v)
    PROVE  (u \o v)[i] = IF i <= Len(u) THEN u[i] ELSE v[i - Len(u)]
BY ConcatProperties

\* A sequence is its first two elements and the rest.
LEMMA Prefixed ==
    ASSUME NEW E, NEW t \in Seq(E), NEW v \in Seq(E), NEW a, NEW b,
           Len(v) = Len(t) - 2, t[1] = a, t[2] = b, a \in E, b \in E,
           \A i \in 1 .. Len(t) - 2 : v[i] = t[i + 2]
    PROVE  t = <<a, b>> \o v
<1>0. Len(t) \in Nat /\ Len(v) \in Nat
  OBVIOUS
<1> DEFINE u == <<a, b>>
<1>1. u \in Seq(E) /\ Len(u) = 2 /\ u[1] = a /\ u[2] = b
  OBVIOUS
<1> HIDE DEF u
<1>2. u \o v \in Seq(E) /\ Len(u \o v) = Len(u) + Len(v)
  BY <1>1, ConcatProperties, Zenon
<1>3. ASSUME NEW i \in 1 .. Len(u) + Len(v)
      PROVE  (u \o v)[i] = IF i <= Len(u) THEN u[i] ELSE v[i - Len(u)]
  BY <1>1, ConcatAt, Zenon
<1>4. Len(t) = Len(u) + Len(v)
  BY <1>0, <1>1
<1>5. ASSUME NEW i \in 1 .. Len(t)
      PROVE  t[i] = (u \o v)[i]
  <2>1. (u \o v)[i] = IF i <= 2 THEN u[i] ELSE v[i - 2]
    BY <1>1, <1>3, <1>4
  <2>2. CASE i = 1
    BY <2>2, <2>1, <1>1
  <2>3. CASE i = 2
    BY <2>3, <2>1, <1>1
  <2>4. CASE i # 1 /\ i # 2
    <3>1. i - 2 \in 1 .. Len(t) - 2 /\ (i - 2) + 2 = i /\ ~(i <= 2)
      BY <2>4, <1>0
    <3>2. v[i - 2] = t[(i - 2) + 2]
      BY <3>1
    <3> QED
      BY <3>1, <3>2, <2>1
  <2> QED
    BY <2>2, <2>3, <2>4
<1>6. t = u \o v
  BY <1>2, <1>4, <1>5, SeqEqual
<1> QED
  BY <1>6 DEF u

\* parseLine keeps the text it is given: its first word, and the rest.
LEMMA ParsedLine ==
    ASSUME NEW E, NEW t \in Seq(E), parseLine(t) # <<>>
    PROVE  LET ins == parseLine(t)[1] IN
           /\ parseLine(t) = <<ins>> /\ ins \in Parsed(E)
           /\ ins.type # " " /\ ins.value \in Seq(E) /\ ins.value # <<>>
           /\ t = <<ins.type, " ">> \o ins.value /\ ins.type \in E
<1> DEFINE value == SubSeq(t, 3, Len(t))
           type == Head(t)
           ins == parseLine(t)[1]
<1>1. PICK a : parseLine(t) = <<Instruction(type, value, a)>> /\ value # <<>> /\ t[2] = " "
               /\ type \in {"FROM", "RUN", "ENV", "ARG", "WORKDIR", "USER", "COPY"}
  BY DEF parseLine
<1>2. ins = Instruction(type, value, a)
  <2>1. \A x : <<x>>[1] = x
    OBVIOUS
  <2> HIDE DEF type, value
  <2> QED
    BY <1>1, <2>1, Zenon
<1>3. ins \in Parsed(E)
  BY DEF Parsed
<1> HIDE DEF ins
<1>4. ins.type = type /\ ins.value = value /\ parseLine(t) = <<ins>>
  BY <1>1, <1>2 DEF Instruction
<1>0. Len(t) \in Nat /\ t \in [1 .. Len(t) -> E]
  OBVIOUS
<1>5. Len(t) >= 3
  <2> SUFFICES ASSUME Len(t) < 3 PROVE FALSE
    BY <1>0
  <2>1. value = <<>>
    BY <1>0, SubSeqEmpty
  <2> QED
    BY <2>1, <1>1
<1>6. /\ value \in Seq(E) /\ Len(value) = Len(t) - 2
      /\ \A i \in 1 .. Len(t) - 2 : value[i] = t[i + 2]
  <2>1. \A i \in 3 .. Len(t) : t[i] \in E
    BY <1>0
  <2>2. /\ value \in Seq(E) /\ Len(value) = Len(t) - 3 + 1
        /\ \A i \in 1 .. Len(t) - 3 + 1 : value[i] = t[3 + i - 1]
    BY <2>1, <1>0, <1>5, SubSeqProperties
  <2> HIDE DEF value
  <2>3. Len(t) - 3 + 1 = Len(t) - 2 /\ \A i \in 1 .. Len(t) - 2 : 3 + i - 1 = i + 2
    BY <1>0
  <2> QED
    BY <2>2, <2>3
<1>8. type = t[1] /\ type \in E /\ t[2] \in E
  BY <1>0, <1>5
<1>7. t = <<type, " ">> \o value
  <2> HIDE DEF value, type
  <2>1. t[1] = type /\ t[2] = " " /\ type \in E /\ " " \in E
    BY <1>1, <1>8
  <2>2. value \in Seq(E) /\ Len(value) = Len(t) - 2
    BY <1>6
  <2>3. \A i \in 1 .. Len(t) - 2 : value[i] = t[i + 2]
    BY <1>6
  <2> QED
    BY <2>1, <2>2, <2>3, Prefixed
<1> QED
  BY <1>1, <1>3, <1>4, <1>6, <1>7, <1>8 DEF ins

\* Texts of one token, and what texts are as functions.
LEMMA Single ==
    ASSUME NEW E, NEW x \in E
    PROVE  <<x>> \in Seq(E)
OBVIOUS

LEMMA SeqDomain ==
    ASSUME NEW E, NEW s \in Seq(E)
    PROVE  Len(s) \in Nat /\ DOMAIN s = 1 .. Len(s)
OBVIOUS

\* A set of sequences has what its elements are made of.
LEMMA ParsedIs ==
    ASSUME NEW E, NEW ins \in Parsed(E)
    PROVE  \E t \in Seq(E) : parseLine(t) = <<ins>>
<1>1. PICK t \in Seq(E) : parseLine(t) # <<>> /\ ins = parseLine(t)[1]
  BY DEF Parsed
<1>2. parseLine(t) = <<ins>>
  BY <1>1, ParsedLine
<1> QED
  BY <1>2

\* The fields of what parseLine yields.
LEMMA ParsedFields ==
    ASSUME NEW E, NEW ins \in Parsed(E)
    PROVE  ins.type # " " /\ ins.value \in Seq(E) /\ ins.type \in E
<1>1. PICK t \in Seq(E) : parseLine(t) = <<ins>>
  BY ParsedIs
<1>2. parseLine(t) # <<>> /\ parseLine(t)[1] = ins
  BY <1>1
<1> QED
  BY <1>2, ParsedLine

LEMMA ParseLineTyped ==
    ASSUME NEW E, NEW t \in Seq(E)
    PROVE  \/ parseLine(t) = <<>>
           \/ parseLine(t) = <<parseLine(t)[1]>> /\ parseLine(t)[1] \in Parsed(E)
BY ParsedLine

\* The parser keeps to the tokens of its lines: joining, emitting, one line.
LEMMA JoinedTyped ==
    ASSUME NEW E, HasBlank(E), NEW b \in Seq(E), NEW t \in Seq(E)
    PROVE  Joined(b, t) \in Seq(E)
<1>1. <<" ">> \in Seq(E)
  BY Single DEF HasBlank
<1> DEFINE blank == <<" ">>
<1> HIDE DEF blank
<1>2. b \o blank \in Seq(E) /\ (b \o blank) \o t \in Seq(E)
  BY <1>1, ConcatProperties DEF blank
<1> QED
  BY <1>2 DEF Joined, blank

LEMMA EmitTyped ==
    ASSUME NEW E, NEW s \in ParserStates(E), NEW t \in Seq(E)
    PROVE  /\ Emit(s, t) \in ParserStates(E)
           /\ Emit(s, t).buf = <<>>
           /\ Emit(s, t).ok <=> parseLine(t) # <<>>
           /\ Emit(s, t).out = s.out \o parseLine(t)
<1>1. s.out \in Seq(Parsed(E))
  BY DEF ParserStates
<1>2. parseLine(t) \in Seq(Parsed(E))
  <2>1. CASE parseLine(t) = <<>>
    BY <2>1, EmptySeq
  <2>2. CASE parseLine(t) = <<parseLine(t)[1]>> /\ parseLine(t)[1] \in Parsed(E)
    BY <2>2, Single, Zenon
  <2> QED
    BY <2>1, <2>2, ParseLineTyped
<1>3. s.out \o parseLine(t) \in Seq(Parsed(E))
  BY <1>1, <1>2
<1>4. <<>> \in Seq(E)
  OBVIOUS
<1> QED
  BY <1>3, <1>4 DEF Emit, ParserStates

LEMMA LineTyped ==
    ASSUME NEW E, HasBlank(E), NEW s \in ParserStates(E), NEW line,
           line.text \in Seq(E)
    PROVE  ParseLine(s, line) \in ParserStates(E)
<1>1. s.buf \in Seq(E)
  BY DEF ParserStates
<1>2. Joined(s.buf, line.text) \in Seq(E)
  BY <1>1, JoinedTyped
<1>3. Emit(s, Joined(s.buf, line.text)) \in ParserStates(E)
  BY <1>2, EmitTyped
<1>4. [s EXCEPT !.buf = Joined(@, line.text)] \in ParserStates(E)
  BY <1>2 DEF ParserStates
<1> QED
  BY <1>3, <1>4 DEF ParseLine

\* The parser goes from line to line, its states well-formed.
LEMMA ReadingIs ==
    ASSUME NEW E, NEW lines, Over(lines, E)
    PROVE  LET r == Reading(lines) IN
           /\ Len(lines) \in Nat /\ DOMAIN lines = 1 .. Len(lines)
           /\ \A n \in 0 .. Len(lines) : r[n] \in ParserStates(E)
           /\ r[0] = Parsing
           /\ \A n \in 1 .. Len(lines) : r[n] = ParseLine(r[n - 1], lines[n])
<1> DEFINE N == Len(lines)
           S == ParserStates(E)
           F == [n \in 1 .. N |-> [s \in S |-> ParseLine(s, lines[n])]]
<1>1. N \in Nat /\ DOMAIN lines = 1 .. N
  BY SeqDomain DEF Over, IsSeq
<1>2. ASSUME NEW n \in 1 .. N, NEW s \in S
      PROVE  ParseLine(s, lines[n]) \in S
  BY <1>1, LineTyped DEF Over
<1>3. F \in [1 .. N -> [S -> S]]
  <2> HIDE DEF N, S
  <2> QED
    BY <1>2
<1>4. Parsing \in S
  BY DEF Parsing, ParserStates
<1>5. PICK f \in [0 .. N -> S] : Follows(f, Parsing, F, N)
  <2> HIDE DEF N, S, F
  <2> QED
    BY <1>1, <1>3, <1>4, Recursion
<1> DEFINE Is(g) == g = [n \in 0 .. N |-> IF n = 0 THEN Parsing ELSE ParseLine(g[n - 1], lines[n])]
<1>6. ASSUME NEW n \in 1 .. N
      PROVE  n - 1 \in 0 .. N /\ f[n - 1] \in S /\ f[n] = ParseLine(f[n - 1], lines[n])
  <2> HIDE DEF N, S
  <2>1. n - 1 \in 0 .. N
    BY <1>1
  <2>2. f[n - 1] \in S
    BY <2>1
  <2>3. f[n] = F[n][f[n - 1]]
    BY <1>5 DEF Follows
  <2> QED
    BY <2>1, <2>2, <2>3
<1>7. f[0] = Parsing
  BY <1>5 DEF Follows
<1>8. Is(f)
  <2> HIDE DEF N, S, F
  <2>1. ASSUME NEW n \in 0 .. N
        PROVE  f[n] = IF n = 0 THEN Parsing ELSE ParseLine(f[n - 1], lines[n])
    <3>1. n = 0 \/ n \in 1 .. N
      BY <1>1
    <3> QED
      BY <3>1, <1>6, <1>7
  <2> QED
    BY <2>1
<1> DEFINE r == Reading(lines)
<1>9. Is(r)
  <2>1. \E g : Is(g)
    BY <1>8
  <2>2. r = CHOOSE g : Is(g)
    BY DEF Reading
  <2> HIDE DEF Is, r
  <2> QED
    BY <2>1, <2>2
<1> HIDE DEF r, F, N, S
<1>10. /\ r[0] = Parsing
       /\ \A n \in 1 .. N : r[n] = ParseLine(r[n - 1], lines[n])
  <2>1. ASSUME NEW n \in 0 .. N
        PROVE  r[n] = IF n = 0 THEN Parsing ELSE ParseLine(r[n - 1], lines[n])
    BY <1>9
  <2>2. 0 \in 0 .. N /\ \A n \in 1 .. N : n \in 0 .. N /\ n # 0
    BY <1>1
  <2> QED
    BY <2>1, <2>2
<1> DEFINE T == {n \in Nat : n <= N => r[n] \in S}
<1>11. 0 \in T
  BY <1>4, <1>10
<1>12. ASSUME NEW n \in T
       PROVE  n + 1 \in T
  <2> SUFFICES ASSUME n + 1 <= N
               PROVE  r[n + 1] \in S
    BY <1>12
  <2> DEFINE m == n + 1
  <2>1. m \in 1 .. N /\ m - 1 = n /\ r[n] \in S
    BY <1>1, <1>12
  <2> HIDE DEF m
  <2>2. r[m] = ParseLine(r[n], lines[m])
    BY <2>1, <1>10
  <2>3. r[m] \in S
    BY <2>1, <2>2, <1>2
  <2> QED
    BY <2>3 DEF m
<1>13. T = Nat
  <2> HIDE DEF T
  <2>1. T \in SUBSET Nat
    BY DEF T
  <2> QED
    BY <1>11, <1>12, <2>1, Induction
<1>14. ASSUME NEW n \in 0 .. N
       PROVE  r[n] \in S
  <2>1. n \in Nat /\ n <= N
    BY <1>1
  <2>2. n \in T
    BY <2>1, <1>13
  <2> QED
    BY <2>1, <2>2
<1> QED
  BY <1>1, <1>10, <1>14 DEF r, N, S

\* Parse yields a sequence of instructions of the lines' tokens.
LEMMA ParseTyped ==
    ASSUME NEW E, NEW lines, Over(lines, E)
    PROVE  Parse(lines) \in ParserStates(E)
<1> DEFINE end == Reading(lines)[Len(lines)]
<1>1. Len(lines) \in Nat /\ end \in ParserStates(E)
  <2>1. Len(lines) \in Nat /\ Len(lines) \in 0 .. Len(lines)
    BY ReadingIs
  <2> QED
    BY <2>1, ReadingIs
<1> HIDE DEF end
<1>2. end.buf \in Seq(E)
  BY <1>1 DEF ParserStates
<1>3. Emit(end, end.buf) \in ParserStates(E)
  BY <1>1, <1>2, EmitTyped
<1> QED
  BY <1>1, <1>3 DEF Parse, end

-----------------------------------------------------------------------------
(***************************************************************************)
(* The words of texts: as they are written, and as they are understood.    *)
(***************************************************************************)
Pieces(text) == [k \in DOMAIN text |-> IF text[k] = " " THEN <<>> ELSE <<text[k]>>]

\* The first of a sequence of one is it, and two sequences of one make one of two.
LEMMA OfOne == \A x : <<x>>[1] = x
OBVIOUS

LEMMA Pair ==
    ASSUME NEW x, NEW y
    PROVE  <<x, y>> = <<x>> \o <<y>>
<1> DEFINE E == {x, y}
           a == <<x>>
           b == <<y>>
           c == <<x, y>>
<1>1. /\ a \in Seq(E) /\ Len(a) = 1 /\ a[1] = x
      /\ b \in Seq(E) /\ Len(b) = 1 /\ b[1] = y
      /\ c \in Seq(E) /\ Len(c) = 2 /\ c[1] = x /\ c[2] = y
  OBVIOUS
<1> HIDE DEF E, a, b, c
<1>2. a \o b \in Seq(E) /\ Len(a \o b) = 2
  <2>1. a \o b \in Seq(E) /\ Len(a \o b) = Len(a) + Len(b)
    BY <1>1, ConcatProperties, Zenon
  <2> QED
    BY <2>1, <1>1
<1>3. (a \o b)[1] = x /\ (a \o b)[2] = y
  <2>1. 1 \in 1 .. Len(a) + Len(b) /\ 2 \in 1 .. Len(a) + Len(b) /\ 1 <= Len(a) /\ ~(2 <= Len(a)) /\ 2 - Len(a) = 1
    BY <1>1
  <2> QED
    BY <1>1, <2>1, ConcatAt
<1>4. \A i \in 1 .. Len(c) : c[i] = (a \o b)[i]
  <2>1. \A i \in 1 .. 2 : i = 1 \/ i = 2
    OBVIOUS
  <2> QED
    BY <1>1, <1>3, <2>1
<1>5. c = a \o b
  BY <1>1, <1>2, <1>4, SeqEqual
<1> QED
  BY <1>5 DEF a, b, c

\* Words takes the blanks out of a text, and nothing else.
LEMMA PiecesIs ==
    ASSUME NEW E, NEW t \in Seq(E)
    PROVE  /\ Pieces(t) \in Seq(Seq(E)) /\ Len(Pieces(t)) = Len(t)
           /\ \A k \in 1 .. Len(t) : Pieces(t)[k] = IF t[k] = " " THEN <<>> ELSE <<t[k]>>
           /\ Words(t) = Flat(Pieces(t)) /\ Words(t) \in Seq(E)
<1>1. Len(t) \in Nat /\ DOMAIN t = 1 .. Len(t) /\ \A k \in 1 .. Len(t) : t[k] \in E
  OBVIOUS
<1>2. \A k \in 1 .. Len(t) : (IF t[k] = " " THEN <<>> ELSE <<t[k]>>) \in Seq(E)
  <2>1. ASSUME NEW k \in 1 .. Len(t)
        PROVE  (IF t[k] = " " THEN <<>> ELSE <<t[k]>>) \in Seq(E)
    BY <1>1, EmptySeq, Single
  <2> QED
    BY <2>1
<1>3. Pieces(t) = [k \in 1 .. Len(t) |-> IF t[k] = " " THEN <<>> ELSE <<t[k]>>]
  BY <1>1 DEF Pieces
<1>4. Pieces(t) \in Seq(Seq(E)) /\ Len(Pieces(t)) = Len(t)
  <2> DEFINE F(k) == IF t[k] = " " THEN <<>> ELSE <<t[k]>>
             S == Seq(E)
             N == Len(t)
  <2>1. N \in Nat /\ (\A k \in 1 .. N : F(k) \in S) /\ Pieces(t) = [k \in 1 .. N |-> F(k)]
    BY <1>1, <1>2, <1>3
  <2> HIDE DEF F, S, N
  <2>2. [k \in 1 .. N |-> F(k)] \in Seq(S) /\ Len([k \in 1 .. N |-> F(k)]) = N
    BY <2>1
  <2> QED
    BY <2>1, <2>2 DEF S, N
<1>5. Words(t) = Flat(Pieces(t))
  BY DEF Words, Pieces
<1>6. <<>> \in Seq(E) /\ Words(t) \in Seq(E)
  BY <1>4, <1>5, EmptySeq, FlatAppend
<1> QED
  BY <1>3, <1>4, <1>5, <1>6

LEMMA WordsConcat ==
    ASSUME NEW E, NEW t \in Seq(E), NEW u \in Seq(E)
    PROVE  Words(t \o u) = Words(t) \o Words(u)
<1> DEFINE p == Pieces(t)
           q == Pieces(u)
           r == Pieces(t \o u)
<1>0. /\ t \o u \in Seq(E) /\ Len(t \o u) = Len(t) + Len(u)
      /\ Len(t) \in Nat /\ Len(u) \in Nat
  OBVIOUS
<1>1. /\ p \in Seq(Seq(E)) /\ Len(p) = Len(t)
      /\ q \in Seq(Seq(E)) /\ Len(q) = Len(u)
      /\ r \in Seq(Seq(E)) /\ Len(r) = Len(t) + Len(u)
  BY <1>0, PiecesIs
<1>2. ASSUME NEW k \in 1 .. Len(t) + Len(u)
      PROVE  r[k] = (p \o q)[k]
  <2>0. (p \o q)[k] = IF k <= Len(t) THEN p[k] ELSE q[k - Len(t)]
    <3> HIDE DEF p, q, r
    <3> QED
      BY <1>1, ConcatAt
  <2>1. (t \o u)[k] = IF k <= Len(t) THEN t[k] ELSE u[k - Len(t)]
    BY ConcatAt
  <2>2. r[k] = IF (t \o u)[k] = " " THEN <<>> ELSE <<(t \o u)[k]>>
    BY <1>0, PiecesIs
  <2>3. CASE k <= Len(t)
    <3>1. k \in 1 .. Len(t)
      BY <2>3, <1>0
    <3>2. p[k] = IF t[k] = " " THEN <<>> ELSE <<t[k]>>
      BY <3>1, PiecesIs
    <3> HIDE DEF p, q, r
    <3> QED
      BY <2>3, <3>2, <2>0, <2>1, <2>2
  <2>4. CASE ~(k <= Len(t))
    <3>1. k - Len(t) \in 1 .. Len(u)
      BY <2>4, <1>0
    <3>2. q[k - Len(t)] = IF u[k - Len(t)] = " " THEN <<>> ELSE <<u[k - Len(t)]>>
      BY <3>1, PiecesIs
    <3> HIDE DEF p, q, r
    <3> QED
      BY <2>4, <3>2, <2>0, <2>1, <2>2
  <2> QED
    BY <2>3, <2>4
<1> HIDE DEF p, q, r
<1>3. p \o q \in Seq(Seq(E)) /\ Len(p \o q) = Len(p) + Len(q)
  BY <1>1, ConcatProperties
<1>4. r = p \o q
  BY <1>1, <1>2, <1>3, SeqEqual
<1>5. Flat(p \o q) = Flat(p) \o Flat(q)
  BY <1>1, FlatConcat
<1>6. Words(t) = Flat(p) /\ Words(u) = Flat(q) /\ Words(t \o u) = Flat(r)
  BY <1>0, PiecesIs DEF p, q, r
<1> QED
  BY <1>4, <1>5, <1>6

LEMMA WordsEmpty == Words(<<>>) = <<>>
<1>1. \A E : Words(<<>>) \in Seq(E)
  BY EmptySeq, PiecesIs
<1>2. Words(<<>>) \in Seq({})
  BY <1>1
<1> QED
  BY <1>2

LEMMA WordsSingle ==
    ASSUME NEW x
    PROVE  Words(<<x>>) = IF x = " " THEN <<>> ELSE <<x>>
<1> DEFINE E == {x}
           p == Pieces(<<x>>)
           w == IF x = " " THEN <<>> ELSE <<x>>
<1>1. <<x>> \in Seq(E) /\ Len(<<x>>) = 1 /\ <<x>>[1] = x
  OBVIOUS
<1>2. p \in Seq(Seq(E)) /\ Len(p) = 1 /\ p[1] = w /\ Words(<<x>>) = Flat(p)
  <2> DEFINE t == <<x>>
  <2>0. t \in Seq(E) /\ Len(t) = 1 /\ t[1] = x /\ 1 \in 1 .. Len(t)
    OBVIOUS
  <2> HIDE DEF t
  <2>1. Pieces(t)[1] = IF t[1] = " " THEN <<>> ELSE <<t[1]>>
    BY <2>0, PiecesIs
  <2>2. Pieces(t) \in Seq(Seq(E)) /\ Len(Pieces(t)) = 1 /\ Words(t) = Flat(Pieces(t))
    BY <2>0, PiecesIs
  <2> QED
    BY <2>0, <2>1, <2>2 DEF t
<1>3. w \in Seq(E)
  BY <1>1, EmptySeq
<1> HIDE DEF p, w, E
<1>4. <<>> \in Seq(Seq(E)) /\ Append(<<>>, w) = p
  BY <1>2, <1>3
<1>5. Flat(Append(<<>>, w)) = Flat(<<>>) \o w
  BY <1>3, <1>4, FlatAppend
<1>6. <<>> \o w = w
  BY <1>3, ConcatEmptySeq
<1> QED
  BY <1>2, <1>4, <1>5, <1>6, FlatEmpty DEF w

LEMMA WordsJoined ==
    ASSUME NEW E, HasBlank(E), NEW b \in Seq(E), NEW t \in Seq(E)
    PROVE  Words(Joined(b, t)) = Words(b) \o Words(t)
<1> DEFINE blank == <<" ">>
<1>1. blank \in Seq(E) /\ Words(blank) = <<>>
  BY Single, WordsSingle DEF HasBlank
<1>2. Words(b) \in Seq(E) /\ Words(t) \in Seq(E)
  BY PiecesIs
<1>3. CASE b = <<>>
  BY <1>3, <1>2, WordsEmpty, ConcatEmptySeq DEF Joined
<1>4. CASE b # <<>> /\ t = <<>>
  BY <1>4, <1>2, WordsEmpty, ConcatEmptySeq DEF Joined
<1>5. CASE b # <<>> /\ t # <<>>
  <2>1. Joined(b, t) = (b \o blank) \o t
    BY <1>5 DEF Joined
  <2> HIDE DEF blank
  <2>2. b \o blank \in Seq(E)
    BY <1>1, ConcatProperties
  <2>3. Words((b \o blank) \o t) = Words(b \o blank) \o Words(t)
    BY <2>2, WordsConcat
  <2>4. Words(b \o blank) = Words(b) \o Words(blank)
    BY <1>1, WordsConcat
  <2>5. Words(b) \o <<>> = Words(b)
    BY <1>2, ConcatEmptySeq
  <2> QED
    BY <2>1, <2>3, <2>4, <2>5, <1>1
<1> QED
  BY <1>3, <1>4, <1>5

\* An instruction is understood as all the words of its text.
LEMMA UnderstoodWords ==
    ASSUME NEW E, HasBlank(E), NEW t \in Seq(E), NEW ins, parseLine(t) = <<ins>>
    PROVE  Understood(ins) = Words(t) /\ Understood(ins) \in Seq(E)
<1>1. parseLine(t) # <<>> /\ parseLine(t)[1] = ins
  <2>1. \A x : <<x>> # <<>>
    OBVIOUS
  <2> QED
    BY <2>1, OfOne, Zenon
<1>2. /\ ins.type # " " /\ ins.value \in Seq(E) /\ ins.type \in E
      /\ t = <<ins.type, " ">> \o ins.value
  BY <1>1, ParsedLine
<1> DEFINE a == <<ins.type>>
           b == <<" ">>
<1>3. a \in Seq(E) /\ b \in Seq(E) /\ Words(a) = a /\ Words(b) = <<>>
  BY <1>2, Single, WordsSingle DEF HasBlank
<1>4. <<ins.type, " ">> = a \o b
  BY Pair, Zenon
<1>5. Words(a \o b) = Words(a) \o Words(b) /\ a \o b \in Seq(E)
  <2> HIDE DEF a, b
  <2> QED
    BY <1>3, WordsConcat, ConcatProperties
<1>6. Words(t) = Words(a \o b) \o Words(ins.value)
  <2>1. t = (a \o b) \o ins.value
    BY <1>2, <1>4
  <2> HIDE DEF a, b
  <2> QED
    BY <2>1, <1>2, <1>5, WordsConcat
<1>7. a \o <<>> = a
  <2> HIDE DEF a
  <2> QED
    BY <1>3, ConcatEmptySeq
<1>8. Words(t) = a \o Words(ins.value)
  BY <1>3, <1>5, <1>6, <1>7
<1>9. Words(t) \in Seq(E)
  BY PiecesIs
<1> QED
  BY <1>8, <1>9 DEF Understood

\* What the parser takes of a line and of the first n, and instructions as they are
\* understood.
Taken(lines, n) == IF Says(lines[n]) \/ Continues(lines, n) THEN Words(lines[n].text) ELSE <<>>
TakenTo(lines, n) == [m \in 1 .. n |-> Taken(lines, m)]
Understoods(out) == [i \in DOMAIN out |-> Understood(out[i])]

\* What a sequence is as a function.
LEMMA SeqIs ==
    ASSUME NEW S, NEW s \in Seq(S)
    PROVE  /\ Len(s) \in Nat /\ DOMAIN s = 1 .. Len(s)
           /\ \A i \in 1 .. Len(s) : s[i] \in S
OBVIOUS

LEMMA IsSeqOf ==
    ASSUME NEW S, NEW N \in Nat, NEW f \in [1 .. N -> S]
    PROVE  f \in Seq(S) /\ Len(f) = N /\ DOMAIN f = 1 .. N
OBVIOUS

LEMMA Within ==
    ASSUME NEW N \in Nat
    PROVE  N + 1 \in 1 .. N + 1 /\ \A i \in 1 .. N : i \in 1 .. N + 1
OBVIOUS

LEMMA Associated ==
    ASSUME NEW E, NEW u \in Seq(E), NEW v \in Seq(E), NEW w \in Seq(E)
    PROVE  u \o (v \o w) = (u \o v) \o w
BY ConcatAssociative

LEMMA NotEmptied ==
    ASSUME NEW E, NEW u \in Seq(E), NEW v \in Seq(E), v # <<>>
    PROVE  u \o v # <<>>
BY ConcatSimplifications

LEMMA Appended ==
    ASSUME NEW S, NEW s \in Seq(S), NEW x \in S
    PROVE  /\ Append(s, x) \in Seq(S) /\ Len(Append(s, x)) = Len(s) + 1
           /\ Append(s, x)[Len(s) + 1] = x
           /\ \A i \in 1 .. Len(s) : Append(s, x)[i] = s[i]
           /\ s \o <<x>> = Append(s, x)
BY AppendProperties, AppendIsConcat

\* What is left of a text when nothing is added to it.
LEMMA NothingAdded ==
    ASSUME NEW E, NEW u \in Seq(E), NEW v \in Seq(E)
    PROVE  u \o v \in Seq(E) /\ u \o <<>> = u /\ (u \o v) \o <<>> = u \o v
BY ConcatProperties, ConcatEmptySeq

LEMMA Initial ==
    ASSUME NEW S, NEW N \in Nat, NEW f \in [1 .. N + 1 -> S]
    PROVE  LET g == [m \in 1 .. N |-> f[m]]
           IN  g \in Seq(S) /\ Len(g) = N /\ f = Append(g, f[N + 1])
<1> DEFINE g == [m \in 1 .. N |-> f[m]]
<1>1. g \in Seq(S) /\ Len(g) = N /\ f \in Seq(S) /\ Len(f) = N + 1 /\ f[N + 1] \in S
  OBVIOUS
<1>2. Append(g, f[N + 1]) \in Seq(S) /\ Len(Append(g, f[N + 1])) = N + 1
  BY <1>1
<1>3. ASSUME NEW i \in 1 .. N + 1
      PROVE  f[i] = Append(g, f[N + 1])[i]
  <2>1. CASE i = N + 1
    BY <2>1, <1>1
  <2>2. CASE i # N + 1
    <3>1. i \in 1 .. N
      BY <2>2
    <3> QED
      BY <3>1, <1>1
  <2> QED
    BY <2>1, <2>2
<1> QED
  BY <1>1, <1>2, <1>3, SeqEqual

\* The instructions understood, one more of them included, are texts.
LEMMA UnderstoodTyped ==
    ASSUME NEW E, HasBlank(E), NEW ins \in Parsed(E)
    PROVE  Understood(ins) \in Seq(E)
<1>1. PICK t \in Seq(E) : parseLine(t) = <<ins>>
  BY ParsedIs
<1> QED
  BY <1>1, UnderstoodWords

LEMMA UnderstoodsAppend ==
    ASSUME NEW E, HasBlank(E), NEW out \in Seq(Parsed(E)), NEW ins \in Parsed(E)
    PROVE  /\ Understoods(out) \in Seq(Seq(E))
           /\ Understoods(out \o <<ins>>) = Append(Understoods(out), Understood(ins))
           /\ out \o <<ins>> = Append(out, ins)
<1> DEFINE P == Parsed(E)
           N == Len(out)
           new == Append(out, ins)
           f == Understoods(new)
<1>1. out \o <<ins>> = new
  BY Appended
<1>2. /\ N \in Nat /\ DOMAIN out = 1 .. N
      /\ new \in Seq(P) /\ Len(new) = N + 1 /\ DOMAIN new = 1 .. N + 1
      /\ new[N + 1] = ins
      /\ \A i \in 1 .. N : new[i] = out[i]
      /\ \A i \in 1 .. N + 1 : new[i] \in P
  <2>1. out \in Seq(P) /\ ins \in P
    OBVIOUS
  <2> HIDE DEF P, new
  <2>2. N \in Nat /\ DOMAIN out = 1 .. N
    BY <2>1, SeqIs
  <2>3. /\ new \in Seq(P) /\ Len(new) = N + 1 /\ new[N + 1] = ins
        /\ \A i \in 1 .. N : new[i] = out[i]
    BY <2>1, Appended DEF new
  <2>4. DOMAIN new = 1 .. N + 1 /\ \A i \in 1 .. N + 1 : new[i] \in P
    BY <2>3, SeqIs
  <2> QED
    BY <2>2, <2>3, <2>4
<1>3. f \in [1 .. N + 1 -> Seq(E)]
  <2>1. f = [i \in 1 .. N + 1 |-> Understood(new[i])]
    BY <1>2 DEF Understoods
  <2>2. \A i \in 1 .. N + 1 : Understood(new[i]) \in Seq(E)
    BY <1>2, UnderstoodTyped
  <2> HIDE DEF f, new, N
  <2> QED
    BY <2>1, <2>2
<1>4. Understoods(out) = [i \in 1 .. N |-> f[i]]
  <2> HIDE DEF new
  <2>0. f = [i \in 1 .. N + 1 |-> Understood(new[i])]
    BY <1>2 DEF Understoods
  <2>1. \A i \in 1 .. N : f[i] = Understood(out[i])
    <3>0. N \in Nat
      BY <1>2
    <3> HIDE DEF f, N
    <3>1. \A i \in 1 .. N : i \in 1 .. N + 1
      BY <3>0, Within, Zenon
    <3>2. \A i \in 1 .. N : f[i] = Understood(new[i])
      BY <3>1, <2>0
    <3> QED
      BY <3>2, <1>2 DEF N
  <2>2. Understoods(out) = [i \in 1 .. N |-> Understood(out[i])]
    BY <1>2 DEF Understoods
  <2> HIDE DEF f
  <2> QED
    BY <2>1, <2>2
<1>5. f[N + 1] = Understood(ins)
  <2>0. N \in Nat /\ DOMAIN new = 1 .. N + 1 /\ new[N + 1] = ins
    BY <1>2
  <2> HIDE DEF new, N
  <2>1. N + 1 \in 1 .. N + 1
    BY <2>0, Within, Zenon
  <2> QED
    BY <2>1, <2>0 DEF Understoods
<1> HIDE DEF f, new
<1>6. Understoods(out) \in Seq(Seq(E)) /\ f = Append(Understoods(out), f[N + 1])
  <2>0. N \in Nat
    BY <1>2
  <2> HIDE DEF N
  <2>1. /\ [i \in 1 .. N |-> f[i]] \in Seq(Seq(E))
        /\ f = Append([i \in 1 .. N |-> f[i]], f[N + 1])
    BY <2>0, <1>3, Initial
  <2> QED
    BY <2>1, <1>4
<1> QED
  BY <1>1, <1>5, <1>6 DEF f, new

\* What emitting an instruction adds is what it was made of.
LEMMA EmitGathers ==
    ASSUME NEW E, HasBlank(E), NEW s \in ParserStates(E), NEW t \in Seq(E), Emit(s, t).ok
    PROVE  Flat(Understoods(Emit(s, t).out)) = Flat(Understoods(s.out)) \o Words(t)
<1>1. parseLine(t) # <<>> /\ Emit(s, t).out = s.out \o parseLine(t)
  BY EmitTyped
<1> DEFINE ins == parseLine(t)[1]
<1>2. parseLine(t) = <<ins>> /\ ins \in Parsed(E)
  BY <1>1, ParsedLine
<1> HIDE DEF ins
<1>3. s.out \in Seq(Parsed(E))
  BY DEF ParserStates
<1>4. /\ Understoods(s.out) \in Seq(Seq(E))
      /\ Understoods(s.out \o <<ins>>) = Append(Understoods(s.out), Understood(ins))
  BY <1>2, <1>3, UnderstoodsAppend
<1>5. Understood(ins) = Words(t) /\ Understood(ins) \in Seq(E)
  BY <1>2, UnderstoodWords
<1>6. Flat(Append(Understoods(s.out), Words(t))) = Flat(Understoods(s.out)) \o Words(t)
  BY <1>4, <1>5, FlatAppend
<1> QED
  BY <1>1, <1>2, <1>4, <1>5, <1>6

\* So are all of them together.
LEMMA UnderstoodsTyped ==
    ASSUME NEW E, HasBlank(E), NEW out \in Seq(Parsed(E))
    PROVE  Understoods(out) \in Seq(Seq(E)) /\ Flat(Understoods(out)) \in Seq(E)
<1>1. Understoods(out) \in Seq(Seq(E))
  <2>0. Len(out) \in Nat /\ DOMAIN out = 1 .. Len(out) /\ \A i \in 1 .. Len(out) : out[i] \in Parsed(E)
    BY SeqIs, Zenon
  <2>1. \A i \in 1 .. Len(out) : Understood(out[i]) \in Seq(E)
    BY <2>0, UnderstoodTyped
  <2>2. Understoods(out) = [i \in 1 .. Len(out) |-> Understood(out[i])]
    BY <2>0 DEF Understoods
  <2>3. Understoods(out) \in [1 .. Len(out) -> Seq(E)]
    BY <2>1, <2>2
  <2> QED
    BY <2>0, <2>3, IsSeqOf, Zenon
<1>2. <<>> \in Seq(E)
  BY EmptySeq, Zenon
<1> QED
  BY <1>1, <1>2, FlatAppend

\* One line: what is understood and still gathered grows by the line's words.
LEMMA LineGathers ==
    ASSUME NEW E, HasBlank(E), NEW s \in ParserStates(E), s.ok,
           NEW line, line.text \in Seq(E), line.cont \in BOOLEAN, ParseLine(s, line).ok
    PROVE  LET t == ParseLine(s, line) IN
           /\ t.buf # <<>> <=> line.cont /\ (Says(line) \/ s.buf # <<>>)
           /\ Flat(Understoods(t.out)) \o Words(t.buf) =
              (Flat(Understoods(s.out)) \o Words(s.buf)) \o
                  (IF Says(line) \/ s.buf # <<>> THEN Words(line.text) ELSE <<>>)
<1> DEFINE t == ParseLine(s, line)
           text == line.text
           joined == Joined(s.buf, text)
           U == Flat(Understoods(s.out))
           B == Words(s.buf)
           skip == /\ s.buf = <<>>
                   /\ \/ text = <<>> /\ ~line.cont
                      \/ text # <<>> /\ Head(text) = Comment
<1>1. /\ s.buf \in Seq(E) /\ joined \in Seq(E) /\ s.out \in Seq(Parsed(E))
      /\ U \in Seq(E) /\ B \in Seq(E) /\ Words(text) \in Seq(E)
  <2>1. s.buf \in Seq(E) /\ s.out \in Seq(Parsed(E))
    BY DEF ParserStates
  <2> QED
    BY <2>1, JoinedTyped, UnderstoodsTyped, PiecesIs
<1>2. Words(joined) = B \o Words(text)
  BY <1>1, WordsJoined
<1>3. U \o (B \o Words(text)) = (U \o B) \o Words(text)
  <2> DEFINE W == Words(text)
  <2>1. U \in Seq(E) /\ B \in Seq(E) /\ W \in Seq(E)
    BY <1>1
  <2> HIDE DEF U, B, W
  <2>2. U \o (B \o W) = (U \o B) \o W
    BY <2>1, Associated
  <2> QED
    BY <2>2 DEF W
<1>4. joined = <<>> <=> s.buf = <<>> /\ text = <<>>
  <2>1. CASE s.buf = <<>> \/ text = <<>>
    BY <2>1 DEF Joined
  <2>2. CASE s.buf # <<>> /\ text # <<>>
    <3>1. joined = (s.buf \o <<" ">>) \o text
      BY <2>2 DEF Joined
    <3>2. s.buf \o <<" ">> \in Seq(E)
      BY <1>1, Appended DEF HasBlank
    <3> DEFINE u == s.buf \o <<" ">>
    <3>3. u \in Seq(E) /\ text \in Seq(E)
      BY <3>2
    <3> HIDE DEF u
    <3>4. text # <<>> => u \o text # <<>>
      BY <3>3, NotEmptied, Zenon
    <3> QED
      BY <2>2, <3>1, <3>4 DEF u
  <2> QED
    BY <2>1, <2>2
<1>5. CASE skip
  <2>1. t = s /\ ~Says(line)
    BY <1>5 DEF ParseLine, Says, IsComment
  <2>2. U \o B \in Seq(E) /\ (U \o B) \o <<>> = U \o B
    <3>1. U \in Seq(E) /\ B \in Seq(E)
      BY <1>1
    <3> HIDE DEF U, B
    <3> QED
      BY <3>1, NothingAdded, Zenon
  <2> QED
    BY <1>5, <2>1, <2>2
<1>6. CASE ~skip /\ line.cont
  <2>1. t = [s EXCEPT !.buf = joined]
    BY <1>6 DEF ParseLine
  <2>2. t.buf = joined /\ t.out = s.out
    BY <2>1 DEF ParserStates
  <2>3. Says(line) \/ s.buf # <<>> <=> joined # <<>>
    BY <1>4, <1>6 DEF Says, IsComment
  <2>4. CASE joined # <<>>
    BY <2>2, <2>3, <2>4, <1>6, <1>2, <1>3
  <2>5. CASE joined = <<>>
    <3>1. Words(text) = <<>>
      BY <2>5, <1>4, WordsEmpty
    <3> QED
      BY <2>2, <2>3, <2>5, <3>1, <1>2, <1>3
  <2> QED
    BY <2>4, <2>5
<1>7. CASE ~skip /\ ~line.cont
  <2>1. t = Emit(s, joined)
    BY <1>7 DEF ParseLine
  <2>2. t.buf = <<>> /\ Flat(Understoods(t.out)) = U \o Words(joined)
    <3>1. joined \in Seq(E) /\ Emit(s, joined).ok
      BY <2>1, <1>1
    <3> HIDE DEF joined
    <3>2. Emit(s, joined).buf = <<>>
      BY <3>1, EmitTyped
    <3>3. Flat(Understoods(Emit(s, joined).out)) = U \o Words(joined)
      BY <3>1, EmitGathers
    <3> QED
      BY <2>1, <3>2, <3>3
  <2>3. Says(line) \/ s.buf # <<>>
    BY <1>7 DEF Says, IsComment
  <2>4. U \o Words(joined) \in Seq(E) /\ (U \o Words(joined)) \o <<>> = U \o Words(joined)
    <3>1. Words(joined) \in Seq(E)
      BY <1>1, PiecesIs
    <3> DEFINE J == Words(joined)
    <3>2. U \in Seq(E) /\ J \in Seq(E)
      BY <3>1, <1>1
    <3> HIDE DEF U, J
    <3>3. U \o J \in Seq(E) /\ (U \o J) \o <<>> = U \o J
      BY <3>2, NothingAdded, Zenon
    <3> QED
      BY <3>3 DEF J
  <2> QED
    BY <1>7, <2>2, <2>3, <2>4, <1>2, <1>3, WordsEmpty
<1> QED
  BY <1>5, <1>6, <1>7

\* A line continues an instruction if the one before it is broken and says
\* something or continues one itself.
LEMMA ContinuesNext ==
    ASSUME NEW lines, NEW n \in Nat
    PROVE  /\ ~Continues(lines, 1)
           /\ n > 0 => (Continues(lines, n + 1) <=>
                           lines[n].cont /\ (Says(lines[n]) \/ Continues(lines, n)))
<1>1. ~Continues(lines, 1)
  BY DEF Continues
<1>2. ASSUME n > 0, Continues(lines, n + 1)
      PROVE  lines[n].cont /\ (Says(lines[n]) \/ Continues(lines, n))
  <2>1. PICK m \in 1 .. (n + 1) - 1 : Says(lines[m]) /\ \A k \in m .. (n + 1) - 1 : lines[k].cont
    BY <1>2 DEF Continues
  <2>2. m \in 1 .. n /\ n \in m .. (n + 1) - 1 /\ \A k \in m .. n - 1 : k \in m .. (n + 1) - 1
    OBVIOUS
  <2>3. lines[n].cont
    BY <2>1, <2>2
  <2>4. m # n => m \in 1 .. n - 1
    BY <2>2
  <2> QED
    BY <2>1, <2>2, <2>3, <2>4 DEF Continues
<1>3. ASSUME n > 0, lines[n].cont, Says(lines[n])
      PROVE  Continues(lines, n + 1)
  <2>1. n \in 1 .. (n + 1) - 1 /\ \A k \in n .. (n + 1) - 1 : k = n
    BY <1>3
  <2> QED
    BY <1>3, <2>1 DEF Continues
<1>4. ASSUME n > 0, lines[n].cont, Continues(lines, n)
      PROVE  Continues(lines, n + 1)
  <2>1. PICK m \in 1 .. n - 1 : Says(lines[m]) /\ \A k \in m .. n - 1 : lines[k].cont
    BY <1>4 DEF Continues
  <2>2. m \in 1 .. (n + 1) - 1 /\ \A k \in m .. (n + 1) - 1 : k \in m .. n - 1 \/ k = n
    BY <1>4
  <2> QED
    BY <1>4, <2>1, <2>2 DEF Continues
<1> QED
  BY <1>1, <1>2, <1>3, <1>4

\* How far the parser is: its buffer is what continues, and nothing is lost.
Gathered(lines, n) ==
    LET s == Reading(lines)[n] IN
    s.ok => /\ Continues(lines, n + 1) <=> s.buf # <<>>
            /\ Flat(TakenTo(lines, n)) = Flat(Understoods(s.out)) \o Words(s.buf)

\* What a line adds, and that the parser has gathered it.
LEMMA TakenTyped ==
    ASSUME NEW E, NEW lines, Over(lines, E), NEW n \in 1 .. Len(lines)
    PROVE  Taken(lines, n) \in Seq(E)
<1>1. lines[n].text \in Seq(E)
  BY ReadingIs DEF Over
<1>2. Words(lines[n].text) \in Seq(E) /\ <<>> \in Seq(E)
  BY <1>1, PiecesIs, EmptySeq, Zenon
<1> QED
  BY <1>2 DEF Taken

LEMMA GatheredNext ==
    ASSUME NEW E, NEW lines, Over(lines, E), NEW n \in Nat, n + 1 <= Len(lines),
           Gathered(lines, n)
    PROVE  Gathered(lines, n + 1)
<1> DEFINE m == n + 1
           s == Reading(lines)[n]
           t == Reading(lines)[m]
           line == lines[m]
<1>1. /\ m \in 1 .. Len(lines) /\ m - 1 = n /\ n \in 0 .. Len(lines) /\ m \in Nat /\ m > 0
      /\ n \in Nat /\ Len(lines) \in Nat
  BY ReadingIs
<1>2. s \in ParserStates(E) /\ t = ParseLine(s, line)
  <2>1. Reading(lines)[m] = ParseLine(Reading(lines)[m - 1], lines[m])
    BY <1>1, ReadingIs
  <2> QED
    BY <2>1, <1>1, ReadingIs
<1>3. line.text \in Seq(E) /\ line.cont \in BOOLEAN /\ HasBlank(E)
  BY <1>1, ReadingIs DEF Over
<1> SUFFICES ASSUME t.ok
             PROVE  /\ Continues(lines, m + 1) <=> t.buf # <<>>
                    /\ Flat(TakenTo(lines, m)) = Flat(Understoods(t.out)) \o Words(t.buf)
  BY DEF Gathered
<1>4. s.ok
  BY <1>2 DEF ParseLine
<1>5. /\ Continues(lines, m) <=> s.buf # <<>>
      /\ Flat(TakenTo(lines, n)) = Flat(Understoods(s.out)) \o Words(s.buf)
  BY <1>4 DEF Gathered
<1> HIDE DEF s, t
<1>6. /\ t.buf # <<>> <=> line.cont /\ (Says(line) \/ s.buf # <<>>)
      /\ Flat(Understoods(t.out)) \o Words(t.buf) =
         (Flat(Understoods(s.out)) \o Words(s.buf)) \o
             (IF Says(line) \/ s.buf # <<>> THEN Words(line.text) ELSE <<>>)
  BY <1>2, <1>3, <1>4, LineGathers
<1>7. Taken(lines, m) = IF Says(line) \/ s.buf # <<>> THEN Words(line.text) ELSE <<>>
  BY <1>5 DEF Taken
<1>8. Flat(TakenTo(lines, m)) = Flat(TakenTo(lines, n)) \o Taken(lines, m)
  <2> DEFINE f == TakenTo(lines, n + 1)
             g == [i \in 1 .. n |-> f[i]]
  <2>1. f = [i \in 1 .. n + 1 |-> Taken(lines, i)]
    BY DEF TakenTo
  <2>2. \A i \in 1 .. n + 1 : Taken(lines, i) \in Seq(E)
    BY <1>1, TakenTyped
  <2>3. f \in [1 .. n + 1 -> Seq(E)] /\ f[n + 1] = Taken(lines, m) /\ f[n + 1] \in Seq(E)
    BY <2>1, <2>2
  <2>4. g = TakenTo(lines, n)
    BY <2>1 DEF TakenTo
  <2> HIDE DEF f
  <2>5. g \in Seq(Seq(E)) /\ f = Append(g, f[n + 1])
    BY <2>3, Initial
  <2> HIDE DEF g
  <2>6. Flat(Append(g, f[n + 1])) = Flat(g) \o f[n + 1]
    BY <2>3, <2>5, FlatAppend
  <2> QED
    BY <2>3, <2>4, <2>5, <2>6 DEF f
<1>9. Continues(lines, m + 1) <=> line.cont /\ (Says(line) \/ Continues(lines, m))
  <2> HIDE DEF m
  <2> QED
    BY <1>1, ContinuesNext
<1> QED
  BY <1>5, <1>6, <1>7, <1>8, <1>9

\* All the lines: an instruction that they leave unfinished is emitted, too.
LEMMA AllGathered ==
    ASSUME NEW E, NEW lines, Over(lines, E), Parse(lines).ok
    PROVE  Flat(TakenTo(lines, Len(lines))) = Flat(Understoods(Parse(lines).out))
<1> DEFINE N == Len(lines)
           end == Reading(lines)[N]
           T == {n \in Nat : n <= N => Gathered(lines, n)}
<1>1. N \in Nat /\ DOMAIN lines = 1 .. N /\ HasBlank(E)
  BY ReadingIs DEF Over
<1>2. 0 \in T
  <2>1. Reading(lines)[0] = Parsing
    BY ReadingIs
  <2>2. ~Continues(lines, 0 + 1)
    BY ContinuesNext
  <2>3. TakenTo(lines, 0) = <<>> /\ Understoods(<<>>) = <<>>
    BY DEF TakenTo, Understoods
  <2>4. Flat(<<>>) \o Words(<<>>) = Flat(<<>>)
    BY FlatEmpty, WordsEmpty, EmptySeq, NothingAdded
  <2> QED
    BY <2>1, <2>2, <2>3, <2>4 DEF Gathered, Parsing
<1>3. ASSUME NEW n \in T
      PROVE  n + 1 \in T
  <2> SUFFICES ASSUME n + 1 <= N
               PROVE  Gathered(lines, n + 1)
    BY <1>3
  <2> QED
    BY <1>1, <1>3, GatheredNext
<1>4. T = Nat
  <2> HIDE DEF T
  <2>1. T \in SUBSET Nat
    BY DEF T
  <2> QED
    BY <1>2, <1>3, <2>1, Induction
<1>5. Gathered(lines, N)
  <2>1. N \in T
    BY <1>1, <1>4
  <2> QED
    BY <2>1, <1>1
<1>6. end \in ParserStates(E)
  <2>1. N \in 0 .. N
    BY <1>1
  <2> QED
    BY <2>1, ReadingIs
<1>7. end.ok
  BY DEF Parse
<1>8. Flat(TakenTo(lines, N)) = Flat(Understoods(end.out)) \o Words(end.buf)
  BY <1>5, <1>7 DEF Gathered
<1> HIDE DEF end
<1>9. end.buf \in Seq(E) /\ end.out \in Seq(Parsed(E))
  BY <1>6 DEF ParserStates
<1>10. Flat(Understoods(Parse(lines).out)) = Flat(Understoods(end.out)) \o Words(end.buf)
  <2>1. CASE end.buf # <<>>
    <3>1. Parse(lines) = Emit(end, end.buf)
      BY <2>1, <1>7 DEF Parse, end
    <3> QED
      BY <3>1, <1>1, <1>6, <1>9, EmitGathers
  <2>2. CASE end.buf = <<>>
    <3>1. Parse(lines) = end
      BY <2>2 DEF Parse, end
    <3>2. Flat(Understoods(end.out)) \in Seq(E)
      BY <1>1, <1>9, UnderstoodsTyped
    <3>3. Flat(Understoods(end.out)) \o <<>> = Flat(Understoods(end.out))
      BY <3>2, ConcatEmptySeq
    <3> QED
      BY <2>2, <3>1, <3>3, WordsEmpty
  <2> QED
    BY <2>1, <2>2
<1> QED
  BY <1>8, <1>10

(***************************************************************************)
(* Parse loses nothing: of any lines that it accepts, whatever is broken   *)
(* over how many of them, every word that says something is in an          *)
(* instruction, in the order written, and no other word is: if no comment  *)
(* stands inside an instruction.                                           *)
(***************************************************************************)
THEOREM NothingLost ==
    ASSUME NEW E, NEW lines, Over(lines, E), Parse(lines).ok, NoInnerComment(lines)
    PROVE  AsWritten(lines)
<1> DEFINE W == [n \in DOMAIN lines |-> Written(lines, n)]
<1>1. DOMAIN lines = 1 .. Len(lines)
  BY ReadingIs
<1>2. \A n \in DOMAIN lines : Written(lines, n) = Taken(lines, n)
  <2> TAKE n \in DOMAIN lines
  <2>1. CASE Says(lines[n])
    BY <2>1 DEF Written, Taken
  <2>2. CASE ~Says(lines[n]) /\ ~Continues(lines, n)
    BY <2>2 DEF Written, Taken
  <2>3. CASE ~Says(lines[n]) /\ Continues(lines, n)
    <3>1. lines[n].text = <<>>
      BY <2>3 DEF NoInnerComment, Says
    <3> QED
      BY <2>3, <3>1, WordsEmpty DEF Written, Taken
  <2> QED
    BY <2>1, <2>2, <2>3
<1>3. W = TakenTo(lines, Len(lines))
  BY <1>1, <1>2 DEF TakenTo
<1>4. Flat(TakenTo(lines, Len(lines))) = Flat(Understoods(Parse(lines).out))
  BY AllGathered
<1>5. Flat(W) = Flat(Understoods(Parse(lines).out))
  <2> HIDE DEF W
  <2> QED
    BY <1>3, <1>4
<1> QED
  BY <1>5 DEF AsWritten, Understoods

-----------------------------------------------------------------------------
(***************************************************************************)
(* What a Cagefile means, from one instruction to the next.                *)
(***************************************************************************)
IsList(s) == Len(s) \in Nat /\ DOMAIN s = 1 .. Len(s)

\* The last of some lines, and which lines come before the next.
LEMMA LastIs ==
    ASSUME NEW T \in SUBSET Nat, NEW i \in T, \A k \in T : k <= i
    PROVE  LastOf(T) = i
<1>1. \E j \in T : \A k \in T : k <= j
  OBVIOUS
<1>2. LastOf(T) \in T /\ \A k \in T : k <= LastOf(T)
  BY <1>1 DEF LastOf
<1>3. LastOf(T) \in Nat /\ i \in Nat /\ i <= LastOf(T) /\ LastOf(T) <= i
  BY <1>2
<1> QED
  BY <1>3

LEMMA BeforeNext ==
    ASSUME NEW insts, IsList(insts), NEW i \in DOMAIN insts, NEW type
    PROVE  /\ Before(insts, type, i + 1) =
              Before(insts, type, i) \cup (IF insts[i].type = type THEN {i} ELSE {})
           /\ Before(insts, type, i) \in SUBSET Nat
           /\ \A j \in Before(insts, type, i) : j < i
           /\ i \in Nat /\ i + 1 \in 1 .. Len(insts) + 1 /\ (i + 1) - 1 = i
<1>1. i \in Nat /\ \A j \in DOMAIN insts : j \in Nat /\ (j < i + 1 <=> j < i \/ j = i)
  BY DEF IsList
<1>2. Before(insts, type, i + 1) =
          Before(insts, type, i) \cup (IF insts[i].type = type THEN {i} ELSE {})
  BY <1>1 DEF Before
<1>3. Before(insts, type, i) \in SUBSET Nat /\ \A j \in Before(insts, type, i) : j < i
  BY <1>1 DEF Before
<1>4. i + 1 \in 1 .. Len(insts) + 1 /\ (i + 1) - 1 = i
  BY DEF IsList
<1> QED
  BY <1>1, <1>2, <1>3, <1>4

\* Nothing comes before the first instruction.
LEMMA AtFirst ==
    ASSUME NEW insts, IsList(insts)
    PROVE  /\ \A type : Before(insts, type, 1) = {}
           /\ WorkdirAt(insts, 1) = "/" /\ UserAt(insts, 1) = "root"
           /\ EnvAt(insts, 1) = <<>> /\ RunsTo(insts, 1) = <<>>
<1>1. \A type : Before(insts, type, 1) = {}
  BY DEF Before, IsList
<1>2. EnvAt(insts, 1) = <<>>
  <2>1. Before(insts, "ENV", 1) = {}
    BY <1>1
  <2>2. {BeforeEquals(insts[j].value) : j \in Before(insts, "ENV", 1)} = {}
    BY <2>1
  <2> QED
    BY <2>2 DEF EnvAt
<1>3. RunsTo(insts, 1) = <<>>
  <2>1. 1 .. 1 - 1 = {}
    OBVIOUS
  <2>2. [j \in 1 .. 1 - 1 |-> IF insts[j].type = "RUN" THEN <<RunAt(insts, j)>> ELSE <<>>] = <<>>
    BY <2>1
  <2> QED
    BY <2>2, FlatEmpty DEF RunsTo
<1>4. WorkdirAt(insts, 1) = "/" /\ UserAt(insts, 1) = "root"
  BY <1>1 DEF WorkdirAt, UserAt
<1> QED
  BY <1>1, <1>2, <1>3, <1>4

\* Each setting after an instruction, by the one before it.
LEMMA WorkdirNext ==
    ASSUME NEW insts, IsList(insts), NEW i \in DOMAIN insts
    PROVE  WorkdirAt(insts, i + 1) = IF insts[i].type = "WORKDIR" THEN Word(insts[i].value)
                                     ELSE WorkdirAt(insts, i)
<1> DEFINE S == Before(insts, "WORKDIR", i)
           T == Before(insts, "WORKDIR", i + 1)
<1>1. /\ T = S \cup (IF insts[i].type = "WORKDIR" THEN {i} ELSE {})
      /\ S \in SUBSET Nat /\ i \in Nat /\ \A j \in S : j < i
  BY BeforeNext
<1>2. CASE insts[i].type = "WORKDIR"
  <2>1. T \in SUBSET Nat /\ i \in T /\ \A k \in T : k <= i
    BY <1>1, <1>2
  <2>2. LastOf(T) = i /\ T # {}
    <3> HIDE DEF T
    <3> QED
      BY <2>1, LastIs
  <2> QED
    BY <1>2, <2>2 DEF WorkdirAt
<1>3. CASE insts[i].type # "WORKDIR"
  BY <1>1, <1>3 DEF WorkdirAt
<1> QED
  BY <1>2, <1>3

LEMMA UserNext ==
    ASSUME NEW insts, IsList(insts), NEW i \in DOMAIN insts
    PROVE  UserAt(insts, i + 1) = IF insts[i].type = "USER" THEN Word(insts[i].value)
                                  ELSE UserAt(insts, i)
<1> DEFINE S == Before(insts, "USER", i)
           T == Before(insts, "USER", i + 1)
<1>1. /\ T = S \cup (IF insts[i].type = "USER" THEN {i} ELSE {})
      /\ S \in SUBSET Nat /\ i \in Nat /\ \A j \in S : j < i
  BY BeforeNext
<1>2. CASE insts[i].type = "USER"
  <2>1. T \in SUBSET Nat /\ i \in T /\ \A k \in T : k <= i
    BY <1>1, <1>2
  <2>2. LastOf(T) = i /\ T # {}
    <3> HIDE DEF T
    <3> QED
      BY <2>1, LastIs
  <2> QED
    BY <1>2, <2>2 DEF UserAt
<1>3. CASE insts[i].type # "USER"
  BY <1>1, <1>3 DEF UserAt
<1> QED
  BY <1>2, <1>3

LEMMA EnvNext ==
    ASSUME NEW insts, IsList(insts), NEW i \in DOMAIN insts
    PROVE  EnvAt(insts, i + 1) = IF insts[i].type = "ENV" THEN With(EnvAt(insts, i), insts[i].value)
                                 ELSE EnvAt(insts, i)
<1> DEFINE S == Before(insts, "ENV", i)
           T == Before(insts, "ENV", i + 1)
           Name(j) == BeforeEquals(insts[j].value)
           New(k) == {j \in T : Name(j) = k}
           Old(k) == {j \in S : Name(j) = k}
           Val(j) == AfterEquals(insts[j].value)
<1>1. /\ T = S \cup (IF insts[i].type = "ENV" THEN {i} ELSE {})
      /\ S \in SUBSET Nat /\ i \in Nat /\ \A j \in S : j < i
  BY BeforeNext
<1>2. /\ EnvAt(insts, i) = [k \in {Name(j) : j \in S} |-> Val(LastOf(Old(k)))]
      /\ EnvAt(insts, i + 1) = [k \in {Name(j) : j \in T} |-> Val(LastOf(New(k)))]
  BY DEF EnvAt
<1>3. CASE insts[i].type = "ENV"
  <2>1. T = S \cup {i}
    BY <1>1, <1>3
  <2>2. {Name(j) : j \in T} = {Name(j) : j \in S} \cup {Name(i)}
    <3> HIDE DEF Name, S, T
    <3> QED
      BY <2>1
  <2>3. LastOf(New(Name(i))) = i
    <3>1. New(Name(i)) \in SUBSET Nat /\ i \in New(Name(i)) /\ \A k \in New(Name(i)) : k <= i
      <4>1. T \in SUBSET Nat /\ i \in T /\ \A k \in T : k <= i
        BY <1>1, <1>3
      <4> HIDE DEF Name, S, T
      <4> QED
        BY <4>1
    <3> HIDE DEF New
    <3> QED
      BY <3>1, LastIs
  <2>4. \A k : k # Name(i) => New(k) = Old(k)
    <3> HIDE DEF Name, S, T
    <3> QED
      BY <2>1
  <2>5. With(EnvAt(insts, i), insts[i].value) =
            [k \in {Name(j) : j \in S} \cup {Name(i)} |->
                IF k = Name(i) THEN Val(i) ELSE EnvAt(insts, i)[k]]
    BY <1>2 DEF With
  <2> DEFINE e == EnvAt(insts, i)
             D == {Name(j) : j \in S}
  <2>6. \A k \in D \cup {Name(i)} :
            Val(LastOf(New(k))) = IF k = Name(i) THEN Val(i) ELSE e[k]
    <3>1. \A k \in D : e[k] = Val(LastOf(Old(k)))
      BY <1>2
    <3> HIDE DEF Name, S, T, New, Old, Val, e, D
    <3> QED
      BY <3>1, <2>3, <2>4
  <2>7. EnvAt(insts, i + 1) = [k \in D \cup {Name(i)} |-> Val(LastOf(New(k)))]
    BY <1>2, <2>2
  <2>8. EnvAt(insts, i + 1) = With(EnvAt(insts, i), insts[i].value)
    <3> HIDE DEF Name, S, T, New, Old, Val, D
    <3> QED
      BY <2>5, <2>6, <2>7 DEF D
  <2> QED
    BY <1>3, <2>8
<1>4. CASE insts[i].type # "ENV"
  <2>1. T = S
    BY <1>1, <1>4
  <2> QED
    BY <2>1, <1>2, <1>4
<1> QED
  BY <1>3, <1>4

\* What has been run after an instruction.
LEMMA RunsNext ==
    ASSUME NEW insts, IsList(insts), NEW i \in DOMAIN insts
    PROVE  /\ RunsTo(insts, i + 1) =
                  IF insts[i].type = "RUN" THEN Append(RunsTo(insts, i), RunAt(insts, i))
                  ELSE RunsTo(insts, i)
           /\ RunsTo(insts, i) \in Seq({RunAt(insts, j) : j \in Nat})
<1> DEFINE R(j) == IF insts[j].type = "RUN" THEN <<RunAt(insts, j)>> ELSE <<>>
           X == {RunAt(insts, j) : j \in Nat}
           N == i - 1
           f == [j \in 1 .. N + 1 |-> R(j)]
           g == [j \in 1 .. N |-> R(j)]
<1>1. N \in Nat /\ N + 1 = i /\ i \in Nat /\ (i + 1) - 1 = i
  BY DEF IsList
<1>2. \A j \in Nat : R(j) \in Seq(X)
  <2>1. ASSUME NEW j \in Nat
        PROVE  <<RunAt(insts, j)>> \in Seq(X) /\ <<>> \in Seq(X)
    <3>1. RunAt(insts, j) \in X
      OBVIOUS
    <3> HIDE DEF X
    <3> QED
      BY <3>1, Single, EmptySeq, Zenon
  <2> QED
    BY <2>1
<1>3. RunsTo(insts, i) = Flat(g) /\ RunsTo(insts, i + 1) = Flat(f)
  BY <1>1 DEF RunsTo
<1>4. f[N + 1] = R(i) /\ \A j \in 1 .. N : f[j] = R(j)
  <2> HIDE DEF R, N
  <2> QED
    BY <1>1
<1>5. f \in [1 .. N + 1 -> Seq(X)]
  <2>1. \A j \in 1 .. N + 1 : R(j) \in Seq(X)
    <3> HIDE DEF R, X, N
    <3> QED
      BY <1>1, <1>2
  <2> HIDE DEF R, X, N
  <2> QED
    BY <2>1
<1>6. g = [j \in 1 .. N |-> f[j]]
  <2> HIDE DEF R, X, N, f
  <2> QED
    BY <1>4
<1>7. g \in Seq(Seq(X)) /\ f = Append(g, R(i))
  <2> HIDE DEF R, X, N, f, g
  <2>1. LET h == [m \in 1 .. N |-> f[m]] IN h \in Seq(Seq(X)) /\ f = Append(h, f[N + 1])
    BY <1>1, <1>5, Initial
  <2> QED
    BY <2>1, <1>4, <1>6
<1>8. R(i) \in Seq(X)
  BY <1>1, <1>2
<1>9. Flat(f) = Flat(g) \o R(i) /\ Flat(g) \in Seq(X)
  <2> HIDE DEF R, X, N, f, g
  <2> QED
    BY <1>7, <1>8, FlatAppend
<1>10. CASE insts[i].type = "RUN"
  <2>1. R(i) = <<RunAt(insts, i)>> /\ RunAt(insts, i) \in X
    BY <1>10, <1>1
  <2>2. Flat(g) \o <<RunAt(insts, i)>> = Append(Flat(g), RunAt(insts, i))
    <3> HIDE DEF g, X
    <3> QED
      BY <1>9, <2>1, Appended
  <2> QED
    BY <1>3, <1>9, <1>10, <2>1, <2>2
<1>11. CASE insts[i].type # "RUN"
  <2>1. R(i) = <<>>
    BY <1>11
  <2>2. Flat(g) \o <<>> = Flat(g)
    <3> HIDE DEF g, X
    <3> QED
      BY <1>9, ConcatEmptySeq
  <2> QED
    BY <1>3, <1>9, <1>11, <2>1, <2>2
<1> QED
  BY <1>3, <1>9, <1>10, <1>11

-----------------------------------------------------------------------------
(***************************************************************************)
(* The executor against that meaning.                                      *)
(***************************************************************************)
\* The COPY lines before i, carried out: what each could find, and what is left of it.
CopiesAt(insts, i, fs) ==
    LET copies == Before(insts, "COPY", i) IN
    \A n \in copies :
        /\ Word(insts[n].args[1]) \in DOMAIN Context
        /\ /\ To(insts, n) \in Paths
           /\ \A m \in copies : m > n => To(insts, m) \notin Above(To(insts, n))
           => fs[To(insts, n)] = CopyAt(insts, n)

\* Nothing else of the context is in the guest.
ContextAt(insts, i, fs) ==
    \A q \in Paths : fs[q].what \in DOMAIN Context =>
        \E n \in Before(insts, "COPY", i) : q = To(insts, n) /\ fs[q] = CopyAt(insts, n)

\* The working directory is one, or a COPY was put over it or over one it is in.
DirThere(insts, i, fs, workdir) ==
    \/ IsDir(fs, workdir)
    \/ \E n \in Before(insts, "COPY", i) : To(insts, n) \in Above(workdir)

\* The RUN lines before i, if the working directory of each stood.
StandsTo(insts, i) ==
    \A r \in Before(insts, "RUN", i), n \in Before(insts, "COPY", i) :
        n < r => To(insts, n) \notin Above(WorkdirAt(insts, r))
RunsAt(insts, i, runs) ==
    /\ \E U : runs \in Seq(U)
    /\ SameCommands(runs, RunsTo(insts, i))
    /\ StandsTo(insts, i) => runs = RunsTo(insts, i)

\* b is where an executor is that has carried out the instructions before i.
Executed(insts, i, b) ==
    /\ b.workdir = WorkdirAt(insts, i) /\ b.user = UserAt(insts, i)
    /\ b.env = EnvAt(insts, i) /\ RunsAt(insts, i, b.runs)
    /\ DOMAIN b.fs = Paths /\ CopiesAt(insts, i, b.fs) /\ ContextAt(insts, i, b.fs)
    /\ DirThere(insts, i, b.fs, b.workdir)

Doing(b) ==
    /\ b.call \in Builds
    /\ b.cagefile = parseCagefile(b.call) /\ b.cagefile.ok
    /\ b.i \in 1 .. Len(b.cagefile.insts) + 1
    /\ Executed(b.cagefile.insts, b.i, b)

BeforeRun == {"probe", "dir", "overlay", "keys", "iso", "define", "save", "start", "mark", "ssh"}
AfterRun == {"stop", "stopped", "copy", "digest", "ref"}
Active == BeforeRun \cup {"run"} \cup AfterRun

ExecutorInv ==
    build.pc \in Active =>
        /\ Doing(build)
        /\ build.pc \in BeforeRun => build.i = 1
        /\ build.pc \in AfterRun => build.i = Len(build.cagefile.insts) + 1

LayersOfUser == \A p \in Procs : proc[p].layer # NoImage => proc[p].layer.of = "user"

BuiltInv ==
    BuiltImage =>
        /\ built.call \in Builds
        /\ parseCagefile(built.call).ok /\ built.insts = parseCagefile(built.call).insts
        /\ Executed(built.insts, Len(built.insts) + 1, built)

\* What a COPY puts somewhere is something, and mkdir replaces nothing but Nothing.
LEMMA CopyIsThere ==
    ASSUME NEW insts, NEW n, Word(insts[n].args[1]) \in DOMAIN Context
    PROVE  CopyAt(insts, n) # Nothing
<1>1. Word(insts[n].args[1]) # "none"
  BY CagefileBuildAssumption
<1>2. CopyAt(insts, n).what = Word(insts[n].args[1]) /\ Nothing.what = "none"
  BY DEF CopyAt, Nothing
<1> QED
  BY <1>1, <1>2

FsKept(fs, new) ==
    /\ DOMAIN new = Paths
    /\ \A q \in Paths : new[q] = fs[q] \/ (fs[q] = Nothing /\ new[q].what = "dir")

LEMMA MkdirKeeps ==
    ASSUME NEW fs, NEW p, NEW user
    PROVE  FsKept(fs, Mkdir(fs, p, user))
BY DEF FsKept, Mkdir, Missing, Directory

\* An instruction that is no COPY leaves the copies as they are.
LEMMA CopiesOther ==
    ASSUME NEW insts, IsList(insts), NEW i \in DOMAIN insts, insts[i].type # "COPY",
           NEW fs, NEW new, CopiesAt(insts, i, fs), FsKept(fs, new)
    PROVE  CopiesAt(insts, i + 1, new)
<1>1. Before(insts, "COPY", i + 1) = Before(insts, "COPY", i)
  BY BeforeNext
<1> SUFFICES ASSUME NEW n \in Before(insts, "COPY", i)
             PROVE  /\ Word(insts[n].args[1]) \in DOMAIN Context
                    /\ /\ To(insts, n) \in Paths
                       /\ \A m \in Before(insts, "COPY", i) : m > n => To(insts, m) \notin Above(To(insts, n))
                       => new[To(insts, n)] = CopyAt(insts, n)
  BY <1>1 DEF CopiesAt
<1>2. Word(insts[n].args[1]) \in DOMAIN Context
  BY DEF CopiesAt
<1>3. ASSUME To(insts, n) \in Paths,
             \A m \in Before(insts, "COPY", i) : m > n => To(insts, m) \notin Above(To(insts, n))
      PROVE  new[To(insts, n)] = CopyAt(insts, n)
  <2>1. fs[To(insts, n)] = CopyAt(insts, n)
    BY <1>3 DEF CopiesAt
  <2>2. fs[To(insts, n)] # Nothing
    BY <2>1, <1>2, CopyIsThere
  <2> QED
    BY <2>1, <2>2, <1>3 DEF FsKept
<1> QED
  BY <1>2, <1>3

\* A COPY adds one, and undoes those it is put over.
LEMMA CopiesCopy ==
    ASSUME NEW insts, IsList(insts), NEW i \in DOMAIN insts, insts[i].type = "COPY",
           Word(insts[i].args[1]) \in DOMAIN Context,
           NEW fs, NEW new, CopiesAt(insts, i, fs), FsKept(fs, new)
    PROVE  CopiesAt(insts, i + 1, Placed(new, Word(insts[i].args[1]), To(insts, i), UserAt(insts, i)))
<1> DEFINE old == Before(insts, "COPY", i)
           all == Before(insts, "COPY", i + 1)
           src == Word(insts[i].args[1])
           dest == To(insts, i)
           placed == Placed(new, src, dest, UserAt(insts, i))
<1>1. all = old \cup {i} /\ old \in SUBSET Nat /\ i \in Nat /\ \A j \in old : j < i
  BY BeforeNext
<1> SUFFICES ASSUME NEW n \in all
             PROVE  /\ Word(insts[n].args[1]) \in DOMAIN Context
                    /\ /\ To(insts, n) \in Paths
                       /\ \A m \in all : m > n => To(insts, m) \notin Above(To(insts, n))
                       => placed[To(insts, n)] = CopyAt(insts, n)
  BY DEF CopiesAt
<1>2. Word(insts[n].args[1]) \in DOMAIN Context
  BY <1>1 DEF CopiesAt
<1>3. ASSUME To(insts, n) \in Paths,
             \A m \in all : m > n => To(insts, m) \notin Above(To(insts, n))
      PROVE  placed[To(insts, n)] = CopyAt(insts, n)
  <2>1. CASE n = i
    BY <2>1, <1>3 DEF Placed, CopyAt
  <2>2. CASE n # i
    <3>1. n \in old /\ n < i /\ i > n
      BY <2>2, <1>1
    <3>2. dest \notin Above(To(insts, n))
      BY <3>1, <1>1, <1>3
    <3>3. To(insts, n) # dest
      BY <3>2 DEF Above
    <3>4. fs[To(insts, n)] = CopyAt(insts, n)
      <4>1. \A m \in old : m > n => To(insts, m) \notin Above(To(insts, n))
        BY <1>1, <1>3
      <4> QED
        BY <3>1, <4>1, <1>3 DEF CopiesAt
    <3>5. new[To(insts, n)] = CopyAt(insts, n)
      BY <3>4, <1>2, <1>3, CopyIsThere DEF FsKept
    <3>6. placed[To(insts, n)] = new[To(insts, n)]
      BY <3>2, <3>3, <1>3 DEF Placed
    <3> QED
      BY <3>5, <3>6
  <2> QED
    BY <2>1, <2>2
<1> QED
  BY <1>2, <1>3

\* Nor does any instruction bring more of the context than a COPY does.
LEMMA NoContext ==
    /\ "none" \notin DOMAIN Context /\ "dir" \notin DOMAIN Context
    /\ Nothing.what = "none" /\ \A user : Directory(user).what = "dir"
BY CagefileBuildAssumption DEF Nothing, Directory

LEMMA ContextOther ==
    ASSUME NEW insts, IsList(insts), NEW i \in DOMAIN insts, insts[i].type # "COPY",
           NEW fs, NEW new, ContextAt(insts, i, fs), FsKept(fs, new)
    PROVE  ContextAt(insts, i + 1, new)
<1>1. Before(insts, "COPY", i + 1) = Before(insts, "COPY", i)
  BY BeforeNext
<1>2. ASSUME NEW q \in Paths, new[q].what \in DOMAIN Context
      PROVE  new[q] = fs[q] /\ fs[q].what \in DOMAIN Context
  BY <1>2, NoContext DEF FsKept
<1> QED
  BY <1>1, <1>2 DEF ContextAt

LEMMA ContextCopy ==
    ASSUME NEW insts, IsList(insts), NEW i \in DOMAIN insts, insts[i].type = "COPY",
           NEW fs, NEW new, ContextAt(insts, i, fs), FsKept(fs, new)
    PROVE  ContextAt(insts, i + 1, Placed(new, Word(insts[i].args[1]), To(insts, i), UserAt(insts, i)))
<1> DEFINE old == Before(insts, "COPY", i)
           all == Before(insts, "COPY", i + 1)
           dest == To(insts, i)
           placed == Placed(new, Word(insts[i].args[1]), dest, UserAt(insts, i))
<1>1. all = old \cup {i}
  BY BeforeNext
<1> SUFFICES ASSUME NEW q \in Paths, placed[q].what \in DOMAIN Context
             PROVE  \E n \in all : q = To(insts, n) /\ placed[q] = CopyAt(insts, n)
  BY DEF ContextAt
<1>2. CASE q = dest
  BY <1>1, <1>2 DEF Placed, CopyAt
<1>3. CASE q # dest
  <2>1. placed[q] \in {Nothing, new[q]}
    BY <1>3 DEF Placed
  <2>2. placed[q] = new[q] /\ new[q].what \in DOMAIN Context
    BY <2>1, NoContext
  <2>3. new[q] = fs[q]
    BY <2>2, NoContext DEF FsKept
  <2>4. PICK n \in old : q = To(insts, n) /\ fs[q] = CopyAt(insts, n)
    BY <2>2, <2>3 DEF ContextAt
  <2> QED
    BY <1>1, <2>2, <2>3, <2>4
<1> QED
  BY <1>2, <1>3

\* A working directory stays until a COPY is put over it.
LEMMA DirKept ==
    ASSUME NEW fs, NEW new, FsKept(fs, new), NEW p, IsDir(fs, p)
    PROVE  IsDir(new, p)
<1>1. p \in Paths /\ fs[p] # Nothing
  BY NoContext DEF IsDir
<1>2. new[p] = fs[p]
  BY <1>1 DEF FsKept
<1> QED
  BY <1>1, <1>2 DEF IsDir

LEMMA DirOther ==
    ASSUME NEW insts, IsList(insts), NEW i \in DOMAIN insts, insts[i].type # "COPY",
           NEW fs, NEW new, NEW workdir, DirThere(insts, i, fs, workdir), FsKept(fs, new)
    PROVE  DirThere(insts, i + 1, new, workdir)
<1>1. Before(insts, "COPY", i + 1) = Before(insts, "COPY", i)
  <2>1. Before(insts, "COPY", i + 1) =
           Before(insts, "COPY", i) \cup (IF insts[i].type = "COPY" THEN {i} ELSE {})
    BY BeforeNext
  <2> QED
    BY <2>1
<1> QED
  BY <1>1, DirKept DEF DirThere

LEMMA DirCopy ==
    ASSUME NEW insts, IsList(insts), NEW i \in DOMAIN insts, insts[i].type = "COPY",
           NEW fs, NEW new, NEW workdir, DirThere(insts, i, fs, workdir), FsKept(fs, new),
           NEW src, NEW user
    PROVE  DirThere(insts, i + 1, Placed(new, src, To(insts, i), user), workdir)
<1> DEFINE placed == Placed(new, src, To(insts, i), user)
<1>1. Before(insts, "COPY", i + 1) = Before(insts, "COPY", i) \cup {i}
  BY BeforeNext
<1>2. CASE To(insts, i) \in Above(workdir)
  BY <1>1, <1>2 DEF DirThere
<1>3. CASE To(insts, i) \notin Above(workdir) /\ IsDir(fs, workdir)
  <2>1. IsDir(new, workdir) /\ workdir \in Paths
    BY <1>3, DirKept DEF IsDir
  <2>2. placed[workdir] = new[workdir]
    <3>1. workdir # To(insts, i)
      BY <1>3 DEF Above
    <3> QED
      BY <1>3, <2>1, <3>1 DEF Placed
  <2> QED
    BY <2>1, <2>2 DEF DirThere, IsDir
<1> QED
  BY <1>1, <1>2, <1>3 DEF DirThere

\* mkdir -p makes a directory.
LEMMA MkdirMakes ==
    ASSUME NEW fs, NEW p, NEW user, MayMkdir(fs, p, user)
    PROVE  IsDir(Mkdir(fs, p, user), p)
<1>1. p \in Paths /\ \A q \in Above(p) \ Missing(fs, p) : IsDir(fs, q)
  BY DEF MayMkdir
<1>2. p \in Above(p)
  BY DEF Above
<1>3. CASE p \in Missing(fs, p)
  BY <1>1, <1>3 DEF Mkdir, IsDir, Directory
<1>4. CASE p \notin Missing(fs, p)
  BY <1>1, <1>2, <1>4, MkdirKeeps, DirKept
<1> QED
  BY <1>3, <1>4

\* The RUN lines from one instruction to the next.
LEMMA StandsNext ==
    ASSUME NEW insts, IsList(insts), NEW i \in DOMAIN insts, StandsTo(insts, i + 1)
    PROVE  /\ StandsTo(insts, i)
           /\ insts[i].type = "RUN" =>
                 \A n \in Before(insts, "COPY", i) : To(insts, n) \notin Above(WorkdirAt(insts, i))
<1>1. /\ Before(insts, "RUN", i) \subseteq Before(insts, "RUN", i + 1)
      /\ Before(insts, "COPY", i) \subseteq Before(insts, "COPY", i + 1)
      /\ insts[i].type = "RUN" => i \in Before(insts, "RUN", i + 1)
      /\ \A n \in Before(insts, "COPY", i) : n < i
  BY BeforeNext
<1> QED
  BY <1>1 DEF StandsTo

\* A text over some tokens is one over more.
LEMMA SeqWider ==
    ASSUME NEW A, NEW B, A \subseteq B, NEW s \in Seq(A)
    PROVE  s \in Seq(B)
OBVIOUS

\* What a RUN adds to both.
LEMMA SameAppended ==
    ASSUME NEW U, NEW ran \in Seq(U), NEW X, NEW runs \in Seq(X), SameCommands(ran, runs),
           NEW r, NEW t \in X, r.cmd = t.cmd, r.as = t.as
    PROVE  /\ \E V : Append(ran, r) \in Seq(V)
           /\ SameCommands(Append(ran, r), Append(runs, t))
<1> DEFINE V == U \cup {r}
           more1 == Append(ran, r)
           more2 == Append(runs, t)
<1>1. ran \in Seq(V) /\ r \in V
  <2>1. U \subseteq V /\ r \in V
    OBVIOUS
  <2> HIDE DEF V
  <2> QED
    BY <2>1, SeqWider
<1> HIDE DEF V
<1>2. /\ more1 \in Seq(V) /\ Len(more1) = Len(ran) + 1 /\ more1[Len(ran) + 1] = r
      /\ \A i \in 1 .. Len(ran) : more1[i] = ran[i]
  BY <1>1, Appended
<1>3. /\ more2 \in Seq(X) /\ Len(more2) = Len(runs) + 1 /\ more2[Len(runs) + 1] = t
      /\ \A i \in 1 .. Len(runs) : more2[i] = runs[i]
  BY Appended
<1> HIDE DEF more1, more2
<1>4. /\ Len(ran) \in Nat /\ DOMAIN ran = 1 .. Len(ran)
      /\ Len(runs) \in Nat /\ DOMAIN runs = 1 .. Len(runs)
      /\ DOMAIN more1 = 1 .. Len(more1) /\ DOMAIN more2 = 1 .. Len(more2)
  BY <1>1, <1>2, <1>3, SeqIs
<1>5. Len(ran) = Len(runs)
  <2>1. 1 .. Len(ran) = 1 .. Len(runs)
    BY <1>4 DEF SameCommands
  <2> DEFINE m == Len(ran)
             k == Len(runs)
  <2>2. m \in Nat /\ k \in Nat /\ 1 .. m = 1 .. k
    BY <1>4, <2>1
  <2> HIDE DEF m, k
  <2>3. m = k
    BY <2>2
  <2> QED
    BY <2>3 DEF m, k
<1>6. /\ DOMAIN more1 = DOMAIN more2
      /\ \A n \in DOMAIN more2 : n \in DOMAIN runs \/ n = Len(runs) + 1
  BY <1>2, <1>3, <1>4, <1>5
<1>7. ASSUME NEW n \in DOMAIN more2
      PROVE  more1[n].cmd = more2[n].cmd /\ more1[n].as = more2[n].as
  <2>1. CASE n \in DOMAIN runs
    BY <2>1, <1>2, <1>3, <1>4, <1>5 DEF SameCommands
  <2>2. CASE n = Len(runs) + 1
    BY <2>2, <1>2, <1>3, <1>5
  <2> QED
    BY <1>6, <2>1, <2>2
<1> QED
  BY <1>2, <1>6, <1>7 DEF more1, more2, SameCommands

\* The instructions that a call parses to are a sequence.
LEMMA ListResolved ==
    ASSUME NEW insts, IsList(insts), NEW args
    PROVE  IsList(ResolveArgs(insts, args))
<1> DEFINE r == ResolveArgs(insts, args)
           N == Len(insts)
           S == {r[i] : i \in 1 .. N}
<1>1. N \in Nat /\ DOMAIN r = 1 .. N
  BY DEF IsList, ResolveArgs
<1>2. r = [i \in 1 .. N |-> r[i]]
  BY <1>1 DEF ResolveArgs
<1>3. r \in [1 .. N -> S]
  <2> HIDE DEF r, N
  <2> QED
    BY <1>2
<1>4. Len(r) = N
  <2> HIDE DEF r, N, S
  <2> QED
    BY <1>1, <1>3, IsSeqOf
<1> QED
  BY <1>1, <1>4 DEF IsList

\* A Cagefile and the arguments of a call are over some tokens.
LEMMA Tokenized ==
    ASSUME NEW call \in Builds
    PROVE  \E E : /\ Over(Cagefiles[call.file], E)
                  /\ \A v \in DOMAIN call.args : call.args[v] \in Seq(E)
<1> DEFINE lines == Cagefiles[call.file]
           Of(s) == {s[i] : i \in DOMAIN s}
           T == UNION {Of(lines[n].text) : n \in DOMAIN lines}
           A == UNION {Of(call.args[v]) : v \in DOMAIN call.args}
           E == {" "} \cup T \cup A
<1>1. /\ IsSeq(lines)
      /\ \A n \in DOMAIN lines : lines[n].text \in Seq(Of(lines[n].text)) /\ lines[n].cont \in BOOLEAN
      /\ \A v \in DOMAIN call.args : call.args[v] \in Seq(Of(call.args[v]))
  BY CagefilesAssumption DEF IsSeq
<1>2. HasBlank(E)
  BY DEF HasBlank
<1>3. ASSUME NEW n \in DOMAIN lines
      PROVE  lines[n].text \in Seq(E)
  <2>1. Of(lines[n].text) \subseteq E
    <3> HIDE DEF Of, lines
    <3> QED
      BY <1>3
  <2> HIDE DEF Of, lines, E
  <2> QED
    BY <1>1, <2>1, SeqWider
<1>4. ASSUME NEW v \in DOMAIN call.args
      PROVE  call.args[v] \in Seq(E)
  <2>1. Of(call.args[v]) \subseteq E
    <3> HIDE DEF Of, lines
    <3> QED
      BY <1>4
  <2> HIDE DEF Of, lines, E
  <2> QED
    BY <1>1, <2>1, SeqWider
<1> HIDE DEF E
<1> QED
  BY <1>1, <1>2, <1>3, <1>4 DEF Over

\* What ParseAndValidate accepts is a sequence of instructions over the tokens.
LEMMA ValidTyped ==
    ASSUME NEW E, NEW lines, Over(lines, E), ParseAndValidate(lines).ok
    PROVE  /\ Parse(lines).ok
           /\ ParseAndValidate(lines).insts \in Seq(Parsed(E))
           /\ IsList(ParseAndValidate(lines).insts)
<1> DEFINE out == Parse(lines).out
<1>1. out \in Seq(Parsed(E))
  BY ParseTyped DEF ParserStates
<1>2. /\ Parse(lines).ok /\ {i \in DOMAIN out : out[i].type = "FROM"} = {1}
      /\ ParseAndValidate(lines).insts = Tail(out)
  BY DEF ParseAndValidate, Bad
<1>3. out # <<>>
  <2>1. 1 \in DOMAIN out
    BY <1>2
  <2> QED
    BY <2>1
<1> DEFINE P == Parsed(E)
<1> HIDE DEF out, P
<1>4. Tail(out) \in Seq(P)
  <2>1. out \in Seq(P)
    BY <1>1 DEF P
  <2> QED
    BY <2>1, <1>3, HeadTailProperties
<1>5. IsList(Tail(out))
  BY <1>4, SeqIs DEF IsList
<1> QED
  BY <1>2, <1>4, <1>5 DEF P

\* What a build gets: as many instructions as were parsed, resolved.
LEMMA CagefileParsed ==
    ASSUME NEW call \in Builds
    PROVE  LET p == ParseAndValidate(Cagefiles[call.file]) IN
           /\ parseCagefile(call).ok = p.ok
           /\ parseCagefile(call).insts = ResolveArgs(p.insts, call.args)
           /\ p.ok => IsList(p.insts) /\ IsList(parseCagefile(call).insts)
<1> DEFINE p == ParseAndValidate(Cagefiles[call.file])
<1>1. parseCagefile(call).ok = p.ok /\ parseCagefile(call).insts = ResolveArgs(p.insts, call.args)
  BY DEF parseCagefile, ParseAndValidate, Bad
<1>2. ASSUME p.ok
      PROVE  IsList(p.insts)
  <2>1. PICK E : Over(Cagefiles[call.file], E)
    BY Tokenized
  <2> QED
    BY <2>1, <1>2, ValidTyped
<1> QED
  BY <1>1, <1>2, ListResolved

\* A step that leaves the executor as it is, but for where the build is.
Same(b) ==
    /\ b.call = build.call /\ b.cagefile = build.cagefile /\ b.i = build.i
    /\ b.env = build.env /\ b.workdir = build.workdir /\ b.user = build.user
    /\ b.fs = build.fs /\ b.runs = build.runs

LEMMA DoingSame ==
    ASSUME Doing(build), NEW b, Same(b)
    PROVE  Doing(b)
BY DEF Doing, Same, Executed

\* Steps that leave the executor alone, and those that end the build.
LEMMA StepSame ==
    ASSUME DOMAIN build = BuildFields, NEW next, Step(next)
    PROVE  Same(build') /\ build'.pc = next
BY DEF Step, Same, BuildFields

LEMMA EndedNotActive ==
    ASSUME NEW how, NEW step \in {"ended", "clean"},
           \/ build' = Ended(how) /\ step = "ended"
           \/ build' = [Ended(how) EXCEPT !.pc = step]
    PROVE  build'.pc \notin Active
<1>1. build'.pc = step
  BY NoBuildIs DEF Ended, BuildFields
<1> QED
  BY <1>1 DEF Active, BeforeRun, AfterRun

LEMMA Stops ==
    ASSUME (\E how : Ends(how)) \/ Fails
    PROVE  ExecutorInv'
<1>1. build'.pc \notin Active
  BY EndedNotActive DEF Ends, Fails
<1> QED
  BY <1>1 DEF ExecutorInv

\* A build begins before its first instruction.
LEMMA Begins ==
    ASSUME NEW call \in Builds, BuildStart(call)
    PROVE  ExecutorInv'
<1> DEFINE c == parseCagefile(call)
           b == [NoBuild EXCEPT !.pc = "probe", !.call = call, !.cagefile = c]
<1>1. CASE build' = [NoBuild EXCEPT !.pc = "ended", !.call = call]
  <2>1. build'.pc = "ended"
    BY <1>1, NoBuildIs DEF BuildFields
  <2> QED
    BY <2>1 DEF ExecutorInv, Active, BeforeRun, AfterRun
<1>2. CASE c.ok /\ build' = b
  <2>0. /\ b.pc = "probe" /\ b.call = call /\ b.cagefile = c
        /\ b.i = 1 /\ b.env = <<>> /\ b.workdir = "/" /\ b.user = "root"
        /\ b.fs = Fresh /\ b.runs = <<>>
    BY DEF NoBuild
  <2> HIDE DEF b
  <2>1. IsList(c.insts)
    BY <1>2, CagefileParsed
  <2>2. DOMAIN Fresh = Paths /\ IsDir(Fresh, "/")
    BY CagefileBuildAssumption DEF Fresh, IsDir, Directory
  <2>3. CopiesAt(c.insts, 1, Fresh)
    BY <2>1, AtFirst DEF CopiesAt
  <2>4. ContextAt(c.insts, 1, Fresh)
    <3>1. \A q \in Paths : Fresh[q].what \notin DOMAIN Context
      BY NoContext DEF Fresh
    <3> QED
      BY <3>1 DEF ContextAt
  <2>5. DirThere(c.insts, 1, Fresh, "/")
    BY <2>2 DEF DirThere
  <2>r. (\E U : <<>> \in Seq(U)) /\ SameCommands(<<>>, <<>>)
    BY EmptySeq, Zenon DEF SameCommands
  <2>6. Executed(c.insts, 1, b)
    BY <2>0, <2>1, <2>2, <2>3, <2>4, <2>5, <2>r, AtFirst DEF Executed, RunsAt
  <2>7. 1 \in 1 .. Len(c.insts) + 1
    BY <2>1 DEF IsList
  <2>8. Doing(b)
    BY <1>2, <2>0, <2>6, <2>7 DEF Doing
  <2> QED
    BY <1>2, <2>0, <2>8 DEF ExecutorInv, BeforeRun, AfterRun
<1> QED
  BY <1>1, <1>2 DEF BuildStart

\* Where the executor is at an instruction, and after it.
LEMMA AtInstruction ==
    ASSUME ExecutorInv, In("run"), build.i <= Len(Insts)
    PROVE  /\ IsList(Insts) /\ build.i \in DOMAIN Insts /\ inst = Insts[build.i]
           /\ Doing(build) /\ Executed(Insts, build.i, build)
<1>1. Doing(build)
  BY DEF ExecutorInv, Active, In
<1>2. /\ build.call \in Builds /\ build.cagefile = parseCagefile(build.call) /\ build.cagefile.ok
      /\ build.i \in 1 .. Len(Insts) + 1 /\ Executed(Insts, build.i, build)
  BY <1>1 DEF Doing, Insts
<1>3. IsList(Insts)
  BY <1>2, CagefileParsed DEF Insts
<1>4. build.i \in DOMAIN Insts
  BY <1>2, <1>3 DEF IsList
<1> QED
  BY <1>1, <1>2, <1>3, <1>4 DEF inst

LEMMA Advances ==
    ASSUME ExecutorInv, In("run"), build.i <= Len(Insts),
           NEW b, DOMAIN b = BuildFields, b.pc = "run", b.call = build.call,
           b.cagefile = build.cagefile, b.i = build.i, Done1(b),
           Executed(Insts, build.i + 1, b)
    PROVE  ExecutorInv'
<1>1. /\ build'.pc = "run" /\ build'.call = b.call /\ build'.cagefile = b.cagefile
      /\ build'.i = build.i + 1 /\ build'.env = b.env /\ build'.workdir = b.workdir
      /\ build'.user = b.user /\ build'.fs = b.fs /\ build'.runs = b.runs
  BY DEF Done1, BuildFields
<1>2. build.i + 1 \in 1 .. Len(Insts) + 1
  BY AtInstruction, BeforeNext
<1>3. Executed(Insts, build.i + 1, build')
  BY <1>1 DEF Executed
<1>4. Doing(build')
  BY <1>1, <1>2, <1>3, AtInstruction DEF Doing, Insts
<1> QED
  BY <1>1, <1>4 DEF ExecutorInv, BeforeRun, AfterRun

\* All that an instruction of another kind leaves as it was.
LEMMA SettingsNext ==
    ASSUME NEW insts, IsList(insts), NEW i \in DOMAIN insts, NEW b, Executed(insts, i, b)
    PROVE  /\ insts[i].type # "WORKDIR" => WorkdirAt(insts, i + 1) = b.workdir
           /\ insts[i].type # "USER" => UserAt(insts, i + 1) = b.user
           /\ insts[i].type # "ENV" => EnvAt(insts, i + 1) = b.env
           /\ insts[i].type # "RUN" => RunsAt(insts, i + 1, b.runs)
           /\ insts[i].type # "COPY" =>
                 /\ CopiesAt(insts, i + 1, b.fs) /\ ContextAt(insts, i + 1, b.fs)
                 /\ DirThere(insts, i + 1, b.fs, b.workdir)
           /\ DOMAIN b.fs = Paths
<1>1. /\ FsKept(b.fs, b.fs) /\ CopiesAt(insts, i, b.fs) /\ ContextAt(insts, i, b.fs)
      /\ DirThere(insts, i, b.fs, b.workdir) /\ DOMAIN b.fs = Paths
  BY DEF FsKept, Executed
<1>2. insts[i].type # "COPY" =>
          /\ CopiesAt(insts, i + 1, b.fs) /\ ContextAt(insts, i + 1, b.fs)
          /\ DirThere(insts, i + 1, b.fs, b.workdir)
  BY <1>1, CopiesOther, ContextOther, DirOther
<1>3. insts[i].type # "RUN" => RunsAt(insts, i + 1, b.runs)
  BY StandsNext, RunsNext DEF Executed, RunsAt
<1> QED
  BY <1>1, <1>2, <1>3, WorkdirNext, UserNext, EnvNext DEF Executed

\* One lemma per instruction: each does what the Cagefile says of it.
LEMMA ArgAdvances ==
    ASSUME DOMAIN build = BuildFields, ExecutorInv, ExecArg
    PROVE  ExecutorInv'
<1>1. In("run") /\ build.i <= Len(Insts) /\ inst.type = "ARG" /\ Done1(build)
  BY DEF ExecArg, Executor
<1>2. Executed(Insts, build.i + 1, build)
  <2>1. /\ IsList(Insts) /\ build.i \in DOMAIN Insts /\ Insts[build.i].type = "ARG"
        /\ Executed(Insts, build.i, build)
    BY <1>1, AtInstruction
  <2> QED
    BY <2>1, SettingsNext DEF Executed
<1> QED
  BY <1>1, <1>2, Advances DEF In

LEMMA EnvAdvances ==
    ASSUME DOMAIN build = BuildFields, ExecutorInv, ExecEnv
    PROVE  ExecutorInv'
<1>1. In("run") /\ build.i <= Len(Insts) /\ inst.type = "ENV"
  BY DEF ExecEnv, Executor
<1> DEFINE b == [build EXCEPT !.env = With(@, inst.value)]
<1>2. CASE Fails
  BY <1>2, Stops
<1>3. CASE Done1(b)
  <2>0. /\ DOMAIN b = BuildFields /\ b.pc = build.pc /\ b.call = build.call
        /\ b.cagefile = build.cagefile /\ b.i = build.i /\ b.env = With(build.env, inst.value)
        /\ b.workdir = build.workdir /\ b.user = build.user /\ b.fs = build.fs
        /\ b.runs = build.runs
    BY DEF BuildFields
  <2> HIDE DEF b
  <2>1. /\ IsList(Insts) /\ build.i \in DOMAIN Insts /\ inst = Insts[build.i]
        /\ Executed(Insts, build.i, build)
    BY <1>1, AtInstruction
  <2>2. EnvAt(Insts, build.i + 1) = b.env
    BY <1>1, <2>0, <2>1, EnvNext DEF Executed
  <2>3. Executed(Insts, build.i + 1, b)
    BY <1>1, <2>0, <2>1, <2>2, SettingsNext DEF Executed
  <2> QED
    BY <1>1, <1>3, <2>0, <2>3, Advances DEF In
<1> QED
  BY <1>2, <1>3 DEF ExecEnv

LEMMA WorkdirAdvances ==
    ASSUME DOMAIN build = BuildFields, ExecutorInv, ExecWorkdir
    PROVE  ExecutorInv'
<1>1. In("run") /\ build.i <= Len(Insts) /\ inst.type = "WORKDIR"
  BY DEF ExecWorkdir, Executor
<1> DEFINE dir == Word(inst.value)
           b == [build EXCEPT !.workdir = dir, !.fs = Mkdir(@, dir, "cage")]
<1>2. CASE Fails
  BY <1>2, Stops
<1>3. CASE MayMkdir(build.fs, dir, "cage") /\ Done1(b)
  <2>0. /\ DOMAIN b = BuildFields /\ b.pc = build.pc /\ b.call = build.call
        /\ b.cagefile = build.cagefile /\ b.i = build.i /\ b.env = build.env
        /\ b.workdir = dir /\ b.user = build.user /\ b.fs = Mkdir(build.fs, dir, "cage")
        /\ b.runs = build.runs
    BY DEF BuildFields
  <2> HIDE DEF b
  <2>1. /\ IsList(Insts) /\ build.i \in DOMAIN Insts /\ inst = Insts[build.i]
        /\ Executed(Insts, build.i, build)
    BY <1>1, AtInstruction
  <2>2. WorkdirAt(Insts, build.i + 1) = b.workdir
    BY <1>1, <2>0, <2>1, WorkdirNext
  <2>3. FsKept(build.fs, b.fs)
    BY <2>0, MkdirKeeps
  <2>4. /\ CopiesAt(Insts, build.i + 1, b.fs) /\ ContextAt(Insts, build.i + 1, b.fs)
        /\ DOMAIN b.fs = Paths
    BY <1>1, <2>1, <2>3, CopiesOther, ContextOther DEF Executed, FsKept
  <2>m. DirThere(Insts, build.i + 1, b.fs, b.workdir)
    BY <1>3, <2>0, MkdirMakes DEF DirThere
  <2>5. Executed(Insts, build.i + 1, b)
    BY <1>1, <2>0, <2>1, <2>2, <2>4, <2>m, SettingsNext DEF Executed
  <2> QED
    BY <1>1, <1>3, <2>0, <2>5, Advances DEF In
<1> QED
  BY <1>2, <1>3 DEF ExecWorkdir

LEMMA UserAdvances ==
    ASSUME DOMAIN build = BuildFields, ExecutorInv, ExecUser
    PROVE  ExecutorInv'
<1> DEFINE b == [build EXCEPT !.user = Word(inst.value)]
<1>1. In("run") /\ build.i <= Len(Insts) /\ inst.type = "USER" /\ Done1(b)
  BY DEF ExecUser, Executor
<1>2. /\ DOMAIN b = BuildFields /\ b.pc = build.pc /\ b.call = build.call
      /\ b.cagefile = build.cagefile /\ b.i = build.i /\ b.env = build.env
      /\ b.workdir = build.workdir /\ b.user = Word(inst.value) /\ b.fs = build.fs
      /\ b.runs = build.runs
  BY DEF BuildFields
<1> HIDE DEF b
<1>3. /\ IsList(Insts) /\ build.i \in DOMAIN Insts /\ inst = Insts[build.i]
      /\ Executed(Insts, build.i, build)
  BY <1>1, AtInstruction
<1>4. UserAt(Insts, build.i + 1) = b.user
  BY <1>1, <1>2, <1>3, UserNext
<1>5. Executed(Insts, build.i + 1, b)
  BY <1>1, <1>2, <1>3, <1>4, SettingsNext DEF Executed
<1> QED
  BY <1>1, <1>2, <1>5, Advances DEF In

LEMMA RunAdvances ==
    ASSUME DOMAIN build = BuildFields, ExecutorInv, ExecRun
    PROVE  ExecutorInv'
<1>1. In("run") /\ build.i <= Len(Insts) /\ inst.type = "RUN"
  BY DEF ExecRun, Executor
<1>2. CASE Fails
  BY <1>2, Stops
<1>3. ASSUME NEW run, NEW order,
             Done1([build EXCEPT !.runs = Append(@, run), !.orders = Append(@, order)]),
             run.cmd = inst.value, run.as = build.user,
             IsDir(build.fs, build.workdir) =>
                run = [cmd |-> inst.value, as |-> build.user, in |-> build.workdir, env |-> build.env]
      PROVE  ExecutorInv'
  <2> DEFINE b == [build EXCEPT !.runs = Append(@, run), !.orders = Append(@, order)]
  <2>0. /\ DOMAIN b = BuildFields /\ b.pc = build.pc /\ b.call = build.call
        /\ b.cagefile = build.cagefile /\ b.i = build.i /\ b.env = build.env
        /\ b.workdir = build.workdir /\ b.user = build.user /\ b.fs = build.fs
        /\ b.runs = Append(build.runs, run)
    BY DEF BuildFields
  <2> HIDE DEF b
  <2>1. /\ IsList(Insts) /\ build.i \in DOMAIN Insts /\ inst = Insts[build.i]
        /\ Executed(Insts, build.i, build)
    BY <1>1, AtInstruction
  <2>2. ASSUME StandsTo(Insts, build.i + 1)
        PROVE  run = RunAt(Insts, build.i)
    <3>1. \A n \in Before(Insts, "COPY", build.i) : To(Insts, n) \notin Above(WorkdirAt(Insts, build.i))
      BY <1>1, <2>1, <2>2, StandsNext
    <3>2. DirThere(Insts, build.i, build.fs, build.workdir) /\ build.workdir = WorkdirAt(Insts, build.i)
      BY <2>1 DEF Executed
    <3>3. IsDir(build.fs, build.workdir)
      BY <3>1, <3>2 DEF DirThere
    <3> QED
      BY <1>3, <2>1, <3>3 DEF Executed, RunAt
  <2>r. /\ RunsTo(Insts, build.i + 1) = Append(RunsTo(Insts, build.i), RunAt(Insts, build.i))
        /\ RunsTo(Insts, build.i) \in Seq({RunAt(Insts, j) : j \in Nat})
        /\ RunAt(Insts, build.i) \in {RunAt(Insts, j) : j \in Nat}
    <3>1. build.i \in Nat /\ Insts[build.i].type = "RUN"
      BY <1>1, <2>1 DEF IsList
    <3>2. RunAt(Insts, build.i) \in {RunAt(Insts, j) : j \in Nat}
      BY <3>1
    <3> QED
      BY <2>1, <3>1, <3>2, RunsNext
  <2>s. /\ \E U : b.runs \in Seq(U)
        /\ SameCommands(b.runs, RunsTo(Insts, build.i + 1))
    <3> DEFINE t == RunAt(Insts, build.i)
               X == {RunAt(Insts, j) : j \in Nat}
               runs == RunsTo(Insts, build.i)
    <3>1. run.cmd = t.cmd /\ run.as = t.as
      BY <1>3, <2>1 DEF Executed, RunAt
    <3>2. SameCommands(build.runs, runs) /\ \E U : build.runs \in Seq(U)
      BY <2>1 DEF Executed, RunsAt
    <3>3. runs \in Seq(X) /\ t \in X /\ RunsTo(Insts, build.i + 1) = Append(runs, t)
      BY <2>r
    <3> HIDE DEF t, X, runs
    <3>4. PICK U : build.runs \in Seq(U)
      BY <3>2
    <3>5. /\ \E V : Append(build.runs, run) \in Seq(V)
          /\ SameCommands(Append(build.runs, run), Append(runs, t))
      BY <3>1, <3>2, <3>3, <3>4, SameAppended
    <3> QED
      BY <2>0, <3>3, <3>5
  <2>3. RunsAt(Insts, build.i + 1, b.runs)
    BY <1>1, <2>0, <2>1, <2>2, <2>r, <2>s, StandsNext DEF Executed, RunsAt
  <2>4. Executed(Insts, build.i + 1, b)
    BY <1>1, <2>0, <2>1, <2>3, SettingsNext DEF Executed
  <2> QED
    BY <1>1, <1>3, <2>0, <2>4, Advances DEF In, b
<1>4. ASSUME NEW order,
             NEW run, run = [cmd |-> inst.value, as |-> build.user,
                   in |-> IF IsDir(build.fs, build.workdir) THEN build.workdir ELSE Login,
                   env |-> IF IsDir(build.fs, build.workdir) THEN build.env
                           ELSE Without(build.env, Head(order))],
             Done1([build EXCEPT !.runs = Append(@, run), !.orders = Append(@, order)])
      PROVE  ExecutorInv'
  <2>1. run.cmd = inst.value /\ run.as = build.user
    BY <1>4
  <2>2. IsDir(build.fs, build.workdir) =>
            run = [cmd |-> inst.value, as |-> build.user, in |-> build.workdir, env |-> build.env]
    BY <1>4
  <2> QED
    BY <1>3, <1>4, <2>1, <2>2
<1> QED
  BY <1>2, <1>4 DEF ExecRun

LEMMA CopyAdvances ==
    ASSUME DOMAIN build = BuildFields, ExecutorInv, ExecCopy
    PROVE  ExecutorInv'
<1>1. In("run") /\ build.i <= Len(Insts) /\ inst.type = "COPY"
  BY DEF ExecCopy, Executor
<1> DEFINE src == Word(inst.args[1])
           dest == Dest(inst.args, build.workdir)
           above == IF Slashed(inst.args) THEN dest ELSE Parent[dest]
           made == Mkdir(build.fs, above, "root")
           b == [build EXCEPT !.fs = Placed(Mkdir(@, above, "root"), src, dest, build.user)]
<1>2. CASE Fails
  BY <1>2, Stops
<1>3. CASE src \in DOMAIN Context /\ Done1(b)
  <2>0. /\ DOMAIN b = BuildFields /\ b.pc = build.pc /\ b.call = build.call
        /\ b.cagefile = build.cagefile /\ b.i = build.i /\ b.env = build.env
        /\ b.workdir = build.workdir /\ b.user = build.user
        /\ b.fs = Placed(made, src, dest, build.user)
        /\ b.runs = build.runs
    BY DEF BuildFields
  <2> HIDE DEF b
  <2>1. /\ IsList(Insts) /\ build.i \in DOMAIN Insts /\ inst = Insts[build.i]
        /\ Executed(Insts, build.i, build)
    BY <1>1, AtInstruction
  <2>2. dest = To(Insts, build.i) /\ build.user = UserAt(Insts, build.i)
    BY <2>1 DEF Executed, To
  <2>3. FsKept(build.fs, made)
    BY MkdirKeeps
  <2>4. src = Word(Insts[build.i].args[1])
    BY <2>1
  <2> HIDE DEF made, dest, src
  <2>5. CopiesAt(Insts, build.i + 1, Placed(made, src, dest, build.user))
    BY <1>1, <1>3, <2>1, <2>2, <2>3, <2>4, CopiesCopy DEF Executed
  <2>c. ContextAt(Insts, build.i + 1, Placed(made, src, dest, build.user))
    BY <1>1, <2>1, <2>2, <2>3, <2>4, ContextCopy DEF Executed
  <2>d. DirThere(Insts, build.i + 1, Placed(made, src, dest, build.user), build.workdir)
    BY <1>1, <2>1, <2>2, <2>3, DirCopy DEF Executed
  <2>6. DOMAIN Placed(made, src, dest, build.user) = Paths
    BY DEF Placed
  <2>7. Executed(Insts, build.i + 1, b)
    BY <1>1, <2>0, <2>1, <2>5, <2>c, <2>d, <2>6, SettingsNext DEF Executed
  <2> QED
    BY <1>1, <1>3, <2>0, <2>7, Advances DEF In
<1> QED
  BY <1>2, <1>3 DEF ExecCopy

\* What becomes of the build's place in Active when it goes on to the next step.
LEMMA GoesTo ==
    ASSUME DOMAIN build = BuildFields, ExecutorInv, build.pc \in Active, NEW b,
           Same(b), build' = b,
           \/ build.pc \in BeforeRun /\ b.pc \in BeforeRun \cup {"run"}
           \/ build.pc \in AfterRun /\ b.pc \in AfterRun
    PROVE  ExecutorInv'
<1>1. Doing(build)
  BY DEF ExecutorInv
<1>2. Doing(b)
  BY <1>1, DoingSame
<1> QED
  BY <1>2 DEF ExecutorInv, Same, BeforeRun, AfterRun

\* The same for Step, the end of the instructions, and every step of a build.
LEMMA NextStep ==
    ASSUME DOMAIN build = BuildFields, ExecutorInv, NEW next, Step(next),
           \/ build.pc \in BeforeRun /\ next \in BeforeRun \cup {"run"}
           \/ build.pc \in AfterRun /\ next \in AfterRun
    PROVE  ExecutorInv'
BY StepSame, GoesTo DEF Active

LEMMA DoneAdvances ==
    ASSUME DOMAIN build = BuildFields, ExecutorInv, ExecDone
    PROVE  ExecutorInv'
<1>1. build.pc = "run" /\ build.i > Len(Insts) /\ Step("stop")
  BY DEF ExecDone, In
<1>2. Doing(build)
  BY <1>1 DEF ExecutorInv, Active
<1>3. Same(build') /\ build'.pc = "stop"
  BY <1>1, StepSame
<1>4. Doing(build')
  BY <1>2, <1>3, DoingSame
<1>5. build.i = Len(build.cagefile.insts) + 1
  <2>1. build.call \in Builds /\ build.cagefile = parseCagefile(build.call) /\ build.cagefile.ok
        /\ build.i \in 1 .. Len(build.cagefile.insts) + 1
    BY <1>2 DEF Doing
  <2>2. Len(build.cagefile.insts) \in Nat
    BY <2>1, CagefileParsed DEF IsList
  <2> QED
    BY <1>1, <2>1, <2>2 DEF Insts
<1> QED
  BY <1>3, <1>4, <1>5 DEF ExecutorInv, Same, BeforeRun, AfterRun

LEMMA ExecutorNext ==
    ASSUME DOMAIN build = BuildFields, ExecutorInv, BuildNext
    PROVE  ExecutorInv'
<1>1. CASE BuildProbe
  <2>1. CASE \E how : Ends(how)
    BY <2>1, Stops
  <2>2. CASE build' = [build EXCEPT !.pc = "dir", !.seen = Seen]
    <3>1. Same(build') /\ build'.pc = "dir" /\ build.pc = "probe"
      BY <1>1, <2>2 DEF BuildProbe, In, Same, BuildFields
    <3> QED
      BY <3>1, GoesTo DEF Active, BeforeRun
  <2> QED
    BY <1>1, <2>1, <2>2 DEF BuildProbe
<1>2. CASE BuildDir \/ BuildOverlay \/ BuildKeys \/ BuildISO \/ BuildDefine \/ BuildSave
  <2>1. CASE \E how : Ends(how)
    BY <2>1, Stops
  <2>2. CASE \E next \in BeforeRun : Step(next) /\ build.pc \in BeforeRun
    BY <2>2, NextStep
  <2> QED
    BY <1>2, <2>1, <2>2 DEF BuildDir, BuildOverlay, BuildKeys, BuildISO, BuildDefine, BuildSave,
       In, BeforeRun
<1>3. CASE BuildBoot \/ BuildMark \/ BuildSSH
  <2>1. CASE Fails
    BY <2>1, Stops
  <2>2. CASE \E next \in BeforeRun \cup {"run"} : Step(next) /\ build.pc \in BeforeRun
    BY <2>2, NextStep
  <2> QED
    BY <1>3, <2>1, <2>2 DEF BuildBoot, BuildMark, BuildSSH, In, BeforeRun
<1>4. CASE ExecArg \/ ExecEnv \/ ExecWorkdir \/ ExecUser \/ ExecRun \/ ExecCopy \/ ExecDone
  BY <1>4, ArgAdvances, EnvAdvances, WorkdirAdvances, UserAdvances, RunAdvances, CopyAdvances,
     DoneAdvances
<1>5. CASE BuildStop \/ BuildStopped
  <2>1. CASE Fails
    BY <2>1, Stops
  <2>2. CASE \E next \in AfterRun : Step(next) /\ build.pc \in AfterRun
    BY <2>2, NextStep
  <2> QED
    BY <1>5, <2>1, <2>2 DEF BuildStop, BuildStopped, In, AfterRun
<1>6. CASE BuildCopy \/ BuildDigest
  <2>1. CASE Fails
    BY <2>1, Stops
  <2>2. ASSUME NEW next \in {"digest", "ref"}, NEW l, build' = [build EXCEPT !.pc = next, !.layer = l],
               build.pc \in {"copy", "digest"}
        PROVE  ExecutorInv'
    <3>1. Same(build') /\ build'.pc = next
      BY <2>2 DEF Same, BuildFields
    <3> QED
      BY <2>2, <3>1, GoesTo DEF Active, AfterRun
  <2>3. CASE BuildCopy
    BY <2>3, <2>1, <2>2 DEF BuildCopy, In
  <2>4. CASE BuildDigest
    <3>1. [build EXCEPT !.pc = "ref", !.layer = Hashed(@)] =
          [build EXCEPT !.pc = "ref", !.layer = Hashed(build.layer)]
      BY DEF BuildFields
    <3> QED
      BY <2>4, <2>1, <2>2, <3>1 DEF BuildDigest, In
  <2> QED
    BY <1>6, <2>3, <2>4
<1>7. CASE BuildRef
  <2>1. CASE Fails
    BY <2>1, Stops
  <2>2. CASE build' = [Ended("saved") EXCEPT !.pc = "clean"]
    BY <2>2, EndedNotActive DEF ExecutorInv
  <2> QED
    BY <1>7, <2>1, <2>2 DEF BuildRef
<1>8. CASE BuildClean
  BY <1>8, Stops DEF BuildClean
<1> QED
  BY <1>1, <1>2, <1>3, <1>4, <1>5, <1>6, <1>7, <1>8 DEF BuildNext

\* Saving a cage is the only way for the other commands to an image, and it is
\* the user's cage.
LEMMA LayerKept ==
    ASSUME BaseTypeOK, LayersOfUser, NEW p \in Procs, NEW r,
           proc' = [proc EXCEPT ![p] = r],
           r.layer = NoImage \/ r.layer = proc[p].layer \/ r.layer.of = "user"
    PROVE  LayersOfUser'
BY DEF LayersOfUser, BaseTypeOK

LEMMA IdleKept ==
    ASSUME BaseTypeOK, LayersOfUser, NEW p \in Procs,
           \/ Finish(p) \/ \E s : Goto(p, s)
           \/ \E a, s : Become(p, [Idle EXCEPT !.pc = s, !.arch = a])
           \/ \E a, s : Become(p, [Idle EXCEPT !.pc = s, !.name = a])
           \/ \E s, f : Become(p, [proc[p] EXCEPT !.pc = s, !.fd = f])
    PROVE  LayersOfUser'
<1>0. proc[p] \in Process
  BY DEF BaseTypeOK
<1>1. CASE Finish(p)
  BY <1>1, IdleIs, LayerKept DEF Finish, Become
<1>2. ASSUME NEW s, Goto(p, s) PROVE LayersOfUser'
  <2>1. [proc[p] EXCEPT !.pc = s].layer = proc[p].layer
    BY <1>0 DEF Process
  <2> QED
    BY <1>2, <2>1, LayerKept DEF Goto, Become
<1>3. ASSUME NEW a, NEW s, Become(p, [Idle EXCEPT !.pc = s, !.arch = a]) PROVE LayersOfUser'
  <2>1. [Idle EXCEPT !.pc = s, !.arch = a].layer = NoImage
    BY DEF Idle
  <2> QED
    BY <1>3, <2>1, LayerKept DEF Become
<1>4. ASSUME NEW a, NEW s, Become(p, [Idle EXCEPT !.pc = s, !.name = a]) PROVE LayersOfUser'
  <2>1. [Idle EXCEPT !.pc = s, !.name = a].layer = NoImage
    BY DEF Idle
  <2> QED
    BY <1>4, <2>1, LayerKept DEF Become
<1>5. ASSUME NEW s, NEW f, Become(p, [proc[p] EXCEPT !.pc = s, !.fd = f]) PROVE LayersOfUser'
  <2>1. [proc[p] EXCEPT !.pc = s, !.fd = f].layer = proc[p].layer
    BY <1>0 DEF Process
  <2> QED
    BY <1>5, <2>1, LayerKept DEF Become
<1> QED
  BY <1>1, <1>2, <1>3, <1>4, <1>5

\* Renaming and removing the base image change no layer.
LEMMA RelinkKept ==
    ASSUME BaseTypeOK, LayersOfUser, NEW p \in Procs, NEW move,
           \/ \E s : Moved(p, move, s) \/ proc' = [Relink(move) EXCEPT ![p].pc = s]
           \/ proc' = [Relink(move) EXCEPT ![p] = Idle]
    PROVE  LayersOfUser'
<1> DEFINE R == Relink(move)
<1>1. \A q \in Procs : Relink(move)[q].layer = proc[q].layer
  BY DEF Relink, BaseTypeOK, Process
<1>3. DOMAIN R = Procs /\ DOMAIN R[p] = {"pc", "arch", "name", "fd", "seen", "layer"}
  BY DEF Relink, BaseTypeOK, Process
<1>4. \A q \in Procs : R[q].layer = proc[q].layer
  BY <1>1
<1>2. \A q \in Procs : proc'[q].layer \in {proc[q].layer, NoImage}
  <2>1. ASSUME NEW s, Moved(p, move, s)
        PROVE  \A q \in Procs : proc'[q].layer = proc[q].layer
    <3> DEFINE r == [[R[p] EXCEPT !.pc = s] EXCEPT !.fd = "none"]
    <3>1. proc' = [R EXCEPT ![p] = r]
      BY <2>1 DEF Moved
    <3>2. r.layer = R[p].layer
      <4> HIDE DEF R
      <4> QED
        BY <1>3
    <3> HIDE DEF R, r
    <3> QED
      BY <3>1, <3>2, <1>3, <1>4
  <2>2. ASSUME NEW s, proc' = [Relink(move) EXCEPT ![p].pc = s]
        PROVE  \A q \in Procs : proc'[q].layer = proc[q].layer
    <3> DEFINE r == [R[p] EXCEPT !.pc = s]
    <3>1. proc' = [R EXCEPT ![p] = r]
      BY <2>2
    <3>2. r.layer = R[p].layer
      <4> HIDE DEF R
      <4> QED
        BY <1>3
    <3> HIDE DEF R, r
    <3> QED
      BY <3>1, <3>2, <1>3, <1>4
  <2>3. CASE proc' = [Relink(move) EXCEPT ![p] = Idle]
    BY <2>3, <1>1, IdleIs DEF Relink
  <2> QED
    BY <2>1, <2>2, <2>3
<1> QED
  BY <1>2 DEF LayersOfUser

\* No other command writes an image of the temporary cage.
LEMMA OtherImages ==
    ASSUME BaseTypeOK, LayersInv, LayersOfUser, NEW p \in Procs, ProcNext(p)
    PROVE  LayersOfUser' /\ (image' = image \/ image' = NoImage \/ image'.of = "user")
<1>0. proc[p] \in Process
  BY DEF BaseTypeOK
<1>1. CASE \E a \in Arches : Pull(p, a)
  BY <1>1, IdleKept DEF Pull
<1>2. CASE PullCheck(p) \/ PullGet(p) \/ PullConvert(p) \/ PullConverted(p)
  BY <1>2, IdleKept DEF PullCheck, PullGet, PullConvert, PullConverted
<1>3. CASE PullCreate(p) \/ PullCopy(p)
  BY <1>3, IdleKept DEF PullCreate, PullCopy
<1>4. CASE PullRename(p) \/ PullMeta(p) \/ PullRemoveTmp(p) \/ RemoveFile(p)
  <2>1. (\E s : Goto(p, s)) \/ Finish(p) => LayersOfUser'
    BY IdleKept
  <2>2. ASSUME NEW move, NEW s, Moved(p, move, s) PROVE LayersOfUser'
    BY <2>2, RelinkKept
  <2>3. CASE PullRename(p)
    BY <2>3, <2>1, <2>2 DEF PullRename
  <2>4. CASE PullMeta(p)
    BY <2>4, <2>1, <2>2 DEF PullMeta
  <2>5. CASE PullRemoveTmp(p)
    BY <2>5, RelinkKept DEF PullRemoveTmp
  <2>6. CASE RemoveFile(p)
    BY <2>6, <2>1, RelinkKept DEF RemoveFile
  <2> QED
    BY <1>4, <2>3, <2>4, <2>5, <2>6 DEF PullRename, PullMeta, PullRemoveTmp, RemoveFile
<1>5. CASE \E name \in Typed : RemoveImage(p, name)
  BY <1>5, IdleKept DEF RemoveImage
<1>6. CASE RemoveCheck(p) \/ RemoveList(p) \/ RemoveMeta(p)
  BY <1>6, IdleKept DEF RemoveCheck, RemoveList, RemoveMeta
<1>7. CASE Start(p) \/ StartDisk(p) \/ StartSave(p) \/ Crash(p)
  BY <1>7, IdleKept DEF Start, StartDisk, StartSave, Crash
<1>8. CASE SaveCheck(p)
  <2> DEFINE r == [Idle EXCEPT !.pc = "save_copy", !.arch = BaseArch(meta), !.seen = Seen]
  <2>1. Become(p, r) /\ image' = image /\ r.layer = NoImage
    BY <1>8 DEF SaveCheck, Idle
  <2> QED
    BY <2>1, LayerKept DEF Become
<1>9. CASE SaveCopy(p)
  <2> DEFINE l == Copied("user", proc[p].arch, proc[p].seen)
             r == [proc[p] EXCEPT !.pc = "save_digest", !.layer = l]
  <2>1. l.of = "user"
    BY DEF Copied
  <2>2. image' = image /\ (Become(p, r) \/ Finish(p))
    BY <1>9 DEF SaveCopy
  <2> HIDE DEF l
  <2>3. r.layer = l
    BY <1>0 DEF Process
  <2> QED
    BY <2>1, <2>2, <2>3, LayerKept, IdleKept DEF Become
<1>10. CASE SaveDigest(p)
  <2> DEFINE l == Hashed(proc[p].layer)
             r == [proc[p] EXCEPT !.pc = "save_ref", !.layer = l]
  <2>1. image' = image /\ (Become(p, r) \/ Finish(p)) /\ At(p, "save_digest")
    BY <1>10, <1>0 DEF SaveDigest, Process
  <2>2. proc[p].layer \in Image
    BY <2>1 DEF LayersInv, At
  <2>3. l.of = "user"
    <3>1. proc[p].layer.of = "user"
      BY <2>2, NoLayer DEF LayersOfUser
    <3> QED
      BY <3>1, <2>2 DEF Hashed, Image
  <2> HIDE DEF l
  <2>4. r.layer = l
    BY <1>0 DEF Process
  <2> QED
    BY <2>1, <2>3, <2>4, LayerKept, IdleKept DEF Become
<1>11. CASE SaveRef(p)
  <2>1. LayersOfUser' /\ image' = proc[p].layer
    BY <1>11, IdleKept DEF SaveRef
  <2> QED
    BY <2>1 DEF LayersOfUser
<1> QED
  BY <1>1, <1>2, <1>3, <1>4, <1>5, <1>6, <1>7, <1>8, <1>9, <1>10, <1>11 DEF ProcNext

\* Only what saves the build's image touches it, and what is said to be in it.
LEMMA BuildsAside ==
    ASSUME BuildNext
    PROVE  /\ UNCHANGED proc
           /\ UNCHANGED <<image, built>> \/ (BuildRef /\ image' = build.layer)
<1>1. CASE BuildProbe \/ BuildDir \/ BuildOverlay \/ BuildKeys \/ BuildISO \/ BuildDefine \/ BuildSave
  BY <1>1 DEF BuildProbe, BuildDir, BuildOverlay, BuildKeys, BuildISO, BuildDefine, BuildSave, shared
<1>2. CASE BuildBoot \/ BuildMark \/ BuildSSH \/ BuildStop \/ BuildStopped \/ BuildCopy \/ BuildDigest \/ BuildClean
  BY <1>2 DEF BuildBoot, BuildMark, BuildSSH, BuildStop, BuildStopped, BuildCopy, BuildDigest,
     BuildClean, shared
<1>3. CASE ExecArg \/ ExecEnv \/ ExecWorkdir \/ ExecUser \/ ExecRun \/ ExecCopy \/ ExecDone
  BY <1>3 DEF ExecArg, ExecEnv, ExecWorkdir, ExecUser, ExecRun, ExecCopy, ExecDone, Executor, shared
<1>4. CASE BuildRef
  BY <1>4 DEF BuildRef, shared
<1> QED
  BY <1>1, <1>2, <1>3, <1>4 DEF BuildNext

\* What is known of a saved image holds until it is replaced.
LEMMA BuiltStays ==
    ASSUME BuiltInv, UNCHANGED <<image, built>>
    PROVE  BuiltInv'
BY DEF BuiltInv, BuiltImage, Executed, CopiesAt, ContextAt, DirThere, IsDir

LEMMA NotOfTemp ==
    ASSUME image' = NoImage \/ image'.of = "user"
    PROVE  BuiltInv'
BY DEF BuiltInv, BuiltImage

\* The image that a build saves is what it has executed.
LEMMA BuiltByBuild ==
    ASSUME ExecutorInv, BuiltInv, BuildNext
    PROVE  BuiltInv'
<1>1. CASE UNCHANGED <<image, built>>
  BY <1>1, BuiltStays
<1>2. CASE BuildRef /\ ~UNCHANGED <<image, built>>
  <2> DEFINE b == [call |-> build.call, insts |-> Insts, fs |-> build.fs, runs |-> build.runs,
                   orders |-> build.orders, env |-> build.env, user |-> build.user, workdir |-> build.workdir]
  <2>1. build.pc = "ref" /\ built' = b
    BY <1>2 DEF BuildRef, In
  <2>2. Doing(build) /\ build.i = Len(Insts) + 1
    BY <2>1 DEF ExecutorInv, Active, AfterRun, BeforeRun, Insts
  <2>3. /\ build.call \in Builds /\ Insts = parseCagefile(build.call).insts
        /\ parseCagefile(build.call).ok /\ Executed(Insts, Len(Insts) + 1, build)
    BY <2>2 DEF Doing, Insts
  <2>4. /\ b.call = build.call /\ b.insts = Insts /\ b.fs = build.fs /\ b.runs = build.runs
        /\ b.env = build.env /\ b.user = build.user /\ b.workdir = build.workdir
    OBVIOUS
  <2> HIDE DEF b
  <2>5. Executed(b.insts, Len(b.insts) + 1, b)
    BY <2>3, <2>4 DEF Executed
  <2>6. b.call \in Builds /\ parseCagefile(b.call).ok /\ b.insts = parseCagefile(b.call).insts
    BY <2>3, <2>4
  <2> QED
    BY <2>1, <2>5, <2>6 DEF BuiltInv
<1> QED
  BY <1>1, <1>2, BuildsAside

WrittenInv == ExecutorInv /\ LayersOfUser /\ BuiltInv

\* The invariant: initially, after every step, always.
LEMMA WrittenInit == Init => WrittenInv
<1> SUFFICES ASSUME Init PROVE WrittenInv
  OBVIOUS
<1>1. build = NoBuild /\ proc = [p \in Procs |-> Idle] /\ image = NoImage
  BY DEF Init, BaseInit
<1> QED
  BY <1>1, IdleIs, NoBuildIs
     DEF WrittenInv, ExecutorInv, LayersOfUser, BuiltInv, BuiltImage, Active, BeforeRun, AfterRun

LEMMA WrittenNext == BuildIInv /\ WrittenInv /\ [Next]_vars => WrittenInv'
<1> SUFFICES ASSUME BuildIInv, WrittenInv, [Next]_vars PROVE WrittenInv'
  OBVIOUS
<1>0. /\ DOMAIN build = BuildFields /\ BaseTypeOK /\ LayersInv
      /\ ExecutorInv /\ LayersOfUser /\ BuiltInv
  BY DEF BuildIInv, BuildInv, TypeOK, WrittenInv
<1>a. ASSUME UNCHANGED proc PROVE LayersOfUser'
  BY <1>0, <1>a DEF LayersOfUser
<1>b. ASSUME UNCHANGED build PROVE ExecutorInv'
  BY <1>0, <1>b DEF ExecutorInv, Doing, Executed, CopiesAt, ContextAt, DirThere, IsDir
<1>1. ASSUME NEW call \in Builds, BuildStart(call)
      PROVE  WrittenInv'
  <2>1. UNCHANGED proc /\ UNCHANGED <<image, built>>
    BY <1>1 DEF BuildStart, shared
  <2> QED
    BY <1>0, <1>1, <1>a, <2>1, Begins, BuiltStays DEF WrittenInv
<1>2. CASE BuildNext
  <2>1. UNCHANGED proc
    BY <1>2, BuildsAside
  <2> QED
    BY <1>0, <1>2, <1>a, <2>1, ExecutorNext, BuiltByBuild DEF WrittenInv
<1>3. CASE BuildKilled
  <2>1. UNCHANGED proc /\ UNCHANGED <<image, built>> /\ Ends("killed")
    BY <1>3 DEF BuildKilled, shared
  <2>2. ExecutorInv'
    BY <2>1, Stops
  <2> QED
    BY <1>0, <1>a, <2>1, <2>2, BuiltStays DEF WrittenInv
<1>4. CASE OthersNext
  <2>1. UNCHANGED build /\ built' = (IF image' = image THEN built ELSE NoneBuilt)
    BY <1>4 DEF OthersNext
  <2>2. LayersOfUser' /\ (image' = image \/ image' = NoImage \/ image'.of = "user")
    <3>1. CASE \E p \in Procs : ProcNext(p)
      BY <1>0, <3>1, OtherImages
    <3>2. CASE UserBoots \/ UserStops \/ UserRemoved \/ RefRemoved
      BY <3>2, <1>a DEF UserBoots, UserStops, UserRemoved, RefRemoved
    <3> QED
      BY <1>4, <3>1, <3>2 DEF OthersNext
  <2>3. BuiltInv'
    <3>1. CASE image' = image
      BY <3>1, <2>1, <1>0, BuiltStays
    <3>2. CASE image' = NoImage \/ image'.of = "user"
      BY <3>2, NotOfTemp
    <3> QED
      BY <2>2, <3>1, <3>2
  <2> QED
    BY <1>b, <2>1, <2>2, <2>3 DEF WrittenInv
<1>5. CASE UNCHANGED vars
  <2>1. UNCHANGED proc /\ UNCHANGED <<image, built>> /\ UNCHANGED build
    BY <1>5 DEF vars, baseVars
  <2> QED
    BY <1>0, <1>a, <1>b, <2>1, BuiltStays DEF WrittenInv
<1> QED
  BY <1>1, <1>2, <1>3, <1>4, <1>5 DEF Next

LEMMA WrittenAlways == Spec => []WrittenInv
BY Always, WrittenInit, WrittenNext, PTL DEF Spec

(***************************************************************************)
(* The image that cage build saves is what its Cagefile says, whatever the *)
(* Cagefile, the guest's directories and users, the faults and the other   *)
(* commands: a RUN is never lost, repeated, run as another user or, as     *)
(* long as the working directories stand, run elsewhere; nothing of the    *)
(* context is where no COPY put it; no failed instruction is passed over.  *)
(***************************************************************************)
THEOREM ImageAsWritten == Spec => []ImageIsCagefile
<1>1. WrittenInv => ImageIsCagefile
  <2> SUFFICES ASSUME WrittenInv, BuiltImage
               PROVE  LET insts == built.insts
                          end == AtEnd(insts)
                      IN  /\ SameCommands(built.runs, RunsTo(insts, end))
                          /\ WorkdirStands(insts) => built.runs = RunsTo(insts, end)
                          /\ \A n \in Copies(insts) :
                                 /\ ToNewPlace(insts, n)
                                 /\ \A m \in Copies(insts) : m > n => To(insts, m) \notin Above(To(insts, n))
                                 => built.fs[To(insts, n)] = CopyAt(insts, n)
                          /\ \A q \in Paths : built.fs[q].what \in DOMAIN Context =>
                                 \E n \in Copies(insts) : q = To(insts, n) /\ built.fs[q] = CopyAt(insts, n)
                          /\ built.workdir = WorkdirAt(insts, end)
                          /\ built.user = UserAt(insts, end)
                          /\ built.env = EnvAt(insts, end)
    BY DEF ImageIsCagefile
  <2>1. Executed(built.insts, AtEnd(built.insts), built)
    BY DEF WrittenInv, BuiltInv, AtEnd
  <2>2. WorkdirStands(built.insts) = StandsTo(built.insts, AtEnd(built.insts))
    BY DEF WorkdirStands, StandsTo, Copies
  <2>3. \A n \in Copies(built.insts) :
            /\ ToNewPlace(built.insts, n)
            /\ \A m \in Copies(built.insts) : m > n => To(built.insts, m) \notin Above(To(built.insts, n))
            => built.fs[To(built.insts, n)] = CopyAt(built.insts, n)
    BY <2>1 DEF Executed, CopiesAt, Copies, ToNewPlace
  <2>4. \A q \in Paths : built.fs[q].what \in DOMAIN Context =>
            \E n \in Copies(built.insts) :
                q = To(built.insts, n) /\ built.fs[q] = CopyAt(built.insts, n)
    BY <2>1 DEF Executed, ContextAt, Copies
  <2> QED
    BY <2>1, <2>2, <2>3, <2>4 DEF Executed, RunsAt
<1> QED
  BY <1>1, WrittenAlways, PTL

(***************************************************************************)
(* No line of the Cagefile that such an image was built from was lost on   *)
(* its way into instructions, if none of its instructions has a comment    *)
(* inside.                                                                 *)
(***************************************************************************)
THEOREM CagefileIsWhole == Spec => []CagefileWhole
<1>1. WrittenInv => CagefileWhole
  <2> DEFINE lines == Cagefiles[built.call.file]
  <2> SUFFICES ASSUME WrittenInv, BuiltImage, NoInnerComment(lines)
               PROVE  AsWritten(lines)
    BY DEF CagefileWhole
  <2>1. built.call \in Builds /\ parseCagefile(built.call).ok
    BY DEF WrittenInv, BuiltInv, BuiltImage
  <2>2. PICK E : Over(lines, E)
    BY <2>1, Tokenized
  <2>3. Parse(lines).ok
    BY <2>1, <2>2, CagefileParsed, ValidTyped
  <2> QED
    BY <2>2, <2>3, NothingLost
<1> QED
  BY <1>1, WrittenAlways, PTL

-----------------------------------------------------------------------------
(***************************************************************************)
(* Arguments: what is replaced by values that mention none mentions none.  *)
(***************************************************************************)
\* A bounded set of numbers that is not empty has a least and a greatest.
LEMMA Least ==
    ASSUME NEW T \in SUBSET Nat, T # {}
    PROVE  \E i \in T : \A j \in T : i <= j
<1> SUFFICES ASSUME \A i \in T : \E j \in T : j < i PROVE FALSE
  OBVIOUS
<1> DEFINE U == {n \in Nat : \A k \in Nat : k <= n => k \notin T}
<1>1. 0 \in U
  <2>1. 0 \notin T
    OBVIOUS
  <2> QED
    BY <2>1
<1>2. ASSUME NEW n \in U PROVE n + 1 \in U
  <2>1. \A k \in Nat : k <= n => k \notin T
    BY <1>2
  <2>2. n + 1 \notin T
    BY <2>1
  <2>3. n \in Nat
    BY <1>2
  <2>4. \A k \in Nat : k <= n + 1 => k <= n \/ k = n + 1
    BY <2>3
  <2> QED
    BY <2>1, <2>2, <2>3, <2>4
<1>3. U = Nat
  <2> HIDE DEF U
  <2>1. U \in SUBSET Nat
    BY DEF U
  <2> QED
    BY <1>1, <1>2, <2>1, Induction
<1>4. \A n \in Nat : n \notin T
  <2>1. \A n \in Nat : n \in U /\ n <= n
    <3> HIDE DEF U
    <3> QED
      BY <1>3
  <2> QED
    BY <2>1
<1> QED
  BY <1>4

LEMMA Greatest ==
    ASSUME NEW N \in Nat, NEW T \in SUBSET (1 .. N), T # {}
    PROVE  \E i \in T : \A j \in T : j <= i
<1> DEFINE U == {n \in Nat : \A j \in T : j <= n}
<1>1. U \in SUBSET Nat /\ N \in U
  OBVIOUS
<1>2. PICK m \in U : \A n \in U : m <= n
  <2> HIDE DEF U
  <2> QED
    BY <1>1, Least
<1>3. m \in Nat /\ \A j \in T : j \in Nat /\ 1 <= j /\ j <= m
  OBVIOUS
<1>4. m \in T
  <2> SUFFICES ASSUME m \notin T PROVE FALSE
    OBVIOUS
  <2>1. \A j \in T : j <= m - 1
    BY <1>3
  <2>2. m - 1 \in Nat
    <3>1. PICK j \in T : TRUE
      OBVIOUS
    <3>2. m \in Nat /\ j \in Nat /\ 1 <= j /\ j <= m
      BY <1>3, <3>1
    <3> QED
      BY <3>2
  <2>3. m - 1 \in U
    BY <2>1, <2>2
  <2> QED
    BY <1>2, <1>3, <2>3
<1> QED
  BY <1>3, <1>4

\* A text none of whose tokens is outside F.
LEMMA SeqAvoids ==
    ASSUME NEW E, NEW F, NEW s \in Seq(E), \A k \in DOMAIN s : s[k] \in F
    PROVE  s \in Seq(F)
OBVIOUS

\* A part of a text is a text.
LEMMA PartTyped ==
    ASSUME NEW E, NEW text \in Seq(E), NEW m \in Nat, m >= 1, NEW n \in Nat, n <= Len(text)
    PROVE  SubSeq(text, m, n) \in Seq(E)
<1>1. Len(text) \in Nat /\ \A i \in 1 .. Len(text) : text[i] \in E
  BY SeqIs
<1>2. \A i \in m .. n : text[i] \in E
  BY <1>1
<1> QED
  BY <1>2, SubSeqProperties

\* What a text says after "=" is a text, and so is the value of an argument.
LEMMA AfterTyped ==
    ASSUME NEW E, NEW text \in Seq(E)
    PROVE  AfterEquals(text) \in Seq(E)
<1>0. Len(text) \in Nat /\ DOMAIN text = 1 .. Len(text)
  BY SeqIs
<1>1. BeforeEquals(text) \in Seq(E)
  <2>1. CASE Equals(text) = {}
    BY <2>1 DEF BeforeEquals
  <2>2. CASE Equals(text) # {}
    <3> DEFINE Q == Equals(text)
               i == CHOOSE i \in Q : \A j \in Q : i <= j
    <3>1. Q \in SUBSET (1 .. Len(text)) /\ Q \in SUBSET Nat /\ Q # {}
      BY <1>0, <2>2 DEF Equals
    <3>2. i \in Q
      <4> HIDE DEF Q
      <4> QED
        BY <3>1, Least
    <3>3. i - 1 \in Nat /\ i - 1 <= Len(text)
      <4> HIDE DEF i, Q
      <4> QED
        BY <1>0, <3>1, <3>2
    <3>4. SubSeq(text, 1, i - 1) \in Seq(E)
      <4> HIDE DEF i
      <4> QED
        BY <3>3, PartTyped
    <3> QED
      BY <2>2, <3>4 DEF BeforeEquals
  <2> QED
    BY <2>1, <2>2
<1>2. Len(BeforeEquals(text)) \in Nat
  BY <1>1, SeqIs
<1>3. Len(BeforeEquals(text)) + 2 \in Nat /\ Len(BeforeEquals(text)) + 2 >= 1
  BY <1>2
<1> QED
  BY <1>0, <1>3, PartTyped DEF AfterEquals

LEMMA ArgumentsTyped ==
    ASSUME NEW E, NEW insts \in Seq(Parsed(E)), NEW given, \A v \in DOMAIN given : given[v] \in Seq(E)
    PROVE  \A v \in DOMAIN Arguments(insts, given) : Arguments(insts, given)[v] \in Seq(E)
<1> DEFINE decls == {i \in DOMAIN insts : insts[i].type = "ARG"}
           NameOf(i) == Head(BeforeEquals(insts[i].value))
           Latest(v) == CHOOSE i \in decls : NameOf(i) = v /\ \A j \in decls : NameOf(j) = v => j <= i
<1>1. Arguments(insts, given) =
        [v \in {NameOf(i) : i \in decls} \cup DOMAIN given |->
            IF v \in DOMAIN given THEN given[v] ELSE AfterEquals(insts[Latest(v)].value)]
  BY DEF Arguments
<1>2. Len(insts) \in Nat /\ decls \in SUBSET (1 .. Len(insts)) /\ \A i \in decls : insts[i] \in Parsed(E)
  BY SeqIs
<1>3. ASSUME NEW v \in {NameOf(i) : i \in decls}
      PROVE  AfterEquals(insts[Latest(v)].value) \in Seq(E)
  <2> DEFINE T == {i \in decls : NameOf(i) = v}
  <2>1. T \in SUBSET (1 .. Len(insts)) /\ T # {}
    <3> HIDE DEF NameOf, decls
    <3> QED
      BY <1>2, <1>3
  <2>2. PICK i \in T : \A j \in T : j <= i
    <3> HIDE DEF T
    <3> QED
      BY <1>2, <2>1, Greatest
  <2>3. i \in decls /\ NameOf(i) = v /\ \A j \in decls : NameOf(j) = v => j <= i
    <3> HIDE DEF NameOf, decls
    <3> QED
      BY <2>2
  <2>4. Latest(v) \in decls
    <3> HIDE DEF NameOf, decls
    <3> QED
      BY <2>3
  <2>5. insts[Latest(v)] \in Parsed(E)
    <3> HIDE DEF Latest, decls
    <3> QED
      BY <1>2, <2>4
  <2> HIDE DEF Latest
  <2>6. insts[Latest(v)].value \in Seq(E)
    BY <2>5, ParsedFields
  <2> QED
    BY <2>6, AfterTyped
<1> HIDE DEF NameOf, decls, Latest
<1> QED
  BY <1>1, <1>3

\* What is left after a replacement: what brought in the values, and what is no mark.
LEMMA ReplaceTyped ==
    ASSUME NEW E, NEW F, NEW text \in Seq(E), NEW args, NEW marks,
           \A v \in DOMAIN args : args[v] \in Seq(F),
           \A t \in E : (\A v \in DOMAIN args : marks[v] # t) => t \in F
    PROVE  Replace(text, args, marks) \in Seq(F)
<1> DEFINE Named(t) == {v \in DOMAIN args : marks[v] = t}
           Value(t) == IF Named(t) = {} THEN <<t>> ELSE args[CHOOSE v \in Named(t) : TRUE]
           f == [k \in DOMAIN text |-> Value(text[k])]
           N == Len(text)
<1>1. N \in Nat /\ DOMAIN text = 1 .. N /\ \A k \in 1 .. N : text[k] \in E
  BY SeqIs
<1>2. \A t \in E : Value(t) \in Seq(F)
  <2> SUFFICES ASSUME NEW t \in E PROVE Value(t) \in Seq(F)
    OBVIOUS
  <2>1. CASE Named(t) = {}
    <3>1. t \in F
      BY <2>1
    <3>2. <<t>> \in Seq(F)
      BY <3>1, Single
    <3> QED
      BY <2>1, <3>2
  <2>2. CASE Named(t) # {}
    <3> DEFINE w == CHOOSE v \in Named(t) : TRUE
    <3>1. w \in Named(t)
      <4> HIDE DEF Named
      <4> QED
        BY <2>2
    <3>2. w \in DOMAIN args
      BY <3>1
    <3> HIDE DEF w
    <3>3. args[w] \in Seq(F)
      BY <3>2
    <3> QED
      BY <2>2, <3>3 DEF w
  <2> QED
    BY <2>1, <2>2
<1>3. f \in [1 .. N -> Seq(F)]
  <2> HIDE DEF Value, N
  <2> QED
    BY <1>1, <1>2
<1>4. f \in Seq(Seq(F))
  <2> HIDE DEF f, N
  <2> QED
    BY <1>1, <1>3, IsSeqOf
<1>5. Replace(text, args, marks) = Flat(f)
  BY DEF Replace
<1> HIDE DEF f
<1>6. <<>> \in Seq(F)
  BY EmptySeq
<1> QED
  BY <1>4, <1>5, <1>6, FlatAppend

\* The tokens that mention no argument.
Free(E, args) == {t \in E : \A v \in DOMAIN args : t \notin {Brace(v), Plain(v)}}

\* Values that mention no argument leave no mention of one where they are put.
LEMMA Substituted ==
    ASSUME NEW E, NEW text \in Seq(E), NEW args,
           \A v \in DOMAIN args : args[v] \in Seq(Free(E, args))
    PROVE  substituteArgs(text, args) \in Seq(Free(E, args))
<1> DEFINE A == {t \in E : \A v \in DOMAIN args : Brace(v) # t}
           F == Free(E, args)
           once == Replace(text, args, Braces(args))
<1>1. F \subseteq A /\ F = {t \in A : \A v \in DOMAIN args : Plain(v) # t}
  BY DEF Free
<1>2. \A v \in DOMAIN args : args[v] \in Seq(A)
  <2> HIDE DEF A, F
  <2>1. \A v \in DOMAIN args : args[v] \in Seq(F)
    BY DEF F
  <2> QED
    BY <1>1, <2>1, SeqWider
<1>3. once \in Seq(A)
  <2>1. \A t \in E : (\A v \in DOMAIN args : Braces(args)[v] # t) => t \in A
    BY DEF Braces
  <2> HIDE DEF A
  <2> QED
    BY <1>2, <2>1, ReplaceTyped
<1>4. Replace(once, args, Plains(args)) \in Seq(F)
  <2>1. \A t \in A : (\A v \in DOMAIN args : Plains(args)[v] # t) => t \in F
    BY <1>1 DEF Plains
  <2>2. \A v \in DOMAIN args : args[v] \in Seq(F)
    OBVIOUS
  <2> HIDE DEF A, F, once
  <2> QED
    BY <1>3, <2>1, <2>2, ReplaceTyped
<1> QED
  BY <1>4 DEF substituteArgs

\* What is run are the values of the RUN lines.
LEMMA CommandsAre ==
    ASSUME NEW insts, IsList(insts), NEW S,
           \A j \in DOMAIN insts : insts[j].type = "RUN" => insts[j].value \in S
    PROVE  LET runs == RunsTo(insts, Len(insts) + 1) IN \A n \in DOMAIN runs : runs[n].cmd \in S
<1> DEFINE N == Len(insts)
           R(j) == IF insts[j].type = "RUN" THEN <<RunAt(insts, j)>> ELSE <<>>
           X == {r \in {RunAt(insts, j) : j \in 1 .. N} : r.cmd \in S}
           f == [j \in 1 .. N |-> R(j)]
<1>1. N \in Nat /\ (N + 1) - 1 = N /\ DOMAIN insts = 1 .. N
  BY DEF IsList
<1>2. ASSUME NEW j \in 1 .. N
      PROVE  R(j) \in Seq(X)
  <2>1. CASE insts[j].type = "RUN"
    <3>1. insts[j].value \in S
      BY <1>1, <2>1
    <3>2. RunAt(insts, j).cmd = insts[j].value
      BY DEF RunAt
    <3>3. RunAt(insts, j) \in X
      BY <3>1, <3>2
    <3> HIDE DEF X
    <3>4. <<RunAt(insts, j)>> \in Seq(X)
      BY <3>3, Single, Zenon
    <3> QED
      BY <2>1, <3>4
  <2>2. CASE insts[j].type # "RUN"
    BY <2>2, EmptySeq
  <2> QED
    BY <2>1, <2>2
<1>3. f \in Seq(Seq(X))
  <2> HIDE DEF R, X, N
  <2>1. f \in [1 .. N -> Seq(X)]
    BY <1>2
  <2> HIDE DEF f
  <2> QED
    BY <1>1, <2>1, IsSeqOf
<1>4. RunsTo(insts, N + 1) = Flat(f)
  BY <1>1 DEF RunsTo
<1>5. Flat(f) \in Seq(X)
  <2> HIDE DEF f, X
  <2> QED
    BY <1>3, EmptySeq, FlatAppend
<1>6. \A n \in DOMAIN Flat(f) : Flat(f)[n] \in X
  <2> HIDE DEF f, X
  <2> QED
    BY <1>5, SeqIs
<1> QED
  BY <1>4, <1>6 DEF N

\* The RUN lines of a Cagefile whose values mention no argument mention none.
LEMMA ResolvedRuns ==
    ASSUME NEW call \in Builds, Unnested, parseCagefile(call).ok
    PROVE  LET insts == parseCagefile(call).insts IN
           /\ IsList(insts)
           /\ \E E : \A j \in DOMAIN insts : insts[j].value \in Seq(Free(E, GivenArgs(call)))
<1> DEFINE p == ParseAndValidate(Cagefiles[call.file])
           args == GivenArgs(call)
           insts == parseCagefile(call).insts
<1>1. p.ok /\ insts = ResolveArgs(p.insts, call.args) /\ IsList(p.insts) /\ IsList(insts)
  BY CagefileParsed
<1>2. PICK E : Over(Cagefiles[call.file], E) /\ \A v \in DOMAIN call.args : call.args[v] \in Seq(E)
  BY Tokenized
<1>3. p.insts \in Seq(Parsed(E))
  BY <1>1, <1>2, ValidTyped
<1>4. args = Arguments(p.insts, call.args)
  BY DEF GivenArgs
<1>5. \A v \in DOMAIN args : args[v] \in Seq(E)
  <2> HIDE DEF p, args
  <2> QED
    BY <1>2, <1>3, <1>4, ArgumentsTyped
<1>6. ASSUME NEW w \in DOMAIN args
      PROVE  args[w] \in Seq(Free(E, args))
  <2>1. \A v \in DOMAIN args : \A k \in DOMAIN args[w] : args[w][k] \notin {Brace(v), Plain(v)}
    BY DEF Unnested
  <2> HIDE DEF args
  <2>2. \A k \in DOMAIN args[w] : args[w][k] \in E
    BY <1>5, SeqIs
  <2>3. \A k \in DOMAIN args[w] : args[w][k] \in Free(E, args)
    BY <2>1, <2>2 DEF Free
  <2> QED
    BY <1>5, <2>3, SeqAvoids
<1>7. ASSUME NEW j \in DOMAIN insts
      PROVE  insts[j].value \in Seq(Free(E, args))
  <2> HIDE DEF p, args, insts
  <2>1. j \in DOMAIN p.insts
    BY <1>1 DEF ResolveArgs
  <2>2. p.insts[j] \in Parsed(E)
    BY <1>1, <1>3, <2>1, SeqIs
  <2>3. p.insts[j].value \in Seq(E)
    BY <2>2, ParsedFields
  <2>4. insts[j].value = substituteArgs(p.insts[j].value, args)
    <3>1. PICK t \in Seq(E) : parseLine(t) = <<p.insts[j]>>
      BY <2>2, ParsedIs
    <3>2. "value" \in DOMAIN p.insts[j]
      <4>1. \E type, value, a : p.insts[j] = Instruction(type, value, a)
        BY <3>1 DEF parseLine
      <4> QED
        BY <4>1 DEF Instruction
    <3> QED
      BY <1>1, <1>4, <2>1, <3>2 DEF ResolveArgs
  <2> QED
    BY <1>6, <2>3, <2>4, Substituted
<1> QED
  BY <1>1, <1>7

(***************************************************************************)
(* No command that ran in a saved image mentions an argument, if no value  *)
(* of an argument does.  substituteArgs has one pass for "${V}" and then   *)
(* one for "$V": a mention that the second one brings in would stay.       *)
(***************************************************************************)
THEOREM CommandsResolved == Unnested => (Spec => []ArgsResolved)
<1> SUFFICES ASSUME Unnested PROVE Spec => []ArgsResolved
  OBVIOUS
<1>1. WrittenInv => ArgsResolved
  <2> SUFFICES ASSUME WrittenInv, BuiltImage,
                      NEW v \in DOMAIN GivenArgs(built.call), NEW n \in DOMAIN built.runs,
                      NEW k \in DOMAIN built.runs[n].cmd
               PROVE  built.runs[n].cmd[k] \notin {Brace(v), Plain(v)}
    BY DEF ArgsResolved
  <2> DEFINE call == built.call
             insts == built.insts
             args == GivenArgs(call)
  <2>1. /\ call \in Builds /\ parseCagefile(call).ok /\ insts = parseCagefile(call).insts
        /\ SameCommands(built.runs, RunsTo(insts, Len(insts) + 1))
    BY DEF WrittenInv, BuiltInv, Executed, RunsAt
  <2>2. PICK E : \A j \in DOMAIN insts : insts[j].value \in Seq(Free(E, args))
    BY <2>1, ResolvedRuns
  <2>3. IsList(insts)
    BY <2>1, ResolvedRuns
  <2>n. n \in DOMAIN RunsTo(insts, Len(insts) + 1)
        /\ built.runs[n].cmd = RunsTo(insts, Len(insts) + 1)[n].cmd
    BY <2>1 DEF SameCommands
  <2>4. built.runs[n].cmd \in Seq(Free(E, args))
    BY <2>n, <2>2, <2>3, CommandsAre
  <2>5. built.runs[n].cmd[k] \in Free(E, args)
    BY <2>4, SeqIs
  <2> QED
    BY <2>5 DEF Free
<1> QED
  BY <1>1, WrittenAlways, PTL
=============================================================================
