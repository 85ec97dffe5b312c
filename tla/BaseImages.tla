------------------------------- MODULE BaseImages -------------------------------
(***************************************************************************)
(* One base image in images/, and everything that touches it without a     *)
(* lock: cage pull --base downloads it, cage image remove deletes it,      *)
(* cages put overlays on it, cage image save records its digest.           *)
(*                                                                         *)
(* The image is two files, <name>.qcow2 and metadata/<name>.json, and a    *)
(* third, <name>.qcow2.tmp, that every download of the name shares.        *)
(* Each step below is one access; other commands act in between.           *)
(***************************************************************************)
EXTENDS Naturals

CONSTANTS
    Procs,      \* concurrently running commands
    Arches,     \* architectures a base image exists for
    HostArch,   \* runtime.GOARCH
    Typed,      \* how image remove names the image: "own" name or an "alias"
    Faults      \* what may go wrong

ImageFaults ==
    {"network",     \* the download fails
     "disk",        \* a file cannot be created, written or converted
     "crash",       \* a command is killed between two steps
     "hang",        \* a guest outlives the 30 seconds of a stop
     "torn"}        \* state.json is cut short by a failed write

ASSUME BaseImagesAssumption ==
    /\ HostArch \in Arches
    /\ Typed \subseteq {"own", "alias"}
    /\ Procs \cap {"done", "lost", "absent"} = {}     \* see Content

VARIABLES
    img,        \* <name>.qcow2
    tmp,        \* <name>.qcow2.tmp
    meta,       \* the architecture in metadata/<name>.json
    inplace,    \* the source is no .qcow2: qemu-img convert writes the image
    proc,       \* the commands in progress
    cage,       \* a user's cage and a build's temporary one
    image,      \* the image under the one tag in use
    spoilt      \* history: two downloads overlapped, a removal met one, or one
                \* was cut short once it had begun to publish

baseVars == <<img, tmp, meta, inplace, proc, cage, image, spoilt>>

(***************************************************************************)
(* The bytes of a file: whose download they are, who still has to write    *)
(* the rest of them, and whether two downloads are mixed up in them.       *)
(***************************************************************************)
Done == "done"
Lost == "lost"      \* the rest will never be written
Content == [arch: Arches, by: Procs \cup {Done, Lost}, mixed: BOOLEAN]
NoFile == [arch |-> HostArch, by |-> "absent", mixed |-> FALSE]

There(f) == f # NoFile
Whole(f) == f.by = Done /\ ~f.mixed

(***************************************************************************)
(* BaseArch: without metadata that can be read, the host's architecture.   *)
(***************************************************************************)
BaseArch(m) == IF m \in Arches THEN m ELSE HostArch

(***************************************************************************)
(* A cage: the base content its overlay was made on, what state.json says, *)
(* and whether the VM runs.                                                *)
(***************************************************************************)
CageNames == {"user", "temp"}
Cage == [on: Content \cup {NoFile}, state: {"none", "torn", "stopped", "running"},
         vm: BOOLEAN]
NoCage == [on |-> NoFile, state |-> "none", vm |-> FALSE]

(***************************************************************************)
(* cage.List skips a directory whose state.json cannot be read.            *)
(***************************************************************************)
Listed(c) == cage[c].state \in {"stopped", "running"}

(***************************************************************************)
(* A saved image: the cage it is a layer of, the base under that layer,    *)
(* whether the VM ran during the copy, the base.digest and config.arch of  *)
(* the manifest and, as history, the base that was there when arch was     *)
(* looked up, if no download was about to record it.                       *)
(***************************************************************************)
Image == [of: CageNames, on: Content, torn: BOOLEAN, base: Content \cup {NoFile},
          arch: Arches, seen: Content \cup {NoFile}]
NoImage == [of |-> "none"]

Steps ==
    {"idle",
     "pull_check", "pull_get", "pull_create", "pull_copy", "pull_publish",
     "pull_convert", "pull_meta", "pull_rmtmp",
     "rm_check", "rm_list", "rm_file", "rm_meta",
     "start_disk", "start_save",
     "save_check", "save_copy", "save_digest", "save_ref"}

Process ==
    [pc: Steps, arch: Arches, name: {"own", "alias"},
     fd: {"none", "tmp", "img", "gone"},    \* where the file being written is linked
     seen: Content \cup {NoFile},           \* the base a save looked at
     layer: Image \cup {NoImage}]           \* what a save has so far

Idle == [pc |-> "idle", arch |-> HostArch, name |-> "own", fd |-> "none",
         seen |-> NoFile, layer |-> NoImage]

BaseTypeOK ==
    /\ img \in Content \cup {NoFile}
    /\ tmp \in Content \cup {NoFile}
    /\ meta \in Arches \cup {"none", "torn"}
    /\ inplace \in BOOLEAN
    /\ proc \in [Procs -> Process]
    /\ cage \in [CageNames -> Cage]
    /\ image \in Image \cup {NoImage}
    /\ spoilt \in BOOLEAN

\* Nothing was downloaded yet, or an image was, perhaps with a cage on it.
BaseInit ==
    /\ \/ img = NoFile /\ meta = "none" /\ cage = [c \in CageNames |-> NoCage]
       \/ \E a \in Arches, c \in {NoCage, [NoCage EXCEPT !.state = "stopped"]} :
             /\ img = [arch |-> a, by |-> Done, mixed |-> FALSE]
             /\ meta = a
             /\ cage = [temp |-> NoCage,
                        user |-> IF c = NoCage THEN c ELSE [c EXCEPT !.on = img]]
    /\ tmp = NoFile
    /\ inplace \in BOOLEAN
    /\ proc = [p \in Procs |-> Idle]
    /\ image = NoImage
    /\ spoilt = FALSE

At(p, step) == proc[p].pc = step
Become(p, r) == proc' = [proc EXCEPT ![p] = r]
Goto(p, step) == Become(p, [proc[p] EXCEPT !.pc = step])
Finish(p) == Become(p, Idle)
May(fault) == fault \in Faults

files == <<img, tmp, meta, spoilt>>

Pulling(p) == proc[p].pc \in {"pull_create", "pull_copy", "pull_publish",
                              "pull_convert", "pull_meta", "pull_rmtmp"}
Converting == \E q \in Procs : At(q, "pull_convert") /\ img.by = q
Others(p) == {q \in Procs \ {p} : Pulling(q)}

(***************************************************************************)
(* Every process whose open file moves from one name to another.           *)
(***************************************************************************)
Relink(move) == [q \in Procs |-> [proc[q] EXCEPT !.fd = move[@]]]
Stay == [f \in {"none", "tmp", "img", "gone"} |-> f]
TmpGone == [Stay EXCEPT !["tmp"] = "gone"]
ImgGone == [Stay EXCEPT !["img"] = "gone"]
Renamed == [Stay EXCEPT !["tmp"] = "img", !["img"] = "gone"]
Moved(p, move, step) ==
    proc' = [Relink(move) EXCEPT ![p].pc = step, ![p].fd = "none"]

-----------------------------------------------------------------------------
(***************************************************************************)
(* cage pull --base: nothing to do when the image is there and is of the   *)
(* architecture asked for; otherwise images.Download.                      *)
(***************************************************************************)
Pull(p, a) ==
    /\ At(p, "idle")
    /\ Become(p, [Idle EXCEPT !.pc = "pull_check", !.arch = a])
    /\ UNCHANGED <<files, inplace, cage, image>>

PullCheck(p) ==
    /\ At(p, "pull_check")
    /\ IF There(img) /\ BaseArch(meta) = proc[p].arch
          THEN Finish(p) ELSE Goto(p, "pull_get")
    /\ UNCHANGED <<files, inplace, cage, image>>

(***************************************************************************)
(* The deferred Remove of the .tmp file is in place before the request.    *)
(***************************************************************************)
PullGet(p) ==
    /\ At(p, "pull_get")
    /\ \/ Goto(p, "pull_create")
       \/ May("network") /\ Goto(p, "pull_rmtmp")
    /\ UNCHANGED <<files, inplace, cage, image>>

(***************************************************************************)
(* os.Create truncates the file another download is writing, or reading    *)
(* for its conversion.                                                     *)
(***************************************************************************)
PullCreate(p) ==
    LET writers == {q \in Procs : proc[q].fd = "tmp"} IN
    /\ At(p, "pull_create")
    /\ \/ /\ tmp' = [arch |-> proc[p].arch, by |-> p,
                     mixed |-> \E q \in writers : proc[q].arch # proc[p].arch]
          /\ img' = IF Converting THEN [img EXCEPT !.mixed = TRUE] ELSE img
          /\ spoilt' = (spoilt \/ Others(p) # {})
          /\ Become(p, [proc[p] EXCEPT !.pc = "pull_copy", !.fd = "tmp"])
       \/ /\ May("disk")
          /\ Goto(p, "pull_rmtmp")
          /\ UNCHANGED <<img, tmp, spoilt>>
    /\ UNCHANGED <<meta, inplace, cage, image>>

(***************************************************************************)
(* The writer p of a file closes it, or gives up.                          *)
(***************************************************************************)
Closed(f, p, end) == IF f.by = p THEN [f EXCEPT !.by = end] ELSE f

WriteEnds(p, end) ==
    /\ tmp' = IF proc[p].fd = "tmp" THEN Closed(tmp, p, end) ELSE tmp
    /\ img' = IF proc[p].fd = "img" THEN Closed(img, p, end) ELSE img

\* Wrong variant: the error of io.Copy is lost.
PullCopyUnchecked(p) ==
    /\ At(p, "pull_copy")
    /\ \/ WriteEnds(p, Done)
       \/ May("network") /\ WriteEnds(p, Lost)
    /\ Become(p, [proc[p] EXCEPT !.pc = "pull_publish", !.fd = "none"])
    /\ UNCHANGED <<meta, inplace, cage, image, spoilt>>

PullCopy(p) ==
    /\ At(p, "pull_copy")
    /\ \/ /\ WriteEnds(p, Done)
          /\ Become(p, [proc[p] EXCEPT !.pc = "pull_publish", !.fd = "none"])
       \/ /\ May("network") \/ May("disk")
          /\ WriteEnds(p, Lost)
          /\ Become(p, [proc[p] EXCEPT !.pc = "pull_rmtmp", !.fd = "none"])
    /\ UNCHANGED <<meta, inplace, cage, image, spoilt>>

(***************************************************************************)
(* A .qcow2 is renamed, as it is; anything else is converted into the      *)
(* final file itself, which qemu-img refuses while a VM or another         *)
(* conversion holds its lock.                                              *)
(***************************************************************************)
PullRename(p) ==
    /\ At(p, "pull_publish") /\ ~inplace
    /\ IF There(tmp)
          THEN img' = tmp /\ tmp' = NoFile /\ Moved(p, Renamed, "pull_meta")
          ELSE Goto(p, "pull_rmtmp") /\ UNCHANGED <<img, tmp>>
    /\ UNCHANGED <<meta, inplace, cage, image, spoilt>>

PullConvert(p) ==
    LET locked == Converting \/ \E c \in CageNames : cage[c].vm /\ cage[c].on = img IN
    /\ At(p, "pull_publish") /\ inplace
    /\ IF There(tmp) /\ ~locked
          THEN /\ img' = [arch |-> tmp.arch, by |-> p, mixed |-> ~Whole(tmp)]
               /\ Goto(p, "pull_convert")
          ELSE Goto(p, "pull_rmtmp") /\ UNCHANGED img
    /\ UNCHANGED <<tmp, meta, inplace, cage, image, spoilt>>

PullConverted(p) ==
    /\ At(p, "pull_convert")
    /\ \/ /\ img' = Closed(img, p, Done)
          /\ Goto(p, "pull_meta")
          /\ UNCHANGED spoilt
       \/ /\ May("disk")
          /\ img' = Closed(img, p, Lost)
          /\ spoilt' = TRUE
          /\ Goto(p, "pull_rmtmp")
    /\ UNCHANGED <<tmp, meta, inplace, cage, image>>

\* Wrong variant: the metadata do not say which architecture.
PullMetaNoArch(p) ==
    /\ At(p, "pull_meta")
    /\ meta' = ""
    /\ Goto(p, "pull_rmtmp")
    /\ UNCHANGED <<img, tmp, inplace, cage, image, spoilt>>

\* Wrong variant: the image stays when its metadata cannot be recorded.
PullMetaKeepsImage(p) ==
    /\ At(p, "pull_meta")
    /\ \/ /\ meta' = proc[p].arch
       \/ May("disk") /\ UNCHANGED meta
    /\ Goto(p, "pull_rmtmp")
    /\ UNCHANGED <<img, tmp, inplace, cage, image, spoilt>>

(***************************************************************************)
(* Download is all-or-nothing as far as the metadata goes: without them    *)
(* the image is removed again.                                             *)
(***************************************************************************)
PullMeta(p) ==
    /\ At(p, "pull_meta")
    /\ \/ /\ meta' = proc[p].arch
          /\ Goto(p, "pull_rmtmp")
          /\ UNCHANGED img
       \/ /\ May("disk")
          /\ meta' \in {meta, "torn"}
          /\ img' = NoFile
          /\ Moved(p, ImgGone, "pull_rmtmp")
    /\ UNCHANGED <<tmp, inplace, cage, image, spoilt>>

PullRemoveTmp(p) ==
    /\ At(p, "pull_rmtmp")
    /\ tmp' = NoFile
    /\ proc' = [Relink(TmpGone) EXCEPT ![p] = Idle]
    /\ UNCHANGED <<img, meta, inplace, cage, image, spoilt>>

-----------------------------------------------------------------------------
(***************************************************************************)
(* cage image remove --force of the base image: images.Delete.  A cage is  *)
(* in use of it when its state.json names the image as the user typed it.  *)
(***************************************************************************)
RemoveImage(p, name) ==
    /\ At(p, "idle")
    /\ Become(p, [Idle EXCEPT !.pc = "rm_check", !.name = name])
    /\ UNCHANGED <<files, inplace, cage, image>>

RemoveCheck(p) ==
    /\ At(p, "rm_check")
    /\ IF There(img) THEN Goto(p, "rm_list") ELSE Finish(p)
    /\ UNCHANGED <<files, inplace, cage, image>>

RemoveList(p) ==
    LET used == {c \in CageNames : Listed(c)} IN
    /\ At(p, "rm_list")
    /\ IF proc[p].name = "own" /\ used # {} THEN Finish(p) ELSE Goto(p, "rm_file")
    /\ UNCHANGED <<files, inplace, cage, image>>

RemoveFile(p) ==
    /\ At(p, "rm_file")
    /\ \/ /\ img' = NoFile
          /\ spoilt' = (spoilt \/ Others(p) # {})
          /\ proc' = [Relink(ImgGone) EXCEPT ![p].pc = "rm_meta"]
       \/ May("disk") /\ Finish(p) /\ UNCHANGED <<img, spoilt>>
    /\ UNCHANGED <<tmp, meta, inplace, cage, image>>

(***************************************************************************)
(* DeleteMetadata does not resolve the alias; its error is ignored.        *)
(***************************************************************************)
RemoveMeta(p) ==
    /\ At(p, "rm_meta")
    /\ meta' \in {IF proc[p].name = "own" THEN "none" ELSE meta}
                 \cup IF May("disk") THEN {meta} ELSE {}
    /\ spoilt' = (spoilt \/ There(img) \/ Others(p) # {})
    /\ Finish(p)
    /\ UNCHANGED <<img, tmp, inplace, cage, image>>

-----------------------------------------------------------------------------
(***************************************************************************)
(* A user's cage comes and goes (module CageLifecycle has the whole of     *)
(* it): the overlay first, its state.json last.                            *)
(***************************************************************************)
SetCage(c, r) == cage' = [cage EXCEPT ![c] = r]

Start(p) ==
    /\ At(p, "idle")
    /\ cage["user"] = NoCage
    /\ \A q \in Procs : ~At(q, "start_disk") /\ ~At(q, "start_save")
    /\ There(img) /\ BaseArch(meta) = HostArch
    /\ Goto(p, "start_disk")
    /\ UNCHANGED <<files, inplace, cage, image>>

StartDisk(p) ==
    /\ At(p, "start_disk")
    /\ IF There(img)
          THEN SetCage("user", [NoCage EXCEPT !.on = img]) /\ Goto(p, "start_save")
          ELSE Finish(p) /\ UNCHANGED cage
    /\ UNCHANGED <<files, inplace, image>>

StartSave(p) ==
    /\ At(p, "start_save")
    /\ \/ SetCage("user", [cage["user"] EXCEPT !.state = "stopped"])
       \/ May("torn") /\ SetCage("user", [cage["user"] EXCEPT !.state = "torn"])
    /\ Finish(p)
    /\ UNCHANGED <<files, inplace, image>>

UserBoots ==
    /\ Listed("user") /\ ~cage["user"].vm
    /\ There(img)
    /\ SetCage("user", [cage["user"] EXCEPT !.vm = TRUE, !.state = "running"])
    /\ UNCHANGED <<files, inplace, proc, image>>

UserStops ==
    /\ cage["user"].state = "running"
    /\ \E alive \in {FALSE} \cup (IF May("hang") THEN {cage["user"].vm} ELSE {}) :
          SetCage("user", [cage["user"] EXCEPT !.vm = alive, !.state = "stopped"])
    /\ UNCHANGED <<files, inplace, proc, image>>

UserRemoved ==
    /\ cage["user"].state # "none"
    /\ SetCage("user", NoCage)
    /\ UNCHANGED <<files, inplace, proc, image>>

-----------------------------------------------------------------------------
(***************************************************************************)
(* SaveLayered, shared by cage image save and cage build: the overlay is   *)
(* copied, then the base image hashed as it is by then, and the manifest   *)
(* and the ref written last.                                               *)
(***************************************************************************)
Copied(c, a, seen) == [of |-> c, on |-> cage[c].on, torn |-> cage[c].vm,
                       base |-> NoFile, arch |-> a, seen |-> seen]
Hashed(layer) == [layer EXCEPT !.base = img]
Publishing == \E p \in Procs : proc[p].pc \in {"pull_convert", "pull_meta"}
Seen == IF Publishing THEN NoFile ELSE img

(***************************************************************************)
(* cage image save: the cage is saved, not recorded as running, and the    *)
(* ref is not taken.  BaseArch is read here.                               *)
(***************************************************************************)
SaveCheck(p) ==
    /\ At(p, "idle")
    /\ image = NoImage
    /\ cage["user"].state = "stopped"
    /\ Become(p, [Idle EXCEPT !.pc = "save_copy", !.arch = BaseArch(meta),
                               !.seen = Seen])
    /\ UNCHANGED <<files, inplace, cage, image>>

SaveCopy(p) ==
    /\ At(p, "save_copy")
    /\ IF There(cage["user"].on)
          THEN Become(p, [proc[p] EXCEPT !.pc = "save_digest",
                                         !.layer = Copied("user", proc[p].arch, proc[p].seen)])
          ELSE Finish(p)
    /\ UNCHANGED <<files, inplace, cage, image>>

SaveDigest(p) ==
    /\ At(p, "save_digest")
    /\ IF There(img)
          THEN Become(p, [proc[p] EXCEPT !.pc = "save_ref", !.layer = Hashed(@)])
          ELSE Finish(p)
    /\ UNCHANGED <<files, inplace, cage, image>>

SaveRef(p) ==
    /\ At(p, "save_ref")
    /\ image' = proc[p].layer
    /\ Finish(p)
    /\ UNCHANGED <<files, inplace, cage>>

(***************************************************************************)
(* cage image remove of a tag deletes its ref.                             *)
(***************************************************************************)
RefRemoved ==
    /\ image # NoImage
    /\ image' = NoImage
    /\ UNCHANGED <<files, inplace, proc, cage>>

(***************************************************************************)
(* A killed command runs no deferred call.                                 *)
(***************************************************************************)
Crash(p) ==
    /\ May("crash") /\ ~At(p, "idle")
    /\ tmp' = Closed(tmp, p, Lost)
    /\ img' = Closed(img, p, Lost)
    /\ spoilt' = (spoilt \/ At(p, "pull_convert") \/ At(p, "pull_meta") \/ img.by = p)
    /\ meta' \in {meta} \cup (IF At(p, "pull_meta") THEN {"torn"} ELSE {})
    /\ Finish(p)
    /\ UNCHANGED <<inplace, cage, image>>

ProcNext(p) ==
    \/ \E a \in Arches : Pull(p, a)
    \/ PullCheck(p) \/ PullGet(p) \/ PullCreate(p) \/ PullCopy(p)
    \/ PullRename(p) \/ PullConvert(p) \/ PullConverted(p)
    \/ PullMeta(p) \/ PullRemoveTmp(p)
    \/ \E name \in Typed : RemoveImage(p, name)
    \/ RemoveCheck(p) \/ RemoveList(p) \/ RemoveFile(p) \/ RemoveMeta(p)
    \/ Start(p) \/ StartDisk(p) \/ StartSave(p)
    \/ SaveCheck(p) \/ SaveCopy(p) \/ SaveDigest(p) \/ SaveRef(p)
    \/ Crash(p)

-----------------------------------------------------------------------------
(***************************************************************************)
(* An image that IsDownloaded finds is a whole one, whatever downloads     *)
(* failed before: unless one is being converted in place, or one was cut   *)
(* short there, or two met.                                                *)
(***************************************************************************)
BaseWhole ==
    There(img) /\ ~spoilt => Whole(img) \/ Converting

(***************************************************************************)
(* BaseArch tells the architecture of the image that is there, between     *)
(* downloads that run alone: what build and save rely on to label images.  *)
(***************************************************************************)
MetaTruthful ==
    There(img) /\ ~spoilt => BaseArch(meta) = img.arch \/ Publishing

(***************************************************************************)
(* The same without a condition: every download is "all-or-nothing", two   *)
(* at a time included.                                                     *)
(***************************************************************************)
AlwaysWhole ==
    There(img) => Whole(img) \/ Converting

(***************************************************************************)
(* "Images in use by cages cannot be removed": cage image remove deletes   *)
(* no image that a cage which cage.List shows has its overlay on.          *)
(***************************************************************************)
InUseKept ==
    [][\A p \in Procs : At(p, "rm_file") /\ proc'[p].pc = "rm_meta" /\ There(img) =>
          \A c \in CageNames : Listed(c) => cage[c].on # img]_<<img, cage, proc>>

(***************************************************************************)
(* The architecture in a manifest is that of the base under the layer: if  *)
(* the overlay was made on the base that was looked at, and its metadata   *)
(* were there by then.                                                     *)
(***************************************************************************)
ImageArch ==
    image # NoImage /\ ~spoilt /\ image.on = image.seen => image.arch = image.on.arch
=============================================================================
