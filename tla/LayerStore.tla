------------------------------- MODULE LayerStore -------------------------------
(***************************************************************************)
(* The content-addressed image store (imgstore) and the commands that      *)
(* write to it: cage pull from a registry, saving a built image, cage tag  *)
(* and cage image rm.  A layer lives at a path named after its digest; a   *)
(* pull grows a sibling .partial file, which a later attempt resumes, and  *)
(* renames it into place.  A ref is written last.                          *)
(*                                                                         *)
(* Commands are processes that know nothing of each other, and the layers  *)
(* of one pull are fetched by concurrent workers.  Each step is one file   *)
(* operation or one answer of the server.                                  *)
(***************************************************************************)
EXTENDS Naturals, FiniteSets

CONSTANTS
    Clients,        \* commands in progress at once
    Layers,         \* layer digests
    Manifests,      \* manifest digests
    LayersOf,       \* the layers a manifest lists
    Refs,           \* image references
    NoManifest,     \* no manifest
    NoRef,          \* no reference
    Size,           \* blocks of a layer
    MaxLen,         \* bound: blocks of a file
    Concurrency,    \* --concurrency: workers of one pull
    SharedPulls,    \* may two commands pull the same layer at once?
    Faults          \* what may go wrong

FaultKinds ==
    {"network",     \* a request or a body breaks off
     "disk",        \* a write or a sync fails
     "norange",     \* the server ignores Range and sends the layer from its start
     "corrupt",     \* the server sends other bytes
     "invalid",     \* a manifest does not validate
     "base",        \* the base image is missing or another one
     "crash"}       \* a command is killed between two steps

ASSUME LayerStoreAssumption ==
    /\ LayersOf \in [Manifests -> SUBSET Layers]
    /\ NoManifest \notin Manifests
    /\ NoRef \notin Refs
    /\ Size \in Nat \ {0}
    /\ MaxLen \in Nat
    /\ Size <= MaxLen
    /\ Concurrency \in Nat \ {0}
    /\ SharedPulls \in BOOLEAN
    /\ Faults \subseteq FaultKinds

VARIABLES
    partial,    \* the .partial file of a layer
    final,      \* the layer file itself
    manifests,  \* manifests stored
    refs,       \* the manifest a ref points at, or NoManifest
    client,     \* the commands
    work        \* their workers, one per layer

vars == <<partial, final, manifests, refs, client, work>>
store == <<partial, final, manifests, refs>>

(***************************************************************************)
(* A file is told by its length and by whether its blocks are the layer's  *)
(* first ones in order; an empty file is good, which no file is not.       *)
(***************************************************************************)
Content == [len: 0..MaxLen, good: BOOLEAN]
Absent == [len |-> 0, good |-> FALSE]
Empty == [len |-> 0, good |-> TRUE]
Whole == [len |-> Size, good |-> TRUE]

Appended(c, block, honest) ==
    [len |-> c.len + 1, good |-> c.good /\ honest /\ block = c.len + 1]

HasLayer(l) == final[l] # Absent

(***************************************************************************)
(* A descriptor follows its file when that is renamed, and the file is     *)
(* nameless once it was removed or replaced.                               *)
(***************************************************************************)
Idle == [pc |-> "idle", ref |-> NoRef, man |-> NoManifest]
Client == [pc: {"layers", "base", "save_layer", "save_manifest", "ref"},
           ref: Refs, man: Manifests]
Descriptor == {"closed", "partial", "final", "orphan"}
Worker == [pc: {"none", "todo", "stat", "fetch", "copy", "hash", "rename", "discard",
                "done", "failed"},
           next: 1..(MaxLen + 1),   \* next block to ask for or to receive
           fd: Descriptor]

NoWork == [pc |-> "none", next |-> 1, fd |-> "closed"]

TypeOK ==
    /\ partial \in [Layers -> Content]
    /\ final \in [Layers -> Content]
    /\ manifests \subseteq Manifests
    /\ refs \in [Refs -> Manifests \cup {NoManifest}]
    /\ client \in [Clients -> Client \cup {Idle}]
    /\ work \in [Clients -> [Layers -> Worker]]

Init ==
    /\ partial = [l \in Layers |-> Absent]
    /\ final = [l \in Layers |-> Absent]
    /\ manifests = {}
    /\ refs = [r \in Refs |-> NoManifest]
    /\ client = [p \in Clients |-> Idle]
    /\ work = [p \in Clients |-> [l \in Layers |-> NoWork]]

At(p, step) == client[p].pc = step
Goto(p, step) == client' = [client EXCEPT ![p].pc = step]
Finish(p) == client' = [client EXCEPT ![p] = Idle]
WorkAt(p, l, step) == work[p][l].pc = step
SetWork(p, l, w) == work' = [work EXCEPT ![p][l] = w]
WorkGoto(p, l, step) == SetWork(p, l, [work[p][l] EXCEPT !.pc = step])
WorkEnds(p, l, step) == SetWork(p, l, [NoWork EXCEPT !.pc = step])
NoWorkers(p) == work' = [work EXCEPT ![p] = [l \in Layers |-> NoWork]]
May(fault) == fault \in Faults

-----------------------------------------------------------------------------
(***************************************************************************)
(* runRegistryPull.  The server answers with some manifest for the ref; it *)
(* is stored before it is validated.                                       *)
(***************************************************************************)
Unshared(p, m) ==
    \A l \in LayersOf[m] : \A q \in Clients \ {p} : WorkAt(q, l, "none")

BeginPull(p, r, m) ==
    /\ At(p, "idle")
    /\ SharedPulls \/ Unshared(p, m)
    /\ manifests' = manifests \cup {m}
    /\ \/ /\ client' = [client EXCEPT ![p] = [pc |-> "layers", ref |-> r, man |-> m]]
          /\ work' = [work EXCEPT ![p] = [l \in Layers |->
                        IF l \in LayersOf[m] THEN [NoWork EXCEPT !.pc = "todo"] ELSE NoWork]]
       \/ May("invalid") /\ UNCHANGED <<client, work>>
    /\ UNCHANGED <<partial, final, refs>>

(***************************************************************************)
(* pullLayers: a worker per layer, as many at once as the limit allows.    *)
(***************************************************************************)
Busy(p) == {l \in Layers : work[p][l].pc \notin {"none", "todo", "done", "failed"}}

StartWorker(p, l) ==
    /\ WorkAt(p, l, "todo")
    /\ Cardinality(Busy(p)) < Concurrency
    /\ WorkGoto(p, l, IF HasLayer(l) THEN "done" ELSE "stat")
    /\ UNCHANGED <<store, client>>

\* Wrong variant: the resume is off by one.
StatOffByOne(p, l) ==
    /\ WorkAt(p, l, "stat")
    /\ IF HasLayer(l)
          THEN WorkGoto(p, l, "done")
          ELSE SetWork(p, l, [pc |-> "fetch", next |-> partial[l].len + 2, fd |-> "closed"])
    /\ UNCHANGED <<store, client>>

(***************************************************************************)
(* PutLayerStreamed: how much is there to resume from?                     *)
(***************************************************************************)
Stat(p, l) ==
    /\ WorkAt(p, l, "stat")
    /\ IF HasLayer(l)
          THEN WorkGoto(p, l, "done")
          ELSE SetWork(p, l, [pc |-> "fetch", next |-> partial[l].len + 1, fd |-> "closed"])
    /\ UNCHANGED <<store, client>>

(***************************************************************************)
(* A Range beyond the end of the layer is refused.                         *)
(***************************************************************************)
FirstBlocks(asked) ==
    {b \in 1..Size : b = asked \/ (b = 1 /\ May("norange"))}

FetchFails(p, l) ==
    /\ WorkAt(p, l, "fetch")
    /\ FirstBlocks(work[p][l].next) = {} \/ May("network")
    /\ WorkEnds(p, l, "failed")
    /\ UNCHANGED <<store, client>>

Fetch(p, l) ==
    /\ WorkAt(p, l, "fetch")
    /\ \E b \in FirstBlocks(work[p][l].next) :
          SetWork(p, l, [pc |-> "copy", next |-> b, fd |-> "partial"])
    /\ partial' = [partial EXCEPT ![l] = IF @ = Absent THEN Empty ELSE @]
    /\ UNCHANGED <<final, manifests, refs, client>>

(***************************************************************************)
(* O_APPEND: every block goes to the end of the file as it is by then.     *)
(***************************************************************************)
AppendBlock(p, l) ==
    LET w == work[p][l] IN
    /\ WorkAt(p, l, "copy")
    /\ w.next <= Size
    /\ \E honest \in BOOLEAN :
          /\ honest \/ May("corrupt")
          /\ \/ /\ w.fd = "partial"
                /\ partial[l].len < MaxLen
                /\ partial' = [partial EXCEPT ![l] = Appended(@, w.next, honest)]
                /\ UNCHANGED final
             \/ /\ w.fd = "final"
                /\ final[l].len < MaxLen
                /\ final' = [final EXCEPT ![l] = Appended(@, w.next, honest)]
                /\ UNCHANGED partial
             \/ w.fd = "orphan" /\ UNCHANGED <<partial, final>>
    /\ SetWork(p, l, [w EXCEPT !.next = @ + 1])
    /\ UNCHANGED <<manifests, refs, client>>

\* .partial is kept for the next attempt.  The body can break off after its last
\* byte too, before the end of the stream is seen.
CopyFails(p, l) ==
    /\ WorkAt(p, l, "copy")
    /\ May("disk") \/ May("network")
    /\ WorkEnds(p, l, "failed")
    /\ UNCHANGED <<store, client>>

CopyEnds(p, l) ==
    /\ WorkAt(p, l, "copy")
    /\ work[p][l].next > Size
    /\ WorkEnds(p, l, "hash")
    /\ UNCHANGED <<store, client>>

\* Wrong variant: a complete body is taken for a good one.
HashTrusting(p, l) ==
    /\ WorkAt(p, l, "hash")
    /\ WorkGoto(p, l, IF partial[l] = Absent THEN "failed" ELSE "rename")
    /\ UNCHANGED <<store, client>>

(***************************************************************************)
(* The file at the path is hashed, whoever wrote it.                       *)
(***************************************************************************)
Hash(p, l) ==
    /\ WorkAt(p, l, "hash")
    /\ WorkGoto(p, l, IF partial[l] = Absent THEN "failed"
                      ELSE IF partial[l] = Whole THEN "rename" ELSE "discard")
    /\ UNCHANGED <<store, client>>

\* What becomes of a descriptor on a layer's files.
Keep == [fd \in Descriptor |-> fd]
Renamed == [Keep EXCEPT !["partial"] = "final", !["final"] = "orphan"]
Replaced == [Keep EXCEPT !["final"] = "orphan"]
Removed == [Keep EXCEPT !["partial"] = "orphan"]

Reopened(l, becomes) ==
    [q \in Clients |-> [work[q] EXCEPT ![l].fd = becomes[@]]]

Rename(p, l) ==
    /\ WorkAt(p, l, "rename")
    /\ \/ /\ partial[l] # Absent
          /\ final' = [final EXCEPT ![l] = partial[l]]
          /\ partial' = [partial EXCEPT ![l] = Absent]
          /\ work' = [Reopened(l, Renamed) EXCEPT ![p][l] = [NoWork EXCEPT !.pc = "done"]]
       \/ /\ partial[l] = Absent
          /\ WorkGoto(p, l, "failed")
          /\ UNCHANGED <<partial, final>>
    /\ UNCHANGED <<manifests, refs, client>>

Discard(p, l) ==
    /\ WorkAt(p, l, "discard")
    /\ partial' = [partial EXCEPT ![l] = Absent]
    /\ work' = [Reopened(l, Removed) EXCEPT ![p][l] = [NoWork EXCEPT !.pc = "failed"]]
    /\ UNCHANGED <<final, manifests, refs, client>>

WorkerStep(p, l) ==
    \/ StartWorker(p, l) \/ Stat(p, l) \/ Fetch(p, l) \/ FetchFails(p, l)
    \/ AppendBlock(p, l) \/ CopyFails(p, l) \/ CopyEnds(p, l)
    \/ Hash(p, l) \/ Rename(p, l) \/ Discard(p, l)

\* Wrong variant: a failed worker goes unnoticed.
JoinWorkersForgiving(p) ==
    /\ At(p, "layers")
    /\ \A l \in LayersOf[client[p].man] : work[p][l].pc \in {"done", "failed"}
    /\ Goto(p, "base")
    /\ NoWorkers(p)
    /\ UNCHANGED store

(***************************************************************************)
(* One worker's error stops no other; the pull fails when all have ended.  *)
(***************************************************************************)
JoinWorkers(p) ==
    LET m == client[p].man IN
    /\ At(p, "layers")
    /\ \A l \in LayersOf[m] : work[p][l].pc \in {"done", "failed"}
    /\ IF \E l \in LayersOf[m] : WorkAt(p, l, "failed") THEN Finish(p) ELSE Goto(p, "base")
    /\ NoWorkers(p)
    /\ UNCHANGED store

CheckBase(p) ==
    /\ At(p, "base")
    /\ Goto(p, "ref") \/ (May("base") /\ Finish(p))
    /\ UNCHANGED <<store, work>>

WriteRef(p) ==
    /\ At(p, "ref")
    /\ refs' = [refs EXCEPT ![client[p].ref] = client[p].man]
    /\ Finish(p)
    /\ UNCHANGED <<partial, final, manifests, work>>

-----------------------------------------------------------------------------
(***************************************************************************)
(* SaveLayered: one layer, copied through a file of its own and renamed    *)
(* into place, then the manifest, then the ref.                            *)
(***************************************************************************)
BeginSave(p, r, m) ==
    /\ At(p, "idle")
    /\ \E l \in Layers : LayersOf[m] = {l}
    /\ client' = [client EXCEPT ![p] = [pc |-> "save_layer", ref |-> r, man |-> m]]
    /\ UNCHANGED <<store, work>>

CopyFromFile(p, l) ==
    /\ At(p, "save_layer")
    /\ l \in LayersOf[client[p].man]
    /\ final' = [final EXCEPT ![l] = Whole]
    /\ work' = Reopened(l, Replaced)
    /\ Goto(p, "save_manifest")
    /\ UNCHANGED <<partial, manifests, refs>>

\* The base image's digest is taken first, which fails without a base image.
SaveManifest(p) ==
    /\ At(p, "save_manifest")
    /\ \/ manifests' = manifests \cup {client[p].man} /\ Goto(p, "ref")
       \/ May("base") /\ Finish(p) /\ UNCHANGED manifests
    /\ UNCHANGED <<partial, final, refs, work>>

(***************************************************************************)
(* cage tag copies a ref; cage image rm removes one and nothing else.      *)
(***************************************************************************)
BeginTag(p, src, dst) ==
    /\ At(p, "idle")
    /\ refs[src] # NoManifest
    /\ client' = [client EXCEPT ![p] = [pc |-> "ref", ref |-> dst, man |-> refs[src]]]
    /\ UNCHANGED <<store, work>>

DeleteRef(r) ==
    /\ refs[r] # NoManifest
    /\ refs' = [refs EXCEPT ![r] = NoManifest]
    /\ UNCHANGED <<partial, final, manifests, client, work>>

-----------------------------------------------------------------------------
Crash(p) ==
    /\ May("crash")
    /\ ~At(p, "idle")
    /\ Finish(p)
    /\ NoWorkers(p)
    /\ UNCHANGED store

PullStep(p) == JoinWorkers(p) \/ CheckBase(p) \/ WriteRef(p)
SaveStep(p) == SaveManifest(p) \/ \E l \in Layers : CopyFromFile(p, l)

Next ==
    \/ \E p \in Clients :
          \/ \E r \in Refs, m \in Manifests : BeginPull(p, r, m) \/ BeginSave(p, r, m)
          \/ \E r, s \in Refs : BeginTag(p, r, s)
          \/ \E l \in Layers : WorkerStep(p, l)
          \/ PullStep(p) \/ SaveStep(p) \/ Crash(p)
    \/ \E r \in Refs : DeleteRef(r)

Spec == Init /\ [][Next]_vars

(***************************************************************************)
(* Workers and commands keep running, and a server asked again and again   *)
(* does send a block now and then.                                         *)
(***************************************************************************)
Fairness ==
    \A p \in Clients :
        /\ WF_vars(PullStep(p))
        /\ WF_vars(SaveStep(p))
        /\ \A l \in Layers :
              WF_vars(WorkerStep(p, l)) /\ SF_vars(Fetch(p, l)) /\ SF_vars(AppendBlock(p, l))

FairSpec == Spec /\ Fairness

-----------------------------------------------------------------------------
(***************************************************************************)
(* Correctness.                                                            *)
(***************************************************************************)

\* A layer file holds what its digest says: neither resuming, a server that
\* ignores Range or sends garbage, nor a crash ever gets other bytes under the
\* final name, as long as no two commands pull the same layer at once.
LayerIntact == \A l \in Layers : HasLayer(l) => final[l] = Whole

\* A ref that can be listed can be used: its manifest and every layer of it are
\* in the store, whichever of pull, save, tag and rm ran, overlapped or died.
RefComplete ==
    \A r \in Refs :
        refs[r] # NoManifest =>
            /\ refs[r] \in manifests
            /\ \A l \in LayersOf[refs[r]] : HasLayer(l)

\* "A subsequent call resumes naturally": a layer asked for over and over is in
\* the store in the end.  It is not: a .partial as long as the layer is never
\* hashed again, since the Range that asks for what follows is refused.
ResumesNaturally ==
    \A l \in Layers :
        ([]<>(\E p \in Clients : WorkAt(p, l, "fetch"))) => <>HasLayer(l)

=============================================================================
