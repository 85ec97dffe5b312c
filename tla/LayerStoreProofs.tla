---------------------------- MODULE LayerStoreProofs ----------------------------
(***************************************************************************)
(* What holds of the image store for every number of commands, layers,     *)
(* manifests, refs and blocks.                                             *)
(***************************************************************************)
EXTENDS LayerStore, TLAPS

\* The contents a step writes are contents.
LEMMA ContentTypes ==
    /\ Absent \in Content /\ Empty \in Content /\ Whole \in Content
    /\ Absent # Whole /\ Absent # Empty
    /\ \A c \in Content, b \in Nat, h \in BOOLEAN :
          /\ c.len < MaxLen => Appended(c, b, h) \in Content
          /\ Appended(c, b, h) # Absent
BY LayerStoreAssumption, SMT DEF Content, Absent, Empty, Whole, Appended

\* Renaming a descriptor gives a descriptor.
LEMMA DescriptorTypes ==
    /\ Renamed \in [Descriptor -> Descriptor]
    /\ Replaced \in [Descriptor -> Descriptor]
    /\ Removed \in [Descriptor -> Descriptor]
BY DEF Renamed, Replaced, Removed, Keep, Descriptor

Ended == {"none", "todo", "hash", "done", "failed"}

\* What a step makes of a worker is a worker.
LEMMA WorkerTypes ==
    /\ \A step \in Ended : [NoWork EXCEPT !.pc = step] \in Worker
    /\ NoWork \in Worker
    /\ \A w \in Worker :
          /\ w.fd \in Descriptor /\ w.next \in Nat
          /\ \A d \in Descriptor : [w EXCEPT !.fd = d] \in Worker
          /\ \A step \in Ended \cup {"stat", "rename", "discard"} :
                [w EXCEPT !.pc = step] \in Worker
          /\ w.next <= Size => [w EXCEPT !.next = @ + 1] \in Worker
    /\ \A n \in 1..(MaxLen + 1), step \in {"fetch", "copy"}, d \in Descriptor :
          [pc |-> step, next |-> n, fd |-> d] \in Worker
<1> USE LayerStoreAssumption
<1>1. \A step \in Ended : [NoWork EXCEPT !.pc = step] \in Worker
  BY DEF Ended, NoWork, Worker, Descriptor
<1>2. NoWork \in Worker
  BY DEF NoWork, Worker, Descriptor
<1>3. ASSUME NEW w \in Worker
      PROVE  /\ w.fd \in Descriptor /\ w.next \in Nat
             /\ \A d \in Descriptor : [w EXCEPT !.fd = d] \in Worker
             /\ \A step \in Ended \cup {"stat", "rename", "discard"} :
                   [w EXCEPT !.pc = step] \in Worker
             /\ w.next <= Size => [w EXCEPT !.next = @ + 1] \in Worker
  BY DEF Ended, Worker
<1>4. \A n \in 1..(MaxLen + 1), step \in {"fetch", "copy"}, d \in Descriptor :
          [pc |-> step, next |-> n, fd |-> d] \in Worker
  BY DEF Worker
<1> QED
  BY <1>1, <1>2, <1>3, <1>4

WorkSpace == [Clients -> [Layers -> Worker]]
ClientSpace == [Clients -> Client \cup {Idle}]

\* The ways in which a worker's step changes it keep the workers well typed.
LEMMA WorkChanges ==
    ASSUME work \in WorkSpace, NEW p \in Clients
    PROVE  /\ \A l \in Layers : work[p][l] \in Worker
           /\ \A l \in Layers, w \in Worker : SetWork(p, l, w) => work' \in WorkSpace
           /\ NoWorkers(p) => work' \in WorkSpace
           /\ \A l \in Layers :
                 /\ \A step \in Ended \cup {"stat", "rename", "discard"} :
                       WorkGoto(p, l, step) => work' \in WorkSpace
                 /\ \A step \in Ended : WorkEnds(p, l, step) => work' \in WorkSpace
<1>1. \A l \in Layers : work[p][l] \in Worker
  BY DEF WorkSpace
<1>2. \A l \in Layers, w \in Worker : SetWork(p, l, w) => work' \in WorkSpace
  BY DEF WorkSpace, SetWork
<1>3. NoWorkers(p) => work' \in WorkSpace
  BY WorkerTypes DEF WorkSpace, NoWorkers
<1>4. ASSUME NEW l \in Layers, NEW step \in Ended \cup {"stat", "rename", "discard"},
             WorkGoto(p, l, step)
      PROVE  work' \in WorkSpace
  BY <1>1, <1>2, <1>4, WorkerTypes DEF WorkGoto
<1>5. ASSUME NEW l \in Layers, NEW step \in Ended, WorkEnds(p, l, step)
      PROVE  work' \in WorkSpace
  BY <1>2, <1>5, WorkerTypes DEF WorkEnds
<1> QED
  BY <1>1, <1>2, <1>3, <1>4, <1>5

\* Reopening descriptors, and ending a worker with it, keeps the workers well typed.
LEMMA ReopenedType ==
    ASSUME work \in WorkSpace, NEW l \in Layers, NEW becomes \in [Descriptor -> Descriptor]
    PROVE  /\ Reopened(l, becomes) \in WorkSpace
           /\ \A p \in Clients, step \in Ended :
                 [Reopened(l, becomes) EXCEPT ![p][l] = [NoWork EXCEPT !.pc = step]]
                    \in WorkSpace
<1>1. ASSUME NEW q \in Clients
      PROVE  [work[q] EXCEPT ![l].fd = becomes[@]] \in [Layers -> Worker]
  BY WorkerTypes DEF WorkSpace
<1>2. Reopened(l, becomes) \in WorkSpace
  BY <1>1 DEF Reopened, WorkSpace
<1> QED
  BY <1>2, WorkerTypes DEF WorkSpace

\* The ways in which a command's step changes it keep the commands well typed.
LEMMA ClientChanges ==
    ASSUME client \in ClientSpace, NEW p \in Clients
    PROVE  /\ Finish(p) => client' \in ClientSpace
           /\ \A step \in {"base", "ref", "save_manifest"} :
                 Goto(p, step) /\ ~At(p, "idle") => client' \in ClientSpace
           /\ \A step \in {"layers", "save_layer", "ref"}, r \in Refs, m \in Manifests :
                 client' = [client EXCEPT ![p] = [pc |-> step, ref |-> r, man |-> m]]
                    => client' \in ClientSpace
           /\ ~At(p, "idle") => client[p].ref \in Refs /\ client[p].man \in Manifests
<1>1. Finish(p) => client' \in ClientSpace
  BY DEF Finish, ClientSpace
<1>2. ASSUME NEW step \in {"base", "ref", "save_manifest"}, Goto(p, step), ~At(p, "idle")
      PROVE  client' \in ClientSpace
  BY <1>2 DEF At, Client, Idle, Goto, ClientSpace
<1>3. ASSUME NEW step \in {"layers", "save_layer", "ref"}, NEW r \in Refs, NEW m \in Manifests,
             client' = [client EXCEPT ![p] = [pc |-> step, ref |-> r, man |-> m]]
      PROVE  client' \in ClientSpace
  BY <1>3 DEF Client, ClientSpace
<1>4. ~At(p, "idle") => client[p].ref \in Refs /\ client[p].man \in Manifests
  BY DEF At, Client, Idle, ClientSpace
<1> QED
  BY <1>1, <1>2, <1>3, <1>4

\* TypeOK, in the words of the lemmas above.
LEMMA TypeSpaces ==
    TypeOK <=> /\ partial \in [Layers -> Content]
               /\ final \in [Layers -> Content]
               /\ manifests \subseteq Manifests
               /\ refs \in [Refs -> Manifests \cup {NoManifest}]
               /\ client \in ClientSpace
               /\ work \in WorkSpace
BY DEF TypeOK, ClientSpace, WorkSpace

\* A worker's step keeps the types.
LEMMA WorkerStepType ==
    ASSUME TypeOK, NEW p \in Clients, NEW l \in Layers, WorkerStep(p, l)
    PROVE  TypeOK'
<1> USE DEF Ended
<1>a. /\ partial \in [Layers -> Content] /\ final \in [Layers -> Content]
      /\ work \in WorkSpace /\ work[p][l] \in Worker
  BY TypeSpaces, WorkChanges
<1>1. CASE StartWorker(p, l)
  <2>1. work' \in WorkSpace
    BY <1>1, <1>a, WorkChanges DEF StartWorker
  <2> QED
    BY <1>1, <2>1, TypeSpaces DEF StartWorker, store, TypeOK, WorkSpace
<1>2. CASE Stat(p, l)
  <2>1. partial[l].len + 1 \in 1..(MaxLen + 1)
    BY <1>a, LayerStoreAssumption DEF Content
  <2>2. [pc |-> "fetch", next |-> partial[l].len + 1, fd |-> "closed"] \in Worker
    BY <2>1, WorkerTypes DEF Descriptor
  <2>3. work' \in WorkSpace
    BY <1>2, <1>a, <2>2, WorkChanges DEF Stat
  <2> QED
    BY <1>2, <2>3 DEF Stat, store, TypeOK, WorkSpace
<1>3. CASE Fetch(p, l)
  <2>1. \A b \in FirstBlocks(work[p][l].next) :
           [pc |-> "copy", next |-> b, fd |-> "partial"] \in Worker
    BY LayerStoreAssumption DEF FirstBlocks, Worker, Descriptor
  <2>2. work' \in WorkSpace
    BY <1>3, <1>a, <2>1, WorkChanges DEF Fetch
  <2>3. partial' \in [Layers -> Content]
    BY <1>3, <1>a, ContentTypes DEF Fetch
  <2> QED
    BY <1>3, <2>2, <2>3 DEF Fetch, TypeOK, WorkSpace
<1>4. CASE FetchFails(p, l)
  <2>1. work' \in WorkSpace
    BY <1>4, <1>a, WorkChanges DEF FetchFails
  <2> QED
    BY <1>4, <2>1 DEF FetchFails, store, TypeOK, WorkSpace
<1>5. CASE AppendBlock(p, l)
  <2>1. work[p][l].next \in Nat /\ partial[l] \in Content /\ final[l] \in Content
    BY <1>a, WorkerTypes
  <2>2. \A c \in Content, h \in BOOLEAN :
           c.len < MaxLen => Appended(c, work[p][l].next, h) \in Content
    BY <2>1, ContentTypes
  <2>3. partial' \in [Layers -> Content] /\ final' \in [Layers -> Content]
    BY <1>5, <1>a, <2>1, <2>2 DEF AppendBlock
  <2>4. [work[p][l] EXCEPT !.next = @ + 1] \in Worker
    BY <1>5, <1>a, WorkerTypes DEF AppendBlock
  <2>5. work' \in WorkSpace
    BY <1>5, <1>a, <2>4, WorkChanges DEF AppendBlock
  <2> QED
    BY <1>5, <2>3, <2>5 DEF AppendBlock, TypeOK, WorkSpace
<1>6. CASE CopyFails(p, l)
  <2>1. work' \in WorkSpace
    BY <1>6, <1>a, WorkChanges DEF CopyFails
  <2> QED
    BY <1>6, <2>1 DEF CopyFails, store, TypeOK, WorkSpace
<1>7. CASE CopyEnds(p, l)
  <2>1. work' \in WorkSpace
    BY <1>7, <1>a, WorkChanges DEF CopyEnds
  <2> QED
    BY <1>7, <2>1 DEF CopyEnds, store, TypeOK, WorkSpace
<1>8. CASE Hash(p, l)
  <2>1. work' \in WorkSpace
    BY <1>8, <1>a, WorkChanges DEF Hash
  <2> QED
    BY <1>8, <2>1 DEF Hash, store, TypeOK, WorkSpace
<1>9. CASE Rename(p, l)
  <2>1. [Reopened(l, Renamed) EXCEPT ![p][l] = [NoWork EXCEPT !.pc = "done"]] \in WorkSpace
    BY <1>a, ReopenedType, DescriptorTypes
  <2>2. work' \in WorkSpace
    BY <1>9, <1>a, <2>1, WorkChanges DEF Rename
  <2>3. partial' \in [Layers -> Content] /\ final' \in [Layers -> Content]
    BY <1>9, <1>a, ContentTypes DEF Rename
  <2> QED
    BY <1>9, <2>2, <2>3 DEF Rename, TypeOK, WorkSpace
<1>10. CASE Discard(p, l)
  <2>1. [Reopened(l, Removed) EXCEPT ![p][l] = [NoWork EXCEPT !.pc = "failed"]] \in WorkSpace
    BY <1>a, ReopenedType, DescriptorTypes
  <2>2. partial' \in [Layers -> Content]
    BY <1>10, <1>a, ContentTypes DEF Discard
  <2> QED
    BY <1>10, <2>1, <2>2 DEF Discard, TypeOK, WorkSpace
<1> QED
  BY <1>1, <1>2, <1>3, <1>4, <1>5, <1>6, <1>7, <1>8, <1>9, <1>10 DEF WorkerStep

\* The files, stored manifests, refs, commands and workers keep their types,
\* whatever is shared and whatever fails: no worker resumes past the bound and
\* no command loses track of what it was writing.
THEOREM TypeCorrect == Spec => []TypeOK
<1>1. Init => TypeOK
  BY ContentTypes, WorkerTypes DEF Init, TypeOK
<1>2. TypeOK /\ [Next]_vars => TypeOK'
  <2> SUFFICES ASSUME TypeOK, [Next]_vars PROVE TypeOK'
    OBVIOUS
  <2>a. client \in ClientSpace /\ work \in WorkSpace
    BY TypeSpaces
  <2>1. ASSUME NEW p \in Clients, NEW r \in Refs, NEW m \in Manifests, BeginPull(p, r, m)
        PROVE  TypeOK'
    <3>1. [l \in Layers |-> IF l \in LayersOf[m] THEN [NoWork EXCEPT !.pc = "todo"] ELSE NoWork]
            \in [Layers -> Worker]
      BY WorkerTypes DEF Ended
    <3>2. work' \in WorkSpace
      BY <2>1, <2>a, <3>1 DEF BeginPull, WorkSpace
    <3>3. client' \in ClientSpace
      BY <2>1, <2>a, ClientChanges DEF BeginPull
    <3> QED
      BY <2>1, <3>2, <3>3 DEF BeginPull, TypeOK, ClientSpace, WorkSpace
  <2>2. ASSUME NEW p \in Clients, NEW r \in Refs, NEW m \in Manifests, BeginSave(p, r, m)
        PROVE  TypeOK'
    <3>1. client' \in ClientSpace
      BY <2>2, <2>a, ClientChanges DEF BeginSave
    <3> QED
      BY <2>2, <3>1 DEF BeginSave, store, TypeOK, ClientSpace
  <2>3. ASSUME NEW p \in Clients, NEW r \in Refs, NEW s \in Refs, BeginTag(p, r, s)
        PROVE  TypeOK'
    <3>1. refs[r] \in Manifests
      BY <2>3 DEF BeginTag, TypeOK
    <3>2. client' \in ClientSpace
      BY <2>3, <2>a, <3>1, ClientChanges DEF BeginTag
    <3> QED
      BY <2>3, <3>2 DEF BeginTag, store, TypeOK, ClientSpace
  <2>4. ASSUME NEW p \in Clients, NEW l \in Layers, WorkerStep(p, l)
        PROVE  TypeOK'
    BY <2>4, WorkerStepType
  <2>5. ASSUME NEW p \in Clients, PullStep(p) PROVE TypeOK'
    <3>1. CASE JoinWorkers(p)
      <4>1. client' \in ClientSpace /\ work' \in WorkSpace
        BY <3>1, <2>a, ClientChanges, WorkChanges DEF JoinWorkers, At
      <4> QED
        BY <3>1, <4>1 DEF JoinWorkers, store, TypeOK, ClientSpace, WorkSpace
    <3>2. CASE CheckBase(p)
      <4>1. client' \in ClientSpace
        BY <3>2, <2>a, ClientChanges DEF CheckBase, At
      <4> QED
        BY <3>2, <4>1 DEF CheckBase, store, TypeOK, ClientSpace
    <3>3. CASE WriteRef(p)
      <4>1. client' \in ClientSpace
        BY <3>3, <2>a, ClientChanges DEF WriteRef
      <4>2. client[p].ref \in Refs /\ client[p].man \in Manifests
        BY <3>3, <2>a, ClientChanges DEF WriteRef, At
      <4> QED
        BY <3>3, <4>1, <4>2 DEF WriteRef, TypeOK, ClientSpace
    <3> QED
      BY <2>5, <3>1, <3>2, <3>3 DEF PullStep
  <2>6. ASSUME NEW p \in Clients, SaveStep(p) PROVE TypeOK'
    <3>1. CASE SaveManifest(p)
      <4>1. client' \in ClientSpace /\ client[p].man \in Manifests
        BY <3>1, <2>a, ClientChanges DEF SaveManifest, At
      <4> QED
        BY <3>1, <4>1 DEF SaveManifest, TypeOK, ClientSpace
    <3>2. ASSUME NEW l \in Layers, CopyFromFile(p, l) PROVE TypeOK'
      <4>1. client' \in ClientSpace
        BY <3>2, <2>a, ClientChanges DEF CopyFromFile, At
      <4>2. work' \in WorkSpace
        BY <3>2, <2>a, ReopenedType, DescriptorTypes DEF CopyFromFile
      <4> QED
        BY <3>2, <4>1, <4>2, ContentTypes DEF CopyFromFile, TypeOK, ClientSpace, WorkSpace
    <3> QED
      BY <2>6, <3>1, <3>2 DEF SaveStep
  <2>7. ASSUME NEW p \in Clients, Crash(p) PROVE TypeOK'
    <3>1. client' \in ClientSpace /\ work' \in WorkSpace
      BY <2>7, <2>a, ClientChanges, WorkChanges DEF Crash
    <3> QED
      BY <2>7, <3>1 DEF Crash, store, TypeOK, ClientSpace, WorkSpace
  <2>8. ASSUME NEW r \in Refs, DeleteRef(r) PROVE TypeOK'
    BY <2>8 DEF DeleteRef, TypeOK
  <2>9. CASE UNCHANGED vars
    BY <2>9 DEF vars, TypeOK
  <2> QED
    BY <2>1, <2>2, <2>3, <2>4, <2>5, <2>6, <2>7, <2>8, <2>9 DEF Next
<1> QED
  BY <1>1, <1>2, PTL DEF Spec

-----------------------------------------------------------------------------
\* A worker's step changes the program counter and the descriptor of no other
\* worker, but for descriptors on the files it renames or removes.
LEMMA WorkerFrame ==
    ASSUME TypeOK, NEW p \in Clients, NEW l \in Layers, WorkerStep(p, l),
           NEW q \in Clients, NEW k \in Layers, q # p \/ k # l
    PROVE  /\ work'[q][k].pc = work[q][k].pc
           /\ work'[q][k].fd \in {work[q][k].fd, Renamed[work[q][k].fd], Removed[work[q][k].fd]}
           /\ k # l => work'[q][k].fd = work[q][k].fd
<1>a. work \in WorkSpace
  BY TypeSpaces
<1>1. ASSUME NEW w, SetWork(p, l, w) PROVE work'[q][k] = work[q][k]
  BY <1>1, <1>a DEF SetWork, WorkSpace
<1>2. ASSUME NEW becomes, NEW w, work' = [Reopened(l, becomes) EXCEPT ![p][l] = w]
      PROVE  /\ work'[q][k].pc = work[q][k].pc
             /\ work'[q][k].fd = IF k = l THEN becomes[work[q][k].fd] ELSE work[q][k].fd
  <2>1. Reopened(l, becomes)[q] = [work[q] EXCEPT ![l].fd = becomes[@]]
    BY DEF Reopened
  <2>2. work'[q][k] = [work[q] EXCEPT ![l].fd = becomes[@]][k]
    BY <1>2, <1>a, <2>1 DEF Reopened, WorkSpace
  <2>3. work[q] \in [Layers -> Worker] /\ work[q][l] \in Worker
    BY <1>a DEF WorkSpace
  <2> QED
    BY <2>2, <2>3 DEF Worker
<1>3. CASE StartWorker(p, l) \/ Stat(p, l) \/ Fetch(p, l) \/ FetchFails(p, l)
  BY <1>1, <1>3 DEF StartWorker, Stat, Fetch, FetchFails, WorkGoto, WorkEnds
<1>4. CASE AppendBlock(p, l) \/ CopyFails(p, l) \/ CopyEnds(p, l) \/ Hash(p, l)
  BY <1>1, <1>4 DEF AppendBlock, CopyFails, CopyEnds, Hash, WorkGoto, WorkEnds
<1>5. CASE Rename(p, l)
  BY <1>1, <1>2, <1>5 DEF Rename, WorkGoto
<1>6. CASE Discard(p, l)
  BY <1>2, <1>6 DEF Discard
<1> QED
  BY <1>3, <1>4, <1>5, <1>6 DEF WorkerStep

\* What becomes of the worker that takes a step.
LEMMA WorkerMoves ==
    ASSUME TypeOK, NEW p \in Clients, NEW l \in Layers, WorkerStep(p, l)
    PROVE  /\ work[p][l].pc \notin {"none", "done"}
           /\ work'[p][l].pc # "none"
           /\ work'[p][l].fd # work[p][l].fd => work'[p][l].fd \in {"closed", "partial"}
           /\ work'[p][l].fd # "closed" =>
                 work'[p][l].pc = "copy" \/ (work[p][l].fd # "closed" /\ work[p][l].pc # "copy")
           /\ work'[p][l].pc = "rename" => Hash(p, l) /\ partial[l] = Whole
           /\ work'[p][l].pc = "done" => HasLayer(l)'
<1>a. work \in WorkSpace /\ work[p] \in [Layers -> Worker] /\ work[p][l] \in Worker
  BY TypeSpaces DEF WorkSpace
<1>1. ASSUME NEW w, SetWork(p, l, w) PROVE work'[p][l] = w
  BY <1>1, <1>a DEF SetWork, WorkSpace
<1>2. ASSUME NEW step, WorkGoto(p, l, step)
      PROVE  work'[p][l].pc = step /\ work'[p][l].fd = work[p][l].fd
  BY <1>1, <1>2, <1>a DEF WorkGoto, Worker
<1>3. ASSUME NEW step, WorkEnds(p, l, step)
      PROVE  work'[p][l].pc = step /\ work'[p][l].fd = "closed"
  BY <1>1, <1>3 DEF WorkEnds, NoWork
<1>4. ASSUME NEW becomes, NEW step,
             work' = [Reopened(l, becomes) EXCEPT ![p][l] = [NoWork EXCEPT !.pc = step]]
      PROVE  work'[p][l].pc = step /\ work'[p][l].fd = "closed"
  <2>1. work'[p][l] = [NoWork EXCEPT !.pc = step]
    BY <1>4, <1>a DEF Reopened, WorkSpace
  <2> QED
    BY <2>1 DEF NoWork
<1>5. CASE StartWorker(p, l)
  BY <1>2, <1>5 DEF StartWorker, WorkAt, HasLayer, store
<1>6. CASE Stat(p, l)
  BY <1>1, <1>2, <1>6 DEF Stat, WorkAt, HasLayer, store
<1>7. CASE Fetch(p, l)
  BY <1>1, <1>7 DEF Fetch, WorkAt
<1>8. CASE FetchFails(p, l) \/ CopyFails(p, l) \/ CopyEnds(p, l)
  BY <1>3, <1>8 DEF FetchFails, CopyFails, CopyEnds, WorkAt
<1>9. CASE AppendBlock(p, l)
  BY <1>1, <1>9, <1>a DEF AppendBlock, WorkAt, Worker
<1>10. CASE Hash(p, l)
  BY <1>2, <1>10 DEF Hash, WorkAt
<1>11. CASE Rename(p, l)
  <2>1. partial[l] # Absent => final'[l] # Absent
    BY <1>11 DEF Rename, TypeOK
  <2> QED
    BY <1>2, <1>4, <1>11, <2>1 DEF Rename, WorkAt, HasLayer
<1>12. CASE Discard(p, l)
  BY <1>4, <1>12 DEF Discard, WorkAt
<1> QED
  BY <1>5, <1>6, <1>7, <1>8, <1>9, <1>10, <1>11, <1>12 DEF WorkerStep

\* Nothing is ever taken out of the store but refs: what a manifest needs stays.
LEMMA StoreGrows ==
    ASSUME TypeOK, [Next]_vars
    PROVE  /\ manifests \subseteq manifests'
           /\ \A l \in Layers : HasLayer(l) => HasLayer(l)'
<1>1. ASSUME NEW p \in Clients, NEW k \in Layers, WorkerStep(p, k)
      PROVE  /\ manifests' = manifests
             /\ \A l \in Layers : HasLayer(l) => HasLayer(l)'
  <2>1. CASE AppendBlock(p, k)
    <3>1. \A h \in BOOLEAN :
             Appended(final[k], work[p][k].next, h) # Absent
      BY ContentTypes, WorkChanges, WorkerTypes, TypeSpaces DEF WorkSpace
    <3> QED
      BY <2>1, <3>1 DEF AppendBlock, HasLayer, TypeOK
  <2>2. CASE Rename(p, k)
    BY <2>2 DEF Rename, HasLayer, TypeOK
  <2>3. CASE ~AppendBlock(p, k) /\ ~Rename(p, k)
    BY <1>1, <2>3 DEF WorkerStep, StartWorker, Stat, Fetch, FetchFails, CopyFails, CopyEnds,
                      Hash, Discard, HasLayer, store
  <2> QED
    BY <2>1, <2>2, <2>3 DEF AppendBlock, Rename, WorkerStep
<1>2. ASSUME NEW p \in Clients, NEW k \in Layers, CopyFromFile(p, k)
      PROVE  manifests' = manifests /\ \A l \in Layers : HasLayer(l) => HasLayer(l)'
  BY <1>2, ContentTypes DEF CopyFromFile, HasLayer, TypeOK
<1>3. ASSUME NEW p \in Clients, PullStep(p) \/ SaveManifest(p) \/ Crash(p)
      PROVE  manifests \subseteq manifests' /\ final' = final
  BY <1>3 DEF PullStep, JoinWorkers, CheckBase, WriteRef, SaveManifest, Crash, store
<1>4. ASSUME NEW p \in Clients, NEW r \in Refs, NEW m \in Manifests,
             BeginPull(p, r, m) \/ BeginSave(p, r, m)
      PROVE  manifests \subseteq manifests' /\ final' = final
  BY <1>4 DEF BeginPull, BeginSave, store
<1>5. ASSUME NEW p \in Clients, NEW r \in Refs, NEW s \in Refs, BeginTag(p, r, s) \/ DeleteRef(r)
      PROVE  manifests \subseteq manifests' /\ final' = final
  BY <1>5 DEF BeginTag, DeleteRef, store
<1>6. CASE UNCHANGED vars
  BY <1>6 DEF vars, HasLayer
<1>7. ASSUME final' = final PROVE \A l \in Layers : HasLayer(l) => HasLayer(l)'
  BY <1>7 DEF HasLayer
<1>8. CASE \E r \in Refs : DeleteRef(r)
  BY <1>5, <1>7, <1>8 DEF DeleteRef
<1> QED
  BY <1>1, <1>2, <1>3, <1>4, <1>5, <1>6, <1>7, <1>8 DEF Next, SaveStep

\* A worker's step touches the files of its own layer and nothing else.
LEMMA WorkerScope ==
    ASSUME TypeOK, NEW p \in Clients, NEW l \in Layers, WorkerStep(p, l)
    PROVE  /\ manifests' = manifests /\ refs' = refs /\ client' = client
           /\ \A k \in Layers \ {l} : partial'[k] = partial[k] /\ final'[k] = final[k]
           /\ Hash(p, l) => partial' = partial
           /\ final'[l] # final[l] =>
                 \/ Rename(p, l) /\ final'[l] = partial[l]
                 \/ work[p][l].fd = "final"
<1>1. CASE Fetch(p, l)
  BY <1>1 DEF Fetch, TypeOK, Hash, WorkAt
<1>2. CASE AppendBlock(p, l)
  BY <1>2 DEF AppendBlock, TypeOK, Hash, WorkAt
<1>3. CASE Rename(p, l)
  BY <1>3 DEF Rename, TypeOK, Hash, WorkAt
<1>4. CASE Discard(p, l)
  BY <1>4 DEF Discard, TypeOK, Hash, WorkAt
<1> QED
  BY <1>1, <1>2, <1>3, <1>4
  DEF WorkerStep, StartWorker, Stat, FetchFails, CopyFails, CopyEnds, Hash, store,
      Fetch, AppendBlock, WorkAt

\* The workers of the other commands are left alone, and those of a command
\* that ends or is killed are gone.
LEMMA Dismissed ==
    ASSUME TypeOK, NEW p \in Clients, NoWorkers(p), NEW q \in Clients, NEW k \in Layers
    PROVE  work'[q][k] = IF q = p THEN NoWork ELSE work[q][k]
BY DEF NoWorkers, TypeOK

\* Saving a layer leaves the program counters of all workers alone.
LEMMA SavedOver ==
    ASSUME TypeOK, NEW p \in Clients, NEW l \in Layers, CopyFromFile(p, l),
           NEW q \in Clients, NEW k \in Layers
    PROVE  /\ work'[q][k].pc = work[q][k].pc
           /\ work'[q][k].fd \in {work[q][k].fd, Replaced[work[q][k].fd]}
<1>1. work'[q] = [work[q] EXCEPT ![l].fd = Replaced[@]]
  BY DEF CopyFromFile, Reopened
<1>2. work[q] \in [Layers -> Worker] /\ work[q][k] \in Worker /\ work[q][l] \in Worker
  BY DEF TypeOK
<1> QED
  BY <1>1, <1>2 DEF Worker

-----------------------------------------------------------------------------
(***************************************************************************)
(* LayerIntact.  It is not inductive: that the renamed .partial is whole   *)
(* rests on the hash taken a step before, and on nobody else having the    *)
(* file open in between, which is where commands must not share a layer.   *)
(***************************************************************************)
Exclusive ==
    \A p, q \in Clients, l \in Layers :
        p # q /\ work[p][l].pc # "none" => work[q][l].pc = "none"

Writing ==
    \A p \in Clients, l \in Layers :
        /\ work[p][l].fd \in {"closed", "partial"}
        /\ work[p][l].fd # "closed" => work[p][l].pc = "copy"

Hashed ==
    \A p \in Clients, l \in Layers : work[p][l].pc = "rename" => partial[l] = Whole

IntactInv == TypeOK /\ Exclusive /\ Writing /\ Hashed /\ LayerIntact

LEMMA IntactWorker ==
    ASSUME IntactInv, TypeOK', NEW p \in Clients, NEW l \in Layers, WorkerStep(p, l)
    PROVE  IntactInv'
<1>a. TypeOK /\ work[p][l].pc # "none"
  BY WorkerMoves DEF IntactInv
<1>b. \A q \in Clients \ {p} : work[q][l].pc = "none" /\ work[q][l].fd = "closed"
  BY <1>a DEF IntactInv, Exclusive, Writing
<1>c. \A q \in Clients, k \in Layers :
         q # p \/ k # l => work'[q][k].pc = work[q][k].pc /\ work'[q][k].fd = work[q][k].fd
  <2> SUFFICES ASSUME NEW q \in Clients, NEW k \in Layers, q # p \/ k # l
               PROVE  work'[q][k].pc = work[q][k].pc /\ work'[q][k].fd = work[q][k].fd
    OBVIOUS
  <2>1. Renamed["closed"] = "closed" /\ Removed["closed"] = "closed"
    BY DEF Renamed, Removed, Keep, Descriptor
  <2> QED
    BY <1>a, <1>b, <2>1, WorkerFrame
<1>1. Exclusive'
  BY <1>a, <1>c DEF IntactInv, Exclusive
<1>2. Writing'
  BY <1>a, <1>c, WorkerMoves DEF IntactInv, Writing
<1>3. Hashed'
  BY <1>a, <1>b, <1>c, WorkerMoves, WorkerScope DEF IntactInv, Hashed
<1>4. LayerIntact'
  <2>1. Rename(p, l) => partial[l] = Whole
    BY DEF Rename, WorkAt, IntactInv, Hashed
  <2>2. work[p][l].fd # "final"
    BY DEF IntactInv, Writing
  <2> QED
    BY <1>a, <2>1, <2>2, WorkerScope DEF IntactInv, LayerIntact, HasLayer
<1> QED
  BY <1>1, <1>2, <1>3, <1>4 DEF IntactInv

\* As long as no two commands pull one layer at once, a file under a layer's
\* name holds that layer, for every number of commands, layers and blocks and
\* through resumed, mangled, failed and interrupted downloads.
THEOREM IntactLayers == ~SharedPulls => (Spec => []LayerIntact)
<1> SUFFICES ASSUME ~SharedPulls PROVE Spec => []LayerIntact
  OBVIOUS
<1>1. Init => IntactInv
  <2> SUFFICES ASSUME Init PROVE IntactInv
    OBVIOUS
  <2>1. \A p \in Clients, l \in Layers : work[p][l] = NoWork
    BY DEF Init
  <2>2. \A p \in Clients, l \in Layers : work[p][l].pc = "none" /\ work[p][l].fd = "closed"
    BY <2>1 DEF NoWork
  <2>3. TypeOK
    BY ContentTypes, WorkerTypes DEF Init, TypeOK
  <2>4. LayerIntact
    BY DEF Init, LayerIntact, HasLayer
  <2> QED
    BY <2>2, <2>3, <2>4 DEF IntactInv, Exclusive, Writing, Hashed
<1>2. IntactInv /\ TypeOK' /\ [Next]_vars => IntactInv'
  <2> SUFFICES ASSUME IntactInv, TypeOK', [Next]_vars PROVE IntactInv'
    OBVIOUS
  <2> USE DEF IntactInv
  <2>a. ASSUME partial' = partial, final' = final,
               \A q \in Clients, k \in Layers : work'[q][k] \in {work[q][k], NoWork}
        PROVE  IntactInv'
    <3>1. NoWork.pc = "none" /\ NoWork.fd = "closed"
      BY DEF NoWork
    <3>2. \A q \in Clients, k \in Layers :
             \/ work'[q][k] = work[q][k]
             \/ work'[q][k].pc = "none" /\ work'[q][k].fd = "closed"
      BY <2>a, <3>1
    <3>3. Exclusive' /\ Writing' /\ Hashed'
      BY <2>a, <3>2 DEF Exclusive, Writing, Hashed
    <3>4. LayerIntact'
      BY <2>a DEF LayerIntact, HasLayer
    <3> QED
      BY <3>3, <3>4
  <2>1. ASSUME NEW p \in Clients, NEW r \in Refs, NEW m \in Manifests, BeginPull(p, r, m)
        PROVE  IntactInv'
    <3>1. CASE UNCHANGED <<client, work>>
      BY <2>1, <2>a, <3>1 DEF BeginPull
    <3>2. CASE work' = [work EXCEPT ![p] = [l \in Layers |->
                         IF l \in LayersOf[m] THEN [NoWork EXCEPT !.pc = "todo"] ELSE NoWork]]
      <4>1. \A q \in Clients, k \in Layers :
               IF q # p THEN work'[q][k] = work[q][k]
               ELSE /\ work'[q][k].fd = "closed"
                    /\ work'[q][k].pc = IF k \in LayersOf[m] THEN "todo" ELSE "none"
        BY <3>2 DEF TypeOK, NoWork
      <4>2. \A k \in LayersOf[m] : \A q \in Clients \ {p} : work[q][k].pc = "none"
        BY <2>1 DEF BeginPull, Unshared, WorkAt
      <4>3. Exclusive'
        BY <4>1, <4>2 DEF Exclusive
      <4>4. Writing' /\ Hashed'
        BY <2>1, <4>1 DEF Writing, Hashed, BeginPull
      <4>5. LayerIntact'
        BY <2>1 DEF BeginPull, LayerIntact, HasLayer
      <4> QED
        BY <4>3, <4>4, <4>5
    <3> QED
      BY <2>1, <3>1, <3>2 DEF BeginPull
  <2>2. ASSUME NEW p \in Clients, NEW r \in Refs, NEW m \in Manifests, BeginSave(p, r, m)
        PROVE  IntactInv'
    BY <2>2, <2>a DEF BeginSave, store
  <2>3. ASSUME NEW p \in Clients, NEW r \in Refs, NEW s \in Refs, BeginTag(p, r, s)
        PROVE  IntactInv'
    BY <2>3, <2>a DEF BeginTag, store
  <2>4. ASSUME NEW p \in Clients, NEW l \in Layers, WorkerStep(p, l)
        PROVE  IntactInv'
    BY <2>4, IntactWorker
  <2>5. ASSUME NEW p \in Clients, PullStep(p) PROVE IntactInv'
    <3>1. CASE JoinWorkers(p)
      BY <3>1, <2>a, Dismissed DEF JoinWorkers, store
    <3>2. CASE CheckBase(p) \/ WriteRef(p)
      BY <3>2, <2>a DEF CheckBase, WriteRef, store
    <3> QED
      BY <2>5, <3>1, <3>2 DEF PullStep
  <2>6. ASSUME NEW p \in Clients, SaveManifest(p) PROVE IntactInv'
    BY <2>6, <2>a DEF SaveManifest
  <2>7. ASSUME NEW p \in Clients, NEW l \in Layers, CopyFromFile(p, l) PROVE IntactInv'
    <3>1. \A q \in Clients, k \in Layers :
             work'[q][k].pc = work[q][k].pc /\ work'[q][k].fd = work[q][k].fd
      <4>1. Replaced["closed"] = "closed" /\ Replaced["partial"] = "partial"
        BY DEF Replaced, Keep, Descriptor
      <4> QED
        BY <2>7, <4>1, SavedOver DEF Writing
    <3>2. Exclusive' /\ Writing'
      BY <3>1 DEF Exclusive, Writing
    <3>3. Hashed'
      BY <2>7, <3>1 DEF Hashed, CopyFromFile
    <3>4. LayerIntact'
      BY <2>7 DEF CopyFromFile, LayerIntact, HasLayer, TypeOK
    <3> QED
      BY <3>2, <3>3, <3>4
  <2>8. ASSUME NEW p \in Clients, Crash(p) PROVE IntactInv'
    BY <2>8, <2>a, Dismissed DEF Crash, store
  <2>9. ASSUME NEW r \in Refs, DeleteRef(r) PROVE IntactInv'
    BY <2>9, <2>a DEF DeleteRef
  <2>10. CASE UNCHANGED vars
    BY <2>10, <2>a DEF vars
  <2> QED
    BY <2>1, <2>2, <2>3, <2>4, <2>5, <2>6, <2>7, <2>8, <2>9, <2>10 DEF Next, SaveStep
<1>3. IntactInv => LayerIntact
  BY DEF IntactInv
<1> QED
  BY <1>1, <1>2, <1>3, TypeCorrect, PTL DEF Spec

-----------------------------------------------------------------------------
(***************************************************************************)
(* RefComplete, shared pulls or not: a ref is written only by a command    *)
(* that has seen everything the manifest needs, and the store only grows.  *)
(***************************************************************************)
Complete(m) == m \in manifests /\ \A l \in LayersOf[m] : HasLayer(l)

AnnouncedBy(p) ==
    /\ client[p].pc \in {"base", "ref"} => Complete(client[p].man)
    /\ client[p].pc = "layers" => client[p].man \in manifests
    /\ client[p].pc \in {"save_layer", "save_manifest"} =>
          \E l \in Layers : LayersOf[client[p].man] = {l}
    /\ client[p].pc = "save_manifest" => \A l \in LayersOf[client[p].man] : HasLayer(l)

Announced == \A p \in Clients : AnnouncedBy(p)

Fetched == \A p \in Clients, l \in Layers : work[p][l].pc = "done" => HasLayer(l)

RefInv == TypeOK /\ RefComplete /\ Announced /\ Fetched

\* A manifest's layers are layers, and what is in the store stays there.
LEMMA CompleteStays ==
    ASSUME TypeOK, [Next]_vars, NEW m \in Manifests
    PROVE  /\ LayersOf[m] \subseteq Layers
           /\ m \in manifests => m \in manifests'
           /\ \A l \in LayersOf[m] : HasLayer(l) => HasLayer(l)'
BY LayerStoreAssumption, StoreGrows

\* A command that stays where it is or becomes idle claims nothing new.
LEMMA StillAnnounced ==
    ASSUME RefInv, [Next]_vars, NEW q \in Clients, client'[q] \in {client[q], Idle}
    PROVE  AnnouncedBy(q)'
<1>1. CASE client'[q].pc = "idle"
  BY <1>1 DEF AnnouncedBy
<1>2. CASE client'[q] = client[q] /\ client[q].pc # "idle"
  <2>1. client[q].man \in Manifests
    BY <1>2 DEF RefInv, TypeOK, Client, Idle
  <2>2. AnnouncedBy(q) /\ TypeOK
    BY DEF RefInv, Announced
  <2>3. client[q].man \in manifests => client'[q].man \in manifests'
    BY <1>2, <2>1, <2>2, CompleteStays
  <2>4. \A l \in LayersOf[client[q].man] : HasLayer(l) => HasLayer(l)'
    BY <2>1, <2>2, CompleteStays
  <2> QED
    BY <1>2, <2>2, <2>3, <2>4 DEF AnnouncedBy, Complete
<1> QED
  BY <1>1, <1>2 DEF Idle

\* The same for refs that are left alone or removed, and for workers that are
\* left alone or dismissed.
LEMMA StillComplete ==
    ASSUME RefInv, [Next]_vars, NEW r \in Refs, refs'[r] \in {refs[r], NoManifest}
    PROVE  refs'[r] # NoManifest =>
              refs'[r] \in manifests' /\ \A l \in LayersOf[refs'[r]] : HasLayer(l)'
<1>1. SUFFICES ASSUME refs'[r] = refs[r], refs[r] # NoManifest
               PROVE  /\ refs[r] \in manifests'
                      /\ \A l \in LayersOf[refs[r]] : HasLayer(l)'
  OBVIOUS
<1>2. refs[r] \in Manifests /\ TypeOK
  BY <1>1 DEF RefInv, TypeOK
<1>3. refs[r] \in manifests /\ \A l \in LayersOf[refs[r]] : HasLayer(l)
  BY <1>1 DEF RefInv, RefComplete
<1> QED
  BY <1>2, <1>3, CompleteStays

LEMMA StillFetched ==
    ASSUME RefInv, [Next]_vars, NEW q \in Clients, NEW k \in Layers,
           work'[q][k].pc \in {work[q][k].pc, "none", "todo"}
    PROVE  work'[q][k].pc = "done" => HasLayer(k)'
<1>1. work[q][k].pc = "done" => HasLayer(k)
  BY DEF RefInv, Fetched
<1>2. HasLayer(k) => HasLayer(k)'
  BY StoreGrows DEF RefInv
<1> QED
  BY <1>1, <1>2

\* RefComplete, part by part.
LEMMA RefParts ==
    ASSUME TypeOK',
           \A r \in Refs : refs'[r] # NoManifest =>
              refs'[r] \in manifests' /\ \A l \in LayersOf[refs'[r]] : HasLayer(l)',
           \A q \in Clients : AnnouncedBy(q)',
           \A q \in Clients, k \in Layers : work'[q][k].pc = "done" => HasLayer(k)'
    PROVE  RefInv'
BY DEF RefInv, RefComplete, Announced, Fetched

\* What every step leaves alone.
LEMMA Others ==
    ASSUME RefInv, [Next]_vars, TypeOK', NEW p \in Clients,
           \A q \in Clients \ {p} : client'[q] = client[q],
           AnnouncedBy(p)',
           \A r \in Refs : refs'[r] \in {refs[r], NoManifest},
           \A q \in Clients, k \in Layers :
               work'[q][k].pc \in {work[q][k].pc, "none", "todo"}
    PROVE  RefInv'
<1>1. \A q \in Clients : AnnouncedBy(q)'
  BY StillAnnounced
<1> QED
  BY <1>1, StillComplete, StillFetched, RefParts

\* Whatever commands overlap, fail or are killed, shared pulls included, a ref
\* that is there names a stored manifest whose every layer is stored.
THEOREM CompleteRefs == Spec => []RefComplete
<1>1. Init => RefInv
  <2> SUFFICES ASSUME Init PROVE RefInv
    OBVIOUS
  <2>1. \A p \in Clients, l \in Layers : work[p][l] = NoWork
    BY DEF Init
  <2>2. \A p \in Clients, l \in Layers : work[p][l].pc = "none"
    BY <2>1 DEF NoWork
  <2>3. TypeOK
    BY ContentTypes, WorkerTypes DEF Init, TypeOK
  <2>4. \A p \in Clients : client[p].pc = "idle"
    BY DEF Init, Idle
  <2>5. RefComplete
    BY DEF Init, RefComplete
  <2> QED
    BY <2>2, <2>3, <2>4, <2>5 DEF RefInv, Announced, AnnouncedBy, Fetched
<1>2. RefInv /\ TypeOK' /\ [Next]_vars => RefInv'
  <2> SUFFICES ASSUME RefInv, TypeOK', [Next]_vars PROVE RefInv'
    OBVIOUS
  <2>a. TypeOK /\ Announced
    BY DEF RefInv
  <2>b. \A q \in Clients : client'[q] \in {client[q], Idle} => AnnouncedBy(q)'
    BY StillAnnounced
  <2>1. ASSUME NEW p \in Clients, NEW r \in Refs, NEW m \in Manifests, BeginPull(p, r, m)
        PROVE  RefInv'
    <3>1. \A q \in Clients, k \in Layers : work'[q][k].pc \in {work[q][k].pc, "none", "todo"}
      BY <2>1, <2>a DEF BeginPull, TypeOK, NoWork
    <3>2. AnnouncedBy(p)'
      <4>1. CASE UNCHANGED client
        BY <2>b, <4>1
      <4>2. CASE client' = [client EXCEPT ![p] = [pc |-> "layers", ref |-> r, man |-> m]]
        <5>1. client'[p] = [pc |-> "layers", ref |-> r, man |-> m] /\ m \in manifests'
          BY <2>1, <2>a, <4>2 DEF BeginPull, TypeOK
        <5> QED
          BY <5>1 DEF AnnouncedBy
      <4> QED
        BY <2>1, <4>1, <4>2 DEF BeginPull
    <3> QED
      BY <2>1, <2>a, <3>1, <3>2, Others DEF BeginPull, TypeOK
  <2>2. ASSUME NEW p \in Clients, NEW r \in Refs, NEW m \in Manifests, BeginSave(p, r, m)
        PROVE  RefInv'
    <3>1. client'[p] = [pc |-> "save_layer", ref |-> r, man |-> m]
      BY <2>2, <2>a DEF BeginSave, TypeOK
    <3>2. AnnouncedBy(p)'
      BY <2>2, <3>1 DEF AnnouncedBy, BeginSave
    <3> QED
      BY <2>2, <2>a, <3>2, Others DEF BeginSave, TypeOK, store
  <2>3. ASSUME NEW p \in Clients, NEW r \in Refs, NEW s \in Refs, BeginTag(p, r, s)
        PROVE  RefInv'
    <3>1. client'[p] = [pc |-> "ref", ref |-> s, man |-> refs[r]]
      BY <2>3, <2>a DEF BeginTag, TypeOK
    <3>2. refs[r] \in manifests' /\ \A l \in LayersOf[refs[r]] : HasLayer(l)'
      BY <2>3, StillComplete DEF BeginTag, store
    <3>3. AnnouncedBy(p)'
      BY <3>1, <3>2 DEF AnnouncedBy, Complete
    <3> QED
      BY <2>3, <2>a, <3>3, Others DEF BeginTag, TypeOK, store
  <2>4. ASSUME NEW p \in Clients, NEW l \in Layers, WorkerStep(p, l)
        PROVE  RefInv'
    <3>1. client' = client /\ refs' = refs
      BY <2>4, <2>a, WorkerScope
    <3>2. ASSUME NEW q \in Clients, NEW k \in Layers
          PROVE  work'[q][k].pc = "done" => HasLayer(k)'
      <4>1. CASE q = p /\ k = l
        BY <2>4, <2>a, <4>1, WorkerMoves
      <4>2. CASE q # p \/ k # l
        BY <2>4, <2>a, <4>2, WorkerFrame, StillFetched
      <4> QED
        BY <4>1, <4>2
    <3> QED
      BY <2>b, <3>1, <3>2, StillComplete, RefParts
  <2>5. ASSUME NEW p \in Clients, JoinWorkers(p) PROVE RefInv'
    <3>1. \A q \in Clients, k \in Layers : work'[q][k].pc \in {work[q][k].pc, "none", "todo"}
      <4>1. NoWork.pc = "none"
        BY DEF NoWork
      <4> QED
        BY <2>5, <2>a, <4>1, Dismissed DEF JoinWorkers
    <3>2. AnnouncedBy(p)'
      <4>1. CASE Finish(p)
        BY <2>a, <2>b, <4>1 DEF Finish, TypeOK
      <4>2. CASE Goto(p, "base") /\ ~Finish(p)
        <5>1. client[p].pc = "layers" /\ client[p] \in Client /\ client[p].man \in Manifests
          BY <2>5, <2>a DEF JoinWorkers, At, TypeOK, Client, Idle
        <5>2. client'[p].pc = "base" /\ client'[p].man = client[p].man
          BY <2>a, <4>2, <5>1 DEF Goto, TypeOK, Client
        <5>3. LayersOf[client[p].man] \subseteq Layers
          BY <2>a, <5>1, CompleteStays
        <5>4. \A l \in LayersOf[client[p].man] : work[p][l].pc = "done"
          BY <2>5, <4>2 DEF JoinWorkers, WorkAt
        <5>5. \A l \in LayersOf[client[p].man] : HasLayer(l)
          BY <5>3, <5>4 DEF RefInv, Fetched
        <5>6. client[p].man \in manifests
          BY <2>a, <5>1 DEF Announced, AnnouncedBy
        <5>7. manifests' = manifests /\ final' = final
          BY <2>5 DEF JoinWorkers, store
        <5> QED
          BY <5>2, <5>5, <5>6, <5>7 DEF AnnouncedBy, Complete, HasLayer
      <4> QED
        BY <2>5, <4>1, <4>2 DEF JoinWorkers
    <3> QED
      BY <2>5, <2>a, <3>1, <3>2, Others DEF JoinWorkers, Finish, Goto, TypeOK, store
  <2>6. ASSUME NEW p \in Clients, CheckBase(p) PROVE RefInv'
    <3>1. AnnouncedBy(p)'
      <4>1. CASE Finish(p)
        BY <2>a, <2>b, <4>1 DEF Finish, TypeOK
      <4>2. CASE Goto(p, "ref")
        <5>1. client[p].pc = "base" /\ client[p] \in Client
          BY <2>6, <2>a DEF CheckBase, At, TypeOK, Client, Idle
        <5>2. client'[p].pc = "ref" /\ client'[p].man = client[p].man
          BY <2>a, <4>2, <5>1 DEF Goto, TypeOK, Client
        <5>3. Complete(client[p].man)
          BY <2>a, <5>1 DEF Announced, AnnouncedBy
        <5> QED
          BY <2>6, <5>2, <5>3 DEF AnnouncedBy, Complete, HasLayer, CheckBase, store
      <4> QED
        BY <2>6, <4>1, <4>2 DEF CheckBase
    <3> QED
      BY <2>6, <2>a, <3>1, Others DEF CheckBase, Finish, Goto, TypeOK, store
  <2>7. ASSUME NEW p \in Clients, WriteRef(p) PROVE RefInv'
    <3>1. client[p].pc = "ref" /\ client[p].man \in Manifests /\ client[p].ref \in Refs
      BY <2>7, <2>a DEF WriteRef, At, TypeOK, Client, Idle
    <3>2. Complete(client[p].man)
      BY <2>a, <3>1 DEF Announced, AnnouncedBy
    <3>3. \A r \in Refs : refs'[r] \in {refs[r], client[p].man}
      BY <2>7, <2>a DEF WriteRef, TypeOK
    <3>4. \A r \in Refs : refs'[r] # NoManifest =>
              refs'[r] \in manifests' /\ \A l \in LayersOf[refs'[r]] : HasLayer(l)'
      <4>1. manifests' = manifests /\ final' = final
        BY <2>7 DEF WriteRef
      <4> QED
        BY <3>2, <3>3, <4>1, StillComplete DEF Complete, HasLayer
    <3>5. \A q \in Clients : AnnouncedBy(q)'
      <4>1. \A q \in Clients : client'[q] \in {client[q], Idle}
        BY <2>7, <2>a DEF WriteRef, Finish, TypeOK
      <4> QED
        BY <2>b, <4>1
    <3>6. \A q \in Clients, k \in Layers : work'[q][k].pc = "done" => HasLayer(k)'
      BY <2>7, StillFetched DEF WriteRef
    <3> QED
      BY <3>4, <3>5, <3>6, RefParts
  <2>8. ASSUME NEW p \in Clients, SaveManifest(p) PROVE RefInv'
    <3>1. AnnouncedBy(p)'
      <4>1. CASE Finish(p)
        BY <2>a, <2>b, <4>1 DEF Finish, TypeOK
      <4>2. CASE manifests' = manifests \cup {client[p].man} /\ Goto(p, "ref")
        <5>1. client[p].pc = "save_manifest" /\ client[p] \in Client
          BY <2>8, <2>a DEF SaveManifest, At, TypeOK, Client, Idle
        <5>2. client'[p].pc = "ref" /\ client'[p].man = client[p].man
          BY <2>a, <4>2, <5>1 DEF Goto, TypeOK, Client
        <5>3. \A l \in LayersOf[client[p].man] : HasLayer(l)
          BY <2>a, <5>1 DEF Announced, AnnouncedBy
        <5> QED
          BY <2>8, <4>2, <5>2, <5>3 DEF AnnouncedBy, Complete, HasLayer, SaveManifest
      <4> QED
        BY <2>8, <4>1, <4>2 DEF SaveManifest
    <3> QED
      BY <2>8, <2>a, <3>1, Others DEF SaveManifest, Finish, Goto, TypeOK
  <2>9. ASSUME NEW p \in Clients, NEW l \in Layers, CopyFromFile(p, l) PROVE RefInv'
    <3>1. client[p].pc = "save_layer" /\ client[p] \in Client /\ l \in LayersOf[client[p].man]
      BY <2>9, <2>a DEF CopyFromFile, At, TypeOK, Client, Idle
    <3>2. client'[p].pc = "save_manifest" /\ client'[p].man = client[p].man
      BY <2>9, <2>a, <3>1 DEF CopyFromFile, Goto, TypeOK, Client
    <3>3. LayersOf[client[p].man] = {l}
      BY <2>a, <3>1 DEF Announced, AnnouncedBy
    <3>4. HasLayer(l)'
      BY <2>9, <2>a, ContentTypes DEF CopyFromFile, HasLayer, TypeOK
    <3>5. AnnouncedBy(p)'
      BY <3>2, <3>3, <3>4 DEF AnnouncedBy
    <3>6. \A q \in Clients, k \in Layers : work'[q][k].pc \in {work[q][k].pc, "none", "todo"}
      BY <2>9, <2>a, SavedOver
    <3> QED
      BY <2>9, <2>a, <3>5, <3>6, Others DEF CopyFromFile, Goto, TypeOK
  <2>10. ASSUME NEW p \in Clients, Crash(p) PROVE RefInv'
    <3>1. \A q \in Clients, k \in Layers : work'[q][k].pc \in {work[q][k].pc, "none", "todo"}
      <4>1. NoWork.pc = "none"
        BY DEF NoWork
      <4> QED
        BY <2>10, <2>a, <4>1, Dismissed DEF Crash
    <3>2. AnnouncedBy(p)'
      BY <2>10, <2>a, <2>b DEF Crash, Finish, TypeOK
    <3> QED
      BY <2>10, <2>a, <3>1, <3>2, Others DEF Crash, Finish, TypeOK, store
  <2>11. ASSUME NEW r \in Refs, DeleteRef(r) PROVE RefInv'
    <3>1. \A s \in Refs : refs'[s] \in {refs[s], NoManifest}
      BY <2>11, <2>a DEF DeleteRef, TypeOK
    <3>2. \A q \in Clients : AnnouncedBy(q)'
      BY <2>11, <2>b DEF DeleteRef
    <3>3. \A q \in Clients, k \in Layers : work'[q][k].pc = "done" => HasLayer(k)'
      BY <2>11, StillFetched DEF DeleteRef
    <3> QED
      BY <3>1, <3>2, <3>3, StillComplete, RefParts
  <2>12. CASE UNCHANGED vars
    <3>1. \A q \in Clients : AnnouncedBy(q)'
      BY <2>12, <2>b DEF vars
    <3>2. \A q \in Clients, k \in Layers : work'[q][k].pc = "done" => HasLayer(k)'
      BY <2>12, StillFetched DEF vars
    <3> QED
      BY <2>12, <3>1, <3>2, StillComplete, RefParts DEF vars
  <2> QED
    BY <2>1, <2>2, <2>3, <2>4, <2>5, <2>6, <2>7, <2>8, <2>9, <2>10, <2>11, <2>12
    DEF Next, SaveStep, PullStep
<1>3. RefInv => RefComplete
  BY DEF RefInv
<1> QED
  BY <1>1, <1>2, <1>3, TypeCorrect, PTL DEF Spec

=============================================================================
