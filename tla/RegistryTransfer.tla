---------------------------- MODULE RegistryTransfer ----------------------------
(***************************************************************************)
(* cage push: workers upload the layers of an image that the registry does *)
(* not have, each in one PUT or in parts, and then the manifest is put.    *)
(* Several pushes, of one user or of many, work on the same registry.      *)
(*                                                                         *)
(* Every request but those to presigned URLs carries the access token; one *)
(* that is refused is sent once more after a refresh (module TokenSource   *)
(* has the refresh itself).  A step is one request, or one piece of a body.*)
(***************************************************************************)
EXTENDS Naturals, Sequences, FiniteSets

CONSTANTS
    Pushes,         \* runs of cage push
    Layers,
    Image,          \* the layers of the manifest each push puts
    Size,           \* the pieces a layer is read in
    PartSize,       \* auth info: multipart_part_size
    ServerParts,    \* part_size and part_count the registry may answer
    Limit,          \* --concurrency
    Refreshing,     \* pushes with a refresh token; the others have a fixed one
    Faults,         \* what may go wrong for each of them
    Nobody

PushFaults ==
    {"expiry",      \* the token is no longer accepted
     "network",     \* a request or an answer is lost, or takes over 60 seconds
     "server",      \* the registry answers with some other status
     "file",        \* a layer file is missing or short
     "late"}        \* a refused request goes on reading its body for a while

ASSUME RegistryTransferAssumption ==
    /\ Image \in [Pushes -> SUBSET Layers]
    /\ Size \in [Layers -> Nat]
    /\ PartSize \in Nat /\ Limit \in Nat
    /\ ServerParts \subseteq [size: Nat, count: Nat]
    /\ Refreshing \subseteq Pushes
    /\ Faults \in [Pushes -> SUBSET PushFaults]
    /\ Nobody \notin Pushes

VARIABLES
    stored,     \* the layers the registry has
    tag,        \* whose manifest the tag points at
    push,       \* each run
    work,       \* the goroutine of each layer of each run
    hurt        \* history: runs that met another fault than an expired token

vars == <<stored, tag, push, work, hurt>>

PushSteps == {"idle", "info", "layers", "manifest", "pushed", "failed"}
WorkSteps == {"waiting", "head", "open", "init", "put", "send",
              "minit", "url", "part", "complete", "ok", "failed"}
Tries == {"first", "denied", "again"}
NoParts == [size |-> 0, count |-> 0]

Push == [pc: PushSteps, token: {"live", "expired"}, try: Tries]
Work ==
    [pc: WorkSteps, try: Tries,
     len: Nat,              \* the length of the open file
     pos: Nat,              \* and how far it was read
     late: BOOLEAN,         \* a refused request still reads it
     allowed: BOOLEAN,      \* the token the request in progress came with
     parts: [size: Nat, count: Nat],
     n: Nat,                \* the part to send next
     chunk: Seq(Nat),       \* as it was read
     got: Seq(Nat)]         \* what the registry has of the upload

Waiting == [pc |-> "waiting", try |-> "first", len |-> 0, pos |-> 0, late |-> FALSE,
            allowed |-> FALSE, parts |-> NoParts, n |-> 1, chunk |-> <<>>, got |-> <<>>]

TypeOK ==
    /\ stored \subseteq Layers
    /\ tag \in Pushes \cup {Nobody}
    /\ push \in [Pushes -> Push]
    /\ work \in [Pushes -> [Layers -> Work]]
    /\ \A p \in Pushes, l \in Layers : work[p][l].pos <= work[p][l].len
    /\ hurt \subseteq Pushes

Init ==
    /\ stored = {}
    /\ tag = Nobody
    /\ push \in [Pushes -> [pc: {"idle"}, token: {"live", "expired"}, try: {"first"}]]
    /\ work = [p \in Pushes |-> [l \in Layers |-> Waiting]]
    /\ hurt = {}

May(p, fault) == fault \in Faults[p]
Hurt(p) == hurt' = hurt \cup {p}
At(p, step) == push[p].pc = step
In(p, l, step) == work[p][l].pc = step

Becomes(p, l, w) == work' = [work EXCEPT ![p][l] = w]
Goto(p, l, step) == Becomes(p, l, [work[p][l] EXCEPT !.pc = step, !.try = "first"])
Over(p, l, step) == Becomes(p, l, [Waiting EXCEPT !.pc = step])
Ends(p, step) == push' = [push EXCEPT ![p].pc = step, ![p].try = "first"]

\* The pieces of a whole layer, and those of a file from one place to another.
Pieces(from, to) == [i \in 1 .. (IF to > from THEN to - from ELSE 0) |-> from + i]
Content(l) == Pieces(0, Size[l])
AtMost(a, b) == IF a <= b THEN a ELSE b

-----------------------------------------------------------------------------
(***************************************************************************)
(* do: a request that is refused once is sent again; the body is a []byte. *)
(***************************************************************************)
Answered(p, l) == work[p][l].try # "denied" /\ push[p].token = "live"

\* Wrong variant: sent again as often as it is refused.
RefusedForever(p, l) ==
    /\ work[p][l].pc \in {"head", "init", "minit", "url", "complete"}
    /\ work[p][l].try # "denied" /\ push[p].token = "expired"
    /\ Becomes(p, l, [work[p][l] EXCEPT !.try = "denied"])
    /\ UNCHANGED <<stored, tag, push, hurt>>

Refused(p, l) ==
    /\ work[p][l].pc \in {"head", "init", "minit", "url", "complete"}
    /\ work[p][l].try # "denied" /\ push[p].token = "expired"
    /\ IF work[p][l].try = "first" THEN Becomes(p, l, [work[p][l] EXCEPT !.try = "denied"])
                                 ELSE Over(p, l, "failed")
    /\ UNCHANGED <<stored, tag, push, hurt>>

(***************************************************************************)
(* provider.Refresh: the token of all workers.  A fixed one stays what it  *)
(* is, and the request is sent again all the same.                         *)
(***************************************************************************)
Refreshed(p) == IF p \in Refreshing THEN "live" ELSE push[p].token

RefreshThen(p, l, w) ==
    /\ work[p][l].try = "denied"
    /\ \/ /\ push' = [push EXCEPT ![p].token = Refreshed(p)]
          /\ Becomes(p, l, w)
          /\ UNCHANGED hurt
       \/ /\ p \in Refreshing /\ May(p, "network")
          /\ Over(p, l, "failed")
          /\ Hurt(p)
          /\ UNCHANGED push
    /\ UNCHANGED <<stored, tag>>

Refresh(p, l) ==
    /\ ~In(p, l, "send")
    /\ RefreshThen(p, l, [work[p][l] EXCEPT !.try = "again"])

(***************************************************************************)
(* The registry refuses the token from some moment on.                     *)
(***************************************************************************)
Expire(p) ==
    /\ May(p, "expiry") /\ push[p].token = "live" /\ push[p].pc \in {"layers", "manifest"}
    /\ push' = [push EXCEPT ![p].token = "expired"]
    /\ hurt' = IF push[p].try = "again" \/ \E l \in Layers : work[p][l].try = "again"
                  THEN hurt \cup {p} ELSE hurt
    /\ UNCHANGED <<stored, tag, work>>

(***************************************************************************)
(* A request that is lost, whose answer is, or that is answered with an    *)
(* error: in each case the worker ends; the registry may have obeyed.      *)
(***************************************************************************)
Broken(p, l, kept) ==
    /\ May(p, "network") \/ May(p, "server")
    /\ stored' \in {stored, kept}
    /\ Over(p, l, "failed")
    /\ Hurt(p)

-----------------------------------------------------------------------------
(***************************************************************************)
(* runPush: the token, the ref and the manifest are read, then AuthInfo,   *)
(* which needs no token.                                                   *)
(***************************************************************************)
Start(p) ==
    /\ At(p, "idle")
    /\ Ends(p, "info")
    /\ UNCHANGED <<stored, tag, work, hurt>>

AuthInfo(p) ==
    /\ At(p, "info")
    /\ \/ Ends(p, "layers") /\ UNCHANGED hurt
       \/ (May(p, "network") \/ May(p, "server")) /\ Ends(p, "failed") /\ Hurt(p)
    /\ UNCHANGED <<stored, tag, work>>

(***************************************************************************)
(* pushLayers: one worker for each layer, at most Limit, or 1, at a time.  *)
(***************************************************************************)
Running(p) == {l \in Image[p] : work[p][l].pc \notin {"waiting", "ok", "failed"}}

Go(p, l) ==
    /\ At(p, "layers") /\ l \in Image[p] /\ In(p, l, "waiting")
    /\ Cardinality(Running(p)) < (IF Limit < 1 THEN 1 ELSE Limit)
    /\ Goto(p, l, "head")
    /\ UNCHANGED <<stored, tag, push, hurt>>

HeadBlob(p, l) ==
    /\ In(p, l, "head") /\ Answered(p, l)
    /\ \/ /\ Goto(p, l, IF l \in stored THEN "ok" ELSE "open")
          /\ UNCHANGED <<stored, hurt>>
       \/ Broken(p, l, stored)
    /\ UNCHANGED <<tag, push>>

(***************************************************************************)
(* SelectUploadMode goes by the size in the manifest.                      *)
(***************************************************************************)
Multipart(l) == Size[l] >= 4 * PartSize

OpenLayer(p, l) ==
    /\ In(p, l, "open")
    /\ \/ \E len \in {Size[l]} \cup (IF May(p, "file") /\ Size[l] > 0 THEN {Size[l] - 1} ELSE {}) :
             /\ Becomes(p, l, [Waiting EXCEPT !.len = len,
                                              !.pc = IF Multipart(l) THEN "minit" ELSE "init"])
             /\ hurt' = IF len < Size[l] THEN hurt \cup {p} ELSE hurt
       \/ May(p, "file") /\ Over(p, l, "failed") /\ Hurt(p)
    /\ UNCHANGED <<stored, tag, push>>

-----------------------------------------------------------------------------
(***************************************************************************)
(* UploadBlobSinglePUT: an upload is opened, and its body sent in one PUT. *)
(***************************************************************************)
InitSingle(p, l) ==
    /\ In(p, l, "init") /\ Answered(p, l)
    /\ \/ Goto(p, l, "put") /\ UNCHANGED <<stored, hurt>>
       \/ Broken(p, l, stored)
    /\ UNCHANGED <<tag, push>>

PutOnce(p, l) ==
    /\ In(p, l, "put")
    /\ Becomes(p, l, [work[p][l] EXCEPT !.pc = "send", !.got = <<>>,
                                        !.allowed = push[p].token = "live"])
    /\ UNCHANGED <<stored, tag, push, hurt>>

Send(p, l) ==
    /\ In(p, l, "send") /\ work[p][l].try # "denied"
    /\ work[p][l].pos < work[p][l].len
    /\ Becomes(p, l, [work[p][l] EXCEPT !.pos = @ + 1, !.got = Append(@, work[p][l].pos + 1)])
    /\ UNCHANGED <<stored, tag, push, hurt>>

(***************************************************************************)
(* The answer to the PUT: 201 if the registry finds the digest it was      *)
(* told.  A 401 need not wait for the body, which the transport may then   *)
(* read on for a while.                                                    *)
(***************************************************************************)
Put(p, l) ==
    LET w == work[p][l] IN
    /\ In(p, l, "send") /\ w.try # "denied" /\ w.allowed /\ w.pos = w.len
    /\ \/ /\ w.got = Content(l)
          /\ stored' = stored \cup {l}
          /\ Over(p, l, "ok")
          /\ UNCHANGED hurt
       \/ /\ w.got # Content(l)
          /\ Over(p, l, "failed")
          /\ UNCHANGED <<stored, hurt>>
       \/ Broken(p, l, IF w.got = Content(l) THEN stored \cup {l} ELSE stored)
    /\ UNCHANGED <<tag, push>>

PutRefused(p, l) ==
    LET w == work[p][l] IN
    /\ In(p, l, "send") /\ w.try # "denied" /\ ~w.allowed
    /\ IF w.try = "again" THEN Over(p, l, "failed") /\ UNCHANGED hurt
       ELSE \E late \in {FALSE} \cup (IF May(p, "late") THEN {w.pos < w.len} ELSE {}) :
               /\ Becomes(p, l, [w EXCEPT !.try = "denied", !.late = late])
               /\ hurt' = IF late THEN hurt \cup {p} ELSE hurt
    /\ UNCHANGED <<stored, tag, push>>

LateRead(p, l) ==
    LET w == work[p][l] IN
    /\ w.late
    /\ \/ /\ In(p, l, "send") /\ w.pos < w.len
          /\ Becomes(p, l, [w EXCEPT !.pos = @ + 1])
       \/ Becomes(p, l, [w EXCEPT !.late = FALSE])
    /\ UNCHANGED <<stored, tag, push, hurt>>

\* Wrong variant: the body is not rewound.
PutAgainConsumed(p, l) ==
    /\ In(p, l, "send")
    /\ RefreshThen(p, l, [work[p][l] EXCEPT !.pc = "put", !.try = "again"])
(***************************************************************************)
(* putWithRefresh: the file is rewound and sent once more.                 *)
(***************************************************************************)
PutAgain(p, l) ==
    /\ In(p, l, "send")
    /\ RefreshThen(p, l, [work[p][l] EXCEPT !.pc = "put", !.try = "again", !.pos = 0])

-----------------------------------------------------------------------------
\* Wrong variant: a part is taken to be as long as the buffer.
ReadPartFull(w) ==
    [w EXCEPT !.pc = "url", !.pos = w.pos + w.parts.size,
              !.chunk = Pieces(w.pos, AtMost(w.pos + w.parts.size, w.len))]
(***************************************************************************)
(* UploadBlobMultipart: the registry says how many parts, and how long;    *)
(* each is read into the buffer, a URL asked for it, and it is put there,  *)
(* without a token.  At the end of the file a part is short, then empty.   *)
(***************************************************************************)
ReadPart(w) ==
    LET to == AtMost(w.pos + w.parts.size, w.len)
    IN  [w EXCEPT !.pc = "url", !.pos = to, !.chunk = Pieces(w.pos, to)]

InitMultipart(p, l) ==
    /\ In(p, l, "minit") /\ Answered(p, l)
    /\ \/ \E parts \in ServerParts :
             LET w == [work[p][l] EXCEPT !.parts = parts, !.try = "first"] IN
             /\ Becomes(p, l, IF parts.count = 0 THEN [w EXCEPT !.pc = "complete"] ELSE ReadPart(w))
             /\ hurt' = IF parts.size * parts.count < Size[l] THEN hurt \cup {p} ELSE hurt
             /\ UNCHANGED stored
       \/ Broken(p, l, stored)
    /\ UNCHANGED <<tag, push>>

PartURL(p, l) ==
    /\ In(p, l, "url") /\ Answered(p, l)
    /\ \/ Goto(p, l, "part") /\ UNCHANGED <<stored, hurt>>
       \/ Broken(p, l, stored)
    /\ UNCHANGED <<tag, push>>

LastPart(w) == w.n >= w.parts.count

PutPart(p, l) ==
    LET w == [work[p][l] EXCEPT !.got = @ \o work[p][l].chunk, !.n = @ + 1] IN
    /\ In(p, l, "part")
    /\ \/ /\ Becomes(p, l, IF LastPart(work[p][l]) THEN [w EXCEPT !.pc = "complete", !.chunk = <<>>]
                          ELSE ReadPart(w))
          /\ UNCHANGED <<stored, hurt>>
       \/ Broken(p, l, stored)
    /\ UNCHANGED <<tag, push>>

Complete(p, l) ==
    LET w == work[p][l] IN
    /\ In(p, l, "complete") /\ Answered(p, l)
    /\ \/ /\ w.got = Content(l)
          /\ stored' = stored \cup {l}
          /\ Over(p, l, "ok")
          /\ UNCHANGED hurt
       \/ /\ w.got # Content(l)
          /\ Over(p, l, "failed")
          /\ UNCHANGED <<stored, hurt>>
       \/ Broken(p, l, IF w.got = Content(l) THEN stored \cup {l} ELSE stored)
    /\ UNCHANGED <<tag, push>>

-----------------------------------------------------------------------------
\* Wrong variant: an error of a worker is forgotten.
WaitForgiving(p) ==
    /\ At(p, "layers")
    /\ \A l \in Image[p] : work[p][l].pc \in {"ok", "failed"}
    /\ Ends(p, "manifest")
    /\ UNCHANGED <<stored, tag, work, hurt>>

(***************************************************************************)
(* g.Wait: every worker has ended, and one error is enough.                *)
(***************************************************************************)
Wait(p) ==
    /\ At(p, "layers")
    /\ \A l \in Image[p] : work[p][l].pc \in {"ok", "failed"}
    /\ Ends(p, IF \E l \in Image[p] : In(p, l, "failed") THEN "failed" ELSE "manifest")
    /\ UNCHANGED <<stored, tag, work, hurt>>

(***************************************************************************)
(* PutManifest.  That the registry looks for the layers again is not       *)
(* relied on.                                                              *)
(***************************************************************************)
PutManifest(p) ==
    /\ At(p, "manifest") /\ push[p].try # "denied" /\ push[p].token = "live"
    /\ \/ tag' = p /\ Ends(p, "pushed") /\ UNCHANGED hurt
       \/ /\ May(p, "network") \/ May(p, "server")
          /\ tag' \in {tag, p}
          /\ Ends(p, "failed")
          /\ Hurt(p)
    /\ UNCHANGED <<stored, work>>

ManifestRefused(p) ==
    /\ At(p, "manifest") /\ push[p].try # "denied" /\ push[p].token = "expired"
    /\ IF push[p].try = "first" THEN push' = [push EXCEPT ![p].try = "denied"]
       ELSE Ends(p, "failed")
    /\ UNCHANGED <<stored, tag, work, hurt>>

ManifestRefresh(p) ==
    /\ At(p, "manifest") /\ push[p].try = "denied"
    /\ \/ /\ push' = [push EXCEPT ![p].token = Refreshed(p), ![p].try = "again"]
          /\ UNCHANGED hurt
       \/ /\ p \in Refreshing /\ May(p, "network")
          /\ Ends(p, "failed")
          /\ Hurt(p)
    /\ UNCHANGED <<stored, tag, work>>

WorkNext(p, l) ==
    \/ Go(p, l) \/ HeadBlob(p, l) \/ OpenLayer(p, l)
    \/ Refused(p, l) \/ Refresh(p, l)
    \/ InitSingle(p, l) \/ PutOnce(p, l) \/ Send(p, l)
    \/ Put(p, l) \/ PutRefused(p, l) \/ PutAgain(p, l)
    \/ InitMultipart(p, l) \/ PartURL(p, l) \/ PutPart(p, l) \/ Complete(p, l)

PushNext(p) ==
    \/ AuthInfo(p) \/ Wait(p)
    \/ PutManifest(p) \/ ManifestRefused(p) \/ ManifestRefresh(p)
    \/ \E l \in Layers : WorkNext(p, l)

(***************************************************************************)
(* A push that failed may be run again.                                    *)
(***************************************************************************)
Again(p) ==
    /\ At(p, "failed")
    /\ push' = [push EXCEPT ![p] = [pc |-> "info", token |-> Refreshed(p), try |-> "first"]]
    /\ work' = [work EXCEPT ![p] = [l \in Layers |-> Waiting]]
    /\ hurt' = hurt \ {p}
    /\ UNCHANGED <<stored, tag>>

Next == \E p \in Pushes :
    \/ Start(p) \/ Again(p) \/ Expire(p) \/ PushNext(p)
    \/ \E l \in Layers : LateRead(p, l)

(***************************************************************************)
(* A command that runs goes on: no request outlives 60 seconds; that a     *)
(* refresh does not either is assumed, its client has no timeout.          *)
(***************************************************************************)
Spec == Init /\ [][Next]_vars /\ \A p \in Pushes : WF_vars(PushNext(p))

-----------------------------------------------------------------------------
(***************************************************************************)
(* Whoever pulls the tag finds every layer of its manifest: the push does  *)
(* not put it before they all are there, whichever workers failed, and     *)
(* does not count on the registry to refuse it.                            *)
(***************************************************************************)
TagComplete == tag # Nobody => Image[tag] \subseteq stored

(***************************************************************************)
(* "A long push survives access-token expiry": with a refresh token, a     *)
(* push fails only by some other fault, be it of the network, of the       *)
(* registry or of a layer file, or because a refused upload still read its *)
(* body after the rewind.                                                  *)
(***************************************************************************)
SurvivesExpiry ==
    \A p \in Refreshing : At(p, "failed") => p \in hurt

(***************************************************************************)
(* A push ends.                                                            *)
(***************************************************************************)
PushEnds == \A p \in Pushes : At(p, "info") ~> push[p].pc \in {"pushed", "failed"}
=============================================================================
