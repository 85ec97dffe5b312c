------------------------- MODULE RegistryTransferProofs -------------------------
(***************************************************************************)
(* What holds of cage push for any pushes, layers and sizes, whatever the  *)
(* registry answers and whatever fails.                                    *)
(***************************************************************************)
EXTENDS RegistryTransfer, SequenceTheorems, TLAPS

(***************************************************************************)
(* The pieces of a file are sequences, and those of adjacent places join.  *)
(***************************************************************************)
LEMMA PiecesType ==
    \A a, b \in Nat :
        /\ Pieces(a, b) \in Seq(Nat)
        /\ a <= b => Len(Pieces(a, b)) = b - a
        /\ \A i \in 1 .. Len(Pieces(a, b)) : Pieces(a, b)[i] = a + i
<1> SUFFICES ASSUME NEW a \in Nat, NEW b \in Nat
             PROVE  /\ Pieces(a, b) \in Seq(Nat)
                    /\ a <= b => Len(Pieces(a, b)) = b - a
                    /\ \A i \in 1 .. Len(Pieces(a, b)) : Pieces(a, b)[i] = a + i
  OBVIOUS
<1> DEFINE n == IF b > a THEN b - a ELSE 0
<1>1. n \in Nat /\ (a <= b => n = b - a)
  OBVIOUS
<1>2. Pieces(a, b) = [i \in 1 .. n |-> a + i]
  BY DEF Pieces
<1>3. Pieces(a, b) \in [1 .. n -> Nat]
  BY <1>1, <1>2
<1>4. Pieces(a, b) \in Seq(Nat)
  BY <1>1, <1>3, SeqDef
<1>5. Len(Pieces(a, b)) = n
  BY <1>1, <1>3, <1>4, LenProperties
<1> QED
  BY <1>1, <1>2, <1>4, <1>5

LEMMA PiecesJoin ==
    ASSUME NEW a \in Nat, NEW b \in Nat, NEW c \in Nat, a <= b, b <= c
    PROVE  Pieces(a, b) \o Pieces(b, c) = Pieces(a, c)
<1>1. PICK s : s = Pieces(a, b)
  OBVIOUS
<1>2. PICK t : t = Pieces(b, c)
  OBVIOUS
<1>3. PICK u : u = Pieces(a, c)
  OBVIOUS
<1>4. a <= c
  OBVIOUS
<1>5. s \in Seq(Nat) /\ Len(s) = b - a /\ \A i \in 1 .. Len(s) : s[i] = a + i
  BY <1>1, PiecesType
<1>6. t \in Seq(Nat) /\ Len(t) = c - b /\ \A i \in 1 .. Len(t) : t[i] = b + i
  BY <1>2, PiecesType
<1>7. u \in Seq(Nat) /\ Len(u) = c - a /\ \A i \in 1 .. Len(u) : u[i] = a + i
  BY <1>3, <1>4, PiecesType
<1>8. /\ s \o t \in Seq(Nat) /\ Len(s \o t) = Len(u)
      /\ \A i \in 1 .. Len(u) :
            (s \o t)[i] = IF i <= Len(s) THEN s[i] ELSE t[i - Len(s)]
  <2>1. /\ s \o t \in Seq(Nat) /\ Len(s \o t) = Len(s) + Len(t)
        /\ \A i \in 1 .. Len(s) + Len(t) :
              (s \o t)[i] = IF i <= Len(s) THEN s[i] ELSE t[i - Len(s)]
    BY <1>5, <1>6, ConcatProperties
  <2>2. Len(s) + Len(t) = Len(u)
    BY <1>5, <1>6, <1>7
  <2> QED
    BY <2>1, <2>2
<1>9. \A i \in 1 .. Len(s \o t) : (s \o t)[i] = u[i]
  <2> SUFFICES ASSUME NEW i \in 1 .. Len(u) PROVE (s \o t)[i] = u[i]
    BY <1>8
  <2>1. (s \o t)[i] = IF i <= Len(s) THEN s[i] ELSE t[i - Len(s)]
    BY <1>8
  <2>2. CASE i <= Len(s)
    <3>1. i \in 1 .. Len(s)
      BY <2>2, <1>5
    <3> QED
      BY <2>1, <2>2, <3>1, <1>5, <1>7
  <2>3. CASE ~(i <= Len(s))
    <3>1. i - Len(s) \in 1 .. Len(t)
      BY <2>3, <1>5, <1>6, <1>7
    <3> QED
      BY <2>1, <2>3, <3>1, <1>5, <1>6, <1>7
  <2> QED
    BY <2>2, <2>3
<1>10. s \o t = u
  BY <1>7, <1>8, <1>9, SeqEqual
<1> QED
  BY <1>1, <1>2, <1>3, <1>10

LEMMA PiecesAppend ==
    ASSUME NEW a \in Nat
    PROVE  Append(Pieces(0, a), a + 1) = Pieces(0, a + 1)
<1>1. PICK s : s = Pieces(0, a)
  OBVIOUS
<1>2. PICK u : u = Pieces(0, a + 1)
  OBVIOUS
<1>3. s \in Seq(Nat) /\ Len(s) = a /\ \A i \in 1 .. Len(s) : s[i] = 0 + i
  <2>1. 0 \in Nat /\ 0 <= a /\ a - 0 = a
    OBVIOUS
  <2> QED
    BY <1>1, <2>1, PiecesType
<1>4. u \in Seq(Nat) /\ Len(u) = a + 1 /\ \A i \in 1 .. Len(u) : u[i] = 0 + i
  <2>1. 0 \in Nat /\ a + 1 \in Nat /\ 0 <= a + 1 /\ (a + 1) - 0 = a + 1
    OBVIOUS
  <2> QED
    BY <1>2, <2>1, PiecesType
<1>5. a + 1 \in Nat
  OBVIOUS
<1>6. /\ Append(s, a + 1) \in Seq(Nat) /\ Len(Append(s, a + 1)) = Len(s) + 1
      /\ \A i \in 1 .. Len(s) : Append(s, a + 1)[i] = s[i]
      /\ Append(s, a + 1)[Len(s) + 1] = a + 1
  BY <1>3, <1>5, AppendProperties
<1>7. \A i \in 1 .. Len(Append(s, a + 1)) : Append(s, a + 1)[i] = u[i]
  <2> SUFFICES ASSUME NEW i \in 1 .. a + 1 PROVE Append(s, a + 1)[i] = u[i]
    BY <1>3, <1>6
  <2>1. CASE i = a + 1
    BY <2>1, <1>3, <1>4, <1>6
  <2>2. CASE i # a + 1
    <3>1. i \in 1 .. a
      BY <2>2
    <3> QED
      BY <3>1, <1>3, <1>4, <1>6
  <2> QED
    BY <2>1, <2>2
<1>8. Append(s, a + 1) = u
  BY <1>3, <1>4, <1>6, <1>7, SeqEqual
<1> QED
  BY <1>1, <1>2, <1>8

LEMMA PiecesNone == \A a \in Nat : Pieces(a, a) = <<>>
<1> SUFFICES ASSUME NEW a \in Nat PROVE Pieces(a, a) = <<>>
  OBVIOUS
<1>1. Pieces(a, a) \in Seq(Nat) /\ Len(Pieces(a, a)) = 0
  <2>1. a <= a /\ a - a = 0
    OBVIOUS
  <2> QED
    BY <2>1, PiecesType
<1> QED
  BY <1>1, EmptySeq

(***************************************************************************)
(* How far the parts reach into a layer: the last one is cut at its end.   *)
(***************************************************************************)
Reached(parts, n, l) == AtMost(n * parts.size, Size[l])

LEMMA Reaching ==
    ASSUME NEW l \in Layers, NEW parts \in [size: Nat, count: Nat], NEW n \in Nat
    PROVE  /\ Reached(parts, n, l) \in Nat
           /\ Reached(parts, 0, l) = 0
           /\ Reached(parts, 1, l) = AtMost(parts.size, Size[l])
           /\ Reached(parts, n, l) <= Reached(parts, n + 1, l)
           /\ Reached(parts, n + 1, l) = AtMost(Reached(parts, n, l) + parts.size, Size[l])
           /\ parts.size * n >= Size[l] => Reached(parts, n, l) = Size[l]
<1>1. PICK s \in Nat : s = parts.size
  OBVIOUS
<1>2. PICK L \in Nat : L = Size[l]
  BY RegistryTransferAssumption
<1>3. PICK m \in Nat : m = n * s
  OBVIOUS
<1>4. (n + 1) * s = m + s /\ 0 * s = 0 /\ 1 * s = s /\ s * n = m
  BY <1>3
<1> QED
  BY <1>1, <1>2, <1>3, <1>4 DEF Reached, AtMost

-----------------------------------------------------------------------------
(***************************************************************************)
(* The inductive invariant.  A worker that is done has its layer in the    *)
(* registry, and so has a push that puts its manifest every layer.         *)
(***************************************************************************)
Fetched == \A p \in Pushes, l \in Layers : In(p, l, "ok") => l \in stored
Ready == \A p \in Pushes : At(p, "manifest") => Image[p] \subseteq stored

(***************************************************************************)
(* What a worker of a push knows that met no fault but expired tokens: it  *)
(* has the whole file, and what the registry has is the file up to here.   *)
(***************************************************************************)
Whole(w, l) ==
    /\ w.pc # "failed" /\ ~w.late
    /\ w.pc \in {"init", "minit", "put", "send", "url", "part"} => w.len = Size[l]
    /\ w.pc \in {"init", "minit", "put"} => w.pos = 0
    /\ w.pc \in {"init", "minit"} => w.got = <<>> /\ w.n = 1
    /\ w.pc = "send" => w.got = Pieces(0, w.pos) /\ (w.try = "again" => w.allowed)
    /\ w.pc \in {"url", "part"} =>
          /\ 1 <= w.n /\ w.n <= w.parts.count
          /\ w.parts.size * w.parts.count >= Size[l]
          /\ w.pos = Reached(w.parts, w.n, l)
          /\ w.got = Pieces(0, Reached(w.parts, w.n - 1, l))
          /\ w.chunk = Pieces(Reached(w.parts, w.n - 1, l), w.pos)
    /\ w.pc = "complete" => w.got = Content(l)

(***************************************************************************)
(* Such a push has not failed, and what it sends again it sends with a     *)
(* token that is accepted.                                                 *)
(***************************************************************************)
Sends(r, w) == w.try = "again" => r.token = "live"
Spared ==
    \A p \in Refreshing \ hurt :
        /\ ~At(p, "failed")
        /\ Sends(push[p], push[p])
        /\ \A l \in Layers : Whole(work[p][l], l) /\ Sends(push[p], work[p][l])

PushInv == TypeOK /\ Fetched /\ Ready /\ TagComplete /\ Spared

-----------------------------------------------------------------------------
\* Requests and workers that are new, or move on.
LEMMA Workers ==
    /\ Waiting \in Work /\ Waiting.pos <= Waiting.len
    /\ \A step \in WorkSteps : [Waiting EXCEPT !.pc = step] \in Work
    /\ \A l \in Layers : \A step \in {"waiting", "head", "open", "ok"} :
          Whole([Waiting EXCEPT !.pc = step], l)
<1>1. <<>> \in Seq(Nat)
  BY EmptySeq
<1>2. NoParts \in [size: Nat, count: Nat]
  BY DEF NoParts
<1>3. Waiting \in Work /\ Waiting.pos <= Waiting.len
  BY <1>1, <1>2 DEF Waiting, Work, WorkSteps, Tries
<1>4. \A step \in WorkSteps : [Waiting EXCEPT !.pc = step] \in Work
  BY <1>3 DEF Work
<1>5. ASSUME NEW l \in Layers, NEW step \in {"waiting", "head", "open", "ok"}
      PROVE  Whole([Waiting EXCEPT !.pc = step], l)
  <2>1. /\ [Waiting EXCEPT !.pc = step].pc = step
        /\ [Waiting EXCEPT !.pc = step].late = FALSE
    BY DEF Waiting
  <2> QED
    BY <2>1 DEF Whole
<1> QED
  BY <1>3, <1>4, <1>5

Moved(w, step) == [w EXCEPT !.pc = step, !.try = "first"]

LEMMA Moving ==
    ASSUME NEW w \in Work, NEW step \in WorkSteps
    PROVE  /\ Moved(w, step) \in Work
           /\ Moved(w, step).pc = step /\ Moved(w, step).try = "first"
           /\ Moved(w, step).len = w.len /\ Moved(w, step).pos = w.pos
           /\ Moved(w, step).n = w.n /\ Moved(w, step).parts = w.parts
           /\ Moved(w, step).chunk = w.chunk /\ Moved(w, step).got = w.got
           /\ ~w.late => ~Moved(w, step).late
<1> USE DEF Moved
<1> DEFINE v == Moved(w, step)
<1>1. v \in Work
  BY DEF Work, Tries
<1>2. v.pc = step /\ v.try = "first"
  BY DEF Work
<1>3. /\ v.len = w.len /\ v.pos = w.pos /\ v.n = w.n /\ v.parts = w.parts
      /\ v.chunk = w.chunk /\ v.got = w.got
  BY DEF Work
<1>4. ~w.late => ~v.late
  BY DEF Work
<1> QED
  BY <1>1, <1>2, <1>3, <1>4

\* A step of one worker: what must be shown of the worker alone.
LEMMA WorkStep ==
    ASSUME PushInv, NEW p \in Pushes, NEW l \in Layers, NEW w \in Work,
           w.pos <= w.len,
           work' = [work EXCEPT ![p][l] = w],
           stored \subseteq stored', stored' \subseteq Layers,
           w.pc = "ok" => l \in stored',
           tag' = tag,
           push' = push \/ push' = [push EXCEPT ![p].token = Refreshed(p)],
           hurt' = hurt \/ hurt' = hurt \cup {p},
           p \in Refreshing /\ p \notin hurt' => Whole(w, l) /\ Sends(push'[p], w)
    PROVE  PushInv'
<1>1. TypeOK
  BY DEF PushInv
<1>2. /\ work' \in [Pushes -> [Layers -> Work]]
      /\ work'[p][l] = w
      /\ \A q \in Pushes, k \in Layers : q # p \/ k # l => work'[q][k] = work[q][k]
  BY <1>1 DEF TypeOK
<1>3. /\ push' \in [Pushes -> Push]
      /\ \A q \in Pushes : push'[q].pc = push[q].pc /\ push'[q].try = push[q].try
      /\ \A q \in Pushes : q # p => push'[q] = push[q]
      /\ push'[p].token = push[p].token \/ (p \in Refreshing => push'[p].token = "live")
  <2>1. push \in [Pushes -> Push] /\ Refreshed(p) \in {"live", "expired"}
    BY <1>1 DEF TypeOK, Refreshed, Push
  <2>2. CASE push' = push
    BY <2>1, <2>2
  <2>3. CASE push' = [push EXCEPT ![p].token = Refreshed(p)]
    BY <2>1, <2>3 DEF Push, Refreshed
  <2> QED
    BY <2>2, <2>3
<1>4. TypeOK'
  BY <1>1, <1>2, <1>3 DEF TypeOK
<1>5. Fetched'
  <2> SUFFICES ASSUME NEW q \in Pushes, NEW k \in Layers, work'[q][k].pc = "ok"
               PROVE  k \in stored'
    BY DEF Fetched, In
  <2>1. CASE q = p /\ k = l
    BY <2>1, <1>2
  <2>2. CASE q # p \/ k # l
    BY <2>2, <1>2 DEF PushInv, Fetched, In
  <2> QED
    BY <2>1, <2>2
<1>6. Ready'
  <2> SUFFICES ASSUME NEW q \in Pushes, push'[q].pc = "manifest"
               PROVE  Image[q] \subseteq stored'
    BY DEF Ready, At
  <2>1. push[q].pc = "manifest"
    BY <1>3
  <2> QED
    BY <2>1 DEF PushInv, Ready, At
<1>7. TagComplete'
  BY <1>1 DEF PushInv, TagComplete
<1>8. Spared'
  <2> SUFFICES ASSUME NEW q \in Refreshing, q \notin hurt'
               PROVE  /\ push'[q].pc # "failed" /\ Sends(push'[q], push'[q])
                      /\ \A k \in Layers : Whole(work'[q][k], k) /\ Sends(push'[q], work'[q][k])
    BY DEF Spared, At
  <2>1. q \in Pushes /\ q \notin hurt
    BY RegistryTransferAssumption
  <2>2. /\ push[q].pc # "failed" /\ Sends(push[q], push[q])
        /\ \A k \in Layers : Whole(work[q][k], k) /\ Sends(push[q], work[q][k])
    BY <2>1 DEF PushInv, Spared, At
  <2>3. push'[q].token = push[q].token \/ push'[q].token = "live"
    BY <1>3, <2>1
  <2>4. push'[q].pc # "failed" /\ Sends(push'[q], push'[q])
    BY <1>3, <2>1, <2>2, <2>3 DEF Sends
  <2>5. ASSUME NEW k \in Layers
        PROVE  Whole(work'[q][k], k) /\ Sends(push'[q], work'[q][k])
    <3>1. CASE q = p /\ k = l
      BY <3>1, <1>2
    <3>2. CASE q # p \/ k # l
      BY <3>2, <1>2, <2>1, <2>2, <2>3 DEF Sends
    <3> QED
      BY <3>1, <3>2
  <2> QED
    BY <2>4, <2>5
<1> QED
  BY <1>4, <1>5, <1>6, <1>7, <1>8 DEF PushInv

\* What is known of one worker and of its push.
LEMMA Known ==
    ASSUME PushInv, NEW p \in Pushes, NEW l \in Layers
    PROVE  /\ work[p][l] \in Work /\ work[p][l].pos <= work[p][l].len
           /\ push[p] \in Push /\ stored \subseteq Layers /\ hurt \subseteq Pushes
           /\ Size[l] \in Nat
           /\ p \in Refreshing /\ p \notin hurt =>
                 /\ push[p].pc # "failed" /\ Sends(push[p], push[p])
                 /\ Whole(work[p][l], l) /\ Sends(push[p], work[p][l])
BY RegistryTransferAssumption DEF PushInv, TypeOK, Spared, At

\* A worker that ends with the layer in the registry, or with a fault.
LEMMA WorkOver ==
    ASSUME PushInv, NEW p \in Pushes, NEW l \in Layers, NEW step \in {"ok", "failed"},
           Over(p, l, step),
           stored \subseteq stored', stored' \subseteq Layers, tag' = tag,
           step = "ok" => l \in stored',
           push' = push,
           hurt' = hurt \/ hurt' = hurt \cup {p},
           step = "failed" => p \notin Refreshing \ hurt'
    PROVE  PushInv'
<1> DEFINE w == [Waiting EXCEPT !.pc = step]
<1>1. w \in Work /\ w.pos <= w.len /\ w.pc = step /\ w.try = "first"
  BY Workers DEF WorkSteps, Waiting
<1>2. work' = [work EXCEPT ![p][l] = w]
  BY DEF Over, Becomes
<1>3. step = "ok" => Whole(w, l)
  BY Workers
<1>4. p \in Refreshing /\ p \notin hurt' => Whole(w, l) /\ Sends(push'[p], w)
  BY <1>1, <1>3 DEF Sends
<1> HIDE DEF w
<1> QED
  BY <1>1, <1>2, <1>4, WorkStep

LEMMA BrokenStep ==
    ASSUME PushInv, NEW p \in Pushes, NEW l \in Layers, NEW kept,
           stored \subseteq kept, kept \subseteq Layers,
           Broken(p, l, kept), UNCHANGED <<tag, push>>
    PROVE  PushInv'
<1>1. stored \subseteq stored' /\ stored' \subseteq Layers
  BY Known DEF Broken
<1>2. Over(p, l, "failed") /\ hurt' = hurt \cup {p}
  BY DEF Broken, Hurt
<1> QED
  BY <1>1, <1>2, WorkOver

\* A worker that goes on to another step with what it has.
LEMMA GotoStep ==
    ASSUME PushInv, NEW p \in Pushes, NEW l \in Layers, NEW step \in WorkSteps,
           Goto(p, l, step), UNCHANGED <<stored, tag, push, hurt>>,
           step = "ok" => l \in stored,
           p \in Refreshing \ hurt => Whole(Moved(work[p][l], step), l)
    PROVE  PushInv'
<1>1. PICK w : w = Moved(work[p][l], step)
  OBVIOUS
<1>2. work[p][l] \in Work /\ work[p][l].pos <= work[p][l].len
  BY Known
<1>3. w \in Work /\ w.pos <= w.len /\ w.pc = step /\ w.try = "first"
  BY <1>1, <1>2, Moving
<1>4. work' = [work EXCEPT ![p][l] = w]
  BY <1>1 DEF Goto, Becomes, Moved
<1>5. p \in Refreshing /\ p \notin hurt' => Whole(w, l) /\ Sends(push'[p], w)
  BY <1>1, <1>3 DEF Sends
<1> QED
  BY <1>3, <1>4, <1>5, Known, WorkStep

LEMMA GoStep ==
    ASSUME PushInv, NEW p \in Pushes, NEW l \in Layers, Go(p, l)
    PROVE  PushInv'
<1>1. "head" \in WorkSteps
  BY DEF WorkSteps
<1>2. p \in Refreshing \ hurt => Whole(Moved(work[p][l], "head"), l)
  BY <1>1, Known, Moving DEF Whole
<1> QED
  BY <1>1, <1>2, GotoStep DEF Go

LEMMA HeadBlobStep ==
    ASSUME PushInv, NEW p \in Pushes, NEW l \in Layers, HeadBlob(p, l)
    PROVE  PushInv'
<1>1. CASE Broken(p, l, stored)
  BY <1>1, Known, BrokenStep DEF HeadBlob
<1>2. CASE Goto(p, l, IF l \in stored THEN "ok" ELSE "open") /\ UNCHANGED <<stored, hurt>>
  <2>1. PICK step : step = IF l \in stored THEN "ok" ELSE "open"
    OBVIOUS
  <2>2. step \in WorkSteps /\ step \in {"ok", "open"}
    BY <2>1 DEF WorkSteps
  <2>3. p \in Refreshing \ hurt => Whole(Moved(work[p][l], step), l)
    BY <2>2, Known, Moving DEF Whole
  <2>4. Goto(p, l, step) /\ (step = "ok" => l \in stored)
    BY <1>2, <2>1
  <2> QED
    BY <1>2, <2>2, <2>3, <2>4, GotoStep DEF HeadBlob
<1> QED
  BY <1>1, <1>2 DEF HeadBlob

LEMMA OpenLayerStep ==
    ASSUME PushInv, NEW p \in Pushes, NEW l \in Layers, OpenLayer(p, l)
    PROVE  PushInv'
<1>1. CASE Over(p, l, "failed") /\ Hurt(p)
  <2>1. hurt' = hurt \cup {p} /\ UNCHANGED <<stored, tag, push>>
    BY <1>1 DEF Hurt, OpenLayer
  <2> QED
    BY <1>1, <2>1, Known, WorkOver
<1>2. ASSUME NEW len \in {Size[l]} \cup {Size[l] - 1},
             len = Size[l] \/ Size[l] > 0,
             Becomes(p, l, [Waiting EXCEPT !.len = len,
                                           !.pc = IF Multipart(l) THEN "minit" ELSE "init"]),
             hurt' = IF len < Size[l] THEN hurt \cup {p} ELSE hurt
      PROVE  PushInv'
  <2> DEFINE w == [Waiting EXCEPT !.len = len, !.pc = IF Multipart(l) THEN "minit" ELSE "init"]
  <2>1. len \in Nat
    BY <1>2, Known
  <2>2. w \in Work
    BY <2>1, Workers DEF Work, WorkSteps
  <2>3. /\ w.len = len /\ w.pos = 0 /\ w.pc \in {"init", "minit"} /\ w.late = FALSE
        /\ w.got = <<>> /\ w.n = 1 /\ w.try = "first"
    BY DEF Waiting
  <2>4. p \notin hurt' => len = Size[l]
    BY <1>2, Known
  <2>5. p \in Refreshing /\ p \notin hurt' => Whole(w, l) /\ Sends(push'[p], w)
    BY <2>3, <2>4 DEF Whole, Sends
  <2>6. work' = [work EXCEPT ![p][l] = w]
    BY <1>2 DEF Becomes
  <2>7. (hurt' = hurt \/ hurt' = hurt \cup {p}) /\ UNCHANGED <<stored, tag, push>>
    BY <1>2 DEF OpenLayer
  <2>8. w.pos <= w.len /\ w.pc # "ok"
    BY <2>1, <2>3
  <2> HIDE DEF w
  <2> QED
    BY <2>2, <2>5, <2>6, <2>7, <2>8, Known, WorkStep
<1>3. QED
  BY <1>1, <1>2, Known DEF OpenLayer

LEMMA RefusedStep ==
    ASSUME PushInv, NEW p \in Pushes, NEW l \in Layers, Refused(p, l)
    PROVE  PushInv'
<1>1. CASE work[p][l].try = "first"
  <2> DEFINE w == [work[p][l] EXCEPT !.try = "denied"]
  <2>1. w \in Work /\ w.pos <= w.len /\ w.pc = work[p][l].pc /\ w.try = "denied"
    BY Known DEF Work, Tries
  <2>2. p \in Refreshing /\ p \notin hurt => Whole(w, l) /\ Sends(push[p], w)
    BY <2>1, Known DEF Whole, Sends, Work
  <2>3. work' = [work EXCEPT ![p][l] = w] /\ w.pc # "ok"
    BY <1>1, <2>1 DEF Refused, Becomes
  <2> HIDE DEF w
  <2> QED
    BY <2>1, <2>2, <2>3, Known, WorkStep DEF Refused
<1>2. CASE work[p][l].try # "first"
  <2>1. work[p][l].try = "again"
    BY <1>2, Known DEF Refused, Work, Tries
  <2>2. Over(p, l, "failed") /\ UNCHANGED <<stored, tag, push, hurt>>
    BY <1>2 DEF Refused
  <2>3. p \notin Refreshing \ hurt
    BY <2>1, Known DEF Refused, Sends
  <2> QED
    BY <2>2, <2>3, Known, WorkOver
<1> QED
  BY <1>1, <1>2

\* A refresh: with a token that is accepted the request may be sent again.
LEMMA RefreshStep ==
    ASSUME PushInv, NEW p \in Pushes, NEW l \in Layers, NEW w \in Work,
           RefreshThen(p, l, w), w.pos <= w.len, w.pc = "ok" => l \in stored,
           p \in Refreshing \ hurt => Whole(w, l)
    PROVE  PushInv'
<1>1. CASE push' = [push EXCEPT ![p].token = Refreshed(p)] /\ Becomes(p, l, w) /\ UNCHANGED hurt
  <2>1. p \in Refreshing => push'[p].token = "live"
    BY <1>1, Known DEF Refreshed, Push, PushInv, TypeOK
  <2> QED
    BY <1>1, <2>1, Known, WorkStep DEF RefreshThen, Becomes, Sends
<1>2. CASE Over(p, l, "failed") /\ Hurt(p) /\ UNCHANGED push
  <2>1. hurt' = hurt \cup {p} /\ UNCHANGED <<stored, tag, push>>
    BY <1>2 DEF Hurt, RefreshThen
  <2> QED
    BY <1>2, <2>1, Known, WorkOver
<1> QED
  BY <1>1, <1>2 DEF RefreshThen

LEMMA RefreshRequest ==
    ASSUME PushInv, NEW p \in Pushes, NEW l \in Layers, Refresh(p, l)
    PROVE  PushInv'
<1>1. PICK w : w = [work[p][l] EXCEPT !.try = "again"]
  OBVIOUS
<1>2. /\ w \in Work /\ w.pos <= w.len /\ w.pc = work[p][l].pc
      /\ w.len = work[p][l].len /\ w.pos = work[p][l].pos /\ w.n = work[p][l].n
      /\ w.parts = work[p][l].parts /\ w.chunk = work[p][l].chunk
      /\ w.got = work[p][l].got /\ (~work[p][l].late => ~w.late)
  BY <1>1, Known DEF Work, Tries
<1>3. w.pc = "ok" => l \in stored
  BY <1>2 DEF PushInv, Fetched, In
<1>4. p \in Refreshing \ hurt => Whole(w, l)
  BY <1>2, Known DEF Whole, Refresh, In
<1> QED
  BY <1>1, <1>2, <1>3, <1>4, RefreshStep DEF Refresh

LEMMA InitSingleStep ==
    ASSUME PushInv, NEW p \in Pushes, NEW l \in Layers, InitSingle(p, l)
    PROVE  PushInv'
<1>1. CASE Broken(p, l, stored)
  BY <1>1, Known, BrokenStep DEF InitSingle
<1>2. CASE Goto(p, l, "put") /\ UNCHANGED <<stored, hurt>>
  <2>1. "put" \in WorkSteps
    BY DEF WorkSteps
  <2>2. p \in Refreshing \ hurt => Whole(Moved(work[p][l], "put"), l)
    BY <2>1, Known, Moving DEF Whole, InitSingle, In
  <2> QED
    BY <1>2, <2>1, <2>2, GotoStep DEF InitSingle
<1> QED
  BY <1>1, <1>2 DEF InitSingle

\* The PUT begins: what the registry has of the body is what was read of the file.
LEMMA PutOnceStep ==
    ASSUME PushInv, NEW p \in Pushes, NEW l \in Layers, PutOnce(p, l)
    PROVE  PushInv'
<1>1. PICK w : w = [work[p][l] EXCEPT !.pc = "send", !.got = <<>>,
                                      !.allowed = push[p].token = "live"]
  OBVIOUS
<1>2. work[p][l] \in Work /\ <<>> \in Seq(Nat)
  BY Known, EmptySeq
<1>3. w \in Work
  BY <1>1, <1>2 DEF Work, WorkSteps
<1>4. /\ w.pc = "send" /\ w.got = <<>> /\ w.len = work[p][l].len
      /\ w.pos = work[p][l].pos /\ w.try = work[p][l].try
  BY <1>1, <1>2 DEF Work
<1>5. ~work[p][l].late => ~w.late
  BY <1>1, <1>2 DEF Work
<1>6. push[p].token = "live" => w.allowed
  BY <1>1, <1>2 DEF Work
<1>7. p \in Refreshing \ hurt => Whole(w, l) /\ Sends(push[p], w)
  <2>1. p \in Refreshing \ hurt => w.pos = 0 /\ w.len = Size[l]
    BY <1>4, Known DEF Whole, PutOnce, In
  <2>2. p \in Refreshing \ hurt => w.got = Pieces(0, w.pos)
    BY <1>4, <2>1, PiecesNone
  <2> QED
    BY <1>4, <1>5, <1>6, <2>1, <2>2, Known DEF Whole, Sends
<1>8. work' = [work EXCEPT ![p][l] = w] /\ UNCHANGED <<stored, tag, push, hurt>>
  BY <1>1 DEF PutOnce, Becomes
<1>9. w.pos <= w.len /\ w.pc # "ok"
  BY <1>4, Known
<1> QED
  BY <1>3, <1>7, <1>8, <1>9, Known, WorkStep

LEMMA SendStep ==
    ASSUME PushInv, NEW p \in Pushes, NEW l \in Layers, Send(p, l)
    PROVE  PushInv'
<1>1. PICK v : v = work[p][l]
  OBVIOUS
<1>2. PICK w : w = [v EXCEPT !.pos = @ + 1, !.got = Append(@, v.pos + 1)]
  OBVIOUS
<1>3. /\ v \in Work /\ v.pos \in Nat /\ v.len \in Nat /\ v.got \in Seq(Nat)
      /\ v.pc = "send" /\ v.pos < v.len
  BY <1>1, Known DEF Work, Send, In
<1>4. v.pos + 1 \in Nat /\ Append(v.got, v.pos + 1) \in Seq(Nat)
  BY <1>3, AppendProperties
<1>5. w \in Work
  BY <1>2, <1>3, <1>4 DEF Work
<1>6. /\ w.pc = "send" /\ w.got = Append(v.got, v.pos + 1) /\ w.len = v.len
      /\ w.pos = v.pos + 1 /\ w.try = v.try
  BY <1>2, <1>3 DEF Work
<1>7. (~v.late => ~w.late) /\ (v.allowed => w.allowed)
  BY <1>2, <1>3 DEF Work
<1>8. p \in Refreshing \ hurt => Whole(w, l) /\ Sends(push[p], w)
  <2> SUFFICES ASSUME p \in Refreshing \ hurt PROVE Whole(w, l) /\ Sends(push[p], w)
    OBVIOUS
  <2>1. Whole(v, l) /\ Sends(push[p], v)
    BY <1>1, Known
  <2>2. w.got = Pieces(0, w.pos)
    BY <1>3, <1>6, <2>1, PiecesAppend DEF Whole
  <2> QED
    BY <1>3, <1>6, <1>7, <2>1, <2>2 DEF Whole, Sends
<1>9. work' = [work EXCEPT ![p][l] = w] /\ UNCHANGED <<stored, tag, push, hurt>>
  BY <1>1, <1>2 DEF Send, Becomes
<1>10. w.pos <= w.len /\ w.pc # "ok"
  BY <1>3, <1>6
<1> QED
  BY <1>5, <1>8, <1>9, <1>10, Known, WorkStep

LEMMA PutStep ==
    ASSUME PushInv, NEW p \in Pushes, NEW l \in Layers, Put(p, l)
    PROVE  PushInv'
<1>1. PICK v : v = work[p][l]
  OBVIOUS
<1>2. v \in Work /\ v.pc = "send" /\ v.pos = v.len /\ UNCHANGED <<tag, push>>
  BY <1>1, Known DEF Put, In
<1>3. CASE v.got = Content(l) /\ stored' = stored \cup {l} /\ Over(p, l, "ok") /\ UNCHANGED hurt
  BY <1>2, <1>3, Known, WorkOver
<1>4. CASE v.got # Content(l) /\ Over(p, l, "failed") /\ UNCHANGED <<stored, hurt>>
  <2>1. p \notin Refreshing \ hurt
    <3> SUFFICES ASSUME p \in Refreshing \ hurt PROVE FALSE
      OBVIOUS
    <3>1. Whole(v, l)
      BY <1>1, Known
    <3> QED
      BY <3>1, <1>2, <1>4 DEF Whole, Content
  <2> QED
    BY <1>2, <1>4, <2>1, Known, WorkOver
<1>5. CASE Broken(p, l, IF v.got = Content(l) THEN stored \cup {l} ELSE stored)
  <2>1. PICK kept : kept = IF v.got = Content(l) THEN stored \cup {l} ELSE stored
    OBVIOUS
  <2>2. stored \subseteq kept /\ kept \subseteq Layers /\ Broken(p, l, kept)
    BY <1>5, <2>1, Known
  <2> QED
    BY <1>2, <2>2, BrokenStep
<1> QED
  BY <1>1, <1>3, <1>4, <1>5 DEF Put

LEMMA PutRefusedStep ==
    ASSUME PushInv, NEW p \in Pushes, NEW l \in Layers, PutRefused(p, l)
    PROVE  PushInv'
<1>1. PICK v : v = work[p][l]
  OBVIOUS
<1>2. /\ v \in Work /\ v.pc = "send" /\ ~v.allowed /\ v.pos <= v.len
      /\ UNCHANGED <<stored, tag, push>>
  BY <1>1, Known DEF PutRefused, In
<1>3. p \in Refreshing \ hurt => Whole(v, l) /\ Sends(push[p], v)
  BY <1>1, Known
<1>4. CASE v.try = "again"
  <2>1. Over(p, l, "failed") /\ UNCHANGED hurt
    BY <1>1, <1>4 DEF PutRefused
  <2>2. p \notin Refreshing \ hurt
    BY <1>2, <1>3, <1>4 DEF Whole
  <2> QED
    BY <1>2, <2>1, <2>2, Known, WorkOver
<1>5. CASE v.try # "again"
  <2>1. PICK late \in BOOLEAN :
           /\ Becomes(p, l, [v EXCEPT !.try = "denied", !.late = late])
           /\ hurt' = IF late THEN hurt \cup {p} ELSE hurt
    <3>1. (v.pos < v.len) \in BOOLEAN
      BY <1>2 DEF Work
    <3>2. \E late \in {FALSE} \cup (IF May(p, "late") THEN {v.pos < v.len} ELSE {}) :
             /\ Becomes(p, l, [v EXCEPT !.try = "denied", !.late = late])
             /\ hurt' = IF late THEN hurt \cup {p} ELSE hurt
      BY <1>1, <1>5, Zenon DEF PutRefused
    <3> QED
      BY <3>1, <3>2, Zenon
  <2>2. PICK w : w = [v EXCEPT !.try = "denied", !.late = late]
    OBVIOUS
  <2>3. /\ w \in Work /\ w.pc = "send" /\ w.try = "denied" /\ w.got = v.got
        /\ w.len = v.len /\ w.pos = v.pos
    BY <1>2, <2>2 DEF Work, Tries
  <2>4. ~late => ~w.late
    BY <1>2, <2>2 DEF Work
  <2>5. hurt' = hurt \/ hurt' = hurt \cup {p}
    BY <2>1
  <2>6. p \notin hurt' => ~late /\ p \notin hurt
    BY <2>1
  <2>7. p \in Refreshing /\ p \notin hurt' => Whole(w, l) /\ Sends(push'[p], w)
    BY <1>2, <1>3, <2>3, <2>4, <2>6 DEF Whole, Sends
  <2>8. work' = [work EXCEPT ![p][l] = w] /\ w.pos <= w.len /\ w.pc # "ok"
    BY <1>2, <2>1, <2>2, <2>3 DEF Becomes
  <2> QED
    BY <1>2, <2>3, <2>5, <2>7, <2>8, Known, WorkStep
<1> QED
  BY <1>4, <1>5

\* A body that is still read is one of a push that met this fault.
LEMMA LateReadStep ==
    ASSUME PushInv, NEW p \in Pushes, NEW l \in Layers, LateRead(p, l)
    PROVE  PushInv'
<1>1. PICK v : v = work[p][l]
  OBVIOUS
<1>2. v \in Work /\ v.late /\ v.pos <= v.len /\ UNCHANGED <<stored, tag, push, hurt>>
  BY <1>1, Known DEF LateRead
<1>3. p \notin Refreshing \ hurt
  BY <1>1, <1>2, Known DEF Whole
<1>4. v.pc = "ok" => l \in stored
  BY <1>1 DEF PushInv, Fetched, In
<1>5. CASE v.pos < v.len /\ Becomes(p, l, [v EXCEPT !.pos = @ + 1])
  <2>1. PICK w : w = [v EXCEPT !.pos = @ + 1]
    OBVIOUS
  <2>0. v.pos \in Nat /\ v.len \in Nat /\ v.pos + 1 \in Nat
    BY <1>2 DEF Work
  <2>2. w \in Work /\ w.pc = v.pc /\ w.pos = v.pos + 1 /\ w.len = v.len
    BY <1>2, <2>0, <2>1 DEF Work
  <2>4. w.pos <= w.len
    BY <1>5, <2>0, <2>2
  <2>3. work' = [work EXCEPT ![p][l] = w]
    BY <1>5, <2>1 DEF Becomes
  <2> QED
    BY <1>2, <1>3, <1>4, <2>2, <2>3, <2>4, Known, WorkStep
<1>6. CASE Becomes(p, l, [v EXCEPT !.late = FALSE])
  <2>1. PICK w : w = [v EXCEPT !.late = FALSE]
    OBVIOUS
  <2>2. w \in Work /\ w.pc = v.pc /\ w.pos <= w.len
    BY <1>2, <2>1 DEF Work
  <2>3. work' = [work EXCEPT ![p][l] = w]
    BY <1>6, <2>1 DEF Becomes
  <2> QED
    BY <1>2, <1>3, <1>4, <2>2, <2>3, Known, WorkStep
<1> QED
  BY <1>1, <1>5, <1>6 DEF LateRead

LEMMA PutAgainStep ==
    ASSUME PushInv, NEW p \in Pushes, NEW l \in Layers, PutAgain(p, l)
    PROVE  PushInv'
<1>1. PICK v : v = work[p][l]
  OBVIOUS
<1>2. PICK w : w = [v EXCEPT !.pc = "put", !.try = "again", !.pos = 0]
  OBVIOUS
<1>3. v \in Work /\ v.pc = "send" /\ v.len \in Nat
  BY <1>1, Known DEF PutAgain, In, Work
<1>4. w \in Work /\ w.pc = "put" /\ w.pos = 0 /\ w.len = v.len
  BY <1>2, <1>3 DEF Work, WorkSteps, Tries
<1>5. ~v.late => ~w.late
  BY <1>2, <1>3 DEF Work
<1>6. p \in Refreshing \ hurt => Whole(w, l)
  BY <1>1, <1>3, <1>4, <1>5, Known DEF Whole
<1>7. RefreshThen(p, l, w) /\ w.pos <= w.len /\ w.pc # "ok"
  BY <1>1, <1>2, <1>3, <1>4 DEF PutAgain
<1> QED
  BY <1>4, <1>6, <1>7, RefreshStep

-----------------------------------------------------------------------------
(***************************************************************************)
(* Parts: what has been put and what was read last are adjacent pieces.    *)
(***************************************************************************)
LEMMA ReadPartIs ==
    ASSUME NEW w \in Work, w.pos <= w.len
    PROVE  /\ ReadPart(w) \in Work /\ ReadPart(w).pc = "url" /\ ReadPart(w).try = w.try
           /\ ReadPart(w).len = w.len /\ ReadPart(w).n = w.n
           /\ ReadPart(w).parts = w.parts /\ ReadPart(w).got = w.got
           /\ ReadPart(w).pos = AtMost(w.pos + w.parts.size, w.len)
           /\ ReadPart(w).chunk = Pieces(w.pos, ReadPart(w).pos)
           /\ ReadPart(w).pos <= ReadPart(w).len
           /\ ~w.late => ~ReadPart(w).late
<1>1. w.pos \in Nat /\ w.len \in Nat /\ w.parts.size \in Nat
  BY DEF Work
<1>2. PICK to : to = AtMost(w.pos + w.parts.size, w.len)
  OBVIOUS
<1>3. to \in Nat /\ to <= w.len
  BY <1>1, <1>2 DEF AtMost
<1>4. PICK chunk : chunk = Pieces(w.pos, to)
  OBVIOUS
<1>5. chunk \in Seq(Nat)
  BY <1>1, <1>3, <1>4, PiecesType
<1>6. ReadPart(w) = [w EXCEPT !.pc = "url", !.pos = to, !.chunk = chunk]
  BY <1>2, <1>4 DEF ReadPart
<1>7. ReadPart(w) \in Work
  BY <1>3, <1>5, <1>6 DEF Work, WorkSteps
<1>8. /\ ReadPart(w).pc = "url" /\ ReadPart(w).try = w.try
      /\ ReadPart(w).len = w.len /\ ReadPart(w).n = w.n
      /\ ReadPart(w).parts = w.parts /\ ReadPart(w).got = w.got
      /\ ReadPart(w).pos = to /\ ReadPart(w).chunk = chunk
  BY <1>6 DEF Work
<1>9. ~w.late => ~ReadPart(w).late
  BY <1>6 DEF Work
<1> QED
  BY <1>2, <1>3, <1>4, <1>7, <1>8, <1>9

LEMMA PartRead ==
    ASSUME NEW l \in Layers, NEW w \in Work, w.len = Size[l], ~w.late, w.pos <= w.len,
           1 <= w.n, w.n <= w.parts.count, w.parts.size * w.parts.count >= Size[l],
           w.pos = Reached(w.parts, w.n - 1, l), w.got = Pieces(0, w.pos)
    PROVE  Whole(ReadPart(w), l)
<1>1. /\ w.n \in Nat /\ w.n - 1 \in Nat /\ w.parts \in [size: Nat, count: Nat]
      /\ (w.n - 1) + 1 = w.n
  BY DEF Work
<1>2. Reached(w.parts, w.n, l) = AtMost(w.pos + w.parts.size, Size[l])
  BY <1>1, Reaching
<1>3. ReadPart(w).pos = Reached(w.parts, w.n, l)
  BY <1>2, ReadPartIs
<1> QED
  BY <1>3, ReadPartIs DEF Whole

LEMMA InitMultipartStep ==
    ASSUME PushInv, NEW p \in Pushes, NEW l \in Layers, InitMultipart(p, l)
    PROVE  PushInv'
<1>1. CASE Broken(p, l, stored)
  BY <1>1, Known, BrokenStep DEF InitMultipart
<1>2. ASSUME NEW parts \in ServerParts, NEW u, NEW w,
             u = [work[p][l] EXCEPT !.parts = parts, !.try = "first"],
             w = IF parts.count = 0 THEN [u EXCEPT !.pc = "complete"] ELSE ReadPart(u),
             Becomes(p, l, w),
             hurt' = IF parts.size * parts.count < Size[l] THEN hurt \cup {p} ELSE hurt,
             UNCHANGED <<stored, tag, push>>
      PROVE  PushInv'
  <2>1. parts \in [size: Nat, count: Nat] /\ parts.size \in Nat /\ parts.count \in Nat
    BY RegistryTransferAssumption
  <2>2. /\ u \in Work /\ u.parts = parts /\ u.try = "first" /\ u.pc = "minit"
        /\ u.len = work[p][l].len /\ u.pos = work[p][l].pos /\ u.n = work[p][l].n
        /\ u.got = work[p][l].got /\ u.pos <= u.len
    BY <1>2, <2>1, Known DEF Work, Tries, InitMultipart, In
  <2>3. ~work[p][l].late => ~u.late
    BY <1>2, Known DEF Work
  <2>4. p \notin hurt' => p \notin hurt /\ parts.size * parts.count >= Size[l]
    BY <1>2, <2>1, Known
  <2>5. p \in Refreshing /\ p \notin hurt' =>
           /\ u.len = Size[l] /\ u.pos = 0 /\ u.got = <<>> /\ u.n = 1 /\ ~u.late
           /\ parts.size * parts.count >= Size[l]
    BY <2>2, <2>3, <2>4, Known DEF Whole, InitMultipart, In
  <2>6. w \in Work /\ w.pos <= w.len /\ w.pc # "ok" /\ w.try = "first"
    <3>1. CASE parts.count = 0
      <4>1. w = [u EXCEPT !.pc = "complete"]
        BY <1>2, <3>1
      <4> QED
        BY <2>2, <4>1 DEF Work, WorkSteps
    <3>2. CASE parts.count # 0
      BY <1>2, <2>2, <3>2, ReadPartIs
    <3> QED
      BY <3>1, <3>2
  <2>7. ASSUME p \in Refreshing, p \notin hurt' PROVE Whole(w, l)
    <3>1. CASE parts.count = 0
      <4>1. w = [u EXCEPT !.pc = "complete"]
        BY <1>2, <3>1
      <4>2. w.pc = "complete" /\ w.got = u.got /\ (~u.late => ~w.late)
        BY <2>2, <4>1 DEF Work
      <4>3. Size[l] = 0
        BY <2>1, <2>5, <2>7, <3>1, Known
      <4>4. Content(l) = <<>>
        BY <4>3, PiecesNone DEF Content
      <4> QED
        BY <2>5, <2>7, <4>2, <4>4 DEF Whole
    <3>2. CASE parts.count # 0
      <4>1. w = ReadPart(u)
        BY <1>2, <3>2
      <4>2. 1 <= u.n /\ u.n <= u.parts.count /\ u.n - 1 = 0
        BY <2>1, <2>2, <2>5, <2>7, <3>2
      <4>3. u.pos = Reached(u.parts, u.n - 1, l)
        BY <2>1, <2>2, <2>5, <2>7, <4>2, Reaching
      <4>4. u.got = Pieces(0, u.pos)
        BY <2>5, <2>7, PiecesNone
      <4> QED
        BY <2>2, <2>5, <2>7, <4>1, <4>2, <4>3, <4>4, PartRead
    <3> QED
      BY <3>1, <3>2
  <2>8. p \in Refreshing /\ p \notin hurt' => Whole(w, l) /\ Sends(push'[p], w)
    BY <2>6, <2>7 DEF Sends
  <2>9. hurt' = hurt \/ hurt' = hurt \cup {p}
    BY <1>2
  <2>10. work' = [work EXCEPT ![p][l] = w]
    BY <1>2 DEF Becomes
  <2> QED
    BY <1>2, <2>6, <2>8, <2>9, <2>10, Known, WorkStep
<1> QED
  BY <1>1, <1>2 DEF InitMultipart

LEMMA PartURLStep ==
    ASSUME PushInv, NEW p \in Pushes, NEW l \in Layers, PartURL(p, l)
    PROVE  PushInv'
<1>1. CASE Broken(p, l, stored)
  BY <1>1, Known, BrokenStep DEF PartURL
<1>2. CASE Goto(p, l, "part") /\ UNCHANGED <<stored, hurt>>
  <2>1. "part" \in WorkSteps
    BY DEF WorkSteps
  <2>2. p \in Refreshing \ hurt => Whole(Moved(work[p][l], "part"), l)
    BY <2>1, Known, Moving DEF Whole, PartURL, In
  <2> QED
    BY <1>2, <2>1, <2>2, GotoStep DEF PartURL
<1> QED
  BY <1>1, <1>2 DEF PartURL

LEMMA PutPartStep ==
    ASSUME PushInv, NEW p \in Pushes, NEW l \in Layers, PutPart(p, l)
    PROVE  PushInv'
<1>1. CASE Broken(p, l, stored)
  BY <1>1, Known, BrokenStep DEF PutPart
<1>2. PICK v : v = work[p][l]
  OBVIOUS
<1>3. PICK u : u = [v EXCEPT !.got = @ \o v.chunk, !.n = @ + 1]
  OBVIOUS
<1>4. PICK w : w = IF LastPart(v) THEN [u EXCEPT !.pc = "complete", !.chunk = <<>>] ELSE ReadPart(u)
  OBVIOUS
<1>5. CASE Becomes(p, l, w) /\ UNCHANGED <<stored, hurt>>
  <2>1. /\ v \in Work /\ v.pc = "part" /\ v.pos <= v.len /\ v.n \in Nat
        /\ v.got \in Seq(Nat) /\ v.chunk \in Seq(Nat)
        /\ v.parts \in [size: Nat, count: Nat] /\ v.parts.count \in Nat
    BY <1>2, Known DEF PutPart, In, Work
  <2>2. v.got \o v.chunk \in Seq(Nat) /\ v.n + 1 \in Nat /\ <<>> \in Seq(Nat)
    BY <2>1, ConcatProperties, EmptySeq
  <2>3. /\ u \in Work /\ u.got = v.got \o v.chunk /\ u.n = v.n + 1 /\ u.try = v.try
        /\ u.len = v.len /\ u.pos = v.pos /\ u.parts = v.parts
    BY <1>3, <2>1, <2>2 DEF Work
  <2>4. ~v.late => ~u.late
    BY <1>3, <2>1 DEF Work
  <2>5. LastPart(v) => /\ w \in Work /\ w.pc = "complete" /\ w.got = u.got /\ w.try = u.try
                       /\ w.pos = u.pos /\ w.len = u.len
    BY <1>4, <2>2, <2>3 DEF Work, WorkSteps
  <2>6. LastPart(v) /\ ~u.late => ~w.late
    BY <1>4, <2>3 DEF Work
  <2>7. w \in Work /\ w.pos <= w.len /\ w.pc # "ok" /\ w.try = v.try
    <3>1. CASE LastPart(v)
      BY <3>1, <2>1, <2>3, <2>5
    <3>2. CASE ~LastPart(v)
      BY <3>2, <1>4, <2>1, <2>3, ReadPartIs
    <3> QED
      BY <3>1, <3>2
  <2>8. ASSUME p \in Refreshing \ hurt PROVE Whole(w, l)
    <3>1. Whole(v, l)
      BY <1>2, <2>8, Known
    <3>2. /\ v.len = Size[l] /\ ~v.late /\ 1 <= v.n /\ v.n <= v.parts.count
          /\ v.parts.size * v.parts.count >= Size[l]
          /\ v.pos = Reached(v.parts, v.n, l)
          /\ v.got = Pieces(0, Reached(v.parts, v.n - 1, l))
          /\ v.chunk = Pieces(Reached(v.parts, v.n - 1, l), v.pos)
      BY <2>1, <3>1 DEF Whole
    <3>3. PICK m \in Nat : m = v.n - 1
      BY <2>1, <3>2
    <3>4. v.n = m + 1
      BY <2>1, <3>3
    <3>5. /\ Reached(v.parts, m, l) \in Nat
          /\ Reached(v.parts, m, l) <= Reached(v.parts, v.n, l)
      BY <2>1, <3>4, Reaching
    <3>6. v.pos \in Nat
      BY <2>1 DEF Work
    <3>7. u.got = Pieces(0, v.pos)
      <4>1. PICK r \in Nat : r = Reached(v.parts, m, l)
        BY <3>5
      <4>2. 0 <= r /\ r <= v.pos
        BY <3>2, <3>5, <4>1
      <4>3. u.got = Pieces(0, r) \o Pieces(r, v.pos)
        BY <2>3, <3>2, <3>3, <4>1
      <4> QED
        BY <3>6, <4>2, <4>3, PiecesJoin
    <3>8. CASE LastPart(v)
      <4>1. v.n = v.parts.count
        BY <2>1, <3>2, <3>8 DEF LastPart
      <4>2. v.pos = Size[l]
        BY <2>1, <3>2, <4>1, Reaching
      <4>3. w.got = Content(l)
        BY <2>5, <3>7, <3>8, <4>2 DEF Content
      <4> QED
        BY <2>4, <2>5, <2>6, <3>2, <3>8, <4>3 DEF Whole
    <3>9. CASE ~LastPart(v)
      <4>1. w = ReadPart(u) /\ v.n < v.parts.count
        BY <1>4, <2>1, <3>9 DEF LastPart
      <4>2. 1 <= u.n /\ u.n <= u.parts.count /\ u.n - 1 = v.n
        BY <2>1, <2>3, <4>1
      <4> QED
        BY <2>1, <2>3, <2>4, <3>2, <3>7, <4>1, <4>2, PartRead
    <3> QED
      BY <3>8, <3>9
  <2>9. p \in Refreshing /\ p \notin hurt' => Whole(w, l) /\ Sends(push'[p], w)
    BY <1>2, <1>5, <2>7, <2>8, Known DEF Sends, PutPart
  <2>10. work' = [work EXCEPT ![p][l] = w] /\ UNCHANGED <<stored, tag, push, hurt>>
    BY <1>5 DEF Becomes, PutPart
  <2> QED
    BY <2>7, <2>9, <2>10, Known, WorkStep
<1> QED
  BY <1>1, <1>2, <1>3, <1>4, <1>5 DEF PutPart

LEMMA CompleteStep ==
    ASSUME PushInv, NEW p \in Pushes, NEW l \in Layers, Complete(p, l)
    PROVE  PushInv'
<1>1. PICK v : v = work[p][l]
  OBVIOUS
<1>2. v.pc = "complete" /\ UNCHANGED <<tag, push>>
  BY <1>1 DEF Complete, In
<1>3. CASE v.got = Content(l) /\ stored' = stored \cup {l} /\ Over(p, l, "ok") /\ UNCHANGED hurt
  BY <1>2, <1>3, Known, WorkOver
<1>4. CASE v.got # Content(l) /\ Over(p, l, "failed") /\ UNCHANGED <<stored, hurt>>
  <2>1. p \notin Refreshing \ hurt
    BY <1>1, <1>2, <1>4, Known DEF Whole
  <2> QED
    BY <1>2, <1>4, <2>1, Known, WorkOver
<1>5. CASE Broken(p, l, IF v.got = Content(l) THEN stored \cup {l} ELSE stored)
  <2>1. PICK kept : kept = IF v.got = Content(l) THEN stored \cup {l} ELSE stored
    OBVIOUS
  <2>2. stored \subseteq kept /\ kept \subseteq Layers /\ Broken(p, l, kept)
    BY <1>5, <2>1, Known
  <2> QED
    BY <1>2, <2>2, BrokenStep
<1> QED
  BY <1>1, <1>3, <1>4, <1>5 DEF Complete

-----------------------------------------------------------------------------
\* A step of the push itself: what must be shown of its new state alone.
LEMMA PushStep ==
    ASSUME PushInv, NEW p \in Pushes, NEW r \in Push,
           push' = [push EXCEPT ![p] = r],
           UNCHANGED <<stored, work>>,
           tag' = tag \/ (tag' = p /\ Image[p] \subseteq stored),
           hurt' = hurt \/ hurt' = hurt \cup {p},
           r.pc = "manifest" => Image[p] \subseteq stored,
           p \in Refreshing /\ p \notin hurt' =>
               /\ r.pc # "failed" /\ Sends(r, r)
               /\ \A l \in Layers : Sends(r, work[p][l])
    PROVE  PushInv'
<1>1. TypeOK
  BY DEF PushInv
<1>2. /\ push' \in [Pushes -> Push] /\ push'[p] = r
      /\ \A q \in Pushes : q # p => push'[q] = push[q]
  BY <1>1 DEF TypeOK
<1>3. TypeOK'
  BY <1>1, <1>2 DEF TypeOK
<1>4. Fetched'
  BY DEF PushInv, Fetched, In
<1>5. Ready'
  <2> SUFFICES ASSUME NEW q \in Pushes, push'[q].pc = "manifest" PROVE Image[q] \subseteq stored
    BY DEF Ready, At
  <2> QED
    BY <1>2 DEF PushInv, Ready, At
<1>6. TagComplete'
  BY DEF PushInv, TagComplete
<1>7. Spared'
  <2> SUFFICES ASSUME NEW q \in Refreshing, q \notin hurt'
               PROVE  /\ push'[q].pc # "failed" /\ Sends(push'[q], push'[q])
                      /\ \A l \in Layers : Whole(work[q][l], l) /\ Sends(push'[q], work[q][l])
    BY DEF Spared, At
  <2>1. q \in Pushes /\ q \notin hurt
    BY RegistryTransferAssumption
  <2>2. CASE q = p
    BY <2>1, <2>2, <1>2, Known
  <2>3. CASE q # p
    BY <2>1, <2>3, <1>2 DEF PushInv, Spared, At
  <2> QED
    BY <2>2, <2>3
<1> QED
  BY <1>3, <1>4, <1>5, <1>6, <1>7 DEF PushInv

\* Ends as a new state.
EndsAt(r, step) == [r EXCEPT !.pc = step, !.try = "first"]

LEMMA EndsIs ==
    ASSUME PushInv, NEW p \in Pushes, NEW step \in PushSteps, Ends(p, step)
    PROVE  /\ EndsAt(push[p], step) \in Push
           /\ EndsAt(push[p], step).pc = step /\ EndsAt(push[p], step).try = "first"
           /\ EndsAt(push[p], step).token = push[p].token
           /\ push' = [push EXCEPT ![p] = EndsAt(push[p], step)]
<1>1. push \in [Pushes -> Push] /\ push[p] \in Push
  BY DEF PushInv, TypeOK
<1>2. push' = [push EXCEPT ![p] = EndsAt(push[p], step)]
  BY <1>1 DEF Ends, EndsAt
<1> QED
  BY <1>1, <1>2 DEF EndsAt, Push, Tries

LEMMA EndsStep ==
    ASSUME PushInv, NEW p \in Pushes, NEW step \in PushSteps, Ends(p, step),
           UNCHANGED <<stored, work>>,
           tag' = tag \/ (tag' = p /\ Image[p] \subseteq stored),
           hurt' = hurt \/ hurt' = hurt \cup {p},
           step = "manifest" => Image[p] \subseteq stored,
           step = "failed" => p \notin Refreshing \ hurt'
    PROVE  PushInv'
<1>1. PICK r : r = EndsAt(push[p], step)
  OBVIOUS
<1>2. /\ r \in Push /\ r.pc = step /\ r.try = "first" /\ r.token = push[p].token
      /\ push' = [push EXCEPT ![p] = r]
  BY <1>1, EndsIs
<1>3. p \in Refreshing /\ p \notin hurt' => \A l \in Layers : Sends(r, work[p][l])
  BY <1>2, Known DEF Sends
<1>4. p \in Refreshing /\ p \notin hurt' => r.pc # "failed" /\ Sends(r, r)
  BY <1>2 DEF Sends
<1> QED
  BY <1>2, <1>3, <1>4, PushStep

LEMMA StartStep ==
    ASSUME PushInv, NEW p \in Pushes, Start(p) \/ AuthInfo(p)
    PROVE  PushInv'
<1>1. {"info", "layers", "failed"} \subseteq PushSteps
  BY DEF PushSteps
<1>2. CASE Start(p)
  BY <1>1, <1>2, EndsStep DEF Start
<1>3. CASE AuthInfo(p)
  <2>1. CASE Ends(p, "layers") /\ UNCHANGED hurt
    BY <1>1, <1>3, <2>1, EndsStep DEF AuthInfo
  <2>2. CASE Ends(p, "failed") /\ Hurt(p)
    BY <1>1, <1>3, <2>2, EndsStep DEF AuthInfo, Hurt
  <2> QED
    BY <1>3, <2>1, <2>2 DEF AuthInfo
<1> QED
  BY <1>2, <1>3

\* The manifest is put over workers that all are done.
LEMMA WaitStep ==
    ASSUME PushInv, NEW p \in Pushes, Wait(p)
    PROVE  PushInv'
<1>1. Image[p] \subseteq Layers /\ {"manifest", "failed"} \subseteq PushSteps
  BY RegistryTransferAssumption DEF PushSteps
<1>2. CASE \E l \in Image[p] : In(p, l, "failed")
  <2>1. p \notin Refreshing \ hurt
    BY <1>1, <1>2, Known DEF Whole, In
  <2> QED
    BY <1>1, <1>2, <2>1, EndsStep DEF Wait
<1>3. CASE ~(\E l \in Image[p] : In(p, l, "failed"))
  <2>1. \A l \in Image[p] : In(p, l, "ok")
    BY <1>3 DEF Wait, In
  <2>2. Image[p] \subseteq stored
    BY <1>1, <2>1 DEF PushInv, Fetched
  <2> QED
    BY <1>1, <1>3, <2>2, EndsStep DEF Wait
<1> QED
  BY <1>2, <1>3

LEMMA PutManifestStep ==
    ASSUME PushInv, NEW p \in Pushes, PutManifest(p)
    PROVE  PushInv'
<1>1. {"pushed", "failed"} \subseteq PushSteps
  BY DEF PushSteps
<1>2. Image[p] \subseteq stored
  BY DEF PushInv, Ready, PutManifest
<1>3. CASE tag' = p /\ Ends(p, "pushed") /\ UNCHANGED hurt
  BY <1>1, <1>2, <1>3, EndsStep DEF PutManifest
<1>4. CASE tag' \in {tag, p} /\ Ends(p, "failed") /\ Hurt(p)
  BY <1>1, <1>2, <1>4, EndsStep DEF PutManifest, Hurt
<1> QED
  BY <1>3, <1>4 DEF PutManifest

LEMMA ManifestRefusedStep ==
    ASSUME PushInv, NEW p \in Pushes, ManifestRefused(p)
    PROVE  PushInv'
<1>1. push \in [Pushes -> Push] /\ push[p] \in Push
  BY DEF PushInv, TypeOK
<1>2. CASE push[p].try = "first"
  <2>1. PICK r : r = [push[p] EXCEPT !.try = "denied"]
    OBVIOUS
  <2>2. /\ r \in Push /\ r.pc = "manifest" /\ r.try = "denied" /\ r.token = push[p].token
        /\ push' = [push EXCEPT ![p] = r]
    BY <1>1, <1>2, <2>1 DEF ManifestRefused, At, Push, Tries
  <2>3. p \in Refreshing /\ p \notin hurt =>
           Sends(r, r) /\ \A l \in Layers : Sends(r, work[p][l])
    BY <2>2, Known DEF Sends
  <2>4. Image[p] \subseteq stored
    BY DEF PushInv, Ready, ManifestRefused
  <2> QED
    BY <2>2, <2>3, <2>4, PushStep DEF ManifestRefused
<1>3. CASE push[p].try # "first"
  <2>1. push[p].try = "again" /\ push[p].token = "expired"
    BY <1>1, <1>3 DEF ManifestRefused, Push, Tries
  <2>2. p \notin Refreshing \ hurt
    BY <2>1 DEF PushInv, Spared, Sends
  <2>3. "failed" \in PushSteps
    BY DEF PushSteps
  <2> QED
    BY <1>3, <2>2, <2>3, EndsStep DEF ManifestRefused
<1> QED
  BY <1>2, <1>3

LEMMA ManifestRefreshStep ==
    ASSUME PushInv, NEW p \in Pushes, ManifestRefresh(p)
    PROVE  PushInv'
<1>1. push \in [Pushes -> Push] /\ push[p] \in Push
  BY DEF PushInv, TypeOK
<1>2. CASE /\ push' = [push EXCEPT ![p].token = Refreshed(p), ![p].try = "again"]
           /\ UNCHANGED hurt
  <2>1. PICK r : r = [push[p] EXCEPT !.token = Refreshed(p), !.try = "again"]
    OBVIOUS
  <2>2. Refreshed(p) \in {"live", "expired"} /\ (p \in Refreshing => Refreshed(p) = "live")
    BY <1>1 DEF Refreshed, Push
  <2>3. /\ r \in Push /\ r.pc = "manifest" /\ r.token = Refreshed(p)
        /\ push' = [push EXCEPT ![p] = r]
    BY <1>1, <1>2, <2>1, <2>2 DEF ManifestRefresh, At, Push, Tries
  <2>4. p \in Refreshing => Sends(r, r) /\ \A l \in Layers : Sends(r, work[p][l])
    BY <2>2, <2>3 DEF Sends
  <2>5. Image[p] \subseteq stored
    BY DEF PushInv, Ready, ManifestRefresh
  <2> QED
    BY <1>2, <2>3, <2>4, <2>5, PushStep DEF ManifestRefresh
<1>3. CASE Ends(p, "failed") /\ Hurt(p)
  <2>1. "failed" \in PushSteps
    BY DEF PushSteps
  <2> QED
    BY <1>3, <2>1, EndsStep DEF ManifestRefresh, Hurt
<1> QED
  BY <1>2, <1>3 DEF ManifestRefresh

\* A token that is refused when something was already sent again is a fault.
LEMMA ExpireStep ==
    ASSUME PushInv, NEW p \in Pushes, Expire(p)
    PROVE  PushInv'
<1>1. push \in [Pushes -> Push] /\ push[p] \in Push
  BY DEF PushInv, TypeOK
<1>2. PICK r : r = [push[p] EXCEPT !.token = "expired"]
  OBVIOUS
<1>3. /\ r \in Push /\ r.pc = push[p].pc /\ r.try = push[p].try /\ r.pc # "failed"
      /\ push' = [push EXCEPT ![p] = r]
  BY <1>1, <1>2 DEF Expire, Push
<1>4. hurt' = hurt \/ hurt' = hurt \cup {p}
  BY DEF Expire
<1>5. p \notin hurt' => push[p].try # "again" /\ \A l \in Layers : work[p][l].try # "again"
  BY DEF Expire
<1>6. p \in Refreshing /\ p \notin hurt' =>
         Sends(r, r) /\ \A l \in Layers : Sends(r, work[p][l])
  BY <1>3, <1>5 DEF Sends
<1>7. r.pc = "manifest" => Image[p] \subseteq stored
  BY <1>3 DEF PushInv, Ready, At
<1> QED
  BY <1>3, <1>4, <1>6, <1>7, PushStep DEF Expire

\* The next run of a push that failed starts from nothing.
LEMMA AgainStep ==
    ASSUME PushInv, NEW p \in Pushes, Again(p)
    PROVE  PushInv'
<1>1. TypeOK
  BY DEF PushInv
<1>2. PICK r : r = [pc |-> "info", token |-> Refreshed(p), try |-> "first"]
  OBVIOUS
<1>3. r \in Push /\ r.pc = "info" /\ r.try = "first"
  BY <1>1, <1>2 DEF TypeOK, Push, PushSteps, Tries, Refreshed
<1>4. /\ push' \in [Pushes -> Push] /\ push'[p] = r
      /\ \A q \in Pushes : q # p => push'[q] = push[q]
  BY <1>1, <1>2, <1>3 DEF TypeOK, Again
<1>5. /\ work' \in [Pushes -> [Layers -> Work]]
      /\ \A l \in Layers : work'[p][l] = Waiting
      /\ \A q \in Pushes : q # p => work'[q] = work[q]
  BY <1>1, Workers DEF TypeOK, Again
<1>6. /\ Waiting.pos <= Waiting.len /\ Waiting.pc = "waiting" /\ Waiting.try = "first"
      /\ Waiting.late = FALSE
  BY DEF Waiting
<1>7. UNCHANGED <<stored, tag>> /\ hurt' = hurt \ {p}
  BY DEF Again
<1>8. TypeOK'
  BY <1>1, <1>4, <1>5, <1>6, <1>7 DEF TypeOK
<1>9. Fetched'
  <2> SUFFICES ASSUME NEW q \in Pushes, NEW l \in Layers, work'[q][l].pc = "ok"
               PROVE  l \in stored
    BY <1>7 DEF Fetched, In
  <2>1. q # p
    BY <1>5, <1>6
  <2> QED
    BY <2>1, <1>5 DEF PushInv, Fetched, In
<1>10. Ready'
  <2> SUFFICES ASSUME NEW q \in Pushes, push'[q].pc = "manifest" PROVE Image[q] \subseteq stored
    BY <1>7 DEF Ready, At
  <2> QED
    BY <1>3, <1>4 DEF PushInv, Ready, At
<1>11. TagComplete'
  BY <1>7 DEF PushInv, TagComplete
<1>12. Spared'
  <2> SUFFICES ASSUME NEW q \in Refreshing, q \notin hurt'
               PROVE  /\ push'[q].pc # "failed" /\ Sends(push'[q], push'[q])
                      /\ \A l \in Layers : Whole(work'[q][l], l) /\ Sends(push'[q], work'[q][l])
    BY DEF Spared, At
  <2>1. q \in Pushes
    BY RegistryTransferAssumption
  <2>2. CASE q = p
    BY <2>2, <1>3, <1>4, <1>5, <1>6 DEF Sends, Whole
  <2>3. CASE q # p
    BY <2>1, <2>3, <1>4, <1>5, <1>7 DEF PushInv, Spared, At
  <2> QED
    BY <2>2, <2>3
<1> QED
  BY <1>8, <1>9, <1>10, <1>11, <1>12 DEF PushInv

-----------------------------------------------------------------------------
LEMMA InitInv == Init => PushInv
<1> SUFFICES ASSUME Init PROVE PushInv
  OBVIOUS
<1>1. push \in [Pushes -> Push] /\ \A p \in Pushes : push[p].pc = "idle" /\ push[p].try = "first"
  BY DEF Init, Push, PushSteps, Tries
<1>2. work \in [Pushes -> [Layers -> Work]] /\ \A p \in Pushes, l \in Layers : work[p][l] = Waiting
  BY Workers DEF Init
<1>3. /\ Waiting.pos <= Waiting.len /\ Waiting.pc = "waiting" /\ Waiting.try = "first"
      /\ Waiting.late = FALSE
  BY DEF Waiting
<1>4. TypeOK
  BY <1>1, <1>2, <1>3 DEF Init, TypeOK
<1>5. Fetched /\ Ready /\ TagComplete
  BY <1>1, <1>2, <1>3 DEF Init, Fetched, Ready, TagComplete, In, At
<1>6. Spared
  BY <1>1, <1>2, <1>3, RegistryTransferAssumption DEF Spared, Sends, Whole, At
<1> QED
  BY <1>4, <1>5, <1>6 DEF PushInv

LEMMA NextInv == PushInv /\ [Next]_vars => PushInv'
<1> SUFFICES ASSUME PushInv, [Next]_vars PROVE PushInv'
  OBVIOUS
<1>1. CASE UNCHANGED vars
  BY <1>1 DEF vars, PushInv, TypeOK, Fetched, Ready, TagComplete, Spared, In, At
<1>2. ASSUME NEW p \in Pushes, NEW l \in Layers, WorkNext(p, l) PROVE PushInv'
  BY <1>2, GoStep, HeadBlobStep, OpenLayerStep, RefusedStep, RefreshRequest, InitSingleStep,
     PutOnceStep, SendStep, PutStep, PutRefusedStep, PutAgainStep, InitMultipartStep,
     PartURLStep, PutPartStep, CompleteStep DEF WorkNext
<1>3. ASSUME NEW p \in Pushes, PushNext(p) PROVE PushInv'
  BY <1>2, <1>3, StartStep, WaitStep, PutManifestStep, ManifestRefusedStep,
     ManifestRefreshStep DEF PushNext
<1>4. ASSUME NEW p \in Pushes, NEW l \in Layers, LateRead(p, l) PROVE PushInv'
  BY <1>4, LateReadStep
<1>5. ASSUME NEW p \in Pushes, Start(p) \/ Again(p) \/ Expire(p) PROVE PushInv'
  BY <1>5, StartStep, AgainStep, ExpireStep
<1> QED
  BY <1>1, <1>3, <1>4, <1>5 DEF Next

LEMMA Invariance == Spec => []PushInv
BY InitInv, NextInv, PTL DEF Spec

\* Every state of any number of pushes is of its type: no worker reads past its file.
THEOREM TypeCorrect == Spec => []TypeOK
<1>1. PushInv => TypeOK
  BY DEF PushInv
<1> QED
  BY <1>1, Invariance, PTL

\* A tag never points at a manifest of which a layer is missing, whichever workers failed
\* and whichever pushes overlap.
THEOREM CompleteTags == Spec => []TagComplete
<1>1. PushInv => TagComplete
  BY DEF PushInv
<1> QED
  BY <1>1, Invariance, PTL

\* A push with a refresh token that meets no other fault is never failed by tokens that
\* expire, nor by the way its layers are cut into parts.
THEOREM PushesSurviveExpiry == Spec => []SurvivesExpiry
<1>1. PushInv => SurvivesExpiry
  BY DEF PushInv, Spared, SurvivesExpiry
<1> QED
  BY <1>1, Invariance, PTL
=============================================================================
