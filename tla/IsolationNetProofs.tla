--------------------------- MODULE IsolationNetProofs ---------------------------
(***************************************************************************)
(* What holds of the network under any finite number of isolated cages,    *)
(* however their names begin, for any number of starts and any faults.     *)
(***************************************************************************)
EXTENDS IsolationNet, FiniteSetTheorems, TLAPS

(***************************************************************************)
(* The inductive invariant.  A veth is only ever given to the cage it is   *)
(* named after; it gets an address once; there is always an id left for a  *)
(* passt; and of each step of a start it is known what stands by then and, *)
(* of a cage that never was abandoned, what does not.                      *)
(***************************************************************************)
BeforePasst == {"ns", "veth", "addr", "nat", "route", "passt"}
WithVeth == {"addr", "nat", "route", "passt", "forward", "boot", "running", "halted"}

VethsOwned == \A v \in Names, c \in Cages : veth[v] = c => v = VethOf[c]

NotRoutedYet ==
    \A c \in Cages : At(c, "addr") /\ veth[VethOf[c]] = c =>
        \A i \in DOMAIN routes : routes[i] # VethOf[c]

Taken(r) == (r.passt \cup {r.rec}) \ {0}
IdsLeft ==
    \A c \in Cages :
        Cardinality(Taken(cage[c])) + One(cage[c].pc \in BeforePasst) <= MaxStarts - more

Standing(c) ==
    /\ cage[c].pc \in WithVeth \cup {"veth"} => cage[c].ns
    /\ At(c, "running") => cage[c].rec \in cage[c].passt
    /\ cage[c].pc \in WithVeth /\ (\A d \in Cages \ {c} : VethOf[d] # VethOf[c]) =>
          veth[VethOf[c]] = c

Clean(c) ==
    /\ cage[c].pc \in {"off", "ns", "bootplain", "plain"} =>
          ~cage[c].ns /\ \A v \in Names : veth[v] # c
    /\ cage[c].pc \in BeforePasst \cup {"off", "bootplain", "plain"} => cage[c].passt = {}
    /\ cage[c].pc \in {"forward", "boot"} => cage[c].passt \subseteq {cage[c].mine}
    /\ cage[c].pc \in {"running", "halted"} =>
          cage[c].passt \subseteq {cage[c].rec} /\ cage[c].rec # 0

NetInv ==
    /\ VethsOwned /\ NotRoutedYet /\ IdsLeft
    /\ \A c \in Cages : Standing(c)
    /\ \A c \in Cages \ orphans : Clean(c)

IsoInv == TypeOK /\ RulesAccounted /\ NetInv

-----------------------------------------------------------------------------
\* The record of the acting cage is another one, and nobody else's.
Acts(c) ==
    /\ cage' \in [Cages -> CageNet]
    /\ \A d \in Cages \ {c} : cage'[d] = cage[d]

\* A cage's own record after a step, and the others'.
LEMMA Became ==
    ASSUME TypeOK, NEW c \in Cages, NEW r \in CageNet, Become(c, r)
    PROVE  Acts(c) /\ cage'[c] = r
BY DEF TypeOK, Become, Acts

\* A step that only goes on to another.
LEMMA Gone ==
    ASSUME TypeOK, NEW c \in Cages, NEW s \in Steps, Goto(c, s)
    PROVE  /\ Acts(c)
           /\ cage'[c].pc = s /\ cage'[c].ns = cage[c].ns /\ cage'[c].passt = cage[c].passt
           /\ cage'[c].mine = cage[c].mine /\ cage'[c].rec = cage[c].rec
<1> DEFINE n == [cage[c] EXCEPT !.pc = s]
<1>0. cage[c] \in CageNet
  BY DEF TypeOK
<1>1. /\ n \in CageNet
      /\ n.pc = s /\ n.ns = cage[c].ns /\ n.passt = cage[c].passt
      /\ n.mine = cage[c].mine /\ n.rec = cage[c].rec
  BY <1>0 DEF CageNet
<1>2. Become(c, n)
  BY DEF Goto
<1> HIDE DEF n
<1> QED
  BY <1>1, <1>2, Became

\* A step that goes on to another, as a new start or after it.
LEMMA Started ==
    ASSUME TypeOK, NEW c \in Cages, NEW s \in Steps,
           Become(c, [cage[c] EXCEPT !.pc = s, !.mine = 0])
    PROVE  /\ Acts(c)
           /\ cage'[c].pc = s /\ cage'[c].ns = cage[c].ns /\ cage'[c].passt = cage[c].passt
           /\ cage'[c].mine = 0 /\ cage'[c].rec = cage[c].rec
<1> DEFINE n == [cage[c] EXCEPT !.pc = s, !.mine = 0]
<1>0. cage[c] \in CageNet
  BY DEF TypeOK
<1>1. /\ n \in CageNet
      /\ n.pc = s /\ n.ns = cage[c].ns /\ n.passt = cage[c].passt
      /\ n.mine = 0 /\ n.rec = cage[c].rec
  BY <1>0 DEF CageNet
<1>2. Become(c, n)
  OBVIOUS
<1> HIDE DEF n
<1> QED
  BY <1>1, <1>2, Became

\* A setup that takes back what it has done.
LEMMA TakenBack ==
    ASSUME TypeOK, NEW c \in Cages, NEW r \in {cage[c], Killed(cage[c], cage[c].mine)},
           TakeBack(c, r)
    PROVE  /\ Acts(c) /\ DeleteVeth(VethOf[c])
           /\ cage'[c].pc = "bootplain" /\ ~cage'[c].ns /\ cage'[c].passt = {}
           /\ cage'[c].rec = cage[c].rec
<1> DEFINE n == [Unnamed(r) EXCEPT !.pc = "bootplain", !.mine = 0]
<1>0. cage[c] \in CageNet
  BY DEF TypeOK
<1>1. r \in CageNet /\ r.rec = cage[c].rec
  <2>1. CASE r = cage[c]
    BY <1>0, <2>1
  <2>2. CASE r = Killed(cage[c], cage[c].mine)
    BY <1>0, <2>2 DEF CageNet, Killed
  <2> QED
    BY <2>1, <2>2
<1>2. "bootplain" \in Steps
  BY DEF Steps
<1>3. n \in CageNet /\ n.pc = "bootplain" /\ ~n.ns /\ n.passt = {} /\ n.rec = r.rec
  BY <1>1, <1>2 DEF CageNet, Unnamed
<1>4. Become(c, n) /\ DeleteVeth(VethOf[c])
  BY DEF TakeBack
<1> HIDE DEF n
<1> QED
  BY <1>1, <1>3, <1>4, Became

\* What has no address is not routed to; the others keep their order.
LEMMA Unrouting ==
    ASSUME TypeOK, NEW v \in Names
    PROVE  /\ Unrouted(v) \in Seq(Names)
           /\ \A i \in DOMAIN Unrouted(v) :
                 /\ Unrouted(v)[i] # v
                 /\ \E j \in DOMAIN routes : routes[j] = Unrouted(v)[i]
           /\ \A i, j \in DOMAIN Unrouted(v) : Unrouted(v)[i] = Unrouted(v)[j] => i = j
<1>0. /\ routes \in Seq(Names) /\ Len(routes) \in Nat /\ DOMAIN routes = 1 .. Len(routes)
      /\ \A i, j \in DOMAIN routes : routes[i] = routes[j] => i = j
      /\ \A i \in DOMAIN routes : routes[i] \in Names
  BY DEF TypeOK
<1>1. CASE \E i \in DOMAIN routes : routes[i] = v
  <2> DEFINE gone == CHOOSE i \in DOMAIN routes : routes[i] = v
             rest == [i \in 1 .. Len(routes) - 1 |-> routes[IF i < gone THEN i ELSE i + 1]]
  <2>1. gone \in DOMAIN routes /\ routes[gone] = v
    BY <1>1
  <2>2. Unrouted(v) = rest
    BY <1>1 DEF Unrouted
  <2> HIDE DEF gone
  <2>3. Len(routes) - 1 \in Nat /\ DOMAIN rest = 1 .. Len(routes) - 1
    BY <1>0, <2>1
  <2>4. \A i \in DOMAIN rest :
           /\ rest[i] = routes[IF i < gone THEN i ELSE i + 1]
           /\ (IF i < gone THEN i ELSE i + 1) \in DOMAIN routes
           /\ (IF i < gone THEN i ELSE i + 1) # gone
    BY <1>0, <2>1, <2>3
  <2>5. rest \in [1 .. Len(routes) - 1 -> Names]
    BY <1>0, <2>3, <2>4
  <2>6. rest \in Seq(Names)
    BY <2>3, <2>5
  <2>7. \A i, j \in DOMAIN rest : rest[i] = rest[j] => i = j
    BY <1>0, <2>1, <2>3, <2>4
  <2> QED
    BY <1>0, <2>1, <2>2, <2>4, <2>6, <2>7
<1>2. CASE ~\E i \in DOMAIN routes : routes[i] = v
  BY <1>0, <1>2 DEF Unrouted
<1> QED
  BY <1>1, <1>2

\* The ids a cage has are a finite set of ids.
LEMMA TakenFinite ==
    ASSUME NEW r \in CageNet
    PROVE  /\ IsFiniteSet(Taken(r)) /\ Cardinality(Taken(r)) \in Nat
           /\ Taken(r) \subseteq Ids /\ IsFiniteSet(Ids) /\ Cardinality(Ids) = MaxStarts
<1>1. MaxStarts \in Nat
  BY IsolationNetAssumption
<1>2. Taken(r) \in SUBSET Ids
  BY <1>1 DEF Taken, CageNet, Ids
<1>3. IsFiniteSet(Ids) /\ Cardinality(Ids) = MaxStarts
  BY <1>1, FS_Interval DEF Ids
<1> QED
  BY <1>2, <1>3, FS_Subset, FS_CardinalityType

\* A cage that gets no new id takes no more of them than before.
LEMMA TakesNoMore ==
    ASSUME NEW r \in CageNet, NEW n \in CageNet, Taken(n) \subseteq Taken(r)
    PROVE  Cardinality(Taken(n)) <= Cardinality(Taken(r))
BY TakenFinite, FS_Subset

\* There is an id for every passt that is started.
LEMMA IdsSuffice ==
    ASSUME TypeOK, IdsLeft, NEW c \in Cages, cage[c].pc \in BeforePasst
    PROVE  NewId(c) \in Ids /\ NewId(c) \notin cage[c].passt \cup {cage[c].rec}
<1>1. cage[c] \in CageNet /\ more \in Nat /\ MaxStarts \in Nat
  BY IsolationNetAssumption DEF TypeOK
<1>2. Cardinality(Taken(cage[c])) < MaxStarts
  BY <1>1, TakenFinite DEF IdsLeft, One
<1>3. ~(Ids \subseteq Taken(cage[c]))
  BY <1>1, <1>2, TakenFinite, FS_Subset
<1>4. 0 \notin Ids
  BY DEF Ids
<1>5. \E i \in Ids : i \notin cage[c].passt \cup {cage[c].rec}
  BY <1>3, <1>4 DEF Taken
<1> QED
  BY <1>5 DEF NewId

-----------------------------------------------------------------------------
\* Nobody runs out of ids at a step that takes none.
LEMMA IdsStay ==
    ASSUME TypeOK, IdsLeft, more' = more, cage' \in [Cages -> CageNet],
           \A d \in Cages :
              /\ Taken(cage'[d]) \subseteq Taken(cage[d])
              /\ cage'[d].pc \in BeforePasst => cage[d].pc \in BeforePasst
    PROVE  IdsLeft'
<1> SUFFICES ASSUME NEW d \in Cages
             PROVE  Cardinality(Taken(cage'[d])) + One(cage'[d].pc \in BeforePasst)
                       <= MaxStarts - more
  BY DEF IdsLeft
<1>1. cage[d] \in CageNet /\ cage'[d] \in CageNet
  BY DEF TypeOK
<1> DEFINE k == Cardinality(Taken(cage[d]))
           n == Cardinality(Taken(cage'[d]))
           room == MaxStarts - more
<1>2. k \in Nat /\ n \in Nat /\ n <= k
  BY <1>1, TakenFinite, TakesNoMore
<1>3. room \in Int
  BY IsolationNetAssumption DEF TypeOK
<1>4. k + One(cage[d].pc \in BeforePasst) <= room
  BY DEF IdsLeft
<1> HIDE DEF k, n, room
<1>5. n + One(cage'[d].pc \in BeforePasst) <= room
  BY <1>2, <1>3, <1>4 DEF One
<1> QED
  BY <1>5 DEF n, room

\* A step of a start that neither starts a passt nor touches a veth.
LEMMA AdvanceKeeps ==
    ASSUME TypeOK, NetInv, NEW c \in Cages, Acts(c),
           UNCHANGED <<veth, routes, more, orphans>>,
           cage'[c].passt = cage[c].passt, cage'[c].rec = cage[c].rec,
           cage'[c].mine = cage[c].mine,
           \/ At(c, "ns") /\ cage'[c].pc = "veth" /\ cage'[c].ns
           \/ /\ cage'[c].ns = cage[c].ns
              /\ \/ At(c, "ns") /\ cage'[c].pc = "bootplain"
                 \/ At(c, "nat") /\ cage'[c].pc = "route"
                 \/ At(c, "route") /\ cage'[c].pc = "passt"
                 \/ At(c, "forward") /\ cage'[c].pc = "boot"
                 \/ At(c, "bootplain") /\ cage'[c].pc \in {"plain", "off"}
                 \/ At(c, "running") /\ cage'[c].pc = "halted"
    PROVE  NetInv'
<1>1. VethsOwned'
  BY DEF NetInv, VethsOwned
<1>2. NotRoutedYet'
  BY DEF Acts, NetInv, NotRoutedYet, At
<1>3. IdsLeft'
  <2> SUFFICES ASSUME NEW d \in Cages
               PROVE  /\ Taken(cage'[d]) \subseteq Taken(cage[d])
                      /\ cage'[d].pc \in BeforePasst => cage[d].pc \in BeforePasst
    BY IdsStay DEF NetInv, Acts
  <2>1. CASE d = c
    BY <2>1 DEF Taken, BeforePasst, At
  <2>2. CASE d # c
    BY <2>2 DEF Acts
  <2> QED
    BY <2>1, <2>2
<1>4. ASSUME NEW d \in Cages PROVE Standing(d)'
  <2>1. Standing(d)
    BY DEF NetInv
  <2>2. CASE d = c
    BY <2>1, <2>2 DEF Standing, At, WithVeth
  <2>3. CASE d # c
    BY <2>1, <2>3 DEF Standing, At, Acts
  <2> QED
    BY <2>2, <2>3
<1>5. ASSUME NEW d \in Cages \ orphans PROVE Clean(d)'
  <2>1. Clean(d)
    BY DEF NetInv
  <2>2. CASE d = c
    BY <2>1, <2>2 DEF Clean, At, BeforePasst
  <2>3. CASE d # c
    BY <2>1, <2>3 DEF Clean, Acts
  <2> QED
    BY <2>2, <2>3
<1> QED
  BY <1>1, <1>2, <1>3, <1>4, <1>5 DEF NetInv

\* A step that gives up what the start has made, veth and all.
LEMMA GivingUpKeeps ==
    ASSUME TypeOK, NetInv, NEW c \in Cages, Acts(c),
           DeleteVeth(VethOf[c]), UNCHANGED <<more, orphans>>,
           cage'[c].pc \in {"bootplain", "off"}, ~cage'[c].ns,
           cage'[c].passt = {}, cage'[c].rec = cage[c].rec
    PROVE  NetInv'
<1>0. VethOf[c] \in Names /\ veth \in [Names -> Cages \cup {Nobody}] /\ Nobody \notin Cages
  BY IsolationNetAssumption DEF TypeOK
<1>1. /\ veth'[VethOf[c]] = Nobody
      /\ \A v \in Names \ {VethOf[c]} : veth'[v] = veth[v]
  BY <1>0 DEF DeleteVeth
<1>2. VethsOwned'
  BY <1>0, <1>1 DEF NetInv, VethsOwned
<1>3. NotRoutedYet'
  <2> SUFFICES ASSUME NEW d \in Cages, cage'[d].pc = "addr", veth'[VethOf[d]] = d,
                      NEW i \in DOMAIN routes'
               PROVE  routes'[i] # VethOf[d]
    BY DEF NotRoutedYet, At
  <2>1. d # c /\ cage'[d] = cage[d] /\ veth[VethOf[d]] = d
    BY <1>0, <1>1, IsolationNetAssumption DEF Acts
  <2>2. \A j \in DOMAIN routes : routes[j] # VethOf[d]
    BY <2>1 DEF NetInv, NotRoutedYet, At
  <2> QED
    BY <1>0, <2>2, Unrouting DEF DeleteVeth
<1>4. IdsLeft'
  <2> SUFFICES ASSUME NEW d \in Cages
               PROVE  /\ Taken(cage'[d]) \subseteq Taken(cage[d])
                      /\ cage'[d].pc \in BeforePasst => cage[d].pc \in BeforePasst
    BY IdsStay DEF NetInv, Acts
  <2>1. CASE d = c
    BY <2>1 DEF Taken, BeforePasst
  <2>2. CASE d # c
    BY <2>2 DEF Acts
  <2> QED
    BY <2>1, <2>2
<1>5. ASSUME NEW d \in Cages PROVE Standing(d)'
  <2>1. Standing(d)
    BY DEF NetInv
  <2>2. CASE d = c
    BY <2>2 DEF Standing, At, WithVeth
  <2>3. CASE d # c
    BY <1>0, <1>1, <2>1, <2>3, IsolationNetAssumption DEF Standing, At, Acts
  <2> QED
    BY <2>2, <2>3
<1>6. ASSUME NEW d \in Cages \ orphans PROVE Clean(d)'
  <2>1. Clean(d)
    BY DEF NetInv
  <2>2. CASE d = c
    <3>1. \A v \in Names : veth'[v] # c
      BY <1>0, <1>1 DEF NetInv, VethsOwned
    <3> QED
      BY <2>2, <3>1 DEF Clean
  <2>3. CASE d # c
    BY <1>0, <1>1, <2>1, <2>3 DEF Clean, Acts
  <2> QED
    BY <2>2, <2>3
<1> QED
  BY <1>2, <1>3, <1>4, <1>5, <1>6 DEF NetInv

\* A step after which the cage counts as abandoned.
LEMMA AbandonKeeps ==
    ASSUME TypeOK, NetInv, NEW c \in Cages, Acts(c),
           UNCHANGED <<veth, routes, more>>, orphans' = orphans \cup {c},
           cage'[c].pc = "off", cage'[c].passt = cage[c].passt,
           cage'[c].rec \in {cage[c].rec, 0}
    PROVE  NetInv'
<1>1. VethsOwned'
  BY DEF NetInv, VethsOwned
<1>2. NotRoutedYet'
  BY DEF Acts, NetInv, NotRoutedYet, At
<1>3. IdsLeft'
  <2> SUFFICES ASSUME NEW d \in Cages
               PROVE  /\ Taken(cage'[d]) \subseteq Taken(cage[d])
                      /\ cage'[d].pc \in BeforePasst => cage[d].pc \in BeforePasst
    BY IdsStay DEF NetInv, Acts
  <2>1. CASE d = c
    BY <2>1 DEF Taken, BeforePasst
  <2>2. CASE d # c
    BY <2>2 DEF Acts
  <2> QED
    BY <2>1, <2>2
<1>4. ASSUME NEW d \in Cages PROVE Standing(d)'
  BY DEF NetInv, Standing, At, Acts, WithVeth
<1>5. ASSUME NEW d \in Cages \ orphans' PROVE Clean(d)'
  BY DEF NetInv, Clean, Acts
<1> QED
  BY <1>1, <1>2, <1>3, <1>4, <1>5 DEF NetInv

LEMMA BeginKeeps ==
    ASSUME TypeOK, NetInv, NEW c \in Cages, Begin(c)
    PROVE  NetInv'
<1>0. cage[c] \in CageNet /\ "ns" \in Steps
  BY DEF TypeOK, Steps, Setup
<1>1. /\ Acts(c) /\ UNCHANGED <<veth, routes>> /\ more' = more - 1
      /\ cage[c].pc \in {"off", "halted"} /\ cage'[c].pc = "ns" /\ cage'[c].ns = cage[c].ns
      /\ cage'[c].passt = cage[c].passt /\ cage'[c].rec = cage[c].rec
      /\ \/ At(c, "off") /\ orphans' = orphans
         \/ orphans' = orphans \cup {c}
  BY <1>0, Started DEF Begin, At
<1>2. VethsOwned'
  BY <1>1 DEF NetInv, VethsOwned
<1>3. NotRoutedYet'
  BY <1>1 DEF Acts, NetInv, NotRoutedYet, At
<1>4. IdsLeft'
  <2> SUFFICES ASSUME NEW d \in Cages
               PROVE  Cardinality(Taken(cage'[d])) + One(cage'[d].pc \in BeforePasst)
                         <= MaxStarts - more'
    BY DEF IdsLeft
  <2>1. cage[d] \in CageNet /\ Taken(cage'[d]) = Taken(cage[d])
    BY <1>1 DEF TypeOK, Acts, Taken
  <2> DEFINE k == Cardinality(Taken(cage[d]))
  <2>2. k \in Nat /\ k + One(cage[d].pc \in BeforePasst) <= MaxStarts - more
    BY <2>1, TakenFinite DEF NetInv, IdsLeft
  <2> HIDE DEF k
  <2>3. /\ One(cage'[d].pc \in BeforePasst) <= One(cage[d].pc \in BeforePasst) + 1
        /\ One(cage'[d].pc \in BeforePasst) \in Nat /\ One(cage[d].pc \in BeforePasst) \in Nat
    BY DEF One
  <2>4. k + One(cage'[d].pc \in BeforePasst) <= MaxStarts - more'
    BY <1>1, <2>2, <2>3, IsolationNetAssumption DEF TypeOK
  <2> QED
    BY <2>1, <2>4 DEF k
<1>5. ASSUME NEW d \in Cages PROVE Standing(d)'
  BY <1>1 DEF NetInv, Standing, At, Acts, WithVeth
<1>6. ASSUME NEW d \in Cages \ orphans' PROVE Clean(d)'
  <2>1. Clean(d)
    BY <1>1 DEF NetInv
  <2>2. CASE d = c
    BY <1>1, <2>1, <2>2 DEF Clean, At
  <2>3. CASE d # c
    BY <1>1, <2>1, <2>3 DEF Clean, Acts
  <2> QED
    BY <2>2, <2>3
<1> QED
  BY <1>2, <1>3, <1>4, <1>5, <1>6 DEF NetInv

\* The veth of another cage whose name begins alike goes; nobody else's does.
LEMMA CreateVethKeeps ==
    ASSUME TypeOK, NetInv, NEW c \in Cages, At(c, "veth"),
           veth' = [veth EXCEPT ![VethOf[c]] = c], routes' = Unrouted(VethOf[c]),
           Goto(c, "addr"), UNCHANGED <<more, orphans>>
    PROVE  NetInv'
<1>0. /\ cage[c] \in CageNet /\ "addr" \in Steps
      /\ VethOf[c] \in Names /\ veth \in [Names -> Cages \cup {Nobody}]
  BY IsolationNetAssumption DEF TypeOK, Steps, Setup
<1>1. /\ Acts(c)
      /\ cage'[c].pc = "addr" /\ cage'[c].ns = cage[c].ns
      /\ cage'[c].passt = cage[c].passt /\ cage'[c].rec = cage[c].rec
  BY <1>0, Gone
<1>2. /\ veth'[VethOf[c]] = c
      /\ \A v \in Names \ {VethOf[c]} : veth'[v] = veth[v]
  BY <1>0
<1>3. VethsOwned'
  BY <1>0, <1>2 DEF NetInv, VethsOwned
<1>4. NotRoutedYet'
  <2> SUFFICES ASSUME NEW d \in Cages, cage'[d].pc = "addr", veth'[VethOf[d]] = d,
                      NEW i \in DOMAIN routes'
               PROVE  routes'[i] # VethOf[d]
    BY DEF NotRoutedYet, At
  <2>1. CASE d = c
    BY <1>0, <2>1, Unrouting
  <2>2. CASE d # c
    <3>1. cage'[d] = cage[d] /\ veth[VethOf[d]] = d
      BY <1>0, <1>1, <1>2, <2>2, IsolationNetAssumption DEF Acts
    <3>2. \A j \in DOMAIN routes : routes[j] # VethOf[d]
      BY <3>1 DEF NetInv, NotRoutedYet, At
    <3> QED
      BY <1>0, <3>2, Unrouting
  <2> QED
    BY <2>1, <2>2
<1>5. IdsLeft'
  <2> SUFFICES ASSUME NEW d \in Cages
               PROVE  /\ Taken(cage'[d]) \subseteq Taken(cage[d])
                      /\ cage'[d].pc \in BeforePasst => cage[d].pc \in BeforePasst
    BY <1>1, IdsStay DEF NetInv, Acts
  <2> QED
    BY <1>1 DEF Acts, Taken, BeforePasst, At
<1>6. ASSUME NEW d \in Cages PROVE Standing(d)'
  <2>1. Standing(d)
    BY DEF NetInv
  <2>2. CASE d = c
    BY <1>1, <1>2, <2>1, <2>2 DEF Standing, At, WithVeth
  <2>3. CASE d # c
    BY <1>0, <1>1, <1>2, <2>1, <2>3, IsolationNetAssumption DEF Standing, At, Acts
  <2> QED
    BY <2>2, <2>3
<1>7. ASSUME NEW d \in Cages \ orphans' PROVE Clean(d)'
  <2>1. Clean(d)
    BY DEF NetInv
  <2>2. CASE d = c
    BY <1>1, <2>1, <2>2 DEF Clean, At, BeforePasst
  <2>3. CASE d # c
    BY <1>0, <1>1, <1>2, <2>1, <2>3 DEF Clean, Acts
  <2> QED
    BY <2>2, <2>3
<1> QED
  BY <1>3, <1>4, <1>5, <1>6, <1>7 DEF NetInv

LEMMA ConfigureKeeps ==
    ASSUME TypeOK, NetInv, NEW c \in Cages, At(c, "addr"),
           veth[VethOf[c]] = c, routes' = Append(routes, VethOf[c]),
           Goto(c, "nat"), UNCHANGED <<veth, more, orphans>>
    PROVE  NetInv'
<1>0. /\ cage[c] \in CageNet /\ "nat" \in Steps /\ VethOf[c] \in Names /\ routes \in Seq(Names)
  BY IsolationNetAssumption DEF TypeOK, Steps, Setup
<1>1. /\ Acts(c)
      /\ cage'[c].pc = "nat" /\ cage'[c].ns = cage[c].ns
      /\ cage'[c].passt = cage[c].passt /\ cage'[c].rec = cage[c].rec
  BY <1>0, Gone
<1>2. VethsOwned'
  BY DEF NetInv, VethsOwned
<1>3. NotRoutedYet'
  <2> SUFFICES ASSUME NEW d \in Cages, cage'[d].pc = "addr", veth[VethOf[d]] = d,
                      NEW i \in DOMAIN routes'
               PROVE  routes'[i] # VethOf[d]
    BY DEF NotRoutedYet, At
  <2>1. d # c /\ cage'[d] = cage[d] /\ VethOf[d] # VethOf[c]
    BY <1>1 DEF Acts
  <2>2. \A j \in DOMAIN routes : routes[j] # VethOf[d]
    BY <2>1 DEF NetInv, NotRoutedYet, At
  <2> QED
    BY <1>0, <2>1, <2>2
<1>4. IdsLeft'
  <2> SUFFICES ASSUME NEW d \in Cages
               PROVE  /\ Taken(cage'[d]) \subseteq Taken(cage[d])
                      /\ cage'[d].pc \in BeforePasst => cage[d].pc \in BeforePasst
    BY <1>1, IdsStay DEF NetInv, Acts
  <2> QED
    BY <1>1 DEF Acts, Taken, BeforePasst, At
<1>5. ASSUME NEW d \in Cages PROVE Standing(d)'
  BY <1>1 DEF NetInv, Standing, At, Acts, WithVeth
<1>6. ASSUME NEW d \in Cages \ orphans' PROVE Clean(d)'
  <2>1. Clean(d)
    BY DEF NetInv
  <2>2. CASE d = c
    BY <1>1, <2>1, <2>2 DEF Clean, At, BeforePasst
  <2>3. CASE d # c
    BY <1>1, <2>1, <2>3 DEF Clean, Acts
  <2> QED
    BY <2>2, <2>3
<1> QED
  BY <1>2, <1>3, <1>4, <1>5, <1>6 DEF NetInv

\* A passt that may have ended at once takes the id that was left for it.
LEMMA PasstKeeps ==
    ASSUME TypeOK, NetInv, NEW c \in Cages, At(c, "passt"), NEW alive \in SUBSET {NewId(c)},
           Become(c, [cage[c] EXCEPT !.pc = "forward", !.mine = NewId(c),
                                     !.passt = @ \cup alive]),
           UNCHANGED <<veth, routes, more, orphans>>
    PROVE  NetInv' /\ Acts(c) /\ cage'[c].pc = "forward"
<1>0. cage[c] \in CageNet /\ "forward" \in Steps /\ NewId(c) \in Ids
  BY IdsSuffice DEF TypeOK, Steps, Setup, NetInv, At, BeforePasst
<1> DEFINE i == NewId(c)
           n == [cage[c] EXCEPT !.pc = "forward", !.mine = i, !.passt = @ \cup alive]
<1> HIDE DEF i
<1>1. /\ n \in CageNet
      /\ n.pc = "forward" /\ n.ns = cage[c].ns /\ n.passt = cage[c].passt \cup alive
      /\ n.mine = i /\ n.rec = cage[c].rec
  <2>1. i \in Ids /\ alive \in SUBSET Ids
    BY <1>0 DEF i
  <2>2. cage[c].passt \cup alive \in SUBSET Ids
    BY <1>0, <2>1 DEF CageNet
  <2> QED
    BY <1>0, <2>1, <2>2 DEF CageNet
<1>2. Become(c, n)
  BY DEF i
<1> HIDE DEF n
<1>3. /\ Acts(c)
      /\ cage'[c].pc = "forward" /\ cage'[c].ns = cage[c].ns
      /\ cage'[c].passt \subseteq cage[c].passt \cup {i}
      /\ cage'[c].mine = i /\ cage'[c].rec = cage[c].rec
  BY <1>1, <1>2, Became DEF i
<1>4. VethsOwned'
  BY DEF NetInv, VethsOwned
<1>5. NotRoutedYet'
  BY <1>3 DEF Acts, NetInv, NotRoutedYet, At
<1>6. IdsLeft'
  <2> SUFFICES ASSUME NEW d \in Cages
               PROVE  Cardinality(Taken(cage'[d])) + One(cage'[d].pc \in BeforePasst)
                         <= MaxStarts - more
    BY DEF IdsLeft
  <2>1. Cardinality(Taken(cage[d])) + One(cage[d].pc \in BeforePasst) <= MaxStarts - more
    BY DEF NetInv, IdsLeft
  <2>2. CASE d # c
    BY <1>3, <2>1, <2>2 DEF Acts
  <2>3. CASE d = c
    <3> DEFINE k == Cardinality(Taken(cage[c]))
               m == Cardinality(Taken(cage'[c]))
               room == MaxStarts - more
    <3>1. cage'[c] \in CageNet
      BY <1>3 DEF Acts
    <3>2. Taken(cage'[c]) \subseteq Taken(cage[c]) \cup {i}
      BY <1>3 DEF Taken
    <3>3. /\ IsFiniteSet(Taken(cage[c]) \cup {i})
          /\ Cardinality(Taken(cage[c]) \cup {i}) \in {k, k + 1}
      BY <1>0, TakenFinite, FS_AddElement
    <3>4. k \in Nat /\ m \in Nat
      BY <1>0, <3>1, TakenFinite
    <3>5. m <= Cardinality(Taken(cage[c]) \cup {i})
      BY <3>2, <3>3, FS_Subset
    <3>6. One(cage[c].pc \in BeforePasst) = 1 /\ One(cage'[c].pc \in BeforePasst) = 0
      BY <1>3 DEF At, BeforePasst, One
    <3>7. k + 1 <= room /\ room \in Int
      BY <2>1, <2>3, <3>6, IsolationNetAssumption DEF TypeOK
    <3> HIDE DEF k, m, room
    <3>8. m + 0 <= room
      BY <3>3, <3>4, <3>5, <3>7
    <3> QED
      BY <2>3, <3>6, <3>8 DEF m, room
  <2> QED
    BY <2>2, <2>3
<1>7. ASSUME NEW d \in Cages PROVE Standing(d)'
  BY <1>3 DEF NetInv, Standing, At, Acts, WithVeth
<1>8. ASSUME NEW d \in Cages \ orphans' PROVE Clean(d)'
  <2>1. Clean(d)
    BY DEF NetInv
  <2>2. CASE d = c
    BY <1>3, <2>1, <2>2 DEF Clean, At, BeforePasst
  <2>3. CASE d # c
    BY <1>3, <2>1, <2>3 DEF Clean, Acts
  <2> QED
    BY <2>2, <2>3
<1> QED
  BY <1>3, <1>4, <1>5, <1>6, <1>7, <1>8 DEF NetInv

\* A VM that runs: the passt it is connected to is recorded.
LEMMA RunsKeeps ==
    ASSUME TypeOK, NetInv, NEW c \in Cages, At(c, "boot"), cage[c].mine \in cage[c].passt,
           Become(c, [cage[c] EXCEPT !.pc = "running", !.rec = cage[c].mine]),
           UNCHANGED <<veth, routes, more, orphans>>
    PROVE  NetInv' /\ Acts(c) /\ cage'[c].pc = "running"
<1>0. cage[c] \in CageNet /\ "running" \in Steps
  BY DEF TypeOK, Steps
<1> DEFINE n == [cage[c] EXCEPT !.pc = "running", !.rec = cage[c].mine]
<1>1. /\ n \in CageNet
      /\ n.pc = "running" /\ n.ns = cage[c].ns /\ n.passt = cage[c].passt
      /\ n.mine = cage[c].mine /\ n.rec = cage[c].mine
  BY <1>0 DEF CageNet
<1>2. Become(c, n)
  OBVIOUS
<1> HIDE DEF n
<1>3. /\ Acts(c)
      /\ cage'[c].pc = "running" /\ cage'[c].ns = cage[c].ns
      /\ cage'[c].passt = cage[c].passt /\ cage'[c].rec = cage[c].mine
  BY <1>1, <1>2, Became
<1>4. cage[c].mine # 0
  BY <1>0 DEF CageNet, Ids
<1>5. VethsOwned'
  BY DEF NetInv, VethsOwned
<1>6. NotRoutedYet'
  BY <1>3 DEF Acts, NetInv, NotRoutedYet, At
<1>7. IdsLeft'
  <2> SUFFICES ASSUME NEW d \in Cages
               PROVE  /\ Taken(cage'[d]) \subseteq Taken(cage[d])
                      /\ cage'[d].pc \in BeforePasst => cage[d].pc \in BeforePasst
    BY <1>3, IdsStay DEF NetInv, Acts
  <2> QED
    BY <1>3 DEF Acts, Taken, BeforePasst, At
<1>8. ASSUME NEW d \in Cages PROVE Standing(d)'
  BY <1>3 DEF NetInv, Standing, At, Acts, WithVeth
<1>9. ASSUME NEW d \in Cages \ orphans' PROVE Clean(d)'
  <2>1. Clean(d)
    BY DEF NetInv
  <2>2. CASE d = c
    BY <1>3, <1>4, <2>1, <2>2 DEF Clean, At, BeforePasst
  <2>3. CASE d # c
    BY <1>3, <2>1, <2>3 DEF Clean, Acts
  <2> QED
    BY <2>2, <2>3
<1> QED
  BY <1>3, <1>5, <1>6, <1>7, <1>8, <1>9 DEF NetInv

\* A stop takes the veth along unless another passt keeps the namespace.
LEMMA StopKeeps ==
    ASSUME TypeOK, NetInv, NEW c \in Cages, Stop(c)
    PROVE  NetInv' /\ Acts(c) /\ cage'[c].pc = "off"
<1>0. /\ cage[c] \in CageNet /\ "off" \in Steps
      /\ VethOf[c] \in Names /\ veth \in [Names -> Cages \cup {Nobody}] /\ Nobody \notin Cages
  BY IsolationNetAssumption DEF TypeOK, Steps
<1>1. /\ cage[c].pc \in {"running", "plain", "halted"}
      /\ more' = more /\ orphans' = orphans
  BY DEF Stop
<1>2. /\ Acts(c) /\ cage'[c].pc = "off"
      /\ cage'[c].passt \subseteq cage[c].passt /\ cage'[c].rec \in {cage[c].rec, 0}
      /\ cage[c].rec = 0 => cage'[c].ns = cage[c].ns
      /\ cage[c].rec # 0 => ~cage'[c].ns /\ cage'[c].passt = {}
  <2>1. CASE cage[c].rec = 0
    <3>1. Goto(c, "off")
      BY <2>1 DEF Stop, Goto
    <3> QED
      BY <1>0, <2>1, <3>1, Gone
  <2>2. CASE cage[c].rec # 0
    <3>1. Become(c, Stopped(c))
      BY <2>2 DEF Stop
    <3>2. /\ Stopped(c) \in CageNet /\ Stopped(c).pc = "off" /\ Stopped(c).rec = 0
          /\ ~Stopped(c).ns /\ Stopped(c).passt = {}
      BY <1>0 DEF CageNet, Stopped, Unnamed
    <3> QED
      BY <2>2, <3>1, <3>2, Became
  <2> QED
    BY <2>1, <2>2
<1>3. /\ \/ UNCHANGED <<veth, routes>>
         \/ DeleteVeth(VethOf[c]) /\ veth[VethOf[c]] = c
      /\ cage[c].rec # 0 /\ cage[c].passt \subseteq {cage[c].rec} /\ veth[VethOf[c]] = c =>
            DeleteVeth(VethOf[c])
  BY DEF Stop
<1>4. ASSUME NEW v \in Names
      PROVE  \/ veth'[v] = veth[v]
             \/ v = VethOf[c] /\ veth[v] = c /\ veth'[v] = Nobody
  BY <1>0, <1>3 DEF DeleteVeth
<1>5. VethsOwned'
  BY <1>0, <1>4 DEF NetInv, VethsOwned
<1>6. NotRoutedYet'
  <2> SUFFICES ASSUME NEW d \in Cages, cage'[d].pc = "addr", veth'[VethOf[d]] = d,
                      NEW i \in DOMAIN routes'
               PROVE  routes'[i] # VethOf[d]
    BY DEF NotRoutedYet, At
  <2>1. VethOf[d] \in Names
    BY IsolationNetAssumption
  <2>2. d # c /\ cage'[d] = cage[d] /\ veth[VethOf[d]] = d
    BY <1>0, <1>2, <1>4, <2>1 DEF Acts
  <2>3. \A j \in DOMAIN routes : routes[j] # VethOf[d]
    BY <2>2 DEF NetInv, NotRoutedYet, At
  <2> QED
    BY <1>0, <1>3, <2>3, Unrouting DEF DeleteVeth
<1>7. IdsLeft'
  <2> SUFFICES ASSUME NEW d \in Cages
               PROVE  /\ Taken(cage'[d]) \subseteq Taken(cage[d])
                      /\ cage'[d].pc \in BeforePasst => cage[d].pc \in BeforePasst
    BY <1>1, <1>2, IdsStay DEF NetInv, Acts
  <2> QED
    BY <1>2 DEF Acts, Taken, BeforePasst
<1>8. ASSUME NEW d \in Cages PROVE Standing(d)'
  <2>1. Standing(d)
    BY DEF NetInv
  <2>2. CASE d = c
    BY <1>2, <2>2 DEF Standing, At, WithVeth
  <2>3. CASE d # c
    <3>1. cage'[d] = cage[d] /\ VethOf[d] \in Names
      BY <1>2, <2>3, IsolationNetAssumption DEF Acts
    <3>2. veth[VethOf[d]] = d => veth'[VethOf[d]] = d
      BY <1>0, <1>4, <2>3, <3>1
    <3> QED
      BY <2>1, <3>1, <3>2 DEF Standing, At
  <2> QED
    BY <2>2, <2>3
<1>9. ASSUME NEW d \in Cages \ orphans' PROVE Clean(d)'
  <2>1. Clean(d)
    BY <1>1 DEF NetInv
  <2>2. CASE d # c
    <3>1. cage'[d] = cage[d]
      BY <1>2, <2>2 DEF Acts
    <3>2. \A v \in Names : veth[v] # d => veth'[v] # d
      BY <1>0, <1>4
    <3> QED
      BY <2>1, <3>1, <3>2 DEF Clean
  <2>3. CASE d = c /\ cage[c].pc = "plain"
    <3>1. ~cage[c].ns /\ cage[c].passt = {} /\ \A v \in Names : veth[v] # c
      BY <2>1, <2>3 DEF Clean
    <3>2. ~cage'[c].ns /\ cage'[c].passt = {} /\ \A v \in Names : veth'[v] # c
      BY <1>0, <1>2, <1>4, <3>1
    <3> QED
      BY <1>2, <2>3, <3>2 DEF Clean
  <2>4. CASE d = c /\ cage[c].pc # "plain"
    <3>1. cage[c].passt \subseteq {cage[c].rec} /\ cage[c].rec # 0
      BY <1>1, <2>1, <2>4 DEF Clean
    <3>2. veth'[VethOf[c]] # c
      BY <1>0, <1>3, <3>1 DEF DeleteVeth
    <3>3. \A v \in Names : veth'[v] # c
      BY <1>0, <1>5, <3>2 DEF VethsOwned
    <3> QED
      BY <1>2, <2>4, <3>1, <3>3 DEF Clean
  <2> QED
    BY <2>2, <2>3, <2>4
<1> QED
  BY <1>2, <1>5, <1>6, <1>7, <1>8, <1>9 DEF NetInv

-----------------------------------------------------------------------------
\* The veths have their type: each is routed to once, and only while it is there.
VethsOK ==
    /\ veth \in [Names -> Cages \cup {Nobody}] /\ routes \in Seq(Names)
    /\ \A i, j \in DOMAIN routes : routes[i] = routes[j] => i = j
    /\ \A i \in DOMAIN routes : veth[routes[i]] # Nobody

\* The rules have their type and are accounted for.
RulesOK ==
    /\ masq \in Nat /\ dnat \in [Ports -> Nat]
    /\ left \in [masq: Nat, dnat: [Ports -> Nat]]
    /\ RulesAccounted

LEMMA VethsStay ==
    ASSUME TypeOK, UNCHANGED <<veth, routes>>
    PROVE  VethsOK'
BY DEF TypeOK, VethsOK

LEMMA VethDeleted ==
    ASSUME TypeOK, NEW c \in Cages, DeleteVeth(VethOf[c])
    PROVE  VethsOK'
<1>0. VethOf[c] \in Names /\ veth \in [Names -> Cages \cup {Nobody}] /\ routes \in Seq(Names)
  BY IsolationNetAssumption DEF TypeOK
<1>1. veth' = [veth EXCEPT ![VethOf[c]] = Nobody] /\ routes' = Unrouted(VethOf[c])
  BY DEF DeleteVeth
<1>2. /\ routes' \in Seq(Names)
      /\ \A i, j \in DOMAIN routes' : routes'[i] = routes'[j] => i = j
  BY <1>0, <1>1, Unrouting
<1>3. ASSUME NEW i \in DOMAIN routes' PROVE veth'[routes'[i]] # Nobody
  <2>1. routes'[i] # VethOf[c] /\ \E j \in DOMAIN routes : routes[j] = routes'[i]
    BY <1>0, <1>1, Unrouting
  <2>2. routes'[i] \in Names
    BY <1>2
  <2> QED
    BY <1>0, <1>1, <2>1, <2>2 DEF TypeOK
<1> QED
  BY <1>0, <1>1, <1>2, <1>3 DEF VethsOK

LEMMA VethCreated ==
    ASSUME TypeOK, NEW c \in Cages, veth' = [veth EXCEPT ![VethOf[c]] = c],
           routes' = Unrouted(VethOf[c])
    PROVE  VethsOK'
<1>0. VethOf[c] \in Names /\ veth \in [Names -> Cages \cup {Nobody}] /\ routes \in Seq(Names)
  BY IsolationNetAssumption DEF TypeOK
<1>1. /\ routes' \in Seq(Names)
      /\ \A i, j \in DOMAIN routes' : routes'[i] = routes'[j] => i = j
  BY <1>0, Unrouting
<1>2. ASSUME NEW i \in DOMAIN routes' PROVE veth'[routes'[i]] # Nobody
  <2>1. routes'[i] # VethOf[c] /\ \E j \in DOMAIN routes : routes[j] = routes'[i]
    BY <1>0, Unrouting
  <2>2. routes'[i] \in Names
    BY <1>1
  <2> QED
    BY <1>0, <2>1, <2>2 DEF TypeOK
<1> QED
  BY <1>0, <1>1, <1>2 DEF VethsOK

LEMMA VethConfigured ==
    ASSUME TypeOK, NotRoutedYet, NEW c \in Cages, At(c, "addr"), veth[VethOf[c]] = c,
           veth' = veth, routes' = Append(routes, VethOf[c])
    PROVE  VethsOK'
<1>0. /\ VethOf[c] \in Names /\ routes \in Seq(Names) /\ Len(routes) \in Nat
      /\ Nobody \notin Cages
  BY IsolationNetAssumption DEF TypeOK
<1>1. \A i \in DOMAIN routes : routes[i] # VethOf[c]
  BY DEF NotRoutedYet
<1>2. /\ routes' \in Seq(Names) /\ DOMAIN routes' = 1 .. Len(routes) + 1
      /\ DOMAIN routes = 1 .. Len(routes)
      /\ routes'[Len(routes) + 1] = VethOf[c]
      /\ \A i \in 1 .. Len(routes) : routes'[i] = routes[i]
  BY <1>0
<1>3. \A i, j \in DOMAIN routes' : routes'[i] = routes'[j] => i = j
  BY <1>0, <1>1, <1>2 DEF TypeOK
<1>4. \A i \in DOMAIN routes' : veth'[routes'[i]] # Nobody
  BY <1>0, <1>2 DEF TypeOK
<1> QED
  BY <1>2, <1>3, <1>4 DEF TypeOK, VethsOK

\* How many cages have the MASQUERADE rule changes with the acting one.
Holders == {c \in Cages : HasMasq(c)}

LEMMA HoldersChange ==
    ASSUME TypeOK, NEW c \in Cages, Acts(c)
    PROVE  /\ Cardinality(Holders) \in Nat /\ Cardinality(Holders') \in Nat
           /\ Cardinality(Holders') + One(HasMasq(c)) = Cardinality(Holders) + One(HasMasq(c)')
           /\ HasMasq(c) => Cardinality(Holders) > 0
<1> DEFINE others == Holders \ {c}
           k == Cardinality(others)
<1>1. /\ IsFiniteSet(others) /\ k \in Nat
  BY IsolationNetAssumption, FS_Subset, FS_CardinalityType DEF Holders
<1>2. Holders' \ {c} = others
  BY DEF Holders, HasMasq, Acts
<1>3. c \notin others
  OBVIOUS
<1>4. Cardinality(others \cup {c}) = k + 1
  BY <1>1, <1>3, FS_AddElement
<1>5. Holders = IF HasMasq(c) THEN others \cup {c} ELSE others
  BY DEF Holders
<1>6. Holders' = IF HasMasq(c)' THEN others \cup {c} ELSE others
  BY <1>2 DEF Holders
<1> HIDE DEF others, k
<1>7. /\ Cardinality(Holders) = k + One(HasMasq(c))
      /\ Cardinality(Holders') = k + One(HasMasq(c)')
  BY <1>1, <1>4, <1>5, <1>6 DEF One, k
<1> QED
  BY <1>1, <1>7 DEF One

\* And how many have the DNAT rules of a port.
Forwarders(q) == {c \in Cages : HasDnat(c, q)}

LEMMA ForwardersChange ==
    ASSUME TypeOK, NEW c \in Cages, Acts(c), NEW q \in Ports
    PROVE  /\ Cardinality(Forwarders(q)) \in Nat /\ Cardinality(Forwarders(q)') \in Nat
           /\ Cardinality(Forwarders(q)') + One(HasDnat(c, q))
                 = Cardinality(Forwarders(q)) + One(HasDnat(c, q)')
           /\ HasDnat(c, q) => Cardinality(Forwarders(q)) > 0
<1> DEFINE others == Forwarders(q) \ {c}
           k == Cardinality(others)
<1>1. /\ IsFiniteSet(others) /\ k \in Nat
  BY IsolationNetAssumption, FS_Subset, FS_CardinalityType DEF Forwarders
<1>2. Forwarders(q)' \ {c} = others
  BY DEF Forwarders, HasDnat, Acts
<1>3. c \notin others
  OBVIOUS
<1>4. Cardinality(others \cup {c}) = k + 1
  BY <1>1, <1>3, FS_AddElement
<1>5. Forwarders(q) = IF HasDnat(c, q) THEN others \cup {c} ELSE others
  BY DEF Forwarders
<1>6. Forwarders(q)' = IF HasDnat(c, q)' THEN others \cup {c} ELSE others
  BY <1>2 DEF Forwarders
<1> HIDE DEF others, k
<1>7. /\ Cardinality(Forwarders(q)) = k + One(HasDnat(c, q))
      /\ Cardinality(Forwarders(q)') = k + One(HasDnat(c, q)')
  BY <1>1, <1>4, <1>5, <1>6 DEF One, k
<1> QED
  BY <1>1, <1>7 DEF One

\* The account is kept if what the acting cage has, and what it leaves, are.
LEMMA RulesMove ==
    ASSUME TypeOK, RulesAccounted, NEW c \in Cages, Acts(c),
           masq' \in Nat, dnat' \in [Ports -> Nat],
           left' \in [masq: Nat, dnat: [Ports -> Nat]],
           masq' + left.masq + One(HasMasq(c)) = masq + left'.masq + One(HasMasq(c)'),
           \A q \in Ports : dnat'[q] + left.dnat[q] + One(HasDnat(c, q))
                               = dnat[q] + left'.dnat[q] + One(HasDnat(c, q)')
    PROVE  RulesOK'
<1> DEFINE k == Cardinality(Holders)
           m == Cardinality(Holders')
<1>0. /\ masq \in Nat /\ left.masq \in Nat /\ left'.masq \in Nat
      /\ One(HasMasq(c)) \in Nat /\ One(HasMasq(c)') \in Nat
  BY DEF TypeOK, One
<1>1. k \in Nat /\ m \in Nat /\ m + One(HasMasq(c)) = k + One(HasMasq(c)')
  BY HoldersChange
<1>2. masq = k + left.masq
  BY DEF RulesAccounted, Holders
<1> HIDE DEF k, m
<1>3. masq' = m + left'.masq
  BY <1>0, <1>1, <1>2
<1>4. ASSUME NEW q \in Ports
      PROVE  dnat'[q] = Cardinality(Forwarders(q)') + left'.dnat[q]
  <2> DEFINE n == Cardinality(Forwarders(q))
             o == Cardinality(Forwarders(q)')
  <2>1. /\ dnat[q] \in Nat /\ dnat'[q] \in Nat
        /\ left.dnat[q] \in Nat /\ left'.dnat[q] \in Nat
        /\ One(HasDnat(c, q)) \in Nat /\ One(HasDnat(c, q)') \in Nat
    BY DEF TypeOK, One
  <2>2. n \in Nat /\ o \in Nat /\ o + One(HasDnat(c, q)) = n + One(HasDnat(c, q)')
    BY ForwardersChange
  <2>3. dnat[q] = n + left.dnat[q]
    BY DEF RulesAccounted, Forwarders
  <2> HIDE DEF n, o
  <2>4. dnat'[q] = o + left'.dnat[q]
    BY <2>1, <2>2, <2>3
  <2> QED
    BY <2>4 DEF o
<1>5. RulesAccounted'
  BY <1>3, <1>4 DEF RulesAccounted, Holders, Forwarders, m
<1> QED
  BY <1>5 DEF RulesOK

LEMMA RulesStay ==
    ASSUME TypeOK, RulesAccounted, NEW c \in Cages, Acts(c), UNCHANGED <<rules, left>>,
           HasMasq(c)' <=> HasMasq(c), \A q \in Ports : HasDnat(c, q)' <=> HasDnat(c, q)
    PROVE  RulesOK'
<1>1. /\ One(HasMasq(c)') = One(HasMasq(c))
      /\ \A q \in Ports : One(HasDnat(c, q)') = One(HasDnat(c, q))
  BY DEF One
<1> QED
  BY <1>1, RulesMove DEF TypeOK, rules

\* What a cage leaves behind is added to what is left.
LEMMA RulesLeft ==
    ASSUME TypeOK, RulesAccounted, NEW c \in Cages, Acts(c), UNCHANGED rules, Leaves(c),
           cage'[c].pc \in {"off", "ns"}
    PROVE  RulesOK'
<1> DEFINE a == One(HasMasq(c))
           b == [q \in Ports |-> One(HasDnat(c, q))]
<1>1. /\ One(HasMasq(c)') = 0 /\ a \in Nat
      /\ \A q \in Ports : One(HasDnat(c, q)') = 0 /\ b[q] \in Nat
      /\ \A q \in Ports : b[q] = One(HasDnat(c, q))
  BY DEF HasMasq, HasDnat, One
<1>2. /\ left \in [masq: Nat, dnat: [Ports -> Nat]] /\ masq' = masq /\ dnat' = dnat
      /\ masq \in Nat /\ dnat \in [Ports -> Nat]
  BY DEF TypeOK, rules
<1>3. left' = [masq |-> left.masq + a, dnat |-> [q \in Ports |-> left.dnat[q] + b[q]]]
  BY DEF Leaves
<1> HIDE DEF a, b
<1>4. /\ left' \in [masq: Nat, dnat: [Ports -> Nat]]
      /\ left'.masq = left.masq + a
      /\ \A q \in Ports : left'.dnat[q] = left.dnat[q] + b[q]
  BY <1>1, <1>2, <1>3
<1>5. /\ masq + left.masq + a = masq + left'.masq + 0
      /\ \A q \in Ports : dnat[q] + left.dnat[q] + b[q] = dnat[q] + left'.dnat[q] + 0
  BY <1>1, <1>2, <1>4
<1>6. masq' + left.masq + One(HasMasq(c)) = masq + left'.masq + One(HasMasq(c)')
  BY <1>1, <1>2, <1>5 DEF a
<1>7. \A q \in Ports : dnat'[q] + left.dnat[q] + One(HasDnat(c, q))
                          = dnat[q] + left'.dnat[q] + One(HasDnat(c, q)')
  BY <1>1, <1>2, <1>5
<1> QED
  BY <1>2, <1>4, <1>6, <1>7, RulesMove

LEMMA MasqAdded ==
    ASSUME TypeOK, RulesAccounted, NEW c \in Cages, Acts(c),
           At(c, "nat"), cage'[c].pc = "route", masq' = masq + 1, UNCHANGED <<dnat, left>>
    PROVE  RulesOK'
<1>1. /\ One(HasMasq(c)) = 0 /\ One(HasMasq(c)') = 1
      /\ \A q \in Ports : One(HasDnat(c, q)) = 0 /\ One(HasDnat(c, q)') = 0
  BY DEF At, HasMasq, HasDnat, One
<1>2. masq \in Nat /\ left.masq \in Nat
  BY DEF TypeOK
<1>3. masq' + left.masq + 0 = masq + left'.masq + 1 /\ masq' \in Nat
  BY <1>2
<1> QED
  BY <1>1, <1>3, RulesMove DEF TypeOK

\* One that is taken back is there to be taken.
LEMMA MasqTaken ==
    ASSUME TypeOK, RulesAccounted, NEW c \in Cages, Acts(c), CleanupNAT,
           cage[c].pc \in {"route", "passt", "forward"}, cage'[c].pc = "bootplain",
           UNCHANGED <<dnat, left>>
    PROVE  RulesOK'
<1>1. /\ HasMasq(c) /\ One(HasMasq(c)) = 1 /\ One(HasMasq(c)') = 0
      /\ \A q \in Ports : One(HasDnat(c, q)) = 0 /\ One(HasDnat(c, q)') = 0
  BY DEF At, HasMasq, HasDnat, One
<1>2. masq \in Nat /\ left.masq \in Nat
  BY DEF TypeOK
<1>3. masq = Cardinality(Holders) + left.masq
  BY DEF RulesAccounted, Holders
<1>4. masq > 0
  BY <1>1, <1>2, <1>3, HoldersChange
<1>5. masq' \in Nat /\ masq' = masq - 1
  BY <1>2, <1>4 DEF CleanupNAT, Less
<1>6. masq' + left.masq + 1 = masq + left'.masq + 0
  BY <1>2, <1>5
<1> QED
  BY <1>1, <1>5, <1>6, RulesMove DEF TypeOK

LEMMA DnatAdded ==
    ASSUME TypeOK, RulesAccounted, NEW c \in Cages, Acts(c),
           At(c, "forward"), cage'[c].pc = "boot",
           dnat' = [q \in Ports |-> dnat[q] + One(PortOf[c] = q)], UNCHANGED <<masq, left>>
    PROVE  RulesOK'
<1>1. /\ One(HasMasq(c)) = 1 /\ One(HasMasq(c)') = 1
      /\ \A q \in Ports : /\ One(HasDnat(c, q)) = 0
                           /\ One(HasDnat(c, q)') = One(PortOf[c] = q)
                           /\ One(PortOf[c] = q) \in Nat
  BY DEF At, HasMasq, HasDnat, One
<1>2. /\ masq \in Nat /\ left.masq \in Nat /\ dnat \in [Ports -> Nat]
      /\ \A q \in Ports : dnat[q] \in Nat /\ left.dnat[q] \in Nat
  BY DEF TypeOK
<1>3. dnat' \in [Ports -> Nat] /\ \A q \in Ports : dnat'[q] = dnat[q] + One(PortOf[c] = q)
  BY <1>1, <1>2
<1>4. \A q \in Ports : dnat'[q] + left.dnat[q] + 0
                          = dnat[q] + left'.dnat[q] + One(PortOf[c] = q)
  BY <1>1, <1>2, <1>3
<1>5. \A q \in Ports : dnat'[q] + left.dnat[q] + One(HasDnat(c, q))
                          = dnat[q] + left'.dnat[q] + One(HasDnat(c, q)')
  BY <1>1, <1>4
<1>6. /\ masq' \in Nat /\ left' \in [masq: Nat, dnat: [Ports -> Nat]]
      /\ masq' + left.masq + One(HasMasq(c)) = masq + left'.masq + One(HasMasq(c)')
  BY <1>1 DEF TypeOK
<1> QED
  BY <1>3, <1>5, <1>6, RulesMove

LEMMA RulesTaken ==
    ASSUME TypeOK, RulesAccounted, NEW c \in Cages, Acts(c), CleanupNAT,
           At(c, "boot"), cage'[c].pc = "off",
           dnat' = [q \in Ports |-> IF PortOf[c] = q THEN Less(dnat[q]) ELSE dnat[q]],
           UNCHANGED left
    PROVE  RulesOK'
<1>1. /\ HasMasq(c) /\ One(HasMasq(c)) = 1 /\ One(HasMasq(c)') = 0
  BY DEF At, HasMasq, One
<1>2. /\ masq \in Nat /\ left.masq \in Nat /\ dnat \in [Ports -> Nat]
      /\ \A q \in Ports : dnat[q] \in Nat /\ left.dnat[q] \in Nat
  BY DEF TypeOK
<1>3. masq = Cardinality(Holders) + left.masq
  BY DEF RulesAccounted, Holders
<1>4. masq > 0
  BY <1>1, <1>2, <1>3, HoldersChange
<1>5. masq' \in Nat /\ masq' = masq - 1
  BY <1>2, <1>4 DEF CleanupNAT, Less
<1>6. masq' + left.masq + 1 = masq + left'.masq + 0
  BY <1>2, <1>5
<1>7. ASSUME NEW q \in Ports
      PROVE  dnat'[q] \in Nat /\ dnat'[q] + One(PortOf[c] = q) = dnat[q]
  <2>1. CASE PortOf[c] = q
    <3>0. HasDnat(c, q)
      BY <2>1 DEF At, HasDnat
    <3>1. Cardinality(Forwarders(q)) \in Nat /\ Cardinality(Forwarders(q)) > 0
      BY <3>0, ForwardersChange
    <3>2. dnat[q] = Cardinality(Forwarders(q)) + left.dnat[q]
      BY DEF RulesAccounted, Forwarders
    <3>3. dnat[q] \in Nat /\ dnat[q] > 0
      BY <1>2, <3>1, <3>2
    <3>4. dnat'[q] = dnat[q] - 1 /\ One(PortOf[c] = q) = 1
      BY <2>1, <3>3 DEF Less, One
    <3> QED
      BY <3>3, <3>4
  <2>2. CASE PortOf[c] # q
    BY <1>2, <2>2 DEF One
  <2> QED
    BY <2>1, <2>2
<1>8. dnat' \in [Ports -> Nat]
  BY <1>7
<1>9. \A q \in Ports : dnat'[q] + left.dnat[q] + One(HasDnat(c, q))
                          = dnat[q] + left'.dnat[q] + One(HasDnat(c, q)')
  <2> TAKE q \in Ports
  <2>1. One(PortOf[c] = q) \in Nat
    BY DEF One
  <2>2. /\ dnat[q] \in Nat /\ dnat'[q] \in Nat /\ left.dnat[q] \in Nat
        /\ dnat'[q] + One(PortOf[c] = q) = dnat[q] /\ left'.dnat[q] = left.dnat[q]
    BY <1>2, <1>7
  <2>3. dnat'[q] + left.dnat[q] + One(PortOf[c] = q) = dnat[q] + left'.dnat[q] + 0
    BY <2>1, <2>2
  <2>4. One(HasDnat(c, q)) = One(PortOf[c] = q) /\ One(HasDnat(c, q)') = 0
    BY DEF At, HasDnat, One
  <2> QED
    BY <2>3, <2>4
<1>10. /\ left' \in [masq: Nat, dnat: [Ports -> Nat]]
       /\ masq' + left.masq + One(HasMasq(c)) = masq + left'.masq + One(HasMasq(c)')
  BY <1>1, <1>6 DEF TypeOK
<1> QED
  BY <1>5, <1>8, <1>9, <1>10, RulesMove

-----------------------------------------------------------------------------
\* What the parts say together.
LEMMA IsoParts ==
    ASSUME TypeOK, NEW c \in Cages, Acts(c), VethsOK', RulesOK', NetInv',
           more' \in {more, more - 1}, more' \in Nat, orphans' \subseteq Cages
    PROVE  IsoInv'
<1>1. more' \in 0 .. MaxStarts
  BY IsolationNetAssumption DEF TypeOK
<1> QED
  BY <1>1 DEF TypeOK, VethsOK, RulesOK, Acts, IsoInv

\* A step that advances: the veths stay, the rules are as the lemma before says.
LEMMA IsoMoves ==
    ASSUME TypeOK, NEW c \in Cages, Acts(c), VethsOK', RulesOK', NetInv',
           UNCHANGED <<more, orphans>>
    PROVE  IsoInv'
<1>1. more \in Nat /\ orphans \subseteq Cages
  BY IsolationNetAssumption DEF TypeOK
<1> QED
  BY <1>1, IsoParts

\* A setup that is taken back, of which the rules are accounted for.
LEMMA BackKeeps ==
    ASSUME TypeOK, NetInv, NEW c \in Cages,
           NEW r \in {cage[c], Killed(cage[c], cage[c].mine)}, TakeBack(c, r),
           RulesOK', UNCHANGED <<more, orphans>>
    PROVE  IsoInv'
<1>1. /\ Acts(c) /\ DeleteVeth(VethOf[c])
      /\ cage'[c].pc = "bootplain" /\ ~cage'[c].ns /\ cage'[c].passt = {}
      /\ cage'[c].rec = cage[c].rec
  BY TakenBack
<1>2. NetInv'
  BY <1>1, GivingUpKeeps
<1> QED
  BY <1>1, <1>2, VethDeleted, IsoMoves

\* A setup taken back before it had any rule.
LEMMA BackEarly ==
    ASSUME TypeOK, RulesAccounted, NetInv, NEW c \in Cages, TakeBack(c, cage[c]),
           cage[c].pc \in {"veth", "addr", "nat"}, UNCHANGED <<rules, history>>
    PROVE  IsoInv'
<1>1. Acts(c) /\ cage'[c].pc = "bootplain"
  BY TakenBack
<1>2. UNCHANGED <<more, left, orphans>>
  BY DEF history
<1>3. RulesOK'
  BY <1>1, <1>2, RulesStay DEF HasMasq, HasDnat
<1> QED
  BY <1>2, <1>3, BackKeeps

\* One taken back with its MASQUERADE rule.
LEMMA BackLate ==
    ASSUME TypeOK, RulesAccounted, NetInv, NEW c \in Cages,
           NEW r \in {cage[c], Killed(cage[c], cage[c].mine)}, TakeBack(c, r),
           cage[c].pc \in {"route", "passt", "forward"}, CleanupNAT,
           UNCHANGED <<dnat, history>>
    PROVE  IsoInv'
<1>1. Acts(c) /\ cage'[c].pc = "bootplain"
  BY TakenBack
<1>2. UNCHANGED <<more, left, orphans>>
  BY DEF history
<1>3. RulesOK'
  BY <1>1, <1>2, MasqTaken
<1> QED
  BY <1>2, <1>3, BackKeeps

LEMMA BeginIso ==
    ASSUME IsoInv, NEW c \in Cages, Begin(c) PROVE IsoInv'
<1>0. TypeOK /\ RulesAccounted /\ NetInv /\ cage[c] \in CageNet /\ "ns" \in Steps
  BY DEF IsoInv, TypeOK, Steps, Setup
<1>1. Acts(c) /\ cage'[c].pc = "ns"
  BY <1>0, Started DEF Begin
<1>2. /\ Leaves(c) /\ UNCHANGED rules /\ UNCHANGED <<veth, routes>>
      /\ more > 0 /\ more' = more - 1 /\ orphans' \subseteq orphans \cup {c}
  BY DEF Begin
<1>3. more' \in Nat /\ orphans' \subseteq Cages
  BY <1>0, <1>2, IsolationNetAssumption DEF TypeOK
<1> QED
  BY <1>0, <1>1, <1>2, <1>3, BeginKeeps, RulesLeft, VethsStay, IsoParts

LEMMA CreateNamespaceIso ==
    ASSUME IsoInv, NEW c \in Cages, CreateNamespace(c) PROVE IsoInv'
<1>0. TypeOK /\ RulesAccounted /\ NetInv /\ cage[c] \in CageNet
  BY DEF IsoInv, TypeOK
<1>1. At(c, "ns") /\ UNCHANGED <<veth, routes, rules, more, left, orphans>>
  BY DEF CreateNamespace, history
<1>2. CASE Become(c, [cage[c] EXCEPT !.pc = "veth", !.ns = TRUE])
  <2> DEFINE n == [cage[c] EXCEPT !.pc = "veth", !.ns = TRUE]
  <2>1. "veth" \in Steps
    BY DEF Steps, Setup
  <2>2. /\ n \in CageNet
        /\ n.pc = "veth" /\ n.ns /\ n.passt = cage[c].passt
        /\ n.mine = cage[c].mine /\ n.rec = cage[c].rec
    BY <1>0, <2>1 DEF CageNet
  <2>3. Become(c, n)
    BY <1>2
  <2> HIDE DEF n
  <2>4. /\ Acts(c)
        /\ cage'[c].pc = "veth" /\ cage'[c].ns /\ cage'[c].passt = cage[c].passt
        /\ cage'[c].mine = cage[c].mine /\ cage'[c].rec = cage[c].rec
    BY <1>0, <2>2, <2>3, Became
  <2>5. NetInv'
    BY <1>0, <1>1, <2>4, AdvanceKeeps
  <2>6. RulesOK'
    BY <1>0, <1>1, <2>4, RulesStay DEF HasMasq, HasDnat, At
  <2> QED
    BY <1>0, <1>1, <2>4, <2>5, <2>6, VethsStay, IsoMoves
<1>3. CASE Goto(c, "bootplain")
  <2>1. "bootplain" \in Steps
    BY DEF Steps
  <2>2. /\ Acts(c)
        /\ cage'[c].pc = "bootplain" /\ cage'[c].ns = cage[c].ns
        /\ cage'[c].passt = cage[c].passt
        /\ cage'[c].mine = cage[c].mine /\ cage'[c].rec = cage[c].rec
    BY <1>0, <1>3, <2>1, Gone
  <2>3. NetInv'
    BY <1>0, <1>1, <2>2, AdvanceKeeps
  <2>4. RulesOK'
    BY <1>0, <1>1, <2>2, RulesStay DEF HasMasq, HasDnat, At
  <2> QED
    BY <1>0, <1>1, <2>2, <2>3, <2>4, VethsStay, IsoMoves
<1> QED
  BY <1>2, <1>3 DEF CreateNamespace

LEMMA CreateVethIso ==
    ASSUME IsoInv, NEW c \in Cages, CreateVeth(c) PROVE IsoInv'
<1>0. TypeOK /\ RulesAccounted /\ NetInv /\ "addr" \in Steps
  BY DEF IsoInv, Steps, Setup
<1>1. At(c, "veth") /\ UNCHANGED rules /\ UNCHANGED history /\ UNCHANGED <<more, left, orphans>>
  BY DEF CreateVeth, history
<1>2. CASE /\ veth' = [veth EXCEPT ![VethOf[c]] = c]
           /\ routes' = Unrouted(VethOf[c])
           /\ Goto(c, "addr")
  <2>1. Acts(c) /\ cage'[c].pc = "addr"
    BY <1>0, <1>2, Gone
  <2>2. RulesOK'
    BY <1>0, <1>1, <2>1, RulesStay DEF HasMasq, HasDnat, At
  <2> QED
    BY <1>0, <1>1, <1>2, <2>1, <2>2, CreateVethKeeps, VethCreated, IsoMoves
<1>3. CASE TakeBack(c, cage[c])
  BY <1>0, <1>1, <1>3, BackEarly DEF At
<1> QED
  BY <1>2, <1>3 DEF CreateVeth

LEMMA ConfigureVethIso ==
    ASSUME IsoInv, NEW c \in Cages, ConfigureVeth(c) PROVE IsoInv'
<1>0. TypeOK /\ RulesAccounted /\ NetInv /\ NotRoutedYet /\ "nat" \in Steps
  BY DEF IsoInv, NetInv, Steps, Setup
<1>1. At(c, "addr") /\ UNCHANGED rules /\ UNCHANGED history /\ UNCHANGED <<more, left, orphans>>
  BY DEF ConfigureVeth, history
<1>2. CASE /\ veth[VethOf[c]] = c
           /\ routes' = Append(routes, VethOf[c])
           /\ Goto(c, "nat")
           /\ UNCHANGED veth
  <2>1. Acts(c) /\ cage'[c].pc = "nat"
    BY <1>0, <1>2, Gone
  <2>2. RulesOK'
    BY <1>0, <1>1, <2>1, RulesStay DEF HasMasq, HasDnat, At
  <2> QED
    BY <1>0, <1>1, <1>2, <2>1, <2>2, ConfigureKeeps, VethConfigured, IsoMoves
<1>3. CASE TakeBack(c, cage[c])
  BY <1>0, <1>1, <1>3, BackEarly DEF At
<1> QED
  BY <1>2, <1>3 DEF ConfigureVeth

LEMMA SetupNATIso ==
    ASSUME IsoInv, NEW c \in Cages, SetupNAT(c) PROVE IsoInv'
<1>0. TypeOK /\ RulesAccounted /\ NetInv /\ "route" \in Steps
  BY DEF IsoInv, Steps, Setup
<1>1. At(c, "nat") /\ UNCHANGED dnat /\ UNCHANGED history /\ UNCHANGED <<more, left, orphans>>
  BY DEF SetupNAT, history
<1>2. CASE masq' = masq + 1 /\ Goto(c, "route") /\ UNCHANGED <<veth, routes>>
  <2>1. /\ Acts(c)
        /\ cage'[c].pc = "route" /\ cage'[c].ns = cage[c].ns
        /\ cage'[c].passt = cage[c].passt
        /\ cage'[c].mine = cage[c].mine /\ cage'[c].rec = cage[c].rec
    BY <1>0, <1>2, Gone
  <2>2. NetInv'
    BY <1>0, <1>1, <1>2, <2>1, AdvanceKeeps
  <2>3. RulesOK'
    BY <1>0, <1>1, <1>2, <2>1, MasqAdded
  <2> QED
    BY <1>0, <1>1, <1>2, <2>1, <2>2, <2>3, VethsStay, IsoMoves
<1>3. CASE TakeBack(c, cage[c]) /\ UNCHANGED masq
  BY <1>0, <1>1, <1>3, BackEarly DEF At, rules
<1> QED
  BY <1>2, <1>3 DEF SetupNAT

LEMMA AddRoutesIso ==
    ASSUME IsoInv, NEW c \in Cages, AddRoutes(c) PROVE IsoInv'
<1>0. TypeOK /\ RulesAccounted /\ NetInv /\ "passt" \in Steps
  BY DEF IsoInv, Steps, Setup
<1>1. At(c, "route") /\ UNCHANGED <<dnat, history>> /\ UNCHANGED <<more, left, orphans>>
  BY DEF AddRoutes, history
<1>2. CASE Goto(c, "passt") /\ UNCHANGED <<veth, routes, masq>>
  <2>1. /\ Acts(c)
        /\ cage'[c].pc = "passt" /\ cage'[c].ns = cage[c].ns
        /\ cage'[c].passt = cage[c].passt
        /\ cage'[c].mine = cage[c].mine /\ cage'[c].rec = cage[c].rec
    BY <1>0, <1>2, Gone
  <2>2. NetInv'
    BY <1>0, <1>1, <1>2, <2>1, AdvanceKeeps
  <2>3. RulesOK'
    BY <1>0, <1>1, <1>2, <2>1, RulesStay DEF HasMasq, HasDnat, At, rules
  <2> QED
    BY <1>0, <1>1, <1>2, <2>1, <2>2, <2>3, VethsStay, IsoMoves
<1>3. CASE TakeBack(c, cage[c]) /\ CleanupNAT
  BY <1>0, <1>1, <1>3, BackLate DEF At
<1> QED
  BY <1>2, <1>3 DEF AddRoutes

LEMMA StartPasstIso ==
    ASSUME IsoInv, NEW c \in Cages, StartPasst(c) PROVE IsoInv'
<1>0. TypeOK /\ RulesAccounted /\ NetInv
  BY DEF IsoInv
<1>1. At(c, "passt") /\ UNCHANGED <<dnat, history>> /\ UNCHANGED <<more, left, orphans>>
  BY DEF StartPasst, history
<1>2. CASE /\ \E alive \in SUBSET {NewId(c)} :
                 Become(c, [cage[c] EXCEPT !.pc = "forward", !.mine = NewId(c),
                                           !.passt = @ \cup alive])
           /\ UNCHANGED <<veth, routes, masq>>
  <2>1. NetInv' /\ Acts(c) /\ cage'[c].pc = "forward"
    BY <1>0, <1>1, <1>2, PasstKeeps
  <2>2. RulesOK'
    BY <1>0, <1>1, <1>2, <2>1, RulesStay DEF HasMasq, HasDnat, At, rules
  <2> QED
    BY <1>0, <1>1, <1>2, <2>1, <2>2, VethsStay, IsoMoves
<1>3. CASE TakeBack(c, cage[c]) /\ CleanupNAT
  BY <1>0, <1>1, <1>3, BackLate DEF At
<1> QED
  BY <1>2, <1>3 DEF StartPasst

LEMMA ForwardSSHIso ==
    ASSUME IsoInv, NEW c \in Cages, ForwardSSH(c) PROVE IsoInv'
<1>0. TypeOK /\ RulesAccounted /\ NetInv /\ "boot" \in Steps
  BY DEF IsoInv, Steps
<1>1. At(c, "forward") /\ UNCHANGED history /\ UNCHANGED <<more, left, orphans>>
  BY DEF ForwardSSH, history
<1>2. CASE /\ dnat' = [q \in Ports |-> dnat[q] + One(PortOf[c] = q)]
           /\ Goto(c, "boot")
           /\ UNCHANGED <<veth, routes, masq>>
  <2>1. /\ Acts(c)
        /\ cage'[c].pc = "boot" /\ cage'[c].ns = cage[c].ns
        /\ cage'[c].passt = cage[c].passt
        /\ cage'[c].mine = cage[c].mine /\ cage'[c].rec = cage[c].rec
    BY <1>0, <1>2, Gone
  <2>2. NetInv'
    BY <1>0, <1>1, <1>2, <2>1, AdvanceKeeps
  <2>3. RulesOK'
    BY <1>0, <1>1, <1>2, <2>1, DnatAdded
  <2> QED
    BY <1>0, <1>1, <1>2, <2>1, <2>2, <2>3, VethsStay, IsoMoves
<1>3. CASE TakeBack(c, Killed(cage[c], cage[c].mine)) /\ CleanupNAT /\ UNCHANGED dnat
  BY <1>0, <1>1, <1>3, BackLate DEF At
<1> QED
  BY <1>2, <1>3 DEF ForwardSSH

\* A step that abandons the network leaves its rules behind.
LEMMA AbandonIso ==
    ASSUME IsoInv, NEW c \in Cages, NEW r \in CageNet, Abandon(c, r),
           r.pc = "off", r.passt = cage[c].passt, r.rec \in {cage[c].rec, 0}
    PROVE  IsoInv'
<1>0. TypeOK /\ RulesAccounted /\ NetInv
  BY DEF IsoInv
<1>1. Acts(c) /\ cage'[c] = r
  BY <1>0, Became DEF Abandon
<1>2. /\ Leaves(c) /\ UNCHANGED rules /\ UNCHANGED <<veth, routes, more>>
      /\ orphans' = orphans \cup {c}
  BY DEF Abandon
<1>3. more' \in Nat /\ orphans' \subseteq Cages /\ more' = more
  BY <1>0, <1>2, IsolationNetAssumption DEF TypeOK
<1>4. NetInv'
  BY <1>0, <1>1, <1>2, AbandonKeeps
<1> QED
  BY <1>0, <1>1, <1>2, <1>3, <1>4, RulesLeft, VethsStay, IsoParts

LEMMA BootIso ==
    ASSUME IsoInv, NEW c \in Cages, Boot(c) PROVE IsoInv'
<1>0. TypeOK /\ RulesAccounted /\ NetInv /\ cage[c] \in CageNet /\ "off" \in Steps
  BY DEF IsoInv, TypeOK, Steps
<1>1. At(c, "boot") /\ cage[c].mine \in cage[c].passt
  BY DEF Boot
<1>2. CASE /\ Become(c, [cage[c] EXCEPT !.pc = "running", !.rec = cage[c].mine])
           /\ UNCHANGED <<veth, routes, rules, history>>
  <2>1. UNCHANGED <<more, left, orphans>>
    BY <1>2 DEF history
  <2>2. NetInv' /\ Acts(c) /\ cage'[c].pc = "running"
    BY <1>0, <1>1, <1>2, <2>1, RunsKeeps
  <2>3. RulesOK'
    BY <1>0, <1>1, <1>2, <2>1, <2>2, RulesStay DEF HasMasq, HasDnat, At
  <2> QED
    BY <1>0, <1>2, <2>1, <2>2, <2>3, VethsStay, IsoMoves
<1>3. CASE Abandon(c, [cage[c] EXCEPT !.pc = "off", !.mine = 0])
  <2> DEFINE n == [cage[c] EXCEPT !.pc = "off", !.mine = 0]
  <2>1. /\ n \in CageNet
        /\ n.pc = "off" /\ n.passt = cage[c].passt /\ n.rec = cage[c].rec
    BY <1>0 DEF CageNet
  <2>2. Abandon(c, n)
    BY <1>3
  <2> HIDE DEF n
  <2> QED
    BY <2>1, <2>2, AbandonIso
<1> QED
  BY <1>2, <1>3 DEF Boot

LEMMA BootFailsIso ==
    ASSUME IsoInv, NEW c \in Cages, BootFails(c) PROVE IsoInv'
<1>0. TypeOK /\ RulesAccounted /\ NetInv /\ cage[c] \in CageNet /\ "off" \in Steps
  BY DEF IsoInv, TypeOK, Steps
<1> DEFINE n == [Unnamed(Killed(cage[c], cage[c].mine)) EXCEPT !.pc = "off", !.mine = 0]
<1>1. n \in CageNet /\ n.pc = "off" /\ ~n.ns /\ n.passt = {} /\ n.rec = cage[c].rec
  BY <1>0 DEF CageNet, Unnamed, Killed
<1>2. /\ At(c, "boot") /\ Become(c, n) /\ DeleteVeth(VethOf[c]) /\ CleanupNAT
      /\ dnat' = [q \in Ports |-> IF PortOf[c] = q THEN Less(dnat[q]) ELSE dnat[q]]
      /\ UNCHANGED <<more, left, orphans>>
  BY DEF BootFails, history
<1> HIDE DEF n
<1>3. /\ Acts(c) /\ cage'[c].pc = "off" /\ ~cage'[c].ns
      /\ cage'[c].passt = {} /\ cage'[c].rec = cage[c].rec
  BY <1>0, <1>1, <1>2, Became
<1>4. NetInv'
  BY <1>0, <1>2, <1>3, GivingUpKeeps
<1>5. RulesOK'
  BY <1>0, <1>2, <1>3, RulesTaken
<1> QED
  BY <1>0, <1>2, <1>3, <1>4, <1>5, VethDeleted, IsoMoves

LEMMA BootPlainIso ==
    ASSUME IsoInv, NEW c \in Cages, BootPlain(c) PROVE IsoInv'
<1>0. TypeOK /\ RulesAccounted /\ NetInv /\ {"off", "plain"} \subseteq Steps
  BY DEF IsoInv, Steps
<1>1. /\ At(c, "bootplain") /\ UNCHANGED <<veth, routes, rules, more, left, orphans>>
      /\ Goto(c, "plain") \/ Goto(c, "off")
  BY DEF BootPlain, history
<1>2. /\ Acts(c)
      /\ cage'[c].pc \in {"plain", "off"} /\ cage'[c].ns = cage[c].ns
      /\ cage'[c].passt = cage[c].passt
      /\ cage'[c].mine = cage[c].mine /\ cage'[c].rec = cage[c].rec
  BY <1>0, <1>1, Gone
<1>3. NetInv'
  BY <1>0, <1>1, <1>2, AdvanceKeeps
<1>4. RulesOK'
  BY <1>0, <1>1, <1>2, RulesStay DEF HasMasq, HasDnat, At
<1> QED
  BY <1>0, <1>1, <1>2, <1>3, <1>4, VethsStay, IsoMoves

LEMMA StopIso ==
    ASSUME IsoInv, NEW c \in Cages, Stop(c) PROVE IsoInv'
<1>0. TypeOK /\ RulesAccounted /\ NetInv
  BY DEF IsoInv
<1>1. NetInv' /\ Acts(c) /\ cage'[c].pc = "off"
  BY <1>0, StopKeeps
<1>2. /\ Leaves(c) /\ UNCHANGED rules /\ UNCHANGED <<more, orphans>>
      /\ UNCHANGED <<veth, routes>> \/ DeleteVeth(VethOf[c])
  BY DEF Stop
<1>3. VethsOK'
  BY <1>0, <1>2, VethsStay, VethDeleted
<1> QED
  BY <1>0, <1>1, <1>2, <1>3, RulesLeft, IsoMoves

LEMMA PowersOffIso ==
    ASSUME IsoInv, NEW c \in Cages, PowersOff(c) PROVE IsoInv'
<1>0. TypeOK /\ RulesAccounted /\ NetInv /\ "halted" \in Steps
  BY DEF IsoInv, Steps
<1>1. /\ At(c, "running") /\ UNCHANGED <<veth, routes, rules, more, left, orphans>>
      /\ Goto(c, "halted")
  BY DEF PowersOff, history
<1>2. /\ Acts(c)
      /\ cage'[c].pc = "halted" /\ cage'[c].ns = cage[c].ns
      /\ cage'[c].passt = cage[c].passt
      /\ cage'[c].mine = cage[c].mine /\ cage'[c].rec = cage[c].rec
  BY <1>0, <1>1, Gone
<1>3. NetInv'
  BY <1>0, <1>1, <1>2, AdvanceKeeps
<1>4. RulesOK'
  BY <1>0, <1>1, <1>2, RulesStay DEF HasMasq, HasDnat, At
<1> QED
  BY <1>0, <1>1, <1>2, <1>3, <1>4, VethsStay, IsoMoves

LEMMA RemoveForcedIso ==
    ASSUME IsoInv, NEW c \in Cages, RemoveForced(c) PROVE IsoInv'
<1>0. cage[c] \in CageNet /\ "off" \in Steps
  BY DEF IsoInv, TypeOK, Steps
<1> DEFINE n == [cage[c] EXCEPT !.pc = "off", !.mine = 0, !.rec = 0]
<1>1. n \in CageNet /\ n.pc = "off" /\ n.passt = cage[c].passt /\ n.rec = 0
  BY <1>0 DEF CageNet
<1>2. Abandon(c, n)
  BY DEF RemoveForced
<1> HIDE DEF n
<1> QED
  BY <1>1, <1>2, AbandonIso

LEMMA CrashIso ==
    ASSUME IsoInv, NEW c \in Cages, Crash(c) PROVE IsoInv'
<1>0. cage[c] \in CageNet /\ "off" \in Steps
  BY DEF IsoInv, TypeOK, Steps
<1> DEFINE n == [cage[c] EXCEPT !.pc = "off", !.mine = 0]
<1>1. n \in CageNet /\ n.pc = "off" /\ n.passt = cage[c].passt /\ n.rec = cage[c].rec
  BY <1>0 DEF CageNet
<1>2. Abandon(c, n)
  BY DEF Crash
<1> HIDE DEF n
<1> QED
  BY <1>1, <1>2, AbandonIso

-----------------------------------------------------------------------------
LEMMA IsoInit == Init => IsoInv
<1> SUFFICES ASSUME Init PROVE IsoInv
  OBVIOUS
<1>0. /\ Nobody \notin Cages /\ MaxStarts \in Nat /\ VethOf \in [Cages -> Names]
      /\ NoNet \in CageNet /\ NoNet.pc = "off" /\ NoNet.passt = {} /\ NoNet.rec = 0
      /\ ~NoNet.ns
  BY IsolationNetAssumption DEF NoNet, CageNet, Steps
<1>1. \A c \in Cages : cage[c] = NoNet
  BY DEF Init
<1>2. TypeOK
  BY <1>0 DEF Init, TypeOK
<1>3. RulesAccounted
  <2>1. Holders = {}
    BY <1>0, <1>1 DEF Holders, HasMasq
  <2>2. \A q \in Ports : Forwarders(q) = {}
    BY <1>0, <1>1 DEF Forwarders, HasDnat
  <2>3. Cardinality(Holders) = 0 /\ \A q \in Ports : Cardinality(Forwarders(q)) = 0
    BY <2>1, <2>2, FS_EmptySet
  <2>4. masq = Cardinality(Holders) + left.masq
    BY <2>3 DEF Init
  <2> QED
    BY <2>3, <2>4 DEF Init, RulesAccounted, Holders, Forwarders
<1>4. VethsOwned /\ NotRoutedYet
  BY <1>0, <1>1 DEF Init, VethsOwned, NotRoutedYet, At
<1>5. IdsLeft
  <2>1. \A c \in Cages : Taken(cage[c]) = {} /\ One(cage[c].pc \in BeforePasst) = 0
    BY <1>0, <1>1 DEF Taken, One, BeforePasst
  <2>2. Cardinality({}) = 0 /\ more = MaxStarts
    BY FS_EmptySet DEF Init
  <2>3. 0 + 0 <= MaxStarts - MaxStarts
    BY <1>0
  <2> QED
    BY <2>1, <2>2, <2>3 DEF IdsLeft
<1>6. \A c \in Cages : Standing(c)
  BY <1>0, <1>1 DEF Standing, At, WithVeth
<1>7. \A c \in Cages : Clean(c)
  BY <1>0, <1>1 DEF Init, Clean
<1> QED
  BY <1>2, <1>3, <1>4, <1>5, <1>6, <1>7 DEF NetInv, IsoInv

LEMMA IsoStays == IsoInv /\ [Next]_vars => IsoInv'
<1> SUFFICES ASSUME IsoInv, [Next]_vars PROVE IsoInv'
  OBVIOUS
<1>1. CASE UNCHANGED vars
  BY <1>1 DEF vars, IsoInv, TypeOK, RulesAccounted, HasMasq, HasDnat, NetInv, VethsOwned,
              NotRoutedYet, IdsLeft, Standing, Clean, At
<1>2. CASE Next
  <2>1. PICK c \in Cages :
           \/ Begin(c)
           \/ CreateNamespace(c) \/ CreateVeth(c) \/ ConfigureVeth(c) \/ SetupNAT(c)
           \/ AddRoutes(c) \/ StartPasst(c) \/ ForwardSSH(c)
           \/ Boot(c) \/ BootFails(c) \/ BootPlain(c)
           \/ Stop(c) \/ PowersOff(c) \/ RemoveForced(c) \/ Crash(c)
    BY <1>2 DEF Next
  <2>2. CASE Begin(c) \/ CreateNamespace(c) \/ CreateVeth(c) \/ ConfigureVeth(c)
    BY <2>2, BeginIso, CreateNamespaceIso, CreateVethIso, ConfigureVethIso
  <2>3. CASE SetupNAT(c) \/ AddRoutes(c) \/ StartPasst(c) \/ ForwardSSH(c)
    BY <2>3, SetupNATIso, AddRoutesIso, StartPasstIso, ForwardSSHIso
  <2>4. CASE Boot(c) \/ BootFails(c) \/ BootPlain(c) \/ Stop(c)
    BY <2>4, BootIso, BootFailsIso, BootPlainIso, StopIso
  <2>5. CASE PowersOff(c) \/ RemoveForced(c) \/ Crash(c)
    BY <2>5, PowersOffIso, RemoveForcedIso, CrashIso
  <2> QED
    BY <2>1, <2>2, <2>3, <2>4, <2>5
<1> QED
  BY <1>1, <1>2

LEMMA IsoInvariance == Spec => []IsoInv
BY IsoInit, IsoStays, PTL DEF Spec

(***************************************************************************)
(* The network is always of its type: above all a veth is routed to once   *)
(* at most, and never after it was deleted (createVethPair, configureVeth  *)
(* and every ip link delete keep the two in step).                         *)
(***************************************************************************)
THEOREM TypeCorrect == Spec => []TypeOK
BY IsoInvariance, PTL DEF IsoInv

(***************************************************************************)
(* setupNAT, setupSSHForward and what takes their rules back never remove  *)
(* a rule of another cage, though two may have been given one port, and    *)
(* none is left but by a stop, a power-off, a killed start or a forced     *)
(* removal.                                                                *)
(***************************************************************************)
THEOREM RulesInAccount == Spec => []RulesAccounted
BY IsoInvariance, PTL DEF IsoInv

(***************************************************************************)
(* An isolated cage that runs keeps its namespace, its recorded passt, its *)
(* rules and its veth, whatever the starts and stops of other cages do.    *)
(***************************************************************************)
THEOREM RunningNetworkStands == Spec => []NetworkStands
<1>1. IsoInv => NetworkStands
  <2> SUFFICES ASSUME IsoInv, NEW c \in Cages, At(c, "running")
               PROVE  /\ cage[c].ns /\ cage[c].rec \in cage[c].passt
                      /\ masq > 0 /\ (PortOf[c] # NoPort => dnat[PortOf[c]] > 0)
                      /\ (\A d \in Cages \ {c} : VethOf[d] # VethOf[c]) => veth[VethOf[c]] = c
    BY DEF NetworkStands
  <2>0. TypeOK /\ RulesAccounted /\ Standing(c)
    BY DEF IsoInv, NetInv
  <2>1. /\ cage[c].ns /\ cage[c].rec \in cage[c].passt
        /\ (\A d \in Cages \ {c} : VethOf[d] # VethOf[c]) => veth[VethOf[c]] = c
    BY <2>0 DEF Standing, At, WithVeth
  <2>2. HasMasq(c)
    BY DEF At, HasMasq
  <2>3. IsFiniteSet(Holders) /\ c \in Holders
    BY <2>2, IsolationNetAssumption, FS_Subset DEF Holders
  <2>4. Cardinality(Holders) \in Nat /\ Cardinality(Holders) # 0
    BY <2>3, FS_CardinalityType, FS_EmptySet
  <2>5. masq = Cardinality(Holders) + left.masq /\ left.masq \in Nat
    BY <2>0 DEF RulesAccounted, Holders, TypeOK
  <2>6. ASSUME PortOf[c] # NoPort PROVE dnat[PortOf[c]] > 0
    <3> DEFINE q == PortOf[c]
    <3>1. q \in Ports
      BY <2>6, IsolationNetAssumption
    <3>2. IsFiniteSet(Forwarders(q)) /\ c \in Forwarders(q)
      BY IsolationNetAssumption, FS_Subset DEF Forwarders, HasDnat, At
    <3>3. Cardinality(Forwarders(q)) \in Nat /\ Cardinality(Forwarders(q)) # 0
      BY <3>2, FS_CardinalityType, FS_EmptySet
    <3>4. dnat[q] = Cardinality(Forwarders(q)) + left.dnat[q] /\ left.dnat[q] \in Nat
      BY <2>0, <3>1 DEF RulesAccounted, Forwarders, TypeOK
    <3> QED
      BY <3>3, <3>4
  <2>7. masq > 0 /\ (PortOf[c] # NoPort => dnat[PortOf[c]] > 0)
    BY <2>4, <2>5, <2>6
  <2> QED
    BY <2>1, <2>7
<1> QED
  BY <1>1, IsoInvariance, PTL

(***************************************************************************)
(* What startCage takes back when a setup fails, and what stopCage cleans  *)
(* up, is all a cage has had: nothing of it is left, unless abandoned.     *)
(***************************************************************************)
THEOREM StoppedLeavesNothing == Spec => []NothingLeft
<1>1. IsoInv => NothingLeft
  BY DEF IsoInv, NetInv, Clean, NothingLeft, BeforePasst
<1> QED
  BY <1>1, IsoInvariance, PTL

=============================================================================
