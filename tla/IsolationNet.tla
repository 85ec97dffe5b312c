------------------------------ MODULE IsolationNet ------------------------------
(***************************************************************************)
(* The host network under the isolated cages of root mode: a namespace, a  *)
(* veth pair and a passt for each, and iptables rules and one /30 network  *)
(* that all of them share.  Several cages are started and stopped at once; *)
(* the commands on one cage follow each other (module CageLifecycle has    *)
(* what they do besides).  A step of a setup is one command to the host.   *)
(***************************************************************************)
EXTENDS Naturals, Sequences, FiniteSets

CONSTANTS
    Cages,
    Names, VethOf,  \* names of veth pairs, and the one of each cage
    Ports, PortOf,  \* host ports, and the one each cage's ssh is forwarded from
    NoPort,         \* ssh: 0, no forwarding
    Faults,         \* what may go wrong
    MaxStarts,      \* bound: how many starts there are
    Nobody

NetworkFaults ==
    {"host",        \* a command to the host fails
     "passt",       \* passt ends at once
     "libvirt",     \* the domain cannot be redefined or started
     "poweroff",    \* the guest powers off by itself
     "unsaved",     \* state.json cannot be written
     "force",       \* remove --force of a cage that runs
     "crash"}       \* a start is killed between two steps

ASSUME IsolationNetAssumption ==
    /\ IsFiniteSet(Cages)
    /\ VethOf \in [Cages -> Names]
    /\ PortOf \in [Cages -> Ports \cup {NoPort}]
    /\ NoPort \notin Ports
    /\ Faults \subseteq NetworkFaults
    /\ MaxStarts \in Nat
    /\ Nobody \notin Cages

VARIABLES
    cage,       \* per cage: the step of its start, its namespace and passt
    veth,       \* per name: the cage whose namespace the other end is in
    routes,     \* the veths with an address in 192.168.250.0/30, oldest first
    masq,       \* how many times the MASQUERADE rule for 192.168.250.2 is there
    dnat,       \* how many times the DNAT rules of each ssh port are
    more,       \* starts that may still come
    left,       \* history: how many of these rules were left behind
    orphans     \* history: the cages whose network was abandoned

vars == <<cage, veth, routes, masq, dnat, more, left, orphans>>
rules == <<masq, dnat>>
history == <<more, left, orphans>>

Ids == 1 .. MaxStarts
Setup == {"ns", "veth", "addr", "nat", "route", "passt", "forward"}
Steps == Setup \cup {"off", "boot", "bootplain", "running", "plain", "halted"}

CageNet ==
    [pc: Steps,
     ns: BOOLEAN,           \* ip netns knows it
     passt: SUBSET Ids,     \* alive in it
     mine: Ids \cup {0},    \* the passt of this start
     rec: Ids \cup {0}]     \* the one in state.json, 0 for no isolation
NoNet == [pc |-> "off", ns |-> FALSE, passt |-> {}, mine |-> 0, rec |-> 0]

TypeOK ==
    /\ cage \in [Cages -> CageNet]
    /\ veth \in [Names -> Cages \cup {Nobody}]
    /\ routes \in Seq(Names)
    /\ \A i, j \in DOMAIN routes : routes[i] = routes[j] => i = j
    /\ \A i \in DOMAIN routes : veth[routes[i]] # Nobody
    /\ masq \in Nat /\ dnat \in [Ports -> Nat]
    /\ more \in 0 .. MaxStarts
    /\ left \in [masq: Nat, dnat: [Ports -> Nat]]
    /\ orphans \subseteq Cages

Init ==
    /\ cage = [c \in Cages |-> NoNet]
    /\ veth = [v \in Names |-> Nobody]
    /\ routes = <<>>
    /\ masq = 0 /\ dnat = [q \in Ports |-> 0]
    /\ more = MaxStarts
    /\ left = [masq |-> 0, dnat |-> [q \in Ports |-> 0]]
    /\ orphans = {}

May(fault) == fault \in Faults
At(c, step) == cage[c].pc = step
Become(c, r) == cage' = [cage EXCEPT ![c] = r]
Goto(c, step) == Become(c, [cage[c] EXCEPT !.pc = step])

\* The rules a cage has at its step.
HasMasq(c) == cage[c].pc \in {"route", "passt", "forward", "boot", "running", "halted"}
HasDnat(c, q) == PortOf[c] = q /\ cage[c].pc \in {"boot", "running", "halted"}
One(b) == IF b THEN 1 ELSE 0
Less(n) == IF n = 0 THEN 0 ELSE n - 1

Leaves(c) ==
    left' = [masq |-> left.masq + One(HasMasq(c)),
             dnat |-> [q \in Ports |-> left.dnat[q] + One(HasDnat(c, q))]]

(***************************************************************************)
(* ip link delete takes the address along, and its route.                  *)
(***************************************************************************)
Unrouted(v) ==
    IF \E i \in DOMAIN routes : routes[i] = v
       THEN LET gone == CHOOSE i \in DOMAIN routes : routes[i] = v
            IN  [i \in 1 .. Len(routes) - 1 |-> routes[IF i < gone THEN i ELSE i + 1]]
       ELSE routes
DeleteVeth(v) ==
    /\ veth' = [veth EXCEPT ![v] = Nobody]
    /\ routes' = Unrouted(v)

(***************************************************************************)
(* ip netns delete removes the name.  The namespace itself, and the veth   *)
(* in it, stay as long as a process lives there, out of everyone's reach.  *)
(***************************************************************************)
Unnamed(r) == [r EXCEPT !.ns = FALSE, !.passt = {}]
Killed(r, id) == [r EXCEPT !.passt = @ \ {id}]

-----------------------------------------------------------------------------
(***************************************************************************)
(* startCage as root, of a cage that does not run: SetupIsolatedNetwork.   *)
(* If the guest had powered off, its network is still there.               *)
(***************************************************************************)
Begin(c) ==
    /\ cage[c].pc \in {"off", "halted"} /\ more > 0
    /\ Become(c, [cage[c] EXCEPT !.pc = "ns", !.mine = 0])
    /\ more' = more - 1
    /\ Leaves(c)
    /\ orphans' = IF At(c, "halted") THEN orphans \cup {c} ELSE orphans
    /\ UNCHANGED <<veth, routes, rules>>

\* Wrong variant: ip netns delete is forgotten.
TakeBackKeepsNS(c, r) ==
    /\ Become(c, [r EXCEPT !.pc = "bootplain", !.mine = 0])
    /\ DeleteVeth(VethOf[c])
(***************************************************************************)
(* A setup that fails once the namespace is there takes back what it has   *)
(* done; the cage then starts without isolation.                           *)
(***************************************************************************)
TakeBack(c, r) ==
    /\ Become(c, [Unnamed(r) EXCEPT !.pc = "bootplain", !.mine = 0])
    /\ DeleteVeth(VethOf[c])

CreateNamespace(c) ==
    /\ At(c, "ns")
    /\ \/ Become(c, [cage[c] EXCEPT !.pc = "veth", !.ns = TRUE])
       \/ May("host") /\ Goto(c, "bootplain")
    /\ UNCHANGED <<veth, routes, rules, history>>

\* Wrong variant: whatever has the name stays.
CreateVethOver(c) ==
    /\ At(c, "veth")
    /\ \/ veth' = [veth EXCEPT ![VethOf[c]] = c] /\ Goto(c, "addr") /\ UNCHANGED routes
       \/ May("host") /\ TakeBack(c, cage[c])
    /\ UNCHANGED <<rules, history>>

(***************************************************************************)
(* createVethPair deletes whatever has the name: this cage's of before, or *)
(* that of another whose name begins with the same ten characters.         *)
(***************************************************************************)
CreateVeth(c) ==
    /\ At(c, "veth")
    /\ \/ /\ veth' = [veth EXCEPT ![VethOf[c]] = c]
          /\ routes' = Unrouted(VethOf[c])
          /\ Goto(c, "addr")
       \/ May("host") /\ TakeBack(c, cage[c])
    /\ UNCHANGED <<rules, history>>

(***************************************************************************)
(* configureVeth gives every host end the same address, 192.168.250.1.  In *)
(* the namespace nothing can be configured if the veth was replaced.       *)
(***************************************************************************)
ConfigureVeth(c) ==
    /\ At(c, "addr")
    /\ \/ /\ veth[VethOf[c]] = c
          /\ routes' = Append(routes, VethOf[c])
          /\ Goto(c, "nat")
          /\ UNCHANGED veth
       \/ (May("host") \/ veth[VethOf[c]] # c) /\ TakeBack(c, cage[c])
    /\ UNCHANGED <<rules, history>>

\* Wrong variant: the rule is taken back though it could not be added.
SetupNATOver(c) ==
    /\ At(c, "nat")
    /\ \/ masq' = masq + 1 /\ Goto(c, "route") /\ UNCHANGED <<veth, routes>>
       \/ May("host") /\ TakeBack(c, cage[c]) /\ masq' = Less(masq)
    /\ UNCHANGED <<dnat, history>>

(***************************************************************************)
(* The MASQUERADE rule is the same for every cage, and iptables -D removes *)
(* one of several equal ones.  The FORWARD rules come and go with it.      *)
(***************************************************************************)
SetupNAT(c) ==
    /\ At(c, "nat")
    /\ \/ masq' = masq + 1 /\ Goto(c, "route") /\ UNCHANGED <<veth, routes>>
       \/ May("host") /\ TakeBack(c, cage[c]) /\ UNCHANGED masq
    /\ UNCHANGED <<dnat, history>>

CleanupNAT == masq' = Less(masq)

(***************************************************************************)
(* addDefaultRoute; the errors of the blackhole routes are warnings.       *)
(***************************************************************************)
AddRoutes(c) ==
    /\ At(c, "route")
    /\ \/ veth[VethOf[c]] = c /\ Goto(c, "passt") /\ UNCHANGED <<veth, routes, masq>>
       \/ (May("host") \/ veth[VethOf[c]] # c) /\ TakeBack(c, cage[c]) /\ CleanupNAT
    /\ UNCHANGED <<dnat, history>>

(***************************************************************************)
(* passt is started and no more is heard of it: that it ended, because an  *)
(* older one has the ssh port or for another reason, shows only when the   *)
(* VM connects to its socket.                                              *)
(***************************************************************************)
NewId(c) == CHOOSE i \in Ids : i \notin cage[c].passt \cup {cage[c].rec}

\* Wrong variant: the rules stay when passt cannot be started.
StartPasstKeepsNAT(c) ==
    /\ At(c, "passt")
    /\ \/ /\ Become(c, [cage[c] EXCEPT !.pc = "forward", !.mine = NewId(c),
                                       !.passt = @ \cup {NewId(c)}])
          /\ UNCHANGED <<veth, routes>>
       \/ May("host") /\ TakeBack(c, cage[c])
    /\ UNCHANGED <<rules, history>>

StartPasst(c) ==
    LET ends == May("passt") \/ (cage[c].passt # {} /\ PortOf[c] # NoPort) IN
    /\ At(c, "passt")
    /\ \/ /\ \E alive \in {{NewId(c)}} \cup (IF ends THEN {{}} ELSE {}) :
                Become(c, [cage[c] EXCEPT !.pc = "forward", !.mine = NewId(c),
                                          !.passt = @ \cup alive])
          /\ UNCHANGED <<veth, routes, masq>>
       \/ May("host") /\ TakeBack(c, cage[c]) /\ CleanupNAT
    /\ UNCHANGED <<dnat, history>>

(***************************************************************************)
(* setupSSHForward: both DNAT rules or none, and none if there is no port. *)
(* Two cages given one port have rules that are the same, as their address *)
(* is.                                                                     *)
(***************************************************************************)
ForwardSSH(c) ==
    /\ At(c, "forward")
    /\ \/ /\ dnat' = [q \in Ports |-> dnat[q] + One(PortOf[c] = q)]
          /\ Goto(c, "boot")
          /\ UNCHANGED <<veth, routes, masq>>
       \/ /\ May("host") /\ PortOf[c] # NoPort
          /\ TakeBack(c, Killed(cage[c], cage[c].mine))
          /\ CleanupNAT
          /\ UNCHANGED dnat
    /\ UNCHANGED history

-----------------------------------------------------------------------------
(***************************************************************************)
(* The network is abandoned: nothing will take it back.                    *)
(***************************************************************************)
Abandon(c, r) ==
    /\ Become(c, r)
    /\ Leaves(c)
    /\ orphans' = orphans \cup {c}
    /\ UNCHANGED <<veth, routes, rules, more>>

(***************************************************************************)
(* The rest of startCage: the domain is redefined onto the socket and      *)
(* started, and state.json saved.  If not, Cleanup has everything it       *)
(* needs.  If only the saving fails the VM runs on, and is stopped before  *)
(* the next start by a stop that knows of no isolation.                    *)
(***************************************************************************)
BootFails(c) ==
    /\ At(c, "boot")
    /\ May("libvirt") \/ cage[c].mine \notin cage[c].passt
    /\ Become(c, [Unnamed(Killed(cage[c], cage[c].mine)) EXCEPT !.pc = "off", !.mine = 0])
    /\ DeleteVeth(VethOf[c])
    /\ CleanupNAT
    /\ dnat' = [q \in Ports |-> IF PortOf[c] = q THEN Less(dnat[q]) ELSE dnat[q]]
    /\ UNCHANGED history

Boot(c) ==
    /\ At(c, "boot") /\ cage[c].mine \in cage[c].passt
    /\ \/ /\ Become(c, [cage[c] EXCEPT !.pc = "running", !.rec = cage[c].mine])
          /\ UNCHANGED <<veth, routes, rules, history>>
       \/ May("unsaved") /\ Abandon(c, [cage[c] EXCEPT !.pc = "off", !.mine = 0])

BootPlain(c) ==
    /\ At(c, "bootplain")
    /\ Goto(c, "plain") \/ (May("libvirt") /\ Goto(c, "off"))
    /\ UNCHANGED <<veth, routes, rules, history>>

-----------------------------------------------------------------------------
(***************************************************************************)
(* stopCage rebuilds an IsolatedNetwork from what state.json says of it,   *)
(* without VethHost, NamespaceIP and SSHPort: Cleanup kills passt, removes *)
(* the socket and deletes the namespace, and no rule.                      *)
(***************************************************************************)
Stopped(c) == [Unnamed(cage[c]) EXCEPT !.pc = "off", !.mine = 0, !.rec = 0]

Stop(c) ==
    /\ cage[c].pc \in {"running", "plain", "halted"}
    /\ Become(c, IF cage[c].rec = 0 THEN [cage[c] EXCEPT !.pc = "off"] ELSE Stopped(c))
    /\ IF cage[c].rec # 0 /\ cage[c].passt \subseteq {cage[c].rec} /\ veth[VethOf[c]] = c
          THEN DeleteVeth(VethOf[c]) ELSE UNCHANGED <<veth, routes>>
    /\ Leaves(c)
    /\ UNCHANGED <<rules, more, orphans>>

PowersOff(c) ==
    /\ May("poweroff") /\ At(c, "running")
    /\ Goto(c, "halted")
    /\ UNCHANGED <<veth, routes, rules, history>>

(***************************************************************************)
(* removeCage looks after the VM, virtiofsd and the files, but not after   *)
(* the isolation.                                                          *)
(***************************************************************************)
RemoveForced(c) ==
    /\ May("force") /\ cage[c].pc \in {"running", "halted"}
    /\ Abandon(c, [cage[c] EXCEPT !.pc = "off", !.mine = 0, !.rec = 0])

Crash(c) ==
    /\ May("crash") /\ cage[c].pc \in Setup \cup {"boot"}
    /\ Abandon(c, [cage[c] EXCEPT !.pc = "off", !.mine = 0])

Next == \E c \in Cages :
    \/ Begin(c)
    \/ CreateNamespace(c) \/ CreateVeth(c) \/ ConfigureVeth(c) \/ SetupNAT(c)
    \/ AddRoutes(c) \/ StartPasst(c) \/ ForwardSSH(c)
    \/ Boot(c) \/ BootFails(c) \/ BootPlain(c)
    \/ Stop(c) \/ PowersOff(c) \/ RemoveForced(c) \/ Crash(c)

Spec == Init /\ [][Next]_vars

-----------------------------------------------------------------------------
(***************************************************************************)
(* Each start takes back just the rules it has added, though those of all  *)
(* cages look alike: what is there beyond the cages that have theirs was   *)
(* left by a stop, a power-off, a killed start or remove --force, once for *)
(* each.                                                                   *)
(***************************************************************************)
RulesAccounted ==
    /\ masq = Cardinality({c \in Cages : HasMasq(c)}) + left.masq
    /\ \A q \in Ports : dnat[q] = Cardinality({c \in Cages : HasDnat(c, q)}) + left.dnat[q]

(***************************************************************************)
(* An isolated cage that runs has its namespace, the passt recorded for it *)
(* and its rules, whatever other cages do; and its veth, unless another    *)
(* cage's name begins with the same ten characters.                        *)
(***************************************************************************)
NetworkStands ==
    \A c \in Cages : At(c, "running") =>
        /\ cage[c].ns /\ cage[c].rec \in cage[c].passt
        /\ masq > 0 /\ (PortOf[c] # NoPort => dnat[PortOf[c]] > 0)
        /\ (\A d \in Cages \ {c} : VethOf[d] # VethOf[c]) => veth[VethOf[c]] = c

(***************************************************************************)
(* A cage that is stopped, or runs without isolation, has no namespace, no *)
(* veth and no passt, unless a start or a removal had abandoned them.      *)
(***************************************************************************)
NothingLeft ==
    \A c \in Cages \ orphans : cage[c].pc \in {"off", "plain", "bootplain"} =>
        /\ ~cage[c].ns /\ cage[c].passt = {}
        /\ \A v \in Names : veth[v] # c

(***************************************************************************)
(* "Use a unique /30 subnet for this cage": an isolated cage that runs is  *)
(* the one the host sends to when it sends to the cage's address.  It is   *)
(* not, of two that run: both have 192.168.250.2, and the route that came  *)
(* first takes what is meant for the second.                               *)
(***************************************************************************)
EachServed ==
    \A c \in Cages :
        At(c, "running") /\ veth[VethOf[c]] = c => Head(routes) = VethOf[c]

(***************************************************************************)
(* "Cleanup removes the isolated network": a cage that has been stopped    *)
(* has no forwarding of its port left, if no other cage has that port.     *)
(* stopCage gives Cleanup neither the port nor the address, so it has.     *)
(***************************************************************************)
StopTakesRules ==
    \A c \in Cages : At(c, "off") /\ PortOf[c] # NoPort =>
        dnat[PortOf[c]] <= Cardinality({d \in Cages : HasDnat(d, PortOf[c])})

(***************************************************************************)
(* "Removes a cage and all resources": what a removed cage had of the      *)
(* network is gone.  Removed by force while it runs, it is not.            *)
(***************************************************************************)
RemovedWhole ==
    \A c \in Cages : At(c, "off") => ~cage[c].ns /\ cage[c].passt = {}
=============================================================================
