------------------------------ MODULE TokenSource ------------------------------
(***************************************************************************)
(* Access to a registry: auth.yaml, the token source of cage push, and the *)
(* commands login and logout.                                              *)
(*                                                                         *)
(* An access token lives for minutes.  With it comes a refresh token that  *)
(* buys the next pair and is usually spent by that.  The workers of a push *)
(* share one token source behind a mutex; processes share auth.yaml behind *)
(* nothing: each reads it, changes its copy and renames that into place.   *)
(***************************************************************************)
EXTENDS Naturals

CONSTANTS
    Procs,          \* cage commands in progress at once
    Workers,        \* workers of a push
    Hosts,          \* registries
    NoHost,         \* no registry
    NoWorker,       \* no worker
    MaxGrants,      \* bound: grants issued; then the servers refuse to refresh
    Overlapping,    \* may a command begin while another is in progress?
    Faults          \* what may go wrong

FaultKinds ==
    {"network",     \* a request or its answer is lost
     "disk",        \* auth.yaml cannot be read or written
     "crash",       \* a command is killed between two steps
     "clock",       \* the clock is off, or the server gives no lifetime
     "norotate"}    \* the server lets a refresh token be used again

ASSUME TokenSourceAssumption ==
    /\ NoHost \notin Hosts
    /\ NoWorker \notin Workers
    /\ MaxGrants \in Nat
    /\ Overlapping \in BOOLEAN
    /\ Faults \subseteq FaultKinds

VARIABLES
    file,       \* auth.yaml
    live,       \* refresh tokens the servers accept
    granted,    \* grants issued so far
    stale,      \* grants up to this one expire soon, or have expired
    expired,    \* grants up to this one have expired
    command,    \* the commands
    mutex,      \* which worker of a push holds Refreshing.mu
    work,       \* the requests of its workers
    loggedIn,   \* history: hosts whose last login came after their last logout
    lost        \* history: hosts whose new refresh token never reached auth.yaml

vars == <<file, live, granted, stale, expired, command, mutex, work, loggedIn, lost>>

serverVars == <<live, granted>>
clock == <<stale, expired>>

(***************************************************************************)
(* The tokens of a grant are told by its number.  An entry without refresh *)
(* token is a personal access token.                                       *)
(***************************************************************************)
NoGrant == 0
Grants == 1..MaxGrants
Token == Grants \cup {NoGrant}
Entry == [access: Token, refresh: Token]
NoEntry == [access |-> NoGrant, refresh |-> NoGrant]
AuthFile == [Hosts -> Entry]

NoCommand == [pc |-> "idle", host |-> NoHost, fixed |-> NoGrant,
              entry |-> NoEntry, base |-> [h \in Hosts |-> NoEntry]]
Command == [pc: {"open", "push", "read", "write"},
            host: Hosts,
            fixed: Token,       \* a push's static token, NoGrant if it refreshes
            entry: Entry,       \* what login or logout is to store
            base: AuthFile]     \* the auth.yaml it has read

NoRequest == [pc |-> "idle", call |-> "token", retried |-> FALSE, refused |-> NoGrant,
              token |-> NoGrant, entry |-> NoEntry, base |-> [h \in Hosts |-> NoEntry]]
Request == [pc: {"idle", "lock", "load", "post", "reload", "store", "send"},
            call: {"token", "refresh"},     \* the method of the token source
            retried: BOOLEAN,               \* after a 401
            refused: Token,                 \* the token that got it
            token: Token,                   \* the one in the request's header
            entry: Entry,                   \* as loaded, then as to be stored
            base: AuthFile]

TypeOK ==
    /\ file \in AuthFile
    /\ live \subseteq Grants
    /\ granted \in Token
    /\ stale \in Token
    /\ expired \in Token
    /\ command \in [Procs -> Command \cup {NoCommand}]
    /\ mutex \in [Procs -> Workers \cup {NoWorker}]
    /\ work \in [Procs -> [Workers -> Request]]
    /\ loggedIn \subseteq Hosts
    /\ lost \subseteq Hosts

Init ==
    /\ file = [h \in Hosts |-> NoEntry]
    /\ live = {}
    /\ granted = 0
    /\ stale = 0
    /\ expired = 0
    /\ command = [p \in Procs |-> NoCommand]
    /\ mutex = [p \in Procs |-> NoWorker]
    /\ work = [p \in Procs |-> [w \in Workers |-> NoRequest]]
    /\ loggedIn = {}
    /\ lost = {}

May(fault) == fault \in Faults
At(p, step) == command[p].pc = step
WorkAt(p, w, step) == work[p][w].pc = step
Alone == Overlapping \/ \A q \in Procs : At(q, "idle")

Become(p, c) == command' = [command EXCEPT ![p] = c]
Finish(p) == Become(p, NoCommand)
SetWork(p, w, r) == work' = [work EXCEPT ![p][w] = r]
Unlock(p) == mutex' = [mutex EXCEPT ![p] = NoWorker]

-----------------------------------------------------------------------------
(***************************************************************************)
(* cage push.  auth.yaml is read for the access token, and again, after a  *)
(* request to the server, for whether there is a refresh token; if that    *)
(* read fails the push goes on with the token it has.                      *)
(***************************************************************************)
BeginPush(p, h) ==
    /\ At(p, "idle") /\ Alone
    /\ file[h] # NoEntry
    /\ Become(p, [NoCommand EXCEPT !.pc = "open", !.host = h, !.fixed = file[h].access])
    /\ UNCHANGED <<file, serverVars, clock, mutex, work, loggedIn, lost>>

OpenPush(p) ==
    /\ At(p, "open")
    /\ \/ LET refreshing == file[command[p].host].refresh # NoGrant IN
          Become(p, [command[p] EXCEPT !.pc = "push",
                                       !.fixed = IF refreshing THEN NoGrant ELSE @])
       \/ May("disk") /\ Become(p, [command[p] EXCEPT !.pc = "push"])
       \/ May("network") /\ Finish(p)
    /\ UNCHANGED <<file, serverVars, clock, mutex, work, loggedIn, lost>>

EndPush(p) ==
    /\ At(p, "push")
    /\ \A w \in Workers : WorkAt(p, w, "idle")
    /\ Finish(p)
    /\ UNCHANGED <<file, serverVars, clock, mutex, work, loggedIn, lost>>

(***************************************************************************)
(* Client.do, and putWithRefresh for a body that can be rewound: ask the   *)
(* provider for a token, send, and after a 401 refresh and send once more. *)
(***************************************************************************)
BeginRequest(p, w) ==
    LET fixed == command[p].fixed IN
    /\ At(p, "push")
    /\ WorkAt(p, w, "idle")
    /\ SetWork(p, w, IF fixed = NoGrant
                        THEN [NoRequest EXCEPT !.pc = "lock"]
                        ELSE [NoRequest EXCEPT !.pc = "send", !.token = fixed])
    /\ UNCHANGED <<file, serverVars, clock, command, mutex, loggedIn, lost>>

Accepted(token) == token # NoGrant /\ token > expired

Send(p, w) ==
    LET r == work[p][w] IN
    /\ WorkAt(p, w, "send")
    /\ \/ /\ Accepted(r.token) \/ r.retried \/ May("network")
          /\ SetWork(p, w, NoRequest)
       \/ /\ ~Accepted(r.token) /\ ~r.retried
          /\ SetWork(p, w, IF command[p].fixed = NoGrant
                THEN [NoRequest EXCEPT !.pc = "lock", !.call = "refresh",
                                       !.retried = TRUE, !.refused = r.token]
                ELSE [r EXCEPT !.retried = TRUE, !.refused = r.token])
    /\ UNCHANGED <<file, serverVars, clock, command, mutex, loggedIn, lost>>

-----------------------------------------------------------------------------
\* Wrong variant: the token source has no mutex.
LockAnyway(p, w) ==
    /\ WorkAt(p, w, "lock")
    /\ mutex' = [mutex EXCEPT ![p] = w]
    /\ SetWork(p, w, [work[p][w] EXCEPT !.pc = "load"])
    /\ UNCHANGED <<file, serverVars, clock, command, loggedIn, lost>>

(***************************************************************************)
(* Refreshing.Token and Refreshing.Refresh.                                *)
(***************************************************************************)
Lock(p, w) ==
    /\ WorkAt(p, w, "lock")
    /\ mutex[p] = NoWorker
    /\ mutex' = [mutex EXCEPT ![p] = w]
    /\ SetWork(p, w, [work[p][w] EXCEPT !.pc = "load"])
    /\ UNCHANGED <<file, serverVars, clock, command, loggedIn, lost>>

(***************************************************************************)
(* doOnce ignores an error of Token and sends the request without one; an  *)
(* error of Refresh ends the request.                                      *)
(***************************************************************************)
SendWith(p, w, token) ==
    /\ SetWork(p, w, [work[p][w] EXCEPT !.pc = "send", !.token = token,
                                        !.entry = NoEntry, !.base = NoRequest.base])
    /\ Unlock(p)

\* Wrong variant: an error returns without unlocking.
FailsLocked(p, w) ==
    /\ SetWork(p, w, IF work[p][w].call = "token" THEN [work[p][w] EXCEPT !.pc = "send"]
                                                  ELSE NoRequest)
    /\ UNCHANGED mutex

Fails(p, w) ==
    IF work[p][w].call = "token"
       THEN SendWith(p, w, NoGrant)
       ELSE SetWork(p, w, NoRequest) /\ Unlock(p)

NearExpiry(e) == e.access <= stale

\* Wrong variant: a token that should be good for a while is not refreshed, not
\* even after a 401.
LoadTrusting(p, w) ==
    LET e == file[command[p].host] IN
    /\ WorkAt(p, w, "load")
    /\ \/ /\ e.refresh # NoGrant
          /\ SetWork(p, w, [work[p][w] EXCEPT !.pc = "post", !.entry = e])
          /\ UNCHANGED mutex
       \/ (~NearExpiry(e) \/ May("clock")) /\ SendWith(p, w, e.access)
    /\ UNCHANGED <<file, serverVars, clock, command, loggedIn, lost>>

Load(p, w) ==
    LET r == work[p][w]
        e == file[command[p].host]
        post == SetWork(p, w, [r EXCEPT !.pc = "post", !.entry = e]) /\ UNCHANGED mutex
    IN
    /\ WorkAt(p, w, "load")
    /\ \/ e.refresh # NoGrant /\ r.call = "refresh" /\ post
       \/ e.refresh = NoGrant /\ r.call = "refresh" /\ Fails(p, w)
       \/ e.refresh # NoGrant /\ r.call = "token" /\ (NearExpiry(e) \/ May("clock")) /\ post
       \/ /\ r.call = "token"
          /\ e.refresh = NoGrant \/ ~NearExpiry(e) \/ May("clock")
          /\ SendWith(p, w, e.access)
       \/ May("disk") /\ Fails(p, w)
    /\ UNCHANGED <<file, serverVars, clock, command, loggedIn, lost>>

(***************************************************************************)
(* oidcdevice.Refresh, and the server's side of it.  If the answer is lost *)
(* the client knows nothing of the tokens it was granted.                  *)
(***************************************************************************)
Rotated(e) == e.refresh = e.access

Bought(r) ==
    LET g == granted + 1 IN
    {[access |-> g, refresh |-> g]} \cup
        (IF May("norotate") THEN {[access |-> g, refresh |-> r]} ELSE {})

LosesToken(p, e) == lost' = IF Rotated(e) THEN lost \cup {command[p].host} ELSE lost

Post(p, w) ==
    LET r == work[p][w].entry.refresh IN
    /\ WorkAt(p, w, "post")
    /\ \/ /\ r \in live /\ granted < MaxGrants
          /\ granted' = granted + 1
          /\ \E e \in Bought(r) :
                /\ live' = IF Rotated(e) THEN (live \ {r}) \cup {e.refresh} ELSE live
                /\ \/ /\ SetWork(p, w, [work[p][w] EXCEPT !.pc = "reload", !.entry = e])
                      /\ UNCHANGED <<mutex, lost>>
                   \/ May("network") /\ Fails(p, w) /\ LosesToken(p, e)
       \/ /\ r \notin live \/ granted = MaxGrants \/ May("network")
          /\ Fails(p, w)
          /\ UNCHANGED <<serverVars, lost>>
    /\ UNCHANGED <<file, clock, command, loggedIn>>

\* Wrong variants: only the access token is stored, or only this host.
StoreOldRefresh(p, w) ==
    LET r == work[p][w]
        h == command[p].host
    IN
    /\ WorkAt(p, w, "store")
    /\ file' = [r.base EXCEPT ![h].access = r.entry.access]
    /\ SendWith(p, w, r.entry.access)
    /\ UNCHANGED <<serverVars, clock, command, loggedIn, lost>>

StoreOneHost(p, w) ==
    LET r == work[p][w] IN
    /\ WorkAt(p, w, "store")
    /\ file' = [NoRequest.base EXCEPT ![command[p].host] = r.entry]
    /\ SendWith(p, w, r.entry.access)
    /\ UNCHANGED <<serverVars, clock, command, loggedIn, lost>>

(***************************************************************************)
(* AddHostFull: read auth.yaml again, and rename the changed copy into its *)
(* place.  If that fails the new tokens are dropped.                       *)
(***************************************************************************)
Reload(p, w) ==
    /\ WorkAt(p, w, "reload")
    /\ \/ /\ SetWork(p, w, [work[p][w] EXCEPT !.pc = "store", !.base = file])
          /\ UNCHANGED <<mutex, lost>>
       \/ May("disk") /\ Fails(p, w) /\ LosesToken(p, work[p][w].entry)
    /\ UNCHANGED <<file, serverVars, clock, command, loggedIn>>

Store(p, w) ==
    LET r == work[p][w] IN
    /\ WorkAt(p, w, "store")
    /\ \/ /\ file' = [r.base EXCEPT ![command[p].host] = r.entry]
          /\ IF r.call = "token"
                THEN SendWith(p, w, r.entry.access)
                ELSE /\ SetWork(p, w, [NoRequest EXCEPT !.pc = "lock", !.retried = TRUE,
                                                        !.refused = r.refused])
                     /\ Unlock(p)
          /\ UNCHANGED lost
       \/ May("disk") /\ Fails(p, w) /\ LosesToken(p, r.entry) /\ UNCHANGED file
    /\ UNCHANGED <<serverVars, clock, command, loggedIn>>

-----------------------------------------------------------------------------
(***************************************************************************)
(* cage login: a pair of tokens from the device flow, or a personal access *)
(* token.  cage logout stores nothing for the host.                        *)
(***************************************************************************)
BeginLogin(p, h) ==
    LET g == granted + 1 IN
    /\ At(p, "idle") /\ Alone
    /\ granted < MaxGrants
    /\ granted' = g
    /\ \E r \in {g, NoGrant} :
          /\ live' = live \cup ({r} \ {NoGrant})
          /\ Become(p, [NoCommand EXCEPT !.pc = "read", !.host = h,
                                         !.entry = [access |-> g, refresh |-> r]])
    /\ UNCHANGED <<file, clock, mutex, work, loggedIn, lost>>

BeginLogout(p, h) ==
    /\ At(p, "idle") /\ Alone
    /\ Become(p, [NoCommand EXCEPT !.pc = "read", !.host = h])
    /\ UNCHANGED <<file, serverVars, clock, mutex, work, loggedIn, lost>>

ReadFile(p) ==
    /\ At(p, "read")
    /\ \/ Become(p, [command[p] EXCEPT !.pc = "write", !.base = file])
       \/ May("disk") /\ Finish(p)
    /\ UNCHANGED <<file, serverVars, clock, mutex, work, loggedIn, lost>>

\* Wrong variant: logging out of one host leaves a file without the others.
WriteFileDropped(p) ==
    LET c == command[p] IN
    /\ At(p, "write")
    /\ file' = IF c.entry = NoEntry THEN [h \in {c.host} |-> NoEntry]
               ELSE [c.base EXCEPT ![c.host] = c.entry]
    /\ loggedIn' = IF c.entry = NoEntry THEN loggedIn \ {c.host}
                                        ELSE loggedIn \cup {c.host}
    /\ Finish(p)
    /\ UNCHANGED <<serverVars, clock, mutex, work, lost>>

WriteFile(p) ==
    LET c == command[p] IN
    /\ At(p, "write")
    /\ \/ /\ file' = [c.base EXCEPT ![c.host] = c.entry]
          /\ loggedIn' = IF c.entry = NoEntry THEN loggedIn \ {c.host}
                                              ELSE loggedIn \cup {c.host}
          /\ lost' = lost \ {c.host}
       \/ May("disk") /\ UNCHANGED <<file, loggedIn, lost>>
    /\ Finish(p)
    /\ UNCHANGED <<serverVars, clock, mutex, work>>

LogoutAll(p) ==
    /\ At(p, "idle") /\ Alone
    /\ file' = [h \in Hosts |-> NoEntry]
    /\ loggedIn' = {}
    /\ lost' = {}
    /\ UNCHANGED <<serverVars, clock, command, mutex, work>>

-----------------------------------------------------------------------------
Crash(p) ==
    /\ May("crash")
    /\ ~At(p, "idle")
    /\ Finish(p)
    /\ Unlock(p)
    /\ work' = [work EXCEPT ![p] = [w \in Workers |-> NoRequest]]
    /\ lost' = IF \E w \in Workers : /\ work[p][w].pc \in {"reload", "store"}
                                     /\ Rotated(work[p][w].entry)
                  THEN lost \cup {command[p].host} ELSE lost
    /\ UNCHANGED <<file, serverVars, clock, loggedIn>>

\* Tokens grow old in the order in which they were issued.
Age ==
    /\ \/ stale < granted /\ stale' = stale + 1 /\ UNCHANGED expired
       \/ expired < stale /\ expired' = expired + 1 /\ UNCHANGED stale
    /\ UNCHANGED <<file, serverVars, command, mutex, work, loggedIn, lost>>

WorkerStep(p, w) ==
    \/ Send(p, w) \/ Lock(p, w) \/ Load(p, w)
    \/ Post(p, w) \/ Reload(p, w) \/ Store(p, w)

CommandStep(p) ==
    \/ OpenPush(p) \/ EndPush(p) \/ ReadFile(p) \/ WriteFile(p)

Begin(p) ==
    \/ \E h \in Hosts : BeginPush(p, h) \/ BeginLogin(p, h) \/ BeginLogout(p, h)
    \/ LogoutAll(p)

Next ==
    \/ \E p \in Procs :
          \/ Begin(p) \/ CommandStep(p) \/ Crash(p)
          \/ \E w \in Workers : BeginRequest(p, w) \/ WorkerStep(p, w)
    \/ Age

Spec == Init /\ [][Next]_vars

(***************************************************************************)
(* Workers keep running, servers answer or hang up, and a sync.Mutex does  *)
(* not starve a goroutine that waits for it.                               *)
(***************************************************************************)
Fairness ==
    \A p \in Procs, w \in Workers : WF_vars(WorkerStep(p, w)) /\ SF_vars(Lock(p, w))

FairSpec == Spec /\ Fairness

-----------------------------------------------------------------------------
(***************************************************************************)
(* Correctness.                                                            *)
(***************************************************************************)

\* No worker presents a refresh token that another one has already spent,
\* which a server takes for theft and answers by ending the session.
LiveRefresh ==
    \A p \in Procs, w \in Workers :
        WorkAt(p, w, "post") /\ command[p].host \notin lost
            => work[p][w].entry.refresh \in live

\* A session outlives every refresh: whenever no refresh is under way, the
\* refresh token in auth.yaml is one that the server still accepts, unless an
\* answer was lost, a save failed or a command was killed after the old one was
\* spent.
Refreshes(p, w, h) == command[p].host = h /\ work[p][w].pc \in {"reload", "store"}

SessionKept ==
    \A h \in Hosts :
        \/ h \in lost
        \/ file[h].refresh \in live \cup {NoGrant}
        \/ \E p \in Procs, w \in Workers : Refreshes(p, w, h)

\* The one retry after a 401 never repeats the token that was refused: it has a
\* newer one, or none because that could not be had.
RetryNewer ==
    \A p \in Procs, w \in Workers :
        LET r == work[p][w] IN
        WorkAt(p, w, "send") /\ r.retried /\ command[p].fixed = NoGrant
            => r.token = NoGrant \/ r.token > r.refused

\* auth.yaml has an entry for exactly the hosts that were logged in to and not
\* out of since: no refresh, login or logout drops or revives another's.
LoginKept == \A h \in Hosts : file[h] # NoEntry <=> h \in loggedIn

\* Every request ends: the retry is one only and nobody keeps the mutex.
RequestEnds ==
    \A p \in Procs, w \in Workers : ~WorkAt(p, w, "idle") ~> WorkAt(p, w, "idle")

=============================================================================
