--------------------------- MODULE TokenSourceProofs ---------------------------
(***************************************************************************)
(* What holds of the token source for every number of workers, hosts and   *)
(* grants, and for every set of faults.                                    *)
(***************************************************************************)
EXTENDS TokenSource, TLAPS

WorkSpace == [Procs -> [Workers -> Request]]
CommandSpace == [Procs -> Command \cup {NoCommand}]

\* Tokens are numbers, and the next one is a token as long as the bound allows.
LEMMA Tokens ==
    /\ NoGrant \in Token /\ NoGrant = 0
    /\ \A t \in Token : t \in Nat
    /\ \A t \in Token : t < MaxGrants => t + 1 \in Grants /\ t + 1 \in Token
    /\ Grants \subseteq Token
BY TokenSourceAssumption DEF Token, Grants, NoGrant

\* Entries, and files that differ in one entry.
LEMMA Entries ==
    /\ NoEntry \in Entry
    /\ NoEntry.access = NoGrant /\ NoEntry.refresh = NoGrant
    /\ [h \in Hosts |-> NoEntry] \in AuthFile
    /\ \A a, r \in Token : [access |-> a, refresh |-> r] \in Entry
    /\ \A e \in Entry : e.access \in Token /\ e.refresh \in Token
    /\ \A e \in Entry : e = NoEntry <=> e.access = NoGrant /\ e.refresh = NoGrant
    /\ \A f \in AuthFile, h \in Hosts : f[h] \in Entry
    /\ \A f \in AuthFile, h \in Hosts : \A e \in Entry : [f EXCEPT ![h] = e] \in AuthFile
    /\ \A f \in AuthFile, h \in Hosts : \A e \in Entry : [f EXCEPT ![h] = e][h] = e
    /\ \A f \in AuthFile, h, k \in Hosts : \A e \in Entry :
          k # h => [f EXCEPT ![h] = e][k] = f[k]
<1>1. NoEntry \in Entry /\ NoEntry.access = NoGrant /\ NoEntry.refresh = NoGrant
  BY Tokens DEF NoEntry, Entry
<1>2. [h \in Hosts |-> NoEntry] \in AuthFile
  BY <1>1 DEF AuthFile
<1>3. /\ \A a, r \in Token : [access |-> a, refresh |-> r] \in Entry
      /\ \A e \in Entry : e.access \in Token /\ e.refresh \in Token
      /\ \A e \in Entry : e = NoEntry <=> e.access = NoGrant /\ e.refresh = NoGrant
  BY DEF Entry, NoEntry
<1>4. /\ \A f \in AuthFile, h \in Hosts : f[h] \in Entry
      /\ \A f \in AuthFile, h \in Hosts : \A e \in Entry : [f EXCEPT ![h] = e] \in AuthFile
      /\ \A f \in AuthFile, h \in Hosts : \A e \in Entry : [f EXCEPT ![h] = e][h] = e
      /\ \A f \in AuthFile, h, k \in Hosts : \A e \in Entry :
            k # h => [f EXCEPT ![h] = e][k] = f[k]
  BY DEF AuthFile
<1> QED
  BY <1>1, <1>2, <1>3, <1>4

\* The fields of a request.
LEMMA RequestFields ==
    /\ NoRequest \in Request /\ NoRequest.pc = "idle" /\ NoRequest.base \in AuthFile
    /\ \A r \in Request : /\ r.refused \in Token /\ r.token \in Token /\ r.retried \in BOOLEAN
                          /\ r.entry \in Entry /\ r.base \in AuthFile
                          /\ r.call \in {"token", "refresh"}
BY Tokens, Entries DEF NoRequest, Request

\* The requests that begin anew: at the mutex, with the static token, after a 401,
\* and after the refresh that followed it.
Waiting == [NoRequest EXCEPT !.pc = "lock"]
Fixed(t) == [NoRequest EXCEPT !.pc = "send", !.token = t]
Refused(t) == [NoRequest EXCEPT !.pc = "lock", !.call = "refresh", !.retried = TRUE,
                                !.refused = t]
Again(t) == [NoRequest EXCEPT !.pc = "lock", !.retried = TRUE, !.refused = t]

LEMMA NewRequests ==
    /\ Waiting \in Request /\ Waiting.pc = "lock"
    /\ Waiting.retried = FALSE /\ Waiting.refused = NoGrant
    /\ \A t \in Token :
          /\ Fixed(t) \in Request /\ Fixed(t).pc = "send"
          /\ Refused(t) \in Request /\ Refused(t).pc = "lock"
          /\ Refused(t).call = "refresh" /\ Refused(t).refused = t
          /\ Again(t) \in Request /\ Again(t).pc = "lock"
          /\ Again(t).call = "token" /\ Again(t).refused = t
BY Tokens, Entries DEF NoRequest, Request, Waiting, Fixed, Refused, Again

\* The requests that move on.
Resent(r, t) == [r EXCEPT !.retried = TRUE, !.refused = t]
Loading(r) == [r EXCEPT !.pc = "load"]
Sent(r, t) == [r EXCEPT !.pc = "send", !.token = t, !.entry = NoEntry,
                        !.base = NoRequest.base]
Posting(r, e) == [r EXCEPT !.pc = "post", !.entry = e]
Reloading(r, e) == [r EXCEPT !.pc = "reload", !.entry = e]
Storing(r, f) == [r EXCEPT !.pc = "store", !.base = f]

\* What a request remembers of the 401.
SameRetry(r, s) == s.refused = r.refused /\ s.retried = r.retried

LEMMA NextRequests ==
    ASSUME NEW r \in Request
    PROVE  /\ \A t \in Token : Resent(r, t) \in Request /\ Resent(r, t).pc = r.pc
           /\ Loading(r) \in Request /\ Loading(r).pc = "load"
           /\ SameRetry(r, Loading(r)) /\ Loading(r).call = r.call
           /\ \A t \in Token :
                 /\ Sent(r, t) \in Request /\ Sent(r, t).pc = "send"
                 /\ Sent(r, t).token = t /\ SameRetry(r, Sent(r, t))
           /\ \A e \in Entry :
                 /\ Posting(r, e) \in Request /\ Posting(r, e).pc = "post"
                 /\ Posting(r, e).entry = e
                 /\ SameRetry(r, Posting(r, e)) /\ Posting(r, e).call = r.call
                 /\ Reloading(r, e) \in Request /\ Reloading(r, e).pc = "reload"
                 /\ Reloading(r, e).entry = e
                 /\ SameRetry(r, Reloading(r, e)) /\ Reloading(r, e).call = r.call
           /\ \A f \in AuthFile :
                 /\ Storing(r, f) \in Request /\ Storing(r, f).pc = "store"
                 /\ Storing(r, f).base = f /\ Storing(r, f).entry = r.entry
                 /\ SameRetry(r, Storing(r, f)) /\ Storing(r, f).call = r.call
<1>1. \A t \in Token : Resent(r, t) \in Request /\ Resent(r, t).pc = r.pc
  BY DEF Request, Resent
<1>2. /\ Loading(r) \in Request /\ Loading(r).pc = "load"
      /\ SameRetry(r, Loading(r)) /\ Loading(r).call = r.call
  BY DEF Request, Loading, SameRetry
<1>3. \A t \in Token :
        /\ Sent(r, t) \in Request /\ Sent(r, t).pc = "send"
        /\ Sent(r, t).token = t /\ SameRetry(r, Sent(r, t))
  BY Entries, RequestFields DEF Request, Sent, SameRetry
<1>4. \A e \in Entry :
        /\ Posting(r, e) \in Request /\ Posting(r, e).pc = "post"
        /\ Posting(r, e).entry = e
        /\ SameRetry(r, Posting(r, e)) /\ Posting(r, e).call = r.call
  BY DEF Request, Posting, SameRetry
<1>5. \A e \in Entry :
        /\ Reloading(r, e) \in Request /\ Reloading(r, e).pc = "reload"
        /\ Reloading(r, e).entry = e
        /\ SameRetry(r, Reloading(r, e)) /\ Reloading(r, e).call = r.call
  BY DEF Request, Reloading, SameRetry
<1>6. \A f \in AuthFile :
        /\ Storing(r, f) \in Request /\ Storing(r, f).pc = "store"
        /\ Storing(r, f).base = f /\ Storing(r, f).entry = r.entry
        /\ SameRetry(r, Storing(r, f)) /\ Storing(r, f).call = r.call
  BY DEF Request, Storing, SameRetry
<1> QED
  BY <1>1, <1>2, <1>3, <1>4, <1>5, <1>6

\* A worker's step changes one request.
LEMMA WorkChanges ==
    ASSUME work \in WorkSpace, NEW p \in Procs, NEW w \in Workers
    PROVE  /\ work[p][w] \in Request
           /\ \A r \in Request : SetWork(p, w, r) =>
                 /\ work' \in WorkSpace
                 /\ work'[p][w] = r
                 /\ \A q \in Procs, v \in Workers :
                       q # p \/ v # w => work'[q][v] = work[q][v]
<1>1. \A q \in Procs, v \in Workers : work[q][v] \in Request
  BY DEF WorkSpace
<1>2. ASSUME NEW r \in Request, SetWork(p, w, r)
      PROVE  /\ work' \in WorkSpace
             /\ work'[p][w] = r
             /\ \A q \in Procs, v \in Workers : q # p \/ v # w => work'[q][v] = work[q][v]
  BY <1>2 DEF SetWork, WorkSpace
<1> QED
  BY <1>1, <1>2

\* The commands that begin and move on.
LEMMA CommandChanges ==
    ASSUME command \in CommandSpace, NEW p \in Procs
    PROVE  /\ NoCommand.pc = "idle"
           /\ ~At(p, "idle") => command[p] \in Command /\ command[p].host \in Hosts
           /\ ~At(p, "idle") => command[p].entry \in Entry /\ command[p].fixed \in Token
           /\ \A c \in Command \cup {NoCommand} : Become(p, c) =>
                 /\ command' \in CommandSpace
                 /\ command'[p] = c
                 /\ \A q \in Procs : q # p => command'[q] = command[q]
<1>1. NoCommand.pc = "idle"
  BY DEF NoCommand
<1>2. command[p] \in Command \cup {NoCommand}
  BY DEF CommandSpace
<1>3. \A c \in Command : c.host \in Hosts /\ c.entry \in Entry /\ c.fixed \in Token
  BY DEF Command
<1>4. ASSUME NEW c \in Command \cup {NoCommand}, Become(p, c)
      PROVE  /\ command' \in CommandSpace
             /\ command'[p] = c
             /\ \A q \in Procs : q # p => command'[q] = command[q]
  BY <1>4 DEF Become, CommandSpace
<1> QED
  BY <1>1, <1>2, <1>3, <1>4 DEF At

\* The records of commands.
Opening(h, t) == [NoCommand EXCEPT !.pc = "open", !.host = h, !.fixed = t]
Pushes(c, t) == [c EXCEPT !.pc = "push", !.fixed = t]
PushesOn(c) == [c EXCEPT !.pc = "push"]
LoggingIn(h, e) == [NoCommand EXCEPT !.pc = "read", !.host = h, !.entry = e]
LoggingOut(h) == [NoCommand EXCEPT !.pc = "read", !.host = h]
Writing(c, f) == [c EXCEPT !.pc = "write", !.base = f]

LEMMA CommandFields ==
    /\ \A h \in Hosts, t \in Token : Opening(h, t) \in Command /\ Opening(h, t).pc = "open"
    /\ \A c \in Command, t \in Token : Pushes(c, t) \in Command /\ Pushes(c, t).pc = "push"
    /\ \A c \in Command : PushesOn(c) \in Command /\ PushesOn(c).pc = "push"
    /\ \A h \in Hosts, e \in Entry :
          /\ LoggingIn(h, e) \in Command /\ LoggingIn(h, e).pc = "read"
          /\ LoggingIn(h, e).entry = e
    /\ \A h \in Hosts :
          /\ LoggingOut(h) \in Command /\ LoggingOut(h).pc = "read"
          /\ LoggingOut(h).entry = NoEntry
    /\ \A c \in Command, f \in AuthFile :
          /\ Writing(c, f) \in Command /\ Writing(c, f).pc = "write"
          /\ Writing(c, f).entry = c.entry /\ Writing(c, f).base = f
<1>1. NoCommand = [pc |-> "idle", host |-> NoHost, fixed |-> NoGrant, entry |-> NoEntry,
                   base |-> [h \in Hosts |-> NoEntry]]
  BY DEF NoCommand
<1>2. /\ \A h \in Hosts, t \in Token : Opening(h, t) \in Command /\ Opening(h, t).pc = "open"
      /\ \A h \in Hosts, e \in Entry :
            /\ LoggingIn(h, e) \in Command /\ LoggingIn(h, e).pc = "read"
            /\ LoggingIn(h, e).entry = e
      /\ \A h \in Hosts :
            /\ LoggingOut(h) \in Command /\ LoggingOut(h).pc = "read"
            /\ LoggingOut(h).entry = NoEntry
  BY <1>1, Tokens, Entries DEF Command, Opening, LoggingIn, LoggingOut
<1>3. /\ \A c \in Command, t \in Token : Pushes(c, t) \in Command /\ Pushes(c, t).pc = "push"
      /\ \A c \in Command : PushesOn(c) \in Command /\ PushesOn(c).pc = "push"
      /\ \A c \in Command, f \in AuthFile :
            /\ Writing(c, f) \in Command /\ Writing(c, f).pc = "write"
            /\ Writing(c, f).entry = c.entry /\ Writing(c, f).base = f
  BY DEF Command, Pushes, PushesOn, Writing
<1> QED
  BY <1>2, <1>3

MutexSpace == [Procs -> Workers \cup {NoWorker}]

\* TypeOK, in the words of the lemmas above.
LEMMA TypeSpaces ==
    TypeOK <=> /\ file \in AuthFile /\ live \subseteq Grants
               /\ granted \in Token /\ stale \in Token /\ expired \in Token
               /\ command \in CommandSpace /\ mutex \in MutexSpace /\ work \in WorkSpace
               /\ loggedIn \subseteq Hosts /\ lost \subseteq Hosts
BY DEF TypeOK, CommandSpace, MutexSpace, WorkSpace

\* Only a push has requests.
Resting(p) == \A w \in Workers : WorkAt(p, w, "idle")
Active == \A p \in Procs : ~At(p, "push") => Resting(p)

\* The request of w becomes r, and everything else that a worker never changes stays.
OthersStay(p, w) ==
    \A q \in Procs, v \in Workers : q # p \/ v # w => work'[q][v] = work[q][v]

Becomes(p, w, r) ==
    /\ At(p, "push") /\ command' = command /\ loggedIn' = loggedIn
    /\ stale' = stale /\ expired' = expired
    /\ work' \in WorkSpace /\ r \in Request /\ work'[p][w] = r /\ OthersStay(p, w)
    /\ mutex' \in MutexSpace

Unlocked(p) == mutex'[p] = NoWorker

Gives(p, w, t) == Becomes(p, w, Sent(work[p][w], t)) /\ Unlocked(p)

GivesUp(p, w) ==
    \/ Gives(p, w, NoGrant)
    \/ Becomes(p, w, NoRequest) /\ Unlocked(p)

LEMMA MutexChanges ==
    ASSUME mutex \in MutexSpace, NEW p \in Procs
    PROVE  /\ Unlock(p) => mutex' \in MutexSpace /\ Unlocked(p)
           /\ \A w \in Workers :
                 mutex' = [mutex EXCEPT ![p] = w] => mutex' \in MutexSpace /\ mutex'[p] = w
BY DEF MutexSpace, Unlock, Unlocked

\* A worker that does something belongs to a push.
LEMMA Pushing ==
    ASSUME TypeOK, Active, NEW p \in Procs, NEW w \in Workers,
           BeginRequest(p, w) \/ WorkerStep(p, w)
    PROVE  /\ At(p, "push") /\ command[p].host \in Hosts /\ command[p].fixed \in Token
           /\ work[p][w] \in Request /\ file[command[p].host] \in Entry
<1>1. BeginRequest(p, w) => At(p, "push")
  BY DEF BeginRequest
<1>2. WorkerStep(p, w) => ~WorkAt(p, w, "idle")
  BY DEF WorkerStep, Send, Lock, Load, Post, Reload, Store, WorkAt
<1>3. At(p, "push")
  BY <1>1, <1>2 DEF Active, Resting
<1>4. command[p].host \in Hosts /\ command[p].fixed \in Token
  BY <1>3, CommandChanges, TypeSpaces DEF At
<1> QED
  BY <1>3, <1>4, WorkChanges, TypeSpaces, Entries

\* A worker's step, told by the request it leads to.
LEMMA WorkerBecomes ==
    ASSUME TypeOK, NEW p \in Procs, NEW w \in Workers, NEW r \in Request,
           At(p, "push"), command' = command, loggedIn' = loggedIn, UNCHANGED clock,
           SetWork(p, w, r), mutex' \in MutexSpace
    PROVE  Becomes(p, w, r)
BY WorkChanges, TypeSpaces DEF Becomes, OthersStay, clock

\* Sending a request with a token, and failing to get one.
LEMMA Sending ==
    ASSUME TypeOK, NEW p \in Procs, NEW w \in Workers, NEW t \in Token,
           At(p, "push"), command' = command, loggedIn' = loggedIn, UNCHANGED clock,
           SendWith(p, w, t)
    PROVE  Gives(p, w, t)
<1>1. SetWork(p, w, Sent(work[p][w], t)) /\ Unlock(p)
  BY DEF SendWith, Sent
<1>2. Sent(work[p][w], t) \in Request
  BY NextRequests, WorkChanges, TypeSpaces
<1>3. mutex' \in MutexSpace /\ Unlocked(p)
  BY <1>1, MutexChanges, TypeSpaces
<1> QED
  BY <1>1, <1>2, <1>3, WorkerBecomes DEF Gives

LEMMA Failing ==
    ASSUME TypeOK, NEW p \in Procs, NEW w \in Workers,
           At(p, "push"), command' = command, loggedIn' = loggedIn, UNCHANGED clock,
           Fails(p, w)
    PROVE  GivesUp(p, w)
<1>1. CASE SendWith(p, w, NoGrant)
  BY <1>1, Sending, Tokens DEF GivesUp
<1>2. CASE SetWork(p, w, NoRequest) /\ Unlock(p)
  <2>1. mutex' \in MutexSpace /\ Unlocked(p)
    BY <1>2, MutexChanges, TypeSpaces
  <2> QED
    BY <1>2, <2>1, WorkerBecomes, RequestFields DEF GivesUp
<1> QED
  BY <1>1, <1>2 DEF Fails

\* The requests that each step of a worker can lead to.
LEMMA BeginRequestEffect ==
    ASSUME TypeOK, Active, NEW p \in Procs, NEW w \in Workers, BeginRequest(p, w)
    PROVE  /\ UNCHANGED <<file, live, granted, mutex, lost>>
           /\ WorkAt(p, w, "idle")
           /\ \/ command[p].fixed # NoGrant /\ Becomes(p, w, Fixed(command[p].fixed))
              \/ Becomes(p, w, Waiting)
<1>1. /\ UNCHANGED <<file, live, granted, mutex, lost>> /\ UNCHANGED clock
      /\ command' = command /\ loggedIn' = loggedIn /\ WorkAt(p, w, "idle")
  BY DEF BeginRequest, serverVars
<1>2. /\ At(p, "push") /\ command[p].fixed \in Token /\ mutex' \in MutexSpace
  BY <1>1, Pushing, TypeSpaces
<1>3. CASE command[p].fixed = NoGrant
  <2>1. SetWork(p, w, Waiting)
    BY <1>3 DEF BeginRequest, Waiting
  <2> QED
    BY <1>1, <1>2, <2>1, NewRequests, WorkerBecomes
<1>4. CASE command[p].fixed # NoGrant
  <2>1. SetWork(p, w, Fixed(command[p].fixed))
    BY <1>4 DEF BeginRequest, Fixed
  <2> QED
    BY <1>1, <1>2, <1>4, <2>1, NewRequests, WorkerBecomes
<1> QED
  BY <1>3, <1>4

LEMMA SendEffect ==
    ASSUME TypeOK, Active, NEW p \in Procs, NEW w \in Workers, Send(p, w)
    PROVE  /\ UNCHANGED <<file, live, granted, mutex, lost>>
           /\ WorkAt(p, w, "send")
           /\ \/ Becomes(p, w, NoRequest)
              \/ Becomes(p, w, Refused(work[p][w].token))
              \/ /\ command[p].fixed # NoGrant
                 /\ Becomes(p, w, Resent(work[p][w], work[p][w].token))
<1>1. /\ UNCHANGED <<file, live, granted, mutex, lost>> /\ UNCHANGED clock
      /\ command' = command /\ loggedIn' = loggedIn /\ WorkAt(p, w, "send")
  BY DEF Send, serverVars
<1>2. At(p, "push") /\ work[p][w] \in Request /\ mutex' \in MutexSpace
  BY <1>1, Pushing, TypeSpaces DEF WorkerStep
<1>3. work[p][w].token \in Token
  BY <1>2, RequestFields
<1>4. CASE SetWork(p, w, NoRequest)
  BY <1>1, <1>2, <1>4, RequestFields, WorkerBecomes
<1>5. CASE SetWork(p, w, Refused(work[p][w].token))
  BY <1>1, <1>2, <1>3, <1>5, NewRequests, WorkerBecomes
<1>6. CASE command[p].fixed # NoGrant /\ SetWork(p, w, Resent(work[p][w], work[p][w].token))
  BY <1>1, <1>2, <1>3, <1>6, NextRequests, WorkerBecomes
<1> QED
  BY <1>4, <1>5, <1>6 DEF Send, Refused, Resent

LEMMA LockEffect ==
    ASSUME TypeOK, Active, NEW p \in Procs, NEW w \in Workers, Lock(p, w)
    PROVE  /\ UNCHANGED <<file, live, granted, lost>>
           /\ WorkAt(p, w, "lock") /\ mutex[p] = NoWorker /\ mutex'[p] = w
           /\ Becomes(p, w, Loading(work[p][w]))
<1>1. /\ UNCHANGED <<file, live, granted, lost>> /\ UNCHANGED clock
      /\ command' = command /\ loggedIn' = loggedIn /\ WorkAt(p, w, "lock")
      /\ mutex[p] = NoWorker /\ mutex' = [mutex EXCEPT ![p] = w]
      /\ SetWork(p, w, Loading(work[p][w]))
  BY DEF Lock, serverVars, Loading
<1>2. At(p, "push") /\ work[p][w] \in Request
  BY Pushing DEF WorkerStep
<1>3. mutex' \in MutexSpace /\ mutex'[p] = w
  BY <1>1, MutexChanges, TypeSpaces
<1> QED
  BY <1>1, <1>2, <1>3, NextRequests, WorkerBecomes

LEMMA LoadEffect ==
    ASSUME TypeOK, Active, NEW p \in Procs, NEW w \in Workers, Load(p, w)
    PROVE  LET r == work[p][w]
               e == file[command[p].host]
           IN /\ UNCHANGED <<file, live, granted, lost>>
              /\ WorkAt(p, w, "load")
              /\ \/ e.refresh # NoGrant /\ mutex' = mutex /\ Becomes(p, w, Posting(r, e))
                 \/ r.call = "token" /\ Gives(p, w, e.access)
                 \/ GivesUp(p, w)
<1> DEFINE e == file[command[p].host]
<1>1. /\ UNCHANGED <<file, live, granted, lost>> /\ UNCHANGED clock
      /\ command' = command /\ loggedIn' = loggedIn /\ WorkAt(p, w, "load")
  BY DEF Load, serverVars
<1>2. At(p, "push") /\ work[p][w] \in Request /\ e \in Entry /\ e.access \in Token
  BY Pushing, Entries DEF WorkerStep
<1>3. CASE e.refresh # NoGrant /\ SetWork(p, w, Posting(work[p][w], e)) /\ mutex' = mutex
  <2>1. Posting(work[p][w], e) \in Request /\ mutex' \in MutexSpace
    BY <1>2, <1>3, NextRequests, TypeSpaces
  <2> QED
    BY <1>1, <1>2, <1>3, <2>1, WorkerBecomes
<1>4. CASE work[p][w].call = "token" /\ SendWith(p, w, e.access)
  BY <1>1, <1>2, <1>4, Sending
<1>5. CASE Fails(p, w)
  BY <1>1, <1>2, <1>5, Failing
<1> QED
  BY <1>3, <1>4, <1>5 DEF Load, Posting

LEMMA PostEffect ==
    ASSUME TypeOK, Active, NEW p \in Procs, NEW w \in Workers, Post(p, w)
    PROVE  LET r == work[p][w].entry.refresh
               h == command[p].host
           IN /\ file' = file /\ WorkAt(p, w, "post")
              /\ \/ /\ r \in live /\ granted < MaxGrants /\ granted' = granted + 1
                    /\ \E e \in Entry :
                          /\ e.access = granted + 1
                          /\ \/ Rotated(e) /\ live' = (live \ {r}) \cup {e.refresh}
                             \/ ~Rotated(e) /\ e.refresh = r /\ live' = live
                          /\ \/ /\ Becomes(p, w, Reloading(work[p][w], e))
                                /\ mutex' = mutex /\ lost' = lost
                             \/ /\ GivesUp(p, w)
                                /\ lost' = IF Rotated(e) THEN lost \cup {h} ELSE lost
                 \/ GivesUp(p, w) /\ live' = live /\ granted' = granted /\ lost' = lost
<1> DEFINE r == work[p][w].entry.refresh
<1>1. /\ file' = file /\ UNCHANGED clock
      /\ command' = command /\ loggedIn' = loggedIn /\ WorkAt(p, w, "post")
  BY DEF Post
<1>2. At(p, "push") /\ work[p][w] \in Request
  BY Pushing DEF WorkerStep
<1>3. r \in Token
  BY <1>2, RequestFields, Entries
<1>4. CASE Fails(p, w) /\ live' = live /\ granted' = granted /\ lost' = lost
  BY <1>1, <1>2, <1>4, Failing
<1>5. ASSUME r \in live, granted < MaxGrants, granted' = granted + 1,
             NEW e \in Bought(r),
             live' = IF Rotated(e) THEN (live \ {r}) \cup {e.refresh} ELSE live,
             \/ /\ SetWork(p, w, Reloading(work[p][w], e))
                /\ mutex' = mutex /\ lost' = lost
             \/ Fails(p, w) /\ LosesToken(p, e)
      PROVE  /\ e \in Entry /\ e.access = granted + 1
             /\ \/ Rotated(e) /\ live' = (live \ {r}) \cup {e.refresh}
                \/ ~Rotated(e) /\ e.refresh = r /\ live' = live
             /\ \/ /\ Becomes(p, w, Reloading(work[p][w], e))
                   /\ mutex' = mutex /\ lost' = lost
                \/ /\ GivesUp(p, w)
                   /\ lost' = IF Rotated(e) THEN lost \cup {command[p].host} ELSE lost
  <2>1. granted + 1 \in Token
    BY <1>5, Tokens, TypeSpaces
  <2>2. e \in Entry /\ e.access = granted + 1 /\ (Rotated(e) \/ e.refresh = r)
    BY <1>3, <2>1, Entries DEF Bought, Rotated
  <2>3. CASE SetWork(p, w, Reloading(work[p][w], e)) /\ mutex' = mutex /\ lost' = lost
    <3>1. Reloading(work[p][w], e) \in Request /\ mutex' \in MutexSpace
      BY <1>2, <2>2, <2>3, NextRequests, TypeSpaces
    <3>2. Becomes(p, w, Reloading(work[p][w], e))
      BY <1>1, <1>2, <2>3, <3>1, WorkerBecomes
    <3> QED
      BY <1>5, <2>2, <2>3, <3>2
  <2>4. CASE Fails(p, w) /\ LosesToken(p, e)
    <3>1. GivesUp(p, w)
      BY <1>1, <1>2, <2>4, Failing
    <3> QED
      BY <1>5, <2>2, <2>4, <3>1 DEF LosesToken
  <2> QED
    BY <1>5, <2>3, <2>4
<1>6. CASE Fails(p, w) /\ UNCHANGED <<serverVars, lost>>
  BY <1>4, <1>6 DEF serverVars
<1>7. CASE /\ r \in live /\ granted < MaxGrants
           /\ granted' = granted + 1
           /\ \E e \in Bought(r) :
                 /\ live' = IF Rotated(e) THEN (live \ {r}) \cup {e.refresh} ELSE live
                 /\ \/ /\ SetWork(p, w, [work[p][w] EXCEPT !.pc = "reload", !.entry = e])
                       /\ UNCHANGED <<mutex, lost>>
                    \/ May("network") /\ Fails(p, w) /\ LosesToken(p, e)
  <2>1. PICK e \in Bought(r) :
           /\ live' = IF Rotated(e) THEN (live \ {r}) \cup {e.refresh} ELSE live
           /\ \/ SetWork(p, w, Reloading(work[p][w], e)) /\ UNCHANGED <<mutex, lost>>
              \/ May("network") /\ Fails(p, w) /\ LosesToken(p, e)
    BY <1>7 DEF Reloading
  <2>2. /\ e \in Entry /\ e.access = granted + 1
        /\ \/ Rotated(e) /\ live' = (live \ {r}) \cup {e.refresh}
           \/ ~Rotated(e) /\ e.refresh = r /\ live' = live
        /\ \/ /\ Becomes(p, w, Reloading(work[p][w], e))
              /\ mutex' = mutex /\ lost' = lost
           \/ /\ GivesUp(p, w)
              /\ lost' = IF Rotated(e) THEN lost \cup {command[p].host} ELSE lost
    BY <1>5, <1>7, <2>1
  <2> QED
    BY <1>1, <1>7, <2>2
<1> QED
  BY <1>1, <1>6, <1>7 DEF Post

LEMMA ReloadEffect ==
    ASSUME TypeOK, Active, NEW p \in Procs, NEW w \in Workers, Reload(p, w)
    PROVE  /\ UNCHANGED <<file, live, granted>> /\ WorkAt(p, w, "reload")
           /\ \/ /\ Becomes(p, w, Storing(work[p][w], file))
                 /\ mutex' = mutex /\ lost' = lost
              \/ /\ GivesUp(p, w)
                 /\ lost' = IF Rotated(work[p][w].entry)
                               THEN lost \cup {command[p].host} ELSE lost
<1>1. /\ UNCHANGED <<file, live, granted>> /\ UNCHANGED clock
      /\ command' = command /\ loggedIn' = loggedIn /\ WorkAt(p, w, "reload")
  BY DEF Reload, serverVars
<1>2. At(p, "push") /\ work[p][w] \in Request
  BY Pushing DEF WorkerStep
<1>3. CASE SetWork(p, w, Storing(work[p][w], file)) /\ mutex' = mutex /\ lost' = lost
  <2>1. Storing(work[p][w], file) \in Request /\ mutex' \in MutexSpace
    BY <1>2, <1>3, NextRequests, TypeSpaces
  <2> QED
    BY <1>1, <1>2, <1>3, <2>1, WorkerBecomes
<1>4. CASE Fails(p, w) /\ LosesToken(p, work[p][w].entry)
  BY <1>1, <1>2, <1>4, Failing DEF LosesToken
<1> QED
  BY <1>3, <1>4 DEF Reload, Storing

LEMMA StoreEffect ==
    ASSUME TypeOK, Active, NEW p \in Procs, NEW w \in Workers, Store(p, w)
    PROVE  LET r == work[p][w]
               h == command[p].host
           IN /\ live' = live /\ granted' = granted /\ WorkAt(p, w, "store")
              /\ \/ /\ file' = [r.base EXCEPT ![h] = r.entry] /\ lost' = lost
                    /\ \/ r.call = "token" /\ Gives(p, w, r.entry.access)
                       \/ Becomes(p, w, Again(r.refused)) /\ Unlocked(p)
                 \/ /\ GivesUp(p, w) /\ file' = file
                    /\ lost' = IF Rotated(r.entry) THEN lost \cup {h} ELSE lost
<1>1. /\ UNCHANGED <<live, granted>> /\ UNCHANGED clock
      /\ command' = command /\ loggedIn' = loggedIn /\ WorkAt(p, w, "store")
  BY DEF Store, serverVars
<1>2. At(p, "push") /\ work[p][w] \in Request
  BY Pushing DEF WorkerStep
<1>3. /\ work[p][w].entry.access \in Token /\ work[p][w].refused \in Token
  BY <1>2, RequestFields, Entries
<1>4. CASE work[p][w].call = "token" /\ SendWith(p, w, work[p][w].entry.access)
  <2>1. Gives(p, w, work[p][w].entry.access)
    BY <1>1, <1>2, <1>3, <1>4, Sending
  <2>2. \/ /\ file' = [work[p][w].base EXCEPT ![command[p].host] = work[p][w].entry]
           /\ lost' = lost
        \/ Fails(p, w) /\ LosesToken(p, work[p][w].entry) /\ file' = file
    BY DEF Store
  <2> QED
    BY <1>1, <1>2, <1>4, <2>1, <2>2, Failing DEF LosesToken
<1>5. CASE SetWork(p, w, Again(work[p][w].refused)) /\ Unlock(p)
  <2>1. mutex' \in MutexSpace /\ Unlocked(p)
    BY <1>5, MutexChanges, TypeSpaces
  <2>2. Becomes(p, w, Again(work[p][w].refused))
    BY <1>1, <1>2, <1>3, <1>5, <2>1, NewRequests, WorkerBecomes
  <2>3. \/ /\ file' = [work[p][w].base EXCEPT ![command[p].host] = work[p][w].entry]
           /\ lost' = lost
        \/ Fails(p, w) /\ LosesToken(p, work[p][w].entry) /\ file' = file
    BY DEF Store
  <2> QED
    BY <1>1, <1>2, <2>1, <2>2, <2>3, Failing DEF LosesToken
<1>6. CASE Fails(p, w) /\ LosesToken(p, work[p][w].entry) /\ file' = file
  BY <1>1, <1>2, <1>6, Failing DEF LosesToken
<1> QED
  BY <1>4, <1>5, <1>6 DEF Store, Again

-----------------------------------------------------------------------------
\* The command of p becomes c while it has no requests.
Commands(p, c) ==
    /\ command' \in CommandSpace /\ command'[p] = c
    /\ \A q \in Procs : q # p => command'[q] = command[q]
    /\ Resting(p) /\ work' = work /\ mutex' = mutex

LEMMA CommandBecomes ==
    ASSUME TypeOK, NEW p \in Procs, NEW c \in Command \cup {NoCommand},
           Become(p, c), Resting(p), work' = work, mutex' = mutex
    PROVE  Commands(p, c)
BY CommandChanges, TypeSpaces DEF Commands

\* What a command that is not a push, or not yet or no longer one, can become.
LEMMA BeginPushEffect ==
    ASSUME TypeOK, Active, NEW p \in Procs, NEW h \in Hosts, BeginPush(p, h)
    PROVE  /\ UNCHANGED <<file, live, granted, loggedIn, lost>> /\ UNCHANGED clock
           /\ At(p, "idle") /\ Alone
           /\ Commands(p, Opening(h, file[h].access))
           /\ Opening(h, file[h].access) \in Command
           /\ Opening(h, file[h].access).pc = "open"
<1>1. /\ UNCHANGED <<file, live, granted, loggedIn, lost>> /\ UNCHANGED clock
      /\ At(p, "idle") /\ Alone /\ work' = work /\ mutex' = mutex
      /\ Become(p, Opening(h, file[h].access))
  BY DEF BeginPush, serverVars, Opening
<1>2. Resting(p)
  BY <1>1 DEF Active, At
<1>3. file[h].access \in Token
  BY TypeSpaces, Entries
<1> QED
  BY <1>1, <1>2, <1>3, CommandFields, CommandBecomes

LEMMA OpenPushEffect ==
    ASSUME TypeOK, Active, NEW p \in Procs, OpenPush(p)
    PROVE  /\ UNCHANGED <<file, live, granted, loggedIn, lost>> /\ UNCHANGED clock
           /\ At(p, "open")
           /\ \/ \E c \in Command : c.pc = "push" /\ Commands(p, c)
              \/ Commands(p, NoCommand)
<1>1. /\ UNCHANGED <<file, live, granted, loggedIn, lost>> /\ UNCHANGED clock
      /\ At(p, "open") /\ work' = work /\ mutex' = mutex
  BY DEF OpenPush, serverVars
<1>2. Resting(p) /\ command[p] \in Command /\ command[p].fixed \in Token
  BY <1>1, CommandChanges, TypeSpaces DEF Active, At
<1>3. ASSUME NEW t \in Token, Become(p, Pushes(command[p], t))
      PROVE  \E c \in Command : c.pc = "push" /\ Commands(p, c)
  BY <1>1, <1>2, <1>3, CommandFields, CommandBecomes
<1>4. CASE Become(p, PushesOn(command[p]))
  BY <1>1, <1>2, <1>4, CommandFields, CommandBecomes
<1>5. CASE Finish(p)
  BY <1>1, <1>2, <1>5, CommandBecomes DEF Finish
<1>6. \/ \E t \in Token : Become(p, Pushes(command[p], t))
      \/ Become(p, PushesOn(command[p]))
      \/ Finish(p)
  <2> DEFINE refreshing == file[command[p].host].refresh # NoGrant
             t == IF refreshing THEN NoGrant ELSE command[p].fixed
  <2>1. t \in Token
    BY <1>2, Tokens
  <2>2. \/ Become(p, Pushes(command[p], t))
        \/ Become(p, PushesOn(command[p]))
        \/ Finish(p)
    BY DEF OpenPush, Pushes, PushesOn
  <2> QED
    BY <2>1, <2>2
<1> QED
  BY <1>1, <1>3, <1>4, <1>5, <1>6

LEMMA EndPushEffect ==
    ASSUME TypeOK, NEW p \in Procs, EndPush(p)
    PROVE  /\ UNCHANGED <<file, live, granted, loggedIn, lost>> /\ UNCHANGED clock
           /\ Commands(p, NoCommand)
<1>1. /\ UNCHANGED <<file, live, granted, loggedIn, lost>> /\ UNCHANGED clock
      /\ Resting(p) /\ work' = work /\ mutex' = mutex /\ Finish(p)
  BY DEF EndPush, serverVars, Resting
<1> QED
  BY <1>1, CommandBecomes DEF Finish

LEMMA BeginLoginEffect ==
    ASSUME TypeOK, Active, NEW p \in Procs, NEW h \in Hosts, BeginLogin(p, h)
    PROVE  /\ UNCHANGED <<file, loggedIn, lost>> /\ UNCHANGED clock
           /\ At(p, "idle") /\ Alone
           /\ granted < MaxGrants /\ granted' = granted + 1
           /\ \E e \in Entry :
                 /\ e.access = granted + 1 /\ e.refresh \in {granted + 1, NoGrant}
                 /\ live' = live \cup ({e.refresh} \ {NoGrant})
                 /\ Commands(p, LoggingIn(h, e))
                 /\ LoggingIn(h, e) \in Command /\ LoggingIn(h, e).pc = "read"
                 /\ LoggingIn(h, e).entry = e
<1>1. /\ UNCHANGED <<file, loggedIn, lost>> /\ UNCHANGED clock
      /\ At(p, "idle") /\ Alone /\ work' = work /\ mutex' = mutex
      /\ granted < MaxGrants /\ granted' = granted + 1
  BY DEF BeginLogin
<1>2. PICK r \in {granted + 1, NoGrant} :
         /\ live' = live \cup ({r} \ {NoGrant})
         /\ Become(p, LoggingIn(h, [access |-> granted + 1, refresh |-> r]))
  BY DEF BeginLogin, LoggingIn
<1>3. Resting(p)
  BY <1>1 DEF Active, At
<1>4. granted + 1 \in Token /\ r \in Token
  BY <1>1, Tokens, TypeSpaces
<1> DEFINE e == [access |-> granted + 1, refresh |-> r]
<1>5. e \in Entry /\ e.access = granted + 1 /\ e.refresh = r
  BY <1>4, Entries
<1>6. Become(p, LoggingIn(h, e)) /\ live' = live \cup ({e.refresh} \ {NoGrant})
  BY <1>2, <1>5
<1> HIDE DEF e
<1>7. /\ LoggingIn(h, e) \in Command /\ LoggingIn(h, e).pc = "read"
      /\ LoggingIn(h, e).entry = e
  BY <1>5, CommandFields
<1>8. Commands(p, LoggingIn(h, e))
  BY <1>1, <1>3, <1>6, <1>7, CommandBecomes
<1> QED
  BY <1>1, <1>2, <1>5, <1>6, <1>7, <1>8

LEMMA BeginLogoutEffect ==
    ASSUME TypeOK, Active, NEW p \in Procs, NEW h \in Hosts, BeginLogout(p, h)
    PROVE  /\ UNCHANGED <<file, live, granted, loggedIn, lost>> /\ UNCHANGED clock
           /\ At(p, "idle") /\ Alone
           /\ Commands(p, LoggingOut(h)) /\ LoggingOut(h) \in Command
           /\ LoggingOut(h).pc = "read" /\ LoggingOut(h).entry = NoEntry
<1>1. /\ UNCHANGED <<file, live, granted, loggedIn, lost>> /\ UNCHANGED clock
      /\ At(p, "idle") /\ Alone /\ work' = work /\ mutex' = mutex
      /\ Become(p, LoggingOut(h))
  BY DEF BeginLogout, serverVars, LoggingOut
<1>2. Resting(p)
  BY <1>1 DEF Active, At
<1> QED
  BY <1>1, <1>2, CommandFields, CommandBecomes

LEMMA ReadFileEffect ==
    ASSUME TypeOK, Active, NEW p \in Procs, ReadFile(p)
    PROVE  /\ UNCHANGED <<file, live, granted, loggedIn, lost>> /\ UNCHANGED clock
           /\ At(p, "read")
           /\ \/ /\ Commands(p, Writing(command[p], file))
                 /\ Writing(command[p], file) \in Command
                 /\ Writing(command[p], file).pc = "write"
                 /\ Writing(command[p], file).entry = command[p].entry
                 /\ Writing(command[p], file).base = file
              \/ Commands(p, NoCommand)
<1>1. /\ UNCHANGED <<file, live, granted, loggedIn, lost>> /\ UNCHANGED clock
      /\ At(p, "read") /\ work' = work /\ mutex' = mutex
  BY DEF ReadFile, serverVars
<1>2. Resting(p) /\ command[p] \in Command
  BY <1>1, CommandChanges, TypeSpaces DEF Active, At
<1>3. CASE Become(p, Writing(command[p], file))
  BY <1>1, <1>2, <1>3, TypeSpaces, CommandFields, CommandBecomes
<1>4. CASE Finish(p)
  BY <1>1, <1>2, <1>4, CommandBecomes DEF Finish
<1> QED
  BY <1>3, <1>4 DEF ReadFile, Writing

LEMMA WriteFileEffect ==
    ASSUME TypeOK, Active, NEW p \in Procs, WriteFile(p)
    PROVE  LET c == command[p] IN
           /\ UNCHANGED <<live, granted>> /\ UNCHANGED clock
           /\ At(p, "write") /\ Commands(p, NoCommand)
           /\ c \in Command /\ c.host \in Hosts /\ c.entry \in Entry /\ c.base \in AuthFile
           /\ \/ /\ file' = [c.base EXCEPT ![c.host] = c.entry]
                 /\ loggedIn' = IF c.entry = NoEntry THEN loggedIn \ {c.host}
                                                     ELSE loggedIn \cup {c.host}
                 /\ lost' = lost \ {c.host}
              \/ UNCHANGED <<file, loggedIn, lost>>
<1>1. /\ UNCHANGED <<live, granted>> /\ UNCHANGED clock
      /\ At(p, "write") /\ work' = work /\ mutex' = mutex /\ Finish(p)
  BY DEF WriteFile, serverVars
<1>2. Resting(p) /\ command[p] \in Command
  BY <1>1, CommandChanges, TypeSpaces DEF Active, At
<1>3. command[p].host \in Hosts /\ command[p].entry \in Entry /\ command[p].base \in AuthFile
  BY <1>2 DEF Command
<1>4. Commands(p, NoCommand)
  BY <1>1, <1>2, CommandBecomes DEF Finish
<1> QED
  BY <1>1, <1>2, <1>3, <1>4 DEF WriteFile

LEMMA CrashEffect ==
    ASSUME TypeOK, NEW p \in Procs, Crash(p)
    PROVE  /\ UNCHANGED <<file, live, granted, loggedIn>> /\ UNCHANGED clock
           /\ ~At(p, "idle")
           /\ command' \in CommandSpace /\ command'[p] = NoCommand
           /\ \A q \in Procs : q # p => command'[q] = command[q]
           /\ mutex' \in MutexSpace /\ work' \in WorkSpace
           /\ \A v \in Workers : work'[p][v].pc = "idle"
           /\ \A q \in Procs, v \in Workers : q # p => work'[q][v] = work[q][v]
           /\ lost' = IF \E w \in Workers : /\ work[p][w].pc \in {"reload", "store"}
                                            /\ Rotated(work[p][w].entry)
                         THEN lost \cup {command[p].host} ELSE lost
<1>1. /\ UNCHANGED <<file, live, granted, loggedIn>> /\ UNCHANGED clock
      /\ ~At(p, "idle") /\ Become(p, NoCommand) /\ Unlock(p)
      /\ work' = [work EXCEPT ![p] = [w \in Workers |-> NoRequest]]
      /\ lost' = IF \E w \in Workers : /\ work[p][w].pc \in {"reload", "store"}
                                       /\ Rotated(work[p][w].entry)
                    THEN lost \cup {command[p].host} ELSE lost
  BY DEF Crash, serverVars, Finish
<1>2. work' \in WorkSpace
  BY <1>1, RequestFields, TypeSpaces DEF WorkSpace
<1>3. /\ \A v \in Workers : work'[p][v] = NoRequest
      /\ \A q \in Procs, v \in Workers : q # p => work'[q][v] = work[q][v]
  BY <1>1, TypeSpaces DEF WorkSpace
<1>4. \A v \in Workers : work'[p][v].pc = "idle"
  BY <1>3, RequestFields
<1> QED
  BY <1>1, <1>2, <1>3, <1>4, CommandChanges, MutexChanges, TypeSpaces

-----------------------------------------------------------------------------
\* A worker's step keeps the types of what every worker's step may change.
LEMMA BecomesTypes ==
    ASSUME TypeOK, Active, NEW p \in Procs, NEW w \in Workers, NEW r, Becomes(p, w, r)
    PROVE  /\ Active'
           /\ file' \in AuthFile /\ live' \subseteq Grants /\ granted' \in Token
              /\ lost' \subseteq Hosts => TypeOK'
<1>1. /\ command' = command /\ loggedIn' = loggedIn /\ stale' = stale /\ expired' = expired
      /\ work' \in WorkSpace /\ mutex' \in MutexSpace /\ At(p, "push") /\ OthersStay(p, w)
  BY DEF Becomes
<1>2. Active'
  BY <1>1 DEF Active, At, Resting, WorkAt, OthersStay
<1>3. stale \in Token /\ expired \in Token /\ command \in CommandSpace /\ loggedIn \subseteq Hosts
  BY TypeSpaces
<1>4. file' \in AuthFile /\ live' \subseteq Grants /\ granted' \in Token
      /\ lost' \subseteq Hosts => TypeOK'
  BY <1>1, <1>3, TypeSpaces DEF TypeOK, CommandSpace, MutexSpace, WorkSpace
<1> QED
  BY <1>2, <1>4

LEMMA GivesTypes ==
    ASSUME NEW p, NEW w
    PROVE  /\ GivesUp(p, w) => \E r : Becomes(p, w, r)
           /\ \A t : Gives(p, w, t) => \E r : Becomes(p, w, r)
BY DEF GivesUp, Gives

\* And so does a command's.
LEMMA CommandTypes ==
    ASSUME TypeOK, Active, NEW p \in Procs, NEW c, Commands(p, c), UNCHANGED clock
    PROVE  /\ Active'
           /\ file' \in AuthFile /\ live' \subseteq Grants /\ granted' \in Token
              /\ loggedIn' \subseteq Hosts /\ lost' \subseteq Hosts => TypeOK'
<1>1. /\ command' \in CommandSpace /\ work' = work /\ mutex' = mutex /\ Resting(p)
      /\ \A q \in Procs : q # p => command'[q] = command[q]
      /\ stale' = stale /\ expired' = expired
  BY DEF Commands, clock
<1>2. Active'
  BY <1>1 DEF Active, At, Resting, WorkAt
<1>3. stale \in Token /\ expired \in Token /\ work \in WorkSpace /\ mutex \in MutexSpace
  BY TypeSpaces
<1>4. file' \in AuthFile /\ live' \subseteq Grants /\ granted' \in Token
      /\ loggedIn' \subseteq Hosts /\ lost' \subseteq Hosts => TypeOK'
  BY <1>1, <1>3 DEF TypeOK, CommandSpace, MutexSpace, WorkSpace
<1> QED
  BY <1>2, <1>4

LEMMA TypeWorkerStep ==
    ASSUME TypeOK, Active, NEW p \in Procs, NEW w \in Workers,
           BeginRequest(p, w) \/ WorkerStep(p, w)
    PROVE  TypeOK' /\ Active'
<1> DEFINE h == command[p].host
           r == work[p][w]
<1>1. /\ h \in Hosts /\ r \in Request /\ r.entry \in Entry /\ r.base \in AuthFile
      /\ r.entry.refresh \in Token
  BY Pushing, RequestFields, Entries
<1>2. /\ file \in AuthFile /\ live \subseteq Grants /\ granted \in Token /\ lost \subseteq Hosts
  BY TypeSpaces
<1>3. CASE BeginRequest(p, w)
  BY <1>2, <1>3, BeginRequestEffect, BecomesTypes
<1>4. CASE Send(p, w)
  BY <1>2, <1>4, SendEffect, BecomesTypes
<1>5. CASE Lock(p, w)
  BY <1>2, <1>5, LockEffect, BecomesTypes
<1>6. CASE Load(p, w)
  BY <1>2, <1>6, LoadEffect, BecomesTypes, GivesTypes
<1>7. CASE Post(p, w)
  <2>1. file' = file /\ \E s : Becomes(p, w, s)
    BY <1>7, PostEffect, GivesTypes
  <2>2. granted' \in Token /\ lost' \subseteq Hosts
    BY <1>1, <1>2, <1>7, PostEffect, Tokens
  <2>3. live' \subseteq Grants
    <3>1. CASE live' = live
      BY <1>2, <3>1
    <3>2. ASSUME NEW e \in Entry, e.access = granted + 1, Rotated(e), granted < MaxGrants,
                 live' = (live \ {r.entry.refresh}) \cup {e.refresh}
          PROVE  live' \subseteq Grants
      BY <1>2, <3>2, Tokens DEF Rotated
    <3> QED
      BY <1>7, <3>1, <3>2, PostEffect
  <2> QED
    BY <1>2, <2>1, <2>2, <2>3, BecomesTypes
<1>8. CASE Reload(p, w)
  <2>1. UNCHANGED <<file, live, granted>> /\ \E s : Becomes(p, w, s)
    BY <1>8, ReloadEffect, GivesTypes
  <2>2. lost' \subseteq Hosts
    BY <1>1, <1>2, <1>8, ReloadEffect
  <2> QED
    BY <1>2, <2>1, <2>2, BecomesTypes
<1>9. CASE Store(p, w)
  <2>1. UNCHANGED <<live, granted>> /\ \E s : Becomes(p, w, s)
    BY <1>9, StoreEffect, GivesTypes
  <2>2. lost' \subseteq Hosts /\ file' \in AuthFile
    BY <1>1, <1>2, <1>9, StoreEffect, Entries
  <2> QED
    BY <1>2, <2>1, <2>2, BecomesTypes
<1> QED
  BY <1>3, <1>4, <1>5, <1>6, <1>7, <1>8, <1>9 DEF WorkerStep

LEMMA TypeStep ==
    ASSUME TypeOK, Active, [Next]_vars
    PROVE  TypeOK' /\ Active'
<1>1. /\ file \in AuthFile /\ live \subseteq Grants /\ granted \in Token
      /\ loggedIn \subseteq Hosts /\ lost \subseteq Hosts
  BY TypeSpaces
<1>2. ASSUME NEW p \in Procs, NEW h \in Hosts, BeginPush(p, h) \/ BeginLogout(p, h)
      PROVE  TypeOK' /\ Active'
  BY <1>1, <1>2, BeginPushEffect, BeginLogoutEffect, CommandTypes
<1>3. ASSUME NEW p \in Procs, NEW h \in Hosts, BeginLogin(p, h)
      PROVE  TypeOK' /\ Active'
  <2>1. PICK e \in Entry :
           /\ e.access = granted + 1 /\ e.refresh \in {granted + 1, NoGrant}
           /\ live' = live \cup ({e.refresh} \ {NoGrant})
           /\ Commands(p, LoggingIn(h, e))
    BY <1>3, BeginLoginEffect
  <2>2. UNCHANGED <<file, loggedIn, lost>> /\ UNCHANGED clock /\ granted < MaxGrants
        /\ granted' = granted + 1
    BY <1>3, BeginLoginEffect
  <2>3. granted' \in Token /\ live' \subseteq Grants
    BY <1>1, <2>1, <2>2, Tokens
  <2> QED
    BY <1>1, <2>1, <2>2, <2>3, CommandTypes
<1>4. ASSUME NEW p \in Procs, LogoutAll(p)
      PROVE  TypeOK' /\ Active'
  <2>1. /\ file' = [h \in Hosts |-> NoEntry] /\ loggedIn' = {} /\ lost' = {}
        /\ UNCHANGED <<live, granted, stale, expired, command, mutex, work>>
    BY <1>4 DEF LogoutAll, serverVars, clock
  <2>2. file' \in AuthFile
    BY <2>1, Entries
  <2>3. Active'
    BY <2>1 DEF Active, At, Resting, WorkAt
  <2> QED
    BY <2>1, <2>2, <2>3 DEF TypeOK
<1>5. ASSUME NEW p \in Procs, OpenPush(p) \/ EndPush(p) \/ ReadFile(p)
      PROVE  TypeOK' /\ Active'
  BY <1>1, <1>5, OpenPushEffect, EndPushEffect, ReadFileEffect, CommandTypes
<1>6. ASSUME NEW p \in Procs, WriteFile(p)
      PROVE  TypeOK' /\ Active'
  <2>1. /\ UNCHANGED <<live, granted>> /\ UNCHANGED clock /\ Commands(p, NoCommand)
    BY <1>6, WriteFileEffect
  <2>2. file' \in AuthFile /\ loggedIn' \subseteq Hosts /\ lost' \subseteq Hosts
    BY <1>1, <1>6, WriteFileEffect, Entries
  <2> QED
    BY <1>1, <2>1, <2>2, CommandTypes
<1>7. ASSUME NEW p \in Procs, Crash(p)
      PROVE  TypeOK' /\ Active'
  <2>1. UNCHANGED <<file, live, granted, loggedIn>> /\ stale' = stale /\ expired' = expired
        /\ command' \in CommandSpace /\ mutex' \in MutexSpace /\ work' \in WorkSpace
    BY <1>7, CrashEffect DEF clock
  <2>2. lost' \subseteq Hosts
    <3>1. command[p].host \in Hosts
      BY <1>7, CrashEffect, CommandChanges, TypeSpaces
    <3> QED
      BY <1>1, <1>7, <3>1, CrashEffect
  <2>3. Active'
    BY <1>7, CrashEffect DEF Active, At, Resting, WorkAt
  <2>4. stale \in Token /\ expired \in Token
    BY TypeSpaces
  <2> QED
    BY <1>1, <2>1, <2>2, <2>3, <2>4 DEF TypeOK, CommandSpace, MutexSpace, WorkSpace
<1>8. CASE Age
  <2>1. UNCHANGED <<file, live, granted, command, mutex, work, loggedIn, lost>>
    BY <1>8 DEF Age, serverVars
  <2>2. stale' \in Token /\ expired' \in Token
    BY <1>8, TypeSpaces, TokenSourceAssumption DEF Age, Token, Grants, NoGrant
  <2>3. Active'
    BY <2>1 DEF Active, At, Resting, WorkAt
  <2> QED
    BY <2>1, <2>2, <2>3 DEF TypeOK
<1>9. CASE UNCHANGED vars
  BY <1>9 DEF vars, TypeOK, Active, At, Resting, WorkAt
<1>10. ASSUME NEW p \in Procs, Begin(p)
       PROVE  TypeOK' /\ Active'
  BY <1>2, <1>3, <1>4, <1>10 DEF Begin
<1>11. ASSUME NEW p \in Procs, CommandStep(p)
       PROVE  TypeOK' /\ Active'
  BY <1>5, <1>6, <1>11 DEF CommandStep
<1>12. ASSUME NEW p \in Procs, NEW w \in Workers, BeginRequest(p, w) \/ WorkerStep(p, w)
       PROVE  TypeOK' /\ Active'
  BY <1>12, TypeWorkerStep
<1>13. CASE Next
  BY <1>7, <1>8, <1>10, <1>11, <1>12, <1>13 DEF Next
<1> QED
  BY <1>9, <1>13

LEMMA TypeInit == Init => TypeOK /\ Active
<1>1. Init => TypeOK
  BY Tokens, Entries, RequestFields DEF Init, TypeOK, NoGrant
<1>2. Init => Active
  BY RequestFields DEF Init, Active, Resting, WorkAt
<1> QED
  BY <1>1, <1>2

\* auth.yaml, the requests and the commands of the model are always well-formed.
THEOREM TypeCorrect == Spec => []TypeOK
<1>1. Init => TypeOK /\ Active
  BY TypeInit
<1>2. (TypeOK /\ Active) /\ [Next]_vars => (TypeOK /\ Active)'
  BY TypeStep
<1> QED
  BY <1>1, <1>2, PTL DEF Spec

-----------------------------------------------------------------------------
(***************************************************************************)
(* The invariant of commands that follow one another.                      *)
(***************************************************************************)
OneAtATime == \A p, q \in Procs : p # q => At(p, "idle") \/ At(q, "idle")

Critical == {"load", "post", "reload", "store"}

\* What a worker knows of auth.yaml and of the server while it holds the mutex.
Holds(p, w) ==
    LET r == work[p][w]
        h == command[p].host
    IN
    /\ r.pc \in Critical => mutex[p] = w
    /\ r.pc = "post" => r.entry = file[h] /\ r.entry.refresh # NoGrant
    /\ r.pc \in {"reload", "store"} =>
          /\ file[h] # NoEntry
          /\ file[h].access < r.entry.access /\ r.entry.access <= granted
          /\ r.entry.refresh \in live /\ r.entry.refresh <= granted
          /\ Rotated(r.entry) \/ r.entry.refresh = file[h].refresh
          /\ \A k \in Hosts \ {h} : file[k].refresh # r.entry.refresh
    /\ r.pc = "store" => r.base = file

\* The tokens a worker of a refreshing push has had are no newer than the stored.
Follows(p, w) ==
    LET r == work[p][w]
        stored == file[command[p].host].access
    IN
    /\ r.pc # "idle" => r.refused <= stored
    /\ r.pc = "send" => /\ r.token <= stored
                        /\ r.retried => r.token = NoGrant \/ r.token > r.refused
    /\ r.pc \notin {"idle", "send"} /\ r.retried /\ r.call = "token" => r.refused < stored

\* What a login or logout is about to write.
Writes(p) ==
    LET c == command[p] IN
    /\ c.entry.refresh \in live \cup {NoGrant}
    /\ c.entry.access <= granted /\ c.entry.refresh <= granted
    /\ \A k \in Hosts : c.entry.refresh # NoGrant => file[k].refresh # c.entry.refresh
    /\ At(p, "write") => c.base = file

Knows(p) ==
    /\ ~At(p, "push") => Resting(p)
    /\ At(p, "push") => \A w \in Workers :
          Holds(p, w) /\ (command[p].fixed = NoGrant => Follows(p, w))
    /\ At(p, "read") \/ At(p, "write") => Writes(p)

Issued == \A h \in Hosts : file[h].access <= granted /\ file[h].refresh <= granted

Apart ==
    \A h, k \in Hosts : h # k /\ file[h].refresh # NoGrant => file[h].refresh # file[k].refresh

Stored == Issued /\ Apart /\ SessionKept /\ LoginKept

TokenInv ==
    /\ TypeOK /\ OneAtATime /\ Stored
    /\ \A p \in Procs : Knows(p)

LEMMA InvActive == TokenInv => TypeOK /\ Active
BY DEF TokenInv, Active, Knows

\* The other processes are idle while one is not.
LEMMA Undisturbed ==
    ASSUME TokenInv, NEW p \in Procs, ~At(p, "idle"),
           \A q \in Procs : q # p => command'[q] = command[q],
           \A q \in Procs, v \in Workers : q # p => work'[q][v] = work[q][v]
    PROVE  /\ \A q \in Procs : q # p => At(q, "idle") /\ Knows(q)'
           /\ OneAtATime'
<1>1. \A q \in Procs : q # p => At(q, "idle") /\ At(q, "idle")' /\ Resting(q)
  BY DEF TokenInv, OneAtATime, Knows, At
<1>2. \A q \in Procs : q # p => Resting(q)'
  BY <1>1 DEF Resting, WorkAt
<1>3. \A q \in Procs : q # p => Knows(q)'
  BY <1>1, <1>2 DEF Knows, At
<1> QED
  BY <1>1, <1>3 DEF OneAtATime, At

\* Nor is another worker in the critical section of the token source.
LEMMA OthersHold ==
    ASSUME TokenInv, NEW p \in Procs, NEW w \in Workers, NEW r, Becomes(p, w, r),
           NEW v \in Workers, v # w, TypeOK',
           file'[command[p].host].access >= file[command[p].host].access,
           \/ mutex[p] = w
           \/ /\ UNCHANGED <<file, live, granted>>
              /\ mutex'[p] = mutex[p] \/ mutex[p] = NoWorker
    PROVE  Holds(p, v)' /\ (command[p].fixed = NoGrant => Follows(p, v)')
<1>1. /\ work'[p][v] = work[p][v] /\ command'[p] = command[p] /\ At(p, "push")
  BY DEF Becomes, OthersStay
<1>2. Holds(p, v) /\ (command[p].fixed = NoGrant => Follows(p, v))
  BY <1>1 DEF TokenInv, Knows
<1>3. Holds(p, v)'
  <2>1. CASE mutex[p] = w
    <3>1. work[p][v].pc \notin Critical
      BY <1>2, <2>1 DEF Holds
    <3> QED
      BY <1>1, <3>1 DEF Holds, Critical
  <2>2. CASE /\ UNCHANGED <<file, live, granted>>
             /\ mutex'[p] = mutex[p] \/ mutex[p] = NoWorker
    <3>1. work[p][v].pc \in Critical => mutex'[p] = v
      BY <1>2, <2>2, TokenSourceAssumption DEF Holds
    <3> QED
      BY <1>1, <1>2, <2>2, <3>1 DEF Holds
  <2> QED
    BY <2>1, <2>2
<1>4. ASSUME command[p].fixed = NoGrant
      PROVE  Follows(p, v)'
  <2>1. /\ work[p][v].refused \in Nat /\ work[p][v].token \in Nat
        /\ file[command[p].host].access \in Nat /\ file'[command[p].host].access \in Nat
    <3>1. command[p].host \in Hosts
      BY <1>1, CommandChanges, TypeSpaces, InvActive DEF At
    <3>2. file \in AuthFile /\ file' \in AuthFile /\ work[p][v] \in Request
      BY TypeSpaces, InvActive, WorkChanges DEF TypeOK
    <3> QED
      BY <3>1, <3>2, Entries, RequestFields, Tokens
  <2>2. Follows(p, v)
    BY <1>2, <1>4
  <2> QED
    BY <1>1, <2>1, <2>2 DEF Follows
<1> QED
  BY <1>3, <1>4

\* So a worker's step keeps the invariant if the worker and auth.yaml do.
LEMMA WorkerKeeps ==
    ASSUME TokenInv, NEW p \in Procs, NEW w \in Workers, NEW r, Becomes(p, w, r), TypeOK',
           file'[command[p].host].access >= file[command[p].host].access,
           \/ mutex[p] = w
           \/ /\ UNCHANGED <<file, live, granted>>
              /\ mutex'[p] = mutex[p] \/ mutex[p] = NoWorker,
           Holds(p, w)', command[p].fixed = NoGrant => Follows(p, w)', Stored'
    PROVE  TokenInv'
<1>1. /\ At(p, "push") /\ At(p, "push")' /\ command' = command /\ OthersStay(p, w)
  BY DEF Becomes, At
<1>2. /\ \A q \in Procs : q # p => Knows(q)'
      /\ OneAtATime'
  BY <1>1, Undisturbed DEF At, OthersStay
<1>3. \A v \in Workers : Holds(p, v)' /\ (command[p].fixed = NoGrant => Follows(p, v)')
  BY OthersHold
<1>4. Knows(p)'
  BY <1>1, <1>3 DEF Knows, At
<1> QED
  BY <1>2, <1>4 DEF TokenInv

\* A step outside of the refresh keeps the session.
LEMMA StoredSame ==
    ASSUME Stored, NEW p \in Procs, NEW w \in Workers, NEW r, Becomes(p, w, r),
           UNCHANGED <<file, live, granted, lost>>, ~(work[p][w].pc \in {"reload", "store"})
    PROVE  Stored'
<1>1. command' = command /\ loggedIn' = loggedIn /\ OthersStay(p, w)
  BY DEF Becomes
<1>2. SessionKept'
  <2> SUFFICES ASSUME NEW h \in Hosts, h \notin lost, file[h].refresh \notin live \cup {NoGrant}
               PROVE  \E q \in Procs, v \in Workers : Refreshes(q, v, h)'
    BY DEF SessionKept
  <2>1. PICK q \in Procs, v \in Workers : Refreshes(q, v, h)
    BY DEF Stored, SessionKept
  <2>2. q # p \/ v # w
    BY <2>1 DEF Refreshes
  <2>3. Refreshes(q, v, h)'
    BY <1>1, <2>1, <2>2 DEF Refreshes, OthersStay
  <2> QED
    BY <2>3
<1> QED
  BY <1>1, <1>2 DEF Stored, Issued, Apart, LoginKept

\* While a worker refreshes, every other host's session is in auth.yaml.
LEMMA OnlyThisHost ==
    ASSUME TokenInv, NEW p \in Procs, At(p, "push"), NEW k \in Hosts, k \notin lost,
           file[k].refresh \notin live \cup {NoGrant}
    PROVE  /\ k = command[p].host
           /\ \E v \in Workers : work[p][v].pc \in {"reload", "store"} /\ mutex[p] = v
<1>1. PICK q \in Procs, v \in Workers : Refreshes(q, v, k)
  BY DEF TokenInv, Stored, SessionKept
<1>2. q = p
  <2> SUFFICES ASSUME q # p PROVE FALSE
    OBVIOUS
  <2>1. At(q, "idle")
    BY DEF TokenInv, OneAtATime, At
  <2>2. WorkAt(q, v, "idle")
    BY <2>1 DEF TokenInv, Knows, At, Resting
  <2> QED
    BY <1>1, <2>2 DEF Refreshes, WorkAt
<1>3. Holds(p, v)
  BY DEF TokenInv, Knows
<1> QED
  BY <1>1, <1>2, <1>3 DEF Refreshes, Holds, Critical

LEMMA IdleKeeps ==
    ASSUME NEW p, NEW w, work'[p][w].pc = "idle"
    PROVE  Holds(p, w)' /\ Follows(p, w)'
BY DEF Holds, Follows, Critical

\* The numbers a worker compares.
LEMMA Numbers ==
    ASSUME TokenInv, NEW p \in Procs, NEW w \in Workers, At(p, "push")
    PROVE  LET r == work[p][w]
               h == command[p].host
           IN /\ h \in Hosts /\ r \in Request /\ file[h] \in Entry /\ r.entry \in Entry
              /\ r.refused \in Nat /\ r.refused \in Token
              /\ r.token \in Nat /\ r.token \in Token
              /\ file[h].access \in Nat /\ file[h].access \in Token
              /\ file[h].refresh \in Nat /\ granted \in Nat
              /\ r.entry.access \in Nat /\ r.entry.refresh \in Nat
              /\ r.entry.access \in Token
              /\ Holds(p, w) /\ (command[p].fixed = NoGrant => Follows(p, w))
<1>1. TypeOK /\ file \in AuthFile /\ granted \in Token /\ work[p][w] \in Request
  BY InvActive, TypeSpaces, WorkChanges
<1>2. command[p].host \in Hosts
  BY <1>1, CommandChanges, TypeSpaces DEF At
<1>3. Holds(p, w) /\ (command[p].fixed = NoGrant => Follows(p, w))
  BY DEF TokenInv, Knows
<1>4. file[command[p].host] \in Entry
  BY <1>1, <1>2, Entries
<1>5. /\ work[p][w].entry \in Entry /\ work[p][w].refused \in Token
      /\ work[p][w].token \in Token
  BY <1>1, RequestFields
<1> QED
  BY <1>1, <1>2, <1>3, <1>4, <1>5, Entries, Tokens

\* Giving up keeps what the worker knows.
LEMMA GivesUpKeeps ==
    ASSUME TokenInv, NEW p \in Procs, NEW w \in Workers, GivesUp(p, w), file' = file
    PROVE  Holds(p, w)' /\ (WorkAt(p, w, "idle") \/ (command[p].fixed = NoGrant => Follows(p, w)'))
<1>1. CASE Becomes(p, w, NoRequest)
  BY <1>1, IdleKeeps, RequestFields DEF Becomes
<1>2. CASE Gives(p, w, NoGrant)
  <2>1. /\ At(p, "push") /\ command' = command
        /\ work'[p][w] = Sent(work[p][w], NoGrant)
    BY <1>2 DEF Gives, Becomes
  <2>2. /\ work'[p][w].pc = "send" /\ work'[p][w].token = NoGrant
        /\ work'[p][w].refused = work[p][w].refused
    <3>1. work[p][w] \in Request /\ NoGrant \in Token
      BY <2>1, Numbers, Tokens
    <3>2. /\ Sent(work[p][w], NoGrant).pc = "send" /\ Sent(work[p][w], NoGrant).token = NoGrant
          /\ SameRetry(work[p][w], Sent(work[p][w], NoGrant))
      BY <3>1, NextRequests
    <3> QED
      BY <2>1, <3>2 DEF SameRetry
  <2>3. Holds(p, w)'
    BY <2>2 DEF Holds, Critical
  <2>4. ASSUME ~WorkAt(p, w, "idle"), command[p].fixed = NoGrant
        PROVE  Follows(p, w)'
    <3>1. Follows(p, w) /\ NoGrant <= file[command[p].host].access
      BY <2>1, <2>4, Numbers, Tokens
    <3> QED
      BY <2>1, <2>2, <2>4, <3>1 DEF Follows, WorkAt
  <2> QED
    BY <2>3, <2>4
<1> QED
  BY <1>1, <1>2 DEF GivesUp

\* Every worker's step keeps the invariant.
LEMMA InvBeginRequest ==
    ASSUME TokenInv, NEW p \in Procs, NEW w \in Workers, BeginRequest(p, w), TypeOK'
    PROVE  TokenInv'
<1>1. /\ UNCHANGED <<file, live, granted, mutex, lost>> /\ WorkAt(p, w, "idle")
      /\ \/ command[p].fixed # NoGrant /\ Becomes(p, w, Fixed(command[p].fixed))
         \/ Becomes(p, w, Waiting)
  BY InvActive, BeginRequestEffect
<1>2. At(p, "push") /\ command' = command /\ command[p].fixed \in Token
  BY <1>1, InvActive, Pushing DEF Becomes
<1>3. file[command[p].host].access \in Nat
  BY <1>2, Numbers
<1>4. ASSUME NEW r, Becomes(p, w, r), Holds(p, w)',
             command[p].fixed = NoGrant => Follows(p, w)'
      PROVE  TokenInv'
  <2>1. Stored'
    BY <1>1, <1>4, StoredSame DEF TokenInv, WorkAt
  <2> QED
    BY <1>1, <1>3, <1>4, <2>1, WorkerKeeps
<1>5. CASE command[p].fixed # NoGrant /\ Becomes(p, w, Fixed(command[p].fixed))
  <2>1. work'[p][w].pc = "send"
    BY <1>2, <1>5, NewRequests DEF Becomes
  <2>2. Holds(p, w)'
    BY <2>1 DEF Holds, Critical
  <2> QED
    BY <1>4, <1>5, <2>2
<1>6. CASE Becomes(p, w, Waiting)
  <2>1. /\ work'[p][w].pc = "lock" /\ work'[p][w].refused = NoGrant
        /\ work'[p][w].retried = FALSE
    BY <1>6, NewRequests DEF Becomes
  <2>2. Holds(p, w)' /\ Follows(p, w)'
    BY <1>1, <1>2, <1>3, <2>1, Tokens DEF Holds, Follows, Critical
  <2> QED
    BY <1>4, <1>6, <2>2
<1> QED
  BY <1>1, <1>5, <1>6

LEMMA InvSend ==
    ASSUME TokenInv, NEW p \in Procs, NEW w \in Workers, Send(p, w), TypeOK'
    PROVE  TokenInv'
<1>1. /\ UNCHANGED <<file, live, granted, mutex, lost>> /\ WorkAt(p, w, "send")
      /\ \/ Becomes(p, w, NoRequest)
         \/ Becomes(p, w, Refused(work[p][w].token))
         \/ /\ command[p].fixed # NoGrant
            /\ Becomes(p, w, Resent(work[p][w], work[p][w].token))
  BY InvActive, SendEffect
<1>2. At(p, "push") /\ command' = command
  BY <1>1 DEF Becomes
<1>3. /\ file[command[p].host].access \in Nat /\ work[p][w].token \in Token
      /\ work[p][w] \in Request
      /\ command[p].fixed = NoGrant => Follows(p, w)
  BY <1>2, Numbers
<1>4. ASSUME NEW r, Becomes(p, w, r), Holds(p, w)',
             command[p].fixed = NoGrant => Follows(p, w)'
      PROVE  TokenInv'
  <2>1. Stored'
    BY <1>1, <1>4, StoredSame DEF TokenInv, WorkAt
  <2> QED
    BY <1>1, <1>3, <1>4, <2>1, WorkerKeeps
<1>5. CASE Becomes(p, w, NoRequest)
  BY <1>4, <1>5, IdleKeeps, RequestFields DEF Becomes
<1>6. CASE Becomes(p, w, Refused(work[p][w].token))
  <2>1. /\ work'[p][w].pc = "lock" /\ work'[p][w].refused = work[p][w].token
        /\ work'[p][w].call = "refresh"
    BY <1>3, <1>6, NewRequests DEF Becomes
  <2>2. Holds(p, w)'
    BY <2>1 DEF Holds, Critical
  <2>3. command[p].fixed = NoGrant => Follows(p, w)'
    BY <1>1, <1>2, <1>3, <2>1 DEF Follows, WorkAt
  <2> QED
    BY <1>4, <1>6, <2>2, <2>3
<1>7. CASE /\ command[p].fixed # NoGrant
           /\ Becomes(p, w, Resent(work[p][w], work[p][w].token))
  <2>1. work'[p][w].pc = "send"
    <3>1. Resent(work[p][w], work[p][w].token).pc = work[p][w].pc
      BY <1>3, NextRequests
    <3> QED
      BY <1>1, <1>7, <3>1 DEF Becomes, WorkAt
  <2>2. Holds(p, w)'
    BY <2>1 DEF Holds, Critical
  <2> QED
    BY <1>4, <1>7, <2>2
<1> QED
  BY <1>1, <1>5, <1>6, <1>7

LEMMA InvLock ==
    ASSUME TokenInv, NEW p \in Procs, NEW w \in Workers, Lock(p, w), TypeOK'
    PROVE  TokenInv'
<1>1. /\ UNCHANGED <<file, live, granted, lost>> /\ WorkAt(p, w, "lock")
      /\ mutex[p] = NoWorker /\ mutex'[p] = w
      /\ Becomes(p, w, Loading(work[p][w]))
  BY InvActive, LockEffect
<1>2. At(p, "push") /\ command' = command
  BY <1>1 DEF Becomes
<1>3. /\ file[command[p].host].access \in Nat /\ work[p][w] \in Request
      /\ command[p].fixed = NoGrant => Follows(p, w)
  BY <1>2, Numbers
<1>4. Stored'
  BY <1>1, StoredSame DEF TokenInv, WorkAt
<1>5. /\ work'[p][w].pc = "load" /\ work'[p][w].call = work[p][w].call
      /\ work'[p][w].refused = work[p][w].refused
      /\ work'[p][w].retried = work[p][w].retried
  BY <1>1, <1>3, NextRequests DEF Becomes, SameRetry
<1>6. Holds(p, w)'
  BY <1>1, <1>5 DEF Holds
<1>7. command[p].fixed = NoGrant => Follows(p, w)'
  BY <1>1, <1>2, <1>3, <1>5 DEF Follows, WorkAt
<1> QED
  BY <1>1, <1>3, <1>4, <1>6, <1>7, WorkerKeeps

LEMMA InvLoad ==
    ASSUME TokenInv, NEW p \in Procs, NEW w \in Workers, Load(p, w), TypeOK'
    PROVE  TokenInv'
<1> DEFINE e == file[command[p].host]
           r == work[p][w]
<1>1. /\ UNCHANGED <<file, live, granted, lost>> /\ WorkAt(p, w, "load")
      /\ \/ e.refresh # NoGrant /\ mutex' = mutex /\ Becomes(p, w, Posting(r, e))
         \/ r.call = "token" /\ Gives(p, w, e.access)
         \/ GivesUp(p, w)
  BY InvActive, LoadEffect
<1>2. At(p, "push") /\ command' = command
  BY <1>1 DEF Becomes, Gives, GivesUp
<1>3. /\ e \in Entry /\ e.access \in Nat /\ e.access \in Token /\ r \in Request
      /\ r.refused \in Nat /\ r = work[p][w] /\ e = file[command[p].host]
      /\ mutex[p] = w /\ (command[p].fixed = NoGrant => Follows(p, w))
  BY <1>1, <1>2, Numbers DEF Holds, WorkAt, Critical
<1> HIDE DEF e, r
<1>4. r \in Request /\ e \in Entry /\ e.access \in Token
  BY <1>3
<1>5. ASSUME NEW s, Becomes(p, w, s), Holds(p, w)',
             command[p].fixed = NoGrant => Follows(p, w)'
      PROVE  TokenInv'
  <2>1. Stored'
    BY <1>1, <1>5, StoredSame DEF TokenInv, WorkAt
  <2> QED
    BY <1>1, <1>3, <1>5, <2>1, WorkerKeeps
<1>6. CASE e.refresh # NoGrant /\ mutex' = mutex /\ Becomes(p, w, Posting(r, e))
  <2>1. Posting(r, e).pc = "post" /\ Posting(r, e).entry = e
        /\ SameRetry(r, Posting(r, e)) /\ Posting(r, e).call = r.call
    BY <1>4, NextRequests
  <2>2. work'[p][w] = Posting(r, e)
    BY <1>6 DEF Becomes
  <2>3. Holds(p, w)'
    BY <1>1, <1>2, <1>3, <1>6, <2>1, <2>2 DEF Holds
  <2>4. command[p].fixed = NoGrant => Follows(p, w)'
    BY <1>1, <1>2, <1>3, <2>1, <2>2 DEF Follows, WorkAt, SameRetry
  <2> QED
    BY <1>5, <1>6, <2>3, <2>4
<1>7. CASE r.call = "token" /\ Gives(p, w, e.access)
  <2>1. Sent(r, e.access).pc = "send" /\ Sent(r, e.access).token = e.access
        /\ SameRetry(r, Sent(r, e.access))
    BY <1>4, NextRequests
  <2>2. work'[p][w] = Sent(r, e.access) /\ Becomes(p, w, Sent(r, e.access))
    BY <1>3, <1>7 DEF Gives, Becomes
  <2>3. Holds(p, w)'
    BY <2>1, <2>2 DEF Holds, Critical
  <2>4. command[p].fixed = NoGrant => Follows(p, w)'
    BY <1>1, <1>2, <1>3, <1>7, <2>1, <2>2 DEF Follows, WorkAt, SameRetry
  <2> QED
    BY <1>5, <2>2, <2>3, <2>4
<1>8. CASE GivesUp(p, w)
  <2>1. /\ Holds(p, w)' /\ (command[p].fixed = NoGrant => Follows(p, w)')
    BY <1>1, <1>8, GivesUpKeeps DEF WorkAt
  <2> QED
    BY <1>5, <1>8, <2>1, GivesTypes
<1> QED
  BY <1>1, <1>6, <1>7, <1>8

\* Giving up in the middle of a refresh: what the server changed is remembered.
LEMMA InvGivesUp ==
    ASSUME TokenInv, NEW p \in Procs, NEW w \in Workers, GivesUp(p, w), TypeOK',
           file' = file, work[p][w].pc \in Critical, Stored'
    PROVE  TokenInv'
<1>1. At(p, "push")
  BY GivesTypes DEF Becomes, GivesUp, Gives
<1>2. mutex[p] = w /\ file[command[p].host].access \in Nat
  BY <1>1, Numbers DEF Holds
<1>3. Holds(p, w)' /\ (command[p].fixed = NoGrant => Follows(p, w)')
  BY GivesUpKeeps DEF WorkAt, Critical
<1> QED
  BY <1>2, <1>3, GivesTypes, WorkerKeeps

LEMMA InvPost ==
    ASSUME TokenInv, NEW p \in Procs, NEW w \in Workers, Post(p, w), TypeOK'
    PROVE  TokenInv'
<1> DEFINE r == work[p][w]
           h == command[p].host
<1>1. /\ file' = file /\ WorkAt(p, w, "post")
      /\ \/ /\ r.entry.refresh \in live /\ granted' = granted + 1
            /\ \E e \in Entry :
                  /\ e.access = granted + 1
                  /\ \/ Rotated(e) /\ live' = (live \ {r.entry.refresh}) \cup {e.refresh}
                     \/ ~Rotated(e) /\ e.refresh = r.entry.refresh /\ live' = live
                  /\ \/ /\ Becomes(p, w, Reloading(r, e))
                        /\ mutex' = mutex /\ lost' = lost
                     \/ /\ GivesUp(p, w)
                        /\ lost' = IF Rotated(e) THEN lost \cup {h} ELSE lost
         \/ GivesUp(p, w) /\ live' = live /\ granted' = granted /\ lost' = lost
  BY InvActive, PostEffect
<1>2. At(p, "push") /\ command' = command /\ loggedIn' = loggedIn
  BY <1>1 DEF Becomes, Gives, GivesUp
<1>3. /\ h \in Hosts /\ r \in Request /\ file[h].access \in Nat /\ r = work[p][w]
      /\ granted \in Nat /\ h = command[p].host
      /\ mutex[p] = w /\ (command[p].fixed = NoGrant => Follows(p, w))
      /\ r.entry = file[h] /\ file[h].refresh # NoGrant /\ file[h].refresh \in Nat
  BY <1>1, <1>2, Numbers DEF Holds, WorkAt, Critical
<1>4. \A k \in Hosts : /\ file[k] \in Entry
                       /\ file[k].access \in Nat /\ file[k].refresh \in Nat
                       /\ file[k].access <= granted /\ file[k].refresh <= granted
  BY InvActive, TypeSpaces, Entries, Tokens DEF TokenInv, Stored, Issued
<1>5. \A k \in Hosts : k # h => file[k].refresh # file[h].refresh
  BY <1>3 DEF TokenInv, Stored, Apart
<1>6. \A k \in Hosts : k \in lost \/ file[k].refresh \in live \cup {NoGrant}
  BY <1>1, <1>2, <1>3, OnlyThisHost DEF WorkAt
<1> HIDE DEF r, h
<1>7. ASSUME granted' \in Nat, granted <= granted',
             \/ \A k \in Hosts : k \in lost' \/ file[k].refresh \in live' \cup {NoGrant}
             \/ /\ work'[p][w].pc = "reload"
                /\ \A k \in Hosts : \/ k \in lost' \/ k = h
                                    \/ file[k].refresh \in live' \cup {NoGrant}
      PROVE  Stored'
  <2>1. Issued'
    <3>1. \A k \in Hosts : file[k].access <= granted' /\ file[k].refresh <= granted'
      BY <1>3, <1>4, <1>7
    <3> QED
      BY <1>1, <3>1 DEF Issued
  <2>2. Apart' /\ LoginKept'
    BY <1>1, <1>2 DEF TokenInv, Stored, Apart, LoginKept
  <2>3. SessionKept'
    BY <1>1, <1>2, <1>3, <1>7 DEF SessionKept, Refreshes
  <2> QED
    BY <2>1, <2>2, <2>3 DEF Stored
<1>8. CASE GivesUp(p, w) /\ live' = live /\ granted' = granted /\ lost' = lost
  <2>1. Stored'
    BY <1>3, <1>6, <1>7, <1>8
  <2> QED
    BY <1>1, <1>8, <2>1, InvGivesUp DEF WorkAt, Critical
<1>9. ASSUME granted' = granted + 1, r.entry.refresh \in live,
             NEW e \in Entry, e.access = granted + 1,
             \/ Rotated(e) /\ live' = (live \ {r.entry.refresh}) \cup {e.refresh}
             \/ ~Rotated(e) /\ e.refresh = r.entry.refresh /\ live' = live,
             \/ Becomes(p, w, Reloading(r, e)) /\ mutex' = mutex /\ lost' = lost
             \/ GivesUp(p, w) /\ lost' = IF Rotated(e) THEN lost \cup {h} ELSE lost
      PROVE  TokenInv'
  <2>1. \A k \in Hosts : k # h => k \in lost \/ file[k].refresh \in live' \cup {NoGrant}
    BY <1>3, <1>5, <1>6, <1>9
  <2>2. CASE GivesUp(p, w) /\ lost' = IF Rotated(e) THEN lost \cup {h} ELSE lost
    <3>1. \A k \in Hosts : k \in lost' \/ file[k].refresh \in live' \cup {NoGrant}
      BY <1>3, <1>6, <1>9, <2>1, <2>2
    <3>2. Stored'
      BY <1>3, <1>7, <1>9, <3>1
    <3> QED
      BY <1>1, <2>2, <3>2, InvGivesUp DEF WorkAt, Critical
  <2>3. CASE Becomes(p, w, Reloading(r, e)) /\ mutex' = mutex /\ lost' = lost
    <3>1. /\ Reloading(r, e).pc = "reload" /\ Reloading(r, e).entry = e
          /\ SameRetry(r, Reloading(r, e)) /\ Reloading(r, e).call = r.call
      <4>1. r \in Request /\ e \in Entry
        BY <1>3
      <4> QED
        BY <4>1, NextRequests
    <3>2. work'[p][w] = Reloading(r, e)
      BY <2>3 DEF Becomes
    <3>3. Stored'
      BY <1>3, <1>7, <1>9, <2>1, <2>3, <3>1, <3>2
    <3>4. /\ e.access <= granted' /\ e.refresh \in live' /\ e.refresh <= granted'
          /\ Rotated(e) \/ e.refresh = file[h].refresh
      BY <1>3, <1>4, <1>9 DEF Rotated
    <3>5. \A k \in Hosts \ {h} : file[k].refresh # e.refresh
      BY <1>3, <1>4, <1>5, <1>9 DEF Rotated
    <3>6. file[h] # NoEntry /\ file[h].access < e.access
      BY <1>3, <1>4, <1>9, Entries
    <3>7. Holds(p, w)'
      BY <1>1, <1>2, <1>3, <2>3, <3>1, <3>2, <3>4, <3>5, <3>6 DEF Holds
    <3>8. command[p].fixed = NoGrant => Follows(p, w)'
      BY <1>1, <1>2, <1>3, <3>1, <3>2 DEF Follows, WorkAt, SameRetry
    <3> QED
      BY <1>1, <1>3, <2>3, <3>3, <3>7, <3>8, WorkerKeeps
  <2> QED
    BY <1>9, <2>2, <2>3
<1> QED
  BY <1>1, <1>8, <1>9 DEF r, h

\* Dropping the tokens that a refresh has bought.
LEMMA InvDrops ==
    ASSUME TokenInv, NEW p \in Procs, NEW w \in Workers, GivesUp(p, w), TypeOK',
           UNCHANGED <<file, live, granted>>, work[p][w].pc \in {"reload", "store"},
           lost' = IF Rotated(work[p][w].entry) THEN lost \cup {command[p].host} ELSE lost
    PROVE  TokenInv'
<1>1. At(p, "push") /\ loggedIn' = loggedIn
  BY GivesTypes DEF Becomes, GivesUp, Gives
<1>2. /\ Rotated(work[p][w].entry) \/ file[command[p].host].refresh \in live
  BY <1>1, Numbers DEF Holds
<1>3. SessionKept'
  <2>1. \A k \in Hosts : k \in lost' \/ file[k].refresh \in live \cup {NoGrant}
    BY <1>1, <1>2, OnlyThisHost
  <2> QED
    BY <2>1 DEF SessionKept
<1>4. Stored'
  BY <1>1, <1>3 DEF TokenInv, Stored, Issued, Apart, LoginKept
<1> QED
  BY <1>4, InvGivesUp DEF Critical

LEMMA InvReload ==
    ASSUME TokenInv, NEW p \in Procs, NEW w \in Workers, Reload(p, w), TypeOK'
    PROVE  TokenInv'
<1> DEFINE r == work[p][w]
<1>1. /\ UNCHANGED <<file, live, granted>> /\ WorkAt(p, w, "reload")
      /\ \/ Becomes(p, w, Storing(r, file)) /\ mutex' = mutex /\ lost' = lost
         \/ /\ GivesUp(p, w)
            /\ lost' = IF Rotated(r.entry) THEN lost \cup {command[p].host} ELSE lost
  BY InvActive, ReloadEffect
<1>2. CASE GivesUp(p, w) /\ lost' = IF Rotated(r.entry) THEN lost \cup {command[p].host} ELSE lost
  BY <1>1, <1>2, InvDrops DEF WorkAt
<1>3. CASE Becomes(p, w, Storing(r, file)) /\ mutex' = mutex /\ lost' = lost
  <2>1. At(p, "push") /\ command' = command /\ loggedIn' = loggedIn /\ OthersStay(p, w)
    BY <1>3 DEF Becomes
  <2>2. r \in Request /\ file \in AuthFile
    BY <2>1, Numbers, InvActive, TypeSpaces
  <2>3. /\ mutex[p] = w /\ Holds(p, w) /\ (command[p].fixed = NoGrant => Follows(p, w))
        /\ file[command[p].host].access \in Nat
    BY <1>1, <2>1, Numbers DEF Holds, WorkAt, Critical
  <2> HIDE DEF r
  <2>4. /\ Storing(r, file).pc = "store" /\ Storing(r, file).base = file
        /\ Storing(r, file).entry = r.entry
        /\ SameRetry(r, Storing(r, file)) /\ Storing(r, file).call = r.call
    BY <2>2, NextRequests
  <2>5. work'[p][w] = Storing(r, file)
    BY <1>3 DEF Becomes
  <2>6. Holds(p, w)'
    BY <1>1, <1>3, <2>1, <2>3, <2>4, <2>5 DEF Holds, WorkAt, r
  <2>7. command[p].fixed = NoGrant => Follows(p, w)'
    BY <1>1, <2>1, <2>3, <2>4, <2>5 DEF Follows, WorkAt, SameRetry, r
  <2>8. SessionKept'
    <3>1. \A k \in Hosts : \/ k \in lost \/ k = command[p].host
                           \/ file[k].refresh \in live \cup {NoGrant}
      BY <2>1, OnlyThisHost
    <3> QED
      BY <1>1, <1>3, <2>1, <2>4, <2>5, <3>1 DEF SessionKept, Refreshes
  <2>9. Stored'
    BY <1>1, <2>1, <2>8 DEF TokenInv, Stored, Issued, Apart, LoginKept
  <2> QED
    BY <1>1, <1>3, <2>3, <2>6, <2>7, <2>9, WorkerKeeps
<1> QED
  BY <1>1, <1>2, <1>3

LEMMA InvStore ==
    ASSUME TokenInv, NEW p \in Procs, NEW w \in Workers, Store(p, w), TypeOK'
    PROVE  TokenInv'
<1> DEFINE r == work[p][w]
           h == command[p].host
<1>1. /\ live' = live /\ granted' = granted /\ WorkAt(p, w, "store")
      /\ \/ /\ file' = [r.base EXCEPT ![h] = r.entry] /\ lost' = lost
            /\ \/ r.call = "token" /\ Gives(p, w, r.entry.access)
               \/ Becomes(p, w, Again(r.refused)) /\ Unlocked(p)
         \/ /\ GivesUp(p, w) /\ file' = file
            /\ lost' = IF Rotated(r.entry) THEN lost \cup {h} ELSE lost
  BY InvActive, StoreEffect
<1>2. CASE /\ GivesUp(p, w) /\ file' = file
           /\ lost' = IF Rotated(r.entry) THEN lost \cup {h} ELSE lost
  BY <1>1, <1>2, InvDrops DEF WorkAt
<1>3. ASSUME file' = [r.base EXCEPT ![h] = r.entry], lost' = lost,
             \/ r.call = "token" /\ Gives(p, w, r.entry.access)
             \/ Becomes(p, w, Again(r.refused)) /\ Unlocked(p)
      PROVE  TokenInv'
  <2>1. At(p, "push") /\ command' = command /\ loggedIn' = loggedIn
    BY <1>3 DEF Becomes, Gives
  <2>2. /\ h \in Hosts /\ r \in Request /\ r.entry \in Entry /\ r.entry.access \in Nat
        /\ r.entry.access \in Token /\ r.refused \in Token /\ r.refused \in Nat
        /\ file[h].access \in Nat
        /\ mutex[p] = w /\ r.base = file /\ file[h] # NoEntry
        /\ file[h].access < r.entry.access /\ r.entry.access <= granted
        /\ r.entry.refresh \in live /\ r.entry.refresh <= granted
        /\ \A k \in Hosts \ {h} : file[k].refresh # r.entry.refresh
        /\ r = work[p][w] /\ h = command[p].host
        /\ command[p].fixed = NoGrant => Follows(p, w)
    BY <1>1, <2>1, Numbers DEF Holds, WorkAt, Critical
  <2> HIDE DEF r, h
  <2>3. file \in AuthFile
    BY InvActive, TypeSpaces
  <2>4. file'[h] = r.entry /\ \A k \in Hosts : k # h => file'[k] = file[k]
    BY <1>3, <2>2, <2>3, Entries
  <2>5. r.entry # NoEntry
    BY <2>2, Entries DEF NoGrant
  <2>6. Issued'
    BY <1>1, <2>2, <2>4 DEF Issued, TokenInv, Stored
  <2>7. Apart'
    <3>1. \A j, k \in Hosts : j # k /\ file'[j].refresh # NoGrant
                                 => file'[j].refresh # file'[k].refresh
      BY <2>2, <2>4 DEF Apart, TokenInv, Stored
    <3> QED
      BY <3>1 DEF Apart
  <2>8. SessionKept'
    <3>1. \A k \in Hosts : k # h => k \in lost \/ file[k].refresh \in live \cup {NoGrant}
      BY <2>1, <2>2, OnlyThisHost
    <3> QED
      BY <1>1, <1>3, <2>2, <2>4, <3>1 DEF SessionKept
  <2>9. LoginKept'
    BY <2>1, <2>2, <2>4, <2>5 DEF LoginKept, TokenInv, Stored
  <2>10. Stored'
    BY <2>6, <2>7, <2>8, <2>9 DEF Stored
  <2>11. file'[h].access >= file[h].access /\ file'[h].access = r.entry.access
    BY <2>2, <2>4
  <2>12. CASE r.call = "token" /\ Gives(p, w, r.entry.access)
    <3>1. /\ Sent(r, r.entry.access).pc = "send"
          /\ Sent(r, r.entry.access).token = r.entry.access
          /\ SameRetry(r, Sent(r, r.entry.access))
      <4>1. r \in Request /\ r.entry.access \in Token
        BY <2>2
      <4> QED
        BY <4>1, NextRequests
    <3>2. work'[p][w] = Sent(r, r.entry.access) /\ Becomes(p, w, Sent(r, r.entry.access))
      BY <2>2, <2>12 DEF Gives, Becomes
    <3>3. Holds(p, w)'
      BY <3>1, <3>2 DEF Holds, Critical
    <3>4. ASSUME command[p].fixed = NoGrant PROVE Follows(p, w)'
      <4>1. /\ r.refused <= file[h].access /\ (r.retried => r.refused < file[h].access)
        BY <1>1, <2>2, <2>12, <3>4 DEF Follows, WorkAt
      <4> QED
        BY <2>1, <2>2, <2>11, <3>1, <3>2, <4>1 DEF Follows, SameRetry
    <3> QED
      BY <2>2, <2>10, <2>11, <3>2, <3>3, <3>4, WorkerKeeps
  <2>13. CASE Becomes(p, w, Again(r.refused)) /\ Unlocked(p)
    <3>1. Again(r.refused).pc = "lock" /\ Again(r.refused).refused = r.refused
      BY <2>2, NewRequests
    <3>2. work'[p][w] = Again(r.refused)
      BY <2>13 DEF Becomes
    <3>3. Holds(p, w)'
      BY <3>1, <3>2 DEF Holds, Critical
    <3>4. ASSUME command[p].fixed = NoGrant PROVE Follows(p, w)'
      <4>1. r.refused <= file[h].access
        BY <1>1, <2>2, <3>4 DEF Follows, WorkAt
      <4> QED
        BY <2>1, <2>2, <2>11, <3>1, <3>2, <4>1 DEF Follows
    <3> QED
      BY <2>2, <2>10, <2>11, <2>13, <3>3, <3>4, WorkerKeeps
  <2> QED
    BY <1>3, <2>12, <2>13
<1> QED
  BY <1>1, <1>2, <1>3

-----------------------------------------------------------------------------
\* A command that has no requests is the only one in progress, and the sessions
\* are in auth.yaml.
LEMMA CommandAlone ==
    ASSUME TokenInv, NEW p \in Procs, NEW c, Commands(p, c), ~At(p, "idle") \/ Alone, ~Overlapping
    PROVE  /\ \A q \in Procs : q # p => At(q, "idle") /\ Knows(q)'
           /\ OneAtATime'
           /\ \A k \in Hosts : k \in lost \/ file[k].refresh \in live \cup {NoGrant}
<1>1. /\ \A q \in Procs : q # p => command'[q] = command[q]
      /\ \A q \in Procs, v \in Workers : q # p => work'[q][v] = work[q][v]
      /\ Resting(p)
  BY DEF Commands
<1>2. \A q \in Procs : q # p => At(q, "idle") /\ At(q, "idle")' /\ Resting(q)
  BY <1>1 DEF TokenInv, OneAtATime, Knows, At, Alone
<1>3. \A q \in Procs : q # p => Knows(q)'
  BY <1>1, <1>2 DEF Knows, At, Resting, WorkAt
<1>4. OneAtATime'
  BY <1>2 DEF OneAtATime
<1>5. \A q \in Procs, v \in Workers : work[q][v].pc = "idle"
  BY <1>1, <1>2 DEF Resting, WorkAt
<1>6. \A k \in Hosts : k \in lost \/ file[k].refresh \in live \cup {NoGrant}
  BY <1>5 DEF TokenInv, Stored, SessionKept, Refreshes
<1> QED
  BY <1>2, <1>3, <1>4, <1>6

LEMMA CommandKeeps ==
    ASSUME TokenInv, NEW p \in Procs, NEW c, Commands(p, c), ~At(p, "idle") \/ Alone,
           ~Overlapping, c.pc \in {"read", "write"} => Writes(p)', Stored', TypeOK'
    PROVE  TokenInv'
<1>1. command'[p] = c /\ \A v \in Workers : work'[p][v].pc = "idle"
  BY DEF Commands, Resting, WorkAt
<1>2. \A v \in Workers : Holds(p, v)' /\ Follows(p, v)'
  BY <1>1, IdleKeeps
<1>3. Knows(p)'
  BY <1>1, <1>2 DEF Knows, At, Resting, WorkAt
<1> QED
  BY <1>3, CommandAlone DEF TokenInv

\* A command that changes nothing but itself.
LEMMA CommandOnly ==
    ASSUME TokenInv, NEW p \in Procs, NEW c, Commands(p, c), ~At(p, "idle") \/ Alone,
           ~Overlapping, UNCHANGED <<file, live, granted, loggedIn, lost>>,
           c.pc \in {"read", "write"} => Writes(p)', TypeOK'
    PROVE  TokenInv'
<1>1. SessionKept'
  BY CommandAlone DEF SessionKept
<1>2. Stored'
  BY <1>1 DEF TokenInv, Stored, Issued, Apart, LoginKept
<1> QED
  BY <1>2, CommandKeeps

LEMMA InvBeginPush ==
    ASSUME TokenInv, ~Overlapping, NEW p \in Procs, NEW h \in Hosts, BeginPush(p, h), TypeOK'
    PROVE  TokenInv'
<1>1. /\ UNCHANGED <<file, live, granted, loggedIn, lost>> /\ Alone
      /\ Commands(p, Opening(h, file[h].access))
      /\ Opening(h, file[h].access).pc = "open"
  BY InvActive, BeginPushEffect
<1> QED
  BY <1>1, CommandOnly

LEMMA InvOpenPush ==
    ASSUME TokenInv, ~Overlapping, NEW p \in Procs, OpenPush(p), TypeOK'
    PROVE  TokenInv'
<1>1. /\ UNCHANGED <<file, live, granted, loggedIn, lost>> /\ ~At(p, "idle")
      /\ \/ \E c \in Command : c.pc = "push" /\ Commands(p, c)
         \/ Commands(p, NoCommand)
  BY InvActive, OpenPushEffect DEF At
<1>2. NoCommand.pc = "idle"
  BY DEF NoCommand
<1> QED
  BY <1>1, <1>2, CommandOnly

LEMMA InvEndPush ==
    ASSUME TokenInv, ~Overlapping, NEW p \in Procs, EndPush(p), TypeOK'
    PROVE  TokenInv'
<1>1. /\ UNCHANGED <<file, live, granted, loggedIn, lost>> /\ ~At(p, "idle")
      /\ Commands(p, NoCommand)
  BY InvActive, EndPushEffect DEF At, EndPush
<1>2. NoCommand.pc = "idle"
  BY DEF NoCommand
<1> QED
  BY <1>1, <1>2, CommandOnly

LEMMA InvBeginLogin ==
    ASSUME TokenInv, ~Overlapping, NEW p \in Procs, NEW h \in Hosts, BeginLogin(p, h), TypeOK'
    PROVE  TokenInv'
<1>1. /\ UNCHANGED <<file, loggedIn, lost>> /\ Alone /\ granted' = granted + 1
  BY InvActive, BeginLoginEffect
<1>2. PICK e \in Entry :
         /\ e.access = granted + 1 /\ e.refresh \in {granted + 1, NoGrant}
         /\ live' = live \cup ({e.refresh} \ {NoGrant})
         /\ Commands(p, LoggingIn(h, e))
         /\ LoggingIn(h, e).pc = "read" /\ LoggingIn(h, e).entry = e
  BY InvActive, BeginLoginEffect
<1>3. /\ granted \in Nat
      /\ \A k \in Hosts : /\ file[k].access \in Nat /\ file[k].refresh \in Nat
                          /\ file[k].access <= granted /\ file[k].refresh <= granted
  BY InvActive, TypeSpaces, Entries, Tokens DEF TokenInv, Stored, Issued
<1>4. command'[p] = LoggingIn(h, e)
  BY <1>2 DEF Commands
<1>5. Writes(p)'
  <2>1. command'[p].pc = "read" /\ command'[p].entry = e
    BY <1>2, <1>4
  <2>2. e.refresh \in live' \cup {NoGrant} /\ e.access <= granted' /\ e.refresh <= granted'
    BY <1>1, <1>2, <1>3 DEF NoGrant
  <2>3. \A k \in Hosts : e.refresh # NoGrant => file'[k].refresh # e.refresh
    BY <1>1, <1>2, <1>3
  <2> QED
    BY <2>1, <2>2, <2>3 DEF Writes, At
<1>6. SessionKept'
  BY <1>1, <1>2, CommandAlone DEF SessionKept
<1>7. Issued'
  BY <1>1, <1>3 DEF Issued
<1>8. Stored'
  BY <1>1, <1>6, <1>7 DEF TokenInv, Stored, Apart, LoginKept
<1> QED
  BY <1>1, <1>2, <1>5, <1>8, CommandKeeps

LEMMA InvBeginLogout ==
    ASSUME TokenInv, ~Overlapping, NEW p \in Procs, NEW h \in Hosts, BeginLogout(p, h), TypeOK'
    PROVE  TokenInv'
<1>1. /\ UNCHANGED <<file, live, granted, loggedIn, lost>> /\ Alone
      /\ Commands(p, LoggingOut(h))
      /\ LoggingOut(h).pc = "read" /\ LoggingOut(h).entry = NoEntry
  BY InvActive, BeginLogoutEffect
<1>2. command'[p] = LoggingOut(h)
  BY <1>1 DEF Commands
<1>3. granted' \in Nat
  BY Tokens DEF TypeOK
<1>4. Writes(p)'
  BY <1>1, <1>2, <1>3, Entries DEF Writes, At, NoGrant
<1> QED
  BY <1>1, <1>4, CommandOnly

LEMMA InvReadFile ==
    ASSUME TokenInv, ~Overlapping, NEW p \in Procs, ReadFile(p), TypeOK'
    PROVE  TokenInv'
<1>1. /\ UNCHANGED <<file, live, granted, loggedIn, lost>> /\ At(p, "read")
      /\ \/ /\ Commands(p, Writing(command[p], file))
            /\ Writing(command[p], file).pc = "write"
            /\ Writing(command[p], file).entry = command[p].entry
            /\ Writing(command[p], file).base = file
         \/ Commands(p, NoCommand)
  BY InvActive, ReadFileEffect
<1>2. ~At(p, "idle") /\ NoCommand.pc = "idle" /\ Writes(p)
  BY <1>1 DEF At, NoCommand, TokenInv, Knows
<1>3. CASE Commands(p, NoCommand)
  BY <1>1, <1>2, <1>3, CommandOnly
<1>4. CASE /\ Commands(p, Writing(command[p], file))
           /\ Writing(command[p], file).pc = "write"
           /\ Writing(command[p], file).entry = command[p].entry
           /\ Writing(command[p], file).base = file
  <2>1. command'[p] = Writing(command[p], file)
    BY <1>4 DEF Commands
  <2>2. Writes(p)'
    BY <1>1, <1>2, <1>4, <2>1 DEF Writes
  <2> QED
    BY <1>1, <1>2, <1>4, <2>2, CommandOnly
<1> QED
  BY <1>1, <1>3, <1>4

LEMMA InvWriteFile ==
    ASSUME TokenInv, ~Overlapping, NEW p \in Procs, WriteFile(p), TypeOK'
    PROVE  TokenInv'
<1> DEFINE c == command[p]
           h == command[p].host
           e == command[p].entry
<1>1. /\ UNCHANGED <<live, granted>> /\ At(p, "write") /\ Commands(p, NoCommand)
      /\ h \in Hosts /\ e \in Entry
      /\ \/ /\ file' = [c.base EXCEPT ![h] = e]
            /\ loggedIn' = IF e = NoEntry THEN loggedIn \ {h} ELSE loggedIn \cup {h}
            /\ lost' = lost \ {h}
         \/ UNCHANGED <<file, loggedIn, lost>>
  BY InvActive, WriteFileEffect
<1>2. /\ ~At(p, "idle") /\ NoCommand.pc = "idle" /\ Writes(p) /\ file \in AuthFile
      /\ c.base = file
  BY <1>1, InvActive, TypeSpaces DEF At, NoCommand, TokenInv, Knows, Writes
<1>3. CASE UNCHANGED <<file, loggedIn, lost>>
  BY <1>1, <1>2, <1>3, CommandOnly
<1>4. CASE /\ file' = [c.base EXCEPT ![h] = e]
           /\ loggedIn' = IF e = NoEntry THEN loggedIn \ {h} ELSE loggedIn \cup {h}
           /\ lost' = lost \ {h}
  <2>1. file'[h] = e /\ \A k \in Hosts : k # h => file'[k] = file[k]
    BY <1>1, <1>2, <1>4, Entries
  <2>2. /\ e.refresh \in live \cup {NoGrant} /\ e.access <= granted /\ e.refresh <= granted
        /\ \A k \in Hosts : e.refresh # NoGrant => file[k].refresh # e.refresh
    BY <1>2 DEF Writes
  <2> HIDE DEF c, h, e
  <2>3. Issued'
    BY <1>1, <2>1, <2>2 DEF Issued, TokenInv, Stored
  <2>4. Apart'
    <3>1. \A j, k \in Hosts : j # k /\ file'[j].refresh # NoGrant
                                 => file'[j].refresh # file'[k].refresh
      BY <2>1, <2>2 DEF Apart, TokenInv, Stored
    <3> QED
      BY <3>1 DEF Apart
  <2>5. SessionKept'
    <3>1. \A k \in Hosts : k \in lost \/ file[k].refresh \in live \cup {NoGrant}
      BY <1>1, <1>2, CommandAlone
    <3> QED
      BY <1>1, <1>4, <2>1, <2>2, <3>1 DEF SessionKept
  <2>6. LoginKept'
    BY <1>1, <1>4, <2>1 DEF LoginKept, TokenInv, Stored
  <2> QED
    BY <1>1, <1>2, <2>3, <2>4, <2>5, <2>6, CommandKeeps DEF Stored
<1> QED
  BY <1>1, <1>3, <1>4

LEMMA InvLogoutAll ==
    ASSUME TokenInv, ~Overlapping, NEW p \in Procs, LogoutAll(p), TypeOK'
    PROVE  TokenInv'
<1>1. /\ file' = [h \in Hosts |-> NoEntry] /\ loggedIn' = {} /\ lost' = {}
      /\ UNCHANGED <<live, granted, command, mutex, work>> /\ Alone
  BY DEF LogoutAll, serverVars
<1>2. \A k \in Hosts : file'[k].access = NoGrant /\ file'[k].refresh = NoGrant
                       /\ file'[k] = NoEntry
  BY <1>1, Entries
<1>3. granted' \in Nat
  BY Tokens DEF TypeOK
<1>4. \A q \in Procs : At(q, "idle") /\ Resting(q)
  BY <1>1 DEF Alone, TokenInv, Knows, At
<1>5. \A q \in Procs : Knows(q)'
  BY <1>1, <1>4 DEF Knows, At, Resting, WorkAt
<1>6. Stored'
  BY <1>1, <1>2, <1>3 DEF Stored, Issued, Apart, SessionKept, LoginKept, NoGrant
<1>7. OneAtATime'
  BY <1>1, <1>4 DEF OneAtATime, At
<1> QED
  BY <1>5, <1>6, <1>7 DEF TokenInv

LEMMA InvCrash ==
    ASSUME TokenInv, NEW p \in Procs, Crash(p), TypeOK'
    PROVE  TokenInv'
<1>1. /\ UNCHANGED <<file, live, granted, loggedIn>> /\ ~At(p, "idle")
      /\ command'[p].pc = "idle"
      /\ \A q \in Procs : q # p => command'[q] = command[q]
      /\ \A v \in Workers : work'[p][v].pc = "idle"
      /\ \A q \in Procs, v \in Workers : q # p => work'[q][v] = work[q][v]
      /\ lost' = IF \E w \in Workers : /\ work[p][w].pc \in {"reload", "store"}
                                       /\ Rotated(work[p][w].entry)
                    THEN lost \cup {command[p].host} ELSE lost
  BY InvActive, CrashEffect DEF NoCommand
<1>2. /\ \A q \in Procs : q # p => At(q, "idle") /\ Knows(q)'
      /\ OneAtATime'
  BY <1>1, Undisturbed
<1>3. Knows(p)'
  BY <1>1 DEF Knows, At, Resting, WorkAt
<1>4. SessionKept'
  <2> SUFFICES ASSUME NEW k \in Hosts, k \notin lost', file[k].refresh \notin live \cup {NoGrant}
               PROVE  FALSE
    BY <1>1 DEF SessionKept
  <2>1. PICK q \in Procs, v \in Workers : Refreshes(q, v, k)
    BY <1>1 DEF TokenInv, Stored, SessionKept
  <2>2. q = p
    BY <1>2, <2>1 DEF TokenInv, Knows, At, Resting, WorkAt, Refreshes
  <2>3. At(p, "push")
    BY <2>1, <2>2 DEF TokenInv, Knows, Resting, WorkAt, Refreshes
  <2>4. /\ work[p][v].pc \in {"reload", "store"} /\ k = command[p].host /\ Holds(p, v)
    BY <2>1, <2>2, <2>3 DEF Refreshes, TokenInv, Knows
  <2>5. Rotated(work[p][v].entry) \/ file[k].refresh \in live
    BY <2>4 DEF Holds
  <2> QED
    BY <1>1, <2>4, <2>5
<1>5. Stored'
  BY <1>1, <1>4 DEF TokenInv, Stored, Issued, Apart, LoginKept
<1> QED
  BY <1>2, <1>3, <1>5 DEF TokenInv

LEMMA InvSame ==
    ASSUME TokenInv, TypeOK',
           UNCHANGED <<file, live, granted, command, mutex, work, loggedIn, lost>>
    PROVE  TokenInv'
<1>1. Stored' /\ OneAtATime'
  BY DEF TokenInv, Stored, Issued, Apart, SessionKept, Refreshes, LoginKept, OneAtATime, At
<1>2. \A p \in Procs : Knows(p)'
  BY DEF TokenInv, Knows, Holds, Follows, Writes, At, Resting, WorkAt
<1> QED
  BY <1>1, <1>2 DEF TokenInv

LEMMA InvWorkerStep ==
    ASSUME TokenInv, NEW p \in Procs, NEW w \in Workers,
           BeginRequest(p, w) \/ WorkerStep(p, w), TypeOK'
    PROVE  TokenInv'
BY InvBeginRequest, InvSend, InvLock, InvLoad, InvPost, InvReload, InvStore DEF WorkerStep

LEMMA InvStep ==
    ASSUME TokenInv, ~Overlapping, [Next]_vars
    PROVE  TokenInv'
<1>1. TypeOK'
  BY InvActive, TypeStep
<1>2. ASSUME NEW p \in Procs, Begin(p)
      PROVE  TokenInv'
  BY <1>1, <1>2, InvBeginPush, InvBeginLogin, InvBeginLogout, InvLogoutAll DEF Begin
<1>3. ASSUME NEW p \in Procs, CommandStep(p)
      PROVE  TokenInv'
  BY <1>1, <1>3, InvOpenPush, InvEndPush, InvReadFile, InvWriteFile DEF CommandStep
<1>4. ASSUME NEW p \in Procs, NEW w \in Workers, BeginRequest(p, w) \/ WorkerStep(p, w)
      PROVE  TokenInv'
  BY <1>1, <1>4, InvWorkerStep
<1>5. CASE Age
  BY <1>1, <1>5, InvSame DEF Age, serverVars
<1>6. CASE UNCHANGED vars
  BY <1>1, <1>6, InvSame DEF vars
<1>7. ASSUME NEW p \in Procs, Crash(p)
      PROVE  TokenInv'
  BY <1>1, <1>7, InvCrash
<1>8. CASE Next
  BY <1>2, <1>3, <1>4, <1>5, <1>7, <1>8 DEF Next
<1> QED
  BY <1>6, <1>8

LEMMA InvInit == Init => TokenInv
<1> SUFFICES ASSUME Init PROVE TokenInv
  OBVIOUS
<1>1. TypeOK
  BY TypeInit
<1>2. \A p \in Procs : At(p, "idle") /\ Resting(p)
  BY RequestFields DEF Init, At, NoCommand, Resting, WorkAt
<1>3. \A h \in Hosts : file[h] = NoEntry
  BY DEF Init
<1>4. granted = 0 /\ loggedIn = {}
  BY DEF Init
<1>5. Stored
  BY <1>3, <1>4, Entries, Tokens DEF Stored, Issued, Apart, SessionKept, LoginKept
<1>6. OneAtATime /\ \A p \in Procs : Knows(p)
  BY <1>2 DEF OneAtATime, Knows, At
<1> QED
  BY <1>1, <1>5, <1>6 DEF TokenInv

THEOREM Invariance == ~Overlapping => (Spec => []TokenInv)
<1>1. Init => TokenInv
  BY InvInit
<1>2. ~Overlapping /\ TokenInv /\ [Next]_vars => TokenInv'
  BY InvStep
<1>3. CASE Overlapping
  BY <1>3
<1>4. CASE ~Overlapping
  <2>1. TokenInv /\ [Next]_vars => TokenInv'
    BY <1>2, <1>4
  <2> QED
    BY <1>1, <2>1, PTL DEF Spec
<1> QED
  BY <1>3, <1>4

\* Commands that follow one another, with any number of workers in each push, never
\* present a refresh token that has been spent.
THEOREM RefreshTokensAreLive == ~Overlapping => (Spec => []LiveRefresh)
<1>1. TokenInv => LiveRefresh
  <2> SUFFICES ASSUME TokenInv, NEW p \in Procs, NEW w \in Workers,
                      WorkAt(p, w, "post"), command[p].host \notin lost
               PROVE  work[p][w].entry.refresh \in live
    BY DEF LiveRefresh
  <2>1. At(p, "push")
    BY DEF TokenInv, Knows, Resting, WorkAt
  <2>2. /\ work[p][w].entry = file[command[p].host] /\ mutex[p] = w
        /\ file[command[p].host].refresh # NoGrant /\ command[p].host \in Hosts
    BY <2>1, Numbers DEF Holds, WorkAt, Critical
  <2> QED
    BY <2>1, <2>2, OnlyThisHost DEF WorkAt
<1> QED
  BY <1>1, Invariance, PTL

\* A session survives every refresh, whatever fails or crashes, short of the loss of a
\* new refresh token that the server has already exchanged for the old.
THEOREM SessionsAreKept == ~Overlapping => (Spec => []SessionKept)
<1>1. TokenInv => SessionKept
  BY DEF TokenInv, Stored
<1> QED
  BY <1>1, Invariance, PTL

\* No command drops or revives the entry of another host.
THEOREM LoginsAreKept == ~Overlapping => (Spec => []LoginKept)
<1>1. TokenInv => LoginKept
  BY DEF TokenInv, Stored
<1> QED
  BY <1>1, Invariance, PTL

\* The retry after a 401 never repeats the refused token.
THEOREM RetriesAreNewer == ~Overlapping => (Spec => []RetryNewer)
<1>1. TokenInv => RetryNewer
  <2> SUFFICES ASSUME TokenInv, NEW p \in Procs, NEW w \in Workers,
                      WorkAt(p, w, "send"), work[p][w].retried, command[p].fixed = NoGrant
               PROVE  \/ work[p][w].token = NoGrant
                      \/ work[p][w].token > work[p][w].refused
    BY DEF RetryNewer
  <2>1. At(p, "push")
    BY DEF TokenInv, Knows, Resting, WorkAt
  <2> QED
    BY <2>1 DEF TokenInv, Knows, Follows, WorkAt
<1> QED
  BY <1>1, Invariance, PTL

=============================================================================
