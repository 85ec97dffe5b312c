---------------------------- MODULE QuietCageProofs ----------------------------
(***************************************************************************)
(* What holds of a cage in a day's use, for every number of commands, one  *)
(* after the other, and of passt processes: state.json tells the truth, a  *)
(* domain has its disk and its network, and the cage keeps the promise of  *)
(* module Cage.                                                            *)
(***************************************************************************)
EXTENDS CageLifecycleProofs

(***************************************************************************)
(* No command is killed, state.json can be written, guests obey, and       *)
(* libvirt refuses nothing but a definition or a start.                    *)
(***************************************************************************)
QuietDays ==
    /\ ~Concurrent /\ ~Legacy
    /\ Faults \cap {"save", "crash", "hang", "reboot", "snapshot", "denied"} = {}

(***************************************************************************)
(* The inductive invariant.  The properties speak of a cage at rest; each  *)
(* part below says of the step c of the one command in progress what is so *)
(* by then, or why it is not so yet or any more.                           *)
(***************************************************************************)
IsoSteps == {"iso_probe", "iso_undefine", "iso_define", "unisolate"}
HaltedSteps == ProbeSteps \cup IsoSteps \cup
    {"save_new", "fix_stopped", "isolate", "boot", "stop_iso", "save_stopped"}
ReadSteps == {"load", "rc_load"} \cup ProbeSteps \cup SeenSteps

\* state.json, and what a State comes with.
Whole(c) ==
    /\ file.kind # "torn" /\ (Saved => file.mode \in Modes)
    /\ Saved /\ c.pc # "delete" => keys /\ disk[file.mode] # "none"
    /\ c.pc \in {"genkeys", "define", "save_new"} => disk[c.mode] = "fresh"
    /\ c.pc \in {"define", "save_new"} => keys
    /\ c.pc \in ReadSteps => Saved /\ file.mode = c.mode
    /\ c.pc \in SeenSteps \cup DoomSteps => c.seen = file
    /\ c.pc \in ProbeSteps => file.status # "running"

\* The domains, and that state.json is about them.
Owned(c) ==
    /\ snaps = {}
    /\ \A m \in Modes :
          /\ dom[m].active => dom[m].defined /\ disk[m] = "data"
          /\ dom[m].defined => disk[m] # "none"
          /\ Known(dom[m]) => \/ Saved /\ file.mode = m
                              \/ c.pc = "save_new" /\ c.mode = m /\ dom[m].net = "slirp"
          /\ dom[m].active => file.status = "running" \/ c.pc = "save_running"
          /\ c.pc \in HaltedSteps => ~dom[m].active
          /\ c.pc \in {"undo_keys", "rm_keys", "delete"} => ~Known(dom[m])

\* The passt a domain connects to, while a start replaces it and otherwise.
Wired(c) ==
    /\ c.mine # NoPasst => c.pc \in IsoSteps \cup {"boot", "save_running"}
                           /\ sock \in {c.mine, NoPasst}
    /\ c.pc \in IsoSteps => c.mine # NoPasst
    /\ c.mine = NoPasst => \A m \in Modes :
          dom[m].defined /\ dom[m].net = "passt" /\ sock \in passt => file.iso = sock
    /\ \A m \in Modes : dom[m].active /\ dom[m].net = "passt" => sock \in passt
    /\ c.pc = "save_stopped" => c.seen.iso = NoPasst \/ sock = NoPasst

\* What a remove has already taken down.
Doomed(c) ==
    /\ c.pc \in {"rm_destroy", "rm_undefine"} =>
          c.uris # {} /\ \A m \in Modes \ c.uris : ~Known(dom[m])
    /\ c.pc = "rm_undefine" =>
          ~dom[IF c.mode \in c.uris THEN c.mode ELSE Other(c.mode)].active
    /\ c.pc = "delete" => "file" \in c.todo \/ file.kind = "absent"
    /\ condemned => file.kind = "absent" \/ c.pc \in DoomSteps \cup {"delete"}

Fits(c) == Whole(c) /\ Owned(c) /\ Wired(c) /\ Doomed(c)

QuietInv ==
    /\ AllIdle => Fits(Idle)
    /\ \A p \in Procs : ~At(p, "idle") => Fits(proc[p])

-----------------------------------------------------------------------------
\* What a command that has gone on to another step still knows.
Same(c, d) ==
    /\ d.mode = c.mode /\ d.seen = c.seen /\ d.mine = c.mine
    /\ d.uris = c.uris /\ d.todo = c.todo

\* Idle knows nothing.
LEMMA IdleFields ==
    Idle.pc = "idle" /\ Idle.mine = NoPasst /\ Idle.mode = "user"
BY DEF Idle

\* A command's record after each kind of step.
LEMMA Gone ==
    ASSUME TypeOK, NEW p \in Procs
    PROVE  /\ Finish(p) => proc'[p] = Idle
           /\ \A s : Goto(p, s) => proc'[p].pc = s /\ Same(proc[p], proc'[p])
<1>1. proc[p] \in Process /\ \A c : Become(p, c) => proc'[p] = c
  BY DEF TypeOK, Become
<1>2. ASSUME NEW s PROVE LET d == [proc[p] EXCEPT !.pc = s] IN d.pc = s /\ Same(proc[p], d)
  BY <1>1 DEF Process, Same
<1> QED
  BY <1>1, <1>2 DEF Finish, Goto

LEMMA RolledBack ==
    ASSUME TypeOK, NEW p \in Procs, NEW s, Rollback(p, s)
    PROVE  /\ proc'[p].pc = s /\ proc'[p].mine = proc[p].mine
           /\ proc'[p].mode = proc[p].mode /\ "file" \in proc'[p].todo
<1> DEFINE t == ArtifactsOf(proc[p].mode)
           d == [proc[p] EXCEPT !.pc = s, !.todo = t]
<1>1. proc[p] \in Process /\ proc'[p] = d
  BY DEF TypeOK, Become, Rollback
<1>2. "file" \in t
  BY DEF ArtifactsOf, Artifacts
<1> HIDE DEF t
<1>3. d.pc = s /\ d.mine = proc[p].mine /\ d.mode = proc[p].mode /\ d.todo = t
  BY <1>1 DEF Process
<1> QED
  BY <1>1, <1>2, <1>3

\* The steps that are for one command to take, in a quiet day.
Steady(p) ==
    /\ TypeOK /\ Knows(p) /\ QuietDays
    /\ ~At(p, "idle") /\ Fits(proc[p])

LEMMA StartCheckFits ==
    ASSUME NEW p \in Procs, Steady(p), StartCheck(p)
    PROVE  Fits(proc[p])'
<1>1. UNCHANGED <<file, hostVars, condemned>> /\ proc[p].pc = "start_check"
  BY DEF StartCheck, At
<1>2. \/ proc'[p] = Idle
      \/ /\ Same(proc[p], proc'[p])
         /\ \/ proc'[p].pc = "mkdisk" /\ file.kind = "absent"
            \/ proc'[p].pc = "load" /\ Saved /\ file.mode = proc[p].mode
            \/ proc'[p].pc = "rc_load" /\ Saved /\ file.mode = proc[p].mode
  BY Gone DEF StartCheck, Steady, Fits, Whole, Saved, Modes
<1>3. Whole(proc[p])'
  BY <1>1, <1>2, IdleFields DEF Steady, Fits, Whole, Saved, hostVars, ReadSteps, SeenSteps,
                                DoomSteps, ProbeSteps, Same
<1>4. Owned(proc[p])'
  BY <1>1, <1>2, IdleFields DEF Steady, Fits, Owned, Saved, hostVars, HaltedSteps, IsoSteps,
                                ProbeSteps, Same
<1>5. Wired(proc[p])'
  BY <1>1, <1>2, IdleFields DEF Steady, Fits, Wired, hostVars, IsoSteps, Same
<1>6. Doomed(proc[p])'
  BY <1>1, <1>2, IdleFields DEF Steady, Fits, Doomed, hostVars, DoomSteps
<1> QED
  BY <1>3, <1>4, <1>5, <1>6 DEF Fits

LEMMA CreateDiskFits ==
    ASSUME NEW p \in Procs, Steady(p), CreateDisk(p)
    PROVE  Fits(proc[p])'
<1>1. /\ UNCHANGED <<file, dom, snaps, keys, passt, sock, condemned>> 
      /\ proc[p].pc = "mkdisk" /\ proc[p].mode \in Modes /\ file.kind = "absent"
      /\ disk \in [Modes -> {"none", "fresh", "data"}]
  BY DEF CreateDisk, At, Steady, Knows, BirthSteps, TypeOK, Process
<1>2. /\ proc'[p].mine = proc[p].mine /\ proc'[p].mode = proc[p].mode
      /\ \/ /\ proc'[p].pc = "genkeys"
            /\ disk' = [disk EXCEPT ![proc[p].mode] = "fresh"]
         \/ /\ proc'[p].pc = "delete" /\ "file" \in proc'[p].todo
            /\ disk' = disk
  BY Gone, RolledBack DEF CreateDisk, Steady, Same
<1>3. Whole(proc[p])'
  BY <1>1, <1>2 DEF Steady, Fits, Whole, Saved, ReadSteps, SeenSteps, DoomSteps, ProbeSteps
<1>4. Owned(proc[p])'
  BY <1>1, <1>2 DEF Steady, Fits, Owned, Saved, Known, HaltedSteps, IsoSteps, ProbeSteps
<1>5. Wired(proc[p])'
  BY <1>1, <1>2 DEF Steady, Fits, Wired, IsoSteps
<1>6. Doomed(proc[p])'
  BY <1>1, <1>2 DEF Steady, Fits, Doomed, DoomSteps
<1> QED
  BY <1>3, <1>4, <1>5, <1>6 DEF Fits

LEMMA GenerateKeysFits ==
    ASSUME NEW p \in Procs, Steady(p), GenerateKeys(p)
    PROVE  Fits(proc[p])'
<1>1. /\ UNCHANGED <<file, dom, snaps, disk, passt, sock, condemned>>
      /\ proc[p].pc = "genkeys" /\ file.kind = "absent"
  BY DEF GenerateKeys, At, Steady, Knows, BirthSteps
<1>2. /\ proc'[p].mine = proc[p].mine /\ proc'[p].mode = proc[p].mode
      /\ \/ proc'[p].pc = "define" /\ keys'
         \/ proc'[p].pc = "delete" /\ "file" \in proc'[p].todo
  BY Gone, RolledBack DEF GenerateKeys, Steady, Same
<1>3. Whole(proc[p])'
  BY <1>1, <1>2 DEF Steady, Fits, Whole, Saved, ReadSteps, SeenSteps, DoomSteps, ProbeSteps
<1>4. Owned(proc[p])'
  BY <1>1, <1>2 DEF Steady, Fits, Owned, Saved, Known, HaltedSteps, IsoSteps, ProbeSteps
<1>5. Wired(proc[p])'
  BY <1>1, <1>2 DEF Steady, Fits, Wired, IsoSteps
<1>6. Doomed(proc[p])'
  BY <1>1, <1>2 DEF Steady, Fits, Doomed, DoomSteps
<1> QED
  BY <1>3, <1>4, <1>5, <1>6 DEF Fits

LEMMA DefineNewFits ==
    ASSUME NEW p \in Procs, Steady(p), DefineNew(p)
    PROVE  Fits(proc[p])'
<1>1. /\ UNCHANGED <<file, disk, keys, passt, sock, condemned>>
      /\ proc[p].pc = "define" /\ proc[p].mode \in Modes /\ file.kind = "absent"
      /\ \A m \in Modes : ~Known(dom[m])
  BY DEF DefineNew, At, Steady, Fits, Owned, Saved, Knows, BirthSteps, TypeOK, Process
<1>2. /\ proc'[p].mine = proc[p].mine /\ proc'[p].mode = proc[p].mode
      /\ \/ /\ proc'[p].pc = "save_new"
            /\ dom' = [dom EXCEPT ![proc[p].mode] = Defined("slirp", EnvInjected)]
            /\ snaps' = snaps \ {proc[p].mode}
         \/ /\ proc'[p].pc = "undo_keys" /\ "file" \in proc'[p].todo
            /\ dom' = dom /\ snaps' = snaps
  BY Gone, RolledBack DEF DefineNew, SetDomain, Steady, Same
<1>3. /\ snaps' = {}
      /\ \A m \in Modes :
            \/ ~Known(dom'[m])
            \/ /\ proc'[p].pc = "save_new" /\ proc'[p].mode = m /\ ~dom'[m].active
               /\ dom'[m].net = "slirp" /\ disk[m] = "fresh"
  BY <1>1, <1>2 DEF Steady, TypeOK, Fits, Owned, Whole, Defined, Known
<1>4. Whole(proc[p])'
  BY <1>1, <1>2 DEF Steady, Fits, Whole, Saved, ReadSteps, SeenSteps, DoomSteps, ProbeSteps
<1>5. Owned(proc[p])'
  BY <1>1, <1>2, <1>3 DEF Owned, Known
<1>6. Wired(proc[p])'
  BY <1>1, <1>2, <1>3 DEF Steady, Fits, Wired, IsoSteps, Known
<1>7. Doomed(proc[p])'
  BY <1>1, <1>2 DEF Steady, Fits, Doomed, DoomSteps
<1> QED
  BY <1>4, <1>5, <1>6, <1>7 DEF Fits

\* Nothing keeps state.json from being written.
LEMMA SavesWork ==
    ASSUME NEW p \in Procs, Steady(p)
    PROVE  ~SaveFails
BY DEF Steady, QuietDays, SaveFails, May

LEMMA SaveNewFits ==
    ASSUME NEW p \in Procs, Steady(p), SaveNew(p)
    PROVE  Fits(proc[p])'
<1>1. /\ UNCHANGED hostVars /\ condemned' = FALSE /\ file' = NewFile(proc[p].mode)
      /\ proc[p].pc = "save_new" /\ proc[p].mode \in Modes /\ file.kind = "absent"
      /\ proc'[p].pc = "load" /\ Same(proc[p], proc'[p])
  BY Gone, SavesWork DEF SaveNew, At, Steady, Knows, BirthSteps, TypeOK, Process
<1>2. file'.kind = "saved" /\ file'.mode = proc[p].mode /\ file'.iso = NoPasst
  BY <1>1 DEF NewFile
<1>3. \A m \in Modes :
         ~dom[m].active /\ (Known(dom[m]) => proc[p].mode = m /\ dom[m].net = "slirp")
  BY <1>1 DEF Steady, Fits, Owned, HaltedSteps, Saved
<1>4. Whole(proc[p])'
  BY <1>1, <1>2 DEF Steady, Fits, Whole, Saved, SeenSteps, DoomSteps, ProbeSteps, hostVars, Same
<1>5. Owned(proc[p])'
  BY <1>1, <1>2, <1>3 DEF Steady, Fits, Owned, Saved, hostVars, HaltedSteps, IsoSteps,
                          ProbeSteps, Known
<1>6. Wired(proc[p])'
  BY <1>1, <1>2, <1>3 DEF Steady, Fits, Wired, IsoSteps, hostVars, Same, Known
<1>7. Doomed(proc[p])'
  BY <1>1, <1>2 DEF Doomed
<1> QED
  BY <1>4, <1>5, <1>6, <1>7 DEF Fits

LEMMA ReconfigureLoadFits ==
    ASSUME NEW p \in Procs, Steady(p), ReconfigureLoad(p)
    PROVE  Fits(proc[p])'
<1>1. UNCHANGED <<file, hostVars, condemned>> /\ proc[p].pc = "rc_load"
  BY DEF ReconfigureLoad, At
<1>2. \/ proc'[p] = Idle
      \/ proc'[p].pc = "rc_probe" /\ Same(proc[p], proc'[p]) /\ file.status # "running"
  BY Gone DEF ReconfigureLoad, Steady
<1>3. Whole(proc[p])'
  BY <1>1, <1>2, IdleFields DEF Steady, Fits, Whole, Saved, hostVars, ReadSteps, SeenSteps,
                                DoomSteps, ProbeSteps, Same
<1>4. \A m \in Modes : file.status # "running" => ~dom[m].active
  BY <1>1 DEF Steady, Fits, Owned
<1>5. Owned(proc[p])'
  BY <1>1, <1>2, <1>4, IdleFields DEF Steady, Fits, Owned, Saved, hostVars, HaltedSteps,
                                      IsoSteps, ProbeSteps
<1>6. Wired(proc[p])'
  BY <1>1, <1>2, IdleFields DEF Steady, Fits, Wired, hostVars, IsoSteps, Same
<1>7. Doomed(proc[p])'
  BY <1>1, <1>2, IdleFields DEF Steady, Fits, Doomed, hostVars, DoomSteps
<1> QED
  BY <1>3, <1>5, <1>6, <1>7 DEF Fits

LEMMA GaveUp ==
    ASSUME TypeOK, NEW p \in Procs, GiveUp(p)
    PROVE  IF proc[p].pc \in ProbeSteps
              THEN proc'[p] = Idle
              ELSE proc'[p].pc = "unisolate" /\ Same(proc[p], proc'[p])
BY Gone DEF GiveUp, ProbeSteps, At

\* Both uses of RedefineDomain: by Reconfigure, and for a new passt.
LEMMA RedefineFits ==
    ASSUME NEW p \in Procs, Steady(p), NEW here, NEW next, NEW net,
           \/ here \in ProbeSteps /\ next \in ProbeSteps \cup {"load"} /\ net = "slirp"
           \/ here \in IsoSteps /\ next \in (IsoSteps \ {"unisolate"}) \cup {"boot"} /\ net = "passt",
           \/ RedefineProbe(p, here, next)
           \/ RedefineUndefine(p, here, next)
           \/ RedefineDefine(p, here, next, net)
    PROVE  Fits(proc[p])'
<1>1. /\ UNCHANGED <<file, disk, keys, passt, sock, condemned>>
      /\ proc[p].pc = here /\ proc[p].mode \in Modes
      /\ snaps = {} /\ dom \in [Modes -> Domain]
      /\ \A m \in Modes : ~dom[m].active
  BY DEF RedefineProbe, RedefineUndefine, RedefineDefine, At, Steady, TypeOK, Process, hostVars,
         Fits, Owned, HaltedSteps
<1>2. \/ proc'[p].pc = next /\ Same(proc[p], proc'[p])
      \/ here \in ProbeSteps /\ proc'[p] = Idle
      \/ here \in IsoSteps /\ proc'[p].pc = "unisolate" /\ Same(proc[p], proc'[p])
  BY <1>1, Gone, GaveUp DEF RedefineProbe, RedefineUndefine, RedefineDefine, Steady
<1>3. snaps' = {}
  BY <1>1 DEF RedefineProbe, RedefineUndefine, RedefineDefine, hostVars
<1>4. \/ dom' = dom
      \/ dom' = [dom EXCEPT ![proc[p].mode] = NoDomain]
      \/ dom' = [dom EXCEPT ![proc[p].mode] = Defined(net, TRUE)]
  BY <1>1 DEF RedefineProbe, RedefineUndefine, RedefineDefine, hostVars, SetDomain, Undefined
<1>5. \A m \in Modes :
         /\ ~dom'[m].active
         /\ \/ ~Known(dom'[m])
            \/ dom'[m] = dom[m]
            \/ m = proc[p].mode /\ dom'[m].net = net
  BY <1>1, <1>4 DEF NoDomain, Defined, Known
<1>6. /\ Saved /\ file.mode = proc[p].mode /\ disk[file.mode] # "none" /\ keys
      /\ here \in SeenSteps => proc[p].seen = file
      /\ here \in ProbeSteps => file.status # "running"
  BY <1>1 DEF Steady, Fits, Whole, ReadSteps, SeenSteps, ProbeSteps, IsoSteps
<1>7. Whole(proc[p])'
  BY <1>1, <1>2, <1>6, IdleFields DEF Steady, Fits, Whole, Saved, ReadSteps, SeenSteps,
                                      DoomSteps, ProbeSteps, IsoSteps, Same
<1>8. Owned(proc[p])'
  BY <1>1, <1>3, <1>5, <1>6, <1>2, IdleFields DEF Steady, Fits, Owned, Saved, Known,
                                                  ProbeSteps, IsoSteps
<1>9. Wired(proc[p])'
  <2>1. here \in ProbeSteps => proc[p].mine = NoPasst
    BY <1>1 DEF Steady, Fits, Wired, ProbeSteps, IsoSteps
  <2>2. here \in IsoSteps => proc[p].mine # NoPasst
    BY <1>1 DEF Steady, Fits, Wired
  <2> QED
    BY <1>1, <1>2, <1>5, <2>1, <2>2, IdleFields DEF Steady, Fits, Wired, Same, Known,
                                                    ProbeSteps, IsoSteps
<1>10. Doomed(proc[p])'
  BY <1>1, <1>2, IdleFields DEF Steady, Fits, Doomed, DoomSteps, ProbeSteps, IsoSteps
<1> QED
  BY <1>7, <1>8, <1>9, <1>10 DEF Fits

LEMMA ReconfigureFits ==
    ASSUME NEW p \in Procs, Steady(p), Reconfigure(p)
    PROVE  Fits(proc[p])'
BY ReconfigureLoadFits, RedefineFits DEF Reconfigure, ProbeSteps

LEMMA IsolatedRedefineFits ==
    ASSUME NEW p \in Procs, Steady(p), IsolatedRedefine(p)
    PROVE  Fits(proc[p])'
BY RedefineFits DEF IsolatedRedefine, IsoSteps

\* What a corrected State still says.
LEMMA Corrected ==
    ASSUME NEW f \in StateFile, NEW s, NEW i
    PROVE  /\ LET g == [f EXCEPT !.status = s] IN
                g.kind = f.kind /\ g.mode = f.mode /\ g.iso = f.iso /\ g.status = s
           /\ LET g == [f EXCEPT !.status = s, !.iso = i] IN
                g.kind = f.kind /\ g.mode = f.mode /\ g.iso = i /\ g.status = s
BY DEF StateFile

\* No process is nobody's.
LEMMA NobodyAlive == TypeOK => NoPasst \notin passt /\ NoPasst \notin PasstIds
BY LifecycleAssumption DEF TypeOK, PasstIds, NoPasst

\* A command that has read a State reads it as it is.
LEMMA ReadsFile ==
    ASSUME NEW p \in Procs, Steady(p), proc[p].pc \in ReadSteps
    PROVE  /\ Saved /\ file.mode = proc[p].mode /\ proc[p].mode \in Modes
           /\ disk[proc[p].mode] # "none" /\ keys
           /\ proc[p].pc \in SeenSteps => proc[p].seen = file
           /\ \A m \in Modes : Known(dom[m]) => m = proc[p].mode
<1>1. proc[p].pc # "delete" /\ proc[p].pc # "save_new"
  BY DEF ReadSteps, ProbeSteps, SeenSteps
<1> QED
  BY <1>1 DEF Steady, Fits, Whole, Owned, TypeOK, Process

LEMMA LoadFits ==
    ASSUME NEW p \in Procs, Steady(p), Load(p)
    PROVE  Fits(proc[p])'
<1>1. UNCHANGED <<file, hostVars, condemned>> /\ proc[p].pc = "load" /\ proc[p] \in Process
  BY DEF Load, At, Steady, TypeOK
<1>2. \/ proc'[p] = Idle
      \/ /\ proc'[p].pc = "active" /\ proc'[p].mode = proc[p].mode
         /\ proc'[p].mine = proc[p].mine /\ proc'[p].seen = file
  <2>1. \/ proc'[p] = Idle
        \/ proc'[p] = [proc[p] EXCEPT !.pc = "active", !.seen = file]
    BY <1>1, Gone, Moves DEF Load, Steady
  <2> QED
    BY <1>1, <2>1 DEF Process
<1>3. Whole(proc[p])'
  BY <1>1, <1>2, ReadsFile, IdleFields DEF Steady, Fits, Whole, Saved, hostVars, ReadSteps,
                                           SeenSteps, DoomSteps, ProbeSteps
<1>4. Owned(proc[p])'
  BY <1>1, <1>2, IdleFields DEF Steady, Fits, Owned, Saved, hostVars, HaltedSteps, IsoSteps,
                                ProbeSteps
<1>5. Wired(proc[p])'
  BY <1>1, <1>2, IdleFields DEF Steady, Fits, Wired, hostVars, IsoSteps
<1>6. Doomed(proc[p])'
  BY <1>1, <1>2, IdleFields DEF Steady, Fits, Doomed, hostVars, DoomSteps
<1> QED
  BY <1>3, <1>4, <1>5, <1>6 DEF Fits

LEMMA CheckActiveFits ==
    ASSUME NEW p \in Procs, Steady(p), CheckActive(p)
    PROVE  Fits(proc[p])'
<1>1. UNCHANGED <<file, hostVars, condemned>> /\ proc[p].pc = "active"
  BY DEF CheckActive, At
<1>2. /\ Saved /\ file.mode = proc[p].mode /\ proc[p].mode \in Modes /\ proc[p].seen = file
      /\ \A m \in Modes : dom[m].active => m = proc[p].mode /\ file.status = "running"
  BY <1>1, ReadsFile DEF ReadSteps, SeenSteps, Known, Steady, Fits, Owned
<1>3. \/ proc'[p] = Idle
      \/ /\ proc'[p].pc \in {"fix_stopped", "isolate", "boot"} /\ Same(proc[p], proc'[p])
         /\ \A m \in Modes : ~dom[m].active
  BY <1>2, Gone DEF CheckActive, Steady, AfterActive
<1>4. Whole(proc[p])'
  BY <1>1, <1>2, <1>3, IdleFields DEF Steady, Fits, Whole, Saved, hostVars, ReadSteps,
                                      SeenSteps, DoomSteps, ProbeSteps, Same
<1>5. Owned(proc[p])'
  BY <1>1, <1>3, IdleFields DEF Steady, Fits, Owned, Saved, hostVars, HaltedSteps, ProbeSteps,
                                IsoSteps
<1>6. Wired(proc[p])'
  BY <1>1, <1>3, IdleFields DEF Steady, Fits, Wired, hostVars, IsoSteps, Same
<1>7. Doomed(proc[p])'
  BY <1>1, <1>3, IdleFields DEF Steady, Fits, Doomed, hostVars, DoomSteps
<1> QED
  BY <1>4, <1>5, <1>6, <1>7 DEF Fits

LEMMA FixRunningFits ==
    ASSUME NEW p \in Procs, Steady(p), FixRunning(p)
    PROVE  Fits(proc[p])'
<1>1. /\ UNCHANGED <<hostVars, condemned>> /\ proc[p].pc = "fix_running"
      /\ proc'[p] = Idle /\ file' = [proc[p].seen EXCEPT !.status = "running"]
  BY Gone, SavesWork DEF FixRunning, At, Steady
<1>2. /\ Saved /\ file.mode = proc[p].mode /\ proc[p].seen = file
      /\ file'.kind = file.kind /\ file'.mode = file.mode /\ file'.iso = file.iso
      /\ file'.status = "running"
  BY <1>1, ReadsFile, Corrected DEF ReadSteps, SeenSteps, Steady, TypeOK
<1>3. Whole(proc[p])'
  BY <1>1, <1>2, IdleFields DEF Steady, Fits, Whole, Saved, hostVars, ReadSteps, SeenSteps,
                                DoomSteps, ProbeSteps
<1>4. Owned(proc[p])'
  BY <1>1, <1>2, IdleFields DEF Steady, Fits, Owned, Saved, hostVars, HaltedSteps, IsoSteps,
                                ProbeSteps
<1>5. Wired(proc[p])'
  BY <1>1, <1>2, IdleFields DEF Steady, Fits, Wired, hostVars, IsoSteps
<1>6. Doomed(proc[p])'
  BY <1>1, <1>2, IdleFields DEF Steady, Fits, Doomed, hostVars, DoomSteps
<1> QED
  BY <1>3, <1>4, <1>5, <1>6 DEF Fits

LEMMA FixStoppedFits ==
    ASSUME NEW p \in Procs, Steady(p), FixStopped(p)
    PROVE  Fits(proc[p])'
<1> DEFINE s == [proc[p].seen EXCEPT !.status = "stopped"]
           next == AfterActive(proc[p].mode)
<1>1. /\ UNCHANGED <<hostVars, condemned>> /\ proc[p].pc = "fix_stopped"
      /\ proc'[p] = [proc[p] EXCEPT !.pc = next, !.seen = s] /\ file' = s
      /\ proc[p] \in Process
  BY Moves, SavesWork DEF FixStopped, At, Steady, TypeOK
<1>2. /\ Saved /\ file.mode = proc[p].mode /\ proc[p].seen = file
      /\ s.kind = file.kind /\ s.mode = file.mode /\ s.iso = file.iso
      /\ s.status = "stopped" /\ next \in {"isolate", "boot"}
  BY <1>1, ReadsFile, Corrected DEF ReadSteps, SeenSteps, Steady, TypeOK, AfterActive
<1> HIDE DEF s, next
<1>3. /\ proc'[p].pc = next /\ proc'[p].seen = s
      /\ proc'[p].mode = proc[p].mode /\ proc'[p].mine = proc[p].mine
  BY <1>1 DEF Process
<1>4. Whole(proc[p])'
  BY <1>1, <1>2, <1>3 DEF Steady, Fits, Whole, Saved, hostVars, ReadSteps, SeenSteps,
                          DoomSteps, ProbeSteps
<1>5. Owned(proc[p])'
  BY <1>1, <1>2, <1>3 DEF Steady, Fits, Owned, Saved, hostVars, HaltedSteps
<1>6. Wired(proc[p])'
  BY <1>1, <1>2, <1>3 DEF Steady, Fits, Wired, hostVars, IsoSteps
<1>7. Doomed(proc[p])'
  BY <1>1, <1>2, <1>3 DEF Steady, Fits, Doomed, hostVars, DoomSteps
<1> QED
  BY <1>4, <1>5, <1>6, <1>7 DEF Fits

LEMMA IsolateFits ==
    ASSUME NEW p \in Procs, Steady(p), Isolate(p)
    PROVE  Fits(proc[p])'
<1>1. /\ UNCHANGED <<file, dom, snaps, disk, keys, condemned>>
      /\ proc[p].pc = "isolate" /\ proc[p] \in Process /\ proc[p].mine = NoPasst
      /\ \A m \in Modes : ~dom[m].active
  BY DEF Isolate, At, Steady, TypeOK, Fits, Owned, Wired, HaltedSteps, IsoSteps
<1>2. \/ \E i \in PasstIds :
            /\ proc'[p] = [proc[p] EXCEPT !.pc = "iso_probe", !.mine = i]
            /\ sock' \in {i, NoPasst}
      \/ /\ proc'[p].pc = "boot" /\ Same(proc[p], proc'[p])
         /\ passt' = passt /\ sock' \in {sock, NoPasst}
  BY Gone, Moves DEF Isolate, Steady
<1>3. /\ proc'[p].mode = proc[p].mode /\ proc'[p].seen = proc[p].seen
      /\ \/ /\ proc'[p].pc = "iso_probe"
            /\ proc'[p].mine # NoPasst /\ sock' \in {proc'[p].mine, NoPasst}
         \/ /\ proc'[p].pc = "boot" /\ proc'[p].mine = NoPasst
            /\ passt' = passt /\ sock' \in {sock, NoPasst}
  <2>1. CASE \E i \in PasstIds :
                 /\ proc'[p] = [proc[p] EXCEPT !.pc = "iso_probe", !.mine = i]
                 /\ sock' \in {i, NoPasst}
    BY <1>1, <2>1, NobodyAlive DEF Process, Steady
  <2>2. CASE /\ proc'[p].pc = "boot" /\ Same(proc[p], proc'[p])
             /\ passt' = passt /\ sock' \in {sock, NoPasst}
    BY <1>1, <2>2 DEF Same
  <2> QED
    BY <1>2, <2>1, <2>2
<1>4. Whole(proc[p])'
  BY <1>1, <1>3 DEF Steady, Fits, Whole, Saved, ReadSteps, SeenSteps, DoomSteps, ProbeSteps
<1>5. Owned(proc[p])'
  BY <1>1, <1>3 DEF Steady, Fits, Owned, Saved
<1>6. Wired(proc[p])'
  BY <1>1, <1>3, NobodyAlive DEF Steady, Fits, Wired, IsoSteps
<1>7. Doomed(proc[p])'
  BY <1>1, <1>3 DEF Steady, Fits, Doomed, DoomSteps
<1> QED
  BY <1>4, <1>5, <1>6, <1>7 DEF Fits

LEMMA UnisolateFits ==
    ASSUME NEW p \in Procs, Steady(p), Unisolate(p)
    PROVE  Fits(proc[p])'
<1>1. /\ UNCHANGED <<file, dom, snaps, disk, keys, condemned>>
      /\ proc[p].pc = "unisolate" /\ proc'[p] = Idle
      /\ sock' = NoPasst /\ NoPasst \notin passt'
      /\ \A m \in Modes : ~dom[m].active
  BY Gone, NobodyAlive DEF Unisolate, Cleanup, At, Steady, Fits, Owned, HaltedSteps, IsoSteps
<1>2. Whole(proc[p])'
  BY <1>1, IdleFields DEF Steady, Fits, Whole, Saved, ReadSteps, SeenSteps, DoomSteps,
                          ProbeSteps
<1>3. Owned(proc[p])'
  BY <1>1, IdleFields DEF Steady, Fits, Owned, Saved
<1>4. Wired(proc[p])'
  BY <1>1, IdleFields DEF Steady, Fits, Wired, IsoSteps
<1>5. Doomed(proc[p])'
  BY <1>1, IdleFields DEF Steady, Fits, Doomed, DoomSteps
<1> QED
  BY <1>2, <1>3, <1>4, <1>5 DEF Fits

LEMMA BootFits ==
    ASSUME NEW p \in Procs, Steady(p), Boot(p)
    PROVE  Fits(proc[p])'
<1> DEFINE m == proc[p].mode
           d == [dom[m] EXCEPT !.active = TRUE]
<1>1. /\ UNCHANGED <<file, snaps, keys, passt, sock, condemned>>
      /\ proc[p].pc = "boot" /\ proc[p] \in Process
      /\ Saved /\ file.mode = m /\ m \in Modes /\ proc[p].seen = file
      /\ \A n \in Modes : ~dom[n].active /\ (Known(dom[n]) => n = m)
      /\ dom \in [Modes -> Domain] /\ disk \in [Modes -> {"none", "fresh", "data"}]
  BY ReadsFile DEF Boot, At, Steady, TypeOK, Fits, Owned, HaltedSteps, ReadSteps, SeenSteps
<1>2. CASE /\ CanBoot(m) /\ SetDomain(m, d) /\ Goto(p, "save_running")
           /\ disk' = [disk EXCEPT ![m] = "data"]
  <2>1. proc'[p].pc = "save_running" /\ Same(proc[p], proc'[p])
    BY <1>2, Gone DEF Steady
  <2>2. d.defined = dom[m].defined /\ d.net = dom[m].net
    BY <1>1 DEF Domain
  <2> HIDE DEF d
  <2>3. /\ dom'[m] = d /\ d.defined /\ (d.net = "passt" => sock \in passt)
        /\ disk'[m] = "data"
        /\ \A n \in Modes \ {m} : dom'[n] = dom[n] /\ ~Known(dom[n]) /\ disk'[n] = disk[n]
    BY <1>1, <1>2, <2>2 DEF CanBoot, SetDomain
  <2> HIDE DEF m
  <2>4. Whole(proc[p])'
    BY <1>1, <2>1, <2>3 DEF m, Steady, Fits, Whole, Saved, ReadSteps, SeenSteps, DoomSteps,
                            ProbeSteps, Same
  <2>5. Owned(proc[p])'
    BY <1>1, <2>1, <2>3 DEF Steady, Fits, Owned, Saved, Known, HaltedSteps, IsoSteps,
                            ProbeSteps, Same
  <2>6. Wired(proc[p])'
    BY <1>1, <2>1, <2>3, <2>2 DEF Steady, Fits, Wired, Known, IsoSteps, Same
  <2>7. Doomed(proc[p])'
    BY <1>1, <2>1 DEF Steady, Fits, Doomed, DoomSteps
  <2> QED
    BY <2>4, <2>5, <2>6, <2>7 DEF Fits
<1>3. CASE /\ IF proc[p].mine = NoPasst THEN Finish(p) ELSE Goto(p, "unisolate")
           /\ UNCHANGED <<dom, disk>>
  <2>1. \/ proc[p].mine = NoPasst /\ proc'[p] = Idle
        \/ proc[p].mine # NoPasst /\ proc'[p].pc = "unisolate" /\ Same(proc[p], proc'[p])
    BY <1>3, Gone DEF Steady
  <2>2. Whole(proc[p])'
    BY <1>1, <1>3, <2>1, IdleFields DEF Steady, Fits, Whole, Saved, ReadSteps, SeenSteps,
                                        DoomSteps, ProbeSteps, Same
  <2>3. Owned(proc[p])'
    BY <1>1, <1>3, <2>1, IdleFields DEF Steady, Fits, Owned, Saved
  <2>4. Wired(proc[p])'
    BY <1>1, <1>3, <2>1, IdleFields DEF Steady, Fits, Wired, IsoSteps, Same
  <2>5. Doomed(proc[p])'
    BY <1>1, <1>3, <2>1, IdleFields DEF Steady, Fits, Doomed, DoomSteps
  <2> QED
    BY <2>2, <2>3, <2>4, <2>5 DEF Fits
<1> QED
  BY <1>2, <1>3 DEF Boot

LEMMA SaveRunningFits ==
    ASSUME NEW p \in Procs, Steady(p), SaveRunning(p)
    PROVE  Fits(proc[p])'
<1> DEFINE i == IF proc[p].mine = NoPasst THEN proc[p].seen.iso ELSE proc[p].mine
           s == [proc[p].seen EXCEPT !.status = "running", !.iso = i]
<1>1. /\ UNCHANGED <<hostVars, condemned>> /\ proc[p].pc = "save_running"
      /\ proc'[p] = Idle /\ file' = s
  BY Gone, SavesWork DEF SaveRunning, At, Steady
<1>2. Saved /\ file.mode = proc[p].mode /\ proc[p].seen = file /\ file \in StateFile
  BY <1>1, ReadsFile DEF ReadSteps, SeenSteps, Steady, TypeOK
<1>3. i = IF proc[p].mine = NoPasst THEN file.iso ELSE proc[p].mine
  BY <1>2
<1> HIDE DEF i
<1>4. /\ file'.kind = file.kind /\ file'.mode = file.mode
      /\ file'.status = "running" /\ file'.iso = i
  BY <1>1, <1>2, Corrected
<1> HIDE DEF s
<1>5. Whole(proc[p])'
  BY <1>1, <1>2, <1>4, IdleFields DEF Steady, Fits, Whole, Saved, hostVars, ReadSteps,
                                      SeenSteps, DoomSteps, ProbeSteps
<1>6. Owned(proc[p])'
  BY <1>1, <1>2, <1>4, IdleFields DEF Steady, Fits, Owned, Saved, hostVars, HaltedSteps,
                                      IsoSteps, ProbeSteps
<1>7. Wired(proc[p])'
  BY <1>1, <1>3, <1>4, NobodyAlive, IdleFields DEF Steady, Fits, Wired, hostVars, IsoSteps
<1>8. Doomed(proc[p])'
  BY <1>1, <1>2, <1>4, IdleFields DEF Steady, Fits, Doomed, hostVars, DoomSteps
<1> QED
  BY <1>5, <1>6, <1>7, <1>8 DEF Fits

LEMMA StartFits ==
    ASSUME NEW p \in Procs, Steady(p), StartStep(p)
    PROVE  Fits(proc[p])'
BY StartCheckFits, CreateDiskFits, GenerateKeysFits, DefineNewFits, SaveNewFits,
   ReconfigureFits,
   LoadFits, CheckActiveFits, FixRunningFits, FixStoppedFits, IsolateFits, IsolatedRedefineFits,
   UnisolateFits, BootFits, SaveRunningFits
DEF StartStep

-----------------------------------------------------------------------------
LEMMA RestartCheckFits ==
    ASSUME NEW p \in Procs, Steady(p), RestartCheck(p)
    PROVE  Fits(proc[p])'
<1>1. UNCHANGED <<file, hostVars, condemned>> /\ proc[p].pc = "restart_check"
  BY DEF RestartCheck, At
<1>2. \/ proc'[p] = Idle
      \/ proc'[p].pc = "stop_check" /\ Same(proc[p], proc'[p])
  BY Gone DEF RestartCheck, Steady
<1>3. Whole(proc[p])'
  BY <1>1, <1>2, IdleFields DEF Steady, Fits, Whole, Saved, hostVars, ReadSteps, SeenSteps,
                                DoomSteps, ProbeSteps
<1>4. Owned(proc[p])'
  BY <1>1, <1>2, IdleFields DEF Steady, Fits, Owned, Saved, hostVars, HaltedSteps, IsoSteps,
                                ProbeSteps
<1>5. Wired(proc[p])'
  BY <1>1, <1>2, IdleFields DEF Steady, Fits, Wired, hostVars, IsoSteps, Same
<1>6. Doomed(proc[p])'
  BY <1>1, <1>2, IdleFields DEF Steady, Fits, Doomed, hostVars, DoomSteps
<1> QED
  BY <1>3, <1>4, <1>5, <1>6 DEF Fits

LEMMA StopCheckFits ==
    ASSUME NEW p \in Procs, Steady(p), StopCheck(p)
    PROVE  Fits(proc[p])'
<1>1. UNCHANGED <<file, hostVars, condemned>> /\ proc[p].pc = "stop_check" /\ proc[p] \in Process
  BY DEF StopCheck, At, Steady, TypeOK
<1>2. \/ proc'[p] = Idle
      \/ /\ proc'[p].pc = "stop_vm" /\ proc'[p].mode = proc[p].mode
         /\ proc'[p].mine = proc[p].mine /\ proc'[p].seen = file
         /\ Saved /\ ModeOf(file) = proc[p].mode
  <2>1. \/ proc'[p] = Idle
        \/ /\ proc'[p] = [proc[p] EXCEPT !.pc = "stop_vm", !.seen = file]
           /\ Saved /\ ModeOf(file) = proc[p].mode
    BY <1>1, Gone, Moves DEF StopCheck, Steady
  <2> QED
    BY <1>1, <2>1 DEF Process
<1>3. Saved => ModeOf(file) = file.mode
  BY DEF Steady, Fits, Whole, ModeOf, Modes
<1>4. Whole(proc[p])'
  BY <1>1, <1>2, <1>3, IdleFields DEF Steady, Fits, Whole, Saved, hostVars, ReadSteps,
                                      SeenSteps, DoomSteps, ProbeSteps
<1>5. Owned(proc[p])'
  BY <1>1, <1>2, IdleFields DEF Steady, Fits, Owned, Saved, hostVars, HaltedSteps, IsoSteps,
                                ProbeSteps
<1>6. Wired(proc[p])'
  BY <1>1, <1>2, IdleFields DEF Steady, Fits, Wired, hostVars, IsoSteps
<1>7. Doomed(proc[p])'
  BY <1>1, <1>2, IdleFields DEF Steady, Fits, Doomed, hostVars, DoomSteps
<1> QED
  BY <1>4, <1>5, <1>6, <1>7 DEF Fits

\* A domain after its guest is gone.
LEMMA HaltedFields ==
    ASSUME NEW d \in Domain
    PROVE  /\ ~Halted(d).active /\ Halted(d).defined = d.defined
           /\ d.defined => Halted(d).net = d.net
           /\ Known(Halted(d)) => d.defined
BY DEF Halted, NoDomain, Known, Domain

\* What a domain that halts, in a stop or by itself, does not disturb.
LEMMA HaltingFits ==
    ASSUME NEW p \in Procs, Steady(p), NEW m \in Modes,
           dom' = [dom EXCEPT ![m] = Halted(dom[m])],
           UNCHANGED <<file, snaps, disk, keys, passt, sock, condemned>>,
           proc'[p].pc = proc[p].pc \/ (proc[p].pc = "stop_vm" /\ proc'[p].pc = "stop_wait"),
           Same(proc[p], proc'[p])
    PROVE  Fits(proc[p])'
<1>1. \A n \in Modes :
         /\ dom'[n].active => dom[n].active /\ dom'[n] = dom[n]
         /\ dom'[n].defined = dom[n].defined
         /\ dom'[n].defined => dom'[n].net = dom[n].net
         /\ Known(dom'[n]) => Known(dom[n])
  <2> TAKE n \in Modes
  <2>1. CASE n = m
    BY <2>1, HaltedFields DEF Steady, TypeOK, Known
  <2>2. CASE n # m
    BY <2>2 DEF Steady, TypeOK
  <2> QED
    BY <2>1, <2>2
<1>2. Whole(proc[p])'
  BY DEF Steady, Fits, Whole, Saved, ReadSteps, SeenSteps, DoomSteps, ProbeSteps, Same
<1>3. Owned(proc[p])'
  <2>1. proc[p].pc = "save_new" =>
           \A n \in Modes : Known(dom[n]) => dom[n].defined
    BY DEF Steady, Fits, Owned, HaltedSteps, Known
  <2> QED
    BY <1>1, <2>1 DEF Steady, Fits, Owned, Saved, Known, HaltedSteps, IsoSteps, ProbeSteps, Same
<1>4. Wired(proc[p])'
  BY <1>1 DEF Steady, Fits, Wired, IsoSteps, Same
<1>5. Doomed(proc[p])'
  BY <1>1 DEF Steady, Fits, Doomed, DoomSteps, Same, Other, Modes
<1> QED
  BY <1>2, <1>3, <1>4, <1>5 DEF Fits

LEMMA StopVMFits ==
    ASSUME NEW p \in Procs, Steady(p), StopVM(p)
    PROVE  Fits(proc[p])'
<1>1. /\ UNCHANGED <<file, snaps, disk, keys, passt, sock, condemned>>
      /\ proc[p].pc = "stop_vm" /\ proc[p].mode \in Modes
      /\ proc'[p].pc = "stop_wait" /\ Same(proc[p], proc'[p])
  BY Gone DEF StopVM, At, Steady, TypeOK, Process
<1>2. CASE SetDomain(proc[p].mode, Halted(dom[proc[p].mode]))
  BY <1>1, <1>2, HaltingFits DEF SetDomain
<1>3. CASE dom' = dom
  <2>1. Whole(proc[p])'
    BY <1>1 DEF Steady, Fits, Whole, Saved, ReadSteps, SeenSteps, DoomSteps, ProbeSteps, Same
  <2>2. Owned(proc[p])'
    BY <1>1, <1>3 DEF Steady, Fits, Owned, Saved, HaltedSteps, IsoSteps, ProbeSteps
  <2>3. Wired(proc[p])'
    BY <1>1, <1>3 DEF Steady, Fits, Wired, IsoSteps, Same
  <2>4. Doomed(proc[p])'
    BY <1>1, <1>3 DEF Steady, Fits, Doomed, DoomSteps
  <2> QED
    BY <2>1, <2>2, <2>3, <2>4 DEF Fits
<1> QED
  BY <1>2, <1>3 DEF StopVM

LEMMA StopWaitFits ==
    ASSUME NEW p \in Procs, Steady(p), StopWait(p)
    PROVE  Fits(proc[p])'
<1>1. UNCHANGED <<file, hostVars, condemned>> /\ proc[p].pc = "stop_wait"
  BY DEF StopWait, At
<1>2. /\ Same(proc[p], proc'[p])
      /\ \/ proc'[p].pc = "save_stopped" /\ proc[p].seen.iso = NoPasst
         \/ proc'[p].pc = "stop_iso"
  BY Gone DEF StopWait, Steady
<1>3. \A m \in Modes : ~dom[m].active
  <2>1. ~dom[proc[p].mode].active
    BY DEF StopWait, Steady, QuietDays, May
  <2> QED
    BY <1>1, <2>1, ReadsFile DEF ReadSteps, SeenSteps, Known
<1>4. Whole(proc[p])'
  BY <1>1, <1>2 DEF Steady, Fits, Whole, Saved, hostVars, ReadSteps, SeenSteps, DoomSteps,
                    ProbeSteps, Same
<1>5. Owned(proc[p])'
  BY <1>1, <1>2, <1>3 DEF Steady, Fits, Owned, Saved, hostVars
<1>6. Wired(proc[p])'
  BY <1>1, <1>2 DEF Steady, Fits, Wired, hostVars, IsoSteps, Same
<1>7. Doomed(proc[p])'
  BY <1>1, <1>2 DEF Steady, Fits, Doomed, hostVars, DoomSteps
<1> QED
  BY <1>4, <1>5, <1>6, <1>7 DEF Fits

LEMMA StopIsolationFits ==
    ASSUME NEW p \in Procs, Steady(p), StopIsolation(p)
    PROVE  Fits(proc[p])'
<1>1. /\ UNCHANGED <<file, dom, snaps, disk, keys, condemned>>
      /\ proc[p].pc = "stop_iso" /\ proc'[p].pc = "save_stopped" /\ Same(proc[p], proc'[p])
      /\ sock' = NoPasst /\ NoPasst \notin passt'
      /\ \A m \in Modes : ~dom[m].active
  BY Gone, NobodyAlive DEF StopIsolation, Cleanup, At, Steady, Fits, Owned, HaltedSteps
<1>2. Whole(proc[p])'
  BY <1>1 DEF Steady, Fits, Whole, Saved, ReadSteps, SeenSteps, DoomSteps, ProbeSteps, Same
<1>3. Owned(proc[p])'
  BY <1>1 DEF Steady, Fits, Owned, Saved
<1>4. Wired(proc[p])'
  BY <1>1 DEF Steady, Fits, Wired, IsoSteps, Same
<1>5. Doomed(proc[p])'
  BY <1>1 DEF Steady, Fits, Doomed, DoomSteps
<1> QED
  BY <1>2, <1>3, <1>4, <1>5 DEF Fits

LEMMA SaveStoppedFits ==
    ASSUME NEW p \in Procs, Steady(p), SaveStopped(p)
    PROVE  Fits(proc[p])'
<1> DEFINE s == [proc[p].seen EXCEPT !.status = "stopped", !.iso = NoPasst]
<1>1. /\ UNCHANGED <<hostVars, condemned>> /\ proc[p].pc = "save_stopped" /\ proc[p] \in Process
      /\ file' = s
      /\ \/ proc'[p] = Idle
         \/ proc'[p] = [proc[p] EXCEPT !.pc = "load", !.seen = NoFile]
  BY Gone, Moves, SavesWork DEF SaveStopped, At, Steady, TypeOK
<1>2. /\ Saved /\ file.mode = proc[p].mode /\ proc[p].seen = file /\ file \in StateFile
      /\ proc[p].mine = NoPasst
      /\ \A m \in Modes : ~dom[m].active
  BY <1>1, ReadsFile DEF ReadSteps, SeenSteps, Steady, TypeOK, Fits, Wired, Owned, HaltedSteps,
                         IsoSteps
<1>3. file'.kind = file.kind /\ file'.mode = file.mode /\ file'.iso = NoPasst
  BY <1>1, <1>2, Corrected
<1> HIDE DEF s
<1>4. \/ proc'[p] = Idle
      \/ /\ proc'[p].pc = "load" /\ proc'[p].mode = proc[p].mode
         /\ proc'[p].mine = NoPasst
  BY <1>1, <1>2 DEF Process
<1>5. sock \in passt => \A m \in Modes : ~(dom[m].defined /\ dom[m].net = "passt")
  BY <1>1, <1>2, NobodyAlive DEF Steady, Fits, Wired
<1>6. Whole(proc[p])'
  BY <1>1, <1>2, <1>3, <1>4, IdleFields DEF Steady, Fits, Whole, Saved, hostVars, ReadSteps,
                                            SeenSteps, DoomSteps, ProbeSteps
<1>7. Owned(proc[p])'
  BY <1>1, <1>2, <1>3, <1>4, IdleFields DEF Steady, Fits, Owned, Saved, hostVars, HaltedSteps,
                                            IsoSteps, ProbeSteps
<1>8. Wired(proc[p])'
  BY <1>1, <1>2, <1>4, <1>5, IdleFields DEF Wired, hostVars, IsoSteps
<1>9. Doomed(proc[p])'
  BY <1>1, <1>3, <1>4, IdleFields DEF Steady, Fits, Doomed, hostVars, DoomSteps
<1> QED
  BY <1>6, <1>7, <1>8, <1>9 DEF Fits

LEMMA StopFits ==
    ASSUME NEW p \in Procs, Steady(p), StopStep(p)
    PROVE  Fits(proc[p])'
BY RestartCheckFits, StopCheckFits, StopVMFits, StopWaitFits, StopIsolationFits, SaveStoppedFits
DEF StopStep

-----------------------------------------------------------------------------
LEMMA RemoveCheckFits ==
    ASSUME NEW p \in Procs, Steady(p), RemoveCheck(p)
    PROVE  Fits(proc[p])'
<1> DEFINE us == IF proc[p].force THEN Modes ELSE {proc[p].mode}
<1>1. /\ UNCHANGED <<file, hostVars>> /\ proc[p].pc = "remove_check"
      /\ proc[p] \in Process /\ proc[p].mode \in Modes
  BY DEF RemoveCheck, At, Steady, TypeOK, Process
<1>2. \/ proc'[p] = Idle /\ condemned' = condemned
      \/ /\ proc'[p] = [proc[p] EXCEPT !.pc = "rm_destroy", !.seen = file, !.uris = us]
         /\ RemoveAccepted(p)
  BY <1>1, Gone, Moves DEF RemoveCheck, Steady
<1>3. us # {} /\ (RemoveAccepted(p) => \A m \in Modes \ us : ~Known(dom[m]))
  <2>1. us # {}
    BY DEF Modes
  <2>2. ASSUME RemoveAccepted(p), NEW m \in Modes \ us PROVE ~Known(dom[m])
    BY <1>1, <2>2 DEF RemoveAccepted, ModeOf, Steady, Fits, Whole, Owned, Modes
  <2> QED
    BY <2>1, <2>2
<1> HIDE DEF us
<1>4. \/ proc'[p] = Idle /\ condemned' = condemned
      \/ /\ proc'[p].pc = "rm_destroy" /\ proc'[p].mode = proc[p].mode
         /\ proc'[p].mine = proc[p].mine /\ proc'[p].seen = file /\ proc'[p].uris = us
         /\ RemoveAccepted(p)
  BY <1>1, <1>2 DEF Process
<1>5. Whole(proc[p])'
  BY <1>1, <1>4, IdleFields DEF Steady, Fits, Whole, Saved, hostVars, ReadSteps, SeenSteps,
                                DoomSteps, ProbeSteps
<1>6. Owned(proc[p])'
  BY <1>1, <1>4, IdleFields DEF Steady, Fits, Owned, Saved, hostVars, HaltedSteps, IsoSteps,
                                ProbeSteps
<1>7. Wired(proc[p])'
  BY <1>1, <1>4, IdleFields DEF Steady, Fits, Wired, hostVars, IsoSteps
<1>8. Doomed(proc[p])'
  BY <1>1, <1>3, <1>4, IdleFields DEF Steady, Fits, Doomed, hostVars, DoomSteps
<1> QED
  BY <1>5, <1>6, <1>7, <1>8 DEF Fits

LEMMA RemoveDestroyFits ==
    ASSUME NEW p \in Procs, Steady(p), RemoveDestroy(p)
    PROVE  Fits(proc[p])'
<1> DEFINE u == CurrentUri(p)
<1>1. /\ UNCHANGED <<file, snaps, disk, keys, passt, sock, condemned>>
      /\ proc[p].pc = "rm_destroy" /\ proc[p].mode \in Modes /\ u \in Modes
      /\ proc'[p].pc = "rm_undefine" /\ Same(proc[p], proc'[p])
      /\ proc[p].seen = file /\ dom \in [Modes -> Domain]
  BY Gone DEF RemoveDestroy, At, Steady, TypeOK, Process, CurrentUri, Other, Modes,
              Fits, Whole, SeenSteps, DoomSteps
<1>2. \/ dom' = [dom EXCEPT ![u] = Halted(dom[u])]
      \/ dom' = dom /\ \A m \in Modes : ~dom[m].active
  <2>1. \A m \in Modes : dom[m].active => Saved /\ file.status = "running"
    BY <1>1 DEF Steady, Fits, Owned, Known
  <2>2. ~Refused(p)
    BY DEF Steady, QuietDays, Refused, May
  <2> QED
    BY <1>1, <2>1, <2>2 DEF RemoveDestroy, SetDomain, Saved
<1> HIDE DEF u
<1>3. /\ ~dom'[u].active
      /\ \A n \in Modes :
         /\ dom'[n].active => dom[n].active /\ dom'[n] = dom[n]
         /\ dom'[n].defined = dom[n].defined
         /\ dom'[n].defined => dom'[n].net = dom[n].net
         /\ Known(dom'[n]) => Known(dom[n])
  <2>1. CASE dom' = dom /\ \A m \in Modes : ~dom[m].active
    BY <1>1, <2>1
  <2>2. CASE dom' = [dom EXCEPT ![u] = Halted(dom[u])]
    <3>1. /\ dom'[u] = Halted(dom[u]) /\ dom[u] \in Domain
          /\ \A n \in Modes \ {u} : dom'[n] = dom[n]
      BY <1>1, <2>2
    <3>2. \A n \in Modes \ {u} : dom'[n] = dom[n]
      BY <1>1, <2>2
    <3> QED
      BY <3>1, <3>2, HaltedFields DEF Known
  <2> QED
    BY <1>2, <2>1, <2>2
<1>4. Whole(proc[p])'
  BY <1>1 DEF Steady, Fits, Whole, Saved, ReadSteps, SeenSteps, DoomSteps, ProbeSteps, Same
<1>5. Owned(proc[p])'
  BY <1>1, <1>3 DEF Steady, Fits, Owned, Saved, HaltedSteps, IsoSteps, ProbeSteps
<1>6. Wired(proc[p])'
  BY <1>1, <1>3 DEF Steady, Fits, Wired, IsoSteps, Same
<1>7. Doomed(proc[p])'
  BY <1>1, <1>3 DEF u, CurrentUri, Steady, Fits, Doomed, DoomSteps, Same
<1> QED
  BY <1>4, <1>5, <1>6, <1>7 DEF Fits

LEMMA RemoveUndefineFits ==
    ASSUME NEW p \in Procs, Steady(p), RemoveUndefine(p)
    PROVE  Fits(proc[p])'
<1> DEFINE u == CurrentUri(p)
           left == proc[p].uris \ {u}
           next == IF left = {} THEN "rm_keys" ELSE "rm_destroy"
<1>1. /\ UNCHANGED <<file, snaps, disk, keys, passt, sock, condemned>>
      /\ proc[p].pc = "rm_undefine" /\ proc[p].mode \in Modes /\ u \in Modes
      /\ proc[p] \in Process /\ dom \in [Modes -> Domain]
      /\ proc'[p] = [proc[p] EXCEPT !.pc = next, !.uris = left]
      /\ \A m \in Modes \ proc[p].uris : ~Known(dom[m])
      /\ ~dom[u].active
  BY Moves DEF RemoveUndefine, At, Steady, TypeOK, Process, CurrentUri, Other, Modes, Fits,
               Doomed
<1>2. dom' = [dom EXCEPT ![u] = NoDomain] \/ (dom' = dom /\ ~Known(dom[u]))
  BY <1>1 DEF RemoveUndefine, SetDomain, Undefined, CanUndefine, Refused, May, Known,
              Steady, QuietDays, Fits, Owned
<1> HIDE DEF u
<1>3. /\ ~Known(dom'[u])
      /\ \A n \in Modes \ {u} : dom'[n] = dom[n]
  BY <1>1, <1>2 DEF Known, NoDomain
<1> HIDE DEF left
<1>4. \A m \in Modes \ left : ~Known(dom'[m])
  BY <1>1, <1>3 DEF left
<1>5. next \in {"rm_keys", "rm_destroy"} /\ (next = "rm_destroy" <=> left # {})
  OBVIOUS
<1> HIDE DEF next
<1>6. /\ proc'[p].pc = next /\ proc'[p].uris = left /\ proc'[p].mode = proc[p].mode
      /\ proc'[p].mine = proc[p].mine /\ proc'[p].seen = proc[p].seen
  BY <1>1 DEF Process
<1>7. Whole(proc[p])'
  BY <1>1, <1>5, <1>6 DEF Steady, Fits, Whole, Saved, ReadSteps, SeenSteps, DoomSteps,
                          ProbeSteps
<1>8. Owned(proc[p])'
  <2>1. next = "rm_keys" => \A m \in Modes : ~Known(dom'[m])
    BY <1>4, <1>5
  <2> QED
    BY <1>1, <1>3, <1>5, <1>6, <2>1 DEF Steady, Fits, Owned, Saved, Known, HaltedSteps,
                                        IsoSteps, ProbeSteps
<1>9. Wired(proc[p])'
  BY <1>1, <1>3, <1>5, <1>6 DEF Steady, Fits, Wired, IsoSteps, Known
<1>10. Doomed(proc[p])'
  BY <1>1, <1>4, <1>5, <1>6 DEF Steady, Fits, Doomed, DoomSteps
<1> QED
  BY <1>7, <1>8, <1>9, <1>10 DEF Fits

LEMMA DeleteKeysFits ==
    ASSUME NEW p \in Procs, Steady(p), DeleteKeys(p)
    PROVE  Fits(proc[p])'
<1>1. /\ UNCHANGED <<file, dom, snaps, disk, passt, sock, condemned>>
      /\ proc[p].pc \in {"rm_keys", "undo_keys"}
      /\ proc'[p].pc = "delete" /\ proc'[p].mine = proc[p].mine /\ "file" \in proc'[p].todo
  BY RolledBack DEF DeleteKeys, At, Steady
<1>2. Whole(proc[p])'
  BY <1>1 DEF Steady, Fits, Whole, Saved, ReadSteps, SeenSteps, DoomSteps, ProbeSteps
<1>3. Owned(proc[p])'
  BY <1>1 DEF Steady, Fits, Owned, Saved, HaltedSteps, IsoSteps, ProbeSteps, Known
<1>4. Wired(proc[p])'
  BY <1>1 DEF Steady, Fits, Wired, IsoSteps
<1>5. Doomed(proc[p])'
  BY <1>1 DEF Steady, Fits, Doomed, DoomSteps
<1> QED
  BY <1>2, <1>3, <1>4, <1>5 DEF Fits

LEMMA DeleteStateFits ==
    ASSUME NEW p \in Procs, Steady(p), NEW a \in Artifacts, DeleteState(p, a)
    PROVE  Fits(proc[p])'
<1>1. /\ UNCHANGED <<dom, snaps, keys, passt, sock, condemned>>
      /\ proc[p].pc = "delete" /\ proc[p] \in Process
      /\ \A m \in Modes : ~Known(dom[m])
      /\ proc[p].mine = NoPasst
  BY DEF DeleteState, At, Steady, TypeOK, Fits, Owned, Wired, IsoSteps
<1>2. \/ proc'[p] = Idle /\ proc[p].todo = {a}
      \/ /\ proc'[p].pc = "delete" /\ proc'[p].mode = proc[p].mode
         /\ proc'[p].mine = NoPasst /\ proc'[p].todo = proc[p].todo \ {a}
  <2>1. \/ proc'[p] = Idle /\ proc[p].todo = {a}
        \/ proc'[p] = [proc[p] EXCEPT !.todo = @ \ {a}]
    BY Gone, Moves DEF DeleteState, Steady
  <2> DEFINE t == proc[p].todo \ {a}
  <2>2. \/ proc'[p] = Idle /\ proc[p].todo = {a}
        \/ proc'[p] = [proc[p] EXCEPT !.todo = t]
    BY <2>1
  <2> HIDE DEF t
  <2>3. \/ proc'[p] = Idle /\ proc[p].todo = {a}
        \/ /\ proc'[p].pc = "delete" /\ proc'[p].mode = proc[p].mode
           /\ proc'[p].mine = NoPasst /\ proc'[p].todo = t
    BY <1>1, <2>2 DEF Process
  <2> QED
    BY <2>3 DEF t
<1>3. /\ a = "file" => file' = NoFile
      /\ a # "file" => file' = file
  BY DEF DeleteState
<1>4. /\ file'.kind # "torn" /\ (file'.kind = "saved" => a # "file" /\ file' = file)
      /\ proc'[p] = Idle => file'.kind = "absent"
      /\ "file" \in proc'[p].todo \/ file'.kind = "absent" \/ proc'[p] = Idle
  BY <1>1, <1>2, <1>3, IdleFields DEF NoFile, Steady, Fits, Whole, Doomed
<1>5. Whole(proc[p])'
  BY <1>1, <1>2, <1>4, IdleFields DEF Steady, Fits, Whole, Saved, ReadSteps, SeenSteps,
                                      DoomSteps, ProbeSteps
<1>6. Owned(proc[p])'
  BY <1>1, <1>2, IdleFields DEF Steady, Fits, Owned, Saved, Known, HaltedSteps, IsoSteps,
                                ProbeSteps
<1>7. Wired(proc[p])'
  BY <1>1, <1>2, IdleFields DEF Wired, IsoSteps, Known
<1>8. Doomed(proc[p])'
  BY <1>1, <1>2, <1>4, IdleFields DEF Steady, Fits, Doomed, DoomSteps
<1> QED
  BY <1>5, <1>6, <1>7, <1>8 DEF Fits

LEMMA RemoveFits ==
    ASSUME NEW p \in Procs, Steady(p), RemoveStep(p)
    PROVE  Fits(proc[p])'
BY RemoveCheckFits, RemoveDestroyFits, RemoveUndefineFits, DeleteKeysFits, DeleteStateFits
DEF RemoveStep

-----------------------------------------------------------------------------
\* A command that has ended leaves nothing behind that only it would know.
LEMMA AtRest ==
    ASSUME NEW p \in Procs, Fits(proc[p])', At(p, "idle")'
    PROVE  Fits(Idle)'
<1>1. proc'[p].pc = "idle" /\ proc'[p].mine = NoPasst
  BY DEF At, Fits, Wired, IsoSteps
<1>2. Whole(Idle)'
  BY <1>1, IdleFields DEF Fits, Whole, Saved, ReadSteps, SeenSteps, DoomSteps, ProbeSteps
<1>3. Owned(Idle)'
  BY <1>1, IdleFields DEF Fits, Owned, Saved, HaltedSteps, IsoSteps, ProbeSteps
<1>4. Wired(Idle)'
  BY <1>1, IdleFields DEF Fits, Wired, IsoSteps
<1>5. Doomed(Idle)'
  BY <1>1, IdleFields DEF Fits, Doomed, DoomSteps
<1> QED
  BY <1>2, <1>3, <1>4, <1>5 DEF Fits

\* A new command finds the cage as the last one left it.
LEMMA InvokeFits ==
    ASSUME TypeOK, QuietInv, ~Concurrent, NEW p \in Procs, NEW m \in Modes,
           NEW cmd \in {"start", "stop", "restart", "remove"},
           NEW force \in BOOLEAN, NEW proj \in BOOLEAN, Invoke(p, cmd, m, force, proj)
    PROVE  QuietInv'
<1> DEFINE next == FirstStep[cmd]
           c == [Idle EXCEPT !.pc = next, !.cmd = cmd, !.mode = m,
                             !.force = force, !.proj = proj]
<1>1. UNCHANGED <<file, hostVars, condemned>> /\ AllIdle /\ proc' = [proc EXCEPT ![p] = c]
  BY DEF Invoke, Become, AllIdle
<1>2. /\ next \in {"start_check", "stop_check", "restart_check", "remove_check"}
      /\ c.pc = next /\ c.mine = NoPasst
  BY DEF Idle, FirstStep
<1> HIDE DEF next, c
<1>3. proc'[p] = c /\ \A q \in Procs \ {p} : proc'[q] = proc[q]
  BY <1>1 DEF TypeOK
<1>4. Fits(Idle)
  BY <1>1 DEF QuietInv
<1>5. Whole(proc[p])'
  BY <1>1, <1>2, <1>3, <1>4, IdleFields DEF Fits, Whole, Saved, hostVars, ReadSteps, SeenSteps,
                                            DoomSteps, ProbeSteps
<1>6. Owned(proc[p])'
  BY <1>1, <1>2, <1>3, <1>4, IdleFields DEF Fits, Owned, Saved, hostVars, HaltedSteps,
                                            IsoSteps, ProbeSteps
<1>7. Wired(proc[p])'
  BY <1>1, <1>2, <1>3, <1>4, IdleFields DEF Fits, Wired, hostVars, IsoSteps
<1>8. Doomed(proc[p])'
  BY <1>1, <1>2, <1>3, <1>4, IdleFields DEF Fits, Doomed, hostVars, DoomSteps
<1> QED
  BY <1>1, <1>2, <1>3, <1>5, <1>6, <1>7, <1>8 DEF QuietInv, AllIdle, At, Fits

\* A guest that powers off leaves the domain as a stop does.
LEMMA GuestHaltsFits ==
    ASSUME DataInv, QuietDays, QuietInv, NEW m \in Modes, GuestHalts(m)
    PROVE  QuietInv'
<1>1. /\ dom' = [dom EXCEPT ![m] = Halted(dom[m])]
      /\ UNCHANGED <<file, snaps, disk, keys, passt, sock, proc, condemned>>
  BY DEF GuestHalts, SetDomain
<1>2. ASSUME NEW p \in Procs, ~At(p, "idle") PROVE Fits(proc[p])'
  <2>1. Steady(p)
    BY <1>2 DEF Steady, DataInv, QuietInv
  <2> QED
    BY <1>1, <2>1, HaltingFits DEF Same
<1>3. ASSUME AllIdle PROVE Fits(Idle)'
  <2>1. Fits(Idle) /\ dom[m] \in Domain /\ dom \in [Modes -> Domain]
    BY <1>3 DEF QuietInv, DataInv, TypeOK
  <2>2. \A n \in Modes :
           /\ dom'[n].active => dom[n].active /\ dom'[n] = dom[n]
           /\ dom'[n].defined = dom[n].defined
           /\ dom'[n].defined => dom'[n].net = dom[n].net
           /\ Known(dom'[n]) => Known(dom[n])
    <3> TAKE n \in Modes
    <3>1. CASE n = m
      BY <1>1, <2>1, <3>1, HaltedFields DEF Known
    <3>2. CASE n # m
      BY <1>1, <2>1, <3>2
    <3> QED
      BY <3>1, <3>2
  <2>3. Whole(Idle)'
    BY <1>1, <2>1 DEF Fits, Whole, Saved
  <2>4. Owned(Idle)'
    BY <1>1, <2>1, <2>2, IdleFields DEF Fits, Owned, Saved, HaltedSteps, IsoSteps, ProbeSteps
  <2>5. Wired(Idle)'
    BY <1>1, <2>1, <2>2 DEF Fits, Wired
  <2>6. Doomed(Idle)'
    BY <1>1, <2>1, IdleFields DEF Fits, Doomed, DoomSteps
  <2> QED
    BY <2>3, <2>4, <2>5, <2>6 DEF Fits
<1> QED
  BY <1>1, <1>2, <1>3 DEF QuietInv, AllIdle, At

\* A cage that is not there yet is in order.
LEMMA QuietInit ==
    ASSUME QuietDays, Init
    PROVE  QuietInv
<1>1. /\ file = NoFile /\ snaps = {} /\ sock = NoPasst /\ passt = {} /\ condemned = FALSE
      /\ \A m \in Modes : dom[m] = NoDomain
      /\ \A p \in Procs : proc[p] = Idle
  BY DEF QuietDays, Init, NoCage, LegacyCage
<1>2. Whole(Idle)
  BY <1>1, IdleFields DEF Whole, NoFile, Saved, ReadSteps, SeenSteps, DoomSteps, ProbeSteps
<1>3. Owned(Idle)
  BY <1>1, IdleFields DEF Owned, NoDomain, Known, HaltedSteps, IsoSteps, ProbeSteps
<1>4. Wired(Idle)
  BY <1>1, IdleFields DEF Wired, NoDomain, IsoSteps
<1>5. Doomed(Idle)
  BY <1>1, IdleFields DEF Doomed, DoomSteps
<1> QED
  BY <1>1, <1>2, <1>3, <1>4, <1>5, IdleFields DEF QuietInv, Fits, At

\* Every step keeps it in order, and at most one command takes it.
LEMMA QuietStays ==
    ASSUME QuietDays, DataInv, QuietInv, [Next]_vars
    PROVE  QuietInv'
<1>1. CASE UNCHANGED vars
  BY <1>1 DEF vars, QuietInv, AllIdle, At, Fits, Whole, Owned, Wired, Doomed, Saved
<1>2. ASSUME NEW p \in Procs, CommandStep(p) PROVE QuietInv'
  <2>1. /\ ~At(p, "idle")
        /\ \A q \in Procs \ {p} : proc'[q] = proc[q]
    BY <1>2, StartKnows, StopKnows, RemoveKnows DEF CommandStep
  <2>2. Steady(p)
    BY <2>1 DEF Steady, DataInv, QuietInv
  <2>3. Fits(proc[p])'
    BY <1>2, <2>2, StartFits, StopFits, RemoveFits DEF CommandStep
  <2>4. \A q \in Procs \ {p} : At(q, "idle")'
    BY <2>1 DEF DataInv, OneAtATime, At
  <2>5. At(p, "idle")' => Fits(Idle)'
    BY <2>3, AtRest
  <2> QED
    BY <2>3, <2>4, <2>5 DEF QuietInv, AllIdle, At
<1>3. CASE Next /\ ~\E p \in Procs : CommandStep(p)
  <2>1. \A p \in Procs : ~Crash(p)
    BY DEF QuietDays, Crash, May
  <2>2. ~HostReboots /\ \A m \in Modes : ~Snapshot(m)
    BY DEF QuietDays, HostReboots, Snapshot, May
  <2> QED
    BY <1>3, <2>1, <2>2, InvokeFits, GuestHaltsFits DEF Next, QuietDays, DataInv
<1> QED
  BY <1>1, <1>2, <1>3

LEMMA QuietInvariance == QuietDays => (Spec => [](DataInv /\ QuietInv))
<1> SUFFICES ASSUME QuietDays PROVE Spec => [](DataInv /\ QuietInv)
  OBVIOUS
<1>1. DataInv /\ QuietInv /\ [Next]_vars => QuietInv'
  BY QuietStays
<1>2. Init => QuietInv
  BY QuietInit
<1>3. Spec => []DataInv
  BY DataInvariance DEF QuietDays
<1> QED
  BY <1>1, <1>2, <1>3, PTL DEF Spec

\* Between commands state.json tells the truth about the VM, and a cage that is
\* gone has left no domain behind.
THEOREM TruthToRest == QuietDays => (Spec => []TruthfulState)
<1> SUFFICES ASSUME QuietDays PROVE Spec => []TruthfulState
  OBVIOUS
<1>1. DataInv /\ QuietInv => TruthfulState
  <2> SUFFICES ASSUME QuietInv, AllIdle, NEW m \in Modes
               PROVE  /\ dom[m].active =>
                            /\ Saved /\ file.status = "running" /\ file.mode = m
                            /\ dom[m].defined /\ disk[m] = "data" /\ keys
                      /\ file.kind = "absent" => ~Known(dom[m])
    BY DEF TruthfulState
  <2>1. Whole(Idle) /\ Owned(Idle)
    BY DEF QuietInv, Fits
  <2> QED
    BY <2>1, IdleFields DEF Whole, Owned, Known, Saved
<1> QED
  BY <1>1, QuietInvariance, PTL

\* A domain that libvirt lists can be booted, whatever step a command is at.
THEOREM DefinitionsBoot == QuietDays => (Spec => []DefinedHasDisk)
<1> SUFFICES ASSUME QuietDays PROVE Spec => []DefinedHasDisk
  OBVIOUS
<1>1. DataInv /\ QuietInv => DefinedHasDisk
  BY DEF QuietInv, Fits, Owned, DefinedHasDisk, AllIdle
<1> QED
  BY <1>1, QuietInvariance, PTL

\* Between commands the passt that state.json names, and that a stop will kill,
\* serves the socket of the VM that was defined with it.
THEOREM NetworkAtRest == QuietDays => (Spec => []NetworkServed)
<1> SUFFICES ASSUME QuietDays PROVE Spec => []NetworkServed
  OBVIOUS
<1>1. DataInv /\ QuietInv => NetworkServed
  <2> SUFFICES ASSUME QuietInv, AllIdle, NEW m \in Modes,
                      dom[m].active, dom[m].net = "passt"
               PROVE  sock \in passt /\ file.iso = sock
    BY DEF NetworkServed
  <2>1. Owned(Idle) /\ Wired(Idle)
    BY DEF QuietInv, Fits
  <2> QED
    BY <2>1, IdleFields DEF Owned, Wired
<1> QED
  BY <1>1, QuietInvariance, PTL

-----------------------------------------------------------------------------
(***************************************************************************)
(* The cage keeps the promise of module Cage: what the invariant makes of  *)
(* the promise's variables, then what each step does to them.              *)
(***************************************************************************)

\* What is left of Life and KeptData once state.json and the domains agree.
Viewed ==
    /\ ~Saved => Life = "absent"
    /\ Saved => Life = IF condemned THEN "doomed" ELSE IF Active THEN "running" ELSE "stopped"
    /\ KeptData <=> Saved /\ ~condemned /\ disk[file.mode] = "data"
    /\ KeptData \in BOOLEAN
    /\ Saved => file.mode \in Modes
    /\ \A m \in Modes : Known(dom[m]) /\ Saved => file.mode = m
    /\ Active => Saved

LEMMA ViewedAlways == DataInv /\ QuietInv => Viewed
<1> SUFFICES ASSUME DataInv, QuietInv PROVE Viewed
  OBVIOUS
<1>1. PICK c : Fits(c) /\ (c.pc = "save_new" => ~Saved)
  <2>1. CASE AllIdle
    BY <2>1, IdleFields DEF QuietInv
  <2>2. ASSUME NEW p \in Procs, ~At(p, "idle") PROVE Fits(proc[p]) /\ (At(p, "save_new") => ~Saved)
    BY <2>2 DEF QuietInv, DataInv, Knows, BirthSteps, At, Saved
  <2> QED
    BY <2>1, <2>2 DEF AllIdle, At
<1>2. /\ file.kind \in {"absent", "saved"} /\ (Saved => file.mode \in Modes)
      /\ \A m \in Modes : /\ dom[m].active => Saved
                          /\ Known(dom[m]) /\ Saved => file.mode = m
  <2>1. file.kind \in {"absent", "torn", "saved"}
    BY DEF DataInv, TypeOK, StateFile
  <2>2. /\ file.kind # "torn" /\ (Saved => file.mode \in Modes)
        /\ \A m \in Modes : dom[m].active => Saved
    BY <1>1 DEF Fits, Whole, Owned, Known, HaltedSteps
  <2>3. \A m \in Modes : Known(dom[m]) /\ Saved => file.mode = m
    BY <1>1, <2>1 DEF Fits, Owned
  <2> QED
    BY <2>1, <2>2, <2>3
<1>3. Active => Saved
  BY <1>2 DEF Active
<1>4. /\ ~Saved => Life = "absent"
      /\ Saved => Life = IF condemned THEN "doomed" ELSE IF Active THEN "running" ELSE "stopped"
  BY <1>2, <1>3 DEF Life, Saved
<1>5. KeptData <=> Saved /\ ~condemned /\ disk[file.mode] = "data"
  BY <1>2, <1>4 DEF KeptData
<1>6. KeptData \in BOOLEAN
  BY DEF KeptData
<1> QED
  BY <1>2, <1>3, <1>4, <1>5, <1>6 DEF Viewed

\* A step that leaves these alone is none of the promise's business.
LEMMA Stutters ==
    ASSUME Viewed, Viewed', Saved' <=> Saved, Active' <=> Active, condemned' <=> condemned,
           Saved => disk'[file.mode] = disk[file.mode] /\ file'.mode = file.mode
    PROVE  UNCHANGED Promise!vars
<1>1. Life' = Life
  BY DEF Viewed
<1>2. KeptData' <=> KeptData
  BY DEF Viewed
<1>3. KeptData' = KeptData
  BY <1>2 DEF Viewed
<1> QED
  BY <1>1, <1>3 DEF Promise!vars

\* No VM runs at these steps, nor after them.
LEMMA StaysHalted ==
    ASSUME TypeOK, \A m \in Modes : ~dom[m].active,
           dom' = dom \/ \E m \in Modes, d \in Domain : ~d.active /\ dom' = [dom EXCEPT ![m] = d]
    PROVE  ~Active /\ ~Active'
BY DEF Active, TypeOK

LEMMA BirthPromise ==
    ASSUME NEW p \in Procs, Steady(p), Viewed, Viewed',
           CreateDisk(p) \/ GenerateKeys(p) \/ DefineNew(p) \/ SaveNew(p)
    PROVE  [Promise!Next]_(Promise!vars)
<1>1. ~Saved
  BY DEF CreateDisk, GenerateKeys, DefineNew, SaveNew, Steady, Knows, BirthSteps, At, Saved
<1>2. CASE CreateDisk(p) \/ GenerateKeys(p) \/ DefineNew(p)
  <2>1. ~Saved' /\ condemned' = condemned
    BY <1>1, <1>2 DEF CreateDisk, GenerateKeys, DefineNew, Saved
  <2>2. ~Active /\ ~Active'
    BY <1>1, <2>1 DEF Viewed
  <2> QED
    BY <1>1, <2>1, <2>2, Stutters
<1>3. CASE SaveNew(p)
  <2>1. /\ UNCHANGED hostVars /\ condemned' = FALSE /\ file' = NewFile(proc[p].mode)
        /\ proc[p].pc = "save_new"
    BY <1>3, SavesWork DEF SaveNew, At
  <2>2. file'.kind = "saved" /\ file'.mode = proc[p].mode /\ disk'[proc[p].mode] = "fresh"
    BY <2>1 DEF NewFile, Steady, Fits, Whole, hostVars
  <2>3. ~Active'
    BY <2>1 DEF Active, Steady, Fits, Owned, HaltedSteps, hostVars
  <2>4. Life = "absent" /\ Life' = "stopped" /\ KeptData' = FALSE
    BY <1>1, <2>1, <2>2, <2>3 DEF Viewed, Saved
  <2> QED
    BY <2>4 DEF Promise!Next, Promise!Create
<1> QED
  BY <1>2, <1>3

\* Steps that only read, or write a State of the same mode.
LEMMA QuietStepPromise ==
    ASSUME NEW p \in Procs, Steady(p), Viewed, Viewed',
           \/ StartCheck(p) \/ ReconfigureLoad(p) \/ Load(p) \/ CheckActive(p)
           \/ FixRunning(p) \/ FixStopped(p) \/ Isolate(p) \/ Unisolate(p) \/ SaveRunning(p)
           \/ RestartCheck(p) \/ StopCheck(p) \/ StopWait(p) \/ StopIsolation(p)
           \/ SaveStopped(p) \/ DeleteKeys(p)
    PROVE  [Promise!Next]_(Promise!vars)
<1>1. dom' = dom /\ disk' = disk /\ condemned' = condemned
  BY DEF StartCheck, ReconfigureLoad, Load, CheckActive, FixRunning, FixStopped, Isolate,
         Unisolate, SaveRunning, RestartCheck, StopCheck, StopWait, StopIsolation,
         SaveStopped, DeleteKeys, hostVars
<1>2. file'.kind = file.kind /\ file'.mode = file.mode
  <2>1. CASE FixRunning(p) \/ FixStopped(p) \/ SaveRunning(p) \/ SaveStopped(p)
    <3>1. proc[p].seen = file /\ file \in StateFile
      BY <2>1, ReadsFile DEF FixRunning, FixStopped, SaveRunning, SaveStopped, At,
                             ReadSteps, SeenSteps, Steady, TypeOK
    <3>2. \/ file' = [file EXCEPT !.status = "running"]
          \/ file' = [file EXCEPT !.status = "stopped"]
          \/ \E i : file' = [file EXCEPT !.status = "running", !.iso = i]
          \/ file' = [file EXCEPT !.status = "stopped", !.iso = NoPasst]
      BY <2>1, <3>1, SavesWork DEF FixRunning, FixStopped, SaveRunning, SaveStopped
    <3> QED
      BY <3>1, <3>2 DEF StateFile
  <2>2. CASE ~(FixRunning(p) \/ FixStopped(p) \/ SaveRunning(p) \/ SaveStopped(p))
    BY <2>2 DEF StartCheck, ReconfigureLoad, Load, CheckActive, Isolate, Unisolate,
                RestartCheck, StopCheck, StopWait, StopIsolation, DeleteKeys
  <2> QED
    BY <2>1, <2>2
<1>3. (Saved' <=> Saved) /\ (Active' <=> Active)
  BY <1>1, <1>2 DEF Saved, Active
<1> QED
  BY <1>1, <1>2, <1>3, Stutters

\* Redefinition happens while the VM is down.
LEMMA RedefinePromise ==
    ASSUME NEW p \in Procs, Steady(p), Viewed, Viewed', NEW here \in ProbeSteps \cup IsoSteps,
           NEW next, NEW net \in {"slirp", "passt"},
           \/ RedefineProbe(p, here, next)
           \/ RedefineUndefine(p, here, next)
           \/ RedefineDefine(p, here, next, net)
    PROVE  [Promise!Next]_(Promise!vars)
<1>1. /\ UNCHANGED <<file, disk, condemned>>
      /\ proc[p].mode \in Modes /\ \A m \in Modes : ~dom[m].active
  BY DEF RedefineProbe, RedefineUndefine, RedefineDefine, At, Steady, TypeOK, Process, hostVars,
         Fits, Owned, HaltedSteps
<1>2. \/ dom' = dom
      \/ dom' = [dom EXCEPT ![proc[p].mode] = NoDomain]
      \/ dom' = [dom EXCEPT ![proc[p].mode] = Defined(net, TRUE)]
  BY <1>1 DEF RedefineProbe, RedefineUndefine, RedefineDefine, hostVars, SetDomain, Undefined
<1>3. ~NoDomain.active /\ ~Defined(net, TRUE).active
  BY DEF NoDomain, Defined
<1>4. ~Active /\ ~Active'
  BY <1>1, <1>2, <1>3, DomainTypes, StaysHalted DEF Steady
<1>5. Saved' <=> Saved
  BY <1>1 DEF Saved
<1> QED
  BY <1>1, <1>4, <1>5, Stutters

LEMMA BootPromise ==
    ASSUME NEW p \in Procs, Steady(p), Viewed, Viewed', Boot(p)
    PROVE  [Promise!Next]_(Promise!vars)
<1> DEFINE m == proc[p].mode
           d == [dom[m] EXCEPT !.active = TRUE]
<1>1. /\ proc[p].pc = "boot" /\ Saved /\ file.mode = m /\ m \in Modes
      /\ file' = file /\ condemned' = condemned
      /\ dom[m] \in Domain /\ dom \in [Modes -> Domain] /\ disk \in [Modes -> {"none", "fresh", "data"}]
      /\ \A n \in Modes : ~dom[n].active
  BY ReadsFile DEF Boot, At, ReadSteps, SeenSteps, Steady, TypeOK, Fits, Owned, HaltedSteps
<1>2. ~condemned /\ ~Active
  BY <1>1 DEF Steady, Fits, Doomed, DoomSteps, Saved, Active
<1>3. CASE SetDomain(m, d) /\ disk' = [disk EXCEPT ![m] = "data"]
  <2>1. d.active
    BY <1>1 DEF Domain
  <2> HIDE DEF d
  <2>2. Active' /\ disk'[m] = "data"
    BY <1>1, <1>3, <2>1 DEF SetDomain, Active
  <2>3. Life = "stopped" /\ Life' = "running"
    BY <1>1, <1>2, <2>2 DEF Viewed, Saved
  <2>4. KeptData' <=> TRUE
    BY <1>1, <1>2, <2>2 DEF Viewed, Saved
  <2> QED
    BY <2>3, <2>4 DEF Promise!Next, Promise!Boot, Viewed
<1>4. CASE UNCHANGED <<dom, disk>>
  BY <1>1, <1>4, Stutters DEF Active, Saved
<1> QED
  BY <1>3, <1>4 DEF Boot

\* A VM that halts, in a stop, in a remove or on its own.
LEMMA HaltingPromise ==
    ASSUME TypeOK, Viewed, Viewed', NEW m \in Modes,
           dom' = [dom EXCEPT ![m] = Halted(dom[m])], UNCHANGED <<file, disk, condemned>>
    PROVE  [Promise!Next]_(Promise!vars)
<1>1. /\ ~dom'[m].active
      /\ \A n \in Modes : n # m => dom'[n] = dom[n]
  BY HaltedFields DEF TypeOK
<1>2. Saved' <=> Saved
  BY DEF Saved
<1>3. CASE Active' <=> Active
  BY <1>2, <1>3, Stutters
<1>4. CASE Active /\ ~Active'
  <2>1. Saved
    BY <1>4 DEF Viewed
  <2>2. CASE condemned
    <3>1. Life' = Life /\ (KeptData' <=> KeptData)
      BY <1>2, <2>1, <2>2 DEF Viewed
    <3>2. KeptData' = KeptData
      BY <3>1 DEF Viewed
    <3> QED
      BY <3>1, <3>2 DEF Promise!vars
  <2>3. CASE ~condemned
    <3>1. Life = "running" /\ Life' = "stopped" /\ (KeptData' <=> KeptData)
      BY <1>2, <1>4, <2>1, <2>3 DEF Viewed
    <3>2. KeptData' = KeptData
      BY <3>1 DEF Viewed
    <3> QED
      BY <3>1, <3>2 DEF Promise!Next, Promise!Halt
  <2> QED
    BY <2>2, <2>3
<1>5. Active' => Active
  BY <1>1 DEF Active
<1> QED
  BY <1>3, <1>4, <1>5

LEMMA StopVMPromise ==
    ASSUME NEW p \in Procs, Steady(p), Viewed, Viewed', StopVM(p)
    PROVE  [Promise!Next]_(Promise!vars)
<1>1. /\ UNCHANGED <<file, disk, condemned>> /\ proc[p].mode \in Modes /\ TypeOK
      /\ \/ dom' = dom
         \/ dom' = [dom EXCEPT ![proc[p].mode] = Halted(dom[proc[p].mode])]
  BY DEF StopVM, SetDomain, Steady, TypeOK, Process
<1>2. CASE dom' = dom
  BY <1>1, <1>2, Stutters DEF Active, Saved
<1> QED
  BY <1>1, <1>2, HaltingPromise

LEMMA RemovePromise ==
    ASSUME NEW p \in Procs, Steady(p), Viewed, Viewed',
           RemoveCheck(p) \/ RemoveDestroy(p) \/ RemoveUndefine(p)
    PROVE  [Promise!Next]_(Promise!vars)
<1>1. /\ UNCHANGED <<file, disk>> /\ TypeOK
      /\ (Saved' <=> Saved)
      /\ CurrentUri(p) \in Modes
  BY DEF RemoveCheck, RemoveDestroy, RemoveUndefine, hostVars, Saved, CurrentUri, Other, Modes,
         Steady, TypeOK, Process
<1>2. CASE RemoveCheck(p)
  <2>1. Active' <=> Active
    BY <1>2 DEF RemoveCheck, hostVars, Active
  <2>2. CASE condemned' <=> condemned
    BY <1>1, <2>1, <2>2, Stutters
  <2>3. CASE ~Saved
    <3>1. Life' = Life /\ (KeptData' <=> KeptData)
      BY <1>1, <2>3 DEF Viewed
    <3>2. KeptData' = KeptData
      BY <3>1 DEF Viewed
    <3> QED
      BY <3>1, <3>2 DEF Promise!vars
  <2>4. CASE Saved /\ ~condemned /\ condemned'
    <3>1. Life \in {"stopped", "running"} /\ Life' = "doomed" /\ (KeptData' <=> FALSE)
      BY <1>1, <2>4 DEF Viewed
    <3>2. KeptData' = FALSE
      BY <3>1 DEF Viewed
    <3> QED
      BY <3>1, <3>2 DEF Promise!Next, Promise!Condemn
  <2> QED
    BY <1>2, <2>2, <2>3, <2>4 DEF RemoveCheck
<1>3. CASE RemoveDestroy(p)
  <2>1. /\ condemned' = condemned
        /\ \/ dom' = dom
           \/ dom' = [dom EXCEPT ![CurrentUri(p)] = Halted(dom[CurrentUri(p)])]
    BY <1>3 DEF RemoveDestroy, SetDomain
  <2>2. CASE dom' = dom
    BY <1>1, <2>1, <2>2, Stutters DEF Active
  <2> QED
    BY <1>1, <2>1, <2>2, HaltingPromise
<1>4. CASE RemoveUndefine(p)
  <2> DEFINE u == CurrentUri(p)
  <2>1. condemned' = condemned /\ ~dom[u].active
    BY <1>4 DEF RemoveUndefine, At, Steady, Fits, Doomed, CurrentUri
  <2>2. dom' = dom \/ dom' = [dom EXCEPT ![u] = NoDomain]
    BY <1>4, <2>1 DEF RemoveUndefine, SetDomain, Undefined
  <2> HIDE DEF u
  <2>3. Active' <=> Active
    BY <1>1, <2>1, <2>2 DEF u, Active, TypeOK, NoDomain
  <2> QED
    BY <1>1, <2>1, <2>3, Stutters
<1> QED
  BY <1>2, <1>3, <1>4

LEMMA DeletePromise ==
    ASSUME NEW p \in Procs, Steady(p), Viewed, Viewed', NEW a \in Artifacts, DeleteState(p, a)
    PROVE  [Promise!Next]_(Promise!vars)
<1>1. /\ condemned' = condemned /\ dom' = dom /\ (Saved => condemned)
      /\ \A m \in Modes : ~dom[m].active
      /\ \/ file' = NoFile
         \/ file' = file
  BY DEF DeleteState, Steady, Knows, At, Saved, Fits, Owned, Known
<1>2. (KeptData <=> FALSE) /\ (KeptData' <=> FALSE)
  BY <1>1 DEF Viewed, Saved, NoFile
<1>3. KeptData = FALSE /\ KeptData' = FALSE
  BY <1>2 DEF Viewed
<1>4. ~Active /\ ~Active'
  BY <1>1 DEF Active
<1>5. CASE Saved' <=> Saved
  <2>1. Life' = Life
    BY <1>1, <1>4, <1>5 DEF Viewed
  <2> QED
    BY <1>3, <2>1 DEF Promise!vars
<1>6. CASE Saved /\ ~Saved'
  <2>1. Life = "doomed" /\ Life' = "absent"
    BY <1>1, <1>6 DEF Viewed
  <2> QED
    BY <1>3, <2>1 DEF Promise!Next, Promise!Vanish
<1> QED
  BY <1>1, <1>5, <1>6 DEF Saved, NoFile

LEMMA CommandPromise ==
    ASSUME NEW p \in Procs, Steady(p), Viewed, Viewed', CommandStep(p)
    PROVE  [Promise!Next]_(Promise!vars)
<1>1. CASE StartStep(p)
  <2>1. CASE Reconfigure(p)
    BY <2>1, QuietStepPromise, RedefinePromise DEF Reconfigure, ProbeSteps
  <2>2. CASE IsolatedRedefine(p)
    BY <2>2, RedefinePromise DEF IsolatedRedefine, IsoSteps
  <2> QED
    BY <1>1, <2>1, <2>2, BirthPromise, QuietStepPromise, BootPromise DEF StartStep
<1>2. CASE StopStep(p)
  BY <1>2, QuietStepPromise, StopVMPromise DEF StopStep
<1>3. CASE RemoveStep(p)
  BY <1>3, QuietStepPromise, RemovePromise, DeletePromise DEF RemoveStep
<1> QED
  BY <1>1, <1>2, <1>3 DEF CommandStep

\* Every step of the cage is a step of the promise, or none.
LEMMA StepPromise ==
    ASSUME QuietDays, DataInv, QuietInv, Viewed, Viewed', [Next]_vars
    PROVE  [Promise!Next]_(Promise!vars)
<1>1. CASE UNCHANGED vars
  BY <1>1, Stutters DEF vars, Saved, Active
<1>2. ASSUME NEW p \in Procs, CommandStep(p) PROVE [Promise!Next]_(Promise!vars)
  <2>1. ~At(p, "idle")
    BY <1>2, StartKnows, StopKnows, RemoveKnows DEF CommandStep
  <2>2. Steady(p)
    BY <2>1 DEF Steady, DataInv, QuietInv
  <2> QED
    BY <1>2, <2>2, CommandPromise
<1>3. ASSUME NEW p \in Procs, NEW cmd \in {"start", "stop", "restart", "remove"}, NEW m \in Modes,
             NEW force \in BOOLEAN, NEW proj \in BOOLEAN, Invoke(p, cmd, m, force, proj)
      PROVE  [Promise!Next]_(Promise!vars)
  BY <1>3, Stutters DEF Invoke, hostVars, Saved, Active
<1>4. ASSUME NEW m \in Modes, GuestHalts(m) PROVE [Promise!Next]_(Promise!vars)
  BY <1>4, HaltingPromise DEF GuestHalts, SetDomain, DataInv
<1>5. ~HostReboots /\ (\A m \in Modes : ~Snapshot(m)) /\ \A p \in Procs : ~Crash(p)
  BY DEF QuietDays, HostReboots, Snapshot, Crash, May
<1> QED
  BY <1>1, <1>2, <1>3, <1>4, <1>5 DEF Next

\* However a day's commands are made of files, domains and processes, the cage
\* keeps the promise of module Cage.
THEOREM QuietRefinement == QuietDays => (Spec => KeepsPromise)
<1> SUFFICES ASSUME QuietDays PROVE Spec => KeepsPromise
  OBVIOUS
<1>1. Init => Promise!Init
  <2> SUFFICES ASSUME Init PROVE Promise!Init
    OBVIOUS
  <2>1. file = NoFile /\ condemned = FALSE
    BY DEF Init, NoCage, LegacyCage, QuietDays
  <2>2. Life = "absent"
    BY <2>1 DEF Life, NoFile
  <2>3. ~KeptData
    BY <2>2 DEF KeptData
  <2>4. KeptData = FALSE
    BY <2>3 DEF KeptData
  <2> QED
    BY <2>2, <2>4 DEF Promise!Init
<1>2. DataInv /\ QuietInv => Viewed
  BY ViewedAlways
<1>3. DataInv /\ QuietInv /\ Viewed /\ Viewed' /\ [Next]_vars => [Promise!Next]_(Promise!vars)
  BY StepPromise
<1> QED
  BY <1>1, <1>2, <1>3, QuietInvariance, PTL DEF Spec, KeepsPromise, Promise!Spec

=============================================================================
