-------------------------- MODULE HostSettingsProofs --------------------------
(***************************************************************************)
(* Proofs about HostSettings for any number of targets, reports and        *)
(* re-renderings: the types, that settings are kept, that the lists follow *)
(* the rows, that adoption loses no check, and that a revision stands for  *)
(* one list.                                                               *)
(***************************************************************************)
EXTENDS HostSettings, TLAPS

-----------------------------------------------------------------------------
(* The types, in groups that an action changes or leaves alone.            *)

SettingsTyped ==
    /\ cfg \in Config /\ rev \in Nat
    /\ due \in [flag : Flag, managed : BOOLEAN] /\ overtaken \subseteq {"flag", "managed", "list"}
RowsTyped  == rows \in [Target -> {"none", "kept", "timed", "expired"}]
GoneTyped  == gone \subseteq Target
SyncTyped  == sync \in [Sync -> Syncs]
RepTyped   == rep \in [Handler -> Reps]
AgentTyped == agent \in [rev : Nat, set : SUBSET SUBSET Target, closed : BOOLEAN, waits : SUBSET Handler]
DiskTyped  == disk \in Followed
EventsTyped == events \in Nat

Parts ==
    /\ SettingsTyped /\ RowsTyped /\ GoneTyped /\ SyncTyped /\ RepTyped
    /\ AgentTyped /\ DiskTyped /\ EventsTyped

LEMMA TypeParts == (TypeOK <=> Parts) /\ (TypeOK' <=> Parts')
BY Zenon DEF TypeOK, Parts, SettingsTyped, RowsTyped, GoneTyped, SyncTyped, RepTyped, AgentTyped,
             DiskTyped, EventsTyped

LEMMA Unchanged ==
    ASSUME Parts
    PROVE  /\ UNCHANGED settings => SettingsTyped'
           /\ UNCHANGED rows => RowsTyped'
           /\ UNCHANGED gone => GoneTyped'
           /\ UNCHANGED sync => SyncTyped'
           /\ UNCHANGED rep => RepTyped'
           /\ UNCHANGED fleet => AgentTyped' /\ DiskTyped'
           /\ UNCHANGED disk => DiskTyped'
           /\ UNCHANGED events \/ Event => EventsTyped'
<1>1. UNCHANGED settings => SettingsTyped'
  BY Zenon DEF Parts, SettingsTyped, settings
<1>2. /\ UNCHANGED rows => RowsTyped'
      /\ UNCHANGED gone => GoneTyped'
      /\ UNCHANGED sync => SyncTyped'
      /\ UNCHANGED rep => RepTyped'
  BY DEF Parts, RowsTyped, GoneTyped, SyncTyped, RepTyped
<1>3. /\ UNCHANGED fleet => AgentTyped' /\ DiskTyped'
      /\ UNCHANGED disk => DiskTyped'
  BY DEF Parts, AgentTyped, DiskTyped, fleet
<1>4. UNCHANGED events \/ Event => EventsTyped'
  BY DEF Parts, EventsTyped, Event
<1>5. QED
  BY <1>1, <1>2, <1>3, <1>4

LEMMA SetsType ==
    /\ Live \subseteq Target /\ Have \subseteq Target /\ Live' \subseteq Target
    /\ NoSync \in Syncs /\ NoRep \in Reps
BY DEF Live, Have, NoSync, NoRep, Blank, Syncs, Reps, Config, Flag

LEMMA SyncOnType ==
    ASSUME SyncTyped, NEW s, NEW next \in Syncs, SyncOn(s, next)
    PROVE  SyncTyped'
BY DEF SyncTyped, SyncOn

LEMMA GoesOnType ==
    ASSUME RepTyped, NEW h, NEW next \in Reps, GoesOn(h, next)
    PROVE  RepTyped'
BY DEF RepTyped, GoesOn

LEMMA PutSettingType ==
    ASSUME SettingsTyped, NEW new \in Config, NEW part, PutSetting(new, part)
    PROVE  SettingsTyped'
<1>1. due' = [due EXCEPT !.flag = IF part = "flag" THEN new.flag ELSE due.flag]
  BY DEF PutSetting
<1>2. (IF part = "flag" THEN new.flag ELSE due.flag) \in Flag
  BY DEF Config, SettingsTyped
<1>3. due' \in [flag : Flag, managed : BOOLEAN]
  BY <1>1, <1>2 DEF SettingsTyped
<1>4. QED
  BY <1>3 DEF SettingsTyped, PutSetting, Put

LEMMA PutBackType ==
    ASSUME SettingsTyped, NEW old, NEW new \in Config, NEW seen, PutBack(old, new, seen)
    PROVE  SettingsTyped'
<1>1. due' = [due EXCEPT !.managed = due.managed \/ new.managed]
  BY DEF PutBack
<1>2. due' \in [flag : Flag, managed : BOOLEAN]
  BY <1>1 DEF SettingsTyped
<1>3. QED
  BY <1>2 DEF SettingsTyped, PutBack, Put

LEMMA RowWrites ==
    ASSUME RowsTyped, NEW t \in Target
    PROVE  /\ Without(t) \in [Target -> {"none", "kept", "timed", "expired"}]
           /\ With(t) \in [Target -> {"none", "kept", "timed", "expired"}]
BY DEF RowsTyped, Without, With

LEMMA RemoveType ==
    ASSUME GoneTyped, NEW targets, targets \subseteq Target, Remove(targets)
    PROVE  GoneTyped'
BY DEF GoneTyped, Remove

LEMMA RestartedType ==
    ASSUME NEW r \in Nat, NEW set \in SUBSET SUBSET Target, NEW closed \in BOOLEAN
    PROVE  [rev |-> r, set |-> set, closed |-> closed, waits |-> {}] \in
           [rev : Nat, set : SUBSET SUBSET Target, closed : BOOLEAN, waits : SUBSET Handler]
<1>1. {} \in SUBSET Handler
  OBVIOUS
<1>2. CASE closed = TRUE
  BY <1>1, <1>2
<1>3. CASE closed = FALSE
  BY <1>1, <1>3
<1>4. QED
  BY <1>2, <1>3, Zenon

LEMMA InitType == Init => TypeOK
<1> SUFFICES ASSUME Init PROVE TypeOK
  OBVIOUS
<1>1. SettingsTyped
  <2>1. Legacy \subseteq Target
    BY SettingsAssumption
  <2>2. cfg \in Config /\ rev \in Nat /\ overtaken \subseteq {"flag", "managed", "list"}
    <3>1. Blank \in Config
      BY DEF Blank, Config, Flag
    <3>2. [Blank EXCEPT !.list = Legacy] \in Config
      BY <2>1, <3>1 DEF Config
    <3>3. QED
      BY <3>1, <3>2 DEF Init
  <2>3. due \in [flag : Flag, managed : BOOLEAN]
    BY DEF Init, Flag
  <2>4. QED
    BY <2>2, <2>3 DEF SettingsTyped
<1>2. RowsTyped /\ GoneTyped /\ SyncTyped /\ RepTyped
  BY SetsType DEF Init, RowsTyped, GoneTyped, SyncTyped, RepTyped
<1>3. AgentTyped /\ DiskTyped /\ EventsTyped
  <2>1. {} \in SUBSET SUBSET Target /\ {} \in SUBSET Handler
    OBVIOUS
  <2>2. AgentTyped
    <3>1. PICK closed \in BOOLEAN : agent = [rev |-> 0, set |-> {}, closed |-> closed, waits |-> {}]
      BY Zenon DEF Init
    <3>2. QED
      <4>1. 0 \in Nat
        OBVIOUS
      <4>2. QED
        BY <2>1, <3>1, <4>1, RestartedType, Zenon DEF AgentTyped
  <2>3. DiskTyped /\ EventsTyped
    BY <2>1 DEF Init, DiskTyped, EventsTyped, Followed
  <2>4. QED
    BY <2>2, <2>3
<1>4. QED
  BY <1>1, <1>2, <1>3, TypeParts DEF Parts

-----------------------------------------------------------------------------
LEMMA OperatorStepType ==
    ASSUME Parts,
           \/ \E f \in Flag : SaveFlag(f)
           \/ \E wanted \in SUBSET Target : SaveList(wanted)
           \/ \E s \in Sync, t \in Target :
                 (\E as \in {"kept", "timed"} : EditRow(s, t, as)) \/ DeleteRow(s, t)
           \/ \E t \in Target : Expire(t)
    PROVE  Parts'
<1>1. ASSUME NEW f \in Flag, SaveFlag(f) PROVE Parts'
  <2>1. [cfg EXCEPT !.flag = f, !.list = Live] \in Config
    BY SetsType DEF Parts, SettingsTyped, Config
  <2>2. SettingsTyped'
    <3>1. PutSetting([cfg EXCEPT !.flag = f, !.list = Live], "flag")
      BY <1>1, Zenon DEF SaveFlag
    <3>2. QED
      BY <2>1, <3>1, PutSettingType DEF Parts
  <2>3. UNCHANGED <<rows, sync, rep, fleet, gone>> /\ Event
    BY <1>1, Zenon DEF SaveFlag
  <2>4. QED
    BY <2>2, <2>3, Unchanged DEF Parts
<1>2. ASSUME NEW wanted \in SUBSET Target, SaveList(wanted) PROVE Parts'
  <2>1. RowsTyped'
    <3>1. \A t \in Target : With(t)[t] \in {"none", "kept", "timed", "expired"}
      BY RowWrites DEF Parts
    <3>2. QED
      BY <1>2, <3>1 DEF SaveList, RowsTyped
  <2>2. [cfg EXCEPT !.list = Live'] \in Config
    BY SetsType DEF Parts, SettingsTyped, Config
  <2>3. SettingsTyped'
    BY <1>2, <2>2, PutSettingType DEF SaveList, Parts
  <2>4. GoneTyped'
    BY <1>2, SetsType, RemoveType DEF SaveList, Parts
  <2>5. QED
    BY <1>2, <2>1, <2>3, <2>4, Unchanged DEF SaveList, Parts
<1>3. ASSUME NEW s \in Sync, NEW t \in Target, NEW as \in {"kept", "timed"}, EditRow(s, t, as)
      PROVE  Parts'
  <2>1. RowsTyped'
    BY <1>3 DEF EditRow, Parts, RowsTyped
  <2>2. [sync[s] EXCEPT !.at = "due"] \in Syncs
    BY DEF Parts, SyncTyped, Syncs
  <2>3. SyncTyped'
    BY <1>3, <2>2, SyncOnType DEF EditRow, Rerender, Parts
  <2>4. QED
    BY <1>3, <2>1, <2>3, Unchanged DEF EditRow, Parts
<1>4. ASSUME NEW s \in Sync, NEW t \in Target, DeleteRow(s, t)
      PROVE  Parts'
  <2>1. RowsTyped'
    BY <1>4, RowWrites DEF DeleteRow, Parts, RowsTyped
  <2>2. [sync[s] EXCEPT !.at = "due"] \in Syncs
    BY DEF Parts, SyncTyped, Syncs
  <2>3. SyncTyped'
    BY <1>4, <2>2, SyncOnType DEF DeleteRow, Rerender, Parts
  <2>4. GoneTyped'
    BY <1>4, RemoveType DEF DeleteRow, Parts
  <2>5. QED
    BY <1>4, <2>1, <2>3, <2>4, Unchanged DEF DeleteRow, Parts
<1>5. ASSUME NEW t \in Target, Expire(t) PROVE Parts'
  <2>1. RowsTyped'
    BY <1>5 DEF Expire, Parts, RowsTyped
  <2>2. QED
    BY <1>5, <2>1, Unchanged DEF Expire, Parts
<1>6. QED
  BY <1>1, <1>2, <1>3, <1>4, <1>5

LEMMA SyncStepType ==
    ASSUME Parts, NEW s \in Sync, SweepList(s) \/ Resync(s)
    PROVE  Parts'
<1>1. sync[s] \in Syncs /\ sync[s].todo \subseteq Target /\ cfg \in Config /\ sync[s].seen \subseteq Target
  BY DEF Parts, SyncTyped, SettingsTyped, Syncs
<1>2. CASE SweepList(s)
  <2>1. [sync[s] EXCEPT !.at = "sweep", !.todo = {t \in Target : rows[t] = "expired"}] \in Syncs
    <3>1. {t \in Target : rows[t] = "expired"} \subseteq Target
      OBVIOUS
    <3>2. \A todo : todo \subseteq Target => [sync[s] EXCEPT !.at = "sweep", !.todo = todo] \in Syncs
      BY <1>1 DEF Syncs
    <3>3. QED
      BY <3>1, <3>2, Zenon
  <2>2. SyncTyped'
    BY <1>2, <2>1, SyncOnType DEF SweepList, Parts
  <2>3. QED
    BY <1>2, <2>2, Unchanged DEF SweepList, Parts
<1>3. CASE Sweep(s)
  <2>1. PICK t \in sync[s].todo :
          /\ rows' = Without(t) /\ Remove({t})
          /\ SyncOn(s, [sync[s] EXCEPT !.at = "due", !.todo = sync[s].todo \ {t}])
    <3>1. PICK t \in sync[s].todo :
            /\ rows' = Without(t) /\ Remove({t})
            /\ SyncOn(s, [sync[s] EXCEPT !.at = "due", !.todo = @ \ {t}])
      BY <1>3, Zenon DEF Sweep
    <3>2. [sync[s] EXCEPT !.at = "due", !.todo = @ \ {t}]
            = [sync[s] EXCEPT !.at = "due", !.todo = sync[s].todo \ {t}]
      BY <1>1 DEF Syncs
    <3>3. QED
      BY <3>1, <3>2, Zenon
  <2>2. [sync[s] EXCEPT !.at = "due", !.todo = sync[s].todo \ {t}] \in Syncs
    BY <1>1 DEF Syncs
  <2>3. SyncTyped'
    BY <2>1, <2>2, SyncOnType DEF Parts
  <2>4. RowsTyped' /\ GoneTyped'
    BY <1>1, <2>1, RowWrites, RemoveType DEF Parts, RowsTyped
  <2>5. QED
    BY <1>3, <2>3, <2>4, Unchanged DEF Sweep, Parts
<1>4. CASE SyncRead(s)
  <2>1. [sync[s] EXCEPT !.at = "read", !.old = cfg] \in Syncs
    BY <1>1 DEF Syncs
  <2>2. SyncTyped'
    BY <1>4, <2>1, SyncOnType DEF SyncRead, Parts
  <2>3. QED
    BY <1>4, <2>2, Unchanged DEF SyncRead, Parts
<1>5. CASE SyncList(s)
  <2>1. [sync[s] EXCEPT !.at = "listed", !.seen = Live] \in Syncs
    BY <1>1, SetsType DEF Syncs
  <2>2. SyncTyped'
    BY <1>5, <2>1, SyncOnType DEF SyncList, Parts
  <2>3. QED
    BY <1>5, <2>2, Unchanged DEF SyncList, Parts
<1>6. CASE SyncWrite(s)
  <2>1. [NoSync EXCEPT !.at = IF sync[s].todo = {} THEN "idle" ELSE "sweep", !.todo = sync[s].todo] \in Syncs
    <3>1. \A at \in {"idle", "sweep"} : [NoSync EXCEPT !.at = at, !.todo = sync[s].todo] \in Syncs
      BY <1>1, SetsType DEF Syncs
    <3>2. (IF sync[s].todo = {} THEN "idle" ELSE "sweep") \in {"idle", "sweep"}
      OBVIOUS
    <3>3. QED
      BY <3>1, <3>2, Zenon
  <2>2. SyncTyped'
    BY <1>6, <2>1, SyncOnType DEF SyncWrite, Parts
  <2> DEFINE new == [sync[s].old EXCEPT !.list = sync[s].seen]
  <2>3. new \in Config
    BY <1>1 DEF Syncs, Config
  <2>4. \/ PutBack(sync[s].old, new, sync[s].seen)
        \/ /\ UNCHANGED <<cfg, rev, due>>
           /\ overtaken' = overtaken \cup (IF cfg.list # Live THEN {"list"} ELSE {})
    BY <1>6 DEF SyncWrite
  <2> HIDE DEF new
  <2>5. SettingsTyped'
    <3>1. CASE PutBack(sync[s].old, new, sync[s].seen)
      BY <2>3, <3>1, PutBackType DEF Parts
    <3>2. CASE /\ UNCHANGED <<cfg, rev, due>>
               /\ overtaken' = overtaken \cup (IF cfg.list # Live THEN {"list"} ELSE {})
      BY <3>2 DEF Parts, SettingsTyped
    <3>3. QED
      BY <2>4, <3>1, <3>2
  <2>6. QED
    BY <1>6, <2>2, <2>5, Unchanged DEF SyncWrite, Parts
<1>7. QED
  BY <1>2, <1>3, <1>4, <1>5, <1>6 DEF Resync
-----------------------------------------------------------------------------
LEMMA ReportStepType ==
    ASSUME Parts, NEW h \in Handler, Handle(h)
    PROVE  Parts'
<1>1. /\ rep[h] \in Reps /\ cfg \in Config /\ rev \in Nat
      /\ rep[h].ran \subseteq Target /\ rep[h].seen \subseteq Target /\ rep[h].host \in Config
  BY DEF Parts, RepTyped, SettingsTyped, Reps
<1>2. rep[h].host.list \subseteq Target
  BY <1>1 DEF Config
<1>3. ASSUME NEW host \in Config, Proceed(h, host)
      PROVE  RepTyped'
  <2>1. [NoRep EXCEPT !.at = "reply"] \in Reps
    BY SetsType DEF Reps
  <2>2. [NoRep EXCEPT !.at = "adopt", !.ran = rep[h].ran, !.host = host] \in Reps
    BY <1>1, SetsType DEF Reps
  <2>3. QED
    BY <1>3, <2>1, <2>2, GoesOnType DEF Proceed, Parts
<1>4. CASE Arrive(h)
  <2>1. [rep[h] EXCEPT !.at = "store", !.host = cfg] \in Reps
    BY <1>1 DEF Reps
  <2>2. RepTyped'
    BY <1>1, <1>3, <1>4, <2>1, GoesOnType DEF Arrive, Parts
  <2>3. QED
    BY <1>4, <2>2, Unchanged DEF Arrive, Parts
<1>5. CASE Store(h)
  <2>1. CASE Sticky(cfg, rep[h].closed)
    <3>1. /\ PutSetting([cfg EXCEPT !.flag = "on", !.list = Live], "flag")
          /\ GoesOn(h, [rep[h] EXCEPT !.at = "reread"])
          /\ UNCHANGED <<rows, sync, fleet, gone, events>>
      BY <1>5, <2>1, Zenon DEF Store
    <3>2. [cfg EXCEPT !.flag = "on", !.list = Live] \in Config
      BY <1>1, SetsType DEF Config, Flag
    <3>3. [rep[h] EXCEPT !.at = "reread"] \in Reps
      BY <1>1 DEF Reps
    <3>4. SettingsTyped' /\ RepTyped'
      BY <3>1, <3>2, <3>3, PutSettingType, GoesOnType DEF Parts
    <3>5. QED
      BY <3>1, <3>4, Unchanged DEF Parts
  <2>2. CASE ~Sticky(cfg, rep[h].closed)
    <3>1. Proceed(h, rep[h].host) /\ UNCHANGED <<settings, rows, sync, fleet, gone, events>>
      BY <1>5, <2>2, Zenon DEF Store
    <3>2. QED
      BY <1>1, <1>3, <3>1, Unchanged DEF Parts
  <2>3. QED
    BY <2>1, <2>2
<1>6. CASE Reread(h)
  BY <1>1, <1>3, <1>6, Unchanged DEF Reread, Parts
<1>7. CASE Adopt(h)
  <2>1. [rep[h] EXCEPT !.at = "add", !.seen = Declared(h) \ Have] \in Reps
    <3>1. Declared(h) \ Have \subseteq Target
      BY <1>1, <1>2 DEF Declared
    <3>2. QED
      BY <1>1, <3>1 DEF Reps
  <2>2. RepTyped'
    BY <1>7, <2>1, GoesOnType DEF Adopt, Parts
  <2>3. QED
    BY <1>7, <2>2, Unchanged DEF Adopt, Parts
<1>8. CASE AdoptAdd(h)
  <2>1. PICK t \in rep[h].seen : rows' = With(t) /\ GoesOn(h, [rep[h] EXCEPT !.seen = @ \ {t}])
    BY <1>8, Zenon DEF AdoptAdd
  <2>2. [rep[h] EXCEPT !.seen = @ \ {t}] \in Reps
    BY <1>1 DEF Reps
  <2>3. RepTyped' /\ RowsTyped'
    BY <1>1, <2>1, <2>2, GoesOnType, RowWrites DEF Parts, RowsTyped
  <2>4. QED
    BY <1>8, <2>3, Unchanged DEF AdoptAdd, Parts
<1>9. CASE AdoptList(h)
  <2>1. [rep[h] EXCEPT !.at = "write", !.seen = Live] \in Reps
    BY <1>1, SetsType DEF Reps
  <2>2. RepTyped' /\ GoneTyped'
    BY <1>9, <2>1, GoesOnType, SetsType DEF AdoptList, Parts, GoneTyped
  <2>3. QED
    BY <1>9, <2>2, Unchanged DEF AdoptList, Parts
<1>10. CASE AdoptWrite(h)
  <2>1. [rep[h].host EXCEPT !.managed = TRUE, !.list = rep[h].seen] \in Config
    BY <1>1 DEF Config
  <2>2. PutBack(rep[h].host, [rep[h].host EXCEPT !.managed = TRUE, !.list = rep[h].seen], rep[h].seen)
    BY <1>10, Zenon DEF AdoptWrite
  <2>3. SettingsTyped'
    BY <2>1, <2>2, PutBackType DEF Parts
  <2>4. [NoRep EXCEPT !.at = "reply"] \in Reps
    BY SetsType DEF Reps
  <2>5. RepTyped' /\ GoneTyped'
    BY <1>10, <2>4, GoesOnType DEF AdoptWrite, Parts, GoneTyped
  <2>6. QED
    BY <1>10, <2>3, <2>5, Unchanged DEF AdoptWrite, Parts
<1>11. CASE Reply(h)
  <2>1. [NoRep EXCEPT !.at = "sent", !.host = cfg, !.rev = rev] \in Reps /\ NoRep \in Reps
    BY <1>1, SetsType DEF Reps
  <2>2. RepTyped'
    BY <1>11, <2>1, GoesOnType DEF Reply, Parts
  <2>3. QED
    BY <1>11, <2>2, Unchanged DEF Reply, Parts
<1>12. QED
  BY <1>4, <1>5, <1>6, <1>7, <1>8, <1>9, <1>10, <1>11 DEF Handle

LEMMA AgentStepType ==
    ASSUME Parts,
           \/ \E h \in Handler : Push(h) \/ Apply(h) \/ Lost(h)
           \/ GiveUp \/ Restart
    PROVE  Parts'
<1>1. /\ agent.rev \in Nat /\ agent.set \in SUBSET SUBSET Target /\ agent.closed \in BOOLEAN
      /\ disk.rev \in Nat /\ disk.set \in SUBSET SUBSET Target
  BY DEF Parts, AgentTyped, DiskTyped, Followed
<1>2. Effective \subseteq Target /\ {} \subseteq Target
  BY <1>1, SettingsAssumption DEF Effective
<1>3. ASSUME NEW h \in Handler, Push(h) PROVE Parts'
  <2>1. PICK ran \in {Effective, {}} :
          GoesOn(h, [NoRep EXCEPT !.at = "pushed", !.closed = agent.closed, !.ran = ran])
    BY <1>3, Zenon DEF Push
  <2>2. [NoRep EXCEPT !.at = "pushed", !.closed = agent.closed, !.ran = ran] \in Reps
    BY <1>1, <1>2, SetsType DEF Reps
  <2>3. RepTyped'
    BY <2>1, <2>2, GoesOnType DEF Parts
  <2>4. agent' = [agent EXCEPT !.waits = {h}] /\ UNCHANGED <<settings, rows, sync, disk, gone, events>>
    BY <1>3, Zenon DEF Push
  <2>5. AgentTyped'
    BY <2>4 DEF Parts, AgentTyped
  <2>6. QED
    BY <2>3, <2>4, <2>5, Unchanged DEF Parts
<1>4. ASSUME NEW h \in Handler, Apply(h) PROVE Parts'
  <2>1. rep[h] \in Reps /\ rep[h].rev \in Nat /\ rep[h].host.list \subseteq Target
    BY DEF Parts, RepTyped, Reps, Config
  <2> DEFINE r == rep[h].rev
             set == Offered(rep[h].host, r)
  <2>2. set \in SUBSET SUBSET Target
    BY <2>1 DEF Offered, Shown
  <2>3. RepTyped'
    <3>1. GoesOn(h, NoRep)
      BY <1>4, Zenon DEF Apply
    <3>2. QED
      BY <3>1, SetsType, GoesOnType DEF Parts
  <2>4. \/ agent' = [agent EXCEPT !.waits = {}] /\ UNCHANGED <<disk, events>>
        \/ /\ agent' = [agent EXCEPT !.waits = {}, !.rev = r, !.set = set]
           /\ \/ disk' = [rev |-> r, set |-> set] /\ UNCHANGED events
              \/ Event /\ UNCHANGED disk
    BY <1>4, Zenon DEF Apply
  <2>5. r \in Nat
    BY <2>1
  <2> HIDE DEF r, set
  <2>6. AgentTyped'
    BY <2>2, <2>4, <2>5 DEF Parts, AgentTyped
  <2>7. DiskTyped'
    BY <2>2, <2>4, <2>5 DEF Parts, DiskTyped, Followed
  <2>8. EventsTyped'
    BY <2>4, Unchanged
  <2>9. UNCHANGED <<settings, rows, sync, gone>>
    BY <1>4, Zenon DEF Apply
  <2>10. QED
    BY <2>3, <2>6, <2>7, <2>8, <2>9, Unchanged DEF Parts
<1>5. ASSUME NEW h \in Handler, Lost(h) PROVE Parts'
  BY <1>5, SetsType, GoesOnType, Unchanged DEF Lost, Parts
<1>6. CASE GiveUp \/ Restart
  <2>1. RepTyped'
    BY <1>6, SetsType DEF GiveUp, Restart, Forsake, Parts, RepTyped
  <2>2. \/ agent' = [agent EXCEPT !.waits = {}]
        \/ \E closed \in BOOLEAN :
             agent' = [rev |-> disk.rev, set |-> disk.set, closed |-> closed, waits |-> {}]
    BY <1>6, Zenon DEF GiveUp, Restart
  <2>3. AgentTyped'
    <3>1. CASE agent' = [agent EXCEPT !.waits = {}]
      BY <3>1 DEF Parts, AgentTyped
    <3>2. ASSUME NEW closed \in BOOLEAN,
                 agent' = [rev |-> disk.rev, set |-> disk.set, closed |-> closed, waits |-> {}]
          PROVE  AgentTyped'
      BY <1>1, <3>2, RestartedType, Zenon DEF AgentTyped
    <3>3. QED
      BY <2>2, <3>1, <3>2
  <2>4. UNCHANGED <<settings, rows, sync, disk, gone>> /\ Event
    BY <1>6, Zenon DEF GiveUp, Restart
  <2>5. QED
    BY <2>1, <2>3, <2>4, Unchanged DEF Parts
<1>7. QED
  BY <1>3, <1>4, <1>5, <1>6

LEMMA StepType ==
    ASSUME TypeOK, [Next]_vars
    PROVE  TypeOK'
<1>1. Parts
  BY TypeParts
<1>2. CASE UNCHANGED vars
  <2>1. UNCHANGED <<settings, rows, sync, rep, fleet, gone, events>>
    BY <1>2 DEF vars
  <2>2. QED
    BY <1>1, <2>1, Unchanged, TypeParts DEF Parts
<1>3. CASE Next
  <2>1. Parts'
    BY <1>1, <1>3, OperatorStepType, SyncStepType, ReportStepType, AgentStepType, Zenon DEF Next
  <2>2. QED
    BY <2>1, TypeParts
<1>4. QED
  BY <1>2, <1>3

\* Every variable keeps its type, for any number of targets, reports under way
\* and re-renderings: TypeOK of HostSettings.
THEOREM TypeCorrect == Spec => []TypeOK
<1>1. Init => TypeOK
  BY InitType
<1>2. TypeOK /\ [Next]_vars => TypeOK'
  BY StepType
<1>3. QED
  BY <1>1, <1>2, PTL DEF Spec

-----------------------------------------------------------------------------
(* What a step does to the settings: nothing, a write under the lock, or a *)
(* write of what was read before.                                          *)

LocksIn(new, part) ==
    /\ PutSetting(new, part) /\ new \in Config
    /\ new.managed = cfg.managed /\ (part = "flag" \/ (part = "list" /\ new.flag = cfg.flag))

PutsBack(old, new, seen) ==
    /\ PutBack(old, new, seen) /\ old \in Config /\ new \in Config
    /\ new.flag = old.flag /\ new.managed \in {old.managed, TRUE} /\ new.list = seen

OnlyNotes ==
    /\ UNCHANGED <<cfg, rev, due>>
    /\ overtaken' = overtaken \cup (IF cfg.list # Live THEN {"list"} ELSE {})

LEMMA WritesBack ==
    ASSUME TypeOK
    PROVE  /\ \A s \in Sync : SyncWrite(s) =>
                 OnlyNotes \/ \E old, new : PutsBack(old, new, sync[s].seen)
           /\ \A h \in Handler : AdoptWrite(h) =>
                 \E old, new : PutsBack(old, new, rep[h].seen)
<1>1. ASSUME NEW s \in Sync, SyncWrite(s)
      PROVE  OnlyNotes \/ \E old, new : PutsBack(old, new, sync[s].seen)
  <2> DEFINE old == sync[s].old
             new == [old EXCEPT !.list = sync[s].seen]
  <2>1. old \in Config /\ sync[s].seen \subseteq Target
    BY DEF TypeOK, Syncs
  <2>2. new \in Config /\ new.flag = old.flag /\ new.managed = old.managed /\ new.list = sync[s].seen
    BY <2>1 DEF Config
  <2>3. \/ PutBack(old, new, sync[s].seen)
        \/ OnlyNotes
    BY <1>1 DEF SyncWrite, OnlyNotes
  <2> HIDE DEF old, new
  <2>4. QED
    BY <2>1, <2>2, <2>3 DEF PutsBack
<1>2. ASSUME NEW h \in Handler, AdoptWrite(h)
      PROVE  \E old, new : PutsBack(old, new, rep[h].seen)
  <2> DEFINE old == rep[h].host
             new == [old EXCEPT !.managed = TRUE, !.list = rep[h].seen]
  <2>1. old \in Config /\ rep[h].seen \subseteq Target
    BY DEF TypeOK, Reps
  <2>2. new \in Config /\ new.flag = old.flag /\ new.managed = TRUE /\ new.list = rep[h].seen
    BY <2>1 DEF Config
  <2>3. PutBack(old, new, rep[h].seen)
    BY <1>2, Zenon DEF AdoptWrite
  <2> HIDE DEF old, new
  <2>4. QED
    BY <2>1, <2>2, <2>3 DEF PutsBack
<1>3. QED
  BY <1>1, <1>2

LEMMA LockedWrites ==
    ASSUME TypeOK
    PROVE  /\ \A f \in Flag : SaveFlag(f) => \E new : LocksIn(new, "flag") /\ new.list = Live
           /\ \A wanted \in SUBSET Target : SaveList(wanted) =>
                 \E new : LocksIn(new, "list") /\ new.list = Live'
           /\ \A h \in Handler : Store(h) =>
                 \/ UNCHANGED settings
                 \/ \E new : LocksIn(new, "flag") /\ new.list = Live /\ new.flag = "on"
<1>1. cfg \in Config
  BY DEF TypeOK
<1>2. ASSUME NEW f \in Flag, SaveFlag(f)
      PROVE  \E new : LocksIn(new, "flag") /\ new.list = Live
  <2> DEFINE new == [cfg EXCEPT !.flag = f, !.list = Live]
  <2>1. new \in Config /\ new.managed = cfg.managed /\ new.list = Live
    BY <1>1, SetsType DEF Config
  <2>2. PutSetting(new, "flag")
    BY <1>2, Zenon DEF SaveFlag
  <2> HIDE DEF new
  <2>3. QED
    BY <2>1, <2>2, Zenon DEF LocksIn
<1>3. ASSUME NEW wanted \in SUBSET Target, SaveList(wanted)
      PROVE  \E new : LocksIn(new, "list") /\ new.list = Live'
  <2> DEFINE new == [cfg EXCEPT !.list = Live']
  <2>1. new \in Config /\ new.managed = cfg.managed /\ new.flag = cfg.flag /\ new.list = Live'
    BY <1>1, SetsType DEF Config
  <2>2. PutSetting(new, "list")
    BY <1>3, Zenon DEF SaveList
  <2> HIDE DEF new
  <2>3. QED
    BY <2>1, <2>2, Zenon DEF LocksIn
<1>4. ASSUME NEW h \in Handler, Store(h)
      PROVE  \/ UNCHANGED settings
             \/ \E new : LocksIn(new, "flag") /\ new.list = Live /\ new.flag = "on"
  <2> DEFINE new == [cfg EXCEPT !.flag = "on", !.list = Live]
  <2>1. new \in Config /\ new.managed = cfg.managed /\ new.list = Live /\ new.flag = "on"
    BY <1>1, SetsType DEF Config, Flag
  <2>2. UNCHANGED settings \/ PutSetting(new, "flag")
    BY <1>4, Zenon DEF Store
  <2> HIDE DEF new
  <2>3. QED
    BY <2>1, <2>2, Zenon DEF LocksIn
<1>5. QED
  BY <1>2, <1>3, <1>4

\* Every step is one of these.
LEMMA StepSettings ==
    ASSUME TypeOK, [Next]_vars
    PROVE  \/ UNCHANGED settings
           \/ OnlyNotes
           \/ \E new, part : LocksIn(new, part)
           \/ \E old, new, seen : PutsBack(old, new, seen)
<1>1. CASE \E f \in Flag : SaveFlag(f)
  BY <1>1, LockedWrites
<1>2. CASE \E wanted \in SUBSET Target : SaveList(wanted)
  BY <1>2, LockedWrites
<1>3. CASE \E h \in Handler : Store(h)
  <2>1. PICK h \in Handler : Store(h)
    BY <1>3
  <2>2. UNCHANGED settings \/ \E new : LocksIn(new, "flag")
    BY <2>1, LockedWrites
  <2>3. QED
    BY <2>2
<1>4. CASE \E s \in Sync : SyncWrite(s)
  BY <1>4, WritesBack
<1>5. CASE \E h \in Handler : AdoptWrite(h)
  BY <1>5, WritesBack
<1>6. CASE UNCHANGED settings
  BY <1>6
<1>7. QED
  BY <1>1, <1>2, <1>3, <1>4, <1>5, <1>6, Zenon DEF Next, vars, Resync, Handle, EditRow, DeleteRow, Expire,
     SweepList, Sweep, SyncRead, SyncList, Push, Arrive, Reread, Adopt, AdoptAdd, AdoptList, Reply,
     Apply, Lost, GiveUp, Restart

LEMMA SettingsStep ==
    ASSUME TypeOK, SettingsKept, [Next]_vars
    PROVE  SettingsKept'
<1>1. cfg \in Config /\ due \in [flag : Flag, managed : BOOLEAN]
  BY DEF TypeOK
<1>2. CASE UNCHANGED settings \/ OnlyNotes
  BY <1>2 DEF SettingsKept, settings, OnlyNotes
<1>3. ASSUME NEW new, NEW part, LocksIn(new, part)
      PROVE  SettingsKept'
  <2>1. /\ cfg' = new /\ due' = [due EXCEPT !.flag = IF part = "flag" THEN new.flag ELSE due.flag]
        /\ overtaken' = overtaken \ {part, "list"}
        /\ new.managed = cfg.managed /\ part \in {"flag", "list"}
        /\ part = "list" => new.flag = cfg.flag
    BY <1>3 DEF LocksIn, PutSetting, Put
  <2>2. /\ due'.flag = IF part = "flag" THEN new.flag ELSE due.flag
        /\ due'.managed = due.managed
    BY <1>1, <2>1
  <2>3. QED
    BY <2>1, <2>2 DEF SettingsKept
<1>4. ASSUME NEW old, NEW new, NEW seen, PutsBack(old, new, seen)
      PROVE  SettingsKept'
  <2>1. /\ cfg' = new /\ due' = [due EXCEPT !.managed = due.managed \/ new.managed]
        /\ overtaken' = (overtaken \ {"list"})
              \cup (IF seen # Live THEN {"list"} ELSE {})
              \cup (IF old.flag # cfg.flag THEN {"flag"} ELSE {})
              \cup (IF old.managed # cfg.managed THEN {"managed"} ELSE {})
    BY <1>4 DEF PutsBack, PutBack, Put
  <2>2. new.flag = old.flag /\ new.managed \in {old.managed, TRUE}
    BY <1>4 DEF PutsBack
  <2>3. due'.flag = due.flag /\ due'.managed = (due.managed \/ new.managed)
    BY <1>1, <2>1
  <2>4. cfg'.flag # due'.flag => "flag" \in overtaken'
    BY <2>1, <2>2, <2>3 DEF SettingsKept
  <2>5. /\ new.managed \in BOOLEAN /\ old.managed \in BOOLEAN
        /\ cfg.managed \in BOOLEAN /\ due.managed \in BOOLEAN
    BY <1>1, <1>4 DEF PutsBack, Config
  <2>6. ASSUME "managed" \notin overtaken'
        PROVE  cfg'.managed = due'.managed
    <3>1. "managed" \notin overtaken /\ old.managed = cfg.managed
      BY <2>1, <2>6
    <3>2. cfg.managed = due.managed
      BY <3>1 DEF SettingsKept
    <3>3. new.managed = (due.managed \/ new.managed)
      BY <2>2, <2>5, <3>1, <3>2, Zenon
    <3>4. QED
      BY <2>1, <2>3, <3>3
  <2>7. QED
    BY <2>4, <2>6 DEF SettingsKept
<1>5. QED
  BY <1>2, <1>3, <1>4, StepSettings

\* The flag is the operator's last choice, or "on" where a report found it
\* unset, and managed hosts stay managed, unless a re-rendering or an adoption
\* put back older settings (put_settings, _store_data_use, sync_config, adopt).
THEOREM ChoicesKept == Spec => []SettingsKept
<1>1. Init => SettingsKept
  <2> SUFFICES ASSUME Init PROVE SettingsKept
    OBVIOUS
  <2>1. Blank.flag = "unset" /\ Blank.managed = FALSE
    BY DEF Blank
  <2>2. [Blank EXCEPT !.list = Legacy].flag = "unset" /\ [Blank EXCEPT !.list = Legacy].managed = FALSE
    BY DEF Blank
  <2>3. cfg.flag = "unset" /\ cfg.managed = FALSE
    BY <2>1, <2>2, Zenon DEF Init
  <2>4. due.flag = "unset" /\ due.managed = FALSE
    BY DEF Init
  <2>5. QED
    BY <2>3, <2>4, Zenon DEF SettingsKept
<1>2. TypeOK /\ SettingsKept /\ [Next]_vars => SettingsKept'
  BY SettingsStep
<1>3. QED
  BY <1>1, <1>2, TypeCorrect, PTL DEF Spec

-----------------------------------------------------------------------------
(* The list is the rows', or somebody is about to write it, or has written *)
(* it from rows that had changed.                                          *)

Pending(s)  == sync[s].at \in {"due", "read", "listed"}
Adopts(h)   == rep[h].at \in {"add", "write"}
Rendered    == Live \subseteq cfg.list /\ cfg.list \subseteq Have
Busy        == (\E s \in Sync : Pending(s)) \/ (\E h \in Handler : Adopts(h))
ListInv     == Rendered \/ Busy \/ "list" \in overtaken

LEMMA LiveIsHad == Live \subseteq Have /\ Live' \subseteq Have'
BY DEF Live, Have

LEMMA RowsSame == UNCHANGED rows => Live' = Live /\ Have' = Have
BY DEF Live, Have

LEMMA BusyKept ==
    ASSUME Busy, \A s \in Sync : Pending(s) => Pending(s)', \A h \in Handler : Adopts(h) => Adopts(h)'
    PROVE  Busy'
BY DEF Busy

\* The steps after which the list is right or marked, whatever it was.
LEMMA ListWritten ==
    ASSUME TypeOK,
           \/ \E f \in Flag : SaveFlag(f)
           \/ \E wanted \in SUBSET Target : SaveList(wanted)
           \/ \E s \in Sync : SyncWrite(s)
           \/ \E h \in Handler : AdoptWrite(h)
    PROVE  ListInv'
<1>1. ASSUME NEW f \in Flag, SaveFlag(f) PROVE ListInv'
  <2>1. cfg'.list = Live
    BY <1>1, LockedWrites DEF LocksIn, PutSetting, Put
  <2>2. UNCHANGED rows
    BY <1>1, Zenon DEF SaveFlag
  <2>3. QED
    BY <2>1, <2>2, RowsSame, LiveIsHad DEF ListInv, Rendered
<1>2. ASSUME NEW wanted \in SUBSET Target, SaveList(wanted) PROVE ListInv'
  <2>1. cfg'.list = Live'
    BY <1>2, LockedWrites DEF LocksIn, PutSetting, Put
  <2>2. QED
    BY <2>1, LiveIsHad DEF ListInv, Rendered
<1>3. ASSUME OnlyNotes, UNCHANGED rows PROVE ListInv'
  BY <1>3, RowsSame, LiveIsHad DEF OnlyNotes, ListInv, Rendered
<1>4. ASSUME NEW old, NEW new, NEW seen, PutsBack(old, new, seen), UNCHANGED rows PROVE ListInv'
  <2>1. cfg'.list = seen /\ (seen # Live => "list" \in overtaken')
    BY <1>4 DEF PutsBack, PutBack, Put
  <2>2. QED
    BY <1>4, <2>1, RowsSame, LiveIsHad DEF ListInv, Rendered
<1>5. ASSUME NEW s \in Sync, SyncWrite(s) PROVE ListInv'
  <2>1. UNCHANGED rows
    BY <1>5, Zenon DEF SyncWrite
  <2>2. QED
    BY <1>3, <1>4, <1>5, <2>1, WritesBack
<1>6. ASSUME NEW h \in Handler, AdoptWrite(h) PROVE ListInv'
  <2>1. UNCHANGED rows
    BY <1>6, Zenon DEF AdoptWrite
  <2>2. QED
    BY <1>4, <1>6, <2>1, WritesBack
<1>7. QED
  BY <1>1, <1>2, <1>5, <1>6

\* The steps that leave a writer under way.
LEMMA WriterUnderWay ==
    ASSUME TypeOK,
           \/ \E s \in Sync, t \in Target :
                 (\E as \in {"kept", "timed"} : EditRow(s, t, as)) \/ DeleteRow(s, t)
           \/ \E s \in Sync : Sweep(s) \/ SyncRead(s) \/ SyncList(s)
           \/ \E h \in Handler : Adopt(h) \/ AdoptAdd(h) \/ AdoptList(h)
    PROVE  ListInv'
<1>1. ASSUME NEW s \in Sync,
             \/ \E t \in Target : (\E as \in {"kept", "timed"} : EditRow(s, t, as)) \/ DeleteRow(s, t)
             \/ Sweep(s) \/ SyncRead(s) \/ SyncList(s)
      PROVE  ListInv'
  <2>1. \/ SyncOn(s, [sync[s] EXCEPT !.at = "due"])
        \/ \E t : SyncOn(s, [sync[s] EXCEPT !.at = "due", !.todo = @ \ {t}])
        \/ SyncOn(s, [sync[s] EXCEPT !.at = "read", !.old = cfg])
        \/ SyncOn(s, [sync[s] EXCEPT !.at = "listed", !.seen = Live])
    BY <1>1, Zenon DEF EditRow, DeleteRow, Rerender, Sweep, SyncRead, SyncList
  <2>2. sync \in [Sync -> Syncs] /\ sync[s] \in Syncs
    BY DEF TypeOK
  <2>3. sync'[s].at \in {"due", "read", "listed"}
    <3>1. CASE SyncOn(s, [sync[s] EXCEPT !.at = "due"])
      BY <2>2, <3>1 DEF SyncOn, Syncs
    <3>2. ASSUME NEW t, SyncOn(s, [sync[s] EXCEPT !.at = "due", !.todo = @ \ {t}])
          PROVE  sync'[s].at = "due"
      BY <2>2, <3>2 DEF SyncOn, Syncs
    <3>3. CASE SyncOn(s, [sync[s] EXCEPT !.at = "read", !.old = cfg])
      BY <2>2, <3>3 DEF SyncOn, Syncs
    <3>4. CASE SyncOn(s, [sync[s] EXCEPT !.at = "listed", !.seen = Live])
      BY <2>2, <3>4 DEF SyncOn, Syncs
    <3>5. QED
      BY <2>1, <3>1, <3>2, <3>3, <3>4, Zenon
  <2>4. QED
    BY <2>3 DEF ListInv, Busy, Pending
<1>2. ASSUME NEW h \in Handler, Adopt(h) \/ AdoptAdd(h) \/ AdoptList(h)
      PROVE  ListInv'
  <2>1. \/ GoesOn(h, [rep[h] EXCEPT !.at = "add", !.seen = Declared(h) \ Have])
        \/ rep[h].at = "add" /\ \E t : GoesOn(h, [rep[h] EXCEPT !.seen = @ \ {t}])
        \/ GoesOn(h, [rep[h] EXCEPT !.at = "write", !.seen = Live])
    BY <1>2, Zenon DEF Adopt, AdoptAdd, AdoptList
  <2>2. rep \in [Handler -> Reps] /\ rep[h] \in Reps
    BY DEF TypeOK
  <2>3. rep'[h].at \in {"add", "write"}
    <3>1. \A next : GoesOn(h, next) => rep'[h] = next
      BY <2>2 DEF GoesOn
    <3>2. /\ [rep[h] EXCEPT !.at = "add", !.seen = Declared(h) \ Have].at = "add"
          /\ \A t : [rep[h] EXCEPT !.seen = @ \ {t}].at = rep[h].at
          /\ [rep[h] EXCEPT !.at = "write", !.seen = Live].at = "write"
      BY <2>2 DEF Reps
    <3>3. QED
      BY <2>1, <3>1, <3>2, Zenon
  <2>4. QED
    BY <2>3 DEF ListInv, Busy, Adopts
<1>3. QED
  BY <1>1, <1>2

\* The steps of reports and of the agent that do not adopt.
Passing ==
    \/ \E h \in Handler : Push(h) \/ Arrive(h) \/ Reread(h) \/ Reply(h) \/ Apply(h) \/ Lost(h)
    \/ GiveUp \/ Restart

LEMMA GoesOnElsewhere ==
    ASSUME TypeOK, NEW h \in Handler, NEW next, GoesOn(h, next)
    PROVE  \A g \in Handler : g # h => rep'[g] = rep[g]
BY DEF TypeOK, GoesOn

LEMMA AdoptersStay ==
    ASSUME TypeOK, Passing \/ \E h \in Handler : Store(h)
    PROVE  \A h \in Handler : Adopts(h) => rep'[h] = rep[h]
<1>1. ASSUME NEW h \in Handler,
             \/ Push(h) \/ Arrive(h) \/ Reread(h) \/ Reply(h) \/ Apply(h) \/ Lost(h) \/ Store(h)
      PROVE  \A g \in Handler : Adopts(g) => rep'[g] = rep[g]
  <2>1. ~Adopts(h)
    BY <1>1 DEF Adopts, Push, Arrive, Reread, Reply, Apply, Lost, Store
  <2>2. \E next : GoesOn(h, next)
    BY <1>1, Zenon DEF Push, Arrive, Reread, Reply, Apply, Lost, Store, Proceed
  <2>3. QED
    BY <2>1, <2>2, GoesOnElsewhere
<1>2. CASE GiveUp \/ Restart
  <2>1. Forsake
    BY <1>2, Zenon DEF GiveUp, Restart
  <2>2. QED
    BY <2>1 DEF Forsake, Adopts
<1>3. QED
  BY <1>1, <1>2 DEF Passing

LEMMA ListStep ==
    ASSUME TypeOK, ListInv, [Next]_vars
    PROVE  ListInv'
<1>1. CASE \/ \E f \in Flag : SaveFlag(f)
           \/ \E wanted \in SUBSET Target : SaveList(wanted)
           \/ \E s \in Sync : SyncWrite(s)
           \/ \E h \in Handler : AdoptWrite(h)
  BY <1>1, ListWritten
<1>2. CASE \/ \E s \in Sync, t \in Target :
                 (\E as \in {"kept", "timed"} : EditRow(s, t, as)) \/ DeleteRow(s, t)
           \/ \E s \in Sync : Sweep(s) \/ SyncRead(s) \/ SyncList(s)
           \/ \E h \in Handler : Adopt(h) \/ AdoptAdd(h) \/ AdoptList(h)
  BY <1>2, WriterUnderWay
<1>3. ASSUME NEW h \in Handler, Store(h) PROVE ListInv'
  <2>1. UNCHANGED rows /\ UNCHANGED sync
    BY <1>3, Zenon DEF Store
  <2>2. CASE UNCHANGED settings
    <3>1. cfg' = cfg /\ overtaken' = overtaken
      BY <2>2 DEF settings
    <3>2. Busy => Busy'
      BY <1>3, <2>1, AdoptersStay, BusyKept DEF Pending, Adopts
    <3>3. QED
      BY <2>1, <3>1, <3>2, RowsSame DEF ListInv, Rendered
  <2>3. CASE \E new : LocksIn(new, "flag") /\ new.list = Live
    <3>1. cfg'.list = Live
      BY <2>3 DEF LocksIn, PutSetting, Put
    <3>2. QED
      BY <2>1, <3>1, RowsSame, LiveIsHad DEF ListInv, Rendered
  <2>4. QED
    BY <1>3, <2>2, <2>3, LockedWrites
<1>4. CASE \E t \in Target : Expire(t)
  <2>1. PICK t \in Target : rows[t] = "timed" /\ rows' = [rows EXCEPT ![t] = "expired"]
    BY <1>4 DEF Expire
  <2>2. cfg' = cfg /\ overtaken' = overtaken /\ UNCHANGED <<sync, rep>>
    BY <1>4 DEF Expire, settings
  <2>3. Live' \subseteq Live /\ Have' = Have
    BY <2>1 DEF Live, Have, TypeOK
  <2>4. Busy => Busy'
    BY <2>2 DEF Busy, Pending, Adopts
  <2>5. QED
    BY <2>2, <2>3, <2>4 DEF ListInv, Rendered
<1>5. ASSUME NEW s \in Sync, SweepList(s) PROVE ListInv'
  <2>1. cfg' = cfg /\ overtaken' = overtaken /\ UNCHANGED <<rows, rep>>
    BY <1>5, Zenon DEF SweepList, settings
  <2>2. ~Pending(s) /\ \A r \in Sync : r # s => sync'[r] = sync[r]
    BY <1>5 DEF SweepList, SyncOn, Pending, TypeOK
  <2>3. Busy => Busy'
    BY <2>1, <2>2, BusyKept DEF Pending, Adopts
  <2>4. QED
    BY <2>1, <2>3, RowsSame DEF ListInv, Rendered
<1>6. CASE Passing \/ UNCHANGED vars
  <2>1. UNCHANGED settings /\ UNCHANGED <<rows, sync>>
    BY <1>6, Zenon DEF Passing, Push, Arrive, Reread, Reply, Apply, Lost, GiveUp, Restart, vars
  <2>2. Busy => Busy'
    <3>1. CASE Passing
      BY <2>1, <3>1, AdoptersStay, BusyKept DEF Pending, Adopts
    <3>2. CASE UNCHANGED vars
      BY <3>2 DEF vars, Busy, Pending, Adopts
    <3>3. QED
      BY <1>6, <3>1, <3>2
  <2>3. QED
    BY <2>1, <2>2, RowsSame DEF ListInv, Rendered, settings
<1>7. QED
  BY <1>1, <1>2, <1>3, <1>4, <1>5, <1>6 DEF Next, Resync, Handle, Passing

\* With nothing under way that writes it, a host's watch list has every check
\* that has a row and none that was removed, unless the last writer had read
\* the rows before they changed: any number of edits, re-renderings, sweeps
\* and adoptions at once (sync_config, adopt, put_settings, presence_loop).
THEOREM ListsFollowRows == Spec => []ListsRendered
<1>1. Init => ListInv
  <2> SUFFICES ASSUME Init PROVE ListInv
    OBVIOUS
  <2>1. Live = {}
    BY DEF Init, Live
  <2>2. cfg.list = {} \/ "list" \in overtaken
    BY DEF Init, Blank
  <2>3. QED
    BY <2>1, <2>2 DEF ListInv, Rendered
<1>2. TypeOK /\ ListInv /\ [Next]_vars => ListInv'
  BY ListStep
<1>3. ListInv => ListsRendered
  BY DEF ListInv, ListsRendered, Rendered, Busy, Pending, Adopts
<1>4. QED
  BY <1>1, <1>2, <1>3, TypeCorrect, PTL DEF Spec

-----------------------------------------------------------------------------
(* Adoption.                                                               *)

AdoptInv == \A h \in Handler :
    /\ rep[h].at = "add" => Declared(h) \subseteq Have \cup rep[h].seen \cup gone
    /\ rep[h].at = "write" => Declared(h) \ gone \subseteq rep[h].seen

LEMMA AdoptKept ==
    ASSUME AdoptInv, \A h \in Handler : Adopts(h)' => rep'[h] = rep[h],
           Adopting # {} => gone \subseteq gone' /\ Have \ Have' \subseteq gone'
    PROVE  AdoptInv'
<1> SUFFICES ASSUME NEW h \in Handler, Adopts(h)'
             PROVE  /\ rep'[h].at = "add" => Declared(h)' \subseteq Have' \cup rep'[h].seen \cup gone'
                    /\ rep'[h].at = "write" => Declared(h)' \ gone' \subseteq rep'[h].seen
  BY DEF AdoptInv, Adopts
<1>1. rep'[h] = rep[h] /\ Declared(h)' = Declared(h)
  BY DEF Declared
<1>2. h \in Adopting
  BY <1>1 DEF Adopts, Adopting
<1>3. gone \subseteq gone' /\ Have \ Have' \subseteq gone'
  BY <1>2
<1>4. QED
  BY <1>1, <1>3 DEF AdoptInv

LEMMA NoNewAdopter ==
    ASSUME TypeOK, Passing \/ \E h \in Handler : Store(h)
    PROVE  \A h \in Handler : Adopts(h)' => rep'[h] = rep[h]
<1>1. ASSUME NEW h \in Handler,
             \/ Push(h) \/ Arrive(h) \/ Reread(h) \/ Reply(h) \/ Apply(h) \/ Lost(h) \/ Store(h)
      PROVE  ~Adopts(h)'
  <2>1. rep \in [Handler -> Reps] /\ rep[h] \in Reps
    BY DEF TypeOK
  <2>2. \E next : GoesOn(h, next) /\ next.at \in {"idle", "pushed", "store", "reread", "adopt", "reply", "sent"}
    <3> DEFINE OK(r) == r.at \in {"idle", "pushed", "store", "reread", "adopt", "reply", "sent"}
    <3>1. ASSUME NEW host, Proceed(h, host)
          PROVE  \E next : GoesOn(h, next) /\ OK(next)
      <4>1. /\ OK([NoRep EXCEPT !.at = "reply"])
            /\ OK([NoRep EXCEPT !.at = "adopt", !.ran = rep[h].ran, !.host = host])
        BY DEF NoRep
      <4> HIDE DEF OK
      <4>2. QED
        BY <3>1, <4>1, Zenon DEF Proceed
    <3>2. /\ \A ran : OK([NoRep EXCEPT !.at = "pushed", !.closed = agent.closed, !.ran = ran])
          /\ OK([rep[h] EXCEPT !.at = "store", !.host = cfg])
          /\ OK([rep[h] EXCEPT !.at = "reread"])
          /\ OK([NoRep EXCEPT !.at = "sent", !.host = cfg, !.rev = rev]) /\ OK(NoRep)
      BY <2>1 DEF NoRep, Reps
    <3> HIDE DEF OK
    <3>3. \E next : GoesOn(h, next) /\ OK(next)
      <4>1. CASE Push(h) \/ Lost(h) \/ Apply(h)
        BY <3>2, <4>1, Zenon DEF Push, Lost, Apply
      <4>2. CASE Reply(h)
        BY <3>2, <4>2, Zenon DEF Reply
      <4>3. CASE Arrive(h) \/ Reread(h) \/ Store(h)
        BY <3>1, <3>2, <4>3, Zenon DEF Arrive, Reread, Store
      <4>4. QED
        BY <1>1, <4>1, <4>2, <4>3
    <3>4. QED
      BY <3>3 DEF OK
  <2>3. QED
    BY <2>1, <2>2 DEF GoesOn, Adopts
<1>2. ASSUME NEW h \in Handler,
             \/ Push(h) \/ Arrive(h) \/ Reread(h) \/ Reply(h) \/ Apply(h) \/ Lost(h) \/ Store(h)
      PROVE  \A g \in Handler : Adopts(g)' => rep'[g] = rep[g]
  <2>1. \E next : GoesOn(h, next)
    BY <1>2, Zenon DEF Push, Arrive, Reread, Reply, Apply, Lost, Store, Proceed
  <2>2. QED
    BY <1>1, <1>2, <2>1, GoesOnElsewhere
<1>3. CASE GiveUp \/ Restart
  <2>1. Forsake
    BY <1>3, Zenon DEF GiveUp, Restart
  <2>2. QED
    BY <2>1 DEF Forsake, Adopts, NoRep
<1>4. QED
  BY <1>2, <1>3 DEF Passing

LEMMA RemoveKeeps ==
    ASSUME AdoptInv, NEW targets, Remove(targets), Have \ Have' \subseteq targets, UNCHANGED rep
    PROVE  AdoptInv'
BY AdoptKept DEF Remove

LEMMA AdoptStep ==
    ASSUME TypeOK, AdoptInv, [Next]_vars
    PROVE  AdoptInv'
<1>1. rows \in [Target -> {"none", "kept", "timed", "expired"}] /\ rep \in [Handler -> Reps]
  BY DEF TypeOK
<1>2. ASSUME NEW wanted \in SUBSET Target, SaveList(wanted) PROVE AdoptInv'
  <2>1. Have \ Have' \subseteq Have \ wanted
    BY <1>1, <1>2 DEF SaveList, With, Have
  <2>2. Remove(Have \ wanted) /\ UNCHANGED rep
    BY <1>2, Zenon DEF SaveList
  <2>3. QED
    BY <2>1, <2>2, RemoveKeeps
<1>3. ASSUME NEW s \in Sync, NEW t \in Target, NEW as \in {"kept", "timed"}, EditRow(s, t, as)
      PROVE  AdoptInv'
  <2>1. Have \subseteq Have'
    BY <1>1, <1>3 DEF EditRow, Have
  <2>2. UNCHANGED <<rep, gone>>
    BY <1>3, Zenon DEF EditRow
  <2>3. QED
    BY <2>1, <2>2, AdoptKept
<1>4. ASSUME NEW t, rows' = Without(t), Remove({t}), UNCHANGED rep PROVE AdoptInv'
  <2>1. Have \ Have' \subseteq {t}
    BY <1>1, <1>4 DEF Without, Have
  <2>2. QED
    BY <1>4, <2>1, RemoveKeeps
<1>5. ASSUME NEW s \in Sync, NEW t \in Target, DeleteRow(s, t) PROVE AdoptInv'
  BY <1>4, <1>5, Zenon DEF DeleteRow
<1>6. ASSUME NEW s \in Sync, Sweep(s) PROVE AdoptInv'
  BY <1>4, <1>6, Zenon DEF Sweep
<1>7. ASSUME NEW t \in Target, Expire(t) PROVE AdoptInv'
  <2>1. Have' = Have
    BY <1>1, <1>7 DEF Expire, Have
  <2>2. UNCHANGED <<rep, gone>>
    BY <1>7, Zenon DEF Expire
  <2>3. QED
    BY <2>1, <2>2, AdoptKept
<1>8. CASE UNCHANGED <<rows, rep, gone>>
  <2>1. Have' = Have
    BY <1>8, RowsSame
  <2>2. QED
    BY <1>8, <2>1, AdoptKept
<1>9. CASE Passing \/ \E h \in Handler : Store(h)
  <2>1. UNCHANGED <<rows, gone>>
    BY <1>9, Zenon DEF Passing, Push, Arrive, Reread, Reply, Apply, Lost, GiveUp, Restart, Store
  <2>2. Have' = Have
    BY <2>1, RowsSame
  <2>3. QED
    BY <1>9, <2>1, <2>2, NoNewAdopter, AdoptKept
<1>10. ASSUME NEW h \in Handler, Adopt(h) PROVE AdoptInv'
  <2>1. UNCHANGED <<rows, gone>> /\ GoesOn(h, [rep[h] EXCEPT !.at = "add", !.seen = Declared(h) \ Have])
    BY <1>10, Zenon DEF Adopt
  <2>2. /\ rep'[h].at = "add" /\ rep'[h].seen = Declared(h) \ Have
        /\ rep'[h].ran = rep[h].ran /\ rep'[h].host = rep[h].host
    BY <1>1, <2>1 DEF GoesOn, Reps
  <2>3. Declared(h)' = Declared(h) /\ Have' = Have
    BY <2>1, <2>2, RowsSame DEF Declared
  <2>4. ASSUME NEW g \in Handler, g # h
        PROVE  rep'[g] = rep[g] /\ Declared(g)' = Declared(g)
    BY <2>1, <2>4, GoesOnElsewhere DEF Declared
  <2>5. QED
    BY <2>1, <2>2, <2>3, <2>4 DEF AdoptInv
<1>11. ASSUME NEW h \in Handler, AdoptAdd(h) PROVE AdoptInv'
  <2>1. PICK t \in rep[h].seen : rows' = With(t) /\ GoesOn(h, [rep[h] EXCEPT !.seen = @ \ {t}])
    BY <1>11, Zenon DEF AdoptAdd
  <2>2. UNCHANGED gone /\ rep[h].at = "add"
    BY <1>11, Zenon DEF AdoptAdd
  <2>3. /\ rep'[h].at = "add" /\ rep'[h].seen = rep[h].seen \ {t}
        /\ rep'[h].ran = rep[h].ran /\ rep'[h].host = rep[h].host
    BY <1>1, <2>1, <2>2 DEF GoesOn, Reps
  <2>4. t \in Target
    BY <1>1, <2>1 DEF Reps
  <2>5. Have \cup {t} \subseteq Have'
    BY <1>1, <2>1, <2>4 DEF With, Have
  <2>6. Declared(h)' = Declared(h)
    BY <2>3 DEF Declared
  <2>7. ASSUME NEW g \in Handler, g # h
        PROVE  rep'[g] = rep[g] /\ Declared(g)' = Declared(g)
    BY <2>1, <2>7, GoesOnElsewhere DEF Declared
  <2>8. QED
    BY <2>2, <2>3, <2>5, <2>6, <2>7 DEF AdoptInv
<1>12. ASSUME NEW h \in Handler, AdoptList(h) PROVE AdoptInv'
  <2>1. /\ rep[h].at = "add" /\ rep[h].seen = {} /\ UNCHANGED rows /\ gone' = gone \cup (Have \ Live)
        /\ GoesOn(h, [rep[h] EXCEPT !.at = "write", !.seen = Live])
    BY <1>12, Zenon DEF AdoptList
  <2>2. /\ rep'[h].at = "write" /\ rep'[h].seen = Live
        /\ rep'[h].ran = rep[h].ran /\ rep'[h].host = rep[h].host
    BY <1>1, <2>1 DEF GoesOn, Reps
  <2>3. Declared(h)' = Declared(h) /\ Have' = Have
    BY <2>1, <2>2, RowsSame DEF Declared
  <2>4. ASSUME NEW g \in Handler, g # h
        PROVE  rep'[g] = rep[g] /\ Declared(g)' = Declared(g)
    BY <2>1, <2>4, GoesOnElsewhere DEF Declared
  <2>5. QED
    BY <2>1, <2>2, <2>3, <2>4 DEF AdoptInv
<1>13. ASSUME NEW h \in Handler, AdoptWrite(h) PROVE AdoptInv'
  <2>1. /\ GoesOn(h, [NoRep EXCEPT !.at = "reply"]) /\ UNCHANGED rows
        /\ gone' = IF Adopting = {h} THEN {} ELSE gone
    BY <1>13, Zenon DEF AdoptWrite
  <2>2. rep'[h].at = "reply" /\ Have' = Have
    BY <1>1, <2>1, RowsSame DEF GoesOn, NoRep
  <2>3. ASSUME NEW g \in Handler, g # h, Adopts(g)'
        PROVE  rep'[g] = rep[g] /\ Declared(g)' = Declared(g) /\ gone' = gone
    <3>1. rep'[g] = rep[g]
      BY <2>1, <2>3, GoesOnElsewhere
    <3>2. g \in Adopting
      BY <2>3, <3>1 DEF Adopts, Adopting
    <3>3. QED
      BY <2>1, <2>3, <3>1, <3>2 DEF Declared
  <2>4. QED
    BY <2>2, <2>3 DEF AdoptInv, Adopts
<1>14. QED
  BY <1>2, <1>3, <1>5, <1>6, <1>7, <1>8, <1>9, <1>10, <1>11, <1>12, <1>13, Zenon DEF Next, vars, Resync,
     Handle, Passing, SaveFlag, SweepList, SyncRead, SyncList, SyncWrite

LEMMA OnlyAdoptWrite ==
    ASSUME TypeOK, [Next]_vars, NEW h \in Handler, rep[h].at = "write", rep'[h].at = "reply"
    PROVE  AdoptWrite(h)
<1>1. rep'[h] # rep[h] /\ Adopts(h)
  BY DEF Adopts
<1>2. ASSUME NEW g \in Handler, Adopt(g) \/ AdoptAdd(g) \/ AdoptList(g) \/ AdoptWrite(g)
      PROVE  AdoptWrite(h)
  <2>1. \E next : GoesOn(g, next)
    BY <1>2, Zenon DEF Adopt, AdoptAdd, AdoptList, AdoptWrite
  <2>2. g = h
    BY <1>1, <2>1, GoesOnElsewhere
  <2>3. QED
    BY <1>2, <2>2 DEF Adopt, AdoptAdd, AdoptList
<1>3. ~Passing /\ ~\E g \in Handler : Store(g)
  BY <1>1, AdoptersStay
<1>4. ~UNCHANGED rep
  BY <1>1
<1>5. QED
  BY <1>2, <1>3, <1>4, Zenon DEF Next, vars, Handle, Resync, Passing, SaveFlag, SaveList, EditRow, DeleteRow,
     Expire, SweepList, Sweep, SyncRead, SyncList, SyncWrite

NoneLost ==
    \A h \in Handler : rep[h].at = "write" /\ rep'[h].at = "reply" =>
         (rep[h].ran \cup rep[h].host.list) \ gone \subseteq cfg'.list

\* Adoption loses no check, for any number of reports, edits and expiries in
\* between: what the agent runs and what the hub had declared is in the list
\* that replaces them, unless its row was removed or found expired (adopt).
THEOREM AdoptionComplete == Spec => AdoptionKeepsAll
<1>1. Init => AdoptInv
  BY DEF Init, AdoptInv, NoRep
<1>2. TypeOK /\ AdoptInv /\ [Next]_vars => AdoptInv'
  BY AdoptStep
<1>3. TypeOK /\ AdoptInv /\ [Next]_vars => [NoneLost]_vars
  <2> SUFFICES ASSUME TypeOK, AdoptInv, [Next]_vars, NEW h \in Handler,
                      rep[h].at = "write", rep'[h].at = "reply"
               PROVE  (rep[h].ran \cup rep[h].host.list) \ gone \subseteq cfg'.list
    BY DEF NoneLost
  <2>1. AdoptWrite(h)
    BY OnlyAdoptWrite
  <2>2. cfg'.list = rep[h].seen
    BY <2>1, WritesBack DEF PutsBack, PutBack, Put
  <2>3. QED
    BY <2>2 DEF AdoptInv, Declared
<1>4. QED
  <2>1. Spec => [][NoneLost]_vars
    BY <1>1, <1>2, <1>3, TypeCorrect, PTL DEF Spec
  <2>2. QED
    BY <2>1 DEF AdoptionKeepsAll, NoneLost

-----------------------------------------------------------------------------
(* The agent.  Whatever carries a revision carries that revision's list, and *)
(* none is older than what was there before it on its way to the agent.      *)

InStep(r, set) == r <= rev /\ (r = rev => set = Offered(cfg, rev))

Replied(h) == rep[h].at = "sent"

FollowInv ==
    /\ InStep(agent.rev, agent.set)
    /\ InStep(disk.rev, disk.set) /\ disk.rev <= agent.rev
    /\ \A h \in Handler : Replied(h) =>
           /\ h \in agent.waits /\ agent.rev <= rep[h].rev
           /\ InStep(rep[h].rev, Offered(rep[h].host, rep[h].rev))
    /\ \A g, h \in agent.waits : g = h

\* Every write of the settings makes a revision.
LEMMA Revises ==
    ASSUME TypeOK, [Next]_vars
    PROVE  (cfg' = cfg /\ rev' = rev) \/ rev' = rev + 1
BY StepSettings DEF settings, OnlyNotes, LocksIn, PutsBack, PutSetting, PutBack, Put

LEMMA StaysInStep ==
    ASSUME TypeOK, [Next]_vars, NEW r \in Nat, NEW set, InStep(r, set)
    PROVE  r <= rev' /\ (r = rev' => set = Offered(cfg', rev'))
<1>1. rev \in Nat
  BY DEF TypeOK
<1>2. QED
  BY <1>1, Revises DEF InStep

\* The steps that neither answer a report nor reach the agent.
Hidden ==
    \/ \E f \in Flag : SaveFlag(f)
    \/ \E wanted \in SUBSET Target : SaveList(wanted)
    \/ \E s \in Sync, t \in Target : (\E as \in {"kept", "timed"} : EditRow(s, t, as)) \/ DeleteRow(s, t)
    \/ \E t \in Target : Expire(t)
    \/ \E s \in Sync : SweepList(s) \/ Resync(s)
    \/ \E h \in Handler : \/ Arrive(h) \/ Store(h) \/ Reread(h) \/ Adopt(h) \/ AdoptAdd(h)
                          \/ AdoptList(h) \/ AdoptWrite(h) \/ Lost(h)
    \/ UNCHANGED vars

LEMMA HiddenReports ==
    ASSUME TypeOK, NEW h \in Handler,
           \/ Arrive(h) \/ Store(h) \/ Reread(h) \/ Adopt(h) \/ AdoptAdd(h)
           \/ AdoptList(h) \/ AdoptWrite(h) \/ Lost(h)
    PROVE  UNCHANGED fleet /\ \E next : GoesOn(h, next) /\ next.at # "sent"
<1> DEFINE OK(r) == r.at # "sent"
<1>1. rep[h] \in Reps
  BY DEF TypeOK
<1>2. ASSUME NEW host, Proceed(h, host) PROVE \E next : GoesOn(h, next) /\ OK(next)
  <2>1. /\ OK([NoRep EXCEPT !.at = "reply"])
        /\ OK([NoRep EXCEPT !.at = "adopt", !.ran = rep[h].ran, !.host = host])
    BY DEF NoRep
  <2> HIDE DEF OK
  <2>2. QED
    BY <1>2, <2>1, Zenon DEF Proceed
<1>3. /\ OK([rep[h] EXCEPT !.at = "store", !.host = cfg])
      /\ OK([rep[h] EXCEPT !.at = "reread"])
      /\ OK([rep[h] EXCEPT !.at = "add", !.seen = Declared(h) \ Have])
      /\ OK([rep[h] EXCEPT !.at = "write", !.seen = Live])
      /\ OK([NoRep EXCEPT !.at = "reply"]) /\ OK(NoRep)
      /\ \A t : rep[h].at = "add" => OK([rep[h] EXCEPT !.seen = @ \ {t}])
  BY <1>1 DEF NoRep, Reps
<1> HIDE DEF OK
<1>4. CASE Arrive(h) \/ Store(h) \/ Reread(h)
  BY <1>2, <1>3, <1>4, Zenon DEF Arrive, Store, Reread, OK
<1>5. CASE Adopt(h) \/ AdoptList(h) \/ AdoptWrite(h) \/ Lost(h)
  BY <1>3, <1>5, Zenon DEF Adopt, AdoptList, AdoptWrite, Lost, OK
<1>6. CASE AdoptAdd(h)
  BY <1>3, <1>6, Zenon DEF AdoptAdd, OK
<1>7. QED
  BY <1>4, <1>5, <1>6

LEMMA HiddenStep ==
    ASSUME TypeOK, Hidden
    PROVE  /\ UNCHANGED <<agent, disk>>
           /\ \A h \in Handler : Replied(h)' => rep'[h] = rep[h]
<1>1. ASSUME NEW h \in Handler,
             \/ Arrive(h) \/ Store(h) \/ Reread(h) \/ Adopt(h) \/ AdoptAdd(h)
             \/ AdoptList(h) \/ AdoptWrite(h) \/ Lost(h)
      PROVE  UNCHANGED fleet /\ \A g \in Handler : Replied(g)' => rep'[g] = rep[g]
  <2>1. PICK next : GoesOn(h, next) /\ next.at # "sent"
    BY <1>1, HiddenReports
  <2>2. rep'[h].at # "sent" /\ \A g \in Handler : g # h => rep'[g] = rep[g]
    BY <2>1 DEF TypeOK, GoesOn
  <2>3. UNCHANGED fleet
    BY <1>1, HiddenReports
  <2>4. QED
    BY <2>2, <2>3 DEF Replied
<1>2. CASE \/ \E f \in Flag : SaveFlag(f)
           \/ \E wanted \in SUBSET Target : SaveList(wanted)
           \/ \E s \in Sync, t \in Target : (\E as \in {"kept", "timed"} : EditRow(s, t, as)) \/ DeleteRow(s, t)
           \/ \E t \in Target : Expire(t)
           \/ \E s \in Sync : SweepList(s) \/ Resync(s)
           \/ UNCHANGED vars
  <2>1. UNCHANGED fleet /\ UNCHANGED rep
    BY <1>2, Zenon DEF SaveFlag, SaveList, EditRow, DeleteRow, Expire, SweepList, Resync, SyncRead,
       SyncList, SyncWrite, Sweep, vars
  <2>2. QED
    BY <2>1 DEF fleet
<1>3. QED
  BY <1>1, <1>2 DEF Hidden, fleet

LEMMA FollowStep ==
    ASSUME TypeOK, FollowInv, [Next]_vars
    PROVE  /\ FollowInv'
           /\ agent'.rev < agent.rev => agent'.rev = disk.rev /\ agent'.set = disk.set
<1>1. /\ rev \in Nat /\ agent.rev \in Nat /\ disk.rev \in Nat /\ rep \in [Handler -> Reps]
      /\ agent \in [rev : Nat, set : SUBSET SUBSET Target, closed : BOOLEAN, waits : SUBSET Handler]
      /\ \A h \in Handler : rep[h].rev \in Nat
  BY DEF TypeOK, Followed, Reps
<1>2. ASSUME NEW h \in Handler, Replied(h)', rep'[h] = rep[h], UNCHANGED agent
      PROVE  /\ h \in agent'.waits /\ agent'.rev <= rep'[h].rev
             /\ InStep(rep[h].rev, Offered(rep[h].host, rep[h].rev))'
  BY <1>1, <1>2, StaysInStep DEF FollowInv, Replied, InStep
<1>3. UNCHANGED agent => InStep(agent.rev, agent.set)'
  BY <1>1, StaysInStep DEF FollowInv, InStep
<1>4. UNCHANGED disk => InStep(disk.rev, disk.set)'
  BY <1>1, StaysInStep DEF FollowInv, InStep
<1>5. CASE Hidden
  <2>1. /\ UNCHANGED <<agent, disk>>
        /\ \A h \in Handler : Replied(h)' => rep'[h] = rep[h]
    BY <1>5, HiddenStep
  <2>2. QED
    BY <1>1, <1>2, <1>3, <1>4, <2>1 DEF FollowInv
<1>6. ASSUME NEW h \in Handler, Push(h)
      PROVE  /\ FollowInv'
             /\ ~(agent'.rev < agent.rev)
  <2>1. /\ agent.waits = {} /\ agent' = [agent EXCEPT !.waits = {h}] /\ UNCHANGED <<disk, cfg, rev>>
    BY <1>6, Zenon DEF Push, settings
  <2>2. agent'.rev = agent.rev /\ agent'.set = agent.set /\ agent'.waits = {h}
    BY <1>1, <2>1
  <2>3. \A g \in Handler : ~Replied(g)
    BY <2>1 DEF FollowInv
  <2>4. \E next : GoesOn(h, next) /\ next.at # "sent"
    <3>1. \A ran : [NoRep EXCEPT !.at = "pushed", !.closed = agent.closed, !.ran = ran].at # "sent"
      BY DEF NoRep
    <3>2. QED
      BY <1>6, <3>1, Zenon DEF Push
  <2>5. \A g \in Handler : ~Replied(g)'
    BY <1>1, <2>3, <2>4 DEF GoesOn, Replied
  <2>6. QED
    BY <1>1, <2>1, <2>2, <2>5 DEF FollowInv, InStep
<1>7. ASSUME NEW h \in Handler, Reply(h)
      PROVE  FollowInv' /\ UNCHANGED agent
  <2>1. UNCHANGED <<agent, disk, cfg, rev>>
    BY <1>7, Zenon DEF Reply, settings, fleet
  <2>2. \A g \in Handler : g # h => rep'[g] = rep[g]
    BY <1>1, <1>7 DEF Reply, GoesOn
  <2>3. Replied(h)' => h \in agent.waits /\ rep'[h].host = cfg /\ rep'[h].rev = rev
    <3>1. rep'[h] = IF h \in agent.waits
                    THEN [NoRep EXCEPT !.at = "sent", !.host = cfg, !.rev = rev] ELSE NoRep
      BY <1>1, <1>7 DEF Reply, GoesOn
    <3>2. QED
      BY <3>1 DEF NoRep, Replied
  <2>4. ASSUME NEW g \in Handler, Replied(g)'
        PROVE  /\ g \in agent'.waits /\ agent'.rev <= rep'[g].rev
               /\ InStep(rep[g].rev, Offered(rep[g].host, rep[g].rev))'
    <3>1. CASE g = h
      BY <1>1, <2>1, <2>3, <2>4, <3>1 DEF FollowInv, InStep
    <3>2. CASE g # h
      BY <1>2, <2>1, <2>2, <2>4, <3>2
    <3>3. QED
      BY <3>1, <3>2
  <2>5. QED
    BY <1>1, <1>3, <1>4, <2>1, <2>4 DEF FollowInv
<1>8. ASSUME NEW h \in Handler, Apply(h)
      PROVE  /\ FollowInv'
             /\ ~(agent'.rev < agent.rev)
  <2> DEFINE r == rep[h].rev
             set == Offered(rep[h].host, r)
  <2>1. Replied(h) /\ UNCHANGED <<cfg, rev>>
    BY <1>8, Zenon DEF Apply, Replied, settings
  <2>2. /\ h \in agent.waits /\ agent.rev <= r /\ InStep(r, set)
        /\ \A g \in Handler : Replied(g) => g = h
    BY <2>1 DEF FollowInv
  <2>3. /\ agent'.waits = {}
        /\ \/ agent'.rev = agent.rev /\ agent'.set = agent.set /\ UNCHANGED disk
           \/ /\ agent'.rev = r /\ agent'.set = set
              /\ disk' = [rev |-> r, set |-> set] \/ UNCHANGED disk
    BY <1>1, <1>8 DEF Apply
  <2>4. \A g \in Handler : ~Replied(g)'
    <3>1. GoesOn(h, NoRep)
      BY <1>8, Zenon DEF Apply
    <3>2. QED
      BY <1>1, <2>2, <3>1 DEF GoesOn, NoRep, Replied
  <2>5. r \in Nat
    BY <1>1
  <2> HIDE DEF r, set
  <2>6. r <= rev' /\ (r = rev' => set = Offered(cfg', rev'))
    BY <2>1, <2>2 DEF InStep, r, set
  <2>7. QED
    BY <1>1, <2>1, <2>2, <2>3, <2>4, <2>5, <2>6 DEF FollowInv, InStep
<1>9. CASE GiveUp \/ Restart
  <2>1. Forsake /\ UNCHANGED <<disk, cfg, rev>>
    BY <1>9, Zenon DEF GiveUp, Restart, settings
  <2>2. \A g \in Handler : ~Replied(g)'
    BY <1>1, <2>1 DEF FollowInv, Forsake, NoRep, Replied
  <2>3. /\ agent'.waits = {}
        /\ \/ agent'.rev = agent.rev /\ agent'.set = agent.set
           \/ agent'.rev = disk.rev /\ agent'.set = disk.set
    BY <1>1, <1>9 DEF GiveUp, Restart
  <2>4. /\ InStep(agent.rev, agent.set)' /\ InStep(disk.rev, disk.set)'
        /\ agent'.rev \in Nat /\ disk'.rev <= agent'.rev
    BY <1>1, <2>1, <2>3 DEF FollowInv, InStep
  <2>5. FollowInv'
    BY <2>2, <2>3, <2>4 DEF FollowInv
  <2>6. agent'.rev < agent.rev => agent'.rev = disk.rev /\ agent'.set = disk.set
    BY <1>1, <2>3
  <2>7. QED
    BY <2>5, <2>6
<1>10. Hidden \/ (\E h \in Handler : Push(h) \/ Reply(h) \/ Apply(h)) \/ GiveUp \/ Restart
  BY Zenon DEF Next, Hidden, Handle
<1>11. QED
  BY <1>1, <1>5, <1>6, <1>7, <1>8, <1>9, <1>10, HiddenStep

\* A revision stands for one list wherever it is kept or on its way, and the
\* agent does not go back except to what a restart finds saved: so an agent that
\* ignores a reply of its own revision misses nothing (set_check_config,
\* RemoteConfig.apply), for any number of reports it gave up.
THEOREM RevisionsAgree == Spec => AgentInStep
<1>1. Init => FollowInv
  BY DEF Init, FollowInv, InStep, Offered, Replied, NoRep, Shown, Blank
<1>2. TypeOK /\ FollowInv /\ [Next]_vars
        => FollowInv' /\ [agent'.rev < agent.rev => agent'.rev = disk.rev /\ agent'.set = disk.set]_vars
  BY FollowStep
<1>3. FollowInv => agent.rev <= rev /\ (agent.rev = rev => agent.set = Offered(cfg, rev))
  BY DEF FollowInv, InStep
<1>4. QED
  BY <1>1, <1>2, <1>3, TypeCorrect, PTL DEF Spec, AgentInStep
===============================================================================
