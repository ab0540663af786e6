---------------------------- MODULE HostSettings ----------------------------
(***************************************************************************)
(* The settings the hub keeps for one host, and the agent that follows     *)
(* them (server: checks.py, datause.py, main.py ingest, db.py; agent:      *)
(* RemoteConfig).  Operators save settings and edit the check rows the     *)
(* watch lists are rendered from; rows expire; reports adopt agent.conf's  *)
(* checks and store the data-use flag.  put_settings and _store_data_use   *)
(* hold the database lock over read and write; the re-rendering after a    *)
(* row has changed, and adoption, do not.                                  *)
(*                                                                         *)
(* The watch lists are one list of targets; the flag is "unset" when       *)
(* AVM_DATA_USE is neither on nor off.  A save of several settings is      *)
(* taken one setting at a time, a check's new target as a removal and an   *)
(* addition.  Left out: the memory floor, the responders of checks         *)
(* (CheckResponder), settings that are only shown or passed on, and what   *)
(* the data-use flag does to text (datause_purge).                         *)
(***************************************************************************)
EXTENDS Integers, FiniteSets

CONSTANTS
    Target,     \* what a check can watch
    Conf,       \* the targets in agent.conf
    Legacy,     \* the list of a host from before there were check rows, which
                \* no rows were made for
    Handler,    \* bound: reports the hub handles at a time
    Sync,       \* bound: re-renderings at a time
    MaxEvent    \* bound: saves, edits and expiries of rows, and at the agent
                \* timeouts, restarts and failed writes

ASSUME SettingsAssumption ==
    /\ Conf \subseteq Target /\ Legacy \subseteq Target /\ IsFiniteSet(Target)
    /\ MaxEvent \in Nat

VARIABLES
    cfg, rev,   \* hosts.check_config and check_rev; rev 0: no settings yet
    rows,       \* host_checks: target -> what is known of its row
    sync,       \* the re-renderings
    rep,        \* the reports under way
    agent,      \* the agent: settings it follows, policy, report it waits for
    disk,       \* its remote-config.json
    \* history:
    due,        \* what the flag and the marker should be
    gone,       \* targets whose row was removed, or found expired, while a
                \* report adopted
    overtaken,  \* parts of cfg written from data that had changed since
    events

settings == <<cfg, rev, due, overtaken>>
fleet    == <<agent, disk>>
vars == <<settings, rows, sync, rep, fleet, gone, events>>

-----------------------------------------------------------------------------
Flag   == {"unset", "on", "off"}
Config == [flag : Flag, managed : BOOLEAN, list : SUBSET Target]
Blank  == [flag |-> "unset", managed |-> FALSE, list |-> {}]

Live == {t \in Target : rows[t] \in {"kept", "timed"}}
Have == {t \in Target : rows[t] # "none"}

\* Mutation: an empty list is not sent.
Shown_Filled(c) == IF c.list # {} THEN {c.list} ELSE {}

\* What reaches the agent of them: no list at all, or the one of a managed
\* host, be it empty (RemoteConfig keeps REMOTE_KEYS only).
Shown(c) == IF c.managed \/ c.list # {} THEN {c.list} ELSE {}

\* What a reply with settings of revision r brings; there are none of revision 0.
Offered(c, r) == IF r = 0 THEN {} ELSE Shown(c)

\* The list the agent runs (RemoteConfig.effective).
Effective == IF agent.set = {} THEN Conf ELSE UNION agent.set

Followed == [rev : Nat, set : SUBSET SUBSET Target]
NoSync   == [at |-> "idle", old |-> Blank, seen |-> {}, todo |-> {}]
NoRep    == [at |-> "idle", closed |-> FALSE, ran |-> {}, host |-> Blank,
             seen |-> {}, rev |-> 0]

Syncs == [at : {"idle", "sweep", "due", "read", "listed"}, old : Config,
          seen : SUBSET Target, todo : SUBSET Target]
Reps  == [at : {"idle", "pushed", "store", "reread", "adopt", "add", "write", "reply", "sent"},
          closed : BOOLEAN, ran : SUBSET Target, host : Config, seen : SUBSET Target, rev : Nat]

TypeOK ==
    /\ cfg \in Config /\ rev \in Nat
    /\ rows \in [Target -> {"none", "kept", "timed", "expired"}]
    /\ sync \in [Sync -> Syncs] /\ rep \in [Handler -> Reps]
    /\ agent \in [rev : Nat, set : SUBSET SUBSET Target, closed : BOOLEAN, waits : SUBSET Handler]
    /\ disk \in Followed
    /\ due \in [flag : Flag, managed : BOOLEAN]
    /\ gone \subseteq Target /\ overtaken \subseteq {"flag", "managed", "list"}
    /\ events \in Nat

Init ==
    /\ \/ cfg = Blank /\ rev = 0 /\ overtaken = {}
       \/ cfg = [Blank EXCEPT !.list = Legacy] /\ rev = 1 /\ overtaken = {"list"}
    /\ rows = [t \in Target |-> "none"]
    /\ sync = [s \in Sync |-> NoSync]
    /\ rep = [h \in Handler |-> NoRep]
    /\ \E closed \in BOOLEAN : agent = [rev |-> 0, set |-> {}, closed |-> closed, waits |-> {}]
    /\ disk = [rev |-> 0, set |-> {}]
    /\ due = [flag |-> "unset", managed |-> FALSE]
    /\ gone = {}
    /\ events = 0

\* What a re-rendering or a report does next.
SyncOn(s, next) == sync' = [sync EXCEPT ![s] = next]
GoesOn(h, next) == rep' = [rep EXCEPT ![h] = next]

Event == events < MaxEvent /\ events' = events + 1

-----------------------------------------------------------------------------
(* Writing settings. *)

\* Mutation: a revision only for another list.
Put_SameList(new) == cfg' = new /\ rev' = IF new.list = cfg.list THEN rev ELSE rev + 1

\* set_check_config: the settings and a new revision.
Put(new) == cfg' = new /\ rev' = rev + 1

\* A write under the lock sets one part, and renders the list anew.
PutSetting(new, part) ==
    /\ Put(new)
    /\ due' = [due EXCEPT !.flag = IF part = "flag" THEN new.flag ELSE @]
    /\ overtaken' = overtaken \ {part, "list"}

\* A write without it puts back what was read before.
PutBack(old, new, seen) ==
    /\ Put(new)
    /\ due' = [due EXCEPT !.managed = @ \/ new.managed]
    /\ overtaken' = (overtaken \ {"list"})
           \cup (IF seen # Live THEN {"list"} ELSE {})
           \cup (IF old.flag # cfg.flag THEN {"flag"} ELSE {})
           \cup (IF old.managed # cfg.managed THEN {"managed"} ELSE {})

-----------------------------------------------------------------------------
(* Operators, and rows that change. *)

\* put_settings with AVM_DATA_USE.
SaveFlag(f) ==
    /\ Event
    /\ PutSetting([cfg EXCEPT !.flag = f, !.list = Live], "flag")
    /\ UNCHANGED <<rows, sync, rep, fleet, gone>>

Adopting == {h \in Handler : rep[h].at \in {"add", "write"}}

Remove(targets) == gone' = IF Adopting = {} THEN gone ELSE gone \cup targets

\* check_delete, and check_add where the row need not be new.
Without(t) == [rows EXCEPT ![t] = "none"]
With(t)    == [rows EXCEPT ![t] = IF @ = "none" THEN "kept" ELSE @]

\* put_settings with a watch list: rows of targets that stay are kept as they
\* are, an expired one too.
SaveList(wanted) ==
    /\ Event
    /\ rows' = [t \in Target |-> IF t \in wanted THEN With(t)[t] ELSE "none"]
    /\ Remove(Have \ wanted)
    /\ PutSetting([cfg EXCEPT !.list = Live'], "list")
    /\ UNCHANGED <<sync, rep, fleet>>

\* The end of a request that changed rows, or of one round over expired ones.
Rerender(s) == SyncOn(s, [sync[s] EXCEPT !.at = "due"])

\* Add a check, or give one a new time to live or none.
EditRow(s, t, as) ==
    /\ Event /\ sync[s].at = "idle"
    /\ rows' = [rows EXCEPT ![t] = as]
    /\ Rerender(s)
    /\ UNCHANGED <<settings, rep, fleet, gone>>

\* Mutation: the lists keep a removed check until the next change.
DeleteRow_Only(s, t) ==
    /\ Event /\ sync[s].at = "idle" /\ rows[t] # "none"
    /\ rows' = Without(t)
    /\ Remove({t})
    /\ UNCHANGED <<settings, sync, rep, fleet>>

DeleteRow(s, t) ==
    /\ Event /\ sync[s].at = "idle" /\ rows[t] # "none"
    /\ rows' = Without(t)
    /\ Remove({t})
    /\ Rerender(s)
    /\ UNCHANGED <<settings, rep, fleet>>

Expire(t) ==
    /\ Event /\ rows[t] = "timed"
    /\ rows' = [rows EXCEPT ![t] = "expired"]
    /\ UNCHANGED <<settings, sync, rep, fleet, gone>>

\* presence_loop reads the expired rows, and removes each by its id, whatever
\* has become of it (one made anew may have got the id of one that is gone).
SweepList(s) ==
    /\ sync[s].at = "idle" /\ \A r \in Sync : sync[r].at # "sweep" /\ sync[r].todo = {}
    /\ \E t \in Target : rows[t] = "expired"
    /\ SyncOn(s, [sync[s] EXCEPT !.at = "sweep", !.todo = {t \in Target : rows[t] = "expired"}])
    /\ UNCHANGED <<settings, rows, rep, fleet, gone, events>>

Sweep(s) ==
    /\ sync[s].at = "sweep"
    /\ \E t \in sync[s].todo :
        /\ rows' = Without(t)
        /\ Remove({t})
        /\ SyncOn(s, [sync[s] EXCEPT !.at = "due", !.todo = @ \ {t}])
    /\ UNCHANGED <<settings, rep, fleet, events>>

(* sync_config: read the settings, read the rows, write what differs. *)

SyncRead(s) ==
    /\ sync[s].at = "due"
    /\ SyncOn(s, [sync[s] EXCEPT !.at = "read", !.old = cfg])
    /\ UNCHANGED <<settings, rows, rep, fleet, gone, events>>

SyncList(s) ==
    /\ sync[s].at = "read"
    /\ SyncOn(s, [sync[s] EXCEPT !.at = "listed", !.seen = Live])
    /\ UNCHANGED <<settings, rows, rep, fleet, gone, events>>

SyncWrite(s) ==
    /\ sync[s].at = "listed"
    /\ LET old == sync[s].old
           new == [old EXCEPT !.list = sync[s].seen] IN
       IF new = old
       THEN /\ overtaken' = overtaken \cup (IF cfg.list # Live THEN {"list"} ELSE {})
            /\ UNCHANGED <<cfg, rev, due>>
       ELSE PutBack(old, new, sync[s].seen)
    /\ SyncOn(s, [NoSync EXCEPT !.at = IF sync[s].todo = {} THEN "idle" ELSE "sweep",
                                !.todo = sync[s].todo])
    /\ UNCHANGED <<rows, rep, fleet, gone, events>>

-----------------------------------------------------------------------------
(* A report (main.py ingest).  The agent sends one at a time; the hub goes  *)
(* on with one its agent has given up.                                      *)

\* The checks it runs, unless collecting them fails.
Push(h) ==
    /\ agent.waits = {} /\ rep[h].at = "idle"
    /\ \E ran \in {Effective, {}} :
         GoesOn(h, [NoRep EXCEPT !.at = "pushed", !.closed = agent.closed, !.ran = ran])
    /\ agent' = [agent EXCEPT !.waits = {h}]
    /\ UNCHANGED <<settings, rows, sync, disk, gone, events>>

\* datause.sticky: a restricted policy meets an unset flag.
Sticky(c, closed) == closed /\ c.flag = "unset"

\* The report is stored (record_sample), and adopted or answered.
Proceed(h, host) ==
    IF host.managed \/ rep[h].ran = {}
    THEN GoesOn(h, [NoRep EXCEPT !.at = "reply"])
    ELSE GoesOn(h, [NoRep EXCEPT !.at = "adopt", !.ran = rep[h].ran, !.host = host])

\* The host row is read, and what it says is decided on.
Arrive(h) ==
    /\ rep[h].at = "pushed"
    /\ IF Sticky(cfg, rep[h].closed) THEN GoesOn(h, [rep[h] EXCEPT !.at = "store", !.host = cfg])
       ELSE Proceed(h, cfg)
    /\ UNCHANGED <<settings, rows, sync, fleet, gone, events>>

\* Mutation: what was decided on arrival is done, whatever was saved since.
Store_Blind(h) ==
    /\ rep[h].at = "store"
    /\ Put([cfg EXCEPT !.flag = "on", !.list = Live])
    /\ due' = [due EXCEPT !.flag = IF @ = "unset" THEN "on" ELSE @]
    /\ overtaken' = overtaken \ {"flag", "list"}
    /\ GoesOn(h, [rep[h] EXCEPT !.at = "reread"])
    /\ UNCHANGED <<rows, sync, fleet, gone, events>>

\* _store_data_use: decided again under the lock.
Store(h) ==
    /\ rep[h].at = "store"
    /\ IF Sticky(cfg, rep[h].closed)
       THEN /\ PutSetting([cfg EXCEPT !.flag = "on", !.list = Live], "flag")
            /\ GoesOn(h, [rep[h] EXCEPT !.at = "reread"])
       ELSE /\ Proceed(h, rep[h].host)
            /\ UNCHANGED settings
    /\ UNCHANGED <<rows, sync, fleet, gone, events>>

Reread(h) ==
    /\ rep[h].at = "reread"
    /\ Proceed(h, cfg)
    /\ UNCHANGED <<settings, rows, sync, fleet, gone, events>>

\* Mutation: only what the report shows.
Declared_Not(h) == rep[h].ran

\* What the report shows and what the hub had declared.
Declared(h) == rep[h].ran \cup rep[h].host.list

\* adopt, with a host row that is not managed: the rows are read; a row is
\* made for each target that had none; the rows are read again; the settings
\* are written, and the row is read anew for what follows.
Adopt(h) ==
    /\ rep[h].at = "adopt"
    /\ GoesOn(h, [rep[h] EXCEPT !.at = "add", !.seen = Declared(h) \ Have])
    /\ UNCHANGED <<settings, rows, sync, fleet, gone, events>>

AdoptAdd(h) ==
    /\ rep[h].at = "add"
    /\ \E t \in rep[h].seen :
        /\ rows' = With(t)
        /\ GoesOn(h, [rep[h] EXCEPT !.seen = @ \ {t}])
    /\ UNCHANGED <<settings, sync, fleet, gone, events>>

AdoptList(h) ==
    /\ rep[h].at = "add" /\ rep[h].seen = {}
    /\ GoesOn(h, [rep[h] EXCEPT !.at = "write", !.seen = Live])
    /\ gone' = gone \cup (Have \ Live)
    /\ UNCHANGED <<settings, rows, sync, fleet, events>>

AdoptWrite(h) ==
    /\ rep[h].at = "write"
    /\ LET old == rep[h].host
           new == [old EXCEPT !.managed = TRUE, !.list = rep[h].seen] IN
       PutBack(old, new, rep[h].seen)
    /\ GoesOn(h, [NoRep EXCEPT !.at = "reply"])
    /\ gone' = IF Adopting = {h} THEN {} ELSE gone
    /\ UNCHANGED <<rows, sync, fleet, events>>

\* The host row is read for the reply, which reaches only an agent that waits.
Reply(h) ==
    /\ rep[h].at = "reply"
    /\ GoesOn(h, IF h \in agent.waits
                 THEN [NoRep EXCEPT !.at = "sent", !.host = cfg, !.rev = rev] ELSE NoRep)
    /\ UNCHANGED <<settings, rows, sync, fleet, gone, events>>

\* RemoteConfig.apply and _save, which may fail.
Apply(h) ==
    /\ rep[h].at = "sent"
    /\ LET r == rep[h].rev
           set == Offered(rep[h].host, r) IN
       IF r = agent.rev
       THEN agent' = [agent EXCEPT !.waits = {}] /\ UNCHANGED <<disk, events>>
       ELSE /\ agent' = [agent EXCEPT !.waits = {}, !.rev = r, !.set = set]
            /\ \/ disk' = [rev |-> r, set |-> set] /\ UNCHANGED events
               \/ Event /\ UNCHANGED disk
    /\ GoesOn(h, NoRep)
    /\ UNCHANGED <<settings, rows, sync, gone>>

-----------------------------------------------------------------------------
(* What goes wrong at the agent. *)

\* What becomes of the report it waits for, when it no longer does.
Forsake ==
    rep' = [h \in Handler |-> IF h \in agent.waits /\ rep[h].at = "sent" THEN NoRep ELSE rep[h]]

\* The push times out or is refused.
GiveUp ==
    /\ agent.waits # {} /\ Event
    /\ agent' = [agent EXCEPT !.waits = {}]
    /\ Forsake
    /\ UNCHANGED <<settings, rows, sync, disk, gone>>

\* A push given up may have got nowhere.
Lost(h) ==
    /\ rep[h].at = "pushed" /\ h \notin agent.waits
    /\ GoesOn(h, NoRep)
    /\ UNCHANGED <<settings, rows, sync, fleet, gone, events>>

\* The agent starts again, perhaps with another policy in agent.conf.
Restart ==
    /\ Event
    /\ \E closed \in BOOLEAN :
         agent' = [rev |-> disk.rev, set |-> disk.set, closed |-> closed, waits |-> {}]
    /\ Forsake
    /\ UNCHANGED <<settings, rows, sync, disk, gone>>

-----------------------------------------------------------------------------
Handle(h) ==
    \/ Arrive(h) \/ Store(h) \/ Reread(h)
    \/ Adopt(h) \/ AdoptAdd(h) \/ AdoptList(h) \/ AdoptWrite(h) \/ Reply(h)

Resync(s) == SyncRead(s) \/ SyncList(s) \/ SyncWrite(s) \/ Sweep(s)

Next ==
    \/ \E f \in Flag : SaveFlag(f)
    \/ \E wanted \in SUBSET Target : SaveList(wanted)
    \/ \E s \in Sync, t \in Target : (\E as \in {"kept", "timed"} : EditRow(s, t, as)) \/ DeleteRow(s, t)
    \/ \E t \in Target : Expire(t)
    \/ \E s \in Sync : SweepList(s) \/ Resync(s)
    \/ \E h \in Handler : Push(h) \/ Handle(h) \/ Apply(h) \/ Lost(h)
    \/ GiveUp \/ Restart

\* The agent's loop pushes on, and the hub's threads make progress.
Fairness ==
    /\ WF_vars(\E h \in Handler : Push(h))
    /\ \A h \in Handler : WF_vars(Handle(h)) /\ WF_vars(Apply(h)) /\ WF_vars(Lost(h))
    /\ \A s \in Sync : WF_vars(Resync(s))

Spec == Init /\ [][Next]_vars /\ Fairness

-----------------------------------------------------------------------------
\* The flag is what the operator last chose, or "on" where a report found it
\* unset, and a managed host stays managed - unless a re-rendering or an
\* adoption put back settings read before (datause.py: only an operator lifts
\* it; put_settings and _store_data_use decide again under the lock).
SettingsKept ==
    /\ cfg.flag # due.flag => "flag" \in overtaken
    /\ cfg.managed # due.managed => "managed" \in overtaken

\* With no re-rendering or adoption under way, the list has every check that has a row and
\* none that was removed - an expired one at most until it is swept - unless
\* the last writer had read the rows before they changed (sync_config).
ListsRendered ==
    /\ \A s \in Sync : sync[s].at \in {"idle", "sweep"}
    /\ \A h \in Handler : rep[h].at \notin {"add", "write"}
    /\ "list" \notin overtaken
    =>  Live \subseteq cfg.list /\ cfg.list \subseteq Have

\* Adoption loses no check: each one the agent runs from agent.conf, and each
\* one the hub had declared, is in the list that replaces them, unless its row
\* was removed meanwhile or had expired when the rows were read (adopt).
AdoptionKeepsAll ==
    [][\A h \in Handler : rep[h].at = "write" /\ rep'[h].at = "reply" =>
         (rep[h].ran \cup rep[h].host.list) \ gone \subseteq cfg'.list]_vars

\* A revision stands for one list: an agent that has the hub's revision, and so
\* ignores its replies, has the hub's list, and none is ahead of the hub; it
\* goes back to an older one only by a restart, to what it had saved, however
\* late the answers to reports it gave up (set_check_config, RemoteConfig).
AgentInStep ==
    /\ [](agent.rev <= rev /\ (agent.rev = rev => agent.set = Offered(cfg, rev)))
    /\ [][agent'.rev < agent.rev => agent'.rev = disk.rev /\ agent'.set = disk.set]_vars

\* After the last change, the agent ends up with the hub's revision and runs
\* the hub's list - a managed host's even if it is empty - and agent.conf's
\* where the hub has none (RemoteConfig: lost replies, the saved file).
AgentFollows ==
    []<>(/\ agent.rev = rev
         /\ Effective = IF cfg.managed \/ cfg.list # {} THEN cfg.list ELSE Conf)
=============================================================================
