# Avalon Monitor: verification project

Avalon Monitor watches a handful of Linux and Windows hosts. A *hub* (FastAPI
over SQLite, `server/avalon_monitor/`) stores what *agents*
(`agent/avalon_agent.py`, one per host) push every few seconds, serves the
dashboard, and hands agents work to do. People and other agents use the `avm`
command (`agent/avm.py`) on a host to run, queue and report jobs. This directory
models the parts of that system whose correctness depends on the order in which
several processes act, checks them with TLC and proves the central results with
TLAPS.

## 1. Inventory

| Component | State | Operations | Interacts with | What makes it correct |
|---|---|---|---|---|
| Wait queue (`avm run --gpu/--mem/--vram/--wait`, `avm queue`) | ticket files and their OS locks, `admit.lock`, `DRAIN` flag, all in one shared directory | register, try_admit, release, drain, resume, bypass | every other avm on the host, only through files | one heavy GPU job at a time, memory never over-admitted, first come first served, drains hold, nobody starves |
| Task lifecycle (`avm task/run/watch`, `routes_ops`, `db.task_*`) | task rows, `hub.online` in memory | create, beat, finish, ack, delete; stalled and lost marks by timers | avm processes over HTTP, presence loop, maintenance loop | an outcome once reported stays; a task whose reporter is gone shows it |
| Claude jobs (`routes_ops`, `db.job_*`, agent job runner) | job rows, cancel flags, the agent's `seen` set and job queue | create, hand out in push replies, start, events, cancel, finish | hub and agent over pushes that may be lost or late | each prompt runs at most once and ends in a final state; a cancelled one does not run |
| Check responders (`checks.py`, `routes_checks.py`, `db.check_*`) | check rows: known state, open alert, pending, fire log | evaluate on each report, add, patch, delete, expire, adopt | every report of a host, the job queue, tracked sessions | one open alert per failure, cooldown and daily cap hold |
| Host settings and remote config (`checks.py` put/sync/adopt, agent `RemoteConfig`) | settings with a revision per host, the agent's persisted copy | save, sync, adopt, apply | operators, agents, pushes | no save is lost, the agent converges to the last revision |
| Sessions under watch, respawn and delivery (`db.tracked_*`, agent) | tracked rows, pending commands, waiting deliveries | track, untrack, respawn, deliver | check responders, Claude jobs | an alert reaches the session it was meant for |
| Data-use mode (`datause.py`, `main._store_data_use`) | sticky restriction per host | set, scrub, purge | ingest, tasks, jobs | once restricted, nothing sensitive is stored |
| Rollup and history (`db.rollup`, `db.series`) | raw samples, per-minute rows | ingest, roll up, prune, read | maintenance loop, ingest | each accepted sample is counted once |
| Rules (`rules.py`) | since when each host's job is active, in memory | GPU stall test | checks | the documented condition |
| Results, preferences, auth, live dashboard (`routes_results`, `db.pref_*`, `auth.py`, `core.LiveHub`) | rows; websocket set | CRUD, broadcast | browser | mostly single-statement |
| Self-update and releases (agent updater, `sign-release.py`) | signatures, the offer in each reply, two files on each host | sign, offer, download, verify, replace, restart | hub, agent main loop | only signed code that is not older is installed, and a served release reaches the hosts |
| Hub deployment (`deploy-hub.sh`, `upgrade.sh`) | `server/`, `agent/`, `$STATE/current`, `$STATE/rollback` | deploy, take back, roll back, upgrade | systemd, the operator's checkout, every agent through `agent/` | what is recorded as live is live, and what would be rolled back to is what it says |
| Backups (`restic-backup.py`) | `status.json`, the success stamp, the repository | back up, prune, check, seed | systemd, restic, the dashboard's backup check | a green status is true, a saved run is not shown as failed |
| Dashboard (`static/*.js`, `*.css`) and collectors | none that outlives a request | render, measure | browser, OS | presentation and I/O |

`PROJECT.json` lists every component with its status and, under `hazards`, what
can go wrong in it that a test would hardly reach.

## 2. Plan

Modules in the order of what depends most on interleavings and failures. Every
module declares its parameters as constants with a named assumption, has one
action per operation, handler or blocking step, and uses no `RECURSIVE` operator,
so that theorems can be stated about it.

| # | Module | Composes / refines | Runs | Theorems | State |
|---|---|---|---|---|---|
| 1 | `AvmQueue` | refines `Admission` | admission, drain, nested | types, exclusivity, tickets kept, drain bound, order, refinement, reservations | done |
| 2 | `TaskLife` | reporters, hub rows, presence loop | hub, progress | types, hosts apart, outcomes stay | done |
| 3 | `ClaudeJobs` | job rows, report replies, agent loop, job thread | pair, cancel | types, taken once, none forgotten | done |
| 4 | `CheckResponder` | refines `Alerts`; overlapping reports around one check; its alert is a row of `ClaudeJobs`, its target a tracked session | overlap, held alerts | types, refinement, one alert per failure, cooldown, cap | done |
| 5 | `HostSettings` | saves, check rows, re-rendering, adoption, the data-use flag, the agent's `RemoteConfig` | no save lost, the agent ends with the last revision | types, settings kept, lists rendered, adoption complete, revisions agree | done |
| 6 | `Backup` | a run, stop signals, a concurrent `--seed` | the status is the truth | types and all five properties | done |
| 7 | `Deploy`, `SelfUpdate` | `SelfUpdate` extends `Deploy` by a host that follows it | a way back, only releases, never older, the fleet follows | types, the three safety properties | done |
| 8 | `Rollup` | ingest, redo window, cutoff, prune | each sample counted once | window lemmas | not written: section 6 |

Abstract specifications: `Admission`, what users are told of the queue, and `Alerts`, what
a responder promises of a check. `AvmQueue` and `CheckResponder` are shown by TLC and proved
to implement them. One for a prompt ("queued, taken once, ended") would say what `RunsOnce`
already says as an action property of `ClaudeJobs`, and is not stated.

## 3. The modules and the code

### 3.1 `AvmQueue`, `Admission`: the wait queue of a host

There is no daemon. Each `avm run` is a process of its own; `pc[p]` says where it is
in `_run_queued`, and everything else it shares with the others is a file:

| Model | Code (`agent/avm.py`) |
|---|---|
| `file[p]` | the ticket `.json`: absent, `waiting`, `running` |
| `Held(p)` | the OS lock on the ticket's `.lock`, held by a live process |
| `earlier[p]` | tickets with a smaller `seq` (the stamp taken in `register`) |
| `admit` | the holder of `admit.lock` |
| `drain`, `drainer`, `dtodo`, `dseen` | the `DRAIN` flag and one `avm queue drain --wait` |
| `seenDrain`, `todo`, `seenWaiting`, `seenRunning`, `seenHeld`, `old` | the locals of `check()` while it reads the flag, lists the directory and reads one ticket after the other |
| `settled`, `used` | whether a running ticket is older than the settle time, and what its command really occupies |
| `behind`, `late` | history: who already waited, how many were admitted since the drain |

`Stamp`, `Publish`, `Lock`, `ReadDrain`, `List`, `ReadTicket`/`DropDead`, `Measure`,
`Commit`/`Refuse`, `Exec`, `ChildExit`, `Release` are the blocking steps of one run;
only `admit.lock` orders them against other processes. `Crash` is a SIGKILL: the OS
lock is gone, the ticket file and the command are not. `Bypass` is the run without the
queue when its directory is unusable, `StartNested` an `avm run` inside a queued
command, `Ramp` and `Settle` memory that grows and the settle time that passes.

`Admission` is what users are told: a job arrives, waits behind those who were there
before, and is admitted in one step. `ImplementsAdmission` maps every state of the
file protocol to it.

Assumptions about the environment: the clock of the stamps does not go backwards; a command
reaches its peak use within the settle time or is measured later; a parent command waits for the
`avm run` it starts; the OS frees the locks of a dead process. An attempt to take `admit.lock` is
assumed to fail by contention only: `try_admit` goes on without it when the file system refuses
the lock for another reason (`avm.py:689`). `ReadTicket` assumes a live ticket to be readable:
`tickets` skips one that is not (`avm.py:594`).

### 3.2 `TaskLife`: tasks from `avm` to the dashboard

Reporters (`avm run`, its waiting phase, `avm watch`, `avm task`) send requests with a
ten second limit and go on whatever the answer. `net` holds the requests; each may be
handled, lost with or without effect (`Lose`, `GiveUp`), or handled after the sender
gave up (`Late`). `rows` is the `tasks` table with the fields that decide statuses,
`unheard` (history) who sent which of the reports that are sent once, an admission or an outcome,
and it got lost. The presence loop is split at its `await`s
(`ListHosts`, `Compare`, `MarkLost`, `HostsDone`, `MarkStalled`, `RoundFails`) against
`Push` (the row is updated) and `PushSeen` (`hub.online` is set later, by `ingest`).
`HubRestart` forgets `hub.online`. `Ack` goes by id, as `task_ack` does: it silences the problem
that the row has when the request is handled.

Time is two facts that may become true at any moment: a row is `overdue` (older than
1.5 expected beats), a host is `silent` (older than the offline limit). Start times,
progress, notes, metadata and log lines do not influence statuses and are left out. The
history fields `owner` and `said` of a row record who created it and what was last
reported.

### 3.3 `ClaudeJobs`: prompts and session actions

Hub rows (`kind`, `status`, `cancel`), the reply the agent waits for (`main`, `reply`,
built by `PopCommand` and `JobsPending` as `ingest` does), the agent's memory (`queue`,
`seen`, `cancelIds`, `current`) and its one job thread (`at`, `child`, `told`, `post`).

| Model | Code |
|---|---|
| `Create`, `Prune` | `job_create`, which gives the id after the highest that exists; `job_prune`, after which ids are free again |
| `AskCancel`, `DoCancel` | `job_cancel` reads the row, then writes it (`routes_ops.py`) |
| `Report` .. `NoUpdate` | one turn of the agent's main loop; `PushFails` its exception handlers |
| `Accept`, `Pump` | `accept()` and `_pump()`, each under the lock |
| `Restart` | `respawn()`: after a command, a self-update, or by the service manager after a crash |
| `Take`, `Respawned`, `LaunchRelay`, `RelayEnds`, `Launch`, `Flush`, `Notice`, `Finish`, `ActionEnds` | the phases of `_run_job`, `_deliver`, `_respawn_deliver`, `_run_action` |
| `HandlePost`, `PostFails`, `Stray` | `_post` and the handlers of start, events and finish; a failed or orphaned post may still be handled |

A job is a prompt, an alert relayed into a live session (`deliver`) or into one that is
respawned first (`respawn`), or a session action. What a claude process does is
external: it prints, and it may end or not. The answers it gives, the transcript level
and the working directory are data. The agent has one report under way; a report that
the agent gave up and the hub handles later is not distinguished from a lost one.
Left out: `job_ack`. History: `begun`, `announced`, `unheard`, the reports the hub may
have missed, which is what the guarantees are relative to, and `spent`, the ids of pruned
jobs that the agent still remembers.

### 3.4 `CheckResponder`: one check and its alerts

`row` is the check's row in `host_checks`, `report[w]` a report that thread `w` of the
hub handles: each report of the host gets a thread, and several may be in work at once.

| Model | Code |
|---|---|
| `Add`, `Remove`, `SetResponder` | `check_add`, `check_delete` (also by expiry or a save), `_patch` (`routes_checks.py`) |
| `Track`, `Untrack` | `tracked_add`, `tracked_delete`; the next row takes the id of the last one |
| `Arrive` | `ingest` takes the report and its time |
| `ReadRow` | `evaluate` reads the row, the only time |
| `Aim` | decides on that copy (`Wanted`, `MustHold`), and looks the session up |
| `Fire`, `NotFired` | `check_fire`, one transaction: a job and the claim of the row, unless another report holds it |
| `Write` | `check_update`, another transaction: only the fields that differ from the copy |

Times are ticks relative to the present, so that the state space is finite without a bound on
time: `Tick` makes everything one older, and what is too old to matter for cooldown, window or
grace is not told apart. `MaxStall` bounds how long a report may be in work; that it is less than
the cooldown is assumed, as cooldowns are at least five minutes. History: `alerts`, `recovered`,
`raced` and `overtaken`. The last is set when a report writes its own alert although another went
out, or the row was replaced, after it read its copy. Such a report replaces `last_fired` and
`fire_log` by what its copy knew, so cooldown and cap have an exception there: without it TLC
finds an alert that comes too early, and the exception is part of `CooldownKept` and `CapKept`.

`Alerts` knows no threads, rows or copies: `sent` (here `alerts`), `due` (`recovered`), and
`excused` (`overtaken`). An alert looks at everything sent so far and goes out in one step, if
one is due, and, unless excused, after the cooldown and within the cap. `ImplementsAlerts`
maps the reports that read, claim and write in three transactions to it: `Fire` is the alert,
handling an ok is what makes the next one due, and the other steps are none.

`last_ok` is only set or not, a refusal by policy and a missing CLI are one (the desk is
"closed"). Left out: what only the dashboard shows, changes of cooldown and cap, modes,
and whether the alert is resumed, forked or relayed into its session (section 3.3).

### 3.5 `HostSettings`: settings, watch lists, data use and the agent that follows

`cfg` and `rev` are `hosts.check_config` and `check_rev` of one host, reduced to three
parts that different writers set: the data-use flag, the marker that the hub manages the
checks, and the list of what is watched. `rows` are the check rows the list is rendered
from.

| Model | Code |
|---|---|
| `SaveFlag`, `SaveList` | `put_settings` (`checks.py`): reads and writes under the database lock |
| `EditRow`, `DeleteRow` | the check routes; each ends in a re-rendering |
| `Expire`, `SweepList`, `Sweep` | a time to live runs out; `presence_loop` reads the expired rows and removes them one by one |
| `SyncRead`, `SyncList`, `SyncWrite` | `sync_config`: read the settings, read the rows, write; no lock over the three |
| `Push`, `Arrive`, `Store`, `Reread` | a report, decided on the host row read on arrival; `_store_data_use` decides again under the lock (`datause.py`) |
| `Adopt`, `AdoptAdd`, `AdoptList`, `AdoptWrite` | `adopt` makes rows of `agent.conf`'s checks, also without the lock |
| `Reply`, `Apply`, `GiveUp`, `Lost`, `Restart` | the reply, `RemoteConfig.apply` and its file, a report given up, an agent that starts again from the file |

`Offered` is what a reply of a revision brings to the agent, and what `AgentInStep` compares
the agent's list with: an agent ignores replies of its own revision, so two lists of one
revision, or an answer that comes late, would leave it with another list than the hub shows.

History: `due` is what flag and marker should be, `overtaken` names the parts of `cfg` last
written from data that had changed since it was read, `gone` the targets whose row went
while a report adopted. Left out: the text that the flag is about, its purge and what lets text
through meanwhile (section 4).

### 3.6 `Backup`: the nightly run and its status file

`at` is the line `restic-backup.py` is at, `sig` what a stop signal does there, `mem` its
dict `status`, `in` which clause called `fail()`. `Write` and `Replace` are the two halves
of `write_json`; `--seed` (`SeedStart` .. `SeedReplace`) runs beside a backup and uses the
same temporary file. restic itself is the choice of its outcome: `Snapshot` picks what the
snapshot lacks, what of it restic names and its exit code, and `Noticed` what the script
makes of that. `Unwind` says where an exception goes from the body, from an `except` clause
and from `finally`. A time is the number of the run it belongs to. History: `safe`, the runs
whose snapshot was saved, pruned and checked, `hurt`, what happened to the present run,
`guessed`, the times a seed took from a snapshot's date.

### 3.7 `Deploy`, `SelfUpdate`: from a commit to what a host runs

`Deploy` is the developer's checkout and `main`, the signer (`sign-release.py`: one file
after the other, from commit objects), and `deploy-hub.sh`: `dep.at` is the step of the
script, `srv` the server's directory, `live` what the process answers, `pub` the `agent/`
directory as it is handed out, `current` and `roll` the two records under `$STATE`. `srv` is
`Mix` while `rsync` is half-way. `agent/` is copied file by file, the signatures first,
since agents read it meanwhile (an upgrade goes by name). `TakeBack`, `Undone` and `CopyFails` are
the script's own error paths, `Interrupt` a signal outside its traps, `Kill` the end nobody can
trap, `BackStops` a rollback that stops half-way.

Each error path ends in `Restored` or in `RestoreFails`: the copy goes back, or `restore` dies and
`server/` is a mix (`deploy-hub.sh:115`). After a restore the old code is restarted, which may be
refused (`restart || true`), so that the new process stays live over the old files. `DeployStart`
compares versions as the script does: a mix may carry the version of either half, and may pass for
a redeploy. `upgrade.sh` is `UpgradeStart`, `ServerInstalled`, `CopyAgent`, `Installed`,
`RecordInstall`; with `UpgradeStops` it ends anywhere before the record, because a step fails,
because there is nobody to record for, or because recording fails.

`SelfUpdate` adds a host. Its turn is `Report` and three times `Read` (the hub hashes the
agent's script, then the companion, then reads the two signatures, and files may be renamed in
between), `Decide`, the download with
`Install` or `Refuse`, `Refresh` of the companion `avm.py`, and `Respawn`, which may fail.
`Acceptable` is the whole of `signature_ok`: a declared version, a signature made for this
very body, not older than what is installed. A body is a number, a signature the body it was
made for; Ed25519 itself is external and taken to be unforgeable.

History: `signed`; `proved`, code some hub was healthy on, or an upgrade copied, which asks no hub;
`sure`, that nothing since `current` was last recorded left `server/` half-way: no kill, failed
restore, stopped rollback or unrecorded upgrade.

Assumptions about the environment: a hub started from a mix does not come up healthy; the tree an
upgrade installs does not change while it does; it is a commit, pushed or not, or not clean.

## 4. What is checked

Every run passes (sizes on two cores):

| Run | Question | States |
|---|---|---|
| `queue_admission` | Three jobs of mixed sizes on a 2 GB host, two exclusive, one killed at will, one without a usable directory: is admission exclusive, in order, within memory, and an implementation of `Admission`? | 422 k |
| `queue_drain` | Two exclusive jobs that come back for ever, one killed at will, drains and resumes at any moment: does at most one slip through, does `drain --wait` return, does nobody starve? | 31 k |
| `queue_nested` | A job that only declares itself and whose command queues another, next to a job of a size that is not refused and never fits: does every command end, and does nobody else wait for ever? | 6 k |
| `task_hub` | Two hosts, deleted tasks whose id is given out again, late requests, acknowledgements, a hub restart: do rows stay whole and hosts apart? | 1.3 M |
| `task_progress` | One queued run that may be killed and of whose requests any may be lost, also those sent once: is an outcome kept, does the row catch up, and does a row that ended or is unattended show it? | 98 k |
| `jobs_pair` | A prompt and an action, lost replies and starts, late posts, a restart at any point, pruned jobs whose id is given out again: is a job taken up twice, or shown as running with nobody at it? | 3.8 M |
| `jobs_cancel` | One job of every other kind, any call lost, a restart, an id that is pruned and given out again: does a cancellation reach the process and the row, and is a queued job taken up? | 137 k |
| `responder_overlap` | Two reports in work at once, in every order, with the check added, removed and patched: do the reports implement `Alerts`: a failure alerted once, cooldown and cap kept? | 1.2 M |
| `responder_held` | One report at a time, a window of five ticks with a cap of two, a session that is busy or untracked, refusals: is the cap kept in every window, and does a held alert go out? | 224 k |
| `settings_agent` | Two targets, saves, edits and expiries against two re-renderings and an adoption, a report that stores the flag, lost replies and agent restarts: is a choice lost, a check lost, a list stale, does a revision stand for one list, and does the agent follow? | 772 k |
| `backup_status` | Two runs with two troubles of any kind (stop, kill, error, failed write) and a seed at any moment: does the status tell the truth, and is a saved run shown as one? | 3.3 M |
| `release_follow` | Two states of the code, two of deploys, rollbacks and upgrades with two kills, failing restores or failures of the host, installs that are not recorded, and a host that downloads meanwhile: is there a way back, does a host get only releases, never an older agent or `avm.py`, and does it follow? | 376 k |

Every property of these runs has a mutant in `PROJECT.json`: a plausible bug in one
definition (its mutated form stands before it, marked *Mutation*) that makes TLC report
the property.

Bounds and why they suffice. Two jobs contend, a third shows what is read in between: the queue's
properties are about pairs and one job that overtakes. Sizes are half gigabytes on a host of four
units, so that two jobs fit only while they are measured small. Two task ids let an abandoned row
and its successor coexist; one id on two hosts is the shortest way to reuse. Two Claude jobs give
the order of the queue, one in work while the other waits, and an id that is pruned and given out
again. Two reports are the fewest that overlap; they need only one tick of cooldown, while the cap
needs a window in which two alerts and the cooldown between them fit, and one of them leaves. So
the cap cannot bind in `responder_overlap` (its window is its cooldown), and no reports overlap in
`responder_held`; the two together are what `Capped` proves. One restart or failed round is enough
to separate memory from the database. Settings need two targets, one the agent's conf brings and
one the hub had declared before; the three unlocked writers meet the locked ones with one report
and two re-renderings at a time. A second run of the backup is what finds the first one's status.
Two states of the code and two operations give a release, its rollback, and an interrupted one
followed by another. `MaxTrouble`, `MaxEvent`, `MaxId`, `MaxJob`, `MaxRun`, `MaxSeed` and `MaxOps`
are the only bounds on counters. The theorems of section 5 do not have these bounds.

`release_follow` uses a specification with restrictions (`MCSelfUpdate`). `RepoFirst`: steps of the
checkout and the signer are taken only while no deploy and no update is under way, because
no other step reads what they write, so that each order has an equal among these. `Pushed`: a
developer pushes before the next edit, and no commit carries one new signature of two.
`HostsTurn`: the host moves where the hub's process or `agent/`, all it sees of a deploy, may just
have changed. `AtOnce`: it decides on a reply at once and looks at its two waits when it reports,
and a reply is built while files are copied or nothing happens, a restart having ended the
connection. The theorems are about `SelfUpdate` itself, without any of them.

Fairness. *Queue*: avm runs until it blocks (weak fairness of `Step`); it polls for ever
while `admit.lock` is held only for a check, so it gets the lock again and again (strong
fairness of `Lock`); commands end (strong fairness of `ChildExit`, because a nested run
disables it); a draining process goes on, and does not collide with another one on a
dead ticket every time. *Tasks*: the presence loop runs for ever, time passes, a live
reporter beats, and of its requests some arrive. *Jobs*: the agent goes on reporting
and some replies arrive (strong fairness of `PopCommand`, `JobsPending`, `Accept`); what
it runs with a time limit ends; some events posts are answered, since a claude process
prints; an operator's request that was begun is finished. No fairness is assumed for a
claude process that ends by itself, for users, crashes or losses. *Checks*: reports
arrive for ever, a thread that handles one goes on, time passes (weak fairness each);
nothing is assumed of what they say, `HeldGoesOut` being about a check that keeps
failing and a desk that takes prompts. *Settings*: the agent's loop pushes on, the threads of
the hub go on (weak fairness each); losses and restarts are bounded, and what follows the
last of them is what `AgentFollows` is about. *Releases*: the agent's loop goes on and its ten
minutes pass (weak fairness of `AgentStep` and of `Expire`); nothing is assumed of the
developer, the operator or the hub, `FleetFollows` being about a release that stays
installable. *Backup*: no liveness is claimed, systemd's timer being outside.

### Where the code differs from what is said of it

Met while modelling. The modules do what the code does; no property claims the opposite,
and where one needs an exception for it, the exception is named.

* Queue: a VRAM size within half a gigabyte of the GPU's total passes `_impossible`
  (`agent/avm.py:493`) but never `check` (`avm.py:676`), so it waits for ever, and the
  competitors behind it as well; the docstring (`avm.py:484`) promises to "reject at submit what
  could never fit, instead of queueing it forever". `queue_nested` has such a job, and `Stuck` is
  the exception of `WaitersStart`: without it TLC reports the property violated there.
* Tasks: an admission and a final report are sent once (`avm.py:1103`, `:930`), and later beats
  carry no status. After a lost admission the row is queued while the command runs; after a lost
  outcome it stalls and never shows how the command ended. `CatchesUp` and `EndShown` name both
  (`unheard`); without the exceptions TLC reports them violated.
* Tasks: an acknowledgement goes by id (`db.py:676`), so a task that failed after the operator's
  list was loaded is acknowledged although nobody saw it fail. No property is stated.
* Jobs: a respawn command that arrives while a job runs is called deferred and is dropped
  (`agent/avalon_agent.py:2655`): the hub has cleared it, the agent keeps no note.
* Jobs: the tables have no `AUTOINCREMENT`, so after `job_prune` (`db.py:871`) an id is given
  out again, while `accept()` (`avalon_agent.py:1474`) knows it as seen: the new prompt stays
  queued until the agent restarts (`spent` in `QueuedTaken`).
* Checks: a responder names its session by an id that is given out again when the session is
  untracked and another one tracked; the alert goes to the other one, not to "a fresh
  read-only session" (`checks.py:356`).
* Settings: `sync_config` and `adopt` write back settings they read earlier, without the lock,
  so a flag an operator has just lifted or set may be put back (`datause.py:17`; `overtaken` in
  `SettingsKept`). `db.locked()` is a lock within the hub's process only;
  `manage.py` is another one. A save of a watch list that names a target whose row has
  expired keeps the row, and the sweep then drops it; a row that got a new time after the
  sweep had read it is removed all the same.
* Data use: storing the flag purges what the hub holds from the host "as if it had been restricted
  all along" (`db.py:1050`). Whether text is let through is decided on a host row read earlier, and
  what was let through may be stored after the purge (`routes_ops.py:122`, `:136`, `:342`). Text
  is not modelled, and no property is stated of it.
* Backup: a stop during the weekly check, or in the moment before signals are ignored, makes
  a run "failed" whose snapshot is saved, where the docstring (`restic-backup.py:12`) and
  `docs/HOSTS.md:246` say a stop does not. An error followed by a stop while `fail()` writes leaves
  "running" (`docs/HOSTS.md:249`; the exception of `NotLeftRunning`). `--seed` decides on a status
  it read earlier, and the installer starts the timer before it seeds
  (`install-restic-backup.sh:83`, `:88`), so a real run's status may be overwritten by a seeded one
  (`docs/HOSTS.md:252`). Run and seed share `status.json.tmp`.
* Deployment: SIGKILL between putting the server live and recording it, a `restore` that fails, a
  rollback that is not finished, an upgrade that stops or is not recorded (`upgrade.sh:21`: "may
  show the wrong one") leaves `current` naming what is not there, and the next deploy's rollback
  copy says so of its content. `WayBack` excepts what was recorded or copied at such a time
  (`sure`), until a deploy, a rollback or an upgrade that is recorded ends it. Ctrl-C during the
  copy of `agent/` leaves it half-copied until the deploy is run again; a repeated deploy whose
  agent copy fails restores the agent of the release before.
* Updates: after a failed restart the version of the running process, not of the file on disk,
  is what a download is compared with, so the file may go back (to no less than what runs);
  `NeverBack` is about the process and about `avm.py`. The error of an update stays shown after
  its cause is gone. Ctrl-C in the signer prints that nothing was signed when the first file
  may be.

Other choices of the constants show limits that the code does not promise away:
`Flaky = {"vram"}` breaks `ReservationsFit` (a failed measurement is no constraint),
`Late = TRUE` breaks `OutcomeKept` (a status handled after its sender gave up
overwrites the outcome), `MaxTrouble = 1` breaks `HostGone` (`hub.online` lives in
memory, so a host that is gone when the hub restarts is never a transition and its tasks
do not become lost). In `jobs_pair`, without the exemption for a cut job,
`Attended` fails through a self-update, which does not ask whether a job runs: the row
stays running, its process goes on unwatched. `Options` with `"force"` or `"skip"` lets the
operator of `Deploy` pass its gates.

## 5. What is proved

`tlapm` checks every theorem from the assumptions named in the modules
(`JobAssumption`, `SizeAssumption`, `FiniteAssumption`, `TaskAssumption`, `JobsAssumption`,
`ResponderAssumption`, `SettingsAssumption`, `BackupAssumption`, `DeployAssumption`,
`SelfUpdateAssumption`: the kinds of the constants, nothing about their number; of the
spans of `CheckResponder` also their order, of the jobs of `AvmQueue` and the targets of
`HostSettings` that they are finite, of the code that its first state exists).

**`AvmQueueProofs`.** For any number of jobs: `TypeCorrect`, `OneHeavyJob`
(`ExclusiveGPU`), `TicketsAreKept`, `DrainBound` (`AtMostOneLate`), `Fifo` (`FirstCome`)
and `Refinement` (`ImplementsAdmission`). None is inductive by itself. `IInv` adds that
ticket files follow the phases (`FileInv`), that exactly the holder of `admit.lock` is
checking (`LockInv`), that who waited before is still in the system (`BehindInv`),
that what the holder has read so far, together with what it has listed and not read,
covers every admitted job and every waiting predecessor (`ViewInv`, the heart of the
argument: tickets are read while others change them), and that after a late admission
every check in progress has seen the flag (`LateInv`).

`NoOvercommit` (`ReservationsFit`) says that no memory is promised twice, for any number of
jobs of any sizes. It has two hypotheses, and without either the property is false of the
code: measurements do not fail (a failed one is no constraint), and jobs that only declare
declare no size (they ask for no admission). `GuardedFits` is the same resource by resource:
a VRAM measurement that fails takes nothing from memory. A check reads tickets, then measures,
then commits, while commands grow, settle and end; `HeldInv` says that whoever is in is settled,
still to be read, or held back by the check, `UsedInv` that a command stays within its
declaration, so what is available at the measurement bounds what the settled ones were
promised; and `FitInv` that the room the measurement found is still there at the commit, since
only the holder of `admit.lock` makes the sum grow (`OnlyMeasureFits`). The sums are folds over
sets of jobs. What is needed of them (`WeightNat`, `WeightSplit`, `WeightRemove`) rests on an
induction on finite sets that is derived here for a family of sets, because the library's
theorem takes an operator as its parameter.

**`TaskLifeProofs`.** For any number of reporters, hosts and ids: `TypeCorrect`, `Apart`
(`HostsApart`), `OutcomeStays` (`OutcomeKept`, unless requests are handled late or tasks deleted).
The last rests on `KeepInv`: ids and requests name rows of their owner (`OwnInv`), a reporter's
main thread has one request out (`WaitInv`), and the final report is the last one with a status
(`FinalInv`), so that a beat of the second thread handled after it cannot carry one. `TableStep`
and `RowStep` say once what any step may do to a row.

**`ClaudeJobsProofs`.** For any number of jobs of any kinds, losses and restarts:
`TypeCorrect`, `TakenOnce` (`RunsOnce`), `NoneForgotten` (`Attended`). `TakenInv` is the
strengthening: a job that was taken up, and whose start the hub did not miss, is neither
waiting nor on offer to an agent that does not know it, and has left `queued` for good
once it is done; `AnnouncedInv`, `PostInv`, `ClosedInv` and `StrayInv` say which posts and
histories can coexist with each phase of the thread. `Prune` takes a job of a final state
only, and `spent` keeps apart what its id meant. Eleven kinds of thread steps are
shown to be one (`Work`), seven of the loop another (`Aside`), and each is treated once.

**`CheckResponderProofs`.** For any number of overlapping reports and any spans:
`TypeCorrect`, `OneAlert` (`OneAlertPerFailure`), `Cooling` (`CooldownKept`), `Capped`
(`CapKept`). `OpenInv`
says that as long as no ok was handled after an alert, the row has it open, whatever
other reports write. `CooldownInv` says who accounts for the alerts that still matter:
the row's `last_fired`, and of every report in work that was not raced, its copy of it or
the time it will write; and that a report about to fire has passed the test of the
cooldown by its copy. The cap needs more: `LogInv` says that the row's log, and the one
each report that was not raced has read or will write, covers the alerts: an alert is in it,
or a whole window older than another one. With the cooldown between them, an alert that is
not in the log of the report that fires is then out of its window, and the test of `Aim`
counted the others (`FewInv`; growing older, they do not become more). `KeepsPromise`
(`ImplementsAlerts`) puts the three together: `FireAlerts` shows that `Fire` is an alert of
`Alerts`, with the cooldown from `CooldownInv` and the room in the window from `LogInv`
(`RoomToFire`).

**`HostSettingsProofs`.** For any targets, overlapping reports and re-renderings: `TypeCorrect`,
`ChoicesKept` (`SettingsKept`), `ListsFollowRows` (`ListsRendered`), `AdoptionComplete`
(`AdoptionKeepsAll`), `RevisionsAgree` (`AgentInStep`). The writers of `cfg` are of two kinds,
under the lock (`LockedWrites`) and not (`WritesBack`), and every other step leaves it alone;
`ListsRendered` is strengthened by who still owes a rendering while the list does not follow the
rows (`WriterUnderWay`), adoption by `AdoptInv` (what it declared is in a row, still to be added,
or gone). `RevisionsAgree` needs `FollowInv`: agent, saved file and every reply on its way hold
the list of the revision they name, the file is not ahead of the agent nor the agent of a reply,
and the agent waits for one reply at a time, so that what it gave up does not reach it. Every
write of the settings makes a new revision (`Revises`).

**`BackupProofs`.** For any number of runs, troubles and seeds: `TypeCorrect`,
`NeverFalselyGreen` (`GreenIsTrue`), `SuccessComplete` (`SuccessIsWhole`),
`SuccessCarriedOver` (`LastKept`), `EndsAreShown` (`NotLeftRunning`), `LateStopsHarmless`
(`LateStopHarmless`). `RunInv` says what is known of the run at each line (its dict is its
own, its snapshot safe from the check on, what it lacks noticed), `FileInv` that a status is
the truth in every place it can wait: file, temporary file, dict, stamp, the seed's time.

**`SelfUpdateProofs`, `DeployProofs`.** For any history of the code, any deploys, failures,
kills, crashes: `TypeCorrect`, `HostsHoldReleases` (`OnlyReleases`), `VersionsRise`
(`NeverBack`), `WayBackKept` (`WayBack`). `ReleaseInv` follows a signature from the signer
through commit, copy, `agent/` and offer: each is genuine wherever it waits, and each body in
`agent/` and in a rollback copy is of code a hub was healthy on or an upgrade copied. `VersionInv`
is that the file on disk is not older than the process. `WayInv` says that every copy is what it
says unless it was taken while that was not sure (`Honest`), and at each step of a deploy, a
rollback or an upgrade which of `srv`, `current` and the copy in the making agree (`SnapInv`,
`ServerInv`); `ForwardWay`, `AgentWay`, `BackWay` and `UpgradeWay` are its steps.

Every invariant and action property of the runs, and both refinements, are stated by a
theorem. Only model-checked are the liveness properties (`CommandsEnd`, `WaitersStart`,
`DrainReturns`, `CatchesUp`, `UnattendedShows`, `HostGone`, `EndShown`, `CancelStops`,
`CancelSettles`, `QueuedTaken`, `HeldGoesOut`, `AgentFollows`, `FleetFollows`): fairness and
`ENABLED` are out of the prover's reach.

## 6. What is not modelled

`PROJECT.json` names each part with its reason.

* Rollup and history: one transaction in one process, whose difficulty is arithmetic on
  timestamps at the edge of a minute. A module that counts samples around the redone window
  would be worth having; it would share no state with the others.
* The GPU stall rule: a function of the history of one host and of when its job was first
  seen active, kept in memory (a restart of the hub starts the ten minutes anew). It has no
  second actor, and nothing depends on it but the list of checks.
* In modules that exist: `job_ack`; changes of cooldown and cap; two deploys at once, which
  share `rollback.new` and `current`; commits of the same second, whose files share a
  modification time; signatures of the first format; which fields of a report count as text.
* Authentication and origin checks (decisions about one request over strings, without state),
  the dashboard's rendering, collectors and installers (I/O), results and preferences (single
  statements).

## 7. Running

In this directory: `tlc -config <cfg> <module>` with the pairs listed under `runs`, and
`tlapm <module>.tla` for `AvmQueueProofs`, `TaskLifeProofs`, `ClaudeJobsProofs`,
`CheckResponderProofs`, `HostSettingsProofs`, `BackupProofs`, `SelfUpdateProofs` and
`DeployProofs`.
