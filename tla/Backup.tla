------------------------------- MODULE Backup -------------------------------
(***************************************************************************)
(* The nightly backup and the status file by which the dashboard judges it *)
(* (deploy/backup/restic-backup.py): a run under systemd, `--seed` called  *)
(* by the installer or by hand beside it, stop signals, SIGKILL, errors    *)
(* and writes that fail.  Both write the file through one temporary file.  *)
(*                                                                         *)
(* A time is the number of the run it belongs to; 0 stands for a snapshot  *)
(* older than this runner.  restic's work is a choice of its outcomes.     *)
(* Left out: the figures and texts of the status, and that the temporary   *)
(* file itself is written in pieces.                                       *)
(***************************************************************************)
EXTENDS Integers

CONSTANTS
    MaxRun,     \* bound: runs started
    MaxTrouble, \* bound: signals, kills, errors and failed writes
    MaxSeed     \* bound: calls of --seed

ASSUME BackupAssumption == MaxRun \in Nat /\ MaxTrouble \in Nat /\ MaxSeed \in Nat

Run   == 1..MaxRun
Never == -1
Time  == {Never, 0} \cup Run
Gap   == {"paths", "files", "sqlite"}   \* what a snapshot may lack

VARIABLES
    status, tmp,      \* status.json and status.json.tmp
    stamp,            \* the success stamp file
    snaps, lacks,     \* snapshots in the repository, and what each run's lacks
    run,              \* the last run started
    at,               \* where it is
    in,               \* who called fail(): the body, an except or the finally
    sig,              \* what its stop signals do
    mem,              \* its dict `status`
    told,             \* the problems it has noticed
    seeding, latest,  \* --seed: where it is, the snapshot it takes
    \* history:
    safe,             \* runs whose snapshot was saved, pruned and checked
    hurt,             \* what happened to the run
    guessed,          \* times --seed took from a snapshot
    trouble, seeds

files  == <<status, tmp, stamp>>
repo   == <<snaps, lacks, safe>>
runner == <<run, at, in, sig, mem, told, hurt>>
seeder == <<seeding, latest, guessed, seeds>>
vars   == <<files, repo, runner, seeder, trouble>>

-----------------------------------------------------------------------------
Status == [state : {"absent", "torn", "running", "ok", "partial", "failed"},
           run : Time, last : Time, seeded : BOOLEAN]
Absent == [state |-> "absent", run |-> Never, last |-> Never, seeded |-> FALSE]
Torn   == [Absent EXCEPT !.state = "torn"]

\* What read_status makes of a file: nothing, unless it holds an object.
Read(f) == IF f = Torn THEN Absent ELSE f

Failing == {"fail", "failing", "failing2"}
Body    == {"announce", "announce2", "copy", "backup", "forget", "check", "saved",
            "stats", "ending", "final", "final2", "stamp"}

TypeOK ==
    /\ status \in Status /\ tmp \in Status
    /\ stamp \in Time
    /\ snaps \in SUBSET Time /\ Never \notin snaps
    /\ lacks \in [Run -> SUBSET Gap]
    /\ run \in Nat /\ run <= MaxRun
    /\ at \in {"off", "loaded"} \cup Body \cup Failing
    /\ in \in {"body", "stopped", "crashed", "finally"}
    /\ sig \in {"default", "armed", "ignored"}
    /\ mem \in Status
    /\ told \in SUBSET Gap
    /\ seeding \in {"off", "list", "when", "write", "replace"}
    /\ latest \in Time
    /\ safe \in SUBSET Run
    /\ hurt \in SUBSET {"kill", "write", "crash", "stop", "late"}
    /\ guessed \in SUBSET Time
    /\ trouble \in Nat /\ seeds \in Nat
    /\ at \in Body => sig # "default"

Init ==
    /\ status = Absent /\ tmp = Absent /\ stamp = Never
    /\ snaps \in {{}, {0}}
    /\ lacks = [r \in Run |-> {}]
    /\ run = 0 /\ at = "off" /\ in = "body" /\ sig = "default" /\ mem = Absent
    /\ told = {} /\ hurt = {}
    /\ seeding = "off" /\ latest = Never
    /\ safe = {} /\ guessed = {}
    /\ trouble = 0 /\ seeds = 0

Trouble == trouble < MaxTrouble /\ trouble' = trouble + 1

-----------------------------------------------------------------------------
(* Where an exception takes the run: out of the body to the except clause  *)
(* for it, out of an except clause to the finally, which reports the run   *)
(* only while its dict still says "running", and out of that to the end.   *)

Unwind(except) ==
    CASE at \in Body \/ in = "body" -> /\ at' = "fail" /\ in' = except
      [] at \in Failing /\ in \in {"stopped", "crashed"} /\ mem.state = "running"
                                    -> /\ at' = "fail" /\ in' = "finally"
      [] OTHER                      -> /\ at' = "off" /\ in' = in

\* An exception of the run's own: restic is not there, the output is closed
\* (the except clause prints, too), the repository cannot be measured.
Crash ==
    /\ at \in {"copy", "backup", "forget", "check", "stats"} \/ (at = "fail" /\ in = "crashed")
    /\ Trouble
    /\ Unwind("crashed")
    /\ hurt' = hurt \cup {"crash"}
    /\ UNCHANGED <<files, repo, run, sig, mem, told, seeder>>

\* Mutation: later signals are not ignored.
Stop_Twice ==
    /\ at # "off" /\ Trouble
    /\ hurt' = hurt \cup {"stop"}
    /\ CASE sig = "default" -> at' = "off" /\ in' = in
         [] sig = "ignored" -> UNCHANGED <<at, in>>
         [] at = "stats"    -> at' = "ending" /\ in' = in
         [] OTHER           -> Unwind("stopped")
    /\ UNCHANGED <<files, repo, run, sig, mem, told, seeder>>

\* SIGTERM, SIGINT or SIGHUP: the first one wins, the statistics are cut
\* short by it, and before the handlers are in place it just ends the run.
Stop ==
    /\ at # "off" /\ Trouble
    /\ hurt' = hurt \cup (IF sig = "ignored" THEN {} ELSE {"stop"})
                    \cup (IF at \in {"stats", "final", "final2", "stamp"} THEN {"late"} ELSE {})
    /\ sig' = IF sig = "armed" THEN "ignored" ELSE sig
    /\ CASE sig = "default" -> at' = "off" /\ in' = in
         [] sig = "ignored" -> UNCHANGED <<at, in>>
         [] at = "stats"    -> at' = "ending" /\ in' = in
         [] OTHER           -> Unwind("stopped")
    /\ UNCHANGED <<files, repo, run, mem, told, seeder>>

\* SIGKILL or power loss.
Kill ==
    /\ at # "off" /\ Trouble
    /\ at' = "off" /\ hurt' = hurt \cup {"kill"}
    /\ UNCHANGED <<files, repo, run, in, sig, mem, told, seeder>>

-----------------------------------------------------------------------------
(* write_json, for the run: write the temporary file, put it in place. *)

Write ==
    /\ at \in {"announce", "failing", "final"}
    /\ tmp' = mem
    /\ at' = CASE at = "announce" -> "announce2" [] at = "failing" -> "failing2" [] OTHER -> "final2"
    /\ UNCHANGED <<status, stamp, repo, run, in, sig, mem, told, hurt, seeder, trouble>>

Replace ==
    /\ at \in {"announce2", "failing2", "final2"} /\ tmp # Absent
    /\ status' = tmp /\ tmp' = Absent
    /\ at' = CASE at = "announce2" -> "copy" [] at = "failing2" -> "off" [] OTHER -> "stamp"
    /\ UNCHANGED <<stamp, repo, run, in, sig, mem, told, hurt, seeder, trouble>>

\* The disk is full, or --seed has put the temporary file in place already.
WriteFails ==
    /\ \/ /\ at \in {"announce", "failing", "final", "stamp"} /\ Trouble
          /\ tmp' \in (IF at = "stamp" THEN {tmp} ELSE {tmp, Torn, mem})
       \/ /\ at \in {"announce2", "failing2", "final2"} /\ tmp = Absent
          /\ UNCHANGED <<tmp, trouble>>
    /\ Unwind("crashed")
    /\ hurt' = hurt \cup {"write"}
    /\ UNCHANGED <<status, stamp, repo, run, sig, mem, told, seeder>>

-----------------------------------------------------------------------------
(* The run. *)

\* The new dict has the last run's last_success, and no "seeded".
Start ==
    /\ at = "off" /\ run < MaxRun
    /\ run' = run + 1
    /\ mem' = [state |-> "running", run |-> run + 1, last |-> Read(status).last, seeded |-> FALSE]
    /\ at' = "loaded" /\ in' = "body" /\ sig' = "default"
    /\ told' = {} /\ hurt' = {}
    /\ UNCHANGED <<files, repo, seeder, trouble>>

Arm ==
    /\ at = "loaded"
    /\ at' = "announce" /\ sig' = "armed"
    /\ UNCHANGED <<files, repo, run, in, mem, told, hurt, seeder, trouble>>

\* The body reports a failure itself.
Give == at' = "fail" /\ in' = "body"

\* The target is not mounted; otherwise the databases are copied.
Copy ==
    /\ at = "copy"
    /\ \/ Give /\ told' = told
       \/ at' = "backup" /\ in' = in /\ told' \in {{}, {"sqlite"}}
    /\ UNCHANGED <<files, repo, run, sig, mem, hurt, seeder, trouble>>

\* Mutation: only what restic named counts.
Noticed_Named(rc, named) == told \cup named

\* What makes the run "partial": all that restic named, or its exit code 3.
Noticed(rc, named) ==
    told \cup named \cup (IF rc = 3 /\ told \cup named = {} THEN {"files"} ELSE {})

\* restic skips what it cannot read; it names a missing path, but may tell of
\* unreadable files by its exit code only.
Snapshot ==
    \E rc \in {0, 3}, missed, named \in SUBSET {"paths", "files"} :
        /\ rc = 3 => missed # {}
        /\ named \subseteq missed /\ (rc = 0 => named = missed)
        /\ "paths" \in missed => "paths" \in named
        /\ snaps' = snaps \cup {run}
        /\ lacks' = [lacks EXCEPT ![run] = missed \cup told]
        /\ told' = Noticed(rc, named)
        /\ at' = "forget" /\ in' = in

BackUp ==
    /\ at = "backup"
    /\ \/ Give /\ UNCHANGED <<snaps, lacks, told>>
       \/ Snapshot
    /\ UNCHANGED <<files, safe, run, sig, mem, hurt, seeder, trouble>>

Forget ==
    /\ at = "forget"
    /\ \/ Give
       \/ at' = "check" /\ in' = in
    /\ UNCHANGED <<files, repo, run, sig, mem, told, hurt, seeder, trouble>>

\* On one day of the week; on the others the run just goes on.
Check ==
    /\ at = "check"
    /\ \/ Give /\ safe' = safe
       \/ at' = "saved" /\ in' = in /\ safe' = safe \cup {run}
    /\ UNCHANGED <<files, snaps, lacks, run, sig, mem, told, hurt, seeder, trouble>>

\* The statistics, in a try of their own.
Measure ==
    /\ \/ at = "saved" /\ at' = "stats"
       \/ at = "stats" /\ at' = "ending"
    /\ UNCHANGED <<files, repo, run, in, sig, mem, told, hurt, seeder, trouble>>

\* Mutation: every saved snapshot counts as a success.
Complete_Always == TRUE

Complete == "paths" \notin told

\* Mutation: the stop signals still interrupt the last writes.
Conclude_Armed ==
    /\ at = "ending"
    /\ sig' = sig /\ at' = "final"
    /\ mem' = [mem EXCEPT !.state = IF told = {} THEN "ok" ELSE "partial",
                          !.last = IF Complete THEN run ELSE @]
    /\ UNCHANGED <<files, repo, run, in, told, hurt, seeder, trouble>>

\* Mutation: a run that lacks a path takes the last success back.
Conclude_Resets ==
    /\ at = "ending"
    /\ sig' = "ignored" /\ at' = "final"
    /\ mem' = [mem EXCEPT !.state = IF told = {} THEN "ok" ELSE "partial",
                          !.last = IF Complete THEN run ELSE Never]
    /\ UNCHANGED <<files, repo, run, in, told, hurt, seeder, trouble>>

Conclude ==
    /\ at = "ending"
    /\ sig' = "ignored" /\ at' = "final"
    /\ mem' = [mem EXCEPT !.state = IF told = {} THEN "ok" ELSE "partial",
                          !.last = IF Complete THEN run ELSE @]
    /\ UNCHANGED <<files, repo, run, in, told, hurt, seeder, trouble>>

Stamp ==
    /\ at = "stamp"
    /\ at' = "off" /\ stamp' = IF Complete THEN run ELSE stamp
    /\ UNCHANGED <<status, tmp, repo, run, in, sig, mem, told, hurt, seeder, trouble>>

\* fail() up to its write.
Fail ==
    /\ at = "fail"
    /\ mem' = [mem EXCEPT !.state = "failed"] /\ at' = "failing"
    /\ UNCHANGED <<files, repo, run, in, sig, told, hurt, seeder, trouble>>

-----------------------------------------------------------------------------
(* --seed: the status from the repository's latest snapshot. *)

Real(f) == Read(f).state # "absent" /\ ~f.seeded

SeedStart(force) ==
    /\ seeding = "off" /\ seeds < MaxSeed
    /\ seeds' = seeds + 1
    /\ seeding' = IF Real(status) /\ ~force THEN "off" ELSE "list"
    /\ UNCHANGED <<files, repo, runner, latest, guessed, trouble>>

SeedList ==
    /\ seeding = "list"
    /\ \E newest \in snaps : (\A s \in snaps : s <= newest) /\ latest' = newest
    /\ seeding' = "when"
    /\ UNCHANGED <<files, repo, runner, guessed, seeds, trouble>>

\* When it was: the stamp's time, if there is one.
SeedWhen ==
    /\ seeding = "when"
    /\ seeding' = "write"
    /\ latest' = IF stamp # Never THEN stamp ELSE latest
    /\ guessed' = IF stamp # Never THEN guessed ELSE guessed \cup {latest}
    /\ UNCHANGED <<files, repo, runner, seeds, trouble>>

Seeded(when) == [state |-> "ok", run |-> Never, last |-> when, seeded |-> TRUE]

SeedWrite ==
    /\ seeding = "write"
    /\ seeding' = "replace" /\ latest' = Never
    /\ tmp' = Seeded(latest)
    /\ UNCHANGED <<status, stamp, repo, runner, guessed, seeds, trouble>>

SeedReplace ==
    /\ seeding = "replace" /\ tmp # Absent
    /\ seeding' = "off"
    /\ tmp' = Absent /\ status' = tmp
    /\ UNCHANGED <<stamp, repo, runner, latest, guessed, seeds, trouble>>

\* The repository cannot be read, the call is killed, the write fails, or the
\* run has put the temporary file in place.
SeedFails ==
    /\ seeding # "off"
    /\ seeding' = "off" /\ latest' = Never
    /\ tmp' \in {tmp} \cup (IF seeding = "write" THEN {Torn} ELSE {})
    /\ UNCHANGED <<status, stamp, repo, runner, guessed, seeds, trouble>>

Next ==
    \/ Start \/ Arm \/ Write \/ Replace \/ WriteFails
    \/ Copy \/ BackUp \/ Forget \/ Check \/ Measure \/ Conclude \/ Stamp \/ Fail
    \/ Crash \/ Stop \/ Kill
    \/ \E force \in BOOLEAN : SeedStart(force)
    \/ SeedList \/ SeedWhen \/ SeedWrite \/ SeedReplace \/ SeedFails

Spec == Init /\ [][Next]_vars

-----------------------------------------------------------------------------
\* A status that says "ok" or "partial" and was not seeded is the truth: the
\* run's snapshot was saved, pruned and checked, and "ok" that it lacks
\* nothing - whatever signals, errors and seeds came in between (backup()).
GreenIsTrue ==
    \A f \in {status, tmp} : f.state \in {"ok", "partial"} /\ ~f.seeded =>
        f.run \in safe /\ (f.state = "ok" => lacks[f.run] = {})

\* last_success and the stamp only ever name a run whose snapshot has every
\* source path, unless --seed had only a snapshot's date to go by.
SuccessIsWhole ==
    \A t \in {status.last, stamp} \ {Never} :
        t \in guessed \/ (t \in safe /\ "paths" \notin lacks[t])

\* Without --seed, last_success never goes back: not by a run that fails, is
\* killed, lacks a path or cannot write (main() carries it over).
LastKept == [][seeds = 0 => status'.last >= status.last]_vars

\* A run that ends by itself does not leave "running" behind, unless a write
\* failed or a stop came while fail() reported an error (main()'s except and
\* finally clauses).
NotLeftRunning ==
    at = "off" /\ status.state = "running" /\ status.run = run =>
        hurt \cap {"kill", "write"} # {} \/ {"crash", "stop"} \subseteq hurt

\* A stop that comes while the statistics are taken, or later, does not make
\* a failed run of a saved one.
LateStopHarmless ==
    "late" \in hurt /\ status.run = run /\ status.state = "failed" =>
        hurt \cap {"crash", "write"} # {}
=============================================================================
