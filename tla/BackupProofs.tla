---------------------------- MODULE BackupProofs ----------------------------
(***************************************************************************)
(* Theorems about Backup for any number of runs, signals, kills, errors,   *)
(* failed writes and calls of --seed.                                      *)
(***************************************************************************)
EXTENDS Backup, TLAPS

States == {"absent", "torn", "running", "ok", "partial", "failed"}
Hurts  == {"kill", "write", "crash", "stop", "late"}

LEMMA Times ==
    /\ Never \in Time /\ Never \notin Run /\ 0 \in Time
    /\ Run \subseteq Time /\ Run \subseteq Nat
    /\ \A t \in Time : t \in Int
BY BackupAssumption DEF Time, Run, Never

LEMMA Files ==
    /\ Absent \in Status /\ Torn \in Status
    /\ Absent.state = "absent" /\ Absent.last = Never /\ Absent.run = Never
    /\ Torn.state = "torn" /\ Torn.last = Never /\ Torn.run = Never
    /\ \A f \in Status : Read(f) \in Status /\ Read(f).last \in {f.last, Never}
    /\ \A when \in Time : Seeded(when) \in Status
BY Times DEF Absent, Torn, Status, Read, Seeded

-----------------------------------------------------------------------------
(* Types. *)

\* Where an exception leads.
LEMMA Unwinding ==
    ASSUME NEW except \in {"stopped", "crashed"}, Unwind(except)
    PROVE  \/ at' = "fail" /\ in' = except /\ (at \in Body \/ in = "body")
           \/ /\ at' = "fail" /\ in' = "finally" /\ at \in Failing
              /\ in \in {"stopped", "crashed"} /\ mem.state = "running"
           \/ /\ at' = "off" /\ in' = in /\ at \notin Body /\ in # "body"
              /\ ~(at \in Failing /\ in \in {"stopped", "crashed"} /\ mem.state = "running")
BY DEF Unwind

LEMMA Unwinds ==
    ASSUME NEW except \in {"stopped", "crashed"}, Unwind(except), TypeOK
    PROVE  at' \in {"fail", "off"} /\ in' \in {"body", "stopped", "crashed", "finally"}
BY Unwinding DEF TypeOK

LEMMA InitType == Init => TypeOK
<1> SUFFICES ASSUME Init PROVE TypeOK
  OBVIOUS
<1>1. /\ status \in Status /\ tmp \in Status /\ mem \in Status
      /\ stamp \in Time /\ latest \in Time
  BY Files, Times DEF Init
<1>2. snaps \in SUBSET Time /\ Never \notin snaps
  BY Times DEF Init, Never
<1>3. run \in Nat /\ run <= MaxRun
  BY BackupAssumption DEF Init
<1>4. lacks \in [Run -> SUBSET Gap]
  BY DEF Init
<1>5. QED
  BY <1>1, <1>2, <1>3, <1>4 DEF Init, TypeOK, Body

LEMMA ExitType == TypeOK /\ (Crash \/ Stop \/ Kill) => TypeOK'
<1> SUFFICES ASSUME TypeOK, Crash \/ Stop \/ Kill PROVE TypeOK'
  OBVIOUS
<1> USE DEF files, repo, seeder
<1>1. /\ UNCHANGED <<files, repo, run, mem, told, seeder>>
      /\ trouble' \in Nat
      /\ hurt' \in SUBSET Hurts
      /\ in' \in {"body", "stopped", "crashed", "finally"}
      /\ at' \in {"off", "loaded"} \cup Body \cup Failing
      /\ sig' \in {"default", "armed", "ignored"}
      /\ at' \in Body => sig' # "default"
  <2>1. CASE Crash
    <3>1. at' \in {"fail", "off"} /\ in' \in {"body", "stopped", "crashed", "finally"}
      BY <2>1, Unwinds DEF Crash
    <3>2. trouble' \in Nat /\ hurt' \in SUBSET Hurts
      BY <2>1 DEF Crash, Trouble, TypeOK, Hurts
    <3>3. QED
      BY <2>1, <3>1, <3>2 DEF Crash, TypeOK, Failing, Body
  <2>2. CASE Kill
    BY <2>2 DEF Kill, Trouble, TypeOK, Hurts, Body
  <2>3. CASE Stop
    <3>1. trouble' \in Nat /\ hurt' \in SUBSET Hurts
      BY <2>3 DEF Stop, Trouble, TypeOK, Hurts
    <3>2. CASE Unwind("stopped")
      BY <2>3, <3>1, <3>2, Unwinds DEF Stop, TypeOK, Failing, Body
    <3>3. QED
      BY <2>3, <3>1, <3>2 DEF Stop, TypeOK, Body
  <2>4. QED
    BY <2>1, <2>2, <2>3
<1>2. QED
  BY <1>1 DEF TypeOK, Hurts

LEMMA WriteType == TypeOK /\ (Write \/ Replace \/ WriteFails) => TypeOK'
<1> SUFFICES ASSUME TypeOK, Write \/ Replace \/ WriteFails PROVE TypeOK'
  OBVIOUS
<1> USE DEF repo, seeder
<1>1. /\ UNCHANGED <<stamp, repo, run, sig, mem, told, seeder>>
      /\ status' \in Status /\ tmp' \in Status
      /\ trouble' \in Nat
      /\ hurt' \in SUBSET Hurts
      /\ in' \in {"body", "stopped", "crashed", "finally"}
      /\ at' \in {"off", "loaded"} \cup Body \cup Failing
      /\ at' \in Body => sig # "default"
  <2>1. CASE Write
    BY <2>1 DEF Write, TypeOK, Hurts, Failing, Body
  <2>2. CASE Replace
    BY <2>2, Files DEF Replace, TypeOK, Hurts, Failing, Body
  <2>3. CASE WriteFails
    <3>1. at' \in {"fail", "off"} /\ in' \in {"body", "stopped", "crashed", "finally"}
      BY <2>3, Unwinds DEF WriteFails
    <3>2. trouble' \in Nat /\ hurt' \in SUBSET Hurts
      BY <2>3 DEF WriteFails, Trouble, TypeOK, Hurts
    <3>3. tmp' \in Status
      BY <2>3, Files DEF WriteFails, TypeOK
    <3>4. QED
      BY <2>3, <3>1, <3>2, <3>3 DEF WriteFails, TypeOK, Failing, Body
  <2>4. QED
    BY <2>1, <2>2, <2>3
<1>2. QED
  BY <1>1 DEF TypeOK, Hurts

LEMMA RunType == TypeOK /\ (at = "off" \/ run \in Run) =>
    (Start \/ Arm \/ Copy \/ BackUp \/ Forget \/ Check \/ Measure \/ Conclude \/ Stamp \/ Fail
       => TypeOK')
<1> SUFFICES ASSUME TypeOK, at = "off" \/ run \in Run PROVE
       Start \/ Arm \/ Copy \/ BackUp \/ Forget \/ Check \/ Measure \/ Conclude \/ Stamp \/ Fail
         => TypeOK'
  OBVIOUS
<1> USE DEF files, repo, seeder
<1>1. CASE Start
  <2>1. run + 1 \in Time /\ run' \in Nat /\ run' <= MaxRun
    BY <1>1, BackupAssumption DEF Start, TypeOK, Time, Run
  <2>2. Read(status).last \in Time
    BY Files DEF TypeOK, Status
  <2>3. mem' \in Status
    BY <1>1, <2>1, <2>2 DEF Start, Status
  <2>4. QED
    BY <1>1, <2>1, <2>3 DEF Start, TypeOK, Body
<1>2. CASE Arm \/ Copy \/ Forget \/ Measure
  BY <1>2 DEF Arm, Copy, Forget, Measure, Give, TypeOK, Gap, Failing, Body
<1>3. CASE BackUp
  <2>1. run \in Run /\ run \in Time /\ run # Never
    BY <1>3, Times DEF BackUp
  <2>2. lacks' \in [Run -> SUBSET Gap] /\ told' \in SUBSET Gap
    <3>1. CASE UNCHANGED <<lacks, told>>
      BY <3>1 DEF TypeOK
    <3>2. CASE Snapshot
      <4>1. PICK rc \in {0, 3}, missed \in SUBSET {"paths", "files"},
                 named \in SUBSET {"paths", "files"} :
              /\ lacks' = [lacks EXCEPT ![run] = missed \cup told]
              /\ told' = Noticed(rc, named)
        BY <3>2 DEF Snapshot
      <4>2. missed \cup told \in SUBSET Gap
        BY DEF TypeOK, Gap
      <4>3. told' \in SUBSET Gap
        BY <4>1 DEF Noticed, TypeOK, Gap
      <4>4. QED
        BY <4>1, <4>2, <4>3 DEF TypeOK
    <3>3. QED
      BY <1>3, <3>1, <3>2 DEF BackUp
  <2>3. snaps' \in SUBSET Time /\ Never \notin snaps'
    BY <1>3, <2>1 DEF BackUp, Snapshot, TypeOK
  <2>4. QED
    BY <1>3, <2>2, <2>3 DEF BackUp, Snapshot, Give, TypeOK, Failing, Body
<1>4. CASE Check
  BY <1>4 DEF Check, Give, TypeOK, Failing, Body
<1>5. CASE Conclude
  <2>1. run \in Time /\ mem.last \in Time
    BY <1>5, Times DEF Conclude, TypeOK, Status
  <2>2. mem' \in Status
    BY <1>5, <2>1 DEF Conclude, TypeOK, Status
  <2>3. QED
    BY <1>5, <2>2 DEF Conclude, TypeOK, Body
<1>6. CASE Stamp
  BY <1>6, Times DEF Stamp, TypeOK, Body
<1>7. CASE Fail
  <2>1. mem' \in Status
    BY <1>7 DEF Fail, TypeOK, Status
  <2>2. QED
    BY <1>7, <2>1 DEF Fail, TypeOK, Failing, Body
<1>8. QED
  BY <1>1, <1>2, <1>3, <1>4, <1>5, <1>6, <1>7

Seeding == \/ \E force \in BOOLEAN : SeedStart(force)
           \/ SeedList \/ SeedWhen \/ SeedWrite \/ SeedReplace \/ SeedFails

LEMMA SeedType == TypeOK /\ Seeding => TypeOK'
<1> SUFFICES ASSUME TypeOK, Seeding PROVE TypeOK'
  OBVIOUS
<1>1. /\ UNCHANGED <<stamp, repo, runner, trouble>>
      /\ status' \in Status /\ tmp' \in Status
      /\ seeding' \in {"off", "list", "when", "write", "replace"}
      /\ latest' \in Time
      /\ guessed' \in SUBSET Time
      /\ seeds' \in Nat
  <2>1. CASE SeedWrite
    BY <2>1, Files, Times DEF SeedWrite, TypeOK
  <2>2. CASE SeedReplace
    BY <2>2, Files DEF SeedReplace, TypeOK
  <2>3. CASE SeedFails
    BY <2>3, Files, Times DEF SeedFails, TypeOK
  <2>4. CASE SeedList \/ SeedWhen
    BY <2>4 DEF SeedList, SeedWhen, TypeOK, files
  <2>5. CASE \E force \in BOOLEAN : SeedStart(force)
    BY <2>5 DEF SeedStart, TypeOK, files
  <2>6. QED
    BY <2>1, <2>2, <2>3, <2>4, <2>5 DEF Seeding
<1>2. QED
  BY <1>1 DEF TypeOK, repo, runner

-----------------------------------------------------------------------------
(* The run: what it knows of itself wherever it is. *)

Before == {"loaded", "announce", "announce2", "copy", "backup", "forget", "check"}
After  == {"saved", "stats", "ending", "final", "final2", "stamp"}
Last   == {"final", "final2", "stamp"}

\* The dict is this run's, and says how far it is; its snapshot is safe from
\* the check on, and what it lacks has been noticed.
RunInv ==
    /\ \A r \in safe : r <= run
    /\ at # "off" => run \in Run /\ mem.run = run /\ mem.seeded = FALSE
                      /\ mem.state \in {"running", "ok", "partial", "failed"}
    /\ at \in (Before \cup After) \ Last => mem.state = "running"
    /\ at \in Last => mem.state \in {"ok", "partial"}
    /\ at \in {"failing", "failing2"} => mem.state = "failed"
    /\ at \in Before => run \notin safe
    /\ at \in After => run \in safe
    /\ at \in After \cup {"forget", "check"} =>
          /\ told = {} => lacks[run] = {}
          /\ "paths" \in lacks[run] => "paths" \in told
    /\ sig = "default" => at \in {"off", "loaded"}

\* What the steps do to the dict, field by field.
LEMMA DictStart ==
    ASSUME Start
    PROVE  /\ mem'.state = "running" /\ mem'.run = run + 1
           /\ mem'.last = Read(status).last /\ mem'.seeded = FALSE
BY Zenon DEF Start

LEMMA DictFail ==
    ASSUME TypeOK, Fail
    PROVE  /\ mem'.state = "failed" /\ mem'.run = mem.run
           /\ mem'.last = mem.last /\ mem'.seeded = mem.seeded
<1>1. mem' = [mem EXCEPT !.state = "failed"]
  BY Zenon DEF Fail
<1>2. mem \in [state : States, run : Time, last : Time, seeded : BOOLEAN]
  BY DEF TypeOK, Status, States
<1>3. QED
  BY <1>1, <1>2

LEMMA DictConclude ==
    ASSUME TypeOK, Conclude
    PROVE  /\ mem'.state = (IF told = {} THEN "ok" ELSE "partial")
           /\ mem'.last = (IF Complete THEN run ELSE mem.last)
           /\ mem'.run = mem.run /\ mem'.seeded = mem.seeded
<1>1. mem' = [mem EXCEPT !.state = IF told = {} THEN "ok" ELSE "partial",
                         !.last = IF Complete THEN run ELSE mem.last]
  BY Zenon DEF Conclude
<1>2. mem \in [state : States, run : Time, last : Time, seeded : BOOLEAN]
  BY DEF TypeOK, Status, States
<1>3. QED
  BY <1>1, <1>2

LEMMA DictSeed ==
    ASSUME SeedWrite
    PROVE  /\ tmp'.state = "ok" /\ tmp'.run = Never
           /\ tmp'.last = latest /\ tmp'.seeded = TRUE
BY Zenon DEF SeedWrite, Seeded

LEMMA BackUpNotices ==
    ASSUME TypeOK, BackUp, run \in Run
    PROVE  /\ \A r \in Run \ {run} : lacks'[r] = lacks[r]
           /\ at' \in {"fail", "forget"}
           /\ at' = "forget" => /\ told' = {} => lacks'[run] = {}
                                /\ "paths" \in lacks'[run] => "paths" \in told'
<1>1. CASE Give /\ UNCHANGED <<lacks, told>>
  BY <1>1 DEF Give
<1>2. CASE Snapshot
  <2>1. PICK rc \in {0, 3}, missed \in SUBSET {"paths", "files"},
             named \in SUBSET {"paths", "files"} :
          /\ named \subseteq missed /\ (rc = 0 => named = missed)
          /\ "paths" \in missed => "paths" \in named
          /\ lacks' = [lacks EXCEPT ![run] = missed \cup told]
          /\ told' = Noticed(rc, named)
          /\ at' = "forget"
    BY <1>2 DEF Snapshot
  <2>2. lacks'[run] = missed \cup told /\ \A r \in Run \ {run} : lacks'[r] = lacks[r]
    BY <2>1 DEF TypeOK
  <2>3. told' = {} => missed = {} /\ told = {}
    BY <2>1 DEF Noticed
  <2>4. "paths" \in missed \cup told => "paths" \in told'
    BY <2>1 DEF Noticed
  <2>5. QED
    BY <2>1, <2>2, <2>3, <2>4
<1>3. QED
  BY <1>1, <1>2 DEF BackUp

LEMMA RunStep == TypeOK /\ RunInv /\ [Next]_vars => RunInv'
<1> SUFFICES ASSUME TypeOK, RunInv, [Next]_vars PROVE RunInv'
  OBVIOUS
<1> USE DEF RunInv, Before, After, Last, repo
<1>1. CASE UNCHANGED vars \/ Seeding
  <2>1. UNCHANGED <<runner, repo>>
    BY <1>1 DEF vars, Seeding, SeedStart, SeedList, SeedWhen, SeedWrite, SeedReplace, SeedFails
  <2>2. QED
    BY <2>1 DEF runner
<1>2. CASE Crash \/ Kill
  <2>1. UNCHANGED <<repo, run, mem, told, sig>> /\ at' \in {"fail", "off"}
    BY <1>2, Unwinds DEF Crash, Kill
  <2>2. at # "off" /\ (sig = "default" => at' = "off")
    BY <1>2 DEF Crash, Kill
  <2>3. QED
    BY <2>1, <2>2
<1>3. CASE Stop
  <2>1. UNCHANGED <<repo, run, mem, told>> /\ at # "off"
    BY <1>3 DEF Stop
  <2>2. /\ sig' = "default" => sig = "default"
        /\ \/ at' = "off" \/ at' = "fail" \/ at' = at
           \/ at = "stats" /\ at' = "ending"
    BY <1>3, Unwinds DEF Stop
  <2>3. sig' = "default" => at' = "off"
    BY <1>3 DEF Stop
  <2>4. QED
    BY <2>1, <2>2, <2>3 DEF Failing
<1>4. CASE Write \/ Replace
  BY <1>4 DEF Write, Replace, Failing
<1>5. CASE WriteFails
  <2>1. UNCHANGED <<repo, run, mem, told, sig>> /\ at' \in {"fail", "off"} /\ at # "off"
    BY <1>5, Unwinds DEF WriteFails
  <2>2. sig # "default"
    BY <1>5 DEF WriteFails
  <2>3. QED
    BY <2>1, <2>2
<1>6. CASE Start
  <2>1. run + 1 \in Run /\ run + 1 \notin safe
    BY <1>6, BackupAssumption DEF Start, Run, TypeOK
  <2>2. QED
    BY <1>6, <2>1, DictStart DEF Start, TypeOK, Run
<1>7. CASE Arm \/ Copy \/ Forget \/ Check \/ Measure \/ Stamp
  BY <1>7 DEF Arm, Copy, Forget, Check, Measure, Stamp, Give, Failing, TypeOK
<1>8. CASE BackUp
  BY <1>8, BackUpNotices DEF BackUp, Failing
<1>9. CASE Conclude
  BY <1>9, DictConclude DEF Conclude
<1>10. CASE Fail
  BY <1>10, DictFail DEF Fail, Failing
<1>11. QED
  BY <1>1, <1>2, <1>3, <1>4, <1>5, <1>6, <1>7, <1>8, <1>9, <1>10 DEF Next, Seeding

-----------------------------------------------------------------------------
(* The files: what they say is true, whoever put them there. *)

Green(f) == f.state \in {"ok", "partial"} /\ f.seeded = FALSE =>
                f.run \in safe /\ (f.state = "ok" => lacks[f.run] = {})

Whole(t) == t = Never \/ t \in guessed \/ (t \in safe /\ "paths" \notin lacks[t])

\* The files, the dict that is written to them and the time that --seed found.
FileInv ==
    /\ Green(status) /\ Green(tmp) /\ Green(mem)
    /\ Whole(status.last) /\ Whole(tmp.last) /\ Whole(mem.last)
    /\ Whole(stamp)
    /\ seeding = "write" => Whole(latest)

\* Who writes what.
LEMMA Writers ==
    ASSUME TypeOK, [Next]_vars
    PROVE  /\ status' \in {status, tmp}
           /\ tmp' \in {tmp, mem, Torn, Absent} \/ SeedWrite
           /\ mem' = mem \/ Start \/ Fail \/ Conclude
           /\ stamp' = stamp \/ (at = "stamp" /\ Complete /\ stamp' = run)
<1>1. CASE UNCHANGED vars
  BY <1>1 DEF vars, files, runner
<1>2. CASE Start \/ Fail \/ Conclude
  BY <1>2 DEF Start, Fail, Conclude, files
<1>3. CASE Arm \/ Copy \/ BackUp \/ Forget \/ Check \/ Measure \/ Stamp
  BY <1>3 DEF Arm, Copy, BackUp, Forget, Check, Measure, Stamp, files
<1>4. CASE Crash \/ Stop \/ Kill
  BY <1>4 DEF Crash, Stop, Kill, files
<1>5. CASE Write \/ Replace \/ WriteFails
  BY <1>5 DEF Write, Replace, WriteFails
<1>6. CASE Seeding
  BY <1>6 DEF Seeding, SeedStart, SeedList, SeedWhen, SeedWrite, SeedReplace, SeedFails,
     files, runner
<1>7. QED
  BY <1>1, <1>2, <1>3, <1>4, <1>5, <1>6 DEF Next, Seeding

\* A safe snapshot stays what it is.
LEMMA SafeStays ==
    ASSUME TypeOK, RunInv, [Next]_vars
    PROVE  /\ safe \subseteq safe' /\ guessed \subseteq guessed'
           /\ \A r \in safe : lacks'[r] = lacks[r]
<1> USE DEF repo, seeder
<1>1. CASE BackUp
  <2>1. run \in Run /\ run \notin safe
    BY <1>1 DEF BackUp, RunInv, Before
  <2>2. safe \subseteq Run
    BY DEF TypeOK
  <2>3. QED
    BY <1>1, <2>1, <2>2, BackUpNotices DEF BackUp
<1>2. CASE Check
  BY <1>2 DEF Check
<1>3. CASE Seeding
  BY <1>3 DEF Seeding, SeedStart, SeedList, SeedWhen, SeedWrite, SeedReplace, SeedFails
<1>4. CASE UNCHANGED vars
  BY <1>4 DEF vars
<1>5. CASE Start \/ Arm \/ Copy \/ Forget \/ Measure \/ Conclude \/ Stamp \/ Fail
  BY <1>5 DEF Start, Arm, Copy, Forget, Measure, Conclude, Stamp, Fail
<1>6. CASE Crash \/ Stop \/ Kill \/ Write \/ Replace \/ WriteFails
  BY <1>6 DEF Crash, Stop, Kill, Write, Replace, WriteFails
<1>7. QED
  BY <1>1, <1>2, <1>3, <1>4, <1>5, <1>6 DEF Next, Seeding

GreenNext(f) == f.state \in {"ok", "partial"} /\ f.seeded = FALSE =>
                    f.run \in safe' /\ (f.state = "ok" => lacks'[f.run] = {})

WholeNext(t) == t = Never \/ t \in guessed' \/ (t \in safe' /\ "paths" \notin lacks'[t])

LEMMA TruthStays ==
    ASSUME TypeOK, RunInv, [Next]_vars
    PROVE  /\ \A f \in Status : Green(f) => GreenNext(f)
           /\ \A t \in Time : Whole(t) => WholeNext(t)
BY SafeStays DEF Green, GreenNext, Whole, WholeNext

LEMMA FileStep == TypeOK /\ RunInv /\ FileInv /\ [Next]_vars => FileInv'
<1> SUFFICES ASSUME TypeOK, RunInv, FileInv, [Next]_vars PROVE FileInv'
  OBVIOUS
<1>1. /\ status \in Status /\ tmp \in Status /\ mem \in Status
      /\ status.last \in Time /\ tmp.last \in Time /\ mem.last \in Time
      /\ stamp \in Time /\ latest \in Time
  BY DEF TypeOK, Status
<1>2. /\ GreenNext(status) /\ GreenNext(tmp) /\ GreenNext(mem)
      /\ WholeNext(status.last) /\ WholeNext(tmp.last) /\ WholeNext(mem.last)
      /\ WholeNext(stamp)
      /\ seeding = "write" => WholeNext(latest)
  BY <1>1, TruthStays DEF FileInv
<1>3. /\ GreenNext(Absent) /\ GreenNext(Torn) /\ WholeNext(Never)
      /\ Absent.last = Never /\ Torn.last = Never
  BY Files DEF GreenNext, WholeNext
<1>4. GreenNext(tmp') /\ WholeNext(tmp'.last)
  <2>1. CASE tmp' \in {tmp, mem, Torn, Absent}
    BY <2>1, <1>2, <1>3
  <2>2. CASE SeedWrite
    BY <2>2, <1>2, DictSeed DEF SeedWrite, GreenNext
  <2>3. QED
    BY <2>1, <2>2, Writers
<1>5. GreenNext(status') /\ WholeNext(status'.last)
  BY <1>2, Writers
<1>6. GreenNext(mem') /\ WholeNext(mem'.last)
  <2>1. CASE mem' = mem
    BY <2>1, <1>2
  <2>2. CASE Start
    BY <2>2, <1>1, <1>2, <1>3, DictStart, Files DEF GreenNext
  <2>3. CASE Fail
    BY <2>3, <1>2, DictFail DEF GreenNext
  <2>4. CASE Conclude
    <3>1. /\ run \in safe /\ safe' = safe /\ lacks' = lacks /\ mem.run = run
          /\ told = {} => lacks[run] = {}
          /\ Complete => "paths" \notin lacks[run]
      BY <2>4 DEF Conclude, repo, RunInv, After, Complete
    <3>2. QED
      BY <2>4, <3>1, <1>2, DictConclude DEF GreenNext, WholeNext
  <2>5. QED
    BY <2>1, <2>2, <2>3, <2>4, Writers
<1>7. WholeNext(stamp')
  <2>1. CASE at = "stamp" /\ Complete /\ stamp' = run
    <3>1. run \in safe /\ "paths" \notin lacks[run]
      BY <2>1 DEF RunInv, After, Complete
    <3>2. QED
      BY <2>1, <3>1, SafeStays DEF WholeNext
  <2>2. QED
    BY <2>1, <1>2, Writers
<1>8. seeding' = "write" => WholeNext(latest')
  <2>1. CASE SeedWhen
    BY <2>1, <1>2 DEF SeedWhen, WholeNext
  <2>2. CASE seeding' = seeding /\ latest' = latest
    BY <2>2, <1>2
  <2>3. CASE Seeding /\ ~SeedWhen
    BY <2>3 DEF Seeding, SeedStart, SeedList, SeedWrite, SeedReplace, SeedFails
  <2>4. Seeding \/ (seeding' = seeding /\ latest' = latest)
    <3>1. CASE UNCHANGED vars
      BY <3>1 DEF vars, seeder
    <3>2. CASE Start \/ Arm \/ Copy \/ BackUp \/ Forget \/ Check \/ Measure \/ Conclude
      BY <3>2 DEF Start, Arm, Copy, BackUp, Forget, Check, Measure, Conclude, seeder
    <3>3. CASE Stamp \/ Fail \/ Crash \/ Stop \/ Kill \/ Write \/ Replace \/ WriteFails
      BY <3>3 DEF Stamp, Fail, Crash, Stop, Kill, Write, Replace, WriteFails, seeder
    <3>4. QED
      BY <3>1, <3>2, <3>3 DEF Next, Seeding
  <2>5. QED
    BY <2>1, <2>2, <2>3, <2>4
<1>9. QED
  BY <1>4, <1>5, <1>6, <1>7, <1>8 DEF FileInv, Green, GreenNext, Whole, WholeNext

-----------------------------------------------------------------------------
(* Without --seed, the last success. *)

\* The run alone writes, and carries over the last success it has read.
SeedlessInv ==
    seeds = 0 =>
        /\ seeding = "off"
        /\ status.state # "torn" /\ status.last <= run
        /\ at \in {"announce2", "failing2", "final2"} => tmp = mem
        /\ at # "off" => status.last <= mem.last /\ mem.last <= run

LEMMA SeedlessStep ==
    TypeOK /\ RunInv /\ SeedlessInv /\ [Next]_vars =>
        SeedlessInv' /\ (seeds = 0 => status'.last >= status.last)
<1> SUFFICES ASSUME TypeOK, RunInv, SeedlessInv, [Next]_vars
             PROVE  SeedlessInv' /\ (seeds = 0 => status'.last >= status.last)
  OBVIOUS
<1> USE DEF repo, seeder, files
<1>1. /\ status \in Status /\ tmp \in Status /\ mem \in Status
      /\ status.last \in Int /\ tmp.last \in Int /\ mem.last \in Int
      /\ run \in Nat /\ seeds \in Nat
  BY Times DEF TypeOK, Status
<1>2. CASE seeds # 0
  <2>1. seeds' # 0
    <3>1. CASE \E force \in BOOLEAN : SeedStart(force)
      BY <1>1, <1>2, <3>1 DEF SeedStart
    <3>2. CASE SeedList \/ SeedWhen \/ SeedWrite \/ SeedReplace \/ SeedFails \/ UNCHANGED vars
      BY <1>2, <3>2 DEF SeedList, SeedWhen, SeedWrite, SeedReplace, SeedFails, vars
    <3>3. CASE Start \/ Arm \/ Copy \/ BackUp \/ Forget \/ Check \/ Measure \/ Conclude
      BY <1>2, <3>3 DEF Start, Arm, Copy, BackUp, Forget, Check, Measure, Conclude
    <3>4. CASE Stamp \/ Fail \/ Crash \/ Stop \/ Kill \/ Write \/ Replace \/ WriteFails
      BY <1>2, <3>4 DEF Stamp, Fail, Crash, Stop, Kill, Write, Replace, WriteFails
    <3>5. QED
      BY <3>1, <3>2, <3>3, <3>4 DEF Next
  <2>2. QED
    BY <1>2, <2>1 DEF SeedlessInv
<1>3. CASE seeds = 0
  <2> USE DEF SeedlessInv
  <2>1. CASE UNCHANGED vars
    BY <1>1, <1>3, <2>1 DEF vars, runner
  <2>2. CASE Seeding
    BY <1>1, <1>3, <2>2 DEF Seeding, SeedStart, SeedList, SeedWhen, SeedWrite, SeedReplace,
       SeedFails, runner
  <2>3. CASE Start
    <3>1. Read(status) = status
      BY <1>3, Files DEF Read
    <3>2. mem'.last = status.last
      BY <2>3, <3>1, DictStart
    <3>3. QED
      BY <1>1, <1>3, <2>3, <3>2 DEF Start
  <2>4. CASE Conclude
    BY <1>1, <1>3, <2>4, DictConclude DEF Conclude
  <2>5. CASE Fail
    BY <1>1, <1>3, <2>5, DictFail DEF Fail
  <2>6. CASE Arm \/ Copy \/ BackUp \/ Forget \/ Check \/ Measure \/ Stamp
    BY <1>1, <1>3, <2>6 DEF Arm, Copy, BackUp, Snapshot, Forget, Check, Measure, Stamp, Give
  <2>7. CASE Crash \/ Stop \/ Kill \/ WriteFails
    <3>1. UNCHANGED <<status, run, mem, seeder>> /\ at # "off"
      BY <2>7 DEF Crash, Stop, Kill, WriteFails
    <3>2. \/ at' \in {"fail", "off", "ending"}
          \/ at' = at /\ tmp' = tmp
      BY <2>7, Unwinds DEF Crash, Stop, Kill, WriteFails
    <3>3. QED
      BY <1>1, <1>3, <3>1, <3>2
  <2>8. CASE Write
    BY <1>1, <1>3, <2>8 DEF Write
  <2>9. CASE Replace
    BY <1>1, <1>3, <2>9 DEF Replace, RunInv
  <2>10. QED
    BY <2>1, <2>2, <2>3, <2>4, <2>5, <2>6, <2>7, <2>8, <2>9 DEF Next, Seeding
<1>4. QED
  BY <1>2, <1>3

-----------------------------------------------------------------------------
(* What a run leaves behind. *)

Running(f) == f.state = "running" /\ f.run = run
Failed(f)  == f.state = "failed" /\ f.run = run

Excused == hurt \cap {"kill", "write"} # {} \/ {"crash", "stop"} \subseteq hurt

\* A file that says "running" is still to be replaced, or excused; and how the
\* exceptions met each other.
LeftInv ==
    /\ status.run <= run /\ tmp.run <= run
    /\ at = "loaded" => in = "body" /\ status.run # run /\ tmp.run # run
    /\ Running(status) => Excused \/ at \notin {"off", "stamp"}
    /\ Running(tmp) => Excused \/ at \in {"announce2", "fail", "failing"}
    /\ at \in Failing /\ in = "stopped" => sig = "ignored"
    /\ at \in Failing /\ in \in {"crashed", "finally"} => hurt \cap {"crash", "write"} # {}
    /\ at = "fail" /\ in = "crashed" /\ mem.state # "running" => Excused

\* A late stop finds the signals ignored, and no "failed" of this run.
LateInv ==
    /\ at \in Body \ {"ending", "final", "final2", "stamp"} => sig = "armed"
    /\ at \in Last => sig = "ignored"
    /\ at \in Body \cup {"loaded"} => ~Failed(status) /\ ~Failed(tmp)
    /\ "late" \in hurt /\ hurt \cap {"crash", "write"} = {} =>
          /\ at \in {"ending", "final", "final2", "stamp", "off"}
          /\ at # "off" => sig = "ignored"
          /\ ~Failed(status) /\ ~Failed(tmp)

LEMMA Numbers ==
    ASSUME TypeOK
    PROVE  /\ status.run \in Int /\ tmp.run \in Int /\ mem.run \in Int /\ run \in Nat
           /\ Never = -1 /\ Absent.run = -1 /\ Torn.run = -1
           /\ Absent.state = "absent" /\ Torn.state = "torn"
BY Times, Files DEF TypeOK, Status, Never

\* The steps of the run that leave files, history and signals alone.
Plain == Copy \/ BackUp \/ Forget \/ Check \/ Measure

LEMMA PlainSteps ==
    ASSUME TypeOK, Plain
    PROVE  /\ UNCHANGED <<files, run, sig, mem, hurt, seeder>>
           /\ at \in Body \ {"announce", "announce2", "ending", "final", "final2", "stamp"}
           /\ at' \in (Body \ {"announce", "announce2", "final", "final2", "stamp"}) \cup {"fail"}
           /\ at' = "ending" => at = "stats"
           /\ at' = "fail" => in' = "body"
BY DEF Plain, Copy, BackUp, Snapshot, Forget, Check, Measure, Give, Body, TypeOK

LEMMA SeedSteps ==
    ASSUME TypeOK, Seeding
    PROVE  /\ UNCHANGED runner
           /\ status' \in {status, tmp}
           /\ tmp' \in {tmp, Absent, Torn} \/ (tmp'.state = "ok" /\ tmp'.run = Never)
<1>1. CASE SeedWrite
  BY <1>1, DictSeed DEF SeedWrite
<1>2. CASE Seeding /\ ~SeedWrite
  BY <1>2 DEF Seeding, SeedStart, SeedList, SeedWhen, SeedReplace, SeedFails, files
<1>3. QED
  BY <1>1, <1>2

LEMMA LeftStep == TypeOK /\ RunInv /\ LeftInv /\ [Next]_vars => LeftInv'
<1> SUFFICES ASSUME TypeOK, RunInv, LeftInv, [Next]_vars PROVE LeftInv'
  OBVIOUS
<1> USE Numbers DEF LeftInv, Running, Excused, files
<1>1. CASE UNCHANGED vars
  BY <1>1 DEF vars, runner
<1>2. CASE Seeding
  <2>1. UNCHANGED <<run, at, in, sig, mem, hurt>>
    BY <1>2, SeedSteps DEF runner
  <2>2. /\ status'.run <= run /\ tmp'.run <= run
        /\ Running(tmp)' => Running(tmp)
        /\ Running(status)' => Running(status) \/ Running(tmp)
        /\ at = "loaded" => status'.run # run /\ tmp'.run # run
    BY <1>2, <2>1, SeedSteps DEF RunInv
  <2>3. QED
    BY <2>1, <2>2
<1>3. CASE Start
  BY <1>3, DictStart DEF Start
<1>4. CASE Conclude
  BY <1>4, DictConclude DEF Conclude, Failing
<1>5. CASE Fail
  BY <1>5, DictFail DEF Fail, Failing
<1>6. CASE Plain
  BY <1>6, PlainSteps DEF Failing, Body
<1>7. CASE Arm \/ Stamp
  BY <1>7 DEF Arm, Stamp, Failing
<1>8. CASE Write
  BY <1>8 DEF Write, Failing, RunInv, Before, After, Last
<1>9. CASE Replace
  BY <1>9 DEF Replace, Failing
<1>10. CASE WriteFails
  <2>1. /\ UNCHANGED <<status, run, sig, mem>> /\ hurt' = hurt \cup {"write"}
        /\ tmp' \in {tmp, Torn, mem}
        /\ at # "off" /\ at # "loaded"
    BY <1>10 DEF WriteFails
  <2>2. at' \in {"fail", "off"} /\ (at' = "fail" => in' # "stopped")
    BY <1>10, Unwinding DEF WriteFails
  <2>3. mem.run = run
    BY <2>1 DEF RunInv
  <2>4. QED
    BY <2>1, <2>2, <2>3 DEF Failing
<1>11. CASE Kill
  BY <1>11 DEF Kill, Failing
<1>12. CASE Crash
  <2>1. /\ UNCHANGED <<status, tmp, run, sig, mem>> /\ hurt' = hurt \cup {"crash"}
        /\ at \in {"copy", "backup", "forget", "check", "stats"} \/ (at = "fail" /\ in = "crashed")
    BY <1>12 DEF Crash
  <2>2. CASE at' = "fail" /\ in' = "crashed" /\ (at \in Body \/ in = "body")
    BY <2>1, <2>2 DEF RunInv, Before, After, Last, Failing, Body
  <2>3. CASE at' = "fail" /\ in' = "finally"
    BY <2>1, <2>3 DEF Failing
  <2>4. CASE /\ at' = "off" /\ in' = in /\ at \notin Body /\ in # "body"
             /\ ~(at \in Failing /\ in \in {"stopped", "crashed"} /\ mem.state = "running")
    BY <2>1, <2>4 DEF Failing, Body
  <2>5. QED
    BY <1>12, <2>2, <2>3, <2>4, Unwinding DEF Crash
<1>13. CASE Stop
  <2>1. /\ UNCHANGED <<status, tmp, run, mem>> /\ hurt \subseteq hurt' /\ at # "off"
        /\ sig # "ignored" => "stop" \in hurt'
        /\ sig = "armed" => sig' = "ignored"
        /\ sig # "armed" => sig' = sig
    BY <1>13 DEF Stop, TypeOK
  <2>2. CASE sig = "default" /\ at' = "off" /\ in' = in
    BY <2>1, <2>2 DEF RunInv, Failing
  <2>3. CASE sig = "ignored" /\ UNCHANGED <<at, in>>
    BY <2>1, <2>3
  <2>4. CASE at = "stats" /\ at' = "ending"
    BY <2>1, <2>4 DEF Failing
  <2>5. CASE sig = "armed" /\ Unwind("stopped")
    <3>1. CASE at' = "fail" /\ in' = "stopped" /\ (at \in Body \/ in = "body")
      BY <2>1, <2>5, <3>1 DEF Failing
    <3>2. CASE /\ at' = "fail" /\ in' = "finally" /\ at \in Failing
               /\ in \in {"stopped", "crashed"}
      BY <2>1, <2>5, <3>2 DEF Failing
    <3>3. CASE /\ at' = "off" /\ in' = in /\ at \notin Body /\ in # "body"
      <4>1. at \in Failing /\ in \in {"stopped", "crashed", "finally"}
        BY <2>1, <3>3 DEF TypeOK
      <4>2. hurt \cap {"crash", "write"} # {} /\ "stop" \in hurt'
        BY <2>1, <2>5, <4>1
      <4>3. Excused'
        BY <2>1, <4>2
      <4>4. QED
        BY <2>1, <3>3, <4>3 DEF Failing
    <3>4. QED
      BY <2>5, <3>1, <3>2, <3>3, Unwinding
  <2>6. QED
    BY <1>13, <2>2, <2>3, <2>4, <2>5 DEF Stop, TypeOK
<1>14. QED
  BY <1>1, <1>2, <1>3, <1>4, <1>5, <1>6, <1>7, <1>8, <1>9, <1>10, <1>11, <1>12, <1>13
     DEF Next, Seeding, Plain

LEMMA LateStep == TypeOK /\ RunInv /\ LeftInv /\ LateInv /\ [Next]_vars => LateInv'
<1> SUFFICES ASSUME TypeOK, RunInv, LeftInv, LateInv, [Next]_vars PROVE LateInv'
  OBVIOUS
<1> USE Numbers DEF LateInv, Last, Failed, files
<1>1. CASE UNCHANGED vars
  BY <1>1 DEF vars, runner
<1>2. CASE Seeding
  <2>1. UNCHANGED <<run, at, in, sig, mem, hurt>>
    BY <1>2, SeedSteps DEF runner
  <2>2. /\ Failed(tmp)' => Failed(tmp)
        /\ Failed(status)' => Failed(status) \/ Failed(tmp)
    BY <1>2, <2>1, SeedSteps
  <2>3. QED
    BY <2>1, <2>2
<1>6. CASE Plain
  BY <1>6, PlainSteps DEF Body
<1>7. CASE Arm \/ Stamp \/ Conclude \/ Fail
  BY <1>7 DEF Arm, Stamp, Conclude, Fail, Body
<1>8. CASE Write
  BY <1>8 DEF Write, Body, RunInv, Before, After
<1>9. CASE Replace
  BY <1>9 DEF Replace, Body
<1>10. CASE WriteFails \/ Crash
  <2>1. hurt' \cap {"crash", "write"} # {}
    BY <1>10 DEF WriteFails, Crash
  <2>2. at' \in {"fail", "off"}
    BY <1>10, Unwinds DEF WriteFails, Crash
  <2>3. QED
    BY <2>1, <2>2 DEF Body
<1>11. CASE Kill
  BY <1>11 DEF Kill, Body
<1>12. CASE Start
  <2>1. hurt' = {} /\ at' = "loaded" /\ run' = run + 1 /\ UNCHANGED <<status, tmp>>
    BY <1>12 DEF Start
  <2>2. status.run <= run /\ tmp.run <= run
    BY DEF LeftInv
  <2>3. QED
    BY <2>1, <2>2 DEF Body
<1>13. CASE Stop
  <2>1. /\ UNCHANGED <<status, tmp, run>> /\ at # "off"
        /\ sig = "armed" => sig' = "ignored"
        /\ sig # "armed" => sig' = sig
        /\ hurt \cap {"crash", "write"} = hurt' \cap {"crash", "write"}
        /\ "late" \in hurt' => "late" \in hurt \/ at \in {"stats", "final", "final2", "stamp"}
    BY <1>13 DEF Stop, TypeOK
  <2>2. CASE sig = "default" /\ at' = "off"
    BY <2>1, <2>2 DEF TypeOK, Body
  <2>3. CASE sig = "ignored" /\ at' = at
    BY <2>1, <2>3 DEF Body
  <2>4. CASE sig = "armed" /\ at = "stats" /\ at' = "ending"
    BY <2>1, <2>4 DEF Body
  <2>5. CASE sig = "armed" /\ at' \in {"fail", "off"} /\ at # "stats"
    BY <2>1, <2>5 DEF Body
  <2>6. \/ sig = "default" /\ at' = "off"
        \/ sig = "ignored" /\ at' = at
        \/ sig = "armed" /\ at = "stats" /\ at' = "ending"
        \/ sig = "armed" /\ at # "stats" /\ Unwind("stopped")
    BY <1>13 DEF Stop, TypeOK, Body
  <2>7. Unwind("stopped") => at' \in {"fail", "off"}
    BY Unwinds
  <2>8. QED
    BY <2>2, <2>3, <2>4, <2>5, <2>6, <2>7
<1>14. QED
  BY <1>1, <1>2, <1>6, <1>7, <1>8, <1>9, <1>10, <1>11, <1>12, <1>13
     DEF Next, Seeding, Plain

-----------------------------------------------------------------------------
(* The theorems. *)

IInv == RunInv /\ FileInv /\ SeedlessInv /\ LeftInv /\ LateInv

LEMMA InitInv == Init => IInv
<1> SUFFICES ASSUME Init PROVE IInv
  OBVIOUS
<1> USE Files DEF Init, Failing, Body, Never
<1>1. RunInv
  BY DEF RunInv, Before, After, Last
<1>2. FileInv
  BY DEF FileInv, Green, Whole
<1>3. SeedlessInv
  BY DEF SeedlessInv
<1>4. LeftInv /\ LateInv
  BY DEF LeftInv, LateInv, Running, Failed, Last
<1>5. QED
  BY <1>1, <1>2, <1>3, <1>4 DEF IInv

LEMMA StepType == TypeOK /\ RunInv /\ [Next]_vars => TypeOK'
<1> SUFFICES ASSUME TypeOK, RunInv, [Next]_vars PROVE TypeOK'
  OBVIOUS
<1>1. CASE UNCHANGED vars
  BY <1>1 DEF vars, files, repo, runner, seeder, TypeOK
<1>2. at = "off" \/ run \in Run
  BY DEF RunInv
<1>3. QED
  BY <1>1, <1>2, ExitType, WriteType, RunType, SeedType DEF Next, Seeding

THEOREM Invariant == Spec => [](TypeOK /\ IInv)
<1>1. TypeOK /\ IInv /\ [Next]_vars => (TypeOK /\ IInv)'
  BY StepType, RunStep, FileStep, SeedlessStep, LeftStep, LateStep DEF IInv
<1>2. QED
  BY <1>1, InitType, InitInv, PTL DEF Spec

\* Every variable keeps its type, and the run works under its handlers (main()).
THEOREM TypeCorrect == Spec => []TypeOK
BY Invariant, PTL

\* However runs, signals, errors and --seed mix, a status that says "ok" or
\* "partial" and was not seeded tells of a snapshot that is saved and checked,
\* and "ok" of one that lacks nothing (backup()).
THEOREM NeverFalselyGreen == Spec => []GreenIsTrue
<1>1. TypeOK /\ IInv => GreenIsTrue
  <2>1. ASSUME TypeOK, IInv, NEW f \in {status, tmp}, f.state \in {"ok", "partial"}, ~f.seeded
        PROVE  f.run \in safe /\ (f.state = "ok" => lacks[f.run] = {})
    <3>1. f.seeded = FALSE
      BY <2>1 DEF TypeOK, Status
    <3>2. Green(f)
      BY <2>1 DEF IInv, FileInv
    <3>3. QED
      BY <2>1, <3>1, <3>2 DEF Green
  <2>2. QED
    BY <2>1 DEF GreenIsTrue
<1>2. QED
  BY <1>1, Invariant, PTL

\* The last success and the stamp name only runs whose snapshot has every source
\* path, or a date that --seed had to take from a snapshot (backup(), seed()).
THEOREM SuccessComplete == Spec => []SuccessIsWhole
<1>1. IInv => SuccessIsWhole
  BY DEF IInv, FileInv, Whole, SuccessIsWhole
<1>2. QED
  BY <1>1, Invariant, PTL

\* Without --seed the last success never goes back (main() carries it over).
THEOREM SuccessCarriedOver == Spec => LastKept
<1>1. TypeOK /\ IInv /\ [Next]_vars => [seeds = 0 => status'.last >= status.last]_vars
  BY SeedlessStep DEF IInv
<1>2. QED
  BY <1>1, Invariant, PTL DEF Spec, LastKept

\* A run that comes to its end leaves no "running" behind, but for a failed
\* write, or an error and a stop that met (main()'s except and finally).
THEOREM EndsAreShown == Spec => []NotLeftRunning
<1>1. IInv => NotLeftRunning
  BY DEF IInv, LeftInv, Running, Excused, NotLeftRunning
<1>2. QED
  BY <1>1, Invariant, PTL

\* A stop during the statistics or the last writes makes no saved run a failed
\* one, whatever else happens but errors and failed writes (backup()).
THEOREM LateStopsHarmless == Spec => []LateStopHarmless
<1>1. IInv => LateStopHarmless
  BY DEF IInv, LateInv, Failed, LateStopHarmless
<1>2. QED
  BY <1>1, Invariant, PTL

=============================================================================
