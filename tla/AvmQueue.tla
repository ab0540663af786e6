------------------------------ MODULE AvmQueue ------------------------------
(***************************************************************************)
(* The host-local wait queue of avm (agent/avm.py, class Queue and         *)
(* _run_queued).  There is no daemon: every `avm run` with resource tags   *)
(* publishes a ticket file in a shared directory and holds an OS lock on   *)
(* it for as long as its process lives.  `--wait` jobs poll: take          *)
(* admit.lock, read the DRAIN flag, list and read every other ticket,      *)
(* measure the free memory, and then either mark their own ticket running  *)
(* or go back to sleep.  Nothing but admit.lock orders those steps against *)
(* the other processes, so each of them is an action here.                 *)
(*                                                                         *)
(* A job name stands for one `avm run` at a time; when it is over the name *)
(* may be used for a new run, so behaviours are infinite.                  *)
(***************************************************************************)
EXTENDS Integers, FiniteSets, Functions

CONSTANTS
    Job,       \* names of avm runs with resource tags
    NoJob,     \* "nobody holds admit.lock", "not nested in a queued job"
    Excl,      \* jobs started with --exclusive
    Declared,  \* jobs started without --wait: they only declare their tags
    Need,      \* Need[p][r]: what --mem / --vram declares, 0 when absent
    Parent,    \* Parent[p]: the queued job whose command calls this avm run
    Total,     \* Total[r]: what the host has
    Slack,     \* Slack[r]: AVM_QUEUE_HEADROOM_GB for mem, half a GB for vram
    CanCrash,  \* jobs whose avm process may be killed with SIGKILL
    Unsafe,    \* jobs whose user may find the queue directory unusable
    MayDrain,  \* whether `avm queue drain --wait` is ever run
    Flaky      \* resources whose measurement may fail (nvidia-smi, /proc/meminfo)

Res == {"mem", "vram"}

ASSUME JobAssumption ==
    /\ NoJob \notin Job
    /\ Excl \subseteq Job
    /\ Declared \subseteq Job
    /\ CanCrash \subseteq Job
    /\ Unsafe \subseteq Job
    /\ Parent \in [Job -> Job \cup {NoJob}]
    /\ MayDrain \in BOOLEAN
    /\ Flaky \subseteq Res

ASSUME SizeAssumption ==
    /\ Need \in [Job -> [Res -> Nat]]
    /\ Total \in [Res -> Nat]
    /\ Slack \in [Res -> Nat]

\* A host runs finitely many jobs (only sums over them need this).
ASSUME FiniteAssumption == IsFiniteSet(Job)

VARIABLES
    pc,       \* where each avm process is
    file,     \* what its ticket .json says: "none", "waiting" or "running"
    earlier,  \* earlier[p]: tickets with a smaller seq than p's
    admit,    \* who holds admit.lock
    drain,    \* the DRAIN flag is there
    seenDrain, todo, seenWaiting, seenRunning, seenHeld, old,
              \* the holder's locals in check(): the flag as read, the listed
              \* names not read yet, the tickets read, those of the running
              \* ones it counts as settling, and the tickets that were past
              \* the settle time when `now` was taken
    settled,  \* running tickets older than AVM_QUEUE_SETTLE_SEC
    child,    \* jobs whose command is running (it may outlive its avm)
    used,     \* used[p][r]: what the command really occupies
    drainer, dtodo, dseen,
              \* one `avm queue drain --wait`: its phase, the listed names it
              \* has not read yet, whether it read a running one
    behind,   \* history: tickets already published and waiting when p took
              \* its seq
    late      \* history: jobs admitted since the DRAIN flag was set

check  == <<seenDrain, todo, seenWaiting, seenRunning, seenHeld, old>>
load   == <<settled, child, used>>
drains == <<drain, drainer, dtodo, dseen>>
order  == <<earlier, behind>>
vars   == <<pc, file, admit, check, load, drains, order, late>>

-----------------------------------------------------------------------------
\* The places of an avm process, in the order it goes through them.
Waiting  == {"ready", "polling"}                  \* ticket published, not admitted
Checking == {"locked", "listing", "reading", "fits", "refused"}
Admitted == {"admitted", "exec", "reaped"}
Ticketed == {"stamped"} \cup Waiting \cup Checking \cup Admitted
Phases   == {"off", "nested", "bypass", "dead"} \cup Ticketed

TypeOK ==
    /\ pc \in [Job -> Phases]
    /\ file \in [Job -> {"none", "waiting", "running"}]
    /\ earlier \in [Job -> SUBSET Job]
    /\ behind \in [Job -> SUBSET Job]
    /\ admit \in Job \cup {NoJob}
    /\ drain \in BOOLEAN
    /\ seenDrain \in BOOLEAN
    /\ todo \in SUBSET Job
    /\ seenWaiting \in SUBSET Job
    /\ seenRunning \in SUBSET Job
    /\ seenHeld \in SUBSET Job
    /\ old \in SUBSET Job
    /\ settled \in SUBSET Job
    /\ child \in SUBSET Job
    /\ used \in [Job -> [Res -> Nat]]
    /\ drainer \in {"off", "polling", "scan", "idle"}
    /\ dtodo \in SUBSET Job
    /\ dseen \in BOOLEAN
    /\ late \in Nat

Nothing == [r \in Res |-> 0]

Init ==
    /\ pc = [p \in Job |-> "off"]
    /\ file = [p \in Job |-> "none"]
    /\ earlier = [p \in Job |-> {}]
    /\ behind = [p \in Job |-> {}]
    /\ admit = NoJob
    /\ drain = FALSE
    /\ seenDrain = FALSE
    /\ todo = {} /\ seenWaiting = {} /\ seenRunning = {} /\ seenHeld = {}
    /\ old = {} /\ settled = {} /\ child = {}
    /\ used = [p \in Job |-> Nothing]
    /\ drainer = "off" /\ dtodo = {} /\ dseen = FALSE
    /\ late = 0

-----------------------------------------------------------------------------
\* Two jobs contend when both are exclusive, or both declare the same resource.
Competes(p, q) ==
    \/ p \in Excl /\ q \in Excl
    \/ \E r \in Res : Need[p][r] > 0 /\ Need[q][r] > 0

\* What could never fit is refused at submit.  The vram test has no slack.
Impossible(p) ==
    \/ Need[p]["mem"] > 0 /\ Need[p]["mem"] + Slack["mem"] > Total["mem"]
    \/ Need[p]["vram"] > Total["vram"]

\* Mutation: the ticket is locked by the first poll, not before it is published.
Held_LockedLate(p) == pc[p] \in Ticketed \ {"ready"}

\* The OS lock on p's ticket is held by its live avm process.
Held(p) == pc[p] \in Ticketed

Listed == {q \in Job : file[q] # "none"}

\* MemAvailable / memory.free: measured, whoever uses the rest.
Available(r) == Total[r] - SumFunction([p \in Job |-> used[p][r]])

\* Mutation: what starting jobs declared is not held back.
Reserved_Nothing(r, S) == 0

Reserved(r, S) == SumFunction([p \in S |-> Need[p][r]])

\* Mutations: no line, those behind count too, no flag.
Fits_NoLine(p, blind) ==
    /\ ~seenDrain
    /\ p \in Excl => seenRunning \cap Excl = {}
    /\ \A r \in Res \ blind : Need[p][r] > 0 =>
         Available(r) - Reserved(r, seenHeld) - Slack[r] >= Need[p][r]

Fits_Everybody(p, blind) ==
    /\ ~seenDrain
    /\ \A q \in seenWaiting : ~Competes(q, p)
    /\ p \in Excl => seenRunning \cap Excl = {}
    /\ \A r \in Res \ blind : Need[p][r] > 0 =>
         Available(r) - Reserved(r, seenHeld) - Slack[r] >= Need[p][r]

Fits_NoDrain(p, blind) ==
    /\ \A q \in seenWaiting \cap earlier[p] : ~Competes(q, p)
    /\ p \in Excl => seenRunning \cap Excl = {}
    /\ \A r \in Res \ blind : Need[p][r] > 0 =>
         Available(r) - Reserved(r, seenHeld) - Slack[r] >= Need[p][r]

\* The verdict of check() on what it read, and on memory measured now.  What
\* cannot be measured is not tested.
Fits(p, blind) ==
    /\ ~seenDrain
    /\ \A q \in seenWaiting \cap earlier[p] : ~Competes(q, p)
    /\ p \in Excl => seenRunning \cap Excl = {}
    /\ \A r \in Res \ blind : Need[p][r] > 0 =>
         Available(r) - Reserved(r, seenHeld) - Slack[r] >= Need[p][r]

\* Leaving try_admit(): admit.lock is free and the locals are out of scope.
Unlock ==
    /\ admit' = NoJob
    /\ seenDrain' = FALSE
    /\ todo' = {} /\ seenWaiting' = {} /\ seenRunning' = {} /\ seenHeld' = {} /\ old' = {}

UnlockIfHeld(p) == IF admit = p THEN Unlock ELSE UNCHANGED <<admit, check>>

\* p's place in line is nobody's any more.
OutOfLine(rel, p) == [q \in Job |-> IF q = p THEN {} ELSE rel[q] \ {p}]

\* release(): the ticket, its lock and a held admit.lock are gone.
Gone(p) ==
    /\ file' = [file EXCEPT ![p] = "none"]
    /\ settled' = settled \ {p}
    /\ earlier' = OutOfLine(earlier, p)
    /\ behind' = OutOfLine(behind, p)
    /\ UnlockIfHeld(p)

-----------------------------------------------------------------------------
\* A nested avm run exists only while the command of its parent runs.
CanStart(p) ==
    /\ pc[p] = "off" /\ p \notin child
    /\ Parent[p] # NoJob => Parent[p] \in child

\* Some other prober may hold the lock of a dead ticket for a moment.
LooksAlive(q, probed) == Held(q) \/ q \in probed

\* Mutation: AVM_QUEUE_HOLD is not looked at.
Inherits_Never(p) == FALSE

\* AVM_QUEUE_HOLD names a ticket whose avm is alive, or looks so.
Inherits(p) == Parent[p] # NoJob /\ LooksAlive(Parent[p], todo \cup dtodo)

\* Inside a queued job: start at once, without a ticket.
StartNested(p) ==
    /\ CanStart(p)
    /\ Inherits(p)
    /\ pc' = [pc EXCEPT ![p] = "nested"]
    /\ child' = child \cup {p}
    /\ UNCHANGED <<file, admit, check, settled, used, drains, order, late>>

\* register(), first half: the name (its time stamp is the place in line) is
\* taken and its .lock file created and locked; nothing is visible yet.
Stamp(p) ==
    /\ CanStart(p)
    /\ Inherits(p) => ~Held(Parent[p])
    /\ p \notin Declared => ~Impossible(p)
    /\ pc' = [pc EXCEPT ![p] = "stamped"]
    /\ earlier' = [earlier EXCEPT ![p] = {q \in Job : Held(q) \/ q \in Listed}]
    /\ behind' = [behind EXCEPT ![p] = {q \in Listed : Held(q) /\ file[q] = "waiting"}]
    /\ UNCHANGED <<file, admit, check, load, drains, late>>

\* register(), second half: the .json appears, already in its state.
Publish(p) ==
    /\ pc[p] = "stamped"
    /\ IF p \in Declared
       THEN /\ pc' = [pc EXCEPT ![p] = "admitted"]
            /\ file' = [file EXCEPT ![p] = "running"]
       ELSE /\ pc' = [pc EXCEPT ![p] = "ready"]
            /\ file' = [file EXCEPT ![p] = "waiting"]
    /\ UNCHANGED <<admit, check, load, drains, order, late>>

\* Mutation: go on when the lock cannot be had.
Lock_NotAwaited(p) ==
    /\ pc[p] \in Waiting
    /\ admit' = p
    /\ pc' = [pc EXCEPT ![p] = "locked"]
    /\ UNCHANGED <<file, check, load, drains, order, late>>

\* try_admit(): block until admit.lock is ours.  Taken to fail only because
\* another process holds it (the code goes on whatever the reason).
Lock(p) ==
    /\ pc[p] \in Waiting
    /\ admit = NoJob
    /\ admit' = p
    /\ pc' = [pc EXCEPT ![p] = "locked"]
    /\ UNCHANGED <<file, check, load, drains, order, late>>

\* check(): take the time, read the DRAIN flag.
ReadDrain(p) ==
    /\ pc[p] = "locked"
    /\ pc' = [pc EXCEPT ![p] = "listing"]
    /\ seenDrain' = drain
    /\ old' = settled
    /\ UNCHANGED <<file, admit, todo, seenWaiting, seenRunning, seenHeld, load, drains, order, late>>

\* Mutation: only the waiting tickets are looked at.
List_WaitingOnly(p) ==
    /\ pc[p] = "listing"
    /\ pc' = [pc EXCEPT ![p] = "reading"]
    /\ todo' = {q \in Job : file[q] = "waiting"} \ {p}
    /\ seenWaiting' = {} /\ seenRunning' = {} /\ seenHeld' = {}
    /\ UNCHANGED <<file, admit, seenDrain, old, load, drains, order, late>>

\* tickets(): list the directory; one's own ticket is taken from memory.
List(p) ==
    /\ pc[p] = "listing"
    /\ pc' = [pc EXCEPT ![p] = "reading"]
    /\ todo' = Listed \ {p}
    /\ seenWaiting' = {} /\ seenRunning' = {} /\ seenHeld' = {}
    /\ UNCHANGED <<file, admit, seenDrain, old, load, drains, order, late>>

\* tickets(): probe one listed ticket.  Alive: read it, if it is still there
\* (one that is there is taken to be readable; the code skips it if not).
ReadTicket(p, q) ==
    /\ pc[p] = "reading" /\ q \in todo
    /\ LooksAlive(q, dtodo)
    /\ todo' = todo \ {q}
    /\ seenWaiting' = IF file[q] = "waiting" THEN seenWaiting \cup {q} ELSE seenWaiting
    /\ seenRunning' = IF file[q] = "running" THEN seenRunning \cup {q} ELSE seenRunning
    /\ seenHeld' = IF file[q] = "running" /\ q \notin old THEN seenHeld \cup {q} ELSE seenHeld
    /\ UNCHANGED <<pc, file, admit, seenDrain, old, load, drains, order, late>>

\* tickets(): a dead ticket is skipped, and removed unless the sticky
\* directory keeps it because it belongs to another user.
DropDead(p, q) ==
    /\ pc[p] = "reading" /\ q \in todo
    /\ ~Held(q)
    /\ todo' = todo \ {q}
    /\ file' \in {file, [file EXCEPT ![q] = "none"]}
    /\ UNCHANGED <<pc, admit, seenDrain, seenWaiting, seenRunning, seenHeld, old, load, drains, order, late>>

\* check(): everything is read; measure and decide.
Measure(p) ==
    /\ pc[p] = "reading" /\ todo = {}
    /\ \E blind \in SUBSET Flaky :
         pc' = [pc EXCEPT ![p] = IF Fits(p, blind) THEN "fits" ELSE "refused"]
    /\ UNCHANGED <<file, admit, check, load, drains, order, late>>

\* try_admit(): mark the ticket running, save it, unlock.
Commit(p) ==
    /\ pc[p] = "fits"
    /\ pc' = [pc EXCEPT ![p] = "admitted"]
    /\ file' = [file EXCEPT ![p] = "running"]
    /\ late' = IF drain THEN late + 1 ELSE late
    /\ Unlock
    /\ UNCHANGED <<load, drains, order>>

\* Mutations: admit.lock is kept over the sleep; a state no reader knows is saved.
Refuse_KeepsLock(p) ==
    /\ pc[p] = "refused"
    /\ pc' = [pc EXCEPT ![p] = "polling"]
    /\ UNCHANGED <<file, admit, check, load, drains, order, late>>

Refuse_NewState(p) ==
    /\ pc[p] = "refused"
    /\ pc' = [pc EXCEPT ![p] = "polling"]
    /\ file' = [file EXCEPT ![p] = "refused"]
    /\ Unlock
    /\ UNCHANGED <<load, drains, order, late>>

\* try_admit(): save the reason (the ticket stays waiting), unlock, sleep.
Refuse(p) ==
    /\ pc[p] = "refused"
    /\ pc' = [pc EXCEPT ![p] = "polling"]
    /\ Unlock
    /\ UNCHANGED <<file, load, drains, order, late>>

\* --max-wait expired after a refusal: release the ticket.
GiveUp(p) ==
    /\ pc[p] = "polling"
    /\ pc' = [pc EXCEPT ![p] = "off"]
    /\ Gone(p)
    /\ UNCHANGED <<child, used, drains, late>>

\* Ctrl-C, SIGTERM or SIGHUP before the command runs: locks and ticket go.
Cancel(p) ==
    /\ pc[p] \in Ticketed \ {"exec", "reaped"}
    /\ pc' = [pc EXCEPT ![p] = "off"]
    /\ Gone(p)
    /\ UNCHANGED <<child, used, drains, late>>

\* The queue directory cannot be used: run without a ticket, at once.
Bypass(p) ==
    /\ p \in Unsafe
    /\ \/ CanStart(p) /\ (p \notin Declared => ~Impossible(p))
       \/ pc[p] \in {"stamped"} \cup Waiting \cup Checking
    /\ pc' = [pc EXCEPT ![p] = "bypass"]
    /\ child' = child \cup {p}
    /\ Gone(p)
    /\ UNCHANGED <<used, drains, late>>

\* The admitted (or declared) job starts its command.
Exec(p) ==
    /\ pc[p] = "admitted"
    /\ pc' = [pc EXCEPT ![p] = "exec"]
    /\ child' = child \cup {p}
    /\ UNCHANGED <<file, admit, check, settled, used, drains, order, late>>

\* finally: release().
Release(p) ==
    /\ pc[p] = "reaped"
    /\ pc' = [pc EXCEPT ![p] = "off"]
    /\ Gone(p)
    /\ UNCHANGED <<child, used, drains, late>>

\* SIGKILL: the OS frees the locks, the ticket file and the command stay.
Crash(p) ==
    /\ p \in CanCrash
    /\ pc[p] \in Ticketed
    /\ pc' = [pc EXCEPT ![p] = "dead"]
    /\ behind' = OutOfLine(behind, p)
    /\ UnlockIfHeld(p)
    /\ UNCHANGED <<file, earlier, load, drains, late>>

\* The name of a dead run is free again once nothing of it is left.
Reuse(p) ==
    /\ pc[p] = "dead" /\ file[p] = "none" /\ p \notin child
    /\ pc' = [pc EXCEPT ![p] = "off"]
    /\ Gone(p)
    /\ UNCHANGED <<child, used, drains, late>>

-----------------------------------------------------------------------------
\* The commands: they grow to at most what was declared while their ticket is
\* settling (a command without a ticket is not bound by that), and end after
\* the avm runs nested in them.
Ramp(p) ==
    /\ p \in child /\ pc[p] # "nested"
    /\ p \notin settled
    /\ \E r \in Res : /\ used[p][r] < Need[p][r]
                      /\ used' = [used EXCEPT ![p][r] = @ + 1]
    /\ UNCHANGED <<pc, file, admit, check, settled, child, drains, order, late>>

\* AVM_QUEUE_SETTLE_SEC have passed since started_at.
Settle(p) ==
    /\ pc[p] \in {"exec", "reaped"} /\ p \notin settled
    /\ settled' = settled \cup {p}
    /\ UNCHANGED <<pc, file, admit, check, child, used, drains, order, late>>

ChildExit(p) ==
    /\ p \in child
    /\ \A n \in Job : Parent[n] = p => pc[n] \in {"off", "dead"} /\ n \notin child
    /\ child' = child \ {p}
    /\ used' = [used EXCEPT ![p] = Nothing]
    /\ pc' = [pc EXCEPT ![p] = CASE @ = "exec" -> "reaped"
                                 [] @ \in {"nested", "bypass"} -> "off"
                                 [] OTHER -> @]
    /\ UNCHANGED <<file, admit, check, settled, drains, order, late>>

-----------------------------------------------------------------------------
\* avm queue drain --wait: set the flag (without admit.lock), then poll.
DrainSet ==
    /\ MayDrain
    /\ drainer \in {"off", "idle"}
    /\ drainer' = "polling"
    /\ drain' = TRUE
    /\ late' = IF drain THEN late ELSE 0
    /\ UNCHANGED <<pc, file, admit, check, load, dtodo, dseen, order>>

DrainList ==
    /\ drainer = "polling"
    /\ drainer' = "scan"
    /\ dtodo' = Listed
    /\ dseen' = FALSE
    /\ UNCHANGED <<pc, file, admit, check, load, drain, order, late>>

\* Mutation: a waiting ticket counts as work too.
DrainRead_AnyTicket(q) ==
    /\ drainer = "scan" /\ q \in dtodo
    /\ LooksAlive(q, todo)
    /\ dtodo' = dtodo \ {q}
    /\ dseen' = TRUE
    /\ UNCHANGED <<pc, file, admit, check, load, drain, drainer, order, late>>

DrainRead(q) ==
    /\ drainer = "scan" /\ q \in dtodo
    /\ LooksAlive(q, todo)
    /\ dtodo' = dtodo \ {q}
    /\ dseen' = (dseen \/ file[q] = "running")
    /\ UNCHANGED <<pc, file, admit, check, load, drain, drainer, order, late>>

DrainDropDead(q) ==
    /\ drainer = "scan" /\ q \in dtodo
    /\ ~Held(q)
    /\ dtodo' = dtodo \ {q}
    /\ file' \in {file, [file EXCEPT ![q] = "none"]}
    /\ UNCHANGED <<pc, admit, check, load, drain, drainer, dseen, order, late>>

\* "idle: no queued or declared job is running", or sleep and look again.
DrainVerdict ==
    /\ drainer = "scan" /\ dtodo = {}
    /\ drainer' = IF dseen THEN "polling" ELSE "idle"
    /\ dseen' = FALSE
    /\ UNCHANGED <<pc, file, admit, check, load, drain, dtodo, order, late>>

\* avm queue resume, by anybody: only the flag goes.
Resume ==
    /\ drain
    /\ drain' = FALSE
    /\ drainer' = IF drainer = "idle" THEN "off" ELSE drainer
    /\ late' = 0
    /\ UNCHANGED <<pc, file, admit, check, load, dtodo, dseen, order>>

-----------------------------------------------------------------------------
\* What the code does by itself once the job is there...
Step(p) ==
    \/ Publish(p) \/ ReadDrain(p) \/ List(p) \/ Measure(p)
    \/ Commit(p) \/ Refuse(p) \/ Exec(p) \/ Release(p)
    \/ \E q \in Job : ReadTicket(p, q) \/ DropDead(p, q)

\* ... and what its user, the OS and the host decide.
Event(p) ==
    \/ StartNested(p) \/ Stamp(p) \/ GiveUp(p) \/ Cancel(p) \/ Bypass(p)
    \/ Crash(p) \/ Reuse(p) \/ Ramp(p) \/ Settle(p)

Drainer == DrainList \/ DrainVerdict \/ \E q \in Job : DrainRead(q) \/ DrainDropDead(q)

Next ==
    \/ \E p \in Job : Step(p) \/ Lock(p) \/ ChildExit(p) \/ Event(p)
    \/ Drainer \/ DrainSet \/ Resume

Spec == Init /\ [][Next]_vars

\* avm runs until it blocks; the poll comes back every QUEUE_POLL seconds
\* while admit.lock is only held for the length of a check; commands end; and
\* two processes do not collide on the lock of a dead ticket every time.
FairSpec ==
    /\ Spec
    /\ \A p \in Job : WF_vars(Step(p)) /\ SF_vars(Lock(p)) /\ SF_vars(ChildExit(p))
    /\ WF_vars(Drainer) /\ \A q \in Job : SF_vars(DrainDropDead(q))

-----------------------------------------------------------------------------
\* One heavy job at a time: two exclusive jobs that went through admission are
\* never both between their admission and the release of their ticket,
\* although admission is a sequence of unsynchronised file reads
\* (check(), try_admit()).
ExclusiveGPU ==
    \A p, q \in Excl \ Declared :
        pc[p] \in Admitted /\ pc[q] \in Admitted => p = q

\* The ticket of a live avm is never removed by another process that takes it
\* for dead: it is locked before it can be seen (register(), _alive(),
\* _forget()).
TicketKept ==
    \A p \in Job : pc[p] \in Waiting \cup Checking \cup Admitted => file[p] # "none"

\* What the admitted jobs may still come to occupy - the whole declaration
\* while a job settles, its measured use afterwards - never exceeds the host
\* minus the headroom, whenever each of them was admitted and measured
\* (check(): available minus held minus headroom).
Committed(r) ==
    SumFunction([p \in {q \in Job : pc[q] \in Admitted} |->
                    IF p \in settled THEN used[p][r] ELSE Need[p][r]])

ReservationsFit == \A r \in Res : Committed(r) > 0 => Committed(r) + Slack[r] <= Total[r]

\* A drain takes no lock, so a job whose check had already read the flag may
\* still be admitted, but never a second one (check() reads the flag again
\* under admit.lock; cmd_queue).
AtMostOneLate == drain => late <= 1

\* First come, first served: a job is never admitted while a competing job
\* waits whose ticket was published before this one took its place in line.
OvertakesNobody ==
    \A p, q \in Job :
        (pc[p] \notin Admitted /\ pc'[p] = "admitted" /\ p \notin Declared)
          => ~(q \in behind[p] /\ Competes(p, q) /\ pc[q] \in Waiting \cup Checking)

FirstCome == [][OvertakesNobody]_vars

\* What passes the test at submit and never the one at admission: the host
\* does not have the size and the slack.
Hopeless(p) == ~Impossible(p) /\ \E r \in Res : Need[p][r] > 0 /\ Need[p][r] + Slack[r] > Total[r]

\* p is such a job, or in line behind one it competes with, directly or behind
\* jobs that are themselves.
Stuck(p) ==
    \E S \in SUBSET {q \in Job : pc[q] \in Waiting \cup Checking} :
        /\ p \in S
        /\ \A q \in S : Hopeless(q) \/ \E x \in S \cap earlier[q] : Competes(x, q)

\* Nobody waits forever: unless the host is drained for good, a job in the
\* queue is admitted or leaves it (QUEUE_POLL loop of _run_queued).  The one
\* exception is a job that does not fit although it was not refused at submit,
\* and those in line behind it, for as long as it waits.
WaitersStart ==
    <>[]~drain => \A p \in Job :
        (pc[p] = "polling") ~> (pc[p] \notin Waiting \cup Checking \/ Stuck(p))

\* A queued job whose command calls avm run --wait itself does not wait for
\* its own reservation: every command that started comes to its end.
CommandsEnd == \A p \in Job : (pc[p] = "exec") ~> (pc[p] # "exec")

\* `avm queue drain --wait` returns, unless somebody resumes the queue.
DrainReturns == (drainer = "polling") ~> (drainer = "idle" \/ ~drain)

\* The queue keeps the promises of Admission, in which checking and admitting
\* are one step.
State(p) == CASE pc[p] = "stamped" -> "arriving"
              [] pc[p] \in Waiting \cup Checking -> "waiting"
              [] pc[p] \in Admitted -> "running"
              [] OTHER -> "out"

Abstract == INSTANCE Admission WITH state <- [p \in Job |-> State(p)], ahead <- behind

ImplementsAdmission == Abstract!Spec
=============================================================================
