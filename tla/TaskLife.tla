------------------------------ MODULE TaskLife ------------------------------
(***************************************************************************)
(* Tasks: what `avm run`, `avm watch` and `avm task` report to the hub     *)
(* (agent/avm.py), the rows the hub keeps (db.py task_*, routes_ops.py)    *)
(* and the presence loop that marks tasks nobody reports on any more       *)
(* (main.py).  Reporters talk HTTP with a 10 s limit and never let the hub *)
(* stop a command: a request may be lost, its answer may be lost, and with *)
(* Late it may be handled after its sender gave up.  avm beats from a      *)
(* thread of its own, so a beat may be handled after the final report.     *)
(* Time is abstracted to two facts that may become true at any moment: a   *)
(* row's heartbeat is older than 1.5 expect_beat (overdue), and a host's   *)
(* last push is older than offline_after_sec (silent).                     *)
(***************************************************************************)
EXTENDS Integers, FiniteSets

CONSTANTS
    Run,        \* reporters: one avm run, watch or task each
    NoRun,
    Host,
    HostOf,     \* HostOf[r]: the host whose token r uses
    Kind,       \* Kind[r]: "queue" (--wait), "run", "watch" or "task"
    MaxId,      \* bound: task ids the hub may hand out
    Lose,       \* operations whose request or answer may get lost
    Late,       \* a request may still be handled after its sender gave up
    CanKill,    \* reporters that may be killed without a word
    MaxTrouble, \* bound: hub restarts and failed presence rounds
    MayDelete   \* operators delete tasks, old ones are pruned

Id       == 1..MaxId
Creates  == {"create", "create_queued"}
Outcomes == {"done", "failed"}
Ops      == Creates \cup {"beat", "beat_queued", "admit"} \cup Outcomes
Marks    == {"stalled", "lost"}
Problems == {"failed"} \cup Marks
Active   == {"queued", "running"}
Once     == {"admit"} \cup Outcomes    \* sent once: nothing repeats them

ASSUME TaskAssumption ==
    /\ NoRun \notin Run
    /\ HostOf \in [Run -> Host]
    /\ Kind \in [Run -> {"queue", "run", "watch", "task"}]
    /\ MaxId \in Nat
    /\ Lose \subseteq Ops
    /\ Late \in BOOLEAN
    /\ CanKill \subseteq Run
    /\ MaxTrouble \in Nat
    /\ MayDelete \in BOOLEAN

VARIABLES
    phase,    \* what each reporter does: new, queued, running, ended, dead
    tid,      \* the task id it knows, 0 when untracked
    wait,     \* the operation its main thread waits for, or "none"
    net,      \* requests not handled yet
    rows,     \* the tasks table; status "none" where there is no row
    unheard,  \* history: who sent what once, and it got lost
    silent,   \* hosts whose last push is older than offline_after_sec
    pushing,  \* hosts whose push is stored but not yet counted as online
    online,   \* hub.online: in memory, "unknown" after a restart
    loop,     \* the presence loop and its snapshot of the hosts
    trouble   \* restarts and failed rounds so far

hub    == <<silent, pushing, online, loop, trouble>>
client == <<phase, tid, wait>>
vars   == <<client, net, rows, unheard, hub>>

-----------------------------------------------------------------------------
NoOutcome == [run |-> NoRun, what |-> "none"]

\* owner and said are history: who created the row, and the last outcome
\* reported for it.
NoRow == [owner |-> NoRun, status |-> "none", overdue |-> FALSE, expect |-> FALSE,
          acked |-> FALSE, said |-> NoOutcome]

Row == [owner : Run \cup {NoRun},
        status : Active \cup Marks \cup Outcomes \cup {"none"},
        overdue : BOOLEAN, expect : BOOLEAN,
        acked : BOOLEAN,
        said : [run : Run \cup {NoRun}, what : Outcomes \cup {"none"}]]

Request == [run : Run, op : Ops, id : Id \cup {0}]

TypeOK ==
    /\ phase \in [Run -> {"new", "queued", "running", "ended", "dead"}]
    /\ tid \in [Run -> Id \cup {0}]
    /\ wait \in [Run -> Ops \cup {"none"}]
    /\ net \subseteq Request
    /\ rows \in [Id -> Row]
    /\ unheard \subseteq Run \X Once
    /\ silent \subseteq Host
    /\ pushing \subseteq Host
    /\ online \in [Host -> {"yes", "no", "unknown"}]
    /\ loop \in [at : {"sleep", "hosts", "lost", "stalled"},
                 todo : SUBSET Host, gone : SUBSET Host, lost : SUBSET Host]
    /\ trouble \in Nat
    /\ \A i \in Id : rows[i].owner = NoRun \/ rows[i].status = "none"
                      => rows[i] = NoRow

Asleep == [at |-> "sleep", todo |-> {}, gone |-> {}, lost |-> {}]

Init ==
    /\ phase = [r \in Run |-> "new"]
    /\ tid = [r \in Run |-> 0]
    /\ wait = [r \in Run |-> "none"]
    /\ net = {}
    /\ rows = [i \in Id |-> NoRow]
    /\ unheard = {}
    /\ silent = {} /\ pushing = {}
    /\ online = [h \in Host |-> "yes"]
    /\ loop = Asleep
    /\ trouble = 0

Exists(i) == rows[i].status # "none"

\* INTEGER PRIMARY KEY: one more than the largest id in the table, so the id
\* of a deleted newest task is used again.
NextId(i) ==
    /\ \A j \in Id : Exists(j) => j < i
    /\ i > 1 => Exists(i - 1)

-----------------------------------------------------------------------------
(* Reporters. *)

Send(r, op) == net' = net \cup {[run |-> r, op |-> op, id |-> tid[r]]}

\* The main thread sends and waits for the answer.
Ask(r, op) ==
    /\ wait[r] = "none"
    /\ Send(r, op)
    /\ wait' = [wait EXCEPT ![r] = op]
    /\ UNCHANGED <<tid, rows, unheard, hub>>

Go(r, place) == phase' = [phase EXCEPT ![r] = place]

\* The task is created when the command starts, or when the job has to queue.
Start(r) == phase[r] = "new" /\ Ask(r, "create") /\ Go(r, "running")

Queue(r) ==
    /\ phase[r] = "new" /\ Kind[r] = "queue"
    /\ Ask(r, "create_queued") /\ Go(r, "queued")

\* While it waits, a beat every QUEUE_BEAT; a task the hub did not take is
\* created again.
QueueBeat(r) ==
    /\ phase[r] = "queued"
    /\ Ask(r, IF tid[r] = 0 THEN "create_queued" ELSE "beat_queued")
    /\ UNCHANGED phase

Admitted(r) ==
    /\ phase[r] = "queued"
    /\ Ask(r, IF tid[r] = 0 THEN "create" ELSE "admit")
    /\ Go(r, "running")

\* The beater thread; `avm task beat` for a task reported by hand.
Beat(r) ==
    /\ phase[r] = "running" /\ wait[r] = "none" /\ tid[r] # 0
    /\ Send(r, "beat")
    /\ UNCHANGED <<client, rows, unheard, hub>>

\* The final report, sent once.  A beat may still be on its way.
Finish(r) ==
    /\ phase[r] = "running" /\ wait[r] = "none"
    /\ \E what \in Outcomes :
          IF tid[r] = 0 THEN UNCHANGED net ELSE Send(r, what)
    /\ Go(r, "ended")
    /\ UNCHANGED <<tid, wait, rows, unheard, hub>>

\* --max-wait ran out, or Ctrl-C while queued.
Cancel(r) ==
    /\ phase[r] = "queued" /\ wait[r] = "none"
    /\ IF tid[r] = 0 THEN UNCHANGED net ELSE Send(r, "failed")
    /\ Go(r, "ended")
    /\ UNCHANGED <<tid, wait, rows, unheard, hub>>

Kill(r) ==
    /\ r \in CanKill /\ phase[r] \in Active
    /\ Go(r, "dead")
    /\ UNCHANGED <<tid, wait, net, rows, unheard, hub>>

\* r stops waiting for op: with an id, or without an answer.  `avm task start`
\* and `avm watch` fail when their task was not created.
Resume(r, op, id) ==
    /\ wait' = [wait EXCEPT ![r] = IF @ = op THEN "none" ELSE @]
    /\ tid' = [tid EXCEPT ![r] = IF wait[r] = op /\ id # 0 THEN id ELSE @]
    /\ phase' = [phase EXCEPT ![r] =
                    IF /\ wait[r] = op /\ op \in Creates /\ id = 0
                       /\ Kind[r] \in {"watch", "task"} /\ @ = "running"
                    THEN "ended" ELSE @]

\* 10 s passed, or the connection failed.
GiveUp(m) ==
    /\ m \in net /\ m.op \in Lose
    /\ \/ /\ net' = net \ {m}
          /\ unheard' = unheard \cup ({<<m.run, m.op>>} \cap (Run \X Once))
       \/ Late /\ wait[m.run] = m.op /\ UNCHANGED <<net, unheard>>
    /\ Resume(m.run, m.op, 0)
    /\ UNCHANGED <<rows, hub>>

-----------------------------------------------------------------------------
(* The hub's handlers: each row change is one statement under db._lock. *)

\* Mutation: the id alone identifies the task.
Mine_AnyHost(m) == Exists(m.id)

\* Agents can only touch their own host's tasks.
Mine(m) == Exists(m.id) /\ HostOf[rows[m.id].owner] = HostOf[m.run]

Revives(row) == row.status \in Marks

Given(op) == CASE op = "beat_queued" -> "queued"
               [] op = "admit" -> "running"
               [] op \in Outcomes -> op
               [] OTHER -> "none"

\* A new outcome alerts afresh.
Changed(row, status) ==
    [row EXCEPT !.status = status,
                !.acked = @ /\ status = row.status]

\* Mutation: a report without a status leaves the mark there.
NewStatus_KeepsMark(row, op) == IF Given(op) # "none" THEN Given(op) ELSE row.status

\* Mutation: reviving comes before the status the report carries.
NewStatus_MarkFirst(row, op) ==
    IF Revives(row) THEN "running"
    ELSE IF Given(op) # "none" THEN Given(op) ELSE row.status

NewStatus(row, op) ==
    IF Given(op) # "none" THEN Given(op)
    ELSE IF Revives(row) THEN "running" ELSE row.status

\* task_update: the heartbeat is renewed whatever the request says.
Updated(row, m) ==
    LET status == NewStatus(row, m.op)
    IN  [owner |-> row.owner,
         status |-> status,
         overdue |-> FALSE,
         expect |-> row.expect,
         acked |-> Changed(row, status).acked,
         said |-> IF m.op \in Outcomes THEN [run |-> m.run, what |-> m.op]
                  ELSE row.said]

\* task_create.  `avm task start` without --expect promises no heartbeat.
Created(m) ==
    [owner |-> m.run,
     status |-> IF m.op = "create" THEN "running" ELSE "queued",
     overdue |-> FALSE, expect |-> Kind[m.run] # "task",
     acked |-> FALSE, said |-> NoOutcome]

\* The hub handles a request; its answer may get lost.
HandleCreate(m) ==
    /\ m \in net /\ m.op \in Creates
    /\ \E i \in Id :
          /\ NextId(i)
          /\ rows' = [rows EXCEPT ![i] = Created(m)]
          /\ \/ Resume(m.run, m.op, i)
             \/ m.op \in Lose /\ Resume(m.run, m.op, 0)
    /\ net' = net \ {m}
    /\ UNCHANGED <<unheard, hub>>

HandleUpdate(m) ==
    /\ m \in net /\ m.op \notin Creates /\ m.id \in Id
    /\ rows' = IF Mine(m) THEN [rows EXCEPT ![m.id] = Updated(@, m)] ELSE rows
    /\ net' = net \ {m}
    /\ Resume(m.run, m.op, 0)
    /\ UNCHANGED <<unheard, hub>>

\* DELETE by an operator, or task_prune.
Delete(i) ==
    /\ MayDelete /\ Exists(i)
    /\ rows' = [rows EXCEPT ![i] = NoRow]
    /\ UNCHANGED <<client, net, unheard, hub>>

\* task_ack goes by id: it silences whatever problem the rows have when the
\* request is handled, which may be another than the operator saw.
Ack(S) ==
    LET hit(i) == i \in S /\ rows[i].status \in Problems /\ ~rows[i].acked
    IN  /\ \E i \in Id : hit(i)
        /\ rows' = [i \in Id |-> IF hit(i) THEN [rows[i] EXCEPT !.acked = TRUE]
                                 ELSE rows[i]]
        /\ UNCHANGED <<client, net, unheard, hub>>

UndoAck(i) ==
    /\ rows[i].status \in Problems /\ rows[i].acked
    /\ rows' = [rows EXCEPT ![i].acked = FALSE]
    /\ UNCHANGED <<client, net, unheard, hub>>

-----------------------------------------------------------------------------
(* Presence. *)

\* Time passes without a heartbeat, without a push.
Age(i) ==
    /\ Exists(i) /\ rows[i].expect /\ ~rows[i].overdue
    /\ rows' = [rows EXCEPT ![i].overdue = TRUE]
    /\ UNCHANGED <<client, net, unheard, hub>>

GoSilent(h) ==
    /\ h \notin silent /\ h \notin pushing
    /\ silent' = silent \cup {h}
    /\ UNCHANGED <<client, net, rows, unheard, pushing, online, loop, trouble>>

\* ingest: record_sample renews last_seen, hub.online is set after two awaits.
Push(h) ==
    /\ h \notin pushing
    /\ silent' = silent \ {h}
    /\ pushing' = pushing \cup {h}
    /\ UNCHANGED <<client, net, rows, unheard, online, loop, trouble>>

PushSeen(h) ==
    /\ h \in pushing
    /\ pushing' = pushing \ {h}
    /\ online' = [online EXCEPT ![h] = "yes"]
    /\ UNCHANGED <<client, net, rows, unheard, silent, loop, trouble>>

\* One round of presence_loop works on the hosts as they were when it began.
ListHosts ==
    /\ loop.at = "sleep"
    /\ loop' = [at |-> "hosts", todo |-> Host, gone |-> silent, lost |-> {}]
    /\ UNCHANGED <<client, net, rows, unheard, silent, pushing, online, trouble>>

Transition(h) == h \in loop.gone /\ online[h] = "yes"

Compare(h) ==
    /\ loop.at = "hosts" /\ h \in loop.todo
    /\ online' = [online EXCEPT ![h] = IF h \in loop.gone THEN "no" ELSE "yes"]
    /\ loop' = [at |-> IF Transition(h) THEN "lost" ELSE "hosts",
                todo |-> loop.todo \ {h}, gone |-> loop.gone,
                lost |-> IF Transition(h) THEN {h} ELSE {}]
    /\ UNCHANGED <<client, net, rows, unheard, silent, pushing, trouble>>

\* Mutation: only running tasks of a host that went away are lost.
Losable_RunningOnly(row) == row.status = "running"

\* Mutation: finished tasks are lost with their host.
Losable_Finished(row) == row.status # "none"

Losable(row) == row.status \in {"running", "stalled", "queued"}

MarkLost ==
    /\ loop.at = "lost"
    /\ rows' = [i \in Id |->
                   IF Losable(rows[i]) /\ HostOf[rows[i].owner] \in loop.lost
                   THEN Changed(rows[i], "lost") ELSE rows[i]]
    /\ loop' = [at |-> "hosts", todo |-> loop.todo, gone |-> loop.gone, lost |-> {}]
    /\ UNCHANGED <<client, net, unheard, silent, pushing, online, trouble>>

HostsDone ==
    /\ loop.at = "hosts" /\ loop.todo = {}
    /\ loop' = [at |-> "stalled", todo |-> {}, gone |-> {}, lost |-> {}]
    /\ UNCHANGED <<client, net, rows, unheard, silent, pushing, online, trouble>>

\* Mutation: queued tasks need no heartbeat.
Stallable_RunningOnly(row) == row.status = "running" /\ row.overdue

Stallable(row) == row.status \in Active /\ row.overdue

MarkStalled ==
    /\ loop.at = "stalled"
    /\ rows' = [i \in Id |-> IF Stallable(rows[i]) THEN Changed(rows[i], "stalled")
                             ELSE rows[i]]
    /\ loop' = Asleep
    /\ UNCHANGED <<client, net, unheard, silent, pushing, online, trouble>>

Trouble == trouble < MaxTrouble /\ trouble' = trouble + 1

\* An exception ends the round: what it had not done yet is not made up for.
RoundFails ==
    /\ loop.at # "sleep"
    /\ Trouble
    /\ loop' = Asleep
    /\ UNCHANGED <<client, net, rows, unheard, silent, pushing, online>>

\* A restart empties hub.online and abandons what was under way; requests not
\* accepted yet meet the new process.
HubRestart ==
    /\ Trouble
    /\ online' = [h \in Host |-> "unknown"]
    /\ loop' = Asleep
    /\ pushing' = {}
    /\ UNCHANGED <<client, net, rows, unheard, silent>>

-----------------------------------------------------------------------------
Report(r) == Start(r) \/ Queue(r) \/ QueueBeat(r) \/ Admitted(r) \/ Beat(r)
             \/ Finish(r) \/ Cancel(r) \/ Kill(r)

Round == ListHosts \/ (\E h \in Host : Compare(h)) \/ MarkLost \/ HostsDone
         \/ MarkStalled

Next ==
    \/ \E r \in Run : Report(r)
    \/ \E m \in net : HandleCreate(m) \/ HandleUpdate(m) \/ GiveUp(m)
    \/ \E i \in Id : Delete(i) \/ UndoAck(i) \/ Age(i)
    \/ \E S \in SUBSET Id : Ack(S)
    \/ \E h \in Host : GoSilent(h) \/ Push(h) \/ PushSeen(h)
    \/ Round \/ RoundFails \/ HubRestart

Spec == Init /\ [][Next]_vars

-----------------------------------------------------------------------------
(* Safety. *)

\* An outcome that was reported stays, and only a report makes one: neither
\* the marks of the presence loop nor a beat of avm's second thread that is
\* handled after the final report touch a finished task.
OutcomeKept ==
    \A i \in Id :
        /\ rows[i].said # NoOutcome => rows[i].status = rows[i].said.what
        /\ rows[i].status \in Outcomes => rows[i].said # NoOutcome

\* A reporter changes no task of another host, even when its own task was
\* deleted and the id given to that host's next one.
HostsApart ==
    \A i \in Id : rows[i].said # NoOutcome
                      => HostOf[rows[i].said.run] = HostOf[rows[i].owner]

-----------------------------------------------------------------------------
(* Liveness. *)

\* The presence loop runs for ever; time passes; a live reporter keeps beating
\* and its requests do not get lost for ever.
Handled(r) == \E m \in net : m.run = r /\ (HandleCreate(m) \/ HandleUpdate(m))

FairSpec ==
    /\ Spec
    /\ WF_vars(Round)
    /\ \A i \in Id : WF_vars(Age(i))
    /\ \A r \in Run : /\ WF_vars(QueueBeat(r)) /\ WF_vars(Beat(r))
                      /\ SF_vars(Handled(r))

Shows(r, S) == tid[r] # 0 /\ rows[tid[r]].status \in S

Unheard(r, S) == \E op \in S : <<r, op>> \in unheard

\* A mark does not stick: the task of a reporter that goes on beating shows
\* again and again what the reporter does.  A command whose admission got lost
\* may show as queued while it runs.
CatchesUp ==
    \A r \in Run : []<>(\/ phase[r] \notin Active \/ tid[r] = 0
                        \/ Kind[r] = "task" \/ Shows(r, {phase[r]})
                        \/ Unheard(r, {"admit"}) /\ Shows(r, {"queued"}))

\* A task nobody reports on any more (its avm was killed, its id got lost)
\* does not look active for ever.
Attended(i) == \E r \in Run : phase[r] \in Active /\ tid[r] = i

UnattendedShows ==
    \A i \in Id : (rows[i].expect /\ ~Attended(i)) ~> rows[i].status \notin Active

\* The tasks of a host that was reachable and went away become lost.
HostGone ==
    \A i \in Id, h \in Host :
        (/\ rows[i].status \in Active \cup {"stalled"}
         /\ HostOf[rows[i].owner] = h /\ h \in silent /\ online[h] # "no")
        ~> (h \notin silent \/ rows[i].status \in Outcomes \cup {"lost"})

\* When a tracked command ends, its task comes to show the outcome for good.
\* When the one report of it got lost, the task comes to show a mark instead:
\* it does not look active for ever, unless nobody promised a heartbeat.
EndShown ==
    \A r \in Run :
        (phase[r] = "ended" /\ tid[r] # 0)
            ~> [](\/ Shows(r, Outcomes)
                  \/ /\ Unheard(r, Outcomes)
                     /\ Shows(r, Marks) \/ Kind[r] = "task")

=============================================================================
