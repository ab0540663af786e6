----------------------------- MODULE ClaudeJobs -----------------------------
(***************************************************************************)
(* Prompts for Claude Code and actions on its sessions: the hub's rows     *)
(* (db.py job_*, routes_ops.py), the replies to the agent's reports that   *)
(* carry them (main.py, ingest), and the agent (agent/avalon_agent.py)     *)
(* whose main loop reports and takes what the reply holds while a second   *)
(* thread works on one job and posts its start, events and end.  The hub   *)
(* hands a job out with every reply until it hears that the job started;   *)
(* the agent tells by `seen`, in memory only, that it has it already.      *)
(*                                                                         *)
(* Left out: job_ack (acknowledged failures).                              *)
(***************************************************************************)
EXTENDS Integers

CONSTANTS
    MaxJob,     \* bound: jobs created
    Kinds,      \* Kinds[j]: what job j may be created as
    Lose,       \* which calls may fail: "push", "start", "events", "end"
    Late,       \* a failed post may still be handled later
    MaxTrouble  \* bound: respawn commands, updates and crashes of the agent

Job      == 1..MaxJob
Outcomes == {"done", "failed", "cancelled"}
Ops      == {"start", "events"} \cup Outcomes

\* A prompt of its own; an alert relayed into a live session, or into one that
\* is respawned first; restart or stop of a session.
AllKinds == {"prompt", "deliver", "respawn", "action"}

Class(op) == IF op \in Outcomes THEN "end" ELSE op

ASSUME JobsAssumption ==
    /\ MaxJob \in Nat
    /\ Kinds \in [Job -> SUBSET AllKinds]
    /\ Lose \subseteq {"push", "start", "events", "end"}
    /\ Late \in BOOLEAN
    /\ MaxTrouble \in Nat

VARIABLES
    kind, status, cancel,   \* the job rows
    asked,     \* cancel requests that have read the row but not written it
    cmd,       \* hosts.pending_cmd: a respawn is to be sent
    main,      \* the agent's main loop and the request it waits for
    reply,     \* what the hub's reply holds so far
    queue, seen, cancelIds, current,
               \* ClaudeRunner: accepted jobs, every id ever accepted, ids to
               \* cancel, the job in work (0: none)
    at,        \* where the job's thread is
    child,     \* the claude process it watches
    told,      \* the answer to an events post asked it to cancel
    post,      \* the post it waits for
    stray,     \* posts whose sender no longer waits
    announced, \* history: the hub handled the start of the job in work
    begun,     \* history: how often each job was taken up
    unheard,   \* history: reports of a job the hub may have missed
    spent,     \* history: ids of pruned jobs that are in `seen`
    trouble

row    == <<kind, status, cancel>>
net    == <<main, reply>>
box    == <<queue, seen, cancelIds>>
thread == <<current, at, child, told, post, announced>>
past   == <<begun, unheard, spent>>
vars   == <<row, asked, cmd, net, box, thread, stray, past, trouble>>

-----------------------------------------------------------------------------
NoReply == [jobs |-> {}, cancel |-> {}, cmd |-> FALSE]
Post    == [job : Job, op : Ops]

TypeOK ==
    /\ kind \in [Job -> AllKinds \cup {"none"}]
    /\ status \in [Job -> {"none", "queued", "running"} \cup Outcomes]
    /\ cancel \in [Job -> BOOLEAN]
    /\ asked \in [Job -> {"none", "queued", "running"}]
    /\ cmd \in BOOLEAN
    /\ main \in {"sleep", "sent", "popped", "answer", "accepted", "respawn", "offer"}
    /\ reply \in [jobs : SUBSET Job, cancel : SUBSET Job, cmd : BOOLEAN]
    /\ queue \in SUBSET Job
    /\ seen \in SUBSET Job
    /\ cancelIds \in SUBSET Job
    /\ current \in Job \cup {0}
    /\ at \in {"off", "picked", "action", "respawn", "relaying", "relay", "ready",
               "running", "closing"}
    /\ child \in {"none", "alive", "exited", "flushed"}
    /\ told \in BOOLEAN
    /\ post \in Ops \cup {"none"}
    /\ stray \in SUBSET Post
    /\ announced \in BOOLEAN
    /\ begun \in [Job -> Nat]
    /\ unheard \in SUBSET (Job \X {"start", "events", "end"})
    /\ spent \in SUBSET Job
    /\ trouble \in Nat
    /\ current = 0 <=> at = "off"

Init ==
    /\ kind = [j \in Job |-> "none"]
    /\ status = [j \in Job |-> "none"]
    /\ cancel = [j \in Job |-> FALSE]
    /\ asked = [j \in Job |-> "none"]
    /\ cmd = FALSE
    /\ main = "sleep" /\ reply = NoReply
    /\ queue = {} /\ seen = {} /\ cancelIds = {}
    /\ current = 0 /\ at = "off" /\ child = "none" /\ told = FALSE /\ post = "none"
    /\ stray = {}
    /\ announced = FALSE
    /\ begun = [j \in Job |-> 0]
    /\ unheard = {} /\ spent = {}
    /\ trouble = 0

Trouble == trouble < MaxTrouble /\ trouble' = trouble + 1

-----------------------------------------------------------------------------
(* The hub: operators and check responders. *)

\* SQLite gives a new row the id after the highest there is.
Create(j) ==
    /\ \A i \in Job : status[i] # "none" => i < j
    /\ \A i \in Job : i = j - 1 => status[i] # "none"
    /\ status' = [status EXCEPT ![j] = "queued"]
    /\ \E k \in Kinds[j] : kind' = [kind EXCEPT ![j] = k]
    /\ UNCHANGED <<cancel, asked, cmd, net, box, thread, stray, past, trouble>>

\* Cancel: read the row, and write it in a second transaction.
AskCancel(j) ==
    /\ asked[j] = "none" /\ status[j] \in {"queued", "running"}
    /\ asked' = [asked EXCEPT ![j] = status[j]]
    /\ UNCHANGED <<row, cmd, net, box, thread, stray, past, trouble>>

DoCancel(j) ==
    /\ asked[j] # "none"
    /\ status' = [status EXCEPT ![j] = IF asked[j] = "queued" THEN "cancelled" ELSE @]
    /\ cancel' = [cancel EXCEPT ![j] = TRUE]
    /\ asked' = [asked EXCEPT ![j] = "none"]
    /\ UNCHANGED <<kind, cmd, net, box, thread, stray, past, trouble>>

\* After weeks nothing is under way any more that could be about these jobs.
Forgotten(old) ==
    /\ old # {} /\ current \notin old
    /\ (queue \cup reply.jobs \cup reply.cancel \cup {m.job : m \in stray}) \cap old = {}
    /\ \A j \in old : status[j] \in Outcomes /\ asked[j] = "none"

\* job_prune: rows that ended long ago are deleted, and their ids free again.
Prune(old) ==
    /\ Forgotten(old)
    /\ \A j \in old, i \in Job : i < j /\ status[i] \in Outcomes => i \in old
    /\ kind' = [j \in Job |-> IF j \in old THEN "none" ELSE kind[j]]
    /\ status' = [j \in Job |-> IF j \in old THEN "none" ELSE status[j]]
    /\ cancel' = [j \in Job |-> cancel[j] /\ j \notin old]
    /\ begun' = [j \in Job |-> IF j \in old THEN 0 ELSE begun[j]]
    /\ unheard' = {u \in unheard : u[1] \notin old}
    /\ spent' = spent \cup (old \cap seen)
    /\ UNCHANGED <<asked, cmd, net, box, thread, stray, trouble>>

Command ==
    /\ ~cmd /\ Trouble
    /\ cmd' = TRUE
    /\ UNCHANGED <<row, asked, net, box, thread, stray, past>>

-----------------------------------------------------------------------------
(* A report and its reply.  The agent waits, and has one report under way. *)

Report ==
    /\ main = "sleep"
    /\ main' = "sent"
    /\ UNCHANGED <<row, asked, cmd, reply, box, thread, stray, past, trouble>>

PopCommand ==
    /\ main = "sent"
    /\ main' = "popped"
    /\ reply' = [jobs |-> {}, cancel |-> {}, cmd |-> cmd]
    /\ cmd' = FALSE
    /\ UNCHANGED <<row, asked, box, thread, stray, past, trouble>>

HandOut == {j \in Job : status[j] = "queued"}

ToCancel == {j \in Job : status[j] \in {"queued", "running"} /\ cancel[j]}

JobsPending ==
    /\ main = "popped"
    /\ main' = "answer"
    /\ reply' = [jobs |-> HandOut, cancel |-> ToCancel, cmd |-> reply.cmd]
    /\ UNCHANGED <<row, asked, cmd, box, thread, stray, past, trouble>>

PushFails ==
    /\ "push" \in Lose /\ main \in {"sent", "popped", "answer"}
    /\ main' = "sleep" /\ reply' = NoReply
    /\ UNCHANGED <<row, asked, cmd, box, thread, stray, past, trouble>>

-----------------------------------------------------------------------------
(* The agent's main loop. *)

\* Mutation: a job is known only while it waits or runs.
New_NotHere == reply.jobs \ (queue \cup {current})

New == reply.jobs \ seen

\* A process is killed only if the thread has already stored it.
Kill(S) == IF child = "alive" /\ current \in S THEN "exited" ELSE child

\* _pump(): the oldest job of q, unless one is in work.
PumpFrom(q) ==
    \/ /\ current # 0 \/ q = {}
       /\ queue' = q
       /\ UNCHANGED <<current, at>>
    \/ /\ current = 0
       /\ \E j \in q :
             /\ \A i \in q : j <= i
             /\ current' = j
             /\ queue' = q \ {j}
       /\ at' = "picked"

\* accept() is not called for a reply without jobs and cancellations.
Accept ==
    /\ main = "answer"
    /\ main' = "accepted"
    /\ \/ /\ reply.jobs \cup reply.cancel = {}
          /\ UNCHANGED <<box, current, at, child>>
       \/ /\ reply.jobs \cup reply.cancel # {}
          /\ seen' = seen \cup New
          /\ cancelIds' = cancelIds \cup reply.cancel
          /\ child' = Kill(cancelIds \cup reply.cancel)
          /\ PumpFrom((queue \cup New) \ reply.cancel)
    /\ UNCHANGED <<row, asked, cmd, reply, told, post, announced, stray, past,
                   trouble>>

\* A respawn is put off while a job runs.
Obey ==
    /\ main = "accepted"
    /\ main' = IF reply.cmd /\ current = 0 THEN "respawn" ELSE "offer"
    /\ reply' = NoReply
    /\ UNCHANGED <<row, asked, cmd, box, thread, stray, past, trouble>>

\* No update is offered, or it is not installed.
NoUpdate ==
    /\ main = "offer"
    /\ main' = "sleep"
    /\ UNCHANGED <<row, asked, cmd, reply, box, thread, stray, past, trouble>>

\* Mutation: the ids it has seen outlive the process.
Remembered_Seen == seen

Remembered == {}

\* What the hub has not heard of the job in work, and may not hear any more.
Cut == IF current = 0 THEN {}
       ELSE {<<current, "end">>} \cup
            IF announced \/ at = "picked" THEN {} ELSE {<<current, "start">>}

\* The process is replaced: memory and threads go, a post may be under way,
\* the claude process runs on in its own scope and nobody watches it.
Restart ==
    /\ main' = "sleep" /\ reply' = NoReply
    /\ queue' = {} /\ seen' = Remembered /\ cancelIds' = {}
    /\ current' = 0 /\ at' = "off" /\ child' = "none" /\ told' = FALSE
    /\ post' = "none" /\ announced' = FALSE
    /\ stray' = IF post = "none" THEN stray ELSE stray \cup {[job |-> current, op |-> post]}
    /\ unheard' = unheard \cup Cut /\ spent' = {}
    /\ UNCHANGED <<row, asked, cmd, begun>>

Respawn == main = "respawn" /\ Restart /\ UNCHANGED trouble

\* self_update() installed another version; whether a job runs is not asked.
Update == main = "offer" /\ Trouble /\ Restart

Crash == Trouble /\ Restart

-----------------------------------------------------------------------------
(* The job thread.  It does nothing while it waits for a post. *)

\* The pump that follows _done(), with the lock released in between.
Pump ==
    /\ current = 0 /\ queue # {}
    /\ PumpFrom(queue)
    /\ UNCHANGED <<row, asked, cmd, net, seen, cancelIds, child, told, post, announced,
                   stray, past, trouble>>

Step(from, to) ==
    /\ at = from /\ post = "none"
    /\ at' = to
    /\ UNCHANGED <<row, asked, cmd, net, box, current, announced, stray, unheard,
                   spent, trouble>>

Quiet == UNCHANGED <<child, told, post, begun>>

Known == current \in cancelIds

\* Post the outcome and be done with the job.
End(from, outcomes) ==
    /\ Step(from, "closing")
    /\ post' \in outcomes
    /\ child' = "none"
    /\ UNCHANGED <<told, begun>>

Drop   == Known /\ End("picked", {"cancelled"})

\* Refused by this host's policy, or there is no claude.
Refuse == ~Known /\ End("picked", {"failed"})

Taken == begun' = [begun EXCEPT ![current] = @ + 1]

\* Actions and respawn deliveries are announced first, the others with their
\* process.
Take ==
    /\ \/ Step("picked", "action") /\ kind[current] = "action" /\ post' = "start"
       \/ Step("picked", "respawn") /\ kind[current] = "respawn" /\ post' = "start"
       \/ Step("picked", "relaying") /\ kind[current] = "deliver" /\ UNCHANGED post
       \/ Step("picked", "ready") /\ kind[current] = "prompt" /\ UNCHANGED post
    /\ ~Known /\ Taken
    /\ UNCHANGED <<child, told>>

\* _run_action does not look at cancellations.
ActionEnds == End("action", {"done", "failed"})

\* _respawn_deliver: the session is up and idle, it is unknown, or it did not
\* come back, each found out after the last look at cancelIds; cancelled.
Respawned ==
    \/ Step("respawn", "relaying") /\ Quiet
    \/ Step("respawn", "ready") /\ Quiet
    \/ Known /\ End("respawn", {"cancelled"})

LaunchRelay ==
    \/ /\ Step("relaying", "relay")
       /\ child' = "alive"
       /\ post' = IF kind[current] = "deliver" THEN "start" ELSE "none"
       /\ UNCHANGED <<told, begun>>
    \/ Step("relaying", "ready") /\ Quiet

NotSent(to) == Step("relay", to) /\ child' = "none" /\ UNCHANGED <<told, post, begun>>

\* _deliver: the relay timed out, is killed, and nobody asks whether the job
\* was cancelled; or it ended by itself and the message was sent, cancelled,
\* not sent (the alert is answered by a process of its own), or sent nowhere
\* because the session is not listed yet (tried again after a wait).
RelayEnds ==
    \/ child = "alive" /\ NotSent("ready")
    \/ /\ child = "exited"
       /\ \/ ~Known /\ End("relay", {"done"})
          \/ Known /\ End("relay", {"cancelled"})
          \/ ~Known /\ NotSent("ready")
          \/ ~Known /\ kind[current] = "respawn" /\ NotSent("respawn")

\* The process is started whatever cancelIds says.
Launch ==
    \/ /\ Step("ready", "running")
       /\ child' = "alive"
       /\ post' = "start"
       /\ UNCHANGED <<told, begun>>
    \/ End("ready", {"failed"})

ChildEnds ==
    /\ child = "alive"
    /\ child' = "exited"
    /\ UNCHANGED <<row, asked, cmd, net, box, current, at, told, post, announced, stray,
                   past, trouble>>

\* Events are sent while it runs, and what is left after its end.
Flush ==
    /\ Step("running", "running")
    /\ child \in {"alive", "exited"}
    /\ child' = IF child = "exited" THEN "flushed" ELSE child
    /\ post' = "events"
    /\ UNCHANGED <<told, begun>>

\* With the next line it prints.
Notice ==
    /\ Step("running", "running")
    /\ child = "alive" /\ Known
    /\ child' = "exited"
    /\ told' = TRUE
    /\ UNCHANGED <<post, begun>>

\* Mutation: a cancelled job needs no report.
Finish_Silently ==
    /\ child \in {"exited", "flushed"}
    /\ End("running", IF told \/ Known THEN {"none"} ELSE {"done", "failed"})

Finish ==
    /\ child \in {"exited", "flushed"}
    /\ End("running", IF told \/ Known THEN {"cancelled"} ELSE {"done", "failed"})

\* Mutation: the job is over before its outcome is posted.
Done_Unreported ==
    /\ at = "closing"
    /\ current' = 0 /\ at' = "off" /\ told' = FALSE /\ announced' = FALSE /\ post' = "none"
    /\ UNCHANGED <<row, asked, cmd, net, box, child, stray, past, trouble>>

Done ==
    /\ at = "closing" /\ post = "none"
    /\ current' = 0 /\ at' = "off" /\ told' = FALSE /\ announced' = FALSE
    /\ UNCHANGED <<row, asked, cmd, net, box, child, post, stray, past, trouble>>

-----------------------------------------------------------------------------
(* Posts: start, events, finish.  No handler looks at the status. *)

Told(j, op) == CASE op = "start" -> [status EXCEPT ![j] = "running"]
                 [] op \in Outcomes -> [status EXCEPT ![j] = op]
                 [] OTHER -> status

\* Mutation: the answer to an events post does not mention the cancellation.
CancelAnswer_Never(j) == FALSE

CancelAnswer(j) == cancel[j]

HandlePost ==
    /\ post # "none"
    /\ status' = Told(current, post)
    /\ announced' = (announced \/ post = "start")
    /\ told' = (told \/ (post = "events" /\ CancelAnswer(current)))
    /\ child' = IF told' THEN Kill({current}) ELSE child
    /\ post' = "none"
    /\ UNCHANGED <<kind, cancel, asked, cmd, net, box, current, at, stray, past,
                   trouble>>

\* _post swallows the failure: the request, or its answer, got lost.
PostFails ==
    /\ post # "none" /\ Class(post) \in Lose
    /\ stray' = IF Late THEN stray \cup {[job |-> current, op |-> post]} ELSE stray
    /\ unheard' = unheard \cup
          IF post \in Outcomes THEN Cut ELSE {<<current, post>>}
    /\ post' = "none"
    /\ UNCHANGED <<row, asked, cmd, net, box, current, at, child, told, announced, begun,
                   spent, trouble>>

Stray(m) ==
    /\ m \in stray
    /\ stray' = stray \ {m}
    /\ status' \in {status, Told(m.job, m.op)}
    /\ UNCHANGED <<kind, cancel, asked, cmd, net, box, thread, past, trouble>>

-----------------------------------------------------------------------------
Loop   == Report \/ PopCommand \/ JobsPending \/ Accept \/ Obey \/ NoUpdate \/ Respawn
Ending == Drop \/ Refuse \/ ActionEnds \/ Finish
Thread == Take \/ Respawned \/ LaunchRelay \/ RelayEnds \/ Launch \/ Ending \/ Done

Next ==
    \/ \E j \in Job : Create(j) \/ AskCancel(j) \/ DoCancel(j)
    \/ \E old \in SUBSET Job : Prune(old)
    \/ Loop \/ PushFails \/ Command \/ Update \/ Crash
    \/ Pump \/ Thread \/ ChildEnds \/ Flush \/ Notice
    \/ HandlePost \/ PostFails \/ \E m \in stray : Stray(m)

Spec == Init /\ [][Next]_vars

\* The agent goes on reporting and some replies arrive; what it runs with a
\* time limit ends; a claude process prints, but need not end by itself; some
\* of the events posts are answered.
FairSpec ==
    /\ Spec
    /\ WF_vars(Loop) /\ SF_vars(PopCommand) /\ SF_vars(JobsPending) /\ SF_vars(Accept)
    /\ WF_vars(Pump) /\ WF_vars(Thread)
    /\ WF_vars(Flush) /\ WF_vars(HandlePost \/ PostFails)
    /\ SF_vars(post = "events" /\ HandlePost)
    /\ \A j \in Job : WF_vars(DoCancel(j))

-----------------------------------------------------------------------------
\* However often the hub hands a job out, it is taken up once; a second time
\* only if the hub had not heard of the first when its agent was restarted, or
\* never heard anything of it (`seen` of accept(), jobs_pending_for()).
RunsOnce == \A j \in Job : begun[j] > 1 => <<j, "start">> \in unheard

\* A job that the hub shows as running is being worked on, unless a report of
\* it failed or its agent was restarted under it.
Attended ==
    \A j \in Job : status[j] = "running" => current = j \/ \E c \in {"start", "end"} : <<j, c>> \in unheard

\* A cancellation reaches the process: through the next reply, or the answer
\* to an events post when the hub takes the job for cancelled already.
CancelStops ==
    \A j \in Job : (cancel[j] /\ current = j /\ child = "alive") ~> child # "alive" \/ current # j

\* A cancelled job comes to its end at the hub, unless its end got lost.
CancelSettles ==
    \A j \in Job : (cancel[j] /\ status[j] = "running")
                       ~> (status[j] \in Outcomes \/ <<j, "end">> \in unheard)

\* A queued job is not forgotten, whatever replies are lost and wherever the
\* agent is restarted: it is handed out again until it is taken up - unless it
\* got the id of a pruned job that the agent remembers (accept()).
QueuedTaken ==
    \A j \in Job : status[j] = "queued"
                       ~> \/ status[j] # "queued" \/ current # 0
                          \/ <<j, "start">> \in unheard \/ j \in spent
=============================================================================
