-------------------------- MODULE ClaudeJobsProofs --------------------------
(***************************************************************************)
(* Theorems about ClaudeJobs for any number of jobs of any kinds, any mix  *)
(* of lost calls and any number of restarts of the agent.                  *)
(***************************************************************************)
EXTENDS ClaudeJobs, TLAPS

Settled(j) == status[j] \notin {"none", "queued"}
Missed(j)  == \E c \in {"start", "end"} : <<j, c>> \in unheard

\* What waits to be worked on, and what is worked on, was accepted.
SeenInv ==
    /\ queue \subseteq seen
    /\ current # 0 => current \in seen
    /\ current \notin queue

\* Only a job in work posts, and at its end it posts its outcome.
PostInv ==
    /\ at = "off" => post = "none"
    /\ at = "closing" => post \in Outcomes \cup {"none"}

\* A job whose start was handled is past its waiting.
AnnouncedInv == announced => current # 0 /\ Settled(current)

\* A job that was taken up, and whose start the hub did not miss, cannot be
\* taken up again: it does not wait, the hub is past offering it or the agent
\* knows it, and it stays so when it is done.
TakenInv ==
    \A j \in Job :
        begun[j] >= 1 /\ <<j, "start">> \notin unheard =>
            /\ j \notin queue
            /\ current = j => at # "picked"
            /\ current # j \/ (at = "closing" /\ post = "none") => Settled(j)
            /\ j \in reply.jobs => j \in seen

\* A start that is still under way without its sender belongs to a job of
\* which the hub missed something.
StrayInv == \A m \in stray : m.op = "start" => Missed(m.job)

\* A job whose outcome was posted is not running any more, or it was missed.
ClosedInv ==
    at = "closing" /\ post = "none" => status[current] # "running" \/ Missed(current)

IInv == SeenInv /\ PostInv /\ AnnouncedInv /\ TakenInv /\ StrayInv /\ ClosedInv
        /\ RunsOnce /\ Attended

-----------------------------------------------------------------------------
(* The steps, gathered by what they touch. *)

Phases == {"off", "picked", "action", "respawn", "relaying", "relay", "ready",
           "running", "closing"}

\* A step of the job thread that works on its job and does not yet let it go.
Work ==
    /\ at \notin {"off", "closing"} /\ post = "none"
    /\ at' \in Phases \ {"off", "picked"}
    /\ child' \in {"none", "alive", "exited", "flushed"}
    /\ told' \in BOOLEAN
    /\ post' \in Ops \cup {"none"}
    /\ at' = "closing" => post' \in Outcomes
    /\ begun' = begun \/ (at = "picked" /\ Taken)
    /\ UNCHANGED <<row, asked, cmd, net, box, current, announced, stray, unheard,
                   spent, trouble>>

Working == Take \/ Respawned \/ LaunchRelay \/ RelayEnds \/ Launch \/ Ending
           \/ Flush \/ Notice

LEMMA WorkingWorks == TypeOK /\ Working => Work
<1> SUFFICES ASSUME TypeOK, Working PROVE Work
  OBVIOUS
<1> USE DEF Step, Work, Ops, Outcomes, Phases, TypeOK
<1>1. CASE Take
  BY <1>1 DEF Take
<1>2. CASE Respawned
  BY <1>2 DEF Respawned, Quiet, End
<1>3. CASE LaunchRelay
  BY <1>3 DEF LaunchRelay, Quiet
<1>4. CASE RelayEnds
  BY <1>4 DEF RelayEnds, NotSent, End
<1>5. CASE Launch
  BY <1>5 DEF Launch, End
<1>6. CASE Drop \/ Refuse \/ ActionEnds
  BY <1>6 DEF Drop, Refuse, ActionEnds, End
<1>7. CASE Finish
  BY <1>7 DEF Finish, End
<1>8. CASE Flush \/ Notice
  BY <1>8 DEF Flush, Notice
<1>9. QED
  BY <1>1, <1>2, <1>3, <1>4, <1>5, <1>6, <1>7, <1>8 DEF Working, Ending

\* A step of the main loop or of a hub operator that no job can tell.
Aside ==
    /\ asked' \in [Job -> {"none", "queued", "running"}]
    /\ cmd' \in BOOLEAN
    /\ main' \in {"sleep", "sent", "popped", "answer", "accepted", "respawn", "offer"}
    /\ reply' \in [jobs : SUBSET Job, cancel : SUBSET Job, cmd : BOOLEAN]
    /\ reply'.jobs \in {{}, reply.jobs}
    /\ trouble' \in Nat
    /\ child' \in {"none", "alive", "exited", "flushed"}
    /\ UNCHANGED <<row, box, current, at, told, post, announced, stray, past>>

LEMMA NoJob == 0 \notin Job
BY JobsAssumption DEF Job

LEMMA ReplyType ==
    ASSUME NEW S \in SUBSET Job, NEW T \in SUBSET Job, NEW b \in BOOLEAN
    PROVE  [jobs |-> S, cancel |-> T, cmd |-> b]
               \in [jobs : SUBSET Job, cancel : SUBSET Job, cmd : BOOLEAN]
OBVIOUS

LEMMA NoReplyType ==
    /\ NoReply \in [jobs : SUBSET Job, cancel : SUBSET Job, cmd : BOOLEAN]
    /\ NoReply.jobs = {}
BY ReplyType DEF NoReply

LEMMA AsideSteps ==
    ASSUME TypeOK,
           \/ \E j \in Job : AskCancel(j)
           \/ Command \/ Report \/ PopCommand \/ PushFails \/ Obey \/ NoUpdate \/ ChildEnds
    PROVE  Aside
<1> USE DEF TypeOK, Aside, row, net, box, thread, past
<1>1. CASE \E j \in Job : AskCancel(j)
  BY <1>1 DEF AskCancel
<1>2. CASE Command \/ Report
  <2>1. cmd' \in BOOLEAN
    BY <1>2, Zenon DEF Command, Report
  <2>2. QED
    BY <1>2, <2>1 DEF Command, Report, Trouble
<1>5. CASE NoUpdate \/ ChildEnds
  BY <1>5 DEF NoUpdate, ChildEnds
<1>3. CASE PopCommand
  <2>1. /\ reply' \in [jobs : SUBSET Job, cancel : SUBSET Job, cmd : BOOLEAN]
        /\ reply'.jobs = {}
    BY <1>3, ReplyType DEF PopCommand
  <2>2. QED
    BY <1>3, <2>1 DEF PopCommand
<1>4. CASE PushFails \/ Obey
  BY <1>4, NoReplyType DEF PushFails, Obey
<1>6. QED
  BY <1>1, <1>2, <1>3, <1>4, <1>5

LEMMA Restarts == Respawn \/ Update \/ Crash => Restart /\ trouble' \in {trouble, trouble + 1}
BY DEF Respawn, Update, Crash, Trouble

LEMMA Steps ==
    ASSUME TypeOK, [Next]_vars
    PROVE  \/ \E j \in Job : Create(j) \/ DoCancel(j)
           \/ Aside \/ JobsPending \/ Accept \/ Pump
           \/ Restart /\ trouble' \in {trouble, trouble + 1}
           \/ Work \/ Done \/ HandlePost \/ PostFails \/ (\E m \in stray : Stray(m))
           \/ (\E old \in SUBSET Job : Prune(old))
           \/ UNCHANGED vars
<1>1. CASE Working
  BY <1>1, WorkingWorks
<1>2. CASE Respawn \/ Update \/ Crash
  BY <1>2, Restarts
<1>3. CASE \/ \E j \in Job : AskCancel(j)
           \/ Command \/ Report \/ PopCommand \/ PushFails \/ Obey \/ NoUpdate \/ ChildEnds
  BY <1>3, AsideSteps
<1>4. QED
  BY <1>1, <1>2, <1>3, Zenon DEF Next, Loop, Thread, Working

-----------------------------------------------------------------------------
(* Types. *)

LEMMA PumpType ==
    ASSUME TypeOK, NEW q \in SUBSET Job, PumpFrom(q)
    PROVE  /\ queue' \in SUBSET Job
           /\ current' \in Job \cup {0}
           /\ at' \in Phases
           /\ current' = 0 <=> at' = "off"
<1> USE DEF TypeOK, Phases
<1>1. CASE UNCHANGED <<current, at>>
  BY <1>1 DEF PumpFrom
<1>2. CASE at' = "picked" /\ current' \in q /\ queue' = q \ {current'}
  <2>1. current' \in Job /\ queue' \in SUBSET Job
    BY <1>2
  <2>2. current' # 0
    BY <2>1, JobsAssumption DEF Job
  <2>3. QED
    BY <1>2, <2>1, <2>2
<1>3. QED
  BY <1>1, <1>2 DEF PumpFrom

LEMMA InitType == Init => TypeOK
<1> SUFFICES ASSUME Init PROVE TypeOK
  OBVIOUS
<1>1. cmd \in BOOLEAN /\ told \in BOOLEAN /\ announced \in BOOLEAN
  BY Zenon DEF Init
<1>2. /\ kind \in [Job -> AllKinds \cup {"none"}]
      /\ status \in [Job -> {"none", "queued", "running"} \cup Outcomes]
      /\ cancel \in [Job -> BOOLEAN]
      /\ asked \in [Job -> {"none", "queued", "running"}]
      /\ begun \in [Job -> Nat]
  BY DEF Init
<1>3. QED
  BY <1>1, <1>2, NoReplyType DEF Init, TypeOK

LEMMA StepType == TypeOK /\ PostInv /\ [Next]_vars => TypeOK'
<1> SUFFICES ASSUME TypeOK, PostInv, [Next]_vars PROVE TypeOK'
  OBVIOUS
<1> USE DEF TypeOK, PostInv, row, net, box, thread, past
<1>1. ASSUME NEW j \in Job, Create(j) PROVE TypeOK'
  <2>1. Kinds[j] \subseteq AllKinds
    BY JobsAssumption
  <2>2. QED
    BY <1>1, <2>1 DEF Create
<1>2. ASSUME NEW j \in Job, DoCancel(j) PROVE TypeOK'
  BY <1>2 DEF DoCancel, Outcomes
<1>3. CASE Aside
  BY <1>3 DEF Aside
<1>4. CASE JobsPending
  <2>1. HandOut \in SUBSET Job /\ ToCancel \in SUBSET Job /\ reply.cmd \in BOOLEAN
    BY DEF HandOut, ToCancel
  <2>2. reply' \in [jobs : SUBSET Job, cancel : SUBSET Job, cmd : BOOLEAN]
    BY <1>4, <2>1, ReplyType DEF JobsPending
  <2>3. QED
    BY <1>4, <2>2 DEF JobsPending
<1>5. CASE Accept
  <2>1. child' \in {"none", "alive", "exited", "flushed"}
    BY <1>5 DEF Accept, Kill
  <2>2. seen' \in SUBSET Job /\ cancelIds' \in SUBSET Job
    BY <1>5 DEF Accept, New
  <2>3. CASE UNCHANGED <<box, current, at, child>>
    BY <1>5, <2>3 DEF Accept
  <2>4. CASE PumpFrom((queue \cup New) \ reply.cancel)
    <3>1. (queue \cup New) \ reply.cancel \in SUBSET Job
      BY DEF New
    <3>2. /\ queue' \in SUBSET Job /\ current' \in Job \cup {0}
          /\ at' \in Phases
          /\ current' = 0 <=> at' = "off"
      BY <2>4, <3>1, PumpType
    <3>3. QED
      BY <1>5, <2>1, <2>2, <3>2 DEF Accept, Phases
  <2>5. QED
    BY <1>5, <2>3, <2>4 DEF Accept
<1>6. CASE Pump
  BY <1>6, PumpType DEF Pump, Phases
<1>7. CASE Restart /\ trouble' \in {trouble, trouble + 1}
  <2>1. stray' \in SUBSET Post
    BY <1>7 DEF Restart, Post
  <2>2. unheard' \in SUBSET (Job \X {"start", "events", "end"})
    BY <1>7 DEF Restart, Cut
  <2>3. told' \in BOOLEAN /\ announced' \in BOOLEAN
    BY <1>7, Zenon DEF Restart
  <2>4. QED
    BY <1>7, <2>1, <2>2, <2>3, NoReplyType DEF Restart, Remembered
<1>8. CASE Work
  BY <1>8 DEF Work, Taken, Phases
<1>9. CASE Done
  BY <1>9 DEF Done
<1>10. CASE HandlePost
  BY <1>10 DEF HandlePost, Told, Kill, Outcomes
<1>11. CASE PostFails
  BY <1>11 DEF PostFails, Post, Cut, Ops, Outcomes, Class
<1>12. ASSUME NEW m \in stray, Stray(m) PROVE TypeOK'
  BY <1>12 DEF Stray, Told, Post, Outcomes
<1>13. CASE UNCHANGED vars
  BY <1>13 DEF vars
<1>14. ASSUME NEW old \in SUBSET Job, Prune(old) PROVE TypeOK'
  <2>1. cancel' \in [Job -> BOOLEAN]
    BY <1>14, Zenon DEF Prune
  <2>2. /\ kind' \in [Job -> AllKinds \cup {"none"}]
        /\ status' \in [Job -> {"none", "queued", "running"} \cup Outcomes]
        /\ begun' \in [Job -> Nat]
        /\ unheard' \in SUBSET (Job \X {"start", "events", "end"})
        /\ spent' \in SUBSET Job
    BY <1>14 DEF Prune
  <2>3. QED
    BY <1>14, <2>1, <2>2 DEF Prune
<1>15. QED
  BY <1>1, <1>2, <1>3, <1>4, <1>5, <1>6, <1>7, <1>8, <1>9, <1>10, <1>11, <1>12, <1>13,
     <1>14, Steps

LEMMA PostStep == TypeOK /\ PostInv /\ [Next]_vars => PostInv'
<1> SUFFICES ASSUME TypeOK, PostInv, [Next]_vars PROVE PostInv'
  OBVIOUS
<1> USE DEF TypeOK, PostInv, thread
<1>1. CASE \/ \E j \in Job : Create(j) \/ DoCancel(j)
           \/ Aside \/ JobsPending \/ UNCHANGED vars
           \/ \E old \in SUBSET Job : Prune(old)
  BY <1>1 DEF Create, DoCancel, Aside, JobsPending, Prune, vars
<1>2. CASE Accept \/ Pump
  BY <1>2 DEF Accept, Pump, PumpFrom
<1>3. CASE Restart \/ Done
  BY <1>3 DEF Restart, Done
<1>4. CASE Work
  BY <1>4 DEF Work
<1>5. CASE HandlePost \/ PostFails
  BY <1>5 DEF HandlePost, PostFails
<1>6. CASE \E m \in stray : Stray(m)
  BY <1>6 DEF Stray
<1>7. QED
  BY <1>1, <1>2, <1>3, <1>4, <1>5, <1>6, Steps

\* Every variable keeps its type; the agent has a job in work exactly when its
\* thread is on the way (ClaudeRunner.current).
THEOREM TypeCorrect == Spec => []TypeOK
<1>1. Init => TypeOK /\ PostInv
  BY InitType DEF Init, PostInv
<1>2. TypeOK /\ PostInv /\ [Next]_vars => (TypeOK /\ PostInv)'
  BY StepType, PostStep
<1>3. QED
  BY <1>1, <1>2, PTL DEF Spec

-----------------------------------------------------------------------------
(* The invariant. *)

LEMMA InitInv == Init => IInv
<1> SUFFICES ASSUME Init PROVE IInv
  OBVIOUS
<1> USE DEF Init
<1>1. SeenInv /\ PostInv /\ AnnouncedInv /\ ClosedInv
  BY DEF SeenInv, PostInv, AnnouncedInv, ClosedInv
<1>2. TakenInv /\ StrayInv
  BY DEF TakenInv, StrayInv
<1>3. RunsOnce /\ Attended
  BY DEF RunsOnce, Attended
<1>4. QED
  BY <1>1, <1>2, <1>3 DEF IInv

LEMMA HubKeeps ==
    ASSUME TypeOK, IInv, NEW j \in Job, Create(j) \/ DoCancel(j)
    PROVE  IInv'
<1> USE DEF TypeOK, IInv, net, box, thread, past, Settled, Missed
<1>1. /\ UNCHANGED <<reply, queue, seen, current, at, post, stray, announced, begun, unheard>>
      /\ \A i \in Job : Settled(i) => Settled(i)'
      /\ \A i \in Job : status'[i] = "running" => status[i] = "running"
  <2>1. Create(j) => status[j] = "none"
    BY JobsAssumption DEF Create, Job
  <2>2. QED
    BY <2>1 DEF Create, DoCancel
<1>2. SeenInv' /\ PostInv' /\ StrayInv'
  BY <1>1 DEF SeenInv, PostInv, StrayInv
<1>3. AnnouncedInv' /\ ClosedInv'
  BY <1>1 DEF AnnouncedInv, ClosedInv
<1>4. TakenInv'
  BY <1>1 DEF TakenInv
<1>5. RunsOnce' /\ Attended'
  BY <1>1 DEF RunsOnce, Attended
<1>6. QED
  BY <1>2, <1>3, <1>4, <1>5

\* Nothing is left of a pruned job that any other state could be about.
LEMMA PruneKeeps == ASSUME TypeOK, IInv, NEW old \in SUBSET Job, Prune(old) PROVE IInv'
<1> USE DEF TypeOK, IInv, net, box, thread, Settled, Missed
<1>1. /\ UNCHANGED <<reply, queue, seen, current, at, post, stray, announced>>
      /\ current \notin old /\ queue \cap old = {}
      /\ \A m \in stray : m.job \notin old
      /\ \A j \in Job \ old : status'[j] = status[j] /\ begun'[j] = begun[j]
      /\ \A j \in old : status'[j] = "none" /\ begun'[j] = 0
      /\ \A j \in Job \ old, c \in {"start", "events", "end"} :
            <<j, c>> \in unheard' <=> <<j, c>> \in unheard
  BY DEF Prune, Forgotten
<1>2. SeenInv' /\ PostInv'
  BY <1>1 DEF SeenInv, PostInv
<1>3. StrayInv'
  <2>1. \A m \in stray : m.job \in Job \ old
    BY <1>1 DEF Post
  <2>2. QED
    BY <1>1, <2>1 DEF StrayInv
<1>4. AnnouncedInv' /\ ClosedInv'
  BY <1>1, NoJob DEF AnnouncedInv, ClosedInv
<1>5. TakenInv'
  <2> SUFFICES ASSUME NEW j \in Job, begun'[j] >= 1, <<j, "start">> \notin unheard'
               PROVE  /\ j \notin queue
                      /\ current = j => at # "picked"
                      /\ current # j \/ (at = "closing" /\ post = "none") => Settled(j)'
                      /\ j \in reply.jobs => j \in seen
    BY <1>1 DEF TakenInv
  <2>1. j \notin old
    BY <1>1
  <2>2. begun[j] >= 1 /\ <<j, "start">> \notin unheard /\ status'[j] = status[j]
    BY <1>1, <2>1
  <2>3. QED
    BY <2>2 DEF TakenInv
<1>6. RunsOnce' /\ Attended'
  <2>1. RunsOnce'
    <3> SUFFICES ASSUME NEW j \in Job, begun'[j] > 1 PROVE <<j, "start">> \in unheard'
      BY DEF RunsOnce
    <3>1. j \notin old /\ begun[j] > 1
      BY <1>1
    <3>2. QED
      BY <1>1, <3>1 DEF RunsOnce
  <2>2. ASSUME NEW j \in Job, status'[j] = "running" PROVE current = j \/ Missed(j)'
    <3>1. j \notin old /\ status[j] = "running"
      BY <1>1, <2>2
    <3>2. current = j \/ Missed(j)
      BY <3>1 DEF Attended
    <3>3. QED
      BY <1>1, <3>1, <3>2
  <2>3. QED
    BY <1>1, <2>1, <2>2 DEF Attended
<1>7. QED
  BY <1>2, <1>3, <1>4, <1>5, <1>6

LEMMA AsideKeeps == ASSUME TypeOK, IInv, Aside PROVE IInv'
<1> USE DEF TypeOK, IInv, Aside, row, box, past, Settled, Missed
<1>1. SeenInv' /\ PostInv' /\ StrayInv' /\ AnnouncedInv' /\ ClosedInv'
  BY DEF SeenInv, PostInv, StrayInv, AnnouncedInv, ClosedInv
<1>2. TakenInv'
  BY DEF TakenInv
<1>3. RunsOnce' /\ Attended'
  BY DEF RunsOnce, Attended
<1>4. QED
  BY <1>1, <1>2, <1>3

LEMMA PendingKeeps == ASSUME TypeOK, IInv, JobsPending PROVE IInv'
<1> USE DEF TypeOK, IInv, JobsPending, row, box, thread, past, Settled, Missed
<1>1. SeenInv' /\ PostInv' /\ StrayInv' /\ AnnouncedInv' /\ ClosedInv'
  BY DEF SeenInv, PostInv, StrayInv, AnnouncedInv, ClosedInv
<1>2. TakenInv'
  BY NoJob DEF TakenInv, HandOut, SeenInv
<1>3. RunsOnce' /\ Attended'
  BY DEF RunsOnce, Attended
<1>4. QED
  BY <1>1, <1>2, <1>3

\* What is pumped was accepted, and what is accepted is new to the agent.
LEMMA PumpKeeps ==
    ASSUME TypeOK, IInv, NEW q \in SUBSET Job, PumpFrom(q), q \subseteq seen',
           seen \subseteq seen', q \subseteq queue \cup (reply.jobs \ seen),
           UNCHANGED <<row, reply, stray, post, announced, unheard, begun>>
    PROVE  IInv'
<1> USE DEF TypeOK, IInv, row, Settled, Missed
<1>1. \/ UNCHANGED <<current, at>> /\ queue' = q
      \/ current = 0 /\ current' \in q /\ queue' = q \ {current'} /\ at' = "picked"
  BY DEF PumpFrom
<1>2. SeenInv'
  BY <1>1, NoJob DEF SeenInv
<1>3. PostInv' /\ StrayInv' /\ ClosedInv'
  BY <1>1 DEF PostInv, StrayInv, ClosedInv
<1>4. AnnouncedInv'
  BY <1>1 DEF AnnouncedInv
<1>5. TakenInv'
  BY <1>1, NoJob DEF TakenInv
<1>6. RunsOnce' /\ Attended'
  BY <1>1, NoJob DEF RunsOnce, Attended
<1>7. QED
  BY <1>2, <1>3, <1>4, <1>5, <1>6

LEMMA AcceptKeeps == ASSUME TypeOK, IInv, Accept \/ Pump PROVE IInv'
<1> USE DEF TypeOK, row, net, past
<1>1. CASE Pump
  <2>1. PumpFrom(queue) /\ seen' = seen /\ queue \subseteq seen
    BY <1>1 DEF Pump, IInv, SeenInv
  <2>2. UNCHANGED <<row, reply, stray, post, announced, unheard, begun>>
    BY <1>1 DEF Pump
  <2>3. QED
    BY <2>1, <2>2, PumpKeeps
<1>2. CASE Accept /\ PumpFrom((queue \cup New) \ reply.cancel) /\ seen' = seen \cup New
  <2>1. /\ (queue \cup New) \ reply.cancel \in SUBSET Job
        /\ (queue \cup New) \ reply.cancel \subseteq queue \cup (reply.jobs \ seen)
        /\ (queue \cup New) \ reply.cancel \subseteq seen'
        /\ seen \subseteq seen'
    BY <1>2 DEF New, IInv, SeenInv
  <2>2. UNCHANGED <<row, reply, stray, post, announced, unheard, begun>>
    BY <1>2 DEF Accept
  <2>3. QED
    BY <1>2, <2>1, <2>2, PumpKeeps
<1>3. CASE Accept /\ UNCHANGED <<box, current, at, child>>
  BY <1>3, AsideKeeps DEF Accept, Aside
<1>4. QED
  BY <1>1, <1>2, <1>3 DEF Accept

LEMMA RestartKeeps == ASSUME TypeOK, IInv, Restart PROVE IInv'
<1> USE DEF TypeOK, IInv, Settled, Missed, row
<1>1. /\ UNCHANGED <<status, begun>>
      /\ reply'.jobs = {} /\ queue' = {} /\ seen' = {} /\ current' = 0 /\ at' = "off"
      /\ post' = "none" /\ announced' = FALSE /\ unheard' = unheard \cup Cut
      /\ stray' = IF post = "none" THEN stray
                  ELSE stray \cup {[job |-> current, op |-> post]}
  BY NoReplyType DEF Restart, Remembered
<1>2. current # 0 => /\ <<current, "end">> \in unheard'
                     /\ announced \/ at = "picked" \/ <<current, "start">> \in unheard'
  BY <1>1 DEF Cut
<1>3. SeenInv' /\ PostInv' /\ AnnouncedInv' /\ ClosedInv'
  BY <1>1, NoJob DEF SeenInv, PostInv, AnnouncedInv, ClosedInv
<1>4. TakenInv'
  BY <1>1, <1>2, NoJob DEF TakenInv, AnnouncedInv
<1>5. StrayInv'
  <2> SUFFICES ASSUME NEW m \in stray', m.op = "start" PROVE Missed(m.job)'
    BY DEF StrayInv
  <2>1. CASE m \in stray
    BY <2>1, <1>1 DEF StrayInv
  <2>2. CASE post # "none" /\ m = [job |-> current, op |-> post]
    BY <2>2, <1>1, <1>2 DEF PostInv
  <2>3. QED
    BY <2>1, <2>2, <1>1
<1>6. RunsOnce' /\ Attended'
  BY <1>1, <1>2, NoJob DEF RunsOnce, Attended
<1>7. QED
  BY <1>3, <1>4, <1>5, <1>6

LEMMA WorkKeeps == ASSUME TypeOK, IInv, Work PROVE IInv'
<1> USE DEF TypeOK, IInv, Work, row, net, box, Settled, Missed
<1>1. SeenInv' /\ PostInv' /\ StrayInv' /\ AnnouncedInv' /\ ClosedInv'
  BY DEF SeenInv, PostInv, StrayInv, AnnouncedInv, ClosedInv, Outcomes
<1>2. current \in Job /\ current \in seen /\ current \notin queue
  BY DEF SeenInv
<1>3. at = "picked" /\ begun[current] >= 1 => <<current, "start">> \in unheard
  BY <1>2 DEF TakenInv
<1>4. TakenInv'
  <2> SUFFICES ASSUME NEW j \in Job, begun'[j] >= 1, <<j, "start">> \notin unheard
               PROVE  /\ j \notin queue
                      /\ current = j => at' # "picked"
                      /\ current # j \/ (at' = "closing" /\ post' = "none") => Settled(j)
                      /\ j \in reply.jobs => j \in seen
    BY DEF TakenInv
  <2>1. CASE j = current
    BY <2>1, <1>2 DEF Outcomes
  <2>2. CASE j # current
    <3>1. begun[j] >= 1
      BY <2>2 DEF Taken
    <3>2. QED
      BY <2>2, <3>1 DEF TakenInv
  <2>3. QED
    BY <2>1, <2>2
<1>5. RunsOnce'
  BY <1>2, <1>3 DEF RunsOnce, Taken
<1>6. Attended'
  BY DEF Attended
<1>7. QED
  BY <1>1, <1>4, <1>5, <1>6

\* The thread lets its job go after its outcome was posted.
LEMMA DoneKeeps == ASSUME TypeOK, IInv, Done PROVE IInv'
<1> USE DEF TypeOK, IInv, Done, row, net, box, past, Settled, Missed
<1>1. SeenInv' /\ PostInv' /\ StrayInv' /\ AnnouncedInv' /\ ClosedInv'
  BY NoJob DEF SeenInv, PostInv, StrayInv, AnnouncedInv, ClosedInv
<1>2. TakenInv'
  BY NoJob DEF TakenInv
<1>3. RunsOnce' /\ Attended'
  BY DEF RunsOnce, Attended, ClosedInv
<1>4. QED
  BY <1>1, <1>2, <1>3

LEMMA ToldSettles ==
    ASSUME TypeOK, NEW j \in Job, NEW op \in Ops, NEW i \in Job
    PROVE  /\ Told(j, op)[i] \notin {"none", "queued"} \/ Told(j, op)[i] = status[i]
           /\ op # "events" => Told(j, op)[j] \notin {"none", "queued"}
           /\ op \in Outcomes => Told(j, op)[j] # "running"
           /\ Told(j, op)[i] = "running" => status[i] = "running" \/ (i = j /\ op = "start")
BY DEF TypeOK, Told, Ops, Outcomes

LEMMA HandleKeeps == ASSUME TypeOK, IInv, HandlePost PROVE IInv'
<1> USE DEF TypeOK, IInv, HandlePost, net, box, past
<1>1. current \in Job /\ post \in Ops
  BY DEF PostInv
<1>2. \A i \in Job : /\ Settled(i) => Settled(i)'
                     /\ status'[i] = "running" => status[i] = "running" \/ i = current
  BY <1>1, ToldSettles DEF Settled
<1>3. /\ post # "events" => Settled(current)'
      /\ post \in Outcomes => status'[current] # "running"
  BY <1>1, ToldSettles DEF Settled
<1>4. SeenInv' /\ PostInv' /\ StrayInv'
  BY DEF SeenInv, PostInv, StrayInv, Missed
<1>5. AnnouncedInv'
  <2>1. announced' => announced \/ post = "start"
    OBVIOUS
  <2>2. QED
    BY <1>1, <1>2, <1>3, <2>1, NoJob DEF AnnouncedInv
<1>6. ClosedInv'
  BY <1>3 DEF ClosedInv, PostInv, Missed
<1>7. TakenInv'
  <2>1. at = "closing" => Settled(current)'
    BY <1>3 DEF PostInv, Outcomes
  <2>2. QED
    BY <1>2, <2>1 DEF TakenInv
<1>8. RunsOnce' /\ Attended'
  BY <1>2 DEF RunsOnce, Attended
<1>9. QED
  BY <1>4, <1>5, <1>6, <1>7, <1>8

LEMMA FailKeeps == ASSUME TypeOK, IInv, PostFails PROVE IInv'
<1> USE DEF TypeOK, IInv, row, net, box, Settled, Missed
<1>1. /\ UNCHANGED <<status, reply, queue, seen, current, at, announced, begun>>
      /\ post' = "none" /\ post # "none"
      /\ stray' \in {stray, stray \cup {[job |-> current, op |-> post]}}
      /\ unheard' = unheard \cup IF post \in Outcomes THEN Cut ELSE {<<current, post>>}
  BY DEF PostFails
<1>2. current \in Job /\ at # "off"
  BY <1>1 DEF PostInv
<1>3. post \in Outcomes => /\ <<current, "end">> \in unheard'
                           /\ announced \/ at = "picked" \/ <<current, "start">> \in unheard'
  BY <1>1, <1>2, NoJob DEF Cut
<1>4. SeenInv' /\ PostInv' /\ AnnouncedInv'
  BY <1>1, <1>2 DEF SeenInv, PostInv, AnnouncedInv
<1>5. StrayInv'
  <2> SUFFICES ASSUME NEW m \in stray', m.op = "start" PROVE Missed(m.job)'
    BY DEF StrayInv
  <2>1. CASE m \in stray
    BY <2>1, <1>1 DEF StrayInv
  <2>2. CASE m = [job |-> current, op |-> post]
    BY <2>2, <1>1 DEF Outcomes
  <2>3. QED
    BY <2>1, <2>2, <1>1
<1>6. ClosedInv'
  BY <1>1, <1>3 DEF ClosedInv, PostInv
<1>7. TakenInv'
  BY <1>1, <1>2, <1>3 DEF TakenInv, PostInv, AnnouncedInv
<1>8. RunsOnce' /\ Attended'
  BY <1>1 DEF RunsOnce, Attended
<1>9. QED
  BY <1>4, <1>5, <1>6, <1>7, <1>8

LEMMA StrayKeeps == ASSUME TypeOK, IInv, NEW m \in stray, Stray(m) PROVE IInv'
<1> USE DEF TypeOK, IInv, Stray, net, box, thread, past
<1>1. m.job \in Job /\ m.op \in Ops
  BY DEF Post
<1>2. \A i \in Job : /\ Settled(i) => Settled(i)'
                     /\ status'[i] = "running" => status[i] = "running" \/ Missed(i)
  BY <1>1, ToldSettles DEF Settled, StrayInv, Missed
<1>3. SeenInv' /\ PostInv' /\ StrayInv'
  BY DEF SeenInv, PostInv, StrayInv, Missed
<1>4. AnnouncedInv' /\ ClosedInv'
  BY <1>2 DEF AnnouncedInv, ClosedInv, Missed
<1>5. TakenInv'
  BY <1>2 DEF TakenInv
<1>6. RunsOnce' /\ Attended'
  BY <1>2 DEF RunsOnce, Attended, Missed
<1>7. QED
  BY <1>3, <1>4, <1>5, <1>6

LEMMA StepInv == TypeOK /\ IInv /\ [Next]_vars => IInv'
<1> SUFFICES ASSUME TypeOK, IInv, [Next]_vars PROVE IInv'
  OBVIOUS
<1>1. CASE UNCHANGED vars
  BY <1>1, AsideKeeps DEF vars, Aside, row, net, box, thread, past, TypeOK
<1>2. CASE \E j \in Job : Create(j) \/ DoCancel(j)
  BY <1>2, HubKeeps
<1>3. CASE Aside \/ JobsPending \/ Accept \/ Pump \/ Restart
  BY <1>3, AsideKeeps, PendingKeeps, AcceptKeeps, RestartKeeps
<1>4. CASE Work \/ Done \/ HandlePost \/ PostFails
  BY <1>4, WorkKeeps, DoneKeeps, HandleKeeps, FailKeeps
<1>5. CASE \E m \in stray : Stray(m)
  BY <1>5, StrayKeeps
<1>6. CASE \E old \in SUBSET Job : Prune(old)
  BY <1>6, PruneKeeps
<1>7. QED
  BY <1>1, <1>2, <1>3, <1>4, <1>5, <1>6, Steps

\* The inductive invariant holds of every run of hub and agent.
THEOREM Invariant == Spec => []IInv
<1>1. TypeOK /\ IInv /\ [Next]_vars => (TypeOK /\ IInv)'
  BY StepType, StepInv DEF IInv
<1>2. QED
  BY <1>1, InitType, InitInv, PTL DEF Spec

-----------------------------------------------------------------------------
\* A job handed out again and again is taken up once, unless the hub missed its
\* start (`seen` of accept(), jobs_pending_for()).
THEOREM TakenOnce == Spec => []RunsOnce
<1>1. IInv => RunsOnce
  BY DEF IInv
<1>2. QED
  BY <1>1, Invariant, PTL

\* The hub shows nothing as running that nobody works on, unless a report of it
\* failed or the agent was restarted under it (job_started(), _run_job()).
THEOREM NoneForgotten == Spec => []Attended
<1>1. IInv => Attended
  BY DEF IInv
<1>2. QED
  BY <1>1, Invariant, PTL
=============================================================================
