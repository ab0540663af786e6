--------------------------- MODULE TaskLifeProofs ---------------------------
(***************************************************************************)
(* Theorems about TaskLife for any number of reporters, hosts and task ids *)
(* and any mix of losses, restarts and kills, with the assumptions each    *)
(* of them names.                                                          *)
(***************************************************************************)
EXTENDS TaskLife, TLAPS

\* Every step either leaves the table and the traffic alone, or is one of
\* these.
Marking == MarkLost \/ MarkStalled \/ \E i \in Id : Delete(i) \/ UndoAck(i) \/ Age(i)
Serving == \E m \in net : HandleCreate(m) \/ HandleUpdate(m) \/ GiveUp(m)
Acking  == \E S \in SUBSET Id : Ack(S)
Quiet   == UNCHANGED <<client, net, rows>>

LEMMA Steps ==
    [Next]_vars => \/ (\E r \in Run : Report(r)) \/ Serving \/ Marking \/ Acking
                   \/ Quiet
<1> SUFFICES ASSUME [Next]_vars PROVE (\E r \in Run : Report(r)) \/ Serving \/ Marking
                                     \/ Acking \/ Quiet
  OBVIOUS
<1>1. CASE UNCHANGED vars
  BY <1>1 DEF vars, Quiet
<1>2. CASE \E h \in Host : GoSilent(h) \/ Push(h) \/ PushSeen(h)
  BY <1>2 DEF Quiet, GoSilent, Push, PushSeen
<1>3. CASE ListHosts \/ HostsDone \/ RoundFails \/ HubRestart
  BY <1>3, Zenon DEF Quiet, ListHosts, HostsDone, RoundFails, HubRestart
<1>6. CASE \E h \in Host : Compare(h)
  BY <1>6, Zenon DEF Quiet, Compare
<1>4. CASE (\E r \in Run : Report(r)) \/ Serving \/ Marking \/ Acking
  BY <1>4
<1>5. QED
  BY <1>1, <1>2, <1>3, <1>4, <1>6, Zenon DEF Next, Round, Serving, Marking, Acking

-----------------------------------------------------------------------------
(* Types. *)

LEMMA NoRowType == NoRow \in Row /\ NoRow.status = "none" /\ NoRow.owner = NoRun
                   /\ NoRow.said = NoOutcome
BY DEF NoRow, Row, NoOutcome

LEMMA ChangedType ==
    ASSUME NEW row \in Row, row # NoRow, row.status # "none", row.owner # NoRun,
           NEW s \in Active \cup Marks \cup Outcomes
    PROVE  /\ Changed(row, s) \in Row
           /\ Changed(row, s).status = s
           /\ Changed(row, s).owner = row.owner
           /\ Changed(row, s).said = row.said
BY DEF Changed, Row, Active, Marks, Outcomes

LEMMA UpdatedType ==
    ASSUME NEW row \in Row, row.status # "none", row.owner # NoRun,
           NEW m \in Request, m.op \notin Creates
    PROVE  /\ Updated(row, m) \in Row
           /\ Updated(row, m).status = NewStatus(row, m.op)
           /\ Updated(row, m).status # "none"
           /\ Updated(row, m).owner = row.owner
           /\ Updated(row, m).said = IF m.op \in Outcomes
                                     THEN [run |-> m.run, what |-> m.op] ELSE row.said
<1>1. NewStatus(row, m.op) \in Active \cup Marks \cup Outcomes
  <2>1. m.op \in {"beat", "beat_queued", "admit", "done", "failed"}
    BY DEF Request, Ops, Creates, Outcomes
  <2>2. Given(m.op) \in Active \cup Outcomes \cup {"none"}
    BY <2>1 DEF Given, Active, Outcomes
  <2>3. row.status \in Active \cup Marks \cup Outcomes
    BY DEF Row
  <2>4. QED
    BY <2>2, <2>3 DEF NewStatus, Active
<1>2. row # NoRow
  BY NoRowType
<1>3. /\ Changed(row, NewStatus(row, m.op)) \in Row
      /\ Changed(row, NewStatus(row, m.op)).status = NewStatus(row, m.op)
      /\ Changed(row, NewStatus(row, m.op)).owner = row.owner
      /\ Changed(row, NewStatus(row, m.op)).said = row.said
  BY <1>1, <1>2, ChangedType
<1> DEFINE c == Changed(row, NewStatus(row, m.op)).acked
           sd == IF m.op \in Outcomes THEN [run |-> m.run, what |-> m.op] ELSE row.said
           ns == NewStatus(row, m.op)
<1>4. Updated(row, m) = [owner |-> row.owner, status |-> ns, overdue |-> FALSE,
                         expect |-> row.expect, acked |-> c, said |-> sd]
  BY Zenon DEF Updated
<1>5. c \in BOOLEAN
  BY <1>3 DEF Row
<1>7. sd \in [run : Run \cup {NoRun}, what : Outcomes \cup {"none"}]
  BY DEF Request, Row
<1>9. ns # "none"
  BY <1>1 DEF Active, Marks, Outcomes
<1> HIDE DEF sd, c, ns
<1>10. /\ Updated(row, m) \in Row
       /\ Updated(row, m).status = ns /\ Updated(row, m).owner = row.owner
       /\ Updated(row, m).said = sd
  BY <1>1, <1>4, <1>5, <1>7 DEF Row, ns
<1>11. QED
  BY <1>9, <1>10 DEF sd, ns

LEMMA CreatedType ==
    ASSUME NEW m \in Request, m.op \in Creates
    PROVE  /\ Created(m) \in Row /\ Created(m).owner = m.run
           /\ Created(m).status \in Active /\ Created(m).said = NoOutcome
<1> DEFINE x == Kind[m.run] # "task"
           st == IF m.op = "create" THEN "running" ELSE "queued"
<1>1. Created(m) = [owner |-> m.run, status |-> st, overdue |-> FALSE,
                    expect |-> x, acked |-> FALSE, said |-> NoOutcome]
  BY Zenon DEF Created
<1>2. x \in BOOLEAN
  BY Zenon
<1>3. st \in Active /\ m.run \in Run
  BY DEF Active, Request
<1> HIDE DEF x, st
<1>4. QED
  BY <1>1, <1>2, <1>3 DEF Row, NoOutcome

-----------------------------------------------------------------------------
(* The table alone: whatever a step does to a row is one of these. *)

\* A row is left alone, deleted, marked, aged, (un)acknowledged, or changed by
\* a request that may touch it.
Touched(i) ==
    \/ rows'[i] = rows[i]
    \/ MayDelete /\ rows'[i] = NoRow
    \/ /\ Exists(i) /\ rows[i].status \notin Outcomes
       /\ \E s \in Marks : rows'[i] = Changed(rows[i], s)
    \/ Exists(i) /\ rows'[i] = [rows[i] EXCEPT !.overdue = TRUE]
    \/ /\ Exists(i)
       /\ \E b \in BOOLEAN : rows'[i] = [rows[i] EXCEPT !.acked = b]
    \/ \E m \in net : /\ m.op \in Creates /\ ~Exists(i)
                      /\ rows'[i] = Created(m)
    \/ \E m \in net : /\ m.op \notin Creates /\ m.id = i /\ Mine(m)
                      /\ rows'[i] = Updated(rows[i], m)

LEMMA TableStep ==
    ASSUME TypeOK, [Next]_vars
    PROVE  rows' = [i \in Id |-> rows'[i]] /\ \A i \in Id : Touched(i)
<1> USE DEF TypeOK
<1>0. rows = [i \in Id |-> rows[i]]
  OBVIOUS
<1>1. CASE UNCHANGED rows
  BY <1>0, <1>1 DEF Touched
<1>2. ASSUME NEW r \in Run, Report(r) PROVE UNCHANGED rows
  BY <1>2 DEF Report, Start, Queue, QueueBeat, Admitted, Beat, Finish, Cancel, Kill, Ask
<1>3. ASSUME NEW m \in net, HandleCreate(m) \/ HandleUpdate(m) \/ GiveUp(m)
      PROVE  rows' = [i \in Id |-> rows'[i]] /\ \A i \in Id : Touched(i)
  <2>1. CASE HandleCreate(m)
    <3>1. PICK k \in Id : NextId(k) /\ rows' = [rows EXCEPT ![k] = Created(m)]
      BY <2>1 DEF HandleCreate
    <3>2. ~Exists(k)
      BY <3>1 DEF NextId, Id
    <3>3. m.op \in Creates
      BY <2>1 DEF HandleCreate
    <3>4. Touched(k)
      BY <3>1, <3>2, <3>3, Zenon DEF Touched
    <3>5. \A i \in Id \ {k} : rows'[i] = rows[i]
      BY <3>1
    <3>6. rows' = [i \in Id |-> rows'[i]]
      BY <3>1
    <3>7. QED
      BY <3>4, <3>5, <3>6, Zenon DEF Touched
  <2>2. CASE HandleUpdate(m)
    <3>1. /\ m.op \notin Creates /\ m.id \in Id
          /\ rows' = IF Mine(m) THEN [rows EXCEPT ![m.id] = Updated(@, m)] ELSE rows
      BY <2>2, Zenon DEF HandleUpdate
    <3>2. rows' = [i \in Id |-> rows'[i]]
      BY <3>1
    <3>3. ASSUME NEW i \in Id, rows'[i] # rows[i] PROVE Touched(i)
      <4>1. Mine(m) /\ i = m.id /\ rows'[i] = Updated(rows[i], m)
        BY <3>1, <3>3
      <4>2. QED
        BY <4>1, <3>1, Zenon DEF Touched
    <3>4. QED
      BY <3>2, <3>3, Zenon DEF Touched
  <2>3. CASE GiveUp(m)
    BY <2>3, <1>1 DEF GiveUp
  <2>4. QED
    BY <1>3, <2>1, <2>2, <2>3
<1>4. CASE MarkLost \/ MarkStalled
  <2>1. rows' = [i \in Id |-> rows'[i]]
    BY <1>4 DEF MarkLost, MarkStalled
  <2>2. ASSUME NEW i \in Id, rows'[i] # rows[i]
        PROVE  /\ rows[i].status \in {"running", "stalled", "queued"}
               /\ \E s \in Marks : rows'[i] = Changed(rows[i], s)
    BY <1>4, <2>2 DEF MarkLost, MarkStalled, Losable, Stallable, Active, Marks
  <2>3. ASSUME NEW i \in Id, rows'[i] # rows[i] PROVE Touched(i)
    <3>1. Exists(i) /\ rows[i].status \notin Outcomes
      BY <2>2, <2>3 DEF Exists, Outcomes
    <3>2. QED
      BY <2>2, <2>3, <3>1, Zenon DEF Touched
  <2>4. QED
    BY <2>1, <2>3, Zenon DEF Touched
<1>5. ASSUME NEW k \in Id, Delete(k) \/ UndoAck(k) \/ Age(k)
      PROVE  rows' = [i \in Id |-> rows'[i]] /\ \A i \in Id : Touched(i)
  <2>1. Exists(k)
    BY <1>5 DEF Delete, UndoAck, Age, Exists, Problems, Marks
  <2>2. /\ rows' = [i \in Id |-> rows'[i]]
        /\ \A i \in Id \ {k} : rows'[i] = rows[i]
        /\ \/ MayDelete /\ rows'[k] = NoRow
           \/ rows'[k] = [rows[k] EXCEPT !.overdue = TRUE]
           \/ rows'[k] = [rows[k] EXCEPT !.acked = FALSE]
    BY <1>5 DEF Delete, UndoAck, Age
  <2>3. QED
    BY <2>1, <2>2, Zenon DEF Touched
<1>6. ASSUME NEW S \in SUBSET Id, Ack(S)
      PROVE  rows' = [i \in Id |-> rows'[i]] /\ \A i \in Id : Touched(i)
  <2>1. ASSUME NEW i \in Id, rows'[i] # rows[i] PROVE Touched(i)
    <3>1. /\ rows[i].status \in Problems
          /\ rows'[i] = [rows[i] EXCEPT !.acked = TRUE]
      BY <1>6, <2>1 DEF Ack
    <3>2. Exists(i)
      BY <3>1 DEF Exists, Problems, Marks
    <3>3. QED
      BY <3>1, <3>2, Zenon DEF Touched
  <2>2. rows' = [i \in Id |-> rows'[i]]
    BY <1>6 DEF Ack
  <2>3. QED
    BY <2>1, <2>2, Zenon DEF Touched
<1>7. QED
  BY <1>1, <1>2, <1>3, <1>4, <1>5, <1>6, Steps, Zenon
     DEF Serving, Marking, Acking, Quiet

-----------------------------------------------------------------------------
(* Type correctness. *)

LEMMA RowsType ==
    ASSUME TypeOK, [Next]_vars
    PROVE  /\ rows' \in [Id -> Row]
           /\ \A i \in Id : rows'[i].owner = NoRun \/ rows'[i].status = "none"
                             => rows'[i] = NoRow
<1>1. ASSUME NEW i \in Id
      PROVE  /\ rows'[i] \in Row
             /\ rows'[i].owner = NoRun \/ rows'[i].status = "none"
                  => rows'[i] = NoRow
  <2>1. Touched(i)
    BY TableStep
  <2>2. rows[i] \in Row /\ net \subseteq Request
    BY DEF TypeOK
  <2>3. rows[i].status = "none" \/ rows[i].owner = NoRun => rows[i] = NoRow
    BY DEF TypeOK
  <2>4. Exists(i) => rows[i] # NoRow /\ rows[i].owner # NoRun /\ rows[i].status # "none"
    BY <2>3, NoRowType DEF Exists
  <2>5. CASE rows'[i] = rows[i] \/ rows'[i] = NoRow
    BY <2>2, <2>3, <2>5, NoRowType
  <2>6. CASE Exists(i) /\ \E s \in Marks : rows'[i] = Changed(rows[i], s)
    <3>1. PICK s \in Marks : rows'[i] = Changed(rows[i], s)
      BY <2>6
    <3>2. s \in Active \cup Marks \cup Outcomes /\ s # "none"
      BY DEF Marks
    <3>3. QED
      BY <2>2, <2>4, <2>6, <3>1, <3>2, ChangedType
  <2>7. CASE Exists(i) /\ rows'[i] = [rows[i] EXCEPT !.overdue = TRUE]
    BY <2>2, <2>4, <2>7 DEF Row
  <2>8. CASE Exists(i) /\ \E b \in BOOLEAN : rows'[i] = [rows[i] EXCEPT !.acked = b]
    BY <2>2, <2>4, <2>8 DEF Row
  <2>9. CASE \E m \in net : m.op \in Creates /\ rows'[i] = Created(m)
    <3>1. PICK m \in net : m.op \in Creates /\ rows'[i] = Created(m)
      BY <2>9
    <3>2. m \in Request /\ m.run \in Run
      BY <2>2 DEF Request
    <3>3. QED
      BY <3>1, <3>2, CreatedType, TaskAssumption DEF Active
  <2>10. CASE \E m \in net : m.op \notin Creates /\ m.id = i /\ Mine(m)
                             /\ rows'[i] = Updated(rows[i], m)
    <3>1. PICK m \in net : m.op \notin Creates /\ m.id = i /\ Mine(m)
                             /\ rows'[i] = Updated(rows[i], m)
      BY <2>10
    <3>2. m \in Request /\ Exists(i)
      BY <2>2, <3>1 DEF Mine
    <3>3. /\ Updated(rows[i], m) \in Row
          /\ Updated(rows[i], m).status # "none"
          /\ Updated(rows[i], m).owner = rows[i].owner
      BY <2>2, <2>4, <3>1, <3>2, UpdatedType, Zenon
    <3>4. QED
      BY <2>4, <3>1, <3>2, <3>3, Zenon
  <2>11. QED
    BY <2>1, <2>5, <2>6, <2>7, <2>8, <2>9, <2>10, Zenon DEF Touched
<1>2. QED
  BY <1>1, TableStep

\* The reporters and their requests.
LEMMA ClientType ==
    ASSUME TypeOK, [Next]_vars
    PROVE  /\ phase' \in [Run -> {"new", "queued", "running", "ended", "dead"}]
           /\ tid' \in [Run -> Id \cup {0}]
           /\ wait' \in [Run -> Ops \cup {"none"}]
           /\ net' \subseteq Request
<1> USE DEF TypeOK, Ops, Creates, Outcomes
<1>1. ASSUME NEW r \in Run, Report(r)
      PROVE  /\ phase' \in [Run -> {"new", "queued", "running", "ended", "dead"}]
             /\ tid' = tid
             /\ wait' \in [Run -> Ops \cup {"none"}]
             /\ \/ net' = net
                \/ \E op \in Ops : net' = net \cup {[run |-> r, op |-> op, id |-> tid[r]]}
  <2>1. CASE Start(r) \/ Queue(r)
    BY <2>1 DEF Start, Queue, Ask, Send, Go
  <2>2. CASE QueueBeat(r)
    BY <2>2 DEF QueueBeat, Ask, Send
  <2>3. CASE Admitted(r)
    BY <2>3 DEF Admitted, Ask, Send, Go
  <2>4. CASE Beat(r) \/ Kill(r)
    BY <2>4 DEF Beat, Kill, Send, Go, client
  <2>5. CASE Finish(r) \/ Cancel(r)
    BY <2>5 DEF Finish, Cancel, Send, Go
  <2>6. QED
    BY <1>1, <2>1, <2>2, <2>3, <2>4, <2>5 DEF Report
<1>2. ASSUME NEW r \in Run, Report(r) PROVE net' \subseteq Request
  BY <1>1, <1>2 DEF Request
<1>3. ASSUME NEW m \in net, HandleCreate(m) \/ HandleUpdate(m) \/ GiveUp(m)
      PROVE  /\ net' \subseteq net
             /\ \E k \in Id \cup {0} : Resume(m.run, m.op, k)
  BY <1>3 DEF HandleCreate, HandleUpdate, GiveUp
<1>4. ASSUME NEW m \in net, NEW k \in Id \cup {0}, Resume(m.run, m.op, k)
      PROVE  /\ phase' \in [Run -> {"new", "queued", "running", "ended", "dead"}]
             /\ tid' \in [Run -> Id \cup {0}]
             /\ wait' \in [Run -> Ops \cup {"none"}]
  BY <1>4 DEF Resume
<1>5. CASE Marking \/ Acking \/ Quiet
  BY <1>5 DEF Marking, Acking, Quiet, client, MarkLost, MarkStalled, Delete, UndoAck,
              Age, Ack
<1>6. QED
  BY <1>1, <1>2, <1>3, <1>4, <1>5, Steps DEF Serving

LEMMA PresenceType ==
    ASSUME TypeOK, [Next]_vars
    PROVE  /\ silent' \subseteq Host
           /\ pushing' \subseteq Host
           /\ online' \in [Host -> {"yes", "no", "unknown"}]
           /\ loop' \in [at : {"sleep", "hosts", "lost", "stalled"},
                         todo : SUBSET Host, gone : SUBSET Host, lost : SUBSET Host]
           /\ trouble' \in Nat
<1> USE DEF TypeOK, hub, Asleep
<1>1. ASSUME NEW r \in Run, Report(r) PROVE UNCHANGED hub
  BY <1>1 DEF Report, Start, Queue, QueueBeat, Admitted, Beat, Finish, Cancel, Kill, Ask
<1>2. ASSUME NEW m \in net, HandleCreate(m) \/ HandleUpdate(m) \/ GiveUp(m)
      PROVE  UNCHANGED hub
  BY <1>2 DEF HandleCreate, HandleUpdate, GiveUp
<1>3. ASSUME NEW i \in Id, Delete(i) \/ UndoAck(i) \/ Age(i) PROVE UNCHANGED hub
  BY <1>3 DEF Delete, UndoAck, Age
<1>4. ASSUME NEW S \in SUBSET Id, Ack(S) PROVE UNCHANGED hub
  BY <1>4 DEF Ack
<1>6. CASE \E h \in Host : GoSilent(h) \/ Push(h) \/ PushSeen(h)
  BY <1>6 DEF GoSilent, Push, PushSeen
<1>7. CASE ListHosts \/ MarkLost \/ HostsDone \/ MarkStalled
  <2>1. /\ UNCHANGED <<silent, pushing, online, trouble>>
        /\ \E a \in {"sleep", "hosts", "lost", "stalled"},
              t, g, l \in SUBSET Host :
              loop' = [at |-> a, todo |-> t, gone |-> g, lost |-> l]
    BY <1>7 DEF ListHosts, MarkLost, HostsDone, MarkStalled
  <2>2. QED
    BY <2>1
<1>8. CASE \E h \in Host : Compare(h)
  <2>1. PICK h \in Host : Compare(h)
    BY <1>8
  <2>2. loop.todo \ {h} \in SUBSET Host /\ loop.gone \in SUBSET Host
    OBVIOUS
  <2>3. /\ online' \in [Host -> {"yes", "no", "unknown"}]
        /\ loop' \in [at : {"sleep", "hosts", "lost", "stalled"},
                      todo : SUBSET Host, gone : SUBSET Host, lost : SUBSET Host]
    BY <2>1, <2>2 DEF Compare
  <2>4. UNCHANGED <<silent, pushing, trouble>>
    BY <2>1 DEF Compare
  <2>5. QED
    BY <2>3, <2>4
<1>9. CASE RoundFails \/ HubRestart
  BY <1>9 DEF RoundFails, HubRestart, Trouble
<1>10. CASE UNCHANGED vars
  BY <1>10 DEF vars
<1>11. CASE UNCHANGED hub
  BY <1>11
<1>12. QED
  BY <1>1, <1>2, <1>3, <1>4, <1>6, <1>7, <1>8, <1>9, <1>10, <1>11, Zenon
     DEF Next, Round

\* What is known to be lost is one of the reports that are sent once.
LEMMA UnheardType ==
    ASSUME TypeOK, [Next]_vars
    PROVE  unheard' \subseteq Run \X Once
<1> USE DEF TypeOK
<1>1. ASSUME NEW r \in Run, Report(r) PROVE UNCHANGED unheard
  BY <1>1 DEF Report, Start, Queue, QueueBeat, Admitted, Beat, Finish, Cancel, Kill, Ask
<1>2. ASSUME NEW m \in net, HandleCreate(m) \/ HandleUpdate(m) \/ GiveUp(m)
      PROVE  unheard' \subseteq Run \X Once
  BY <1>2 DEF HandleCreate, HandleUpdate, GiveUp
<1>3. ASSUME NEW i \in Id, Delete(i) \/ UndoAck(i) \/ Age(i) PROVE UNCHANGED unheard
  BY <1>3 DEF Delete, UndoAck, Age
<1>4. ASSUME NEW S \in SUBSET Id, Ack(S) PROVE UNCHANGED unheard
  BY <1>4 DEF Ack
<1>5. CASE MarkLost \/ MarkStalled \/ RoundFails \/ HubRestart
  BY <1>5 DEF MarkLost, MarkStalled, RoundFails, HubRestart
<1>6. CASE ListHosts \/ HostsDone \/ \E h \in Host : Compare(h)
  BY <1>6, Zenon DEF ListHosts, HostsDone, Compare
<1>7. CASE \E h \in Host : GoSilent(h) \/ Push(h) \/ PushSeen(h)
  BY <1>7 DEF GoSilent, Push, PushSeen
<1>8. CASE UNCHANGED vars
  BY <1>8 DEF vars
<1>9. QED
  BY <1>1, <1>2, <1>3, <1>4, <1>5, <1>6, <1>7, <1>8 DEF Next, Round

LEMMA InitType == Init => TypeOK
BY TaskAssumption, NoRowType DEF Init, TypeOK, Asleep, Ops, Id

LEMMA TypeStep == TypeOK /\ [Next]_vars => TypeOK'
BY RowsType, ClientType, PresenceType, UnheardType, Zenon DEF TypeOK

\* Every variable keeps its type; a row exists as a whole or not at all.
THEOREM TypeCorrect == Spec => []TypeOK
<1>1. QED
  BY InitType, TypeStep, PTL DEF Spec

-----------------------------------------------------------------------------
(* Hosts. *)

LEMMA RowStep ==
    ASSUME TypeOK, [Next]_vars, NEW i \in Id,
           rows'[i] # rows[i], rows'[i] # NoRow \/ ~MayDelete
    PROVE  \/ \E m \in net : /\ m \in Request /\ m.op \in Creates /\ ~Exists(i)
                             /\ rows'[i].owner = m.run /\ rows'[i].said = NoOutcome
                             /\ rows'[i].status \in Active
           \/ \E m \in net : /\ m \in Request /\ m.op \notin Creates
                             /\ m.id = i /\ Mine(m) /\ Exists(i)
                             /\ rows'[i].owner = rows[i].owner
                             /\ rows'[i].status = NewStatus(rows[i], m.op)
                             /\ rows'[i].said = IF m.op \in Outcomes
                                                THEN [run |-> m.run, what |-> m.op]
                                                ELSE rows[i].said
           \/ /\ Exists(i) /\ rows'[i].owner = rows[i].owner
              /\ rows'[i].said = rows[i].said
              /\ \/ rows[i].status \notin Outcomes /\ rows'[i].status \in Marks
                 \/ rows'[i].status = rows[i].status
<1>1. Touched(i) /\ rows[i] \in Row /\ net \subseteq Request
  BY TableStep DEF TypeOK
<1>2. Exists(i) => rows[i] # NoRow /\ rows[i].owner # NoRun /\ rows[i].status # "none"
  BY NoRowType DEF Exists, TypeOK
<1>3. CASE Exists(i) /\ rows[i].status \notin Outcomes
           /\ \E s \in Marks : rows'[i] = Changed(rows[i], s)
  <2>1. PICK s \in Marks : rows'[i] = Changed(rows[i], s)
    BY <1>3
  <2>2. /\ Changed(rows[i], s).status = s
        /\ Changed(rows[i], s).owner = rows[i].owner
        /\ Changed(rows[i], s).said = rows[i].said
    BY <1>1, <1>2, <1>3, ChangedType, Zenon
  <2>3. QED
    BY <1>3, <2>1, <2>2, Zenon
<1>4. CASE Exists(i) /\ rows'[i] = [rows[i] EXCEPT !.overdue = TRUE]
  BY <1>1, <1>4 DEF Row
<1>5. CASE Exists(i) /\ \E b \in BOOLEAN : rows'[i] = [rows[i] EXCEPT !.acked = b]
  BY <1>1, <1>5 DEF Row
<1>7. CASE \E m \in net : m.op \in Creates /\ ~Exists(i) /\ rows'[i] = Created(m)
  <2>1. PICK m \in net : m.op \in Creates /\ ~Exists(i) /\ rows'[i] = Created(m)
    BY <1>7
  <2>2. QED
    BY <1>1, <2>1, CreatedType
<1>8. CASE \E m \in net : m.op \notin Creates /\ m.id = i /\ Mine(m)
                         /\ rows'[i] = Updated(rows[i], m)
  <2>1. PICK m \in net : m.op \notin Creates /\ m.id = i /\ Mine(m)
                         /\ rows'[i] = Updated(rows[i], m)
    BY <1>8
  <2>2. m \in Request /\ Exists(i)
    BY <1>1, <2>1 DEF Mine
  <2>3. /\ Updated(rows[i], m).status = NewStatus(rows[i], m.op)
        /\ Updated(rows[i], m).owner = rows[i].owner
        /\ Updated(rows[i], m).said = IF m.op \in Outcomes
                                      THEN [run |-> m.run, what |-> m.op] ELSE rows[i].said
    BY <1>1, <1>2, <2>1, <2>2, UpdatedType, Zenon
  <2>4. QED
    BY <2>1, <2>2, <2>3, Zenon
<1>9. QED
  BY <1>1, <1>3, <1>4, <1>5, <1>7, <1>8, Zenon DEF Touched

\* No reporter changes a task of another host.
THEOREM Apart == Spec => []HostsApart
<1>1. Init => HostsApart
  BY NoRowType DEF Init, HostsApart
<1>2. ASSUME TypeOK, HostsApart, [Next]_vars PROVE HostsApart'
  <2>1. ASSUME NEW i \in Id, rows'[i].said # NoOutcome
        PROVE  HostOf[rows'[i].said.run] = HostOf[rows'[i].owner]
    <3>1. CASE rows'[i] = rows[i]
      BY <1>2, <2>1, <3>1 DEF HostsApart
    <3>2. CASE rows'[i] = NoRow
      BY <2>1, <3>2, NoRowType
    <3>3. CASE rows'[i] # rows[i] /\ rows'[i] # NoRow
      <4>1. \/ rows'[i].said = rows[i].said /\ rows'[i].owner = rows[i].owner
            \/ \E m \in net : /\ Mine(m) /\ m.id = i
                              /\ rows'[i].said = [run |-> m.run, what |-> m.op]
                              /\ rows'[i].owner = rows[i].owner
        BY <1>2, <2>1, <3>3, RowStep, Zenon
      <4>2. CASE rows'[i].said = rows[i].said /\ rows'[i].owner = rows[i].owner
        BY <1>2, <2>1, <4>2 DEF HostsApart
      <4>3. CASE \E m \in net : /\ Mine(m) /\ m.id = i
                                /\ rows'[i].said = [run |-> m.run, what |-> m.op]
                                /\ rows'[i].owner = rows[i].owner
        <5>1. PICK m \in net : /\ Mine(m) /\ m.id = i
                               /\ rows'[i].said = [run |-> m.run, what |-> m.op]
                               /\ rows'[i].owner = rows[i].owner
          BY <4>3
        <5>2. rows'[i].said.run = m.run
          BY <5>1
        <5>3. QED
          BY <5>1, <5>2 DEF Mine
      <4>4. QED
        BY <4>1, <4>2, <4>3
    <3>4. QED
      BY <3>1, <3>2, <3>3
  <2>2. QED
    BY <2>1 DEF HostsApart
<1>3. QED
  BY <1>1, <1>2, TypeCorrect, PTL DEF Spec

-----------------------------------------------------------------------------
(* Outcomes.  Without late requests the main thread of avm is sequential at  *)
(* the hub too, and without deletions an id keeps its owner.                 *)

Sync == Creates \cup {"beat_queued", "admit"}

\* A reporter, and what it has sent, name its own rows.
OwnInv ==
    /\ \A r \in Run : tid[r] # 0 => rows[tid[r]].owner = r
    /\ \A m \in net : m.id # 0 => rows[m.id].owner = m.run

\* The main thread waits for the one request it has out.
WaitInv ==
    /\ \A r \in Run : wait[r] \in Sync \cup {"none"}
    /\ \A m \in net : m.op \in Sync => wait[m.run] = m.op
    /\ \A m, n \in net : m.op \in Sync /\ n.op \in Sync /\ m.run = n.run => m = n
    /\ \A r \in Run : phase[r] = "ended" => wait[r] = "none"

\* The final report is the last one that carries a status, there is one, and
\* a row with an outcome has heard it.
LastInv == \A m \in net : m.op \in Outcomes =>
              phase[m.run] = "ended" /\ m.id # 0 /\ rows[m.id].said = NoOutcome
OnceInv == \A m, n \in net :
              m.op \in Outcomes /\ n.op \in Outcomes /\ m.run = n.run => m = n
DoneInv == \A i \in Id : rows[i].said # NoOutcome =>
              phase[rows[i].owner] = "ended" /\ rows[i].status \in Outcomes
FinalInv == LastInv /\ OnceInv /\ DoneInv

KeepInv == OwnInv /\ WaitInv /\ FinalInv /\ OutcomeKept

LEMMA KeepInit == Init => KeepInv
BY NoRowType DEF Init, KeepInv, OwnInv, WaitInv, FinalInv, LastInv, OnceInv, DoneInv, OutcomeKept, Outcomes

\* What the hub does to a row under KeepInv.
LEMMA KeepRows ==
    ASSUME TypeOK, KeepInv, ~MayDelete, [Next]_vars, NEW i \in Id
    PROVE  /\ rows[i].owner # NoRun => rows'[i].owner = rows[i].owner
           /\ rows[i].said # NoOutcome => /\ rows'[i].said = rows[i].said
                                          /\ rows'[i].status = rows[i].status
           /\ rows'[i].status \in Outcomes => rows'[i].said # NoOutcome
           /\ rows'[i].said # rows[i].said =>
                \E m \in net : /\ m.op \in Outcomes /\ m.id = i
                               /\ rows'[i].said = [run |-> m.run, what |-> m.op]
                               /\ rows'[i].status = m.op
                               /\ rows'[i].owner = m.run
<1>1. CASE rows'[i] = rows[i]
  BY <1>1 DEF KeepInv, OutcomeKept
<1>2. CASE \E m \in net : /\ m \in Request /\ m.op \in Creates /\ ~Exists(i)
                          /\ rows'[i].owner = m.run /\ rows'[i].said = NoOutcome
                          /\ rows'[i].status \in Active
  <2>1. rows[i] = NoRow
    BY <1>2 DEF TypeOK, Exists
  <2>2. QED
    BY <1>2, <2>1, NoRowType DEF Active, Outcomes
<1>3. ASSUME NEW m \in net, m \in Request, m.op \notin Creates,
             m.id = i, Exists(i),
             rows'[i].owner = rows[i].owner,
             rows'[i].status = NewStatus(rows[i], m.op),
             rows'[i].said = IF m.op \in Outcomes
                             THEN [run |-> m.run, what |-> m.op] ELSE rows[i].said
      PROVE  /\ rows[i].said # NoOutcome => /\ rows'[i].said = rows[i].said
                                            /\ rows'[i].status = rows[i].status
             /\ rows'[i].status \in Outcomes => rows'[i].said # NoOutcome
             /\ m.op \in Outcomes => rows'[i].status = m.op
             /\ rows[i].owner = m.run
  <2>0. i # 0 /\ rows[i].owner = m.run
    BY <1>3 DEF Id, KeepInv, OwnInv
  <2>1. m.op \in Outcomes \cup {"beat", "beat_queued", "admit"}
    BY <1>3 DEF Request, Ops, Creates, Outcomes
  <2>2. CASE m.op \in Outcomes
    <3>1. rows[i].said = NoOutcome
      BY <1>3, <2>2 DEF KeepInv, FinalInv, LastInv, OnceInv, DoneInv
    <3>2. NewStatus(rows[i], m.op) = m.op
      BY <2>2 DEF NewStatus, Given, Outcomes
    <3>3. [run |-> m.run, what |-> m.op] # NoOutcome
      BY <2>2 DEF NoOutcome, Outcomes
    <3>4. QED
      BY <1>3, <2>0, <2>2, <3>1, <3>2, <3>3
  <2>3. CASE m.op \in {"beat_queued", "admit"}
    <3>1. NewStatus(rows[i], m.op) \in Active
      BY <2>3 DEF NewStatus, Given, Active, Outcomes
    <3>2. wait[m.run] # "none"
      BY <2>3 DEF KeepInv, WaitInv, Sync
    <3>3. rows[i].said = NoOutcome
      <4>1. m.run \in Run
        BY <1>3 DEF Request
      <4>2. QED
        BY <2>0, <3>2, <4>1 DEF KeepInv, FinalInv, LastInv, OnceInv, DoneInv, WaitInv
    <3>4. QED
      BY <1>3, <2>0, <2>3, <3>1, <3>3 DEF Active, Outcomes
  <2>4. CASE m.op = "beat"
    <3>1. NewStatus(rows[i], m.op) = IF rows[i].status \in Marks THEN "running"
                                    ELSE rows[i].status
      BY <2>4 DEF NewStatus, Given, Revives, Outcomes
    <3>2. rows'[i].said = rows[i].said
      BY <1>3, <2>4 DEF Outcomes
    <3>3. rows[i].said # NoOutcome => rows[i].status \in Outcomes
      BY DEF KeepInv, FinalInv, LastInv, OnceInv, DoneInv
    <3>4. QED
      BY <1>3, <2>0, <2>4, <3>1, <3>2, <3>3 DEF Marks, Outcomes, KeepInv, OutcomeKept
  <2>5. QED
    BY <2>1, <2>2, <2>3, <2>4, Zenon
<1>4. CASE /\ Exists(i) /\ rows'[i].owner = rows[i].owner
           /\ rows'[i].said = rows[i].said
           /\ \/ rows[i].status \notin Outcomes /\ rows'[i].status \in Marks
              \/ rows'[i].status = rows[i].status
  BY <1>4 DEF KeepInv, FinalInv, LastInv, OnceInv, DoneInv, OutcomeKept, Marks, Outcomes
<1>5. CASE rows'[i] # rows[i]
  <2>1. \/ \E m \in net : /\ m \in Request /\ m.op \in Creates /\ ~Exists(i)
                          /\ rows'[i].owner = m.run /\ rows'[i].said = NoOutcome
                          /\ rows'[i].status \in Active
        \/ \E m \in net : /\ m \in Request /\ m.op \notin Creates
                          /\ m.id = i /\ Exists(i)
                          /\ rows'[i].owner = rows[i].owner
                          /\ rows'[i].status = NewStatus(rows[i], m.op)
                          /\ rows'[i].said = IF m.op \in Outcomes
                                             THEN [run |-> m.run, what |-> m.op]
                                             ELSE rows[i].said
        \/ /\ Exists(i) /\ rows'[i].owner = rows[i].owner
           /\ rows'[i].said = rows[i].said
           /\ \/ rows[i].status \notin Outcomes /\ rows'[i].status \in Marks
              \/ rows'[i].status = rows[i].status
    BY <1>5, RowStep, Zenon
  <2>2. CASE \E m \in net : /\ m \in Request /\ m.op \notin Creates
                            /\ m.id = i /\ Exists(i)
                            /\ rows'[i].owner = rows[i].owner
                            /\ rows'[i].status = NewStatus(rows[i], m.op)
                            /\ rows'[i].said = IF m.op \in Outcomes
                                               THEN [run |-> m.run, what |-> m.op]
                                               ELSE rows[i].said
    BY <1>3, <2>2
  <2>3. QED
    BY <1>2, <1>4, <2>1, <2>2, Zenon
<1>6. QED
  BY <1>1, <1>5

\* What a reporter does: it sends at most one request under its own id.
LEMMA ReportStep ==
    ASSUME TypeOK, NEW r \in Run, Report(r)
    PROVE  /\ UNCHANGED <<rows, tid>>
           /\ \A q \in Run \ {r} : phase'[q] = phase[q] /\ wait'[q] = wait[q]
           /\ \/ /\ wait[r] = "none" /\ phase'[r] \in Active
                 /\ \E op \in Sync :
                       /\ net' = net \cup {[run |-> r, op |-> op, id |-> tid[r]]}
                       /\ wait'[r] = op
              \/ /\ wait[r] = "none" /\ wait'[r] = wait[r]
                 /\ phase[r] \in Active /\ phase'[r] = "ended"
                 /\ \/ net' = net
                    \/ /\ tid[r] # 0
                       /\ \E op \in Outcomes :
                             net' = net \cup {[run |-> r, op |-> op, id |-> tid[r]]}
              \/ /\ wait'[r] = wait[r] /\ phase'[r] = phase[r]
                 /\ net' = net \cup {[run |-> r, op |-> "beat", id |-> tid[r]]}
              \/ /\ wait'[r] = wait[r] /\ phase'[r] # "ended"
                 /\ net' = net
<1> USE DEF TypeOK, Sync, Creates, Outcomes, Active
<1>1. CASE Start(r) \/ Queue(r)
  BY <1>1 DEF Start, Queue, Ask, Send, Go
<1>2. CASE QueueBeat(r)
  BY <1>2 DEF QueueBeat, Ask, Send
<1>3. CASE Admitted(r)
  BY <1>3 DEF Admitted, Ask, Send, Go
<1>4. CASE Beat(r)
  BY <1>4 DEF Beat, Send, client
<1>5. CASE Finish(r)
  BY <1>5 DEF Finish, Send, Go
<1>6. CASE Cancel(r)
  BY <1>6 DEF Cancel, Send, Go
<1>7. CASE Kill(r)
  BY <1>7 DEF Kill, Go
<1>8. QED
  BY <1>1, <1>2, <1>3, <1>4, <1>5, <1>6, <1>7 DEF Report

LEMMA KeepReport ==
    ASSUME TypeOK, KeepInv, NEW r \in Run, Report(r)
    PROVE  OwnInv' /\ WaitInv' /\ FinalInv'
<1>k. OwnInv /\ WaitInv /\ FinalInv
  BY DEF KeepInv
<1>0. /\ rows' = rows /\ tid' = tid
      /\ \A q \in Run \ {r} : phase'[q] = phase[q] /\ wait'[q] = wait[q]
  BY ReportStep, Zenon
<1>a. /\ \A m \in net : m.run \in Run
      /\ \A i \in Id : rows[i].said # NoOutcome => rows[i].owner \in Run
  BY NoRowType DEF TypeOK, Row, Request
<1>1. CASE /\ wait[r] = "none" /\ phase'[r] \in Active
           /\ \E op \in Sync :
                 /\ net' = net \cup {[run |-> r, op |-> op, id |-> tid[r]]}
                 /\ wait'[r] = op
  <2>1. OwnInv'
    BY <1>k, <1>0, <1>1 DEF OwnInv
  <2>2. WaitInv'
    <3>1. \A m \in net : m.op \in Sync => m.run # r
      BY <1>k, <1>1 DEF WaitInv, Sync, Creates
    <3>2. QED
      BY <1>k, <1>0, <1>1, <1>a, <3>1 DEF WaitInv, Active
  <2>3. FinalInv'
    <3>1. PICK op \in Sync : net' = net \cup {[run |-> r, op |-> op, id |-> tid[r]]}
      BY <1>1
    <3>2. op \notin Outcomes
      BY DEF Sync, Creates, Outcomes
    <3>3. phase[r] # "ended"
      <4>1. Start(r) \/ Queue(r) \/ QueueBeat(r) \/ Admitted(r)
            \/ Beat(r) \/ Finish(r) \/ Cancel(r) \/ Kill(r)
        BY DEF Report
      <4>2. QED
        BY <4>1 DEF Start, Queue, QueueBeat, Admitted, Beat, Finish, Cancel, Kill, Active
    <3>4. \A m \in net' : m.op \in Outcomes => m \in net /\ m.run # r
      BY <1>k, <3>1, <3>2, <3>3 DEF FinalInv, LastInv, OnceInv, DoneInv
    <3>5. \A q \in Run : phase[q] = "ended" => phase'[q] = "ended"
      BY <1>0, <3>3
    <3>6. LastInv'
      BY <1>k, <1>0, <1>a, <3>4, <3>5 DEF FinalInv, LastInv, OnceInv, DoneInv
    <3>7. OnceInv'
      BY <1>k, <3>4 DEF FinalInv, LastInv, OnceInv, DoneInv
    <3>8. DoneInv'
      BY <1>k, <1>0, <1>a, <3>5 DEF FinalInv, LastInv, OnceInv, DoneInv
    <3>9. QED
      BY <3>6, <3>7, <3>8 DEF FinalInv
  <2>4. QED
    BY <2>1, <2>2, <2>3
<1>2. CASE /\ wait[r] = "none" /\ wait'[r] = wait[r]
           /\ phase[r] \in Active /\ phase'[r] = "ended"
           /\ \/ net' = net
              \/ /\ tid[r] # 0
                 /\ \E op \in Outcomes :
                       net' = net \cup {[run |-> r, op |-> op, id |-> tid[r]]}
  <2>1. OwnInv'
    BY <1>k, <1>0, <1>2 DEF OwnInv
  <2>2. WaitInv'
    <3>1. Outcomes \cap Sync = {}
      BY DEF Sync, Creates, Outcomes
    <3>2. \A m \in net' : m.op \in Sync => m \in net
      BY <1>2, <3>1
    <3>3. \A q \in Run : wait'[q] = wait[q]
      BY <1>0, <1>2
    <3>4. QED
      BY <1>k, <1>0, <1>2, <1>a, <3>2, <3>3 DEF WaitInv
  <2>3. FinalInv'
    <3>1. \A m \in net : m.op \in Outcomes => m.run # r
      BY <1>k, <1>2 DEF FinalInv, LastInv, OnceInv, DoneInv, Active
    <3>2. tid[r] # 0 => rows[tid[r]].said = NoOutcome
      BY <1>k, <1>2 DEF FinalInv, LastInv, OnceInv, DoneInv, OwnInv, Active, TypeOK
    <3>3. \A q \in Run : phase[q] = "ended" => phase'[q] = "ended"
      BY <1>0, <1>2
    <3>4. DoneInv'
      BY <1>k, <1>0, <1>a, <3>3 DEF FinalInv, LastInv, OnceInv, DoneInv
    <3>5. CASE net' = net
      BY <1>k, <1>0, <1>a, <3>3, <3>4, <3>5 DEF FinalInv, LastInv, OnceInv, DoneInv
    <3>6. CASE tid[r] # 0 /\ \E op \in Outcomes :
                 net' = net \cup {[run |-> r, op |-> op, id |-> tid[r]]}
      <4>1. PICK op \in Outcomes :
                net' = net \cup {[run |-> r, op |-> op, id |-> tid[r]]}
        BY <3>6
      <4>2. \A m \in net' : m \in net \/ m = [run |-> r, op |-> op, id |-> tid[r]]
        BY <4>1
      <4>3. LastInv'
        BY <1>k, <1>0, <1>2, <1>a, <3>2, <3>3, <3>6, <4>2 DEF FinalInv, LastInv, OnceInv, DoneInv
      <4>4. OnceInv'
        BY <1>k, <3>1, <4>2 DEF FinalInv, LastInv, OnceInv, DoneInv
      <4>5. QED
        BY <3>4, <4>3, <4>4 DEF FinalInv
    <3>7. QED
      BY <1>2, <3>5, <3>6
  <2>4. QED
    BY <2>1, <2>2, <2>3
<1>3. CASE /\ wait'[r] = wait[r] /\ phase'[r] = phase[r]
           /\ net' = net \cup {[run |-> r, op |-> "beat", id |-> tid[r]]}
  <2>1. \A m \in net' : m.op \in Sync \cup Outcomes => m \in net
    BY <1>3 DEF Sync, Creates, Outcomes
  <2>2. \A q \in Run : wait'[q] = wait[q] /\ phase'[q] = phase[q]
    BY <1>0, <1>3
  <2>3. OwnInv'
    BY <1>k, <1>0, <1>3 DEF OwnInv
  <2>4. WaitInv'
    BY <1>k, <1>a, <2>1, <2>2 DEF WaitInv
  <2>5. FinalInv'
    BY <1>k, <1>0, <1>a, <2>1, <2>2 DEF FinalInv, LastInv, OnceInv, DoneInv
  <2>6. QED
    BY <2>3, <2>4, <2>5
<1>4. CASE wait'[r] = wait[r] /\ phase'[r] # "ended" /\ net' = net
  <2>1. phase[r] # "ended"
    BY DEF Report, Start, Queue, QueueBeat, Admitted, Beat, Finish, Cancel, Kill, Active
  <2>2. \A q \in Run : wait'[q] = wait[q] /\ (phase'[q] = "ended" <=> phase[q] = "ended")
    BY <1>0, <1>4, <2>1
  <2>3. OwnInv' /\ WaitInv'
    BY <1>k, <1>0, <1>4, <1>a, <2>2 DEF OwnInv, WaitInv
  <2>4. FinalInv'
    BY <1>k, <1>0, <1>4, <1>a, <2>2 DEF FinalInv, LastInv, OnceInv, DoneInv
  <2>5. QED
    BY <2>3, <2>4
<1>5. QED
  BY <1>1, <1>2, <1>3, <1>4, ReportStep, Zenon

\* What the hub does with one request: its sender waits no longer, learns at
\* most the id of a row of its own, and only its own row hears an outcome.
LEMMA ServeStep ==
    ASSUME TypeOK, ~Late, [Next]_vars, NEW m \in net,
           HandleCreate(m) \/ HandleUpdate(m) \/ GiveUp(m)
    PROVE  /\ m \in Request /\ net' = net \ {m}
           /\ \E k \in Id \cup {0} :
                 /\ Resume(m.run, m.op, k)
                 /\ k # 0 => rows'[k].owner = m.run
           /\ \A i \in Id : rows'[i].said # rows[i].said => m.op \in Outcomes /\ m.id = i
<1>0. m \in Request
  BY DEF TypeOK
<1>1. CASE HandleCreate(m)
  <2>1. PICK i \in Id : /\ NextId(i)
                        /\ rows' = [rows EXCEPT ![i] = Created(m)]
                        /\ \/ Resume(m.run, m.op, i)
                           \/ Resume(m.run, m.op, 0)
    BY <1>1 DEF HandleCreate
  <2>2. m.op \in Creates /\ net' = net \ {m}
    BY <1>1 DEF HandleCreate
  <2>3. Created(m).owner = m.run /\ Created(m).said = NoOutcome
    BY <1>0, <2>2, CreatedType
  <2>4. rows[i] = NoRow
    BY <2>1 DEF NextId, Id, Exists, TypeOK
  <2>5. rows'[i] = Created(m) /\ \A j \in Id \ {i} : rows'[j] = rows[j]
    BY <2>1 DEF TypeOK
  <2>6. QED
    BY <1>0, <2>1, <2>2, <2>3, <2>4, <2>5, NoRowType
<1>2. CASE HandleUpdate(m)
  <2>1. /\ m.op \notin Creates /\ m.id \in Id /\ net' = net \ {m}
        /\ Resume(m.run, m.op, 0)
        /\ rows' = IF Mine(m) THEN [rows EXCEPT ![m.id] = Updated(@, m)] ELSE rows
    BY <1>2, Zenon DEF HandleUpdate
  <2>2. ASSUME NEW i \in Id, rows'[i].said # rows[i].said
        PROVE  m.op \in Outcomes /\ m.id = i
    <3>1. Mine(m) /\ i = m.id /\ rows'[i] = Updated(rows[i], m)
      BY <2>1, <2>2 DEF TypeOK
    <3>2. rows[i] \in Row /\ rows[i].status # "none" /\ rows[i].owner # NoRun
      BY <3>1, NoRowType DEF Mine, Exists, TypeOK
    <3>3. Updated(rows[i], m).said = IF m.op \in Outcomes
                                     THEN [run |-> m.run, what |-> m.op]
                                     ELSE rows[i].said
      BY <1>0, <2>1, <3>2, UpdatedType
    <3>4. QED
      BY <2>2, <3>1, <3>3
  <2>3. QED
    BY <1>0, <2>1, <2>2, Zenon
<1>3. CASE GiveUp(m)
  BY <1>0, <1>3, Zenon DEF GiveUp
<1>4. QED
  BY <1>1, <1>2, <1>3

LEMMA KeepServe ==
    ASSUME TypeOK, KeepInv, ~Late, ~MayDelete, [Next]_vars, NEW m \in net,
           HandleCreate(m) \/ HandleUpdate(m) \/ GiveUp(m)
    PROVE  OwnInv' /\ WaitInv' /\ FinalInv'
<1>k. OwnInv /\ WaitInv /\ FinalInv
  BY DEF KeepInv
<1>0. /\ m \in Request /\ net' = net \ {m}
      /\ \A i \in Id : rows'[i].said # rows[i].said => m.op \in Outcomes /\ m.id = i
  BY ServeStep, Zenon
<1>1. PICK k \in Id \cup {0} : /\ Resume(m.run, m.op, k)
                               /\ k # 0 => rows'[k].owner = m.run
  BY ServeStep, Zenon
<1>2. \A i \in Id : rows[i].owner # NoRun => rows'[i].owner = rows[i].owner
  BY KeepRows, Zenon
<1>3. /\ m.run \in Run /\ m.op \in Ops /\ NoRun \notin Run
      /\ \A n \in net : n.run \in Run /\ n.op \in Ops /\ n.id \in Id \cup {0}
  BY <1>0, TaskAssumption DEF TypeOK, Request
<1>4. /\ \A r \in Run : tid'[r] = tid[r] \/ (r = m.run /\ tid'[r] = k)
      /\ \A r \in Run : wait'[r] = IF r = m.run /\ wait[r] = m.op THEN "none" ELSE wait[r]
      /\ \A r \in Run : phase'[r] # phase[r] => phase'[r] = "ended" /\ wait'[r] = "none"
      /\ \A r \in Run : phase[r] = "ended" => phase'[r] = "ended"
  BY <1>1, <1>3 DEF Resume, TypeOK
<1>5. OwnInv'
  <2>1. ASSUME NEW r \in Run, tid'[r] # 0 PROVE rows'[tid'[r]].owner = r
    <3>1. CASE tid'[r] = tid[r]
      BY <1>k, <1>2, <1>3, <2>1, <3>1 DEF OwnInv, TypeOK
    <3>2. CASE r = m.run /\ tid'[r] = k
      BY <1>1, <2>1, <3>2
    <3>3. QED
      BY <1>4, <3>1, <3>2
  <2>2. ASSUME NEW n \in net', n.id # 0 PROVE rows'[n.id].owner = n.run
    BY <1>k, <1>0, <1>2, <1>3, <2>2 DEF OwnInv
  <2>3. QED
    BY <2>1, <2>2 DEF OwnInv
<1>6. WaitInv'
  <2>1. \A r \in Run : wait'[r] \in Sync \cup {"none"}
    BY <1>k, <1>4 DEF WaitInv
  <2>2. ASSUME NEW n \in net', n.op \in Sync PROVE wait'[n.run] = n.op
    <3>1. n \in net /\ n # m /\ wait[n.run] = n.op
      BY <1>k, <1>0, <2>2 DEF WaitInv
    <3>2. ~(n.run = m.run /\ wait[n.run] = m.op)
      BY <1>k, <2>2, <3>1 DEF WaitInv
    <3>3. QED
      BY <1>3, <1>4, <3>1, <3>2
  <2>3. \A n, p \in net' : n.op \in Sync /\ p.op \in Sync /\ n.run = p.run => n = p
    BY <1>k, <1>0 DEF WaitInv
  <2>4. \A r \in Run : phase'[r] = "ended" => wait'[r] = "none"
    BY <1>k, <1>4 DEF WaitInv
  <2>5. QED
    BY <2>1, <2>2, <2>3, <2>4 DEF WaitInv
<1>7. LastInv'
  <2>1. ASSUME NEW n \in net', n.op \in Outcomes
        PROVE  phase'[n.run] = "ended" /\ n.id # 0 /\ rows'[n.id].said = NoOutcome
    <3>1. /\ n \in net /\ n # m /\ phase[n.run] = "ended" /\ n.id # 0
          /\ rows[n.id].said = NoOutcome
      BY <1>k, <1>0, <2>1 DEF FinalInv, LastInv
    <3>2. n.id \in Id /\ n.run \in Run
      BY <1>3, <3>1
    <3>3. ~(m.op \in Outcomes /\ m.id = n.id)
      BY <1>k, <2>1, <3>1 DEF OwnInv, FinalInv, OnceInv
    <3>4. QED
      BY <1>0, <1>4, <3>1, <3>2, <3>3
  <2>2. QED
    BY <2>1 DEF LastInv
<1>8. OnceInv'
  BY <1>k, <1>0 DEF FinalInv, OnceInv
<1>9. DoneInv'
  <2>1. ASSUME NEW i \in Id, rows'[i].said # NoOutcome
        PROVE  phase'[rows'[i].owner] = "ended" /\ rows'[i].status \in Outcomes
    <3>1. CASE rows[i].said # NoOutcome
      <4>1. rows[i].owner # NoRun /\ rows[i].owner \in Run
        BY <3>1, NoRowType DEF TypeOK, Row
      <4>2. rows'[i].status = rows[i].status
        BY <3>1, KeepRows, Zenon
      <4>3. QED
        BY <1>k, <1>2, <1>4, <3>1, <4>1, <4>2 DEF FinalInv, DoneInv
    <3>2. CASE rows[i].said = NoOutcome
      <4>1. PICK n \in net : /\ n.op \in Outcomes /\ rows'[i].status = n.op
                             /\ rows'[i].owner = n.run
        BY <2>1, <3>2, KeepRows, Zenon
      <4>2. QED
        BY <1>k, <1>3, <1>4, <4>1 DEF FinalInv, LastInv
    <3>3. QED
      BY <3>1, <3>2
  <2>2. QED
    BY <2>1 DEF DoneInv
<1>10. QED
  BY <1>5, <1>6, <1>7, <1>8, <1>9 DEF FinalInv

\* The presence loop and the operators change no traffic and no outcome.
LEMMA KeepMark ==
    ASSUME TypeOK, KeepInv, ~MayDelete, [Next]_vars, Marking \/ Acking \/ Quiet
    PROVE  OwnInv' /\ WaitInv' /\ FinalInv'
<1>k. OwnInv /\ WaitInv /\ FinalInv
  BY DEF KeepInv
<1>1. UNCHANGED <<phase, tid, wait, net>>
  BY DEF Marking, Acking, Quiet, client, MarkLost, MarkStalled, Delete, UndoAck, Age, Ack
<1>2. ASSUME NEW i \in Id PROVE rows'[i].said = rows[i].said
  <2>0. rows[i] \in Row /\ rows \in [Id -> Row]
    BY DEF TypeOK
  <2>1. CASE MarkLost \/ MarkStalled
    <3>1. CASE rows'[i] = rows[i]
      BY <3>1
    <3>2. CASE rows'[i] # rows[i]
      <4>1. /\ rows[i].status \in {"running", "stalled", "queued"}
            /\ \E s \in Marks : rows'[i] = Changed(rows[i], s)
        BY <2>1, <3>2 DEF MarkLost, MarkStalled, Losable, Stallable, Active, Marks
      <4>2. rows[i] # NoRow /\ rows[i].owner # NoRun /\ rows[i].status # "none"
        BY <4>1, NoRowType DEF TypeOK
      <4>3. PICK s \in Marks : rows'[i] = Changed(rows[i], s)
        BY <4>1
      <4>4. s \in Active \cup Marks \cup Outcomes
        OBVIOUS
      <4>5. QED
        BY <2>0, <4>2, <4>3, <4>4, ChangedType
    <3>3. QED
      BY <3>1, <3>2
  <2>2. ASSUME NEW j \in Id, Delete(j) \/ UndoAck(j) \/ Age(j)
        PROVE  rows'[i].said = rows[i].said
    BY <2>0, <2>2 DEF Delete, UndoAck, Age, Row
  <2>3. ASSUME NEW S \in SUBSET Id, Ack(S) PROVE rows'[i].said = rows[i].said
    BY <2>0, <2>3 DEF Ack, Row
  <2>4. CASE Quiet
    BY <2>4 DEF Quiet
  <2>5. QED
    BY <2>1, <2>2, <2>3, <2>4, Zenon DEF Marking, Acking
<1>3. \A i \in Id : /\ rows[i].owner # NoRun => rows'[i].owner = rows[i].owner
                    /\ rows[i].said # NoOutcome => rows'[i].status = rows[i].status
  BY KeepRows, Zenon
<1>4. \A i \in Id : rows[i].said # NoOutcome => rows[i].owner # NoRun
  BY NoRowType DEF TypeOK
<1>5. /\ \A r \in Run : tid[r] \in Id \cup {0}
      /\ \A n \in net : n.id \in Id \cup {0} /\ n.run \in Run
      /\ NoRun \notin Run
  BY TaskAssumption DEF TypeOK, Request
<1>6. OwnInv' /\ WaitInv'
  BY <1>k, <1>1, <1>3, <1>5 DEF OwnInv, WaitInv
<1>7. LastInv' /\ OnceInv'
  BY <1>k, <1>1, <1>2, <1>5 DEF FinalInv, LastInv, OnceInv
<1>8. DoneInv'
  BY <1>k, <1>1, <1>2, <1>3, <1>4 DEF FinalInv, DoneInv
<1>9. QED
  BY <1>6, <1>7, <1>8 DEF FinalInv

LEMMA KeepStep == ASSUME TypeOK, KeepInv, ~Late, ~MayDelete, [Next]_vars
                  PROVE  KeepInv'
<1>1. OwnInv' /\ WaitInv' /\ FinalInv'
  <2>1. ASSUME NEW r \in Run, Report(r) PROVE OwnInv' /\ WaitInv' /\ FinalInv'
    BY <2>1, KeepReport
  <2>2. CASE Serving
    BY <2>2, KeepServe, Zenon DEF Serving
  <2>3. CASE Marking \/ Acking \/ Quiet
    BY <2>3, KeepMark
  <2>4. QED
    BY <2>1, <2>2, <2>3, Steps
<1>2. ASSUME NEW i \in Id
      PROVE  /\ rows'[i].said # NoOutcome => rows'[i].status = rows'[i].said.what
             /\ rows'[i].status \in Outcomes => rows'[i].said # NoOutcome
  <2>1. CASE rows'[i].said = rows[i].said
    BY <2>1, KeepRows DEF KeepInv, OutcomeKept
  <2>2. CASE rows'[i].said # rows[i].said
    <3>1. PICK m \in net : /\ m.op \in Outcomes
                           /\ rows'[i].said = [run |-> m.run, what |-> m.op]
                           /\ rows'[i].status = m.op
      BY <2>2, KeepRows, Zenon
    <3>2. rows'[i].said.what = m.op /\ m.op # "none"
      BY <3>1 DEF Outcomes
    <3>3. rows'[i].said # NoOutcome
      BY <3>2 DEF NoOutcome
    <3>4. QED
      BY <3>1, <3>2, <3>3
  <2>3. QED
    BY <2>1, <2>2
<1>3. QED
  BY <1>1, <1>2 DEF KeepInv, OutcomeKept

\* A reported outcome stays what it is, whatever the presence loop, operators
\* and beats under way do, as long as no request is handled after its sender
\* gave it up and no task is deleted.
THEOREM OutcomeStays == ~Late /\ ~MayDelete => (Spec => []OutcomeKept)
<1> SUFFICES ASSUME ~Late, ~MayDelete PROVE Spec => []OutcomeKept
  OBVIOUS
<1>1. ASSUME TypeOK, KeepInv, [Next]_vars PROVE KeepInv'
  BY <1>1, KeepStep
<1>2. KeepInv => OutcomeKept
  BY DEF KeepInv
<1>3. QED
  BY <1>1, <1>2, KeepInit, TypeCorrect, PTL DEF Spec
=============================================================================
