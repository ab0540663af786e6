------------------------ MODULE CheckResponderProofs ------------------------
(***************************************************************************)
(* Theorems about CheckResponder for any number of overlapping reports,    *)
(* any cooldown, window, cap and grace.                                    *)
(***************************************************************************)
EXTENDS CheckResponder, FiniteSetTheorems, TLAPS

\* What the constants give the arithmetic of times.
LEMMA Spans ==
    /\ NoSession \notin Session
    /\ Far(Cooldown) \in Nat /\ Far(Window) \in Nat /\ Far(Grace) \in Nat
    /\ MaxStall \in Nat /\ Cooldown \in Nat /\ Window \in Nat
    /\ MaxStall < Cooldown /\ Cooldown <= Window
    /\ Far(Cooldown) = Cooldown + MaxStall /\ Far(Window) = Window + MaxStall
    /\ Never = -Far(Cooldown) - 1
  BY ResponderAssumption DEF Far, Never

LEMMA NewRowType == NewRow \in Row
  BY Spans DEF NewRow, Row, Past

LEMMA IdleType == Idle \in Report
  BY Spans, NewRowType DEF Idle, Report, Sample

\* A report's time is in the reach of every field that keeps one.
LEMMA TakenType ==
  ASSUME NEW t \in -MaxStall..0
  PROVE  t \in Past(Cooldown) /\ t \in Past(Window)
  BY Spans DEF Past

LEMMA OlderLogType ==
  ASSUME NEW log \in SUBSET Past(Window)
  PROVE  OlderLog(log) \in SUBSET Past(Window)
  BY Spans DEF OlderLog, Past

LEMMA OlderRowType ==
  ASSUME NEW r \in Row
  PROVE  OlderRow(r) \in Row
<1>1. Older(r.created, Grace) \in Past(Grace)
  BY Spans DEF Row, Older, Past
<1>2. r.fired # Never => Older(r.fired, Cooldown) \in Past(Cooldown)
  BY Spans DEF Row, Older, Past
<1>3. OlderLog(r.log) \in SUBSET Past(Window)
  BY OlderLogType DEF Row
<1> QED
  BY <1>1, <1>2, <1>3 DEF OlderRow, Row

LEMMA ClaimedType ==
  ASSUME NEW r \in Row, NEW p \in Report
  PROVE  Claimed(r, p) \in Row
<1>1. p.taken \in Past(Cooldown) /\ p.taken \in Past(Window)
  BY TakenType DEF Report
<1>2. Recent(p.row.log, p.taken) \in SUBSET Past(Window)
  BY DEF Recent, Report, Row
<1> QED
  BY <1>1, <1>2 DEF Claimed, Row

LEMMA FieldsType ==
  ASSUME NEW r \in Row, NEW k \in {"none", "ok", "failing"},
         NEW e \in BOOLEAN, NEW o \in BOOLEAN, NEW q \in BOOLEAN
  PROVE  [r EXCEPT !.known = k, !.everOk = e, !.open = o, !.pending = q] \in Row
  BY DEF Row

LEMMA UpdatedType ==
  ASSUME NEW r \in Row, NEW p \in Report
  PROVE  Updated(r, p) \in Row
<1> DEFINE u == [r EXCEPT !.known = KnownOf(r, p), !.everOk = r.everOk \/ p.sample.check = "ok",
                          !.open = r.open /\ ~Over(p), !.pending = PendingOf(r, p)]
<1>1. KnownOf(r, p) \in {"none", "ok", "failing"}
  BY DEF KnownOf, Row, Report, Sample
<1>2. (r.everOk \/ p.sample.check = "ok") \in BOOLEAN /\ (r.open /\ ~Over(p)) \in BOOLEAN
  OBVIOUS
<1>3. PendingOf(r, p) \in BOOLEAN
  BY DEF PendingOf
<1>4. u \in Row
  BY <1>1, <1>2, <1>3, FieldsType, Zenon
<1>5. Claimed(u, p) \in Row
  BY <1>4, ClaimedType
<1> QED
  BY <1>4, <1>5 DEF Updated

\* Marking reports as overtaken keeps their type.
LEMMA RacedType ==
  ASSUME NEW p \in Report
  PROVE  [p EXCEPT !.raced = TRUE] \in Report
  BY DEF Report

-----------------------------------------------------------------------------
LEMMA TypeInit == Init => TypeOK
  BY NewRowType, IdleType, Spans DEF Init, TypeOK

LEMMA TypeStep ==
  ASSUME TypeOK, [Next]_vars
  PROVE  TypeOK'
<1> USE DEF TypeOK
<1>1. CASE Add
  BY <1>1, NewRowType DEF Add
<1>2. CASE Remove
  <2>1. \A w \in Worker : [report[w] EXCEPT !.raced = TRUE] \in Report
    BY RacedType
  <2> QED
    BY <1>2, <2>1, NewRowType DEF Remove
<1>3. ASSUME NEW n \in {"none", "new", "tracked"}, SetResponder(n) PROVE TypeOK'
  <2>1. row' \in Row
    BY <1>3, Zenon DEF SetResponder, Row
  <2> QED
    BY <1>3, <2>1 DEF SetResponder, past
<1>4. ASSUME NEW s \in Session, Track(s) PROVE TypeOK'
  BY <1>4 DEF Track, past
<1>5. CASE Untrack
  BY <1>5 DEF Untrack, past
<1>6. ASSUME NEW w \in Worker, Arrive(w) PROVE TypeOK'
  <2>1. PICK s \in Sample : report' = [report EXCEPT ![w] = [Idle EXCEPT !.at = "arrived", !.sample = s]]
    BY <1>6, Zenon DEF Arrive
  <2>2. [Idle EXCEPT !.at = "arrived", !.sample = s] \in Report
    BY IdleType DEF Report
  <2> QED
    BY <1>6, <2>1, <2>2 DEF Arrive, past
<1>7. ASSUME NEW w \in Worker, ReadRow(w) PROVE TypeOK'
  <2>1. [report[w] EXCEPT !.at = "read", !.row = row] \in Report
    BY DEF Report
  <2> QED
    BY <1>7, <2>1, IdleType DEF ReadRow, past
<1>8. ASSUME NEW w \in Worker, Aim(w) PROVE TypeOK'
  <2> DEFINE s == IF report[w].row.notify = "tracked" THEN tracked ELSE NoSession
  <2>1. [report[w] EXCEPT !.at = "held"] \in Report
    BY DEF Report
  <2>2. [report[w] EXCEPT !.at = "aimed", !.to = s] \in Report
    <3>1. s \in Session \cup {NoSession}
      OBVIOUS
    <3> QED
      BY <3>1 DEF Report
  <2>3. report' \in [Worker -> Report]
    BY <1>8, <2>1, <2>2 DEF Aim
  <2> QED
    BY <1>8, <2>3 DEF Aim, past
<1>9. ASSUME NEW w \in Worker, Fire(w) PROVE TypeOK'
  <2>1. Claimed(row, report[w]) \in Row
    BY ClaimedType
  <2>2. Alerted(w) \in [Worker -> Report]
    <3>1. \A v \in Worker : [report[v] EXCEPT !.raced = TRUE] \in Report
      BY RacedType
    <3> QED
      BY <3>1 DEF Alerted
  <2>3. [Alerted(w) EXCEPT ![w].at = "fired"] \in [Worker -> Report]
    <3>1. [Alerted(w)[w] EXCEPT !.at = "fired"] \in Report
      BY <2>2 DEF Report
    <3> QED
      BY <2>2, <3>1
  <2>4. report[w].taken \in Past(Window)
    BY TakenType DEF Report
  <2>5. report[w].raced \in BOOLEAN
    BY DEF Report
  <2> QED
    BY <1>9, <2>1, <2>3, <2>4, <2>5 DEF Fire
<1>10. ASSUME NEW w \in Worker, NotFired(w) PROVE TypeOK'
  <2>1. [report[w] EXCEPT !.at = "lost"] \in Report
    BY DEF Report
  <2> QED
    BY <1>10, <2>1 DEF NotFired, past
<1>11. ASSUME NEW w \in Worker, Write(w) PROVE TypeOK'
  <2>1. row' \in Row
    BY <1>11, UpdatedType DEF Write
  <2>2. recovered' \in BOOLEAN /\ overtaken' \in BOOLEAN
    BY <1>11 DEF Write
  <2> QED
    BY <1>11, <2>1, <2>2, IdleType DEF Write
<1>12. CASE Tick
  <2>1. OlderRow(row) \in Row
    BY OlderRowType
  <2>2. ASSUME NEW w \in Worker, report[w].at # "idle"
        PROVE  [report[w] EXCEPT !.taken = @ - 1, !.row = OlderRow(@)] \in Report
    <3>1. report[w].taken > -MaxStall
      BY <1>12, <2>2, Zenon DEF Tick
    <3>2. report[w].taken - 1 \in -MaxStall..0
      BY <3>1, Spans DEF Report
    <3>3. OlderRow(report[w].row) \in Row
      BY OlderRowType DEF Report
    <3> QED
      BY <3>2, <3>3 DEF Report
  <2>3. report' \in [Worker -> Report]
    <3>1. report' = [w \in Worker |->
              IF report[w].at = "idle" THEN Idle
              ELSE [report[w] EXCEPT !.taken = @ - 1, !.row = OlderRow(@)]]
      BY <1>12, Zenon DEF Tick
    <3> QED
      BY <3>1, <2>2, IdleType, Zenon
  <2>4. /\ row' = OlderRow(row) /\ alerts' = OlderLog(alerts)
        /\ UNCHANGED <<listed, tracked, recovered, overtaken>>
    BY <1>12, Zenon DEF Tick
  <2> QED
    BY <2>1, <2>3, <2>4, OlderLogType
<1>13. CASE UNCHANGED vars
  BY <1>13 DEF vars, past
<1> QED
  BY <1>1, <1>2, <1>3, <1>4, <1>5, <1>6, <1>7, <1>8, <1>9, <1>10, <1>11, <1>12, <1>13
  DEF Next, Operator, Handle

\* Every variable keeps its type through any interleaving of reports.
THEOREM TypeCorrect == Spec => []TypeOK
  BY TypeInit, TypeStep, PTL DEF Spec

-----------------------------------------------------------------------------
\* As long as no ok was handled after an alert, the row has it open.
OpenInv == ~recovered => listed /\ row.open

LEMMA OpenStep ==
  ASSUME TypeOK, OpenInv, [Next]_vars
  PROVE  OpenInv'
<1>1. CASE Add
  BY <1>1 DEF Add, OpenInv
<1>2. CASE Remove
  BY <1>2 DEF Remove, OpenInv
<1>3. ASSUME NEW n \in {"none", "new", "tracked"}, SetResponder(n) PROVE OpenInv'
  BY <1>3 DEF SetResponder, OpenInv, TypeOK, Row, past
<1>4. ASSUME NEW w \in Worker, Fire(w) PROVE OpenInv'
  BY <1>4 DEF Fire, Claimable, Claimed, OpenInv, TypeOK, Row
<1>5. ASSUME NEW w \in Worker, Write(w) PROVE OpenInv'
  <2> SUFFICES ASSUME ~recovered' PROVE listed' /\ row'.open
    BY DEF OpenInv
  <2>1. ~recovered /\ report[w].sample.check # "ok" /\ listed' = listed
    BY <1>5 DEF Write
  <2>2. listed /\ row.open
    BY <2>1 DEF OpenInv
  <2>3. row' = Updated(row, report[w])
    BY <1>5, <2>2 DEF Write
  <2>4. ~Over(report[w])
    BY <2>1 DEF Over
  <2>5. Updated(row, report[w]).open
    BY <2>2, <2>4 DEF Updated, Claimed, TypeOK, Row
  <2> QED
    BY <2>1, <2>2, <2>3, <2>5
<1>6. CASE Tick
  <2>1. /\ row' = OlderRow(row) /\ listed' = listed /\ recovered' = recovered
    BY <1>6, Zenon DEF Tick
  <2>2. OlderRow(row).open = row.open
    BY DEF OlderRow, TypeOK, Row
  <2> QED
    BY <2>1, <2>2 DEF OpenInv
<1>7. CASE UNCHANGED <<listed, row, past>>
  BY <1>7 DEF OpenInv, past
<1>8. ASSUME NEW w \in Worker, Arrive(w) \/ ReadRow(w) \/ Aim(w) \/ NotFired(w)
      PROVE  UNCHANGED <<listed, row, past>>
  BY <1>8, Zenon DEF Arrive, ReadRow, Aim, NotFired
<1>9. ASSUME NEW s \in Session, Track(s) \/ Untrack PROVE UNCHANGED <<listed, row, past>>
  BY <1>9, Zenon DEF Track, Untrack
<1>10. Untrack => UNCHANGED <<listed, row, past>>
  BY Zenon DEF Untrack
<1>11. UNCHANGED vars => UNCHANGED <<listed, row, past>>
  BY DEF vars
<1> QED
  BY <1>1, <1>2, <1>3, <1>4, <1>5, <1>6, <1>7, <1>8, <1>9, <1>10, <1>11 DEF Next, Operator, Handle

\* However many reports overlap, a second alert for a check goes out only when
\* an ok was handled after the first.
THEOREM OneAlert == Spec => OneAlertPerFailure
<1>1. Init => OpenInv
  BY DEF Init, OpenInv
<1>2. OpenInv => \A w \in Worker : Fire(w) => recovered
  BY DEF OpenInv, Fire, Claimable
<1>3. TypeOK /\ OpenInv /\ [Next]_vars
          => OpenInv' /\ [\A w \in Worker : Fire(w) => recovered]_vars
  BY <1>2, OpenStep
<1> QED
  BY <1>1, <1>3, TypeCorrect, PTL DEF Spec, OneAlertPerFailure

-----------------------------------------------------------------------------
(* What the steps do to the reports.                                        *)

LEMMA FireReports ==
  ASSUME TypeOK, NEW w \in Worker, Fire(w)
  PROVE  /\ report[w] \in Report /\ report[w].at = "aimed"
         /\ report'[w].at = "fired"
         /\ report'[w].taken = report[w].taken /\ report'[w].row = report[w].row
         /\ \A v \in Worker : v # w =>
               /\ report'[v].at = report[v].at
               /\ report'[v].taken = report[v].taken /\ report'[v].row = report[v].row
               /\ Reading(v) => report'[v].raced
<1> DEFINE p == report[w]
<1>1. p \in Report /\ p.at = "aimed"
  BY DEF Fire, TypeOK
<1>2. report' = [Alerted(w) EXCEPT ![w].at = "fired"]
  BY DEF Fire
<1>3. Alerted(w) \in [Worker -> Report] /\ Alerted(w)[w] = p
  <2>1. \A v \in Worker : [report[v] EXCEPT !.raced = TRUE] \in Report
    BY RacedType DEF TypeOK
  <2> QED
    BY <2>1, <1>1 DEF Alerted, TypeOK
<1>4. report'[w] = [p EXCEPT !.at = "fired"]
  BY <1>2, <1>3
<1>5. report'[w].at = "fired" /\ report'[w].taken = p.taken /\ report'[w].row = p.row
  BY <1>1, <1>4 DEF Report
<1>6. ASSUME NEW v \in Worker, v # w
      PROVE  /\ report'[v] = IF Reading(v) THEN [report[v] EXCEPT !.raced = TRUE] ELSE report[v]
             /\ report[v] \in Report
  BY <1>2, <1>3, <1>6 DEF Alerted, TypeOK
<1>7. ASSUME NEW v \in Worker, v # w
      PROVE  /\ report'[v].at = report[v].at
             /\ report'[v].taken = report[v].taken /\ report'[v].row = report[v].row
             /\ Reading(v) => report'[v].raced
  BY <1>6, <1>7 DEF Report
<1> QED
  BY <1>1, <1>5, <1>7

LEMMA TickReports ==
  ASSUME TypeOK, Tick, NEW w \in Worker
  PROVE  /\ report[w].at = "idle" => report'[w].at = "idle"
         /\ report[w].at # "idle" =>
               /\ report'[w].at = report[w].at /\ report'[w].raced = report[w].raced
               /\ report'[w].taken = report[w].taken - 1
               /\ report'[w].row = OlderRow(report[w].row) /\ report[w].row \in Row
               /\ report[w].taken \in -MaxStall..0 /\ report[w].taken > -MaxStall
<1>1. report'[w] = IF report[w].at = "idle" THEN Idle
                   ELSE [report[w] EXCEPT !.taken = @ - 1, !.row = OlderRow(@)]
  <2>1. report' = [v \in Worker |->
             IF report[v].at = "idle" THEN Idle
             ELSE [report[v] EXCEPT !.taken = @ - 1, !.row = OlderRow(@)]]
    BY Zenon DEF Tick
  <2> QED
    BY <2>1, Zenon
<1>2. CASE report[w].at = "idle"
  <2>1. report'[w] = Idle
    BY <1>1, <1>2, Zenon
  <2> QED
    BY <1>2, <2>1 DEF Idle
<1>3. CASE report[w].at # "idle"
  <2>1. report[w] \in Report /\ report[w].row \in Row
    BY DEF TypeOK, Report
  <2>2. report'[w] = [report[w] EXCEPT !.taken = @ - 1, !.row = OlderRow(@)]
    BY <1>1, <1>3, Zenon
  <2>3. report[w].taken > -MaxStall
    BY <1>3, Zenon DEF Tick
  <2>4. /\ report'[w].at = report[w].at /\ report'[w].raced = report[w].raced
        /\ report'[w].taken = report[w].taken - 1 /\ report'[w].row = OlderRow(report[w].row)
    BY <2>1, <2>2 DEF Report
  <2> QED
    BY <1>3, <2>1, <2>3, <2>4 DEF Report
<1> QED
  BY <1>2, <1>3

LEMMA RemoveReports ==
  ASSUME TypeOK, Remove, NEW w \in Worker
  PROVE  /\ report'[w].at = report[w].at /\ report'[w].taken = report[w].taken
         /\ report'[w].row = report[w].row
<1>1. report' = [v \in Worker |->
          IF Reading(v) THEN [report[v] EXCEPT !.raced = TRUE] ELSE report[v]]
  BY Zenon DEF Remove
<1> QED
  BY <1>1 DEF TypeOK, Report

\* The steps of a thread that leave the row as it is.
LEMMA ThreadReports ==
  ASSUME TypeOK, NEW w \in Worker, Arrive(w) \/ ReadRow(w) \/ NotFired(w) \/ Aim(w)
  PROVE  /\ UNCHANGED <<row, past>> /\ \A v \in Worker : v # w => report'[v] = report[v]
         /\ \/ report'[w].at \in {"idle", "arrived"}
            \/ report'[w].at = "read" /\ report'[w].row = row
            \/ /\ report[w].at \in {"read", "aimed"} /\ report'[w].at \in {"held", "lost", "aimed"}
               /\ report'[w].at = "aimed" => ~MustHold(report[w])
               /\ report'[w].row = report[w].row /\ report'[w].taken = report[w].taken
               /\ report'[w].raced = report[w].raced
<1>1. CASE Arrive(w)
  <2>1. PICK s \in Sample : report' = [report EXCEPT ![w] = [Idle EXCEPT !.at = "arrived", !.sample = s]]
    BY <1>1, Zenon DEF Arrive
  <2>2. report'[w].at = "arrived" /\ \A v \in Worker : v # w => report'[v] = report[v]
    BY <2>1 DEF TypeOK, Idle
  <2>3. UNCHANGED <<row, past>>
    BY <1>1, Zenon DEF Arrive
  <2> QED
    BY <2>2, <2>3
<1>2. CASE ReadRow(w)
  <2>1. /\ report' = [report EXCEPT ![w] = IF listed THEN [@ EXCEPT !.at = "read", !.row = row] ELSE Idle]
        /\ UNCHANGED <<row, past>>
    BY <1>2, Zenon DEF ReadRow
  <2>2. \A v \in Worker : v # w => report'[v] = report[v]
    BY <2>1 DEF TypeOK
  <2>3. report'[w].at = "idle" \/ (report'[w].at = "read" /\ report'[w].row = row)
    BY <2>1 DEF TypeOK, Report, Idle
  <2> QED
    BY <2>1, <2>2, <2>3
<1>3. CASE NotFired(w)
  <2>1. /\ report' = [report EXCEPT ![w].at = "lost"] /\ UNCHANGED <<row, past>>
        /\ report[w].at = "aimed"
    BY <1>3, Zenon DEF NotFired
  <2>2. \A v \in Worker : v # w => report'[v] = report[v]
    BY <2>1 DEF TypeOK
  <2>3. /\ report'[w].row = report[w].row /\ report'[w].taken = report[w].taken
        /\ report'[w].raced = report[w].raced /\ report'[w].at = "lost"
    BY <2>1 DEF TypeOK, Report
  <2> QED
    BY <2>1, <2>2, <2>3
<1>4. CASE Aim(w)
  <2> DEFINE p == report[w]
  <2>1. /\ p.at = "read" /\ UNCHANGED <<row, past>>
        /\ report' = [report EXCEPT ![w] =
               IF MustHold(p) \/ ((IF p.row.notify = "tracked" THEN tracked ELSE NoSession) # NoSession
                                  /\ p.sample.desk = "busy")
               THEN [p EXCEPT !.at = "held"]
               ELSE [p EXCEPT !.at = "aimed",
                              !.to = IF p.row.notify = "tracked" THEN tracked ELSE NoSession]]
    BY <1>4, Zenon DEF Aim
  <2>2. \A v \in Worker : v # w => report'[v] = report[v]
    BY <2>1 DEF TypeOK
  <2>3. /\ report'[w].row = p.row /\ report'[w].taken = p.taken /\ report'[w].raced = p.raced
        /\ report'[w].at \in {"held", "aimed"} /\ (report'[w].at = "aimed" => ~MustHold(p))
    BY <2>1 DEF TypeOK, Report
  <2> QED
    BY <2>1, <2>2, <2>3
<1> QED
  BY <1>1, <1>2, <1>3, <1>4

-----------------------------------------------------------------------------
(* The cooldown.  A row, or a report's copy of it, accounts for the alerts  *)
(* if each went out by its last_fired, or too long ago to matter.           *)

Accounts(f, log) == \A t \in log : t <= f \/ t <= -Far(Cooldown)

\* The time a report will write, or has read, as that of the last alert.
LastOf(p) == IF p.at = "fired" THEN p.taken ELSE p.row.fired

Cooled(p) == p.row.fired = Never \/ p.taken - p.row.fired >= Cooldown

CooldownInv ==
    /\ ~overtaken => Accounts(row.fired, alerts)
    /\ ~overtaken => \A w \in Worker :
           Reading(w) /\ ~report[w].raced => Accounts(LastOf(report[w]), alerts)
    /\ \A w \in Worker : report[w].at = "aimed" => Cooled(report[w])

\* An alert that is due by a copy which accounts for the others keeps its
\* distance from them.
LEMMA Apart ==
  ASSUME TypeOK, NEW p \in Report, Cooled(p), Accounts(p.row.fired, alerts), NEW t \in alerts
  PROVE  p.taken - t >= Cooldown
<1>1. t \in Int /\ p.taken \in -MaxStall..0 /\ p.row.fired \in Past(Cooldown) \cup {Never}
  BY DEF TypeOK, Report, Row, Past
<1>2. CASE t <= -Far(Cooldown)
  BY <1>1, <1>2, Spans
<1>3. CASE t <= p.row.fired
  BY <1>1, <1>3, Spans DEF Cooled, Past
<1> QED
  BY <1>2, <1>3 DEF Accounts

Aged(f) == IF f = Never THEN Never ELSE Older(f, Cooldown)

\* A time and the alerts grow older together.
LEMMA AccountsOlder ==
  ASSUME TypeOK, NEW f \in Past(Cooldown) \cup {Never}, Accounts(f, alerts)
  PROVE  Accounts(Aged(f), OlderLog(alerts))
<1> SUFFICES ASSUME NEW t \in alerts
             PROVE  t - 1 <= Aged(f) \/ t - 1 <= -Far(Cooldown)
  BY DEF Accounts, OlderLog
<1>1. t \in Int /\ (t <= f \/ t <= -Far(Cooldown))
  BY DEF TypeOK, Past, Accounts
<1> QED
  BY <1>1, Spans DEF Past, Older, Aged

LEMMA CooldownFire ==
  ASSUME TypeOK, CooldownInv, NEW w \in Worker, Fire(w)
  PROVE  /\ CooldownInv'
         /\ ~overtaken' => \A t \in alerts : report[w].taken - t >= Cooldown
<1> DEFINE p == report[w]
<1>0. p \in Report /\ p.at = "aimed" /\ Reading(w)
  BY FireReports DEF Reading
<1>1. ~overtaken' => ~overtaken /\ ~p.raced
  BY DEF Fire
<1>2. ~overtaken' => \A t \in alerts : p.taken - t >= Cooldown
  BY <1>0, <1>1, Apart DEF CooldownInv, LastOf
<1>3. alerts' = alerts \cup {p.taken} /\ row' = Claimed(row, p)
  BY DEF Fire
<1>4. row'.fired = p.taken
  BY <1>3 DEF Claimed, TypeOK, Row
<1>5. ~overtaken' => Accounts(p.taken, alerts')
  <2> SUFFICES ASSUME ~overtaken', NEW t \in alerts' PROVE t <= p.taken
    BY DEF Accounts
  <2>1. p.taken \in Int
    BY <1>0, Spans DEF Report
  <2>2. t \in alerts => t \in Int
    BY Spans DEF TypeOK, Past
  <2>3. t \in alerts => p.taken - t >= Cooldown
    BY <1>2
  <2>4. t \in alerts \/ t = p.taken
    BY <1>3
  <2> QED
    BY <2>1, <2>2, <2>3, <2>4, Spans
<1>6. ~overtaken' => \A v \in Worker :
          Reading(v)' /\ ~report'[v].raced => Accounts(LastOf(report'[v]), alerts')
  BY <1>5, FireReports DEF Reading, LastOf
<1>7. \A v \in Worker : report'[v].at = "aimed" => Cooled(report'[v])
  BY FireReports DEF CooldownInv, Cooled
<1> QED
  BY <1>2, <1>4, <1>5, <1>6, <1>7 DEF CooldownInv

LEMMA CooldownWrite ==
  ASSUME TypeOK, CooldownInv, NEW w \in Worker, Write(w)
  PROVE  CooldownInv'
<1> DEFINE p == report[w]
<1>1. /\ row' = (IF listed THEN Updated(row, p) ELSE row)
      /\ report' = [report EXCEPT ![w] = Idle] /\ alerts' = alerts
      /\ overtaken' = (overtaken \/ (p.raced /\ p.at = "fired"))
  BY Zenon DEF Write
<1>2. p.at # "fired" => Updated(row, p).fired = row.fired
  BY DEF Updated, TypeOK, Row
<1>3. p.at = "fired" => Updated(row, p).fired = p.taken
  BY DEF Updated, Claimed, TypeOK, Row
<1>4. ~overtaken' /\ p.at = "fired" => Accounts(p.taken, alerts)
  BY <1>1 DEF CooldownInv, Reading, LastOf
<1>5. ~overtaken' => Accounts(row.fired, alerts)
  BY <1>1 DEF CooldownInv
<1>6. ~overtaken' => Accounts(row'.fired, alerts')
  <2>1. CASE p.at = "fired" /\ listed
    BY <2>1, <1>1, <1>3, <1>4
  <2>2. CASE p.at # "fired" \/ ~listed
    BY <2>2, <1>1, <1>2, <1>5
  <2> QED
    BY <2>1, <2>2
<1>7. \A v \in Worker : v # w => report'[v] = report[v]
  BY <1>1 DEF TypeOK
<1>8. report'[w].at = "idle"
  BY <1>1 DEF TypeOK, Idle
<1>9. ~overtaken' => \A v \in Worker :
          Reading(v)' /\ ~report'[v].raced => Accounts(LastOf(report'[v]), alerts')
  BY <1>1, <1>7, <1>8 DEF CooldownInv, Reading
<1>10. \A v \in Worker : report'[v].at = "aimed" => Cooled(report'[v])
  BY <1>7, <1>8 DEF CooldownInv
<1> QED
  BY <1>6, <1>9, <1>10 DEF CooldownInv

LEMMA CooldownTick ==
  ASSUME TypeOK, CooldownInv, Tick
  PROVE  CooldownInv'
<1>1. row' = OlderRow(row) /\ alerts' = OlderLog(alerts) /\ overtaken' = overtaken
  BY Zenon DEF Tick
<1>2. \A r \in Row : OlderRow(r).fired = Aged(r.fired) /\ r.fired \in Past(Cooldown) \cup {Never}
  BY DEF OlderRow, Row, Aged
<1>3. ~overtaken' => Accounts(row'.fired, alerts')
  <2>1. row'.fired = Aged(row.fired) /\ row.fired \in Past(Cooldown) \cup {Never}
    BY <1>1, <1>2 DEF TypeOK
  <2>2. ~overtaken' => Accounts(row.fired, alerts)
    BY <1>1 DEF CooldownInv
  <2> QED
    BY <1>1, <2>1, <2>2, AccountsOlder
<1>4. ASSUME NEW w \in Worker, report[w].at # "idle"
      PROVE  /\ report'[w].at = report[w].at /\ report'[w].raced = report[w].raced
             /\ report'[w].taken = report[w].taken - 1
             /\ report'[w].row.fired = Aged(report[w].row.fired)
             /\ report[w].row.fired \in Past(Cooldown) \cup {Never}
             /\ report[w].taken \in -MaxStall..0 /\ report[w].taken > -MaxStall
  BY <1>2, <1>4, TickReports
<1>5. ASSUME NEW w \in Worker, report[w].at = "idle"
      PROVE  report'[w].at = "idle"
  BY <1>5, TickReports
<1>6. ASSUME NEW w \in Worker, ~overtaken', Reading(w)', ~report'[w].raced
      PROVE  Accounts(LastOf(report'[w]), alerts')
  <2>1. report[w].at # "idle"
    BY <1>5, <1>6 DEF Reading
  <2>2. Accounts(LastOf(report[w]), alerts)
    BY <1>1, <1>4, <1>6, <2>1 DEF CooldownInv, Reading
  <2>3. CASE report[w].at = "fired"
    <3>1. Accounts(report[w].taken, alerts) /\ report[w].taken \in Past(Cooldown)
      BY <1>4, <2>1, <2>2, <2>3, TakenType DEF LastOf
    <3>2. Aged(report[w].taken) = report[w].taken - 1
      BY <1>4, <2>1, Spans DEF Aged, Older
    <3>3. Accounts(report[w].taken - 1, alerts')
      BY <1>1, <3>1, <3>2, AccountsOlder
    <3> QED
      BY <1>4, <2>1, <2>3, <3>3 DEF LastOf
  <2>4. CASE report[w].at # "fired"
    <3>1. Accounts(Aged(report[w].row.fired), alerts')
      BY <1>1, <1>4, <2>1, <2>2, <2>4, AccountsOlder DEF LastOf
    <3> QED
      BY <1>4, <2>1, <2>4, <3>1 DEF LastOf
  <2> QED
    BY <2>3, <2>4
<1>7. ASSUME NEW w \in Worker, report'[w].at = "aimed"
      PROVE  Cooled(report'[w])
  <2>1. report[w].at # "idle" /\ report[w].at = "aimed"
    BY <1>4, <1>5, <1>7
  <2>2. Cooled(report[w])
    BY <2>1 DEF CooldownInv
  <2>3. CASE report[w].row.fired = Never
    BY <1>4, <2>1, <2>3 DEF Cooled, Aged
  <2>4. CASE report[w].row.fired \in Past(Cooldown)
    <3>1. report[w].row.fired # Never /\ report[w].taken - report[w].row.fired >= Cooldown
      BY <2>2, <2>4, Spans DEF Cooled, Past
    <3>2. (report[w].taken - 1) - Older(report[w].row.fired, Cooldown) >= Cooldown
      BY <1>4, <2>1, <2>4, <3>1, Spans DEF Older, Past
    <3> QED
      BY <1>4, <2>1, <3>1, <3>2 DEF Cooled, Aged
  <2> QED
    BY <1>4, <2>1, <2>3, <2>4
<1> QED
  BY <1>3, <1>6, <1>7 DEF CooldownInv

LEMMA CooldownStep ==
  ASSUME TypeOK, CooldownInv, [Next]_vars
  PROVE  CooldownInv'
<1>1. CASE Add
  <2>1. alerts' = {} /\ row' = NewRow /\ report' = report
    BY <1>1 DEF Add
  <2> QED
    BY <2>1 DEF CooldownInv, Accounts
<1>2. CASE Remove
  <2>1. alerts' = {}
    BY <1>2 DEF Remove
  <2> QED
    BY <1>2, <2>1, RemoveReports DEF CooldownInv, Accounts, Cooled
<1>3. ASSUME NEW n \in {"none", "new", "tracked"}, SetResponder(n) PROVE CooldownInv'
  <2>1. row'.fired = row.fired /\ UNCHANGED <<report, past>>
    BY <1>3 DEF SetResponder, TypeOK, Row
  <2> QED
    BY <2>1 DEF CooldownInv, past, Reading
<1>4. ASSUME NEW w \in Worker, Arrive(w) \/ ReadRow(w) \/ NotFired(w) \/ Aim(w)
      PROVE  CooldownInv'
  <2> DEFINE p == report[w]
  <2>1. UNCHANGED <<row, past>> /\ \A v \in Worker : v # w => report'[v] = report[v]
    BY <1>4, ThreadReports
  <2>2. p.taken \in Int /\ p.row.fired \in Int
    BY Spans DEF TypeOK, Report, Row, Past
  <2>3. report'[w].at = "aimed" => Cooled(report'[w])
    <3>1. CASE report'[w].at = "aimed"
      <4>1. /\ ~MustHold(p)
            /\ report'[w].row = p.row /\ report'[w].taken = p.taken
        BY <1>4, <3>1, ThreadReports
      <4> QED
        BY <2>2, <4>1, Spans DEF MustHold, CappedOrCooling, Cooled
    <3> QED
      BY <3>1
  <2>4. ~overtaken' /\ Reading(w)' /\ ~report'[w].raced => Accounts(LastOf(report'[w]), alerts')
    BY <1>4, <2>1, ThreadReports DEF CooldownInv, LastOf, Reading, past
  <2> QED
    BY <2>1, <2>3, <2>4 DEF CooldownInv, past, Reading
<1>5. CASE UNCHANGED <<row, report, past>>
  BY <1>5 DEF CooldownInv, past, Reading
<1>6. \A s \in Session : Track(s) => UNCHANGED <<row, report, past>>
  BY Zenon DEF Track
<1>7. (Untrack \/ UNCHANGED vars) => UNCHANGED <<row, report, past>>
  BY DEF Untrack, vars
<1> QED
  BY <1>1, <1>2, <1>3, <1>4, <1>5, <1>6, <1>7, CooldownFire, CooldownWrite, CooldownTick
     DEF Next, Operator, Handle

\* Whatever overlaps, an alert keeps the cooldown's distance from every alert
\* before it, as long as no report has written its own over another's.
THEOREM Cooling == Spec => CooldownKept
<1>1. Init => CooldownInv
  BY DEF Init, CooldownInv, Accounts, Idle
<1>2. TypeOK /\ CooldownInv /\ [Next]_vars
          => /\ CooldownInv'
             /\ [\A w \in Worker :
                    Fire(w) /\ ~overtaken' => \A t \in alerts : report[w].taken - t >= Cooldown]_vars
  BY CooldownStep, CooldownFire
<1> QED
  BY <1>1, <1>2, TypeCorrect, PTL DEF Spec, CooldownKept

-----------------------------------------------------------------------------
(* The cap.  A log covers the alerts if each is in it or is a whole window  *)
(* older than another: then it is out of every window still to come.        *)

Covers(log, sent) == \A t \in sent : t \in log \/ \E s \in sent : s - t >= Window

\* What an alert that went out by the copy p wrote, and will write, as the log.
Logged(p) == Recent(p.row.log, p.taken) \cup {p.taken}
LogOf(p)  == IF p.at = "fired" THEN Logged(p) ELSE p.row.log

\* The alerts in the window that ends at t.
Within(t) == {u \in alerts : u <= t /\ t - u < Window}

LogInv ==
    /\ ~overtaken => Covers(row.log, alerts)
    /\ ~overtaken => \A w \in Worker :
           Reading(w) /\ ~report[w].raced => Covers(LogOf(report[w]), alerts)

FewInv == \A w \in Worker :
    report[w].at = "aimed" => Cardinality(Recent(report[w].row.log, report[w].taken)) < Cap

CapInv == LogInv /\ FewInv /\ CapKept

LEMMA PastIsFinite ==
  ASSUME NEW S \in SUBSET Past(Window)
  PROVE  IsFiniteSet(S) /\ Cardinality(S) \in Nat
<1>1. IsFiniteSet(Past(Window))
  BY Spans, FS_Interval DEF Past
<1> QED
  BY <1>1, FS_Subset, FS_CardinalityType

\* Times that grow older do not become more.
LEMMA NotMore ==
  ASSUME NEW S \in SUBSET Past(Window), NEW T \in SUBSET Past(Window), \A x \in T : x + 1 \in S
  PROVE  Cardinality(T) <= Cardinality(S)
<1> DEFINE f == [x \in T |-> x + 1]
<1>1. \A x \in T : x \in Int
  BY Spans DEF Past
<1>2. f \in [T -> S] /\ \A x, y \in T : f[x] = f[y] => x = y
  BY <1>1
<1>3. f \in Injection(T, S)
  BY <1>2 DEF Injection, IsInjective
<1>4. IsFiniteSet(S)
  BY PastIsFinite
<1> QED
  BY <1>3, <1>4, FS_Injection

\* A log and the alerts grow older together.
LEMMA CoversOlder ==
  ASSUME NEW log, NEW sent \in SUBSET Past(Window), Covers(log, sent)
  PROVE  Covers(OlderLog(log), OlderLog(sent))
<1> SUFFICES ASSUME NEW t \in sent, t > -Far(Window)
             PROVE  t - 1 \in OlderLog(log) \/ \E s \in OlderLog(sent) : s - (t - 1) >= Window
  BY DEF Covers, OlderLog
<1>1. CASE t \in log
  BY <1>1 DEF OlderLog
<1>2. ASSUME NEW s \in sent, s - t >= Window
      PROVE  \E u \in OlderLog(sent) : u - (t - 1) >= Window
  <2>1. s \in Int /\ t \in Int /\ s > -Far(Window)
    BY <1>2, Spans DEF Past
  <2>2. s - 1 \in OlderLog(sent) /\ (s - 1) - (t - 1) >= Window
    BY <1>2, <2>1, Spans DEF OlderLog
  <2> QED
    BY <2>2
<1> QED
  BY <1>1, <1>2 DEF Covers

LEMMA CapFire ==
  ASSUME TypeOK, CooldownInv, CapInv, NEW w \in Worker, Fire(w)
  PROVE  CapInv'
<1> DEFINE p == report[w]
<1>1. /\ p \in Report /\ p.at = "aimed" /\ p.taken \in Int /\ p.taken \in Past(Window)
      /\ p.row.log \in SUBSET Past(Window)
  BY FireReports, TakenType, Spans DEF Report, Row
<1>2. /\ alerts' = alerts \cup {p.taken} /\ row' = Claimed(row, p)
      /\ ~overtaken' => ~overtaken /\ ~p.raced
  BY DEF Fire
<1>3. ~overtaken' => \A t \in alerts : p.taken - t >= Cooldown
  BY CooldownFire
<1>4. \A t \in alerts : t \in Int
  BY Spans DEF TypeOK, Past
<1>5. ~overtaken' => Covers(p.row.log, alerts)
  BY <1>1, <1>2 DEF CapInv, LogInv, LogOf, Reading
<1>6. ~overtaken' => Covers(Logged(p), alerts')
  <2> SUFFICES ASSUME ~overtaken', NEW t \in alerts
               PROVE  t \in Logged(p) \/ \E s \in alerts' : s - t >= Window
    BY <1>2 DEF Covers, Logged
  <2>1. CASE t \in p.row.log /\ p.taken - t < Window
    BY <2>1 DEF Logged, Recent
  <2>2. CASE t \in p.row.log /\ ~(p.taken - t < Window)
    <3>1. p.taken - t >= Window
      BY <1>1, <1>4, <2>2, Spans
    <3> QED
      BY <1>2, <3>1
  <2>3. CASE t \notin p.row.log
    BY <1>2, <1>5, <2>3 DEF Covers
  <2> QED
    BY <2>1, <2>2, <2>3
<1>7. row'.log = Logged(p)
  BY <1>2 DEF Claimed, Logged, TypeOK, Row
<1>8. LogInv'
  <2>1. LogOf(report'[w]) = Logged(p)
    BY FireReports DEF LogOf, Logged
  <2>2. ~overtaken' => \A v \in Worker :
            Reading(v)' /\ ~report'[v].raced => Covers(LogOf(report'[v]), alerts')
    BY <1>6, <2>1, FireReports DEF Reading
  <2> QED
    BY <1>6, <1>7, <2>2 DEF LogInv
<1>9. FewInv'
  BY FireReports DEF CapInv, FewInv
<1>10. CapKept'
  <2> SUFFICES ASSUME ~overtaken', NEW t \in alerts'
               PROVE  Cardinality({u \in alerts' : u <= t /\ t - u < Window}) <= Cap
    BY DEF CapKept
  <2>1. CASE t \in alerts
    <3>1. p.taken > t
      BY <1>1, <1>3, <1>4, <2>1, Spans
    <3>2. {u \in alerts' : u <= t /\ t - u < Window} = Within(t)
      BY <1>1, <1>2, <1>4, <2>1, <3>1 DEF Within
    <3> QED
      BY <1>2, <2>1, <3>2 DEF CapInv, CapKept, Within
  <2>2. CASE t = p.taken
    <3> DEFINE near == Recent(p.row.log, p.taken)
    <3>1. near \in SUBSET Past(Window) /\ Cardinality(near) < Cap
      BY <1>1 DEF Recent, CapInv, FewInv
    <3>2. IsFiniteSet(near) /\ Cardinality(near) \in Nat
      BY <3>1, PastIsFinite
    <3> HIDE DEF near
    <3>3. IsFiniteSet(near \cup {p.taken}) /\ Cardinality(near \cup {p.taken}) <= Cap
      <4>1. /\ IsFiniteSet(near \cup {p.taken})
            /\ Cardinality(near \cup {p.taken})
                 = IF p.taken \in near THEN Cardinality(near) ELSE Cardinality(near) + 1
        BY <3>2, FS_AddElement, Zenon
      <4> QED
        BY <3>1, <3>2, <4>1, ResponderAssumption
    <3>4. {u \in alerts' : u <= t /\ t - u < Window} \subseteq near \cup {p.taken}
      <4> SUFFICES ASSUME NEW u \in alerts, p.taken - u < Window
                   PROVE  u \in p.row.log
        BY <1>2, <2>2 DEF Recent, near
      <4>1. ASSUME NEW s \in alerts, s - u >= Window PROVE FALSE
        BY <1>1, <1>3, <1>4, <4>1, Spans
      <4> QED
        BY <1>5, <4>1 DEF Covers
    <3>5. Cardinality({u \in alerts' : u <= t /\ t - u < Window}) \in Nat
      <4>1. {u \in alerts' : u <= t /\ t - u < Window} \in SUBSET Past(Window)
        BY <1>1, <1>2 DEF TypeOK
      <4> QED
        BY <4>1, PastIsFinite, Zenon
    <3>6. /\ Cardinality({u \in alerts' : u <= t /\ t - u < Window})
                <= Cardinality(near \cup {p.taken})
          /\ Cardinality(near \cup {p.taken}) \in Nat
      BY <3>3, <3>4, FS_Subset, FS_CardinalityType
    <3> QED
      BY <3>3, <3>5, <3>6, ResponderAssumption
  <2> QED
    BY <1>2, <2>1, <2>2
<1> QED
  BY <1>8, <1>9, <1>10 DEF CapInv

LEMMA CapWrite ==
  ASSUME TypeOK, CapInv, NEW w \in Worker, Write(w)
  PROVE  CapInv'
<1> DEFINE p == report[w]
<1>1. /\ row' = (IF listed THEN Updated(row, p) ELSE row)
      /\ report' = [report EXCEPT ![w] = Idle] /\ alerts' = alerts
      /\ overtaken' = (overtaken \/ (p.raced /\ p.at = "fired"))
  BY Zenon DEF Write
<1>2. p.at # "fired" => Updated(row, p).log = row.log
  BY DEF Updated, TypeOK, Row
<1>3. p.at = "fired" => Updated(row, p).log = Logged(p)
  BY DEF Updated, Claimed, Logged, TypeOK, Row
<1>4. ~overtaken' /\ p.at = "fired" => Covers(Logged(p), alerts)
  BY <1>1 DEF CapInv, LogInv, Reading, LogOf
<1>5. ~overtaken' => Covers(row.log, alerts)
  BY <1>1 DEF CapInv, LogInv
<1>6. ~overtaken' => Covers(row'.log, alerts')
  <2>1. CASE p.at = "fired" /\ listed
    BY <2>1, <1>1, <1>3, <1>4
  <2>2. CASE p.at # "fired" \/ ~listed
    BY <2>2, <1>1, <1>2, <1>5
  <2> QED
    BY <2>1, <2>2
<1>7. \A v \in Worker : v # w => report'[v] = report[v]
  BY <1>1 DEF TypeOK
<1>8. report'[w].at = "idle"
  BY <1>1 DEF TypeOK, Idle
<1>9. LogInv'
  BY <1>1, <1>6, <1>7, <1>8 DEF CapInv, LogInv, Reading
<1>10. FewInv'
  BY <1>7, <1>8 DEF CapInv, FewInv
<1>11. CapKept'
  BY <1>1 DEF CapInv, CapKept
<1> QED
  BY <1>9, <1>10, <1>11 DEF CapInv

LEMMA CapTick ==
  ASSUME TypeOK, CapInv, Tick
  PROVE  CapInv'
<1>1. row' = OlderRow(row) /\ alerts' = OlderLog(alerts) /\ overtaken' = overtaken
  BY Zenon DEF Tick
<1>2. \A r \in Row : OlderRow(r).log = OlderLog(r.log) /\ r.log \in SUBSET Past(Window)
  BY DEF OlderRow, Row
<1>3. alerts \in SUBSET Past(Window) /\ OlderLog(alerts) \in SUBSET Past(Window)
  BY OlderLogType DEF TypeOK
<1>4. ~overtaken' => Covers(row'.log, alerts')
  <2>1. row'.log = OlderLog(row.log)
    BY <1>1, <1>2 DEF TypeOK
  <2> QED
    BY <1>1, <1>3, <2>1, CoversOlder DEF CapInv, LogInv
<1>5. ASSUME NEW w \in Worker, report[w].at # "idle"
      PROVE  /\ report'[w].row.log = OlderLog(report[w].row.log)
             /\ report[w].row.log \in SUBSET Past(Window)
             /\ report[w].taken \in Int /\ report[w].taken > -MaxStall
             /\ report'[w].taken = report[w].taken - 1
             /\ report'[w].at = report[w].at /\ report'[w].raced = report[w].raced
  BY <1>2, <1>5, TickReports, Spans DEF TypeOK, Report
<1>6. ASSUME NEW w \in Worker, ~overtaken', Reading(w)', ~report'[w].raced
      PROVE  Covers(LogOf(report'[w]), alerts')
  <2> DEFINE p == report[w]
  <2>1. p.at # "idle" /\ Reading(w) /\ ~p.raced
    BY <1>5, <1>6, TickReports DEF Reading
  <2>2. Covers(OlderLog(LogOf(p)), alerts')
    BY <1>1, <1>3, <1>6, <2>1, CoversOlder DEF CapInv, LogInv
  <2>3. OlderLog(LogOf(p)) \subseteq LogOf(report'[w])
    <3>1. CASE p.at # "fired"
      BY <1>5, <2>1, <3>1 DEF LogOf
    <3>2. CASE p.at = "fired"
      <4>1. LogOf(p) = Logged(p) /\ LogOf(report'[w]) = Logged(report'[w])
        BY <1>5, <2>1, <3>2 DEF LogOf
      <4>2. ASSUME NEW t \in Logged(p), t > -Far(Window)
            PROVE  t - 1 \in Logged(report'[w])
        <5>1. t \in Int
          BY <1>5, <2>1, Spans DEF Logged, Recent, Past
        <5>2. CASE t = p.taken
          BY <1>5, <2>1, <5>2 DEF Logged
        <5>3. CASE t \in p.row.log /\ p.taken - t < Window
          <6>1. t - 1 \in OlderLog(p.row.log)
            BY <4>2, <5>3 DEF OlderLog
          <6>2. (p.taken - 1) - (t - 1) < Window
            BY <1>5, <2>1, <5>1, <5>3, Spans
          <6> QED
            BY <1>5, <2>1, <6>1, <6>2 DEF Logged, Recent
        <5> QED
          BY <5>2, <5>3 DEF Logged, Recent
      <4> QED
        BY <4>1, <4>2 DEF OlderLog
    <3> QED
      BY <3>1, <3>2
  <2> QED
    BY <2>2, <2>3 DEF Covers
<1>7. LogInv'
  BY <1>4, <1>6 DEF LogInv
<1>8. ASSUME NEW w \in Worker, report'[w].at = "aimed"
      PROVE  Cardinality(Recent(report'[w].row.log, report'[w].taken)) < Cap
  <2> DEFINE p == report[w]
             S == Recent(p.row.log, p.taken)
             T == Recent(report'[w].row.log, report'[w].taken)
  <2>1. p.at # "idle" /\ p.at = "aimed"
    BY <1>5, <1>8, TickReports
  <2>2. Cardinality(S) < Cap
    BY <2>1 DEF CapInv, FewInv
  <2>3. S \in SUBSET Past(Window) /\ T \in SUBSET Past(Window)
    BY <1>5, <2>1, OlderLogType DEF Recent
  <2>4. \A x \in T : x + 1 \in S
    BY <1>5, <2>1, Spans DEF Recent, OlderLog, Past
  <2>5. Cardinality(T) <= Cardinality(S) /\ Cardinality(S) \in Nat /\ Cardinality(T) \in Nat
    BY <2>3, <2>4, NotMore, PastIsFinite
  <2> QED
    BY <2>2, <2>5, ResponderAssumption
<1>9. FewInv'
  BY <1>8 DEF FewInv
<1>10. CapKept'
  <2> SUFFICES ASSUME ~overtaken', NEW t \in alerts'
               PROVE  Cardinality({u \in alerts' : u <= t /\ t - u < Window}) <= Cap
    BY DEF CapKept
  <2> DEFINE S == Within(t + 1)
             T == {u \in alerts' : u <= t /\ t - u < Window}
  <2>1. t \in Int /\ t + 1 \in alerts
    BY <1>1, <1>3, Spans DEF OlderLog, Past
  <2>2. Cardinality(S) <= Cap
    BY <1>1, <2>1 DEF CapInv, CapKept, Within
  <2>3. S \in SUBSET Past(Window) /\ T \in SUBSET Past(Window)
    BY <1>1, <1>3 DEF Within
  <2>4. \A x \in T : x + 1 \in S
    BY <1>1, <1>3, <2>1, Spans DEF Within, OlderLog, Past
  <2>5. Cardinality(T) <= Cardinality(S) /\ Cardinality(S) \in Nat /\ Cardinality(T) \in Nat
    BY <2>3, <2>4, NotMore, PastIsFinite
  <2> QED
    BY <2>2, <2>5, ResponderAssumption
<1> QED
  BY <1>7, <1>9, <1>10 DEF CapInv

LEMMA CapStep ==
  ASSUME TypeOK, CooldownInv, CapInv, [Next]_vars
  PROVE  CapInv'
<1>1. CASE Add
  <2>1. alerts' = {} /\ report' = report
    BY <1>1 DEF Add
  <2> QED
    BY <2>1 DEF CapInv, LogInv, FewInv, CapKept, Covers
<1>2. CASE Remove
  <2>1. alerts' = {}
    BY <1>2 DEF Remove
  <2> QED
    BY <1>2, <2>1, RemoveReports DEF CapInv, LogInv, FewInv, CapKept, Covers
<1>3. ASSUME NEW n \in {"none", "new", "tracked"}, SetResponder(n) PROVE CapInv'
  <2>1. row'.log = row.log /\ UNCHANGED <<report, past>>
    BY <1>3 DEF SetResponder, TypeOK, Row
  <2> QED
    BY <2>1 DEF CapInv, LogInv, FewInv, CapKept, past, Reading
<1>4. ASSUME NEW w \in Worker, Arrive(w) \/ ReadRow(w) \/ NotFired(w) \/ Aim(w) PROVE CapInv'
  <2>1. UNCHANGED <<row, past>> /\ \A v \in Worker : v # w => report'[v] = report[v]
    BY <1>4, ThreadReports
  <2>2. report'[w].at = "aimed" =>
            Cardinality(Recent(report'[w].row.log, report'[w].taken)) < Cap
    <3>1. CASE report'[w].at = "aimed"
      <4> DEFINE S == Recent(report'[w].row.log, report'[w].taken)
      <4>1. ~MustHold(report[w]) /\ S = Recent(report[w].row.log, report[w].taken)
        BY <1>4, <3>1, ThreadReports
      <4>2. ~(Cardinality(S) >= Cap)
        BY <4>1 DEF MustHold, CappedOrCooling
      <4>3. Cardinality(S) \in Nat
        <5>1. report[w].row.log \in SUBSET Past(Window)
          BY DEF TypeOK, Report, Row
        <5>2. S \in SUBSET Past(Window)
          BY <4>1, <5>1 DEF Recent
        <5> QED
          BY <5>2, PastIsFinite
      <4> QED
        BY <4>2, <4>3, ResponderAssumption
    <3> QED
      BY <3>1
  <2>3. FewInv'
    BY <2>1, <2>2 DEF CapInv, FewInv
  <2>4. ~overtaken' /\ Reading(w)' /\ ~report'[w].raced => Covers(LogOf(report'[w]), alerts')
    BY <1>4, <2>1, ThreadReports DEF CapInv, LogInv, LogOf, Reading, past
  <2>5. LogInv' /\ CapKept'
    BY <2>1, <2>4 DEF CapInv, LogInv, CapKept, Reading, past
  <2> QED
    BY <2>3, <2>5 DEF CapInv
<1>5. CASE UNCHANGED <<row, report, past>>
  BY <1>5 DEF CapInv, LogInv, FewInv, CapKept, past, Reading
<1>6. \A s \in Session : Track(s) => UNCHANGED <<row, report, past>>
  BY Zenon DEF Track
<1>7. (Untrack \/ UNCHANGED vars) => UNCHANGED <<row, report, past>>
  BY DEF Untrack, vars
<1> QED
  BY <1>1, <1>2, <1>3, <1>4, <1>5, <1>6, <1>7, CapFire, CapWrite, CapTick
     DEF Next, Operator, Handle

\* No window of the time holds more alerts than the cap, however reports overlap
\* and however often each rewrites the log from its copy, as long as no report
\* has written its own alert over another's (evaluate, check_fire, check_update).
THEOREM Capped == Spec => []CapKept
<1>1. Init => CooldownInv /\ CapInv
  BY DEF Init, CooldownInv, Accounts, CapInv, LogInv, FewInv, CapKept, Covers, Idle
<1>2. TypeOK /\ CooldownInv /\ CapInv /\ [Next]_vars => CooldownInv' /\ CapInv'
  BY CooldownStep, CapStep
<1>3. CapInv => CapKept
  BY DEF CapInv
<1> QED
  BY <1>1, <1>2, <1>3, TypeCorrect, PTL DEF Spec

-----------------------------------------------------------------------------
(* The refinement: each step is one of Alerts, or none.                     *)

\* The report that fires has counted, in its copy, every alert the cap counts.
LEMMA RoomToFire ==
  ASSUME TypeOK, CooldownInv, CapInv, NEW w \in Worker, Fire(w), ~overtaken'
  PROVE  Promise!Room(report[w].taken)
<1> DEFINE p == report[w]
           near == Recent(p.row.log, p.taken)
           counted == {u \in alerts : p.taken - u < Window}
<1>1. /\ p \in Report /\ p.at = "aimed" /\ p.taken \in Int
      /\ near \in SUBSET Past(Window) /\ counted \in SUBSET Past(Window)
  BY FireReports, Spans DEF Report, Row, Recent, TypeOK
<1>2. \A t \in alerts : p.taken - t >= Cooldown
  BY CooldownFire
<1>3. \A t \in alerts : t \in Int
  BY Spans DEF TypeOK, Past
<1>4. Covers(p.row.log, alerts)
  BY <1>1 DEF Fire, CapInv, LogInv, LogOf, Reading
<1>5. counted \subseteq near
  <2> SUFFICES ASSUME NEW u \in alerts, p.taken - u < Window
               PROVE  u \in p.row.log
    BY DEF Recent
  <2>1. ASSUME NEW s \in alerts, s - u >= Window PROVE FALSE
    BY <1>1, <1>2, <1>3, <2>1, Spans
  <2> QED
    BY <1>4, <2>1 DEF Covers
<1>6. Cardinality(near) < Cap
  BY <1>1 DEF CapInv, FewInv
<1>7. Cardinality(counted) \in Nat /\ Cardinality(near) \in Nat /\ IsFiniteSet(near)
  BY <1>1, PastIsFinite
<1>8. Cardinality(counted) <= Cardinality(near)
  BY <1>5, <1>7, FS_Subset
<1>9. Cardinality(counted) < Cap
  BY <1>6, <1>7, <1>8, ResponderAssumption
<1> QED
  BY <1>9, Zenon DEF Promise!Room, Promise!Cardinality, Promise!IsFiniteSet, Cardinality, IsFiniteSet

\* An alert goes out as the promise allows it.
LEMMA FireAlerts ==
  ASSUME TypeOK, OpenInv, CooldownInv, CapInv, NEW w \in Worker, Fire(w)
  PROVE  Promise!Alert(report[w].taken)
<1>1. recovered
  BY DEF Fire, Claimable, OpenInv
<1>2. ~overtaken' => Promise!Cooled(report[w].taken)
  BY CooldownFire DEF Promise!Cooled
<1>3. ~overtaken' => Promise!Room(report[w].taken)
  BY RoomToFire
<1>4. Promise!Excuses
  BY DEF Fire, Promise!Excuses, TypeOK, Report
<1> QED
  BY <1>1, <1>2, <1>3, <1>4 DEF Fire, Promise!Alert

\* The handling of overlapping reports keeps the promise of Alerts: a failure is
\* alerted once, in effect in one step that keeps cooldown and cap, unless a
\* report wrote its alert over another's (evaluate, check_fire, check_update).
THEOREM KeepsPromise == Spec => ImplementsAlerts
<1>1. Init => Promise!Init
  BY DEF Init, Promise!Init, Promise!Fresh
<1>2. TypeOK /\ OpenInv /\ CooldownInv /\ CapInv /\ [Next]_vars
          => [Promise!Next]_(Promise!vars)
  <2> SUFFICES ASSUME TypeOK, OpenInv, CooldownInv, CapInv, [Next]_vars
               PROVE  [Promise!Next]_(Promise!vars)
    OBVIOUS
  <2>1. CASE Add \/ Remove
    <3>1. Promise!Reset
      BY <2>1 DEF Add, Remove, Promise!Reset
    <3> QED
      BY <3>1 DEF Promise!Next
  <2>2. ASSUME NEW w \in Worker, Fire(w) PROVE Promise!Next
    <3>1. report[w].taken \in -MaxStall..0
      BY DEF TypeOK, Report
    <3> QED
      BY <2>2, <3>1, FireAlerts DEF Promise!Next
  <2>3. ASSUME NEW w \in Worker, Write(w) PROVE Promise!Next
    <3>1. Promise!Handled
      BY <2>3 DEF Write, Promise!Handled, Promise!Excuses, TypeOK, Report
    <3> QED
      BY <3>1 DEF Promise!Next
  <2>4. CASE Tick
    <3>1. Promise!Tick
      BY <2>4, Zenon DEF Tick, OlderLog, Promise!Tick
    <3> QED
      BY <3>1 DEF Promise!Next
  <2>5. CASE UNCHANGED past
    BY <2>5 DEF past, Promise!vars
  <2>6. ASSUME NEW w \in Worker, Arrive(w) \/ ReadRow(w) \/ NotFired(w) \/ Aim(w)
        PROVE  UNCHANGED past
    BY <2>6, ThreadReports
  <2>7. \A s \in Session : Track(s) => UNCHANGED past
    BY Zenon DEF Track
  <2>8. \A n \in {"none", "new", "tracked"} : SetResponder(n) => UNCHANGED past
    BY Zenon DEF SetResponder
  <2>9. Untrack \/ UNCHANGED vars => UNCHANGED past
    BY DEF Untrack, vars
  <2> QED
    BY <2>1, <2>2, <2>3, <2>4, <2>5, <2>6, <2>7, <2>8, <2>9 DEF Next, Operator, Handle
<1>3. Init => OpenInv /\ CooldownInv /\ CapInv
  BY DEF Init, OpenInv, CooldownInv, Accounts, CapInv, LogInv, FewInv, CapKept, Covers, Idle
<1>4. TypeOK /\ OpenInv /\ CooldownInv /\ CapInv /\ [Next]_vars
          => OpenInv' /\ CooldownInv' /\ CapInv'
  BY OpenStep, CooldownStep, CapStep
<1> QED
  BY <1>1, <1>2, <1>3, <1>4, TypeCorrect, PTL DEF Spec, ImplementsAlerts, Promise!Spec
=============================================================================
