--------------------------- MODULE CheckResponder ---------------------------
(***************************************************************************)
(* One check of one host and the responder it names (checks.py, evaluate;  *)
(* db.py check_*; routes_checks.py).  Every report of the host is handled  *)
(* in a thread of its own, which reads the check's row once, decides on    *)
(* that copy, may queue an alert (check_fire, one transaction, which also  *)
(* claims the row) and then writes what it decided (check_update, another  *)
(* one).  Reports may overlap: a slow one is handled beside later ones.    *)
(*                                                                         *)
(* Times are counted in ticks relative to the present: 0 is now, -3 three  *)
(* ticks ago.  A time too long ago to matter any more is not told apart    *)
(* from one still older.                                                   *)
(*                                                                         *)
(* Left out: what only the dashboard shows (state, since, detail, the      *)
(* reason of a hold), the alert mode (a refusal is the desk "closed"), how *)
(* the alert is delivered to its session, changes of cooldown and cap.     *)
(***************************************************************************)
EXTENDS Integers, FiniteSets

CONSTANTS
    Worker,     \* threads that handle reports: how many may overlap
    Session,    \* Claude sessions of the host that may be under watch
    NoSession,
    Cooldown,   \* ticks between two alerts (cooldown_min)
    Window,     \* ticks the daily cap counts alerts in (CAP_WINDOW_SEC)
    Cap,        \* alerts within the window (daily_cap)
    Grace,      \* ticks a check may fail before its first ok (NEW_CHECK_GRACE_SEC)
    MaxStall    \* bound: ticks a report may take to be handled

\* Cooldowns are at least five minutes; no report is handled that slowly.
ASSUME ResponderAssumption ==
    /\ NoSession \notin Session
    /\ Cooldown \in Nat /\ Window \in Nat /\ Grace \in Nat /\ MaxStall \in Nat
    /\ Cap \in Nat \ {0}
    /\ MaxStall < Cooldown
    /\ Cooldown <= Window /\ Grace <= Window

\* How far back a report that took MaxStall ticks may look.
Far(span)  == span + MaxStall
Past(span) == -Far(span)..0
Never      == -Far(Cooldown) - 1

VARIABLES
    listed,    \* the row exists
    row,       \* the row
    tracked,   \* the session under watch whose id the row's responder names
    report,    \* report[w]: the report thread w handles
    alerts,    \* history: when the row's alerts went out
    recovered, \* history: an ok was handled since the last alert
    overtaken  \* history: a report wrote down an alert of its own although
               \* another had gone out, or the row been replaced, since it read it

past == <<alerts, recovered, overtaken>>
vars == <<listed, row, tracked, report, past>>

-----------------------------------------------------------------------------
(* known: the last ok or failing reported; everOk: last_ok is set; fired:  *)
(* last_fired; log: fire_log; open: open_job is set.                       *)

Row == [known : {"none", "ok", "failing"}, everOk : BOOLEAN, created : Past(Grace),
        fired : Past(Cooldown) \cup {Never}, log : SUBSET Past(Window), open : BOOLEAN, pending : BOOLEAN,
        notify : {"none", "new", "tracked"}]

NewRow == [known |-> "none", everOk |-> FALSE, created |-> 0, fired |-> Never, log |-> {},
           open |-> FALSE, pending |-> FALSE, notify |-> "none"]

\* The check's result; of a failing one, whether the agent takes a prompt
\* in the alert's mode and whether the session under watch is in mid-turn.
Sample == {s \in [check : {"ok", "failing", "unknown"}, desk : {"open", "closed", "busy"}] :
              s.check = "failing" \/ s.desk = "open"}

\* raced (history): since the row was read another alert went out, or the row
\* was removed.
Report == [at : {"idle", "arrived", "read", "aimed", "held", "fired", "lost"}, taken : -MaxStall..0,
           sample : Sample, row : Row, to : Session \cup {NoSession}, raced : BOOLEAN]

Idle == [at |-> "idle", taken |-> 0, sample |-> [check |-> "unknown", desk |-> "open"],
         row |-> NewRow, to |-> NoSession, raced |-> FALSE]

TypeOK ==
    /\ listed \in BOOLEAN
    /\ row \in Row
    /\ tracked \in Session \cup {NoSession}
    /\ report \in [Worker -> Report]
    /\ alerts \in SUBSET Past(Window)
    /\ recovered \in BOOLEAN /\ overtaken \in BOOLEAN

Init ==
    /\ listed = FALSE /\ row = NewRow
    /\ tracked = NoSession
    /\ report = [w \in Worker |-> Idle]
    /\ alerts = {} /\ recovered = TRUE /\ overtaken = FALSE

Reading(w) == report[w].at \notin {"idle", "arrived"}

\* The other reports that have read the row no longer know its alerts.
Alerted(w) ==
    [v \in Worker |-> IF v # w /\ Reading(v) THEN [report[v] EXCEPT !.raced = TRUE] ELSE report[v]]

-----------------------------------------------------------------------------
(* Operators and avm: the row and the register of sessions. *)

Add ==
    /\ ~listed
    /\ listed' = TRUE
    /\ row' = NewRow
    /\ alerts' = {} /\ recovered' = TRUE /\ overtaken' = FALSE
    /\ UNCHANGED <<tracked, report>>

\* Deleted, expired, or replaced by a save of the settings.
Remove ==
    /\ listed
    /\ listed' = FALSE
    /\ row' = NewRow
    /\ report' = [w \in Worker |-> IF Reading(w) THEN [report[w] EXCEPT !.raced = TRUE] ELSE report[w]]
    /\ alerts' = {} /\ recovered' = TRUE /\ overtaken' = FALSE
    /\ UNCHANGED tracked

\* The session is looked up before the row is written; one that is untracked
\* in between leaves what SetResponder and then Untrack leave.
SetResponder(n) ==
    /\ listed
    /\ n = "tracked" => tracked # NoSession
    /\ row' = [row EXCEPT !.notify = n]
    /\ UNCHANGED <<listed, tracked, report, past>>

\* The row that is added takes the id of the last one that was deleted.
Track(s) ==
    /\ tracked = NoSession
    /\ tracked' = s
    /\ UNCHANGED <<listed, row, report, past>>

Untrack ==
    /\ tracked # NoSession
    /\ tracked' = NoSession
    /\ UNCHANGED <<listed, row, report, past>>

-----------------------------------------------------------------------------
(* A report.  Its time is taken when it arrives. *)

Arrive(w) ==
    /\ report[w].at = "idle"
    /\ \E s \in Sample :
           report' = [report EXCEPT ![w] = [Idle EXCEPT !.at = "arrived", !.sample = s]]
    /\ UNCHANGED <<listed, row, tracked, past>>

ReadRow(w) ==
    /\ report[w].at = "arrived"
    /\ report' = [report EXCEPT ![w] =
           IF listed THEN [@ EXCEPT !.at = "read", !.row = row] ELSE Idle]
    /\ UNCHANGED <<listed, row, tracked, past>>

Recent(log, now) == {t \in log : now - t < Window}

NeverOk(r, now) == ~r.everOk /\ r.fired = Never /\ now - r.created >= Grace

\* Mutation: a held alert is only sent for a new failure.
Wanted_NewOnly(p) ==
    LET r == p.row IN
    /\ p.sample.check = "failing" /\ r.notify # "none" /\ ~r.open
    /\ r.known = "ok" \/ NeverOk(r, p.taken)

\* The failure is new, or its alert has been held, or it was there from the start.
Wanted(p) ==
    LET r == p.row IN
    /\ p.sample.check = "failing"
    /\ r.notify # "none"
    /\ ~r.open
    /\ r.known = "ok" \/ r.pending \/ NeverOk(r, p.taken)

\* Mutation: no cooldown.
CappedOrCooling_CapOnly(p) == Cardinality(Recent(p.row.log, p.taken)) >= Cap

CappedOrCooling(p) ==
    \/ Cardinality(Recent(p.row.log, p.taken)) >= Cap
    \/ p.row.fired # Never /\ p.taken - p.row.fired < Cooldown

MustHold(p) == p.sample.desk = "closed" \/ CappedOrCooling(p)

\* Looks the responder up: a session under watch that is in the middle of a turn
\* is left alone, one that is no longer under watch is replaced by a fresh one.
Aim(w) ==
    LET p == report[w]
        s == IF p.row.notify = "tracked" THEN tracked ELSE NoSession IN
    /\ p.at = "read" /\ Wanted(p)
    /\ report' = [report EXCEPT ![w] =
           IF MustHold(p) \/ (s # NoSession /\ p.sample.desk = "busy")
           THEN [p EXCEPT !.at = "held"]
           ELSE [p EXCEPT !.at = "aimed", !.to = s]]
    /\ UNCHANGED <<listed, row, tracked, past>>

\* Mutation: the claim does not look for an open alert.
Claimable_Any == listed

Claimable == listed /\ ~row.open

\* Mutation: an alert forgets those before it.
Claimed_FreshLog(r, p) ==
    [r EXCEPT !.fired = p.taken, !.log = {p.taken}, !.pending = FALSE, !.open = TRUE]

\* What the alert leaves in the row; written here and again by Write.
Claimed(r, p) ==
    [r EXCEPT !.fired = p.taken, !.log = Recent(p.row.log, p.taken) \cup {p.taken},
              !.pending = FALSE, !.open = TRUE]

\* check_fire: the job is queued if the row has no open alert.
Fire(w) ==
    LET p == report[w] IN
    /\ p.at = "aimed" /\ Claimable
    /\ row' = Claimed(row, p)
    /\ report' = [Alerted(w) EXCEPT ![w].at = "fired"]
    /\ alerts' = alerts \cup {p.taken}
    /\ recovered' = FALSE
    /\ overtaken' = (overtaken \/ p.raced)
    /\ UNCHANGED <<listed, tracked>>

\* Another report got there first, or the row is gone.
NotFired(w) ==
    /\ report[w].at = "aimed" /\ ~Claimable
    /\ report' = [report EXCEPT ![w].at = "lost"]
    /\ UNCHANGED <<listed, row, tracked, past>>

\* check_update: of the row r, only what differs from the copy the report read
\* (last_ok is refreshed once a minute; here it is only set or not).
Over(p) == p.sample.check = "ok" /\ (p.row.open \/ p.row.pending)

KnownOf(r, p) ==
    IF p.sample.check \notin {"unknown", p.row.known} THEN p.sample.check ELSE r.known

PendingOf(r, p) ==
    IF p.at = "held" THEN r.pending \/ ~p.row.pending
    ELSE r.pending /\ ~Over(p) /\ ~(p.row.pending /\ p.row.notify = "none")

Updated(r, p) ==
    LET u == [r EXCEPT !.known = KnownOf(r, p), !.everOk = r.everOk \/ p.sample.check = "ok",
                       !.open = r.open /\ ~Over(p), !.pending = PendingOf(r, p)] IN
    IF p.at = "fired" THEN Claimed(u, p) ELSE u

Write(w) ==
    LET p == report[w] IN
    /\ p.at \in {"held", "fired", "lost"} \/ (p.at = "read" /\ ~Wanted(p))
    /\ row' = IF listed THEN Updated(row, p) ELSE row
    /\ report' = [report EXCEPT ![w] = Idle]
    /\ recovered' = (recovered \/ p.sample.check = "ok")
    /\ overtaken' = (overtaken \/ (p.raced /\ p.at = "fired"))
    /\ UNCHANGED <<listed, tracked, alerts>>

Handle(w) == ReadRow(w) \/ Aim(w) \/ Fire(w) \/ NotFired(w) \/ Write(w)

-----------------------------------------------------------------------------
(* Time passes. *)

Older(t, span) == IF t > -Far(span) THEN t - 1 ELSE t

\* Alerts too old to matter are forgotten.
OlderLog(log) == {t - 1 : t \in {u \in log : u > -Far(Window)}}

OlderRow(r) ==
    [r EXCEPT !.created = Older(@, Grace),
              !.fired = IF @ = Never THEN Never ELSE Older(@, Cooldown),
              !.log = OlderLog(@)]

Tick ==
    /\ \A w \in Worker : report[w].at # "idle" => report[w].taken > -MaxStall
    /\ row' = OlderRow(row)
    /\ report' = [w \in Worker |->
           IF report[w].at = "idle" THEN Idle
           ELSE [report[w] EXCEPT !.taken = @ - 1, !.row = OlderRow(@)]]
    /\ alerts' = OlderLog(alerts)
    /\ UNCHANGED <<listed, tracked, recovered, overtaken>>

Operator ==
    \/ Add \/ Remove \/ Untrack
    \/ \E n \in {"none", "new", "tracked"} : SetResponder(n)
    \/ \E s \in Session : Track(s)

Next ==
    \/ Operator
    \/ \E w \in Worker : Arrive(w) \/ Handle(w)
    \/ Tick

Spec == Init /\ [][Next]_vars

\* The agent reports for ever, no thread stops, time passes.
Fairness ==
    /\ WF_vars(\E w \in Worker : Arrive(w))
    /\ \A w \in Worker : WF_vars(Handle(w))
    /\ WF_vars(Tick)

FairSpec == Spec /\ Fairness

-----------------------------------------------------------------------------
\* Never two alerts for one failure: after an alert, none goes out before the
\* hub has handled a report in which the check is ok, however reports overlap
\* (check_fire's claim).
OneAlertPerFailure ==
    [][\A w \in Worker : Fire(w) => recovered]_vars

\* The cooldown is kept, unless a report wrote down its alert over that of
\* another (it is the row that tells when the last one went out).
CooldownKept ==
    [][\A w \in Worker : Fire(w) /\ ~overtaken' => \A t \in alerts : report[w].taken - t >= Cooldown]_vars

\* The cap is kept in every window of the time, under the same condition: what
\* the row says was sent is what was sent, although each report rewrites it.
CapKept ==
    ~overtaken => \A t \in alerts : Cardinality({u \in alerts : u <= t /\ t - u < Window}) <= Cap

Promise == INSTANCE Alerts WITH
    sent <- alerts, due <- recovered, excused <- overtaken, Delay <- MaxStall, Reach <- Far(Window)

\* Reports that decide on copies, claim and write in three steps beside each
\* other amount to alerts that are decided on and sent in one: after an alert
\* none goes out before an ok was handled, and each keeps cooldown and cap
\* counted over the alerts really sent, under the same condition.
ImplementsAlerts == Promise!Spec

Quiet == \A w \in Worker : report[w].at = "idle"

\* A failure the hub owes an alert for.
Due == row.known = "ok" \/ row.pending \/ (~row.everOk /\ row.fired = Never)

\* The responder is there; no report in work says ok or is refused the prompt.
Ready ==
    /\ listed /\ row.notify # "none"
    /\ \A w \in Worker : report[w].sample.check # "ok" /\ report[w].sample.desk = "open"

\* A held alert is not lost: the check failing and an alert owed, it goes out
\* once cooldown, cap and grace are over and prompts are taken, and reports
\* without the check (unknown) do not make the hub forget it.
HeldGoesOut ==
    ([]<>\E w \in Worker : report[w].sample.check = "failing")
        => (Due /\ Quiet /\ Ready ~> row.open \/ ~Ready)
=============================================================================
