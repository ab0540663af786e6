------------------------------- MODULE Alerts -------------------------------
(***************************************************************************)
(* What a check's responder promises (checks.py, evaluate), without        *)
(* threads, rows, copies or transactions: a failure is alerted once, in    *)
(* one step that looks at every alert sent so far and keeps the cooldown   *)
(* and the cap.  An alert may disregard these two, but not the first, once *)
(* "excused": CheckResponder says when that happens.                       *)
(*                                                                         *)
(* Times are ticks relative to the present.                                *)
(***************************************************************************)
EXTENDS Integers, FiniteSets

CONSTANTS
    Cooldown, Window, Cap,
    Delay,  \* an alert carries the time of a report at most so old
    Reach   \* alerts so old are forgotten

VARIABLES
    sent,    \* when the check's alerts were sent
    due,     \* the check was ok since the last one
    excused

vars == <<sent, due, excused>>

Fresh   == sent = {} /\ due = TRUE /\ excused = FALSE
Excuses == excused' \in BOOLEAN /\ (excused => excused')

Init == Fresh

Cooled(t) == \A u \in sent : t - u >= Cooldown
Room(t)   == Cardinality({u \in sent : t - u < Window}) < Cap

Alert(t) ==
    /\ due
    /\ Excuses
    /\ ~excused' => Cooled(t) /\ Room(t)
    /\ sent' = sent \cup {t}
    /\ due' = FALSE

\* A report is handled, in which the check is ok or not.
Handled ==
    /\ Excuses
    /\ due' \in {due, TRUE}
    /\ UNCHANGED sent

\* The check is removed, or added anew.
Reset == sent' = {} /\ due' = TRUE /\ excused' = FALSE

Tick ==
    /\ sent' = {t - 1 : t \in {u \in sent : u > -Reach}}
    /\ UNCHANGED <<due, excused>>

Next == (\E t \in -Delay..0 : Alert(t)) \/ Handled \/ Reset \/ Tick

Spec == Init /\ [][Next]_vars
=============================================================================
