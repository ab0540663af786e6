----------------------------- MODULE Admission -----------------------------
(***************************************************************************)
(* What the avm wait queue promises (README.md, "Resources and the wait    *)
(* queue"; agent/avm.py), without files, locks or polling: a job comes to  *)
(* the queue, waits, is admitted in one step, and leaves.  Jobs without    *)
(* --wait only declare themselves and run at once.                         *)
(***************************************************************************)
EXTENDS Integers

CONSTANTS Job, Excl, Declared, Competes(_, _)

VARIABLES
    state,  \* "out", "arriving", "waiting" or "running"
    ahead   \* ahead[p]: the jobs that already waited when p arrived

vars == <<state, ahead>>

Init ==
    /\ state = [p \in Job |-> "out"]
    /\ ahead = [p \in Job |-> {}]

Arrive(p) ==
    /\ state[p] = "out"
    /\ state' = [state EXCEPT ![p] = "arriving"]
    /\ ahead' = [ahead EXCEPT ![p] = {q \in Job : state[q] = "waiting"}]

Enter(p) ==
    /\ state[p] = "arriving"
    /\ state' = [state EXCEPT ![p] = IF p \in Declared THEN "running" ELSE "waiting"]
    /\ UNCHANGED ahead

Admit(p) ==
    /\ state[p] = "waiting"
    /\ \A q \in ahead[p] : Competes(p, q) => state[q] # "waiting"
    /\ p \in Excl => \A q \in Excl \ Declared : state[q] # "running"
    /\ state' = [state EXCEPT ![p] = "running"]
    /\ UNCHANGED ahead

Leave(p) ==
    /\ state[p] # "out"
    /\ state' = [state EXCEPT ![p] = "out"]
    /\ ahead' = [q \in Job |-> IF q = p THEN {} ELSE ahead[q] \ {p}]

Next == \E p \in Job : Arrive(p) \/ Enter(p) \/ Admit(p) \/ Leave(p)

Spec == Init /\ [][Next]_vars
=============================================================================
