--------------------------- MODULE AvmQueueProofs ---------------------------
(***************************************************************************)
(* Theorems about AvmQueue, for every set of jobs, every choice of         *)
(* exclusive, declared, nested, killed and bypassing ones, and every size; *)
(* what is about sums of sizes, for every finite set of jobs.              *)
(***************************************************************************)
EXTENDS AvmQueue, FiniteSetTheorems, TLAPS

\* The ticket file a process has in each of its phases.
FileInv ==
    \A p \in Job :
        /\ pc[p] \in {"off", "stamped", "nested", "bypass"} => file[p] = "none"
        /\ pc[p] \in Waiting \cup Checking => file[p] = "waiting"
        /\ pc[p] \in Admitted => file[p] = "running"

\* admit.lock is held by the one process that is checking.
LockInv == \A p \in Job : pc[p] \in Checking <=> admit = p

\* Whoever waited when p stamped its ticket has not left since.
BehindInv ==
    \A p \in Job :
        /\ behind[p] \subseteq earlier[p]
        /\ pc[p] \notin Ticketed => behind[p] = {}
        /\ p \notin behind[p]
        /\ \A q \in behind[p] : pc[q] \in Waiting \cup Checking \cup Admitted

\* What the holder of admit.lock has read covers what it must not overlook.
ViewInv ==
    \A p \in Job :
        /\ pc[p] \in {"reading", "fits"} =>
             /\ \A q \in Job \ Declared : pc[q] \in Admitted => q \in todo \cup seenRunning
             /\ \A q \in behind[p] : pc[q] \in Waiting => q \in todo \cup seenWaiting
        /\ pc[p] = "fits" =>
             /\ todo = {}
             /\ ~seenDrain
             /\ p \in Excl => seenRunning \cap Excl = {}
             /\ \A q \in seenWaiting \cap earlier[p] : ~Competes(q, p)

\* After a late admission nobody still believes that the flag is not set.
LateInv ==
    /\ late \in {0, 1}
    /\ late = 1 =>
         /\ drain
         /\ \A p \in Job : pc[p] \in {"listing", "reading", "fits"} => seenDrain

IInv == TypeOK /\ FileInv /\ LockInv /\ BehindInv /\ ViewInv /\ LateInv /\ ExclusiveGPU
-----------------------------------------------------------------------------
LEMMA InitInv == Init => IInv
<1> SUFFICES ASSUME Init PROVE IInv
  OBVIOUS
<1> USE DEF Init, Phases, Ticketed, Waiting, Checking, Admitted
<1>1. TypeOK
  BY SizeAssumption DEF TypeOK, Nothing
<1>2. FileInv /\ BehindInv
  BY DEF FileInv, BehindInv
<1>3. LockInv
  BY JobAssumption DEF LockInv
<1>4. ViewInv /\ LateInv
  BY DEF ViewInv, LateInv
<1>5. ExclusiveGPU
  BY JobAssumption DEF ExclusiveGPU
<1>6. QED
  BY <1>1, <1>2, <1>3, <1>4, <1>5 DEF IInv

-----------------------------------------------------------------------------
\* The type invariant is inductive by itself.
LEMMA TypeStep == TypeOK /\ [Next]_vars => TypeOK'
<1> SUFFICES ASSUME TypeOK, [Next]_vars PROVE TypeOK'
  OBVIOUS
<1> USE DEF TypeOK, Phases, Ticketed, Waiting, Checking, Admitted,
            check, load, drains, order, Unlock, UnlockIfHeld, Gone, OutOfLine, Listed
<1>1. ASSUME NEW p \in Job, Step(p) PROVE TypeOK'
  <2>1. CASE Publish(p)  BY <2>1 DEF Publish
  <2>2. CASE ReadDrain(p)  BY <2>2 DEF ReadDrain
  <2>3. CASE List(p)  BY <2>3 DEF List
  <2>4. CASE Measure(p)  BY <2>4 DEF Measure
  <2>5. CASE Commit(p)
    <3>1. late' \in Nat  BY <2>5 DEF Commit
    <3>2. QED  BY <2>5, <3>1 DEF Commit
  <2>6. CASE Refuse(p)  BY <2>6 DEF Refuse
  <2>7. CASE Exec(p)  BY <2>7 DEF Exec
  <2>8. CASE Release(p)  BY <2>8 DEF Release
  <2>9. ASSUME NEW q \in Job, ReadTicket(p, q) PROVE TypeOK'  BY <2>9 DEF ReadTicket
  <2>10. ASSUME NEW q \in Job, DropDead(p, q) PROVE TypeOK'  BY <2>10 DEF DropDead
  <2>11. QED  BY <1>1, <2>1, <2>2, <2>3, <2>4, <2>5, <2>6, <2>7, <2>8, <2>9, <2>10 DEF Step
<1>2. ASSUME NEW p \in Job, Event(p) PROVE TypeOK'
  <2>1. CASE StartNested(p)  BY <2>1 DEF StartNested
  <2>2. CASE Stamp(p)  BY <2>2 DEF Stamp
  <2>3. CASE GiveUp(p)  BY <2>3 DEF GiveUp
  <2>4. CASE Cancel(p)  BY <2>4 DEF Cancel
  <2>5. CASE Bypass(p)  BY <2>5 DEF Bypass
  <2>6. CASE Crash(p)  BY <2>6 DEF Crash
  <2>7. CASE Reuse(p)  BY <2>7 DEF Reuse
  <2>8. CASE Ramp(p)  BY <2>8 DEF Ramp
  <2>9. CASE Settle(p)  BY <2>9 DEF Settle
  <2>10. QED  BY <1>2, <2>1, <2>2, <2>3, <2>4, <2>5, <2>6, <2>7, <2>8, <2>9 DEF Event
<1>3. ASSUME NEW p \in Job, Lock(p) PROVE TypeOK'  BY <1>3 DEF Lock
<1>4. ASSUME NEW p \in Job, ChildExit(p) PROVE TypeOK'  BY <1>4 DEF ChildExit, Nothing
<1>5. CASE Drainer
  <2>1. CASE DrainList  BY <2>1 DEF DrainList
  <2>2. CASE DrainVerdict  BY <2>2 DEF DrainVerdict
  <2>3. ASSUME NEW q \in Job, DrainRead(q) PROVE TypeOK'  BY <2>3 DEF DrainRead
  <2>4. ASSUME NEW q \in Job, DrainDropDead(q) PROVE TypeOK'  BY <2>4 DEF DrainDropDead
  <2>5. QED  BY <1>5, <2>1, <2>2, <2>3, <2>4 DEF Drainer
<1>6. CASE DrainSet  BY <1>6 DEF DrainSet
<1>7. CASE Resume  BY <1>7 DEF Resume
<1>8. CASE UNCHANGED vars  BY <1>8 DEF vars
<1>9. QED
  BY <1>1, <1>2, <1>3, <1>4, <1>5, <1>6, <1>7, <1>8 DEF Next

\* Phases and ticket files move together; only the ticket of a dead process is
\* removed by others.
LEMMA FileStep == TypeOK /\ FileInv /\ LockInv /\ [Next]_vars => FileInv'
<1> SUFFICES ASSUME TypeOK, FileInv, LockInv, [Next]_vars PROVE FileInv'
  OBVIOUS
<1> USE DEF TypeOK, FileInv, LockInv, Phases, Ticketed, Waiting, Checking, Admitted,
            check, load, drains, order, Unlock, UnlockIfHeld, Gone, OutOfLine, Held, CanStart
<1>1. ASSUME NEW p \in Job, Step(p) PROVE FileInv'
  <2>1. CASE Publish(p)  BY <2>1 DEF Publish
  <2>2. CASE ReadDrain(p)  BY <2>2 DEF ReadDrain
  <2>3. CASE List(p)  BY <2>3 DEF List
  <2>4. CASE Measure(p)  BY <2>4 DEF Measure
  <2>5. CASE Commit(p)  BY <2>5 DEF Commit
  <2>6. CASE Refuse(p)  BY <2>6 DEF Refuse
  <2>7. CASE Exec(p)  BY <2>7 DEF Exec
  <2>8. CASE Release(p)  BY <2>8 DEF Release
  <2>9. ASSUME NEW q \in Job, ReadTicket(p, q) PROVE FileInv'  BY <2>9 DEF ReadTicket
  <2>10. ASSUME NEW q \in Job, DropDead(p, q) PROVE FileInv'  BY <2>10 DEF DropDead
  <2>11. QED  BY <1>1, <2>1, <2>2, <2>3, <2>4, <2>5, <2>6, <2>7, <2>8, <2>9, <2>10 DEF Step
<1>2. ASSUME NEW p \in Job, Event(p) PROVE FileInv'
  <2>1. CASE StartNested(p)  BY <2>1 DEF StartNested
  <2>2. CASE Stamp(p)  BY <2>2 DEF Stamp
  <2>3. CASE GiveUp(p)  BY <2>3 DEF GiveUp
  <2>4. CASE Cancel(p)  BY <2>4 DEF Cancel
  <2>5. CASE Bypass(p)  BY <2>5 DEF Bypass
  <2>6. CASE Crash(p)  BY <2>6 DEF Crash
  <2>7. CASE Reuse(p)  BY <2>7 DEF Reuse
  <2>8. CASE Ramp(p)  BY <2>8 DEF Ramp
  <2>9. CASE Settle(p)  BY <2>9 DEF Settle
  <2>10. QED  BY <1>2, <2>1, <2>2, <2>3, <2>4, <2>5, <2>6, <2>7, <2>8, <2>9 DEF Event
<1>3. ASSUME NEW p \in Job, Lock(p) PROVE FileInv'  BY <1>3 DEF Lock
<1>4. ASSUME NEW p \in Job, ChildExit(p) PROVE FileInv'  BY <1>4 DEF ChildExit
<1>5. CASE Drainer
  <2>1. CASE DrainList  BY <2>1 DEF DrainList
  <2>2. CASE DrainVerdict  BY <2>2 DEF DrainVerdict
  <2>3. ASSUME NEW q \in Job, DrainRead(q) PROVE FileInv'  BY <2>3 DEF DrainRead
  <2>4. ASSUME NEW q \in Job, DrainDropDead(q) PROVE FileInv'  BY <2>4 DEF DrainDropDead
  <2>5. QED  BY <1>5, <2>1, <2>2, <2>3, <2>4 DEF Drainer
<1>6. CASE DrainSet  BY <1>6 DEF DrainSet
<1>7. CASE Resume  BY <1>7 DEF Resume
<1>8. CASE UNCHANGED vars  BY <1>8 DEF vars
<1>9. QED
  BY <1>1, <1>2, <1>3, <1>4, <1>5, <1>6, <1>7, <1>8 DEF Next

\* Nobody but its holder gives admit.lock away.
LEMMA LockStep == TypeOK /\ LockInv /\ [Next]_vars => LockInv'
<1> SUFFICES ASSUME TypeOK, LockInv, [Next]_vars PROVE LockInv'
  OBVIOUS
<1> USE JobAssumption DEF TypeOK, LockInv, Phases, Ticketed, Waiting, Checking, Admitted,
            check, load, drains, order, Unlock, UnlockIfHeld, Gone, OutOfLine, CanStart
<1>1. ASSUME NEW p \in Job, Step(p) PROVE LockInv'
  <2>1. CASE Publish(p)  BY <2>1 DEF Publish
  <2>2. CASE ReadDrain(p)  BY <2>2 DEF ReadDrain
  <2>3. CASE List(p)  BY <2>3 DEF List
  <2>4. CASE Measure(p)  BY <2>4 DEF Measure
  <2>5. CASE Commit(p)  BY <2>5 DEF Commit
  <2>6. CASE Refuse(p)  BY <2>6 DEF Refuse
  <2>7. CASE Exec(p)  BY <2>7 DEF Exec
  <2>8. CASE Release(p)  BY <2>8 DEF Release
  <2>9. ASSUME NEW q \in Job, ReadTicket(p, q) PROVE LockInv'  BY <2>9 DEF ReadTicket
  <2>10. ASSUME NEW q \in Job, DropDead(p, q) PROVE LockInv'  BY <2>10 DEF DropDead
  <2>11. QED  BY <1>1, <2>1, <2>2, <2>3, <2>4, <2>5, <2>6, <2>7, <2>8, <2>9, <2>10 DEF Step
<1>2. ASSUME NEW p \in Job, Event(p) PROVE LockInv'
  <2>1. CASE StartNested(p)  BY <2>1 DEF StartNested
  <2>2. CASE Stamp(p)  BY <2>2 DEF Stamp
  <2>3. CASE GiveUp(p)  BY <2>3 DEF GiveUp
  <2>4. CASE Cancel(p)  BY <2>4 DEF Cancel
  <2>5. CASE Bypass(p)  BY <2>5 DEF Bypass
  <2>6. CASE Crash(p)  BY <2>6 DEF Crash
  <2>7. CASE Reuse(p)  BY <2>7 DEF Reuse
  <2>8. CASE Ramp(p)  BY <2>8 DEF Ramp
  <2>9. CASE Settle(p)  BY <2>9 DEF Settle
  <2>10. QED  BY <1>2, <2>1, <2>2, <2>3, <2>4, <2>5, <2>6, <2>7, <2>8, <2>9 DEF Event
<1>3. ASSUME NEW p \in Job, Lock(p) PROVE LockInv'  BY <1>3 DEF Lock
<1>4. ASSUME NEW p \in Job, ChildExit(p) PROVE LockInv'  BY <1>4 DEF ChildExit
<1>5. CASE Drainer
  <2>1. CASE DrainList  BY <2>1 DEF DrainList
  <2>2. CASE DrainVerdict  BY <2>2 DEF DrainVerdict
  <2>3. ASSUME NEW q \in Job, DrainRead(q) PROVE LockInv'  BY <2>3 DEF DrainRead
  <2>4. ASSUME NEW q \in Job, DrainDropDead(q) PROVE LockInv'  BY <2>4 DEF DrainDropDead
  <2>5. QED  BY <1>5, <2>1, <2>2, <2>3, <2>4 DEF Drainer
<1>6. CASE DrainSet  BY <1>6 DEF DrainSet
<1>7. CASE Resume  BY <1>7 DEF Resume
<1>8. CASE UNCHANGED vars  BY <1>8 DEF vars
<1>9. QED
  BY <1>1, <1>2, <1>3, <1>4, <1>5, <1>6, <1>7, <1>8 DEF Next

\* A process that leaves the queue, or dies, leaves every `behind`.
LEMMA BehindStep == TypeOK /\ FileInv /\ BehindInv /\ [Next]_vars => BehindInv'
<1> SUFFICES ASSUME TypeOK, FileInv, BehindInv, [Next]_vars PROVE BehindInv'
  OBVIOUS
<1> USE DEF TypeOK, FileInv, BehindInv, Phases, Ticketed, Waiting, Checking, Admitted,
            check, load, drains, order, Unlock, UnlockIfHeld, Gone, OutOfLine, Held, Listed, CanStart
<1>1. ASSUME NEW p \in Job, Step(p) PROVE BehindInv'
  <2>1. CASE Publish(p)
    <3>1. CASE p \in Declared  BY <2>1, <3>1 DEF Publish
    <3>2. CASE p \notin Declared  BY <2>1, <3>2 DEF Publish
    <3>3. QED  BY <3>1, <3>2
  <2>2. CASE ReadDrain(p)  BY <2>2 DEF ReadDrain
  <2>3. CASE List(p)  BY <2>3 DEF List
  <2>4. CASE Measure(p)  BY <2>4 DEF Measure
  <2>5. CASE Commit(p)  BY <2>5 DEF Commit
  <2>6. CASE Refuse(p)  BY <2>6 DEF Refuse
  <2>7. CASE Exec(p)  BY <2>7 DEF Exec
  <2>8. CASE Release(p)  BY <2>8 DEF Release
  <2>9. ASSUME NEW q \in Job, ReadTicket(p, q) PROVE BehindInv'  BY <2>9 DEF ReadTicket
  <2>10. ASSUME NEW q \in Job, DropDead(p, q) PROVE BehindInv'  BY <2>10 DEF DropDead
  <2>11. QED  BY <1>1, <2>1, <2>2, <2>3, <2>4, <2>5, <2>6, <2>7, <2>8, <2>9, <2>10 DEF Step
<1>2. ASSUME NEW p \in Job, Event(p) PROVE BehindInv'
  <2>1. CASE StartNested(p)  BY <2>1 DEF StartNested
  <2>2. CASE Stamp(p)  BY <2>2 DEF Stamp
  <2>3. CASE GiveUp(p)  BY <2>3 DEF GiveUp
  <2>4. CASE Cancel(p)  BY <2>4 DEF Cancel
  <2>5. CASE Bypass(p)  BY <2>5 DEF Bypass
  <2>6. CASE Crash(p)  BY <2>6 DEF Crash
  <2>7. CASE Reuse(p)  BY <2>7 DEF Reuse
  <2>8. CASE Ramp(p)  BY <2>8 DEF Ramp
  <2>9. CASE Settle(p)  BY <2>9 DEF Settle
  <2>10. QED  BY <1>2, <2>1, <2>2, <2>3, <2>4, <2>5, <2>6, <2>7, <2>8, <2>9 DEF Event
<1>3. ASSUME NEW p \in Job, Lock(p) PROVE BehindInv'  BY <1>3 DEF Lock
<1>4. ASSUME NEW p \in Job, ChildExit(p) PROVE BehindInv'  BY <1>4 DEF ChildExit
<1>5. CASE Drainer
  <2>1. CASE DrainList  BY <2>1 DEF DrainList
  <2>2. CASE DrainVerdict  BY <2>2 DEF DrainVerdict
  <2>3. ASSUME NEW q \in Job, DrainRead(q) PROVE BehindInv'  BY <2>3 DEF DrainRead
  <2>4. ASSUME NEW q \in Job, DrainDropDead(q) PROVE BehindInv'  BY <2>4 DEF DrainDropDead
  <2>5. QED  BY <1>5, <2>1, <2>2, <2>3, <2>4 DEF Drainer
<1>6. CASE DrainSet  BY <1>6 DEF DrainSet
<1>7. CASE Resume  BY <1>7 DEF Resume
<1>8. CASE UNCHANGED vars  BY <1>8 DEF vars
<1>9. QED
  BY <1>1, <1>2, <1>3, <1>4, <1>5, <1>6, <1>7, <1>8 DEF Next

\* While a process checks, nobody else is admitted, so what it has read stays
\* enough.
LEMMA ViewStep == TypeOK /\ FileInv /\ LockInv /\ BehindInv /\ ViewInv /\ [Next]_vars => ViewInv'
<1> SUFFICES ASSUME TypeOK, FileInv, LockInv, BehindInv, ViewInv, [Next]_vars PROVE ViewInv'
  OBVIOUS
<1> USE DEF TypeOK, FileInv, LockInv, BehindInv, ViewInv, Phases, Ticketed, Waiting, Checking, Admitted,
            check, load, drains, order, Unlock, UnlockIfHeld, Gone, OutOfLine, Held, Listed, CanStart
<1>1. ASSUME NEW p \in Job, Step(p) PROVE ViewInv'
  <2>1. CASE Publish(p)  BY <2>1 DEF Publish
  <2>2. CASE ReadDrain(p)  BY <2>2 DEF ReadDrain
  <2>3. CASE List(p)  BY <2>3 DEF List
  <2>4. CASE Measure(p)  BY <2>4 DEF Measure, Fits
  <2>5. CASE Commit(p)  BY <2>5 DEF Commit
  <2>6. CASE Refuse(p)  BY <2>6 DEF Refuse
  <2>7. CASE Exec(p)  BY <2>7 DEF Exec
  <2>8. CASE Release(p)  BY <2>8 DEF Release
  <2>9. ASSUME NEW q \in Job, ReadTicket(p, q) PROVE ViewInv'  BY <2>9 DEF ReadTicket
  <2>10. ASSUME NEW q \in Job, DropDead(p, q) PROVE ViewInv'  BY <2>10 DEF DropDead
  <2>11. QED  BY <1>1, <2>1, <2>2, <2>3, <2>4, <2>5, <2>6, <2>7, <2>8, <2>9, <2>10 DEF Step
<1>2. ASSUME NEW p \in Job, Event(p) PROVE ViewInv'
  <2>1. CASE StartNested(p)  BY <2>1 DEF StartNested
  <2>2. CASE Stamp(p)  BY <2>2 DEF Stamp
  <2>3. CASE GiveUp(p)  BY <2>3 DEF GiveUp
  <2>4. CASE Cancel(p)  BY <2>4 DEF Cancel
  <2>5. CASE Bypass(p)  BY <2>5 DEF Bypass
  <2>6. CASE Crash(p)  BY <2>6 DEF Crash
  <2>7. CASE Reuse(p)  BY <2>7 DEF Reuse
  <2>8. CASE Ramp(p)  BY <2>8 DEF Ramp
  <2>9. CASE Settle(p)  BY <2>9 DEF Settle
  <2>10. QED  BY <1>2, <2>1, <2>2, <2>3, <2>4, <2>5, <2>6, <2>7, <2>8, <2>9 DEF Event
<1>3. ASSUME NEW p \in Job, Lock(p) PROVE ViewInv'  BY <1>3 DEF Lock
<1>4. ASSUME NEW p \in Job, ChildExit(p) PROVE ViewInv'  BY <1>4 DEF ChildExit
<1>5. CASE Drainer
  <2>1. CASE DrainList  BY <2>1 DEF DrainList
  <2>2. CASE DrainVerdict  BY <2>2 DEF DrainVerdict
  <2>3. ASSUME NEW q \in Job, DrainRead(q) PROVE ViewInv'  BY <2>3 DEF DrainRead
  <2>4. ASSUME NEW q \in Job, DrainDropDead(q) PROVE ViewInv'  BY <2>4 DEF DrainDropDead
  <2>5. QED  BY <1>5, <2>1, <2>2, <2>3, <2>4 DEF Drainer
<1>6. CASE DrainSet  BY <1>6 DEF DrainSet
<1>7. CASE Resume  BY <1>7 DEF Resume
<1>8. CASE UNCHANGED vars  BY <1>8 DEF vars
<1>9. QED
  BY <1>1, <1>2, <1>3, <1>4, <1>5, <1>6, <1>7, <1>8 DEF Next

\* The one check that missed the flag ends with its admission.
LEMMA LateStep == TypeOK /\ LockInv /\ ViewInv /\ LateInv /\ [Next]_vars => LateInv'
<1> SUFFICES ASSUME TypeOK, LockInv, ViewInv, LateInv, [Next]_vars PROVE LateInv'
  OBVIOUS
<1> USE DEF TypeOK, LockInv, LateInv, Phases, Ticketed, Waiting, Checking, Admitted,
            check, load, drains, order, Unlock, UnlockIfHeld, Gone, OutOfLine, CanStart
<1>1. ASSUME NEW p \in Job, Step(p) PROVE LateInv'
  <2>1. CASE Publish(p)  BY <2>1 DEF Publish
  <2>2. CASE ReadDrain(p)  BY <2>2 DEF ReadDrain
  <2>3. CASE List(p)  BY <2>3 DEF List
  <2>4. CASE Measure(p)  BY <2>4 DEF Measure
  <2>5. CASE Commit(p)  BY <2>5 DEF Commit, ViewInv
  <2>6. CASE Refuse(p)  BY <2>6 DEF Refuse
  <2>7. CASE Exec(p)  BY <2>7 DEF Exec
  <2>8. CASE Release(p)  BY <2>8 DEF Release
  <2>9. ASSUME NEW q \in Job, ReadTicket(p, q) PROVE LateInv'  BY <2>9 DEF ReadTicket
  <2>10. ASSUME NEW q \in Job, DropDead(p, q) PROVE LateInv'  BY <2>10 DEF DropDead
  <2>11. QED  BY <1>1, <2>1, <2>2, <2>3, <2>4, <2>5, <2>6, <2>7, <2>8, <2>9, <2>10 DEF Step
<1>2. ASSUME NEW p \in Job, Event(p) PROVE LateInv'
  <2>1. CASE StartNested(p)  BY <2>1 DEF StartNested
  <2>2. CASE Stamp(p)  BY <2>2 DEF Stamp
  <2>3. CASE GiveUp(p)  BY <2>3 DEF GiveUp
  <2>4. CASE Cancel(p)  BY <2>4 DEF Cancel
  <2>5. CASE Bypass(p)  BY <2>5 DEF Bypass
  <2>6. CASE Crash(p)  BY <2>6 DEF Crash
  <2>7. CASE Reuse(p)  BY <2>7 DEF Reuse
  <2>8. CASE Ramp(p)  BY <2>8 DEF Ramp
  <2>9. CASE Settle(p)  BY <2>9 DEF Settle
  <2>10. QED  BY <1>2, <2>1, <2>2, <2>3, <2>4, <2>5, <2>6, <2>7, <2>8, <2>9 DEF Event
<1>3. ASSUME NEW p \in Job, Lock(p) PROVE LateInv'  BY <1>3 DEF Lock
<1>4. ASSUME NEW p \in Job, ChildExit(p) PROVE LateInv'  BY <1>4 DEF ChildExit
<1>5. CASE Drainer
  <2>1. CASE DrainList  BY <2>1 DEF DrainList
  <2>2. CASE DrainVerdict  BY <2>2 DEF DrainVerdict
  <2>3. ASSUME NEW q \in Job, DrainRead(q) PROVE LateInv'  BY <2>3 DEF DrainRead
  <2>4. ASSUME NEW q \in Job, DrainDropDead(q) PROVE LateInv'  BY <2>4 DEF DrainDropDead
  <2>5. QED  BY <1>5, <2>1, <2>2, <2>3, <2>4 DEF Drainer
<1>6. CASE DrainSet  BY <1>6 DEF DrainSet
<1>7. CASE Resume  BY <1>7 DEF Resume
<1>8. CASE UNCHANGED vars  BY <1>8 DEF vars
<1>9. QED
  BY <1>1, <1>2, <1>3, <1>4, <1>5, <1>6, <1>7, <1>8 DEF Next

\* An exclusive job is only admitted when no other one was read as running.
LEMMA ExclusiveStep == TypeOK /\ FileInv /\ LockInv /\ ViewInv /\ ExclusiveGPU /\ [Next]_vars => ExclusiveGPU'
<1> SUFFICES ASSUME TypeOK, FileInv, LockInv, ViewInv, ExclusiveGPU, [Next]_vars PROVE ExclusiveGPU'
  OBVIOUS
<1> USE JobAssumption DEF TypeOK, ExclusiveGPU, Phases, Ticketed, Waiting, Checking, Admitted,
            check, load, drains, order, Unlock, UnlockIfHeld, Gone, OutOfLine, CanStart
<1>1. ASSUME NEW p \in Job, Step(p) PROVE ExclusiveGPU'
  <2>1. CASE Publish(p)  BY <2>1 DEF Publish
  <2>2. CASE ReadDrain(p)  BY <2>2 DEF ReadDrain
  <2>3. CASE List(p)  BY <2>3 DEF List
  <2>4. CASE Measure(p)  BY <2>4 DEF Measure
  <2>5. CASE Commit(p)  BY <2>5 DEF Commit, ViewInv
  <2>6. CASE Refuse(p)  BY <2>6 DEF Refuse
  <2>7. CASE Exec(p)  BY <2>7 DEF Exec
  <2>8. CASE Release(p)  BY <2>8 DEF Release
  <2>9. ASSUME NEW q \in Job, ReadTicket(p, q) PROVE ExclusiveGPU'  BY <2>9 DEF ReadTicket
  <2>10. ASSUME NEW q \in Job, DropDead(p, q) PROVE ExclusiveGPU'  BY <2>10 DEF DropDead
  <2>11. QED  BY <1>1, <2>1, <2>2, <2>3, <2>4, <2>5, <2>6, <2>7, <2>8, <2>9, <2>10 DEF Step
<1>2. ASSUME NEW p \in Job, Event(p) PROVE ExclusiveGPU'
  <2>1. CASE StartNested(p)  BY <2>1 DEF StartNested
  <2>2. CASE Stamp(p)  BY <2>2 DEF Stamp
  <2>3. CASE GiveUp(p)  BY <2>3 DEF GiveUp
  <2>4. CASE Cancel(p)  BY <2>4 DEF Cancel
  <2>5. CASE Bypass(p)  BY <2>5 DEF Bypass
  <2>6. CASE Crash(p)  BY <2>6 DEF Crash
  <2>7. CASE Reuse(p)  BY <2>7 DEF Reuse
  <2>8. CASE Ramp(p)  BY <2>8 DEF Ramp
  <2>9. CASE Settle(p)  BY <2>9 DEF Settle
  <2>10. QED  BY <1>2, <2>1, <2>2, <2>3, <2>4, <2>5, <2>6, <2>7, <2>8, <2>9 DEF Event
<1>3. ASSUME NEW p \in Job, Lock(p) PROVE ExclusiveGPU'  BY <1>3 DEF Lock
<1>4. ASSUME NEW p \in Job, ChildExit(p) PROVE ExclusiveGPU'  BY <1>4 DEF ChildExit
<1>5. CASE Drainer
  <2>1. CASE DrainList  BY <2>1 DEF DrainList
  <2>2. CASE DrainVerdict  BY <2>2 DEF DrainVerdict
  <2>3. ASSUME NEW q \in Job, DrainRead(q) PROVE ExclusiveGPU'  BY <2>3 DEF DrainRead
  <2>4. ASSUME NEW q \in Job, DrainDropDead(q) PROVE ExclusiveGPU'  BY <2>4 DEF DrainDropDead
  <2>5. QED  BY <1>5, <2>1, <2>2, <2>3, <2>4 DEF Drainer
<1>6. CASE DrainSet  BY <1>6 DEF DrainSet
<1>7. CASE Resume  BY <1>7 DEF Resume
<1>8. CASE UNCHANGED vars  BY <1>8 DEF vars
<1>9. QED
  BY <1>1, <1>2, <1>3, <1>4, <1>5, <1>6, <1>7, <1>8 DEF Next

-----------------------------------------------------------------------------
\* The strengthened invariant holds in every reachable state.
THEOREM Invariance == Spec => []IInv
<1>1. Init => IInv
  BY InitInv
<1>2. IInv /\ [Next]_vars => IInv'
  BY TypeStep, FileStep, LockStep, BehindStep, ViewStep, LateStep, ExclusiveStep DEF IInv
<1>3. QED
  BY <1>1, <1>2, PTL DEF Spec

\* Every variable keeps its type, whatever crashes, nesting or draining happens.
THEOREM TypeCorrect == Spec => []TypeOK
<1>1. IInv => TypeOK
  BY DEF IInv
<1>2. QED
  BY <1>1, Invariance, PTL

\* One heavy job at a time: admission by polling shared files never lets two
\* --exclusive --wait jobs hold the GPU together (Queue.check, try_admit).
THEOREM OneHeavyJob == Spec => []ExclusiveGPU
<1>1. IInv => ExclusiveGPU
  BY DEF IInv
<1>2. QED
  BY <1>1, Invariance, PTL

\* The ticket of a live avm is never swept away by another process that lists
\* the directory (Queue.register, _alive, _forget).
THEOREM TicketsAreKept == Spec => []TicketKept
<1>1. IInv => TicketKept
  BY DEF IInv, FileInv, TicketKept
<1>2. QED
  BY <1>1, Invariance, PTL

\* A drain lets at most one job slip through, however many are queued
\* (cmd_queue, Queue.check).
THEOREM DrainBound == Spec => []AtMostOneLate
<1>1. IInv => AtMostOneLate
  BY DEF IInv, LateInv, AtMostOneLate
<1>2. QED
  BY <1>1, Invariance, PTL

\* When a process is about to be admitted nobody it must let pass still waits.
LEMMA CommitInOrder ==
    ASSUME IInv, NEW p \in Job, pc[p] = "fits", NEW q \in behind[p], Competes(p, q)
    PROVE  pc[q] \notin Waiting \cup Checking
<1> USE DEF IInv, TypeOK
<1>1. q \in Job /\ q # p /\ q \in earlier[p]
  BY DEF BehindInv
<1>2. Competes(q, p)
  BY DEF Competes
<1>3. admit = p
  BY DEF LockInv, Checking
<1>4. pc[q] \notin Checking
  BY <1>1, <1>3 DEF LockInv
<1>5. pc[q] \notin Waiting
  BY <1>1, <1>2 DEF ViewInv
<1>6. QED
  BY <1>4, <1>5

\* First come, first served (Queue.check: "behind ...").
THEOREM Fifo == Spec => FirstCome
<1>1. IInv /\ [Next]_vars => [OvertakesNobody]_vars
  <2> SUFFICES ASSUME IInv, Next,
                      NEW p \in Job, NEW q \in Job,
                      pc[p] \notin Admitted, pc'[p] = "admitted", p \notin Declared,
                      q \in behind[p], Competes(p, q)
               PROVE  pc[q] \notin Waiting \cup Checking
    BY DEF OvertakesNobody
  <2>1. pc[p] = "fits"
    <3> USE DEF IInv, TypeOK, Admitted
    <3>1. CASE \E x \in Job : Step(x) \/ Lock(x)
      BY <3>1 DEF Step, Lock, Publish, ReadDrain, List, Measure, Commit, Refuse, Exec,
                  Release, ReadTicket, DropDead
    <3>2. CASE \E x \in Job : ChildExit(x)
      BY <3>2 DEF ChildExit
    <3>3. CASE \E x \in Job : Event(x)
      BY <3>3 DEF Event, StartNested, Stamp, GiveUp, Cancel, Bypass, Crash, Reuse, Ramp, Settle
    <3>4. CASE Drainer \/ DrainSet \/ Resume
      BY <3>4 DEF Drainer, DrainList, DrainVerdict, DrainRead, DrainDropDead, DrainSet, Resume
    <3>5. QED
      BY <3>1, <3>2, <3>3, <3>4 DEF Next
  <2>2. QED
    BY <2>1, CommitInOrder
<1>2. QED
  BY <1>1, Invariance, PTL DEF Spec, FirstCome

-----------------------------------------------------------------------------
\* The abstract state of the jobs other than p is not touched by a step of p.
LEMMA OneMoves ==
    ASSUME TypeOK, NEW p \in Job, NEW s \in Phases, pc' = [pc EXCEPT ![p] = s], s # pc[p]
    PROVE  \A q \in Job \ {p} : State(q)' = State(q)
  BY DEF TypeOK, State

\* Steps within one abstract state are stuttering steps of Admission.
LEMMA Stutters ==
    ASSUME TypeOK, \A q \in Job : State(q)' = State(q), behind' = behind
    PROVE  UNCHANGED Abstract!vars
  BY DEF Abstract!vars

\* The queue of files, locks and polls implements Admission: every step is one
\* step of Admission, or none (Queue, _run_queued against README.md).
THEOREM Refinement == Spec => ImplementsAdmission
<1> USE DEF Phases, Ticketed, Waiting, Checking, Admitted
<1>1. Init => Abstract!Init
  BY DEF Init, Abstract!Init, State
<1>2. IInv /\ [Next]_vars => [Abstract!Next]_(Abstract!vars)
  <2> SUFFICES ASSUME IInv, [Next]_vars PROVE [Abstract!Next]_(Abstract!vars)
    OBVIOUS
  <2> USE JobAssumption DEF IInv, TypeOK
  <2>1. ASSUME NEW p \in Job, Publish(p) PROVE Abstract!Enter(p)
    <3> DEFINE s == IF p \in Declared THEN "admitted" ELSE "ready"
               t == IF p \in Declared THEN "running" ELSE "waiting"
    <3>1. pc[p] = "stamped" /\ pc' = [pc EXCEPT ![p] = s] /\ behind' = behind
      BY <2>1 DEF Publish, order
    <3>2. [q \in Job |-> State(q)]' = [[q \in Job |-> State(q)] EXCEPT ![p] = t]
      BY <3>1 DEF State
    <3>3. State(p) = "arriving"
      BY <3>1 DEF State
    <3>4. QED
      BY <3>1, <3>2, <3>3 DEF Abstract!Enter
  <2>2. ASSUME NEW p \in Job, Commit(p) PROVE Abstract!Admit(p)
    <3>1. pc[p] = "fits" /\ pc' = [pc EXCEPT ![p] = "admitted"] /\ behind' = behind
      BY <2>2 DEF Commit, order
    <3>2. State(p) = "waiting" /\ [q \in Job |-> State(q)]' = [[q \in Job |-> State(q)] EXCEPT ![p] = "running"]
      BY <3>1 DEF State
    <3>3. \A q \in behind[p] : Competes(p, q) => State(q) # "waiting"
      BY <3>1, CommitInOrder DEF State
    <3>4. p \in Excl => \A q \in Excl \ Declared : State(q) # "running"
      BY <3>1 DEF ViewInv, State
    <3>5. behind[p] \subseteq Job
      OBVIOUS
    <3>6. QED
      BY <3>1, <3>2, <3>3, <3>4, <3>5 DEF Abstract!Admit
  <2>3. ASSUME NEW p \in Job, Stamp(p) PROVE Abstract!Arrive(p)
    <3>1. {q \in Listed : Held(q) /\ file[q] = "waiting"} = {q \in Job : State(q) = "waiting"}
      BY DEF Listed, Held, FileInv, State
    <3>2. pc[p] = "off" /\ pc' = [pc EXCEPT ![p] = "stamped"]
          /\ behind' = [behind EXCEPT ![p] = {q \in Job : State(q) = "waiting"}]
      BY <2>3, <3>1 DEF Stamp, CanStart
    <3>3. [q \in Job |-> State(q)]' = [[q \in Job |-> State(q)] EXCEPT ![p] = "arriving"]
      BY <3>2 DEF State
    <3>4. State(p) = "out" /\ {q \in Job : [x \in Job |-> State(x)][q] = "waiting"} = {q \in Job : State(q) = "waiting"}
      BY <3>2 DEF State
    <3>5. QED
      BY <3>2, <3>3, <3>4 DEF Abstract!Arrive
  <2>4. ASSUME NEW p \in Job, GiveUp(p) \/ Cancel(p) \/ Release(p) \/ Crash(p) \/ (Bypass(p) /\ pc[p] # "off")
        PROVE  Abstract!Leave(p)
    <3>1. PICK s \in {"off", "dead", "bypass"} : pc' = [pc EXCEPT ![p] = s]
      BY <2>4 DEF GiveUp, Cancel, Release, Crash, Bypass
    <3>2. behind' = OutOfLine(behind, p)
      BY <2>4 DEF GiveUp, Cancel, Release, Crash, Bypass, Gone
    <3>3. pc[p] \in Ticketed
      BY <2>4 DEF GiveUp, Cancel, Release, Crash, Bypass, CanStart
    <3>4. [q \in Job |-> State(q)]' = [[q \in Job |-> State(q)] EXCEPT ![p] = "out"]
      BY <3>1 DEF State
    <3>5. State(p) # "out"
      BY <3>3 DEF State
    <3>6. QED
      BY <3>2, <3>4, <3>5 DEF OutOfLine, Abstract!Leave
  <2>5. ASSUME NEW p \in Job, (Bypass(p) /\ pc[p] = "off") \/ Reuse(p) PROVE UNCHANGED Abstract!vars
    <3>1. behind[p] = {} /\ \A q \in Job : p \notin behind[q]
      BY <2>5 DEF Bypass, Reuse, BehindInv
    <3>2. behind' = behind
      <4>1. behind' = OutOfLine(behind, p)
        BY <2>5 DEF Bypass, Reuse, Gone
      <4>2. \A q \in Job : OutOfLine(behind, p)[q] = behind[q]
        BY <3>1 DEF OutOfLine
      <4>3. QED
        BY <4>1, <4>2 DEF OutOfLine
    <3>3. QED
      BY <2>5, <3>2, Stutters DEF Bypass, Reuse, State
  <2>6. ASSUME NEW p \in Job, Step(p), ~Publish(p), ~Commit(p), ~Release(p) PROVE UNCHANGED Abstract!vars
    BY <2>6, Stutters DEF Step, ReadDrain, List, Measure, Refuse, Exec, ReadTicket, DropDead, order, State
  <2>7. ASSUME NEW p \in Job, Lock(p) \/ ChildExit(p) PROVE UNCHANGED Abstract!vars
    BY <2>7, Stutters DEF Lock, ChildExit, order, State
  <2>8. ASSUME NEW p \in Job, StartNested(p) \/ Ramp(p) \/ Settle(p) PROVE UNCHANGED Abstract!vars
    BY <2>8, Stutters DEF StartNested, CanStart, Ramp, Settle, order, State
  <2>9. CASE Drainer \/ DrainSet \/ Resume
    BY <2>9, Stutters DEF Drainer, DrainList, DrainVerdict, DrainRead, DrainDropDead, DrainSet, Resume, order, State
  <2>10. CASE UNCHANGED vars
    BY <2>10, Stutters DEF vars, order, State
  <2>11. QED
    BY <2>1, <2>2, <2>3, <2>4, <2>5, <2>6, <2>7, <2>8, <2>9, <2>10 DEF Next, Event, Abstract!Next
<1>3. QED
  BY <1>1, <1>2, Invariance, PTL DEF Spec, ImplementsAdmission, Abstract!Spec

-----------------------------------------------------------------------------
\* Sums.  The library's induction rules are about predicates; these are about
\* sets, and follow from the existence of minimal elements.
\*
\* A set that has every subset of S all of whose own parts it has, has them all.
LEMMA SetInduction ==
    ASSUME NEW S, IsFiniteSet(S), NEW Good,
           \A A \in SUBSET S : (\A B \in SUBSET A : B # A => B \in Good) => A \in Good
    PROVE  \A A \in SUBSET S : A \in Good
<1> DEFINE Bad == {A \in SUBSET S : A \notin Good}
<1>1. IsWellFoundedOn(StrictSubsetOrdering(S), FiniteSubsetsOf(S))
  BY FS_StrictSubsetOrderingWellFounded
<1>2. FiniteSubsetsOf(S) = SUBSET S
  BY FS_FiniteSubsetsOfFinite
<1>3. Bad \subseteq SUBSET S
  OBVIOUS
<1> HIDE DEF Bad
<1>4. Bad # {} => \E A \in Bad : \A B \in Bad : ~ (<<B, A>> \in StrictSubsetOrdering(S))
  BY <1>1, <1>2, <1>3, WFMin
<1>5. ASSUME NEW A \in Bad, \A B \in Bad : ~ (<<B, A>> \in StrictSubsetOrdering(S)) PROVE FALSE
  <2>1. \A B \in SUBSET A : B # A => B \notin Bad
    BY <1>3, <1>5 DEF StrictSubsetOrdering
  <2>2. \A B \in SUBSET A : B # A => B \in Good
    BY <1>3, <2>1 DEF Bad
  <2>3. QED
    BY <1>3, <2>2 DEF Bad
<1>6. QED
  BY <1>4, <1>5 DEF Bad

\* The same over the naturals.
LEMMA NatInductionOnSet ==
    ASSUME NEW Good, \A n \in Nat : (\A m \in Nat : m < n => m \in Good) => n \in Good
    PROVE  \A n \in Nat : n \in Good
<1> DEFINE R == {ss \in Nat \X Nat : ss[1] < ss[2]}
           Bad == {n \in Nat : n \notin Good}
<1>1. IsWellFoundedOn(R, Nat)
  BY NatLessThanWellFounded DEF OpToRel
<1>2. \A m, n \in Nat : <<m, n>> \in R <=> m < n
  OBVIOUS
<1>3. Bad \subseteq Nat
  OBVIOUS
<1> HIDE DEF Bad, R
<1>4. Bad # {} => \E n \in Bad : \A m \in Bad : ~ (<<m, n>> \in R)
  BY <1>1, <1>3, WFMin
<1>5. QED
  BY <1>2, <1>3, <1>4 DEF Bad

\* The element the fold takes next.
Chosen(s) == CHOOSE x \in s : TRUE

\* What the recursive function of the fold does at the set s.
Adds(g, f, s) == g[s] = IF s = {} THEN 0 ELSE f[Chosen(s)] + g[s \ {Chosen(s)}]

\* g[s] is the sum of f over s.
IsTally(g, f) ==
    /\ g \in [SUBSET DOMAIN f -> Nat]
    /\ \A s \in SUBSET DOMAIN f : Adds(g, f, s)

\* A set that is not empty has the element the fold takes.
LEMMA ChosenIn == ASSUME NEW s, s # {} PROVE Chosen(s) \in s
  BY DEF Chosen

\* The recursion of the fold has a solution, made for one cardinality after
\* the other.
LEMMA TallyExists ==
    ASSUME NEW S, IsFiniteSet(S), NEW f \in [S -> Nat]
    PROVE  \E g : IsTally(g, f)
<1> DEFINE Upto(n, g) == \A s \in SUBSET S : Cardinality(s) <= n => Adds(g, f, s)
           Good == {n \in Nat : \E g \in [SUBSET S -> Nat] : Upto(n, g)}
<1>1. \A s \in SUBSET S : IsFiniteSet(s) /\ Cardinality(s) \in Nat /\ Cardinality(s) <= Cardinality(S)
  BY FS_Subset, FS_CardinalityType
<1>2. ASSUME NEW n \in Nat, \A m \in Nat : m < n => m \in Good PROVE n \in Good
  <2>2. PICK g \in [SUBSET S -> Nat] : \A s \in SUBSET S : Cardinality(s) < n => Adds(g, f, s)
    <3>1. CASE n = 0
      <4>1. \A s \in SUBSET S : ~ (Cardinality(s) < n)
        BY <1>1, <3>1
      <4>2. [s \in SUBSET S |-> 0] \in [SUBSET S -> Nat]
        OBVIOUS
      <4>3. QED
        BY <4>1, <4>2
    <3>2. CASE n # 0
      <4>1. n - 1 \in Nat /\ n - 1 < n
        BY <3>2
      <4>2. PICK g \in [SUBSET S -> Nat] : Upto(n - 1, g)
        BY <1>2, <4>1
      <4>3. \A s \in SUBSET S : Cardinality(s) < n => Cardinality(s) <= n - 1
        BY <1>1
      <4>4. QED
        BY <4>2, <4>3
    <3>3. QED
      BY <3>1, <3>2
  <2> DEFINE h == [s \in SUBSET S |-> IF s = {} THEN 0 ELSE f[Chosen(s)] + g[s \ {Chosen(s)}]]
  <2>3. h \in [SUBSET S -> Nat]
    <3>1. ASSUME NEW s \in SUBSET S, s # {} PROVE f[Chosen(s)] + g[s \ {Chosen(s)}] \in Nat
      <4>1. Chosen(s) \in S /\ s \ {Chosen(s)} \in SUBSET S
        BY <3>1, ChosenIn
      <4>2. f[Chosen(s)] \in Nat /\ g[s \ {Chosen(s)}] \in Nat
        BY <4>1
      <4>3. QED
        BY <4>2
    <3>2. QED
      BY <3>1
  <2>4. \A s \in SUBSET S : h[s] = IF s = {} THEN 0 ELSE f[Chosen(s)] + g[s \ {Chosen(s)}]
    OBVIOUS
  <2> HIDE DEF h
  <2>5. \A s \in SUBSET S : Cardinality(s) < n => h[s] = g[s]
    BY <2>2, <2>4 DEF Adds
  <2>6. ASSUME NEW s \in SUBSET S, Cardinality(s) <= n PROVE Adds(h, f, s)
    <3>1. CASE s = {}
      BY <2>4, <3>1 DEF Adds
    <3>2. CASE s # {}
      <4>1. Chosen(s) \in s /\ s \ {Chosen(s)} \in SUBSET S
        BY <3>2, ChosenIn
      <4>2. Cardinality(s \ {Chosen(s)}) = Cardinality(s) - 1
        BY <1>1, <4>1, FS_RemoveElement
      <4>3. Cardinality(s \ {Chosen(s)}) < n
        BY <1>1, <2>6, <4>2
      <4>4. h[s \ {Chosen(s)}] = g[s \ {Chosen(s)}]
        BY <2>5, <4>1, <4>3
      <4>5. QED
        BY <2>4, <3>2, <4>4 DEF Adds
    <3>3. QED
      BY <3>1, <3>2
  <2>7. Upto(n, h)
    BY <2>6
  <2>8. QED
    BY <2>3, <2>7
<1>3. Cardinality(S) \in Nat
  BY FS_CardinalityType
<1>4. Cardinality(S) \in Good
  <2> HIDE DEF Good
  <2>1. \A n \in Nat : n \in Good
    BY <1>2, NatInductionOnSet
  <2>2. QED
    BY <1>3, <2>1
<1>5. PICK g \in [SUBSET S -> Nat] : Upto(Cardinality(S), g)
  BY <1>4
<1>6. QED
  BY <1>1, <1>5 DEF IsTally

\* It has no other: the fold is what any solution says of the whole set.
LEMMA SumIsTally ==
    ASSUME NEW S, IsFiniteSet(S), NEW f \in [S -> Nat], NEW g, IsTally(g, f)
    PROVE  SumFunction(f) = g[S]
<1> DEFINE Eq(it) == it = [s \in SUBSET S |-> IF s = {} THEN 0 ELSE f[CHOOSE x \in s : TRUE] + it[s \ {CHOOSE x \in s : TRUE}]]
           iter == CHOOSE it : Eq(it)
           Good == {s \in SUBSET S : iter[s] = g[s]}
<1>1. SumFunction(f) = iter[S]
  BY DEF SumFunction, SumFunctionOnSet, FoldFunctionOnSet, MapThenFoldSet
<1>2. Eq(g)
  BY DEF IsTally, Adds, Chosen
<1>3. Eq(iter)
  BY <1>2
<1>4. iter = [s \in SUBSET S |-> IF s = {} THEN 0 ELSE f[Chosen(s)] + iter[s \ {Chosen(s)}]]
  BY <1>3 DEF Chosen
<1> HIDE DEF iter, Eq
<1>5. \A s \in SUBSET S : Adds(iter, f, s)
  BY <1>4 DEF Adds
<1>6. ASSUME NEW s \in SUBSET S, \A t \in SUBSET s : t # s => t \in Good PROVE s \in Good
  <2>1. CASE s = {}
    BY <1>5, <2>1 DEF IsTally, Adds
  <2>2. CASE s # {}
    <3>1. Chosen(s) \in s
      BY <2>2, ChosenIn
    <3>2. s \ {Chosen(s)} \in Good
      BY <1>6, <3>1
    <3>3. QED
      BY <1>5, <2>2, <3>2 DEF IsTally, Adds
  <2>3. QED
    BY <2>1, <2>2
<1>7. S \in Good
  <2> HIDE DEF Good
  <2>1. QED
    BY <1>6, SetInduction
<1>8. QED
  BY <1>1, <1>7

\* The sum of f over A.
Weight(f, A) == SumFunction([x \in A |-> f[x]])

\* One solution for S serves all its subsets.
LEMMA WeightIsTally ==
    ASSUME NEW S, IsFiniteSet(S), NEW f \in [S -> Nat], NEW g, IsTally(g, f), NEW A \in SUBSET S
    PROVE  Weight(f, A) = g[A]
<1> DEFINE fA == [x \in A |-> f[x]]
           gA == [s \in SUBSET A |-> g[s]]
<1>1. IsFiniteSet(A) /\ fA \in [A -> Nat] /\ gA \in [SUBSET A -> Nat]
  BY FS_Subset DEF IsTally
<1>2. ASSUME NEW s \in SUBSET A PROVE Adds(gA, fA, s)
  <2>1. Adds(g, f, s) /\ gA[s] = g[s]
    BY DEF IsTally
  <2>2. CASE s = {}
    BY <2>1, <2>2 DEF Adds
  <2>3. CASE s # {}
    <3>1. Chosen(s) \in A /\ s \ {Chosen(s)} \in SUBSET A
      BY <2>3, ChosenIn
    <3>2. fA[Chosen(s)] = f[Chosen(s)] /\ gA[s \ {Chosen(s)}] = g[s \ {Chosen(s)}]
      BY <3>1
    <3>3. QED
      BY <2>1, <2>3, <3>2 DEF Adds
  <2>4. QED
    BY <2>2, <2>3
<1>3. IsTally(gA, fA)
  BY <1>1, <1>2 DEF IsTally
<1>4. SumFunction(fA) = gA[A]
  BY <1>1, <1>3, SumIsTally
<1>5. QED
  BY <1>4 DEF Weight

\* A sum of naturals is one; there is nothing to add for the empty set.
LEMMA WeightNat ==
    ASSUME NEW S, IsFiniteSet(S), NEW f \in [S -> Nat], NEW A \in SUBSET S
    PROVE  Weight(f, A) \in Nat /\ Weight(f, {}) = 0
<1>1. PICK g : IsTally(g, f)
  BY TallyExists
<1>2. g[A] \in Nat /\ g[{}] = 0
  BY <1>1 DEF IsTally, Adds
<1>3. Weight(f, A) = g[A] /\ Weight(f, {}) = g[{}]
  BY <1>1, WeightIsTally
<1>4. QED
  BY <1>2, <1>3

\* Whatever the order of the fold, any element may be taken out first.
LEMMA WeightRemove ==
    ASSUME NEW S, IsFiniteSet(S), NEW f \in [S -> Nat], NEW A \in SUBSET S, NEW x \in A
    PROVE  Weight(f, A) = f[x] + Weight(f, A \ {x})
<1>1. PICK g : IsTally(g, f)
  BY TallyExists
<1> DEFINE Good == {s \in SUBSET S : \A y \in s : g[s] = f[y] + g[s \ {y}]}
<1>2. ASSUME NEW s \in SUBSET S, \A t \in SUBSET s : t # s => t \in Good PROVE s \in Good
  <2> SUFFICES ASSUME NEW y \in s PROVE g[s] = f[y] + g[s \ {y}]
    OBVIOUS
  <2>1. PICK c \in s : g[s] = f[c] + g[s \ {c}]
    BY <1>1, ChosenIn DEF IsTally, Adds
  <2>2. CASE c = y
    BY <2>1, <2>2
  <2>3. CASE c # y
    <3>1. s \ {c} \in Good /\ s \ {y} \in Good
      BY <1>2, <2>1
    <3>2. g[s \ {c}] = f[y] + g[(s \ {c}) \ {y}]
      BY <2>3, <3>1
    <3>3. g[s \ {y}] = f[c] + g[(s \ {y}) \ {c}]
      BY <2>3, <3>1
    <3>4. (s \ {y}) \ {c} = (s \ {c}) \ {y} /\ (s \ {c}) \ {y} \in SUBSET S
      OBVIOUS
    <3>5. f[c] \in Nat /\ f[y] \in Nat /\ g[(s \ {c}) \ {y}] \in Nat
      BY <1>1, <3>4 DEF IsTally
    <3> DEFINE w == g[(s \ {c}) \ {y}]
    <3>6. g[s] = f[c] + (f[y] + w) /\ g[s \ {y}] = f[c] + w /\ w \in Nat
      BY <2>1, <3>2, <3>3, <3>4, <3>5
    <3> HIDE DEF w
    <3>7. QED
      BY <3>5, <3>6
  <2>4. QED
    BY <2>2, <2>3
<1>3. A \in Good
  <2> HIDE DEF Good
  <2>1. QED
    BY <1>2, SetInduction
<1>4. g[A] = f[x] + g[A \ {x}] /\ A \ {x} \in SUBSET S
  BY <1>3
<1>5. QED
  BY <1>1, <1>4, WeightIsTally

\* A sum is bounded by two others when each of its terms is found in one of them.
LEMMA WeightSplit ==
    ASSUME NEW S, IsFiniteSet(S),
           NEW h \in [S -> Nat], NEW f \in [S -> Nat], NEW g \in [S -> Nat],
           NEW A \in SUBSET S, NEW B \in SUBSET S, NEW C \in SUBSET S,
           \A x \in A : (x \in B /\ h[x] <= f[x]) \/ (x \in C /\ h[x] <= g[x])
    PROVE  Weight(h, A) <= Weight(f, B) + Weight(g, C)
<1> DEFINE Covers(a, b, c) == \A x \in a : (x \in b /\ h[x] <= f[x]) \/ (x \in c /\ h[x] <= g[x])
           Good == {a \in SUBSET S : \A b, c \in SUBSET S :
                      Covers(a, b, c) => Weight(h, a) <= Weight(f, b) + Weight(g, c)}
<1>1. \A a \in SUBSET S : Weight(h, a) \in Nat /\ Weight(f, a) \in Nat /\ Weight(g, a) \in Nat
  BY WeightNat
<1>2. ASSUME NEW a \in SUBSET S, \A t \in SUBSET a : t # a => t \in Good PROVE a \in Good
  <2> SUFFICES ASSUME NEW b \in SUBSET S, NEW c \in SUBSET S, Covers(a, b, c)
               PROVE  Weight(h, a) <= Weight(f, b) + Weight(g, c)
    OBVIOUS
  <2>1. CASE a = {}
    <3>1. Weight(h, a) = 0
      BY <2>1, WeightNat
    <3>2. QED
      BY <1>1, <3>1
  <2>2. ASSUME NEW x \in a PROVE Weight(h, a) <= Weight(f, b) + Weight(g, c)
    <3>1. Weight(h, a) = h[x] + Weight(h, a \ {x})
      BY WeightRemove
    <3>2. h[x] \in Nat /\ f[x] \in Nat /\ g[x] \in Nat
      OBVIOUS
    <3>3. a \ {x} \in Good
      BY <1>2
    <3>4. CASE x \in b /\ h[x] <= f[x]
      <4>1. Weight(f, b) = f[x] + Weight(f, b \ {x})
        BY <3>4, WeightRemove
      <4>2. Covers(a \ {x}, b \ {x}, c) /\ b \ {x} \in SUBSET S
        OBVIOUS
      <4>3. Weight(h, a \ {x}) <= Weight(f, b \ {x}) + Weight(g, c)
        BY <3>3, <4>2
      <4>4. Weight(h, a \ {x}) \in Nat /\ Weight(f, b \ {x}) \in Nat /\ Weight(g, c) \in Nat
        BY <1>1, <4>2
      <4>5. QED
        BY <3>1, <3>2, <3>4, <4>1, <4>3, <4>4
    <3>5. CASE x \in c /\ h[x] <= g[x]
      <4>1. Weight(g, c) = g[x] + Weight(g, c \ {x})
        BY <3>5, WeightRemove
      <4>2. Covers(a \ {x}, b, c \ {x}) /\ c \ {x} \in SUBSET S
        OBVIOUS
      <4>3. Weight(h, a \ {x}) <= Weight(f, b) + Weight(g, c \ {x})
        BY <3>3, <4>2
      <4>4. Weight(h, a \ {x}) \in Nat /\ Weight(f, b) \in Nat /\ Weight(g, c \ {x}) \in Nat
        BY <1>1, <4>2
      <4>5. QED
        BY <3>1, <3>2, <3>5, <4>1, <4>3, <4>4
    <3>6. QED
      BY <3>4, <3>5
  <2>3. QED
    BY <2>1, <2>2
<1>3. A \in Good
  <2> HIDE DEF Good
  <2>1. QED
    BY <1>2, SetInduction
<1>4. QED
  BY <1>3
-----------------------------------------------------------------------------
\* Who occupies or has been promised memory, and how much of it.
Holders  == {q \in Job : pc[q] \in Admitted}
Claim(r) == [q \in Job |-> IF q \in settled THEN used[q][r] ELSE Need[q][r]]
Sizes(r) == [q \in Job |-> Need[q][r]]
InUse(r) == [q \in Job |-> used[q][r]]

\* No command occupies more than its declaration.
UsedInv == \A p \in Job, r \in Res : used[p][r] <= Need[p][r]

\* What was past the settle time when the check began still is, if it is there;
\* what is not is among the tickets still to be read, or held back.
HeldInv ==
    \A p \in Job :
        /\ pc[p] \in {"listing", "reading", "fits"} =>
             \A q \in Holders \ Declared : q \in old => q \in settled
        /\ pc[p] = "reading" =>
             \A q \in Holders \ Declared : q \in settled \cup todo \cup seenHeld

\* A command grows only below its declaration.
LEMMA UsedStep == TypeOK /\ UsedInv /\ [Next]_vars => UsedInv'
<1> SUFFICES ASSUME TypeOK, UsedInv, [Next]_vars PROVE UsedInv'
  OBVIOUS
<1> USE SizeAssumption DEF TypeOK, UsedInv, load
<1>1. ASSUME NEW p \in Job, Step(p) PROVE UsedInv'
  <2>1. CASE Publish(p)  BY <2>1 DEF Publish
  <2>2. CASE ReadDrain(p)  BY <2>2 DEF ReadDrain
  <2>3. CASE List(p)  BY <2>3 DEF List
  <2>4. CASE Measure(p)  BY <2>4 DEF Measure
  <2>5. CASE Commit(p)  BY <2>5 DEF Commit
  <2>6. CASE Refuse(p)  BY <2>6 DEF Refuse
  <2>7. CASE Exec(p)  BY <2>7 DEF Exec
  <2>8. CASE Release(p)  BY <2>8 DEF Release
  <2>9. ASSUME NEW q \in Job, ReadTicket(p, q) PROVE UsedInv'  BY <2>9 DEF ReadTicket
  <2>10. ASSUME NEW q \in Job, DropDead(p, q) PROVE UsedInv'  BY <2>10 DEF DropDead
  <2>11. QED  BY <1>1, <2>1, <2>2, <2>3, <2>4, <2>5, <2>6, <2>7, <2>8, <2>9, <2>10 DEF Step
<1>2. ASSUME NEW p \in Job, Event(p) PROVE UsedInv'
  <2>1. CASE StartNested(p)  BY <2>1 DEF StartNested
  <2>2. CASE Stamp(p)  BY <2>2 DEF Stamp
  <2>3. CASE GiveUp(p)  BY <2>3 DEF GiveUp
  <2>4. CASE Cancel(p)  BY <2>4 DEF Cancel
  <2>5. CASE Bypass(p)  BY <2>5 DEF Bypass
  <2>6. CASE Crash(p)  BY <2>6 DEF Crash
  <2>7. CASE Reuse(p)  BY <2>7 DEF Reuse
  <2>8. CASE Ramp(p)  BY <2>8 DEF Ramp
  <2>9. CASE Settle(p)  BY <2>9 DEF Settle
  <2>10. QED  BY <1>2, <2>1, <2>2, <2>3, <2>4, <2>5, <2>6, <2>7, <2>8, <2>9 DEF Event
<1>3. ASSUME NEW p \in Job, Lock(p) PROVE UsedInv'  BY <1>3 DEF Lock
<1>4. ASSUME NEW p \in Job, ChildExit(p) PROVE UsedInv'  BY <1>4 DEF ChildExit, Nothing
<1>5. CASE Drainer
  <2>1. CASE DrainList  BY <2>1 DEF DrainList
  <2>2. CASE DrainVerdict  BY <2>2 DEF DrainVerdict
  <2>3. ASSUME NEW q \in Job, DrainRead(q) PROVE UsedInv'  BY <2>3 DEF DrainRead
  <2>4. ASSUME NEW q \in Job, DrainDropDead(q) PROVE UsedInv'  BY <2>4 DEF DrainDropDead
  <2>5. QED  BY <1>5, <2>1, <2>2, <2>3, <2>4 DEF Drainer
<1>6. CASE DrainSet  BY <1>6 DEF DrainSet
<1>7. CASE Resume  BY <1>7 DEF Resume
<1>8. CASE UNCHANGED vars  BY <1>8 DEF vars
<1>9. QED
  BY <1>1, <1>2, <1>3, <1>4, <1>5, <1>6, <1>7, <1>8 DEF Next

\* While a process checks, no --wait job is admitted and none gets younger.
LEMMA HeldStep == TypeOK /\ FileInv /\ LockInv /\ HeldInv /\ [Next]_vars => HeldInv'
<1> SUFFICES ASSUME TypeOK, FileInv, LockInv, HeldInv, [Next]_vars PROVE HeldInv'
  OBVIOUS
<1> USE DEF TypeOK, FileInv, LockInv, HeldInv, Holders, Phases, Ticketed, Waiting, Checking, Admitted,
            check, load, drains, order, Unlock, UnlockIfHeld, Gone, OutOfLine, Held, Listed, CanStart
<1>1. ASSUME NEW p \in Job, Step(p) PROVE HeldInv'
  <2>1. CASE Publish(p)  BY <2>1 DEF Publish
  <2>2. CASE ReadDrain(p)  BY <2>2 DEF ReadDrain
  <2>3. CASE List(p)  BY <2>3 DEF List
  <2>4. CASE Measure(p)  BY <2>4 DEF Measure
  <2>5. CASE Commit(p)  BY <2>5 DEF Commit
  <2>6. CASE Refuse(p)  BY <2>6 DEF Refuse
  <2>7. CASE Exec(p)  BY <2>7 DEF Exec
  <2>8. CASE Release(p)  BY <2>8 DEF Release
  <2>9. ASSUME NEW q \in Job, ReadTicket(p, q) PROVE HeldInv'  BY <2>9 DEF ReadTicket
  <2>10. ASSUME NEW q \in Job, DropDead(p, q) PROVE HeldInv'  BY <2>10 DEF DropDead
  <2>11. QED  BY <1>1, <2>1, <2>2, <2>3, <2>4, <2>5, <2>6, <2>7, <2>8, <2>9, <2>10 DEF Step
<1>2. ASSUME NEW p \in Job, Event(p) PROVE HeldInv'
  <2>1. CASE StartNested(p)  BY <2>1 DEF StartNested
  <2>2. CASE Stamp(p)  BY <2>2 DEF Stamp
  <2>3. CASE GiveUp(p)  BY <2>3 DEF GiveUp
  <2>4. CASE Cancel(p)  BY <2>4 DEF Cancel
  <2>5. CASE Bypass(p)  BY <2>5 DEF Bypass
  <2>6. CASE Crash(p)  BY <2>6 DEF Crash
  <2>7. CASE Reuse(p)  BY <2>7 DEF Reuse
  <2>8. CASE Ramp(p)  BY <2>8 DEF Ramp
  <2>9. CASE Settle(p)  BY <2>9 DEF Settle
  <2>10. QED  BY <1>2, <2>1, <2>2, <2>3, <2>4, <2>5, <2>6, <2>7, <2>8, <2>9 DEF Event
<1>3. ASSUME NEW p \in Job, Lock(p) PROVE HeldInv'  BY <1>3 DEF Lock
<1>4. ASSUME NEW p \in Job, ChildExit(p) PROVE HeldInv'  BY <1>4 DEF ChildExit
<1>5. CASE Drainer
  <2>1. CASE DrainList  BY <2>1 DEF DrainList
  <2>2. CASE DrainVerdict  BY <2>2 DEF DrainVerdict
  <2>3. ASSUME NEW q \in Job, DrainRead(q) PROVE HeldInv'  BY <2>3 DEF DrainRead
  <2>4. ASSUME NEW q \in Job, DrainDropDead(q) PROVE HeldInv'  BY <2>4 DEF DrainDropDead
  <2>5. QED  BY <1>5, <2>1, <2>2, <2>3, <2>4 DEF Drainer
<1>6. CASE DrainSet  BY <1>6 DEF DrainSet
<1>7. CASE Resume  BY <1>7 DEF Resume
<1>8. CASE UNCHANGED vars  BY <1>8 DEF vars
<1>9. QED
  BY <1>1, <1>2, <1>3, <1>4, <1>5, <1>6, <1>7, <1>8 DEF Next

\* A job holds more, or holds at all, only after its own admission.
Grows(p) ==
    \A q \in Job : (q \in Holders)' =>
        \/ q \in Holders /\ \A r \in Res : Claim(r)'[q] <= Claim(r)[q]
        \/ q = p /\ \A r \in Res : Claim(r)'[q] <= Need[p][r]

\* One job at most comes to hold memory in a step, and its share is what it
\* declared; everybody else's shrinks or stays.
LEMMA ClaimStep ==
    ASSUME TypeOK, UsedInv, UsedInv', [Next]_vars
    PROVE  \/ \A q \in Job : (q \in Holders)' =>
                q \in Holders /\ \A r \in Res : Claim(r)'[q] <= Claim(r)[q]
           \/ \E p \in Job : (Commit(p) \/ (Publish(p) /\ p \in Declared)) /\ Grows(p)
<1> DEFINE Goal == \/ \A q \in Job : (q \in Holders)' =>
                        q \in Holders /\ \A r \in Res : Claim(r)'[q] <= Claim(r)[q]
                   \/ \E p \in Job : (Commit(p) \/ (Publish(p) /\ p \in Declared)) /\ Grows(p)
<1> USE SizeAssumption DEF TypeOK, UsedInv, Holders, Claim, Grows, Phases, Ticketed, Waiting, Checking, Admitted,
            check, load, drains, order, Unlock, UnlockIfHeld, Gone, OutOfLine, CanStart
<1>1. ASSUME NEW p \in Job, Step(p) PROVE Goal
  <2>1. CASE Publish(p)
    <3>1. CASE p \in Declared
      <4>1. Grows(p)  BY <2>1, <3>1 DEF Publish
      <4>2. QED  BY <2>1, <3>1, <4>1
    <3>2. CASE p \notin Declared  BY <2>1, <3>2 DEF Publish
    <3>3. QED  BY <3>1, <3>2
  <2>2. CASE ReadDrain(p)  BY <2>2 DEF ReadDrain
  <2>3. CASE List(p)  BY <2>3 DEF List
  <2>4. CASE Measure(p)  BY <2>4 DEF Measure
  <2>5. CASE Commit(p)
    <3>1. Grows(p)  BY <2>5 DEF Commit
    <3>2. QED  BY <2>5, <3>1
  <2>6. CASE Refuse(p)  BY <2>6 DEF Refuse
  <2>7. CASE Exec(p)  BY <2>7 DEF Exec
  <2>8. CASE Release(p)  BY <2>8 DEF Release
  <2>9. ASSUME NEW q \in Job, ReadTicket(p, q) PROVE Goal  BY <2>9 DEF ReadTicket
  <2>10. ASSUME NEW q \in Job, DropDead(p, q) PROVE Goal  BY <2>10 DEF DropDead
  <2>11. QED  BY <1>1, <2>1, <2>2, <2>3, <2>4, <2>5, <2>6, <2>7, <2>8, <2>9, <2>10 DEF Step
<1>2. ASSUME NEW p \in Job, Event(p) PROVE Goal
  <2>1. CASE StartNested(p)  BY <2>1 DEF StartNested
  <2>2. CASE Stamp(p)  BY <2>2 DEF Stamp
  <2>3. CASE GiveUp(p)  BY <2>3 DEF GiveUp
  <2>4. CASE Cancel(p)  BY <2>4 DEF Cancel
  <2>5. CASE Bypass(p)  BY <2>5 DEF Bypass
  <2>6. CASE Crash(p)  BY <2>6 DEF Crash
  <2>7. CASE Reuse(p)  BY <2>7 DEF Reuse
  <2>8. CASE Ramp(p)  BY <2>8 DEF Ramp
  <2>9. CASE Settle(p)  BY <2>9 DEF Settle
  <2>10. QED  BY <1>2, <2>1, <2>2, <2>3, <2>4, <2>5, <2>6, <2>7, <2>8, <2>9 DEF Event
<1>3. ASSUME NEW p \in Job, Lock(p) PROVE Goal  BY <1>3 DEF Lock
<1>4. ASSUME NEW p \in Job, ChildExit(p) PROVE Goal  BY <1>4 DEF ChildExit, Nothing
<1>5. CASE Drainer
  <2>1. CASE DrainList  BY <2>1 DEF DrainList
  <2>2. CASE DrainVerdict  BY <2>2 DEF DrainVerdict
  <2>3. ASSUME NEW q \in Job, DrainRead(q) PROVE Goal  BY <2>3 DEF DrainRead
  <2>4. ASSUME NEW q \in Job, DrainDropDead(q) PROVE Goal  BY <2>4 DEF DrainDropDead
  <2>5. QED  BY <1>5, <2>1, <2>2, <2>3, <2>4 DEF Drainer
<1>6. CASE DrainSet  BY <1>6 DEF DrainSet
<1>7. CASE Resume  BY <1>7 DEF Resume
<1>8. CASE UNCHANGED vars  BY <1>8 DEF vars
<1>9. QED
  BY <1>1, <1>2, <1>3, <1>4, <1>5, <1>6, <1>7, <1>8 DEF Next

\* What is committed is the sum of the shares of those who hold some.
LEMMA CommittedIsWeight ==
    ASSUME NEW r \in Res
    PROVE  /\ Committed(r) = Weight(Claim(r), Holders)
           /\ Committed(r)' = Weight(Claim(r)', Holders')
<1>1. Committed(r) = Weight(Claim(r), Holders)
  BY DEF Committed, Weight, Claim, Holders
<1>2. Committed(r)' = Weight(Claim(r)', Holders')
  BY DEF Committed, Weight, Claim, Holders
<1>3. QED
  BY <1>1, <1>2

\* All of these are sizes.
LEMMA ClaimType ==
    ASSUME TypeOK, TypeOK', NEW r \in Res
    PROVE  /\ Claim(r) \in [Job -> Nat] /\ Claim(r)' \in [Job -> Nat]
           /\ Sizes(r) \in [Job -> Nat] /\ InUse(r) \in [Job -> Nat]
           /\ Holders \in SUBSET Job /\ Holders' \in SUBSET Job
           /\ Committed(r) \in Nat /\ Committed(r)' \in Nat
<1>1. /\ Claim(r) \in [Job -> Nat] /\ Claim(r)' \in [Job -> Nat]
      /\ Sizes(r) \in [Job -> Nat] /\ InUse(r) \in [Job -> Nat]
  BY SizeAssumption DEF TypeOK, Claim, Sizes, InUse
<1>2. Holders \in SUBSET Job /\ Holders' \in SUBSET Job
  BY DEF Holders
<1>3. Committed(r) \in Nat /\ Committed(r)' \in Nat
  BY <1>1, <1>2, FiniteAssumption, WeightNat, CommittedIsWeight
<1>4. QED
  BY <1>1, <1>2, <1>3

\* What a step that admits nobody does to the committed memory ...
LEMMA NoMore ==
    ASSUME TypeOK, TypeOK', NEW r \in Res,
           \A q \in Job : (q \in Holders)' => q \in Holders /\ Claim(r)'[q] <= Claim(r)[q]
    PROVE  Committed(r)' <= Committed(r)
<1> DEFINE f == Claim(r)
           h == Claim(r)'
           A == Holders'
           B == Holders
<1>1. h \in [Job -> Nat] /\ f \in [Job -> Nat] /\ A \in SUBSET Job /\ B \in SUBSET Job
  BY ClaimType
<1>2. \A q \in A : q \in B /\ h[q] <= f[q]
  BY <1>1
<1>3. Committed(r) = Weight(f, B) /\ Committed(r)' = Weight(h, A)
  BY CommittedIsWeight
<1> HIDE DEF f, h, A, B
<1>4. Weight(h, A) <= Weight(f, B) + Weight(f, {})
  BY <1>1, <1>2, FiniteAssumption, WeightSplit
<1>5. Weight(f, {}) = 0 /\ Weight(f, B) \in Nat
  BY <1>1, FiniteAssumption, WeightNat
<1>6. QED
  BY <1>3, <1>4, <1>5

\* ... and what the admission of p does.
LEMMA OneMore ==
    ASSUME TypeOK, TypeOK', NEW r \in Res, NEW p \in Job, Grows(p)
    PROVE  Committed(r)' <= Committed(r) + Need[p][r]
<1> DEFINE f == Claim(r)
           g == Sizes(r)
           h == Claim(r)'
           A == Holders'
           B == Holders
<1>1. /\ h \in [Job -> Nat] /\ f \in [Job -> Nat] /\ g \in [Job -> Nat]
      /\ A \in SUBSET Job /\ B \in SUBSET Job /\ {p} \in SUBSET Job /\ {} \in SUBSET Job
  BY ClaimType
<1>2. \A q \in A : (q \in B /\ h[q] <= f[q]) \/ (q \in {p} /\ h[q] <= g[q])
  BY <1>1 DEF Grows, Sizes
<1>3. Committed(r) = Weight(f, B) /\ Committed(r)' = Weight(h, A)
  BY CommittedIsWeight
<1>4. g[p] = Need[p][r] /\ Need[p][r] \in Nat
  BY SizeAssumption DEF Sizes
<1> HIDE DEF f, g, h, A, B
<1>5. Weight(h, A) <= Weight(f, B) + Weight(g, {p})
  BY <1>1, <1>2, FiniteAssumption, WeightSplit
<1>6. Weight(g, {p}) = g[p] + Weight(g, {p} \ {p}) /\ Weight(g, {}) = 0 /\ {p} \ {p} = {}
  BY <1>1, FiniteAssumption, WeightNat, WeightRemove
<1>7. QED
  BY <1>1, <1>3, <1>4, <1>5, <1>6

\* What is measured and held back covers what is committed.
LEMMA Covered ==
    ASSUME TypeOK, TypeOK', UsedInv, HeldInv, NEW r \in Res, \A q \in Declared : Need[q][r] = 0,
           NEW p \in Job, pc[p] = "reading", todo = {}
    PROVE  /\ Committed(r) <= Weight(InUse(r), Job) + Weight(Sizes(r), seenHeld)
           /\ Available(r) = Total[r] - Weight(InUse(r), Job)
           /\ Reserved(r, seenHeld) = Weight(Sizes(r), seenHeld)
           /\ Weight(InUse(r), Job) \in Nat
           /\ Weight(Sizes(r), seenHeld) \in Nat
<1> DEFINE f == InUse(r)
           g == Sizes(r)
           h == Claim(r)
           B == Holders
<1>1. h \in [Job -> Nat] /\ f \in [Job -> Nat] /\ g \in [Job -> Nat] /\ B \in SUBSET Job /\ seenHeld \in SUBSET Job
  BY ClaimType DEF TypeOK
<1>2. \A q \in B : (q \in Job /\ h[q] <= f[q]) \/ (q \in seenHeld /\ h[q] <= g[q])
  <2> SUFFICES ASSUME NEW q \in Holders
               PROVE  (q \in Job /\ Claim(r)[q] <= InUse(r)[q]) \/ (q \in seenHeld /\ Claim(r)[q] <= Sizes(r)[q])
    OBVIOUS
  <2>1. q \in Job /\ used[q][r] \in Nat /\ Need[q][r] \in Nat
    BY SizeAssumption DEF Holders, TypeOK
  <2>2. CASE q \in settled
    BY <2>1, <2>2 DEF Claim, InUse
  <2>3. CASE q \in Declared
    BY <2>1, <2>3 DEF Claim, InUse, UsedInv
  <2>4. CASE q \notin settled /\ q \notin Declared
    <3>1. q \in seenHeld
      BY <2>4 DEF HeldInv
    <3>2. QED
      BY <2>1, <2>4, <3>1 DEF Claim, Sizes
  <2>5. QED
    BY <2>2, <2>3, <2>4
<1>3. Committed(r) = Weight(h, B)
  BY CommittedIsWeight
<1>4. Available(r) = Total[r] - Weight(f, Job)
  BY DEF Available, Weight, InUse
<1>5. Reserved(r, seenHeld) = Weight(g, seenHeld)
  BY <1>1 DEF Reserved, Weight, Sizes
<1> HIDE DEF f, g, h, B
<1>6. Weight(h, B) <= Weight(f, Job) + Weight(g, seenHeld)
  BY <1>1, <1>2, FiniteAssumption, WeightSplit
<1>7. Weight(f, Job) \in Nat /\ Weight(g, seenHeld) \in Nat
  BY <1>1, FiniteAssumption, WeightNat
<1>8. QED
  BY <1>3, <1>4, <1>5, <1>6, <1>7 DEF f, g

\* What is promised of r fits, and still does when the job whose size was found
\* free is admitted.
FitsOn(r) == Committed(r) > 0 => Committed(r) + Slack[r] <= Total[r]
FitInv(r) ==
    /\ FitsOn(r)
    /\ \A p \in Job : pc[p] = "fits" /\ Need[p][r] > 0 =>
         Committed(r) + Slack[r] + Need[p][r] <= Total[r]

\* A job is found to fit by its own measurement only.
LEMMA OnlyMeasureFits ==
    ASSUME TypeOK, [Next]_vars, NEW p \in Job, pc'[p] = "fits", pc[p] # "fits"
    PROVE  Measure(p)
<1> USE DEF TypeOK
<1>1. ASSUME NEW x \in Job, Step(x) \/ Lock(x) PROVE Measure(p)
  <2>1. CASE Measure(x)
    <3>1. x = p
      BY <2>1 DEF Measure
    <3>2. QED
      BY <2>1, <3>1
  <2>2. CASE ~ Measure(x)
    BY <1>1, <2>2 DEF Step, Lock, Publish, ReadDrain, List, Commit, Refuse, Exec,
                      Release, ReadTicket, DropDead
  <2>3. QED
    BY <2>1, <2>2
<1>2. CASE \E x \in Job : ChildExit(x)
  BY <1>2 DEF ChildExit
<1>3. CASE \E x \in Job : Event(x)
  BY <1>3 DEF Event, StartNested, Stamp, GiveUp, Cancel, Bypass, Crash, Reuse, Ramp, Settle
<1>4. CASE Drainer \/ DrainSet \/ Resume
  BY <1>4 DEF Drainer, DrainList, DrainVerdict, DrainRead, DrainDropDead, DrainSet, Resume
<1>5. CASE UNCHANGED vars
  BY <1>5 DEF vars
<1>6. QED
  BY <1>1, <1>2, <1>3, <1>4, <1>5 DEF Next

\* Nothing that happens between a measurement and the admission that follows
\* it takes the room away.
LEMMA FitStep ==
    ASSUME TypeOK, TypeOK', LockInv, LockInv', UsedInv, UsedInv', HeldInv,
           NEW r \in Res \ Flaky, \A q \in Declared : Need[q][r] = 0,
           FitInv(r), [Next]_vars
    PROVE  FitInv(r)'
<1>1. /\ Committed(r) \in Nat /\ Committed(r)' \in Nat
      /\ Total[r] \in Nat /\ Slack[r] \in Nat /\ \A p \in Job : Need[p][r] \in Nat
  BY ClaimType, SizeAssumption
<1>2. CASE \A q \in Job : (q \in Holders)' =>
             q \in Holders /\ \A s \in Res : Claim(s)'[q] <= Claim(s)[q]
  <2>1. Committed(r)' <= Committed(r)
    BY <1>2, NoMore
  <2>2. FitsOn(r)'
    BY <1>1, <2>1 DEF FitInv, FitsOn
  <2>3. ASSUME NEW p \in Job, pc'[p] = "fits", Need[p][r] > 0
        PROVE  Committed(r)' + Slack[r] + Need[p][r] <= Total[r]
    <3>1. CASE pc[p] = "fits"
      BY <1>1, <2>1, <2>3, <3>1 DEF FitInv
    <3>2. CASE pc[p] # "fits"
      <4>1. Measure(p)
        BY <2>3, <3>2, OnlyMeasureFits
      <4>2. PICK blind \in SUBSET Flaky : Fits(p, blind)
        BY <2>3, <4>1 DEF Measure, TypeOK
      <4>3. pc[p] = "reading" /\ todo = {}
        BY <4>1 DEF Measure
      <4>4. Available(r) - Reserved(r, seenHeld) - Slack[r] >= Need[p][r]
        BY <2>3, <4>2 DEF Fits
      <4> DEFINE u == Weight(InUse(r), Job)
                 v == Weight(Sizes(r), seenHeld)
      <4>5. Committed(r) <= u + v /\ Available(r) = Total[r] - u /\ Reserved(r, seenHeld) = v
            /\ u \in Nat /\ v \in Nat
        BY <4>3, Covered
      <4> HIDE DEF u, v
      <4>6. QED
        BY <1>1, <2>1, <4>4, <4>5
    <3>3. QED
      BY <3>1, <3>2
  <2>4. QED
    BY <2>2, <2>3 DEF FitInv
<1>3. ASSUME NEW p \in Job, Grows(p), Commit(p) PROVE FitInv(r)'
  <2>1. Committed(r)' <= Committed(r) + Need[p][r]
    BY <1>3, OneMore
  <2>2. pc[p] = "fits" /\ admit' = NoJob
    BY <1>3 DEF Commit, Unlock
  <2>3. \A q \in Job : pc'[q] # "fits"
    BY <2>2, JobAssumption DEF LockInv, Checking
  <2>4. FitsOn(r)'
    BY <1>1, <2>1, <2>2 DEF FitInv, FitsOn
  <2>5. QED
    BY <2>3, <2>4 DEF FitInv
<1>4. ASSUME NEW p \in Job, Grows(p), Publish(p), p \in Declared PROVE FitInv(r)'
  <2>1. Committed(r)' <= Committed(r) + Need[p][r] /\ Need[p][r] = 0
    BY <1>4, OneMore
  <2>2. \A q \in Job : pc'[q] = "fits" => pc[q] = "fits"
    BY <1>4 DEF Publish, TypeOK
  <2>3. QED
    BY <1>1, <2>1, <2>2 DEF FitInv, FitsOn
<1>5. QED
  BY <1>2, <1>3, <1>4, ClaimStep

\* The resources whose every measurement succeeds and whose every reservation
\* went through admission.
Guarded == {r \in Res \ Flaky : \A q \in Declared : Need[q][r] = 0}

\* What is promised of such a resource never exceeds the host minus its headroom,
\* for any number of jobs of any sizes, however their commands grow, settle, end
\* or outlive their avm while a check reads and measures (Queue.check: available
\* minus held minus headroom).
THEOREM GuardedFits == Spec => []\A r \in Guarded : FitsOn(r)
<1> DEFINE Inv == IInv /\ UsedInv /\ HeldInv /\ \A r \in Guarded : FitInv(r)
<1>1. Init => Inv
  <2> SUFFICES ASSUME Init PROVE Inv
    OBVIOUS
  <2>1. IInv
    BY InitInv
  <2>2. Holders = {}
    BY DEF Init, Holders, Admitted
  <2>3. UsedInv /\ HeldInv
    BY <2>2, SizeAssumption DEF Init, UsedInv, HeldInv, Nothing
  <2>4. ASSUME NEW r \in Guarded PROVE FitInv(r)
    <3>1. r \in Res
      BY DEF Guarded
    <3>2. Claim(r) \in [Job -> Nat]
      BY <2>1, <3>1, SizeAssumption DEF IInv, TypeOK, Claim
    <3>3. Committed(r) = 0
      BY <2>2, <3>1, <3>2, FiniteAssumption, CommittedIsWeight, WeightNat
    <3>4. QED
      BY <3>3 DEF Init, FitInv, FitsOn
  <2>5. QED
    BY <2>1, <2>3, <2>4
<1>2. Inv /\ [Next]_vars => Inv'
  <2> SUFFICES ASSUME Inv, [Next]_vars PROVE Inv'
    OBVIOUS
  <2>1. IInv'
    BY TypeStep, FileStep, LockStep, BehindStep, ViewStep, LateStep, ExclusiveStep DEF IInv
  <2>2. UsedInv'
    BY UsedStep DEF IInv
  <2>3. HeldInv'
    BY HeldStep DEF IInv
  <2>4. \A r \in Guarded : FitInv(r)'
    BY <2>1, <2>2, FitStep DEF IInv, Guarded
  <2>5. QED
    BY <2>1, <2>2, <2>3, <2>4
<1>3. Inv => \A r \in Guarded : FitsOn(r)
  BY DEF FitInv
<1>4. QED
  BY <1>1, <1>2, <1>3, PTL DEF Spec

\* Where no measurement fails and no job declares a size without asking for
\* admission, neither memory nor VRAM is ever promised twice.
THEOREM NoOvercommit ==
    Flaky = {} /\ (\A q \in Declared : Need[q] = Nothing) => (Spec => []ReservationsFit)
<1> SUFFICES ASSUME Flaky = {}, \A q \in Declared : Need[q] = Nothing
             PROVE  Spec => []ReservationsFit
  OBVIOUS
<1>1. Guarded = Res
  BY DEF Guarded, Nothing
<1>2. (\A r \in Guarded : FitsOn(r)) => ReservationsFit
  BY <1>1 DEF ReservationsFit, FitsOn
<1>3. QED
  BY <1>2, GuardedFits, PTL
=============================================================================
