----------------------------- MODULE DeployProofs -----------------------------
(***************************************************************************)
(* Proof that a deploy leaves a way back (Deploy!WayBack): what `current`  *)
(* and the rollback copy say is true of what they name, whatever order     *)
(* deploys, failures, interrupts, rollbacks and upgrades come in, and a    *)
(* doubt about the one or the other ends with the next recorded release.   *)
(***************************************************************************)
EXTENDS SelfUpdateProofs

-----------------------------------------------------------------------------
\* The release a copy names is the one it holds, if what it was taken of was
\* what it was said to be.
Honest(copy) == copy.sure => /\ copy.srv # Mix
                             /\ copy.commit # Unknown => copy.srv = copy.commit.code

\* server/ is whole, and what `current` names.
Whole == srv # Mix /\ (current # Unknown => srv = current.code)

\* Before the release is recorded, `current` still names what the copy holds.
Replacing == {"snapped", "copying", "copied", "restarted", "healthy"}
Replaced  == {"copied", "restarted", "healthy", "recorded", "shelved"}
Settled   == {"off", "snapped", "recorded", "shelved", "agent", "undo"}
Returned  == {"backcopied", "backrestarted", "backagent"}

SnapInv ==
    /\ dep.at \in Forward => Honest(dep.snap)
    /\ dep.at \in Replacing => dep.snap.commit = current /\ dep.snap.sure = sure
ServerInv ==
    /\ dep.at \in Settled /\ sure => Whole
    /\ dep.at \in Replaced => srv = dep.to.code
    /\ dep.at \in Returned => srv = roll.srv
    /\ dep.at \in {"installagent", "installed"} => srv = dep.to.code

WayInv == Honest(roll) /\ SnapInv /\ ServerInv

-----------------------------------------------------------------------------
LEMMA NoCopyIsHonest == Honest(NoCopy)
BY DEF Honest, NoCopy

\* A deploy that ends where server/ is whole, or in doubt, ends well.
LEMMA EndsWell ==
    ASSUME Ends, Honest(roll'), sure' => Whole'
    PROVE  WayInv'
<1>1. dep'.at = "off"
  BY DEF Ends, Resting
<1>2. QED
  BY <1>1 DEF WayInv, SnapInv, ServerInv, Forward, Replacing, Replaced, Returned

LEMMA InitWay == Init => WayInv
<1> SUFFICES ASSUME Init PROVE WayInv
  OBVIOUS
<1>1. /\ srv = 1 /\ roll = NoCopy /\ dep = Resting
      /\ current = [code |-> 1, sig |-> Body[1]] \/ current = Unknown
  BY DEF Init, DeployInit
<1>2. dep.at = "off" /\ Whole
  BY <1>1 DEF Resting, Whole, Mix
<1>3. QED
  BY <1>1, <1>2, NoCopyIsHonest
     DEF WayInv, SnapInv, ServerInv, Forward, Replacing, Replaced, Returned

LEMMA WayKept ==
    ASSUME WayInv, UNCHANGED <<srv, current, roll, dep, sure>>
    PROVE  WayInv'
BY DEF WayInv, SnapInv, ServerInv, Honest, Whole

\* From the copy to the record of what is live.
LEMMA ForwardWay ==
    ASSUME Typed, WayInv,
           \/ DeployStart \/ PutServer \/ PutDone \/ Undone \/ Restart \/ Healthy \/ TakeBack
           \/ Record \/ Shelve \/ Promote
    PROVE  WayInv'
<1>1. /\ Honest(roll) /\ SnapInv /\ ServerInv /\ dep \in Deploys /\ DepInv
  BY DEF WayInv, Typed, TypeOK, DeployTypeOK
<1>2. CASE DeployStart
  <2>1. PICK c \in Commit, same \in BOOLEAN :
          dep' = [dep EXCEPT !.at = "snapped", !.to = c, !.redo = same /\ current = c,
                    !.snap = [commit |-> current, for |-> c, srv |-> srv,
                              body |-> pub.body, sig |-> pub.sig, sure |-> sure]]
    BY <1>2, Zenon DEF DeployStart
  <2>2. /\ dep'.at = "snapped" /\ dep'.snap.commit = current /\ dep'.snap.srv = srv
        /\ dep'.snap.sure = sure
    BY <1>1, <2>1 DEF Deploys
  <2>3. dep.at = "off" /\ UNCHANGED <<hub, state>>
    BY <1>2, Zenon DEF DeployStart, Running
  <2>4. (sure => Whole) /\ UNCHANGED <<srv, current, roll, sure>>
    BY <1>1, <2>3 DEF ServerInv, Settled, hub, state
  <2>5. QED
    BY <1>1, <2>2, <2>4
       DEF WayInv, SnapInv, ServerInv, Honest, Whole, Replaced, Returned
<1>3. CASE PutServer
  <2>1. dep'.at = "copying" /\ dep'.to = dep.to /\ dep'.snap = dep.snap
    BY <1>1, <1>3, GoesType DEF PutServer
  <2>2. dep.at = "snapped" /\ UNCHANGED <<current, roll, sure>>
    BY <1>3 DEF PutServer, Running, state
  <2>3. QED
    BY <1>1, <2>1, <2>2
       DEF WayInv, SnapInv, ServerInv, Honest, Forward, Replacing, Settled, Replaced, Returned
<1>4. CASE PutDone
  <2>1. dep'.at = "copied" /\ dep'.to = dep.to /\ dep'.snap = dep.snap
    BY <1>1, <1>4, GoesType DEF PutDone
  <2>2. dep.at = "copying" /\ srv' = dep.to.code /\ UNCHANGED <<current, roll, sure>>
    BY <1>4 DEF PutDone, Running, state
  <2>3. QED
    BY <1>1, <2>1, <2>2
       DEF WayInv, SnapInv, ServerInv, Honest, Forward, Replacing, Settled, Replaced, Returned
<1>5. CASE Undone \/ TakeBack
  <2>1. Ends /\ UNCHANGED <<current, roll>> /\ (sure' = FALSE \/ (srv' = dep.snap.srv /\ sure' = sure))
    BY <1>5 DEF Undone, TakeBack, Restored, RestoreFails
  <2>2. dep.snap.commit = current /\ dep.snap.sure = sure /\ Honest(dep.snap)
    BY <1>1, <1>5 DEF Undone, TakeBack, SnapInv, Forward, Replacing
  <2>3. sure' => Whole'
    BY <2>1, <2>2 DEF Whole, Honest
  <2>4. QED
    BY <1>1, <2>1, <2>3, EndsWell DEF Honest
<1>6. CASE Restart \/ Healthy
  <2>1. /\ dep'.at \in {"restarted", "healthy"} /\ dep.at \in {"copied", "restarted"}
        /\ dep'.to = dep.to /\ dep'.snap = dep.snap
    BY <1>1, <1>6, GoesType DEF Restart, Healthy, Running
  <2>2. UNCHANGED <<srv, current, roll, sure>>
    BY <1>6 DEF Restart, Healthy, state
  <2>3. QED
    BY <1>1, <2>1, <2>2
       DEF WayInv, SnapInv, ServerInv, Honest, Forward, Replacing, Settled, Replaced, Returned
<1>7. CASE Record
  <2>1. dep'.at = "recorded" /\ dep.at = "healthy" /\ dep'.to = dep.to /\ dep'.snap = dep.snap
    BY <1>1, <1>7, GoesType DEF Record, Running
  <2>2. current' = dep.to /\ UNCHANGED <<srv, roll>>
    BY <1>7 DEF Record, hub
  <2>3. srv = dep.to.code /\ srv # Mix
    BY <1>1, <2>1, BodyType DEF ServerInv, Replaced, DepInv, Forward, Commit, Mix
  <2>4. QED
    BY <1>1, <2>1, <2>2, <2>3
       DEF WayInv, SnapInv, ServerInv, Honest, Whole, Forward, Replacing, Replaced, Returned
<1>8. CASE Shelve
  <2>1. dep.at = "recorded" /\ UNCHANGED <<srv, current, sure>>
    BY <1>8 DEF Shelve, Running, hub
  <2>2. (sure => Whole) /\ Honest(dep.snap) /\ srv = dep.to.code
    BY <1>1, <2>1 DEF SnapInv, ServerInv, Forward, Settled, Replaced
  <2>3. CASE dep.redo
    <3>1. dep'.at = "agent" /\ roll' = roll
      BY <1>1, <1>8, <2>3 DEF Shelve, Deploys
    <3>2. QED
      BY <1>1, <2>1, <2>2, <3>1
         DEF WayInv, SnapInv, ServerInv, Whole, Forward, Replacing, Replaced, Returned
  <2>4. CASE ~dep.redo
    <3>1. Goes("shelved") /\ roll' = NoCopy
      BY <1>8, <2>4 DEF Shelve
    <3>2. dep'.at = "shelved" /\ dep'.to = dep.to /\ dep'.snap = dep.snap
      BY <1>1, <3>1, GoesType
    <3>3. Honest(roll')
      BY <3>1, NoCopyIsHonest
    <3>4. QED
      BY <2>1, <2>2, <3>2, <3>3
         DEF WayInv, SnapInv, ServerInv, Whole, Honest, Replacing, Returned
  <2>5. QED
    BY <2>3, <2>4
<1>9. CASE Promote
  <2>1. /\ dep.at = "shelved" /\ dep'.at = "agent" /\ roll' = dep.snap
        /\ UNCHANGED <<srv, current, sure>>
    BY <1>1, <1>9 DEF Promote, Running, Deploys, hub
  <2>2. (sure => Whole) /\ Honest(dep.snap)
    BY <1>1, <2>1 DEF SnapInv, ServerInv, Forward, Settled
  <2>3. QED
    BY <2>1, <2>2
       DEF WayInv, SnapInv, ServerInv, Whole, Honest, Forward, Replacing, Replaced, Returned
<1>10. QED
  BY <1>2, <1>3, <1>4, <1>5, <1>6, <1>7, <1>8, <1>9

\* The copy of agent/ comes when server/ is settled.
LEMMA AgentWay ==
    ASSUME Typed, WayInv,
           CopyAgent \/ CopyFails \/ DeployEnds \/ Interrupt
    PROVE  WayInv'
<1>1. UNCHANGED <<srv, current, roll, sure>> /\ dep \in Deploys
  BY DEF CopyAgent, CopyFails, DeployEnds, Interrupt, hub, state, Typed, TypeOK, DeployTypeOK
<1>2. CASE CopyAgent
  <2>1. dep' = [dep EXCEPT !.left = dep.left - 1]
    BY <1>2, Zenon DEF CopyAgent
  <2>2. dep'.at = dep.at /\ dep.at \notin Forward /\ dep'.to = dep.to
    BY <1>1, <1>2, <2>1 DEF CopyAgent, Deploys, Forward
  <2>3. QED
    BY <1>1, <2>2 DEF WayInv, SnapInv, ServerInv, Whole, Honest, Forward, Replacing, Replaced
<1>3. CASE CopyFails \/ DeployEnds \/ Interrupt
  <2>1. dep'.at \in {"off", "undo"} /\ dep.at \in Settled
    <3>1. CASE CopyFails
      BY <1>1, <3>1 DEF CopyFails, Resting, Running, Settled, Deploys
    <3>2. CASE DeployEnds \/ Interrupt
      BY <3>2 DEF DeployEnds, Interrupt, Ends, Resting, Settled
    <3>3. QED
      BY <1>3, <3>1, <3>2
  <2>2. QED
    BY <1>1, <2>1
       DEF WayInv, SnapInv, ServerInv, Whole, Honest, Forward, Replacing, Replaced, Returned
<1>4. QED
  BY <1>2, <1>3

\* A rollback, and what cuts one or a deploy short.
LEMMA BackWay ==
    ASSUME Typed, WayInv,
           \/ RollbackStart \/ BackCopied \/ BackRestart \/ BackHealthy \/ BackRecord \/ BackStops
           \/ Kill
    PROVE  WayInv'
<1>1. Honest(roll) /\ SnapInv /\ ServerInv /\ dep \in Deploys
  BY DEF Typed, TypeOK, DeployTypeOK, WayInv
<1>2. CASE BackStops \/ Kill
  <2>1. Ends /\ UNCHANGED <<srv, current, roll>> /\ (sure' => sure /\ dep.at \in {"recorded", "shelved"})
    BY <1>2 DEF BackStops, Kill, hub
  <2>2. (sure' => Whole') /\ Honest(roll')
    BY <1>1, <2>1 DEF ServerInv, Settled, Whole
  <2>3. QED
    BY <2>1, <2>2, EndsWell
<1>3. CASE RollbackStart
  <2>1. UNCHANGED roll /\ dep'.at = "back"
    BY <1>1, <1>3 DEF RollbackStart, state, Deploys
  <2>2. QED
    BY <1>1, <2>1
       DEF WayInv, SnapInv, ServerInv, Honest, Forward, Replacing, Settled, Replaced, Returned
<1>4. CASE BackCopied
  <2>1. UNCHANGED roll /\ dep'.at = "backcopied" /\ srv' = roll.srv
    BY <1>1, <1>4 DEF BackCopied, state, Goes, Deploys
  <2>2. QED
    BY <1>1, <2>1
       DEF WayInv, SnapInv, ServerInv, Honest, Forward, Replacing, Settled, Replaced, Returned
<1>5. CASE BackRestart \/ BackHealthy
  <2>1. /\ UNCHANGED <<srv, roll>> /\ dep.at \in {"backcopied", "backrestarted"}
        /\ dep'.at \in {"backrestarted", "backagent"}
    BY <1>1, <1>5 DEF BackRestart, BackHealthy, state, Running, Goes, Deploys
  <2>2. QED
    BY <1>1, <2>1
       DEF WayInv, SnapInv, ServerInv, Honest, Forward, Replacing, Settled, Replaced, Returned
<1>6. CASE BackRecord
  <2>1. /\ Ends /\ dep.at = "backagent" /\ current' = roll.commit /\ sure' = roll.sure
        /\ UNCHANGED <<srv, roll>>
    BY <1>6 DEF BackRecord, Running, hub
  <2>2. (sure' => Whole') /\ Honest(roll')
    BY <1>1, <2>1 DEF Whole, Honest, ServerInv, Returned
  <2>3. QED
    BY <2>1, <2>2, EndsWell
<1>7. QED
  BY <1>2, <1>3, <1>4, <1>5, <1>6

\* An upgrade is in doubt until it is recorded.
LEMMA UpgradeWay ==
    ASSUME Typed, WayInv, UpgradeSteps
    PROVE  WayInv'
<1>1. Honest(roll) /\ ServerInv /\ dep \in Deploys /\ UNCHANGED roll
  BY DEF Typed, TypeOK, DeployTypeOK, WayInv, UpgradeSteps, UpgradeStart, ServerInstalled,
         Installed, RecordInstall, UpgradeStops, state
<1>2. CASE UpgradeStart
  <2>1. dep'.at = "install"
    BY <1>1, <1>2 DEF UpgradeStart, Deploys
  <2>2. QED
    BY <1>1, <2>1
       DEF WayInv, SnapInv, ServerInv, Honest, Forward, Replacing, Settled, Replaced, Returned
<1>3. CASE ServerInstalled \/ Installed
  <2>1. dep'.at \in {"installagent", "installed"} /\ dep'.to = dep.to /\ srv' = dep.to.code
    <3>1. CASE ServerInstalled
      BY <1>1, <3>1 DEF ServerInstalled, Deploys
    <3>2. CASE Installed
      BY <1>1, <3>2 DEF Installed, Goes, Running, Deploys, ServerInv
    <3>3. QED
      BY <1>3, <3>1, <3>2
  <2>2. QED
    BY <1>1, <2>1
       DEF WayInv, SnapInv, ServerInv, Honest, Forward, Replacing, Settled, Replaced, Returned
<1>4. CASE RecordInstall
  <2>1. /\ Ends /\ dep.at = "installed" /\ srv' = srv /\ current' \in {dep.to, Unknown}
    BY <1>4 DEF RecordInstall, Running, hub
  <2>2. srv = dep.to.code /\ srv # Mix
    BY <1>1, <2>1, BodyType DEF ServerInv, Typed, DepInv, Installs, Commit, Mix
  <2>3. Whole' /\ Honest(roll')
    BY <1>1, <2>1, <2>2 DEF Whole
  <2>4. QED
    BY <2>1, <2>3, EndsWell
<1>5. CASE UpgradeStops
  <2>1. Ends /\ UNCHANGED <<srv, current, sure>> /\ dep.at \in Installs
    BY <1>5 DEF UpgradeStops, hub, state, Installs
  <2>2. sure = FALSE
    BY <2>1 DEF Typed, DepInv
  <2>3. QED
    BY <1>1, <2>1, <2>2, EndsWell
<1>6. QED
  BY <1>2, <1>3, <1>4, <1>5 DEF UpgradeSteps

\* When nothing is under way, server/ is whole and is what `current` names,
\* unless a kill, a failed restore, a stopped rollback or an upgrade that was
\* not recorded has put that in doubt and no release was recorded since, and
\* the rollback copy holds what it says, unless it was taken in doubt: for
\* every number of deploys, failures, interrupts, rollbacks and upgrades
\* (deploy-hub.sh, upgrade.sh, install-server.sh).
THEOREM WayBackKept == Spec => []WayBack
<1> DEFINE Inv == Typed /\ WayInv
<1>1. Init => Inv
  BY InitTyped, InitWay
<1>2. ASSUME Inv, [Next]_vars PROVE Inv'
  <2>1. Typed'
    BY <1>2, StepTyped
  <2>2. CASE DeployNext
    <3>1. CASE \/ Edit \/ Push \/ SignStart \/ Passphrase \/ SignStop
               \/ \E n \in Names : SignFile(n)
      <4>1. UNCHANGED <<srv, current, roll, dep, sure>>
        BY <3>1 DEF Edit, Push, SignStart, Passphrase, SignStop, SignFile, hub, state
      <4>2. QED
        BY <1>2, <2>1, <4>1, WayKept
    <3>2. QED
      BY <1>2, <2>1, <2>2, <3>1, ForwardWay, AgentWay, BackWay, UpgradeWay, Zenon
         DEF DeployNext, UpgradeSteps
  <2>3. CASE HostSteps \/ UNCHANGED vars
    <3>1. UNCHANGED <<srv, current, roll, dep, sure>>
      BY <2>3, Zenon DEF HostSteps, AgentStep, Report, Read, Decide, Install, Refuse, Refresh,
         Respawn, NoReply, InstallFails, RefreshFails, RespawnFails, Crash, Expire, Rest, vars,
         deployVars, hub, state
    <3>2. QED
      BY <1>2, <2>1, <3>1, WayKept
  <2>4. QED
    BY <1>2, <2>2, <2>3 DEF Next, HostSteps
<1>3. Inv => WayBack
  <2>1. Inv /\ dep.at = "off" => (sure => Whole) /\ Honest(roll)
    BY DEF WayInv, ServerInv, Settled
  <2>2. QED
    BY <2>1 DEF WayBack, Whole, Honest
<1>4. QED
  <2>1. Inv /\ [Next]_vars => Inv'
    BY <1>2
  <2>2. QED
    BY <1>1, <1>3, <2>1, PTL DEF Spec

=============================================================================
