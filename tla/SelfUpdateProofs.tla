--------------------------- MODULE SelfUpdateProofs ---------------------------
(***************************************************************************)
(* Proofs about Deploy and SelfUpdate for every history of the code: the   *)
(* types, that a host holds released code only, and that it never goes     *)
(* back to an older version.                                               *)
(***************************************************************************)
EXTENDS SelfUpdate, TLAPS

-----------------------------------------------------------------------------
(* A deploy knows what it deploys and what it would put back.              *)

Forward == {"snapped", "copying", "copied", "restarted", "healthy", "recorded", "shelved"}
Back    == {"back", "backcopied", "backrestarted", "backagent"}
Installs == {"install", "installagent", "installed"}

DepInv ==
    /\ dep.at \in Forward \cup Installs \cup {"agent", "undo"} => dep.to \in Commit
    /\ dep.at \in Forward \cup Back \cup {"undo"} => dep.snap \in Copy
    /\ dep.at \in {"copied", "restarted"} => srv = dep.to.code
    /\ dep.at \in Installs => sure = FALSE

Typed == TypeOK /\ DepInv

LEMMA BodyType ==
    /\ \A c \in Code : Body[c] \in [Names -> Bodies]
    /\ \A b \in Bodies : b \in Nat /\ b # 0
    /\ 1 \in Code /\ 0 \notin Code
BY DeployAssumption DEF Bodies

LEMMA NoCopyIsNone == NoCopy \notin Copy
<1>1. "agent" \in Names /\ NoCopy.body["agent"] = 0
  BY DEF NoCopy, Unsigned, None, Names
<1>2. QED
  BY <1>1, BodyType DEF Copy

LEMMA UnknownType == Unsigned \in Sigs /\ Unknown.sig \in Sigs
BY DEF Unknown, Unsigned, Sigs

LEMMA CommittedType ==
    ASSUME NEW c \in Commit
    PROVE  Committed(c) \in [Names -> Bodies]
BY BodyType DEF Commit, Committed

LEMMA ShippedType ==
    ASSUME NEW at, NEW left \in 0..4
    PROVE  Shipped(at, left).part \in {"body", "sig"} /\ Shipped(at, left).name \in Names
<1>1. Shipped(at, left) \in [part : {"body", "sig"}, name : Names]
  BY DEF Shipped, Names
<1>2. QED
  BY <1>1
-----------------------------------------------------------------------------
LEMMA InitTyped == Init => Typed
<1> SUFFICES ASSUME Init PROVE Typed
  OBVIOUS
<1> DEFINE first == [code |-> 1, sig |-> Body[1]]
<1>1. Body[1] \in [Names -> Bodies] /\ Body[1] \in Sigs
  BY BodyType DEF Sigs
<1>2. first \in Commit
  BY <1>1, BodyType DEF Commit
<1>3. checkout \in Commit /\ main \subseteq Commit /\ current \in Commit \cup {Unknown}
  BY <1>2 DEF Init, DeployInit
<1>4. dep.at = "off" /\ dep \in Deploys
  BY UnknownType DEF Init, DeployInit, Resting, Deploys
<1>5. signed \subseteq Bodies /\ disk \in [Names -> Bodies] /\ run \in Bodies
  BY <1>1 DEF Init, DeployInit, Names
<1>6. DeployTypeOK
  <2>1. signer \in [at : {"off", "asking", "agent", "avm"}, code : Code]
    BY BodyType DEF Init, DeployInit
  <2>2. pub \in [body : [Names -> Bodies], sig : Sigs]
    BY <1>1 DEF Init, DeployInit
  <2>3. /\ srv \in Code \cup {Mix} /\ live \in Code \cup {Down}
        /\ roll \in Copy \cup {NoCopy} /\ proved \subseteq Code
        /\ sure \in BOOLEAN /\ ops \in Nat /\ trouble \in Nat
    BY BodyType DEF Init, DeployInit
  <2>4. QED
    BY <1>3, <1>4, <1>5, <2>1, <2>2, <2>3 DEF DeployTypeOK
<1>7. upd \in Updates
  BY UnknownType DEF Init, Started, NoOffer, Updates
<1>8. QED
  BY <1>4, <1>5, <1>6, <1>7 DEF Typed, TypeOK, DepInv, Forward, Back, Installs
-----------------------------------------------------------------------------
(* How a deploy moves on.                                                  *)

LEMMA EndsType == Ends => dep' \in Deploys /\ dep'.at = "off"
BY UnknownType DEF Ends, Resting, Deploys

LEMMA GoesType ==
    ASSUME dep \in Deploys, NEW at, Goes(at),
           at \in {"copying", "copied", "restarted", "healthy", "recorded", "shelved",
                  "backcopied", "backrestarted", "installed"}
    PROVE  /\ dep' \in Deploys /\ dep'.at = at
           /\ dep'.to = dep.to /\ dep'.snap = dep.snap
BY DEF Deploys, Goes

\* A copy is about to be written to agent/, four files.
Loads(at, snap) ==
    \/ dep' = [dep EXCEPT !.at = at, !.left = 4, !.snap = snap]
    \/ snap = dep.snap /\ dep' = [dep EXCEPT !.at = at, !.left = 4]

LEMMA LoadType ==
    ASSUME dep \in Deploys, NEW at, NEW snap, Loads(at, snap), snap \in Copy \cup {NoCopy},
           at \in {"agent", "undo", "backagent", "installagent"}
    PROVE  dep' \in Deploys /\ dep'.at = at /\ dep'.to = dep.to /\ dep'.snap = snap
<1>1. dep' = [at |-> at, to |-> dep.to, redo |-> dep.redo, snap |-> snap, left |-> 4]
  BY DEF Deploys, Loads
<1>2. QED
  BY <1>1 DEF Deploys

LEMMA CodeOf ==
    ASSUME NEW c, c.code \in Code
    PROVE  Committed(c) \in [Names -> Bodies] /\ Committed(c) \in Sigs
BY BodyType DEF Committed, Sigs

LEMMA SourceType ==
    ASSUME Typed, dep.at \in {"agent", "undo", "backagent", "installagent"}
    PROVE  Source.body \in [Names -> Bodies] /\ Source.sig \in Sigs
<1>1. CASE dep.at \in {"agent", "installagent"}
  <2>1. dep.to \in Commit
    BY <1>1 DEF Typed, DepInv, Installs
  <2>2. QED
    BY <1>1, <2>1, CommittedType DEF Source, Commit
<1>2. CASE dep.at \in {"undo", "backagent"}
  <2>1. dep.snap \in Copy
    BY <1>2 DEF Typed, DepInv, Back
  <2>2. QED
    BY <1>2, <2>1 DEF Source, Copy
<1>3. QED
  BY <1>1, <1>2

LEMMA PubType ==
    ASSUME Typed, CopyAgent
    PROVE  pub' \in [body : [Names -> Bodies], sig : Sigs]
<1> DEFINE f == Shipped(dep.at, dep.left)
<1>1. dep.left \in 0..4 /\ pub \in [body : [Names -> Bodies], sig : Sigs]
  BY DEF Typed, TypeOK, DeployTypeOK, Deploys
<1>2. f.part \in {"body", "sig"} /\ f.name \in Names
  BY <1>1, ShippedType
<1>3. pub' = [pub EXCEPT ![f.part] = [pub[f.part] EXCEPT ![f.name] = Source[f.part][f.name]]]
  BY Zenon DEF CopyAgent
<1>4. Source.body \in [Names -> Bodies] /\ Source.sig \in [Names -> Bodies \cup {None}]
  BY SourceType DEF CopyAgent, Sigs
<1> HIDE DEF f
<1>5. CASE f.part = "body"
  <2>1. Source.body[f.name] \in Bodies
    BY <1>2, <1>4
  <2>2. [pub.body EXCEPT ![f.name] = Source.body[f.name]] \in [Names -> Bodies]
    BY <1>1, <1>2, <2>1
  <2>3. pub' = [pub EXCEPT !.body = [pub.body EXCEPT ![f.name] = Source.body[f.name]]]
    BY <1>3, <1>5
  <2>4. QED
    BY <1>1, <2>2, <2>3
<1>6. CASE f.part = "sig"
  <2>1. Source.sig[f.name] \in Bodies \cup {None}
    BY <1>2, <1>4
  <2>2. [pub.sig EXCEPT ![f.name] = Source.sig[f.name]] \in Sigs
    BY <1>1, <1>2, <2>1 DEF Sigs
  <2>3. pub' = [pub EXCEPT !.sig = [pub.sig EXCEPT ![f.name] = Source.sig[f.name]]]
    BY <1>3, <1>6
  <2>4. QED
    BY <1>1, <2>2, <2>3
<1>7. QED
  BY <1>2, <1>5, <1>6

-----------------------------------------------------------------------------
(* The types, in groups that an action changes or leaves alone.            *)

RepoTyped ==
    /\ checkout \in Commit /\ main \subseteq Commit /\ signed \subseteq Bodies
    /\ signer \in [at : {"off", "asking", "agent", "avm"}, code : Code]
HubTyped ==
    /\ srv \in Code \cup {Mix} /\ live \in Code \cup {Down} /\ proved \subseteq Code
    /\ pub \in [body : [Names -> Bodies], sig : Sigs]
StateTyped ==
    /\ current \in Commit \cup {Unknown} /\ roll \in Copy \cup {NoCopy} /\ sure \in BOOLEAN
DepTyped == dep \in Deploys /\ DepInv
CountsTyped == ops \in Nat /\ trouble \in Nat

DeployTyped == RepoTyped /\ HubTyped /\ StateTyped /\ DepTyped /\ CountsTyped

LEMMA TypedParts ==
    /\ Typed <=> DeployTyped /\ disk \in [Names -> Bodies] /\ run \in Bodies /\ upd \in Updates
    /\ Typed' <=> DeployTyped' /\ (disk \in [Names -> Bodies])' /\ (run \in Bodies)' /\ (upd \in Updates)'
BY Zenon DEF Typed, TypeOK, DeployTypeOK, DeployTyped, RepoTyped, HubTyped, StateTyped, DepTyped, CountsTyped

LEMMA RepoStepTyped ==
    ASSUME DeployTyped,
           \/ Edit \/ Push \/ SignStart \/ Passphrase \/ SignStop
           \/ \E n \in Names : SignFile(n)
    PROVE  DeployTyped'
<1>1. HubTyped' /\ StateTyped' /\ DepTyped' /\ CountsTyped'
  BY DEF DeployTyped, HubTyped, StateTyped, DepTyped, DepInv, CountsTyped, hub, state,
         Edit, Push, SignStart, Passphrase, SignStop, SignFile
<1>2. CASE Edit
  BY <1>1, <1>2 DEF DeployTyped, RepoTyped, Edit, Commit
<1>3. CASE Push
  BY <1>1, <1>3 DEF DeployTyped, RepoTyped, Push
<1>4. CASE SignStart
  BY <1>1, <1>4 DEF DeployTyped, RepoTyped, SignStart, Commit
<1>5. CASE Passphrase \/ SignStop
  BY <1>1, <1>5 DEF DeployTyped, RepoTyped, Passphrase, SignStop
<1>6. ASSUME NEW n \in Names, SignFile(n)
      PROVE  RepoTyped'
  <2>1. signer.code \in Code /\ checkout \in Commit
    BY DEF DeployTyped, RepoTyped
  <2>2. Committed(signer)[n] \in Bodies
    BY <2>1, CodeOf
  <2>3. [checkout.sig EXCEPT ![n] = Committed(signer)[n]] \in Sigs
    BY <2>1, <2>2 DEF Commit, Sigs
  <2>4. checkout' = [checkout EXCEPT !.sig = [checkout.sig EXCEPT ![n] = Committed(signer)[n]]]
    BY <1>6, Zenon DEF SignFile
  <2>5. checkout' \in Commit
    BY <2>1, <2>3, <2>4 DEF Commit
  <2>6. signer' \in [at : {"off", "asking", "agent", "avm"}, code : Code]
    BY <1>6 DEF DeployTyped, RepoTyped, SignFile
  <2>7. main' = main /\ signed' = signed \cup {Committed(signer)[n]}
    BY <1>6 DEF SignFile
  <2>8. QED
    BY <2>2, <2>5, <2>6, <2>7 DEF DeployTyped, RepoTyped
<1>7. QED
  BY <1>1, <1>2, <1>3, <1>4, <1>5, <1>6 DEF DeployTyped

LEMMA DeployStepTyped ==
    ASSUME DeployTyped,
           \/ DeployStart \/ PutServer \/ PutDone \/ Undone \/ Restart \/ Healthy \/ TakeBack
           \/ Record \/ Shelve \/ Promote
    PROVE  DeployTyped'
<1> USE DEF DeployTyped, HubTyped, StateTyped, DepTyped, CountsTyped, Running
<1>1. RepoTyped'
  <2>1. UNCHANGED repo
    BY Zenon DEF DeployStart, PutServer, PutDone, Undone, Restart, Healthy, TakeBack,
                 Record, Shelve, Promote
  <2>2. QED
    BY <2>1 DEF RepoTyped, repo
<1>2. CASE DeployStart
  <2>1. PICK c \in Commit, same \in BOOLEAN :
          dep' = [dep EXCEPT !.at = "snapped", !.to = c, !.redo = same /\ current = c,
                    !.snap = [commit |-> current, for |-> c, srv |-> srv,
                              body |-> pub.body, sig |-> pub.sig, sure |-> sure]]
    BY <1>2, Zenon DEF DeployStart
  <2>2. [commit |-> current, for |-> c, srv |-> srv, body |-> pub.body, sig |-> pub.sig,
         sure |-> sure] \in Copy
    BY DEF Copy
  <2>3. dep' \in Deploys /\ dep'.at = "snapped" /\ dep'.to \in Commit /\ dep'.snap \in Copy
    BY <2>1, <2>2 DEF Deploys
  <2>4. UNCHANGED <<hub, state, trouble>> /\ ops' = ops + 1
    BY <1>2, Zenon DEF DeployStart
  <2>5. QED
    BY <1>1, <2>3, <2>4 DEF DepInv, Forward, Back, Installs, hub, state
<1>3. CASE PutServer
  <2>1. dep' \in Deploys /\ dep'.at = "copying" /\ dep'.to = dep.to /\ dep'.snap = dep.snap
    BY <1>3, GoesType DEF PutServer
  <2>2. QED
    BY <1>1, <1>3, <2>1 DEF PutServer, DepInv, Forward, Back, Installs, state, Mix
<1>4. CASE PutDone
  <2>1. dep' \in Deploys /\ dep'.at = "copied" /\ dep'.to = dep.to /\ dep'.snap = dep.snap
    BY <1>4, GoesType DEF PutDone
  <2>2. dep.to \in Commit /\ srv' = dep.to.code
    BY <1>4 DEF PutDone, DepInv, Forward
  <2>3. QED
    BY <1>1, <1>4, <2>1, <2>2 DEF PutDone, DepInv, Forward, Back, Installs, state, Commit
<1>5. CASE Undone \/ TakeBack
  <2>1. dep' \in Deploys /\ dep'.at = "off"
    BY <1>5, EndsType DEF Undone, TakeBack
  <2>2. dep.snap \in Copy /\ srv' \in {dep.snap.srv, Mix} /\ sure' \in {sure, FALSE}
    BY <1>5 DEF Undone, TakeBack, Restored, RestoreFails, DepInv, Forward
  <2>3. srv' \in Code \cup {Mix} /\ live' \in Code \cup {Down}
    BY <1>5, <2>2 DEF Undone, TakeBack, Restarted, Copy, Mix, Down
  <2>4. /\ UNCHANGED <<pub, proved, current, roll, ops>>
        /\ trouble' \in {trouble, trouble + 1}
    BY <1>5 DEF Undone, TakeBack, Restored, RestoreFails
  <2>5. sure' \in BOOLEAN /\ trouble' \in Nat
    <3>1. trouble' \in Nat
      BY <2>4
    <3>2. sure \in BOOLEAN
      BY Zenon
    <3>3. sure' \in BOOLEAN
      BY <2>2, <3>2, Zenon
    <3>4. QED
      BY <3>1, <3>3
  <2>6. DepTyped' /\ CountsTyped' /\ HubTyped' /\ StateTyped'
    BY <2>1, <2>3, <2>4, <2>5 DEF DepInv, Forward, Back, Installs
  <2>7. QED
    BY <1>1, <2>6
<1>6. CASE Restart
  <2>1. dep' \in Deploys /\ dep'.at = "restarted" /\ dep'.to = dep.to /\ dep'.snap = dep.snap
    BY <1>6, GoesType DEF Restart
  <2>2. QED
    BY <1>1, <1>6, <2>1 DEF Restart, Restarted, DepInv, Forward, Back, Installs, state, Mix, Down
<1>7. CASE Healthy
  <2>1. dep' \in Deploys /\ dep'.at = "healthy" /\ dep'.to = dep.to /\ dep'.snap = dep.snap
    BY <1>7, GoesType DEF Healthy
  <2>2. srv \in Code
    BY <1>7 DEF Healthy, DepInv, Forward, Commit
  <2>3. QED
    BY <1>1, <1>7, <2>1, <2>2 DEF Healthy, DepInv, Forward, Back, Installs, state
<1>8. CASE Record
  <2>1. dep' \in Deploys /\ dep'.at = "recorded" /\ dep'.to = dep.to /\ dep'.snap = dep.snap
    BY <1>8, GoesType DEF Record
  <2>2. QED
    BY <1>1, <1>8, <2>1 DEF Record, DepInv, Forward, Back, Installs, hub
<1>9. CASE Shelve
  <2>1. CASE dep.redo
    <3>1. dep' = [dep EXCEPT !.at = "agent", !.left = 4, !.snap = roll] /\ roll' = roll
      BY <1>9, <2>1 DEF Shelve
    <3>2. dep' \in Deploys /\ dep'.at = "agent" /\ dep'.to = dep.to
      <4>1. Loads("agent", roll)
        BY <3>1 DEF Loads
      <4>2. QED
        BY <4>1, LoadType
    <3>3. QED
      BY <1>1, <1>9, <3>1, <3>2 DEF Shelve, DepInv, Forward, Back, Installs, hub
  <2>2. CASE ~dep.redo
    <3>1. Goes("shelved") /\ roll' = NoCopy
      BY <1>9, <2>2 DEF Shelve
    <3>2. dep' \in Deploys /\ dep'.at = "shelved" /\ dep'.to = dep.to /\ dep'.snap = dep.snap
      BY <3>1, GoesType
    <3>3. QED
      BY <1>1, <1>9, <3>1, <3>2 DEF Shelve, DepInv, Forward, Back, Installs, hub
  <2>3. QED
    BY <2>1, <2>2
<1>10. CASE Promote
  <2>1. dep' \in Deploys /\ dep'.at = "agent" /\ dep'.to = dep.to
    <3>1. Loads("agent", dep.snap)
      BY <1>10 DEF Promote, Loads
    <3>2. dep.snap \in Copy \cup {NoCopy}
      BY DEF Deploys
    <3>3. QED
      BY <3>1, <3>2, LoadType
  <2>2. roll' \in Copy
    BY <1>10 DEF Promote, DepInv, Forward
  <2>3. QED
    BY <1>1, <1>10, <2>1, <2>2 DEF Promote, DepInv, Forward, Back, Installs, hub
<1>11. QED
  BY <1>2, <1>3, <1>4, <1>5, <1>6, <1>7, <1>8, <1>9, <1>10

LEMMA AgentStepTyped ==
    ASSUME DeployTyped, Typed,
           CopyAgent \/ CopyFails \/ DeployEnds \/ Interrupt
    PROVE  DeployTyped'
<1>1. RepoTyped' /\ StateTyped'
  <2>1. UNCHANGED <<repo, state>>
    BY Zenon DEF CopyAgent, CopyFails, DeployEnds, Interrupt
  <2>2. QED
    BY <2>1 DEF DeployTyped, RepoTyped, StateTyped, repo, state
<1>2. CASE CopyAgent
  <2>1. dep' = [dep EXCEPT !.left = dep.left - 1] /\ dep.left > 0 /\ dep \in Deploys
    BY <1>2, Zenon DEF CopyAgent, DeployTyped, DepTyped
  <2>2. dep.left - 1 \in 0..4
    BY <2>1 DEF Deploys
  <2>3. dep' \in Deploys /\ dep'.at = dep.at /\ dep'.to = dep.to /\ dep'.snap = dep.snap
    BY <2>1, <2>2 DEF Deploys
  <2>4. HubTyped'
    BY <1>2, PubType DEF CopyAgent, DeployTyped, HubTyped
  <2>5. DepInv' /\ CountsTyped'
    BY <1>2, <2>3 DEF CopyAgent, DeployTyped, DepTyped, DepInv, CountsTyped, state
  <2>6. QED
    BY <1>1, <2>3, <2>4, <2>5 DEF DeployTyped, DepTyped
<1>3. CASE CopyFails
  <2>1. UNCHANGED hub /\ ops' = ops /\ trouble' = trouble + 1
    BY <1>3 DEF CopyFails
  <2>2. HubTyped' /\ CountsTyped'
    BY <2>1 DEF DeployTyped, HubTyped, hub, CountsTyped
  <2>3. CASE dep.snap = NoCopy
    <3>1. Ends
      BY <1>3, <2>3 DEF CopyFails, Ends
    <3>2. dep' \in Deploys /\ dep'.at = "off"
      BY <3>1, EndsType
    <3>3. QED
      BY <1>1, <2>2, <3>2 DEF DeployTyped, DepTyped, DepInv, Forward, Back, Installs
  <2>4. CASE dep.snap # NoCopy
    <3>1. dep' = [dep EXCEPT !.at = "undo", !.left = 4] /\ dep.at = "agent"
      BY <1>3, <2>4 DEF CopyFails, Running
    <3>2. dep \in Deploys /\ dep.snap \in Copy /\ dep.to \in Commit
      BY <2>4, <3>1 DEF DeployTyped, DepTyped, Deploys, DepInv
    <3>3. dep' \in Deploys /\ dep'.at = "undo" /\ dep'.to = dep.to /\ dep'.snap = dep.snap
      <4>1. Loads("undo", dep.snap)
        BY <3>1 DEF Loads
      <4>2. QED
        BY <3>2, <4>1, LoadType
    <3>4. QED
      BY <1>1, <2>2, <3>2, <3>3 DEF DeployTyped, DepTyped, DepInv, Forward, Back, Installs
  <2>5. QED
    BY <2>3, <2>4
<1>4. CASE DeployEnds \/ Interrupt
  <2>1. dep' \in Deploys /\ dep'.at = "off"
    BY <1>4, EndsType DEF DeployEnds, Interrupt
  <2>2. HubTyped' /\ CountsTyped'
    BY <1>4 DEF DeployEnds, Interrupt, DeployTyped, HubTyped, hub, CountsTyped
  <2>3. QED
    BY <1>1, <2>1, <2>2 DEF DeployTyped, DepTyped, DepInv, Forward, Back, Installs
<1>5. QED
  BY <1>2, <1>3, <1>4

LEMMA BackStepTyped ==
    ASSUME DeployTyped,
           \/ RollbackStart \/ BackCopied \/ BackRestart \/ BackHealthy \/ BackRecord
           \/ BackStops \/ Kill
    PROVE  DeployTyped'
<1> USE DEF DeployTyped, HubTyped, StateTyped, DepTyped, CountsTyped, Running
<1>1. RepoTyped'
  <2>1. UNCHANGED repo
    BY Zenon DEF RollbackStart, BackCopied, BackRestart, BackHealthy, BackRecord,
                 BackStops, Kill
  <2>2. QED
    BY <2>1 DEF RepoTyped, repo
<1>2. CASE RollbackStart
  <2>1. /\ dep' = [dep EXCEPT !.at = "back", !.snap = roll] /\ roll \in Copy
        /\ srv' = Mix /\ ops' = ops + 1
        /\ UNCHANGED <<live, pub, proved, state, trouble>>
    BY <1>2 DEF RollbackStart
  <2>2. dep' \in Deploys /\ dep'.at = "back" /\ dep'.snap = roll
    BY <2>1 DEF Deploys
  <2>3. QED
    BY <1>1, <2>1, <2>2 DEF DepInv, Forward, Back, Installs, state
<1>3. CASE BackCopied
  <2>1. dep' \in Deploys /\ dep'.at = "backcopied" /\ dep'.to = dep.to /\ dep'.snap = dep.snap
    BY <1>3, GoesType DEF BackCopied
  <2>2. srv' \in Code \cup {Mix}
    BY <1>3 DEF BackCopied, Copy, NoCopy
  <2>3. QED
    BY <1>1, <1>3, <2>1, <2>2 DEF BackCopied, DepInv, Forward, Back, Installs, state
<1>4. CASE BackRestart
  <2>1. dep' \in Deploys /\ dep'.at = "backrestarted" /\ dep'.to = dep.to /\ dep'.snap = dep.snap
    BY <1>4, GoesType DEF BackRestart
  <2>2. QED
    BY <1>1, <1>4, <2>1 DEF BackRestart, Restarted, DepInv, Forward, Back, Installs, state, Mix, Down
<1>5. CASE BackHealthy
  <2>1. dep.snap \in Copy /\ srv \in Code
    BY <1>5 DEF BackHealthy, DepInv, Back
  <2>2. dep' \in Deploys /\ dep'.at = "backagent" /\ dep'.to = dep.to /\ dep'.snap = dep.snap
    <3>1. Loads("backagent", dep.snap)
      BY <1>5 DEF BackHealthy, Loads
    <3>2. QED
      BY <2>1, <3>1, LoadType
  <2>3. QED
    BY <1>1, <1>5, <2>1, <2>2 DEF BackHealthy, DepInv, Forward, Back, Installs, state
<1>6. CASE BackRecord
  <2>1. dep' \in Deploys /\ dep'.at = "off"
    BY <1>6, EndsType DEF BackRecord
  <2>2. roll.commit \in Commit \cup {Unknown} /\ roll.sure \in BOOLEAN
    <3>1. CASE roll \in Copy
      BY <3>1 DEF Copy
    <3>2. CASE roll = NoCopy
      BY <3>2 DEF NoCopy
    <3>3. QED
      BY <3>1, <3>2
  <2>3. QED
    BY <1>1, <1>6, <2>1, <2>2 DEF BackRecord, DepInv, Forward, Back, Installs, hub
<1>7. CASE BackStops \/ Kill
  <2>1. dep' \in Deploys /\ dep'.at = "off"
    BY <1>7, EndsType DEF BackStops, Kill
  <2>2. /\ UNCHANGED hub /\ sure' \in BOOLEAN /\ trouble' = trouble + 1
        /\ UNCHANGED <<current, roll, ops>>
    BY <1>7 DEF BackStops, Kill
  <2>3. QED
    BY <1>1, <2>1, <2>2 DEF DepInv, Forward, Back, Installs, hub
<1>8. QED
  BY <1>2, <1>3, <1>4, <1>5, <1>6, <1>7

UpgradeSteps == UpgradeStart \/ ServerInstalled \/ Installed \/ RecordInstall \/ UpgradeStops

LEMMA UpgradeTyped ==
    ASSUME DeployTyped, UpgradeSteps
    PROVE  DeployTyped'
<1> USE DEF DeployTyped, HubTyped, StateTyped, DepTyped, CountsTyped, Running
<1>1. RepoTyped'
  <2>1. UNCHANGED repo
    BY Zenon DEF UpgradeSteps, UpgradeStart, ServerInstalled, Installed, RecordInstall, UpgradeStops
  <2>2. QED
    BY <2>1 DEF RepoTyped, repo
<1>2. CASE UpgradeStart
  <2>1. /\ dep' = [dep EXCEPT !.at = "install", !.to = checkout] /\ checkout \in Commit
        /\ srv' = Mix /\ sure' = FALSE /\ proved' = proved \cup {checkout.code} /\ ops' = ops + 1
        /\ UNCHANGED <<live, pub, current, roll, trouble>>
    BY <1>2 DEF UpgradeStart, RepoTyped
  <2>2. dep' \in Deploys /\ dep'.at = "install" /\ dep'.to \in Commit /\ checkout.code \in Code
    BY <2>1 DEF Deploys, Commit
  <2>3. DepTyped' /\ CountsTyped'
    BY <2>1, <2>2 DEF DepInv, Forward, Back, Installs
  <2>4. HubTyped' /\ StateTyped'
    BY <2>1, <2>2 DEF Mix
  <2>5. QED
    BY <1>1, <2>3, <2>4
<1>3. CASE ServerInstalled
  <2>1. dep' \in Deploys /\ dep'.at = "installagent" /\ dep'.to = dep.to
    <3>1. Loads("installagent", dep.snap) /\ dep.snap \in Copy \cup {NoCopy}
      BY <1>3 DEF ServerInstalled, Loads, Deploys
    <3>2. QED
      BY <3>1, LoadType
  <2>2. dep.to \in Commit /\ srv' = dep.to.code
    BY <1>3 DEF ServerInstalled, DepInv, Installs
  <2>3. QED
    BY <1>1, <1>3, <2>1, <2>2 DEF ServerInstalled, DepInv, Forward, Back, Installs, Commit, state
<1>4. CASE Installed
  <2>1. dep' \in Deploys /\ dep'.at = "installed" /\ dep'.to = dep.to
    BY <1>4, GoesType DEF Installed
  <2>2. QED
    BY <1>1, <1>4, <2>1 DEF Installed, Restarted, DepInv, Forward, Back, Installs, state, Mix, Down
<1>5. CASE RecordInstall \/ UpgradeStops
  <2>1. dep' \in Deploys /\ dep'.at = "off"
    BY <1>5, EndsType DEF RecordInstall, UpgradeStops
  <2>2. /\ current' \in Commit \cup {Unknown} /\ sure' \in BOOLEAN
        /\ UNCHANGED <<hub, roll, ops, trouble>>
    BY <1>5 DEF RecordInstall, UpgradeStops, DepInv, Installs, state
  <2>3. QED
    BY <1>1, <2>1, <2>2 DEF DepInv, Forward, Back, Installs, hub
<1>6. QED
  BY <1>2, <1>3, <1>4, <1>5 DEF UpgradeSteps

-----------------------------------------------------------------------------
(* The host.                                                               *)

LEMMA CompanionType ==
    ASSUME NEW u \in Updates, Companion(u)
    PROVE  upd' \in Updates
<1> DEFINE want == u.offer.want["avm"]
<1>1. want \in Bodies \cup {None}
  BY DEF Updates, Sigs, Names
<1>2. NoOffer \in [want : Sigs, sig : Sigs]
  BY UnknownType DEF NoOffer
<1>3. \/ upd' = [u EXCEPT !.at = "companion", !.tried = want]
      \/ upd' = [u EXCEPT !.at = "idle", !.offer = NoOffer]
  BY DEF Companion
<1> HIDE DEF want
<1>4. QED
  BY <1>1, <1>2, <1>3 DEF Updates

LEMMA AfterCompanionType ==
    ASSUME upd \in Updates, AfterCompanion
    PROVE  upd' \in Updates
<1>1. NoOffer \in [want : Sigs, sig : Sigs]
  BY UnknownType DEF NoOffer
<1>2. \/ upd' = [upd EXCEPT !.at = "respawn"]
      \/ upd' = [upd EXCEPT !.at = "idle", !.offer = NoOffer]
  BY DEF AfterCompanion
<1>3. QED
  BY <1>1, <1>2 DEF Updates

LEMMA RestTyped ==
    ASSUME DeployTyped, Rest, Trouble \/ Calm
    PROVE  DeployTyped'
<1>1. UNCHANGED <<repo, hub, state, dep, ops>> /\ trouble' \in {trouble, trouble + 1}
  BY DEF Rest, Trouble, Calm
<1>2. QED
  BY <1>1 DEF DeployTyped, RepoTyped, HubTyped, StateTyped, DepTyped, DepInv, CountsTyped,
              repo, hub, state

HostSteps == AgentStep \/ NoReply \/ InstallFails \/ RefreshFails \/ RespawnFails \/ Crash \/ Expire

\* The offer with one more hash, or one more signature, in it.
Hashed(o, n)  == [o EXCEPT !.want = [o.want EXCEPT ![n] = HubHashes[n]]]
WithSig(o, n) == [o EXCEPT !.sig = [o.sig EXCEPT ![n] = HubSigs[n]]]

LEMMA ReadsOne ==
    ASSUME upd \in Updates, Report \/ Read
    PROVE  \E at \in {"reading", "offered"}, left \in 0..3, n \in Names :
             \/ upd' = [upd EXCEPT !.at = at, !.left = left, !.offer = Hashed(upd.offer, n)]
             \/ upd' = [upd EXCEPT !.at = at, !.left = left, !.offer = WithSig(upd.offer, n)]
<1>1. /\ "agent" \in Names /\ "avm" \in Names
      /\ 0 \in 0..3 /\ 1 \in 0..3 /\ 2 \in 0..3 /\ 3 \in 0..3
      /\ "reading" \in {"reading", "offered"} /\ "offered" \in {"reading", "offered"}
  BY DEF Names
<1>2. CASE Report
  <2>1. upd' = [upd EXCEPT !.at = "reading", !.left = 3, !.offer = Hashed(upd.offer, "agent")]
    BY <1>2, Zenon DEF Report, Hashed
  <2>2. QED
    BY <1>1, <2>1, Zenon
<1>3. CASE Read /\ upd.left = 3
  <2>1. upd' = [upd EXCEPT !.left = 2, !.offer = Hashed(upd.offer, "avm")] /\ upd.at = "reading"
    BY <1>3 DEF Read, Hashed
  <2>2. upd' = [upd EXCEPT !.at = "reading", !.left = 2, !.offer = Hashed(upd.offer, "avm")]
    BY <2>1 DEF Updates
  <2>3. QED
    BY <1>1, <2>2, Zenon
<1>4. CASE Read /\ upd.left = 2
  <2>1. upd' = [upd EXCEPT !.left = 1, !.offer = WithSig(upd.offer, "agent")] /\ upd.at = "reading"
    BY <1>4 DEF Read, WithSig
  <2>2. upd' = [upd EXCEPT !.at = "reading", !.left = 1, !.offer = WithSig(upd.offer, "agent")]
    BY <2>1 DEF Updates
  <2>3. QED
    BY <1>1, <2>2, Zenon
<1>5. CASE Read /\ upd.left # 3 /\ upd.left # 2
  <2>1. upd' = [upd EXCEPT !.left = 0, !.offer = WithSig(upd.offer, "avm"), !.at = "offered"]
    BY <1>5 DEF Read, WithSig
  <2>2. upd' = [upd EXCEPT !.at = "offered", !.left = 0, !.offer = WithSig(upd.offer, "avm")]
    BY <2>1 DEF Updates
  <2>3. QED
    BY <1>1, <2>2, Zenon
<1>6. QED
  BY <1>2, <1>3, <1>4, <1>5

LEMMA HostStepTyped ==
    ASSUME Typed, HostSteps
    PROVE  Typed'
<1>1. DeployTyped /\ disk \in [Names -> Bodies] /\ run \in Bodies /\ upd \in Updates
  BY TypedParts
<1>2. DeployTyped'
  <2>1. Rest /\ (Trouble \/ Calm)
    BY Zenon DEF HostSteps, AgentStep, Report, Read, Decide, Install, Refuse, Refresh, Respawn,
       NoReply, InstallFails, RefreshFails, RespawnFails, Crash, Expire, Fails
  <2>2. QED
    BY <1>1, <2>1, RestTyped
<1>3. pub.body \in [Names -> Bodies] /\ pub.body \in Sigs /\ pub.sig \in Sigs
  BY <1>1 DEF DeployTyped, HubTyped, Sigs
<1>4. \A n \in Names : Served(n) \in Bodies
  BY <1>3 DEF Served
<1>5. "agent" \in Names /\ "avm" \in Names
  BY DEF Names
<1>6. Started \in Updates /\ NoOffer \in [want : Sigs, sig : Sigs]
  BY UnknownType DEF Started, NoOffer, Updates
<1>7. (disk \in [Names -> Bodies])' /\ (run \in Bodies)'
  BY <1>1, <1>4, <1>5 DEF HostSteps, AgentStep, Report, Read, Decide, Install, Refuse, Refresh,
       Respawn, NoReply, InstallFails, RefreshFails, RespawnFails, Crash, Expire
<1>8. (upd \in Updates)'
  <2>1. CASE Report \/ Read
    <3>1. PICK at \in {"reading", "offered"}, left \in 0..3, n \in Names :
            \/ upd' = [upd EXCEPT !.at = at, !.left = left, !.offer = Hashed(upd.offer, n)]
            \/ upd' = [upd EXCEPT !.at = at, !.left = left, !.offer = WithSig(upd.offer, n)]
      BY <1>1, <2>1, ReadsOne
    <3>2. /\ Hashed(upd.offer, n) \in [want : Sigs, sig : Sigs]
          /\ WithSig(upd.offer, n) \in [want : Sigs, sig : Sigs]
      BY <1>1, <1>3 DEF Hashed, WithSig, HubHashes, HubSigs, Updates, Sigs
    <3>3. QED
      BY <1>1, <3>1, <3>2 DEF Updates
  <2>2. CASE NoReply \/ RespawnFails
    <3>1. \/ upd' = [upd EXCEPT !.at = "idle", !.left = 0, !.offer = NoOffer]
          \/ upd' = [upd EXCEPT !.at = "idle", !.offer = NoOffer, !.err = TRUE]
      BY <2>2 DEF NoReply, RespawnFails
    <3>2. CASE upd' = [upd EXCEPT !.at = "idle", !.left = 0, !.offer = NoOffer]
      <4>1. upd' = [at |-> "idle", offer |-> NoOffer, left |-> 0, backoff |-> upd.backoff,
                    tried |-> upd.tried, err |-> upd.err]
        BY <1>1, <3>2 DEF Updates
      <4>2. upd.backoff \in BOOLEAN /\ upd.err \in BOOLEAN /\ upd.tried \in Bodies \cup {None}
        BY <1>1 DEF Updates
      <4>3. QED
        BY <1>6, <4>1, <4>2 DEF Updates
    <3>3. CASE upd' = [upd EXCEPT !.at = "idle", !.offer = NoOffer, !.err = TRUE]
      BY <1>1, <1>6, <3>3 DEF Updates
    <3>4. QED
      BY <3>1, <3>2, <3>3
  <2>3. CASE Decide
    <3>1. CASE Companion(upd)
      BY <1>1, <3>1, CompanionType
    <3>2. CASE upd' = [upd EXCEPT !.at = "fetching", !.backoff = TRUE]
      BY <1>1, <3>2 DEF Updates
    <3>3. QED
      BY <2>3, <3>1, <3>2 DEF Decide
  <2>4. CASE Install
    BY <1>1, <2>4 DEF Install, Updates
  <2>5. CASE Refuse \/ InstallFails
    <3>1. [upd EXCEPT !.err = TRUE] \in Updates
      BY <1>1 DEF Updates
    <3>2. Companion([upd EXCEPT !.err = TRUE])
      BY <2>5 DEF Refuse, InstallFails, Failed
    <3>3. QED
      BY <3>1, <3>2, CompanionType
  <2>6. CASE Refresh \/ RefreshFails
    BY <1>1, <2>6, AfterCompanionType DEF Refresh, RefreshFails
  <2>7. CASE Respawn \/ Crash
    BY <1>6, <2>7 DEF Respawn, Crash
  <2>8. CASE Expire
    BY <1>1, <2>8 DEF Expire, Updates
  <2>9. QED
    BY <2>1, <2>2, <2>3, <2>4, <2>5, <2>6, <2>7, <2>8 DEF HostSteps, AgentStep
<1>9. QED
  BY <1>2, <1>7, <1>8, TypedParts

LEMMA StepTyped ==
    ASSUME Typed, [Next]_vars
    PROVE  Typed'
<1>1. DeployTyped /\ disk \in [Names -> Bodies] /\ run \in Bodies /\ upd \in Updates
  BY TypedParts
<1>2. CASE DeployNext /\ UNCHANGED <<disk, run, upd>>
  <2>1. DeployTyped'
    BY <1>1, <1>2, RepoStepTyped, DeployStepTyped, AgentStepTyped, BackStepTyped, UpgradeTyped, Zenon
       DEF DeployNext, UpgradeSteps
  <2>2. QED
    BY <1>1, <1>2, <2>1, TypedParts
<1>3. CASE HostSteps
  BY <1>3, HostStepTyped
<1>4. CASE UNCHANGED vars
  <2>1. UNCHANGED <<repo, hub, state, dep, ops, trouble, disk, run, upd>>
    BY <1>4 DEF vars, deployVars
  <2>2. DeployTyped'
    BY <1>1, <2>1 DEF DeployTyped, RepoTyped, HubTyped, StateTyped, DepTyped, DepInv, CountsTyped,
                      repo, hub, state
  <2>3. QED
    BY <1>1, <2>1, <2>2, TypedParts
<1>5. QED
  BY <1>2, <1>3, <1>4 DEF Next, HostSteps

\* Every variable of the release and of the host keeps its type, and a deploy
\* that may have to put something back has a copy of it: TypeOK of SelfUpdate.
THEOREM TypeCorrect == Spec => []TypeOK
<1>1. Init => Typed
  BY InitTyped
<1>2. Typed /\ [Next]_vars => Typed'
  BY StepTyped
<1>3. Typed => TypeOK
  BY DEF Typed
<1>4. QED
  BY <1>1, <1>2, <1>3, PTL DEF Spec

-----------------------------------------------------------------------------
(* Versions only rise on a host: the script on disk is never older than    *)
(* the process, so that whatever restarts the process makes it no older.   *)

VersionInv == ~AllowDowngrade => Version[disk["agent"]] >= Version[run]
NotBack == ~AllowDowngrade => /\ Version[run'] >= Version[run]
                              /\ Version[disk'["avm"]] >= Version[disk["avm"]]

LEMMA VersionType == \A b \in Bodies : Version[b] \in Nat
BY DeployAssumption

LEMMA AcceptableNotOlder ==
    ASSUME NEW b \in Bodies, NEW installed \in Bodies, NEW sig,
           Acceptable(b, sig, installed), ~AllowDowngrade
    PROVE  Version[b] >= Version[installed]
BY VersionType DEF Acceptable, Older

LEMMA VersionStep ==
    ASSUME Typed, VersionInv, [Next]_vars
    PROVE  VersionInv' /\ NotBack
<1> SUFFICES ASSUME ~AllowDowngrade
             PROVE  /\ Version[disk'["agent"]] >= Version[run']
                    /\ Version[run'] >= Version[run]
                    /\ Version[disk'["avm"]] >= Version[disk["avm"]]
  BY DEF VersionInv, NotBack
<1>1. /\ disk \in [Names -> Bodies] /\ run \in Bodies
      /\ pub.body \in [Names -> Bodies] /\ "agent" \in Names /\ "avm" \in Names
  BY DEF Typed, TypeOK, DeployTypeOK, Names
<1>2. /\ Version[disk["agent"]] \in Nat /\ Version[disk["avm"]] \in Nat /\ Version[run] \in Nat
      /\ Version[disk["agent"]] >= Version[run]
  BY <1>1, VersionType DEF VersionInv
<1>3. CASE UNCHANGED <<disk, run>>
  BY <1>2, <1>3
<1>4. CASE Install
  <2>1. PICK b \in Bodies : /\ Acceptable(b, upd.offer.sig["agent"], run)
                            /\ disk' = [disk EXCEPT !["agent"] = b] /\ run' = run
    BY <1>1, <1>4 DEF Install, Served
  <2>2. Version[b] >= Version[run]
    BY <1>1, <2>1, AcceptableNotOlder
  <2>3. disk'["agent"] = b /\ disk'["avm"] = disk["avm"]
    BY <1>1, <2>1
  <2>4. QED
    BY <1>2, <2>1, <2>2, <2>3
<1>5. CASE Refresh /\ disk' # disk
  <2>1. PICK b \in Bodies : /\ Acceptable(b, upd.offer.sig["avm"], disk["avm"])
                            /\ disk' = [disk EXCEPT !["avm"] = b] /\ run' = run
    BY <1>1, <1>5 DEF Refresh, Served
  <2>2. Version[b] >= Version[disk["avm"]]
    BY <1>1, <2>1, AcceptableNotOlder
  <2>3. disk'["avm"] = b /\ disk'["agent"] = disk["agent"]
    BY <1>1, <2>1
  <2>4. QED
    BY <1>2, <2>1, <2>2, <2>3
<1>6. CASE Respawn \/ Crash
  <2>1. run' = disk["agent"] /\ disk' = disk
    BY <1>6 DEF Respawn, Crash
  <2>2. QED
    BY <1>2, <2>1
<1>7. CASE Refresh /\ disk' = disk
  BY <1>2, <1>7 DEF Refresh
<1>8. UNCHANGED <<disk, run>> \/ Install \/ Refresh \/ Respawn \/ Crash
  <2>1. CASE UNCHANGED vars
    BY <2>1 DEF vars
  <2>2. CASE DeployNext /\ UNCHANGED <<disk, run, upd>>
    BY <2>2
  <2>3. CASE HostSteps
    BY <2>3 DEF HostSteps, AgentStep, Report, Read, Decide, Refuse, NoReply, InstallFails,
                RefreshFails, RespawnFails, Expire
  <2>4. QED
    BY <2>1, <2>2, <2>3 DEF Next, HostSteps
<1>9. QED
  BY <1>3, <1>4, <1>5, <1>6, <1>7, <1>8

\* A host never goes back: unless AVM_ALLOW_DOWNGRADE is set, no step makes
\* the agent that runs older, nor replaces avm.py by an older one, for every
\* history of versions and however deploys, rollbacks, downloads and failed
\* restarts fall together (signature_ok, self_update, _refresh_companion).
THEOREM VersionsRise == Spec => NeverBack
<1> DEFINE Inv == Typed /\ VersionInv
<1>1. Init => Inv
  <2>1. Init => VersionInv
    <3> SUFFICES ASSUME Init PROVE VersionInv
      OBVIOUS
    <3>1. disk["agent"] = run /\ run \in Bodies
      BY InitTyped DEF Init, Typed, TypeOK
    <3>2. QED
      BY <3>1, VersionType DEF VersionInv
  <2>2. QED
    BY <2>1, InitTyped
<1>2. Inv /\ [Next]_vars => Inv' /\ [NotBack]_vars
  BY StepTyped, VersionStep
<1>3. QED
  <2>1. Spec => [][NotBack]_vars
    BY <1>1, <1>2, PTL DEF Spec
  <2>2. QED
    BY <2>1 DEF NeverBack, NotBack

-----------------------------------------------------------------------------
(* Signatures are the release key's, and what is served was on a healthy   *)
(* hub.                                                                    *)

Genuine(sig, S) == \A n \in Names : sig[n] \in S \cup {None}
Tried(body, P)  == \A n \in Names : \E c \in P : body[n] = Body[c][n]

RepoInv == Genuine(checkout.sig, signed) /\ \A c \in main : Genuine(c.sig, signed)
PubInv  == Genuine(pub.sig, signed) /\ Tried(pub.body, proved)
RollInv == Genuine(roll.sig, signed) /\ (roll # NoCopy => Tried(roll.body, proved))
DepRel  ==
    /\ Genuine(dep.to.sig, signed) /\ Genuine(dep.snap.sig, signed)
    /\ dep.snap # NoCopy => Tried(dep.snap.body, proved)
    /\ dep.at \in {"healthy", "recorded", "shelved", "agent"} \cup Installs => dep.to.code \in proved
HostInv == Genuine(upd.offer.sig, signed) /\ OnlyReleases

ReleaseInv == RepoInv /\ PubInv /\ RollInv /\ DepRel /\ HostInv

LEMMA Grows ==
    ASSUME NEW S, NEW T, S \subseteq T
    PROVE  /\ \A sig : Genuine(sig, S) => Genuine(sig, T)
           /\ \A body : Tried(body, S) => Tried(body, T)
BY DEF Genuine, Tried

LEMMA NothingIsGenuine == \A S : Genuine(Unsigned, S) /\ Genuine(Unknown.sig, S) /\ Genuine(NoCopy.sig, S)
BY DEF Genuine, Unsigned, Unknown, NoCopy, None, Names

LEMMA Kept ==
    ASSUME ReleaseInv, signed \subseteq signed', proved \subseteq proved'
    PROVE  /\ UNCHANGED <<checkout, main>> => RepoInv'
           /\ UNCHANGED pub => PubInv'
           /\ UNCHANGED roll => RollInv'
           /\ UNCHANGED dep => DepRel'
           /\ UNCHANGED <<disk, run, upd>> => HostInv'
<1>1. UNCHANGED <<checkout, main>> => RepoInv'
  BY Grows DEF ReleaseInv, RepoInv
<1>2. UNCHANGED pub => PubInv'
  BY Grows DEF ReleaseInv, PubInv
<1>3. UNCHANGED roll => RollInv'
  BY Grows DEF ReleaseInv, RollInv
<1>4. UNCHANGED dep => DepRel'
  BY Grows DEF ReleaseInv, DepRel
<1>5. UNCHANGED <<disk, run, upd>> => HostInv'
  BY Grows DEF ReleaseInv, HostInv, OnlyReleases
<1>6. QED
  BY <1>1, <1>2, <1>3, <1>4, <1>5

\* A deploy that ends has nothing to put back; one that goes on deploys the
\* same and would put back the same.
LEMMA DepMoves ==
    ASSUME ReleaseInv, signed \subseteq signed', proved \subseteq proved'
    PROVE  /\ Ends => DepRel'
           /\ \A at : /\ dep \in Deploys /\ Goes(at)
                      /\ at \in {"healthy", "recorded", "shelved", "installed"} => dep.to.code \in proved'
                      /\ at \in {"copying", "copied", "restarted", "healthy", "recorded", "shelved",
                                "backcopied", "backrestarted", "installed"}
                      => DepRel'
<1>1. ASSUME Ends PROVE DepRel'
  BY <1>1, NothingIsGenuine DEF Ends, Resting, DepRel, Installs
<1>2. ASSUME NEW at, dep \in Deploys, Goes(at),
             at \in {"healthy", "recorded", "shelved", "installed"} => dep.to.code \in proved',
             at \in {"copying", "copied", "restarted", "healthy", "recorded", "shelved",
                    "backcopied", "backrestarted", "installed"}
      PROVE  DepRel'
  <2>1. dep'.at = at /\ dep'.to = dep.to /\ dep'.snap = dep.snap
    BY <1>2, GoesType
  <2>2. at \notin {"agent", "install", "installagent"}
    BY <1>2
  <2>3. QED
    BY <1>2, <2>1, <2>2, Grows DEF ReleaseInv, DepRel, Installs
<1>3. QED
  BY <1>1, <1>2

LEMMA RepoStepRelease ==
    ASSUME Typed, ReleaseInv,
           \/ Edit \/ Push \/ SignStart \/ Passphrase \/ SignStop
           \/ \E n \in Names : SignFile(n),
           UNCHANGED <<disk, run, upd>>
    PROVE  ReleaseInv'
<1>1. /\ signed \subseteq signed' /\ proved \subseteq proved'
      /\ UNCHANGED <<pub, roll, dep>>
  BY DEF Edit, Push, SignStart, Passphrase, SignStop, SignFile, hub, state
<1>2. RepoInv'
  <2>1. CASE Edit
    <3>1. checkout'.sig = checkout.sig /\ main' = main
      BY <2>1 DEF Edit, Typed, TypeOK, DeployTypeOK, Commit
    <3>2. QED
      BY <1>1, <3>1, Grows DEF ReleaseInv, RepoInv
  <2>2. CASE Push
    <3>1. main' = main \cup {checkout} /\ checkout' = checkout
      BY <2>2 DEF Push
    <3>2. QED
      BY <1>1, <3>1, Grows DEF ReleaseInv, RepoInv
  <2>3. CASE SignStart \/ Passphrase \/ SignStop
    BY <1>1, <2>3, Kept DEF SignStart, Passphrase, SignStop
  <2>4. ASSUME NEW n \in Names, SignFile(n)
        PROVE  RepoInv'
    <3> DEFINE b == Committed(signer)[n]
    <3>1. checkout \in Commit /\ checkout.sig \in Sigs
      BY DEF Typed, TypeOK, DeployTypeOK, Commit
    <3>2. checkout' = [checkout EXCEPT !.sig = [checkout.sig EXCEPT ![n] = b]]
      BY <2>4, Zenon DEF SignFile
    <3>3. signed' = signed \cup {b} /\ main' = main
      BY <2>4 DEF SignFile
    <3> HIDE DEF b
    <3>4. checkout'.sig = [checkout.sig EXCEPT ![n] = b]
      BY <3>1, <3>2 DEF Commit
    <3>5. Genuine(checkout'.sig, signed')
      BY <3>1, <3>3, <3>4 DEF ReleaseInv, RepoInv, Genuine, Sigs
    <3>6. QED
      BY <1>1, <3>3, <3>5, Grows DEF ReleaseInv, RepoInv
  <2>5. QED
    BY <2>1, <2>2, <2>3, <2>4
<1>3. QED
  BY <1>1, <1>2, Kept DEF ReleaseInv

LEMMA DeployStepRelease ==
    ASSUME Typed, ReleaseInv,
           \/ DeployStart \/ PutServer \/ PutDone \/ Undone \/ Restart \/ Healthy \/ TakeBack
           \/ Record \/ Shelve \/ Promote,
           UNCHANGED <<disk, run, upd>>
    PROVE  ReleaseInv'
<1>1. /\ signed \subseteq signed' /\ proved \subseteq proved'
      /\ UNCHANGED <<checkout, main, pub>>
  <2>1. UNCHANGED repo
    BY Zenon DEF DeployStart, PutServer, PutDone, Undone, Restart, Healthy, TakeBack, Record,
                 Shelve, Promote
  <2>2. CASE UNCHANGED hub
    BY <2>1, <2>2 DEF repo, hub
  <2>3. CASE ~(DeployStart \/ Record \/ Shelve \/ Promote)
    BY <2>1, <2>3 DEF PutServer, PutDone, Undone, Restart, Healthy, TakeBack, repo
  <2>4. DeployStart \/ Record \/ Shelve \/ Promote => UNCHANGED hub
    BY Zenon DEF DeployStart, Record, Shelve, Promote
  <2>5. QED
    BY <2>2, <2>3, <2>4
<1>2. RepoInv' /\ PubInv' /\ HostInv'
  BY <1>1, Kept
<1>3. dep \in Deploys /\ pub.body \in [Names -> Bodies]
  BY DEF Typed, TypeOK, DeployTypeOK
<1>4. CASE DeployStart
  <2>1. PICK c \in main, same \in BOOLEAN :
          dep' = [dep EXCEPT !.at = "snapped", !.to = c, !.redo = same /\ current = c,
                    !.snap = [commit |-> current, for |-> c, srv |-> srv,
                              body |-> pub.body, sig |-> pub.sig, sure |-> sure]]
    BY <1>4, Zenon DEF DeployStart, OnMain
  <2>2. /\ dep'.at = "snapped" /\ dep'.to = c
        /\ dep'.snap.body = pub.body /\ dep'.snap.sig = pub.sig
    BY <1>3, <2>1 DEF Deploys
  <2>3. Genuine(c.sig, signed) /\ Genuine(pub.sig, signed) /\ Tried(pub.body, proved)
    BY DEF ReleaseInv, RepoInv, PubInv
  <2>4. DepRel'
    BY <1>1, <2>2, <2>3, Grows DEF DepRel, Installs
  <2>5. UNCHANGED roll
    <3>1. UNCHANGED state
      BY <1>4, Zenon DEF DeployStart
    <3>2. QED
      BY <3>1 DEF state
  <2>6. QED
    BY <1>1, <1>2, <2>4, <2>5, Kept DEF ReleaseInv
<1>5. CASE PutServer \/ PutDone \/ Restart
  <2>1. DepRel'
    BY <1>1, <1>3, <1>5, DepMoves DEF PutServer, PutDone, Restart
  <2>2. UNCHANGED roll
    BY <1>5 DEF PutServer, PutDone, Restart, state
  <2>3. QED
    BY <1>1, <1>2, <2>1, <2>2, Kept DEF ReleaseInv
<1>6. CASE Undone \/ TakeBack
  <2>1. DepRel'
    BY <1>1, <1>6, DepMoves DEF Undone, TakeBack
  <2>2. UNCHANGED roll
    BY <1>6 DEF Undone, TakeBack, state
  <2>3. QED
    BY <1>1, <1>2, <2>1, <2>2, Kept DEF ReleaseInv
<1>7. CASE Healthy
  <2>1. srv = dep.to.code /\ proved' = proved \cup {srv} /\ Goes("healthy") /\ UNCHANGED roll
    BY <1>7 DEF Healthy, Running, Typed, DepInv, state
  <2>2. DepRel'
    BY <1>1, <1>3, <2>1, DepMoves
  <2>3. QED
    BY <1>1, <1>2, <2>1, <2>2, Kept DEF ReleaseInv
<1>8. CASE Record
  <2>1. dep.to.code \in proved' /\ Goes("recorded") /\ UNCHANGED roll
    BY <1>1, <1>8 DEF Record, Running, ReleaseInv, DepRel
  <2>2. DepRel'
    BY <1>1, <1>3, <2>1, DepMoves
  <2>3. QED
    BY <1>1, <1>2, <2>1, <2>2, Kept DEF ReleaseInv
<1>9. CASE Shelve
  <2>1. dep.to.code \in proved'
    BY <1>1, <1>9 DEF Shelve, Running, ReleaseInv, DepRel
  <2>2. CASE dep.redo
    <3>1. Loads("agent", roll) /\ roll' = roll
      BY <1>9, <2>2 DEF Shelve, Loads
    <3>2. dep'.at = "agent" /\ dep'.to = dep.to /\ dep'.snap = roll
      <4>1. roll \in Copy \cup {NoCopy}
        BY DEF Typed, TypeOK, DeployTypeOK
      <4>2. QED
        BY <1>3, <3>1, <4>1, LoadType
    <3>3. DepRel'
      BY <1>1, <2>1, <3>2, Grows DEF ReleaseInv, RollInv, DepRel
    <3>4. QED
      BY <1>1, <1>2, <3>1, <3>3, Kept DEF ReleaseInv
  <2>3. CASE ~dep.redo
    <3>1. Goes("shelved") /\ roll' = NoCopy
      BY <1>9, <2>3 DEF Shelve
    <3>2. DepRel'
      BY <1>1, <1>3, <2>1, <3>1, DepMoves
    <3>3. RollInv'
      BY <3>1, NothingIsGenuine DEF RollInv
    <3>4. QED
      BY <1>2, <3>2, <3>3 DEF ReleaseInv
  <2>4. QED
    BY <2>2, <2>3
<1>10. CASE Promote
  <2>1. Loads("agent", dep.snap) /\ roll' = dep.snap /\ dep.snap \in Copy \cup {NoCopy}
    BY <1>3, <1>10 DEF Promote, Loads, Deploys
  <2>2. dep'.at = "agent" /\ dep'.to = dep.to /\ dep'.snap = dep.snap
    BY <1>3, <2>1, LoadType
  <2>3. dep.to.code \in proved'
    BY <1>1, <1>10 DEF Promote, Running, ReleaseInv, DepRel
  <2>4. DepRel' /\ RollInv'
    BY <1>1, <2>1, <2>2, <2>3, Grows DEF ReleaseInv, DepRel, RollInv
  <2>5. QED
    BY <1>2, <2>4 DEF ReleaseInv
<1>11. QED
  BY <1>4, <1>5, <1>6, <1>7, <1>8, <1>9, <1>10

LEMMA CopyRelease ==
    ASSUME Typed, ReleaseInv, CopyAgent
    PROVE  PubInv'
<1> DEFINE f == Shipped(dep.at, dep.left)
<1>1. /\ dep.left \in 0..4 /\ pub \in [body : [Names -> Bodies], sig : Sigs]
      /\ signed' = signed /\ proved' = proved
  BY DEF CopyAgent, Typed, TypeOK, DeployTypeOK, Deploys, repo
<1>2. f.part \in {"body", "sig"} /\ f.name \in Names
  BY <1>1, ShippedType
<1>3. pub' = [pub EXCEPT ![f.part] = [pub[f.part] EXCEPT ![f.name] = Source[f.part][f.name]]]
  BY Zenon DEF CopyAgent
<1>4. Genuine(Source.sig, signed) /\ Tried(Source.body, proved)
  <2>1. CASE dep.at \in {"agent", "installagent"}
    BY <2>1 DEF Source, ReleaseInv, DepRel, Tried, Committed, Installs
  <2>2. CASE dep.at \in {"undo", "backagent"}
    <3>1. dep.snap # NoCopy
      BY <2>2, NoCopyIsNone DEF CopyAgent, Typed, DepInv, Back
    <3>2. QED
      BY <2>2, <3>1 DEF Source, ReleaseInv, DepRel
  <2>3. QED
    BY <2>1, <2>2 DEF CopyAgent
<1>5. Genuine(pub.sig, signed) /\ Tried(pub.body, proved)
  BY DEF ReleaseInv, PubInv
<1> HIDE DEF f
<1>6. CASE f.part = "body"
  <2>1. /\ pub'.body = [pub.body EXCEPT ![f.name] = Source.body[f.name]]
        /\ pub'.sig = pub.sig
    BY <1>1, <1>3, <1>6
  <2>2. Tried(pub'.body, proved)
    BY <1>1, <1>2, <1>4, <1>5, <2>1 DEF Tried
  <2>3. QED
    BY <1>1, <1>5, <2>1, <2>2 DEF PubInv
<1>7. CASE f.part = "sig"
  <2>1. /\ pub'.sig = [pub.sig EXCEPT ![f.name] = Source.sig[f.name]]
        /\ pub'.body = pub.body
    BY <1>1, <1>3, <1>7
  <2>2. Genuine(pub'.sig, signed)
    BY <1>1, <1>2, <1>4, <1>5, <2>1 DEF Genuine, Sigs
  <2>3. QED
    BY <1>1, <1>5, <2>1, <2>2 DEF PubInv
<1>8. QED
  BY <1>2, <1>6, <1>7

LEMMA AgentStepRelease ==
    ASSUME Typed, ReleaseInv,
           CopyAgent \/ CopyFails \/ DeployEnds \/ Interrupt,
           UNCHANGED <<disk, run, upd>>
    PROVE  ReleaseInv'
<1>1. signed' = signed /\ proved' = proved /\ UNCHANGED <<checkout, main, roll>>
  BY DEF CopyAgent, CopyFails, DeployEnds, Interrupt, repo, hub, state
<1>2. RepoInv' /\ RollInv' /\ HostInv'
  BY <1>1, Kept
<1>3. dep \in Deploys
  BY DEF Typed, TypeOK, DeployTypeOK
<1>4. PubInv'
  <2>1. CASE CopyAgent
    BY <2>1, CopyRelease
  <2>2. CASE UNCHANGED pub
    BY <1>1, <2>2, Kept
  <2>3. QED
    BY <2>1, <2>2 DEF CopyFails, DeployEnds, Interrupt, hub
<1>5. DepRel'
  <2>1. CASE CopyAgent
    <3>1. dep' = [dep EXCEPT !.left = dep.left - 1]
      BY <2>1, Zenon DEF CopyAgent
    <3>2. dep'.at = dep.at /\ dep'.to = dep.to /\ dep'.snap = dep.snap
      BY <1>3, <3>1 DEF Deploys
    <3>3. QED
      BY <1>1, <3>2 DEF ReleaseInv, DepRel, Installs
  <2>2. CASE Ends
    BY <1>1, <2>2, DepMoves
  <2>3. CASE CopyFails /\ dep.snap # NoCopy
    <3>1. dep' = [dep EXCEPT !.at = "undo", !.left = 4]
      BY <2>3 DEF CopyFails
    <3>2. dep'.at = "undo" /\ dep'.to = dep.to /\ dep'.snap = dep.snap
      BY <1>3, <3>1 DEF Deploys
    <3>3. QED
      BY <1>1, <3>2 DEF ReleaseInv, DepRel, Installs
  <2>4. QED
    BY <2>1, <2>2, <2>3 DEF CopyFails, DeployEnds, Interrupt, Ends
<1>6. QED
  BY <1>2, <1>4, <1>5 DEF ReleaseInv

LEMMA BackStepRelease ==
    ASSUME Typed, ReleaseInv,
           \/ RollbackStart \/ BackCopied \/ BackRestart \/ BackHealthy \/ BackRecord
           \/ BackStops \/ Kill,
           UNCHANGED <<disk, run, upd>>
    PROVE  ReleaseInv'
<1>1. /\ signed' = signed /\ proved \subseteq proved' /\ UNCHANGED <<checkout, main, roll>>
  BY DEF RollbackStart, BackCopied, BackRestart, BackHealthy, BackRecord, BackStops, Kill,
         repo, hub, state
<1>2. RepoInv' /\ RollInv' /\ HostInv'
  BY <1>1, Kept
<1>3. dep \in Deploys
  BY DEF Typed, TypeOK, DeployTypeOK
<1>4. PubInv'
  <2>1. UNCHANGED pub
    BY DEF RollbackStart, BackCopied, BackRestart, BackHealthy, BackRecord, BackStops, Kill, hub
  <2>2. QED
    BY <1>1, <2>1, Kept
<1>5. DepRel'
  <2>1. CASE RollbackStart
    <3>1. dep' = [dep EXCEPT !.at = "back", !.snap = roll]
      BY <2>1 DEF RollbackStart
    <3>2. dep'.at = "back" /\ dep'.to = dep.to /\ dep'.snap = roll
      BY <1>3, <3>1 DEF Deploys
    <3>3. QED
      BY <1>1, <3>2, Grows DEF ReleaseInv, DepRel, RollInv, Installs
  <2>2. CASE BackCopied \/ BackRestart
    BY <1>1, <1>3, <2>2, DepMoves DEF BackCopied, BackRestart
  <2>3. CASE BackHealthy
    <3>1. dep' = [dep EXCEPT !.at = "backagent", !.left = 4]
      BY <2>3 DEF BackHealthy
    <3>2. dep'.at = "backagent" /\ dep'.to = dep.to /\ dep'.snap = dep.snap
      BY <1>3, <3>1 DEF Deploys
    <3>3. QED
      BY <1>1, <3>2, Grows DEF ReleaseInv, DepRel, Installs
  <2>4. CASE BackRecord \/ BackStops \/ Kill
    BY <1>1, <2>4, DepMoves DEF BackRecord, BackStops, Kill
  <2>5. QED
    BY <2>1, <2>2, <2>3, <2>4
<1>6. QED
  BY <1>2, <1>4, <1>5 DEF ReleaseInv

LEMMA UpgradeRelease ==
    ASSUME Typed, ReleaseInv, UpgradeSteps, UNCHANGED <<disk, run, upd>>
    PROVE  ReleaseInv'
<1>1. /\ signed' = signed /\ proved \subseteq proved' /\ UNCHANGED <<checkout, main, pub, roll>>
  BY DEF UpgradeSteps, UpgradeStart, ServerInstalled, Installed, RecordInstall, UpgradeStops,
         repo, hub, state
<1>2. RepoInv' /\ PubInv' /\ RollInv' /\ HostInv'
  BY <1>1, Kept
<1>3. dep \in Deploys
  BY DEF Typed, TypeOK, DeployTypeOK
<1>4. CASE UpgradeStart
  <2>1. /\ dep' = [dep EXCEPT !.at = "install", !.to = checkout] /\ checkout.code \in proved'
    BY <1>4 DEF UpgradeStart
  <2>2. dep'.at = "install" /\ dep'.to = checkout /\ dep'.snap = dep.snap
    BY <1>3, <2>1 DEF Deploys
  <2>3. DepRel'
    BY <1>1, <2>1, <2>2, Grows DEF ReleaseInv, RepoInv, DepRel
  <2>4. QED
    BY <1>2, <2>3 DEF ReleaseInv
<1>5. CASE ServerInstalled
  <2>1. dep' = [dep EXCEPT !.at = "installagent", !.left = 4] /\ dep.at = "install"
    BY <1>5 DEF ServerInstalled, Running
  <2>2. dep'.at = "installagent" /\ dep'.to = dep.to /\ dep'.snap = dep.snap
    BY <1>3, <2>1 DEF Deploys
  <2>3. DepRel'
    BY <1>1, <2>1, <2>2, Grows DEF ReleaseInv, DepRel, Installs
  <2>4. QED
    BY <1>2, <2>3 DEF ReleaseInv
<1>6. CASE Installed
  <2>1. Goes("installed") /\ dep.to.code \in proved'
    BY <1>1, <1>6 DEF Installed, Running, ReleaseInv, DepRel, Installs
  <2>2. QED
    BY <1>1, <1>2, <1>3, <2>1, DepMoves DEF ReleaseInv
<1>7. CASE RecordInstall \/ UpgradeStops
  <2>1. Ends
    BY <1>7 DEF RecordInstall, UpgradeStops
  <2>2. QED
    BY <1>1, <1>2, <2>1, DepMoves DEF ReleaseInv
<1>8. QED
  BY <1>4, <1>5, <1>6, <1>7 DEF UpgradeSteps

-----------------------------------------------------------------------------
(* What a host takes is what the hub serves, if its signature is good.     *)

LEMMA TakenIsReleased ==
    ASSUME Typed, ReleaseInv, NEW n \in Names, NEW installed,
           Acceptable(Served(n), upd.offer.sig[n], installed)
    PROVE  Served(n) \in signed /\ \E c \in proved : Served(n) = Body[c][n]
<1>1. Served(n) \in Bodies /\ Served(n) # None
  BY BodyType DEF Typed, TypeOK, DeployTypeOK, Served, None
<1>2. upd.offer.sig[n] = Served(n)
  BY DEF Acceptable, Verifies
<1>3. Served(n) \in signed
  BY <1>1, <1>2 DEF ReleaseInv, HostInv, Genuine
<1>4. \E c \in proved : Served(n) = Body[c][n]
  BY DEF ReleaseInv, PubInv, Tried, Served
<1>5. QED
  BY <1>3, <1>4

LEMMA HostStepRelease ==
    ASSUME Typed, ReleaseInv, HostSteps
    PROVE  ReleaseInv'
<1>1. Rest
  BY Zenon DEF HostSteps, AgentStep, Report, Read, Decide, Install, Refuse, Refresh, Respawn,
     NoReply, InstallFails, RefreshFails, RespawnFails, Crash, Expire
<1>2. /\ signed' = signed /\ proved' = proved
      /\ UNCHANGED <<checkout, main, pub, roll, dep>>
  BY <1>1 DEF Rest, repo, hub, state
<1>3. RepoInv' /\ PubInv' /\ RollInv' /\ DepRel'
  BY <1>2, Kept
<1>4. /\ disk \in [Names -> Bodies] /\ upd \in Updates /\ "agent" \in Names /\ "avm" \in Names
  BY DEF Typed, TypeOK, Names
<1>5. Genuine(upd'.offer.sig, signed)
  <2>1. Genuine(upd.offer.sig, signed) /\ Genuine(NoOffer.sig, signed) /\ Genuine(pub.sig, signed)
    BY NothingIsGenuine DEF ReleaseInv, HostInv, PubInv, NoOffer
  <2>2. ASSUME NEW u, u.offer = upd.offer, u \in Updates, Companion(u)
        PROVE  upd'.offer \in {upd.offer, NoOffer}
    BY <2>2 DEF Companion, Updates
  <2>3. CASE Report \/ Read
    <3>1. PICK at \in {"reading", "offered"}, left \in 0..3, n \in Names :
            \/ upd' = [upd EXCEPT !.at = at, !.left = left, !.offer = Hashed(upd.offer, n)]
            \/ upd' = [upd EXCEPT !.at = at, !.left = left, !.offer = WithSig(upd.offer, n)]
      BY <1>4, <2>3, ReadsOne
    <3>2. \/ upd'.offer.sig = upd.offer.sig
          \/ upd'.offer.sig = [upd.offer.sig EXCEPT ![n] = pub.sig[n]]
      <4>1. upd'.offer = Hashed(upd.offer, n) \/ upd'.offer = WithSig(upd.offer, n)
        BY <1>4, <3>1 DEF Updates
      <4>2. upd.offer \in [want : Sigs, sig : Sigs]
        BY <1>4 DEF Updates
      <4>3. Hashed(upd.offer, n).sig = upd.offer.sig
        BY <4>2 DEF Hashed
      <4>4. WithSig(upd.offer, n).sig = [upd.offer.sig EXCEPT ![n] = pub.sig[n]]
        BY <4>2 DEF WithSig, HubSigs
      <4>5. QED
        BY <4>1, <4>3, <4>4
    <3>3. upd.offer.sig \in Sigs
      BY <1>4 DEF Updates
    <3>4. QED
      BY <2>1, <3>2, <3>3 DEF Genuine, Sigs
  <2>5. CASE Decide
    <3>1. CASE Companion(upd)
      BY <1>4, <2>1, <2>2, <3>1
    <3>2. CASE upd' = [upd EXCEPT !.at = "fetching", !.backoff = TRUE]
      BY <1>4, <2>1, <3>2 DEF Updates
    <3>3. QED
      BY <2>5, <3>1, <3>2 DEF Decide
  <2>6. CASE Refuse \/ InstallFails
    <3>1. [upd EXCEPT !.err = TRUE] \in Updates /\ [upd EXCEPT !.err = TRUE].offer = upd.offer
      BY <1>4 DEF Updates
    <3>2. Companion([upd EXCEPT !.err = TRUE])
      BY <2>6 DEF Refuse, InstallFails, Failed
    <3>3. QED
      BY <2>1, <2>2, <3>1, <3>2
  <2>7. CASE NoReply \/ RespawnFails \/ Respawn \/ Crash
    <3>1. upd'.offer = NoOffer
      <4>1. CASE NoReply
        BY <1>4, <4>1 DEF NoReply, Updates
      <4>2. CASE RespawnFails
        BY <1>4, <4>2 DEF RespawnFails, Updates
      <4>3. CASE Respawn \/ Crash
        BY <4>3 DEF Respawn, Crash, Started
      <4>4. QED
        BY <2>7, <4>1, <4>2, <4>3
    <3>2. QED
      BY <2>1, <3>1
  <2>8. CASE Install \/ Refresh \/ RefreshFails \/ Expire
    BY <1>4, <2>1, <2>8 DEF Install, Refresh, RefreshFails, Expire, AfterCompanion, Updates
  <2>9. QED
    BY <2>3, <2>5, <2>6, <2>7, <2>8 DEF HostSteps, AgentStep
<1>6. OnlyReleases'
  <2>1. OnlyReleases
    BY DEF ReleaseInv, HostInv
  <2>2. ASSUME NEW n \in Names, NEW installed,
               Acceptable(Served(n), upd.offer.sig[n], installed),
               disk' = [disk EXCEPT ![n] = Served(n)], run' = run
        PROVE  OnlyReleases'
    <3>1. Served(n) \in signed /\ \E c \in proved : Served(n) = Body[c][n]
      BY <2>2, TakenIsReleased
    <3>2. \A m \in Names : disk'[m] = IF m = n THEN Served(n) ELSE disk[m]
      BY <1>4, <2>2
    <3>3. QED
      BY <1>2, <2>1, <2>2, <3>1, <3>2 DEF OnlyReleases
  <2>3. CASE Install
    BY <1>4, <2>2, <2>3 DEF Install
  <2>4. CASE Refresh
    <3>1. \/ /\ Acceptable(Served("avm"), upd.offer.sig["avm"], disk["avm"])
             /\ disk' = [disk EXCEPT !["avm"] = Served("avm")]
          \/ disk' = disk
      BY <2>4 DEF Refresh
    <3>2. run' = run
      BY <2>4 DEF Refresh
    <3>3. CASE disk' = disk
      BY <1>2, <2>1, <3>2, <3>3 DEF OnlyReleases
    <3>4. QED
      BY <1>4, <2>2, <3>1, <3>2, <3>3
  <2>5. CASE Respawn \/ Crash
    <3>1. disk' = disk /\ run' = disk["agent"]
      BY <2>5 DEF Respawn, Crash
    <3>2. QED
      BY <1>2, <1>4, <2>1, <3>1 DEF OnlyReleases
  <2>6. CASE UNCHANGED <<disk, run>>
    BY <1>2, <2>1, <2>6 DEF OnlyReleases
  <2>7. QED
    BY <2>3, <2>4, <2>5, <2>6 DEF HostSteps, AgentStep, Report, Read, Decide, Refuse, NoReply,
       InstallFails, RefreshFails, RespawnFails, Expire
<1>7. QED
  BY <1>2, <1>3, <1>5, <1>6 DEF ReleaseInv, HostInv

LEMMA InitRelease == Init => ReleaseInv
<1> SUFFICES ASSUME Init PROVE ReleaseInv
  OBVIOUS
<1>1. /\ checkout.sig = Body[1] /\ main = {checkout} /\ pub = [body |-> Body[1], sig |-> Body[1]]
      /\ roll = NoCopy /\ dep = Resting /\ disk = Body[1] /\ run = Body[1]["agent"] /\ upd = Started
      /\ proved = {1} /\ signed = {Body[1][n] : n \in Names} /\ "agent" \in Names
  BY DEF Init, DeployInit, Names
<1>2. Genuine(Body[1], signed) /\ Tried(Body[1], proved)
  BY <1>1 DEF Genuine, Tried
<1>3. RepoInv /\ PubInv
  BY <1>1, <1>2 DEF RepoInv, PubInv
<1>4. RollInv /\ DepRel
  BY <1>1, NothingIsGenuine DEF RollInv, DepRel, Resting, Installs
<1>5. HostInv
  BY <1>1, <1>2, NothingIsGenuine DEF HostInv, OnlyReleases, Tried, Started, NoOffer
<1>6. QED
  BY <1>3, <1>4, <1>5 DEF ReleaseInv

\* What is on a host's disk or runs there was signed by the release key and
\* belongs to code that some hub was healthy on, for every number of deploys,
\* rollbacks, kills and crashes, and whatever the host downloads half-way
\* through a copy (deploy-hub.sh, ingest, self_update, _refresh_companion).
THEOREM HostsHoldReleases == Spec => []OnlyReleases
<1> DEFINE Inv == Typed /\ ReleaseInv
<1>1. Init => Inv
  BY InitTyped, InitRelease
<1>2. ASSUME Inv, [Next]_vars PROVE Inv'
  <2>1. Typed'
    BY <1>2, StepTyped
  <2>2. CASE DeployNext /\ UNCHANGED <<disk, run, upd>>
    BY <1>2, <2>1, <2>2, RepoStepRelease, DeployStepRelease, AgentStepRelease, BackStepRelease,
       UpgradeRelease, Zenon DEF DeployNext, UpgradeSteps
  <2>3. CASE HostSteps
    BY <1>2, <2>1, <2>3, HostStepRelease
  <2>4. CASE UNCHANGED vars
    <3>1. UNCHANGED <<checkout, main, signed, proved, pub, roll, dep, disk, run, upd>>
      BY <2>4 DEF vars, deployVars, repo, hub, state
    <3>2. QED
      BY <1>2, <2>1, <3>1, Kept DEF ReleaseInv
  <2>5. QED
    BY <1>2, <2>2, <2>3, <2>4 DEF Next, HostSteps
<1>3. Inv => OnlyReleases
  BY DEF ReleaseInv, HostInv
<1>4. QED
  <2>1. Inv /\ [Next]_vars => Inv'
    BY <1>2
  <2>2. QED
    BY <1>1, <1>3, <2>1, PTL DEF Spec

=============================================================================
