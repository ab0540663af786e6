-------------------------------- MODULE Deploy --------------------------------
(***************************************************************************)
(* From a commit to what the hub serves: the signer (deploy/               *)
(* sign-release.py), the operator's checkout, deploy/deploy-hub.sh with    *)
(* its rollback copy and its interrupts, and deploy/upgrade.sh.            *)
(*                                                                         *)
(* A commit is the code it holds and the signatures it carries.  The body  *)
(* of a file is a number and Version gives the version it declares; a      *)
(* (v2) signature covers file name, version and hash, so it is the body it *)
(* was made for.  One deploy runs at a time; the fetched main only grows,  *)
(* so a fetch that fails changes nothing but which commits may be named.   *)
(* The tree an upgrade installs is taken not to change while it does.      *)
(* Left out: v1 signatures, the hub's server files one by one, releases    *)
(* that need root, an agent/ directory the operator may not write, and     *)
(* copies that share a modification time.                                  *)
(***************************************************************************)
EXTENDS Integers, Sequences

CONSTANTS
    Code,       \* the states of the code on main, in order: 1..n
    Body,       \* Body[c]: the two files of agent/ in c
    Version,    \* Version[b]: what body b declares, 0 if not one dotted version
    HubVersion, \* HubVersion[c]: __version__ in c
    Options,    \* options the operator gives when needed: "force", "skip"
    MaxOps,     \* bound: deploys, rollbacks and upgrades
    MaxTrouble  \* bound: kills and failures

None  == 0
Mix   == 0      \* server/ is half one release, half another
Down  == 0      \* the hub does not answer
Names == {"agent", "avm"}   \* avalon_agent.py, avm.py
Bodies == {Body[c][n] : c \in Code, n \in Names}

ASSUME DeployAssumption ==
    /\ Code \subseteq Nat \ {0} /\ 1 \in Code
    /\ Body \in [Code -> [Names -> Nat \ {0}]]
    /\ Version \in [Bodies -> Nat] /\ HubVersion \in [Code -> Nat]
    /\ MaxOps \in Nat /\ MaxTrouble \in Nat

VARIABLES
    checkout,   \* the working tree: code, and the .sig2 files in it
    main,       \* commits on origin/main
    signer,     \* the signer: where it is, and the code it signs
    srv, live,  \* server/ on disk, and what the hub's process runs
    pub,        \* agent/ as the hub serves it: bodies and signatures
    current,    \* $STATE/current
    roll,       \* $STATE/rollback
    dep,        \* the deploy, rollback or upgrade under way; snap: rollback.new
    \* history:
    signed,     \* bodies the release key has signed
    proved,     \* code some hub was healthy on, or an upgrade copied
    sure,       \* nothing since `current` was last recorded left server/ half-way:
                \* no kill, failed restore, stopped rollback or unrecorded upgrade
    ops, trouble

repo   == <<checkout, main, signer, signed>>
hub    == <<srv, live, pub, proved>>
state  == <<current, roll, sure>>
deployVars == <<repo, hub, state, dep, ops, trouble>>

-----------------------------------------------------------------------------
Sigs    == [Names -> Bodies \cup {None}]
Commit  == [code : Code, sig : Sigs]
Unsigned == [n \in Names |-> None]
Unknown == [code |-> 0, sig |-> Unsigned]
NoCopy  == [commit |-> Unknown, for |-> Unknown, srv |-> Mix, body |-> Unsigned, sig |-> Unsigned,
            sure |-> FALSE]
\* sure (history): whether it was, of what the copy was taken of.
Copy    == [commit : Commit \cup {Unknown}, for : Commit, srv : Code \cup {Mix},
            body : [Names -> Bodies], sig : Sigs, sure : BOOLEAN]
Deploys == [at : {"off", "snapped", "copying", "copied", "restarted", "healthy",
                  "recorded", "shelved", "agent", "undo", "back", "backcopied",
                  "backrestarted", "backagent", "install", "installagent", "installed"},
            to : Commit \cup {Unknown}, redo : BOOLEAN, snap : Copy \cup {NoCopy}, left : 0..4]
Resting == [at |-> "off", to |-> Unknown, redo |-> FALSE, snap |-> NoCopy, left |-> 0]

DeployTypeOK ==
    /\ checkout \in Commit /\ main \subseteq Commit
    /\ signer \in [at : {"off", "asking", "agent", "avm"}, code : Code]
    /\ srv \in Code \cup {Mix} /\ live \in Code \cup {Down}
    /\ pub \in [body : [Names -> Bodies], sig : Sigs]
    /\ current \in Commit \cup {Unknown}
    /\ roll \in Copy \cup {NoCopy}
    /\ dep \in Deploys
    /\ signed \subseteq Bodies /\ proved \subseteq Code
    /\ sure \in BOOLEAN /\ ops \in Nat /\ trouble \in Nat

DeployInit ==
    LET first == [code |-> 1, sig |-> Body[1]] IN
    /\ checkout = first /\ main = {first}
    /\ signer = [at |-> "off", code |-> 1]
    /\ srv = 1 /\ live = 1 /\ pub = [body |-> Body[1], sig |-> Body[1]]
    /\ current \in {first, Unknown} /\ roll = NoCopy /\ dep = Resting
    /\ signed = {Body[1][n] : n \in Names} /\ proved = {1}
    /\ sure = TRUE /\ ops = 0 /\ trouble = 0

\* The body has its one version line, of dotted integers.
Declares(b) == Version[b] # 0

\* A signature is good when it was made for the message recomputed from the
\* bytes at hand: for this very body.
Verifies(sig, b) == sig = b

\* The agent files of a commit, read from objects whose hashes are checked.
Committed(c) == Body[c.code]

OnMain(c) == c \in main

\* Files of a commit whose signature is missing or stale; tests/test_release.py
\* and `sign-release.py --check` fail on them.
Stale(c) == {n \in Names : ~(Declares(Committed(c)[n]) /\ Verifies(c.sig[n], Committed(c)[n]))}

-----------------------------------------------------------------------------
(* The developer and the signer.                                           *)

\* The next state of the code is written; its old signatures stay beside it.
Edit ==
    /\ checkout.code + 1 \in Code
    /\ checkout' = [checkout EXCEPT !.code = @ + 1]
    /\ UNCHANGED <<main, signer, signed, hub, state, dep, ops, trouble>>

\* Whatever the working tree holds is committed and pushed.
Push ==
    /\ checkout \notin main
    /\ main' = main \cup {checkout}
    /\ UNCHANGED <<checkout, signer, signed, hub, state, dep, ops, trouble>>

\* A commit of the main just fetched, each file with one version, the working
\* tree the same; then the passphrase is asked for.
SignStart ==
    /\ signer.at = "off"
    /\ \E c \in Commit :
        /\ OnMain(c)
        /\ \A n \in Names : Declares(Committed(c)[n])
        /\ Committed(c) = Committed(checkout)
        /\ signer' = [at |-> "asking", code |-> c.code]
    /\ UNCHANGED <<checkout, main, signed, hub, state, dep, ops, trouble>>

Passphrase ==
    /\ signer.at = "asking"
    /\ signer' = [signer EXCEPT !.at = "agent"]
    /\ UNCHANGED <<checkout, main, signed, hub, state, dep, ops, trouble>>

\* One file after the other; the working tree is not looked at again.
SignFile(n) ==
    LET b == Committed(signer)[n] IN
    /\ signer.at = n
    /\ checkout' = [checkout EXCEPT !.sig[n] = b]
    /\ signed' = signed \cup {b}
    /\ signer' = [signer EXCEPT !.at = IF n = "agent" THEN "avm" ELSE "off"]
    /\ UNCHANGED <<main, hub, state, dep, ops, trouble>>

\* Ctrl-C at any moment, or a wrong passphrase.
SignStop ==
    /\ signer.at # "off"
    /\ signer' = [signer EXCEPT !.at = "off"]
    /\ UNCHANGED <<checkout, main, signed, hub, state, dep, ops, trouble>>

-----------------------------------------------------------------------------
(* deploy-hub.sh <ref>                                                     *)

Running(at) == dep.at = at
Goes(at)    == dep' = [dep EXCEPT !.at = at]
Ends        == dep' = Resting

\* What the restarted hub answers with: the code on disk, or nothing.
Restarted(code) == live' \in {code, Down}

\* restore server: the copy taken before the deploy goes back, or that fails
\* (or is killed) and leaves a mix.
Restored     == srv' = dep.snap.srv /\ UNCHANGED <<sure, trouble>>
RestoreFails == srv' = Mix /\ sure' = FALSE /\ trouble < MaxTrouble /\ trouble' = trouble + 1

\* The gates, then the copy of what is live now, into rollback.new.  Only the
\* version on disk is compared, and a mix may have either one's.
DeployStart ==
    /\ Running("off") /\ ops < MaxOps
    /\ \E c \in Commit :
        /\ OnMain(c)
        /\ srv # Mix /\ "force" \notin Options => HubVersion[c.code] >= HubVersion[srv]
        /\ "skip" \notin Options => Stale(c) = {}
        /\ \E same \in BOOLEAN :
            /\ srv # Mix => (same <=> HubVersion[srv] = HubVersion[c.code])
            /\ dep' = [dep EXCEPT !.at = "snapped", !.to = c, !.redo = same /\ current = c,
                         !.snap = [commit |-> current, for |-> c, srv |-> srv,
                                   body |-> pub.body, sig |-> pub.sig, sure |-> sure]]
    /\ ops' = ops + 1
    /\ UNCHANGED <<repo, hub, state, trouble>>

\* put server: half-way, then whole, or undone when rsync fails.
PutServer ==
    /\ Running("snapped") /\ Goes("copying")
    /\ srv' = IF srv = dep.to.code THEN srv ELSE Mix
    /\ UNCHANGED <<repo, live, pub, proved, state, ops, trouble>>

PutDone ==
    /\ Running("copying") /\ Goes("copied")
    /\ srv' = dep.to.code
    /\ UNCHANGED <<repo, live, pub, proved, state, ops, trouble>>

\* The copy fails, or the restart is refused: the copy taken before goes back,
\* if that does not fail too.
Undone ==
    /\ dep.at \in {"copying", "copied"} /\ Ends
    /\ Restored \/ RestoreFails
    /\ UNCHANGED <<repo, live, pub, proved, current, roll, ops>>

Restart ==
    /\ Running("copied") /\ Goes("restarted")
    /\ Restarted(srv)
    /\ UNCHANGED <<repo, srv, pub, proved, state, ops, trouble>>

Healthy ==
    /\ Running("restarted") /\ live = srv /\ Goes("healthy")
    /\ proved' = proved \cup {srv}
    /\ UNCHANGED <<repo, srv, live, pub, state, ops, trouble>>

\* Mutation: an interrupted deploy is left as it is.
TakeBack_Left ==
    /\ dep.at \in {"copying", "copied", "restarted"} /\ Ends
    /\ UNCHANGED <<repo, hub, state, ops, trouble>>

\* No answer, the wrong version or a failed smoke test; or Ctrl-C, TERM or HUP
\* anywhere from the copy to the smoke test.  The restart of the old code may
\* be refused (`restart || true`), and is left out while server/ is copied.
TakeBack ==
    /\ dep.at \in {"copying", "copied", "restarted"} /\ Ends
    /\ \/ Restored /\ (UNCHANGED live \/ (dep.at # "copying" /\ Restarted(srv')))
       \/ RestoreFails /\ UNCHANGED live
    /\ UNCHANGED <<repo, pub, proved, current, roll, ops>>

\* From here signals are ignored until the rollback copy is in place.
Record ==
    /\ Running("healthy") /\ Goes("recorded")
    /\ current' = dep.to /\ sure' = TRUE
    /\ UNCHANGED <<repo, hub, roll, ops, trouble>>

\* The same release again keeps the copy that undoes its first deploy.
Shelve ==
    /\ Running("recorded")
    /\ IF dep.redo
         THEN dep' = [dep EXCEPT !.at = "agent", !.left = 4, !.snap = roll] /\ UNCHANGED roll
         ELSE Goes("shelved") /\ roll' = NoCopy
    /\ UNCHANGED <<repo, hub, current, sure, ops, trouble>>

Promote ==
    /\ Running("shelved")
    /\ roll' = dep.snap
    /\ dep' = [dep EXCEPT !.at = "agent", !.left = 4]
    /\ UNCHANGED <<repo, hub, current, sure, ops, trouble>>

-----------------------------------------------------------------------------
(* agent/, one file at a time: a deploy and a rollback copy the signatures *)
(* first, an upgrade goes by name.                                         *)

Shipped(at, left) ==
    IF at = "installagent"
      THEN [part |-> IF left \in {2, 4} THEN "body" ELSE "sig",
            name |-> IF left > 2 THEN "agent" ELSE "avm"]
      ELSE [part |-> IF left > 2 THEN "sig" ELSE "body",
            name |-> IF left \in {2, 4} THEN "agent" ELSE "avm"]

Source == IF dep.at \in {"agent", "installagent"}
            THEN [body |-> Committed(dep.to), sig |-> dep.to.sig]
            ELSE [body |-> dep.snap.body, sig |-> dep.snap.sig]

CopyAgent ==
    LET f == Shipped(dep.at, dep.left) IN
    /\ dep.at \in {"agent", "undo", "backagent", "installagent"} /\ dep.left > 0
    /\ pub' = [pub EXCEPT ![f.part][f.name] = Source[f.part][f.name]]
    /\ dep' = [dep EXCEPT !.left = @ - 1]
    /\ UNCHANGED <<repo, srv, live, proved, state, ops, trouble>>

\* rsync fails part-way: put undoes it from the rollback copy, if there is one.
CopyFails ==
    /\ Running("agent") /\ dep.left > 0 /\ trouble < MaxTrouble
    /\ dep' = IF dep.snap = NoCopy THEN Resting ELSE [dep EXCEPT !.at = "undo", !.left = 4]
    /\ trouble' = trouble + 1
    /\ UNCHANGED <<repo, hub, state, ops>>

DeployEnds ==
    /\ dep.at \in {"agent", "undo"} /\ dep.left = 0 /\ Ends
    /\ UNCHANGED <<repo, hub, state, ops, trouble>>

\* Before the first and after the last trap a signal just ends the script.
Interrupt ==
    /\ dep.at \in {"snapped", "agent", "undo"} /\ Ends
    /\ UNCHANGED <<repo, hub, state, ops, trouble>>

-----------------------------------------------------------------------------
(* deploy-hub.sh --rollback                                                *)

RollbackStart ==
    /\ Running("off") /\ ops < MaxOps
    /\ roll # NoCopy /\ roll.commit # roll.for
    /\ "force" \notin Options =>
         /\ current = roll.for
         /\ srv # Mix => HubVersion[srv] = HubVersion[roll.for.code]
         /\ live # Down => HubVersion[live] = HubVersion[roll.for.code]
    /\ dep' = [dep EXCEPT !.at = "back", !.snap = roll]
    /\ srv' = Mix
    /\ ops' = ops + 1
    /\ UNCHANGED <<repo, live, pub, proved, state, trouble>>

BackCopied ==
    /\ Running("back") /\ Goes("backcopied")
    /\ srv' = roll.srv
    /\ UNCHANGED <<repo, live, pub, proved, state, ops, trouble>>

BackRestart ==
    /\ Running("backcopied") /\ Goes("backrestarted")
    /\ Restarted(srv)
    /\ UNCHANGED <<repo, srv, pub, proved, state, ops, trouble>>

BackHealthy ==
    /\ Running("backrestarted") /\ live = srv /\ srv # Mix
    /\ dep' = [dep EXCEPT !.at = "backagent", !.left = 4]
    /\ proved' = proved \cup {srv}
    /\ UNCHANGED <<repo, srv, live, pub, state, ops, trouble>>

BackRecord ==
    /\ Running("backagent") /\ dep.left = 0 /\ Ends
    /\ current' = roll.commit /\ sure' = roll.sure
    /\ UNCHANGED <<repo, hub, roll, ops, trouble>>

\* A restore fails, the restart is refused, the hub does not come back
\* healthy, or Ctrl-C: "once fixed, --rollback --force finishes it".
BackStops ==
    /\ dep.at \in {"back", "backcopied", "backrestarted", "backagent"}
    /\ trouble < MaxTrouble
    /\ sure' = FALSE /\ trouble' = trouble + 1 /\ Ends
    /\ UNCHANGED <<repo, hub, current, roll, ops>>

-----------------------------------------------------------------------------
\* SIGKILL or power loss in a deploy, at any step; once `current` is written
\* it tells the truth.
Kill ==
    /\ dep.at \in {"copying", "copied", "restarted", "healthy", "recorded", "shelved"}
    /\ trouble < MaxTrouble /\ trouble' = trouble + 1 /\ Ends
    /\ sure' = (sure /\ dep.at \in {"recorded", "shelved"})
    /\ UNCHANGED <<repo, hub, current, roll, ops>>

-----------------------------------------------------------------------------
(* sudo upgrade.sh: install-server.sh copies the working tree, server/ and *)
(* then agent/, and restarts the hub; then its commit is recorded.         *)

UpgradeStart ==
    /\ Running("off") /\ ops < MaxOps
    /\ dep' = [dep EXCEPT !.at = "install", !.to = checkout]
    /\ srv' = Mix /\ sure' = FALSE
    /\ proved' = proved \cup {checkout.code}
    /\ ops' = ops + 1
    /\ UNCHANGED <<repo, live, pub, current, roll, trouble>>

ServerInstalled ==
    /\ Running("install") /\ srv' = dep.to.code
    /\ dep' = [dep EXCEPT !.at = "installagent", !.left = 4]
    /\ UNCHANGED <<repo, live, pub, proved, state, ops, trouble>>

Installed ==
    /\ Running("installagent") /\ dep.left = 0 /\ Goes("installed")
    /\ Restarted(srv)
    /\ UNCHANGED <<repo, srv, pub, proved, state, ops, trouble>>

\* A clean tree is a commit, pushed or not; another one is recorded as unknown.
RecordInstall ==
    /\ Running("installed") /\ Ends
    /\ current' \in (IF dep.to \in main THEN {dep.to} ELSE {dep.to, Unknown})
    /\ sure' = TRUE
    /\ UNCHANGED <<repo, hub, roll, ops, trouble>>

\* A step of the installation fails or it is stopped; or there is no SUDO_USER
\* to record for, or that fails: "--status may show the wrong one".
UpgradeStops ==
    /\ dep.at \in {"install", "installagent", "installed"} /\ Ends
    /\ UNCHANGED <<repo, hub, state, ops, trouble>>

DeployNext ==
    \/ Edit \/ Push \/ SignStart \/ Passphrase \/ SignStop
    \/ \E n \in Names : SignFile(n)
    \/ DeployStart \/ PutServer \/ PutDone \/ Undone \/ Restart \/ Healthy \/ TakeBack
    \/ Record \/ Shelve \/ Promote
    \/ CopyAgent \/ CopyFails \/ DeployEnds \/ Interrupt
    \/ RollbackStart \/ BackCopied \/ BackRestart \/ BackHealthy \/ BackRecord \/ BackStops
    \/ Kill
    \/ UpgradeStart \/ ServerInstalled \/ Installed \/ RecordInstall \/ UpgradeStops

-----------------------------------------------------------------------------
\* When nothing is under way, server/ is whole and is what `current` names,
\* unless what was left half-way since (`sure`) has not been put right by a
\* deploy, a rollback or an upgrade that was recorded; and the rollback copy
\* holds the commit it says, unless it was taken at such a time.
WayBack ==
    dep.at = "off" =>
        /\ sure => srv # Mix /\ (current # Unknown => srv = current.code)
        /\ roll.sure => roll.srv # Mix /\ (roll.commit # Unknown => roll.srv = roll.commit.code)
=============================================================================
