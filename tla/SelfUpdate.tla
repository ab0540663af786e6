------------------------------ MODULE SelfUpdate ------------------------------
(***************************************************************************)
(* One enrolled host that keeps its two files in step with the hub's       *)
(* agent/ while releases are signed, deployed and rolled back (Deploy):    *)
(* the offer in each reply, read by the hub while files are being renamed, *)
(* the download, the signature and the version, the replacement, the       *)
(* restart that may fail, and the companion avm.py.  Hosts do not meet, so *)
(* one stands for all.                                                     *)
(*                                                                         *)
(* auto_update is on at the hub and on the host.  The hub re-reads a file  *)
(* whose modification time changed, which every copy changes: it hands out *)
(* what is on disk.                                                        *)
(***************************************************************************)
EXTENDS Deploy

CONSTANT AllowDowngrade     \* AVM_ALLOW_DOWNGRADE in this host's agent.conf
ASSUME SelfUpdateAssumption == AllowDowngrade \in BOOLEAN

VARIABLES
    disk,   \* avalon_agent.py and avm.py on the host
    run,    \* the agent script its process was started from
    upd     \* the update: where it is, the offer and how much of it is still
            \* to be read by the hub, the two waits, the error

vars == <<deployVars, disk, run, upd>>

Updates == [at : {"idle", "reading", "offered", "fetching", "refresh", "companion", "respawn"},
            offer : [want : Sigs, sig : Sigs], left : 0..3,
            backoff : BOOLEAN, tried : Bodies \cup {None}, err : BOOLEAN]
NoOffer == [want |-> Unsigned, sig |-> Unsigned]
Started == [at |-> "idle", offer |-> NoOffer, left |-> 0,
            backoff |-> FALSE, tried |-> None, err |-> FALSE]

TypeOK ==
    /\ DeployTypeOK
    /\ disk \in [Names -> Bodies] /\ run \in Bodies
    /\ upd \in Updates

Init ==
    /\ DeployInit
    /\ disk = Body[1] /\ run = Body[1]["agent"] /\ upd = Started

-----------------------------------------------------------------------------
\* Versions are compared number by number; equal ones are not older.
Older(b, installed) == Version[b] < Version[installed]

\* Mutations: the versions are not compared; the signature is not looked at.
Acceptable_Replayed(b, sig, installed) == Declares(b) /\ Verifies(sig, b)
Acceptable_Unsigned(b, sig, installed) == Declares(b) /\ (Older(b, installed) => AllowDowngrade)

\* Why a file is not refused: it has a version, the release key signed this
\* very body, and it is not older than `installed`.
Acceptable(b, sig, installed) ==
    /\ Declares(b) /\ Verifies(sig, b)
    /\ Older(b, installed) => AllowDowngrade

\* What the hub hands out: hashes, signatures, and the files themselves.
HubHashes == pub.body
HubSigs   == pub.sig
Served(n) == pub.body[n]

Serving == live # Down
Trouble == trouble < MaxTrouble /\ trouble' = trouble + 1
Calm    == UNCHANGED trouble
Fails   == Trouble \/ (~Serving /\ Calm)

Rest == UNCHANGED <<repo, hub, state, dep, ops>>

\* After self_update has returned False: avm.py alone, one try per hash.
Companion(u) ==
    LET want == u.offer.want["avm"] IN
    upd' = IF want # disk["avm"] /\ u.tried # want
             THEN [u EXCEPT !.at = "companion", !.tried = want]
             ELSE [u EXCEPT !.at = "idle", !.offer = NoOffer]

Failed == Companion([upd EXCEPT !.err = TRUE])

-----------------------------------------------------------------------------
\* A report; the hub hashes the agent's script ...
Report ==
    /\ upd.at = "idle" /\ Serving
    /\ upd' = [upd EXCEPT !.at = "reading", !.left = 3,
                 !.offer.want["agent"] = HubHashes["agent"]]
    /\ Calm /\ UNCHANGED <<disk, run>> /\ Rest

\* ... then the companion, reads the two signatures, and replies.
Read ==
    /\ upd.at = "reading" /\ Serving
    /\ upd' = CASE upd.left = 3 -> [upd EXCEPT !.left = 2, !.offer.want["avm"] = HubHashes["avm"]]
               [] upd.left = 2 -> [upd EXCEPT !.left = 1, !.offer.sig["agent"] = HubSigs["agent"]]
               [] OTHER -> [upd EXCEPT !.left = 0, !.offer.sig["avm"] = HubSigs["avm"], !.at = "offered"]
    /\ Calm /\ UNCHANGED <<disk, run>> /\ Rest

NoReply ==
    /\ upd.at = "reading" /\ Fails
    /\ upd' = [upd EXCEPT !.at = "idle", !.left = 0, !.offer = NoOffer]
    /\ UNCHANGED <<disk, run>> /\ Rest

\* The hash the agent keeps of itself is that of the file it last installed or
\* was started from: the one on disk.
OwnHash == disk["agent"]

Decide ==
    /\ upd.at = "offered"
    /\ IF upd.offer.want["agent"] # OwnHash /\ ~upd.backoff
         THEN upd' = [upd EXCEPT !.at = "fetching", !.backoff = TRUE]
         ELSE Companion(upd)
    /\ Calm /\ UNCHANGED <<disk, run>> /\ Rest

\* Checked against the offer, the signature in it and the version that runs;
\* then it replaces the script.
Install ==
    LET b == Served("agent") IN
    /\ upd.at = "fetching" /\ Serving
    /\ b = upd.offer.want["agent"] /\ Acceptable(b, upd.offer.sig["agent"], run)
    /\ disk' = [disk EXCEPT !["agent"] = b]
    /\ upd' = [upd EXCEPT !.at = "refresh", !.err = FALSE]
    /\ Calm /\ UNCHANGED run /\ Rest

Refuse ==
    LET b == Served("agent") IN
    /\ upd.at = "fetching" /\ Serving
    /\ b # upd.offer.want["agent"] \/ ~Acceptable(b, upd.offer.sig["agent"], run)
    /\ Failed
    /\ Calm /\ UNCHANGED <<disk, run>> /\ Rest

\* The download fails, or the file cannot be replaced.
InstallFails ==
    /\ upd.at = "fetching" /\ Fails
    /\ Failed
    /\ UNCHANGED <<disk, run>> /\ Rest

AfterCompanion ==
    upd' = IF upd.at = "refresh" THEN [upd EXCEPT !.at = "respawn"]
                                 ELSE [upd EXCEPT !.at = "idle", !.offer = NoOffer]

\* avm.py is checked against the signature in the offer and the file on disk.
Refresh ==
    LET b == Served("avm") IN
    /\ upd.at \in {"refresh", "companion"} /\ Serving
    /\ disk' = IF Acceptable(b, upd.offer.sig["avm"], disk["avm"])
                 THEN [disk EXCEPT !["avm"] = b] ELSE disk
    /\ AfterCompanion
    /\ Calm /\ UNCHANGED run /\ Rest

RefreshFails ==
    /\ upd.at \in {"refresh", "companion"} /\ Fails
    /\ AfterCompanion
    /\ UNCHANGED <<disk, run>> /\ Rest

Respawn ==
    /\ upd.at = "respawn"
    /\ run' = disk["agent"] /\ upd' = Started
    /\ Calm /\ UNCHANGED disk /\ Rest

\* Mutation: the failure is only logged.
RespawnFails_Silent ==
    /\ upd.at = "respawn" /\ Trouble
    /\ upd' = [upd EXCEPT !.at = "idle", !.offer = NoOffer]
    /\ UNCHANGED <<disk, run>> /\ Rest

\* execv fails: the old process goes on and says so.
RespawnFails ==
    /\ upd.at = "respawn" /\ Trouble
    /\ upd' = [upd EXCEPT !.at = "idle", !.offer = NoOffer, !.err = TRUE]
    /\ UNCHANGED <<disk, run>> /\ Rest

\* A crash at any point, a reboot, a restart by hand.
Crash ==
    /\ Trouble
    /\ run' = disk["agent"] /\ upd' = Started
    /\ UNCHANGED disk /\ Rest

\* Ten minutes have passed.
Expire ==
    /\ upd.backoff \/ upd.tried # None
    /\ \/ upd.backoff /\ upd' = [upd EXCEPT !.backoff = FALSE]
       \/ upd.tried # None /\ upd' = [upd EXCEPT !.tried = None]
    /\ Calm /\ UNCHANGED <<disk, run>> /\ Rest

AgentStep == Report \/ Read \/ Decide \/ Install \/ Refuse \/ Refresh \/ Respawn

Next ==
    \/ DeployNext /\ UNCHANGED <<disk, run, upd>>
    \/ AgentStep \/ NoReply \/ InstallFails \/ RefreshFails \/ RespawnFails \/ Crash \/ Expire

\* The agent's loop goes on, and so does its clock.
Spec == Init /\ [][Next]_vars /\ WF_vars(AgentStep) /\ WF_vars(Expire)

-----------------------------------------------------------------------------
\* Nothing on the host is older than what was there: the process never comes
\* to run an older agent and avm.py is never replaced by an older one, however
\* offers, downloads, rollbacks and failed restarts fall together.
NeverBack ==
    [][~AllowDowngrade => /\ Version[run'] >= Version[run]
                          /\ Version[disk'["avm"]] >= Version[disk["avm"]]]_vars

\* Whatever is on a host or runs there was signed, and belongs to code that a
\* hub was healthy on (or that an upgrade copied, which asks no hub): "a release
\* that gets rolled back never reaches the fleet".
OnlyReleases ==
    \A n \in Names : /\ disk[n] \in signed /\ run \in signed
                     /\ \E c \in proved : disk[n] = Body[c][n]
                     /\ \E c \in proved : run = Body[c]["agent"]

\* A release that is served whole and signed, and is not older than what the
\* host has, comes to be installed and to run there, or the host says that its
\* update failed.
Installable ==
    /\ Serving
    /\ \A n \in Names : Acceptable(Served(n), HubSigs[n], disk[n])
    /\ Acceptable(Served("agent"), HubSigs["agent"], run)
Followed == disk = pub.body /\ (run = pub.body["agent"] \/ upd.err)
FleetFollows == <>[]Installable => <>[]Followed
=============================================================================
