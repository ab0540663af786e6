----------------------------- MODULE MCSelfUpdate -----------------------------
(* Two states of the code: the second changes both files and their versions. *)
EXTENDS SelfUpdate

MCCode    == 1..2
MCBody    == <<[agent |-> 1, avm |-> 3], [agent |-> 2, avm |-> 4]>>
MCVersion == <<1, 2, 1, 2>>
MCHub     == <<1, 2>>

\* The checkout, main and the signer are read by no step of a deploy after its
\* first and by none of the host: what is done there meanwhile may as well be
\* done before or after, and nobody sees what is done there at the end.  A
\* signer who stops starts again.  The developer pushes before the next edit,
\* and a commit that carries one new signature of two is no deploy's.
RepoFirst == /\ repo' # repo => dep.at = "off" /\ upd.at = "idle" /\ ops < MaxOps
             /\ <<dep, disk, run, upd>>' # <<dep, disk, run, upd>> => signer.at = "off"
Pushed    == /\ checkout'.code # checkout.code => checkout \in main
             /\ main' # main => checkout.sig \in {Body[1], Body[checkout.code]}

\* A host sees of a deploy the hub's process and agent/ alone.  Its steps fall
\* where one of the two may just have changed; the hub, which is restarted
\* before agent/ is copied again, reads one reply while files are copied or
\* nothing happens; the host decides on a reply at once, and looks at its two
\* waits when it reports.
Copies    == {"agent", "undo", "backagent", "installagent"}
Seen      == Copies \cup {"off", "restarted", "backrestarted", "installed"}
HostsTurn == <<disk, run, upd>>' # <<disk, run, upd>> => dep.at \in Seen
AtOnce    == /\ upd.at = "reading" /\ dep' # dep => dep.at \in Copies
             /\ upd.at = "offered" => Decide
             /\ Expire => upd.at = "idle"

MCNext == Next /\ RepoFirst /\ Pushed /\ HostsTurn /\ AtOnce
MCSpec == Init /\ [][MCNext]_vars /\ WF_vars(AgentStep) /\ WF_vars(Expire)
=============================================================================
