----------------------------- MODULE MCTaskLife -----------------------------
\* Small instances of TaskLife for TLC.
EXTENDS TaskLife

CONSTANTS q, t, w, pi, pc

OneHost  == [r \in Run |-> pi]
TwoHosts == [r \in Run |-> IF r = t THEN pc ELSE pi]
\* Both reported by hand: `avm task start`, beat, done.
ByHand   == [r \in Run |-> "task"]
Kinds    == [r \in Run |-> CASE r = q -> "queue" [] r = t -> "task" [] OTHER -> "watch"]

CreateLost  == {"create"}
AnyLost     == Ops

\* Two reporters of one kind on two hosts: exchanging both changes nothing.
Swapped == {[x \in {q, t, pi, pc} |-> CASE x = q -> t [] x = t -> q
                                         [] x = pi -> pc [] OTHER -> pi]}
=============================================================================
