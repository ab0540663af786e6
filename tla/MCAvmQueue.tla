----------------------------- MODULE MCAvmQueue -----------------------------
(***************************************************************************)
(* Small hosts for AvmQueue: three avm runs, sizes in half gigabytes.      *)
(***************************************************************************)
EXTENDS AvmQueue

CONSTANTS a, b, c

Sizes(m, v) == [r \in Res |-> IF r = "mem" THEN m ELSE v]

\* A host with 2 GB of each, 0.5 GB of it headroom.
SmallHost == Sizes(4, 4)
HalfGig   == Sizes(1, 1)

NoTags       == [p \in Job |-> Sizes(0, 0)]
\* a and b fit together only while they are measured small; c needs most.
MixedSizes   == [p \in Job |-> CASE p = a -> Sizes(2, 1) [] p = b -> Sizes(1, 2) [] OTHER -> Sizes(2, 0)]

\* c is never refused and never fits; b needs some of the same.
HopelessC == [p \in Job |-> Sizes(0, CASE p = b -> 1 [] p = c -> 4 [] OTHER -> 0)]

TopLevel == [p \in Job |-> NoJob]
BInsideA == [p \in Job |-> IF p = b THEN a ELSE NoJob]
=============================================================================
