-------------------------- MODULE MCCheckResponder --------------------------
\* Small instances of CheckResponder for TLC.
EXTENDS CheckResponder, TLC

CONSTANTS w1, w2, s1, s2

Either == Permutations(Worker)
=============================================================================
