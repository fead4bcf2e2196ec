----------------------------- MODULE MCRecovery -----------------------------
(* An instance of Recovery for TLC: a chain of two below the root and a      *)
(* second child, one thread more than the limit admits.                      *)
EXTENDS Recovery

CONSTANTS root, a, b, c

MCThread == {root, a, b, c}
MCParent == [t \in {a, b, c} |-> IF t = b THEN a ELSE root]
=============================================================================
