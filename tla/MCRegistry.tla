----------------------------- MODULE MCRegistry ------------------------------
(* Sessions are alike: what holds for one naming of them holds for all.        *)
EXTENDS Registry, TLC

Alike == Permutations(Session)
=============================================================================
