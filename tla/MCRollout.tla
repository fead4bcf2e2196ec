------------------------------ MODULE MCRollout ------------------------------
(* An instance of Rollout for TLC.                                           *)
EXTENDS Rollout, TLC

Interchangeable == Permutations(Switcher)
=============================================================================
