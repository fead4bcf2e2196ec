------------------------------ MODULE MCHandoff ------------------------------
(* Instances of Handoff for TLC.                                             *)
EXTENDS Handoff, TLC

Interchangeable == Permutations(Session) \cup Permutations(Provider)

(* Some of the behaviours with six events: one provider command and two later  *)
(* messages, one at a time, while only calls and restore passes are slow.      *)
OneAtATime ==
  work' # work => /\ lock = NoSession /\ work < 3
                  /\ \E s \in Session :
                       pc'[s] = "lock" /\ kind'[s] = IF work = 0 THEN "switch" ELSE "turn"
OnlySlow ==
  faults' # faults => /\ conn' = conn /\ faults < 3
                      /\ \E s \in Session : \/ pc[s] = "resumeWait" /\ pc'[s] = "restore"
                                            \/ pc[s] = "restore" /\ pc'[s] = "fail"
SlowCalls == OneAtATime /\ OnlySlow
=============================================================================
