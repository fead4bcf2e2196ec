---------------------------- MODULE ExclusiveLock ----------------------------
(***************************************************************************)
(* What the thread writer lock promises: it is taken by one process when   *)
(* nobody has it, and given back.  WriterLock shows how two lock files     *)
(* keep that promise; Rollout relies on it.                                *)
(***************************************************************************)

CONSTANTS Process, Nobody

VARIABLE holder

Init == holder = Nobody

Take(p) == holder = Nobody /\ holder' = p
Give(p) == holder = p /\ holder' = Nobody

Next == \E p \in Process : Take(p) \/ Give(p)

Spec == Init /\ [][Next]_holder
=============================================================================
