----------------------------- MODULE ThreadFiles -----------------------------
(***************************************************************************)
(* What a thread's durable state promises across crashes of the processes  *)
(* that change it: the dirty marker (internal/handoff), the recovery       *)
(* journal (internal/recovery) and the archived rollout.  A marker covers  *)
(* the journal and the journal covers the archive, in that order: whoever  *)
(* finds the thread after a crash finds what has to be undone.             *)
(***************************************************************************)
CONSTANTS Provider, NoProvider

VARIABLES marked, journal, archived

files == <<marked, journal, archived>>

Init == marked \in BOOLEAN /\ journal = NoProvider /\ archived = FALSE

Mark      == marked' = TRUE /\ UNCHANGED <<journal, archived>>
Save      == marked /\ ~archived /\ journal' \in Provider /\ UNCHANGED <<marked, archived>>
Archive   == journal # NoProvider /\ archived' = TRUE /\ UNCHANGED <<marked, journal>>
Unarchive == archived' = FALSE /\ UNCHANGED <<marked, journal>>
Clear     == ~archived /\ journal' = NoProvider /\ UNCHANGED <<marked, archived>>
Unmark    == journal = NoProvider /\ marked' = FALSE /\ UNCHANGED <<journal, archived>>

Next == Mark \/ Save \/ Archive \/ Unarchive \/ Clear \/ Unmark

Spec == Init /\ [][Next]_files
=============================================================================
