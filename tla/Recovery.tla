------------------------------ MODULE Recovery ------------------------------
(***************************************************************************)
(* Soft unload of a whole thread subtree and its repair: the enumeration,  *)
(* the journal file with its shrinking Remaining list, the archive of the  *)
(* subtree and the unarchive of its threads one by one, with crashes and   *)
(* failed calls between any two steps (recoverProviderMismatch and         *)
(* repairRecoveryJournal of internal/transport/session.go, over            *)
(* internal/transport/recovery_client.go and internal/recovery/store.go).  *)
(* Module Handoff shows that one operation at a time gets here; this       *)
(* module follows that operation, and what its process leaves behind.      *)
(***************************************************************************)
EXTENDS Naturals, Sequences, FiniteSets, Functions

CONSTANTS Thread,     \* the root and every thread that may be spawned below it
          Root,
          Parent,     \* the thread that spawns a thread
          Limit,      \* maxRecoveryThreads and maxThreadIDs: 64 in the code
          MaxFaults   \* bound: failed calls and writes, crashes

ASSUME RecoveryAssumption ==
  /\ IsFiniteSet(Thread) /\ Root \in Thread
  /\ Parent \in [Thread \ {Root} -> Thread]
  /\ Limit \in Nat \ {0}
  /\ MaxFaults \in Nat

VARIABLES made,     \* threads that exist
          arch,     \* threads in the archive
          late,     \* history: threads spawned since the last enumeration
          marked,   \* the dirty marker exists
          disk,     \* the journal file
          mem,      \* the journal value of the operation under way
          mode,     \* is that operation a recovery or a repair
          pc,       \* its next call
          hidden,   \* ids whose notifications every peer suppresses
          faults

server == <<made, arch, late>>
vars == <<server, marked, disk, mem, mode, pc, hidden, faults>>

(* A journal as written; the empty one stands for no file.                   *)
Journal == [threads : Seq(Thread), remaining : Seq(Thread)]
NoJournal == [threads |-> <<>>, remaining |-> <<>>]
Pending == disk # NoJournal

Labels == {"idle", "load", "mark", "inspect", "save", "begin", "archive", "saveArchived",
           "unarchive", "saveRest", "resume", "end", "clear", "unmark", "undo"}

Fresh(ids) == [threads |-> ids, remaining |-> ids]
Emptied(j) == [j EXCEPT !.remaining = <<>>]
Shorter(j) == [j EXCEPT !.remaining = Tail(@)]

Distinct(q) == IsInjective(q)
EndsInRoot(q) == q # <<>> /\ q[Len(q)] = Root

(* validateJournal, which Save and Load both apply.                          *)
Valid(j) ==
  /\ EndsInRoot(j.threads) /\ Distinct(j.threads) /\ Len(j.threads) <= Limit
  /\ Len(j.remaining) <= Len(j.threads)
  /\ \A i \in DOMAIN j.remaining :
       j.remaining[i] = j.threads[Len(j.threads) - Len(j.remaining) + i]

(* validRecoveryIDs and BeginRecovery of every peer.                         *)
ValidIds(q) == Root \in Range(q) /\ Distinct(q) /\ Len(q) <= Limit

-----------------------------------------------------------------------------
(* inspectRecoverableSubtree *)

Depth[t \in Thread] == IF t = Root THEN 0 ELSE 1 + Depth[Parent[t]]

Shallower(a, b) == Depth[a] <= Depth[b]
Deeper(a, b) == Depth[a] >= Depth[b]

(* Every order of the descendants, deepest first, with the root at the end;  *)
(* the code settles ties by name.                                            *)
Orders(S) ==
  {Append(q, Root) : q \in
    {f \in Bijection(1..Cardinality(S \ {Root}), S \ {Root}) :
       \A i, k \in DOMAIN f : i < k => Deeper(f[i], f[k])}}

TooManyByOne(S) == Cardinality(S) > Limit + 1
TooMany(S) == Cardinality(S) > Limit

Complete(S) == \A t \in S \ {Root} : Parent[t] \in S

(* What thread/list returns: the threads that are not archived.              *)
Listed == made \ arch

-----------------------------------------------------------------------------

Init ==
  /\ made \in {S \in SUBSET Thread : Root \in S /\ Complete(S)}
  /\ arch = {} /\ late = {}
  /\ marked = FALSE
  /\ disk = NoJournal /\ mem = NoJournal
  /\ mode = "recover" /\ pc = "idle"
  /\ hidden = {}
  /\ faults = 0

NoFault == UNCHANGED faults
Fault == faults < MaxFaults /\ faults' = faults + 1

At(label) == pc = label
Goto(label) == pc' = label

(* Desktop sends a request that gets as far as the journal.                  *)
Start ==
  /\ At("idle") /\ Goto("load")
  /\ UNCHANGED <<server, marked, disk, mem, mode, hidden, faults>>

(* Load; a handoff that may end in a soft unload follows only when there is  *)
(* nothing to repair.                                                        *)
Load ==
  /\ At("load")
  /\ \/ NoFault /\ Pending /\ Valid(disk)
        /\ mem' = disk /\ mode' = "repair" /\ Goto("begin")
     \/ NoFault /\ ~Pending /\ Goto("mark") /\ mode' = "recover" /\ UNCHANGED mem
     \/ NoFault /\ Pending /\ ~Valid(disk) /\ Goto("idle") /\ UNCHANGED <<mem, mode>>
     \/ Fault /\ Goto("idle") /\ UNCHANGED <<mem, mode>>
  /\ UNCHANGED <<server, marked, disk, hidden>>

(* The handoff's marker, before the runtime turns out to be stuck, or not.   *)
Mark ==
  /\ At("mark")
  /\ \/ NoFault /\ marked' = TRUE /\ pc' \in {"inspect", "unmark"}
     \/ Fault /\ marked' \in {marked, TRUE} /\ Goto("idle")
  /\ UNCHANGED <<server, disk, mem, mode, hidden>>

Inspect ==
  /\ At("inspect")
  /\ \/ /\ NoFault /\ Root \notin arch /\ ~TooMany(Listed) /\ Complete(Listed)
        /\ \E q \in Orders(Listed) : mem' = Fresh(q)
        /\ late' = late \cap arch
        /\ Goto("save")
     \/ /\ NoFault /\ (Root \in arch \/ TooMany(Listed) \/ ~Complete(Listed))
        /\ Goto("idle") /\ UNCHANGED <<mem, late>>
     \/ Fault /\ Goto("idle") /\ UNCHANGED <<mem, late>>
  /\ UNCHANGED <<made, arch, marked, disk, mode, hidden>>

(* Store.Save of j: refused when invalid; an error leaves open whether the   *)
(* rename took effect.                                                       *)
Buffered(j) == UNCHANGED disk
Persist(j) == disk' = j

Save(from, j, then, failed) ==
  /\ At(from)
  /\ \/ NoFault /\ Valid(j) /\ Persist(j) /\ mem' = j /\ Goto(then)
     \/ NoFault /\ ~Valid(j) /\ Goto(failed) /\ UNCHANGED <<disk, mem>>
     \/ Fault /\ Valid(j) /\ disk' \in {disk, j} /\ Goto(failed) /\ UNCHANGED mem
  /\ UNCHANGED <<server, marked, mode, hidden>>

(* A restored thread leaves Remaining before the journal is saved again.     *)
SaveStep ==
  \/ Save("save", mem, "begin", "idle")
  \/ Save("saveArchived", mem, "unarchive", "undo")
  \/ Save("saveRest", Shorter(mem), "unarchive", "undo")

(* BeginRecoveryAll: every peer hides the ids, or the call is rolled back.   *)
RootOnly(q) == {Root}
Announced(q) == Range(q)

Begin ==
  /\ At("begin")
  /\ \/ /\ NoFault /\ ValidIds(mem.threads)
        /\ hidden' = Announced(mem.threads)
        /\ Goto(IF mode = "repair" THEN "unarchive" ELSE "archive")
     \/ NoFault /\ ~ValidIds(mem.threads) /\ hidden' = {} /\ Goto("idle")
     \/ Fault /\ hidden' = {} /\ Goto("idle")
  /\ UNCHANGED <<server, marked, disk, mem, mode>>

(* thread/archive takes the whole subtree with it; when it fails any part    *)
(* may have gone.                                                            *)
Archive ==
  /\ At("archive")
  /\ \/ NoFault /\ arch' = made /\ Goto("saveArchived")
     \/ Fault /\ (\E S \in SUBSET made : arch' = arch \cup S) /\ Goto("undo")
  /\ UNCHANGED <<made, late, marked, disk, mem, mode, hidden>>

(* "no archived rollout" is an answer only to a repair, which makes sure the *)
(* thread is there.                                                          *)
Refuse(t) == FALSE
AlreadyThere(t) == mode = "repair"

UnarchiveNext ==
  /\ At("unarchive") /\ mem.remaining # <<>>
  /\ LET t == Head(mem.remaining) IN
       \/ NoFault /\ t \in arch /\ arch' = arch \ {t} /\ Goto("saveRest")
       \/ /\ NoFault /\ t \notin arch /\ UNCHANGED arch
          /\ Goto(IF AlreadyThere(t) THEN "saveRest" ELSE "undo")
       \/ Fault /\ arch' \in {arch, arch \ {t}} /\ Goto("undo")
  /\ UNCHANGED <<made, late, marked, disk, mem, mode, hidden>>

AllRestored ==
  /\ At("unarchive") /\ mem.remaining = <<>>
  /\ Goto("resume")
  /\ UNCHANGED <<server, marked, disk, mem, mode, hidden, faults>>

(* Sanitation and the verified resume, in which the runtime may come back    *)
(* with another provider and the rollout may be in use.                      *)
Resume ==
  /\ At("resume")
  /\ \/ NoFault /\ pc' \in {"end", "undo"}
     \/ Fault /\ Goto("undo")
  /\ UNCHANGED <<server, marked, disk, mem, mode, hidden>>

EndRecovery ==
  /\ At("end")
  /\ hidden' = {}
  /\ \/ NoFault /\ Goto("clear")
     \/ Fault /\ Goto("idle")
  /\ UNCHANGED <<server, marked, disk, mem, mode>>

Undo ==
  /\ At("undo")
  /\ hidden' = {} /\ Goto("idle")
  /\ UNCHANGED <<server, marked, disk, mem, mode, faults>>

(* After its own recovery the handoff goes on to remove the marker; after a  *)
(* repair the request goes on as on a thread without a journal.              *)
Clear ==
  /\ At("clear")
  /\ \/ /\ NoFault /\ disk' = NoJournal
        /\ pc' \in (IF mode = "repair" THEN {"mark", "idle"} ELSE {"unmark"})
     \/ Fault /\ disk' \in {disk, NoJournal} /\ Goto("idle")
  /\ UNCHANGED <<server, marked, mem, mode, hidden>>

Unmark ==
  /\ At("unmark")
  /\ \/ NoFault /\ marked' = FALSE
     \/ Fault /\ UNCHANGED marked
  /\ Goto("idle")
  /\ UNCHANGED <<server, disk, mem, mode, hidden>>

(* The process dies: its memory is gone, what the peers hide is not.         *)
Crash ==
  /\ pc # "idle" /\ Fault /\ Goto("idle")
  /\ UNCHANGED <<server, marked, disk, mem, mode, hidden>>

(* A running agent spawns another.  The root's turns go through the thread   *)
(* lock and have ended before the enumeration; its descendants' do not.      *)
Spawn(t) ==
  /\ t \in Thread \ made
  /\ Parent[t] \in made \ arch
  /\ Parent[t] = Root => At("idle")
  /\ made' = made \cup {t} /\ late' = late \cup {t}
  /\ UNCHANGED <<arch, marked, disk, mem, mode, pc, hidden, faults>>

Operation ==
  \/ Load \/ Mark \/ Inspect \/ SaveStep \/ Begin \/ Archive \/ UnarchiveNext
  \/ AllRestored \/ Resume \/ EndRecovery \/ Undo \/ Clear \/ Unmark

Next ==
  \/ Start \/ Operation \/ Crash
  \/ \E t \in Thread : Spawn(t)

Spec == Init /\ [][Next]_vars

(* The operation runs on, and Desktop keeps sending requests to the thread.  *)
FairSpec == Spec /\ WF_vars(Operation) /\ WF_vars(Start)

-----------------------------------------------------------------------------

TypeOK ==
  /\ made \subseteq Thread /\ Root \in made /\ arch \subseteq made /\ late \subseteq made
  /\ marked \in BOOLEAN
  /\ disk \in Journal /\ mem \in Journal
  /\ mode \in {"recover", "repair"} /\ pc \in Labels
  /\ hidden \subseteq Thread
  /\ faults \in Nat

(* Whatever fails between archive and unarchive, every archived thread that  *)
(* the enumeration could see is in the Remaining list on disk.               *)
Covered == arch \ late \subseteq Range(disk.remaining)

(* The enumeration accepts no subtree that the journal or a peer refuses,    *)
(* and no shortened journal is invalid: the transaction cannot be stopped by *)
(* its own validation after the archive, nor a later repair by the file.     *)
JournalAccepted ==
  /\ Pending => Valid(disk)
  /\ pc \in {"save", "begin", "archive", "saveArchived", "unarchive", "saveRest"}
       => Valid(mem) /\ ValidIds(mem.threads)
  /\ pc = "saveRest" => Valid(Shorter(mem))

(* No thread is restored before the threads below it (the recovery design:   *)
(* descendants before the root).                                             *)
ChildrenFirst ==
  [][\A t \in arch \ arch' : \A c \in arch' \ (late \cup {Root}) : Parent[c] # t]_vars

(* Every archive and unarchive of a listed thread happens while all peers    *)
(* suppress the notification it causes.                                      *)
MovesHidden ==
  [][\A t \in (arch' \ arch) \cup (arch \ arch') : t \in hidden \cup late]_vars

(* The journal is complete, as the recovery design has it: no archived       *)
(* thread is missing from it.                                                *)
WholeSubtree == arch \subseteq Range(disk.remaining)

(* The durable files keep the promises of ThreadFiles also when a subtree    *)
(* is moved thread by thread.                                                *)
Files == INSTANCE ThreadFiles
           WITH Provider <- {TRUE}, NoProvider <- FALSE, marked <- marked,
                journal <- Pending, archived <- (arch \ late # {})
FilesRecoverable == Files!Spec

(* A thread left in the archive by failures comes back once they stop.       *)
Restored == arch \ late # {} ~> arch \subseteq late
=============================================================================
