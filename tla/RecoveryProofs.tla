--------------------------- MODULE RecoveryProofs ---------------------------
(***************************************************************************)
(* Proofs about Recovery: the journal on disk covers every listed thread   *)
(* that is in the archive, no validation ever stops the transaction, and   *)
(* the subtree keeps the promises of ThreadFiles.                          *)
(***************************************************************************)
EXTENDS Recovery, SequenceTheorems, FiniteSetTheorems, TLAPS

(* Where the journal must be valid, and where memory and disk agree.         *)
Carrying == {"save", "begin", "archive", "saveArchived", "unarchive", "saveRest",
             "resume", "end", "clear"}
Agreed == Carrying \ {"save"}
Unjournalled == {"mark", "inspect", "save", "unmark"}
Done == {"resume", "end", "clear"}

Journalled ==
  /\ Pending => Valid(disk)
  /\ pc \in Carrying => Valid(mem)
  /\ pc \in Agreed => disk = mem
  /\ pc \in Unjournalled => ~Pending

(* The list in memory covers what the archive may take, or has taken.        *)
Ahead ==
  /\ pc = "save" \/ pc = "archive" \/ (pc = "begin" /\ mode = "recover")
       => made \ late \subseteq Range(mem.remaining)
  /\ pc = "saveRest" =>
       mem.remaining # <<>> /\ arch \ late \subseteq Range(Tail(mem.remaining))
  /\ pc \in Done => arch \subseteq late

Marked ==
  /\ Pending => marked
  /\ pc \in {"inspect", "save"} => marked

Moving == {"archive", "saveArchived", "unarchive", "saveRest"}
Isolated == pc \in Moving => hidden = Range(mem.threads)

RecoveryInv == TypeOK /\ Journalled /\ Covered /\ Ahead /\ Marked /\ Isolated

-----------------------------------------------------------------------------
(* Sequences *)

(* Append and Tail of a list of threads, and the ids it names.               *)
LEMMA TailRange ==
  ASSUME NEW S, NEW q \in Seq(S), q # <<>>
  PROVE  /\ Tail(q) \in Seq(S) /\ Len(Tail(q)) = Len(q) - 1
         /\ \A i \in DOMAIN Tail(q) : Tail(q)[i] = q[i + 1]
         /\ Range(q) \subseteq {Head(q)} \cup Range(Tail(q))
<1>1. /\ Tail(q) \in Seq(S) /\ Len(Tail(q)) = Len(q) - 1
      /\ \A i \in DOMAIN Tail(q) : Tail(q)[i] = q[i + 1]
      /\ Head(q) = q[1]
  BY HeadTailProperties
<1>2. Len(q) \in Nat \ {0} /\ DOMAIN q = 1..Len(q) /\ DOMAIN Tail(q) = 1..Len(Tail(q))
  BY <1>1, LenProperties, EmptySeq
<1>3. ASSUME NEW i \in DOMAIN q
      PROVE  q[i] = Head(q) \/ q[i] \in Range(Tail(q))
  <2>1. CASE i = 1
    BY <1>1, <2>1
  <2>2. CASE i # 1
    <3>1. i - 1 \in DOMAIN Tail(q) /\ Tail(q)[i - 1] = q[i]
      BY <1>1, <1>2, <1>3, <2>2
    <3> QED
      BY <3>1 DEF Range
  <2> QED
    BY <2>1, <2>2
<1> QED
  BY <1>1, <1>3 DEF Range

(* The journal that forgets a restored thread is as valid as it was.         *)
LEMMA ShorterValid ==
  ASSUME NEW j \in Journal, Valid(j), j.remaining # <<>>
  PROVE  /\ Shorter(j) \in Journal /\ Valid(Shorter(j))
         /\ Shorter(j).remaining = Tail(j.remaining) /\ Shorter(j).threads = j.threads
<1> DEFINE k == Shorter(j)
<1>1. j.remaining \in Seq(Thread) /\ j.threads \in Seq(Thread)
  BY DEF Journal
<1>2. /\ Tail(j.remaining) \in Seq(Thread)
      /\ Len(Tail(j.remaining)) = Len(j.remaining) - 1
      /\ \A i \in DOMAIN Tail(j.remaining) : Tail(j.remaining)[i] = j.remaining[i + 1]
  BY <1>1, TailRange
<1>3. k.threads = j.threads /\ k.remaining = Tail(j.remaining) /\ k \in Journal
  BY <1>2 DEF Journal, Shorter
<1>4. Len(j.remaining) \in Nat /\ Len(j.threads) \in Nat
      /\ DOMAIN j.remaining = 1..Len(j.remaining)
      /\ DOMAIN Tail(j.remaining) = 1..Len(Tail(j.remaining))
  BY <1>1, <1>2, LenProperties
<1>5. ASSUME NEW i \in DOMAIN Tail(j.remaining)
      PROVE  Tail(j.remaining)[i] = j.threads[Len(j.threads) - Len(Tail(j.remaining)) + i]
  <2>1. i + 1 \in DOMAIN j.remaining
    BY <1>2, <1>4, <1>5
  <2>2. j.remaining[i + 1] = j.threads[Len(j.threads) - Len(j.remaining) + (i + 1)]
    BY <2>1 DEF Valid
  <2>3. Len(j.threads) - Len(j.remaining) + (i + 1)
          = Len(j.threads) - Len(Tail(j.remaining)) + i
    <3>1. i \in Nat /\ Len(Tail(j.remaining)) = Len(j.remaining) - 1
      BY <1>2, <1>4, <1>5
    <3>2. \A x, y, z \in Nat : x - y + (z + 1) = x - (y - 1) + z
      OBVIOUS
    <3>3. Len(j.threads) - Len(j.remaining) + (i + 1)
            = Len(j.threads) - (Len(j.remaining) - 1) + i
      BY <1>4, <3>1, <3>2, Zenon
    <3> QED
      BY <3>1, <3>3, Zenon
  <2> QED
    BY <1>2, <1>5, <2>2, <2>3
<1> QED
  BY <1>2, <1>3, <1>4, <1>5 DEF Valid

(* The ids of a valid journal are valid for the peers.                       *)
LEMMA IdsValid ==
  ASSUME NEW j \in Journal, Valid(j)
  PROVE  ValidIds(j.threads) /\ j # NoJournal
<1>1. j.threads \in Seq(Thread) /\ j.threads # <<>>
  BY DEF Journal, Valid, EndsInRoot
<1>2. Len(j.threads) \in DOMAIN j.threads
  BY <1>1, LenProperties, EmptySeq
<1> QED
  BY <1>1, <1>2 DEF Valid, ValidIds, EndsInRoot, Range, NoJournal

(* What the enumeration returns: every listed thread once, the root last.    *)
LEMMA OrderValid ==
  ASSUME NEW S \in SUBSET Thread, Root \in S, ~TooMany(S), NEW q \in Orders(S)
  PROVE  /\ Fresh(q) \in Journal /\ Valid(Fresh(q)) /\ S \subseteq Range(q)
         /\ Fresh(q).remaining = q
<1>1. PICK n \in Nat : n = Cardinality(S \ {Root}) /\ Cardinality(S) = n + 1
  <2>1. IsFiniteSet(S) /\ IsFiniteSet(S \ {Root})
    BY RecoveryAssumption, FS_Subset, FS_RemoveElement
  <2>2. /\ Cardinality(S) \in Nat /\ Cardinality(S \ {Root}) \in Nat
        /\ Cardinality(S \ {Root}) = Cardinality(S) - 1
    BY <2>1, FS_RemoveElement, FS_CardinalityType
  <2> QED
    BY <2>2
<1>2. PICK f \in Bijection(1..n, S \ {Root}) : q = Append(f, Root)
  BY <1>1 DEF Orders
<1>3. /\ f \in [1..n -> S \ {Root}] /\ IsInjective(f)
      /\ \A t \in S \ {Root} : \E i \in 1..n : f[i] = t
  BY <1>2 DEF Bijection, Injection, Surjection
<1>4. f \in Seq(Thread) /\ Len(f) = n /\ DOMAIN f = 1..n
  <2>1. f \in [1..n -> Thread]
    BY <1>3
  <2>2. f \in Seq(Thread)
    <3>1. f \in UNION {[1..m -> Thread] : m \in Nat}
      BY <1>1, <2>1
    <3> QED
      BY <3>1, SeqDef
  <2>3. DOMAIN f = 1..Len(f) /\ Len(f) \in Nat
    BY <2>2, LenProperties
  <2> QED
    BY <1>1, <2>1, <2>2, <2>3
<1>5. /\ q \in Seq(Thread) /\ Len(q) = n + 1 /\ DOMAIN q = 1..(n + 1)
      /\ \A i \in 1..n : q[i] = f[i]
      /\ q[n + 1] = Root
  <2>1. Root \in Thread
    BY RecoveryAssumption
  <2>2. /\ q \in Seq(Thread) /\ Len(q) = Len(f) + 1
        /\ \A i \in 1..Len(f) : q[i] = f[i]
        /\ q[Len(f) + 1] = Root
    BY <1>2, <1>4, <2>1, AppendProperties
  <2>3. DOMAIN q = 1..Len(q)
    BY <2>2, LenProperties
  <2> QED
    BY <1>4, <2>2, <2>3
<1>6. Distinct(q)
  <2>1. \A i, k \in 1..n : f[i] = f[k] => i = k
    BY <1>3, <1>4 DEF IsInjective
  <2>2. \A i \in 1..n : q[i] \in S \ {Root}
    BY <1>3, <1>5
  <2>3. SUFFICES ASSUME NEW i \in 1..(n + 1), NEW k \in 1..(n + 1), q[i] = q[k]
                 PROVE  i = k
    BY <1>5 DEF Distinct, IsInjective
  <2>4. (i \in 1..n \/ i = n + 1) /\ (k \in 1..n \/ k = n + 1)
    BY <1>1
  <2> QED
    BY <1>5, <2>1, <2>2, <2>3, <2>4
<1>7. S \subseteq Range(q)
  <2>1. ASSUME NEW t \in S \ {Root}
        PROVE  t \in Range(q)
    <3>1. PICK i \in 1..n : f[i] = t
      BY <1>3, <2>1
    <3>2. i \in DOMAIN q
      BY <1>1, <1>5, <3>1
    <3>3. q[i] = t
      BY <1>5, <3>1
    <3> QED
      BY <3>2, <3>3 DEF Range
  <2>2. Root \in Range(q)
    <3>1. n + 1 \in DOMAIN q
      BY <1>1, <1>5
    <3> QED
      BY <1>5, <3>1 DEF Range
  <2> QED
    BY <2>1, <2>2
<1>8. Len(q) <= Limit /\ EndsInRoot(q)
  BY <1>1, <1>5, RecoveryAssumption, EmptySeq DEF TooMany, EndsInRoot
<1>9. \A i \in DOMAIN q : q[i] = q[Len(q) - Len(q) + i]
  BY <1>1, <1>5
<1> QED
  BY <1>5, <1>6, <1>7, <1>8, <1>9 DEF Fresh, Journal, Valid

LEMMA NothingRemains ==
  NoJournal \in Journal /\ Range(NoJournal.remaining) = {} /\ Range(<<>>) = {}
<1>1. <<>> \in Seq(Thread) /\ DOMAIN <<>> = {}
  BY EmptySeq, LenProperties
<1> QED
  BY <1>1 DEF NoJournal, Journal, Range

-----------------------------------------------------------------------------
(* The inductive invariant, one lemma per group of actions.                  *)

(* Steps that leave the archive, the journals and the marker alone.          *)
LEMMA QuietKeeps ==
  ASSUME RecoveryInv,
         UNCHANGED <<server, marked, disk>>,
         \/ Start
         \/ Load
         \/ Begin
         \/ AllRestored
         \/ Resume
         \/ EndRecovery
         \/ Undo
         \/ Crash
  PROVE  RecoveryInv'
<1> USE DEF RecoveryInv, TypeOK, Journalled, Covered, Ahead, Marked, Isolated, Moving,
      Pending, Carrying,
            Agreed, Unjournalled, Done, Labels, At, Goto, NoFault, Fault, server
<1>1. CASE Start
  BY <1>1 DEF Start
<1>2. CASE Load
  BY <1>2 DEF Load
<1>3. CASE Begin
  BY <1>3, IdsValid DEF Begin, Announced, Range, Journal
<1>4. CASE AllRestored
  BY <1>4, NothingRemains DEF AllRestored
<1>5. CASE Resume
  BY <1>5 DEF Resume
<1>6. CASE EndRecovery
  BY <1>6 DEF EndRecovery
<1>7. CASE Undo
  BY <1>7 DEF Undo
<1>8. CASE Crash
  BY <1>8 DEF Crash
<1> QED
  BY <1>1, <1>2, <1>3, <1>4, <1>5, <1>6, <1>7, <1>8

LEMMA FaultsType ==
  ASSUME faults \in Nat, NoFault \/ Fault
  PROVE  faults' \in Nat
  BY DEF NoFault, Fault

(* The marker is written before the journal and goes after it.               *)
LEMMA MarkerKeeps ==
  ASSUME RecoveryInv, Mark \/ Unmark
  PROVE  RecoveryInv'
<1> USE DEF RecoveryInv, TypeOK, Journalled, Covered, Ahead, Marked, Isolated, Moving,
      Pending, Carrying,
            Agreed, Unjournalled, Done, Labels, At, Goto, NoFault, Fault, server
<1>1. /\ UNCHANGED <<made, arch, late, disk, mem, mode, hidden>>
      /\ pc \in {"mark", "unmark"} /\ pc' \in {"inspect", "unmark", "idle"}
      /\ ~Pending
  BY DEF Mark, Unmark
<1> HIDE DEF NoFault, Fault
<1>3. faults' \in Nat
  BY FaultsType DEF Mark, Unmark
<1>2. marked' \in BOOLEAN /\ (pc' = "inspect" => marked')
  <2>1. CASE Mark
    BY <1>1, <2>1 DEF Mark
  <2>2. CASE Unmark
    BY <1>1, <2>2 DEF Unmark
  <2> QED
    BY <2>1, <2>2
<1> QED
  BY <1>1, <1>2, <1>3

(* The enumeration puts every thread it lists into the journal in memory.    *)
LEMMA InspectKeeps ==
  ASSUME RecoveryInv, Inspect
  PROVE  RecoveryInv'
<1> USE DEF RecoveryInv, TypeOK, Journalled, Covered, Ahead, Marked, Isolated, Moving,
      Pending, Carrying,
            Agreed, Unjournalled, Done, Labels, At, Goto, NoFault, Fault, server
<1>1. disk = NoJournal /\ arch \subseteq late
  BY NothingRemains DEF Inspect
<1>2. CASE /\ UNCHANGED <<made, arch, late, marked, disk, mem, mode, hidden>>
           /\ pc' = "idle" /\ faults' \in Nat
  BY <1>1, <1>2
<1>3. ASSUME NEW q \in Orders(Listed), mem' = Fresh(q), Root \notin arch, ~TooMany(Listed),
             late' = late \cap arch, pc' = "save", NoFault
      PROVE  RecoveryInv'
  <2>1. Listed \in SUBSET Thread
    BY DEF Listed
  <2>2. /\ Fresh(q) \in Journal /\ Valid(Fresh(q)) /\ Listed \subseteq Range(q)
        /\ Fresh(q).remaining = q
    BY <1>3, <2>1, OrderValid DEF Listed
  <2>3. made \ late' \subseteq Range(mem'.remaining)
    BY <1>1, <1>3, <2>2 DEF Listed
  <2>4. /\ UNCHANGED <<made, arch, marked, disk, mode, hidden>> /\ faults' = faults
        /\ pc = "inspect"
    BY <1>3 DEF Inspect
  <2> QED
    BY <1>1, <1>3, <2>2, <2>3, <2>4
<1> QED
  BY <1>2, <1>3 DEF Inspect

(* Saving a valid journal that covers the archive, or failing to.            *)
LEMMA SaveKeeps ==
  ASSUME RecoveryInv, SaveStep
  PROVE  RecoveryInv'
<1> USE DEF RecoveryInv, TypeOK, Journalled, Covered, Ahead, Marked, Isolated, Moving,
      Pending, Carrying,
            Agreed, Unjournalled, Done, Labels, At, Goto, server
<1>1. CASE Save("save", mem, "begin", "idle")
  <2>1. /\ UNCHANGED <<made, arch, late, marked, mode, hidden, mem>> /\ pc = "save"
        /\ faults' \in Nat
        /\ (disk' = mem /\ pc' = "begin") \/ (disk' \in {disk, mem} /\ pc' = "idle")
    BY <1>1, FaultsType DEF Save, Persist
  <2>2. Range(mem.remaining) \subseteq Thread /\ arch \ late \subseteq Range(mem.remaining)
    BY <2>1 DEF Journal, Range
  <2> QED
    BY <2>1, <2>2
<1>2. CASE Save("saveArchived", mem, "unarchive", "undo")
  <2>1. /\ UNCHANGED <<made, arch, late, marked, mode, hidden, mem>> /\ pc = "saveArchived"
        /\ faults' \in Nat
        /\ disk' = disk /\ pc' \in {"unarchive", "undo"}
    BY <1>2, FaultsType DEF Save, Persist
  <2> QED
    BY <2>1
<1>3. CASE Save("saveRest", Shorter(mem), "unarchive", "undo")
  <2>1. /\ UNCHANGED <<made, arch, late, marked, mode, hidden>> /\ pc = "saveRest"
        /\ faults' \in Nat
    BY <1>3, FaultsType DEF Save
  <2>2. /\ Shorter(mem) \in Journal /\ Valid(Shorter(mem))
        /\ Shorter(mem).remaining = Tail(mem.remaining) /\ Shorter(mem).threads = mem.threads
        /\ arch \ late \subseteq Range(Tail(mem.remaining))
        /\ disk = mem /\ Valid(mem) /\ mem \in Journal
    BY <2>1, ShorterValid
  <2>3. \/ disk' = Shorter(mem) /\ mem' = Shorter(mem) /\ pc' = "unarchive"
        \/ disk' \in {disk, Shorter(mem)} /\ mem' = mem /\ pc' = "undo"
    BY <1>3, <2>2 DEF Save, Persist
  <2>4. marked
    BY <2>2, IdsValid
  <2> QED
    BY <2>1, <2>2, <2>3, <2>4
<1> QED
  BY <1>1, <1>2, <1>3 DEF SaveStep

(* The archive takes only threads the journal in memory lists.               *)
LEMMA ArchiveKeeps ==
  ASSUME RecoveryInv, Archive
  PROVE  RecoveryInv'
<1>1. /\ UNCHANGED <<made, late, marked, disk, mem, mode, hidden>> /\ pc = "archive"
      /\ faults' \in Nat /\ arch' \subseteq made
      /\ pc' \in {"saveArchived", "undo"}
  BY FaultsType DEF RecoveryInv, TypeOK, Archive, At, Goto
<1>2. arch' \ late \subseteq Range(mem.remaining) /\ disk = mem
  BY <1>1 DEF RecoveryInv, TypeOK, Ahead, Journalled, Agreed, Carrying
<1> QED
  BY <1>1, <1>2 DEF RecoveryInv, TypeOK, Journalled, Covered, Ahead, Marked, Isolated,
        Moving, Pending, Carrying,
            Agreed, Unjournalled, Done, Labels

(* The thread whose unarchive was answered is the only one the next list     *)
(* leaves out.                                                               *)
LEMMA UnarchiveKeeps ==
  ASSUME RecoveryInv, UnarchiveNext
  PROVE  RecoveryInv'
<1> DEFINE t == Head(mem.remaining)
<1>1. /\ UNCHANGED <<made, late, marked, disk, mem, mode, hidden>> /\ pc = "unarchive"
      /\ faults' \in Nat /\ arch' \subseteq arch /\ mem.remaining # <<>>
      /\ pc' \in {"saveRest", "undo"}
      /\ pc' = "saveRest" => arch' = arch \ {t}
  BY FaultsType DEF RecoveryInv, TypeOK, UnarchiveNext, At, Goto
<1>2. disk = mem /\ mem.remaining \in Seq(Thread)
  BY <1>1 DEF RecoveryInv, TypeOK, Journalled, Agreed, Carrying, Journal
<1>3. Range(mem.remaining) \subseteq {t} \cup Range(Tail(mem.remaining))
  BY <1>1, <1>2, TailRange
<1>4. pc' = "saveRest" => arch' \ late \subseteq Range(Tail(mem.remaining))
  BY <1>1, <1>2, <1>3 DEF RecoveryInv, Covered
<1> QED
  BY <1>1, <1>2, <1>4 DEF RecoveryInv, TypeOK, Journalled, Covered, Ahead, Marked,
        Isolated, Moving, Pending,
            Carrying, Agreed, Unjournalled, Done, Labels

(* The journal goes when nothing it listed is archived any more.             *)
LEMMA ClearKeeps ==
  ASSUME RecoveryInv, Clear
  PROVE  RecoveryInv'
<1>1. /\ UNCHANGED <<made, arch, late, marked, mem, mode, hidden>> /\ pc = "clear"
      /\ faults' \in Nat
      /\ (disk' = NoJournal /\ pc' \in {"mark", "idle", "unmark"})
         \/ (disk' \in {disk, NoJournal} /\ pc' = "idle")
  BY FaultsType DEF RecoveryInv, TypeOK, Clear, At, Goto, server
<1>2. arch \subseteq late
  BY <1>1 DEF RecoveryInv, Ahead, Done
<1> QED
  BY <1>1, <1>2, NothingRemains DEF RecoveryInv, TypeOK, Journalled, Covered, Ahead,
        Marked, Isolated, Moving,
            Pending, Carrying, Agreed, Unjournalled, Done, Labels

(* A thread spawned after the enumeration is late.                           *)
LEMMA SpawnKeeps ==
  ASSUME RecoveryInv, NEW t \in Thread, Spawn(t)
  PROVE  RecoveryInv'
  BY DEF RecoveryInv, TypeOK, Journalled, Covered, Ahead, Marked, Isolated, Moving,
        Pending, Carrying,
         Agreed, Unjournalled, Done, Labels, Spawn, At

LEMMA StutterKeeps ==
  ASSUME RecoveryInv, UNCHANGED vars
  PROVE  RecoveryInv'
  BY DEF RecoveryInv, TypeOK, Journalled, Covered, Ahead, Marked, Isolated, Moving,
        Pending, Carrying,
         Agreed, Unjournalled, Done, Labels, vars, server

LEMMA InitInv == Init => RecoveryInv
<1> SUFFICES ASSUME Init PROVE RecoveryInv
  OBVIOUS
<1> QED
  BY NothingRemains DEF Init, RecoveryInv, TypeOK, Journalled, Covered, Ahead, Marked,
        Isolated, Moving,
         Pending, Carrying, Agreed, Unjournalled, Done, Labels

(* Start, Load, Begin, Resume, EndRecovery, Undo and Crash move nothing.     *)
LEMMA NextInv == RecoveryInv /\ [Next]_vars => RecoveryInv'
<1> SUFFICES ASSUME RecoveryInv, [Next]_vars PROVE RecoveryInv'
  OBVIOUS
<1>1. CASE Start \/ Load \/ Begin \/ AllRestored \/ Resume \/ EndRecovery \/ Undo \/ Crash
  <2>1. UNCHANGED <<server, marked, disk>>
    BY <1>1 DEF Start, Load, Begin, AllRestored, Resume, EndRecovery, Undo, Crash
  <2> QED
    BY <1>1, <2>1, QuietKeeps
<1>2. CASE Mark \/ Unmark
  BY <1>2, MarkerKeeps
<1>3. CASE Inspect
  BY <1>3, InspectKeeps
<1>4. CASE SaveStep
  BY <1>4, SaveKeeps
<1>5. CASE Archive
  BY <1>5, ArchiveKeeps
<1>6. CASE UnarchiveNext
  BY <1>6, UnarchiveKeeps
<1>7. CASE Clear
  BY <1>7, ClearKeeps
<1>8. CASE \E t \in Thread : Spawn(t)
  BY <1>8, SpawnKeeps
<1>9. CASE UNCHANGED vars
  BY <1>9, StutterKeeps
<1> QED
  BY <1>1, <1>2, <1>3, <1>4, <1>5, <1>6, <1>7, <1>8, <1>9 DEF Next, Operation

-----------------------------------------------------------------------------
(* The theorems *)

THEOREM RecoveryInvariance == Spec => []RecoveryInv
  BY InitInv, NextInv, PTL DEF Spec

(* Whatever fails, every listed thread that is in the archive is in the      *)
(* Remaining list of the journal file (recoverProviderMismatch).             *)
THEOREM AlwaysCovered == Spec => []Covered
<1>1. RecoveryInv => Covered
  BY DEF RecoveryInv
<1> QED
  BY <1>1, RecoveryInvariance, PTL

(* The ids that remain are among those the peers were told to hide.          *)
LEMMA RemainingListed ==
  ASSUME NEW j \in Journal, Valid(j)
  PROVE  Range(j.remaining) \subseteq Range(j.threads)
<1>1. /\ j.remaining \in Seq(Thread) /\ j.threads \in Seq(Thread)
      /\ Len(j.remaining) <= Len(j.threads)
      /\ \A i \in DOMAIN j.remaining :
           j.remaining[i] = j.threads[Len(j.threads) - Len(j.remaining) + i]
  BY DEF Journal, Valid
<1>2. /\ Len(j.remaining) \in Nat /\ DOMAIN j.remaining = 1..Len(j.remaining)
      /\ Len(j.threads) \in Nat /\ DOMAIN j.threads = 1..Len(j.threads)
  BY <1>1, LenProperties
<1>3. ASSUME NEW i \in DOMAIN j.remaining
      PROVE  Len(j.threads) - Len(j.remaining) + i \in DOMAIN j.threads
  <2>1. \A x, y \in Nat : \A k \in 1..y : y <= x => x - y + k \in 1..x
    OBVIOUS
  <2>2. i \in 1..Len(j.remaining)
    BY <1>2, <1>3
  <2>3. Len(j.threads) - Len(j.remaining) + i \in 1..Len(j.threads)
    BY <1>1, <1>2, <2>1, <2>2, Zenon
  <2> QED
    BY <1>2, <2>3
<1> QED
  BY <1>1, <1>3 DEF Range

(* The transaction's own validation, in the store and in the peers, never    *)
(* stops it or a later repair (validateJournal, validRecoveryIDs).           *)
THEOREM NeverRefused == Spec => []JournalAccepted
<1>1. RecoveryInv => JournalAccepted
  <2> SUFFICES ASSUME RecoveryInv PROVE JournalAccepted
    OBVIOUS
  <2>1. pc \in Carrying => Valid(mem) /\ mem \in Journal /\ ValidIds(mem.threads)
    BY IdsValid DEF RecoveryInv, TypeOK, Journalled
  <2>2. pc = "saveRest" => Valid(Shorter(mem))
    BY <2>1, ShorterValid DEF RecoveryInv, Ahead, Carrying
  <2> QED
    BY <2>1, <2>2 DEF RecoveryInv, Journalled, JournalAccepted, Carrying
<1> QED
  BY <1>1, RecoveryInvariance, PTL

(* The archive notifications of listed threads are suppressed by every peer  *)
(* at the moment they are sent (BeginRecoveryAll before thread/archive).     *)
THEOREM AlwaysHidden == Spec => MovesHidden
<1> DEFINE Step == \A t \in (arch' \ arch) \cup (arch \ arch') : t \in hidden \cup late
<1>1. ASSUME RecoveryInv, Next PROVE Step
  <2>1. CASE Archive
    <3>1. arch' \subseteq made /\ arch \subseteq arch'
      BY <1>1, <2>1 DEF Archive, RecoveryInv, TypeOK
    <3>2. made \ late \subseteq Range(mem.remaining) /\ hidden = Range(mem.threads)
      BY <1>1, <2>1 DEF Archive, RecoveryInv, Ahead, Isolated, Moving, At
    <3>3. Range(mem.remaining) \subseteq Range(mem.threads)
      BY <1>1, <2>1, RemainingListed DEF Archive, RecoveryInv, TypeOK, Journalled, Carrying, At
    <3> QED
      BY <3>1, <3>2, <3>3
  <2>2. CASE UnarchiveNext
    <3>1. /\ arch' \subseteq arch /\ arch \ arch' \subseteq {Head(mem.remaining)}
          /\ mem.remaining # <<>>
      BY <2>2 DEF UnarchiveNext
    <3>2. /\ hidden = Range(mem.threads) /\ mem \in Journal /\ Valid(mem)
      BY <1>1, <2>2 DEF UnarchiveNext, RecoveryInv, TypeOK, Journalled, Carrying, Isolated,
            Moving, At
    <3>3. Head(mem.remaining) \in Range(mem.remaining)
      <4>1. mem.remaining \in Seq(Thread)
        BY <3>2 DEF Journal
      <4>2. 1 \in DOMAIN mem.remaining /\ Head(mem.remaining) = mem.remaining[1]
        BY <3>1, <4>1, LenProperties, EmptySeq, HeadTailProperties
      <4> QED
        BY <4>2 DEF Range
    <3> QED
      BY <3>1, <3>2, <3>3, RemainingListed
  <2>3. CASE UNCHANGED arch
    BY <2>3
  <2> QED
    BY <1>1, <2>1, <2>2, <2>3 DEF Next, Operation, Start, Load, Mark, Inspect, SaveStep, Save,
       Begin, AllRestored, Resume, EndRecovery, Undo, Clear, Unmark, Crash, Spawn, server
<1>2. RecoveryInv /\ [Next]_vars => [Step]_vars
  BY <1>1
<1>3. Spec => [][Step]_vars
  BY <1>2, RecoveryInvariance, PTL DEF Spec
<1> QED
  BY <1>3 DEF MovesHidden

-----------------------------------------------------------------------------
(* The refinement of ThreadFiles *)

(* Every step changes marker, journal and archive as ThreadFiles allows.     *)
LEMMA FilesStep ==
  ASSUME RecoveryInv, [Next]_vars
  PROVE  [Files!Next]_(Files!files)
<1> USE DEF Files!Next, Files!files, Files!Mark, Files!Save, Files!Archive, Files!Unarchive,
            Files!Clear, Files!Unmark
<1>1. /\ arch \subseteq made /\ marked \in BOOLEAN
      /\ Covered /\ Ahead /\ Marked /\ Journalled /\ RecoveryInv'
  BY NextInv DEF RecoveryInv, TypeOK
<1>2. CASE UNCHANGED <<arch, late, marked, disk>>
  BY <1>2 DEF Pending
<1>3. CASE Mark
  <2>1. UNCHANGED <<arch, late, disk>> /\ (marked' = marked \/ marked' = TRUE)
    BY <1>3 DEF Mark, server
  <2> QED
    BY <2>1 DEF Pending
<1>4. CASE Inspect
  <2>1. UNCHANGED <<arch, marked, disk>> /\ (late' = late \cap arch \/ late' = late)
    BY <1>4 DEF Inspect
  <2> QED
    BY <2>1 DEF Pending
<1>5. CASE SaveStep
  <2>1. UNCHANGED <<arch, late, marked>>
    BY <1>5 DEF SaveStep, Save, server
  <2>2. CASE pc = "save"
    <3>1. ~Pending /\ marked /\ arch \subseteq late
      BY <1>1, <2>2, NothingRemains DEF Journalled, Unjournalled, Marked, Covered, Pending
    <3> QED
      BY <2>1, <3>1 DEF Pending
  <2>3. CASE pc # "save"
    <3>1. pc \in {"saveArchived", "saveRest"} /\ Pending /\ disk = mem
      BY <1>1, <1>5, <2>3, IdsValid
         DEF SaveStep, Save, At, Journalled, Agreed, Carrying, RecoveryInv, TypeOK, Pending
    <3>2. disk' \in {disk, mem, Shorter(mem)}
      BY <1>5 DEF SaveStep, Save, Persist
    <3>3. Shorter(mem).threads = mem.threads /\ mem.threads # <<>>
      BY <3>1, <1>1 DEF Shorter, Journalled, Agreed, Carrying, Valid, EndsInRoot
    <3>4. Pending'
      BY <3>1, <3>2, <3>3 DEF Pending, NoJournal
    <3> QED
      BY <2>1, <3>1, <3>4 DEF Pending
  <2> QED
    BY <2>2, <2>3
<1>6. CASE Archive
  <2>1. UNCHANGED <<late, marked, disk>> /\ arch \subseteq arch' /\ pc = "archive"
    BY <1>1, <1>6 DEF Archive, At
  <2>2. Pending
    BY <1>1, <2>1, IdsValid DEF Journalled, Agreed, Carrying, RecoveryInv, TypeOK, Pending
  <2> QED
    BY <2>1, <2>2 DEF Pending
<1>7. CASE UnarchiveNext
  <2>1. UNCHANGED <<late, marked, disk>> /\ arch' \subseteq arch
    BY <1>7 DEF UnarchiveNext
  <2> QED
    BY <2>1 DEF Pending
<1>8. CASE Clear
  <2>1. UNCHANGED <<arch, late, marked>> /\ disk' \in {disk, NoJournal} /\ pc = "clear"
    BY <1>8 DEF Clear, At, server
  <2>2. arch \subseteq late
    BY <1>1, <2>1 DEF Ahead, Done
  <2> QED
    BY <2>1, <2>2 DEF Pending
<1>9. CASE Unmark
  <2>1. UNCHANGED <<arch, late, disk>> /\ (marked' = marked \/ marked' = FALSE) /\ pc = "unmark"
    BY <1>9 DEF Unmark, At, server
  <2>2. ~Pending
    BY <1>1, <2>1 DEF Journalled, Unjournalled
  <2> QED
    BY <2>1, <2>2 DEF Pending
<1>10. CASE \E t \in Thread : Spawn(t)
  <2>1. PICK t \in Thread \ made : UNCHANGED <<arch, marked, disk>> /\ late' = late \cup {t}
    BY <1>10 DEF Spawn
  <2>2. arch \ late' = arch \ late
    BY <1>1, <2>1
  <2> QED
    BY <2>1, <2>2 DEF Pending
<1> QED
  BY <1>2, <1>3, <1>4, <1>5, <1>6, <1>7, <1>8, <1>9, <1>10
     DEF Next, Operation, Start, Load, Begin, AllRestored, Resume, EndRecovery, Undo, Crash,
         server, vars

(* Recovery of a whole subtree keeps the promises of ThreadFiles.            *)
THEOREM SubtreeRecoverable == Spec => FilesRecoverable
<1>1. Init => Files!Init
  BY DEF Init, Files!Init, Pending
<1>2. RecoveryInv /\ [Next]_vars => [Files!Next]_(Files!files)
  BY FilesStep
<1> QED
  BY <1>1, <1>2, RecoveryInvariance, PTL DEF Spec, FilesRecoverable, Files!Spec
=============================================================================
