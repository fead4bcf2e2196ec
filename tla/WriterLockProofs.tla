--------------------------- MODULE WriterLockProofs ---------------------------
(***************************************************************************)
(* Proofs about WriterLock: at most one process holds the writer lock, its *)
(* file is the one the path names, and the protocol implements             *)
(* ExclusiveLock, for any processes and files and any number of failures.  *)
(***************************************************************************)
EXTENDS WriterLock, TLAPS

(* Who has the coordination lock, and who has a lock file open.              *)
Coordinating == {"look", "create", "open", "lock", "leave", "unlock", "unlink", "out"}
Opened == {"lock", "leave", "held", "enter", "unlock", "fallback"}
HoldingLabels == {"leave", "held", "enter", "unlock", "fallback"}

Coordinated == \A p \in Process : coord = p <=> pc[p] \in Coordinating

Descriptors ==
  /\ \A p \in Process : pc[p] \in Opened <=> fd[p] # NoInode
  /\ \A p \in Process : p \in flocked <=> Holding(p)
  /\ \A p \in Process : pc[p] \in Opened => fd[p] = path

(* Nobody holds the lock whose file a release is about to unlink.            *)
Unlinkable == \A p, q \in Process : At(p, "unlink") => ~Holding(q)

LockInv == TypeOK /\ Coordinated /\ Descriptors /\ Unlinkable /\ OneWriter

-----------------------------------------------------------------------------

LEMMA InitInv == Init => LockInv
BY LockAssumption DEF Init, LockInv, TypeOK, Coordinated, Descriptors, Unlinkable, OneWriter,
   Holding, At, Labels, Coordinating, Opened

(* Every step of the protocol keeps the invariant.                           *)
LEMMA StepInv == LockInv /\ [Next]_vars => LockInv'
<1> SUFFICES ASSUME LockInv, [Next]_vars
             PROVE  LockInv'
  OBVIOUS
<1> USE LockAssumption
<1> USE DEF LockInv, TypeOK, Labels, At, NoFault, Fault
<1>0. CASE UNCHANGED vars
  BY <1>0 DEF vars, files, Coordinated, Descriptors, Unlinkable, OneWriter, Holding
<1>1. ASSUME NEW p \in Process, TryCoordination(p)
      PROVE  LockInv'
  BY <1>1 DEF TryCoordination, Goto, files, CoordFree, Coordinated, Descriptors, Unlinkable,
     OneWriter, Holding, Coordinating, Opened
<1>2. ASSUME NEW p \in Process, Refused(p)
      PROVE  LockInv'
  BY <1>2, <1>0 DEF Refused
<1>3. ASSUME NEW p \in Process, Look(p)
      PROVE  LockInv'
  BY <1>3 DEF Look, GiveUp, Uncoordinate, Goto, Coordinated, Descriptors, Unlinkable,
     OneWriter, Holding, Coordinating, Opened
<1>4. ASSUME NEW p \in Process, Create(p)
      PROVE  LockInv'
  BY <1>4 DEF Create, Again, Free, GiveUp, Uncoordinate, Goto, Coordinated, Descriptors,
     Unlinkable, OneWriter, Holding, Coordinating, Opened
<1>5. ASSUME NEW p \in Process, Open(p)
      PROVE  LockInv'
  BY <1>5 DEF Open, Again, GiveUp, Uncoordinate, Goto, Coordinated, Descriptors,
     Unlinkable, OneWriter, Holding, Coordinating, Opened
<1>6. ASSUME NEW p \in Process, Lock(p)
      PROVE  LockInv'
  BY <1>6 DEF Lock, Flocked, GiveUp, Uncoordinate, Goto, Coordinated, Descriptors,
     Unlinkable, OneWriter, Holding, Coordinating, Opened
<1>7. ASSUME NEW p \in Process, Leave(p)
      PROVE  LockInv'
  BY <1>7 DEF Leave, files, Goto, Coordinated, Descriptors, Unlinkable, OneWriter, Holding,
     Coordinating, Opened
<1>8. ASSUME NEW p \in Process, Release(p)
      PROVE  LockInv'
  BY <1>8 DEF Release, files, Goto, Coordinated, Descriptors, Unlinkable, OneWriter, Holding,
     Coordinating, Opened
<1>9. ASSUME NEW p \in Process, Enter(p)
      PROVE  LockInv'
  BY <1>9 DEF Enter, CoordFree, files, Goto, Coordinated, Descriptors, Unlinkable, OneWriter,
     Holding, Coordinating, Opened
<1>10. ASSUME NEW p \in Process, Unlock(p)
       PROVE  LockInv'
  BY <1>10 DEF Unlock, Goto, Coordinated, Descriptors, Unlinkable, OneWriter, Holding,
     Coordinating, Opened
<1>11. ASSUME NEW p \in Process, Unlink(p)
       PROVE  LockInv'
  BY <1>11 DEF Unlink, Goto, Coordinated, Descriptors, Unlinkable, OneWriter, Holding,
     Coordinating, Opened
<1>12. ASSUME NEW p \in Process, Out(p)
       PROVE  LockInv'
  BY <1>12 DEF Out, files, Goto, Coordinated, Descriptors, Unlinkable, OneWriter, Holding,
     Coordinating, Opened
<1>13. ASSUME NEW p \in Process, Fallback(p)
       PROVE  LockInv'
  BY <1>13 DEF Fallback, LeftBehind, Goto, Coordinated, Descriptors, Unlinkable, OneWriter,
     Holding, Coordinating, Opened
<1>14. ASSUME NEW p \in Process, Die(p)
       PROVE  LockInv'
  BY <1>14 DEF Die, Goto, Coordinated, Descriptors, Unlinkable, OneWriter, Holding,
     Coordinating, Opened
<1> QED
  BY <1>0, <1>1, <1>2, <1>3, <1>4, <1>5, <1>6, <1>7, <1>8, <1>9, <1>10, <1>11, <1>12,
     <1>13, <1>14 DEF Next, Acquire, Return

(* The inductive invariant of the protocol: who coordinates, who has which   *)
(* file open and locked, and that a release unlinks only a file nobody holds. *)
THEOREM LockInvariant == Spec => []LockInv
BY InitInv, StepInv, PTL DEF Spec

(* acquireWriterLock never lets two processes write one thread's history.    *)
THEOREM WriterAlone == Spec => []OneWriter
BY LockInvariant, PTL DEF LockInv

(* The file its holder has locked is always the one the path names.          *)
THEOREM HolderIsNamed == Spec => []HolderNamed
<1>1. LockInv => HolderNamed
  BY DEF LockInv, HolderNamed, Descriptors, Holding, Opened
<1> QED
  BY <1>1, LockInvariant, PTL

-----------------------------------------------------------------------------

LEMMA HolderIs ==
  ASSUME OneWriter, NEW p \in Process, Holding(p)
  PROVE  Holder = p
BY DEF OneWriter, Holder

(* Each step leaves the holder alone, or lets one process take or give back  *)
(* the lock.                                                                 *)
LEMMA StepRefines == LockInv /\ LockInv' /\ [Next]_vars => [Lk!Next]_Holder
<1> SUFFICES ASSUME LockInv, LockInv', [Next]_vars
             PROVE  [Lk!Next]_Holder
  OBVIOUS
<1> USE DEF At
<1>1. CASE \A p \in Process : Holding(p)' <=> Holding(p)
  <2>1. CASE \E p \in Process : Holding(p)
    <3>1. PICK p \in Process : Holding(p)
      BY <2>1
    <3>2. Holder = p /\ Holder' = p
      BY <1>1, <3>1, HolderIs DEF LockInv, OneWriter, Holder
    <3> QED
      BY <3>2
  <2>2. CASE ~\E p \in Process : Holding(p)
    BY <1>1, <2>2 DEF Holder
  <2> QED
    BY <2>1, <2>2
<1>2. ASSUME NEW p \in Process, ~Holding(p), Holding(p)',
             \A q \in Process : q # p => (Holding(q)' <=> Holding(q))
      PROVE  [Lk!Next]_Holder
  <2>1. Holder' = p /\ \A q \in Process : ~Holding(q)
    BY <1>2 DEF LockInv, OneWriter, Holder
  <2>2. Holder = Nobody
    BY <2>1 DEF Holder
  <2> QED
    BY <2>1, <2>2 DEF Lk!Next, Lk!Take
<1>3. ASSUME NEW p \in Process, Holding(p), ~Holding(p)',
             \A q \in Process : q # p => (Holding(q)' <=> Holding(q))
      PROVE  [Lk!Next]_Holder
  <2>1. Holder = p /\ \A q \in Process : ~Holding(q)'
    BY <1>3, HolderIs DEF LockInv, OneWriter
  <2>2. Holder' = Nobody
    BY <2>1 DEF Holder
  <2> QED
    BY <2>1, <2>2 DEF Lk!Next, Lk!Give
<1>4. \/ \A p \in Process : Holding(p)' <=> Holding(p)
      \/ \E p \in Process : \A q \in Process : q # p => (Holding(q)' <=> Holding(q))
  <2>1. CASE UNCHANGED vars
    BY <2>1 DEF vars, Holding
  <2>2. ASSUME NEW p \in Process, Acquire(p) \/ Release(p) \/ Return(p)
        PROVE  \A q \in Process : q # p => (Holding(q)' <=> Holding(q))
    BY <2>2 DEF LockInv, TypeOK, Holding, Goto, GiveUp, Acquire, Look, Create, Again, Open, Lock,
       Leave, Release, Return, Enter, Unlock, Unlink, Out, Fallback
  <2>3. ASSUME NEW p \in Process, TryCoordination(p) \/ Refused(p) \/ Die(p)
        PROVE  \A q \in Process : q # p => (Holding(q)' <=> Holding(q))
    BY <2>3 DEF LockInv, TypeOK, Holding, Goto, TryCoordination, Refused, Die, vars
  <2> QED
    BY <2>1, <2>2, <2>3 DEF Next
<1> QED
  BY <1>1, <1>2, <1>3, <1>4

(* acquireWriterLock and its release implement an exclusive lock.            *)
THEOREM LockRefinement == Spec => ActsAsLock
<1>1. Init => Lk!Init
  BY DEF Init, Lk!Init, Holder, Holding
<1> QED
  BY <1>1, StepRefines, LockInvariant, PTL DEF Spec, ActsAsLock, Lk!Spec
=============================================================================
