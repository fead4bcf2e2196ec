------------------------------ MODULE WriterLock ------------------------------
(***************************************************************************)
(* The thread writer lock (internal/rollout/sanitize.go, acquireWriterLock *)
(* and openLockFile; writer_lock of scripts/history-maintenance.py): a     *)
(* flock on a file that its holder unlinks when it lets go, so that a      *)
(* process may hold a lock on a file nobody else can find.  The            *)
(* coordination file, which is never removed, is what makes that safe.     *)
(* Switchers, history maintenance and the app-server run the same protocol *)
(* for one thread.                                                         *)
(***************************************************************************)
EXTENDS Naturals, FiniteSets

CONSTANTS Process, Nobody,
          Inode, NoInode,   \* file numbers, used again once a file is gone
          MaxFaults         \* bound: failed system calls, deaths

ASSUME LockAssumption ==
  /\ Nobody \notin Process /\ NoInode \notin Inode
  /\ MaxFaults \in Nat

VARIABLES coord,    \* who has the flock on .coordination.lock
          path,     \* the file the lock's path names
          fd,       \* the lock file a process has open
          flocked,  \* processes with the flock on the file they have open
          seen,     \* what openLockFile's Lstat found
          tries,    \* its attempts so far
          pc,       \* next step of the process
          faults

files == <<path, fd, flocked>>
vars == <<coord, files, seen, tries, pc, faults>>

Labels == {"idle", "look", "create", "open", "lock", "leave",
           "held", "enter", "unlock", "unlink", "out", "fallback"}

(* A process believes the thread's rollout is its own to write.              *)
Holding(p) == pc[p] \in {"leave", "held", "enter", "unlock", "fallback"}

Init ==
  /\ coord = Nobody
  /\ path \in Inode \cup {NoInode}
  /\ fd = [p \in Process |-> NoInode]
  /\ flocked = {}
  /\ seen = [p \in Process |-> NoInode]
  /\ tries = [p \in Process |-> 0]
  /\ pc = [p \in Process |-> "idle"]
  /\ faults = 0

NoFault == UNCHANGED faults
Fault == faults < MaxFaults /\ faults' = faults + 1

At(p, label) == pc[p] = label
Goto(p, label) == pc' = [pc EXCEPT ![p] = label]

(* A file number that neither a name nor an open descriptor keeps alive.     *)
Free == Inode \ ({path} \cup {fd[p] : p \in Process})

Flocked(i) == \E q \in flocked : fd[q] = i

CoordFree == coord = Nobody

-----------------------------------------------------------------------------
(* acquireWriterLock *)

(* Every failure ends with the coordination lock given back.                 *)
KeepCoordination == UNCHANGED coord
Uncoordinate == coord' = Nobody

GiveUp(p) ==
  /\ Uncoordinate
  /\ fd' = [fd EXCEPT ![p] = NoInode]
  /\ Goto(p, "idle")

(* ErrActiveWriter also while somebody merely takes or gives back the lock.  *)
Refused(p) == At(p, "idle") /\ ~CoordFree /\ UNCHANGED vars

TryCoordination(p) ==
  /\ At(p, "idle") /\ CoordFree
  /\ coord' = p /\ tries' = [tries EXCEPT ![p] = 0] /\ Goto(p, "look")
  /\ UNCHANGED <<files, seen, faults>>

(* openLockFile: Lstat ... *)
Look(p) ==
  /\ At(p, "look")
  /\ \/ /\ NoFault
        /\ seen' = [seen EXCEPT ![p] = path]
        /\ Goto(p, IF path = NoInode THEN "create" ELSE "open")
        /\ UNCHANGED <<coord, fd>>
     \/ Fault /\ GiveUp(p) /\ UNCHANGED seen
  /\ UNCHANGED <<path, flocked, tries>>

Again(p) ==
  IF tries[p] < 2
  THEN tries' = [tries EXCEPT ![p] = @ + 1] /\ Goto(p, "look") /\ UNCHANGED <<coord, fd>>
  ELSE GiveUp(p) /\ UNCHANGED tries

(* ... then O_CREAT|O_EXCL when there was nothing, ...                       *)
Create(p) ==
  /\ At(p, "create")
  /\ \/ /\ NoFault /\ path = NoInode
        /\ \E i \in Free : path' = i /\ fd' = [fd EXCEPT ![p] = i]
        /\ Goto(p, "lock") /\ UNCHANGED <<coord, tries>>
     \/ NoFault /\ path # NoInode /\ Again(p) /\ UNCHANGED path
     \/ Fault /\ GiveUp(p) /\ UNCHANGED <<path, tries>>
  /\ UNCHANGED <<flocked, seen>>

(* ... or open and SameFile.                                                 *)
Open(p) ==
  /\ At(p, "open")
  /\ \/ /\ NoFault /\ path # NoInode /\ path = seen[p]
        /\ fd' = [fd EXCEPT ![p] = path]
        /\ Goto(p, "lock") /\ UNCHANGED <<coord, tries>>
     \/ NoFault /\ path # NoInode /\ path # seen[p] /\ Again(p)
     \/ (Fault \/ (NoFault /\ path = NoInode)) /\ GiveUp(p) /\ UNCHANGED tries
  /\ UNCHANGED <<path, flocked, seen>>

(* flock without waiting; ErrActiveWriter when somebody has it.              *)
Lock(p) ==
  /\ At(p, "lock")
  /\ \/ /\ NoFault /\ ~Flocked(fd[p])
        /\ flocked' = flocked \cup {p} /\ Goto(p, "leave")
        /\ UNCHANGED <<coord, fd>>
     \/ NoFault /\ Flocked(fd[p]) /\ GiveUp(p) /\ UNCHANGED flocked
     \/ Fault /\ GiveUp(p) /\ UNCHANGED flocked
  /\ UNCHANGED <<path, seen, tries>>

Leave(p) ==
  /\ At(p, "leave") /\ coord' = Nobody /\ Goto(p, "held")
  /\ UNCHANGED <<files, seen, tries, faults>>

-----------------------------------------------------------------------------
(* the unlock function it returns *)

Release(p) ==
  /\ At(p, "held")
  /\ \/ NoFault /\ Goto(p, "enter")
     \/ Fault /\ Goto(p, "fallback")
  /\ UNCHANGED <<coord, files, seen, tries>>

(* The release waits for the coordination lock.                              *)
Enter(p) ==
  /\ At(p, "enter") /\ CoordFree
  /\ coord' = p /\ Goto(p, "unlock")
  /\ UNCHANGED <<files, seen, tries, faults>>

Unlock(p) ==
  /\ At(p, "unlock")
  /\ flocked' = flocked \ {p} /\ fd' = [fd EXCEPT ![p] = NoInode]
  /\ Goto(p, "unlink")
  /\ UNCHANGED <<coord, path, seen, tries, faults>>

Unlink(p) ==
  /\ At(p, "unlink") /\ Goto(p, "out")
  /\ \/ NoFault /\ path' = NoInode
     \/ Fault /\ UNCHANGED path
  /\ UNCHANGED <<coord, fd, flocked, seen, tries>>

Out(p) ==
  /\ At(p, "out") /\ coord' = Nobody /\ Goto(p, "idle")
  /\ UNCHANGED <<files, seen, tries, faults>>

(* Without the coordination lock the file is left where it is.               *)
Removed == path' = NoInode
LeftBehind == UNCHANGED path

Fallback(p) ==
  /\ At(p, "fallback")
  /\ flocked' = flocked \ {p} /\ fd' = [fd EXCEPT ![p] = NoInode]
  /\ LeftBehind /\ Goto(p, "idle")
  /\ UNCHANGED <<coord, seen, tries, faults>>

(* A death closes what the process had open, and its flocks with it.         *)
Die(p) ==
  /\ ~At(p, "idle") /\ Fault
  /\ coord' = IF coord = p THEN Nobody ELSE coord
  /\ flocked' = flocked \ {p} /\ fd' = [fd EXCEPT ![p] = NoInode]
  /\ Goto(p, "idle")
  /\ UNCHANGED <<path, seen, tries>>

Acquire(p) == Look(p) \/ Create(p) \/ Open(p) \/ Lock(p) \/ Leave(p)
Return(p) == Enter(p) \/ Unlock(p) \/ Unlink(p) \/ Out(p) \/ Fallback(p)

Next ==
  \E p \in Process :
    TryCoordination(p) \/ Refused(p) \/ Acquire(p) \/ Release(p) \/ Return(p) \/ Die(p)

Spec == Init /\ [][Next]_vars

(* A process that has begun to acquire or to release goes on; one that       *)
(* waits for the coordination lock gets it if it is free again and again.    *)
FairSpec ==
  Spec /\ \A p \in Process : WF_vars(Acquire(p)) /\ SF_vars(Return(p))

-----------------------------------------------------------------------------

TypeOK ==
  /\ coord \in Process \cup {Nobody}
  /\ path \in Inode \cup {NoInode}
  /\ fd \in [Process -> Inode \cup {NoInode}]
  /\ flocked \subseteq Process
  /\ seen \in [Process -> Inode \cup {NoInode}]
  /\ tries \in [Process -> 0..2]
  /\ pc \in [Process -> Labels]
  /\ faults \in Nat

(* No two processes hold the writer lock of the thread at once, whatever     *)
(* file their descriptors reach (what acquireWriterLock is for).             *)
OneWriter == \A p, q \in Process : Holding(p) /\ Holding(q) => p = q

(* The holder's file is the one the path names: whoever comes next competes  *)
(* for the same flock, and not for one on a file that was unlinked.          *)
HolderNamed == \A p \in Process : Holding(p) => fd[p] = path /\ p \in flocked

Holder == IF \E p \in Process : Holding(p)
          THEN CHOOSE p \in Process : Holding(p) ELSE Nobody

(* The two files together behave as one lock.                                *)
Lk == INSTANCE ExclusiveLock WITH holder <- Holder
ActsAsLock == Lk!Spec

(* A release is not kept waiting for ever by others that come and go.        *)
ReleaseEnds == \A p \in Process : At(p, "enter") ~> At(p, "idle")
=============================================================================
