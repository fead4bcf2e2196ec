---------------------------- MODULE RegistryProofs ----------------------------
(***************************************************************************)
(* Proofs about Registry: a pass that succeeds has reached every session   *)
(* that served all along and that no pass met between bind and listen, and *)
(* leaves no dead entry behind that it did not fail to remove; and of the  *)
(* sessions that race for the directory one gets in.  For any sessions,    *)
(* passes and deaths.                                                      *)
(***************************************************************************)
EXTENDS Registry, TLAPS

Unbound == {"look", "mkdir", "bind"}

(* A session accepts connections only between listen and the end of Close, is
   listed only after bind, and from then to Close is listed, unless it was met too
   early: then its entry may have been swept.                                *)
Sockets ==
  /\ \A s \in listener : pc[s] \in {"serving", "shut"}
  /\ \A s \in entries : pc[s] \notin Unbound
  /\ \A s \in Session : pc[s] = "serving" => s \in listener
  /\ \A s \in Session : pc[s] \in {"listen", "serving"} => s \in entries \cup hasty

(* What a pass is about to sweep does not serve and never will, or was met too
   early.                                                                    *)
Refusing ==
  \A p \in Session :
    /\ \A q \in pass[p].todo : pc[q] \notin Unbound
    /\ pass[p].at = "stale" =>
         pass[p].peer \in hasty \/ pc[pass[p].peer] \in {"shut", "failed", "closed", "dead"}

(* As long as no peer has failed, whoever is due is still to be visited.      *)
Reaching ==
  \A p \in Session :
    /\ \A q \in pass[p].due : pc[q] = "serving"
    /\ pass[p].at # "none" /\ ~pass[p].failed =>
         pass[p].due \subseteq pass[p].todo \cup hasty \cup {pass[p].peer}

(* As long as no peer has failed, an entry of a session that was over is still to
   be visited, swept, or known to stay.                                      *)
Removing ==
  \A p \in Session :
    /\ \A q \in pass[p].left : pc[q] \in {"failed", "closed", "dead"}
    /\ pass[p].at # "none" /\ ~pass[p].failed =>
         entries \cap pass[p].left \subseteq pass[p].todo \cup {pass[p].peer}
    /\ pass[p].at = "call" => pass[p].peer \notin pass[p].left

(* A directory that somebody missed was created by a session that went on.    *)
Racing ==
  \A s \in Session :
    /\ pc[s] = "failed" => dir
    /\ pc[s] \in {"mkdir", "failed"} /\ dir =>
         \E q \in Session : pc[q] \notin {"look", "mkdir", "failed"}

RegistryInv == TypeOK /\ Sockets /\ Refusing /\ Reaching /\ Removing /\ Racing

-----------------------------------------------------------------------------

LEMMA InitInv == Init => RegistryInv
BY RegistryAssumption DEF Init, RegistryInv, TypeOK, Sockets, Refusing, Reaching, Removing,
   Racing, NoPass, Visits, Labels

LEMMA StepInv == RegistryInv /\ [Next]_vars => RegistryInv'
<1> SUFFICES ASSUME RegistryInv, [Next]_vars
             PROVE  RegistryInv'
  OBVIOUS
<1> USE RegistryAssumption
<1> USE DEF RegistryInv, TypeOK, Labels, Visits, Move
<1>0. CASE UNCHANGED vars
  BY <1>0 DEF vars, sockets, counts, Sockets, Refusing, Reaching, Removing, Racing
<1>1. ASSUME NEW s \in Session, Look(s)
      PROVE  RegistryInv'
  BY <1>1 DEF Look, Missing, sockets, counts, Sockets, Refusing, Reaching, Removing, Racing, Unbound
<1>2. ASSUME NEW s \in Session, Mkdir(s)
      PROVE  RegistryInv'
  BY <1>2 DEF Mkdir, sockets, counts, Sockets, Refusing, Reaching, Removing, Racing, Unbound
<1>3. ASSUME NEW s \in Session, Bind(s)
      PROVE  RegistryInv'
  BY <1>3 DEF Bind, counts, Sockets, Refusing, Reaching, Removing, Racing, Unbound
<1>4. ASSUME NEW s \in Session, Listen(s)
      PROVE  RegistryInv'
  <2> USE <1>4 DEF Listen, counts
  <2>1. TypeOK'
    BY DEF TypeOK, Unbound
  <2>2. Sockets'
    BY DEF Sockets, Unbound
  <2>3. Refusing'
    BY DEF Refusing, Unbound, Sockets
  <2>4. Reaching'
    BY DEF Reaching, Unbound
  <2>5. Removing'
    BY DEF Removing, Unbound
  <2>6. Racing'
    BY DEF Racing, Unbound
  <2> QED
    BY <2>1, <2>2, <2>3, <2>4, <2>5, <2>6
<1>5. ASSUME NEW s \in Session, Unlink(s)
      PROVE  RegistryInv'
  <2> USE <1>5 DEF Unlink, Excused, counts
  <2>1. TypeOK'
    BY DEF TypeOK, Unbound
  <2>2. Sockets'
    BY DEF Sockets, Unbound
  <2>3. Refusing'
    BY DEF Refusing, Unbound, Sockets
  <2>4. Reaching'
    BY DEF Reaching, Unbound
  <2>5. Removing'
    BY DEF Removing, Unbound
  <2>6. Racing'
    BY DEF Racing, Unbound
  <2> QED
    BY <2>1, <2>2, <2>3, <2>4, <2>5, <2>6
<1>6. ASSUME NEW s \in Session, Shut(s)
      PROVE  RegistryInv'
  BY <1>6 DEF Shut, counts, Sockets, Refusing, Reaching, Removing, Racing, Unbound
<1>7. ASSUME NEW s \in Session, Die(s)
      PROVE  RegistryInv'
  <2> USE DEF Over
  <2>a. pass' = [p \in Session |->
                  IF p = s THEN NoPass ELSE [pass[p] EXCEPT !.due = @ \ {s}]]
    BY <1>7 DEF Die, Excused
  <2>b. NoPass \in Visits
    BY DEF NoPass
  <2>c. \A p \in Session : [pass[p] EXCEPT !.due = @ \ {s}] \in Visits
    OBVIOUS
  <2>0. /\ pass'[s] = NoPass
        /\ pass' \in [Session -> Visits]
        /\ \A p \in Session \ {s} :
             pass'[p] = [pass[p] EXCEPT !.due = @ \ {s}]
    <3> HIDE DEF Visits, NoPass
    <3> QED BY <2>a, <2>b, <2>c
  <2>d. \A p \in Session \ {s} :
           /\ pass'[p].at = pass[p].at /\ pass'[p].todo = pass[p].todo
           /\ pass'[p].peer = pass[p].peer /\ pass'[p].failed = pass[p].failed
           /\ pass'[p].due = pass[p].due \ {s} /\ pass'[p].left = pass[p].left
    BY <2>0
  <2> USE <1>7, <2>0, <2>d DEF NoPass
  <2>1. TypeOK'
    BY DEF Die, TypeOK, Unbound
  <2>2. Sockets'
    BY DEF Die, Sockets, Unbound
  <2>3. Refusing'
    BY DEF Die, Refusing, Unbound, Sockets
  <2>4. Reaching'
    BY DEF Die, Reaching, Unbound
  <2>5. Removing'
    BY DEF Die, Removing, Unbound
  <2>6. Racing'
    BY DEF Die, Racing, Unbound
  <2> QED
    BY <2>1, <2>2, <2>3, <2>4, <2>5, <2>6
<1>8. ASSUME NEW s \in Session, NEW b \in BOOLEAN, Begin(s, b)
      PROVE  RegistryInv'
  BY <1>8 DEF Begin, Over, Serving, sockets, Sockets, Refusing, Reaching, Removing, Racing, Unbound
<1>9. ASSUME NEW s \in Session, NEW q \in Session, Dial(s, q)
      PROVE  RegistryInv'
  BY <1>9 DEF Dial, Stale, sockets, counts, Sockets, Refusing, Reaching, Removing, Racing, Unbound
<1>10. ASSUME NEW s \in Session, Sweep(s)
       PROVE  RegistryInv'
  BY <1>10 DEF Sweep, Swept, Onward, counts, Sockets, Refusing, Reaching, Removing, Racing, Unbound
<1>11. ASSUME NEW s \in Session, Accepts(s)
       PROVE  RegistryInv'
  BY <1>11 DEF Accepts, Onward, sockets, counts, Sockets, Refusing, Reaching, Removing, Racing, Unbound
<1>12. ASSUME NEW s \in Session, Fails(s)
       PROVE  RegistryInv'
  BY <1>12 DEF Fails, Counted, Onward, NoPass, sockets, counts, Sockets, Refusing, Reaching, Removing, Racing, Unbound
<1>13. ASSUME NEW s \in Session, Finish(s)
       PROVE  RegistryInv'
  BY <1>13 DEF Finish, NoPass, sockets, counts, Sockets, Refusing, Reaching, Removing, Racing, Unbound
<1>14. ASSUME NEW s \in Session, NEW q \in Session, Undialled(s, q)
       PROVE  RegistryInv'
  <2>1. UNCHANGED <<dir, pc, entries, listener, hasty, deaths, passes>> /\ pass[s] \in Visits
    BY <1>14 DEF Undialled, sockets, counts
  <2>2. CASE pass' = [pass EXCEPT ![s] = NoPass]
    BY <2>1, <2>2 DEF NoPass, Sockets, Refusing, Reaching, Removing, Racing, Unbound
  <2>3. CASE pass' = [pass EXCEPT ![s].todo = @ \ {q}, ![s].failed = TRUE]
    <3>1. /\ \A p \in Session \ {s} : pass'[p] = pass[p]
          /\ pass'[s] \in Visits /\ pass'[s].at = "next" /\ pass'[s].peer = pass[s].peer
          /\ pass'[s].todo \subseteq pass[s].todo /\ pass'[s].due = pass[s].due
          /\ pass'[s].failed /\ pass'[s].left = pass[s].left
      <4>1. pass' = [pass EXCEPT ![s] = [pass[s] EXCEPT !.todo = pass[s].todo \ {q}, !.failed = TRUE]]
        BY <2>3
      <4>2. pass'[s] = [pass[s] EXCEPT !.todo = pass[s].todo \ {q}, !.failed = TRUE]
        BY <4>1
      <4>3. pass[s].at = "next"
        BY <1>14 DEF Undialled
      <4> QED
        BY <2>1, <4>1, <4>2, <4>3
    <3>2. TypeOK'
      BY <1>14, <2>1, <2>3, <3>1 DEF Undialled
    <3>3. Sockets' /\ Racing'
      BY <2>1 DEF Sockets, Racing, Unbound
    <3>4. Refusing' /\ Reaching' /\ Removing'
      BY <2>1, <3>1 DEF Refusing, Reaching, Removing, Unbound
    <3> QED
      BY <3>2, <3>3, <3>4
  <2> QED
    BY <1>14, <2>2, <2>3 DEF Undialled
<1>15. ASSUME NEW s \in Session, LeaveEntry(s)
       PROVE  RegistryInv'
  BY <1>15 DEF LeaveEntry, Onward, sockets, counts, Sockets, Refusing, Reaching, Removing, Racing, Unbound
<1> QED
  BY <1>0, <1>1, <1>2, <1>3, <1>4, <1>5, <1>6, <1>7, <1>8, <1>9, <1>10, <1>11, <1>12, <1>13,
     <1>14, <1>15 DEF Next

-----------------------------------------------------------------------------

THEOREM Invariant == Spec => []RegistryInv
BY InitInv, StepInv, PTL DEF Spec

(* Every reachable state of the registry is well typed.                      *)
THEOREM TypeCorrect == Spec => []TypeOK
BY Invariant, PTL DEF RegistryInv

(* Of the sessions that race for the directory, one gets in.                 *)
THEOREM SomebodyOpens == Spec => []OneGetsIn
<1>1. RegistryInv => OneGetsIn
  BY DEF RegistryInv, Racing, OneGetsIn
<1> QED
  BY <1>1, Invariant, PTL

(* A pass that succeeds has reached every session that served all along.     *)
THEOREM PassesReachPeers == Spec => PassComplete
<1>1. RegistryInv => \A s \in Session : Finish(s) /\ ~pass[s].failed => pass[s].due \subseteq hasty
  BY RegistryAssumption DEF RegistryInv, TypeOK, Visits, Reaching, Finish
<1>2. RegistryInv /\ [Next]_vars =>
        [\A s \in Session : Finish(s) /\ ~pass[s].failed => pass[s].due \subseteq hasty]_vars
  BY <1>1
<1> QED
  BY <1>2, Invariant, PTL DEF Spec, PassComplete

(* A pass that succeeds leaves no entry behind of a session that was over when it
   began, except one it failed to remove.                                    *)
THEOREM PassesSweep == Spec => DeadRemoved
<1>1. RegistryInv => \A s \in Session : Finish(s) /\ ~pass[s].failed => entries \cap pass[s].left = {}
  BY RegistryAssumption DEF RegistryInv, TypeOK, Visits, Removing, Finish
<1>2. RegistryInv /\ [Next]_vars =>
        [\A s \in Session : Finish(s) /\ ~pass[s].failed => entries \cap pass[s].left = {}]_vars
  BY <1>1
<1> QED
  BY <1>2, Invariant, PTL DEF Spec, DeadRemoved
=============================================================================
