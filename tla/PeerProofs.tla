----------------------------- MODULE PeerProofs ------------------------------
(***************************************************************************)
(* What the peers of Handoff may rely on while another session's operation *)
(* is under way: no call is answered twice, an idle thread stays idle, the *)
(* archive is hidden, and whoever may be unsubscribed is marked.           *)
(*                                                                         *)
(* None of it is inductive by itself.  Each invariant here speaks of the   *)
(* label the lock's holder stands at, so the module first says, for every  *)
(* step, which labels follow each other (Legal) and what else it changes.  *)
(***************************************************************************)
EXTENDS LockProofs

-----------------------------------------------------------------------------
(* The messages in a channel *)

Elems(q) == {q[i] : i \in 1..Len(q)}

LEMMA ElemsTail ==
  ASSUME NEW q \in Seq(Message), q # <<>>
  PROVE  Head(q) \in Elems(q) /\ Elems(Tail(q)) \subseteq Elems(q)
<1>1. /\ Len(q) \in Nat /\ Len(q) >= 1 /\ Head(q) = q[1]
      /\ \A i \in 1..Len(Tail(q)) : i + 1 \in 1..Len(q) /\ Tail(q)[i] = q[i + 1]
  OBVIOUS
<1> QED
  BY <1>1 DEF Elems

LEMMA ElemsAppend ==
  ASSUME NEW q \in Seq(Message), NEW m \in Message
  PROVE  Append(q, m) \in Seq(Message) /\ Elems(Append(q, m)) = Elems(q) \cup {m}
<1> DEFINE r == Append(q, m)
<1>1. /\ r \in Seq(Message)
      /\ Len(q) \in Nat /\ Len(r) = Len(q) + 1 /\ r[Len(q) + 1] = m
      /\ \A i \in 1..Len(q) : i \in 1..Len(r) /\ r[i] = q[i]
      /\ \A i \in 1..Len(r) : i \in 1..Len(q) \/ i = Len(q) + 1
      /\ Len(q) + 1 \in 1..Len(r)
  OBVIOUS
<1> HIDE DEF r
<1>2. Elems(r) = Elems(q) \cup {m}
  BY <1>1 DEF Elems
<1> QED
  BY <1>1, <1>2 DEF r

(* Abandoning a call marks its messages and leaves the others.               *)
LEMMA ElemsDropped ==
  ASSUME NEW q \in Seq(Message), NEW op, NEW m \in Elems(Dropped(q, op))
  PROVE  (m \in Elems(q) /\ m.op # op) \/ (m.op = op /\ ~m.live)
<1>1. /\ Len(Dropped(q, op)) = Len(q) /\ DOMAIN q = 1..Len(q)
      /\ \A i \in 1..Len(q) : q[i] \in Message
  BY DroppedType
<1>2. PICK i \in 1..Len(q) : m = Dropped(q, op)[i]
  BY <1>1 DEF Elems
<1>3. m = IF q[i].op = op THEN [q[i] EXCEPT !.live = FALSE] ELSE q[i]
  BY <1>1, <1>2 DEF Dropped
<1>4. q[i] \in Message /\ q[i] \in Elems(q)
  BY <1>1 DEF Elems
<1>5. CASE q[i].op = op
  BY <1>3, <1>4, <1>5 DEF Message
<1>6. CASE q[i].op # op
  BY <1>3, <1>4, <1>6
<1> QED
  BY <1>5, <1>6

LEMMA Delivered ==
  ASSUME down \in [Session -> Seq(Message)], NEW s, NEW r \in Message,
         NEW n \in Notice, NEW to, down' = Deliveries(s, r, n, to), NEW x \in Session,
         NEW m \in Elems(down'[x])
  PROVE  m \in Elems(down[x]) \/ (x = s /\ m = r) \/ (x \in to /\ m = Notification(n))
<1> DEFINE q == IF x = s /\ s \in conn THEN Append(down[x], r) ELSE down[x]
           d == IF x \in to THEN Append(q, Notification(n)) ELSE q
<1>1. Notification(n) \in Message
  BY NotificationType
<1>2. down[x] \in Seq(Message)
  OBVIOUS
<1>3. /\ q \in Seq(Message)
      /\ Elems(q) = Elems(down[x]) \/ (x = s /\ Elems(q) = Elems(down[x]) \cup {r})
  BY <1>2, ElemsAppend
<1>4. d = down'[x]
  <2>1. q = down[x] \o (IF x = s /\ s \in conn THEN <<r>> ELSE <<>>)
    <3>1. CASE x = s /\ s \in conn
      BY <1>2, <3>1
    <3>2. CASE ~(x = s /\ s \in conn)
      BY <1>2, <3>2
    <3> QED
      BY <3>1, <3>2
  <2>2. d = q \o (IF x \in to THEN <<Notification(n)>> ELSE <<>>)
    <3> HIDE DEF q
    <3> QED
      BY <1>3, <1>1
  <2> QED
    BY <2>1, <2>2 DEF Deliveries
<1> HIDE DEF q
<1>5. Elems(d) = Elems(q) \/ (x \in to /\ Elems(d) = Elems(q) \cup {Notification(n)})
  BY <1>1, <1>3, ElemsAppend
<1>6. m \in Elems(d)
  BY <1>4
<1> HIDE DEF d
<1> QED
  BY <1>3, <1>5, <1>6

-----------------------------------------------------------------------------
(* How the handlers move *)

(* The labels a label is reached from.                                       *)
Before ==
  [statusWait |-> {"askStatus"}, reconcile |-> {"statusWait"}, prepare2 |-> {"reconcile"},
   prepareSame |-> {"route", "routeWait"}, unsub |-> {"mark"}, stageUnsub |-> {"unsub"},
   sanitize |-> {"stageUnsub"}, resume |-> {"sanitize"}, resumeWait |-> {"resume"},
   stageMismatch |-> {"resumeWait"}, inspect |-> {"sanitize", "stageMismatch"},
   stageRecovering |-> {"inspect"}, saveJournal |-> {"stageRecovering"},
   begin |-> {"saveJournal"}, archive |-> {"begin"}, unarchive |-> {"archive"},
   resanitize |-> {"unarchive"}, recoverResume |-> {"resanitize"},
   recoverResumeWait |-> {"recoverResume"}, end |-> {"recoverResumeWait"},
   clearJournal |-> {"end"}, stageResub |-> {"resumeWait", "clearJournal"},
   resub |-> {"stageResub", "prepareSame"}, clearDirty |-> {"resub"},
   repairEnd |-> {"repairResume"}, repairClear |-> {"repairEnd"},
   finish |-> {"route", "routeWait", "repair", "repairClear", "clearDirty"},
   answer |-> {"forwardResume", "unsubscribe"}]

(* The passes that must have reached every open peer when they are done.     *)
KeyPasses == {"begin", "end", "repairEnd", "unsub", "resub"}

(* What a pass has done with a peer it leaves behind.                        *)
Visited(s, p) ==
  \/ p \notin conn
  \/ pc[s] \notin KeyPasses
  \/ pc[s] = "begin" /\ sup'[p]
  \/ pc[s] \in {"end", "repairEnd"} /\ ~sup'[p]
  \/ pc[s] = "unsub" /\ at[s] = p /\ job[p].unsub = "ok"
  \/ pc[s] = "resub" /\ (~det[p] \/ (at[s] = p /\ job[p].resub = "ok"))

(* The answer that lets stale busy caches be overwritten.                    *)
IdleSeen(s) ==
  \E m \in Elems(down[s]) : Awaited(m, "list") /\ m.ok /\ m.tag = "idle"

Gate(s) ==
  /\ pc'[s] \in DOMAIN Before => pc[s] \in Before[pc'[s]]
  /\ pc'[s] \in Passes => todo'[s] = conn
  /\ pc[s] \in KeyPasses /\ pc'[s] = DoneAt[pc[s]] =>
       \E p \in todo[s] : todo[s] = {p} /\ Visited(s, p)
  /\ pc'[s] = "stageRecovering" => running = NoSession
  /\ pc'[s] = "reconcile" => IdleSeen(s)
  /\ pc'[s] = "prepareSame" => dirty = "unsubscribed"
  /\ pc'[s] = "unsub" => dirty' = "prepared"

Legal(s) ==
  /\ pc'[s] # pc[s] => Gate(s)
  /\ pc'[s] = pc[s] =>
       \/ todo'[s] = todo[s]
       \/ \E p \in todo[s] : todo'[s] = todo[s] \ {p} /\ Visited(s, p)

OnlyMoves(s) == \A x \in Session \ {s} : pc'[x] = pc[x] /\ todo'[x] = todo[x]

(* A step from l to m that needs no reason but the order of the labels.      *)
Plain(l, m) ==
  /\ m \in DOMAIN Before => l \in Before[m]
  /\ m \notin {"stageRecovering", "reconcile", "prepareSame", "unsub"}
  /\ l \in KeyPasses => m # DoneAt[l]

LEMMA GotoMoves ==
  ASSUME Shape, NEW s \in Session, NEW label, Goto(s, label)
  PROVE  /\ pc'[s] = label /\ OnlyMoves(s)
         /\ label \in Passes => todo'[s] = conn
  BY ShapeParts DEF Goto, HandlerOK, HandlerTypes, OnlyMoves

LEMMA GotoLegal ==
  ASSUME Shape, NEW s \in Session, NEW label, Goto(s, label), Plain(pc[s], label),
         label # pc[s]
  PROVE  \A x \in Session : Legal(x)
<1>1. Legal(s)
  BY GotoMoves DEF Legal, Gate, Plain
<1>2. \A x \in Session \ {s} : Legal(x)
  BY GotoMoves DEF Legal, OnlyMoves
<1> QED
  BY <1>1, <1>2

LEMMA StillLegal ==
  ASSUME UNCHANGED <<pc, todo>>
  PROVE  \A x \in Session : Legal(x)
  BY DEF Legal

LEMMA DonePlain ==
  \A l \in Passes : /\ DoneAt[l] \in DOMAIN Before => l \in Before[DoneAt[l]]
                    /\ DoneAt[l] \notin {"stageRecovering", "reconcile", "prepareSame", "unsub", l}
  BY DEF DoneAt, Before, Passes, Checks, Begins, Ends, JobOps

LEMMA StopPlain ==
  \A l \in DOMAIN StopAt : Plain(l, StopAt[l]) /\ StopAt[l] # l
  BY DEF StopAt, DoneAt, Before, Plain, KeyPasses

LEMMA ProceedLegal ==
  ASSUME Shape, NEW s \in Session, NEW p \in todo[s], Proceed(s, p), pc[s] \in Passes,
         Visited(s, p)
  PROVE  \A x \in Session : Legal(x)
<1>1. CASE todo[s] = {p}
  <2>1. Goto(s, DoneAt[pc[s]])
    BY <1>1 DEF Proceed
  <2>2. Legal(s)
    BY <1>1, <2>1, GotoMoves, DonePlain DEF Legal, Gate
  <2> QED
    BY <2>1, <2>2, GotoMoves DEF Legal, OnlyMoves
<1>2. CASE todo[s] # {p}
  BY <1>2, ShapeParts DEF Proceed, Legal, HandlerOK, HandlerTypes
<1> QED
  BY <1>1, <1>2

LEMMA StopLegal ==
  ASSUME Shape, NEW s \in Session, Goto(s, StopAt[pc[s]]), pc[s] \in DOMAIN StopAt
  PROVE  \A x \in Session : Legal(x)
  BY StopPlain, GotoLegal

LEMMA ReturnLegal ==
  ASSUME Shape, NEW s \in Session, Return(s)
  PROVE  \A x \in Session : Legal(x)
<1>1. pc'[s] = "idle" /\ OnlyMoves(s) /\ UNCHANGED todo
  BY ShapeParts DEF Return, HandlerOK, HandlerTypes, OnlyMoves
<1>2. "idle" \notin DOMAIN Before \cup Passes /\ \A l \in KeyPasses : DoneAt[l] # "idle"
  BY PassLabels DEF Before, KeyPasses, DoneAt
<1> QED
  BY <1>1, <1>2 DEF Legal, Gate, OnlyMoves

LEMMA PassLegal ==
  ASSUME Shape, NEW s \in Session, PassStep(s)
  PROVE  \A x \in Session : Legal(x)
<1>1. CASE SkipPeer(s)
  BY <1>1, AtPass, ProceedLegal DEF SkipPeer, Visited
<1>2. CASE CheckPeer(s) \/ ReconcilePeer(s)
  <2>1. pc[s] \in Passes /\ pc[s] \notin KeyPasses /\ pc[s] \in DOMAIN StopAt
    BY <1>2, StopAtType DEF CheckPeer, ReconcilePeer, Passes, Checks, KeyPasses
  <2> QED
    BY <1>2, <2>1, ProceedLegal, StopLegal DEF CheckPeer, ReconcilePeer, Visited
<1>3. CASE BeginPeer(s)
  <2>1. /\ pc[s] \in Passes /\ pc[s] \in DOMAIN StopAt
        /\ pc[s] \in KeyPasses => pc[s] = "begin"
    BY <1>3, StopAtType DEF BeginPeer, Passes, Begins, KeyPasses
  <2>2. CASE Goto(s, StopAt[pc[s]])
    BY <2>1, <2>2, StopLegal
  <2>3. CASE \E p \in todo[s] : sup' = [sup EXCEPT ![p] = TRUE] /\ Proceed(s, p)
    <3>1. PICK p \in todo[s] : sup' = [sup EXCEPT ![p] = TRUE] /\ Proceed(s, p)
      BY <2>3
    <3>2. p \in Session /\ sup'[p]
      BY <3>1, ShapeParts DEF HandlerOK, HandlerTypes, CacheTypes
    <3> QED
      BY <2>1, <3>1, <3>2, ProceedLegal DEF Visited
  <2> QED
    BY <1>3, <2>2, <2>3 DEF BeginPeer, BeginRefused
<1>4. CASE EndPeer(s)
  <2>1. pc[s] \in Passes /\ (pc[s] \in KeyPasses => pc[s] \in {"end", "repairEnd"})
        /\ (pc[s] \in {"end", "repairEnd"} => pc[s] \in DOMAIN StopAt)
    BY <1>4 DEF EndPeer, Passes, Ends, KeyPasses, StopAt
  <2>2. CASE pc[s] \in DOMAIN StopAt /\ Goto(s, StopAt[pc[s]])
    BY <2>2, StopLegal
  <2>3. CASE \E p \in todo[s] : pc[s] \notin DOMAIN StopAt /\ Proceed(s, p)
    BY <2>1, <2>3, ProceedLegal DEF Visited
  <2>4. CASE \E p \in todo[s] : sup' = [sup EXCEPT ![p] = FALSE] /\ Proceed(s, p)
    <3>1. PICK p \in todo[s] : sup' = [sup EXCEPT ![p] = FALSE] /\ Proceed(s, p)
      BY <2>4
    <3>2. p \in Session /\ ~sup'[p]
      BY <3>1, ShapeParts DEF HandlerOK, HandlerTypes, CacheTypes
    <3> QED
      BY <2>1, <3>1, <3>2, ProceedLegal DEF Visited
  <2> QED
    BY <1>4, <2>2, <2>3, <2>4 DEF EndPeer, EndRefused
<1>5. CASE CallPeer(s)
  <2>1. PICK p \in todo[s] \cap conn : CallUnsubscribe(s, p) \/ CallResubscribe(s, p)
    BY <1>5 DEF CallPeer
  <2>2. CASE CallUnsubscribe(s, p)
    BY <2>2, StopAtType, StopLegal, StillLegal DEF CallUnsubscribe, StopJobs, StartJob
  <2>3. CASE CallResubscribe(s, p)
    <3>1. pc[s] \in Passes /\ (pc[s] \in KeyPasses => pc[s] = "resub")
      BY <2>3 DEF CallResubscribe, Passes, JobOps, KeyPasses
    <3> QED
      BY <2>1, <2>3, <3>1, ProceedLegal, StillLegal DEF CallResubscribe, StartJob, Visited
  <2> QED
    BY <2>1, <2>2, <2>3
<1>6. CASE PeerAnswered(s)
  <2>1. pc[s] \in JobOps /\ pc[s] \in Passes
    BY <1>6, AtPass, PassLabels DEF PeerAnswered
  <2>2. CASE StopJobs(s) /\ pc[s] # "restore"
    BY <2>1, <2>2, StopAtType, StopLegal DEF StopJobs, JobOps
  <2>3. CASE /\ Proceed(s, at[s])
             /\ pc[s] = "restore" \/ (at[s] \in conn /\ job[at[s]][pc[s]] = "ok")
    <3>1. at[s] \in todo[s]
      BY <1>6, AtPass DEF PeerAnswered
    <3>2. Visited(s, at[s])
      <4>1. pc[s] \in KeyPasses => pc[s] \in {"unsub", "resub"}
        BY <2>1 DEF JobOps, KeyPasses
      <4>2. CASE pc[s] = "unsub"
        BY <2>3, <4>2 DEF Visited
      <4>3. CASE pc[s] = "resub"
        BY <2>3, <4>3 DEF Visited
      <4> QED
        BY <4>1, <4>2, <4>3 DEF Visited
    <3> QED
      BY <2>1, <2>3, <3>1, <3>2, ProceedLegal
  <2> QED
    BY <1>6, <2>2, <2>3 DEF PeerAnswered
<1> QED
  BY <1>1, <1>2, <1>3, <1>4, <1>5, <1>6 DEF PassStep

LEMMA TurnLegal ==
  ASSUME Shape, NEW s \in Session,
         PrepareTurn(s) \/ SetDirtyStage(s) \/ Sanitize(s) \/ Inspect(s) \/ ClearDirty(s)
         \/ SanitizeResume(s) \/ AskStatus(s) \/ AskRoute(s) \/ InternalResume(s)
         \/ ForwardResume(s) \/ ForwardUnsubscribe(s)
  PROVE  \A x \in Session : Legal(x)
<1>1. CASE Inspect(s) /\ ~Goto(s, "restore")
  <2>1. Goto(s, "stageRecovering") /\ pc[s] = "inspect" /\ running = NoSession
    BY <1>1 DEF Inspect, Step
  <2>2. Legal(s)
    BY <2>1, GotoMoves, PassLabels DEF Legal, Gate, Before, KeyPasses, Passes, Checks, Begins, Ends, JobOps
  <2> QED
    BY <2>1, <2>2, GotoMoves DEF Legal, OnlyMoves
<1>2. CASE Inspect(s) /\ Goto(s, "restore")
  BY <1>2, GotoLegal DEF Inspect, Step, Plain, Before, KeyPasses
<1>3. CASE PrepareTurn(s)
  BY <1>3, GotoLegal DEF PrepareTurn, Step, Plain, Before, KeyPasses
<1>4. CASE SetDirtyStage(s)
  <2>1. CASE Goto(s, "unsub")
    <3>1. pc[s] = "mark" /\ dirty' = "prepared"
      BY <1>4, <2>1, GotoMoves DEF SetDirtyStage, StageOf, AfterStage, StageFailed
    <3>2. Legal(s)
      BY <2>1, <3>1, GotoMoves DEF Legal, Gate, Before, KeyPasses
    <3> QED
      BY <2>1, <3>2, GotoMoves DEF Legal, OnlyMoves
  <2>2. CASE ~Goto(s, "unsub")
    BY <1>4, <2>2, GotoLegal DEF SetDirtyStage, StageOf, AfterStage, StageFailed, Plain, Before,
                                 KeyPasses
  <2> QED
    BY <2>1, <2>2
<1>5. CASE Sanitize(s)
  BY <1>5, GotoLegal DEF Sanitize, Step, Plain, Before, KeyPasses
<1>6. CASE ClearDirty(s)
  BY <1>6, GotoLegal DEF ClearDirty, Step, Plain, Before, KeyPasses
<1>7. CASE SanitizeResume(s)
  BY <1>7, GotoLegal DEF SanitizeResume, Step, Plain, Before, KeyPasses
<1>8. CASE AskStatus(s)
  BY <1>8, GotoLegal DEF AskStatus, AskServer, Step, Plain, Before, KeyPasses
<1>9. CASE AskRoute(s)
  BY <1>9, GotoLegal DEF AskRoute, AskServer, Step, Plain, Before, KeyPasses
<1>10. CASE InternalResume(s)
  BY <1>10, GotoLegal DEF InternalResume, AskServer, Step, Plain, Before, KeyPasses
<1>11. CASE ForwardResume(s) \/ ForwardUnsubscribe(s)
  BY <1>11, GotoLegal DEF ForwardResume, ForwardUnsubscribe, Forward, Step, Plain, Before,
                          KeyPasses
<1> QED
  BY <1>1, <1>2, <1>3, <1>4, <1>5, <1>6, <1>7, <1>8, <1>9, <1>10, <1>11

(* The decision to hand off, from a cached or an observed route.             *)
LEMMA DecideLegal ==
  ASSUME Shape, NEW s \in Session, NEW obs, Decide(s, obs), pc[s] \in {"route", "routeWait"}
  PROVE  \A x \in Session : Legal(x)
<1>1. CASE Goto(s, "prepareHandoff") \/ Goto(s, "finish")
  BY <1>1, GotoLegal DEF Plain, Before, KeyPasses
<1>2. CASE Goto(s, "prepareSame") /\ ~ForceFull(s) /\ dirty # "none"
  <2>1. dirty = "unsubscribed"
    BY <1>2 DEF ForceFull
  <2>2. Legal(s)
    BY <1>2, <2>1, GotoMoves DEF Legal, Gate, Before, KeyPasses
  <2> QED
    BY <1>2, <2>2, GotoMoves DEF Legal, OnlyMoves
<1> QED
  BY <1>1, <1>2 DEF Decide

LEMMA RecoverLegal ==
  ASSUME Shape, NEW s \in Session, Recover(s) \/ RepairJournal(s)
  PROVE  \A x \in Session : Legal(x)
<1>1. CASE Inspect(s)
  BY <1>1, TurnLegal
<1>2. CASE SaveJournal(s)
  BY <1>2, GotoLegal DEF SaveJournal, Step, Plain, Before, KeyPasses
<1>3. CASE ArchiveRoot(s)
  BY <1>3, GotoLegal DEF ArchiveRoot, Step, Plain, Before, KeyPasses
<1>4. CASE UnarchiveAll(s, "unarchive", "resanitize", "abort")
           \/ UnarchiveAll(s, "repairUnarchive", "repairSanitize", "repairAbort")
  BY <1>4, GotoLegal DEF UnarchiveAll, Step, Plain, Before, KeyPasses
<1>5. CASE Resanitize(s, "resanitize", "recoverResume", "abort")
           \/ Resanitize(s, "repairSanitize", "repairResume", "repairAbort")
  BY <1>5, GotoLegal DEF Resanitize, Step, Plain, Before, KeyPasses
<1>6. CASE ClearJournal(s, "clearJournal", "stageResub", "restore")
           \/ ClearJournal(s, "repairClear", AfterRepair(s), "fail")
  <2>1. AfterRepair(s) \in {"route", "sanitizeResume", "finish"}
    BY DEF AfterRepair
  <2> QED
    BY <1>6, <2>1, GotoLegal DEF ClearJournal, Step, Plain, Before, KeyPasses
<1>7. CASE LoadJournal(s)
  <2>1. AfterRepair(s) \in {"route", "sanitizeResume", "finish"}
    BY DEF AfterRepair
  <2> QED
    BY <1>7, <2>1, GotoLegal DEF LoadJournal, Step, Plain, Before, KeyPasses
<1>8. CASE RepairResume(s)
  BY <1>8, GotoLegal DEF RepairResume, Step, Plain, Before, KeyPasses
<1> QED
  BY <1>1, <1>2, <1>3, <1>4, <1>5, <1>6, <1>7, <1>8 DEF Recover, RepairJournal

LEMMA HandleLegal ==
  ASSUME Shape, NEW s \in Session, Handle(s)
  PROVE  \A x \in Session : Legal(x)
<1>1. CASE LockThread(s)
  BY <1>1, GotoLegal DEF LockThread, Plain, Before, KeyPasses
<1>2. CASE ForwardTurn(s)
  BY <1>2, ReturnLegal DEF ForwardTurn
<1>3. CASE FinishCommand(s)
  BY <1>3, ReturnLegal, GotoLegal DEF FinishCommand, Release, Step, Plain, Before, KeyPasses
<1>4. CASE FailRequest(s)
  BY <1>4, ReturnLegal DEF FailRequest, Release
<1>5. CASE DecideRoute(s)
  BY <1>5, DecideLegal DEF DecideRoute, Step
<1> QED
  BY <1>1, <1>2, <1>3, <1>4, <1>5, PassLegal, TurnLegal, RecoverLegal
     DEF Handle, TurnStep, HandoffStep, DesktopStep

LEMMA HearLegal ==
  ASSUME Shape, NEW s \in Session, Hear(s)
  PROVE  \A x \in Session : Legal(x)
<1> DEFINE m == Head(down[s])
<1>1. CASE HearNotice(s, m) \/ HearTurn(s, m) \/ HearJob(s, m) \/ Swallow(m)
  BY <1>1, StillLegal DEF HearNotice, HearTurn, HearJob, Swallow
<1>2. CASE HearDesktop(s, m)
  BY <1>2, ReturnLegal DEF HearDesktop, Release
<1>3. CASE HearList(s, m)
  <2>1. CASE pc[s] = "statusWait" /\ Goto(s, "fail")
    BY <2>1, GotoLegal DEF Plain, Before, KeyPasses
  <2>2. CASE pc[s] = "statusWait" /\ StatusIdle(m) /\ Goto(s, "reconcile")
    <3>1. down[s] \in Seq(Message) /\ down[s] # <<>>
      BY ShapeParts DEF Hear, ServerTypeOK
    <3>2. m \in Elems(down[s])
      BY <3>1, ElemsTail
    <3>3. IdleSeen(s)
      BY <1>3, <2>2, <3>2 DEF IdleSeen, HearList, StatusIdle, Awaited, CallOf
    <3>4. Legal(s)
      BY <2>2, <3>3, GotoMoves DEF Legal, Gate, Before, KeyPasses
    <3> QED
      BY <2>2, <3>4, GotoMoves DEF Legal, OnlyMoves
  <2>3. CASE pc[s] = "routeWait"
    BY <1>3, <2>3, DecideLegal, GotoLegal DEF HearList, Plain, Before, KeyPasses
  <2> QED
    BY <1>3, <2>1, <2>2, <2>3 DEF HearList
<1>4. CASE HearResume(s, m)
  BY <1>4, GotoLegal DEF HearResume, Plain, Before, KeyPasses
<1> QED
  BY <1>1, <1>2, <1>3, <1>4 DEF Hear

LEMMA LegalStep ==
  ASSUME Shape, [Next]_vars
  PROVE  \A x \in Session : Legal(x)
<1>1. ASSUME NEW s \in Session, Open(s) \/ JobTimeout(s) \/ ServeStep(s) \/ ServeFault(s)
      PROVE  \A x \in Session : Legal(x)
  BY <1>1, StillLegal DEF Open, JobTimeout, ServeStep, ServeFault, others, handler
<1>2. CASE TurnEnds \/ UnloadIdle \/ UNCHANGED vars
  BY <1>2, StillLegal DEF TurnEnds, UnloadIdle, others, handler, vars
<1>3. ASSUME NEW s \in Session, Close(s) \/ Receive(s)
      PROVE  \A x \in Session : Legal(x)
  <2>1. /\ pc \in [Session -> Labels] /\ todo \in [Session -> SUBSET Session]
        /\ todo[s] # {} => pc[s] \in Passes
    BY ShapeParts DEF HandlerOK, HandlerTypes, PassOK
  <2>2. PICK l \in {"idle", "lock"} : pc' = [pc EXCEPT ![s] = l]
    BY <1>3 DEF Close, Receive
  <2>3. todo'[s] \in {todo[s], {}} /\ \A x \in Session \ {s} : todo'[x] = todo[x]
    BY <1>3, <2>1 DEF Close, Receive
  <2>4. /\ {"idle", "lock"} \cap (DOMAIN Before \cup Passes) = {}
        /\ \A k \in KeyPasses : DoneAt[k] \notin {"idle", "lock"}
    BY PassLabels DEF Before, KeyPasses, DoneAt
  <2>5. Legal(s)
    BY <2>1, <2>2, <2>3, <2>4 DEF Legal, Gate
  <2> QED
    BY <2>1, <2>2, <2>3, <2>5 DEF Legal
<1>4. ASSUME NEW s \in Session, PeerCallTimeout(s)
      PROVE  \A x \in Session : Legal(x)
  BY <1>4, GotoLegal DEF PeerCallTimeout, Plain, Before, KeyPasses, DoneAt
<1>5. ASSUME NEW s \in Session, CallTimeout(s)
      PROVE  \A x \in Session : Legal(x)
  BY <1>5, GotoLegal DEF CallTimeout, Waiting, Plain, Before, KeyPasses
<1> QED
  BY <1>1, <1>2, <1>3, <1>4, <1>5, HandleLegal, HearLegal DEF Next, Timeout

-----------------------------------------------------------------------------
(* What else a step changes *)

Calm ==
  /\ UNCHANGED <<conn, subs, running, up, down, det, sup, job, views, lapsed, opened>>
  /\ archived' => archived

Asks(s) == AskStatus(s) \/ AskRoute(s) \/ InternalResume(s)
Forwards(s) == ForwardResume(s) \/ ForwardUnsubscribe(s)

(* The steps of a session that peers or the app-server may notice.           *)
Lively(s) ==
  \/ Open(s) \/ Close(s)
  \/ BeginPeer(s) \/ EndPeer(s) \/ CallPeer(s) \/ ArchiveRoot(s)
  \/ Asks(s) \/ ForwardTurn(s) \/ Forwards(s)
  \/ CallTimeout(s) \/ JobTimeout(s) \/ Hear(s) \/ ServeStep(s) \/ ServeFault(s)

LEMMA CalmPasses ==
  ASSUME NEW s \in Session,
         SkipPeer(s) \/ CheckPeer(s) \/ ReconcilePeer(s) \/ PeerAnswered(s)
         \/ PeerCallTimeout(s)
  PROVE  Calm
  BY DEF SkipPeer, CheckPeer, ReconcilePeer, PeerAnswered, PeerCallTimeout, ServerIdle,
         serverVars, caches, Calm

LEMMA CalmHandler ==
  ASSUME NEW s \in Session,
         PrepareTurn(s) \/ DecideRoute(s) \/ FinishCommand(s) \/ FailRequest(s)
         \/ SetDirtyStage(s) \/ Sanitize(s) \/ ClearDirty(s) \/ SanitizeResume(s)
         \/ LockThread(s) \/ Receive(s)
  PROVE  Calm
  BY DEF PrepareTurn, DecideRoute, FinishCommand, FailRequest, SetDirtyStage, Sanitize,
         ClearDirty, SanitizeResume, LockThread, Receive, ServerIdle, serverVars, caches, Calm

LEMMA CalmRecover ==
  ASSUME NEW s \in Session, Recover(s) \/ RepairJournal(s), ~ArchiveRoot(s)
  PROVE  Calm
  BY DEF Recover, RepairJournal, Inspect, SaveJournal, UnarchiveAll, Unarchive, Resanitize,
         ClearJournal, LoadJournal, RepairResume, RecoveryResume, ServerIdle, serverVars,
         caches, Calm

LEMMA CalmOrLively ==
  ASSUME [Next]_vars
  PROVE  \/ Calm \/ TurnEnds \/ UnloadIdle
         \/ \E s \in Session : Lively(s)
<1>1. CASE UNCHANGED vars
  BY <1>1 DEF vars, serverVars, caches, Calm
<1>2. ASSUME NEW s \in Session, Handle(s), ~Lively(s)
      PROVE  Calm
  BY <1>2, CalmPasses, CalmHandler, CalmRecover
     DEF Handle, PassStep, TurnStep, HandoffStep, DesktopStep, Lively, Asks, Forwards, Recover
<1> QED
  BY <1>1, <1>2, CalmPasses, CalmHandler DEF Next, Timeout, Lively

(* One operation at a time is past the lock.                                 *)
LEMMA OneHolder ==
  ASSUME Serial, NEW s \in Session, NEW t \in Session,
         pc[s] \notin {"idle", "lock"}, pc[t] \notin {"idle", "lock"}
  PROVE  s = t /\ lock = s /\ s \in conn /\ ~fence[s]
  BY DEF Serial, Inside

(* A handler that waits for an answer does nothing else.                     *)
Awaiting == Waiting \cup {"answer"}

LEMMA HandlerAwake ==
  ASSUME Shape, NEW s \in Session, Handle(s), ~LockThread(s)
  PROVE  pc[s] \notin Awaiting \cup {"idle", "lock"}
<1>1. Passes \cap (Awaiting \cup {"idle", "lock"}) = {}
  BY DEF Passes, Checks, Begins, Ends, JobOps, Awaiting, Waiting
<1>2. CASE PassStep(s)
  BY <1>1, <1>2, AtPass, PassLabels
     DEF PassStep, SkipPeer, CheckPeer, ReconcilePeer, BeginPeer, EndPeer, CallPeer,
         PeerAnswered
<1>3. CASE TurnStep(s) \/ HandoffStep(s) \/ DesktopStep(s) \/ FailRequest(s)
  BY <1>3 DEF TurnStep, PrepareTurn, AskStatus, DecideRoute, AskRoute, AskServer,
     ForwardTurn, FinishCommand, HandoffStep, SetDirtyStage, StageOf, Sanitize,
     InternalResume, ClearDirty, DesktopStep, SanitizeResume, ForwardResume,
     ForwardUnsubscribe, Forward, FailRequest, Step, Awaiting, Waiting
<1>4. CASE Recover(s) \/ RepairJournal(s)
  BY <1>4 DEF Recover, RepairJournal, Inspect, SaveJournal, ArchiveRoot, UnarchiveAll,
     Resanitize, ClearJournal, LoadJournal, RepairResume, Step, Awaiting, Waiting
<1> QED
  BY <1>2, <1>3, <1>4 DEF Handle

(* While x is past the lock no other handler takes a step.                   *)
LEMMA OthersWait ==
  ASSUME LockInv, NEW s \in Session, NEW x \in Session, s # x,
         pc[x] \notin {"idle", "lock"}
  PROVE  ~Handle(s)
<1>1. lock = x /\ lock # NoSession
  BY AppServerAssumption DEF LockInv, Serial, Inside
<1> QED
  BY <1>1, HandlerAwake, OneHolder DEF LockInv, LockThread, Unlocked

LEMMA WaitersStay ==
  ASSUME LockInv, [Next]_vars, NEW x \in Session, pc[x] \in Awaiting, pc'[x] # pc[x]
  PROVE  Hear(x) \/ CallTimeout(x) \/ Close(x)
<1>1. Shape /\ Serial /\ pc[x] \notin {"idle", "lock"} /\ pc \in [Session -> Labels]
  BY ShapeParts DEF LockInv, Awaiting, Waiting, HandlerOK, HandlerTypes
<1>2. ~Handle(x)
  BY <1>1, HandlerAwake DEF LockThread
<1>3. ASSUME NEW s \in Session, Handle(s)
      PROVE  FALSE
  BY <1>1, <1>2, <1>3, OthersWait
<1>4. ASSUME NEW s \in Session, Hear(s)
      PROVE  s = x
  <2> DEFINE m == Head(down[s])
  <2>1. CASE HearNotice(s, m) \/ HearTurn(s, m) \/ HearJob(s, m) \/ Swallow(m)
    BY <2>1 DEF HearNotice, HearTurn, HearJob, Swallow
  <2>2. CASE HearDesktop(s, m) \/ HearList(s, m) \/ HearResume(s, m)
    <3>1. pc[s] \in Awaiting
      BY <2>2 DEF HearDesktop, HearList, HearResume, Awaiting, Waiting
    <3> QED
      BY <1>1, <3>1, OneHolder DEF Awaiting, Waiting
  <2> QED
    BY <1>4, <2>1, <2>2 DEF Hear
<1>5. ASSUME NEW s \in Session, Timeout(s)
      PROVE  CallTimeout(x)
  <2>1. CASE PeerCallTimeout(s)
    <3>1. pc[s] \in {"unsub", "restore"}
      BY <2>1 DEF PeerCallTimeout
    <3> QED
      BY <1>1, <3>1, OneHolder DEF Awaiting, Waiting
  <2>2. CASE CallTimeout(s)
    BY <1>1, <2>2, OneHolder DEF CallTimeout, Waiting
  <2>3. CASE JobTimeout(s)
    BY <2>3 DEF JobTimeout, handler
  <2> QED
    BY <1>5, <2>1, <2>2, <2>3 DEF Timeout
<1>6. ASSUME NEW s \in Session, Open(s) \/ ServeStep(s) \/ ServeFault(s)
      PROVE  FALSE
  BY <1>6 DEF Open, ServeStep, ServeFault, others, handler
<1>7. ASSUME NEW s \in Session, Close(s) \/ Receive(s)
      PROVE  Close(x)
  BY <1>1, <1>7 DEF Close, Receive
<1>8. ~TurnEnds /\ ~UnloadIdle /\ ~UNCHANGED vars
  BY DEF TurnEnds, UnloadIdle, others, handler, vars
<1> QED
  BY <1>3, <1>4, <1>5, <1>6, <1>7, <1>8 DEF Next

(* A peer call in progress ends with its answer, its timeout or its process. *)
LEMMA JobsStay ==
  ASSUME LockInv, [Next]_vars, NEW x \in Session, NEW o \in JobOps,
         job[x][o] \in Running, job'[x][o] \notin Running
  PROVE  Hear(x) \/ JobTimeout(x) \/ Close(x)
<1>1. job \in [Session -> [JobOps -> JobState]]
  BY ShapeParts DEF LockInv, CacheTypes
<1>2. ~Calm /\ ~TurnEnds /\ ~UnloadIdle
  BY DEF Calm, TurnEnds, UnloadIdle, others
<1>3. PICK s \in Session : Lively(s)
  BY <1>2, CalmOrLively
<1>4. CASE CallPeer(s)
  <2>1. PICK p \in todo[s] \cap conn : CallUnsubscribe(s, p) \/ CallResubscribe(s, p)
    BY <1>4 DEF CallPeer
  <2>2. ASSUME NEW op, NEW state \in Running, NEW prov, StartJob(s, p, op, state, prov)
        PROVE  FALSE
    BY <1>1, <2>2 DEF StartJob
  <2> QED
    BY <2>1, <2>2 DEF CallUnsubscribe, CallResubscribe, Running
<1>5. CASE Hear(s)
  <2>1. s = x
    BY <1>1, <1>5 DEF Hear, HearNotice, HearTurn, HearDesktop, HearList, HearResume, HearJob,
                      Swallow, EndUnsubscribe, EndResubscribe
  <2> QED
    BY <1>5, <2>1
<1>6. CASE JobTimeout(s) \/ Close(s)
  BY <1>1, <1>6 DEF JobTimeout, EndUnsubscribe, Close
<1>7. CASE \/ Open(s) \/ BeginPeer(s) \/ EndPeer(s) \/ ArchiveRoot(s) \/ Asks(s)
           \/ ForwardTurn(s) \/ Forwards(s) \/ CallTimeout(s) \/ ServeStep(s) \/ ServeFault(s)
  BY <1>7 DEF Open, BeginPeer, EndPeer, ArchiveRoot, Asks, AskStatus, AskRoute, InternalResume,
     AskServer, ForwardTurn, Forwards, ForwardResume, ForwardUnsubscribe, Forward, CallTimeout,
     ServeStep, ServeFault, others
<1> QED
  BY <1>3, <1>4, <1>5, <1>6, <1>7 DEF Lively

-----------------------------------------------------------------------------
(* Calls: a session waits for every call of its own that is on its way, and   *)
(* for one of each kind at a time.                                            *)

Calls == {"list", "resume", "desktop", "junsub", "jresub", "jrestore"}

Awaits(s, k) ==
  \/ k = "list" /\ pc[s] \in {"statusWait", "routeWait"}
  \/ k = "resume" /\ pc[s] \in {"resumeWait", "recoverResumeWait"}
  \/ k = "desktop" /\ pc[s] = "answer"
  \/ \E o \in JobOps : k = UpOf[o] /\ job[s][o] \in Running

CallOK(s, k) ==
  /\ Once(up[s], k) /\ Once(down[s], k)
  /\ ~ (Has(up[s], k) /\ Has(down[s], k))
  /\ Has(up[s], k) \/ Has(down[s], k) => Awaits(s, k)

CallsOK == \A s \in conn, k \in Calls : CallOK(s, k)

(* No channel of x gains a call of kind k.                                   *)
NoNewCall(x, k) ==
  /\ Has(up'[x], k) => Has(up[x], k)
  /\ Has(down'[x], k) => Has(down[x], k)
  /\ Once(up[x], k) => Once(up'[x], k)
  /\ Once(down[x], k) => Once(down'[x], k)

LEMMA AwaitsStays ==
  ASSUME LockInv, [Next]_vars, NEW x \in Session, NEW k \in Calls, Awaits(x, k), ~Awaits(x, k)'
  PROVE  Hear(x) \/ CallTimeout(x) \/ JobTimeout(x) \/ Close(x)
<1>1. CASE \E o \in JobOps : k = UpOf[o] /\ job[x][o] \in Running
  BY <1>1, JobsStay DEF Awaits
<1>2. CASE pc[x] \in Awaiting /\ pc'[x] # pc[x]
  BY <1>2, WaitersStay
<1>3. CASE pc'[x] = pc[x] /\ ~ \E o \in JobOps : k = UpOf[o] /\ job[x][o] \in Running
  BY <1>3 DEF Awaits
<1> QED
  BY <1>1, <1>2, <1>3 DEF Awaits, Awaiting, Waiting

LEMMA NoNewCallOK ==
  ASSUME LockInv, [Next]_vars, NEW x \in Session, NEW k \in Calls, CallOK(x, k),
         NoNewCall(x, k),
         Hear(x) \/ CallTimeout(x) \/ JobTimeout(x) \/ Close(x) =>
           Awaits(x, k)' \/ ~(Has(up'[x], k) \/ Has(down'[x], k))
  PROVE  CallOK(x, k)'
  BY AwaitsStays DEF CallOK, NoNewCall

LEMMA SameNoNewCall ==
  ASSUME NEW x, NEW k, up'[x] = up[x], down'[x] = down[x]
  PROVE  NoNewCall(x, k)
  BY DEF NoNewCall

LEMMA CallsApart ==
  /\ Calls \cap Notice = {} /\ "turn" \notin Calls
  /\ \A o \in JobOps : UpOf[o] \in Calls \cap Internal /\ CallOf(UpOf[o]) = UpOf[o]
  /\ \A op \in Internal : CallOf(op) = op /\ op \in Calls
  /\ \A o, q \in JobOps : UpOf[o] = UpOf[q] => o = q
  BY DEF Calls, Notice, Closings, JobOps, UpOf, Internal, CallOf

(* A call is sent by a session that waits for no other of its kind.          *)
LEMMA SendCalls ==
  ASSUME LockInv, [Next]_vars, NEW p \in conn, NEW op \in Desktop \cup Internal,
         NEW v \in Provider \cup {NoProvider}, SendOnly(p, Request(op, v)),
         NEW x \in conn, NEW k \in Calls, CallOK(x, k),
         ~ (Hear(x) \/ CallTimeout(x) \/ JobTimeout(x) \/ Close(x)),
         x = p /\ k = CallOf(op) => ~Awaits(p, k) /\ Awaits(p, k)'
  PROVE  CallOK(x, k)'
<1>1. /\ Request(op, v) \in Message
      /\ Awaited(Request(op, v), k) <=> k = CallOf(op)
  BY RequestType DEF Awaited, Request, CallOf
<1>2. /\ p \in Session /\ x \in Session /\ up \in [Session -> Seq(Message)]
      /\ up' = [up EXCEPT ![p] = Append(@, Request(op, v))] /\ UNCHANGED down
  BY ShapeParts DEF LockInv, ServerTypeOK, SendOnly, Send
<1>3. CASE x = p /\ k = CallOf(op)
  <2>1. ~Has(up[x], k) /\ ~Has(down[x], k) /\ Once(up[x], k) /\ Once(down[x], k)
    BY <1>3 DEF CallOK
  <2>2. up[x] \in Seq(Message) /\ up'[x] = Append(up[x], Request(op, v))
    BY <1>2, <1>3
  <2>3. Once(up'[x], k)
    BY <1>1, <2>1, <2>2, CallAppend
  <2> QED
    BY <1>2, <1>3, <2>1, <2>3 DEF CallOK
<1>4. CASE x # p \/ k # CallOf(op)
  <2>1. NoNewCall(x, k)
    <3>1. CASE x # p
      BY <1>2, <3>1, SameNoNewCall
    <3>2. CASE x = p /\ k # CallOf(op)
      BY <1>1, <1>2, <3>2, CallAppend DEF NoNewCall
    <3> QED
      BY <1>4, <3>1, <3>2
  <2> QED
    BY <1>2, <2>1, NoNewCallOK
<1> QED
  BY <1>3, <1>4

(* The caller of op stops waiting.                                           *)
LEMMA AbandonCalls ==
  ASSUME Shape, NEW s \in conn, NEW op \in Internal, Abandon(s, op), NEW x \in conn, NEW k
  PROVE  /\ NoNewCall(x, k)
         /\ x = s /\ k = op => ~Has(up'[x], k) /\ ~Has(down'[x], k)
<1>1. /\ x \in Session /\ up[x] \in Seq(Message) /\ down[x] \in Seq(Message)
      /\ x # s => up'[x] = up[x] /\ down'[x] = down[x]
      /\ x = s => up'[x] = Dropped(up[x], op) /\ down'[x] = Dropped(down[x], op)
  BY ShapeParts DEF ServerTypeOK, Abandon
<1>2. CASE x # s
  BY <1>1, <1>2, SameNoNewCall
<1>3. CASE x = s
  BY <1>1, <1>3, CallDropped DEF NoNewCall
<1> QED
  BY <1>2, <1>3

(* The app-server delivers the answer r to the head of a channel.            *)
LEMMA AnsweredCalls ==
  ASSUME LockInv, [Next]_vars, NEW s \in Session, up[s] # <<>>, NEW r \in Message,
         r.op = Head(up[s]).op, r.live = Head(up[s]).live, NEW n \in Notice, NEW to,
         up' = [up EXCEPT ![s] = Tail(@)], down' = Deliveries(s, r, n, to),
         NEW x \in conn, NEW k \in Calls, CallOK(x, k),
         ~ (Hear(x) \/ CallTimeout(x) \/ JobTimeout(x) \/ Close(x))
  PROVE  CallOK(x, k)'
<1>1. /\ x \in Session /\ up \in [Session -> Seq(Message)]
      /\ down \in [Session -> Seq(Message)] /\ k \notin Notice
  BY ShapeParts, CallsApart DEF LockInv, ServerTypeOK
<1>2. /\ Has(down'[x], k) => Has(down[x], k) \/ (x = s /\ Awaited(r, k))
      /\ Once(down[x], k) /\ (x = s /\ Awaited(r, k) => ~Has(down[x], k)) => Once(down'[x], k)
  BY <1>1, CallDeliveries
<1>3. CASE x # s
  <2>1. up'[x] = up[x]
    BY <1>1, <1>3
  <2>2. NoNewCall(x, k)
    BY <1>2, <1>3, <2>1 DEF NoNewCall
  <2> QED
    BY <1>1, <2>2, NoNewCallOK
<1>4. CASE x = s
  <2>1. /\ up[s] \in Seq(Message) /\ up'[s] = Tail(up[s])
        /\ Awaited(r, k) <=> Awaited(Head(up[s]), k)
    BY <1>1 DEF Awaited
  <2>2. /\ Awaited(r, k) => Has(up[s], k)
        /\ Has(Tail(up[s]), k) => Has(up[s], k)
        /\ Once(up[s], k) => Once(Tail(up[s]), k)
        /\ Once(up[s], k) /\ Awaited(r, k) => ~Has(Tail(up[s]), k)
    BY <2>1, CallTail
  <2>3. Once(up'[x], k) /\ Once(down'[x], k) /\ ~(Has(up'[x], k) /\ Has(down'[x], k))
    BY <1>2, <1>4, <2>1, <2>2 DEF CallOK
  <2>4. Has(up'[x], k) \/ Has(down'[x], k) => Awaits(x, k)
    BY <1>2, <1>4, <2>1, <2>2 DEF CallOK
  <2> QED
    BY <1>1, <2>3, <2>4, AwaitsStays DEF CallOK
<1> QED
  BY <1>3, <1>4

(* Hearing a message moves only the session that hears it.                   *)
LEMMA HearOthers ==
  ASSUME Shape, NEW s \in Session, Hear(s)
  PROVE  /\ OnlyMoves(s)
         /\ \A x \in Session \ {s} : job'[x] = job[x] /\ det'[x] = det[x] /\ eff'[x] = eff[x]
<1> DEFINE m == Head(down[s])
<1>1. /\ job \in [Session -> [JobOps -> JobState]] /\ det \in [Session -> BOOLEAN]
      /\ eff \in [Session -> Provider \cup {NoProvider}]
  BY ShapeParts DEF CacheTypes
<1>2. OnlyMoves(s)
  <2>1. CASE HearNotice(s, m) \/ HearTurn(s, m) \/ HearJob(s, m) \/ Swallow(m)
    BY <2>1 DEF HearNotice, HearTurn, HearJob, Swallow, OnlyMoves
  <2>2. CASE HearDesktop(s, m)
    BY <2>2, ShapeParts DEF HearDesktop, Release, Return, HandlerOK, HandlerTypes, OnlyMoves
  <2>3. CASE HearList(s, m) \/ HearResume(s, m)
    BY <2>3, GotoMoves DEF HearList, HearResume, Decide
  <2> QED
    BY <2>1, <2>2, <2>3 DEF Hear
<1>3. \A x \in Session \ {s} : job'[x] = job[x]
  BY <1>1 DEF Hear, HearNotice, HearTurn, HearDesktop, HearList, HearResume, HearJob,
              Swallow, EndUnsubscribe, EndResubscribe
<1>4. \A x \in Session \ {s} : det'[x] = det[x] /\ eff'[x] = eff[x]
  BY <1>1 DEF Hear, HearNotice, HearTurn, HearDesktop, HearList, HearResume, HearJob,
              Swallow, EndUnsubscribe, EndResubscribe, Learn, Forget
<1> QED
  BY <1>2, <1>3, <1>4

(* Only the answer to a call ends the wait for it.                           *)
LEMMA HearEnds ==
  ASSUME Shape, NEW s \in Session, Hear(s), NEW k \in Calls, Awaits(s, k), ~Awaits(s, k)'
  PROVE  Awaited(Head(down[s]), k)
<1> DEFINE m == Head(down[s])
<1>1. job \in [Session -> [JobOps -> JobState]]
  BY ShapeParts DEF CacheTypes
<1>2. ~ (UNCHANGED <<pc, job>>)
  BY DEF Awaits
<1>3. CASE HearDesktop(s, m)
  <2>1. UNCHANGED job /\ pc[s] = "answer" /\ m.op \in {"dresume", "dunsub"}
    BY <1>3 DEF HearDesktop
  <2>2. k = "desktop"
    BY <2>1 DEF Awaits
  <2> QED
    BY <2>1, <2>2 DEF Awaited, CallOf, Internal
<1>4. CASE HearList(s, m)
  <2>1. UNCHANGED job /\ pc[s] \in {"statusWait", "routeWait"} /\ m.op = "list" /\ m.live
    BY <1>4 DEF HearList
  <2>2. k = "list"
    BY <2>1 DEF Awaits
  <2> QED
    BY <2>1, <2>2 DEF Awaited, CallOf
<1>5. CASE HearResume(s, m)
  <2>1. UNCHANGED job /\ pc[s] \in {"resumeWait", "recoverResumeWait"} /\ m.op = "resume" /\ m.live
    BY <1>5 DEF HearResume
  <2>2. k = "resume"
    BY <2>1 DEF Awaits
  <2> QED
    BY <2>1, <2>2 DEF Awaited, CallOf
<1>6. CASE HearJob(s, m)
  <2>1. PICK o \in JobOps : /\ m.op = UpOf[o] /\ m.live
                            /\ \A q \in JobOps \ {o} : job'[s][q] = job[s][q]
    BY <1>1, <1>6 DEF HearJob, EndUnsubscribe, EndResubscribe, JobOps, UpOf
  <2>2. UNCHANGED pc
    BY <1>6 DEF HearJob
  <2>3. k = UpOf[o]
    BY <2>1, <2>2 DEF Awaits
  <2> QED
    BY <2>1, <2>3, CallsApart DEF Awaited
<1> QED
  BY <1>2, <1>3, <1>4, <1>5, <1>6 DEF Hear, HearNotice, HearTurn, Swallow

LEMMA HearCalls ==
  ASSUME LockInv, NEW s \in Session, Hear(s), NEW x \in conn, NEW k \in Calls, CallOK(x, k)
  PROVE  CallOK(x, k)'
<1>1. /\ down \in [Session -> Seq(Message)] /\ x \in Session
      /\ UNCHANGED up /\ down' = [down EXCEPT ![s] = Tail(@)] /\ down[s] # <<>>
  BY ShapeParts DEF LockInv, ServerTypeOK, Hear
<1>2. CASE x # s
  <2>1. up'[x] = up[x] /\ down'[x] = down[x]
    BY <1>1, <1>2
  <2>2. Awaits(x, k) => Awaits(x, k)'
    BY <1>1, <1>2, HearOthers DEF LockInv, OnlyMoves, Awaits
  <2> QED
    BY <2>1, <2>2 DEF CallOK
<1>3. CASE x = s
  <2>1. down[s] \in Seq(Message) /\ down'[s] = Tail(down[s])
    BY <1>1
  <2>2. /\ Awaited(Head(down[s]), k) => Has(down[s], k)
        /\ Has(Tail(down[s]), k) => Has(down[s], k)
        /\ Once(down[s], k) => Once(Tail(down[s]), k)
        /\ Once(down[s], k) /\ Awaited(Head(down[s]), k) => ~Has(Tail(down[s]), k)
    BY <1>1, <2>1, CallTail
  <2>3. Awaits(s, k) /\ ~Awaits(s, k)' => Awaited(Head(down[s]), k)
    BY HearEnds DEF LockInv
  <2> QED
    BY <1>1, <1>3, <2>1, <2>2, <2>3 DEF CallOK
<1> QED
  BY <1>2, <1>3

LEMMA AbandonCallOK ==
  ASSUME Shape, NEW s \in conn, NEW op \in Internal, Abandon(s, op),
         NEW x \in conn, NEW k \in Calls, CallOK(x, k),
         Awaits(x, k) /\ ~(x = s /\ k = op) => Awaits(x, k)'
  PROVE  CallOK(x, k)'
  BY AbandonCalls DEF CallOK, NoNewCall

LEMMA TimeoutCalls ==
  ASSUME LockInv, NEW s \in Session, CallTimeout(s) \/ JobTimeout(s),
         NEW x \in conn, NEW k \in Calls, CallOK(x, k)
  PROVE  CallOK(x, k)'
<1>1. /\ Shape /\ s \in conn /\ x \in Session /\ pc \in [Session -> Labels]
      /\ job \in [Session -> [JobOps -> JobState]]
  <2>1. CASE CallTimeout(s)
    <3>1. pc[s] \notin {"idle", "lock"}
      BY <2>1 DEF CallTimeout, Waiting
    <3> QED
      BY <3>1, ShapeParts DEF LockInv, Serial, Inside, HandlerOK, HandlerTypes, CacheTypes
  <2>2. CASE JobTimeout(s)
    BY <2>2, ShapeParts DEF JobTimeout, LockInv, HandlerOK, HandlerTypes, CacheTypes
  <2> QED
    BY <2>1, <2>2
<1>2. CASE CallTimeout(s)
  <2> DEFINE op == IF pc[s] \in {"statusWait", "routeWait"} THEN "list" ELSE "resume"
  <2>1. /\ op \in Internal /\ Abandon(s, op) /\ UNCHANGED job /\ pc[s] \in Waiting
        /\ \A y \in Session \ {s} : pc'[y] = pc[y]
    BY <1>1, <1>2, GotoMoves DEF CallTimeout, Internal, OnlyMoves
  <2>2. Awaits(x, k) /\ ~(x = s /\ k = op) => Awaits(x, k)'
    <3>1. CASE x # s
      BY <1>1, <2>1, <3>1 DEF Awaits
    <3>2. CASE x = s /\ k # op
      BY <2>1, <3>2 DEF Awaits, Waiting
    <3> QED
      BY <3>1, <3>2
  <2> QED
    BY <1>1, <2>1, <2>2, AbandonCallOK
<1>3. CASE JobTimeout(s)
  <2>1. PICK o \in JobOps : /\ Abandon(s, UpOf[o])
                            /\ \A y \in Session, q \in JobOps :
                                 job'[y][q] = job[y][q] \/ (y = s /\ q = o)
    <3>1. PICK o \in JobOps : /\ Abandon(s, UpOf[o])
                              /\ \/ o = "unsub" /\ EndUnsubscribe(s, FALSE, "")
                                 \/ job' = [job EXCEPT ![s][o] = "bad"]
      BY <1>3 DEF JobTimeout
    <3>2. PICK v : job' = [job EXCEPT ![s][o] = v]
      BY <3>1 DEF EndUnsubscribe
    <3>3. \A y \in Session, q \in JobOps : job'[y][q] = job[y][q] \/ (y = s /\ q = o)
      BY <1>1, <3>2
    <3> QED
      BY <3>1, <3>3
  <2>2. UNCHANGED pc
    BY <1>3 DEF JobTimeout, handler
  <2>3. Awaits(x, k) /\ ~(x = s /\ k = UpOf[o]) => Awaits(x, k)'
    BY <1>1, <2>1, <2>2 DEF Awaits
  <2> QED
    BY <1>1, <2>1, <2>3, CallsApart, AbandonCallOK
<1> QED
  BY <1>2, <1>3

LEMMA CloseCalls ==
  ASSUME LockInv, NEW s \in Session, Close(s), NEW x \in conn', NEW k \in Calls, CallOK(x, k)
  PROVE  CallOK(x, k)'
<1>1. x \in conn /\ x # s /\ x \in Session
  BY ShapeParts DEF Close, Disconnect, LockInv
<1>2. up'[x] = up[x] /\ down'[x] = down[x] /\ pc'[x] = pc[x] /\ job'[x] = job[x]
  BY <1>1, ShapeParts DEF Close, Disconnect, LockInv, ServerTypeOK, HandlerOK, HandlerTypes,
                          CacheTypes
<1> QED
  BY <1>2 DEF CallOK, Awaits

LEMMA OpenCalls ==
  ASSUME LockInv, NEW s \in Session, Open(s), NEW x \in conn', NEW k \in Calls,
         x \in conn => CallOK(x, k)
  PROVE  CallOK(x, k)'
<1>1. UNCHANGED <<up, down, pc, job>> /\ conn' = conn \cup {s}
  BY DEF Open, Connect, handler
<1>2. CASE x \in conn
  BY <1>1, <1>2 DEF CallOK, Awaits
<1>3. CASE x = s
  <2>1. up[x] = <<>> /\ down[x] = <<>> /\ Len(<<>>) = 0
    BY <1>3 DEF Open, LockInv, Channels
  <2> QED
    BY <1>1, <2>1 DEF CallOK, Has, Once
<1> QED
  BY <1>1, <1>2, <1>3

(* A step that sends no call, even if the app-server announces something.    *)
LEMMA EventCalls ==
  ASSUME LockInv, [Next]_vars, UNCHANGED up,
         \/ UNCHANGED down
         \/ \E n \in Notice : \E to : down' = Deliveries(NoSession, Notification(n), n, to),
         NEW x \in conn, NEW k \in Calls, CallOK(x, k),
         ~ (Hear(x) \/ CallTimeout(x) \/ JobTimeout(x) \/ Close(x))
  PROVE  CallOK(x, k)'
<1>1. /\ x \in Session /\ x # NoSession /\ down \in [Session -> Seq(Message)] /\ k \notin Notice
  BY ShapeParts, CallsApart, AppServerAssumption DEF LockInv, ServerTypeOK
<1>2. (Has(down'[x], k) => Has(down[x], k)) /\ (Once(down[x], k) => Once(down'[x], k))
  <2>1. CASE UNCHANGED down
    BY <2>1
  <2>2. ASSUME NEW n \in Notice, NEW to, down' = Deliveries(NoSession, Notification(n), n, to)
        PROVE  (Has(down'[x], k) => Has(down[x], k)) /\ (Once(down[x], k) => Once(down'[x], k))
    <3>1. Notification(n) \in Message
      BY NotificationType
    <3> QED
      BY <1>1, <2>2, <3>1, CallDeliveries
  <2> QED
    BY <2>1, <2>2
<1>3. up'[x] = up[x]
  OBVIOUS
<1>4. NoNewCall(x, k)
  BY <1>2, <1>3 DEF NoNewCall
<1> QED
  BY <1>1, <1>4, NoNewCallOK

LEMMA JobCalls ==
  ASSUME LockInv, [Next]_vars, NEW p \in conn, NEW o \in JobOps, NEW state \in Running,
         NEW v \in Provider \cup {NoProvider}, NEW s, StartJob(s, p, o, state, v),
         NEW x \in conn, NEW k \in Calls, CallOK(x, k),
         ~ (Hear(x) \/ CallTimeout(x) \/ JobTimeout(x) \/ Close(x))
  PROVE  CallOK(x, k)'
<1>1. /\ p \in Session /\ job \in [Session -> [JobOps -> JobState]]
      /\ UpOf[o] \in Internal /\ CallOf(UpOf[o]) = UpOf[o]
      /\ UpOf[o] \notin {"list", "resume", "desktop"}
      /\ \A q \in JobOps : UpOf[q] = UpOf[o] => q = o
  BY ShapeParts, CallsApart DEF LockInv, CacheTypes, JobOps, UpOf
<1>2. job' = [job EXCEPT ![p][o] = state] /\ job[p][o] \notin Running
      /\ SendOnly(p, Request(UpOf[o], v))
  BY DEF StartJob
<1>3. ~Awaits(p, UpOf[o])
  BY <1>1, <1>2 DEF Awaits
<1>4. job'[p][o] \in Running
  BY <1>1, <1>2
<1>5. Awaits(p, UpOf[o])'
  BY <1>4 DEF Awaits
<1> QED
  BY <1>1, <1>2, <1>3, <1>5, SendCalls

LEMMA HandlerCalls ==
  ASSUME LockInv, [Next]_vars, NEW s \in Session,
         CallPeer(s) \/ Asks(s) \/ ForwardTurn(s) \/ Forwards(s),
         NEW x \in conn, NEW k \in Calls, CallOK(x, k),
         ~ (Hear(x) \/ CallTimeout(x) \/ JobTimeout(x) \/ Close(x))
  PROVE  CallOK(x, k)'
<1>1. /\ Shape /\ tgt[s] \in Provider \cup {NoProvider} /\ pc \in [Session -> Labels]
      /\ NoProvider \in Provider \cup {NoProvider}
  BY ShapeParts DEF LockInv, RequestTypes, HandlerOK, HandlerTypes
<1>2. CASE CallPeer(s)
  <2>1. PICK p \in todo[s] \cap conn : CallUnsubscribe(s, p) \/ CallResubscribe(s, p)
    BY <1>2 DEF CallPeer
  <2>2. CASE ServerIdle
    BY <2>2, EventCalls DEF ServerIdle, serverVars
  <2>3. ASSUME NEW o \in JobOps, NEW state \in Running, NEW v \in Provider \cup {NoProvider},
               StartJob(s, p, o, state, v)
        PROVE  CallOK(x, k)'
    BY <2>1, <2>3, JobCalls
  <2>4. CASE CallUnsubscribe(s, p) /\ ~ServerIdle
    <3>1. "unsub" \in JobOps /\ {"subscribed", "running"} \subseteq Running
      BY DEF JobOps, Running
    <3> QED
      BY <1>1, <2>3, <2>4, <3>1 DEF CallUnsubscribe
  <2>5. CASE CallResubscribe(s, p) /\ ~ServerIdle
    <3>1. pc[s] \in JobOps /\ "running" \in Running
      BY <2>5 DEF CallResubscribe, JobOps, Running
    <3> QED
      BY <1>1, <2>3, <2>5, <3>1 DEF CallResubscribe
  <2> QED
    BY <2>1, <2>2, <2>4, <2>5
<1>3. CASE Asks(s) \/ ForwardTurn(s) \/ Forwards(s)
  <2>1. pc[s] \notin Awaiting /\ pc[s] \notin {"idle", "lock"}
    BY <1>3 DEF Asks, AskStatus, AskRoute, InternalResume, AskServer, ForwardTurn, Forwards,
                ForwardResume, ForwardUnsubscribe, Forward, Step, Awaiting, Waiting
  <2>2. s \in conn
    BY <2>1 DEF LockInv, Serial, Inside
  <2>3. ~Awaits(s, "list") /\ ~Awaits(s, "resume") /\ ~Awaits(s, "desktop")
    BY <2>1 DEF Awaits, Awaiting, Waiting, UpOf, JobOps
  <2>4. /\ {"list", "resume", "dresume", "dunsub", "turn"} \subseteq Desktop \cup Internal
        /\ CallOf("list") = "list" /\ CallOf("resume") = "resume" /\ CallOf("turn") = "turn"
        /\ CallOf("dresume") = "desktop" /\ CallOf("dunsub") = "desktop"
        /\ k # "turn"
    BY CallsApart DEF Desktop, Internal, CallOf
  <2>5. CASE Asks(s)
    <3>1. PICK op \in {"list", "resume"}, v \in Provider \cup {NoProvider} :
            /\ SendOnly(s, Request(op, v))
            /\ op = "list" => Goto(s, "statusWait") \/ Goto(s, "routeWait")
            /\ op = "resume" => Goto(s, "resumeWait") \/ Goto(s, "recoverResumeWait")
      BY <1>1, <2>5 DEF Asks, AskStatus, AskRoute, InternalResume, AskServer
    <3>2. Awaits(s, op)'
      BY <1>1, <3>1, GotoMoves DEF Awaits
    <3> QED
      BY <2>2, <2>3, <2>4, <3>1, <3>2, SendCalls
  <2>6. CASE Forwards(s)
    <3>1. PICK op \in {"dresume", "dunsub"}, v \in Provider \cup {NoProvider} :
            SendOnly(s, Request(op, v)) /\ Goto(s, "answer")
      BY <1>1, <2>6 DEF Forwards, ForwardResume, ForwardUnsubscribe, Forward
    <3>2. Awaits(s, "desktop")'
      BY <1>1, <3>1, GotoMoves DEF Awaits
    <3> QED
      BY <2>2, <2>3, <2>4, <3>1, <3>2, SendCalls
  <2>7. CASE ForwardTurn(s)
    BY <1>1, <2>2, <2>4, <2>7, SendCalls DEF ForwardTurn
  <2> QED
    BY <1>3, <2>5, <2>6, <2>7
<1> QED
  BY <1>2, <1>3

(* An answer goes to whoever asked, and to the call that asked.              *)
Echoes(r, m) == r \in Message /\ r.op = m.op /\ r.live = m.live /\ r.asked = m.asked

LEMMA AnswerEchoes ==
  ASSUME NEW m \in Message, NEW ok \in BOOLEAN, NEW p \in Provider \cup {NoProvider},
         NEW tag \in {"", "idle", "active", "notLoaded", "unsubscribed", "notSubscribed"}
  PROVE  Echoes(Answer(m, ok, p, tag), m)
  BY DEF Answer, Message, Echoes

LEMMA AnswerTag ==
  ASSUME NEW m \in Message, NEW ok \in BOOLEAN, NEW p \in Provider \cup {NoProvider},
         NEW tag \in {"", "idle", "active", "notLoaded", "unsubscribed", "notSubscribed"}
  PROVE  Answer(m, ok, p, tag).tag = tag
  BY DEF Answer, Message

(* The app-server takes one request of s and answers it; only the answer to a *)
(* list of an idle thread says so, and it may announce a turn.                *)
Serves(s, r, n, to) ==
  /\ up[s] # <<>> /\ up' = [up EXCEPT ![s] = Tail(@)]
  /\ Echoes(r, Head(up[s]))
  /\ down' = Deliveries(s, r, n, to)
  /\ r.op = "list" /\ r.tag = "idle" => running = NoSession
  /\ running' # running => r.op = "turn" /\ running' = (IF s \in conn THEN s ELSE Orphan)
  /\ to # {} => n = "started" /\ to = subs /\ running = NoSession

LEMMA ServeParts ==
  ASSUME LockInv, NEW s \in Session, ServeStep(s) \/ ServeFault(s)
  PROVE  \E r \in Message, n \in Notice, to \in SUBSET conn : Serves(s, r, n, to)
<1> DEFINE m == Head(up[s])
<1>1. /\ ServerTypeOK /\ up[s] # <<>> /\ m \in Message
      /\ m.prov \in Provider \cup {NoProvider} /\ NoProvider \in Provider \cup {NoProvider}
      /\ up' = [up EXCEPT ![s] = Tail(@)]
      /\ {} \in SUBSET conn /\ subs \in SUBSET conn /\ "closed" \in Notice /\ "started" \in Notice
  BY ShapeParts, TurnTail DEF ServeStep, ServeFault, Serve, ServeError, LockInv, ServerTypeOK,
                              Message, Channels, Notice, Closings
<1>2. ASSUME NEW r, Echoes(r, m), Reply(s, r), UNCHANGED running,
             m.op = "list" /\ r.tag = "idle" => running = NoSession
      PROVE  \E q \in Message, n \in Notice, to \in SUBSET conn : Serves(s, q, n, to)
  <2>1. Serves(s, r, "closed", {})
    BY <1>1, <1>2 DEF Serves, Reply, Echoes
  <2>2. r \in Message
    BY <1>2 DEF Echoes
  <2> QED
    BY <1>1, <2>1, <2>2
<1>3. CASE ServeStep(s)
  <2>1. CASE ServeResume(s, m)
    <3>1. m.op # "list" /\ UNCHANGED running
      BY <2>1 DEF ServeResume
    <3>2. CASE archived
      <4>1. Reply(s, Answer(m, FALSE, NoProvider, ""))
        BY <2>1, <3>2 DEF ServeResume
      <4>2. Echoes(Answer(m, FALSE, NoProvider, ""), m)
        BY <1>1, AnswerEchoes
      <4> QED
        BY <1>2, <3>1, <4>1, <4>2
    <3>3. CASE ~archived
      <4>1. rt' \in Provider \cup {NoProvider} /\ Reply(s, Answer(m, TRUE, rt', ""))
        BY <1>1, <2>1, <3>3, ResumedType DEF ServeResume
      <4>2. Echoes(Answer(m, TRUE, rt', ""), m)
        BY <1>1, <4>1, AnswerEchoes
      <4> QED
        BY <1>2, <3>1, <4>1, <4>2
    <3> QED
      BY <3>2, <3>3
  <2>2. CASE ServeUnsubscribe(s, m)
    <3>1. PICK tag \in {"", "idle", "active", "notLoaded", "unsubscribed", "notSubscribed"} :
            Reply(s, Answer(m, TRUE, NoProvider, tag))
      BY <2>2 DEF ServeUnsubscribe
    <3>2. Echoes(Answer(m, TRUE, NoProvider, tag), m)
      BY <1>1, AnswerEchoes
    <3> QED
      BY <1>2, <2>2, <3>1, <3>2 DEF ServeUnsubscribe
  <2>3. CASE ServeList(s, m)
    <3>1. /\ rt \in Provider \cup {NoProvider}
          /\ Status \in {"", "idle", "active", "notLoaded", "unsubscribed", "notSubscribed"}
          /\ Status = "idle" => running = NoSession
      BY <1>1 DEF ServerTypeOK, Status
    <3>2. Echoes(Answer(m, TRUE, rt, Status), m)
      BY <1>1, <3>1, AnswerEchoes
    <3>3. Answer(m, TRUE, rt, Status).tag = Status
      BY <1>1, <3>1, AnswerTag
    <3> QED
      BY <1>2, <2>3, <3>1, <3>2, <3>3 DEF ServeList
  <2>4. CASE ServeTurn(s, m)
    <3>1. CASE loaded /\ running = NoSession
      <4> DEFINE r == Answer(m, TRUE, m.prov, "")
      <4>1. Echoes(r, m)
        BY <1>1, AnswerEchoes
      <4>2. down' = Deliveries(s, r, "started", subs) /\ m.op = "turn"
            /\ running' = (IF s \in conn THEN s ELSE Orphan)
        BY <2>4, <3>1 DEF ServeTurn
      <4> HIDE DEF r
      <4>3. Serves(s, r, "started", subs) /\ r \in Message
        BY <1>1, <3>1, <4>1, <4>2 DEF Serves, Echoes
      <4> QED
        BY <1>1, <4>3
    <3>2. CASE ~(loaded /\ running = NoSession)
      <4>1. Reply(s, Answer(m, FALSE, m.prov, "")) /\ UNCHANGED running /\ m.op # "list"
        BY <2>4, <3>2 DEF ServeTurn
      <4>2. Echoes(Answer(m, FALSE, m.prov, ""), m)
        BY <1>1, AnswerEchoes
      <4> QED
        BY <1>2, <4>1, <4>2
    <3> QED
      BY <3>1, <3>2
  <2> QED
    BY <1>3, <2>1, <2>2, <2>3, <2>4 DEF ServeStep, Serve
<1>4. CASE ServeFault(s)
  <2>1. Reply(s, Answer(m, FALSE, NoProvider, "")) /\ UNCHANGED running
    BY <1>4 DEF ServeFault, ServeError
  <2>2. Echoes(Answer(m, FALSE, NoProvider, ""), m) /\ Answer(m, FALSE, NoProvider, "").tag = ""
    BY <1>1, AnswerEchoes, AnswerTag
  <2> QED
    BY <1>2, <2>1, <2>2
<1> QED
  BY <1>3, <1>4

LEMMA ServeCalls ==
  ASSUME LockInv, [Next]_vars, NEW s \in Session, ServeStep(s) \/ ServeFault(s),
         NEW x \in conn, NEW k \in Calls, CallOK(x, k),
         ~ (Hear(x) \/ CallTimeout(x) \/ JobTimeout(x) \/ Close(x))
  PROVE  CallOK(x, k)'
  BY ServeParts, AnsweredCalls DEF Serves, Echoes

LEMMA ConnKept ==
  ASSUME [Next]_vars
  PROVE  conn' = conn \/ \E s \in Session : Open(s) \/ Close(s)
<1>1. CASE Calm \/ TurnEnds \/ UnloadIdle
  BY <1>1 DEF Calm, TurnEnds, UnloadIdle, EndTurn, Unload
<1>2. ASSUME NEW s \in Session, Lively(s)
      PROVE  conn' = conn \/ Open(s) \/ Close(s)
  BY <1>2 DEF Lively, BeginPeer, EndPeer, CallPeer, CallUnsubscribe, CallResubscribe, StartJob,
     ArchiveRoot, Archive, Asks, AskStatus, AskRoute, InternalResume, AskServer, ForwardTurn,
     Forwards, ForwardResume, ForwardUnsubscribe, Forward, SendOnly, CallTimeout, JobTimeout,
     Hear, ServeStep, Serve, ServeFault, ServeError, ServerIdle, serverVars
<1> QED
  BY <1>1, <1>2, CalmOrLively

(* A session that has just opened has nothing on its channels.               *)
LEMMA Opened ==
  ASSUME LockInv, [Next]_vars, NEW s \in conn', s \notin conn
  PROVE  s \in Session /\ Open(s) /\ up[s] = <<>> /\ down[s] = <<>>
<1>1. s \in Session
  BY ShapeStep, ShapeParts DEF LockInv, Shape, TypeOK, ServerTypeOK
<1>2. Open(s)
  BY <1>1, ConnKept DEF Open, Connect, Close, Disconnect
<1> QED
  BY <1>1, <1>2 DEF Open, LockInv, Channels

LEMMA CallsStep ==
  ASSUME LockInv, CallsOK, [Next]_vars
  PROVE  CallsOK'
<1> SUFFICES ASSUME NEW x \in conn', NEW k \in Calls
             PROVE  CallOK(x, k)'
  BY DEF CallsOK
<1>1. /\ conn \subseteq Session /\ (x \in conn => CallOK(x, k))
      /\ conn' = conn \/ \E s \in Session : Open(s) \/ Close(s)
  BY ConnKept, ShapeParts DEF LockInv, CallsOK
<1>2. ASSUME NEW s \in Session, Open(s) \/ Close(s)
      PROVE  CallOK(x, k)'
  <2>1. CASE Open(s)
    BY <1>1, <2>1, OpenCalls
  <2>2. CASE Close(s)
    <3>1. x \in conn
      BY <2>2 DEF Close, Disconnect
    <3> QED
      BY <1>1, <2>2, <3>1, CloseCalls
  <2> QED
    BY <1>2, <2>1, <2>2
<1>3. CASE conn' = conn
  <2>1. x \in conn /\ x \in Session /\ CallOK(x, k)
    BY <1>1, <1>3
  <2>2. CASE Hear(x) \/ CallTimeout(x) \/ JobTimeout(x) \/ Close(x)
    BY <1>2, <2>1, <2>2, HearCalls, TimeoutCalls
  <2>3. CASE ~ (Hear(x) \/ CallTimeout(x) \/ JobTimeout(x) \/ Close(x))
    <3>1. {"completed", "closed", "archived"} \subseteq Notice
      BY DEF Notice, Closings
    <3>2. CASE Calm \/ TurnEnds \/ UnloadIdle
      BY <2>1, <2>3, <3>1, <3>2, EventCalls DEF Calm, TurnEnds, UnloadIdle, EndTurn, Unload
    <3>3. ASSUME NEW s \in Session, BeginPeer(s) \/ EndPeer(s) \/ ArchiveRoot(s)
          PROVE  CallOK(x, k)'
      BY <2>1, <2>3, <3>1, <3>3, EventCalls DEF BeginPeer, EndPeer, ArchiveRoot, Archive,
         ServerIdle, serverVars
    <3>4. ASSUME NEW s \in Session, Lively(s)
          PROVE  CallOK(x, k)'
      BY <1>2, <2>1, <2>3, <3>3, <3>4, HearCalls, TimeoutCalls, HandlerCalls, ServeCalls DEF Lively
    <3> QED
      BY <3>2, <3>4, CalmOrLively
  <2> QED
    BY <2>2, <2>3
<1> QED
  BY <1>1, <1>2, <1>3

(* No peer call and no request of Desktop is sent twice before its answer:    *)
(* every answer a session acts on is the answer to what it asked last         *)
(* (internalRequest, forwardDesktop).                                         *)
THEOREM CallsInvariance == Spec => []CallsOK
<1>1. Init => CallsOK
  <2> SUFFICES ASSUME Init, NEW s \in conn, NEW k \in Calls
               PROVE  CallOK(s, k)
    BY DEF CallsOK
  <2>1. up[s] = <<>> /\ down[s] = <<>> /\ Len(<<>>) = 0
    BY DEF Init
  <2> QED
    BY <2>1 DEF CallOK, Has, Once
<1>2. LockInv /\ CallsOK /\ [Next]_vars => CallsOK'
  BY CallsStep
<1> QED
  BY <1>1, <1>2, LockInvariance, PTL DEF Spec

-----------------------------------------------------------------------------
(* Where a message comes from *)

Dead(m) == m.op \in Internal /\ ~m.live

LEMMA AbandonNews ==
  ASSUME Shape, NEW s \in Session, NEW op \in Internal, Abandon(s, op), NEW x \in Session
  PROVE  /\ \A m \in Elems(down'[x]) : Dead(m) \/ m \in Elems(down[x])
         /\ \A m \in Elems(up'[x]) : Dead(m) \/ m \in Elems(up[x])
<1>1. up \in [Session -> Seq(Message)] /\ down \in [Session -> Seq(Message)]
  BY ShapeParts DEF ServerTypeOK
<1>2. CASE x # s
  BY <1>1, <1>2 DEF Abandon
<1>3. CASE x = s
  BY <1>1, <1>3, ElemsDropped DEF Abandon, Dead
<1> QED
  BY <1>2, <1>3

LEMMA TimeoutNews ==
  ASSUME LockInv, NEW s \in Session, CallTimeout(s) \/ JobTimeout(s), NEW x \in Session
  PROVE  /\ \A m \in Elems(down'[x]) : Dead(m) \/ m \in Elems(down[x])
         /\ \A m \in Elems(up'[x]) : Dead(m) \/ m \in Elems(up[x])
<1>1. PICK op \in Internal : Abandon(s, op)
  BY CallsApart DEF CallTimeout, JobTimeout, Internal
<1> QED
  BY <1>1, AbandonNews DEF LockInv

LEMMA DownNews ==
  ASSUME LockInv, [Next]_vars, NEW x \in Session, NEW m \in Elems(down'[x])
  PROVE  \/ m \in Elems(down[x]) \/ m.op \in Notice \/ Dead(m)
         \/ /\ ServeStep(x) \/ ServeFault(x)
            /\ \E n, to : Serves(x, m, n, to)
<1>1. /\ down \in [Session -> Seq(Message)] /\ x # NoSession
      /\ {"completed", "closed", "archived"} \subseteq Notice
  BY ShapeParts, AppServerAssumption DEF LockInv, ServerTypeOK, Notice, Closings
<1>2. ASSUME NEW n \in Notice, NEW to, down' = Deliveries(NoSession, Notification(n), n, to)
      PROVE  m \in Elems(down[x]) \/ m.op \in Notice
  <2>1. Notification(n) \in Message /\ Notification(n).op \in Notice
    BY NotificationType
  <2> QED
    BY <1>1, <1>2, <2>1, Delivered
<1>3. CASE UNCHANGED down
  BY <1>3
<1>4. CASE TurnEnds \/ UnloadIdle
  BY <1>1, <1>2, <1>4 DEF TurnEnds, UnloadIdle, EndTurn, Unload
<1>5. ASSUME NEW s \in Session, ArchiveRoot(s)
      PROVE  m \in Elems(down[x]) \/ m.op \in Notice
  BY <1>1, <1>2, <1>5 DEF ArchiveRoot, Archive, ServerIdle, serverVars
<1>6. ASSUME NEW s \in Session, ServeStep(s) \/ ServeFault(s)
      PROVE  \/ m \in Elems(down[x]) \/ m.op \in Notice
             \/ x = s /\ \E n, to : Serves(x, m, n, to)
  <2>1. PICK r \in Message, n \in Notice, to \in SUBSET conn : Serves(s, r, n, to)
    BY <1>6, ServeParts
  <2>2. down' = Deliveries(s, r, n, to) /\ Notification(n).op \in Notice
    BY <2>1, NotificationType DEF Serves
  <2>3. m \in Elems(down[x]) \/ (x = s /\ m = r) \/ m = Notification(n)
    BY <1>1, <2>2, Delivered
  <2> QED
    BY <2>1, <2>2, <2>3
<1>7. ASSUME NEW s \in Session, Close(s) \/ Hear(s)
      PROVE  m \in Elems(down[x])
  <2>1. /\ down[s] # <<>> /\ Hear(s) => down' = [down EXCEPT ![s] = Tail(@)]
        /\ Close(s) => down' = [down EXCEPT ![s] = <<>>]
        /\ Hear(s) => down[s] # <<>>
    BY DEF Close, Disconnect, Hear
  <2>2. Elems(<<>>) = {}
    BY DEF Elems
  <2> QED
    BY <1>1, <1>7, <2>1, <2>2, ElemsTail
<1>8. ASSUME NEW s \in Session, Lively(s), ~UNCHANGED down
      PROVE  \/ ArchiveRoot(s) \/ Close(s) \/ Hear(s) \/ CallTimeout(s) \/ JobTimeout(s)
             \/ ServeStep(s) \/ ServeFault(s)
  BY <1>8 DEF Lively, Open, Connect, BeginPeer, EndPeer, CallPeer, CallUnsubscribe,
     CallResubscribe, StartJob, Asks, AskStatus, AskRoute, InternalResume, AskServer, ForwardTurn,
     Forwards, ForwardResume, ForwardUnsubscribe, Forward, SendOnly, ServerIdle, serverVars
<1> QED
  BY <1>3, <1>4, <1>5, <1>6, <1>7, <1>8, TimeoutNews, CalmOrLively DEF Calm

-----------------------------------------------------------------------------
(* The thread stays idle *)

Quiet == running \in {NoSession, Orphan}

(* Where the handler relies on no open session's turn running.               *)
QuietLabels == {"stageRecovering", "saveJournal", "begin", "archive", "reconcile", "prepare2"}

QuietInv ==
  /\ \A s \in Session : pc[s] \in QuietLabels => Quiet
  /\ \A s \in conn : IdleSeen(s) => Quiet

(* Only a turn that holds the lock ends the quiet.                           *)
LEMMA QuietKept ==
  ASSUME LockInv, [Next]_vars, Quiet
  PROVE  \/ Quiet'
         \/ \E s \in conn : lock = s /\ fence[s] /\ UNCHANGED <<pc, conn, job>>
<1>1. CASE running' = running
  BY <1>1 DEF Quiet
<1>2. CASE TurnEnds \/ UnloadIdle
  BY <1>2 DEF TurnEnds, UnloadIdle, EndTurn, Unload, Quiet
<1>3. ASSUME NEW s \in Session, ArchiveRoot(s)
      PROVE  Quiet'
  BY <1>3 DEF ArchiveRoot, Archive, ServerIdle, serverVars, Quiet
<1>4. ASSUME NEW s \in Session, ServeStep(s) \/ ServeFault(s), running' # running
      PROVE  Quiet' \/ (s \in conn /\ lock = s /\ fence[s] /\ UNCHANGED <<pc, conn, job>>)
  <2>1. PICK r \in Message, n \in Notice, to \in SUBSET conn : Serves(s, r, n, to)
    BY <1>4, ServeParts
  <2>2. Head(up[s]).op = "turn" /\ up[s] # <<>> /\ running' = (IF s \in conn THEN s ELSE Orphan)
    BY <1>4, <2>1 DEF Serves, Echoes
  <2>3. up[s] \in Seq(Message)
    BY ShapeParts DEF LockInv, ServerTypeOK
  <2>4. HasTurn(up[s])
    BY <2>2, <2>3, TurnTail
  <2>5. s \in conn => lock = s /\ fence[s]
    BY <2>4 DEF LockInv, Channels, TurnsOK, Serial, Inside
  <2>6. UNCHANGED <<pc, conn, job>>
    BY <1>4 DEF ServeStep, ServeFault, Serve, ServeError, others, handler
  <2> QED
    BY <2>2, <2>5, <2>6 DEF Quiet
<1>5. ASSUME NEW s \in Session, Lively(s), running' # running
      PROVE  ArchiveRoot(s) \/ ServeStep(s) \/ ServeFault(s)
  BY <1>5 DEF Lively, Open, Connect, Close, Disconnect, BeginPeer, EndPeer, CallPeer,
     CallUnsubscribe, CallResubscribe, StartJob, Asks, AskStatus, AskRoute, InternalResume,
     AskServer, ForwardTurn, Forwards, ForwardResume, ForwardUnsubscribe, Forward, SendOnly,
     CallTimeout, JobTimeout, Hear, ServerIdle, serverVars
<1>6. conn \subseteq Session
  BY ShapeParts DEF LockInv
<1> QED
  BY <1>1, <1>2, <1>3, <1>4, <1>5, <1>6, CalmOrLively DEF Calm

(* An idle answer on its way was given by an idle thread.                    *)
LEMMA IdleNews ==
  ASSUME LockInv, QuietInv, [Next]_vars, NEW s \in conn', IdleSeen(s)'
  PROVE  Quiet
<1>1. PICK m \in Elems(down'[s]) : Awaited(m, "list") /\ m.ok /\ m.tag = "idle"
  BY DEF IdleSeen
<1>2. m.op = "list" /\ m.live /\ m.op \notin Notice /\ ~Dead(m)
  BY <1>1 DEF Awaited, CallOf, Internal, Notice, Closings, Dead
<1>3. s \in Session
  BY ShapeStep, ShapeParts DEF LockInv, Shape, TypeOK, ServerTypeOK
<1>4. CASE m \in Elems(down[s])
  <2>1. s \in conn
    BY <1>4, Opened DEF Elems
  <2> QED
    BY <1>1, <1>4, <2>1 DEF QuietInv, IdleSeen
<1>5. CASE \E n, to : Serves(s, m, n, to)
  BY <1>1, <1>2, <1>5 DEF Serves, Quiet
<1> QED
  BY <1>2, <1>3, <1>4, <1>5, DownNews

LEMMA QuietStep ==
  ASSUME LockInv, CallsOK', QuietInv, [Next]_vars
  PROVE  QuietInv'
<1>1. /\ LockInv' /\ \A x \in Session : Legal(x)
      /\ conn' \subseteq Session
  BY LockInvStep, LegalStep, ShapeParts DEF LockInv, Shape, TypeOK, ServerTypeOK
<1>2. ASSUME Quiet, ~Quiet', NEW s \in Session, pc'[s] \notin {"idle", "lock"}
      PROVE  FALSE
  <2>1. PICK x \in conn : lock = x /\ fence[x] /\ UNCHANGED <<pc, conn, job>>
    BY <1>2, QuietKept
  <2> QED
    BY <1>2, <2>1, ShapeParts DEF LockInv, Serial, Inside
<1>3. ASSUME NEW s \in Session, pc'[s] \in QuietLabels
      PROVE  Quiet'
  <2>1. pc'[s] \notin {"idle", "lock"}
    BY <1>3 DEF QuietLabels
  <2>2. Quiet
    <3>1. CASE pc[s] \in QuietLabels
      BY <3>1 DEF QuietInv
    <3>2. CASE pc[s] \notin QuietLabels
      <4>1. Gate(s)
        BY <1>1, <1>3, <3>2 DEF Legal
      <4>2. pc'[s] \in {"stageRecovering", "reconcile"}
        BY <1>3, <3>2, <4>1 DEF Gate, Before, QuietLabels
      <4>3. CASE pc'[s] = "stageRecovering"
        BY <4>1, <4>3 DEF Gate, Quiet
      <4>4. CASE pc'[s] = "reconcile"
        <5>1. IdleSeen(s) /\ pc[s] = "statusWait"
          BY <4>1, <4>4 DEF Gate, Before
        <5>2. s \in conn
          BY <5>1 DEF LockInv, Serial, Inside
        <5> QED
          BY <5>1, <5>2 DEF QuietInv
      <4> QED
        BY <4>2, <4>3, <4>4
    <3> QED
      BY <3>1, <3>2
  <2> QED
    BY <1>2, <1>3, <2>1, <2>2
<1>4. ASSUME NEW s \in conn', IdleSeen(s)'
      PROVE  Quiet'
  <2>1. PICK m \in Elems(down'[s]) : Awaited(m, "list")
    BY <1>4 DEF IdleSeen
  <2>2. Has(down'[s], "list")
    BY <2>1 DEF Has, Elems
  <2>3. "list" \in Calls /\ \A o \in JobOps : UpOf[o] # "list"
    BY DEF Calls, JobOps, UpOf
  <2>4. Awaits(s, "list")'
    BY <2>2, <2>3 DEF CallsOK, CallOK
  <2>5. pc'[s] \in {"statusWait", "routeWait"}
    BY <2>3, <2>4 DEF Awaits
  <2> QED
    BY <1>1, <1>2, <1>4, <2>5, IdleNews
<1> QED
  BY <1>3, <1>4 DEF QuietInv

(* No open session's turn runs while a handler clears stale busy caches or    *)
(* recovers (prepareTurnPeers, recoverProviderMismatch).                      *)
THEOREM QuietInvariance == Spec => []QuietInv
<1>1. Init => QuietInv
  <2> SUFFICES ASSUME Init
               PROVE  QuietInv
    OBVIOUS
  <2>1. running = NoSession
    BY DEF Init
  <2> QED
    BY <2>1 DEF QuietInv, Quiet
<1>2. LockInv /\ CallsOK' /\ QuietInv /\ [Next]_vars => QuietInv'
  BY QuietStep
<1> QED
  BY <1>1, <1>2, LockInvariance, CallsInvariance, PTL DEF Spec

(* Stale busy caches are overwritten only when no open session's turn is      *)
(* running, or on its way to run: the fence keeps the thread until then.      *)
THEOREM ReconcileSafe == Spec => []ReconcileOnlyWhenIdle
<1>1. LockInv /\ QuietInv => ReconcileOnlyWhenIdle
  <2> SUFFICES ASSUME LockInv, QuietInv, NEW s \in Session, pc[s] \in {"reconcile", "prepare2"}
               PROVE  /\ running \in {NoSession, Orphan}
                      /\ \A x \in conn : \A m \in InFlight(x) : m.op # "turn"
    BY DEF ReconcileOnlyWhenIdle
  <2>1. running \in {NoSession, Orphan}
    BY DEF QuietInv, QuietLabels, Quiet
  <2>2. ASSUME NEW x \in conn, NEW m \in InFlight(x), m.op = "turn"
        PROVE  FALSE
    <3>1. /\ x \in Session /\ up[x] \in Seq(Message) /\ down[x] \in Seq(Message)
          /\ DOMAIN up[x] = 1..Len(up[x]) /\ DOMAIN down[x] = 1..Len(down[x])
      BY ShapeParts DEF LockInv, ServerTypeOK
    <3>2. HasTurn(up[x]) \/ HasTurn(down[x])
      BY <2>2, <3>1, TurnAwaited DEF InFlight, HasTurn, Has
    <3>3. fence[x] /\ lock = x /\ lock = s /\ ~fence[s]
      BY <3>1, <3>2, OneHolder DEF LockInv, Channels, TurnsOK, Serial, Inside
    <3> QED
      BY <3>3
  <2> QED
    BY <2>1, <2>2
<1> QED
  BY <1>1, LockInvariance, QuietInvariance, PTL

LEMMA ArchiveMoves ==
  ASSUME [Next]_vars, archived', ~archived
  PROVE  \E s \in Session : ArchiveRoot(s)
<1>1. ~Calm /\ ~TurnEnds /\ ~UnloadIdle
  BY DEF Calm, TurnEnds, UnloadIdle, EndTurn, Unload
<1>2. PICK s \in Session : Lively(s)
  BY <1>1, CalmOrLively
<1>3. ArchiveRoot(s) \/ UNCHANGED archived
  BY <1>2 DEF Lively, Open, Connect, Close, Disconnect, BeginPeer, EndPeer, CallPeer,
     CallUnsubscribe, CallResubscribe, StartJob, Asks, AskStatus, AskRoute, InternalResume,
     AskServer, ForwardTurn, Forwards, ForwardResume, ForwardUnsubscribe, Forward, SendOnly,
     CallTimeout, JobTimeout, Hear, ServerIdle, serverVars, ServeStep, Serve, ServeResume,
     ServeUnsubscribe, ServeList, ServeTurn, ServeFault, ServeError
<1> QED
  BY <1>3

(* The archive that unloads a wedged runtime never cuts off an open session's *)
(* turn, whatever its peers do meanwhile (recoverProviderMismatch).           *)
THEOREM TurnsSurviveRecovery == Spec => TurnNeverInterrupted
<1>1. LockInv /\ QuietInv /\ [Next]_vars =>
        [archived' /\ ~archived => running \in {NoSession, Orphan}]_vars
  <2> SUFFICES ASSUME LockInv, QuietInv, [Next]_vars, archived', ~archived
               PROVE  Quiet
    BY DEF Quiet
  <2>1. \E s \in Session : ArchiveRoot(s)
    BY ArchiveMoves
  <2> QED
    BY <2>1 DEF ArchiveRoot, Step, QuietInv, QuietLabels
<1> QED
  BY <1>1, LockInvariance, QuietInvariance, PTL DEF Spec, TurnNeverInterrupted

-----------------------------------------------------------------------------
(* Who changes the files, the suppression and the views *)

Journals(s) ==
  \/ SaveJournal(s)
  \/ ClearJournal(s, "clearJournal", "stageResub", "restore")
  \/ ClearJournal(s, "repairClear", AfterRepair(s), "fail")

LEMMA FilesMove ==
  ASSUME [Next]_vars
  PROVE  \/ UNCHANGED <<dirty, journal>>
         \/ \E s \in Session : Journals(s) \/ SetDirtyStage(s) \/ ClearDirty(s)
<1>1. ASSUME NEW s \in Session, PassStep(s) \/ Timeout(s)
      PROVE  UNCHANGED files
  BY <1>1 DEF PassStep, SkipPeer, CheckPeer, ReconcilePeer, BeginPeer, EndPeer, CallPeer,
     PeerAnswered, Timeout, PeerCallTimeout, JobTimeout, CallTimeout
<1>2. ASSUME NEW s \in Session, TurnStep(s) \/ DesktopStep(s) \/ FailRequest(s) \/ LockThread(s)
      PROVE  UNCHANGED <<dirty, journal>>
  BY <1>2 DEF TurnStep, PrepareTurn, AskStatus, DecideRoute, AskRoute, AskServer, ForwardTurn,
     FinishCommand, DesktopStep, SanitizeResume, ForwardResume, ForwardUnsubscribe, Forward,
     FailRequest, LockThread, files
<1>3. ASSUME NEW s \in Session, HandoffStep(s) \/ Recover(s) \/ RepairJournal(s)
      PROVE  UNCHANGED files \/ Journals(s) \/ SetDirtyStage(s) \/ ClearDirty(s)
  BY <1>3 DEF HandoffStep, Sanitize, InternalResume, AskServer, Recover, Inspect, ArchiveRoot,
     UnarchiveAll, Resanitize, RepairJournal, LoadJournal, RepairResume, Journals
<1>4. ASSUME NEW s \in Session,
             Open(s) \/ Close(s) \/ Receive(s) \/ Hear(s) \/ ServeStep(s) \/ ServeFault(s)
      PROVE  UNCHANGED files
  BY <1>4 DEF Open, Close, Receive, Hear, ServeStep, ServeFault, others
<1>5. CASE TurnEnds \/ UnloadIdle \/ UNCHANGED vars
  BY <1>5 DEF TurnEnds, UnloadIdle, others, vars, files
<1> QED
  BY <1>1, <1>2, <1>3, <1>4, <1>5 DEF Next, Handle, files

(* The steps that write the files change nothing else but the handler.       *)
LEMMA FilesOnly ==
  ASSUME Shape, NEW s \in Session, Journals(s) \/ SetDirtyStage(s) \/ ClearDirty(s)
  PROVE  /\ UNCHANGED <<conn, sup, det, job, views, lapsed, at, subs, up, down>>
         /\ pc[s] \notin {"idle", "lock"}
         /\ Journals(s) => /\ pc[s] \in {"saveJournal", "clearJournal", "repairClear"}
                           /\ UNCHANGED dirty
         /\ SetDirtyStage(s) \/ ClearDirty(s) => UNCHANGED journal
  BY StageType DEF Journals, SaveJournal, ClearJournal, SetDirtyStage, ClearDirty, ServerIdle,
     serverVars, caches, Step

LEMMA SupMoves ==
  ASSUME [Next]_vars
  PROVE  sup' = sup \/ \E s \in Session : BeginPeer(s) \/ EndPeer(s) \/ Close(s)
<1>1. ASSUME NEW s \in Session, Lively(s)
      PROVE  sup' = sup \/ BeginPeer(s) \/ EndPeer(s) \/ Close(s)
  BY <1>1 DEF Lively, Open, CallPeer, ArchiveRoot, Asks, AskStatus, AskRoute, InternalResume,
     AskServer, ForwardTurn, Forwards, ForwardResume, ForwardUnsubscribe, Forward, CallTimeout,
     JobTimeout, Hear, ServeStep, ServeFault, others, caches
<1>2. CASE Calm \/ TurnEnds \/ UnloadIdle
  BY <1>2 DEF Calm, TurnEnds, UnloadIdle, others, caches
<1> QED
  BY <1>1, <1>2, CalmOrLively

LEMMA SupGain ==
  ASSUME LockInv, [Next]_vars, NEW x \in Session, sup'[x], ~sup[x]
  PROVE  /\ x \in conn /\ UNCHANGED <<conn, files>>
         /\ \E s \in Session : pc[s] \in Begins
<1>1. sup \in [Session -> BOOLEAN]
  BY ShapeParts DEF LockInv, CacheTypes
<1>2. PICK s \in Session : BeginPeer(s) \/ EndPeer(s) \/ Close(s)
  BY SupMoves
<1>3. CASE BeginPeer(s)
  <2>1. PICK p \in conn : sup' \in {sup, [sup EXCEPT ![p] = TRUE]}
    BY <1>3 DEF BeginPeer
  <2>2. x = p
    BY <1>1, <2>1
  <2> QED
    BY <1>3, <2>2 DEF BeginPeer, ServerIdle, serverVars
<1>4. CASE EndPeer(s) \/ Close(s)
  <2>1. \E p : sup' \in {sup, [sup EXCEPT ![p] = FALSE]}
    BY <1>4 DEF EndPeer, Close
  <2> QED
    BY <1>1, <2>1
<1> QED
  BY <1>2, <1>3, <1>4

LEMMA SupLoss ==
  ASSUME LockInv, [Next]_vars, NEW x \in Session, sup[x], ~sup'[x]
  PROVE  x \notin conn' \/ \E s \in Session : pc[s] \in Ends
<1>1. sup \in [Session -> BOOLEAN]
  BY ShapeParts DEF LockInv, CacheTypes
<1>2. PICK s \in Session : BeginPeer(s) \/ EndPeer(s) \/ Close(s)
  BY SupMoves
<1>3. CASE BeginPeer(s)
  <2>1. \E p : sup' \in {sup, [sup EXCEPT ![p] = TRUE]}
    BY <1>3 DEF BeginPeer
  <2> QED
    BY <1>1, <2>1
<1>4. CASE EndPeer(s)
  BY <1>4 DEF EndPeer
<1>5. CASE Close(s)
  <2>1. x = s
    BY <1>1, <1>5 DEF Close
  <2> QED
    BY <1>5, <2>1 DEF Close, Disconnect
<1> QED
  BY <1>2, <1>3, <1>4, <1>5

(* A view is opened by the answer to a thread/resume its session waits for.  *)
LEMMA ViewGain ==
  ASSUME LockInv, CallsOK, [Next]_vars, NEW x \in views' \ views
  PROVE  x \in conn /\ x \in conn' /\ x \in Session /\ pc[x] = "answer" /\ ServeStep(x)
<1>1. ~Calm /\ ~TurnEnds /\ ~UnloadIdle /\ x \in Session
  BY ShapeStep, ShapeParts DEF Calm, TurnEnds, UnloadIdle, LockInv, HistoryTypes, Shape, TypeOK
<1>2. PICK s \in Session : Lively(s)
  BY <1>1, CalmOrLively
<1>3. ServeStep(s) \/ (Hear(s) /\ views' \subseteq views)
  BY <1>2 DEF Lively, Open, Close, BeginPeer, EndPeer, CallPeer, ArchiveRoot, Asks, AskStatus,
     AskRoute, InternalResume, AskServer, ForwardTurn, Forwards, ForwardResume,
     ForwardUnsubscribe, Forward, CallTimeout, JobTimeout, Hear, HearNotice, HearTurn,
     HearDesktop, HearList, HearResume, HearJob, Swallow, ServeFault
<1>4. ServeStep(s) /\ x = s /\ s \in conn /\ Head(up[s]).op = "dresume" /\ up[s] # <<>>
  BY <1>3 DEF ServeStep, Serve
<1>5. Has(up[s], "desktop")
  <2>1. up[s] \in Seq(Message) /\ Awaited(Head(up[s]), "desktop")
    BY <1>4, ShapeParts DEF LockInv, ServerTypeOK, Awaited, CallOf, Internal
  <2> QED
    BY <1>4, <2>1, CallTail
<1>6. Awaits(s, "desktop")
  BY <1>4, <1>5 DEF CallsOK, CallOK, Calls
<1>7. pc[s] = "answer"
  BY <1>6 DEF Awaits, JobOps, UpOf
<1> QED
  BY <1>1, <1>4, <1>7 DEF ServeStep, Serve

-----------------------------------------------------------------------------
(* Suppression and the archive *)

(* What holds of the suppression where the handler of s stands.              *)
SupFacts(s) ==
  /\ pc[s] \in {"end", "repairEnd"} => \A x \in Session : sup[x] => x \in todo[s]
  /\ pc[s] \in {"clearJournal", "repairClear"} => \A x \in Session : ~sup[x]
  /\ pc[s] = "begin" => \A x \in views : sup[x] \/ x \in todo[s]
  /\ pc[s] = "archive" => \A x \in views : sup[x]

SupInv ==
  /\ views \subseteq conn
  /\ \A x \in Session : sup[x] => x \in conn /\ journal # NoProvider
  /\ \A s \in Session : SupFacts(s)

LEMMA ViewsOpen ==
  ASSUME LockInv, CallsOK, SupInv, [Next]_vars
  PROVE  views' \subseteq conn'
<1> SUFFICES ASSUME NEW x \in views', x \notin conn'
             PROVE  FALSE
  OBVIOUS
<1>1. x \in views
  BY ViewGain
<1>2. x \in conn
  BY <1>1 DEF SupInv
<1>3. PICK s \in Session : Close(s)
  BY <1>2, ConnKept DEF Open, Connect
<1> QED
  BY <1>2, <1>3 DEF Close, Disconnect

LEMMA SupRecorded ==
  ASSUME LockInv, FilesInv, SupInv, [Next]_vars, NEW x \in Session, sup'[x]
  PROVE  x \in conn' /\ journal' # NoProvider
<1>1. CASE ~sup[x]
  <2>1. /\ x \in conn /\ UNCHANGED <<conn, files>>
        /\ \E s \in Session : pc[s] \in Begins
    BY <1>1, SupGain
  <2>2. journal # NoProvider
    BY <2>1 DEF FilesInv, LabelFacts, Recorded, Begins
  <2> QED
    BY <2>1, <2>2 DEF files
<1>2. CASE sup[x]
  <2>1. x \in conn /\ journal # NoProvider
    BY <1>2 DEF SupInv
  <2>2. x \in conn'
    <3>1. ASSUME NEW s \in Session, Close(s)
          PROVE  x # s
      BY <3>1, ShapeParts DEF Close, LockInv, CacheTypes
    <3> QED
      BY <2>1, <3>1, ConnKept DEF Open, Connect, Close, Disconnect
  <2>3. journal' # NoProvider
    <3>1. CASE UNCHANGED journal
      BY <2>1, <3>1
    <3>2. ASSUME NEW s \in Session, Journals(s)
          PROVE  FALSE
      <4>1. pc[s] \in {"saveJournal", "clearJournal", "repairClear"}
        BY <3>2, FilesOnly DEF LockInv
      <4>2. CASE pc[s] = "saveJournal"
        BY <2>1, <4>2 DEF FilesInv, LabelFacts, Unrecorded
      <4>3. CASE pc[s] \in {"clearJournal", "repairClear"}
        BY <1>2, <4>3 DEF SupInv, SupFacts
      <4> QED
        BY <4>1, <4>2, <4>3
    <3> QED
      BY <3>1, <3>2, FilesMove, FilesOnly DEF LockInv
  <2> QED
    BY <2>2, <2>3
<1> QED
  BY <1>1, <1>2

LEMMA SupFactsStep ==
  ASSUME LockInv, CallsOK, FilesInv, SupInv, [Next]_vars, NEW s \in Session,
         pc'[s] \in {"begin", "archive", "end", "clearJournal", "repairEnd", "repairClear"}
  PROVE  SupFacts(s)'
<1>1. Shape /\ LockInv' /\ Legal(s)
  BY LockInvStep, LegalStep DEF LockInv
<1>2. /\ sup \in [Session -> BOOLEAN] /\ s \in conn' /\ pc'[s] \in Labels /\ views' \subseteq conn'
      /\ \A x \in Session : sup'[x] => x \in conn'
      /\ conn \subseteq Session /\ conn' \subseteq Session
  BY <1>1, ShapeParts, ViewsOpen, SupRecorded
     DEF LockInv, CacheTypes, Serial, Inside, Shape, TypeOK, HandlerTypes, ServerTypeOK
<1>3. /\ pc[s] \in {"saveJournal", "begin", "archive", "recoverResumeWait", "end", "clearJournal",
                    "repairResume", "repairEnd", "repairClear"}
      /\ \A x \in Session : pc[x] \notin {"idle", "lock"} => x = s
  <2>1. pc'[s] # pc[s] => pc[s] \in Before[pc'[s]]
    BY <1>1 DEF Legal, Gate, Before
  <2>2. pc[s] \in {"saveJournal", "begin", "archive", "recoverResumeWait", "end", "clearJournal",
                   "repairResume", "repairEnd", "repairClear"}
    BY <2>1 DEF Before
  <2> QED
    BY <2>2, OneHolder DEF LockInv
<1>4. \A x \in Session : pc[s] \notin Begins /\ sup'[x] => sup[x]
  BY <1>3, SupGain DEF Begins
<1>5. \A x \in Session : pc[s] \notin Ends /\ sup[x] /\ x \in conn' => sup'[x]
  BY <1>3, SupLoss DEF Ends
<1>6. views' \subseteq views
  BY <1>3, ViewGain
<1>7. CASE pc'[s] = pc[s]
  <2>1. todo'[s] = todo[s] \/ \E p \in todo[s] : todo'[s] = todo[s] \ {p} /\ Visited(s, p)
    BY <1>1, <1>7 DEF Legal
  <2>2. CASE pc[s] \in {"end", "repairEnd"}
    BY <1>4, <1>7, <2>1, <2>2 DEF SupFacts, SupInv, Visited, Begins, KeyPasses
  <2>3. CASE pc[s] \in {"clearJournal", "repairClear"}
    BY <1>4, <1>7, <2>3 DEF SupFacts, SupInv, Begins
  <2>4. CASE pc[s] = "begin"
    BY <1>2, <1>5, <1>6, <1>7, <2>1, <2>4 DEF SupFacts, SupInv, Visited, Ends, KeyPasses
  <2>5. CASE pc[s] = "archive"
    BY <1>2, <1>5, <1>6, <1>7, <2>5 DEF SupFacts, SupInv, Ends
  <2> QED
    BY <1>7, <2>2, <2>3, <2>4, <2>5
<1>8. CASE pc'[s] # pc[s]
  <2>1. Gate(s)
    BY <1>1, <1>8 DEF Legal
  <2>2. CASE pc'[s] \in {"begin", "end", "repairEnd"}
    <3>1. todo'[s] = conn /\ pc[s] \in Before[pc'[s]]
      BY <2>1, <2>2 DEF Gate, Before, Passes, Begins, Ends
    <3>2. pc[s] \notin Begins \cup Ends
      BY <2>2, <3>1 DEF Before, Begins, Ends
    <3> QED
      BY <1>4, <1>6, <2>2, <3>1, <3>2 DEF SupFacts, SupInv
  <2>3. CASE pc'[s] \in {"clearJournal", "repairClear"}
    <3>1. pc[s] \in {"end", "repairEnd"} /\ pc'[s] = DoneAt[pc[s]]
      BY <2>1, <2>3 DEF Gate, Before, DoneAt
    <3>2. PICK p \in todo[s] : todo[s] = {p} /\ Visited(s, p)
      BY <2>1, <3>1 DEF Gate, KeyPasses
    <3> QED
      BY <1>4, <2>3, <3>1, <3>2 DEF SupFacts, SupInv, Visited, KeyPasses, Begins
  <2>4. CASE pc'[s] = "archive"
    <3>1. pc[s] = "begin" /\ pc'[s] = DoneAt[pc[s]]
      BY <2>1, <2>4 DEF Gate, Before, DoneAt
    <3>2. PICK p \in todo[s] : todo[s] = {p} /\ Visited(s, p)
      BY <2>1, <3>1 DEF Gate, KeyPasses
    <3> QED
      BY <1>2, <1>5, <1>6, <2>4, <3>1, <3>2 DEF SupFacts, SupInv, Visited, KeyPasses, Ends
  <2> QED
    BY <2>2, <2>3, <2>4
<1> QED
  BY <1>7, <1>8

LEMMA SupStep ==
  ASSUME LockInv, CallsOK, FilesInv, SupInv, [Next]_vars
  PROVE  SupInv'
<1>1. \A s \in Session : SupFacts(s)'
  BY SupFactsStep DEF SupFacts
<1> QED
  BY <1>1, ViewsOpen, SupRecorded DEF SupInv

(* Suppression never outlives the journal that remembers it, and a handler    *)
(* that archives or clears the journal has asked every open peer first        *)
(* (BeginRecoveryAll, EndRecoveryAll).                                        *)
THEOREM SupInvariance == Spec => []SupInv
<1>1. Init => SupInv
  BY DEF Init, SupInv, SupFacts
<1>2. LockInv /\ CallsOK /\ FilesInv /\ SupInv /\ [Next]_vars => SupInv'
  BY SupStep
<1> QED
  BY <1>1, <1>2, LockInvariance, CallsInvariance, FilesInvariance, PTL DEF Spec

(* Whoever still drops notifications after a failed clean-up is remembered by *)
(* a journal on disk (the deferred EndRecoveryAll is best effort).            *)
THEOREM SuppressionRemembered == Spec => []SuppressionJournalled
<1>1. LockInv /\ SupInv => SuppressionJournalled
  BY ShapeParts DEF LockInv, SupInv, SuppressionJournalled
<1> QED
  BY <1>1, LockInvariance, SupInvariance, PTL

(* When recovery archives the thread, every session that has it open hides    *)
(* the archive from its Desktop (BeginRecoveryAll, ArchiveRoot).              *)
THEOREM ArchiveIsHidden == Spec => ArchiveIsolated
<1>1. LockInv /\ SupInv /\ [Next]_vars =>
        [archived' /\ ~archived => \A s \in views \cap conn : sup[s]]_vars
  <2> SUFFICES ASSUME LockInv, SupInv, [Next]_vars, archived', ~archived,
                      NEW x \in views \cap conn
               PROVE  sup[x]
    OBVIOUS
  <2>1. \E s \in Session : ArchiveRoot(s)
    BY ArchiveMoves
  <2> QED
    BY <2>1 DEF ArchiveRoot, Step, SupInv, SupFacts
<1> QED
  BY <1>1, LockInvariance, SupInvariance, PTL DEF Spec, ArchiveIsolated

-----------------------------------------------------------------------------
(* Detached peers *)

Unsubbing(x) == job[x].unsub \in Running

(* Where no peer's unsubscribe is in progress.                               *)
AfterUnsub == {"stageUnsub", "sanitize", "resume", "resumeWait", "stageMismatch", "inspect",
               "stageRecovering", "saveJournal", "begin", "archive", "unarchive", "resanitize",
               "recoverResume", "recoverResumeWait", "end", "clearJournal", "stageResub", "resub",
               "clearDirty", "prepareSame"}

MarkFacts(s) ==
  /\ pc[s] = "unsub" => dirty = "prepared" /\ \A x \in Session : Unsubbing(x) => x \in todo[s]
  /\ pc[s] \in AfterUnsub => \A x \in Session : ~Unsubbing(x)
  /\ pc[s] = "resub" => \A x \in Session : det[x] => x \in todo[s]
  /\ pc[s] = "resub" /\ at[s] # NoSession /\ job[at[s]].resub = "ok" => ~det[at[s]]
  /\ pc[s] = "clearDirty" => \A x \in Session : ~det[x]

MarkInv ==
  /\ \A x \in Session : det[x] \/ Unsubbing(x) => x \in conn /\ dirty # "none"
  /\ \A x \in Session : Unsubbing(x) => dirty = "prepared"
  /\ \A s \in Session : MarkFacts(s)

(* A live answer to a peer's call is heard only while the call is waited for. *)
LEMMA HeardJob ==
  ASSUME LockInv, CallsOK, NEW s \in Session, Hear(s), NEW o \in JobOps,
         Head(down[s]).op = UpOf[o], Head(down[s]).live
  PROVE  job[s][o] \in Running
<1>1. down[s] \in Seq(Message) /\ down[s] # <<>> /\ s \in conn
  BY ShapeParts DEF LockInv, ServerTypeOK, Hear
<1>2. UpOf[o] \in Calls /\ Awaited(Head(down[s]), UpOf[o])
  BY CallsApart DEF Awaited
<1>3. Awaits(s, UpOf[o])
  BY <1>1, <1>2, CallTail DEF CallsOK, CallOK
<1> QED
  BY <1>3, CallsApart DEF Awaits, UpOf, JobOps

LEMMA DetMoves ==
  ASSUME [Next]_vars
  PROVE  det' = det \/ \E s \in Session : Close(s) \/ Forwards(s) \/ Hear(s) \/ JobTimeout(s)
<1>1. ASSUME NEW s \in Session, Lively(s)
      PROVE  det' = det \/ Close(s) \/ Forwards(s) \/ Hear(s) \/ JobTimeout(s)
  BY <1>1 DEF Lively, Open, BeginPeer, EndPeer, CallPeer, ArchiveRoot, Asks, AskStatus, AskRoute,
     InternalResume, AskServer, ForwardTurn, CallTimeout, ServeStep, ServeFault, others, caches
<1>2. CASE Calm \/ TurnEnds \/ UnloadIdle
  BY <1>2 DEF Calm, TurnEnds, UnloadIdle, others, caches
<1> QED
  BY <1>1, <1>2, CalmOrLively

(* Only a peer whose unsubscribe has an outcome is marked as detached.       *)
LEMMA DetGain ==
  ASSUME LockInv, CallsOK, [Next]_vars, NEW x \in Session, det'[x], ~det[x]
  PROVE  Unsubbing(x) /\ ~Unsubbing(x)' /\ UNCHANGED <<conn, files, pc>>
<1>1. det \in [Session -> BOOLEAN] /\ job \in [Session -> [JobOps -> JobState]]
  BY ShapeParts DEF LockInv, CacheTypes
<1>2. PICK s \in Session : Close(s) \/ Forwards(s) \/ Hear(s) \/ JobTimeout(s)
  BY DetMoves
<1>3. CASE Close(s) \/ Forwards(s)
  <2>1. det' = [det EXCEPT ![s] = FALSE]
    BY <1>3 DEF Close, Forwards, ForwardResume, ForwardUnsubscribe, Forward
  <2> QED
    BY <1>1, <2>1
<1>4. ASSUME NEW ok, NEW status, EndUnsubscribe(s, ok, status)
      PROVE  x = s /\ ~Unsubbing(x)'
  <2>1. x = s
    BY <1>1, <1>4 DEF EndUnsubscribe
  <2>2. job'[s].unsub \in {"ok", "bad"}
    BY <1>1, <1>4 DEF EndUnsubscribe, Outcome, JobOps
  <2> QED
    BY <2>1, <2>2 DEF Unsubbing, Running
<1>5. CASE Hear(s)
  <2> DEFINE m == Head(down[s])
  <2>1. HearJob(s, m) /\ m.op = "junsub" /\ EndUnsubscribe(s, m.ok, m.tag)
    <3>1. ~(det' = [det EXCEPT ![s] = FALSE])
      BY <1>1
    <3> QED
      BY <1>5, <3>1 DEF Hear, HearNotice, HearTurn, HearDesktop, HearList, HearResume, HearJob,
         Swallow, EndResubscribe, Learn
  <2>2. job[s]["unsub"] \in Running
    BY <1>5, <2>1, HeardJob DEF HearJob, JobOps, UpOf
  <2> QED
    BY <1>4, <1>5, <2>1, <2>2 DEF Hear, HearJob, Unsubbing
<1>6. CASE JobTimeout(s)
  <2>1. job[s]["unsub"] \in Running /\ EndUnsubscribe(s, FALSE, "")
    BY <1>6 DEF JobTimeout
  <2> QED
    BY <1>4, <1>6, <2>1 DEF JobTimeout, Unsubbing, handler
<1> QED
  BY <1>2, <1>3, <1>5, <1>6

(* A peer's unsubscribe begins with the pass that asks for it.               *)
LEMMA UnsubGain ==
  ASSUME LockInv, [Next]_vars, NEW x \in Session, Unsubbing(x)', ~Unsubbing(x)
  PROVE  /\ x \in conn /\ UNCHANGED <<conn, files, pc, todo>>
         /\ \E s \in Session : pc[s] = "unsub" /\ x \in todo[s]
<1>1. job \in [Session -> [JobOps -> JobState]]
  BY ShapeParts DEF LockInv, CacheTypes
<1>2. ~Calm /\ ~TurnEnds /\ ~UnloadIdle
  BY DEF Calm, TurnEnds, UnloadIdle, others, Unsubbing
<1>3. PICK s \in Session : Lively(s)
  BY <1>2, CalmOrLively
<1>4. CASE CallPeer(s)
  <2>1. PICK p \in todo[s] \cap conn : CallUnsubscribe(s, p) \/ CallResubscribe(s, p)
    BY <1>4 DEF CallPeer
  <2>2. CASE UNCHANGED job
    BY <2>2 DEF Unsubbing
  <2>3. CASE \E o \in {"resub", "restore"} : \E v : StartJob(s, p, o, "running", v)
    <3>1. \A y \in Session : job'[y].unsub = job[y].unsub
      BY <1>1, <2>3 DEF StartJob, JobOps
    <3> QED
      BY <3>1 DEF Unsubbing
  <2>4. CASE pc[s] = "unsub" /\ \E v, w : StartJob(s, p, "unsub", v, w)
    <3>1. \A y \in Session : y # p => job'[y] = job[y]
      BY <1>1, <2>4 DEF StartJob
    <3>2. x = p
      BY <3>1 DEF Unsubbing
    <3> QED
      BY <1>4, <2>4, <3>2 DEF CallPeer, StartJob, SendOnly
  <2> QED
    BY <2>1, <2>2, <2>3, <2>4 DEF CallUnsubscribe, CallResubscribe
<1>5. CASE Close(s) \/ JobTimeout(s) \/ Hear(s)
  <2>1. job'[x].unsub \in {job[x].unsub, "idle", "ok", "bad"}
    <3>1. CASE UNCHANGED job
      BY <3>1
    <3>2. CASE \E o \in {"resub", "restore"} : \E v : job' = [job EXCEPT ![s][o] = v]
      BY <1>1, <3>2 DEF JobOps
    <3>3. CASE \E v \in {"ok", "bad"} : job' = [job EXCEPT ![s].unsub = v]
      BY <1>1, <3>3 DEF JobOps
    <3>4. CASE job' = [job EXCEPT ![s] = [o \in JobOps |-> "idle"]]
      BY <1>1, <3>4 DEF JobOps
    <3> QED
      BY <1>5, <3>1, <3>2, <3>3, <3>4 DEF Close, JobTimeout, Hear, HearNotice, HearTurn, HearDesktop,
         HearList, HearResume, HearJob, Swallow, EndUnsubscribe, EndResubscribe, Outcome, JobOps
  <2> QED
    BY <2>1 DEF Unsubbing, Running
<1>6. UNCHANGED job \/ CallPeer(s) \/ Close(s) \/ JobTimeout(s) \/ Hear(s)
  BY <1>3 DEF Lively, Open, BeginPeer, EndPeer, ArchiveRoot, Asks, AskStatus, AskRoute,
     InternalResume, AskServer, ForwardTurn, Forwards, ForwardResume, ForwardUnsubscribe, Forward,
     CallTimeout, ServeStep, ServeFault, others
<1> QED
  BY <1>4, <1>5, <1>6 DEF Unsubbing

LEMMA JobMoves ==
  ASSUME [Next]_vars
  PROVE  job' = job \/ \E s \in Session : CallPeer(s) \/ Close(s) \/ JobTimeout(s) \/ Hear(s)
<1>1. ASSUME NEW s \in Session, Lively(s)
      PROVE  UNCHANGED job \/ CallPeer(s) \/ Close(s) \/ JobTimeout(s) \/ Hear(s)
  BY <1>1 DEF Lively, Open, BeginPeer, EndPeer, ArchiveRoot, Asks, AskStatus, AskRoute,
     InternalResume, AskServer, ForwardTurn, Forwards, ForwardResume, ForwardUnsubscribe, Forward,
     CallTimeout, ServeStep, ServeFault, others
<1>2. CASE Calm \/ TurnEnds \/ UnloadIdle
  BY <1>2 DEF Calm, TurnEnds, UnloadIdle, others
<1> QED
  BY <1>1, <1>2, CalmOrLively

(* A resubscribe that succeeds ends the detachment.                          *)
LEMMA ResubOk ==
  ASSUME LockInv, [Next]_vars, NEW x \in Session, job'[x].resub = "ok", job[x].resub # "ok"
  PROVE  ~det'[x]
<1>1. det \in [Session -> BOOLEAN] /\ job \in [Session -> [JobOps -> JobState]]
  BY ShapeParts DEF LockInv, CacheTypes
<1>2. PICK s \in Session : CallPeer(s) \/ Close(s) \/ JobTimeout(s) \/ Hear(s)
  BY JobMoves
<1>3. ASSUME NEW p, NEW v, NEW o \in JobOps, job' = [job EXCEPT ![p][o] = v],
             o # "resub" \/ v # "ok"
      PROVE  FALSE
  BY <1>1, <1>3 DEF JobOps
<1>4. CASE CallPeer(s)
  <2>1. PICK p : CallUnsubscribe(s, p) \/ CallResubscribe(s, p)
    BY <1>4 DEF CallPeer
  <2> QED
    BY <1>3, <2>1 DEF CallUnsubscribe, CallResubscribe, StartJob, JobOps
<1>5. CASE Close(s)
  BY <1>1, <1>5 DEF Close, JobOps
<1>6. ASSUME NEW ok, NEW status, EndUnsubscribe(s, ok, status)
      PROVE  FALSE
  BY <1>3, <1>6 DEF EndUnsubscribe, JobOps
<1>7. CASE JobTimeout(s)
  <2>1. \/ EndUnsubscribe(s, FALSE, "")
        \/ \E o \in JobOps : job' = [job EXCEPT ![s][o] = "bad"]
    BY <1>7 DEF JobTimeout
  <2>2. ASSUME NEW o \in JobOps, job' = [job EXCEPT ![s][o] = "bad"]
        PROVE  FALSE
    BY <1>3, <2>2
  <2> QED
    BY <1>6, <2>1, <2>2
<1>8. CASE Hear(s)
  <2>1. PICK m : HearJob(s, m)
    BY <1>8 DEF Hear, HearNotice, HearTurn, HearDesktop, HearList, HearResume, Swallow
  <2>2. EndResubscribe(s, "resub", m)
    BY <1>3, <1>6, <2>1 DEF HearJob, EndResubscribe, JobOps
  <2>3. x = s /\ Verified(m)
    <3>1. job' = [job EXCEPT ![s]["resub"] = Outcome(Verified(m))]
      BY <2>2 DEF EndResubscribe
    <3>2. x = s /\ job'[s]["resub"] = Outcome(Verified(m))
      BY <1>1, <3>1 DEF JobOps
    <3> QED
      BY <3>2 DEF Outcome
  <2> QED
    BY <1>1, <2>2, <2>3 DEF EndResubscribe, Learn
<1> QED
  BY <1>2, <1>4, <1>5, <1>7, <1>8

(* A handler that begins to wait for a peer has just called it.              *)
LEMMA AtGain ==
  ASSUME LockInv, [Next]_vars, NEW s \in Session, at'[s] # at[s], at'[s] # NoSession
  PROVE  /\ CallPeer(s) /\ pc'[s] = pc[s] /\ at'[s] \in conn
         /\ job[at'[s]][pc[s]] \notin Running /\ job'[at'[s]][pc[s]] \in Running
<1>1. at \in [Session -> Session \cup {NoSession}] /\ job \in [Session -> [JobOps -> JobState]]
  BY ShapeParts DEF LockInv, CacheTypes, HandlerOK, HandlerTypes
<1>2. ASSUME NEW y \in Session, CallPeer(y)
      PROVE  /\ y = s /\ pc'[s] = pc[s] /\ at'[s] \in conn
             /\ job[at'[s]][pc[s]] \notin Running /\ job'[at'[s]][pc[s]] \in Running
  <2>1. PICK p \in todo[y] \cap conn : CallUnsubscribe(y, p) \/ CallResubscribe(y, p)
    BY <1>2 DEF CallPeer
  <2>2. PICK v \in Running : (\E w : StartJob(y, p, pc[y], v, w)) /\ pc[y] \in JobOps
    BY <2>1 DEF CallUnsubscribe, CallResubscribe, JobOps, Running
  <2>3. y = s /\ at'[s] = p /\ p \in Session
    BY <1>1, <2>2, ShapeParts DEF StartJob, LockInv
  <2>4. job[p][pc[y]] \notin Running /\ job'[p][pc[y]] = v /\ UNCHANGED pc
    BY <1>1, <2>2, <2>3 DEF StartJob
  <2> QED
    BY <2>2, <2>3, <2>4
<1>3. ASSUME NEW y \in Session, at' \in {at, [at EXCEPT ![y] = NoSession]}
      PROVE  FALSE
  BY <1>1, <1>3
<1>4. ASSUME NEW y \in Session, Handle(y), ~CallPeer(y)
      PROVE  at' \in {at, [at EXCEPT ![y] = NoSession]}
  BY <1>4 DEF Handle, LockThread, PassStep, SkipPeer, CheckPeer, ReconcilePeer, BeginPeer, EndPeer,
     PeerAnswered, TurnStep, PrepareTurn, AskStatus, DecideRoute, AskRoute, AskServer, ForwardTurn,
     FinishCommand, HandoffStep, SetDirtyStage, Sanitize, InternalResume, ClearDirty, Recover,
     Inspect, SaveJournal, ArchiveRoot, UnarchiveAll, Resanitize, ClearJournal, RepairJournal,
     LoadJournal, RepairResume, DesktopStep, SanitizeResume, ForwardResume, ForwardUnsubscribe,
     Forward, FailRequest
<1>5. ASSUME NEW y \in Session, \/ Open(y) \/ Close(y) \/ Receive(y) \/ Hear(y) \/ Timeout(y)
                                \/ ServeStep(y) \/ ServeFault(y)
      PROVE  at' \in {at, [at EXCEPT ![y] = NoSession]}
  BY <1>5 DEF Open, Close, Receive, Hear, Timeout, PeerCallTimeout, JobTimeout, CallTimeout,
     ServeStep, ServeFault, others, handler
<1>6. CASE TurnEnds \/ UnloadIdle \/ UNCHANGED vars
  BY <1>6 DEF TurnEnds, UnloadIdle, others, vars, handler
<1> QED
  BY <1>2, <1>3, <1>4, <1>5, <1>6 DEF Next

LEMMA ResubFact ==
  ASSUME LockInv, CallsOK, MarkInv, [Next]_vars, NEW s \in Session, pc'[s] = "resub",
         at'[s] # NoSession, job'[at'[s]].resub = "ok"
  PROVE  ~det'[at'[s]]
<1>1. /\ at \in [Session -> Session \cup {NoSession}] /\ job \in [Session -> [JobOps -> JobState]]
      /\ Shape /\ Legal(s)
  BY ShapeParts, LegalStep DEF LockInv, CacheTypes, HandlerOK, HandlerTypes
<1>2. at'[s] = at[s]
  BY AtGain DEF Running
<1>3. pc[s] = "resub" /\ at[s] \in Session
  <2>1. pc[s] \in JobOps /\ at[s] \in Session
    BY <1>1, <1>2, AtPass
  <2>2. pc[s] # "resub" => pc[s] \in {"stageResub", "prepareSame"}
    BY <1>1 DEF Legal, Gate, Before
  <2> QED
    BY <2>1, <2>2 DEF JobOps
<1>4. CASE job[at[s]].resub = "ok"
  <2>1. ~det[at[s]] /\ ~Unsubbing(at[s])
    BY <1>2, <1>3, <1>4 DEF MarkInv, MarkFacts, AfterUnsub
  <2> QED
    BY <1>2, <1>3, <2>1, DetGain
<1>5. CASE job[at[s]].resub # "ok"
  BY <1>2, <1>3, <1>5, ResubOk
<1> QED
  BY <1>4, <1>5

(* What may be detached stays marked, step by step.                          *)
LEMMA MarkKept ==
  ASSUME LockInv, CallsOK, MarkInv, [Next]_vars, NEW x \in Session
  PROVE  /\ det'[x] \/ Unsubbing(x)' => x \in conn' /\ dirty' # "none"
         /\ Unsubbing(x)' => dirty' = "prepared"
<1>1. /\ Shape /\ pc \in [Session -> Labels]
      /\ det \in [Session -> BOOLEAN] /\ job \in [Session -> [JobOps -> JobState]]
  BY ShapeParts DEF LockInv, CacheTypes, HandlerOK, HandlerTypes
<1>2. CASE Unsubbing(x)' /\ ~Unsubbing(x)
  BY <1>2, UnsubGain DEF MarkInv, MarkFacts, files
<1>3. CASE det'[x] /\ ~det[x]
  BY <1>3, DetGain DEF MarkInv, files
<1>4. ASSUME det[x] \/ Unsubbing(x), det'[x] \/ Unsubbing(x)'
      PROVE  x \in conn' /\ dirty' # "none" /\ (Unsubbing(x) => dirty' = "prepared")
  <2>1. x \in conn'
    <3>1. ASSUME NEW s \in Session, Close(s)
          PROVE  x # s
      <4>1. ~det'[s] /\ job'[s].unsub = "idle"
        BY <1>1, <3>1 DEF Close, JobOps
      <4> QED
        BY <1>4, <4>1 DEF Unsubbing, Running
    <3> QED
      BY <1>4, <3>1, ConnKept DEF MarkInv, Open, Connect, Close, Disconnect
  <2>2. dirty' # "none" /\ (Unsubbing(x) => dirty' = "prepared")
    <3>1. CASE UNCHANGED dirty
      BY <1>4, <3>1 DEF MarkInv
    <3>2. ASSUME NEW s \in Session, SetDirtyStage(s)
          PROVE  dirty' # "none" /\ (Unsubbing(x) => dirty' = "prepared")
      BY <1>4, <3>2 DEF SetDirtyStage, StageOf, MarkInv, MarkFacts, AfterUnsub
    <3>3. ASSUME NEW s \in Session, ClearDirty(s)
          PROVE  FALSE
      BY <1>4, <3>3 DEF ClearDirty, Step, MarkInv, MarkFacts, AfterUnsub
    <3> QED
      BY <3>1, <3>2, <3>3, FilesMove, FilesOnly DEF LockInv
  <2> QED
    BY <2>1, <2>2
<1> QED
  BY <1>2, <1>3, <1>4

LEMMA MarkFactsStep ==
  ASSUME LockInv, CallsOK, MarkInv, [Next]_vars, NEW s \in Session,
         pc'[s] \in AfterUnsub \cup {"unsub"}
  PROVE  MarkFacts(s)'
<1>1. Shape /\ Legal(s) /\ job \in [Session -> [JobOps -> JobState]]
  BY LegalStep, ShapeParts DEF LockInv, CacheTypes
<1>2. /\ pc[s] \in AfterUnsub \cup {"unsub", "mark", "route", "routeWait"}
      /\ \A x \in Session : pc[x] \notin {"idle", "lock"} => x = s
  <2>1. pc[s] \in AfterUnsub \cup {"unsub", "mark", "route", "routeWait"}
    BY <1>1 DEF Legal, Gate, Before, AfterUnsub
  <2> QED
    BY <2>1, OneHolder DEF LockInv, AfterUnsub
<1>3. \A x \in Session : pc[s] # "unsub" /\ Unsubbing(x)' => Unsubbing(x)
  BY <1>2, UnsubGain
<1>4. \A x \in Session : Unsubbing(x) => job[x].unsub # "ok"
  BY DEF Unsubbing, Running
<1>5. \A x \in Session : det[x] \/ Unsubbing(x) => x \in conn
  BY DEF MarkInv
<1>6. \A x \in Session : det'[x] => det[x] \/ Unsubbing(x)
  BY DetGain
<1>7. CASE pc'[s] = "unsub"
  <2>1. dirty' = "prepared"
    <3>1. CASE pc[s] = "unsub"
      <4>1. dirty = "prepared"
        BY <3>1 DEF MarkInv, MarkFacts
      <4>2. ASSUME NEW y \in Session, SetDirtyStage(y) \/ ClearDirty(y)
            PROVE  FALSE
        <5>1. y = s
          BY <1>1, <1>2, <4>2, FilesOnly
        <5> QED
          BY <3>1, <4>2, <5>1 DEF SetDirtyStage, ClearDirty, Step, StageOf
      <4> QED
        BY <1>1, <4>1, <4>2, FilesMove, FilesOnly
    <3>2. CASE pc[s] # "unsub"
      BY <1>1, <1>7, <3>2 DEF Legal, Gate
    <3> QED
      BY <3>1, <3>2
  <2>2. ASSUME NEW x \in Session, Unsubbing(x)'
        PROVE  x \in todo'[s]
    <3>1. CASE ~Unsubbing(x)
      BY <1>2, <2>2, <3>1, UnsubGain
    <3>2. CASE Unsubbing(x) /\ pc[s] = "unsub"
      <4>1. x \in todo[s] /\ x \in conn
        BY <3>2 DEF MarkInv, MarkFacts
      <4> QED
        BY <1>1, <1>4, <1>7, <3>2, <4>1 DEF Legal, Visited, KeyPasses
    <3>3. CASE Unsubbing(x) /\ pc[s] # "unsub"
      BY <1>1, <1>5, <1>7, <3>3 DEF Legal, Gate, Passes, JobOps
    <3> QED
      BY <3>1, <3>2, <3>3
  <2> QED
    BY <1>7, <2>1, <2>2 DEF MarkFacts, AfterUnsub
<1>8. CASE pc'[s] \in AfterUnsub
  <2>1. \A x \in Session : ~Unsubbing(x)
    <3>1. CASE pc[s] \in AfterUnsub
      BY <3>1 DEF MarkInv, MarkFacts
    <3>2. CASE pc[s] = "unsub"
      <4>1. Gate(s) /\ pc'[s] = "stageUnsub"
        BY <1>1, <1>8, <3>2 DEF Legal, Gate, Before, AfterUnsub
      <4>2. PICK p \in todo[s] : todo[s] = {p} /\ Visited(s, p)
        BY <3>2, <4>1 DEF Gate, KeyPasses, DoneAt
      <4> QED
        BY <1>4, <1>5, <3>2, <4>2 DEF MarkInv, MarkFacts, Visited, KeyPasses
    <3>3. CASE pc[s] \in {"mark", "route", "routeWait"}
      <4>1. pc'[s] = "prepareSame" /\ dirty = "unsubscribed"
        BY <1>1, <1>8, <3>3 DEF Legal, Gate, Before, AfterUnsub
      <4> QED
        BY <4>1 DEF MarkInv
    <3> QED
      BY <1>2, <3>1, <3>2, <3>3
  <2>2. pc[s] # "unsub" \/ pc'[s] # pc[s]
    BY <1>8 DEF AfterUnsub
  <2>3. \A x \in Session : ~Unsubbing(x)'
    <3>1. ASSUME NEW x \in Session, Unsubbing(x)', ~Unsubbing(x)
          PROVE  pc'[s] = "unsub" /\ pc'[s] = pc[s]
      <4>1. PICK y \in Session : pc[y] = "unsub" /\ UNCHANGED pc
        BY <3>1, UnsubGain
      <4> QED
        BY <1>2, <4>1
    <3> QED
      BY <2>1, <2>2, <3>1
  <2>4. \A x \in Session : det'[x] => det[x]
    BY <1>6, <2>1
  <2>5. ASSUME pc'[s] = "resub", NEW x \in Session, det'[x]
        PROVE  x \in todo'[s]
    <3>1. det[x] /\ x \in conn
      BY <1>5, <2>4, <2>5
    <3>2. CASE pc[s] = "resub"
      <4>1. x \in todo[s]
        BY <3>1, <3>2 DEF MarkInv, MarkFacts, AfterUnsub
      <4>2. CASE todo'[s] = todo[s]
        BY <4>1, <4>2
      <4>3. CASE todo'[s] # todo[s]
        <5>1. PICK p \in todo[s] : todo'[s] = todo[s] \ {p} /\ Visited(s, p)
          BY <1>1, <2>5, <3>2, <4>3 DEF Legal
        <5>2. x # p
          BY <3>1, <3>2, <5>1, AppServerAssumption DEF Visited, KeyPasses, MarkInv, MarkFacts, AfterUnsub
        <5> QED
          BY <4>1, <5>1, <5>2
      <4> QED
        BY <4>2, <4>3
    <3>3. CASE pc[s] # "resub"
      BY <1>1, <2>5, <3>1, <3>3 DEF Legal, Gate, Passes, JobOps
    <3> QED
      BY <3>2, <3>3
  <2>6. ASSUME pc'[s] = "clearDirty", NEW x \in Session, det'[x]
        PROVE  FALSE
    <3>1. det[x] /\ x \in conn
      BY <1>5, <2>4, <2>6
    <3>2. CASE pc[s] = "clearDirty"
      BY <3>1, <3>2 DEF MarkInv, MarkFacts
    <3>3. CASE pc[s] # "clearDirty"
      <4>1. Gate(s) /\ pc[s] = "resub"
        BY <1>1, <2>6, <3>3 DEF Legal, Gate, Before
      <4>2. PICK p \in todo[s] : todo[s] = {p} /\ Visited(s, p)
        BY <2>6, <4>1 DEF Gate, KeyPasses, DoneAt
      <4> QED
        BY <3>1, <4>1, <4>2, AppServerAssumption DEF MarkInv, MarkFacts, Visited, KeyPasses, AfterUnsub
    <3> QED
      BY <3>2, <3>3
  <2>7. pc'[s] = "resub" /\ at'[s] # NoSession /\ job'[at'[s]].resub = "ok" => ~det'[at'[s]]
    BY ResubFact
  <2> QED
    BY <1>8, <2>3, <2>5, <2>6, <2>7 DEF MarkFacts, AfterUnsub
<1> QED
  BY <1>7, <1>8

LEMMA MarkStep ==
  ASSUME LockInv, CallsOK, MarkInv, [Next]_vars
  PROVE  MarkInv'
<1>1. \A s \in Session : MarkFacts(s)'
  BY MarkFactsStep DEF MarkFacts, AfterUnsub
<1> QED
  BY <1>1, MarkKept DEF MarkInv

(* A handoff that detached a peer, or is about to, has marked the thread; it  *)
(* removes the mark with every peer back (UnsubscribeAll, ResubscribeAll).    *)
THEOREM MarkInvariance == Spec => []MarkInv
<1>1. Init => MarkInv
  BY DEF Init, MarkInv, MarkFacts, Unsubbing, Running, AfterUnsub, JobOps
<1>2. LockInv /\ CallsOK /\ MarkInv /\ [Next]_vars => MarkInv'
  BY MarkStep
<1> QED
  BY <1>1, <1>2, LockInvariance, CallsInvariance, PTL DEF Spec

(* A peer that recovery may leave unsubscribed is covered by the marker, for  *)
(* any number of peers, closes, timeouts and late answers.                    *)
THEOREM DetachedIsMarked == Spec => []MarkedWhileDetached
<1>1. LockInv /\ MarkInv => MarkedWhileDetached
  BY ShapeParts DEF LockInv, MarkInv, MarkedWhileDetached
<1> QED
  BY <1>1, LockInvariance, MarkInvariance, PTL
==============================================================================
