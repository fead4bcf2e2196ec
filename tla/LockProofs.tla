----------------------------- MODULE LockProofs ------------------------------
(***************************************************************************)
(* Type correctness of Handoff, and its thread lock: one operation at a    *)
(* time holds it, and a turn/start keeps it until the app-server has       *)
(* acknowledged the turn.  What the lock is for: Handoff implements        *)
(* ThreadFiles.  For any sets of sessions and providers and any bounds.    *)
(*                                                                         *)
(* The type of a label's successor depends on where a pass may stand, so   *)
(* the types are proved with the shape of the passes.  FenceCoversAck is   *)
(* not inductive: the lock is let go when an acknowledgement is heard, so  *)
(* no second turn/start may be in flight, and a session that opens must    *)
(* find its channels empty.                                                *)
(***************************************************************************)
EXTENDS Handoff, TLAPS

-----------------------------------------------------------------------------
(* Messages and channels *)

LEMMA RequestType ==
  ASSUME NEW op \in Desktop \cup Internal \cup Notice, NEW p \in Provider \cup {NoProvider}
  PROVE  /\ Request(op, p) \in Message
         /\ Request(op, p).op = op
  BY DEF Request, Message

LEMMA AnswerType ==
  ASSUME NEW m \in Message, NEW ok \in BOOLEAN, NEW p \in Provider \cup {NoProvider},
         NEW tag \in {"", "idle", "active", "notLoaded", "unsubscribed", "notSubscribed"}
  PROVE  /\ Answer(m, ok, p, tag) \in Message
         /\ Answer(m, ok, p, tag).op = m.op
  BY DEF Answer, Message

LEMMA NotificationType ==
  ASSUME NEW n \in Notice
  PROVE  Notification(n) \in Message /\ Notification(n).op = n
  BY RequestType DEF Notification, Notice, Closings

LEMMA DroppedType ==
  ASSUME NEW q \in Seq(Message), NEW op
  PROVE  /\ Dropped(q, op) \in Seq(Message)
         /\ Len(Dropped(q, op)) = Len(q)
         /\ \A i \in 1..Len(q) : Dropped(q, op)[i].op = q[i].op
<1>1. \A i \in 1..Len(q) : q[i] \in Message
  OBVIOUS
<1>2. \A m \in Message : [m EXCEPT !.live = FALSE] \in Message
                         /\ [m EXCEPT !.live = FALSE].op = m.op
  BY DEF Message
<1>3. DOMAIN q = 1..Len(q) /\ Len(q) \in Nat
  OBVIOUS
<1> QED
  BY <1>1, <1>2, <1>3 DEF Dropped

LEMMA DeliveriesType ==
  ASSUME down \in [Session -> Seq(Message)], NEW s, NEW r \in Message,
         NEW n \in Notice, NEW to
  PROVE  Deliveries(s, r, n, to) \in [Session -> Seq(Message)]
<1>1. Notification(n) \in Message
  BY NotificationType
<1>2. ASSUME NEW x \in Session
      PROVE  down[x] \o (IF x = s /\ s \in conn THEN <<r>> ELSE <<>>)
                     \o (IF x \in to THEN <<Notification(n)>> ELSE <<>>) \in Seq(Message)
  <2> DEFINE a == IF x = s /\ s \in conn THEN <<r>> ELSE <<>>
             b == IF x \in to THEN <<Notification(n)>> ELSE <<>>
  <2>1. a \in Seq(Message) /\ b \in Seq(Message)
    BY <1>1
  <2>2. down[x] \in Seq(Message)
    OBVIOUS
  <2> HIDE DEF a, b
  <2>3. down[x] \o a \o b \in Seq(Message)
    BY <2>1, <2>2
  <2> QED
    BY <2>3 DEF a, b
<1> QED
  BY <1>2 DEF Deliveries

-----------------------------------------------------------------------------
(* The calls in a channel: of the session's own calls, only those somebody     *)
(* still waits for.                                                             *)

CallOf(op) == IF op \in {"dresume", "dunsub"} THEN "desktop" ELSE op
Awaited(m, k) == CallOf(m.op) = k /\ (m.op \in Internal => m.live)
Has(q, k) == \E i \in 1..Len(q) : Awaited(q[i], k)
Once(q, k) == \A i, j \in 1..Len(q) : Awaited(q[i], k) /\ Awaited(q[j], k) => i = j

LEMMA CallTail ==
  ASSUME NEW q \in Seq(Message), q # <<>>, NEW k
  PROVE  /\ Head(q) \in Message
         /\ Tail(q) \in Seq(Message)
         /\ Awaited(Head(q), k) => Has(q, k)
         /\ Has(Tail(q), k) => Has(q, k)
         /\ Once(q, k) => Once(Tail(q), k)
         /\ Once(q, k) /\ Awaited(Head(q), k) => ~Has(Tail(q), k)
<1>1. /\ Len(q) \in Nat /\ Len(q) >= 1 /\ Head(q) = q[1]
      /\ Len(Tail(q)) = Len(q) - 1
      /\ \A i \in 1..Len(Tail(q)) : i + 1 \in 1..Len(q) /\ Tail(q)[i] = q[i + 1]
  OBVIOUS
<1>2. Head(q) \in Message /\ Tail(q) \in Seq(Message)
  OBVIOUS
<1>3. Awaited(Head(q), k) => Has(q, k)
  BY <1>1 DEF Has
<1>4. Has(Tail(q), k) => Has(q, k)
  BY <1>1 DEF Has
<1>5. ASSUME Once(q, k) PROVE Once(Tail(q), k)
  <2> SUFFICES ASSUME NEW i \in 1..Len(Tail(q)), NEW j \in 1..Len(Tail(q)),
                      Awaited(Tail(q)[i], k), Awaited(Tail(q)[j], k)
               PROVE  i = j
    BY DEF Once
  <2>1. i + 1 = j + 1
    BY <1>1, <1>5 DEF Once
  <2> QED
    BY <2>1, <1>1
<1>6. ASSUME Once(q, k), Awaited(Head(q), k) PROVE ~Has(Tail(q), k)
  <2> SUFFICES ASSUME NEW i \in 1..Len(Tail(q)), Awaited(Tail(q)[i], k) PROVE FALSE
    BY DEF Has
  <2>1. i + 1 = 1
    BY <1>1, <1>6 DEF Once
  <2> QED
    BY <2>1, <1>1
<1> QED
  BY <1>2, <1>3, <1>4, <1>5, <1>6

LEMMA CallAppend ==
  ASSUME NEW q \in Seq(Message), NEW m \in Message, NEW k
  PROVE  /\ Append(q, m) \in Seq(Message)
         /\ Has(Append(q, m), k) <=> Has(q, k) \/ Awaited(m, k)
         /\ Once(q, k) /\ (Awaited(m, k) => ~Has(q, k)) => Once(Append(q, m), k)
<1> DEFINE r == Append(q, m)
<1>1. /\ r \in Seq(Message)
      /\ Len(q) \in Nat /\ Len(r) = Len(q) + 1 /\ r[Len(q) + 1] = m
      /\ \A i \in 1..Len(q) : i \in 1..Len(r) /\ r[i] = q[i]
      /\ \A i \in 1..Len(r) : i \in 1..Len(q) \/ i = Len(q) + 1
      /\ Len(q) + 1 \in 1..Len(r)
  OBVIOUS
<1> HIDE DEF r
<1>2. Has(r, k) <=> Has(q, k) \/ Awaited(m, k)
  BY <1>1 DEF Has
<1>3. ASSUME Once(q, k), Awaited(m, k) => ~Has(q, k) PROVE Once(r, k)
  <2> SUFFICES ASSUME NEW i \in 1..Len(r), NEW j \in 1..Len(r),
                      Awaited(r[i], k), Awaited(r[j], k)
               PROVE  i = j
    BY DEF Once
  <2>1. CASE i \in 1..Len(q) /\ j \in 1..Len(q)
    BY <2>1, <1>1, <1>3 DEF Once
  <2>2. CASE i \notin 1..Len(q)
    BY <2>2, <1>1, <1>3 DEF Has
  <2>3. CASE j \notin 1..Len(q)
    BY <2>3, <1>1, <1>3 DEF Has
  <2> QED
    BY <2>1, <2>2, <2>3
<1> QED
  BY <1>1, <1>2, <1>3 DEF r

(* A call nobody waits for any more is gone; the others stay.                *)
LEMMA CallDropped ==
  ASSUME NEW q \in Seq(Message), NEW op, NEW k
  PROVE  /\ Dropped(q, op) \in Seq(Message)
         /\ Has(Dropped(q, op), k) => Has(q, k)
         /\ Once(q, k) => Once(Dropped(q, op), k)
         /\ CallOf(op) # k => (Has(q, k) <=> Has(Dropped(q, op), k))
         /\ op \in Internal => ~Has(Dropped(q, op), op)
<1>1. /\ Dropped(q, op) \in Seq(Message) /\ Len(Dropped(q, op)) = Len(q)
      /\ \A i \in 1..Len(q) : q[i] \in Message
  BY DroppedType
<1>2. \A i \in 1..Len(q) :
        /\ Awaited(Dropped(q, op)[i], k) => Awaited(q[i], k)
        /\ CallOf(op) # k => (Awaited(q[i], k) <=> Awaited(Dropped(q, op)[i], k))
        /\ op \in Internal => ~Awaited(Dropped(q, op)[i], op)
  <2> SUFFICES ASSUME NEW i \in 1..Len(q)
      PROVE  /\ Awaited(Dropped(q, op)[i], k) => Awaited(q[i], k)
             /\ CallOf(op) # k => (Awaited(q[i], k) <=> Awaited(Dropped(q, op)[i], k))
             /\ op \in Internal => ~Awaited(Dropped(q, op)[i], op)
    OBVIOUS
  <2>1. DOMAIN q = 1..Len(q)
    OBVIOUS
  <2>2. Dropped(q, op)[i] = IF q[i].op = op THEN [q[i] EXCEPT !.live = FALSE] ELSE q[i]
    BY <2>1 DEF Dropped
  <2>3. [q[i] EXCEPT !.live = FALSE].op = q[i].op /\ ~[q[i] EXCEPT !.live = FALSE].live
    BY <1>1 DEF Message
  <2>4. op \in Internal => \A o : CallOf(o) = op <=> o = op
    BY DEF CallOf, Internal
  <2>5. CASE q[i].op = op
    BY <2>2, <2>3, <2>4, <2>5 DEF Awaited
  <2>6. CASE q[i].op # op
    BY <2>2, <2>4, <2>6 DEF Awaited
  <2> QED
    BY <2>5, <2>6
<1> QED
  BY <1>1, <1>2 DEF Has, Once

(* A delivery adds an answer to at most one channel, and a notification.     *)
LEMMA CallDeliveries ==
  ASSUME down \in [Session -> Seq(Message)], NEW s, NEW r \in Message,
         NEW n \in Notice, NEW to, NEW x \in Session, NEW k, k \notin Notice
  PROVE  LET d == Deliveries(s, r, n, to)[x]
         IN /\ Has(d, k) => Has(down[x], k) \/ (x = s /\ s \in conn /\ Awaited(r, k))
            /\ Once(down[x], k) /\ (x = s /\ Awaited(r, k) => ~Has(down[x], k))
                 => Once(d, k)
<1> DEFINE q == IF x = s /\ s \in conn THEN Append(down[x], r) ELSE down[x]
           d == IF x \in to THEN Append(q, Notification(n)) ELSE q
<1>1. Notification(n) \in Message /\ ~Awaited(Notification(n), k)
  BY NotificationType DEF Awaited, CallOf, Notice, Closings
<1>2. down[x] \in Seq(Message)
  OBVIOUS
<1>3. /\ q \in Seq(Message)
      /\ Has(q, k) => Has(down[x], k) \/ (x = s /\ s \in conn /\ Awaited(r, k))
      /\ Once(down[x], k) /\ (x = s /\ Awaited(r, k) => ~Has(down[x], k)) => Once(q, k)
  BY <1>2, CallAppend
<1>4. d = Deliveries(s, r, n, to)[x]
  <2>1. q = down[x] \o (IF x = s /\ s \in conn THEN <<r>> ELSE <<>>)
    BY <1>2
  <2>2. d = q \o (IF x \in to THEN <<Notification(n)>> ELSE <<>>)
    <3> HIDE DEF q
    <3> QED
      BY <1>3, <1>1
  <2> QED
    BY <2>1, <2>2 DEF Deliveries
<1> HIDE DEF q
<1>5. (Has(d, k) <=> Has(q, k)) /\ (Once(q, k) => Once(d, k))
  BY <1>1, <1>3, CallAppend
<1> QED
  BY <1>3, <1>4, <1>5

-----------------------------------------------------------------------------
(* The turn/start requests in a channel *)

HasTurn(q) == Has(q, "turn")
OneTurn(q) == Once(q, "turn")

LEMMA TurnAwaited == \A m : Awaited(m, "turn") <=> m.op = "turn"
  BY DEF Awaited, CallOf, Internal

LEMMA TurnTail ==
  ASSUME NEW q \in Seq(Message), q # <<>>
  PROVE  /\ Head(q) \in Message
         /\ Tail(q) \in Seq(Message)
         /\ Head(q).op = "turn" => HasTurn(q)
         /\ HasTurn(Tail(q)) => HasTurn(q)
         /\ OneTurn(q) => OneTurn(Tail(q))
         /\ OneTurn(q) /\ Head(q).op = "turn" => ~HasTurn(Tail(q))
  BY CallTail, TurnAwaited DEF HasTurn, OneTurn

LEMMA TurnAppend ==
  ASSUME NEW q \in Seq(Message), NEW m \in Message
  PROVE  /\ Append(q, m) \in Seq(Message)
         /\ HasTurn(Append(q, m)) <=> HasTurn(q) \/ m.op = "turn"
         /\ OneTurn(q) /\ (m.op = "turn" => ~HasTurn(q)) => OneTurn(Append(q, m))
  BY CallAppend, TurnAwaited DEF HasTurn, OneTurn

LEMMA TurnDropped ==
  ASSUME NEW q \in Seq(Message), NEW op \in Internal
  PROVE  /\ HasTurn(Dropped(q, op)) <=> HasTurn(q)
         /\ OneTurn(q) => OneTurn(Dropped(q, op))
<1>1. CallOf(op) # "turn"
  BY DEF Internal, CallOf
<1> QED
  BY <1>1, CallDropped DEF HasTurn, OneTurn

LEMMA TurnDeliveries ==
  ASSUME down \in [Session -> Seq(Message)], NEW s, NEW r \in Message,
         NEW n \in Notice, NEW to, NEW x \in Session
  PROVE  LET d == Deliveries(s, r, n, to)[x]
         IN /\ HasTurn(d) => HasTurn(down[x]) \/ (x = s /\ s \in conn /\ r.op = "turn")
            /\ OneTurn(down[x]) /\ (x = s /\ r.op = "turn" => ~HasTurn(down[x]))
                 => OneTurn(d)
<1>1. "turn" \notin Notice
  BY DEF Notice, Closings
<1>2. LET d == Deliveries(s, r, n, to)[x]
      IN /\ Has(d, "turn") => Has(down[x], "turn")
                                \/ (x = s /\ s \in conn /\ Awaited(r, "turn"))
         /\ Once(down[x], "turn") /\ (x = s /\ Awaited(r, "turn") => ~Has(down[x], "turn"))
              => Once(d, "turn")
  BY <1>1, CallDeliveries
<1> QED
  BY <1>2, TurnAwaited DEF HasTurn, OneTurn

-----------------------------------------------------------------------------
(* The shape of the passes *)

(* Only a pass has peers left to visit, and only a pass whose peers call the *)
(* app-server waits for one of them.                                         *)
PassOK ==
  \A s \in Session : /\ todo[s] # {} => pc[s] \in Passes
                     /\ at[s] # NoSession => pc[s] \in JobOps /\ at[s] \in todo[s]

Shape == TypeOK /\ PassOK

-----------------------------------------------------------------------------
(* The label tables *)

LEMMA PassLabels ==
  /\ Passes \subseteq Labels
  /\ {"idle", "lock", "finish", "fail", "answer"} \cap Passes = {}
  /\ JobOps \subseteq Passes
  /\ (Checks \cup Begins \cup Ends \cup {"reconcile"}) \cap JobOps = {}
  BY DEF Labels, Passes, JobOps, Checks, Begins, Ends

LEMMA DoneAtType == \A l \in Passes : DoneAt[l] \in Labels
  BY DEF DoneAt, Passes, Checks, Begins, Ends, JobOps, Labels, StageOf, Waiting

LEMMA StopAtType ==
  /\ DOMAIN StopAt \subseteq Passes
  /\ \A l \in DOMAIN StopAt : StopAt[l] \in Labels
  /\ \A l \in Checks \cup Begins \cup {"reconcile", "unsub", "resub"} : l \in DOMAIN StopAt
  BY DEF StopAt, Passes, Checks, Begins, Ends, JobOps, Labels, StageOf, Waiting

LEMMA StageType ==
  \A l \in DOMAIN StageOf :
    /\ StageOf[l] \in Stages \ {"none"}
    /\ AfterStage[l] \in Labels /\ StageFailed[l] \in Labels
    /\ l \notin JobOps /\ l \notin {"idle", "lock"}
  BY DEF StageOf, AfterStage, StageFailed, Stages, Labels, Passes, Checks, Begins, Ends,
         JobOps, Waiting

-----------------------------------------------------------------------------
(* The handler's position *)

HandlerOK == HandlerTypes /\ PassOK

LEMMA GotoOK ==
  ASSUME HandlerOK, conn \subseteq Session, NEW s \in Session, NEW label \in Labels,
         Goto(s, label), UNCHANGED at, at[s] = NoSession
  PROVE  /\ HandlerOK'
         /\ pc'[s] = label
         /\ \A x \in Session \ {s} : pc'[x] = pc[x]
  BY DEF HandlerOK, HandlerTypes, PassOK, Goto

LEMMA ProceedOK ==
  ASSUME HandlerOK, conn \subseteq Session, NEW s \in Session, NEW p,
         pc[s] \in Passes, Proceed(s, p), UNCHANGED at, at[s] = NoSession
  PROVE  /\ HandlerOK'
         /\ pc'[s] \in {pc[s], DoneAt[pc[s]]}
         /\ \A x \in Session \ {s} : pc'[x] = pc[x]
<1>1. CASE todo[s] = {p}
  <2>1. Goto(s, DoneAt[pc[s]])
    BY <1>1 DEF Proceed
  <2>2. DoneAt[pc[s]] \in Labels
    BY DoneAtType
  <2> QED
    BY <2>1, <2>2, GotoOK
<1>2. CASE todo[s] # {p}
  BY <1>2 DEF Proceed, HandlerOK, HandlerTypes, PassOK
<1> QED
  BY <1>1, <1>2

LEMMA ReturnOK ==
  ASSUME HandlerOK, NEW s \in Session, Return(s), UNCHANGED at, pc[s] \notin Passes
  PROVE  /\ HandlerOK'
         /\ pc'[s] = "idle"
         /\ \A x \in Session \ {s} : pc'[x] = pc[x]
  BY PassLabels DEF HandlerOK, HandlerTypes, PassOK, Return, Labels

-----------------------------------------------------------------------------
(* The app-server's side of a step *)

LEMMA SendType ==
  ASSUME ServerTypeOK, NEW s \in Session, NEW op \in Desktop \cup Internal,
         NEW p \in Provider \cup {NoProvider}, SendOnly(s, Request(op, p))
  PROVE  ServerTypeOK' /\ conn' = conn
<1>1. Request(op, p) \in Message
  BY RequestType
<1>2. up' \in [Session -> Seq(Message)]
  BY <1>1 DEF ServerTypeOK, SendOnly, Send
<1> QED
  BY <1>2 DEF ServerTypeOK, SendOnly

LEMMA IdleType ==
  ASSUME ServerTypeOK, ServerIdle
  PROVE  ServerTypeOK' /\ conn' = conn
  BY DEF ServerTypeOK, ServerIdle, serverVars

LEMMA AbandonType ==
  ASSUME ServerTypeOK, NEW s \in Session, NEW op, Abandon(s, op)
  PROVE  up' \in [Session -> Seq(Message)] /\ down' \in [Session -> Seq(Message)]
  BY DroppedType DEF ServerTypeOK, Abandon

LEMMA ResumedType ==
  ASSUME ServerTypeOK, NEW p \in Provider \cup {NoProvider}
  PROVE  Resumed(p) \subseteq Provider
  BY DEF ServerTypeOK, Resumed

LEMMA ServeType ==
  ASSUME ServerTypeOK, NEW s \in Session, Serve(s)
  PROVE  ServerTypeOK' /\ conn' = conn
<1> DEFINE m == Head(up[s])
<1>1. m \in Message /\ Tail(up[s]) \in Seq(Message)
  BY TurnTail DEF ServerTypeOK, Serve
<1>2. up' \in [Session -> Seq(Message)] /\ conn' = conn
  BY <1>1 DEF ServerTypeOK, Serve
<1>3. m.prov \in Provider \cup {NoProvider}
  BY <1>1 DEF Message
<1>4. CASE ServeResume(s, m)
  <2>1. rt' \in Provider
    BY <1>3, <1>4, ResumedType DEF ServeResume, ServerTypeOK
  <2>2. PICK r \in Message : down' = Deliveries(s, r, "closed", {})
    BY <1>1, <1>4, <2>1, AnswerType DEF ServeResume, Reply
  <2>3. down' \in [Session -> Seq(Message)]
    BY <2>2, DeliveriesType DEF ServerTypeOK, Notice, Closings
  <2> QED
    BY <1>2, <1>4, <2>1, <2>3 DEF ServeResume, ServerTypeOK
<1>5. CASE ServeUnsubscribe(s, m)
  <2>1. PICK r \in Message : down' = Deliveries(s, r, "closed", {})
    BY <1>1, <1>5, AnswerType DEF ServeUnsubscribe, Reply
  <2>2. down' \in [Session -> Seq(Message)]
    BY <2>1, DeliveriesType DEF ServerTypeOK, Notice, Closings
  <2> QED
    BY <1>2, <1>5, <2>2 DEF ServeUnsubscribe, ServerTypeOK
<1>6. CASE ServeList(s, m)
  <2>1. PICK r \in Message : down' = Deliveries(s, r, "closed", {})
    BY <1>1, <1>6, AnswerType DEF ServeList, Reply, Status, ServerTypeOK
  <2>2. down' \in [Session -> Seq(Message)]
    BY <2>1, DeliveriesType DEF ServerTypeOK, Notice, Closings
  <2> QED
    BY <1>2, <1>6, <2>2 DEF ServeList, ServerTypeOK
<1>7. CASE ServeTurn(s, m)
  <2>1. PICK r \in Message, n \in Notice, to \in {subs, {}} : down' = Deliveries(s, r, n, to)
    BY <1>1, <1>3, <1>7, AnswerType DEF ServeTurn, Reply, Notice, Closings
  <2>2. down' \in [Session -> Seq(Message)]
    BY <2>1, DeliveriesType DEF ServerTypeOK
  <2> QED
    BY <1>2, <1>7, <2>2 DEF ServeTurn, ServerTypeOK
<1> QED
  BY <1>4, <1>5, <1>6, <1>7 DEF Serve

LEMMA ServeErrorType ==
  ASSUME ServerTypeOK, NEW s \in Session, ServeError(s)
  PROVE  ServerTypeOK' /\ conn' = conn
<1>1. Head(up[s]) \in Message /\ Tail(up[s]) \in Seq(Message)
  BY TurnTail DEF ServerTypeOK, ServeError
<1>2. Answer(Head(up[s]), FALSE, NoProvider, "") \in Message
  BY <1>1, AnswerType
<1>3. down' \in [Session -> Seq(Message)]
  BY <1>2, DeliveriesType DEF ServerTypeOK, ServeError, Reply, Notice, Closings
<1> QED
  BY <1>1, <1>3 DEF ServerTypeOK, ServeError

LEMMA ArchiveType ==
  ASSUME ServerTypeOK, Archive
  PROVE  ServerTypeOK'
<1>1. Deliveries(NoSession, Notification("archived"), "archived", ClosedTo)
        \in [Session -> Seq(Message)]
  BY DeliveriesType, NotificationType DEF ServerTypeOK, Notice, Closings
<1> QED
  BY <1>1 DEF ServerTypeOK, Archive

LEMMA UnarchiveType ==
  ASSUME ServerTypeOK, Unarchive
  PROVE  ServerTypeOK'
  BY DEF ServerTypeOK, Unarchive

LEMMA RecoveryResumeType ==
  ASSUME ServerTypeOK, NEW p \in Provider \cup {NoProvider}, RecoveryResume(p)
  PROVE  ServerTypeOK'
  BY ResumedType DEF ServerTypeOK, RecoveryResume

LEMMA TurnEndsType ==
  ASSUME ServerTypeOK, EndTurn
  PROVE  ServerTypeOK'
<1>1. Deliveries(NoSession, Notification("completed"), "completed", subs)
        \in [Session -> Seq(Message)]
  BY DeliveriesType, NotificationType DEF ServerTypeOK, Notice, Closings
<1> QED
  BY <1>1 DEF ServerTypeOK, EndTurn

LEMMA UnloadType ==
  ASSUME ServerTypeOK, Unload
  PROVE  ServerTypeOK'
<1>1. Deliveries(NoSession, Notification("closed"), "closed", ClosedTo)
        \in [Session -> Seq(Message)]
  BY DeliveriesType, NotificationType DEF ServerTypeOK, Notice, Closings
<1> QED
  BY <1>1 DEF ServerTypeOK, Unload

LEMMA ConnectType ==
  ASSUME ServerTypeOK, NEW s \in Session, Connect(s)
  PROVE  ServerTypeOK'
  BY DEF ServerTypeOK, Connect

LEMMA DisconnectType ==
  ASSUME ServerTypeOK, NEW s \in Session, Disconnect(s)
  PROVE  ServerTypeOK'
<1>1. \A i \in DOMAIN up[s] : <<up[s][i]>> \in Seq(Message)
  <2>1. up[s] \in Seq(Message)
    BY DEF ServerTypeOK
  <2> QED
    BY <2>1
<1>2. up' \in [Session -> Seq(Message)]
  <2>1. CASE up' = [up EXCEPT ![s] = <<>>]
    BY <2>1 DEF ServerTypeOK
  <2>2. CASE \E i \in DOMAIN up[s] : up' = [up EXCEPT ![s] = <<up[s][i]>>]
    BY <1>1, <2>2 DEF ServerTypeOK
  <2> QED
    BY <2>1, <2>2 DEF Disconnect
<1>3. down' \in [Session -> Seq(Message)]
  BY DEF ServerTypeOK, Disconnect
<1> QED
  BY <1>2, <1>3 DEF ServerTypeOK, Disconnect

-----------------------------------------------------------------------------
(* Moves of a handler *)

LEMMA LabelList ==
  {"idle", "lock", "prepareTurn", "askStatus", "statusWait", "reconcile", "prepare",
   "repair", "prepareRepair", "repairUnarchive", "repairSanitize", "repairResume",
   "repairEnd", "repairAbort", "repairClear", "route", "routeWait", "prepareSame",
   "prepareHandoff", "sanitize", "resume", "resumeWait", "stageMismatch", "inspect",
   "stageRecovering", "saveJournal", "begin", "archive", "unarchive", "resanitize",
   "recoverResume", "recoverResumeWait", "end", "abort", "clearJournal", "stageResub",
   "clearDirty", "restore", "finish", "fail", "sanitizeResume", "forwardResume",
   "unsubscribe", "answer"} \subseteq Labels
  BY DEF Labels, Passes, Checks, Begins, Ends, JobOps, StageOf, Waiting

(* A handler goes to a label, stays in its pass, stays where it is, or leaves a  *)
(* label that is no pass.                                                         *)
Moves(s) ==
  \/ \E label \in Labels : Goto(s, label)
  \/ \E p : pc[s] \in Passes /\ Proceed(s, p)
  \/ UNCHANGED <<pc, todo>>
  \/ \E label \in Labels :
       pc[s] \notin Passes /\ pc' = [pc EXCEPT ![s] = label] /\ UNCHANGED todo

LEMMA MovesOK ==
  ASSUME HandlerOK, conn \subseteq Session, NEW s \in Session, Moves(s),
         UNCHANGED at, at[s] = NoSession
  PROVE  HandlerOK'
<1>1. CASE \E label \in Labels : Goto(s, label)
  BY <1>1, GotoOK
<1>2. CASE \E p : pc[s] \in Passes /\ Proceed(s, p)
  BY <1>2, ProceedOK
<1>3. CASE UNCHANGED <<pc, todo>>
  BY <1>3 DEF HandlerOK, HandlerTypes, PassOK
<1>4. CASE \E label \in Labels :
             pc[s] \notin Passes /\ pc' = [pc EXCEPT ![s] = label] /\ UNCHANGED todo
  BY <1>4 DEF HandlerOK, HandlerTypes, PassOK
<1> QED
  BY <1>1, <1>2, <1>3, <1>4 DEF Moves

LEMMA ShapeParts ==
  ASSUME Shape
  PROVE  /\ ServerTypeOK /\ FileTypes /\ HandlerOK /\ RequestTypes /\ CacheTypes
         /\ HistoryTypes /\ conn \subseteq Session
  BY DEF Shape, TypeOK, HandlerOK, ServerTypeOK

LEMMA ShapeNext ==
  ASSUME ServerTypeOK', FileTypes', HandlerOK', RequestTypes', CacheTypes', HistoryTypes'
  PROVE  Shape'
  BY DEF Shape, TypeOK, HandlerOK

-----------------------------------------------------------------------------
(* The actions *)

LEMMA ReceiveType ==
  ASSUME Shape, NEW s \in Session, Receive(s)
  PROVE  Shape'
<1>1. /\ ServerTypeOK /\ FileTypes /\ HandlerOK /\ RequestTypes /\ CacheTypes
      /\ HistoryTypes /\ conn \subseteq Session
  BY ShapeParts
<1>2. ServerTypeOK'
  BY <1>1, IdleType DEF Receive
<1>3. HandlerOK'
  <2>1. at[s] = NoSession /\ UNCHANGED at
    BY <1>1, PassLabels DEF HandlerOK, PassOK, Receive, handler, Step, JobOps
  <2>2. Moves(s)
    BY <1>1, LabelList, PassLabels DEF Receive, Moves
  <2> QED
    BY <1>1, <2>1, <2>2, MovesOK
<1>4. FileTypes'
  BY <1>1 DEF FileTypes, Receive, files
<1>5. RequestTypes'
  BY <1>1 DEF RequestTypes, Receive, Kinds, TurnKinds
<1>6. CacheTypes'
  BY <1>1 DEF CacheTypes, Receive, caches
<1>7. HistoryTypes'
  BY <1>1 DEF HistoryTypes, Receive
<1> QED
  BY <1>2, <1>3, <1>4, <1>5, <1>6, <1>7, ShapeNext

LEMMA LockThreadType ==
  ASSUME Shape, NEW s \in Session, LockThread(s)
  PROVE  Shape'
<1>1. /\ ServerTypeOK /\ FileTypes /\ HandlerOK /\ RequestTypes /\ CacheTypes
      /\ HistoryTypes /\ conn \subseteq Session
  BY ShapeParts
<1>2. ServerTypeOK'
  BY <1>1, IdleType DEF LockThread
<1>3. HandlerOK'
  <2>1. at[s] = NoSession /\ UNCHANGED at
    BY <1>1, PassLabels DEF HandlerOK, PassOK, LockThread, handler, Step, JobOps
  <2>2. Moves(s)
    BY <1>1, LabelList DEF LockThread, Moves, Step
  <2> QED
    BY <1>1, <2>1, <2>2, MovesOK
<1>4. FileTypes'
  BY <1>1 DEF FileTypes, LockThread, files
<1>5. RequestTypes'
  BY <1>1 DEF RequestTypes, LockThread, handler
<1>6. CacheTypes'
  BY <1>1 DEF CacheTypes, LockThread, caches
<1>7. HistoryTypes'
  BY <1>1 DEF HistoryTypes, LockThread, bounds
<1> QED
  BY <1>2, <1>3, <1>4, <1>5, <1>6, <1>7, ShapeNext

LEMMA SkipPeerType ==
  ASSUME Shape, NEW s \in Session, SkipPeer(s)
  PROVE  Shape'
<1>1. /\ ServerTypeOK /\ FileTypes /\ HandlerOK /\ RequestTypes /\ CacheTypes
      /\ HistoryTypes /\ conn \subseteq Session
  BY ShapeParts
<1>2. ServerTypeOK'
  BY <1>1, IdleType DEF SkipPeer
<1>3. HandlerOK'
  <2>1. at[s] = NoSession /\ UNCHANGED at
    BY <1>1, DoneAtType DEF SkipPeer, handler
  <2>2. Moves(s)
    BY <1>1, PassLabels DEF SkipPeer, Moves, HandlerOK, PassOK
  <2> QED
    BY <1>1, <2>1, <2>2, MovesOK
<1>4. FileTypes'
  BY <1>1 DEF FileTypes, SkipPeer, files
<1>5. RequestTypes'
  BY <1>1 DEF RequestTypes, SkipPeer, handler
<1>6. CacheTypes'
  BY <1>1 DEF CacheTypes, SkipPeer, caches
<1>7. HistoryTypes'
  BY <1>1 DEF HistoryTypes, SkipPeer, bounds
<1> QED
  BY <1>2, <1>3, <1>4, <1>5, <1>6, <1>7, ShapeNext

LEMMA CheckPeerType ==
  ASSUME Shape, NEW s \in Session, CheckPeer(s)
  PROVE  Shape'
<1>1. /\ ServerTypeOK /\ FileTypes /\ HandlerOK /\ RequestTypes /\ CacheTypes
      /\ HistoryTypes /\ conn \subseteq Session
  BY ShapeParts
<1>2. ServerTypeOK'
  BY <1>1, IdleType DEF CheckPeer
<1>3. HandlerOK'
  <2>1. at[s] = NoSession /\ UNCHANGED at
    BY <1>1, PassLabels DEF HandlerOK, PassOK, CheckPeer, handler, Step, JobOps
  <2>2. Moves(s)
    BY <1>1, StopAtType, PassLabels DEF CheckPeer, Moves, Passes
  <2> QED
    BY <1>1, <2>1, <2>2, MovesOK
<1>4. FileTypes'
  BY <1>1 DEF FileTypes, CheckPeer, files
<1>5. RequestTypes'
  BY <1>1 DEF RequestTypes, CheckPeer, handler
<1>6. CacheTypes'
  BY <1>1 DEF CacheTypes, CheckPeer, caches
<1>7. HistoryTypes'
  BY <1>1 DEF HistoryTypes, CheckPeer, bounds, Fault, NoFault
<1> QED
  BY <1>2, <1>3, <1>4, <1>5, <1>6, <1>7, ShapeNext

LEMMA ReconcilePeerType ==
  ASSUME Shape, NEW s \in Session, ReconcilePeer(s)
  PROVE  Shape'
<1>1. /\ ServerTypeOK /\ FileTypes /\ HandlerOK /\ RequestTypes /\ CacheTypes
      /\ HistoryTypes /\ conn \subseteq Session
  BY ShapeParts
<1>2. ServerTypeOK'
  BY <1>1, IdleType DEF ReconcilePeer
<1>3. HandlerOK'
  <2>1. at[s] = NoSession /\ UNCHANGED at
    BY <1>1, PassLabels DEF HandlerOK, PassOK, ReconcilePeer, handler, Step, JobOps
  <2>2. Moves(s)
    BY <1>1, StopAtType, PassLabels DEF ReconcilePeer, Moves, Passes
  <2> QED
    BY <1>1, <2>1, <2>2, MovesOK
<1>4. FileTypes'
  BY <1>1 DEF FileTypes, ReconcilePeer, files
<1>5. RequestTypes'
  BY <1>1 DEF RequestTypes, ReconcilePeer, handler
<1>6. CacheTypes'
  BY <1>1 DEF CacheTypes, ReconcilePeer, caches
<1>7. HistoryTypes'
  BY <1>1 DEF HistoryTypes, ReconcilePeer, bounds, Fault, NoFault
<1> QED
  BY <1>2, <1>3, <1>4, <1>5, <1>6, <1>7, ShapeNext

LEMMA BeginPeerType ==
  ASSUME Shape, NEW s \in Session, BeginPeer(s)
  PROVE  Shape'
<1>1. /\ ServerTypeOK /\ FileTypes /\ HandlerOK /\ RequestTypes /\ CacheTypes
      /\ HistoryTypes /\ conn \subseteq Session
  BY ShapeParts
<1>2. ServerTypeOK'
  BY <1>1, IdleType DEF BeginPeer
<1>3. HandlerOK'
  <2>1. at[s] = NoSession /\ UNCHANGED at
    BY <1>1, PassLabels DEF HandlerOK, PassOK, BeginPeer, handler, Step, JobOps
  <2>2. Moves(s)
    BY <1>1, StopAtType, PassLabels DEF BeginPeer, BeginRefused, Moves, Passes
  <2> QED
    BY <1>1, <2>1, <2>2, MovesOK
<1>4. FileTypes'
  BY <1>1 DEF FileTypes, BeginPeer, files
<1>5. RequestTypes'
  BY <1>1 DEF RequestTypes, BeginPeer, handler
<1>6. CacheTypes'
  BY <1>1 DEF CacheTypes, BeginPeer, caches
<1>7. HistoryTypes'
  BY <1>1 DEF HistoryTypes, BeginPeer, bounds, Fault, NoFault
<1> QED
  BY <1>2, <1>3, <1>4, <1>5, <1>6, <1>7, ShapeNext

LEMMA EndPeerType ==
  ASSUME Shape, NEW s \in Session, EndPeer(s)
  PROVE  Shape'
<1>1. /\ ServerTypeOK /\ FileTypes /\ HandlerOK /\ RequestTypes /\ CacheTypes
      /\ HistoryTypes /\ conn \subseteq Session
  BY ShapeParts
<1>2. ServerTypeOK'
  BY <1>1, IdleType DEF EndPeer
<1>3. HandlerOK'
  <2>1. at[s] = NoSession /\ UNCHANGED at
    BY <1>1, PassLabels DEF HandlerOK, PassOK, EndPeer, handler, Step, JobOps
  <2>2. Moves(s)
    BY <1>1, StopAtType, PassLabels DEF EndPeer, EndRefused, Moves, Passes
  <2> QED
    BY <1>1, <2>1, <2>2, MovesOK
<1>4. FileTypes'
  BY <1>1 DEF FileTypes, EndPeer, files
<1>5. RequestTypes'
  BY <1>1 DEF RequestTypes, EndPeer, handler
<1>6. CacheTypes'
  BY <1>1 DEF CacheTypes, EndPeer, caches
<1>7. HistoryTypes'
  BY <1>1 DEF HistoryTypes, EndPeer, bounds, Fault, NoFault
<1> QED
  BY <1>2, <1>3, <1>4, <1>5, <1>6, <1>7, ShapeNext

LEMMA PrepareTurnType ==
  ASSUME Shape, NEW s \in Session, PrepareTurn(s)
  PROVE  Shape'
<1>1. /\ ServerTypeOK /\ FileTypes /\ HandlerOK /\ RequestTypes /\ CacheTypes
      /\ HistoryTypes /\ conn \subseteq Session
  BY ShapeParts
<1>2. ServerTypeOK'
  BY <1>1, IdleType DEF PrepareTurn
<1>3. HandlerOK'
  <2>1. at[s] = NoSession /\ UNCHANGED at
    BY <1>1, PassLabels DEF HandlerOK, PassOK, PrepareTurn, handler, Step, JobOps
  <2>2. Moves(s)
    BY <1>1, LabelList DEF PrepareTurn, Moves, Step
  <2> QED
    BY <1>1, <2>1, <2>2, MovesOK
<1>4. FileTypes'
  BY <1>1 DEF FileTypes, PrepareTurn, files
<1>5. RequestTypes'
  BY <1>1 DEF RequestTypes, PrepareTurn, handler
<1>6. CacheTypes'
  BY <1>1 DEF CacheTypes, PrepareTurn, caches
<1>7. HistoryTypes'
  BY <1>1 DEF HistoryTypes, PrepareTurn, bounds
<1> QED
  BY <1>2, <1>3, <1>4, <1>5, <1>6, <1>7, ShapeNext

LEMMA LoadJournalType ==
  ASSUME Shape, NEW s \in Session, LoadJournal(s)
  PROVE  Shape'
<1>1. /\ ServerTypeOK /\ FileTypes /\ HandlerOK /\ RequestTypes /\ CacheTypes
      /\ HistoryTypes /\ conn \subseteq Session
  BY ShapeParts
<1>2. ServerTypeOK'
  BY <1>1, IdleType DEF LoadJournal
<1>3. HandlerOK'
  <2>1. at[s] = NoSession /\ UNCHANGED at
    BY <1>1, PassLabels DEF HandlerOK, PassOK, LoadJournal, handler, Step, JobOps
  <2>2. Moves(s)
    BY <1>1, LabelList DEF LoadJournal, Moves, Step, AfterRepair
  <2> QED
    BY <1>1, <2>1, <2>2, MovesOK
<1>4. FileTypes'
  BY <1>1 DEF FileTypes, LoadJournal, files
<1>5. RequestTypes'
  BY <1>1 DEF RequestTypes, LoadJournal, handler
<1>6. CacheTypes'
  BY <1>1 DEF CacheTypes, LoadJournal, caches
<1>7. HistoryTypes'
  BY <1>1 DEF HistoryTypes, LoadJournal, bounds, Fault, NoFault
<1> QED
  BY <1>2, <1>3, <1>4, <1>5, <1>6, <1>7, ShapeNext

LEMMA DecideRouteType ==
  ASSUME Shape, NEW s \in Session, DecideRoute(s)
  PROVE  Shape'
<1>1. /\ ServerTypeOK /\ FileTypes /\ HandlerOK /\ RequestTypes /\ CacheTypes
      /\ HistoryTypes /\ conn \subseteq Session
  BY ShapeParts
<1>2. ServerTypeOK'
  BY <1>1, IdleType DEF DecideRoute
<1>3. HandlerOK'
  <2>1. at[s] = NoSession /\ UNCHANGED at
    BY <1>1, PassLabels DEF HandlerOK, PassOK, DecideRoute, handler, Step, JobOps
  <2>2. Moves(s)
    BY <1>1, LabelList DEF DecideRoute, Moves, Decide
  <2> QED
    BY <1>1, <2>1, <2>2, MovesOK
<1>4. FileTypes'
  BY <1>1 DEF FileTypes, DecideRoute, files
<1>5. RequestTypes'
  BY <1>1, HandoffAssumption
     DEF RequestTypes, CacheTypes, FileTypes, DecideRoute, Decide, Goal, Selected
<1>6. CacheTypes'
  BY <1>1 DEF CacheTypes, DecideRoute, caches
<1>7. HistoryTypes'
  BY <1>1 DEF HistoryTypes, DecideRoute, bounds
<1> QED
  BY <1>2, <1>3, <1>4, <1>5, <1>6, <1>7, ShapeNext

LEMMA SetDirtyStageType ==
  ASSUME Shape, NEW s \in Session, SetDirtyStage(s)
  PROVE  Shape'
<1>1. /\ ServerTypeOK /\ FileTypes /\ HandlerOK /\ RequestTypes /\ CacheTypes
      /\ HistoryTypes /\ conn \subseteq Session
  BY ShapeParts
<1>2. ServerTypeOK'
  BY <1>1, IdleType DEF SetDirtyStage
<1>3. HandlerOK'
  <2>1. at[s] = NoSession /\ UNCHANGED at
    BY <1>1, StageType DEF HandlerOK, PassOK, SetDirtyStage
  <2>2. Moves(s)
    BY <1>1, StageType DEF SetDirtyStage, Moves
  <2> QED
    BY <1>1, <2>1, <2>2, MovesOK
<1>4. FileTypes'
  BY <1>1, StageType DEF FileTypes, SetDirtyStage
<1>5. RequestTypes'
  BY <1>1 DEF RequestTypes, SetDirtyStage, handler
<1>6. CacheTypes'
  BY <1>1 DEF CacheTypes, SetDirtyStage, caches
<1>7. HistoryTypes'
  BY <1>1 DEF HistoryTypes, SetDirtyStage, bounds, Fault, NoFault
<1> QED
  BY <1>2, <1>3, <1>4, <1>5, <1>6, <1>7, ShapeNext

LEMMA SanitizeType ==
  ASSUME Shape, NEW s \in Session, Sanitize(s)
  PROVE  Shape'
<1>1. /\ ServerTypeOK /\ FileTypes /\ HandlerOK /\ RequestTypes /\ CacheTypes
      /\ HistoryTypes /\ conn \subseteq Session
  BY ShapeParts
<1>2. ServerTypeOK'
  BY <1>1, IdleType DEF Sanitize
<1>3. HandlerOK'
  <2>1. at[s] = NoSession /\ UNCHANGED at
    BY <1>1, PassLabels DEF HandlerOK, PassOK, Sanitize, handler, Step, JobOps
  <2>2. Moves(s)
    BY <1>1, LabelList DEF Sanitize, Moves, Step
  <2> QED
    BY <1>1, <2>1, <2>2, MovesOK
<1>4. FileTypes'
  BY <1>1 DEF FileTypes, Sanitize, files
<1>5. RequestTypes'
  BY <1>1 DEF RequestTypes, Sanitize, handler
<1>6. CacheTypes'
  BY <1>1 DEF CacheTypes, Sanitize, caches
<1>7. HistoryTypes'
  BY <1>1 DEF HistoryTypes, Sanitize, bounds, Fault, NoFault
<1> QED
  BY <1>2, <1>3, <1>4, <1>5, <1>6, <1>7, ShapeNext

LEMMA InspectType ==
  ASSUME Shape, NEW s \in Session, Inspect(s)
  PROVE  Shape'
<1>1. /\ ServerTypeOK /\ FileTypes /\ HandlerOK /\ RequestTypes /\ CacheTypes
      /\ HistoryTypes /\ conn \subseteq Session
  BY ShapeParts
<1>2. ServerTypeOK'
  BY <1>1, IdleType DEF Inspect
<1>3. HandlerOK'
  <2>1. at[s] = NoSession /\ UNCHANGED at
    BY <1>1, PassLabels DEF HandlerOK, PassOK, Inspect, handler, Step, JobOps
  <2>2. Moves(s)
    BY <1>1, LabelList DEF Inspect, Moves, Step
  <2> QED
    BY <1>1, <2>1, <2>2, MovesOK
<1>4. FileTypes'
  BY <1>1 DEF FileTypes, Inspect, files
<1>5. RequestTypes'
  BY <1>1 DEF RequestTypes, Inspect, handler
<1>6. CacheTypes'
  BY <1>1 DEF CacheTypes, Inspect, caches
<1>7. HistoryTypes'
  BY <1>1 DEF HistoryTypes, Inspect, bounds, Fault, NoFault
<1> QED
  BY <1>2, <1>3, <1>4, <1>5, <1>6, <1>7, ShapeNext

LEMMA SaveJournalType ==
  ASSUME Shape, NEW s \in Session, SaveJournal(s)
  PROVE  Shape'
<1>1. /\ ServerTypeOK /\ FileTypes /\ HandlerOK /\ RequestTypes /\ CacheTypes
      /\ HistoryTypes /\ conn \subseteq Session
  BY ShapeParts
<1>2. ServerTypeOK'
  BY <1>1, IdleType DEF SaveJournal
<1>3. HandlerOK'
  <2>1. at[s] = NoSession /\ UNCHANGED at
    BY <1>1, PassLabels DEF HandlerOK, PassOK, SaveJournal, handler, Step, JobOps
  <2>2. Moves(s)
    BY <1>1, LabelList DEF SaveJournal, Moves, Step
  <2> QED
    BY <1>1, <2>1, <2>2, MovesOK
<1>4. FileTypes'
  BY <1>1 DEF FileTypes, RequestTypes, SaveJournal, Persist
<1>5. RequestTypes'
  BY <1>1 DEF RequestTypes, SaveJournal, handler
<1>6. CacheTypes'
  BY <1>1 DEF CacheTypes, SaveJournal, caches
<1>7. HistoryTypes'
  BY <1>1 DEF HistoryTypes, SaveJournal, bounds, Fault, NoFault
<1> QED
  BY <1>2, <1>3, <1>4, <1>5, <1>6, <1>7, ShapeNext

LEMMA ArchiveRootType ==
  ASSUME Shape, NEW s \in Session, ArchiveRoot(s)
  PROVE  Shape'
<1>1. /\ ServerTypeOK /\ FileTypes /\ HandlerOK /\ RequestTypes /\ CacheTypes
      /\ HistoryTypes /\ conn \subseteq Session
  BY ShapeParts
<1>2. ServerTypeOK'
  BY <1>1, IdleType, ArchiveType DEF ArchiveRoot
<1>3. HandlerOK'
  <2>1. at[s] = NoSession /\ UNCHANGED at
    BY <1>1, PassLabels DEF HandlerOK, PassOK, ArchiveRoot, handler, Step, JobOps
  <2>2. Moves(s)
    BY <1>1, LabelList DEF ArchiveRoot, Moves, Step
  <2> QED
    BY <1>1, <2>1, <2>2, MovesOK
<1>4. FileTypes'
  BY <1>1 DEF FileTypes, ArchiveRoot, files
<1>5. RequestTypes'
  BY <1>1 DEF RequestTypes, ArchiveRoot, handler
<1>6. CacheTypes'
  BY <1>1 DEF CacheTypes, ArchiveRoot, caches
<1>7. HistoryTypes'
  BY <1>1 DEF HistoryTypes, ArchiveRoot, bounds, Fault, NoFault
<1> QED
  BY <1>2, <1>3, <1>4, <1>5, <1>6, <1>7, ShapeNext

LEMMA UnarchiveAllType ==
  ASSUME Shape, NEW s \in Session, NEW from \in Labels \ JobOps, NEW then \in Labels,
         NEW failed \in Labels, UnarchiveAll(s, from, then, failed)
  PROVE  Shape'
<1>1. /\ ServerTypeOK /\ FileTypes /\ HandlerOK /\ RequestTypes /\ CacheTypes
      /\ HistoryTypes /\ conn \subseteq Session
  BY ShapeParts
<1>2. ServerTypeOK'
  BY <1>1, IdleType, UnarchiveType DEF UnarchiveAll
<1>3. HandlerOK'
  <2>1. at[s] = NoSession /\ UNCHANGED at
    BY <1>1, PassLabels DEF HandlerOK, PassOK, UnarchiveAll, handler, Step
  <2>2. Moves(s)
    BY <1>1, UnarchiveAll(s, from, then, failed) DEF UnarchiveAll, Moves
  <2> QED
    BY <1>1, <2>1, <2>2, MovesOK
<1>4. FileTypes'
  BY <1>1 DEF FileTypes, UnarchiveAll, files
<1>5. RequestTypes'
  BY <1>1 DEF RequestTypes, UnarchiveAll, handler
<1>6. CacheTypes'
  BY <1>1 DEF CacheTypes, UnarchiveAll, caches
<1>7. HistoryTypes'
  BY <1>1 DEF HistoryTypes, UnarchiveAll, bounds, Fault, NoFault
<1> QED
  BY <1>2, <1>3, <1>4, <1>5, <1>6, <1>7, ShapeNext

LEMMA ResanitizeType ==
  ASSUME Shape, NEW s \in Session, NEW from \in Labels \ JobOps, NEW then \in Labels,
         NEW failed \in Labels, Resanitize(s, from, then, failed)
  PROVE  Shape'
<1>1. /\ ServerTypeOK /\ FileTypes /\ HandlerOK /\ RequestTypes /\ CacheTypes
      /\ HistoryTypes /\ conn \subseteq Session
  BY ShapeParts
<1>2. ServerTypeOK'
  BY <1>1, IdleType DEF Resanitize
<1>3. HandlerOK'
  <2>1. at[s] = NoSession /\ UNCHANGED at
    BY <1>1, PassLabels DEF HandlerOK, PassOK, Resanitize, handler, Step
  <2>2. Moves(s)
    BY <1>1, Resanitize(s, from, then, failed) DEF Resanitize, Moves
  <2> QED
    BY <1>1, <2>1, <2>2, MovesOK
<1>4. FileTypes'
  BY <1>1 DEF FileTypes, Resanitize, files
<1>5. RequestTypes'
  BY <1>1 DEF RequestTypes, Resanitize, handler
<1>6. CacheTypes'
  BY <1>1 DEF CacheTypes, Resanitize, caches
<1>7. HistoryTypes'
  BY <1>1 DEF HistoryTypes, Resanitize, bounds, Fault, NoFault
<1> QED
  BY <1>2, <1>3, <1>4, <1>5, <1>6, <1>7, ShapeNext

LEMMA ClearJournalType ==
  ASSUME Shape, NEW s \in Session, NEW from \in Labels \ JobOps, NEW then \in Labels,
         NEW failed \in Labels, ClearJournal(s, from, then, failed)
  PROVE  Shape'
<1>1. /\ ServerTypeOK /\ FileTypes /\ HandlerOK /\ RequestTypes /\ CacheTypes
      /\ HistoryTypes /\ conn \subseteq Session
  BY ShapeParts
<1>2. ServerTypeOK'
  BY <1>1, IdleType DEF ClearJournal
<1>3. HandlerOK'
  <2>1. at[s] = NoSession /\ UNCHANGED at
    BY <1>1, PassLabels DEF HandlerOK, PassOK, ClearJournal, handler, Step
  <2>2. Moves(s)
    BY <1>1, ClearJournal(s, from, then, failed) DEF ClearJournal, Moves
  <2> QED
    BY <1>1, <2>1, <2>2, MovesOK
<1>4. FileTypes'
  BY <1>1 DEF FileTypes, ClearJournal, files
<1>5. RequestTypes'
  BY <1>1 DEF RequestTypes, ClearJournal, handler
<1>6. CacheTypes'
  BY <1>1 DEF CacheTypes, ClearJournal, caches
<1>7. HistoryTypes'
  BY <1>1 DEF HistoryTypes, ClearJournal, bounds, Fault, NoFault
<1> QED
  BY <1>2, <1>3, <1>4, <1>5, <1>6, <1>7, ShapeNext

LEMMA RepairResumeType ==
  ASSUME Shape, NEW s \in Session, RepairResume(s)
  PROVE  Shape'
<1>1. /\ ServerTypeOK /\ FileTypes /\ HandlerOK /\ RequestTypes /\ CacheTypes
      /\ HistoryTypes /\ conn \subseteq Session
  BY ShapeParts
<1>2. ServerTypeOK'
  BY <1>1, IdleType, RecoveryResumeType DEF FileTypes, RepairResume
<1>3. HandlerOK'
  <2>1. at[s] = NoSession /\ UNCHANGED at
    BY <1>1, PassLabels DEF HandlerOK, PassOK, RepairResume, handler, Step, JobOps
  <2>2. Moves(s)
    BY <1>1, LabelList DEF RepairResume, Moves, Step
  <2> QED
    BY <1>1, <2>1, <2>2, MovesOK
<1>4. FileTypes'
  BY <1>1 DEF FileTypes, RepairResume, files
<1>5. RequestTypes'
  BY <1>1 DEF RequestTypes, RepairResume, handler
<1>6. CacheTypes'
  BY <1>1 DEF CacheTypes, FileTypes, RepairResume
<1>7. HistoryTypes'
  BY <1>1 DEF HistoryTypes, RepairResume, bounds, Fault, NoFault
<1> QED
  BY <1>2, <1>3, <1>4, <1>5, <1>6, <1>7, ShapeNext

LEMMA ClearDirtyType ==
  ASSUME Shape, NEW s \in Session, ClearDirty(s)
  PROVE  Shape'
<1>1. /\ ServerTypeOK /\ FileTypes /\ HandlerOK /\ RequestTypes /\ CacheTypes
      /\ HistoryTypes /\ conn \subseteq Session
  BY ShapeParts
<1>2. ServerTypeOK'
  BY <1>1, IdleType DEF ClearDirty
<1>3. HandlerOK'
  <2>1. at[s] = NoSession /\ UNCHANGED at
    BY <1>1, PassLabels DEF HandlerOK, PassOK, ClearDirty, handler, Step, JobOps
  <2>2. Moves(s)
    BY <1>1, LabelList DEF ClearDirty, Moves, Step
  <2> QED
    BY <1>1, <2>1, <2>2, MovesOK
<1>4. FileTypes'
  BY <1>1 DEF FileTypes, ClearDirty, Stages
<1>5. RequestTypes'
  BY <1>1 DEF RequestTypes, ClearDirty, handler
<1>6. CacheTypes'
  BY <1>1 DEF CacheTypes, ClearDirty, caches
<1>7. HistoryTypes'
  BY <1>1 DEF HistoryTypes, ClearDirty, bounds, Fault, NoFault
<1> QED
  BY <1>2, <1>3, <1>4, <1>5, <1>6, <1>7, ShapeNext

LEMMA ForwardTurnType ==
  ASSUME Shape, NEW s \in Session, ForwardTurn(s)
  PROVE  Shape'
<1>1. /\ ServerTypeOK /\ FileTypes /\ HandlerOK /\ RequestTypes /\ CacheTypes
      /\ HistoryTypes /\ conn \subseteq Session
  BY ShapeParts
<1>2. ServerTypeOK'
  BY <1>1, SendType DEF ForwardTurn, Desktop, RequestTypes
<1>3. HandlerOK'
  <2>1. at[s] = NoSession /\ UNCHANGED at
    BY <1>1, PassLabels DEF HandlerOK, PassOK, ForwardTurn, handler, Step, JobOps
  <2>2. Moves(s)
    BY <1>1, LabelList, PassLabels DEF ForwardTurn, Moves, Return, Step
  <2> QED
    BY <1>1, <2>1, <2>2, MovesOK
<1>4. FileTypes'
  BY <1>1 DEF FileTypes, ForwardTurn, files, KeepFence
<1>5. RequestTypes'
  BY <1>1 DEF RequestTypes, ForwardTurn, Return, Kinds, TurnKinds
<1>6. CacheTypes'
  BY <1>1 DEF CacheTypes, ForwardTurn, caches
<1>7. HistoryTypes'
  BY <1>1 DEF HistoryTypes, ForwardTurn, bounds
<1> QED
  BY <1>2, <1>3, <1>4, <1>5, <1>6, <1>7, ShapeNext

LEMMA FinishCommandType ==
  ASSUME Shape, NEW s \in Session, FinishCommand(s)
  PROVE  Shape'
<1>1. /\ ServerTypeOK /\ FileTypes /\ HandlerOK /\ RequestTypes /\ CacheTypes
      /\ HistoryTypes /\ conn \subseteq Session
  BY ShapeParts
<1>2. ServerTypeOK'
  BY <1>1, IdleType DEF FinishCommand
<1>3. HandlerOK'
  <2>1. at[s] = NoSession /\ UNCHANGED at
    BY <1>1, PassLabels DEF HandlerOK, PassOK, FinishCommand, handler, Step, JobOps
  <2>2. Moves(s)
    BY <1>1, LabelList, PassLabels DEF FinishCommand, Moves, Release, Return, Step
  <2> QED
    BY <1>1, <2>1, <2>2, MovesOK
<1>4. FileTypes'
  BY <1>1 DEF FileTypes, RequestTypes, FinishCommand, Release
<1>5. RequestTypes'
  BY <1>1 DEF RequestTypes, FinishCommand, Release, Return, Kinds, TurnKinds
<1>6. CacheTypes'
  BY <1>1 DEF CacheTypes, FinishCommand, caches
<1>7. HistoryTypes'
  BY <1>1 DEF HistoryTypes, FinishCommand, bounds, Fault, NoFault
<1> QED
  BY <1>2, <1>3, <1>4, <1>5, <1>6, <1>7, ShapeNext

LEMMA FailRequestType ==
  ASSUME Shape, NEW s \in Session, FailRequest(s)
  PROVE  Shape'
<1>1. /\ ServerTypeOK /\ FileTypes /\ HandlerOK /\ RequestTypes /\ CacheTypes
      /\ HistoryTypes /\ conn \subseteq Session
  BY ShapeParts
<1>2. ServerTypeOK'
  BY <1>1, IdleType DEF FailRequest
<1>3. HandlerOK'
  <2>1. at[s] = NoSession /\ UNCHANGED at
    BY <1>1, PassLabels DEF HandlerOK, PassOK, FailRequest, handler, Step, JobOps
  <2>2. Moves(s)
    BY <1>1, LabelList, PassLabels DEF FailRequest, Moves, Release, Return, Step
  <2> QED
    BY <1>1, <2>1, <2>2, MovesOK
<1>4. FileTypes'
  BY <1>1 DEF FileTypes, FailRequest, files, Release
<1>5. RequestTypes'
  BY <1>1 DEF RequestTypes, FailRequest, Release, Return, Kinds, TurnKinds
<1>6. CacheTypes'
  BY <1>1 DEF CacheTypes, FailRequest, caches
<1>7. HistoryTypes'
  BY <1>1 DEF HistoryTypes, FailRequest, bounds
<1> QED
  BY <1>2, <1>3, <1>4, <1>5, <1>6, <1>7, ShapeNext

LEMMA SanitizeResumeType ==
  ASSUME Shape, NEW s \in Session, SanitizeResume(s)
  PROVE  Shape'
<1>1. /\ ServerTypeOK /\ FileTypes /\ HandlerOK /\ RequestTypes /\ CacheTypes
      /\ HistoryTypes /\ conn \subseteq Session
  BY ShapeParts
<1>2. ServerTypeOK'
  BY <1>1, IdleType DEF SanitizeResume
<1>3. HandlerOK'
  <2>1. at[s] = NoSession /\ UNCHANGED at
    BY <1>1, PassLabels DEF HandlerOK, PassOK, SanitizeResume, handler, Step, JobOps
  <2>2. Moves(s)
    BY <1>1, LabelList DEF SanitizeResume, Moves, Step
  <2> QED
    BY <1>1, <2>1, <2>2, MovesOK
<1>4. FileTypes'
  BY <1>1 DEF FileTypes, SanitizeResume, files
<1>5. RequestTypes'
  BY <1>1, HandoffAssumption DEF RequestTypes, FileTypes, SanitizeResume, Selected
<1>6. CacheTypes'
  BY <1>1 DEF CacheTypes, SanitizeResume, caches
<1>7. HistoryTypes'
  BY <1>1 DEF HistoryTypes, SanitizeResume, bounds, Fault, NoFault
<1> QED
  BY <1>2, <1>3, <1>4, <1>5, <1>6, <1>7, ShapeNext

LEMMA AskServerType ==
  ASSUME Shape, NEW s \in Session, NEW from \in Labels \ JobOps, NEW then \in Labels,
         NEW op \in Internal, NEW p \in Provider \cup {NoProvider}, AskServer(s, from, then, Request(op, p))
  PROVE  Shape'
<1>1. /\ ServerTypeOK /\ FileTypes /\ HandlerOK /\ RequestTypes /\ CacheTypes
      /\ HistoryTypes /\ conn \subseteq Session
  BY ShapeParts
<1>2. ServerTypeOK'
  BY <1>1, SendType DEF AskServer
<1>3. HandlerOK'
  <2>1. at[s] = NoSession /\ UNCHANGED at
    BY <1>1, PassLabels DEF HandlerOK, PassOK, AskServer, handler, Step
  <2>2. Moves(s)
    BY <1>1, AskServer(s, from, then, Request(op, p)) DEF AskServer, Moves
  <2> QED
    BY <1>1, <2>1, <2>2, MovesOK
<1>4. FileTypes'
  BY <1>1 DEF FileTypes, AskServer, files
<1>5. RequestTypes'
  BY <1>1 DEF RequestTypes, AskServer, handler
<1>6. CacheTypes'
  BY <1>1 DEF CacheTypes, AskServer, caches
<1>7. HistoryTypes'
  BY <1>1 DEF HistoryTypes, AskServer, bounds
<1> QED
  BY <1>2, <1>3, <1>4, <1>5, <1>6, <1>7, ShapeNext

LEMMA ForwardType ==
  ASSUME Shape, NEW s \in Session, NEW from \in Labels \ JobOps,
         NEW op \in Desktop, NEW p \in Provider \cup {NoProvider}, Forward(s, from, Request(op, p))
  PROVE  Shape'
<1>1. /\ ServerTypeOK /\ FileTypes /\ HandlerOK /\ RequestTypes /\ CacheTypes
      /\ HistoryTypes /\ conn \subseteq Session
  BY ShapeParts
<1>2. ServerTypeOK'
  BY <1>1, SendType DEF Forward
<1>3. HandlerOK'
  <2>1. at[s] = NoSession /\ UNCHANGED at
    BY <1>1, PassLabels DEF HandlerOK, PassOK, Forward, handler, Step
  <2>2. Moves(s)
    BY <1>1, LabelList DEF Forward, Moves
  <2> QED
    BY <1>1, <2>1, <2>2, MovesOK
<1>4. FileTypes'
  BY <1>1 DEF FileTypes, Forward, files
<1>5. RequestTypes'
  BY <1>1 DEF RequestTypes, Forward, handler
<1>6. CacheTypes'
  BY <1>1 DEF CacheTypes, Forward, Forget
<1>7. HistoryTypes'
  BY <1>1 DEF HistoryTypes, Forward, bounds
<1> QED
  BY <1>2, <1>3, <1>4, <1>5, <1>6, <1>7, ShapeNext

LEMMA OpenType ==
  ASSUME Shape, NEW s \in Session, Open(s)
  PROVE  Shape'
<1>1. /\ ServerTypeOK /\ FileTypes /\ HandlerOK /\ RequestTypes /\ CacheTypes
      /\ HistoryTypes /\ conn \subseteq Session
  BY ShapeParts
<1>2. ServerTypeOK'
  BY <1>1, ConnectType DEF Open
<1>3. FileTypes' /\ HandlerOK' /\ RequestTypes' /\ CacheTypes'
  BY <1>1 DEF Open, FileTypes, HandlerOK, HandlerTypes, PassOK, RequestTypes, CacheTypes,
              files, handler, caches
<1>4. HistoryTypes'
  BY <1>1 DEF HistoryTypes, Open, bounds
<1> QED
  BY <1>2, <1>3, <1>4, ShapeNext

LEMMA CloseType ==
  ASSUME Shape, NEW s \in Session, Close(s)
  PROVE  Shape'
<1>1. /\ ServerTypeOK /\ FileTypes /\ HandlerOK /\ RequestTypes /\ CacheTypes
      /\ HistoryTypes /\ conn \subseteq Session
  BY ShapeParts
<1>2. ServerTypeOK'
  BY <1>1, DisconnectType DEF Close
<1>3. FileTypes'
  BY <1>1 DEF FileTypes, Close, files
<1>4. HandlerOK'
  BY <1>1, LabelList, PassLabels DEF HandlerOK, HandlerTypes, PassOK, Close
<1>5. RequestTypes'
  BY <1>1 DEF RequestTypes, Close, Kinds, TurnKinds
<1>6. CacheTypes'
  BY <1>1 DEF CacheTypes, Close, Forget, JobState
<1>7. HistoryTypes'
  BY <1>1 DEF HistoryTypes, Close, Fault
<1> QED
  BY <1>2, <1>3, <1>4, <1>5, <1>6, <1>7, ShapeNext

(* The parts a step of a peer's call leaves alone.                              *)
LEMMA QuietParts ==
  ASSUME Shape, UNCHANGED <<lock, fence, files, kind, tgt, views, lapsed, opened>>,
         work' = work, faults' \in {faults, faults + 1}
  PROVE  FileTypes' /\ RequestTypes' /\ HistoryTypes'
<1>1. FileTypes /\ RequestTypes /\ HistoryTypes
  BY ShapeParts
<1> QED
  BY <1>1 DEF FileTypes, files, RequestTypes, HistoryTypes

LEMMA CallPeerType ==
  ASSUME Shape, NEW s \in Session, CallPeer(s)
  PROVE  Shape'
<1>1. /\ ServerTypeOK /\ FileTypes /\ HandlerOK /\ RequestTypes /\ CacheTypes
      /\ HistoryTypes /\ conn \subseteq Session
  BY ShapeParts
<1>2. FileTypes' /\ RequestTypes' /\ HistoryTypes'
  BY QuietParts DEF CallPeer, bounds
<1>3. PICK p \in todo[s] \cap conn : CallUnsubscribe(s, p) \/ CallResubscribe(s, p)
  BY DEF CallPeer
<1>4. p \in Session /\ pc[s] \in JobOps
  BY <1>1, <1>3 DEF CallUnsubscribe, CallResubscribe, JobOps
<1>5. CASE \E op \in JobOps, state \in Running, q \in Provider \cup {NoProvider} :
             StartJob(s, p, op, state, q)
  <2>1. PICK op \in JobOps, state \in Running, q \in Provider \cup {NoProvider} :
          StartJob(s, p, op, state, q)
    BY <1>5
  <2>2. UpOf[op] \in Internal
    BY DEF UpOf, JobOps, Internal
  <2>3. ServerTypeOK'
    BY <1>1, <1>4, <2>1, <2>2, SendType DEF StartJob
  <2>4. HandlerOK'
    BY <1>1, <1>4, <2>1 DEF StartJob, HandlerOK, HandlerTypes, PassOK
  <2>5. CacheTypes'
    BY <1>1, <1>4, <2>1 DEF CallPeer, StartJob, CacheTypes, Running, JobState
  <2> QED
    BY <1>2, <2>3, <2>4, <2>5, ShapeNext
<1>6. CASE /\ ServerIdle /\ UNCHANGED <<at, job>>
           /\ (pc[s] = "unsub" /\ StopJobs(s)) \/ (Proceed(s, p) /\ UNCHANGED eff)
  <2>1. ServerTypeOK'
    BY <1>1, <1>6, IdleType
  <2>2. Moves(s)
    BY <1>4, <1>6, StopAtType, PassLabels DEF Moves, StopJobs
  <2>3. HandlerOK'
    BY <1>1, <1>6, <2>2, MovesOK DEF CallPeer
  <2>4. CacheTypes'
    BY <1>1, <1>6 DEF CallPeer, StopJobs, CacheTypes
  <2> QED
    BY <1>2, <2>1, <2>3, <2>4, ShapeNext
<1> QED
  BY <1>1, <1>3, <1>5, <1>6
     DEF CallUnsubscribe, CallResubscribe, Running, JobOps, RequestTypes

LEMMA PeerAnsweredType ==
  ASSUME Shape, NEW s \in Session, PeerAnswered(s)
  PROVE  Shape'
<1>1. /\ ServerTypeOK /\ FileTypes /\ HandlerOK /\ RequestTypes /\ CacheTypes
      /\ HistoryTypes /\ conn \subseteq Session
  BY ShapeParts
<1>2. FileTypes' /\ RequestTypes' /\ HistoryTypes'
  BY QuietParts DEF PeerAnswered, bounds
<1>3. ServerTypeOK'
  BY <1>1, IdleType DEF PeerAnswered
<1>4. pc[s] \in JobOps
  BY <1>1 DEF PeerAnswered, HandlerOK, PassOK
<1>5. HandlerOK'
  <2>1. CASE Proceed(s, at[s])
    BY <1>1, <1>4, <2>1, PassLabels, DoneAtType
       DEF PeerAnswered, Proceed, Goto, HandlerOK, HandlerTypes, PassOK
  <2>2. CASE StopJobs(s) /\ pc[s] # "restore"
    <3>1. StopAt[pc[s]] \in Labels
      BY <1>4, <2>2, StopAtType DEF JobOps
    <3> QED
      BY <1>1, <2>2, <3>1 DEF PeerAnswered, StopJobs, Goto, HandlerOK, HandlerTypes, PassOK
  <2> QED
    BY <2>1, <2>2 DEF PeerAnswered
<1>6. CacheTypes'
  BY <1>1 DEF PeerAnswered, StopJobs, CacheTypes
<1> QED
  BY <1>2, <1>3, <1>5, <1>6, ShapeNext

LEMMA PeerCallTimeoutType ==
  ASSUME Shape, NEW s \in Session, PeerCallTimeout(s)
  PROVE  Shape'
<1>1. /\ ServerTypeOK /\ FileTypes /\ HandlerOK /\ RequestTypes /\ CacheTypes
      /\ HistoryTypes /\ conn \subseteq Session
  BY ShapeParts
<1>2. FileTypes' /\ RequestTypes' /\ HistoryTypes'
  BY QuietParts DEF PeerCallTimeout, Fault
<1>3. ServerTypeOK'
  BY <1>1, IdleType DEF PeerCallTimeout
<1>4. HandlerOK'
  BY <1>1, LabelList DEF PeerCallTimeout, Goto, HandlerOK, HandlerTypes, PassOK
<1>5. CacheTypes'
  BY <1>1 DEF PeerCallTimeout, CacheTypes, caches
<1> QED
  BY <1>2, <1>3, <1>4, <1>5, ShapeNext

LEMMA EndUnsubscribeType ==
  ASSUME CacheTypes, NEW p \in Session, NEW ok \in BOOLEAN, NEW status,
         EndUnsubscribe(p, ok, status), UNCHANGED <<act, sup>>
  PROVE  CacheTypes'
<1>1. Outcome(ok) \in JobState /\ MayHaveLeft(p, status) \in BOOLEAN
  BY DEF Outcome, JobState, MayHaveLeft, CacheTypes
<1> QED
  BY <1>1 DEF EndUnsubscribe, Forget, CacheTypes, JobOps

LEMMA EndResubscribeType ==
  ASSUME CacheTypes, NEW p \in Session, NEW op \in JobOps, NEW m \in Message,
         EndResubscribe(p, op, m), UNCHANGED <<act, sup>>
  PROVE  CacheTypes'
  BY DEF EndResubscribe, Learn, Outcome, JobState, CacheTypes, Message

LEMMA JobTimeoutType ==
  ASSUME Shape, NEW s \in Session, JobTimeout(s)
  PROVE  Shape'
<1>1. /\ ServerTypeOK /\ FileTypes /\ HandlerOK /\ RequestTypes /\ CacheTypes
      /\ HistoryTypes /\ conn \subseteq Session
  BY ShapeParts
<1>2. FileTypes' /\ RequestTypes' /\ HistoryTypes'
  <2>1. lapsed' \in {lapsed, lapsed \cup {s}}
    BY DEF JobTimeout
  <2>2. UNCHANGED <<views, opened, work, lock, fence, files, kind, tgt>> /\ Fault
    BY DEF JobTimeout, handler
  <2> QED
    BY <1>1, <2>1, <2>2 DEF Fault, files, FileTypes, RequestTypes, HistoryTypes
<1>3. PICK op \in JobOps :
        /\ Abandon(s, UpOf[op])
        /\ IF op = "unsub" THEN EndUnsubscribe(s, FALSE, "")
           ELSE job' = [job EXCEPT ![s][op] = "bad"] /\ UNCHANGED <<eff, det>>
  BY DEF JobTimeout
<1>7. UNCHANGED <<act, sup>>
  BY DEF JobTimeout
<1>4. ServerTypeOK'
  <2>1. up' \in [Session -> Seq(Message)] /\ down' \in [Session -> Seq(Message)]
    BY <1>1, <1>3, AbandonType
  <2> QED
    BY <1>1, <2>1 DEF ServerTypeOK, JobTimeout
<1>5. HandlerOK'
  BY <1>1 DEF JobTimeout, handler, HandlerOK, HandlerTypes, PassOK
<1>6. CacheTypes'
  <2>1. CASE op = "unsub"
    BY <1>1, <1>3, <1>7, <2>1, EndUnsubscribeType
  <2>2. CASE op # "unsub"
    <3>1. job' = [job EXCEPT ![s][op] = "bad"] /\ UNCHANGED <<eff, det>>
      BY <1>3, <2>2
    <3>2. job' \in [Session -> [JobOps -> JobState]]
      BY <1>1, <3>1 DEF CacheTypes, JobState
    <3> QED
      BY <1>1, <1>7, <3>1, <3>2 DEF CacheTypes
  <2> QED
    BY <2>1, <2>2
<1> QED
  BY <1>2, <1>4, <1>5, <1>6, ShapeNext

LEMMA CallTimeoutType ==
  ASSUME Shape, NEW s \in Session, CallTimeout(s)
  PROVE  Shape'
<1>1. /\ ServerTypeOK /\ FileTypes /\ HandlerOK /\ RequestTypes /\ CacheTypes
      /\ HistoryTypes /\ conn \subseteq Session
  BY ShapeParts
<1>2. FileTypes' /\ RequestTypes' /\ HistoryTypes'
  BY QuietParts DEF CallTimeout, Fault
<1>3. ServerTypeOK'
  <2>1. up' \in [Session -> Seq(Message)] /\ down' \in [Session -> Seq(Message)]
    BY <1>1, AbandonType DEF CallTimeout
  <2> QED
    BY <1>1, <2>1 DEF ServerTypeOK, CallTimeout
<1>4. HandlerOK'
  <2>1. at[s] = NoSession /\ UNCHANGED at
    BY <1>1 DEF CallTimeout, HandlerOK, PassOK, JobOps, Waiting
  <2>2. Moves(s)
    BY LabelList DEF CallTimeout, Waiting, Moves
  <2> QED
    BY <1>1, <2>1, <2>2, MovesOK
<1>5. CacheTypes'
  BY <1>1 DEF CallTimeout, CacheTypes, caches
<1> QED
  BY <1>2, <1>3, <1>4, <1>5, ShapeNext

(* What the reader of a session does with one message keeps the types of what *)
(* it may change.                                                             *)
Heard(s) ==
  /\ lock' \in Session \cup {NoSession} /\ fence' \in [Session -> BOOLEAN]
  /\ Moves(s) /\ (at[s] # NoSession => UNCHANGED <<pc, todo>>)
  /\ kind' \in [Session -> Kinds]
  /\ tgt' \in [Session -> Provider \cup {NoProvider}]
  /\ eff' \in [Session -> Provider \cup {NoProvider}]
  /\ det' \in [Session -> BOOLEAN] /\ act' \in [Session -> BOOLEAN]
  /\ job' \in [Session -> [JobOps -> JobState]]
  /\ views' \subseteq Session

LEMMA HearNoticeType ==
  ASSUME Shape, NEW s \in Session, NEW m \in Message, HearNotice(s, m)
  PROVE  Heard(s)
  BY ShapeParts DEF HearNotice, Forget, Heard, Moves, FileTypes, RequestTypes, CacheTypes,
                    HistoryTypes

LEMMA HearTurnType ==
  ASSUME Shape, NEW s \in Session, NEW m \in Message, HearTurn(s, m)
  PROVE  Heard(s)
  BY ShapeParts DEF HearTurn, LiftFence, Heard, Moves, FileTypes, RequestTypes, CacheTypes,
                    HistoryTypes, Message

LEMMA HearDesktopType ==
  ASSUME Shape, NEW s \in Session, NEW m \in Message, HearDesktop(s, m)
  PROVE  Heard(s)
<1>1. Moves(s) /\ at[s] = NoSession
  BY ShapeParts, PassLabels, LabelList
  DEF HearDesktop, Release, Return, Moves, HandlerOK, PassOK, JobOps
<1> QED
  BY <1>1, ShapeParts DEF HearDesktop, Release, Return, Heard, FileTypes, RequestTypes,
                    CacheTypes, HistoryTypes, Message, Kinds, TurnKinds

LEMMA DecideType ==
  ASSUME Shape, NEW s \in Session, NEW obs \in Provider \cup {NoProvider}, Decide(s, obs)
  PROVE  Moves(s) /\ tgt' \in [Session -> Provider \cup {NoProvider}]
<1>1. Moves(s)
  BY LabelList DEF Decide, Moves
<1>2. Goal(s, obs) \in Provider \cup {NoProvider}
  BY ShapeParts, HandoffAssumption DEF Goal, Selected, FileTypes, RequestTypes
<1> QED
  BY <1>1, <1>2, ShapeParts DEF Decide, RequestTypes

LEMMA HearListType ==
  ASSUME Shape, NEW s \in Session, NEW m \in Message, HearList(s, m)
  PROVE  Heard(s)
<1> DEFINE obs == IF eff[s] = NoProvider THEN m.prov ELSE eff[s]
<1>1. obs \in Provider \cup {NoProvider}
  BY ShapeParts DEF CacheTypes, Message
<1>2. /\ Moves(s)
      /\ tgt' \in [Session -> Provider \cup {NoProvider}]
      /\ eff' \in [Session -> Provider \cup {NoProvider}]
  <2>1. CASE UNCHANGED <<eff, tgt>> /\ \E l \in {"reconcile", "fail"} : Goto(s, l)
    <3>1. Moves(s)
      BY <2>1, LabelList DEF Moves
    <3> QED
      BY <2>1, <3>1, ShapeParts DEF RequestTypes, CacheTypes
  <2>2. CASE eff' = [eff EXCEPT ![s] = obs] /\ Decide(s, obs)
    BY <1>1, <2>2, DecideType, ShapeParts DEF CacheTypes
  <2> QED
    BY <2>1, <2>2 DEF HearList
<1>3. at[s] = NoSession
  BY ShapeParts DEF HearList, HandlerOK, PassOK, JobOps
<1> QED
  BY <1>2, <1>3, ShapeParts DEF HearList, Heard, FileTypes, RequestTypes, CacheTypes, HistoryTypes

LEMMA HearResumeType ==
  ASSUME Shape, NEW s \in Session, NEW m \in Message, HearResume(s, m)
  PROVE  Heard(s)
<1>1. Moves(s) /\ at[s] = NoSession
  BY ShapeParts, LabelList DEF HearResume, Moves, HandlerOK, PassOK, JobOps
<1>2. /\ eff' \in [Session -> Provider \cup {NoProvider}]
      /\ det' \in [Session -> BOOLEAN]
  BY ShapeParts DEF HearResume, Learn, CacheTypes, Message
<1> QED
  BY <1>1, <1>2, ShapeParts DEF HearResume, Heard, FileTypes, RequestTypes, CacheTypes,
                                HistoryTypes

LEMMA HearJobType ==
  ASSUME Shape, NEW s \in Session, NEW m \in Message, HearJob(s, m), UNCHANGED sup
  PROVE  Heard(s)
<1>1. CacheTypes /\ UNCHANGED <<act, sup>>
  BY ShapeParts DEF HearJob
<1>2. CacheTypes'
  <2>1. CASE EndUnsubscribe(s, m.ok, m.tag)
    BY <1>1, <2>1, EndUnsubscribeType DEF Message
  <2>2. CASE \E op \in JobOps : EndResubscribe(s, op, m)
    BY <1>1, <2>2, EndResubscribeType
  <2> QED
    BY <2>1, <2>2 DEF HearJob, JobOps
<1> QED
  BY <1>2, ShapeParts DEF HearJob, Heard, Moves, FileTypes, RequestTypes, CacheTypes,
                          HistoryTypes

LEMMA HearType ==
  ASSUME Shape, NEW s \in Session, Hear(s)
  PROVE  Shape'
<1> DEFINE m == Head(down[s])
<1>1. /\ ServerTypeOK /\ FileTypes /\ HandlerOK /\ RequestTypes /\ CacheTypes
      /\ HistoryTypes /\ conn \subseteq Session
  BY ShapeParts
<1>2. m \in Message /\ Tail(down[s]) \in Seq(Message)
  BY <1>1, TurnTail DEF Hear, ServerTypeOK
<1>3. Heard(s)
  <2>1. CASE Swallow(m)
    BY <1>1, <2>1 DEF Swallow, Heard, Moves, FileTypes, RequestTypes, CacheTypes,
                      HistoryTypes
  <2>2. CASE HearJob(s, m)
    BY <1>2, <2>2, HearJobType DEF Hear
  <2> QED
    BY <1>2, <2>1, <2>2, HearNoticeType, HearTurnType, HearDesktopType, HearListType,
       HearResumeType DEF Hear
<1>4. ServerTypeOK'
  BY <1>1, <1>2 DEF Hear, ServerTypeOK
<1>5. HandlerOK'
  <2>1. CASE at[s] = NoSession
    BY <1>1, <1>3, <2>1, MovesOK DEF Hear, Heard
  <2>2. CASE at[s] # NoSession
    BY <1>1, <1>3, <2>2 DEF Hear, Heard, HandlerOK, HandlerTypes, PassOK
  <2> QED
    BY <2>1, <2>2
<1>6. FileTypes' /\ RequestTypes' /\ CacheTypes'
  BY <1>1, <1>3 DEF Hear, Heard, files, FileTypes, RequestTypes, CacheTypes
<1>7. HistoryTypes'
  BY <1>1, <1>3 DEF Hear, Heard, bounds, HistoryTypes
<1> QED
  BY <1>4, <1>5, <1>6, <1>7, ShapeNext

LEMMA OthersType ==
  ASSUME Shape, UNCHANGED others, ServerTypeOK', views' \subseteq Session,
         lapsed' \subseteq Session, UNCHANGED faults \/ Fault
  PROVE  Shape'
<1>1. FileTypes /\ HandlerOK /\ RequestTypes /\ CacheTypes /\ HistoryTypes
  BY ShapeParts
<1>2. FileTypes' /\ RequestTypes' /\ CacheTypes'
  BY <1>1 DEF others, files, handler, caches, FileTypes, RequestTypes, CacheTypes
<1>3. HandlerOK'
  BY <1>1 DEF others, handler, HandlerOK, HandlerTypes, PassOK
<1>4. HistoryTypes'
  BY <1>1 DEF others, Fault, HistoryTypes
<1> QED
  BY <1>2, <1>3, <1>4, ShapeNext

LEMMA ServerStepsType ==
  ASSUME Shape, NEW s \in Session, ServeStep(s) \/ ServeFault(s)
  PROVE  Shape'
<1>1. ServerTypeOK /\ views \subseteq Session /\ lapsed \subseteq Session
  BY ShapeParts DEF HistoryTypes
<1>2. CASE ServeStep(s)
  BY <1>1, <1>2, ServeType, OthersType DEF ServeStep, NoFault
<1>3. CASE ServeFault(s)
  BY <1>1, <1>3, ServeErrorType, OthersType DEF ServeFault
<1> QED
  BY <1>2, <1>3

LEMMA TurnEndsShape ==
  ASSUME Shape, TurnEnds
  PROVE  Shape'
  BY ShapeParts, TurnEndsType, OthersType DEF TurnEnds, HistoryTypes

LEMMA UnloadIdleShape ==
  ASSUME Shape, UnloadIdle
  PROVE  Shape'
  BY ShapeParts, UnloadType, OthersType DEF UnloadIdle, HistoryTypes

LEMMA RecoverType ==
  ASSUME Shape, NEW s \in Session, Recover(s) \/ RepairJournal(s)
  PROVE  Shape'
<1>1. {"unarchive", "resanitize", "clearJournal", "repairUnarchive", "repairSanitize",
       "repairClear"} \subseteq Labels \ JobOps
  BY LabelList DEF JobOps
<1>2. {"resanitize", "abort", "recoverResume", "stageResub", "restore", "repairSanitize",
       "repairAbort", "repairResume", "fail"} \subseteq Labels
  BY LabelList
<1>3. AfterRepair(s) \in Labels
  BY LabelList DEF AfterRepair
<1>4. CASE Recover(s)
  BY <1>1, <1>2, <1>4, InspectType, SaveJournalType, ArchiveRootType, UnarchiveAllType,
     ResanitizeType, ClearJournalType DEF Recover
<1>5. CASE RepairJournal(s)
  BY <1>1, <1>2, <1>3, <1>5, LoadJournalType, UnarchiveAllType, ResanitizeType,
     RepairResumeType, ClearJournalType DEF RepairJournal
<1> QED
  BY <1>4, <1>5

LEMMA RequestsType ==
  ASSUME Shape, NEW s \in Session,
         AskStatus(s) \/ AskRoute(s) \/ InternalResume(s) \/ DesktopStep(s)
  PROVE  Shape'
<1>1. /\ {"askStatus", "route", "resume", "recoverResume", "forwardResume", "unsubscribe"}
           \subseteq Labels \ JobOps
      /\ {"statusWait", "routeWait", "resumeWait", "recoverResumeWait"} \subseteq Labels
      /\ {"list", "resume"} \subseteq Internal /\ {"dresume", "dunsub"} \subseteq Desktop
  BY LabelList DEF JobOps, Internal, Desktop
<1>2. tgt[s] \in Provider \cup {NoProvider}
  BY ShapeParts DEF RequestTypes
<1>3. CASE AskStatus(s) \/ AskRoute(s)
  BY <1>1, <1>3, AskServerType DEF AskStatus, AskRoute
<1>4. CASE InternalResume(s)
  BY <1>1, <1>2, <1>4, AskServerType DEF InternalResume
<1>5. CASE DesktopStep(s)
  BY <1>1, <1>2, <1>5, ForwardType, SanitizeResumeType
  DEF DesktopStep, ForwardResume, ForwardUnsubscribe
<1> QED
  BY <1>3, <1>4, <1>5

LEMMA HandleType ==
  ASSUME Shape, NEW s \in Session, Handle(s)
  PROVE  Shape'
<1>1. CASE PassStep(s)
  BY <1>1, SkipPeerType, CheckPeerType, ReconcilePeerType, BeginPeerType, EndPeerType,
     CallPeerType, PeerAnsweredType DEF PassStep
<1>2. CASE TurnStep(s)
  BY <1>2, PrepareTurnType, RequestsType, DecideRouteType, ForwardTurnType,
     FinishCommandType DEF TurnStep
<1>3. CASE HandoffStep(s)
  BY <1>3, SetDirtyStageType, SanitizeType, RequestsType, ClearDirtyType DEF HandoffStep
<1> QED
  BY <1>1, <1>2, <1>3, LockThreadType, RecoverType, RequestsType, FailRequestType DEF Handle

LEMMA ShapeInit == ASSUME Init PROVE Shape
<1>1. <<>> \in Seq(Message)
  OBVIOUS
<1>2. ServerTypeOK
  BY <1>1 DEF Init, ServerTypeOK
<1>3. FileTypes /\ HistoryTypes
  BY DEF Init, FileTypes, HistoryTypes, Stages
<1>4. HandlerOK
  BY LabelList DEF Init, HandlerOK, HandlerTypes, PassOK
<1>5. RequestTypes
  BY DEF Init, RequestTypes, Kinds, TurnKinds
<1>6. CacheTypes
  BY DEF Init, CacheTypes, JobState
<1> QED
  BY <1>2, <1>3, <1>4, <1>5, <1>6 DEF Shape, TypeOK, HandlerOK

LEMMA ShapeStep == ASSUME Shape, [Next]_vars PROVE Shape'
<1>1. CASE UNCHANGED vars
  BY <1>1 DEF vars, serverVars, files, handler, caches, bounds, Shape, TypeOK, ServerTypeOK,
              FileTypes, HandlerTypes, RequestTypes, CacheTypes, HistoryTypes, PassOK
<1>2. ASSUME NEW s \in Session,
             \/ Open(s) \/ Close(s) \/ Receive(s)
             \/ Handle(s) \/ Hear(s) \/ Timeout(s)
             \/ ServeStep(s) \/ ServeFault(s)
      PROVE  Shape'
  BY <1>2, OpenType, CloseType, ReceiveType, HandleType, HearType, PeerCallTimeoutType,
     JobTimeoutType, CallTimeoutType, ServerStepsType DEF Timeout
<1>3. CASE TurnEnds
  BY <1>3, TurnEndsShape
<1>4. CASE UnloadIdle
  BY <1>4, UnloadIdleShape
<1> QED
  BY <1>1, <1>2, <1>3, <1>4 DEF Next

(* Every reachable state has its types: the passes and waits stand where the   *)
(* tables of labels say, whatever the sessions, providers and bounds.          *)
THEOREM TypeCorrect == Spec => []TypeOK
<1>1. Init => Shape
  BY ShapeInit
<1>2. Shape /\ [Next]_vars => Shape'
  BY ShapeStep
<1>3. Shape => TypeOK
  BY DEF Shape
<1> QED
  BY <1>1, <1>2, <1>3, PTL DEF Spec

-----------------------------------------------------------------------------
(* The thread lock *)


Serial ==
  \A s \in Session :
    /\ Inside(s) => lock = s
    /\ fence[s] => pc[s] \in {"idle", "lock"}
    /\ Inside(s) \/ pc[s] # "idle" => s \in conn

TurnsOK(s) ==
  /\ OneTurn(up[s]) /\ OneTurn(down[s])
  /\ ~ (HasTurn(up[s]) /\ HasTurn(down[s]))
  /\ HasTurn(up[s]) \/ HasTurn(down[s]) => fence[s]

Channels ==
  /\ conn \subseteq opened /\ subs \subseteq conn
  /\ \A s \in Session \ opened : up[s] = <<>> /\ down[s] = <<>>
  /\ \A s \in conn : TurnsOK(s)

LockInv == Shape /\ Serial /\ Channels

-----------------------------------------------------------------------------
(* Steps of a handler that keeps the lock *)

(* The handler of s moves past the lock, and nothing happens to the lock.    *)
Keeps(s) ==
  /\ UNCHANGED <<lock, fence, conn, opened>>
  /\ pc[s] \notin {"idle", "lock"}
  /\ \A x \in Session \ {s} : pc'[x] = pc[x]

LEMMA KeepsSerial ==
  ASSUME Serial, NEW s \in Session, Keeps(s)
  PROVE  Serial' /\ s \in conn /\ ~fence[s] /\ lock = s
  BY DEF Serial, Keeps, Inside

(* No channel gains a turn/start or the answer to one.                       *)
NoNewTurn ==
  /\ subs' \subseteq conn
  /\ \A x \in Session \ opened : up'[x] = up[x] /\ down'[x] = down[x]
  /\ \A x \in conn :
       /\ HasTurn(up'[x]) => HasTurn(up[x])
       /\ HasTurn(down'[x]) => HasTurn(down[x])
       /\ OneTurn(up[x]) => OneTurn(up'[x])
       /\ OneTurn(down[x]) => OneTurn(down'[x])

LEMMA NoNewTurnChannels ==
  ASSUME Channels, UNCHANGED <<conn, opened, fence>>, NoNewTurn
  PROVE  Channels'
  BY DEF Channels, TurnsOK, NoNewTurn

LEMMA CalmNoNewTurn ==
  ASSUME Channels, UNCHANGED <<subs, up, down>>
  PROVE  NoNewTurn
  BY DEF Channels, NoNewTurn

LEMMA KeepsCalm ==
  ASSUME Serial, Channels, NEW s \in Session, Keeps(s), UNCHANGED <<subs, up, down>>
  PROVE  Serial' /\ Channels'
  BY KeepsSerial, CalmNoNewTurn, NoNewTurnChannels DEF Keeps

LEMMA GotoPc ==
  ASSUME Shape, NEW s \in Session, NEW label, Goto(s, label)
  PROVE  pc'[s] = label /\ \A x \in Session \ {s} : pc'[x] = pc[x]
  BY ShapeParts DEF Goto, HandlerOK, HandlerTypes

LEMMA ProceedPc ==
  ASSUME Shape, NEW s \in Session, NEW p, Proceed(s, p)
  PROVE  \A x \in Session \ {s} : pc'[x] = pc[x]
  BY GotoPc DEF Proceed

LEMMA StopJobsPc ==
  ASSUME Shape, NEW s \in Session, StopJobs(s)
  PROVE  \A x \in Session \ {s} : pc'[x] = pc[x]
  BY GotoPc DEF StopJobs

LEMMA ReturnPc ==
  ASSUME Shape, NEW s \in Session, Return(s)
  PROVE  pc'[s] = "idle" /\ \A x \in Session \ {s} : pc'[x] = pc[x]
  BY ShapeParts DEF Return, HandlerOK, HandlerTypes

LEMMA Visiting ==
  ASSUME Shape, NEW s \in Session, todo[s] # {} \/ at[s] # NoSession
  PROVE  pc[s] \notin {"idle", "lock"}
  BY ShapeParts, PassLabels DEF HandlerOK, PassOK

LEMMA CheckingKeeps ==
  ASSUME Shape, NEW s \in Session,
         SkipPeer(s) \/ CheckPeer(s) \/ ReconcilePeer(s) \/ BeginPeer(s) \/ EndPeer(s)
  PROVE  Keeps(s) /\ UNCHANGED <<subs, up, down>>
<1>1. CASE SkipPeer(s)
  BY <1>1, ProceedPc, Visiting DEF SkipPeer, Keeps, ServerIdle, serverVars
<1>2. CASE CheckPeer(s)
  BY <1>2, ProceedPc, GotoPc, Visiting DEF CheckPeer, Keeps, ServerIdle, serverVars
<1>3. CASE ReconcilePeer(s)
  BY <1>3, ProceedPc, GotoPc, Visiting DEF ReconcilePeer, Keeps, ServerIdle, serverVars
<1>4. CASE BeginPeer(s)
  BY <1>4, ProceedPc, GotoPc, Visiting DEF BeginPeer, BeginRefused, Keeps, ServerIdle, serverVars
<1>5. CASE EndPeer(s)
  BY <1>5, ProceedPc, GotoPc, Visiting DEF EndPeer, EndRefused, Keeps, ServerIdle, serverVars
<1> QED
  BY <1>1, <1>2, <1>3, <1>4, <1>5

LEMMA TurnKeeps ==
  ASSUME Shape, NEW s \in Session,
         PrepareTurn(s) \/ DecideRoute(s) \/ SetDirtyStage(s) \/ Sanitize(s)
         \/ ClearDirty(s) \/ SanitizeResume(s)
  PROVE  Keeps(s) /\ UNCHANGED <<subs, up, down>>
<1>1. CASE PrepareTurn(s)
  BY <1>1, GotoPc DEF PrepareTurn, Step, Keeps, ServerIdle, serverVars
<1>2. CASE DecideRoute(s)
  BY <1>2, GotoPc DEF DecideRoute, Decide, Step, Keeps, ServerIdle, serverVars
<1>3. CASE SetDirtyStage(s)
  BY <1>3, GotoPc, StageType DEF SetDirtyStage, Keeps, ServerIdle, serverVars
<1>4. CASE Sanitize(s)
  BY <1>4, GotoPc DEF Sanitize, Step, Keeps, ServerIdle, serverVars
<1>5. CASE ClearDirty(s)
  BY <1>5, GotoPc DEF ClearDirty, Step, Keeps, ServerIdle, serverVars
<1>6. CASE SanitizeResume(s)
  BY <1>6, GotoPc DEF SanitizeResume, Step, Keeps, ServerIdle, serverVars
<1> QED
  BY <1>1, <1>2, <1>3, <1>4, <1>5, <1>6

LEMMA FilesKeeps ==
  ASSUME Shape, NEW s \in Session, NEW from \in Labels \ {"idle", "lock"},
         NEW then, NEW failed,
         \/ Inspect(s) \/ SaveJournal(s) \/ LoadJournal(s) \/ RepairResume(s)
         \/ UnarchiveAll(s, from, then, failed) \/ Resanitize(s, from, then, failed)
         \/ ClearJournal(s, from, then, failed)
  PROVE  Keeps(s) /\ UNCHANGED <<subs, up, down>>
<1>1. CASE Inspect(s)
  BY <1>1, GotoPc DEF Inspect, Step, Keeps, ServerIdle, serverVars
<1>2. CASE SaveJournal(s)
  BY <1>2, GotoPc DEF SaveJournal, Step, Keeps, ServerIdle, serverVars
<1>3. CASE LoadJournal(s)
  BY <1>3, GotoPc DEF LoadJournal, Step, Keeps, ServerIdle, serverVars
<1>4. CASE RepairResume(s)
  BY <1>4, GotoPc DEF RepairResume, RecoveryResume, Step, Keeps, ServerIdle, serverVars
<1>5. CASE UnarchiveAll(s, from, then, failed)
  BY <1>5, GotoPc DEF UnarchiveAll, Unarchive, Step, Keeps, ServerIdle, serverVars
<1>6. CASE Resanitize(s, from, then, failed)
  BY <1>6, GotoPc DEF Resanitize, Step, Keeps, ServerIdle, serverVars
<1>7. CASE ClearJournal(s, from, then, failed)
  BY <1>7, GotoPc DEF ClearJournal, Step, Keeps, ServerIdle, serverVars
<1> QED
  BY <1>1, <1>2, <1>3, <1>4, <1>5, <1>6, <1>7

-----------------------------------------------------------------------------
(* Steps that use the channels *)

LEMMA SendNoNewTurn ==
  ASSUME Shape, Channels, NEW s \in conn, NEW op \in Desktop \cup Internal, op # "turn",
         NEW p \in Provider \cup {NoProvider}, SendOnly(s, Request(op, p))
  PROVE  NoNewTurn
<1>1. Request(op, p) \in Message /\ Request(op, p).op = op
  BY RequestType
<1>2. s \in Session /\ s \in opened /\ up \in [Session -> Seq(Message)]
  BY ShapeParts DEF ServerTypeOK, Channels
<1>3. /\ up' = [up EXCEPT ![s] = Append(@, Request(op, p))]
      /\ UNCHANGED <<conn, subs, down>>
  BY DEF SendOnly, Send
<1>4. ASSUME NEW x \in conn
      PROVE  /\ HasTurn(up'[x]) => HasTurn(up[x])
             /\ OneTurn(up[x]) => OneTurn(up'[x])
  <2>1. up[x] \in Seq(Message)
    BY <1>2, <1>4, ShapeParts
  <2>2. CASE x = s
    BY <1>1, <1>2, <1>3, <2>1, <2>2, TurnAppend
  <2>3. CASE x # s
    BY <1>2, <1>3, <2>3
  <2> QED
    BY <2>2, <2>3
<1> QED
  BY <1>2, <1>3, <1>4 DEF NoNewTurn, Channels

LEMMA AbandonNoNewTurn ==
  ASSUME Shape, Channels, NEW s \in conn, NEW op \in Internal, Abandon(s, op),
         UNCHANGED <<conn, subs>>
  PROVE  NoNewTurn
<1>1. /\ s \in Session /\ s \in opened /\ conn \subseteq Session
      /\ up \in [Session -> Seq(Message)] /\ down \in [Session -> Seq(Message)]
  BY ShapeParts DEF ServerTypeOK, Channels
<1>2. ASSUME NEW x \in conn
      PROVE  /\ HasTurn(up'[x]) => HasTurn(up[x])
             /\ HasTurn(down'[x]) => HasTurn(down[x])
             /\ OneTurn(up[x]) => OneTurn(up'[x])
             /\ OneTurn(down[x]) => OneTurn(down'[x])
  <2>1. up[x] \in Seq(Message) /\ down[x] \in Seq(Message)
    BY <1>1, <1>2
  <2>2. up'[x] \in {up[x], Dropped(up[x], op)} /\ down'[x] \in {down[x], Dropped(down[x], op)}
    BY <1>1 DEF Abandon
  <2> QED
    BY <2>1, <2>2, TurnDropped
<1>3. \A x \in Session \ opened : up'[x] = up[x] /\ down'[x] = down[x]
  BY <1>1 DEF Abandon
<1> QED
  BY <1>2, <1>3 DEF NoNewTurn, Channels

(* A notification that reaches none but open sessions.                       *)
LEMMA AnnounceNoNewTurn ==
  ASSUME Shape, Channels, NEW n \in Notice, NEW to \in SUBSET conn,
         UNCHANGED <<conn, up>>, subs' \subseteq conn,
         down' = Deliveries(NoSession, Notification(n), n, to)
  PROVE  NoNewTurn
<1>1. /\ conn \subseteq Session /\ down \in [Session -> Seq(Message)]
      /\ NoSession \notin Session
  BY ShapeParts, AppServerAssumption DEF ServerTypeOK
<1>2. Notification(n) \in Message
  BY NotificationType
<1>3. ASSUME NEW x \in Session
      PROVE  /\ HasTurn(down'[x]) => HasTurn(down[x])
             /\ OneTurn(down[x]) => OneTurn(down'[x])
  BY <1>1, <1>2, <1>3, TurnDeliveries
<1>4. ASSUME NEW x \in Session \ opened
      PROVE  down'[x] = down[x]
  <2>1. x \notin to /\ x # NoSession /\ down[x] \in Seq(Message)
    BY <1>1, <1>4 DEF Channels
  <2> QED
    BY <1>4, <2>1 DEF Deliveries
<1> QED
  BY <1>1, <1>3, <1>4 DEF NoNewTurn, Channels

LEMMA ArchiveRootKeeps ==
  ASSUME Shape, Channels, NEW s \in Session, ArchiveRoot(s)
  PROVE  Keeps(s) /\ NoNewTurn
<1>1. Keeps(s)
  BY GotoPc DEF ArchiveRoot, Archive, Step, Keeps, ServerIdle, serverVars
<1>2. CASE Archive
  BY <1>1, <1>2, AnnounceNoNewTurn DEF Archive, ClosedTo, Channels, Notice, Closings
<1>3. CASE ServerIdle
  BY <1>1, <1>3, CalmNoNewTurn DEF ServerIdle, serverVars
<1> QED
  BY <1>1, <1>2, <1>3 DEF ArchiveRoot

LEMMA AskServerKeeps ==
  ASSUME Shape, Serial, Channels, NEW s \in Session, NEW from \in Labels \ {"idle", "lock"},
         NEW then, NEW op \in Internal, NEW p \in Provider \cup {NoProvider},
         AskServer(s, from, then, Request(op, p))
  PROVE  Keeps(s) /\ NoNewTurn
<1>1. Keeps(s)
  BY GotoPc DEF AskServer, SendOnly, Step, Keeps
<1> QED
  BY <1>1, KeepsSerial, SendNoNewTurn DEF AskServer, Internal

LEMMA ForwardKeeps ==
  ASSUME Shape, Serial, Channels, NEW s \in Session, NEW from \in Labels \ {"idle", "lock"},
         NEW op \in {"dresume", "dunsub"}, NEW p \in Provider \cup {NoProvider},
         Forward(s, from, Request(op, p))
  PROVE  Keeps(s) /\ NoNewTurn
<1>1. Keeps(s)
  BY GotoPc DEF Forward, SendOnly, Step, Keeps
<1> QED
  BY <1>1, KeepsSerial, SendNoNewTurn DEF Forward, Desktop

LEMMA StartJobNoNewTurn ==
  ASSUME Shape, Channels, NEW s \in Session, NEW p \in conn, NEW op \in JobOps, NEW state,
         NEW prov \in Provider \cup {NoProvider}, StartJob(s, p, op, state, prov)
  PROVE  NoNewTurn
<1>1. UpOf[op] \in Internal /\ UpOf[op] # "turn"
  BY DEF UpOf, JobOps, Internal
<1> QED
  BY <1>1, SendNoNewTurn DEF StartJob

LEMMA CallPeerKeeps ==
  ASSUME Shape, Serial, Channels, NEW s \in Session, CallPeer(s)
  PROVE  Keeps(s) /\ NoNewTurn
<1>1. PICK p \in todo[s] \cap conn : CallUnsubscribe(s, p) \/ CallResubscribe(s, p)
  BY DEF CallPeer
<1>2. pc[s] \notin {"idle", "lock"}
  BY <1>1, Visiting
<1>3. tgt[s] \in Provider \cup {NoProvider}
  BY ShapeParts DEF RequestTypes
<1>4. CASE CallUnsubscribe(s, p)
  <2>1. CASE StopJobs(s) /\ ServerIdle
    BY <1>2, <2>1, StopJobsPc, CalmNoNewTurn DEF CallPeer, Keeps, ServerIdle, serverVars
  <2>2. CASE \E state : StartJob(s, p, "unsub", state, NoProvider)
    <3>1. NoNewTurn
      BY <1>1, <2>2, StartJobNoNewTurn DEF JobOps
    <3> QED
      BY <1>2, <2>2, <3>1 DEF CallPeer, StartJob, SendOnly, Keeps
  <2> QED
    BY <1>4, <2>1, <2>2 DEF CallUnsubscribe
<1>5. CASE CallResubscribe(s, p)
  <2>1. CASE Proceed(s, p) /\ ServerIdle
    BY <1>2, <2>1, ProceedPc, CalmNoNewTurn DEF CallPeer, Keeps, ServerIdle, serverVars
  <2>2. CASE StartJob(s, p, pc[s], "running", IF pc[s] = "resub" THEN tgt[s] ELSE NoProvider)
    <3>1. NoNewTurn
      BY <1>1, <1>3, <1>5, <2>2, StartJobNoNewTurn DEF JobOps, CallResubscribe
    <3> QED
      BY <1>2, <2>2, <3>1 DEF CallPeer, StartJob, SendOnly, Keeps
  <2> QED
    BY <1>5, <2>1, <2>2 DEF CallResubscribe
<1> QED
  BY <1>1, <1>4, <1>5

LEMMA PeerAnsweredKeeps ==
  ASSUME Shape, NEW s \in Session, PeerAnswered(s)
  PROVE  Keeps(s) /\ UNCHANGED <<subs, up, down>>
  BY ProceedPc, StopJobsPc, Visiting DEF PeerAnswered, Keeps, ServerIdle, serverVars

LEMMA TimeoutKeeps ==
  ASSUME Shape, Serial, Channels, NEW s \in Session, PeerCallTimeout(s) \/ CallTimeout(s)
  PROVE  Keeps(s) /\ NoNewTurn
<1>1. CASE PeerCallTimeout(s)
  BY <1>1, GotoPc, Visiting, CalmNoNewTurn DEF PeerCallTimeout, Keeps, ServerIdle, serverVars
<1>2. CASE CallTimeout(s)
  <2>1. Keeps(s)
    BY <1>2, GotoPc DEF CallTimeout, Waiting, Keeps
  <2>2. PICK op \in Internal : Abandon(s, op)
    BY <1>2 DEF CallTimeout, Internal
  <2> QED
    BY <1>2, <2>1, <2>2, KeepsSerial, AbandonNoNewTurn DEF CallTimeout
<1> QED
  BY <1>1, <1>2

-----------------------------------------------------------------------------
(* Every step of a handler *)

LEMMA LockThreadStep ==
  ASSUME LockInv, NEW s \in Session, LockThread(s)
  PROVE  Serial' /\ Channels'
<1>1. lock = NoSession /\ NoSession \notin Session
  BY AppServerAssumption DEF LockThread, Unlocked
<1>2. \A x \in Session \ {s} : pc'[x] = pc[x]
  BY GotoPc DEF LockThread, LockInv
<1>3. \A x \in Session : ~Inside(x)
  BY <1>1 DEF LockInv, Serial
<1>4. Serial'
  BY <1>1, <1>2, <1>3 DEF LockThread, LockInv, Serial, Inside, ServerIdle, serverVars
<1>5. Channels'
  BY CalmNoNewTurn, NoNewTurnChannels DEF LockThread, LockInv, ServerIdle, serverVars
<1> QED
  BY <1>4, <1>5

(* Letting go of the lock at the end of an operation.                        *)
LEMMA ReleaseStep ==
  ASSUME LockInv, NEW s \in Session, pc[s] \notin {"idle", "lock"}, Release(s),
         UNCHANGED <<fence, conn, opened, subs, up, down>>
  PROVE  Serial' /\ Channels'
<1>1. pc'[s] = "idle" /\ \A x \in Session \ {s} : pc'[x] = pc[x]
  BY ReturnPc DEF Release, LockInv
<1>2. \A x \in Session \ {s} : ~Inside(x)
  BY DEF LockInv, Serial, Inside
<1>3. ~fence[s]
  BY DEF LockInv, Serial
<1>4. Serial'
  BY <1>1, <1>2, <1>3 DEF LockInv, Serial, Inside
<1>5. Channels'
  BY CalmNoNewTurn, NoNewTurnChannels DEF LockInv
<1> QED
  BY <1>4, <1>5

LEMMA ForwardTurnStep ==
  ASSUME LockInv, NEW s \in Session, ForwardTurn(s)
  PROVE  Serial' /\ Channels'
<1>1. pc'[s] = "idle" /\ \A x \in Session \ {s} : pc'[x] = pc[x]
  BY ReturnPc DEF ForwardTurn, LockInv
<1>2. s \in conn /\ lock = s /\ ~fence[s]
  BY DEF ForwardTurn, Step, LockInv, Serial, Inside
<1>3. /\ fence' = [fence EXCEPT ![s] = TRUE] /\ fence \in [Session -> BOOLEAN]
      /\ UNCHANGED <<lock, conn, opened, subs, down>>
      /\ up' = [up EXCEPT ![s] = Append(@, Request("turn", tgt[s]))]
  BY ShapeParts DEF ForwardTurn, KeepFence, SendOnly, Send, FileTypes, LockInv
<1>4. Serial'
  BY <1>1, <1>2, <1>3 DEF LockInv, Serial, Inside
<1>5. /\ up \in [Session -> Seq(Message)] /\ conn \subseteq Session
      /\ Request("turn", tgt[s]) \in Message
  <2>1. tgt[s] \in Provider \cup {NoProvider}
    BY ShapeParts DEF LockInv, RequestTypes
  <2> QED
    BY <2>1, RequestType, ShapeParts DEF LockInv, ServerTypeOK, Desktop
<1>6. TurnsOK(s)'
  <2>1. ~HasTurn(up[s]) /\ ~HasTurn(down[s]) /\ OneTurn(up[s]) /\ OneTurn(down[s])
    BY <1>2 DEF LockInv, Channels, TurnsOK
  <2>2. up[s] \in Seq(Message) /\ up'[s] = Append(up[s], Request("turn", tgt[s]))
    BY <1>3, <1>5
  <2>3. OneTurn(up'[s])
    BY <1>5, <2>1, <2>2, TurnAppend
  <2> QED
    BY <1>3, <2>1, <2>3 DEF TurnsOK
<1>7. \A x \in conn \ {s} : TurnsOK(x)'
  BY <1>3, <1>5 DEF LockInv, Channels, TurnsOK
<1>8. \A x \in Session \ opened : up'[x] = up[x]
  BY <1>2, <1>3, <1>5 DEF LockInv, Channels
<1> QED
  BY <1>3, <1>4, <1>6, <1>7, <1>8 DEF LockInv, Channels

LEMMA EndOfHandlerStep ==
  ASSUME LockInv, NEW s \in Session, FinishCommand(s) \/ FailRequest(s)
  PROVE  Serial' /\ Channels'
<1>1. CASE FailRequest(s)
  BY <1>1, ReleaseStep DEF FailRequest, Step, ServerIdle, serverVars
<1>2. CASE FinishCommand(s) /\ Release(s)
  BY <1>2, ReleaseStep DEF FinishCommand, Step, ServerIdle, serverVars
<1>3. CASE FinishCommand(s) /\ ~Release(s)
  <2>1. Keeps(s)
    BY <1>3, GotoPc DEF FinishCommand, Step, Keeps, ServerIdle, serverVars, LockInv
  <2> QED
    BY <1>3, <2>1, KeepsCalm DEF FinishCommand, ServerIdle, serverVars, LockInv
<1> QED
  BY <1>1, <1>2, <1>3

LEMMA HandleStep ==
  ASSUME LockInv, NEW s \in Session, Handle(s)
  PROVE  Serial' /\ Channels'
<1>1. Shape /\ Serial /\ Channels
  BY DEF LockInv
<1>2. /\ {"askStatus", "route", "resume", "recoverResume", "forwardResume", "unsubscribe",
          "unarchive", "resanitize", "clearJournal", "repairUnarchive", "repairSanitize",
          "repairClear"} \subseteq Labels \ {"idle", "lock"}
      /\ {"list", "resume"} \subseteq Internal
  BY LabelList DEF Internal
<1>3. tgt[s] \in Provider \cup {NoProvider}
  BY <1>1, ShapeParts DEF RequestTypes
<1>4. ASSUME Keeps(s), NoNewTurn \/ UNCHANGED <<subs, up, down>>
      PROVE  Serial' /\ Channels'
  <2>1. UNCHANGED <<conn, opened, fence>>
    BY <1>4 DEF Keeps
  <2> QED
    BY <1>1, <1>4, <2>1, KeepsCalm, KeepsSerial, NoNewTurnChannels
<1>5. CASE PassStep(s)
  BY <1>1, <1>4, <1>5, CheckingKeeps, CallPeerKeeps, PeerAnsweredKeeps DEF PassStep
<1>6. CASE TurnStep(s)
  BY <1>1, <1>2, <1>4, <1>6, TurnKeeps, AskServerKeeps, ForwardTurnStep, EndOfHandlerStep
  DEF TurnStep, AskStatus, AskRoute
<1>7. CASE HandoffStep(s)
  BY <1>1, <1>2, <1>3, <1>4, <1>7, TurnKeeps, AskServerKeeps DEF HandoffStep, InternalResume
<1>8. CASE Recover(s)
  BY <1>1, <1>2, <1>4, <1>8, FilesKeeps, ArchiveRootKeeps DEF Recover
<1>9. CASE RepairJournal(s)
  BY <1>1, <1>2, <1>4, <1>9, FilesKeeps DEF RepairJournal
<1>10. CASE DesktopStep(s)
  BY <1>1, <1>2, <1>3, <1>4, <1>10, TurnKeeps, ForwardKeeps
  DEF DesktopStep, ForwardResume, ForwardUnsubscribe
<1> QED
  BY <1>5, <1>6, <1>7, <1>8, <1>9, <1>10, LockThreadStep, EndOfHandlerStep DEF Handle

-----------------------------------------------------------------------------
(* The reader of a session *)

LEMMA HearSerial ==
  ASSUME LockInv, NEW s \in Session, Hear(s)
  PROVE  Serial'
<1> DEFINE m == Head(down[s])
<1>1. /\ s \in conn /\ UNCHANGED <<conn, opened>>
      /\ m.op = "turn" => HasTurn(down[s])
  BY ShapeParts, TurnTail DEF Hear, LockInv, ServerTypeOK
<1>2. CASE HearTurn(s, m)
  <2>1. fence[s] /\ lock = s
    BY <1>1, <1>2 DEF HearTurn, LockInv, Channels, TurnsOK, Serial, Inside
  <2>2. UNCHANGED pc /\ fence' = [fence EXCEPT ![s] = FALSE] /\ fence \in [Session -> BOOLEAN]
    BY <1>2, ShapeParts DEF HearTurn, LiftFence, LockInv, FileTypes
  <2>3. \A x \in Session \ {s} : ~Inside(x)
    BY <2>1 DEF LockInv, Serial
  <2> QED
    BY <1>1, <2>1, <2>2, <2>3 DEF LockInv, Serial, Inside
<1>3. CASE HearDesktop(s, m)
  <2>1. pc'[s] = "idle" /\ \A x \in Session \ {s} : pc'[x] = pc[x]
    BY <1>3, ReturnPc DEF HearDesktop, Release, LockInv
  <2>2. UNCHANGED fence /\ ~fence[s] /\ \A x \in Session \ {s} : ~Inside(x)
    BY <1>3 DEF HearDesktop, LockInv, Serial, Inside
  <2> QED
    BY <1>1, <2>1, <2>2 DEF LockInv, Serial, Inside
<1>4. CASE HearList(s, m) \/ HearResume(s, m)
  <2>1. Keeps(s)
    BY <1>1, <1>4, GotoPc DEF HearList, Decide, HearResume, Keeps, LockInv
  <2> QED
    BY <2>1, KeepsSerial DEF LockInv
<1>5. CASE UNCHANGED <<lock, fence, pc>>
  BY <1>1, <1>5 DEF LockInv, Serial, Inside
<1> QED
  BY <1>2, <1>3, <1>4, <1>5 DEF Hear, HearNotice, HearJob, Swallow

LEMMA HearChannels ==
  ASSUME LockInv, NEW s \in Session, Hear(s)
  PROVE  Channels'
<1> DEFINE m == Head(down[s])
<1>1. /\ s \in conn /\ UNCHANGED <<conn, opened, subs, up>>
      /\ down' = [down EXCEPT ![s] = Tail(@)]
      /\ down \in [Session -> Seq(Message)] /\ conn \subseteq Session
      /\ fence \in [Session -> BOOLEAN]
  BY ShapeParts DEF Hear, LockInv, ServerTypeOK, FileTypes
<1>2. /\ \A x \in Session \ {s} : fence'[x] = fence[x]
      /\ fence'[s] = (fence[s] /\ m.op # "turn")
  <2>1. CASE HearTurn(s, m)
    BY <1>1, <2>1 DEF HearTurn, LiftFence
  <2>2. CASE ~HearTurn(s, m)
    BY <1>1, <2>2 DEF Hear, HearNotice, HearDesktop, HearList, HearResume, HearJob, Swallow,
                      Notice, Closings, Internal
  <2> QED
    BY <2>1, <2>2
<1>3. TurnsOK(s)'
  <2>1. /\ m.op = "turn" => HasTurn(down[s])
        /\ HasTurn(Tail(down[s])) => HasTurn(down[s])
        /\ OneTurn(down[s]) => OneTurn(Tail(down[s]))
        /\ OneTurn(down[s]) /\ m.op = "turn" => ~HasTurn(Tail(down[s]))
    BY <1>1, TurnTail DEF Hear
  <2>2. down'[s] = Tail(down[s]) /\ up'[s] = up[s]
    BY <1>1
  <2>3. TurnsOK(s)
    BY <1>1 DEF LockInv, Channels
  <2> QED
    BY <1>2, <2>1, <2>2, <2>3 DEF TurnsOK
<1>4. \A x \in conn \ {s} : TurnsOK(x)'
  BY <1>1, <1>2 DEF LockInv, Channels, TurnsOK
<1>5. \A x \in Session \ opened : down'[x] = down[x]
  BY <1>1 DEF LockInv, Channels
<1> QED
  BY <1>1, <1>3, <1>4, <1>5 DEF LockInv, Channels

-----------------------------------------------------------------------------
(* The app-server *)

(* The head of a channel is answered; its answer has its kind.               *)
LEMMA AnsweredChannels ==
  ASSUME LockInv, NEW s \in Session, up[s] # <<>>, NEW r \in Message,
         r.op = Head(up[s]).op, NEW n \in Notice, NEW to \in SUBSET conn,
         UNCHANGED <<conn, opened, fence>>, subs' \subseteq conn,
         up' = [up EXCEPT ![s] = Tail(@)], down' = Deliveries(s, r, n, to)
  PROVE  Channels'
<1>1. /\ up \in [Session -> Seq(Message)] /\ down \in [Session -> Seq(Message)]
      /\ conn \subseteq Session
  BY ShapeParts DEF LockInv, ServerTypeOK
<1>2. s \in opened
  BY DEF LockInv, Channels
<1>3. ASSUME NEW x \in conn PROVE TurnsOK(x)'
  <2>1. TurnsOK(x) /\ x \in Session
    BY <1>1, <1>3 DEF LockInv, Channels
  <2>2. /\ HasTurn(down'[x]) => HasTurn(down[x]) \/ (x = s /\ r.op = "turn")
        /\ OneTurn(down[x]) /\ (x = s /\ r.op = "turn" => ~HasTurn(down[x]))
             => OneTurn(down'[x])
    BY <1>1, <2>1, TurnDeliveries
  <2>3. CASE x # s
    <3>1. up'[x] = up[x] /\ fence'[x] = fence[x]
      BY <1>1, <2>1, <2>3
    <3> QED
      BY <2>1, <2>2, <2>3, <3>1 DEF TurnsOK
  <2>4. CASE x = s
    <3>1. /\ r.op = "turn" => HasTurn(up[s])
          /\ HasTurn(Tail(up[s])) => HasTurn(up[s])
          /\ OneTurn(up[s]) => OneTurn(Tail(up[s]))
          /\ OneTurn(up[s]) /\ r.op = "turn" => ~HasTurn(Tail(up[s]))
      BY <1>1, TurnTail
    <3>2. up'[s] = Tail(up[s]) /\ fence'[s] = fence[s]
      BY <1>1
    <3> QED
      BY <2>1, <2>2, <2>4, <3>1, <3>2 DEF TurnsOK
  <2> QED
    BY <2>3, <2>4
<1>4. ASSUME NEW x \in Session \ opened PROVE up'[x] = <<>> /\ down'[x] = <<>>
  <2>1. x # s /\ x \notin to /\ up[x] = <<>> /\ down[x] = <<>>
    BY <1>2, <1>4 DEF LockInv, Channels
  <2> QED
    BY <1>1, <1>4, <2>1 DEF Deliveries
<1> QED
  BY <1>3, <1>4 DEF LockInv, Channels

LEMMA PcSerial ==
  ASSUME Serial, UNCHANGED <<pc, lock, fence, conn>>
  PROVE  Serial'
  BY DEF Serial, Inside

LEMMA ServeStepLock ==
  ASSUME LockInv, NEW s \in Session, ServeStep(s)
  PROVE  Serial' /\ Channels'
<1> DEFINE m == Head(up[s])
<1>1. /\ ServerTypeOK /\ up[s] # <<>> /\ m \in Message
      /\ m.prov \in Provider \cup {NoProvider}
      /\ up' = [up EXCEPT ![s] = Tail(@)] /\ UNCHANGED <<conn, opened, fence, lock, pc>>
      /\ {} \in SUBSET conn /\ subs \in SUBSET conn /\ "closed" \in Notice /\ "started" \in Notice
  BY ShapeParts, TurnTail DEF ServeStep, Serve, LockInv, ServerTypeOK, Message, others,
                              handler, Channels, Notice, Closings
<1>2. PICK r \in Message, n \in Notice, to \in SUBSET conn :
        r.op = m.op /\ down' = Deliveries(s, r, n, to) /\ subs' \subseteq conn
  <2>1. CASE ServeResume(s, m)
    <3>1. Resumed(m.prov) \subseteq Provider
      BY <1>1, ResumedType
    <3>2. CASE archived
      <4>1. down' = Deliveries(s, Answer(m, FALSE, NoProvider, ""), "closed", {})
            /\ subs' = subs
        BY <2>1, <3>2 DEF ServeResume, Reply
      <4> QED
        BY <1>1, <4>1, AnswerType
    <3>3. CASE ~archived
      <4>1. rt' \in Provider \cup {NoProvider} /\ subs' \subseteq conn
        BY <1>1, <2>1, <3>1, <3>3 DEF ServeResume
      <4>2. down' = Deliveries(s, Answer(m, TRUE, rt', ""), "closed", {})
        BY <2>1, <3>3 DEF ServeResume, Reply
      <4> QED
        BY <1>1, <4>1, <4>2, AnswerType
    <3> QED
      BY <3>2, <3>3
  <2>2. CASE ServeUnsubscribe(s, m)
    BY <1>1, <2>2, AnswerType DEF ServeUnsubscribe, Reply
  <2>3. CASE ServeList(s, m)
    BY <1>1, <2>3, AnswerType DEF ServeList, Reply, Status, ServerTypeOK
  <2>4. CASE ServeTurn(s, m)
    BY <1>1, <2>4, AnswerType DEF ServeTurn, Reply
  <2> QED
    BY <2>1, <2>2, <2>3, <2>4 DEF ServeStep, Serve
<1> QED
  BY <1>1, <1>2, AnsweredChannels, PcSerial DEF LockInv

LEMMA ServeFaultLock ==
  ASSUME LockInv, NEW s \in Session, ServeFault(s)
  PROVE  Serial' /\ Channels'
<1>1. /\ up[s] # <<>> /\ Head(up[s]) \in Message
      /\ up' = [up EXCEPT ![s] = Tail(@)] /\ UNCHANGED <<conn, subs, opened, fence, lock, pc>>
      /\ {} \in SUBSET conn /\ subs \subseteq conn /\ "closed" \in Notice
      /\ down' = Deliveries(s, Answer(Head(up[s]), FALSE, NoProvider, ""), "closed", {})
  BY ShapeParts, TurnTail DEF ServeFault, ServeError, Reply, LockInv, ServerTypeOK, others,
                              handler, Channels, Notice, Closings
<1>2. /\ Answer(Head(up[s]), FALSE, NoProvider, "") \in Message
      /\ Answer(Head(up[s]), FALSE, NoProvider, "").op = Head(up[s]).op
  BY <1>1, AnswerType
<1> QED
  BY <1>1, <1>2, AnsweredChannels, PcSerial DEF LockInv

LEMMA ServerAloneLock ==
  ASSUME LockInv, TurnEnds \/ UnloadIdle
  PROVE  Serial' /\ Channels'
<1>1. UNCHANGED <<pc, lock, fence, conn, opened, subs, up>>
  BY DEF TurnEnds, UnloadIdle, EndTurn, Unload, others, handler
<1>2. /\ ClosedTo \in SUBSET conn /\ subs \in SUBSET conn
      /\ {"closed", "completed"} \subseteq Notice
  BY DEF LockInv, Channels, ClosedTo, Notice, Closings
<1>3. NoNewTurn
  <2>1. \/ down' = Deliveries(NoSession, Notification("completed"), "completed", subs)
        \/ down' = Deliveries(NoSession, Notification("closed"), "closed", ClosedTo)
    BY DEF TurnEnds, UnloadIdle, EndTurn, Unload
  <2> QED
    BY <1>1, <1>2, <2>1, AnnounceNoNewTurn DEF LockInv
<1> QED
  BY <1>1, <1>3, NoNewTurnChannels, PcSerial DEF LockInv

-----------------------------------------------------------------------------
(* Connections, requests and peers' timeouts *)

LEMMA OpenLock ==
  ASSUME LockInv, NEW s \in Session, Open(s)
  PROVE  Serial' /\ Channels'
<1>1. Len(<<>>) = 0
  OBVIOUS
<1>2. up[s] = <<>> /\ down[s] = <<>>
  BY DEF Open, LockInv, Channels
<1>3. ~HasTurn(<<>>) /\ OneTurn(<<>>)
  BY <1>1 DEF HasTurn, OneTurn, Has, Once
<1>4. TurnsOK(s)
  BY <1>2, <1>3 DEF TurnsOK
<1>5. Channels'
  BY <1>4 DEF Open, Connect, LockInv, Channels, TurnsOK
<1> QED
  BY <1>5 DEF Open, Connect, LockInv, Serial, Inside, handler

LEMMA CloseLock ==
  ASSUME LockInv, NEW s \in Session, Close(s)
  PROVE  Serial' /\ Channels'
<1>1. /\ pc \in [Session -> Labels] /\ fence \in [Session -> BOOLEAN]
      /\ up \in [Session -> Seq(Message)] /\ down \in [Session -> Seq(Message)]
      /\ conn \subseteq Session
  BY ShapeParts DEF LockInv, HandlerOK, HandlerTypes, FileTypes, ServerTypeOK
<1>2. /\ pc' = [pc EXCEPT ![s] = "idle"] /\ fence' = [fence EXCEPT ![s] = FALSE]
      /\ conn' = conn \ {s} /\ s \in conn /\ UNCHANGED opened
      /\ lock' = IF lock = s THEN NoSession ELSE lock
      /\ subs' = subs \ {s}
      /\ \A x \in Session \ {s} : up'[x] = up[x] /\ down'[x] = down[x]
  BY <1>1 DEF Close, Disconnect
<1>3. Serial'
  BY <1>1, <1>2 DEF LockInv, Serial, Inside
<1>4. \A x \in conn' : TurnsOK(x)'
  BY <1>1, <1>2 DEF LockInv, Channels, TurnsOK
<1> QED
  BY <1>2, <1>3, <1>4 DEF LockInv, Channels

LEMMA ReceiveLock ==
  ASSUME LockInv, NEW s \in Session, Receive(s)
  PROVE  Serial' /\ Channels'
<1>1. Channels'
  BY CalmNoNewTurn, NoNewTurnChannels DEF Receive, LockInv, ServerIdle, serverVars
<1>2. pc \in [Session -> Labels]
  BY ShapeParts DEF LockInv, HandlerOK, HandlerTypes
<1> QED
  BY <1>1, <1>2 DEF Receive, LockInv, Serial, Inside, ServerIdle, serverVars

LEMMA JobTimeoutLock ==
  ASSUME LockInv, NEW s \in Session, JobTimeout(s)
  PROVE  Serial' /\ Channels'
<1>1. PICK op \in Internal : Abandon(s, op)
  <2>1. \A o \in JobOps : UpOf[o] \in Internal
    BY DEF JobOps, UpOf, Internal
  <2> QED
    BY <2>1 DEF JobTimeout
<1>2. NoNewTurn
  BY <1>1, AbandonNoNewTurn DEF JobTimeout, LockInv
<1> QED
  BY <1>2, NoNewTurnChannels, PcSerial DEF JobTimeout, LockInv, handler

-----------------------------------------------------------------------------
(* The theorems *)

LEMMA LockInvInit == ASSUME Init PROVE LockInv
<1>1. \A s \in Session : up[s] = <<>> /\ down[s] = <<>> /\ ~fence[s] /\ pc[s] = "idle"
  BY DEF Init
<1>2. Serial
  BY <1>1 DEF Serial, Inside
<1>3. ~HasTurn(<<>>) /\ OneTurn(<<>>)
  <2>1. Len(<<>>) = 0
    OBVIOUS
  <2> QED
    BY <2>1 DEF HasTurn, OneTurn, Has, Once
<1>4. \A s \in Session : TurnsOK(s)
  BY <1>1, <1>3 DEF TurnsOK
<1>5. Channels
  BY <1>1, <1>4 DEF Init, Channels
<1> QED
  BY <1>2, <1>5, ShapeInit DEF LockInv

LEMMA LockInvStep == ASSUME LockInv, [Next]_vars PROVE LockInv'
<1>1. Shape'
  BY ShapeStep DEF LockInv
<1>2. CASE UNCHANGED vars
  <2>1. UNCHANGED <<pc, lock, fence, conn, opened, subs, up, down>>
    BY <1>2 DEF vars, serverVars, handler
  <2> QED
    BY <1>1, <2>1, PcSerial, CalmNoNewTurn, NoNewTurnChannels DEF LockInv
<1>3. ASSUME NEW s \in Session,
             \/ Open(s) \/ Close(s) \/ Receive(s)
             \/ Handle(s) \/ Hear(s) \/ Timeout(s)
             \/ ServeStep(s) \/ ServeFault(s)
      PROVE  Serial' /\ Channels'
  <2>1. CASE PeerCallTimeout(s) \/ CallTimeout(s)
    BY <2>1, TimeoutKeeps, KeepsSerial, NoNewTurnChannels DEF LockInv, Keeps
  <2> QED
    BY <1>3, <2>1, OpenLock, CloseLock, ReceiveLock, HandleStep, HearSerial, HearChannels,
       JobTimeoutLock, ServeStepLock, ServeFaultLock DEF Timeout
<1>4. CASE TurnEnds \/ UnloadIdle
  BY <1>1, <1>4, ServerAloneLock DEF LockInv
<1> QED
  BY <1>1, <1>2, <1>3, <1>4 DEF Next, LockInv

THEOREM LockInvariance == Spec => []LockInv
<1>1. Init => LockInv
  BY LockInvInit
<1>2. LockInv /\ [Next]_vars => LockInv'
  BY LockInvStep
<1> QED
  BY <1>1, <1>2, PTL DEF Spec

(* However many sessions share a thread, at most one operation is past the      *)
(* thread lock, and it is the one that holds it (LockThread).                   *)
THEOREM OneOperation == Spec => []LockDiscipline
<1>1. LockInv => LockDiscipline
  BY DEF LockInv, Serial, LockDiscipline
<1> QED
  BY <1>1, LockInvariance, PTL

(* From the write of turn/start upstream to its acknowledgement the session     *)
(* that wrote it holds the thread (handleTurnStart, handleUpstreamText).        *)
THEOREM FenceHeld == Spec => []FenceCoversAck
<1>1. LockInv => FenceCoversAck
  <2> SUFFICES ASSUME LockInv, NEW s \in conn, NEW m \in InFlight(s), m.op = "turn"
               PROVE  fence[s] /\ lock = s
    BY DEF FenceCoversAck
  <2>1. up[s] \in Seq(Message) /\ down[s] \in Seq(Message) /\ s \in Session
    BY ShapeParts DEF LockInv, ServerTypeOK
  <2>2. DOMAIN up[s] = 1..Len(up[s]) /\ DOMAIN down[s] = 1..Len(down[s])
    BY <2>1
  <2>3. HasTurn(up[s]) \/ HasTurn(down[s])
    BY <2>2, TurnAwaited DEF InFlight, HasTurn, Has
  <2> QED
    BY <2>1, <2>3 DEF LockInv, Channels, TurnsOK, Serial, Inside
<1> QED
  BY <1>1, LockInvariance, PTL

-----------------------------------------------------------------------------
(* The durable files of a thread across crashes: Handoff implements            *)
(* ThreadFiles.  That the journal is cleared only with the thread out of the   *)
(* archive depends on where the handler stands, so the invariant says of every *)
(* label what the files hold there; that nobody else changes them meanwhile is *)
(* the lock's doing (LockInv).                                                 *)


(* No journal is pending: the handler is past its repair, and has not yet    *)
(* saved a journal of its own or has cleared it.                             *)
Unrecorded == {"route", "routeWait", "sanitizeResume", "prepareHandoff", "prepareRecovery",
               "mark", "unsub", "stageUnsub", "sanitize", "resume", "resumeWait",
               "stageMismatch", "inspect", "stageRecovering", "saveJournal", "stageResub",
               "resub", "clearDirty", "prepareSame", "finish", "forwardResume"}

(* The journal is on disk: saved by this recovery and not yet cleared, or     *)
(* found by the repair.                                                       *)
Recorded == {"begin", "archive", "unarchive", "resanitize", "recoverResume",
             "recoverResumeWait", "end", "clearJournal", "abort", "prepareRepair",
             "repairBegin", "repairUnarchive", "repairSanitize", "repairResume",
             "repairEnd", "repairClear", "repairAbort"}

(* The unarchive has succeeded.                                              *)
Restored == {"resanitize", "recoverResume", "recoverResumeWait", "end", "clearJournal",
             "repairSanitize", "repairResume", "repairEnd", "repairClear"}

LabelFacts(s) ==
  /\ pc[s] \in Unrecorded => journal = NoProvider
  /\ pc[s] \in Recorded => journal # NoProvider
  /\ pc[s] \in Restored => ~archived
  /\ pc[s] = "saveJournal" => dirty # "none"

FilesInv ==
  /\ JournalCoversArchive /\ JournalImpliesMarked
  /\ \A s \in Session : LabelFacts(s)

-----------------------------------------------------------------------------
(* Steps that leave the files alone *)

Untouched == UNCHANGED <<dirty, journal, archived>>

(* A step from label l to label m that the label facts survive.              *)
Slides(l, m) ==
  /\ m \in Unrecorded => l \in Unrecorded
  /\ m \in Recorded => l \in Recorded
  /\ m \in Restored => l \in Restored
  /\ m = "saveJournal" => l = "saveJournal"

Mild == Untouched /\ \A x \in Session : Slides(pc[x], pc'[x])

LEMMA MildStep ==
  ASSUME FilesInv, Mild
  PROVE  FilesInv' /\ UNCHANGED Files!files
<1>1. UNCHANGED dirty /\ UNCHANGED journal /\ UNCHANGED archived
  BY DEF Mild, Untouched
<1>2. \A s \in Session : LabelFacts(s)'
  <2> SUFFICES ASSUME NEW s \in Session
      PROVE  LabelFacts(s)'
    OBVIOUS
  <2> QED
    BY <1>1 DEF FilesInv, LabelFacts, Mild, Slides
<1> QED
  BY <1>1, <1>2 DEF FilesInv, JournalCoversArchive, JournalImpliesMarked, Files!files

LEMMA FreeLabel ==
  ASSUME NEW l, NEW m,
         m \in {"idle", "lock", "prepareTurn", "prepare", "askStatus", "statusWait",
                "reconcile", "prepare2", "repair", "restore", "fail", "unsubscribe",
                "answer"} \/ m = l
  PROVE  Slides(l, m)
  BY DEF Slides, Unrecorded, Recorded, Restored

LEMMA DoneSlides == \A l \in Passes : Slides(l, DoneAt[l])
  BY DEF Passes, Checks, Begins, Ends, JobOps, DoneAt, Slides, Unrecorded, Recorded, Restored

LEMMA StopSlides == \A l \in DOMAIN StopAt : Slides(l, StopAt[l])
  BY DEF StopAt, Slides, Unrecorded, Recorded, Restored

LEMMA OneMove ==
  ASSUME NEW s \in Session, Untouched, \A x \in Session \ {s} : pc'[x] = pc[x],
         Slides(pc[s], pc'[s])
  PROVE  Mild
  BY FreeLabel DEF Mild

LEMMA GotoMild ==
  ASSUME Shape, NEW s \in Session, NEW label, Goto(s, label), Untouched,
         Slides(pc[s], label)
  PROVE  Mild
  BY GotoPc, OneMove

LEMMA StillMild ==
  ASSUME Untouched, UNCHANGED pc
  PROVE  Mild
  BY FreeLabel DEF Mild

LEMMA ProceedMild ==
  ASSUME Shape, NEW s \in Session, NEW p, Proceed(s, p), pc[s] \in Passes, Untouched
  PROVE  Mild
  BY GotoMild, StillMild, DoneSlides DEF Proceed

LEMMA StopMild ==
  ASSUME Shape, NEW s \in Session, Goto(s, StopAt[pc[s]]), pc[s] \in DOMAIN StopAt,
         Untouched
  PROVE  Mild
  BY GotoMild, StopSlides

-----------------------------------------------------------------------------
(* Passes *)

LEMMA AtPass ==
  ASSUME Shape, NEW s \in Session
  PROVE  /\ todo[s] # {} => pc[s] \in Passes
         /\ at[s] # NoSession => pc[s] \in JobOps /\ at[s] \in todo[s]
  BY ShapeParts DEF HandlerOK, PassOK

LEMMA CheckingMild ==
  ASSUME Shape, NEW s \in Session,
         SkipPeer(s) \/ CheckPeer(s) \/ ReconcilePeer(s) \/ BeginPeer(s) \/ EndPeer(s)
  PROVE  Mild
<1>0. UNCHANGED files /\ UNCHANGED archived
  BY DEF SkipPeer, CheckPeer, ReconcilePeer, BeginPeer, EndPeer, ServerIdle, serverVars
<1>1. Untouched
  BY <1>0 DEF files, Untouched
<1>2. CASE SkipPeer(s)
  BY <1>1, <1>2, AtPass, ProceedMild DEF SkipPeer
<1>3. CASE CheckPeer(s)
  BY <1>1, <1>3, StopAtType, StopMild, ProceedMild DEF CheckPeer
<1>4. CASE ReconcilePeer(s)
  BY <1>1, <1>4, StopAtType, StopMild, ProceedMild DEF ReconcilePeer
<1>5. CASE BeginPeer(s)
  BY <1>1, <1>5, StopAtType, StopMild, ProceedMild DEF BeginPeer, BeginRefused
<1>6. CASE EndPeer(s)
  BY <1>1, <1>6, StopMild, ProceedMild DEF EndPeer, EndRefused, Passes
<1> QED
  BY <1>2, <1>3, <1>4, <1>5, <1>6

LEMMA CallPeerMild ==
  ASSUME Shape, NEW s \in Session, CallPeer(s)
  PROVE  Mild
<1>1. PICK p \in todo[s] \cap conn : CallUnsubscribe(s, p) \/ CallResubscribe(s, p)
  BY DEF CallPeer
<1>2. UNCHANGED archived
  BY <1>1 DEF CallUnsubscribe, CallResubscribe, StartJob, SendOnly, ServerIdle, serverVars
<1>3. Untouched
  BY <1>2 DEF CallPeer, files, Untouched
<1>4. CASE CallUnsubscribe(s, p)
  BY <1>3, <1>4, StopAtType, StopMild, StillMild DEF CallUnsubscribe, StopJobs, StartJob
<1>5. CASE CallResubscribe(s, p)
  BY <1>3, <1>5, ProceedMild, StillMild, PassLabels
     DEF CallResubscribe, StartJob, JobOps
<1> QED
  BY <1>1, <1>4, <1>5

LEMMA PeerAnsweredMild ==
  ASSUME Shape, NEW s \in Session, PeerAnswered(s)
  PROVE  Mild
<1>1. Untouched
  BY DEF PeerAnswered, files, Untouched, ServerIdle, serverVars
<1>2. pc[s] \in JobOps
  BY AtPass DEF PeerAnswered
<1>3. CASE Proceed(s, at[s])
  BY <1>1, <1>2, <1>3, PassLabels, ProceedMild
<1>4. CASE StopJobs(s) /\ pc[s] # "restore"
  BY <1>1, <1>2, <1>4, StopAtType, StopMild DEF StopJobs, JobOps
<1> QED
  BY <1>3, <1>4 DEF PeerAnswered

LEMMA TimeoutMild ==
  ASSUME Shape, NEW s \in Session,
         PeerCallTimeout(s) \/ CallTimeout(s) \/ JobTimeout(s)
  PROVE  Mild
<1>1. CASE PeerCallTimeout(s)
  <2>1. Untouched
    BY <1>1 DEF PeerCallTimeout, files, Untouched, ServerIdle, serverVars
  <2> QED
    BY <1>1, <2>1, GotoMild, FreeLabel DEF PeerCallTimeout
<1>2. CASE CallTimeout(s)
  <2>1. Untouched
    BY <1>2 DEF CallTimeout, files, Untouched
  <2>2. PICK label : Goto(s, label) /\ Slides(pc[s], label)
    BY <1>2 DEF CallTimeout, Waiting, Slides, Unrecorded, Recorded, Restored
  <2> QED
    BY <2>1, <2>2, GotoMild
<1>3. CASE JobTimeout(s)
  BY <1>3, StillMild DEF JobTimeout, files, handler, Untouched
<1> QED
  BY <1>1, <1>2, <1>3

-----------------------------------------------------------------------------
(* Steps of a handler that leave the files alone *)

LEMMA TurnMild ==
  ASSUME Shape, NEW s \in Session, PrepareTurn(s) \/ DecideRoute(s) \/ Sanitize(s)
                                   \/ SanitizeResume(s) \/ Inspect(s)
  PROVE  Mild
<1>1. Untouched
  BY DEF PrepareTurn, DecideRoute, Sanitize, SanitizeResume, Inspect, files, Untouched,
         ServerIdle, serverVars
<1>2. PICK label : Goto(s, label) /\ Slides(pc[s], label)
  <2>1. CASE PrepareTurn(s)
    BY <2>1, FreeLabel DEF PrepareTurn
  <2>2. CASE DecideRoute(s)
    BY <2>2 DEF DecideRoute, Decide, Step, Slides, Unrecorded, Recorded, Restored
  <2>3. CASE Sanitize(s)
    BY <2>3 DEF Sanitize, Step, Slides, Unrecorded, Recorded, Restored
  <2>4. CASE SanitizeResume(s)
    BY <2>4 DEF SanitizeResume, Step, Slides, Unrecorded, Recorded, Restored
  <2>5. CASE Inspect(s)
    BY <2>5 DEF Inspect, Step, Slides, Unrecorded, Recorded, Restored
  <2> QED
    BY <2>1, <2>2, <2>3, <2>4, <2>5
<1> QED
  BY <1>1, <1>2, GotoMild

LEMMA ResanitizeMild ==
  ASSUME Shape, NEW s \in Session, NEW from, NEW then, NEW failed,
         Resanitize(s, from, then, failed), Slides(from, then), Slides(from, failed)
  PROVE  Mild
<1>1. Untouched
  BY DEF Resanitize, files, Untouched, ServerIdle, serverVars
<1> QED
  BY <1>1, GotoMild DEF Resanitize, Step

LEMMA AskServerMild ==
  ASSUME Shape, NEW s \in Session, NEW from, NEW then, NEW m,
         AskServer(s, from, then, m), Slides(from, then)
  PROVE  Mild
<1>1. Untouched
  BY DEF AskServer, SendOnly, files, Untouched
<1> QED
  BY <1>1, GotoMild DEF AskServer, Step

LEMMA AskingMild ==
  ASSUME Shape, NEW s \in Session, AskStatus(s) \/ AskRoute(s) \/ InternalResume(s)
  PROVE  Mild
<1>1. /\ Slides("askStatus", "statusWait") /\ Slides("route", "routeWait")
      /\ Slides("resume", "resumeWait") /\ Slides("recoverResume", "recoverResumeWait")
  BY DEF Slides, Unrecorded, Recorded, Restored
<1> QED
  BY <1>1, AskServerMild DEF AskStatus, AskRoute, InternalResume

LEMMA RepairResumeMild ==
  ASSUME Shape, NEW s \in Session, RepairResume(s)
  PROVE  Mild
<1>1. Untouched
  BY DEF RepairResume, RecoveryResume, files, Untouched, ServerIdle, serverVars
<1>2. Goto(s, "repairAbort") \/ Goto(s, "repairEnd")
  BY DEF RepairResume
<1>3. Slides(pc[s], "repairAbort") /\ Slides(pc[s], "repairEnd")
  BY DEF RepairResume, Step, Slides, Unrecorded, Recorded, Restored
<1> QED
  BY <1>1, <1>2, <1>3, GotoMild

LEMMA ForwardMild ==
  ASSUME Shape, NEW s \in Session, ForwardResume(s) \/ ForwardUnsubscribe(s)
  PROVE  Mild
<1>1. PICK from, m : Forward(s, from, m)
  BY DEF ForwardResume, ForwardUnsubscribe
<1>2. Untouched
  BY <1>1 DEF Forward, SendOnly, files, Untouched
<1> QED
  BY <1>1, <1>2, GotoMild, FreeLabel DEF Forward

LEMMA ReturnMild ==
  ASSUME Shape, NEW s \in Session, Return(s), Untouched
  PROVE  Mild
  BY ReturnPc, OneMove, FreeLabel

LEMMA EndMild ==
  ASSUME Shape, NEW s \in Session, ForwardTurn(s) \/ FinishCommand(s) \/ FailRequest(s)
                                   \/ LockThread(s)
  PROVE  Mild
<1>1. Untouched
  BY DEF ForwardTurn, FinishCommand, FailRequest, LockThread, SendOnly, files, Untouched,
         ServerIdle, serverVars
<1>2. CASE ForwardTurn(s)
  BY <1>1, <1>2, ReturnMild DEF ForwardTurn
<1>3. CASE FinishCommand(s)
  BY <1>1, <1>3, ReturnMild, GotoMild, FreeLabel DEF FinishCommand, Release
<1>4. CASE FailRequest(s)
  BY <1>1, <1>4, ReturnMild DEF FailRequest, Release
<1>5. CASE LockThread(s)
  BY <1>1, <1>5, GotoMild, FreeLabel DEF LockThread
<1> QED
  BY <1>2, <1>3, <1>4, <1>5

-----------------------------------------------------------------------------
(* Steps on the files: each is a step of ThreadFiles or leaves the files      *)
(* alone, and the holder of the lock arrives where the facts say.             *)

LEMMA HolderStep ==
  ASSUME Shape, Serial, FilesInv, NEW s \in Session, pc[s] \notin {"idle", "lock"},
         NEW label, Goto(s, label), LabelFacts(s)',
         JournalCoversArchive', JournalImpliesMarked'
  PROVE  FilesInv'
<1>1. \A x \in Session \ {s} : pc'[x] \in {"idle", "lock"}
  BY GotoPc DEF Serial, Inside
<1>2. \A x \in Session \ {s} : LabelFacts(x)'
  BY <1>1 DEF LabelFacts, Unrecorded, Recorded, Restored
<1> QED
  BY <1>2 DEF FilesInv

LEMMA LoadJournalFiles ==
  ASSUME Shape, Serial, FilesInv, NEW s \in Session, LoadJournal(s)
  PROVE  FilesInv' /\ UNCHANGED Files!files
<1>1. Untouched /\ pc[s] = "repair"
  BY DEF LoadJournal, Step, files, Untouched, ServerIdle, serverVars
<1>2. CASE Goto(s, "fail")
  BY <1>1, <1>2, GotoMild, FreeLabel, MildStep
<1>4. CASE Goto(s, "prepareRepair") /\ journal # NoProvider
  <2>1. LabelFacts(s)'
    BY <1>1, <1>4, GotoPc DEF LabelFacts, Unrecorded, Restored, Untouched
  <2>2. JournalCoversArchive' /\ JournalImpliesMarked'
    BY <1>1 DEF FilesInv, JournalCoversArchive, JournalImpliesMarked, Untouched
  <2> QED
    BY <1>1, <1>4, <2>1, <2>2, HolderStep DEF Untouched, Files!files
<1>3. CASE Goto(s, AfterRepair(s)) /\ journal = NoProvider
  <2>1. pc'[s] = AfterRepair(s)
    BY <1>3, GotoPc
  <2>2. AfterRepair(s) \in {"route", "sanitizeResume", "finish"}
    BY DEF AfterRepair
  <2>3. LabelFacts(s)'
    BY <1>1, <1>3, <2>1, <2>2
       DEF LabelFacts, Unrecorded, Recorded, Restored, Untouched
  <2>4. JournalCoversArchive' /\ JournalImpliesMarked'
    BY <1>1 DEF FilesInv, JournalCoversArchive, JournalImpliesMarked, Untouched
  <2> QED
    BY <1>1, <1>3, <2>3, <2>4, HolderStep DEF Untouched, Files!files
<1> QED
  BY <1>2, <1>3, <1>4 DEF LoadJournal

LEMMA SetDirtyStageFiles ==
  ASSUME Shape, Serial, FilesInv, NEW s \in Session, SetDirtyStage(s)
  PROVE  FilesInv' /\ (Files!Mark \/ UNCHANGED Files!files)
<1>1. /\ UNCHANGED journal /\ UNCHANGED archived
      /\ pc[s] \in DOMAIN StageOf /\ dirty' \in {dirty, StageOf[pc[s]]}
  BY DEF SetDirtyStage, ServerIdle, serverVars
<1>2. pc[s] \notin {"idle", "lock"} /\ StageOf[pc[s]] # "none" /\ journal = NoProvider
  BY <1>1, StageType DEF FilesInv, LabelFacts, StageOf, Unrecorded
<1>3. PICK label : /\ Goto(s, label)
                   /\ \/ label = AfterStage[pc[s]] /\ dirty' = StageOf[pc[s]]
                      \/ label = StageFailed[pc[s]]
  BY DEF SetDirtyStage
<1>4. /\ label \notin Recorded \cup Restored
      /\ label = "saveJournal" => label = AfterStage[pc[s]] /\ label # StageFailed[pc[s]]
  BY <1>1, <1>3 DEF StageOf, AfterStage, StageFailed, Recorded, Restored
<1>5. LabelFacts(s)'
  BY <1>1, <1>2, <1>3, <1>4, GotoPc DEF LabelFacts
<1>6. JournalCoversArchive' /\ JournalImpliesMarked'
  BY <1>1, <1>2 DEF FilesInv, JournalCoversArchive, JournalImpliesMarked
<1>7. Files!Mark \/ UNCHANGED Files!files
  BY <1>1, <1>2 DEF Files!Mark, Files!files
<1> QED
  BY <1>2, <1>3, <1>5, <1>6, <1>7, HolderStep

LEMMA SaveJournalFiles ==
  ASSUME Shape, Serial, FilesInv, NEW s \in Session, SaveJournal(s)
  PROVE  FilesInv' /\ (Files!Save \/ UNCHANGED Files!files)
<1>1. /\ UNCHANGED dirty /\ UNCHANGED archived /\ journal' \in {journal, tgt[s]}
      /\ pc[s] = "saveJournal"
  BY DEF SaveJournal, Step, Persist, ServerIdle, serverVars
<1>2. journal = NoProvider /\ ~archived /\ dirty # "none"
  BY <1>1 DEF FilesInv, LabelFacts, Unrecorded, JournalCoversArchive
<1>3. tgt[s] \in Provider \cup {NoProvider}
  BY ShapeParts DEF RequestTypes
<1>4. PICK label \in {"begin", "restore"} :
        Goto(s, label) /\ (label = "begin" => journal' # NoProvider)
  BY DEF SaveJournal, Persist
<1>5. LabelFacts(s)'
  BY <1>4, GotoPc DEF LabelFacts, Unrecorded, Recorded, Restored
<1>6. JournalCoversArchive' /\ JournalImpliesMarked'
  BY <1>1, <1>2 DEF JournalCoversArchive, JournalImpliesMarked
<1>7. Files!Save \/ UNCHANGED Files!files
  BY <1>1, <1>2, <1>3 DEF Files!Save, Files!files
<1> QED
  BY <1>1, <1>4, <1>5, <1>6, <1>7, HolderStep

LEMMA ArchiveRootFiles ==
  ASSUME Shape, Serial, FilesInv, NEW s \in Session, ArchiveRoot(s)
  PROVE  FilesInv' /\ (Files!Archive \/ UNCHANGED Files!files)
<1>1. UNCHANGED dirty /\ UNCHANGED journal /\ pc[s] = "archive"
  BY DEF ArchiveRoot, Step, files
<1>2. archived' \in {archived, TRUE}
  BY DEF ArchiveRoot, Archive, ServerIdle, serverVars
<1>3. journal # NoProvider
  BY <1>1 DEF FilesInv, LabelFacts, Recorded
<1>4. PICK label \in {"unarchive", "abort"} : Goto(s, label)
  BY DEF ArchiveRoot
<1>5. LabelFacts(s)'
  BY <1>1, <1>3, <1>4, GotoPc DEF LabelFacts, Unrecorded, Recorded, Restored
<1>6. JournalCoversArchive' /\ JournalImpliesMarked'
  BY <1>1, <1>3 DEF FilesInv, JournalCoversArchive, JournalImpliesMarked
<1>7. Files!Archive \/ UNCHANGED Files!files
  BY <1>1, <1>2, <1>3 DEF Files!Archive, Files!files
<1> QED
  BY <1>1, <1>4, <1>5, <1>6, <1>7, HolderStep

LEMMA UnarchiveAllFiles ==
  ASSUME Shape, Serial, FilesInv, NEW s \in Session, NEW from, NEW then, NEW failed,
         UnarchiveAll(s, from, then, failed), from \in Recorded,
         then \in {"resanitize", "repairSanitize"}, failed \in {"abort", "repairAbort"}
  PROVE  FilesInv' /\ (Files!Unarchive \/ UNCHANGED Files!files)
<1>1. UNCHANGED dirty /\ UNCHANGED journal /\ pc[s] = from
  BY DEF UnarchiveAll, Step, files
<1>2. archived' \in {archived, FALSE}
  BY DEF UnarchiveAll, Unarchive, ServerIdle, serverVars
<1>3. PICK label : /\ Goto(s, label)
                   /\ (label = then /\ ~archived') \/ label = failed
  BY DEF UnarchiveAll, Unarchive
<1>4. LabelFacts(s)'
  <2>1. journal # NoProvider
    BY <1>1 DEF FilesInv, LabelFacts
  <2> QED
    BY <1>1, <1>3, <2>1, GotoPc DEF LabelFacts, Unrecorded, Restored
<1>5. JournalCoversArchive' /\ JournalImpliesMarked'
  <2>1. CASE archived' = archived
    BY <1>1, <2>1 DEF FilesInv, JournalCoversArchive, JournalImpliesMarked
  <2>2. CASE archived' = FALSE
    BY <1>1, <2>2 DEF FilesInv, JournalCoversArchive, JournalImpliesMarked
  <2> QED
    BY <1>2, <2>1, <2>2
<1>6. Files!Unarchive \/ UNCHANGED Files!files
  BY <1>1, <1>2 DEF Files!Unarchive, Files!files
<1>7. from \notin {"idle", "lock"}
  BY DEF Recorded
<1> QED
  BY <1>1, <1>7, <1>3, <1>4, <1>5, <1>6, HolderStep

LEMMA ClearJournalFiles ==
  ASSUME Shape, Serial, FilesInv, NEW s \in Session, NEW then, NEW failed,
         NEW from \in {"clearJournal", "repairClear"},
         ClearJournal(s, from, then, failed),
         then \in {"stageResub", "route", "sanitizeResume", "finish"},
         failed \in {"restore", "fail"}
  PROVE  FilesInv' /\ (Files!Clear \/ UNCHANGED Files!files)
<1>1. /\ UNCHANGED dirty /\ UNCHANGED archived /\ journal' \in {journal, NoProvider}
      /\ pc[s] = from
  BY DEF ClearJournal, Step, ServerIdle, serverVars
<1>2. ~archived
  BY <1>1 DEF FilesInv, LabelFacts, Restored
<1>3. PICK label : /\ Goto(s, label)
                   /\ (label = then /\ journal' = NoProvider) \/ label = failed
  BY DEF ClearJournal
<1>4. LabelFacts(s)'
  BY <1>3, GotoPc DEF LabelFacts, Unrecorded, Recorded, Restored
<1>5. JournalCoversArchive' /\ JournalImpliesMarked'
  BY <1>1, <1>2 DEF FilesInv, JournalCoversArchive, JournalImpliesMarked
<1>6. Files!Clear \/ UNCHANGED Files!files
  BY <1>1, <1>2 DEF Files!Clear, Files!files
<1> QED
  BY <1>1, <1>3, <1>4, <1>5, <1>6, HolderStep

LEMMA ClearDirtyFiles ==
  ASSUME Shape, Serial, FilesInv, NEW s \in Session, ClearDirty(s)
  PROVE  FilesInv' /\ (Files!Unmark \/ UNCHANGED Files!files)
<1>1. /\ UNCHANGED journal /\ UNCHANGED archived /\ dirty' \in {dirty, "none"}
      /\ pc[s] = "clearDirty"
  BY DEF ClearDirty, Step, ServerIdle, serverVars
<1>2. journal = NoProvider
  BY <1>1 DEF FilesInv, LabelFacts, Unrecorded
<1>3. PICK label \in {"forwardResume", "finish", "restore", "fail"} : Goto(s, label)
  BY DEF ClearDirty
<1>4. LabelFacts(s)'
  BY <1>1, <1>2, <1>3, GotoPc DEF LabelFacts, Recorded, Restored
<1>5. JournalCoversArchive' /\ JournalImpliesMarked'
  BY <1>1, <1>2 DEF FilesInv, JournalCoversArchive, JournalImpliesMarked
<1>6. Files!Unmark \/ UNCHANGED Files!files
  BY <1>1, <1>2 DEF Files!Unmark, Files!files
<1> QED
  BY <1>1, <1>3, <1>4, <1>5, <1>6, HolderStep

-----------------------------------------------------------------------------
(* Steps of nobody's handler *)

LEMMA SessionMild ==
  ASSUME Shape, NEW s \in Session, Open(s) \/ Close(s) \/ Receive(s)
  PROVE  Mild
<1>1. Untouched
  BY DEF Open, Close, Receive, Connect, Disconnect, files, Untouched, ServerIdle,
         serverVars
<1>2. CASE Open(s)
  BY <1>1, <1>2, StillMild DEF Open, handler
<1>3. CASE Close(s)
  BY <1>1, <1>3, ShapeParts, OneMove, FreeLabel DEF Close, HandlerOK, HandlerTypes
<1>4. CASE Receive(s)
  BY <1>1, <1>4, ShapeParts, OneMove, FreeLabel DEF Receive, HandlerOK, HandlerTypes
<1> QED
  BY <1>2, <1>3, <1>4

LEMMA HearMild ==
  ASSUME Shape, NEW s \in Session, Hear(s)
  PROVE  Mild
<1>1. Untouched
  BY DEF Hear, files, Untouched
<1>2. PICK m : HearNotice(s, m) \/ HearTurn(s, m) \/ HearDesktop(s, m) \/ HearList(s, m)
               \/ HearResume(s, m) \/ HearJob(s, m) \/ Swallow(m)
  BY DEF Hear
<1>3. CASE HearNotice(s, m) \/ HearTurn(s, m) \/ HearJob(s, m) \/ Swallow(m)
  BY <1>1, <1>3, StillMild DEF HearNotice, HearTurn, HearJob, Swallow
<1>4. CASE HearDesktop(s, m)
  BY <1>1, <1>4, ReturnMild DEF HearDesktop, Release
<1>5. CASE HearList(s, m)
  <2>1. PICK label : Goto(s, label) /\ Slides(pc[s], label)
    BY <1>5 DEF HearList, Decide, Slides, Unrecorded, Recorded, Restored
  <2> QED
    BY <1>1, <2>1, GotoMild
<1>6. CASE HearResume(s, m)
  <2>1. PICK label : Goto(s, label) /\ Slides(pc[s], label)
    BY <1>6 DEF HearResume, Slides, Unrecorded, Recorded, Restored
  <2> QED
    BY <1>1, <2>1, GotoMild
<1> QED
  BY <1>2, <1>3, <1>4, <1>5, <1>6

LEMMA ServerMild ==
  ASSUME \/ \E s \in Session : ServeStep(s) \/ ServeFault(s)
         \/ TurnEnds \/ UnloadIdle
  PROVE  Mild
<1>1. UNCHANGED files /\ UNCHANGED handler
  BY DEF ServeStep, ServeFault, TurnEnds, UnloadIdle, others
<1>2. UNCHANGED archived
  BY DEF ServeStep, ServeFault, TurnEnds, UnloadIdle, Serve, ServeResume,
         ServeUnsubscribe, ServeList, ServeTurn, ServeError, EndTurn, Unload
<1> QED
  BY <1>1, <1>2, StillMild DEF files, handler, Untouched

-----------------------------------------------------------------------------
(* The invariant, and the refinement *)

LEMMA RecoverFiles ==
  ASSUME Shape, Serial, FilesInv, NEW s \in Session, Recover(s)
  PROVE  FilesInv' /\ [Files!Next]_Files!files
<1>1. CASE Inspect(s)
  BY <1>1, TurnMild, MildStep
<1>2. CASE SaveJournal(s)
  BY <1>2, SaveJournalFiles DEF Files!Next
<1>3. CASE ArchiveRoot(s)
  BY <1>3, ArchiveRootFiles DEF Files!Next
<1>4. CASE UnarchiveAll(s, "unarchive", "resanitize", "abort")
  BY <1>4, UnarchiveAllFiles DEF Files!Next, Recorded
<1>5. CASE Resanitize(s, "resanitize", "recoverResume", "abort")
  <2>1. Slides("resanitize", "recoverResume") /\ Slides("resanitize", "abort")
    BY DEF Slides, Unrecorded, Recorded, Restored
  <2> QED
    BY <1>5, <2>1, ResanitizeMild, MildStep
<1>6. CASE ClearJournal(s, "clearJournal", "stageResub", "restore")
  BY <1>6, ClearJournalFiles DEF Files!Next
<1> QED
  BY <1>1, <1>2, <1>3, <1>4, <1>5, <1>6 DEF Recover

LEMMA RepairFiles ==
  ASSUME Shape, Serial, FilesInv, NEW s \in Session, RepairJournal(s)
  PROVE  FilesInv' /\ [Files!Next]_Files!files
<1>1. CASE LoadJournal(s)
  BY <1>1, LoadJournalFiles
<1>2. CASE UnarchiveAll(s, "repairUnarchive", "repairSanitize", "repairAbort")
  BY <1>2, UnarchiveAllFiles DEF Files!Next, Recorded
<1>3. CASE Resanitize(s, "repairSanitize", "repairResume", "repairAbort")
  <2>1. Slides("repairSanitize", "repairResume") /\ Slides("repairSanitize", "repairAbort")
    BY DEF Slides, Unrecorded, Recorded, Restored
  <2> QED
    BY <1>3, <2>1, ResanitizeMild, MildStep
<1>4. CASE RepairResume(s)
  BY <1>4, RepairResumeMild, MildStep
<1>5. CASE ClearJournal(s, "repairClear", AfterRepair(s), "fail")
  <2>1. AfterRepair(s) \in {"route", "sanitizeResume", "finish"}
    BY DEF AfterRepair
  <2> QED
    BY <1>5, <2>1, ClearJournalFiles DEF Files!Next
<1> QED
  BY <1>1, <1>2, <1>3, <1>4, <1>5 DEF RepairJournal

LEMMA HandleFiles ==
  ASSUME Shape, Serial, FilesInv, NEW s \in Session, Handle(s)
  PROVE  FilesInv' /\ [Files!Next]_Files!files
<1>1. CASE SetDirtyStage(s)
  BY <1>1, SetDirtyStageFiles DEF Files!Next
<1>2. CASE ClearDirty(s)
  BY <1>2, ClearDirtyFiles DEF Files!Next
<1>3. CASE Mild
  BY <1>3, MildStep
<1>4. PassStep(s) => Mild
  BY CheckingMild, CallPeerMild, PeerAnsweredMild DEF PassStep
<1>5. TurnStep(s) => Mild
  BY TurnMild, AskingMild, EndMild DEF TurnStep
<1>6. HandoffStep(s) => Mild \/ SetDirtyStage(s) \/ ClearDirty(s)
  BY TurnMild, AskingMild DEF HandoffStep
<1>7. DesktopStep(s) \/ FailRequest(s) \/ LockThread(s) => Mild
  BY TurnMild, ForwardMild, EndMild DEF DesktopStep
<1> QED
  BY <1>1, <1>2, <1>3, <1>4, <1>5, <1>6, <1>7, RecoverFiles, RepairFiles DEF Handle

LEMMA FilesInit == ASSUME Init PROVE FilesInv /\ Files!Init
<1>1. FilesInv
  BY DEF Init, FilesInv, LabelFacts, JournalCoversArchive, JournalImpliesMarked,
         Unrecorded, Recorded, Restored
<1>2. Files!Init
  BY DEF Init, Files!Init
<1> QED
  BY <1>1, <1>2

LEMMA FilesStep ==
  ASSUME LockInv, FilesInv, [Next]_vars
  PROVE  FilesInv' /\ [Files!Next]_Files!files
<1>0. Shape /\ Serial
  BY DEF LockInv
<1>1. CASE Mild
  BY <1>1, MildStep
<1>2. ASSUME NEW s \in Session, Handle(s)
      PROVE  FilesInv' /\ [Files!Next]_Files!files
  BY <1>0, <1>2, HandleFiles
<1>3. ASSUME NEW s \in Session,
             \/ Open(s) \/ Close(s) \/ Receive(s) \/ Hear(s) \/ Timeout(s)
             \/ ServeStep(s) \/ ServeFault(s)
      PROVE  Mild
  BY <1>0, <1>3, SessionMild, HearMild, TimeoutMild, ServerMild DEF Timeout
<1>4. CASE TurnEnds \/ UnloadIdle
  BY <1>1, <1>4, ServerMild
<1>5. CASE UNCHANGED vars
  BY <1>1, <1>5, StillMild DEF vars, serverVars, files, handler, Untouched
<1> QED
  BY <1>1, <1>2, <1>3, <1>4, <1>5 DEF Next

(* The files keep what the handlers rely on at every label, for any number of *)
(* sessions, requests and failures.                                           *)
THEOREM FilesInvariance == Spec => []FilesInv
<1>1. Init => FilesInv
  BY FilesInit
<1>2. LockInv /\ FilesInv /\ [Next]_vars => FilesInv'
  BY FilesStep
<1> QED
  BY <1>1, <1>2, LockInvariance, PTL DEF Spec

(* An archived thread has a journal and a journal has a marker, in every       *)
(* reachable state: whoever comes after a crash finds what must be undone      *)
(* (recoverProviderMismatch, repairRecoveryJournal).                           *)
THEOREM CrashLeavesTrace == Spec => [](JournalCoversArchive /\ JournalImpliesMarked)
<1>1. FilesInv => JournalCoversArchive /\ JournalImpliesMarked
  BY DEF FilesInv
<1> QED
  BY <1>1, FilesInvariance, PTL

(* Handoff implements ThreadFiles: marker, journal and archive change only in  *)
(* the order that keeps the thread recoverable.                                *)
THEOREM Recoverable == Spec => FilesRecoverable
<1>1. Init => Files!Init
  BY FilesInit
<1>2. LockInv /\ FilesInv /\ [Next]_vars => [Files!Next]_Files!files
  BY FilesStep
<1> QED
  BY <1>1, <1>2, LockInvariance, FilesInvariance, PTL
     DEF Spec, FilesRecoverable, Files!Spec
==============================================================================
