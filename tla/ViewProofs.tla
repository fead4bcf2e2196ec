----------------------------- MODULE ViewProofs ------------------------------
(***************************************************************************)
(* Why a handoff leaves every covered view of Handoff subscribed, and why  *)
(* the route a covered view has cached is the runtime's.                   *)
(*                                                                         *)
(* A session learns of its own subscription, and of the runtime, late:     *)
(* from answers that may have crossed calls of a pass its caller has long  *)
(* given up.  What saves it is the order of the messages on its two        *)
(* channels, so the module first says how each step changes that order,    *)
(* then proves what a session knows of its subscription (ViewInv), and     *)
(* from that what it knows of the route (RouteInv).                        *)
(***************************************************************************)
EXTENDS PeerProofs

-----------------------------------------------------------------------------
(* Messages by what they mean for the subscription of their session *)

CallMessages == {m \in Message : m.op \notin Notice}

Backs     == {m \in Message : m.op \in {"resume", "jresub", "jrestore"} /\ m.live}
PeerBacks == {m \in Message : m.op \in {"jresub", "jrestore"} /\ m.live}
GoodBacks == {m \in Backs : m.ok}

Offs     == {m \in Message : m.op = "junsub"}
LiveOffs == {m \in Offs : m.live}
DeadOffs == {m \in Offs : ~m.live}
Left     == {m \in LiveOffs : m.tag = "unsubscribed"}    \* it was subscribed
Away     == {m \in LiveOffs : m.ok /\ m.tag # "unsubscribed"}

Opens   == {m \in Message : m.op = "dresume"}
Granted == {m \in Opens : m.ok}
Shuts   == {m \in Message : m.op = "dunsub"}
Shut    == {m \in Shuts : m.ok}

Lists == {m \in Message : m.op = "list" /\ m.live /\ m.ok}    \* the runtime seen

LEMMA KindsAreCalls ==
  /\ Backs \subseteq CallMessages /\ PeerBacks \subseteq CallMessages
  /\ GoodBacks \subseteq CallMessages /\ Offs \subseteq CallMessages
  /\ LiveOffs \subseteq CallMessages /\ DeadOffs \subseteq CallMessages
  /\ Left \subseteq CallMessages /\ Away \subseteq CallMessages
  /\ Opens \subseteq CallMessages /\ Granted \subseteq CallMessages /\ Shut \subseteq CallMessages
  /\ Lists \subseteq CallMessages
BY DEF Backs, PeerBacks, GoodBacks, Offs, LiveOffs, DeadOffs, Left, Away, Opens, Granted, Shut, Shuts,
       Lists, CallMessages, Notice, Closings

-----------------------------------------------------------------------------
(* The order of the messages in a channel *)

Free(q, A) == \A i \in 1..Len(q) : q[i] \notin A
NoneAfter(q, A, B) == \A i, j \in 1..Len(q) : i < j /\ q[i] \in A => q[j] \notin B

(* A channel r that is q without its first message, q and m, or just q, as    *)
(* far as calls go.                                                          *)
Shorter(q, r) ==
  /\ \A A : Free(q, A) <=> Head(q) \notin A /\ Free(r, A)
  /\ \A A, B : NoneAfter(q, A, B) <=> NoneAfter(r, A, B) /\ (Head(q) \in A => Free(r, B))

Longer(q, m, r) ==
  /\ \A A \in SUBSET CallMessages : Free(r, A) <=> Free(q, A) /\ m \notin A
  /\ \A A, B \in SUBSET CallMessages :
       NoneAfter(r, A, B) <=> NoneAfter(q, A, B) /\ (m \in B => Free(q, A))

Alike(q, r) ==
  /\ \A A \in SUBSET CallMessages : Free(r, A) <=> Free(q, A)
  /\ \A A, B \in SUBSET CallMessages : NoneAfter(r, A, B) <=> NoneAfter(q, A, B)

LEMMA FreeOrder ==
  ASSUME NEW q, NEW A, NEW B, Free(q, A) \/ Free(q, B)
  PROVE  NoneAfter(q, A, B)
BY DEF Free, NoneAfter

LEMMA FreeSubset ==
  ASSUME NEW q, NEW B, NEW A \in SUBSET B, Free(q, B)
  PROVE  Free(q, A)
BY DEF Free

LEMMA TailShorter ==
  ASSUME NEW q \in Seq(Message), q # <<>>
  PROVE  Shorter(q, Tail(q)) /\ Tail(q) \in Seq(Message) /\ Head(q) \in Message
<1> DEFINE r == Tail(q)
<1>1. /\ Len(q) \in Nat /\ Len(q) >= 1 /\ Head(q) = q[1] /\ Len(r) = Len(q) - 1
      /\ \A i \in 1..Len(r) : i + 1 \in 1..Len(q) /\ r[i] = q[i + 1]
  OBVIOUS
<1>2. /\ r \in Seq(Message) /\ Head(q) \in Message
      /\ \A i \in 1..Len(q) : i = 1 \/ (i - 1 \in 1..Len(r) /\ q[i] = r[i - 1])
  <2>1. ASSUME NEW i \in 1..Len(q), i # 1
        PROVE  i - 1 \in 1..Len(r) /\ q[i] = r[i - 1]
    <3>1. i - 1 \in 1..Len(r) /\ (i - 1) + 1 = i
      BY <1>1, <2>1
    <3> QED
      BY <1>1, <3>1
  <2>2. r \in Seq(Message) /\ Head(q) \in Message
    OBVIOUS
  <2> QED
    BY <2>1, <2>2
<1> HIDE DEF r
<1>3. ASSUME NEW A
      PROVE  Free(q, A) <=> Head(q) \notin A /\ Free(r, A)
  BY <1>1, <1>2 DEF Free
<1>4. ASSUME NEW A, NEW B
      PROVE  NoneAfter(q, A, B) <=> NoneAfter(r, A, B) /\ (Head(q) \in A => Free(r, B))
  <2>1. ASSUME NoneAfter(q, A, B)
        PROVE  NoneAfter(r, A, B) /\ (Head(q) \in A => Free(r, B))
    <3>1. ASSUME NEW i \in 1..Len(r), NEW j \in 1..Len(r), i < j, r[i] \in A
          PROVE  r[j] \notin B
      <4>1. /\ i + 1 \in 1..Len(q) /\ j + 1 \in 1..Len(q) /\ i + 1 < j + 1
            /\ q[i + 1] = r[i] /\ q[j + 1] = r[j]
        BY <1>1, <3>1
      <4> QED
        BY <2>1, <3>1, <4>1 DEF NoneAfter
    <3>2. ASSUME Head(q) \in A, NEW j \in 1..Len(r)
          PROVE  r[j] \notin B
      <4>1. j + 1 \in 1..Len(q) /\ 1 < j + 1 /\ q[j + 1] = r[j] /\ 1 \in 1..Len(q)
        BY <1>1, <3>2
      <4> QED
        BY <1>1, <2>1, <3>2, <4>1 DEF NoneAfter
    <3> QED
      BY <3>1, <3>2 DEF NoneAfter, Free
  <2>2. ASSUME NoneAfter(r, A, B), Head(q) \in A => Free(r, B),
               NEW i \in 1..Len(q), NEW j \in 1..Len(q), i < j, q[i] \in A
        PROVE  q[j] \notin B
    <3>1. j - 1 \in 1..Len(r) /\ q[j] = r[j - 1]
      BY <1>1, <1>2, <2>2
    <3>2. CASE i = 1
      BY <1>1, <2>2, <3>1, <3>2 DEF Free
    <3>3. CASE i # 1
      <4>1. i - 1 \in 1..Len(r) /\ q[i] = r[i - 1] /\ i - 1 < j - 1
        BY <1>1, <1>2, <2>2, <3>3
      <4> QED
        BY <2>2, <3>1, <4>1 DEF NoneAfter
    <3> QED
      BY <3>2, <3>3
  <2> QED
    BY <2>1, <2>2 DEF NoneAfter
<1> QED
  BY <1>2, <1>3, <1>4 DEF r, Shorter

LEMMA AppendOrder ==
  ASSUME NEW q \in Seq(Message), NEW m \in Message, NEW A, NEW B
  PROVE  /\ Free(Append(q, m), A) <=> Free(q, A) /\ m \notin A
         /\ NoneAfter(Append(q, m), A, B) <=> NoneAfter(q, A, B) /\ (m \in B => Free(q, A))
<1> DEFINE r == Append(q, m)
<1>1. /\ Len(q) \in Nat /\ Len(r) = Len(q) + 1 /\ r[Len(q) + 1] = m
      /\ \A i \in 1..Len(q) : i \in 1..Len(r) /\ r[i] = q[i]
      /\ \A i \in 1..Len(r) : i \in 1..Len(q) \/ i = Len(q) + 1
      /\ Len(q) + 1 \in 1..Len(r)
  OBVIOUS
<1> HIDE DEF r
<1>2. Free(r, A) <=> Free(q, A) /\ m \notin A
  BY <1>1 DEF Free
<1>3. ASSUME NoneAfter(r, A, B)
      PROVE  NoneAfter(q, A, B) /\ (m \in B => Free(q, A))
  <2>1. \A i \in 1..Len(q) : i < Len(q) + 1
    BY <1>1
  <2> QED
    BY <1>1, <1>3, <2>1 DEF NoneAfter, Free
<1>4. ASSUME NoneAfter(q, A, B), m \in B => Free(q, A),
             NEW i \in 1..Len(r), NEW j \in 1..Len(r), i < j, r[i] \in A
      PROVE  r[j] \notin B
  <2>1. i \in 1..Len(q)
    BY <1>1, <1>4
  <2>2. CASE j \in 1..Len(q)
    BY <1>1, <1>4, <2>1, <2>2 DEF NoneAfter
  <2>3. CASE j = Len(q) + 1
    BY <1>1, <1>4, <2>1, <2>3 DEF Free
  <2> QED
    BY <1>1, <2>2, <2>3
<1> QED
  BY <1>2, <1>3, <1>4 DEF r, NoneAfter

LEMMA AppendLonger ==
  ASSUME NEW q \in Seq(Message), NEW m \in Message
  PROVE  Longer(q, m, Append(q, m)) /\ Append(q, m) \in Seq(Message)
BY AppendOrder DEF Longer

(* A delivery appends the answer to the channel of its session; the           *)
(* notification counts for nothing.                                           *)
LEMMA DeliveredOrder ==
  ASSUME down \in [Session -> Seq(Message)], NEW s, NEW r \in Message, NEW n \in Notice, NEW to,
         down' = Deliveries(s, r, n, to), NEW x \in Session
  PROVE  IF x = s /\ s \in conn THEN Longer(down[x], r, down'[x]) ELSE Alike(down[x], down'[x])
<1> DEFINE q == IF x = s /\ s \in conn THEN Append(down[x], r) ELSE down[x]
           d == IF x \in to THEN Append(q, Notification(n)) ELSE q
<1>1. /\ Notification(n) \in Message /\ Notification(n).op = n
      /\ \A A \in SUBSET CallMessages : Notification(n) \notin A
  <2>1. Notification(n).op = n
    BY DEF Notification, Request
  <2> QED
    BY <2>1, NotificationType DEF CallMessages
<1>2. down[x] \in Seq(Message)
  OBVIOUS
<1>3. q \in Seq(Message)
  BY <1>2, AppendLonger
<1>4. d = down'[x]
  <2>1. q = down[x] \o (IF x = s /\ s \in conn THEN <<r>> ELSE <<>>)
    <3>1. CASE x = s /\ s \in conn
      BY <1>2, <3>1
    <3>2. CASE ~(x = s /\ s \in conn)
      BY <1>2, <3>2
    <3> QED
      BY <3>1, <3>2
  <2>2. d = q \o (IF x \in to THEN <<Notification(n)>> ELSE <<>>)
    <3> HIDE DEF q
    <3> QED
      BY <1>3, <1>1
  <2> QED
    BY <2>1, <2>2 DEF Deliveries
<1>5. IF x = s /\ s \in conn THEN Longer(down[x], r, q) ELSE Alike(down[x], q)
  BY <1>2, AppendLonger DEF Alike
<1> HIDE DEF q
<1>6. Alike(q, d)
  BY <1>1, <1>3, AppendLonger DEF Longer, Alike
<1> HIDE DEF d
<1>7. CASE x = s /\ s \in conn
  BY <1>4, <1>5, <1>6, <1>7 DEF Longer, Alike
<1>8. CASE ~(x = s /\ s \in conn)
  BY <1>4, <1>5, <1>6, <1>8 DEF Alike
<1> QED
  BY <1>7, <1>8

(* Dropping the call op only takes messages out of sets of live messages.     *)
Dull(m, op) == IF m.op = op THEN [m EXCEPT !.live = FALSE] ELSE m

LEMMA DroppedOrder ==
  ASSUME NEW q \in Seq(Message), NEW op, NEW A, NEW B, NEW C, NEW D,
         \A m \in Message : (Dull(m, op) \in A => m \in C) /\ (Dull(m, op) \in B => m \in D)
  PROVE  /\ Free(q, C) => Free(Dropped(q, op), A)
         /\ NoneAfter(q, C, D) => NoneAfter(Dropped(q, op), A, B)
<1>1. /\ Len(Dropped(q, op)) = Len(q) /\ DOMAIN q = 1..Len(q)
      /\ \A i \in 1..Len(q) : q[i] \in Message
  BY DroppedType
<1>2. \A i \in 1..Len(q) : Dropped(q, op)[i] = Dull(q[i], op)
  BY <1>1 DEF Dropped, Dull
<1> QED
  BY <1>1, <1>2 DEF Free, NoneAfter

-----------------------------------------------------------------------------
(* What a session can rely on about its own subscription *)

(* A covered view that is not subscribed is marked, or will be by the answer  *)
(* to an unsubscribe that is still on its way.                                *)
Known(x) ==
  Covered(x) => \/ x \in subs \/ det[x] \/ job[x].unsub = "subscribed"
                \/ ~Free(down[x], Left)

(* A resubscription whose answer will clear the mark still stands when it is  *)
(* heard, or the news that it was undone follows.                             *)
Standing(x) ==
  Covered(x) => \/ x \in subs \/ Free(down[x], GoodBacks)
                \/ ~Free(down[x], Left) /\ NoneAfter(down[x], Left, GoodBacks)

(* An unsubscribe nobody waits for any more is covered by the mark, and every *)
(* resubscription under way comes behind it.                                  *)
Late(x) ==
  Covered(x) /\ ~Free(up[x], DeadOffs) =>
    det[x] /\ Free(down[x], Backs) /\ NoneAfter(up[x], Backs, DeadOffs)

(* No unsubscribe is sent while Desktop waits for a thread/resume.             *)
Ordered(x) ==
  /\ NoneAfter(up[x], Opens, Offs) /\ NoneAfter(down[x], Opens, Offs)
  /\ Free(up[x], Offs) \/ Free(down[x], Opens)
  /\ Covered(x) /\ ~Free(down[x], Granted) => x \in subs
  /\ ~Free(down[x], Shut) => x \notin views

ViewFacts(x) == Known(x) /\ Standing(x) /\ Late(x) /\ Ordered(x)

(* The peer has left the thread, knows it, and nothing of a former operation   *)
(* will bring it back.                                                         *)
Gone(x) == Covered(x) => det[x] /\ Free(up[x], PeerBacks) /\ Free(down[x], PeerBacks)

(* The unsubscribe a pass waits for comes behind every resubscription.         *)
Leaving(x) ==
  /\ NoneAfter(up[x], LiveOffs, PeerBacks) /\ NoneAfter(down[x], LiveOffs, PeerBacks)
  /\ Free(down[x], LiveOffs) \/ Free(up[x], PeerBacks)
  /\ Covered(x) /\ ~Free(down[x], Away) =>
       job[x].unsub = "subscribed" \/ (det[x] /\ NoneAfter(down[x], GoodBacks, Away))
  /\ job[x].unsub = "ok" => Gone(x)

(* From the end of the unsubscribe pass to the archive everybody is gone.      *)
GoneLabels == {"stageUnsub", "sanitize", "resume", "resumeWait", "stageMismatch", "inspect",
               "stageRecovering", "saveJournal", "begin", "archive"}

PassFacts(s) ==
  /\ pc[s] \in GoneLabels => \A x \in Session : Gone(x)
  /\ pc[s] = "unsub" => \A x \in Session \ todo[s] : Gone(x)
  /\ pc[s] = "unsub" /\ at[s] \in conn => Leaving(at[s])

ViewInv ==
  /\ \A x \in conn : ViewFacts(x)
  /\ \A s \in Session : PassFacts(s)

-----------------------------------------------------------------------------
(* What a step does to one session's view of the thread *)

SameMarks(x) ==
  /\ x \in conn' /\ (x \in views' <=> x \in views) /\ (x \in lapsed' <=> x \in lapsed)
  /\ det'[x] = det[x] /\ job'[x].unsub = job[x].unsub

SameView(x) == SameMarks(x) /\ (x \in subs' <=> x \in subs)

Still(x) == SameView(x) /\ up'[x] = up[x] /\ Alike(down[x], down'[x])

LEMMA StillFacts ==
  ASSUME NEW x \in conn, Still(x), ViewFacts(x)
  PROVE  ViewFacts(x)'
<1>1. /\ Alike(down[x], down'[x]) /\ up'[x] = up[x] /\ x \in conn' /\ det'[x] = det[x]
      /\ job'[x].unsub = job[x].unsub /\ (x \in subs' <=> x \in subs) /\ (x \in views' <=> x \in views)
      /\ (Covered(x)' <=> Covered(x))
  BY DEF Still, SameView, SameMarks, Covered
<1>2. Known(x)'
  BY <1>1, KindsAreCalls DEF Alike, Known, ViewFacts
<1>3. Standing(x)'
  BY <1>1, KindsAreCalls DEF Alike, Standing, ViewFacts
<1>4. Late(x)'
  BY <1>1, KindsAreCalls DEF Alike, Late, ViewFacts
<1>5. Ordered(x)'
  BY <1>1, KindsAreCalls DEF Alike, Ordered, ViewFacts
<1> QED
  BY <1>2, <1>3, <1>4, <1>5 DEF ViewFacts

LEMMA StillGone ==
  ASSUME NEW x \in conn, Still(x)
  PROVE  (Gone(x) => Gone(x)') /\ (Leaving(x) => Leaving(x)')
<1>1. /\ Alike(down[x], down'[x]) /\ up'[x] = up[x] /\ det'[x] = det[x]
      /\ job'[x].unsub = job[x].unsub /\ (Covered(x)' <=> Covered(x))
  BY DEF Still, SameView, SameMarks, Covered
<1>2. Gone(x) <=> Gone(x)'
  BY <1>1, KindsAreCalls DEF Alike, Gone
<1>3. Leaving(x) => Leaving(x)'
  BY <1>1, <1>2, KindsAreCalls DEF Alike, Leaving
<1> QED
  BY <1>2, <1>3

(* A call goes out on the connection of x: a question of its own handler, or  *)
(* what a pass asks of it.                                                    *)
Sends(x) ==
  \E m \in Message :
    /\ m.live /\ m.op \notin {"dresume", "dunsub"}
    /\ Longer(up[x], m, up'[x]) /\ down'[x] = down[x]
    /\ x \in conn' /\ det'[x] = det[x]
    /\ (x \in views' <=> x \in views) /\ (x \in lapsed' <=> x \in lapsed)
    /\ (x \in subs' <=> x \in subs)
    /\ m.op = "junsub" =>
         /\ job[x].unsub \notin Running /\ job'[x].unsub \in Running
         /\ \E s \in Session : pc[s] = "unsub" /\ at'[s] = x
    /\ m.op # "junsub" => job'[x].unsub = job[x].unsub
    /\ m.op \in {"jresub", "jrestore"} => \E s \in Session : pc[s] \in {"resub", "restore"}
    /\ \E s \in Session : pc[s] \notin Awaiting \cup {"idle", "lock"}

LEMMA SendLonger ==
  ASSUME Shape, NEW p \in Session, NEW op \in Desktop \cup Internal,
         NEW v \in Provider \cup {NoProvider}, SendOnly(p, Request(op, v)), NEW x \in Session
  PROVE  /\ UNCHANGED <<conn, subs>> /\ down'[x] = down[x] /\ Request(op, v) \in Message
         /\ Request(op, v).live /\ Request(op, v).op = op
         /\ IF x = p THEN Longer(up[x], Request(op, v), up'[x]) ELSE up'[x] = up[x]
<1>1. /\ Request(op, v) \in Message /\ Request(op, v).live /\ Request(op, v).op = op
  BY RequestType DEF Request
<1>2. /\ up \in [Session -> Seq(Message)] /\ up' = [up EXCEPT ![p] = Append(@, Request(op, v))]
      /\ UNCHANGED <<conn, subs, down>>
  BY ShapeParts DEF ServerTypeOK, SendOnly, Send
<1>3. CASE x = p
  <2>1. up[x] \in Seq(Message) /\ up'[x] = Append(up[x], Request(op, v))
    BY <1>2, <1>3
  <2> QED
    BY <1>1, <1>2, <1>3, <2>1, AppendLonger
<1>4. CASE x # p
  BY <1>1, <1>2, <1>4
<1> QED
  BY <1>3, <1>4

LEMMA AlikeItself == \A q : Alike(q, q)
BY DEF Alike

LEMMA CallPeerView ==
  ASSUME LockInv, NEW s \in Session, CallPeer(s), NEW x \in conn
  PROVE  Still(x) \/ Sends(x)
<1>1. /\ job \in [Session -> [JobOps -> JobState]] /\ x \in Session /\ conn \subseteq Session
      /\ tgt[s] \in Provider \cup {NoProvider} /\ Shape
      /\ at \in [Session -> Session \cup {NoSession}]
  BY ShapeParts DEF LockInv, CacheTypes, ServerTypeOK, RequestTypes, HandlerOK, HandlerTypes
<1>2. PICK p \in conn : CallUnsubscribe(s, p) \/ CallResubscribe(s, p)
  BY <1>1 DEF CallPeer
<1>3. UNCHANGED <<det, views, lapsed>>
  BY DEF CallPeer
<1>4. CASE ServerIdle /\ UNCHANGED job
  BY <1>3, <1>4, AlikeItself DEF ServerIdle, serverVars, Still, SameView, SameMarks
<1>5. ASSUME NEW op \in JobOps, NEW state \in Running, NEW v \in Provider \cup {NoProvider},
             StartJob(s, p, op, state, v), op = "unsub" <=> pc[s] = "unsub",
             pc[s] \in {"unsub", "resub", "restore"}
      PROVE  Still(x) \/ Sends(x)
  <2> DEFINE m == Request(UpOf[op], v)
  <2>1. UpOf[op] \in Internal /\ (UpOf[op] = "junsub" <=> op = "unsub")
        /\ UpOf[op] \notin {"dresume", "dunsub"}
    BY DEF UpOf, JobOps, Internal
  <2>2. /\ UNCHANGED <<conn, subs>> /\ down'[x] = down[x] /\ m \in Message /\ m.live
        /\ m.op = UpOf[op]
        /\ IF x = p THEN Longer(up[x], m, up'[x]) ELSE up'[x] = up[x]
    BY <1>1, <1>5, <2>1, SendLonger DEF StartJob
  <2> HIDE DEF m
  <2>3. CASE x # p
    <3>1. job'[x] = job[x]
      BY <1>1, <1>5, <2>3 DEF StartJob
    <3> QED
      BY <1>3, <2>2, <2>3, <3>1, AlikeItself DEF Still, SameView, SameMarks
  <2>4. CASE x = p
    <3>1. op = "unsub" => /\ job[x].unsub \notin Running /\ job'[x].unsub \in Running
                          /\ at'[s] = x
      BY <1>1, <1>5, <2>4 DEF StartJob, JobOps
    <3>2. op # "unsub" => job'[x].unsub = job[x].unsub
      BY <1>1, <1>5, <2>4 DEF StartJob, JobOps
    <3>3. pc[s] \notin Awaiting \cup {"idle", "lock"}
      BY <1>5 DEF Awaiting, Waiting
    <3> QED
      BY <1>3, <1>5, <2>1, <2>2, <2>4, <3>1, <3>2, <3>3 DEF Sends
  <2> QED
    BY <2>3, <2>4
<1>6. CASE CallUnsubscribe(s, p)
  BY <1>4, <1>5, <1>6 DEF CallUnsubscribe, JobOps, Running
<1>7. CASE CallResubscribe(s, p)
  BY <1>1, <1>4, <1>5, <1>7 DEF CallResubscribe, JobOps, Running
<1> QED
  BY <1>2, <1>6, <1>7

LEMMA AsksView ==
  ASSUME LockInv, NEW s \in Session, Asks(s) \/ ForwardTurn(s), NEW x \in conn
  PROVE  Still(x) \/ Sends(x)
<1>1. /\ Shape /\ x \in Session
      /\ tgt[s] \in Provider \cup {NoProvider} /\ NoProvider \in Provider \cup {NoProvider}
  BY ShapeParts DEF LockInv, ServerTypeOK, RequestTypes
<1>2. PICK op \in {"list", "resume", "turn"}, v \in Provider \cup {NoProvider} :
        SendOnly(s, Request(op, v))
  BY <1>1 DEF Asks, AskStatus, AskRoute, InternalResume, AskServer, ForwardTurn
<1>3. /\ UNCHANGED <<det, job, views, lapsed>>
      /\ pc[s] \notin Awaiting \cup {"idle", "lock"}
  BY DEF Asks, AskStatus, AskRoute, InternalResume, AskServer, ForwardTurn, Step, caches, Awaiting,
         Waiting
<1>4. op \in Desktop \cup Internal
  BY DEF Desktop, Internal
<1> DEFINE m == Request(op, v)
<1>5. /\ UNCHANGED <<conn, subs>> /\ down'[x] = down[x] /\ m \in Message /\ m.live /\ m.op = op
      /\ IF x = s THEN Longer(up[x], m, up'[x]) ELSE up'[x] = up[x]
  BY <1>1, <1>2, <1>4, SendLonger
<1> HIDE DEF m
<1>6. CASE x = s
  BY <1>3, <1>5, <1>6 DEF Sends
<1>7. CASE x # s
  BY <1>3, <1>5, <1>7, AlikeItself DEF Still, SameView, SameMarks
<1> QED
  BY <1>6, <1>7

LEMMA CalmView ==
  ASSUME LockInv, Calm \/ TurnEnds \/ UnloadIdle, NEW x \in conn
  PROVE  Still(x)
<1>1. /\ down \in [Session -> Seq(Message)] /\ x \in Session
      /\ {"completed", "closed"} \subseteq Notice /\ NoSession \notin Session /\ conn \subseteq Session
  BY ShapeParts, AppServerAssumption DEF LockInv, ServerTypeOK, Notice, Closings
<1>2. CASE Calm
  BY <1>2, AlikeItself DEF Calm, Still, SameView, SameMarks
<1>3. CASE TurnEnds \/ UnloadIdle
  <2>1. PICK n \in Notice, to \in {subs, ClosedTo} : down' = Deliveries(NoSession, Notification(n), n, to)
    BY <1>1, <1>3 DEF TurnEnds, EndTurn, UnloadIdle, Unload
  <2>2. Alike(down[x], down'[x])
    BY <1>1, <2>1, DeliveredOrder, NotificationType
  <2> QED
    BY <1>3, <2>2 DEF TurnEnds, EndTurn, UnloadIdle, Unload, others, caches, Still, SameView,
       SameMarks
<1> QED
  BY <1>2, <1>3

LEMMA OtherAnswered ==
  ASSUME LockInv, NEW s \in Session, ServeStep(s) \/ ServeFault(s), NEW x \in conn, x # s
  PROVE  Still(x)
<1>1. /\ down \in [Session -> Seq(Message)] /\ up \in [Session -> Seq(Message)] /\ x \in Session
  BY ShapeParts DEF LockInv, ServerTypeOK
<1>2. PICK r \in Message, n \in Notice, to \in SUBSET conn : Serves(s, r, n, to)
  BY ServeParts
<1>3. up'[x] = up[x] /\ Alike(down[x], down'[x])
  BY <1>1, <1>2, DeliveredOrder DEF Serves
<1>4. x \in conn' /\ (x \in subs' <=> x \in subs)
  BY DEF ServeStep, Serve, ServeResume, ServeUnsubscribe, ServeList, ServeTurn, ServeFault,
         ServeError
<1>5. (x \in views' <=> x \in views) /\ (x \in lapsed' <=> x \in lapsed) /\ UNCHANGED <<det, job>>
  BY DEF ServeStep, ServeFault, others, caches
<1> QED
  BY <1>3, <1>4, <1>5 DEF Still, SameView, SameMarks

LEMMA OtherHears ==
  ASSUME LockInv, NEW s \in Session, Hear(s), NEW x \in conn, x # s
  PROVE  Still(x)
<1> DEFINE m == Head(down[s])
<1>1. /\ job \in [Session -> [JobOps -> JobState]] /\ det \in [Session -> BOOLEAN]
      /\ x \in Session /\ down \in [Session -> Seq(Message)]
  BY ShapeParts DEF LockInv, CacheTypes, ServerTypeOK
<1>2. UNCHANGED <<conn, subs, up, lapsed>> /\ down'[x] = down[x]
  BY <1>1 DEF Hear
<1>3. det'[x] = det[x] /\ job'[x] = job[x] /\ (x \in views' <=> x \in views)
  <2>1. CASE HearNotice(s, m)
    BY <1>1, <2>1 DEF HearNotice
  <2>2. CASE HearTurn(s, m) \/ HearList(s, m) \/ Swallow(m)
    BY <2>2 DEF HearTurn, HearList, Swallow
  <2>3. CASE HearDesktop(s, m) \/ HearResume(s, m)
    BY <1>1, <2>3 DEF HearDesktop, HearResume, Learn
  <2>4. CASE HearJob(s, m)
    BY <1>1, <2>4 DEF HearJob, EndUnsubscribe, EndResubscribe, Learn
  <2> QED
    BY <2>1, <2>2, <2>3, <2>4 DEF Hear
<1> QED
  BY <1>2, <1>3, AlikeItself DEF Still, SameView, SameMarks

LEMMA OtherMoves ==
  ASSUME LockInv, NEW s \in Session, NEW x \in conn, x # s,
         \/ Open(s) \/ Close(s) \/ BeginPeer(s) \/ EndPeer(s) \/ Forwards(s)
         \/ CallTimeout(s) \/ JobTimeout(s)
  PROVE  Still(x)
<1>1. /\ job \in [Session -> [JobOps -> JobState]] /\ det \in [Session -> BOOLEAN]
      /\ x \in Session /\ down \in [Session -> Seq(Message)] /\ up \in [Session -> Seq(Message)]
  BY ShapeParts DEF LockInv, CacheTypes, ServerTypeOK
<1>2. CASE Open(s)
  BY <1>2, AlikeItself DEF Open, Connect, caches, Still, SameView, SameMarks
<1>3. CASE Close(s)
  BY <1>1, <1>3, AlikeItself DEF Close, Disconnect, Still, SameView, SameMarks
<1>4. CASE BeginPeer(s) \/ EndPeer(s)
  BY <1>4, AlikeItself DEF BeginPeer, EndPeer, ServerIdle, serverVars, Still, SameView, SameMarks
<1>5. CASE Forwards(s)
  BY <1>1, <1>5, AlikeItself DEF Forwards, ForwardResume, ForwardUnsubscribe, Forward, SendOnly, Send,
     Still, SameView, SameMarks
<1>6. CASE CallTimeout(s)
  BY <1>1, <1>6, AlikeItself DEF CallTimeout, Abandon, caches, Still, SameView, SameMarks
<1>7. CASE JobTimeout(s)
  <2>1. /\ up'[x] = up[x] /\ down'[x] = down[x] /\ UNCHANGED <<conn, subs, views>>
        /\ lapsed' \in {lapsed, lapsed \cup {s}}
    BY <1>1, <1>7 DEF JobTimeout, Abandon
  <2>2. det'[x] = det[x] /\ job'[x] = job[x]
    BY <1>1, <1>7 DEF JobTimeout, EndUnsubscribe
  <2> QED
    BY <2>1, <2>2, AlikeItself DEF Still, SameView, SameMarks
<1> QED
  BY <1>2, <1>3, <1>4, <1>5, <1>6, <1>7

(* The steps that touch a session's own view of the thread.                   *)
Touches(x) ==
  \/ Close(x) \/ Forwards(x) \/ Hear(x) \/ CallTimeout(x) \/ JobTimeout(x)
  \/ ServeStep(x) \/ ServeFault(x) \/ \E s \in Session : ArchiveRoot(s) /\ Archive

LEMMA ViewSteps ==
  ASSUME LockInv, [Next]_vars, NEW x \in conn
  PROVE  Still(x) \/ Sends(x) \/ Touches(x)
<1>1. ~Open(x)
  BY DEF Open, LockInv, Channels
<1>2. ASSUME NEW s \in Session, ArchiveRoot(s), ~Archive
      PROVE  Still(x)
  BY <1>2, AlikeItself DEF ArchiveRoot, ServerIdle, serverVars, caches, Still, SameView, SameMarks
<1>3. x \in Session
  BY ShapeParts DEF LockInv, ServerTypeOK
<1>4. ASSUME NEW s \in Session, BeginPeer(s) \/ EndPeer(s)
      PROVE  Still(x)
  BY <1>4, AlikeItself DEF BeginPeer, EndPeer, ServerIdle, serverVars, Still, SameView, SameMarks
<1>5. ASSUME NEW s \in Session, Lively(s)
      PROVE  Still(x) \/ Sends(x) \/ Touches(x)
  <2>1. CASE CallPeer(s) \/ Asks(s) \/ ForwardTurn(s)
    BY <2>1, CallPeerView, AsksView
  <2>2. CASE BeginPeer(s) \/ EndPeer(s) \/ ArchiveRoot(s)
    BY <1>2, <1>4, <2>2 DEF Touches
  <2>3. CASE s = x
    BY <1>1, <1>5, <2>1, <2>2, <2>3 DEF Lively, Touches
  <2>4. CASE s # x
    BY <1>5, <2>1, <2>2, <2>4, OtherMoves, OtherHears, OtherAnswered DEF Lively
  <2> QED
    BY <2>3, <2>4
<1> QED
  BY <1>5, CalmView, CalmOrLively

-----------------------------------------------------------------------------
(* Calls that cannot be on their way *)

LEMMA HasNone ==
  ASSUME NEW q \in Seq(Message), NEW k, ~Has(q, k), NEW A, \A m \in A : Awaited(m, k)
  PROVE  Free(q, A)
BY DEF Has, Free

LEMMA NoDesktopCall ==
  ASSUME LockInv, CallsOK, NEW x \in conn, pc[x] # "answer"
  PROVE  /\ Free(up[x], Opens) /\ Free(down[x], Opens)
         /\ Free(up[x], Shuts) /\ Free(up[x], Shut) /\ Free(down[x], Shut)
<1>1. ~Awaits(x, "desktop")
  BY DEF Awaits, JobOps, UpOf
<1>2. ~Has(up[x], "desktop") /\ ~Has(down[x], "desktop")
  BY <1>1 DEF CallsOK, CallOK, Calls
<1>3. \A m \in Opens \cup Shuts \cup Shut : Awaited(m, "desktop")
  BY DEF Opens, Shuts, Shut, Awaited, CallOf, Internal
<1>4. up[x] \in Seq(Message) /\ down[x] \in Seq(Message)
  BY ShapeParts DEF LockInv, ServerTypeOK
<1> QED
  BY <1>2, <1>3, <1>4, HasNone

LEMMA NoUnsubCall ==
  ASSUME LockInv, CallsOK, NEW x \in conn, ~Unsubbing(x)
  PROVE  Free(up[x], LiveOffs) /\ Free(down[x], LiveOffs)
<1>1. ~Awaits(x, "junsub")
  BY DEF Awaits, JobOps, UpOf, Unsubbing
<1>2. ~Has(up[x], "junsub") /\ ~Has(down[x], "junsub")
  BY <1>1 DEF CallsOK, CallOK, Calls
<1>3. \A m \in LiveOffs : Awaited(m, "junsub")
  BY DEF LiveOffs, Offs, Awaited, CallOf, Internal
<1>4. up[x] \in Seq(Message) /\ down[x] \in Seq(Message)
  BY ShapeParts DEF LockInv, ServerTypeOK
<1> QED
  BY <1>2, <1>3, <1>4, HasNone

(* Nobody resubscribes while no resume of any kind is waited for.             *)
LEMMA NoPeerBack ==
  ASSUME LockInv, CallsOK, NEW x \in conn,
         job[x]["resub"] \notin Running, job[x]["restore"] \notin Running
  PROVE  /\ Free(up[x], PeerBacks) /\ Free(down[x], PeerBacks)
         /\ pc[x] \notin {"resumeWait", "recoverResumeWait"} =>
              Free(up[x], Backs) /\ Free(down[x], Backs)
<1>1. up[x] \in Seq(Message) /\ down[x] \in Seq(Message)
  BY ShapeParts DEF LockInv, ServerTypeOK
<1>2. ASSUME NEW k \in Calls, ~Awaits(x, k), NEW A, \A m \in A : Awaited(m, k)
      PROVE  Free(up[x], A) /\ Free(down[x], A)
  BY <1>1, <1>2, HasNone DEF CallsOK, CallOK
<1> DEFINE Of(k) == {m \in Message : m.op = k /\ m.live}
<1>3. \A k \in {"resume", "jresub", "jrestore"} : \A m \in Of(k) : Awaited(m, k)
  BY DEF Awaited, CallOf, Internal
<1>4. ~Awaits(x, "jresub") /\ ~Awaits(x, "jrestore")
      /\ (pc[x] \notin {"resumeWait", "recoverResumeWait"} => ~Awaits(x, "resume"))
  BY DEF Awaits, JobOps, UpOf
<1>5. /\ Free(up[x], Of("jresub")) /\ Free(down[x], Of("jresub"))
      /\ Free(up[x], Of("jrestore")) /\ Free(down[x], Of("jrestore"))
      /\ pc[x] \notin {"resumeWait", "recoverResumeWait"} =>
           Free(up[x], Of("resume")) /\ Free(down[x], Of("resume"))
  BY <1>2, <1>3, <1>4 DEF Calls
<1>6. /\ PeerBacks = Of("jresub") \cup Of("jrestore")
      /\ Backs = Of("resume") \cup Of("jresub") \cup Of("jrestore")
  BY DEF PeerBacks, Backs
<1> QED
  BY <1>5, <1>6 DEF Free

(* A call whose request is served, or whose answer is heard, was the only one. *)
LEMMA OnlyUnsubCall ==
  ASSUME LockInv, CallsOK, NEW x \in conn
  PROVE  /\ up[x] # <<>> /\ Head(up[x]) \in LiveOffs =>
              Free(Tail(up[x]), LiveOffs) /\ Free(down[x], LiveOffs)
         /\ down[x] # <<>> /\ Head(down[x]) \in LiveOffs =>
              Free(Tail(down[x]), LiveOffs) /\ Free(up[x], LiveOffs)
<1>1. up[x] \in Seq(Message) /\ down[x] \in Seq(Message)
  BY ShapeParts DEF LockInv, ServerTypeOK
<1>2. \A m \in LiveOffs : Awaited(m, "junsub")
  BY DEF LiveOffs, Offs, Awaited, CallOf, Internal
<1>3. CallOK(x, "junsub")
  BY DEF CallsOK, Calls
<1> QED
  BY <1>1, <1>2, <1>3, CallTail, HasNone DEF CallOK

LEMMA OnlyDesktopCall ==
  ASSUME LockInv, CallsOK, NEW x \in conn, up[x] # <<>>, Head(up[x]) \in Opens \cup Shuts
  PROVE  pc[x] = "answer" /\ Free(down[x], Shut) /\ Free(down[x], Opens)
<1>1. up[x] \in Seq(Message) /\ down[x] \in Seq(Message)
  BY ShapeParts DEF LockInv, ServerTypeOK
<1>2. \A m \in Opens \cup Shuts \cup Shut : Awaited(m, "desktop")
  BY DEF Opens, Shuts, Shut, Awaited, CallOf, Internal
<1>3. CallOK(x, "desktop") /\ Has(up[x], "desktop")
  BY <1>1, <1>2, CallTail DEF CallsOK, Calls
<1>4. pc[x] = "answer"
  BY <1>3 DEF CallOK, Awaits, JobOps, UpOf
<1> QED
  BY <1>1, <1>2, <1>3, <1>4, HasNone DEF CallOK

-----------------------------------------------------------------------------
(* A session sends *)

LEMMA SentFacts ==
  ASSUME LockInv, CallsOK, NEW x \in conn, Sends(x), ViewFacts(x)
  PROVE  ViewFacts(x)'
<1>1. PICK m \in Message :
        /\ m.live /\ m.op \notin {"dresume", "dunsub"}
        /\ Longer(up[x], m, up'[x]) /\ down'[x] = down[x]
        /\ x \in conn' /\ det'[x] = det[x]
        /\ (x \in views' <=> x \in views) /\ (x \in lapsed' <=> x \in lapsed)
        /\ (x \in subs' <=> x \in subs)
        /\ m.op = "junsub" => job[x].unsub \notin Running
                              /\ \E s \in Session : pc[s] = "unsub" /\ at'[s] = x
        /\ m.op # "junsub" => job'[x].unsub = job[x].unsub
  BY DEF Sends
<1>2. m \notin Opens /\ m \notin DeadOffs /\ (m \in Offs => m.op = "junsub")
  BY <1>1 DEF Opens, DeadOffs, Offs
<1>3. x \in Session
  BY ShapeParts DEF LockInv, ServerTypeOK
<1>4. m \in Offs => Free(up[x], Opens) /\ Free(down[x], Opens)
  <2>1. m \in Offs => pc[x] # "answer"
    BY <1>1, <1>2, <1>3, OneHolder DEF LockInv
  <2> QED
    BY <2>1, NoDesktopCall
<1>5. Covered(x)' <=> Covered(x)
  BY <1>1 DEF Covered
<1>6. Known(x)'
  BY <1>1, <1>2, <1>5 DEF Known, ViewFacts, Running
<1>7. Standing(x)'
  BY <1>1, <1>5 DEF Standing, ViewFacts
<1>8. Late(x)'
  BY <1>1, <1>2, <1>5, KindsAreCalls DEF Longer, Late, ViewFacts
<1>9. Ordered(x)'
  BY <1>1, <1>2, <1>4, <1>5, KindsAreCalls DEF Longer, Ordered, ViewFacts
<1> QED
  BY <1>6, <1>7, <1>8, <1>9 DEF ViewFacts

LEMMA ForwardsFacts ==
  ASSUME LockInv, NEW x \in conn, Forwards(x), ViewFacts(x)
  PROVE  ViewFacts(x)'
<1>1. /\ x \in Session /\ Shape /\ det \in [Session -> BOOLEAN]
      /\ tgt[x] \in Provider \cup {NoProvider} /\ NoProvider \in Provider \cup {NoProvider}
  BY ShapeParts DEF LockInv, ServerTypeOK, RequestTypes, CacheTypes
<1>2. PICK op \in {"dresume", "dunsub"}, v \in Provider \cup {NoProvider} :
        SendOnly(x, Request(op, v))
  BY <1>1 DEF Forwards, ForwardResume, ForwardUnsubscribe, Forward
<1>3. /\ UNCHANGED <<job, views>> /\ det'[x] = FALSE
      /\ x \in lapsed' <=> x \in lapsed \/ det[x]
  BY <1>1 DEF Forwards, ForwardResume, ForwardUnsubscribe, Forward
<1>4. op \in Desktop \cup Internal
  BY DEF Desktop
<1> DEFINE m == Request(op, v)
<1>5. /\ UNCHANGED <<conn, subs>> /\ down'[x] = down[x] /\ m.live /\ m.op = op
      /\ Longer(up[x], m, up'[x])
  BY <1>1, <1>2, <1>4, SendLonger
<1> HIDE DEF m
<1>6. m \notin Offs /\ m \notin DeadOffs
  BY <1>5 DEF Offs, DeadOffs
<1>7. Covered(x)' <=> Covered(x) /\ ~det[x]
  BY <1>3, <1>5 DEF Covered
<1>8. Known(x)'
  BY <1>3, <1>5, <1>7 DEF Known, ViewFacts
<1>9. Standing(x)'
  BY <1>5, <1>7 DEF Standing, ViewFacts
<1>10. Late(x)'
  BY <1>5, <1>6, <1>7, KindsAreCalls DEF Longer, Late, ViewFacts
<1>11. Ordered(x)'
  BY <1>3, <1>5, <1>6, <1>7, KindsAreCalls DEF Longer, Ordered, ViewFacts
<1> QED
  BY <1>8, <1>9, <1>10, <1>11 DEF ViewFacts

-----------------------------------------------------------------------------
(* The archive ends every subscription *)

LEMMA ArchiveFacts ==
  ASSUME LockInv, CallsOK, NEW x \in conn, ViewFacts(x), Gone(x),
         NEW s \in Session, ArchiveRoot(s), Archive
  PROVE  ViewFacts(x)'
<1>1. /\ down \in [Session -> Seq(Message)] /\ x \in Session /\ pc[s] = "archive"
      /\ "archived" \in Notice /\ NoSession \notin conn
  BY ShapeParts, AppServerAssumption DEF LockInv, ServerTypeOK, Notice, Closings, ArchiveRoot, Step
<1>2. Alike(down[x], down'[x])
  BY <1>1, DeliveredOrder, NotificationType DEF Archive
<1>3. /\ UNCHANGED <<conn, up, det, job, views, lapsed>> /\ subs' = {}
      /\ Covered(x)' <=> Covered(x)
  BY DEF ArchiveRoot, Archive, caches, Covered
<1>4. pc[x] \notin {"answer", "resumeWait", "recoverResumeWait"}
  BY <1>1, OneHolder DEF LockInv
<1>5. Free(down[x], Opens) /\ Free(down[x], Granted)
  <2>1. Granted \subseteq Opens
    BY DEF Granted
  <2> QED
    BY <1>4, <2>1, NoDesktopCall, FreeSubset
<1>6. Covered(x) => Free(down[x], GoodBacks)
  <2>1. ~Awaits(x, "resume")
    BY <1>4 DEF Awaits, JobOps, UpOf
  <2>2. ~Has(down[x], "resume")
    BY <2>1 DEF CallsOK, CallOK, Calls
  <2>3. \A m \in GoodBacks \ PeerBacks : Awaited(m, "resume")
    BY DEF GoodBacks, Backs, PeerBacks, Awaited, CallOf, Internal
  <2>4. down[x] \in Seq(Message)
    BY <1>1
  <2>5. Free(down[x], GoodBacks \ PeerBacks)
    BY <2>2, <2>3, <2>4, HasNone
  <2> QED
    BY <2>5 DEF Gone, Free
<1>7. Known(x)'
  BY <1>2, <1>3, KindsAreCalls DEF Alike, Gone, Known
<1>8. Standing(x)'
  BY <1>2, <1>3, <1>6, KindsAreCalls DEF Alike, Standing
<1>9. Late(x)'
  BY <1>2, <1>3, KindsAreCalls DEF Alike, Late, ViewFacts
<1>10. Ordered(x)'
  BY <1>2, <1>3, <1>5, KindsAreCalls DEF Alike, Ordered, ViewFacts
<1> QED
  BY <1>7, <1>8, <1>9, <1>10 DEF ViewFacts

-----------------------------------------------------------------------------
(* A call is given up *)

LiveKinds == {Backs, PeerBacks, GoodBacks, Offs, LiveOffs, Left, Away, Opens, Granted, Shut}

Fades(q, r, K) ==
  /\ \A A \in K : Free(q, A) => Free(r, A)
  /\ \A A, B \in K : NoneAfter(q, A, B) => NoneAfter(r, A, B)

LEMMA DroppedFades ==
  ASSUME NEW q \in Seq(Message), NEW op \in Internal
  PROVE  /\ Fades(q, Dropped(q, op), LiveKinds)
         /\ op # "junsub" => Fades(q, Dropped(q, op), LiveKinds \cup {DeadOffs})
         /\ op = "junsub" => Free(Dropped(q, op), LiveOffs)
         /\ op # "junsub" /\ Free(Dropped(q, op), Left) => Free(q, Left)
<1>1. ASSUME NEW m \in Message
      PROVE  /\ Dull(m, op).op = m.op /\ Dull(m, op).tag = m.tag /\ Dull(m, op).ok = m.ok
             /\ Dull(m, op) \in Message
             /\ Dull(m, op).live = (m.live /\ m.op # op)
  BY DEF Dull, Message
<1>2. \A m \in Message, A \in LiveKinds : Dull(m, op) \in A => m \in A
  <2> SUFFICES ASSUME NEW m \in Message, NEW A \in LiveKinds, Dull(m, op) \in A
               PROVE  m \in A
    OBVIOUS
  <2>1. CASE A = Backs
    BY <1>1, <2>1 DEF Backs
  <2>2. CASE A = PeerBacks
    BY <1>1, <2>2 DEF PeerBacks
  <2>3. CASE A = GoodBacks
    BY <1>1, <2>3 DEF GoodBacks, Backs
  <2>4. CASE A \in {Offs, LiveOffs}
    BY <1>1, <2>4 DEF LiveOffs, Offs
  <2>5. Dull(m, op) \in LiveOffs => m \in LiveOffs
    BY <1>1 DEF LiveOffs, Offs
  <2>6. CASE A = Left
    BY <1>1, <2>5, <2>6 DEF Left
  <2>7. CASE A = Away
    BY <1>1, <2>5, <2>7 DEF Away
  <2>8. CASE A \in {Opens, Granted, Shut}
    BY <1>1, <2>8 DEF Opens, Granted, Shut, Shuts
  <2> QED
    BY <2>1, <2>2, <2>3, <2>4, <2>6, <2>7, <2>8 DEF LiveKinds
<1>3. op # "junsub" => \A m \in Message : Dull(m, op) \in DeadOffs => m \in DeadOffs
  BY <1>1 DEF DeadOffs, Offs
<1>4. op = "junsub" => \A m \in Message : Dull(m, op) \notin LiveOffs
  BY <1>1 DEF LiveOffs, Offs
<1>5. op # "junsub" => \A m \in Message : m \in Left => Dull(m, op) \in Left
  BY <1>1 DEF Left, LiveOffs, Offs
<1>6. ASSUME NEW K, \A m \in Message, A \in K : Dull(m, op) \in A => m \in A
      PROVE  Fades(q, Dropped(q, op), K)
  BY <1>6, DroppedOrder DEF Fades
<1>7. op = "junsub" => Free(Dropped(q, op), LiveOffs)
  <2>1. Free(q, {})
    BY DEF Free
  <2> QED
    BY <1>4, <2>1, DroppedOrder
<1>8. op # "junsub" /\ Free(Dropped(q, op), Left) => Free(q, Left)
  <2>1. /\ Len(Dropped(q, op)) = Len(q) /\ DOMAIN q = 1..Len(q)
        /\ \A i \in 1..Len(q) : q[i] \in Message
    BY DroppedType
  <2>2. \A i \in 1..Len(q) : Dropped(q, op)[i] = Dull(q[i], op)
    BY <2>1 DEF Dropped, Dull
  <2> QED
    BY <1>5, <2>1, <2>2 DEF Free
<1> QED
  BY <1>2, <1>3, <1>6, <1>7, <1>8

(* What giving up a call leaves of the order of the messages.                 *)
Faded(x, K) == Fades(up[x], up'[x], K) /\ Fades(down[x], down'[x], K)

LEMMA AbandonFades ==
  ASSUME Shape, NEW x \in conn, NEW op \in Internal, Abandon(x, op)
  PROVE  /\ Faded(x, LiveKinds)
         /\ op # "junsub" => Faded(x, LiveKinds \cup {DeadOffs})
         /\ op = "junsub" => Free(up'[x], LiveOffs) /\ Free(down'[x], LiveOffs)
         /\ op # "junsub" /\ Free(down'[x], Left) => Free(down[x], Left)
<1>1. /\ x \in Session /\ up[x] \in Seq(Message) /\ down[x] \in Seq(Message)
      /\ up'[x] = Dropped(up[x], op) /\ down'[x] = Dropped(down[x], op)
  BY ShapeParts DEF ServerTypeOK, Abandon
<1> QED
  BY <1>1, DroppedFades DEF Faded

LEMMA GivenUpFacts ==
  ASSUME NEW x \in conn, SameView(x), Faded(x, LiveKinds \cup {DeadOffs}),
         Free(down'[x], Left) => Free(down[x], Left), ViewFacts(x)
  PROVE  ViewFacts(x)'
<1>1. /\ x \in conn' /\ det'[x] = det[x] /\ job'[x].unsub = job[x].unsub
      /\ (x \in subs' <=> x \in subs) /\ (x \in views' <=> x \in views)
      /\ (Covered(x)' <=> Covered(x))
  BY DEF SameView, SameMarks, Covered
<1>2. Known(x)'
  BY <1>1 DEF Known, ViewFacts
<1>3. Standing(x)'
  BY <1>1 DEF Faded, Fades, LiveKinds, Standing, ViewFacts
<1>4. Late(x)'
  BY <1>1 DEF Faded, Fades, LiveKinds, Late, ViewFacts
<1>5. Ordered(x)'
  BY <1>1 DEF Faded, Fades, LiveKinds, Ordered, ViewFacts
<1> QED
  BY <1>2, <1>3, <1>4, <1>5 DEF ViewFacts

LEMMA CallTimeoutView ==
  ASSUME LockInv, NEW x \in conn, CallTimeout(x)
  PROVE  /\ SameView(x) /\ Faded(x, LiveKinds \cup {DeadOffs})
         /\ Free(down'[x], Left) => Free(down[x], Left)
<1>1. PICK op \in {"list", "resume"} : Abandon(x, op)
  BY DEF CallTimeout
<1>2. op \in Internal /\ op # "junsub" /\ Shape
  BY DEF Internal, LockInv
<1>3. SameView(x)
  BY DEF CallTimeout, caches, SameView, SameMarks
<1> QED
  BY <1>1, <1>2, <1>3, AbandonFades

(* A peer that gives up a resubscription still has its unsubscribe.           *)
LEMMA BackTimeoutView ==
  ASSUME LockInv, NEW x \in conn, JobTimeout(x)
  PROVE  \/ /\ SameView(x) /\ Faded(x, LiveKinds \cup {DeadOffs})
            /\ Free(down'[x], Left) => Free(down[x], Left)
         \/ /\ Unsubbing(x) /\ EndUnsubscribe(x, FALSE, "")
            /\ Abandon(x, "junsub") /\ UNCHANGED <<conn, subs, views>>
            /\ lapsed' = IF Unaware(x) THEN lapsed \cup {x} ELSE lapsed
<1>1. PICK op \in JobOps :
        /\ job[x][op] \in Running
        /\ Abandon(x, UpOf[op])
        /\ IF op = "unsub"
           THEN /\ EndUnsubscribe(x, FALSE, "")
                /\ lapsed' = IF Unaware(x) THEN lapsed \cup {x} ELSE lapsed
           ELSE job' = [job EXCEPT ![x][op] = "bad"] /\ UNCHANGED <<eff, det, lapsed>>
  BY DEF JobTimeout
<1>2. UNCHANGED <<conn, subs, views>>
  BY DEF JobTimeout
<1>3. CASE op = "unsub"
  BY <1>1, <1>2, <1>3 DEF Unsubbing, UpOf, JobOps
<1>4. CASE op # "unsub"
  <2>1. UpOf[op] \in Internal /\ UpOf[op] # "junsub" /\ Shape
    BY <1>4 DEF UpOf, JobOps, Internal, LockInv
  <2>2. job'[x].unsub = job[x].unsub
    <3>1. job \in [Session -> [JobOps -> JobState]]
      BY ShapeParts DEF LockInv, CacheTypes
    <3> QED
      BY <1>1, <1>4, <3>1 DEF JobOps
  <2>3. SameView(x)
    BY <1>1, <1>2, <1>4, <2>2 DEF SameView, SameMarks
  <2> QED
    BY <1>1, <2>1, <2>3, AbandonFades
<1> QED
  BY <1>3, <1>4

LEMMA UnsubTimeoutView ==
  ASSUME LockInv, CallsOK, MarkInv, NEW x \in conn, Unsubbing(x), EndUnsubscribe(x, FALSE, ""),
         Abandon(x, "junsub"), UNCHANGED <<conn, subs, views>>,
         lapsed' = IF Unaware(x) THEN lapsed \cup {x} ELSE lapsed
  PROVE  /\ Faded(x, LiveKinds) /\ Free(up'[x], LiveOffs) /\ Free(down'[x], LiveOffs)
         /\ Covered(x)' => /\ Covered(x) /\ det'[x]
                           /\ Free(up'[x], Backs) /\ Free(down'[x], Backs)
         /\ det[x] => det'[x]
         /\ job'[x].unsub = "bad"
<1>1. /\ x \in Session /\ Shape /\ "junsub" \in Internal
      /\ det \in [Session -> BOOLEAN] /\ job \in [Session -> [JobOps -> JobState]]
  BY ShapeParts DEF LockInv, ServerTypeOK, Internal, CacheTypes
<1>2. Faded(x, LiveKinds) /\ Free(up'[x], LiveOffs) /\ Free(down'[x], LiveOffs)
  BY <1>1, AbandonFades
<1>3. det'[x] = MayHaveLeft(x, "") /\ (det[x] => det'[x])
  BY <1>1 DEF EndUnsubscribe, MayHaveLeft
<1>4. job'[x].unsub = "bad"
  BY <1>1 DEF EndUnsubscribe, Outcome, JobOps
<1>5. ASSUME Covered(x)'
      PROVE  Covered(x) /\ det'[x] /\ Free(up'[x], Backs) /\ Free(down'[x], Backs)
  <2>1. Covered(x) /\ ~Unaware(x)
    BY <1>5 DEF Covered
  <2>2. det'[x] /\ job[x]["resub"] \notin Running /\ job[x]["restore"] \notin Running
    BY <1>3, <2>1 DEF Unaware
  <2>3. pc[x] \notin {"resumeWait", "recoverResumeWait"}
    BY <1>1 DEF MarkInv, MarkFacts, AfterUnsub
  <2>4. Free(up[x], Backs) /\ Free(down[x], Backs)
    BY <2>2, <2>3, NoPeerBack
  <2> QED
    BY <1>2, <2>1, <2>2, <2>4 DEF Faded, Fades, LiveKinds
<1> QED
  BY <1>2, <1>3, <1>4, <1>5

LEMMA TimeoutFacts ==
  ASSUME LockInv, CallsOK, MarkInv, NEW x \in conn, CallTimeout(x) \/ JobTimeout(x), ViewFacts(x)
  PROVE  ViewFacts(x)'
<1>1. CASE /\ Unsubbing(x) /\ EndUnsubscribe(x, FALSE, "")
           /\ Abandon(x, "junsub") /\ UNCHANGED <<conn, subs, views>>
           /\ lapsed' = IF Unaware(x) THEN lapsed \cup {x} ELSE lapsed
  <2>1. /\ Faded(x, LiveKinds) /\ Free(up'[x], LiveOffs) /\ Free(down'[x], LiveOffs)
        /\ Covered(x)' => /\ Covered(x) /\ det'[x]
                          /\ Free(up'[x], Backs) /\ Free(down'[x], Backs)
    BY <1>1, UnsubTimeoutView
  <2>2. Known(x)'
    BY <2>1 DEF Known
  <2>3. Standing(x)'
    <3>1. GoodBacks \subseteq Backs
      BY DEF GoodBacks
    <3> QED
      BY <2>1, <3>1, FreeSubset DEF Standing
  <2>4. Late(x)'
    BY <2>1, FreeOrder DEF Late
  <2>5. Ordered(x)'
    BY <1>1, <2>1 DEF Faded, Fades, LiveKinds, Ordered, ViewFacts
  <2> QED
    BY <2>2, <2>3, <2>4, <2>5 DEF ViewFacts
<1> QED
  BY <1>1, CallTimeoutView, BackTimeoutView, GivenUpFacts

-----------------------------------------------------------------------------
(* A session hears a message *)

HeardQuietly(x, m) ==
  /\ m \notin LiveOffs \cup Shut /\ job'[x].unsub = job[x].unsub
  /\ (x \in views' => x \in views) /\ (Covered(x)' => Covered(x) /\ det'[x] = det[x])
  /\ \/ eff'[x] \in {eff[x], NoProvider}
     \/ m \in Lists /\ eff[x] = NoProvider /\ eff'[x] = m.prov /\ pc[x] = "routeWait"

HeardBack(x, m) ==
  /\ m \in GoodBacks \cup Granted \cup Shut /\ ~det'[x] /\ job'[x].unsub = job[x].unsub
  /\ (x \in views' => x \in views) /\ (Covered(x)' => Covered(x))
  /\ m \in GoodBacks \ PeerBacks /\ pc[x] = "resumeWait" => pc'[x] = "stageResub"
  /\ m \in GoodBacks \ PeerBacks => pc[x] \in {"resumeWait", "recoverResumeWait"}
  /\ m \in Granted \cup Shut => pc[x] = "answer" /\ pc'[x] = "idle"
  /\ eff'[x] = m.prov

HeardOff(x, m) ==
  /\ m \in LiveOffs /\ Unsubbing(x) /\ UNCHANGED views /\ (Covered(x)' => Covered(x))
  /\ det'[x] = MayHaveLeft(x, m.tag) /\ job'[x].unsub = Outcome(m.ok)
  /\ eff'[x] = NoProvider

LEMMA HearView ==
  ASSUME LockInv, CallsOK, NEW x \in conn, Hear(x)
  PROVE  /\ down[x] # <<>> /\ Shorter(down[x], down'[x]) /\ Head(down[x]) \in Message
         /\ up'[x] = up[x] /\ UNCHANGED <<conn, subs, lapsed>>
         /\ \/ HeardQuietly(x, Head(down[x])) \/ HeardBack(x, Head(down[x]))
            \/ HeardOff(x, Head(down[x]))
<1> DEFINE m == Head(down[x])
<1>1. /\ x \in Session /\ down \in [Session -> Seq(Message)] /\ Shape
      /\ det \in [Session -> BOOLEAN] /\ job \in [Session -> [JobOps -> JobState]]
      /\ pc \in [Session -> Labels] /\ eff \in [Session -> Provider \cup {NoProvider}]
  BY ShapeParts DEF LockInv, ServerTypeOK, CacheTypes, HandlerOK, HandlerTypes
<1>2. down[x] # <<>> /\ UNCHANGED <<conn, subs, up, lapsed>> /\ down'[x] = Tail(down[x])
  BY <1>1 DEF Hear
<1>3. Shorter(down[x], down'[x]) /\ m \in Message
  BY <1>1, <1>2, TailShorter
<1>4. \/ HearNotice(x, m) \/ HearTurn(x, m) \/ HearDesktop(x, m) \/ HearList(x, m)
      \/ HearResume(x, m) \/ HearJob(x, m) \/ Swallow(m)
  BY DEF Hear
<1> HIDE DEF m
<1>5. Covered(x)' => x \in views' /\ x \notin lapsed
  BY <1>2 DEF Covered
<1>6. Covered(x) <=> x \in views /\ x \notin lapsed
  BY DEF Covered
<1>7. CASE HearNotice(x, m)
  <2>1. m \notin LiveOffs \cup Shut
    BY <1>7 DEF HearNotice, LiveOffs, Offs, Shut, Shuts, Notice, Closings
  <2>2. /\ job' = job /\ (x \in views' => x \in views /\ det'[x] = det[x])
        /\ eff'[x] \in {eff[x], NoProvider}
    BY <1>1, <1>7 DEF HearNotice, Forget
  <2> QED
    BY <1>2, <1>3, <1>5, <1>6, <2>1, <2>2 DEF HeardQuietly, m
<1>8. CASE HearTurn(x, m) \/ HearList(x, m) \/ Swallow(m)
  <2>1. m \notin LiveOffs \cup Shut
    BY <1>8 DEF HearTurn, HearList, Swallow, LiveOffs, Offs, Shut, Shuts, Internal
  <2>2. UNCHANGED <<job, views, det>>
    BY <1>8 DEF HearTurn, HearList, Swallow
  <2>3. \/ UNCHANGED eff
        \/ /\ m.op = "list" /\ m.live /\ m.ok /\ pc[x] = "routeWait"
           /\ eff'[x] = IF eff[x] = NoProvider THEN m.prov ELSE eff[x]
    BY <1>1, <1>8 DEF HearTurn, HearList, Swallow
  <2>4. m \in Lists \/ ~(m.op = "list" /\ m.live /\ m.ok)
    BY <1>3 DEF Lists, m
  <2> QED
    BY <1>2, <1>3, <1>5, <1>6, <2>1, <2>2, <2>3, <2>4 DEF HeardQuietly, m
<1>9. CASE HearDesktop(x, m)
  <2>1. UNCHANGED <<job, views>> /\ m.op \in {"dresume", "dunsub"} /\ pc[x] = "answer"
    BY <1>9 DEF HearDesktop
  <2>2. m \notin LiveOffs /\ m \notin GoodBacks
    BY <2>1 DEF LiveOffs, Offs, GoodBacks, Backs
  <2>3. CASE m.ok
    <3>1. m \in Granted \cup Shut
      BY <1>3, <2>1, <2>3 DEF Granted, Opens, Shut, Shuts, m
    <3>2. ~det'[x] /\ eff'[x] = m.prov /\ pc'[x] = "idle"
      BY <1>1, <1>9, <2>3 DEF HearDesktop, Release, Return
    <3> QED
      BY <1>2, <1>3, <1>5, <1>6, <2>1, <2>2, <3>1, <3>2 DEF HeardBack, m
  <2>4. CASE ~m.ok
    <3>1. UNCHANGED <<det, eff>> /\ m \notin Shut
      BY <1>9, <2>4 DEF HearDesktop, Shut
    <3> QED
      BY <1>2, <1>3, <1>5, <1>6, <2>1, <2>2, <3>1 DEF HeardQuietly, m
  <2> QED
    BY <2>3, <2>4
<1>10. CASE HearResume(x, m)
  <2>1. /\ UNCHANGED <<job, views>> /\ m.op = "resume" /\ m.live
        /\ pc[x] \in {"resumeWait", "recoverResumeWait"}
    BY <1>10 DEF HearResume
  <2>2. m \notin LiveOffs /\ m \notin Granted \cup Shut
    BY <2>1 DEF LiveOffs, Offs, Granted, Opens, Shut, Shuts
  <2>3. CASE Verified(m)
    <3>1. m \in GoodBacks
      BY <1>3, <2>1, <2>3 DEF GoodBacks, Backs, Verified, m
    <3>2. ~det'[x] /\ eff'[x] = m.prov
      BY <1>1, <1>10, <2>3 DEF HearResume, Learn
    <3>3. pc[x] = "resumeWait" => pc'[x] = "stageResub"
      BY <1>1, <1>10, <2>3 DEF HearResume, Goto
    <3> QED
      BY <1>2, <1>3, <1>5, <1>6, <2>1, <2>2, <3>1, <3>2, <3>3 DEF HeardBack, m
  <2>4. CASE ~Verified(m)
    <3>1. UNCHANGED <<det, eff>>
      BY <1>10, <2>4 DEF HearResume
    <3> QED
      BY <1>2, <1>3, <1>5, <1>6, <2>1, <2>2, <3>1 DEF HeardQuietly, m
  <2> QED
    BY <2>3, <2>4
<1>11. CASE HearJob(x, m)
  <2>1. UNCHANGED views /\ m.live
    BY <1>11 DEF HearJob
  <2>2. CASE m.op = "junsub" /\ EndUnsubscribe(x, m.ok, m.tag)
    <3>1. m \in LiveOffs
      BY <1>3, <2>1, <2>2 DEF LiveOffs, Offs, m
    <3>2. Unsubbing(x)
      BY <1>1, <2>1, <2>2, HeardJob DEF Unsubbing, JobOps, UpOf, m
    <3>3. /\ det'[x] = MayHaveLeft(x, m.tag) /\ job'[x].unsub = Outcome(m.ok)
          /\ eff'[x] = NoProvider
      BY <1>1, <2>2 DEF EndUnsubscribe, Forget, JobOps
    <3> QED
      BY <1>2, <1>3, <1>5, <1>6, <2>1, <3>1, <3>2, <3>3 DEF HeardOff, m
  <2>3. ASSUME NEW o \in {"resub", "restore"}, EndResubscribe(x, o, m), m.op \in {"jresub", "jrestore"}
        PROVE  HeardQuietly(x, m) \/ HeardBack(x, m)
    <3>1. m \notin LiveOffs /\ m \notin Granted \cup Shut
      BY <2>3 DEF LiveOffs, Offs, Granted, Opens, Shut, Shuts
    <3>2. job'[x].unsub = job[x].unsub
      BY <1>1, <2>3 DEF EndResubscribe, JobOps
    <3>3. CASE UNCHANGED <<det, eff>>
      BY <1>5, <1>6, <2>1, <3>1, <3>2, <3>3 DEF HeardQuietly
    <3>4. CASE Learn(x, m.prov) /\ m.ok
      <4>1. m \in GoodBacks /\ m \in PeerBacks
        BY <1>3, <2>1, <2>3, <3>4 DEF GoodBacks, Backs, PeerBacks, m
      <4>2. ~det'[x] /\ eff'[x] = m.prov
        BY <1>1, <3>4 DEF Learn
      <4> QED
        BY <1>5, <1>6, <2>1, <3>1, <3>2, <4>1, <4>2 DEF HeardBack
    <3> QED
      BY <2>3, <3>3, <3>4 DEF EndResubscribe, Verified
  <2> QED
    BY <1>2, <1>3, <1>11, <2>2, <2>3 DEF HearJob, m
<1> QED
  BY <1>4, <1>7, <1>8, <1>9, <1>10, <1>11

LEMMA HeardFacts ==
  ASSUME LockInv, CallsOK, NEW x \in conn, Hear(x), ViewFacts(x)
  PROVE  ViewFacts(x)'
<1> DEFINE m == Head(down[x])
<1>1. /\ Shorter(down[x], down'[x]) /\ m \in Message
      /\ up'[x] = up[x] /\ UNCHANGED <<conn, subs, lapsed>>
      /\ HeardQuietly(x, m) \/ HeardBack(x, m) \/ HeardOff(x, m)
  BY HearView
<1> HIDE DEF m
<1>2. /\ \A A : Free(down[x], A) <=> m \notin A /\ Free(down'[x], A)
      /\ \A A, B : NoneAfter(down[x], A, B) <=>
                     NoneAfter(down'[x], A, B) /\ (m \in A => Free(down'[x], B))
      /\ Covered(x)' => Covered(x)
      /\ x \in views' => x \in views
  BY <1>1 DEF Shorter, m, HeardQuietly, HeardBack, HeardOff
<1>3. /\ Left \subseteq LiveOffs /\ GoodBacks \subseteq Backs /\ Granted \subseteq Opens
      /\ DeadOffs \subseteq Offs /\ Left \cap (GoodBacks \cup Granted \cup Shut) = {}
  BY DEF Left, LiveOffs, GoodBacks, Backs, Granted, Opens, DeadOffs, Shut, Shuts, Offs
<1>4. Ordered(x)'
  BY <1>1, <1>2 DEF Ordered, ViewFacts
<1>5. CASE HeardQuietly(x, m)
  <2>1. m \notin Left /\ (Covered(x)' => det'[x] = det[x]) /\ job'[x].unsub = job[x].unsub
    BY <1>3, <1>5 DEF HeardQuietly
  <2>2. Known(x)' /\ Standing(x)' /\ Late(x)'
    BY <1>1, <1>2, <2>1 DEF Known, Standing, Late, ViewFacts
  <2> QED
    BY <1>4, <2>2 DEF ViewFacts
<1>6. CASE HeardBack(x, m)
  <2>1. m \notin Left /\ job'[x].unsub = job[x].unsub
    BY <1>3, <1>6 DEF HeardBack
  <2>2. Covered(x) => x \in subs \/ ~Free(down'[x], Left)
    <3>1. CASE m \in GoodBacks
      BY <1>2, <2>1, <3>1 DEF Standing, ViewFacts
    <3>2. CASE m \in Granted
      BY <1>2, <3>2 DEF Ordered, ViewFacts
    <3>3. CASE m \in Shut
      BY <1>2, <3>3 DEF Ordered, ViewFacts, Covered
    <3> QED
      BY <1>6, <3>1, <3>2, <3>3 DEF HeardBack
  <2>3. Covered(x) => Free(up[x], DeadOffs)
    <3>1. CASE m \in GoodBacks
      BY <1>2, <1>3, <3>1 DEF Late, ViewFacts
    <3>2. CASE m \in Granted
      BY <1>2, <1>3, <3>2, FreeSubset DEF Ordered, ViewFacts
    <3>3. CASE m \in Shut
      BY <1>2, <3>3 DEF Ordered, ViewFacts, Covered
    <3> QED
      BY <1>6, <3>1, <3>2, <3>3 DEF HeardBack
  <2>4. Known(x)'
    BY <1>1, <1>2, <2>2 DEF Known
  <2>5. Standing(x)'
    BY <1>1, <1>2, <2>1 DEF Standing, ViewFacts
  <2>6. Late(x)'
    BY <1>1, <1>2, <2>3 DEF Late
  <2> QED
    BY <1>4, <2>4, <2>5, <2>6 DEF ViewFacts
<1>7. CASE HeardOff(x, m)
  <2>1. det \in [Session -> BOOLEAN] /\ x \in Session
    BY ShapeParts DEF LockInv, CacheTypes, ServerTypeOK
  <2>2. /\ det[x] => det'[x]
        /\ job[x].unsub = "subscribed" => det'[x]
        /\ m \in Left => det'[x]
    BY <1>7, <2>1 DEF HeardOff, MayHaveLeft, Left
  <2>3. Known(x)'
    BY <1>1, <1>2, <2>2 DEF Known, ViewFacts
  <2>4. Standing(x)'
    BY <1>1, <1>2, <2>2 DEF Standing, ViewFacts
  <2>5. Late(x)'
    BY <1>1, <1>2, <2>2 DEF Late, ViewFacts
  <2> QED
    BY <1>4, <2>3, <2>4, <2>5 DEF ViewFacts
<1> QED
  BY <1>1, <1>5, <1>6, <1>7

-----------------------------------------------------------------------------
(* The app-server answers a session *)

(* No subscription changes hands.                                             *)
ServedIdly(x, r) ==
  /\ r \notin GoodBacks \cup Left \cup Away \cup Granted \cup Shut
  /\ (x \in subs' <=> x \in subs) /\ (x \in views' => x \in views)
  /\ (Covered(x)' => Covered(x))

ServedBack(x, r) ==
  /\ r \in Backs \cup Opens \/ (r.op \in Internal \ {"junsub"} /\ ~r.live)
  /\ x \in subs'
  /\ r \notin Opens => (x \in views' => x \in views) /\ (Covered(x)' => Covered(x))

ServedOff(x, r) ==
  /\ x \notin subs'
  /\ \/ r \in Shut /\ x \notin views'
     \/ /\ r \in Offs /\ r.ok /\ (x \in views' => x \in views) /\ (Covered(x)' => Covered(x))
        /\ x \in subs <=> r.tag = "unsubscribed"

(* An answer that names the runtime's provider names that of the moment.      *)
Truthful(r) == r.ok /\ r \in Backs \cup Opens \cup Lists => r.prov = rt'

LEMMA RefusedIdly ==
  ASSUME NEW m \in Message
  PROVE  LET r == Answer(m, FALSE, NoProvider, "")
         IN Truthful(r) /\ r \notin GoodBacks \cup Left \cup Away \cup Granted \cup Shut
<1> DEFINE r == Answer(m, FALSE, NoProvider, "")
<1>1. r.ok = FALSE /\ r.tag = ""
  BY DEF Answer, Message
<1> HIDE DEF r
<1>2. Truthful(r) /\ r \notin GoodBacks \cup Left \cup Away \cup Granted \cup Shut
  BY <1>1 DEF Truthful, GoodBacks, Left, Away, Granted, Shut, Shuts
<1> QED
  BY <1>2 DEF r

LEMMA AnswerProv ==
  ASSUME NEW m \in Message, NEW ok \in BOOLEAN, NEW p, NEW tag
  PROVE  Answer(m, ok, p, tag).prov = p
BY DEF Answer, Message

(* The answer r, and what the step does to the session that gets it.          *)
ServedWell(x) ==
  \E r \in Message :
    /\ Longer(down[x], r, down'[x]) /\ Echoes(r, Head(up[x])) /\ Truthful(r)
    /\ ServedIdly(x, r) \/ ServedBack(x, r) \/ ServedOff(x, r)

LEMMA ServeChannels ==
  ASSUME LockInv, NEW x \in conn, ServeStep(x) \/ ServeFault(x)
  PROVE  /\ up[x] # <<>> /\ Shorter(up[x], up'[x]) /\ Head(up[x]) \in Message
         /\ Head(up[x]).prov \in Provider \cup {NoProvider}
         /\ UNCHANGED <<conn, det, job, pc, todo, at>>
         /\ Covered(x) <=> x \in views /\ x \notin lapsed
         /\ Covered(x)' <=> x \in views' /\ x \notin lapsed'
<1>1. /\ x \in Session /\ up \in [Session -> Seq(Message)]
  BY ShapeParts DEF LockInv, ServerTypeOK
<1>2. /\ up[x] # <<>> /\ up' = [up EXCEPT ![x] = Tail(@)]
      /\ UNCHANGED <<conn, det, job, pc, todo, at>>
  BY DEF ServeStep, ServeFault, Serve, ServeError, others, handler, caches
<1>3. Shorter(up[x], up'[x]) /\ Head(up[x]) \in Message
  BY <1>1, <1>2, TailShorter
<1>4. Head(up[x]).prov \in Provider \cup {NoProvider}
  BY <1>3 DEF Message
<1> QED
  BY <1>2, <1>3, <1>4 DEF Covered

LEMMA ServeViews ==
  ASSUME NEW x \in conn, ServeStep(x)
  PROVE  LET m == Head(up[x])
         IN /\ lapsed' = IF m.op = "dresume" /\ ~archived THEN lapsed \ {x} ELSE lapsed
            /\ m.op = "dresume" => views' = IF archived THEN views \ {x} ELSE views \cup {x}
            /\ m.op = "dunsub" => views' = views \ {x}
            /\ m.op \notin {"dresume", "dunsub"} => views' = views
BY DEF ServeStep

LEMMA ServedBy ==
  ASSUME LockInv, NEW x \in conn, NEW r, Echoes(r, Head(up[x])), NEW n \in Notice, NEW to,
         down' = Deliveries(x, r, n, to), Truthful(r),
         ServedIdly(x, r) \/ ServedBack(x, r) \/ ServedOff(x, r)
  PROVE  ServedWell(x)
<1>1. down \in [Session -> Seq(Message)] /\ x \in Session
  BY ShapeParts DEF LockInv, ServerTypeOK
<1>2. r \in Message
  BY DEF Echoes
<1>3. Longer(down[x], r, down'[x])
  BY <1>1, <1>2, DeliveredOrder
<1> QED
  BY <1>2, <1>3 DEF ServedWell

LEMMA RepliedBy ==
  ASSUME LockInv, NEW x \in conn, NEW r, Echoes(r, Head(up[x])), Reply(x, r),
         Truthful(r), ServedIdly(x, r) \/ ServedBack(x, r) \/ ServedOff(x, r)
  PROVE  ServedWell(x)
<1>1. "closed" \in Notice
  BY DEF Notice, Closings
<1>2. down' = Deliveries(x, r, "closed", {})
  BY DEF Reply
<1> QED
  BY <1>1, <1>2, ServedBy

LEMMA RefusedView ==
  ASSUME LockInv, NEW x \in conn, ServeStep(x) \/ ServeFault(x),
         Reply(x, Answer(Head(up[x]), FALSE, NoProvider, "")),
         x \in subs' <=> x \in subs, UNCHANGED lapsed, x \in views' => x \in views
  PROVE  ServedWell(x)
<1> DEFINE m == Head(up[x])
           r == Answer(m, FALSE, NoProvider, "")
<1>1. m \in Message /\ NoProvider \in Provider \cup {NoProvider} /\ (Covered(x)' => Covered(x))
  BY ServeChannels
<1> HIDE DEF m
<1>2. Echoes(r, m)
  BY <1>1, AnswerEchoes
<1>3. Truthful(r) /\ r \notin GoodBacks \cup Left \cup Away \cup Granted \cup Shut
  BY <1>1, RefusedIdly
<1>4. Reply(x, r)
  BY DEF m
<1> HIDE DEF r
<1>5. ServedIdly(x, r)
  BY <1>1, <1>3 DEF ServedIdly
<1> QED
  BY <1>2, <1>3, <1>4, <1>5, RepliedBy DEF m

LEMMA ResumedView ==
  ASSUME LockInv, NEW x \in conn, ServeStep(x), ServeResume(x, Head(up[x]))
  PROVE  ServedWell(x)
<1> DEFINE m == Head(up[x])
           r == Answer(m, TRUE, rt', "")
<1>1. /\ m \in Message /\ m.prov \in Provider \cup {NoProvider} /\ rt \in Provider
      /\ Covered(x) <=> x \in views /\ x \notin lapsed
      /\ Covered(x)' <=> x \in views' /\ x \notin lapsed'
  BY ServeChannels, ShapeParts DEF LockInv, ServerTypeOK
<1>2. /\ lapsed' = IF m.op = "dresume" /\ ~archived THEN lapsed \ {x} ELSE lapsed
      /\ m.op = "dresume" => views' = IF archived THEN views \ {x} ELSE views \cup {x}
      /\ m.op \notin {"dresume", "dunsub"} => views' = views
  BY ServeViews
<1>3. /\ m.op \in {"dresume", "resume", "jresub", "jrestore"}
      /\ archived => Reply(x, Answer(m, FALSE, NoProvider, "")) /\ UNCHANGED subs
      /\ ~archived => rt' \in Resumed(m.prov) /\ subs' = subs \cup ({x} \cap conn) /\ Reply(x, r)
  BY DEF ServeResume
<1>4. CASE archived
  <2>1. Reply(x, Answer(m, FALSE, NoProvider, "")) /\ UNCHANGED <<subs, lapsed>>
        /\ (x \in views' => x \in views)
    BY <1>2, <1>3, <1>4
  <2> QED
    BY <2>1, RefusedView
<1>5. CASE ~archived
  <2> HIDE DEF m
  <2>1. rt' \in Provider \cup {NoProvider} /\ x \in subs'
    <3>1. Resumed(m.prov) \subseteq Provider
      BY <1>1, ResumedType, ShapeParts DEF LockInv
    <3> QED
      BY <1>3, <1>5, <3>1
  <2>2. Echoes(r, m)
    BY <1>1, <2>1, AnswerEchoes
  <2>3. Reply(x, r)
    BY <1>3, <1>5
  <2>8. r.prov = rt'
    BY <1>1, AnswerProv
  <2> HIDE DEF r
  <2>4. r \in Message /\ r.op = m.op /\ r.live \in BOOLEAN
    BY <2>2 DEF Echoes, Message
  <2>5. r \in Backs \cup Opens \/ (r.op \in Internal \ {"junsub"} /\ ~r.live)
    BY <1>3, <2>4 DEF Backs, Opens, Internal
  <2>6. r \notin Opens => m.op \notin {"dresume", "dunsub"}
    BY <1>3, <2>4 DEF Opens
  <2>7. ServedBack(x, r)
    BY <1>1, <1>2, <2>1, <2>5, <2>6 DEF ServedBack
  <2> QED
    BY <2>2, <2>3, <2>7, <2>8, RepliedBy DEF Truthful, m
<1> QED
  BY <1>4, <1>5

LEMMA LeftView ==
  ASSUME LockInv, NEW x \in conn, ServeStep(x), ServeUnsubscribe(x, Head(up[x]))
  PROVE  ServedWell(x)
<1> DEFINE m == Head(up[x])
           tag == IF x \in subs THEN "unsubscribed"
                  ELSE IF loaded THEN "notSubscribed" ELSE "notLoaded"
           r == Answer(m, TRUE, NoProvider, tag)
<1>1. /\ m \in Message /\ NoProvider \in Provider \cup {NoProvider}
      /\ Covered(x) <=> x \in views /\ x \notin lapsed
      /\ Covered(x)' <=> x \in views' /\ x \notin lapsed'
  BY ServeChannels
<1>2. /\ m.op # "dresume" => lapsed' = lapsed
      /\ m.op = "dunsub" => views' = views \ {x}
      /\ m.op \notin {"dresume", "dunsub"} => views' = views
  BY ServeViews
<1>3. m.op \in {"dunsub", "junsub"} /\ subs' = subs \ {x} /\ Reply(x, r)
  BY DEF ServeUnsubscribe
<1>4. /\ tag \in {"", "idle", "active", "notLoaded", "unsubscribed", "notSubscribed"}
      /\ x \in subs <=> tag = "unsubscribed"
  OBVIOUS
<1> HIDE DEF m, tag
<1>5. Echoes(r, m) /\ r.tag = tag /\ r.ok
  BY <1>1, <1>4, AnswerEchoes, AnswerTag DEF Answer, Message
<1> HIDE DEF r
<1>6. r \in Message /\ r.op = m.op /\ Truthful(r)
  BY <1>3, <1>5 DEF Echoes, Truthful, Backs, Opens, Lists
<1>7. CASE m.op = "dunsub"
  <2>1. r \in Shut /\ x \notin views' /\ x \notin subs'
    BY <1>2, <1>3, <1>5, <1>6, <1>7 DEF Shut, Shuts
  <2> QED
    BY <1>3, <1>5, <1>6, <2>1, RepliedBy DEF ServedOff, m
<1>8. CASE m.op = "junsub"
  <2>1. /\ r \in Offs /\ r.ok /\ x \notin subs' /\ (x \in subs <=> r.tag = "unsubscribed")
        /\ UNCHANGED <<views, lapsed>>
    BY <1>2, <1>3, <1>4, <1>5, <1>6, <1>8 DEF Offs
  <2>2. ServedOff(x, r)
    BY <1>1, <2>1 DEF ServedOff
  <2> QED
    BY <1>3, <1>5, <1>6, <2>2, RepliedBy DEF m
<1> QED
  BY <1>3, <1>7, <1>8

LEMMA AskedView ==
  ASSUME LockInv, NEW x \in conn, ServeStep(x),
         ServeList(x, Head(up[x])) \/ ServeTurn(x, Head(up[x]))
  PROVE  ServedWell(x)
<1> DEFINE m == Head(up[x])
<1>1. /\ m \in Message /\ m.prov \in Provider \cup {NoProvider} /\ rt \in Provider
      /\ Covered(x) <=> x \in views /\ x \notin lapsed
      /\ Covered(x)' <=> x \in views' /\ x \notin lapsed'
  BY ServeChannels, ShapeParts DEF LockInv, ServerTypeOK
<1>2. m.op \in {"list", "turn"} /\ UNCHANGED subs
  BY DEF ServeList, ServeTurn
<1>3. UNCHANGED <<views, lapsed>>
  BY <1>2, ServeViews
<1>4. ASSUME NEW r, Echoes(r, m)
      PROVE  ServedIdly(x, r)
  <2>1. r.op \in {"list", "turn"}
    BY <1>2, <1>4 DEF Echoes
  <2>2. r \notin GoodBacks \cup Left \cup Away \cup Granted \cup Shut
    BY <2>1 DEF GoodBacks, Backs, Left, Away, LiveOffs, Offs, Granted, Opens, Shut, Shuts
  <2> QED
    BY <1>1, <1>2, <1>3, <2>2 DEF ServedIdly
<1>5. CASE ServeList(x, m)
  <2> DEFINE r == Answer(m, TRUE, rt, Status)
  <2>1. /\ rt \in Provider \cup {NoProvider}
        /\ Status \in {"", "idle", "active", "notLoaded", "unsubscribed", "notSubscribed"}
    BY <1>1 DEF Status
  <2>2. Reply(x, r) /\ rt' = rt
    BY <1>5 DEF ServeList
  <2> HIDE DEF m
  <2>3. Echoes(r, m) /\ r.prov = rt
    BY <1>1, <2>1, AnswerEchoes, AnswerProv
  <2> HIDE DEF r
  <2> QED
    BY <1>4, <2>2, <2>3, RepliedBy DEF Truthful, m
<1>6. CASE ServeTurn(x, m)
  <2>1. PICK ok \in BOOLEAN, n \in Notice, to \in {{}, subs} :
          down' = Deliveries(x, Answer(m, ok, m.prov, ""), n, to)
    <3>1. "started" \in Notice /\ "closed" \in Notice
      BY DEF Notice, Closings
    <3> QED
      BY <1>6, <3>1 DEF ServeTurn, Reply
  <2> DEFINE r == Answer(m, ok, m.prov, "")
  <2>2. down' = Deliveries(x, r, n, to)
    BY <2>1
  <2> HIDE DEF m
  <2>3. Echoes(r, m) /\ m.op = "turn"
    BY <1>1, <1>6, AnswerEchoes DEF ServeTurn
  <2> HIDE DEF r
  <2>4. Truthful(r)
    BY <2>3 DEF Echoes, Truthful, Backs, Opens, Lists
  <2> QED
    BY <1>4, <2>2, <2>3, <2>4, ServedBy DEF m
<1> QED
  BY <1>5, <1>6

LEMMA ServeView ==
  ASSUME LockInv, NEW x \in conn, ServeStep(x) \/ ServeFault(x)
  PROVE  ServedWell(x)
<1>1. CASE ServeFault(x)
  <2>1. /\ Reply(x, Answer(Head(up[x]), FALSE, NoProvider, ""))
        /\ UNCHANGED <<subs, lapsed>> /\ (x \in views' => x \in views)
    BY <1>1 DEF ServeFault, ServeError
  <2> QED
    BY <1>1, <2>1, RefusedView
<1>2. CASE ServeStep(x)
  <2>1. LET m == Head(up[x])
        IN ServeResume(x, m) \/ ServeUnsubscribe(x, m) \/ ServeList(x, m) \/ ServeTurn(x, m)
    BY <1>2 DEF ServeStep, Serve
  <2> QED
    BY <1>2, <2>1, ResumedView, LeftView, AskedView
<1> QED
  BY <1>1, <1>2

LEMMA EchoKinds ==
  ASSUME NEW m \in Message, NEW r, Echoes(r, m)
  PROVE  /\ r \in Backs <=> m \in Backs
         /\ r \in PeerBacks <=> m \in PeerBacks
         /\ r \in Offs <=> m \in Offs
         /\ r \in LiveOffs <=> m \in LiveOffs
         /\ r \in DeadOffs <=> m \in DeadOffs
         /\ r \in Opens <=> m \in Opens
         /\ r \in Shuts <=> m \in Shuts
BY DEF Echoes, Shuts, Backs, PeerBacks, Offs, LiveOffs, DeadOffs, Opens

LEMMA ServedFacts ==
  ASSUME LockInv, CallsOK, NEW x \in conn, ServeStep(x) \/ ServeFault(x), ViewFacts(x)
  PROVE  ViewFacts(x)'
<1> DEFINE m == Head(up[x])
<1>1. /\ up[x] # <<>> /\ Shorter(up[x], up'[x]) /\ m \in Message
      /\ UNCHANGED <<conn, det, job>>
      /\ Covered(x) <=> x \in views /\ x \notin lapsed
      /\ Covered(x)' <=> x \in views' /\ x \notin lapsed'
  BY ServeChannels
<1>2. PICK r \in Message :
        /\ Longer(down[x], r, down'[x]) /\ Echoes(r, m)
        /\ ServedIdly(x, r) \/ ServedBack(x, r) \/ ServedOff(x, r)
  BY ServeView DEF ServedWell
<1>3. /\ m \in Opens => Free(down[x], Shut)
      /\ m \in LiveOffs => Free(down[x], LiveOffs)
  BY <1>1, OnlyDesktopCall, OnlyUnsubCall
<1> HIDE DEF m
<1>4. /\ \A A : Free(up[x], A) <=> m \notin A /\ Free(up'[x], A)
      /\ \A A, B : NoneAfter(up[x], A, B) <=>
                     NoneAfter(up'[x], A, B) /\ (m \in A => Free(up'[x], B))
  BY <1>1 DEF Shorter, m
<1>5. /\ \A A \in SUBSET CallMessages : Free(down'[x], A) <=> Free(down[x], A) /\ r \notin A
      /\ \A A, B \in SUBSET CallMessages :
           NoneAfter(down'[x], A, B) <=> NoneAfter(down[x], A, B) /\ (r \in B => Free(down[x], A))
  BY <1>2 DEF Longer
<1>6. /\ r \in Backs <=> m \in Backs
      /\ r \in Offs <=> m \in Offs
      /\ r \in LiveOffs <=> m \in LiveOffs
      /\ r \in DeadOffs <=> m \in DeadOffs
      /\ r \in Opens <=> m \in Opens
  BY <1>1, <1>2, EchoKinds
<1>7. /\ Left \subseteq LiveOffs /\ GoodBacks \subseteq Backs /\ Granted \subseteq Opens
      /\ DeadOffs \subseteq Offs /\ Offs = LiveOffs \cup DeadOffs
      /\ Offs \cap (Backs \cup Opens \cup Shut) = {} /\ Opens \cap Shut = {}
  BY DEF Left, LiveOffs, GoodBacks, Backs, Granted, Opens, DeadOffs, Shut, Shuts, Offs, Message
<1>8. m \in Opens => Free(up'[x], Offs) /\ Free(up'[x], DeadOffs)
  BY <1>4, <1>7, FreeSubset DEF Ordered, ViewFacts
<1>9. m \in Offs => Free(down[x], Opens) /\ Free(down[x], Granted)
  BY <1>4, <1>7, FreeSubset DEF Ordered, ViewFacts
<1>10. ServedIdly(x, r) \/ (ServedBack(x, r) /\ x \in subs') \/ (ServedOff(x, r) /\ r \in Offs)
       \/ (x \notin views' /\ r \in Shut)
  BY <1>2 DEF ServedBack, ServedOff
<1>11. Covered(x)' => Covered(x) \/ m \in Opens
  BY <1>1, <1>6, <1>10 DEF ServedIdly, ServedBack, ServedOff
<1>12. Ordered(x)'
  <2>1. NoneAfter(up'[x], Opens, Offs)
    BY <1>4 DEF Ordered, ViewFacts
  <2>2. NoneAfter(down'[x], Opens, Offs)
    BY <1>5, <1>6, <1>9, KindsAreCalls DEF Ordered, ViewFacts
  <2>3. Free(up'[x], Offs) \/ Free(down'[x], Opens)
    BY <1>4, <1>5, <1>6, <1>8, KindsAreCalls DEF Ordered, ViewFacts
  <2>4. Covered(x)' /\ ~Free(down'[x], Granted) => x \in subs'
    <3>1. CASE ServedIdly(x, r)
      BY <1>5, <3>1, KindsAreCalls DEF ServedIdly, Ordered, ViewFacts
    <3>2. CASE r \in Offs
      BY <1>5, <1>6, <1>7, <1>9, <3>2, KindsAreCalls
    <3> QED
      BY <1>1, <1>10, <3>1, <3>2
  <2>5. ~Free(down'[x], Shut) => x \notin views'
    <3>1. CASE ServedIdly(x, r)
      BY <1>5, <3>1, KindsAreCalls DEF ServedIdly, Ordered, ViewFacts
    <3>2. CASE ServedBack(x, r)
      <4>1. r \notin Shut
        BY <3>2, <1>7 DEF ServedBack, Shut, Shuts, Internal, Backs
      <4> QED
        BY <1>3, <1>5, <1>6, <3>2, <4>1, KindsAreCalls DEF ServedBack, Ordered, ViewFacts
    <3>3. CASE ServedOff(x, r) /\ r \in Offs
      BY <1>5, <1>7, <3>3, KindsAreCalls DEF ServedOff, Ordered, ViewFacts
    <3> QED
      BY <1>10, <3>1, <3>2, <3>3
  <2> QED
    BY <2>1, <2>2, <2>3, <2>4, <2>5 DEF Ordered
<1>13. Late(x)'
  <2> SUFFICES ASSUME Covered(x)', ~Free(up'[x], DeadOffs)
               PROVE  det'[x] /\ Free(down'[x], Backs) /\ NoneAfter(up'[x], Backs, DeadOffs)
    BY DEF Late
  <2>1. Covered(x) /\ ~Free(up[x], DeadOffs)
    BY <1>4, <1>8, <1>11
  <2>2. det[x] /\ Free(down[x], Backs) /\ NoneAfter(up[x], Backs, DeadOffs)
    BY <2>1 DEF Late, ViewFacts
  <2>3. m \notin Backs
    BY <1>4, <2>2
  <2> QED
    BY <1>1, <1>4, <1>5, <1>6, <2>2, <2>3, KindsAreCalls
<1>14. CASE ServedIdly(x, r)
  <2>1. /\ r \notin GoodBacks /\ r \notin Left /\ (x \in subs' <=> x \in subs)
        /\ Covered(x)' => Covered(x)
    BY <1>14 DEF ServedIdly
  <2>2. Known(x)' /\ Standing(x)'
    BY <1>1, <1>5, <2>1, KindsAreCalls DEF Known, Standing, ViewFacts
  <2> QED
    BY <1>12, <1>13, <2>2 DEF ViewFacts
<1>15. CASE ServedOff(x, r) /\ r \in Offs
  <2>1. /\ r \notin GoodBacks
        /\ Covered(x)' => Covered(x)
        /\ x \notin subs' /\ (x \in subs <=> r.tag = "unsubscribed")
    BY <1>6, <1>7, <1>11, <1>15 DEF ServedOff
  <2>2. CASE r \in DeadOffs
    <3>1. Covered(x) => det[x] /\ Free(down[x], Backs) /\ Free(down[x], GoodBacks)
      BY <1>4, <1>6, <1>7, <2>2, FreeSubset DEF Late, ViewFacts
    <3>2. Known(x)' /\ Standing(x)'
      BY <1>1, <1>5, <2>1, <3>1, KindsAreCalls DEF Known, Standing
    <3> QED
      BY <1>12, <1>13, <3>2 DEF ViewFacts
  <2>3. CASE r \in LiveOffs
    <3>1. Free(down[x], LiveOffs) /\ Free(down[x], Left)
      BY <1>3, <1>6, <1>7, <2>3, FreeSubset
    <3>2. x \in subs <=> r \in Left
      BY <2>1, <2>3 DEF Left
    <3>3. Known(x)'
      BY <1>1, <1>5, <2>1, <3>2, KindsAreCalls DEF Known, ViewFacts
    <3>4. NoneAfter(down[x], Left, GoodBacks)
      BY <3>1, FreeOrder
    <3>5. Standing(x)'
      BY <1>1, <1>5, <2>1, <3>2, <3>4, KindsAreCalls DEF Standing, ViewFacts
    <3> QED
      BY <1>12, <1>13, <3>3, <3>5 DEF ViewFacts
  <2> QED
    BY <1>7, <1>15, <2>2, <2>3
<1>16. CASE ServedBack(x, r) \/ (x \notin views' /\ r \in Shut)
  BY <1>1, <1>12, <1>13, <1>16 DEF ServedBack, Known, Standing, ViewFacts
<1> QED
  BY <1>10, <1>14, <1>15, <1>16

-----------------------------------------------------------------------------
(* Every step keeps what a session can rely on *)

LEMMA ViewFactsStep ==
  ASSUME LockInv, CallsOK, MarkInv, ViewInv, [Next]_vars, NEW x \in conn, x \in conn'
  PROVE  ViewFacts(x)'
<1>1. ViewFacts(x) /\ x \in Session
  BY ShapeParts DEF ViewInv, LockInv, ServerTypeOK
<1>2. CASE Close(x)
  BY <1>2 DEF Close, Disconnect
<1>3. ASSUME NEW s \in Session, ArchiveRoot(s), Archive
      PROVE  ViewFacts(x)'
  <2>1. Gone(x)
    BY <1>1, <1>3 DEF ArchiveRoot, Step, ViewInv, PassFacts, GoneLabels
  <2> QED
    BY <1>1, <1>3, <2>1, ArchiveFacts
<1> QED
  BY <1>1, <1>2, <1>3, ViewSteps, StillFacts, SentFacts, ForwardsFacts, HeardFacts, TimeoutFacts,
     ServedFacts DEF Touches

(* What holds of a session that was not open before the step.                 *)
LEMMA NewFacts ==
  ASSUME LockInv, CallsOK, SupInv, [Next]_vars, NEW x \in Session, x \notin conn
  PROVE  /\ x \notin views' /\ Gone(x)'
         /\ x \in conn' => ViewFacts(x)' /\ Leaving(x)'
<1>1. x \notin views'
  BY ViewGain DEF SupInv
<1>2. ~Covered(x)'
  BY <1>1 DEF Covered
<1>3. Gone(x)'
  BY <1>2 DEF Gone
<1>4. ASSUME x \in conn'
      PROVE  ViewFacts(x)' /\ Leaving(x)'
  <2>1. up'[x] = <<>> /\ down'[x] = <<>>
    <3>1. Open(x) /\ up[x] = <<>> /\ down[x] = <<>>
      BY <1>4, Opened
    <3> QED
      BY <3>1 DEF Open, Connect
  <2>2. /\ \A A : Free(up'[x], A) /\ Free(down'[x], A)
        /\ \A A, B : NoneAfter(up'[x], A, B) /\ NoneAfter(down'[x], A, B)
    BY <2>1 DEF Free, NoneAfter
  <2> QED
    BY <1>2, <1>3, <2>2 DEF ViewFacts, Known, Standing, Late, Ordered, Leaving
<1> QED
  BY <1>1, <1>3, <1>4

-----------------------------------------------------------------------------
(* Who is gone stays away *)

Emptying == GoneLabels \cup {"unsub"}

(* The steps that could bring back a peer that is gone do not happen while a  *)
(* handler is between the unsubscribe pass and the archive.                   *)
LEMMA EmptyingAlone ==
  ASSUME LockInv, NEW s \in Session, pc[s] \in Emptying, NEW x \in Session
  PROVE  pc[x] \in {"idle", "lock"} \cup Emptying
BY OneHolder DEF LockInv, Emptying, GoneLabels

LEMMA SentGone ==
  ASSUME LockInv, CallsOK, NEW x \in conn, Sends(x), NEW s \in Session, pc[s] \in Emptying
  PROVE  /\ Gone(x) => Gone(x)'
         /\ Leaving(x) \/ job'[x].unsub # job[x].unsub => Leaving(x)'
<1>1. PICK m \in Message :
        /\ m.live /\ Longer(up[x], m, up'[x]) /\ down'[x] = down[x]
        /\ x \in conn' /\ det'[x] = det[x]
        /\ (x \in views' <=> x \in views) /\ (x \in lapsed' <=> x \in lapsed)
        /\ m.op = "junsub" => job[x].unsub \notin Running /\ job'[x].unsub \in Running
        /\ m.op # "junsub" => job'[x].unsub = job[x].unsub
        /\ m.op \in {"jresub", "jrestore"} => \E t \in Session : pc[t] \in {"resub", "restore"}
  BY DEF Sends
<1>2. m \notin PeerBacks
  <2>1. \A t \in Session : pc[t] \notin {"resub", "restore"}
    BY EmptyingAlone DEF Emptying, GoneLabels
  <2> QED
    BY <1>1, <2>1 DEF PeerBacks
<1>3. Covered(x)' <=> Covered(x)
  BY <1>1 DEF Covered
<1>4. Gone(x) => Gone(x)'
  BY <1>1, <1>2, <1>3, KindsAreCalls DEF Longer, Gone
<1>5. CASE m.op = "junsub"
  <2>1. Free(up[x], LiveOffs) /\ Free(down[x], LiveOffs)
    BY <1>1, <1>5, NoUnsubCall DEF Unsubbing
  <2>2. Away \subseteq LiveOffs
    BY DEF Away
  <2>3. /\ NoneAfter(up[x], LiveOffs, PeerBacks) /\ NoneAfter(down[x], LiveOffs, PeerBacks)
        /\ Free(down[x], Away)
    BY <2>1, <2>2, FreeOrder, FreeSubset
  <2>4. NoneAfter(up'[x], LiveOffs, PeerBacks)
    BY <1>1, <1>2, <2>3, KindsAreCalls DEF Longer
  <2>5. job'[x].unsub # "ok"
    BY <1>1, <1>5 DEF Running
  <2> QED
    BY <1>1, <1>4, <2>1, <2>3, <2>4, <2>5 DEF Leaving
<1>6. CASE m.op # "junsub" /\ Leaving(x)
  <2>1. m \notin LiveOffs
    BY <1>6 DEF LiveOffs, Offs
  <2>2. NoneAfter(up'[x], LiveOffs, PeerBacks) /\ (Free(up[x], PeerBacks) => Free(up'[x], PeerBacks))
    BY <1>1, <1>2, <1>6, KindsAreCalls DEF Longer, Leaving
  <2> QED
    BY <1>1, <1>3, <1>4, <1>6, <2>2 DEF Leaving
<1> QED
  BY <1>1, <1>4, <1>5, <1>6

LEMMA HeardGone ==
  ASSUME LockInv, CallsOK, NEW x \in conn, Hear(x), NEW s \in Session,
         pc[s] \in Emptying, pc'[s] \in Emptying
  PROVE  (Gone(x) => Gone(x)') /\ (Leaving(x) => Leaving(x)')
<1> DEFINE m == Head(down[x])
<1>1. /\ down[x] # <<>> /\ Shorter(down[x], down'[x]) /\ m \in Message
      /\ up'[x] = up[x] /\ UNCHANGED <<conn, subs, lapsed>>
      /\ HeardQuietly(x, m) \/ HeardBack(x, m) \/ HeardOff(x, m)
  BY HearView
<1>2. m \in LiveOffs => Free(Tail(down[x]), LiveOffs) /\ Free(up[x], LiveOffs)
  BY <1>1, OnlyUnsubCall
<1>3. down'[x] = Tail(down[x]) /\ x \in Session /\ det \in [Session -> BOOLEAN]
  BY ShapeParts DEF LockInv, ServerTypeOK, CacheTypes, Hear
<1> HIDE DEF m
<1>4. /\ \A A : Free(down[x], A) <=> m \notin A /\ Free(down'[x], A)
      /\ \A A, B : NoneAfter(down[x], A, B) <=>
                     NoneAfter(down'[x], A, B) /\ (m \in A => Free(down'[x], B))
  BY <1>1 DEF Shorter, m
<1>5. Covered(x)' => Covered(x)
  BY <1>1 DEF HeardQuietly, HeardBack, HeardOff
<1>6. HeardBack(x, m) => m \in PeerBacks
  <2>1. pc[x] \in {"idle", "lock"} \cup Emptying /\ (pc[x] \in Emptying => x = s)
    BY <1>3, EmptyingAlone, OneHolder DEF LockInv, Emptying, GoneLabels
  <2>2. pc[x] \notin {"answer", "recoverResumeWait"} /\ (pc[x] = "resumeWait" => pc'[x] # "stageResub")
    BY <2>1 DEF Emptying, GoneLabels
  <2> QED
    BY <2>2 DEF HeardBack
<1>7. PeerBacks \cap LiveOffs = {} /\ PeerBacks \subseteq Backs /\ Away \subseteq LiveOffs
  BY DEF PeerBacks, Backs, LiveOffs, Offs, Away
<1>8. HeardOff(x, m) /\ det[x] => det'[x]
  BY <1>3 DEF HeardOff, MayHaveLeft
<1>9. Gone(x) => Gone(x)'
  BY <1>1, <1>4, <1>5, <1>6, <1>8 DEF HeardQuietly, Gone
<1>10. ASSUME Leaving(x)
       PROVE  Leaving(x)'
  <2>1. /\ NoneAfter(up'[x], LiveOffs, PeerBacks) /\ NoneAfter(down'[x], LiveOffs, PeerBacks)
        /\ Free(down'[x], LiveOffs) \/ Free(up'[x], PeerBacks)
    BY <1>1, <1>4, <1>10 DEF Leaving
  <2>2. CASE HeardQuietly(x, m)
    <3>1. job'[x].unsub = job[x].unsub /\ (Covered(x)' => det'[x] = det[x])
      BY <2>2 DEF HeardQuietly
    <3> QED
      BY <1>4, <1>5, <1>9, <1>10, <2>1, <3>1 DEF Leaving
  <2>3. CASE HeardBack(x, m)
    <3>1. m \in GoodBacks
      BY <1>6, <2>3 DEF HeardBack, GoodBacks, Granted, Opens, Shut, Shuts, PeerBacks
    <3>2. job'[x].unsub = job[x].unsub
      BY <2>3 DEF HeardBack
    <3> QED
      BY <1>4, <1>5, <1>9, <1>10, <2>1, <3>1, <3>2 DEF Leaving
  <2>4. CASE HeardOff(x, m)
    <3>1. Free(down'[x], LiveOffs) /\ Free(down'[x], Away)
      BY <1>2, <1>3, <1>7, <2>4, FreeSubset DEF HeardOff
    <3>2. ASSUME job'[x].unsub = "ok", Covered(x)'
          PROVE  det'[x] /\ Free(up'[x], PeerBacks) /\ Free(down'[x], PeerBacks)
      <4>1. Covered(x) /\ m.ok /\ m \in LiveOffs
        BY <1>5, <2>4, <3>2 DEF HeardOff, Outcome
      <4>2. Free(up[x], PeerBacks) /\ Free(down'[x], PeerBacks)
        BY <1>4, <1>10, <4>1 DEF Leaving
      <4>3. CASE m.tag = "unsubscribed"
        BY <1>1, <2>4, <4>2, <4>3 DEF HeardOff, MayHaveLeft
      <4>4. CASE m.tag # "unsubscribed"
        <5>1. m \in Away
          BY <4>1, <4>4 DEF Away
        <5>2. job[x].unsub = "subscribed" \/ det[x]
          BY <1>4, <1>10, <4>1, <5>1 DEF Leaving
        <5> QED
          BY <1>1, <1>8, <2>4, <4>2, <5>2 DEF HeardOff, MayHaveLeft
      <4> QED
        BY <4>3, <4>4
    <3> QED
      BY <2>1, <3>1, <3>2 DEF Leaving, Gone
  <2> QED
    BY <1>1, <2>2, <2>3, <2>4
<1> QED
  BY <1>9, <1>10

LEMMA TimeoutGone ==
  ASSUME LockInv, CallsOK, MarkInv, NEW x \in conn, CallTimeout(x) \/ JobTimeout(x)
  PROVE  (Gone(x) => Gone(x)') /\ (Leaving(x) => Leaving(x)')
<1>1. CASE SameView(x) /\ Faded(x, LiveKinds \cup {DeadOffs})
  <2>1. /\ det'[x] = det[x] /\ job'[x].unsub = job[x].unsub
        /\ (Covered(x)' <=> Covered(x))
    BY <1>1 DEF SameView, SameMarks, Covered
  <2>2. Gone(x) => Gone(x)'
    BY <1>1, <2>1 DEF Faded, Fades, LiveKinds, Gone
  <2>3. Leaving(x) => Leaving(x)'
    BY <1>1, <2>1, <2>2 DEF Faded, Fades, LiveKinds, Leaving
  <2> QED
    BY <2>2, <2>3
<1>2. CASE /\ Unsubbing(x) /\ EndUnsubscribe(x, FALSE, "")
           /\ Abandon(x, "junsub") /\ UNCHANGED <<conn, subs, views>>
           /\ lapsed' = IF Unaware(x) THEN lapsed \cup {x} ELSE lapsed
  <2>1. /\ Free(up'[x], LiveOffs) /\ Free(down'[x], LiveOffs)
        /\ Covered(x)' => /\ det'[x]
                          /\ Free(up'[x], Backs) /\ Free(down'[x], Backs)
        /\ job'[x].unsub = "bad"
    BY <1>2, UnsubTimeoutView
  <2>2. PeerBacks \subseteq Backs /\ Away \subseteq LiveOffs
    BY DEF PeerBacks, Backs, Away
  <2>3. Gone(x)'
    BY <2>1, <2>2, FreeSubset DEF Gone
  <2>4. Leaving(x)'
    BY <2>1, <2>2, FreeSubset, FreeOrder DEF Leaving
  <2> QED
    BY <2>3, <2>4
<1> QED
  BY <1>1, <1>2, CallTimeoutView, BackTimeoutView

LEMMA ServedGone ==
  ASSUME LockInv, CallsOK, NEW x \in conn, ServeStep(x) \/ ServeFault(x), ViewFacts(x),
         NEW s \in Session, pc[s] \in Emptying
  PROVE  (Gone(x) => Gone(x)') /\ (Leaving(x) => Leaving(x)')
<1> DEFINE m == Head(up[x])
<1>1. /\ up[x] # <<>> /\ Shorter(up[x], up'[x]) /\ m \in Message
      /\ UNCHANGED <<conn, det, job>>
  BY ServeChannels
<1>2. PICK r \in Message :
        /\ Longer(down[x], r, down'[x]) /\ Echoes(r, m)
        /\ ServedIdly(x, r) \/ ServedBack(x, r) \/ ServedOff(x, r)
  BY ServeView DEF ServedWell
<1>3. m \notin Opens /\ (m \in LiveOffs => Free(down[x], LiveOffs))
  <2>1. m \in Opens => pc[x] = "answer"
    BY <1>1, OnlyDesktopCall
  <2>2. x \in Session
    BY ShapeParts DEF LockInv, ServerTypeOK
  <2>3. pc[x] # "answer"
    BY <2>2, EmptyingAlone DEF Emptying, GoneLabels
  <2> QED
    BY <1>1, <2>1, <2>3, OnlyUnsubCall
<1> HIDE DEF m
<1>4. /\ \A A : Free(up[x], A) <=> m \notin A /\ Free(up'[x], A)
      /\ \A A, B : NoneAfter(up[x], A, B) <=>
                     NoneAfter(up'[x], A, B) /\ (m \in A => Free(up'[x], B))
  BY <1>1 DEF Shorter, m
<1>5. /\ \A A \in SUBSET CallMessages : Free(down'[x], A) <=> Free(down[x], A) /\ r \notin A
      /\ \A A, B \in SUBSET CallMessages :
           NoneAfter(down'[x], A, B) <=> NoneAfter(down[x], A, B) /\ (r \in B => Free(down[x], A))
  BY <1>2 DEF Longer
<1>6. /\ r \in PeerBacks <=> m \in PeerBacks
      /\ r \in LiveOffs <=> m \in LiveOffs
      /\ r \in Opens <=> m \in Opens
  BY <1>1, <1>2, EchoKinds
<1>7. Covered(x)' => Covered(x)
  BY <1>1, <1>2, <1>3, <1>6 DEF ServedIdly, ServedBack, ServedOff, Covered
<1>8. Gone(x) => Gone(x)'
  BY <1>1, <1>4, <1>5, <1>6, <1>7, KindsAreCalls DEF Gone
<1>9. ASSUME Leaving(x)
      PROVE  Leaving(x)'
  <2>1. /\ NoneAfter(up'[x], LiveOffs, PeerBacks) /\ NoneAfter(down'[x], LiveOffs, PeerBacks)
        /\ Free(down'[x], LiveOffs) \/ Free(up'[x], PeerBacks)
    BY <1>4, <1>5, <1>6, <1>9, KindsAreCalls DEF Leaving
  <2>2. ASSUME Covered(x)', ~Free(down'[x], Away), job[x].unsub # "subscribed"
        PROVE  det[x] /\ NoneAfter(down'[x], GoodBacks, Away)
    <3>1. Away \subseteq LiveOffs /\ Left \subseteq LiveOffs
      BY DEF Away, Left
    <3>2. CASE r \notin Away
      BY <1>5, <1>7, <1>9, <2>2, <3>2, KindsAreCalls DEF Leaving
    <3>3. CASE r \in Away
      <4>1. Free(down[x], LiveOffs) /\ Free(down[x], Left) /\ Free(down[x], Away)
        BY <1>3, <1>6, <3>1, <3>3, FreeSubset
      <4>2. x \notin subs
        <5>1. r.op = "junsub" /\ r.live /\ r.tag # "unsubscribed"
          BY <3>3 DEF Away, LiveOffs, Offs
        <5>2. ~ServedIdly(x, r) /\ ~ServedBack(x, r) /\ r \notin Shut
          BY <3>3, <5>1 DEF ServedIdly, ServedBack, Shut, Shuts, Backs, Opens
        <5> QED
          BY <1>2, <5>1, <5>2 DEF ServedOff
      <4>3. det[x] /\ Free(down[x], GoodBacks)
        BY <1>7, <2>2, <4>1, <4>2 DEF ViewFacts, Known, Standing
      <4>4. NoneAfter(down[x], GoodBacks, Away)
        BY <4>1, FreeOrder
      <4> QED
        BY <1>5, <4>3, <4>4, KindsAreCalls
    <3> QED
      BY <3>2, <3>3
  <2>3. job'[x].unsub = "ok" => Gone(x)'
    BY <1>1, <1>8, <1>9 DEF Leaving
  <2> QED
    BY <1>1, <2>1, <2>2, <2>3 DEF Leaving
<1> QED
  BY <1>8, <1>9

LEMMA GoneKept ==
  ASSUME LockInv, CallsOK, MarkInv, [Next]_vars, NEW x \in conn, ViewFacts(x),
         NEW s \in Session, pc[s] \in Emptying, pc'[s] \in Emptying
  PROVE  /\ Gone(x) => Gone(x)'
         /\ pc[s] = "unsub" /\ x \in conn' /\ Leaving(x) => Leaving(x)'
<1>1. x \in Session
  BY ShapeParts DEF LockInv, ServerTypeOK
<1>2. CASE Close(x)
  BY <1>2 DEF Close, Disconnect, Gone, Covered
<1>3. ~Forwards(x)
  <2>1. pc[x] \notin {"forwardResume", "unsubscribe"}
    BY <1>1, EmptyingAlone DEF Emptying, GoneLabels
  <2> QED
    BY <2>1 DEF Forwards, ForwardResume, ForwardUnsubscribe, Forward, Step
<1>4. ASSUME NEW t \in Session, ArchiveRoot(t), Archive
      PROVE  (Gone(x) => Gone(x)') /\ pc[s] # "unsub"
  <2>1. pc[s] # "unsub"
    BY <1>4, OneHolder DEF LockInv, ArchiveRoot, Step
  <2>2. down \in [Session -> Seq(Message)] /\ "archived" \in Notice /\ NoSession \notin conn
    BY ShapeParts, AppServerAssumption DEF LockInv, ServerTypeOK, Notice, Closings
  <2>3. Alike(down[x], down'[x])
    BY <1>1, <1>4, <2>2, DeliveredOrder, NotificationType DEF Archive
  <2>4. UNCHANGED <<conn, up, det, views, lapsed>>
    BY <1>4 DEF ArchiveRoot, Archive, caches
  <2> QED
    BY <2>1, <2>3, <2>4, KindsAreCalls DEF Alike, Gone, Covered
<1> QED
  BY <1>2, <1>3, <1>4, ViewSteps, StillGone, SentGone, HeardGone, TimeoutGone, ServedGone DEF Touches

-----------------------------------------------------------------------------
(* The passes *)

(* Whoever the unsubscribe pass leaves behind is gone.                        *)
LEMMA LeftBehind ==
  ASSUME LockInv, CallsOK, SupInv, MarkInv, ViewInv, [Next]_vars, NEW s \in Session,
         pc[s] \in Emptying, pc'[s] \in Emptying,
         NEW x \in Session, Gone(x) \/ Visited(s, x), pc[s] = "unsub" \/ Gone(x)
  PROVE  Gone(x)'
<1>1. CASE x \notin conn
  BY <1>1, NewFacts
<1>2. CASE x \in conn
  <2>1. Gone(x)
    <3>1. CASE pc[s] = "unsub" /\ at[s] = x /\ job[x].unsub = "ok"
      BY <1>2, <3>1 DEF ViewInv, PassFacts, Leaving
    <3> QED
      BY <1>2, <3>1 DEF Visited, KeyPasses
  <2> QED
    BY <1>2, <2>1, GoneKept DEF ViewInv
<1> QED
  BY <1>1, <1>2

(* The peer an unsubscribe pass waits for.                                    *)
LEMMA WaitedFor ==
  ASSUME LockInv, CallsOK, SupInv, MarkInv, ViewInv, [Next]_vars, NEW s \in Session,
         pc'[s] = "unsub", NEW y \in conn', at'[s] = y
  PROVE  Leaving(y)'
<1>1. /\ Shape /\ Legal(s) /\ y \in Session /\ y # NoSession
      /\ at \in [Session -> Session \cup {NoSession}]
  BY LegalStep, ShapeStep, ShapeParts, AppServerAssumption
     DEF LockInv, Shape, TypeOK, ServerTypeOK, HandlerOK, HandlerTypes
<1>2. pc[s] = "unsub"
  <2>1. CASE at'[s] = at[s]
    <3>1. pc[s] \in JobOps
      BY <1>1, <2>1, AtPass
    <3>2. pc[s] # "unsub" => pc[s] = "mark"
      BY <1>1 DEF Legal, Gate, Before
    <3> QED
      BY <3>1, <3>2 DEF JobOps
  <2>2. CASE at'[s] # at[s]
    BY <1>1, <2>2, AtGain
  <2> QED
    BY <2>1, <2>2
<1>3. CASE y \notin conn
  BY <1>1, <1>3, NewFacts
<1>4. CASE y \in conn /\ at'[s] = at[s]
  <2>1. Leaving(y) /\ ViewFacts(y)
    BY <1>2, <1>4 DEF ViewInv, PassFacts
  <2> QED
    BY <1>2, <1>4, <2>1, GoneKept DEF Emptying
<1>5. CASE y \in conn /\ at'[s] # at[s]
  <2>1. CallPeer(s) /\ job[y].unsub \notin Running /\ job'[y].unsub \in Running
    BY <1>1, <1>2, <1>5, AtGain
  <2>2. Sends(y)
    <3>1. ~Still(y)
      BY <2>1 DEF Still, SameView, SameMarks
    <3> QED
      BY <1>5, <2>1, <3>1, CallPeerView
  <2> QED
    BY <1>2, <1>5, <2>1, <2>2, SentGone DEF Emptying
<1> QED
  BY <1>3, <1>4, <1>5

LEMMA PassFactsStep ==
  ASSUME LockInv, CallsOK, SupInv, MarkInv, ViewInv, [Next]_vars, NEW s \in Session
  PROVE  PassFacts(s)'
<1>1. Legal(s) /\ conn \subseteq Session
  BY LegalStep, ShapeParts DEF LockInv, ServerTypeOK
<1>2. ASSUME pc'[s] \in GoneLabels, NEW x \in Session
      PROVE  Gone(x)'
  <2>1. pc[s] \in GoneLabels \/ (pc[s] = "unsub" /\ pc'[s] = "stageUnsub")
    BY <1>1, <1>2 DEF Legal, Gate, Before, GoneLabels
  <2>2. CASE pc[s] \in GoneLabels
    BY <1>2, <2>2, LeftBehind DEF ViewInv, PassFacts, Emptying
  <2>3. CASE pc[s] = "unsub" /\ pc'[s] = "stageUnsub"
    <3>1. PICK p \in todo[s] : todo[s] = {p} /\ Visited(s, p)
      BY <1>1, <2>3 DEF Legal, Gate, KeyPasses, DoneAt
    <3>2. Gone(x) \/ Visited(s, x)
      BY <2>3, <3>1 DEF ViewInv, PassFacts
    <3> QED
      BY <1>2, <2>3, <3>2, LeftBehind DEF Emptying
  <2> QED
    BY <2>1, <2>2, <2>3
<1>3. ASSUME pc'[s] = "unsub", NEW x \in Session \ todo'[s]
      PROVE  Gone(x)'
  <2>1. CASE pc[s] = "unsub"
    <3>1. todo'[s] = todo[s] \/ \E p \in todo[s] : todo'[s] = todo[s] \ {p} /\ Visited(s, p)
      BY <1>1, <1>3, <2>1 DEF Legal
    <3>2. Gone(x) \/ Visited(s, x)
      BY <1>3, <2>1, <3>1 DEF ViewInv, PassFacts
    <3> QED
      BY <1>3, <2>1, <3>2, LeftBehind DEF Emptying
  <2>2. CASE pc[s] # "unsub"
    <3>1. todo'[s] = conn
      BY <1>1, <1>3, <2>2 DEF Legal, Gate, Passes, JobOps
    <3> QED
      BY <1>3, <3>1, NewFacts
  <2> QED
    BY <2>1, <2>2
<1>4. \A y \in conn' : pc'[s] = "unsub" /\ at'[s] = y => Leaving(y)'
  BY WaitedFor
<1> QED
  BY <1>2, <1>3, <1>4 DEF PassFacts

LEMMA ViewStep ==
  ASSUME LockInv, CallsOK, SupInv, MarkInv, ViewInv, [Next]_vars
  PROVE  ViewInv'
<1>1. ASSUME NEW x \in conn'
      PROVE  ViewFacts(x)'
  <2>1. x \in Session
    BY ShapeStep, ShapeParts DEF LockInv, Shape, TypeOK, ServerTypeOK
  <2> QED
    BY <1>1, <2>1, ViewFactsStep, NewFacts
<1> QED
  BY <1>1, PassFactsStep DEF ViewInv

(* What a session knows of its own subscription is true by the time it acts   *)
(* on it: no late answer of a pass its caller gave up can hide that a view    *)
(* was left behind (UnsubscribeAll, Resubscribe, restoreHandoff).             *)
THEOREM ViewInvariance == Spec => []ViewInv
<1>1. Init => ViewInv
  <2> SUFFICES ASSUME Init
               PROVE  ViewInv
    OBVIOUS
  <2>1. /\ \A x \in Session : up[x] = <<>> /\ down[x] = <<>> /\ pc[x] = "idle"
        /\ Len(<<>>) = 0
    BY DEF Init
  <2>2. \A x \in Session : Covered(x) => x \in subs
    BY DEF Init, Covered
  <2>3. \A x \in Session : /\ \A A : Free(up[x], A) /\ Free(down[x], A)
                           /\ \A A, B : NoneAfter(up[x], A, B) /\ NoneAfter(down[x], A, B)
    <3>1. /\ \A A : Free(<<>>, A)
          /\ \A A, B : NoneAfter(<<>>, A, B)
      BY <2>1 DEF Free, NoneAfter
    <3> QED
      BY <2>1, <3>1
  <2>4. \A x \in Session : ViewFacts(x)
    BY <2>2, <2>3 DEF ViewFacts, Known, Standing, Late, Ordered
  <2>5. \A s \in Session : PassFacts(s)
    BY <2>1 DEF PassFacts, GoneLabels
  <2>6. conn \subseteq Session
    BY DEF Init
  <2> QED
    BY <2>4, <2>5, <2>6 DEF ViewInv
<1>2. LockInv /\ CallsOK /\ SupInv /\ MarkInv /\ ViewInv /\ [Next]_vars => ViewInv'
  BY ViewStep
<1> QED
  BY <1>1, <1>2, LockInvariance, CallsInvariance, SupInvariance, MarkInvariance, PTL DEF Spec

(* While no handoff is pending every covered view is subscribed: none misses  *)
(* the turn that follows a handoff, for any number of sessions, timeouts,     *)
(* closes and late answers (handoff, ResubscribeAll).                         *)
THEOREM ViewsSubscribed == Spec => []ViewsStaySubscribed
<1>1. LockInv /\ CallsOK /\ MarkInv /\ ViewInv => ViewsStaySubscribed
  <2> SUFFICES ASSUME LockInv, CallsOK, MarkInv, ViewInv, dirty = "none",
                      NEW x \in Session, Covered(x)
               PROVE  x \in subs
    BY DEF ViewsStaySubscribed
  <2>1. x \in conn /\ Known(x)
    BY DEF Covered, ViewInv, ViewFacts
  <2>2. ~det[x] /\ ~Unsubbing(x)
    BY DEF MarkInv
  <2>3. Free(down[x], Left)
    <3>1. Left \subseteq LiveOffs
      BY DEF Left
    <3> QED
      BY <2>1, <2>2, <3>1, NoUnsubCall, FreeSubset
  <2> QED
    BY <2>1, <2>2, <2>3 DEF Known, Unsubbing, Running
<1> QED
  BY <1>1, LockInvariance, CallsInvariance, MarkInvariance, ViewInvariance, PTL

-----------------------------------------------------------------------------
(* What a session knows of the route *)

(* The messages of A that name another provider than p.                       *)
Wrong(A, p) == {m \in A : m.prov # p}

(* Resumes asked for another provider than p.                                 *)
Foreign(p) == {m \in Message : m.op = "resume" /\ m.live /\ m.asked # p}

(* The answers that would teach x a route which is not the runtime's, or no   *)
(* longer its own.                                                            *)
Stale(x) == IF x \in subs THEN Wrong(GoodBacks, rt) ELSE GoodBacks

Settled(x) == Covered(x) /\ ~det[x] => eff[x] \in {NoProvider, rt}

(* Stale answers come only behind the answer to a Desktop's unsubscribe.       *)
Fresh(x) ==
  /\ Free(up[x], DeadOffs)
  /\ NoneAfter(down[x], Shut, Stale(x))
  /\ Free(down[x], Shut) => Free(down[x], Stale(x))

(* What a covered view will be told of the runtime is true.                   *)
Told(x) ==
  Covered(x) =>
    /\ Free(down[x], Wrong(Granted, rt))
    /\ NoneAfter(down[x], GoodBacks, Wrong(Lists, rt))
    /\ det[x] \/ Free(down[x], Wrong(Lists, rt))

(* A route learned while Desktop waits for its answer is verified, unless the  *)
(* answer is that the thread was unsubscribed.                                *)
Guarded(x) ==
  pc[x] = "answer" =>
    eff[x] = NoProvider \/ (x \in subs /\ eff[x] = rt) \/ ~Free(down[x], Shut)

Routed(x) == Settled(x) /\ Fresh(x) /\ Told(x) /\ Guarded(x)

(* A session about to be handed off: it knows no route and will learn none.    *)
Silent(x)  == Free(up[x], PeerBacks) /\ Free(down[x], PeerBacks)
Emptied(x) == eff[x] = NoProvider /\ Silent(x) /\ Free(up[x], DeadOffs)

(* The unsubscribe a pass waits for comes behind those given up.              *)
Parting(x) ==
  /\ NoneAfter(up[x], LiveOffs, DeadOffs)
  /\ Free(down[x], LiveOffs) \/ Free(up[x], DeadOffs)
  /\ job[x].unsub = "ok" => Emptied(x)

PassRoute(s) ==
  /\ pc[s] \in GoneLabels => \A x \in conn : Silent(x)
  /\ pc[s] = "unsub" => \A x \in conn \ todo[s] : Emptied(x)
  /\ pc[s] = "stageUnsub" => \A x \in conn : Emptied(x)
  /\ pc[s] = "unsub" /\ at[s] \in conn => Parting(at[s])

(* Where the marker says what the handler has done.                           *)
Staged(s) ==
  /\ pc[s] \in AfterUnsub \ {"stageUnsub"} => dirty # "prepared"
  /\ pc[s] = "prepareSame" => dirty = "unsubscribed"
  /\ pc[s] \in {"resub", "clearDirty"} => dirty \in {"unsubscribed", "resubscribing"}

(* From the verified resume of a handoff on, the runtime has its target.       *)
Resolving(s) ==
  \/ pc[s] \in {"stageResub", "end", "clearJournal"}
  \/ pc[s] \in {"resub", "clearDirty"} /\ dirty = "resubscribing"

Resolved(s) ==
  /\ Resolving(s) => s \in subs /\ tgt[s] = rt
  /\ s \in conn /\ pc[s] \in {"resumeWait", "recoverResumeWait"} =>
       Free(up[s], Foreign(tgt[s])) /\ Free(down[s], Foreign(tgt[s]))

RouteInv ==
  /\ subs # {} => loaded
  /\ \A x \in Session \ conn : eff[x] = NoProvider
  /\ dirty # "prepared" => \A x \in conn : Routed(x)
  /\ \A s \in Session : PassRoute(s) /\ Staged(s) /\ Resolved(s)

-----------------------------------------------------------------------------
(* Who moves what the invariant speaks of *)

(* The steps that move a handler.                                             *)
LEMMA Movers ==
  ASSUME [Next]_vars, Shape, NEW s \in Session, pc'[s] # pc[s]
  PROVE  \E t \in Session : \/ Close(t) \/ Receive(t) \/ Handle(t) \/ Hear(t)
                            \/ PeerCallTimeout(t) \/ CallTimeout(t)
<1>1. ~TurnEnds /\ ~UnloadIdle /\ ~UNCHANGED vars
  BY DEF TurnEnds, UnloadIdle, others, handler, vars
<1>2. \A t \in Session : ~Open(t) /\ ~JobTimeout(t) /\ ~ServeStep(t) /\ ~ServeFault(t)
  BY DEF Open, JobTimeout, ServeStep, ServeFault, others, handler
<1> QED
  BY <1>1, <1>2 DEF Next, Timeout

(* The runtime changes its provider only while nobody is subscribed.          *)
LEMMA RuntimeMoves ==
  ASSUME LockInv, [Next]_vars
  PROVE  \/ UNCHANGED <<rt, loaded, subs>>
         \/ \E s \in Session : \/ Close(s) /\ UNCHANGED <<rt, loaded>> /\ subs' = subs \ {s}
                               \/ ServeStep(s) \/ RepairResume(s)
                               \/ ArchiveRoot(s) /\ Archive
         \/ subs = {} /\ UNCHANGED <<rt, subs>>
<1>1. CASE TurnEnds \/ UnloadIdle \/ UNCHANGED vars
  BY <1>1 DEF TurnEnds, EndTurn, UnloadIdle, Unload, vars, serverVars
<1>2. ASSUME NEW s \in Session, PassStep(s)
      PROVE  UNCHANGED <<rt, loaded, subs>>
  BY <1>2 DEF PassStep, SkipPeer, CheckPeer, ReconcilePeer, BeginPeer, EndPeer, CallPeer,
     CallUnsubscribe, CallResubscribe, StartJob, SendOnly, PeerAnswered, ServerIdle, serverVars
<1>3. ASSUME NEW s \in Session, TurnStep(s) \/ DesktopStep(s) \/ FailRequest(s) \/ LockThread(s)
      PROVE  UNCHANGED <<rt, loaded, subs>>
  BY <1>3 DEF TurnStep, PrepareTurn, AskStatus, DecideRoute, AskRoute, AskServer, ForwardTurn,
     FinishCommand, DesktopStep, SanitizeResume, ForwardResume, ForwardUnsubscribe, Forward,
     FailRequest, LockThread, SendOnly, ServerIdle, serverVars
<1>4. ASSUME NEW s \in Session, HandoffStep(s) \/ Recover(s) \/ RepairJournal(s), ~RepairResume(s)
      PROVE  UNCHANGED <<rt, loaded, subs>> \/ (ArchiveRoot(s) /\ Archive)
  BY <1>4 DEF HandoffStep, SetDirtyStage, Sanitize, InternalResume, AskServer, SendOnly, ClearDirty,
     Recover, Inspect, SaveJournal, ArchiveRoot, UnarchiveAll, Unarchive, Resanitize, ClearJournal,
     RepairJournal, LoadJournal, ServerIdle, serverVars
<1>5. ASSUME NEW s \in Session, Open(s) \/ Receive(s) \/ Hear(s) \/ Timeout(s) \/ ServeFault(s)
      PROVE  UNCHANGED <<rt, loaded, subs>>
  BY <1>5 DEF Open, Connect, Receive, Hear, Timeout, PeerCallTimeout, JobTimeout, CallTimeout,
     ServeFault, ServeError, ServerIdle, serverVars
<1>6. ASSUME NEW s \in Session, Close(s)
      PROVE  UNCHANGED <<rt, loaded>> /\ subs' = subs \ {s}
  BY <1>6 DEF Close, Disconnect
<1> QED
  BY <1>1, <1>2, <1>3, <1>4, <1>5, <1>6 DEF Next, Handle

LEMMA RuntimeHeld ==
  ASSUME LockInv, RouteInv, [Next]_vars
  PROVE  /\ rt' # rt => subs = {}
         /\ subs' # {} => loaded'
<1>1. subs = {} \/ loaded
  BY DEF RouteInv
<1>2. ASSUME NEW p, rt' \in Resumed(p), loaded' = TRUE
      PROVE  rt' # rt => subs = {}
  BY <1>1, <1>2 DEF Resumed
<1>3. ASSUME NEW s \in Session, RepairResume(s)
      PROVE  (rt' # rt => subs = {}) /\ (subs' # {} => loaded')
  BY <1>1, <1>2, <1>3 DEF RepairResume, RecoveryResume, ServerIdle, serverVars
<1>4. ASSUME NEW s \in Session, ServeStep(s)
      PROVE  (rt' # rt => subs = {}) /\ (subs' # {} => loaded')
  <2> DEFINE m == Head(up[s])
  <2>1. CASE ServeResume(s, m) /\ ~archived
    BY <1>2, <2>1 DEF ServeResume
  <2>2. CASE ~(ServeResume(s, m) /\ ~archived)
    <3>1. ServeResume(s, m) \/ ServeUnsubscribe(s, m) \/ ServeList(s, m) \/ ServeTurn(s, m)
      BY <1>4 DEF ServeStep, Serve
    <3>2. UNCHANGED <<rt, loaded>> /\ subs' \subseteq subs
      BY <2>2, <3>1 DEF ServeResume, ServeUnsubscribe, ServeList, ServeTurn
    <3> QED
      BY <1>1, <3>2
  <2> QED
    BY <2>1, <2>2
<1> QED
  BY <1>1, <1>3, <1>4, RuntimeMoves DEF Archive, Close, Disconnect

(* A handler past the lock is moved by its own steps only.                    *)
LEMMA OwnMoves ==
  ASSUME LockInv, [Next]_vars, NEW s \in Session, pc'[s] # pc[s], pc[s] \notin {"idle", "lock"}
  PROVE  Close(s) \/ Handle(s) \/ Hear(s) \/ PeerCallTimeout(s) \/ CallTimeout(s)
<1>1. Shape /\ pc \in [Session -> Labels]
  BY ShapeParts DEF LockInv, HandlerOK, HandlerTypes
<1>2. PICK t \in Session : \/ Close(t) \/ Receive(t) \/ Handle(t) \/ Hear(t)
                           \/ PeerCallTimeout(t) \/ CallTimeout(t)
  BY <1>1, Movers
<1>3. CASE Close(t) \/ Receive(t)
  BY <1>1, <1>3 DEF Close, Receive
<1>4. CASE Handle(t)
  BY <1>4, OthersWait
<1>5. CASE PeerCallTimeout(t) \/ CallTimeout(t)
  BY <1>1, <1>5 DEF PeerCallTimeout, CallTimeout, Goto
<1>6. CASE Hear(t)
  <2> DEFINE m == Head(down[t])
  <2>1. CASE HearNotice(t, m) \/ HearTurn(t, m) \/ HearJob(t, m) \/ Swallow(m)
    BY <2>1 DEF HearNotice, HearTurn, HearJob, Swallow
  <2>2. CASE HearDesktop(t, m) \/ HearList(t, m) \/ HearResume(t, m)
    <3>1. pc[t] \notin {"idle", "lock"}
      BY <2>2 DEF HearDesktop, HearList, HearResume
    <3>2. t = s
      BY <3>1, OneHolder DEF LockInv
    <3> QED
      BY <1>6, <3>2
  <2> QED
    BY <1>6, <2>1, <2>2 DEF Hear
<1> QED
  BY <1>2, <1>3, <1>4, <1>5, <1>6

(* The step a handler takes at a label that is not a pass.                    *)
LEMMA StepAt ==
  ASSUME Shape, NEW s \in Session, Handle(s), pc[s] \notin Passes
  PROVE  /\ pc[s] \in {"forwardResume", "unsubscribe"} => Forwards(s)
         /\ pc[s] \in DOMAIN StageOf => SetDirtyStage(s)
         /\ pc[s] \in {"resume", "recoverResume"} => InternalResume(s)
         /\ pc[s] = "clearDirty" => ClearDirty(s)
         /\ pc[s] = "route" => DecideRoute(s) \/ AskRoute(s)
         /\ pc[s] = "repair" => LoadJournal(s)
         /\ pc[s] = "repairClear" => ClearJournal(s, "repairClear", AfterRepair(s), "fail")
<1>1. ~PassStep(s)
  BY AtPass, PassLabels
     DEF PassStep, SkipPeer, CheckPeer, ReconcilePeer, BeginPeer, EndPeer, CallPeer,
         PeerAnswered, Passes, Begins, Ends, Checks
<1>2. CASE LockThread(s)
  BY <1>2 DEF LockThread, StageOf
<1>3. CASE TurnStep(s)
  BY <1>3 DEF TurnStep, PrepareTurn, AskStatus, DecideRoute, AskRoute, AskServer, ForwardTurn,
     FinishCommand, Step, StageOf
<1>4. CASE HandoffStep(s)
  BY <1>4 DEF HandoffStep, Sanitize, ClearDirty, SetDirtyStage, InternalResume, AskServer, Step, StageOf
<1>5. CASE Recover(s)
  BY <1>5 DEF Recover, Inspect, SaveJournal, ArchiveRoot, UnarchiveAll, Resanitize, ClearJournal, Step,
     StageOf
<1>6. CASE RepairJournal(s)
  BY <1>6 DEF RepairJournal, LoadJournal, UnarchiveAll, Resanitize, RepairResume, ClearJournal, Step,
     StageOf
<1>7. CASE DesktopStep(s) \/ FailRequest(s)
  BY <1>7 DEF DesktopStep, SanitizeResume, Forwards, ForwardResume, ForwardUnsubscribe, Forward,
     FailRequest, Step, StageOf
<1> QED
  BY <1>1, <1>2, <1>3, <1>4, <1>5, <1>6, <1>7 DEF Handle

(* A handler that waits for no answer leaves a label that is not a pass by a  *)
(* step of its own or at the end of its process.                              *)
LEMMA LeavesBy ==
  ASSUME LockInv, [Next]_vars, NEW s \in Session, pc'[s] # pc[s],
         pc[s] \notin {"idle", "lock"} \cup Awaiting \cup Passes
  PROVE  (Handle(s) \/ Close(s)) /\ (pc'[s] # "idle" => Handle(s))
<1>1. ~PeerCallTimeout(s) /\ ~CallTimeout(s)
  BY DEF PeerCallTimeout, CallTimeout, Awaiting, Passes, JobOps
<1>2. ~Hear(s)
  BY DEF Hear, HearNotice, HearTurn, HearDesktop, HearList, HearResume, HearJob, Swallow, Awaiting,
         Waiting
<1>3. Close(s) => pc'[s] = "idle"
  BY ShapeParts DEF LockInv, HandlerOK, HandlerTypes, Close
<1> QED
  BY <1>1, <1>2, <1>3, OwnMoves

(* A handler that begins to wait for Desktop's answer has forgotten its route. *)
LEMMA AnswerGain ==
  ASSUME LockInv, [Next]_vars, NEW s \in Session, pc'[s] = "answer", pc[s] # "answer"
  PROVE  Forwards(s) /\ eff'[s] = NoProvider
<1>1. Shape /\ Legal(s) /\ eff \in [Session -> Provider \cup {NoProvider}]
  BY LegalStep, ShapeParts DEF LockInv, CacheTypes
<1>2. pc[s] \in {"forwardResume", "unsubscribe"}
  BY <1>1 DEF Legal, Gate, Before
<1>3. pc[s] \notin {"idle", "lock"} \cup Awaiting \cup Passes
  BY <1>2 DEF Awaiting, Waiting, Passes, Checks, Begins, Ends, JobOps
<1>4. Forwards(s)
  BY <1>1, <1>2, <1>3, LeavesBy, StepAt
<1> QED
  BY <1>1, <1>4 DEF Forwards, ForwardResume, ForwardUnsubscribe, Forward, Forget

LEMMA EffMoves ==
  ASSUME LockInv, [Next]_vars, NEW x \in Session, eff'[x] # eff[x], eff'[x] # NoProvider
  PROVE  Hear(x) \/ (RepairResume(x) /\ pc[x] = "repairResume" /\ eff'[x] = rt')
<1>1. eff \in [Session -> Provider \cup {NoProvider}]
  BY ShapeParts DEF LockInv, CacheTypes
<1>2. ASSUME NEW s \in Session, eff' = [eff EXCEPT ![s] = NoProvider] \/ UNCHANGED eff
      PROVE  FALSE
  BY <1>1, <1>2
<1>3. ASSUME NEW s \in Session, PassStep(s)
      PROVE  FALSE
  BY <1>2, <1>3 DEF PassStep, SkipPeer, CheckPeer, ReconcilePeer, BeginPeer, EndPeer, CallPeer,
     CallUnsubscribe, CallResubscribe, StopJobs, StartJob, PeerAnswered, caches
<1>4. ASSUME NEW s \in Session, TurnStep(s) \/ DesktopStep(s) \/ FailRequest(s) \/ LockThread(s)
      PROVE  FALSE
  BY <1>2, <1>4 DEF TurnStep, PrepareTurn, AskStatus, DecideRoute, AskRoute, AskServer, ForwardTurn,
     FinishCommand, DesktopStep, SanitizeResume, ForwardResume, ForwardUnsubscribe, Forward, Forget,
     FailRequest, LockThread, caches
<1>5. ASSUME NEW s \in Session, HandoffStep(s) \/ Recover(s) \/ RepairJournal(s), ~RepairResume(s)
      PROVE  FALSE
  BY <1>2, <1>5 DEF HandoffStep, SetDirtyStage, Sanitize, InternalResume, AskServer, ClearDirty,
     Recover, Inspect, SaveJournal, ArchiveRoot, UnarchiveAll, Resanitize, ClearJournal,
     RepairJournal, LoadJournal, caches
<1>6. ASSUME NEW s \in Session, RepairResume(s)
      PROVE  RepairResume(x) /\ pc[x] = "repairResume" /\ eff'[x] = rt'
  BY <1>1, <1>6 DEF RepairResume, Step
<1>7. ASSUME NEW s \in Session, Open(s) \/ Close(s) \/ Receive(s) \/ Timeout(s) \/ ServeStep(s) \/ ServeFault(s)
      PROVE  FALSE
  BY <1>2, <1>7 DEF Open, Close, Receive, Timeout, PeerCallTimeout, JobTimeout, EndUnsubscribe,
     CallTimeout, ServeStep, ServeFault, Forget, others, caches
<1>8. ASSUME NEW s \in Session, Hear(s)
      PROVE  s = x
  <2> DEFINE m == Head(down[s])
  <2>1. CASE HearNotice(s, m) \/ HearTurn(s, m) \/ HearDesktop(s, m) \/ Swallow(m)
    BY <1>1, <2>1 DEF HearNotice, HearTurn, HearDesktop, Swallow, Forget
  <2>2. CASE HearList(s, m) \/ HearResume(s, m)
    BY <1>1, <2>2 DEF HearList, HearResume, Learn
  <2>3. CASE HearJob(s, m)
    BY <1>1, <2>3 DEF HearJob, EndUnsubscribe, EndResubscribe, Learn, Forget
  <2> QED
    BY <1>8, <2>1, <2>2, <2>3 DEF Hear
<1>9. CASE TurnEnds \/ UnloadIdle \/ UNCHANGED vars
  BY <1>2, <1>9 DEF TurnEnds, UnloadIdle, others, vars, caches
<1> QED
  BY <1>3, <1>4, <1>5, <1>6, <1>7, <1>8, <1>9 DEF Next, Handle

LEMMA DirtyMoves ==
  ASSUME LockInv, [Next]_vars, dirty' # dirty
  PROVE  \E s \in Session :
           /\ pc[s] \notin {"idle", "lock"}
           /\ \/ pc[s] \in DOMAIN StageOf /\ dirty' = StageOf[pc[s]]
              \/ pc[s] = "clearDirty" /\ dirty' = "none" /\ pc'[s] # "clearDirty"
           /\ UNCHANGED <<conn, rt, subs, up, down, eff, det, job, views, lapsed>>
           /\ \A x \in Session \ {s} : pc'[x] = pc[x]
<1>1. Shape /\ pc \in [Session -> Labels]
  BY ShapeParts DEF LockInv, HandlerOK, HandlerTypes
<1>2. PICK s \in Session : SetDirtyStage(s) \/ ClearDirty(s)
  BY <1>1, FilesMove, FilesOnly
<1>3. /\ UNCHANGED <<conn, rt, subs, up, down, eff, det, job, views, lapsed>>
      /\ \A x \in Session \ {s} : pc'[x] = pc[x]
  BY <1>1, <1>2 DEF SetDirtyStage, ClearDirty, Goto, ServerIdle, serverVars, caches
<1>4. CASE SetDirtyStage(s)
  BY <1>3, <1>4 DEF SetDirtyStage, StageOf
<1>5. CASE ClearDirty(s)
  BY <1>1, <1>3, <1>5 DEF ClearDirty, Step, Goto
<1> QED
  BY <1>2, <1>3, <1>4, <1>5

(* Nothing but the dirty marker's own stage brings it there.                  *)
LEMMA StageMoves ==
  ASSUME LockInv, [Next]_vars, NEW s \in Session, pc[s] \in DOMAIN StageOf,
         pc'[s] = AfterStage[pc[s]]
  PROVE  dirty' = StageOf[pc[s]]
<1>1. Shape /\ pc[s] \notin {"idle", "lock"} \cup Awaiting \cup Passes /\ pc'[s] # pc[s]
      /\ pc'[s] # "idle" /\ pc'[s] # StageFailed[pc[s]] /\ pc \in [Session -> Labels]
  BY ShapeParts DEF LockInv, StageOf, AfterStage, StageFailed, Awaiting, Waiting, Passes, Checks, Begins,
     Ends, JobOps, HandlerOK, HandlerTypes
<1>2. SetDirtyStage(s)
  BY <1>1, LeavesBy, StepAt
<1> QED
  BY <1>1, <1>2 DEF SetDirtyStage, Goto

(* What the invariants of the other modules say where this one is used.        *)
AllInv == LockInv /\ CallsOK /\ SupInv /\ MarkInv /\ ViewInv /\ RouteInv

LEMMA RouteKindsAreCalls ==
  ASSUME NEW x \in Session, NEW p
  PROVE  /\ Wrong(GoodBacks, p) \subseteq CallMessages /\ Wrong(Granted, p) \subseteq CallMessages
         /\ Wrong(Lists, p) \subseteq CallMessages /\ Foreign(p) \subseteq CallMessages
         /\ Stale(x) \subseteq CallMessages /\ Stale(x) \subseteq GoodBacks
<1>1. /\ Wrong(GoodBacks, p) \subseteq GoodBacks /\ Wrong(Granted, p) \subseteq Granted
      /\ Wrong(Lists, p) \subseteq Lists /\ Wrong(GoodBacks, rt) \subseteq GoodBacks
  BY DEF Wrong
<1>2. Foreign(p) \subseteq CallMessages
  BY DEF Foreign, CallMessages, Notice, Closings
<1> QED
  BY <1>1, <1>2, KindsAreCalls DEF Stale

LEMMA NoListCall ==
  ASSUME LockInv, CallsOK, NEW x \in conn, pc[x] \notin {"statusWait", "routeWait"}
  PROVE  Free(up[x], Lists) /\ Free(down[x], Lists)
<1>1. ~Awaits(x, "list")
  BY DEF Awaits, JobOps, UpOf
<1>2. ~Has(up[x], "list") /\ ~Has(down[x], "list")
  BY <1>1 DEF CallsOK, CallOK, Calls
<1>3. \A m \in Lists : Awaited(m, "list")
  BY DEF Lists, Awaited, CallOf, Internal
<1>4. up[x] \in Seq(Message) /\ down[x] \in Seq(Message)
  BY ShapeParts DEF LockInv, ServerTypeOK
<1> QED
  BY <1>2, <1>3, <1>4, HasNone

LEMMA NoResumeCall ==
  ASSUME LockInv, CallsOK, NEW x \in conn, pc[x] \notin {"resumeWait", "recoverResumeWait"}
  PROVE  /\ \A p : Free(up[x], Foreign(p)) /\ Free(down[x], Foreign(p))
         /\ Silent(x) => Free(down[x], GoodBacks)
<1>1. ~Awaits(x, "resume")
  BY DEF Awaits, JobOps, UpOf
<1>2. ~Has(up[x], "resume") /\ ~Has(down[x], "resume")
  BY <1>1 DEF CallsOK, CallOK, Calls
<1>3. \A p : \A m \in Foreign(p) \cup (GoodBacks \ PeerBacks) : Awaited(m, "resume")
  BY DEF Foreign, GoodBacks, Backs, PeerBacks, Awaited, CallOf, Internal
<1>4. up[x] \in Seq(Message) /\ down[x] \in Seq(Message)
  BY ShapeParts DEF LockInv, ServerTypeOK
<1>5. Free(down[x], GoodBacks \ PeerBacks)
  BY <1>2, <1>3, <1>4, HasNone
<1>6. \A p : Free(up[x], Foreign(p)) /\ Free(down[x], Foreign(p))
  BY <1>2, <1>3, <1>4, HasNone
<1> QED
  BY <1>5, <1>6 DEF Silent, Free

(* Outside the unsubscribe pass a covered view that is not subscribed is       *)
(* marked, and nothing on its way will end that.                              *)
LEMMA CoveredAway ==
  ASSUME AllInv, dirty # "prepared", NEW x \in conn
  PROVE  /\ ~Unsubbing(x) /\ Free(up[x], LiveOffs) /\ Free(down[x], LiveOffs)
         /\ Covered(x) /\ x \notin subs =>
              det[x] /\ Free(down[x], GoodBacks) /\ Free(down[x], Granted)
<1>1. ~Unsubbing(x) /\ ViewFacts(x)
  BY ShapeParts DEF AllInv, MarkInv, ViewInv, LockInv, ServerTypeOK
<1>2. Free(up[x], LiveOffs) /\ Free(down[x], LiveOffs)
  BY <1>1, NoUnsubCall DEF AllInv
<1>3. Free(down[x], Left)
  <2>1. Left \subseteq LiveOffs
    BY DEF Left
  <2> QED
    BY <1>2, <2>1, FreeSubset
<1> QED
  BY <1>1, <1>2, <1>3 DEF ViewFacts, Known, Standing, Ordered, Unsubbing, Running

-----------------------------------------------------------------------------
(* The route of an open session, step by step *)

(* A step that leaves alone what x is told, and keeps a covered view marked.   *)
Unmoved(x) ==
  /\ x \in conn' /\ (x \in subs' <=> x \in subs)
  /\ Covered(x)' => Covered(x) /\ det'[x] = det[x]
  /\ Alike(down[x], down'[x])
  /\ Free(up[x], DeadOffs) => Free(up'[x], DeadOffs)

LEMMA UnmovedRouted ==
  ASSUME AllInv, [Next]_vars, dirty # "prepared", NEW x \in conn, Unmoved(x), ~Hear(x)
  PROVE  Routed(x)'
<1>1. /\ x \in Session /\ Routed(x) /\ conn \subseteq Session
      /\ x \in subs => rt' = rt
      /\ x \in subs' => x \in subs
  BY RuntimeHeld, ShapeParts DEF AllInv, RouteInv, LockInv, ServerTypeOK, Unmoved
<1>2. Stale(x)' = Stale(x)
  BY <1>1 DEF Stale, Unmoved
<1>3. eff'[x] \in {eff[x], NoProvider} \/ (eff'[x] = rt' /\ pc[x] = "repairResume")
  BY <1>1, EffMoves DEF AllInv
<1>4. /\ \A A \in SUBSET CallMessages : Free(down'[x], A) <=> Free(down[x], A)
      /\ \A A, B \in SUBSET CallMessages : NoneAfter(down'[x], A, B) <=> NoneAfter(down[x], A, B)
  BY DEF Unmoved, Alike
<1>5. Covered(x) /\ x \notin subs => det[x] /\ Free(down[x], GoodBacks) /\ Free(down[x], Granted)
  BY CoveredAway
<1>6. Settled(x)'
  BY <1>1, <1>3, <1>5 DEF Settled, Routed, Unmoved
<1>7. Fresh(x)'
  BY <1>1, <1>2, <1>4, RouteKindsAreCalls, KindsAreCalls DEF Fresh, Routed, Unmoved
<1>8. Told(x)'
  <2>1. CASE x \in subs
    BY <1>1, <1>4, <2>1, RouteKindsAreCalls, KindsAreCalls DEF Told, Routed, Unmoved
  <2>2. ASSUME x \notin subs, Covered(x)'
        PROVE  Told(x)'
    <3>1. det'[x] /\ Free(down'[x], GoodBacks) /\ Free(down'[x], Granted)
      BY <1>4, <1>5, <2>2, KindsAreCalls DEF Unmoved
    <3>2. Wrong(Granted, rt') \subseteq Granted
      BY DEF Wrong
    <3>3. Free(down'[x], Wrong(Granted, rt')) /\ NoneAfter(down'[x], GoodBacks, Wrong(Lists, rt'))
      BY <3>1, <3>2, FreeSubset, FreeOrder
    <3>4. (Wrong(Lists, rt))' = Wrong(Lists, rt') /\ (Wrong(Granted, rt))' = Wrong(Granted, rt')
      BY DEF Wrong
    <3> QED
      BY <3>1, <3>3, <3>4 DEF Told
  <2> QED
    BY <2>1, <2>2 DEF Told
<1>9. Guarded(x)'
  <2>1. CASE pc[x] # "answer"
    BY <1>1, <2>1, AnswerGain DEF Guarded, AllInv
  <2>2. CASE pc[x] = "answer"
    BY <1>1, <1>3, <1>4, <2>2, KindsAreCalls DEF Guarded, Routed, Unmoved
  <2> QED
    BY <2>1, <2>2
<1> QED
  BY <1>6, <1>7, <1>8, <1>9 DEF Routed

LEMMA StillRouted ==
  ASSUME AllInv, [Next]_vars, dirty # "prepared", NEW x \in conn,
         Still(x) \/ Sends(x) \/ Forwards(x), ~Hear(x)
  PROVE  Routed(x)'
<1>1. CASE Still(x)
  <2>1. Unmoved(x)
    BY <1>1 DEF Still, SameView, SameMarks, Unmoved, Covered
  <2> QED
    BY <2>1, UnmovedRouted
<1>2. CASE Sends(x)
  <2>1. PICK m \in Message :
          /\ m.live /\ Longer(up[x], m, up'[x]) /\ down'[x] = down[x]
          /\ x \in conn' /\ det'[x] = det[x]
          /\ (x \in views' <=> x \in views) /\ (x \in lapsed' <=> x \in lapsed)
          /\ (x \in subs' <=> x \in subs)
    BY <1>2 DEF Sends
  <2>2. m \notin DeadOffs
    BY <2>1 DEF DeadOffs
  <2>3. Unmoved(x)
    BY <2>1, <2>2, AlikeItself, KindsAreCalls DEF Longer, Unmoved, Covered
  <2> QED
    BY <2>3, UnmovedRouted
<1>3. CASE Forwards(x)
  <2>1. /\ x \in Session /\ Shape /\ det \in [Session -> BOOLEAN]
        /\ tgt[x] \in Provider \cup {NoProvider} /\ NoProvider \in Provider \cup {NoProvider}
    BY ShapeParts DEF AllInv, LockInv, ServerTypeOK, RequestTypes, CacheTypes
  <2>2. PICK op \in {"dresume", "dunsub"}, v \in Provider \cup {NoProvider} :
          SendOnly(x, Request(op, v))
    BY <1>3, <2>1 DEF Forwards, ForwardResume, ForwardUnsubscribe, Forward
  <2>3. /\ UNCHANGED <<job, views>> /\ det'[x] = FALSE
        /\ x \in lapsed' <=> x \in lapsed \/ det[x]
    BY <1>3, <2>1 DEF Forwards, ForwardResume, ForwardUnsubscribe, Forward
  <2>4. op \in Desktop \cup Internal
    BY DEF Desktop
  <2> DEFINE m == Request(op, v)
  <2>5. /\ UNCHANGED <<conn, subs>> /\ down'[x] = down[x] /\ m.live /\ m \in Message
        /\ Longer(up[x], m, up'[x])
    BY <2>1, <2>2, <2>4, SendLonger
  <2> HIDE DEF m
  <2>6. m \notin DeadOffs
    BY <2>5 DEF DeadOffs
  <2>7. Covered(x)' => Covered(x) /\ det'[x] = det[x]
    BY <2>1, <2>3, <2>5 DEF Covered
  <2>8. Unmoved(x)
    BY <2>5, <2>6, <2>7, AlikeItself, KindsAreCalls DEF Longer, Unmoved
  <2> QED
    BY <2>8, UnmovedRouted
<1> QED
  BY <1>1, <1>2, <1>3

LEMMA HeardRouted ==
  ASSUME AllInv, [Next]_vars, dirty # "prepared", NEW x \in conn, Hear(x)
  PROVE  Routed(x)'
<1> DEFINE m == Head(down[x])
<1>1. /\ Shorter(down[x], down'[x]) /\ m \in Message
      /\ up'[x] = up[x] /\ UNCHANGED <<conn, subs, lapsed>>
      /\ HeardQuietly(x, m) \/ HeardBack(x, m) \/ HeardOff(x, m)
  BY HearView DEF AllInv
<1> HIDE DEF m
<1>2. /\ x \in Session /\ Routed(x) /\ rt' = rt /\ ViewFacts(x)
      /\ det \in [Session -> BOOLEAN]
  BY ShapeParts DEF AllInv, RouteInv, ViewInv, LockInv, ServerTypeOK, CacheTypes, Hear
<1>3. /\ \A A : Free(down[x], A) <=> m \notin A /\ Free(down'[x], A)
      /\ \A A, B : NoneAfter(down[x], A, B) <=>
                     NoneAfter(down'[x], A, B) /\ (m \in A => Free(down'[x], B))
  BY <1>1 DEF Shorter, m
<1>4. HeardQuietly(x, m) \/ HeardBack(x, m)
  BY <1>1, CoveredAway DEF HeardOff
<1>5. Stale(x)' = Stale(x) /\ (Wrong(Granted, rt))' = Wrong(Granted, rt)
      /\ (Wrong(Lists, rt))' = Wrong(Lists, rt)
  BY <1>1, <1>2 DEF Stale, Wrong
<1>6. m \in GoodBacks /\ Free(down[x], Shut) => x \in subs /\ m.prov = rt
  <2> SUFFICES ASSUME m \in GoodBacks, Free(down[x], Shut)
               PROVE  x \in subs /\ m.prov = rt
    OBVIOUS
  <2>1. m \notin Stale(x)
    BY <1>2, <1>3 DEF Routed, Fresh
  <2> QED
    BY <2>1 DEF Stale, Wrong
<1>7. Fresh(x)'
  BY <1>1, <1>2, <1>3, <1>5 DEF Routed, Fresh
<1>8. pc[x] = "answer" => Free(down'[x], Wrong(Lists, rt))
  <2> SUFFICES ASSUME pc[x] = "answer"
               PROVE  Free(down'[x], Wrong(Lists, rt))
    OBVIOUS
  <2>1. Free(down[x], Lists) /\ Wrong(Lists, rt) \subseteq Lists
    BY NoListCall DEF AllInv, Wrong
  <2> QED
    BY <1>3, <2>1, FreeSubset
<1>9. Told(x)'
  <2> SUFFICES ASSUME Covered(x)'
               PROVE  Told(x)'
    BY DEF Told
  <2>1. /\ Covered(x)
        /\ Free(down'[x], Wrong(Granted, rt)) /\ NoneAfter(down'[x], GoodBacks, Wrong(Lists, rt))
        /\ HeardQuietly(x, m) => det'[x] \/ Free(down'[x], Wrong(Lists, rt))
    BY <1>2, <1>3, <1>4 DEF Routed, Told, HeardQuietly, HeardBack
  <2>2. HeardBack(x, m) => Free(down'[x], Wrong(Lists, rt))
    BY <1>2, <1>3, <1>8, <2>1 DEF Routed, Told, HeardBack
  <2> QED
    BY <1>4, <1>5, <2>1, <2>2 DEF Told
<1>10. Settled(x)'
  <2> SUFFICES ASSUME Covered(x)', ~det'[x]
               PROVE  eff'[x] \in {NoProvider, rt}
    BY <1>2 DEF Settled
  <2>1. Covered(x) /\ Free(down[x], Shut)
    BY <1>2, <1>4 DEF HeardQuietly, HeardBack, Covered, ViewFacts, Ordered
  <2>2. CASE HeardQuietly(x, m)
    <3>1. ~det[x]
      BY <2>2 DEF HeardQuietly
    <3>2. m \in Lists => m.prov = rt
      BY <1>2, <1>3, <2>1, <3>1 DEF Routed, Told, Wrong
    <3> QED
      BY <1>2, <2>1, <2>2, <3>1, <3>2 DEF Routed, Settled, HeardQuietly
  <2>3. CASE HeardBack(x, m)
    <3>1. m \in Granted => m.prov = rt
      BY <1>2, <1>3, <2>1 DEF Routed, Told, Wrong
    <3> QED
      BY <1>3, <1>6, <2>1, <2>3, <3>1 DEF HeardBack
  <2> QED
    BY <1>4, <2>2, <2>3
<1>11. Guarded(x)'
  <2>1. CASE pc[x] # "answer"
    BY <1>2, <2>1, AnswerGain DEF Guarded, AllInv
  <2>2. ASSUME pc[x] = "answer", pc'[x] = "answer", Free(down'[x], Shut)
        PROVE  eff'[x] = NoProvider \/ (x \in subs' /\ eff'[x] = rt')
    <3>1. m \notin Shut
      BY <1>4, <2>2 DEF HeardQuietly, HeardBack
    <3>2. eff[x] = NoProvider \/ (x \in subs /\ eff[x] = rt)
      BY <1>2, <1>3, <2>2, <3>1 DEF Routed, Guarded
    <3>3. CASE HeardQuietly(x, m)
      BY <1>1, <1>2, <2>2, <3>2, <3>3 DEF HeardQuietly
    <3>4. CASE HeardBack(x, m)
      BY <1>1, <1>2, <1>3, <1>6, <2>2, <3>1, <3>4 DEF HeardBack
    <3> QED
      BY <1>4, <3>3, <3>4
  <2> QED
    BY <2>1, <2>2 DEF Guarded
<1> QED
  BY <1>7, <1>9, <1>10, <1>11 DEF Routed

(* Giving up a call that is no unsubscribe takes nothing from the order of the *)
(* answers.                                                                   *)
RouteKinds ==
  {GoodBacks, Shut, DeadOffs, Wrong(GoodBacks, rt), Wrong(Granted, rt), Wrong(Lists, rt)}

LEMMA DroppedRoutes ==
  ASSUME NEW q \in Seq(Message), NEW op \in Internal \ {"junsub"}, NEW p
  PROVE  /\ Fades(q, Dropped(q, op), RouteKinds)
         /\ Free(Dropped(q, op), Shut) => Free(q, Shut)
         /\ Free(q, Foreign(p)) => Free(Dropped(q, op), Foreign(p))
<1>1. ASSUME NEW m \in Message
      PROVE  /\ Dull(m, op).op = m.op /\ Dull(m, op).ok = m.ok /\ Dull(m, op).prov = m.prov
             /\ Dull(m, op).asked = m.asked /\ Dull(m, op) \in Message
             /\ Dull(m, op).live = (m.live /\ m.op # op)
  BY DEF Dull, Message
<1>2. ASSUME NEW m \in Message
      PROVE  /\ Dull(m, op) \in GoodBacks => m \in GoodBacks
             /\ Dull(m, op) \in Granted => m \in Granted
             /\ Dull(m, op) \in Lists => m \in Lists
             /\ Dull(m, op) \in Shut <=> m \in Shut
             /\ Dull(m, op) \in DeadOffs => m \in DeadOffs
             /\ Dull(m, op) \in Foreign(p) => m \in Foreign(p)
  <2> DEFINE d == Dull(m, op)
  <2>1. /\ d.op = m.op /\ d.ok = m.ok /\ d.prov = m.prov /\ d.asked = m.asked /\ d \in Message
        /\ d.live = (m.live /\ m.op # op)
    BY <1>1
  <2> HIDE DEF d
  <2>2. /\ d \in GoodBacks => m \in GoodBacks
        /\ d \in Granted => m \in Granted
        /\ d \in Lists => m \in Lists
        /\ d \in Shut <=> m \in Shut
    BY <2>1 DEF GoodBacks, Backs, Granted, Opens, Lists, Shut, Shuts
  <2>3. d \in DeadOffs => m \in DeadOffs
    BY <2>1 DEF DeadOffs, Offs
  <2>4. d \in Foreign(p) => m \in Foreign(p)
    BY <2>1 DEF Foreign
  <2> QED
    BY <2>2, <2>3, <2>4 DEF d
<1>3. \A m \in Message, A \in RouteKinds : Dull(m, op) \in A => m \in A
  BY <1>1, <1>2 DEF RouteKinds, Wrong
<1>4. Fades(q, Dropped(q, op), RouteKinds)
  BY <1>3, DroppedOrder DEF Fades
<1>5. Free(q, Foreign(p)) => Free(Dropped(q, op), Foreign(p))
  BY <1>2, DroppedOrder
<1>6. Free(Dropped(q, op), Shut) => Free(q, Shut)
  <2>1. /\ Len(Dropped(q, op)) = Len(q) /\ DOMAIN q = 1..Len(q)
        /\ \A i \in 1..Len(q) : q[i] \in Message
    BY DroppedType
  <2>2. \A i \in 1..Len(q) : Dropped(q, op)[i] = Dull(q[i], op)
    BY <2>1 DEF Dropped, Dull
  <2> QED
    BY <1>2, <2>1, <2>2 DEF Free
<1> QED
  BY <1>4, <1>5, <1>6

(* Which call a session gives up outside the unsubscribe pass.                *)
LEMMA GivesUp ==
  ASSUME LockInv, NEW x \in conn, ~Unsubbing(x), CallTimeout(x) \/ JobTimeout(x)
  PROVE  /\ \E op \in Internal \ {"junsub"} : /\ up'[x] = Dropped(up[x], op)
                                              /\ down'[x] = Dropped(down[x], op)
         /\ up[x] \in Seq(Message) /\ down[x] \in Seq(Message)
         /\ SameView(x) /\ UNCHANGED <<conn, rt, subs, eff>>
<1>1. x \in Session /\ up \in [Session -> Seq(Message)] /\ down \in [Session -> Seq(Message)]
  BY ShapeParts DEF LockInv, ServerTypeOK
<1>2. CASE CallTimeout(x)
  <2>1. PICK op \in {"list", "resume"} : Abandon(x, op)
    BY <1>2 DEF CallTimeout
  <2>2. op \in Internal \ {"junsub"}
    BY DEF Internal
  <2> QED
    BY <1>1, <1>2, <2>1, <2>2 DEF CallTimeout, Abandon, caches, SameView, SameMarks
<1>3. CASE JobTimeout(x)
  <2>1. PICK op \in JobOps : /\ job[x][op] \in Running
                             /\ Abandon(x, UpOf[op])
                             /\ op # "unsub" => job' = [job EXCEPT ![x][op] = "bad"]
                                                /\ UNCHANGED <<eff, det, lapsed>>
    BY <1>3 DEF JobTimeout
  <2>2. op # "unsub"
    BY <2>1 DEF Unsubbing
  <2>3. UpOf[op] \in Internal \ {"junsub"}
    BY <2>2 DEF UpOf, JobOps, Internal
  <2>4. job'[x].unsub = job[x].unsub
    <3>1. job \in [Session -> [JobOps -> JobState]]
      BY ShapeParts DEF LockInv, CacheTypes
    <3> QED
      BY <1>1, <2>1, <2>2, <3>1 DEF JobOps
  <2> QED
    BY <1>1, <1>3, <2>1, <2>2, <2>3, <2>4 DEF JobTimeout, Abandon, SameView, SameMarks
<1> QED
  BY <1>2, <1>3

LEMMA TimeoutRouted ==
  ASSUME AllInv, [Next]_vars, dirty # "prepared", NEW x \in conn, CallTimeout(x) \/ JobTimeout(x)
  PROVE  Routed(x)'
<1>1. PICK op \in Internal \ {"junsub"} : /\ up'[x] = Dropped(up[x], op)
                                          /\ down'[x] = Dropped(down[x], op)
  BY CoveredAway, GivesUp DEF AllInv
<1>2. /\ up[x] \in Seq(Message) /\ down[x] \in Seq(Message)
      /\ SameView(x) /\ UNCHANGED <<conn, rt, subs, eff>>
  BY CoveredAway, GivesUp DEF AllInv
<1>3. /\ Fades(up[x], up'[x], RouteKinds) /\ Fades(down[x], down'[x], RouteKinds)
      /\ Free(down'[x], Shut) => Free(down[x], Shut)
  BY <1>1, <1>2, DroppedRoutes
<1>4. x \in Session /\ Routed(x)
  BY ShapeParts DEF AllInv, RouteInv, LockInv, ServerTypeOK
<1>5. /\ Stale(x)' = Stale(x) /\ Stale(x) \in RouteKinds
      /\ (Wrong(Granted, rt))' = Wrong(Granted, rt) /\ (Wrong(Lists, rt))' = Wrong(Lists, rt)
  BY <1>2 DEF Stale, Wrong, RouteKinds
<1>6. /\ (Covered(x)' <=> Covered(x)) /\ det'[x] = det[x]
  BY <1>2 DEF SameView, SameMarks, Covered
<1>7. Settled(x)'
  BY <1>2, <1>4, <1>6 DEF Routed, Settled
<1>8. Fresh(x)'
  BY <1>3, <1>4, <1>5 DEF Routed, Fresh, Fades, RouteKinds
<1>9. Told(x)'
  BY <1>3, <1>4, <1>5, <1>6 DEF Routed, Told, Fades, RouteKinds
<1>10. Guarded(x)'
  <2>1. CASE pc[x] # "answer"
    BY <1>4, <2>1, AnswerGain DEF Guarded, AllInv
  <2>2. CASE pc[x] = "answer"
    BY <1>2, <1>3, <1>4, <2>2 DEF Routed, Guarded
  <2> QED
    BY <2>1, <2>2
<1> QED
  BY <1>7, <1>8, <1>9, <1>10 DEF Routed

LEMMA NoneAfterSubset ==
  ASSUME NEW q, NEW A, NEW C, NEW B \in SUBSET C, NoneAfter(q, A, C)
  PROVE  NoneAfter(q, A, B)
BY DEF NoneAfter

LEMMA ServedRouted ==
  ASSUME AllInv, [Next]_vars, dirty # "prepared", NEW x \in conn, ServeStep(x) \/ ServeFault(x)
  PROVE  Routed(x)'
<1> DEFINE m == Head(up[x])
<1>1. /\ up[x] # <<>> /\ Shorter(up[x], up'[x]) /\ m \in Message
      /\ UNCHANGED <<conn, det, job, pc>>
      /\ Covered(x) <=> x \in views /\ x \notin lapsed
      /\ Covered(x)' <=> x \in views' /\ x \notin lapsed'
  BY ServeChannels DEF AllInv
<1>2. PICK r \in Message :
        /\ Longer(down[x], r, down'[x]) /\ Echoes(r, m) /\ Truthful(r)
        /\ ServedIdly(x, r) \/ ServedBack(x, r) \/ ServedOff(x, r)
  BY ServeView DEF ServedWell, AllInv
<1>3. m \in Opens \cup Shuts =>
        pc[x] = "answer" /\ Free(down[x], Shut) /\ Free(down[x], Opens) /\ Free(down[x], Lists)
  BY <1>1, OnlyDesktopCall, NoListCall DEF AllInv
<1> HIDE DEF m
<1>4. \A A : Free(up[x], A) <=> m \notin A /\ Free(up'[x], A)
  BY <1>1 DEF Shorter, m
<1>5. /\ \A A \in SUBSET CallMessages : Free(down'[x], A) <=> Free(down[x], A) /\ r \notin A
      /\ \A A, B \in SUBSET CallMessages :
           NoneAfter(down'[x], A, B) <=> NoneAfter(down[x], A, B) /\ (r \in B => Free(down[x], A))
  BY <1>2 DEF Longer
<1>6. /\ x \in Session /\ Routed(x) /\ ViewFacts(x) /\ UNCHANGED eff
      /\ x \in subs => rt' = rt
  BY RuntimeHeld, ShapeParts DEF AllInv, RouteInv, ViewInv, LockInv, ServerTypeOK, ServeStep,
     ServeFault, others, caches
<1>7. Covered(x) /\ x \notin subs => det[x] /\ Free(down[x], GoodBacks) /\ Free(down[x], Granted)
  BY CoveredAway
<1>8. r \notin Offs
  <2>1. Free(up[x], LiveOffs) /\ Free(up[x], DeadOffs) /\ Offs = LiveOffs \cup DeadOffs
    BY <1>6, CoveredAway DEF Routed, Fresh, LiveOffs, DeadOffs, Offs, Message
  <2>2. m \notin Offs
    BY <1>4, <2>1
  <2> QED
    BY <1>1, <1>2, <2>2, EchoKinds
<1>9. Free(up'[x], DeadOffs)
  BY <1>4, <1>6 DEF Routed, Fresh
<1>10. /\ (Wrong(Granted, rt))' = Wrong(Granted, rt') /\ (Wrong(Lists, rt))' = Wrong(Lists, rt')
       /\ r \notin Wrong(Lists, rt') /\ r \notin Wrong(Granted, rt')
       /\ r \notin Wrong(GoodBacks, rt')
       /\ Wrong(Granted, rt') \in SUBSET CallMessages /\ Wrong(Lists, rt') \in SUBSET CallMessages
       /\ Wrong(GoodBacks, rt') \in SUBSET CallMessages
  <2>1. r \in GoodBacks \cup Granted \cup Lists => r.prov = rt'
    BY <1>2 DEF Truthful, GoodBacks, Granted, Lists
  <2> QED
    BY <2>1, RouteKindsAreCalls, <1>6 DEF Wrong
(* The answers under way tell as much as before, unless x has just left.       *)
<1>11. ASSUME x \in subs' \/ x \notin subs
       PROVE  Stale(x)' \subseteq Stale(x) /\ (r \notin GoodBacks \/ x \in subs' => r \notin Stale(x)')
  BY <1>6, <1>10, <1>11 DEF Stale, Wrong
<1>12. ASSUME x \in subs' \/ x \notin subs, r \notin GoodBacks \/ x \in subs', r \notin Shut
       PROVE  Fresh(x)'
  <2>1. Stale(x)' \in SUBSET CallMessages /\ Stale(x)' \in SUBSET Stale(x) /\ r \notin Stale(x)'
    BY <1>6, <1>11, <1>12, RouteKindsAreCalls
  <2>2. NoneAfter(down[x], Shut, Stale(x)') /\ (Free(down[x], Shut) => Free(down[x], Stale(x)'))
    BY <1>6, <2>1, NoneAfterSubset, FreeSubset DEF Routed, Fresh
  <2> QED
    BY <1>5, <1>9, <1>12, <2>1, <2>2, KindsAreCalls DEF Fresh
<1>13. ASSUME Covered(x), r \notin Granted
       PROVE  Told(x)'
  <2>1. CASE x \in subs
    BY <1>1, <1>5, <1>6, <1>10, <1>13, <2>1, KindsAreCalls DEF Routed, Told
  <2>2. CASE x \notin subs
    <3>1. det[x] /\ Free(down[x], GoodBacks) /\ Free(down[x], Granted)
      BY <1>7, <1>13, <2>2
    <3>2. Free(down'[x], Wrong(Granted, rt'))
      <4>1. Wrong(Granted, rt') \subseteq Granted
        BY DEF Wrong
      <4> QED
        BY <1>5, <1>10, <3>1, <4>1, FreeSubset
    <3>3. NoneAfter(down'[x], GoodBacks, Wrong(Lists, rt'))
      BY <1>5, <1>10, <3>1, FreeOrder, KindsAreCalls
    <3> QED
      BY <1>1, <1>10, <3>1, <3>2, <3>3 DEF Told
  <2> QED
    BY <2>1, <2>2
<1>14. Covered(x) => Settled(x)'
  BY <1>1, <1>6, <1>7 DEF Routed, Settled
<1>15. x \in subs' \/ x \notin subs => Guarded(x)'
  BY <1>1, <1>5, <1>6, KindsAreCalls DEF Routed, Guarded
<1>16. CASE ServedIdly(x, r)
  <2>1. r \notin GoodBacks \cup Granted \cup Shut /\ (x \in subs' <=> x \in subs)
        /\ (Covered(x)' => Covered(x))
    BY <1>16 DEF ServedIdly
  <2>2. Fresh(x)' /\ Guarded(x)'
    BY <1>12, <1>15, <2>1
  <2>3. Told(x)' /\ Settled(x)'
    <3>1. CASE Covered(x)'
      BY <1>13, <1>14, <2>1, <3>1
    <3>2. CASE ~Covered(x)'
      BY <3>2 DEF Told, Settled
    <3> QED
      BY <3>1, <3>2
  <2> QED
    BY <2>2, <2>3 DEF Routed
<1>17. CASE ServedBack(x, r)
  <2>1. r \notin Shut /\ x \in subs'
    BY <1>17 DEF ServedBack, Shut, Shuts, Internal, Backs, Opens
  <2>2. Fresh(x)' /\ Guarded(x)'
    BY <1>12, <1>15, <2>1
  <2>3. CASE r \in Opens
    <3>1. /\ pc[x] = "answer" /\ Free(down[x], Shut) /\ Free(down[x], Opens) /\ Free(down[x], Lists)
      BY <1>1, <1>2, <1>3, <2>3, EchoKinds
    <3>2. Free(down'[x], Wrong(Granted, rt')) /\ Free(down'[x], Wrong(Lists, rt'))
      <4>1. Wrong(Granted, rt') \subseteq Opens /\ Wrong(Lists, rt') \subseteq Lists
        BY DEF Wrong, Granted
      <4> QED
        BY <1>5, <1>10, <3>1, <4>1, FreeSubset
    <3>3. Told(x)'
      BY <1>10, <3>2, FreeOrder DEF Told
    <3>4. Settled(x)'
      BY <1>6, <3>1 DEF Routed, Guarded, Settled
    <3> QED
      BY <2>2, <3>3, <3>4 DEF Routed
  <2>4. CASE r \notin Opens
    <3>1. r \notin Granted /\ (Covered(x)' => Covered(x))
      BY <1>17, <2>4 DEF ServedBack, Granted
    <3>2. Told(x)' /\ Settled(x)'
      <4>1. CASE Covered(x)'
        BY <1>13, <1>14, <3>1, <4>1
      <4>2. CASE ~Covered(x)'
        BY <4>2 DEF Told, Settled
      <4> QED
        BY <4>1, <4>2
    <3> QED
      BY <2>2, <3>2 DEF Routed
  <2> QED
    BY <2>3, <2>4
<1>18. CASE ServedOff(x, r)
  <2>1. r \in Shut /\ x \notin views' /\ x \notin subs'
    BY <1>8, <1>18 DEF ServedOff
  <2>2. Free(down[x], Shut) /\ r \notin GoodBacks
    <3>1. r \in Shuts
      BY <2>1 DEF Shut
    <3> QED
      BY <1>1, <1>2, <1>3, <3>1, EchoKinds DEF Shuts, GoodBacks, Backs
  <2>3. Stale(x)' = GoodBacks /\ ~Covered(x)'
    BY <1>1, <2>1 DEF Stale
  <2>4. ~Free(down'[x], Shut) /\ NoneAfter(down'[x], Shut, GoodBacks)
    BY <1>5, <2>1, <2>2, FreeOrder, KindsAreCalls
  <2> QED
    BY <1>9, <2>3, <2>4 DEF Routed, Fresh, Told, Settled, Guarded
<1> QED
  BY <1>2, <1>16, <1>17, <1>18

LEMMA ArchivedRouted ==
  ASSUME AllInv, [Next]_vars, NEW x \in conn, NEW s \in Session, ArchiveRoot(s), Archive
  PROVE  Routed(x)' \/ dirty = "prepared"
<1> SUFFICES ASSUME dirty # "prepared"
             PROVE  Routed(x)'
  OBVIOUS
<1>1. /\ down \in [Session -> Seq(Message)] /\ x \in Session /\ pc[s] = "archive"
      /\ "archived" \in Notice /\ NoSession \notin conn
  BY ShapeParts, AppServerAssumption DEF AllInv, LockInv, ServerTypeOK, Notice, Closings, ArchiveRoot, Step
<1>2. Alike(down[x], down'[x])
  BY <1>1, DeliveredOrder, NotificationType DEF Archive
<1>3. /\ UNCHANGED <<conn, rt, up, eff, det, views, lapsed>> /\ subs' = {}
      /\ Covered(x)' <=> Covered(x)
  BY DEF ArchiveRoot, Archive, caches, Covered
<1>4. /\ pc[x] \notin {"answer", "resumeWait", "recoverResumeWait", "forwardResume", "unsubscribe"}
  BY <1>1, OneHolder DEF AllInv, LockInv
<1>5. Free(down[x], GoodBacks) /\ Gone(x)
  <2>1. Silent(x) /\ Gone(x)
    BY <1>1 DEF AllInv, ViewInv, PassFacts, RouteInv, PassRoute, GoneLabels
  <2> QED
    BY <1>4, <2>1, NoResumeCall DEF AllInv
<1>6. Free(down[x], Granted)
  <2>1. Granted \subseteq Opens
    BY DEF Granted
  <2> QED
    BY <1>4, <2>1, NoDesktopCall, FreeSubset DEF AllInv
<1>7. Free(down'[x], GoodBacks) /\ Free(down'[x], Granted)
  BY <1>2, <1>5, <1>6, KindsAreCalls DEF Alike
<1>8. Stale(x)' = GoodBacks
  BY <1>3 DEF Stale
<1>9. Routed(x)
  BY DEF AllInv, RouteInv
<1>10. Fresh(x)'
  BY <1>3, <1>7, <1>8, <1>9, FreeOrder DEF Fresh, Routed
<1>11. Told(x)' /\ Settled(x)'
  <2>1. Covered(x)' => det'[x]
    BY <1>3, <1>5 DEF Gone
  <2>2. NoneAfter(down'[x], GoodBacks, (Wrong(Lists, rt))')
    BY <1>7, FreeOrder
  <2>3. (Wrong(Granted, rt))' \subseteq Granted
    BY DEF Wrong
  <2>4. Free(down'[x], (Wrong(Granted, rt))')
    BY <1>7, <2>3, FreeSubset
  <2> QED
    BY <2>1, <2>2, <2>4 DEF Told, Settled
<1>12. Guarded(x)'
  BY <1>1, <1>4, AnswerGain DEF Guarded, AllInv
<1> QED
  BY <1>10, <1>11, <1>12 DEF Routed

(* When the marker leaves "prepared", nobody knows a route.                    *)
LEMMA EmptiedRouted ==
  ASSUME AllInv, [Next]_vars, dirty = "prepared", dirty' # "prepared", NEW x \in conn
  PROVE  Routed(x)'
<1>1. PICK s \in Session :
        /\ pc[s] \notin {"idle", "lock"}
        /\ \/ pc[s] \in DOMAIN StageOf /\ dirty' = StageOf[pc[s]]
           \/ pc[s] = "clearDirty" /\ dirty' = "none" /\ pc'[s] # "clearDirty"
        /\ UNCHANGED <<conn, rt, subs, up, down, eff, det, job, views, lapsed>>
  BY DirtyMoves DEF AllInv
<1>2. pc[s] = "stageUnsub"
  <2>1. pc[s] \notin AfterUnsub \ {"stageUnsub"}
    BY DEF AllInv, RouteInv, Staged
  <2> QED
    BY <1>1, <2>1 DEF AfterUnsub, StageOf
<1>3. x \in Session /\ pc[x] \in {"idle", "lock", "stageUnsub"}
  BY <1>2, OneHolder, ShapeParts DEF AllInv, LockInv, ServerTypeOK
<1>4. Emptied(x)
  BY <1>2 DEF AllInv, RouteInv, PassRoute
<1>5. Free(down[x], GoodBacks) /\ Free(down[x], Lists) /\ Free(down[x], Opens)
  BY <1>3, <1>4, NoResumeCall, NoListCall, NoDesktopCall DEF AllInv, Emptied
<1>6. Stale(x)' \subseteq GoodBacks
  BY DEF Stale, Wrong
<1>7. (Wrong(Granted, rt))' \subseteq Opens /\ (Wrong(Lists, rt))' \subseteq Lists
  BY DEF Wrong, Granted
<1>8. /\ Free(down[x], Stale(x)') /\ Free(down[x], (Wrong(Granted, rt))')
      /\ Free(down[x], (Wrong(Lists, rt))')
  BY <1>5, <1>6, <1>7, FreeSubset
<1> QED
  BY <1>1, <1>4, <1>8, FreeOrder DEF Emptied, Routed, Settled, Fresh, Told, Guarded

(* A session that has just opened knows nothing and was told nothing.         *)
LEMMA NewChannels ==
  ASSUME LockInv, [Next]_vars, NEW x \in conn', x \notin conn
  PROVE  /\ x \in Session /\ Open(x) /\ UNCHANGED <<eff, files, handler, job, rt, subs>>
         /\ \A A : Free(up'[x], A) /\ Free(down'[x], A)
         /\ \A A, B : NoneAfter(up'[x], A, B) /\ NoneAfter(down'[x], A, B)
<1>1. x \in Session /\ Open(x) /\ up[x] = <<>> /\ down[x] = <<>>
  BY Opened
<1>2. up'[x] = <<>> /\ down'[x] = <<>> /\ UNCHANGED <<eff, files, handler, job, rt, subs>>
  BY <1>1 DEF Open, Connect, caches
<1>3. Len(<<>>) = 0
  OBVIOUS
<1> QED
  BY <1>1, <1>2, <1>3 DEF Free, NoneAfter

LEMMA NewRouted ==
  ASSUME AllInv, [Next]_vars, NEW x \in conn', x \notin conn
  PROVE  Routed(x)' /\ Emptied(x)' /\ Parting(x)'
<1>1. /\ x \in Session /\ UNCHANGED eff
      /\ \A A : Free(up'[x], A) /\ Free(down'[x], A)
      /\ \A A, B : NoneAfter(up'[x], A, B) /\ NoneAfter(down'[x], A, B)
  BY NewChannels DEF AllInv
<1>2. eff'[x] = NoProvider
  BY <1>1 DEF AllInv, RouteInv
<1> QED
  BY <1>1, <1>2 DEF Routed, Settled, Fresh, Told, Guarded, Emptied, Silent, Parting

LEMMA RoutedStep ==
  ASSUME AllInv, [Next]_vars, dirty' # "prepared", NEW x \in conn'
  PROVE  Routed(x)'
<1>1. CASE x \notin conn
  BY <1>1, NewRouted
<1>2. CASE x \in conn /\ dirty = "prepared"
  BY <1>2, EmptiedRouted
<1>3. CASE x \in conn /\ dirty # "prepared"
  <2>1. ~Close(x)
    BY DEF Close, Disconnect
  <2>2. Still(x) \/ Sends(x) \/ Touches(x)
    BY <1>3, ViewSteps DEF AllInv
  <2>3. CASE Hear(x)
    BY <1>3, <2>3, HeardRouted
  <2>4. CASE ~Hear(x)
    BY <1>3, <2>1, <2>2, <2>4, StillRouted, TimeoutRouted, ServedRouted, ArchivedRouted DEF Touches
  <2> QED
    BY <2>3, <2>4
<1> QED
  BY <1>1, <1>2, <1>3

(* A session that is not open has no route.                                   *)
LEMMA EffClosed ==
  ASSUME AllInv, [Next]_vars, NEW x \in Session \ conn'
  PROVE  eff'[x] = NoProvider
<1>1. CASE x \notin conn
  <2>1. eff[x] = NoProvider
    BY <1>1 DEF AllInv, RouteInv
  <2>2. ~Hear(x) /\ pc[x] # "repairResume"
    BY <1>1, OneHolder DEF AllInv, LockInv, Hear
  <2> QED
    BY <2>1, <2>2, EffMoves DEF AllInv
<1>2. CASE x \in conn
  <2>1. PICK s \in Session : Open(s) \/ Close(s)
    BY <1>2, ConnKept
  <2>2. Close(x)
    BY <1>2, <2>1 DEF Open, Connect, Close, Disconnect
  <2> QED
    BY <2>2, ShapeParts DEF AllInv, LockInv, CacheTypes, Close, Forget
<1> QED
  BY <1>1, <1>2

-----------------------------------------------------------------------------
(* What the unsubscribe pass leaves behind it *)

LEMMA SilentKept ==
  ASSUME AllInv, [Next]_vars, NEW x \in conn, x \in conn', Silent(x),
         NEW s \in Session, pc[s] \in Emptying
  PROVE  Silent(x)'
<1>1. x \in Session /\ pc[x] \in {"idle", "lock"} \cup Emptying
  BY EmptyingAlone, ShapeParts DEF AllInv, LockInv, ServerTypeOK
<1>2. ~Close(x) /\ ~Forwards(x)
  <2>1. pc[x] \notin {"forwardResume", "unsubscribe"}
    BY <1>1 DEF Emptying, GoneLabels
  <2> QED
    BY <2>1 DEF Close, Disconnect, Forwards, ForwardResume, ForwardUnsubscribe, Forward, Step
<1>3. CASE Still(x)
  BY <1>3, KindsAreCalls DEF Still, Alike, Silent
<1>4. CASE Sends(x)
  <2>1. PICK m \in Message :
          /\ Longer(up[x], m, up'[x]) /\ down'[x] = down[x]
          /\ m.op \in {"jresub", "jrestore"} => \E t \in Session : pc[t] \in {"resub", "restore"}
    BY <1>4 DEF Sends
  <2>2. \A t \in Session : pc[t] \notin {"resub", "restore"}
    BY EmptyingAlone DEF AllInv, Emptying, GoneLabels
  <2>3. m \notin PeerBacks
    BY <2>1, <2>2 DEF PeerBacks
  <2> QED
    BY <2>1, <2>3, KindsAreCalls DEF Longer, Silent
<1>5. CASE Hear(x)
  <2>1. up'[x] = up[x] /\ Shorter(down[x], down'[x])
    BY <1>5, HearView DEF AllInv
  <2> QED
    BY <2>1 DEF Shorter, Silent
<1>6. CASE CallTimeout(x) \/ JobTimeout(x)
  <2>1. Faded(x, LiveKinds \cup {DeadOffs}) \/ Faded(x, LiveKinds)
    BY <1>6, CallTimeoutView, BackTimeoutView, UnsubTimeoutView DEF AllInv
  <2> QED
    BY <2>1 DEF Faded, Fades, LiveKinds, Silent
<1>7. CASE ServeStep(x) \/ ServeFault(x)
  <2>1. /\ Shorter(up[x], up'[x]) /\ Head(up[x]) \in Message
        /\ \E r \in Message : Longer(down[x], r, down'[x]) /\ Echoes(r, Head(up[x]))
    BY <1>7, ServeChannels, ServeView DEF AllInv, ServedWell
  <2> QED
    BY <2>1, EchoKinds, KindsAreCalls DEF Shorter, Longer, Silent
<1>8. ASSUME NEW t \in Session, ArchiveRoot(t), Archive
      PROVE  Silent(x)'
  <2>1. down \in [Session -> Seq(Message)] /\ "archived" \in Notice /\ NoSession \notin conn
    BY ShapeParts, AppServerAssumption DEF AllInv, LockInv, ServerTypeOK, Notice, Closings
  <2>2. Alike(down[x], down'[x]) /\ up' = up
    BY <1>1, <1>8, <2>1, DeliveredOrder, NotificationType DEF Archive
  <2> QED
    BY <2>2, KindsAreCalls DEF Alike, Silent
<1> QED
  BY <1>2, <1>3, <1>4, <1>5, <1>6, <1>7, <1>8, ViewSteps DEF AllInv, Touches

Unsubscribing == {"unsub", "stageUnsub"}

(* Nobody learns a route while peers are asked to leave, unless a late answer  *)
(* of a resubscription brings it.                                             *)
LEMMA RouteForgotten ==
  ASSUME AllInv, [Next]_vars, NEW x \in conn, Silent(x), eff[x] = NoProvider,
         NEW s \in Session, pc[s] \in Unsubscribing
  PROVE  eff'[x] = NoProvider
<1>1. x \in Session /\ pc[x] \in {"idle", "lock"} \cup Unsubscribing
  BY OneHolder, ShapeParts DEF AllInv, LockInv, ServerTypeOK, Unsubscribing
<1>2. pc[x] \notin {"repairResume", "routeWait", "answer", "resumeWait", "recoverResumeWait"}
  BY <1>1 DEF Unsubscribing
<1>3. CASE Hear(x)
  <2>1. /\ Shorter(down[x], down'[x])
        /\ \/ HeardQuietly(x, Head(down[x])) \/ HeardBack(x, Head(down[x]))
           \/ HeardOff(x, Head(down[x]))
    BY <1>3, HearView DEF AllInv
  <2>2. ~HeardBack(x, Head(down[x]))
    BY <1>2, <2>1 DEF Shorter, Silent, HeardBack
  <2> QED
    BY <1>2, <2>1, <2>2 DEF HeardQuietly, HeardOff
<1> QED
  BY <1>1, <1>2, <1>3, EffMoves DEF AllInv

LEMMA EmptiedKept ==
  ASSUME AllInv, [Next]_vars, NEW x \in conn, x \in conn', Emptied(x), ~Unsubbing(x),
         NEW s \in Session, pc[s] \in Unsubscribing
  PROVE  Emptied(x)'
<1>1. pc[s] \in Emptying
  BY DEF Unsubscribing, Emptying, GoneLabels
<1>2. Silent(x)' /\ eff'[x] = NoProvider
  BY <1>1, SilentKept, RouteForgotten DEF Emptied
<1>3. pc[x] \notin {"forwardResume", "unsubscribe"} /\ ~Close(x)
      /\ \A t \in Session : pc[t] # "archive"
  BY OneHolder, ShapeParts DEF AllInv, LockInv, ServerTypeOK, Unsubscribing, Close, Disconnect
<1>4. Free(up'[x], DeadOffs)
  <2>1. CASE Still(x) \/ Hear(x)
    BY <2>1, HearView DEF Still, Emptied, AllInv
  <2>2. CASE Sends(x)
    <3>1. PICK m \in Message : m.live /\ Longer(up[x], m, up'[x])
      BY <2>2 DEF Sends
    <3>2. m \notin DeadOffs
      BY <3>1 DEF DeadOffs
    <3> QED
      BY <3>1, <3>2, KindsAreCalls DEF Longer, Emptied
  <2>3. CASE CallTimeout(x) \/ JobTimeout(x)
    <3>1. Faded(x, LiveKinds \cup {DeadOffs})
      BY <2>3, CallTimeoutView, BackTimeoutView DEF AllInv
    <3> QED
      BY <3>1 DEF Faded, Fades, Emptied
  <2>4. CASE ServeStep(x) \/ ServeFault(x)
    BY <2>4, ServeChannels DEF AllInv, Shorter, Emptied
  <2> QED
    BY <1>3, <2>1, <2>2, <2>3, <2>4, ViewSteps
       DEF AllInv, Touches, Forwards, ForwardResume, ForwardUnsubscribe, Forward, ArchiveRoot, Step
<1> QED
  BY <1>2, <1>4 DEF Emptied

LEMMA PartingKept ==
  ASSUME AllInv, [Next]_vars, NEW x \in conn, x \in conn', Parting(x), Leaving(x),
         NEW s \in Session, pc[s] = "unsub"
  PROVE  Parting(x)'
<1>1. pc[x] \notin {"forwardResume", "unsubscribe"} /\ ~Close(x)
      /\ \A t \in Session : pc[t] # "archive"
  BY OneHolder, ShapeParts DEF AllInv, LockInv, ServerTypeOK, Close, Disconnect
<1>2. job[x].unsub = "ok" => Emptied(x)'
  BY EmptiedKept DEF Parting, Unsubbing, Running, Unsubscribing
<1>3. CASE Still(x)
  BY <1>2, <1>3, KindsAreCalls DEF Still, SameView, SameMarks, Alike, Parting
<1>4. CASE Sends(x)
  <2>1. PICK m \in Message :
          /\ m.live /\ Longer(up[x], m, up'[x]) /\ down'[x] = down[x]
          /\ job'[x].unsub \in Running \/ job'[x].unsub = job[x].unsub
    BY <1>4 DEF Sends
  <2>2. m \notin DeadOffs
    BY <2>1 DEF DeadOffs
  <2> QED
    BY <1>2, <2>1, <2>2, KindsAreCalls DEF Longer, Parting, Running
<1>5. CASE Hear(x)
  <2> DEFINE m == Head(down[x])
  <2>1. /\ up'[x] = up[x] /\ Shorter(down[x], down'[x])
        /\ HeardQuietly(x, m) \/ HeardBack(x, m) \/ HeardOff(x, m)
    BY <1>5, HearView DEF AllInv
  <2>2. CASE HeardOff(x, m)
    <3>1. m \in LiveOffs /\ eff'[x] = NoProvider
      BY <2>2 DEF HeardOff
    <3>2. Free(down'[x], PeerBacks) /\ Free(up[x], PeerBacks) /\ Free(up[x], DeadOffs)
      BY <2>1, <3>1 DEF Shorter, Leaving, Parting
    <3> QED
      BY <2>1, <3>1, <3>2 DEF Shorter, Parting, Emptied, Silent
  <2>3. CASE HeardQuietly(x, m) \/ HeardBack(x, m)
    <3>1. job'[x].unsub = job[x].unsub
      BY <2>3 DEF HeardQuietly, HeardBack
    <3> QED
      BY <1>2, <2>1, <3>1 DEF Shorter, Parting
  <2> QED
    BY <2>1, <2>2, <2>3
<1>6. CASE CallTimeout(x) \/ JobTimeout(x)
  <2>1. CASE SameView(x) /\ Faded(x, LiveKinds \cup {DeadOffs})
    BY <1>2, <2>1 DEF SameView, SameMarks, Faded, Fades, LiveKinds, Parting
  <2>2. CASE Free(up'[x], LiveOffs) /\ Free(down'[x], LiveOffs) /\ job'[x].unsub = "bad"
    BY <2>2, FreeOrder DEF Parting
  <2> QED
    BY <1>6, <2>1, <2>2, CallTimeoutView, BackTimeoutView, UnsubTimeoutView DEF AllInv
<1>7. CASE ServeStep(x) \/ ServeFault(x)
  <2>1. /\ Shorter(up[x], up'[x]) /\ Head(up[x]) \in Message /\ job' = job
        /\ \E r \in Message : Longer(down[x], r, down'[x]) /\ Echoes(r, Head(up[x]))
    BY <1>7, ServeChannels, ServeView DEF AllInv, ServedWell
  <2> QED
    BY <1>2, <2>1, EchoKinds, KindsAreCalls DEF Shorter, Longer, Parting
<1> QED
  BY <1>1, <1>3, <1>4, <1>5, <1>6, <1>7, ViewSteps
     DEF AllInv, Touches, Forwards, ForwardResume, ForwardUnsubscribe, Forward, ArchiveRoot, Step

(* The peer an unsubscribe pass waits for.                                    *)
LEMMA WaitedParting ==
  ASSUME AllInv, [Next]_vars, NEW s \in Session, pc'[s] = "unsub", NEW y \in conn', at'[s] = y
  PROVE  Parting(y)'
<1>1. /\ Shape /\ Legal(s) /\ y \in Session /\ y # NoSession
      /\ at \in [Session -> Session \cup {NoSession}]
  BY LegalStep, ShapeStep, ShapeParts, AppServerAssumption
     DEF AllInv, LockInv, Shape, TypeOK, ServerTypeOK, HandlerOK, HandlerTypes
<1>2. pc[s] = "unsub"
  <2>1. CASE at'[s] = at[s]
    <3>1. pc[s] \in JobOps
      BY <1>1, <2>1, AtPass
    <3>2. pc[s] # "unsub" => pc[s] = "mark"
      BY <1>1 DEF Legal, Gate, Before
    <3> QED
      BY <3>1, <3>2 DEF JobOps
  <2>2. CASE at'[s] # at[s]
    BY <1>1, <2>2, AtGain DEF AllInv
  <2> QED
    BY <2>1, <2>2
<1>3. CASE y \notin conn
  BY <1>3, NewRouted
<1>4. CASE y \in conn /\ at'[s] = at[s]
  BY <1>2, <1>4, PartingKept DEF AllInv, ViewInv, PassFacts, RouteInv, PassRoute
<1>5. CASE y \in conn /\ at'[s] # at[s]
  <2>1. CallPeer(s) /\ job[y].unsub \notin Running /\ job'[y].unsub \in Running
    BY <1>1, <1>2, <1>5, AtGain DEF AllInv
  <2>2. Sends(y)
    <3>1. ~Still(y)
      BY <2>1 DEF Still, SameView, SameMarks
    <3> QED
      BY <1>5, <2>1, <3>1, CallPeerView DEF AllInv
  <2>3. PICK m \in Message : m.live /\ Longer(up[y], m, up'[y]) /\ down'[y] = down[y]
    BY <2>2 DEF Sends
  <2>4. Free(up[y], LiveOffs) /\ Free(down[y], LiveOffs) /\ m \notin DeadOffs
    BY <1>5, <2>1, <2>3, NoUnsubCall DEF AllInv, Unsubbing, DeadOffs
  <2>5. NoneAfter(up'[y], LiveOffs, DeadOffs)
    BY <2>3, <2>4, FreeOrder, KindsAreCalls DEF Longer
  <2> QED
    BY <2>1, <2>3, <2>4, <2>5 DEF Parting, Running
<1> QED
  BY <1>3, <1>4, <1>5

LEMMA EmptiedBehind ==
  ASSUME AllInv, [Next]_vars, NEW s \in Session, pc[s] \in Unsubscribing,
         NEW x \in conn', x \in conn => (Emptied(x) /\ ~Unsubbing(x)) \/ Visited(s, x),
         pc[s] = "unsub" \/ (x \in conn => Emptied(x) /\ ~Unsubbing(x))
  PROVE  Emptied(x)'
<1>1. CASE x \notin conn
  BY <1>1, NewRouted
<1>2. CASE x \in conn
  <2>1. Emptied(x) /\ ~Unsubbing(x)
    <3>1. CASE pc[s] = "unsub" /\ at[s] = x /\ job[x].unsub = "ok"
      BY <1>2, <3>1 DEF AllInv, RouteInv, PassRoute, Parting, Unsubbing, Running
    <3> QED
      BY <1>2, <3>1 DEF Visited, KeyPasses
  <2> QED
    BY <1>2, <2>1, EmptiedKept
<1> QED
  BY <1>1, <1>2

LEMMA PassRouteStep ==
  ASSUME AllInv, [Next]_vars, NEW s \in Session
  PROVE  PassRoute(s)'
<1>1. Legal(s) /\ conn \subseteq Session /\ conn' \subseteq Session
  BY LegalStep, ShapeStep, ShapeParts DEF AllInv, LockInv, ServerTypeOK, Shape, TypeOK
<1>2. ASSUME pc[s] = "unsub", NEW x \in conn \ todo[s]
      PROVE  Emptied(x) /\ ~Unsubbing(x)
  BY <1>1, <1>2 DEF AllInv, RouteInv, PassRoute, MarkInv, MarkFacts
<1>3. ASSUME pc'[s] = "stageUnsub", NEW x \in conn'
      PROVE  Emptied(x)'
  <2>1. pc[s] = "stageUnsub" \/ pc[s] = "unsub"
    BY <1>1, <1>3 DEF Legal, Gate, Before
  <2>2. CASE pc[s] = "stageUnsub"
    <3>1. x \in conn => Emptied(x) /\ ~Unsubbing(x)
      BY <1>1, <2>2 DEF AllInv, RouteInv, PassRoute, MarkInv, MarkFacts, AfterUnsub
    <3> QED
      BY <1>3, <2>2, <3>1, EmptiedBehind DEF Unsubscribing
  <2>3. CASE pc[s] = "unsub"
    <3>1. PICK p \in todo[s] : todo[s] = {p} /\ Visited(s, p)
      BY <1>1, <1>3, <2>3 DEF Legal, Gate, KeyPasses, DoneAt
    <3> QED
      BY <1>2, <1>3, <2>3, <3>1, EmptiedBehind DEF Unsubscribing
  <2> QED
    BY <2>1, <2>2, <2>3
<1>4. ASSUME pc'[s] \in GoneLabels, NEW x \in conn'
      PROVE  Silent(x)'
  <2>1. pc[s] \in GoneLabels \/ pc'[s] = "stageUnsub"
    BY <1>1, <1>4 DEF Legal, Gate, Before, GoneLabels
  <2>2. CASE pc[s] \in GoneLabels
    <3>1. CASE x \notin conn
      BY <1>4, <3>1, NewRouted DEF Emptied
    <3>2. CASE x \in conn
      BY <1>4, <2>2, <3>2, SilentKept DEF AllInv, RouteInv, PassRoute, Emptying
    <3> QED
      BY <3>1, <3>2
  <2>3. CASE pc'[s] = "stageUnsub"
    BY <1>3, <1>4, <2>3 DEF Emptied
  <2> QED
    BY <2>1, <2>2, <2>3
<1>5. ASSUME pc'[s] = "unsub", NEW x \in conn' \ todo'[s]
      PROVE  Emptied(x)'
  <2>1. CASE pc[s] = "unsub"
    <3>1. todo'[s] = todo[s] \/ \E p \in todo[s] : todo'[s] = todo[s] \ {p} /\ Visited(s, p)
      BY <1>1, <1>5, <2>1 DEF Legal
    <3> QED
      BY <1>2, <1>5, <2>1, <3>1, EmptiedBehind DEF Unsubscribing
  <2>2. CASE pc[s] # "unsub"
    <3>1. todo'[s] = conn
      BY <1>1, <1>5, <2>2 DEF Legal, Gate, Passes, JobOps
    <3> QED
      BY <1>5, <3>1, NewRouted
  <2> QED
    BY <2>1, <2>2
<1>6. \A y \in conn' : pc'[s] = "unsub" /\ at'[s] = y => Parting(y)'
  BY WaitedParting
<1> QED
  BY <1>3, <1>4, <1>5, <1>6 DEF PassRoute

-----------------------------------------------------------------------------
(* The marker and the target of a handoff *)

LEMMA MarkerMoves ==
  ASSUME AllInv, [Next]_vars, NEW s \in Session, pc[s] \notin {"idle", "lock"}, dirty' # dirty
  PROVE  \/ pc[s] \in DOMAIN StageOf /\ dirty' = StageOf[pc[s]]
         \/ pc[s] = "clearDirty" /\ dirty' = "none" /\ pc'[s] # "clearDirty"
<1>1. PICK t \in Session :
        /\ pc[t] \notin {"idle", "lock"}
        /\ \/ pc[t] \in DOMAIN StageOf /\ dirty' = StageOf[pc[t]]
           \/ pc[t] = "clearDirty" /\ dirty' = "none" /\ pc'[t] # "clearDirty"
  BY DirtyMoves DEF AllInv
<1>2. s = t
  BY <1>1, OneHolder DEF AllInv, LockInv
<1> QED
  BY <1>1, <1>2

LEMMA StagedStep ==
  ASSUME AllInv, [Next]_vars, NEW s \in Session
  PROVE  Staged(s)'
<1> SUFFICES ASSUME pc'[s] \in AfterUnsub \ {"stageUnsub"}
             PROVE  Staged(s)'
  BY DEF Staged, AfterUnsub
<1>1. Staged(s) /\ Legal(s)
  BY LegalStep DEF AllInv, RouteInv, LockInv
<1>2. /\ pc[s] \in AfterUnsub \cup {"route", "routeWait"}
      /\ pc[s] = "stageUnsub" => pc'[s] = "sanitize"
      /\ pc[s] \in {"route", "routeWait"} => pc'[s] = "prepareSame" /\ dirty = "unsubscribed"
  BY <1>1 DEF Legal, Gate, Before, AfterUnsub
<1>3. pc[s] \notin {"idle", "lock"}
  BY <1>2 DEF AfterUnsub
<1>4. CASE dirty' = dirty
  <2>1. CASE pc[s] = "stageUnsub"
    <3>1. dirty' = "unsubscribed"
      BY <1>2, <2>1, StageMoves DEF AllInv, StageOf, AfterStage
    <3> QED
      BY <1>2, <2>1, <3>1 DEF Staged
  <2>2. CASE pc[s] # "stageUnsub"
    <3>1. dirty' # "prepared"
      BY <1>1, <1>2, <1>4, <2>2 DEF Staged
    <3>2. pc'[s] = "prepareSame" => dirty' = "unsubscribed"
      BY <1>1, <1>2, <1>4 DEF Staged, Legal, Gate
    <3>3. pc'[s] \in {"resub", "clearDirty"} => dirty' \in {"unsubscribed", "resubscribing"}
      <4>1. ASSUME pc'[s] \in {"resub", "clearDirty"}
            PROVE  pc[s] \in {"stageResub", "prepareSame", "resub", "clearDirty"}
                   /\ (pc[s] = "stageResub" => pc'[s] = "resub")
        BY <1>1, <4>1 DEF Legal, Gate, Before
      <4>2. pc[s] = "stageResub" /\ pc'[s] = "resub" => dirty' = "resubscribing"
        BY StageMoves DEF AllInv, StageOf, AfterStage
      <4> QED
        BY <1>1, <1>4, <4>1, <4>2 DEF Staged
    <3> QED
      BY <3>1, <3>2, <3>3 DEF Staged
  <2> QED
    BY <2>1, <2>2
<1>5. CASE dirty' # dirty
  <2>1. \/ pc[s] \in DOMAIN StageOf /\ dirty' = StageOf[pc[s]]
        \/ pc[s] = "clearDirty" /\ dirty' = "none" /\ pc'[s] # "clearDirty"
    BY <1>3, <1>5, MarkerMoves
  <2>2. pc'[s] \in {"resub", "clearDirty"} /\ pc'[s] # pc[s] =>
          pc[s] \in {"stageResub", "prepareSame", "resub"}
    BY <1>1 DEF Legal, Gate, Before
  <2>3. pc'[s] # "prepareSame"
    BY <1>1, <1>2, <1>3, <2>1 DEF Legal, Gate, Before, StageOf
  <2>4. dirty' # "prepared"
    BY <1>2, <2>1 DEF StageOf, AfterUnsub
  <2> QED
    BY <2>1, <2>2, <2>3, <2>4 DEF Staged, StageOf
<1> QED
  BY <1>4, <1>5

(* When the handler of a request changes what it handles.                      *)
LEMMA RequestMoves ==
  ASSUME LockInv, [Next]_vars, NEW s \in Session
  PROVE  /\ tgt'[s] # tgt[s] =>
              pc[s] \in {"idle", "route", "routeWait", "sanitizeResume"} \/ pc'[s] = "idle"
         /\ kind'[s] # kind[s] => pc[s] = "idle" \/ pc'[s] = "idle"
<1>1. /\ tgt \in [Session -> Provider \cup {NoProvider}] /\ kind \in [Session -> Kinds]
      /\ pc \in [Session -> Labels]
  BY ShapeParts DEF LockInv, RequestTypes, HandlerOK, HandlerTypes
<1> DEFINE Ok == /\ tgt'[s] # tgt[s] =>
                      pc[s] \in {"idle", "route", "routeWait", "sanitizeResume"} \/ pc'[s] = "idle"
                 /\ kind'[s] # kind[s] => pc[s] = "idle" \/ pc'[s] = "idle"
<1>2. ASSUME NEW t \in Session, Return(t)
      PROVE  Ok
  BY <1>1, <1>2 DEF Return
<1>3. ASSUME NEW t \in Session, PassStep(t)
      PROVE  Ok
  BY <1>3 DEF PassStep, SkipPeer, CheckPeer, ReconcilePeer, BeginPeer, EndPeer, CallPeer, PeerAnswered
<1>4. ASSUME NEW t \in Session, TurnStep(t)
      PROVE  Ok
  <2>1. DecideRoute(t) => Ok
    BY <1>1 DEF DecideRoute, Decide, Step
  <2>2. ForwardTurn(t) \/ FinishCommand(t) => Ok
    BY <1>2 DEF ForwardTurn, FinishCommand, Release
  <2>3. PrepareTurn(t) \/ AskStatus(t) \/ AskRoute(t) => Ok
    BY DEF PrepareTurn, AskStatus, AskRoute, AskServer
  <2> QED
    BY <1>4, <2>1, <2>2, <2>3 DEF TurnStep
<1>5. ASSUME NEW t \in Session, DesktopStep(t) \/ FailRequest(t) \/ LockThread(t)
      PROVE  Ok
  BY <1>1, <1>2, <1>5 DEF DesktopStep, SanitizeResume, ForwardResume, ForwardUnsubscribe, Forward,
     FailRequest, Release, LockThread, Step
<1>6. ASSUME NEW t \in Session, HandoffStep(t) \/ Recover(t) \/ RepairJournal(t)
      PROVE  Ok
  BY <1>6 DEF HandoffStep, SetDirtyStage, Sanitize, InternalResume, AskServer, ClearDirty,
     Recover, Inspect, SaveJournal, ArchiveRoot, UnarchiveAll, Resanitize, ClearJournal,
     RepairJournal, LoadJournal, RepairResume
<1>7. ASSUME NEW t \in Session, Open(t) \/ Close(t) \/ Receive(t)
      PROVE  Ok
  BY <1>1, <1>7 DEF Open, Close, Receive, handler
<1>8. ASSUME NEW t \in Session, Timeout(t) \/ ServeStep(t) \/ ServeFault(t)
      PROVE  Ok
  BY <1>8 DEF Timeout, PeerCallTimeout, JobTimeout, CallTimeout, ServeStep, ServeFault, others, handler
<1>9. ASSUME NEW t \in Session, Hear(t)
      PROVE  Ok
  <2> DEFINE m == Head(down[t])
  <2>1. HearNotice(t, m) \/ HearTurn(t, m) \/ HearResume(t, m) \/ HearJob(t, m) \/ Swallow(m) => Ok
    BY DEF HearNotice, HearTurn, HearResume, HearJob, Swallow
  <2>2. HearDesktop(t, m) => Ok
    BY <1>2 DEF HearDesktop, Release
  <2>3. HearList(t, m) => Ok
    BY <1>1 DEF HearList, Decide
  <2> QED
    BY <1>9, <2>1, <2>2, <2>3 DEF Hear
<1>10. CASE TurnEnds \/ UnloadIdle \/ UNCHANGED vars
  BY <1>10 DEF TurnEnds, UnloadIdle, others, vars, handler
<1> QED
  BY <1>3, <1>4, <1>5, <1>6, <1>7, <1>8, <1>9, <1>10 DEF Next, Handle

LEMMA RequestNames ==
  ASSUME NEW op, NEW v
  PROVE  Request(op, v).asked = v /\ Request(op, v).op = op
BY Zenon DEF Request

(* Who has resumed a thread for a handoff stays subscribed until it is over.   *)
LEMMA StaysResumed ==
  ASSUME AllInv, [Next]_vars, NEW s \in subs, s \in Session,
         pc[s] \in AfterUnsub \ {"stageUnsub", "archive"}, pc'[s] # "idle"
  PROVE  s \in subs' /\ rt' = rt
<1>1. s \in conn /\ (\A t \in Session : pc[t] \notin {"idle", "lock"} => t = s)
  BY OneHolder DEF AllInv, LockInv, AfterUnsub
<1>2. ~Close(s)
  BY ShapeParts DEF AllInv, LockInv, HandlerOK, HandlerTypes, Close
<1>3. ASSUME ServeStep(s)
      PROVE  s \in subs'
  <2> DEFINE m == Head(up[s])
  <2>1. m \in Message /\ Shorter(up[s], up'[s])
    BY <1>1, <1>3, ServeChannels DEF AllInv
  <2>2. ~Unsubbing(s) /\ dirty # "prepared" /\ pc[s] # "answer"
    BY DEF AllInv, MarkInv, MarkFacts, RouteInv, Staged, AfterUnsub
  <2>3. Free(up[s], LiveOffs) /\ Free(up[s], Shuts) /\ Free(up[s], DeadOffs)
    BY <1>1, <2>2, NoUnsubCall, NoDesktopCall DEF AllInv, RouteInv, Routed, Fresh
  <2>4. m \notin LiveOffs \cup Shuts \cup DeadOffs
    BY <2>1, <2>3 DEF Shorter
  <2>5. m.op \notin {"dunsub", "junsub"}
    <3>1. m.live \in BOOLEAN
      BY <2>1 DEF Message
    <3> QED
      BY <2>1, <2>4, <3>1 DEF LiveOffs, DeadOffs, Offs, Shuts
  <2>6. ~ServeUnsubscribe(s, m)
    BY <2>5 DEF ServeUnsubscribe
  <2>7. ServeResume(s, m) \/ ServeList(s, m) \/ ServeTurn(s, m)
    BY <1>3, <2>6 DEF ServeStep, Serve
  <2> QED
    BY <2>7 DEF ServeResume, ServeList, ServeTurn
<1>4. ASSUME NEW t \in Session \ {s}, ServeStep(t)
      PROVE  s \in subs'
  BY <1>4 DEF ServeStep, Serve, ServeResume, ServeUnsubscribe, ServeList, ServeTurn
<1>5. \A t \in Session : ~ArchiveRoot(t)
  BY <1>1 DEF ArchiveRoot, Step
<1>6. s \in subs'
  <2>1. \A t \in Session : RepairResume(t) => pc[t] = "repairResume"
    BY DEF RepairResume, Step
  <2>2. pc[s] # "repairResume"
    BY DEF AfterUnsub
  <2> QED
    BY <1>1, <1>2, <1>3, <1>4, <1>5, <2>1, <2>2, RuntimeMoves DEF AllInv
<1> QED
  BY <1>6, RuntimeHeld DEF AllInv

(* The answer a handoff accepts names its target, and the runtime has it.      *)
LEMMA ResumeVerified ==
  ASSUME AllInv, [Next]_vars, NEW s \in Session,
         pc[s] \in {"resumeWait", "recoverResumeWait"}, pc'[s] \in {"stageResub", "end"}
  PROVE  s \in subs' /\ tgt'[s] = rt'
<1>1. s \in conn /\ pc \in [Session -> Labels]
  BY OneHolder, ShapeParts DEF AllInv, LockInv, HandlerOK, HandlerTypes
<1>2. Hear(s)
  <2>1. ~Close(s) /\ ~CallTimeout(s)
    BY <1>1 DEF Close, CallTimeout, Goto
  <2> QED
    BY <2>1, WaitersStay DEF AllInv, Awaiting, Waiting
<1> DEFINE m == Head(down[s])
<1>3. HearResume(s, m) /\ UNCHANGED <<rt, subs>>
  BY <1>2 DEF Hear, HearNotice, HearTurn, HearDesktop, HearList, HearJob, Swallow
<1>4. /\ m.op = "resume" /\ m.live /\ Verified(m) /\ tgt' = tgt
  BY <1>1, <1>3 DEF HearResume, Goto
<1>5. Shorter(down[s], down'[s]) /\ m \in Message
  BY <1>1, <1>2, HearView DEF AllInv
<1> HIDE DEF m
<1>6. m.asked = tgt[s]
  <2>1. Free(down[s], Foreign(tgt[s]))
    BY <1>1 DEF AllInv, RouteInv, Resolved
  <2>2. m \notin Foreign(tgt[s])
    BY <1>5, <2>1 DEF Shorter, m
  <2> QED
    BY <1>4, <1>5, <2>2 DEF Foreign
<1>7. s \in subs /\ m.prov = rt
  <2>1. dirty # "prepared" /\ pc[s] # "answer"
    BY DEF AllInv, RouteInv, Staged, AfterUnsub
  <2>2. Fresh(s) /\ Free(down[s], Shut)
    BY <1>1, <2>1, NoDesktopCall DEF AllInv, RouteInv, Routed
  <2>3. m \notin Stale(s)
    BY <1>5, <2>2 DEF Fresh, Shorter, m
  <2>4. m \in GoodBacks
    BY <1>4, <1>5 DEF GoodBacks, Backs, Verified
  <2> QED
    BY <2>3, <2>4 DEF Stale, Wrong
<1> QED
  BY <1>3, <1>4, <1>6, <1>7 DEF Verified

(* No resume of a handoff that was given up is still waited for by the next.   *)
LEMMA ForeignKept ==
  ASSUME AllInv, [Next]_vars, NEW s \in Session, s \in conn',
         pc[s] \in {"resumeWait", "recoverResumeWait"}, pc'[s] = pc[s],
         NEW p, Free(up[s], Foreign(p)), Free(down[s], Foreign(p))
  PROVE  Free(up'[s], Foreign(p)) /\ Free(down'[s], Foreign(p))
<1>1. s \in conn /\ (\A t \in Session : pc[t] \notin {"idle", "lock"} => t = s)
      /\ pc \in [Session -> Labels] /\ ~Unsubbing(s)
  BY OneHolder, ShapeParts DEF AllInv, LockInv, HandlerOK, HandlerTypes, MarkInv, MarkFacts, AfterUnsub
<1>2. ~Close(s) /\ ~Forwards(s) /\ ~CallTimeout(s)
  BY <1>1 DEF Close, Disconnect, Forwards, ForwardResume, ForwardUnsubscribe, Forward, Step,
     CallTimeout, Goto
<1>3. Foreign(p) \in SUBSET CallMessages
  BY <1>1, RouteKindsAreCalls
<1>4. CASE Still(s)
  BY <1>3, <1>4 DEF Still, Alike
<1>5. ~Sends(s)
  BY <1>1 DEF Sends, Awaiting, Waiting
<1>6. CASE Hear(s)
  BY <1>1, <1>6, HearView DEF AllInv, Shorter
<1>7. CASE JobTimeout(s)
  <2>1. /\ \E op \in Internal \ {"junsub"} : /\ up'[s] = Dropped(up[s], op)
                                             /\ down'[s] = Dropped(down[s], op)
        /\ up[s] \in Seq(Message) /\ down[s] \in Seq(Message)
    BY <1>1, <1>7, GivesUp DEF AllInv
  <2> QED
    BY <2>1, DroppedRoutes
<1>8. CASE ServeStep(s) \/ ServeFault(s)
  <2> DEFINE m == Head(up[s])
  <2>1. Shorter(up[s], up'[s]) /\ m \in Message
    BY <1>1, <1>8, ServeChannels DEF AllInv
  <2>2. PICK r \in Message : Longer(down[s], r, down'[s]) /\ Echoes(r, m)
    BY <1>1, <1>8, ServeView DEF AllInv, ServedWell
  <2>3. m \notin Foreign(p) /\ Free(up'[s], Foreign(p))
    BY <2>1 DEF Shorter
  <2>4. r \notin Foreign(p)
    BY <2>1, <2>2, <2>3 DEF Foreign, Echoes
  <2> QED
    BY <1>3, <2>2, <2>3, <2>4 DEF Longer
<1>9. \A t \in Session : ~ArchiveRoot(t)
  BY <1>1 DEF ArchiveRoot, Step
<1> QED
  BY <1>1, <1>2, <1>4, <1>5, <1>6, <1>7, <1>8, <1>9, ViewSteps DEF AllInv, Touches

LEMMA ForeignGain ==
  ASSUME AllInv, [Next]_vars, NEW s \in Session, s \in conn',
         pc'[s] \in {"resumeWait", "recoverResumeWait"}, pc'[s] # pc[s]
  PROVE  Free(up'[s], Foreign(tgt'[s])) /\ Free(down'[s], Foreign(tgt'[s]))
<1>1. Shape /\ Legal(s) /\ tgt[s] \in Provider \cup {NoProvider}
  BY LegalStep, ShapeParts DEF AllInv, LockInv, RequestTypes
<1>2. pc[s] \in {"resume", "recoverResume"}
  BY <1>1 DEF Legal, Gate, Before
<1>3. InternalResume(s)
  <2>1. pc[s] \notin {"idle", "lock"} \cup Awaiting \cup Passes
    BY <1>2 DEF Awaiting, Waiting, Passes, Checks, Begins, Ends, JobOps
  <2> QED
    BY <1>1, <1>2, <2>1, LeavesBy, StepAt DEF AllInv
<1> DEFINE m == Request("resume", tgt[s])
<1>4. SendOnly(s, m) /\ tgt' = tgt
  BY <1>3 DEF InternalResume, AskServer
<1>5. "resume" \in Desktop \cup Internal
  BY DEF Internal
<1>6. down'[s] = down[s] /\ Longer(up[s], m, up'[s])
  BY <1>1, <1>4, <1>5, SendLonger
<1>7. m.asked = tgt[s]
  BY RequestNames
<1> HIDE DEF m
<1>8. m \notin Foreign(tgt[s])
  BY <1>7 DEF Foreign
<1>9. s \in conn /\ Foreign(tgt[s]) \in SUBSET CallMessages
  BY <1>2, OneHolder, RouteKindsAreCalls DEF AllInv, LockInv
<1>10. Free(up[s], Foreign(tgt[s])) /\ Free(down[s], Foreign(tgt[s]))
  BY <1>2, <1>9, NoResumeCall DEF AllInv
<1> QED
  BY <1>4, <1>6, <1>8, <1>9, <1>10 DEF Longer

LEMMA ResolvedStep ==
  ASSUME AllInv, [Next]_vars, NEW s \in Session
  PROVE  Resolved(s)'
<1>1. Resolved(s) /\ Staged(s) /\ Legal(s)
  BY LegalStep DEF AllInv, RouteInv, LockInv
<1>2. ASSUME Resolving(s)'
      PROVE  s \in subs' /\ tgt'[s] = rt'
  <2>1. CASE Resolving(s)
    <3>1. /\ pc[s] \in AfterUnsub \ {"stageUnsub", "archive"} /\ pc'[s] # "idle"
          /\ pc[s] \notin {"idle", "route", "routeWait", "sanitizeResume"}
      BY <1>2, <2>1 DEF Resolving, AfterUnsub
    <3>2. s \in subs /\ tgt[s] = rt
      BY <1>1, <2>1 DEF Resolved
    <3>3. tgt'[s] = tgt[s]
      BY <3>1, RequestMoves DEF AllInv
    <3> QED
      BY <3>1, <3>2, <3>3, StaysResumed
  <2>2. CASE ~Resolving(s)
    <3>1. /\ pc[s] \in {"resumeWait", "recoverResumeWait"} => pc'[s] \in {"stageResub", "end"}
          /\ pc[s] \in {"resumeWait", "recoverResumeWait", "prepareSame", "resub", "clearDirty"}
      BY <1>1, <1>2, <2>2 DEF Resolving, Legal, Gate, Before
    <3>2. pc[s] \in {"prepareSame", "resub", "clearDirty"} =>
            /\ pc'[s] \in {"resub", "clearDirty"} /\ dirty' = "resubscribing"
            /\ dirty # "resubscribing"
      BY <1>1, <1>2, <2>2, <3>1 DEF Resolving, Legal, Gate, Before, Staged
    <3>3. pc[s] \notin {"prepareSame", "resub", "clearDirty"}
      BY <3>2, MarkerMoves DEF StageOf
    <3> QED
      BY <3>1, <3>3, ResumeVerified
  <2> QED
    BY <2>1, <2>2
<1>3. ASSUME s \in conn', pc'[s] \in {"resumeWait", "recoverResumeWait"}
      PROVE  Free(up'[s], Foreign(tgt'[s])) /\ Free(down'[s], Foreign(tgt'[s]))
  <2>1. CASE pc'[s] # pc[s]
    BY <1>3, <2>1, ForeignGain
  <2>2. CASE pc'[s] = pc[s]
    <3>1. tgt'[s] = tgt[s] /\ s \in conn
      BY <1>3, <2>2, RequestMoves, OneHolder DEF AllInv, LockInv
    <3> QED
      BY <1>1, <1>3, <2>2, <3>1, ForeignKept DEF Resolved
  <2> QED
    BY <2>1, <2>2
<1>4. (Foreign(tgt[s]))' = Foreign(tgt'[s])
  BY DEF Foreign
<1> QED
  BY <1>2, <1>3, <1>4 DEF Resolved

-----------------------------------------------------------------------------

LEMMA RouteStep ==
  ASSUME AllInv, [Next]_vars
  PROVE  RouteInv'
<1>1. subs' # {} => loaded'
  BY RuntimeHeld DEF AllInv
<1>2. \A x \in Session \ conn' : eff'[x] = NoProvider
  BY EffClosed
<1>3. dirty' # "prepared" => \A x \in conn' : Routed(x)'
  BY RoutedStep
<1>4. \A s \in Session : PassRoute(s)' /\ Staged(s)' /\ Resolved(s)'
  BY PassRouteStep, StagedStep, ResolvedStep
<1> QED
  BY <1>1, <1>2, <1>3, <1>4 DEF RouteInv

(* Outside the unsubscribe pass a session believes of the runtime what is so,  *)
(* or will be told better before it can act on it; from the verified resume of *)
(* a handoff on, the runtime has the target until the handler returns          *)
(* (effectiveRouteForTurn, Resubscribe, internalResumeWithRoute).              *)
THEOREM RouteInvariance == Spec => []RouteInv
<1>1. Init => RouteInv
  <2> SUFFICES ASSUME Init
               PROVE  RouteInv
    OBVIOUS
  <2>1. /\ \A x \in Session : up[x] = <<>> /\ down[x] = <<>> /\ pc[x] = "idle"
        /\ conn \subseteq Session /\ Len(<<>>) = 0 /\ (subs # {} => loaded)
    BY DEF Init
  <2>2. \A A, B : Free(<<>>, A) /\ NoneAfter(<<>>, A, B)
    BY <2>1 DEF Free, NoneAfter
  <2>3. \A x \in Session : /\ \A A : Free(up[x], A) /\ Free(down[x], A)
                           /\ \A A, B : NoneAfter(up[x], A, B) /\ NoneAfter(down[x], A, B)
    BY <2>1, <2>2
  <2>4. \A x \in Session : eff[x] \in {NoProvider, rt} /\ (x \notin conn => eff[x] = NoProvider)
    BY DEF Init
  <2>5. \A x \in Session : Routed(x)
    BY <2>1, <2>3, <2>4 DEF Routed, Settled, Fresh, Told, Guarded
  <2>6. \A s \in Session : PassRoute(s) /\ Staged(s) /\ Resolved(s)
    BY <2>1 DEF PassRoute, GoneLabels, Staged, AfterUnsub, Resolved, Resolving
  <2> QED
    BY <2>1, <2>4, <2>5, <2>6 DEF RouteInv
<1>2. LockInv /\ CallsOK /\ SupInv /\ MarkInv /\ ViewInv /\ RouteInv /\ [Next]_vars => RouteInv'
  BY RouteStep DEF AllInv
<1> QED
  BY <1>1, <1>2, LockInvariance, CallsInvariance, SupInvariance, MarkInvariance, ViewInvariance, PTL
     DEF Spec

(* While no handoff is pending a covered view that knows a route knows the     *)
(* runtime's: what the switcher shows as "(verified)", and uses without asking *)
(* the app-server, is so (effectiveRouteForTurn, invalidateThreadRuntime).     *)
THEOREM RoutesVerified == Spec => []VerifiedRuntime
<1>1. MarkInv /\ RouteInv => VerifiedRuntime
  BY DEF MarkInv, RouteInv, Routed, Settled, Covered, VerifiedRuntime
<1> QED
  BY <1>1, MarkInvariance, RouteInvariance, PTL

LEMMA DecidedRoute ==
  ASSUME Shape, NEW s \in Session, NEW obs, Decide(s, obs), pc'[s] = "finish"
  PROVE  dirty = "none" /\ tgt'[s] = obs /\ ~ForceFull(s)
<1>1. /\ pc \in [Session -> Labels] /\ tgt \in [Session -> Provider \cup {NoProvider}]
  BY ShapeParts DEF HandlerOK, HandlerTypes, RequestTypes
<1>2. ~Goto(s, "prepareHandoff") /\ ~Goto(s, "prepareSame")
  BY <1>1 DEF Goto
<1> QED
  BY <1>1, <1>2 DEF Decide

(* How the handler of a message comes to its end.                             *)
LEMMA FinishesBy ==
  ASSUME LockInv, [Next]_vars, NEW s \in Session, pc[s] # "finish", pc'[s] = "finish",
         kind[s] \in {"turn", "switch"}
  PROVE  \/ /\ dirty = "none" /\ eff[s] # NoProvider /\ tgt'[s] = eff[s]
            /\ UNCHANGED <<rt, dirty>>
         \/ /\ dirty = "none" /\ s \in conn /\ down[s] # <<>> /\ Head(down[s]) \in Lists
            /\ tgt'[s] = (IF eff[s] = NoProvider THEN Head(down[s]).prov ELSE eff[s])
            /\ UNCHANGED <<rt, dirty>>
         \/ pc[s] = "clearDirty" /\ dirty' = "none" /\ UNCHANGED <<tgt, rt>>
<1>1. Shape /\ Legal(s) /\ pc \in [Session -> Labels] /\ down \in [Session -> Seq(Message)]
  BY LegalStep, ShapeParts DEF LockInv, HandlerOK, HandlerTypes, ServerTypeOK
<1>2. pc[s] \in {"route", "routeWait", "repair", "repairClear", "clearDirty"}
  BY <1>1 DEF Legal, Gate, Before
<1>3. pc[s] # "routeWait" => Handle(s) /\ pc[s] \notin Passes
  <2>1. pc[s] \notin Passes /\ (pc[s] # "routeWait" => pc[s] \notin {"idle", "lock"} \cup Awaiting)
    BY <1>2 DEF Awaiting, Waiting, Passes, Checks, Begins, Ends, JobOps
  <2> QED
    BY <2>1, LeavesBy
<1>4. CASE pc[s] = "route"
  <2>1. DecideRoute(s)
    <3>1. ~AskRoute(s)
      BY <1>1 DEF AskRoute, AskServer, Goto
    <3> QED
      BY <1>1, <1>3, <1>4, <3>1, StepAt
  <2>2. dirty = "none" /\ tgt'[s] = eff[s] /\ eff[s] # NoProvider
    BY <1>1, <2>1, DecidedRoute DEF DecideRoute, NeedsRuntime
  <2> QED
    BY <2>1, <2>2 DEF DecideRoute, ServerIdle, serverVars, files
<1>5. CASE pc[s] = "routeWait"
  <2> DEFINE m == Head(down[s])
  <2>1. Hear(s)
    <3>1. ~Close(s) /\ ~CallTimeout(s)
      BY <1>1, <1>5 DEF Close, CallTimeout, Goto
    <3> QED
      BY <1>5, <3>1, WaitersStay DEF Awaiting, Waiting
  <2>2. HearList(s, m) /\ UNCHANGED <<rt, dirty>>
    BY <1>5, <2>1 DEF Hear, HearNotice, HearTurn, HearDesktop, HearResume, HearJob, Swallow, files
  <2>3. m.op = "list" /\ m.live /\ m.ok /\ Decide(s, IF eff[s] = NoProvider THEN m.prov ELSE eff[s])
    BY <1>1, <1>5, <2>2 DEF HearList, Goto
  <2>4. s \in conn /\ down[s] # <<>> /\ m \in Message
    BY <1>1, <2>1, TailShorter DEF Hear
  <2>5. dirty = "none" /\ tgt'[s] = (IF eff[s] = NoProvider THEN m.prov ELSE eff[s])
    BY <1>1, <2>3, DecidedRoute
  <2> QED
    BY <2>2, <2>3, <2>4, <2>5 DEF Lists
<1>6. CASE pc[s] \in {"repair", "repairClear"}
  <2>1. LoadJournal(s) \/ ClearJournal(s, "repairClear", AfterRepair(s), "fail")
    BY <1>1, <1>3, <1>6, StepAt
  <2>2. AfterRepair(s) = "route"
    BY DEF AfterRepair
  <2> QED
    BY <1>1, <2>1, <2>2 DEF LoadJournal, ClearJournal, Goto
<1>7. CASE pc[s] = "clearDirty"
  <2>1. ClearDirty(s)
    BY <1>1, <1>3, <1>7, StepAt
  <2> QED
    BY <1>1, <1>7, <2>1 DEF ClearDirty, Goto, ServerIdle, serverVars
<1> QED
  BY <1>2, <1>4, <1>5, <1>6, <1>7

(* A handler that comes to its end without a repair has seen the runtime of    *)
(* its target.                                                                *)
LEMMA SettledStep ==
  ASSUME AllInv, [Next]_vars, NEW s \in Session, pc[s] # "finish", pc'[s] = "finish",
         kind[s] \in {"turn", "switch"}, dirty # "unsubscribed", Covered(s)
  PROVE  tgt'[s] = rt'
<1>1. s \in conn /\ down \in [Session -> Seq(Message)]
  BY ShapeParts DEF AllInv, LockInv, ServerTypeOK, Covered
<1>2. dirty = "none" => ~det[s] /\ Routed(s)
  BY <1>1 DEF AllInv, MarkInv, RouteInv
<1>3. dirty = "none" /\ down[s] # <<>> /\ Head(down[s]) \in Lists => Head(down[s]).prov = rt
  <2>1. dirty = "none" => Free(down[s], Wrong(Lists, rt))
    BY <1>2 DEF Routed, Told
  <2>2. down[s] # <<>> => Shorter(down[s], Tail(down[s]))
    BY <1>1, TailShorter
  <2> QED
    BY <2>1, <2>2 DEF Shorter, Wrong
<1>4. pc[s] = "clearDirty" => tgt[s] = rt
  BY DEF AllInv, RouteInv, Staged, Resolving, Resolved
<1> QED
  BY <1>2, <1>3, <1>4, FinishesBy DEF AllInv, Routed, Settled

(* No handoff is pending once a message is let through, until it has its       *)
(* acknowledgement.                                                           *)
SentInv ==
  \A s \in Session : fence[s] \/ (pc[s] = "finish" /\ kind[s] = "turn") => dirty = "none"

LEMMA FenceGain ==
  ASSUME LockInv, [Next]_vars, NEW s \in Session, fence'[s], ~fence[s]
  PROVE  ForwardTurn(s)
<1>1. fence \in [Session -> BOOLEAN]
  BY ShapeParts DEF LockInv, FileTypes
<1>2. ASSUME NEW t \in Session, PassStep(t)
      PROVE  FALSE
  BY <1>2 DEF PassStep, SkipPeer, CheckPeer, ReconcilePeer, BeginPeer, EndPeer, CallPeer, PeerAnswered
<1>3. ASSUME NEW t \in Session, TurnStep(t)
      PROVE  ForwardTurn(s)
  BY <1>1, <1>3 DEF TurnStep, PrepareTurn, AskStatus, DecideRoute, AskRoute, AskServer, ForwardTurn,
     FinishCommand, KeepFence
<1>4. ASSUME NEW t \in Session, DesktopStep(t) \/ FailRequest(t) \/ LockThread(t)
      PROVE  FALSE
  BY <1>4 DEF DesktopStep, SanitizeResume, ForwardResume, ForwardUnsubscribe, Forward, FailRequest,
     LockThread
<1>5. ASSUME NEW t \in Session, HandoffStep(t) \/ Recover(t) \/ RepairJournal(t)
      PROVE  FALSE
  BY <1>5 DEF HandoffStep, SetDirtyStage, Sanitize, InternalResume, AskServer, ClearDirty,
     Recover, Inspect, SaveJournal, ArchiveRoot, UnarchiveAll, Resanitize, ClearJournal,
     RepairJournal, LoadJournal, RepairResume
<1>6. ASSUME NEW t \in Session, \/ Open(t) \/ Close(t) \/ Receive(t) \/ Timeout(t)
                                \/ ServeStep(t) \/ ServeFault(t)
      PROVE  FALSE
  BY <1>1, <1>6 DEF Open, Close, Receive, Timeout, PeerCallTimeout, JobTimeout, CallTimeout,
     ServeStep, ServeFault, others
<1>7. ASSUME NEW t \in Session, Hear(t)
      PROVE  FALSE
  BY <1>1, <1>7 DEF Hear, HearNotice, HearTurn, LiftFence, HearDesktop, HearList, HearResume,
     HearJob, Swallow
<1>8. ~TurnEnds /\ ~UnloadIdle /\ ~UNCHANGED vars
  BY DEF TurnEnds, UnloadIdle, others, vars
<1> QED
  BY <1>2, <1>3, <1>4, <1>5, <1>6, <1>7, <1>8 DEF Next, Handle

LEMMA SentStep ==
  ASSUME LockInv, SentInv, [Next]_vars
  PROVE  SentInv'
<1> SUFFICES ASSUME NEW s \in Session, fence'[s] \/ (pc'[s] = "finish" /\ kind'[s] = "turn")
             PROVE  dirty' = "none"
  BY DEF SentInv
<1>1. fence[s] \/ pc[s] = "finish" => dirty' = dirty
  <2>1. ASSUME dirty' # dirty, fence[s] \/ pc[s] = "finish"
        PROVE  FALSE
    <3>1. PICK t \in Session : /\ pc[t] \notin {"idle", "lock"}
                               /\ pc[t] \in DOMAIN StageOf \/ pc[t] = "clearDirty"
      BY <2>1, DirtyMoves
    <3>2. lock = s /\ lock = t
      BY <2>1, <3>1 DEF LockInv, Serial, Inside
    <3> QED
      BY <2>1, <3>1, <3>2 DEF LockInv, Serial, StageOf
  <2> QED
    BY <2>1
<1>2. CASE fence'[s] /\ ~fence[s]
  <2>1. pc[s] = "finish" /\ kind[s] = "turn"
    BY <1>2, FenceGain DEF ForwardTurn, Step
  <2> QED
    BY <1>1, <2>1 DEF SentInv
<1>3. CASE fence[s]
  BY <1>1, <1>3 DEF SentInv
<1>4. CASE ~fence'[s]
  <2>1. CASE pc[s] = "finish"
    <3>1. kind[s] = "turn"
      BY <1>4, <2>1, RequestMoves
    <3> QED
      BY <1>1, <2>1, <3>1 DEF SentInv
  <2>2. CASE pc[s] # "finish"
    <3>1. pc[s] # "idle"
      <4>1. Legal(s)
        BY LegalStep DEF LockInv
      <4> QED
        BY <1>4, <2>2, <4>1 DEF Legal, Gate, Before
    <3>2. kind[s] = "turn"
      BY <1>4, <3>1, RequestMoves
    <3> QED
      BY <1>4, <2>2, <3>2, FinishesBy
  <2> QED
    BY <2>1, <2>2
<1> QED
  BY <1>2, <1>3, <1>4

(* Between the decision to send a message and its acknowledgement the marker   *)
(* stays away: no other session begins a handoff (handleTurnStart, the fence). *)
THEOREM SentInvariance == Spec => []SentInv
<1>1. Init => SentInv
  BY DEF Init, SentInv
<1> QED
  BY <1>1, SentStep, LockInvariance, PTL DEF Spec

LEMMA OutgoingHeld ==
  ASSUME AllInv, SentInv, ViewsStaySubscribed, [Next]_vars, NEW s \in Session, Covered(s),
         Outgoing(s)
  PROVE  rt' = rt
<1>1. s \in conn /\ TurnsOK(s) /\ up[s] \in Seq(Message)
  BY ShapeParts DEF AllInv, LockInv, ServerTypeOK, Channels, Covered
<1>2. fence[s] \/ (pc[s] = "finish" /\ kind[s] = "turn")
  BY <1>1, TurnAwaited DEF Outgoing, TurnsOK, HasTurn, Has
<1>3. s \in subs
  BY <1>2 DEF SentInv, ViewsStaySubscribed
<1> QED
  BY <1>3, RuntimeHeld DEF AllInv

(* A message or a provider command that a covered view sends without a handoff, *)
(* or after a whole one, goes to a runtime of its target, whatever was given up *)
(* before: only the repair of an "unsubscribed" marker trusts a route nobody    *)
(* has verified since.  The message then finds the runtime unchanged            *)
(* (handleTurnStart).                                                          *)
THEOREM RouteSettled == Spec => SettledRoute
<1>1. /\ LockInv /\ CallsOK /\ SupInv /\ MarkInv /\ ViewInv /\ RouteInv /\ SentInv
      /\ ViewsStaySubscribed /\ [Next]_vars
      => [\A s \in Session : Covered(s) =>
            /\ /\ pc[s] # "finish" /\ pc'[s] = "finish" /\ kind[s] \in {"turn", "switch"}
               /\ dirty # "unsubscribed"
               => tgt'[s] = rt'
            /\ Outgoing(s) => rt' = rt]_vars
  BY SettledStep, OutgoingHeld DEF AllInv
<1> QED
  BY <1>1, LockInvariance, CallsInvariance, SupInvariance, MarkInvariance, ViewInvariance,
     RouteInvariance, SentInvariance, ViewsSubscribed, PTL DEF Spec, SettledRoute
==============================================================================
