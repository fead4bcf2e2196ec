------------------------------ MODULE AppServer ------------------------------
(***************************************************************************)
(* The Codex app-server as the switcher uses it: one thread's runtime, its *)
(* subscribers, the turn it may be running, and one pair of FIFO channels  *)
(* per proxied WebSocket connection.  The app-server is not part of this   *)
(* repository: every definition here is the behaviour the calls in         *)
(* internal/transport rely on (and the integration tests' fake server      *)
(* plays), with the outcomes the code must tolerate left open.             *)
(***************************************************************************)
EXTENDS Naturals, Sequences

CONSTANTS Session,      \* proxy connections; each is opened at most once
          Provider,     \* model providers
          NoSession,    \* no connection
          NoProvider,   \* no provider named
          Orphan,       \* owner of a turn whose connection had already closed
          ClosedToAll   \* thread/closed also reaches unsubscribed connections

ASSUME AppServerAssumption ==
  /\ NoSession \notin Session
  /\ Orphan \notin Session \cup {NoSession}
  /\ NoProvider \notin Provider
  /\ ClosedToAll \in BOOLEAN

VARIABLES conn,      \* open connections
          rt,        \* provider of the runtime, or of the rollout when unloaded
          loaded,    \* the thread has a runtime in memory
          subs,      \* connections subscribed to the thread
          running,   \* whose turn is running
          archived,  \* the rollout is in the archive
          up,        \* requests on their way to the app-server
          down       \* responses and notifications on their way back

serverVars == <<conn, rt, loaded, subs, running, archived, up, down>>

Desktop  == {"turn", "dresume", "dunsub"}            \* the user's requests
Internal == {"list", "resume", "junsub", "jresub", "jrestore"}
Closings == {"closed", "archived"}    \* thread/closed: of an unload, of an archive
Notice   == {"started", "completed"} \cup Closings

Message ==
  [op   : Desktop \cup Internal \cup Notice,
   prov : Provider \cup {NoProvider},
   asked: Provider \cup {NoProvider},   \* the provider the request named
   ok   : BOOLEAN,
   tag  : {"", "idle", "active", "notLoaded", "unsubscribed", "notSubscribed"},
   live : BOOLEAN]    \* FALSE: nobody waits for the answer any more

Request(op, prov) ==
  [op |-> op, prov |-> prov, asked |-> prov, ok |-> TRUE, tag |-> "", live |-> TRUE]

Notification(op) == Request(op, NoProvider)

Answer(m, ok, prov, tag) == [m EXCEPT !.ok = ok, !.prov = prov, !.tag = tag]

Send(s, m) == up' = [up EXCEPT ![s] = Append(@, m)]

(* What reaches each connection when the answer r goes to s and the         *)
(* notification n to every member of the set to.                            *)
Deliveries(s, r, n, to) ==
  [x \in Session |->
     down[x] \o (IF x = s /\ s \in conn THEN <<r>> ELSE <<>>)
             \o (IF x \in to THEN <<Notification(n)>> ELSE <<>>)]

Reply(s, r) == down' = Deliveries(s, r, "closed", {})

Status == IF running # NoSession THEN "active"
          ELSE IF loaded THEN "idle" ELSE "notLoaded"

(* Connections that hear that the thread closed.                             *)
ClosedTo == IF ClosedToAll THEN conn ELSE subs

-----------------------------------------------------------------------------

(* thread/resume with provider p.  A loaded runtime keeps its provider while *)
(* anybody is subscribed or a turn runs; without subscribers the server may  *)
(* replace it (0.146.0 and newer) or keep it (older, or stuck).              *)
Resumed(p) ==
  IF p = NoProvider \/ p = rt THEN {rt}
  ELSE IF ~loaded THEN {p}
  ELSE IF subs = {} /\ running = NoSession THEN {rt, p}
  ELSE {rt}

ServeResume(s, m) ==
  /\ m.op \in {"dresume", "resume", "jresub", "jrestore"}
  /\ IF archived
     THEN /\ Reply(s, Answer(m, FALSE, NoProvider, ""))
          /\ UNCHANGED <<rt, loaded, subs>>
     ELSE /\ rt' \in Resumed(m.prov)
          /\ loaded' = TRUE
          /\ subs' = subs \cup ({s} \cap conn)
          /\ Reply(s, Answer(m, TRUE, rt', ""))
  /\ UNCHANGED <<running, archived>>

ServeUnsubscribe(s, m) ==
  /\ m.op \in {"dunsub", "junsub"}
  /\ subs' = subs \ {s}
  /\ Reply(s, Answer(m, TRUE, NoProvider,
                     IF s \in subs THEN "unsubscribed"
                     ELSE IF loaded THEN "notSubscribed" ELSE "notLoaded"))
  /\ UNCHANGED <<rt, loaded, running, archived>>

ServeList(s, m) ==
  /\ m.op = "list"
  /\ Reply(s, Answer(m, TRUE, rt, Status))
  /\ UNCHANGED <<rt, loaded, subs, running, archived>>

(* turn/start: accepted on a loaded idle thread, and announced to every      *)
(* subscriber; refused otherwise.  It never changes the runtime's provider.  *)
ServeTurn(s, m) ==
  /\ m.op = "turn"
  /\ IF loaded /\ running = NoSession
     THEN /\ running' = IF s \in conn THEN s ELSE Orphan
          /\ down' = Deliveries(s, Answer(m, TRUE, m.prov, ""), "started", subs)
     ELSE /\ Reply(s, Answer(m, FALSE, m.prov, ""))
          /\ UNCHANGED running
  /\ UNCHANGED <<rt, loaded, subs, archived>>

Serve(s) ==
  /\ up[s] # <<>>
  /\ LET m == Head(up[s])
     IN ServeResume(s, m) \/ ServeUnsubscribe(s, m) \/ ServeList(s, m) \/ ServeTurn(s, m)
  /\ up' = [up EXCEPT ![s] = Tail(@)]
  /\ UNCHANGED conn

(* Any request can be answered with an RPC error and no effect.              *)
ServeError(s) ==
  /\ up[s] # <<>>
  /\ Reply(s, Answer(Head(up[s]), FALSE, NoProvider, ""))
  /\ up' = [up EXCEPT ![s] = Tail(@)]
  /\ UNCHANGED <<conn, rt, loaded, subs, running, archived>>

EndTurn ==
  /\ running # NoSession
  /\ running' = NoSession
  /\ down' = Deliveries(NoSession, Notification("completed"), "completed", subs)
  /\ UNCHANGED <<conn, rt, loaded, subs, archived, up>>

(* The inactivity unload of a thread nobody is subscribed to.                *)
Unload ==
  /\ loaded /\ subs = {} /\ running = NoSession
  /\ loaded' = FALSE
  /\ down' = Deliveries(NoSession, Notification("closed"), "closed", ClosedTo)
  /\ UNCHANGED <<conn, rt, subs, running, archived, up>>

(* thread/archive: the runtime is shut down, its turn with it, and every     *)
(* connection hears that the thread closed.                                  *)
Archive ==
  /\ archived' = TRUE
  /\ loaded' = FALSE
  /\ subs' = {}
  /\ running' = NoSession
  /\ down' = Deliveries(NoSession, Notification("archived"), "archived", ClosedTo)
  /\ UNCHANGED <<conn, rt, up>>

Unarchive ==
  /\ archived' = FALSE
  /\ UNCHANGED <<conn, rt, loaded, subs, running, up, down>>

(* A resume and unsubscribe on the recovery connection: no proxy connection  *)
(* gains a subscription.                                                     *)
RecoveryResume(p) ==
  /\ rt' \in Resumed(p)
  /\ loaded' = TRUE
  /\ UNCHANGED <<conn, subs, running, archived, up, down>>

Connect(s) ==
  /\ conn' = conn \cup {s}
  /\ UNCHANGED <<rt, loaded, subs, running, archived, up, down>>

(* The connection drops: a turn/start already on it is lost or still read.   *)
Disconnect(s) ==
  /\ conn' = conn \ {s}
  /\ subs' = subs \ {s}
  /\ \/ up' = [up EXCEPT ![s] = <<>>]
     \/ \E i \in DOMAIN up[s] :
          up[s][i].op = "turn" /\ up' = [up EXCEPT ![s] = <<up[s][i]>>]
  /\ down' = [down EXCEPT ![s] = <<>>]
  /\ UNCHANGED <<rt, loaded, running, archived>>

ServerTypeOK ==
  /\ conn \subseteq Session /\ subs \subseteq Session
  /\ rt \in Provider
  /\ loaded \in BOOLEAN /\ archived \in BOOLEAN
  /\ running \in Session \cup {NoSession, Orphan}
  /\ up \in [Session -> Seq(Message)] /\ down \in [Session -> Seq(Message)]
=============================================================================
