------------------------------ MODULE Requests -------------------------------
(***************************************************************************)
(* The request tables of one session (internal/transport/session.go) and   *)
(* the goroutines that share them: the pump that handles Desktop requests  *)
(* one at a time, the pump that reads the app-server's answers, internal   *)
(* calls made by the first pump or for peers, and the bridge (proxy.go)    *)
(* that tears all of it down when a connection ends.                       *)
(*                                                                         *)
(* One thread, and no other session on it.  What a handler does between    *)
(* taking the lock and forwarding its request is the subject of Handoff:   *)
(* here it makes internal calls, and goes on, answers Desktop itself, or   *)
(* gives the connection up.                                                *)
(***************************************************************************)
EXTENDS Naturals

CONSTANTS MaxRequests, \* Desktop requests of a run
          Call,        \* internal requests to the app-server
          Nobody       \* no request

Request == 1 .. MaxRequests   \* in the order they are read

ASSUME RequestsAssumption ==
  /\ MaxRequests \in Nat /\ Request \cap Call = {}
  /\ Nobody \notin Request \cup Call

VARIABLES kind, id,    \* of each request: what it asks, its JSON-RPC id
          pc, cur, sub,    \* pumpDownstream: label, request and call in hand
          desktop,     \* the desktop map: requests waiting for an answer
          rel, okay,   \* those with releaseThread set, with responseOK set
          closes,      \* how often their responseSeen was closed
          internal,    \* the internal map: absent, a waiter, or nil
          call,        \* the goroutine of an internal call
          buffer,      \* waiters that hold an answer
          up, down,    \* on the way to and from the app-server
          accepted,    \* requests the app-server did not refuse
          rd, msg,     \* pumpUpstream: label, answer in hand
          bridge, batch,   \* the bridge, and what closeState has yet to finish
          cut,         \* connections that are closed
          lock,        \* holder of the thread lock
          answers,     \* how often each request was answered
          saved        \* settings updates whose route was saved

pump   == <<pc, cur, sub>>
marks  == <<rel, okay, closes>>
calls  == <<internal, call, buffer>>
wire   == <<up, down, accepted>>
reader == <<rd, msg>>
ends   == <<bridge, batch, cut>>
ghosts == <<answers, saved>>
vars   == <<kind, id, pump, desktop, marks, calls, wire, reader, ends, lock, ghosts>>

(* A settings update that chooses a model, and one that does not; a view is a
   resume or an unsubscribe; a plain request needs no lock.                   *)
Kind    == {"turn", "view", "settings", "update", "plain"}
Awaited == {"view", "settings"}    \* the handler waits for responseSeen
Link    == {"desktop", "server"}

Init ==
  /\ kind = [r \in Request |-> "none"] /\ id = [r \in Request |-> r]
  /\ pc = "read" /\ cur = Nobody /\ sub = Nobody
  /\ desktop = {} /\ rel = {} /\ okay = {}
  /\ closes = [r \in Request |-> 0]
  /\ internal = [c \in Call |-> "absent"]
  /\ call = [c \in Call |-> "idle"] /\ buffer = {}
  /\ up = {} /\ down = {} /\ accepted = {}
  /\ rd = "read" /\ msg = Nobody
  /\ bridge = "run" /\ batch = {} /\ cut = {}
  /\ lock = Nobody
  /\ answers = [r \in Request |-> 0] /\ saved = {}

-----------------------------------------------------------------------------
(* Shared by the goroutines *)

Cancelled == bridge # "run"        \* the context of the bridge is done
Stopped   == bridge = "closed"     \* the channel current.closed is closed

(* A release function unlocks the thread for the request it belongs to, and
   does nothing when it is called again.                                     *)
Released(r) == IF lock = r THEN Nobody ELSE lock

(* What is on its way when the connection to the app-server closes is neither
   answered nor read any more.                                               *)
Closed(ls) ==
  /\ cut' = cut \cup ls
  /\ IF "server" \in ls THEN up' = {} /\ down' = {} ELSE UNCHANGED <<up, down>>
  /\ UNCHANGED accepted

(* writeUpstream: a write that fails breaks the connection.                   *)
Written(t) == "server" \notin cut /\ up' = up \cup {t} /\ UNCHANGED <<down, accepted, cut>>
WriteFails == Closed({"server"})

(* callUpstream enters its waiter in the internal map.                        *)
Register(c) ==
  /\ call[c] = "idle" /\ call' = [call EXCEPT ![c] = "registered"]
  /\ internal' = [internal EXCEPT ![c] = "waiter"]

(* A handler returns, and the pump goes on or ends.                           *)
ReturnHolding(label) == pc' = label /\ sub' = Nobody /\ UNCHANGED cur
Return(label) == pc' = label /\ cur' = Nobody /\ sub' = Nobody

-----------------------------------------------------------------------------
(* pumpDownstream *)

(* trackDesktopRequest refuses an id that is still in the map.                *)
Untracked(i) == FALSE
Tracked(i) == \E q \in desktop : id[q] = i

Unread(r) == kind[r] = "none" /\ \A q \in 1 .. (r - 1) : kind[q] # "none"

Arrive(r, k, i) ==
  /\ pc = "read" /\ "desktop" \notin cut /\ Unread(r)
  /\ kind' = [kind EXCEPT ![r] = k] /\ id' = [id EXCEPT ![r] = i]
  /\ IF Tracked(i)
       THEN /\ answers' = [answers EXCEPT ![r] = @ + 1]
            /\ UNCHANGED <<pump, desktop>>
       ELSE /\ desktop' = desktop \cup {r} /\ cur' = r
            /\ pc' = IF k = "plain" THEN "write" ELSE "lock"
            /\ UNCHANGED <<sub, answers>>
  /\ UNCHANGED <<marks, calls, wire, reader, ends, lock, saved>>

(* The handler answers Desktop itself, with an error or the reply to a
   command; its deferred calls free the thread and the entry in the map.      *)
Reply ==
  /\ IF "desktop" \in cut
       THEN Return("exit") /\ UNCHANGED answers
       ELSE Return("read") /\ answers' = [answers EXCEPT ![cur] = @ + 1]
  /\ desktop' = desktop \ {cur} /\ lock' = Released(cur)
  /\ UNCHANGED <<kind, id, marks, calls, wire, reader, ends, saved>>

LockThread ==
  /\ pc = "lock" /\ lock = Nobody
  /\ lock' = cur /\ pc' = "checks"
  /\ UNCHANGED <<kind, id, cur, sub, desktop, marks, calls, wire, reader, ends, ghosts>>

LockCancelled == pc = "lock" /\ Cancelled /\ Reply

(* Between lock and forwarding: internal calls, an answer of the session's own,
   or errRoutingPolicy, which ends the connection without one.               *)
StartCall(c) ==
  /\ pc = "checks" /\ kind[cur] \in {"turn", "view"} /\ Register(c)
  /\ pc' = "calling" /\ sub' = c
  /\ UNCHANGED <<kind, id, cur, desktop, marks, buffer, wire, reader, ends, lock, ghosts>>

CallReturns ==
  /\ pc = "calling"
  /\ \/ call[sub] = "answered" /\ pc' = "checks"
     \/ call[sub] = "failed" /\ pc' = "refuse"
  /\ sub' = Nobody
  /\ UNCHANGED <<kind, id, cur, desktop, marks, calls, wire, reader, ends, lock, ghosts>>

ReplyItself == pc \in {"checks", "refuse"} /\ Reply

GiveUp ==
  /\ pc = "checks" /\ Return("exit")
  /\ desktop' = desktop \ {cur} /\ lock' = Released(cur)
  /\ UNCHANGED <<kind, id, marks, calls, wire, reader, ends, ghosts>>

(* handleTurnStart stores the release function in the request that already is
   in the map, without the mutex of the map.                                 *)
Publish ==
  /\ pc = "checks" /\ pc' = "write"
  /\ rel' = IF kind[cur] = "turn" THEN rel \cup {cur} ELSE rel
  /\ UNCHANGED <<kind, id, cur, sub, desktop, okay, closes, calls, wire, reader, ends,
                 lock, ghosts>>

(* A turn leaves the lock to its answer, an update gives it up with the write. *)
GivenUp == Released(cur)
KeptAtWrite == IF kind[cur] = "update" THEN Released(cur) ELSE lock

Forward ==
  /\ pc = "write" /\ Written(cur)
  /\ IF kind[cur] \in Awaited
       THEN pc' = "await" /\ UNCHANGED <<cur, sub, lock>>
       ELSE Return("read") /\ lock' = KeptAtWrite
  /\ UNCHANGED <<kind, id, desktop, marks, calls, reader, bridge, batch, ghosts>>

ForwardFails ==
  /\ pc = "write" /\ WriteFails /\ Return("exit")
  /\ desktop' = desktop \ {cur} /\ lock' = Released(cur)
  /\ UNCHANGED <<kind, id, marks, calls, reader, bridge, batch, ghosts>>

ChosenAnyway == kind[cur] = "settings"
Chosen == kind[cur] = "settings" /\ cur \in okay

(* The handler wakes up: the answer was seen, or the session ends.            *)
Await ==
  /\ pc = "await"
  /\ \/ closes[cur] > 0 /\ Chosen /\ pc' = "save" /\ UNCHANGED <<cur, sub, lock>>
     \/ closes[cur] > 0 /\ ~Chosen /\ Return("read") /\ lock' = Released(cur)
     \/ Cancelled /\ Return("exit") /\ lock' = Released(cur)
     \/ Stopped /\ Return("read") /\ lock' = Released(cur)
  /\ UNCHANGED <<kind, id, desktop, marks, calls, wire, reader, ends, ghosts>>

(* persistSelectedRoute: a selection that cannot be saved ends the connection. *)
Save ==
  /\ pc = "save"
  /\ \/ saved' = saved \cup {cur} /\ Return("read")
     \/ UNCHANGED saved /\ Return("exit")
  /\ lock' = Released(cur)
  /\ UNCHANGED <<kind, id, desktop, marks, calls, wire, reader, ends, answers>>

PumpEnds ==
  /\ pc = "read" /\ "desktop" \in cut /\ Return("exit")
  /\ UNCHANGED <<kind, id, desktop, marks, calls, wire, reader, ends, lock, ghosts>>

Pump ==
  \/ LockThread \/ LockCancelled \/ CallReturns \/ ReplyItself \/ GiveUp
  \/ Publish \/ Forward \/ ForwardFails \/ Await \/ Save \/ PumpEnds
  \/ \E c \in Call : StartCall(c)

-----------------------------------------------------------------------------
(* callUpstream, in the pump or in the goroutine of a peer request *)

PeerCalls(c) ==
  /\ Register(c)
  /\ UNCHANGED <<kind, id, pump, desktop, marks, buffer, wire, reader, ends, lock, ghosts>>

(* abandonInternalRequest: the entry stays, without a waiter, so that a late
   answer still finds it and is dropped.                                     *)
Deleted(c) == [internal EXCEPT ![c] = "absent"]
Abandoned(c) ==
  IF internal[c] = "absent" THEN internal ELSE [internal EXCEPT ![c] = "nil"]

SendCall(c) ==
  /\ call[c] = "registered" /\ Written(c)
  /\ call' = [call EXCEPT ![c] = "waiting"]
  /\ UNCHANGED <<kind, id, pump, desktop, marks, internal, buffer, reader, bridge, batch,
                 lock, ghosts>>

SendFails(c) ==
  /\ call[c] = "registered" /\ WriteFails
  /\ call' = [call EXCEPT ![c] = "failed"] /\ internal' = Abandoned(c)
  /\ UNCHANGED <<kind, id, pump, desktop, marks, buffer, reader, bridge, batch, lock,
                 ghosts>>

CallAnswered(c) ==
  /\ call[c] = "waiting" /\ c \in buffer
  /\ call' = [call EXCEPT ![c] = "answered"]
  /\ UNCHANGED <<kind, id, pump, desktop, marks, internal, buffer, wire, reader, ends,
                 lock, ghosts>>

(* The deadline of the call, its context, or the end of the session.          *)
Patient(c) == FALSE
TimesOut(c) ==
  /\ call[c] = "waiting"
  /\ call' = [call EXCEPT ![c] = "failed"] /\ internal' = Abandoned(c)
  /\ UNCHANGED <<kind, id, pump, desktop, marks, buffer, wire, reader, ends, lock, ghosts>>

CallStep(c) ==
  SendCall(c) \/ SendFails(c) \/ CallAnswered(c) \/ TimesOut(c)

-----------------------------------------------------------------------------
(* pumpUpstream, handleUpstreamText *)

Hear ==
  /\ rd = "read" /\ "server" \notin cut
  /\ \E m \in down : msg' = m /\ down' = down \ {m}
  /\ rd' = "route"
  /\ UNCHANGED <<kind, id, pump, desktop, marks, calls, up, accepted, ends, lock, ghosts>>

(* The tracked request an answer belongs to, by its id.                       *)
Owner(t) == {r \in desktop : t \in Request /\ id[r] = id[t]}

(* Under the mutex: the internal map first, then the desktop map.             *)
RouteInternal ==
  /\ rd = "route" /\ msg \in Call /\ internal[msg] # "absent"
  /\ internal' = [internal EXCEPT ![msg] = "absent"]
  /\ buffer' = IF internal[msg] = "waiter" THEN buffer \cup {msg} ELSE buffer
  /\ rd' = "read" /\ msg' = Nobody
  /\ UNCHANGED <<kind, id, pump, desktop, marks, call, wire, ends, lock, ghosts>>

LookUp ==
  /\ rd = "route" /\ Owner(msg) # {}
  /\ okay' = IF msg \in accepted THEN okay \cup Owner(msg) ELSE okay
  /\ rd' = "settle"
  /\ UNCHANGED <<kind, id, pump, desktop, rel, closes, calls, wire, msg, ends, lock, ghosts>>
RouteDesktop ==
  /\ rd = "route" /\ Owner(msg) # {}
  /\ desktop' = desktop \ Owner(msg)
  /\ okay' = IF msg \in accepted THEN okay \cup Owner(msg) ELSE okay
  /\ rd' = "settle"
  /\ UNCHANGED <<kind, id, pump, rel, closes, calls, wire, msg, ends, lock, ghosts>>

RouteUnknown ==
  /\ rd = "route" /\ Owner(msg) = {}
  /\ msg \in Call => internal[msg] = "absent"
  /\ rd' = "pass"
  /\ UNCHANGED <<kind, id, pump, desktop, marks, calls, wire, msg, ends, lock, ghosts>>

(* What ends the wait for an answer: the release function of a turn, or the
   channel its handler waits on.  Only the handler sets them, so that a handler
   between the assignment and its write may be read without its release.      *)
OnlySeen(r, seen) ==
  /\ closes' = IF kind[r] \in Awaited THEN [closes EXCEPT ![r] = @ + 1] ELSE closes
  /\ UNCHANGED lock
Settled(r, seen) ==
  /\ lock' = IF r \in rel /\ seen THEN Released(r) ELSE lock
  /\ closes' = IF kind[r] \in Awaited THEN [closes EXCEPT ![r] = @ + 1] ELSE closes

(* Outside the mutex, before the answer is passed on.                         *)
Settle ==
  /\ rd = "settle" /\ Settled(msg, TRUE)
  /\ rd' = "pass"
  /\ UNCHANGED <<kind, id, pump, desktop, rel, okay, calls, wire, msg, ends, ghosts>>

Pass ==
  /\ rd = "pass"
  /\ IF "desktop" \in cut
       THEN rd' = "exit" /\ UNCHANGED answers
       ELSE /\ rd' = "read"
            /\ answers' = [r \in Request |-> answers[r] + IF r = msg THEN 1 ELSE 0]
  /\ msg' = Nobody
  /\ UNCHANGED <<kind, id, pump, desktop, marks, calls, wire, ends, lock, saved>>

ReaderEnds ==
  /\ rd = "read" /\ "server" \in cut /\ rd' = "exit"
  /\ UNCHANGED <<kind, id, pump, desktop, marks, calls, wire, msg, ends, lock, ghosts>>

Reader ==
  Hear \/ RouteInternal \/ RouteDesktop \/ RouteUnknown \/ Settle \/ Pass \/ ReaderEnds

-----------------------------------------------------------------------------
(* bridge and closeState *)

(* The first pump to end has both connections closed and the context
   cancelled; the other pump gets a second to end.                           *)
CutAll ==
  /\ bridge = "run" /\ (pc = "exit" \/ rd = "exit")
  /\ bridge' = "drain" /\ Closed(Link)
  /\ UNCHANGED <<kind, id, pump, desktop, marks, calls, reader, batch, lock, ghosts>>

Swap ==
  /\ bridge = "drain" /\ bridge' = "finish"
  /\ batch' = desktop /\ desktop' = {}
  /\ internal' = [c \in Call |-> "absent"]
  /\ UNCHANGED <<kind, id, pump, marks, call, buffer, wire, reader, cut, lock, ghosts>>

(* closeState, without the mutex too.                                         *)
Finish(r) ==
  /\ bridge = "finish" /\ r \in batch /\ batch' = batch \ {r}
  /\ \E seen \in IF pc = "write" /\ cur = r THEN BOOLEAN ELSE {TRUE} : Settled(r, seen)
  /\ UNCHANGED <<kind, id, pump, desktop, rel, okay, calls, wire, reader, bridge, cut,
                 ghosts>>

Stop ==
  /\ bridge = "finish" /\ batch = {} /\ bridge' = "closed"
  /\ UNCHANGED <<kind, id, pump, desktop, marks, calls, wire, reader, batch, cut, lock,
                 ghosts>>

Bridge == CutAll \/ Swap \/ Stop \/ \E r \in Request : Finish(r)

-----------------------------------------------------------------------------
(* Desktop and the app-server *)

Answer(t) ==
  /\ t \in up /\ up' = up \ {t} /\ down' = down \cup {t}
  /\ accepted' \in {accepted, accepted \cup ({t} \cap Request)}
  /\ UNCHANGED <<kind, id, pump, desktop, marks, calls, reader, ends, lock, ghosts>>

Hangup(l) ==
  /\ l \notin cut /\ Closed({l})
  /\ UNCHANGED <<kind, id, pump, desktop, marks, calls, reader, bridge, batch, lock, ghosts>>

Next ==
  \/ Pump \/ Reader \/ Bridge
  \/ \E r \in Request, k \in Kind : \E i \in 1 .. r : Arrive(r, k, i)
  \/ \E c \in Call : PeerCalls(c) \/ CallStep(c)
  \/ \E t \in Request \cup Call : Answer(t)
  \/ \E l \in Link : Hangup(l)

Spec == Init /\ [][Next]_vars

(* Goroutines that nothing suspends go on, and the app-server reads and
   answers.  Nothing is assumed of Desktop, of peers, or of failures.          *)
FairSpec ==
  /\ Spec
  /\ WF_vars(Pump) /\ WF_vars(Reader) /\ WF_vars(Bridge)
  /\ \A c \in Call : WF_vars(CallStep(c))
  /\ \A t \in Request \cup Call : WF_vars(Answer(t))

-----------------------------------------------------------------------------
(* Properties *)

(* Every variable keeps its type, and what a pump has in hand goes with what it
   is doing.                                                                 *)
TypeOK ==
  /\ kind \in [Request -> Kind \cup {"none"}] /\ id \in [Request -> Request]
  /\ pc \in {"read", "lock", "checks", "calling", "refuse", "write", "await",
             "save", "exit"}
  /\ cur \in Request \cup {Nobody} /\ sub \in Call \cup {Nobody}
  /\ desktop \subseteq Request /\ rel \subseteq Request /\ okay \subseteq Request
  /\ closes \in [Request -> Nat]
  /\ internal \in [Call -> {"absent", "waiter", "nil"}]
  /\ call \in [Call -> {"idle", "registered", "waiting", "answered", "failed"}]
  /\ buffer \subseteq Call
  /\ up \subseteq Request \cup Call /\ down \subseteq Request \cup Call
  /\ accepted \subseteq Request
  /\ rd \in {"read", "route", "settle", "pass", "exit"}
  /\ msg \in Request \cup Call \cup {Nobody}
  /\ bridge \in {"run", "drain", "finish", "closed"} /\ batch \subseteq Request
  /\ cut \subseteq Link /\ lock \in Request \cup {Nobody}
  /\ answers \in [Request -> Nat] /\ saved \subseteq Request
  /\ cur = Nobody <=> pc \in {"read", "exit"}
  /\ sub = Nobody <=> pc # "calling"
  /\ msg = Nobody <=> rd \in {"read", "exit"}

(* The channel a handler waits on is closed at most once, although both the
   reader and closeState close it: a second close would bring the session down
   with all its threads (session.go:1451, 1706).                             *)
SeenClosedOnce == \A r \in Request : closes[r] <= 1

(* Desktop may use an id again once it is answered.  Still no answer is taken
   for that of another request with its id, and none is answered twice, by the
   session and by the app-server (session.go:1334-1348).                     *)
OwnAnswer ==
  /\ rd = "route" => Owner(msg) \subseteq {msg}
  /\ \A r \in Request : answers[r] <= 1

(* The answer to an internal request is consumed by the session and never
   written to a Desktop that could still read it, also when it comes after its
   caller gave up or after closeState emptied the table.                     *)
InternalHidden == rd = "pass" /\ msg \in Call => "desktop" \in cut

(* As long as the connection lives, the thread stays locked from the moment
   turn/start is written to the moment its answer is read (session.go:413-416). *)
FenceUntilAnswered ==
  \A r \in Request :
    /\ kind[r] = "turn" /\ "server" \notin cut
    /\ r \in up \cup down \/ (rd = "route" /\ msg = r)
    => lock = r

(* The saved selection follows the app-server: a settings update is saved only
   if it was accepted, and one that was accepted is saved when its handler
   returns, unless the connection ends.                                      *)
SavedIfAccepted ==
  /\ saved \subseteq accepted
  /\ \A r \in accepted \ saved :
       kind[r] = "settings" /\ closes[r] > 0 => cur = r \/ pc = "exit" \/ cut # {}

(* A request that locked the thread gives it up again, answered or not.       *)
LockFreed == (lock # Nobody) ~> (lock = Nobody)

(* Once the bridge tears down, both pumps and every internal call end and the
   session holds no thread.                                                  *)
ShutdownEnds ==
  (bridge # "run") ~>
    /\ bridge = "closed" /\ pc = "exit" /\ rd = "exit"
    /\ lock \notin Request
    /\ \A c \in Call : call[c] \in {"idle", "answered", "failed"}
=============================================================================
