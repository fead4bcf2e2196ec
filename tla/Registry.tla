------------------------------ MODULE Registry -------------------------------
(***************************************************************************)
(* The peer registry (internal/handoff/coordinator.go): every session      *)
(* listens on a Unix socket in one runtime directory, and a pass over the  *)
(* peers is a listing of that directory followed by one call per entry.    *)
(* Nothing is locked, so that sessions open, close and die while a pass is *)
(* on its way, and a pass removes the entries that refuse it.              *)
(*                                                                         *)
(* The entry of a session has a random name of its own: it is named after  *)
(* the session here.  What peers do when they are asked is in Handoff.     *)
(***************************************************************************)
EXTENDS Naturals

CONSTANTS Session, NoSession,
          MaxPasses, MaxDeaths    \* bounds: passes begun, sessions killed

ASSUME RegistryAssumption ==
  /\ NoSession \notin Session
  /\ MaxPasses \in Nat /\ MaxDeaths \in Nat

VARIABLES dir,      \* the runtime directory exists
          entries,  \* sockets that are listed in it
          pc,       \* of each session: where Open, its service or Close is
          listener, \* sessions whose socket accepts connections
          pass,     \* of each session: the pass it makes
          hasty,    \* sessions that were refused between bind and listen
          passes, deaths

sockets == <<entries, listener>>
counts  == <<passes, deaths>>
vars    == <<dir, pc, sockets, pass, hasty, counts>>

Labels == {"look", "mkdir", "bind", "listen", "serving", "shut", "failed", "closed",
           "dead"}

Serving == {s \in Session : pc[s] = "serving"}
Over    == {s \in Session : pc[s] \in {"failed", "closed", "dead"}}

(* The locals of visitPeersMode: entries left to visit, entry in hand,
   bestEffort, whether a peer has failed.  To observe it, the sessions that have
   served since it began and are not yet asked, and those that were over by then
   and whose entry it has not failed to remove.                              *)
Visits == [at : {"none", "next", "call", "stale"}, todo : SUBSET Session,
           peer : Session \cup {NoSession}, best : BOOLEAN, failed : BOOLEAN,
           due : SUBSET Session, left : SUBSET Session]
NoPass == [at |-> "none", todo |-> {}, peer |-> NoSession, best |-> FALSE,
           failed |-> FALSE, due |-> {}, left |-> {}]

Init ==
  /\ dir \in BOOLEAN /\ entries = {} /\ listener = {}
  /\ pc = [s \in Session |-> "look"]
  /\ pass = [s \in Session |-> NoPass]
  /\ hasty = {} /\ passes = 0 /\ deaths = 0

-----------------------------------------------------------------------------
(* Open: ensureRuntimeDirectory, then net.Listen *)

Move(s, from, to) == pc[s] = from /\ pc' = [pc EXCEPT ![s] = to]

(* A directory that is there is taken over, one that is not is created.       *)
Unchecked == TRUE
Missing == ~dir

Look(s) ==
  /\ Move(s, "look", IF Missing THEN "mkdir" ELSE "bind")
  /\ UNCHANGED <<dir, sockets, pass, hasty, counts>>

(* Mkdir fails if another session has been faster since the look.             *)
Mkdir(s) ==
  /\ Move(s, "mkdir", IF dir THEN "failed" ELSE "bind")
  /\ dir' = TRUE
  /\ UNCHANGED <<sockets, pass, hasty, counts>>

(* bind lists the socket, and only listen lets it accept connections.         *)
Bind(s) ==
  /\ Move(s, "bind", "listen") /\ entries' = entries \cup {s}
  /\ UNCHANGED <<dir, listener, pass, hasty, counts>>

Listen(s) ==
  /\ Move(s, "listen", "serving") /\ listener' = listener \cup {s}
  /\ UNCHANGED <<dir, entries, pass, hasty, counts>>

-----------------------------------------------------------------------------
(* Close, and the death of a process *)

(* No pass is expected to reach a session that no longer serves.              *)
Excused(s) == [p \in Session |-> [pass[p] EXCEPT !.due = @ \ {s}]]

(* The listener unlinks its entry before it stops listening.                  *)
Unlink(s) ==
  /\ Move(s, "serving", "shut") /\ entries' = entries \ {s}
  /\ pass' = Excused(s)
  /\ UNCHANGED <<dir, listener, hasty, counts>>

Shut(s) ==
  /\ Move(s, "shut", "closed") /\ listener' = listener \ {s}
  /\ UNCHANGED <<dir, entries, pass, hasty, counts>>

(* The entry of a process that is killed stays, and refuses connections.      *)
Die(s) ==
  /\ s \notin Over /\ Move(s, pc[s], "dead")
  /\ deaths < MaxDeaths /\ deaths' = deaths + 1
  /\ listener' = listener \ {s}
  /\ pass' = [Excused(s) EXCEPT ![s] = NoPass]
  /\ UNCHANGED <<dir, entries, hasty, passes>>

-----------------------------------------------------------------------------
(* A pass over the peers: visitPeersMode, callPeer, removeStaleSocket *)

Begin(s, b) ==
  /\ pc[s] = "serving" /\ pass[s].at = "none"
  /\ passes < MaxPasses /\ passes' = passes + 1
  /\ pass' = [pass EXCEPT ![s] =
       [at |-> "next", todo |-> entries, peer |-> NoSession, best |-> b,
        failed |-> FALSE, due |-> Serving, left |-> entries \cap Over]]
  /\ UNCHANGED <<dir, pc, sockets, hasty, deaths>>

(* ECONNREFUSED or ENOENT: nobody listens there, or the entry is gone.        *)
Stale(q) == q \notin entries \/ q \notin listener

Dial(s, q) ==
  /\ pass[s].at = "next" /\ q \in pass[s].todo
  /\ pass' = [pass EXCEPT ![s].todo = @ \ {q}, ![s].peer = q,
                          ![s].at = IF Stale(q) THEN "stale" ELSE "call"]
  /\ hasty' = IF pc[q] = "listen" THEN hasty \cup {q} ELSE hasty
  /\ UNCHANGED <<dir, pc, sockets, counts>>

(* The deadline of the caller passes, or the call is cancelled, before there is a
   connection: that says nothing of the peer, whose entry stays.             *)
Undialled(s, q) ==
  /\ pass[s].at = "next" /\ q \in pass[s].todo
  /\ pass' = IF pass[s].best
             THEN [pass EXCEPT ![s].todo = @ \ {q}, ![s].failed = TRUE]
             ELSE [pass EXCEPT ![s] = NoPass]
  /\ UNCHANGED <<dir, pc, sockets, hasty, counts>>

(* The next entry.                                                            *)
OnwardHolding(s) == [pass EXCEPT ![s].at = "next"]
Onward(s) == [pass EXCEPT ![s].at = "next", ![s].peer = NoSession]

Spared(q) == entries
Swept(q)  == entries \ {q}

Sweep(s) ==
  /\ pass[s].at = "stale"
  /\ entries' = Swept(pass[s].peer)
  /\ pass' = Onward(s)
  /\ UNCHANGED <<dir, pc, listener, hasty, counts>>

(* An entry that cannot be removed does not end the pass either.              *)
LeaveEntry(s) ==
  /\ pass[s].at = "stale"
  /\ pass' = [Onward(s) EXCEPT ![s].left = @ \ {pass[s].peer}]
  /\ UNCHANGED <<dir, pc, sockets, hasty, counts>>

Accepts(s) ==
  /\ pass[s].at = "call" /\ pc[pass[s].peer] # "dead"
  /\ pass' = [Onward(s) EXCEPT ![s].due = @ \ {pass[s].peer}]
  /\ UNCHANGED <<dir, pc, sockets, hasty, counts>>

(* A call that times out, is cut off, or is answered with anything but what the
   pass accepts, ends the pass unless it is to visit everybody.              *)
Overlooked(s) == Onward(s)
Counted(s) ==
  IF pass[s].best THEN [Onward(s) EXCEPT ![s].failed = TRUE]
                  ELSE [pass EXCEPT ![s] = NoPass]

Fails(s) ==
  /\ pass[s].at = "call"
  /\ pass' = Counted(s)
  /\ UNCHANGED <<dir, pc, sockets, hasty, counts>>

Finish(s) ==
  /\ pass[s].at = "next" /\ pass[s].todo = {}
  /\ pass' = [pass EXCEPT ![s] = NoPass]
  /\ UNCHANGED <<dir, pc, sockets, hasty, counts>>

Next ==
  \E s \in Session :
    \/ Look(s) \/ Mkdir(s) \/ Bind(s) \/ Listen(s) \/ Unlink(s) \/ Shut(s) \/ Die(s)
    \/ \E b \in BOOLEAN : Begin(s, b)
    \/ \E q \in Session : Dial(s, q) \/ Undialled(s, q)
    \/ Sweep(s) \/ LeaveEntry(s) \/ Accepts(s) \/ Fails(s) \/ Finish(s)

Spec == Init /\ [][Next]_vars

-----------------------------------------------------------------------------
(* Properties *)

(* Every variable keeps its type, and a pass has an entry in hand while it calls
   it or removes it.                                                         *)
TypeOK ==
  /\ dir \in BOOLEAN /\ entries \subseteq Session /\ listener \subseteq Session
  /\ pc \in [Session -> Labels] /\ pass \in [Session -> Visits]
  /\ hasty \subseteq Session /\ passes \in 0 .. MaxPasses /\ deaths \in 0 .. MaxDeaths
  /\ \A s \in Session : pass[s].at \in {"call", "stale"} <=> pass[s].peer # NoSession

(* A pass that succeeds was accepted by every session that served from its start
   to its end, whatever opened, closed, died or was swept meanwhile; except for
   sessions that some pass met between bind and listen.                      *)
PassComplete ==
  [][\A s \in Session : Finish(s) /\ ~pass[s].failed => pass[s].due \subseteq hasty]_vars

(* A pass that succeeds leaves no entry behind of a session that was over when it
   began, unless it failed to remove that entry: what deaths leave in the
   directory does not pile up.                                               *)
DeadRemoved ==
  [][\A s \in Session : Finish(s) /\ ~pass[s].failed => entries \cap pass[s].left = {}]_vars

(* A session fails to open only because another one has just created the
   directory and goes on: of sessions that race for it, one gets in.         *)
OneGetsIn ==
  \A s \in Session : pc[s] = "failed" =>
    \E q \in Session : pc[q] \notin {"look", "mkdir", "failed"}
=============================================================================
