------------------------------- MODULE Handoff -------------------------------
(***************************************************************************)
(* Provider handoff of one thread between the switcher processes (sessions)*)
(* that proxy it: the cross-process thread lock, the peers' routing caches,*)
(* the dirty marker, the recovery journal and the send-time sequence of    *)
(* internal/transport/session.go over internal/handoff/coordinator.go,     *)
(* running against the app-server of module AppServer.                     *)
(*                                                                         *)
(* A session reads Desktop requests one at a time (pumpDownstream); pc is  *)
(* where its handler stands.  A label that names a pass over the peers     *)
(* keeps in todo the peers the pass has still to visit.                    *)
(***************************************************************************)
EXTENDS AppServer

CONSTANTS Override,    \* provider of the direct override mode, or NoProvider
          MaxEvents    \* bound: Desktop requests and failures (calls, writes,
                       \* timeouts, closes), all sessions together

ASSUME HandoffAssumption ==
  /\ Override \in Provider \cup {NoProvider}
  /\ MaxEvents \in Nat

VARIABLES lock,       \* flock of the thread: the session that holds it
          fence,      \* the lock was handed to an unacknowledged turn/start
          dirty,      \* stage in the dirty marker
          selection,  \* saved provider selection
          journal,    \* provider the recovery journal asks for
          pc, kind, tgt, todo, at,    \* the request a session is handling
          eff, det, act, sup,         \* its effective/detached/active/recovery maps
          job,        \* peer calls its control endpoint is executing
          views,      \* history: sessions whose Desktop has the thread open
          lapsed,     \* history: sessions that forgot they may be unsubscribed
          opened,     \* history: sessions that were opened
          work, faults

files   == <<dirty, selection, journal>>
handler == <<pc, kind, tgt, todo, at>>
caches  == <<eff, det, act, sup>>
bounds  == <<work, faults>>
vars == <<serverVars, lock, fence, files, handler, caches, job, views, lapsed, opened, bounds>>

Stages == {"none", "unreadable", "prepared", "unsubscribed", "resumeMismatch",
           "recovering", "resubscribing"}
TurnKinds == {"turn", "switch", "status"}
Kinds == TurnKinds \cup {"resume", "unsub"}
JobOps == {"unsub", "resub", "restore"}
JobState == {"idle", "running", "subscribed", "ok", "bad"}
Running == {"running", "subscribed"}

(* Passes over the peers: those that only ask whether the peer is busy, those *)
(* that install or lift notification suppression, those whose peers call the  *)
(* app-server.                                                                *)
Checks == {"prepare", "prepare2", "prepareHandoff", "prepareRecovery",
           "prepareRepair", "prepareSame"}
Begins == {"begin", "repairBegin"}
Ends == {"end", "abort", "repairEnd", "repairAbort"}
Passes == Checks \cup Begins \cup Ends \cup {"reconcile"} \cup JobOps

(* Where the handler goes when a pass succeeds, and when a peer refuses.      *)
DoneAt ==
  [prepare |-> "repair", reconcile |-> "prepare2", prepare2 |-> "repair",
   prepareRepair |-> "repairBegin", repairBegin |-> "repairUnarchive",
   repairEnd |-> "repairClear", repairAbort |-> "fail",
   prepareHandoff |-> "prepareRecovery", prepareRecovery |-> "mark",
   unsub |-> "stageUnsub", begin |-> "archive", end |-> "clearJournal",
   abort |-> "restore", resub |-> "clearDirty", restore |-> "fail",
   prepareSame |-> "resub"]
StopAt ==
  [prepare |-> "askStatus", reconcile |-> "fail", prepare2 |-> "fail",
   prepareRepair |-> "fail", repairBegin |-> "repairAbort",
   repairEnd |-> "repairAbort", prepareHandoff |-> "fail",
   prepareRecovery |-> "fail", unsub |-> "restore", begin |-> "abort",
   end |-> "abort", resub |-> "restore", prepareSame |-> "fail"]

(* Dirty-marker writes: the stage, the next label, the label on an error.     *)
StageOf == [mark |-> "prepared", stageUnsub |-> "unsubscribed",
            stageMismatch |-> "resumeMismatch", stageRecovering |-> "recovering",
            stageResub |-> "resubscribing"]
AfterStage == [mark |-> "unsub", stageUnsub |-> "sanitize",
               stageMismatch |-> "inspect", stageRecovering |-> "saveJournal",
               stageResub |-> "resub"]
StageFailed == [mark |-> "fail", stageUnsub |-> "restore", stageMismatch |-> "restore",
                stageRecovering |-> "restore", stageResub |-> "restore"]

Waiting == {"statusWait", "routeWait", "resumeWait", "recoverResumeWait"}
Labels == Passes \cup DOMAIN StageOf \cup Waiting \cup
  {"idle", "lock", "prepareTurn", "askStatus", "repair", "repairUnarchive",
   "repairSanitize", "repairResume", "repairClear", "route", "sanitize", "resume",
   "inspect", "saveJournal", "archive", "unarchive", "resanitize", "recoverResume",
   "clearJournal", "clearDirty", "finish", "fail", "sanitizeResume",
   "forwardResume", "unsubscribe", "answer"}

(* The system at rest, at any moment of its life: some sessions are open, some *)
(* of them have the thread open in Desktop and know its runtime.               *)
Init ==
  /\ conn \in SUBSET Session /\ opened = conn
  /\ subs \in SUBSET conn /\ views = subs /\ lapsed = {}
  /\ rt \in Provider /\ running = NoSession
  /\ loaded = (subs # {}) /\ archived = FALSE
  /\ eff = [s \in Session |-> IF s \in subs THEN rt ELSE NoProvider]
  /\ up = [s \in Session |-> <<>>] /\ down = [s \in Session |-> <<>>]
  /\ lock = NoSession
  /\ dirty \in {"none", "unreadable"}
  /\ selection \in Provider \cup {NoProvider}
  /\ journal = NoProvider
  /\ pc = [s \in Session |-> "idle"]
  /\ kind = [s \in Session |-> "turn"]
  /\ tgt = [s \in Session |-> NoProvider]
  /\ todo = [s \in Session |-> {}]
  /\ at = [s \in Session |-> NoSession]
  /\ fence = [s \in Session |-> FALSE] /\ det = [s \in Session |-> FALSE]
  /\ act = [s \in Session |-> FALSE] /\ sup = [s \in Session |-> FALSE]
  /\ job = [s \in Session |-> [o \in JobOps |-> "idle"]]
  /\ work = 0 /\ faults = 0

-----------------------------------------------------------------------------
(* Helpers of the handlers *)

Room == work + faults < MaxEvents
NoFault == UNCHANGED faults
Fault == Room /\ faults' = faults + 1

(* Continue at a label; a pass first globs the endpoints that exist now.      *)
Goto(s, label) ==
  /\ pc' = [pc EXCEPT ![s] = label]
  /\ todo' = [todo EXCEPT ![s] = IF label \in Passes THEN conn ELSE {}]

(* The pass is done with peer p.                                              *)
Proceed(s, p) ==
  IF todo[s] = {p} THEN Goto(s, DoneAt[pc[s]])
  ELSE todo' = [todo EXCEPT ![s] = @ \ {p}] /\ UNCHANGED pc

(* The handler returns; what it held in local variables is gone.              *)
Return(s) ==
  /\ pc' = [pc EXCEPT ![s] = "idle"]
  /\ kind' = [kind EXCEPT ![s] = "turn"]
  /\ tgt' = [tgt EXCEPT ![s] = NoProvider]
  /\ UNCHANGED todo

Release(s) == lock' = NoSession /\ Return(s)

KeepRoute(s) == UNCHANGED eff
Forget(s) == eff' = [eff EXCEPT ![s] = NoProvider]

Learn(s, p) == eff' = [eff EXCEPT ![s] = p] /\ det' = [det EXCEPT ![s] = FALSE]

(* The caller stops waiting for op; its answer will be swallowed.             *)
Dropped(q, op) ==
  [i \in DOMAIN q |-> IF q[i].op = op THEN [q[i] EXCEPT !.live = FALSE] ELSE q[i]]
Abandon(s, op) ==
  /\ up' = [up EXCEPT ![s] = Dropped(@, op)]
  /\ down' = [down EXCEPT ![s] = Dropped(@, op)]

ServerIdle == UNCHANGED serverVars
SendOnly(s, m) ==
  Send(s, m) /\ UNCHANGED <<conn, rt, loaded, subs, running, archived, down>>

-----------------------------------------------------------------------------
(* Connections *)

Open(s) ==
  /\ s \notin opened
  /\ opened' = opened \cup {s}
  /\ Connect(s)
  /\ UNCHANGED <<lock, fence, files, handler, caches, job, views, lapsed, bounds>>

(* The bridge ends or the process dies: the kernel and closeState release the *)
(* lock, the app-server drops the connection, every map is gone.              *)
Close(s) ==
  /\ s \in conn
  /\ Fault
  /\ Disconnect(s)
  /\ lock' = IF lock = s THEN NoSession ELSE lock
  /\ fence' = [fence EXCEPT ![s] = FALSE]
  /\ pc' = [pc EXCEPT ![s] = "idle"]
  /\ kind' = [kind EXCEPT ![s] = "turn"]
  /\ tgt' = [tgt EXCEPT ![s] = NoProvider]
  /\ todo' = [todo EXCEPT ![s] = {}]
  /\ at' = [at EXCEPT ![s] = NoSession]
  /\ Forget(s)
  /\ det' = [det EXCEPT ![s] = FALSE]
  /\ act' = [act EXCEPT ![s] = FALSE]
  /\ sup' = [sup EXCEPT ![s] = FALSE]
  /\ job' = [job EXCEPT ![s] = [o \in JobOps |-> "idle"]]
  /\ views' = views \ {s} /\ lapsed' = lapsed \ {s}
  /\ UNCHANGED <<files, opened, work>>

(* Desktop sends turn/start (a message, or a provider command naming p) in a   *)
(* thread it has open, thread/resume or thread/unsubscribe; the handler first  *)
(* queues for the lock.                                                        *)
Receive(s) ==
  /\ s \in conn /\ pc[s] = "idle" /\ Room
  /\ work' = work + 1
  /\ \E k \in Kinds, p \in Provider \cup {NoProvider} :
       /\ k \in TurnKinds => s \in views
       /\ (p # NoProvider) = (k = "switch")
       /\ kind' = [kind EXCEPT ![s] = k]
       /\ tgt' = [tgt EXCEPT ![s] = p]
  /\ pc' = [pc EXCEPT ![s] = "lock"]
  /\ ServerIdle
  /\ UNCHANGED <<lock, fence, files, todo, at, caches, job, views, lapsed, opened, faults>>

SharedLock == TRUE
Unlocked == lock = NoSession

LockThread(s) ==
  /\ pc[s] = "lock" /\ Unlocked
  /\ lock' = s
  /\ Goto(s, IF kind[s] \in TurnKinds THEN "prepareTurn"
             ELSE IF kind[s] = "resume" THEN "repair" ELSE "unsubscribe")
  /\ ServerIdle
  /\ UNCHANGED <<fence, files, kind, tgt, at, caches, job, views, lapsed, opened, bounds>>

-----------------------------------------------------------------------------
(* Peer passes without app-server calls *)

(* An endpoint nobody listens on any more is skipped.                         *)
SkipPeer(s) ==
  /\ at[s] = NoSession
  /\ \E p \in todo[s] \ conn : Proceed(s, p)
  /\ ServerIdle
  /\ UNCHANGED <<lock, fence, files, kind, tgt, at, caches, job, views, lapsed, opened,
                 bounds>>

CheckPeer(s) ==
  /\ pc[s] \in Checks
  /\ \E p \in todo[s] \cap conn :
       \/ act[p] /\ Goto(s, StopAt[pc[s]]) /\ NoFault
       \/ ~act[p] /\ Proceed(s, p) /\ NoFault
       \/ Fault /\ Goto(s, StopAt[pc[s]])
  /\ ServerIdle
  /\ UNCHANGED <<lock, fence, files, kind, tgt, at, caches, job, views, lapsed, opened,
                 work>>

ReconcilePeer(s) ==
  /\ pc[s] = "reconcile"
  /\ \E p \in todo[s] \cap conn :
       \/ act' = [act EXCEPT ![p] = FALSE] /\ Proceed(s, p) /\ NoFault
       \/ Fault /\ Goto(s, StopAt[pc[s]]) /\ UNCHANGED act
  /\ ServerIdle
  /\ UNCHANGED <<lock, fence, files, kind, tgt, at, eff, det, sup, job, views, lapsed,
                 opened, work>>

(* A busy peer refuses suppression; the caller then lifts it everywhere.      *)
BeginIgnored(s, p) == Proceed(s, p)
BeginRefused(s, p) == Goto(s, StopAt[pc[s]])

BeginPeer(s) ==
  /\ pc[s] \in Begins
  /\ \E p \in todo[s] \cap conn :
       \/ act[p] /\ BeginRefused(s, p) /\ NoFault /\ UNCHANGED sup
       \/ ~act[p] /\ sup' = [sup EXCEPT ![p] = TRUE] /\ Proceed(s, p) /\ NoFault
       \/ Fault /\ BeginRefused(s, p) /\ sup' \in {sup, [sup EXCEPT ![p] = TRUE]}
  /\ ServerIdle
  /\ UNCHANGED <<lock, fence, files, kind, tgt, at, eff, det, act, job, views, lapsed,
                 opened, work>>

(* Best effort: a failed call skips the peer, and fails the pass only where   *)
(* its error is looked at.                                                    *)
EndIgnored(s, p) == Proceed(s, p)
EndRefused(s, p) ==
  IF pc[s] \in DOMAIN StopAt THEN Goto(s, StopAt[pc[s]]) ELSE Proceed(s, p)

EndPeer(s) ==
  /\ pc[s] \in Ends
  /\ \E p \in todo[s] \cap conn :
       \/ sup' = [sup EXCEPT ![p] = FALSE] /\ Proceed(s, p) /\ NoFault
       \/ /\ Fault
          /\ sup' \in {sup, [sup EXCEPT ![p] = FALSE]}
          /\ EndRefused(s, p)
  /\ ServerIdle
  /\ UNCHANGED <<lock, fence, files, kind, tgt, at, eff, det, act, job, views, lapsed,
                 opened, work>>
-----------------------------------------------------------------------------
(* Peer passes whose peers call the app-server: unsubscribe, resubscribe and  *)
(* restore.  The peer's endpoint runs the call in a goroutine of its own (job)*)
(* and goes on with it when the caller has stopped waiting.                   *)

UpOf == [unsub |-> "junsub", resub |-> "jresub", restore |-> "jrestore"]

StopJobs(s) ==
  /\ Goto(s, StopAt[pc[s]])
  /\ eff' = IF pc[s] = "resub" /\ dirty = "resubscribing"
            THEN [eff EXCEPT ![s] = NoProvider] ELSE eff

StartJob(s, p, op, state, prov) ==
  /\ job[p][op] \notin Running
  /\ job' = [job EXCEPT ![p][op] = state]
  /\ at' = [at EXCEPT ![s] = p]
  /\ SendOnly(p, Request(UpOf[op], prov))
  /\ UNCHANGED <<pc, todo, eff>>

CallUnsubscribe(s, p) ==
  /\ pc[s] = "unsub"
  /\ \/ act[p] /\ StopJobs(s) /\ ServerIdle /\ UNCHANGED <<at, job>>
     \/ /\ ~act[p]
        /\ StartJob(s, p, "unsub",
             IF eff[p] # NoProvider \/ det[p] THEN "subscribed" ELSE "running", NoProvider)

CallResubscribe(s, p) ==
  /\ pc[s] \in {"resub", "restore"}
  /\ \/ ~det[p] /\ Proceed(s, p) /\ ServerIdle /\ UNCHANGED <<at, job, eff>>
     \/ /\ det[p]
        /\ StartJob(s, p, pc[s], "running", IF pc[s] = "resub" THEN tgt[s] ELSE NoProvider)

CallPeer(s) ==
  /\ at[s] = NoSession
  /\ \E p \in todo[s] \cap conn : CallUnsubscribe(s, p) \/ CallResubscribe(s, p)
  /\ UNCHANGED <<lock, fence, files, kind, tgt, det, act, sup, views, lapsed, opened,
                 bounds>>

(* The peer answered, or its process went away during the call.               *)
PeerAnswered(s) ==
  /\ at[s] # NoSession
  /\ at[s] \notin conn \/ job[at[s]][pc[s]] \notin Running
  /\ IF pc[s] = "restore" \/ (at[s] \in conn /\ job[at[s]][pc[s]] = "ok")
     THEN Proceed(s, at[s]) /\ UNCHANGED eff
     ELSE StopJobs(s)
  /\ at' = [at EXCEPT ![s] = NoSession]
  /\ ServerIdle
  /\ UNCHANGED <<lock, fence, files, kind, tgt, det, act, sup, job, views, lapsed, opened,
                 bounds>>

(* The caller gives up: after 2 s of unsubscribe, or once the 5 s of the whole *)
(* restore pass are spent.  The peer does not notice.                          *)
PeerCallTimeout(s) ==
  /\ at[s] # NoSession /\ pc[s] \in {"unsub", "restore"}
  /\ Fault
  /\ Goto(s, IF pc[s] = "unsub" THEN "restore" ELSE "fail")
  /\ at' = [at EXCEPT ![s] = NoSession]
  /\ ServerIdle
  /\ UNCHANGED <<lock, fence, files, kind, tgt, caches, job, views, lapsed, opened, work>>

(* What the endpoint makes of the handler's error.                             *)
OutcomeSwallowed(ok) == "ok"
Outcome(ok) == IF ok THEN "ok" ELSE "bad"

(* Unsubscribe has an outcome: the route is forgotten in every case, and the   *)
(* peer is detached if it was or may have been subscribed.                     *)
MayHaveLeft(p, status) ==
  det[p] \/ job[p].unsub = "subscribed" \/ status = "unsubscribed"

EndUnsubscribeRaw(p, ok, status) ==
  /\ Forget(p)
  /\ det' = [det EXCEPT ![p] = MayHaveLeft(p, status)]
  /\ job' = [job EXCEPT ![p].unsub = IF ok THEN status ELSE "bad"]
EndUnsubscribe(p, ok, status) ==
  /\ Forget(p)
  /\ det' = [det EXCEPT ![p] = MayHaveLeft(p, status)]
  /\ job' = [job EXCEPT ![p].unsub = Outcome(ok)]

(* A resume that names a provider must come back with it.                      *)
Answered(m) == m.ok
Verified(m) == m.ok /\ m.prov = m.asked

(* Resubscribe accepts only the route it asked for, Restore whatever it gets.  *)
EndResubscribe(p, op, m) ==
  LET good == IF op = "resub" THEN Verified(m) ELSE m.ok
  IN /\ IF good THEN Learn(p, m.prov) ELSE UNCHANGED <<eff, det>>
     /\ job' = [job EXCEPT ![p][op] = Outcome(good)]

(* A peer whose unsubscribe runs out of time does not know that it may have     *)
(* left: its route was forgotten before, or an earlier resubscribe, still       *)
(* waiting, will clear the mark.                                                *)
Unaware(p) ==
  ~MayHaveLeft(p, "") \/ \E op \in {"resub", "restore"} : job[p][op] \in Running

(* The peer's own call to the app-server runs out of time.                     *)
JobTimeout(p) ==
  /\ p \in conn
  /\ Fault
  /\ \E op \in JobOps :
       /\ job[p][op] \in Running
       /\ Abandon(p, UpOf[op])
       /\ IF op = "unsub"
          THEN /\ EndUnsubscribe(p, FALSE, "")
               /\ lapsed' = IF Unaware(p) THEN lapsed \cup {p} ELSE lapsed
          ELSE job' = [job EXCEPT ![p][op] = "bad"] /\ UNCHANGED <<eff, det, lapsed>>
  /\ UNCHANGED <<conn, rt, loaded, subs, running, archived, lock, fence, files, handler,
                 act, sup, views, opened, work>>

-----------------------------------------------------------------------------
(* turn/start up to the decision to hand off *)

Step(s, from) == pc[s] = from

PrepareTurn(s) ==
  /\ Step(s, "prepareTurn")
  /\ Goto(s, IF act[s] THEN "fail" ELSE "prepare")
  /\ ServerIdle
  /\ UNCHANGED <<lock, fence, files, kind, tgt, at, caches, job, views, lapsed, opened,
                 bounds>>

(* Some peer was busy: is the thread?  The internal requests of the handler.   *)
AskServer(s, from, then, m) ==
  /\ Step(s, from)
  /\ SendOnly(s, m)
  /\ Goto(s, then)
  /\ UNCHANGED <<lock, fence, files, kind, tgt, at, caches, job, views, lapsed, opened,
                 bounds>>

AskStatus(s) == AskServer(s, "askStatus", "statusWait", Request("list", NoProvider))
InternalResume(s) ==
  \/ AskServer(s, "resume", "resumeWait", Request("resume", tgt[s]))
  \/ AskServer(s, "recoverResume", "recoverResumeWait", Request("resume", tgt[s]))

AfterRepair(s) == CASE kind[s] \in {"turn", "switch"} -> "route"
                    [] kind[s] = "resume" -> "sanitizeResume"
                    [] OTHER -> "finish"

LoadJournal(s) ==
  /\ Step(s, "repair")
  /\ \/ NoFault /\ Goto(s, IF journal = NoProvider THEN AfterRepair(s) ELSE "prepareRepair")
     \/ Fault /\ Goto(s, "fail")
  /\ ServerIdle
  /\ UNCHANGED <<lock, fence, files, kind, tgt, at, caches, job, views, lapsed, opened,
                 work>>

Selected == IF selection # NoProvider THEN selection ELSE Override

(* The provider this request wants; obs is the observed runtime provider.      *)
Goal(s, obs) == CASE kind[s] = "switch" -> tgt[s]
                  [] Selected # NoProvider -> Selected
                  [] OTHER -> obs

ForceFull(s) ==
  dirty # "none" /\ (kind[s] = "switch" \/ dirty # "unsubscribed")

(* A provider command may also ask for another model of the same provider,     *)
(* which its route comparison counts as a mismatch.                            *)
Decide(s, obs) ==
  LET goal == Goal(s, obs) IN
  /\ tgt' = [tgt EXCEPT ![s] = goal]
  /\ CASE ForceFull(s) \/ obs # goal -> Goto(s, "prepareHandoff")
       [] ~ForceFull(s) /\ obs = goal /\ dirty # "none" -> Goto(s, "prepareSame")
       [] OTHER -> \/ Goto(s, "finish")
                   \/ kind[s] = "switch" /\ Goto(s, "prepareHandoff")

NeedsRuntime(s) == ~ForceFull(s) \/ Goal(s, NoProvider) = NoProvider

DecideRoute(s) ==
  /\ Step(s, "route")
  /\ eff[s] # NoProvider \/ ~NeedsRuntime(s)
  /\ Decide(s, eff[s])
  /\ ServerIdle
  /\ UNCHANGED <<lock, fence, files, kind, at, caches, job, views, lapsed, opened, bounds>>

AskRoute(s) ==
  /\ eff[s] = NoProvider /\ NeedsRuntime(s)
  /\ AskServer(s, "route", "routeWait", Request("list", NoProvider))
-----------------------------------------------------------------------------
(* The handoff transaction *)

(* SetDirtyStage: a failure can strike before or after the rename.            *)
SetDirtyStage(s) ==
  /\ pc[s] \in DOMAIN StageOf
  /\ \/ NoFault /\ dirty' = StageOf[pc[s]] /\ Goto(s, AfterStage[pc[s]])
     \/ Fault /\ dirty' \in {dirty, StageOf[pc[s]]} /\ Goto(s, StageFailed[pc[s]])
  /\ ServerIdle
  /\ UNCHANGED <<lock, fence, selection, journal, kind, tgt, at, caches, job, views,
                 lapsed, opened, work>>

(* Sanitation under the handoff: a runtime still loaded holds the rollout's   *)
(* writer lock, which matters only when there is something to rewrite.        *)
Sanitize(s) ==
  /\ Step(s, "sanitize")
  /\ \/ NoFault /\ Goto(s, "resume")
     \/ NoFault /\ loaded /\ Goto(s, "inspect")
     \/ Fault /\ Goto(s, "restore")
  /\ ServerIdle
  /\ UNCHANGED <<lock, fence, files, kind, tgt, at, caches, job, views, lapsed, opened,
                 work>>

(* Recovery, the soft unload: only of a quiescent thread.                      *)
Inspect(s) ==
  /\ Step(s, "inspect")
  /\ \/ NoFault /\ Goto(s, IF running = NoSession THEN "stageRecovering" ELSE "restore")
     \/ Fault /\ Goto(s, "restore")
  /\ ServerIdle
  /\ UNCHANGED <<lock, fence, files, kind, tgt, at, caches, job, views, lapsed, opened,
                 work>>

Buffered(p) == UNCHANGED journal
Persist(p) == journal' = p

SaveJournal(s) ==
  /\ Step(s, "saveJournal")
  /\ \/ /\ NoFault
        /\ IF tgt[s] = NoProvider THEN Goto(s, "restore") /\ UNCHANGED journal
           ELSE Goto(s, "begin") /\ Persist(tgt[s])
     \/ Fault /\ journal' \in {journal, tgt[s]} /\ Goto(s, "restore")
  /\ ServerIdle
  /\ UNCHANGED <<lock, fence, dirty, selection, kind, tgt, at, caches, job, views, lapsed,
                 opened, work>>

(* An error of the archive call leaves open whether it took effect.            *)
ArchiveRoot(s) ==
  /\ Step(s, "archive")
  /\ \/ NoFault /\ Archive /\ Goto(s, "unarchive")
     \/ Fault /\ (Archive \/ ServerIdle) /\ Goto(s, "abort")
  /\ UNCHANGED <<lock, fence, files, kind, tgt, at, caches, job, views, lapsed, opened,
                 work>>

UnarchiveAll(s, from, then, failed) ==
  /\ Step(s, from)
  /\ \/ NoFault /\ Unarchive /\ Goto(s, then)
     \/ Fault /\ (Unarchive \/ ServerIdle) /\ Goto(s, failed)
  /\ UNCHANGED <<lock, fence, files, kind, tgt, at, caches, job, views, lapsed, opened,
                 work>>

Resanitize(s, from, then, failed) ==
  /\ Step(s, from)
  /\ \/ NoFault /\ Goto(s, then)
     \/ NoFault /\ loaded /\ Goto(s, failed)
     \/ Fault /\ Goto(s, failed)
  /\ ServerIdle
  /\ UNCHANGED <<lock, fence, files, kind, tgt, at, caches, job, views, lapsed, opened,
                 work>>

ClearJournal(s, from, then, failed) ==
  /\ Step(s, from)
  /\ \/ NoFault /\ journal' = NoProvider /\ Goto(s, then)
     \/ Fault /\ journal' \in {journal, NoProvider} /\ Goto(s, failed)
  /\ ServerIdle
  /\ UNCHANGED <<lock, fence, dirty, selection, kind, tgt, at, caches, job, views, lapsed,
                 opened, work>>

Recover(s) ==
  \/ Inspect(s) \/ SaveJournal(s) \/ ArchiveRoot(s)
  \/ UnarchiveAll(s, "unarchive", "resanitize", "abort")
  \/ Resanitize(s, "resanitize", "recoverResume", "abort")
  \/ ClearJournal(s, "clearJournal", "stageResub", "restore")

(* repairRecoveryJournal: the resume runs on a connection of its own and must  *)
(* come back with the journalled provider.                                     *)
RepairResume(s) ==
  /\ Step(s, "repairResume")
  /\ IF archived THEN UNCHANGED <<eff, faults>> /\ ServerIdle /\ Goto(s, "repairAbort")
     ELSE /\ RecoveryResume(journal)
          /\ \/ /\ NoFault /\ rt' = journal
                /\ eff' = [eff EXCEPT ![s] = journal] /\ Goto(s, "repairEnd")
             \/ NoFault /\ rt' # journal /\ Goto(s, "repairAbort") /\ UNCHANGED eff
             \/ Fault /\ Goto(s, "repairAbort") /\ UNCHANGED eff
  /\ UNCHANGED <<lock, fence, files, kind, tgt, at, det, act, sup, job, views, lapsed,
                 opened, work>>

RepairJournal(s) ==
  \/ LoadJournal(s)
  \/ UnarchiveAll(s, "repairUnarchive", "repairSanitize", "repairAbort")
  \/ Resanitize(s, "repairSanitize", "repairResume", "repairAbort")
  \/ RepairResume(s)
  \/ ClearJournal(s, "repairClear", AfterRepair(s), "fail")

(* The marker goes only after every peer is back; the same-provider repair     *)
(* has nothing to restore when removing it fails.                              *)
ClearDirty(s) ==
  /\ Step(s, "clearDirty")
  /\ \/ /\ NoFault /\ dirty' = "none"
        /\ Goto(s, IF kind[s] = "resume" THEN "forwardResume" ELSE "finish")
     \/ /\ Fault /\ UNCHANGED dirty
        /\ Goto(s, IF dirty = "resubscribing" THEN "restore" ELSE "fail")
  /\ ServerIdle
  /\ UNCHANGED <<lock, fence, selection, journal, kind, tgt, at, caches, job, views,
                 lapsed, opened, work>>

-----------------------------------------------------------------------------
(* Ends of the handlers *)

(* The user's message goes upstream and takes the thread lock with it.         *)
ReleaseAtWrite(s) == lock' = NoSession /\ UNCHANGED fence
KeepFence(s) == fence' = [fence EXCEPT ![s] = TRUE] /\ UNCHANGED lock

ForwardTurn(s) ==
  /\ Step(s, "finish") /\ kind[s] = "turn"
  /\ act' = [act EXCEPT ![s] = TRUE]
  /\ KeepFence(s)
  /\ SendOnly(s, Request("turn", tgt[s]))
  /\ Return(s)
  /\ UNCHANGED <<files, at, eff, det, sup, job, views, lapsed, opened, bounds>>

FinishCommand(s) ==
  /\ Step(s, "finish") /\ kind[s] \in {"switch", "status"}
  /\ \/ /\ NoFault /\ Release(s)
        /\ selection' = IF kind[s] = "switch" THEN tgt[s] ELSE selection
     \/ /\ kind[s] = "switch" /\ Fault /\ Goto(s, "fail") /\ UNCHANGED <<lock, kind, tgt>>
        /\ selection' \in {selection, tgt[s]}
  /\ ServerIdle
  /\ UNCHANGED <<fence, dirty, journal, at, caches, job, views, lapsed, opened, work>>

(* The error goes to Desktop and the lock with it.  A peer's unsubscribe, which *)
(* has the same 2 s as its caller, is over by then.                             *)
FailRequest(s) ==
  /\ Step(s, "fail")
  /\ \A p \in conn : job[p].unsub \notin Running
  /\ Release(s)
  /\ ServerIdle
  /\ UNCHANGED <<fence, files, at, caches, job, views, lapsed, opened, bounds>>

(* thread/resume: a rollout to rewrite whose runtime is loaded goes through a   *)
(* handoff, unless this session never observed the runtime.                     *)
SanitizeResume(s) ==
  /\ Step(s, "sanitizeResume")
  /\ tgt' = [tgt EXCEPT ![s] = Selected]
  /\ \/ NoFault /\ Goto(s, "forwardResume")
     \/ NoFault /\ loaded /\ eff[s] # NoProvider /\ Goto(s, "prepareHandoff")
     \/ Fault /\ Goto(s, "fail")
  /\ ServerIdle
  /\ UNCHANGED <<lock, fence, files, kind, at, caches, job, views, lapsed, opened, work>>

Forward(s, from, m) ==
  /\ Step(s, from)
  /\ Forget(s)
  /\ det' = [det EXCEPT ![s] = FALSE]
  /\ lapsed' = IF det[s] THEN lapsed \cup {s} ELSE lapsed
  /\ SendOnly(s, m)
  /\ Goto(s, "answer")
  /\ UNCHANGED <<lock, fence, files, kind, tgt, at, act, sup, job, views, opened, bounds>>

ForwardResume(s) == Forward(s, "forwardResume", Request("dresume", tgt[s]))
ForwardUnsubscribe(s) == Forward(s, "unsubscribe", Request("dunsub", NoProvider))

-----------------------------------------------------------------------------
(* handleUpstreamText: what the session makes of the next message *)

HearNotice(s, m) ==
  /\ m.op \in Notice
  /\ act' = [act EXCEPT ![s] = IF m.op \in Closings THEN @ ELSE m.op = "started"]
  /\ IF m.op \in Closings /\ ~sup[s]
     THEN Forget(s) /\ det' = [det EXCEPT ![s] = FALSE] /\ views' = views \ {s}
     ELSE UNCHANGED <<eff, det, views>>
  /\ UNCHANGED <<lock, fence, pc, todo, kind, tgt, job>>

(* The acknowledgement of turn/start releases the thread, whatever it says.     *)
LiftOnSuccess(s, m) ==
  IF m.ok THEN fence' = [fence EXCEPT ![s] = FALSE] /\ lock' = NoSession
  ELSE UNCHANGED <<fence, lock>>
LiftFence(s, m) == fence' = [fence EXCEPT ![s] = FALSE] /\ lock' = NoSession

HearTurn(s, m) ==
  /\ m.op = "turn"
  /\ act' = [act EXCEPT ![s] = @ /\ m.ok]
  /\ LiftFence(s, m)
  /\ UNCHANGED <<pc, todo, kind, tgt, eff, det, job, views>>

HearDesktop(s, m) ==
  /\ m.op \in {"dresume", "dunsub"} /\ pc[s] = "answer"
  /\ IF m.ok
     THEN /\ eff' = [eff EXCEPT ![s] = m.prov]
          /\ det' = [det EXCEPT ![s] = FALSE]
     ELSE UNCHANGED <<eff, det>>
  /\ Release(s)
  /\ UNCHANGED <<fence, act, job, views>>

(* The status that lets stale busy caches be overwritten.                       *)
StatusKnown(m) == m.ok
StatusIdle(m) == m.ok /\ m.tag = "idle"

HearList(s, m) ==
  /\ m.op = "list" /\ m.live
  /\ \/ /\ pc[s] = "statusWait"
        /\ Goto(s, IF StatusIdle(m) THEN "reconcile" ELSE "fail")
        /\ UNCHANGED <<eff, tgt>>
     \/ /\ pc[s] = "routeWait"
        /\ IF m.ok
           THEN LET obs == IF eff[s] = NoProvider THEN m.prov ELSE eff[s]
                IN eff' = [eff EXCEPT ![s] = obs] /\ Decide(s, obs)
           ELSE Goto(s, "fail") /\ UNCHANGED <<eff, tgt>>
  /\ UNCHANGED <<lock, fence, kind, act, det, job, views>>

HearResume(s, m) ==
  /\ m.op = "resume" /\ m.live /\ pc[s] \in {"resumeWait", "recoverResumeWait"}
  /\ IF Verified(m) THEN Learn(s, m.prov) ELSE UNCHANGED <<eff, det>>
  /\ Goto(s, IF pc[s] = "resumeWait"
             THEN IF Verified(m) THEN "stageResub"
                  ELSE IF m.ok THEN "stageMismatch" ELSE "restore"
             ELSE IF Verified(m) THEN "end" ELSE "abort")
  /\ UNCHANGED <<lock, fence, kind, tgt, act, job, views>>

HearJob(s, m) ==
  /\ m.live
  /\ \/ /\ m.op = "junsub" /\ EndUnsubscribe(s, m.ok, m.tag)
     \/ /\ m.op = "jresub" /\ EndResubscribe(s, "resub", m)
     \/ /\ m.op = "jrestore" /\ EndResubscribe(s, "restore", m)
  /\ UNCHANGED <<lock, fence, pc, todo, kind, tgt, act, views>>

Swallow(m) ==
  m.op \in Internal /\ ~m.live /\ 
    UNCHANGED <<lock, fence, pc, todo, kind, tgt, eff, det, act, job, views>>

Hear(s) ==
  /\ s \in conn /\ down[s] # <<>>
  /\ LET m == Head(down[s])
     IN \/ HearNotice(s, m) \/ HearTurn(s, m) \/ HearDesktop(s, m) \/ HearList(s, m)
        \/ HearResume(s, m) \/ HearJob(s, m) \/ Swallow(m)
  /\ down' = [down EXCEPT ![s] = Tail(@)]
  /\ UNCHANGED <<conn, rt, loaded, subs, running, archived, up, files, at, sup,
                 lapsed, opened, bounds>>

(* A call of the handler itself runs out of time.                               *)
CallTimeout(s) ==
  /\ pc[s] \in Waiting
  /\ Fault
  /\ Abandon(s, IF pc[s] \in {"statusWait", "routeWait"} THEN "list" ELSE "resume")
  /\ Goto(s, CASE pc[s] = "resumeWait" -> "restore"
               [] pc[s] = "recoverResumeWait" -> "abort"
               [] OTHER -> "fail")
  /\ UNCHANGED <<conn, rt, loaded, subs, running, archived, lock, fence, files, kind, tgt,
                 at, caches, job, views, lapsed, opened, work>>

-----------------------------------------------------------------------------
(* The app-server's turns *)

others == <<lock, fence, files, handler, caches, job, opened, work>>

(* A view is open once its resume was granted, and until it is closed or      *)
(* its Desktop is told otherwise.                                             *)
ServeStep(s) ==
  /\ Serve(s) /\ NoFault
  /\ LET m == Head(up[s])
     IN /\ views' = CASE m.op = "dresume" /\ s \in conn ->
                           IF archived THEN views \ {s} ELSE views \cup {s}
                      [] m.op = "dunsub" -> views \ {s}
                      [] OTHER -> views
        /\ lapsed' = IF m.op = "dresume" /\ ~archived THEN lapsed \ {s} ELSE lapsed
  /\ UNCHANGED others

ServeFault(s) ==
  /\ ServeError(s) /\ Fault
  /\ views' = IF Head(up[s]).op = "dresume" THEN views \ {s} ELSE views
  /\ UNCHANGED <<others, lapsed>>

TurnEnds == EndTurn /\ UNCHANGED <<others, views, lapsed, faults>>

(* The inactivity grace of 30 minutes outlasts every operation and request.    *)
UnloadIdle ==
  /\ lock = NoSession /\ \A s \in Session : up[s] = <<>>
  /\ Unload
  /\ UNCHANGED <<others, views, lapsed, faults>>

-----------------------------------------------------------------------------

TurnStep(s) ==
  \/ PrepareTurn(s) \/ AskStatus(s) \/ DecideRoute(s) \/ AskRoute(s)
  \/ ForwardTurn(s) \/ FinishCommand(s)

HandoffStep(s) ==
  \/ SetDirtyStage(s) \/ Sanitize(s) \/ InternalResume(s) \/ ClearDirty(s)

PassStep(s) ==
  \/ SkipPeer(s) \/ CheckPeer(s) \/ ReconcilePeer(s) \/ BeginPeer(s) \/ EndPeer(s)
  \/ CallPeer(s) \/ PeerAnswered(s)

DesktopStep(s) == SanitizeResume(s) \/ ForwardResume(s) \/ ForwardUnsubscribe(s)

Handle(s) ==
  \/ LockThread(s) \/ PassStep(s) \/ TurnStep(s) \/ HandoffStep(s)
  \/ Recover(s) \/ RepairJournal(s) \/ DesktopStep(s) \/ FailRequest(s)

Timeout(s) == PeerCallTimeout(s) \/ JobTimeout(s) \/ CallTimeout(s)

Next ==
  \/ \E s \in Session :
       \/ Open(s) \/ Close(s) \/ Receive(s)
       \/ Handle(s) \/ Hear(s) \/ Timeout(s)
       \/ ServeStep(s) \/ ServeFault(s)
  \/ TurnEnds \/ UnloadIdle

Spec == Init /\ [][Next]_vars

(* Handlers and readers are goroutines nothing suspends; the app-server        *)
(* answers what reaches it and ends every turn.  Nobody owes a request, a       *)
(* fault, or a turn at the lock: the kernel's flock queue promises no order.    *)
FairSpec ==
  /\ Spec
  /\ \A s \in Session : WF_vars(Handle(s) /\ pc[s] # "lock")
                        /\ WF_vars(Hear(s)) /\ WF_vars(ServeStep(s))
  /\ WF_vars(TurnEnds)

-----------------------------------------------------------------------------
(* Invariants *)

FileTypes ==
  /\ lock \in Session \cup {NoSession}
  /\ fence \in [Session -> BOOLEAN]
  /\ dirty \in Stages
  /\ selection \in Provider \cup {NoProvider}
  /\ journal \in Provider \cup {NoProvider}

HandlerTypes ==
  /\ pc \in [Session -> Labels]
  /\ todo \in [Session -> SUBSET Session]
  /\ at \in [Session -> Session \cup {NoSession}]

RequestTypes ==
  /\ kind \in [Session -> Kinds]
  /\ tgt \in [Session -> Provider \cup {NoProvider}]

CacheTypes ==
  /\ eff \in [Session -> Provider \cup {NoProvider}]
  /\ det \in [Session -> BOOLEAN] /\ act \in [Session -> BOOLEAN]
  /\ sup \in [Session -> BOOLEAN]
  /\ job \in [Session -> [JobOps -> JobState]]

HistoryTypes ==
  /\ views \subseteq Session /\ lapsed \subseteq Session /\ opened \subseteq Session
  /\ work \in Nat /\ faults \in Nat

TypeOK ==
  ServerTypeOK /\ FileTypes /\ HandlerTypes /\ RequestTypes /\ CacheTypes /\ HistoryTypes

InFlight(s) == {up[s][i] : i \in DOMAIN up[s]} \cup {down[s][i] : i \in DOMAIN down[s]}

(* A handler past the lock, or whose turn/start is unacknowledged, holds the   *)
(* thread: no two of them ever touch the thread's files or peers at once.      *)
Inside(s) == pc[s] \notin {"idle", "lock"} \/ fence[s]
LockDiscipline == \A s \in Session : Inside(s) => lock = s

(* The lock stays with a turn/start of an open session from the write          *)
(* upstream to its acknowledgement (handleTurnStart hands its release to the    *)
(* response): no peer decides on an idle status that turn has not yet changed.  *)
FenceCoversAck ==
  \A s \in conn : (\E m \in InFlight(s) : m.op = "turn") => fence[s] /\ lock = s

(* A peer that recovery may leave unsubscribed is covered by the dirty marker,  *)
(* which is removed only once every live peer is back (handoff).                *)
MarkedWhileDetached == dirty = "none" => \A s \in conn : ~det[s]

(* The journal is on disk before the archive and is cleared only after the      *)
(* unarchive (recoverProviderMismatch): a crash never strands the thread.       *)
JournalCoversArchive == archived => journal # NoProvider

(* While a journal is pending the marker is too, so no later turn skips the     *)
(* handoff because its cached route happens to match.                           *)
JournalImpliesMarked == journal # NoProvider => dirty # "none"

(* A view whose session has not forgotten that it may be unsubscribed.          *)
Covered(s) == s \in (views \cap conn) \ lapsed

(* A user message on its way to the app-server from a covered view meets a      *)
(* runtime of the provider it was decided for: "the switcher therefore          *)
(* guarantees routing correctness" (docs/architecture.md; handleTurnStart).     *)
NeverMisrouted ==
  \A s \in Session : Covered(s) =>
    \A i \in DOMAIN up[s] : up[s][i].op = "turn" /\ loaded => up[s][i].prov = rt

(* The user's message is decided for, or on its way.                            *)
Outgoing(s) ==
  \/ pc[s] = "finish" /\ kind[s] = "turn"
  \/ \E i \in DOMAIN up[s] : up[s][i].op = "turn"

(* A message or a provider command that a covered view sends without a handoff, *)
(* or after a whole one, goes to a runtime of its target; only the repair of an *)
(* "unsubscribed" marker promises less.  Every message then finds the runtime   *)
(* that was there when it was let through (handleTurnStart).                    *)
SettledRoute ==
  [][\A s \in Session : Covered(s) =>
       /\ /\ pc[s] # "finish" /\ pc'[s] = "finish" /\ kind[s] \in {"turn", "switch"}
          /\ dirty # "unsubscribed"
          => tgt'[s] = rt'
       /\ Outgoing(s) => rt' = rt]_vars

(* The route of a covered view, shown as "(verified)" and used without asking   *)
(* the app-server, is the runtime's while no handoff is pending.                *)
VerifiedRuntime ==
  dirty = "none" => \A s \in Session : Covered(s) => eff[s] \in {NoProvider, rt}

(* Stale busy caches are overwritten only when no open session's turn is        *)
(* running or on its way (prepareTurnPeers).                                    *)
ReconcileOnlyWhenIdle ==
  (\E s \in Session : pc[s] \in {"reconcile", "prepare2"}) =>
    /\ running \in {NoSession, Orphan}
    /\ \A s \in conn : \A m \in InFlight(s) : m.op # "turn"

(* While no handoff is pending, every covered view is subscribed: none misses   *)
(* the events of the turn that follows a handoff (handoff, ResubscribeAll).     *)
ViewsStaySubscribed ==
  dirty = "none" => \A s \in Session : Covered(s) => s \in subs

(* A handoff leaves every open view subscribed, whatever its Desktop asked in   *)
(* between: "previously open Desktop views continue receiving" the turn's       *)
(* events (docs/architecture.md).                                               *)
EveryViewSubscribed ==
  dirty = "none" /\ lock = NoSession => views \cap conn \subseteq subs

(* Whoever starts a turn is reported busy until that turn is over: a peer that  *)
(* prepares after the acknowledgement sees it.                                  *)
BusyAfterAck == lock = NoSession /\ running \in conn => act[running]

(* The archive that unloads a wedged runtime never cuts off an open session's   *)
(* turn: the subtree is inspected, and busy peers refuse suppression.           *)
TurnNeverInterrupted ==
  [][archived' /\ ~archived => running \in {NoSession, Orphan}]_vars

(* The archive waits until every session with the thread open has agreed to     *)
(* hide it (BeginRecoveryAll): none that asks for it is left to see it closed.  *)
ArchiveIsolated ==
  [][archived' /\ ~archived => \A s \in views \cap conn : sup[s]]_vars

(* A peer that goes on dropping notifications after a failed clean-up is         *)
(* remembered by the journal, whose repair ends it (the deferred EndRecoveryAll *)
(* is best effort).                                                             *)
SuppressionJournalled == (\E s \in conn : sup[s]) => journal # NoProvider

(* A Desktop with the thread open never learns of the archive: its session      *)
(* still suppresses the notification when it arrives (the recovery design).     *)
ArchiveHidden ==
  \A s \in views \cap conn : (\E m \in InFlight(s) : m.op = "archived") => sup[s]

(* What the thread's files promise across crashes.                              *)
Files == INSTANCE ThreadFiles WITH marked <- dirty # "none"
FilesRecoverable == Files!Spec

(* Every operation lets go of the thread lock.                                  *)
LockReleased == \A s \in Session : lock = s ~> lock # s
=============================================================================
