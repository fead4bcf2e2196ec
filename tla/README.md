# Codex Provider Switcher: verification project

TLA+ models of the switcher, the instances TLC checks, and theorems TLAPS
proves about them. Everything is translated from the Go sources under `src/`;
`PROJECT.json` maps each definition to the lines it stands for.

## 1. The system

One *session* is one switcher process that proxies one Codex Desktop WebSocket
to the shared Codex app-server. Several sessions may have the same thread open.
A thread has at most one runtime in the app-server and that runtime has one
model provider. Changing the provider of a loaded thread therefore takes the
cooperation of every session subscribed to it: that is the handoff.

| Component | State it keeps | Operations | What makes it correct |
|---|---|---|---|
| Thread lock and peers (`internal/handoff/coordinator.go`) | lock file and dirty marker per thread, one Unix socket per session | `LockThread`; the passes prepare, reconcileIdle, unsubscribe, resubscribe, restore, begin/endRecovery; `SetDirtyStage`, `ClearDirty` | one operation on a thread at a time; a failed handoff leaves a marker |
| Session (`internal/transport/session.go`) | per thread: effective route, detached, active, recovery suppression; pending requests | Desktop requests `turn/start`, `thread/resume`, `thread/unsubscribe`, `thread/settings/update`, `thread/start`, `thread/fork`; peer handlers; upstream reader | a message meets the provider it was meant for; no turn cut off; every open view subscribed again |
| Request tracking (`session.go`, `jsonrpc.go`) | Desktop and internal requests by id | send, answer, abandon, close | an answer reaches the one who asked, once |
| Recovery client and journal (`recovery_client.go`, `internal/recovery`) | journal file: root, route, threads, remaining, phase | inspect, save, archive, unarchive, resume, clear, repair | whatever fails, the subtree can be brought back |
| Selection store (`internal/selection`) | saved provider/model per thread | get, set | what the user chose last, or nothing |
| Proxy and bridge (`proxy.go`, `conn.go`) | two pumps per connection | open, forward, close | a closed bridge holds nothing |
| Writer lock (`sanitize.go`, `history-maintenance.py`) | coordination file and lock file of a thread | acquire, release | one writer of a history at a time; a release ends |
| Rollout sanitation (`internal/rollout`) | rollout file, certificate of the last scan | scan, rewrite, certify | no line lost; no dirty line loaded because a certificate hid it |
| Cold history (`compression.go`, `history-maintenance.py`) | plain and compressed rollouts | resolve, prepare, compress | a reader always finds the newest complete version |
| Model routes, rewriting (`internal/modelroute`, `rewrite`, `provider`) | route catalogue, loaded once | resolve, rewrite | pure functions |
| Provider commands (`provider_command.go`) | none | parse a message | pure function |
| Fork previews, wrapper, configuration, deployment scripts | none shared | one shot | not concurrent |

**Interactions.** Desktop requests are read one at a time per session
(`pumpDownstream`); responses and notifications of the app-server are read by a
second goroutine (`handleUpstreamText`) that shares the session's maps with the
first under a mutex; peers call a session's control endpoint from other
processes, each call in a goroutine of its own. Sessions of different processes
share only files (lock, marker, journal, selection, rollouts) and the app-server.

**Hard behaviours.** A peer acts on a status that a turn already on the socket
is about to change; a call goes on at a peer after its caller stopped waiting; a
notification is read after the request that outdates it; a process dies
between two of the steps archive, unarchive, resume, clear; a write to a file
fails before or after it took effect; a lock handed from the goroutine that
took it to the one that reads the answer. `PROJECT.json` lists each at its line
under `hazards`, with the property that would catch it or the reason why none
does.

## 2. The modules

| Module | Models | Composed with |
|---|---|---|
| `AppServer` | the app-server as the sessions use it: one thread's runtime, subscribers, turn, archive, and a FIFO pair of channels per connection (external) | extended by `Handoff` |
| `Handoff` | the sessions: lock, fence, passes over the peers, caches, marker, journal, selection, the handlers of every modelled request, the reader, failures | refines `ThreadFiles` |
| `Recovery` | the soft unload and the repair of a whole subtree, call by call, with the journal file | refines `ThreadFiles` |
| `ThreadFiles` | abstract: what marker, journal and archive promise across crashes | |
| `WriterLock` | the writer lock of a thread, one system call per step | refines `ExclusiveLock` |
| `ExclusiveLock` | abstract: a lock | |
| `Rollout` | one thread's history: app-server, sanitation, restoration, maintenance | uses `ExclusiveLock` for its writer lock |
| `Requests` | one session's request tables and the goroutines that share them: both pumps, internal calls, the bridge and `closeState` | beside `Handoff` |
| `Registry` | the peer sockets in the runtime directory: opening, closing and dying sessions around passes | below `Handoff` |
| `MCHandoff`, `MCRecovery`, `MCRollout`, `MCRegistry` | symmetry, and the tree of threads, for TLC | |
| `LockProofs`, `PeerProofs`, `ViewProofs` | lemmas and theorems about `Handoff`, each extending the one before | |
| `RecoveryProofs`, `RolloutProofs`, `WriterLockProofs`, `RequestsProofs`, `RegistryProofs` | theorems about the module each is named for | |

The modules meet at five interfaces. `Handoff` reduces the subtree of a recovery
to its root and `Recovery` follows one operation at a time over the whole
subtree; that there is only one at a time is `Handoff`'s `LockDiscipline`, which
is proved. `Handoff` knows sanitation by its outcomes only, and `Rollout` follows
the files. `Rollout` takes the writer lock in one step, and `WriterLock`
implements that step, which is proved too. `Handoff` takes the delivery of an
answer to its waiter, and the release of the lock when a turn is answered, for
one step each, and `Requests` follows them through the maps, the channels and
the end of the connection; conversely `Requests` knows what a handler does
between lock and forwarding only as internal calls with some outcome. A pass in
`Handoff` visits the sessions that are connected when it begins, and `Registry`
says when the directory listing stands for that (`PassComplete`) and when not
(section 6).

### How `Handoff` corresponds to the code

`pc[s]` is where session `s`'s handler stands. Most labels are named for the call
that comes next: `prepareTurn` (the session's own active check), `repair`
(`repairRecoveryJournal`), `route` (`effectiveRouteForTurn` and the decision in
`handleTurnStart`), then for a handoff `prepareHandoff`, `prepareRecovery`,
`mark`, `unsub`, `stageUnsub`, `sanitize`, `resume`, `stageResub`, `resub`,
`clearDirty`, and for the soft unload `inspect`, `stageRecovering`,
`saveJournal`, `begin`, `archive`, `unarchive`, `resanitize`, `recoverResume`,
`end`, `clearJournal`. The records `DoneAt`, `StopAt`, `AfterStage`,
`StageFailed` are the code's `if err != nil` edges.

A *pass* (`visitPeersMode`) globs the sockets once (`todo`), then visits one peer
per step; a peer whose process went away is skipped, as the refused connect is.
`at[s]` is the peer a pass is waiting for, `job[p][op]` the call it has running
there: the endpoint goes on with it when the caller has timed out, and so do the
actions.

| Variable | Code |
|---|---|
| `lock` | flock of the thread's lock file, `LockThread` |
| `fence[s]` | the release function handed to the tracked `turn/start` (`releaseThread`) |
| `eff`, `det`, `act`, `sup` | `effectiveRoutes`, `detachedThreads`, `activeThreads`, the recovery suppression map |
| `dirty`, `journal`, `selection` | the marker's stage, the journal's route, the saved selection |
| `up`, `down` | requests and responses/notifications on the WebSocket to the app-server |
| `views` | history: the Desktops that have the thread open |
| `lapsed` | history: the sessions that may be unsubscribed and have no mark of it left |

**Covered views.** `lapsed` records the two ways in which the code loses the mark
of a session that may have been unsubscribed behind its Desktop's back. A
forwarded `thread/resume` or `thread/unsubscribe` clears it before the app-server
has agreed (`session.go:273`, `587`); and a peer's unsubscribe that runs out of time
marks the session only if its route is still known (`session.go:1258-1274`), or has
its mark cleared again by an earlier resubscribe that is still waiting
(`Unaware`). A granted `thread/resume` subscribes the session and ends that.
`Covered(s)` is an open view of a session outside `lapsed`; `ViewsStaySubscribed`,
`VerifiedRuntime`, `SettledRoute` and `NeverMisrouted` are about covered views, at
all times and not only when the lock is free. What happens to the others is the
finding `views_lost` (section 6).

### What is abstracted, and why that is sound for these properties

- One thread. Locks, markers, journals and maps are keyed by thread; requests
  about other threads touch none of this state.
- Routes are providers. A command that asks for another model of the same
  provider counts as a mismatch in the code; it is a nondeterministic handoff to
  the same provider here.
- A waiter that wakes up is one step with the delivery of its response. The
  reader delivers to a buffered channel and the handler's next step depends on
  nothing the reader changes in between except the caches, which the next
  `Hear` may change before or after.
- The subtree of the recovery is reduced to its root: `unarchive` stands for the
  loop over `Remaining`.
- `prepareRepair` stands for the two read-only checks `PrepareAll` and
  `PrepareHandoffAll`, which ask the peers the same question.
- Sanitation is one step with its outcomes (nothing to do, busy writer lock,
  failure); a loaded runtime is what holds the writer lock.
- At most one call per operation runs at a peer. A second one would have to come
  from a handler that took the lock after the first gave it up. For `unsub` the
  2 s of the peer and of its caller end together, which is a guard of
  `FailRequest`. For `restore` it is a restriction: after a failure the coordinator
  waits 5 s, the peer's call may last 35 s, and a handoff that begins in between
  could ask the same peer again while it is still busy with the first call.
- When `endRecoveryV1` fails at a peer (`EndRefused`), the model breaks the pass off;
  the code's best-effort loop goes on to the other peers. The journal stays either
  way, and the next repair asks them all.
- The app-server unloads an idle thread only while no operation holds it: its
  grace period is 30 minutes.
- Desktop starts turns only in threads it has open (`views`), and treats a view
  as closed once `thread/closed` was forwarded to it.
- A session that reconnects is a new session; a graceful close and a crash are
  the same step, since the kernel drops the lock and the socket either way.
- Not modelled here: `thread/settings/update` (in `Requests`), `thread/start`,
  `thread/fork`, materialisation of fresh rollouts, removal of stale sockets (in
  `Registry`).

The initial states are the system *at rest*: any set of sessions open, any of
them with the thread open, the runtime loaded if anybody has, any saved
selection, and possibly an unreadable marker of an earlier version.

### How `Requests` corresponds to the code

| Variable | Code |
|---|---|
| `kind`, `id` | method and JSON-RPC id of each Desktop request; Desktop may use the id of an earlier one |
| `pc`, `cur`, `sub` | where `pumpDownstream` stands, the request and the internal call it has in hand |
| `desktop`, `internal` | the two maps under `stateMu`; an abandoned call stays in the second without a waiter |
| `rel`, `okay`, `closes` | `releaseThread`, `responseOK`, and how often `responseSeen` was closed |
| `call`, `buffer` | the goroutine of each `callUpstream`, and its channel of capacity one |
| `up`, `down`, `accepted` | requests and answers on the connection to the app-server, and the app-server's verdict |
| `rd`, `msg` | where `pumpUpstream` stands, the answer in its hands |
| `bridge`, `batch`, `cut` | where the bridge stands, what `closeState` took out of the map, the connections that are closed |
| `lock` | the holder of the thread's lock |

Steps end where the mutex is given up: an answer is taken out of the map in one
step (`RouteDesktop`), the thread is freed and the waiting handler woken in the
next (`Settle`), and Desktop gets it in a third (`Pass`). `closeState` swaps the maps
in one step and finishes what it took one by one (`Swap`, `Finish`). The
assignment of `releaseThread` in `handleTurnStart` is not under the mutex: while the
handler stands between it and its write, a reader may see it or not. The five
kinds stand for the ways a request uses the lock: a turn leaves it to its
answer, a view (resume, unsubscribe) and a settings update that chooses a model
wait for the answer, any other update gives it up with the write, and a plain
request takes none.

What is abstracted: one thread, and no other session on its lock (contention
comes from the session's own unanswered turn); order on a connection, since the
tables are keyed by id; a request has either a release function or a channel, so
that `Settle` is one step. What is on its way when the connection to the
app-server closes is neither answered nor read any more. The second the bridge
gives the other pump (`proxy.go:268`) is any time after the cut.

### How `Registry` corresponds to the code

A session opens in the steps another process can notice: `Lstat` of the runtime
directory, `Mkdir`, `bind`, `listen`; it closes by unlinking its entry and then its
listener; a killed process leaves its entry behind. A pass reads the directory
once (`todo`) and dials one entry after the other; `stale` is the moment between
a refused connect and the removal of the entry. A dial that ends for another
reason, the caller's deadline or a cancelled context, says nothing of the peer
(`Undialled`): its entry stays, and the pass has failed although a pass with `best`
(`bestEffort`) goes on. `removeStaleSocket` ignores the error of `os.Remove` and a
path it cannot read (`LeaveEntry`). An entry is named after its session, for its
random suffix is its own. `due` and `left` are history: whom the pass has to
reach, and what was dead when it began and has not resisted its removal.

### How `Recovery` corresponds to the code

`pc` names the next call of `recoverProviderMismatch` (`mode = "recover"`) or of
`repairRecoveryJournal` (`mode = "repair"`); the two share every step from
`begin` on, and the differences are tests of `mode`. `disk` is the journal file
and `mem` the value the operation works on: `Save` is atomic when it succeeds,
and an error leaves open which of the two versions is on disk. `hidden` is what
the peers suppress; the process that installed it may die.

`made`, `arch` and `late` are the app-server's side: `thread/archive` takes every
thread below the root with it, `thread/list` omits archived threads, and a
running descendant may spawn another one at any moment. `late` is history: the
threads an enumeration could not have seen. Assumed of the app-server: the tree
has no cycle; a thread is spawned by a live one; `thread/unarchive` of a live
thread fails with the answer the repair accepts. The marker's stage and its
write are one step, sanitation and the verified resume are one step with the
outcomes "goes on" and "gives up". `Valid` counts threads; the byte limits of the
journal (16 KiB) and of a control message (4 KiB) are left out, since 64 threads
with UUIDs for names stay below both.

### How `WriterLock` corresponds to the code

One step per system call that another process can notice: `Flock` of the
coordination file without waiting (`TryCoordination`, `Refused`), `Lstat`, the
exclusive create or the open with `SameFile` (`Look`, `Create`, `Open`, at most
three rounds), `Flock` of the lock file (`Lock`), and the release, which waits for
the coordination file (`Enter`), unlocks, unlinks and leaves, or falls back to
unlocking only. File numbers are used again as soon as nothing has them: that is
what makes an unlinked lock file dangerous. History maintenance runs the same
protocol by its own words (`history-maintenance.py:53`), and so does the
app-server as far as both files say.

### How `Rollout` corresponds to the code

Lines are told apart by what sanitation does to them: nothing, or an edit in
place. No line is removed: reasoning that is dropped becomes a placeholder
(`sanitize.go:542-553`). A file is its lines, the state of the last one (an append
arrives in pieces: part of the record, the record without its newline, all of
it), its number, and `born`, which stands for the times that tell versions of a
file apart. Numbers are given out again at once, so that the certificate's
`identity`, device and inode, may match another file. What sanitation leaves is
as many lines, all clean (`Sanitized`): what they say does not matter to any
property.

A switcher runs `PreparePlain` (`resolve` to `unlinkZst`) and `SanitizeFile`
(`stat` to `publish`); `done` is where they have succeeded and the caller loads the
thread. Two kinds of `thread/resume` load it without (`forward`): one that finds
the runtime listed with the provider it wants, unless that is openai
(`session.go:1047`), and one of a session without an effective provider whose
writer lock was refused (`Unprepared`, `session.go:555`; with an effective provider
the refusal begins a handoff). Handoffs ask with no expected provider and fail
on a refusal, or recover the thread and then sanitize again, so each of them
loads from `done`. Where the switcher has no Codex home, or a fresh thread has no
history file yet, there is nothing to scan. `Begin` has `NoteAccess` in it, which
runs when a request comes in (`session.go:147`).

Maintenance runs `compress_one` (`shut` to `drop`). A scan is one step: it reads
up to the size the file had when it was opened, and what is there does not
change under an open descriptor. `Remembered` is the check that the path still
names the version that was looked at before the scan; `Certify` makes it and the
rename of the certificate one step. Assumed of the app-server: it appends, and
only while it holds the writer lock and to the file the path named when it took
it. Assumed of time: thirty days do not pass within a handoff or a maintenance
run. There is one context policy: each policy has a certificate of its own, but
a rewrite under another one may shorten or change what this one vouches for,
when a file number comes back; that is not covered. A thread's path is one name,
although archiving moves the file; ancestors of a fork are not followed.

## 3. What the runs check

`handoff`, `handoff_live`: two sessions and two providers. Two sessions suffice for
every two-party race of the code (a coordinator and a peer; the peer's own
turn), because no handler distinguishes one peer from two except by repeating a
step; two providers are what a mismatch needs. Sessions and providers are
interchangeable (symmetry) except in the liveness run. `MaxEvents` bounds
Desktop requests and failures (closes, refused or timed-out calls, failed
writes) together, so that one run has every mixture of them. Deadlock checking
is off in these runs, in the violation runs of `Handoff`, and in those of
`Requests` and `Registry`: a system without requests rests, and one whose
connections have ended or whose passes are used up stops. It is on in all others.

| Run | Bounds (distinct states) | Question |
|---|---|---|
| `handoff` | 3 events (680,835 up to symmetry) | Do lock, fence, detached peers, caches, suppression and durable files stay consistent whatever overlaps and whatever fails, a clean-up included? `LockDiscipline`, `FenceCoversAck`, `MarkedWhileDetached`, `ViewsStaySubscribed`, `VerifiedRuntime`, `SuppressionJournalled`, and the refinement `FilesRecoverable`. Does a message that needs no repair of a marker meet a runtime of its provider, and does that runtime stay until it arrives? `SettledRoute`. Is a turn ever cut off, a busy cache overwritten under one, an archive started with a session not isolated? `ReconcileOnlyWhenIdle`, `TurnNeverInterrupted`, `ArchiveIsolated` |
| `handoff_live` | 2 events, fairness (262,684) | Does every holder let go of the lock? `LockReleased` |
| `requests` | 2 Desktop requests, 1 internal call, fairness (480,441) | Is a channel ever closed twice (`SeenClosedOnce`), an answer taken for another's or given twice (`OwnAnswer`), an internal answer shown to Desktop (`InternalHidden`), the thread freed under an unanswered turn (`FenceUntilAnswered`), a selection saved that was refused or lost that was accepted (`SavedIfAccepted`)? Is the lock freed (`LockFreed`), and does a shutdown end (`ShutdownEnds`)? |
| `registry` | 3 sessions, 2 passes, 1 death (1,488,714 up to symmetry) | Does a pass that succeeds reach everybody who served throughout (`PassComplete`) and sweep what was dead and can be removed (`DeadRemoved`), and does one of racing first sessions get in (`OneGetsIn`)? |
| `recovery` | root and 3 descendants, limit 3, 3 failures, fairness | Is every archived thread in the journal on disk (`Covered`), is every journal acceptable (`JournalAccepted`), are children back before parents (`ChildrenFirst`), is every move hidden (`MovesHidden`), `FilesRecoverable`, and does everything come back once failures stop (`Restored`)? |
| `writer_lock` | 3 processes, 3 file numbers, 2 failures, fairness | One holder (`OneWriter`), of the named file (`HolderNamed`), `ActsAsLock`, and does a release end (`ReleaseEnds`)? |
| `rollout` | 2 switchers, 4 files, 2 lines, 2 failures (1,297,436 up to symmetry) | Does any interleaving, with two failed calls or deaths anywhere, lose a line (`NothingLost`), append to a replaced file (`AppendsLand`), save a certificate that lies (`CertificateSound`) or load a dirty line where sanitation has succeeded (`HistoryClean`)? |
| `busy_after_ack`, `archive_hidden`, `views_lost`, `whole_subtree`, `misrouted` | | expected violations, see section 6 |

Why these bounds. Two requests are the least that interleave two operations,
three the least in which a turn, a handoff and a second turn overlap; one
request with two failures is the least in which a clean-up fails too. Two Desktop
requests are one that holds the thread, the table or an id and one that runs into
it; one internal call can be the pump's or a peer's, and be late for either.
`misrouted` needs six events, three requests and three timeouts, which is beyond a
complete search; the action constraint `SlowCalls` keeps it to one request at a
time and to timeouts of a handoff's `thread/resume` and of a restoration. A trace
of a constrained run is a trace of `Handoff` all the same.
Three sessions are one that makes a pass, one that comes or goes and one that
makes the other pass. Four threads with limit
three make a subtree that is too large, one of exactly the limit, siblings and a
chain; three failures interrupt a recovery, its repair and the next one. Three
lock processes are a holder, one that releases and one that comes next, and
three numbers let a number come back while a file of that name exists. Four files
allow three replacements of the first (a compression, a restoration and a rewrite,
say), and a number that comes back; two lines are one a certificate covers and
one appended behind it; two failures are one that leaves two versions of the
history and one that interrupts what repairs it.

**Fairness.** `Handoff`: per session, weak fairness of the handler once it has
the lock, of the reader, and of the app-server answering a request; and of a
running turn ending. Handlers and readers are goroutines that nothing suspends,
and each of their steps stays enabled until taken. Nothing is assumed at the lock
(`flock` polling promises no order), of Desktop sending requests, or of
failures. `Recovery`: the operation under way goes on, and Desktop sends another
request to the thread some day; without one nothing looks at the journal.
`WriterLock`: a process that has begun to acquire or to release goes on, and one
that waits in `flock` for the coordination file gets it if it is free again and
again (strong fairness); the kernel queues waiters, and the others only try.
`Requests`: each pump, the bridge and each internal call go on (weak fairness), and
the app-server reads and answers every request on a connection that stays open;
the deadline of an internal call is part of its own steps. Nothing is assumed of
Desktop, of peers or of connections failing. `LockFreed` needs the app-server's
answer or the end of the connection: `thread/resume` and an accepted turn have no
deadline.

## 4. What is proved

For every set of sessions and providers and every bound, from the two named
assumptions on the constants (`AppServerAssumption`: the markers are not members
of the sets they mark; `HandoffAssumption`: the types of the parameters):

- `LockProofs!TypeCorrect`: `Spec => []TypeOK`. The inductive invariant is
  `Shape == TypeOK /\ PassOK`: types alone do not say that `todo` is nonempty
  only in a pass or that only the passes with app-server calls wait at a peer,
  and `DoneAt[pc[s]]` is a label only for a pass.
- `LockProofs!OneOperation`: `Spec => []LockDiscipline`, and
  `LockProofs!FenceHeld`: `Spec => []FenceCoversAck`. `LockDiscipline` is not
  inductive: the reader gives the lock up when it hears the answer to a
  `turn/start`, so one must know that this answer belongs to the holder's turn.
  `LockInv == Shape /\ Serial /\ Channels` adds that an open session has at
  most one `turn/start` or answer in flight and then holds the fence, that a
  fence leaves the handler idle or queueing, and that a session that was never
  opened has empty channels.

- `LockProofs!Recoverable`: `Handoff` implements `ThreadFiles`, and
  `LockProofs!CrashLeavesTrace`: an archived thread has a journal and a pending
  journal has a marker, in every state. The refinement needs `LockInv`: two
  operations at once could clear each other's files, so the argument is that
  only the holder of the lock changes them. `FilesInv` adds what each stage of
  the holder's handler may rely on (from which label on the marker, and the
  journal, are there).
- `RecoveryProofs!AlwaysCovered`, `NeverRefused`, `AlwaysHidden` and
  `SubtreeRecoverable`: `Covered`, `JournalAccepted`, `MovesHidden` and
  `FilesRecoverable` of `Recovery`, for every tree of threads and every limit.
  `RecoveryInv == TypeOK /\ Journalled /\ Covered /\ Ahead /\ Marked /\ Isolated`:
  where in the transaction journal and memory agree, that memory covers what the
  next archive may take or the next save will drop, that the marker outlives the
  journal, and that between `begin` and `end` exactly the journal's threads are
  hidden. Assumption: `RecoveryAssumption` (finitely many threads, the root among
  them, a positive limit).
- `WriterLockProofs!WriterAlone`, `HolderIsNamed` and `LockRefinement`:
  `OneWriter`, `HolderNamed` and `ActsAsLock` for any processes and file numbers.
  `OneWriter` alone is not inductive; `LockInv` adds who has the coordination
  file at which label, that the flocked descriptors are exactly the holders', that
  an open lock file is the one the path names, and that nobody holds the lock
  when a release is about to unlink. Assumption: `LockAssumption`.

- `RequestsProofs!NeverClosedTwice`, `AnswersMatch`, `InternalStaysInternal`,
  `FenceHolds` and `SelectionFollows`: all five safety properties of `Requests`,
  for any number of requests and internal calls. `RequestsInv` says that a request is
  at one place at a time (`Places`), that what is on its way is in the map under
  an id of its own until `closeState` swaps it, and not yet settled (`Tables`), the
  same for internal calls (`Waiters`), that a handler holds the lock until it
  writes (`Fencing`), and that a settings update on its way has its handler
  waiting (`Saving`). None of the five is inductive alone: that the reader and
  `closeState` do not both close a channel rests on each taking the request out of
  the map first, and that on ids in the map being distinct. Assumption:
  `RequestsAssumption` (the sets are disjoint).
- `RegistryProofs!SomebodyOpens`, `PassesReachPeers` and `PassesSweep`: `OneGetsIn`,
  `PassComplete` and `DeadRemoved` for any sessions and any passes at once. The
  invariant says that a session that serves and was never refused is listed and
  listening, and that what a pass has to reach, or to sweep, it still has in
  `todo` or in its hands as long as no peer has failed. Both properties are about
  passes that succeed: a failed one may have left out any peer, dead or alive.
  Assumption: `RegistryAssumption`.

- `RolloutProofs!HistoryKept`, `AppendsStay`, `CertificatesTrue`, `LoadsClean` and
  `TypeCorrect`: all five invariants of `Rollout`, for any number of switchers,
  files, lines and failures. `RolloutInv` adds to `TypeOK` and `NothingLost`
  - `LockFacts`: at which labels a worker has the writer lock, and the
    maintenance lock;
  - `FileFacts`: files differ in `born`, only the app-server leaves one torn, and
    the one it has open is the one the path names;
  - `CopyFacts`: a staging file has the lines of what it was copied from, which
    cannot have changed because its maker has the writer lock;
  - `CleanFacts`: a certificate, saved or in somebody's memory, vouches for a
    beginning of the history that is clean. This survives every later step
    although certificates are read and written without a lock: appends leave the
    beginning alone, and a rewrite keeps its clean lines where they are
    (`SanitizedKeeps`). It is why a number given out again does no harm: the
    cursor may be applied to another file, but never to one whose beginning is dirty.

  Every step of a worker is quiet, makes a staging file, or changes a file
  (`Quiet`, `Makes`, `Changes`), and each invariant is shown once for these three
  and once for the app-server's steps. `LoadsClean` is about callers that prepared
  the history, every handoff among them; a `thread/resume` at `forward` is not
  (section 6). Assumption: `RolloutAssumption` (the names
  differ, at least one file and one line).

- `PeerProofs`: what the peers may rely on while another session's operation is
  under way. Four invariants, none of which is inductive without `LockInv`:
  - `CallsInvariance` (`CallsOK`): a session has at most one live message of each
    kind of call on its connection, and only while somebody waits for it. It is
    what makes "the answer that is heard" mean "the answer to what was asked
    last" in the three below, whatever timed out before.
  - `QuietInvariance` (`QuietInv`): between the idle answer and the end of the
    reconciliation, and between the inspection and the archive, no turn of an
    open session runs: a turn needs the fence, and the fence needs the lock.
    From it `ReconcileSafe` (`ReconcileOnlyWhenIdle`) and `TurnsSurviveRecovery`
    (`TurnNeverInterrupted`).
  - `SupInvariance` (`SupInv`): suppression implies a journal; at `archive` every
    open view has it, at `clearJournal` no session has it left, and during the
    passes in between those still to visit make up the difference. From it
    `SuppressionRemembered` (`SuppressionJournalled`) and `ArchiveIsHidden`
    (`ArchiveIsolated`). It needs `FilesInv`.
  - `MarkInvariance` (`MarkInv`): a session that is detached, or whose unsubscribe
    is still running, is open and the thread is marked, with the stage
    `prepared` until no unsubscribe runs any more; a resubscribing pass has every
    detached session still to visit, so at `clearDirty` there is none. From it
    `DetachedIsMarked` (`MarkedWhileDetached`).
- `ViewProofs!ViewsSubscribed`: `ViewsStaySubscribed`. A session learns of its own
  subscription late, from answers that may have crossed calls of a pass whose
  caller has given up, so the invariant `ViewInv` (theorem `ViewInvariance`) is
  about the order of the messages in the two channels of each session:
  - `Known`: a covered view that is not subscribed is marked, or its unsubscribe
    is still counted as one of a subscriber, or the answer that says so is on its way;
  - `Standing`: a resubscription whose answer will clear the mark still stands when
    it is heard, or the answer to what undid it follows it;
  - `Late`: an unsubscribe nobody waits for any more is covered by the mark, no
    answer to a resubscription is on its way, and every one asked for is behind it;
  - `Ordered`: no unsubscribe is sent while Desktop waits for a `thread/resume`;
  - `Gone` and `Leaving`: from the end of the unsubscribe pass to the archive every
    covered view knows that it has left, and no call of an earlier operation will
    bring it back. Without them the archive, which ends every subscription at
    once, would leave a view that takes itself for subscribed.

  `FreeOrder` to `DroppedOrder` say what sending, delivering, hearing and giving up
  do to that order, for any channel; `ViewSteps` says that a step leaves a session's
  view alone, sends on its connection, or is one of eight. With no marker there is no
  detached session and no unsubscribe (`MarkInv`), and `Known` leaves only the
  subscription.
- `ViewProofs!RoutesVerified` and `RouteSettled`: `VerifiedRuntime` and
  `SettledRoute`. Both come from what a session may know of the runtime's provider,
  `RouteInv` (theorem `RouteInvariance`). The app-server changes a runtime only when
  nobody is subscribed, so what one session knows depends on who else is:
  - outside the unsubscribe pass (the marker is not `prepared`) every open session is
    `Routed`: the route it has cached is the runtime's unless it is detached
    (`Settled`), answers that would teach it another come only behind the answer
    that makes it forget (`Fresh`), what it will be told of the runtime is true
    (`Told`), and what it learned while its Desktop waits is verified (`Guarded`);
  - during the pass those visited have no route and will learn none (`Emptied`),
    which includes that no resume of an earlier operation will come back with one,
    and the one being visited ends so (`Parting`). `GoneLabels` to the archive keep
    `Silent`. So when the last subscription goes and the provider may change, there
    is nobody whose knowledge could become false;
  - `Staged` ties the marker to the label and `Resolved` says that, from the
    verified resume on, the runtime has the target of the handoff.

  `RoutesVerified` then needs `MarkInv`: with no marker nobody is detached.
  For `RouteSettled`, `SentInv` (theorem `SentInvariance`) adds that the thread is
  unmarked from the decision to the answer, so no subscriber is taken away behind
  a message: the sender itself is one, and the runtime keeps its provider.
  The property excepts the repair of an `unsubscribed` marker, where the same
  statement (`NeverMisrouted`) is false: `det[s]` may have been lifted since the
  decision. That step of the proof fails for this reason, and TLC finds the trace,
  the finding `misrouted`.

The proofs in `LockProofs` have one lemma per action group:
most actions keep the lock and put no turn into a channel (`Keeps`,
`NoNewTurn`), and only a few need an argument of their own. `PeerProofs` turns
that around: its invariants speak of the label at which the lock's holder
stands, so it first says once for all actions which labels follow each other and
what a finished pass has done with its last peer (`Legal`, `LegalStep`), and then,
for each cache, which actions change it and how (`DetMoves`, `SupGain`,
`ViewGain`, `JobMoves` and the like). A preservation proof then splits on those
few moves instead of on forty actions.

Every invariant, action property and refinement of the passing runs is proved but
one. Only model-checked:

- `ChildrenFirst` of `Recovery`: it rests on `Depth`, a recursion over the tree
  that needs induction over data, which the installed provers cannot do.
- `LockReleased`, `Restored`, `ReleaseEnds`, `LockFreed`, `ShutdownEnds`: liveness
  is out of the prover's reach.

## 5. Plan

1. `thread/start` and `thread/fork` with the materialisation of fresh rollouts,
   beside `Handoff`.
2. The enumeration of the subtree (pages, cycles, order) against `Depth`.
3. Several context policies and fork ancestors in `Rollout`.

## 6. Findings

Five runs end in the violation of something the repository says of itself.

- `busy_after_ack` (`BusyAfterAck`). `handleUpstreamText` clears the active mark on
  any `turn/completed` of the thread (`session.go:1461-1464`), also on one of a
  peer's previous turn that is read after this session marked its own. The
  session then answers ready while its acknowledged turn runs;
  `docs/architecture.md:394` promises `busy`. The fence, the status read at the
  app-server and `TurnNeverInterrupted` show what still protects that turn.
- `archive_hidden` (`ArchiveHidden`). Suppression at a peer is lifted by a control
  request (`session.go:779`, `1667`) that may overtake the archive notification
  still unread on the peer's own connection, which then reaches Desktop.
- `views_lost` (`EveryViewSubscribed`; one provider, five events). A handoff is
  broken off after it has detached a peer. That peer's Desktop asks for
  `thread/unsubscribe`; the session clears its mark before it forwards the request
  (`session.go:273`), and the app-server refuses. The next turn finds the thread
  marked, takes the session for subscribed, removes the marker and runs without
  a subscriber: the Desktop that sent it sees none of its events.
- `whole_subtree` (`WholeSubtree`). Only the root's status is checked before the
  archive, so a descendant may spawn a thread after the enumeration: it is
  archived and no journal names it.

- `misrouted` (`NeverMisrouted`; six events). A message that finds an `unsubscribed`
  marker and a cached route equal to its target is let through after a repair that
  asks the detached sessions only (`session.go:375`, `425`, `1279`). The trace:
  1. session `c` switches the thread to `p2`; both sessions are unsubscribed and
     detached, and `c`'s `thread/resume` times out before the app-server serves it;
     so does the restoration of `c`. The marker stays at `unsubscribed`;
  2. session `s` sends a message for `p1`. It knows no route and lists `p1`, which the
     runtime still has (`session.go:1558` keeps it, although `s` is detached). Now the
     late resume is served and the runtime, which has no subscriber, becomes `p2`;
     the repair's own resume notices the mismatch, and the restoration of `s` runs
     out of time while its answer is on its way;
  3. `s` sends another message for `p1`. The cached route equals it, so a repair is
     chosen again; before its pass, the late answer of the restoration lifts the
     detachment and corrects the cache. The pass therefore asks nobody
     (`session.go:1279`), the marker is removed, and a turn decided for `p1` goes to
     a runtime of `p2`.

  `docs/architecture.md:279` restricts that repair to a "verified runtime provider".
  `RouteSettled` proves that it is the only way for a covered view: without a
  repair the runtime has the target. A resume of the sender itself before the marker is removed, or a
  second look at its cached route after the pass, would close it.

Two more things are worth knowing; no run is about them. `handleThreadResume` takes a
refused writer lock for none when the session has no effective provider
(`session.go:555-557`) and forwards the request with the history as it is, although
`docs/architecture.md:52` counts a held lock among what fails closed when changes
are required. When it is the app-server that holds the lock, the thread is loaded
and the history has been read already. But the lock is refused as well while
another switcher or maintenance has it, or while anybody has the coordination
file for a moment (`sanitize.go:634`), and then a thread that is not loaded is read
with lines its provider may not take. `Rollout` has this step (`Unprepared`), and
`HistoryClean` says what is left: a caller whose sanitation has succeeded loads no
such line.

The other: a socket that `net.Listen` has bound
refuses connections until it listens, and a pass that meets it there takes its
session for dead (`coordinator.go:549-553`) and removes the entry, maybe after the
session began to listen; no later pass visits that session. `PassComplete` holds for
every session that was not met in that window (`hasty` in `Registry`).

## 7. What is not modelled

Model routes, rewriting and the parsing of provider commands are pure functions
over JSON text and a catalog read at start; their effect on shared state is the
saved selection, which `Handoff` (providers) and `Requests` (a chosen model) have.
Responses to `thread/start` and `thread/fork` set caches of the session that
sent them and take no lock; the materialisation of a fresh rollout before its
first handoff is left out with them. Fork previews call a helper once per response. The wrapper, the
configuration and the deployment scripts run once, alone. The WebSocket upgrade,
dialing and close codes are I/O around `Open` and `Close`. What is left out of
the modelled components is named with each in section 2, and in `PROJECT.json`
under `components`.

