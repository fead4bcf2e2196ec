------------------------------- MODULE Rollout -------------------------------
(***************************************************************************)
(* The history file of one thread (a rollout): the app-server appends to   *)
(* it, switchers sanitize it before a handoff, guided by a certificate of  *)
(* an earlier scan, and history maintenance replaces it by a compressed    *)
(* file that a switcher later restores.  internal/rollout/sanitize.go,     *)
(* cache.go, compression.go and scripts/history-maintenance.py.  The       *)
(* writer lock is the one of ExclusiveLock, which WriterLock implements;   *)
(* scans and certificates take no lock.                                    *)
(***************************************************************************)
EXTENDS Naturals, Sequences

CONSTANTS Switcher, Maintainer, Server, Nobody,
          MaxFiles,    \* bound: files created
          MaxLines,    \* bound: lines in the history
          MaxFaults    \* bound: failed calls, deaths

ASSUME RolloutAssumption ==
  /\ {Maintainer, Server, Nobody} \cap Switcher = {}
  /\ Maintainer # Server /\ Nobody \notin {Maintainer, Server}
  /\ MaxFiles \in Nat \ {0} /\ MaxLines \in Nat \ {0} /\ MaxFaults \in Nat

VARIABLES plain,        \* rollout-*.jsonl
          zst,          \* rollout-*.jsonl.zst
          certificate,  \* the .sanitized file
          holder,       \* of the thread's writer lock
          maint,        \* holder of rollout-maintenance.lock
          cold,         \* nobody has used the history for 30 days
          writing,      \* the file the app-server appends to
          pc, seen, card, tmp,   \* per switcher and maintainer: next step, stamp, certificate, new file
          since,        \* history: lines appended since the switcher began
          said,         \* history: lines ever written
          born,         \* files created so far
          faults

locks == <<holder, maint>>
mine == <<seen, card, tmp>>
ghosts == <<said, born>>
vars == <<plain, zst, certificate, locks, cold, writing, pc, mine, since, ghosts, faults>>

Worker == Switcher \cup {Maintainer}

Wl == INSTANCE ExclusiveLock WITH Process <- Worker \cup {Server}, holder <- holder

(* Lines: sanitation leaves a text alone and edits the others in place, like *)
(* a stale id that is stripped or reasoning, bound to a provider, that       *)
(* becomes a placeholder.                                                    *)
Kinds == {"text", "edited"}
Dirty == {"edited"}

(* A file, with the state of its last line: torn while part of the record is *)
(* missing, open while only its newline is.                                  *)
NoFile == [born |-> 0, ino |-> 0, lines |-> <<>>, tail |-> "whole"]
Exists(f) == f # NoFile

(* sanitationStamp and sanitationIdentity: device and inode alone identify   *)
(* the file; size, mtime and ctime tell one of its versions from another.    *)
Stamp(f) == [born |-> f.born, ino |-> f.ino, size |-> Len(f.lines), tail |-> f.tail]
Identity(f) == f.ino

Certified(f) == [stamp |-> Stamp(f), ino |-> Identity(f),
                 size |-> Len(f.lines), whole |-> f.tail = "whole"]
NoCertificate == Certified(NoFile)

(* inspectSanitation: the lines a saved cursor lets the scan skip.           *)
Cursor(c, f) ==
  IF c.ino = Identity(f) /\ c.whole /\ 0 < c.size /\ c.size < Len(f.lines) THEN c.size ELSE 0

Torn(f) == f.tail = "torn"
(* How many records of a file are complete.                                  *)
Complete(f) == IF Torn(f) THEN Len(f.lines) - 1 ELSE Len(f.lines)
DirtyAfter(f, from) == \E i \in from + 1 .. Complete(f) : f.lines[i] \in Dirty

(* Every line is there, in the order it had, and clean.                      *)
Sanitized(q) == [i \in DOMAIN q |-> "text"]

(* The app-server and ResolvePath read the plain file when there is one.     *)
Resolved == IF Exists(plain) THEN plain ELSE zst

Labels == {"idle", "resolve", "compressed", "maintain", "claim", "restore", "link", "unlinkZst",
           "stat", "cached", "scan", "certify", "lock", "rewrite", "publish", "done",
           "forward", "shut", "encode", "linkZst", "settle", "drop"}

Init ==
  /\ plain = [born |-> 1, ino |-> 1, lines |-> <<"text">>, tail |-> "whole"]
  /\ zst = NoFile
  /\ certificate = NoCertificate
  /\ holder = Nobody /\ maint = Nobody
  /\ cold = FALSE
  /\ writing = 0
  /\ pc = [w \in Worker |-> "idle"]
  /\ seen = [w \in Worker |-> Stamp(NoFile)]
  /\ card = [w \in Worker |-> NoCertificate]
  /\ tmp = [w \in Worker |-> NoFile]
  /\ since = [s \in Switcher |-> 0]
  /\ said = Len(plain.lines)
  /\ born = 1
  /\ faults = 0

-----------------------------------------------------------------------------

NoFault == UNCHANGED faults
Fault == faults < MaxFaults /\ faults' = faults + 1

At(w, label) == pc[w] = label
Goto(w, label) ==
  /\ pc' = [pc EXCEPT ![w] = label]
  /\ since' = [s \in Switcher |-> IF s = w /\ label = "idle" THEN 0 ELSE since[s]]
See(w, f) == seen' = [seen EXCEPT ![w] = Stamp(f)]

(* os.CreateTemp with these contents; past the bound it fails, as it does    *)
(* when the disk is full.  A file number is given out again as soon as       *)
(* nothing has it any more.                                                  *)
Full == born = MaxFiles
InUse == {plain.ino, zst.ino} \cup {tmp[w].ino : w \in Worker}
FreeNumber == CHOOSE n \in (1..MaxFiles) \ InUse : \A m \in (1..MaxFiles) \ InUse : n <= m
Create(w, q, end) ==
  /\ ~Full /\ born' = born + 1
  /\ tmp' = [tmp EXCEPT ![w] = [born |-> born + 1, ino |-> FreeNumber,
                                lines |-> q, tail |-> end]]

(* Both locks are given up by deferred calls, as is the temporary file; what *)
(* a function remembered ends with it.                                       *)
Free(w) ==
  /\ holder' = IF holder = w THEN Nobody ELSE holder
  /\ maint' = IF maint = w THEN Nobody ELSE maint
KeepStaging(w) ==
  /\ seen' = [seen EXCEPT ![w] = Stamp(NoFile)]
  /\ card' = [card EXCEPT ![w] = NoCertificate]
  /\ UNCHANGED tmp
Forget(w) ==
  /\ seen' = [seen EXCEPT ![w] = Stamp(NoFile)]
  /\ card' = [card EXCEPT ![w] = NoCertificate]
  /\ tmp' = [tmp EXCEPT ![w] = NoFile]
Return(w, to) == Free(w) /\ Forget(w) /\ Goto(w, to)
Quit(w) == Return(w, "idle")

(* The lock may also be refused while somebody only asks for it.             *)
Barge(w, then) == Goto(w, then) /\ UNCHANGED <<locks, mine>>
Claim(w, then) ==
  \/ Wl!Take(w) /\ Goto(w, then) /\ UNCHANGED <<maint, mine>>
  \/ Quit(w)

(* A thread/resume of a session that has no effective provider is forwarded  *)
(* all the same when the lock is refused; everybody else quits.              *)
Unprepared(s) == Return(s, "forward")

(* Thirty days pass; no handoff and no maintenance run takes that long.      *)
Age ==
  /\ \A w \in Worker : At(w, "idle")
  /\ cold' = TRUE
  /\ UNCHANGED <<plain, zst, certificate, locks, writing, pc, mine, since, ghosts, faults>>

-----------------------------------------------------------------------------
(* A switcher: PreparePlain ... *)

(* A request is noted, best effort, when it comes in.  A thread/resume does   *)
(* not look at the history when the runtime is listed with its provider      *)
(* already, unless that is openai; a handoff always does.                    *)
Begin(s) ==
  /\ At(s, "idle") /\ (Goto(s, "resolve") \/ Goto(s, "forward"))
  /\ (NoFault /\ cold' = FALSE) \/ (Fault /\ UNCHANGED cold)
  /\ UNCHANGED <<plain, zst, certificate, locks, writing, mine, ghosts>>

(* ResolvePath looks at the plain file first, and once more before it        *)
(* settles for the compressed one.                                           *)
Resolve(s) ==
  /\ At(s, "resolve")
  /\ Goto(s, IF Exists(plain) THEN "stat" ELSE "compressed")
  /\ UNCHANGED <<plain, zst, certificate, locks, cold, writing, mine, ghosts, faults>>

Compressed(s) ==
  /\ At(s, "compressed")
  /\ Goto(s, IF ~Exists(plain) /\ Exists(zst) THEN "maintain" ELSE "idle")
  /\ UNCHANGED <<plain, zst, certificate, locks, cold, writing, mine, ghosts, faults>>

Maintain(s) ==
  /\ At(s, "maintain")
  /\ \/ maint = Nobody /\ maint' = s /\ Goto(s, "claim")
     \/ maint # Nobody /\ UNCHANGED maint /\ Goto(s, "idle")
  /\ UNCHANGED <<plain, zst, certificate, holder, cold, writing, mine, ghosts, faults>>

ClaimRestore(s) ==
  /\ At(s, "claim") /\ (Claim(s, "restore") \/ Unprepared(s))
  /\ UNCHANGED <<plain, zst, certificate, cold, writing, ghosts, faults>>

Restore(s) ==
  /\ At(s, "restore")
  /\ \/ NoFault /\ Exists(plain) /\ Return(s, "stat") /\ UNCHANGED born
     \/ /\ NoFault /\ ~Exists(plain) /\ Exists(zst)
        /\ See(s, zst) /\ Create(s, zst.lines, zst.tail)
        /\ Goto(s, "link") /\ UNCHANGED <<locks, card>>
     \/ (Fault \/ (NoFault /\ (Full \/ ~Exists(Resolved)))) /\ Quit(s) /\ UNCHANGED born
  /\ UNCHANGED <<plain, zst, certificate, cold, writing, said>>

(* os.Link does not replace; a directory that cannot be synced ends it.      *)
Link(s) ==
  /\ At(s, "link")
  /\ LET may == Stamp(zst) = seen[s] /\ ~Exists(plain) IN
       \/ NoFault /\ may /\ plain' = tmp[s]
          /\ Forget(s) /\ Goto(s, "unlinkZst") /\ UNCHANGED locks
       \/ NoFault /\ ~may /\ UNCHANGED plain /\ Quit(s)
       \/ Fault /\ may /\ plain' = tmp[s] /\ Quit(s)
  /\ UNCHANGED <<zst, certificate, cold, writing, ghosts>>

UnlinkZst(s) ==
  /\ At(s, "unlinkZst")
  /\ \/ NoFault /\ zst' = NoFile /\ Return(s, "stat")
     \/ Fault /\ zst' = NoFile /\ Quit(s)
  /\ UNCHANGED <<plain, certificate, cold, writing, ghosts>>

(* ... then SanitizeFile *)

Stat(s) ==
  /\ At(s, "stat")
  /\ IF Exists(plain) THEN See(s, plain) /\ Goto(s, "cached") ELSE Goto(s, "idle") /\ UNCHANGED seen
  /\ UNCHANGED <<plain, zst, certificate, locks, cold, writing, card, tmp, ghosts, faults>>

Cached(s) ==
  /\ At(s, "cached")
  /\ IF certificate.stamp = seen[s] /\ Stamp(plain) = seen[s]
     THEN Return(s, "done")
     ELSE /\ card' = [card EXCEPT ![s] = certificate]
          /\ Goto(s, "scan") /\ UNCHANGED <<locks, seen, tmp>>
  /\ UNCHANGED <<plain, zst, certificate, cold, writing, ghosts, faults>>

(* The scan stops at the first line to edit; an incomplete last record makes *)
(* it fail.  What is there when the file is opened does not change later.    *)
Scan(s) ==
  /\ At(s, "scan")
  /\ LET dirty == DirtyAfter(plain, Cursor(card[s], plain)) IN
       \/ Exists(plain) /\ dirty /\ Return(s, "lock")
       \/ /\ Exists(plain) /\ ~dirty /\ ~Torn(plain)
          /\ card' = [card EXCEPT ![s] = Certified(plain)]
          /\ Goto(s, "certify") /\ UNCHANGED <<locks, seen, tmp>>
       \/ (~Exists(plain) \/ (~dirty /\ Torn(plain))) /\ Quit(s)
  /\ UNCHANGED <<plain, zst, certificate, cold, writing, ghosts, faults>>

(* Bytes appended while the inspection ran are never certified; writing the  *)
(* certificate is best effort.                                               *)
RememberedAfter(s) == {certificate, Certified(plain)}
Remembered(s) ==
  IF Stamp(plain) = seen[s] THEN {certificate, card[s]} ELSE {certificate}

Certify(s) ==
  /\ At(s, "certify") /\ Return(s, "done") /\ certificate' \in Remembered(s)
  /\ UNCHANGED <<plain, zst, cold, writing, ghosts, faults>>

ClaimRewrite(s) ==
  /\ At(s, "lock") /\ (Claim(s, "rewrite") \/ Unprepared(s))
  /\ UNCHANGED <<plain, zst, certificate, cold, writing, ghosts, faults>>

Rewrite(s) ==
  /\ At(s, "rewrite")
  /\ LET readable == Exists(plain) /\ ~Torn(plain) IN
       \/ /\ NoFault /\ readable /\ DirtyAfter(plain, 0)
          /\ Create(s, Sanitized(plain.lines), plain.tail)
          /\ Goto(s, "publish") /\ UNCHANGED <<locks, seen, card>>
       \/ NoFault /\ readable /\ ~DirtyAfter(plain, 0) /\ Return(s, "done") /\ UNCHANGED born
       \/ (Fault \/ (NoFault /\ (Full \/ ~readable))) /\ Quit(s) /\ UNCHANGED born
  /\ UNCHANGED <<plain, zst, certificate, cold, writing, said>>

(* os.Rename; the directory may fail to sync.                                *)
Publish(s) ==
  /\ At(s, "publish") /\ plain' = tmp[s]
  /\ (NoFault /\ Return(s, "done")) \/ (Fault /\ Quit(s))
  /\ UNCHANGED <<zst, certificate, cold, writing, ghosts>>

(* The thread is loaded with the history as it is.                           *)
Report(s) ==
  /\ pc[s] \in {"done", "forward"} /\ Goto(s, "idle")
  /\ UNCHANGED <<plain, zst, certificate, locks, cold, writing, mine, ghosts, faults>>

-----------------------------------------------------------------------------
(* History maintenance: compress_one *)

StartMaintenance ==
  /\ At(Maintainer, "idle") /\ maint = Nobody
  /\ maint' = Maintainer /\ Goto(Maintainer, "shut")
  /\ UNCHANGED <<plain, zst, certificate, holder, cold, writing, mine, ghosts, faults>>

ClaimCompress ==
  /\ At(Maintainer, "shut") /\ Claim(Maintainer, "encode")
  /\ UNCHANGED <<plain, zst, certificate, cold, writing, ghosts, faults>>

Eligible == Exists(plain) /\ ~Exists(zst) /\ cold

Encode ==
  /\ At(Maintainer, "encode")
  /\ \/ /\ Eligible /\ See(Maintainer, plain)
        /\ Create(Maintainer, plain.lines, plain.tail)
        /\ Goto(Maintainer, "linkZst") /\ UNCHANGED <<locks, card>>
     \/ (~Eligible \/ Full) /\ Quit(Maintainer) /\ UNCHANGED born
  /\ UNCHANGED <<plain, zst, certificate, cold, writing, said, faults>>

(* Neither the file nor its use has changed since it was encoded.            *)
Untouched == Stamp(plain) = seen[Maintainer] /\ cold

LinkZst ==
  /\ At(Maintainer, "linkZst")
  /\ \/ /\ Untouched /\ ~Exists(zst) /\ zst' = tmp[Maintainer]
        /\ tmp' = [tmp EXCEPT ![Maintainer] = NoFile]
        /\ Goto(Maintainer, "settle") /\ UNCHANGED <<locks, seen, card>>
     \/ ~(Untouched /\ ~Exists(zst)) /\ Quit(Maintainer) /\ UNCHANGED zst
  /\ UNCHANGED <<plain, certificate, cold, writing, ghosts, faults>>

Settle ==
  /\ At(Maintainer, "settle")
  /\ \/ Untouched /\ Goto(Maintainer, "drop") /\ UNCHANGED <<zst, locks, mine>>
     \/ ~Untouched /\ zst' = NoFile /\ Quit(Maintainer)
  /\ UNCHANGED <<plain, certificate, cold, writing, ghosts, faults>>

DropPlain ==
  /\ At(Maintainer, "drop") /\ plain' = NoFile /\ Quit(Maintainer)
  /\ UNCHANGED <<zst, certificate, cold, writing, ghosts, faults>>

-----------------------------------------------------------------------------

(* A worker dies in the middle: its locks go, and a staging file it may leave *)
(* is not looked at again.                                                   *)
Die(w) ==
  /\ ~At(w, "idle") /\ Fault /\ Quit(w)
  /\ UNCHANGED <<plain, zst, certificate, cold, writing, ghosts>>

(* The app-server appends whole records under the writer lock.               *)
ServerOpen ==
  /\ Exists(plain) /\ Wl!Take(Server)
  /\ writing' = plain.born /\ cold' = FALSE
  /\ UNCHANGED <<plain, zst, certificate, maint, pc, mine, since, ghosts, faults>>

ServerAppend(k) ==
  /\ holder = Server /\ plain.tail = "whole" /\ Len(plain.lines) < MaxLines
  /\ plain' = IF plain.born = writing
              THEN [plain EXCEPT !.lines = Append(@, k), !.tail = "torn"] ELSE plain
  /\ said' = said + 1
  /\ since' = [s \in Switcher |-> IF At(s, "idle") THEN 0 ELSE since[s] + 1]
  /\ cold' = FALSE
  /\ UNCHANGED <<zst, certificate, locks, writing, pc, mine, born, faults>>

ServerGoesOn ==
  /\ holder = Server /\ plain.tail # "whole"
  /\ plain' \in {[plain EXCEPT !.tail = t] :
                   t \in IF Torn(plain) THEN {"open", "whole"} ELSE {"whole"}}
  /\ UNCHANGED <<zst, certificate, locks, cold, writing, pc, mine, since, ghosts, faults>>

ServerClose ==
  /\ plain.tail = "whole" /\ Wl!Give(Server) /\ writing' = 0
  /\ UNCHANGED <<plain, zst, certificate, maint, cold, pc, mine, since, ghosts, faults>>

SwitcherStep(s) ==
  \/ Begin(s) \/ Resolve(s) \/ Compressed(s) \/ Maintain(s) \/ ClaimRestore(s)
  \/ Restore(s) \/ Link(s) \/ UnlinkZst(s) \/ Stat(s) \/ Cached(s) \/ Scan(s)
  \/ Certify(s) \/ ClaimRewrite(s) \/ Rewrite(s) \/ Publish(s) \/ Report(s)

MaintenanceStep ==
  StartMaintenance \/ ClaimCompress \/ Encode \/ LinkZst \/ Settle \/ DropPlain \/ Age

ServerStep == ServerOpen \/ (\E k \in Kinds : ServerAppend(k)) \/ ServerGoesOn \/ ServerClose

Next ==
  \/ \E s \in Switcher : SwitcherStep(s)
  \/ MaintenanceStep
  \/ ServerStep
  \/ \E w \in Worker : Die(w)

Spec == Init /\ [][Next]_vars

-----------------------------------------------------------------------------

Tails == {"torn", "open", "whole"}
Stamps == [born : 0..MaxFiles, ino : 0..MaxFiles, size : 0..MaxLines, tail : Tails]
Files == [born : 0..MaxFiles, ino : 0..MaxFiles, lines : Seq(Kinds), tail : Tails]
Certificates == [stamp : Stamps, ino : 0..MaxFiles, size : 0..MaxLines, whole : BOOLEAN]

(* Types, and that a staging file never outlives the function that made it.  *)
TypeOK ==
  /\ plain \in Files /\ zst \in Files /\ tmp \in [Worker -> Files]
  /\ \A f \in {plain, zst} \cup {tmp[w] : w \in Worker} : Len(f.lines) <= MaxLines
  /\ certificate \in Certificates /\ card \in [Worker -> Certificates]
  /\ seen \in [Worker -> Stamps] /\ since \in [Switcher -> Nat]
  /\ holder \in Worker \cup {Server, Nobody} /\ maint \in Worker \cup {Nobody}
  /\ cold \in BOOLEAN /\ writing \in 0..MaxFiles
  /\ pc \in [Worker -> Labels]
  /\ \A w \in Worker : Exists(tmp[w]) => pc[w] \in {"link", "publish", "linkZst"}
  /\ said \in Nat /\ born \in 1..MaxFiles /\ faults \in 0..MaxFaults

(* Whoever reads the history finds every line that was ever written, in the  *)
(* plain file or, without one, in the compressed file: no rewrite, restore,  *)
(* compression, failure or death loses a line or brings back an older        *)
(* version.                                                                  *)
NothingLost == Len(Resolved.lines) = said

(* The app-server never appends to a file that the path no longer names.     *)
AppendsLand == holder = Server => plain.born = writing

(* A certificate that matches the file speaks the truth: neither a skipped   *)
(* scan nor a skipped prefix hides a line that has to be edited.             *)
CertificateSound ==
  Exists(plain) =>
    /\ certificate.stamp = Stamp(plain) => ~DirtyAfter(plain, 0) /\ ~Torn(plain)
    /\ \A i \in 1 .. Cursor(certificate, plain) : plain.lines[i] \notin Dirty

(* When sanitation has succeeded and its caller goes on to load the thread,  *)
(* no line that was there when it began is one the target provider would     *)
(* refuse.  Every handoff loads a thread so; a thread/resume that forwards    *)
(* the history unprepared promises nothing (handleThreadResume,              *)
(* sanitizeThreadRollout).                                                   *)
HistoryClean ==
  \A s \in Switcher : At(s, "done") =>
    \A i \in 1 .. Len(Resolved.lines) - since[s] : Resolved.lines[i] \notin Dirty
=============================================================================
