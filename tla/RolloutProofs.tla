---------------------------- MODULE RolloutProofs ----------------------------
(***************************************************************************)
(* The history of one thread is never shortened, appended to in vain or    *)
(* taken for clean when it is not, for any number of switchers, files,     *)
(* lines and failures.                                                     *)
(*                                                                         *)
(* None of these is inductive: a new file is right because of what it was  *)
(* copied from (CopyFacts), and that has not changed because its maker has *)
(* the writer lock (LockFacts).  A certificate stays true of every later   *)
(* version of the history, the rewritten ones included, because clean      *)
(* lines at its beginning are kept where they are (CleanFacts).            *)
(***************************************************************************)
EXTENDS Rollout, TLAPS

(* Where a worker holds the writer lock, and where the maintenance lock.     *)
Writers == {"restore", "link", "unlinkZst", "rewrite", "publish",
            "encode", "linkZst", "settle", "drop"}
Keepers == {"claim", "restore", "link", "unlinkZst", "shut", "encode", "linkZst", "settle", "drop"}
Maintenance == {"shut", "encode", "linkZst", "settle", "drop"}

LockFacts ==
  /\ \A w \in Worker : pc[w] \in Writers => holder = w
  /\ \A w \in Worker : pc[w] \in Keepers => maint = w
  /\ pc[Maintainer] \in Maintenance \cup {"idle"}
  /\ \A s \in Switcher : pc[s] \notin Maintenance
  /\ \A w \in Worker : pc[w] = "cached" => seen[w].born # 0

(* Files have numbers of their own, and only the app-server leaves one torn. *)
Numbered(f) == f.born <= born /\ (Exists(f) => f.born # 0)

FileFacts ==
  /\ Numbered(plain) /\ Numbered(zst)
  /\ Exists(plain) /\ Exists(zst) => plain.born # zst.born
  /\ \A w \in Worker : /\ Numbered(tmp[w]) /\ tmp[w].tail = "whole"
                       /\ Exists(tmp[w]) => tmp[w].born \notin {plain.born, zst.born}
  /\ zst.tail = "whole"
  /\ holder # Server => plain.tail = "whole"
  /\ holder = Server => Exists(plain) /\ plain.born = writing

(* What a new file is a copy of.                                             *)
CopyFacts ==
  /\ Exists(plain) \/ Exists(zst)
  /\ \A w \in Worker :
     /\ pc[w] = "link" => ~Exists(plain) /\ Exists(tmp[w]) /\ tmp[w].lines = zst.lines
     /\ pc[w] \in {"unlinkZst", "publish"} => Exists(plain)
     /\ pc[w] = "publish" => Exists(tmp[w]) /\ tmp[w].lines = Sanitized(plain.lines)
     /\ pc[w] = "linkZst" => Exists(plain) /\ Exists(tmp[w]) /\ tmp[w].lines = plain.lines
     /\ pc[w] \in {"settle", "drop"} => Exists(plain) /\ Exists(zst) /\ zst.lines = plain.lines

(* The first n lines of the history are there, and clean.                    *)
CleanTo(n) ==
  n <= Len(Resolved.lines) /\ \A i \in 1..n : Resolved.lines[i] \notin Dirty

Vouched(c) == c.size = c.stamp.size /\ c.stamp.tail # "torn" /\ CleanTo(c.size)

CleanFacts ==
  /\ Vouched(certificate)
  /\ \A w \in Worker : Vouched(card[w])
  /\ \A s \in Switcher : pc[s] \in {"certify", "done"} =>
       \A i \in 1 .. Len(Resolved.lines) - since[s] : Resolved.lines[i] \notin Dirty

-----------------------------------------------------------------------------
(* Lines and files *)

(* What sanitation keeps: every line, at its place.                          *)
LEMMA SanitizedKeeps ==
  ASSUME NEW q \in Seq(Kinds)
  PROVE  /\ Sanitized(q) \in Seq(Kinds) /\ Len(Sanitized(q)) = Len(q) /\ Len(q) \in Nat
         /\ \A i \in 1..Len(q) : Sanitized(q)[i] \notin Dirty
<1>1. DOMAIN q = 1..Len(q) /\ Len(q) \in Nat
  OBVIOUS
<1>2. Sanitized(q) = [i \in 1..Len(q) |-> "text"]
  BY <1>1 DEF Sanitized
<1> QED
  BY <1>1, <1>2 DEF Kinds, Dirty

-----------------------------------------------------------------------------
(* What a step of a worker is *)

RolloutInv == TypeOK /\ LockFacts /\ FileFacts /\ CopyFacts /\ NothingLost /\ CleanFacts

(* Only w moves: it takes a lock that is free, or gives its own up.          *)
Takes(w, was, is) == is = was \/ (was = Nobody /\ is = w) \/ (was = w /\ is = Nobody)

Moves(w) ==
  /\ pc' \in [Worker -> Labels] /\ since' \in [Switcher -> Nat]
  /\ seen' \in [Worker -> Stamps] /\ card' \in [Worker -> Certificates]
  /\ tmp' \in [Worker -> Files]
  /\ \A v \in Worker \ {w} : /\ pc'[v] = pc[v] /\ seen'[v] = seen[v]
                             /\ card'[v] = card[v] /\ tmp'[v] = tmp[v]
  /\ \A s \in Switcher : pc'[s] # "idle" => since'[s] = since[s]
  /\ Takes(w, holder, holder') /\ Takes(w, maint, maint')

(* Where it stands has what LockFacts says of it.                            *)
Stands(w) ==
  /\ pc'[w] \in Writers => holder' = w
  /\ pc'[w] \in Keepers => maint' = w
  /\ w = Maintainer => pc'[w] \in Maintenance \cup {"idle"}
  /\ w \in Switcher => pc'[w] \notin Maintenance
  /\ pc'[w] = "cached" => seen'[w].born # 0
  /\ Exists(tmp'[w]) => pc'[w] \in {"link", "publish", "linkZst"}

(* What it remembers, and what it goes on to, is true of the history.        *)
Remembers(w) ==
  /\ Vouched(certificate')
  /\ Vouched(card'[w])
  /\ w \in Switcher /\ pc'[w] \in {"certify", "done"} =>
       \A i \in 1 .. Len(Resolved'.lines) - since'[w] : Resolved'.lines[i] \notin Dirty

Steps(w) ==
  /\ Moves(w) /\ Stands(w) /\ Remembers(w)
  /\ certificate' \in Certificates /\ cold' \in BOOLEAN /\ faults' \in 0..MaxFaults
  /\ UNCHANGED <<writing, said>>

(* It leaves the files alone and makes none.                                 *)
Quiet(w) ==
  /\ Steps(w)
  /\ UNCHANGED <<plain, zst, born>>
  /\ tmp'[w] \in {tmp[w], NoFile}
  /\ pc'[w] \notin {"link", "unlinkZst", "publish", "linkZst", "settle"}
  /\ pc'[w] = "drop" => pc[w] = "settle"

-----------------------------------------------------------------------------
(* The parts of a step *)

LEMMA NoFileTyped ==
  /\ NoFile \in Files /\ Stamp(NoFile) \in Stamps /\ NoCertificate \in Certificates
  /\ ~Exists(NoFile) /\ NoFile.born = 0 /\ NoFile.ino = 0 /\ NoFile.tail = "whole"
  /\ Len(NoFile.lines) = 0 /\ Stamp(NoFile).born = 0
<1>1. NoFile.lines \in Seq(Kinds) /\ Len(NoFile.lines) = 0
  BY DEF NoFile
<1>2. 0 \in 0..MaxFiles /\ 0 \in 0..MaxLines
  BY RolloutAssumption
<1>3. NoFile \in Files
  BY <1>1, <1>2 DEF NoFile, Files, Tails
<1>4. Stamp(NoFile) \in Stamps
  BY <1>1, <1>2 DEF NoFile, Stamp, Stamps, Tails
<1>5. NoCertificate \in Certificates
  BY <1>1, <1>2, <1>4 DEF NoFile, NoCertificate, Certified, Certificates, Identity
<1> QED
  BY <1>1, <1>3, <1>4, <1>5 DEF NoFile, Exists, Stamp

LEMMA StampTyped ==
  ASSUME NEW f \in Files, Len(f.lines) <= MaxLines
  PROVE  Stamp(f) \in Stamps /\ Certified(f) \in Certificates
<1>1. /\ f.born \in 0..MaxFiles /\ f.ino \in 0..MaxFiles /\ f.lines \in Seq(Kinds)
      /\ f.tail \in Tails
  BY DEF Files
<1>2. Len(f.lines) \in 0..MaxLines
  BY <1>1, RolloutAssumption
<1>3. Stamp(f) \in Stamps
  BY <1>1, <1>2 DEF Stamp, Stamps
<1> QED
  BY <1>1, <1>2, <1>3 DEF Certified, Certificates, Identity

LEMMA Goes ==
  ASSUME TypeOK, NEW w \in Worker, NEW label \in Labels, Goto(w, label)
  PROVE  /\ pc' \in [Worker -> Labels] /\ since' \in [Switcher -> Nat]
         /\ pc'[w] = label /\ \A v \in Worker \ {w} : pc'[v] = pc[v]
         /\ \A s \in Switcher : pc'[s] # "idle" => since'[s] = since[s]
<1>1. pc \in [Worker -> Labels] /\ since \in [Switcher -> Nat]
  BY DEF TypeOK
<1>2. pc' \in [Worker -> Labels] /\ pc'[w] = label /\ \A v \in Worker \ {w} : pc'[v] = pc[v]
  BY <1>1 DEF Goto
<1>3. since' \in [Switcher -> Nat]
  BY <1>1 DEF Goto
<1>4. \A s \in Switcher : pc'[s] # "idle" => since'[s] = since[s]
  BY <1>1, <1>2 DEF Goto
<1> QED
  BY <1>2, <1>3, <1>4

LEMMA Roles ==
  /\ Switcher \subseteq Worker /\ Maintainer \in Worker /\ Maintainer \notin Switcher
  /\ Server \notin Worker /\ Nobody \notin Worker /\ Server # Nobody
BY RolloutAssumption DEF Worker

(* A step that goes on and keeps its locks and what it remembers.            *)
LEMMA GoesOn ==
  ASSUME TypeOK, LockFacts, NEW w \in Worker, NEW label \in Labels,
         Goto(w, label), UNCHANGED <<locks, mine>>
  PROVE  Moves(w) /\ pc'[w] = label /\ UNCHANGED <<holder, maint, seen, card, tmp>>
<1>1. UNCHANGED <<holder, maint, seen, card, tmp>>
  BY DEF locks, mine
<1> QED
  BY <1>1, Goes DEF Moves, Takes, TypeOK

LEMMA Forgets ==
  ASSUME TypeOK, NEW w \in Worker, Forget(w)
  PROVE  /\ seen' \in [Worker -> Stamps] /\ card' \in [Worker -> Certificates]
         /\ tmp' \in [Worker -> Files] /\ tmp'[w] = NoFile /\ card'[w] = NoCertificate
         /\ \A v \in Worker \ {w} : seen'[v] = seen[v] /\ card'[v] = card[v] /\ tmp'[v] = tmp[v]
<1>1. /\ seen \in [Worker -> Stamps] /\ card \in [Worker -> Certificates]
      /\ tmp \in [Worker -> Files]
  BY DEF TypeOK
<1> QED
  BY <1>1, NoFileTyped DEF Forget

(* A step that returns gives up its locks and forgets.                       *)
LEMMA Returns ==
  ASSUME TypeOK, NEW w \in Worker, NEW label \in Labels, Return(w, label)
  PROVE  /\ Moves(w) /\ pc'[w] = label /\ holder' # w /\ maint' # w
         /\ tmp'[w] = NoFile /\ card'[w] = NoCertificate
<1>1. Goto(w, label) /\ Forget(w)
  BY DEF Return
<1>2. /\ seen' \in [Worker -> Stamps] /\ card' \in [Worker -> Certificates]
      /\ tmp' \in [Worker -> Files] /\ tmp'[w] = NoFile /\ card'[w] = NoCertificate
      /\ \A v \in Worker \ {w} : seen'[v] = seen[v] /\ card'[v] = card[v] /\ tmp'[v] = tmp[v]
  BY <1>1, Forgets
<1>3. /\ Takes(w, holder, holder') /\ Takes(w, maint, maint')
      /\ holder' # w /\ maint' # w
  BY Roles DEF Return, Free, Takes
<1> QED
  BY <1>1, <1>2, <1>3, Goes DEF Moves

(* A worker that asks for the writer lock gets it or returns.                *)
LEMMA Claims ==
  ASSUME TypeOK, NEW w \in Worker, NEW label \in Labels, Claim(w, label)
  PROVE  \/ /\ Moves(w) /\ pc'[w] = label /\ holder' = w
            /\ UNCHANGED <<maint, seen, card, tmp>>
         \/ Return(w, "idle")
<1>1. CASE Wl!Take(w) /\ Goto(w, label) /\ UNCHANGED <<maint, mine>>
  <2>1. UNCHANGED <<maint, seen, card, tmp>> /\ holder = Nobody /\ holder' = w
    BY <1>1 DEF mine, Wl!Take
  <2> QED
    BY <1>1, <2>1, Goes DEF Moves, Takes, TypeOK
<1>2. CASE Quit(w)
  BY <1>2 DEF Quit
<1> QED
  BY <1>1, <1>2 DEF Claim

-----------------------------------------------------------------------------
(* Steps that leave the files alone *)

LEMMA ResolvedTyped ==
  ASSUME TypeOK
  PROVE  /\ Resolved \in Files /\ Resolved.lines \in Seq(Kinds)
         /\ Len(Resolved.lines) \in Nat /\ Len(Resolved.lines) <= MaxLines
<1>1. plain \in Files /\ zst \in Files /\ Len(plain.lines) <= MaxLines /\ Len(zst.lines) <= MaxLines
  BY DEF TypeOK
<1>2. Resolved \in Files /\ Len(Resolved.lines) <= MaxLines
  BY <1>1 DEF Resolved
<1>3. Resolved.lines \in Seq(Kinds)
  BY <1>2 DEF Files
<1> QED
  BY <1>2, <1>3

LEMMA VouchedNone ==
  ASSUME TypeOK
  PROVE  Vouched(NoCertificate)
<1>1. NoCertificate.size = 0 /\ NoCertificate.stamp.size = 0 /\ NoCertificate.stamp.tail = "whole"
  BY NoFileTyped DEF NoCertificate, Certified, Stamp
<1> QED
  BY <1>1, ResolvedTyped DEF Vouched, CleanTo

(* What does not touch the files, the certificate and the history.           *)
Apart == /\ UNCHANGED <<plain, zst, certificate, writing, said, born>>
         /\ cold' \in BOOLEAN /\ faults' \in 0..MaxFaults

CleanSince(w) ==
  \A i \in 1 .. Len(Resolved.lines) - since[w] : Resolved.lines[i] \notin Dirty

LEMMA QuietGo ==
  ASSUME RolloutInv, NEW w \in Worker, NEW label \in Labels,
         Goto(w, label), UNCHANGED <<locks, mine>>, Apart,
         ~Exists(tmp[w]),
         label \notin {"link", "unlinkZst", "publish", "linkZst", "settle", "cached",
                       "certify", "done"},
         label = "drop" => pc[w] = "settle",
         label \in Writers => holder = w, label \in Keepers => maint = w,
         w = Maintainer => label \in Maintenance \cup {"idle"},
         w \in Switcher => label \notin Maintenance
  PROVE  Quiet(w)
<1>1. Moves(w) /\ pc'[w] = label /\ UNCHANGED <<holder, maint, seen, card, tmp>>
  BY GoesOn DEF RolloutInv
<1>2. Stands(w)
  BY <1>1 DEF Stands
<1>3. Remembers(w)
  BY <1>1 DEF Remembers, RolloutInv, CleanFacts, Apart
<1>4. certificate' \in Certificates /\ UNCHANGED <<plain, zst, born, writing, said>>
  BY DEF RolloutInv, TypeOK, Apart
<1> QED
  BY <1>1, <1>2, <1>3, <1>4 DEF Quiet, Steps, Apart

LEMMA QuietReturn ==
  ASSUME RolloutInv, NEW w \in Worker, NEW label \in {"idle", "stat", "lock", "done", "forward"},
         Return(w, label), Apart,
         w = Maintainer => label = "idle",
         label = "done" => CleanSince(w)
  PROVE  Quiet(w)
<1>1. /\ Moves(w) /\ pc'[w] = label /\ holder' # w /\ maint' # w
      /\ tmp'[w] = NoFile /\ card'[w] = NoCertificate
  BY Returns DEF RolloutInv, Labels
<1>2. Stands(w)
  BY <1>1, NoFileTyped DEF Stands, Writers, Keepers, Maintenance
<1>3. Resolved' = Resolved
  BY DEF Resolved, Apart
<1>4. w \in Switcher /\ label = "done" => since'[w] = since[w]
  BY <1>1 DEF Moves
<1>5. Remembers(w)
  <2>1. Vouched(certificate) /\ certificate' = certificate
    BY DEF RolloutInv, CleanFacts, Apart
  <2>2. Vouched(card'[w])
    BY <1>1, VouchedNone DEF RolloutInv
  <2> QED
    BY <1>1, <1>3, <1>4, <2>1, <2>2 DEF Remembers, CleanSince
<1>6. certificate' \in Certificates /\ UNCHANGED <<plain, zst, born, writing, said>>
  BY DEF RolloutInv, TypeOK, Apart
<1> QED
  BY <1>1, <1>2, <1>5, <1>6 DEF Quiet, Steps, Apart

(* Who has no reason to have a new file has none.                            *)
LEMMA NoStaging ==
  ASSUME TypeOK, NEW w \in Worker, pc[w] \notin {"link", "publish", "linkZst"}
  PROVE  ~Exists(tmp[w]) /\ tmp[w] = NoFile
BY DEF TypeOK, Exists

LEMMA FaultTyped ==
  ASSUME TypeOK, Fault \/ NoFault
  PROVE  faults' \in 0..MaxFaults
<1>1. faults \in 0..MaxFaults /\ MaxFaults \in Nat
  BY RolloutAssumption DEF TypeOK
<1> QED
  BY <1>1 DEF Fault, NoFault

LEMMA QuietStarts ==
  ASSUME RolloutInv, NEW s \in Switcher, Begin(s) \/ Resolve(s) \/ Compressed(s) \/ Report(s)
  PROVE  Quiet(s)
<1>1. TypeOK /\ s \in Worker /\ s # Maintainer /\ cold \in BOOLEAN
  BY Roles DEF RolloutInv, TypeOK
<1>2. pc[s] \in {"idle", "resolve", "compressed", "done", "forward"} /\ UNCHANGED <<locks, mine>> /\ Apart
  <2>1. CASE Begin(s)
    BY <1>1, <2>1, FaultTyped DEF Begin, At, Apart, ghosts
  <2>2. CASE Resolve(s) \/ Compressed(s) \/ Report(s)
    BY <1>1, <2>2, FaultTyped DEF Resolve, Compressed, Report, At, Apart, ghosts, NoFault
  <2> QED
    BY <2>1, <2>2
<1>3. \E label \in {"idle", "resolve", "compressed", "stat", "maintain", "forward"} : Goto(s, label)
  BY DEF Begin, Resolve, Compressed, Report
<1> QED
  BY <1>1, <1>2, <1>3, NoStaging, QuietGo DEF Writers, Keepers, Maintenance, Labels

LEMMA QuietMaintain ==
  ASSUME RolloutInv, NEW s \in Switcher, Maintain(s)
  PROVE  Quiet(s)
<1>1. TypeOK /\ s \in Worker /\ s # Maintainer /\ pc[s] = "maintain" /\ UNCHANGED mine /\ Apart
  BY Roles, FaultTyped DEF RolloutInv, TypeOK, Maintain, At, Apart, ghosts, NoFault
<1>2. CASE Goto(s, "idle") /\ UNCHANGED maint
  BY <1>1, <1>2, NoStaging, QuietGo DEF Writers, Keepers, Maintenance, Labels, Maintain, locks
<1>3. CASE maint = Nobody /\ maint' = s /\ Goto(s, "claim")
  <2>1. /\ pc' \in [Worker -> Labels] /\ since' \in [Switcher -> Nat] /\ pc'[s] = "claim"
        /\ \A v \in Worker \ {s} : pc'[v] = pc[v]
        /\ \A t \in Switcher : pc'[t] # "idle" => since'[t] = since[t]
    BY <1>1, <1>3, Goes DEF Labels
  <2>2. UNCHANGED <<holder, seen, card, tmp>>
    BY <1>1 DEF Maintain, mine
  <2>3. Moves(s)
    BY <1>1, <1>3, <2>1, <2>2 DEF Moves, Takes, TypeOK
  <2>4. Stands(s)
    BY <1>1, <1>3, <2>1, <2>2, NoStaging DEF Stands, Writers, Keepers, Maintenance
  <2>5. Remembers(s)
    BY <1>1, <2>1, <2>2 DEF Remembers, RolloutInv, CleanFacts, Apart
  <2> QED
    BY <1>1, <2>1, <2>2, <2>3, <2>4, <2>5 DEF Quiet, Steps, Apart, TypeOK
<1> QED
  BY <1>2, <1>3 DEF Maintain

(* Asking for the writer lock.                                               *)
LEMMA QuietClaim ==
  ASSUME RolloutInv, NEW w \in Worker, NEW label \in {"restore", "rewrite", "encode"},
         Claim(w, label), Apart, pc[w] \in {"claim", "lock", "shut"},
         label \in Keepers => pc[w] \in Keepers,
         (w = Maintainer) <=> (label = "encode")
  PROVE  Quiet(w)
<1>1. TypeOK /\ tmp[w] = NoFile /\ (pc[w] \in Keepers => maint = w)
  BY NoStaging DEF RolloutInv, LockFacts
<1>2. CASE Return(w, "idle")
  BY <1>1, <1>2, QuietReturn
<1>3. CASE /\ Moves(w) /\ pc'[w] = label /\ holder' = w
           /\ UNCHANGED <<maint, seen, card, tmp>>
  <2>1. Stands(w)
    BY <1>1, <1>3, NoStaging, Roles DEF Stands, Writers, Keepers, Maintenance, RolloutInv, LockFacts
  <2>2. Remembers(w)
    BY <1>3 DEF Remembers, RolloutInv, CleanFacts, Apart
  <2>3. certificate' \in Certificates /\ UNCHANGED <<plain, zst, born, writing, said>>
    BY <1>1 DEF Apart, TypeOK
  <2>4. tmp'[w] = tmp[w] /\ pc'[w] \in {"restore", "rewrite", "encode"}
    BY <1>3
  <2>5. cold' \in BOOLEAN /\ faults' \in 0..MaxFaults
    BY DEF Apart
  <2>6. Steps(w)
    BY <1>3, <2>1, <2>2, <2>3, <2>5 DEF Steps
  <2> QED
    BY <2>3, <2>4, <2>6 DEF Quiet
<1>4. label \in Labels
  BY DEF Labels
<1> QED
  BY <1>1, <1>2, <1>3, <1>4, Claims

LEMMA QuietClaims ==
  ASSUME RolloutInv
  PROVE  /\ \A s \in Switcher : ClaimRestore(s) \/ ClaimRewrite(s) => Quiet(s)
         /\ ClaimCompress => Quiet(Maintainer)
<1>1. TypeOK
  BY DEF RolloutInv
<1>2. ASSUME NEW s \in Switcher, ClaimRestore(s) \/ ClaimRewrite(s)
      PROVE  Quiet(s)
  <2>1. /\ s \in Worker /\ s # Maintainer /\ pc[s] \in {"claim", "lock"} /\ Apart
    BY <1>1, <1>2, FaultTyped, Roles DEF ClaimRestore, ClaimRewrite, At, Apart, ghosts, NoFault, TypeOK
  <2>2. CASE Unprepared(s)
    BY <2>1, <2>2, QuietReturn DEF Unprepared
  <2>3. CASE pc[s] = "claim" /\ Claim(s, "restore")
    BY <2>1, <2>3, QuietClaim DEF Keepers
  <2>4. CASE pc[s] = "lock" /\ Claim(s, "rewrite")
    BY <2>1, <2>4, QuietClaim DEF Keepers
  <2> QED
    BY <1>2, <2>2, <2>3, <2>4 DEF ClaimRestore, ClaimRewrite, At
<1>3. ASSUME ClaimCompress
      PROVE  Quiet(Maintainer)
  BY <1>1, <1>3, QuietClaim, FaultTyped, Roles DEF ClaimCompress, At, Apart, ghosts, NoFault, Keepers, TypeOK
<1> QED
  BY <1>2, <1>3

LEMMA QuietStat ==
  ASSUME RolloutInv, NEW s \in Switcher, Stat(s)
  PROVE  Quiet(s)
<1>1. TypeOK /\ s \in Worker /\ s # Maintainer /\ pc[s] = "stat" /\ Apart /\ UNCHANGED <<locks, card, tmp>>
  BY Roles, FaultTyped DEF RolloutInv, TypeOK, Stat, At, Apart, ghosts, NoFault
<1>2. CASE ~Exists(plain)
  <2>1. Goto(s, "idle") /\ UNCHANGED mine
    BY <1>1, <1>2 DEF Stat, mine
  <2> QED
    BY <1>1, <2>1, NoStaging, QuietGo DEF Writers, Keepers, Maintenance, Labels
<1>3. CASE Exists(plain)
  <2>1. Goto(s, "cached") /\ seen' = [seen EXCEPT ![s] = Stamp(plain)]
    BY <1>3 DEF Stat, See
  <2>2. Stamp(plain) \in Stamps /\ Stamp(plain).born # 0
    BY <1>1, <1>3, StampTyped DEF RolloutInv, TypeOK, FileFacts, Numbered, Stamp
  <2>3. seen' \in [Worker -> Stamps] /\ seen'[s] = Stamp(plain) /\ \A v \in Worker \ {s} : seen'[v] = seen[v]
    BY <1>1, <2>1, <2>2 DEF TypeOK
  <2>4. Moves(s) /\ pc'[s] = "cached"
    BY <1>1, <2>1, <2>3, Goes DEF Moves, Takes, TypeOK, locks, Labels
  <2>5. Stands(s)
    BY <1>1, <2>2, <2>3, <2>4, NoStaging DEF Stands, Writers, Keepers, Maintenance
  <2>6. Remembers(s)
    BY <1>1, <2>4 DEF Remembers, RolloutInv, CleanFacts, Apart
  <2> QED
    BY <1>1, <2>4, <2>5, <2>6 DEF Quiet, Steps, Apart, TypeOK
<1> QED
  BY <1>2, <1>3

(* A certificate that matches the file speaks the truth.                     *)
LEMMA VouchedMatches ==
  ASSUME TypeOK, NEW c, Vouched(c), Exists(plain), c.stamp = Stamp(plain)
  PROVE  /\ \A i \in 1..Len(plain.lines) : plain.lines[i] \notin Dirty
         /\ ~Torn(plain)
<1>1. Resolved = plain /\ c.size = Len(plain.lines) /\ plain.tail # "torn"
  BY DEF Resolved, Vouched, Stamp
<1> QED
  BY <1>1 DEF Vouched, CleanTo, Torn

LEMMA QuietCached ==
  ASSUME RolloutInv, NEW s \in Switcher, Cached(s)
  PROVE  Quiet(s)
<1>1. TypeOK /\ s \in Worker /\ s # Maintainer /\ pc[s] = "cached" /\ Apart
  BY Roles, FaultTyped DEF RolloutInv, TypeOK, Cached, At, Apart, ghosts, NoFault
<1>2. CASE certificate.stamp = seen[s] /\ Stamp(plain) = seen[s]
  <2>1. Exists(plain)
    <3>1. seen[s].born # 0
      BY <1>1 DEF RolloutInv, LockFacts
    <3> QED
      BY <1>2, <3>1, NoFileTyped DEF Exists
  <2>2. CleanSince(s)
    <3>1. \A i \in 1..Len(plain.lines) : plain.lines[i] \notin Dirty
      BY <1>1, <1>2, <2>1, VouchedMatches DEF RolloutInv, CleanFacts
    <3>2. since[s] \in Nat /\ Len(Resolved.lines) \in Nat /\ Resolved = plain
      BY <1>1, <2>1, ResolvedTyped DEF TypeOK, Resolved
    <3> QED
      BY <3>1, <3>2 DEF CleanSince
  <2> QED
    BY <1>1, <1>2, <2>2, QuietReturn DEF Cached
<1>3. CASE ~(certificate.stamp = seen[s] /\ Stamp(plain) = seen[s])
  <2>1. /\ Goto(s, "scan") /\ UNCHANGED <<locks, seen, tmp>>
        /\ card' = [card EXCEPT ![s] = certificate]
    BY <1>3 DEF Cached
  <2>2. card' \in [Worker -> Certificates] /\ card'[s] = certificate /\ \A v \in Worker \ {s} : card'[v] = card[v]
    BY <1>1, <2>1 DEF TypeOK
  <2>3. Moves(s) /\ pc'[s] = "scan"
    BY <1>1, <2>1, <2>2, Goes DEF Moves, Takes, TypeOK, locks, Labels
  <2>4. Stands(s)
    BY <1>1, <2>1, <2>3, NoStaging DEF Stands, Writers, Keepers, Maintenance
  <2>5. Remembers(s)
    BY <1>1, <2>2, <2>3 DEF Remembers, RolloutInv, CleanFacts, Apart
  <2> QED
    BY <1>1, <2>1, <2>3, <2>4, <2>5 DEF Quiet, Steps, Apart, TypeOK
<1> QED
  BY <1>2, <1>3

(* A scan that skips what a vouched certificate covers misses nothing.       *)
LEMMA ScanSound ==
  ASSUME TypeOK, NEW c \in Certificates, Vouched(c), Exists(plain), ~Torn(plain),
         ~DirtyAfter(plain, Cursor(c, plain))
  PROVE  Vouched(Certified(plain)) /\ \A i \in 1..Len(plain.lines) : plain.lines[i] \notin Dirty
<1>1. Resolved = plain /\ Len(plain.lines) \in Nat
  BY ResolvedTyped DEF Resolved
<1>2. \A i \in Cursor(c, plain) + 1 .. Len(plain.lines) : plain.lines[i] \notin Dirty
  BY DEF DirtyAfter, Complete
<1>3. \A i \in 1..c.size : plain.lines[i] \notin Dirty
  BY <1>1 DEF Vouched, CleanTo
<1>4. Cursor(c, plain) \in {0, c.size} /\ c.size \in Nat
  BY RolloutAssumption DEF Cursor, Certificates
<1>5. \A i \in 1..Len(plain.lines) : plain.lines[i] \notin Dirty
  BY <1>1, <1>2, <1>3, <1>4
<1> QED
  BY <1>1, <1>5 DEF Vouched, CleanTo, Certified, Stamp, Torn

LEMMA QuietScan ==
  ASSUME RolloutInv, NEW s \in Switcher, Scan(s)
  PROVE  Quiet(s)
<1>1. TypeOK /\ s \in Worker /\ s # Maintainer /\ pc[s] = "scan" /\ Apart
  BY Roles, FaultTyped DEF RolloutInv, TypeOK, Scan, At, Apart, ghosts, NoFault
<1>2. CASE Return(s, "lock") \/ Return(s, "idle")
  BY <1>1, <1>2, QuietReturn
<1>3. CASE /\ Exists(plain) /\ ~DirtyAfter(plain, Cursor(card[s], plain)) /\ ~Torn(plain)
           /\ card' = [card EXCEPT ![s] = Certified(plain)]
           /\ Goto(s, "certify") /\ UNCHANGED <<locks, seen, tmp>>
  <2>1. Certified(plain) \in Certificates
    BY <1>1, StampTyped DEF TypeOK
  <2>2. card' \in [Worker -> Certificates] /\ card'[s] = Certified(plain) /\ \A v \in Worker \ {s} : card'[v] = card[v]
    BY <1>1, <1>3, <2>1 DEF TypeOK
  <2>3. Moves(s) /\ pc'[s] = "certify"
    BY <1>1, <1>3, <2>2, Goes DEF Moves, Takes, TypeOK, locks, Labels
  <2>4. Stands(s)
    BY <1>1, <1>3, <2>3, NoStaging DEF Stands, Writers, Keepers, Maintenance
  <2>5. card[s] \in Certificates /\ Vouched(card[s])
    BY <1>1 DEF RolloutInv, TypeOK, CleanFacts
  <2>6. Vouched(card'[s]) /\ \A i \in 1..Len(plain.lines) : plain.lines[i] \notin Dirty
    BY <1>1, <1>3, <2>2, <2>5, ScanSound
  <2>7. since'[s] \in Nat /\ Len(plain.lines) \in Nat /\ Resolved' = plain
    BY <1>1, <1>3, <2>3, ResolvedTyped DEF Moves, Resolved, Apart
  <2>8. Remembers(s)
    BY <1>1, <2>6, <2>7 DEF Remembers, RolloutInv, CleanFacts, Apart
  <2> QED
    BY <1>1, <1>3, <2>3, <2>4, <2>8 DEF Quiet, Steps, Apart, TypeOK
<1> QED
  BY <1>2, <1>3 DEF Scan, Quit

LEMMA QuietCertify ==
  ASSUME RolloutInv, NEW s \in Switcher, Certify(s)
  PROVE  Quiet(s)
<1>1. /\ TypeOK /\ s \in Worker /\ s # Maintainer /\ pc[s] = "certify"
      /\ UNCHANGED <<plain, zst, cold, writing, said, born, faults>>
      /\ Return(s, "done") /\ certificate' \in {certificate, card[s]}
  BY Roles DEF RolloutInv, Certify, Remembered, At, ghosts
<1>2. /\ Moves(s) /\ pc'[s] = "done" /\ holder' # s /\ maint' # s
      /\ tmp'[s] = NoFile /\ card'[s] = NoCertificate
  BY <1>1, Returns DEF Labels
<1>3. Stands(s)
  BY <1>1, <1>2, NoFileTyped DEF Stands, Writers, Keepers, Maintenance
<1>4. /\ \A i \in 1 .. Len(Resolved.lines) - since[s] : Resolved.lines[i] \notin Dirty
      /\ since'[s] = since[s] /\ Resolved' = Resolved
  BY <1>1, <1>2 DEF RolloutInv, CleanFacts, Moves, Resolved
<1>5. Vouched(certificate') /\ certificate' \in Certificates
  BY <1>1 DEF RolloutInv, CleanFacts, TypeOK
<1>6. Remembers(s)
  BY <1>1, <1>2, <1>4, <1>5, VouchedNone DEF Remembers
<1> QED
  BY <1>1, <1>2, <1>3, <1>5, <1>6 DEF Quiet, Steps, TypeOK

-----------------------------------------------------------------------------
(* Steps that make a new file *)

(* Only the worker with the writer lock is in the middle of a change.        *)
LEMMA Alone ==
  ASSUME RolloutInv, NEW w \in Worker, holder = w, NEW v \in Worker, v # w
  PROVE  pc[v] \notin Writers /\ tmp[v] = NoFile
<1>1. TypeOK /\ pc[v] \notin Writers
  BY DEF RolloutInv, LockFacts
<1> QED
  BY <1>1, NoStaging DEF Writers

LEMMA NumberFree ==
  ASSUME RolloutInv, NEW w \in Worker, holder = w, tmp[w] = NoFile, ~Full
  PROVE  FreeNumber \in 1..MaxFiles
<1> DEFINE S == (1..MaxFiles) \ InUse
<1>1. InUse \subseteq {plain.ino, zst.ino, 0}
  BY Alone, NoFileTyped DEF InUse
<1>2. MaxFiles \in Nat /\ born \in 1..MaxFiles /\ born # MaxFiles
  BY RolloutAssumption DEF RolloutInv, TypeOK, Full
<1>3. plain.ino \in 0..MaxFiles /\ zst.ino \in 0..MaxFiles
  BY DEF RolloutInv, TypeOK, Files
<1>4. MaxFiles < 3 => plain.ino = 0 \/ zst.ino = 0
  <2>1. ASSUME MaxFiles < 3, Exists(plain), Exists(zst)
        PROVE  FALSE
    <3>1. /\ plain.born \in 0..MaxFiles /\ zst.born \in 0..MaxFiles
          /\ plain.born <= born /\ zst.born <= born
          /\ plain.born # 0 /\ zst.born # 0 /\ plain.born # zst.born
      BY <2>1 DEF RolloutInv, TypeOK, Files, FileFacts, Numbered
    <3> QED
      BY <1>2, <2>1, <3>1
  <2> QED
    BY <2>1, NoFileTyped DEF Exists
<1>5. \E n \in S : \A m \in S : n <= m
  <2>1. CASE 1 \in S
    BY <1>2, <2>1
  <2>2. CASE 1 \notin S /\ 2 \in S
    BY <1>2, <2>2
  <2>3. CASE 1 \notin S /\ 2 \notin S
    <3>1. 1 \in InUse /\ 2 \in InUse
      BY <1>2, <2>3
    <3>2. MaxFiles >= 3 /\ 3 \in S
      BY <1>1, <1>2, <1>3, <1>4, <3>1
    <3> QED
      BY <1>2, <2>3, <3>2
  <2> QED
    BY <2>1, <2>2, <2>3
<1> QED
  BY <1>5 DEF FreeNumber

LEMMA Creates ==
  ASSUME RolloutInv, NEW w \in Worker, holder = w, tmp[w] = NoFile,
         NEW q \in Seq(Kinds), NEW end \in Tails, Create(w, q, end)
  PROVE  /\ tmp' \in [Worker -> Files] /\ \A v \in Worker \ {w} : tmp'[v] = tmp[v]
         /\ tmp'[w].born = born + 1 /\ tmp'[w].lines = q /\ tmp'[w].tail = end
         /\ Exists(tmp'[w]) /\ born' = born + 1 /\ born' \in 1..MaxFiles
<1>1. MaxFiles \in Nat /\ born \in 1..MaxFiles /\ tmp \in [Worker -> Files] /\ born # MaxFiles
  BY RolloutAssumption DEF RolloutInv, TypeOK, Create, Full
<1>2. FreeNumber \in 1..MaxFiles
  BY NumberFree DEF Create
<1> DEFINE f == [born |-> born + 1, ino |-> FreeNumber, lines |-> q, tail |-> end]
<1>3. f \in Files
  BY <1>1, <1>2 DEF Files
<1>4. f.born # 0
  BY <1>1
<1>5. Exists(f)
  BY <1>4, NoFileTyped DEF Exists
<1>6. tmp' = [tmp EXCEPT ![w] = f] /\ born' = born + 1
  BY DEF Create
<1> QED
  BY <1>1, <1>3, <1>5, <1>6

(* The worker has the writer lock and a copy of what the history is.         *)
Copies(w) ==
  \/ pc'[w] = "link" /\ ~Exists(plain) /\ tmp'[w].lines = zst.lines
  \/ pc'[w] = "publish" /\ Exists(plain) /\ tmp'[w].lines = Sanitized(plain.lines)
  \/ pc'[w] = "linkZst" /\ Exists(plain) /\ tmp'[w].lines = plain.lines

Makes(w) ==
  /\ Steps(w) /\ Copies(w)
  /\ UNCHANGED <<plain, zst>>
  /\ holder = w /\ born' = born + 1 /\ born' \in 1..MaxFiles
  /\ Exists(tmp'[w]) /\ tmp'[w].born = born + 1 /\ tmp'[w].tail = "whole"
  /\ Len(tmp'[w].lines) <= MaxLines

LEMMA MakesFile ==
  ASSUME RolloutInv, NEW w \in Worker, NEW label \in {"link", "publish", "linkZst"},
         holder = w, tmp[w] = NoFile, label # "publish" => maint = w,
         (w = Maintainer) <=> (label = "linkZst"),
         NEW f \in {plain, zst}, NEW q \in Seq(Kinds), Len(q) <= MaxLines,
         Create(w, q, f.tail), Goto(w, label), UNCHANGED <<locks, card>>,
         seen' \in [Worker -> Stamps], \A v \in Worker \ {w} : seen'[v] = seen[v],
         UNCHANGED <<plain, zst, certificate, writing, said>>,
         cold' \in BOOLEAN, faults' \in 0..MaxFaults,
         \/ label = "link" /\ ~Exists(plain) /\ q = zst.lines
         \/ label = "publish" /\ Exists(plain) /\ q = Sanitized(plain.lines)
         \/ label = "linkZst" /\ Exists(plain) /\ q = plain.lines
  PROVE  Makes(w)
<1>1. TypeOK /\ f.tail = "whole" /\ f.tail \in Tails
  BY Roles DEF RolloutInv, FileFacts, Tails
<1>2. /\ tmp' \in [Worker -> Files] /\ \A v \in Worker \ {w} : tmp'[v] = tmp[v]
      /\ tmp'[w].born = born + 1 /\ tmp'[w].lines = q /\ tmp'[w].tail = "whole"
      /\ Exists(tmp'[w]) /\ born' = born + 1 /\ born' \in 1..MaxFiles
  BY <1>1, Creates
<1>3. label \in Labels
  BY DEF Labels
<1>4. Moves(w) /\ pc'[w] = label /\ UNCHANGED <<holder, maint, card>>
  BY <1>1, <1>2, <1>3, Goes DEF Moves, Takes, TypeOK, locks
<1>5. Stands(w)
  BY <1>4, Roles DEF Stands, Writers, Keepers, Maintenance
<1>6. Remembers(w)
  BY <1>4 DEF Remembers, RolloutInv, CleanFacts
<1>7. certificate' \in Certificates
  BY <1>1 DEF TypeOK
<1>8. Steps(w) /\ Copies(w)
  BY <1>2, <1>4, <1>5, <1>6, <1>7 DEF Steps, Copies
<1> QED
  BY <1>2, <1>8 DEF Makes

LEMMA RestoreMakes ==
  ASSUME RolloutInv, NEW s \in Switcher, Restore(s)
  PROVE  Quiet(s) \/ Makes(s)
<1>1. /\ TypeOK /\ s \in Worker /\ s # Maintainer /\ pc[s] = "restore" /\ holder = s /\ maint = s
      /\ cold' \in BOOLEAN /\ UNCHANGED <<plain, zst, certificate, writing, said>>
  BY Roles DEF RolloutInv, TypeOK, Restore, At, LockFacts, Writers, Keepers
<1>2. Fault \/ NoFault
  BY DEF Restore
<1>3. faults' \in 0..MaxFaults
  BY <1>1, <1>2, FaultTyped
<1>4. CASE (Return(s, "stat") \/ Quit(s)) /\ UNCHANGED born
  BY <1>1, <1>3, <1>4, QuietReturn DEF Apart, Quit
<1>5. CASE /\ ~Exists(plain) /\ See(s, zst) /\ Create(s, zst.lines, zst.tail)
           /\ Goto(s, "link") /\ UNCHANGED <<locks, card>>
  <2>1. zst \in Files /\ zst.lines \in Seq(Kinds) /\ Len(zst.lines) <= MaxLines /\ tmp[s] = NoFile
    BY <1>1, NoStaging DEF TypeOK, Files
  <2>2. Stamp(zst) \in Stamps /\ seen \in [Worker -> Stamps]
    BY <1>1, <2>1, StampTyped DEF TypeOK
  <2>3. seen' \in [Worker -> Stamps] /\ \A v \in Worker \ {s} : seen'[v] = seen[v]
    BY <1>5, <2>2 DEF See
  <2> QED
    BY <1>1, <1>3, <1>5, <2>1, <2>3, MakesFile
<1> QED
  BY <1>4, <1>5 DEF Restore

LEMMA RewriteMakes ==
  ASSUME RolloutInv, NEW s \in Switcher, Rewrite(s)
  PROVE  Quiet(s) \/ Makes(s)
<1>1. /\ TypeOK /\ s \in Worker /\ s # Maintainer /\ pc[s] = "rewrite" /\ holder = s
      /\ cold' \in BOOLEAN /\ UNCHANGED <<plain, zst, certificate, writing, said>>
  BY Roles DEF RolloutInv, TypeOK, Rewrite, At, LockFacts, Writers
<1>2. Fault \/ NoFault
  BY DEF Rewrite
<1>3. faults' \in 0..MaxFaults
  BY <1>1, <1>2, FaultTyped
<1>4. CASE Quit(s) /\ UNCHANGED born
  BY <1>1, <1>3, <1>4, QuietReturn DEF Apart, Quit
<1>5. CASE /\ Exists(plain) /\ ~Torn(plain) /\ ~DirtyAfter(plain, 0)
           /\ Return(s, "done") /\ UNCHANGED born
  <2>1. since[s] \in Nat /\ Resolved = plain /\ Len(plain.lines) \in Nat
    BY <1>1, <1>5, ResolvedTyped DEF TypeOK, Resolved
  <2>2. CleanSince(s)
    BY <1>5, <2>1 DEF CleanSince, DirtyAfter, Complete
  <2> QED
    BY <1>1, <1>3, <1>5, <2>2, QuietReturn DEF Apart
<1>6. CASE /\ Exists(plain) /\ Create(s, Sanitized(plain.lines), plain.tail)
           /\ Goto(s, "publish") /\ UNCHANGED <<locks, seen, card>>
  <2>1. plain.lines \in Seq(Kinds) /\ Len(plain.lines) <= MaxLines /\ tmp[s] = NoFile
    BY <1>1, NoStaging DEF TypeOK, Files
  <2>2. /\ Sanitized(plain.lines) \in Seq(Kinds)
        /\ Len(Sanitized(plain.lines)) = Len(plain.lines)
    BY <2>1, SanitizedKeeps
  <2>3. Len(Sanitized(plain.lines)) <= MaxLines
    BY <2>1, <2>2, RolloutAssumption
  <2>4. seen' \in [Worker -> Stamps] /\ \A v \in Worker \ {s} : seen'[v] = seen[v]
    BY <1>1, <1>6 DEF TypeOK
  <2> QED
    BY <1>1, <1>3, <1>6, <2>1, <2>2, <2>3, <2>4, MakesFile
<1> QED
  BY <1>4, <1>5, <1>6 DEF Rewrite

LEMMA EncodeMakes ==
  ASSUME RolloutInv, Encode
  PROVE  Quiet(Maintainer) \/ Makes(Maintainer)
<1> DEFINE w == Maintainer
<1>1. /\ TypeOK /\ w \in Worker /\ w \notin Switcher /\ pc[w] = "encode" /\ holder = w /\ maint = w
      /\ cold' \in BOOLEAN /\ UNCHANGED <<plain, zst, certificate, writing, said>>
  BY Roles DEF RolloutInv, TypeOK, Encode, At, LockFacts, Writers, Keepers
<1>2. faults' \in 0..MaxFaults
  BY <1>1, FaultTyped DEF Encode, NoFault
<1>3. CASE Quit(w) /\ UNCHANGED born
  BY <1>1, <1>2, <1>3, QuietReturn DEF Apart, Quit
<1>4. CASE /\ Eligible /\ See(w, plain) /\ Create(w, plain.lines, plain.tail)
           /\ Goto(w, "linkZst") /\ UNCHANGED <<locks, card>>
  <2>1. /\ plain \in Files /\ plain.lines \in Seq(Kinds) /\ Len(plain.lines) <= MaxLines
        /\ tmp[w] = NoFile /\ Exists(plain)
    BY <1>1, <1>4, NoStaging DEF TypeOK, Files, Eligible
  <2>2. Stamp(plain) \in Stamps /\ seen \in [Worker -> Stamps]
    BY <1>1, <2>1, StampTyped DEF TypeOK
  <2>3. seen' \in [Worker -> Stamps] /\ \A v \in Worker \ {w} : seen'[v] = seen[v]
    BY <1>4, <2>2 DEF See
  <2> QED
    BY <1>1, <1>2, <1>4, <2>1, <2>3, MakesFile
<1> QED
  BY <1>3, <1>4 DEF Encode

-----------------------------------------------------------------------------
(* Steps that change a file *)

(* The worker with the writer lock puts its new file in a place, or removes  *)
(* a file the history does not need; the lines to be read are the same, or   *)
(* sanitized.                                                                *)
Changes(w) ==
  /\ Steps(w)
  /\ holder = w /\ UNCHANGED born /\ tmp'[w] = NoFile
  /\ \/ plain' = tmp[w] /\ zst' = zst /\ Exists(tmp[w]) /\ pc'[w] \in {"unlinkZst", "idle", "done"}
     \/ /\ plain' = plain /\ zst' = tmp[w] /\ Exists(tmp[w]) /\ pc'[w] = "settle"
        /\ Exists(plain) /\ tmp[w].lines = plain.lines
     \/ plain' = plain /\ zst' = NoFile /\ Exists(plain) /\ pc'[w] \in {"stat", "idle"}
     \/ plain' = NoFile /\ zst' = zst /\ Exists(zst) /\ pc'[w] = "idle"
  /\ Resolved'.lines \in {Resolved.lines, Sanitized(Resolved.lines)}

(* A worker that returns after it has changed a file.                        *)
LEMMA ReturnSteps ==
  ASSUME RolloutInv, NEW w \in Worker, NEW label \in {"idle", "stat", "done"},
         Return(w, label), w = Maintainer => label = "idle",
         label = "done" =>
           \A i \in 1 .. Len(Resolved'.lines) - since'[w] : Resolved'.lines[i] \notin Dirty,
         UNCHANGED <<certificate, cold, writing, said>>, Fault \/ NoFault
  PROVE  Steps(w) /\ pc'[w] = label /\ tmp'[w] = NoFile
<1>1. TypeOK /\ label \in Labels
  BY DEF RolloutInv, Labels
<1>2. /\ Moves(w) /\ pc'[w] = label /\ holder' # w /\ maint' # w
      /\ tmp'[w] = NoFile /\ card'[w] = NoCertificate
  BY <1>1, Returns
<1>3. Stands(w)
  BY <1>2, NoFileTyped DEF Stands, Writers, Keepers, Maintenance
<1>4. Vouched(certificate') /\ certificate' \in Certificates /\ cold' \in BOOLEAN
  BY DEF RolloutInv, CleanFacts, TypeOK
<1>5. Remembers(w)
  BY <1>1, <1>2, <1>4, VouchedNone DEF Remembers
<1> QED
  BY <1>1, <1>2, <1>3, <1>4, <1>5, FaultTyped DEF Steps

LEMMA LinkChanges ==
  ASSUME RolloutInv, NEW s \in Switcher, Link(s)
  PROVE  Quiet(s) \/ Changes(s)
<1>1. /\ TypeOK /\ s \in Worker /\ s # Maintainer /\ pc[s] = "link" /\ holder = s /\ maint = s
      /\ UNCHANGED <<zst, certificate, cold, writing, said, born>> /\ cold \in BOOLEAN
  BY Roles DEF RolloutInv, TypeOK, Link, At, LockFacts, Writers, Keepers, ghosts
<1>2. ~Exists(plain) /\ Exists(tmp[s]) /\ tmp[s].lines = zst.lines
  BY <1>1 DEF RolloutInv, CopyFacts
<1>3. Fault \/ NoFault
  BY DEF Link
<1>4. CASE UNCHANGED plain /\ Quit(s)
  BY <1>1, <1>3, <1>4, FaultTyped, QuietReturn DEF Apart, Quit
<1>5. ASSUME plain' = tmp[s]
      PROVE  Resolved'.lines = Resolved.lines
  BY <1>1, <1>2, <1>5 DEF Resolved
<1>6. CASE plain' = tmp[s] /\ Quit(s)
  <2>1. Steps(s) /\ pc'[s] = "idle" /\ tmp'[s] = NoFile
    BY <1>1, <1>3, <1>6, ReturnSteps DEF Quit
  <2> QED
    BY <1>1, <1>2, <1>5, <1>6, <2>1 DEF Changes
<1>7. CASE plain' = tmp[s] /\ Forget(s) /\ Goto(s, "unlinkZst") /\ UNCHANGED locks
  <2>1. Forget(s)
    BY <1>7
  <2>2. /\ seen' \in [Worker -> Stamps] /\ card' \in [Worker -> Certificates]
        /\ tmp' \in [Worker -> Files] /\ tmp'[s] = NoFile /\ card'[s] = NoCertificate
        /\ \A v \in Worker \ {s} : seen'[v] = seen[v] /\ card'[v] = card[v] /\ tmp'[v] = tmp[v]
    BY <1>1, <2>1, Forgets
  <2>3. Moves(s) /\ pc'[s] = "unlinkZst" /\ holder' = s /\ maint' = s
    BY <1>1, <1>7, <2>2, Goes DEF Moves, Takes, locks, Labels
  <2>4. Stands(s)
    BY <1>1, <2>2, <2>3, NoFileTyped DEF Stands, Writers, Keepers, Maintenance
  <2>5. Remembers(s)
    BY <1>1, <2>2, <2>3, VouchedNone DEF Remembers, RolloutInv, CleanFacts
  <2>6. Steps(s)
    BY <1>1, <1>3, <2>3, <2>4, <2>5, FaultTyped DEF Steps, TypeOK
  <2> QED
    BY <1>1, <1>2, <1>5, <1>7, <2>2, <2>3, <2>6 DEF Changes
<1> QED
  BY <1>4, <1>6, <1>7 DEF Link

LEMMA UnlinkChanges ==
  ASSUME RolloutInv, NEW s \in Switcher, UnlinkZst(s)
  PROVE  Changes(s)
<1>1. /\ s \in Worker /\ s # Maintainer /\ pc[s] = "unlinkZst" /\ holder = s /\ zst' = NoFile
      /\ UNCHANGED <<plain, certificate, cold, writing, said, born>> /\ (Fault \/ NoFault)
  BY Roles DEF RolloutInv, UnlinkZst, At, LockFacts, Writers, ghosts
<1>2. Exists(plain) /\ Resolved' = Resolved
  BY <1>1 DEF RolloutInv, CopyFacts, Resolved
<1>3. PICK label \in {"stat", "idle"} : Return(s, label)
  BY DEF UnlinkZst, Quit
<1>4. Steps(s) /\ pc'[s] = label /\ tmp'[s] = NoFile
  BY <1>1, <1>3, ReturnSteps
<1> QED
  BY <1>1, <1>2, <1>4 DEF Changes

LEMMA PublishChanges ==
  ASSUME RolloutInv, NEW s \in Switcher, Publish(s)
  PROVE  Changes(s)
<1>1. /\ TypeOK /\ s \in Worker /\ s # Maintainer /\ pc[s] = "publish" /\ holder = s /\ plain' = tmp[s]
      /\ UNCHANGED <<zst, certificate, cold, writing, said, born>> /\ (Fault \/ NoFault)
  BY Roles DEF RolloutInv, Publish, At, LockFacts, Writers, ghosts
<1>2. Exists(plain) /\ Exists(tmp[s]) /\ tmp[s].lines = Sanitized(plain.lines)
  BY <1>1 DEF RolloutInv, CopyFacts
<1>3. Resolved = plain /\ Resolved' = tmp[s] /\ plain.lines \in Seq(Kinds)
  BY <1>1, <1>2 DEF Resolved, TypeOK, Files
<1>4. PICK label \in {"done", "idle"} : Return(s, label)
  BY DEF Publish, Quit
<1>5. /\ \A i \in 1..Len(Resolved'.lines) : Resolved'.lines[i] \notin Dirty
      /\ Len(Resolved'.lines) \in Nat
  BY <1>2, <1>3, SanitizedKeeps
<1>6. since'[s] \in Nat
  BY <1>1, <1>4, Returns DEF Moves, Labels
<1>7. \A i \in 1 .. Len(Resolved'.lines) - since'[s] : Resolved'.lines[i] \notin Dirty
  BY <1>5, <1>6
<1>8. Steps(s) /\ pc'[s] = label /\ tmp'[s] = NoFile
  BY <1>1, <1>4, <1>7, ReturnSteps
<1> QED
  BY <1>1, <1>2, <1>3, <1>8 DEF Changes

LEMMA LinkZstChanges ==
  ASSUME RolloutInv, LinkZst
  PROVE  Quiet(Maintainer) \/ Changes(Maintainer)
<1> DEFINE w == Maintainer
<1>1. /\ TypeOK /\ w \in Worker /\ w \notin Switcher /\ pc[w] = "linkZst" /\ holder = w /\ maint = w
      /\ UNCHANGED <<plain, certificate, cold, writing, said, born>> /\ NoFault
  BY Roles DEF RolloutInv, TypeOK, LinkZst, At, LockFacts, Writers, Keepers, ghosts, NoFault
<1>2. Exists(plain) /\ Exists(tmp[w]) /\ tmp[w].lines = plain.lines
  BY <1>1 DEF RolloutInv, CopyFacts
<1>3. CASE Quit(w) /\ UNCHANGED zst
  BY <1>1, <1>3, FaultTyped, QuietReturn DEF Apart, Quit, TypeOK
<1>4. CASE /\ zst' = tmp[w] /\ tmp' = [tmp EXCEPT ![w] = NoFile]
           /\ Goto(w, "settle") /\ UNCHANGED <<locks, seen, card>>
  <2>1. /\ tmp' \in [Worker -> Files] /\ tmp'[w] = NoFile
        /\ \A v \in Worker \ {w} : tmp'[v] = tmp[v]
    BY <1>1, <1>4, NoFileTyped DEF TypeOK
  <2>2. Moves(w) /\ pc'[w] = "settle" /\ UNCHANGED <<holder, maint, card>>
    BY <1>1, <1>4, <2>1, Goes DEF Moves, Takes, TypeOK, locks, Labels
  <2>3. Stands(w)
    BY <1>1, <2>1, <2>2, NoFileTyped DEF Stands, Writers, Keepers, Maintenance
  <2>4. Remembers(w)
    BY <1>1, <2>2 DEF Remembers, RolloutInv, CleanFacts
  <2>5. Steps(w)
    BY <1>1, <2>2, <2>3, <2>4, FaultTyped DEF Steps, TypeOK
  <2>6. Resolved' = Resolved
    BY <1>1, <1>2 DEF Resolved
  <2> QED
    BY <1>1, <1>2, <1>4, <2>1, <2>2, <2>5, <2>6 DEF Changes
<1> QED
  BY <1>3, <1>4 DEF LinkZst

LEMMA SettleChanges ==
  ASSUME RolloutInv, Settle
  PROVE  Quiet(Maintainer) \/ Changes(Maintainer)
<1> DEFINE w == Maintainer
<1>1. /\ TypeOK /\ w \in Worker /\ w \notin Switcher /\ pc[w] = "settle" /\ holder = w /\ maint = w
      /\ UNCHANGED <<plain, certificate, cold, writing, said, born>> /\ NoFault
  BY Roles DEF RolloutInv, TypeOK, Settle, At, LockFacts, Writers, Keepers, ghosts, NoFault
<1>2. Exists(plain)
  BY <1>1 DEF RolloutInv, CopyFacts
<1>3. CASE Goto(w, "drop") /\ UNCHANGED <<zst, locks, mine>>
  <2>1. Apart /\ "drop" \in Labels /\ ~Exists(tmp[w])
    BY <1>1, <1>3, FaultTyped, NoStaging DEF Apart, Labels, TypeOK
  <2> QED
    BY <1>1, <1>3, <2>1, QuietGo DEF Maintenance, Writers, Keepers
<1>4. CASE zst' = NoFile /\ Quit(w)
  <2>1. Steps(w) /\ pc'[w] = "idle" /\ tmp'[w] = NoFile
    BY <1>1, <1>4, ReturnSteps DEF Quit
  <2>2. Resolved' = Resolved
    BY <1>1, <1>2 DEF Resolved
  <2> QED
    BY <1>1, <1>2, <1>4, <2>1, <2>2 DEF Changes
<1> QED
  BY <1>3, <1>4 DEF Settle

LEMMA DropChanges ==
  ASSUME RolloutInv, DropPlain
  PROVE  Changes(Maintainer)
<1> DEFINE w == Maintainer
<1>1. /\ w \in Worker /\ pc[w] = "drop" /\ holder = w /\ Quit(w) /\ plain' = NoFile
      /\ UNCHANGED <<zst, certificate, cold, writing, said, born>> /\ NoFault
  BY Roles DEF RolloutInv, DropPlain, At, LockFacts, Writers, ghosts, NoFault
<1>2. Exists(plain) /\ Exists(zst) /\ zst.lines = plain.lines
  BY <1>1 DEF RolloutInv, CopyFacts
<1>3. Resolved'.lines = Resolved.lines
  BY <1>1, <1>2, NoFileTyped DEF Resolved, Exists
<1>4. Steps(w) /\ pc'[w] = "idle" /\ tmp'[w] = NoFile
  BY <1>1, ReturnSteps DEF Quit
<1> QED
  BY <1>1, <1>2, <1>3, <1>4 DEF Changes

-----------------------------------------------------------------------------
(* What the steps of workers keep *)

(* A history that stays or is sanitized has as many lines as it had, and     *)
(* what was clean at its beginning still is.                                 *)
LEMMA HistoryStays ==
  ASSUME TypeOK, Resolved'.lines \in {Resolved.lines, Sanitized(Resolved.lines)}
  PROVE  /\ Len(Resolved'.lines) = Len(Resolved.lines)
         /\ \A n \in Nat : CleanTo(n) => CleanTo(n)'
         /\ \A n \in Nat :
              (\A i \in 1 .. Len(Resolved.lines) - n : Resolved.lines[i] \notin Dirty)
              => \A i \in 1 .. Len(Resolved'.lines) - n : Resolved'.lines[i] \notin Dirty
<1> DEFINE q == Resolved.lines
           r == Resolved'.lines
<1>1. q \in Seq(Kinds)
  BY ResolvedTyped
<1>2. CASE r = q
  BY <1>2 DEF CleanTo
<1>3. CASE r = Sanitized(q)
  <2>1. /\ Len(r) = Len(q) /\ Len(r) \in Nat
        /\ \A i \in 1..Len(r) : r[i] \notin Dirty
    BY <1>1, <1>3, SanitizedKeeps
  <2>2. ASSUME NEW n \in Nat, CleanTo(n)
        PROVE  CleanTo(n)'
    BY <2>1, <2>2 DEF CleanTo
  <2>3. ASSUME NEW n \in Nat
        PROVE  \A i \in 1 .. Len(r) - n : r[i] \notin Dirty
    BY <2>1
  <2> QED
    BY <2>1, <2>2, <2>3
<1> QED
  BY <1>2, <1>3

LEMMA TypeStep ==
  ASSUME RolloutInv, NEW w \in Worker, Steps(w),
         plain' \in {plain, tmp[w], NoFile}, zst' \in {zst, tmp[w], NoFile},
         Len(tmp'[w].lines) <= MaxLines, born' \in 1..MaxFiles
  PROVE  TypeOK'
<1>1. TypeOK
  BY DEF RolloutInv
<1>2. plain' \in Files /\ zst' \in Files
  BY <1>1, NoFileTyped DEF TypeOK
<1>3. \A v \in Worker : Len(tmp[v].lines) <= MaxLines /\ Len(plain.lines) <= MaxLines /\ Len(zst.lines) <= MaxLines
  BY <1>1 DEF TypeOK
<1>4. Len(NoFile.lines) <= MaxLines
  BY NoFileTyped, RolloutAssumption
<1>5. Len(plain'.lines) <= MaxLines /\ Len(zst'.lines) <= MaxLines
  BY <1>3, <1>4
<1>6. \A v \in Worker \ {w} : tmp'[v] = tmp[v] /\ pc'[v] = pc[v]
  BY DEF Steps, Moves
<1>7. \A v \in Worker : Len(tmp'[v].lines) <= MaxLines
  BY <1>3, <1>6
<1>8. \A v \in Worker : Exists(tmp'[v]) => pc'[v] \in {"link", "publish", "linkZst"}
  BY <1>1, <1>6 DEF TypeOK, Steps, Stands
<1>9. holder' \in Worker \cup {Server, Nobody} /\ maint' \in Worker \cup {Nobody}
  BY <1>1 DEF TypeOK, Steps, Moves, Takes
<1>10. writing' \in 0..MaxFiles /\ said' \in Nat
  BY <1>1 DEF TypeOK, Steps
<1>11. /\ pc' \in [Worker -> Labels] /\ since' \in [Switcher -> Nat]
       /\ seen' \in [Worker -> Stamps] /\ card' \in [Worker -> Certificates]
       /\ tmp' \in [Worker -> Files]
       /\ certificate' \in Certificates /\ cold' \in BOOLEAN /\ faults' \in 0..MaxFaults
  BY DEF Steps, Moves
<1>12. \A f \in {plain', zst'} \cup {tmp'[v] : v \in Worker} : Len(f.lines) <= MaxLines
  BY <1>5, <1>7
<1>13. \A v \in Worker : (Exists(tmp[v]))' => pc'[v] \in {"link", "publish", "linkZst"}
  BY <1>8 DEF Exists, NoFile
<1> QED
  BY <1>2, <1>9, <1>10, <1>11, <1>12, <1>13 DEF TypeOK

LEMMA LockStep ==
  ASSUME RolloutInv, NEW w \in Worker, Steps(w)
  PROVE  LockFacts'
<1>1. /\ \A v \in Worker : pc[v] \in Writers => holder = v
      /\ \A v \in Worker : pc[v] \in Keepers => maint = v
      /\ pc[Maintainer] \in Maintenance \cup {"idle"}
      /\ \A s \in Switcher : pc[s] \notin Maintenance
      /\ \A v \in Worker : pc[v] = "cached" => seen[v].born # 0
  BY DEF RolloutInv, LockFacts
<1>2. /\ \A v \in Worker \ {w} : pc'[v] = pc[v] /\ seen'[v] = seen[v]
      /\ Takes(w, holder, holder') /\ Takes(w, maint, maint')
  BY DEF Steps, Moves
<1>3. /\ pc'[w] \in Writers => holder' = w
      /\ pc'[w] \in Keepers => maint' = w
      /\ w = Maintainer => pc'[w] \in Maintenance \cup {"idle"}
      /\ w \in Switcher => pc'[w] \notin Maintenance
      /\ pc'[w] = "cached" => seen'[w].born # 0
  BY DEF Steps, Stands
<1>4. ASSUME NEW v \in Worker
      PROVE  /\ pc'[v] \in Writers => holder' = v
             /\ pc'[v] \in Keepers => maint' = v
             /\ pc'[v] = "cached" => seen'[v].born # 0
  BY <1>1, <1>2, <1>3, Roles DEF Takes
<1>5. /\ pc'[Maintainer] \in Maintenance \cup {"idle"}
      /\ \A s \in Switcher : pc'[s] \notin Maintenance
  BY <1>1, <1>2, <1>3, Roles
<1> QED
  BY <1>4, <1>5 DEF LockFacts

LEMMA CleanStep ==
  ASSUME RolloutInv, NEW w \in Worker, Steps(w),
         Resolved'.lines \in {Resolved.lines, Sanitized(Resolved.lines)}
  PROVE  NothingLost' /\ CleanFacts'
<1>1. TypeOK /\ NothingLost /\ CleanFacts
  BY DEF RolloutInv
<1>2. /\ Len(Resolved'.lines) = Len(Resolved.lines)
      /\ \A n \in Nat : CleanTo(n) => CleanTo(n)'
      /\ \A n \in Nat :
           (\A i \in 1 .. Len(Resolved.lines) - n : Resolved.lines[i] \notin Dirty)
           => \A i \in 1 .. Len(Resolved'.lines) - n : Resolved'.lines[i] \notin Dirty
  BY <1>1, HistoryStays
<1>3. NothingLost'
  BY <1>1, <1>2 DEF NothingLost, Steps
<1>4. ASSUME NEW c \in Certificates, Vouched(c)
      PROVE  /\ c.size = c.stamp.size /\ c.stamp.tail # "torn"
             /\ CleanTo(c.size)'
  <2>1. c.size \in Nat
    BY RolloutAssumption DEF Certificates
  <2> QED
    BY <1>2, <1>4, <2>1 DEF Vouched
<1>5. /\ certificate' \in Certificates /\ Vouched(certificate')
      /\ \A v \in Worker : card'[v] \in Certificates /\ Vouched(card'[v])
  BY <1>1 DEF CleanFacts, Steps, Moves, Remembers
<1>6. Vouched(certificate)'
  BY <1>4, <1>5 DEF Vouched, CleanTo
<1>7. ASSUME NEW v \in Worker
      PROVE  Vouched(card[v])'
  BY <1>4, <1>5 DEF Vouched, CleanTo
<1>8. ASSUME NEW s \in Switcher, pc'[s] \in {"certify", "done"}
      PROVE  \A i \in 1 .. Len(Resolved'.lines) - since'[s] : Resolved'.lines[i] \notin Dirty
  <2>1. CASE s = w
    BY <1>8, <2>1 DEF Steps, Remembers
  <2>2. CASE s # w
    <3>1. s \in Worker /\ pc'[s] = pc[s] /\ since'[s] = since[s] /\ since[s] \in Nat
      BY <1>1, <1>8, <2>2, Roles DEF Steps, Moves, TypeOK
    <3>2. \A i \in 1 .. Len(Resolved.lines) - since[s] : Resolved.lines[i] \notin Dirty
      BY <1>1, <1>8, <3>1 DEF CleanFacts
    <3> QED
      BY <1>2, <3>1, <3>2
  <2> QED
    BY <2>1, <2>2
<1>9. CleanFacts'
  BY <1>6, <1>7, <1>8 DEF CleanFacts
<1> QED
  BY <1>3, <1>9

(* CopyFacts and FileFacts, as far as they speak of one worker.              *)
Copied(w) ==
  /\ pc[w] = "link" => ~Exists(plain) /\ Exists(tmp[w]) /\ tmp[w].lines = zst.lines
  /\ pc[w] \in {"unlinkZst", "publish"} => Exists(plain)
  /\ pc[w] = "publish" => Exists(tmp[w]) /\ tmp[w].lines = Sanitized(plain.lines)
  /\ pc[w] = "linkZst" => Exists(plain) /\ Exists(tmp[w]) /\ tmp[w].lines = plain.lines
  /\ pc[w] \in {"settle", "drop"} => Exists(plain) /\ Exists(zst) /\ zst.lines = plain.lines

Staged(w) ==
  /\ Numbered(tmp[w]) /\ tmp[w].tail = "whole"
  /\ Exists(tmp[w]) => tmp[w].born \notin {plain.born, zst.born}

LEMMA FilesQuiet ==
  ASSUME RolloutInv, NEW w \in Worker, Quiet(w)
  PROVE  FileFacts' /\ CopyFacts'
<1>1. /\ TypeOK /\ FileFacts /\ CopyFacts /\ UNCHANGED <<plain, zst, writing, born>>
      /\ \A v \in Worker \ {w} : pc'[v] = pc[v] /\ tmp'[v] = tmp[v]
      /\ Takes(w, holder, holder')
  BY DEF RolloutInv, Quiet, Steps, Moves
<1>2. (holder' = Server) <=> (holder = Server)
  BY <1>1, Roles DEF Takes
<1>3. \A v \in Worker : tmp'[v] = tmp[v] \/ tmp'[v] = NoFile
  BY <1>1 DEF Quiet
<1>4. ASSUME NEW v \in Worker
      PROVE  Staged(v)'
  <2>1. Staged(v) /\ born \in Nat
    BY <1>1 DEF FileFacts, Staged, TypeOK
  <2>2. CASE tmp'[v] = tmp[v]
    BY <1>1, <2>1, <2>2 DEF Staged, Numbered, Exists, NoFile
  <2>3. CASE tmp'[v] = NoFile
    BY <1>1, <2>1, <2>3 DEF Staged, Numbered, Exists, NoFile
  <2> QED
    BY <1>3, <2>2, <2>3
<1>5. FileFacts'
  <2>1. /\ Numbered(plain)' /\ Numbered(zst)' /\ zst'.tail = "whole"
        /\ (Exists(plain) /\ Exists(zst) => plain.born # zst.born)'
        /\ (holder # Server => plain.tail = "whole")'
        /\ (holder = Server => Exists(plain) /\ plain.born = writing)'
    BY <1>1, <1>2 DEF FileFacts, Numbered, Exists, NoFile
  <2> QED
    BY <1>4, <2>1 DEF FileFacts, Staged
<1>6. ASSUME NEW v \in Worker
      PROVE  Copied(v)'
  <2>1. CASE v = w
    BY <1>1, <2>1 DEF Copied, Quiet, CopyFacts, Exists, NoFile
  <2>2. CASE v # w
    BY <1>1, <2>2 DEF Copied, CopyFacts, Exists, NoFile
  <2> QED
    BY <2>1, <2>2
<1>7. CopyFacts'
  BY <1>1, <1>6 DEF CopyFacts, Copied, Exists, NoFile
<1> QED
  BY <1>5, <1>7

LEMMA FilesMakes ==
  ASSUME RolloutInv, NEW w \in Worker, Makes(w)
  PROVE  FileFacts' /\ CopyFacts'
<1>1. /\ TypeOK /\ FileFacts /\ CopyFacts /\ UNCHANGED <<plain, zst, writing>>
      /\ born \in Nat /\ born' = born + 1 /\ holder = w
      /\ \A v \in Worker \ {w} : pc'[v] = pc[v] /\ tmp'[v] = tmp[v]
      /\ Takes(w, holder, holder')
  BY DEF RolloutInv, Makes, Steps, Moves, TypeOK
<1>2. holder' # Server /\ holder # Server
  BY <1>1, Roles DEF Takes
<1>3. \A v \in Worker \ {w} : tmp[v] = NoFile /\ pc[v] \notin Writers
  BY <1>1, Alone
<1>4. plain.born \in Nat /\ zst.born \in Nat /\ plain.born <= born /\ zst.born <= born
  BY <1>1, RolloutAssumption DEF FileFacts, Numbered, TypeOK, Files
<1>5. Staged(w)'
  <2>1. tmp'[w].born = born + 1 /\ tmp'[w].tail = "whole"
    BY DEF Makes
  <2> QED
    BY <1>1, <1>4, <2>1 DEF Staged, Numbered, Exists, NoFile
<1>6. ASSUME NEW v \in Worker \ {w}
      PROVE  Staged(v)' /\ Copied(v)'
  <2>1. tmp'[v] = NoFile /\ pc'[v] \notin Writers /\ born' \in Nat
    BY <1>1, <1>3
  <2> QED
    BY <2>1 DEF Staged, Copied, Numbered, Exists, NoFile, Writers
<1>7. Copied(w)'
  BY <1>1 DEF Makes, Copies, Copied, Exists, NoFile
<1>8. FileFacts'
  BY <1>1, <1>2, <1>4, <1>5, <1>6 DEF FileFacts, Staged, Numbered, Exists, NoFile
<1>9. CopyFacts'
  BY <1>1, <1>6, <1>7 DEF CopyFacts, Copied, Exists, NoFile
<1> QED
  BY <1>8, <1>9

LEMMA FilesChange ==
  ASSUME RolloutInv, NEW w \in Worker, Changes(w)
  PROVE  FileFacts' /\ CopyFacts'
<1>1. /\ TypeOK /\ FileFacts /\ CopyFacts /\ UNCHANGED <<writing, born>>
      /\ born \in Nat /\ holder = w /\ tmp'[w] = NoFile
      /\ \A v \in Worker \ {w} : pc'[v] = pc[v] /\ tmp'[v] = tmp[v]
      /\ Takes(w, holder, holder')
  BY DEF RolloutInv, Changes, Steps, Moves, TypeOK
<1>2. holder' # Server /\ holder # Server
  BY <1>1, Roles DEF Takes
<1>3. \A v \in Worker \ {w} : tmp[v] = NoFile /\ pc[v] \notin Writers
  BY <1>1, Alone
<1>4. /\ Numbered(plain) /\ Numbered(zst) /\ Staged(w)
      /\ plain.tail = "whole" /\ zst.tail = "whole"
      /\ Exists(plain) /\ Exists(zst) => plain.born # zst.born
  BY <1>1, <1>2 DEF FileFacts, Staged
<1>5. \/ plain' = tmp[w] /\ zst' = zst /\ Exists(tmp[w]) /\ pc'[w] \in {"unlinkZst", "idle", "done"}
      \/ /\ plain' = plain /\ zst' = tmp[w] /\ Exists(tmp[w]) /\ pc'[w] = "settle"
         /\ Exists(plain) /\ tmp[w].lines = plain.lines
      \/ plain' = plain /\ zst' = NoFile /\ Exists(plain) /\ pc'[w] \in {"stat", "idle"}
      \/ plain' = NoFile /\ zst' = zst /\ Exists(zst) /\ pc'[w] = "idle"
  BY DEF Changes
<1>6. /\ Numbered(plain)' /\ Numbered(zst)' /\ plain'.tail = "whole" /\ zst'.tail = "whole"
      /\ Exists(plain') /\ Exists(zst') => plain'.born # zst'.born
  BY <1>1, <1>4, <1>5, NoFileTyped DEF Numbered, Staged, Exists, NoFile
<1>7. ASSUME NEW v \in Worker
      PROVE  Staged(v)'
  <2>1. tmp'[v] = NoFile /\ born' \in Nat
    BY <1>1, <1>3
  <2> QED
    BY <2>1 DEF Staged, Numbered, Exists, NoFile
<1>8. FileFacts'
  BY <1>2, <1>6, <1>7 DEF FileFacts, Staged, Exists, NoFile
<1>9. ASSUME NEW v \in Worker
      PROVE  Copied(v)'
  <2>1. CASE v # w
    <3>1. pc'[v] \notin Writers
      BY <1>1, <1>3, <2>1
    <3> QED
      BY <3>1 DEF Copied, Writers
  <2>2. CASE v = w
    BY <1>5, <2>2 DEF Copied, Exists, NoFile
  <2> QED
    BY <2>1, <2>2
<1>10. Exists(plain') \/ Exists(zst')
  BY <1>5
<1>11. CopyFacts'
  BY <1>9, <1>10 DEF CopyFacts, Copied, Exists, NoFile
<1> QED
  BY <1>8, <1>11

LEMMA WorkerInvariance ==
  ASSUME RolloutInv, NEW w \in Worker, Quiet(w) \/ Makes(w) \/ Changes(w)
  PROVE  RolloutInv'
<1>1. Steps(w) /\ FileFacts' /\ CopyFacts'
  BY FilesQuiet, FilesMakes, FilesChange DEF Quiet, Makes, Changes
<1>2. LockFacts'
  BY <1>1, LockStep
<1>3. NothingLost' /\ CleanFacts'
  <2>1. CASE Quiet(w) \/ Makes(w)
    <3>1. Resolved' = Resolved
      BY <2>1 DEF Quiet, Makes, Resolved
    <3> QED
      BY <1>1, <3>1, CleanStep
  <2>2. CASE Changes(w)
    BY <1>1, <2>2, CleanStep DEF Changes
  <2> QED
    BY <2>1, <2>2
<1>4. TypeOK'
  <2>1. born \in 1..MaxFiles /\ Len(tmp[w].lines) <= MaxLines /\ Len(NoFile.lines) <= MaxLines
    BY NoFileTyped, RolloutAssumption DEF RolloutInv, TypeOK
  <2>2. /\ plain' \in {plain, tmp[w], NoFile} /\ zst' \in {zst, tmp[w], NoFile}
        /\ Len(tmp'[w].lines) <= MaxLines /\ born' \in 1..MaxFiles
    <3>1. CASE Quiet(w)
      BY <2>1, <3>1 DEF Quiet
    <3>2. CASE Makes(w)
      BY <2>1, <3>2 DEF Makes
    <3>3. CASE Changes(w)
      BY <2>1, <3>3 DEF Changes
    <3> QED
      BY <3>1, <3>2, <3>3
  <2> QED
    BY <1>1, <2>2, TypeStep
<1> QED
  BY <1>1, <1>2, <1>3, <1>4 DEF RolloutInv

LEMMA SwitcherInvariance ==
  ASSUME RolloutInv, NEW s \in Switcher, SwitcherStep(s)
  PROVE  RolloutInv'
<1>1. s \in Worker
  BY Roles
<1>2. CASE \/ Begin(s) \/ Resolve(s) \/ Compressed(s) \/ Report(s) \/ Maintain(s)
           \/ ClaimRestore(s) \/ ClaimRewrite(s) \/ Stat(s) \/ Cached(s) \/ Scan(s)
           \/ Certify(s)
  BY <1>1, <1>2, QuietStarts, QuietMaintain, QuietClaims, QuietStat, QuietCached, QuietScan,
     QuietCertify, WorkerInvariance
<1>3. CASE Restore(s) \/ Rewrite(s) \/ Link(s) \/ UnlinkZst(s) \/ Publish(s)
  BY <1>1, <1>3, RestoreMakes, RewriteMakes, LinkChanges, UnlinkChanges, PublishChanges,
     WorkerInvariance
<1> QED
  BY <1>2, <1>3 DEF SwitcherStep

LEMMA DieInvariance ==
  ASSUME RolloutInv, NEW w \in Worker, Die(w)
  PROVE  RolloutInv'
<1>1. Apart /\ Return(w, "idle")
  BY FaultTyped DEF Die, Apart, Quit, ghosts, RolloutInv, TypeOK
<1>2. Quiet(w)
  BY <1>1, QuietReturn
<1> QED
  BY <1>2, WorkerInvariance

LEMMA StartQuiet ==
  ASSUME RolloutInv, StartMaintenance
  PROVE  Quiet(Maintainer)
<1> DEFINE w == Maintainer
<1>1. /\ TypeOK /\ w \in Worker /\ w \notin Switcher /\ pc[w] = "idle" /\ Apart
      /\ UNCHANGED <<holder, seen, card, tmp>> /\ maint = Nobody /\ maint' = w
      /\ Goto(w, "shut")
  BY Roles, FaultTyped DEF RolloutInv, TypeOK, StartMaintenance, At, Apart, ghosts, mine, NoFault
<1>2. Moves(w) /\ pc'[w] = "shut"
  BY <1>1, Goes DEF Moves, Takes, TypeOK, Labels
<1>3. Stands(w)
  BY <1>1, <1>2, NoStaging DEF Stands, Writers, Keepers, Maintenance
<1>4. Remembers(w)
  BY <1>1, <1>2 DEF Remembers, RolloutInv, CleanFacts, Apart
<1>5. Steps(w)
  BY <1>1, <1>2, <1>3, <1>4 DEF Steps, Apart, TypeOK
<1> QED
  BY <1>1, <1>2, <1>5 DEF Quiet, Apart

LEMMA AgeInvariance ==
  ASSUME RolloutInv, Age
  PROVE  RolloutInv'
<1>1. UNCHANGED <<plain, zst, certificate, holder, maint, writing, pc, seen, card, tmp,
                  since, said, born, faults>> /\ cold' = TRUE
  BY DEF Age, locks, mine, ghosts
<1>2. TypeOK'
  BY <1>1 DEF RolloutInv, TypeOK, Exists, NoFile
<1>3. LockFacts' /\ NothingLost' /\ Resolved' = Resolved
  BY <1>1 DEF RolloutInv, LockFacts, NothingLost, Resolved, Exists, NoFile
<1>4. FileFacts' /\ CopyFacts'
  BY <1>1 DEF RolloutInv, FileFacts, CopyFacts, Numbered, Exists, NoFile
<1>5. CleanFacts'
  BY <1>1, <1>3 DEF RolloutInv, CleanFacts, Vouched, CleanTo
<1> QED
  BY <1>2, <1>3, <1>4, <1>5 DEF RolloutInv

LEMMA MaintenanceInvariance ==
  ASSUME RolloutInv, MaintenanceStep
  PROVE  RolloutInv'
<1>1. Maintainer \in Worker
  BY Roles
<1>2. CASE Age
  BY <1>2, AgeInvariance
<1>3. CASE StartMaintenance \/ ClaimCompress \/ Encode \/ LinkZst \/ Settle \/ DropPlain
  BY <1>1, <1>3, StartQuiet, QuietClaims, EncodeMakes, LinkZstChanges, SettleChanges,
     DropChanges, WorkerInvariance
<1> QED
  BY <1>2, <1>3 DEF MaintenanceStep

-----------------------------------------------------------------------------
(* What the app-server does *)

(* While it writes, nobody is in the middle of a change.                     *)
LEMMA ServerAlone ==
  ASSUME RolloutInv, holder \in {Server, Nobody}
  PROVE  \A w \in Worker : pc[w] \notin Writers /\ tmp[w] = NoFile
<1>1. \A w \in Worker : pc[w] \notin Writers
  BY Roles DEF RolloutInv, LockFacts
<1> QED
  BY <1>1, NoStaging DEF RolloutInv, Writers

LEMMA OpenInvariance ==
  ASSUME RolloutInv, ServerOpen
  PROVE  RolloutInv'
<1>1. /\ UNCHANGED <<plain, zst, certificate, maint, pc, seen, card, tmp, since, said, born, faults>>
      /\ Exists(plain) /\ holder = Nobody /\ holder' = Server
      /\ writing' = plain.born /\ cold' = FALSE
  BY DEF ServerOpen, Wl!Take, mine, ghosts
<1>2. \A w \in Worker : pc[w] \notin Writers
  BY <1>1, ServerAlone
<1>3. TypeOK'
  <2>1. plain.born \in 0..MaxFiles
    BY DEF RolloutInv, TypeOK, Files
  <2> QED
    BY <1>1, <2>1 DEF RolloutInv, TypeOK, Exists, NoFile
<1>4. LockFacts'
  BY <1>1, <1>2 DEF RolloutInv, LockFacts
<1>5. NothingLost' /\ Resolved' = Resolved
  BY <1>1 DEF RolloutInv, NothingLost, Resolved, Exists, NoFile
<1>6. FileFacts'
  BY <1>1, Roles DEF RolloutInv, FileFacts, Numbered, Exists, NoFile
<1>7. CopyFacts'
  BY <1>1 DEF RolloutInv, CopyFacts, Exists, NoFile
<1>8. CleanFacts'
  BY <1>1, <1>5 DEF RolloutInv, CleanFacts, Vouched, CleanTo
<1> QED
  BY <1>3, <1>4, <1>5, <1>6, <1>7, <1>8 DEF RolloutInv

LEMMA CloseInvariance ==
  ASSUME RolloutInv, ServerClose
  PROVE  RolloutInv'
<1>1. /\ UNCHANGED <<plain, zst, certificate, maint, cold, pc, seen, card, tmp, since, said, born, faults>>
      /\ plain.tail = "whole" /\ holder = Server /\ holder' = Nobody /\ writing' = 0
  BY DEF ServerClose, Wl!Give, mine, ghosts
<1>2. \A w \in Worker : pc[w] \notin Writers
  BY <1>1, ServerAlone
<1>3. TypeOK'
  <2>1. 0 \in 0..MaxFiles
    BY RolloutAssumption
  <2> QED
    BY <1>1, <2>1 DEF RolloutInv, TypeOK, Exists, NoFile
<1>4. LockFacts'
  BY <1>1, <1>2 DEF RolloutInv, LockFacts
<1>5. NothingLost' /\ Resolved' = Resolved
  BY <1>1 DEF RolloutInv, NothingLost, Resolved, Exists, NoFile
<1>6. FileFacts'
  BY <1>1, Roles DEF RolloutInv, FileFacts, Numbered, Exists, NoFile
<1>7. CopyFacts'
  BY <1>1 DEF RolloutInv, CopyFacts, Exists, NoFile
<1>8. CleanFacts'
  BY <1>1, <1>5 DEF RolloutInv, CleanFacts, Vouched, CleanTo
<1> QED
  BY <1>3, <1>4, <1>5, <1>6, <1>7, <1>8 DEF RolloutInv

(* It adds to the file the path names, whose lines stay where they are.      *)
LEMMA WritesOn ==
  ASSUME RolloutInv, holder = Server, UNCHANGED <<zst, certificate, locks, writing, pc, mine, born>>,
         plain' \in Files, plain'.born = plain.born, Len(plain'.lines) <= MaxLines,
         Len(plain.lines) <= Len(plain'.lines),
         \A i \in 1..Len(plain.lines) : plain'.lines[i] = plain.lines[i]
  PROVE  /\ LockFacts' /\ FileFacts' /\ CopyFacts'
         /\ Exists(plain) /\ Exists(plain') /\ Resolved = plain /\ Resolved' = plain'
         /\ \A c \in Certificates : Vouched(c) => CleanTo(c.size)'
<1>1. UNCHANGED <<zst, certificate, holder, maint, writing, pc, seen, card, tmp, born>>
  BY DEF locks, mine
<1>2. \A w \in Worker : pc[w] \notin Writers /\ tmp[w] = NoFile
  BY ServerAlone
<1>3. plain.born # 0 /\ Exists(plain) /\ plain.born = writing
  BY DEF RolloutInv, FileFacts, Numbered
<1>4. Exists(plain') /\ Resolved = plain /\ Resolved' = plain'
  BY <1>3, NoFileTyped DEF Resolved, Exists, NoFile
<1>5. LockFacts'
  BY <1>1 DEF RolloutInv, LockFacts
<1>6. FileFacts'
  <2>1. \A w \in Worker : Numbered(tmp[w]) /\ tmp[w].tail = "whole"
    BY DEF RolloutInv, FileFacts
  <2> QED
    BY <1>1, <1>2, <1>3, <1>4, <2>1 DEF RolloutInv, FileFacts, Numbered, Exists, NoFile
<1>7. CopyFacts'
  BY <1>1, <1>2, <1>4 DEF CopyFacts, Writers, Exists, NoFile
<1>8. ASSUME NEW c \in Certificates, Vouched(c)
      PROVE  CleanTo(c.size)'
  <2>1. c.size \in Nat
    BY RolloutAssumption DEF Certificates
  <2>2. plain.lines \in Seq(Kinds) /\ plain'.lines \in Seq(Kinds)
    BY DEF RolloutInv, TypeOK, Files
  <2>3. Len(plain.lines) \in Nat /\ Len(plain'.lines) \in Nat
    BY <2>2
  <2> QED
    BY <1>4, <1>8, <2>1, <2>3 DEF Vouched, CleanTo
<1> QED
  BY <1>3, <1>4, <1>5, <1>6, <1>7, <1>8

LEMMA GoesOnInvariance ==
  ASSUME RolloutInv, ServerGoesOn
  PROVE  RolloutInv'
<1>1. PICK t \in Tails : plain' = [plain EXCEPT !.tail = t]
  BY DEF ServerGoesOn, Tails
<1>2. /\ UNCHANGED <<zst, certificate, locks, cold, writing, pc, mine, since, said, born, faults>>
      /\ holder = Server
  BY DEF ServerGoesOn, ghosts
<1>3. /\ plain \in Files /\ Len(plain.lines) <= MaxLines /\ plain.lines \in Seq(Kinds)
      /\ Len(plain.lines) \in Nat
  BY DEF RolloutInv, TypeOK, Files
<1>4. plain' \in Files /\ plain'.born = plain.born /\ plain'.lines = plain.lines
  BY <1>1, <1>3 DEF Files
<1>5. /\ LockFacts' /\ FileFacts' /\ CopyFacts'
      /\ Exists(plain) /\ Exists(plain') /\ Resolved = plain /\ Resolved' = plain'
      /\ \A c \in Certificates : Vouched(c) => CleanTo(c.size)'
  BY <1>2, <1>3, <1>4, WritesOn
<1>6. UNCHANGED <<zst, certificate, holder, maint, cold, writing, pc, seen, card, tmp, since,
                  said, born, faults>>
  BY <1>2 DEF locks, mine
<1>7. TypeOK'
  BY <1>3, <1>4, <1>6 DEF RolloutInv, TypeOK, Exists, NoFile
<1>8. NothingLost'
  BY <1>4, <1>5, <1>6 DEF RolloutInv, NothingLost
<1>9. CleanFacts'
  <2>1. certificate \in Certificates /\ \A w \in Worker : card[w] \in Certificates
    BY DEF RolloutInv, TypeOK
  <2>2. Vouched(certificate)' /\ \A w \in Worker : Vouched(card[w])'
    BY <1>5, <1>6, <2>1 DEF RolloutInv, CleanFacts, Vouched
  <2> QED
    BY <1>4, <1>5, <1>6, <2>2 DEF RolloutInv, CleanFacts
<1> QED
  BY <1>5, <1>7, <1>8, <1>9 DEF RolloutInv

LEMMA AppendInvariance ==
  ASSUME RolloutInv, NEW k \in Kinds, ServerAppend(k)
  PROVE  RolloutInv'
<1>1. /\ UNCHANGED <<zst, certificate, locks, writing, pc, mine, born, faults>>
      /\ holder = Server /\ Len(plain.lines) < MaxLines /\ cold' = FALSE
      /\ said' = said + 1
      /\ since' = [s \in Switcher |-> IF At(s, "idle") THEN 0 ELSE since[s] + 1]
  BY DEF ServerAppend
<1>2. plain' = [plain EXCEPT !.lines = Append(@, k), !.tail = "torn"]
  BY <1>1 DEF ServerAppend, RolloutInv, FileFacts
<1>3. plain \in Files /\ plain.lines \in Seq(Kinds)
  BY DEF RolloutInv, TypeOK, Files
<1>4. /\ Append(plain.lines, k) \in Seq(Kinds)
      /\ Len(Append(plain.lines, k)) = Len(plain.lines) + 1 /\ Len(plain.lines) \in Nat
      /\ \A i \in 1..Len(plain.lines) : Append(plain.lines, k)[i] = plain.lines[i]
  BY <1>3
<1>5. plain'.born = plain.born /\ plain'.lines = Append(plain.lines, k)
  BY <1>2, <1>3 DEF Files
<1>6. plain' \in Files
  BY <1>2, <1>3, <1>4 DEF Files, Tails
<1>7. Len(plain'.lines) <= MaxLines /\ Len(plain.lines) <= Len(plain'.lines)
  BY <1>1, <1>4, <1>5, RolloutAssumption
<1>8. /\ LockFacts' /\ FileFacts' /\ CopyFacts'
      /\ Exists(plain) /\ Exists(plain') /\ Resolved = plain /\ Resolved' = plain'
      /\ \A c \in Certificates : Vouched(c) => CleanTo(c.size)'
  BY <1>1, <1>4, <1>5, <1>6, <1>7, WritesOn
<1>9. UNCHANGED <<zst, certificate, holder, maint, writing, pc, seen, card, tmp, born, faults>>
  BY <1>1 DEF locks, mine
<1>10. TypeOK'
  <2>1. since \in [Switcher -> Nat] /\ said \in Nat
    BY DEF RolloutInv, TypeOK
  <2>2. since' \in [Switcher -> Nat]
    BY <1>1, <2>1
  <2>3. cold' \in BOOLEAN
    BY <1>1
  <2>4. said' \in Nat
    BY <1>1, <2>1
  <2> QED
    BY <1>6, <1>7, <1>9, <2>2, <2>3, <2>4 DEF RolloutInv, TypeOK, Exists, NoFile
<1>11. NothingLost'
  BY <1>1, <1>4, <1>5, <1>8 DEF RolloutInv, NothingLost
<1>12. CleanFacts'
  <2>1. certificate \in Certificates /\ \A w \in Worker : card[w] \in Certificates
    BY DEF RolloutInv, TypeOK
  <2>2. Vouched(certificate)' /\ \A w \in Worker : Vouched(card[w])'
    BY <1>8, <1>9, <2>1 DEF RolloutInv, CleanFacts, Vouched
  <2>3. ASSUME NEW s \in Switcher, pc'[s] \in {"certify", "done"}
        PROVE  \A i \in 1 .. Len(Resolved'.lines) - since'[s] : Resolved'.lines[i] \notin Dirty
    <3>1. since'[s] = since[s] + 1 /\ since[s] \in Nat
      BY <1>1, <1>9, <2>3 DEF At, RolloutInv, TypeOK
    <3>2. \A i \in 1 .. Len(plain.lines) - since[s] : plain.lines[i] \notin Dirty
      BY <1>8, <1>9, <2>3 DEF RolloutInv, CleanFacts
    <3>3. /\ Len(plain'.lines) - since'[s] = Len(plain.lines) - since[s]
          /\ 1 .. Len(plain.lines) - since[s] \subseteq 1 .. Len(plain.lines)
      <4>1. Len(plain'.lines) = Len(plain.lines) + 1 /\ Len(plain.lines) \in Nat
        BY <1>4, <1>5
      <4> QED
        BY <3>1, <4>1
    <3> QED
      BY <1>4, <1>5, <1>8, <3>2, <3>3
  <2> QED
    BY <2>2, <2>3 DEF CleanFacts
<1> QED
  BY <1>8, <1>10, <1>11, <1>12 DEF RolloutInv

-----------------------------------------------------------------------------
(* The theorems *)

LEMMA RolloutStart ==
  Init => RolloutInv
<1> SUFFICES ASSUME Init
             PROVE  RolloutInv
  OBVIOUS
<1> DEFINE f == [born |-> 1, ino |-> 1, lines |-> <<"text">>, tail |-> "whole"]
<1>1. plain = f /\ zst = NoFile /\ Exists(plain) /\ Resolved = plain
  BY NoFileTyped DEF Init, Exists, Resolved
<1>2. <<"text">> \in Seq(Kinds) /\ Len(<<"text">>) = 1
  BY DEF Kinds
<1>3. f \in Files
  BY <1>2, RolloutAssumption DEF Files, Tails
<1>4. TypeOK
  <2>1. /\ holder \in Worker \cup {Server, Nobody} /\ maint \in Worker \cup {Nobody}
        /\ cold \in BOOLEAN /\ said = Len(plain.lines)
    BY DEF Init
  <2>2. writing \in 0..MaxFiles /\ born \in 1..MaxFiles /\ faults \in 0..MaxFaults
    BY RolloutAssumption DEF Init
  <2>3. pc \in [Worker -> Labels] /\ since \in [Switcher -> Nat]
    BY DEF Init, Labels
  <2>4. /\ certificate \in Certificates /\ card \in [Worker -> Certificates]
        /\ seen \in [Worker -> Stamps] /\ tmp \in [Worker -> Files] /\ zst \in Files
        /\ \A w \in Worker : tmp[w] = NoFile
    BY NoFileTyped DEF Init
  <2>5. /\ Len(plain.lines) <= MaxLines /\ Len(NoFile.lines) <= MaxLines
        /\ Len(plain.lines) \in Nat
    BY <1>1, <1>2, NoFileTyped, RolloutAssumption
  <2>6. \A g \in {plain, zst} \cup {tmp[w] : w \in Worker} : Len(g.lines) <= MaxLines
    BY <1>1, <2>4, <2>5
  <2> QED
    BY <1>1, <1>3, <2>1, <2>2, <2>3, <2>4, <2>5, <2>6, NoFileTyped DEF TypeOK
<1>5. LockFacts
  BY Roles DEF Init, LockFacts, Writers, Keepers, Maintenance
<1>6. FileFacts
  <2>1. /\ plain.born = 1 /\ plain.tail = "whole" /\ zst = NoFile /\ born = 1
        /\ holder = Nobody /\ \A w \in Worker : tmp[w] = NoFile
    BY DEF Init
  <2> QED
    BY <2>1, NoFileTyped, Roles DEF FileFacts, Numbered
<1>7. CopyFacts
  BY <1>1 DEF Init, CopyFacts
<1>8. NothingLost
  BY <1>1 DEF Init, NothingLost
<1>9. CleanFacts
  <2>1. /\ certificate = NoCertificate /\ \A w \in Worker : card[w] = NoCertificate
        /\ \A s \in Switcher : pc[s] = "idle"
    BY Roles DEF Init
  <2> QED
    BY <1>4, <2>1, VouchedNone DEF CleanFacts
<1> QED
  BY <1>4, <1>5, <1>6, <1>7, <1>8, <1>9 DEF RolloutInv

LEMMA RolloutStutter ==
  ASSUME RolloutInv, UNCHANGED vars
  PROVE  RolloutInv'
<1>1. UNCHANGED <<plain, zst, certificate, holder, maint, cold, writing, pc, seen, card, tmp,
                  since, said, born, faults>>
  BY DEF vars, locks, mine, ghosts
<1>2. TypeOK' /\ LockFacts' /\ NothingLost' /\ Resolved' = Resolved
  BY <1>1 DEF RolloutInv, TypeOK, LockFacts, NothingLost, Resolved, Exists, NoFile
<1>3. FileFacts' /\ CopyFacts'
  BY <1>1 DEF RolloutInv, FileFacts, CopyFacts, Numbered, Exists, NoFile
<1>4. CleanFacts'
  BY <1>1, <1>2 DEF RolloutInv, CleanFacts, Vouched, CleanTo
<1> QED
  BY <1>2, <1>3, <1>4 DEF RolloutInv

LEMMA RolloutInvariance ==
  Spec => []RolloutInv
<1>1. Init => RolloutInv
  BY RolloutStart
<1>2. RolloutInv /\ [Next]_vars => RolloutInv'
  <2> SUFFICES ASSUME RolloutInv, [Next]_vars
               PROVE  RolloutInv'
    OBVIOUS
  <2>1. ASSUME NEW s \in Switcher, SwitcherStep(s)
        PROVE  RolloutInv'
    BY <2>1, SwitcherInvariance
  <2>2. CASE MaintenanceStep
    BY <2>2, MaintenanceInvariance
  <2>3. CASE ServerStep
    BY <2>3, OpenInvariance, AppendInvariance, GoesOnInvariance, CloseInvariance DEF ServerStep
  <2>4. ASSUME NEW w \in Worker, Die(w)
        PROVE  RolloutInv'
    BY <2>4, DieInvariance
  <2>5. CASE UNCHANGED vars
    BY <2>5, RolloutStutter
  <2> QED
    BY <2>1, <2>2, <2>3, <2>4, <2>5 DEF Next
<1> QED
  BY <1>1, <1>2, PTL DEF Spec

(* Every variable keeps its type, and a staging file never outlives the      *)
(* restore, rewrite or compression that made it.                             *)
THEOREM TypeCorrect == Spec => []TypeOK
<1>1. RolloutInv => TypeOK
  BY DEF RolloutInv
<1> QED
  BY <1>1, RolloutInvariance, PTL

(* Whatever the switchers, the maintenance run and the app-server do, in any *)
(* order and with any failure or death, whoever reads the history finds      *)
(* every line that was ever written.                                         *)
THEOREM HistoryKept == Spec => []NothingLost
<1>1. RolloutInv => NothingLost
  BY DEF RolloutInv
<1> QED
  BY <1>1, RolloutInvariance, PTL

(* No rewrite, restore or compression replaces the file the app-server has   *)
(* open: the path still names the file it appends to.                        *)
THEOREM AppendsStay == Spec => []AppendsLand
<1>1. RolloutInv => AppendsLand
  BY DEF RolloutInv, FileFacts, AppendsLand
<1> QED
  BY <1>1, RolloutInvariance, PTL

(* A certificate whose stamp or cursor matches the file is true of it, also  *)
(* when the file is another one, with the number of one that is gone.        *)
THEOREM CertificatesTrue == Spec => []CertificateSound
<1>1. RolloutInv => CertificateSound
  <2> SUFFICES ASSUME RolloutInv, Exists(plain)
               PROVE  /\ certificate.stamp = Stamp(plain) => ~DirtyAfter(plain, 0) /\ ~Torn(plain)
                      /\ \A i \in 1 .. Cursor(certificate, plain) : plain.lines[i] \notin Dirty
    BY DEF CertificateSound
  <2>1. /\ TypeOK /\ Vouched(certificate) /\ certificate \in Certificates
        /\ Resolved = plain /\ Len(plain.lines) \in Nat
    BY ResolvedTyped DEF RolloutInv, CleanFacts, TypeOK, Resolved
  <2>2. ASSUME certificate.stamp = Stamp(plain)
        PROVE  ~DirtyAfter(plain, 0) /\ ~Torn(plain)
    BY <2>1, <2>2, VouchedMatches DEF DirtyAfter, Complete
  <2>3. \A i \in 1 .. Cursor(certificate, plain) : plain.lines[i] \notin Dirty
    BY <2>1 DEF Vouched, CleanTo, Cursor
  <2> QED
    BY <2>2, <2>3
<1> QED
  BY <1>1, RolloutInvariance, PTL

(* When sanitation has succeeded and its caller goes on to load the thread,  *)
(* as in every handoff, every line that was there when it began is one the   *)
(* target provider takes, whoever scans, rewrites, restores or appends       *)
(* meanwhile.  A thread/resume whose lock was refused is not among them.     *)
THEOREM LoadsClean == Spec => []HistoryClean
<1>1. RolloutInv => HistoryClean
  BY DEF RolloutInv, CleanFacts, HistoryClean, At
<1> QED
  BY <1>1, RolloutInvariance, PTL
==============================================================================
