---------------------------- MODULE RequestsProofs ----------------------------
(***************************************************************************)
(* Proofs about Requests, for any number of requests and internal calls:   *)
(* no channel is closed twice, no answer is taken for another's, internal  *)
(* answers stay internal, the lock outlasts an unanswered turn/start, and  *)
(* what is saved is what the app-server accepted.                          *)
(***************************************************************************)
EXTENDS Requests, TLAPS

(* The handler has its request in hand and has not written it.               *)
Before == {"lock", "checks", "calling", "refuse", "write"}

Swapped == bridge \in {"finish", "closed"}

(* A request is at one place at a time on its way: unread, with its handler, on
   the wire to or from the app-server, with the reader.  It has no answer yet
   as long as it is on the way.                                              *)
Places ==
  \A r \in Request :
    /\ kind[r] = "none" =>
         /\ cur # r /\ msg # r /\ lock # r /\ closes[r] = 0 /\ answers[r] = 0
         /\ r \notin desktop \cup batch \cup up \cup down \cup accepted
    /\ cur = r /\ pc \in Before => r \notin up \cup down /\ msg # r /\ answers[r] = 0
    /\ r \in up => r \notin down
    /\ r \in up \cup down => msg # r
    /\ r \in up \cup down \/ msg = r => answers[r] = 0
    /\ answers[r] <= 1

(* What is on its way is tracked until closeState empties the map, under an id of
   its own; what is tracked, or about to be settled, is not yet settled.     *)
Tables ==
  /\ \A q, r \in desktop : id[q] = id[r] => q = r
  /\ Swapped => desktop = {}
  /\ ~Swapped => batch = {}
  /\ bridge # "run" => cut = Link
  /\ "server" \in cut => up = {} /\ down = {}
  /\ rd = "settle" => msg \in Request \ (desktop \cup batch)
  /\ \A r \in Request :
       /\ ~Swapped /\ (r \in up \cup down \/ (rd = "route" /\ msg = r) \/ (cur = r /\ pc \in Before))
            => r \in desktop
       /\ r \in desktop \cup batch \/ (rd = "settle" /\ msg = r) => closes[r] = 0
       /\ closes[r] <= 1

(* An internal request that may still be answered is in the internal map until
   closeState empties it.                                                    *)
Waiters ==
  /\ \A c \in Call :
       /\ call[c] \in {"idle", "registered"} => c \notin up \cup down /\ msg # c
       /\ c \in up => c \notin down
       /\ c \in up \cup down => msg # c
       /\ ~Swapped /\ (c \in up \cup down \/ (rd = "route" /\ msg = c) \/ call[c] = "registered")
            => internal[c] # "absent"
  /\ InternalHidden

(* The handler holds the lock until it writes, and a turn keeps it.           *)
Fencing ==
  /\ pc \in {"checks", "calling", "refuse", "write"} /\ kind[cur] # "plain" =>
       lock = cur \/ "server" \in cut
  /\ pc \in {"await", "save"} => kind[cur] \in Awaited
  /\ FenceUntilAnswered

(* What is settled has the verdict of the app-server, and a settings update on
   its way or settled has its handler waiting, unless the connection ends.   *)
Saving ==
  /\ okay \subseteq accepted /\ saved \subseteq accepted
  /\ rd = "settle" /\ msg \in accepted => msg \in okay
  /\ pc = "save" => cur \in okay /\ closes[cur] > 0
  /\ cut = {} => \A r \in accepted : closes[r] > 0 => r \in okay
  /\ cut = {} /\ pc # "exit" =>
       \A r \in Request :
         /\ kind[r] = "settings"
         /\ \/ r \in up \cup down
            \/ rd \in {"route", "settle"} /\ msg = r
            \/ r \in accepted \ saved /\ closes[r] > 0
         => cur = r /\ pc \in {"await", "save"}

RequestsInv == TypeOK /\ Places /\ Tables /\ Waiters /\ Fencing /\ Saving

-----------------------------------------------------------------------------

LEMMA InitInv == Init => RequestsInv
BY RequestsAssumption DEF Init, RequestsInv, TypeOK, Places, Tables, Waiters, Fencing, Saving,
   InternalHidden, FenceUntilAnswered, Request, Kind, Link, Swapped, Before

LEMMA ArriveInv ==
  ASSUME NEW r \in Request, NEW k \in Kind, NEW i \in 1 .. r, RequestsInv, Arrive(r, k, i)
  PROVE  RequestsInv'
<1> DEFINE Same == UNCHANGED <<sub, rel, okay, closes, internal, call, buffer, up, down, accepted,
                              rd, msg, bridge, batch, cut, lock, saved>>
           Refused == answers' = [answers EXCEPT ![r] = @ + 1] /\ UNCHANGED <<pc, cur, desktop>>
           Taken == /\ desktop' = desktop \cup {r} /\ cur' = r /\ UNCHANGED answers
                    /\ pc' \in {"write", "lock"} /\ (pc' = "write" => k = "plain")
                    /\ \A q \in desktop : id[q] # i
<1>0. /\ i \in Request /\ r # Nobody /\ kind[r] = "none" /\ k # "none"
      /\ pc = "read" /\ cur = Nobody /\ "desktop" \notin cut
  <2>1. i \in Request
    BY RequestsAssumption DEF Request
  <2>2. kind[r] = "none" /\ pc = "read" /\ "desktop" \notin cut
    BY DEF Arrive, Unread
  <2>3. cur = Nobody
    BY <2>2 DEF RequestsInv, TypeOK
  <2>4. r # Nobody /\ k # "none"
    BY RequestsAssumption DEF Kind
  <2> QED
    BY <2>1, <2>2, <2>3, <2>4
<1>1. /\ i \in Request /\ r # Nobody /\ kind[r] = "none" /\ k # "none"
      /\ pc = "read" /\ cur = Nobody /\ "desktop" \notin cut /\ Same
      /\ kind' = [kind EXCEPT ![r] = k] /\ id' = [id EXCEPT ![r] = i]
  BY <1>0 DEF Arrive, pump, marks, calls, wire, reader, ends
<1>2. Refused \/ Taken
  BY DEF Arrive, Tracked, pump
<1>3. TypeOK /\ Places /\ Tables /\ Waiters /\ Fencing /\ Saving
  BY DEF RequestsInv
<1>4. bridge = "run"
  BY <1>1, <1>3 DEF Tables, Link
<1> HIDE DEF Same, Refused, Taken
<1>5. TypeOK'
  <2>1. CASE Refused
    BY <1>1, <1>3, <2>1 DEF TypeOK, Same, Refused
  <2>2. CASE Taken
    BY <1>1, <1>3, <2>2 DEF TypeOK, Same, Taken
  <2> QED
    BY <1>2, <2>1, <2>2
<1>6. Places'
  <2>1. CASE Refused
    BY <1>1, <1>3, <2>1 DEF TypeOK, Places, Same, Refused, Before
  <2>2. CASE Taken
    BY <1>1, <1>3, <2>2 DEF TypeOK, Places, Same, Taken, Before
  <2> QED
    BY <1>2, <2>1, <2>2
<1>7. Tables'
  <2>1. CASE Refused
    BY <1>1, <1>3, <1>4, <2>1 DEF TypeOK, Places, Tables, Same, Refused, Before, Swapped, Link
  <2>2. CASE Taken
    BY <1>1, <1>3, <1>4, <2>2 DEF TypeOK, Places, Tables, Same, Taken, Before, Swapped, Link
  <2> QED
    BY <1>2, <2>1, <2>2
<1>8. Waiters'
  BY <1>1, <1>3 DEF TypeOK, Waiters, InternalHidden, Same, Swapped
<1>9. Fencing'
  <2>1. CASE Refused
    BY <1>1, <1>3, <2>1 DEF TypeOK, Places, Fencing, FenceUntilAnswered, Same, Refused, Awaited
  <2>2. CASE Taken
    BY <1>1, <1>3, <2>2 DEF TypeOK, Places, Fencing, FenceUntilAnswered, Same, Taken, Awaited
  <2> QED
    BY <1>2, <2>1, <2>2
<1>10. Saving'
  BY <1>1, <1>2, <1>3 DEF TypeOK, Places, Saving, Same, Refused, Taken
<1> QED
  BY <1>5, <1>6, <1>7, <1>8, <1>9, <1>10 DEF RequestsInv

LEMMA LockThreadInv ==
  ASSUME RequestsInv, LockThread
  PROVE  RequestsInv'
<1> USE RequestsAssumption DEF RequestsInv, TypeOK, LockThread, marks, calls, wire, reader, ends, ghosts
<1>1. TypeOK'
  OBVIOUS
<1>2. Places'
  BY DEF Places, Before
<1>3. Tables'
  BY DEF Tables, Places, Before, Swapped, Link
<1>4. Waiters'
  BY DEF Waiters, Tables, InternalHidden, Swapped, Link
<1>5. Fencing'
  BY DEF Fencing, Places, Tables, FenceUntilAnswered, Before, Swapped, Awaited, Link
<1>6. Saving'
  BY DEF Saving, Places, Tables, Fencing, Before, Swapped, Awaited, Link
<1> QED
  BY <1>1, <1>2, <1>3, <1>4, <1>5, <1>6

LEMMA LockCancelledInv ==
  ASSUME RequestsInv, LockCancelled
  PROVE  RequestsInv'
<1> USE RequestsAssumption DEF RequestsInv, TypeOK, LockCancelled, Reply, Return, Released, Cancelled, marks, calls, wire, reader, ends
<1>1. TypeOK'
  OBVIOUS
<1>2. Places'
  BY DEF Places, Before
<1>3. Tables'
  BY DEF Tables, Places, Before, Swapped, Link
<1>4. Waiters'
  BY DEF Waiters, Tables, InternalHidden, Swapped, Link
<1>5. Fencing'
  BY DEF Fencing, Places, Tables, FenceUntilAnswered, Before, Swapped, Awaited, Link
<1>6. Saving'
  BY DEF Saving, Places, Tables, Fencing, Before, Swapped, Awaited, Link
<1> QED
  BY <1>1, <1>2, <1>3, <1>4, <1>5, <1>6

LEMMA CallReturnsInv ==
  ASSUME RequestsInv, CallReturns
  PROVE  RequestsInv'
<1> USE RequestsAssumption DEF RequestsInv, TypeOK, CallReturns, marks, calls, wire, reader, ends, ghosts
<1>1. TypeOK'
  OBVIOUS
<1>2. Places'
  BY DEF Places, Before
<1>3. Tables'
  BY DEF Tables, Places, Before, Swapped, Link
<1>4. Waiters'
  BY DEF Waiters, Tables, InternalHidden, Swapped, Link
<1>5. Fencing'
  BY DEF Fencing, Places, Tables, FenceUntilAnswered, Before, Swapped, Awaited, Link
<1>6. Saving'
  BY DEF Saving, Places, Tables, Fencing, Before, Swapped, Awaited, Link
<1> QED
  BY <1>1, <1>2, <1>3, <1>4, <1>5, <1>6

LEMMA ReplyItselfInv ==
  ASSUME RequestsInv, ReplyItself
  PROVE  RequestsInv'
<1> USE RequestsAssumption DEF RequestsInv, TypeOK, ReplyItself, Reply, Return, Released, marks, calls, wire, reader, ends
<1>1. TypeOK'
  OBVIOUS
<1>2. Places'
  BY DEF Places, Before
<1>3. Tables'
  BY DEF Tables, Places, Before, Swapped, Link
<1>4. Waiters'
  BY DEF Waiters, Tables, InternalHidden, Swapped, Link
<1>5. Fencing'
  BY DEF Fencing, Places, Tables, FenceUntilAnswered, Before, Swapped, Awaited, Link
<1>6. Saving'
  BY DEF Saving, Places, Tables, Fencing, Before, Swapped, Awaited, Link
<1> QED
  BY <1>1, <1>2, <1>3, <1>4, <1>5, <1>6

LEMMA GiveUpInv ==
  ASSUME RequestsInv, GiveUp
  PROVE  RequestsInv'
<1> USE RequestsAssumption DEF RequestsInv, TypeOK, GiveUp, Return, Released, marks, calls, wire, reader, ends, ghosts
<1>1. TypeOK'
  OBVIOUS
<1>2. Places'
  BY DEF Places, Before
<1>3. Tables'
  BY DEF Tables, Places, Before, Swapped, Link
<1>4. Waiters'
  BY DEF Waiters, Tables, InternalHidden, Swapped, Link
<1>5. Fencing'
  BY DEF Fencing, Places, Tables, FenceUntilAnswered, Before, Swapped, Awaited, Link
<1>6. Saving'
  BY DEF Saving, Places, Tables, Fencing, Before, Swapped, Awaited, Link
<1> QED
  BY <1>1, <1>2, <1>3, <1>4, <1>5, <1>6

LEMMA PublishInv ==
  ASSUME RequestsInv, Publish
  PROVE  RequestsInv'
<1> USE RequestsAssumption DEF RequestsInv, TypeOK, Publish, calls, wire, reader, ends, ghosts
<1>1. TypeOK'
  OBVIOUS
<1>2. Places'
  BY DEF Places, Before
<1>3. Tables'
  BY DEF Tables, Places, Before, Swapped, Link
<1>4. Waiters'
  BY DEF Waiters, Tables, InternalHidden, Swapped, Link
<1>5. Fencing'
  BY DEF Fencing, Places, Tables, FenceUntilAnswered, Before, Swapped, Awaited, Link
<1>6. Saving'
  BY DEF Saving, Places, Tables, Fencing, Before, Swapped, Awaited, Link
<1> QED
  BY <1>1, <1>2, <1>3, <1>4, <1>5, <1>6

LEMMA ForwardInv ==
  ASSUME RequestsInv, Forward
  PROVE  RequestsInv'
<1> USE RequestsAssumption DEF RequestsInv, TypeOK, Forward, Written, Return, KeptAtWrite, Released, marks, calls, reader, ghosts
<1>1. TypeOK'
  OBVIOUS
<1>2. Places'
  BY DEF Places, Before
<1>3. Tables'
  BY DEF Tables, Places, Before, Swapped, Link
<1>4. Waiters'
  BY DEF Waiters, Tables, InternalHidden, Swapped, Link
<1>5. Fencing'
  BY DEF Fencing, Places, Tables, FenceUntilAnswered, Before, Swapped, Awaited, Link
<1>6. Saving'
  BY DEF Saving, Places, Tables, Fencing, Before, Swapped, Awaited, Link
<1> QED
  BY <1>1, <1>2, <1>3, <1>4, <1>5, <1>6

LEMMA ForwardFailsInv ==
  ASSUME RequestsInv, ForwardFails
  PROVE  RequestsInv'
<1> USE RequestsAssumption DEF RequestsInv, TypeOK, ForwardFails, WriteFails, Closed, Return, Released, marks, calls, reader, ghosts
<1>1. TypeOK'
  BY DEF Link
<1>2. Places'
  BY DEF Places, Before
<1>3. Tables'
  BY DEF Tables, Places, Before, Swapped, Link
<1>4. Waiters'
  BY DEF Waiters, Tables, InternalHidden, Swapped, Link
<1>5. Fencing'
  BY DEF Fencing, Places, Tables, FenceUntilAnswered, Before, Swapped, Awaited, Link
<1>6. Saving'
  BY DEF Saving, Places, Tables, Fencing, Before, Swapped, Awaited, Link
<1> QED
  BY <1>1, <1>2, <1>3, <1>4, <1>5, <1>6

LEMMA AwaitInv ==
  ASSUME RequestsInv, Await
  PROVE  RequestsInv'
<1> USE RequestsAssumption DEF RequestsInv, TypeOK, Await, Chosen, Cancelled, Stopped, Return, Released, marks, calls, wire, reader, ends, ghosts
<1>1. TypeOK'
  OBVIOUS
<1>2. Places'
  BY DEF Places, Before
<1>3. Tables'
  BY DEF Tables, Places, Before, Swapped, Link
<1>4. Waiters'
  BY DEF Waiters, Tables, InternalHidden, Swapped, Link
<1>5. Fencing'
  BY DEF Fencing, Places, Tables, FenceUntilAnswered, Before, Swapped, Awaited, Link
<1>6. Saving'
  BY DEF Saving, Places, Tables, Fencing, Before, Swapped, Awaited, Link
<1> QED
  BY <1>1, <1>2, <1>3, <1>4, <1>5, <1>6

LEMMA SaveInv ==
  ASSUME RequestsInv, Save
  PROVE  RequestsInv'
<1> USE RequestsAssumption DEF RequestsInv, TypeOK, Save, Return, Released, marks, calls, wire, reader, ends
<1>1. TypeOK'
  OBVIOUS
<1>2. Places'
  BY DEF Places, Before
<1>3. Tables'
  BY DEF Tables, Places, Before, Swapped, Link
<1>4. Waiters'
  BY DEF Waiters, Tables, InternalHidden, Swapped, Link
<1>5. Fencing'
  BY DEF Fencing, Places, Tables, FenceUntilAnswered, Before, Swapped, Awaited, Link
<1>6. Saving'
  BY DEF Saving, Places, Tables, Fencing, Before, Swapped, Awaited, Link
<1> QED
  BY <1>1, <1>2, <1>3, <1>4, <1>5, <1>6

LEMMA PumpEndsInv ==
  ASSUME RequestsInv, PumpEnds
  PROVE  RequestsInv'
<1> USE RequestsAssumption DEF RequestsInv, TypeOK, PumpEnds, Return, marks, calls, wire, reader, ends, ghosts
<1>1. TypeOK'
  OBVIOUS
<1>2. Places'
  BY DEF Places, Before
<1>3. Tables'
  BY DEF Tables, Places, Before, Swapped, Link
<1>4. Waiters'
  BY DEF Waiters, Tables, InternalHidden, Swapped, Link
<1>5. Fencing'
  BY DEF Fencing, Places, Tables, FenceUntilAnswered, Before, Swapped, Awaited, Link
<1>6. Saving'
  BY DEF Saving, Places, Tables, Fencing, Before, Swapped, Awaited, Link
<1> QED
  BY <1>1, <1>2, <1>3, <1>4, <1>5, <1>6

LEMMA StartCallInv ==
  ASSUME NEW c \in Call, RequestsInv, StartCall(c)
  PROVE  RequestsInv'
<1> USE RequestsAssumption DEF RequestsInv, TypeOK, StartCall, Register, marks, wire, reader, ends, ghosts
<1>1. TypeOK'
  OBVIOUS
<1>2. Places'
  BY DEF Places, Before
<1>3. Tables'
  BY DEF Tables, Places, Before, Swapped, Link
<1>4. Waiters'
  BY DEF Waiters, Tables, InternalHidden, Swapped, Link
<1>5. Fencing'
  BY DEF Fencing, Places, Tables, FenceUntilAnswered, Before, Swapped, Awaited, Link
<1>6. Saving'
  BY DEF Saving, Places, Tables, Fencing, Before, Swapped, Awaited, Link
<1> QED
  BY <1>1, <1>2, <1>3, <1>4, <1>5, <1>6

LEMMA PeerCallsInv ==
  ASSUME NEW c \in Call, RequestsInv, PeerCalls(c)
  PROVE  RequestsInv'
<1> USE RequestsAssumption DEF RequestsInv, TypeOK, PeerCalls, Register, pump, marks, wire, reader, ends, ghosts
<1>1. TypeOK'
  OBVIOUS
<1>2. Places'
  BY DEF Places, Before
<1>3. Tables'
  BY DEF Tables, Places, Before, Swapped, Link
<1>4. Waiters'
  BY DEF Waiters, Tables, InternalHidden, Swapped, Link
<1>5. Fencing'
  BY DEF Fencing, Places, Tables, FenceUntilAnswered, Before, Swapped, Awaited, Link
<1>6. Saving'
  BY DEF Saving, Places, Tables, Fencing, Before, Swapped, Awaited, Link
<1> QED
  BY <1>1, <1>2, <1>3, <1>4, <1>5, <1>6

LEMMA SendCallInv ==
  ASSUME NEW c \in Call, RequestsInv, SendCall(c)
  PROVE  RequestsInv'
<1> USE RequestsAssumption DEF RequestsInv, TypeOK, SendCall, Written, pump, marks, reader, ghosts
<1>1. TypeOK'
  OBVIOUS
<1>2. Places'
  BY DEF Places, Before
<1>3. Tables'
  BY DEF Tables, Places, Before, Swapped, Link
<1>4. Waiters'
  BY DEF Waiters, Tables, InternalHidden, Swapped, Link
<1>5. Fencing'
  BY DEF Fencing, Places, Tables, FenceUntilAnswered, Before, Swapped, Awaited, Link
<1>6. Saving'
  BY DEF Saving, Places, Tables, Fencing, Before, Swapped, Awaited, Link
<1> QED
  BY <1>1, <1>2, <1>3, <1>4, <1>5, <1>6

LEMMA SendFailsInv ==
  ASSUME NEW c \in Call, RequestsInv, SendFails(c)
  PROVE  RequestsInv'
<1> USE RequestsAssumption DEF RequestsInv, TypeOK, SendFails, WriteFails, Closed, Abandoned, pump, marks, reader, ghosts
<1>1. TypeOK'
  BY DEF Link
<1>2. Places'
  BY DEF Places, Before
<1>3. Tables'
  BY DEF Tables, Places, Before, Swapped, Link
<1>4. Waiters'
  BY DEF Waiters, Tables, InternalHidden, Swapped, Link
<1>5. Fencing'
  BY DEF Fencing, Places, Tables, FenceUntilAnswered, Before, Swapped, Awaited, Link
<1>6. Saving'
  BY DEF Saving, Places, Tables, Fencing, Before, Swapped, Awaited, Link
<1> QED
  BY <1>1, <1>2, <1>3, <1>4, <1>5, <1>6

LEMMA CallAnsweredInv ==
  ASSUME NEW c \in Call, RequestsInv, CallAnswered(c)
  PROVE  RequestsInv'
<1> USE RequestsAssumption DEF RequestsInv, TypeOK, CallAnswered, pump, marks, wire, reader, ends, ghosts
<1>1. TypeOK'
  OBVIOUS
<1>2. Places'
  BY DEF Places, Before
<1>3. Tables'
  BY DEF Tables, Places, Before, Swapped, Link
<1>4. Waiters'
  BY DEF Waiters, Tables, InternalHidden, Swapped, Link
<1>5. Fencing'
  BY DEF Fencing, Places, Tables, FenceUntilAnswered, Before, Swapped, Awaited, Link
<1>6. Saving'
  BY DEF Saving, Places, Tables, Fencing, Before, Swapped, Awaited, Link
<1> QED
  BY <1>1, <1>2, <1>3, <1>4, <1>5, <1>6

LEMMA TimesOutInv ==
  ASSUME NEW c \in Call, RequestsInv, TimesOut(c)
  PROVE  RequestsInv'
<1> USE RequestsAssumption DEF RequestsInv, TypeOK, TimesOut, Abandoned, pump, marks, wire, reader, ends, ghosts
<1>1. TypeOK'
  OBVIOUS
<1>2. Places'
  BY DEF Places, Before
<1>3. Tables'
  BY DEF Tables, Places, Before, Swapped, Link
<1>4. Waiters'
  BY DEF Waiters, Tables, InternalHidden, Swapped, Link
<1>5. Fencing'
  BY DEF Fencing, Places, Tables, FenceUntilAnswered, Before, Swapped, Awaited, Link
<1>6. Saving'
  BY DEF Saving, Places, Tables, Fencing, Before, Swapped, Awaited, Link
<1> QED
  BY <1>1, <1>2, <1>3, <1>4, <1>5, <1>6

LEMMA HearInv ==
  ASSUME RequestsInv, Hear
  PROVE  RequestsInv'
<1> USE RequestsAssumption DEF RequestsInv, TypeOK, Hear, pump, marks, calls, ends, ghosts
<1>1. TypeOK'
  OBVIOUS
<1>2. Places'
  BY DEF Places, Before
<1>3. Tables'
  BY DEF Tables, Places, Before, Swapped, Link
<1>4. Waiters'
  BY DEF Waiters, Tables, InternalHidden, Swapped, Link
<1>5. Fencing'
  BY DEF Fencing, Places, Tables, FenceUntilAnswered, Before, Swapped, Awaited, Link
<1>6. Saving'
  BY DEF Saving, Places, Tables, Fencing, Before, Swapped, Awaited, Link
<1> QED
  BY <1>1, <1>2, <1>3, <1>4, <1>5, <1>6

LEMMA RouteInternalInv ==
  ASSUME RequestsInv, RouteInternal
  PROVE  RequestsInv'
<1> USE RequestsAssumption DEF RequestsInv, TypeOK, RouteInternal, pump, marks, wire, ends, ghosts
<1>1. TypeOK'
  OBVIOUS
<1>2. Places'
  BY DEF Places, Before
<1>3. Tables'
  BY DEF Tables, Places, Before, Swapped, Link
<1>4. Waiters'
  BY DEF Waiters, Tables, InternalHidden, Swapped, Link
<1>5. Fencing'
  BY DEF Fencing, Places, Tables, FenceUntilAnswered, Before, Swapped, Awaited, Link
<1>6. Saving'
  BY DEF Saving, Places, Tables, Fencing, Before, Swapped, Awaited, Link
<1> QED
  BY <1>1, <1>2, <1>3, <1>4, <1>5, <1>6

LEMMA RouteDesktopInv ==
  ASSUME RequestsInv, RouteDesktop
  PROVE  RequestsInv'
<1> USE RequestsAssumption DEF RequestsInv, TypeOK, RouteDesktop, Owner, pump, calls, wire, ends, ghosts
<1>1. TypeOK'
  OBVIOUS
<1>2. Places'
  BY DEF Places, Before
<1>3. Tables'
  BY DEF Tables, Places, Before, Swapped, Link
<1>4. Waiters'
  BY DEF Waiters, Tables, InternalHidden, Swapped, Link
<1>5. Fencing'
  BY DEF Fencing, Places, Tables, FenceUntilAnswered, Before, Swapped, Awaited, Link
<1>6. Saving'
  BY DEF Saving, Places, Tables, Fencing, Before, Swapped, Awaited, Link
<1> QED
  BY <1>1, <1>2, <1>3, <1>4, <1>5, <1>6

LEMMA RouteUnknownInv ==
  ASSUME RequestsInv, RouteUnknown
  PROVE  RequestsInv'
<1> USE RequestsAssumption DEF RequestsInv, TypeOK, RouteUnknown, Owner, pump, marks, calls, wire, ends, ghosts
<1>1. TypeOK'
  OBVIOUS
<1>2. Places'
  BY DEF Places, Before
<1>3. Tables'
  BY DEF Tables, Places, Before, Swapped, Link
<1>4. Waiters'
  BY DEF Waiters, Tables, InternalHidden, Swapped, Link
<1>5. Fencing'
  BY DEF Fencing, Places, Tables, FenceUntilAnswered, Before, Swapped, Awaited, Link
<1>6. Saving'
  BY DEF Saving, Places, Tables, Fencing, Before, Swapped, Awaited, Link
<1> QED
  BY <1>1, <1>2, <1>3, <1>4, <1>5, <1>6

LEMMA SettleInv ==
  ASSUME RequestsInv, Settle
  PROVE  RequestsInv'
<1> USE RequestsAssumption DEF RequestsInv, TypeOK, Settle, Settled, Released, pump, calls, wire, ends, ghosts
<1>1. TypeOK'
  BY DEF Tables
<1>2. Places'
  BY DEF Places, Before
<1>3. Tables'
  BY DEF Tables, Places, Before, Swapped, Link
<1>4. Waiters'
  BY DEF Waiters, Tables, InternalHidden, Swapped, Link
<1>5. Fencing'
  BY DEF Fencing, Places, Tables, FenceUntilAnswered, Before, Swapped, Awaited, Link
<1>6. Saving'
  BY DEF Saving, Places, Tables, Fencing, Before, Swapped, Awaited, Link
<1> QED
  BY <1>1, <1>2, <1>3, <1>4, <1>5, <1>6

LEMMA PassInv ==
  ASSUME RequestsInv, Pass
  PROVE  RequestsInv'
<1> USE RequestsAssumption DEF RequestsInv, TypeOK, Pass, pump, marks, calls, wire, ends
<1>1. TypeOK'
  OBVIOUS
<1>2. Places'
  BY DEF Places, Before
<1>3. Tables'
  BY DEF Tables, Places, Before, Swapped, Link
<1>4. Waiters'
  BY DEF Waiters, Tables, InternalHidden, Swapped, Link
<1>5. Fencing'
  BY DEF Fencing, Places, Tables, FenceUntilAnswered, Before, Swapped, Awaited, Link
<1>6. Saving'
  BY DEF Saving, Places, Tables, Fencing, Before, Swapped, Awaited, Link
<1> QED
  BY <1>1, <1>2, <1>3, <1>4, <1>5, <1>6

LEMMA ReaderEndsInv ==
  ASSUME RequestsInv, ReaderEnds
  PROVE  RequestsInv'
<1> USE RequestsAssumption DEF RequestsInv, TypeOK, ReaderEnds, pump, marks, calls, wire, ends, ghosts
<1>1. TypeOK'
  OBVIOUS
<1>2. Places'
  BY DEF Places, Before
<1>3. Tables'
  BY DEF Tables, Places, Before, Swapped, Link
<1>4. Waiters'
  BY DEF Waiters, Tables, InternalHidden, Swapped, Link
<1>5. Fencing'
  BY DEF Fencing, Places, Tables, FenceUntilAnswered, Before, Swapped, Awaited, Link
<1>6. Saving'
  BY DEF Saving, Places, Tables, Fencing, Before, Swapped, Awaited, Link
<1> QED
  BY <1>1, <1>2, <1>3, <1>4, <1>5, <1>6

LEMMA CutAllInv ==
  ASSUME RequestsInv, CutAll
  PROVE  RequestsInv'
<1> USE RequestsAssumption DEF RequestsInv, TypeOK, CutAll, Closed, pump, marks, calls, reader, ghosts
<1>1. TypeOK'
  OBVIOUS
<1>2. Places'
  BY DEF Places, Before
<1>3. Tables'
  BY DEF Tables, Places, Before, Swapped, Link
<1>4. Waiters'
  BY DEF Waiters, Tables, InternalHidden, Swapped, Link
<1>5. Fencing'
  BY DEF Fencing, Places, Tables, FenceUntilAnswered, Before, Swapped, Awaited, Link
<1>6. Saving'
  BY DEF Saving, Places, Tables, Fencing, Before, Swapped, Awaited, Link
<1> QED
  BY <1>1, <1>2, <1>3, <1>4, <1>5, <1>6

LEMMA SwapInv ==
  ASSUME RequestsInv, Swap
  PROVE  RequestsInv'
<1> USE RequestsAssumption DEF RequestsInv, TypeOK, Swap, pump, marks, wire, reader, ghosts
<1>1. TypeOK'
  OBVIOUS
<1>2. Places'
  BY DEF Places, Before
<1>3. Tables'
  BY DEF Tables, Places, Before, Swapped, Link
<1>4. Waiters'
  BY DEF Waiters, Tables, InternalHidden, Swapped, Link
<1>5. Fencing'
  BY DEF Fencing, Places, Tables, FenceUntilAnswered, Before, Swapped, Awaited, Link
<1>6. Saving'
  BY DEF Saving, Places, Tables, Fencing, Before, Swapped, Awaited, Link
<1> QED
  BY <1>1, <1>2, <1>3, <1>4, <1>5, <1>6

LEMMA FinishInv ==
  ASSUME NEW r \in Request, RequestsInv, Finish(r)
  PROVE  RequestsInv'
<1> USE RequestsAssumption DEF RequestsInv, TypeOK, Finish, Settled, Released, pump, calls, wire, reader, ghosts
<1>1. TypeOK'
  OBVIOUS
<1>2. Places'
  BY DEF Places, Before
<1>3. Tables'
  BY DEF Tables, Places, Before, Swapped, Link
<1>4. Waiters'
  BY DEF Waiters, Tables, InternalHidden, Swapped, Link
<1>5. Fencing'
  BY DEF Fencing, Places, Tables, FenceUntilAnswered, Before, Swapped, Awaited, Link
<1>6. Saving'
  BY DEF Saving, Places, Tables, Fencing, Before, Swapped, Awaited, Link
<1> QED
  BY <1>1, <1>2, <1>3, <1>4, <1>5, <1>6

LEMMA StopInv ==
  ASSUME RequestsInv, Stop
  PROVE  RequestsInv'
<1> USE RequestsAssumption DEF RequestsInv, TypeOK, Stop, pump, marks, calls, wire, reader, ghosts
<1>1. TypeOK'
  OBVIOUS
<1>2. Places'
  BY DEF Places, Before
<1>3. Tables'
  BY DEF Tables, Places, Before, Swapped, Link
<1>4. Waiters'
  BY DEF Waiters, Tables, InternalHidden, Swapped, Link
<1>5. Fencing'
  BY DEF Fencing, Places, Tables, FenceUntilAnswered, Before, Swapped, Awaited, Link
<1>6. Saving'
  BY DEF Saving, Places, Tables, Fencing, Before, Swapped, Awaited, Link
<1> QED
  BY <1>1, <1>2, <1>3, <1>4, <1>5, <1>6

LEMMA AnswerInv ==
  ASSUME NEW t \in Request \cup Call, RequestsInv, Answer(t)
  PROVE  RequestsInv'
<1> USE RequestsAssumption DEF RequestsInv, TypeOK, Answer, pump, marks, calls, reader, ends, ghosts
<1>1. TypeOK'
  OBVIOUS
<1>2. Places'
  BY DEF Places, Before
<1>3. Tables'
  BY DEF Tables, Places, Before, Swapped, Link
<1>4. Waiters'
  BY DEF Waiters, Tables, InternalHidden, Swapped, Link
<1>5. Fencing'
  BY DEF Fencing, Places, Tables, FenceUntilAnswered, Before, Swapped, Awaited, Link
<1>6. Saving'
  BY DEF Saving, Places, Tables, Fencing, Before, Swapped, Awaited, Link
<1> QED
  BY <1>1, <1>2, <1>3, <1>4, <1>5, <1>6

LEMMA HangupInv ==
  ASSUME NEW l \in Link, RequestsInv, Hangup(l)
  PROVE  RequestsInv'
<1> USE RequestsAssumption DEF RequestsInv, TypeOK, Hangup, Closed, pump, marks, calls, reader, ghosts
<1>1. TypeOK'
  OBVIOUS
<1>2. Places'
  BY DEF Places, Before
<1>3. Tables'
  BY DEF Tables, Places, Before, Swapped, Link
<1>4. Waiters'
  BY DEF Waiters, Tables, InternalHidden, Swapped, Link
<1>5. Fencing'
  BY DEF Fencing, Places, Tables, FenceUntilAnswered, Before, Swapped, Awaited, Link
<1>6. Saving'
  BY DEF Saving, Places, Tables, Fencing, Before, Swapped, Awaited, Link
<1> QED
  BY <1>1, <1>2, <1>3, <1>4, <1>5, <1>6

-----------------------------------------------------------------------------
(* Every step keeps the invariant.                                            *)

LEMMA PumpInv == ASSUME RequestsInv, Pump PROVE RequestsInv'
BY LockThreadInv, LockCancelledInv, CallReturnsInv, ReplyItselfInv, GiveUpInv, PublishInv,
   ForwardInv, ForwardFailsInv, AwaitInv, SaveInv, PumpEndsInv, StartCallInv DEF Pump

LEMMA ReaderInv == ASSUME RequestsInv, Reader PROVE RequestsInv'
BY HearInv, RouteInternalInv, RouteDesktopInv, RouteUnknownInv, SettleInv, PassInv,
   ReaderEndsInv DEF Reader

LEMMA BridgeInv == ASSUME RequestsInv, Bridge PROVE RequestsInv'
BY CutAllInv, SwapInv, StopInv, FinishInv DEF Bridge

LEMMA CallInv == ASSUME NEW c \in Call, RequestsInv, PeerCalls(c) \/ CallStep(c) PROVE RequestsInv'
BY PeerCallsInv, SendCallInv, SendFailsInv, CallAnsweredInv, TimesOutInv DEF CallStep

LEMMA StepInv == ASSUME RequestsInv, Next PROVE RequestsInv'
BY PumpInv, ReaderInv, BridgeInv, CallInv, ArriveInv, AnswerInv, HangupInv DEF Next

LEMMA StutterInv == ASSUME RequestsInv, UNCHANGED vars PROVE RequestsInv'
BY DEF vars, pump, marks, calls, wire, reader, ends, ghosts, RequestsInv, TypeOK, Places,
   Tables, Waiters, Fencing, Saving, InternalHidden, FenceUntilAnswered, Before, Swapped

(* The conjunction of the parts above holds in every reachable state.         *)
THEOREM Invariant == Spec => []RequestsInv
<1>1. RequestsInv /\ [Next]_vars => RequestsInv'
  BY StepInv, StutterInv
<1> QED
  BY InitInv, <1>1, PTL DEF Spec

(* Every variable keeps its type, and what a pump has in hand goes with what it
   is doing.                                                                 *)
THEOREM TypeCorrect == Spec => []TypeOK
<1>1. RequestsInv => TypeOK
  BY DEF RequestsInv
<1> QED
  BY Invariant, <1>1, PTL

(* Whatever the order of the reader's and closeState's steps, the channel a
   handler waits on is closed at most once (session.go:1451, 1706).          *)
THEOREM NeverClosedTwice == Spec => []SeenClosedOnce
<1>1. RequestsInv => SeenClosedOnce
  BY DEF RequestsInv, TypeOK, Tables, SeenClosedOnce
<1> QED
  BY Invariant, <1>1, PTL

(* Whatever ids Desktop uses again, an answer reaches the tables as that of the
   request it answers, and no request is answered twice.                     *)
THEOREM AnswersMatch == Spec => []OwnAnswer
<1>1. RequestsInv => OwnAnswer
  <2>1. ASSUME RequestsInv, rd = "route", NEW r \in Owner(msg) PROVE r = msg
    <3>1. r \in desktop /\ msg \in Request /\ id[r] = id[msg]
      BY <2>1 DEF Owner
    <3>2. ~Swapped
      BY <2>1, <3>1 DEF RequestsInv, Tables
    <3> QED
      BY <2>1, <3>1, <3>2 DEF RequestsInv, Tables
  <2>2. ASSUME RequestsInv, NEW r \in Request PROVE answers[r] <= 1
    BY <2>2 DEF RequestsInv, Places
  <2> QED
    BY <2>1, <2>2 DEF OwnAnswer
<1> QED
  BY Invariant, <1>1, PTL

(* No answer to an internal request reaches a Desktop that could read it, also
   not one that comes after its caller gave up.                              *)
THEOREM InternalStaysInternal == Spec => []InternalHidden
<1>1. RequestsInv => InternalHidden
  BY DEF RequestsInv, Waiters
<1> QED
  BY Invariant, <1>1, PTL

(* The thread stays locked while a turn/start of a live connection is unread or
   unanswered (session.go:413-416).                                          *)
THEOREM FenceHolds == Spec => []FenceUntilAnswered
<1>1. RequestsInv => FenceUntilAnswered
  BY DEF RequestsInv, Fencing
<1> QED
  BY Invariant, <1>1, PTL

(* The saved selection is one the app-server accepted, and what it accepted is
   saved before the handler returns, unless the connection ends.             *)
THEOREM SelectionFollows == Spec => []SavedIfAccepted
<1>1. RequestsInv => SavedIfAccepted
  <2>1. ASSUME RequestsInv, NEW r \in accepted \ saved, kind[r] = "settings", closes[r] > 0,
               cut = {}, pc # "exit"
        PROVE  cur = r
    BY <2>1 DEF RequestsInv, TypeOK, Saving
  <2>2. RequestsInv => saved \subseteq accepted
    BY DEF RequestsInv, Saving
  <2> QED
    BY <2>1, <2>2 DEF SavedIfAccepted
<1> QED
  BY Invariant, <1>1, PTL
=============================================================================
