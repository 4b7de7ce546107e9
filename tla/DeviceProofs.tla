---------------------------- MODULE DeviceProofs ----------------------------
(***************************************************************************)
(* What holds of the intent to sync a Focus document (FocusIntent), for    *)
(* any number of tabs, changes, visits and failures, and of the device     *)
(* notifications (DevicePush), for any number of accounts, tabs,           *)
(* dispatchers, subscriptions and notices.                                 *)
(***************************************************************************)
EXTENDS FocusIntent, DevicePush, TLAPS
-----------------------------------------------------------------------------
(* The intent *)

Ops == [id : Nat, dirty : Nat, upto : Nat, status : {"pending", "retry", "failed"}]
Marks == [pc : {"list", "write"}, dirty : Nat, upto : Nat, seen : {NoOp} \cup Ops]
Acks == [pc : {"list"}, savedAt : Nat, seen : {NoOp}] \cup [pc : {"remove"}, savedAt : Nat, seen : Ops]
Pushes == [pc : {"sent", "offline"}, savedAt : Nat, content : Nat, acks : BOOLEAN]
Begun == [pc : {"read"}, op : Ops]
Carried == [pc : {"merge", "sent", "remove"}, op : Ops, content : Nat]

IntentTypeOK ==
  /\ memory \in Nat /\ stored \in Nat /\ server \in Nat /\ now \in Nat
  /\ ops \subseteq Ops
  /\ marks \subseteq Marks
  /\ acks \subseteq Acks
  /\ push \in {NoPush} \cup Pushes
  /\ flush \in [FlushTabs -> {NoFlush} \cup Begun \cup Carried]

\* Version u was recorded as changed at time d: by a call under way, in the
\* queue, or in the copy a flush would write back.
InMarks(d, u) == \E m \in marks : m.dirty = d /\ m.upto = u
InQueue(d, u) == \E o \in ops : o.dirty = d /\ o.upto = u
InFlush(d, u) == \E t \in FlushTabs : flush[t].pc # "none" /\ flush[t].op.dirty = d /\ flush[t].op.upto = u
Recorded(d, u) == InMarks(d, u) \/ InQueue(d, u) \/ InFlush(d, u)

\* Only what has been stored is recorded, with a time that has passed.
RecordedIsStored == stored <= memory /\ \A d, u : Recorded(d, u) => d <= now /\ u <= stored

\* A push carries everything recorded up to its own time.
PushCarries ==
  push # NoPush => /\ push.savedAt <= now
                   /\ \A d, u : Recorded(d, u) /\ d <= push.savedAt => u <= push.content

\* The server holds everything recorded up to the time of an acknowledgement.
AckIsHeld ==
  \A a \in acks : /\ a.savedAt <= now
                  /\ \A d, u : Recorded(d, u) /\ d <= a.savedAt => u <= server
                  /\ a.pc = "remove" => a.seen.upto <= server

\* A flush carries what its record stands for, and then the server holds it.
FlushCarries ==
  \A t \in FlushTabs : /\ flush[t].pc \in {"merge", "sent"} => flush[t].op.upto <= flush[t].content
                       /\ flush[t].pc = "remove" => flush[t].op.upto <= server

IntentInv == RecordedIsStored /\ PushCarries /\ AckIsHeld /\ FlushCarries

-----------------------------------------------------------------------------

\* The shape of what a tab's flush carries, by its stage.
LEMMA FlushShape ==
  ASSUME IntentTypeOK, NEW t \in FlushTabs
  PROVE  /\ flush[t].pc = "read" => flush[t] \in Begun
         /\ flush[t].pc \in {"merge", "sent", "remove"} => flush[t] \in Carried
         /\ flush[t].pc # "none" => flush[t] # NoFlush /\ flush[t].op \in Ops
BY DEF IntentTypeOK, NoFlush, Begun, Carried

\* A record that existingOperation lists is one of the queue's.
LEMMA ListedShape ==
  ASSUME IntentTypeOK, NEW o \in Listed
  PROVE  o # NoOp => o \in ops /\ o \in Ops
BY DEF IntentTypeOK, Listed, Existing

\* Every step keeps the types.
LEMMA IntentTypeStep == IntentTypeOK /\ [IntentNext]_intentVars => IntentTypeOK'
<1> SUFFICES ASSUME IntentTypeOK, [IntentNext]_intentVars PROVE IntentTypeOK'
  OBVIOUS
<1> USE DEF IntentTypeOK
<1>1. CASE OpenDocument \/ Draw
  BY <1>1 DEF OpenDocument, Draw
<1>2. CASE Persist \/ LeaveDocument
  <2>1. [pc |-> "list", dirty |-> now + 1, upto |-> memory, seen |-> NoOp] \in Marks
    BY DEF Marks
  <2>2. CASE Saved
    <3>1. UNCHANGED <<memory, server, ops, acks, push, flush>>
      BY <1>2 DEF Persist, LeaveDocument
    <3> QED
      BY <2>1, <2>2, <3>1 DEF Saved
  <2>3. CASE LeaveDocument /\ UNCHANGED <<stored, now, marks>>
    BY <2>3 DEF LeaveDocument
  <2> QED
    BY <1>2, <2>2, <2>3 DEF Persist, LeaveDocument
<1>3. CASE PushStarts
  <2>1. [pc |-> "sent", savedAt |-> now + 1, content |-> memory, acks |-> TRUE] \in Pushes
    BY DEF Pushes
  <2>2. CASE now' = now + 1 /\ push' \in Pushes
    BY <1>3, <2>2 DEF PushStarts
  <2>3. CASE UNCHANGED <<now, push>>
    BY <1>3, <2>3 DEF PushStarts
  <2> QED
    BY <1>3, <2>1, <2>2, <2>3 DEF PushStarts
<1>4. CASE PushSynced
  <2>1. push \in Pushes
    BY <1>4 DEF PushSynced, NoPush
  <2>2. push.savedAt \in Nat /\ push.content \in Nat
    BY <2>1 DEF Pushes
  <2>3. [pc |-> "list", savedAt |-> push.savedAt, seen |-> NoOp] \in Acks
    BY <2>2 DEF Acks
  <2>4. acks' \subseteq Acks
    BY <1>4, <2>3 DEF PushSynced
  <2> QED
    BY <1>4, <2>2, <2>4 DEF PushSynced, Later
<1>5. CASE PushOffline \/ PushRetried
  <2>1. push \in Pushes
    BY <1>5 DEF PushOffline, PushRetried, NoPush
  <2>2. [push EXCEPT !.pc = "offline"] \in Pushes /\ [push EXCEPT !.pc = "sent", !.acks = FALSE] \in Pushes
    BY <2>1 DEF Pushes
  <2> QED
    BY <1>5, <2>2 DEF PushOffline, PushRetried
<1>6. ASSUME NEW m \in marks, MarkLists(m) PROVE IntentTypeOK'
  <2>1. \A o \in Listed : [m EXCEPT !.pc = "write", !.seen = o] \in Marks
    BY ListedShape DEF Marks
  <2> QED
    BY <1>6, <2>1 DEF MarkLists
<1>7. ASSUME NEW m \in marks, MarkWrites(m) PROVE IntentTypeOK'
  <2>1. m.dirty \in Nat /\ m.upto \in Nat /\ m.seen \in {NoOp} \cup Ops
    BY DEF Marks
  <2>2. /\ m.seen # NoOp => [m.seen EXCEPT !.dirty = m.dirty, !.upto = m.upto] \in Ops
        /\ [id |-> m.dirty, dirty |-> m.dirty, upto |-> m.upto, status |-> "pending"] \in Ops
    BY <2>1 DEF Ops
  <2>3. ops' \subseteq Ops
    BY <1>7, <2>2 DEF MarkWrites, Put
  <2> QED
    BY <1>7, <2>3 DEF MarkWrites
<1>8. ASSUME NEW a \in acks, AckLists(a) PROVE IntentTypeOK'
  <2>1. \A o \in Listed : o # NoOp => [a EXCEPT !.pc = "remove", !.seen = o] \in Acks
    BY ListedShape DEF Acks
  <2> QED
    BY <1>8, <2>1 DEF AckLists
<1>9. ASSUME NEW a \in acks, AckRemoves(a) PROVE IntentTypeOK'
  BY <1>9 DEF AckRemoves
<1>10. ASSUME NEW t \in FlushTabs, FlushBegins(t) PROVE IntentTypeOK'
  <2>1. \A o \in Existing : [pc |-> "read", op |-> o] \in Begun
    BY DEF Existing, Begun
  <2> QED
    BY <1>10, <2>1 DEF FlushBegins
<1>11. ASSUME NEW t \in FlushTabs, FlushReads(t) PROVE IntentTypeOK'
  <2>1. [pc |-> "merge", op |-> flush[t].op, content |-> stored] \in Carried
    BY <1>11, FlushShape DEF FlushReads, Carried
  <2> QED
    BY <1>11, <2>1 DEF FlushReads
<1>12. ASSUME NEW t \in FlushTabs, FlushSends(t) \/ FlushSynced(t) PROVE IntentTypeOK'
  <2>1. flush[t] \in Carried
    BY <1>12, FlushShape DEF FlushSends, FlushSynced
  <2>2. [flush[t] EXCEPT !.pc = "sent"] \in Carried /\ [flush[t] EXCEPT !.pc = "remove"] \in Carried
    BY <2>1 DEF Carried
  <2>3. flush' \in [FlushTabs -> {NoFlush} \cup Begun \cup Carried]
    BY <1>12, <2>2 DEF FlushSends, FlushSynced
  <2>4. flush[t].content \in Nat
    BY <2>1 DEF Carried
  <2> QED
    BY <1>12, <2>3, <2>4 DEF FlushSends, FlushSynced, Later
<1>13. ASSUME NEW t \in FlushTabs, FlushRemoves(t) PROVE IntentTypeOK'
  BY <1>13 DEF FlushRemoves
<1>14. ASSUME NEW t \in FlushTabs, NEW status \in {"retry", "failed"}, FlushFails(t, status)
       PROVE IntentTypeOK'
  <2>1. flush[t].op \in Ops
    BY <1>14, FlushShape DEF FlushFails
  <2>2. [flush[t].op EXCEPT !.status = status] \in Ops
    BY <2>1 DEF Ops
  <2> QED
    BY <1>14, <2>2 DEF FlushFails, Put
<1>15. CASE UNCHANGED intentVars
  BY <1>15 DEF intentVars
<1> QED
  BY <1>1, <1>2, <1>3, <1>4, <1>5, <1>6, <1>7, <1>8, <1>9, <1>10, <1>11, <1>12, <1>13, <1>14, <1>15
     DEF IntentNext

\* The types hold from the start on.
THEOREM IntentTyped == IntentSpec => []IntentTypeOK
<1>1. IntentInit => IntentTypeOK
  BY DEF IntentInit, IntentTypeOK
<1> QED
  BY <1>1, IntentTypeStep, PTL DEF IntentSpec

-----------------------------------------------------------------------------

\* A step that records nothing new, while the clock, the store and the server
\* only move on, keeps what the records are tied to.
LEMMA NothingRecorded ==
  ASSUME IntentTypeOK, IntentTypeOK', IntentInv,
         now <= now', stored' = stored, stored <= memory', server <= server',
         \A d, u : Recorded(d, u)' => Recorded(d, u),
         push' # NoPush => /\ push # NoPush
                           /\ push'.savedAt = push.savedAt /\ push'.content = push.content,
         \A a \in acks' : \E b \in acks : /\ a.savedAt = b.savedAt
                                          /\ a.pc = "remove" => b.pc = "remove" /\ a.seen = b.seen
  PROVE  RecordedIsStored' /\ PushCarries' /\ AckIsHeld'
<1> USE DEF IntentInv
<1>0. /\ now \in Nat /\ now' \in Nat /\ server \in Nat /\ server' \in Nat
      /\ \A d, u : Recorded(d, u) => d \in Nat /\ u \in Nat
  BY FlushShape DEF IntentTypeOK, Recorded, InMarks, InQueue, InFlush, Ops, Marks
<1>1. RecordedIsStored'
  BY <1>0 DEF RecordedIsStored
<1>2. PushCarries'
  <2>1. push # NoPush => push.savedAt \in Nat
    BY DEF IntentTypeOK, Pushes
  <2> QED
    BY <1>0, <2>1 DEF PushCarries
<1>3. AckIsHeld'
  <2> SUFFICES ASSUME NEW a \in acks'
               PROVE /\ a.savedAt <= now'
                     /\ \A d, u : Recorded(d, u)' /\ d <= a.savedAt => u <= server'
                     /\ a.pc = "remove" => a.seen.upto <= server'
    BY DEF AckIsHeld
  <2>1. PICK b \in acks : /\ a.savedAt = b.savedAt
                          /\ a.pc = "remove" => b.pc = "remove" /\ a.seen = b.seen
    OBVIOUS
  <2>2. b.savedAt \in Nat /\ (b.pc = "remove" => b.seen.upto \in Nat)
    BY DEF IntentTypeOK, Acks, Ops
  <2>3. b.pc = "remove" => b.seen.upto <= server
    BY DEF AckIsHeld
  <2> QED
    BY <1>0, <2>1, <2>2, <2>3 DEF AckIsHeld
<1> QED
  BY <1>1, <1>2, <1>3

\* What a step leaves alone records the same.
LEMMA RecordedKept ==
  ASSUME marks' \subseteq marks, ops' \subseteq ops,
         \A t \in FlushTabs : flush'[t].pc # "none" => flush[t].pc # "none" /\ flush'[t].op = flush[t].op
  PROVE  \A d, u : Recorded(d, u)' => Recorded(d, u)
<1>1. \A d, u : InMarks(d, u)' => InMarks(d, u)
  BY DEF InMarks
<1>2. \A d, u : InQueue(d, u)' => InQueue(d, u)
  BY DEF InQueue
<1>3. \A d, u : InFlush(d, u)' => InFlush(d, u)
  BY DEF InFlush
<1> QED
  BY <1>1, <1>2, <1>3 DEF Recorded

\* Saving the document: what is recorded is newer than every push and
\* acknowledgement under way.
LEMMA SavedStep ==
  ASSUME IntentTypeOK, IntentInv, Saved, UNCHANGED <<memory, server, ops, acks, push, flush>>
  PROVE  IntentInv'
<1> USE DEF IntentInv
<1>0. /\ now \in Nat /\ memory \in Nat /\ stored \in Nat
      /\ \A d, u : Recorded(d, u) => d \in Nat /\ u \in Nat
  BY FlushShape DEF IntentTypeOK, Recorded, InMarks, InQueue, InFlush, Ops, Marks
<1>1. \A d, u : Recorded(d, u)' => Recorded(d, u) \/ (d = now + 1 /\ u = memory)
  BY DEF Saved, Recorded, InMarks, InQueue, InFlush
<1>2. RecordedIsStored'
  BY <1>0, <1>1 DEF RecordedIsStored, Saved
<1>3. PushCarries'
  <2>1. push # NoPush => push.savedAt \in Nat
    BY DEF IntentTypeOK, Pushes
  <2> QED
    BY <1>0, <1>1, <2>1 DEF PushCarries, Saved
<1>4. AckIsHeld'
  <2>1. \A a \in acks : a.savedAt \in Nat
    BY DEF IntentTypeOK, Acks
  <2> QED
    BY <1>0, <1>1, <2>1 DEF AckIsHeld, Saved
<1>5. FlushCarries'
  BY DEF FlushCarries
<1> QED
  BY <1>2, <1>3, <1>4, <1>5

\* No step breaks what ties records, pushes, acknowledgements and flushes to
\* the server.
LEMMA IntentStep == IntentTypeOK /\ IntentInv /\ [IntentNext]_intentVars => IntentInv'
<1> SUFFICES ASSUME IntentTypeOK, IntentInv, [IntentNext]_intentVars PROVE IntentInv'
  OBVIOUS
<1>0. IntentTypeOK'
  BY IntentTypeStep
<1>n. /\ now \in Nat /\ memory \in Nat /\ stored \in Nat /\ server \in Nat
      /\ now <= now /\ server <= server /\ stored <= memory
      /\ \A d, u : Recorded(d, u) => d \in Nat /\ u \in Nat /\ d <= now /\ u <= stored
  BY FlushShape DEF IntentTypeOK, Recorded, InMarks, InQueue, InFlush, Ops, Marks, IntentInv, RecordedIsStored
<1>f. ASSUME UNCHANGED <<flush, server>> PROVE FlushCarries'
  BY <1>f DEF IntentInv, FlushCarries
<1>1. CASE OpenDocument \/ Draw
  <2>1. stored <= memory' /\ UNCHANGED <<stored, server, now, ops, marks, acks, push, flush>>
    BY <1>1, <1>n DEF OpenDocument, Draw
  <2> QED
    BY <1>0, <1>n, <1>f, <2>1, NothingRecorded, RecordedKept DEF IntentInv
<1>2. CASE Persist \/ LeaveDocument
  <2>1. UNCHANGED <<memory, server, ops, acks, push, flush>>
    BY <1>2 DEF Persist, LeaveDocument
  <2>2. CASE Saved
    BY <2>1, <2>2, SavedStep
  <2>3. CASE UNCHANGED <<stored, now, marks>>
    BY <1>0, <1>n, <1>f, <2>1, <2>3, NothingRecorded, RecordedKept DEF IntentInv
  <2> QED
    BY <1>2, <2>2, <2>3 DEF Persist, LeaveDocument
<1>3. CASE PushStarts
  <2>1. UNCHANGED <<memory, stored, server, ops, marks, acks, flush>>
    BY <1>3 DEF PushStarts
  <2>2. CASE now' = now + 1 /\ push' = [pc |-> "sent", savedAt |-> now + 1, content |-> memory, acks |-> TRUE]
    <3>1. \A d, u : Recorded(d, u)' => Recorded(d, u)
      BY <2>1, RecordedKept
    <3>2. push'.savedAt = now + 1 /\ push'.content = memory
      BY <2>2
    <3>3. PushCarries'
      BY <1>n, <2>2, <3>1, <3>2 DEF PushCarries
    <3>4. RecordedIsStored'
      BY <1>n, <2>1, <2>2, <3>1 DEF RecordedIsStored
    <3>5. AckIsHeld'
      <4>1. \A a \in acks : a.savedAt \in Nat
        BY DEF IntentTypeOK, Acks
      <4> QED
        BY <1>n, <2>1, <2>2, <3>1, <4>1 DEF IntentInv, AckIsHeld
    <3> QED
      BY <1>f, <2>1, <3>3, <3>4, <3>5 DEF IntentInv
  <2>3. CASE UNCHANGED <<now, push>>
    BY <1>0, <1>n, <1>f, <2>1, <2>3, NothingRecorded, RecordedKept DEF IntentInv
  <2> QED
    BY <1>3, <2>2, <2>3 DEF PushStarts
<1>4. CASE PushSynced
  <2>1. push \in Pushes
    BY <1>4 DEF PushSynced, IntentTypeOK, NoPush
  <2>2. push.savedAt \in Nat /\ push.content \in Nat /\ push # NoPush
    BY <2>1, <1>4 DEF Pushes, PushSynced, NoPush
  <2>3. server <= server' /\ push.content <= server' /\ server' \in Nat
    BY <1>4, <1>n, <2>2 DEF PushSynced, Later
  <2>4. UNCHANGED <<memory, stored, now, ops, marks, flush>> /\ push' = NoPush
    BY <1>4 DEF PushSynced
  <2>5. \A d, u : Recorded(d, u)' => Recorded(d, u)
    BY <2>4, RecordedKept
  <2>6. RecordedIsStored' /\ PushCarries'
    BY <1>n, <2>4, <2>5 DEF RecordedIsStored, PushCarries
  <2>7. AckIsHeld'
    <3> SUFFICES ASSUME NEW a \in acks'
                 PROVE /\ a.savedAt <= now'
                       /\ \A d, u : Recorded(d, u)' /\ d <= a.savedAt => u <= server'
                       /\ a.pc = "remove" => a.seen.upto <= server'
      BY DEF AckIsHeld
    <3>1. CASE a \in acks
      <4>1. a.pc = "remove" => a.seen.upto \in Nat
        BY <3>1 DEF IntentTypeOK, Acks, Ops
      <4> QED
        BY <1>n, <2>3, <2>4, <2>5, <3>1, <4>1 DEF IntentInv, AckIsHeld
    <3>2. CASE a = [pc |-> "list", savedAt |-> push.savedAt, seen |-> NoOp]
      BY <1>n, <2>2, <2>3, <2>4, <2>5, <3>2 DEF IntentInv, PushCarries
    <3> QED
      BY <1>4, <3>1, <3>2 DEF PushSynced
  <2>8. FlushCarries'
    <3>1. \A t \in FlushTabs : flush[t].pc = "remove" => flush[t].op.upto \in Nat
      BY FlushShape DEF Ops
    <3> QED
      BY <1>n, <2>3, <2>4, <3>1 DEF IntentInv, FlushCarries
  <2> QED
    BY <2>6, <2>7, <2>8 DEF IntentInv
<1>5. CASE PushOffline \/ PushRetried
  <2>1. push \in Pushes /\ push # NoPush
    BY <1>5 DEF PushOffline, PushRetried, IntentTypeOK, NoPush
  <2>2. push' # NoPush => push'.savedAt = push.savedAt /\ push'.content = push.content
    <3>1. /\ [push EXCEPT !.pc = "offline"].savedAt = push.savedAt
          /\ [push EXCEPT !.pc = "offline"].content = push.content
      BY <2>1 DEF Pushes
    <3>2. /\ [push EXCEPT !.pc = "sent", !.acks = FALSE].savedAt = push.savedAt
          /\ [push EXCEPT !.pc = "sent", !.acks = FALSE].content = push.content
      BY <2>1 DEF Pushes
    <3>3. push' \in {NoPush, [push EXCEPT !.pc = "offline"], [push EXCEPT !.pc = "sent", !.acks = FALSE]}
      BY <1>5 DEF PushOffline, PushRetried
    <3> QED
      BY <3>1, <3>2, <3>3
  <2>3. UNCHANGED <<memory, stored, server, now, ops, marks, acks, flush>>
    BY <1>5 DEF PushOffline, PushRetried
  <2> QED
    BY <1>0, <1>n, <1>f, <2>1, <2>2, <2>3, NothingRecorded, RecordedKept DEF IntentInv
<1>6. ASSUME NEW m \in marks, MarkLists(m) PROVE IntentInv'
  <2>1. UNCHANGED <<memory, stored, server, now, ops, acks, push, flush>>
    BY <1>6 DEF MarkLists
  <2>2. \A n \in marks' : \E k \in marks : n.dirty = k.dirty /\ n.upto = k.upto
    <3>1. \A o : /\ [m EXCEPT !.pc = "write", !.seen = o].dirty = m.dirty
                 /\ [m EXCEPT !.pc = "write", !.seen = o].upto = m.upto
      BY DEF IntentTypeOK, Marks
    <3> QED
      BY <1>6, <3>1 DEF MarkLists
  <2>3. \A d, u : Recorded(d, u)' => Recorded(d, u)
    BY <2>1, <2>2 DEF Recorded, InMarks, InQueue, InFlush
  <2> QED
    BY <1>0, <1>n, <1>f, <2>1, <2>3, NothingRecorded DEF IntentInv
<1>7. ASSUME NEW m \in marks, MarkWrites(m) PROVE IntentInv'
  <2>1. UNCHANGED <<memory, stored, server, now, acks, push, flush>> /\ marks' \subseteq marks
    BY <1>7 DEF MarkWrites
  <2>2. \A o \in ops' : o \in ops \/ (o.dirty = m.dirty /\ o.upto = m.upto)
    <3>1. m.dirty \in Nat /\ m.upto \in Nat /\ m.seen \in {NoOp} \cup Ops
      BY DEF IntentTypeOK, Marks
    <3>2. m.seen # NoOp => /\ [m.seen EXCEPT !.dirty = m.dirty, !.upto = m.upto].dirty = m.dirty
                           /\ [m.seen EXCEPT !.dirty = m.dirty, !.upto = m.upto].upto = m.upto
      BY <3>1 DEF Ops
    <3>3. CASE m.seen # NoOp
      BY <1>7, <3>2, <3>3 DEF MarkWrites, Put
    <3>4. CASE m.seen = NoOp
      BY <1>7, <3>4 DEF MarkWrites, Put
    <3> QED
      BY <3>3, <3>4
  <2>3. \A d, u : Recorded(d, u)' => Recorded(d, u)
    BY <2>1, <2>2 DEF Recorded, InMarks, InQueue, InFlush
  <2> QED
    BY <1>0, <1>n, <1>f, <2>1, <2>3, NothingRecorded DEF IntentInv
<1>8. ASSUME NEW a \in acks, AckLists(a) PROVE IntentInv'
  <2>1. UNCHANGED <<memory, stored, server, now, ops, marks, push, flush>>
    BY <1>8 DEF AckLists
  <2>2. \A d, u : Recorded(d, u)' => Recorded(d, u)
    BY <2>1, RecordedKept
  <2>3. RecordedIsStored' /\ PushCarries'
    BY <2>1, <2>2 DEF IntentInv, RecordedIsStored, PushCarries
  <2>4. AckIsHeld'
    <3>1. PICK o \in Listed :
            acks' = (acks \ {a}) \cup (IF o # NoOp /\ Acknowledges(o, a.savedAt)
                                       THEN {[a EXCEPT !.pc = "remove", !.seen = o]} ELSE {})
      BY <1>8 DEF AckLists
    <3>2. ASSUME o # NoOp, o.dirty <= a.savedAt PROVE o.upto <= server
      <4>1. Recorded(o.dirty, o.upto)
        BY <3>2, ListedShape DEF Recorded, InQueue
      <4> QED
        BY <3>2, <4>1 DEF IntentInv, AckIsHeld
    <3>3. /\ [a EXCEPT !.pc = "remove", !.seen = o].savedAt = a.savedAt
          /\ [a EXCEPT !.pc = "remove", !.seen = o].seen = o
      BY DEF IntentTypeOK, Acks
    <3> QED
      BY <2>1, <2>2, <3>1, <3>2, <3>3 DEF IntentInv, AckIsHeld, Acknowledges
  <2> QED
    BY <1>f, <2>1, <2>3, <2>4 DEF IntentInv
<1>9. ASSUME NEW a \in acks, AckRemoves(a) PROVE IntentInv'
  <2>1. /\ UNCHANGED <<memory, stored, server, now, marks, push, flush>>
        /\ ops' \subseteq ops /\ acks' \subseteq acks
    BY <1>9 DEF AckRemoves
  <2> QED
    BY <1>0, <1>n, <1>f, <2>1, NothingRecorded, RecordedKept DEF IntentInv
<1>10. ASSUME NEW t \in FlushTabs, FlushBegins(t) PROVE IntentInv'
  <2>1. PICK o \in Existing : flush' = [flush EXCEPT ![t] = [pc |-> "read", op |-> o]]
    BY <1>10 DEF FlushBegins
  <2>2. UNCHANGED <<memory, stored, server, now, ops, marks, acks, push>>
    BY <1>10 DEF FlushBegins
  <2>3. \A i \in FlushTabs : flush'[i] = IF i = t THEN [pc |-> "read", op |-> o] ELSE flush[i]
    BY <2>1 DEF IntentTypeOK
  <2>4. \A d, u : Recorded(d, u)' => Recorded(d, u)
    BY <2>2, <2>3 DEF Recorded, InMarks, InQueue, InFlush, Existing
  <2>5. FlushCarries'
    BY <2>2, <2>3 DEF IntentInv, FlushCarries
  <2> QED
    BY <1>0, <1>n, <2>2, <2>4, <2>5, NothingRecorded DEF IntentInv
<1>11. ASSUME NEW t \in FlushTabs, FlushReads(t) PROVE IntentInv'
  <2>1. UNCHANGED <<memory, stored, server, now, ops, marks, acks, push>>
    BY <1>11 DEF FlushReads
  <2>2. \A i \in FlushTabs : flush'[i] = IF i = t THEN [pc |-> "merge", op |-> flush[t].op, content |-> stored]
                                         ELSE flush[i]
    BY <1>11 DEF FlushReads, IntentTypeOK
  <2>3. \A d, u : Recorded(d, u)' => Recorded(d, u)
    BY <1>11, <2>1, <2>2, RecordedKept DEF FlushReads
  <2>4. Recorded(flush[t].op.dirty, flush[t].op.upto)
    BY <1>11 DEF FlushReads, Recorded, InFlush
  <2>5. FlushCarries'
    BY <1>n, <2>1, <2>2, <2>4 DEF IntentInv, FlushCarries
  <2> QED
    BY <1>0, <1>n, <2>1, <2>3, <2>5, NothingRecorded DEF IntentInv
<1>12. ASSUME NEW t \in FlushTabs, FlushSends(t) PROVE IntentInv'
  <2>1. UNCHANGED <<memory, stored, server, now, ops, marks, acks, push>>
    BY <1>12 DEF FlushSends
  <2>2. flush[t] \in Carried /\ flush[t].pc = "merge"
    BY <1>12, FlushShape DEF FlushSends
  <2>3. \A i \in FlushTabs \ {t} : flush'[i] = flush[i]
    BY <1>12 DEF FlushSends, IntentTypeOK
  <2>4. flush'[t] \in {NoFlush, [flush[t] EXCEPT !.pc = "sent"]}
    BY <1>12 DEF FlushSends, IntentTypeOK
  <2>5. flush'[t].pc # "none" =>
          flush'[t].pc = "sent" /\ flush'[t].op = flush[t].op /\ flush'[t].content = flush[t].content
    BY <2>2, <2>4 DEF NoFlush, Carried
  <2>6. flush'[t].pc \in {"none", "sent"}
    BY <2>5
  <2>7. \A d, u : Recorded(d, u)' => Recorded(d, u)
    BY <2>1, <2>2, <2>3, <2>5, RecordedKept
  <2>8. FlushCarries'
    BY <2>1, <2>2, <2>3, <2>5, <2>6 DEF IntentInv, FlushCarries
  <2> QED
    BY <1>0, <1>n, <2>1, <2>7, <2>8, NothingRecorded DEF IntentInv
<1>13. ASSUME NEW t \in FlushTabs, FlushSynced(t) PROVE IntentInv'
  <2>1. UNCHANGED <<memory, stored, now, ops, marks, acks, push>>
    BY <1>13 DEF FlushSynced
  <2>2. flush[t] \in Carried /\ flush[t].pc = "sent" /\ flush[t].content \in Nat /\ flush[t].op.upto \in Nat
    BY <1>13, FlushShape DEF FlushSynced, Carried, Ops
  <2>3. server <= server' /\ flush[t].content <= server' /\ server' \in Nat
    BY <1>13, <1>n, <2>2 DEF FlushSynced, Later
  <2>4. \A i \in FlushTabs \ {t} : flush'[i] = flush[i]
    BY <1>13 DEF FlushSynced, IntentTypeOK
  <2>5. flush'[t].pc = "remove" /\ flush'[t].op = flush[t].op
    BY <1>13, <2>2 DEF FlushSynced, IntentTypeOK, Carried
  <2>6. \A d, u : Recorded(d, u)' => Recorded(d, u)
    BY <2>1, <2>2, <2>4, <2>5, RecordedKept
  <2>7. FlushCarries'
    <3>1. \A i \in FlushTabs : flush[i].pc = "remove" => flush[i].op.upto \in Nat
      BY FlushShape DEF Ops
    <3> QED
      BY <1>n, <2>2, <2>3, <2>4, <2>5, <3>1 DEF IntentInv, FlushCarries
  <2> QED
    BY <1>0, <1>n, <2>1, <2>3, <2>6, <2>7, NothingRecorded DEF IntentInv
<1>14. ASSUME NEW t \in FlushTabs, FlushRemoves(t) PROVE IntentInv'
  <2>1. UNCHANGED <<memory, stored, server, now, marks, acks, push>> /\ ops' \subseteq ops
    BY <1>14 DEF FlushRemoves
  <2>2. \A i \in FlushTabs : flush'[i] = IF i = t THEN NoFlush ELSE flush[i]
    BY <1>14 DEF FlushRemoves, IntentTypeOK
  <2>3. \A d, u : Recorded(d, u)' => Recorded(d, u)
    BY <2>1, <2>2, RecordedKept DEF NoFlush
  <2>4. FlushCarries'
    BY <2>1, <2>2 DEF IntentInv, FlushCarries, NoFlush
  <2> QED
    BY <1>0, <1>n, <2>1, <2>3, <2>4, NothingRecorded DEF IntentInv
<1>15. ASSUME NEW t \in FlushTabs, NEW status \in {"retry", "failed"}, FlushFails(t, status)
       PROVE IntentInv'
  <2>1. UNCHANGED <<memory, stored, server, now, marks, acks, push>>
    BY <1>15 DEF FlushFails
  <2>2. \A i \in FlushTabs : flush'[i] = IF i = t THEN NoFlush ELSE flush[i]
    BY <1>15 DEF FlushFails, IntentTypeOK
  <2>3. flush[t].op \in Ops /\ flush[t].pc # "none"
    BY <1>15, FlushShape DEF FlushFails
  <2>4. \A o \in ops' : o \in ops \/ (o.dirty = flush[t].op.dirty /\ o.upto = flush[t].op.upto)
    <3>1. /\ [flush[t].op EXCEPT !.status = status].dirty = flush[t].op.dirty
          /\ [flush[t].op EXCEPT !.status = status].upto = flush[t].op.upto
      BY <2>3 DEF Ops
    <3> QED
      BY <1>15, <3>1 DEF FlushFails, Put
  <2>5. \A d, u : Recorded(d, u)' => Recorded(d, u)
    BY <2>1, <2>2, <2>3, <2>4 DEF Recorded, InMarks, InQueue, InFlush, NoFlush
  <2>6. FlushCarries'
    BY <2>1, <2>2 DEF IntentInv, FlushCarries, NoFlush
  <2> QED
    BY <1>0, <1>n, <2>1, <2>5, <2>6, NothingRecorded DEF IntentInv
<1>16. CASE UNCHANGED intentVars
  BY <1>16 DEF intentVars, IntentInv, RecordedIsStored, PushCarries, AckIsHeld, FlushCarries, Recorded,
               InMarks, InQueue, InFlush
<1> QED
  BY <1>1, <1>2, <1>3, <1>4, <1>5, <1>6, <1>7, <1>8, <1>9, <1>10, <1>11, <1>12, <1>13, <1>14, <1>15,
     <1>16 DEF IntentNext

\* Whoever is about to remove the record has seen the server take what the
\* record stood for: in every interleaving of saves, pushes, flushes and
\* failures.
THEOREM ForgottenAlwaysHeld == IntentSpec => []ForgottenIsHeld
<1>1. IntentInit => IntentInv
  BY DEF IntentInit, IntentInv, RecordedIsStored, PushCarries, AckIsHeld, FlushCarries, Recorded, InMarks,
         InQueue, InFlush, NoFlush
<1>2. IntentTypeOK /\ IntentInv => ForgottenIsHeld
  <2> SUFFICES ASSUME IntentTypeOK, IntentInv PROVE ForgottenIsHeld
    OBVIOUS
  <2>1. /\ \A a \in acks : a.pc = "remove" => a.seen.upto \in Nat
        /\ \A t \in FlushTabs : flush[t].pc = "remove" => flush[t].op.upto \in Nat
    BY FlushShape DEF IntentTypeOK, Acks, Ops
  <2> QED
    BY <2>1 DEF IntentTypeOK, IntentInv, AckIsHeld, FlushCarries, ForgottenIsHeld
<1> QED
  BY <1>1, <1>2, IntentStep, IntentTyped, PTL DEF IntentSpec

-----------------------------------------------------------------------------
(* Notifications *)

Users == Accounts \cup {None}
Sessions == {NoSession} \cup [user : Accounts, key : Nat]
Rows == [pk : Nat, endpoint : Nat, binding : Nat, user : Accounts, key : Nat, active : BOOLEAN]
Statuses == {"pending", "sending", "accepted", "cancelled", "failed"}
Deliveries == [notice : Nat, to : Accounts, row : Nat, status : Statuses, tries : Nat, claim : Nat]
Dispatches == {Idle} \cup [pc : {"send"}, job : Deliveries]
                     \cup [pc : {"record"}, job : Deliveries, status : Statuses]
Bound == {Unbound} \cup [user : Accounts, binding : Nat]
Posting == [pc : {"post", "look", "unsubscribe"}, user : Accounts, endpoint : Nat]
Writing == [pc : {"write"}, user : Accounts, binding : Nat]
Switches == {Idle} \cup [pc : {"subscribe", "delete"}, user : Accounts] \cup Posting \cup Writing
Leaving == [pc : {"read", "clear", "close"}, user : Accounts, full : BOOLEAN, next : Users, binding : Nat]
Messages == [notice : Nat, to : Accounts, endpoint : Nat, binding : Nat]
Shown == [notice : Nat, to : Accounts, binding : Nat, reader : Accounts]

ServerTypes ==
  /\ session \in Sessions /\ sessions \in Nat
  /\ rows \subseteq Rows /\ bindings \in Nat
  /\ deliveries \subseteq Deliveries /\ notices \in Nat
  /\ dispatch \in [Dispatchers -> Dispatches]

BrowserTypes ==
  /\ endpoint \in Nat /\ endpoints \in Nat
  /\ bound \in Bound
  /\ current \in Users
  /\ page \in [PushTabs -> Users]
  /\ switch \in [PushTabs -> Switches]
  /\ leaving \in [PushTabs -> {Idle} \cup Leaving]
  /\ off \subseteq Accounts

WorkerTypes ==
  /\ renewal \in {Idle} \cup Posting \cup Writing
  /\ transit \subseteq Messages
  /\ shows \subseteq Shown /\ visible \subseteq Shown

PushTypeOK == ServerTypes /\ BrowserTypes /\ WorkerTypes

-----------------------------------------------------------------------------
(* Types *)

\* A request of the switch or the renewal carries what its step needs.
LEMMA PostShape ==
  ASSUME NEW s \in Switches
  PROVE  /\ s.pc \in {"post", "look", "unsubscribe"} => s \in Posting
         /\ s.pc = "write" => s \in Writing
         /\ s # Idle => s.user \in Accounts
BY DEF Switches, Posting, Writing, Idle

\* Registering an endpoint keeps the rows rows, whoever held the endpoint.
LEMMA RegisteredType ==
  ASSUME ServerTypes, NEW e \in Nat, session # NoSession
  PROVE  Registered(e) \subseteq Rows
<1> DEFINE old == {r \in rows : r.endpoint = e}
           pk == IF old = {} THEN bindings + 1 ELSE (CHOOSE r \in old : TRUE).pk
<1>1. old # {} => (CHOOSE r \in old : TRUE) \in old
  OBVIOUS
<1>2. pk \in Nat
  BY <1>1 DEF ServerTypes, Rows
<1>3. session.user \in Accounts /\ session.key \in Nat
  BY DEF ServerTypes, Sessions
<1>4. [pk |-> pk, endpoint |-> e, binding |-> FreshBinding(e), user |-> session.user,
       key |-> session.key, active |-> TRUE] \in Rows
  BY <1>2, <1>3 DEF ServerTypes, Rows, FreshBinding
<1> QED
  BY <1>4 DEF Registered, ServerTypes

\* A claim, and an outcome recorded, leave the notice, its reader and its row.
LEMMA DeliveryChanged ==
  ASSUME NEW d \in Deliveries, NEW s \in Statuses, NEW n \in Nat, NEW c \in Nat
  PROVE  /\ [d EXCEPT !.status = s] \in Deliveries
         /\ [d EXCEPT !.status = s, !.claim = c] \in Deliveries
         /\ [d EXCEPT !.status = s, !.tries = n, !.claim = c] \in Deliveries
<1>1. d = [notice |-> d.notice, to |-> d.to, row |-> d.row, status |-> d.status, tries |-> d.tries,
           claim |-> d.claim]
  BY DEF Deliveries
<1>2. d.notice \in Nat /\ d.to \in Accounts /\ d.row \in Nat /\ d.status \in Statuses
      /\ d.tries \in Nat /\ d.claim \in Nat
  BY DEF Deliveries
<1> QED
  BY <1>1, <1>2 DEF Deliveries

\* The steps of the server, and those of a tab or the worker that call it.
LEMMA ServerTypesStep == PushTypeOK /\ [PushNext]_pushVars => ServerTypes'
<1> SUFFICES ASSUME PushTypeOK, [PushNext]_pushVars PROVE ServerTypes'
  OBVIOUS
<1> USE DEF PushTypeOK
<1>1. CASE UNCHANGED serverVars
  BY <1>1 DEF serverVars, ServerTypes
<1>2. ASSUME NEW t \in PushTabs, NEW a \in Accounts, SignIn(t, a) PROVE ServerTypes'
  BY <1>2 DEF SignIn, ServerTypes, Sessions
<1>3. ASSUME NEW key, EndSession(key) PROVE ServerTypes'
  BY <1>3 DEF EndSession, ServerTypes, Sessions
<1>4. ASSUME NEW t \in PushTabs, PostHandled(t) PROVE ServerTypes'
  <2>1. switch[t].endpoint \in Nat
    BY <1>4, PostShape DEF PostHandled, BrowserTypes, Posting
  <2>2. rows' \subseteq Rows
    BY <1>4, <2>1, RegisteredType DEF PostHandled, AccountMatches, ServerTypes
  <2> QED
    BY <1>4, <2>2 DEF PostHandled, ServerTypes
<1>5. CASE RenewalPosts
  <2>1. renewal.endpoint \in Nat
    BY <1>5 DEF RenewalPosts, WorkerTypes, Posting, Writing, Idle
  <2>2. rows' \subseteq Rows
    BY <1>5, <2>1, RegisteredType DEF RenewalPosts, AccountMatches, ServerTypes
  <2> QED
    BY <1>5, <2>2 DEF RenewalPosts, ServerTypes
<1>6. ASSUME NEW t \in PushTabs, DisableDeletes(t) PROVE ServerTypes'
  BY <1>6 DEF DisableDeletes, ServerTypes
<1>7. ASSUME NEW a \in Accounts, Enqueue(a) PROVE ServerTypes'
  <2>1. ASSUME NEW r \in rows
        PROVE [notice |-> notices + 1, to |-> a, row |-> r.pk, status |-> "pending", tries |-> 0,
               claim |-> 0] \in Deliveries
    <3>1. r.pk \in Nat /\ notices + 1 \in Nat
      BY DEF ServerTypes, Rows
    <3> QED
      BY <3>1 DEF Deliveries, Statuses
  <2>2. deliveries' \subseteq Deliveries
    BY <1>7, <2>1 DEF Enqueue, ServerTypes
  <2> QED
    BY <1>7, <2>2 DEF Enqueue, ServerTypes
<1>8. ASSUME NEW x \in Dispatchers, NEW d \in deliveries, Claim(x, d) PROVE ServerTypes'
  <2> DEFINE e == [d EXCEPT !.status = "sending", !.tries = @ + 1, !.claim = d.tries + 1]
  <2>1. [d EXCEPT !.status = "failed"] \in Deliveries /\ e \in Deliveries
    <3>1. d \in Deliveries /\ d.tries + 1 \in Nat /\ {"failed", "sending"} \subseteq Statuses
      BY DEF ServerTypes, Deliveries, Statuses
    <3> QED
      BY <3>1, DeliveryChanged
  <2> HIDE DEF e
  <2>2. [pc |-> "send", job |-> e] \in Dispatches
    BY <2>1 DEF Dispatches
  <2>3. deliveries' \subseteq Deliveries /\ dispatch' \in [Dispatchers -> Dispatches]
    BY <1>8, <2>1, <2>2 DEF Claim, Becomes, ServerTypes, e
  <2> QED
    BY <1>8, <2>3 DEF Claim, ServerTypes
<1>9. ASSUME NEW x \in Dispatchers, NEW outcome, SendPush(x, outcome) PROVE ServerTypes'
  <2>1. dispatch[x].job \in Deliveries
    BY <1>9 DEF SendPush, ServerTypes, Dispatches, Idle
  <2>2. \A status \in Statuses : [pc |-> "record", job |-> dispatch[x].job, status |-> status] \in Dispatches
    BY <2>1 DEF Dispatches
  <2>3. dispatch' \in [Dispatchers -> Dispatches]
    <3> DEFINE says(status) == dispatch' = [dispatch EXCEPT ![x] = [pc |-> "record", job |-> dispatch[x].job,
                                                                    status |-> status]]
    <3>1. \/ dispatch' = [dispatch EXCEPT ![x] = Idle]
          \/ says("cancelled") \/ says("accepted") \/ says("failed") \/ says("pending")
      BY <1>9 DEF SendPush
    <3> QED
      BY <2>2, <3>1 DEF ServerTypes, Dispatches, Statuses
  <2>4. rows' \subseteq Rows
    <3>1. \A r \in rows : [r EXCEPT !.active = FALSE] \in Rows
      BY DEF ServerTypes, Rows
    <3> QED
      BY <1>9, <3>1 DEF SendPush, ServerTypes
  <2> QED
    BY <1>9, <2>3, <2>4 DEF SendPush, ServerTypes
<1>10. ASSUME NEW x \in Dispatchers, RecordOutcome(x) PROVE ServerTypes'
  <2>1. dispatch[x].status \in Statuses
    <3>1. dispatch[x] \in Dispatches /\ dispatch[x].pc = "record"
      BY <1>10 DEF RecordOutcome, ServerTypes
    <3>2. dispatch[x] \in [pc : {"record"}, job : Deliveries, status : Statuses]
      BY <3>1 DEF Dispatches, Idle
    <3> QED
      BY <3>2
  <2>2. \A d \in deliveries : [d EXCEPT !.status = dispatch[x].status, !.claim = 0] \in Deliveries
    BY <2>1, DeliveryChanged DEF ServerTypes
  <2>3. deliveries' \subseteq Deliveries
    BY <1>10, <2>2 DEF RecordOutcome, ServerTypes
  <2> QED
    BY <1>10, <2>3 DEF RecordOutcome, ServerTypes, Dispatches
<1>11. ASSUME NEW x \in Dispatchers, DispatcherDies(x) PROVE ServerTypes'
  BY <1>11 DEF DispatcherDies, ServerTypes, Dispatches
<1>12. ASSUME NEW t \in PushTabs,
              \/ Unauthorized(t) \/ AccountRefreshed(t) \/ ForgetReads(t) \/ ForgetClears(t)
              \/ ForgetCloses(t) \/ Enable(t) \/ Subscribe(t) \/ EnableWrites(t) \/ Disable(t)
              \/ DisableLooks(t) \/ DisableUnsubscribes(t) \/ PushTabCloses(t)
       PROVE UNCHANGED serverVars
  BY <1>12 DEF Unauthorized, AccountRefreshed, ForgetReads, ForgetClears, ForgetCloses, Enable, Subscribe,
               EnableWrites, Disable, DisableLooks, DisableUnsubscribes, PushTabCloses
<1>13. ASSUME \/ SubscriptionChange \/ RenewalWrites
              \/ \E m \in transit : PushArrives(m)
              \/ \E s \in shows : ShowNotice(s)
       PROVE UNCHANGED serverVars
  BY <1>13 DEF SubscriptionChange, RenewalWrites, PushArrives, ShowNotice
<1>14. CASE UNCHANGED pushVars
  BY <1>14 DEF pushVars, ServerTypes
<1> QED
  BY <1>1, <1>2, <1>3, <1>4, <1>5, <1>6, <1>7, <1>8, <1>9, <1>10, <1>11, <1>12, <1>13, <1>14
     DEF PushNext, PushSteps, SignOut, SessionRevoked

\* What forgetPushAccount works on is an account: the one shown, or the one
\* the browser saw last.
LEMMA ForgetType ==
  ASSUME NEW u \in Accounts, NEW full \in BOOLEAN, NEW next \in Users
  PROVE  Forget(u, full, next) \in Leaving
BY DEF Forget, Leaving

\* The end of forgetPushAccount leaves an account, or none, as the current one.
LEMMA ForgetDoneType ==
  ASSUME BrowserTypes, NEW t \in PushTabs, leaving[t].pc # "none", ForgetDone(t)
  PROVE  /\ leaving' \in [PushTabs -> {Idle} \cup Leaving]
         /\ current' \in Users
<1>1. leaving[t] \in Leaving
  BY DEF BrowserTypes, Idle
<1> QED
  BY <1>1 DEF ForgetDone, BrowserTypes, Leaving, Users

\* The steps of the tabs, and of the worker where it writes the record.
LEMMA BrowserTypesStep == PushTypeOK /\ [PushNext]_pushVars => BrowserTypes'
<1> SUFFICES ASSUME PushTypeOK, [PushNext]_pushVars PROVE BrowserTypes'
  OBVIOUS
<1> USE DEF PushTypeOK
<1>1. CASE UNCHANGED browserVars
  BY <1>1 DEF browserVars, BrowserTypes
<1>2. ASSUME NEW t \in PushTabs, NEW a \in Accounts, SignIn(t, a) PROVE BrowserTypes'
  <2>1. page' \in [PushTabs -> Users] /\ current' \in Users
    BY <1>2 DEF SignIn, BrowserTypes, Users
  <2>2. leaving' \in [PushTabs -> {Idle} \cup Leaving]
    <3>1. CASE current \in {None, a}
      BY <1>2, <3>1 DEF SignIn, BrowserTypes
    <3>2. CASE current \notin {None, a}
      <4>1. Forget(current, TRUE, a) \in Leaving
        BY <3>2, ForgetType DEF BrowserTypes, Users
      <4> QED
        BY <1>2, <3>2, <4>1 DEF SignIn, BrowserTypes
    <3> QED
      BY <3>1, <3>2
  <2> QED
    BY <1>2, <2>1, <2>2 DEF SignIn, BrowserTypes
<1>3. ASSUME NEW t \in PushTabs, SignOut(t) \/ Unauthorized(t) PROVE BrowserTypes'
  <2>1. page[t] \in Accounts
    BY <1>3 DEF SignOut, Unauthorized, BrowserTypes, Users
  <2>2. Forget(page[t], TRUE, None) \in Leaving /\ Forget(page[t], FALSE, None) \in Leaving
    BY <2>1, ForgetType DEF Users
  <2>3. leaving' \in [PushTabs -> {Idle} \cup Leaving] /\ page' \in [PushTabs -> Users]
    BY <1>3, <2>2 DEF SignOut, Unauthorized, BrowserTypes, Users
  <2> QED
    BY <1>3, <2>3 DEF SignOut, Unauthorized, BrowserTypes
<1>4. ASSUME NEW t \in PushTabs, AccountRefreshed(t) PROVE BrowserTypes'
  BY <1>4 DEF AccountRefreshed, BrowserTypes, ServerTypes, Sessions, Users
<1>5. ASSUME NEW t \in PushTabs, ForgetReads(t) PROVE BrowserTypes'
  <2>1. leaving[t] \in Leaving
    BY <1>5 DEF ForgetReads, BrowserTypes, Idle
  <2>2. CASE bound.user = leaving[t].user
    <3>1. [leaving[t] EXCEPT !.pc = "clear", !.binding = bound.binding] \in Leaving
      <4>1. bound.binding \in Nat
        BY DEF BrowserTypes, Bound, Unbound
      <4> QED
        BY <2>1, <4>1 DEF Leaving
    <3>2. leaving' = [leaving EXCEPT ![t] = [leaving[t] EXCEPT !.pc = "clear", !.binding = bound.binding]]
      BY <1>5, <2>2 DEF ForgetReads, BrowserTypes
    <3>3. leaving' \in [PushTabs -> {Idle} \cup Leaving]
      BY <3>1, <3>2 DEF BrowserTypes
    <3> QED
      BY <1>5, <2>2, <3>3 DEF ForgetReads, BrowserTypes
  <2>3. CASE bound.user # leaving[t].user
    <3>1. leaving[t].user \in Accounts
      BY <2>1 DEF Leaving
    <3>2. off' \subseteq Accounts
      BY <1>5, <2>3, <3>1 DEF ForgetReads, TurnedOff, BrowserTypes
    <3> QED
      BY <1>5, <2>3, <3>2, ForgetDoneType DEF ForgetReads, BrowserTypes
  <2> QED
    BY <2>2, <2>3
<1>6. ASSUME NEW t \in PushTabs, ForgetClears(t) PROVE BrowserTypes'
  <2>1. leaving[t] \in Leaving
    BY <1>6 DEF ForgetClears, BrowserTypes, Idle
  <2>2. [leaving[t] EXCEPT !.pc = "close"] \in Leaving /\ leaving[t].user \in Accounts
    BY <2>1 DEF Leaving
  <2>3. leaving' \in [PushTabs -> {Idle} \cup Leaving] /\ off' \subseteq Accounts
    BY <1>6, <2>2 DEF ForgetClears, TurnedOff, BrowserTypes
  <2> QED
    BY <1>6, <2>3 DEF ForgetClears, BrowserTypes, Bound
<1>7. ASSUME NEW t \in PushTabs, ForgetCloses(t) PROVE BrowserTypes'
  BY <1>7, ForgetDoneType DEF ForgetCloses, BrowserTypes
<1>8. ASSUME NEW t \in PushTabs, Enable(t) PROVE BrowserTypes'
  <2>1. [pc |-> "subscribe", user |-> page[t]] \in Switches
    BY <1>8 DEF Enable, BrowserTypes, Users, Switches
  <2> QED
    BY <1>8, <2>1 DEF Enable, BrowserTypes
<1>9. ASSUME NEW t \in PushTabs, Subscribe(t) PROVE BrowserTypes'
  <2>1. endpoint' \in Nat /\ endpoints' \in Nat
    BY <1>9 DEF Subscribe, BrowserTypes
  <2>2. switch[t].user \in Accounts
    BY <1>9, PostShape DEF Subscribe, BrowserTypes, Idle
  <2>3. [pc |-> "post", user |-> switch[t].user, endpoint |-> endpoint'] \in Switches /\ Idle \in Switches
    BY <2>1, <2>2 DEF Switches, Posting
  <2>4. switch' \in [PushTabs -> Switches]
    BY <1>9, <2>3 DEF Subscribe, BrowserTypes
  <2> QED
    BY <1>9, <2>1, <2>4 DEF Subscribe, BrowserTypes
<1>10. ASSUME NEW t \in PushTabs, PostHandled(t) PROVE BrowserTypes'
  <2>1. switch[t].user \in Accounts
    BY <1>10, PostShape DEF PostHandled, BrowserTypes, Idle
  <2>2. [pc |-> "write", user |-> switch[t].user, binding |-> FreshBinding(switch[t].endpoint)] \in Switches
        /\ Idle \in Switches
    BY <2>1 DEF Switches, Writing, FreshBinding, ServerTypes
  <2>3. switch' \in [PushTabs -> Switches]
    BY <1>10, <2>2 DEF PostHandled, BrowserTypes
  <2> QED
    BY <1>10, <2>3 DEF PostHandled, BrowserTypes
<1>11. ASSUME NEW t \in PushTabs, EnableWrites(t) PROVE BrowserTypes'
  <2>1. switch[t] \in Writing
    BY <1>11, PostShape DEF EnableWrites, BrowserTypes
  <2>2. [user |-> switch[t].user, binding |-> switch[t].binding] \in Bound
    BY <2>1 DEF Writing, Bound
  <2> QED
    BY <1>11, <2>2 DEF EnableWrites, BrowserTypes, Switches
<1>12. ASSUME NEW t \in PushTabs, Disable(t) PROVE BrowserTypes'
  <2>1. page[t] \in Accounts
    BY <1>12 DEF Disable, BrowserTypes, Users
  <2>2. [pc |-> "delete", user |-> page[t]] \in Switches /\ Forget(page[t], FALSE, None) \in Leaving
    BY <2>1, ForgetType DEF Switches, Users
  <2> QED
    BY <1>12, <2>2 DEF Disable, BrowserTypes
<1>13. ASSUME NEW t \in PushTabs, DisableDeletes(t) PROVE BrowserTypes'
  <2>1. switch[t].user \in Accounts
    BY <1>13, PostShape DEF DisableDeletes, BrowserTypes, Idle
  <2>2. [pc |-> "look", user |-> switch[t].user, endpoint |-> endpoint] \in Switches /\ Idle \in Switches
    BY <2>1 DEF Switches, Posting, BrowserTypes
  <2>3. switch' \in [PushTabs -> Switches]
    BY <1>13, <2>2 DEF DisableDeletes, BrowserTypes
  <2> QED
    BY <1>13, <2>3 DEF DisableDeletes, BrowserTypes
<1>14. ASSUME NEW t \in PushTabs, DisableLooks(t) PROVE BrowserTypes'
  <2>1. switch[t] \in Posting
    BY <1>14, PostShape DEF DisableLooks, BrowserTypes
  <2>2. [switch[t] EXCEPT !.pc = "unsubscribe"] \in Switches /\ Idle \in Switches
    BY <2>1 DEF Switches, Posting
  <2> QED
    BY <1>14, <2>2 DEF DisableLooks, BrowserTypes
<1>15. ASSUME NEW t \in PushTabs, DisableUnsubscribes(t) PROVE BrowserTypes'
  BY <1>15 DEF DisableUnsubscribes, BrowserTypes, Switches
<1>16. ASSUME NEW t \in PushTabs, PushTabCloses(t) PROVE BrowserTypes'
  BY <1>16 DEF PushTabCloses, BrowserTypes, Switches, Users
<1>17. CASE SubscriptionChange
  BY <1>17 DEF SubscriptionChange, BrowserTypes
<1>18. CASE RenewalWrites
  <2>1. renewal \in Writing
    BY <1>18 DEF RenewalWrites, WorkerTypes, Posting, Idle
  <2>2. [user |-> renewal.user, binding |-> renewal.binding] \in Bound
    BY <2>1 DEF Writing, Bound
  <2> QED
    BY <1>18, <2>2 DEF RenewalWrites, BrowserTypes
<1>19. ASSUME \/ SessionRevoked \/ RenewalPosts
              \/ \E m \in transit : PushArrives(m)
              \/ \E s \in shows : ShowNotice(s)
              \/ \E a \in Accounts : Enqueue(a)
              \/ \E x \in Dispatchers : \/ \E d \in deliveries : Claim(x, d)
                                        \/ \E outcome \in {"accepted", "cancelled", "gone", "refused",
                                                           "unreachable", "unheard"} : SendPush(x, outcome)
                                        \/ RecordOutcome(x) \/ DispatcherDies(x)
       PROVE UNCHANGED browserVars
  BY <1>19 DEF SessionRevoked, RenewalPosts, PushArrives, ShowNotice, Enqueue, Claim, SendPush,
               RecordOutcome, DispatcherDies
<1>20. CASE UNCHANGED pushVars
  BY <1>20 DEF pushVars, BrowserTypes
<1> QED
  BY <1>1, <1>2, <1>3, <1>4, <1>5, <1>6, <1>7, <1>8, <1>9, <1>10, <1>11, <1>12, <1>13, <1>14, <1>15,
     <1>16, <1>17, <1>18, <1>19, <1>20 DEF PushNext, PushSteps

\* The steps of the worker, and of the push service.
LEMMA WorkerTypesStep == PushTypeOK /\ [PushNext]_pushVars => WorkerTypes'
<1> SUFFICES ASSUME PushTypeOK, [PushNext]_pushVars PROVE WorkerTypes'
  OBVIOUS
<1> USE DEF PushTypeOK
<1>1. CASE UNCHANGED workerVars
  BY <1>1 DEF workerVars, WorkerTypes
<1>2. CASE SubscriptionChange
  <2>1. bound # Unbound => [pc |-> "post", user |-> bound.user, endpoint |-> endpoints + 1] \in Posting
    BY DEF BrowserTypes, Bound, Posting
  <2> QED
    BY <1>2, <2>1 DEF SubscriptionChange, WorkerTypes
<1>3. CASE RenewalPosts
  <2>1. renewal \in Posting
    BY <1>3 DEF RenewalPosts, WorkerTypes, Writing, Idle
  <2>2. [pc |-> "write", user |-> renewal.user, binding |-> FreshBinding(renewal.endpoint)] \in Writing
    BY <2>1 DEF Posting, Writing, FreshBinding, ServerTypes
  <2> QED
    BY <1>3, <2>2 DEF RenewalPosts, WorkerTypes
<1>4. CASE RenewalWrites
  BY <1>4 DEF RenewalWrites, WorkerTypes
<1>5. ASSUME NEW m \in transit, PushArrives(m) PROVE WorkerTypes'
  <2>1. bound # Unbound => [notice |-> m.notice, to |-> m.to, binding |-> m.binding, reader |-> bound.user] \in Shown
    BY DEF BrowserTypes, WorkerTypes, Messages, Bound, Shown
  <2> QED
    BY <1>5, <2>1 DEF PushArrives, WorkerTypes
<1>6. ASSUME NEW s \in shows, ShowNotice(s) PROVE WorkerTypes'
  BY <1>6 DEF ShowNotice, WorkerTypes
<1>7. ASSUME NEW t \in PushTabs, ForgetCloses(t) PROVE WorkerTypes'
  BY <1>7 DEF ForgetCloses, WorkerTypes
<1>8. ASSUME NEW x \in Dispatchers, NEW outcome, SendPush(x, outcome) PROVE WorkerTypes'
  <2>1. dispatch[x].job \in Deliveries
    BY <1>8 DEF SendPush, ServerTypes, Dispatches, Idle
  <2>2. \A r \in rows : [notice |-> dispatch[x].job.notice, to |-> dispatch[x].job.to, endpoint |-> r.endpoint,
                         binding |-> r.binding] \in Messages
    BY <2>1 DEF Deliveries, ServerTypes, Rows, Messages
  <2> DEFINE j == dispatch[x].job
             sent == {[notice |-> j.notice, to |-> j.to, endpoint |-> r.endpoint,
                       binding |-> r.binding] : r \in {y \in rows : y.pk = j.row}}
  <2>3. transit' = transit \/ transit' = transit \cup sent
    BY <1>8 DEF SendPush
  <2>4. sent \subseteq Messages
    BY <2>2
  <2> HIDE DEF sent
  <2>5. transit' \subseteq Messages
    BY <2>3, <2>4 DEF WorkerTypes
  <2> QED
    BY <1>8, <2>5 DEF SendPush, WorkerTypes
<1>9. ASSUME NEW t \in PushTabs,
             \/ \E a \in Accounts : SignIn(t, a)
             \/ SignOut(t) \/ Unauthorized(t) \/ AccountRefreshed(t) \/ ForgetReads(t) \/ ForgetClears(t)
             \/ Enable(t) \/ Subscribe(t) \/ PostHandled(t) \/ EnableWrites(t) \/ Disable(t)
             \/ DisableDeletes(t) \/ DisableLooks(t) \/ DisableUnsubscribes(t) \/ PushTabCloses(t)
      PROVE UNCHANGED workerVars
  BY <1>9 DEF SignIn, SignOut, Unauthorized, AccountRefreshed, ForgetReads, ForgetClears, Enable, Subscribe,
              PostHandled, EnableWrites, Disable, DisableDeletes, DisableLooks, DisableUnsubscribes,
              PushTabCloses
<1>10. ASSUME \/ SessionRevoked \/ \E a \in Accounts : Enqueue(a)
              \/ \E x \in Dispatchers : \/ \E d \in deliveries : Claim(x, d)
                                        \/ RecordOutcome(x) \/ DispatcherDies(x)
       PROVE UNCHANGED workerVars
  BY <1>10 DEF SessionRevoked, Enqueue, Claim, RecordOutcome, DispatcherDies
<1>11. CASE UNCHANGED pushVars
  BY <1>11 DEF pushVars, WorkerTypes
<1> QED
  BY <1>1, <1>2, <1>3, <1>4, <1>5, <1>6, <1>7, <1>8, <1>9, <1>10, <1>11 DEF PushNext, PushSteps

\* The types hold from the start on.
THEOREM PushTyped == PushSpec => []PushTypeOK
<1>1. PushInit => PushTypeOK
  BY DEF PushInit, PushTypeOK, ServerTypes, BrowserTypes, WorkerTypes, Sessions, Bound, Users, Switches,
         Dispatches
<1>2. PushTypeOK /\ [PushNext]_pushVars => PushTypeOK'
  BY ServerTypesStep, BrowserTypesStep, WorkerTypesStep DEF PushTypeOK
<1> QED
  BY <1>1, <1>2, PTL DEF PushSpec

-----------------------------------------------------------------------------
(* Deliveries *)

\* A row has at most one delivery of a notice, and later notices have numbers
\* of their own.
DeliveriesUnique ==
  /\ \A d \in deliveries : d.notice <= notices
  /\ \A d, e \in deliveries : d.notice = e.notice /\ d.row = e.row => d = e

\* What a step of the dispatchers and the server does to one delivery: a new
\* one has a new number, one that is there keeps its notice and its row, and
\* one that was accepted is not touched.
LEMMA DeliveryOrigin ==
  ASSUME PushTypeOK, DeliveriesUnique, [PushNext]_pushVars
  PROVE  /\ notices' \in {notices, notices + 1}
         /\ \A e \in deliveries' :
              \/ /\ notices' = notices + 1 /\ e.notice = notices + 1
                 /\ \A f \in deliveries' : f.notice = e.notice /\ f.row = e.row => f = e
              \/ \E d \in deliveries : /\ d.notice = e.notice /\ d.row = e.row
                                       /\ d.status = "accepted" => e = d
                                       /\ \A f \in deliveries' : f.notice = e.notice /\ f.row = e.row => f = e
<1> DEFINE Old(e) == \E d \in deliveries :
                       /\ d.notice = e.notice /\ d.row = e.row
                       /\ d.status = "accepted" => e = d
                       /\ \A f \in deliveries' : f.notice = e.notice /\ f.row = e.row => f = e
           New(e) == /\ notices' = notices + 1 /\ e.notice = notices + 1
                     /\ \A f \in deliveries' : f.notice = e.notice /\ f.row = e.row => f = e
           Goal == notices' \in {notices, notices + 1} /\ \A e \in deliveries' : New(e) \/ Old(e)
<1> SUFFICES Goal
  OBVIOUS
<1>1. ASSUME deliveries' \subseteq deliveries, notices' = notices PROVE Goal
  BY <1>1 DEF DeliveriesUnique
<1>2. ASSUME NEW a \in Accounts, Enqueue(a) PROVE Goal
  <2>1. \A e \in deliveries' :
          \/ e \in deliveries
          \/ \E pk \in {r.pk : r \in rows} :
               e = [notice |-> notices + 1, to |-> a, row |-> pk, status |-> "pending", tries |-> 0, claim |-> 0]
    BY <1>2 DEF Enqueue
  <2>2. \A d \in deliveries : d.notice < notices + 1
    BY DEF PushTypeOK, ServerTypes, Deliveries, DeliveriesUnique
  <2>3. notices' = notices + 1 /\ notices \in Nat
    BY <1>2 DEF Enqueue, PushTypeOK, ServerTypes
  <2>4. ASSUME NEW e \in deliveries' PROVE New(e) \/ Old(e)
    <3>1. CASE e \in deliveries
      <4>1. \A f \in deliveries' : f.notice = e.notice /\ f.row = e.row => f = e
        BY <2>1, <2>2, <2>3, <3>1 DEF DeliveriesUnique
      <4> QED
        BY <3>1, <4>1
    <3>2. CASE e \notin deliveries
      <4>1. e.notice = notices + 1
        BY <2>1, <3>2
      <4>2. \A f \in deliveries' : f.notice = e.notice /\ f.row = e.row => f = e
        BY <2>1, <2>2, <2>3, <3>2
      <4> QED
        BY <2>3, <4>1, <4>2
    <3> QED
      BY <3>1, <3>2
  <2> QED
    BY <2>3, <2>4
<1>3. ASSUME NEW x \in Dispatchers, NEW d \in deliveries, Claim(x, d) PROVE Goal
  <2>1. PICK e : /\ e.notice = d.notice /\ e.row = d.row
                 /\ deliveries' = (deliveries \ {d}) \cup {e}
    <3>1. d \in Deliveries
      BY DEF PushTypeOK, ServerTypes
    <3> QED
      BY <1>3, <3>1 DEF Claim, Becomes, Deliveries
  <2>2. d.status # "accepted" /\ notices' = notices
    BY <1>3 DEF Claim
  <2> QED
    BY <2>1, <2>2 DEF DeliveriesUnique
<1>4. ASSUME NEW x \in Dispatchers, RecordOutcome(x) PROVE Goal
  <2> DEFINE j == dispatch[x].job
             Noted(d) == IF d.notice = j.notice /\ d.row = j.row /\ HoldsClaim(d, j)
                            THEN [d EXCEPT !.status = dispatch[x].status, !.claim = 0] ELSE d
  <2>1. deliveries' = {Noted(d) : d \in deliveries} /\ notices' = notices
    BY <1>4 DEF RecordOutcome
  <2>2. \A d \in deliveries : /\ Noted(d).notice = d.notice /\ Noted(d).row = d.row
                              /\ d.status = "accepted" => Noted(d) = d
    BY DEF PushTypeOK, ServerTypes, Deliveries, HoldsClaim
  <2> HIDE DEF Noted
  <2> QED
    BY <2>1, <2>2 DEF DeliveriesUnique
<1>5. ASSUME NEW t \in PushTabs, SignOut(t) \/ DisableDeletes(t)
      PROVE deliveries' \subseteq deliveries /\ notices' = notices
  BY <1>5 DEF SignOut, EndSession, DisableDeletes
<1>6. ASSUME SessionRevoked
      PROVE deliveries' \subseteq deliveries /\ notices' = notices
  BY <1>6 DEF SessionRevoked, EndSession
<1>7. ASSUME NEW t \in PushTabs,
             \/ \E a \in Accounts : SignIn(t, a)
             \/ Unauthorized(t) \/ AccountRefreshed(t) \/ ForgetReads(t) \/ ForgetClears(t)
             \/ ForgetCloses(t) \/ Enable(t) \/ Subscribe(t) \/ PostHandled(t) \/ EnableWrites(t)
             \/ Disable(t) \/ DisableLooks(t) \/ DisableUnsubscribes(t) \/ PushTabCloses(t)
      PROVE UNCHANGED <<deliveries, notices>>
  BY <1>7 DEF SignIn, Unauthorized, AccountRefreshed, ForgetReads, ForgetClears, ForgetCloses, Enable,
              Subscribe, PostHandled, EnableWrites, Disable, DisableLooks, DisableUnsubscribes,
              PushTabCloses, serverVars
<1>8. ASSUME \/ SubscriptionChange \/ RenewalPosts \/ RenewalWrites
             \/ \E m \in transit : PushArrives(m)
             \/ \E s \in shows : ShowNotice(s)
             \/ \E x \in Dispatchers : \/ DispatcherDies(x)
                                       \/ \E outcome \in {"accepted", "cancelled", "gone", "refused",
                                                          "unreachable", "unheard"} : SendPush(x, outcome)
      PROVE UNCHANGED <<deliveries, notices>>
  BY <1>8 DEF SubscriptionChange, RenewalPosts, RenewalWrites, PushArrives, ShowNotice, DispatcherDies,
              SendPush, serverVars
<1>9. ASSUME UNCHANGED pushVars PROVE UNCHANGED <<deliveries, notices>>
  BY <1>9 DEF pushVars
<1> HIDE DEF Goal
<1> QED
  BY <1>1, <1>2, <1>3, <1>4, <1>5, <1>6, <1>7, <1>8, <1>9 DEF PushNext, PushSteps

\* The inductive invariant of the deliveries.
LEMMA DeliveriesAlwaysUnique == PushSpec => [](PushTypeOK /\ DeliveriesUnique)
<1>1. PushInit => DeliveriesUnique
  BY DEF PushInit, DeliveriesUnique
<1>2. PushTypeOK /\ DeliveriesUnique /\ [PushNext]_pushVars => DeliveriesUnique'
  <2> SUFFICES ASSUME PushTypeOK, DeliveriesUnique, [PushNext]_pushVars PROVE DeliveriesUnique'
    OBVIOUS
  <2>1. \A d \in deliveries : d.notice \in Nat
    BY DEF PushTypeOK, ServerTypes, Deliveries
  <2>2. notices \in Nat
    BY DEF PushTypeOK, ServerTypes
  <2>3. \A d \in deliveries' : d.notice <= notices'
    BY <2>1, <2>2, DeliveryOrigin DEF DeliveriesUnique
  <2>4. \A d, e \in deliveries' : d.notice = e.notice /\ d.row = e.row => d = e
    BY DeliveryOrigin
  <2> QED
    BY <2>3, <2>4 DEF DeliveriesUnique
<1> QED
  BY <1>1, <1>2, PushTyped, PTL DEF PushSpec

\* A delivery recorded as accepted is never put back, whatever a dispatcher
\* whose claim ran out still records and however many dispatchers run.
THEOREM AcceptedStaysAccepted == PushSpec => AcceptedIsFinal
<1> DEFINE Final == \A d \in deliveries : d.status = "accepted" =>
                      \A e \in deliveries' : e.notice = d.notice /\ e.row = d.row => e.status = "accepted"
<1>1. PushTypeOK /\ DeliveriesUnique /\ [PushNext]_pushVars => Final
  <2> SUFFICES ASSUME PushTypeOK, DeliveriesUnique, [PushNext]_pushVars,
                      NEW d \in deliveries, d.status = "accepted",
                      NEW e \in deliveries', e.notice = d.notice, e.row = d.row
               PROVE e.status = "accepted"
    OBVIOUS
  <2>1. d.notice # notices + 1
    BY DEF PushTypeOK, ServerTypes, Deliveries, DeliveriesUnique
  <2>2. PICK g \in deliveries : g.notice = e.notice /\ g.row = e.row /\ (g.status = "accepted" => e = g)
    BY <2>1, DeliveryOrigin
  <2>3. g = d
    BY <2>2 DEF DeliveriesUnique
  <2> QED
    BY <2>2, <2>3
<1>2. PushTypeOK /\ DeliveriesUnique /\ [PushNext]_pushVars => [Final]_pushVars
  BY <1>1
<1> HIDE DEF Final
<1>3. PushSpec => [][Final]_pushVars
  BY <1>2, DeliveriesAlwaysUnique, PTL DEF PushSpec
<1> QED
  BY <1>3 DEF AcceptedIsFinal, Final

-----------------------------------------------------------------------------
(* Bindings *)

\* Who a binding is known to belong to: the row it was given to, the answer a
\* tab or the worker is about to write, the record, and each message on its way.
RowHolds(b, u) == \E r \in rows : r.binding = b /\ r.user = u
SwitchHolds(b, u) == \E t \in PushTabs : switch[t].pc = "write" /\ switch[t].binding = b /\ switch[t].user = u
RenewalHolds(b, u) == renewal.pc = "write" /\ renewal.binding = b /\ renewal.user = u
RecordHolds(b, u) == bound # Unbound /\ bound.binding = b /\ bound.user = u
MessageHolds(b, u) == \E m \in transit : m.binding = b /\ m.to = u

Holds(b, u) ==
  \/ RowHolds(b, u) \/ SwitchHolds(b, u) \/ RenewalHolds(b, u) \/ RecordHolds(b, u) \/ MessageHolds(b, u)

\* A binding has one owner and is not given twice, and a row has one key.
BindingsOwned ==
  /\ \A b, u, v : Holds(b, u) /\ Holds(b, v) => u = v
  /\ \A b, u : Holds(b, u) => b <= bindings
  /\ \A r \in rows : r.pk <= bindings
  /\ \A r, q \in rows : r.pk = q.pk => r = q

PushInv == BindingsOwned /\ NoticeIsForItsReader

\* A step that gives no binding: what holds one after it got it from what
\* held it before.
LEMMA NothingGiven ==
  ASSUME BindingsOwned, bindings' = bindings,
         \A r \in rows' : \E q \in rows : q.pk = r.pk /\ q.binding = r.binding /\ q.user = r.user,
         \A r, q \in rows' : r.pk = q.pk => r = q,
         \A t \in PushTabs : switch'[t].pc = "write" => switch'[t] = switch[t],
         renewal'.pc = "write" => renewal' = renewal,
         bound' \in {bound, Unbound} \/ Holds(bound'.binding, bound'.user),
         \A m \in transit' : m \in transit \/ Holds(m.binding, m.to)
  PROVE  BindingsOwned'
<1>1. \A b, u : RowHolds(b, u)' => Holds(b, u)
  BY DEF RowHolds, Holds
<1>2. \A b, u : SwitchHolds(b, u)' => Holds(b, u)
  BY DEF SwitchHolds, Holds
<1>3. \A b, u : RenewalHolds(b, u)' => Holds(b, u)
  BY DEF RenewalHolds, Holds
<1>4. \A b, u : RecordHolds(b, u)' => Holds(b, u)
  BY DEF RecordHolds, Holds
<1>5. \A b, u : MessageHolds(b, u)' => Holds(b, u)
  BY DEF MessageHolds, Holds
<1>6. \A b, u : Holds(b, u)' => Holds(b, u)
  BY <1>1, <1>2, <1>3, <1>4, <1>5 DEF Holds
<1> HIDE DEF Holds
<1> QED
  BY <1>6 DEF BindingsOwned

\* A step that gives the next binding to account w.
LEMMA OneGiven ==
  ASSUME PushTypeOK, BindingsOwned, bindings' = bindings + 1, NEW w,
         \A r \in rows' : r.pk <= bindings',
         \A r, q \in rows' : r.pk = q.pk => r = q,
         \A b, u : Holds(b, u)' => Holds(b, u) \/ (b = bindings + 1 /\ u = w)
  PROVE  BindingsOwned'
<1>1. \A b, u : Holds(b, u) => b \in Nat
  BY PostShape DEF Holds, RowHolds, SwitchHolds, RenewalHolds, RecordHolds, MessageHolds, PushTypeOK,
         ServerTypes, BrowserTypes, WorkerTypes, Rows, Writing, Posting, Idle, Bound, Messages
<1>2. bindings \in Nat
  BY DEF PushTypeOK, ServerTypes
<1>3. \A b, u : Holds(b, u) => b # bindings + 1 /\ b <= bindings + 1
  BY <1>1, <1>2 DEF BindingsOwned
<1> QED
  BY <1>2, <1>3 DEF BindingsOwned

\* Registering an endpoint leaves every other row, and gives the new one a key
\* no other row has.
LEMMA RegisteredRows ==
  ASSUME PushTypeOK, BindingsOwned, NEW e, rows' = Registered(e), bindings' = bindings + 1
  PROVE  /\ \A r \in rows' : r.pk <= bindings'
         /\ \A r, q \in rows' : r.pk = q.pk => r = q
         /\ \A r \in rows' : r \in rows \/ (r.binding = bindings + 1 /\ r.user = session.user)
<1> DEFINE old == {r \in rows : r.endpoint = e}
           pk == IF old = {} THEN bindings + 1 ELSE (CHOOSE r \in old : TRUE).pk
           new == [pk |-> pk, endpoint |-> e, binding |-> FreshBinding(e), user |-> session.user,
                   key |-> session.key, active |-> TRUE]
<1>1. rows' = (rows \ old) \cup {new}
  BY DEF Registered
<1>2. \A r \in rows : r.pk \in Nat /\ r.pk <= bindings
  BY DEF PushTypeOK, ServerTypes, Rows, BindingsOwned
<1>3. bindings \in Nat
  BY DEF PushTypeOK, ServerTypes
<1>4. old # {} => (CHOOSE r \in old : TRUE) \in old
  OBVIOUS
<1>5. pk <= bindings + 1 /\ \A r \in rows \ old : r.pk # pk
  BY <1>2, <1>3, <1>4 DEF BindingsOwned
<1>6. new.pk = pk /\ new.binding = bindings + 1 /\ new.user = session.user
  BY DEF FreshBinding
<1> HIDE DEF pk, new
<1>7. \A r \in rows' : r.pk <= bindings'
  BY <1>1, <1>2, <1>3, <1>5, <1>6
<1>8. \A r, q \in rows' : r.pk = q.pk => r = q
  BY <1>1, <1>5, <1>6 DEF BindingsOwned
<1> QED
  BY <1>1, <1>6, <1>7, <1>8

\* No step gives a binding a second owner.
LEMMA BindingsStep == PushTypeOK /\ BindingsOwned /\ [PushNext]_pushVars => BindingsOwned'
<1> SUFFICES ASSUME PushTypeOK, BindingsOwned, [PushNext]_pushVars PROVE BindingsOwned'
  OBVIOUS
<1>0. \A r, q \in rows : r.pk = q.pk => r = q
  BY DEF BindingsOwned
<1>1. ASSUME rows' \subseteq rows, UNCHANGED <<bindings, renewal, transit, bound>>,
             \A t \in PushTabs : switch'[t].pc = "write" => switch'[t] = switch[t]
      PROVE BindingsOwned'
  BY <1>0, <1>1, NothingGiven
<1>2. ASSUME NEW t \in PushTabs, NEW a \in Accounts, SignIn(t, a) PROVE BindingsOwned'
  BY <1>1, <1>2 DEF SignIn, workerVars
<1>3. ASSUME NEW t \in PushTabs, SignOut(t) PROVE BindingsOwned'
  BY <1>1, <1>3 DEF SignOut, EndSession, workerVars
<1>4. CASE SessionRevoked
  BY <1>1, <1>4 DEF SessionRevoked, EndSession, workerVars, browserVars
<1>5. ASSUME NEW t \in PushTabs, Unauthorized(t) \/ AccountRefreshed(t) \/ ForgetReads(t) \/ ForgetCloses(t)
      PROVE BindingsOwned'
  BY <1>1, <1>5 DEF Unauthorized, AccountRefreshed, ForgetReads, ForgetCloses, serverVars, workerVars
<1>6. ASSUME NEW t \in PushTabs, ForgetClears(t) PROVE BindingsOwned'
  <2>1. bound' \in {bound, Unbound}
    BY <1>6 DEF ForgetClears
  <2> QED
    BY <1>0, <1>6, <2>1, NothingGiven DEF ForgetClears, serverVars, workerVars
<1>7. ASSUME NEW t \in PushTabs,
             Enable(t) \/ Subscribe(t) \/ Disable(t) \/ DisableDeletes(t) \/ DisableUnsubscribes(t)
             \/ DisableLooks(t) \/ PushTabCloses(t)
      PROVE BindingsOwned'
  <2>1. switch[t] \in Switches
    BY DEF PushTypeOK, BrowserTypes
  <2>2. switch' = [switch EXCEPT ![t] = switch'[t]] /\ switch'[t].pc # "write"
    <3>1. switch[t].pc = "look" => [switch[t] EXCEPT !.pc = "unsubscribe"].pc = "unsubscribe"
      BY <2>1, PostShape DEF Posting
    <3> USE DEF PushTypeOK, BrowserTypes, Idle
    <3>2. CASE Enable(t)
      BY <3>2 DEF Enable
    <3>6. CASE Disable(t)
      BY <3>6 DEF Disable
    <3>5. CASE Subscribe(t)
      BY <3>5 DEF Subscribe
    <3>3. CASE DisableDeletes(t) \/ DisableUnsubscribes(t) \/ PushTabCloses(t)
      BY <3>3 DEF DisableDeletes, DisableUnsubscribes, PushTabCloses
    <3>4. CASE DisableLooks(t)
      BY <3>1, <3>4 DEF DisableLooks
    <3> QED
      BY <1>7, <3>2, <3>3, <3>4, <3>5, <3>6
  <2>3. \A i \in PushTabs : switch'[i].pc = "write" => switch'[i] = switch[i]
    BY <2>2 DEF PushTypeOK, BrowserTypes
  <2>4. rows' \subseteq rows /\ UNCHANGED <<bindings, renewal, transit, bound>>
    BY <1>7 DEF Enable, Subscribe, Disable, DisableDeletes, DisableUnsubscribes, DisableLooks, PushTabCloses,
                serverVars, workerVars
  <2> QED
    BY <1>1, <2>3, <2>4
<1>8. ASSUME NEW t \in PushTabs, PostHandled(t) PROVE BindingsOwned'
  <2>1. CASE AccountMatches(switch[t].user) /\ bindings' = bindings + 1
             /\ rows' = Registered(switch[t].endpoint)
             /\ switch' = [switch EXCEPT ![t] = [pc |-> "write", user |-> switch[t].user,
                                                 binding |-> FreshBinding(switch[t].endpoint)]]
    <3>1. \A b, u : RowHolds(b, u)' => Holds(b, u) \/ (b = bindings + 1 /\ u = switch[t].user)
      BY <2>1, RegisteredRows DEF RowHolds, Holds, AccountMatches
    <3>2. \A b, u : SwitchHolds(b, u)' => Holds(b, u) \/ (b = bindings + 1 /\ u = switch[t].user)
      BY <2>1 DEF SwitchHolds, Holds, FreshBinding, PushTypeOK, BrowserTypes
    <3>3. \A b, u : RenewalHolds(b, u)' \/ RecordHolds(b, u)' \/ MessageHolds(b, u)' => Holds(b, u)
      BY <1>8 DEF PostHandled, workerVars, RenewalHolds, RecordHolds, MessageHolds, Holds
    <3>4. \A b, u : Holds(b, u)' => Holds(b, u) \/ (b = bindings + 1 /\ u = switch[t].user)
      BY <3>1, <3>2, <3>3 DEF Holds
    <3> QED
      BY <2>1, <3>4, OneGiven, RegisteredRows
  <2>2. CASE switch' = [switch EXCEPT ![t] = Idle] /\ UNCHANGED <<rows, bindings>>
    BY <1>1, <1>8, <2>2 DEF PostHandled, workerVars, Idle, PushTypeOK, BrowserTypes
  <2> QED
    BY <1>8, <2>1, <2>2 DEF PostHandled
<1>9. ASSUME NEW t \in PushTabs, EnableWrites(t) PROVE BindingsOwned'
  <2>1. bound' = bound \/ Holds(bound'.binding, bound'.user)
    BY <1>9 DEF EnableWrites, Holds, SwitchHolds
  <2>2. \A i \in PushTabs : switch'[i].pc = "write" => switch'[i] = switch[i]
    BY <1>9 DEF EnableWrites, Idle, PushTypeOK, BrowserTypes
  <2> QED
    BY <1>0, <1>9, <2>1, <2>2, NothingGiven DEF EnableWrites, serverVars, workerVars
<1>10. CASE SubscriptionChange
  BY <1>0, <1>10, NothingGiven DEF SubscriptionChange, serverVars, Idle
<1>11. CASE RenewalPosts
  <2>1. CASE AccountMatches(renewal.user) /\ bindings' = bindings + 1
             /\ rows' = Registered(renewal.endpoint)
             /\ renewal' = [pc |-> "write", user |-> renewal.user, binding |-> FreshBinding(renewal.endpoint)]
    <3>1. \A b, u : RowHolds(b, u)' => Holds(b, u) \/ (b = bindings + 1 /\ u = renewal.user)
      BY <2>1, RegisteredRows DEF RowHolds, Holds, AccountMatches
    <3>2. \A b, u : RenewalHolds(b, u)' => b = bindings + 1 /\ u = renewal.user
      BY <2>1 DEF RenewalHolds, FreshBinding
    <3>3. \A b, u : SwitchHolds(b, u)' \/ RecordHolds(b, u)' \/ MessageHolds(b, u)' => Holds(b, u)
      BY <1>11 DEF RenewalPosts, browserVars, SwitchHolds, RecordHolds, MessageHolds, Holds
    <3>4. \A b, u : Holds(b, u)' => Holds(b, u) \/ (b = bindings + 1 /\ u = renewal.user)
      BY <3>1, <3>2, <3>3 DEF Holds
    <3> QED
      BY <2>1, <3>4, OneGiven, RegisteredRows
  <2>2. CASE renewal' = Idle /\ UNCHANGED <<rows, bindings>>
    BY <1>0, <1>11, <2>2, NothingGiven DEF RenewalPosts, browserVars, Idle
  <2> QED
    BY <1>11, <2>1, <2>2 DEF RenewalPosts
<1>12. CASE RenewalWrites
  <2>1. bound' = bound \/ Holds(bound'.binding, bound'.user)
    BY <1>12 DEF RenewalWrites, Holds, RenewalHolds
  <2> QED
    BY <1>0, <1>12, <2>1, NothingGiven DEF RenewalWrites, serverVars, Idle
<1>13. ASSUME NEW m \in transit, PushArrives(m) PROVE BindingsOwned'
  BY <1>0, <1>13, NothingGiven DEF PushArrives, serverVars, browserVars
<1>14. ASSUME NEW s \in shows, ShowNotice(s) PROVE BindingsOwned'
  BY <1>0, <1>14, NothingGiven DEF ShowNotice, serverVars, browserVars
<1>15. ASSUME NEW a \in Accounts, Enqueue(a) PROVE BindingsOwned'
  BY <1>1, <1>15 DEF Enqueue, browserVars, workerVars
<1>16. ASSUME NEW x \in Dispatchers, NEW d \in deliveries, Claim(x, d) PROVE BindingsOwned'
  BY <1>1, <1>16 DEF Claim, browserVars, workerVars
<1>17. ASSUME NEW x \in Dispatchers, NEW outcome, SendPush(x, outcome) PROVE BindingsOwned'
  <2> DEFINE j == dispatch[x].job
             row == {r \in rows : r.pk = j.row}
             live == \E r \in row : r.active /\ r.user = j.to
             sent == {[notice |-> j.notice, to |-> j.to, endpoint |-> r.endpoint, binding |-> r.binding] : r \in row}
  <2>1. \A m \in transit' : m \in transit \/ (m \in sent /\ live)
    BY <1>17 DEF SendPush
  <2>2. live => \A r \in row : r.user = j.to
    BY <1>0
  <2>3. \A m \in sent : live => Holds(m.binding, m.to)
    BY <2>2 DEF Holds, RowHolds
  <2>4. rows' \in {rows, {IF r \in row THEN [r EXCEPT !.active = FALSE] ELSE r : r \in rows}}
    BY <1>17 DEF SendPush
  <2>5. \A r \in rows : /\ [r EXCEPT !.active = FALSE].pk = r.pk
                        /\ [r EXCEPT !.active = FALSE].binding = r.binding
                        /\ [r EXCEPT !.active = FALSE].user = r.user
    BY DEF PushTypeOK, ServerTypes, Rows
  <2>6. /\ \A r \in rows' : \E q \in rows : q.pk = r.pk /\ q.binding = r.binding /\ q.user = r.user
        /\ \A r, q \in rows' : r.pk = q.pk => r = q
    <3>1. CASE rows' = rows
      BY <1>0, <3>1
    <3>2. CASE rows' = {IF r \in row THEN [r EXCEPT !.active = FALSE] ELSE r : r \in rows}
      <4> DEFINE Ended(r) == IF r \in row THEN [r EXCEPT !.active = FALSE] ELSE r
      <4>1. \A r \in rows : Ended(r).pk = r.pk /\ Ended(r).binding = r.binding /\ Ended(r).user = r.user
        BY <2>5
      <4>2. rows' = {Ended(r) : r \in rows}
        BY <3>2
      <4> HIDE DEF Ended
      <4> QED
        BY <1>0, <4>1, <4>2
    <3> QED
      BY <2>4, <3>1, <3>2
  <2>7. UNCHANGED <<bindings, switch, renewal, bound>>
    BY <1>17 DEF SendPush, browserVars
  <2>8. \A m \in transit' : m \in transit \/ Holds(m.binding, m.to)
    BY <2>1, <2>3
  <2> QED
    BY <2>6, <2>7, <2>8, NothingGiven
<1>18. ASSUME NEW x \in Dispatchers, RecordOutcome(x) \/ DispatcherDies(x) PROVE BindingsOwned'
  BY <1>1, <1>18 DEF RecordOutcome, DispatcherDies, browserVars, workerVars
<1>19. CASE UNCHANGED pushVars
  BY <1>1, <1>19 DEF pushVars
<1> QED
  BY <1>2, <1>3, <1>4, <1>5, <1>6, <1>7, <1>8, <1>9, <1>10, <1>11, <1>12, <1>13, <1>14, <1>15, <1>16,
     <1>17, <1>18, <1>19 DEF PushNext, PushSteps

\* Every notice shown, or about to be, is for the account of the record it was
\* checked against: the binding in the message belongs to one account.
THEOREM NoticesReachTheirReader == PushSpec => []NoticeIsForItsReader
<1>1. PushInit => PushInv
  BY DEF PushInit, PushInv, BindingsOwned, NoticeIsForItsReader, Holds, RowHolds, SwitchHolds, RenewalHolds,
         RecordHolds, MessageHolds, Idle
<1>2. PushTypeOK /\ PushInv /\ [PushNext]_pushVars => PushInv'
  <2> SUFFICES ASSUME PushTypeOK, PushInv, [PushNext]_pushVars PROVE NoticeIsForItsReader'
    BY BindingsStep DEF PushInv
  <2>1. ASSUME NEW m \in transit, PushArrives(m) PROVE NoticeIsForItsReader'
    <3>1. bound # Unbound /\ m.binding = bound.binding => m.to = bound.user
      BY DEF PushInv, BindingsOwned, Holds, RecordHolds, MessageHolds
    <3> QED
      BY <2>1, <3>1 DEF PushArrives, PushInv, NoticeIsForItsReader
  <2>2. ASSUME NEW s \in shows, ShowNotice(s) PROVE NoticeIsForItsReader'
    BY <2>2 DEF ShowNotice, PushInv, NoticeIsForItsReader
  <2>3. ASSUME shows' = shows, visible' \subseteq visible PROVE NoticeIsForItsReader'
    BY <2>3 DEF PushInv, NoticeIsForItsReader
  <2>4. ASSUME NEW t \in PushTabs,
               \/ \E a \in Accounts : SignIn(t, a)
               \/ SignOut(t) \/ Unauthorized(t) \/ AccountRefreshed(t) \/ ForgetReads(t) \/ ForgetClears(t)
               \/ ForgetCloses(t) \/ Enable(t) \/ Subscribe(t) \/ PostHandled(t) \/ EnableWrites(t)
               \/ Disable(t) \/ DisableDeletes(t) \/ DisableLooks(t) \/ DisableUnsubscribes(t)
               \/ PushTabCloses(t)
        PROVE shows' = shows /\ visible' \subseteq visible
    BY <2>4 DEF SignIn, SignOut, Unauthorized, AccountRefreshed, ForgetReads, ForgetClears, ForgetCloses,
                Enable, Subscribe, PostHandled, EnableWrites, Disable, DisableDeletes, DisableLooks,
                DisableUnsubscribes, PushTabCloses, workerVars
  <2>5. ASSUME \/ SubscriptionChange \/ RenewalPosts \/ RenewalWrites \/ SessionRevoked
               \/ \E a \in Accounts : Enqueue(a)
               \/ \E x \in Dispatchers :
                    \/ \E d \in deliveries : Claim(x, d)
                    \/ \E outcome \in {"accepted", "cancelled", "gone", "refused", "unreachable", "unheard"} :
                         SendPush(x, outcome)
                    \/ RecordOutcome(x) \/ DispatcherDies(x)
        PROVE shows' = shows /\ visible' \subseteq visible
    BY <2>5 DEF SubscriptionChange, RenewalPosts, RenewalWrites, SessionRevoked, Enqueue, Claim, SendPush,
                RecordOutcome, DispatcherDies, workerVars
  <2>6. ASSUME UNCHANGED pushVars PROVE shows' = shows /\ visible' \subseteq visible
    BY <2>6 DEF pushVars
  <2> QED
    BY <2>1, <2>2, <2>3, <2>4, <2>5, <2>6 DEF PushNext, PushSteps
<1>3. PushInv => NoticeIsForItsReader
  BY DEF PushInv
<1> QED
  BY <1>1, <1>2, <1>3, PushTyped, PTL DEF PushSpec

-----------------------------------------------------------------------------
(* Turned off *)

\* An account that turned notifications off, or left the browser, gets no
\* record back but by turning them on in a tab that shows it until the record
\* is written, however many tabs, renewals and sign-ins are under way.
THEOREM OffStaysOff == PushSpec => []StaysOff
<1>1. PushInit => StaysOff
  BY DEF PushInit, StaysOff
<1>2. PushTypeOK /\ StaysOff /\ [PushNext]_pushVars => StaysOff'
  <2> SUFFICES ASSUME PushTypeOK, StaysOff, [PushNext]_pushVars PROVE StaysOff'
    OBVIOUS
  <2>0. None \notin off
    BY NoneIsNoAccount DEF PushTypeOK, BrowserTypes
  <2>1. ASSUME off' \subseteq off, bound'.user \in {bound.user, None} PROVE StaysOff'
    BY <2>0, <2>1 DEF StaysOff
  <2>2. ASSUME NEW u, TurnedOff(u), bound'.user = None \/ (bound' = bound /\ bound.user # u), u # None
        PROVE StaysOff'
    BY <2>0, <2>2 DEF TurnedOff, StaysOff
  <2>3. ASSUME NEW t \in PushTabs, ForgetReads(t) \/ ForgetClears(t) PROVE StaysOff'
    <3>1. leaving[t].user # None
      BY <2>3, NoneIsNoAccount DEF ForgetReads, ForgetClears, PushTypeOK, BrowserTypes, Leaving, Idle
    <3>2. CASE bound.user = leaving[t].user /\ ForgetReads(t)
      BY <2>1, <2>3, <3>2 DEF ForgetReads
    <3>3. CASE bound.user # leaving[t].user /\ ForgetReads(t)
      BY <2>2, <3>1, <3>3 DEF ForgetReads
    <3>4. CASE ForgetClears(t)
      <4>0. bound' = IF bound.user = leaving[t].user THEN Unbound ELSE bound
        BY <3>4 DEF ForgetClears, OwnerStill
      <4>1. CASE bound.user = leaving[t].user
        <5>1. bound'.user = None
          BY <4>0, <4>1 DEF Unbound
        <5> QED
          BY <2>2, <3>1, <3>4, <5>1 DEF ForgetClears
      <4>2. CASE bound.user # leaving[t].user
        BY <2>2, <3>1, <3>4, <4>0, <4>2 DEF ForgetClears
      <4> QED
        BY <4>1, <4>2
    <3> QED
      BY <2>3, <3>2, <3>3, <3>4
  <2>4. ASSUME NEW t \in PushTabs, Enable(t) PROVE StaysOff'
    BY <2>1, <2>4 DEF Enable
  <2>5. ASSUME NEW t \in PushTabs, EnableWrites(t) PROVE StaysOff'
    <3>1. CASE Shows(t)
      <4>1. off' = off \ {switch[t].user} /\ bound'.user = switch[t].user
        BY <2>5, <3>1 DEF EnableWrites, StillShown
      <4> QED
        BY <4>1 DEF StaysOff
    <3>2. CASE ~Shows(t)
      <4>1. off' = off /\ bound' = bound
        BY <2>5, <3>2 DEF EnableWrites, StillShown
      <4> QED
        BY <2>1, <4>1
    <3> QED
      BY <3>1, <3>2
  <2>6. CASE RenewalWrites
    <3>1. bound'.user = bound.user
      BY <2>6 DEF RenewalWrites, OwnerStill
    <3> QED
      BY <2>1, <2>6, <3>1 DEF RenewalWrites
  <2>7. ASSUME NEW t \in PushTabs,
               \/ \E a \in Accounts : SignIn(t, a)
               \/ SignOut(t) \/ Unauthorized(t) \/ AccountRefreshed(t) \/ ForgetCloses(t)
               \/ Subscribe(t) \/ PostHandled(t) \/ Disable(t) \/ DisableDeletes(t) \/ DisableLooks(t)
               \/ DisableUnsubscribes(t) \/ PushTabCloses(t)
        PROVE UNCHANGED <<off, bound>>
    BY <2>7 DEF SignIn, SignOut, Unauthorized, AccountRefreshed, ForgetCloses, Subscribe, PostHandled, Disable,
                DisableDeletes, DisableLooks, DisableUnsubscribes, PushTabCloses
  <2>8. CASE SubscriptionChange
    BY <2>1, <2>8 DEF SubscriptionChange
  <2>9. ASSUME \/ RenewalPosts \/ SessionRevoked
               \/ \E m \in transit : PushArrives(m)
               \/ \E s \in shows : ShowNotice(s)
               \/ \E a \in Accounts : Enqueue(a)
               \/ \E x \in Dispatchers :
                    \/ \E d \in deliveries : Claim(x, d)
                    \/ \E outcome \in {"accepted", "cancelled", "gone", "refused", "unreachable", "unheard"} :
                         SendPush(x, outcome)
                    \/ RecordOutcome(x) \/ DispatcherDies(x)
        PROVE UNCHANGED <<off, bound>>
    BY <2>9, ZenonT(40) DEF RenewalPosts, SessionRevoked, PushArrives, ShowNotice, Enqueue, Claim, SendPush,
                 RecordOutcome, DispatcherDies, browserVars
  <2>10. ASSUME UNCHANGED pushVars PROVE UNCHANGED <<off, bound>>
    BY <2>10 DEF pushVars
  <2> QED
    BY <2>1, <2>3, <2>4, <2>5, <2>6, <2>7, <2>8, <2>9, <2>10 DEF PushNext, PushSteps
<1> QED
  BY <1>1, <1>2, PushTyped, PTL DEF PushSpec
=============================================================================
