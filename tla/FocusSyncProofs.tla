-------------------------- MODULE FocusSyncProofs --------------------------
(***************************************************************************)
(* What holds of the server mirror of a Focus sheet (FocusSync) for any    *)
(* number of devices, marks, notes, edits, failures, visits and loads.  A  *)
(* sheet of one page group converges: LastGroup = 1 is assumed where it is *)
(* needed, as a sheet of more does not.                                    *)
(***************************************************************************)
EXTENDS FocusSync, TLAPS

Copies == [Items -> Contents]
Writes == [expected : Nat, items : SUBSET Items, content : Copies]
Slots == [write : Writes, key : Nat]
MirrorStates ==
  [loaded : BOOLEAN, synced : Copies, rev : [Records -> Nat], waiting : BOOLEAN, latest : Copies,
   pc : {"idle", "take"} \cup Records, snap : Copies, slot : [Records -> Slots],
   setBack : BOOLEAN]
ReaderStates ==
  [pc : {"idle", "load", "probe", "probed", "refresh"}, group : Nat, got : Copies,
   rev : [Records -> Nat], local : Copies]
Requests ==
  [record : {"none"} \cup Records, write : Writes, key : Nat,
   answer : {"none", "sent", "done", "conflict"}, rev : Nat]
LateWrites == [from : Devices, record : Records, write : Writes, key : Nat]

FocusTypeOK ==
  /\ screen \in [Devices -> Copies] /\ stored \in [Devices -> Copies]
  /\ base \in [Devices -> Copies] /\ server \in Copies
  /\ open \in [Devices -> BOOLEAN] /\ unsaved \in [Devices -> BOOLEAN]
  /\ timer \in [Devices -> BOOLEAN]
  /\ mirror \in [Devices -> MirrorStates]
  /\ reader \in [Devices -> ReaderStates]
  /\ req \in [Devices -> Requests]
  /\ \A d \in Devices : req[d] = NoReq \/ req[d].record \in Records
  /\ keys \in [Devices -> Nat] /\ rev \in [Records -> Nat]
  /\ receipt \in [Devices -> [Records -> [key : Nat, rev : Nat]]]
  /\ late \subseteq LateWrites
  /\ edits \in Contents

-----------------------------------------------------------------------------
(* The operators *)

LEMMA Parts ==
  /\ Ink \subseteq Items /\ Notes \subseteq Items /\ Items = Ink \cup Notes
  /\ Ink \cap Notes = {}
  /\ ItemsOf["ink"] = Ink /\ ItemsOf["notes"] = Notes
  /\ \A r \in Records : ItemsOf[r] \subseteq Items
  /\ Records = {"ink", "notes"} /\ "none" \notin Records
  /\ LastGroup \in Nat \ {0}
BY GroupsAssumption DEF Items, ItemsOf, Records

LEMMA Empties ==
  /\ MaxEdits \in Nat /\ 0 \in Contents
  /\ Nothing \in Copies /\ NoRevs \in [Records -> Nat]
  /\ \A i \in Items : Nothing[i] = 0
  /\ \A r \in Records : NoRevs[r] = 0
<1>1. MaxEdits \in Nat
  BY FocusBounds
<1> QED
  BY <1>1 DEF Contents, Copies, Nothing, NoRevs

\* What Taking gives.
LEMMA TakingFacts ==
  ASSUME NEW f \in Copies, NEW g \in Copies, NEW S
  PROVE  /\ Taking(f, g, S) \in Copies
         /\ \A i \in Items : Taking(f, g, S)[i] = IF i \in S THEN g[i] ELSE f[i]
BY DEF Taking, Copies

\* What a write carries.
LEMMA WriteFacts ==
  ASSUME NEW e \in Nat, NEW S \in SUBSET Items, NEW f \in Copies
  PROVE  /\ Write(e, S, f) \in Writes
         /\ Write(e, S, f).expected = e /\ Write(e, S, f).items = S
         /\ \A i \in S : Write(e, S, f).content[i] = f[i]
BY Empties, TakingFacts DEF Write, Writes

LEMMA NoWriteFacts == NoWrite \in Writes /\ NoWrite.items = {} /\ NoWrite.expected = 0
<1>1. {} \in SUBSET Items /\ Nothing \in Copies
  BY Empties
<1> QED
  BY <1>1, WriteFacts DEF NoWrite

\* The states a device begins with have their type.
LEMMA Beginnings ==
  /\ FreshMirror \in MirrorStates /\ IdleReader \in ReaderStates /\ NoReq \in Requests
  /\ [IdleReader EXCEPT !.pc = "load"] \in ReaderStates
  /\ ~FreshMirror.loaded /\ ~FreshMirror.waiting /\ FreshMirror.pc = "idle"
  /\ FreshMirror.rev = NoRevs /\ ~FreshMirror.setBack
  /\ \A r \in Records : FreshMirror.slot[r] = [write |-> NoWrite, key |-> 0]
  /\ NoReq.record = "none" /\ NoReq.answer = "none"
  /\ IdleReader.group = 0 /\ IdleReader.pc = "idle" /\ IdleReader.rev = NoRevs
BY Empties, NoWriteFacts
   DEF FreshMirror, IdleReader, NoReq, MirrorStates, ReaderStates, Requests, Slots

LEMMA MergeType ==
  ASSUME NEW f \in Copies, NEW g \in Copies, NEW h \in Copies
  PROVE  MergeById(f, g, h) \in Copies
BY DEF MergeById, Copies

-----------------------------------------------------------------------------
(* Types *)

\* A write left behind has the type of one that arrives late.
LEMMA OrphanType ==
  ASSUME FocusTypeOK, NEW d \in Devices, Orphan(d)
  PROVE  late' \subseteq LateWrites
BY Beginnings DEF FocusTypeOK, Orphan, LateWrites, Requests

\* What the server does with a write.
LEMMA ApplyType ==
  ASSUME FocusTypeOK, NEW d \in Devices, NEW q, q.record \in Records, q.write \in Writes,
         q.key \in Nat, ApplyWrite(d, q)
  PROVE  /\ server' \in Copies /\ rev' \in [Records -> Nat]
         /\ receipt' \in [Devices -> [Records -> [key : Nat, rev : Nat]]]
<1> DEFINE moves == \/ q.record = "notes"
                    \/ \E i \in q.write.items : q.write.content[i] # 0 \/ server[i] # 0
           after == IF moves THEN rev[q.record] + 1 ELSE rev[q.record]
<1>1. after \in Nat
  BY DEF FocusTypeOK
<1>2. /\ server' = Taking(server, q.write.content, q.write.items)
      /\ rev' = [rev EXCEPT ![q.record] = after]
      /\ receipt' = [receipt EXCEPT ![d][q.record] = [key |-> q.key, rev |-> after]]
  BY DEF ApplyWrite
<1>3. server' \in Copies
  BY <1>2, TakingFacts DEF FocusTypeOK, Writes
<1> QED
  BY <1>1, <1>2, <1>3 DEF FocusTypeOK

\* A step of device d: its mirror, its reader and its request become m, rd and
\* q, and no other device's do.
DeviceMoves(d, m, rd, q) ==
  /\ m \in MirrorStates /\ rd \in ReaderStates /\ q \in Requests
  /\ mirror' = [mirror EXCEPT ![d] = m]
  /\ reader' = [reader EXCEPT ![d] = rd]
  /\ req' = [req EXCEPT ![d] = q]

\* A step that leaves one of them alone.
LEMMA Unmoved ==
  ASSUME FocusTypeOK, NEW d \in Devices
  PROVE  /\ mirror[d] \in MirrorStates /\ reader[d] \in ReaderStates /\ req[d] \in Requests
         /\ screen[d] \in Copies
         /\ mirror = [mirror EXCEPT ![d] = mirror[d]]
         /\ reader = [reader EXCEPT ![d] = reader[d]]
         /\ req = [req EXCEPT ![d] = req[d]]
BY DEF FocusTypeOK

LEMMA OpenMoves ==
  ASSUME FocusTypeOK, NEW d \in Devices, OpenWorkspace(d)
  PROVE  DeviceMoves(d, FreshMirror, [IdleReader EXCEPT !.pc = "load"], req[d])
BY Unmoved, Beginnings DEF OpenWorkspace, DeviceMoves

LEMMA WorkspaceMoves ==
  ASSUME FocusTypeOK, NEW d \in Devices,
         PersistWorkspace(d) \/ \E i \in Items : Edit(d, i)
  PROVE  DeviceMoves(d, mirror[d], reader[d], req[d])
BY Unmoved DEF PersistWorkspace, Edit, DeviceMoves

LEMMA LeaveMoves ==
  ASSUME FocusTypeOK, NEW d \in Devices, LeaveWorkspace(d)
  PROVE  DeviceMoves(d, IF req[d] = NoReq THEN FreshMirror ELSE mirror[d], IdleReader, req[d])
BY Unmoved, Beginnings DEF LeaveWorkspace, Closed, DeviceMoves

LEMMA KillMoves ==
  ASSUME FocusTypeOK, NEW d \in Devices, KillTab(d)
  PROVE  DeviceMoves(d, FreshMirror, IdleReader, NoReq)
BY Unmoved, Beginnings DEF KillTab, Closed, DeviceMoves

LEMMA LoadAgainMoves ==
  ASSUME FocusTypeOK, NEW d \in Devices, LoadAgain(d)
  PROVE  DeviceMoves(d, mirror[d], [IdleReader EXCEPT !.pc = "load"], req[d])
BY Unmoved, Beginnings DEF LoadAgain, DeviceMoves

LEMMA StartRefreshMoves ==
  ASSUME FocusTypeOK, NEW d \in Devices, StartRefresh(d)
  PROVE  DeviceMoves(d, mirror[d], [IdleReader EXCEPT !.pc = "probe", !.local = screen[d]],
                     req[d])
<1> DEFINE rd == [IdleReader EXCEPT !.pc = "probe", !.local = screen[d]]
<1>1. rd \in ReaderStates
  BY Unmoved, Beginnings DEF ReaderStates
<1>2. reader' = [reader EXCEPT ![d] = rd] /\ mirror' = mirror /\ req' = req
  BY DEF StartRefresh
<1> QED
  BY <1>1, <1>2, Unmoved DEF DeviceMoves

LEMMA ProbeReadMoves ==
  ASSUME FocusTypeOK, NEW d \in Devices, ProbeRead(d)
  PROVE  DeviceMoves(d, mirror[d], [reader[d] EXCEPT !.pc = "probed", !.rev = rev], req[d])
<1> DEFINE rd == [reader[d] EXCEPT !.pc = "probed", !.rev = rev]
<1>1. reader[d] \in ReaderStates /\ rev \in [Records -> Nat] /\ reader \in [Devices -> ReaderStates]
  BY DEF FocusTypeOK
<1>2. rd \in ReaderStates
  BY <1>1 DEF ReaderStates
<1>3. reader' = [reader EXCEPT ![d] = rd]
  BY <1>1 DEF ProbeRead, ReaderStates
<1>4. mirror' = mirror /\ req' = req
  BY DEF ProbeRead
<1> QED
  BY <1>2, <1>3, <1>4, Unmoved DEF DeviceMoves

LEMMA ProbeAnsweredMoves ==
  ASSUME FocusTypeOK, NEW d \in Devices, ProbeAnswered(d)
  PROVE  DeviceMoves(d, mirror[d],
                     IF reader[d].rev = mirror[d].rev THEN IdleReader
                     ELSE [reader[d] EXCEPT !.pc = "refresh", !.rev = NoRevs], req[d])
<1> DEFINE rd == [reader[d] EXCEPT !.pc = "refresh", !.rev = NoRevs]
<1>1. rd \in ReaderStates
  <2>1. reader[d] \in ReaderStates
    BY Unmoved
  <2>2. NoRevs \in [Records -> Nat]
    BY Empties
  <2> QED
    BY <2>1, <2>2 DEF ReaderStates
<1>2. CASE reader[d].rev = mirror[d].rev
  BY <1>2, Unmoved, Beginnings DEF ProbeAnswered, DeviceMoves
<1>3. CASE reader[d].rev # mirror[d].rev
  <2>1. reader' = [reader EXCEPT ![d] = rd] /\ mirror' = mirror /\ req' = req
    BY <1>3 DEF ProbeAnswered, FocusTypeOK, ReaderStates
  <2> QED
    BY <1>1, <1>3, <2>1, Unmoved DEF DeviceMoves
<1> QED
  BY <1>2, <1>3

LEMMA ReadFailsMoves ==
  ASSUME FocusTypeOK, NEW d \in Devices, ReadFails(d)
  PROVE  DeviceMoves(d, mirror[d], IdleReader, req[d])
BY Unmoved, Beginnings DEF ReadFails, DeviceMoves

\* The record and the items the next read of a reader brings.
GroupRecord(rd) == IF rd.group = 0 THEN "notes" ELSE "ink"
GroupItems(rd) == IF rd.group = 0 THEN Notes ELSE Groups[rd.group]
AfterGroup(rd, s, n) ==
  [rd EXCEPT !.group = rd.group + 1, !.got = Taking(rd.got, s, GroupItems(rd)),
             !.rev = [rd.rev EXCEPT ![GroupRecord(rd)] = n[GroupRecord(rd)]]]

LEMMA AfterGroupType ==
  ASSUME NEW rd \in ReaderStates, NEW s \in Copies, NEW n \in [Records -> Nat]
  PROVE  AfterGroup(rd, s, n) \in ReaderStates
<1> DEFINE got == Taking(rd.got, s, GroupItems(rd))
           v == [rd.rev EXCEPT ![GroupRecord(rd)] = n[GroupRecord(rd)]]
           g == rd.group + 1
<1>1. GroupRecord(rd) \in Records /\ got \in Copies /\ g \in Nat
  BY TakingFacts, Parts DEF ReaderStates, GroupRecord
<1>2. v \in [Records -> Nat]
  BY <1>1 DEF ReaderStates
<1>3. AfterGroup(rd, s, n) = [rd EXCEPT !.group = g, !.got = got, !.rev = v]
  BY DEF AfterGroup
<1> HIDE DEF got, v, g
<1> QED
  BY <1>1, <1>2, <1>3 DEF ReaderStates

LEMMA ReadGroupMoves ==
  ASSUME FocusTypeOK, NEW d \in Devices, ReadGroup(d)
  PROVE  DeviceMoves(d, mirror[d], AfterGroup(reader[d], server, rev), req[d])
<1> DEFINE o == reader[d]
           rd == AfterGroup(o, server, rev)
<1>1. o \in ReaderStates /\ server \in Copies /\ rev \in [Records -> Nat]
      /\ GroupRecord(o) \in Records /\ reader \in [Devices -> ReaderStates]
  BY Unmoved, Parts DEF FocusTypeOK, GroupRecord
<1>3. rd \in ReaderStates
  BY <1>1, AfterGroupType
<1>4. reader' = [reader EXCEPT ![d].group = o.group + 1,
                               ![d].got = Taking(o.got, server, GroupItems(o)),
                               ![d].rev[GroupRecord(o)] = rev[GroupRecord(o)]]
  BY DEF ReadGroup, GroupRecord, GroupItems
<1>5. reader' = [reader EXCEPT ![d] = rd]
  <2> DEFINE g == o.group + 1
             got == Taking(o.got, server, GroupItems(o))
             f == GroupRecord(o)
             n == rev[f]
  <2>1. reader' = [reader EXCEPT ![d].group = g, ![d].got = got, ![d].rev[f] = n]
    BY <1>4
  <2>2. rd = [o EXCEPT !.group = g, !.got = got, !.rev = [o.rev EXCEPT ![f] = n]]
    BY DEF AfterGroup
  <2> HIDE DEF g, got, f, n
  <2> DEFINE x == [reader EXCEPT ![d].group = g, ![d].got = got]
  <2>3. x = [reader EXCEPT ![d] = [o EXCEPT !.group = g, !.got = got]]
    BY <1>1 DEF ReaderStates
  <2>4. reader' = [x EXCEPT ![d].rev[f] = n]
    BY <2>1
  <2>5. [x EXCEPT ![d].rev[f] = n] = [x EXCEPT ![d] = rd]
    BY <1>1, <2>2, <2>3 DEF ReaderStates
  <2> QED
    BY <2>3, <2>4, <2>5
<1>6. mirror' = mirror /\ req' = req
  BY DEF ReadGroup
<1> QED
  BY <1>3, <1>5, <1>6, Unmoved DEF DeviceMoves

\* The mirror after a load or a refresh that ends.
Reconciled(m, rd, b) ==
  [m EXCEPT !.loaded = TRUE, !.synced = rd.got, !.rev = rd.rev, !.setBack = b]

LEMMA ReconciledType ==
  ASSUME NEW m \in MirrorStates, NEW rd \in ReaderStates, NEW b \in BOOLEAN
  PROVE  Reconciled(m, rd, b) \in MirrorStates
BY DEF Reconciled, MirrorStates, ReaderStates

LEMMA ReconcileMoves ==
  ASSUME FocusTypeOK, NEW d \in Devices, Reconcile(d)
  PROVE  DeviceMoves(d, Reconciled(mirror[d], reader[d], SetsBack(d)), IdleReader, req[d])
<1> DEFINE m == Reconciled(mirror[d], reader[d], SetsBack(d))
<1>1. SetsBack(d) \in BOOLEAN
  BY DEF SetsBack
<1>2. m \in MirrorStates
  BY <1>1, Unmoved, ReconciledType
<1>3. mirror' = [mirror EXCEPT ![d] = m]
  <2>1. mirror' = [mirror EXCEPT ![d].loaded = TRUE, ![d].synced = reader[d].got,
                                 ![d].rev = reader[d].rev, ![d].setBack = SetsBack(d)]
    BY DEF Reconcile
  <2>2. mirror \in [Devices -> MirrorStates]
    BY DEF FocusTypeOK
  <2> QED
    BY <2>1, <2>2 DEF Reconciled, MirrorStates
<1> QED
  BY <1>2, <1>3, Unmoved, Beginnings DEF Reconcile, DeviceMoves

\* The mirror when the scheduled push hands it the sheet.
Queued(m, s) ==
  [m EXCEPT !.waiting = TRUE, !.latest = s, !.pc = IF m.pc = "idle" THEN "take" ELSE m.pc]

LEMMA PushTimerMoves ==
  ASSUME FocusTypeOK, NEW d \in Devices, PushTimer(d)
  PROVE  DeviceMoves(d, IF mirror[d].loaded THEN Queued(mirror[d], screen[d]) ELSE mirror[d],
                     reader[d], req[d])
<1>1. mirror \in [Devices -> MirrorStates]
  BY DEF FocusTypeOK
<1>2. CASE mirror[d].loaded
  <2>1. Queued(mirror[d], screen[d]) \in MirrorStates
    <3>1. mirror[d] \in MirrorStates /\ screen[d] \in Copies
      BY Unmoved
    <3> QED
      BY <3>1 DEF Queued, MirrorStates
  <2>2. mirror' = [mirror EXCEPT ![d].waiting = TRUE, ![d].latest = screen[d],
                                 ![d].pc = IF @ = "idle" THEN "take" ELSE @]
    BY <1>2 DEF PushTimer
  <2>3. mirror' = [mirror EXCEPT ![d] = Queued(mirror[d], screen[d])]
    BY <1>1, <2>2 DEF Queued, MirrorStates
  <2> QED
    BY <1>2, <2>1, <2>3, Unmoved DEF PushTimer, DeviceMoves
<1>3. CASE ~mirror[d].loaded
  BY <1>3, Unmoved DEF PushTimer, DeviceMoves
<1> QED
  BY <1>2, <1>3

LEMMA RetryMoves ==
  ASSUME FocusTypeOK, NEW d \in Devices, Retry(d)
  PROVE  DeviceMoves(d, [mirror[d] EXCEPT !.pc = "take"], reader[d], req[d])
<1>1. mirror \in [Devices -> MirrorStates] /\ mirror[d] \in MirrorStates
  BY DEF FocusTypeOK
<1>2. [mirror[d] EXCEPT !.pc = "take"] \in MirrorStates
  BY <1>1 DEF MirrorStates
<1>3. mirror' = [mirror EXCEPT ![d] = [mirror[d] EXCEPT !.pc = "take"]]
  BY <1>1 DEF Retry
<1> QED
  BY <1>2, <1>3, Unmoved DEF Retry, DeviceMoves

\* The mirror when the drain takes the newest snapshot, or ends.
Taken(m) ==
  IF m.waiting
    THEN [m EXCEPT !.waiting = FALSE, !.snap = m.latest, !.latest = Nothing, !.pc = "ink"]
    ELSE [m EXCEPT !.pc = "idle", !.snap = Nothing]

LEMMA TakenType ==
  ASSUME NEW m \in MirrorStates
  PROVE  Taken(m) \in MirrorStates
<1>1. CASE m.waiting
  <2> DEFINE s == m.latest
  <2>1. s \in Copies /\ "ink" \in Records
    BY Parts DEF MirrorStates
  <2>2. Taken(m) = [m EXCEPT !.waiting = FALSE, !.snap = s, !.latest = Nothing, !.pc = "ink"]
    BY <1>1 DEF Taken
  <2> HIDE DEF s
  <2> QED
    BY <2>1, <2>2, Empties DEF MirrorStates
<1>2. CASE ~m.waiting
  BY <1>2, Empties DEF Taken, MirrorStates
<1> QED
  BY <1>1, <1>2

LEMMA TakeMoves ==
  ASSUME FocusTypeOK, NEW d \in Devices, TakeSnapshot(d)
  PROVE  DeviceMoves(d, Taken(mirror[d]), reader[d], req[d])
<1>1. Taken(mirror[d]) \in MirrorStates
  BY Unmoved, TakenType
<1>2. mirror' = [mirror EXCEPT ![d] = Taken(mirror[d])]
  BY DEF TakeSnapshot, Taken
<1> QED
  BY <1>1, <1>2, Unmoved DEF TakeSnapshot, DeviceMoves

\* The write a push sends: its items, what it carries and its key.
PushItems(d, r) == IF r = "ink" THEN Changed(d, r) ELSE Notes
PushWrite(d, r) == Write(mirror[d].rev[r], PushItems(d, r), mirror[d].snap)
PushKey(d, r) ==
  IF mirror[d].slot[r].write = PushWrite(d, r) THEN mirror[d].slot[r].key ELSE keys[d] + 1
Sending(m, r, w, k) == [m EXCEPT !.slot = [m.slot EXCEPT ![r] = [write |-> w, key |-> k]]]
Sent(r, w, k) == [record |-> r, write |-> w, key |-> k, answer |-> "sent", rev |-> 0]

LEMMA PushFacts ==
  ASSUME FocusTypeOK, NEW d \in Devices, NEW r \in Records
  PROVE  /\ PushItems(d, r) \subseteq ItemsOf[r] /\ PushWrite(d, r) \in Writes
         /\ PushWrite(d, r).items = PushItems(d, r)
         /\ PushWrite(d, r).expected = mirror[d].rev[r]
         /\ PushWrite(d, r).content = Taking(Nothing, mirror[d].snap, PushItems(d, r))
         /\ PushKey(d, r) \in Nat
         /\ Changed(d, r) # {} => PushItems(d, r) # {}
<1>1. PushItems(d, r) \subseteq ItemsOf[r]
  BY Parts DEF PushItems, Changed
<1>2. mirror[d] \in MirrorStates /\ keys[d] \in Nat
  BY DEF FocusTypeOK
<1>3. PushItems(d, r) \in SUBSET Items
  BY <1>1, Parts
<1>4. mirror[d].rev[r] \in Nat /\ mirror[d].snap \in Copies /\ mirror[d].slot[r].key \in Nat
  <2>1. mirror[d].slot[r] \in Slots
    BY <1>2 DEF MirrorStates
  <2> QED
    BY <1>2, <2>1 DEF MirrorStates, Slots
<1>5. PushWrite(d, r) \in Writes /\ PushWrite(d, r).items = PushItems(d, r)
  BY <1>3, <1>4, WriteFacts DEF PushWrite
<1>6. /\ PushWrite(d, r).expected = mirror[d].rev[r]
      /\ PushWrite(d, r).content = Taking(Nothing, mirror[d].snap, PushItems(d, r))
  BY DEF PushWrite, Write
<1>7. PushKey(d, r) \in Nat
  BY <1>2, <1>4 DEF PushKey
<1>8. Changed(d, r) # {} => PushItems(d, r) # {}
  BY Parts DEF PushItems, Changed
<1> QED
  BY <1>1, <1>5, <1>6, <1>7, <1>8

LEMMA PushSkips ==
  ASSUME FocusTypeOK, NEW d \in Devices, NEW r \in Records, PushRecord(d, r), Changed(d, r) = {}
  PROVE  /\ DeviceMoves(d, [mirror[d] EXCEPT !.pc = AfterRecord(r)], reader[d], req[d])
         /\ keys' = keys
<1>1. mirror \in [Devices -> MirrorStates] /\ mirror[d] \in MirrorStates
  BY DEF FocusTypeOK
<1>2. AfterRecord(r) \in {"take"} \cup Records
  BY Parts DEF AfterRecord
<1>3. [mirror[d] EXCEPT !.pc = AfterRecord(r)] \in MirrorStates
  BY <1>1, <1>2 DEF MirrorStates
<1>4. mirror' = [mirror EXCEPT ![d].pc = AfterRecord(r)] /\ req' = req /\ keys' = keys
  BY DEF PushRecord
<1> QED
  BY <1>1, <1>3, <1>4, Unmoved DEF PushRecord, DeviceMoves

LEMMA PushSends ==
  ASSUME FocusTypeOK, NEW d \in Devices, NEW r \in Records, PushRecord(d, r), Changed(d, r) # {}
  PROVE  /\ DeviceMoves(d, Sending(mirror[d], r, PushWrite(d, r), PushKey(d, r)), reader[d],
                        Sent(r, PushWrite(d, r), PushKey(d, r)))
         /\ keys' = [keys EXCEPT ![d] = IF PushKey(d, r) > keys[d] THEN PushKey(d, r)
                                        ELSE keys[d]]
<1> DEFINE w == PushWrite(d, r)
           k == PushKey(d, r)
<1>1. mirror \in [Devices -> MirrorStates] /\ mirror[d] \in MirrorStates
  BY DEF FocusTypeOK
<1>2. w \in Writes /\ k \in Nat
  BY PushFacts
<1>3. /\ req' = [req EXCEPT ![d] = [record |-> r, write |-> w, key |-> k,
                                    answer |-> "sent", rev |-> 0]]
      /\ mirror' = [mirror EXCEPT ![d].slot[r] = [write |-> w, key |-> k]]
      /\ keys' = [keys EXCEPT ![d] = IF k > keys[d] THEN k ELSE keys[d]]
  BY DEF PushRecord, PushWrite, PushKey, PushItems
<1>4. reader' = reader
  BY DEF PushRecord
<1> HIDE DEF w, k
<1>5. Sending(mirror[d], r, w, k) \in MirrorStates
  BY <1>1, <1>2 DEF Sending, MirrorStates, Slots
<1>6. Sent(r, w, k) \in Requests
  BY <1>2 DEF Sent, Requests
<1>7. mirror' = [mirror EXCEPT ![d] = Sending(mirror[d], r, w, k)]
  BY <1>1, <1>3 DEF Sending, MirrorStates
<1> QED
  BY <1>3, <1>4, <1>5, <1>6, <1>7, Unmoved DEF DeviceMoves, Sent, w, k

\* The request after the server has handled it.
Answered(q, n) == [q EXCEPT !.answer = "done", !.rev = n]

LEMMA HandleMoves ==
  ASSUME FocusTypeOK, NEW d \in Devices, HandleWrite(d)
  PROVE  /\ req[d].record \in Records /\ req[d].answer = "sent"
         /\ \/ /\ Fits(d, req[d]) /\ ApplyWrite(d, req[d])
               /\ DeviceMoves(d, mirror[d], reader[d],
                              Answered(req[d], rev'[req[d].record]))
            \/ /\ receipt[d][req[d].record].key = req[d].key
               /\ UNCHANGED <<server, rev, receipt>>
               /\ DeviceMoves(d, mirror[d], reader[d],
                              Answered(req[d], receipt[d][req[d].record].rev))
            \/ /\ UNCHANGED <<server, rev, receipt>>
               /\ DeviceMoves(d, mirror[d], reader[d], [req[d] EXCEPT !.answer = "conflict"])
<1> DEFINE q == req[d]
<1>1. q.record \in Records /\ q \in Requests /\ q.answer = "sent"
  BY Beginnings DEF HandleWrite, FocusTypeOK
<1>2. mirror' = mirror /\ reader' = reader /\ req \in [Devices -> Requests]
  BY DEF HandleWrite, FocusTypeOK
<1>3. CASE Fits(d, q)
  <2>1. ApplyWrite(d, q)
    BY <1>3 DEF HandleWrite
  <2>2. rev' \in [Records -> Nat]
    BY <1>1, <2>1, ApplyType DEF Requests
  <2>3. Answered(q, rev'[q.record]) \in Requests
    BY <1>1, <2>2 DEF Answered, Requests
  <2>4. req' = [req EXCEPT ![d].answer = "done", ![d].rev = rev'[q.record]]
    BY <1>3 DEF HandleWrite
  <2>5. req' = [req EXCEPT ![d] = Answered(q, rev'[q.record])]
    BY <1>2, <2>4 DEF Answered, Requests
  <2> QED
    BY <1>1, <1>2, <1>3, <2>1, <2>3, <2>5, Unmoved DEF DeviceMoves
<1>4. CASE ~Fits(d, q) /\ receipt[d][q.record].key = q.key
  <2>1. receipt[d][q.record].rev \in Nat
    BY <1>1 DEF FocusTypeOK
  <2>2. Answered(q, receipt[d][q.record].rev) \in Requests
    BY <1>1, <2>1 DEF Answered, Requests
  <2>3. req' = [req EXCEPT ![d] = Answered(q, receipt[d][q.record].rev)]
        /\ UNCHANGED <<server, rev, receipt>>
    BY <1>4 DEF HandleWrite, Answered
  <2> QED
    BY <1>1, <1>2, <1>4, <2>2, <2>3, Unmoved DEF DeviceMoves
<1>5. CASE ~Fits(d, q) /\ receipt[d][q.record].key # q.key
  <2>1. [q EXCEPT !.answer = "conflict"] \in Requests
    BY <1>1 DEF Requests
  <2>2. req' = [req EXCEPT ![d] = [q EXCEPT !.answer = "conflict"]]
        /\ UNCHANGED <<server, rev, receipt>>
    BY <1>5 DEF HandleWrite
  <2> QED
    BY <1>1, <1>2, <2>1, <2>2, Unmoved DEF DeviceMoves
<1> QED
  BY <1>3, <1>4, <1>5

\* The mirror after a write that succeeded, and after one that failed.
Confirmed(m, q) ==
  [m EXCEPT !.synced = Taking(m.synced, q.write.content, q.write.items),
            !.rev = [m.rev EXCEPT ![q.record] = q.rev],
            !.slot = [m.slot EXCEPT ![q.record] = [write |-> NoWrite, key |-> 0]],
            !.pc = AfterRecord(q.record)]
Failed(m) ==
  [m EXCEPT !.pc = "idle", !.waiting = TRUE,
            !.latest = IF m.waiting THEN m.latest ELSE m.snap, !.snap = Nothing]

LEMMA AnsweredMoves ==
  ASSUME FocusTypeOK, NEW d \in Devices, WriteAnswered(d)
  PROVE  /\ req[d].record \in Records
         /\ DeviceMoves(d, Confirmed(mirror[d], req[d]), reader[d], NoReq)
<1> DEFINE q == req[d]
           m == mirror[d]
           synced == Taking(m.synced, q.write.content, q.write.items)
           r == q.record
           n == q.rev
           empty == [write |-> NoWrite, key |-> 0]
           pc == AfterRecord(r)
<1>1. q.record \in Records /\ q \in Requests
  BY Beginnings DEF WriteAnswered, FocusTypeOK
<1>2. mirror \in [Devices -> MirrorStates] /\ m \in MirrorStates
  BY DEF FocusTypeOK
<1>3. synced \in Copies
  BY <1>1, <1>2, TakingFacts DEF Requests, Writes, MirrorStates
<1>4. pc \in {"take"} \cup Records
  BY Parts DEF AfterRecord
<1>5. empty \in Slots
  BY NoWriteFacts DEF Slots
<1>6. r \in Records /\ n \in Nat
  BY <1>1 DEF Requests
<1>7. mirror' = [mirror EXCEPT ![d].synced = synced, ![d].rev[r] = n, ![d].slot[r] = empty,
                               ![d].pc = pc]
  BY DEF WriteAnswered
<1>8. /\ req' = [req EXCEPT ![d] = NoReq] /\ reader' = reader
      /\ Confirmed(m, q) = [m EXCEPT !.synced = synced, !.rev = [m.rev EXCEPT ![r] = n],
                                     !.slot = [m.slot EXCEPT ![r] = empty], !.pc = pc]
  BY DEF WriteAnswered, Confirmed
<1> HIDE DEF synced, r, n, empty, pc
<1>9. Confirmed(m, q) \in MirrorStates
  <2> DEFINE revs == [m.rev EXCEPT ![r] = n]
             slots == [m.slot EXCEPT ![r] = empty]
  <2>1. revs \in [Records -> Nat] /\ slots \in [Records -> Slots]
    BY <1>2, <1>5, <1>6 DEF MirrorStates
  <2>2. Confirmed(m, q) = [m EXCEPT !.synced = synced, !.rev = revs, !.slot = slots, !.pc = pc]
    BY <1>8
  <2> HIDE DEF revs, slots
  <2> QED
    BY <1>2, <1>3, <1>4, <2>1, <2>2 DEF MirrorStates
<1>10. mirror' = [mirror EXCEPT ![d] = Confirmed(m, q)]
  <2> DEFINE x == [mirror EXCEPT ![d].synced = synced, ![d].rev[r] = n]
             mx == [m EXCEPT !.synced = synced, !.rev = [m.rev EXCEPT ![r] = n]]
             y == [mirror EXCEPT ![d] = mx]
  <2>1. x = y
    BY <1>2 DEF MirrorStates
  <2>2. mirror' = [x EXCEPT ![d].slot[r] = empty, ![d].pc = pc]
    BY <1>7
  <2>3. y[d] = mx /\ DOMAIN y = Devices
    BY <1>2
  <2>4. [y EXCEPT ![d].slot[r] = empty, ![d].pc = pc] = [mirror EXCEPT ![d] = Confirmed(m, q)]
    BY <1>2, <1>8 DEF MirrorStates
  <2> QED
    BY <2>1, <2>2, <2>4
<1> QED
  BY <1>1, <1>8, <1>9, <1>10, Unmoved, Beginnings DEF DeviceMoves

LEMMA FailsMoves ==
  ASSUME FocusTypeOK, NEW d \in Devices, WriteFails(d)
  PROVE  DeviceMoves(d, Failed(mirror[d]), reader[d], NoReq)
<1> DEFINE m == mirror[d]
           kept == IF m.waiting THEN m.latest ELSE m.snap
<1>1. mirror \in [Devices -> MirrorStates] /\ m \in MirrorStates /\ kept \in Copies
  BY DEF FocusTypeOK, MirrorStates
<1>2. mirror' = [mirror EXCEPT ![d].pc = "idle", ![d].waiting = TRUE, ![d].latest = kept,
                               ![d].snap = Nothing]
  BY DEF WriteFails
<1>3. Failed(m) = [m EXCEPT !.pc = "idle", !.waiting = TRUE, !.latest = kept, !.snap = Nothing]
  BY DEF Failed
<1> HIDE DEF kept
<1>4. Failed(m) \in MirrorStates
  BY <1>1, <1>3, Empties DEF MirrorStates
<1>5. mirror' = [mirror EXCEPT ![d] = Failed(m)]
  BY <1>1, <1>2, <1>3 DEF MirrorStates
<1> QED
  BY <1>4, <1>5, Unmoved, Beginnings DEF WriteFails, DeviceMoves

\* Every step keeps the types: what a device shows, stores and mirrors is a
\* copy of the sheet.
SheetTypes ==
  /\ screen \in [Devices -> Copies] /\ stored \in [Devices -> Copies]
  /\ base \in [Devices -> Copies]
  /\ open \in [Devices -> BOOLEAN] /\ unsaved \in [Devices -> BOOLEAN]
  /\ timer \in [Devices -> BOOLEAN] /\ keys \in [Devices -> Nat] /\ edits \in Contents

LEMMA MovesType ==
  ASSUME FocusTypeOK, NEW d \in Devices, NEW m, NEW rd, NEW q, DeviceMoves(d, m, rd, q),
         q = NoReq \/ q.record \in Records, SheetTypes',
         UNCHANGED <<server, rev, receipt>>, late' \subseteq LateWrites
  PROVE  FocusTypeOK'
<1>1. /\ mirror' \in [Devices -> MirrorStates] /\ reader' \in [Devices -> ReaderStates]
      /\ req' \in [Devices -> Requests]
  BY DEF DeviceMoves, FocusTypeOK
<1>2. \A e \in Devices : req'[e] = NoReq \/ req'[e].record \in Records
  BY DEF DeviceMoves, FocusTypeOK
<1>3. server' \in Copies /\ rev' \in [Records -> Nat]
      /\ receipt' \in [Devices -> [Records -> [key : Nat, rev : Nat]]]
  BY DEF FocusTypeOK
<1> QED
  BY <1>1, <1>2, <1>3 DEF FocusTypeOK, SheetTypes

LEMMA FocusTypeStep == FocusTypeOK /\ [Next]_vars => FocusTypeOK'
<1> SUFFICES ASSUME FocusTypeOK, [Next]_vars PROVE FocusTypeOK'
  OBVIOUS
<1>0. /\ SheetTypes /\ late \subseteq LateWrites
      /\ \A d \in Devices : req[d] = NoReq \/ req[d].record \in Records
  BY DEF FocusTypeOK, SheetTypes
<1>1. ASSUME NEW d \in Devices, OpenWorkspace(d) PROVE FocusTypeOK'
  <2>1. SheetTypes'
    BY <1>0, <1>1 DEF OpenWorkspace, SheetTypes
  <2> QED
    BY <1>0, <1>1, <2>1, OpenMoves, MovesType DEF OpenWorkspace, serverVars
<1>2. ASSUME NEW d \in Devices, NEW i \in Items, Edit(d, i) PROVE FocusTypeOK'
  <2>1. PICK content \in {edits + 1, 0} : screen' = [screen EXCEPT ![d][i] = content]
    BY <1>2 DEF Edit
  <2>2. content \in Contents /\ edits + 1 \in Contents
    BY <1>0, <1>2, <2>1, Empties DEF Edit, Contents, SheetTypes
  <2>3. screen' \in [Devices -> Copies]
    BY <1>0, <2>1, <2>2 DEF Copies, SheetTypes
  <2>4. SheetTypes'
    BY <1>0, <1>2, <2>2, <2>3 DEF Edit, SheetTypes
  <2> QED
    BY <1>0, <1>2, <2>4, WorkspaceMoves, MovesType DEF Edit, serverVars
<1>3. ASSUME NEW d \in Devices, PersistWorkspace(d) PROVE FocusTypeOK'
  <2>1. SheetTypes'
    BY <1>0, <1>3 DEF PersistWorkspace, SheetTypes, history
  <2> QED
    BY <1>0, <1>3, <2>1, WorkspaceMoves, MovesType DEF PersistWorkspace, serverVars
<1>4. ASSUME NEW d \in Devices, LeaveWorkspace(d) PROVE FocusTypeOK'
  <2>1. SheetTypes'
    BY <1>0, <1>4, Empties DEF LeaveWorkspace, Closed, SheetTypes, history
  <2> QED
    BY <1>0, <1>4, <2>1, LeaveMoves, MovesType DEF LeaveWorkspace, serverVars
<1>5. ASSUME NEW d \in Devices, KillTab(d) PROVE FocusTypeOK'
  <2>1. late' \subseteq LateWrites
    BY <1>5, OrphanType DEF KillTab
  <2>2. SheetTypes'
    BY <1>0, <1>5, Empties DEF KillTab, Closed, SheetTypes
  <2> QED
    BY <1>0, <1>5, <2>1, <2>2, KillMoves, MovesType DEF KillTab
<1>6. ASSUME NEW d \in Devices, LoadAgain(d) \/ StartRefresh(d) PROVE FocusTypeOK'
  <2>1. SheetTypes'
    BY <1>0, <1>6 DEF LoadAgain, StartRefresh, SheetTypes, history
  <2> QED
    BY <1>0, <1>6, <2>1, LoadAgainMoves, StartRefreshMoves, MovesType
       DEF LoadAgain, StartRefresh, serverVars
<1>7. ASSUME NEW d \in Devices, ProbeRead(d) \/ ReadGroup(d) PROVE FocusTypeOK'
  <2>1. SheetTypes'
    BY <1>0, <1>7 DEF ProbeRead, ReadGroup, SheetTypes, history
  <2>2. UNCHANGED serverVars
    BY <1>7 DEF ProbeRead, ReadGroup
  <2> QED
    BY <1>0, <1>7, <2>1, <2>2, ProbeReadMoves, ReadGroupMoves, MovesType DEF serverVars
<1>8. ASSUME NEW d \in Devices, ProbeAnswered(d) \/ ReadFails(d) PROVE FocusTypeOK'
  <2>1. SheetTypes'
    BY <1>0, <1>8 DEF ProbeAnswered, ReadFails, SheetTypes
  <2> QED
    BY <1>0, <1>8, <2>1, ProbeAnsweredMoves, ReadFailsMoves, MovesType
       DEF ProbeAnswered, ReadFails, serverVars
<1>9. ASSUME NEW d \in Devices, Reconcile(d) PROVE FocusTypeOK'
  <2> DEFINE r == reader[d]
             local == IF r.pc = "load" THEN screen[d] ELSE r.local
             merged == MergeById(local, r.got, base[d])
  <2>1. merged \in Copies
    BY Unmoved, MergeType DEF FocusTypeOK, ReaderStates
  <2>2. /\ screen' = screen \/ screen' = [screen EXCEPT ![d] = merged]
        /\ unsaved' = unsaved \/ unsaved' = [unsaved EXCEPT ![d] = TRUE]
        /\ timer' = timer \/ timer' = [timer EXCEPT ![d] = TRUE]
        /\ UNCHANGED <<stored, base, open, keys, serverVars, history>>
    BY <1>9 DEF Reconcile
  <2> HIDE DEF merged
  <2>3. SheetTypes'
    BY <1>0, <2>1, <2>2 DEF SheetTypes, history
  <2> QED
    BY <1>0, <1>9, <2>2, <2>3, ReconcileMoves, MovesType DEF serverVars
<1>10. ASSUME NEW d \in Devices, PushTimer(d) PROVE FocusTypeOK'
  <2>1. SheetTypes' /\ UNCHANGED serverVars
    BY <1>0, <1>10 DEF PushTimer, SheetTypes, history
  <2> QED
    BY <1>0, <1>10, <2>1, PushTimerMoves, MovesType DEF serverVars
<1>11. ASSUME NEW d \in Devices, Retry(d) \/ TakeSnapshot(d) PROVE FocusTypeOK'
  <2>1. SheetTypes' /\ UNCHANGED serverVars
    BY <1>0, <1>11 DEF Retry, TakeSnapshot, SheetTypes, history
  <2> QED
    BY <1>0, <1>11, <2>1, RetryMoves, TakeMoves, MovesType DEF serverVars
<1>12. ASSUME NEW d \in Devices, NEW r \in Records, PushRecord(d, r) PROVE FocusTypeOK'
  <2>1. UNCHANGED <<screen, stored, open, unsaved, timer, serverVars, history>>
    BY <1>12 DEF PushRecord
  <2>2. CASE Changed(d, r) = {}
    <3>1. base' \in [Devices -> Copies]
      <4>1. base' = base \/ base' = [base EXCEPT ![d] = mirror[d].synced]
        <5>1. base' = [base EXCEPT ![d] = IF r = "ink" THEN mirror[d].synced ELSE base[d]]
          BY <1>12, <2>2 DEF PushRecord
        <5> QED
          BY <1>0, <5>1 DEF SheetTypes
      <4>2. mirror[d].synced \in Copies
        BY Unmoved DEF MirrorStates
      <4> QED
        BY <1>0, <4>1, <4>2 DEF SheetTypes
    <3>2. SheetTypes'
      BY <1>0, <1>12, <2>1, <2>2, <3>1, PushSkips DEF SheetTypes, history
    <3> QED
      BY <1>0, <1>12, <2>1, <2>2, <3>2, PushSkips, MovesType DEF serverVars
  <2>3. CASE Changed(d, r) # {}
    <3> DEFINE k == PushKey(d, r)
    <3>1. k \in Nat /\ keys' = [keys EXCEPT ![d] = IF k > keys[d] THEN k ELSE keys[d]]
      BY <1>12, <2>3, PushFacts, PushSends
    <3>2. UNCHANGED base
      BY <1>12, <2>3 DEF PushRecord
    <3> HIDE DEF k
    <3>3. SheetTypes'
      BY <1>0, <2>1, <3>1, <3>2 DEF SheetTypes, history
    <3>4. Sent(r, PushWrite(d, r), PushKey(d, r)).record = r
      BY DEF Sent
    <3> QED
      BY <1>0, <1>12, <2>1, <2>3, <3>3, <3>4, PushSends, MovesType DEF serverVars
  <2> QED
    BY <2>2, <2>3
<1>13. ASSUME NEW d \in Devices, HandleWrite(d) PROVE FocusTypeOK'
  <2> DEFINE q == req[d]
  <2>1. SheetTypes' /\ UNCHANGED <<mirror, reader, late>>
    BY <1>0, <1>13 DEF HandleWrite, SheetTypes, history
  <2>2. q.record \in Records /\ q \in Requests
    BY <1>13, HandleMoves, Unmoved
  <2>3. /\ server' \in Copies /\ rev' \in [Records -> Nat]
        /\ receipt' \in [Devices -> [Records -> [key : Nat, rev : Nat]]]
    <3>1. ApplyWrite(d, q) \/ UNCHANGED <<server, rev, receipt>>
      BY <1>13, HandleMoves
    <3> QED
      BY <2>2, <3>1, ApplyType DEF FocusTypeOK, Requests
  <2>4. /\ \A n : Answered(q, n).record = q.record
        /\ [q EXCEPT !.answer = "conflict"].record = q.record
    BY <2>2 DEF Answered, Requests
  <2>5. PICK a \in Requests : req' = [req EXCEPT ![d] = a] /\ a.record = q.record
    BY <1>13, <2>4, HandleMoves DEF DeviceMoves
  <2>6. /\ req' \in [Devices -> Requests]
        /\ \A e \in Devices : req'[e] = NoReq \/ req'[e].record \in Records
    BY <2>2, <2>5 DEF FocusTypeOK
  <2> QED
    BY <2>1, <2>3, <2>6 DEF FocusTypeOK, SheetTypes
<1>14. ASSUME NEW q \in late, HandleLate(q) PROVE FocusTypeOK'
  <2>1. q.from \in Devices /\ q.record \in Records /\ q.write \in Writes /\ q.key \in Nat
    BY <1>0 DEF LateWrites
  <2>2. /\ server' \in Copies /\ rev' \in [Records -> Nat]
        /\ receipt' \in [Devices -> [Records -> [key : Nat, rev : Nat]]]
    <3>1. ApplyWrite(q.from, q) \/ UNCHANGED <<server, rev, receipt>>
      BY <1>14 DEF HandleLate
    <3> QED
      BY <2>1, <3>1, ApplyType DEF FocusTypeOK
  <2>3. /\ late' \subseteq LateWrites
        /\ UNCHANGED <<screen, stored, base, open, unsaved, timer, mirror, reader, req, keys,
                       edits>>
    BY <1>0, <1>14 DEF HandleLate, history
  <2> QED
    BY <2>2, <2>3 DEF FocusTypeOK
<1>15. ASSUME NEW d \in Devices, WriteAnswered(d) PROVE FocusTypeOK'
  <2> DEFINE synced == Taking(mirror[d].synced, req[d].write.content, req[d].write.items)
  <2>1. synced \in Copies
    BY Unmoved, TakingFacts DEF Requests, Writes, MirrorStates
  <2>2. base' = [base EXCEPT ![d] = synced]
        /\ UNCHANGED <<screen, stored, open, unsaved, timer, reader, keys, serverVars, history>>
    BY <1>15 DEF WriteAnswered
  <2> HIDE DEF synced
  <2>3. SheetTypes'
    BY <1>0, <2>1, <2>2 DEF SheetTypes, history
  <2> QED
    BY <1>0, <1>15, <2>2, <2>3, AnsweredMoves, MovesType DEF serverVars
<1>16. ASSUME NEW d \in Devices, WriteFails(d) PROVE FocusTypeOK'
  <2>1. late' \subseteq LateWrites
    BY <1>0, <1>16, OrphanType DEF WriteFails
  <2>2. UNCHANGED <<screen, stored, base, open, unsaved, timer, keys, server, rev, receipt, edits>>
    BY <1>16 DEF WriteFails
  <2>3. SheetTypes'
    BY <1>0, <2>2 DEF SheetTypes
  <2> QED
    BY <1>16, <2>1, <2>2, <2>3, FailsMoves, MovesType
<1>17. CASE UNCHANGED vars
  BY <1>17 DEF vars, serverVars, history, FocusTypeOK
<1> QED
  BY <1>1, <1>2, <1>3, <1>4, <1>5, <1>6, <1>7, <1>8, <1>9, <1>10, <1>11, <1>12, <1>13, <1>14,
     <1>15, <1>16, <1>17 DEF Next, DeviceStep, DrainStep, ServerStep

\* Every variable keeps its type (createCatalogServerSync).
THEOREM FocusTyped == Spec => []TypeOK
<1>1. Init => FocusTypeOK
  BY Beginnings, Empties DEF Init, FocusTypeOK
<1>2. FocusTypeOK => TypeOK
  BY DEF FocusTypeOK, TypeOK, Copies, MirrorStates, ReaderStates, Requests
<1> QED
  BY <1>1, <1>2, FocusTypeStep, PTL DEF Spec

-----------------------------------------------------------------------------
(* Keys *)

\* The keys of one device: those of its slots, its receipts and its request.
KeyPart(m, rd, q, rc, k) ==
  /\ \A r \in Records : m.slot[r].key <= k /\ rc[r].key <= k
  /\ \A r \in Records : IF m.slot[r].key = 0 THEN m.slot[r].write = NoWrite
                        ELSE m.slot[r].write.items \subseteq ItemsOf[r]
  /\ m.slot["ink"].key = m.slot["notes"].key => m.slot["ink"].key = 0
  /\ q = NoReq \/ /\ q.record \in Records /\ q.answer # "none" /\ q.key # 0
                  /\ m.pc = q.record
                  /\ m.slot[q.record] = [write |-> q.write, key |-> q.key]
  /\ m.pc # "idle" \/ m.waiting => m.loaded
  /\ rd.pc \in {"load", "refresh"} \/ rd.group = 0

\* A write that may arrive late, of a device with the mirror m and k keys made.
LatePart(q, m, k) ==
  /\ q.key # 0 /\ q.key <= k /\ q.write.items \subseteq ItemsOf[q.record]
  /\ \A r \in Records : m.slot[r].key = q.key => r = q.record /\ m.slot[r].write = q.write

KeysInv ==
  /\ \A d \in Devices : KeyPart(mirror[d], reader[d], req[d], receipt[d], keys[d])
  /\ \A q \in late : LatePart(q, mirror[q.from], keys[q.from])


LEMMA KeysBegin == Init => KeysInv
<1> SUFFICES ASSUME Init PROVE KeysInv
  OBVIOUS
<1>1. ASSUME NEW d \in Devices
      PROVE  KeyPart(mirror[d], reader[d], req[d], receipt[d], keys[d])
  <2>1. /\ mirror[d] = FreshMirror /\ reader[d] = IdleReader /\ req[d] = NoReq /\ keys[d] = 0
        /\ \A r \in Records : receipt[d][r].key = 0
    BY DEF Init
  <2> QED
    BY <2>1, Beginnings, Parts DEF KeyPart
<1> QED
  BY <1>1 DEF KeysInv, Init

\* What a late write is to its device stays so while no slot gets a key but an
\* empty mirror's.
LEMMA LateKept ==
  ASSUME NEW p, NEW m, NEW m1, NEW k \in Nat, NEW k1 \in Nat, k <= k1, p.key \in Nat,
         m1.slot = m.slot \/ m1 = FreshMirror, LatePart(p, m, k)
  PROVE  LatePart(p, m1, k1)
BY Beginnings DEF LatePart

\* A step of device d that makes no key.  Its request is answered, given up or
\* left alone, and what it gives up may arrive late.
LEMMA KeysQuiet ==
  ASSUME FocusTypeOK, KeysInv, NEW d \in Devices, NEW m, NEW rd, NEW q, DeviceMoves(d, m, rd, q),
         keys' = keys,
         \A e \in Devices, r \in Records : receipt'[e][r].key <= keys[e],
         \A p \in late' :
           \/ p \in late
           \/ /\ req[d].record \in Records
              /\ p = [from |-> d, record |-> req[d].record, write |-> req[d].write,
                      key |-> req[d].key],
         m.slot = mirror[d].slot \/ m = FreshMirror,
         \/ q = NoReq
         \/ /\ req[d] # NoReq /\ q.answer # "none" /\ q.record = req[d].record
            /\ q.write = req[d].write /\ q.key = req[d].key
            /\ m.slot = mirror[d].slot /\ m.pc = mirror[d].pc,
         m.pc # "idle" \/ m.waiting => m.loaded,
         rd.pc \in {"load", "refresh"} \/ rd.group = 0
  PROVE  KeysInv'
<1> DEFINE o == mirror[d]
<1>1. /\ KeyPart(o, reader[d], req[d], receipt[d], keys[d])
      /\ o \in MirrorStates /\ keys[d] \in Nat /\ req[d] \in Requests
  BY DEF KeysInv, FocusTypeOK
<1>2. KeyPart(m, rd, q, receipt'[d], keys[d])
  <2>1. CASE m.slot = o.slot
    BY <1>1, <2>1 DEF KeyPart
  <2>2. CASE m = FreshMirror
    <3>1. \A r \in Records : m.slot[r].key = 0 /\ m.slot[r].write = NoWrite
      BY <2>2, Beginnings
    <3>2. q = NoReq \/ m.slot = o.slot
      OBVIOUS
    <3>3. CASE q = NoReq
      BY <1>1, <3>1, <3>3, Parts DEF KeyPart
    <3>4. CASE m.slot = o.slot
      BY <2>1, <3>4
    <3> QED
      BY <3>2, <3>3, <3>4
  <2> QED
    BY <2>1, <2>2
<1>3. ASSUME NEW e \in Devices
      PROVE  KeyPart(mirror[e], reader[e], req[e], receipt[e], keys[e])'
  <2>1. CASE e = d
    BY <1>2, <2>1 DEF DeviceMoves, FocusTypeOK
  <2>2. CASE e # d
    <3>1. mirror'[e] = mirror[e] /\ reader'[e] = reader[e] /\ req'[e] = req[e]
      BY <2>2 DEF DeviceMoves, FocusTypeOK
    <3> QED
      BY <3>1 DEF KeysInv, KeyPart
  <2> QED
    BY <2>1, <2>2
<1>4. ASSUME NEW p \in late'
      PROVE  LatePart(p, mirror'[p.from], keys'[p.from])
  <2>1. CASE p \in late
    <3>1. p.from \in Devices /\ p.key \in Nat /\ LatePart(p, mirror[p.from], keys[p.from])
          /\ keys[p.from] \in Nat
      BY <2>1 DEF KeysInv, FocusTypeOK, LateWrites
    <3>2. mirror'[p.from].slot = mirror[p.from].slot \/ mirror'[p.from] = FreshMirror
      BY <3>1 DEF DeviceMoves, FocusTypeOK
    <3> QED
      BY <3>1, <3>2, LateKept
  <2>2. CASE p \notin late
    <3> DEFINE r == req[d].record
    <3>1. /\ r \in Records /\ p.from = d /\ p.record = r /\ p.write = req[d].write
          /\ p.key = req[d].key /\ p.key \in Nat
      BY <1>1, <2>2 DEF Requests
    <3>2. req[d] # NoReq
      BY <3>1, Beginnings, Parts
    <3>3. /\ o.slot[r] = [write |-> req[d].write, key |-> req[d].key] /\ req[d].key # 0
      BY <1>1, <3>2 DEF KeyPart
    <3>4. o.slot[r].key = p.key /\ o.slot[r].write = p.write /\ p.key # 0
      BY <3>1, <3>3
    <3>5. LatePart(p, o, keys[d])
      <4>1. p.key <= keys[d]
        BY <1>1, <3>1, <3>4 DEF KeyPart
      <4>2. p.write.items \subseteq ItemsOf[r]
        BY <1>1, <3>1, <3>4 DEF KeyPart
      <4>3. ASSUME NEW x \in Records, o.slot[x].key = p.key PROVE x = r
        BY <1>1, <3>1, <3>4, <4>3, Parts DEF KeyPart
      <4> HIDE DEF r
      <4> QED
        BY <3>1, <3>4, <4>1, <4>2, <4>3 DEF LatePart
    <3>6. mirror'[d] = m
      BY DEF DeviceMoves, FocusTypeOK
    <3> QED
      BY <1>1, <3>1, <3>5, <3>6, LateKept
  <2> QED
    BY <2>1, <2>2
<1> QED
  BY <1>3, <1>4 DEF KeysInv

\* A step of device d after which its mirror knows what it knew or nothing, its
\* request is what it was or given up, and its reader what it was or with
\* nothing read.
Kept(o, m) ==
  /\ m.loaded = o.loaded /\ m.synced = o.synced /\ m.rev = o.rev /\ m.slot = o.slot
  /\ m.setBack = o.setBack
Quiet(d, m, rd, q) ==
  /\ DeviceMoves(d, m, rd, q)
  /\ UNCHANGED <<server, rev, receipt, keys>>
  /\ \A p \in late' :
       \/ p \in late
       \/ /\ req[d].record \in Records
          /\ p = [from |-> d, record |-> req[d].record, write |-> req[d].write,
                  key |-> req[d].key]
  /\ Kept(mirror[d], m) \/ m = FreshMirror
  /\ \/ q = NoReq
     \/ q = req[d] /\ req[d] # NoReq /\ m.pc = mirror[d].pc /\ Kept(mirror[d], m)
  /\ m.pc # "idle" \/ m.waiting => m.loaded
  /\ rd = reader[d] \/ (rd.group = 0 /\ \A r \in Records : rd.rev[r] <= rev[r])
  /\ rd.pc \in {"load", "refresh"} \/ rd.group = 0

\* The steps that are not.
Loud ==
  \/ \E d \in Devices : ReadGroup(d) \/ Reconcile(d) \/ HandleWrite(d) \/ WriteAnswered(d)
  \/ \E d \in Devices, r \in Records : PushRecord(d, r) /\ Changed(d, r) # {}
  \/ \E q \in late : HandleLate(q)

LEMMA OrphanFacts ==
  ASSUME FocusTypeOK, NEW d \in Devices, Orphan(d)
  PROVE  \A p \in late' :
           \/ p \in late
           \/ /\ req[d].record \in Records
              /\ p = [from |-> d, record |-> req[d].record, write |-> req[d].write,
                      key |-> req[d].key]
BY Beginnings DEF Orphan, FocusTypeOK

\* What a drain does to the mirror besides.
LEMMA QueuedFacts ==
  ASSUME NEW o \in MirrorStates, NEW s
  PROVE  /\ Kept(o, Queued(o, s)) /\ Queued(o, s).waiting /\ Queued(o, s).latest = s
         /\ Queued(o, s).pc = (IF o.pc = "idle" THEN "take" ELSE o.pc)
         /\ Queued(o, s).snap = o.snap
BY DEF Kept, Queued, MirrorStates

LEMMA KeptFacts ==
  ASSUME NEW o \in MirrorStates, NEW pc
  PROVE  /\ Kept(o, [o EXCEPT !.pc = pc]) /\ [o EXCEPT !.pc = pc].pc = pc
         /\ [o EXCEPT !.pc = pc].waiting = o.waiting /\ [o EXCEPT !.pc = pc].latest = o.latest
         /\ [o EXCEPT !.pc = pc].snap = o.snap
BY DEF Kept, MirrorStates

LEMMA TakenFacts ==
  ASSUME NEW o \in MirrorStates
  PROVE  /\ Kept(o, Taken(o)) /\ ~Taken(o).waiting
         /\ Taken(o).pc = (IF o.waiting THEN "ink" ELSE "idle")
         /\ o.waiting => Taken(o).snap = o.latest
<1>1. CASE o.waiting
  <2>1. Taken(o) = [o EXCEPT !.waiting = FALSE, !.snap = o.latest, !.latest = Nothing,
                             !.pc = "ink"]
    BY <1>1 DEF Taken
  <2> QED
    BY <1>1, <2>1 DEF Kept, MirrorStates
<1>2. CASE ~o.waiting
  <2>1. Taken(o) = [o EXCEPT !.pc = "idle", !.snap = Nothing]
    BY <1>2 DEF Taken
  <2> QED
    BY <1>2, <2>1 DEF Kept, MirrorStates
<1> QED
  BY <1>1, <1>2

LEMMA FailedFacts ==
  ASSUME NEW o \in MirrorStates
  PROVE  /\ Kept(o, Failed(o)) /\ Failed(o).waiting /\ Failed(o).pc = "idle"
         /\ Failed(o).latest = (IF o.waiting THEN o.latest ELSE o.snap)
BY DEF Failed, Kept, MirrorStates

LEMMA QuietSteps ==
  ASSUME FocusTypeOK, KeysInv, [Next]_vars
  PROVE  Loud \/ UNCHANGED vars \/ \E d \in Devices : \E m, rd, q : Quiet(d, m, rd, q)
<1>0. ASSUME NEW d \in Devices
      PROVE  /\ KeyPart(mirror[d], reader[d], req[d], receipt[d], keys[d])
             /\ mirror[d].pc # "idle" \/ mirror[d].waiting => mirror[d].loaded
             /\ reader[d].pc \in {"load", "refresh"} \/ reader[d].group = 0
             /\ mirror[d] \in MirrorStates /\ reader[d] \in ReaderStates /\ req[d] \in Requests
             /\ Kept(mirror[d], mirror[d])
             /\ \A r \in Records : rev[r] \in Nat /\ IdleReader.rev[r] <= rev[r]
             /\ req[d] = NoReq \/ mirror[d].pc \in Records
  <2>1. /\ KeyPart(mirror[d], reader[d], req[d], receipt[d], keys[d])
        /\ mirror[d] \in MirrorStates /\ reader[d] \in ReaderStates /\ req[d] \in Requests
        /\ Kept(mirror[d], mirror[d])
    BY DEF KeysInv, Kept, FocusTypeOK
  <2>2. \A r \in Records : rev[r] \in Nat /\ IdleReader.rev[r] <= rev[r]
    BY Beginnings, Empties DEF FocusTypeOK
  <2> QED
    BY <2>1, <2>2 DEF KeyPart
<1>1. ASSUME NEW d \in Devices, OpenWorkspace(d)
      PROVE  Quiet(d, FreshMirror, [IdleReader EXCEPT !.pc = "load"], NoReq)
  <2> DEFINE rd == [IdleReader EXCEPT !.pc = "load"]
  <2>1. rd.group = 0 /\ rd.rev = IdleReader.rev
    BY Beginnings DEF ReaderStates
  <2>2. req[d] = NoReq /\ UNCHANGED <<keys, serverVars>>
    BY <1>1 DEF OpenWorkspace
  <2> QED
    BY <1>0, <1>1, <2>1, <2>2, OpenMoves, Beginnings DEF Quiet, serverVars
<1>2. ASSUME NEW d \in Devices, PersistWorkspace(d) \/ \E i \in Items : Edit(d, i)
      PROVE  Quiet(d, mirror[d], reader[d], req[d])
  <2>1. UNCHANGED <<keys, serverVars>>
    BY <1>2 DEF PersistWorkspace, Edit
  <2> QED
    BY <1>0, <1>2, <2>1, WorkspaceMoves DEF Quiet, serverVars
<1>3. ASSUME NEW d \in Devices, LeaveWorkspace(d)
      PROVE  Quiet(d, IF req[d] = NoReq THEN FreshMirror ELSE mirror[d], IdleReader, req[d])
  <2>1. UNCHANGED <<keys, serverVars>>
    BY <1>3 DEF LeaveWorkspace
  <2> QED
    BY <1>0, <1>3, <2>1, LeaveMoves, Beginnings DEF Quiet, serverVars
<1>4. ASSUME NEW d \in Devices, KillTab(d)
      PROVE  Quiet(d, FreshMirror, IdleReader, NoReq)
  <2>1. UNCHANGED <<keys, server, rev, receipt>> /\ Orphan(d)
    BY <1>4 DEF KillTab
  <2> QED
    BY <1>0, <1>4, <2>1, KillMoves, OrphanFacts, Beginnings DEF Quiet
<1>5. ASSUME NEW d \in Devices, LoadAgain(d)
      PROVE  Quiet(d, mirror[d], [IdleReader EXCEPT !.pc = "load"], req[d])
  <2> DEFINE rd == [IdleReader EXCEPT !.pc = "load"]
  <2>1. rd.group = 0 /\ rd.rev = IdleReader.rev
    BY Beginnings DEF ReaderStates
  <2>2. UNCHANGED <<keys, serverVars>>
    BY <1>5 DEF LoadAgain
  <2> QED
    BY <1>0, <1>5, <2>1, <2>2, LoadAgainMoves DEF Quiet, serverVars
<1>6. ASSUME NEW d \in Devices, StartRefresh(d)
      PROVE  \E rd : Quiet(d, mirror[d], rd, req[d])
  <2> DEFINE rd == [IdleReader EXCEPT !.pc = "probe", !.local = screen[d]]
  <2>1. rd.group = 0 /\ rd.rev = IdleReader.rev
    BY Beginnings DEF ReaderStates
  <2>2. UNCHANGED <<keys, serverVars>>
    BY <1>6 DEF StartRefresh
  <2>3. Quiet(d, mirror[d], rd, req[d])
    BY <1>0, <1>6, <2>1, <2>2, StartRefreshMoves DEF Quiet, serverVars
  <2> QED
    BY <2>3
<1>7. ASSUME NEW d \in Devices, ProbeRead(d)
      PROVE  \E rd : Quiet(d, mirror[d], rd, req[d])
  <2> DEFINE rd == [reader[d] EXCEPT !.pc = "probed", !.rev = rev]
  <2>1. rd.group = reader[d].group /\ rd.rev = rev /\ reader[d].group = 0
    BY <1>0, <1>7 DEF ReaderStates, KeyPart, ProbeRead
  <2>2. UNCHANGED <<keys, serverVars>>
    BY <1>7 DEF ProbeRead
  <2>3. Quiet(d, mirror[d], rd, req[d])
    <3>1. DeviceMoves(d, mirror[d], rd, req[d])
      BY <1>7, ProbeReadMoves
    <3>2. \A r \in Records : rd.rev[r] <= rev[r]
      BY <1>0, <2>1
    <3> HIDE DEF rd
    <3> QED
      BY <1>0, <2>1, <2>2, <3>1, <3>2 DEF Quiet, serverVars
  <2> QED
    BY <2>3
<1>8. ASSUME NEW d \in Devices, ProbeAnswered(d)
      PROVE  \E rd : Quiet(d, mirror[d], rd, req[d])
  <2> DEFINE rd == IF reader[d].rev = mirror[d].rev THEN IdleReader
                   ELSE [reader[d] EXCEPT !.pc = "refresh", !.rev = NoRevs]
  <2>1. rd.group = 0 /\ rd.rev = NoRevs
    <3>1. reader[d].group = 0
      BY <1>0, <1>8 DEF KeyPart, ProbeAnswered
    <3> QED
      BY <1>0, <3>1, Beginnings DEF ReaderStates
  <2>2. UNCHANGED <<keys, serverVars>>
    BY <1>8 DEF ProbeAnswered
  <2>3. DeviceMoves(d, mirror[d], rd, req[d])
    BY <1>8, ProbeAnsweredMoves
  <2>4. \A r \in Records : rd.rev[r] <= rev[r]
    BY <1>0, <2>1, Beginnings
  <2> HIDE DEF rd
  <2>5. Quiet(d, mirror[d], rd, req[d])
    BY <1>0, <2>1, <2>2, <2>3, <2>4 DEF Quiet, serverVars
  <2> QED
    BY <2>5
<1>9. ASSUME NEW d \in Devices, ReadFails(d)
      PROVE  Quiet(d, mirror[d], IdleReader, req[d])
  <2>1. UNCHANGED <<keys, serverVars>>
    BY <1>9 DEF ReadFails
  <2> QED
    BY <1>0, <1>9, <2>1, ReadFailsMoves, Beginnings DEF Quiet, serverVars
<1>10. ASSUME NEW d \in Devices, PushTimer(d)
       PROVE  \E m : Quiet(d, m, reader[d], req[d])
  <2> DEFINE o == mirror[d]
             m == IF o.loaded THEN Queued(o, screen[d]) ELSE o
  <2>1. /\ Kept(o, m)
        /\ m.pc # "idle" \/ m.waiting => m.loaded
        /\ req[d] # NoReq => m.pc = o.pc
    <3>1. CASE o.loaded
      <4>1. m = Queued(o, screen[d]) /\ o \in MirrorStates
        BY <1>0, <3>1
      <4> HIDE DEF m
      <4>2. Kept(o, m) /\ m.pc = (IF o.pc = "idle" THEN "take" ELSE o.pc)
        BY <4>1, QueuedFacts
      <4>3. m.loaded
        BY <3>1, <4>2 DEF Kept
      <4> QED
        BY <1>0, <4>2, <4>3, Parts
    <3>2. CASE ~o.loaded
      BY <1>0, <3>2
    <3> QED
      BY <3>1, <3>2
  <2>2. UNCHANGED <<keys, serverVars>>
    BY <1>10 DEF PushTimer
  <2>3. DeviceMoves(d, m, reader[d], req[d])
    BY <1>10, PushTimerMoves
  <2> HIDE DEF m
  <2>4. Quiet(d, m, reader[d], req[d])
    BY <1>0, <2>1, <2>2, <2>3 DEF Quiet, serverVars
  <2> QED
    BY <2>4
<1>11. ASSUME NEW d \in Devices, Retry(d)
       PROVE  \E m : Quiet(d, m, reader[d], req[d])
  <2> DEFINE o == mirror[d]
             m == [o EXCEPT !.pc = "take"]
  <2>1. Kept(o, m) /\ m.loaded /\ req[d] = NoReq
    <3>1. o.waiting /\ o.pc = "idle" /\ o.loaded
      BY <1>0, <1>11 DEF Retry
    <3>2. Kept(o, m) /\ req[d] = NoReq
      BY <1>0, <3>1, KeptFacts, Parts
    <3> QED
      BY <3>1, <3>2 DEF Kept
  <2>2. UNCHANGED <<keys, serverVars>>
    BY <1>11 DEF Retry
  <2>3. DeviceMoves(d, m, reader[d], req[d])
    BY <1>11, RetryMoves
  <2> HIDE DEF m
  <2>4. Quiet(d, m, reader[d], req[d])
    BY <1>0, <2>1, <2>2, <2>3 DEF Quiet, serverVars
  <2> QED
    BY <2>4
<1>12. ASSUME NEW d \in Devices, TakeSnapshot(d)
       PROVE  \E m : Quiet(d, m, reader[d], req[d])
  <2> DEFINE o == mirror[d]
             m == Taken(o)
  <2>1. Kept(o, m) /\ m.loaded /\ req[d] = NoReq
    <3>1. o.pc = "take" /\ o.loaded
      BY <1>0, <1>12 DEF TakeSnapshot
    <3> QED
      BY <1>0, <3>1, TakenFacts, Parts DEF Kept
  <2>2. UNCHANGED <<keys, serverVars>>
    BY <1>12 DEF TakeSnapshot
  <2>3. DeviceMoves(d, m, reader[d], req[d])
    BY <1>12, TakeMoves
  <2> HIDE DEF m
  <2>4. Quiet(d, m, reader[d], req[d])
    BY <1>0, <2>1, <2>2, <2>3 DEF Quiet, serverVars
  <2> QED
    BY <2>4
<1>13. ASSUME NEW d \in Devices, NEW r \in Records, PushRecord(d, r), Changed(d, r) = {}
       PROVE  \E m : Quiet(d, m, reader[d], req[d])
  <2> DEFINE o == mirror[d]
             m == [o EXCEPT !.pc = AfterRecord(r)]
  <2>1. Kept(o, m) /\ m.loaded /\ req[d] = NoReq
    <3>1. o.pc = r /\ o.pc # "idle" /\ req[d] = NoReq
      BY <1>13, Parts DEF PushRecord
    <3> QED
      BY <1>0, <3>1, KeptFacts DEF Kept
  <2>2. UNCHANGED serverVars
    BY <1>13 DEF PushRecord
  <2>3. DeviceMoves(d, m, reader[d], req[d]) /\ keys' = keys
    BY <1>13, PushSkips
  <2> HIDE DEF m
  <2>4. Quiet(d, m, reader[d], req[d])
    BY <1>0, <2>1, <2>2, <2>3 DEF Quiet, serverVars
  <2> QED
    BY <2>4
<1>14. ASSUME NEW d \in Devices, WriteFails(d)
       PROVE  \E m : Quiet(d, m, reader[d], NoReq)
  <2> DEFINE o == mirror[d]
             m == Failed(o)
  <2>1. Kept(o, m) /\ m.loaded
    <3>1. req[d] # NoReq
      BY <1>14, Beginnings DEF WriteFails
    <3>2. o.pc # "idle"
      BY <1>0, <3>1, Parts
    <3> QED
      BY <1>0, <3>2, FailedFacts DEF Kept
  <2>2. UNCHANGED <<keys, server, rev, receipt>> /\ (late' = late \/ Orphan(d))
    BY <1>14 DEF WriteFails
  <2>3. DeviceMoves(d, m, reader[d], NoReq)
    BY <1>14, FailsMoves
  <2> HIDE DEF m
  <2>4. Quiet(d, m, reader[d], NoReq)
    BY <1>0, <2>1, <2>2, <2>3, OrphanFacts DEF Quiet
  <2> QED
    BY <2>4
<1> QED
  BY <1>1, <1>2, <1>3, <1>4, <1>5, <1>6, <1>7, <1>8, <1>9, <1>10, <1>11, <1>12, <1>13, <1>14
     DEF Next, DeviceStep, DrainStep, ServerStep, Loud

LEMMA AfterGroupFacts ==
  ASSUME NEW rd \in ReaderStates, NEW s \in Copies, NEW n \in [Records -> Nat]
  PROVE  /\ AfterGroup(rd, s, n).pc = rd.pc /\ AfterGroup(rd, s, n).group = rd.group + 1
         /\ \A i \in Items : AfterGroup(rd, s, n).got[i] =
              IF i \in GroupItems(rd) THEN s[i] ELSE rd.got[i]
         /\ \A r \in Records : AfterGroup(rd, s, n).rev[r] =
              IF r = GroupRecord(rd) THEN n[r] ELSE rd.rev[r]
<1> DEFINE got == Taking(rd.got, s, GroupItems(rd))
           v == [rd.rev EXCEPT ![GroupRecord(rd)] = n[GroupRecord(rd)]]
           g == rd.group + 1
<1>1. AfterGroup(rd, s, n) = [rd EXCEPT !.group = g, !.got = got, !.rev = v]
  BY DEF AfterGroup
<1>2. \A i \in Items : got[i] = IF i \in GroupItems(rd) THEN s[i] ELSE rd.got[i]
  BY TakingFacts DEF ReaderStates
<1>3. \A r \in Records : v[r] = IF r = GroupRecord(rd) THEN n[r] ELSE rd.rev[r]
  BY DEF ReaderStates
<1> HIDE DEF got, v
<1> QED
  BY <1>1, <1>2, <1>3 DEF ReaderStates

LEMMA ReconciledFacts ==
  ASSUME NEW m \in MirrorStates, NEW rd \in ReaderStates, NEW b \in BOOLEAN
  PROVE  LET t == Reconciled(m, rd, b)
         IN /\ t.loaded /\ t.synced = rd.got /\ t.rev = rd.rev /\ t.setBack = b
            /\ t.slot = m.slot /\ t.pc = m.pc /\ t.waiting = m.waiting
            /\ t.latest = m.latest /\ t.snap = m.snap
BY DEF Reconciled, MirrorStates

LEMMA SendingFacts ==
  ASSUME NEW m \in MirrorStates, NEW r \in Records, NEW w, NEW k
  PROVE  LET t == Sending(m, r, w, k)
         IN /\ t.loaded = m.loaded /\ t.synced = m.synced /\ t.rev = m.rev
            /\ t.setBack = m.setBack /\ t.pc = m.pc /\ t.waiting = m.waiting
            /\ t.latest = m.latest /\ t.snap = m.snap
            /\ \A x \in Records : t.slot[x] = IF x = r THEN [write |-> w, key |-> k]
                                              ELSE m.slot[x]
BY DEF Sending, MirrorStates

LEMMA ConfirmedFacts ==
  ASSUME NEW m \in MirrorStates, NEW q \in Requests, q.record \in Records
  PROVE  LET t == Confirmed(m, q)
             r == q.record
         IN /\ t.loaded = m.loaded /\ t.setBack = m.setBack /\ t.waiting = m.waiting
            /\ t.latest = m.latest /\ t.snap = m.snap /\ t.pc = AfterRecord(r)
            /\ \A i \in Items : t.synced[i] = IF i \in q.write.items THEN q.write.content[i]
                                              ELSE m.synced[i]
            /\ \A x \in Records : t.rev[x] = IF x = r THEN q.rev ELSE m.rev[x]
            /\ \A x \in Records : t.slot[x] = IF x = r THEN [write |-> NoWrite, key |-> 0]
                                              ELSE m.slot[x]
<1> DEFINE synced == Taking(m.synced, q.write.content, q.write.items)
           revs == [m.rev EXCEPT ![q.record] = q.rev]
           slots == [m.slot EXCEPT ![q.record] = [write |-> NoWrite, key |-> 0]]
           pc == AfterRecord(q.record)
<1>1. Confirmed(m, q) = [m EXCEPT !.synced = synced, !.rev = revs, !.slot = slots, !.pc = pc]
  BY DEF Confirmed
<1>2. \A i \in Items : synced[i] = IF i \in q.write.items THEN q.write.content[i]
                                   ELSE m.synced[i]
  BY TakingFacts DEF MirrorStates, Requests, Writes
<1>3. /\ \A x \in Records : revs[x] = IF x = q.record THEN q.rev ELSE m.rev[x]
      /\ \A x \in Records : slots[x] = IF x = q.record THEN [write |-> NoWrite, key |-> 0]
                                       ELSE m.slot[x]
  BY DEF MirrorStates
<1> HIDE DEF synced, revs, slots, pc
<1>4. /\ Confirmed(m, q).synced = synced /\ Confirmed(m, q).rev = revs
      /\ Confirmed(m, q).slot = slots /\ Confirmed(m, q).pc = pc
      /\ Confirmed(m, q).loaded = m.loaded /\ Confirmed(m, q).setBack = m.setBack
      /\ Confirmed(m, q).waiting = m.waiting /\ Confirmed(m, q).latest = m.latest
      /\ Confirmed(m, q).snap = m.snap
  BY <1>1 DEF MirrorStates
<1> QED
  BY <1>2, <1>3, <1>4 DEF pc

\* What the server does to a record it writes, and to the other.
LEMMA ApplyFacts ==
  ASSUME FocusTypeOK, NEW d \in Devices, NEW q, q.record \in Records, q.write \in Writes,
         q.key \in Nat, ApplyWrite(d, q)
  PROVE  LET r == q.record
         IN /\ \A i \in Items : server'[i] = IF i \in q.write.items THEN q.write.content[i]
                                             ELSE server[i]
            /\ rev'[r] \in {rev[r], rev[r] + 1}
            /\ rev'[r] = rev[r] => \A i \in q.write.items : server'[i] = server[i]
            /\ \A x \in Records : x # r => rev'[x] = rev[x]
            /\ receipt'[d][r] = [key |-> q.key, rev |-> rev'[r]]
            /\ \A e \in Devices, x \in Records :
                 e # d \/ x # r => receipt'[e][x] = receipt[e][x]
<1> DEFINE r == q.record
           moves == r = "notes" \/ \E i \in q.write.items : q.write.content[i] # 0 \/ server[i] # 0
           after == IF moves THEN rev[r] + 1 ELSE rev[r]
<1>1. /\ server' = Taking(server, q.write.content, q.write.items)
      /\ rev' = [rev EXCEPT ![r] = after]
      /\ receipt' = [receipt EXCEPT ![d][r] = [key |-> q.key, rev |-> after]]
  BY DEF ApplyWrite
<1>2. rev[r] \in Nat /\ server \in Copies /\ rev \in [Records -> Nat]
      /\ receipt \in [Devices -> [Records -> [key : Nat, rev : Nat]]]
  BY DEF FocusTypeOK
<1>3. \A i \in Items : server'[i] = IF i \in q.write.items THEN q.write.content[i]
                                    ELSE server[i]
  BY <1>1, <1>2, TakingFacts DEF Writes
<1>4. after \in {rev[r], rev[r] + 1} /\ (after = rev[r] => ~moves)
  BY <1>2
<1>5. ~moves => \A i \in q.write.items : server'[i] = server[i]
  BY <1>3 DEF Writes
<1> HIDE DEF moves, after
<1>6. rev'[r] = after /\ \A x \in Records : x # r => rev'[x] = rev[x]
  BY <1>1, <1>2
<1>7. /\ receipt'[d][r] = [key |-> q.key, rev |-> after]
      /\ \A e \in Devices, x \in Records : e # d \/ x # r => receipt'[e][x] = receipt[e][x]
  BY <1>1, <1>2
<1> QED
  BY <1>3, <1>4, <1>5, <1>6, <1>7

\* A write that succeeded frees its slot.
LEMMA KeysAnswered ==
  ASSUME FocusTypeOK, KeysInv, NEW d \in Devices, WriteAnswered(d)
  PROVE  KeysInv'
<1> DEFINE o == mirror[d]
           q == req[d]
           r == q.record
           m == Confirmed(o, q)
<1>1. /\ KeyPart(o, reader[d], q, receipt[d], keys[d]) /\ o \in MirrorStates
      /\ q \in Requests /\ keys[d] \in Nat
  BY DEF KeysInv, FocusTypeOK
<1>2. r \in Records /\ DeviceMoves(d, m, reader[d], NoReq)
  BY AnsweredMoves
<1>3. UNCHANGED <<keys, receipt, late>>
  BY DEF WriteAnswered, serverVars
<1>4. q # NoReq /\ o.pc = r /\ o.loaded
  BY <1>1, <1>2, Beginnings, Parts DEF KeyPart
<1>5. /\ m.loaded /\ m.pc = AfterRecord(r) /\ m.waiting = o.waiting
      /\ \A x \in Records : m.slot[x] = IF x = r THEN [write |-> NoWrite, key |-> 0]
                                        ELSE o.slot[x]
  BY <1>1, <1>2, <1>4, ConfirmedFacts
<1> HIDE DEF m
<1>6. KeyPart(m, reader[d], NoReq, receipt[d], keys[d])
  BY <1>1, <1>2, <1>5, Parts DEF KeyPart
<1>7. \A p \in late : p.from = d => LatePart(p, m, keys[d])
  BY <1>2, <1>5 DEF LatePart, KeysInv
<1>8. \A e \in Devices : KeyPart(mirror[e], reader[e], req[e], receipt[e], keys[e])'
  BY <1>2, <1>3, <1>6 DEF DeviceMoves, FocusTypeOK, KeysInv
<1>9. \A p \in late' : LatePart(p, mirror'[p.from], keys'[p.from])
  BY <1>2, <1>3, <1>7 DEF DeviceMoves, FocusTypeOK, KeysInv, LateWrites
<1> QED
  BY <1>8, <1>9 DEF KeysInv

\* A push gives its write a key no slot, receipt or late write has, unless the
\* slot holds the same write.
LEMMA KeysSent ==
  ASSUME FocusTypeOK, KeysInv, NEW d \in Devices, NEW r \in Records, PushRecord(d, r),
         Changed(d, r) # {}
  PROVE  KeysInv'
<1> DEFINE o == mirror[d]
           w == PushWrite(d, r)
           k == PushKey(d, r)
           m == Sending(o, r, w, k)
           q == Sent(r, w, k)
           n == IF k > keys[d] THEN k ELSE keys[d]
<1>1. /\ KeyPart(o, reader[d], req[d], receipt[d], keys[d]) /\ o \in MirrorStates
      /\ keys[d] \in Nat
  BY DEF KeysInv, FocusTypeOK
<1>2. DeviceMoves(d, m, reader[d], q) /\ keys' = [keys EXCEPT ![d] = n]
  BY PushSends
<1>3. UNCHANGED <<receipt, late>> /\ o.pc = r
  BY DEF PushRecord, serverVars
<1>4. /\ w.items \subseteq ItemsOf[r] /\ w.items # {} /\ k \in Nat
  BY PushFacts
<1>5. /\ m.loaded = o.loaded /\ m.pc = o.pc /\ m.waiting = o.waiting
      /\ \A x \in Records : m.slot[x] = IF x = r THEN [write |-> w, key |-> k] ELSE o.slot[x]
  BY <1>1, SendingFacts
<1>6. q.record = r /\ q.answer = "sent" /\ q.key = k /\ q.write = w
  BY DEF Sent
<1>7. \/ k = keys[d] + 1
      \/ o.slot[r].write = w /\ o.slot[r].key = k
  BY DEF PushKey
<1>8. k # 0 /\ n \in Nat /\ keys[d] <= n /\ k <= n
  <2>1. CASE k = keys[d] + 1
    BY <1>1, <2>1
  <2>2. CASE o.slot[r].write = w /\ o.slot[r].key = k
    BY <1>1, <1>4, <2>2, NoWriteFacts DEF KeyPart
  <2> QED
    BY <1>7, <2>1, <2>2
<1>9. \A x \in Records : o.slot[x].key \in Nat
  BY <1>1 DEF MirrorStates, Slots
<1>10. \A x \in Records : receipt[d][x].key \in Nat
  BY DEF FocusTypeOK
<1>11. m.slot["ink"].key # m.slot["notes"].key \/ m.slot["ink"].key = 0
  <2>1. CASE k = keys[d] + 1
    BY <1>1, <1>5, <1>9, <2>1, Parts DEF KeyPart
  <2>2. CASE o.slot[r].write = w /\ o.slot[r].key = k
    BY <1>1, <1>5, <2>2, Parts DEF KeyPart
  <2> QED
    BY <1>7, <2>1, <2>2
<1>12. \A x \in Records : IF m.slot[x].key = 0 THEN m.slot[x].write = NoWrite
                          ELSE m.slot[x].write.items \subseteq ItemsOf[x]
  BY <1>1, <1>4, <1>5, <1>8 DEF KeyPart
<1>13. \A x \in Records : m.slot[x].key <= n /\ receipt[d][x].key <= n
  BY <1>1, <1>5, <1>8, <1>9, <1>10 DEF KeyPart
<1> HIDE DEF m, q, w, k, n
<1>14. KeyPart(m, reader[d], q, receipt[d], n)
  BY <1>1, <1>3, <1>5, <1>6, <1>8, <1>11, <1>12, <1>13 DEF KeyPart
<1>15. ASSUME NEW p \in late, p.from = d
       PROVE  LatePart(p, m, n)
  <2>1. LatePart(p, o, keys[d]) /\ p.key \in Nat
    BY <1>15 DEF KeysInv, FocusTypeOK, LateWrites
  <2>2. \A x \in Records : m.slot[x].key = p.key => x = p.record /\ m.slot[x].write = p.write
    <3>1. CASE k = keys[d] + 1
      BY <1>1, <1>5, <2>1, <3>1 DEF LatePart
    <3>2. CASE o.slot[r].write = w /\ o.slot[r].key = k
      BY <1>5, <2>1, <3>2 DEF LatePart
    <3> QED
      BY <1>7, <3>1, <3>2
  <2> QED
    BY <1>1, <1>8, <2>1, <2>2 DEF LatePart
<1>16. \A e \in Devices : KeyPart(mirror[e], reader[e], req[e], receipt[e], keys[e])'
  BY <1>2, <1>3, <1>14 DEF DeviceMoves, FocusTypeOK, KeysInv
<1>17. \A p \in late' : LatePart(p, mirror'[p.from], keys'[p.from])
  BY <1>2, <1>3, <1>15 DEF DeviceMoves, FocusTypeOK, KeysInv, LateWrites
<1> QED
  BY <1>16, <1>17 DEF KeysInv

LEMMA KeysHandled ==
  ASSUME FocusTypeOK, KeysInv, NEW d \in Devices, HandleWrite(d)
  PROVE  KeysInv'
<1> DEFINE o == mirror[d]
           q == req[d]
           r == q.record
<1>1. /\ KeyPart(o, reader[d], q, receipt[d], keys[d]) /\ o \in MirrorStates
      /\ q \in Requests /\ keys[d] \in Nat /\ Kept(o, o)
  BY DEF KeysInv, FocusTypeOK, Kept
<1>2. r \in Records /\ q # NoReq /\ o.slot[r] = [write |-> q.write, key |-> q.key]
  BY <1>1, HandleMoves, Beginnings, Parts DEF KeyPart
<1>3. UNCHANGED <<keys, late>>
  BY DEF HandleWrite
<1>4. q.key <= keys[d]
  <2>1. o.slot[r].key = q.key
    BY <1>2
  <2> QED
    BY <1>1, <1>2, <2>1 DEF KeyPart
<1>5. ASSUME NEW e \in Devices, NEW x \in Records
      PROVE  receipt'[e][x].key <= keys[e]
  <2>1. receipt[e][x].key <= keys[e]
    BY DEF KeysInv, KeyPart
  <2>2. CASE UNCHANGED receipt
    BY <2>1, <2>2
  <2>3. CASE ApplyWrite(d, q)
    <3>1. /\ receipt'[d][r] = [key |-> q.key, rev |-> rev'[r]]
          /\ e # d \/ x # r => receipt'[e][x] = receipt[e][x]
      BY <1>1, <1>2, <2>3, ApplyFacts DEF Requests
    <3> QED
      BY <1>4, <2>1, <3>1
  <2> QED
    BY <2>2, <2>3, HandleMoves
<1>6. PICK a \in Requests : /\ DeviceMoves(d, o, reader[d], a) /\ a.answer # "none"
                            /\ a.record = r /\ a.write = q.write /\ a.key = q.key
  <2> DEFINE Good(a) == /\ a.answer # "none" /\ a.record = r /\ a.write = q.write
                        /\ a.key = q.key
  <2>1. Good(Answered(q, rev'[r])) /\ Good(Answered(q, receipt[d][r].rev))
    BY <1>1 DEF Answered, Requests
  <2>2. Good([q EXCEPT !.answer = "conflict"])
    BY <1>1 DEF Requests
  <2>3. \E a : Good(a) /\ DeviceMoves(d, o, reader[d], a)
    <3> HIDE DEF Good
    <3> QED
      BY <2>1, <2>2, HandleMoves
  <2> QED
    BY <2>3 DEF DeviceMoves
<1>7. /\ o.pc # "idle" \/ o.waiting => o.loaded
      /\ reader[d].pc \in {"load", "refresh"} \/ reader[d].group = 0
  BY <1>1 DEF KeyPart
<1> QED
  BY <1>2, <1>3, <1>5, <1>6, <1>7, KeysQuiet

LEMMA KeysStep == FocusTypeOK /\ KeysInv /\ [Next]_vars => KeysInv'
<1> SUFFICES ASSUME FocusTypeOK, KeysInv, [Next]_vars PROVE KeysInv'
  OBVIOUS
<1>0. ASSUME NEW d \in Devices
      PROVE  /\ KeyPart(mirror[d], reader[d], req[d], receipt[d], keys[d])
             /\ mirror[d] \in MirrorStates /\ reader[d] \in ReaderStates
             /\ req[d] \in Requests /\ (req[d] = NoReq \/ req[d].answer # "none")
             /\ mirror[d].pc # "idle" \/ mirror[d].waiting => mirror[d].loaded
             /\ \A r \in Records : receipt[d][r].key <= keys[d]
  BY DEF KeysInv, FocusTypeOK, KeyPart
<1>1. ASSUME NEW d \in Devices, NEW m, NEW rd, NEW q, Quiet(d, m, rd, q) PROVE KeysInv'
  <2>1. DeviceMoves(d, m, rd, q) /\ UNCHANGED <<receipt, keys>>
    BY <1>1 DEF Quiet
  <2>2. m.slot = mirror[d].slot \/ m = FreshMirror
    BY <1>1 DEF Quiet, Kept
  <2>3. \/ q = NoReq
        \/ /\ req[d] # NoReq /\ q.answer # "none" /\ q.record = req[d].record
           /\ q.write = req[d].write /\ q.key = req[d].key
           /\ m.slot = mirror[d].slot /\ m.pc = mirror[d].pc
    BY <1>0, <1>1 DEF Quiet, Kept
  <2> QED
    BY <1>0, <1>1, <2>1, <2>2, <2>3, KeysQuiet DEF Quiet
<1>2. ASSUME NEW d \in Devices, ReadGroup(d) PROVE KeysInv'
  <2> DEFINE rd == AfterGroup(reader[d], server, rev)
  <2>1. DeviceMoves(d, mirror[d], rd, req[d]) /\ UNCHANGED <<keys, receipt, late>>
    BY <1>2, ReadGroupMoves DEF ReadGroup, serverVars
  <2>2. rd.pc \in {"load", "refresh"}
    <3>1. rd.pc = reader[d].pc
      BY <1>0, AfterGroupFacts DEF FocusTypeOK
    <3> HIDE DEF rd
    <3> QED
      BY <1>2, <3>1 DEF ReadGroup, Loading
  <2> HIDE DEF rd
  <2> QED
    BY <1>0, <2>1, <2>2, KeysQuiet
<1>3. ASSUME NEW d \in Devices, Reconcile(d) PROVE KeysInv'
  <2> DEFINE m == Reconciled(mirror[d], reader[d], SetsBack(d))
  <2>1. DeviceMoves(d, m, IdleReader, req[d]) /\ UNCHANGED <<keys, receipt, late>>
    BY <1>3, ReconcileMoves DEF Reconcile, serverVars
  <2>2. m.loaded /\ m.slot = mirror[d].slot /\ m.pc = mirror[d].pc
    BY <1>0, ReconciledFacts DEF SetsBack
  <2> HIDE DEF m
  <2> QED
    BY <1>0, <2>1, <2>2, KeysQuiet, Beginnings
<1>4. ASSUME NEW q \in late, HandleLate(q) PROVE KeysInv'
  <2>1. /\ q.from \in Devices /\ q.record \in Records /\ q.write \in Writes /\ q.key \in Nat
        /\ q.key <= keys[q.from]
    BY DEF FocusTypeOK, LateWrites, KeysInv, LatePart
  <2>2. late' \subseteq late /\ UNCHANGED <<mirror, reader, req, keys>>
    BY <1>4 DEF HandleLate
  <2>3. ASSUME NEW e \in Devices, NEW x \in Records
        PROVE  receipt'[e][x].key <= keys[e]
    <3>1. CASE UNCHANGED receipt
      BY <1>0, <3>1
    <3>2. CASE ApplyWrite(q.from, q)
      <4>1. /\ receipt'[q.from][q.record].key = q.key
            /\ (e # q.from \/ x # q.record => receipt'[e][x] = receipt[e][x])
        <5>1. receipt'[q.from][q.record] = [key |-> q.key, rev |-> rev'[q.record]]
              /\ (e # q.from \/ x # q.record => receipt'[e][x] = receipt[e][x])
          BY <2>1, <3>2, ApplyFacts
        <5> QED
          BY <5>1
      <4> QED
        BY <1>0, <2>1, <4>1
    <3> QED
      BY <1>4, <3>1, <3>2 DEF HandleLate
  <2> QED
    BY <2>2, <2>3 DEF KeysInv, KeyPart
<1>5. CASE UNCHANGED vars
  BY <1>5 DEF vars, serverVars, KeysInv
<1> QED
  BY <1>1, <1>2, <1>3, <1>4, <1>5, KeysHandled, KeysAnswered, KeysSent, QuietSteps DEF Loud

-----------------------------------------------------------------------------
(* Revisions *)

\* A reader has read the part of the sheet a record holds.
HasRead(rd, r) ==
  rd.pc \in {"load", "refresh"} /\ rd.group > (IF r = "notes" THEN 0 ELSE LastGroup)

\* What is known of a write the server has applied with the result v, while
\* nothing has been written since: its items are on the server, and a mirror or
\* a reader at the revision it expected knows the rest.
Given(m, rd, n, s, r, w, v) ==
  /\ v \in {w.expected, w.expected + 1}
  /\ v = n =>
       /\ \A i \in w.items : s[i] = w.content[i]
       /\ m.loaded /\ ~m.setBack /\ m.rev[r] = w.expected
            => \A i \in ItemsOf[r] \ w.items : m.synced[i] = s[i]
       /\ HasRead(rd, r) /\ rd.rev[r] = w.expected
            => \A i \in ItemsOf[r] \ w.items : rd.got[i] = s[i]

\* What a device with the mirror m, the reader rd, the request q and the
\* receipt rc knows of a record at the server's revision n and content s.
SyncPart(m, rd, q, rc, n, s, r) ==
  /\ m.rev[r] <= n /\ rd.rev[r] <= n /\ rc.rev <= n
  /\ m.loaded /\ ~m.setBack /\ m.rev[r] = n => \A i \in ItemsOf[r] : m.synced[i] = s[i]
  /\ HasRead(rd, r) /\ rd.rev[r] = n => \A i \in ItemsOf[r] : rd.got[i] = s[i]
  /\ m.slot[r].key # 0 /\ m.slot[r].key = rc.key
       => Given(m, rd, n, s, r, m.slot[r].write, rc.rev)
  /\ q.record = r =>
       /\ q.answer = "done" => q.rev <= n /\ Given(m, rd, n, s, r, q.write, q.rev)
       /\ ~m.setBack => q.write.expected <= m.rev[r]

SyncInv ==
  \A d \in Devices, r \in Records :
    SyncPart(mirror[d], reader[d], req[d], receipt[d][r], rev[r], server, r)


Receipts == [key : Nat, rev : Nat]

\* What is known stays known while the mirror, the reader and the request are
\* what they were or know nothing.
LEMMA SyncKept ==
  ASSUME NEW m \in MirrorStates, NEW m1 \in MirrorStates, NEW rd \in ReaderStates,
         NEW rd1 \in ReaderStates, NEW q \in Requests, NEW q1 \in Requests, NEW rc \in Receipts,
         NEW n \in Nat, NEW s \in Copies, NEW r \in Records,
         SyncPart(m, rd, q, rc, n, s, r),
         Kept(m, m1) \/ (m1 = FreshMirror /\ q1.record # r),
         rd1 = rd \/ (rd1.group = 0 /\ rd1.rev[r] <= n),
         q1 = q \/ q1.record # r
  PROVE  SyncPart(m1, rd1, q1, rc, n, s, r)
<1>1. HasRead(rd1, r) => rd1 = rd
  BY Parts DEF HasRead, ReaderStates
<1>2. CASE Kept(m, m1)
  <2>1. ASSUME NEW w, NEW v, Given(m, rd, n, s, r, w, v)
        PROVE  Given(m1, rd1, n, s, r, w, v)
    BY <1>1, <1>2, <2>1 DEF Given, Kept
  <2>2. /\ m1.rev[r] <= n /\ rd1.rev[r] <= n /\ rc.rev <= n
        /\ m1.loaded /\ ~m1.setBack /\ m1.rev[r] = n
             => \A i \in ItemsOf[r] : m1.synced[i] = s[i]
        /\ HasRead(rd1, r) /\ rd1.rev[r] = n => \A i \in ItemsOf[r] : rd1.got[i] = s[i]
    BY <1>1, <1>2 DEF SyncPart, Kept
  <2>3. m1.slot[r].key # 0 /\ m1.slot[r].key = rc.key
          => Given(m1, rd1, n, s, r, m1.slot[r].write, rc.rev)
    BY <1>2, <2>1 DEF SyncPart, Kept
  <2>4. q1.record = r => /\ q1.answer = "done" => q1.rev <= n /\ Given(m1, rd1, n, s, r, q1.write, q1.rev)
                         /\ ~m1.setBack => q1.write.expected <= m1.rev[r]
    BY <1>2, <2>1 DEF SyncPart, Kept
  <2> QED
    BY <2>2, <2>3, <2>4 DEF SyncPart
<1>3. CASE m1 = FreshMirror /\ q1.record # r
  <2>1. ~m1.loaded /\ m1.rev[r] = 0 /\ m1.slot[r].key = 0
    BY <1>3, Beginnings, Empties
  <2>2. rd1.rev[r] <= n /\ rc.rev <= n
    BY DEF SyncPart
  <2>3. HasRead(rd1, r) /\ rd1.rev[r] = n => \A i \in ItemsOf[r] : rd1.got[i] = s[i]
    BY <1>1 DEF SyncPart
  <2> QED
    BY <1>3, <2>1, <2>2, <2>3 DEF SyncPart
<1> QED
  BY <1>2, <1>3

\* A write by another device raises the revision or changes nothing.
LEMMA SyncGrown ==
  ASSUME NEW m \in MirrorStates, NEW rd \in ReaderStates, NEW q \in Requests,
         NEW rc \in Receipts, NEW n \in Nat, NEW s \in Copies, NEW n1 \in Nat, NEW s1 \in Copies,
         NEW r \in Records, SyncPart(m, rd, q, rc, n, s, r),
         n <= n1, n1 = n => \A i \in ItemsOf[r] : s1[i] = s[i],
         m.slot[r].key # 0 => m.slot[r].write.items \subseteq ItemsOf[r],
         q.record = r => q.write.items \subseteq ItemsOf[r]
  PROVE  SyncPart(m, rd, q, rc, n1, s1, r)
<1>0. m.rev[r] \in Nat /\ rd.rev[r] \in Nat /\ rc.rev \in Nat /\ q.rev \in Nat
  BY DEF MirrorStates, ReaderStates, Receipts, Requests
<1>1. ASSUME NEW w, w.items \subseteq ItemsOf[r], NEW v \in Nat, v <= n, Given(m, rd, n, s, r, w, v)
      PROVE  Given(m, rd, n1, s1, r, w, v)
  BY <1>1 DEF Given
<1>2. /\ m.rev[r] <= n1 /\ rd.rev[r] <= n1 /\ rc.rev <= n1
      /\ m.loaded /\ ~m.setBack /\ m.rev[r] = n1 => \A i \in ItemsOf[r] : m.synced[i] = s1[i]
      /\ HasRead(rd, r) /\ rd.rev[r] = n1 => \A i \in ItemsOf[r] : rd.got[i] = s1[i]
  BY <1>0 DEF SyncPart
<1>3. m.slot[r].key # 0 /\ m.slot[r].key = rc.key
        => Given(m, rd, n1, s1, r, m.slot[r].write, rc.rev)
  BY <1>0, <1>1 DEF SyncPart
<1>4. q.record = r => /\ q.answer = "done" => q.rev <= n1 /\ Given(m, rd, n1, s1, r, q.write, q.rev)
                      /\ ~m.setBack => q.write.expected <= m.rev[r]
  BY <1>0, <1>1 DEF SyncPart
<1> QED
  BY <1>2, <1>3, <1>4 DEF SyncPart

\* A write the server has just applied.
LEMMA GivenNow ==
  ASSUME NEW m \in MirrorStates, NEW rd \in ReaderStates, NEW q, NEW rc, NEW n \in Nat, NEW s,
         NEW n1 \in Nat, NEW s1, NEW r \in Records, NEW w, SyncPart(m, rd, q, rc, n, s, r),
         w.expected = n, n1 \in {n, n + 1},
         \A i \in w.items : s1[i] = w.content[i],
         \A i \in ItemsOf[r] \ w.items : s1[i] = s[i]
  PROVE  Given(m, rd, n1, s1, r, w, n1)
BY DEF Given, SyncPart

LEMMA SyncBegin == Init => SyncInv
<1> SUFFICES ASSUME Init, NEW d \in Devices, NEW r \in Records
             PROVE  SyncPart(mirror[d], reader[d], req[d], receipt[d][r], rev[r], server, r)
  BY DEF SyncInv
<1>1. /\ mirror[d] = FreshMirror /\ reader[d] = IdleReader /\ req[d] = NoReq
      /\ receipt[d][r] = [key |-> 0, rev |-> 0] /\ rev[r] = 0
  BY Empties DEF Init
<1>2. ~HasRead(IdleReader, r) /\ NoReq.record # r
  BY Beginnings, Parts DEF HasRead
<1> QED
  BY <1>1, <1>2, Beginnings, Empties DEF SyncPart

\* The server applies a write of device d, awaited or late.
LEMMA SyncApplied ==
  ASSUME FocusTypeOK, KeysInv, SyncInv, NEW d \in Devices, NEW p, p.record \in Records,
         p.write \in Writes, p.key \in Nat, p.write.items \subseteq ItemsOf[p.record],
         \A r \in Records : mirror[d].slot[r].key = p.key
                              => r = p.record /\ mirror[d].slot[r].write = p.write,
         ApplyWrite(d, p), p.write.expected = rev[p.record]
  PROVE  /\ \A e \in Devices, r \in Records :
              SyncPart(mirror[e], reader[e], req[e], receipt'[e][r], rev'[r], server', r)
         /\ Given(mirror[d], reader[d], rev'[p.record], server', p.record, p.write,
                  rev'[p.record])
<1> DEFINE x == p.record
           w == p.write
<1>1. /\ \A i \in Items : server'[i] = IF i \in w.items THEN w.content[i] ELSE server[i]
      /\ rev'[x] \in {rev[x], rev[x] + 1}
      /\ rev'[x] = rev[x] => \A i \in w.items : server'[i] = server[i]
      /\ \A r \in Records : r # x => rev'[r] = rev[r]
      /\ receipt'[d][x] = [key |-> p.key, rev |-> rev'[x]]
      /\ \A e \in Devices, r \in Records : e # d \/ r # x => receipt'[e][r] = receipt[e][r]
  BY ApplyFacts
<1>2. server' \in Copies /\ rev' \in [Records -> Nat]
  BY ApplyType
<1>3. ASSUME NEW r \in Records
      PROVE  /\ rev[r] \in Nat /\ rev'[r] \in Nat /\ rev[r] <= rev'[r]
             /\ rev'[r] = rev[r] => \A i \in ItemsOf[r] : server'[i] = server[i]
  <2>1. rev[r] \in Nat /\ rev'[r] \in Nat
    BY <1>2 DEF FocusTypeOK
  <2>2. CASE r = x
    BY <1>1, <2>1, <2>2, Parts
  <2>3. CASE r # x
    <3>1. \A i \in ItemsOf[r] : i \in Items /\ i \notin w.items
      BY <2>3, Parts
    <3> QED
      BY <1>1, <2>1, <2>3, <3>1
  <2> QED
    BY <2>2, <2>3
<1>4. ASSUME NEW e \in Devices, NEW r \in Records
      PROVE  SyncPart(mirror[e], reader[e], req[e], receipt[e][r], rev'[r], server', r)
  <2>1. /\ mirror[e] \in MirrorStates /\ reader[e] \in ReaderStates /\ req[e] \in Requests
        /\ receipt[e][r] \in Receipts /\ server \in Copies
        /\ SyncPart(mirror[e], reader[e], req[e], receipt[e][r], rev[r], server, r)
        /\ KeyPart(mirror[e], reader[e], req[e], receipt[e], keys[e])
    BY DEF FocusTypeOK, SyncInv, KeysInv, Receipts
  <2>2. mirror[e].slot[r].key # 0 => mirror[e].slot[r].write.items \subseteq ItemsOf[r]
    BY <2>1 DEF KeyPart
  <2>3. req[e].record = r => req[e].write.items \subseteq ItemsOf[r]
    <3> SUFFICES ASSUME req[e].record = r PROVE req[e].write.items \subseteq ItemsOf[r]
      OBVIOUS
    <3>1. req[e] # NoReq
      BY Beginnings, Parts
    <3>2. mirror[e].slot[r] = [write |-> req[e].write, key |-> req[e].key] /\ req[e].key # 0
      BY <2>1, <3>1 DEF KeyPart
    <3>3. mirror[e].slot[r].write = req[e].write /\ mirror[e].slot[r].key # 0
      BY <3>2
    <3> QED
      BY <2>2, <3>3
  <2> QED
    BY <1>2, <1>3, <2>1, <2>2, <2>3, SyncGrown
<1>5. Given(mirror[d], reader[d], rev'[x], server', x, w, rev'[x])
  <2>1. /\ mirror[d] \in MirrorStates /\ reader[d] \in ReaderStates
        /\ SyncPart(mirror[d], reader[d], req[d], receipt[d][x], rev[x], server, x)
    BY DEF FocusTypeOK, SyncInv
  <2>2. /\ \A i \in w.items : server'[i] = w.content[i]
        /\ \A i \in ItemsOf[x] \ w.items : server'[i] = server[i]
    BY <1>1, Parts
  <2> QED
    BY <1>1, <1>3, <2>1, <2>2, GivenNow
<1>6. SyncPart(mirror[d], reader[d], req[d], receipt'[d][x], rev'[x], server', x)
  <2>1. SyncPart(mirror[d], reader[d], req[d], receipt[d][x], rev'[x], server', x)
    BY <1>4
  <2>2. receipt'[d][x].key = p.key /\ receipt'[d][x].rev = rev'[x]
    BY <1>1
  <2>3. mirror[d].slot[x].key = p.key => mirror[d].slot[x].write = w
    OBVIOUS
  <2> QED
    BY <1>3, <1>5, <2>1, <2>2, <2>3 DEF SyncPart
<1> QED
  BY <1>1, <1>4, <1>5, <1>6

\* The answer is what the server knows of the write.
LEMMA SyncHandled ==
  ASSUME FocusTypeOK, KeysInv, SyncInv, NEW d \in Devices, HandleWrite(d)
  PROVE  SyncInv'
<1> DEFINE o == mirror[d]
           q == req[d]
           r == q.record
<1>1. /\ o \in MirrorStates /\ q \in Requests /\ rev \in [Records -> Nat]
      /\ KeyPart(o, reader[d], q, receipt[d], keys[d])
      /\ \A e \in Devices, x \in Records :
           SyncPart(mirror[e], reader[e], req[e], receipt[e][x], rev[x], server, x)
  BY DEF FocusTypeOK, KeysInv, SyncInv
<1>2. r \in Records /\ q.answer = "sent" /\ q # NoReq
  BY HandleMoves, Beginnings
<1>3. o.slot[r].write = q.write /\ o.slot[r].key = q.key /\ q.key # 0
  <2>1. o.slot[r] = [write |-> q.write, key |-> q.key] /\ q.key # 0
    BY <1>1, <1>2 DEF KeyPart
  <2> QED
    BY <2>1
<1>4. UNCHANGED <<mirror, reader>>
  BY DEF HandleWrite
\* The new answer a is a refusal, or a result v the server knows.
<1>5. ASSUME NEW a, DeviceMoves(d, o, reader[d], a),
             a.record = r, a.write = q.write,
             a.answer = "done" =>
               /\ a.rev <= rev'[r]
               /\ Given(o, reader[d], rev'[r], server', r, q.write, a.rev),
             \A e \in Devices, x \in Records :
               SyncPart(mirror[e], reader[e], req[e], receipt'[e][x], rev'[x], server', x)
      PROVE  SyncInv'
  <2>1. ASSUME NEW e \in Devices, NEW x \in Records
        PROVE  SyncPart(mirror[e], reader[e], req'[e], receipt'[e][x], rev'[x], server', x)
    <3>1. SyncPart(mirror[e], reader[e], req[e], receipt'[e][x], rev'[x], server', x)
      BY <1>5
    <3>2. CASE e # d
      BY <1>5, <3>1, <3>2 DEF DeviceMoves, FocusTypeOK
    <3>3. CASE e = d
      <4>1. req'[d] = a
        BY <1>5 DEF DeviceMoves, FocusTypeOK
      <4> QED
        BY <1>5, <3>1, <3>3, <4>1 DEF SyncPart
    <3> QED
      BY <3>2, <3>3
  <2> QED
    BY <1>4, <2>1 DEF SyncInv
<1>6. CASE Fits(d, q) /\ ApplyWrite(d, q) /\ DeviceMoves(d, o, reader[d], Answered(q, rev'[r]))
  <2>1. /\ q.write \in Writes /\ q.key \in Nat /\ q.write.expected = rev[r]
        /\ q.write.items \subseteq ItemsOf[r]
    BY <1>1, <1>2, <1>3, <1>6 DEF Requests, Fits, KeyPart
  <2>2. \A x \in Records : o.slot[x].key = q.key => x = r /\ o.slot[x].write = q.write
    BY <1>1, <1>2, <1>3, Parts DEF KeyPart
  <2>3. /\ \A e \in Devices, x \in Records :
             SyncPart(mirror[e], reader[e], req[e], receipt'[e][x], rev'[x], server', x)
        /\ Given(o, reader[d], rev'[r], server', r, q.write, rev'[r])
    BY <1>2, <1>6, <2>1, <2>2, SyncApplied
  <2>4. /\ Answered(q, rev'[r]).record = r /\ Answered(q, rev'[r]).write = q.write
        /\ Answered(q, rev'[r]).rev = rev'[r]
    BY <1>1 DEF Answered, Requests
  <2>5. rev'[r] <= rev'[r]
    <3>1. rev'[r] \in Nat
      BY <1>2, <1>6, <2>1, ApplyType
    <3> QED
      BY <3>1
  <2> QED
    BY <1>5, <1>6, <2>3, <2>4, <2>5
<1>7. CASE /\ receipt[d][r].key = q.key /\ UNCHANGED <<server, rev, receipt>>
           /\ DeviceMoves(d, o, reader[d], Answered(q, receipt[d][r].rev))
  <2> DEFINE v == receipt[d][r].rev
  <2>1. v <= rev[r] /\ Given(o, reader[d], rev[r], server, r, q.write, v)
    <3>1. SyncPart(o, reader[d], req[d], receipt[d][r], rev[r], server, r)
      BY <1>1, <1>2
    <3>2. o.slot[r].key # 0 /\ o.slot[r].key = receipt[d][r].key /\ o.slot[r].write = q.write
      BY <1>1, <1>3, <1>7
    <3> HIDE DEF q, o, r
    <3> QED
      BY <3>1, <3>2 DEF SyncPart
  <2>2. Answered(q, v).record = r /\ Answered(q, v).write = q.write /\ Answered(q, v).rev = v
    BY <1>1 DEF Answered, Requests
  <2> QED
    BY <1>1, <1>5, <1>7, <2>1, <2>2
<1>8. CASE /\ UNCHANGED <<server, rev, receipt>>
           /\ DeviceMoves(d, o, reader[d], [q EXCEPT !.answer = "conflict"])
  <2> DEFINE a == [q EXCEPT !.answer = "conflict"]
  <2>1. a.record = r /\ a.write = q.write /\ a.answer = "conflict"
    BY <1>1 DEF Requests
  <2> HIDE DEF a
  <2>2. DeviceMoves(d, o, reader[d], a)
    BY <1>8 DEF a
  <2> QED
    BY <1>1, <1>5, <1>8, <2>1, <2>2
<1> QED
  BY <1>6, <1>7, <1>8, HandleMoves

\* A step of device d that the server does not see: what the device knows then
\* is all there is to show.
LEMMA SyncMoved ==
  ASSUME FocusTypeOK, SyncInv, NEW d \in Devices, NEW m, NEW rd, NEW q, DeviceMoves(d, m, rd, q),
         UNCHANGED <<server, rev, receipt>>,
         \A r \in Records : SyncPart(m, rd, q, receipt[d][r], rev[r], server, r)
  PROVE  SyncInv'
<1>1. ASSUME NEW e \in Devices, NEW r \in Records
      PROVE  SyncPart(mirror'[e], reader'[e], req'[e], receipt[e][r], rev[r], server, r)
  <2>1. CASE e = d
    BY <2>1 DEF DeviceMoves, FocusTypeOK
  <2>2. CASE e # d
    <3>1. mirror'[e] = mirror[e] /\ reader'[e] = reader[e] /\ req'[e] = req[e]
      BY <2>2 DEF DeviceMoves, FocusTypeOK
    <3> QED
      BY <3>1 DEF SyncInv
  <2> QED
    BY <2>1, <2>2
<1> QED
  BY <1>1 DEF SyncInv

\* A group of pages read is what the server holds of it, and with one group it
\* is all the ink.
LEMMA SyncRead ==
  ASSUME LastGroup = 1, FocusTypeOK, SyncInv, NEW d \in Devices, ReadGroup(d)
  PROVE  SyncInv'
<1> DEFINE o == mirror[d]
           rd == reader[d]
           q == req[d]
           t == AfterGroup(rd, server, rev)
           x == GroupRecord(rd)
<1>1. /\ rd \in ReaderStates /\ server \in Copies /\ rev \in [Records -> Nat]
      /\ x \in Records /\ rd.group \in Nat /\ rd.group <= 1
      /\ rd.pc \in {"load", "refresh"}
  BY Parts DEF FocusTypeOK, GroupRecord, ReadGroup, Loading, ReaderStates
<1>2. GroupItems(rd) = ItemsOf[x]
  <2>1. Ink = Groups[1]
    BY DEF Ink
  <2> QED
    BY <1>1, <2>1, Parts DEF GroupItems, GroupRecord
<1>3. /\ t.pc = rd.pc /\ t.group = rd.group + 1
      /\ \A i \in Items : t.got[i] = IF i \in ItemsOf[x] THEN server[i] ELSE rd.got[i]
      /\ \A r \in Records : t.rev[r] = IF r = x THEN rev[r] ELSE rd.rev[r]
  BY <1>1, <1>2, AfterGroupFacts
<1>4. DeviceMoves(d, o, t, q) /\ UNCHANGED <<server, rev, receipt>>
  BY ReadGroupMoves DEF ReadGroup, serverVars
<1> HIDE DEF t
<1>5. ASSUME NEW r \in Records
      PROVE  SyncPart(o, t, q, receipt[d][r], rev[r], server, r)
  <2>1. SyncPart(o, rd, q, receipt[d][r], rev[r], server, r) /\ rev[r] \in Nat
    BY <1>1 DEF SyncInv
  <2>2. CASE r = x
    <3>1. t.rev[r] = rev[r] /\ \A i \in ItemsOf[r] : t.got[i] = server[i]
      BY <1>3, <2>2, Parts
    <3>2. ASSUME NEW w, NEW v, Given(o, rd, rev[r], server, r, w, v)
          PROVE  Given(o, t, rev[r], server, r, w, v)
      BY <3>1, <3>2 DEF Given
    <3> QED
      BY <2>1, <3>1, <3>2 DEF SyncPart
  <2>3. CASE r # x
    <3>1. t.rev[r] = rd.rev[r] /\ \A i \in ItemsOf[r] : t.got[i] = rd.got[i]
      BY <1>1, <1>3, <2>3, Parts
    <3>2. HasRead(t, r) => HasRead(rd, r)
      BY <1>1, <1>3, <2>3, Parts DEF HasRead, GroupRecord
    <3>3. ASSUME NEW w, NEW v, Given(o, rd, rev[r], server, r, w, v)
          PROVE  Given(o, t, rev[r], server, r, w, v)
      BY <3>1, <3>2, <3>3 DEF Given
    <3> QED
      BY <2>1, <3>1, <3>2, <3>3 DEF SyncPart
  <2> QED
    BY <2>2, <2>3
<1> QED
  BY <1>4, <1>5, SyncMoved

\* The mirror takes over what the reader has read.  A load older than the write
\* under way sets it back.
LEMMA SyncReconciled ==
  ASSUME FocusTypeOK, SyncInv, NEW d \in Devices, Reconcile(d)
  PROVE  SyncInv'
<1> DEFINE o == mirror[d]
           rd == reader[d]
           q == req[d]
           b == SetsBack(d)
           t == Reconciled(o, rd, b)
<1>1. /\ o \in MirrorStates /\ rd \in ReaderStates /\ q \in Requests /\ b \in BOOLEAN
      /\ rev \in [Records -> Nat] /\ rd.group \in Nat
  BY DEF FocusTypeOK, SetsBack, ReaderStates
<1>2. /\ t.loaded /\ t.synced = rd.got /\ t.rev = rd.rev /\ t.setBack = b /\ t.slot = o.slot
  BY <1>1, ReconciledFacts
<1>3. \A r \in Records : HasRead(rd, r) /\ ~HasRead(IdleReader, r)
  <2>1. rd.pc \in {"load", "refresh"} /\ rd.group > LastGroup
    BY DEF Reconcile, Loading
  <2> QED
    BY <1>1, <2>1, Beginnings, Parts DEF HasRead
<1>4. DeviceMoves(d, t, IdleReader, q) /\ UNCHANGED <<server, rev, receipt>>
  BY ReconcileMoves DEF Reconcile, serverVars
<1>5. \A r \in Records : IdleReader.rev[r] = 0 /\ rev[r] \in Nat /\ rd.rev[r] \in Nat
  BY <1>1, Beginnings, Empties DEF ReaderStates
<1> HIDE DEF t
<1>6. ASSUME NEW r \in Records
      PROVE  SyncPart(t, IdleReader, q, receipt[d][r], rev[r], server, r)
  <2>1. SyncPart(o, rd, q, receipt[d][r], rev[r], server, r)
    BY DEF SyncInv
  <2>2. ASSUME NEW w, NEW v, Given(o, rd, rev[r], server, r, w, v)
        PROVE  Given(t, IdleReader, rev[r], server, r, w, v)
    BY <1>2, <1>3, <2>2 DEF Given
  <2>3. /\ t.rev[r] <= rev[r] /\ IdleReader.rev[r] <= rev[r] /\ receipt[d][r].rev <= rev[r]
        /\ t.rev[r] = rev[r] => \A i \in ItemsOf[r] : t.synced[i] = server[i]
    BY <1>2, <1>3, <1>5, <2>1 DEF SyncPart
  <2>4. q.record = r /\ ~b => q.write.expected <= rd.rev[r]
    <3>1. q.write.expected \in Nat
      BY <1>1 DEF Requests, Writes
    <3> QED
      BY <1>5, <3>1 DEF SetsBack
  <2>5. t.slot[r].key # 0 /\ t.slot[r].key = receipt[d][r].key
          => Given(t, IdleReader, rev[r], server, r, t.slot[r].write, receipt[d][r].rev)
    BY <1>2, <2>1, <2>2 DEF SyncPart
  <2>6. q.record = r =>
          /\ q.answer = "done" => q.rev <= rev[r] /\ Given(t, IdleReader, rev[r], server, r, q.write, q.rev)
          /\ ~t.setBack => q.write.expected <= t.rev[r]
    BY <1>2, <2>1, <2>2, <2>4 DEF SyncPart
  <2> QED
    BY <1>3, <2>3, <2>5, <2>6 DEF SyncPart
<1> QED
  BY <1>4, <1>6, SyncMoved

\* A write that is sent expects the mirror's revision, and has no receipt yet
\* unless its slot is what it was.
LEMMA SyncSent ==
  ASSUME FocusTypeOK, KeysInv, SyncInv, NEW d \in Devices, NEW x \in Records,
         PushRecord(d, x), Changed(d, x) # {}
  PROVE  SyncInv'
<1> DEFINE o == mirror[d]
           rd == reader[d]
           w == PushWrite(d, x)
           k == PushKey(d, x)
           t == Sending(o, x, w, k)
           q == Sent(x, w, k)
<1>1. /\ o \in MirrorStates /\ rev \in [Records -> Nat] /\ keys[d] \in Nat
      /\ KeyPart(o, rd, req[d], receipt[d], keys[d])
      /\ receipt \in [Devices -> [Records -> Receipts]]
  BY DEF FocusTypeOK, KeysInv, Receipts
<1>2. DeviceMoves(d, t, rd, q) /\ UNCHANGED <<server, rev, receipt>>
  BY PushSends DEF PushRecord, serverVars
<1>3. /\ t.loaded = o.loaded /\ t.synced = o.synced /\ t.rev = o.rev /\ t.setBack = o.setBack
      /\ \A r \in Records : t.slot[r] = IF r = x THEN [write |-> w, key |-> k] ELSE o.slot[r]
  BY <1>1, SendingFacts
<1>4. q.record = x /\ q.answer = "sent" /\ q.write = w /\ w.expected = o.rev[x]
  BY PushFacts DEF Sent
<1>5. \/ k = keys[d] + 1
      \/ o.slot[x].write = w /\ o.slot[x].key = k
  BY DEF PushKey
<1>6. \A r \in Records : receipt[d][r].key \in Nat /\ receipt[d][r].key <= keys[d]
  BY <1>1 DEF KeyPart, Receipts
<1>7. o.rev[x] \in Nat
  BY <1>1 DEF MirrorStates
<1> HIDE DEF t, q, w, k
<1>8. ASSUME NEW r \in Records
      PROVE  SyncPart(t, rd, q, receipt[d][r], rev[r], server, r)
  <2>1. SyncPart(o, rd, req[d], receipt[d][r], rev[r], server, r)
    BY DEF SyncInv
  <2>2. ASSUME NEW u, NEW v, Given(o, rd, rev[r], server, r, u, v)
        PROVE  Given(t, rd, rev[r], server, r, u, v)
    BY <1>3, <2>2 DEF Given
  <2>3. t.slot[r].key # 0 /\ t.slot[r].key = receipt[d][r].key
          => Given(t, rd, rev[r], server, r, t.slot[r].write, receipt[d][r].rev)
    <3>1. CASE r # x \/ (o.slot[x].write = w /\ o.slot[x].key = k)
      <4>1. t.slot[r].key = o.slot[r].key /\ t.slot[r].write = o.slot[r].write
        BY <1>3, <3>1
      <4> QED
        BY <2>1, <2>2, <4>1 DEF SyncPart
    <3>2. CASE r = x /\ k = keys[d] + 1
      <4>1. t.slot[r].key = k
        BY <1>3, <3>2
      <4> QED
        BY <1>1, <1>6, <3>2, <4>1
    <3> QED
      BY <1>5, <3>1, <3>2
  <2>4. /\ t.rev[r] <= rev[r] /\ rd.rev[r] <= rev[r] /\ receipt[d][r].rev <= rev[r]
        /\ t.loaded /\ ~t.setBack /\ t.rev[r] = rev[r]
             => \A i \in ItemsOf[r] : t.synced[i] = server[i]
        /\ HasRead(rd, r) /\ rd.rev[r] = rev[r] => \A i \in ItemsOf[r] : rd.got[i] = server[i]
    BY <1>3, <2>1 DEF SyncPart
  <2>5. q.record = r => q.answer # "done" /\ q.write.expected <= t.rev[r]
    BY <1>3, <1>4, <1>7
  <2> QED
    BY <2>3, <2>4, <2>5 DEF SyncPart
<1> QED
  BY <1>2, <1>8, SyncMoved

\* A write that succeeded: the mirror is at its result, and holds its items.
LEMMA SyncAnswered ==
  ASSUME FocusTypeOK, KeysInv, SyncInv, NEW d \in Devices, WriteAnswered(d)
  PROVE  SyncInv'
<1> DEFINE o == mirror[d]
           rd == reader[d]
           q == req[d]
           x == q.record
           w == q.write
           t == Confirmed(o, q)
<1>1. /\ o \in MirrorStates /\ q \in Requests /\ rev \in [Records -> Nat]
      /\ KeyPart(o, rd, q, receipt[d], keys[d]) /\ rd \in ReaderStates
  BY DEF FocusTypeOK, KeysInv
<1>2. x \in Records /\ DeviceMoves(d, t, rd, NoReq) /\ q.answer = "done" /\ q # NoReq
  BY AnsweredMoves, Beginnings, Parts DEF WriteAnswered
<1>3. /\ t.loaded = o.loaded /\ t.setBack = o.setBack
      /\ \A i \in Items : t.synced[i] = IF i \in w.items THEN w.content[i] ELSE o.synced[i]
      /\ \A r \in Records : t.rev[r] = IF r = x THEN q.rev ELSE o.rev[r]
      /\ \A r \in Records : t.slot[r] = IF r = x THEN [write |-> NoWrite, key |-> 0]
                                        ELSE o.slot[r]
  BY <1>1, <1>2, ConfirmedFacts
<1>4. w.items \subseteq ItemsOf[x]
  <2>1. o.slot[x] = [write |-> w, key |-> q.key] /\ q.key # 0
    BY <1>1, <1>2 DEF KeyPart
  <2>2. o.slot[x].write = w /\ o.slot[x].key # 0
    BY <2>1
  <2> QED
    BY <1>1, <1>2, <2>2 DEF KeyPart
<1>5. UNCHANGED <<server, rev, receipt>>
  BY DEF WriteAnswered, serverVars
<1>6. \A r \in Records : NoReq.record # r
  BY Beginnings, Parts
<1> HIDE DEF t
<1>7. ASSUME NEW r \in Records, r # x
      PROVE  SyncPart(t, rd, NoReq, receipt[d][r], rev[r], server, r)
  <2>1. SyncPart(o, rd, q, receipt[d][r], rev[r], server, r)
    BY DEF SyncInv
  <2>2. /\ \A i \in ItemsOf[r] : t.synced[i] = o.synced[i]
        /\ t.rev[r] = o.rev[r] /\ t.slot[r] = o.slot[r]
    BY <1>2, <1>3, <1>4, <1>7, Parts
  <2>3. ASSUME NEW u, NEW v, Given(o, rd, rev[r], server, r, u, v)
        PROVE  Given(t, rd, rev[r], server, r, u, v)
    BY <1>3, <2>2, <2>3 DEF Given
  <2> QED
    BY <1>3, <1>6, <2>1, <2>2, <2>3 DEF SyncPart
<1>8. SyncPart(t, rd, NoReq, receipt[d][x], rev[x], server, x)
  <2>1. SyncPart(o, rd, q, receipt[d][x], rev[x], server, x)
    BY <1>2 DEF SyncInv
  <2>2. /\ q.rev <= rev[x] /\ Given(o, rd, rev[x], server, x, w, q.rev)
        /\ ~o.setBack => w.expected <= o.rev[x]
    BY <1>2, <2>1 DEF SyncPart
  <2>3. t.slot[x].key = 0 /\ t.rev[x] = q.rev
    BY <1>2, <1>3
  <2>4. ASSUME t.loaded, ~t.setBack, q.rev = rev[x], NEW i \in ItemsOf[x]
        PROVE  t.synced[i] = server[i]
    <3>1. i \in Items
      BY <1>2, <2>4, Parts
    <3>2. CASE i \in w.items
      BY <1>3, <2>2, <2>4, <3>1, <3>2 DEF Given
    <3>3. CASE i \notin w.items
      <4>1. o.loaded /\ ~o.setBack /\ t.synced[i] = o.synced[i]
        BY <1>3, <2>4, <3>1, <3>3
      <4>2. o.rev[x] \in {w.expected, rev[x]}
        <5>1. o.rev[x] \in Nat /\ w.expected \in Nat /\ rev[x] \in Nat
          BY <1>1, <1>2 DEF MirrorStates, Requests, Writes
        <5>2. /\ w.expected <= o.rev[x] /\ o.rev[x] <= rev[x]
              /\ rev[x] \in {w.expected, w.expected + 1}
          BY <2>1, <2>2, <2>4, <4>1 DEF Given, SyncPart
        <5> QED
          BY <5>1, <5>2
      <4>3. CASE o.rev[x] = w.expected
        BY <2>2, <2>4, <3>3, <4>1, <4>3 DEF Given
      <4>4. CASE o.rev[x] = rev[x]
        BY <2>1, <2>4, <4>1, <4>4 DEF SyncPart
      <4> QED
        BY <4>2, <4>3, <4>4
    <3> QED
      BY <3>2, <3>3
  <2> QED
    BY <1>2, <1>6, <2>1, <2>2, <2>3, <2>4 DEF SyncPart
<1> QED
  BY <1>2, <1>5, <1>7, <1>8, SyncMoved

LEMMA SyncStep ==
  ASSUME LastGroup = 1
  PROVE  FocusTypeOK /\ KeysInv /\ SyncInv /\ [Next]_vars => SyncInv'
<1> SUFFICES ASSUME FocusTypeOK, KeysInv, SyncInv, [Next]_vars PROVE SyncInv'
  OBVIOUS
<1>1. ASSUME NEW d \in Devices, NEW m, NEW rd, NEW q, Quiet(d, m, rd, q) PROVE SyncInv'
  <2>1. /\ DeviceMoves(d, m, rd, q) /\ UNCHANGED <<server, rev, receipt>>
        /\ m \in MirrorStates /\ rd \in ReaderStates /\ q \in Requests
    BY <1>1 DEF Quiet, DeviceMoves
  <2>2. ASSUME NEW r \in Records
        PROVE  SyncPart(m, rd, q, receipt[d][r], rev[r], server, r)
    <3>1. /\ mirror[d] \in MirrorStates /\ reader[d] \in ReaderStates /\ req[d] \in Requests
          /\ receipt[d][r] \in Receipts /\ rev[r] \in Nat /\ server \in Copies
          /\ SyncPart(mirror[d], reader[d], req[d], receipt[d][r], rev[r], server, r)
      BY DEF FocusTypeOK, SyncInv, Receipts
    <3>2. NoReq.record # r
      BY Beginnings, Parts
    <3>3. Kept(mirror[d], m) \/ (m = FreshMirror /\ q.record # r)
      BY <1>1, <3>2 DEF Quiet
    <3>4. rd = reader[d] \/ (rd.group = 0 /\ rd.rev[r] <= rev[r])
      BY <1>1 DEF Quiet
    <3>5. q = req[d] \/ q.record # r
      BY <1>1, <3>2 DEF Quiet
    <3> QED
      BY <2>1, <3>1, <3>3, <3>4, <3>5, SyncKept
  <2> QED
    BY <2>1, <2>2, SyncMoved
<1>2. ASSUME NEW p \in late, HandleLate(p) PROVE SyncInv'
  <2>1. /\ p.from \in Devices /\ p.record \in Records /\ p.write \in Writes /\ p.key \in Nat
        /\ p.write.items \subseteq ItemsOf[p.record]
        /\ \A r \in Records : mirror[p.from].slot[r].key = p.key
             => r = p.record /\ mirror[p.from].slot[r].write = p.write
    BY DEF FocusTypeOK, LateWrites, KeysInv, LatePart
  <2>2. UNCHANGED <<mirror, reader, req>>
    BY <1>2 DEF HandleLate
  <2>3. CASE Fits(p.from, p)
    <3>1. ApplyWrite(p.from, p) /\ p.write.expected = rev[p.record]
      BY <1>2, <2>3 DEF HandleLate, Fits
    <3>2. \A e \in Devices, r \in Records :
            SyncPart(mirror[e], reader[e], req[e], receipt'[e][r], rev'[r], server', r)
      BY <2>1, <3>1, SyncApplied
    <3> QED
      BY <2>2, <3>2 DEF SyncInv
  <2>4. CASE ~Fits(p.from, p)
    BY <1>2, <2>2, <2>4 DEF HandleLate, SyncInv
  <2> QED
    BY <2>3, <2>4
<1>3. CASE UNCHANGED vars
  BY <1>3 DEF vars, serverVars, SyncInv
<1> QED
  BY <1>1, <1>2, <1>3, SyncRead, SyncReconciled, SyncHandled, SyncAnswered, SyncSent, QuietSteps
     DEF Loud

\* On a sheet of one page group, what a mirror takes for the server's copy at
\* the server's revision is the server's copy, through lost answers, writes
\* that arrive late, replays and loads under a push (pushAnnotations,
\* pushReaderState, load).
THEOREM SyncedHoldsAlways == LastGroup = 1 /\ Spec => []SyncedHolds
<1> SUFFICES ASSUME LastGroup = 1 PROVE Spec => []SyncedHolds
  OBVIOUS
<1>1. Init => FocusTypeOK
  BY Beginnings, Empties DEF Init, FocusTypeOK
<1>2. SyncInv => SyncedHolds
  BY DEF SyncInv, SyncPart, SyncedHolds
<1>3. FocusTypeOK /\ KeysInv /\ SyncInv /\ [Next]_vars => SyncInv'
  BY SyncStep
<1> QED
  BY <1>1, <1>2, <1>3, FocusTypeStep, KeysBegin, KeysStep, SyncBegin, PTL DEF Spec

-----------------------------------------------------------------------------
(* What the screen shows *)

\* Where what the screen shows, s, is on its way to the server: it waits, or the
\* drain has taken it, or it is there.
ShownPart(s, m, q) ==
  IF m.waiting THEN m.latest = s
  ELSE /\ m.pc \in Records => m.snap = s
       /\ m.pc \notin Records => m.synced = s
       /\ m.pc = "notes" => \A i \in Ink : m.synced[i] = s[i]
       /\ q # NoReq =>
            /\ \A i \in q.write.items : q.write.content[i] = s[i]
            /\ \A i \in ItemsOf[q.record] \ q.write.items : m.synced[i] = s[i]

ShownInv ==
  \A d \in Devices : open[d] /\ mirror[d].loaded
    => unsaved[d] \/ timer[d] \/ ShownPart(screen[d], mirror[d], req[d])

LEMMA ShownMoved ==
  ASSUME FocusTypeOK, ShownInv, NEW d \in Devices, NEW m, NEW rd, NEW q, DeviceMoves(d, m, rd, q),
         \A e \in Devices \ {d} : /\ open'[e] = open[e] /\ screen'[e] = screen[e]
                                  /\ unsaved'[e] = unsaved[e] /\ timer'[e] = timer[e],
         open'[d] /\ m.loaded => unsaved'[d] \/ timer'[d] \/ ShownPart(screen'[d], m, q)
  PROVE  ShownInv'
<1>1. ASSUME NEW e \in Devices
      PROVE  open'[e] /\ mirror'[e].loaded
               => unsaved'[e] \/ timer'[e] \/ ShownPart(screen'[e], mirror'[e], req'[e])
  <2>1. CASE e = d
    BY <2>1 DEF DeviceMoves, FocusTypeOK
  <2>2. CASE e # d
    <3>1. mirror'[e] = mirror[e] /\ req'[e] = req[e]
      BY <2>2 DEF DeviceMoves, FocusTypeOK
    <3> QED
      BY <2>2, <3>1 DEF ShownInv
  <2> QED
    BY <2>1, <2>2
<1> QED
  BY <1>1 DEF ShownInv

\* A step that leaves the workspace alone and takes what the screen shows
\* further on its way.
LEMMA ShownOnward ==
  ASSUME FocusTypeOK, ShownInv, NEW d \in Devices, NEW m, NEW rd, NEW q, DeviceMoves(d, m, rd, q),
         UNCHANGED <<open, screen, unsaved, timer>>, m.loaded = mirror[d].loaded,
         ShownPart(screen[d], mirror[d], req[d]) => ShownPart(screen[d], m, q)
  PROVE  ShownInv'
<1>1. open[d] /\ m.loaded => unsaved[d] \/ timer[d] \/ ShownPart(screen[d], m, q)
  BY DEF ShownInv
<1> QED
  BY <1>1, ShownMoved

LEMMA ShownTaken ==
  ASSUME NEW o \in MirrorStates, NEW s, o.pc = "take", ShownPart(s, o, NoReq)
  PROVE  ShownPart(s, Taken(o), NoReq)
<1>1. /\ Kept(o, Taken(o)) /\ ~Taken(o).waiting
      /\ Taken(o).pc = (IF o.waiting THEN "ink" ELSE "idle")
      /\ o.waiting => Taken(o).snap = o.latest
  BY TakenFacts
<1> QED
  BY <1>1, Parts DEF ShownPart, Kept

LEMMA ShownFailed ==
  ASSUME NEW o \in MirrorStates, NEW s, NEW q, o.pc \in Records, ShownPart(s, o, q)
  PROVE  ShownPart(s, Failed(o), NoReq)
BY FailedFacts DEF ShownPart

\* The record that is pushed does not differ.
LEMMA ShownSkipped ==
  ASSUME FocusTypeOK, NEW d \in Devices, NEW r \in Records, Changed(d, r) = {},
         mirror[d].pc = r, req[d] = NoReq, ShownPart(screen[d], mirror[d], req[d])
  PROVE  ShownPart(screen[d], [mirror[d] EXCEPT !.pc = AfterRecord(r)], req[d])
<1> DEFINE o == mirror[d]
           m == [o EXCEPT !.pc = AfterRecord(r)]
           s == screen[d]
<1>1. o \in MirrorStates /\ s \in Copies /\ o.synced \in Copies
  BY DEF FocusTypeOK, MirrorStates
<1>2. /\ m.synced = o.synced /\ m.pc = AfterRecord(r) /\ m.waiting = o.waiting
      /\ m.latest = o.latest /\ m.snap = o.snap
  BY <1>1, KeptFacts DEF Kept
<1> HIDE DEF m
<1>3. CASE o.waiting
  BY <1>2, <1>3 DEF ShownPart
<1>4. CASE ~o.waiting
  <2>1. \A i \in ItemsOf[r] : o.synced[i] = s[i]
    BY <1>4 DEF ShownPart, Changed
  <2>2. CASE r = "ink"
    BY <1>2, <1>4, <2>1, <2>2, Parts DEF ShownPart, AfterRecord
  <2>3. CASE r = "notes"
    <3>1. \A i \in Items : o.synced[i] = s[i]
      BY <1>4, <2>1, <2>3, Parts DEF ShownPart
    <3>2. o.synced = s
      BY <1>1, <3>1 DEF Copies
    <3>3. m.pc = "take" /\ "take" \notin Records
      BY <1>2, <2>3, Parts DEF AfterRecord
    <3> QED
      BY <1>2, <1>4, <3>2, <3>3, Parts DEF ShownPart
  <2> QED
    BY <2>2, <2>3, Parts
<1> QED
  BY <1>3, <1>4

\* The record that is pushed is sent.
LEMMA ShownSent ==
  ASSUME FocusTypeOK, NEW d \in Devices, NEW r \in Records, mirror[d].pc = r,
         ShownPart(screen[d], mirror[d], req[d])
  PROVE  ShownPart(screen[d], Sending(mirror[d], r, PushWrite(d, r), PushKey(d, r)),
                   Sent(r, PushWrite(d, r), PushKey(d, r)))
<1> DEFINE o == mirror[d]
           w == PushWrite(d, r)
           k == PushKey(d, r)
           m == Sending(o, r, w, k)
           q == Sent(r, w, k)
           s == screen[d]
<1>0. o \in MirrorStates
  BY DEF FocusTypeOK
<1>1. o.snap \in Copies
  BY <1>0 DEF MirrorStates
<1> HIDE DEF w, k
<1>2. /\ m.synced = o.synced /\ m.pc = o.pc /\ m.waiting = o.waiting
      /\ m.latest = o.latest /\ m.snap = o.snap
  BY <1>0 DEF Sending, MirrorStates
<1>3. /\ q.record = r /\ q.write = w /\ w.items = PushItems(d, r)
      /\ w.items \subseteq ItemsOf[r] /\ w.content = Taking(Nothing, o.snap, w.items)
  BY PushFacts DEF Sent, w
<1>4. \A i \in w.items : w.content[i] = o.snap[i]
  BY <1>1, <1>3, TakingFacts, Empties, Parts
<1>5. \A i \in ItemsOf[r] \ w.items : o.synced[i] = o.snap[i]
  BY <1>3, Parts DEF PushItems, Changed, w
<1> HIDE DEF m, q
<1>6. CASE o.waiting
  <2>1. m.waiting /\ m.latest = s
    BY <1>2, <1>6 DEF ShownPart
  <2> QED
    BY <2>1 DEF ShownPart, m, q, w, k
<1>7. CASE ~o.waiting
  <2>1. ~m.waiting /\ o.snap = s /\ m.pc \in Records
        /\ (m.pc = "notes" => \A i \in Ink : m.synced[i] = s[i])
    BY <1>2, <1>7 DEF ShownPart
  <2>2. ShownPart(s, m, q)
    BY <1>2, <1>3, <1>4, <1>5, <2>1 DEF ShownPart
  <2> QED
    BY <2>2 DEF m, q, w, k
<1> QED
  BY <1>6, <1>7

\* The record that was sent is on the server.
LEMMA ShownConfirmed ==
  ASSUME NEW o \in MirrorStates, NEW q \in Requests, NEW s \in Copies, q.record \in Records,
         q # NoReq, o.pc = q.record, q.write.items \subseteq ItemsOf[q.record], ShownPart(s, o, q)
  PROVE  ShownPart(s, Confirmed(o, q), NoReq)
<1> DEFINE m == Confirmed(o, q)
           r == q.record
<1>1. /\ m.waiting = o.waiting /\ m.latest = o.latest /\ m.snap = o.snap
      /\ m.pc = AfterRecord(r)
      /\ \A i \in Items : m.synced[i] = IF i \in q.write.items THEN q.write.content[i]
                                        ELSE o.synced[i]
  BY ConfirmedFacts
<1>2. m.synced \in Copies
  <2>1. m.synced = Taking(o.synced, q.write.content, q.write.items)
    BY DEF Confirmed, MirrorStates
  <2> QED
    BY <2>1, TakingFacts DEF MirrorStates, Requests, Writes
<1> HIDE DEF m
<1>3. CASE o.waiting
  <2>1. m.waiting /\ m.latest = s
    BY <1>1, <1>3 DEF ShownPart
  <2> QED
    BY <2>1 DEF ShownPart, m
<1>4. CASE ~o.waiting
  <2>0. ~m.waiting /\ o.snap = s
        /\ (o.pc = "notes" => \A i \in Ink : o.synced[i] = s[i])
    BY <1>1, <1>4 DEF ShownPart
  <2>1. \A i \in ItemsOf[r] : m.synced[i] = s[i]
    BY <1>1, <1>4, Parts DEF ShownPart
  <2>2. CASE r = "ink"
    <3>1. m.pc = "notes" /\ "notes" \in Records /\ m.snap = s
      BY <1>1, <2>0, <2>2, Parts DEF AfterRecord
    <3>2. ShownPart(s, m, NoReq)
      BY <2>0, <2>1, <2>2, <3>1, Parts DEF ShownPart
    <3> QED
      BY <3>2 DEF m
  <2>3. CASE r = "notes"
    <3>1. \A i \in Items : m.synced[i] = s[i]
      BY <1>1, <2>0, <2>1, <2>3, Parts
    <3>2. m.synced = s
      BY <1>2, <3>1 DEF Copies
    <3>3. m.pc = "take" /\ "take" \notin Records
      BY <1>1, <2>3, Parts DEF AfterRecord
    <3>4. ShownPart(s, m, NoReq)
      BY <2>0, <3>2, <3>3, Parts DEF ShownPart
    <3> QED
      BY <3>4 DEF m
  <2> QED
    BY <2>2, <2>3, Parts
<1> QED
  BY <1>3, <1>4

LEMMA ShownStep == FocusTypeOK /\ KeysInv /\ ShownInv /\ [Next]_vars => ShownInv'
<1> SUFFICES ASSUME FocusTypeOK, KeysInv, ShownInv, [Next]_vars PROVE ShownInv'
  OBVIOUS
<1>0. ASSUME NEW d \in Devices
      PROVE  /\ KeyPart(mirror[d], reader[d], req[d], receipt[d], keys[d])
             /\ mirror[d] \in MirrorStates /\ req[d] \in Requests /\ screen[d] \in Copies
             /\ req[d] = NoReq \/ mirror[d].pc \in Records
  <2>1. /\ KeyPart(mirror[d], reader[d], req[d], receipt[d], keys[d])
        /\ mirror[d] \in MirrorStates /\ req[d] \in Requests /\ screen[d] \in Copies
    BY DEF KeysInv, FocusTypeOK
  <2> QED
    BY <2>1 DEF KeyPart
\* The reader's edits, and the end of a load: there is something to save or a
\* push is scheduled.
<1>1. ASSUME NEW d \in Devices, OpenWorkspace(d) PROVE ShownInv'
  <2>1. ~FreshMirror.loaded
    BY Beginnings
  <2>2. \A e \in Devices \ {d} : /\ open'[e] = open[e] /\ screen'[e] = screen[e]
                                 /\ unsaved'[e] = unsaved[e] /\ timer'[e] = timer[e]
    BY <1>1 DEF OpenWorkspace, FocusTypeOK
  <2> QED
    BY <1>1, <2>1, <2>2, OpenMoves, ShownMoved
<1>2. ASSUME NEW d \in Devices, NEW i \in Items, Edit(d, i) PROVE ShownInv'
  <2>1. PICK c : screen' = [screen EXCEPT ![d][i] = c]
    BY <1>2 DEF Edit
  <2>2. unsaved' = [unsaved EXCEPT ![d] = TRUE] /\ UNCHANGED <<open, timer>>
    BY <1>2 DEF Edit
  <2>3. \A e \in Devices \ {d} : /\ open'[e] = open[e] /\ screen'[e] = screen[e]
                                 /\ unsaved'[e] = unsaved[e] /\ timer'[e] = timer[e]
    BY <2>1, <2>2 DEF FocusTypeOK
  <2>4. unsaved'[d]
    BY <2>2 DEF FocusTypeOK
  <2> QED
    BY <1>2, <2>3, <2>4, WorkspaceMoves, ShownMoved
<1>3. ASSUME NEW d \in Devices, PersistWorkspace(d) PROVE ShownInv'
  <2>1. timer'[d] /\ \A e \in Devices \ {d} :
          /\ open'[e] = open[e] /\ screen'[e] = screen[e]
          /\ unsaved'[e] = unsaved[e] /\ timer'[e] = timer[e]
    BY <1>3 DEF PersistWorkspace, FocusTypeOK
  <2> QED
    BY <1>3, <2>1, WorkspaceMoves, ShownMoved
<1>4. ASSUME NEW d \in Devices, LeaveWorkspace(d) \/ KillTab(d) PROVE ShownInv'
  <2>1. Closed(d)
    BY <1>4 DEF LeaveWorkspace, KillTab
  <2>2. ~open'[d] /\ \A e \in Devices \ {d} :
          /\ open'[e] = open[e] /\ screen'[e] = screen[e]
          /\ unsaved'[e] = unsaved[e] /\ timer'[e] = timer[e]
    BY <2>1 DEF Closed, FocusTypeOK
  <2>3. \E m, rd, q : DeviceMoves(d, m, rd, q)
    BY <1>4, LeaveMoves, KillMoves
  <2> QED
    BY <2>2, <2>3, ShownMoved
<1>5. ASSUME NEW d \in Devices, Reconcile(d) PROVE ShownInv'
  <2>1. unsaved'[d] \/ timer'[d]
    BY <1>5 DEF Reconcile, FocusTypeOK
  <2>2. \A e \in Devices \ {d} : /\ open'[e] = open[e] /\ screen'[e] = screen[e]
                                 /\ unsaved'[e] = unsaved[e] /\ timer'[e] = timer[e]
    BY <1>5 DEF Reconcile, FocusTypeOK
  <2> QED
    BY <1>5, <2>1, <2>2, ReconcileMoves, ShownMoved
\* A reader that reads leaves the mirror and the screen alone.
<1>6. ASSUME NEW d \in Devices,
             \/ LoadAgain(d) \/ StartRefresh(d) \/ ProbeRead(d) \/ ProbeAnswered(d)
             \/ ReadFails(d) \/ ReadGroup(d)
      PROVE  ShownInv'
  <2>1. UNCHANGED <<open, screen, unsaved, timer, mirror, req>>
    BY <1>6 DEF LoadAgain, StartRefresh, ProbeRead, ProbeAnswered, ReadFails, ReadGroup
  <2> QED
    BY <2>1 DEF ShownInv
\* What the screen shows goes on its way.
<1>7. ASSUME NEW d \in Devices, PushTimer(d) PROVE ShownInv'
  <2> DEFINE m == IF mirror[d].loaded THEN Queued(mirror[d], screen[d]) ELSE mirror[d]
  <2>1. DeviceMoves(d, m, reader[d], req[d]) /\ UNCHANGED <<open, screen, unsaved>>
    BY <1>7, PushTimerMoves DEF PushTimer
  <2>2. \A e \in Devices \ {d} : timer'[e] = timer[e]
    BY <1>7 DEF PushTimer, FocusTypeOK
  <2>3. m.loaded => ShownPart(screen[d], m, req[d])
    <3>1. CASE mirror[d].loaded
      <4>1. Queued(mirror[d], screen[d]).waiting
            /\ Queued(mirror[d], screen[d]).latest = screen[d]
        BY <1>0, QueuedFacts
      <4> QED
        BY <3>1, <4>1 DEF ShownPart
    <3>2. CASE ~mirror[d].loaded
      BY <3>2
    <3> QED
      BY <3>1, <3>2
  <2> HIDE DEF m
  <2> QED
    BY <2>1, <2>2, <2>3, ShownMoved
<1>8. ASSUME NEW d \in Devices, Retry(d) PROVE ShownInv'
  <2> DEFINE o == mirror[d]
             m == [o EXCEPT !.pc = "take"]
  <2>1. DeviceMoves(d, m, reader[d], req[d]) /\ UNCHANGED <<open, screen, unsaved, timer>>
        /\ o.waiting
    BY <1>8, RetryMoves DEF Retry
  <2>2. m.loaded = o.loaded /\ m.waiting = o.waiting /\ m.latest = o.latest
    BY <1>0, KeptFacts DEF Kept
  <2>3. ShownPart(screen[d], o, req[d]) => o.latest = screen[d]
    BY <2>1 DEF ShownPart
  <2> HIDE DEF m
  <2>4. m.waiting
    BY <2>1, <2>2
  <2>5. ShownPart(screen[d], o, req[d]) => ShownPart(screen[d], m, req[d])
    BY <2>2, <2>3, <2>4 DEF ShownPart
  <2> QED
    BY <2>1, <2>2, <2>5, ShownOnward
<1>9. ASSUME NEW d \in Devices, TakeSnapshot(d) PROVE ShownInv'
  <2> DEFINE o == mirror[d]
  <2>1. /\ DeviceMoves(d, Taken(o), reader[d], req[d]) /\ UNCHANGED <<open, screen, unsaved, timer>>
        /\ o.pc = "take"
    BY <1>9, TakeMoves DEF TakeSnapshot
  <2>2. req[d] = NoReq /\ Taken(o).loaded = o.loaded
    BY <1>0, <2>1, TakenFacts, Parts DEF Kept
  <2>3. ShownPart(screen[d], o, req[d]) => ShownPart(screen[d], Taken(o), req[d])
    BY <1>0, <2>1, <2>2, ShownTaken
  <2> QED
    BY <2>1, <2>2, <2>3, ShownOnward
<1>10. ASSUME NEW d \in Devices, NEW r \in Records, PushRecord(d, r) PROVE ShownInv'
  <2> DEFINE o == mirror[d]
  <2>1. UNCHANGED <<open, screen, unsaved, timer>> /\ o.pc = r /\ req[d] = NoReq
    BY <1>10 DEF PushRecord
  <2>2. CASE Changed(d, r) = {}
    <3> DEFINE m == [o EXCEPT !.pc = AfterRecord(r)]
    <3>1. DeviceMoves(d, m, reader[d], req[d])
      BY <1>10, <2>2, PushSkips
    <3>2. m.loaded = o.loaded
      BY <1>0, KeptFacts DEF Kept
    <3>3. ShownPart(screen[d], o, req[d]) => ShownPart(screen[d], m, req[d])
      BY <2>1, <2>2, ShownSkipped
    <3> HIDE DEF m
    <3> QED
      BY <2>1, <3>1, <3>2, <3>3, ShownOnward
  <2>3. CASE Changed(d, r) # {}
    <3> DEFINE m == Sending(o, r, PushWrite(d, r), PushKey(d, r))
               q == Sent(r, PushWrite(d, r), PushKey(d, r))
    <3>1. DeviceMoves(d, m, reader[d], q)
      BY <1>10, <2>3, PushSends
    <3>2. m.loaded = o.loaded
      BY <1>0 DEF Sending, MirrorStates
    <3>3. ShownPart(screen[d], o, req[d]) => ShownPart(screen[d], m, q)
      BY <2>1, ShownSent
    <3> HIDE DEF m, q
    <3> QED
      BY <2>1, <3>1, <3>2, <3>3, ShownOnward
  <2> QED
    BY <2>2, <2>3
<1>11. ASSUME NEW d \in Devices, HandleWrite(d) PROVE ShownInv'
  <2> DEFINE o == mirror[d]
             q == req[d]
             r == q.record
             Good(a) == a.record = r /\ a.write = q.write
  <2>1. q # NoReq /\ UNCHANGED <<open, screen, unsaved, timer>>
    BY <1>11, Beginnings DEF HandleWrite
  <2>2. Good(Answered(q, rev'[r])) /\ Good(Answered(q, receipt[d][r].rev))
        /\ Good([q EXCEPT !.answer = "conflict"])
    BY <1>0 DEF Answered, Requests
  <2>3. PICK a : Good(a) /\ DeviceMoves(d, o, reader[d], a)
    <3> HIDE DEF Good
    <3> QED
      BY <1>11, <2>2, HandleMoves
  <2>4. ShownPart(screen[d], o, q) => ShownPart(screen[d], o, a)
    BY <2>1, <2>3 DEF ShownPart
  <2> QED
    BY <2>1, <2>3, <2>4, ShownOnward
<1>12. ASSUME NEW q \in late, HandleLate(q) PROVE ShownInv'
  BY <1>12 DEF HandleLate, ShownInv
<1>13. ASSUME NEW d \in Devices, WriteAnswered(d) PROVE ShownInv'
  <2> DEFINE o == mirror[d]
             q == req[d]
  <2>1. /\ q.record \in Records /\ DeviceMoves(d, Confirmed(o, q), reader[d], NoReq)
        /\ UNCHANGED <<open, screen, unsaved, timer>>
    BY <1>13, AnsweredMoves DEF WriteAnswered
  <2>2. q # NoReq
    BY <2>1, Beginnings, Parts
  <2>3. o.pc = q.record /\ q.write.items \subseteq ItemsOf[q.record]
    <3>1. o.slot[q.record] = [write |-> q.write, key |-> q.key] /\ q.key # 0 /\ o.pc = q.record
      BY <1>0, <2>2 DEF KeyPart
    <3>2. o.slot[q.record].write = q.write /\ o.slot[q.record].key # 0
      BY <3>1
    <3> QED
      BY <1>0, <2>1, <3>1, <3>2 DEF KeyPart
  <2>4. Confirmed(o, q).loaded = o.loaded
    BY <1>0, <2>1, ConfirmedFacts
  <2>5. ShownPart(screen[d], o, q) => ShownPart(screen[d], Confirmed(o, q), NoReq)
    BY <1>0, <2>1, <2>2, <2>3, ShownConfirmed
  <2> QED
    BY <2>1, <2>4, <2>5, ShownOnward
<1>14. ASSUME NEW d \in Devices, WriteFails(d) PROVE ShownInv'
  <2> DEFINE o == mirror[d]
  <2>1. DeviceMoves(d, Failed(o), reader[d], NoReq) /\ UNCHANGED <<open, screen, unsaved, timer>>
    BY <1>14, FailsMoves DEF WriteFails
  <2>2. o.pc \in Records
    BY <1>0, <1>14, Beginnings DEF WriteFails
  <2>3. Failed(o).loaded = o.loaded
    BY <1>0, FailedFacts DEF Kept
  <2>4. ShownPart(screen[d], o, req[d]) => ShownPart(screen[d], Failed(o), NoReq)
    BY <1>0, <2>2, ShownFailed
  <2> QED
    BY <2>1, <2>3, <2>4, ShownOnward
<1>15. CASE UNCHANGED vars
  BY <1>15 DEF vars, ShownInv
<1> QED
  BY <1>1, <1>2, <1>3, <1>4, <1>5, <1>6, <1>7, <1>8, <1>9, <1>10, <1>11, <1>12, <1>13, <1>14,
     <1>15 DEF Next, DeviceStep, DrainStep, ServerStep

\* On a sheet of one page group, a device that has nothing to save, push, retry
\* or read shows what the server holds, whatever was drawn, lost, answered late
\* or merged on the way (saveServerState, refreshServerState).
THEOREM AgreementAlways == LastGroup = 1 /\ Spec => []Agreement
<1> SUFFICES ASSUME LastGroup = 1 PROVE Spec => []Agreement
  OBVIOUS
<1>1. Init => FocusTypeOK /\ ShownInv
  <2>1. Init => FocusTypeOK
    BY Beginnings, Empties DEF Init, FocusTypeOK
  <2>2. Init => ShownInv
    BY DEF Init, ShownInv
  <2> QED
    BY <2>1, <2>2
<1>2. FocusTypeOK /\ SyncInv /\ ShownInv => Agreement
  <2> SUFFICES ASSUME FocusTypeOK, SyncInv, ShownInv, NEW d \in Devices, Settled(d),
                      ~mirror[d].setBack
               PROVE  screen[d] = server
    BY DEF Agreement
  <2>1. mirror[d].synced = screen[d]
    <3>1. ShownPart(screen[d], mirror[d], req[d]) /\ ~mirror[d].waiting /\ mirror[d].pc = "idle"
      BY DEF ShownInv, Settled
    <3> QED
      BY <3>1, Parts DEF ShownPart
  <2>2. \A r \in Records : \A i \in ItemsOf[r] : mirror[d].synced[i] = server[i]
    BY DEF SyncInv, SyncPart, Settled
  <2>3. \A i \in Items : screen[d][i] = server[i]
    BY <2>1, <2>2, Parts
  <2> QED
    BY <2>3 DEF FocusTypeOK, Copies
<1>3. FocusTypeOK /\ KeysInv /\ SyncInv /\ [Next]_vars => SyncInv'
  BY SyncStep
<1> QED
  BY <1>1, <1>2, <1>3, FocusTypeStep, KeysBegin, KeysStep, SyncBegin, ShownStep, PTL DEF Spec

=============================================================================
