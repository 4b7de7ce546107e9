------------------------------ MODULE FocusSync ------------------------------
(***************************************************************************)
(* The server mirror of one Focus sheet: createCatalogServerSync           *)
(* (frontend/src/workspace/catalog/catalogServerSync.js), the workspace    *)
(* page that drives it (frontend/src/pages/CatalogFocusWorkspace.jsx) and  *)
(* the two revisioned records it writes (sync_annotations in               *)
(* backend/apps/focus/annotation_services.py, CatalogWorkspaceView in      *)
(* backend/apps/content/views.py).                                         *)
(*                                                                         *)
(* One reader opens the same sheet on several devices.  Each device edits  *)
(* its own copy and merges the server's into it by id, against the         *)
(* baseline it last agreed with the server.  A device runs from one await  *)
(* to the next without interruption; at an await the reader may draw, the  *)
(* other device may push and a response may be lost.                       *)
(*                                                                         *)
(* An item is a mark ("ink") or a note.  Its content is the number of the  *)
(* edit that gave it, 0 when it does not exist; equal numbers are equal    *)
(* fingerprints.                                                           *)
(***************************************************************************)
EXTENDS Naturals, FiniteSets

CONSTANTS Devices,
          Notes,        \* items of the reader state
          Groups,       \* ink items of each group of PAGES_PER_READ pages
          LastGroup,    \* the number of page groups
          MaxEdits,     \* bound: edits by the reader, on all devices
          MaxFaults,    \* bound: lost responses, failed reads, killed tabs
          MaxVisits,    \* bound: times a device opens the sheet
          MaxLoads      \* bound: refreshes that read the full state

Ink == UNION {Groups[g] : g \in 1..LastGroup}
Items == Ink \cup Notes

ASSUME GroupsAssumption == /\ LastGroup \in Nat \ {0}
                           /\ DOMAIN Groups = 1..LastGroup
                           /\ Ink \cap Notes = {}
ASSUME FocusBounds == {MaxEdits, MaxFaults, MaxVisits, MaxLoads} \subseteq Nat

VARIABLES
  (* Each device *)
  screen,    \* annotationsRef and notesRef of the open workspace
  stored,    \* the device's annotation store
  base,      \* the baseline in localStorage
  open,      \* whether the workspace is open
  unsaved,   \* the autosave effect has run since the last persistWorkspace
  timer,     \* serverSyncTimerRef is set
  mirror,    \* the createCatalogServerSync object
  reader,    \* the load or refresh under way
  req,       \* the write the drain awaits
  keys,      \* idempotency keys made so far (idFactory)
  (* The server *)
  server,    \* the content of every item
  rev,       \* revision of the ink collection and of the reader state
  receipt,   \* each device's last applied key for each record, with its result
  late,      \* writes nobody awaits that may still arrive
  (* History and bounds *)
  edits, faults, visits, loads,
  erased     \* items a reader has erased

serverVars == <<server, rev, receipt, late>>
history == <<edits, faults, visits, loads, erased>>
vars == <<screen, stored, base, open, unsaved, timer, mirror, reader, req, keys,
          serverVars, history>>

Records == {"ink", "notes"}
ItemsOf == [r \in Records |-> IF r = "ink" THEN Ink ELSE Notes]
Contents == 0..MaxEdits
Nothing == [i \in Items |-> 0]
NoRevs == [r \in Records |-> 0]

\* f, with the items of S taken from g.
Taking(f, g, S) == [i \in Items |-> IF i \in S THEN g[i] ELSE f[i]]

\* What a write carries: the revision it expects and the items it sets.
Write(expected, items, content) ==
  [expected |-> expected, items |-> items, content |-> Taking(Nothing, content, items)]
NoWrite == Write(0, {}, Nothing)
NoReq == [record |-> "none", write |-> NoWrite, key |-> 0, answer |-> "none", rev |-> 0]

\* A mirror that has not been loaded.  slot is keyFor's memory of the last
\* write of each record and the key it was given.  setBack is history: the last
\* load was older than the state a write under way was computed from.
FreshMirror == [loaded |-> FALSE, synced |-> Nothing, rev |-> NoRevs,
                waiting |-> FALSE, latest |-> Nothing, pc |-> "idle", snap |-> Nothing,
                slot |-> [r \in Records |-> [write |-> NoWrite, key |-> 0]],
                setBack |-> FALSE]
IdleReader == [pc |-> "idle", group |-> 0, got |-> Nothing, rev |-> NoRevs,
               local |-> Nothing]

Init ==
  /\ screen = [d \in Devices |-> Nothing]
  /\ stored = [d \in Devices |-> Nothing]
  /\ base = [d \in Devices |-> Nothing]
  /\ open = [d \in Devices |-> FALSE]
  /\ unsaved = [d \in Devices |-> FALSE]
  /\ timer = [d \in Devices |-> FALSE]
  /\ mirror = [d \in Devices |-> FreshMirror]
  /\ reader = [d \in Devices |-> IdleReader]
  /\ req = [d \in Devices |-> NoReq]
  /\ keys = [d \in Devices |-> 0]
  /\ server = Nothing
  /\ rev = NoRevs
  /\ receipt = [d \in Devices |-> [r \in Records |-> [key |-> 0, rev |-> 0]]]
  /\ late = {}
  /\ edits = 0
  /\ faults = 0
  /\ visits = 0
  /\ loads = 0
  /\ erased = {}

Fault == faults < MaxFaults /\ faults' = faults + 1

-----------------------------------------------------------------------------
(* The workspace *)

\* The workspace opens: the device's copy is restored, the autosave effect runs
\* and a new mirror begins to read the server's copy.  Bound: the drain an
\* earlier visit left behind has ended.
OpenWorkspace(d) ==
  /\ ~open[d]
  /\ req[d] = NoReq
  /\ visits < MaxVisits
  /\ visits' = visits + 1
  /\ open' = [open EXCEPT ![d] = TRUE]
  /\ screen' = [screen EXCEPT ![d] = stored[d]]
  /\ unsaved' = [unsaved EXCEPT ![d] = TRUE]
  /\ mirror' = [mirror EXCEPT ![d] = FreshMirror]
  /\ reader' = [reader EXCEPT ![d] = [IdleReader EXCEPT !.pc = "load"]]
  /\ UNCHANGED <<stored, base, timer, req, keys, serverVars, edits, faults, loads,
                 erased>>

\* The reader draws or changes an item, or erases it.
Edit(d, i) ==
  /\ open[d]
  /\ edits < MaxEdits
  /\ edits' = edits + 1
  /\ \E content \in {edits + 1, 0} \ {screen[d][i]} :
       /\ screen' = [screen EXCEPT ![d][i] = content]
       /\ erased' = IF content = 0 THEN erased \cup {i} ELSE erased
  /\ unsaved' = [unsaved EXCEPT ![d] = TRUE]
  /\ UNCHANGED <<stored, base, open, timer, mirror, reader, req, keys, serverVars,
                 faults, visits, loads>>

\* persistWorkspace, from the autosave: the store is written, then a push is
\* scheduled.
PersistWorkspace(d) ==
  /\ open[d]
  /\ unsaved[d]
  /\ stored' = [stored EXCEPT ![d] = screen[d]]
  /\ unsaved' = [unsaved EXCEPT ![d] = FALSE]
  /\ timer' = [timer EXCEPT ![d] = TRUE]
  /\ UNCHANGED <<screen, base, open, mirror, reader, req, keys, serverVars, history>>

\* What a workspace that is gone leaves: no screen, no timers, no refresh.
Closed(d) ==
  /\ open' = [open EXCEPT ![d] = FALSE]
  /\ screen' = [screen EXCEPT ![d] = Nothing]
  /\ unsaved' = [unsaved EXCEPT ![d] = FALSE]
  /\ timer' = [timer EXCEPT ![d] = FALSE]
  /\ reader' = [reader EXCEPT ![d] = IdleReader]

\* The workspace is left with its last edits saved.  A drain under way goes on.
LeaveWorkspace(d) ==
  /\ open[d]
  /\ stored' = [stored EXCEPT ![d] = screen[d]]
  /\ Closed(d)
  /\ mirror' = IF req[d] = NoReq THEN [mirror EXCEPT ![d] = FreshMirror] ELSE mirror
  /\ UNCHANGED <<base, req, keys, serverVars, history>>

\* A write nobody waits for any more arrives later, or never.
Orphan(d) ==
  \/ UNCHANGED late
  \/ /\ req[d].answer = "sent"
     /\ late' = late \cup {[from |-> d, record |-> req[d].record,
                            write |-> req[d].write, key |-> req[d].key]}

\* The tab is killed: the edits since the last save go with it, and what the
\* mirror knew but for the baseline.
KillTab(d) ==
  /\ open[d]
  /\ Fault
  /\ Closed(d)
  /\ mirror' = [mirror EXCEPT ![d] = FreshMirror]
  /\ req' = [req EXCEPT ![d] = NoReq]
  /\ Orphan(d)
  /\ UNCHANGED <<stored, base, keys, server, rev, receipt, edits, visits, loads, erased>>

-----------------------------------------------------------------------------
(* Reading the server's copy *)

\* The connection returns before the first load succeeded.
LoadAgain(d) ==
  /\ open[d]
  /\ ~mirror[d].loaded
  /\ reader[d].pc = "idle"
  /\ reader' = [reader EXCEPT ![d] = [IdleReader EXCEPT !.pc = "load"]]
  /\ UNCHANGED <<screen, stored, base, open, unsaved, timer, mirror, req, keys,
                 serverVars, history>>

\* refreshServerState asks for the revisions; what it will merge is read now.
StartRefresh(d) ==
  /\ open[d]
  /\ mirror[d].loaded
  /\ reader[d].pc = "idle"
  /\ loads < MaxLoads
  /\ reader' = [reader EXCEPT ![d] = [IdleReader EXCEPT !.pc = "probe",
                                                        !.local = screen[d]]]
  /\ UNCHANGED <<screen, stored, base, open, unsaved, timer, mirror, req, keys,
                 serverVars, history>>

\* The server answers the probe with its revisions.
ProbeRead(d) ==
  /\ reader[d].pc = "probe"
  /\ reader' = [reader EXCEPT ![d].pc = "probed", ![d].rev = rev]
  /\ UNCHANGED <<screen, stored, base, open, unsaved, timer, mirror, req, keys,
                 serverVars, history>>

\* Variant: the probe compares the reader state's revision alone.
ProbeAnsweredNotesOnly(d) ==
  /\ reader[d].pc = "probed"
  /\ IF reader[d].rev["notes"] = mirror[d].rev["notes"]
       THEN /\ reader' = [reader EXCEPT ![d] = IdleReader]
            /\ UNCHANGED loads
       ELSE /\ reader' = [reader EXCEPT ![d].pc = "refresh", ![d].rev = NoRevs]
            /\ loads' = loads + 1
  /\ UNCHANGED <<screen, stored, base, open, unsaved, timer, mirror, req, keys,
                 serverVars, edits, faults, visits, erased>>

\* Variant: the revisions of a probe that found something new are kept before
\* the state is read.
ProbeAnsweredKept(d) ==
  /\ reader[d].pc = "probed"
  /\ mirror' = [mirror EXCEPT ![d].rev = reader[d].rev]
  /\ IF reader[d].rev = mirror[d].rev
       THEN /\ reader' = [reader EXCEPT ![d] = IdleReader]
            /\ UNCHANGED loads
       ELSE /\ reader' = [reader EXCEPT ![d].pc = "refresh", ![d].rev = NoRevs]
            /\ loads' = loads + 1
  /\ UNCHANGED <<screen, stored, base, open, unsaved, timer, req, keys, serverVars, edits,
                 faults, visits, erased>>

\* The probe's answer: nothing moved, or the full state is read.
ProbeAnswered(d) ==
  /\ reader[d].pc = "probed"
  /\ IF reader[d].rev = mirror[d].rev
       THEN /\ reader' = [reader EXCEPT ![d] = IdleReader]
            /\ UNCHANGED loads
       ELSE /\ reader' = [reader EXCEPT ![d].pc = "refresh", ![d].rev = NoRevs]
            /\ loads' = loads + 1
  /\ UNCHANGED <<screen, stored, base, open, unsaved, timer, mirror, req, keys,
                 serverVars, edits, faults, visits, erased>>

Loading(d) == reader[d].pc \in {"load", "refresh"}

\* load reads the reader state, then the ink one group of pages at a time;
\* the collection's revision is the highest any group reported.
ReadGroup(d) ==
  LET g == reader[d].group
      record == IF g = 0 THEN "notes" ELSE "ink"
      read == IF g = 0 THEN Notes ELSE Groups[g]
  IN /\ Loading(d)
     /\ g <= LastGroup
     /\ reader' = [reader EXCEPT ![d].group = g + 1,
                                 ![d].got = Taking(@, server, read),
                                 ![d].rev[record] = rev[record]]
     /\ UNCHANGED <<screen, stored, base, open, unsaved, timer, mirror, req, keys,
                    serverVars, history>>

\* The connection is lost under a probe or a read.
ReadFails(d) ==
  /\ reader[d].pc # "idle"
  /\ Fault
  /\ reader' = [reader EXCEPT ![d] = IdleReader]
  /\ UNCHANGED <<screen, stored, base, open, unsaved, timer, mirror, req, keys,
                 serverVars, edits, visits, loads, erased>>

\* mergeById: an item only the other side changed since the baseline is taken
\* from there, its absence included; otherwise this device's is kept.  An item
\* erased here is restored only if it was edited elsewhere.
MergeById(local, remote, known) ==
  [i \in Items |-> IF local[i] = known[i] THEN remote[i]
                   ELSE IF local[i] = 0 /\ remote[i] # 0 /\ remote[i] # known[i]
                     THEN remote[i]
                     ELSE local[i]]

\* The load of device d that ends is older than the state the write under way
\* was computed from.
SetsBack(d) ==
  /\ req[d].record \in Records
  /\ reader[d].rev[req[d].record] < req[d].write.expected

\* Variant: a merge that changes nothing schedules nothing.
ReconcileQuietly(d) ==
  LET r == reader[d]
      local == IF r.pc = "load" THEN screen[d] ELSE r.local
      merged == MergeById(local, r.got, base[d])
  IN /\ Loading(d)
     /\ r.group > LastGroup
     /\ mirror' = [mirror EXCEPT ![d].loaded = TRUE, ![d].synced = r.got, ![d].rev = r.rev,
                                 ![d].setBack = SetsBack(d)]
     /\ reader' = [reader EXCEPT ![d] = IdleReader]
     /\ screen' = [screen EXCEPT ![d] = IF merged = local THEN @ ELSE merged]
     /\ unsaved' = [unsaved EXCEPT ![d] = @ \/ merged # local]
     /\ UNCHANGED <<stored, base, open, timer, req, keys, serverVars, history>>

\* The end of load and the reconcile that follows it.  The first load merges
\* what is on the screen, a refresh what was there when it began; a merge that
\* changes nothing schedules a push, one that does goes to the screen.
Reconcile(d) ==
  LET r == reader[d]
      local == IF r.pc = "load" THEN screen[d] ELSE r.local
      merged == MergeById(local, r.got, base[d])
  IN /\ Loading(d)
     /\ r.group > LastGroup
     /\ mirror' = [mirror EXCEPT ![d].loaded = TRUE, ![d].synced = r.got, ![d].rev = r.rev,
                                 ![d].setBack = SetsBack(d)]
     /\ reader' = [reader EXCEPT ![d] = IdleReader]
     /\ IF merged = local
          THEN timer' = [timer EXCEPT ![d] = TRUE] /\ UNCHANGED <<screen, unsaved>>
          ELSE /\ screen' = [screen EXCEPT ![d] = merged]
               /\ unsaved' = [unsaved EXCEPT ![d] = TRUE]
               /\ UNCHANGED timer
     /\ UNCHANGED <<stored, base, open, req, keys, serverVars, history>>

-----------------------------------------------------------------------------
(* Pushing this device's copy *)

\* The scheduled push: the newest snapshot waits, and a drain begins unless
\* one is under way.
PushTimer(d) ==
  /\ timer[d]
  /\ timer' = [timer EXCEPT ![d] = FALSE]
  /\ IF mirror[d].loaded
       THEN mirror' = [mirror EXCEPT ![d].waiting = TRUE, ![d].latest = screen[d],
                                     ![d].pc = IF @ = "idle" THEN "take" ELSE @]
       ELSE UNCHANGED mirror
  /\ UNCHANGED <<screen, stored, base, open, unsaved, reader, req, keys, serverVars, history>>

\* retry, when the connection returns.
Retry(d) ==
  /\ open[d]
  /\ mirror[d].waiting
  /\ mirror[d].pc = "idle"
  /\ mirror' = [mirror EXCEPT ![d].pc = "take"]
  /\ UNCHANGED <<screen, stored, base, open, unsaved, timer, reader, req, keys, serverVars,
                 history>>

\* drain takes the newest snapshot, until none waits.
TakeSnapshot(d) ==
  LET m == mirror[d]
  IN /\ m.pc = "take"
     /\ mirror' = [mirror EXCEPT ![d] =
          IF m.waiting
            THEN [m EXCEPT !.waiting = FALSE, !.snap = m.latest, !.latest = Nothing, !.pc = "ink"]
            ELSE [m EXCEPT !.pc = "idle", !.snap = Nothing]]
     /\ UNCHANGED <<screen, stored, base, open, unsaved, timer, reader, req, keys, serverVars,
                    history>>

Changed(d, r) == {i \in ItemsOf[r] : mirror[d].snap[i] # mirror[d].synced[i]}

\* Variant: the drain is not marked as ended after its last write.
AfterRecordStays(r) == IF r = "ink" THEN "notes" ELSE "done"

AfterRecord(r) == IF r = "ink" THEN "notes" ELSE "take"

\* pushAnnotations sends the ink that differs from what the server holds,
\* pushReaderState all the notes when one does.  A write is given the key of
\* the last one when it is the same write.
PushRecord(d, r) ==
  LET m == mirror[d]
      items == IF r = "ink" THEN Changed(d, r) ELSE Notes
      write == Write(m.rev[r], items, m.snap)
      key == IF m.slot[r].write = write THEN m.slot[r].key ELSE keys[d] + 1
  IN /\ m.pc = r
     /\ req[d] = NoReq
     /\ IF Changed(d, r) = {}
          THEN /\ base' = [base EXCEPT ![d] = IF r = "ink" THEN m.synced ELSE @]
               /\ mirror' = [mirror EXCEPT ![d].pc = AfterRecord(r)]
               /\ UNCHANGED <<req, keys>>
          ELSE /\ req' = [req EXCEPT ![d] = [record |-> r, write |-> write, key |-> key,
                                            answer |-> "sent", rev |-> 0]]
               /\ mirror' = [mirror EXCEPT ![d].slot[r] = [write |-> write, key |-> key]]
               /\ keys' = [keys EXCEPT ![d] = IF key > @ THEN key ELSE @]
               /\ UNCHANGED base
     /\ UNCHANGED <<screen, stored, open, unsaved, timer, reader, serverVars, history>>

\* Whether the server applies a write: its key is new and nothing was written
\* since the revision it expects.
Fits(d, q) ==
  /\ receipt[d][q.record].key # q.key
  /\ q.write.expected = rev[q.record]

\* sync_annotations and CatalogWorkspaceView.patch, under the row lock: the
\* items, the revision and the receipt in one transaction.  Erasing what is
\* not there leaves the ink revision alone.
ApplyWrite(d, q) ==
  LET r == q.record
      moves == r = "notes" \/ \E i \in q.write.items : q.write.content[i] # 0 \/ server[i] # 0
      after == IF moves THEN rev[r] + 1 ELSE rev[r]
  IN /\ server' = Taking(server, q.write.content, q.write.items)
     /\ rev' = [rev EXCEPT ![r] = after]
     /\ receipt' = [receipt EXCEPT ![d][r] = [key |-> q.key, rev |-> after]]

\* The server handles the write a device waits for.
HandleWrite(d) ==
  LET q == req[d]
  IN /\ q.answer = "sent"
     /\ IF Fits(d, q)
          THEN /\ ApplyWrite(d, q)
               /\ req' = [req EXCEPT ![d].answer = "done", ![d].rev = rev'[q.record]]
          ELSE /\ req' = [req EXCEPT ![d] =
                    IF receipt[d][q.record].key = q.key
                      THEN [@ EXCEPT !.answer = "done", !.rev = receipt[d][q.record].rev]
                      ELSE [@ EXCEPT !.answer = "conflict"]]
               /\ UNCHANGED <<server, rev, receipt>>
     /\ UNCHANGED <<screen, stored, base, open, unsaved, timer, mirror, reader, keys, late,
                    history>>

\* The server handles a write nobody waits for.
HandleLate(q) ==
  /\ late' = late \ {q}
  /\ IF Fits(q.from, q) THEN ApplyWrite(q.from, q) ELSE UNCHANGED <<server, rev, receipt>>
  /\ UNCHANGED <<screen, stored, base, open, unsaved, timer, mirror, reader, req, keys, history>>

\* A write succeeded: what the server holds is the baseline, saved at once.
WriteAnswered(d) ==
  LET q == req[d]
      synced == Taking(mirror[d].synced, q.write.content, q.write.items)
  IN /\ q.answer = "done"
     /\ mirror' = [mirror EXCEPT ![d].synced = synced, ![d].rev[q.record] = q.rev,
                                 ![d].slot[q.record] = [write |-> NoWrite, key |-> 0],
                                 ![d].pc = AfterRecord(q.record)]
     /\ base' = [base EXCEPT ![d] = synced]
     /\ req' = [req EXCEPT ![d] = NoReq]
     /\ UNCHANGED <<screen, stored, open, unsaved, timer, reader, keys, serverVars, history>>

\* Variant: a failed drain does not keep its snapshot.
WriteFailsForgets(d) ==
  /\ \/ req[d].answer = "conflict" /\ UNCHANGED <<faults, late>>
     \/ req[d].answer \in {"sent", "done"} /\ Fault /\ Orphan(d)
  /\ mirror' = [mirror EXCEPT ![d].pc = "idle", ![d].snap = Nothing]
  /\ req' = [req EXCEPT ![d] = NoReq]
  /\ UNCHANGED <<screen, stored, base, open, unsaved, timer, reader, keys, server, rev,
                 receipt, edits, visits, loads, erased>>

\* A write failed, in a conflict or for want of a connection: the drain ends
\* and keeps the newest snapshot.
WriteFails(d) ==
  /\ \/ req[d].answer = "conflict" /\ UNCHANGED <<faults, late>>
     \/ req[d].answer \in {"sent", "done"} /\ Fault /\ Orphan(d)
  /\ mirror' = [mirror EXCEPT ![d].pc = "idle", ![d].waiting = TRUE,
                  ![d].latest = IF mirror[d].waiting THEN @ ELSE mirror[d].snap,
                  ![d].snap = Nothing]
  /\ req' = [req EXCEPT ![d] = NoReq]
  /\ UNCHANGED <<screen, stored, base, open, unsaved, timer, reader, keys, server, rev, receipt,
                 edits, visits, loads, erased>>

-----------------------------------------------------------------------------
\* The drain runs on from one await to the next.
Running(d) == mirror[d].pc # "idle" /\ req[d] = NoReq

DeviceStep(d) ==
  \/ OpenWorkspace(d) \/ PersistWorkspace(d) \/ LeaveWorkspace(d) \/ KillTab(d)
  \/ \E i \in Items : Edit(d, i)
  \/ LoadAgain(d) \/ StartRefresh(d) \/ ProbeAnswered(d) \/ ReadFails(d) \/ Reconcile(d)
  \/ PushTimer(d) \/ Retry(d) \/ WriteAnswered(d) \/ WriteFails(d)

DrainStep(d) == Running(d) /\ (TakeSnapshot(d) \/ \E r \in Records : PushRecord(d, r))

ServerStep(d) == ProbeRead(d) \/ ReadGroup(d) \/ HandleWrite(d)

\* A drain that runs reads and writes its own device alone, so everything else
\* may as well wait until it awaits again.
Next ==
  \/ \E d \in Devices : DrainStep(d)
  \/ /\ \A d \in Devices : ~Running(d)
     /\ \/ \E d \in Devices : DeviceStep(d) \/ ServerStep(d)
        \/ \E q \in late : HandleLate(q)

\* While the workspace is open the autosave and the scheduled push run, it
\* probes every minute and reads again when the connection returns; a request
\* that is sent is answered or fails.
Fairness ==
  \A d \in Devices :
    /\ WF_vars(PersistWorkspace(d))
    /\ WF_vars(PushTimer(d))
    /\ WF_vars(Retry(d))
    /\ WF_vars(LoadAgain(d) \/ StartRefresh(d) \/ ProbeAnswered(d) \/ Reconcile(d))
    /\ WF_vars(DrainStep(d))
    /\ WF_vars(WriteAnswered(d) \/ WriteFails(d))
    /\ WF_vars(ProbeRead(d) \/ ReadGroup(d))
    /\ WF_vars(HandleWrite(d))

Spec == Init /\ [][Next]_vars
FairSpec == Spec /\ Fairness

-----------------------------------------------------------------------------
(* Properties *)

\* Every variable has its type.
TypeOK ==
  /\ screen \in [Devices -> [Items -> Contents]]
  /\ stored \in [Devices -> [Items -> Contents]]
  /\ base \in [Devices -> [Items -> Contents]]
  /\ server \in [Items -> Contents]
  /\ open \in [Devices -> BOOLEAN]
  /\ unsaved \in [Devices -> BOOLEAN]
  /\ timer \in [Devices -> BOOLEAN]
  /\ \A d \in Devices :
       /\ mirror[d].pc \in {"idle", "take"} \cup Records
       /\ reader[d].pc \in {"idle", "load", "probe", "probed", "refresh"}
       /\ req[d].answer \in {"none", "sent", "done", "conflict"}

\* syncedAnnotations and syncedNotes are what the server holds: at the server's
\* revision they are its content.  Every push is computed from them, so a
\* mirror that is wrong about one item erases or skips another device's work.
\* A sheet of one page group keeps this until a load that was overtaken by a
\* push replaces them under the next one (load, pushAnnotations).
SyncedHolds ==
  \A d \in Devices, r \in Records :
    mirror[d].loaded /\ ~mirror[d].setBack /\ mirror[d].rev[r] = rev[r]
      => \A i \in ItemsOf[r] : mirror[d].synced[i] = server[i]

\* The device has nothing to save, push, retry or read: it shows "saved" and a
\* probe would answer that nothing moved.
Settled(d) ==
  /\ open[d] /\ mirror[d].loaded
  /\ ~unsaved[d] /\ ~timer[d]
  /\ mirror[d].pc = "idle" /\ ~mirror[d].waiting
  /\ reader[d].pc = "idle"
  /\ mirror[d].rev = rev

\* Both devices converge: one that has settled shows what the server holds,
\* whatever was drawn, lost, answered late or merged on the way
\* (saveServerState, refreshServerState).
Agreement == \A d \in Devices : Settled(d) /\ ~mirror[d].setBack => screen[d] = server

\* "The fingerprint the server holds" (catalogServerSync.js:149), also of a
\* mirror that a load has set back.
FingerprintsHold ==
  \A d \in Devices : mirror[d].loaded /\ mirror[d].rev["ink"] = rev["ink"]
    => \A i \in Ink : mirror[d].synced[i] = server[i]

\* The merge tells "deleted here" from "added on another device": an item leaves
\* the server only if a reader erased it.
OnlyErasedIsErased ==
  [][\A i \in Items : server[i] # 0 /\ server'[i] = 0 => i \in erased]_vars

\* An edit reaches every device that stays open, through a lost request, a
\* failed read or a killed tab.
EventuallyAgree ==
  (\A d \in Devices : <>[]open[d]) => <>[](\A d \in Devices : screen[d] = server)

=============================================================================
