------------------------------ MODULE MCDevice ------------------------------
(* Four components that keep state on the device for TLC, in one run: the   *)
(* document intent of Focus (FocusIntent), the downloads (Downloads), the   *)
(* device notifications (DevicePush) and the mirror of a Focus sheet        *)
(* (FocusSync).  They share no state: part says which one a behaviour is    *)
(* of, and the others stay as they begin.                                   *)
EXTENDS FocusIntent, Downloads, DevicePush

VARIABLE part

\* The variables of FocusSync, with those whose names are taken under others.
VARIABLES screen, store, base, mounted, unsaved, pushTimer, mirror, reader, req, keys,
          records, rev, receipt, late, edits, failed, opened, loads, erased

sheetVars == <<screen, store, base, mounted, unsaved, pushTimer, mirror, reader, req, keys,
               records, rev, receipt, late, edits, failed, opened, loads, erased>>

\* One device with a mark and a note, with requests that fail and tabs that are
\* killed.
Sheet == INSTANCE FocusSync
  WITH Devices <- {"phone"}, Notes <- {"note"}, Groups <- <<{"mark"}>>, LastGroup <- 1,
       MaxEdits <- 2, MaxFaults <- 2, MaxVisits <- 2, MaxLoads <- 1,
       stored <- store, open <- mounted, timer <- pushTimer, server <- records,
       faults <- failed, visits <- opened

DeviceInit ==
  /\ part \in {"intent", "downloads", "push", "tabs", "sheet"}
  /\ IntentInit /\ DownloadsInit /\ PushInit /\ Sheet!Init

\* Bound: a delivery is tried again only while the browser has its first
\* subscription; where it has a renewed one, every delivery is tried once.
RetryOrRenewal == endpoints > 1 => \A d \in deliveries : d.tries <= 1

\* Bound: the notices are those of a browser with one tab ("push"), the second
\* tab is that of a browser without notices ("tabs").
OneTab == \A t \in PushTabs \ {"page"} : page[t] = None

NoNotices == notices = 0

\* Bound: four timestamps, two marks or acknowledgements under way and one
\* flush, beside the workspace's push.
FewCalls ==
  /\ now <= 4
  /\ Cardinality(marks) + Cardinality(acks) <= 2
  /\ Cardinality({t \in FlushTabs : flush[t] # NoFlush}) <= 1

DeviceNext ==
  /\ UNCHANGED part
  /\ \/ /\ part = "intent" /\ IntentNext /\ FewCalls'
        /\ UNCHANGED <<downloadVars, pushVars, sheetVars>>
     \/ /\ part = "downloads" /\ DownloadsNext
        /\ UNCHANGED <<intentVars, pushVars, sheetVars>>
     \/ /\ part \in {"push", "tabs"} /\ PushNext /\ RetryOrRenewal'
        /\ IF part = "push" THEN OneTab' ELSE NoNotices'
        /\ UNCHANGED <<intentVars, downloadVars, sheetVars>>
     \/ /\ part = "sheet" /\ Sheet!Next
        /\ UNCHANGED <<intentVars, downloadVars, pushVars>>

DeviceSpec ==
  DeviceInit /\ [][DeviceNext]_<<part, intentVars, downloadVars, pushVars, sheetVars>>

\* What a mirror takes for the server's content is the server's, and a device
\* that has settled shows it, through edits and erasures, requests that fail and
\* are answered late, a killed tab and a second visit (load, reconcile, drain,
\* pushAnnotations, pushReaderState, refresh).
SheetInStep == Sheet!SyncedHolds /\ Sheet!Agreement

=============================================================================
