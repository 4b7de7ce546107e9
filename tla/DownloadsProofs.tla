--------------------------- MODULE DownloadsProofs ---------------------------
(***************************************************************************)
(* What holds of the downloaded content (Downloads) for any number of tabs,*)
(* versions, sign-ins, removals and answers about access.                  *)
(***************************************************************************)
EXTENDS Downloads, TLAPS

Metas == [version : Nat, blocked : BOOLEAN]
Todos == {<<"pdf">>, <<"study">>, <<"pdf", "study">>}
LoadSteps == {"check", "request", "store", "put", "meta", "purge", "bundle", "list"}
Loads == [pc : LoadSteps, rev : Nat, want : [Items -> Nat], todo : Todos]
Drops == [pc : {"drop"}, rev : Nat, old : SUBSET Nat]
Removals == [pc : {"files", "record", "content"}, item : Items, files : SUBSET Nat]
Clearings == [pc : {"clear", "records"}, out : Nat]
LastClearings == [pc : {"contents"}, out : Nat, keys : SUBSET Items]
Answers == [pc : {"access"}, rev : Nat, version : Nat \ {0}, allowed : BOOLEAN]
Tasks == {NoTask} \cup Loads \cup Drops \cup Removals \cup Clearings \cup LastClearings \cup Answers

DownloadTypeOK ==
  /\ published \in [Items -> Nat \ {0}]
  /\ manifest \in [Items -> Nat]
  /\ cached \subseteq Nat /\ bundles \subseteq Nat
  /\ metadata \in [Items -> Metas]
  /\ login \in BOOLEAN /\ locked \in BOOLEAN /\ torn \in BOOLEAN
  /\ revision \in Nat
  /\ cacheLock \in DownloadTabs \cup {Nobody}
  /\ task \in [DownloadTabs -> Tasks]

-----------------------------------------------------------------------------
(* Types *)

\* The shape of a task, by its step.
LEMMA TaskShape ==
  ASSUME NEW k \in Tasks
  PROVE  /\ k.pc \in LoadSteps => k \in Loads
         /\ k.pc = "drop" => k \in Drops
         /\ k.pc \in {"files", "record", "content"} => k \in Removals
         /\ k.pc \in {"clear", "records"} => k \in Clearings
         /\ k.pc = "contents" => k \in LastClearings
         /\ k.pc = "access" => k \in Answers
BY DEF Tasks, NoTask, Loads, Drops, Removals, Clearings, LastClearings, Answers, LoadSteps

\* A download that goes on keeps its session, versions and parts.
LEMMA LoadGoes ==
  ASSUME NEW k \in Loads, NEW pc \in LoadSteps
  PROVE  /\ [k EXCEPT !.pc = pc] \in Loads
         /\ [k EXCEPT !.pc = pc].pc = pc
         /\ [k EXCEPT !.pc = pc].rev = k.rev
         /\ [k EXCEPT !.pc = pc].want = k.want
BY DEF Loads

\* After a part comes the next, or nothing.
LEMMA NextPartShape ==
  ASSUME DownloadTypeOK, NEW t \in DownloadTabs, task[t] \in Loads, NextPart(t)
  PROVE  /\ task' = [task EXCEPT ![t] = task'[t]]
         /\ task'[t] \in Tasks
         /\ task'[t].pc \in {"none", "check"}
<1> DEFINE rest == [task[t] EXCEPT !.pc = "check", !.todo = Tail(task[t].todo)]
<1>1. CASE Len(task[t].todo) = 1
  <2>1. task' = [task EXCEPT ![t] = NoTask]
    BY <1>1 DEF NextPart
  <2> QED
    BY <2>1 DEF DownloadTypeOK, Tasks, NoTask
<1>2. CASE Len(task[t].todo) # 1
  <2>1. task[t].todo = <<"pdf", "study">>
    BY <1>2 DEF Loads, Todos
  <2>2. Tail(task[t].todo) = <<"study">>
    BY <2>1
  <2>3. <<"study">> \in Todos /\ "check" \in LoadSteps
    BY DEF Todos, LoadSteps
  <2>4. rest \in Loads /\ rest.pc = "check"
    BY <2>2, <2>3 DEF Loads
  <2>5. task' = [task EXCEPT ![t] = rest]
    BY <1>2 DEF NextPart
  <2> HIDE DEF rest
  <2> QED
    BY <2>4, <2>5 DEF DownloadTypeOK, Tasks
<1> QED
  BY <1>1, <1>2

\* The parts of an item.
LEMMA DependencyShape == \A i \in Items : DependencyGraph(i) \in Todos
BY DEF Items, DependencyGraph, Todos

\* A step of tab t that changes no content: what the task becomes.
TaskSteps(t) ==
  /\ task' = [task EXCEPT ![t] = task'[t]]
  /\ task'[t] \in Tasks

\* What each step makes of the tab's task: its step, and the fields that the
\* invariants speak of.
LEMMA TaskBecomes ==
  ASSUME DownloadTypeOK, NEW t \in DownloadTabs
  PROVE  /\ Ends(t) => TaskSteps(t) /\ task'[t].pc = "none"
         /\ \A pc \in LoadSteps : task[t] \in Loads /\ Goes(t, pc) =>
              /\ TaskSteps(t) /\ task'[t].pc = pc
              /\ task'[t].rev = task[t].rev /\ task'[t].want = task[t].want
         /\ \A pc \in {"record", "content"} : task[t] \in Removals /\ Goes(t, pc) =>
              TaskSteps(t) /\ task'[t].pc = pc /\ task'[t].item = task[t].item
         /\ task[t] \in Clearings /\ Goes(t, "records") =>
              TaskSteps(t) /\ task'[t].pc = "records" /\ task'[t].out = task[t].out
         /\ \A out \in Nat : Clears(t, out) => TaskSteps(t) /\ task'[t] = [pc |-> "clear", out |-> out]
<1> USE DEF DownloadTypeOK, TaskSteps
<1>1. Ends(t) => TaskSteps(t) /\ task'[t].pc = "none"
  BY DEF Ends, Tasks, NoTask
<1>2. ASSUME NEW pc \in LoadSteps, task[t] \in Loads, Goes(t, pc)
      PROVE  /\ TaskSteps(t) /\ task'[t].pc = pc
             /\ task'[t].rev = task[t].rev /\ task'[t].want = task[t].want
  <2>1. task' = [task EXCEPT ![t] = [task[t] EXCEPT !.pc = pc]]
    BY <1>2 DEF Goes
  <2> QED
    BY <1>2, <2>1, LoadGoes DEF Tasks
<1>3. ASSUME NEW pc \in {"record", "content"}, task[t] \in Removals, Goes(t, pc)
      PROVE  TaskSteps(t) /\ task'[t].pc = pc /\ task'[t].item = task[t].item
  <2>1. task' = [task EXCEPT ![t] = [task[t] EXCEPT !.pc = pc]]
    BY <1>3 DEF Goes
  <2>2. /\ [task[t] EXCEPT !.pc = pc] \in Removals
        /\ [task[t] EXCEPT !.pc = pc].pc = pc /\ [task[t] EXCEPT !.pc = pc].item = task[t].item
    BY <1>3 DEF Removals
  <2> QED
    BY <2>1, <2>2 DEF Tasks
<1>4. ASSUME task[t] \in Clearings, Goes(t, "records")
      PROVE  TaskSteps(t) /\ task'[t].pc = "records" /\ task'[t].out = task[t].out
  <2>1. task' = [task EXCEPT ![t] = [task[t] EXCEPT !.pc = "records"]]
    BY <1>4 DEF Goes
  <2>2. /\ [task[t] EXCEPT !.pc = "records"] \in Clearings
        /\ [task[t] EXCEPT !.pc = "records"].pc = "records"
        /\ [task[t] EXCEPT !.pc = "records"].out = task[t].out
    BY <1>4 DEF Clearings
  <2> QED
    BY <2>1, <2>2 DEF Tasks
<1>5. ASSUME NEW out \in Nat, Clears(t, out)
      PROVE  TaskSteps(t) /\ task'[t] = [pc |-> "clear", out |-> out]
  <2>1. [pc |-> "clear", out |-> out] \in Clearings
    BY DEF Clearings
  <2> QED
    BY <1>5, <2>1 DEF Clears, Tasks
<1> QED
  BY <1>1, <1>2, <1>3, <1>4, <1>5

\* What each step of a download, of a removal or of an answer makes of the
\* tab's task.
LEMMA LoadSteps1 ==
  ASSUME DownloadTypeOK, NEW t \in DownloadTabs
  PROVE  /\ \A i \in Items, fetched \in BOOLEAN : DownloadOfflineItem(t, i, fetched) =>
              TaskSteps(t) /\ task'[t].pc = "check" /\ manifest' \in [Items -> Nat]
         /\ DownloadOne(t) => TaskSteps(t) /\ task'[t].pc \in {"none", "check", "request"}
         /\ PartArrives(t) => /\ TaskSteps(t) /\ task'[t].pc \in {"none", "store", "bundle"}
                              /\ task'[t].pc = "bundle" => task'[t].want = task[t].want
                                                           /\ published["study"] = task[t].want["study"]
         /\ StoreOpenedPdf(t) => TaskSteps(t) /\ task'[t].pc = "store"
<1> USE DEF DownloadTypeOK
<1>1. ASSUME NEW i \in Items, NEW fetched \in BOOLEAN, DownloadOfflineItem(t, i, fetched)
      PROVE  TaskSteps(t) /\ task'[t].pc = "check" /\ manifest' \in [Items -> Nat]
  <2>1. manifest' \in [Items -> Nat]
    BY <1>1 DEF DownloadOfflineItem
  <2>2. [pc |-> "check", rev |-> revision, want |-> manifest', todo |-> DependencyGraph(i)] \in Loads
    BY <2>1, DependencyShape DEF Loads, LoadSteps
  <2> QED
    BY <1>1, <2>1, <2>2 DEF DownloadOfflineItem, TaskSteps, Tasks
<1>2. ASSUME DownloadOne(t) PROVE TaskSteps(t) /\ task'[t].pc \in {"none", "check", "request"}
  <2>1. task[t] \in Loads
    BY <1>2, TaskShape DEF DownloadOne, LoadSteps
  <2>2. Ends(t) \/ NextPart(t) \/ Goes(t, "request")
    BY <1>2 DEF DownloadOne
  <2> QED
    BY <2>1, <2>2, TaskBecomes, NextPartShape DEF TaskSteps, LoadSteps
<1>3. ASSUME PartArrives(t)
      PROVE  /\ TaskSteps(t) /\ task'[t].pc \in {"none", "store", "bundle"}
             /\ task'[t].pc = "bundle" => task'[t].want = task[t].want
                                          /\ published["study"] = task[t].want["study"]
  <2>1. task[t] \in Loads
    BY <1>3, TaskShape DEF PartArrives, LoadSteps
  <2>2. \/ Ends(t) \/ Goes(t, "store")
        \/ Goes(t, "bundle") /\ published["study"] = task[t].want["study"]
    BY <1>3 DEF PartArrives
  <2> QED
    BY <2>1, <2>2, TaskBecomes DEF LoadSteps
<1>4. ASSUME StoreOpenedPdf(t) PROVE TaskSteps(t) /\ task'[t].pc = "store"
  <2>1. [pc |-> "store", rev |-> revision, want |-> manifest, todo |-> <<"pdf">>] \in Loads
    BY DEF Loads, LoadSteps, Todos
  <2> QED
    BY <1>4, <2>1 DEF StoreOpenedPdf, TaskSteps, Tasks
<1> QED
  BY <1>1, <1>2, <1>3, <1>4

\* The same for the steps that store.
LEMMA LoadSteps2 ==
  ASSUME DownloadTypeOK, NEW t \in DownloadTabs
  PROVE  /\ StorePdfBlob(t) => /\ TaskSteps(t) /\ task'[t].pc \in {"none", "check", "put"}
                               /\ task'[t].pc = "put" => task'[t].want = task[t].want /\ task'[t].rev = task[t].rev
         /\ PutFile(t) => /\ TaskSteps(t) /\ task'[t].pc \in {"none", "meta"} /\ task[t] \in Loads
                          /\ task'[t].pc = "meta" => task'[t].want = task[t].want /\ task'[t].rev = task[t].rev
         /\ PutMetadata(t) => /\ TaskSteps(t) /\ task'[t].pc \in {"none", "purge"} /\ task[t] \in Loads
                              /\ task'[t].pc = "purge" => task'[t].want = task[t].want /\ task'[t].rev = task[t].rev
         /\ PurgeOld(t) => TaskSteps(t) /\ task'[t].pc \in {"none", "check"} /\ task[t] \in Loads
         /\ PutBundle(t) => /\ TaskSteps(t) /\ task'[t].pc \in {"none", "list"} /\ task[t] \in Loads
                            /\ task'[t].pc = "list" => task'[t].want = task[t].want
         /\ ListBundles(t) => /\ TaskSteps(t) /\ task'[t].pc \in {"none", "drop"} /\ task[t] \in Loads
                              /\ task'[t].pc = "drop" => task'[t].old = bundles \ {task[t].want["study"]}
         /\ DropBundles(t) => TaskSteps(t) /\ task'[t].pc = "none"
<1> USE DEF DownloadTypeOK
<1>0. task[t].pc \in LoadSteps => task[t] \in Loads
  BY TaskShape
<1>1. ASSUME StorePdfBlob(t)
      PROVE  /\ TaskSteps(t) /\ task'[t].pc \in {"none", "check", "put"}
             /\ task'[t].pc = "put" => task'[t].want = task[t].want /\ task'[t].rev = task[t].rev
  <2>1. task[t] \in Loads /\ (Ends(t) \/ NextPart(t) \/ Goes(t, "put"))
    BY <1>0, <1>1 DEF StorePdfBlob, LoadSteps
  <2> QED
    BY <2>1, TaskBecomes, NextPartShape DEF TaskSteps, LoadSteps
<1>2. ASSUME PutFile(t)
      PROVE  /\ TaskSteps(t) /\ task'[t].pc \in {"none", "meta"} /\ task[t] \in Loads
             /\ task'[t].pc = "meta" => task'[t].want = task[t].want /\ task'[t].rev = task[t].rev
  <2>1. task[t] \in Loads /\ (Ends(t) \/ Goes(t, "meta"))
    BY <1>0, <1>2 DEF PutFile, LoadSteps
  <2> QED
    BY <2>1, TaskBecomes DEF LoadSteps
<1>3. ASSUME PutMetadata(t)
      PROVE  /\ TaskSteps(t) /\ task'[t].pc \in {"none", "purge"} /\ task[t] \in Loads
             /\ task'[t].pc = "purge" => task'[t].want = task[t].want /\ task'[t].rev = task[t].rev
  <2>1. task[t] \in Loads /\ (Ends(t) \/ Goes(t, "purge"))
    BY <1>0, <1>3 DEF PutMetadata, LoadSteps
  <2> QED
    BY <2>1, TaskBecomes DEF LoadSteps
<1>4. ASSUME PurgeOld(t) PROVE TaskSteps(t) /\ task'[t].pc \in {"none", "check"} /\ task[t] \in Loads
  <2>1. task[t] \in Loads /\ NextPart(t)
    BY <1>0, <1>4 DEF PurgeOld, LoadSteps
  <2> QED
    BY <2>1, NextPartShape DEF TaskSteps
<1>5. ASSUME PutBundle(t)
      PROVE  /\ TaskSteps(t) /\ task'[t].pc \in {"none", "list"} /\ task[t] \in Loads
             /\ task'[t].pc = "list" => task'[t].want = task[t].want
  <2>1. task[t] \in Loads /\ (Ends(t) \/ Goes(t, "list"))
    BY <1>0, <1>5 DEF PutBundle, LoadSteps
  <2> QED
    BY <2>1, TaskBecomes DEF LoadSteps
<1>6. ASSUME ListBundles(t)
      PROVE  /\ TaskSteps(t) /\ task'[t].pc \in {"none", "drop"} /\ task[t] \in Loads
             /\ task'[t].pc = "drop" => task'[t].old = bundles \ {task[t].want["study"]}
  <2>1. task[t] \in Loads
    BY <1>0, <1>6 DEF ListBundles, LoadSteps
  <2>2. [pc |-> "drop", rev |-> task[t].rev, old |-> bundles \ {task[t].want["study"]}] \in Drops
    BY <2>1 DEF Loads, Drops
  <2>3. task' = [task EXCEPT ![t] = IF ~Current(t) THEN NoTask
                 ELSE [pc |-> "drop", rev |-> task[t].rev, old |-> bundles \ {task[t].want["study"]}]]
    BY <1>6 DEF ListBundles
  <2> QED
    BY <2>1, <2>2, <2>3 DEF TaskSteps, Tasks, NoTask
<1>7. DropBundles(t) => TaskSteps(t) /\ task'[t].pc = "none"
  BY TaskBecomes DEF DropBundles
<1> QED
  BY <1>1, <1>2, <1>3, <1>4, <1>5, <1>6, <1>7

\* The same for the steps that remove, and for an answer about access.
LEMMA RemovalSteps ==
  ASSUME DownloadTypeOK, NEW t \in DownloadTabs
  PROVE  /\ \A i \in Items : RemoveOfflineItem(t, i) =>
              /\ TaskSteps(t) /\ task'[t].pc = "files" /\ task'[t].item = i
              /\ task'[t].files = IF i = "pdf" THEN cached ELSE {}
         /\ RemoveFiles(t) => /\ TaskSteps(t) /\ task'[t].pc = "record" /\ task[t] \in Removals
                              /\ task'[t].item = task[t].item
         /\ RemoveRecord(t) => /\ TaskSteps(t) /\ task'[t].pc = "content" /\ task[t] \in Removals
                               /\ task'[t].item = task[t].item
         /\ RemoveContent(t) => TaskSteps(t) /\ task'[t].pc = "none" /\ task[t] \in Removals
         /\ ClearAll(t) => TaskSteps(t) /\ task'[t].pc = "clear" /\ task'[t].out = 0
         /\ ForgetUser(t) => TaskSteps(t) /\ task'[t].pc = "clear" /\ task'[t].out = revision + 1
         /\ ClearFiles(t) => /\ TaskSteps(t) /\ task'[t].pc = "records" /\ task[t] \in Clearings
                             /\ task'[t].out = task[t].out
         /\ ClearRecords(t) => /\ TaskSteps(t) /\ task'[t].pc = "contents" /\ task[t] \in Clearings
                               /\ task'[t].out = task[t].out
                               /\ task'[t].keys = {i \in Items : metadata[i] # NoMeta}
         /\ ClearMetadata(t) => TaskSteps(t) /\ task'[t].pc = "none" /\ task[t] \in LastClearings
         /\ TabCloses(t) => TaskSteps(t) /\ task'[t].pc = "none"
         /\ \A v \in 1..PdfVersions, allowed \in BOOLEAN : AccessAnswered(t, v, allowed) =>
              TaskSteps(t) /\ task'[t].pc = "access"
         /\ SetStoredPdfAccess(t) => TaskSteps(t) /\ task'[t].pc = "none" /\ task[t] \in Answers
<1> USE DEF DownloadTypeOK
<1>1. ASSUME NEW i \in Items, RemoveOfflineItem(t, i)
      PROVE  /\ TaskSteps(t) /\ task'[t].pc = "files" /\ task'[t].item = i
             /\ task'[t].files = IF i = "pdf" THEN cached ELSE {}
  <2>1. [pc |-> "files", item |-> i, files |-> IF i = "pdf" THEN cached ELSE {}] \in Removals
    BY DEF Removals
  <2> QED
    BY <1>1, <2>1 DEF RemoveOfflineItem, TaskSteps, Tasks
<1>2. ASSUME RemoveFiles(t)
      PROVE  TaskSteps(t) /\ task'[t].pc = "record" /\ task[t] \in Removals /\ task'[t].item = task[t].item
  <2>1. task[t] \in Removals
    BY <1>2, TaskShape DEF RemoveFiles
  <2> QED
    BY <1>2, <2>1, TaskBecomes DEF RemoveFiles
<1>3. ASSUME RemoveRecord(t)
      PROVE  TaskSteps(t) /\ task'[t].pc = "content" /\ task[t] \in Removals /\ task'[t].item = task[t].item
  <2>1. task[t] \in Removals
    BY <1>3, TaskShape DEF RemoveRecord
  <2> QED
    BY <1>3, <2>1, TaskBecomes DEF RemoveRecord
<1>4. ASSUME RemoveContent(t) PROVE TaskSteps(t) /\ task'[t].pc = "none" /\ task[t] \in Removals
  BY <1>4, TaskShape, TaskBecomes DEF RemoveContent
<1>5. ASSUME ClearAll(t) PROVE TaskSteps(t) /\ task'[t].pc = "clear" /\ task'[t].out = 0
  <2>1. TaskSteps(t) /\ task'[t] = [pc |-> "clear", out |-> 0]
    BY <1>5, TaskBecomes DEF ClearAll
  <2> QED
    BY <2>1
<1>6. ASSUME ForgetUser(t) PROVE TaskSteps(t) /\ task'[t].pc = "clear" /\ task'[t].out = revision + 1
  <2>1. revision + 1 \in Nat /\ Clears(t, revision + 1)
    BY <1>6 DEF ForgetUser
  <2>2. TaskSteps(t) /\ task'[t] = [pc |-> "clear", out |-> revision + 1]
    BY <2>1, TaskBecomes
  <2> QED
    BY <2>2
<1>7. ASSUME ClearFiles(t)
      PROVE  TaskSteps(t) /\ task'[t].pc = "records" /\ task[t] \in Clearings /\ task'[t].out = task[t].out
  <2>1. task[t] \in Clearings
    BY <1>7, TaskShape DEF ClearFiles
  <2> QED
    BY <1>7, <2>1, TaskBecomes DEF ClearFiles
<1>8. ASSUME ClearRecords(t)
      PROVE  /\ TaskSteps(t) /\ task'[t].pc = "contents" /\ task[t] \in Clearings
             /\ task'[t].out = task[t].out
             /\ task'[t].keys = {i \in Items : metadata[i] # NoMeta}
  <2>1. task[t] \in Clearings
    BY <1>8, TaskShape DEF ClearRecords
  <2>2. [pc |-> "contents", out |-> task[t].out, keys |-> {i \in Items : metadata[i] # NoMeta}] \in LastClearings
    BY <2>1 DEF Clearings, LastClearings
  <2> QED
    BY <1>8, <2>1, <2>2 DEF ClearRecords, TaskSteps, Tasks
<1>9. ASSUME ClearMetadata(t) PROVE TaskSteps(t) /\ task'[t].pc = "none" /\ task[t] \in LastClearings
  BY <1>9, TaskShape, TaskBecomes DEF ClearMetadata
<1>10. ASSUME TabCloses(t) PROVE TaskSteps(t) /\ task'[t].pc = "none"
  BY <1>10, TaskBecomes DEF TabCloses
<1>11. ASSUME NEW v \in 1..PdfVersions, NEW allowed \in BOOLEAN, AccessAnswered(t, v, allowed)
       PROVE  TaskSteps(t) /\ task'[t].pc = "access"
  <2>1. v \in Nat \ {0}
    OBVIOUS
  <2>2. [pc |-> "access", rev |-> revision, version |-> v, allowed |-> allowed] \in Answers
    BY <2>1 DEF Answers
  <2> QED
    BY <1>11, <2>2 DEF AccessAnswered, TaskSteps, Tasks
<1>12. ASSUME SetStoredPdfAccess(t) PROVE TaskSteps(t) /\ task'[t].pc = "none" /\ task[t] \in Answers
  BY <1>12, TaskShape, TaskBecomes DEF SetStoredPdfAccess
<1> QED
  BY <1>1, <1>2, <1>3, <1>4, <1>5, <1>6, <1>7, <1>8, <1>9, <1>10, <1>11, <1>12

\* Every step keeps the types.
LEMMA DownloadTypeStep == DownloadTypeOK /\ [DownloadsNext]_downloadVars => DownloadTypeOK'
<1> SUFFICES ASSUME DownloadTypeOK, [DownloadsNext]_downloadVars PROVE DownloadTypeOK'
  OBVIOUS
<1>0. ASSUME NEW t \in DownloadTabs, TaskSteps(t) PROVE task' \in [DownloadTabs -> Tasks]
  BY <1>0 DEF DownloadTypeOK, TaskSteps
<1>m. NoMeta \in Metas
  BY DEF NoMeta, Metas
<1> USE DEF DownloadTypeOK
<1>1. ASSUME NEW i \in Items, Publish(i) PROVE DownloadTypeOK'
  BY <1>1 DEF Publish
<1>2. CASE SignInAgain
  BY <1>2, Zenon DEF SignInAgain
<1>3. ASSUME NEW t \in DownloadTabs, NEW i \in Items, NEW fetched \in BOOLEAN,
             DownloadOfflineItem(t, i, fetched)
      PROVE DownloadTypeOK'
  BY <1>0, <1>3, LoadSteps1 DEF DownloadOfflineItem
<1>4. ASSUME NEW t \in DownloadTabs, DownloadOne(t) \/ PartArrives(t) \/ StoreOpenedPdf(t)
      PROVE DownloadTypeOK'
  <2>1. TaskSteps(t)
    BY <1>4, LoadSteps1
  <2> QED
    BY <1>0, <1>4, <2>1 DEF DownloadOne, PartArrives, StoreOpenedPdf
<1>5. ASSUME NEW t \in DownloadTabs, StorePdfBlob(t) PROVE DownloadTypeOK'
  BY <1>0, <1>5, LoadSteps2 DEF StorePdfBlob
<1>6. ASSUME NEW t \in DownloadTabs, PutFile(t) PROVE DownloadTypeOK'
  <2>1. TaskSteps(t) /\ task[t].want["pdf"] \in Nat
    BY <1>6, LoadSteps2 DEF Loads, Items
  <2>2. cached' \subseteq Nat /\ cacheLock' \in DownloadTabs \cup {Nobody}
    BY <1>6, <2>1 DEF PutFile, WithFile, Unlocks
  <2> QED
    BY <1>0, <1>6, <2>1, <2>2 DEF PutFile
<1>7. ASSUME NEW t \in DownloadTabs, PutMetadata(t) PROVE DownloadTypeOK'
  <2>1. TaskSteps(t) /\ task[t].want["pdf"] \in Nat
    BY <1>7, LoadSteps2 DEF Loads, Items
  <2>2. [version |-> task[t].want["pdf"], blocked |-> FALSE] \in Metas
    BY <2>1 DEF Metas
  <2>3. metadata' \in [Items -> Metas]
    BY <1>7, <2>2 DEF PutMetadata
  <2>4. cached' \subseteq Nat /\ cacheLock' \in DownloadTabs \cup {Nobody}
    BY <1>7 DEF PutMetadata, Unlocks
  <2> QED
    BY <1>0, <1>7, <2>1, <2>3, <2>4 DEF PutMetadata
<1>8. ASSUME NEW t \in DownloadTabs, PurgeOld(t) PROVE DownloadTypeOK'
  BY <1>0, <1>8, LoadSteps2 DEF PurgeOld, Unlocks
<1>9. ASSUME NEW t \in DownloadTabs, PutBundle(t) PROVE DownloadTypeOK'
  <2>1. TaskSteps(t) /\ task[t].want["study"] \in Nat
    BY <1>9, LoadSteps2 DEF Loads, Items
  <2>2. [version |-> task[t].want["study"], blocked |-> FALSE] \in Metas
    BY <2>1 DEF Metas
  <2>3. metadata' \in [Items -> Metas] /\ bundles' \subseteq Nat
    BY <1>9, <2>1, <2>2 DEF PutBundle
  <2>4. torn' \in BOOLEAN
    BY <1>9 DEF PutBundle
  <2>5. UNCHANGED <<published, manifest, cached, login, revision, cacheLock, locked>>
    BY <1>9 DEF PutBundle
  <2> QED
    BY <1>0, <2>1, <2>3, <2>4, <2>5
<1>10. ASSUME NEW t \in DownloadTabs, ListBundles(t) \/ DropBundles(t) PROVE DownloadTypeOK'
  <2>1. TaskSteps(t)
    BY <1>10, LoadSteps2
  <2> QED
    BY <1>0, <1>10, <2>1 DEF ListBundles, DropBundles
<1>11. ASSUME NEW t \in DownloadTabs, NEW i \in Items, RemoveOfflineItem(t, i) PROVE DownloadTypeOK'
  BY <1>0, <1>11, RemovalSteps DEF RemoveOfflineItem
<1>12. ASSUME NEW t \in DownloadTabs, RemoveFiles(t) \/ RemoveContent(t) PROVE DownloadTypeOK'
  <2>1. TaskSteps(t)
    BY <1>12, RemovalSteps
  <2> QED
    BY <1>0, <1>12, <2>1 DEF RemoveFiles, RemoveContent
<1>13. ASSUME NEW t \in DownloadTabs, RemoveRecord(t) PROVE DownloadTypeOK'
  <2>1. TaskSteps(t) /\ task[t].item \in Items
    BY <1>13, RemovalSteps DEF Removals
  <2> QED
    BY <1>0, <1>m, <1>13, <2>1 DEF RemoveRecord
<1>14. ASSUME NEW t \in DownloadTabs, ClearAll(t) PROVE DownloadTypeOK'
  BY <1>0, <1>14, RemovalSteps DEF ClearAll
<1>15. ASSUME NEW t \in DownloadTabs, ForgetUser(t) PROVE DownloadTypeOK'
  <2>1. login' \in BOOLEAN
    BY <1>15, Zenon DEF ForgetUser
  <2>2. TaskSteps(t)
    BY <1>15, RemovalSteps
  <2>3. revision' \in Nat /\ torn' \in BOOLEAN
    BY <1>15 DEF ForgetUser
  <2>4. UNCHANGED <<published, manifest, cached, metadata, bundles, cacheLock, locked>>
    BY <1>15 DEF ForgetUser
  <2> QED
    BY <1>0, <2>1, <2>2, <2>3, <2>4
<1>16. ASSUME NEW t \in DownloadTabs, ClearFiles(t) \/ ClearRecords(t) PROVE DownloadTypeOK'
  <2>1. TaskSteps(t)
    BY <1>16, RemovalSteps
  <2> QED
    BY <1>0, <1>16, <2>1 DEF ClearFiles, ClearRecords
<1>17. ASSUME NEW t \in DownloadTabs, ClearMetadata(t) PROVE DownloadTypeOK'
  <2>1. TaskSteps(t)
    BY <1>17, RemovalSteps
  <2>2. metadata' \in [Items -> Metas] /\ manifest' \in [Items -> Nat]
    BY <1>m, <1>17 DEF ClearMetadata
  <2> QED
    BY <1>0, <1>17, <2>1, <2>2 DEF ClearMetadata
<1>18. ASSUME NEW t \in DownloadTabs, TabCloses(t) PROVE DownloadTypeOK'
  BY <1>0, <1>18, RemovalSteps DEF TabCloses
<1>19. ASSUME NEW t \in DownloadTabs, NEW v \in 1..PdfVersions, NEW allowed \in BOOLEAN,
              AccessAnswered(t, v, allowed)
       PROVE DownloadTypeOK'
  BY <1>0, <1>19, RemovalSteps DEF AccessAnswered
<1>20. ASSUME NEW t \in DownloadTabs, SetStoredPdfAccess(t) PROVE DownloadTypeOK'
  <2>1. TaskSteps(t)
    BY <1>20, RemovalSteps
  <2>2. metadata' \in [Items -> Metas]
    <3>1. [metadata["pdf"] EXCEPT !.blocked = ~task[t].allowed] \in Metas
      BY DEF Metas, Items
    <3> QED
      BY <1>20, <3>1 DEF SetStoredPdfAccess
  <2> QED
    BY <1>0, <1>20, <2>1, <2>2 DEF SetStoredPdfAccess
<1>21. CASE UNCHANGED downloadVars
  BY <1>21 DEF downloadVars
<1> QED
  BY <1>1, <1>2, <1>3, <1>4, <1>5, <1>6, <1>7, <1>8, <1>9, <1>10, <1>11, <1>12, <1>13, <1>14, <1>15,
     <1>16, <1>17, <1>18, <1>19, <1>20, <1>21 DEF DownloadsNext

\* The types hold from the start on.
THEOREM DownloadsTyped == DownloadsSpec => []DownloadTypeOK
<1>1. ASSUME DownloadsInit PROVE DownloadTypeOK
  <2>1. login \in BOOLEAN /\ locked \in BOOLEAN /\ torn \in BOOLEAN
    BY <1>1, Zenon DEF DownloadsInit
  <2>2. NoMeta \in Metas
    BY DEF NoMeta, Metas
  <2> QED
    BY <1>1, <2>1, <2>2 DEF DownloadsInit, DownloadTypeOK, Tasks
<1> QED
  BY <1>1, DownloadTypeStep, PTL DEF DownloadsSpec

-----------------------------------------------------------------------------
(* The lock, and denials *)

\* Who writes a file or its record holds the lock of mutateOfflineCache.
LockHeld == \A t \in DownloadTabs : task[t].pc \in {"put", "meta", "purge"} => cacheLock = t

\* What is being stored has not been denied since the record was looked at.
StoreIsAllowed ==
  \A t \in DownloadTabs : task[t].pc \in {"put", "meta"} => ~DeniedHere(task[t].want["pdf"])

DenialInv == LockHeld /\ StoreIsAllowed

\* A step that neither starts nor continues a store, takes no lock and leaves
\* the record of the PDF alone or removes it.
LEMMA NoStore ==
  ASSUME DownloadTypeOK, DenialInv, NEW t \in DownloadTabs, TaskSteps(t),
         task'[t].pc \notin {"put", "meta", "purge"},
         cacheLock' = cacheLock \/ (cacheLock = t /\ cacheLock' = Nobody),
         metadata'["pdf"] \in {metadata["pdf"], NoMeta}
  PROVE  DenialInv'
<1>1. \A u \in DownloadTabs \ {t} : task'[u] = task[u]
  BY DEF TaskSteps, DownloadTypeOK
<1>2. LockHeld'
  BY <1>1, NobodyIsNoTab DEF LockHeld, DenialInv
<1>3. ASSUME NEW u \in DownloadTabs \ {t}, task[u].pc \in {"put", "meta"}, DeniedHere(task[u].want["pdf"])'
      PROVE FALSE
  <2>1. metadata'["pdf"].blocked = TRUE /\ task'[u].want["pdf"] = task[u].want["pdf"]
    BY <1>1, <1>3 DEF DeniedHere
  <2>2. metadata'["pdf"] = metadata["pdf"]
    BY <2>1 DEF NoMeta
  <2> QED
    BY <1>3, <2>1, <2>2 DEF DeniedHere, DenialInv, StoreIsAllowed
<1>4. StoreIsAllowed'
  BY <1>1, <1>3 DEF StoreIsAllowed
<1> QED
  BY <1>2, <1>4 DEF DenialInv

\* No step lets a store run over a denial: an answer about access waits for
\* the lock that every store holds.
LEMMA DenialStep == DownloadTypeOK /\ DenialInv /\ [DownloadsNext]_downloadVars => DenialInv'
<1> SUFFICES ASSUME DownloadTypeOK, DenialInv, [DownloadsNext]_downloadVars PROVE DenialInv'
  OBVIOUS
<1>0. ASSUME UNCHANGED <<task, cacheLock, metadata>> PROVE DenialInv'
  BY <1>0 DEF DenialInv, LockHeld, StoreIsAllowed, DeniedHere
<1>1. ASSUME NEW i \in Items, Publish(i) PROVE DenialInv'
  BY <1>0, <1>1 DEF Publish
<1>2. CASE SignInAgain
  BY <1>0, <1>2 DEF SignInAgain
<1>3. ASSUME NEW t \in DownloadTabs, NEW i \in Items, NEW fetched \in BOOLEAN,
             DownloadOfflineItem(t, i, fetched)
      PROVE DenialInv'
  BY <1>3, LoadSteps1, NoStore DEF DownloadOfflineItem
<1>4. ASSUME NEW t \in DownloadTabs, DownloadOne(t) \/ PartArrives(t) \/ StoreOpenedPdf(t)
      PROVE DenialInv'
  <2>1. TaskSteps(t) /\ task'[t].pc \notin {"put", "meta", "purge"}
    BY <1>4, LoadSteps1
  <2>2. UNCHANGED <<cacheLock, metadata>>
    BY <1>4 DEF DownloadOne, PartArrives, StoreOpenedPdf
  <2> QED
    BY <2>1, <2>2, NoStore
<1>5. ASSUME NEW t \in DownloadTabs, StorePdfBlob(t) PROVE DenialInv'
  <2>1. TaskSteps(t) /\ task'[t].pc \in {"none", "check", "put"}
    BY <1>5, LoadSteps2
  <2>2. metadata' = metadata /\ cacheLock = Nobody
    BY <1>5 DEF StorePdfBlob
  <2>3. CASE UNCHANGED cacheLock /\ (Ends(t) \/ NextPart(t))
    <3>1. task[t] \in Loads
      BY <1>5, TaskShape DEF StorePdfBlob, LoadSteps, DownloadTypeOK
    <3>2. task'[t].pc \in {"none", "check"}
      BY <2>3, <3>1, TaskBecomes, NextPartShape
    <3> QED
      BY <2>1, <2>2, <2>3, <3>2, NoStore
  <2>4. CASE MayStore(task[t].want["pdf"]) /\ Goes(t, "put") /\ cacheLock' = t
    <3>1. \A u \in DownloadTabs \ {t} : task'[u] = task[u] /\ task[u].pc \notin {"put", "meta", "purge"}
      BY <2>1, <2>2, NobodyIsNoTab DEF TaskSteps, DownloadTypeOK, DenialInv, LockHeld
    <3>2. task'[t].pc = "put" /\ task'[t].want = task[t].want
      BY <1>5, <2>4, TaskBecomes, TaskShape DEF StorePdfBlob, LoadSteps, DownloadTypeOK
    <3> QED
      BY <2>2, <2>4, <3>1, <3>2 DEF DenialInv, LockHeld, StoreIsAllowed, MayStore, DeniedHere
  <2> QED
    BY <1>5, <2>3, <2>4 DEF StorePdfBlob
<1>6. ASSUME NEW t \in DownloadTabs, PutFile(t) PROVE DenialInv'
  <2>1. /\ TaskSteps(t) /\ task'[t].pc \in {"none", "meta"} /\ task[t].pc = "put"
        /\ task'[t].pc = "meta" => task'[t].want = task[t].want
    BY <1>6, LoadSteps2 DEF PutFile
  <2>2. metadata' = metadata /\ cacheLock = t
    BY <1>6 DEF PutFile, DenialInv, LockHeld
  <2>3. CASE task'[t].pc = "meta" /\ cacheLock' = cacheLock
    <3>1. \A u \in DownloadTabs \ {t} : task'[u] = task[u]
      BY <2>1 DEF TaskSteps, DownloadTypeOK
    <3> QED
      BY <2>1, <2>2, <2>3, <3>1 DEF DenialInv, LockHeld, StoreIsAllowed, DeniedHere
  <2>4. CASE Ends(t) /\ Unlocks
    BY <2>1, <2>2, <2>4, NoStore, TaskBecomes DEF Unlocks
  <2>5. Goes(t, "meta") => task'[t].pc = "meta"
    BY <1>6, LoadSteps2, TaskBecomes DEF LoadSteps
  <2> QED
    BY <1>6, <2>3, <2>4, <2>5 DEF PutFile
<1>7. ASSUME NEW t \in DownloadTabs, PutMetadata(t) PROVE DenialInv'
  <2>1. TaskSteps(t) /\ task'[t].pc \in {"none", "purge"} /\ task[t].pc = "meta"
    BY <1>7, LoadSteps2 DEF PutMetadata
  <2>2. cacheLock = t
    BY <1>7 DEF PutMetadata, DenialInv, LockHeld
  <2>3. \A u \in DownloadTabs \ {t} : task'[u] = task[u] /\ task[u].pc \notin {"put", "meta", "purge"}
    BY <2>1, <2>2 DEF TaskSteps, DownloadTypeOK, DenialInv, LockHeld
  <2>4. task'[t].pc = "purge" => cacheLock' = cacheLock
    BY <1>7, <2>1, TaskBecomes DEF PutMetadata
  <2> QED
    BY <2>1, <2>2, <2>3, <2>4 DEF DenialInv, LockHeld, StoreIsAllowed
<1>8. ASSUME NEW t \in DownloadTabs, PurgeOld(t) PROVE DenialInv'
  <2>1. TaskSteps(t) /\ task'[t].pc \in {"none", "check"}
    BY <1>8, LoadSteps2
  <2>2. metadata' = metadata /\ cacheLock = t /\ cacheLock' = Nobody
    BY <1>8 DEF PurgeOld, Unlocks, DenialInv, LockHeld
  <2> QED
    BY <2>1, <2>2, NoStore
<1>9. ASSUME NEW t \in DownloadTabs, PutBundle(t) PROVE DenialInv'
  <2>1. TaskSteps(t) /\ task'[t].pc \in {"none", "list"}
    BY <1>9, LoadSteps2
  <2>2. metadata'["pdf"] = metadata["pdf"] /\ cacheLock' = cacheLock
    BY <1>9 DEF PutBundle, DownloadTypeOK, Items
  <2> QED
    BY <2>1, <2>2, NoStore
<1>10. ASSUME NEW t \in DownloadTabs, ListBundles(t) \/ DropBundles(t) PROVE DenialInv'
  <2>1. TaskSteps(t) /\ task'[t].pc \in {"none", "drop"}
    BY <1>10, LoadSteps2
  <2>2. UNCHANGED <<metadata, cacheLock>>
    BY <1>10 DEF ListBundles, DropBundles
  <2> QED
    BY <2>1, <2>2, NoStore
<1>11. ASSUME NEW t \in DownloadTabs, NEW i \in Items, RemoveOfflineItem(t, i) PROVE DenialInv'
  BY <1>11, RemovalSteps, NoStore DEF RemoveOfflineItem
<1>12. ASSUME NEW t \in DownloadTabs, RemoveFiles(t) \/ RemoveContent(t) \/ ClearAll(t) \/ ForgetUser(t)
                                      \/ ClearFiles(t) \/ ClearRecords(t)
       PROVE DenialInv'
  <2>1. TaskSteps(t) /\ task'[t].pc \notin {"put", "meta", "purge"}
    BY <1>12, RemovalSteps
  <2>2. UNCHANGED <<metadata, cacheLock>>
    BY <1>12 DEF RemoveFiles, RemoveContent, ClearAll, ForgetUser, ClearFiles, ClearRecords
  <2> QED
    BY <2>1, <2>2, NoStore
<1>13. ASSUME NEW t \in DownloadTabs, RemoveRecord(t) \/ ClearMetadata(t) PROVE DenialInv'
  <2>1. TaskSteps(t) /\ task'[t].pc \in {"none", "content"}
    BY <1>13, RemovalSteps
  <2>2. metadata'["pdf"] \in {metadata["pdf"], NoMeta} /\ cacheLock' = cacheLock
    BY <1>13 DEF RemoveRecord, ClearMetadata, DownloadTypeOK, Items
  <2> QED
    BY <2>1, <2>2, NoStore
<1>14. ASSUME NEW t \in DownloadTabs, TabCloses(t) PROVE DenialInv'
  <2>1. TaskSteps(t) /\ task'[t].pc = "none"
    BY <1>14, RemovalSteps
  <2>2. metadata' = metadata /\ cacheLock' = IF cacheLock = t THEN Nobody ELSE cacheLock
    BY <1>14 DEF TabCloses
  <2> QED
    BY <2>1, <2>2, NoStore
<1>15. ASSUME NEW t \in DownloadTabs, NEW v \in 1..PdfVersions, NEW allowed \in BOOLEAN,
              AccessAnswered(t, v, allowed)
       PROVE DenialInv'
  BY <1>15, RemovalSteps, NoStore DEF AccessAnswered
<1>16. ASSUME NEW t \in DownloadTabs, SetStoredPdfAccess(t) PROVE DenialInv'
  <2>1. TaskSteps(t) /\ task'[t].pc = "none"
    BY <1>16, RemovalSteps
  <2>2. cacheLock = Nobody /\ cacheLock' = cacheLock
    BY <1>16 DEF SetStoredPdfAccess
  <2>3. \A u \in DownloadTabs : task[u].pc \notin {"put", "meta", "purge"}
    BY <2>2, NobodyIsNoTab DEF DenialInv, LockHeld
  <2>4. \A u \in DownloadTabs : task'[u].pc \notin {"put", "meta", "purge"}
    BY <2>1, <2>3 DEF TaskSteps, DownloadTypeOK
  <2> QED
    BY <2>4 DEF DenialInv, LockHeld, StoreIsAllowed
<1>17. CASE UNCHANGED downloadVars
  BY <1>0, <1>17 DEF downloadVars
<1> QED
  BY <1>1, <1>2, <1>3, <1>4, <1>5, <1>6, <1>7, <1>8, <1>9, <1>10, <1>11, <1>12, <1>13, <1>14, <1>15,
     <1>16, <1>17 DEF DownloadsNext

\* The inductive invariant of the lock.
LEMMA DenialInvAlways == DownloadsSpec => [](DownloadTypeOK /\ DenialInv)
<1>1. DownloadsInit => DenialInv
  BY DEF DownloadsInit, DenialInv, LockHeld, StoreIsAllowed, NoTask
<1> QED
  BY <1>1, DenialStep, DownloadsTyped, PTL DEF DownloadsSpec

\* What was denied is opened again only by an answer that allows it, however
\* many downloads, stores and answers overlap.
THEOREM DenialAlwaysHolds == DownloadsSpec => DenialHolds
<1> DEFINE Held == \A v \in 1..PdfVersions :
                     DeniedHere(v) /\ metadata'["pdf"] = [version |-> v, blocked |-> FALSE] =>
                       \E t \in DownloadTabs : task[t].pc = "access" /\ task[t].allowed
<1>1. DownloadTypeOK /\ DenialInv /\ [DownloadsNext]_downloadVars => Held
  <2> SUFFICES ASSUME DownloadTypeOK, DenialInv, [DownloadsNext]_downloadVars,
                      NEW v \in 1..PdfVersions, DeniedHere(v),
                      metadata'["pdf"] = [version |-> v, blocked |-> FALSE]
               PROVE \E t \in DownloadTabs : task[t].pc = "access" /\ task[t].allowed
    OBVIOUS
  <2>1. metadata["pdf"].blocked = TRUE /\ metadata'["pdf"].blocked = FALSE /\ metadata'["pdf"].version = v
    BY DEF DeniedHere
  <2>2. metadata'["pdf"] # metadata["pdf"] /\ metadata'["pdf"] # NoMeta
    BY <2>1 DEF NoMeta
  <2>3. ASSUME NEW t \in DownloadTabs, PutMetadata(t) PROVE FALSE
    <3>1. task[t].pc = "meta" /\ metadata' = [metadata EXCEPT !["pdf"] = [version |-> task[t].want["pdf"],
                                                                          blocked |-> FALSE]]
      BY <2>2, <2>3 DEF PutMetadata
    <3>2. metadata'["pdf"] = [version |-> task[t].want["pdf"], blocked |-> FALSE]
      BY <3>1 DEF DownloadTypeOK, Items
    <3>3. task[t].want["pdf"] = v
      BY <2>1, <3>2
    <3> QED
      BY <3>1, <3>3 DEF DenialInv, StoreIsAllowed
  <2>4. ASSUME NEW t \in DownloadTabs, PutBundle(t) \/ RemoveRecord(t) \/ ClearMetadata(t) PROVE FALSE
    <3>1. metadata'["pdf"] \in {metadata["pdf"], NoMeta}
      BY <2>4 DEF PutBundle, RemoveRecord, ClearMetadata, DownloadTypeOK, Items
    <3> QED
      BY <2>2, <3>1
  <2>5. ASSUME NEW t \in DownloadTabs, SetStoredPdfAccess(t)
        PROVE task[t].pc = "access" /\ task[t].allowed
    <3>1. metadata' = [metadata EXCEPT !["pdf"].blocked = ~task[t].allowed] /\ task[t].pc = "access"
      BY <2>2, <2>5 DEF SetStoredPdfAccess
    <3>2. metadata["pdf"] \in Metas /\ task[t] \in Answers
      BY <2>5, RemovalSteps DEF DownloadTypeOK, Items
    <3>3. metadata'["pdf"].blocked = ~task[t].allowed
      BY <3>1, <3>2 DEF DownloadTypeOK, Metas, Items
    <3>4. task[t].allowed \in BOOLEAN
      BY <3>2 DEF Answers
    <3> QED
      BY <2>1, <3>1, <3>3, <3>4
  <2>6. ASSUME NEW t \in DownloadTabs,
               \/ \E i \in Items : \/ \E fetched \in BOOLEAN : DownloadOfflineItem(t, i, fetched)
                                   \/ RemoveOfflineItem(t, i)
               \/ DownloadOne(t) \/ PartArrives(t) \/ StoreOpenedPdf(t) \/ StorePdfBlob(t) \/ PutFile(t)
               \/ PurgeOld(t) \/ ListBundles(t) \/ DropBundles(t) \/ RemoveFiles(t) \/ RemoveContent(t)
               \/ ClearAll(t) \/ ForgetUser(t) \/ ClearFiles(t) \/ ClearRecords(t) \/ TabCloses(t)
               \/ \E w \in 1..PdfVersions, allowed \in BOOLEAN : AccessAnswered(t, w, allowed)
        PROVE metadata' = metadata
    BY <2>6 DEF DownloadOfflineItem, RemoveOfflineItem, DownloadOne, PartArrives, StoreOpenedPdf, StorePdfBlob,
                PutFile, PurgeOld, ListBundles, DropBundles, RemoveFiles, RemoveContent, ClearAll, ForgetUser,
                ClearFiles, ClearRecords, TabCloses, AccessAnswered
  <2>7. ASSUME SignInAgain \/ (\E i \in Items : Publish(i)) \/ UNCHANGED downloadVars
        PROVE metadata' = metadata
    BY <2>7 DEF SignInAgain, Publish, downloadVars
  <2> QED
    BY <2>2, <2>3, <2>4, <2>5, <2>6, <2>7 DEF DownloadsNext
<1>2. DownloadTypeOK /\ DenialInv /\ [DownloadsNext]_downloadVars => [Held]_downloadVars
  BY <1>1
<1> HIDE DEF Held
<1>3. DownloadsSpec => [][Held]_downloadVars
  BY <1>2, DenialInvAlways, PTL DEF DownloadsSpec
<1> QED
  BY <1>3 DEF DenialHolds, Held

-----------------------------------------------------------------------------
(* Signing out *)

ClearSteps == {"clear", "records", "contents"}

\* The sign-out that ended the session of now is at work in tab t.
SigningOut(t) == ~login /\ task[t].pc \in ClearSteps /\ task[t].out = revision

\* What it has cleared stays clear while nobody signs in.
ClearedSoFar ==
  \A t \in DownloadTabs : SigningOut(t) =>
    /\ task[t].pc \in {"records", "contents"} => cached = {}
    /\ task[t].pc = "contents" =>
         bundles = {} /\ \A i \in Items : metadata[i] # NoMeta => i \in task[t].keys

\* A sign-out knows the session it has ended; none is numbered 0.
SessionsNumbered ==
  /\ \A t \in DownloadTabs : task[t].pc \in ClearSteps => task[t].out <= revision
  /\ ~login => revision # 0
  /\ locked => ~login

SignOutInv == SessionsNumbered /\ ClearedSoFar /\ SignedOutIsEmpty

\* A step that does not change the session: without one, it adds nothing.
LEMMA SessionKept ==
  ASSUME DownloadTypeOK, DownloadTypeOK', SignOutInv, NEW t \in DownloadTabs, TaskSteps(t),
         task'[t].pc \notin ClearSteps \/ (task'[t].pc = "clear" /\ task'[t].out = 0),
         UNCHANGED <<login, revision, locked>>,
         ~login => /\ cached' \subseteq cached /\ bundles' \subseteq bundles
                   /\ \A i \in Items : metadata'[i] \in {metadata[i], NoMeta}
  PROVE  SignOutInv'
<1>1. \A u \in DownloadTabs \ {t} : task'[u] = task[u]
  BY DEF TaskSteps, DownloadTypeOK
<1>2. SessionsNumbered'
  BY <1>1 DEF SignOutInv, SessionsNumbered, DownloadTypeOK
<1>3. ClearedSoFar'
  <2> SUFFICES ASSUME NEW u \in DownloadTabs, SigningOut(u)'
               PROVE /\ task'[u].pc \in {"records", "contents"} => cached' = {}
                     /\ task'[u].pc = "contents" =>
                          bundles' = {} /\ \A i \in Items : metadata'[i] # NoMeta => i \in task'[u].keys
    BY DEF ClearedSoFar
  <2>1. ~login /\ revision # 0
    BY DEF SigningOut, SignOutInv, SessionsNumbered
  <2>2. CASE u = t
    BY <2>1, <2>2 DEF SigningOut
  <2>3. CASE u # t
    <3>1. task'[u] = task[u] /\ SigningOut(u)
      BY <1>1, <2>3 DEF SigningOut
    <3> QED
      BY <2>1, <3>1 DEF SignOutInv, ClearedSoFar
  <2> QED
    BY <2>2, <2>3
<1>4. SignedOutIsEmpty'
  <2>1. ASSUME locked PROVE metadata' = [i \in Items |-> NoMeta] /\ cached' = {} /\ bundles' = {}
    <3>1. ~login /\ cached = {} /\ bundles = {} /\ metadata = [i \in Items |-> NoMeta]
      BY <2>1 DEF SignOutInv, SessionsNumbered, SignedOutIsEmpty
    <3>2. \A i \in Items : metadata'[i] = NoMeta
      BY <3>1
    <3> QED
      BY <3>1, <3>2 DEF DownloadTypeOK
  <2> QED
    BY <2>1 DEF SignedOutIsEmpty
<1> QED
  BY <1>2, <1>3, <1>4 DEF SignOutInv

\* No step adds to what a sign-out has cleared: every write asks for the
\* session it was started in.
LEMMA SignOutStep == DownloadTypeOK /\ SignOutInv /\ [DownloadsNext]_downloadVars => SignOutInv'
<1> SUFFICES ASSUME DownloadTypeOK, SignOutInv, [DownloadsNext]_downloadVars PROVE SignOutInv'
  OBVIOUS
<1>0. DownloadTypeOK'
  BY DownloadTypeStep
<1>u. ASSUME UNCHANGED <<task, login, revision, locked, cached, bundles, metadata>> PROVE SignOutInv'
  BY <1>u DEF SignOutInv, SessionsNumbered, ClearedSoFar, SigningOut, SignedOutIsEmpty
<1>1. ASSUME NEW i \in Items, Publish(i) PROVE SignOutInv'
  BY <1>1, <1>u DEF Publish
<1>2. CASE SignInAgain
  BY <1>2 DEF SignInAgain, SignOutInv, SessionsNumbered, ClearedSoFar, SigningOut, SignedOutIsEmpty
<1>3. ASSUME NEW t \in DownloadTabs, NEW i \in Items, NEW fetched \in BOOLEAN,
             DownloadOfflineItem(t, i, fetched)
      PROVE SignOutInv'
  <2>1. TaskSteps(t) /\ task'[t].pc \notin ClearSteps
    BY <1>3, LoadSteps1 DEF ClearSteps
  <2>2. UNCHANGED <<login, revision, locked, cached, bundles, metadata>>
    BY <1>3 DEF DownloadOfflineItem
  <2> QED
    BY <1>0, <2>1, <2>2, SessionKept
<1>4. ASSUME NEW t \in DownloadTabs, DownloadOne(t) \/ PartArrives(t) \/ StoreOpenedPdf(t)
      PROVE SignOutInv'
  <2>1. TaskSteps(t) /\ task'[t].pc \notin ClearSteps
    BY <1>4, LoadSteps1 DEF ClearSteps
  <2>2. UNCHANGED <<login, revision, locked, cached, bundles, metadata>>
    BY <1>4 DEF DownloadOne, PartArrives, StoreOpenedPdf
  <2> QED
    BY <1>0, <2>1, <2>2, SessionKept
<1>5. ASSUME NEW t \in DownloadTabs,
             StorePdfBlob(t) \/ PutFile(t) \/ PurgeOld(t) \/ ListBundles(t) \/ DropBundles(t)
      PROVE SignOutInv'
  <2>1. TaskSteps(t) /\ task'[t].pc \notin ClearSteps
    BY <1>5, LoadSteps2 DEF ClearSteps
  <2>2. UNCHANGED <<login, revision, locked, metadata>>
    BY <1>5 DEF StorePdfBlob, PutFile, PurgeOld, ListBundles, DropBundles
  <2>3. ~login => cached' \subseteq cached /\ bundles' \subseteq bundles
    BY <1>5 DEF StorePdfBlob, PutFile, PurgeOld, ListBundles, DropBundles, Current
  <2> QED
    BY <1>0, <2>1, <2>2, <2>3, SessionKept
<1>6. ASSUME NEW t \in DownloadTabs, PutMetadata(t) \/ PutBundle(t) PROVE SignOutInv'
  <2>1. TaskSteps(t) /\ task'[t].pc \notin ClearSteps
    BY <1>6, LoadSteps2 DEF ClearSteps
  <2>2. UNCHANGED <<login, revision, locked>>
    BY <1>6 DEF PutMetadata, PutBundle
  <2>3. ~login => cached' \subseteq cached /\ bundles' \subseteq bundles /\ metadata' = metadata
    BY <1>6 DEF PutMetadata, PutBundle, MayPutBundle, Current
  <2> QED
    BY <1>0, <2>1, <2>2, <2>3, SessionKept
<1>7. ASSUME NEW t \in DownloadTabs, NEW i \in Items, RemoveOfflineItem(t, i) PROVE SignOutInv'
  <2>1. TaskSteps(t) /\ task'[t].pc \notin ClearSteps
    BY <1>7, RemovalSteps DEF ClearSteps
  <2>2. UNCHANGED <<login, revision, locked, cached, bundles, metadata>>
    BY <1>7 DEF RemoveOfflineItem
  <2> QED
    BY <1>0, <2>1, <2>2, SessionKept
<1>8. ASSUME NEW t \in DownloadTabs, RemoveFiles(t) \/ RemoveRecord(t) \/ RemoveContent(t) \/ TabCloses(t)
      PROVE SignOutInv'
  <2>1. TaskSteps(t) /\ task'[t].pc \notin ClearSteps
    BY <1>8, RemovalSteps DEF ClearSteps
  <2>2. UNCHANGED <<login, revision, locked>>
    BY <1>8 DEF RemoveFiles, RemoveRecord, RemoveContent, TabCloses
  <2>3. cached' \subseteq cached /\ bundles' \subseteq bundles
    BY <1>8 DEF RemoveFiles, RemoveRecord, RemoveContent, TabCloses
  <2>4. \A i \in Items : metadata'[i] \in {metadata[i], NoMeta}
    BY <1>8 DEF RemoveFiles, RemoveRecord, RemoveContent, TabCloses, DownloadTypeOK
  <2> QED
    BY <1>0, <2>1, <2>2, <2>3, <2>4, SessionKept
<1>9. ASSUME NEW t \in DownloadTabs, ClearAll(t) PROVE SignOutInv'
  <2>1. TaskSteps(t) /\ task'[t].pc = "clear" /\ task'[t].out = 0
    BY <1>9, RemovalSteps
  <2>2. UNCHANGED <<login, revision, locked, cached, bundles, metadata>>
    BY <1>9 DEF ClearAll
  <2> QED
    BY <1>0, <2>1, <2>2, SessionKept
<1>10. ASSUME NEW t \in DownloadTabs, NEW v \in 1..PdfVersions, NEW allowed \in BOOLEAN,
              AccessAnswered(t, v, allowed)
       PROVE SignOutInv'
  <2>1. TaskSteps(t) /\ task'[t].pc \notin ClearSteps
    BY <1>10, RemovalSteps DEF ClearSteps
  <2>2. UNCHANGED <<login, revision, locked, cached, bundles, metadata>>
    BY <1>10 DEF AccessAnswered
  <2> QED
    BY <1>0, <2>1, <2>2, SessionKept
<1>11. ASSUME NEW t \in DownloadTabs, SetStoredPdfAccess(t) PROVE SignOutInv'
  <2>1. TaskSteps(t) /\ task'[t].pc \notin ClearSteps
    BY <1>11, RemovalSteps DEF ClearSteps
  <2>2. UNCHANGED <<login, revision, locked, cached, bundles>>
    BY <1>11 DEF SetStoredPdfAccess
  <2>3. ~login => metadata' = metadata
    BY <1>11 DEF SetStoredPdfAccess, Current
  <2> QED
    BY <1>0, <2>1, <2>2, <2>3, SessionKept
<1>12. ASSUME NEW t \in DownloadTabs, ForgetUser(t) PROVE SignOutInv'
  <2>1. TaskSteps(t) /\ task'[t].pc = "clear" /\ task'[t].out = revision + 1
    BY <1>12, RemovalSteps
  <2>2. login /\ ~login' /\ revision' = revision + 1 /\ locked' = locked /\ revision \in Nat
    BY <1>12 DEF ForgetUser, DownloadTypeOK
  <2>3. \A u \in DownloadTabs \ {t} : task'[u] = task[u]
    BY <2>1 DEF TaskSteps, DownloadTypeOK
  <2>4. ~locked
    BY <2>2 DEF SignOutInv, SessionsNumbered
  <2>5. \A u \in DownloadTabs : task[u].pc \in ClearSteps => task[u].out \in Nat /\ task[u].out <= revision
    <3>1. \A u \in DownloadTabs : task[u].pc \in ClearSteps => task[u].out \in Nat
      BY TaskShape DEF ClearSteps, DownloadTypeOK, Clearings, LastClearings
    <3> QED
      BY <3>1 DEF SignOutInv, SessionsNumbered
  <2>6. SessionsNumbered'
    BY <2>1, <2>2, <2>3, <2>4, <2>5 DEF SessionsNumbered
  <2>7. ClearedSoFar'
    BY <2>1, <2>2, <2>3, <2>5 DEF ClearedSoFar, SigningOut
  <2> QED
    BY <2>2, <2>4, <2>6, <2>7 DEF SignOutInv, SignedOutIsEmpty
<1>13. ASSUME NEW t \in DownloadTabs, ClearFiles(t) PROVE SignOutInv'
  <2>1. /\ TaskSteps(t) /\ task[t].pc = "clear" /\ task'[t].pc = "records"
        /\ task'[t].out = task[t].out
    BY <1>13, RemovalSteps DEF ClearFiles
  <2>2. UNCHANGED <<login, revision, locked, bundles, metadata>> /\ cached' = {}
    BY <1>13 DEF ClearFiles
  <2>3. \A u \in DownloadTabs \ {t} : task'[u] = task[u]
    BY <2>1 DEF TaskSteps, DownloadTypeOK
  <2>4. SessionsNumbered'
    BY <2>1, <2>2, <2>3 DEF SignOutInv, SessionsNumbered, ClearSteps
  <2>5. ClearedSoFar'
    BY <2>1, <2>2, <2>3 DEF SignOutInv, ClearedSoFar, SigningOut
  <2> QED
    BY <2>2, <2>4, <2>5 DEF SignOutInv, SignedOutIsEmpty
<1>14. ASSUME NEW t \in DownloadTabs, ClearRecords(t) PROVE SignOutInv'
  <2>1. /\ TaskSteps(t) /\ task[t].pc = "records" /\ task'[t].pc = "contents"
        /\ task'[t].out = task[t].out /\ task'[t].keys = {i \in Items : metadata[i] # NoMeta}
    BY <1>14, RemovalSteps DEF ClearRecords
  <2>2. UNCHANGED <<login, revision, locked, cached, metadata>> /\ bundles' = {}
    BY <1>14 DEF ClearRecords
  <2>3. \A u \in DownloadTabs \ {t} : task'[u] = task[u]
    BY <2>1 DEF TaskSteps, DownloadTypeOK
  <2>4. SessionsNumbered'
    BY <2>1, <2>2, <2>3 DEF SignOutInv, SessionsNumbered, ClearSteps
  <2>5. ClearedSoFar'
    BY <2>1, <2>2, <2>3 DEF SignOutInv, ClearedSoFar, SigningOut, ClearSteps
  <2> QED
    BY <2>2, <2>4, <2>5 DEF SignOutInv, SignedOutIsEmpty
<1>15. ASSUME NEW t \in DownloadTabs, ClearMetadata(t) PROVE SignOutInv'
  <2>1. TaskSteps(t) /\ task'[t].pc = "none" /\ task[t].pc = "contents"
    BY <1>15, RemovalSteps DEF ClearMetadata
  <2>2. /\ UNCHANGED <<login, revision, cached, bundles>>
        /\ metadata' = [i \in Items |-> IF i \in task[t].keys THEN NoMeta ELSE metadata[i]]
        /\ locked' = (locked \/ (task[t].out = revision /\ ~login))
    BY <1>15 DEF ClearMetadata
  <2>3. CASE locked' = locked
    BY <1>0, <2>1, <2>2, <2>3, SessionKept DEF ClearSteps
  <2>4. CASE ~locked /\ task[t].out = revision /\ ~login
    <3>1. SigningOut(t)
      BY <2>1, <2>4 DEF SigningOut, ClearSteps
    <3>2. cached = {} /\ bundles = {} /\ \A i \in Items : metadata[i] # NoMeta => i \in task[t].keys
      BY <2>1, <3>1 DEF SignOutInv, ClearedSoFar
    <3>3. SignedOutIsEmpty'
      BY <2>2, <3>2 DEF SignedOutIsEmpty
    <3>4. \A u \in DownloadTabs \ {t} : task'[u] = task[u]
      BY <2>1 DEF TaskSteps, DownloadTypeOK
    <3>5. SessionsNumbered'
      BY <2>1, <2>2, <2>4, <3>4 DEF SignOutInv, SessionsNumbered, ClearSteps
    <3>6. ClearedSoFar'
      BY <2>1, <2>2, <3>2, <3>4 DEF SignOutInv, ClearedSoFar, SigningOut, ClearSteps
    <3> QED
      BY <3>3, <3>5, <3>6 DEF SignOutInv
  <2>5. locked' = locked \/ (~locked /\ task[t].out = revision /\ ~login)
    BY <1>0, <2>2 DEF DownloadTypeOK
  <2> QED
    BY <2>3, <2>4, <2>5
<1>16. CASE UNCHANGED downloadVars
  BY <1>16, <1>u DEF downloadVars
<1> QED
  BY <1>1, <1>2, <1>3, <1>4, <1>5, <1>6, <1>7, <1>8, <1>9, <1>10, <1>11, <1>12, <1>13, <1>14, <1>15,
     <1>16 DEF DownloadsNext

\* Once the last sign-out has finished, nothing that was downloaded is left,
\* and nothing that was under way comes back.
THEOREM SignedOutAlwaysEmpty == DownloadsSpec => []SignedOutIsEmpty
<1>1. DownloadsInit => SignOutInv
  BY DEF DownloadsInit, SignOutInv, SessionsNumbered, ClearedSoFar, SigningOut, SignedOutIsEmpty, NoTask,
         ClearSteps
<1>2. SignOutInv => SignedOutIsEmpty
  BY DEF SignOutInv
<1> QED
  BY <1>1, <1>2, SignOutStep, DownloadsTyped, PTL DEF DownloadsSpec

-----------------------------------------------------------------------------
(* What is downloaded is whole *)

StoreSteps == {"put", "meta", "purge"}
BundleSteps == {"list", "drop"}
RemoveSteps == {"files", "clear", "record", "records", "content", "contents"}

\* A removal and a store do not overlap.
RemovalsAlone ==
  \A t, u \in DownloadTabs :
    task[t].pc \in RemoveSteps => task[u].pc \notin StoreSteps \cup BundleSteps

\* A store belongs to the session of now; its file is there before its record
\* is written, and its record is the last one until the old files go.
StoreInOrder ==
  \A t \in DownloadTabs :
    /\ task[t].pc \in StoreSteps => Current(t)
    /\ task[t].pc \in {"meta", "purge"} => task[t].want["pdf"] \in cached
    /\ task[t].pc = "purge" => metadata["pdf"].version = task[t].want["pdf"]

PdfWhole == metadata["pdf"] # NoMeta => metadata["pdf"].version \in cached

\* The removal in tab t has taken files and will take the record of the PDF.
ClearsPdf(t) ==
  \/ task[t].pc = "record" /\ task[t].item = "pdf"
  \/ task[t].pc = "records"
  \/ task[t].pc = "contents" /\ "pdf" \in task[t].keys

PdfSafe == RemovalsAlone /\ StoreInOrder /\ (PdfWhole \/ \E t \in DownloadTabs : ClearsPdf(t))

\* Removing the bundle removes no file.
FilesOfItem ==
  \A t \in DownloadTabs : task[t].pc = "files" /\ task[t].item # "pdf" => task[t].files = {}

PdfInv == FilesOfItem /\ (~torn => PdfSafe)

\* The history of overlaps is never forgotten, and says which steps did not
\* overlap.
LEMMA TornStays ==
  ASSUME DownloadTypeOK, [DownloadsNext]_downloadVars, ~torn'
  PROVE  /\ ~torn
         /\ \A t \in DownloadTabs :
              /\ StorePdfBlob(t) \/ PutBundle(t) => \A u \in DownloadTabs : task[u].pc \notin RemoveSteps
              /\ \/ \E i \in Items : RemoveOfflineItem(t, i)
                 \/ ClearAll(t) \/ ForgetUser(t)
                 => \A u \in DownloadTabs : ~Storing(u)
              /\ TabCloses(t) => task[t].pc \notin RemoveSteps
<1>1. ASSUME NEW t \in DownloadTabs, StorePdfBlob(t) \/ PutBundle(t)
      PROVE ~torn /\ \A u \in DownloadTabs : task[u].pc \notin RemoveSteps
  BY <1>1 DEF StorePdfBlob, PutBundle, Removing, RemoveSteps
<1>2. ASSUME NEW t \in DownloadTabs, (\E i \in Items : RemoveOfflineItem(t, i)) \/ ClearAll(t) \/ ForgetUser(t)
      PROVE ~torn /\ \A u \in DownloadTabs : ~Storing(u)
  BY <1>2 DEF RemoveOfflineItem, ClearAll, ForgetUser
<1>3. ASSUME NEW t \in DownloadTabs, TabCloses(t) PROVE ~torn /\ task[t].pc \notin RemoveSteps
  BY <1>3 DEF TabCloses, Removing, RemoveSteps
<1>4. ASSUME NEW t \in DownloadTabs,
             \/ \E i \in Items, fetched \in BOOLEAN : DownloadOfflineItem(t, i, fetched)
             \/ DownloadOne(t) \/ PartArrives(t) \/ StoreOpenedPdf(t) \/ PutFile(t) \/ PutMetadata(t)
             \/ PurgeOld(t) \/ ListBundles(t) \/ DropBundles(t) \/ RemoveFiles(t) \/ RemoveRecord(t)
             \/ RemoveContent(t) \/ ClearFiles(t) \/ ClearRecords(t) \/ ClearMetadata(t)
             \/ \E v \in 1..PdfVersions, allowed \in BOOLEAN : AccessAnswered(t, v, allowed)
             \/ SetStoredPdfAccess(t)
      PROVE ~torn
  BY <1>4 DEF DownloadOfflineItem, DownloadOne, PartArrives, StoreOpenedPdf, PutFile, PutMetadata, PurgeOld,
              ListBundles, DropBundles, RemoveFiles, RemoveRecord, RemoveContent, ClearFiles, ClearRecords,
              ClearMetadata, AccessAnswered, SetStoredPdfAccess
<1>5. ASSUME SignInAgain \/ (\E i \in Items : Publish(i)) \/ UNCHANGED downloadVars PROVE ~torn
  BY <1>5 DEF SignInAgain, Publish, downloadVars
<1>6. ~torn
  BY <1>1, <1>2, <1>3, <1>4, <1>5 DEF DownloadsNext
<1> QED
  BY <1>1, <1>2, <1>3, <1>6

\* A step of tab t that is no store of a file and no removal, and leaves the
\* PDF alone.
LEMMA PdfKept ==
  ASSUME DownloadTypeOK, PdfSafe, NEW t \in DownloadTabs, TaskSteps(t), ~ClearsPdf(t),
         task'[t].pc \notin StoreSteps \cup RemoveSteps,
         task'[t].pc \in BundleSteps => \A u \in DownloadTabs : task[u].pc \notin RemoveSteps,
         UNCHANGED <<login, revision, cached>>, metadata'["pdf"] = metadata["pdf"]
  PROVE  PdfSafe'
<1>1. \A u \in DownloadTabs \ {t} : task'[u] = task[u]
  BY DEF TaskSteps, DownloadTypeOK
<1>2. RemovalsAlone'
  BY <1>1 DEF PdfSafe, RemovalsAlone
<1>3. StoreInOrder'
  BY <1>1 DEF PdfSafe, StoreInOrder, Current, StoreSteps
<1>4. PdfWhole => PdfWhole'
  BY DEF PdfWhole
<1>5. \A u \in DownloadTabs : ClearsPdf(u) => ClearsPdf(u)'
  BY <1>1 DEF ClearsPdf
<1> QED
  BY <1>2, <1>3, <1>4, <1>5 DEF PdfSafe

\* A removal that starts, or goes on, while nothing is stored.
LEMMA PdfRemoved ==
  ASSUME DownloadTypeOK, NEW t \in DownloadTabs, TaskSteps(t),
         task'[t].pc \notin StoreSteps \cup BundleSteps,
         \A u \in DownloadTabs : task[u].pc \notin StoreSteps \cup BundleSteps,
         PdfWhole' \/ \E u \in DownloadTabs : ClearsPdf(u)'
  PROVE  PdfSafe'
<1>1. \A u \in DownloadTabs \ {t} : task'[u] = task[u]
  BY DEF TaskSteps, DownloadTypeOK
<1>2. \A u \in DownloadTabs : task'[u].pc \notin StoreSteps \cup BundleSteps
  BY <1>1
<1>3. RemovalsAlone' /\ StoreInOrder'
  BY <1>2 DEF RemovalsAlone, StoreInOrder, StoreSteps
<1> QED
  BY <1>3 DEF PdfSafe

\* The steps that store the PDF: the new file, then its record, then the old
\* files go.
LEMMA PdfStoreSteps ==
  ASSUME DownloadTypeOK, DenialInv, PdfSafe, [DownloadsNext]_downloadVars, ~torn', NEW t \in DownloadTabs,
         StorePdfBlob(t) \/ PutFile(t) \/ PutMetadata(t) \/ PurgeOld(t)
  PROVE  PdfSafe'
<1>0. /\ TaskSteps(t) /\ task[t] \in Loads
      /\ task'[t].pc \in StoreSteps => task'[t].want = task[t].want /\ task'[t].rev = task[t].rev
  BY LoadSteps2, TaskShape DEF StorePdfBlob, LoadSteps, DownloadTypeOK, StoreSteps
<1>1. UNCHANGED <<login, revision>>
  BY DEF StorePdfBlob, PutFile, PutMetadata, PurgeOld
<1>2. \A u \in DownloadTabs \ {t} : task'[u] = task[u]
  BY <1>0 DEF TaskSteps, DownloadTypeOK
<1>3. \A u \in DownloadTabs : task[u].pc \notin RemoveSteps
  <2>1. CASE StorePdfBlob(t)
    BY <2>1, TornStays
  <2>2. CASE PutFile(t) \/ PutMetadata(t) \/ PurgeOld(t)
    BY <2>2 DEF PutFile, PutMetadata, PurgeOld, PdfSafe, RemovalsAlone, StoreSteps
  <2> QED
    BY <2>1, <2>2
<1>4. ~ClearsPdf(t) /\ PdfWhole
  BY <1>3 DEF ClearsPdf, RemoveSteps, PdfSafe
<1>5. task'[t].pc \in {"none", "check"} \cup StoreSteps
  BY LoadSteps2 DEF StoreSteps
<1>6. RemovalsAlone'
  BY <1>2, <1>3, <1>5 DEF RemovalsAlone, RemoveSteps, StoreSteps
<1>7. CASE task'[t].pc \notin StoreSteps /\ cached' = cached /\ metadata' = metadata
  BY <1>0, <1>1, <1>3, <1>4, <1>5, <1>7, PdfKept DEF RemoveSteps, BundleSteps, StoreSteps
<1>8. CASE StorePdfBlob(t)
  <2>1. cached' = cached /\ metadata' = metadata /\ task'[t].pc \in {"none", "check", "put"}
    BY <1>8, LoadSteps2 DEF StorePdfBlob
  <2>2. CASE task'[t].pc = "put"
    <3>1. Current(t)
      <4>1. ~Current(t) => Ends(t)
        BY <1>8 DEF StorePdfBlob
      <4> QED
        BY <2>2, <4>1, TaskBecomes
    <3>2. StoreInOrder'
      BY <1>0, <1>1, <1>2, <2>1, <2>2, <3>1 DEF StoreInOrder, PdfSafe, Current, StoreSteps
    <3> QED
      BY <1>4, <1>6, <2>1, <3>2 DEF PdfSafe, PdfWhole
  <2> QED
    BY <1>7, <2>1, <2>2 DEF StoreSteps
<1>9. CASE PutFile(t)
  <2>1. task[t].pc = "put" /\ metadata' = metadata /\ task'[t].pc \in {"none", "meta"}
    BY <1>9, LoadSteps2 DEF PutFile
  <2>2. CASE task'[t].pc = "meta"
    <3>1. cached' = cached \cup {task[t].want["pdf"]}
      BY <1>9, <2>2, TaskBecomes DEF PutFile, WithFile
    <3>2. Current(t)
      BY <2>1 DEF PdfSafe, StoreInOrder, StoreSteps
    <3>3. StoreInOrder'
      BY <1>0, <1>1, <1>2, <2>1, <2>2, <3>1, <3>2 DEF StoreInOrder, PdfSafe, Current, StoreSteps
    <3> QED
      BY <1>4, <1>6, <2>1, <3>1, <3>3 DEF PdfSafe, PdfWhole
  <2>3. CASE task'[t].pc = "none"
    <3>1. cached' = cached
      BY <1>9, <2>3, <1>0, TaskBecomes DEF PutFile, LoadSteps
    <3> QED
      BY <1>7, <2>1, <2>3, <3>1 DEF StoreSteps
  <2> QED
    BY <2>1, <2>2, <2>3
<1>10. CASE PutMetadata(t)
  <2>1. Current(t) /\ task[t].pc = "meta" /\ task[t].want["pdf"] \in cached
    BY <1>10 DEF PutMetadata, PdfSafe, StoreInOrder, StoreSteps
  <2>2. /\ metadata' = [metadata EXCEPT !["pdf"] = [version |-> task[t].want["pdf"], blocked |-> FALSE]]
        /\ cached' = cached /\ Goes(t, "purge")
    BY <1>10, <2>1 DEF PutMetadata
  <2>3. metadata'["pdf"].version = task[t].want["pdf"]
    BY <2>2 DEF DownloadTypeOK, Items
  <2>4. task'[t].pc = "purge"
    BY <1>0, <2>2, TaskBecomes DEF LoadSteps
  <2>5. \A u \in DownloadTabs \ {t} : task[u].pc \notin StoreSteps
    BY <2>1 DEF DenialInv, LockHeld, StoreSteps
  <2>6. StoreInOrder'
    BY <1>0, <1>1, <1>2, <2>1, <2>2, <2>3, <2>4, <2>5 DEF StoreInOrder, Current, StoreSteps
  <2> QED
    BY <1>6, <2>1, <2>2, <2>3, <2>6 DEF PdfSafe, PdfWhole
<1>11. CASE PurgeOld(t)
  <2>1. /\ task[t].pc = "purge" /\ task[t].want["pdf"] \in cached
        /\ metadata["pdf"].version = task[t].want["pdf"]
    BY <1>11 DEF PurgeOld, PdfSafe, StoreInOrder
  <2>2. metadata' = metadata /\ cached' = cached \cap {task[t].want["pdf"]} /\ task'[t].pc \in {"none", "check"}
    BY <1>11, LoadSteps2 DEF PurgeOld
  <2>3. \A u \in DownloadTabs \ {t} : task[u].pc \notin StoreSteps
    BY <2>1 DEF DenialInv, LockHeld, StoreSteps
  <2>4. StoreInOrder'
    BY <1>2, <2>2, <2>3 DEF StoreInOrder, StoreSteps
  <2> QED
    BY <1>6, <2>1, <2>2, <2>4 DEF PdfSafe, PdfWhole
<1> QED
  BY <1>8, <1>9, <1>10, <1>11

\* The steps of a removal: a record outlives its file only until the same
\* removal reaches it.
LEMMA PdfRemovalSteps ==
  ASSUME DownloadTypeOK, FilesOfItem, PdfSafe, [DownloadsNext]_downloadVars, ~torn', NEW t \in DownloadTabs,
         \/ \E i \in Items : RemoveOfflineItem(t, i)
         \/ ClearAll(t) \/ ForgetUser(t)
         \/ RemoveFiles(t) \/ RemoveRecord(t) \/ RemoveContent(t)
         \/ ClearFiles(t) \/ ClearRecords(t) \/ ClearMetadata(t)
  PROVE  PdfSafe'
<1>1. TaskSteps(t) /\ task'[t].pc \in {"none"} \cup RemoveSteps
  BY RemovalSteps DEF RemoveSteps
<1>2. \A u \in DownloadTabs \ {t} : task'[u] = task[u]
  BY <1>1 DEF TaskSteps, DownloadTypeOK
<1>3. \A u \in DownloadTabs : task[u].pc \notin StoreSteps \cup BundleSteps
  <2>1. CASE (\E i \in Items : RemoveOfflineItem(t, i)) \/ ClearAll(t) \/ ForgetUser(t)
    BY <2>1, TornStays DEF Storing, StoreSteps, BundleSteps
  <2>2. CASE RemoveFiles(t) \/ RemoveRecord(t) \/ RemoveContent(t)
             \/ ClearFiles(t) \/ ClearRecords(t) \/ ClearMetadata(t)
    BY <2>2 DEF RemoveFiles, RemoveRecord, RemoveContent, ClearFiles, ClearRecords, ClearMetadata,
                RemoveSteps, PdfSafe, RemovalsAlone
  <2> QED
    BY <2>1, <2>2
<1>4. SUFFICES PdfWhole' \/ \E u \in DownloadTabs : ClearsPdf(u)'
  BY <1>1, <1>3, PdfRemoved DEF RemoveSteps, StoreSteps, BundleSteps
<1>5. ASSUME cached' = cached, metadata'["pdf"] = metadata["pdf"], ClearsPdf(t) => ClearsPdf(t)'
      PROVE PdfWhole' \/ \E u \in DownloadTabs : ClearsPdf(u)'
  <2>1. PdfWhole => PdfWhole'
    BY <1>5 DEF PdfWhole
  <2>2. \A u \in DownloadTabs : ClearsPdf(u) => ClearsPdf(u)'
    BY <1>2, <1>5 DEF ClearsPdf
  <2> QED
    BY <2>1, <2>2 DEF PdfSafe
<1>6. ASSUME NEW i \in Items, RemoveOfflineItem(t, i) PROVE PdfWhole' \/ \E u \in DownloadTabs : ClearsPdf(u)'
  BY <1>5, <1>6 DEF RemoveOfflineItem, ClearsPdf, NoTask
<1>7. CASE ClearAll(t) \/ ForgetUser(t)
  BY <1>5, <1>7 DEF ClearAll, ForgetUser, ClearsPdf, NoTask
<1>8. CASE RemoveFiles(t)
  <2>1. /\ task[t].pc = "files" /\ task'[t].pc = "record" /\ task'[t].item = task[t].item
        /\ cached' = cached \ task[t].files /\ metadata' = metadata
    BY <1>8, RemovalSteps DEF RemoveFiles
  <2>2. CASE task[t].item = "pdf"
    BY <2>1, <2>2 DEF ClearsPdf
  <2>3. CASE task[t].item # "pdf"
    BY <1>5, <2>1, <2>3 DEF FilesOfItem, ClearsPdf
  <2> QED
    BY <2>2, <2>3
<1>9. CASE RemoveRecord(t)
  <2>1. task[t].pc = "record" /\ metadata' = [metadata EXCEPT ![task[t].item] = NoMeta] /\ cached' = cached
    BY <1>9 DEF RemoveRecord
  <2>2. CASE task[t].item = "pdf"
    BY <2>1, <2>2 DEF DownloadTypeOK, Items, PdfWhole
  <2>3. CASE task[t].item # "pdf"
    BY <1>5, <2>1, <2>3 DEF DownloadTypeOK, Items, ClearsPdf
  <2> QED
    BY <2>2, <2>3
<1>10. CASE RemoveContent(t)
  BY <1>5, <1>10 DEF RemoveContent, ClearsPdf
<1>11. CASE ClearFiles(t)
  BY <1>11, RemovalSteps DEF ClearsPdf
<1>12. CASE ClearRecords(t)
  <2>1. /\ task'[t].pc = "contents" /\ metadata' = metadata
        /\ task'[t].keys = {i \in Items : metadata[i] # NoMeta}
    BY <1>12, RemovalSteps DEF ClearRecords
  <2> QED
    BY <2>1 DEF ClearsPdf, PdfWhole, Items
<1>13. CASE ClearMetadata(t)
  <2>1. /\ task[t].pc = "contents" /\ cached' = cached
        /\ metadata' = [i \in Items |-> IF i \in task[t].keys THEN NoMeta ELSE metadata[i]]
    BY <1>13 DEF ClearMetadata
  <2>2. CASE "pdf" \in task[t].keys
    BY <2>1, <2>2 DEF PdfWhole, Items
  <2>3. CASE "pdf" \notin task[t].keys
    BY <1>5, <2>1, <2>3 DEF ClearsPdf, Items
  <2> QED
    BY <2>2, <2>3
<1> QED
  BY <1>6, <1>7, <1>8, <1>9, <1>10, <1>11, <1>12, <1>13

\* Every step keeps the record of the PDF and its file together.
LEMMA PdfStep == DownloadTypeOK /\ DenialInv /\ PdfInv /\ [DownloadsNext]_downloadVars => PdfInv'
<1> SUFFICES ASSUME DownloadTypeOK, DenialInv, PdfInv, [DownloadsNext]_downloadVars PROVE PdfInv'
  OBVIOUS
<1>1. FilesOfItem'
  <2>0. ASSUME NEW t \in DownloadTabs, TaskSteps(t),
               task'[t].pc = "files" /\ task'[t].item # "pdf" => task'[t].files = {}
        PROVE FilesOfItem'
    BY <2>0 DEF FilesOfItem, PdfInv, TaskSteps, DownloadTypeOK
  <2>1. ASSUME NEW t \in DownloadTabs, NEW i \in Items, RemoveOfflineItem(t, i) PROVE FilesOfItem'
    BY <2>0, <2>1, RemovalSteps
  <2>2. ASSUME NEW t \in DownloadTabs, NEW i \in Items, NEW fetched \in BOOLEAN,
               DownloadOfflineItem(t, i, fetched)
        PROVE FilesOfItem'
    BY <2>0, <2>2, LoadSteps1
  <2>3. ASSUME NEW t \in DownloadTabs, DownloadOne(t) \/ PartArrives(t) \/ StoreOpenedPdf(t) PROVE FilesOfItem'
    <3>1. TaskSteps(t) /\ task'[t].pc # "files"
      BY <2>3, LoadSteps1
    <3> QED
      BY <2>0, <3>1
  <2>4. ASSUME NEW t \in DownloadTabs,
               \/ StorePdfBlob(t) \/ PutFile(t) \/ PutMetadata(t) \/ PurgeOld(t)
               \/ PutBundle(t) \/ ListBundles(t) \/ DropBundles(t)
        PROVE FilesOfItem'
    <3>1. TaskSteps(t) /\ task'[t].pc # "files"
      BY <2>4, LoadSteps2
    <3> QED
      BY <2>0, <3>1
  <2>5. ASSUME NEW t \in DownloadTabs,
               \/ RemoveFiles(t) \/ RemoveRecord(t) \/ RemoveContent(t)
               \/ ClearAll(t) \/ ForgetUser(t) \/ ClearFiles(t) \/ ClearRecords(t) \/ ClearMetadata(t)
               \/ TabCloses(t) \/ SetStoredPdfAccess(t)
        PROVE FilesOfItem'
    <3>1. TaskSteps(t) /\ task'[t].pc # "files"
      BY <2>5, RemovalSteps
    <3> QED
      BY <2>0, <3>1
  <2>6. ASSUME NEW t \in DownloadTabs, NEW v \in 1..PdfVersions, NEW allowed \in BOOLEAN,
               AccessAnswered(t, v, allowed)
        PROVE FilesOfItem'
    BY <2>0, <2>6, RemovalSteps
  <2>7. ASSUME SignInAgain \/ (\E i \in Items : Publish(i)) \/ UNCHANGED downloadVars PROVE FilesOfItem'
    BY <2>7 DEF SignInAgain, Publish, downloadVars, PdfInv, FilesOfItem
  <2> QED
    BY <2>1, <2>2, <2>3, <2>4, <2>5, <2>6, <2>7 DEF DownloadsNext
<1>2. ASSUME ~torn' PROVE PdfSafe'
  <2>0. ~torn /\ PdfSafe /\ FilesOfItem
    BY <1>2, TornStays DEF PdfInv
  <2>1. ASSUME NEW t \in DownloadTabs, NEW i \in Items, NEW fetched \in BOOLEAN,
               DownloadOfflineItem(t, i, fetched)
        PROVE PdfSafe'
    <3>1. TaskSteps(t) /\ task'[t].pc = "check"
      BY <2>1, LoadSteps1
    <3>2. ~ClearsPdf(t) /\ UNCHANGED <<login, revision, cached, metadata>>
      BY <2>1 DEF DownloadOfflineItem, ClearsPdf, NoTask
    <3> QED
      BY <2>0, <3>1, <3>2, PdfKept DEF StoreSteps, RemoveSteps, BundleSteps
  <2>2. ASSUME NEW t \in DownloadTabs, DownloadOne(t) \/ PartArrives(t) \/ StoreOpenedPdf(t) PROVE PdfSafe'
    <3>1. TaskSteps(t) /\ task'[t].pc \in {"none", "check", "request", "store", "bundle"}
      BY <2>2, LoadSteps1
    <3>2. ~ClearsPdf(t) /\ UNCHANGED <<login, revision, cached, metadata>>
      BY <2>2 DEF DownloadOne, PartArrives, StoreOpenedPdf, ClearsPdf, NoTask
    <3> QED
      BY <2>0, <3>1, <3>2, PdfKept DEF StoreSteps, RemoveSteps, BundleSteps
  <2>3. ASSUME NEW t \in DownloadTabs, StorePdfBlob(t) \/ PutFile(t) \/ PutMetadata(t) \/ PurgeOld(t)
        PROVE PdfSafe'
    BY <1>2, <2>0, <2>3, PdfStoreSteps
  <2>4. ASSUME NEW t \in DownloadTabs, PutBundle(t) \/ ListBundles(t) \/ DropBundles(t) PROVE PdfSafe'
    <3>1. TaskSteps(t) /\ task'[t].pc \in {"none"} \cup BundleSteps
      BY <2>4, LoadSteps2 DEF BundleSteps
    <3>2. ~ClearsPdf(t) /\ UNCHANGED <<login, revision, cached>>
      BY <2>4 DEF PutBundle, ListBundles, DropBundles, ClearsPdf
    <3>3. metadata'["pdf"] = metadata["pdf"]
      BY <2>4 DEF PutBundle, ListBundles, DropBundles, DownloadTypeOK, Items
    <3>4. \A u \in DownloadTabs : task[u].pc \notin RemoveSteps
      <4>1. CASE PutBundle(t)
        BY <1>2, <4>1, TornStays
      <4>2. CASE ListBundles(t) \/ DropBundles(t)
        BY <2>0, <4>2 DEF ListBundles, DropBundles, PdfSafe, RemovalsAlone, BundleSteps
      <4> QED
        BY <2>4, <4>1, <4>2
    <3> QED
      BY <2>0, <3>1, <3>2, <3>3, <3>4, PdfKept DEF StoreSteps, RemoveSteps, BundleSteps
  <2>5. ASSUME NEW t \in DownloadTabs,
               \/ \E i \in Items : RemoveOfflineItem(t, i)
               \/ ClearAll(t) \/ ForgetUser(t)
               \/ RemoveFiles(t) \/ RemoveRecord(t) \/ RemoveContent(t)
               \/ ClearFiles(t) \/ ClearRecords(t) \/ ClearMetadata(t)
        PROVE PdfSafe'
    BY <1>2, <2>0, <2>5, PdfRemovalSteps
  <2>6. ASSUME NEW t \in DownloadTabs, TabCloses(t) PROVE PdfSafe'
    <3>1. TaskSteps(t) /\ task'[t].pc = "none"
      BY <2>6, RemovalSteps
    <3>2. ~ClearsPdf(t)
      BY <1>2, <2>6, TornStays DEF ClearsPdf, RemoveSteps
    <3>3. UNCHANGED <<login, revision, cached, metadata>>
      BY <2>6 DEF TabCloses
    <3> QED
      BY <2>0, <3>1, <3>2, <3>3, PdfKept DEF StoreSteps, RemoveSteps, BundleSteps
  <2>7. ASSUME NEW t \in DownloadTabs, NEW v \in 1..PdfVersions, NEW allowed \in BOOLEAN,
               AccessAnswered(t, v, allowed)
        PROVE PdfSafe'
    <3>1. TaskSteps(t) /\ task'[t].pc = "access"
      BY <2>7, RemovalSteps
    <3>2. ~ClearsPdf(t) /\ UNCHANGED <<login, revision, cached, metadata>>
      BY <2>7 DEF AccessAnswered, ClearsPdf, NoTask
    <3> QED
      BY <2>0, <3>1, <3>2, PdfKept DEF StoreSteps, RemoveSteps, BundleSteps
  <2>8. ASSUME NEW t \in DownloadTabs, SetStoredPdfAccess(t) PROVE PdfSafe'
    <3>1. TaskSteps(t) /\ task'[t].pc = "none" /\ task[t] \in Answers /\ task[t].pc = "access"
      BY <2>8, RemovalSteps DEF SetStoredPdfAccess
    <3>2. UNCHANGED <<login, revision, cached>>
      BY <2>8 DEF SetStoredPdfAccess
    <3>3. CASE metadata' = metadata
      BY <2>0, <3>1, <3>2, <3>3, PdfKept DEF StoreSteps, RemoveSteps, BundleSteps, ClearsPdf
    <3>4. CASE /\ metadata["pdf"].version = task[t].version
               /\ metadata' = [metadata EXCEPT !["pdf"].blocked = ~task[t].allowed]
      <4>1. metadata["pdf"] \in Metas /\ task[t].version # 0
        BY <3>1 DEF DownloadTypeOK, Items, Answers
      <4>2. metadata'["pdf"].version = metadata["pdf"].version
        BY <3>4, <4>1 DEF DownloadTypeOK, Items, Metas
      <4>3. metadata["pdf"] # NoMeta
        BY <3>4, <4>1 DEF NoMeta
      <4>4. \A u \in DownloadTabs \ {t} : task'[u] = task[u]
        BY <3>1 DEF TaskSteps, DownloadTypeOK
      <4>5. RemovalsAlone'
        BY <2>0, <3>1, <4>4 DEF PdfSafe, RemovalsAlone, RemoveSteps, StoreSteps, BundleSteps
      <4>6. StoreInOrder'
        BY <2>0, <3>1, <3>2, <4>2, <4>4 DEF PdfSafe, StoreInOrder, StoreSteps, Current
      <4>7. PdfWhole => PdfWhole'
        BY <3>2, <4>2, <4>3 DEF PdfWhole
      <4>8. \A u \in DownloadTabs : ClearsPdf(u) => ClearsPdf(u)'
        BY <3>1, <4>4 DEF ClearsPdf
      <4> QED
        BY <2>0, <4>5, <4>6, <4>7, <4>8 DEF PdfSafe
    <3> QED
      BY <2>8, <3>3, <3>4 DEF SetStoredPdfAccess
  <2>9. ASSUME SignInAgain \/ (\E i \in Items : Publish(i)) \/ UNCHANGED downloadVars PROVE PdfSafe'
    <3>1. UNCHANGED <<task, cached, metadata, revision>> /\ (login => login')
      BY <2>9 DEF SignInAgain, Publish, downloadVars
    <3>2. RemovalsAlone' /\ StoreInOrder'
      BY <2>0, <3>1 DEF PdfSafe, RemovalsAlone, StoreInOrder, Current
    <3>3. (PdfWhole => PdfWhole') /\ \A u \in DownloadTabs : ClearsPdf(u) => ClearsPdf(u)'
      BY <3>1 DEF PdfWhole, ClearsPdf
    <3> QED
      BY <2>0, <3>2, <3>3 DEF PdfSafe
  <2> QED
    BY <2>1, <2>2, <2>3, <2>4, <2>5, <2>6, <2>7, <2>8, <2>9 DEF DownloadsNext
<1> QED
  BY <1>1, <1>2 DEF PdfInv

StudyWhole == metadata["study"] # NoMeta => metadata["study"].version \in bundles

ClearsStudy(t) == task[t].pc = "contents" /\ "study" \in task[t].keys

\* While the bundle has one version, no tab deletes what another has stored.
OneBundle ==
  /\ bundles \subseteq {1}
  /\ \A t \in DownloadTabs : /\ task[t].pc \in {"bundle", "list"} => task[t].want["study"] = 1
                             /\ task[t].pc = "drop" => task[t].old = {}

\* Removing the bundle takes its record first; a clearing takes it last.
StudyInOrder ==
  /\ \A t \in DownloadTabs : task[t].pc = "content" /\ task[t].item = "study" => metadata["study"] = NoMeta
  /\ StudyWhole \/ \E t \in DownloadTabs : ClearsStudy(t)

StudyInv == published["study"] = 1 => OneBundle /\ (~torn => StudyInOrder)

\* A step of tab t that leaves the bundle alone.
LEMMA StudyKept ==
  ASSUME DownloadTypeOK, NEW t \in DownloadTabs, TaskSteps(t),
         task'[t].pc \notin {"bundle", "list", "drop"},
         bundles' = bundles, metadata'["study"] = metadata["study"]
  PROVE  /\ OneBundle => OneBundle'
         /\ /\ StudyInOrder
            /\ ClearsStudy(t) => ClearsStudy(t)'
            /\ task'[t].pc = "content" => task'[t].item # "study" \/ metadata["study"] = NoMeta
            => StudyInOrder'
<1>1. \A u \in DownloadTabs \ {t} : task'[u] = task[u]
  BY DEF TaskSteps, DownloadTypeOK
<1>2. OneBundle => OneBundle'
  BY <1>1 DEF OneBundle
<1>3. ASSUME StudyInOrder, ClearsStudy(t) => ClearsStudy(t)',
             task'[t].pc = "content" => task'[t].item # "study" \/ metadata["study"] = NoMeta
      PROVE StudyInOrder'
  <2>1. StudyWhole => StudyWhole'
    BY DEF StudyWhole
  <2>2. \A u \in DownloadTabs : ClearsStudy(u) => ClearsStudy(u)'
    BY <1>1, <1>3 DEF ClearsStudy
  <2>3. \A u \in DownloadTabs : task'[u].pc = "content" /\ task'[u].item = "study" => metadata'["study"] = NoMeta
    BY <1>1, <1>3 DEF StudyInOrder
  <2> QED
    BY <1>3, <2>1, <2>2, <2>3 DEF StudyInOrder
<1> QED
  BY <1>2, <1>3

\* The steps of a bundle: the record and the bundle are written together, and
\* what is dropped afterwards is another version.
LEMMA StudyStoreSteps ==
  ASSUME DownloadTypeOK, published["study"] = 1, OneBundle, [DownloadsNext]_downloadVars,
         NEW t \in DownloadTabs, PartArrives(t) \/ PutBundle(t) \/ ListBundles(t) \/ DropBundles(t)
  PROVE  OneBundle' /\ (~torn' /\ StudyInOrder => StudyInOrder')
<1>1. TaskSteps(t) /\ ~ClearsStudy(t)
  BY LoadSteps1, LoadSteps2 DEF PartArrives, PutBundle, ListBundles, DropBundles, ClearsStudy
<1>2. \A u \in DownloadTabs \ {t} : task'[u] = task[u]
  BY <1>1 DEF TaskSteps, DownloadTypeOK
<1>3. task'[t].pc \in {"none", "store", "bundle", "list", "drop"}
  BY LoadSteps1, LoadSteps2
<1>4. ASSUME bundles' = bundles, metadata' = metadata, StudyInOrder PROVE StudyInOrder'
  <2>1. StudyWhole => StudyWhole'
    BY <1>4 DEF StudyWhole
  <2>2. \A u \in DownloadTabs : ClearsStudy(u) => ClearsStudy(u)'
    BY <1>1, <1>2 DEF ClearsStudy
  <2>3. \A u \in DownloadTabs : task'[u].pc = "content" /\ task'[u].item = "study" => metadata'["study"] = NoMeta
    BY <1>2, <1>3, <1>4 DEF StudyInOrder
  <2> QED
    BY <1>4, <2>1, <2>2, <2>3 DEF StudyInOrder
<1>5. CASE PartArrives(t)
  <2>1. bundles' = bundles /\ metadata' = metadata /\ task'[t].pc \in {"none", "store", "bundle"}
    BY <1>5, LoadSteps1 DEF PartArrives
  <2>2. task'[t].pc = "bundle" => task'[t].want["study"] = 1
    BY <1>5, LoadSteps1
  <2>3. OneBundle'
    BY <1>2, <2>1, <2>2 DEF OneBundle
  <2> QED
    BY <1>4, <2>1, <2>3
<1>6. CASE PutBundle(t)
  <2>1. task[t].want["study"] = 1
    BY <1>6 DEF PutBundle, OneBundle
  <2>2. task'[t].pc \in {"none", "list"} /\ (task'[t].pc = "list" => task'[t].want["study"] = 1)
    BY <1>6, <2>1, LoadSteps2
  <2>3. \/ bundles' = bundles /\ metadata' = metadata
        \/ /\ bundles' = bundles \cup {1}
           /\ metadata' = [metadata EXCEPT !["study"] = [version |-> 1, blocked |-> FALSE]]
    BY <1>6, <2>1 DEF PutBundle
  <2>4. OneBundle'
    BY <1>2, <2>2, <2>3 DEF OneBundle
  <2>5. ASSUME ~torn', bundles' = bundles \cup {1},
               metadata' = [metadata EXCEPT !["study"] = [version |-> 1, blocked |-> FALSE]]
        PROVE StudyInOrder'
    <3>1. metadata'["study"].version = 1
      BY <2>5 DEF DownloadTypeOK, Items
    <3>2. \A u \in DownloadTabs : task'[u].pc # "content"
      BY <1>2, <1>6, <2>2, <2>5, TornStays DEF RemoveSteps
    <3> QED
      BY <2>5, <3>1, <3>2 DEF StudyInOrder, StudyWhole
  <2> QED
    BY <1>4, <2>3, <2>4, <2>5
<1>7. CASE ListBundles(t) \/ DropBundles(t)
  <2>1. bundles' = bundles /\ metadata' = metadata
    BY <1>7 DEF ListBundles, DropBundles, OneBundle
  <2>2. task'[t].pc \in {"none", "drop"} /\ (task'[t].pc = "drop" => task'[t].old = {})
    BY <1>7, LoadSteps2 DEF ListBundles, OneBundle
  <2>3. OneBundle'
    BY <1>2, <2>1, <2>2 DEF OneBundle
  <2> QED
    BY <1>4, <2>1, <2>3
<1> QED
  BY <1>5, <1>6, <1>7

\* The steps of a removal, in the order of each.
LEMMA StudyRemovalSteps ==
  ASSUME DownloadTypeOK, OneBundle, NEW t \in DownloadTabs,
         RemoveRecord(t) \/ RemoveContent(t) \/ ClearRecords(t) \/ ClearMetadata(t)
  PROVE  OneBundle' /\ (StudyInOrder => StudyInOrder')
<1>1. TaskSteps(t) /\ task'[t].pc \in {"none", "content", "contents"}
  BY RemovalSteps
<1>2. \A u \in DownloadTabs \ {t} : task'[u] = task[u]
  BY <1>1 DEF TaskSteps, DownloadTypeOK
<1>3. bundles' \in {bundles, {}}
  BY DEF RemoveRecord, RemoveContent, ClearRecords, ClearMetadata
<1>4. OneBundle'
  BY <1>1, <1>2, <1>3 DEF OneBundle
<1>5. ASSUME metadata'["study"] = NoMeta PROVE StudyInOrder'
  BY <1>5 DEF StudyInOrder, StudyWhole
<1>6. ASSUME RemoveRecord(t), StudyInOrder PROVE StudyInOrder'
  <2>1. /\ task[t].pc = "record" /\ metadata' = [metadata EXCEPT ![task[t].item] = NoMeta]
        /\ bundles' = bundles /\ task'[t].item = task[t].item
    BY <1>6, RemovalSteps DEF RemoveRecord
  <2>2. CASE task[t].item = "study"
    BY <1>5, <2>1, <2>2 DEF DownloadTypeOK, Items
  <2>3. CASE task[t].item # "study"
    <3>1. metadata'["study"] = metadata["study"] /\ ~ClearsStudy(t)
      BY <2>1, <2>3 DEF DownloadTypeOK, Items, ClearsStudy
    <3> QED
      BY <1>1, <1>6, <2>1, <2>3, <3>1, StudyKept
  <2> QED
    BY <2>2, <2>3
<1>7. ASSUME RemoveContent(t), StudyInOrder PROVE StudyInOrder'
  <2>1. task[t].pc = "content" /\ metadata' = metadata /\ task'[t].pc = "none"
    BY <1>7, RemovalSteps DEF RemoveContent
  <2>2. CASE task[t].item = "study"
    BY <1>5, <1>7, <2>1, <2>2 DEF StudyInOrder
  <2>3. CASE task[t].item # "study"
    <3>1. bundles' = bundles /\ ~ClearsStudy(t)
      BY <1>7, <2>1, <2>3 DEF RemoveContent, ClearsStudy
    <3> QED
      BY <1>1, <1>7, <2>1, <3>1, StudyKept
  <2> QED
    BY <2>2, <2>3
<1>8. ASSUME ClearRecords(t), StudyInOrder PROVE StudyInOrder'
  <2>1. /\ task'[t].pc = "contents" /\ metadata' = metadata
        /\ task'[t].keys = {i \in Items : metadata[i] # NoMeta}
    BY <1>8, RemovalSteps DEF ClearRecords
  <2>2. CASE metadata["study"] = NoMeta
    BY <1>5, <2>1, <2>2
  <2>3. CASE metadata["study"] # NoMeta
    <3>1. ClearsStudy(t)'
      BY <2>1, <2>3 DEF ClearsStudy, Items
    <3>2. \A u \in DownloadTabs : task'[u].pc = "content" => task'[u] = task[u]
      BY <1>2, <2>1
    <3> QED
      BY <1>8, <2>1, <3>1, <3>2 DEF StudyInOrder
  <2> QED
    BY <2>2, <2>3
<1>9. ASSUME ClearMetadata(t), StudyInOrder PROVE StudyInOrder'
  <2>1. /\ task[t].pc = "contents" /\ bundles' = bundles /\ task'[t].pc = "none"
        /\ metadata' = [i \in Items |-> IF i \in task[t].keys THEN NoMeta ELSE metadata[i]]
    BY <1>9, RemovalSteps DEF ClearMetadata
  <2>2. CASE "study" \in task[t].keys
    BY <1>5, <2>1, <2>2 DEF Items
  <2>3. CASE "study" \notin task[t].keys
    <3>1. metadata'["study"] = metadata["study"] /\ ~ClearsStudy(t)
      BY <2>1, <2>3 DEF Items, ClearsStudy
    <3> QED
      BY <1>1, <1>9, <2>1, <3>1, StudyKept
  <2> QED
    BY <2>2, <2>3
<1> QED
  BY <1>4, <1>6, <1>7, <1>8, <1>9

\* Every step keeps the record of the bundle and the bundle together, while
\* the bundle has one version.
LEMMA StudyStep == DownloadTypeOK /\ StudyInv /\ [DownloadsNext]_downloadVars => StudyInv'
<1> SUFFICES ASSUME DownloadTypeOK, StudyInv, [DownloadsNext]_downloadVars, published'["study"] = 1
             PROVE OneBundle' /\ (~torn' => StudyInOrder')
  BY DEF StudyInv
<1>0. published["study"] = 1
  <2>1. ASSUME NEW i \in Items, Publish(i) PROVE published["study"] = 1
    BY <2>1 DEF Publish, DownloadTypeOK, Items
  <2>2. ASSUME NEW t \in DownloadTabs,
               \/ \E i \in Items : \/ \E fetched \in BOOLEAN : DownloadOfflineItem(t, i, fetched)
                                   \/ RemoveOfflineItem(t, i)
               \/ DownloadOne(t) \/ PartArrives(t) \/ StoreOpenedPdf(t)
               \/ StorePdfBlob(t) \/ PutFile(t) \/ PutMetadata(t) \/ PurgeOld(t)
               \/ PutBundle(t) \/ ListBundles(t) \/ DropBundles(t)
        PROVE published["study"] = 1
    BY <2>2 DEF DownloadOfflineItem, RemoveOfflineItem, DownloadOne, PartArrives, StoreOpenedPdf,
                StorePdfBlob, PutFile, PutMetadata, PurgeOld, PutBundle, ListBundles, DropBundles
  <2>3. ASSUME NEW t \in DownloadTabs,
               \/ RemoveFiles(t) \/ RemoveRecord(t) \/ RemoveContent(t)
               \/ ClearAll(t) \/ ForgetUser(t) \/ ClearFiles(t) \/ ClearRecords(t) \/ ClearMetadata(t)
               \/ TabCloses(t)
               \/ \E v \in 1..PdfVersions, allowed \in BOOLEAN : AccessAnswered(t, v, allowed)
               \/ SetStoredPdfAccess(t)
        PROVE published["study"] = 1
    BY <2>3 DEF RemoveFiles, RemoveRecord, RemoveContent, ClearAll, ForgetUser, ClearFiles, ClearRecords,
                ClearMetadata, TabCloses, AccessAnswered, SetStoredPdfAccess
  <2>4. ASSUME SignInAgain \/ UNCHANGED downloadVars PROVE published["study"] = 1
    BY <2>4 DEF SignInAgain, downloadVars
  <2> QED
    BY <2>1, <2>2, <2>3, <2>4 DEF DownloadsNext
<1>t. OneBundle /\ (~torn' => ~torn /\ StudyInOrder)
  BY <1>0, TornStays DEF StudyInv
<1> DEFINE Kept(t) == /\ TaskSteps(t)
                      /\ task'[t].pc \notin {"bundle", "list", "drop", "content"}
                      /\ bundles' = bundles /\ metadata'["study"] = metadata["study"]
                      /\ ~torn' => ~ClearsStudy(t)
<1>k. ASSUME NEW t \in DownloadTabs, Kept(t) PROVE OneBundle' /\ (~torn' => StudyInOrder')
  BY <1>k, <1>t, StudyKept
<1>1. ASSUME NEW t \in DownloadTabs, NEW i \in Items, NEW fetched \in BOOLEAN,
             DownloadOfflineItem(t, i, fetched)
      PROVE Kept(t)
  <2>1. TaskSteps(t) /\ task'[t].pc = "check"
    BY <1>1, LoadSteps1
  <2>2. UNCHANGED <<bundles, metadata>> /\ ~ClearsStudy(t)
    BY <1>1 DEF DownloadOfflineItem, ClearsStudy, NoTask
  <2> QED
    BY <2>1, <2>2
<1>2. ASSUME NEW t \in DownloadTabs, DownloadOne(t) \/ StoreOpenedPdf(t) PROVE Kept(t)
  <2>1. TaskSteps(t) /\ task'[t].pc \in {"none", "check", "request", "store"}
    BY <1>2, LoadSteps1
  <2>2. UNCHANGED <<bundles, metadata>> /\ ~ClearsStudy(t)
    BY <1>2 DEF DownloadOne, StoreOpenedPdf, ClearsStudy, NoTask
  <2> QED
    BY <2>1, <2>2
<1>3. ASSUME NEW t \in DownloadTabs, PartArrives(t) \/ PutBundle(t) \/ ListBundles(t) \/ DropBundles(t)
      PROVE OneBundle' /\ (~torn' => StudyInOrder')
  BY <1>0, <1>t, <1>3, StudyStoreSteps
<1>4. ASSUME NEW t \in DownloadTabs, StorePdfBlob(t) \/ PutFile(t) \/ PutMetadata(t) \/ PurgeOld(t)
      PROVE Kept(t)
  <2>1. TaskSteps(t) /\ task'[t].pc \in {"none", "check", "put", "meta", "purge"}
    BY <1>4, LoadSteps2
  <2>2. bundles' = bundles /\ ~ClearsStudy(t)
    BY <1>4 DEF StorePdfBlob, PutFile, PutMetadata, PurgeOld, ClearsStudy
  <2>3. metadata'["study"] = metadata["study"]
    BY <1>4 DEF StorePdfBlob, PutFile, PutMetadata, PurgeOld, DownloadTypeOK, Items
  <2> QED
    BY <2>1, <2>2, <2>3
<1>5. ASSUME NEW t \in DownloadTabs, NEW i \in Items, RemoveOfflineItem(t, i) PROVE Kept(t)
  <2>1. TaskSteps(t) /\ task'[t].pc = "files"
    BY <1>5, RemovalSteps
  <2>2. UNCHANGED <<bundles, metadata>> /\ ~ClearsStudy(t)
    BY <1>5 DEF RemoveOfflineItem, ClearsStudy, NoTask
  <2> QED
    BY <2>1, <2>2
<1>6. ASSUME NEW t \in DownloadTabs, ClearAll(t) \/ ForgetUser(t) \/ RemoveFiles(t) \/ ClearFiles(t)
      PROVE Kept(t)
  <2>1. TaskSteps(t) /\ task'[t].pc \in {"clear", "record", "records"}
    BY <1>6, RemovalSteps
  <2>2. UNCHANGED <<bundles, metadata>> /\ ~ClearsStudy(t)
    BY <1>6 DEF ClearAll, ForgetUser, RemoveFiles, ClearFiles, ClearsStudy, NoTask
  <2> QED
    BY <2>1, <2>2
<1>7. ASSUME NEW t \in DownloadTabs, RemoveRecord(t) \/ RemoveContent(t) \/ ClearRecords(t) \/ ClearMetadata(t)
      PROVE OneBundle' /\ (~torn' => StudyInOrder')
  BY <1>t, <1>7, StudyRemovalSteps
<1>8. ASSUME NEW t \in DownloadTabs, TabCloses(t) PROVE Kept(t)
  <2>1. TaskSteps(t) /\ task'[t].pc = "none"
    BY <1>8, RemovalSteps
  <2>2. UNCHANGED <<bundles, metadata>>
    BY <1>8 DEF TabCloses
  <2>3. ~torn' => ~ClearsStudy(t)
    BY <1>8, TornStays DEF ClearsStudy, RemoveSteps
  <2> QED
    BY <2>1, <2>2, <2>3
<1>9. ASSUME NEW t \in DownloadTabs, NEW v \in 1..PdfVersions, NEW allowed \in BOOLEAN,
             AccessAnswered(t, v, allowed)
      PROVE Kept(t)
  <2>1. TaskSteps(t) /\ task'[t].pc = "access"
    BY <1>9, RemovalSteps
  <2>2. UNCHANGED <<bundles, metadata>> /\ ~ClearsStudy(t)
    BY <1>9 DEF AccessAnswered, ClearsStudy, NoTask
  <2> QED
    BY <2>1, <2>2
<1>10. ASSUME NEW t \in DownloadTabs, SetStoredPdfAccess(t) PROVE Kept(t)
  <2>1. TaskSteps(t) /\ task'[t].pc = "none" /\ bundles' = bundles /\ ~ClearsStudy(t)
    BY <1>10, RemovalSteps DEF SetStoredPdfAccess, ClearsStudy
  <2>2. metadata'["study"] = metadata["study"]
    BY <1>10 DEF SetStoredPdfAccess, DownloadTypeOK, Items
  <2> QED
    BY <2>1, <2>2
<1>11. ASSUME SignInAgain \/ (\E i \in Items : Publish(i)) \/ UNCHANGED downloadVars
       PROVE OneBundle' /\ (~torn' => StudyInOrder')
  <2>1. UNCHANGED <<task, bundles, metadata>>
    BY <1>11 DEF SignInAgain, Publish, downloadVars
  <2>2. (OneBundle => OneBundle') /\ (StudyInOrder => StudyInOrder')
    BY <2>1 DEF OneBundle, StudyInOrder, StudyWhole, ClearsStudy
  <2> QED
    BY <1>t, <2>2
<1> HIDE DEF Kept
<1> QED
  BY <1>k, <1>1, <1>2, <1>3, <1>4, <1>5, <1>6, <1>7, <1>8, <1>9, <1>10, <1>11 DEF DownloadsNext

\* However many versions of the PDF are published and whatever tab is closed,
\* a record of the PDF has its file unless a removal overlapped a store, was
\* cut off, or is under way.
THEOREM PdfAlwaysWhole ==
  DownloadsSpec => [](~torn /\ (\A t \in DownloadTabs : ~Removing(t)) => PdfWhole)
<1>1. DownloadsInit => PdfInv
  BY DEF DownloadsInit, PdfInv, FilesOfItem, PdfSafe, RemovalsAlone, StoreInOrder, PdfWhole, NoTask, StoreSteps,
         RemoveSteps, Items
<1>2. PdfInv => (~torn /\ (\A t \in DownloadTabs : ~Removing(t)) => PdfWhole)
  BY DEF PdfInv, PdfSafe, ClearsPdf, Removing
<1>3. DownloadsSpec => []PdfInv
  BY <1>1, PdfStep, DenialInvAlways, PTL DEF DownloadsSpec
<1> QED
  BY <1>2, <1>3, PTL

\* While the server publishes one version of the bundle, every record has its
\* content.  With two versions the tabs may delete each other's bundle (the
\* hazard at downloads.js:119), so the condition cannot be dropped.
THEOREM DownloadedAlwaysWhole ==
  DownloadsSpec => [](published["study"] = 1 => DownloadedIsWhole)
<1>1. DownloadsInit => StudyInv
  BY DEF DownloadsInit, StudyInv, OneBundle, StudyInOrder, StudyWhole, NoTask, Items
<1>2. StudyInv /\ (~torn /\ (\A t \in DownloadTabs : ~Removing(t)) => PdfWhole)
        => (published["study"] = 1 => DownloadedIsWhole)
  BY DEF StudyInv, StudyInOrder, StudyWhole, ClearsStudy, PdfWhole, Removing, DownloadedIsWhole
<1>3. DownloadsSpec => []StudyInv
  BY <1>1, StudyStep, DownloadsTyped, PTL DEF DownloadsSpec
<1> QED
  BY <1>2, <1>3, PdfAlwaysWhole, PTL
=============================================================================
