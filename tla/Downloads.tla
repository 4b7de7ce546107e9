------------------------------ MODULE Downloads ------------------------------
(***************************************************************************)
(* Downloaded content of one account (frontend/src/offline/downloads.js,   *)
(* with the calls of coordinator.js, OfflineSettings.jsx,                  *)
(* OfflineSheetAction.jsx, pdfSource.js, readerDocument.js and profile.js).*)
(*                                                                         *)
(* Two items of the manifest: a PDF, kept in Cache Storage, and the Active *)
(* Study bundle that depends on it, kept in IndexedDB.  A version number   *)
(* stands for an item's version, checksum and download_url, which change   *)
(* together.  The storages are shared by the tabs; each await of the code  *)
(* ends a step.  mutateOfflineCache is one lock for all the tabs.          *)
(***************************************************************************)
EXTENDS Naturals, Sequences

CONSTANTS DownloadTabs,  \* tabs of the app
          PdfVersions,   \* bound: versions of the PDF the server publishes
          StudyVersions, \* bound: versions of the bundle
          MaxLogins,     \* bound: times the account signs in again
          MaxRemovals,   \* bound: removals the student asks for
          MaxCloses,     \* bound: tabs closed in the middle of a task
          MaxDenials     \* bound: answers about the reader's access

Nobody == "nobody"

ASSUME NobodyIsNoTab == Nobody \notin DownloadTabs

VARIABLES
  published,  \* version of each item at the server
  manifest,   \* versions in the device's manifest, 0 when there is none
  cached,     \* versions of the PDF in Cache Storage
  metadata,   \* the "download:" records: version and blocked
  bundles,    \* versions of the bundle under "content:"
  login,      \* the account is the current one
  revision,   \* number of the offline session
  cacheLock,  \* tab that holds the lock of mutateOfflineCache
  task,       \* what each tab is doing
  locked,     \* history: the last sign-out has finished, nobody signed in since
  torn,       \* history: a removal overlapped a store, or was cut off
  logins, removals, closes, denials

downloadVars == <<published, manifest, cached, metadata, bundles, login, revision, cacheLock,
                  task, locked, torn, logins, removals, closes, denials>>

Items == {"pdf", "study"}
NoTask == [pc |-> "none"]
NoMeta == [version |-> 0, blocked |-> FALSE]

DownloadsInit ==
  /\ published = [i \in Items |-> 1]
  /\ manifest = [i \in Items |-> 0]
  /\ cached = {}
  /\ metadata = [i \in Items |-> NoMeta]
  /\ bundles = {}
  /\ login = TRUE
  /\ revision = 0
  /\ cacheLock = Nobody
  /\ task = [t \in DownloadTabs |-> NoTask]
  /\ locked = FALSE
  /\ torn = FALSE
  /\ logins = 0 /\ removals = 0 /\ closes = 0 /\ denials = 0

\* captureOfflineSession's isCurrent for the session the task was started in.
Current(t) == login /\ task[t].rev = revision

Storing(t) == task[t].pc \in {"store", "put", "meta", "purge", "bundle", "list", "drop"}
Removing(t) == task[t].pc \in {"files", "clear", "record", "records", "content", "contents"}

Ends(t) == task' = [task EXCEPT ![t] = NoTask]
Goes(t, pc) == task' = [task EXCEPT ![t].pc = pc]
Unlocks == cacheLock' = Nobody

-----------------------------------------------------------------------------
(* The server, and the start of a download *)

Publish(i) ==
  /\ published[i] < (IF i = "pdf" THEN PdfVersions ELSE StudyVersions)
  /\ published' = [published EXCEPT ![i] = @ + 1]
  /\ UNCHANGED <<manifest, cached, metadata, bundles, login, revision, cacheLock, task, locked,
                 torn, logins, removals, closes, denials>>

\* dependencyGraph: what an item needs comes first.
DependencyGraph(i) == IF i = "pdf" THEN <<"pdf">> ELSE <<"pdf", "study">>

\* downloadOfflineItem, after fetchOfflineManifest (synchronizeOffline,
\* Settings) or with the stored manifest (OfflineSheetAction).
DownloadOfflineItem(t, i, fetched) ==
  /\ login
  /\ task[t] = NoTask
  /\ manifest' = IF fetched THEN published ELSE manifest
  /\ manifest'[i] # 0
  /\ task' = [task EXCEPT ![t] = [pc |-> "check", rev |-> revision, want |-> manifest',
                                  todo |-> DependencyGraph(i)]]
  /\ UNCHANGED <<published, cached, metadata, bundles, login, revision, cacheLock, locked,
                 torn, logins, removals, closes, denials>>

IsOwnContentStored(i, v) ==
  /\ metadata[i] = [version |-> v, blocked |-> FALSE]
  /\ v \in (IF i = "pdf" THEN cached ELSE bundles)

\* The task after its first part: the next part, or nothing.
NextPart(t) ==
  task' = [task EXCEPT ![t] = IF Len(task[t].todo) = 1 THEN NoTask
                              ELSE [task[t] EXCEPT !.pc = "check", !.todo = Tail(task[t].todo)]]

\* downloadOne: nothing is fetched for a part stored at this version.
DownloadOne(t) ==
  /\ task[t].pc = "check"
  /\ LET i == Head(task[t].todo)
     IN IF ~Current(t) THEN Ends(t)
        ELSE IF IsOwnContentStored(i, task[t].want[i]) THEN NextPart(t)
        ELSE Goes(t, "request")
  /\ UNCHANGED <<published, manifest, cached, metadata, bundles, login, revision, cacheLock,
                 locked, torn, logins, removals, closes, denials>>

\* The file of a replaced version may still be served; a bundle is refused
\* unless it is the version the manifest names.
PartArrives(t) ==
  /\ task[t].pc = "request"
  /\ LET i == Head(task[t].todo)
     IN \/ i = "pdf" /\ Goes(t, "store")
        \/ i = "study" /\ published[i] = task[t].want[i] /\ Goes(t, "bundle")
        \/ Ends(t)
  /\ UNCHANGED <<published, manifest, cached, metadata, bundles, login, revision, cacheLock,
                 locked, torn, logins, removals, closes, denials>>

\* rememberOpenedPdf and storeOpenedPdf: the bytes the reader has loaded, of
\* the version the manifest names.
StoreOpenedPdf(t) ==
  /\ login
  /\ task[t] = NoTask
  /\ published["pdf"] = manifest["pdf"]
  /\ ~IsOwnContentStored("pdf", manifest["pdf"])
  /\ task' = [task EXCEPT ![t] = [pc |-> "store", rev |-> revision, want |-> manifest,
                                  todo |-> <<"pdf">>]]
  /\ UNCHANGED <<published, manifest, cached, metadata, bundles, login, revision, cacheLock,
                 locked, torn, logins, removals, closes, denials>>

-----------------------------------------------------------------------------
(* storePdfBlob *)

DeniedHere(v) == metadata["pdf"] = [version |-> v, blocked |-> TRUE]

\* Variant: the record is not looked at again under the lock.
MayStoreAny(v) == TRUE

\* A version that was denied is not stored over its own denial.
MayStore(v) == ~DeniedHere(v)

\* The lock is taken, the session and the record are looked at.
StorePdfBlob(t) ==
  /\ task[t].pc = "store"
  /\ cacheLock = Nobody
  /\ \/ ~Current(t) /\ Ends(t) /\ UNCHANGED cacheLock
     \/ Current(t) /\ ~MayStore(task[t].want["pdf"]) /\ NextPart(t) /\ UNCHANGED cacheLock
     \/ Current(t) /\ MayStore(task[t].want["pdf"]) /\ Goes(t, "put") /\ cacheLock' = t
  /\ torn' = (torn \/ \E u \in DownloadTabs : Removing(u))
  /\ UNCHANGED <<published, manifest, cached, metadata, bundles, login, revision, locked, logins,
                 removals, closes, denials>>

\* Variant: the old version is dropped before the new record is written.
WithFileAlone(v) == {v}

\* What cache.put leaves in the cache.
WithFile(v) == cached \cup {v}

\* cache.put, which may fail for want of space.
PutFile(t) ==
  /\ task[t].pc = "put"
  /\ \/ Current(t) /\ cached' = WithFile(task[t].want["pdf"]) /\ Goes(t, "meta")
        /\ UNCHANGED cacheLock
     \/ Ends(t) /\ Unlocks /\ UNCHANGED cached
  /\ UNCHANGED <<published, manifest, metadata, bundles, login, revision, locked, torn, logins,
                 removals, closes, denials>>

\* putScoped, refused once the login has ended: the file goes again.
PutMetadata(t) ==
  /\ task[t].pc = "meta"
  /\ \/ /\ Current(t)
        /\ metadata' = [metadata EXCEPT !["pdf"] = [version |-> task[t].want["pdf"],
                                                    blocked |-> FALSE]]
        /\ Goes(t, "purge")
        /\ UNCHANGED <<cached, cacheLock>>
     \/ /\ ~Current(t)
        /\ cached' = cached \ {task[t].want["pdf"]}
        /\ Ends(t)
        /\ Unlocks
        /\ UNCHANGED metadata
  /\ UNCHANGED <<published, manifest, bundles, login, revision, locked, torn, logins, removals,
                 closes, denials>>

PurgeOld(t) ==
  /\ task[t].pc = "purge"
  /\ cached' = cached \cap {task[t].want["pdf"]}
  /\ NextPart(t)
  /\ Unlocks
  /\ UNCHANGED <<published, manifest, metadata, bundles, login, revision, locked, torn, logins,
                 removals, closes, denials>>

-----------------------------------------------------------------------------
(* storeJsonContent *)

\* Variant: the transaction does not ask whose login it is.
MayPutBundleAnyway(t) == TRUE

\* The bundle and its record, in one transaction of the same login.
MayPutBundle(t) == Current(t)

PutBundle(t) ==
  /\ task[t].pc = "bundle"
  /\ LET v == task[t].want["study"]
     IN \/ /\ MayPutBundle(t)
           /\ bundles' = bundles \cup {v}
           /\ metadata' = [metadata EXCEPT !["study"] = [version |-> v, blocked |-> FALSE]]
           /\ Goes(t, "list")
        \/ /\ ~MayPutBundle(t)
           /\ Ends(t)
           /\ UNCHANGED <<bundles, metadata>>
  /\ torn' = (torn \/ \E u \in DownloadTabs : Removing(u))
  /\ UNCHANGED <<published, manifest, cached, login, revision, cacheLock, locked, logins,
                 removals, closes, denials>>

ListBundles(t) ==
  /\ task[t].pc = "list"
  /\ task' = [task EXCEPT ![t] =
        IF ~Current(t) THEN NoTask
        ELSE [pc |-> "drop", rev |-> @.rev, old |-> bundles \ {@.want["study"]}]]
  /\ UNCHANGED <<published, manifest, cached, metadata, bundles, login, revision, cacheLock,
                 locked, torn, logins, removals, closes, denials>>

DropBundles(t) ==
  /\ task[t].pc = "drop"
  /\ bundles' = IF Current(t) THEN bundles \ task[t].old ELSE bundles
  /\ Ends(t)
  /\ UNCHANGED <<published, manifest, cached, metadata, login, revision, cacheLock, locked, torn,
                 logins, removals, closes, denials>>

-----------------------------------------------------------------------------
(* removeOfflineItem, which takes no lock, and clearOfflineDownloads *)

RemoveOfflineItem(t, i) ==
  /\ login
  /\ task[t] = NoTask
  /\ removals < MaxRemovals
  /\ removals' = removals + 1
  /\ task' = [task EXCEPT ![t] = [pc |-> "files", item |-> i,
                                  files |-> IF i = "pdf" THEN cached ELSE {}]]
  /\ torn' = (torn \/ \E u \in DownloadTabs : Storing(u))
  /\ UNCHANGED <<published, manifest, cached, metadata, bundles, login, revision, cacheLock,
                 locked, logins, closes, denials>>

RemoveFiles(t) ==
  /\ task[t].pc = "files"
  /\ cached' = cached \ task[t].files
  /\ Goes(t, "record")
  /\ UNCHANGED <<published, manifest, metadata, bundles, login, revision, cacheLock, locked, torn,
                 logins, removals, closes, denials>>

RemoveRecord(t) ==
  /\ task[t].pc = "record"
  /\ metadata' = [metadata EXCEPT ![task[t].item] = NoMeta]
  /\ Goes(t, "content")
  /\ UNCHANGED <<published, manifest, cached, bundles, login, revision, cacheLock, locked, torn,
                 logins, removals, closes, denials>>

RemoveContent(t) ==
  /\ task[t].pc = "content"
  /\ bundles' = IF task[t].item = "study" THEN {} ELSE bundles
  /\ Ends(t)
  /\ UNCHANGED <<published, manifest, cached, metadata, login, revision, cacheLock, locked, torn,
                 logins, removals, closes, denials>>

\* out is the number of the session that a sign-out has ended, 0 for Settings.
Clears(t, out) == task' = [task EXCEPT ![t] = [pc |-> "clear", out |-> out]]

\* "Clear all" in Settings.
ClearAll(t) ==
  /\ login
  /\ task[t] = NoTask
  /\ removals < MaxRemovals
  /\ removals' = removals + 1
  /\ Clears(t, 0)
  /\ torn' = (torn \/ \E u \in DownloadTabs : Storing(u))
  /\ UNCHANGED <<published, manifest, cached, metadata, bundles, login, revision, cacheLock,
                 locked, logins, closes, denials>>

\* forgetOfflineUser: the session ends first, then the content goes.
ForgetUser(t) ==
  /\ login
  /\ task[t] = NoTask
  /\ login' = FALSE
  /\ revision' = revision + 1
  /\ Clears(t, revision + 1)
  /\ torn' = (torn \/ \E u \in DownloadTabs : Storing(u))
  /\ UNCHANGED <<published, manifest, cached, metadata, bundles, cacheLock, locked, logins,
                 removals, closes, denials>>

ClearFiles(t) ==
  /\ task[t].pc = "clear"
  /\ cacheLock = Nobody
  /\ cached' = {}
  /\ Goes(t, "records")
  /\ UNCHANGED <<published, manifest, metadata, bundles, login, revision, cacheLock, locked, torn,
                 logins, removals, closes, denials>>

\* The keys are listed once; "content:" comes before "download:".
ClearRecords(t) ==
  /\ task[t].pc = "records"
  /\ bundles' = {}
  /\ task' = [task EXCEPT ![t] = [pc |-> "contents", out |-> @.out,
                                  keys |-> {i \in Items : metadata[i] # NoMeta}]]
  /\ UNCHANGED <<published, manifest, cached, metadata, login, revision, cacheLock, locked, torn,
                 logins, removals, closes, denials>>

ClearMetadata(t) ==
  /\ task[t].pc = "contents"
  /\ metadata' = [i \in Items |-> IF i \in task[t].keys THEN NoMeta ELSE metadata[i]]
  /\ manifest' = IF task[t].out # 0 THEN [i \in Items |-> 0] ELSE manifest
  /\ locked' = (locked \/ (task[t].out = revision /\ ~login))
  /\ Ends(t)
  /\ UNCHANGED <<published, cached, bundles, login, revision, cacheLock, torn, logins, removals,
                 closes, denials>>

SignInAgain ==
  /\ ~login
  /\ logins < MaxLogins
  /\ logins' = logins + 1
  /\ login' = TRUE
  /\ locked' = FALSE
  /\ UNCHANGED <<published, manifest, cached, metadata, bundles, revision, cacheLock, task, torn,
                 removals, closes, denials>>

\* The browser frees the lock of a tab that is gone.
TabCloses(t) ==
  /\ task[t] # NoTask
  /\ closes < MaxCloses
  /\ closes' = closes + 1
  /\ Ends(t)
  /\ cacheLock' = IF cacheLock = t THEN Nobody ELSE cacheLock
  /\ torn' = (torn \/ Removing(t))
  /\ UNCHANGED <<published, manifest, cached, metadata, bundles, login, revision, locked, logins,
                 removals, denials>>

-----------------------------------------------------------------------------
(* loadReaderDocument and setStoredPdfAccess *)

\* The server allows or denies the version v the reader has open.
AccessAnswered(t, v, allowed) ==
  /\ login
  /\ task[t] = NoTask
  /\ denials < MaxDenials
  /\ metadata["pdf"].version = v
  /\ denials' = denials + 1
  /\ task' = [task EXCEPT ![t] = [pc |-> "access", rev |-> revision, version |-> v,
                                  allowed |-> allowed]]
  /\ UNCHANGED <<published, manifest, cached, metadata, bundles, login, revision, cacheLock,
                 locked, torn, logins, removals, closes>>

SetStoredPdfAccess(t) ==
  /\ task[t].pc = "access"
  /\ cacheLock = Nobody
  /\ metadata' = IF Current(t) /\ metadata["pdf"].version = task[t].version
                 THEN [metadata EXCEPT !["pdf"].blocked = ~task[t].allowed]
                 ELSE metadata
  /\ Ends(t)
  /\ UNCHANGED <<published, manifest, cached, bundles, login, revision, cacheLock, locked, torn,
                 logins, removals, closes, denials>>

DownloadsNext ==
  \/ \E i \in Items : Publish(i)
  \/ SignInAgain
  \/ \E t \in DownloadTabs :
       \/ \E i \in Items : \/ \E fetched \in BOOLEAN : DownloadOfflineItem(t, i, fetched)
                           \/ RemoveOfflineItem(t, i)
       \/ DownloadOne(t) \/ PartArrives(t) \/ StoreOpenedPdf(t)
       \/ StorePdfBlob(t) \/ PutFile(t) \/ PutMetadata(t) \/ PurgeOld(t)
       \/ PutBundle(t) \/ ListBundles(t) \/ DropBundles(t)
       \/ RemoveFiles(t) \/ RemoveRecord(t) \/ RemoveContent(t)
       \/ ClearAll(t) \/ ForgetUser(t) \/ ClearFiles(t) \/ ClearRecords(t) \/ ClearMetadata(t)
       \/ TabCloses(t)
       \/ \E v \in 1..PdfVersions, allowed \in BOOLEAN : AccessAnswered(t, v, allowed)
       \/ SetStoredPdfAccess(t)

DownloadsSpec == DownloadsInit /\ [][DownloadsNext]_downloadVars

-----------------------------------------------------------------------------
(* Properties *)

\* What a "download:" record names is there to be opened, at every step of a
\* store and whatever tab is closed in the middle of it: storePdfBlob commits
\* the new version before it removes the old one.  A removal that overlaps a
\* store, or is itself cut off, may leave a record without its content; the
\* next download of the item puts that right.
DownloadedIsWhole ==
  ~torn /\ (\A t \in DownloadTabs : ~Removing(t)) =>
    /\ metadata["pdf"] # NoMeta => metadata["pdf"].version \in cached
    /\ metadata["study"] # NoMeta => metadata["study"].version \in bundles

\* forgetOfflineUser promises that every protected download is gone once it
\* has ended: a download, a store or an access answer that another tab had
\* under way adds nothing afterwards.
SignedOutIsEmpty == locked => cached = {} /\ bundles = {} /\ metadata = [i \in Items |-> NoMeta]

\* A version the server has denied is opened again only after the server has
\* allowed it or after its record has been removed: no download or store that
\* overlaps the denial unlocks it.
DenialHolds ==
  [][\A v \in 1..PdfVersions :
       DeniedHere(v) /\ metadata'["pdf"] = [version |-> v, blocked |-> FALSE] =>
         \E t \in DownloadTabs : task[t].pc = "access" /\ task[t].allowed]_downloadVars
=============================================================================
