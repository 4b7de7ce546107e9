# A verification project for Lock-in: offline work, the device and the subscription

Lock-in is a study platform: a Django backend (`backend/apps`), a React
frontend (`frontend/src`) that also works without a connection, and the
deployment and documentation around them. This directory models the parts of it
that are hardest to test: work done on a device that is offline, in several
tabs or on several devices, and how it reaches the server; what the browser
keeps for a reader and hands from one account or build to the next; and a
subscription whose payments are reviewed by a person days later. The modules are
written in TLA+, checked with TLC on small instances, and the main safety
properties are proved with TLAPS for every instance.

Paths below are relative to the repository, line numbers to the modelled commit.

## 1. Inventory

| Part | State it keeps | Operations | Correct when |
|---|---|---|---|
| Offline queue (`frontend/src/offline/queue.js`, `coordinator.js`) | operations in the account's IndexedDB, their status, sequence and backoff; one run per tab | record, flush, apply answers, retry, dismiss; scheduled and forced runs | recorded work is never lost, never applied twice, applied in order, eventually settled |
| Session fence and profile (`sessionScope.js`, `profile.js`) | current account and a revision in localStorage; session cookie | remember, forget, check | nothing of one account is written or sent in the session of another; the lease leaves with its owner |
| Offline replay (`backend/apps/offline/sync.py`, `views.py`) | receipts, Active Study runs | admit a batch, replay each operation in its own transaction | an operation takes effect once, and only where its predecessor has |
| Offline lease (`lease.js`, `entitlements/offline_lease.py`) | signed lease, trusted clock readings | issue, save, verify, judge expiry | offline access ends when it should, whatever the clock does |
| Focus mirror (`frontend/src/workspace/catalog/catalogServerSync.js`, the effects of `pages/CatalogFocusWorkspace.jsx`, `backend/apps/focus/annotation_services.py`, `CatalogWorkspaceView`) | screen, device store, baseline, what the server is believed to hold; revisioned ink and reader state with receipts | open, edit, save, load, merge, push, retry, refresh, leave | devices converge; nothing leaves the server that nobody erased |
| Focus intent (`offline/focusSync.js`) | a dirty mark per document in the queue | mark, acknowledge, flush a closed document | a change made offline is sent even if the sheet is never opened again |
| Active Study (`offline/activeStudy.js`, `focus/managed_active_study.py`) | runs, attempts, local projections | attempt, continue, restart, adopt server results | device and server runs agree, an attempt counts once |
| Downloads (`offline/downloads.js`, `pdfSource.js`, `database.js`) | files in Cache Storage, bundles and records in IndexedDB | download, store, replace, remove, block, clear | a record has its file; nothing is left after a sign-out; a denial holds |
| API client (`api/client.js`, `lib/connectionState.js`) | connection state, one probe timer, a CSRF token | request, retry, probe, sign in and out | the connection is found again; the token is the current one |
| PWA update (`pwa/updateManager.js`, `service-worker.js`) | active and waiting worker; status of each window | check, install, apply, reload | no window is reloaded for nothing or left on an old build unawares |
| Device push (`pwa/devicePush.js`, `service-worker.js`, `notifications/push.py`) | the browser's binding; subscription and delivery rows | enable, disable, renew, claim, send, record | no notice to the wrong account, none sent again once accepted |
| Subscription, entitlements, manual payments, installments (`subscriptions`, `entitlements`, `payments`, the decisions of `admin_control`) | the subscription's row, its grant, cards under review, agreements | buy, review, renew, hold, resume, expire, cancel, decide | access follows what was paid and approved; a refusal leaves nothing behind |
| Refunds, invoices, provider payments | claims, documents, provider events | claim, decide, settle | once per event |
| Accounts, sessions, deletion | users, codes, linked identities | sign in and out, verify, delete | deletion reaches every part |
| Assessments, questions, review, biweekly | attempts, deadlines, schedules | start, answer, submit, time out | one result per attempt |
| XP, achievements, streaks, rankings, progress | projections of events | award, recompute | each event counted once |
| In-app notifications | rows and preferences | create, read | mostly single-row operations |
| Content, community, moderation, administration, reporting | rows behind permissions | edit, publish, review | mostly single-row operations |

How the modelled parts interact. The page records an operation in the queue in
one IndexedDB transaction. A run (`synchronizeOffline`) of any tab renews the
lease, reads the pending operations, uploads them in batches and applies the
answers; every await lets other tabs, a sign-out or a closed tab in. The server
replays a batch one transaction per operation. The Focus page saves to its own
store first and mirrors it to the server with revisions, idempotency keys and a
three-way merge; a probe every minute brings in other devices' work. Between the
two, the Focus intent in the queue makes sure that a sheet closed without a
connection is still sent. An Active Study call goes to the server or, when that
does not answer, to the run kept on the device, whose results go through the
queue. A signed lease decides how long downloads may be opened. All requests
pass the API client; a subscription decides on the server what they may read.

What is hard: two tabs of one browser share the database but not their memory;
copies read before an await are written back after it; a request the client has
given up on may still run; answers are lost; the login may change at any await;
each operation has a backoff of its own; a load is several requests; a merge
uses what was read before them. `PROJECT.json` lists each hazard at its line
with the properties that cover it, and every part that is not modelled with the
reason.

## 2. Modules

| Module | What it is |
|---|---|
| `OfflineQueue` | queue, runs, login fence and server replay, composed: they share the database and the requests |
| `DurableOutbox` | the abstract specification of the queue |
| `OfflineQueueProofs` | type correctness, four safety theorems, and that `OfflineQueue` implements `DurableOutbox` |
| `FocusSync` | Focus workspace, mirror and server records for several devices |
| `FocusIntent` | the dirty mark of a Focus document in the queue, its flush and the open sheet's push |
| `ActiveStudy` | a run on the device and on the server, calls, fallback, replay and adoption |
| `LeaseClock` | the clocks by which a lease is judged |
| `Downloads` | files, bundles and records of the offline copy, two tabs |
| `AppUpdate` | builds, service workers and the windows of one browser |
| `DevicePush` | binding a browser to an account, renewing it, and dispatching a notice |
| `ApiClient` | requests, retry, CSRF token, connection state |
| `ManualPayments` | subscription, entitlements, cards under review, installments, an administrator |
| `FocusSyncProofs`, `ActiveStudyProofs`, `LeaseClockProofs`, `DownloadsProofs` | theorems about the module they are named after |
| `PaymentsProofs` | theorems about `ManualPayments` |
| `ClientProofs` | theorems about `ApiClient` and `AppUpdate`, each by itself |
| `DeviceProofs` | theorems about `FocusIntent` and `DevicePush`, each by itself |
| `MCOfflineQueue`, `MCFocusSync` | values of the constants |
| `MCQueueCases` | several instances of `OfflineQueue` in one run |
| `MCConnected`, `MCStudent`, `MCDevice` | several modules in one run |

The last two kinds put independent state machines side by side: `part` says
which one a behaviour is of and the others stand still, so such a run is as many
checks as it has parts. They are not compositions. The compositions are inside
`OfflineQueue` (page, runs, session, server), `FocusSync` (devices, server),
`FocusIntent` (sheet, queue), `ActiveStudy` (device, queue, server, another
device), `DevicePush` (tabs, worker, server, dispatchers) and `ManualPayments`.

Definitions named as a *Variant* are plausible mistakes. Nothing uses them; each
is put in the place of one definition to see that a property can fail.

### 2.1 OfflineQueue

State. `seq`, `lastSeq`, `status`, `resting` are the operation records
(`client_sequence`, the `queue:sequence` record, `sync_status`, a
`next_attempt_at` in the future); `lease` and `clearing` the lease record and a
`forgetOfflineUser` under way; `cookie`, `current`, `rev` the session cookie and
the two localStorage keys of `sessionScope.js`; `tab[t]` the local variables of
a run (its captured revision, `force`, the pending list, the batch, the blocked
keys); `req[t]` the request it awaits; `ghosts` what is left to replay of
requests nobody awaits; `receipts` and `progress` the server's rows. `log`,
`foreign`, `refused` and `dismissed` are history.

Work is a script per ordering key: part numbers of an Active Study run, and
`Restart`. A key with one entry is also a question or Review answer.

Actions follow the awaits of the code. A run: `SyncStart`, `LeaseSaved` or
`LeaseFailed`, `FlushRead` (reads and filters the queue), `MarkSyncing`,
`SendBatch` (the fence, then the request), `AdmitBatch` or `RefuseBatch` (the
view, with the cookie of that moment), `ReplayNext` (one transaction of
`replay_batch`), `ResponseArrives` (the fence after the answer),
`ApplyAccepted` and `ApplyRejected` one operation at a time, `BatchDone`.
Around it: `EnqueueOperation`, `DismissFailedOperation`, `BackoffEnds`,
`SignOut`, `SignIn`, `ForgetOfflineUser` and `DeleteLease` (the two sides of
`forgetOfflineUser`'s first await), `RememberOfflineUser`, `RequestFailed`,
`RequestRepeated`, `TabCloses`, `ReplayGhost`.

Abstractions. Time is `resting` and `BackoffEnds`: an operation rests for an
arbitrary while. The throttle of automatic runs is left out, which only allows
more runs. The client's sequence number is read and written in one step. A lease
is present or not and always belongs to the owner; it is asked for, verified and
saved in one step, with the owner's cookie, where the code checks the fence again
only (lease.js:53); expiry and the 30-day grace are a refusal of the batch. An operation the server does not mention (queue.js
208-209) cannot occur: `replay_batch` answers every operation it is given. A
temporary refusal (429 or 503 from a replay handler) is handled by
`replay_batch` and tested by the client's tests, although no handler raises one
at this commit: the runs that carry a finding do without it.

### 2.2 DurableOutbox

Four sets: saved, held, delivered, given up. Work is held when recorded, is
delivered once, leaves the device only when delivered or given up; a tab may
write recorded work back. The refinement mapping takes `Saved` and `Held` from
`seq` and `status`, `receipts` for delivered and `dismissed` for given up.

### 2.3 FocusSync

One reader, one sheet, several devices. An item is a mark (ink, spread over
groups of `PAGES_PER_READ` pages) or a note (the reader state); its content is
the number of the edit that gave it and 0 when it is absent, so equal numbers
are equal fingerprints.

State. `screen` is `annotationsRef` and `notesRef`; `stored` the annotation
store; `base` the baseline in localStorage; `unsaved` the autosave under way;
`timer` `serverSyncTimerRef`; `mirror[d]` the variables of
`createCatalogServerSync` (`synced`, the two revisions, `latest`, the drain's
program counter and snapshot, the two key slots); `reader[d]` the load or
refresh under way with the copy it will merge; `req[d]` the write awaited;
`server`, `rev`, `receipt` the two records; `late` writes whose sender is gone.
`setBack` is history: the last load of a device was older than the state that a
write of the same device, under way when the load ended, was computed from
(finding 3). Properties of the mirror except such a device until it loads again.

Actions. `OpenWorkspace`, `Edit`, `PersistWorkspace`, `LeaveWorkspace`,
`KillTab`; `LoadAgain`, `StartRefresh`, `ProbeRead`, `ProbeAnswered`,
`ReadGroup`, `ReadFails`, `Reconcile` (the end of `load` with the `reconcile`
that follows it without an await); `PushTimer`, `Retry`, `TakeSnapshot`,
`PushRecord`, `HandleWrite`, `HandleLate`, `WriteAnswered`, `WriteFails`.
`MergeById` is the three-way merge of one map of items.

A drain between two awaits changes its own device only; `Next` lets it finish
before anything else happens, which the code's run to completion guarantees on
the device and which makes no difference to the others.

Abstractions. A push is one batch (the code cuts it at 100 mutations). The last
receipt of a device and record stands for all of them: an older key belongs to
a write whose expected revision has passed. A read of a group and its revision
is one step; the server reads the revision first, so the real read can only be
newer than its revision, which costs a reload. A drain left by a closed
workspace ends before the sheet is opened again. Lost access, a replaced PDF,
virtual pages, the view and device-only marks are left out; the flush of a
closed document by the queue is `FocusIntent`'s.

### 2.4 FocusIntent

One document, open in the tab "reader" or in none, and a queue that either tab
may flush. `ops` are the `focus_document_sync` records, `memory`, `stored` and
`server` the version on the screen, in the store and at the server. Listing the
queue and writing to it are two steps (`MarkLists`, `MarkWrites`; `AckLists`,
`AckRemoves`), as are the reads and writes of a flush (`FlushBegins` to
`FlushRemoves`). Leaving the sheet saves and marks it whether it was changed or
not. Merging is `FocusSync`'s subject: here a later version contains an earlier
one, and what a flush writes back to the store of another device's changes
(focusSync.js:106-120) is left out, as are saves of an open sheet that find
nothing new.

### 2.5 ActiveStudy

One sheet of some parts and a final exam; an attempt passes or fails. `run` is
the device's record, `srv` the server's run, `call` what the page waits for,
`overdue` requests it has given up on, `read` an availability read whose result
is written later, `queue` and `replay` the work on its way. The calls are
`AfterAction` on the device and the same operation on the server;
`CallLocally`, `CallOnline` and `FallsBack` are the branches of `route`. Another
device of the reader acts on the server's run only. Question content, scores
and XP amounts are left out; the queue itself is `OfflineQueue`'s.

### 2.6 LeaseClock

`real` is the server's clock, `wall` the device's, `asleep` what the monotonic
clock has missed. Saving a lease and judging it are steps on both sides of their
awaits, and a page may write back the floor of a record another page has
replaced. The reader may set the clock, the device may sleep, pages reload.

### 2.7 Downloads

Two tabs and one sheet's file and question bundle. The steps follow the awaits
of `downloads.js`: fetch, fence, put the file, write the record, delete the old
version; access answers block and unblock; `forgetOfflineUser` clears. A
transaction of IndexedDB is one step and does not fail. `torn` records a removal
between the two writes of a store, which no lock prevents.

### 2.8 AppUpdate

Workers are numbered by build. A window has an inbox of the browser's events,
which it handles later; `flight` is its check, `target` the worker it has asked
to take over. `missed` and `shaken` mark what the code does not cover: a change
of worker before the manager is attached or during a check, and a check that
fails after a worker has begun to wait. The browser's own check for an update on
a navigation is left out, and an update is applied by a window that has handled
its events (its inbox is empty).

### 2.9 DevicePush

Tabs, the service worker, the server's rows and dispatchers each step by
themselves. A binding is a number the server gives; a message carries it, and
the worker shows the notice if its record has the same one. The record is in
IndexedDB, shared by the tabs and the worker, so every await is a step.

`off` is history: the accounts that have turned notices off, or left the browser,
since they last turned them on. Turning on ends when the record is written, in a
tab that shows the account then (`Shows`); a tab that does not must not write it
(`StillShown`, the code's `assertCurrent`). So an account that leaves the browser
in one tab, while another that has not noticed is turning its notices on, ends
with a record: the code does that and `StaysOff` does not deny it.

Abstractions. A dispatcher reads its delivery and the row and sends the message
in one step, and the check of the row after a 410 (push.py:210-212) is part of
it. A change of the server's key, and leaving the Settings page while a switch is
under way, are left out.

### 2.10 ApiClient

A request is fetched and its answer read, in two steps: the head tells the
connection and sets a cookie, the body ends the call. A read, or a write that may
be repeated, is fetched up to twice more after a lost fetch. `fate` says whether
a fetch was begun while the server was reachable.

`csrfCookie` is the number of the secret in the browser's cookie and `token` that
of the cookie the page's token belongs to. A sign-in answers with a new secret.
`GET /auth/csrf` (`CsrfAnswered`) sends the cookie too (`ensure_csrf_cookie`,
accounts/views.py:323-328), with the secret its request came with or, when it came
with none, a new one; the probe is the same request (client.js:497). The browser
keeps the cookie of whichever answer arrives last, so an older answer may set the
cookie back under a newer token. `overtaken` is history: that has happened, or the
body of a sign-in was lost, since the token was last cleared.

`TokenIsCurrent` claims what `clearCsrfToken` and the comparison in
`ensureCsrfToken` are for: a token whose answer began before a sign-in's and ends
after it is not kept, however many fetches are awaited then. It excepts
`overtaken`, as the code keeps the token there.

### 2.11 ManualPayments

A purchase, a review and a decision are transactions under the lock of the
account's or subscription's row, so each is one step, written as a chain of
functions from rows to rows (`RefreshSubscription(r)`, `SyncEntitlements(r)`)
in the order of the code. A function that the code enters several times
(`refresh_subscription` runs before a purchase, after it, in a review before the
payment is saved and once more after it) is applied as often here. `Loops(r)` is
the one case in which `_refresh_lifecycle` does not come back.

State: `sub` the row, `grant` its entitlement, `ended` the dated keys of the
lifecycle's transitions, `pay` a card with its payment, submission and (for a
first installment) agreement, `policy` whether purchases carry the current
policy version. Instants are days, 0 is null. `timely`, `decisions` and
`promised` are history.

Abstractions. Three plans: the trial, a rolling month with a grace period, a
term with a fixed end that can be paid in two parts; all open the same content.
The dates of a revoked grant and the snapshot of a reviewed card are dropped,
as nothing reads them. `Visit` is a refresh by the subscription page, the
lifecycle command or the reconciliation; they read the row without a lock, and
the model takes the visit as one step. Prices, eligibility, card codes, invoices,
refunds, notifications and provider payments are left out.

The runs have the current policy, under which a card opens nothing before it is
approved (docs/USER_POLICY_RELEASE_2026_10.md:25-26, which
docs/SUBSCRIPTION_MANUAL_LIBYANA.md:26-28 precedes: it describes the older one).

## 3. Runs

| Run | Parts and bounds | Properties |
|---|---|---|
| `queue_cases` | *tabs*: 2 tabs, an attempt and a Restart, batch of 2, 1 failure, 1 abandoned request, 1 refusal. *order*: 2 tabs; pass, restart, pass; batch of 2 of 3; forced. *blocked*: 1 tab, three parts, 2 temporary and 1 final refusal; forced. *session*: 2 tabs, one answer, 2 session ends | `TwoTabsLoseNothing`, `LaterWorkHeldBack`, `ServerIsAsTheDevice`, `OnlyRulesFailWork`, `OnlyOwnersRecord`, `LeaseLeavesWithOwner` |
| `connected` | *queue*: 1 tab, two parts, batch of 1, every kind of failure but a final refusal; fair. *client*: 2 requests, an outage, 2 probes at once; fair | `TypeOK`, `NoLostWork`, `AppliedAtMostOnce`, `ImplementsOutbox`, `WorkIsSettled`, `ReconnectsInTheEnd` |
| `focus_converges` | 2 devices, one mark, 1 edit, 1 failure, 2 visits, 5 full refreshes; fair | `TypeOK`, `SyncedHolds`, `Agreement`, `EventuallyAgree` |
| `student` | *study*: 2 parts, 2 attempts, 2 runs, a call not answered in time, one from another device | `GradedOnce`, `ResultsReachServer`, `NothingAheadOfServer` |
| | *lease*: 2 pages, 2 leases, a device clock that is behind and set once | `SlowClockGainsNothing`, `SlowClockStillWorks`, `PageCannotRewind` |
| | *client*: 3 requests, an outage, a probe at once; *first*: 2 requests in a browser without a CSRF cookie | `ProbeIsComing`, `TokenIsCurrent` |
| | *update*: 2 windows, 2 builds, a check, a failure, a lost connection | `ReloadBringsNewBuild`, `OldWindowIsTold`, `UpdateIsOffered` |
| | *payments*: 3 cards and decisions, of which 1 decision, 6 days | `NoUnpaidAccess`, `PaidMeansAccess`, `PeriodsFollow`, `RefusalRestores`, `HoldHasReason` |
| `device` | *intent*: 2 tabs, 2 edits, a failed push, 2 visits, 4 timestamps, 2 marks or acknowledgements and a flush under way. *downloads*: 2 tabs, 2 versions of the file, a removal, a denial, a closed tab, a sign-in. *push*: one tab, 2 accounts, 2 dispatchers, 2 bindings, a notice, a fault, and a second attempt of a delivery or a second subscription of the browser, not both; *tabs*: the same in two tabs, without notices. *sheet*: 1 device, a mark and a note, 2 edits, 2 failures, 2 visits, a full refresh | `ForgottenIsHeld`, `DownloadedIsWhole`, `SignedOutIsEmpty`, `DenialHolds`, `NoticeIsForItsReader`, `StaysOff`, `AcceptedIsFinal`, `SheetInStep` |
| `backoff_overtakes` | violation: `FailedOnlyForBusinessRule` with unforced runs | finding 1 |
| `focus_two_groups` | violation: `Agreement` with two page groups | finding 2 |
| `load_overtakes` | violation: `FingerprintsHold`, one device, two marks, no failure | finding 3 |
| `focus_erased` | violation: `OnlyErasedIsErased`, one device, no failure | finding 4 |
| `focus_intent` | violation: `IntentIsDurable`, two tabs | finding 5 |
| `study_out_of_order` | violation: `NeverOutOfOrder`, one call not answered | finding 6 |
| `review_settles` | violation: `ReviewSettles`, two cards | finding 7 |

Why the bounds are enough to be interesting. Two tabs are needed for stale
copies and racing removals; a batch smaller than the queue for the cut between
dependent operations; three operations on a key for a Restart between two
attempts; one abandoned request beside one that is awaited for a duplicated
upload; two session ends for the owner to leave, another account to come and go.
Two devices that may both show a mark give a conflict and a merge
(`focus_converges`); two edits, a note beside the mark and two failures on one
device are erasures, pushes that overlap and writes that arrive late (*sheet*).
Two devices with two edits and two marks of one page group, and two devices with
a mark and a note, were checked too, and the theorems have no bounds. `MaxLoads`
bounds refreshes that find something new: with two edits a device whose refreshes
keep overlapping its own pushes can overwrite and push again without end. In
`focus_converges` the bound is never reached (the state count is the same from 4
up). One unanswered call, whose request is still running, and one queued attempt
are the duplicate that `GradedOnce` is about. Two windows let one apply what the other
checks. Two dispatchers and a claim that runs out give the late outcome
(`RetryOrRenewal` keeps a second attempt and a renewed subscription apart; both
together, 1.7 million states more, were checked too).

In *payments* six days hold a trial, a month, its grace and the day after, with
a term that ends inside them and whose second part is due two days after the
first. A renewal may be sent two days before an end, so that one sent before a
part falls due can be refused after it. Three cards are a first purchase, its
second part or renewal, and one sent after a refusal; a decision takes the place
of a card. The properties were also checked with the older policy and with
longer terms (7 days, no decision).

Tabs of the queue and devices are interchangeable, and `queue_cases` and
`focus_two_groups`, which check no liveness, use that.

`CHECK_DEADLOCK FALSE` stands where the reader may stop: close the sheet, leave
the device, or reach the last day. The queue runs check deadlock.

Fairness. `WorkIsSettled`: runs keep starting (the scheduled retry, focus,
reconnect and app open), a started run goes on, backoffs end, another account
signs out and the owner comes back, and a lease request that is tried again and
again succeeds (strong fairness on `LeaseSaved`: a subscription that never
returns would keep the work on the device for ever, by design).
`ReconnectsInTheEnd`: an outage ends, the probe's timer fires, and a probe is
answered or given up (it has a deadline); other requests need not be made.
`EventuallyAgree`: the autosave and push timers fire, an open sheet probes every
minute, a failed request makes `connectionState.js` report the connection's
return, which loads or retries, and requests are answered or fail. Nobody has to
edit, open or leave.

## 4. Findings

1. An unforced run filters operations by their own backoff (queue.js:243), so
   part 2 is sent while part 1 rests; `out_of_order` then finds no blocked key
   and the attempt fails for good, against queue.js:11-13 and 192-193. After a
   reload this needs nothing but a long backoff on one operation and a short one
   on the next. The same filter lets a Restart overtake the attempt before it,
   which is then applied to the new run, against docs/OFFLINE_MODE.md:163-164
   (`HoldsBackLaterWork` fails likewise once a run may be unforced).
2. `readCollection` keeps the highest revision of several reads
   (catalogServerSync.js:190). A mark that another device adds to an early group
   between two reads is never shown. With one group the property holds.
3. `load` replaces the fingerprints and revisions of the mirror by what it has
   read (catalogServerSync.js:215) while a drain may have had a write answered
   since, and await the next. The next answer sets the newest revision (:270)
   over the older fingerprints, and they are saved as the baseline (:292),
   against :149 and :25-27. A mark the drain had just pushed then counts as
   unknown to the server: if it is erased before another push, the erasure is
   not sent (:281), and the next merge brings the mark back. It was met in the
   proof of `SyncedHolds`, which excepts such a device (`setBack`) until its next
   load.
4. `refreshServerState` merges what was on the screen before its awaits
   (CatalogFocusWorkspace.jsx:2050). A mark drawn meanwhile disappears and, if
   it had been pushed, is erased from the server. A drain or retry whose snapshot
   is older than a finished refresh has the same effect on another device's mark.
5. `flushLocalOperation` removes its record when the flush ends (queue.js:221),
   although the document may have been marked dirty again meanwhile under the
   same id. If it is then closed and its own push fails, the last edit waits on
   the device with nothing to send it, against offline/focusSync.js:11-13.
6. A reading finished on the device during a short outage is neither queued nor
   marked, so the next call goes to the server, which refuses it as out of order
   (activeStudy.js:462), against activeStudy.js:452-454.
7. A renewal sent in grace and then rejected gets its old dates back but stays
   active (manual_services.py:918-931). The end of that period has been recorded,
   so `_refresh_lifecycle` calls itself without end (subscriptions/services.py:485),
   the rejection is undone and the card stays pending, against
   manual_services.py:803-804 and docs/SUBSCRIPTION_MANUAL_LIBYANA.md:58-59.

Met while modelling, and not the subject of a run:

* Two tabs that store different versions of a question bundle each delete the
  other's (downloads.js:119); a failed write of the record deletes the file of
  the version already stored (:210); a removal takes no lock (:339); a blocked
  item is downloaded again by every sync.
* A check that is under way when another window applies an update ends with "up
  to date" (updateManager.js:260), an automatic check that fails hides an
  available update (:270), and an update applied before the manager is attached
  is not reported (:394).
* Turning notifications off reads and unsubscribes in two steps (devicePush.js:62);
  the worker reads the binding and shows the notice in two (service-worker.js:89).
* The answer to an older `GET /auth/csrf`, to a fetch or a probe (client.js:333,
  497), that arrives after a sign-in's brings the old CSRF cookie back, while the
  page keeps the token it has fetched since: the next writes carry a token of
  another secret, until the token is cleared (or the page is loaded again).
* A late failure of a probe reports a lost connection that another request has
  just found (connectionState.js:33) until the next probe; a sign-in in another
  tab makes this one's token stale for one write (client.js:368); a sign-in
  whose body is lost keeps the old token (accounts.js:183-187).
  `reportBrowserOffline` has no caller.
* A renewal sent before a part falls due and refused after it writes the reason
  of its snapshot over the hold's (manual_services.py:920-932); the check that
  lifts a hold asks for that reason (installments.py:242-245), so paying the part
  no longer lifts it, against installments.py:9-12. `PaidMeansAccess` excepts a
  suspended row for it. After a decision of an
  administrator a period whose end is already recorded can keep its hold without
  a part that is due, which is the exception in `HoldHasReason`.
* Approving a card writes the period anew and drops what an administrator
  extended meanwhile (manual_services.py:846-850). A plan changed by an
  administrator during a hold leaves a part nobody can pay (payments/services.py:54).
  A card approved after the subscription was cancelled or held verifies the
  payment but opens nothing (manual_services.py:845). A term bought while an
  approved period starts only later closes access until the review
  (entitlements/services.py:116-120: the earlier state's start is in the future).

## 5. Proofs

Every theorem is about the whole specification of its module, for all values of
the constants that satisfy the assumptions named there. The assumptions say that
bounds and lengths are natural numbers (those of the subscription's periods
positive), that a batch or a sheet has at least one
element, and that the value for "nobody" (`NoneIsNoAccount` in `DevicePush`,
`NobodyIsNoTab` in `Downloads`) is no account or tab; TLC evaluates them in the
runs. Each proof is an induction: a predicate that the first states satisfy and
every action preserves, one step per action. What follows is that predicate and
why the property alone is not enough.

**OfflineQueueProofs** (any keys, scripts, tabs, batch size)

* `TypeCorrect`. Every action keeps the types; helper lemmas give the type of
  each record a step builds.
* `NoLostWorkHolds`. The property is not inductive: a tab writes copies back and
  removes what an answer lists, so one must know where those came from. `IInv`
  adds that pending lists, batches, requests, abandoned requests, the device and
  the receipts only hold recorded operations (`TabKnown`, `ReqKnown`,
  `GhostKnown`, `DeviceKnown`, `ServerKnown`) and that an operation listed as
  accepted has a receipt (`Acknowledged`). Recorded operations and receipts only
  grow, so each conjunct is preserved by the few actions that write it.
* `AppliedAtMostOnceHolds`. Strengthened by `LogReceipted`: whatever was applied
  has a receipt, and a handler runs only without one.
* `OnlyOwnersRecordHolds`. Strengthened by `ReqOwned`: no admitted request runs
  as the other account, because the lease it carries names the owner. The
  client's fence is not what makes this true; the server's check of the lease is.
* `LeaseLeaves`. The property is inductive once types are known: the lease is
  written only while the run's captured revision is the current one.
* `OutboxImplemented`. From `IInv`, every step maps to a step of the outbox or
  to no step; writing copies back is `Reclaim`, replaying is `Deliver`.

**ActiveStudyProofs** (any parts, attempts, runs, failures, other devices)

* `AttemptsGradedOnce`. `submit` and `replay_offline_attempt` append to the
  grades only what is not among them; the lemmas `ServerAnswering` and
  `OutcomeTyped` show that of every branch of the two.
* `ResultsAlwaysReachServer`. A shown attempt leaves the queue when its answer
  arrives, so the answer must be true then, and it may come from a receipt
  written long before. `StudyInv` has `AnswerIsTrue` and `ReceiptsTrue` (applied
  or duplicate means graded) and `FlushFits` (an answer is about the operation
  that still heads the queue, although calls append to the queue meanwhile).

**LeaseClockProofs** (any pages, lifetime, tolerance, delay, clock settings)

* `LeaseInv` says of every record of the current format, the stored one and each
  copy a page holds over an await, how its offset relates the two clocks
  (`OffsetOK`), that the anchor of the page that saved it was taken within `Delay`
  of the issue with the wall clock the offset was computed from (`AnchorFits`),
  that lease numbers are not used twice and that calls end in time (`JobOK`), and
  that an anchor runs no faster than a clock nobody sets (`AnchorOK`).
* `SlowClockNeverGains`, `SlowClockAlwaysWorks`, `PageNeverRewinds`. The only
  step that gives a verdict is `StatusJudged` (`OnlyJudgedSteps`); each property
  is then arithmetic over `LeaseInv`. The runs have leases of a few minutes; the
  theorems cover the real 24 hours and 5 minutes.

**DownloadsProofs** (any tabs and versions)

* `DenialAlwaysHolds`. `DenialInv`: a store holds the cache lock, which an answer
  about access waits for, and what it stores is not denied meanwhile.
* `SignedOutAlwaysEmpty`. `SignOutInv`: a clearing in progress has gone as far as
  its step says, and without a session nothing is added behind it.
* `PdfAlwaysWhole`. `PdfInv`: removing the bundle takes no file; unless a removal
  and a store have overlapped (`torn`), none do now, a store puts the file before
  the record and drops the old file after it, and either the record's file is
  there or a removal under way will take the record.
* `DownloadedAlwaysWhole` adds the question bundle, under the condition that one
  version of it is published: two versions break it (hazard `downloads.js:119`),
  and TLC finds that at once.

**ClientProofs**, `AppUpdate` (any windows and builds; no assumptions)

* `OldWindowAlwaysTold`, `UpdateAlwaysOffered`, `ReloadAlwaysBringsNewBuild` rest
  on `UpdateInv`: builds grow from the active worker to the waiting and the
  installing one (`BuildsGrow`), a page that missed nothing is never newer than
  the active worker and is older exactly when it was told or its event is in the
  inbox (`PageOK`, `ToldOf`), and a waiting worker is offered or its event is in
  the inbox (`OfferOK`).

**DeviceProofs**, `DevicePush` (any accounts, tabs, dispatchers, notices)

* `AcceptedStaysAccepted`. `DeliveriesUnique`: one delivery for a notice and row,
  so what a late dispatcher writes is the row it claimed.
* `NoticesReachTheirReader`. `BindingsOwned`: whatever holds a binding, a row, a tab,
  a renewal, the browser's record or a message, holds it for the same account,
  and no number is given twice.
* `OffStaysOff` is inductive with the types: a renewal writes only over a record
  of the same account, a tab only while it shows the account, which is then on.

**ClientProofs**, `ApiClient`, and **DeviceProofs**, `FocusIntent`

* `ProbeAlwaysComing` is inductive with the types. `TokenAlwaysCurrent` needs
  `TokenInv`: the answer being read that is still awaited carries the cookie's
  secret, unless the cookie was changed under it or a sign-in's answer is being
  read (`TokenFollows`); an answer that moved the cookie clears the token when it
  is read (`MovedClears`), after which the fetches of before it, whose numbers are
  not given again (`FetchesCounted`), are not awaited.
* `ForgottenAlwaysHeld` needs `IntentInv`, that a push, a flush and an
  acknowledgement carry no more than what was stored and that the server has
  taken what they were answered for (`RecordedIsStored`, `PushCarries`,
  `AckIsHeld`, `FlushCarries`).

**FocusSyncProofs** (any devices, marks, notes, edits, failures, visits, loads)

`SyncedHoldsAlways` and `AgreementAlways` are for a sheet of one page group
(`LastGroup = 1`, up to `PAGES_PER_READ` pages): with two the properties are false
(finding 2).

* `FocusTyped`. Every action but the server's changes one device's mirror, reader
  and request, and the lemmas named `...Moves` say how (`DeviceMoves`); the types and the
  later invariants are proved of these moves.
* `SyncedHoldsAlways`. A mirror learns a revision from an answer, and the answer
  may be to a write sent long before, or be replayed from a receipt. `KeysInv`: a
  key names one write of one record, in the slot, the request, the receipt and
  among late writes. `SyncInv` then says, of each mirror, unfinished read, request
  and receipt at the server's present revision, what it knows: a mirror and a
  read have the server's content, and a write that was applied with that revision
  has its items on the server and found the rest as whoever was at its expected
  revision knows it (`Given`). Most actions touch none of this (`Quiet`); the
  others (`Loud`: the server applies a write, an answer arrives, a write is sent,
  a group is read, a load ends) have a lemma each.
* `AgreementAlways`. `ShownInv`: what the screen shows is unsaved, scheduled,
  waiting, in the drain's snapshot with the rest of it on its way, or is what the
  mirror takes for the server's. With the first four excluded and the revisions
  equal, `SyncedHolds` gives the rest.

**PaymentsProofs** (any lengths of trial, month, grace, term and gap, any cards,
decisions and days, both policies)

A transaction is a chain of functions on the account's rows, so the lemmas are
about the functions (`RefreshKept`, `EnforceHolds`, `LifecycleFresh`,
`SyncCovered`) and each action cites those of its chain. `PaymentsInv` has, beside
the types,

* `CardsOK` and `OwnsReview`: a card is in review until it is reviewed, cards are
  sent one after the other, and the row rests on the purchase under review.
* `PaidInv`, for `NoUnpaidAccessHolds`: every date of the row, and of the row a
  card under review took the place of, is within what the trial, an approved card
  or an administrator gave; while a card is reviewed, so is the grant. The
  property speaks of access today; a refusal brings back a row of days ago,
  whose dates must have been covered all the time.
* `OrderInv`, for `PeriodsFollowAlways`: without decisions the row ends no earlier
  than any period sold, and a card under review begins no earlier, so the period
  that is computed anew at approval still follows.
* `HoldInv`, for `HoldHasReasonAlways`: a held row has a part that is due, or the
  end of its period has been recorded. `FreshInv` excludes the second without an
  administrator: a row whose last reason is an installment, also the one a
  refusal would bring back, has not had its period's end recorded, and no end is
  recorded before it has come (`KeysOK`).

Each inductive predicate was checked by TLC on small instances before it was
proved.

Only model-checked:

* liveness (`WorkIsSettled`, `EventuallyAgree`, `ReconnectsInTheEnd`), which these
  provers do not handle;
* `LaterWorkHeldBack`, `ServerIsAsTheDevice` and `OnlyRulesFailWork`, which hold
  for instances of `OfflineQueue` with forced runs only, and `TwoTabsLoseNothing`,
  an instance of what `NoLostWorkHolds` proves;
* `NothingAheadOfServer` (`ActiveStudy`): its inductive form has to follow a run
  through every operation still queued, which is what a replay computes;
* `PaidMeansAccess` and `RefusalRestores` (`ManualPayments`): they say that a
  chain of transactions leaves access, so they need what each function leaves
  for every status of the row and not only what it keeps;
* `SheetInStep`, an instance of what `SyncedHoldsAlways` and `AgreementAlways`
  prove.

## 6. Plan

To prove: `PaidMeansAccess`, with the grant derived from the row that an approved
card left; `HoldsBackLaterWork` of `OfflineQueue` with forced runs;
`NothingAheadOfServer`, if the replay of a queue can be put as an invariant of its
head.

To model next: sequence numbers given by two tabs; refunds and provider events,
delivered more than once and out of order; account deletion across parts;
assessment deadlines; motivation projections.

## 7. Not modelled

`PROJECT.json` gives the reason for each part. In short: drawing, layout,
rendering, translations and most pages keep no state that two actors share;
reporting, audit, content and community are mostly single-row operations under
row locks, which the repository's tests reach; refunds, invoices, provider
payments, accounts, assessments, review scheduling and the motivation
projections are state machines worth modelling that this project has not
reached. The mapped lines are therefore a small share of the whole repository,
of which the pages and translations alone are a large part.
