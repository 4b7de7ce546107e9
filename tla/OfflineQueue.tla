---------------------------- MODULE OfflineQueue ----------------------------
(***************************************************************************)
(* The durable queue of work done offline (frontend/src/offline/queue.js), *)
(* the run that drains it (coordinator.js), the login fence it works under *)
(* (sessionScope.js, profile.js) and the endpoint that replays it          *)
(* (backend/apps/offline/views.py and sync.py).                            *)
(*                                                                         *)
(* One account, the "owner", has one IndexedDB database shared by several  *)
(* browser tabs.  A tab drains the queue in steps separated by the awaits  *)
(* of the code, so another tab, the server, a sign-out or a closed tab can *)
(* come between any two of them.  A request that the client has given up   *)
(* on may still be running on the server: it is a member of ghosts.        *)
(*                                                                         *)
(* Work is recorded per entity ("ordering key").  Script[k] is what the    *)
(* student does on entity k, in order: p > 0 is an attempt that passes     *)
(* part p of an Active Study run, Restart begins the run again.  An entity *)
(* with a single attempt is also a question or Review answer, which has no *)
(* predecessor.                                                            *)
(***************************************************************************)
EXTENDS Naturals, Sequences, FiniteSets

CONSTANTS Keys,        \* ordering keys
          Script,      \* the operations the student records on each key
          Tabs,        \* browser tabs
          Forces,      \* the force options synchronizeOffline is called with
          BatchSize,   \* BATCH_SIZE of queue.js
          MaxFaults,   \* bound: lost connections, closed tabs, refused requests
          MaxTemporary,\* bound: 429/503 answers of a replay handler
          MaxRefusals, \* bound: business-rule refusals by a replay handler
          MaxGhosts,   \* bound: abandoned requests still running at the server
          MaxSignOuts  \* bound: sessions that end

Restart == 0

ASSUME KeysAssumption == Script \in [Keys -> Seq(Nat)]
ASSUME BatchAssumption == BatchSize \in Nat \ {0}
ASSUME ForceAssumption == Forces \subseteq BOOLEAN /\ Forces # {}
ASSUME BoundAssumption == /\ MaxFaults \in Nat
                          /\ MaxTemporary \in Nat
                          /\ MaxRefusals \in Nat
                          /\ MaxGhosts \in Nat
                          /\ MaxSignOuts \in Nat

\* An operation is named by its key and its position in the key's script.
Ops == UNION {{k} \X (1..Len(Script[k])) : k \in Keys}
KeyOf(o) == o[1]
What(o) == Script[o[1]][o[2]]

VARIABLES
  (* The account's IndexedDB database *)
  seq,       \* client_sequence of each operation, 0 before it is recorded
  lastSeq,   \* the "queue:sequence" record
  status,    \* sync_status of each operation; "none" is no record
  resting,   \* operations whose next_attempt_at has not been reached
  lease,     \* whether a lease is stored
  clearing,  \* forgetOfflineUser has still to delete the lease
  (* The browser's login *)
  cookie,    \* the account of the session cookie sent with every request
  current,   \* CURRENT_USER_KEY in localStorage
  rev,       \* REVISION_KEY in localStorage
  signOuts,  \* sessions that have ended
  (* The synchronisation run of each tab *)
  tab,
  (* Requests and the server *)
  req,       \* the request each tab awaits
  ghosts,    \* what is left to replay of abandoned requests
  receipts,  \* OfflineOperationReceipt rows of the owner
  progress,  \* parts the server's run of each key has completed
  (* History, read by the properties only *)
  log,       \* positions of the operations applied to each key, in order
  foreign,   \* operations replayed into another account
  refused,   \* operations a handler refused for a business rule
  dismissed, \* refused operations the student removed
  faults,    \* lost connections, closed tabs and refused requests so far
  temporary  \* temporary refusals so far

dbVars == <<seq, lastSeq, status, resting>>
loginVars == <<lease, clearing, cookie, current, rev, signOuts>>
serverVars == <<receipts, progress, log, foreign, refused, temporary>>
vars == <<dbVars, loginVars, tab, req, ghosts, serverVars, dismissed, faults>>

Accounts == {"owner", "other"}
Open == {"pending", "retry", "syncing"}
PCs == {"idle", "lease", "read", "mark", "send", "wait", "apply"}

\* The lists an operation of a batch can be answered in: accepted, or rejected
\* as retryable, as out_of_order, or for a business rule.
Lists == {"accepted", "unavailable", "out_of_order", "rejected"}
NoAnswers == [list \in Lists |-> {}]

NoReq == [as |-> "none", rest |-> {}, answer |-> NoAnswers]
SentReq(B) == [as |-> "sent", rest |-> B, answer |-> NoAnswers]
IdleTab == [pc |-> "idle", rev |-> 0, force |-> FALSE, queue |-> {}, batch |-> {},
            late |-> {}, blocked |-> {}]

Init ==
  /\ seq = [o \in Ops |-> 0]
  /\ lastSeq = 0
  /\ status = [o \in Ops |-> "none"]
  /\ resting = {}
  /\ lease = FALSE
  /\ clearing = FALSE
  /\ cookie = "owner"
  /\ current = "owner"
  /\ rev = 0
  /\ signOuts = 0
  /\ tab = [t \in Tabs |-> IdleTab]
  /\ req = [t \in Tabs |-> NoReq]
  /\ ghosts = {}
  /\ receipts = {}
  /\ progress = [k \in Keys |-> 0]
  /\ log = [k \in Keys |-> <<>>]
  /\ foreign = {}
  /\ refused = {}
  /\ dismissed = {}
  /\ faults = 0
  /\ temporary = 0

-----------------------------------------------------------------------------
(* Recording work *)

\* enqueueOperation: the next operation of the key, its sequence number and
\* the local records it belongs with are stored in one transaction.
EnqueueOperation(o) ==
  /\ current = "owner"
  /\ seq[o] = 0
  /\ \A p \in Ops : KeyOf(p) = KeyOf(o) /\ p[2] < o[2] => seq[p] > 0
  /\ seq' = [seq EXCEPT ![o] = lastSeq + 1]
  /\ lastSeq' = lastSeq + 1
  /\ status' = [status EXCEPT ![o] = "pending"]
  /\ resting' = resting \ {o}
  /\ UNCHANGED <<loginVars, tab, req, ghosts, serverVars, dismissed, faults>>

\* dismissFailedOperation
DismissFailedOperation(o) ==
  /\ status[o] = "failed"
  /\ status' = [status EXCEPT ![o] = "none"]
  /\ resting' = resting \ {o}
  /\ dismissed' = dismissed \cup {o}
  /\ UNCHANGED <<seq, lastSeq, loginVars, tab, req, ghosts, serverVars, faults>>

\* The backoff of an operation (backoffDelay) runs out: due becomes true.
BackoffEnds(o) ==
  /\ o \in resting
  /\ resting' = resting \ {o}
  /\ UNCHANGED <<seq, lastSeq, status, loginVars, tab, req, ghosts, serverVars,
                 dismissed, faults>>

-----------------------------------------------------------------------------
(* Signing in and out *)

\* The session of the cookie ends: authApi.logout in handleLogout, or expiry.
SignOut ==
  /\ cookie # "none"
  /\ cookie = "owner" => signOuts < MaxSignOuts
  /\ signOuts' = signOuts + 1
  /\ cookie' = "none"
  /\ UNCHANGED <<dbVars, lease, clearing, current, rev, tab, req, ghosts,
                 serverVars, dismissed, faults>>

\* An account signs in on this browser.
SignIn(a) ==
  /\ cookie = "none"
  /\ a = "owner" \/ signOuts < MaxSignOuts
  /\ cookie' = a
  /\ UNCHANGED <<dbVars, lease, clearing, current, rev, signOuts, tab, req, ghosts,
                 serverVars, dismissed, faults>>

\* forgetOfflineUser, up to its first await on the database: the fence moves.
\* It follows a sign-out, rememberOfflineUser of another account, or a sign-out
\* made without a connection, which leaves the cookie for the next start to end.
\* The queue is retained (isRetainedOfflineWork).
ForgetOfflineUser ==
  /\ current # "none"
  /\ \/ cookie # current /\ UNCHANGED signOuts
     \/ cookie = current /\ signOuts < MaxSignOuts /\ signOuts' = signOuts + 1
  /\ rev' = rev + 1
  /\ current' = "none"
  /\ clearing' = (clearing \/ current = "owner")
  /\ UNCHANGED <<dbVars, lease, cookie, tab, req, ghosts, serverVars, dismissed, faults>>

\* forgetOfflineUser, the rest of it.
DeleteLease ==
  /\ clearing
  /\ clearing' = FALSE
  /\ lease' = FALSE
  /\ UNCHANGED <<dbVars, cookie, current, rev, signOuts, tab, req, ghosts, serverVars,
                 dismissed, faults>>

\* rememberOfflineUser, once the previous account is forgotten: the account
\* signed in becomes the current one.  Any tab that shows the account may call
\* it, so an offline sign-out in another tab does not prevent it.
RememberOfflineUser ==
  /\ cookie # "none"
  /\ current = "none"
  /\ current' = cookie
  /\ UNCHANGED <<dbVars, lease, clearing, cookie, rev, signOuts, tab, req, ghosts,
                 serverVars, dismissed, faults>>

\* captureOfflineSession's isCurrent, for the run of tab t.
IsCurrent(t) == current = "owner" /\ rev = tab[t].rev

-----------------------------------------------------------------------------
(* The run of a tab: coordinator.js and flushPendingOperations *)

Stop(t) == tab' = [tab EXCEPT ![t] = IdleTab]

\* synchronizeOffline: a run begins unless one is active in this tab.
SyncStart(t, force) ==
  /\ tab[t].pc = "idle"
  /\ current = "owner"
  /\ tab' = [tab EXCEPT ![t] = [IdleTab EXCEPT !.pc = "lease", !.rev = rev,
                                               !.force = force]]
  /\ UNCHANGED <<dbVars, loginVars, req, ghosts, serverVars, dismissed, faults>>

\* Variant: the lease is stored without asking the fence.
LeaseSavedUnscoped(t) ==
  /\ tab[t].pc = "lease"
  /\ cookie = "owner"
  /\ lease' = TRUE
  /\ tab' = [tab EXCEPT ![t].pc = "read"]
  /\ UNCHANGED <<dbVars, clearing, cookie, current, rev, signOuts, req, ghosts,
                 serverVars, dismissed, faults>>

\* saveVerifiedLease: putScoped checks the fence inside its transaction.
LeaseSaved(t) ==
  /\ tab[t].pc = "lease"
  /\ cookie = "owner"
  /\ IF IsCurrent(t)
       THEN lease' = TRUE /\ tab' = [tab EXCEPT ![t].pc = "read"]
       ELSE Stop(t) /\ UNCHANGED lease
  /\ UNCHANGED <<dbVars, clearing, cookie, current, rev, signOuts, req, ghosts, serverVars,
                 dismissed, faults>>

\* The lease request fails: without a session (401) or a connection the run
\* ends; any other refusal (lapsed access, a lease of another account) leaves
\* the stored lease to upload with.
LeaseFailed(t) ==
  /\ tab[t].pc = "lease"
  /\ \/ cookie = "none" /\ Stop(t) /\ UNCHANGED faults
     \/ faults < MaxFaults /\ faults' = faults + 1 /\ Stop(t)
     \/ /\ cookie # "none"
        /\ IF IsCurrent(t) THEN tab' = [tab EXCEPT ![t].pc = "read"] ELSE Stop(t)
        /\ UNCHANGED faults
  /\ UNCHANGED <<dbVars, loginVars, req, ghosts, serverVars, dismissed>>

\* S in client order begins with o (listOperations sorts by client_sequence).
IsEarliest(o, S) == o \in S /\ \A p \in S : seq[o] <= seq[p]

\* serverOperations.slice(start, start + BATCH_SIZE)
NextBatch(S) == {o \in S : Cardinality({p \in S : seq[p] < seq[o]}) < BatchSize}

\* Variants: force does not override the backoff; an interrupted upload is not
\* taken up again.
PendingDueOnly(force) == {o \in Ops : status[o] \in Open /\ o \notin resting}
PendingUninterrupted(force) ==
  {o \in Ops : status[o] \in Open \ {"syncing"} /\ (force \/ o \notin resting)}

\* Which stored operations a flush sends.
PendingToFlush(force) == {o \in Ops : status[o] \in Open /\ (force \/ o \notin resting)}

\* A run that has the operations S still to send turns to the next batch.
TurnToBatch(r, S) ==
  [r EXCEPT !.pc = "mark", !.batch = NextBatch(S), !.queue = S \ NextBatch(S),
            !.blocked = {}]

\* flushPendingOperations up to its first batch: the copies that the batches
\* are written from are read here.
FlushRead(t) ==
  LET pending == PendingToFlush(tab[t].force)
      flush == [tab[t] EXCEPT !.late = pending \cap resting]
  IN /\ tab[t].pc = "read"
     /\ IF IsCurrent(t) /\ pending # {} /\ lease
          THEN tab' = [tab EXCEPT ![t] = TurnToBatch(flush, pending)]
          ELSE Stop(t)
     /\ UNCHANGED <<dbVars, loginVars, req, ghosts, serverVars, dismissed, faults>>

\* flushServerBatch writes the whole batch back as syncing, from its copies.
MarkSyncing(t) ==
  LET B == tab[t].batch
  IN /\ tab[t].pc = "mark"
     /\ IF IsCurrent(t)
          THEN /\ status' = [o \in Ops |-> IF o \in B THEN "syncing" ELSE status[o]]
               /\ resting' = (resting \ B) \cup (B \cap tab[t].late)
               /\ tab' = [tab EXCEPT ![t].pc = "send"]
          ELSE Stop(t) /\ UNCHANGED <<status, resting>>
     /\ UNCHANGED <<seq, lastSeq, loginVars, req, ghosts, serverVars, dismissed,
                    faults>>

\* scheduleRetry of every operation in S, written from the copies of a tab.
ScheduleRetry(S) ==
  /\ status' = [o \in Ops |-> IF o \in S THEN "retry" ELSE status[o]]
  /\ resting' = resting \cup S

\* Variant: a failed upload is taken for a delivered one.
ForgetBatch(t) ==
  /\ status' = [o \in Ops |-> IF o \in tab[t].batch THEN "none" ELSE status[o]]
  /\ resting' = resting \ tab[t].batch
  /\ Stop(t)

\* The catch of flushServerBatch: every operation of the batch is kept.
KeepBatch(t) == ScheduleRetry(tab[t].batch) /\ Stop(t)

\* The request leaves, if the fence still stands.
SendBatch(t) ==
  /\ tab[t].pc = "send"
  /\ IF IsCurrent(t)
       THEN /\ tab' = [tab EXCEPT ![t].pc = "wait"]
            /\ req' = [req EXCEPT ![t] = SentReq(tab[t].batch)]
            /\ UNCHANGED <<status, resting>>
       ELSE KeepBatch(t) /\ UNCHANGED req
  /\ UNCHANGED <<seq, lastSeq, loginVars, ghosts, serverVars, dismissed, faults>>

-----------------------------------------------------------------------------
(* The server: OfflineSyncView.post and replay_batch *)

\* Variant: the signature is checked, the account it was issued to is not.
VerifySignatureOnly(account) == account \in Accounts

\* Whether a lease of the owner verifies for the account of a request.
VerifyLease(account) == account = "owner"

\* The view authenticates the cookie the request carries and verifies the
\* lease for that account; the batch then runs as that account.
AdmitBatch(t) ==
  /\ req[t].as = "sent"
  /\ cookie \in Accounts
  /\ VerifyLease(cookie)
  /\ req' = [req EXCEPT ![t].as = cookie]
  /\ UNCHANGED <<dbVars, loginVars, tab, ghosts, serverVars, dismissed, faults>>

\* No session, a lease of another account, or a lease that ended too long
\* ago: the whole batch is refused and the client keeps it.
RefuseBatch(t) ==
  /\ req[t].as = "sent"
  /\ \/ ~VerifyLease(cookie) /\ UNCHANGED faults
     \/ faults < MaxFaults /\ faults' = faults + 1
  /\ req' = [req EXCEPT ![t] = NoReq]
  /\ KeepBatch(t)
  /\ UNCHANGED <<seq, lastSeq, loginVars, ghosts, serverVars, dismissed>>

\* Whether the handler finds the run at the point operation o needs: Restart
\* always applies, part p needs the parts before it.
OutOfOrder(o) == What(o) > progress[KeyOf(o)] + 1

\* Variant: the receipt is written but not consulted.
AcceptReplayAgain(o) ==
  /\ receipts' = receipts \cup {o}
  /\ IF What(o) = Restart \/ What(o) > progress[KeyOf(o)]
       THEN /\ progress' = [progress EXCEPT ![KeyOf(o)] = What(o)]
            /\ log' = [log EXCEPT ![KeyOf(o)] = Append(@, o[2])]
       ELSE UNCHANGED <<progress, log>>

\* Variant: no receipt is consulted by a handler that records an attempt each
\* time it runs, as that of a question answer does.
AcceptReplayAttempt(o) ==
  /\ receipts' = receipts \cup {o}
  /\ progress' = [progress EXCEPT ![KeyOf(o)] = What(o)]
  /\ log' = [log EXCEPT ![KeyOf(o)] = Append(@, o[2])]

\* The effect of one accepted operation, in the transaction that stores its
\* receipt.  A part already completed is superseded.
AcceptReplay(o) ==
  /\ receipts' = receipts \cup {o}
  /\ IF o \notin receipts /\ (What(o) = Restart \/ What(o) > progress[KeyOf(o)])
       THEN /\ progress' = [progress EXCEPT ![KeyOf(o)] = What(o)]
            /\ log' = [log EXCEPT ![KeyOf(o)] = Append(@, o[2])]
       ELSE UNCHANGED <<progress, log>>

\* One operation of a batch, in its own transaction under the user's row
\* lock, answered in the given list.
Replay(o, list) ==
  \/ /\ list = "accepted"
     /\ o \in receipts \/ ~OutOfOrder(o)
     /\ AcceptReplay(o)
     /\ UNCHANGED <<refused, temporary>>
  \/ /\ list = "out_of_order"
     /\ o \notin receipts
     /\ OutOfOrder(o)
     /\ UNCHANGED <<receipts, progress, log, refused, temporary>>
  \/ /\ list = "unavailable"
     /\ o \notin receipts
     /\ temporary < MaxTemporary
     /\ temporary' = temporary + 1
     /\ UNCHANGED <<receipts, progress, log, refused>>
  \/ /\ list = "rejected"
     /\ o \notin receipts
     /\ Cardinality(refused) < MaxRefusals
     /\ refused' = refused \cup {o}
     /\ UNCHANGED <<receipts, progress, log, temporary>>

Answered(r, o, list) ==
  [as |-> r.as, rest |-> r.rest \ {o},
   answer |-> [r.answer EXCEPT ![list] = @ \cup {o}]]

\* The next operation of the request a tab waits for.
ReplayNext(t) ==
  \E o \in req[t].rest, list \in Lists :
    /\ req[t].as \in Accounts
    /\ IsEarliest(o, req[t].rest)
    /\ Replay(o, list)
    /\ foreign' = IF req[t].as = "owner" THEN foreign ELSE foreign \cup {o}
    /\ req' = [req EXCEPT ![t] = Answered(req[t], o, list)]
    /\ UNCHANGED <<dbVars, loginVars, tab, ghosts, dismissed, faults>>

\* The next operation of a request nobody waits for.
ReplayGhost(g) ==
  \E o \in g, list \in Lists :
    /\ IsEarliest(o, g)
    /\ Replay(o, list)
    /\ ghosts' = (ghosts \ {g}) \cup ({g \ {o}} \ {{}})
    /\ UNCHANGED <<dbVars, loginVars, tab, req, foreign, dismissed, faults>>

-----------------------------------------------------------------------------
(* The response *)

\* What becomes of the rest of a request the client stops waiting for: the
\* server goes on with it, or never does.
Abandon(t) ==
  \/ ghosts' = ghosts
  \/ /\ req[t].as = "owner"
     /\ req[t].rest # {}
     /\ Cardinality(ghosts) < MaxGhosts
     /\ ghosts' = ghosts \cup {req[t].rest}

\* The connection is lost or the server answers 5xx.
RequestFailed(t) ==
  /\ tab[t].pc = "wait"
  /\ faults < MaxFaults
  /\ faults' = faults + 1
  /\ Abandon(t)
  /\ req' = [req EXCEPT ![t] = NoReq]
  /\ KeepBatch(t)
  /\ UNCHANGED <<seq, lastSeq, loginVars, serverVars, dismissed>>

\* request() in api/client.js repeats a retryable request by itself.
RequestRepeated(t) ==
  /\ tab[t].pc = "wait"
  /\ faults < MaxFaults
  /\ faults' = faults + 1
  /\ Abandon(t)
  /\ req' = [req EXCEPT ![t] = SentReq(tab[t].batch)]
  /\ UNCHANGED <<dbVars, loginVars, tab, serverVars, dismissed>>

\* The whole response arrives.  A run that is no longer current throws and
\* leaves its operations syncing.
ResponseArrives(t) ==
  /\ tab[t].pc = "wait"
  /\ req[t].as \in Accounts
  /\ req[t].rest = {}
  /\ IF IsCurrent(t)
       THEN tab' = [tab EXCEPT ![t].pc = "apply"] /\ UNCHANGED req
       ELSE Stop(t) /\ req' = [req EXCEPT ![t] = NoReq]
  /\ UNCHANGED <<dbVars, loginVars, ghosts, serverVars, dismissed, faults>>

\* An accepted operation is removed.
ApplyAccepted(t) ==
  \E o \in req[t].answer["accepted"] :
    /\ tab[t].pc = "apply"
    /\ IsEarliest(o, req[t].answer["accepted"])
    /\ status' = [status EXCEPT ![o] = "none"]
    /\ resting' = resting \ {o}
    /\ req' = [req EXCEPT ![t].answer["accepted"] = @ \ {o}]
    /\ UNCHANGED <<seq, lastSeq, loginVars, tab, ghosts, serverVars, dismissed,
                   faults>>

Rejections(t) == UNION {req[t].answer[list] : list \in Lists \ {"accepted"}}

\* Variant: blocked keys are not consulted.
NotYetAlone(t, o) == o \in req[t].answer["unavailable"]

\* Whether a rejection means "not yet": it is temporary, or it is an
\* out_of_order answer behind a temporary one on the same key.
NotYet(t, o) ==
  \/ o \in req[t].answer["unavailable"]
  \/ o \in req[t].answer["out_of_order"] /\ KeyOf(o) \in tab[t].blocked

\* Variants: a refused operation is dropped; it is saved with the status an
\* earlier schema used.
RejectInto(t, refusedStatus) ==
  \E o \in Rejections(t) :
    /\ tab[t].pc = "apply"
    /\ req[t].answer["accepted"] = {}
    /\ IsEarliest(o, Rejections(t))
    /\ IF NotYet(t, o)
         THEN /\ tab' = [tab EXCEPT ![t].blocked = @ \cup {KeyOf(o)}]
              /\ ScheduleRetry({o})
         ELSE /\ status' = [status EXCEPT ![o] = refusedStatus]
              /\ resting' = resting \ {o}
              /\ UNCHANGED tab
    /\ req' = [req EXCEPT ![t].answer = [list \in Lists |-> @[list] \ {o}]]
    /\ UNCHANGED <<seq, lastSeq, loginVars, ghosts, serverVars, dismissed, faults>>
ApplyRejectedDrops(t) == RejectInto(t, "none")
ApplyRejectedConflict(t) == RejectInto(t, "conflict")

\* A rejected operation, in the order of the response, once the accepted ones
\* are done.
ApplyRejected(t) ==
  \E o \in Rejections(t) :
    /\ tab[t].pc = "apply"
    /\ req[t].answer["accepted"] = {}
    /\ IsEarliest(o, Rejections(t))
    /\ IF NotYet(t, o)
         THEN /\ tab' = [tab EXCEPT ![t].blocked = @ \cup {KeyOf(o)}]
              /\ ScheduleRetry({o})
         ELSE /\ status' = [status EXCEPT ![o] = "failed"]
              /\ resting' = resting \ {o}
              /\ UNCHANGED tab
    /\ req' = [req EXCEPT ![t].answer = [list \in Lists |-> @[list] \ {o}]]
    /\ UNCHANGED <<seq, lastSeq, loginVars, ghosts, serverVars, dismissed, faults>>

\* The batch is done: the next one, or the end of the run.
BatchDone(t) ==
  /\ tab[t].pc = "apply"
  /\ req[t].answer["accepted"] = {}
  /\ Rejections(t) = {}
  /\ req' = [req EXCEPT ![t] = NoReq]
  /\ IF tab[t].queue # {}
       THEN tab' = [tab EXCEPT ![t] = TurnToBatch(tab[t], tab[t].queue)]
       ELSE Stop(t)
  /\ UNCHANGED <<dbVars, loginVars, ghosts, serverVars, dismissed, faults>>

\* The tab is closed or reloaded: its run is gone, its request may not be.
TabCloses(t) ==
  /\ tab[t].pc # "idle"
  /\ faults < MaxFaults
  /\ faults' = faults + 1
  /\ Abandon(t)
  /\ req' = [req EXCEPT ![t] = NoReq]
  /\ Stop(t)
  /\ UNCHANGED <<dbVars, loginVars, serverVars, dismissed>>

-----------------------------------------------------------------------------
RunStep(t) ==
  \/ LeaseSaved(t) \/ LeaseFailed(t) \/ FlushRead(t) \/ MarkSyncing(t) \/ SendBatch(t)
  \/ AdmitBatch(t) \/ RefuseBatch(t) \/ ReplayNext(t)
  \/ RequestFailed(t) \/ RequestRepeated(t) \/ ResponseArrives(t)
  \/ ApplyAccepted(t) \/ ApplyRejected(t) \/ BatchDone(t) \/ TabCloses(t)

Next ==
  \/ \E o \in Ops : EnqueueOperation(o) \/ DismissFailedOperation(o) \/ BackoffEnds(o)
  \/ SignOut \/ ForgetOfflineUser \/ DeleteLease \/ RememberOfflineUser
  \/ \E a \in Accounts : SignIn(a)
  \/ \E t \in Tabs, force \in Forces : SyncStart(t, force)
  \/ \E t \in Tabs : RunStep(t)
  \/ \E g \in ghosts : ReplayGhost(g)

Spec == Init /\ [][Next]_vars

\* The steps of a run that no outside event decides.
Work(t) ==
  \/ FlushRead(t) \/ MarkSyncing(t) \/ SendBatch(t) \/ AdmitBatch(t) \/ ReplayNext(t)
  \/ ResponseArrives(t) \/ ApplyAccepted(t) \/ ApplyRejected(t) \/ BatchDone(t)

\* What delivery rests on: runs keep starting (scheduleAutomaticRetry, app
\* open, focus, reconnect), a run that starts goes on, backoffs end, the owner
\* comes back to the browser, and the lease is not refused for ever.
Fairness ==
  /\ \A t \in Tabs : /\ WF_vars(\E force \in Forces : SyncStart(t, force))
                     /\ SF_vars(LeaseSaved(t))
                     /\ WF_vars(LeaseFailed(t))
                     /\ WF_vars(RefuseBatch(t))
                     /\ WF_vars(Work(t))
  /\ \A o \in Ops : WF_vars(BackoffEnds(o))
  /\ WF_vars(cookie # current /\ ForgetOfflineUser)
  /\ WF_vars(DeleteLease) /\ WF_vars(RememberOfflineUser)
  /\ WF_vars(SignIn("owner"))
  /\ WF_vars(cookie = "other" /\ SignOut)

FairSpec == Spec /\ Fairness

-----------------------------------------------------------------------------
(* Properties *)

TabType == [pc : PCs, rev : Nat, force : BOOLEAN, queue : SUBSET Ops,
            batch : SUBSET Ops, late : SUBSET Ops, blocked : SUBSET Keys]
ReqType == [as : {"none", "sent"} \cup Accounts, rest : SUBSET Ops,
            answer : [Lists -> SUBSET Ops]]

\* The type of every variable of the queue, the login, the runs and the server.
TypeOK ==
  /\ seq \in [Ops -> Nat]
  /\ lastSeq \in Nat
  /\ status \in [Ops -> Open \cup {"none", "failed"}]
  /\ resting \subseteq Ops
  /\ lease \in BOOLEAN
  /\ clearing \in BOOLEAN
  /\ cookie \in Accounts \cup {"none"}
  /\ current \in Accounts \cup {"none"}
  /\ rev \in Nat
  /\ signOuts \in Nat
  /\ tab \in [Tabs -> TabType]
  /\ req \in [Tabs -> ReqType]
  /\ ghosts \subseteq SUBSET Ops
  /\ receipts \subseteq Ops
  /\ progress \in [Keys -> Nat]
  /\ log \in [Keys -> Seq(Nat)]
  /\ foreign \subseteq Ops
  /\ refused \subseteq Ops
  /\ dismissed \subseteq Ops
  /\ faults \in Nat
  /\ temporary \in Nat

\* Work the student recorded is on the device, or the server holds its receipt,
\* or the student dismissed its refusal: no crash, lost answer, sign-out or
\* second tab makes it vanish ("removed only once the server acknowledges it").
NoLostWork ==
  \A o \in Ops : seq[o] > 0 =>
    status[o] # "none" \/ o \in receipts \/ o \in dismissed

\* However often an operation is uploaded, by whichever tab or abandoned
\* request, its handler takes effect once (the receipt of replay_batch).
AppliedAtMostOnce ==
  \A k \in Keys : \A i, j \in DOMAIN log[k] : log[k][i] = log[k][j] => i = j

\* No operation of the owner is replayed in the session of another account,
\* although the cookie is read after the last check of the fence.
OnlyOwnersRecord == foreign = {}

\* Once a sign-out has finished, no run that began before it leaves a lease
\* behind (the scoped write of saveVerifiedLease).
LeaseLeavesWithOwner == current # "owner" /\ ~clearing => ~lease

\* An operation fails permanently only for a business-rule refusal, its own or
\* that of the work before it on the same key.
FailedOnlyForBusinessRule ==
  \A o \in Ops : status[o] = "failed" =>
    \E p \in refused : KeyOf(p) = KeyOf(o) /\ p[2] <= o[2]

\* A failure that will be retried holds back later work with the same key: the
\* server applies the work of a key in the order it was recorded.
HoldsBackLaterWork ==
  \A k \in Keys : \A i, j \in DOMAIN log[k] : i < j => log[k][i] < log[k][j]

\* When the server has acknowledged everything recorded on a key, its run
\* stands where the student left the device's.
ServerMatchesDevice ==
  \A o \in Ops :
    /\ seq[o] > 0
    /\ \A p \in Ops : KeyOf(p) = KeyOf(o) /\ seq[p] > 0 => p \in receipts /\ p[2] <= o[2]
    => progress[KeyOf(o)] = What(o)

Saved == {o \in Ops : seq[o] > 0}
Held == {o \in Ops : status[o] # "none"}

Outbox == INSTANCE DurableOutbox
            WITH saved <- Saved, held <- Held, delivered <- receipts,
                 givenUp <- dismissed

\* The queue, with its tabs, requests and logins, is a durable outbox: it lets
\* go of delivered work only and the server takes an operation once.
ImplementsOutbox == Outbox!Spec

\* Recorded work does not wait for ever: the server acknowledges it, refuses it
\* (kept as failed until the student dismisses it), whatever was interrupted
\* on the way ("an interrupted syncing operation is still pending").
WorkIsSettled ==
  \A o \in Ops : seq[o] > 0 ~>
    o \in receipts \/ status[o] = "failed" \/ o \in dismissed

=============================================================================
