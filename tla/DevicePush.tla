----------------------------- MODULE DevicePush -----------------------------
(***************************************************************************)
(* Device notifications: the browser's tabs and service worker             *)
(* (frontend/src/pwa/devicePush.js, pushStorage.js, pushMessage.js,        *)
(* service-worker.js, with the calls of App.jsx and offline/profile.js)    *)
(* and the server's subscriptions and deliveries                           *)
(* (backend/apps/notifications/push.py, push_views.py).                    *)
(*                                                                         *)
(* One browser, used by several accounts one after the other.  Its record  *)
(* in IndexedDB names the account that turned notifications on and the     *)
(* binding the server gave it; the server puts the binding of the          *)
(* subscription into each message.  The tabs, the service worker, the      *)
(* server's requests and its dispatchers each take their own steps, with a *)
(* step ending at every await.  Titles, texts and expiry times are left    *)
(* out; a claim on a delivery may run out at any time.                     *)
(***************************************************************************)
EXTENDS Naturals, FiniteSets

CONSTANTS Accounts,     \* accounts that use the browser
          PushTabs,     \* tabs of the app
          Dispatchers,  \* runs of dispatch_push
          MaxTries,     \* deliveries are given up after this many attempts (5)
          MaxSessions,  \* bound: sign-ins
          MaxBindings,  \* bound: subscriptions registered at the server
          MaxEndpoints, \* bound: subscriptions made by the browser
          MaxNotices,   \* bound: notices the server creates
          MaxEnables,   \* bound: times the Settings switch is turned on
          MaxFaults     \* bound: sessions revoked, tabs closed, dispatchers killed

None == "none"

ASSUME NoneIsNoAccount == None \notin Accounts

VARIABLES
  session,    \* account of the session cookie, with the session's number
  sessions,   \* sign-ins so far
  rows,       \* PushSubscription rows
  bindings,   \* bindings given so far
  endpoint,   \* the browser's subscription, 0 for none
  endpoints,  \* subscriptions made so far
  bound,      \* the "binding" record of lock-in-push-v1
  current,    \* CURRENT_USER_KEY
  page,       \* account shown in each tab
  switch,     \* enableDevicePush or disableDevicePush of each tab
  leaving,    \* forgetPushAccount or forgetOfflineUser of each tab
  renewal,    \* pushsubscriptionchange handler of the worker
  deliveries, \* PushDelivery rows
  dispatch,   \* the delivery each dispatcher has claimed
  notices,    \* notices created so far
  transit,    \* messages the push service has accepted
  shows,      \* push handlers of the worker that have read the record
  visible,    \* notices on the screen
  requests,   \* times the switch was turned on so far
  faults,     \* sessions revoked, tabs closed, dispatchers killed so far
  off         \* history: accounts that have turned notifications off since

pushVars == <<session, sessions, rows, bindings, endpoint, endpoints, bound, current, page, switch,
              leaving, renewal, deliveries, dispatch, notices, transit, shows, visible,
              requests, faults, off>>
serverVars == <<session, sessions, rows, bindings, deliveries, dispatch, notices>>
workerVars == <<renewal, transit, shows, visible>>
browserVars == <<endpoint, endpoints, bound, current, page, switch, leaving, requests, off>>

Fault == faults < MaxFaults /\ faults' = faults + 1

NoSession == [user |-> None, key |-> 0]
Unbound == [user |-> None, binding |-> 0]
Idle == [pc |-> "none"]

PushInit ==
  /\ session = NoSession /\ sessions = 0
  /\ rows = {} /\ bindings = 0
  /\ endpoint = 0 /\ endpoints = 0
  /\ bound = Unbound
  /\ current = None
  /\ page = [t \in PushTabs |-> None]
  /\ switch = [t \in PushTabs |-> Idle]
  /\ leaving = [t \in PushTabs |-> Idle]
  /\ renewal = Idle
  /\ deliveries = {}
  /\ dispatch = [d \in Dispatchers |-> Idle]
  /\ notices = 0
  /\ transit = {} /\ shows = {} /\ visible = {}
  /\ requests = 0 /\ faults = 0
  /\ off = {}

-----------------------------------------------------------------------------
(* Sessions *)

\* A session ends: its subscriptions go, and their deliveries with them.
EndSession(key) ==
  /\ session' = NoSession
  /\ rows' = {r \in rows : r.key # key}
  /\ deliveries' = {d \in deliveries : \E r \in rows' : r.pk = d.row}
  /\ UNCHANGED <<sessions, bindings, dispatch, notices>>

\* What a tab does about account u: forgetPushAccount, as a part of
\* forgetOfflineUser when full; next is signed in afterwards.
Forget(u, full, next) == [pc |-> "read", user |-> u, full |-> full, next |-> next, binding |-> 0]

\* applyAuthedUser and rememberOfflineUser: the account seen last is forgotten.
SignIn(t, a) ==
  /\ session = NoSession
  /\ page[t] = None /\ leaving[t] = Idle /\ switch[t] = Idle
  /\ sessions < MaxSessions
  /\ sessions' = sessions + 1
  /\ session' = [user |-> a, key |-> sessions + 1]
  /\ page' = [page EXCEPT ![t] = a]
  /\ IF current \in {None, a}
     THEN current' = a /\ UNCHANGED leaving
     ELSE leaving' = [leaving EXCEPT ![t] = Forget(current, TRUE, a)] /\ UNCHANGED current
  /\ UNCHANGED <<rows, bindings, endpoint, endpoints, bound, switch, deliveries, dispatch,
                 notices, requests, off>> /\ UNCHANGED workerVars

\* handleLogout
SignOut(t) ==
  /\ page[t] # None /\ session.user = page[t] /\ leaving[t] = Idle
  /\ EndSession(session.key)
  /\ leaving' = [leaving EXCEPT ![t] = Forget(page[t], TRUE, None)]
  /\ page' = [page EXCEPT ![t] = None]
  /\ UNCHANGED <<endpoint, endpoints, bound, current, switch, requests, off>> /\ UNCHANGED workerVars

\* The account's sessions are ended from another device.
SessionRevoked ==
  /\ session # NoSession
  /\ Fault
  /\ EndSession(session.key)
  /\ UNCHANGED browserVars /\ UNCHANGED workerVars

\* onUnauthorized: a request of a tab is answered for an ended session.
Unauthorized(t) ==
  /\ page[t] # None /\ session = NoSession /\ leaving[t] = Idle
  /\ leaving' = [leaving EXCEPT ![t] = Forget(page[t], FALSE, None)]
  /\ page' = [page EXCEPT ![t] = None]
  /\ UNCHANGED <<endpoint, endpoints, bound, current, switch, requests, off>>
  /\ UNCHANGED serverVars /\ UNCHANGED workerVars

\* refreshActiveAccount: the tab shows the session's account from now on.
AccountRefreshed(t) ==
  /\ session # NoSession /\ page[t] # session.user /\ leaving[t] = Idle
  /\ page' = [page EXCEPT ![t] = session.user]
  /\ UNCHANGED <<endpoint, endpoints, bound, current, switch, leaving, requests, off>>
  /\ UNCHANGED serverVars /\ UNCHANGED workerVars

-----------------------------------------------------------------------------
(* forgetPushAccount *)

\* What has been forgotten stays off.
TurnedOff(u) == off' = off \cup {u}

ForgetDone(t) ==
  /\ leaving' = [leaving EXCEPT ![t] = Idle]
  /\ current' = IF leaving[t].next # None THEN leaving[t].next
                ELSE IF leaving[t].full /\ current = leaving[t].user THEN None ELSE current

\* The record is read; another account's is left alone.
ForgetReads(t) ==
  /\ leaving[t].pc = "read"
  /\ IF bound.user = leaving[t].user
     THEN /\ leaving' = [leaving EXCEPT ![t].pc = "clear", ![t].binding = bound.binding]
          /\ UNCHANGED <<current, off>>
     ELSE ForgetDone(t) /\ TurnedOff(leaving[t].user)
  /\ UNCHANGED <<endpoint, endpoints, bound, page, switch, requests>>
  /\ UNCHANGED serverVars /\ UNCHANGED workerVars

\* Variant: the owner is not compared again.
OwnerWhoever(u) == TRUE

\* clearPushBinding compares the owner again, in the transaction that deletes.
OwnerStill(u) == bound.user = u

ForgetClears(t) ==
  /\ leaving[t].pc = "clear"
  /\ bound' = IF OwnerStill(leaving[t].user) THEN Unbound ELSE bound
  /\ leaving' = [leaving EXCEPT ![t].pc = "close"]
  /\ TurnedOff(leaving[t].user)
  /\ UNCHANGED <<endpoint, endpoints, current, page, switch, requests>>
  /\ UNCHANGED serverVars /\ UNCHANGED workerVars

ForgetCloses(t) ==
  /\ leaving[t].pc = "close"
  /\ visible' = {v \in visible : v.binding # leaving[t].binding}
  /\ ForgetDone(t)
  /\ UNCHANGED <<endpoint, endpoints, bound, page, switch, requests, off, renewal, transit, shows>>
  /\ UNCHANGED serverVars

-----------------------------------------------------------------------------
(* enableDevicePush *)

Enable(t) ==
  /\ page[t] # None /\ switch[t] = Idle
  /\ requests < MaxEnables
  /\ requests' = requests + 1
  /\ switch' = [switch EXCEPT ![t] = [pc |-> "subscribe", user |-> page[t]]]
  /\ off' = off \ {page[t]}
  /\ UNCHANGED <<endpoint, endpoints, bound, current, page, leaving>>
  /\ UNCHANGED serverVars /\ UNCHANGED workerVars

Shows(t) == page[t] = switch[t].user

\* Variant: the write is not held back when the account has left the page.
StillShownAny(t) == TRUE

\* assertCurrent.  Leaving the Settings page, which stops it too, is left out.
StillShown(t) == Shows(t)

\* The browser's subscription, or a new one, after assertCurrent.
Subscribe(t) ==
  /\ switch[t].pc = "subscribe"
  /\ \/ /\ ~StillShown(t)
        /\ switch' = [switch EXCEPT ![t] = Idle]
        /\ UNCHANGED <<endpoint, endpoints>>
     \/ /\ StillShown(t)
        /\ endpoint # 0 \/ endpoints < MaxEndpoints
        /\ endpoint' = IF endpoint # 0 THEN endpoint ELSE endpoints + 1
        /\ endpoints' = IF endpoint # 0 THEN endpoints ELSE endpoints + 1
        /\ switch' = [switch EXCEPT ![t] = [pc |-> "post", user |-> @.user, endpoint |-> endpoint']]
  /\ UNCHANGED <<bound, current, page, leaving, requests, off>>
  /\ UNCHANGED serverVars /\ UNCHANGED workerVars

\* Variant: the account the page shows is not compared with the session's.
AnyAccount(u) == session # NoSession

\* PushSubscriptionView.post for the session of the cookie, asked for by user
\* u: the row of the endpoint, made or taken over, with a fresh binding.
AccountMatches(u) == session # NoSession /\ session.user = u

FreshBinding(e) == bindings + 1

Registered(e) ==
  LET old == {r \in rows : r.endpoint = e}
      pk == IF old = {} THEN bindings + 1 ELSE (CHOOSE r \in old : TRUE).pk
  IN (rows \ old) \cup {[pk |-> pk, endpoint |-> e, binding |-> FreshBinding(e), user |-> session.user,
                         key |-> session.key, active |-> TRUE]}

PostHandled(t) ==
  /\ switch[t].pc = "post"
  /\ \/ /\ AccountMatches(switch[t].user)
        /\ bindings < MaxBindings
        /\ bindings' = bindings + 1
        /\ rows' = Registered(switch[t].endpoint)
        /\ switch' = [switch EXCEPT ![t] = [pc |-> "write", user |-> @.user,
                                            binding |-> FreshBinding(switch[t].endpoint)]]
     \/ /\ ~AccountMatches(switch[t].user)
        /\ switch' = [switch EXCEPT ![t] = Idle]
        /\ UNCHANGED <<rows, bindings>>
  /\ UNCHANGED <<session, sessions, deliveries, dispatch, notices, endpoint, endpoints, bound,
                 current, page, leaving, requests, off>> /\ UNCHANGED workerVars

\* writePushBinding, with assertCurrent inside its transaction.  An account the
\* tab shows when this ends has turned notifications on.
EnableWrites(t) ==
  /\ switch[t].pc = "write"
  /\ bound' = IF StillShown(t) THEN [user |-> switch[t].user, binding |-> switch[t].binding]
              ELSE bound
  /\ off' = IF Shows(t) THEN off \ {switch[t].user} ELSE off
  /\ switch' = [switch EXCEPT ![t] = Idle]
  /\ UNCHANGED <<endpoint, endpoints, current, page, leaving, requests>>
  /\ UNCHANGED serverVars /\ UNCHANGED workerVars

-----------------------------------------------------------------------------
(* disableDevicePush: forgetPushAccount, then this *)

Disable(t) ==
  /\ page[t] # None /\ switch[t] = Idle /\ leaving[t] = Idle
  /\ bound.user = page[t]
  /\ leaving' = [leaving EXCEPT ![t] = Forget(page[t], FALSE, None)]
  /\ switch' = [switch EXCEPT ![t] = [pc |-> "delete", user |-> page[t]]]
  /\ UNCHANGED <<endpoint, endpoints, bound, current, page, requests, off>>
  /\ UNCHANGED serverVars /\ UNCHANGED workerVars

\* PushSubscriptionView.delete; a refusal or a lost request changes nothing.
DisableDeletes(t) ==
  /\ switch[t].pc = "delete" /\ leaving[t] = Idle
  /\ \/ /\ AccountMatches(switch[t].user)
        /\ rows' = {r \in rows : ~(r.endpoint = endpoint /\ r.user = session.user)}
        /\ deliveries' = {d \in deliveries : \E r \in rows' : r.pk = d.row}
     \/ UNCHANGED <<rows, deliveries>>
  /\ switch' = [switch EXCEPT ![t] = IF endpoint = 0 THEN Idle
                                     ELSE [pc |-> "look", user |-> @.user, endpoint |-> endpoint]]
  /\ UNCHANGED <<session, sessions, bindings, dispatch, notices, endpoint, endpoints, bound,
                 current, page, leaving, requests, off>> /\ UNCHANGED workerVars

DisableLooks(t) ==
  /\ switch[t].pc = "look"
  /\ switch' = [switch EXCEPT ![t] = IF bound # Unbound THEN Idle ELSE [@ EXCEPT !.pc = "unsubscribe"]]
  /\ UNCHANGED <<endpoint, endpoints, bound, current, page, leaving, requests, off>>
  /\ UNCHANGED serverVars /\ UNCHANGED workerVars

DisableUnsubscribes(t) ==
  /\ switch[t].pc = "unsubscribe"
  /\ endpoint' = IF endpoint = switch[t].endpoint THEN 0 ELSE endpoint
  /\ switch' = [switch EXCEPT ![t] = Idle]
  /\ UNCHANGED <<endpoints, bound, current, page, leaving, requests, off>>
  /\ UNCHANGED serverVars /\ UNCHANGED workerVars

\* A tab is closed: what it was doing ends where it is.
PushTabCloses(t) ==
  /\ page[t] # None \/ switch[t] # Idle \/ leaving[t] # Idle
  /\ Fault
  /\ page' = [page EXCEPT ![t] = None]
  /\ switch' = [switch EXCEPT ![t] = Idle]
  /\ leaving' = [leaving EXCEPT ![t] = Idle]
  /\ UNCHANGED <<endpoint, endpoints, bound, current, requests, off>>
  /\ UNCHANGED serverVars /\ UNCHANGED workerVars

-----------------------------------------------------------------------------
(* The service worker *)

\* pushsubscriptionchange: the browser has replaced its subscription.
SubscriptionChange ==
  /\ endpoint # 0 /\ endpoints < MaxEndpoints
  /\ renewal = Idle
  /\ endpoint' = endpoints + 1
  /\ endpoints' = endpoints + 1
  /\ renewal' = IF bound = Unbound THEN Idle
                ELSE [pc |-> "post", user |-> bound.user, endpoint |-> endpoints + 1]
  /\ UNCHANGED <<bound, current, page, switch, leaving, requests, off, transit, shows, visible>>
  /\ UNCHANGED serverVars

RenewalPosts ==
  /\ renewal.pc = "post"
  /\ \/ /\ AccountMatches(renewal.user)
        /\ bindings < MaxBindings
        /\ bindings' = bindings + 1
        /\ rows' = Registered(renewal.endpoint)
        /\ renewal' = [pc |-> "write", user |-> renewal.user, binding |-> FreshBinding(renewal.endpoint)]
     \/ /\ ~AccountMatches(renewal.user)
        /\ renewal' = Idle
        /\ UNCHANGED <<rows, bindings>>
  /\ UNCHANGED <<session, sessions, deliveries, dispatch, notices, transit, shows, visible>>
  /\ UNCHANGED browserVars

RenewalWrites ==
  /\ renewal.pc = "write"
  /\ bound' = IF OwnerStill(renewal.user) THEN [user |-> renewal.user, binding |-> renewal.binding]
              ELSE bound
  /\ renewal' = Idle
  /\ UNCHANGED <<endpoint, endpoints, current, page, switch, leaving, requests, off, transit, shows,
                 visible>> /\ UNCHANGED serverVars

\* The push event: the record is read, and the message is dropped unless it
\* carries the record's binding (notificationFromPush).
PushArrives(m) ==
  /\ transit' = transit \ {m}
  /\ shows' = IF m.endpoint = endpoint /\ bound # Unbound /\ m.binding = bound.binding
              THEN shows \cup {[notice |-> m.notice, to |-> m.to, binding |-> m.binding,
                                reader |-> bound.user]}
              ELSE shows
  /\ UNCHANGED <<renewal, visible>> /\ UNCHANGED browserVars /\ UNCHANGED serverVars

\* showNotification; the tag replaces a notice of the same number.
ShowNotice(s) ==
  /\ shows' = shows \ {s}
  /\ visible' = {v \in visible : v.notice # s.notice} \cup {s}
  /\ UNCHANGED <<renewal, transit>> /\ UNCHANGED browserVars /\ UNCHANGED serverVars

-----------------------------------------------------------------------------
(* enqueue_push and dispatch_push *)

Enqueue(a) ==
  /\ notices < MaxNotices
  /\ \E r \in rows : r.user = a /\ r.active
  /\ notices' = notices + 1
  /\ deliveries' = deliveries \cup
       {[notice |-> notices + 1, to |-> a, row |-> r.pk, status |-> "pending", tries |-> 0, claim |-> 0] :
          r \in {q \in rows : q.user = a /\ q.active}}
  /\ UNCHANGED <<session, sessions, rows, bindings, dispatch>>
  /\ UNCHANGED browserVars /\ UNCHANGED workerVars

Becomes(d, e) == deliveries' = (deliveries \ {d}) \cup {e}

\* A pending delivery, or one whose claim has run out, is claimed.  Each claim
\* counts as an attempt, so that the number of attempts stands for lock_token.
Claim(x, d) ==
  /\ dispatch[x] = Idle
  /\ d.status \in {"pending", "sending"}
  /\ \/ /\ d.tries >= MaxTries
        /\ Becomes(d, [d EXCEPT !.status = "failed"])
        /\ UNCHANGED dispatch
     \/ /\ d.tries < MaxTries
        /\ LET e == [d EXCEPT !.status = "sending", !.tries = @ + 1, !.claim = d.tries + 1]
           IN Becomes(d, e) /\ dispatch' = [dispatch EXCEPT ![x] = [pc |-> "send", job |-> e]]
  /\ UNCHANGED <<session, sessions, rows, bindings, notices>>
  /\ UNCHANGED browserVars /\ UNCHANGED workerVars

\* The delivery and its subscription are read again, then the message is sent.
\* "unheard": the push service has the message, its answer is lost.
SendPush(x, outcome) ==
  /\ dispatch[x].pc = "send"
  /\ LET j == dispatch[x].job
         row == {r \in rows : r.pk = j.row}
         there == \E d \in deliveries : d.notice = j.notice /\ d.row = j.row
         live == \E r \in row : r.active /\ r.user = j.to
         sent == {[notice |-> j.notice, to |-> j.to, endpoint |-> r.endpoint, binding |-> r.binding] :
                    r \in row}
         says(status) == dispatch' = [dispatch EXCEPT ![x] = [pc |-> "record", job |-> j, status |-> status]]
     IN \/ /\ ~there /\ outcome = "cancelled"
           /\ dispatch' = [dispatch EXCEPT ![x] = Idle]
           /\ UNCHANGED <<rows, transit>>
        \/ /\ there /\ outcome = "cancelled"
           /\ ~live
           /\ says("cancelled")
           /\ UNCHANGED <<rows, transit>>
        \/ /\ there /\ live /\ outcome = "accepted"
           /\ says("accepted")
           /\ transit' = transit \cup sent
           /\ UNCHANGED rows
        \/ /\ there /\ live /\ outcome = "gone"
           /\ \E r \in row : r.endpoint # endpoint
           /\ says("failed")
           /\ rows' = {IF r \in row THEN [r EXCEPT !.active = FALSE] ELSE r : r \in rows}
           /\ UNCHANGED transit
        \/ /\ there /\ live /\ outcome = "refused"
           /\ says("failed")
           /\ UNCHANGED <<rows, transit>>
        \/ /\ there /\ live /\ outcome \in {"unreachable", "unheard"}
           /\ says(IF j.tries >= MaxTries THEN "failed" ELSE "pending")
           /\ transit' = IF outcome = "unheard" THEN transit \cup sent ELSE transit
           /\ UNCHANGED rows
  /\ UNCHANGED <<session, sessions, bindings, deliveries, notices, renewal, shows, visible>>
  /\ UNCHANGED browserVars

\* Variant: a claim that has run out is not noticed.
HoldsAnyClaim(d, j) == TRUE

\* The outcome is recorded by whoever still holds the claim.
HoldsClaim(d, j) == d.status = "sending" /\ d.claim = j.claim

RecordOutcome(x) ==
  /\ dispatch[x].pc = "record"
  /\ LET j == dispatch[x].job
     IN deliveries' =
          {IF d.notice = j.notice /\ d.row = j.row /\ HoldsClaim(d, j)
           THEN [d EXCEPT !.status = dispatch[x].status, !.claim = 0] ELSE d : d \in deliveries}
  /\ dispatch' = [dispatch EXCEPT ![x] = Idle]
  /\ UNCHANGED <<session, sessions, rows, bindings, notices>>
  /\ UNCHANGED browserVars /\ UNCHANGED workerVars

\* The dispatcher is killed; its claim runs out.
DispatcherDies(x) ==
  /\ dispatch[x] # Idle
  /\ Fault
  /\ dispatch' = [dispatch EXCEPT ![x] = Idle]
  /\ UNCHANGED <<session, sessions, rows, bindings, deliveries, notices>>
  /\ UNCHANGED browserVars /\ UNCHANGED workerVars

\* What happens of itself, without a fault.
PushSteps ==
  \/ SubscriptionChange \/ RenewalPosts \/ RenewalWrites
  \/ \E t \in PushTabs :
       \/ \E a \in Accounts : SignIn(t, a)
       \/ SignOut(t) \/ Unauthorized(t) \/ AccountRefreshed(t)
       \/ ForgetReads(t) \/ ForgetClears(t) \/ ForgetCloses(t)
       \/ Enable(t) \/ Subscribe(t) \/ PostHandled(t) \/ EnableWrites(t)
       \/ Disable(t) \/ DisableDeletes(t) \/ DisableLooks(t) \/ DisableUnsubscribes(t)
  \/ \E a \in Accounts : Enqueue(a)
  \/ \E m \in transit : PushArrives(m)
  \/ \E s \in shows : ShowNotice(s)
  \/ \E x \in Dispatchers :
       \/ \E d \in deliveries : Claim(x, d)
       \/ \E outcome \in {"accepted", "cancelled", "gone", "refused", "unreachable", "unheard"} :
            SendPush(x, outcome)
       \/ RecordOutcome(x)

PushNext ==
  \/ PushSteps /\ UNCHANGED faults
  \/ SessionRevoked
  \/ \E t \in PushTabs : PushTabCloses(t)
  \/ \E x \in Dispatchers : DispatcherDies(x)

PushSpec == PushInit /\ [][PushNext]_pushVars

-----------------------------------------------------------------------------
(* Properties *)

\* A notice is shown only under a record of the account it is for: a message
\* that was queued or on its way when the account of the browser changed is
\* not shown to the next one, although the subscription is the same
\* (pushMessage.js: "No navigation or private notice from a
\* different/expired account binding").
NoticeIsForItsReader == \A v \in shows \cup visible : v.to = v.reader

\* Notifications an account has turned off, or that went off when it left the
\* browser, stay off until it turns them on again: neither a renewal of the
\* subscription that was under way, nor a turning on that was under way in the
\* tab it has left or in another that does not show it any more, brings its
\* record back (service-worker.js: "Never opt a signed-out installation back
\* in").  A turning on that ends in a tab that still shows the account counts
\* as one, even if the account has left the browser in another tab meanwhile.
StaysOff == bound.user \notin off

\* A delivery that was recorded as accepted is not sent again: a dispatcher
\* whose claim has run out does not put it back.
AcceptedIsFinal ==
  [][\A d \in deliveries : d.status = "accepted" =>
       \A e \in deliveries' : e.notice = d.notice /\ e.row = d.row => e.status = "accepted"]_pushVars
=============================================================================
