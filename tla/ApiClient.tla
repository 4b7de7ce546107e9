------------------------------ MODULE ApiClient ------------------------------
(***************************************************************************)
(* One page's view of the connection (frontend/src/lib/connectionState.js),*)
(* its requests and its CSRF token (frontend/src/api/client.js, with the   *)
(* calls of api/accounts.js).                                              *)
(*                                                                         *)
(* A fetch that is under way when the server cannot be reached, or is      *)
(* begun then, is lost: it fails, at once or when a deadline passes, and   *)
(* may do so after the server is back.  Delays and deadlines are otherwise *)
(* left out, a timer may fire at any time.  failures counts to 2, which is *)
(* all that publish tells apart.  The CSRF cookie cannot be read by the    *)
(* page (CSRF_COOKIE_HTTPONLY in production).  It has the number of its    *)
(* secret, 0 before the first: a sign-in answers with a new secret, and    *)
(* GET /auth/csrf with the one its request came with, or a new one when it *)
(* came with none (CsrfTokenView: ensure_csrf_cookie).  The browser stores *)
(* the cookie of whichever answer arrives last.  Whether the server takes  *)
(* the token of a write is left to the outcome of the write.               *)
(***************************************************************************)
EXTENDS Naturals

CONSTANTS Jobs,       \* requests the page can have under way
          MaxOutages, \* bound: times the server becomes unreachable
          MaxCalls,   \* bound: requests made
          MaxProbes   \* bound: probes under way at once

ASSUME ClientNumbers == {MaxOutages, MaxCalls, MaxProbes} \subseteq Nat

VARIABLES
  up,        \* the server can be reached
  outages,   \* times it has become unreachable
  booted,    \* the session check at the start has been waited for
  connection,    \* snapshot.status
  failing,   \* failures, up to 2
  retrying,  \* retryTimer is set
  probing,   \* the probes under way
  request,       \* the requests
  calls,     \* requests made so far
  token,     \* cachedCsrfToken: the cookie it belongs to, 0 for none
  awaited,   \* pendingCsrfToken: the number of the fetch, 0 for none
  fetches,   \* fetchCsrfToken calls under way
  fetched,   \* such calls so far
  csrfCookie,    \* the CSRF cookie of the browser
  secrets,   \* secrets the server has given this browser
  overtaken  \* history: the cookie was changed under a token since the last clearing

connectionVars == <<booted, connection, failing, retrying>>
cookieVars == <<csrfCookie, secrets, overtaken>>
tokenVars == <<token, awaited, fetches, fetched, cookieVars>>
clientVars == <<up, outages, connectionVars, probing, request, calls, tokenVars>>

\* A read, a write, a write that may be repeated, one that may be queued, and
\* a sign-in (login, verifyEmailCode).
Kinds == {"read", "write", "repeatable", "queueable", "auth"}
Unsafe == Kinds \ {"read"}
Retryable == {"read", "repeatable"}
NoRequest == [pc |-> "none"]
Probes == 1..MaxProbes
NoProbe == [fate |-> "none"]
Fates == {"fine", "lost"}
FateNow == IF up THEN "fine" ELSE "lost"

ClientInit ==
  /\ up = TRUE /\ outages = 0
  /\ booted = FALSE
  /\ connection = "connected" /\ failing = 0 /\ retrying = FALSE
  /\ probing = [p \in Probes |-> NoProbe]
  /\ request = [j \in Jobs |-> NoRequest] /\ calls = 0
  /\ token = 0 /\ awaited = 0 /\ fetches = {} /\ fetched = 0
  /\ csrfCookie \in {0, 1} /\ secrets = csrfCookie /\ overtaken = FALSE

-----------------------------------------------------------------------------
(* The cookie *)

\* A token is kept, or the answer that will be kept is being read.
Holding == token # 0 \/ \E f \in fetches : f.id = awaited /\ f.pc = "body" /\ f.ok

\* An answer of GET /auth/csrf to a request that came with cookie c.
Secret(c) == IF c = 0 THEN secrets + 1 ELSE c

\* Its head brings that secret back, whatever the cookie has become since; an
\* answer of a proxy (sets = FALSE) brings none.
CsrfAnswered(c, sets) ==
  IF sets
  THEN /\ csrfCookie' = Secret(c)
       /\ secrets' = IF c = 0 THEN secrets + 1 ELSE secrets
       /\ overtaken' = (overtaken \/ (Holding /\ csrfCookie' # csrfCookie))
  ELSE UNCHANGED cookieVars

-----------------------------------------------------------------------------
(* connectionState.js *)

\* Variant: a timer is taken to be set although it has fired.
RescheduleOnce == retrying' = (retrying \/ connection = "connected")

ScheduleProbe == retrying' = TRUE

CountFailure == failing' = IF failing = 2 THEN 2 ELSE failing + 1

\* reportConnectionFailure
FailureReported == /\ CountFailure
                   /\ connection' = "reconnecting"
                   /\ ScheduleProbe

\* reportConnectionSuccess
SuccessReported == /\ failing' = 0
                   /\ connection' = "connected"
                   /\ retrying' = FALSE

ProbeSent(p) ==
  /\ retrying
  /\ probing[p] = NoProbe
  /\ retrying' = FALSE
  /\ probing' = [probing EXCEPT ![p] = [fate |-> FateNow, cookie |-> csrfCookie]]
  /\ UNCHANGED <<up, outages, booted, connection, failing, request, calls>> /\ UNCHANGED tokenVars

\* Any answer will do.
ProbeSucceeds(p, sets) ==
  /\ up
  /\ probing[p].fate = "fine"
  /\ probing' = [probing EXCEPT ![p] = NoProbe]
  /\ CsrfAnswered(probing[p].cookie, sets)
  /\ SuccessReported
  /\ UNCHANGED <<up, outages, booted, request, calls, token, awaited, fetches, fetched>>

ProbeFailed(p) ==
  /\ probing[p].fate = "lost"
  /\ probing' = [probing EXCEPT ![p] = NoProbe]
  /\ CountFailure
  /\ connection' = IF failing' >= 2 THEN "offline" ELSE "reconnecting"
  /\ ScheduleProbe
  /\ UNCHANGED <<up, outages, booted, request, calls>> /\ UNCHANGED tokenVars

\* App.jsx: the session check takes longer than OFFLINE_BOOT_GRACE_MS.
BootIsSlow ==
  /\ ~booted
  /\ booted' = TRUE
  /\ FailureReported
  /\ UNCHANGED <<up, outages, probing, request, calls>> /\ UNCHANGED tokenVars

-----------------------------------------------------------------------------
(* The network *)

ServerLost ==
  /\ up
  /\ outages < MaxOutages
  /\ up' = FALSE
  /\ outages' = outages + 1
  /\ probing' = [p \in Probes |-> IF probing[p] = NoProbe THEN NoProbe ELSE [probing[p] EXCEPT !.fate = "lost"]]
  /\ request' = [j \in Jobs |-> IF request[j].pc \in {"fetch", "body"} THEN [request[j] EXCEPT !.fate = "lost"]
                            ELSE request[j]]
  /\ fetches' = {[f EXCEPT !.fate = "lost"] : f \in fetches}
  /\ UNCHANGED <<connectionVars, calls, token, awaited, fetched, cookieVars>>

ServerBack ==
  /\ ~up
  /\ up' = TRUE
  /\ UNCHANGED <<outages, connectionVars, probing, request, calls, tokenVars>>

-----------------------------------------------------------------------------
(* request *)

\* Fetch number a of request j.
Attempt(j, kind, a) ==
  request' = [request EXCEPT ![j] = [pc |-> "fetch", kind |-> kind, attempt |-> a, fate |-> FateNow]]

Done(j) == request' = [request EXCEPT ![j] = NoRequest]

\* While the server is known to be unreachable, a write is refused at once.
Refused(kind) == connection = "offline" /\ kind \in Unsafe \ {"queueable"}

\* A request that needs a token waits for the one being fetched, or fetches one.
Call(j, kind) ==
  /\ request[j] = NoRequest
  /\ calls < MaxCalls
  /\ ~Refused(kind)
  /\ calls' = calls + 1
  /\ \/ /\ kind = "read" \/ token # 0
        /\ Attempt(j, kind, 0)
        /\ UNCHANGED <<awaited, fetches, fetched>>
     \/ /\ kind \in Unsafe /\ token = 0 /\ awaited # 0
        /\ request' = [request EXCEPT ![j] = [pc |-> "token", kind |-> kind, fetch |-> awaited]]
        /\ UNCHANGED <<awaited, fetches, fetched>>
     \/ /\ kind \in Unsafe /\ token = 0 /\ awaited = 0
        /\ fetched' = fetched + 1
        /\ awaited' = fetched'
        /\ fetches' = fetches \cup {[pc |-> "fetch", id |-> fetched', cookie |-> csrfCookie, fate |-> FateNow, ok |-> FALSE]}
        /\ request' = [request EXCEPT ![j] = [pc |-> "token", kind |-> kind, fetch |-> fetched']]
  /\ UNCHANGED <<up, outages, connectionVars, probing, token, cookieVars>>

\* Variant: a token is kept whatever has happened since it was asked for.
KeptAlways(f) == TRUE

\* ensureCsrfToken keeps the token of the fetch it still waits for.
Kept(f) == awaited = f.id

\* The head of the answer to a fetch is there: with a token to come (ok), which
\* only the view gives, or not.
TokenHead(f, ok, sets) ==
  /\ f.pc = "fetch" /\ f.fate = "fine" /\ up
  /\ ok => sets
  /\ CsrfAnswered(f.cookie, sets)
  /\ fetches' = (fetches \ {f}) \cup {[f EXCEPT !.pc = "body", !.ok = ok, !.cookie = Secret(f.cookie)]}
  /\ SuccessReported
  /\ UNCHANGED <<up, outages, booted, probing, request, calls, token, awaited, fetched>>

\* The requests that wait for a fetch.
WaitFor(f, j) == request[j].pc = "token" /\ request[j].fetch = f.id

FetchEnds(f) ==
  /\ fetches' = fetches \ {f}
  /\ awaited' = IF awaited = f.id THEN 0 ELSE awaited

\* The requests that waited go on with the token, kept or not.
TokenArrives(f) ==
  /\ f.pc = "body" /\ f.fate = "fine" /\ f.ok
  /\ FetchEnds(f)
  /\ token' = IF Kept(f) THEN f.cookie ELSE token
  /\ request' = [j \in Jobs |-> IF WaitFor(f, j)
                            THEN [pc |-> "fetch", kind |-> request[j].kind, attempt |-> 0,
                                  fate |-> FateNow]
                            ELSE request[j]]
  /\ UNCHANGED <<up, outages, connectionVars, probing, calls, fetched, cookieVars>>

\* Without a token they end: the fetch failed, or its answer has none or was
\* not read to its end, which says nothing against the connection.
TokenFails(f) ==
  /\ \/ f.pc = "fetch" /\ f.fate = "lost" /\ FailureReported /\ UNCHANGED booted
     \/ f.pc = "body" /\ (f.fate = "lost" \/ ~f.ok) /\ UNCHANGED connectionVars
  /\ FetchEnds(f)
  /\ request' = [j \in Jobs |-> IF WaitFor(f, j) THEN NoRequest ELSE request[j]]
  /\ UNCHANGED <<up, outages, probing, calls, token, fetched, cookieVars>>

\* clearCsrfToken
Cleared == token' = 0 /\ awaited' = 0 /\ overtaken' = FALSE

\* The head of the answer is there, with a new cookie when a sign-in has
\* succeeded.  That, a sign-out and an answer for an ended session ("ended":
\* 401, or 403 not_authenticated) clear the token once the body has been read.
HeadArrives(j, outcome) ==
  /\ request[j].pc = "fetch" /\ request[j].fate = "fine" /\ up
  /\ SuccessReported
  /\ secrets' = IF outcome = "ok" /\ request[j].kind = "auth" THEN secrets + 1 ELSE secrets
  /\ csrfCookie' = IF secrets' # secrets THEN secrets' ELSE csrfCookie
  /\ request' = [request EXCEPT ![j] = [pc |-> "body", moved |-> secrets' # secrets, fate |-> "fine",
                                clears |-> secrets' # secrets \/ outcome = "ended"]]
  /\ UNCHANGED <<up, outages, booted, probing, calls, token, awaited, fetches, fetched, overtaken>>

BodyRead(j) ==
  /\ request[j].pc = "body" /\ request[j].fate = "fine"
  /\ IF request[j].clears THEN Cleared ELSE UNCHANGED <<token, awaited, overtaken>>
  /\ Done(j)
  /\ UNCHANGED <<up, outages, connectionVars, probing, calls, fetches, fetched, csrfCookie, secrets>>

\* The body is not read to its end.  A call that succeeded fails here and the
\* token stays; for an ended session the status 401 says enough, 403 does not.
BodyLost(j) ==
  /\ request[j].pc = "body" /\ request[j].fate = "lost"
  /\ \/ request[j].clears /\ ~request[j].moved /\ Cleared
     \/ overtaken' = (overtaken \/ (Holding /\ request[j].moved)) /\ UNCHANGED <<token, awaited>>
  /\ Done(j)
  /\ UNCHANGED <<up, outages, connectionVars, probing, calls, fetches, fetched, csrfCookie, secrets>>

\* The fetch fails: again after a pause, or not when the request may not be
\* repeated, was repeated twice, or its deadline has passed.
FetchFails(j, again) ==
  /\ request[j].pc = "fetch" /\ request[j].fate = "lost"
  /\ FailureReported
  /\ again => request[j].kind \in Retryable /\ request[j].attempt < 2
  /\ IF again THEN request' = [request EXCEPT ![j].pc = "pause"] ELSE Done(j)
  /\ UNCHANGED <<up, outages, booted, probing, calls>> /\ UNCHANGED tokenVars

Repeated(j) ==
  /\ request[j].pc = "pause"
  /\ Attempt(j, request[j].kind, request[j].attempt + 1)
  /\ UNCHANGED <<up, outages, connectionVars, probing, calls, tokenVars>>

\* The caller gives the request up.
Cancelled(j) ==
  /\ request[j].pc = "fetch"
  /\ Done(j)
  /\ UNCHANGED <<up, outages, connectionVars, probing, calls, tokenVars>>

ClientNext ==
  \/ ServerLost \/ ServerBack \/ BootIsSlow
  \/ \E p \in Probes : \/ ProbeSent(p) \/ ProbeFailed(p)
                      \/ \E sets \in BOOLEAN : ProbeSucceeds(p, sets)
  \/ \E f \in fetches : \/ \E ok, sets \in BOOLEAN : TokenHead(f, ok, sets)
                       \/ TokenArrives(f) \/ TokenFails(f)
  \/ \E j \in Jobs :
       \/ \E kind \in Kinds : Call(j, kind)
       \/ \E outcome \in {"ok", "error", "ended"} : HeadArrives(j, outcome)
       \/ \E again \in BOOLEAN : FetchFails(j, again)
       \/ BodyRead(j) \/ BodyLost(j) \/ Repeated(j) \/ Cancelled(j)

\* The server comes back in the end, the browser fires the timer and settles
\* each probe: it has a deadline of its own, UNREACHABLE_READ_TIMEOUT_MS.
ClientFairness ==
  /\ WF_clientVars(ServerBack)
  /\ WF_clientVars(\E p \in Probes : ProbeSent(p))
  /\ \A p \in Probes : WF_clientVars(ProbeFailed(p) \/ \E sets \in BOOLEAN : ProbeSucceeds(p, sets))

ClientSpec == ClientInit /\ [][ClientNext]_clientVars /\ ClientFairness

-----------------------------------------------------------------------------
(* Properties *)

\* "A probe that can hang would leave the state reconnecting forever": while
\* the page does not say it is connected, a probe is under way or its timer
\* is set, whatever requests failed or succeeded while an earlier one ran.
ProbeIsComing ==
  connection # "connected" => retrying \/ \E p \in Probes : probing[p] # NoProbe

\* "Django rotates CSRF state on login. Do not reuse a pre-login token"
\* (accounts.js): once the answer to a sign-in has been read, the token the
\* page keeps is the cookie's.  A fetch whose answer began before the sign-in's
\* and is read to its end after it is not kept, whatever fetch is awaited then.
\* Not claimed (overtaken) until the token is cleared again: an older answer of
\* GET /auth/csrf, to a fetch or a probe, or a sign-in whose body is lost may
\* change the cookie under a token the page holds, and the code keeps it.
TokenIsCurrent ==
  token # 0 /\ ~overtaken /\ (\A j \in Jobs : request[j].pc = "body" => ~request[j].moved) => token = csrfCookie

\* Once outages are over, the page says so: late failures of requests and
\* probes that were begun in an outage do not leave it at "reconnecting" or
\* "offline", where writes are refused.
ReconnectsInTheEnd == []<>(connection = "connected")
=============================================================================
