---------------------------- MODULE ClientProofs ----------------------------
(***************************************************************************)
(* What holds of one page's connection state and CSRF token (ApiClient),   *)
(* for any number of requests, outages and probes, and of the application  *)
(* update (AppUpdate), for any number of windows, builds, checks and       *)
(* failures.                                                               *)
(***************************************************************************)
EXTENDS ApiClient, AppUpdate, TLAPS
-----------------------------------------------------------------------------
(* The connection state and the token *)

Waiting == [pc : {"token"}, kind : Kinds, fetch : Nat]
Fetching == [pc : {"fetch", "pause"}, kind : Kinds, attempt : Nat, fate : Fates]
Reading == [pc : {"body"}, moved : BOOLEAN, fate : Fates, clears : BOOLEAN]
ProbeStates == {NoProbe} \cup [fate : Fates, cookie : Nat]
FetchStates == [pc : {"fetch", "body"}, id : Nat \ {0}, cookie : Nat, fate : Fates, ok : BOOLEAN]
Requests == {NoRequest} \cup Waiting \cup Fetching \cup Reading

ClientTypeOK ==
  /\ up \in BOOLEAN /\ retrying \in BOOLEAN
  /\ connection \in {"connected", "reconnecting", "offline"}
  /\ failing \in 0..2
  /\ probing \in [Probes -> ProbeStates]
  /\ request \in [Jobs -> Requests]
  /\ token \in Nat /\ awaited \in Nat /\ fetched \in Nat /\ csrfCookie \in Nat
  /\ secrets \in Nat /\ overtaken \in BOOLEAN
  /\ fetches \subseteq FetchStates

\* No answer that moved the cookie on is still to be read, or was lost, and no
\* older one has moved it under a token.
Settled == ~overtaken /\ \A j \in Jobs : request[j].pc = "body" => ~request[j].moved

\* An answer that moved the cookie on clears the token when it is read.
MovedClears == \A j \in Jobs : request[j].pc = "body" /\ request[j].moved => request[j].clears

\* What the page has belongs to the cookie of now, and so does what it is
\* reading; a fetch whose answer has not begun may bring a cookie of its own.
TokenFollows ==
  Settled => /\ token # 0 => token = csrfCookie
             /\ \A f \in fetches : f.id = awaited /\ f.pc = "body" /\ f.ok => f.cookie = csrfCookie

\* The number of a fetch is never given again.
FetchesCounted == \A f \in fetches : f.id <= fetched

TokenInv == FetchesCounted /\ MovedClears /\ TokenFollows

-----------------------------------------------------------------------------

\* Every step keeps the types: the requests of a page go through the shapes
\* request() gives them.
LEMMA ClientTypeStep == ClientTypeOK /\ [ClientNext]_clientVars => ClientTypeOK'
<1> SUFFICES ASSUME ClientTypeOK, [ClientNext]_clientVars PROVE ClientTypeOK'
  OBVIOUS
<1> USE DEF ClientTypeOK
<1>0. FateNow \in Fates
  BY DEF FateNow, Fates
<1>s. SuccessReported => retrying' \in BOOLEAN
  BY Zenon DEF SuccessReported
<1>c. ASSUME NEW c \in Nat, NEW sets \in BOOLEAN, CsrfAnswered(c, sets)
      PROVE /\ csrfCookie' \in Nat /\ secrets' \in Nat /\ Secret(c) \in Nat /\ overtaken' \in BOOLEAN
  <2>1. secrets' \in Nat /\ csrfCookie' \in Nat /\ Secret(c) \in Nat
    BY <1>c DEF CsrfAnswered, cookieVars, Secret
  <2>2. overtaken' \in BOOLEAN
    BY <1>c, Zenon DEF CsrfAnswered, cookieVars
  <2> QED
    BY <2>1, <2>2
<1>k. ASSUME UNCHANGED cookieVars PROVE csrfCookie' \in Nat /\ secrets' \in Nat /\ overtaken' \in BOOLEAN
  BY <1>k DEF cookieVars
<1>1. CASE ServerLost
  <2>1. probing' \in [Probes -> ProbeStates]
    BY <1>1 DEF ServerLost, ProbeStates, NoProbe, Fates
  <2>2. request' \in [Jobs -> Requests]
    <3> SUFFICES ASSUME NEW j \in Jobs, request[j].pc \in {"fetch", "body"}
                 PROVE [request[j] EXCEPT !.fate = "lost"] \in Requests
      BY <1>1 DEF ServerLost
    <3>1. request[j] \in Fetching \cup Reading
      BY DEF Requests, Waiting, NoRequest
    <3> QED
      BY <3>1 DEF Requests, Fetching, Reading, Fates
  <2>3. fetches' \subseteq FetchStates
    BY <1>1 DEF ServerLost, FetchStates, Fates
  <2> QED
    BY <1>1, <1>k, <2>1, <2>2, <2>3 DEF ServerLost, connectionVars
<1>2. CASE ServerBack
  BY <1>2 DEF ServerBack, connectionVars, tokenVars, cookieVars
<1>3. CASE BootIsSlow
  BY <1>3 DEF BootIsSlow, FailureReported, CountFailure, ScheduleProbe, tokenVars, cookieVars
<1>4. ASSUME NEW p \in Probes, ProbeSent(p) PROVE ClientTypeOK'
  <2>1. [fate |-> FateNow, cookie |-> csrfCookie] \in ProbeStates
    BY <1>0 DEF ProbeStates
  <2>2. probing' \in [Probes -> ProbeStates]
    BY <1>4, <2>1 DEF ProbeSent
  <2> QED
    BY <1>4, <2>2 DEF ProbeSent, tokenVars, cookieVars
<1>5. ASSUME NEW p \in Probes, NEW sets \in BOOLEAN, ProbeSucceeds(p, sets) PROVE ClientTypeOK'
  <2>1. probing' \in [Probes -> ProbeStates]
    BY <1>5 DEF ProbeSucceeds, ProbeStates
  <2>2. probing[p].cookie \in Nat
    BY <1>5 DEF ProbeSucceeds, ProbeStates, NoProbe
  <2>3. csrfCookie' \in Nat /\ secrets' \in Nat /\ overtaken' \in BOOLEAN
    BY <1>c, <1>5, <2>2 DEF ProbeSucceeds
  <2> QED
    BY <1>s, <1>5, <2>1, <2>3 DEF ProbeSucceeds, SuccessReported
<1>6. ASSUME NEW p \in Probes, ProbeFailed(p) PROVE ClientTypeOK'
  <2>1. probing' \in [Probes -> ProbeStates]
    BY <1>6 DEF ProbeFailed, ProbeStates
  <2> QED
    BY <1>6, <2>1 DEF ProbeFailed, CountFailure, ScheduleProbe, tokenVars, cookieVars
<1>7. ASSUME NEW f \in fetches, TokenArrives(f) PROVE ClientTypeOK'
  <2>1. request' \in [Jobs -> Requests]
    <3> SUFFICES ASSUME NEW j \in Jobs, request[j].pc = "token"
                 PROVE [pc |-> "fetch", kind |-> request[j].kind, attempt |-> 0, fate |-> FateNow] \in Fetching
      BY <1>7 DEF TokenArrives, WaitFor, Requests
    <3>1. request[j] \in Waiting
      BY DEF Requests, Fetching, Reading, NoRequest
    <3> QED
      BY <3>1, <1>0 DEF Waiting, Fetching
  <2>2. token' \in Nat /\ awaited' \in Nat /\ fetches' \subseteq FetchStates
    BY <1>7 DEF TokenArrives, FetchEnds, FetchStates
  <2> QED
    BY <1>k, <1>7, <2>1, <2>2 DEF TokenArrives, connectionVars
<1>8. ASSUME NEW f \in fetches, TokenFails(f) PROVE ClientTypeOK'
  <2>1. request' \in [Jobs -> Requests]
    BY <1>8 DEF TokenFails, Requests
  <2>2. awaited' \in Nat /\ fetches' \subseteq FetchStates
    BY <1>8 DEF TokenFails, FetchEnds
  <2>3. CASE UNCHANGED connectionVars
    BY <1>k, <1>8, <2>1, <2>2, <2>3 DEF TokenFails, connectionVars
  <2>4. CASE FailureReported
    BY <1>k, <1>8, <2>1, <2>2, <2>4 DEF TokenFails, FailureReported, CountFailure, ScheduleProbe
  <2> QED
    BY <1>8, <2>3, <2>4 DEF TokenFails
<1>h. ASSUME NEW f \in fetches, NEW ok \in BOOLEAN, NEW sets \in BOOLEAN, TokenHead(f, ok, sets)
      PROVE ClientTypeOK'
  <2>1. f.cookie \in Nat
    BY DEF FetchStates
  <2>2. csrfCookie' \in Nat /\ secrets' \in Nat /\ Secret(f.cookie) \in Nat /\ overtaken' \in BOOLEAN
    BY <1>c, <1>h, <2>1 DEF TokenHead
  <2>3. [f EXCEPT !.pc = "body", !.ok = ok, !.cookie = Secret(f.cookie)] \in FetchStates
    BY <2>2 DEF FetchStates
  <2>4. fetches' \subseteq FetchStates
    BY <1>h, <2>3 DEF TokenHead
  <2> QED
    BY <1>s, <1>h, <2>2, <2>4 DEF TokenHead, SuccessReported
<1>9. ASSUME NEW j \in Jobs, NEW kind \in Kinds, Call(j, kind) PROVE ClientTypeOK'
  <2>1. request' \in [Jobs -> Requests]
    BY <1>9, <1>0 DEF Call, Attempt, Requests, Waiting, Fetching
  <2>2. /\ fetches' \subseteq FetchStates
        /\ awaited' \in Nat /\ fetched' \in Nat
    <3>1. [pc |-> "fetch", id |-> fetched + 1, cookie |-> csrfCookie, fate |-> FateNow, ok |-> FALSE] \in FetchStates
      BY <1>0 DEF FetchStates
    <3>2. awaited' \in Nat /\ fetched' \in Nat
      BY <1>9 DEF Call
    <3> QED
      BY <1>9, <3>1, <3>2 DEF Call
  <2> QED
    BY <1>k, <1>9, <2>1, <2>2 DEF Call, connectionVars
<1>10. ASSUME NEW j \in Jobs, NEW outcome \in {"ok", "error", "ended"}, HeadArrives(j, outcome)
       PROVE ClientTypeOK'
  <2>1. [pc |-> "body", moved |-> secrets' # secrets, fate |-> "fine",
         clears |-> secrets' # secrets \/ outcome = "ended"] \in Reading
    BY DEF Reading, Fates
  <2>2. request' \in [Jobs -> Requests]
    BY <1>10, <2>1 DEF HeadArrives, Requests
  <2>3. csrfCookie' \in Nat /\ secrets' \in Nat
    BY <1>10 DEF HeadArrives
  <2> QED
    BY <1>s, <1>10, <2>2, <2>3 DEF HeadArrives, SuccessReported
<1>11. ASSUME NEW j \in Jobs, NEW again \in BOOLEAN, FetchFails(j, again) PROVE ClientTypeOK'
  <2>1. request[j] \in Fetching
    BY <1>11 DEF FetchFails, Requests, Waiting, Reading, NoRequest
  <2>2. [request[j] EXCEPT !.pc = "pause"] \in Requests
    BY <2>1 DEF Requests, Fetching
  <2>3. request' \in [Jobs -> Requests]
    BY <1>11, <2>2 DEF FetchFails, Done, Requests
  <2> QED
    BY <1>11, <2>3 DEF FetchFails, FailureReported, CountFailure, ScheduleProbe, tokenVars, cookieVars
<1>12. ASSUME NEW j \in Jobs, BodyRead(j) PROVE ClientTypeOK'
  <2>1. overtaken' \in BOOLEAN
    BY <1>12, Zenon DEF BodyRead, Cleared
  <2> QED
    BY <1>12, <2>1 DEF BodyRead, Cleared, Done, Requests, connectionVars
<1>13. ASSUME NEW j \in Jobs, BodyLost(j) PROVE ClientTypeOK'
  <2>1. overtaken' \in BOOLEAN
    BY <1>13, Zenon DEF BodyLost, Cleared
  <2> QED
    BY <1>13, <2>1 DEF BodyLost, Cleared, Done, Requests, connectionVars
<1>14. ASSUME NEW j \in Jobs, Repeated(j) PROVE ClientTypeOK'
  <2>1. request[j] \in Fetching
    BY <1>14 DEF Repeated, Requests, Waiting, Reading, NoRequest
  <2>2. request' \in [Jobs -> Requests]
    BY <1>14, <1>0, <2>1 DEF Repeated, Attempt, Requests, Fetching
  <2> QED
    BY <1>14, <2>2 DEF Repeated, connectionVars, tokenVars, cookieVars
<1>15. ASSUME NEW j \in Jobs, Cancelled(j) PROVE ClientTypeOK'
  BY <1>15 DEF Cancelled, Done, Requests, connectionVars, tokenVars, cookieVars
<1>16. CASE UNCHANGED clientVars
  BY <1>16 DEF clientVars, connectionVars, tokenVars, cookieVars
<1> QED
  BY <1>1, <1>2, <1>3, <1>4, <1>5, <1>6, <1>7, <1>8, <1>h, <1>9, <1>10, <1>11, <1>12, <1>13, <1>14,
     <1>15, <1>16 DEF ClientNext

\* The types hold from the start on.
THEOREM ClientTyped == ClientSpec => []ClientTypeOK
<1>1. ASSUME ClientInit PROVE ClientTypeOK
  <2>1. probing \in [Probes -> ProbeStates] /\ request \in [Jobs -> Requests]
    BY <1>1 DEF ClientInit, Requests, ProbeStates
  <2>2. up \in BOOLEAN /\ retrying \in BOOLEAN
    BY <1>1, Zenon DEF ClientInit
  <2>3. overtaken \in BOOLEAN
    BY <1>1, Zenon DEF ClientInit
  <2> QED
    BY <1>1, <2>1, <2>2, <2>3 DEF ClientInit, ClientTypeOK
<1> QED
  BY <1>1, ClientTypeStep, PTL DEF ClientSpec

-----------------------------------------------------------------------------

\* Each step that takes the connection away from "connected", and each that
\* ends a probe, sets the timer or leaves one: whatever the bound on probes
\* and however requests fail while one is under way.
THEOREM ProbeAlwaysComing == ClientSpec => []ProbeIsComing
<1>1. ClientInit => ProbeIsComing
  BY DEF ClientInit, ProbeIsComing
<1>2. ProbeIsComing /\ ClientTypeOK /\ [ClientNext]_clientVars => ProbeIsComing'
  <2> SUFFICES ASSUME ProbeIsComing, ClientTypeOK, [ClientNext]_clientVars PROVE ProbeIsComing'
    OBVIOUS
  <2>0. FateNow # "none"
    BY DEF FateNow
  <2> USE DEF ProbeIsComing
  <2>1. CASE ServerLost
    <3>1. \A p \in Probes : probing[p] # NoProbe => probing'[p] # NoProbe
      BY <2>1 DEF ServerLost, ClientTypeOK, ProbeStates, NoProbe
    <3> QED
      BY <2>1, <3>1 DEF ServerLost, connectionVars
  <2>2. CASE ServerBack
    BY <2>2 DEF ServerBack, connectionVars
  <2>3. CASE BootIsSlow
    BY <2>3 DEF BootIsSlow, FailureReported, ScheduleProbe
  <2>4. ASSUME NEW p \in Probes, ProbeSent(p) PROVE ProbeIsComing'
    <3>1. probing'[p].fate = FateNow
      BY <2>4 DEF ProbeSent, ClientTypeOK
    <3> QED
      BY <2>0, <3>1 DEF NoProbe
  <2>5. ASSUME NEW p \in Probes, NEW sets \in BOOLEAN, ProbeSucceeds(p, sets) PROVE ProbeIsComing'
    BY <2>5 DEF ProbeSucceeds, SuccessReported
  <2>6. ASSUME NEW p \in Probes, ProbeFailed(p) PROVE ProbeIsComing'
    BY <2>6 DEF ProbeFailed, ScheduleProbe
  <2>7. ASSUME NEW f \in fetches, TokenArrives(f) \/ TokenFails(f) PROVE ProbeIsComing'
    BY <2>7 DEF TokenArrives, TokenFails, FailureReported, ScheduleProbe, connectionVars
  <2>h. ASSUME NEW f \in fetches, NEW ok \in BOOLEAN, NEW sets \in BOOLEAN, TokenHead(f, ok, sets)
        PROVE ProbeIsComing'
    BY <2>h DEF TokenHead, SuccessReported
  <2>8. ASSUME NEW j \in Jobs, NEW kind \in Kinds, Call(j, kind) PROVE ProbeIsComing'
    BY <2>8 DEF Call, connectionVars
  <2>9. ASSUME NEW j \in Jobs, NEW outcome \in {"ok", "error", "ended"}, HeadArrives(j, outcome)
        PROVE ProbeIsComing'
    BY <2>9 DEF HeadArrives, SuccessReported
  <2>10. ASSUME NEW j \in Jobs, NEW again \in BOOLEAN, FetchFails(j, again) PROVE ProbeIsComing'
    BY <2>10 DEF FetchFails, FailureReported, ScheduleProbe
  <2>11. ASSUME NEW j \in Jobs, BodyRead(j) \/ BodyLost(j) \/ Repeated(j) \/ Cancelled(j)
         PROVE ProbeIsComing'
    BY <2>11 DEF BodyRead, BodyLost, Repeated, Cancelled, connectionVars
  <2>12. CASE UNCHANGED clientVars
    BY <2>12 DEF clientVars, connectionVars
  <2> QED
    BY <2>1, <2>2, <2>3, <2>4, <2>5, <2>6, <2>7, <2>h, <2>8, <2>9, <2>10, <2>11, <2>12 DEF ClientNext
<1> QED
  BY <1>1, <1>2, ClientTyped, PTL DEF ClientSpec

-----------------------------------------------------------------------------

\* A step that leaves token, cookie and history alone, begins no body that is
\* kept and takes none of an answer away keeps the invariant.
LEMMA TokenUntouched ==
  ASSUME ClientTypeOK, TokenInv,
         UNCHANGED <<token, awaited, fetched, cookieVars>>,
         \A f \in fetches' : \E g \in fetches : f.pc = g.pc /\ f.id = g.id /\ f.cookie = g.cookie /\ f.ok = g.ok,
         \A j \in Jobs : /\ request'[j].pc = "body" => /\ request[j].pc = "body"
                                                       /\ request'[j].moved = request[j].moved
                                                       /\ request'[j].clears = request[j].clears
                         /\ request[j].pc = "body" /\ request[j].moved => request'[j].pc = "body"
  PROVE  TokenInv'
<1>1. Settled' => Settled
  BY DEF Settled, cookieVars
<1>2. MovedClears'
  BY DEF TokenInv, MovedClears
<1>3. TokenFollows'
  BY <1>1 DEF TokenInv, TokenFollows, cookieVars
<1>4. FetchesCounted'
  BY DEF TokenInv, FetchesCounted
<1> QED
  BY <1>2, <1>3, <1>4 DEF TokenInv

\* An answer of GET /auth/csrf, for a probe or a fetch: either the page holds
\* nothing, or the cookie stays, or the history records it.
LEMMA CsrfKeepsToken ==
  ASSUME ClientTypeOK, TokenInv, NEW c \in Nat, NEW sets \in BOOLEAN,
         CsrfAnswered(c, sets),
         UNCHANGED <<token, awaited, fetched, request>>,
         \A f \in fetches' : \/ f \in fetches
                             \/ f.id <= fetched /\ (f.ok => f.cookie = csrfCookie')
  PROVE  TokenInv'
<1>1. MovedClears'
  BY DEF TokenInv, MovedClears
<1>2. Settled' => Settled /\ (~Holding \/ csrfCookie' = csrfCookie)
  BY DEF Settled, CsrfAnswered, cookieVars
<1>3. TokenFollows'
  <2> SUFFICES ASSUME Settled' PROVE /\ token' # 0 => token' = csrfCookie'
                                     /\ \A f \in fetches' : f.id = awaited' /\ f.pc = "body" /\ f.ok =>
                                          f.cookie = csrfCookie'
    BY DEF TokenFollows
  <2>1. CASE ~Holding
    BY <2>1 DEF Holding
  <2>2. CASE csrfCookie' = csrfCookie
    BY <1>2, <2>2 DEF TokenInv, TokenFollows
  <2> QED
    BY <1>2, <2>1, <2>2
<1>4. FetchesCounted'
  BY DEF TokenInv, FetchesCounted
<1> QED
  BY <1>1, <1>3, <1>4 DEF TokenInv

\* No step breaks what ties a token, kept or about to be, to the cookie.
LEMMA TokenStep == ClientTypeOK /\ TokenInv /\ [ClientNext]_clientVars => TokenInv'
<1> SUFFICES ASSUME ClientTypeOK, TokenInv, [ClientNext]_clientVars PROVE TokenInv'
  OBVIOUS
<1>1. CASE ServerLost
  <2>1. \A f \in fetches' : \E g \in fetches : f.pc = g.pc /\ f.id = g.id /\ f.cookie = g.cookie /\ f.ok = g.ok
    BY <1>1 DEF ServerLost, ClientTypeOK, FetchStates
  <2>2. ASSUME NEW j \in Jobs
        PROVE  /\ request'[j].pc = request[j].pc
               /\ request[j].pc = "body" => /\ request'[j].moved = request[j].moved
                                            /\ request'[j].clears = request[j].clears
    <3>1. CASE request[j].pc \in {"fetch", "body"}
      <4>1. request[j] \in Fetching \cup Reading
        BY <3>1 DEF ClientTypeOK, Requests, Waiting, NoRequest
      <4>2. request'[j] = [request[j] EXCEPT !.fate = "lost"]
        BY <1>1, <3>1 DEF ServerLost
      <4> QED
        BY <4>1, <4>2 DEF Fetching, Reading
    <3>2. CASE request[j].pc \notin {"fetch", "body"}
      BY <1>1, <3>2 DEF ServerLost
    <3> QED
      BY <3>1, <3>2
  <2> QED
    BY <1>1, <2>1, <2>2, TokenUntouched DEF ServerLost
<1>2. ASSUME ServerBack \/ BootIsSlow \/ \E p \in Probes : ProbeSent(p) \/ ProbeFailed(p) PROVE TokenInv'
  <2>1. UNCHANGED <<tokenVars, request>>
    BY <1>2 DEF ServerBack, BootIsSlow, ProbeSent, ProbeFailed
  <2> QED
    BY <2>1, TokenUntouched DEF tokenVars
<1>p. ASSUME NEW p \in Probes, NEW sets \in BOOLEAN, ProbeSucceeds(p, sets) PROVE TokenInv'
  <2>1. probing[p].cookie \in Nat
    BY <1>p DEF ProbeSucceeds, ClientTypeOK, ProbeStates, NoProbe
  <2> QED
    BY <1>p, <2>1, CsrfKeepsToken DEF ProbeSucceeds
<1>h. ASSUME NEW f \in fetches, NEW ok \in BOOLEAN, NEW sets \in BOOLEAN, TokenHead(f, ok, sets) PROVE TokenInv'
  <2> DEFINE g == [f EXCEPT !.pc = "body", !.ok = ok, !.cookie = Secret(f.cookie)]
  <2>1. f \in FetchStates /\ f.cookie \in Nat
    BY DEF ClientTypeOK, FetchStates
  <2>2. g.ok = ok /\ g.cookie = Secret(f.cookie) /\ g.id <= fetched
    BY <2>1 DEF FetchStates, TokenInv, FetchesCounted
  <2>3. g.ok => g.cookie = csrfCookie'
    BY <1>h, <2>2 DEF TokenHead, CsrfAnswered
  <2>4. fetches' = (fetches \ {f}) \cup {g}
    BY <1>h DEF TokenHead
  <2> HIDE DEF g
  <2>5. \A e \in fetches' : e \in fetches \/ (e.id <= fetched /\ (e.ok => e.cookie = csrfCookie'))
    BY <2>2, <2>3, <2>4
  <2> QED
    BY <1>h, <2>1, <2>5, CsrfKeepsToken DEF TokenHead
<1>3. ASSUME NEW f \in fetches, TokenArrives(f) \/ TokenFails(f) PROVE TokenInv'
  <2>1. ASSUME NEW j \in Jobs
        PROVE /\ request[j].pc = "body" => request'[j] = request[j]
              /\ request'[j].pc = "body" => request'[j] = request[j]
    BY <1>3 DEF TokenArrives, TokenFails, WaitFor, NoRequest, ClientTypeOK
  <2>2. Settled' => Settled
    BY <1>3, <2>1 DEF Settled, TokenArrives, TokenFails, cookieVars
  <2>3. awaited' = (IF awaited = f.id THEN 0 ELSE awaited) /\ fetches' = fetches \ {f}
        /\ UNCHANGED cookieVars
    BY <1>3 DEF TokenArrives, TokenFails, FetchEnds
  <2>4. MovedClears'
    BY <2>1 DEF TokenInv, MovedClears
  <2>5. Settled' => (token' # 0 => token' = csrfCookie')
    BY <1>3, <2>2, <2>3 DEF TokenArrives, TokenFails, Kept, TokenInv, TokenFollows, cookieVars
  <2>6. Settled' => \A g \in fetches' : g.id = awaited' /\ g.pc = "body" /\ g.ok => g.cookie = csrfCookie'
    BY <2>2, <2>3 DEF TokenInv, TokenFollows, ClientTypeOK, FetchStates, cookieVars
  <2>7. FetchesCounted'
    BY <1>3, <2>3 DEF TokenArrives, TokenFails, TokenInv, FetchesCounted
  <2> QED
    BY <2>4, <2>5, <2>6, <2>7 DEF TokenInv, TokenFollows
<1>4. ASSUME NEW j \in Jobs, NEW kind \in Kinds, Call(j, kind) PROVE TokenInv'
  <2>1. request' = [request EXCEPT ![j] = request'[j]] /\ request'[j].pc # "body" /\ request[j].pc # "body"
    BY <1>4 DEF Call, Attempt, NoRequest, ClientTypeOK
  <2>2. Settled' => Settled
    BY <1>4, <2>1 DEF Settled, Call, ClientTypeOK, cookieVars
  <2>3. MovedClears'
    BY <2>1 DEF TokenInv, MovedClears, ClientTypeOK
  <2>4. UNCHANGED <<token, cookieVars>>
    BY <1>4 DEF Call
  <2>5. CASE UNCHANGED <<awaited, fetches, fetched>>
    BY <2>2, <2>3, <2>4, <2>5 DEF TokenInv, FetchesCounted, TokenFollows, cookieVars
  <2>6. CASE /\ token = 0 /\ awaited = 0 /\ fetched' = fetched + 1 /\ awaited' = fetched'
             /\ fetches' = fetches \cup {[pc |-> "fetch", id |-> fetched', cookie |-> csrfCookie,
                                          fate |-> FateNow, ok |-> FALSE]}
    <3>1. \A f \in fetches : f.id <= fetched
      BY DEF TokenInv, FetchesCounted
    <3>2. \A f \in fetches' : f.pc = "body" => f.id # awaited'
      BY <2>6, <3>1 DEF ClientTypeOK, FetchStates
    <3>3. FetchesCounted'
      BY <2>6, <3>1 DEF FetchesCounted, ClientTypeOK, FetchStates
    <3> QED
      BY <2>3, <2>4, <2>6, <3>2, <3>3 DEF TokenInv, TokenFollows, cookieVars
  <2> QED
    BY <1>4, <2>5, <2>6 DEF Call
<1>5. ASSUME NEW j \in Jobs, NEW outcome \in {"ok", "error", "ended"}, HeadArrives(j, outcome)
      PROVE TokenInv'
  <2>1. /\ request' = [request EXCEPT ![j] = request'[j]]
        /\ request[j].pc = "fetch" /\ request'[j].pc = "body"
        /\ request'[j].moved = (secrets' # secrets)
        /\ request'[j].clears = (secrets' # secrets \/ outcome = "ended")
    BY <1>5 DEF HeadArrives, ClientTypeOK
  <2>2. Settled' => Settled /\ csrfCookie' = csrfCookie
    BY <1>5, <2>1 DEF Settled, HeadArrives, ClientTypeOK
  <2>3. MovedClears'
    BY <2>1 DEF TokenInv, MovedClears, ClientTypeOK
  <2>4. TokenFollows'
    BY <1>5, <2>2 DEF HeadArrives, TokenInv, TokenFollows
  <2>5. FetchesCounted'
    BY <1>5 DEF HeadArrives, TokenInv, FetchesCounted
  <2> QED
    BY <2>3, <2>4, <2>5 DEF TokenInv
<1>6. ASSUME NEW j \in Jobs, BodyRead(j) \/ BodyLost(j) PROVE TokenInv'
  <2>1. request' = [request EXCEPT ![j] = NoRequest] /\ request'[j].pc # "body" /\ request[j].pc = "body"
    BY <1>6 DEF BodyRead, BodyLost, Done, NoRequest, ClientTypeOK
  <2>2. MovedClears'
    BY <2>1 DEF TokenInv, MovedClears, ClientTypeOK
  <2>3. UNCHANGED <<fetches, fetched, csrfCookie>>
    BY <1>6 DEF BodyRead, BodyLost
  <2>6. FetchesCounted'
    BY <2>3 DEF TokenInv, FetchesCounted
  <2>4. CASE Cleared
    <3>1. \A f \in fetches' : f.id # awaited'
      BY <2>3, <2>4 DEF Cleared, ClientTypeOK, FetchStates
    <3> QED
      BY <2>2, <2>4, <2>6, <3>1 DEF Cleared, TokenInv, TokenFollows
  <2>5. CASE ~Cleared
    <3>1. UNCHANGED <<token, awaited>>
      BY <1>6, <2>5 DEF BodyRead, BodyLost
    <3>2. CASE ~Holding
      BY <2>2, <2>3, <2>6, <3>1, <3>2 DEF Holding, TokenInv, TokenFollows
    <3>3. CASE Holding
      <4>1. request[j].moved => overtaken'
        BY <1>6, <2>5, <2>1, <3>3 DEF BodyRead, BodyLost, TokenInv, MovedClears
      <4>2. overtaken => overtaken'
        BY <1>6, <2>5 DEF BodyRead, BodyLost
      <4>3. \A k \in Jobs \ {j} : request'[k] = request[k]
        BY <2>1 DEF ClientTypeOK
      <4>4. Settled' => Settled
        BY <4>1, <4>2, <4>3 DEF Settled
      <4> QED
        BY <2>2, <2>3, <2>6, <3>1, <4>4 DEF TokenInv, TokenFollows
    <3> QED
      BY <3>2, <3>3
  <2> QED
    BY <2>4, <2>5
<1>7. ASSUME NEW j \in Jobs, NEW again \in BOOLEAN,
             FetchFails(j, again) \/ Repeated(j) \/ Cancelled(j)
      PROVE TokenInv'
  <2>1. request[j] \in Fetching
    BY <1>7 DEF ClientTypeOK, FetchFails, Repeated, Cancelled, Requests, Waiting, Reading, NoRequest
  <2>2. request' = [request EXCEPT ![j] = request'[j]] /\ request'[j].pc # "body" /\ request[j].pc # "body"
    BY <1>7, <2>1 DEF FetchFails, Repeated, Cancelled, Attempt, Done, NoRequest, ClientTypeOK, Fetching
  <2>3. \A k \in Jobs \ {j} : request'[k] = request[k]
    BY <2>2 DEF ClientTypeOK
  <2>4. UNCHANGED tokenVars
    BY <1>7 DEF FetchFails, Repeated, Cancelled
  <2> QED
    BY <2>2, <2>3, <2>4, TokenUntouched DEF tokenVars
<1>8. CASE UNCHANGED clientVars
  BY <1>8, TokenUntouched DEF clientVars, tokenVars
<1> QED
  BY <1>1, <1>2, <1>p, <1>h, <1>3, <1>4, <1>5, <1>6, <1>7, <1>8 DEF ClientNext

\* A token the page keeps once the answers to its sign-ins have been read is
\* that of the cookie it has, for any number of requests, fetches and probes:
\* no answer that a sign-in overtook is kept.  Not where an older answer of
\* GET /auth/csrf, or a sign-in whose body was lost, has changed the cookie
\* under the token.
THEOREM TokenAlwaysCurrent == ClientSpec => []TokenIsCurrent
<1>1. ClientInit => TokenInv
  BY DEF ClientInit, TokenInv, FetchesCounted, MovedClears, TokenFollows, NoRequest
<1>2. TokenInv => TokenIsCurrent
  BY DEF TokenInv, TokenFollows, Settled, TokenIsCurrent
<1> QED
  BY <1>1, <1>2, TokenStep, ClientTyped, PTL DEF ClientSpec

-----------------------------------------------------------------------------
(* The update *)

UpdateStatuses == {"idle", "checking", "upToDate", "updateAvailable", "updating", "reloadRequired",
                   "offline", "error"}
WindowStates ==
  [open : BOOLEAN, build : Nat, controlled : BOOLEAN, attached : BOOLEAN, had : BOOLEAN,
   changed : BOOLEAN, status : UpdateStatuses, flight : {"none", "update", "install"},
   manual : BOOLEAN, prev : UpdateStatuses, queued : BOOLEAN, target : Nat, missed : BOOLEAN,
   shaken : BOOLEAN]

UpdateTypeOK ==
  /\ deployed \in Nat \ {0} /\ active \in Nat /\ waiting \in Nat /\ installing \in Nat
  /\ win \in [Windows -> WindowStates]
  /\ inbox \in [Windows -> SUBSET {"installed", "redundant", "controller"}]
  /\ online \in BOOLEAN

-----------------------------------------------------------------------------
(* What the manager's functions do to a window *)

\* What no function of the manager but a reload changes.
SamePage(r, s) ==
  /\ s \in WindowStates
  /\ s.open = r.open /\ s.build = r.build /\ s.controlled = r.controlled

\* The functions of a check, and of an update that was not applied.
SameUpdate(r, s) ==
  /\ SamePage(r, s)
  /\ s.attached = r.attached /\ s.had = r.had /\ s.changed = r.changed /\ s.missed = r.missed
  /\ s.target \in {r.target, 0}

Offered == {"updateAvailable", "updating", "reloadRequired"}

\* A new page.
LEMMA NewPage ==
  ASSUME NEW b \in Nat, NEW c \in BOOLEAN
  PROVE  /\ NewWindow(b, c) \in WindowStates
         /\ NewWindow(b, c).open /\ NewWindow(b, c).build = b /\ NewWindow(b, c).controlled = c
         /\ ~NewWindow(b, c).attached /\ NewWindow(b, c).missed = ~c
         /\ NewWindow(b, c).status = "idle" /\ NewWindow(b, c).flight = "none"
         /\ ~NewWindow(b, c).changed /\ NewWindow(b, c).target = 0
BY DEF NewWindow, WindowStates, UpdateStatuses

\* A window that is closed.
LEMMA ClosedPage == ClosedWindow \in WindowStates /\ ~ClosedWindow.open
BY DEF ClosedWindow, NewWindow, WindowStates, UpdateStatuses

\* syncFromRegistration offers a worker that waits.
LEMMA SyncedPage ==
  ASSUME NEW r \in WindowStates
  PROVE  /\ SameUpdate(r, Synced(r))
         /\ Synced(r).target = r.target /\ Synced(r).flight = r.flight /\ Synced(r).shaken = r.shaken
         /\ HasUpdate => Synced(r).status \in Offered
         /\ Synced(r).status = "reloadRequired" <=> r.status = "reloadRequired"
BY DEF Synced, SameUpdate, SamePage, WindowStates, UpdateStatuses, Offered

\* check() keeps a window that waits to be reloaded, and finds a worker that
\* waits.
LEMMA CheckedPage ==
  ASSUME NEW r \in WindowStates, NEW manual \in BOOLEAN, r.flight = "none"
  PROVE  /\ SameUpdate(r, Checked(r, manual))
         /\ Checked(r, manual).target = r.target /\ Checked(r, manual).shaken = r.shaken
         /\ HasUpdate => Checked(r, manual).status \in Offered
         /\ Checked(r, manual).status = "reloadRequired" <=> r.status = "reloadRequired"
         /\ Checked(r, manual).status = "reloadRequired" => Checked(r, manual).flight = "none"
<1> DEFINE c == Checked(r, manual)
<1>1. CASE r.status \in {"updating", "reloadRequired"}
  <2>1. c = r
    BY <1>1 DEF Checked
  <2> QED
    BY <1>1, <2>1 DEF SameUpdate, SamePage, WindowStates, Offered
<1>2. CASE r.status \notin {"updating", "reloadRequired"} /\ (HasUpdate \/ ~online)
  <2>1. c = [r EXCEPT !.status = IF HasUpdate THEN "updateAvailable" ELSE "offline"]
    BY <1>2 DEF Checked
  <2> QED
    BY <1>2, <2>1 DEF SameUpdate, SamePage, WindowStates, UpdateStatuses, Offered
<1>3. CASE r.status \notin {"updating", "reloadRequired"} /\ ~HasUpdate /\ online
  <2> DEFINE p == IF r.status = "checking" THEN "idle" ELSE r.status
  <2>1. c = [r EXCEPT !.status = "checking", !.flight = "update", !.manual = manual, !.prev = p]
    BY <1>3 DEF Checked
  <2>2. p \in UpdateStatuses
    BY DEF WindowStates, UpdateStatuses
  <2> HIDE DEF p
  <2>3. c \in WindowStates
    BY <2>1, <2>2 DEF WindowStates, UpdateStatuses
  <2>4. c.status = "checking"
    BY <2>1 DEF WindowStates
  <2>5. SameUpdate(r, c) /\ c.target = r.target /\ c.shaken = r.shaken
    BY <2>1, <2>3 DEF SameUpdate, SamePage, WindowStates
  <2> QED
    BY <1>3, <2>4, <2>5
<1> QED
  BY <1>1, <1>2, <1>3

\* The end of a check, with the one that was asked for meanwhile.
LEMMA EndedPage ==
  ASSUME NEW r \in WindowStates
  PROVE  /\ SameUpdate(r, Ended(r))
         /\ Ended(r).target = r.target /\ Ended(r).shaken = r.shaken
         /\ HasUpdate /\ r.status \in Offered => Ended(r).status \in Offered
         /\ Ended(r).status = "reloadRequired" <=> r.status = "reloadRequired"
         /\ Ended(r).status = "reloadRequired" => Ended(r).flight = "none"
<1> DEFINE s == [r EXCEPT !.flight = "none", !.queued = FALSE]
<1>1. /\ SameUpdate(r, s) /\ s \in WindowStates /\ s.status = r.status /\ s.flight = "none"
      /\ s.target = r.target /\ s.shaken = r.shaken
  <2>1. s \in WindowStates
    BY DEF WindowStates
  <2> QED
    BY <2>1 DEF SameUpdate, SamePage, WindowStates
<1>2. Ended(r) = IF r.queued THEN Checked(s, TRUE) ELSE s
  BY DEF Ended
<1> HIDE DEF s
<1>3. TRUE \in BOOLEAN
  OBVIOUS
<1>4. /\ SameUpdate(s, Checked(s, TRUE))
      /\ Checked(s, TRUE).target = s.target /\ Checked(s, TRUE).shaken = s.shaken
      /\ HasUpdate => Checked(s, TRUE).status \in Offered
      /\ Checked(s, TRUE).status = "reloadRequired" <=> s.status = "reloadRequired"
      /\ Checked(s, TRUE).status = "reloadRequired" => Checked(s, TRUE).flight = "none"
  BY <1>1, <1>3, CheckedPage
<1>5. CASE r.queued
  <2>1. Ended(r) = Checked(s, TRUE)
    BY <1>2, <1>5
  <2>2. SameUpdate(r, Checked(s, TRUE))
    BY <1>1, <1>4 DEF SameUpdate, SamePage
  <2> QED
    BY <1>1, <1>4, <2>1, <2>2
<1>6. CASE ~r.queued
  <2>1. Ended(r) = s
    BY <1>2, <1>6
  <2> QED
    BY <1>1, <2>1
<1> QED
  BY <1>5, <1>6

-----------------------------------------------------------------------------
(* The invariant *)

\* Workers are numbered in the order they come: the one being installed is
\* newer than the one that waits, and that is newer than the active one.
BuildsGrow ==
  /\ waiting # 0 => active # 0 /\ active < waiting
  /\ installing # 0 => active < installing /\ waiting < installing
  /\ active <= deployed /\ waiting <= deployed /\ installing <= deployed

\* An attached window r, with the events in box, that was not overtaken before
\* its manager could see it: it runs an older build exactly when a change of
\* worker is in its inbox or it says so, and it waits for a newer build only.
ToldOf(r, box, act) ==
  /\ r.had
  /\ r.build # act => "controller" \in box \/ r.status = "reloadRequired"
  /\ "controller" \in box \/ r.status = "reloadRequired" \/ r.changed => r.build < act
  /\ r.target # 0 => r.build < r.target /\ r.status # "reloadRequired"
  /\ r.status = "reloadRequired" => r.flight = "none"

\* A page, from when it is loaded.
PageOK(r, box, act) ==
  /\ ~(r.open /\ r.attached) => box = {} /\ r.flight = "none" /\ r.target = 0
  /\ r.open /\ ~r.missed =>
       /\ r.controlled /\ r.build <= act
       /\ ~r.attached => r.build = act /\ r.status = "idle" /\ ~r.changed
       /\ r.attached => ToldOf(r, box, act)

\* A worker that waits is offered, or the window will see that it waits.
OfferOK(r, box, has) ==
  r.open /\ r.attached /\ has /\ r.flight = "none" /\ ~r.shaken =>
    "installed" \in box \/ r.status \in Offered

WindowOK(w) == PageOK(win[w], inbox[w], active) /\ OfferOK(win[w], inbox[w], HasUpdate)

UpdateInv == BuildsGrow /\ \A w \in Windows : WindowOK(w)

Boxes == SUBSET {"installed", "redundant", "controller"}

\* A page that was just loaded, or a window that is closed, keeps the invariant.
LEMMA LoadedPage ==
  ASSUME UpdateTypeOK
  PROVE  /\ Loaded \in WindowStates /\ Loaded.open /\ ~Loaded.attached
         /\ ~Loaded.missed => Loaded.build = active
         /\ active # 0 => Loaded.build = active
         /\ \A has \in BOOLEAN : PageOK(Loaded, {}, active) /\ OfferOK(Loaded, {}, has)
         /\ \A has \in BOOLEAN : PageOK(ClosedWindow, {}, active) /\ OfferOK(ClosedWindow, {}, has)
<1> DEFINE b == IF active # 0 THEN active ELSE deployed
           c == active # 0
<1>1. b \in Nat /\ c \in BOOLEAN /\ Loaded = NewWindow(b, c)
  BY DEF UpdateTypeOK, Loaded
<1>2. (c => b = active) /\ active \in Nat /\ (active # 0 => c)
  BY DEF UpdateTypeOK
<1> HIDE DEF b, c
<1>3. /\ Loaded \in WindowStates /\ Loaded.open /\ ~Loaded.attached
      /\ Loaded.build = b /\ Loaded.controlled = c /\ Loaded.missed = ~c
      /\ Loaded.status = "idle" /\ Loaded.flight = "none" /\ ~Loaded.changed /\ Loaded.target = 0
  BY <1>1, NewPage
<1>4. PageOK(Loaded, {}, active) /\ \A has \in BOOLEAN : OfferOK(Loaded, {}, has)
  <2>1. ~Loaded.missed => Loaded.build = active /\ Loaded.controlled
    BY <1>2, <1>3, Zenon
  <2>2. Loaded.build = active => Loaded.build <= active
    BY <1>2
  <2> QED
    BY <1>3, <2>1, <2>2, Zenon DEF PageOK, OfferOK
<1>5. ClosedWindow.flight = "none" /\ ClosedWindow.target = 0 /\ ~ClosedWindow.open
  BY DEF ClosedWindow, NewWindow
<1>6. PageOK(ClosedWindow, {}, active) /\ \A has \in BOOLEAN : OfferOK(ClosedWindow, {}, has)
  BY <1>5 DEF PageOK, OfferOK
<1> QED
  BY <1>1, <1>2, <1>3, <1>4, <1>6

\* A function of the manager that neither attaches nor reloads keeps what its
\* page was told of.
LEMMA SamePageOK ==
  ASSUME NEW r \in WindowStates, NEW s, NEW box, NEW b2, NEW act \in Nat, PageOK(r, box, act), SameUpdate(r, s),
         r.open /\ r.attached,
         "controller" \in b2 <=> "controller" \in box,
         ~r.missed => /\ s.status = "reloadRequired" <=> r.status = "reloadRequired"
                      /\ s.status = "reloadRequired" => s.flight = "none"
  PROVE  PageOK(s, b2, act)
<1>1. /\ s \in WindowStates /\ s.open = r.open /\ s.attached = r.attached /\ s.missed = r.missed
      /\ s.build = r.build /\ s.controlled = r.controlled /\ s.had = r.had /\ s.changed = r.changed
      /\ s.target \in {r.target, 0}
  BY DEF SameUpdate, SamePage
<1>2. ASSUME ~s.missed PROVE s.controlled /\ s.build <= act /\ ToldOf(s, b2, act)
  BY <1>1, <1>2 DEF PageOK, ToldOf
<1> QED
  BY <1>1, <1>2 DEF PageOK

\* The step concerns window w alone.
WindowSteps(w) ==
  /\ win' = [win EXCEPT ![w] = win'[w]] /\ win'[w] \in WindowStates
  /\ inbox' = [inbox EXCEPT ![w] = inbox'[w]] /\ inbox'[w] \in Boxes

\* What the other windows know stays so.
LEMMA OneWindow ==
  ASSUME UpdateTypeOK, UpdateInv, NEW w \in Windows, WindowSteps(w), BuildsGrow',
         UNCHANGED <<active, waiting>>, WindowOK(w)'
  PROVE  UpdateInv'
<1>1. \A u \in Windows \ {w} : win'[u] = win[u] /\ inbox'[u] = inbox[u]
  BY DEF WindowSteps, UpdateTypeOK
<1>2. HasUpdate' = HasUpdate
  BY DEF HasUpdate
<1>3. \A u \in Windows \ {w} : WindowOK(u)'
  BY <1>1, <1>2 DEF UpdateInv, WindowOK
<1> QED
  BY <1>3 DEF UpdateInv

\* A reload, whoever asks for it.
LEMMA ReloadStep ==
  ASSUME UpdateTypeOK, UpdateInv, NEW w \in Windows, Reloads(w), UNCHANGED <<deployed, active, waiting, installing>>
  PROVE  WindowSteps(w) /\ UpdateInv'
<1>1. win' = [win EXCEPT ![w] = Loaded] /\ inbox' = [inbox EXCEPT ![w] = {}]
  BY DEF Reloads
<1>2. win'[w] = Loaded /\ inbox'[w] = {} /\ WindowSteps(w)
  BY <1>1, LoadedPage DEF UpdateTypeOK, WindowSteps, Boxes
<1>3. BuildsGrow' /\ HasUpdate' = HasUpdate
  BY DEF UpdateInv, BuildsGrow, HasUpdate
<1>4. HasUpdate \in BOOLEAN
  BY DEF HasUpdate
<1>5. WindowOK(w)'
  BY <1>2, <1>3, <1>4, LoadedPage DEF WindowOK
<1> QED
  BY <1>2, <1>3, <1>5, OneWindow

\* Opening, closing and attaching a window.
LEMMA OpeningSteps ==
  ASSUME UpdateTypeOK, UpdateInv, NEW w \in Windows, OpenWindow(w) \/ CloseWindow(w) \/ Attach(w)
  PROVE  WindowSteps(w) /\ UpdateInv'
<1>0. WindowOK(w) /\ win[w] \in WindowStates /\ inbox[w] \in Boxes /\ HasUpdate \in BOOLEAN
  BY DEF UpdateInv, UpdateTypeOK, HasUpdate, Boxes
<1>1. HasUpdate' = HasUpdate /\ UNCHANGED <<active, waiting>>
  BY DEF OpenWindow, CloseWindow, Attach, HasUpdate
<1>2. CASE OpenWindow(w)
  <2>1. win' = [win EXCEPT ![w] = Loaded] /\ inbox' = inbox /\ UNCHANGED <<deployed, installing>> /\ ~win[w].open
    BY <1>2 DEF OpenWindow
  <2>2. inbox[w] = {}
    BY <1>0, <2>1 DEF WindowOK, PageOK
  <2>3. WindowSteps(w) /\ win'[w] = Loaded /\ inbox'[w] = {}
    BY <1>0, <2>1, <2>2, LoadedPage DEF UpdateTypeOK, WindowSteps
  <2>4. WindowOK(w)'
    BY <1>0, <1>1, <2>3, LoadedPage DEF WindowOK
  <2>5. BuildsGrow'
    BY <1>1, <2>1 DEF UpdateInv, BuildsGrow
  <2> QED
    BY <1>1, <2>3, <2>4, <2>5, OneWindow
<1>3. CASE CloseWindow(w)
  <2>1. /\ win' = [win EXCEPT ![w] = ClosedWindow] /\ inbox' = [inbox EXCEPT ![w] = {}]
        /\ UNCHANGED <<deployed, installing>>
    BY <1>3 DEF CloseWindow
  <2>2. WindowSteps(w) /\ win'[w] = ClosedWindow /\ inbox'[w] = {}
    BY <2>1, ClosedPage DEF UpdateTypeOK, WindowSteps, Boxes
  <2>3. WindowOK(w)'
    BY <1>0, <1>1, <2>2, LoadedPage DEF WindowOK
  <2>4. BuildsGrow'
    BY <1>1, <2>1 DEF UpdateInv, BuildsGrow
  <2> QED
    BY <1>1, <2>2, <2>3, <2>4, OneWindow
<1>4. CASE Attach(w)
  <2> DEFINE r == [win[w] EXCEPT !.attached = TRUE, !.had = win[w].controlled]
  <2>1. /\ win' = [win EXCEPT ![w] = Synced(r)] /\ inbox' = inbox /\ deployed' = deployed
        /\ installing' = IF active = 0 /\ installing = 0 THEN deployed ELSE installing
        /\ win[w].open /\ ~win[w].attached
    BY <1>4 DEF Attach
  <2>2. r \in WindowStates
    BY <1>0 DEF WindowStates
  <2>3. /\ r.open = win[w].open /\ r.build = win[w].build /\ r.controlled = win[w].controlled
        /\ r.missed = win[w].missed /\ r.changed = win[w].changed /\ r.status = win[w].status
        /\ r.flight = win[w].flight /\ r.target = win[w].target /\ r.had = win[w].controlled
    BY <1>0 DEF WindowStates
  <2>4. r.attached
    BY <1>0 DEF WindowStates
  <2> HIDE DEF r
  <2>5. inbox[w] = {} /\ win[w].flight = "none" /\ win[w].target = 0
    BY <1>0, <2>1 DEF WindowOK, PageOK
  <2>6. ASSUME ~r.missed
        PROVE /\ r.controlled /\ r.had /\ r.build = active /\ r.status = "idle" /\ ~r.changed
    BY <1>0, <2>1, <2>3, <2>6 DEF WindowOK, PageOK
  <2>7. PageOK(r, inbox[w], active)
    <3>1. ASSUME ~r.missed PROVE r.build <= active /\ ToldOf(r, inbox[w], active)
      BY <2>3, <2>5, <2>6, <3>1 DEF ToldOf, UpdateTypeOK
    <3> QED
      BY <2>1, <2>3, <2>4, <2>6, <3>1 DEF PageOK
  <2>8. /\ SameUpdate(r, Synced(r)) /\ Synced(r).flight = r.flight
        /\ HasUpdate => Synced(r).status \in Offered
        /\ Synced(r).status = "reloadRequired" <=> r.status = "reloadRequired"
    BY <2>2, SyncedPage
  <2>9. PageOK(Synced(r), inbox[w], active)
    <3>1. active \in Nat /\ r.open
      BY <2>1, <2>3 DEF UpdateTypeOK
    <3>2. Synced(r).status = "reloadRequired" => Synced(r).flight = "none"
      BY <2>3, <2>5, <2>8
    <3> QED
      BY <2>2, <2>4, <2>7, <2>8, <3>1, <3>2, SamePageOK
  <2>10. OfferOK(Synced(r), inbox[w], HasUpdate)
    BY <2>8 DEF OfferOK
  <2>11. WindowSteps(w) /\ win'[w] = Synced(r) /\ inbox'[w] = inbox[w]
    BY <1>0, <2>1, <2>8 DEF UpdateTypeOK, WindowSteps, SameUpdate, SamePage
  <2>12. WindowOK(w)'
    BY <1>1, <2>9, <2>10, <2>11 DEF WindowOK
  <2>13. BuildsGrow'
    BY <1>1, <2>1 DEF UpdateInv, BuildsGrow, UpdateTypeOK
  <2> QED
    BY <1>1, <2>11, <2>12, <2>13, OneWindow
<1> QED
  BY <1>2, <1>3, <1>4

\* A step of window w that leaves the registration alone and whose record is
\* s afterwards.
LEMMA ManagerStep ==
  ASSUME UpdateTypeOK, UpdateInv, NEW w \in Windows, NEW s,
         win' = [win EXCEPT ![w] = s], inbox' = inbox,
         UNCHANGED <<deployed, active, waiting>>,
         installing' = installing \/ (installing' = deployed /\ active < deployed /\ waiting < deployed),
         win[w].open /\ win[w].attached, SameUpdate(win[w], s),
         ~win[w].missed => /\ s.status = "reloadRequired" <=> win[w].status = "reloadRequired"
                           /\ s.status = "reloadRequired" => s.flight = "none",
         OfferOK(s, inbox[w], HasUpdate)
  PROVE  WindowSteps(w) /\ UpdateInv'
<1>1. s \in WindowStates /\ win[w] \in WindowStates /\ active \in Nat /\ inbox[w] \in Boxes
  BY DEF SameUpdate, SamePage, UpdateTypeOK, Boxes
<1>2. PageOK(s, inbox[w], active)
  BY <1>1, SamePageOK DEF UpdateInv, WindowOK
<1>3. WindowSteps(w) /\ win'[w] = s /\ inbox'[w] = inbox[w]
  BY <1>1 DEF WindowSteps, UpdateTypeOK
<1>4. BuildsGrow' /\ HasUpdate' = HasUpdate
  BY DEF UpdateInv, BuildsGrow, HasUpdate, UpdateTypeOK
<1>5. WindowOK(w)'
  BY <1>2, <1>3, <1>4 DEF WindowOK
<1> QED
  BY <1>3, <1>4, <1>5, OneWindow

\* A check, from the trigger to its end.
LEMMA CheckSteps ==
  ASSUME UpdateTypeOK, UpdateInv, NEW w \in Windows,
         \/ \E manual \in BOOLEAN : Check(w, manual)
         \/ UpdateAnswered(w) \/ InstallAwaited(w) \/ UpdateFails(w)
  PROVE  WindowSteps(w) /\ UpdateInv'
<1>0. WindowOK(w) /\ win[w] \in WindowStates /\ HasUpdate \in BOOLEAN
  BY DEF UpdateInv, UpdateTypeOK, HasUpdate
<1>1. win[w].open /\ win[w].attached
  BY <1>0 DEF Check, Attached, UpdateAnswered, InstallAwaited, UpdateFails, WindowOK, PageOK
<1>2. win[w].flight # "none" /\ ~win[w].missed => win[w].status # "reloadRequired"
  BY <1>0, <1>1 DEF WindowOK, PageOK, ToldOf
<1>3. ASSUME NEW manual \in BOOLEAN, Check(w, manual) PROVE WindowSteps(w) /\ UpdateInv'
  <2>1. inbox' = inbox /\ UNCHANGED <<deployed, active, waiting, installing>>
    BY <1>3 DEF Check
  <2>2. CASE win[w].flight = "none"
    <3>1. win' = [win EXCEPT ![w] = Checked(win[w], manual)]
      BY <1>3, <2>2 DEF Check
    <3>2. OfferOK(Checked(win[w], manual), inbox[w], HasUpdate)
      BY <1>0, <2>2, CheckedPage DEF OfferOK
    <3> QED
      BY <1>0, <1>1, <2>1, <2>2, <3>1, <3>2, CheckedPage, ManagerStep
  <2>3. CASE win[w].flight # "none"
    <3> DEFINE s == [win[w] EXCEPT !.queued = @ \/ (manual /\ ~win[w].manual)]
    <3>1. win' = [win EXCEPT ![w] = s]
      BY <1>3, <2>3 DEF Check
    <3>2. s \in WindowStates
      BY <1>0 DEF WindowStates
    <3>3. SameUpdate(win[w], s) /\ s.status = win[w].status /\ s.flight = win[w].flight
      BY <1>0, <3>2 DEF SameUpdate, SamePage, WindowStates
    <3> HIDE DEF s
    <3>4. OfferOK(s, inbox[w], HasUpdate)
      BY <2>3, <3>3 DEF OfferOK
    <3> QED
      BY <1>1, <1>2, <2>1, <2>3, <3>1, <3>3, <3>4, ManagerStep
  <2> QED
    BY <2>2, <2>3
<1>4. CASE UpdateAnswered(w)
  <2> DEFINE s == [win[w] EXCEPT !.flight = "install"]
  <2>1. win' = [win EXCEPT ![w] = s] /\ win[w].flight = "update"
    BY <1>4 DEF UpdateAnswered
  <2>2. inbox' = inbox /\ UNCHANGED <<deployed, active, waiting>>
    BY <1>4 DEF UpdateAnswered
  <2>3. installing' = installing \/ (installing' = deployed /\ active < deployed /\ waiting < deployed)
    BY <1>4 DEF UpdateAnswered, Newest, UpdateInv, BuildsGrow, UpdateTypeOK
  <2>4. s \in WindowStates
    BY <1>0 DEF WindowStates
  <2>5. SameUpdate(win[w], s) /\ s.status = win[w].status /\ s.flight = "install"
    BY <1>0, <2>4 DEF SameUpdate, SamePage, WindowStates
  <2> HIDE DEF s
  <2>6. OfferOK(s, inbox[w], HasUpdate)
    BY <2>5 DEF OfferOK
  <2> QED
    BY <1>1, <1>2, <2>1, <2>2, <2>3, <2>5, <2>6, ManagerStep
<1>5. CASE InstallAwaited(w) \/ UpdateFails(w)
  <2>1. win[w].flight # "none" /\ inbox' = inbox /\ UNCHANGED <<deployed, active, waiting, installing>>
    BY <1>5 DEF InstallAwaited, UpdateFails
  <2>2. ASSUME NEW r, SameUpdate(win[w], r), win' = [win EXCEPT ![w] = Ended(r)],
               ~win[w].missed => r.status # "reloadRequired",
               HasUpdate /\ ~r.shaken => r.status \in Offered
        PROVE WindowSteps(w) /\ UpdateInv'
    <3>1. r \in WindowStates
      BY <2>2 DEF SameUpdate, SamePage
    <3>2. /\ SameUpdate(r, Ended(r)) /\ Ended(r).shaken = r.shaken /\ Ended(r).target = r.target
          /\ HasUpdate /\ r.status \in Offered => Ended(r).status \in Offered
          /\ Ended(r).status = "reloadRequired" <=> r.status = "reloadRequired"
      BY <3>1, EndedPage
    <3>3. SameUpdate(win[w], Ended(r))
      BY <2>2, <3>2 DEF SameUpdate, SamePage
    <3>4. OfferOK(Ended(r), inbox[w], HasUpdate)
      BY <2>2, <3>2 DEF OfferOK
    <3> QED
      BY <1>1, <1>2, <2>1, <2>2, <3>2, <3>3, <3>4, ManagerStep
  <2>3. CASE InstallAwaited(w)
    <3> DEFINE st == IF HasUpdate THEN "updateAvailable"
                     ELSE IF installing # 0 THEN win[w].status ELSE "upToDate"
               r == [win[w] EXCEPT !.status = st]
    <3>1. win' = [win EXCEPT ![w] = Ended(r)]
      BY <2>3 DEF InstallAwaited
    <3>2. /\ st \in UpdateStatuses /\ (HasUpdate => st \in Offered)
          /\ ~win[w].missed => st # "reloadRequired"
      BY <1>0, <1>2, <2>1 DEF WindowStates, UpdateStatuses, Offered
    <3> HIDE DEF st
    <3>3. r \in WindowStates /\ r.status = st
      BY <1>0, <3>2 DEF WindowStates
    <3>4. SameUpdate(win[w], r)
      BY <1>0, <3>3 DEF SameUpdate, SamePage, WindowStates
    <3> HIDE DEF r
    <3> QED
      BY <2>2, <3>1, <3>2, <3>3, <3>4
  <2>4. CASE UpdateFails(w)
    <3> DEFINE st == IF ~online THEN "offline"
                     ELSE IF win[w].manual THEN "error"
                     ELSE IF win[w].prev \in {"idle", "upToDate", "offline", "error"}
                     THEN win[w].prev ELSE "idle"
               r == [win[w] EXCEPT !.shaken = @ \/ HasUpdate, !.status = st]
    <3>1. win' = [win EXCEPT ![w] = Ended(r)]
      BY <2>4 DEF UpdateFails
    <3>2. st \in UpdateStatuses /\ st # "reloadRequired"
      BY DEF UpdateStatuses
    <3> HIDE DEF st
    <3>3. r \in WindowStates /\ r.status = st /\ (HasUpdate => r.shaken)
      BY <1>0, <3>2 DEF WindowStates
    <3>4. SameUpdate(win[w], r)
      BY <1>0, <3>3 DEF SameUpdate, SamePage, WindowStates
    <3> HIDE DEF r
    <3> QED
      BY <2>2, <3>1, <3>2, <3>3, <3>4
  <2> QED
    BY <1>5, <2>3, <2>4
<1> QED
  BY <1>3, <1>4, <1>5

\* "Update now", and the wait for the worker to take over.
LEMMA ApplySteps ==
  ASSUME UpdateTypeOK, UpdateInv, NEW w \in Windows, ApplyUpdate(w) \/ ActivationTimeout(w)
  PROVE  WindowSteps(w) /\ UpdateInv'
<1>0. WindowOK(w) /\ win[w] \in WindowStates /\ inbox[w] \in Boxes
  BY DEF UpdateInv, UpdateTypeOK, Boxes
<1>1. win[w].open /\ win[w].attached
  BY <1>0 DEF ApplyUpdate, Attached, ActivationTimeout, WindowOK, PageOK
<1>2. UNCHANGED <<deployed, active, waiting, installing>>
  BY DEF ApplyUpdate, ActivationTimeout
<1>3. CASE Reloads(w)
  BY <1>2, <1>3, ReloadStep
<1>4. CASE /\ ApplyUpdate(w) /\ inbox' = inbox /\ win' = [win EXCEPT ![w] = Checked(@, TRUE)]
           /\ win[w].flight = "none"
  <2>1. TRUE \in BOOLEAN
    OBVIOUS
  <2>2. OfferOK(Checked(win[w], TRUE), inbox[w], HasUpdate)
    BY <1>0, <1>4, <2>1, CheckedPage DEF OfferOK
  <2> QED
    BY <1>0, <1>1, <1>2, <1>4, <2>1, <2>2, CheckedPage, ManagerStep
<1>5. CASE /\ ApplyUpdate(w) /\ inbox' = inbox /\ win[w].status # "reloadRequired" /\ waiting # 0
           /\ win' = [win EXCEPT ![w].status = "updating", ![w].target = waiting]
  <2> DEFINE s == [win[w] EXCEPT !.status = "updating", !.target = waiting]
  <2>1. win' = [win EXCEPT ![w] = s]
    BY <1>5 DEF UpdateTypeOK
  <2>2. s \in WindowStates
    BY <1>0 DEF WindowStates, UpdateStatuses, UpdateTypeOK
  <2>3. SamePage(win[w], s)
    BY <1>0, <2>2 DEF SamePage, WindowStates
  <2>4. /\ s.attached = win[w].attached /\ s.had = win[w].had /\ s.changed = win[w].changed
        /\ s.missed = win[w].missed /\ s.flight = win[w].flight /\ s.shaken = win[w].shaken
    BY <1>0 DEF WindowStates
  <2>5. s.status = "updating" /\ s.target = waiting
    BY <1>0 DEF WindowStates
  <2> HIDE DEF s
  <2>6. active < waiting /\ active \in Nat /\ waiting \in Nat /\ win[w].build \in Nat
    BY <1>0, <1>5 DEF UpdateInv, BuildsGrow, UpdateTypeOK, WindowStates
  <2>7. ASSUME ~win[w].missed PROVE s.controlled /\ s.build <= active /\ ToldOf(s, inbox[w], active)
    <3>1. win[w].controlled /\ win[w].build <= active /\ ToldOf(win[w], inbox[w], active)
      BY <1>0, <1>1, <2>7 DEF WindowOK, PageOK
    <3> QED
      BY <1>5, <2>3, <2>4, <2>5, <2>6, <3>1 DEF ToldOf, SamePage
  <2>8. PageOK(s, inbox[w], active)
    BY <1>1, <2>3, <2>4, <2>7 DEF PageOK, SamePage
  <2>9. OfferOK(s, inbox[w], HasUpdate)
    BY <2>5 DEF OfferOK, Offered
  <2>10. WindowSteps(w) /\ win'[w] = s /\ inbox'[w] = inbox[w]
    BY <1>0, <1>5, <2>1, <2>2 DEF WindowSteps, UpdateTypeOK
  <2>11. BuildsGrow' /\ HasUpdate' = HasUpdate
    BY <1>2 DEF UpdateInv, BuildsGrow, HasUpdate
  <2>12. WindowOK(w)'
    BY <1>2, <2>8, <2>9, <2>10, <2>11 DEF WindowOK
  <2> QED
    BY <1>2, <2>10, <2>11, <2>12, OneWindow
<1>6. CASE ActivationTimeout(w) /\ inbox' = inbox /\ win' = [win EXCEPT ![w] = NotApplied(@)]
  <2> DEFINE st == IF HasUpdate THEN "updateAvailable" ELSE "error"
             s == [win[w] EXCEPT !.target = 0, !.status = st]
  <2>1. win' = [win EXCEPT ![w] = s] /\ win[w].target # 0
    BY <1>6 DEF NotApplied, ActivationTimeout
  <2>2. st \in UpdateStatuses /\ st # "reloadRequired" /\ (HasUpdate => st \in Offered)
    BY DEF UpdateStatuses, Offered
  <2> HIDE DEF st
  <2>3. s \in WindowStates /\ s.status = st
    BY <1>0, <2>2 DEF WindowStates
  <2>4. SameUpdate(win[w], s)
    BY <1>0, <2>3 DEF SameUpdate, SamePage, WindowStates
  <2> HIDE DEF s
  <2>5. ~win[w].missed => win[w].status # "reloadRequired"
    BY <1>0, <1>1, <2>1 DEF WindowOK, PageOK, ToldOf
  <2>6. OfferOK(s, inbox[w], HasUpdate)
    BY <2>2, <2>3 DEF OfferOK
  <2> QED
    BY <1>1, <1>2, <1>6, <2>1, <2>2, <2>3, <2>4, <2>5, <2>6, ManagerStep
<1>7. CASE ApplyUpdate(w)
  BY <1>3, <1>4, <1>5, <1>7 DEF ApplyUpdate
<1>8. CASE ActivationTimeout(w)
  BY <1>3, <1>6, <1>8 DEF ActivationTimeout
<1> QED
  BY <1>7, <1>8

\* The events of the registration, as a window sees them.
LEMMA EventSteps ==
  ASSUME UpdateTypeOK, UpdateInv, NEW w \in Windows,
         InstalledEvent(w) \/ RedundantEvent(w) \/ ControllerEvent(w)
  PROVE  WindowSteps(w) /\ UpdateInv'
<1>0. /\ WindowOK(w) /\ win[w] \in WindowStates /\ inbox[w] \in Boxes /\ active \in Nat
      /\ PageOK(win[w], inbox[w], active) /\ OfferOK(win[w], inbox[w], HasUpdate)
  BY DEF UpdateInv, UpdateTypeOK, Boxes, WindowOK
<1>1. win[w].open /\ win[w].attached
  BY <1>0 DEF InstalledEvent, RedundantEvent, ControllerEvent, Handles, PageOK
<1>2. UNCHANGED <<deployed, active, waiting, installing>>
  BY DEF InstalledEvent, RedundantEvent, ControllerEvent, Handles
<1>3. BuildsGrow' /\ HasUpdate' = HasUpdate
  BY <1>2 DEF UpdateInv, BuildsGrow, HasUpdate
<1>4. ASSUME NEW s \in WindowStates, NEW e, win' = [win EXCEPT ![w] = s],
             inbox' = [inbox EXCEPT ![w] = @ \ {e}],
             PageOK(s, inbox[w] \ {e}, active), OfferOK(s, inbox[w] \ {e}, HasUpdate)
      PROVE WindowSteps(w) /\ UpdateInv'
  <2>1. win'[w] = s /\ inbox'[w] = inbox[w] \ {e} /\ WindowSteps(w)
    BY <1>0, <1>4 DEF WindowSteps, UpdateTypeOK, Boxes
  <2>2. WindowOK(w)'
    BY <1>2, <1>3, <1>4, <2>1 DEF WindowOK
  <2> QED
    BY <1>2, <1>3, <2>1, <2>2, OneWindow
<1>5. CASE InstalledEvent(w)
  <2> DEFINE s == Synced(win[w])
  <2>1. win' = [win EXCEPT ![w] = s] /\ inbox' = [inbox EXCEPT ![w] = @ \ {"installed"}]
    BY <1>5 DEF InstalledEvent, Handles
  <2>2. /\ SameUpdate(win[w], s) /\ s.flight = win[w].flight
        /\ HasUpdate => s.status \in Offered
        /\ s.status = "reloadRequired" <=> win[w].status = "reloadRequired"
    BY <1>0, SyncedPage
  <2> HIDE DEF s
  <2>3. s \in WindowStates
    BY <2>2 DEF SameUpdate, SamePage
  <2>4. ~win[w].missed /\ win[w].status = "reloadRequired" => win[w].flight = "none"
    BY <1>0, <1>1 DEF PageOK, ToldOf
  <2>5. PageOK(s, inbox[w] \ {"installed"}, active)
    BY <1>0, <1>1, <2>2, <2>4, SamePageOK
  <2>6. OfferOK(s, inbox[w] \ {"installed"}, HasUpdate)
    BY <2>2 DEF OfferOK
  <2> QED
    BY <1>4, <2>1, <2>3, <2>5, <2>6
<1>6. CASE RedundantEvent(w)
  <2> DEFINE st == IF win[w].status = "checking" /\ win[w].flight = "none"
                   THEN IF HasUpdate THEN "updateAvailable" ELSE "error" ELSE win[w].status
             s == [win[w] EXCEPT !.status = st]
  <2>1. win' = [win EXCEPT ![w] = s] /\ inbox' = [inbox EXCEPT ![w] = @ \ {"redundant"}]
    BY <1>6 DEF RedundantEvent, Handles
  <2>2. /\ st \in UpdateStatuses /\ (st = "reloadRequired" <=> win[w].status = "reloadRequired")
        /\ win[w].status \in Offered => st \in Offered
    BY <1>0 DEF WindowStates, UpdateStatuses, Offered
  <2> HIDE DEF st
  <2>3. s \in WindowStates /\ s.status = st /\ s.flight = win[w].flight /\ s.shaken = win[w].shaken
    BY <1>0, <2>2 DEF WindowStates
  <2>4. SameUpdate(win[w], s)
    BY <1>0, <2>3 DEF SameUpdate, SamePage, WindowStates
  <2> HIDE DEF s
  <2>5. ~win[w].missed /\ win[w].status = "reloadRequired" => win[w].flight = "none"
    BY <1>0, <1>1 DEF PageOK, ToldOf
  <2>6. PageOK(s, inbox[w] \ {"redundant"}, active)
    BY <1>0, <1>1, <2>2, <2>3, <2>4, <2>5, SamePageOK
  <2>7. OfferOK(s, inbox[w] \ {"redundant"}, HasUpdate)
    BY <1>0, <1>1, <2>2, <2>3 DEF OfferOK
  <2> QED
    BY <1>4, <2>1, <2>3, <2>6, <2>7
<1>7. CASE ControllerEvent(w) /\ Reloads(w)
  BY <1>2, <1>7, ReloadStep
<1>8. CASE /\ "controller" \in inbox[w] /\ win[w].target = 0
           /\ win' = [win EXCEPT ![w] = ControllerChanged(@)]
           /\ inbox' = [inbox EXCEPT ![w] = @ \ {"controller"}]
  <2> DEFINE s == ControllerChanged(win[w])
             st == IF win[w].had THEN "reloadRequired" ELSE win[w].status
  <2>1. s = [win[w] EXCEPT !.had = TRUE, !.changed = win[w].had \/ @, !.status = st,
                           !.missed = @ \/ win[w].flight # "none"]
    BY DEF ControllerChanged
  <2>2. st \in UpdateStatuses /\ (win[w].status \in Offered => st \in Offered)
        /\ (win[w].had => st = "reloadRequired")
    BY <1>0 DEF WindowStates, UpdateStatuses, Offered
  <2> HIDE DEF st
  <2>3. s \in WindowStates
    BY <1>0, <2>1, <2>2 DEF WindowStates
  <2>4. /\ s.open = win[w].open /\ s.build = win[w].build /\ s.controlled = win[w].controlled
        /\ s.attached = win[w].attached /\ s.flight = win[w].flight /\ s.target = win[w].target
        /\ s.shaken = win[w].shaken /\ s.status = st
    BY <1>0, <2>1 DEF WindowStates
  <2>5. s.had /\ (~s.missed => ~win[w].missed /\ win[w].flight = "none")
    BY <1>0, <2>1 DEF WindowStates
  <2> HIDE DEF s
  <2>6. ASSUME ~s.missed
        PROVE s.controlled /\ s.build <= active /\ ToldOf(s, inbox[w] \ {"controller"}, active)
    <3>1. win[w].controlled /\ win[w].build <= active /\ ToldOf(win[w], inbox[w], active)
      BY <1>0, <1>1, <2>5, <2>6 DEF PageOK
    <3>2. win[w].build < active /\ win[w].had
      BY <1>8, <3>1 DEF ToldOf
    <3> QED
      BY <1>8, <2>2, <2>4, <2>5, <2>6, <3>1, <3>2 DEF ToldOf
  <2>7. PageOK(s, inbox[w] \ {"controller"}, active)
    BY <1>1, <2>4, <2>6 DEF PageOK
  <2>8. OfferOK(s, inbox[w] \ {"controller"}, HasUpdate)
    BY <1>0, <1>1, <2>2, <2>4 DEF OfferOK
  <2>9. win' = [win EXCEPT ![w] = s]
    BY <1>8 DEF s
  <2> QED
    BY <1>4, <1>8, <2>3, <2>7, <2>8, <2>9
<1> QED
  BY <1>5, <1>6, <1>7, <1>8 DEF ControllerEvent, ReloadsOnChange

\* A worker takes over: every window that is attached will see it, and one
\* that is not has missed it.
LEMMA WorkerChanges ==
  ASSUME UpdateTypeOK, UpdateInv, NEW b \in Nat, active < b, ClaimsWindows(b), Sends("controller"), waiting' = 0
  PROVE  win' \in [Windows -> WindowStates] /\ \A w \in Windows : WindowOK(w)'
<1>1. ~HasUpdate' /\ active' = b /\ active \in Nat
  BY DEF HasUpdate, ClaimsWindows, UpdateTypeOK
<1>2. ASSUME NEW w \in Windows PROVE win'[w] \in WindowStates /\ WindowOK(w)'
  <2>0. win[w] \in WindowStates /\ PageOK(win[w], inbox[w], active)
    BY DEF UpdateInv, WindowOK, UpdateTypeOK
  <2>1. CASE ~win[w].open
    <3>1. win'[w] = win[w] /\ inbox'[w] = inbox[w]
      BY <2>1 DEF ClaimsWindows, Sends, Attached
    <3> QED
      BY <1>1, <2>0, <2>1, <3>1 DEF WindowOK, PageOK, OfferOK
  <2>2. CASE win[w].open
    <3> DEFINE s == [win[w] EXCEPT !.controlled = TRUE, !.missed = @ \/ ~win[w].attached]
    <3>1. win'[w] = s
      BY <2>2 DEF ClaimsWindows
    <3>2. inbox'[w] = IF win[w].attached THEN inbox[w] \cup {"controller"} ELSE inbox[w]
      BY <2>2 DEF Sends, Attached
    <3>3. s \in WindowStates
      BY <2>0 DEF WindowStates
    <3>4. /\ s.open = win[w].open /\ s.build = win[w].build /\ s.attached = win[w].attached
          /\ s.flight = win[w].flight /\ s.target = win[w].target /\ s.status = win[w].status
          /\ s.had = win[w].had
    BY <2>0 DEF WindowStates
    <3>5. s.controlled /\ (~s.missed => ~win[w].missed /\ win[w].attached)
      BY <2>0 DEF WindowStates
    <3> HIDE DEF s
    <3>6. ASSUME ~s.missed PROVE s.attached /\ s.build <= b /\ ToldOf(s, inbox'[w], b)
      <4>1. win[w].build <= active /\ ToldOf(win[w], inbox[w], active) /\ win[w].build \in Nat
        BY <2>0, <2>2, <3>5, <3>6 DEF PageOK, WindowStates
      <4>2. "controller" \in inbox'[w] /\ win[w].build < b
        BY <1>1, <3>2, <3>5, <3>6, <4>1
      <4> QED
        BY <3>4, <3>5, <3>6, <4>1, <4>2 DEF ToldOf
    <3>7. ~s.attached => inbox'[w] = {} /\ s.flight = "none" /\ s.target = 0
      BY <2>0, <3>2, <3>4 DEF PageOK
    <3>8. PageOK(s, inbox'[w], b)
      BY <2>2, <3>4, <3>5, <3>6, <3>7 DEF PageOK
    <3>9. OfferOK(s, inbox'[w], HasUpdate')
      BY <1>1 DEF OfferOK
    <3> QED
      BY <1>1, <3>1, <3>3, <3>8, <3>9 DEF WindowOK
  <2> QED
    BY <2>1, <2>2
<1>3. win' = [w \in Windows |-> win'[w]]
  BY DEF ClaimsWindows
<1> QED
  BY <1>2, <1>3

\* An event other than a change of worker.
LEMMA EventSent ==
  ASSUME UpdateTypeOK, UpdateInv, NEW e \in {"installed", "redundant"}, Sends(e), UNCHANGED <<win, active>>,
         HasUpdate' => HasUpdate \/ e = "installed"
  PROVE  \A w \in Windows : WindowOK(w)'
<1> SUFFICES ASSUME NEW w \in Windows PROVE WindowOK(w)'
  OBVIOUS
<1>0. /\ win[w] \in WindowStates /\ PageOK(win[w], inbox[w], active)
      /\ OfferOK(win[w], inbox[w], HasUpdate) /\ active \in Nat
  BY DEF UpdateInv, WindowOK, UpdateTypeOK
<1>1. inbox'[w] = IF win[w].open /\ win[w].attached THEN inbox[w] \cup {e} ELSE inbox[w]
  BY DEF Sends, Attached
<1>2. PageOK(win[w], inbox'[w], active)
  BY <1>0, <1>1 DEF PageOK, ToldOf
<1>3. OfferOK(win[w], inbox'[w], HasUpdate')
  BY <1>0, <1>1 DEF OfferOK
<1> QED
  BY <1>2, <1>3 DEF WindowOK

\* The server, the browser and the network.
LEMMA RegistrationSteps ==
  ASSUME UpdateTypeOK, UpdateInv, Deploy \/ InstallDone \/ InstallFails \/ Activate \/ ConnectionChanges
  PROVE  UpdateTypeOK' /\ UpdateInv'
<1>g. BuildsGrow
  BY DEF UpdateInv
<1>s. ASSUME NEW e \in {"installed", "redundant", "controller"}, Sends(e) PROVE inbox' \in [Windows -> Boxes]
  BY <1>s DEF Sends, UpdateTypeOK, Boxes
<1>1. CASE Deploy
  <2>1. deployed' = deployed + 1 /\ UNCHANGED <<active, waiting, installing, win, inbox, online>>
    BY <1>1 DEF Deploy
  <2>2. UpdateTypeOK'
    BY <2>1 DEF UpdateTypeOK
  <2>3. BuildsGrow' /\ HasUpdate' = HasUpdate
    BY <1>g, <2>1 DEF BuildsGrow, UpdateTypeOK, HasUpdate
  <2>4. \A w \in Windows : WindowOK(w)'
    BY <2>1, <2>3 DEF UpdateInv, WindowOK
  <2> QED
    BY <2>2, <2>3, <2>4 DEF UpdateInv
<1>2. CASE InstallDone /\ active = 0
  <2>1. /\ ClaimsWindows(installing) /\ Sends("controller") /\ installing # 0 /\ installing' = 0
        /\ UNCHANGED <<deployed, waiting, online>>
    BY <1>2 DEF InstallDone
  <2>2. waiting' = 0 /\ active < installing /\ installing \in Nat
    BY <1>g, <1>2, <2>1 DEF BuildsGrow, UpdateTypeOK
  <2>3. win' \in [Windows -> WindowStates] /\ \A w \in Windows : WindowOK(w)'
    BY <2>1, <2>2, WorkerChanges
  <2>4. BuildsGrow' /\ active' = installing
    BY <1>g, <2>1, <2>2 DEF BuildsGrow, UpdateTypeOK, ClaimsWindows
  <2>5. UpdateTypeOK'
    BY <1>s, <2>1, <2>2, <2>3, <2>4 DEF UpdateTypeOK, Boxes
  <2> QED
    BY <2>3, <2>4, <2>5 DEF UpdateInv
<1>3. CASE InstallDone /\ active # 0
  <2>1. /\ waiting' = installing /\ Sends("installed") /\ installing # 0 /\ installing' = 0
        /\ UNCHANGED <<deployed, active, win, online>>
    BY <1>3 DEF InstallDone
  <2>2. \A w \in Windows : WindowOK(w)'
    BY <2>1, EventSent
  <2>3. BuildsGrow'
    BY <1>g, <1>3, <2>1 DEF BuildsGrow, UpdateTypeOK
  <2>4. UpdateTypeOK'
    BY <1>s, <2>1 DEF UpdateTypeOK, Boxes
  <2> QED
    BY <2>2, <2>3, <2>4 DEF UpdateInv
<1>4. CASE InstallFails
  <2>1. /\ Sends("redundant") /\ installing' = 0 /\ UNCHANGED <<deployed, active, waiting, win, online>>
    BY <1>4 DEF InstallFails
  <2>2. HasUpdate' = HasUpdate
    BY <2>1 DEF HasUpdate
  <2>3. \A w \in Windows : WindowOK(w)'
    BY <2>1, <2>2, EventSent
  <2>4. BuildsGrow'
    BY <1>g, <2>1 DEF BuildsGrow, UpdateTypeOK
  <2>5. UpdateTypeOK'
    BY <1>s, <2>1 DEF UpdateTypeOK, Boxes
  <2> QED
    BY <2>3, <2>4, <2>5 DEF UpdateInv
<1>5. CASE Activate
  <2>1. /\ ClaimsWindows(waiting) /\ Sends("controller") /\ waiting # 0 /\ waiting' = 0
        /\ UNCHANGED <<deployed, installing, online>>
    BY <1>5 DEF Activate
  <2>2. active < waiting /\ waiting \in Nat
    BY <1>g, <2>1 DEF BuildsGrow, UpdateTypeOK
  <2>3. win' \in [Windows -> WindowStates] /\ \A w \in Windows : WindowOK(w)'
    BY <2>1, <2>2, WorkerChanges
  <2>4. BuildsGrow' /\ active' = waiting
    <3>1. active' = waiting
      BY <2>1 DEF ClaimsWindows
    <3>2. deployed \in Nat /\ active \in Nat /\ installing \in Nat
      BY DEF UpdateTypeOK
    <3> QED
      BY <1>g, <2>1, <2>2, <3>1, <3>2 DEF BuildsGrow
  <2>5. UpdateTypeOK'
    BY <1>s, <2>1, <2>2, <2>3, <2>4 DEF UpdateTypeOK, Boxes
  <2> QED
    BY <2>3, <2>4, <2>5 DEF UpdateInv
<1>6. CASE ConnectionChanges
  <2>1. UNCHANGED <<deployed, active, waiting, installing, inbox>> /\ online' = ~online
    BY <1>6 DEF ConnectionChanges
  <2>2. BuildsGrow' /\ HasUpdate' = HasUpdate
    BY <1>g, <2>1 DEF BuildsGrow, HasUpdate
  <2>3. ASSUME NEW w \in Windows PROVE win'[w] \in WindowStates /\ WindowOK(w)'
    <3>0. /\ win[w] \in WindowStates /\ PageOK(win[w], inbox[w], active)
          /\ OfferOK(win[w], inbox[w], HasUpdate) /\ active \in Nat
      BY DEF UpdateInv, WindowOK, UpdateTypeOK
    <3>1. CASE win'[w] = win[w]
      BY <2>1, <2>2, <3>0, <3>1 DEF WindowOK
    <3>2. CASE /\ Attached(w)
               /\ \E st \in {"offline", "idle"} : win'[w] = [win[w] EXCEPT !.status = st]
               /\ win[w].status \in {"idle", "upToDate", "error", "offline"}
      <4>1. PICK st \in {"offline", "idle"} : win'[w] = [win[w] EXCEPT !.status = st]
        BY <3>2
      <4> DEFINE s == [win[w] EXCEPT !.status = st]
      <4>2. s \in WindowStates
        BY <3>0 DEF WindowStates, UpdateStatuses
      <4>3. SameUpdate(win[w], s) /\ s.status = st /\ s.flight = win[w].flight /\ s.shaken = win[w].shaken
        BY <3>0, <4>2 DEF SameUpdate, SamePage, WindowStates
      <4> HIDE DEF s
      <4>4. PageOK(s, inbox[w], active)
        BY <3>0, <3>2, <4>3, SamePageOK DEF Attached
      <4>5. OfferOK(s, inbox[w], HasUpdate)
        BY <3>0, <3>2, <4>3 DEF OfferOK, Offered, Attached
      <4>6. win'[w] = s
        BY <4>1 DEF s
      <4> QED
        BY <2>1, <2>2, <4>2, <4>4, <4>5, <4>6 DEF WindowOK
    <3>3. win'[w] = IF ~Attached(w) THEN win[w]
                    ELSE IF online
                    THEN [win[w] EXCEPT !.status = IF @ \in {"idle", "upToDate", "error"} THEN "offline" ELSE @]
                    ELSE [win[w] EXCEPT !.status = IF @ = "offline" THEN "idle" ELSE @]
      BY <1>6 DEF ConnectionChanges
    <3>4. [win[w] EXCEPT !.status = win[w].status] = win[w]
      BY <3>0 DEF WindowStates
    <3> QED
      BY <3>1, <3>2, <3>3, <3>4
  <2>4. win' \in [Windows -> WindowStates]
    <3>1. win' = [w \in Windows |-> win'[w]]
      BY <1>6 DEF ConnectionChanges
    <3> QED
      BY <2>3, <3>1
  <2>5. online' \in BOOLEAN
    BY <2>1
  <2>6. UpdateTypeOK'
    BY <2>1, <2>4, <2>5 DEF UpdateTypeOK
  <2> QED
    BY <2>2, <2>3, <2>6 DEF UpdateInv
<1> QED
  BY <1>1, <1>2, <1>3, <1>4, <1>5, <1>6

\* Every step keeps the types and the invariant.
LEMMA UpdateStep == UpdateTypeOK /\ UpdateInv /\ [UpdateNext]_updateVars => UpdateTypeOK' /\ UpdateInv'
<1> SUFFICES ASSUME UpdateTypeOK, UpdateInv, [UpdateNext]_updateVars PROVE UpdateTypeOK' /\ UpdateInv'
  OBVIOUS
<1>1. CASE Deploy \/ InstallDone \/ InstallFails \/ Activate \/ ConnectionChanges
  BY <1>1, RegistrationSteps
<1>2. ASSUME NEW w \in Windows,
             \/ OpenWindow(w) \/ CloseWindow(w) \/ Attach(w)
             \/ \E manual \in BOOLEAN : Check(w, manual)
             \/ UpdateAnswered(w) \/ InstallAwaited(w) \/ UpdateFails(w)
             \/ ApplyUpdate(w) \/ ActivationTimeout(w)
             \/ InstalledEvent(w) \/ RedundantEvent(w) \/ ControllerEvent(w)
      PROVE UpdateTypeOK' /\ UpdateInv'
  <2>1. WindowSteps(w) /\ UpdateInv'
    BY <1>2, OpeningSteps, CheckSteps, ApplySteps, EventSteps
  <2>2. UNCHANGED <<deployed, active, waiting, online>> /\ installing' \in {installing, deployed}
    BY <1>2 DEF OpenWindow, CloseWindow, Attach, Check, UpdateAnswered, InstallAwaited, UpdateFails, ApplyUpdate,
                ActivationTimeout, InstalledEvent, RedundantEvent, ControllerEvent, Handles
  <2>3. UpdateTypeOK'
    BY <2>1, <2>2 DEF UpdateTypeOK, WindowSteps, Boxes
  <2> QED
    BY <2>1, <2>3
<1>3. CASE UNCHANGED updateVars
  BY <1>3 DEF updateVars, UpdateTypeOK, UpdateInv, BuildsGrow, WindowOK, HasUpdate
<1> QED
  BY <1>1, <1>2, <1>3 DEF UpdateNext

\* The types and the invariant hold from the start on.
THEOREM UpdateTyped == UpdateSpec => [](UpdateTypeOK /\ UpdateInv)
<1>1. ASSUME UpdateInit PROVE UpdateTypeOK /\ UpdateInv
  <2>1. online \in BOOLEAN
    BY <1>1, Zenon DEF UpdateInit
  <2>2. UpdateTypeOK
    BY <1>1, <2>1, ClosedPage DEF UpdateInit, UpdateTypeOK
  <2>3. HasUpdate \in BOOLEAN
    BY DEF HasUpdate
  <2>4. \A w \in Windows : win[w] = ClosedWindow /\ inbox[w] = {}
    BY <1>1 DEF UpdateInit
  <2>5. BuildsGrow
    BY <1>1 DEF UpdateInit, BuildsGrow
  <2>6. \A w \in Windows : WindowOK(w)
    BY <2>2, <2>3, <2>4, LoadedPage DEF WindowOK
  <2> QED
    BY <2>2, <2>5, <2>6 DEF UpdateInv
<1> QED
  BY <1>1, UpdateStep, PTL DEF UpdateSpec

\* A window that runs an old build says so, however many windows ask for the
\* update and in whatever order the events reach them.
THEOREM OldWindowAlwaysTold == UpdateSpec => []OldWindowIsTold
<1>1. UpdateInv => OldWindowIsTold
  BY DEF UpdateInv, WindowOK, PageOK, ToldOf, OldWindowIsTold, Attached
<1> QED
  BY <1>1, UpdateTyped, PTL

\* A worker that waits is offered in every window with nothing under way.
THEOREM UpdateAlwaysOffered == UpdateSpec => []UpdateIsOffered
<1>1. UpdateInv => UpdateIsOffered
  BY DEF UpdateInv, WindowOK, OfferOK, Offered, UpdateIsOffered, Attached
<1> QED
  BY <1>1, UpdateTyped, PTL

\* No window is reloaded for nothing: a reload always brings a newer build.
THEOREM ReloadAlwaysBringsNewBuild == UpdateSpec => ReloadBringsNewBuild
<1> DEFINE Newer == \A w \in Windows : Attached(w) /\ ~win[w].missed /\ win'[w].open /\ ~win'[w].attached =>
                      win'[w].build > win[w].build
<1>1. UpdateTypeOK /\ UpdateInv /\ [UpdateNext]_updateVars => Newer
  <2> SUFFICES ASSUME UpdateTypeOK, UpdateInv, [UpdateNext]_updateVars,
                      NEW w \in Windows, Attached(w), ~win[w].missed, win'[w].open, ~win'[w].attached
               PROVE win'[w].build > win[w].build
    OBVIOUS
  <2>0. /\ win[w] \in WindowStates /\ win[w].open /\ win[w].attached
        /\ win[w].build <= active /\ ToldOf(win[w], inbox[w], active)
        /\ active \in Nat /\ win[w].build \in Nat
    BY DEF UpdateTypeOK, UpdateInv, WindowOK, PageOK, Attached, WindowStates
  <2>1. ASSUME Reloads(w), win[w].build < active PROVE win'[w].build > win[w].build
    <3>1. win'[w] = Loaded
      BY <2>1 DEF Reloads, UpdateTypeOK
    <3> QED
      BY <2>0, <2>1, <3>1, LoadedPage
  <2>2. ASSUME NEW s, SameUpdate(win[w], s), win'[w] = s PROVE FALSE
    BY <2>0, <2>2 DEF SameUpdate
  <2>3. ASSUME NEW u \in Windows \ {w}, WindowSteps(u) PROVE FALSE
    BY <2>0, <2>3 DEF WindowSteps, UpdateTypeOK
  <2>4. ASSUME NEW u \in Windows,
               \/ OpenWindow(u) \/ CloseWindow(u) \/ Attach(u)
               \/ \E manual \in BOOLEAN : Check(u, manual)
               \/ UpdateAnswered(u) \/ InstallAwaited(u) \/ UpdateFails(u)
               \/ ApplyUpdate(u) \/ ActivationTimeout(u)
               \/ InstalledEvent(u) \/ RedundantEvent(u) \/ ControllerEvent(u)
        PROVE u = w
    <3>1. WindowSteps(u)
      BY <2>4, OpeningSteps, CheckSteps, ApplySteps, EventSteps
    <3> QED
      BY <2>3, <3>1
  <2>5. ASSUME OpenWindow(w) \/ CloseWindow(w) PROVE FALSE
    BY <2>0, <2>5, ClosedPage DEF OpenWindow, CloseWindow, UpdateTypeOK
  <2>6. ASSUME Attach(w) PROVE FALSE
    BY <2>0, <2>6 DEF Attach
  <2>7. ASSUME NEW manual \in BOOLEAN, Check(w, manual) PROVE FALSE
    <3>1. CASE win[w].flight = "none"
      <4>1. win'[w] = Checked(win[w], manual)
        BY <2>7, <3>1 DEF Check, UpdateTypeOK
      <4> QED
        BY <2>0, <2>2, <3>1, <4>1, CheckedPage
    <3>2. CASE win[w].flight # "none"
      <4>1. win'[w] = [win[w] EXCEPT !.queued = @ \/ (manual /\ ~win[w].manual)]
        BY <2>7, <3>2 DEF Check, UpdateTypeOK
      <4> QED
        BY <2>0, <4>1 DEF WindowStates
    <3> QED
      BY <3>1, <3>2
  <2>8. ASSUME UpdateAnswered(w) PROVE FALSE
    BY <2>0, <2>8 DEF UpdateAnswered, UpdateTypeOK, WindowStates
  <2>9. ASSUME NEW r \in WindowStates, r.attached, win'[w] = Ended(r) PROVE FALSE
    BY <2>9, EndedPage DEF SameUpdate
  <2>10. ASSUME InstallAwaited(w) PROVE FALSE
    <3> DEFINE st == IF HasUpdate THEN "updateAvailable"
                     ELSE IF installing # 0 THEN win[w].status ELSE "upToDate"
               r == [win[w] EXCEPT !.status = st]
    <3>1. win'[w] = Ended(r)
      BY <2>10 DEF InstallAwaited, UpdateTypeOK
    <3>2. st \in UpdateStatuses
      BY <2>0 DEF WindowStates, UpdateStatuses
    <3> HIDE DEF st
    <3>3. r \in WindowStates /\ r.attached
      BY <2>0, <3>2 DEF WindowStates
    <3> HIDE DEF r
    <3> QED
      BY <2>9, <3>1, <3>3
  <2>11. ASSUME UpdateFails(w) PROVE FALSE
    <3> DEFINE st == IF ~online THEN "offline"
                     ELSE IF win[w].manual THEN "error"
                     ELSE IF win[w].prev \in {"idle", "upToDate", "offline", "error"}
                     THEN win[w].prev ELSE "idle"
               r == [win[w] EXCEPT !.shaken = @ \/ HasUpdate, !.status = st]
    <3>1. win'[w] = Ended(r)
      BY <2>11 DEF UpdateFails, UpdateTypeOK
    <3>2. st \in UpdateStatuses
      BY DEF UpdateStatuses
    <3> HIDE DEF st
    <3>3. r \in WindowStates /\ r.attached
      BY <2>0, <3>2 DEF WindowStates
    <3> HIDE DEF r
    <3> QED
      BY <2>9, <3>1, <3>3
  <2>12. ASSUME ApplyUpdate(w) PROVE win'[w].build > win[w].build
    <3>1. CASE Reloads(w) /\ (win[w].status = "reloadRequired" \/ win[w].changed)
      BY <2>0, <2>1, <3>1 DEF ToldOf
    <3>2. CASE win[w].flight = "none" /\ win' = [win EXCEPT ![w] = Checked(@, TRUE)]
      <4>1. TRUE \in BOOLEAN /\ win'[w] = Checked(win[w], TRUE)
        BY <3>2 DEF UpdateTypeOK
      <4> QED
        BY <2>0, <2>2, <3>2, <4>1, CheckedPage
    <3>3. CASE win' = [win EXCEPT ![w].status = "updating", ![w].target = waiting]
      <4>1. win'[w] = [win[w] EXCEPT !.status = "updating", !.target = waiting]
        BY <3>3 DEF UpdateTypeOK
      <4> QED
        BY <2>0, <4>1 DEF WindowStates
    <3> QED
      BY <2>12, <3>1, <3>2, <3>3 DEF ApplyUpdate
  <2>13. ASSUME ActivationTimeout(w) PROVE win'[w].build > win[w].build
    <3>1. CASE TookOver(w) /\ Reloads(w)
      <4>1. win[w].build < active
        BY <2>0, <2>13, <3>1 DEF ToldOf, TookOver, ActivationTimeout
      <4> QED
        BY <2>1, <3>1, <4>1
    <3>2. CASE win' = [win EXCEPT ![w] = NotApplied(@)]
      <4>1. win'[w] = [win[w] EXCEPT !.target = 0, !.status = IF HasUpdate THEN "updateAvailable" ELSE "error"]
        BY <3>2 DEF NotApplied, UpdateTypeOK
      <4> QED
        BY <2>0, <4>1 DEF WindowStates
    <3> QED
      BY <2>13, <3>1, <3>2 DEF ActivationTimeout
  <2>14. ASSUME InstalledEvent(w) PROVE FALSE
    <3>1. win'[w] = Synced(win[w])
      BY <2>14 DEF InstalledEvent, UpdateTypeOK
    <3> QED
      BY <2>0, <2>2, <3>1, SyncedPage
  <2>15. ASSUME RedundantEvent(w) PROVE FALSE
    BY <2>0, <2>15 DEF RedundantEvent, UpdateTypeOK, WindowStates
  <2>16. ASSUME ControllerEvent(w) PROVE win'[w].build > win[w].build
    <3>1. CASE Reloads(w)
      BY <2>0, <2>1, <2>16, <3>1 DEF ToldOf, ControllerEvent
    <3>2. CASE win' = [win EXCEPT ![w] = ControllerChanged(@)]
      <4>1. win'[w].attached = win[w].attached
        BY <2>0, <3>2 DEF ControllerChanged, UpdateTypeOK, WindowStates
      <4> QED
        BY <2>0, <4>1
    <3> QED
      BY <2>16, <3>1, <3>2 DEF ControllerEvent
  <2>17. ASSUME Deploy \/ InstallDone \/ InstallFails \/ Activate \/ ConnectionChanges PROVE FALSE
    <3>1. CASE win'[w] = win[w]
      BY <2>0, <3>1
    <3>2. CASE \E b \in {installing, waiting} : ClaimsWindows(b)
      <4>1. win'[w] = [win[w] EXCEPT !.controlled = TRUE, !.missed = @ \/ ~win[w].attached]
        BY <2>0, <3>2 DEF ClaimsWindows
      <4> QED
        BY <2>0, <4>1 DEF WindowStates
    <3>3. CASE ConnectionChanges
      <4>1. win'[w].attached = win[w].attached
        BY <2>0, <3>3 DEF ConnectionChanges, WindowStates, Attached
      <4> QED
        BY <2>0, <4>1
    <3> QED
      BY <2>17, <3>1, <3>2, <3>3 DEF Deploy, InstallDone, InstallFails, Activate
  <2>18. ASSUME UNCHANGED updateVars PROVE FALSE
    BY <2>0, <2>18 DEF updateVars
  <2> QED
    BY <2>4, <2>5, <2>6, <2>7, <2>8, <2>10, <2>11, <2>12, <2>13, <2>14, <2>15, <2>16, <2>17, <2>18
    DEF UpdateNext
<1>2. UpdateTypeOK /\ UpdateInv /\ [UpdateNext]_updateVars => [Newer]_updateVars
  BY <1>1
<1> HIDE DEF Newer
<1>3. UpdateSpec => [][Newer]_updateVars
  BY <1>2, UpdateTyped, PTL DEF UpdateSpec
<1> QED
  BY <1>3 DEF ReloadBringsNewBuild, Newer
=============================================================================
