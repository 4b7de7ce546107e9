---------------------------- MODULE MCConnected ----------------------------
(* What comes about in the end, for TLC: the queue is settled, and the     *)
(* connection is noticed.  The two parts share no state; a behaviour is    *)
(* one of either.                                                          *)
EXTENDS MCOfflineQueue, ApiClient

VARIABLE part

InQueue == part = "queue"
InClient == part = "client"

\* The page has been visited before: what the cookie does is left to the
\* student run.
ConnectedInit == part \in {"queue", "client"} /\ Init /\ ClientInit /\ csrfCookie = 1

ConnectedNext ==
  /\ UNCHANGED part
  /\ \/ InQueue /\ Next /\ UNCHANGED clientVars
     \/ InClient /\ ClientNext /\ UNCHANGED vars
     \* The page has made all its requests.
     \/ InClient /\ calls = MaxCalls /\ UNCHANGED <<vars, clientVars>>

ConnectedSpec ==
  /\ ConnectedInit
  /\ [][ConnectedNext]_<<part, vars, clientVars>>
  /\ InQueue => Fairness
  /\ InClient => ClientFairness

=============================================================================
