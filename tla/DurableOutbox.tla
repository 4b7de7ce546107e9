--------------------------- MODULE DurableOutbox ---------------------------
(***************************************************************************)
(* What a durable queue of offline work promises, without tabs, batches,   *)
(* requests or logins: the comment at the top of                           *)
(* frontend/src/offline/queue.js ("removed only once the server            *)
(* acknowledges it").  OfflineQueue implements it.                         *)
(***************************************************************************)
CONSTANT Ops          \* operations

VARIABLES saved,      \* operations the student has recorded
          held,       \* operations stored on the device
          delivered,  \* operations the server has a receipt for
          givenUp     \* refused operations the student dismissed

outbox == <<saved, held, delivered, givenUp>>

Init == saved = {} /\ held = {} /\ delivered = {} /\ givenUp = {}

Record(o) ==
  /\ o \notin saved
  /\ saved' = saved \cup {o}
  /\ held' = held \cup {o}
  /\ UNCHANGED <<delivered, givenUp>>

\* The server takes an operation, once.
Deliver(o) ==
  /\ o \in saved \ delivered
  /\ delivered' = delivered \cup {o}
  /\ UNCHANGED <<saved, held, givenUp>>

\* The device lets go of delivered work only.
Release(o) ==
  /\ o \in held \cap delivered
  /\ held' = held \ {o}
  /\ UNCHANGED <<saved, delivered, givenUp>>

\* A tab may write back recorded work it read earlier.
Reclaim(S) ==
  /\ S \subseteq saved
  /\ held' = held \cup S
  /\ UNCHANGED <<saved, delivered, givenUp>>

GiveUp(o) ==
  /\ o \in held
  /\ held' = held \ {o}
  /\ givenUp' = givenUp \cup {o}
  /\ UNCHANGED <<saved, delivered>>

Next == \/ \E o \in Ops : Record(o) \/ Deliver(o) \/ Release(o) \/ GiveUp(o)
        \/ \E S \in SUBSET Ops : Reclaim(S)

Spec == Init /\ [][Next]_outbox
=============================================================================
