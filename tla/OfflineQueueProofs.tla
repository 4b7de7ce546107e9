------------------------- MODULE OfflineQueueProofs -------------------------
(***************************************************************************)
(* Proofs about OfflineQueue, for every script, every number of tabs and   *)
(* every bound.                                                            *)
(***************************************************************************)
EXTENDS OfflineQueue, TLAPS

(* Every operation names a key, a position and what it does. *)
LEMMA OpsFacts ==
  ASSUME NEW o \in Ops
  PROVE  KeyOf(o) \in Keys /\ o[2] \in Nat /\ What(o) \in Nat /\ o = <<KeyOf(o), o[2]>>
<1>1. PICK k \in Keys : o \in {k} \X (1..Len(Script[k]))
  BY DEF Ops
<1>2. o[1] = k /\ o[2] \in 1..Len(Script[k]) /\ o = <<o[1], o[2]>>
  BY <1>1
<1>3. Script[k] \in Seq(Nat)
  BY KeysAssumption
<1>4. Script[k][o[2]] \in Nat /\ o[2] \in Nat
  BY <1>2, <1>3
<1> QED
  BY <1>2, <1>4 DEF KeyOf, What

-----------------------------------------------------------------------------
(* Type correctness *)

USE DEF TypeOK

LEMMA IdleTabType == IdleTab \in TabType
BY DEF IdleTab, TabType, PCs

LEMMA NoReqType == NoReq \in ReqType
BY DEF NoReq, ReqType, NoAnswers

LEMMA SentReqType == ASSUME NEW B \in SUBSET Ops PROVE SentReq(B) \in ReqType
BY DEF SentReq, ReqType, NoAnswers

LEMMA MoveType ==
  ASSUME NEW r \in TabType, NEW pc \in PCs
  PROVE  [r EXCEPT !.pc = pc] \in TabType
BY DEF TabType

LEMMA MoveTabType ==
  ASSUME TypeOK, NEW t \in Tabs, NEW pc \in PCs
  PROVE  [tab EXCEPT ![t].pc = pc] \in [Tabs -> TabType]
<1>1. [tab[t] EXCEPT !.pc = pc] \in TabType
  BY MoveType
<1> QED
  BY <1>1

LEMMA BlockType ==
  ASSUME NEW r \in TabType, NEW k \in Keys
  PROVE  [r EXCEPT !.blocked = @ \cup {k}] \in TabType
BY DEF TabType

LEMMA AnswerType ==
  ASSUME NEW r \in ReqType, NEW list \in Lists, NEW o \in Ops
  PROVE  Answered(r, o, list) \in ReqType
<1>1. r.answer \in [Lists -> SUBSET Ops] /\ r.rest \ {o} \in SUBSET Ops
  BY DEF ReqType
<1>2. [r.answer EXCEPT ![list] = @ \cup {o}] \in [Lists -> SUBSET Ops]
  BY <1>1
<1> QED
  BY <1>1, <1>2 DEF ReqType, Answered

LEMMA TurnType ==
  ASSUME NEW r \in TabType, NEW S \in SUBSET Ops
  PROVE  TurnToBatch(r, S) \in TabType
BY DEF TurnToBatch, NextBatch, TabType, PCs

LEMMA TypeInit == Init => TypeOK
<1> SUFFICES ASSUME Init PROVE TypeOK
  OBVIOUS
<1>1. lease \in BOOLEAN /\ clearing \in BOOLEAN
  BY DEF Init
<1>2. tab \in [Tabs -> TabType] /\ req \in [Tabs -> ReqType]
  BY IdleTabType, NoReqType DEF Init
<1>3. log \in [Keys -> Seq(Nat)] /\ progress \in [Keys -> Nat]
  BY DEF Init
<1> QED
  BY <1>1, <1>2, <1>3 DEF Init, Accounts

LEMMA ScheduleRetryType ==
  ASSUME TypeOK, NEW S \in SUBSET Ops, ScheduleRetry(S)
  PROVE  /\ status' \in [Ops -> Open \cup {"none", "failed"}]
         /\ resting' \subseteq Ops
BY DEF ScheduleRetry, Open

LEMMA StopType ==
  ASSUME TypeOK, NEW t \in Tabs, Stop(t)
  PROVE  tab' \in [Tabs -> TabType]
BY IdleTabType DEF Stop

LEMMA KeepBatchType ==
  ASSUME TypeOK, NEW t \in Tabs, KeepBatch(t)
  PROVE  /\ status' \in [Ops -> Open \cup {"none", "failed"}]
         /\ resting' \subseteq Ops
         /\ tab' \in [Tabs -> TabType]
<1>1. tab[t].batch \in SUBSET Ops
  BY DEF TabType
<1> QED
  BY <1>1, ScheduleRetryType, StopType DEF KeepBatch

LEMMA AbandonType ==
  ASSUME TypeOK, NEW t \in Tabs, Abandon(t)
  PROVE  ghosts' \subseteq SUBSET Ops
<1>1. req[t].rest \in SUBSET Ops
  BY DEF ReqType
<1> QED
  BY <1>1 DEF Abandon

LEMMA ReplayType ==
  ASSUME TypeOK, NEW o \in Ops, NEW list \in Lists, Replay(o, list)
  PROVE  /\ receipts' \subseteq Ops
         /\ progress' \in [Keys -> Nat]
         /\ log' \in [Keys -> Seq(Nat)]
         /\ refused' \subseteq Ops
         /\ temporary' \in Nat
<1>1. KeyOf(o) \in Keys /\ o[2] \in Nat /\ What(o) \in Nat
  BY OpsFacts
<1>2. Append(log[KeyOf(o)], o[2]) \in Seq(Nat)
  BY <1>1
<1>3. CASE list = "accepted"
  BY <1>1, <1>2, <1>3 DEF Replay, AcceptReplay
<1>4. CASE list # "accepted"
  BY <1>4 DEF Replay
<1> QED
  BY <1>3, <1>4

LEMMA TypeStep == TypeOK /\ [Next]_vars => TypeOK'
<1> SUFFICES ASSUME TypeOK, [Next]_vars PROVE TypeOK'
  OBVIOUS
<1> USE DEF dbVars, loginVars, serverVars
<1>1. ASSUME NEW o \in Ops, EnqueueOperation(o) PROVE TypeOK'
  BY <1>1 DEF EnqueueOperation, Open
<1>2. ASSUME NEW o \in Ops, DismissFailedOperation(o) PROVE TypeOK'
  BY <1>2 DEF DismissFailedOperation, Open
<1>3. ASSUME NEW o \in Ops, BackoffEnds(o) PROVE TypeOK'
  BY <1>3 DEF BackoffEnds
<1>4. CASE SignOut
  BY <1>4 DEF SignOut
<1>5. CASE ForgetOfflineUser
  BY <1>5 DEF ForgetOfflineUser
<1>6. CASE DeleteLease
  BY <1>6 DEF DeleteLease
<1>7. CASE RememberOfflineUser
  BY <1>7 DEF RememberOfflineUser
<1>8. ASSUME NEW a \in Accounts, SignIn(a) PROVE TypeOK'
  BY <1>8 DEF SignIn
<1>9. ASSUME NEW t \in Tabs, NEW force \in Forces, SyncStart(t, force) PROVE TypeOK'
  <2>1. [IdleTab EXCEPT !.pc = "lease", !.rev = rev, !.force = force] \in TabType
    BY ForceAssumption DEF IdleTab, TabType, PCs
  <2> QED
    BY <1>9, <2>1 DEF SyncStart
<1>10. ASSUME NEW t \in Tabs, RunStep(t) PROVE TypeOK'
  <2> USE DEF PCs
  <2>0. tab[t] \in TabType /\ req[t] \in ReqType
    OBVIOUS
  <2>1. CASE LeaseSaved(t)
    <3>1. tab' \in [Tabs -> TabType]
      BY <2>1, StopType, MoveTabType, ZenonT(40) DEF LeaseSaved
    <3>2. lease' \in BOOLEAN
      BY <2>1 DEF LeaseSaved
    <3> QED
      BY <2>1, <3>1, <3>2 DEF LeaseSaved
  <2>2. CASE LeaseFailed(t)
    <3>1. tab' \in [Tabs -> TabType]
      BY <2>2, StopType, MoveTabType, ZenonT(40) DEF LeaseFailed
    <3>2. faults' \in Nat
      BY <2>2 DEF LeaseFailed
    <3> QED
      BY <2>2, <3>1, <3>2 DEF LeaseFailed
  <2>3. CASE FlushRead(t)
    <3> DEFINE pending == PendingToFlush(tab[t].force)
               flush == [tab[t] EXCEPT !.late = pending \cap resting]
    <3>1. pending \in SUBSET Ops
      BY DEF PendingToFlush
    <3>2. flush \in TabType
      BY <2>0 DEF TabType
    <3>3. TurnToBatch(flush, pending) \in TabType
      BY <3>1, <3>2, TurnType
    <3>4. tab' \in [Tabs -> TabType]
      BY <2>3, <3>3, StopType DEF FlushRead
    <3> QED
      BY <2>3, <3>4 DEF FlushRead
  <2>4. CASE MarkSyncing(t)
    <3>1. tab' \in [Tabs -> TabType]
      BY <2>4, StopType, MoveTabType, ZenonT(40) DEF MarkSyncing
    <3>2. /\ status' \in [Ops -> Open \cup {"none", "failed"}]
          /\ resting' \subseteq Ops
      BY <2>0, <2>4 DEF MarkSyncing, Open, TabType
    <3> QED
      BY <2>4, <3>1, <3>2 DEF MarkSyncing
  <2>5. CASE SendBatch(t)
    <3>1. CASE IsCurrent(t)
      <4>1. SentReq(tab[t].batch) \in ReqType
        BY <2>0, SentReqType DEF TabType
      <4>2. tab' \in [Tabs -> TabType]
        BY <2>5, <3>1, MoveTabType, ZenonT(40) DEF SendBatch
      <4> QED
        BY <2>5, <3>1, <4>1, <4>2 DEF SendBatch
    <3>2. CASE ~IsCurrent(t)
      BY <2>5, <3>2, KeepBatchType DEF SendBatch
    <3> QED
      BY <3>1, <3>2
  <2>6. CASE AdmitBatch(t)
    BY <2>0, <2>6 DEF AdmitBatch, ReqType
  <2>7. CASE RefuseBatch(t)
    BY <2>7, KeepBatchType, NoReqType DEF RefuseBatch
  <2>8. CASE ReplayNext(t)
    <3>1. PICK o \in req[t].rest, list \in Lists :
            /\ Replay(o, list)
            /\ foreign' = IF req[t].as = "owner" THEN foreign ELSE foreign \cup {o}
            /\ req' = [req EXCEPT ![t] = Answered(req[t], o, list)]
            /\ UNCHANGED <<dbVars, loginVars, tab, ghosts, dismissed, faults>>
      BY <2>8 DEF ReplayNext
    <3>2. o \in Ops
      BY <2>0 DEF ReqType
    <3>3. Answered(req[t], o, list) \in ReqType
      BY <2>0, <3>2, AnswerType
    <3>4. req' \in [Tabs -> ReqType]
      BY <3>1, <3>3
    <3> QED
      BY <3>1, <3>2, <3>4, ReplayType
  <2>9. CASE RequestFailed(t)
    BY <2>9, KeepBatchType, AbandonType, NoReqType DEF RequestFailed
  <2>10. CASE RequestRepeated(t)
    BY <2>0, <2>10, AbandonType, SentReqType DEF RequestRepeated, TabType
  <2>11. CASE ResponseArrives(t)
    <3>1. tab' \in [Tabs -> TabType]
      BY <2>11, StopType, MoveTabType DEF ResponseArrives
    <3>2. req' \in [Tabs -> ReqType]
      BY <2>11, NoReqType DEF ResponseArrives
    <3> QED
      BY <2>11, <3>1, <3>2 DEF ResponseArrives
  <2>12. CASE ApplyAccepted(t)
    <3>1. PICK o \in req[t].answer["accepted"] :
            /\ status' = [status EXCEPT ![o] = "none"]
            /\ resting' = resting \ {o}
            /\ req' = [req EXCEPT ![t].answer["accepted"] = @ \ {o}]
            /\ UNCHANGED <<seq, lastSeq, loginVars, tab, ghosts, serverVars,
                           dismissed, faults>>
      BY <2>12 DEF ApplyAccepted
    <3>2. req' \in [Tabs -> ReqType]
      BY <2>0, <3>1 DEF ReqType, Lists
    <3> QED
      BY <3>1, <3>2
  <2>13. CASE ApplyRejected(t)
    <3>1. PICK o \in Rejections(t) :
            /\ IF NotYet(t, o)
                 THEN /\ tab' = [tab EXCEPT ![t].blocked = @ \cup {KeyOf(o)}]
                      /\ ScheduleRetry({o})
                 ELSE /\ status' = [status EXCEPT ![o] = "failed"]
                      /\ resting' = resting \ {o}
                      /\ UNCHANGED tab
            /\ req' = [req EXCEPT ![t].answer = [list \in Lists |-> @[list] \ {o}]]
            /\ UNCHANGED <<seq, lastSeq, loginVars, ghosts, serverVars, dismissed,
                           faults>>
      BY <2>13 DEF ApplyRejected
    <3>2. o \in Ops /\ KeyOf(o) \in Keys
      <4>1. o \in Ops
        BY <2>0 DEF ReqType, Rejections
      <4> QED
        BY <4>1, OpsFacts
    <3>3. req' \in [Tabs -> ReqType]
      BY <2>0, <3>1 DEF ReqType
    <3>4. CASE NotYet(t, o)
      <4>0. [tab[t] EXCEPT !.blocked = @ \cup {KeyOf(o)}] \in TabType
        BY <2>0, <3>2, BlockType
      <4>1. tab' \in [Tabs -> TabType]
        BY <3>1, <3>4, <4>0
      <4>2. ScheduleRetry({o}) /\ {o} \in SUBSET Ops
        BY <3>1, <3>2, <3>4
      <4> QED
        BY <3>1, <3>3, <4>1, <4>2, ScheduleRetryType
    <3>5. CASE ~NotYet(t, o)
      BY <3>1, <3>2, <3>3, <3>5
    <3> QED
      BY <3>4, <3>5
  <2>14. CASE BatchDone(t)
    <3>1. TurnToBatch(tab[t], tab[t].queue) \in TabType
      <4>1. tab[t].queue \in SUBSET Ops
        BY <2>0 DEF TabType
      <4> QED
        BY <2>0, <4>1, TurnType
    <3>2. tab' \in [Tabs -> TabType]
      BY <2>14, <3>1, StopType DEF BatchDone
    <3> QED
      BY <2>14, <3>2, NoReqType DEF BatchDone
  <2>15. CASE TabCloses(t)
    BY <2>15, StopType, AbandonType, NoReqType DEF TabCloses
  <2> QED
    BY <1>10, <2>1, <2>2, <2>3, <2>4, <2>5, <2>6, <2>7, <2>8, <2>9, <2>10, <2>11,
       <2>12, <2>13, <2>14, <2>15 DEF RunStep
<1>11. ASSUME NEW g \in ghosts, ReplayGhost(g) PROVE TypeOK'
  <2>1. PICK o \in g, list \in Lists :
          /\ Replay(o, list)
          /\ ghosts' = (ghosts \ {g}) \cup ({g \ {o}} \ {{}})
          /\ UNCHANGED <<dbVars, loginVars, tab, req, foreign, dismissed, faults>>
    BY <1>11 DEF ReplayGhost
  <2>2. o \in Ops
    OBVIOUS
  <2>3. ghosts' \subseteq SUBSET Ops
    BY <2>1
  <2> QED
    BY <2>1, <2>2, <2>3, ReplayType
<1>12. CASE UNCHANGED vars
  BY <1>12 DEF vars
<1> QED
  BY <1>1, <1>2, <1>3, <1>4, <1>5, <1>6, <1>7, <1>8, <1>9, <1>10, <1>11, <1>12 DEF Next

(* Every reachable state of the queue, its tabs and the server is well typed. *)
THEOREM TypeCorrect == Spec => []TypeOK
BY TypeInit, TypeStep, PTL DEF Spec

-----------------------------------------------------------------------------
(***************************************************************************)
(* The inductive invariant.  Only recorded operations travel: what a tab   *)
(* has read, what a request carries or an abandoned one still holds, and   *)
(* what the server has receipts for.  An operation is in the accepted list *)
(* of a response only when its receipt is stored.  NoLostWork is not       *)
(* inductive without the second part, which the removal of an accepted     *)
(* operation rests on.                                                     *)
(***************************************************************************)
TabKnown == \A t \in Tabs : tab[t].queue \subseteq Saved /\ tab[t].batch \subseteq Saved
ReqKnown == \A t \in Tabs : /\ req[t].rest \subseteq Saved
                           /\ \A list \in Lists : req[t].answer[list] \subseteq Saved
GhostKnown == \A g \in ghosts : g \subseteq Saved
DeviceKnown == Held \subseteq Saved
ServerKnown == receipts \subseteq Saved
Acknowledged == \A t \in Tabs : req[t].answer["accepted"] \subseteq receipts

IInv == /\ TypeOK
        /\ TabKnown /\ ReqKnown /\ GhostKnown /\ DeviceKnown /\ ServerKnown
        /\ Acknowledged
        /\ NoLostWork

LEMMA IInvInit == Init => IInv
<1> SUFFICES ASSUME Init PROVE IInv
  OBVIOUS
<1>1. TypeOK
  BY TypeInit
<1>2. TabKnown
  BY DEF Init, TabKnown, IdleTab
<1>3. ReqKnown /\ Acknowledged
  BY DEF Init, ReqKnown, Acknowledged, NoReq, NoAnswers, Lists
<1>4. GhostKnown /\ DeviceKnown /\ ServerKnown /\ NoLostWork
  BY DEF Init, GhostKnown, DeviceKnown, ServerKnown, Held, NoLostWork
<1> QED
  BY <1>1, <1>2, <1>3, <1>4 DEF IInv

(* Recorded work stays recorded and receipts are never deleted. *)
LEMMA Monotone ==
  ASSUME TypeOK, [Next]_vars
  PROVE  Saved \subseteq Saved' /\ receipts \subseteq receipts'
<1> USE DEF dbVars, loginVars, serverVars, vars
<1>1. ASSUME NEW o \in Ops, EnqueueOperation(o)
      PROVE  Saved \subseteq Saved' /\ receipts \subseteq receipts'
  BY <1>1 DEF EnqueueOperation, Saved
<1>2. ASSUME NEW t \in Tabs, ReplayNext(t)
      PROVE  Saved \subseteq Saved' /\ receipts \subseteq receipts'
  BY <1>2 DEF ReplayNext, Replay, AcceptReplay, Saved
<1>3. ASSUME NEW g \in ghosts, ReplayGhost(g)
      PROVE  Saved \subseteq Saved' /\ receipts \subseteq receipts'
  BY <1>3 DEF ReplayGhost, Replay, AcceptReplay, Saved
<1>4. CASE UNCHANGED <<seq, receipts>>
  BY <1>4 DEF Saved
<1>5. ASSUME NEW t \in Tabs, RunStep(t), ~ReplayNext(t) PROVE UNCHANGED <<seq, receipts>>
  BY <1>5 DEF RunStep, LeaseSaved, LeaseFailed, FlushRead, MarkSyncing, SendBatch,
     AdmitBatch, RefuseBatch, RequestFailed, RequestRepeated, ResponseArrives,
     ApplyAccepted, ApplyRejected, BatchDone, TabCloses
<1>6. ASSUME NEW o \in Ops, DismissFailedOperation(o) \/ BackoffEnds(o)
      PROVE  UNCHANGED <<seq, receipts>>
  BY <1>6 DEF DismissFailedOperation, BackoffEnds
<1>7. CASE SignOut \/ ForgetOfflineUser \/ DeleteLease \/ RememberOfflineUser
  BY <1>4, <1>7 DEF SignOut, ForgetOfflineUser, DeleteLease, RememberOfflineUser
<1>8. ASSUME NEW a \in Accounts, SignIn(a) PROVE UNCHANGED <<seq, receipts>>
  BY <1>8 DEF SignIn
<1>9. ASSUME NEW t \in Tabs, NEW force \in Forces, SyncStart(t, force)
      PROVE  UNCHANGED <<seq, receipts>>
  BY <1>9 DEF SyncStart
<1>10. CASE UNCHANGED vars
  BY <1>4, <1>10
<1> QED
  BY <1>1, <1>2, <1>3, <1>4, <1>5, <1>6, <1>7, <1>8, <1>9, <1>10 DEF Next

(* The steps that are not those of a run, by what they leave alone. *)
LEMMA OutsideRuns ==
  ASSUME [Next]_vars, \A t \in Tabs : ~RunStep(t)
  PROVE  /\ UNCHANGED req
         /\ (\A t \in Tabs, force \in Forces : ~SyncStart(t, force)) => UNCHANGED tab
         /\ (\A g \in ghosts : ~ReplayGhost(g)) => UNCHANGED <<ghosts, receipts>>
         /\ (\A o \in Ops : ~EnqueueOperation(o) /\ ~DismissFailedOperation(o))
              => UNCHANGED <<seq, status, dismissed>>
<1> USE DEF dbVars, loginVars, serverVars, vars
<1> QED
  BY DEF Next, EnqueueOperation, DismissFailedOperation, BackoffEnds, SignOut,
     ForgetOfflineUser, DeleteLease, RememberOfflineUser, SignIn, SyncStart,
     ReplayGhost

(* A tab learns of operations only by reading the device's database. *)
LEMMA TabKnownStep ==
  ASSUME IInv, [Next]_vars
  PROVE  TabKnown'
<1> USE DEF IInv
<1>1. Saved \subseteq Saved'
  BY Monotone
<1>2. SUFFICES ASSUME NEW x \in Tabs
               PROVE  tab'[x].queue \subseteq Saved /\ tab'[x].batch \subseteq Saved
  BY <1>1 DEF TabKnown
<1>3. tab[x].queue \subseteq Saved /\ tab[x].batch \subseteq Saved
  BY DEF TabKnown
<1>4. CASE tab'[x] = tab[x]
  BY <1>3, <1>4
<1>5. CASE tab'[x].queue = {} /\ tab'[x].batch = {}
  BY <1>5
<1>6. ASSUME NEW t \in Tabs, Stop(t)
      PROVE  tab'[x] = tab[x] \/ (tab'[x].queue = {} /\ tab'[x].batch = {})
  BY <1>6 DEF Stop, IdleTab
<1>7. ASSUME NEW t \in Tabs, NEW pc, tab' = [tab EXCEPT ![t].pc = pc]
      PROVE  tab'[x].queue \subseteq Saved /\ tab'[x].batch \subseteq Saved
  BY <1>3, <1>7 DEF TabType
<1>8. ASSUME NEW t \in Tabs, NEW r \in TabType, NEW S \in SUBSET Saved,
             tab' = [tab EXCEPT ![t] = TurnToBatch(r, S)]
      PROVE  tab'[x].queue \subseteq Saved /\ tab'[x].batch \subseteq Saved
  BY <1>3, <1>8 DEF TurnToBatch, NextBatch, TabType
<1>9. ASSUME NEW t \in Tabs, RunStep(t)
      PROVE  tab'[x].queue \subseteq Saved /\ tab'[x].batch \subseteq Saved
  <2>1. CASE LeaseSaved(t) \/ LeaseFailed(t)
    BY <2>1, <1>4, <1>5, <1>6, <1>7 DEF LeaseSaved, LeaseFailed
  <2>2. CASE FlushRead(t)
    <3> DEFINE pending == PendingToFlush(tab[t].force)
               flush == [tab[t] EXCEPT !.late = pending \cap resting]
    <3>1. pending \in SUBSET Saved
      BY DEF PendingToFlush, DeviceKnown, Held, Open
    <3>2. flush \in TabType
      <4>1. tab[t] \in TabType /\ pending \cap resting \in SUBSET Ops
        OBVIOUS
      <4> QED
        BY <4>1 DEF TabType
    <3> QED
      BY <2>2, <3>1, <3>2, <1>4, <1>5, <1>6, <1>8 DEF FlushRead
  <2>3. CASE MarkSyncing(t) \/ SendBatch(t) \/ ResponseArrives(t)
    BY <2>3, <1>4, <1>5, <1>6, <1>7
       DEF MarkSyncing, SendBatch, ResponseArrives, KeepBatch
  <2>4. CASE RefuseBatch(t) \/ RequestFailed(t) \/ TabCloses(t)
    BY <2>4, <1>4, <1>5, <1>6 DEF RefuseBatch, RequestFailed, TabCloses, KeepBatch
  <2>5. CASE AdmitBatch(t) \/ ReplayNext(t) \/ RequestRepeated(t) \/ ApplyAccepted(t)
    BY <2>5, <1>4 DEF AdmitBatch, ReplayNext, RequestRepeated, ApplyAccepted
  <2>6. CASE ApplyRejected(t)
    <3>1. tab' = tab \/ \E o \in Ops : tab' = [tab EXCEPT ![t].blocked = @ \cup {KeyOf(o)}]
      BY <2>6 DEF ApplyRejected, Rejections, ReqType
    <3>2. tab'[x].queue = tab[x].queue /\ tab'[x].batch = tab[x].batch
      <4>1. tab[x] \in TabType /\ tab[t] \in TabType
        OBVIOUS
      <4> QED
        BY <3>1, <4>1 DEF TabType
    <3> QED
      BY <3>2, <1>3
  <2>7. CASE BatchDone(t)
    <3>1. tab[t].queue \in SUBSET Saved /\ tab[t] \in TabType
      BY DEF TabKnown
    <3> QED
      BY <2>7, <3>1, <1>4, <1>5, <1>6, <1>8 DEF BatchDone
  <2> QED
    BY <1>9, <2>1, <2>2, <2>3, <2>4, <2>5, <2>6, <2>7 DEF RunStep
<1>10. ASSUME NEW t \in Tabs, NEW force \in Forces, SyncStart(t, force)
       PROVE  tab'[x].queue \subseteq Saved /\ tab'[x].batch \subseteq Saved
  BY <1>3, <1>10 DEF SyncStart, IdleTab
<1> QED
  BY <1>4, <1>9, <1>10, OutsideRuns

(* A request carries its tab's batch and the answers are about what it carries. *)
LEMMA ReqKnownStep ==
  ASSUME IInv, [Next]_vars
  PROVE  ReqKnown'
<1> USE DEF IInv
<1> DEFINE Fine(r) == /\ r.rest \subseteq Saved
                      /\ \A list \in Lists : r.answer[list] \subseteq Saved
<1>1. Saved \subseteq Saved'
  BY Monotone
<1>2. SUFFICES ASSUME NEW x \in Tabs PROVE Fine(req'[x])
  BY <1>1 DEF ReqKnown
<1>3. Fine(req[x]) /\ req[x] \in ReqType
  BY DEF ReqKnown
<1>4. Fine(NoReq)
  BY DEF NoReq, NoAnswers
<1>5. ASSUME NEW t \in Tabs PROVE Fine(SentReq(tab[t].batch))
  BY DEF SentReq, NoAnswers, TabKnown
<1> HIDE DEF Fine
<1>6. ASSUME NEW t \in Tabs, RunStep(t) PROVE Fine(req'[x])
  <2>1. CASE UNCHANGED req
    BY <1>3, <2>1
  <2>2. CASE req' = [req EXCEPT ![t] = NoReq]
    BY <1>3, <1>4, <2>2
  <2>3. CASE req' = [req EXCEPT ![t] = SentReq(tab[t].batch)]
    BY <1>3, <1>5, <2>3
  <2>4. CASE AdmitBatch(t)
    <3>1. req' = [req EXCEPT ![t].as = cookie]
      BY <2>4 DEF AdmitBatch
    <3> QED
      BY <3>1, <1>3 DEF Fine, ReqType
  <2>5. CASE ReplayNext(t)
    <3>1. PICK o \in req[t].rest, list \in Lists :
            req' = [req EXCEPT ![t] = Answered(req[t], o, list)]
      BY <2>5 DEF ReplayNext
    <3>2. Fine(req[t]) /\ req[t].answer \in [Lists -> SUBSET Ops]
      BY DEF ReqKnown, Fine, ReqType
    <3>3. Fine(Answered(req[t], o, list))
      BY <3>2 DEF Fine, Answered
    <3> QED
      BY <3>1, <3>3, <1>3
  <2>6. CASE ApplyAccepted(t)
    <3>1. PICK o : req' = [req EXCEPT ![t].answer["accepted"] = @ \ {o}]
      BY <2>6 DEF ApplyAccepted
    <3>2. req[x].answer \in [Lists -> SUBSET Ops]
      BY DEF ReqType
    <3> QED
      BY <3>1, <3>2, <1>3 DEF Fine, ReqType
  <2>7. CASE ApplyRejected(t)
    <3>1. PICK o : req' = [req EXCEPT ![t].answer = [list \in Lists |-> @[list] \ {o}]]
      BY <2>7 DEF ApplyRejected
    <3> QED
      BY <3>1, <1>3 DEF Fine, ReqType
  <2> QED
    BY <1>6, <2>1, <2>2, <2>3, <2>4, <2>5, <2>6, <2>7
       DEF RunStep, LeaseSaved, LeaseFailed, FlushRead, MarkSyncing, SendBatch,
           RefuseBatch, RequestFailed, RequestRepeated, ResponseArrives, BatchDone,
           TabCloses, dbVars, loginVars, serverVars
<1> QED
  BY <1>3, <1>6, OutsideRuns

(* An abandoned request is the rest of one a tab was waiting for. *)
LEMMA GhostKnownStep ==
  ASSUME IInv, [Next]_vars
  PROVE  GhostKnown'
<1> USE DEF IInv
<1>1. Saved \subseteq Saved'
  BY Monotone
<1>2. SUFFICES ASSUME NEW h \in ghosts' PROVE h \subseteq Saved
  BY <1>1 DEF GhostKnown
<1>3. CASE h \in ghosts
  BY <1>3 DEF GhostKnown
<1>4. ASSUME NEW t \in Tabs, Abandon(t) PROVE h \subseteq Saved
  BY <1>3, <1>4 DEF Abandon, ReqKnown
<1>5. ASSUME NEW t \in Tabs, RunStep(t) PROVE h \subseteq Saved
  BY <1>3, <1>4, <1>5
     DEF RunStep, LeaseSaved, LeaseFailed, FlushRead, MarkSyncing, SendBatch,
         AdmitBatch, RefuseBatch, ReplayNext, RequestFailed, RequestRepeated,
         ResponseArrives, ApplyAccepted, ApplyRejected, BatchDone, TabCloses
<1>6. ASSUME NEW g \in ghosts, ReplayGhost(g) PROVE h \subseteq Saved
  BY <1>3, <1>6 DEF ReplayGhost, GhostKnown
<1> QED
  BY <1>3, <1>5, <1>6, OutsideRuns

(* The device holds recorded operations only. *)
LEMMA DeviceKnownStep ==
  ASSUME IInv, [Next]_vars
  PROVE  DeviceKnown'
<1> USE DEF IInv
<1>1. Saved \subseteq Saved'
  BY Monotone
<1>2. CASE UNCHANGED status
  BY <1>1, <1>2 DEF DeviceKnown, Held
<1>3. ASSUME NEW S \in SUBSET Saved, ScheduleRetry(S) PROVE DeviceKnown'
  BY <1>1, <1>3 DEF ScheduleRetry, DeviceKnown, Held
<1>4. ASSUME NEW o \in Ops, EnqueueOperation(o) PROVE DeviceKnown'
  BY <1>4 DEF EnqueueOperation, DeviceKnown, Held, Saved
<1>5. ASSUME NEW o \in Ops, DismissFailedOperation(o) PROVE DeviceKnown'
  BY <1>1, <1>5 DEF DismissFailedOperation, DeviceKnown, Held
<1>6. ASSUME NEW t \in Tabs, RunStep(t) PROVE DeviceKnown'
  <2>0. tab[t].batch \in SUBSET Saved
    BY DEF TabKnown
  <2>1. CASE KeepBatch(t)
    BY <1>3, <2>0, <2>1 DEF KeepBatch
  <2>2. CASE MarkSyncing(t)
    BY <1>1, <1>2, <2>0, <2>2 DEF MarkSyncing, DeviceKnown, Held
  <2>3. CASE ApplyAccepted(t)
    <3>1. PICK o \in req[t].answer["accepted"] : status' = [status EXCEPT ![o] = "none"]
      BY <2>3 DEF ApplyAccepted
    <3> QED
      BY <1>1, <3>1 DEF DeviceKnown, Held
  <2>4. CASE ApplyRejected(t)
    <3>1. PICK o \in Rejections(t) :
            ScheduleRetry({o}) \/ status' = [status EXCEPT ![o] = "failed"]
      BY <2>4 DEF ApplyRejected
    <3>2. o \in Saved
      BY DEF Rejections, ReqKnown
    <3> QED
      BY <1>1, <1>3, <3>1, <3>2 DEF DeviceKnown, Held
  <2> QED
    BY <1>2, <1>6, <2>1, <2>2, <2>3, <2>4
       DEF RunStep, LeaseSaved, LeaseFailed, FlushRead, SendBatch, AdmitBatch,
           RefuseBatch, ReplayNext, RequestFailed, RequestRepeated, ResponseArrives,
           BatchDone, TabCloses, dbVars
<1> QED
  BY <1>2, <1>4, <1>5, <1>6, OutsideRuns

(* What one replay does to the receipts. *)
LEMMA ReplayReceipts ==
  ASSUME NEW o, NEW list, Replay(o, list)
  PROVE  /\ receipts' \subseteq receipts \cup {o}
         /\ list = "accepted" => o \in receipts'
         /\ list # "accepted" => receipts' = receipts
BY DEF Replay, AcceptReplay

(* Which steps write receipts. *)
LEMMA ReceiptsWriters ==
  ASSUME [Next]_vars,
         \A t \in Tabs : ~ReplayNext(t),
         \A g \in ghosts : ~ReplayGhost(g)
  PROVE  UNCHANGED receipts
<1> USE DEF dbVars, loginVars, serverVars, vars
<1>1. ASSUME NEW t \in Tabs, RunStep(t) PROVE UNCHANGED receipts
  BY <1>1 DEF RunStep, LeaseSaved, LeaseFailed, FlushRead, MarkSyncing, SendBatch,
     AdmitBatch, RefuseBatch, RequestFailed, RequestRepeated, ResponseArrives,
     ApplyAccepted, ApplyRejected, BatchDone, TabCloses
<1> QED
  BY <1>1, OutsideRuns

(* The server has receipts of recorded operations only. *)
LEMMA ServerKnownStep ==
  ASSUME IInv, [Next]_vars
  PROVE  ServerKnown'
<1> USE DEF IInv
<1>1. Saved \subseteq Saved'
  BY Monotone
<1>2. ASSUME NEW t \in Tabs, ReplayNext(t) PROVE receipts' \subseteq Saved
  BY <1>2, ReplayReceipts DEF ReplayNext, ReqKnown, ServerKnown
<1>3. ASSUME NEW g \in ghosts, ReplayGhost(g) PROVE receipts' \subseteq Saved
  BY <1>3, ReplayReceipts DEF ReplayGhost, GhostKnown, ServerKnown
<1> QED
  BY <1>1, <1>2, <1>3, ReceiptsWriters DEF ServerKnown

(* An accepted answer stands for a stored receipt. *)
LEMMA AcknowledgedStep ==
  ASSUME IInv, [Next]_vars
  PROVE  Acknowledged'
<1> USE DEF IInv
<1> DEFINE Fine(r) == r.answer["accepted"] \subseteq receipts'
<1>1. receipts \subseteq receipts'
  BY Monotone
<1>2. SUFFICES ASSUME NEW x \in Tabs PROVE Fine(req'[x])
  BY DEF Acknowledged
<1>3. Fine(req[x]) /\ req[x] \in ReqType
  BY <1>1 DEF Acknowledged
<1>4. Fine(NoReq)
  BY DEF NoReq, NoAnswers, Lists
<1>5. ASSUME NEW t \in Tabs PROVE Fine(SentReq(tab[t].batch))
  BY DEF SentReq, NoAnswers, Lists
<1> HIDE DEF Fine
<1>6. ASSUME NEW t \in Tabs, RunStep(t) PROVE Fine(req'[x])
  <2>1. CASE UNCHANGED req
    BY <1>3, <2>1
  <2>2. CASE req' = [req EXCEPT ![t] = NoReq]
    BY <1>3, <1>4, <2>2
  <2>3. CASE req' = [req EXCEPT ![t] = SentReq(tab[t].batch)]
    BY <1>3, <1>5, <2>3
  <2>4. CASE AdmitBatch(t)
    <3>1. req' = [req EXCEPT ![t].as = cookie]
      BY <2>4 DEF AdmitBatch
    <3> QED
      BY <3>1, <1>3 DEF Fine, ReqType
  <2>5. CASE ReplayNext(t)
    <3>1. PICK o \in req[t].rest, list \in Lists :
            /\ Replay(o, list)
            /\ req' = [req EXCEPT ![t] = Answered(req[t], o, list)]
      BY <2>5 DEF ReplayNext
    <3>2. req[t].answer["accepted"] \subseteq receipts'
      BY <1>1 DEF Acknowledged
    <3>3. req[t].answer \in [Lists -> SUBSET Ops]
      BY DEF ReqType
    <3>4. Fine(Answered(req[t], o, list))
      BY <3>1, <3>2, <3>3, ReplayReceipts DEF Fine, Answered, Lists
    <3> QED
      BY <3>1, <3>4, <1>3
  <2>6. CASE ApplyAccepted(t)
    <3>1. PICK o : req' = [req EXCEPT ![t].answer["accepted"] = @ \ {o}]
      BY <2>6 DEF ApplyAccepted
    <3>2. req[x].answer \in [Lists -> SUBSET Ops]
      BY DEF ReqType
    <3> QED
      BY <3>1, <3>2, <1>3 DEF Fine, ReqType
  <2>7. CASE ApplyRejected(t)
    <3>1. PICK o : req' = [req EXCEPT ![t].answer = [list \in Lists |-> @[list] \ {o}]]
      BY <2>7 DEF ApplyRejected
    <3> QED
      BY <3>1, <1>3 DEF Fine, ReqType, Lists
  <2> QED
    BY <1>6, <2>1, <2>2, <2>3, <2>4, <2>5, <2>6, <2>7
       DEF RunStep, LeaseSaved, LeaseFailed, FlushRead, MarkSyncing, SendBatch,
           RefuseBatch, RequestFailed, RequestRepeated, ResponseArrives, BatchDone,
           TabCloses, dbVars, loginVars, serverVars
<1> QED
  BY <1>3, <1>6, OutsideRuns

(* What becomes of the operations the device holds in one step: none leaves *)
(* it without a receipt, unless the student dismisses it.                   *)
LEMMA HeldStep ==
  ASSUME IInv, [Next]_vars
  PROVE  /\ dismissed \subseteq dismissed'
         /\ \A o \in Held : o \in Held' \/ o \in receipts \/ o \in dismissed'
<1> USE DEF IInv
<1>1. CASE UNCHANGED <<status, dismissed>>
  BY <1>1 DEF Held
<1>2. ASSUME NEW S, ScheduleRetry(S), UNCHANGED dismissed
      PROVE  Held \subseteq Held' /\ dismissed \subseteq dismissed'
  BY <1>2 DEF ScheduleRetry, Held
<1>3. ASSUME NEW o \in Ops, EnqueueOperation(o)
      PROVE  Held \subseteq Held' /\ dismissed \subseteq dismissed'
  BY <1>3 DEF EnqueueOperation, Held
<1>4. ASSUME NEW o \in Ops, DismissFailedOperation(o)
      PROVE  /\ dismissed \subseteq dismissed'
             /\ \A p \in Held : p \in Held' \/ p \in dismissed'
  BY <1>4 DEF DismissFailedOperation, Held
<1>5. ASSUME NEW t \in Tabs, RunStep(t)
      PROVE  /\ dismissed \subseteq dismissed'
             /\ \A o \in Held : o \in Held' \/ o \in receipts
  <2>0. UNCHANGED dismissed
    BY <1>5 DEF RunStep, LeaseSaved, LeaseFailed, FlushRead, MarkSyncing, SendBatch,
       AdmitBatch, RefuseBatch, ReplayNext, RequestFailed, RequestRepeated,
       ResponseArrives, ApplyAccepted, ApplyRejected, BatchDone, TabCloses
  <2>1. CASE KeepBatch(t)
    BY <1>2, <2>0, <2>1 DEF KeepBatch
  <2>2. CASE MarkSyncing(t)
    BY <2>0, <2>2 DEF MarkSyncing, Held
  <2>3. CASE ApplyAccepted(t)
    <3>1. PICK o \in req[t].answer["accepted"] : status' = [status EXCEPT ![o] = "none"]
      BY <2>3 DEF ApplyAccepted
    <3>2. o \in receipts
      BY DEF Acknowledged
    <3> QED
      BY <2>0, <3>1, <3>2 DEF Held
  <2>4. CASE ApplyRejected(t)
    <3>1. PICK o \in Rejections(t) :
            ScheduleRetry({o}) \/ status' = [status EXCEPT ![o] = "failed"]
      BY <2>4 DEF ApplyRejected
    <3> QED
      BY <1>2, <2>0, <3>1 DEF Held
  <2>5. CASE UNCHANGED status
    BY <2>0, <2>5 DEF Held
  <2> QED
    BY <1>5, <2>0, <2>1, <2>2, <2>3, <2>4, <2>5
       DEF RunStep, LeaseSaved, LeaseFailed, FlushRead, SendBatch, AdmitBatch,
           RefuseBatch, ReplayNext, RequestFailed, RequestRepeated, ResponseArrives,
           BatchDone, TabCloses, dbVars
<1> QED
  BY <1>1, <1>3, <1>4, <1>5, OutsideRuns

(* Which steps record work. *)
LEMMA SavedStep ==
  ASSUME TypeOK, [Next]_vars, NEW o \in Saved', o \notin Saved
  PROVE  EnqueueOperation(o)
<1> USE DEF dbVars, loginVars, serverVars, vars
<1>1. ASSUME NEW p \in Ops, EnqueueOperation(p) PROVE p = o
  BY <1>1 DEF EnqueueOperation, Saved
<1>2. ~UNCHANGED seq
  BY DEF Saved
<1>3. ASSUME NEW t \in Tabs, RunStep(t) PROVE FALSE
  BY <1>2, <1>3 DEF RunStep, LeaseSaved, LeaseFailed, FlushRead, MarkSyncing,
     SendBatch, AdmitBatch, RefuseBatch, ReplayNext, RequestFailed, RequestRepeated,
     ResponseArrives, ApplyAccepted, ApplyRejected, BatchDone, TabCloses
<1>4. PICK p \in Ops : EnqueueOperation(p)
  BY <1>2, <1>3 DEF Next, DismissFailedOperation, BackoffEnds, SignOut,
     ForgetOfflineUser, DeleteLease, RememberOfflineUser, SignIn, SyncStart,
     ReplayGhost
<1> QED
  BY <1>1, <1>4

LEMMA NoLostWorkStep ==
  ASSUME IInv, [Next]_vars
  PROVE  NoLostWork'
<1> USE DEF IInv
<1>1. SUFFICES ASSUME NEW o \in Ops, o \in Saved'
               PROVE  o \in Held' \/ o \in receipts' \/ o \in dismissed'
  BY DEF NoLostWork, Saved, Held
<1>2. CASE o \in Saved
  <2>1. o \in Held \/ o \in receipts \/ o \in dismissed
    BY <1>2 DEF NoLostWork, Saved, Held
  <2> QED
    BY <2>1, Monotone, HeldStep
<1>3. CASE o \notin Saved
  BY <1>1, <1>3, SavedStep DEF EnqueueOperation, Held
<1> QED
  BY <1>2, <1>3

LEMMA IInvStep == IInv /\ [Next]_vars => IInv'
BY TypeStep, TabKnownStep, ReqKnownStep, GhostKnownStep, DeviceKnownStep,
   ServerKnownStep, AcknowledgedStep, NoLostWorkStep DEF IInv

LEMMA IInvAlways == Spec => []IInv
BY IInvInit, IInvStep, PTL DEF Spec

(* No crash, lost or repeated request, second tab or sign-out makes recorded *)
(* work vanish: queue.js removes an operation only once it is acknowledged.  *)
THEOREM NoLostWorkHolds == Spec => []NoLostWork
<1>1. IInv => NoLostWork
  BY DEF IInv
<1> QED
  BY <1>1, IInvAlways, PTL

-----------------------------------------------------------------------------
(***************************************************************************)
(* At most once.  Whatever a key's log names has a receipt, and replay     *)
(* appends to the log only an operation that had none.                     *)
(***************************************************************************)
LogReceipted == \A k \in Keys : \A i \in DOMAIN log[k] : <<k, log[k][i]>> \in receipts

LEMMA ReplayLog ==
  ASSUME TypeOK, LogReceipted, AppliedAtMostOnce, NEW o \in Ops, NEW list,
         Replay(o, list)
  PROVE  LogReceipted' /\ AppliedAtMostOnce'
<1>0. receipts \subseteq receipts' /\ KeyOf(o) \in Keys /\ o[2] \in Nat
      /\ o = <<KeyOf(o), o[2]>>
  BY OpsFacts DEF Replay, AcceptReplay
<1>1. CASE UNCHANGED log
  BY <1>0, <1>1 DEF LogReceipted, AppliedAtMostOnce
<1>2. CASE ~UNCHANGED log
  <2> DEFINE l == log[KeyOf(o)]
  <2>1. /\ o \notin receipts
        /\ o \in receipts'
        /\ log' = [log EXCEPT ![KeyOf(o)] = Append(l, o[2])]
    BY <1>2 DEF Replay, AcceptReplay
  <2>2. l \in Seq(Nat)
    BY <1>0
  <2>3. /\ DOMAIN Append(l, o[2]) = 1..(Len(l) + 1)
        /\ DOMAIN l = 1..Len(l)
        /\ Append(l, o[2])[Len(l) + 1] = o[2]
        /\ \A i \in 1..Len(l) : Append(l, o[2])[i] = l[i]
        /\ Len(l) \in Nat
    BY <1>0, <2>2
  <2>4. \A i \in 1..Len(l) : l[i] # o[2]
    BY <1>0, <2>1, <2>3 DEF LogReceipted
  <2> HIDE DEF l
  <2>5. ASSUME NEW k \in Keys
        PROVE  /\ \A i \in DOMAIN log'[k] : <<k, log'[k][i]>> \in receipts'
               /\ \A i, j \in DOMAIN log'[k] : log'[k][i] = log'[k][j] => i = j
    <3>1. CASE k # KeyOf(o)
      BY <1>0, <2>1, <3>1 DEF LogReceipted, AppliedAtMostOnce
    <3>2. CASE k = KeyOf(o)
      <4>1. log'[k] = Append(l, o[2]) /\ log[k] = l
        BY <2>1, <3>2 DEF l
      <4>2. \A i \in 1..Len(l) : <<k, l[i]>> \in receipts'
        BY <1>0, <2>3, <4>1 DEF LogReceipted
      <4>3. <<k, o[2]>> \in receipts'
        BY <1>0, <2>1, <3>2
      <4>4. \A i, j \in 1..Len(l) : l[i] = l[j] => i = j
        BY <2>3, <4>1 DEF AppliedAtMostOnce
      <4> DEFINE n == Len(l)
                 m == log'[k]
      <4>5. /\ DOMAIN m = 1..(n + 1)
            /\ m[n + 1] = o[2]
            /\ \A i \in 1..n : m[i] = l[i]
            /\ n \in Nat
        BY <2>3, <4>1
      <4>6. \A i \in 1..n : l[i] # o[2]
        BY <2>4
      <4> HIDE DEF n, m
      <4>7. \A i \in 1..(n + 1) : i \in 1..n \/ i = n + 1
        BY <4>5
      <4>8. \A i \in DOMAIN m : <<k, m[i]>> \in receipts'
        BY <4>2, <4>3, <4>5, <4>7 DEF n
      <4>9. \A i, j \in DOMAIN m : m[i] = m[j] => i = j
        BY <4>4, <4>5, <4>6, <4>7 DEF n
      <4> QED
        BY <4>8, <4>9 DEF m
    <3> QED
      BY <3>1, <3>2
  <2> QED
    BY <2>5 DEF LogReceipted, AppliedAtMostOnce
<1> QED
  BY <1>1, <1>2

LEMMA LogStep ==
  ASSUME TypeOK, LogReceipted, AppliedAtMostOnce, [Next]_vars
  PROVE  LogReceipted' /\ AppliedAtMostOnce'
<1> USE DEF dbVars, loginVars, serverVars, vars
<1>1. CASE UNCHANGED <<log, receipts>>
  BY <1>1 DEF LogReceipted, AppliedAtMostOnce
<1>2. ASSUME NEW t \in Tabs, ReplayNext(t) PROVE LogReceipted' /\ AppliedAtMostOnce'
  BY <1>2, ReplayLog DEF ReplayNext, ReqType
<1>3. ASSUME NEW g \in ghosts, ReplayGhost(g) PROVE LogReceipted' /\ AppliedAtMostOnce'
  BY <1>3, ReplayLog DEF ReplayGhost
<1>4. ASSUME NEW t \in Tabs, RunStep(t), ~ReplayNext(t) PROVE UNCHANGED <<log, receipts>>
  BY <1>4 DEF RunStep, LeaseSaved, LeaseFailed, FlushRead, MarkSyncing, SendBatch,
     AdmitBatch, RefuseBatch, RequestFailed, RequestRepeated, ResponseArrives,
     ApplyAccepted, ApplyRejected, BatchDone, TabCloses
<1> QED
  BY <1>1, <1>2, <1>3, <1>4 DEF Next, EnqueueOperation, DismissFailedOperation,
     BackoffEnds, SignOut, ForgetOfflineUser, DeleteLease, RememberOfflineUser, SignIn,
     SyncStart

(* However often an operation is uploaded, by tabs, repeated requests and      *)
(* abandoned ones, the receipt of replay_batch lets its handler act once.      *)
THEOREM AppliedAtMostOnceHolds == Spec => []AppliedAtMostOnce
<1> DEFINE Inv == TypeOK /\ LogReceipted /\ AppliedAtMostOnce
<1>1. Init => Inv
  BY TypeInit DEF Init, LogReceipted, AppliedAtMostOnce
<1>2. Inv /\ [Next]_vars => Inv'
  BY TypeStep, LogStep
<1> QED
  BY <1>1, <1>2, PTL DEF Spec

-----------------------------------------------------------------------------
(* The fence *)

(* A batch is replayed only for the account its lease was issued to. *)
ReqOwned == \A t \in Tabs : req[t].as # "other"

LEMMA OwnerStep ==
  ASSUME TypeOK, ReqOwned, OnlyOwnersRecord, [Next]_vars
  PROVE  ReqOwned' /\ OnlyOwnersRecord'
<1> USE DEF dbVars, loginVars, serverVars, vars, ReqOwned, OnlyOwnersRecord
<1>1. CASE UNCHANGED <<req, foreign>>
  BY <1>1
<1>2. ASSUME NEW t \in Tabs, RunStep(t) PROVE ReqOwned' /\ OnlyOwnersRecord'
  <2>0. NoReq.as # "other" /\ SentReq(tab[t].batch).as # "other"
    BY DEF NoReq, SentReq
  <2>1. CASE UNCHANGED foreign /\ (UNCHANGED req \/ req' = [req EXCEPT ![t] = NoReq]
               \/ req' = [req EXCEPT ![t] = SentReq(tab[t].batch)])
    <3>1. ASSUME NEW x \in Tabs PROVE req'[x].as # "other"
      <4>1. req'[x] \in {req[x], NoReq, SentReq(tab[t].batch)}
        BY <2>1
      <4> QED
        BY <2>0, <4>1
    <3> QED
      BY <2>1, <3>1
  <2>2. CASE AdmitBatch(t)
    BY <2>2 DEF AdmitBatch, VerifyLease
  <2>3. CASE ReplayNext(t)
    <3>1. PICK o \in req[t].rest, list \in Lists :
            /\ req[t].as \in Accounts
            /\ foreign' = IF req[t].as = "owner" THEN foreign ELSE foreign \cup {o}
            /\ req' = [req EXCEPT ![t] = Answered(req[t], o, list)]
      BY <2>3 DEF ReplayNext
    <3> QED
      BY <3>1 DEF Answered, Accounts
  <2>4. CASE ApplyAccepted(t)
    <3>1. UNCHANGED foreign /\ \E o : req' = [req EXCEPT ![t].answer["accepted"] = @ \ {o}]
      BY <2>4 DEF ApplyAccepted
    <3> QED
      BY <3>1 DEF ReqType
  <2>5. CASE ApplyRejected(t)
    <3>1. UNCHANGED foreign /\ \E o : req' = [req EXCEPT ![t].answer =
                                               [list \in Lists |-> @[list] \ {o}]]
      BY <2>5, ZenonT(40) DEF ApplyRejected
    <3> QED
      BY <3>1 DEF ReqType
  <2> QED
    BY <1>2, <2>1, <2>2, <2>3, <2>4, <2>5
       DEF RunStep, LeaseSaved, LeaseFailed, FlushRead, MarkSyncing, SendBatch,
           RefuseBatch, RequestFailed, RequestRepeated, ResponseArrives, BatchDone,
           TabCloses
<1> QED
  BY <1>1, <1>2 DEF Next, EnqueueOperation, DismissFailedOperation, BackoffEnds,
     SignOut, ForgetOfflineUser, DeleteLease, RememberOfflineUser, SignIn, SyncStart,
     ReplayGhost

(* No operation of the owner reaches another account's progress, although the  *)
(* cookie is read after the fence was last checked.                            *)
THEOREM OnlyOwnersRecordHolds == Spec => []OnlyOwnersRecord
<1> DEFINE Inv == TypeOK /\ ReqOwned /\ OnlyOwnersRecord
<1>0. NoReq.as # "other"
  BY DEF NoReq
<1>1. Init => Inv
  BY <1>0, TypeInit DEF Init, ReqOwned, OnlyOwnersRecord
<1>2. Inv /\ [Next]_vars => Inv'
  BY TypeStep, OwnerStep
<1> QED
  BY <1>1, <1>2, PTL DEF Spec

-----------------------------------------------------------------------------
(* The lease.  Its write asks the fence in the transaction that stores it, so *)
(* the property needs no strengthening beyond the types.                      *)
LEMMA LeaseStep ==
  ASSUME TypeOK, LeaseLeavesWithOwner, [Next]_vars
  PROVE  LeaseLeavesWithOwner'
<1> USE DEF dbVars, loginVars, serverVars, LeaseLeavesWithOwner
<1>1. CASE UNCHANGED <<lease, clearing, current>>
  BY <1>1
<1>2. CASE ForgetOfflineUser
  BY <1>2 DEF ForgetOfflineUser
<1>3. CASE DeleteLease
  BY <1>3 DEF DeleteLease
<1>4. CASE RememberOfflineUser
  BY <1>4 DEF RememberOfflineUser
<1>5. ASSUME NEW t \in Tabs, LeaseSaved(t) PROVE LeaseLeavesWithOwner'
  BY <1>5 DEF LeaseSaved, IsCurrent
<1>6. ASSUME NEW t \in Tabs, RunStep(t), ~LeaseSaved(t)
      PROVE  UNCHANGED <<lease, clearing, current>>
  BY <1>6 DEF RunStep, LeaseFailed, FlushRead, MarkSyncing, SendBatch, AdmitBatch,
     RefuseBatch, ReplayNext, RequestFailed, RequestRepeated, ResponseArrives,
     ApplyAccepted, ApplyRejected, BatchDone, TabCloses
<1> QED
  BY <1>1, <1>2, <1>3, <1>4, <1>5, <1>6 DEF Next, EnqueueOperation,
     DismissFailedOperation, BackoffEnds, SignOut, SignIn, SyncStart, ReplayGhost, vars

(* After a sign-out has run to its end, a synchronisation that began before it *)
(* cannot leave a lease on the device.                                         *)
THEOREM LeaseLeaves == Spec => []LeaseLeavesWithOwner
<1>1. Init => TypeOK /\ LeaseLeavesWithOwner
  BY TypeInit DEF Init, LeaseLeavesWithOwner
<1>2. TypeOK /\ LeaseLeavesWithOwner /\ [Next]_vars => (TypeOK /\ LeaseLeavesWithOwner)'
  BY TypeStep, LeaseStep
<1> QED
  BY <1>1, <1>2, PTL DEF Spec

-----------------------------------------------------------------------------
(* OfflineQueue implements DurableOutbox.  IInv says what the refinement     *)
(* rests on: only recorded work travels, and only work with a receipt is in  *)
(* an accepted list.                                                         *)

(* A step that records, acknowledges, dismisses or lets go of nothing, and *)
(* may write back the recorded operations S, is a Reclaim or a stutter.    *)
LEMMA WriteBack ==
  ASSUME UNCHANGED <<seq, receipts, dismissed>>,
         NEW S \in SUBSET Saved, Held' = Held \cup S
  PROVE  Outbox!Next
<1>1. Saved' = Saved /\ S \in SUBSET Ops
  BY DEF Saved
<1>2. Outbox!Reclaim(S)
  BY <1>1 DEF Outbox!Reclaim
<1> QED
  BY <1>1, <1>2 DEF Outbox!Next

LEMMA RetryWritesBack ==
  ASSUME NEW S \in SUBSET Saved, ScheduleRetry(S)
  PROVE  Held' = Held \cup S
BY DEF ScheduleRetry, Held, Saved

(* A replayed operation is delivered, or was before. *)
LEMMA ReplayDelivers ==
  ASSUME NEW o \in Saved, NEW list, Replay(o, list), UNCHANGED <<seq, status, dismissed>>
  PROVE  [Outbox!Next]_(Outbox!outbox)
<1>1. Saved' = Saved /\ Held' = Held /\ o \in Ops
  BY DEF Saved, Held
<1>2. CASE receipts' = receipts
  BY <1>1, <1>2 DEF Outbox!outbox
<1>3. CASE receipts' # receipts
  <2>1. o \notin receipts /\ receipts' = receipts \cup {o}
    BY <1>3 DEF Replay, AcceptReplay
  <2>2. Outbox!Deliver(o)
    BY <1>1, <2>1 DEF Outbox!Deliver
  <2> QED
    BY <1>1, <2>2 DEF Outbox!Next
<1> QED
  BY <1>2, <1>3

LEMMA OutboxInit == Init => Outbox!Init
BY DEF Init, Outbox!Init, Saved, Held

LEMMA OutboxRunStep ==
  ASSUME IInv, NEW t \in Tabs, RunStep(t)
  PROVE  [Outbox!Next]_(Outbox!outbox)
<1> USE DEF IInv, TypeOK, dbVars, loginVars, serverVars
<1>0. UNCHANGED <<seq, dismissed>>
  BY DEF RunStep, LeaseSaved, LeaseFailed, FlushRead, MarkSyncing, SendBatch,
     AdmitBatch, RefuseBatch, ReplayNext, RequestFailed, RequestRepeated,
     ResponseArrives, ApplyAccepted, ApplyRejected, BatchDone, TabCloses
<1>1. CASE UNCHANGED <<status, receipts>>
  <2>1. Saved' = Saved /\ Held' = Held
    BY <1>0, <1>1 DEF Saved, Held
  <2> QED
    BY <1>0, <1>1, <2>1 DEF Outbox!outbox
<1>2. CASE KeepBatch(t) /\ UNCHANGED receipts
  <2>1. tab[t].batch \in SUBSET Saved
    BY DEF TabKnown
  <2>2. Held' = Held \cup tab[t].batch
    BY <1>2, <2>1, RetryWritesBack DEF KeepBatch
  <2> QED
    BY <1>0, <1>2, <2>1, <2>2, WriteBack
<1>3. CASE MarkSyncing(t)
  <2>1. tab[t].batch \in SUBSET Saved
    BY DEF TabKnown
  <2>2. UNCHANGED receipts
    BY <1>3 DEF MarkSyncing
  <2>3. CASE UNCHANGED status
    BY <1>1, <2>2, <2>3
  <2>4. CASE status' = [o \in Ops |-> IF o \in tab[t].batch THEN "syncing" ELSE status[o]]
    <3>1. Held' = Held \cup tab[t].batch
      BY <2>1, <2>4 DEF Held, Saved
    <3> QED
      BY <1>0, <2>1, <2>2, <3>1, WriteBack
  <2> QED
    BY <1>3, <2>3, <2>4 DEF MarkSyncing
<1>4. CASE ReplayNext(t)
  <2>1. PICK o \in req[t].rest, list \in Lists : Replay(o, list) /\ UNCHANGED status
    BY <1>4 DEF ReplayNext
  <2>2. o \in Saved
    BY DEF ReqKnown
  <2> QED
    BY <1>0, <2>1, <2>2, ReplayDelivers
<1>5. CASE ApplyAccepted(t)
  <2>1. PICK o \in req[t].answer["accepted"] :
          status' = [status EXCEPT ![o] = "none"] /\ UNCHANGED receipts
    BY <1>5 DEF ApplyAccepted
  <2>2. o \in receipts /\ o \in Ops
    BY DEF Acknowledged
  <2>3. Saved' = Saved /\ Held' = Held \ {o}
    BY <1>0, <2>1, <2>2 DEF Saved, Held
  <2>4. CASE o \in Held
    <3>1. Outbox!Release(o)
      BY <1>0, <2>1, <2>2, <2>3, <2>4 DEF Outbox!Release
    <3> QED
      BY <2>2, <3>1 DEF Outbox!Next
  <2>5. CASE o \notin Held
    <3>1. Held' = Held
      BY <2>3, <2>5
    <3> QED
      BY <1>0, <2>1, <2>3, <3>1 DEF Outbox!outbox
  <2> QED
    BY <2>4, <2>5
<1>6. CASE ApplyRejected(t)
  <2>1. PICK o \in Rejections(t) :
          /\ ScheduleRetry({o}) \/ status' = [status EXCEPT ![o] = "failed"]
          /\ UNCHANGED receipts
    BY <1>6 DEF ApplyRejected
  <2>2. {o} \in SUBSET Saved
    BY DEF Rejections, ReqKnown
  <2>3. Held' = Held \cup {o}
    <3>1. CASE ScheduleRetry({o})
      BY <2>2, <3>1, RetryWritesBack
    <3>2. CASE status' = [status EXCEPT ![o] = "failed"]
      BY <2>2, <3>2 DEF Held, Saved
    <3> QED
      BY <2>1, <3>1, <3>2
  <2> QED
    BY <1>0, <2>1, <2>2, <2>3, WriteBack
<1> QED
  BY <1>1, <1>2, <1>3, <1>4, <1>5, <1>6
     DEF RunStep, LeaseSaved, LeaseFailed, FlushRead, SendBatch, AdmitBatch,
         RefuseBatch, RequestFailed, RequestRepeated, ResponseArrives, BatchDone,
         TabCloses

LEMMA OutboxStep == IInv /\ [Next]_vars => [Outbox!Next]_(Outbox!outbox)
<1> SUFFICES ASSUME IInv, [Next]_vars PROVE [Outbox!Next]_(Outbox!outbox)
  OBVIOUS
<1> USE DEF IInv, TypeOK, dbVars, loginVars, serverVars
<1>1. ASSUME NEW o \in Ops, EnqueueOperation(o) PROVE Outbox!Next
  <2>1. o \notin Saved /\ Saved' = Saved \cup {o} /\ Held' = Held \cup {o}
    BY <1>1 DEF EnqueueOperation, Saved, Held
  <2>2. Outbox!Record(o)
    BY <1>1, <2>1 DEF EnqueueOperation, Outbox!Record
  <2> QED
    BY <2>2 DEF Outbox!Next
<1>2. ASSUME NEW o \in Ops, DismissFailedOperation(o) PROVE Outbox!Next
  <2>1. o \in Held /\ Saved' = Saved /\ Held' = Held \ {o}
    BY <1>2 DEF DismissFailedOperation, Saved, Held
  <2>2. Outbox!GiveUp(o)
    BY <1>2, <2>1 DEF DismissFailedOperation, Outbox!GiveUp
  <2> QED
    BY <2>2 DEF Outbox!Next
<1>3. ASSUME NEW t \in Tabs, RunStep(t) PROVE [Outbox!Next]_(Outbox!outbox)
  BY <1>3, OutboxRunStep
<1>4. ASSUME NEW g \in ghosts, ReplayGhost(g) PROVE [Outbox!Next]_(Outbox!outbox)
  <2>1. PICK o \in g, list \in Lists : Replay(o, list) /\ UNCHANGED <<seq, status, dismissed>>
    BY <1>4 DEF ReplayGhost
  <2>2. o \in Saved
    BY DEF GhostKnown
  <2> QED
    BY <2>1, <2>2, ReplayDelivers
<1>5. CASE UNCHANGED <<seq, status, receipts, dismissed>>
  <2>1. Saved' = Saved /\ Held' = Held
    BY <1>5 DEF Saved, Held
  <2> QED
    BY <1>5, <2>1 DEF Outbox!outbox
<1> QED
  BY <1>1, <1>2, <1>3, <1>4, <1>5
     DEF Next, BackoffEnds, SignOut, ForgetOfflineUser, DeleteLease,
         RememberOfflineUser, SignIn, SyncStart, vars

(* Whatever tabs, crashes, repeated and abandoned requests and logins do,      *)
(* the queue of queue.js with the receipts of replay_batch is an outbox: it    *)
(* lets go of delivered work only, and a delivery is counted once.             *)
THEOREM OutboxImplemented == Spec => ImplementsOutbox
<1>1. Init => Outbox!Init
  BY OutboxInit
<1>2. IInv /\ [Next]_vars => [Outbox!Next]_(Outbox!outbox)
  BY OutboxStep
<1> QED
  BY <1>1, <1>2, IInvAlways, PTL DEF Spec, ImplementsOutbox, Outbox!Spec
=============================================================================
