------------------------- MODULE ActiveStudyProofs -------------------------
(***************************************************************************)
(* What holds of managed Active Study (ActiveStudy) for any number of      *)
(* parts, attempts, runs, unanswered calls and calls of another device.    *)
(***************************************************************************)
EXTENDS ActiveStudy, SequenceTheorems, TLAPS

Statuses == {"none", "active", "completed"}
LastOutcomes == {"none", "passed", "failed", "study_again", "retry_final", "continued_anyway"}
DeviceRuns == [status : Statuses, stage : Stages, part : 1..Parts, outcome : LastOutcomes,
               attempt : Nat, sid : Nat, origin : {"server", "local"}, dirty : BOOLEAN]
ServerRuns == [status : Statuses, stage : Stages, part : 1..Parts, outcome : LastOutcomes,
               attempt : Nat, sid : Nat, left : SUBSET Nat]
OperationTypes == {"attempt", "continue", "restart"}
Operations == [type : OperationTypes, attempt : Nat, part : Nat, passed : BOOLEAN]
Requests == [kind : {"sent"}, what : Calls, sid : Nat, attempt : Nat]
Replies == [kind : {"answered"}, what : Calls, sid : Nat, attempt : Nat, run : ServerRuns]
Reads == [kind : {"seed", "reconcile"}, run : ServerRuns, completed : BOOLEAN]
Verdicts == {"applied", "duplicate", "superseded", "out_of_order", "different_session"}
Flushes == [kind : {"flush"}, left : Nat, acked : BOOLEAN]
Uploads == [kind : {"answered"}, left : Nat, acked : BOOLEAN, out : Verdicts, sid : Nat]
Receipts == [op : Nat, type : OperationTypes, out : Verdicts, sid : Nat]

StudyTypeOK ==
  /\ run \in DeviceRuns
  /\ queue \in Seq(Operations)
  /\ call \in {NoCall} \cup Requests \cup Replies
  /\ overdue \subseteq Requests
  /\ read \in {NoRead} \cup Reads
  /\ replay \in {NoReplay} \cup Flushes \cup Uploads
  /\ srv \in ServerRuns
  /\ graded \in Seq(Nat)
  /\ finished \in BOOLEAN
  /\ receipts \subseteq Receipts
  /\ ids \in Nat
  /\ shown \subseteq Nat
  /\ settled \subseteq Nat
  /\ refusals \in BOOLEAN
  /\ stale \in BOOLEAN
  /\ offline \in Nat
  /\ elsewhere \in Nat

-----------------------------------------------------------------------------
(* Types *)

\* The part after a passed or skipped one is a part of the sheet.
LEMMA AdvanceTyped ==
  /\ \A r \in DeviceRuns : AdvanceAfterPart(r) \in DeviceRuns
  /\ \A r \in ServerRuns : AdvanceAfterPart(r) \in ServerRuns
<1>1. ASSUME NEW r \in DeviceRuns PROVE AdvanceAfterPart(r) \in DeviceRuns
  <2>1. r.part \in 1..Parts /\ Parts \in Nat
    BY <1>1, StudyNumbers DEF DeviceRuns
  <2>2. CASE r.part >= Parts
    BY <1>1, <2>2 DEF AdvanceAfterPart, DeviceRuns, Stages
  <2>3. CASE ~(r.part >= Parts)
    <3>1. r.part + 1 \in 1..Parts
      BY <2>1, <2>3
    <3>2. AdvanceAfterPart(r) = [r EXCEPT !.part = r.part + 1, !.stage = "reading"]
      BY <1>1, <2>3 DEF AdvanceAfterPart, DeviceRuns
    <3> QED BY <1>1, <3>1, <3>2 DEF DeviceRuns, Stages
  <2> QED
    BY <2>2, <2>3
<1>2. ASSUME NEW r \in ServerRuns PROVE AdvanceAfterPart(r) \in ServerRuns
  <2>1. r.part \in 1..Parts /\ Parts \in Nat
    BY <1>2, StudyNumbers DEF ServerRuns
  <2>2. CASE r.part >= Parts
    BY <1>2, <2>2 DEF AdvanceAfterPart, ServerRuns, Stages
  <2>3. CASE ~(r.part >= Parts)
    <3>1. r.part + 1 \in 1..Parts
      BY <2>1, <2>3
    <3>2. AdvanceAfterPart(r) = [r EXCEPT !.part = r.part + 1, !.stage = "reading"]
      BY <1>2, <2>3 DEF AdvanceAfterPart, ServerRuns
    <3> QED BY <1>2, <3>1, <3>2 DEF ServerRuns, Stages
  <2> QED
    BY <2>2, <2>3
<1> QED
  BY <1>1, <1>2

\* A submitted attempt leaves a run behind, on the device and at the server.
LEMMA SubmittedTyped ==
  ASSUME NEW passed \in BOOLEAN
  PROVE  /\ \A r \in DeviceRuns : Submitted(r, passed) \in DeviceRuns
         /\ \A r \in ServerRuns : Submitted(r, passed) \in ServerRuns
<1>1. ASSUME NEW r \in DeviceRuns PROVE Submitted(r, passed) \in DeviceRuns
  <2> DEFINE s == [r EXCEPT !.attempt = 0, !.outcome = IF passed THEN "passed" ELSE "failed"]
  <2>1. s \in DeviceRuns /\ s.status = r.status
    BY <1>1 DEF DeviceRuns, LastOutcomes
  <2>2. AdvanceAfterPart(s) \in DeviceRuns
    BY <2>1, AdvanceTyped
  <2>3. /\ [s EXCEPT !.stage = "checkpoint_result"] \in DeviceRuns
        /\ [s EXCEPT !.stage = "final_result",
                     !.status = IF passed THEN "completed" ELSE @] \in DeviceRuns
    <3> HIDE DEF s
    <3> QED BY <2>1 DEF DeviceRuns, Stages, Statuses
  <2> QED
    BY <2>2, <2>3 DEF Submitted
<1>2. ASSUME NEW r \in ServerRuns PROVE Submitted(r, passed) \in ServerRuns
  <2> DEFINE s == [r EXCEPT !.attempt = 0, !.outcome = IF passed THEN "passed" ELSE "failed"]
  <2>1. s \in ServerRuns /\ s.status = r.status
    BY <1>2 DEF ServerRuns, LastOutcomes
  <2>2. AdvanceAfterPart(s) \in ServerRuns
    BY <2>1, AdvanceTyped
  <2>3. /\ [s EXCEPT !.stage = "checkpoint_result"] \in ServerRuns
        /\ [s EXCEPT !.stage = "final_result",
                     !.status = IF passed THEN "completed" ELSE @] \in ServerRuns
    <3> HIDE DEF s
    <3> QED BY <2>1 DEF ServerRuns, Stages, Statuses
  <2> QED
    BY <2>2, <2>3 DEF Submitted
<1> QED
  BY <1>1, <1>2

\* What an action makes of a run is a run.
LEMMA AfterActionTyped ==
  ASSUME NEW c \in (Actions \ {"restart"}) \cup {"pass", "fail"}
  PROVE  /\ \A r \in DeviceRuns : AfterAction(r, c) \in DeviceRuns
         /\ \A r \in ServerRuns : AfterAction(r, c) \in ServerRuns
<1>0. TRUE \in BOOLEAN /\ FALSE \in BOOLEAN
  OBVIOUS
<1>1. ASSUME NEW r \in DeviceRuns PROVE AfterAction(r, c) \in DeviceRuns
  <2>1. /\ [r EXCEPT !.stage = "checkpoint"] \in DeviceRuns
        /\ [r EXCEPT !.stage = "reading", !.outcome = "study_again"] \in DeviceRuns
        /\ [r EXCEPT !.stage = "final", !.outcome = "retry_final"] \in DeviceRuns
        /\ [r EXCEPT !.attempt = 0] \in DeviceRuns
    BY <1>1 DEF DeviceRuns, Stages, LastOutcomes
  <2>2. [AdvanceAfterPart(r) EXCEPT !.outcome = "continued_anyway"] \in DeviceRuns
    <3>1. AdvanceAfterPart(r) \in DeviceRuns
      BY <1>1, AdvanceTyped
    <3> QED BY <3>1 DEF DeviceRuns, LastOutcomes
  <2>3. Submitted(r, TRUE) \in DeviceRuns /\ Submitted(r, FALSE) \in DeviceRuns
    BY <1>0, <1>1, SubmittedTyped
  <2> QED
    BY <2>1, <2>2, <2>3 DEF AfterAction, Actions
<1>2. ASSUME NEW r \in ServerRuns PROVE AfterAction(r, c) \in ServerRuns
  <2>1. /\ [r EXCEPT !.stage = "checkpoint"] \in ServerRuns
        /\ [r EXCEPT !.stage = "reading", !.outcome = "study_again"] \in ServerRuns
        /\ [r EXCEPT !.stage = "final", !.outcome = "retry_final"] \in ServerRuns
        /\ [r EXCEPT !.attempt = 0] \in ServerRuns
    BY <1>2 DEF ServerRuns, Stages, LastOutcomes
  <2>2. [AdvanceAfterPart(r) EXCEPT !.outcome = "continued_anyway"] \in ServerRuns
    <3>1. AdvanceAfterPart(r) \in ServerRuns
      BY <1>2, AdvanceTyped
    <3> QED BY <3>1 DEF ServerRuns, LastOutcomes
  <2>3. Submitted(r, TRUE) \in ServerRuns /\ Submitted(r, FALSE) \in ServerRuns
    BY <1>0, <1>2, SubmittedTyped
  <2> QED
    BY <2>1, <2>2, <2>3 DEF AfterAction, Actions
<1> QED
  BY <1>1, <1>2

\* The runs a device and the server begin with, and the ones they start.
LEMMA NewRunsTyped ==
  ASSUME srv \in ServerRuns
  PROVE  /\ NoRun \in DeviceRuns /\ NewLocalRun \in DeviceRuns
         /\ NoServerRun \in ServerRuns
         /\ ServerRun(srv.sid + 1) \in ServerRuns
<1>1. NoRun \in DeviceRuns /\ NoServerRun \in ServerRuns
  BY StudyNumbers DEF NoRun, NoServerRun, DeviceRuns, ServerRuns, Statuses, Stages, LastOutcomes
<1>2. NewLocalRun \in DeviceRuns
  BY <1>1 DEF NewLocalRun, DeviceRuns, Statuses
<1>3. srv.sid + 1 \in Nat /\ srv.left \cup ({srv.attempt} \ {0}) \in SUBSET Nat
  BY DEF ServerRuns
<1>4. ServerRun(srv.sid + 1) \in ServerRuns
  BY <1>1, <1>3 DEF ServerRun, ServerRuns, Statuses
<1> QED
  BY <1>1, <1>2, <1>4

\* A run that is queued with stays an operation of the queue.
LEMMA OperationTyped ==
  ASSUME NEW type \in OperationTypes, NEW a \in Nat, NEW r \in DeviceRuns, NEW passed \in BOOLEAN
  PROVE  /\ Operation(type, a, r, passed) \in Operations
         /\ Operation(type, a, r, passed).type = type
         /\ Operation(type, a, r, passed).attempt = a
BY StudyNumbers DEF Operation, Operations, DeviceRuns

\* replay_offline_attempt, _continue and _restart give one of five answers; one
\* about an attempt says applied only when it was not graded, and duplicate only
\* when it was.
LEMMA OutcomeTyped ==
  ASSUME NEW o \in Operations
  PROVE  /\ Outcome(o) \in Verdicts
         /\ o.type = "attempt" /\ Outcome(o) = "applied" => ~AlreadyGraded(o.attempt)
         /\ o.type = "attempt" /\ Outcome(o) = "duplicate" => AlreadyGraded(o.attempt)
<1>1. o.type \in OperationTypes
  BY DEF Operations
<1>2. CASE o.type = "restart"
  BY <1>2 DEF Outcome, Verdicts
<1>3. CASE o.type = "continue"
  BY <1>3 DEF Outcome, Verdicts
<1>4. CASE o.type = "attempt"
  BY <1>4 DEF Outcome, Verdicts
<1> QED
  BY <1>1, <1>2, <1>3, <1>4 DEF OperationTypes

\* The device's own answer to a call changes the run, and at most appends one
\* operation; an attempt whose result it shows is the one it appends.
LEMMA LocalAnswers ==
  ASSUME StudyTypeOK, NEW c \in Calls, AnswersLocally(c)
  PROVE  /\ run' \in DeviceRuns
         /\ ids' \in Nat
         /\ queue' = queue \/ \E o \in Operations : queue' = Append(queue, o)
         /\ \/ shown' = shown
            \/ /\ shown' = shown \cup {run.attempt}
               /\ \E o \in Operations : /\ queue' = Append(queue, o)
                                        /\ o.type = "attempt" /\ o.attempt = run.attempt
<1>1. /\ run \in DeviceRuns /\ srv \in ServerRuns /\ ids \in Nat /\ ids + 1 \in Nat
      /\ run.attempt \in Nat
  BY DEF StudyTypeOK, DeviceRuns
<1>2. TRUE \in BOOLEAN /\ FALSE \in BOOLEAN /\ (c = "pass") \in BOOLEAN
  OBVIOUS
<1>3. /\ NewLocalRun \in DeviceRuns
      /\ \A type \in OperationTypes, a \in Nat, p \in BOOLEAN :
           /\ Operation(type, a, run, p) \in Operations
           /\ Operation(type, a, run, p).type = type
           /\ Operation(type, a, run, p).attempt = a
  BY <1>1, NewRunsTyped, OperationTyped
<1>4. {"attempt", "continue", "restart"} \subseteq OperationTypes
  BY DEF OperationTypes
<1>5. CASE /\ c = "start"
           /\ run' = IF run.status = "active" THEN run ELSE NewLocalRun
           /\ UNCHANGED <<queue, ids, shown>>
  BY <1>1, <1>3, <1>5
<1>6. CASE /\ c = "restart"
           /\ run' = NewLocalRun
           /\ queue' = Queued(Operation("restart", ids + 1, run, FALSE))
           /\ ids' = ids + 1
           /\ UNCHANGED shown
  BY <1>1, <1>2, <1>3, <1>4, <1>6 DEF Queued
<1>7. CASE /\ c = "questions"
           /\ run' = [run EXCEPT !.attempt = IF @ # 0 THEN @ ELSE ids + 1]
           /\ ids' = IF run.attempt # 0 THEN ids ELSE ids + 1
           /\ UNCHANGED <<queue, shown>>
  <2>1. run' \in DeviceRuns
    BY <1>1, <1>7 DEF DeviceRuns
  <2> QED
    BY <1>1, <1>7, <2>1
<1>8. CASE /\ c \in {"pass", "fail"}
           /\ run' = [AfterAction(run, c) EXCEPT !.dirty = TRUE]
           /\ queue' = Queued(Operation("attempt", run.attempt, run, c = "pass"))
           /\ shown' = shown \cup {run.attempt}
           /\ UNCHANGED ids
  <2>1. AfterAction(run, c) \in DeviceRuns
    BY <1>1, <1>8, AfterActionTyped
  <2>2. run' \in DeviceRuns
    BY <1>2, <1>8, <2>1 DEF DeviceRuns
  <2>3. /\ Operation("attempt", run.attempt, run, c = "pass") \in Operations
        /\ Operation("attempt", run.attempt, run, c = "pass").type = "attempt"
        /\ Operation("attempt", run.attempt, run, c = "pass").attempt = run.attempt
    <3>1. "attempt" \in OperationTypes
      BY <1>4
    <3> QED BY <1>1, <1>2, <1>3, <3>1, ZenonT(30)
  <2> QED
    BY <1>1, <1>8, <2>2, <2>3 DEF Queued
<1>9. CASE /\ c = "continue"
           /\ run' = [AfterAction(run, c) EXCEPT !.dirty = TRUE]
           /\ queue' = Queued(Operation("continue", ids + 1, run, FALSE))
           /\ ids' = ids + 1
           /\ UNCHANGED shown
  <2>1. AfterAction(run, c) \in DeviceRuns
    BY <1>1, <1>9, AfterActionTyped DEF Actions
  <2>2. run' \in DeviceRuns
    BY <1>2, <1>9, <2>1 DEF DeviceRuns
  <2> QED
    BY <1>1, <1>2, <1>3, <1>4, <1>9, <2>2 DEF Queued
<1>10. CASE /\ c \in Actions \ {"restart", "continue"}
            /\ run' = AfterAction(run, c)
            /\ UNCHANGED <<queue, ids, shown>>
  BY <1>1, <1>10, AfterActionTyped
<1>11. CASE UNCHANGED <<run, queue, ids, shown>>
  BY <1>1, <1>11
<1> QED
  BY <1>5, <1>6, <1>7, <1>8, <1>9, <1>10, <1>11 DEF AnswersLocally

\* The server's answer to a request of this or another device leaves a run, and
\* grades the request's attempt only when it was not graded before.
LEMMA ServerAnswering ==
  ASSUME StudyTypeOK, NEW q, q.what \in Calls, q.attempt \in Nat, NEW ok \in BOOLEAN,
         ServerAnswers(q, ok)
  PROVE  /\ srv' \in ServerRuns
         /\ finished' \in BOOLEAN
         /\ ids' \in Nat
         /\ \/ graded' = graded
            \/ ~AlreadyGraded(q.attempt) /\ graded' = Append(graded, q.attempt)
<1>1. srv \in ServerRuns /\ ids \in Nat /\ ids + 1 \in Nat
  BY DEF StudyTypeOK
<1>2. finished \in BOOLEAN
  BY DEF StudyTypeOK
<1>3. ServerRun(srv.sid + 1) \in ServerRuns
  BY <1>1, NewRunsTyped
<1>4. CASE /\ srv' = (IF Active THEN srv ELSE ServerRun(srv.sid + 1))
           /\ UNCHANGED <<graded, finished, ids>>
  BY <1>1, <1>2, <1>3, <1>4
<1>5. CASE /\ srv' = ServerRun(srv.sid + 1)
           /\ UNCHANGED <<graded, finished, ids>>
  BY <1>1, <1>2, <1>3, <1>5
<1>6. CASE /\ srv' = [srv EXCEPT !.attempt = IF @ # 0 THEN @ ELSE ids + 1]
           /\ ids' = IF srv.attempt # 0 THEN ids ELSE ids + 1
           /\ UNCHANGED <<graded, finished>>
  <2>1. srv' \in ServerRuns
    BY <1>1, <1>6 DEF ServerRuns
  <2> QED
    BY <1>1, <1>2, <1>6, <2>1
<1>7. CASE UNCHANGED <<srv, graded, finished, ids>>
  BY <1>1, <1>2, <1>7
<1>8. CASE /\ ~AlreadyGraded(q.attempt)
           /\ ServerSubmits(q.attempt, q.what = "pass")
           /\ UNCHANGED ids
  <2>1. Submitted(srv, q.what = "pass") \in ServerRuns
    <3>1. (q.what = "pass") \in BOOLEAN
      OBVIOUS
    <3> QED BY <1>1, <3>1, SubmittedTyped
  <2>2. finished' = (finished \/ Submitted(srv, q.what = "pass").status = "completed")
    BY <1>8 DEF ServerSubmits
  <2>3. finished' \in BOOLEAN
    BY <2>2, Zenon
  <2> QED
    BY <1>1, <1>8, <2>1, <2>3 DEF ServerSubmits, Grades
<1>9. CASE /\ q.what \in Actions \ {"restart"}
           /\ srv' = AfterAction(srv, q.what)
           /\ UNCHANGED <<graded, finished, ids>>
  BY <1>1, <1>2, <1>9, AfterActionTyped
<1> QED
  BY <1>4, <1>5, <1>6, <1>7, <1>8, <1>9 DEF ServerAnswers

\* A replayed operation that is applied leaves a run; only an attempt grades.
LEMMA ReplayApplies ==
  ASSUME StudyTypeOK, NEW o \in Operations, ReplayApplied(o)
  PROVE  /\ srv' \in ServerRuns
         /\ finished' \in BOOLEAN
         /\ o.type # "attempt" => graded' = graded
         /\ o.type = "attempt" => graded' = Append(graded, o.attempt)
<1>1. /\ srv \in ServerRuns /\ ServerRun(srv.sid + 1) \in ServerRuns
      /\ o.attempt \in Nat
  BY NewRunsTyped DEF StudyTypeOK, Operations
<1>2. finished \in BOOLEAN
  BY DEF StudyTypeOK
<1>3. CASE o.type = "restart"
  BY <1>1, <1>2, <1>3 DEF ReplayApplied
<1>4. CASE o.type = "continue"
  <2>1. AfterAction(srv, "continue") \in ServerRuns
    BY <1>1, AfterActionTyped DEF Actions
  <2> QED
    BY <1>2, <1>4, <2>1 DEF ReplayApplied
<1>5. CASE o.type = "attempt"
  <2> DEFINE base == IF Active THEN srv ELSE ServerRun(srv.sid + 1)
             r == Submitted(BroughtTo(base, o), o.passed)
  <2>1. base \in ServerRuns
    BY <1>1
  <2>2. BroughtTo(base, o) \in ServerRuns
    <3> HIDE DEF base
    <3> QED BY <1>1, <2>1 DEF BroughtTo, ServerRuns, Stages
  <2>3. o.passed \in BOOLEAN
    BY DEF Operations
  <2>4. r \in ServerRuns
    BY <2>2, <2>3, SubmittedTyped
  <2>5. srv' = r /\ finished' = (finished \/ r.status = "completed") /\ Grades(o.attempt)
    BY <1>5 DEF ReplayApplied
  <2>6. finished' \in BOOLEAN
    BY <2>5, Zenon
  <2> QED
    BY <1>5, <2>4, <2>5, <2>6 DEF Grades
<1> QED
  BY <1>3, <1>4, <1>5 DEF Operations, OperationTypes

\* The step of the operation at the head of the queue: which answer it gets and
\* which receipt is kept.
LEMMA ReplayStep ==
  ASSUME StudyTypeOK, ReplayHead, replay.left <= Len(queue)
  PROVE  /\ queue # <<>> /\ Head(queue) \in Operations
         /\ replay \in Flushes
         /\ srv' \in ServerRuns
         /\ finished' \in BOOLEAN
         /\ replay' \in Uploads /\ replay'.left = replay.left
         /\ \/ /\ \E x \in receipts : /\ x.op = Head(queue).attempt /\ x.type = Head(queue).type
                                      /\ x.out = replay'.out
               /\ UNCHANGED <<graded, receipts>>
            \/ /\ replay'.out = Outcome(Head(queue))
               /\ graded' = IF replay'.out = "applied" /\ Head(queue).type = "attempt"
                            THEN Append(graded, Head(queue).attempt) ELSE graded
               /\ \/ receipts' = receipts
                  \/ \E sid \in Nat :
                       receipts' = receipts \cup {[op |-> Head(queue).attempt,
                                                   type |-> Head(queue).type,
                                                   out |-> replay'.out, sid |-> sid]}
<1> DEFINE o == Head(queue)
           out == Outcome(o)
           said(result, sid) == [kind |-> "answered", left |-> replay.left,
                                 acked |-> replay.acked, out |-> result, sid |-> sid]
<1>1. replay \in Flushes /\ replay.left > 0
  BY DEF StudyTypeOK, ReplayHead, NoReplay, Flushes, Uploads
<1>2. queue \in Seq(Operations) /\ queue # <<>>
  BY <1>1 DEF StudyTypeOK, Flushes
<1>3. o \in Operations
  BY <1>2
<1>4. out \in Verdicts
  BY <1>3, OutcomeTyped
<1>5. srv \in ServerRuns /\ receipts \subseteq Receipts
  BY DEF StudyTypeOK
<1>6. finished \in BOOLEAN
  BY DEF StudyTypeOK
<1>7. \A result \in Verdicts, sid \in Nat :
        /\ said(result, sid) \in Uploads
        /\ said(result, sid).left = replay.left
        /\ said(result, sid).out = result
  BY <1>1 DEF Flushes, Uploads
<1>8. CASE \E x \in ReceiptOf(o) : /\ replay' = said(x.out, x.sid)
                                   /\ UNCHANGED <<srv, graded, finished, receipts>>
  <2>1. PICK x \in ReceiptOf(o) : /\ replay' = said(x.out, x.sid)
                                  /\ UNCHANGED <<srv, graded, finished, receipts>>
    BY <1>8
  <2>2. x \in receipts /\ x.op = o.attempt /\ x.type = o.type
    BY DEF ReceiptOf
  <2>3. x.out \in Verdicts /\ x.sid \in Nat
    BY <1>5, <2>2 DEF Receipts
  <2>4. replay' \in Uploads /\ replay'.left = replay.left /\ x.out = replay'.out
    <3> HIDE DEF said
    <3> QED BY <1>7, <2>1, <2>3
  <2> HIDE DEF said, out
  <2> QED
    BY <1>1, <1>2, <1>3, <1>5, <1>6, <2>1, <2>2, <2>4
<1>9. CASE /\ ReceiptOf(o) = {}
           /\ IF out = "applied" THEN ReplayApplied(o) ELSE UNCHANGED <<srv, graded, finished>>
           /\ LET sid == IF out = "superseded" /\ ~Active THEN 0 ELSE srv'.sid
              IN /\ replay' = said(out, sid)
                 /\ receipts' = IF out \in Refusals THEN receipts
                                ELSE receipts \cup {[op |-> o.attempt, type |-> o.type,
                                                     out |-> out, sid |-> sid]}
  <2> DEFINE sid == IF out = "superseded" /\ ~Active THEN 0 ELSE srv'.sid
  <2>1. /\ srv' \in ServerRuns
        /\ finished' \in BOOLEAN
        /\ graded' = IF out = "applied" /\ o.type = "attempt"
                     THEN Append(graded, o.attempt) ELSE graded
    <3>1. CASE out = "applied"
      BY <1>3, <1>9, <3>1, ReplayApplies
    <3>2. CASE out # "applied"
      <4>1. UNCHANGED <<srv, graded, finished>>
        BY <1>9, <3>2
      <4> HIDE DEF out
      <4> QED BY <1>5, <1>6, <3>2, <4>1
    <3> QED BY <3>1, <3>2
  <2>2. sid \in Nat
    BY <2>1 DEF ServerRuns
  <2>3. /\ replay' = said(out, sid)
        /\ receipts' = IF out \in Refusals THEN receipts
                       ELSE receipts \cup {[op |-> o.attempt, type |-> o.type,
                                            out |-> out, sid |-> sid]}
    BY <1>9
  <2> HIDE DEF sid, out, said
  <2>4. replay' \in Uploads /\ replay'.left = replay.left /\ replay'.out = out
    BY <1>4, <1>7, <2>2, <2>3
  <2>5. replay'.out = Outcome(Head(queue))
    BY <2>4 DEF out
  <2>6. \/ receipts' = receipts
        \/ \E n \in Nat : receipts' = receipts \cup {[op |-> o.attempt, type |-> o.type,
                                                      out |-> replay'.out, sid |-> n]}
    BY <2>2, <2>3, <2>4
  <2> QED
    BY <1>1, <1>2, <1>3, <2>1, <2>4, <2>5, <2>6
<1> QED
  BY <1>8, <1>9 DEF ReplayHead

-----------------------------------------------------------------------------
(* Results: graded once, and never forgotten *)

\* An attempt waits in the queue as an attempt.
Waiting(a) == \E i \in 1..Len(queue) : queue[i].type = "attempt" /\ queue[i].attempt = a

\* Shown results are graded, waiting or settled.
ShownKept == \A a \in shown : AlreadyGraded(a) \/ Waiting(a) \/ a \in settled

\* A delivery sends no more operations than are queued, and an answer is to the
\* one at the head.
FlushFits ==
  /\ replay.kind \in {"flush", "answered"} => replay.left <= Len(queue)
  /\ replay.kind = "answered" => replay.left > 0

\* An answer that an attempt was applied, or was a duplicate, is about a graded
\* one.
AnswerIsTrue ==
  replay.kind = "answered" /\ replay.out \in {"applied", "duplicate"}
    /\ Head(queue).type = "attempt" => AlreadyGraded(Head(queue).attempt)

\* So is a receipt, which gives that answer again.
ReceiptsTrue ==
  \A x \in receipts : x.type = "attempt" /\ x.out \in {"applied", "duplicate"}
                        => AlreadyGraded(x.op)

StudyInv == GradedOnce /\ ShownKept /\ FlushFits /\ AnswerIsTrue /\ ReceiptsTrue

\* A graded attempt stays graded, and grading one that was not graded keeps
\* every grade of a different attempt.
LEMMA GradingOnce ==
  ASSUME graded \in Seq(Nat), GradedOnce, NEW a \in Nat,
         \/ graded' = graded
         \/ ~AlreadyGraded(a) /\ graded' = Append(graded, a)
  PROVE  /\ graded' \in Seq(Nat)
         /\ GradedOnce'
         /\ \A b : AlreadyGraded(b) => AlreadyGraded(b)'
         /\ graded' # graded => AlreadyGraded(a)'
<1>1. CASE graded' = graded
  BY <1>1 DEF GradedOnce, AlreadyGraded
<1>2. CASE ~AlreadyGraded(a) /\ graded' = Append(graded, a)
  <2>1. /\ Len(graded') = Len(graded) + 1 /\ Len(graded) \in Nat
        /\ graded'[Len(graded) + 1] = a
        /\ \A i \in 1..Len(graded) : graded'[i] = graded[i]
        /\ graded' \in Seq(Nat)
    BY <1>2
  <2>2. \A i \in 1..Len(graded) : graded[i] # a
    BY <1>2 DEF AlreadyGraded
  <2>3. GradedOnce'
    <3> SUFFICES ASSUME NEW i \in 1..Len(graded'), NEW j \in 1..Len(graded'),
                        graded'[i] = graded'[j]
                 PROVE  i = j
      BY DEF GradedOnce
    <3>1. /\ i \in 1..Len(graded) \/ i = Len(graded) + 1
          /\ j \in 1..Len(graded) \/ j = Len(graded) + 1
      BY <2>1
    <3>2. CASE i \in 1..Len(graded) /\ j \in 1..Len(graded)
      BY <2>1, <3>2 DEF GradedOnce
    <3> QED
      BY <2>1, <2>2, <3>1, <3>2
  <2> QED
    BY <2>1, <2>3 DEF AlreadyGraded
<1> QED
  BY <1>1, <1>2

\* What waits in the queue still waits when an operation is appended, and the
\* head stays the head.
LEMMA AppendingKeeps ==
  ASSUME queue \in Seq(Operations), NEW o \in Operations, queue' = Append(queue, o)
  PROVE  /\ queue' \in Seq(Operations)
         /\ Len(queue') = Len(queue) + 1 /\ Len(queue) \in Nat
         /\ queue # <<>> => Head(queue') = Head(queue)
         /\ \A a : Waiting(a) => Waiting(a)'
         /\ o.type = "attempt" => Waiting(o.attempt)'
<1>1. /\ queue' \in Seq(Operations) /\ Len(queue') = Len(queue) + 1 /\ Len(queue) \in Nat
      /\ queue'[Len(queue) + 1] = o
      /\ \A i \in 1..Len(queue) : queue'[i] = queue[i]
  OBVIOUS
<1>2. queue # <<>> => Head(queue') = Head(queue)
  BY <1>1
<1> QED
  BY <1>1, <1>2 DEF Waiting

\* What waits in the queue behind its head still waits when the head leaves.
LEMMA LeavingKeeps ==
  ASSUME queue \in Seq(Operations), queue # <<>>, queue' = Tail(queue)
  PROVE  /\ queue' \in Seq(Operations)
         /\ Len(queue') = Len(queue) - 1 /\ Len(queue) \in Nat
         /\ \A a : Waiting(a) => \/ Waiting(a)'
                                 \/ Head(queue).type = "attempt" /\ Head(queue).attempt = a
<1>1. /\ queue' \in Seq(Operations) /\ Len(queue') = Len(queue) - 1 /\ Len(queue) \in Nat
      /\ Head(queue) = queue[1]
      /\ \A i \in 1..Len(queue') : queue'[i] = queue[i + 1]
  OBVIOUS
<1>2. ASSUME NEW a, NEW i \in 1..Len(queue), queue[i].type = "attempt", queue[i].attempt = a,
             i # 1
      PROVE  Waiting(a)'
  <2>1. i - 1 \in 1..Len(queue') /\ (i - 1) + 1 = i
    BY <1>1, <1>2
  <2>2. queue'[i - 1] = queue[i]
    BY <1>1, <2>1
  <2> QED
    BY <1>2, <2>1, <2>2 DEF Waiting
<1> QED
  BY <1>1, <1>2 DEF Waiting

\* A step that answers a call on the device keeps the invariant.
LEMMA LocalKeeps ==
  ASSUME StudyTypeOK, StudyInv, NEW c \in Calls, AnswersLocally(c),
         UNCHANGED <<replay, graded, receipts, settled>>
  PROVE  /\ queue' \in Seq(Operations)
         /\ shown' \subseteq Nat
         /\ StudyInv'
<1>1. /\ queue' = queue \/ \E o \in Operations : queue' = Append(queue, o)
      /\ \/ shown' = shown
         \/ /\ shown' = shown \cup {run.attempt}
            /\ \E o \in Operations : /\ queue' = Append(queue, o)
                                     /\ o.type = "attempt" /\ o.attempt = run.attempt
  BY LocalAnswers
<1>2. queue \in Seq(Operations) /\ Len(queue) \in Nat /\ shown \subseteq Nat /\ run.attempt \in Nat
  BY DEF StudyTypeOK, DeviceRuns
<1>3. /\ queue' \in Seq(Operations) /\ Len(queue') \in Nat /\ Len(queue) <= Len(queue')
      /\ queue # <<>> => Head(queue') = Head(queue)
      /\ \A a : Waiting(a) => Waiting(a)'
  <2>1. CASE queue' = queue
    BY <1>2, <2>1 DEF Waiting
  <2>2. CASE \E o \in Operations : queue' = Append(queue, o)
    BY <1>2, <2>2, AppendingKeeps
  <2> QED BY <1>1, <2>1, <2>2
<1>4. \A b : AlreadyGraded(b)' = AlreadyGraded(b)
  BY DEF AlreadyGraded
<1>5. \A a \in shown' : a \in shown \/ Waiting(a)'
  BY <1>1, <1>2, AppendingKeeps
<1>6. ShownKept'
  BY <1>3, <1>4, <1>5 DEF StudyInv, ShownKept
<1>7. replay.kind = "answered" => queue # <<>>
  BY <1>2 DEF StudyInv, FlushFits, StudyTypeOK, NoReplay, Flushes, Uploads
<1>8. FlushFits'
  BY <1>2, <1>3 DEF StudyInv, FlushFits, StudyTypeOK, NoReplay, Flushes, Uploads
<1>9. AnswerIsTrue' /\ ReceiptsTrue'
  BY <1>3, <1>4, <1>7 DEF StudyInv, AnswerIsTrue, ReceiptsTrue
<1>10. GradedOnce'
  BY DEF StudyInv, GradedOnce
<1> QED
  BY <1>1, <1>2, <1>3, <1>6, <1>8, <1>9, <1>10 DEF StudyInv

\* A step in which the server answers a request keeps the invariant.
LEMMA ServerKeeps ==
  ASSUME StudyTypeOK, StudyInv, NEW q, q.what \in Calls, q.attempt \in Nat, NEW ok \in BOOLEAN,
         ServerAnswers(q, ok), UNCHANGED <<queue, replay, receipts, shown, settled>>
  PROVE  graded' \in Seq(Nat) /\ StudyInv'
<1>1. \/ graded' = graded
      \/ ~AlreadyGraded(q.attempt) /\ graded' = Append(graded, q.attempt)
  BY ServerAnswering
<1>2. /\ graded' \in Seq(Nat) /\ GradedOnce'
      /\ \A b : AlreadyGraded(b) => AlreadyGraded(b)'
  BY <1>1, GradingOnce DEF StudyInv, StudyTypeOK
<1>3. \A a : Waiting(a)' = Waiting(a)
  BY DEF Waiting
<1> QED
  BY <1>2, <1>3 DEF StudyInv, ShownKept, FlushFits, AnswerIsTrue, ReceiptsTrue

\* A step of a delivery at the server, or of its answer, keeps the invariant.
LEMMA DeliveryKeeps ==
  ASSUME StudyTypeOK, StudyInv, ReplayHead \/ ReplayAnswered
  PROVE  /\ queue' \in Seq(Operations)
         /\ replay' \in Flushes \cup Uploads
         /\ graded' \in Seq(Nat)
         /\ receipts' \subseteq Receipts
         /\ settled' \subseteq Nat
         /\ StudyInv'
<1>1. /\ queue \in Seq(Operations) /\ graded \in Seq(Nat) /\ receipts \subseteq Receipts
      /\ settled \subseteq Nat /\ Len(queue) \in Nat
  BY DEF StudyTypeOK
<1>2. /\ replay.kind \in {"flush", "answered"} => replay.left <= Len(queue)
      /\ replay.kind = "answered" => replay.left > 0
      /\ GradedOnce /\ ShownKept /\ AnswerIsTrue /\ ReceiptsTrue
  BY DEF StudyInv, FlushFits
<1>3. ASSUME ReplayHead PROVE
         /\ queue' \in Seq(Operations)
         /\ replay' \in Flushes \cup Uploads
         /\ graded' \in Seq(Nat)
         /\ receipts' \subseteq Receipts
         /\ settled' \subseteq Nat
         /\ StudyInv'
  <2> DEFINE o == Head(queue)
  <2>1. UNCHANGED <<queue, shown, settled>> /\ replay.kind = "flush" /\ replay.left > 0
    BY <1>3 DEF ReplayHead
  <2>2. /\ queue # <<>> /\ o \in Operations
        /\ replay' \in Uploads /\ replay'.left = replay.left
        /\ \/ /\ \E x \in receipts : /\ x.op = o.attempt /\ x.type = o.type
                                     /\ x.out = replay'.out
              /\ UNCHANGED <<graded, receipts>>
           \/ /\ replay'.out = Outcome(o)
              /\ graded' = IF replay'.out = "applied" /\ o.type = "attempt"
                           THEN Append(graded, o.attempt) ELSE graded
              /\ \/ receipts' = receipts
                 \/ \E sid \in Nat :
                      receipts' = receipts \cup {[op |-> o.attempt, type |-> o.type,
                                                  out |-> replay'.out, sid |-> sid]}
    BY <1>2, <1>3, <2>1, ReplayStep
  <2>3. /\ o.attempt \in Nat /\ o.type \in OperationTypes
        /\ o.type = "attempt" /\ Outcome(o) = "applied" => ~AlreadyGraded(o.attempt)
        /\ o.type = "attempt" /\ Outcome(o) = "duplicate" => AlreadyGraded(o.attempt)
    BY <2>2, OutcomeTyped DEF Operations
  <2>4. replay'.out \in Verdicts /\ replay'.kind = "answered"
    BY <2>2 DEF Uploads
  <2>5. \/ graded' = graded
        \/ ~AlreadyGraded(o.attempt) /\ graded' = Append(graded, o.attempt)
    BY <2>2, <2>3
  <2> HIDE DEF o
  <2>6. /\ graded' \in Seq(Nat) /\ GradedOnce'
        /\ \A b : AlreadyGraded(b) => AlreadyGraded(b)'
    BY <1>1, <1>2, <2>3, <2>5, GradingOnce
  <2>7. \A b : b = o.attempt /\ graded' = Append(graded, o.attempt) => AlreadyGraded(b)'
    BY <1>1, <2>3 DEF AlreadyGraded
  <2>8. \A b : b = o.attempt /\ o.type = "attempt" /\ replay'.out \in {"applied", "duplicate"}
                 => AlreadyGraded(b)'
    BY <1>2, <2>2, <2>3, <2>6, <2>7 DEF ReceiptsTrue
  <2>9. receipts' \subseteq Receipts
    BY <1>1, <2>2, <2>3, <2>4 DEF Receipts
  <2>10. ReceiptsTrue'
    BY <1>2, <2>2, <2>6, <2>8 DEF ReceiptsTrue
  <2>11. AnswerIsTrue'
    BY <2>1, <2>8 DEF AnswerIsTrue, o
  <2>12. ShownKept'
    BY <1>2, <2>1, <2>6 DEF ShownKept, Waiting
  <2>13. FlushFits'
    BY <1>2, <2>1, <2>2 DEF FlushFits
  <2> QED
    BY <1>1, <2>1, <2>2, <2>6, <2>9, <2>10, <2>11, <2>12, <2>13 DEF StudyInv
<1>4. ASSUME ReplayAnswered PROVE
         /\ queue' \in Seq(Operations)
         /\ replay' \in Flushes \cup Uploads
         /\ graded' \in Seq(Nat)
         /\ receipts' \subseteq Receipts
         /\ settled' \subseteq Nat
         /\ StudyInv'
  <2> DEFINE o == Head(queue)
             refused == replay.out \in Refusals
  <2>1. /\ replay.kind = "answered" /\ queue' = Tail(queue)
        /\ UNCHANGED <<graded, receipts, shown>>
        /\ settled' = IF replay.out \in Refusals \cup {"superseded"} /\ o.type = "attempt"
                      THEN settled \cup {o.attempt} ELSE settled
        /\ replay' = [kind |-> "flush", left |-> replay.left - 1,
                      acked |-> replay.acked \/ ~refused]
    BY <1>4 DEF ReplayAnswered
  <2>2. replay \in Uploads
    BY <2>1 DEF StudyTypeOK, NoReplay, Flushes, Uploads
  <2>3. replay.left \in Nat /\ replay.left > 0 /\ replay.left <= Len(queue)
    BY <1>2, <2>1, <2>2 DEF Uploads
  <2>4. queue # <<>> /\ o \in Operations
    BY <1>1, <2>3
  <2>5. o.attempt \in Nat
    BY <2>4 DEF Operations
  <2>6. (replay.acked \/ ~refused) \in BOOLEAN
    BY Zenon
  <2>7. replay' \in Flushes /\ replay'.left = replay.left - 1 /\ replay'.kind = "flush"
    BY <2>1, <2>3, <2>6 DEF Flushes
  <2>8. /\ queue' \in Seq(Operations)
        /\ Len(queue') = Len(queue) - 1
        /\ \A a : Waiting(a) => Waiting(a)' \/ (o.type = "attempt" /\ o.attempt = a)
    BY <1>1, <2>1, <2>4, LeavingKeeps
  <2>9. \A b : AlreadyGraded(b)' = AlreadyGraded(b)
    BY <2>1 DEF AlreadyGraded
  <2>10. o.type = "attempt" => AlreadyGraded(o.attempt) \/ o.attempt \in settled'
    <3>1. replay.out \in {"applied", "duplicate"} \/ replay.out \in Refusals \cup {"superseded"}
      BY <2>2 DEF Uploads, Verdicts, Refusals
    <3>2. CASE replay.out \in {"applied", "duplicate"}
      BY <1>2, <2>1, <3>2 DEF AnswerIsTrue
    <3>3. CASE replay.out \in Refusals \cup {"superseded"}
      BY <2>1, <3>3
    <3> QED BY <3>1, <3>2, <3>3
  <2> HIDE DEF o, refused
  <2>11. settled \subseteq settled' /\ settled' \subseteq Nat
    BY <1>1, <2>1, <2>5
  <2>12. ShownKept'
    <3> SUFFICES ASSUME NEW a \in shown'
                 PROVE  AlreadyGraded(a)' \/ Waiting(a)' \/ a \in settled'
      BY DEF ShownKept
    <3>1. AlreadyGraded(a) \/ Waiting(a) \/ a \in settled
      BY <1>2, <2>1 DEF ShownKept
    <3> QED
      BY <2>8, <2>9, <2>10, <2>11, <3>1
  <2>13. FlushFits'
    BY <1>1, <2>3, <2>7, <2>8 DEF FlushFits
  <2>14. AnswerIsTrue' /\ ReceiptsTrue' /\ GradedOnce'
    BY <1>2, <2>1, <2>7, <2>9 DEF AnswerIsTrue, ReceiptsTrue, GradedOnce
  <2> QED
    BY <1>1, <2>1, <2>7, <2>8, <2>11, <2>12, <2>13, <2>14 DEF StudyInv
<1> QED
  BY <1>3, <1>4

\* A run read from the server becomes a run of the device.
LEMMA FromServerTyped ==
  ASSUME run \in DeviceRuns, NEW r \in ServerRuns
  PROVE  /\ FromServer(r) \in DeviceRuns
         /\ \A c \in Calls : Mirrored(c, r) \in DeviceRuns
<1>1. FromServer(r) \in DeviceRuns
  BY DEF FromServer, DeviceRuns, ServerRuns
<1>2. /\ [FromServer(r) EXCEPT !.attempt = r.attempt] \in DeviceRuns
      /\ [FromServer(r) EXCEPT !.attempt = 0] \in DeviceRuns
  BY <1>1 DEF DeviceRuns, ServerRuns
<1> QED
  BY <1>1, <1>2 DEF Mirrored

\* The run a device keeps is a run, whatever an answer or a read puts there.
LEMMA DeviceRunTyped ==
  ASSUME StudyTypeOK, MirrorRun \/ ReplayAnswered \/ ReconcileWrites \/ SeedWrites
  PROVE  run' \in DeviceRuns
<1>1. /\ run \in DeviceRuns /\ srv \in ServerRuns /\ NoRun \in DeviceRuns
      /\ FALSE \in BOOLEAN
  BY NewRunsTyped DEF StudyTypeOK
<1>2. CASE MirrorRun
  <2>1. call.what \in Calls /\ call.run \in ServerRuns
    BY <1>2 DEF MirrorRun, StudyTypeOK, NoCall, Requests, Replies
  <2> QED
    BY <1>1, <1>2, <2>1, FromServerTyped DEF MirrorRun
<1>3. CASE ReplayAnswered
  <2>1. replay \in Uploads
    BY <1>3 DEF ReplayAnswered, StudyTypeOK, NoReplay, Flushes, Uploads
  <2>2. replay.sid \in Nat
    BY <2>1 DEF Uploads
  <2>3. /\ [run EXCEPT !.dirty = FALSE, !.origin = "server"] \in DeviceRuns
        /\ [run EXCEPT !.sid = IF replay.sid # 0 THEN replay.sid ELSE @] \in DeviceRuns
    BY <1>1, <2>2 DEF DeviceRuns
  <2> QED
    BY <1>1, <1>3, <2>3 DEF ReplayAnswered
<1>4. CASE ReconcileWrites
  <2>1. read.run \in ServerRuns
    BY <1>4 DEF ReconcileWrites, StudyTypeOK, NoRead, Reads
  <2>2. [run EXCEPT !.dirty = FALSE, !.status = IF read.completed THEN "completed" ELSE @]
          \in DeviceRuns
    BY <1>1 DEF DeviceRuns, Statuses
  <2> QED
    BY <1>1, <1>4, <2>1, <2>2, FromServerTyped DEF ReconcileWrites
<1>5. CASE SeedWrites
  <2>1. read.run \in ServerRuns
    BY <1>5 DEF SeedWrites, StudyTypeOK, NoRead, Reads
  <2> QED
    BY <1>1, <1>5, <2>1, FromServerTyped DEF SeedWrites
<1> QED
  BY <1>2, <1>3, <1>4, <1>5

\* Nothing the invariant speaks of moves, or a delivery begins or is given up.
LEMMA OthersKeep ==
  ASSUME StudyTypeOK, StudyInv, UNCHANGED <<queue, graded, receipts, shown, settled>>,
         \/ UNCHANGED replay
         \/ replay' = NoReplay
         \/ replay' = [kind |-> "flush", left |-> Len(queue), acked |-> FALSE]
  PROVE  StudyInv'
<1>1. Len(queue) \in Nat
  BY DEF StudyTypeOK
<1>2. GradedOnce' /\ ShownKept' /\ ReceiptsTrue'
  BY DEF StudyInv, GradedOnce, ShownKept, ReceiptsTrue, AlreadyGraded, Waiting
<1>3. CASE UNCHANGED replay
  BY <1>2, <1>3 DEF StudyInv, FlushFits, AnswerIsTrue, AlreadyGraded
<1>4. CASE replay' = NoReplay
  BY <1>2, <1>4 DEF StudyInv, FlushFits, AnswerIsTrue, NoReplay
<1>5. CASE replay' = [kind |-> "flush", left |-> Len(queue), acked |-> FALSE]
  BY <1>1, <1>2, <1>5 DEF StudyInv, FlushFits, AnswerIsTrue
<1> QED
  BY <1>3, <1>4, <1>5

\* The device, the server and the queue begin empty.
LEMMA StudyBegins == StudyInit => StudyTypeOK /\ StudyInv
<1> SUFFICES ASSUME StudyInit PROVE StudyTypeOK /\ StudyInv
  OBVIOUS
<1>1. NoRun \in DeviceRuns /\ NoServerRun \in ServerRuns
  BY StudyNumbers DEF NoRun, NoServerRun, DeviceRuns, ServerRuns, Statuses, Stages, LastOutcomes
<1>2. finished \in BOOLEAN /\ refusals \in BOOLEAN /\ stale \in BOOLEAN
  BY Zenon DEF StudyInit
<1>3. StudyTypeOK
  <2>1. queue \in Seq(Operations) /\ graded \in Seq(Nat)
    BY DEF StudyInit
  <2> QED BY <1>1, <1>2, <2>1 DEF StudyInit, StudyTypeOK
<1>4. GradedOnce
  <2>1. Len(graded) = 0
    BY DEF StudyInit
  <2> QED BY <2>1 DEF GradedOnce
<1>5. ShownKept /\ FlushFits /\ AnswerIsTrue /\ ReceiptsTrue
  BY DEF StudyInit, ShownKept, FlushFits, AnswerIsTrue, ReceiptsTrue, NoReplay
<1> QED
  BY <1>3, <1>4, <1>5 DEF StudyInv

\* Every step keeps the types and the invariant.
LEMMA StudySteps ==
  ASSUME StudyTypeOK, StudyInv, [StudyNext]_studyVars
  PROVE  StudyTypeOK' /\ StudyInv'
<1>0. FALSE \in BOOLEAN /\ TRUE \in BOOLEAN
  OBVIOUS
<1>1. /\ run \in DeviceRuns /\ queue \in Seq(Operations)
      /\ call \in {NoCall} \cup Requests \cup Replies /\ overdue \subseteq Requests
      /\ read \in {NoRead} \cup Reads /\ replay \in {NoReplay} \cup Flushes \cup Uploads
      /\ srv \in ServerRuns /\ graded \in Seq(Nat) /\ receipts \subseteq Receipts
      /\ ids \in Nat /\ shown \subseteq Nat /\ settled \subseteq Nat
      /\ offline \in Nat /\ elsewhere \in Nat
  BY DEF StudyTypeOK
<1>2. finished \in BOOLEAN /\ refusals \in BOOLEAN /\ stale \in BOOLEAN
  BY DEF StudyTypeOK
<1>3. ASSUME NEW c \in Calls, CallLocally(c) PROVE StudyTypeOK' /\ StudyInv'
  <2>1. /\ AnswersLocally(c)
        /\ UNCHANGED <<call, overdue, read, replay, srv, graded, finished, receipts, settled,
                       refusals, stale, offline, elsewhere>>
    BY <1>3 DEF CallLocally
  <2>2. run' \in DeviceRuns /\ ids' \in Nat
    BY <1>3, <2>1, LocalAnswers
  <2>3. queue' \in Seq(Operations) /\ shown' \subseteq Nat /\ StudyInv'
    BY <1>3, <2>1, LocalKeeps
  <2> QED
    BY <1>1, <1>2, <2>1, <2>2, <2>3 DEF StudyTypeOK
<1>4. ASSUME NEW c \in Calls, CallOnline(c) PROVE StudyTypeOK' /\ StudyInv'
  <2>1. StudyInv'
    BY <1>4, OthersKeep DEF CallOnline
  <2>2. call' \in Requests
    BY <1>1, <1>4 DEF CallOnline, Requests, DeviceRuns
  <2> QED
    BY <1>1, <1>2, <1>4, <2>1, <2>2 DEF CallOnline, StudyTypeOK
<1>5. ASSUME NEW c \in Calls, ElsewhereCalls(c) PROVE StudyTypeOK' /\ StudyInv'
  <2> DEFINE q == [what |-> c, sid |-> srv.sid, attempt |-> srv.attempt]
  <2>1. q.what \in Calls /\ q.attempt \in Nat
    BY <1>1 DEF ServerRuns
  <2>2. /\ ServerAnswers(q, TRUE) /\ elsewhere' = elsewhere + 1
        /\ UNCHANGED <<run, queue, call, overdue, read, replay, receipts, shown, settled, refusals,
                       stale, offline>>
    BY <1>5 DEF ElsewhereCalls
  <2> HIDE DEF q
  <2>3. srv' \in ServerRuns /\ finished' \in BOOLEAN /\ ids' \in Nat
    BY <1>0, <2>1, <2>2, ServerAnswering
  <2>4. graded' \in Seq(Nat) /\ StudyInv'
    BY <1>0, <2>1, <2>2, ServerKeeps
  <2> QED
    BY <1>1, <1>2, <2>2, <2>3, <2>4 DEF StudyTypeOK
<1>6. ASSUME NEW ok \in BOOLEAN, ServerHandles(ok) PROVE StudyTypeOK' /\ StudyInv'
  <2>1. /\ call \in Requests /\ ServerAnswers(call, ok)
        /\ call' = IF ok THEN [kind |-> "answered", what |-> call.what, sid |-> call.sid,
                               attempt |-> call.attempt, run |-> srv']
                   ELSE NoCall
        /\ refusals' = (refusals \/ ~ok)
        /\ UNCHANGED <<run, queue, overdue, read, replay, receipts, shown, settled, stale, offline,
                       elsewhere>>
    BY <1>1, <1>6 DEF ServerHandles, NoCall, Requests, Replies
  <2>2. call.what \in Calls /\ call.sid \in Nat /\ call.attempt \in Nat
    BY <2>1 DEF Requests
  <2>3. srv' \in ServerRuns /\ finished' \in BOOLEAN /\ ids' \in Nat
    BY <2>1, <2>2, ServerAnswering
  <2>4. graded' \in Seq(Nat) /\ StudyInv'
    BY <2>1, <2>2, ServerKeeps
  <2>5. call' \in {NoCall} \cup Requests \cup Replies
    BY <2>1, <2>2, <2>3 DEF Replies
  <2>6. refusals' \in BOOLEAN
    BY <2>1, Zenon
  <2> QED
    BY <1>1, <1>2, <2>1, <2>3, <2>4, <2>5, <2>6 DEF StudyTypeOK
<1>7. ASSUME NEW ok \in BOOLEAN, NEW q \in overdue, LateHandled(q, ok)
      PROVE  StudyTypeOK' /\ StudyInv'
  <2>1. q.what \in Calls /\ q.attempt \in Nat
    BY <1>1 DEF Requests
  <2>2. /\ ServerAnswers(q, ok) /\ overdue' = overdue \ {q}
        /\ UNCHANGED <<run, queue, call, read, replay, receipts, shown, settled, refusals, stale,
                       offline, elsewhere>>
    BY <1>7 DEF LateHandled
  <2>3. srv' \in ServerRuns /\ finished' \in BOOLEAN /\ ids' \in Nat
    BY <2>1, <2>2, ServerAnswering
  <2>4. graded' \in Seq(Nat) /\ StudyInv'
    BY <2>1, <2>2, ServerKeeps
  <2> QED
    BY <1>1, <1>2, <2>2, <2>3, <2>4 DEF StudyTypeOK
<1>8. CASE MirrorRun
  <2>1. run' \in DeviceRuns
    BY <1>8, DeviceRunTyped
  <2>2. StudyInv'
    BY <1>8, OthersKeep DEF MirrorRun
  <2> QED
    BY <1>1, <1>2, <1>8, <2>1, <2>2 DEF MirrorRun, StudyTypeOK
<1>9. CASE FallsBack
  <2>1. /\ AnswersLocally(call.what) /\ call # NoCall /\ call' = NoCall
        /\ overdue' = overdue \/ (call.kind = "sent" /\ overdue' = {call})
        /\ offline' = offline + 1
        /\ UNCHANGED <<read, replay, srv, graded, finished, receipts, settled, refusals, stale,
                       elsewhere>>
    BY <1>9 DEF FallsBack
  <2>2. call.what \in Calls /\ (call.kind = "sent" => call \in Requests)
    BY <1>1, <2>1 DEF Requests, Replies
  <2>3. run' \in DeviceRuns /\ ids' \in Nat
    BY <2>1, <2>2, LocalAnswers
  <2>4. queue' \in Seq(Operations) /\ shown' \subseteq Nat /\ StudyInv'
    BY <2>1, <2>2, LocalKeeps
  <2>5. overdue' \subseteq Requests
    BY <1>1, <2>1, <2>2
  <2> QED
    BY <1>1, <1>2, <2>1, <2>3, <2>4, <2>5 DEF StudyTypeOK
<1>10. CASE StudyFlushBegins
  <2>1. StudyInv'
    BY <1>10, OthersKeep DEF StudyFlushBegins
  <2>2. replay' \in Flushes
    BY <1>0, <1>1, <1>10 DEF StudyFlushBegins, Flushes
  <2> QED
    BY <1>1, <1>2, <1>10, <2>1, <2>2 DEF StudyFlushBegins, StudyTypeOK
<1>11. CASE ReplayHead
  <2>1. /\ queue' \in Seq(Operations) /\ replay' \in Flushes \cup Uploads /\ graded' \in Seq(Nat)
        /\ receipts' \subseteq Receipts /\ settled' \subseteq Nat /\ StudyInv'
    BY <1>11, DeliveryKeeps
  <2>2. replay.left <= Len(queue)
    BY <1>11 DEF ReplayHead, StudyInv, FlushFits
  <2>3. srv' \in ServerRuns /\ finished' \in BOOLEAN
    BY <1>11, <2>2, ReplayStep
  <2>4. UNCHANGED <<run, call, overdue, read, ids, shown, refusals, stale, offline, elsewhere>>
    BY <1>11 DEF ReplayHead
  <2> QED
    BY <1>1, <1>2, <2>1, <2>3, <2>4 DEF StudyTypeOK
<1>12. CASE ReplayLost
  <2>1. StudyInv'
    BY <1>12, OthersKeep DEF ReplayLost
  <2> QED
    BY <1>1, <1>2, <1>12, <2>1 DEF ReplayLost, StudyTypeOK
<1>13. CASE ReplayAnswered
  <2>1. /\ queue' \in Seq(Operations) /\ replay' \in Flushes \cup Uploads /\ graded' \in Seq(Nat)
        /\ receipts' \subseteq Receipts /\ settled' \subseteq Nat /\ StudyInv'
    BY <1>13, DeliveryKeeps
  <2>2. run' \in DeviceRuns
    BY <1>13, DeviceRunTyped
  <2>3. stale' = (stale \/ replay.out \in Refusals)
    BY <1>13 DEF ReplayAnswered
  <2>4. stale' \in BOOLEAN
    BY <2>3, Zenon
  <2>5. UNCHANGED <<call, overdue, read, srv, finished, ids, shown, refusals, offline, elsewhere>>
    BY <1>13 DEF ReplayAnswered
  <2> QED
    BY <1>1, <1>2, <2>1, <2>2, <2>4, <2>5 DEF StudyTypeOK
<1>14. CASE ReconcileReads \/ SeedReads
  <2>1. StudyInv'
    BY <1>14, OthersKeep DEF ReconcileReads, SeedReads
  <2>2. Row("reconcile") \in Reads /\ Row("seed") \in Reads
    BY <1>1, <1>2 DEF Row, Reads
  <2>3. read' \in {NoRead} \cup Reads /\ replay' \in {NoReplay} \cup Flushes \cup Uploads
    BY <1>1, <1>14, <2>2 DEF ReconcileReads, SeedReads
  <2>4. UNCHANGED <<run, queue, call, overdue, srv, graded, finished, receipts, ids, shown, settled,
                    refusals, stale, offline, elsewhere>>
    BY <1>14 DEF ReconcileReads, SeedReads
  <2> QED
    BY <1>1, <1>2, <2>1, <2>3, <2>4 DEF StudyTypeOK
<1>15. CASE ReconcileWrites \/ SeedWrites
  <2>1. StudyInv'
    BY <1>15, OthersKeep DEF ReconcileWrites, SeedWrites
  <2>2. run' \in DeviceRuns
    BY <1>15, DeviceRunTyped
  <2>3. stale' = FALSE \/ stale' = (stale /\ ~SeedMay)
    BY <1>15 DEF ReconcileWrites, SeedWrites
  <2>4. stale' \in BOOLEAN
    BY <2>3, Zenon
  <2>5. /\ read' = NoRead
        /\ UNCHANGED <<queue, call, overdue, replay, srv, graded, finished, receipts, ids, shown,
                       settled, refusals, offline, elsewhere>>
    BY <1>15 DEF ReconcileWrites, SeedWrites
  <2> QED
    BY <1>1, <1>2, <2>1, <2>2, <2>4, <2>5 DEF StudyTypeOK
<1>16. CASE UNCHANGED studyVars
  <2>1. StudyInv'
    BY <1>16, OthersKeep DEF studyVars
  <2> QED
    BY <1>1, <1>2, <1>16, <2>1 DEF studyVars, StudyTypeOK
<1> QED
  BY <1>3, <1>4, <1>5, <1>6, <1>7, <1>8, <1>9, <1>10, <1>11, <1>12, <1>13, <1>14, <1>15, <1>16
  DEF StudyNext

\* Runs, calls, reads, operations and receipts keep their shape, through every
\* order of calls, answers, deliveries and availability reads.
THEOREM StudyTyped == StudySpec => [](StudyTypeOK /\ StudyInv)
<1>1. StudyInit => StudyTypeOK /\ StudyInv
  BY StudyBegins
<1>2. StudyTypeOK /\ StudyInv /\ [StudyNext]_studyVars => (StudyTypeOK /\ StudyInv)'
  BY StudySteps
<1> QED
  BY <1>1, <1>2, PTL DEF StudySpec

\* No attempt is graded twice, by whichever of the late request, the replay and
\* another device reaches submit first.
THEOREM AttemptsGradedOnce == StudySpec => []GradedOnce
<1>1. StudyInv => GradedOnce
  BY DEF StudyInv
<1> QED
  BY <1>1, StudyTyped, PTL

\* A result the device has shown is graded, queued or settled: none is dropped
\* between the device's transaction, the delivery and its receipt.
THEOREM ResultsAlwaysReachServer == StudySpec => []ResultsReachServer
<1>1. StudyInv => ResultsReachServer
  BY DEF StudyInv, ShownKept, AlreadyGraded, Waiting, ResultsReachServer
<1> QED
  BY <1>1, StudyTyped, PTL
=============================================================================
