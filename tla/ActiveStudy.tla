----------------------------- MODULE ActiveStudy -----------------------------
(***************************************************************************)
(* Managed Active Study with and without a connection: the device's run    *)
(* (frontend/src/offline/activeStudy.js), the calls of the workspace       *)
(* (CatalogFocusWorkspace.jsx) and the server's run                        *)
(* (backend/apps/focus/managed_active_study.py).                           *)
(*                                                                         *)
(* One sheet, edition, difficulty and style, downloaded on one device.     *)
(* The workspace makes one call at a time (activeStudyBusy).  A call goes  *)
(* to the server, or is answered by the device's own run; when the server  *)
(* does not answer in time the device carries on, and the request may      *)
(* still be running: it is then overdue.  Attempts finished on the device  *)
(* are queued and replayed (OfflineQueue's subject is that queue; here it  *)
(* is a sequence).  What is read before an await and written after it, the *)
(* answer to a call and an availability read, are separate steps.          *)
(* Questions and answers are left out: an attempt passes or fails.         *)
(***************************************************************************)
EXTENDS Naturals, Sequences

CONSTANTS Parts,       \* parts of the sheet
          MaxAttempts, \* bound: attempts opened, on the device or the server
          MaxRuns,     \* bound: runs the server starts
          MaxOffline,  \* bound: calls the server does not answer in time
          MaxLate,     \* bound: such requests that are still running
          MaxElsewhere \* bound: calls made on another device

ASSUME StudyNumbers == /\ Parts \in Nat \ {0}
                       /\ MaxAttempts \in Nat /\ MaxRuns \in Nat /\ MaxOffline \in Nat
                       /\ MaxLate \in Nat /\ MaxElsewhere \in Nat

VARIABLES
  run,       \* the "as-run:" record of the device
  queue,     \* operations the server has not acknowledged, oldest first
  call,      \* the workspace's call under way
  overdue,      \* requests the device gave up on that the server has not seen
  read,      \* an availability read under way (seed or reconcile)
  replay,    \* the upload of the head of the queue
  srv,       \* the server's latest run, with the attempts left open in earlier ones
  graded,    \* attempts the server has graded, in order
  finished,  \* a completed run exists at the server
  receipts,  \* operations replayed, with the answer kept for them
  ids,       \* attempt identifiers given so far
  shown,     \* history: attempts whose result the device has shown
  settled,   \* history: attempts the server answered as superseded or refused
  refusals,  \* history: the server has refused a call of this device
  stale,     \* history: an operation was refused since the run was last read
  offline,   \* calls not answered in time so far
  elsewhere  \* calls made on another device so far

studyVars == <<run, queue, call, overdue, read, replay, srv, graded, finished, receipts, ids,
               shown, settled, refusals, stale, offline, elsewhere>>

Actions == {"complete-reading", "study-again", "retry-final", "discard-attempt", "continue",
            "restart"}
Calls == Actions \cup {"start", "questions", "pass", "fail"}
Stages == {"reading", "checkpoint", "checkpoint_result", "final", "final_result"}

\* No run on the device, and none at the server; an attempt is 0 when none is
\* open.
NoRun == [status |-> "none", stage |-> "reading", part |-> 1, outcome |-> "none", attempt |-> 0,
          sid |-> 0, origin |-> "server", dirty |-> FALSE]
NoServerRun == [status |-> "none", stage |-> "reading", part |-> 1, outcome |-> "none",
                attempt |-> 0, sid |-> 0, left |-> {}]
NoCall == [kind |-> "none"]
NoRead == [kind |-> "none"]
NoReplay == [kind |-> "none"]

StudyInit ==
  /\ run = NoRun
  /\ queue = <<>>
  /\ call = NoCall
  /\ overdue = {}
  /\ read = NoRead
  /\ replay = NoReplay
  /\ srv = NoServerRun
  /\ graded = <<>>
  /\ finished = FALSE
  /\ receipts = {}
  /\ ids = 0
  /\ shown = {}
  /\ settled = {}
  /\ refusals = FALSE
  /\ stale = FALSE
  /\ offline = 0
  /\ elsewhere = 0

-----------------------------------------------------------------------------
(* The rules, on the device and on the server *)

\* advanceAfterPart, and what submit and continue_anyway do.
AdvanceAfterPart(r) ==
  IF r.part >= Parts THEN [r EXCEPT !.stage = "final"]
  ELSE [r EXCEPT !.part = @ + 1, !.stage = "reading"]

\* completed_parts holds p.
Completed(r, p) == p < r.part \/ (p = r.part /\ r.stage \in {"final", "final_result"})

Submitted(r, passed) ==
  LET s == [r EXCEPT !.attempt = 0, !.outcome = IF passed THEN "passed" ELSE "failed"]
  IN IF r.stage = "checkpoint"
     THEN IF passed THEN AdvanceAfterPart(s) ELSE [s EXCEPT !.stage = "checkpoint_result"]
     ELSE [s EXCEPT !.stage = "final_result",
                    !.status = IF passed THEN "completed" ELSE @]

\* The conditions of local.action, local.questions and local.submit.
DeviceAllows(r, c) ==
  CASE c = "complete-reading" -> r.status = "active" /\ r.stage = "reading"
    [] c = "study-again" -> r.stage = "checkpoint_result"
    [] c = "retry-final" -> r.status = "active" /\ r.stage = "final_result"
    [] c \in {"questions", "discard-attempt"} ->
         r.status = "active" /\ r.stage \in {"checkpoint", "final"}
    [] c = "continue" -> r.stage = "checkpoint_result" /\ r.outcome = "failed"
    [] c = "restart" -> r.status = "active"
    [] c \in {"pass", "fail"} -> r.attempt # 0 /\ r.stage \in {"checkpoint", "final"}
    [] c = "start" -> TRUE

\* The conditions of the server's operations, for its active run.
ServerAllows(r, c) ==
  CASE c = "complete-reading" -> r.stage = "reading"
    [] c = "study-again" -> r.stage = "checkpoint_result"
    [] c = "retry-final" -> r.stage = "final_result"
    [] c \in {"questions", "discard-attempt"} -> r.stage \in {"checkpoint", "final"}
    [] c = "continue" -> r.stage = "checkpoint_result"
    [] c = "restart" -> TRUE
    [] c \in {"pass", "fail"} -> r.stage \in {"checkpoint", "final"}
    [] c = "start" -> TRUE

\* What an allowed action other than start, questions and restart makes of a run.
AfterAction(r, c) ==
  CASE c = "complete-reading" -> [r EXCEPT !.stage = "checkpoint"]
    [] c = "study-again" -> [r EXCEPT !.stage = "reading", !.outcome = "study_again"]
    [] c = "retry-final" -> [r EXCEPT !.stage = "final", !.outcome = "retry_final"]
    [] c = "discard-attempt" -> [r EXCEPT !.attempt = 0]
    [] c = "continue" -> [AdvanceAfterPart(r) EXCEPT !.outcome = "continued_anyway"]
    [] c = "pass" -> Submitted(r, TRUE)
    [] c = "fail" -> Submitted(r, FALSE)

-----------------------------------------------------------------------------
(* The device's own answer: the functions of local *)

Operation(type, a, r, passed) ==
  [type |-> type, attempt |-> a, part |-> IF r.stage = "final" THEN 0 ELSE r.part,
   passed |-> passed]

\* Variant: the answer to a request the server may yet handle is not queued.
QueuedIfUnseen(o) == IF run.sid # 0 THEN queue ELSE Append(queue, o)

\* The operation is written in the transaction that writes the run.
Queued(o) == Append(queue, o)

NewLocalRun == [NoRun EXCEPT !.status = "active", !.origin = "local", !.dirty = TRUE]

\* The run, the queue and the identifiers after call c was answered here.  A
\* submitted attempt, a continue and a restart are queued with the run they
\* change; every other action changes the run alone.
AnswersLocally(c) ==
  \/ /\ c = "start"
     /\ run' = IF run.status = "active" THEN run ELSE NewLocalRun
     /\ UNCHANGED <<queue, ids, shown>>
  \/ /\ c = "restart"
     /\ DeviceAllows(run, c)
     /\ run' = NewLocalRun
     /\ queue' = Queued(Operation("restart", ids + 1, run, FALSE))
     /\ ids' = ids + 1
     /\ UNCHANGED shown
  \/ /\ c = "questions"
     /\ DeviceAllows(run, c)
     /\ run' = [run EXCEPT !.attempt = IF @ # 0 THEN @ ELSE ids + 1]
     /\ ids' = IF run.attempt # 0 THEN ids ELSE ids + 1
     /\ UNCHANGED <<queue, shown>>
  \/ /\ c \in {"pass", "fail"}
     /\ DeviceAllows(run, c)
     /\ run' = [AfterAction(run, c) EXCEPT !.dirty = TRUE]
     /\ queue' = Queued(Operation("attempt", run.attempt, run, c = "pass"))
     /\ shown' = shown \cup {run.attempt}
     /\ UNCHANGED ids
  \/ /\ c = "continue"
     /\ DeviceAllows(run, c)
     /\ run' = [AfterAction(run, c) EXCEPT !.dirty = TRUE]
     /\ queue' = Queued(Operation("continue", ids + 1, run, FALSE))
     /\ ids' = ids + 1
     /\ UNCHANGED shown
  \/ /\ c \in Actions \ {"restart", "continue"}
     /\ DeviceAllows(run, c)
     /\ run' = AfterAction(run, c)
     /\ UNCHANGED <<queue, ids, shown>>
  \/ /\ ~DeviceAllows(run, c)
     /\ UNCHANGED <<run, queue, ids, shown>>

\* route: unsynced work, or a run the server has not seen, stays here.
Unsynced == queue # <<>> \/ (run.origin = "local" /\ run.sid = 0)

\* What the workspace may ask for on the run it shows.
Wants(c) ==
  /\ ids < MaxAttempts
  /\ IF c = "start" THEN run.status # "active" ELSE run.status = "active" /\ DeviceAllows(run, c)
  /\ c = "questions" => run.attempt = 0
  /\ c = "discard-attempt" => run.attempt # 0

CallLocally(c) ==
  /\ call = NoCall
  /\ Wants(c)
  /\ Unsynced
  /\ AnswersLocally(c)
  /\ UNCHANGED <<call, overdue, read, replay, srv, graded, finished, receipts, settled, refusals, stale,
                 offline, elsewhere>>

CallOnline(c) ==
  /\ call = NoCall
  /\ Wants(c)
  /\ ~Unsynced
  /\ call' = [kind |-> "sent", what |-> c, sid |-> run.sid, attempt |-> run.attempt]
  /\ UNCHANGED <<run, queue, overdue, read, replay, srv, graded, finished, receipts, ids, shown,
                 settled, refusals, stale, offline, elsewhere>>

-----------------------------------------------------------------------------
(* The server's operations *)

\* A new run; an attempt that is open in the run it replaces stays there.
ServerRun(n) == [NoServerRun EXCEPT !.status = "active", !.sid = n,
                                    !.left = srv.left \cup ({srv.attempt} \ {0})]
Active == srv.status = "active"

Grades(a) == graded' = Append(graded, a)

\* Variant: nothing tells that an attempt was graded before.
NeverGraded(a) == FALSE

AlreadyGraded(a) == \E i \in 1..Len(graded) : graded[i] = a

\* submit of attempt a by its run: a graded attempt is answered again, not graded.
ServerSubmits(a, passed) ==
  LET r == Submitted(srv, passed)
  IN /\ srv' = r
     /\ Grades(a)
     /\ finished' = (finished \/ r.status = "completed")

\* The server's answer to request q: the run it returns, or a refusal.
ServerAnswers(q, ok) ==
  LET c == q.what
      mine == Active /\ srv.sid = q.sid
      already == AlreadyGraded(q.attempt)
  IN \/ /\ c = "start"
        /\ ok
        /\ Active \/ srv.sid < MaxRuns
        /\ srv' = IF Active THEN srv ELSE ServerRun(srv.sid + 1)
        /\ UNCHANGED <<graded, finished, ids>>
     \/ /\ c = "restart"
        /\ mine /\ ok
        /\ srv.sid < MaxRuns
        /\ srv' = ServerRun(srv.sid + 1)
        /\ UNCHANGED <<graded, finished, ids>>
     \/ /\ c = "questions"
        /\ mine /\ ServerAllows(srv, c) /\ ok
        /\ srv' = [srv EXCEPT !.attempt = IF @ # 0 THEN @ ELSE ids + 1]
        /\ ids' = IF srv.attempt # 0 THEN ids ELSE ids + 1
        /\ UNCHANGED <<graded, finished>>
     \/ /\ c \in {"pass", "fail"}
        /\ already /\ ok
        /\ UNCHANGED <<srv, graded, finished, ids>>
     \/ /\ c \in {"pass", "fail"}
        /\ ~already /\ mine /\ srv.attempt = q.attempt /\ ServerAllows(srv, c) /\ ok
        /\ ServerSubmits(q.attempt, c = "pass")
        /\ UNCHANGED ids
     \/ /\ c \in Actions \ {"restart"}
        /\ mine /\ ServerAllows(srv, c) /\ ok
        /\ srv' = AfterAction(srv, c)
        /\ UNCHANGED <<graded, finished, ids>>
     \/ /\ ~ok
        /\ c # "start"
        /\ ~(mine /\ ServerAllows(srv, c)
             /\ (c \in {"pass", "fail"} => srv.attempt = q.attempt))
        /\ c \in {"pass", "fail"} => ~already
        /\ UNCHANGED <<srv, graded, finished, ids>>

ServerHandles(ok) ==
  /\ call.kind = "sent"
  /\ ServerAnswers(call, ok)
  /\ call' = IF ok THEN [kind |-> "answered", what |-> call.what, sid |-> call.sid,
                         attempt |-> call.attempt, run |-> srv']
             ELSE NoCall
  /\ refusals' = (refusals \/ ~ok)
  /\ UNCHANGED <<run, queue, overdue, read, replay, receipts, shown, settled, stale, offline, elsewhere>>

\* A request the device gave up on reaches the server after all.
LateHandled(q, ok) ==
  /\ ServerAnswers(q, ok)
  /\ overdue' = overdue \ {q}
  /\ UNCHANGED <<run, queue, call, read, replay, receipts, shown, settled, refusals, stale, offline,
                 elsewhere>>

\* Another device of the student works on the run.
ElsewhereCalls(c) ==
  /\ elsewhere < MaxElsewhere
  /\ Active /\ ids < MaxAttempts
  /\ c \in {"pass", "fail"} => srv.attempt # 0
  /\ ServerAnswers([what |-> c, sid |-> srv.sid, attempt |-> srv.attempt], TRUE)
  /\ elsewhere' = elsewhere + 1
  /\ UNCHANGED <<run, queue, call, overdue, read, replay, receipts, shown, settled, refusals, stale,
                 offline>>

-----------------------------------------------------------------------------
(* The answer comes back to the device *)

\* fromServer: the open attempt survives while run and stage are the same.
FromServer(payload) ==
  [status |-> payload.status, stage |-> payload.stage, part |-> payload.part,
   outcome |-> payload.outcome, sid |-> payload.sid, origin |-> "server", dirty |-> FALSE,
   attempt |-> IF run.sid = payload.sid /\ run.stage = payload.stage THEN run.attempt ELSE 0]

\* The attempt mirrorRun is told of by each call.
Mirrored(c, payload) ==
  CASE c = "questions" -> [FromServer(payload) EXCEPT !.attempt = payload.attempt]
    [] c \in {"complete-reading", "discard-attempt", "retry-final", "restart", "pass", "fail"} ->
         [FromServer(payload) EXCEPT !.attempt = 0]
    [] OTHER -> FromServer(payload)

MirrorRun ==
  /\ call.kind = "answered"
  /\ run' = IF queue # <<>> THEN run ELSE Mirrored(call.what, call.run)
  /\ call' = NoCall
  /\ UNCHANGED <<queue, overdue, read, replay, srv, graded, finished, receipts, ids, shown, settled,
                 refusals, stale, offline, elsewhere>>

\* OFFLINE_FALLBACK_TIMEOUT_MS passes, or the connection is lost: the device
\* answers.  The request was handled already, is lost, or is still on its way.
FallsBack ==
  /\ call # NoCall
  /\ offline < MaxOffline
  /\ offline' = offline + 1
  /\ AnswersLocally(call.what)
  /\ call' = NoCall
  /\ \/ UNCHANGED overdue
     \/ /\ call.kind = "sent"
        /\ MaxLate > 0 /\ overdue = {}
        /\ overdue' = {call}
  /\ UNCHANGED <<read, replay, srv, graded, finished, receipts, settled, refusals, stale, elsewhere>>

-----------------------------------------------------------------------------
(* The queue is delivered *)

Refusals == {"out_of_order", "different_session"}

\* What replay_offline_attempt, _continue and _restart answer for operation o.
Outcome(o) ==
  LET gone == IF finished THEN "superseded" ELSE "out_of_order"
      passedBy == Completed(srv, o.part)
      applies == IF o.attempt \in srv.left THEN "different_session" ELSE "applied"
  IN CASE o.type = "restart" -> "applied"
       [] o.type = "attempt" ->
            IF AlreadyGraded(o.attempt) THEN "duplicate"
            ELSE IF ~Active THEN IF o.part = 1 THEN applies ELSE gone
            ELSE IF o.part = 0
              THEN IF srv.stage \in {"final", "final_result"} THEN applies ELSE "out_of_order"
            ELSE IF passedBy THEN "superseded"
            ELSE IF o.part > srv.part THEN "out_of_order"
            ELSE applies
       [] o.type = "continue" ->
            IF ~Active THEN gone
            ELSE IF passedBy THEN "superseded"
            ELSE IF o.part > srv.part \/ srv.stage # "checkpoint_result" THEN "out_of_order"
            ELSE "applied"

\* The stage the attempt was made at: study_again, complete_part_reading or
\* retry_final bring the run there; an attempt opened online is replaced.
BroughtTo(r, o) == [r EXCEPT !.stage = IF o.part = 0 THEN "final" ELSE "checkpoint",
                             !.attempt = o.attempt]

ReplayApplied(o) ==
  \/ /\ o.type = "restart"
     /\ srv.sid < MaxRuns
     /\ srv' = ServerRun(srv.sid + 1)
     /\ UNCHANGED <<graded, finished>>
  \/ /\ o.type = "continue"
     /\ srv' = AfterAction(srv, "continue")
     /\ UNCHANGED <<graded, finished>>
  \/ /\ o.type = "attempt"
     /\ Active \/ srv.sid < MaxRuns
     /\ LET base == IF Active THEN srv ELSE ServerRun(srv.sid + 1)
            r == Submitted(BroughtTo(base, o), o.passed)
        IN srv' = r /\ finished' = (finished \/ r.status = "completed")
     /\ Grades(o.attempt)

\* flushPendingOperations takes the operations there are now.
StudyFlushBegins ==
  /\ replay = NoReplay
  /\ queue # <<>>
  /\ replay' = [kind |-> "flush", left |-> Len(queue), acked |-> FALSE]
  /\ UNCHANGED <<run, queue, call, overdue, read, srv, graded, finished, receipts, ids, shown,
                 settled, refusals, stale, offline, elsewhere>>

ReceiptOf(o) == {x \in receipts : x.op = o.attempt /\ x.type = o.type}

\* apply_operation: a receipt answers an operation that was replayed before.
ReplayHead ==
  /\ replay.kind = "flush"
  /\ replay.left > 0
  /\ LET o == Head(queue)
         out == Outcome(o)
         said(result, sid) == [kind |-> "answered", left |-> replay.left, acked |-> replay.acked,
                               out |-> result, sid |-> sid]
     IN \/ \E x \in ReceiptOf(o) :
             /\ replay' = said(x.out, x.sid)
             /\ UNCHANGED <<srv, graded, finished, receipts>>
        \/ /\ ReceiptOf(o) = {}
           /\ IF out = "applied" THEN ReplayApplied(o) ELSE UNCHANGED <<srv, graded, finished>>
           /\ LET sid == IF out = "superseded" /\ ~Active THEN 0 ELSE srv'.sid
              IN /\ replay' = said(out, sid)
                 /\ receipts' = IF out \in Refusals THEN receipts
                                ELSE receipts \cup {[op |-> o.attempt, type |-> o.type,
                                                     out |-> out, sid |-> sid]}
  /\ UNCHANGED <<run, queue, call, overdue, read, ids, shown, settled, refusals, stale, offline,
                 elsewhere>>

\* The answer is lost: the operations left stay and are sent again.
ReplayLost ==
  /\ replay.kind = "answered"
  /\ offline < MaxOffline
  /\ offline' = offline + 1
  /\ replay' = NoReplay
  /\ UNCHANGED <<run, queue, call, overdue, read, srv, graded, finished, receipts, ids, shown,
                 settled, refusals, stale, elsewhere>>

\* adoptServerIds or onRejected; then the operation leaves the queue.
ReplayAnswered ==
  /\ replay.kind = "answered"
  /\ LET refused == replay.out \in Refusals
         o == Head(queue)
     IN /\ run' = IF run = NoRun THEN run
                  ELSE IF refused THEN [run EXCEPT !.dirty = FALSE, !.origin = "server"]
                  ELSE [run EXCEPT !.sid = IF replay.sid # 0 THEN replay.sid ELSE @]
        /\ settled' = IF replay.out \in Refusals \cup {"superseded"} /\ o.type = "attempt"
                      THEN settled \cup {o.attempt} ELSE settled
        /\ stale' = (stale \/ refused)
        /\ replay' = [kind |-> "flush", left |-> replay.left - 1,
                      acked |-> replay.acked \/ ~refused]
  /\ queue' = Tail(queue)
  /\ UNCHANGED <<call, overdue, read, srv, graded, finished, receipts, ids, shown, refusals,
                 offline, elsewhere>>

-----------------------------------------------------------------------------
(* Availability reads: seedActiveStudyRuns, reconcileActiveStudyRuns *)

Row(kind) == [kind |-> kind, run |-> srv, completed |-> finished]

\* reconcileAfterFlush, for a key with an acknowledged operation and none pending.
ReconcileReads ==
  /\ replay.kind = "flush"
  /\ replay.left = 0
  /\ read.kind # "reconcile"
  /\ read' = IF queue # <<>> \/ ~replay.acked THEN read ELSE Row("reconcile")
  /\ replay' = NoReplay
  /\ UNCHANGED <<run, queue, call, overdue, srv, graded, finished, receipts, ids, shown, settled,
                 refusals, stale, offline, elsewhere>>

\* The row read before the await is written over whatever the run is now.
ReconcileWrites ==
  /\ read.kind = "reconcile"
  /\ run' = IF read.run.status = "active" THEN FromServer(read.run)
            ELSE IF run = NoRun THEN run
            ELSE [run EXCEPT !.dirty = FALSE,
                             !.status = IF read.completed THEN "completed" ELSE @]
  /\ read' = NoRead
  /\ stale' = FALSE
  /\ UNCHANGED <<queue, call, overdue, replay, srv, graded, finished, receipts, ids, shown, settled,
                 refusals, offline, elsewhere>>

\* The sheet's entry is opened online.
SeedReads ==
  /\ read = NoRead
  /\ call = NoCall
  /\ read' = Row("seed")
  /\ UNCHANGED <<run, queue, call, overdue, replay, srv, graded, finished, receipts, ids, shown,
                 settled, refusals, stale, offline, elsewhere>>

SeedMay == queue = <<>> /\ ~run.dirty

SeedWrites ==
  /\ read.kind = "seed"
  /\ run' = IF ~SeedMay THEN run
            ELSE IF read.run.status = "active" THEN FromServer(read.run)
            ELSE IF run.status = "active" THEN NoRun
            ELSE run
  /\ read' = NoRead
  /\ stale' = (stale /\ ~SeedMay)
  /\ UNCHANGED <<queue, call, overdue, replay, srv, graded, finished, receipts, ids, shown, settled,
                 refusals, offline, elsewhere>>

StudyNext ==
  \/ \E c \in Calls : CallLocally(c) \/ CallOnline(c) \/ ElsewhereCalls(c)
  \/ \E ok \in BOOLEAN : ServerHandles(ok) \/ \E q \in overdue : LateHandled(q, ok)
  \/ MirrorRun \/ FallsBack
  \/ StudyFlushBegins \/ ReplayHead \/ ReplayLost \/ ReplayAnswered
  \/ ReconcileReads \/ ReconcileWrites \/ SeedReads \/ SeedWrites

StudySpec == StudyInit /\ [][StudyNext]_studyVars

-----------------------------------------------------------------------------
(* Properties *)

\* An attempt counts once: one that was submitted online, given up on after
\* OFFLINE_FALLBACK_TIMEOUT_MS, answered on the device and queued, and whose
\* first request reaches the server in the end, before or after the replay, is
\* graded only by the first of the two (submit, replay_offline_attempt).
GradedOnce == \A i, j \in 1..Len(graded) : graded[i] = graded[j] => i = j

\* A result the device has shown is not forgotten: the attempt is graded at the
\* server, waits in the queue, or was answered there as superseded or refused,
\* whatever run the server's copies have put on the device meanwhile
\* (docs/OFFLINE_MODE.md: "Each submitted checkpoint or Final Exam becomes one
\* immutable active_study_attempt operation").
ResultsReachServer ==
  \A a \in shown : \/ \E i \in 1..Len(graded) : graded[i] = a
                   \/ \E i \in 1..Len(queue) : queue[i].attempt = a
                   \/ a \in settled

StudyQuiet == queue = <<>> /\ call = NoCall /\ read = NoRead /\ replay = NoReplay

Reached(r) == IF r.stage \in {"final", "final_result"} THEN r.part + 1 ELSE r.part

\* When nothing is queued or under way and the device and the server are in the
\* same run, the device is not further in the sheet than the server: no part
\* has been passed or skipped on the device only.  A refused operation leaves
\* the device ahead until the next availability read (onRejected).
NothingAheadOfServer ==
  StudyQuiet /\ ~stale /\ run.status = "active" /\ Active /\ run.sid = srv.sid
    => Reached(run) <= Reached(srv)

\* route's comment and docs/OFFLINE_MODE.md: "A run that has unsynced work, or
\* that the server has not seen yet, stays local until the queue delivers it,
\* so events never reach the server out of order": no call of this device is
\* refused by the server for the state its run is in.
NeverOutOfOrder == ~refusals
=============================================================================
