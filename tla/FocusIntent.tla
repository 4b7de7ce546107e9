----------------------------- MODULE FocusIntent -----------------------------
(***************************************************************************)
(* The intent to sync a Focus document, kept in the offline queue          *)
(* (frontend/src/offline/focusSync.js, queue.js flushLocalOperation and    *)
(* the calls of CatalogFocusWorkspace.jsx).                                *)
(*                                                                         *)
(* One document.  The reader has it open in one tab, "reader"; the queue   *)
(* may be flushed by that tab or by another one, which does not know that  *)
(* the document is open.  What the document holds is a version: the number *)
(* of changes made to it.  How versions are merged is FocusSync's subject. *)
(* Each call that lists the queue and then writes to it is two steps, for  *)
(* the await between them.                                                 *)
(***************************************************************************)
EXTENDS Naturals, FiniteSets

CONSTANTS FlushTabs,   \* tabs that flush the queue; "reader" is one of them
          MaxEdits,    \* bound: changes the student makes
          MaxPushFailures, \* bound: pushes and flushes that fail
          MaxVisits    \* bound: times the document is opened

VARIABLES
  open,     \* the reader's workspace is mounted (openDocuments of its tab)
  visits,   \* times it was opened
  memory,   \* version on the screen
  stored,   \* version in the annotation store
  server,   \* version the server holds
  timer,    \* serverSyncTimerRef is set
  now,      \* the clock: moves whenever a timestamp is taken
  ops,      \* focus_document_sync records of the queue
  marks,    \* markFocusDocumentDirty calls under way
  acks,     \* acknowledgeFocusDocument calls under way
  push,     \* the workspace's push
  flush,    \* flushLocalOperation of each tab
  failures

intentVars == <<open, visits, memory, stored, server, timer, now, ops, marks, acks,
                push, flush, failures>>

NoOp == [id |-> 0]
NoPush == [pc |-> "none"]
NoFlush == [pc |-> "none"]
Later(a, b) == IF a < b THEN b ELSE a

IntentInit ==
  /\ open = FALSE
  /\ visits = 0
  /\ memory = 0 /\ stored = 0 /\ server = 0
  /\ timer = FALSE
  /\ now = 0
  /\ ops = {}
  /\ marks = {}
  /\ acks = {}
  /\ push = NoPush
  /\ flush = [t \in FlushTabs |-> NoFlush]
  /\ failures = 0

\* existingOperation: an unfinished record of the document, if there is one.
Existing == {o \in ops : o.status \in {"pending", "retry"}}
Listed == IF Existing = {} THEN {NoOp} ELSE Existing
Put(o) == {p \in ops : p.id # o.id} \cup {o}

-----------------------------------------------------------------------------
(* The workspace *)

OpenDocument ==
  /\ ~open
  /\ visits < MaxVisits
  /\ open' = TRUE
  /\ visits' = visits + 1
  /\ memory' = stored
  /\ UNCHANGED <<stored, server, timer, now, ops, marks, acks, push, flush, failures>>

Draw ==
  /\ open
  /\ memory < MaxEdits
  /\ memory' = memory + 1
  /\ UNCHANGED <<open, visits, stored, server, timer, now, ops, marks, acks, push, flush,
                 failures>>

\* What persistWorkspace does once the store is written: markDocumentDirty.
Saved == /\ stored' = memory
         /\ now' = now + 1
         /\ marks' = marks \cup {[pc |-> "list", dirty |-> now + 1, upto |-> memory,
                                  seen |-> NoOp]}

\* The autosave; of saves that find nothing new only the one on leaving is kept.
Persist ==
  /\ open
  /\ stored < memory
  /\ Saved
  /\ timer' = TRUE
  /\ UNCHANGED <<open, visits, memory, server, ops, acks, push, flush, failures>>

\* The workspace is left: the timer is dropped and the document saved and
\* marked once more, changed or not, unless it was not read yet (hydratedRef).
LeaveDocument ==
  /\ open
  /\ open' = FALSE
  /\ timer' = FALSE
  /\ Saved \/ (stored = memory /\ UNCHANGED <<stored, now, marks>>)
  /\ UNCHANGED <<visits, memory, server, ops, acks, push, flush, failures>>

\* scheduleServerSync's timer: a push of what is on the screen, with a
\* timestamp of its own.  A push under way takes the newer snapshot along.
\* Before the server's copy is loaded (isLoaded) nothing is sent.
PushStarts ==
  /\ timer
  /\ timer' = FALSE
  /\ \/ /\ now' = now + 1
        /\ push' = [pc |-> "sent", savedAt |-> now + 1, content |-> memory, acks |-> TRUE]
     \/ push = NoPush /\ UNCHANGED <<now, push>>
  /\ UNCHANGED <<open, visits, memory, stored, server, ops, marks, acks, flush, failures>>

PushSynced ==
  /\ push.pc = "sent"
  /\ server' = Later(server, push.content)
  /\ acks' = IF push.acks THEN acks \cup {[pc |-> "list", savedAt |-> push.savedAt, seen |-> NoOp]}
             ELSE acks
  /\ push' = NoPush
  /\ UNCHANGED <<open, visits, memory, stored, timer, now, ops, marks, flush, failures>>

PushOffline ==
  /\ push.pc = "sent"
  /\ failures < MaxPushFailures
  /\ failures' = failures + 1
  /\ push' = [push EXCEPT !.pc = "offline"]
  /\ UNCHANGED <<open, visits, memory, stored, server, timer, now, ops, marks, acks, flush>>

\* subscribeConnection: sync.retry() of an open workspace, whose result nobody
\* acknowledges.
PushRetried ==
  /\ push.pc = "offline"
  /\ \/ open /\ push' = [push EXCEPT !.pc = "sent", !.acks = FALSE]
     \/ ~open /\ push' = NoPush
  /\ UNCHANGED <<open, visits, memory, stored, server, timer, now, ops, marks, acks, flush,
                 failures>>

-----------------------------------------------------------------------------
(* The queue's records *)

MarkLists(m) ==
  /\ m.pc = "list"
  /\ \E o \in Listed :
       marks' = (marks \ {m}) \cup
                (IF o # NoOp /\ o.dirty >= m.dirty THEN {}
                 ELSE {[m EXCEPT !.pc = "write", !.seen = o]})
  /\ UNCHANGED <<open, visits, memory, stored, server, timer, now, ops, acks, push, flush,
                 failures>>

\* saveOperation over the record that was listed, or enqueueOperation.
MarkWrites(m) ==
  /\ m.pc = "write"
  /\ marks' = marks \ {m}
  /\ ops' = IF m.seen # NoOp
            THEN Put([m.seen EXCEPT !.dirty = m.dirty, !.upto = m.upto])
            ELSE Put([id |-> m.dirty, dirty |-> m.dirty, upto |-> m.upto, status |-> "pending"])
  /\ UNCHANGED <<open, visits, memory, stored, server, timer, now, acks, push, flush, failures>>

\* Variant: whatever is recorded is acknowledged.
AcknowledgesAny(o, savedAt) == TRUE

Acknowledges(o, savedAt) == o.dirty <= savedAt

AckLists(a) ==
  /\ a.pc = "list"
  /\ \E o \in Listed :
       acks' = (acks \ {a}) \cup
               (IF o # NoOp /\ Acknowledges(o, a.savedAt)
                THEN {[a EXCEPT !.pc = "remove", !.seen = o]} ELSE {})
  /\ UNCHANGED <<open, visits, memory, stored, server, timer, now, ops, marks, push, flush,
                 failures>>

AckRemoves(a) ==
  /\ a.pc = "remove"
  /\ acks' = acks \ {a}
  /\ ops' = {o \in ops : o.id # a.seen.id}
  /\ UNCHANGED <<open, visits, memory, stored, server, timer, now, marks, push, flush, failures>>

-----------------------------------------------------------------------------
(* flushLocalOperation, flushDocument *)

OpenHere(t) == t = "reader" /\ open

\* The record is taken from the list of the run; a document open in this tab
\* is left alone.
FlushBegins(t) ==
  /\ flush[t].pc = "none"
  /\ ~OpenHere(t)
  /\ \E o \in Existing : flush' = [flush EXCEPT ![t] = [pc |-> "read", op |-> o]]
  /\ UNCHANGED <<open, visits, memory, stored, server, timer, now, ops, marks, acks, push,
                 failures>>

FlushReads(t) ==
  /\ flush[t].pc = "read"
  /\ flush' = [flush EXCEPT ![t] = [pc |-> "merge", op |-> @.op, content |-> stored]]
  /\ UNCHANGED <<open, visits, memory, stored, server, timer, now, ops, marks, acks, push,
                 failures>>

\* The server's copy has been loaded and merged; the push is under way.  That
\* changes of another device are written to the annotation store is left out:
\* the document's only changes here are the reader's.
FlushSends(t) ==
  /\ flush[t].pc = "merge"
  /\ flush' = [flush EXCEPT ![t] = IF OpenHere(t) THEN NoFlush ELSE [@ EXCEPT !.pc = "sent"]]
  /\ UNCHANGED <<open, visits, memory, stored, server, timer, now, ops, marks, acks, push,
                 failures>>

FlushSynced(t) ==
  /\ flush[t].pc = "sent"
  /\ server' = Later(server, flush[t].content)
  /\ flush' = [flush EXCEPT ![t] = [@ EXCEPT !.pc = "remove"]]
  /\ UNCHANGED <<open, visits, memory, stored, timer, now, ops, marks, acks, push, failures>>

FlushRemoves(t) ==
  /\ flush[t].pc = "remove"
  /\ ops' = {o \in ops : o.id # flush[t].op.id}
  /\ flush' = [flush EXCEPT ![t] = NoFlush]
  /\ UNCHANGED <<open, visits, memory, stored, server, timer, now, marks, acks, push, failures>>

\* The load or the push fails: the record that was read is written again, to
\* be tried later or, for a refusal, to be shown in Settings.
FlushFails(t, status) ==
  /\ flush[t].pc \in {"merge", "sent"}
  /\ failures < MaxPushFailures
  /\ failures' = failures + 1
  /\ ops' = Put([flush[t].op EXCEPT !.status = status])
  /\ flush' = [flush EXCEPT ![t] = NoFlush]
  /\ UNCHANGED <<open, visits, memory, stored, server, timer, now, marks, acks, push>>

IntentNext ==
  \/ OpenDocument \/ Draw \/ Persist \/ LeaveDocument
  \/ PushStarts \/ PushSynced \/ PushOffline \/ PushRetried
  \/ \E m \in marks : MarkLists(m) \/ MarkWrites(m)
  \/ \E a \in acks : AckLists(a) \/ AckRemoves(a)
  \/ \E t \in FlushTabs :
       \/ FlushBegins(t) \/ FlushReads(t) \/ FlushSends(t) \/ FlushSynced(t)
       \/ FlushRemoves(t)
       \/ \E status \in {"retry", "failed"} : FlushFails(t, status)

IntentSpec == IntentInit /\ [][IntentNext]_intentVars

-----------------------------------------------------------------------------
(* Properties *)

\* "The server now holds everything saved up to savedAt": whoever is about to
\* remove the record, acknowledgeFocusDocument for a push of the workspace or
\* flushLocalOperation for a flush of either tab, has seen the server take at
\* least what the record stood for when it was read, whichever pushes, saves
\* and flushes overlapped.
ForgottenIsHeld ==
  /\ \A a \in acks : a.pc = "remove" => server >= a.seen.upto
  /\ \A t \in FlushTabs : flush[t].pc = "remove" => server >= flush[t].op.upto

FocusQuiet == ~open /\ marks = {} /\ acks = {} /\ push = NoPush
              /\ \A t \in FlushTabs : flush[t] = NoFlush

\* focusSync.js: "a document changed while offline is recorded here, so it
\* reaches the server on the next connection even if the sheet is never opened
\* again".
IntentIsDurable == FocusQuiet /\ stored > server => ops # {}

=============================================================================
