------------------------------ MODULE AppUpdate ------------------------------
(***************************************************************************)
(* When a newer build of the app takes over                                *)
(* (frontend/src/pwa/updateManager.js, over the browser's service worker   *)
(* registration and frontend/src/service-worker.js).                       *)
(*                                                                         *)
(* Windows of one browser share the registration: an active worker, one    *)
(* that waits beside it and one that is being installed, each known by the *)
(* number of its build.  A window runs the build it was loaded with.  The  *)
(* browser's events reach each window in a step of their own, after the    *)
(* registration has changed.  A check is an update() request, then a wait  *)
(* for the installation.  Delays and intervals are left out, a timer may   *)
(* fire at any time, and so is "Later", which hides the prompt for a while.*)
(***************************************************************************)
EXTENDS Naturals

CONSTANTS Windows,     \* windows of the app
          MaxBuilds,   \* bound: builds deployed
          MaxFailures, \* bound: checks, installations and activations that fail
          MaxOpens,    \* bound: times a window is opened by its reader
          MaxChecks,   \* bound: checks that are asked for
          MaxDrops     \* bound: times the connection is lost

VARIABLES
  deployed, \* the build the server has
  active, waiting, installing, \* workers of the registration, 0 for none
  told,     \* builds that were sent SKIP_WAITING
  win,      \* each window and its update manager
  inbox,    \* events each window has yet to handle
  online,   \* navigator.onLine
  failed,   \* failures so far
  opens,    \* windows opened so far
  checks,   \* checks asked for so far
  drops     \* times the connection was lost so far

updateVars == <<deployed, active, waiting, installing, told, win, inbox, online, failed, opens, checks, drops>>

\* A window before its manager is attached.  flight is the check under way,
\* target the worker it has asked to take over; missed and shaken are history:
\* it was loaded without a worker, or the worker changed before the manager was
\* attached or while a check was under way, whose end then overwrites what the
\* window says; a check failed after a worker had begun to wait.
NewWindow(b, controlled) ==
  [open |-> TRUE, build |-> b, controlled |-> controlled, attached |-> FALSE,
   had |-> FALSE, changed |-> FALSE, status |-> "idle",
   flight |-> "none", manual |-> FALSE, prev |-> "idle", queued |-> FALSE,
   target |-> 0, missed |-> ~controlled, shaken |-> FALSE]

ClosedWindow == [NewWindow(0, FALSE) EXCEPT !.open = FALSE]

UpdateInit ==
  /\ deployed = 1
  /\ active = 0 /\ waiting = 0 /\ installing = 0
  /\ told = {}
  /\ win = [w \in Windows |-> ClosedWindow]
  /\ inbox = [w \in Windows |-> {}]
  /\ online = TRUE
  /\ failed = 0
  /\ opens = 0 /\ checks = 0 /\ drops = 0

HasUpdate == waiting # 0 /\ active # 0
Attached(w) == win[w].open /\ win[w].attached
Opened == {w \in Windows : win[w].open}

\* Each window with an attached manager will see event e.
Sends(e) == inbox' = [w \in Windows |-> IF Attached(w) THEN inbox[w] \cup {e} ELSE inbox[w]]

\* Variant: a worker that waits already is not looked for.
NotSynced(r) == r

\* syncFromRegistration
Synced(r) ==
  IF HasUpdate /\ r.status \notin {"updating", "reloadRequired"}
  THEN [r EXCEPT !.status = "updateAvailable"] ELSE r

-----------------------------------------------------------------------------
(* Windows, the server and the browser *)

Deploy ==
  /\ deployed < MaxBuilds
  /\ deployed' = deployed + 1
  /\ UNCHANGED <<active, waiting, installing, told, win, inbox, online, failed, opens, checks, drops>>

\* The page comes from the active worker, or from the server when there is none.
Loaded == NewWindow(IF active # 0 THEN active ELSE deployed, active # 0)

OpenWindow(w) ==
  /\ ~win[w].open
  /\ active # 0 \/ online
  /\ opens < MaxOpens
  /\ opens' = opens + 1
  /\ win' = [win EXCEPT ![w] = Loaded]
  /\ UNCHANGED <<deployed, active, waiting, installing, told, inbox, online, failed, checks, drops>>

CloseWindow(w) ==
  /\ win[w].open
  /\ win' = [win EXCEPT ![w] = ClosedWindow]
  /\ inbox' = [inbox EXCEPT ![w] = {}]
  /\ UNCHANGED <<deployed, active, waiting, installing, told, online, failed, opens, checks, drops>>

\* registerSW and attach: the first registration installs the first worker.
Attach(w) ==
  /\ win[w].open /\ ~win[w].attached
  /\ win' = [win EXCEPT ![w] = Synced([@ EXCEPT !.attached = TRUE, !.had = win[w].controlled])]
  /\ installing' = IF active = 0 /\ installing = 0 THEN deployed ELSE installing
  /\ UNCHANGED <<deployed, active, waiting, told, inbox, online, failed, opens, checks, drops>>

\* Worker b becomes the active one and claims every window (clientsClaim).
ClaimsWindows(b) ==
  /\ active' = b
  /\ win' = [w \in Windows |-> 
       IF win[w].open THEN [win[w] EXCEPT !.controlled = TRUE, !.missed = @ \/ ~win[w].attached]
       ELSE win[w]]

\* The first worker activates at once; a later one waits.
InstallDone ==
  /\ installing # 0
  /\ installing' = 0
  /\ \/ active = 0 /\ ClaimsWindows(installing) /\ UNCHANGED waiting /\ Sends("controller")
     \/ active # 0 /\ waiting' = installing /\ UNCHANGED <<active, win>> /\ Sends("installed")
  /\ UNCHANGED <<deployed, told, online, failed, opens, checks, drops>>

InstallFails ==
  /\ installing # 0 /\ active # 0
  /\ failed < MaxFailures
  /\ failed' = failed + 1
  /\ installing' = 0
  /\ Sends("redundant")
  /\ UNCHANGED <<deployed, active, waiting, told, win, online, opens, checks, drops>>

\* A waiting worker takes over when it was told to, or when no window is left.
Activate ==
  /\ waiting # 0
  /\ waiting \in told \/ Opened = {}
  /\ ClaimsWindows(waiting)
  /\ waiting' = 0
  /\ Sends("controller")
  /\ UNCHANGED <<deployed, installing, told, online, failed, opens, checks, drops>>

-----------------------------------------------------------------------------
(* check *)

\* The manager's state after check(manual), when no check is under way.
Checked(r, manual) ==
  IF r.status \in {"updating", "reloadRequired"} THEN r
  ELSE IF HasUpdate THEN [r EXCEPT !.status = "updateAvailable"]
  ELSE IF ~online THEN [r EXCEPT !.status = "offline"]
  ELSE [r EXCEPT !.status = "checking", !.flight = "update", !.manual = manual,
                 !.prev = IF r.status = "checking" THEN "idle" ELSE r.status]

\* A trigger or the Settings button; a manual check that finds an automatic
\* one under way is made after it.
Check(w, manual) ==
  /\ Attached(w)
  /\ checks < MaxChecks
  /\ checks' = checks + 1
  /\ win' = [win EXCEPT ![w] = IF @.flight = "none" THEN Checked(@, manual)
                               ELSE [win[w] EXCEPT !.queued = @ \/ (manual /\ ~win[w].manual)]]
  /\ UNCHANGED <<deployed, active, waiting, installing, told, inbox, online, failed, opens, drops>>

Newest == IF installing # 0 THEN installing ELSE IF waiting # 0 THEN waiting ELSE active

UpdateAnswered(w) ==
  /\ win[w].flight = "update"
  /\ online
  /\ installing' = IF deployed > Newest THEN deployed ELSE installing
  /\ win' = [win EXCEPT ![w].flight = "install"]
  /\ UNCHANGED <<deployed, active, waiting, told, inbox, online, failed, opens, checks, drops>>

\* The check ends; a manual one that was asked for meanwhile begins.
Ended(r) ==
  LET s == [r EXCEPT !.flight = "none", !.queued = FALSE]
  IN IF r.queued THEN Checked(s, TRUE) ELSE s

\* waitForInstall is over: the installation ended, or it is not waited for
\* any longer.
InstallAwaited(w) ==
  /\ win[w].flight = "install"
  /\ win' = [win EXCEPT ![w] =
        Ended([win[w] EXCEPT !.status = IF HasUpdate THEN "updateAvailable"
                                        ELSE IF installing # 0 THEN @
                                        ELSE "upToDate"])]
  /\ UNCHANGED <<deployed, active, waiting, installing, told, inbox, online, failed, opens, checks, drops>>

\* update() fails or takes too long.
UpdateFails(w) ==
  /\ win[w].flight = "update"
  /\ failed < MaxFailures
  /\ failed' = failed + 1
  /\ win' = [win EXCEPT ![w] =
        Ended([win[w] EXCEPT !.shaken = @ \/ HasUpdate,
                             !.status = IF ~online THEN "offline"
                                        ELSE IF win[w].manual THEN "error"
                                        ELSE IF win[w].prev \in {"idle", "upToDate", "offline", "error"}
                                        THEN win[w].prev ELSE "idle"])]
  /\ UNCHANGED <<deployed, active, waiting, installing, told, inbox, online, opens, checks, drops>>

-----------------------------------------------------------------------------
(* applyUpdate *)

Reloads(w) == /\ win' = [win EXCEPT ![w] = Loaded]
              /\ inbox' = [inbox EXCEPT ![w] = {}]

\* "Update now".  The events the window had queued come before the press.
ApplyUpdate(w) ==
  /\ Attached(w)
  /\ inbox[w] = {}
  /\ win[w].target = 0
  /\ win[w].status \in {"updateAvailable", "reloadRequired"}
  /\ \/ /\ win[w].status = "reloadRequired" \/ (waiting = 0 /\ win[w].changed)
        /\ Reloads(w)
        /\ UNCHANGED told
     \/ /\ win[w].status # "reloadRequired" /\ waiting = 0 /\ ~win[w].changed
        /\ win[w].flight = "none"
        /\ win' = [win EXCEPT ![w] = Checked(@, TRUE)]
        /\ UNCHANGED <<told, inbox>>
     \/ /\ win[w].status # "reloadRequired" /\ waiting # 0
        /\ told' = told \cup {waiting}
        /\ win' = [win EXCEPT ![w].status = "updating", ![w].target = waiting]
        /\ UNCHANGED inbox
  /\ UNCHANGED <<deployed, active, waiting, installing, online, failed, opens, checks, drops>>

\* What finish(false) leaves.
NotApplied(r) == [r EXCEPT !.target = 0,
                           !.status = IF HasUpdate THEN "updateAvailable" ELSE "error"]

\* Variant: the worker is taken to be active once the time is up.
TookOverByNow(w) == TRUE

TookOver(w) == active = win[w].target

\* ACTIVATION_TIMEOUT_MS passes, or the message could not be sent.
ActivationTimeout(w) ==
  /\ win[w].target # 0
  /\ failed < MaxFailures
  /\ failed' = failed + 1
  /\ \/ TookOver(w) /\ Reloads(w)
     \/ ~TookOver(w) /\ win' = [win EXCEPT ![w] = NotApplied(@)] /\ UNCHANGED inbox
  /\ UNCHANGED <<deployed, active, waiting, installing, told, online, opens, checks, drops>>

-----------------------------------------------------------------------------
(* Events of the registration and of the network *)

Handles(w, e) == /\ e \in inbox[w]
                 /\ inbox' = [inbox EXCEPT ![w] = @ \ {e}]
                 /\ UNCHANGED <<deployed, active, waiting, installing, told, online, failed, opens, checks, drops>>

InstalledEvent(w) ==
  /\ win' = [win EXCEPT ![w] = Synced(@)]
  /\ Handles(w, "installed")

RedundantEvent(w) ==
  /\ win' = [win EXCEPT ![w].status =
        IF @ = "checking" /\ win[w].flight = "none"
        THEN IF HasUpdate THEN "updateAvailable" ELSE "error" ELSE @]
  /\ Handles(w, "redundant")

\* Variant: the change is noted, the window says nothing.
ControllerNoted(r) == [r EXCEPT !.had = TRUE, !.changed = r.had \/ @]

\* What onControllerChange makes of a window that is not applying an update.
ControllerChanged(r) ==
  [r EXCEPT !.had = TRUE, !.changed = r.had \/ @,
            !.status = IF r.had THEN "reloadRequired" ELSE @,
            !.missed = @ \/ r.flight # "none"]

\* applyUpdate's own listener reloads the window that asked.
ReloadsOnChange(r) == r.target # 0

ControllerEvent(w) ==
  /\ "controller" \in inbox[w]
  /\ \/ ReloadsOnChange(win[w]) /\ Reloads(w)
     \/ /\ ~ReloadsOnChange(win[w])
        /\ win' = [win EXCEPT ![w] = ControllerChanged(@)]
        /\ inbox' = [inbox EXCEPT ![w] = @ \ {"controller"}]
  /\ UNCHANGED <<deployed, active, waiting, installing, told, online, failed, opens, checks, drops>>

\* online and offline events; a return checks again.
ConnectionChanges ==
  /\ online => drops < MaxDrops
  /\ online' = ~online
  /\ drops' = IF online THEN drops + 1 ELSE drops
  /\ win' = [w \in Windows |->
       IF ~Attached(w) THEN win[w]
       ELSE IF online
       THEN [win[w] EXCEPT !.status = IF @ \in {"idle", "upToDate", "error"} THEN "offline" ELSE @]
       ELSE [win[w] EXCEPT !.status = IF @ = "offline" THEN "idle" ELSE @]]
  /\ UNCHANGED <<deployed, active, waiting, installing, told, inbox, failed, opens, checks>>

UpdateNext ==
  \/ Deploy \/ InstallDone \/ InstallFails \/ Activate \/ ConnectionChanges
  \/ \E w \in Windows :
       \/ OpenWindow(w) \/ CloseWindow(w) \/ Attach(w)
       \/ \E manual \in BOOLEAN : Check(w, manual)
       \/ UpdateAnswered(w) \/ InstallAwaited(w) \/ UpdateFails(w)
       \/ ApplyUpdate(w) \/ ActivationTimeout(w)
       \/ InstalledEvent(w) \/ RedundantEvent(w) \/ ControllerEvent(w)

UpdateSpec == UpdateInit /\ [][UpdateNext]_updateVars

-----------------------------------------------------------------------------
(* Properties *)

\* A window is reloaded only into a newer build: whichever of two windows asked
\* for the update, and whether the change of controller or the timeout ended the
\* wait, "Update now" never reloads a window for nothing, and so never in a
\* circle.  Left out (missed): a window whose worker changed before its manager
\* was attached, or during a check.
ReloadBringsNewBuild ==
  [][\A w \in Windows : Attached(w) /\ ~win[w].missed /\ win'[w].open /\ ~win'[w].attached =>
       win'[w].build > win[w].build]_updateVars

\* A window that runs a build other than the active worker's, because another
\* window applied the update, says so and keeps saying it (updateManager.js:
\* "reloadRequired"), once it has seen the change and unless it is being
\* reloaded.  Left out (missed): a change before the manager was attached, which
\* nothing reports, and one during a check, whose end overwrites the status.
OldWindowIsTold ==
  \A w \in Windows : Attached(w) /\ ~win[w].missed /\ inbox[w] = {} /\ win[w].build # active =>
    win[w].status = "reloadRequired" \/ win[w].target # 0

\* A worker that waits is offered in every window that has nothing under way,
\* whichever window's check installed it, also one that was opened later or was
\* offline then.  Left out (shaken): a window whose own check failed after the
\* worker had begun to wait, and put an older status back.
UpdateIsOffered ==
  \A w \in Windows : Attached(w) /\ HasUpdate /\ inbox[w] = {} /\ win[w].flight = "none"
                     /\ ~win[w].shaken =>
    win[w].status \in {"updateAvailable", "updating", "reloadRequired"}
=============================================================================
