----------------------------- MODULE LeaseClock -----------------------------
(***************************************************************************)
(* How long a signed lease opens the offline copy                          *)
(* (frontend/src/offline/lease.js: saveVerifiedLease, offlineAccessStatus).*)
(*                                                                         *)
(* The device knows the time only from its own wall clock, which may be    *)
(* wrong, may be set by its user and may be moved between two reads, and   *)
(* from performance.now(), which cannot be set but starts again with every *)
(* page and stands still while the device is suspended.  The lease record  *)
(* is shared by the pages (tabs); both functions read it or write it       *)
(* around awaits, so a page may judge, and put back, a record another page *)
(* has replaced.  Times are in one unit, minutes say.                      *)
(***************************************************************************)
EXTENDS Integers

CONSTANTS Pages,      \* pages of the app open on the device
          Life,       \* lifetime of a lease (86 400 s at most, verifyLease)
          Tolerance,  \* CLOCK_ROLLBACK_TOLERANCE_MS
          FloorStep,  \* the floor is advanced when it is further behind
          Delay,      \* bound: how long a request or a transaction takes
          Start,      \* server time at the start
          Walls,      \* what the device's clock may say then
          MaxTime,    \* bound: server time at which the model stops
          MaxSets,    \* bound: times the clock is set
          MaxLeases,  \* bound: leases the server issues
          MaxWall     \* bound: reading a clock is set to

ASSUME LeaseNumbers ==
  /\ Life \in Nat /\ Tolerance \in Nat /\ FloorStep \in Nat /\ Delay \in Nat
  /\ Start \in Nat /\ Walls \subseteq Nat /\ MaxTime \in Nat /\ MaxSets \in Nat
  /\ MaxLeases \in Nat /\ MaxWall \in Nat

VARIABLES
  real,     \* the server's clock
  wall,     \* Date.now() of the device
  asleep,   \* time the device has been suspended: performance.now() misses it
  issued,   \* number of leases the server has signed
  record,   \* the "lease" record of the account's database
  anchor,   \* runtimeAnchors of each page
  job,      \* the call of one of the two functions each page has under way
  verdict,  \* what offlineAccessStatus last returned in each page
  sets,     \* times the clock has been set
  saved,    \* history: the page's anchor was made when it saved the lease
  wound     \* history: the clock has been set back

leaseVars == <<real, wall, asleep, issued, record, anchor, job, verdict, sets, saved, wound>>

\* A monotonic reading common to all pages: only differences are ever used.
Tick == real - asleep

Greater(x, y) == IF x < y THEN y ELSE x

NoRecord == [token |-> 0]
NoAnchor == [token |-> 0]
NoJob == [kind |-> "none"]

\* The claims the server signs: a lease is its number, with the time of issue.
Claims(n) == [token |-> n, iat |-> real, exp |-> real + Life, tick |-> Tick]

\* A record written before serverOffset was kept.
LegacyRecord == [token |-> 1, lease |-> Claims(1), trustedWall |-> wall,
                 serverOffset |-> 0, legacy |-> TRUE]

LeaseInit ==
  /\ real = Start
  /\ wall \in Walls
  /\ asleep = 0
  /\ \/ issued = 0 /\ record = NoRecord
     \/ issued = 1 /\ record = LegacyRecord
  /\ anchor = [p \in Pages |-> NoAnchor]
  /\ job = [p \in Pages |-> NoJob]
  /\ verdict = [p \in Pages |-> "none"]
  /\ sets = 0
  /\ saved = [p \in Pages |-> FALSE]
  /\ wound = FALSE

-----------------------------------------------------------------------------
(* Time *)

\* No request or transaction takes longer than Delay.
InTime == \A p \in Pages : job[p].kind # "none" => real < job[p].since + Delay

ClockTicks ==
  /\ real < MaxTime
  /\ InTime
  /\ real' = real + 1
  /\ wall' = wall + 1
  /\ UNCHANGED <<asleep, issued, record, anchor, job, verdict, sets, saved, wound>>

\* The device is suspended with no call under way.
Suspended ==
  /\ real < MaxTime
  /\ \A p \in Pages : job[p].kind = "none"
  /\ real' = real + 1
  /\ wall' = wall + 1
  /\ asleep' = asleep + 1
  /\ UNCHANGED <<issued, record, anchor, job, verdict, sets, saved, wound>>

\* The user or a time service sets the clock.
ClockSet(w) ==
  /\ sets < MaxSets
  /\ w # wall
  /\ wall' = w
  /\ sets' = sets + 1
  /\ wound' = (wound \/ w < wall)
  /\ UNCHANGED <<real, asleep, issued, record, anchor, job, verdict, saved>>

-----------------------------------------------------------------------------
(* saveVerifiedLease *)

\* The server signs a lease for the renewal of page p (synchronizeOffline).
LeaseIssued(p) ==
  /\ job[p].kind = "none"
  /\ issued < MaxLeases
  /\ issued' = issued + 1
  /\ job' = [job EXCEPT ![p] = [kind |-> "arriving", since |-> real,
                                lease |-> Claims(issued + 1)]]
  /\ UNCHANGED <<real, wall, asleep, record, anchor, verdict, sets, saved, wound>>

\* Variant: the difference to the signed issuance time is not kept.
NoServerOffset(iat, now) == 0

ServerOffset(iat, now) == Greater(0, iat - now)

SaveVerifiedLease(p) ==
  /\ job[p].kind = "arriving"
  /\ LET lease == job[p].lease
     IN record' = [token |-> lease.token, lease |-> lease, trustedWall |-> wall,
                   serverOffset |-> ServerOffset(lease.iat, wall), legacy |-> FALSE]
  /\ job' = [job EXCEPT ![p] = [kind |-> "saved", since |-> @.since, lease |-> @.lease,
                                now |-> wall]]
  /\ UNCHANGED <<real, wall, asleep, issued, anchor, verdict, sets, saved, wound>>

\* The anchor is taken once the record has been written, with the wall clock
\* read before.
AnchorSaved(p) ==
  /\ job[p].kind = "saved"
  /\ saved' = [saved EXCEPT ![p] = TRUE]
  /\ anchor' = [anchor EXCEPT ![p] = [token |-> job[p].lease.token, wall |-> job[p].now,
                                      tick |-> Tick]]
  /\ job' = [job EXCEPT ![p] = NoJob]
  /\ UNCHANGED <<real, wall, asleep, issued, record, verdict, sets, wound>>

-----------------------------------------------------------------------------
(* offlineAccessStatus *)

\* The record is read; the signature is verified over another await.
StatusReads(p) ==
  /\ job[p].kind = "none"
  /\ record # NoRecord
  /\ job' = [job EXCEPT ![p] = [kind |-> "status", since |-> real, stored |-> record]]
  /\ verdict' = [verdict EXCEPT ![p] = "none"]
  /\ UNCHANGED <<real, wall, asleep, issued, record, anchor, sets, saved, wound>>

\* Variant: the stricter floor for every record.
RolledBackToIssue(stored) ==
  wall + Tolerance < Greater(stored.trustedWall, stored.lease.iat)

\* Leases stored before the offset was recorded keep the stricter floor.
RolledBack(stored) ==
  \/ wall + Tolerance < stored.trustedWall
  \/ stored.legacy /\ wall + Tolerance < stored.lease.iat

\* The anchor of this page lifetime, made now unless it is of this token.
AnchorFor(p, token) ==
  IF anchor[p].token = token THEN anchor[p]
  ELSE [token |-> token, wall |-> wall, tick |-> Tick]

\* Variant: the wall clock alone.
WallNow(a, offset) == wall + offset

EffectiveNow(a, offset) == Greater(wall, a.wall + Greater(0, Tick - a.tick)) + offset

StatusJudged(p) ==
  /\ job[p].kind = "status"
  /\ LET stored == job[p].stored
         a == AnchorFor(p, stored.token)
         expired == EffectiveNow(a, stored.serverOffset) >= stored.lease.exp
         says(reason) == verdict' = [verdict EXCEPT ![p] = reason]
         advance == wall - stored.trustedWall > FloorStep
     IN \/ /\ RolledBack(stored)
           /\ says("clock_rollback")
           /\ job' = [job EXCEPT ![p] = NoJob]
           /\ UNCHANGED <<anchor, saved>>
        \/ /\ ~RolledBack(stored)
           /\ anchor' = [anchor EXCEPT ![p] = a]
           /\ saved' = [saved EXCEPT ![p] = @ /\ a = anchor[p]]
           /\ \/ /\ expired
                 /\ says("expired")
                 /\ job' = [job EXCEPT ![p] = NoJob]
              \/ /\ ~expired
                 /\ says("available")
                 /\ job' = [job EXCEPT ![p] =
                       IF advance
                       THEN [kind |-> "floor", since |-> @.since,
                             stored |-> [stored EXCEPT !.trustedWall = wall]]
                       ELSE NoJob]
  /\ UNCHANGED <<real, wall, asleep, issued, record, sets, wound>>

\* The record that was read is written again with the new floor.
FloorAdvanced(p) ==
  /\ job[p].kind = "floor"
  /\ record' = job[p].stored
  /\ job' = [job EXCEPT ![p] = NoJob]
  /\ UNCHANGED <<real, wall, asleep, issued, anchor, verdict, sets, saved, wound>>

\* The page is closed and opened again: what it held in memory is gone.
PageReloaded(p) ==
  /\ anchor[p] # NoAnchor
  /\ anchor' = [anchor EXCEPT ![p] = NoAnchor]
  /\ job' = [job EXCEPT ![p] = NoJob]
  /\ verdict' = [verdict EXCEPT ![p] = "none"]
  /\ saved' = [saved EXCEPT ![p] = FALSE]
  /\ UNCHANGED <<real, wall, asleep, issued, record, sets, wound>>

LeaseNext ==
  \/ ClockTicks
  \/ Suspended
  \/ \E w \in 0..MaxWall : ClockSet(w)
  \/ \E p \in Pages : \/ LeaseIssued(p) \/ SaveVerifiedLease(p) \/ AnchorSaved(p)
                      \/ StatusReads(p) \/ StatusJudged(p) \/ FloorAdvanced(p)
                      \/ PageReloaded(p)

LeaseSpec == LeaseInit /\ [][LeaseNext]_leaseVars

-----------------------------------------------------------------------------
(* Properties *)

\* Page p judges a record of the current format with this outcome.
Judges(p, reason) ==
  /\ job[p].kind = "status"
  /\ job'[p].kind # "status"
  /\ verdict'[p] = reason
  /\ ~job[p].stored.legacy

\* A device whose clock is behind the server's, by any amount, does not open
\* the offline copy for longer than the lease lives, as long as nobody sets the
\* clock back: "A device clock behind the signed issuance time must not gain
\* extra offline hours" (saveVerifiedLease).  It holds for whichever record the
\* page has read, a replaced one put back by another page's floor write
\* included.  Delay is what the request and the transactions may take.
SlowClockGainsNothing ==
  [][\A p \in Pages : Judges(p, "available") /\ ~wound =>
       real < job[p].stored.lease.exp + Delay]_leaseVars

\* "a device whose clock is simply set differently from the server still
\* works" (saveVerifiedLease): while nobody sets the clock, no record of the
\* current format is ever taken for a rollback, whatever page wrote its floor
\* last, and it expires only when the lease has ended by the server's clock or
\* by the device's own.
SlowClockStillWorks ==
  [][\A p \in Pages : sets = 0 =>
       /\ ~Judges(p, "clock_rollback")
       /\ Judges(p, "expired") => Greater(real, wall) >= job[p].stored.lease.exp]_leaseVars

\* "Monotonic elapsed time within this page lifetime cannot be wound back"
\* (offlineAccessStatus): the page that saved a lease does not open the copy
\* for longer than the lease lives by its monotonic clock, however often and
\* however far the wall clock is set, and whatever another page has written.
PageCannotRewind ==
  [][\A p \in Pages : Judges(p, "available") /\ saved'[p] =>
       Tick < job[p].stored.lease.tick + Life + Delay]_leaseVars
=============================================================================
