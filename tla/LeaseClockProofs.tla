-------------------------- MODULE LeaseClockProofs --------------------------
(***************************************************************************)
(* What holds of the offline lease (LeaseClock) for any number of pages,   *)
(* leases and settings of the clock, and any lifetime, tolerance and delay.*)
(***************************************************************************)
EXTENDS LeaseClock, TLAPS

Leases == [token : Nat \ {0}, iat : Nat, exp : Nat, tick : Int]
Records == [token : Nat \ {0}, lease : Leases, trustedWall : Nat, serverOffset : Nat,
            legacy : BOOLEAN]
Anchors == [token : Nat \ {0}, wall : Nat, tick : Int]
Arriving == [kind : {"arriving"}, since : Nat, lease : Leases]
Saving == [kind : {"saved"}, since : Nat, lease : Leases, now : Nat]
Judging == [kind : {"status", "floor"}, since : Nat, stored : Records]
LeaseJobs == {NoJob} \cup Arriving \cup Saving \cup Judging

LeaseTypeOK ==
  /\ real \in Nat /\ wall \in Nat /\ asleep \in Nat /\ issued \in Nat /\ sets \in Nat
  /\ record \in {NoRecord} \cup Records
  /\ anchor \in [Pages -> {NoAnchor} \cup Anchors]
  /\ job \in [Pages -> LeaseJobs]
  /\ verdict \in [Pages -> {"none", "clock_rollback", "expired", "available"}]
  /\ saved \in [Pages -> BOOLEAN]
  /\ wound \in BOOLEAN

\* A page holds the lease of an answer it saves.
Carries(p) == job[p].kind \in {"arriving", "saved"}

\* The record of the database, and the copies pages hold over an await.
KeptRecord(r) == \/ r = record /\ record # NoRecord
                 \/ \E p \in Pages : job[p].kind \in {"status", "floor"} /\ r = job[p].stored

\* What a record of the current format says of the two clocks: its offset makes
\* up for a slow clock that nobody has set back, and no more than that.
OffsetOK(r) ==
  /\ r.lease.exp = r.lease.iat + Life
  /\ ~wound => real <= wall + r.serverOffset + Delay
  /\ sets = 0 => /\ r.trustedWall <= wall
                 /\ r.serverOffset = 0 \/ wall + r.serverOffset <= real

\* A page that saved the lease anchored it within Delay of its issue, with the
\* wall clock its offset was computed from.
AnchorFits(r, p) ==
  saved[p] /\ anchor[p].token = r.token =>
    /\ r.lease.iat <= anchor[p].wall + r.serverOffset
    /\ anchor[p].tick <= r.lease.tick + Delay

RecordOK(r) ==
  /\ r.token <= issued
  /\ ~r.legacy => OffsetOK(r) /\ \A p \in Pages : AnchorFits(r, p)
  /\ \A p \in Pages : Carries(p) /\ job[p].lease.token = r.token =>
       /\ job[p].kind = "saved" /\ job[p].lease = r.lease
       /\ r.lease.iat <= job[p].now + r.serverOffset

\* A call is not overdue; a lease under way is of a number of its own, which no
\* page has anchored before it is saved.
JobOK(p) ==
  /\ job[p].kind # "none" => job[p].since <= real /\ real <= job[p].since + Delay
  /\ Carries(p) => /\ job[p].lease.token <= issued
                   /\ job[p].lease.iat = job[p].since
                   /\ job[p].lease.exp = job[p].lease.iat + Life
                   /\ job[p].lease.tick = job[p].since - asleep
                   /\ \A q \in Pages : Carries(q) /\ q # p =>
                        job[q].lease.token # job[p].lease.token
  /\ job[p].kind = "arriving" => \A q \in Pages : anchor[q].token # job[p].lease.token
  /\ job[p].kind = "saved" /\ sets = 0 => job[p].now <= wall

\* While nobody sets the clock, an anchor runs no faster than the wall clock.
AnchorOK(p) ==
  anchor[p] # NoAnchor =>
    /\ anchor[p].token <= issued
    /\ sets = 0 => /\ anchor[p].wall <= wall
                   /\ anchor[p].wall + (Tick - anchor[p].tick) <= wall

LeaseInv ==
  /\ \A p \in Pages : JobOK(p) /\ AnchorOK(p)
  /\ \A r \in Records : KeptRecord(r) => RecordOK(r)

-----------------------------------------------------------------------------
(* Types *)

\* The shape of a page's call, by its kind.
LEMMA JobShape ==
  ASSUME NEW k \in LeaseJobs
  PROVE  /\ k.kind \in {"none", "arriving", "saved", "status", "floor"}
         /\ k.kind # "none" => k.since \in Nat
         /\ k.kind = "arriving" => k \in Arriving
         /\ k.kind = "saved" => k \in Saving
         /\ k.kind \in {"arriving", "saved"} =>
              /\ k.lease \in Leases /\ k.lease.token \in Nat /\ k.lease.iat \in Nat
              /\ k.lease.exp \in Nat /\ k.lease.tick \in Int
         /\ k.kind = "saved" => k.now \in Nat
         /\ k.kind \in {"status", "floor"} => k \in Judging /\ k.stored \in Records
BY DEF LeaseJobs, NoJob, Arriving, Saving, Judging, Leases

\* The fields of a record.
LEMMA RecordShape ==
  ASSUME NEW r \in Records
  PROVE  /\ r.token \in Nat /\ r.token # 0 /\ r.trustedWall \in Nat /\ r.serverOffset \in Nat
         /\ r.lease \in Leases /\ r.lease.iat \in Nat /\ r.lease.exp \in Nat
         /\ r.lease.tick \in Int
BY DEF Records, Leases

\* The fields of an anchor; none has the number of a lease.
LEMMA AnchorShape ==
  ASSUME NEW a \in {NoAnchor} \cup Anchors
  PROVE  /\ a.token \in Nat
         /\ a # NoAnchor => a \in Anchors /\ a.wall \in Nat /\ a.tick \in Int /\ a.token # 0
         /\ a.token # 0 => a # NoAnchor
BY DEF NoAnchor, Anchors

\* The claims the server signs now.
LEMMA ClaimsTyped ==
  ASSUME real \in Nat, asleep \in Nat, NEW n \in Nat \ {0}
  PROVE  /\ Claims(n) \in Leases /\ Claims(n).token = n /\ Claims(n).iat = real
         /\ Claims(n).exp = real + Life /\ Claims(n).tick = real - asleep
BY LeaseNumbers DEF Claims, Leases, Tick

\* What a page decides over the record it has read.
LEMMA JudgedShape ==
  ASSUME LeaseTypeOK, NEW p \in Pages, StatusJudged(p)
  PROVE  /\ job[p].kind = "status" /\ job[p].stored \in Records
         /\ UNCHANGED <<real, wall, asleep, issued, record, sets, wound>>
         /\ anchor' = [anchor EXCEPT ![p] = anchor'[p]]
         /\ \/ anchor'[p] = anchor[p]
            \/ /\ anchor'[p] = [token |-> job[p].stored.token, wall |-> wall, tick |-> Tick]
               /\ ~saved'[p]
         /\ saved' = [saved EXCEPT ![p] = saved'[p]]
         /\ saved'[p] => saved[p]
         /\ saved'[p] \in BOOLEAN
         /\ verdict' = [verdict EXCEPT ![p] = verdict'[p]]
         /\ verdict'[p] \in {"none", "clock_rollback", "expired", "available"}
         /\ job' = [job EXCEPT ![p] = job'[p]]
         /\ \/ job'[p] = NoJob
            \/ job'[p] = [kind |-> "floor", since |-> job[p].since,
                          stored |-> [job[p].stored EXCEPT !.trustedWall = wall]]
<1> DEFINE stored == job[p].stored
           a == AnchorFor(p, stored.token)
<1>1. /\ job[p].kind = "status" /\ job[p] \in LeaseJobs
      /\ job \in [Pages -> LeaseJobs] /\ anchor \in [Pages -> {NoAnchor} \cup Anchors]
      /\ verdict \in [Pages -> {"none", "clock_rollback", "expired", "available"}]
  BY DEF LeaseTypeOK, StatusJudged
<1>2. saved \in [Pages -> BOOLEAN]
  BY DEF LeaseTypeOK
<1>3. stored \in Records
  BY <1>1, JobShape
<1>4. UNCHANGED <<real, wall, asleep, issued, record, sets, wound>>
  BY DEF StatusJudged
<1>5. CASE /\ verdict' = [verdict EXCEPT ![p] = "clock_rollback"]
           /\ job' = [job EXCEPT ![p] = NoJob]
           /\ UNCHANGED <<anchor, saved>>
  BY <1>1, <1>2, <1>3, <1>4, <1>5
<1>6. CASE /\ anchor' = [anchor EXCEPT ![p] = a]
           /\ saved' = [saved EXCEPT ![p] = @ /\ a = anchor[p]]
           /\ \/ /\ verdict' = [verdict EXCEPT ![p] = "expired"]
                 /\ job' = [job EXCEPT ![p] = NoJob]
              \/ /\ verdict' = [verdict EXCEPT ![p] = "available"]
                 /\ job' = [job EXCEPT ![p] =
                       IF wall - stored.trustedWall > FloorStep
                       THEN [kind |-> "floor", since |-> @.since,
                             stored |-> [stored EXCEPT !.trustedWall = wall]]
                       ELSE NoJob]
  <2>1. a = anchor[p] \/ (a # anchor[p]
                          /\ a = [token |-> stored.token, wall |-> wall, tick |-> Tick])
    BY DEF AnchorFor
  <2>2. anchor'[p] = a /\ anchor' = [anchor EXCEPT ![p] = anchor'[p]]
    BY <1>1, <1>6
  <2>3. saved'[p] = (saved[p] /\ a = anchor[p]) /\ saved' = [saved EXCEPT ![p] = saved'[p]]
    BY <1>2, <1>6
  <2>4. saved'[p] \in BOOLEAN
    BY <2>3, Zenon
  <2>5. /\ verdict' = [verdict EXCEPT ![p] = verdict'[p]]
        /\ verdict'[p] \in {"none", "clock_rollback", "expired", "available"}
    BY <1>1, <1>6
  <2>6. /\ job' = [job EXCEPT ![p] = job'[p]]
        /\ \/ job'[p] = NoJob
           \/ job'[p] = [kind |-> "floor", since |-> job[p].since,
                         stored |-> [stored EXCEPT !.trustedWall = wall]]
    BY <1>1, <1>6
  <2> HIDE DEF a
  <2> QED
    BY <1>1, <1>3, <1>4, <2>1, <2>2, <2>3, <2>4, <2>5, <2>6
<1> QED
  BY <1>5, <1>6 DEF StatusJudged

\* A record with another floor.
LEMMA FloorTyped ==
  ASSUME NEW r \in Records, NEW w \in Nat
  PROVE  LET n == [r EXCEPT !.trustedWall = w]
         IN /\ n \in Records /\ n.token = r.token /\ n.lease = r.lease /\ n.trustedWall = w
            /\ n.serverOffset = r.serverOffset /\ n.legacy = r.legacy
BY DEF Records

\* The record saveVerifiedLease writes; its offset makes up for a slow clock.
LEMMA SavedRecord ==
  ASSUME LeaseTypeOK, NEW p \in Pages, SaveVerifiedLease(p)
  PROVE  /\ job[p] \in Arriving
         /\ record' \in Records /\ record'.token = job[p].lease.token
         /\ record'.lease = job[p].lease /\ record'.trustedWall = wall /\ ~record'.legacy
         /\ job[p].lease.iat <= wall + record'.serverOffset
         /\ record'.serverOffset = 0 \/ wall + record'.serverOffset = job[p].lease.iat
         /\ job' = [job EXCEPT ![p] = job'[p]]
         /\ job'[p] \in Saving
         /\ job'[p].since = job[p].since /\ job'[p].lease = job[p].lease /\ job'[p].now = wall
<1>1. job[p].kind = "arriving" /\ job[p] \in LeaseJobs /\ job \in [Pages -> LeaseJobs]
  BY DEF SaveVerifiedLease, LeaseTypeOK
<1>2. /\ job[p] \in Arriving /\ job[p].lease \in Leases /\ job[p].lease.iat \in Nat
      /\ job[p].since \in Nat
  BY <1>1, JobShape
<1>3. wall \in Nat
  BY DEF LeaseTypeOK
<1> DEFINE off == ServerOffset(job[p].lease.iat, wall)
<1>4. /\ off \in Nat /\ job[p].lease.iat <= wall + off
      /\ off = 0 \/ wall + off = job[p].lease.iat
  BY <1>2, <1>3 DEF ServerOffset, Greater
<1>5. /\ record' = [token |-> job[p].lease.token, lease |-> job[p].lease, trustedWall |-> wall,
                    serverOffset |-> off, legacy |-> FALSE]
      /\ job' = [job EXCEPT ![p] = [kind |-> "saved", since |-> @.since, lease |-> @.lease,
                                    now |-> wall]]
  BY DEF SaveVerifiedLease
<1> HIDE DEF off
<1>6. record' \in Records
  <2>1. job[p].lease.token \in Nat \ {0}
    BY <1>2 DEF Leases
  <2> QED BY <1>2, <1>3, <1>4, <1>5, <2>1 DEF Records
<1>7. job'[p] = [kind |-> "saved", since |-> job[p].since, lease |-> job[p].lease, now |-> wall]
  BY <1>1, <1>5
<1>8. job'[p] \in Saving
  BY <1>2, <1>3, <1>7 DEF Saving
<1>9. job' = [job EXCEPT ![p] = job'[p]]
  BY <1>1, <1>5
<1>10. /\ record'.token = job[p].lease.token /\ record'.lease = job[p].lease
       /\ record'.trustedWall = wall /\ ~record'.legacy /\ record'.serverOffset = off
  BY <1>5
<1> QED
  BY <1>2, <1>4, <1>6, <1>7, <1>8, <1>9, <1>10

\* The first states, with and without a record of the former format.
LEMMA LeaseBeginsTyped == LeaseInit => LeaseTypeOK
<1> SUFFICES ASSUME LeaseInit PROVE LeaseTypeOK
  OBVIOUS
<1>1. real \in Nat /\ wall \in Nat /\ asleep \in Nat /\ issued \in Nat /\ sets \in Nat
  BY LeaseNumbers DEF LeaseInit
<1>2. record \in {NoRecord} \cup Records
  <2>1. Claims(1) \in Leases
    BY <1>1, ClaimsTyped
  <2>2. LegacyRecord \in Records
    BY <1>1, <2>1 DEF LegacyRecord, Records
  <2> QED BY <2>2 DEF LeaseInit
<1>3. /\ anchor \in [Pages -> {NoAnchor} \cup Anchors]
      /\ job \in [Pages -> LeaseJobs]
      /\ verdict \in [Pages -> {"none", "clock_rollback", "expired", "available"}]
  BY DEF LeaseInit, LeaseJobs
<1>4. wound \in BOOLEAN
  BY Zenon DEF LeaseInit
<1>5. saved \in [Pages -> BOOLEAN]
  BY DEF LeaseInit
<1> QED
  BY <1>1, <1>2, <1>3, <1>4, <1>5 DEF LeaseTypeOK

\* Every step keeps the types.
LEMMA LeaseTypeSteps ==
  ASSUME LeaseTypeOK, [LeaseNext]_leaseVars
  PROVE  LeaseTypeOK'
<1>1. /\ real \in Nat /\ wall \in Nat /\ asleep \in Nat /\ issued \in Nat /\ sets \in Nat
      /\ record \in {NoRecord} \cup Records
      /\ anchor \in [Pages -> {NoAnchor} \cup Anchors]
      /\ job \in [Pages -> LeaseJobs]
      /\ verdict \in [Pages -> {"none", "clock_rollback", "expired", "available"}]
      /\ NoJob \in LeaseJobs
  BY DEF LeaseTypeOK, LeaseJobs
<1>2. saved \in [Pages -> BOOLEAN] /\ wound \in BOOLEAN
  BY DEF LeaseTypeOK
<1>3. Tick \in Int
  BY <1>1 DEF Tick
<1>4. CASE ClockTicks \/ Suspended
  BY <1>1, <1>2, <1>4 DEF ClockTicks, Suspended, LeaseTypeOK
<1>5. ASSUME NEW w \in 0..MaxWall, ClockSet(w) PROVE LeaseTypeOK'
  <2>1. wound' = (wound \/ w < wall)
    BY <1>5 DEF ClockSet
  <2>2. wound' \in BOOLEAN
    BY <2>1, Zenon
  <2>3. w \in Nat
    BY LeaseNumbers
  <2> QED
    BY <1>1, <1>2, <1>5, <2>2, <2>3 DEF ClockSet, LeaseTypeOK
<1>6. ASSUME NEW p \in Pages, LeaseIssued(p) PROVE LeaseTypeOK'
  <2>1. Claims(issued + 1) \in Leases /\ issued + 1 \in Nat
    BY <1>1, ClaimsTyped
  <2>2. [kind |-> "arriving", since |-> real, lease |-> Claims(issued + 1)] \in LeaseJobs
    BY <1>1, <2>1 DEF LeaseJobs, Arriving
  <2>3. job' \in [Pages -> LeaseJobs]
    BY <1>1, <1>6, <2>2 DEF LeaseIssued
  <2> QED
    BY <1>1, <1>2, <1>6, <2>1, <2>3 DEF LeaseIssued, LeaseTypeOK
<1>7. ASSUME NEW p \in Pages, SaveVerifiedLease(p) PROVE LeaseTypeOK'
  <2>1. record' \in Records /\ job' = [job EXCEPT ![p] = job'[p]] /\ job'[p] \in LeaseJobs
    BY <1>7, SavedRecord DEF LeaseJobs
  <2>2. job' \in [Pages -> LeaseJobs]
    BY <1>1, <2>1
  <2> QED
    BY <1>1, <1>2, <1>7, <2>1, <2>2 DEF SaveVerifiedLease, LeaseTypeOK
<1>8. ASSUME NEW p \in Pages, AnchorSaved(p) PROVE LeaseTypeOK'
  <2>1. job[p] \in Saving /\ job[p].now \in Nat /\ job[p].lease \in Leases
    BY <1>1, <1>8, JobShape DEF AnchorSaved
  <2>2. [token |-> job[p].lease.token, wall |-> job[p].now, tick |-> Tick] \in Anchors
    BY <1>3, <2>1 DEF Anchors, Leases
  <2>3. saved' \in [Pages -> BOOLEAN]
    BY <1>2, <1>8 DEF AnchorSaved
  <2> QED
    BY <1>1, <1>2, <1>8, <2>2, <2>3 DEF AnchorSaved, LeaseTypeOK
<1>9. ASSUME NEW p \in Pages, StatusReads(p) PROVE LeaseTypeOK'
  <2>1. record \in Records
    BY <1>1, <1>9 DEF StatusReads
  <2>2. [kind |-> "status", since |-> real, stored |-> record] \in LeaseJobs
    BY <1>1, <2>1 DEF LeaseJobs, Judging
  <2> QED
    BY <1>1, <1>2, <1>9, <2>2 DEF StatusReads, LeaseTypeOK
<1>10. ASSUME NEW p \in Pages, StatusJudged(p) PROVE LeaseTypeOK'
  <2>1. job[p].stored \in Records /\ job[p].since \in Nat /\ job[p].stored.token \in Nat \ {0}
    BY <1>1, <1>10, JobShape, JudgedShape, RecordShape
  <2>2. job'[p] \in LeaseJobs
    <3>1. [job[p].stored EXCEPT !.trustedWall = wall] \in Records
      BY <1>1, <2>1, FloorTyped
    <3>2. [kind |-> "floor", since |-> job[p].since,
           stored |-> [job[p].stored EXCEPT !.trustedWall = wall]] \in LeaseJobs
      BY <2>1, <3>1 DEF LeaseJobs, Judging
    <3> QED BY <1>1, <1>10, <3>2, JudgedShape
  <2>3. anchor'[p] \in {NoAnchor} \cup Anchors
    <3>1. [token |-> job[p].stored.token, wall |-> wall, tick |-> Tick] \in Anchors
      BY <1>1, <1>3, <2>1 DEF Anchors
    <3> QED BY <1>1, <1>10, <3>1, JudgedShape
  <2>4. /\ job' \in [Pages -> LeaseJobs] /\ anchor' \in [Pages -> {NoAnchor} \cup Anchors]
        /\ verdict' \in [Pages -> {"none", "clock_rollback", "expired", "available"}]
    BY <1>1, <1>10, <2>2, <2>3, JudgedShape
  <2>5. saved' \in [Pages -> BOOLEAN]
    BY <1>2, <1>10, JudgedShape
  <2> QED
    BY <1>1, <1>2, <1>10, <2>4, <2>5, JudgedShape DEF LeaseTypeOK
<1>11. ASSUME NEW p \in Pages, FloorAdvanced(p) PROVE LeaseTypeOK'
  <2>1. job[p].stored \in Records
    BY <1>1, <1>11, JobShape DEF FloorAdvanced
  <2> QED
    BY <1>1, <1>2, <1>11, <2>1 DEF FloorAdvanced, LeaseTypeOK
<1>12. ASSUME NEW p \in Pages, PageReloaded(p) PROVE LeaseTypeOK'
  <2>1. saved' \in [Pages -> BOOLEAN]
    BY <1>2, <1>12 DEF PageReloaded
  <2> QED
    BY <1>1, <1>2, <1>12, <2>1 DEF PageReloaded, LeaseTypeOK
<1>13. CASE UNCHANGED leaseVars
  BY <1>1, <1>2, <1>13 DEF leaseVars, LeaseTypeOK
<1> QED
  BY <1>4, <1>5, <1>6, <1>7, <1>8, <1>9, <1>10, <1>11, <1>12, <1>13 DEF LeaseNext

-----------------------------------------------------------------------------
(* The invariant *)

\* The parts of the state the arguments compare, with their types.
LEMMA LeaseFacts ==
  ASSUME LeaseTypeOK
  PROVE  /\ real \in Nat /\ wall \in Nat /\ asleep \in Nat /\ issued \in Nat /\ sets \in Nat
         /\ Delay \in Nat /\ Life \in Nat /\ Tolerance \in Nat
         /\ \A p \in Pages : /\ job[p] \in LeaseJobs
                             /\ anchor[p] \in {NoAnchor} \cup Anchors
         /\ job \in [Pages -> LeaseJobs] /\ anchor \in [Pages -> {NoAnchor} \cup Anchors]
         /\ saved \in [Pages -> BOOLEAN]
         /\ record # NoRecord => record \in Records
BY LeaseNumbers DEF LeaseTypeOK

\* Time passes, or the clock is set: no call, record or anchor moves.
LEMMA TimeKeeps ==
  ASSUME LeaseTypeOK, LeaseInv, ClockTicks \/ Suspended \/ \E w \in 0..MaxWall : ClockSet(w)
  PROVE  LeaseInv'
<1>1. /\ UNCHANGED <<issued, record, anchor, job, saved>>
      /\ \/ /\ real' = real + 1 /\ wall' = wall + 1 /\ asleep' = asleep
            /\ sets' = sets /\ wound' = wound
            /\ \A p \in Pages : job[p].kind # "none" => real < job[p].since + Delay
         \/ /\ real' = real + 1 /\ wall' = wall + 1 /\ asleep' = asleep + 1
            /\ sets' = sets /\ wound' = wound
            /\ \A p \in Pages : job[p].kind = "none"
         \/ /\ real' = real /\ asleep' = asleep /\ wall' \in Nat
            /\ sets' # 0
            /\ ~wound' => ~wound /\ wall <= wall'
  <2>1. CASE ClockTicks
    BY <2>1 DEF ClockTicks, InTime
  <2>2. CASE Suspended
    BY <2>2 DEF Suspended
  <2>3. ASSUME NEW w \in 0..MaxWall, ClockSet(w)
        PROVE  /\ UNCHANGED <<issued, record, anchor, job, saved>>
               /\ real' = real /\ asleep' = asleep /\ wall' \in Nat
               /\ sets' # 0
               /\ ~wound' => ~wound /\ wall <= wall'
    <3>1. w \in Nat /\ wall \in Nat /\ sets \in Nat
      BY LeaseFacts, LeaseNumbers
    <3>2. /\ UNCHANGED <<issued, record, anchor, job, saved>>
          /\ real' = real /\ asleep' = asleep /\ wall' = w /\ sets' = sets + 1
          /\ wound' = (wound \/ w < wall)
      BY <2>3 DEF ClockSet
    <3>3. ~wound' => ~wound /\ ~(w < wall)
      BY <3>2, Zenon
    <3>4. ~(w < wall) => wall <= wall'
      BY <3>1, <3>2
    <3> QED
      BY <3>1, <3>2, <3>3, <3>4
  <2> QED BY <2>1, <2>2, <2>3
<1>2. /\ real \in Nat /\ wall \in Nat /\ asleep \in Nat /\ sets \in Nat /\ Delay \in Nat
      /\ \A p \in Pages : job[p] \in LeaseJobs /\ anchor[p] \in {NoAnchor} \cup Anchors
  BY LeaseFacts
<1>3. ASSUME NEW p \in Pages PROVE JobOK(p)'
  <2>1. JobOK(p)
    BY DEF LeaseInv
  <2>2. /\ job[p].kind # "none" => job[p].since \in Nat
        /\ job[p].kind = "saved" => job[p].now \in Nat
        /\ job[p].kind = "none" => ~Carries(p) /\ job[p].kind # "saved"
    BY <1>2, JobShape DEF Carries
  <2>3. job[p].kind # "none" => job[p].since <= real' /\ real' <= job[p].since + Delay
    BY <1>1, <1>2, <2>1, <2>2 DEF JobOK
  <2>4. Carries(p) => asleep' = asleep
    BY <1>1, <2>2
  <2>5. job[p].kind = "saved" /\ sets' = 0 => job[p].now <= wall'
    BY <1>1, <1>2, <2>1, <2>2 DEF JobOK
  <2>6. \A q \in Pages : Carries(q)' <=> Carries(q)
    BY <1>1 DEF Carries
  <2> QED
    BY <1>1, <2>1, <2>3, <2>4, <2>5, <2>6 DEF JobOK
<1>4. ASSUME NEW p \in Pages PROVE AnchorOK(p)'
  <2>1. AnchorOK(p)
    BY DEF LeaseInv
  <2>2. anchor[p] # NoAnchor => anchor[p].wall \in Nat /\ anchor[p].tick \in Int
    BY <1>2, AnchorShape
  <2> QED
    BY <1>1, <1>2, <2>1, <2>2 DEF AnchorOK, Tick
<1>5. ASSUME NEW r \in Records, KeptRecord(r)' PROVE RecordOK(r)'
  <2>1. RecordOK(r)
    BY <1>1, <1>5 DEF LeaseInv, KeptRecord
  <2>2. r.serverOffset \in Nat /\ r.trustedWall \in Nat
    BY RecordShape
  <2>3. OffsetOK(r) => OffsetOK(r)'
    BY <1>1, <1>2, <2>2 DEF OffsetOK
  <2>4. \A p \in Pages : AnchorFits(r, p) => AnchorFits(r, p)'
    BY <1>1 DEF AnchorFits
  <2> QED
    BY <1>1, <2>1, <2>3, <2>4 DEF RecordOK, Carries
<1> QED
  BY <1>3, <1>4, <1>5 DEF LeaseInv

\* The server signs a lease: its number is new.
LEMMA IssueKeeps ==
  ASSUME LeaseTypeOK, LeaseInv, NEW p \in Pages, LeaseIssued(p)
  PROVE  LeaseInv'
<1>1. /\ real \in Nat /\ wall \in Nat /\ asleep \in Nat /\ issued \in Nat /\ Delay \in Nat
      /\ \A q \in Pages : job[q] \in LeaseJobs /\ anchor[q] \in {NoAnchor} \cup Anchors
      /\ job \in [Pages -> LeaseJobs]
  BY LeaseFacts
<1> DEFINE new == [kind |-> "arriving", since |-> real, lease |-> Claims(issued + 1)]
<1>2. /\ new.kind = "arriving" /\ new.since = real /\ new.lease.token = issued + 1
      /\ new.lease.iat = real /\ new.lease.exp = real + Life /\ new.lease.tick = real - asleep
  BY <1>1, ClaimsTyped
<1>3. /\ issued' = issued + 1 /\ job[p].kind = "none"
      /\ job' = [job EXCEPT ![p] = new]
      /\ UNCHANGED <<real, wall, asleep, record, anchor, sets, saved, wound>>
  BY DEF LeaseIssued
<1> HIDE DEF new
<1>4. job'[p] = new /\ \A q \in Pages : q # p => job'[q] = job[q]
  BY <1>1, <1>3
<1>5. \A q \in Pages : Carries(q) => job[q].lease.token \in Nat /\ job[q].lease.token <= issued
  BY <1>1, JobShape DEF LeaseInv, JobOK, Carries
<1>6. \A q \in Pages : anchor[q].token \in Nat /\ anchor[q].token <= issued
  <2>1. ASSUME NEW q \in Pages PROVE anchor[q].token \in Nat /\ anchor[q].token <= issued
    <3>1. CASE anchor[q] = NoAnchor
      BY <1>1, <3>1 DEF NoAnchor
    <3>2. CASE anchor[q] # NoAnchor
      BY <1>1, <3>2, AnchorShape DEF LeaseInv, AnchorOK
    <3> QED BY <3>1, <3>2
  <2> QED BY <2>1
<1>7. ASSUME NEW q \in Pages PROVE JobOK(q)'
  <2>1. CASE q = p
    BY <1>1, <1>2, <1>3, <1>4, <1>5, <1>6, <2>1 DEF JobOK, Carries
  <2>2. CASE q # p
    <3>1. JobOK(q)
      BY DEF LeaseInv
    <3>2. Carries(q)' <=> Carries(q)
      BY <1>4, <2>2 DEF Carries
    <3>3. Carries(q) => \A u \in Pages : Carries(u)' /\ u # q =>
                          job'[u].lease.token # job'[q].lease.token
      BY <1>1, <1>2, <1>4, <1>5, <2>2, <3>1 DEF JobOK, Carries
    <3> QED
      BY <1>1, <1>3, <1>4, <1>5, <2>2, <3>1, <3>2, <3>3 DEF JobOK
  <2> QED BY <2>1, <2>2
<1>8. ASSUME NEW q \in Pages PROVE AnchorOK(q)'
  BY <1>1, <1>3, <1>6 DEF LeaseInv, AnchorOK, Tick
<1>9. ASSUME NEW r \in Records, KeptRecord(r)' PROVE RecordOK(r)'
  <2>1. KeptRecord(r)
    BY <1>2, <1>3, <1>4, <1>9 DEF KeptRecord
  <2>2. RecordOK(r) /\ r.token \in Nat
    BY <2>1, RecordShape DEF LeaseInv
  <2>3. OffsetOK(r) => OffsetOK(r)'
    BY <1>3 DEF OffsetOK
  <2>4. \A q \in Pages : AnchorFits(r, q) => AnchorFits(r, q)'
    BY <1>3 DEF AnchorFits
  <2>5. r.token <= issued /\ new.lease.token # r.token
    BY <1>1, <1>2, <2>2 DEF RecordOK
  <2> QED
    BY <1>1, <1>3, <1>4, <2>2, <2>3, <2>4, <2>5 DEF RecordOK, Carries
<1> QED
  BY <1>7, <1>8, <1>9 DEF LeaseInv

\* The record is written: its offset is computed from the wall clock the page
\* keeps for its anchor.
LEMMA SaveKeeps ==
  ASSUME LeaseTypeOK, LeaseInv, NEW p \in Pages, SaveVerifiedLease(p)
  PROVE  LeaseInv'
<1>1. /\ real \in Nat /\ wall \in Nat /\ asleep \in Nat /\ issued \in Nat /\ Delay \in Nat
      /\ \A q \in Pages : job[q] \in LeaseJobs /\ anchor[q] \in {NoAnchor} \cup Anchors
      /\ job \in [Pages -> LeaseJobs]
  BY LeaseFacts
<1>2. UNCHANGED <<real, wall, asleep, issued, anchor, sets, saved, wound>>
  BY DEF SaveVerifiedLease
<1>3. /\ record' \in Records /\ record'.token = job[p].lease.token
      /\ record'.lease = job[p].lease /\ record'.trustedWall = wall /\ ~record'.legacy
      /\ job[p].lease.iat <= wall + record'.serverOffset
      /\ record'.serverOffset = 0 \/ wall + record'.serverOffset = job[p].lease.iat
      /\ job' = [job EXCEPT ![p] = job'[p]]
      /\ job'[p].since = job[p].since /\ job'[p].lease = job[p].lease /\ job'[p].now = wall
  BY SavedRecord
<1>4. job[p].kind = "arriving" /\ job'[p].kind = "saved"
  BY SavedRecord DEF SaveVerifiedLease, Saving
<1>5. /\ job[p].since \in Nat /\ job[p].lease.iat \in Nat /\ job[p].lease.token \in Nat
      /\ job[p].lease.tick \in Int
  BY <1>1, <1>4, JobShape
<1>6. \A q \in Pages : q # p => job'[q] = job[q]
  BY <1>1, <1>3
<1>7. \A q \in Pages : (Carries(q)' <=> Carries(q)) /\ (Carries(q) => job'[q].lease = job[q].lease)
  BY <1>3, <1>4, <1>6 DEF Carries
<1>8. JobOK(p)
  BY DEF LeaseInv
<1>9. ASSUME NEW q \in Pages PROVE JobOK(q)'
  <2>1. JobOK(q)
    BY DEF LeaseInv
  <2>2. CASE q = p
    BY <1>1, <1>2, <1>3, <1>4, <1>7, <2>1, <2>2 DEF JobOK
  <2>3. CASE q # p
    BY <1>1, <1>2, <1>6, <1>7, <2>1, <2>3 DEF JobOK
  <2> QED BY <2>2, <2>3
<1>10. ASSUME NEW q \in Pages PROVE AnchorOK(q)'
  BY <1>2 DEF LeaseInv, AnchorOK, Tick
<1>11. ASSUME NEW r \in Records, KeptRecord(r)' PROVE RecordOK(r)'
  <2>1. CASE r = record'
    <3>1. r.token <= issued'
      BY <1>2, <1>3, <1>4, <1>8, <2>1 DEF JobOK, Carries
    <3>2. OffsetOK(r)'
      <4>1. /\ r.serverOffset \in Nat /\ r.trustedWall = wall
            /\ r.lease.exp = r.lease.iat + Life
            /\ r.lease.iat = job[p].since /\ job[p].since <= real /\ real <= job[p].since + Delay
        BY <1>3, <1>4, <1>8, <2>1, RecordShape DEF JobOK, Carries
      <4> QED
        BY <1>1, <1>2, <1>3, <1>5, <2>1, <4>1 DEF OffsetOK
    <3>3. \A q \in Pages : AnchorFits(r, q)'
      BY <1>2, <1>3, <1>4, <1>8, <2>1 DEF JobOK, AnchorFits
    <3>4. \A q \in Pages : Carries(q)' /\ job'[q].lease.token = r.token => q = p
      BY <1>3, <1>4, <1>6, <1>7, <1>8, <2>1 DEF JobOK, Carries
    <3> QED
      BY <1>1, <1>3, <1>4, <2>1, <3>1, <3>2, <3>3, <3>4 DEF RecordOK
  <2>2. CASE r # record'
    <3>1. KeptRecord(r)
      BY <1>4, <1>6, <1>11, <2>2 DEF KeptRecord
    <3>2. RecordOK(r)
      BY <3>1 DEF LeaseInv
    <3>3. job[p].lease.token # r.token
      BY <1>4, <3>2 DEF RecordOK, Carries
    <3>4. OffsetOK(r) => OffsetOK(r)'
      BY <1>2 DEF OffsetOK
    <3>5. \A q \in Pages : AnchorFits(r, q) => AnchorFits(r, q)'
      BY <1>2 DEF AnchorFits
    <3> QED
      BY <1>2, <1>3, <1>6, <1>7, <3>2, <3>3, <3>4, <3>5 DEF RecordOK
  <2> QED BY <2>1, <2>2
<1> QED
  BY <1>9, <1>10, <1>11 DEF LeaseInv

\* The page takes its anchor for the lease it has saved.
LEMMA AnchorKeeps ==
  ASSUME LeaseTypeOK, LeaseInv, NEW p \in Pages, AnchorSaved(p)
  PROVE  LeaseInv'
<1>1. /\ real \in Nat /\ wall \in Nat /\ asleep \in Nat /\ issued \in Nat /\ Delay \in Nat
      /\ \A q \in Pages : job[q] \in LeaseJobs /\ anchor[q] \in {NoAnchor} \cup Anchors
      /\ job \in [Pages -> LeaseJobs] /\ anchor \in [Pages -> {NoAnchor} \cup Anchors]
      /\ saved \in [Pages -> BOOLEAN]
  BY LeaseFacts
<1>2. /\ job[p].kind = "saved"
      /\ saved' = [saved EXCEPT ![p] = TRUE]
      /\ anchor' = [anchor EXCEPT ![p] = [token |-> job[p].lease.token, wall |-> job[p].now,
                                          tick |-> Tick]]
      /\ job' = [job EXCEPT ![p] = NoJob]
      /\ UNCHANGED <<real, wall, asleep, issued, record, verdict, sets, wound>>
  BY DEF AnchorSaved
<1>3. /\ job[p].now \in Nat /\ job[p].lease.token \in Nat /\ job[p].lease.tick \in Int
      /\ job[p].since \in Nat
  BY <1>1, <1>2, JobShape
<1>4. /\ anchor'[p].token = job[p].lease.token /\ anchor'[p].wall = job[p].now
      /\ anchor'[p].tick = Tick
      /\ \A q \in Pages : q # p => anchor'[q] = anchor[q] /\ saved'[q] = saved[q]
  BY <1>1, <1>2
<1>5. job'[p] = NoJob /\ job'[p].kind = "none" /\ \A q \in Pages : q # p => job'[q] = job[q]
  BY <1>1, <1>2 DEF NoJob
<1>6. JobOK(p) /\ Carries(p)
  BY <1>2 DEF LeaseInv, Carries
<1>7. \A q \in Pages : Carries(q)' => Carries(q) /\ q # p /\ job'[q] = job[q]
  BY <1>5 DEF Carries
<1>8. ASSUME NEW q \in Pages PROVE JobOK(q)'
  <2>1. CASE q = p
    BY <1>5, <2>1 DEF JobOK, Carries
  <2>2. CASE q # p
    <3>1. JobOK(q)
      BY DEF LeaseInv
    <3>2. Carries(q) => job[q].lease.token # job[p].lease.token
      BY <1>6, <2>2 DEF JobOK
    <3>3. job[q].kind = "arriving" => \A u \in Pages : anchor'[u].token # job[q].lease.token
      BY <1>4, <3>1, <3>2 DEF JobOK, Carries
    <3> QED
      BY <1>2, <1>5, <1>7, <2>2, <3>1, <3>3 DEF JobOK, Carries
  <2> QED BY <2>1, <2>2
<1>9. ASSUME NEW q \in Pages PROVE AnchorOK(q)'
  <2>1. CASE q = p
    <3>1. Tick \in Int /\ Tick' = Tick
      BY <1>1, <1>2 DEF Tick
    <3>2. sets = 0 => job[p].now <= wall
      BY <1>2, <1>6 DEF JobOK
    <3>3. job[p].lease.token <= issued
      BY <1>6 DEF JobOK
    <3> QED
      BY <1>1, <1>2, <1>3, <1>4, <2>1, <3>1, <3>2, <3>3 DEF AnchorOK
  <2>2. CASE q # p
    BY <1>2, <1>4, <2>2 DEF LeaseInv, AnchorOK, Tick
  <2> QED BY <2>1, <2>2
<1>10. ASSUME NEW r \in Records, KeptRecord(r)' PROVE RecordOK(r)'
  <2>1. KeptRecord(r)
    BY <1>2, <1>5, <1>10 DEF KeptRecord
  <2>2. RecordOK(r) /\ r.lease.tick \in Int /\ r.lease.iat \in Nat /\ r.serverOffset \in Nat
    BY <2>1, RecordShape DEF LeaseInv
  <2>3. OffsetOK(r) => OffsetOK(r)'
    BY <1>2 DEF OffsetOK
  <2>4. ASSUME NEW q \in Pages, AnchorFits(r, q) PROVE AnchorFits(r, q)'
    <3>1. CASE q = p
      <4>1. job[p].lease.token = r.token =>
              r.lease.iat <= job[p].now + r.serverOffset /\ r.lease.tick = job[p].since - asleep
        BY <1>6, <2>2 DEF RecordOK, JobOK
      <4>2. Tick <= (job[p].since - asleep) + Delay
        BY <1>1, <1>2, <1>3, <1>6 DEF Tick, JobOK
      <4> QED
        BY <1>4, <3>1, <4>1, <4>2 DEF AnchorFits
    <3>2. CASE q # p
      BY <1>4, <2>4, <3>2 DEF AnchorFits
    <3> QED BY <3>1, <3>2
  <2> QED
    BY <1>2, <1>7, <2>2, <2>3, <2>4 DEF RecordOK
<1> QED
  BY <1>8, <1>9, <1>10 DEF LeaseInv

\* The record is read, written back with a new floor, or the page is closed.
LEMMA OtherStepsKeep ==
  ASSUME LeaseTypeOK, LeaseInv, NEW p \in Pages,
         StatusReads(p) \/ FloorAdvanced(p) \/ PageReloaded(p)
  PROVE  LeaseInv'
<1>1. /\ real \in Nat /\ wall \in Nat /\ issued \in Nat /\ Delay \in Nat
      /\ \A q \in Pages : job[q] \in LeaseJobs /\ anchor[q] \in {NoAnchor} \cup Anchors
      /\ job \in [Pages -> LeaseJobs] /\ anchor \in [Pages -> {NoAnchor} \cup Anchors]
      /\ saved \in [Pages -> BOOLEAN]
      /\ record # NoRecord => record \in Records
  BY LeaseFacts
<1>2. /\ UNCHANGED <<real, wall, asleep, issued, sets, wound>>
      /\ \A q \in Pages : q # p => /\ job'[q] = job[q] /\ anchor'[q] = anchor[q]
                                   /\ saved'[q] = saved[q]
  BY <1>1 DEF StatusReads, FloorAdvanced, PageReloaded
<1>3. \/ anchor'[p] = anchor[p] /\ saved'[p] = saved[p]
      \/ anchor'[p] = NoAnchor /\ ~saved'[p]
  BY <1>1 DEF StatusReads, FloorAdvanced, PageReloaded
<1>4. \/ job'[p] = NoJob
      \/ /\ record # NoRecord
         /\ job'[p] = [kind |-> "status", since |-> real, stored |-> record]
  BY <1>1 DEF StatusReads, FloorAdvanced, PageReloaded
<1>5. record' = record \/ (job[p].kind = "floor" /\ record' = job[p].stored)
  BY DEF StatusReads, FloorAdvanced, PageReloaded
<1>6. \A q \in Pages : Carries(q)' => Carries(q) /\ q # p /\ job'[q] = job[q]
  BY <1>2, <1>4 DEF Carries, NoJob
<1>7. ASSUME NEW q \in Pages PROVE JobOK(q)'
  <2>1. CASE q = p
    <3>1. job'[p].kind \in {"none", "status"} /\ (job'[p].kind = "status" => job'[p].since = real)
      BY <1>4 DEF NoJob
    <3> QED
      BY <1>1, <1>2, <1>6, <2>1, <3>1 DEF JobOK
  <2>2. CASE q # p
    <3>1. JobOK(q) /\ job'[q] = job[q]
      BY <1>2, <2>2 DEF LeaseInv
    <3>2. job[q].kind = "arriving" => \A u \in Pages : anchor'[u].token # job[q].lease.token
      <4>1. CASE job[q].kind = "arriving"
        <5>1. job[q].lease.token # 0
          BY <1>1, <4>1, JobShape DEF Leases
        <5> QED
          BY <1>2, <1>3, <3>1, <4>1, <5>1 DEF JobOK, NoAnchor
      <4> QED BY <4>1
    <3> QED
      BY <1>2, <1>6, <3>1, <3>2 DEF JobOK, Carries
  <2> QED BY <2>1, <2>2
<1>8. ASSUME NEW q \in Pages PROVE AnchorOK(q)'
  BY <1>2, <1>3 DEF LeaseInv, AnchorOK, Tick
<1>9. ASSUME NEW r \in Records, KeptRecord(r)' PROVE RecordOK(r)'
  <2>1. KeptRecord(r)
    <3>1. \A q \in Pages : job'[q].kind \in {"status", "floor"} =>
            \/ q # p /\ job'[q] = job[q]
            \/ record # NoRecord /\ job'[q].stored = record
      BY <1>2, <1>4 DEF NoJob
    <3> QED
      BY <1>5, <1>9, <3>1 DEF KeptRecord
  <2>2. RecordOK(r) /\ r.token # 0
    BY <2>1, RecordShape DEF LeaseInv
  <2>3. OffsetOK(r) => OffsetOK(r)'
    BY <1>2 DEF OffsetOK
  <2>4. \A q \in Pages : AnchorFits(r, q) => AnchorFits(r, q)'
    BY <1>2, <1>3 DEF AnchorFits
  <2> QED
    BY <1>2, <1>6, <2>2, <2>3, <2>4 DEF RecordOK
<1> QED
  BY <1>7, <1>8, <1>9 DEF LeaseInv

\* A page judges the record it has read, and makes its anchor if it has none of
\* that number.
LEMMA JudgeKeeps ==
  ASSUME LeaseTypeOK, LeaseInv, NEW p \in Pages, StatusJudged(p)
  PROVE  LeaseInv'
<1>1. /\ real \in Nat /\ wall \in Nat /\ asleep \in Nat /\ issued \in Nat /\ Delay \in Nat
      /\ \A q \in Pages : job[q] \in LeaseJobs /\ anchor[q] \in {NoAnchor} \cup Anchors
      /\ job \in [Pages -> LeaseJobs] /\ anchor \in [Pages -> {NoAnchor} \cup Anchors]
      /\ saved \in [Pages -> BOOLEAN]
  BY LeaseFacts
<1> DEFINE stored == job[p].stored
           floor == [stored EXCEPT !.trustedWall = wall]
<1>2. /\ job[p].kind = "status" /\ stored \in Records
      /\ UNCHANGED <<real, wall, asleep, issued, record, sets, wound>>
  BY JudgedShape
<1>3. /\ \/ anchor'[p] = anchor[p]
         \/ /\ anchor'[p] = [token |-> stored.token, wall |-> wall, tick |-> Tick]
            /\ ~saved'[p]
      /\ saved'[p] => saved[p]
      /\ \A q \in Pages : q # p => /\ job'[q] = job[q] /\ anchor'[q] = anchor[q]
                                   /\ saved'[q] = saved[q]
  BY <1>1, JudgedShape, ZenonT(40)
<1>4. \/ job'[p] = NoJob
      \/ job'[p] = [kind |-> "floor", since |-> job[p].since, stored |-> floor]
  BY JudgedShape
<1>5. /\ floor \in Records /\ floor.token = stored.token /\ floor.lease = stored.lease
      /\ floor.trustedWall = wall /\ floor.serverOffset = stored.serverOffset
      /\ floor.legacy = stored.legacy
  BY <1>1, <1>2, FloorTyped
<1> HIDE DEF floor
<1>6. KeptRecord(stored) /\ RecordOK(stored)
  BY <1>2 DEF KeptRecord, LeaseInv
<1>7. \A q \in Pages : Carries(q)' => Carries(q) /\ q # p /\ job'[q] = job[q]
  BY <1>3, <1>4 DEF Carries, NoJob
<1>8. ASSUME NEW q \in Pages PROVE JobOK(q)'
  <2>1. JobOK(q)
    BY DEF LeaseInv
  <2>2. CASE q = p
    <3>1. job'[p].kind \in {"none", "floor"} /\ (job'[p].kind = "floor" => job'[p].since = job[p].since)
      BY <1>4 DEF NoJob
    <3> QED
      BY <1>1, <1>2, <1>7, <2>1, <2>2, <3>1 DEF JobOK
  <2>3. CASE q # p
    <3>1. job'[q] = job[q]
      BY <1>3, <2>3
    <3>2. job[q].kind = "arriving" => job[q].lease.token # stored.token
      BY <1>6 DEF RecordOK, Carries
    <3>3. job[q].kind = "arriving" => \A u \in Pages : anchor'[u].token # job[q].lease.token
      BY <1>3, <2>1, <3>2 DEF JobOK
    <3> QED
      BY <1>2, <1>7, <2>1, <3>1, <3>3 DEF JobOK, Carries
  <2> QED BY <2>2, <2>3
<1>9. ASSUME NEW q \in Pages PROVE AnchorOK(q)'
  <2>1. AnchorOK(q)
    BY DEF LeaseInv
  <2>2. CASE anchor'[q] = anchor[q]
    BY <1>2, <2>1, <2>2 DEF AnchorOK, Tick
  <2>3. CASE anchor'[q] # anchor[q]
    <3>1. q = p /\ anchor'[q] = [token |-> stored.token, wall |-> wall, tick |-> Tick]
      BY <1>3, <2>3
    <3>2. Tick \in Int /\ Tick' = Tick
      BY <1>1, <1>2 DEF Tick
    <3>3. stored.token <= issued
      BY <1>6 DEF RecordOK
    <3> QED
      BY <1>1, <1>2, <3>1, <3>2, <3>3 DEF AnchorOK
  <2> QED BY <2>2, <2>3
<1>10. ASSUME NEW r \in Records, RecordOK(r) PROVE RecordOK(r)'
  <2>1. OffsetOK(r) => OffsetOK(r)'
    BY <1>2 DEF OffsetOK
  <2>2. \A q \in Pages : AnchorFits(r, q) => AnchorFits(r, q)'
    BY <1>3 DEF AnchorFits
  <2> QED
    BY <1>2, <1>7, <1>10, <2>1, <2>2 DEF RecordOK
<1>11. RecordOK(floor)
  <2>1. /\ stored.trustedWall \in Nat /\ stored.serverOffset \in Nat
    BY <1>2, RecordShape
  <2>2. OffsetOK(stored) => OffsetOK(floor)
    BY <1>1, <1>5 DEF OffsetOK
  <2>3. \A q \in Pages : AnchorFits(stored, q) => AnchorFits(floor, q)
    BY <1>5 DEF AnchorFits
  <2> QED
    BY <1>5, <1>6, <2>2, <2>3 DEF RecordOK
<1>12. ASSUME NEW r \in Records, KeptRecord(r)' PROVE RecordOK(r)
  <2>1. KeptRecord(r) \/ r = floor
    <3>1. \A q \in Pages : job'[q].kind \in {"status", "floor"} =>
            (q # p /\ job'[q] = job[q]) \/ job'[q].stored = floor
      BY <1>3, <1>4 DEF NoJob
    <3> QED
      BY <1>2, <1>12, <3>1 DEF KeptRecord
  <2> QED
    BY <1>11, <2>1 DEF LeaseInv
<1> QED
  BY <1>8, <1>9, <1>10, <1>12 DEF LeaseInv

\* The clocks, calls, records and anchors keep their types and agree with each
\* other as LeaseInv says, whatever the user does to the wall clock.
THEOREM LeaseTyped == LeaseSpec => [](LeaseTypeOK /\ LeaseInv)
<1>1. LeaseInit => LeaseTypeOK /\ LeaseInv
  <2> SUFFICES ASSUME LeaseInit PROVE LeaseTypeOK /\ LeaseInv
    OBVIOUS
  <2>1. LeaseTypeOK
    BY LeaseBeginsTyped
  <2>2. ASSUME NEW p \in Pages PROVE JobOK(p) /\ AnchorOK(p) /\ ~Carries(p)
    BY DEF LeaseInit, JobOK, AnchorOK, Carries, NoJob
  <2>3. ASSUME NEW r \in Records, KeptRecord(r) PROVE RecordOK(r)
    <3>1. \A p \in Pages : job[p].kind = "none"
      BY DEF LeaseInit, NoJob
    <3>2. r = LegacyRecord /\ issued = 1
      BY <2>3, <3>1 DEF LeaseInit, KeptRecord
    <3>3. r.token = 1 /\ r.legacy = TRUE
      BY <3>2 DEF LegacyRecord
    <3> QED
      BY <2>2, <3>2, <3>3 DEF RecordOK
  <2> QED
    BY <2>1, <2>2, <2>3 DEF LeaseInv
<1>2. LeaseTypeOK /\ LeaseInv /\ [LeaseNext]_leaseVars => (LeaseTypeOK /\ LeaseInv)'
  <2> SUFFICES ASSUME LeaseTypeOK, LeaseInv, [LeaseNext]_leaseVars
               PROVE  LeaseTypeOK' /\ LeaseInv'
    OBVIOUS
  <2>1. LeaseTypeOK'
    BY LeaseTypeSteps
  <2>2. CASE ClockTicks \/ Suspended \/ \E w \in 0..MaxWall : ClockSet(w)
    BY <2>1, <2>2, TimeKeeps
  <2>3. ASSUME NEW p \in Pages,
               \/ LeaseIssued(p) \/ SaveVerifiedLease(p) \/ AnchorSaved(p)
               \/ StatusReads(p) \/ StatusJudged(p) \/ FloorAdvanced(p) \/ PageReloaded(p)
        PROVE  LeaseInv'
    BY <2>3, IssueKeeps, SaveKeeps, AnchorKeeps, OtherStepsKeep, JudgeKeeps
  <2>4. CASE UNCHANGED leaseVars
    <3>1. UNCHANGED <<real, wall, asleep, issued, record, anchor, job, sets, saved, wound>>
      BY <2>4 DEF leaseVars
    <3>2. ASSUME NEW p \in Pages PROVE JobOK(p)' /\ AnchorOK(p)'
      BY <3>1 DEF LeaseInv, JobOK, AnchorOK, Carries, Tick
    <3>3. ASSUME NEW r \in Records, KeptRecord(r)' PROVE RecordOK(r)'
      <4>1. KeptRecord(r)
        BY <3>1, <3>3 DEF KeptRecord
      <4>2. (OffsetOK(r) => OffsetOK(r)') /\ \A p \in Pages : AnchorFits(r, p) => AnchorFits(r, p)'
        BY <3>1 DEF OffsetOK, AnchorFits
      <4> QED BY <3>1, <4>1, <4>2 DEF LeaseInv, RecordOK, Carries
    <3> QED BY <2>1, <3>2, <3>3 DEF LeaseInv
  <2> QED
    BY <2>1, <2>2, <2>3, <2>4 DEF LeaseNext
<1> QED
  BY <1>1, <1>2, PTL DEF LeaseSpec

-----------------------------------------------------------------------------
(* What the lease promises *)

\* The only step in which a page judges is StatusJudged of that page, or the one
\* that closes it.
LEMMA OnlyJudgedSteps ==
  ASSUME LeaseTypeOK, [LeaseNext]_leaseVars, NEW p \in Pages,
         job[p].kind = "status", job'[p].kind # "status", verdict'[p] # "none"
  PROVE  StatusJudged(p)
<1>1. /\ job \in [Pages -> LeaseJobs]
      /\ verdict \in [Pages -> {"none", "clock_rollback", "expired", "available"}]
  BY DEF LeaseTypeOK
<1>2. CASE ClockTicks \/ Suspended \/ (\E w \in 0..MaxWall : ClockSet(w)) \/ UNCHANGED leaseVars
  BY <1>2 DEF ClockTicks, Suspended, ClockSet, leaseVars
<1>3. ASSUME NEW q \in Pages,
             \/ LeaseIssued(q) \/ SaveVerifiedLease(q) \/ AnchorSaved(q)
             \/ StatusReads(q) \/ FloorAdvanced(q) \/ PageReloaded(q)
      PROVE  FALSE
  <2>1. CASE q = p
    BY <1>1, <1>3, <2>1 DEF LeaseIssued, SaveVerifiedLease, AnchorSaved, StatusReads, FloorAdvanced,
                            PageReloaded
  <2>2. CASE q # p
    BY <1>1, <1>3, <2>2 DEF LeaseIssued, SaveVerifiedLease, AnchorSaved, StatusReads, FloorAdvanced,
                            PageReloaded
  <2> QED BY <2>1, <2>2
<1>4. ASSUME NEW q \in Pages, StatusJudged(q) PROVE StatusJudged(p)
  <2>1. CASE q = p
    BY <1>4, <2>1
  <2>2. CASE q # p
    <3>1. job' = [job EXCEPT ![q] = job'[q]]
      BY <1>4, JudgedShape
    <3> QED BY <1>1, <2>2, <3>1
  <2> QED BY <2>1, <2>2
<1> QED
  BY <1>2, <1>3, <1>4 DEF LeaseNext

\* What a verdict says of the clocks at that moment.
LEMMA VerdictMeans ==
  ASSUME LeaseTypeOK, NEW p \in Pages, StatusJudged(p)
  PROVE  LET stored == job[p].stored
             a == AnchorFor(p, stored.token)
             now == EffectiveNow(a, stored.serverOffset)
         IN /\ verdict'[p] = "clock_rollback" => RolledBack(stored)
            /\ verdict'[p] = "expired" => now >= stored.lease.exp
            /\ verdict'[p] = "available" => ~(now >= stored.lease.exp)
            /\ verdict'[p] = "available" /\ saved'[p] => saved[p] /\ a = anchor[p]
<1> DEFINE stored == job[p].stored
           a == AnchorFor(p, stored.token)
           now == EffectiveNow(a, stored.serverOffset)
<1>1. verdict \in [Pages -> {"none", "clock_rollback", "expired", "available"}]
  BY DEF LeaseTypeOK
<1>2. saved \in [Pages -> BOOLEAN]
  BY DEF LeaseTypeOK
<1>3. CASE RolledBack(stored) /\ verdict' = [verdict EXCEPT ![p] = "clock_rollback"]
  BY <1>1, <1>3
<1>4. CASE /\ saved' = [saved EXCEPT ![p] = @ /\ a = anchor[p]]
           /\ now >= stored.lease.exp
           /\ verdict' = [verdict EXCEPT ![p] = "expired"]
  BY <1>1, <1>4
<1>5. CASE /\ saved' = [saved EXCEPT ![p] = @ /\ a = anchor[p]]
           /\ ~(now >= stored.lease.exp)
           /\ verdict' = [verdict EXCEPT ![p] = "available"]
  <2>1. verdict'[p] = "available"
    BY <1>1, <1>5
  <2>2. saved'[p] = (saved[p] /\ a = anchor[p])
    BY <1>2, <1>5
  <2>3. saved'[p] => saved[p] /\ a = anchor[p]
    BY <2>2, Zenon
  <2> QED
    BY <1>5, <2>1, <2>3
<1> QED
  BY <1>3, <1>4, <1>5 DEF StatusJudged

\* The time a page judges by is at least the wall clock's, and at least the
\* anchor's with what has passed since, each with the offset.
LEMMA EffectiveNowBounds ==
  ASSUME LeaseTypeOK, NEW p \in Pages, NEW token \in Nat \ {0}, NEW offset \in Nat
  PROVE  LET a == AnchorFor(p, token)
         IN /\ EffectiveNow(a, offset) \in Int
            /\ wall + offset <= EffectiveNow(a, offset)
            /\ a.wall + (Tick - a.tick) + offset <= EffectiveNow(a, offset)
            /\ \/ EffectiveNow(a, offset) = wall + offset
               \/ EffectiveNow(a, offset) = a.wall + (Tick - a.tick) + offset
               \/ EffectiveNow(a, offset) = a.wall + offset
<1> DEFINE a == AnchorFor(p, token)
<1>1. wall \in Nat /\ Tick \in Int /\ anchor[p] \in {NoAnchor} \cup Anchors
  BY LeaseFacts DEF Tick
<1>2. a.wall \in Nat /\ a.tick \in Int
  <2>1. CASE anchor[p].token = token
    BY <1>1, <2>1, AnchorShape DEF AnchorFor
  <2>2. CASE anchor[p].token # token
    BY <1>1, <2>2 DEF AnchorFor
  <2> QED BY <2>1, <2>2
<1> HIDE DEF a
<1>3. /\ EffectiveNow(a, offset) \in Int
      /\ wall + offset <= EffectiveNow(a, offset)
      /\ a.wall + (Tick - a.tick) + offset <= EffectiveNow(a, offset)
      /\ \/ EffectiveNow(a, offset) = wall + offset
         \/ EffectiveNow(a, offset) = a.wall + (Tick - a.tick) + offset
         \/ EffectiveNow(a, offset) = a.wall + offset
  <2>1. CASE Tick - a.tick > 0
    BY <1>1, <1>2, <2>1 DEF EffectiveNow, Greater
  <2>2. CASE ~(Tick - a.tick > 0)
    BY <1>1, <1>2, <2>2 DEF EffectiveNow, Greater
  <2> QED BY <2>1, <2>2
<1> QED
  BY <1>3 DEF a

\* Judges of a current record is a step of StatusJudged over a kept record.
LEMMA JudgesMeans ==
  ASSUME LeaseTypeOK, LeaseInv, [LeaseNext]_leaseVars, NEW p \in Pages,
         NEW reason \in {"clock_rollback", "expired", "available"}, Judges(p, reason)
  PROVE  /\ StatusJudged(p) /\ verdict'[p] = reason
         /\ job[p].stored \in Records /\ job[p].stored.token \in Nat \ {0}
         /\ job[p].stored.serverOffset \in Nat
         /\ ~job[p].stored.legacy /\ RecordOK(job[p].stored) /\ OffsetOK(job[p].stored)
<1>1. StatusJudged(p) /\ verdict'[p] = reason /\ ~job[p].stored.legacy
  BY OnlyJudgedSteps DEF Judges
<1>2. /\ job[p].kind = "status" /\ job[p].stored \in Records
      /\ job[p].stored.token \in Nat \ {0} /\ job[p].stored.serverOffset \in Nat
  BY <1>1, JudgedShape, RecordShape
<1>3. RecordOK(job[p].stored)
  BY <1>2 DEF LeaseInv, KeptRecord
<1> QED
  BY <1>1, <1>2, <1>3 DEF RecordOK

\* A device whose clock is behind the server's gains no offline time: the offset
\* of whichever record a page judges makes up for what the clock is behind.
THEOREM SlowClockNeverGains == LeaseSpec => SlowClockGainsNothing
<1>1. ASSUME LeaseTypeOK, LeaseInv, [LeaseNext]_leaseVars, NEW p \in Pages,
             Judges(p, "available"), ~wound
      PROVE  real < job[p].stored.lease.exp + Delay
  <2> DEFINE stored == job[p].stored
             now == EffectiveNow(AnchorFor(p, stored.token), stored.serverOffset)
  <2>1. /\ StatusJudged(p) /\ verdict'[p] = "available" /\ stored \in Records
        /\ stored.token \in Nat \ {0} /\ stored.serverOffset \in Nat /\ OffsetOK(stored)
    BY <1>1, JudgesMeans
  <2>2. ~(now >= stored.lease.exp)
    BY <1>1, <2>1, VerdictMeans
  <2>3. now \in Int /\ wall + stored.serverOffset <= now
    BY <1>1, <2>1, EffectiveNowBounds
  <2>4. real <= wall + stored.serverOffset + Delay
    BY <1>1, <2>1 DEF OffsetOK
  <2>5. real \in Nat /\ wall \in Nat /\ Delay \in Nat /\ stored.lease.exp \in Nat
    BY <1>1, <2>1, LeaseFacts, RecordShape
  <2> HIDE DEF stored, now
  <2>6. real < stored.lease.exp + Delay
    BY <2>1, <2>2, <2>3, <2>4, <2>5
  <2> QED BY <2>6 DEF stored
<1>2. LeaseTypeOK /\ LeaseInv /\ [LeaseNext]_leaseVars
        => [\A p \in Pages : Judges(p, "available") /\ ~wound =>
              real < job[p].stored.lease.exp + Delay]_leaseVars
  BY <1>1
<1> QED
  BY <1>2, LeaseTyped, PTL DEF LeaseSpec, SlowClockGainsNothing

\* A device whose clock is only different works: no record of the current format
\* is a rollback, and none expires before the lease ends by one of the clocks.
THEOREM SlowClockAlwaysWorks == LeaseSpec => SlowClockStillWorks
<1>1. ASSUME LeaseTypeOK, LeaseInv, [LeaseNext]_leaseVars, NEW p \in Pages, sets = 0,
             Judges(p, "clock_rollback")
      PROVE  FALSE
  <2>1. /\ StatusJudged(p) /\ verdict'[p] = "clock_rollback" /\ job[p].stored \in Records
        /\ ~job[p].stored.legacy /\ OffsetOK(job[p].stored)
    BY <1>1, JudgesMeans
  <2>2. RolledBack(job[p].stored)
    BY <1>1, <2>1, VerdictMeans
  <2>3. wall + Tolerance < job[p].stored.trustedWall /\ job[p].stored.trustedWall <= wall
    BY <1>1, <2>1, <2>2 DEF RolledBack, OffsetOK
  <2>4. wall \in Nat /\ Tolerance \in Nat /\ job[p].stored.trustedWall \in Nat
    BY <1>1, <2>1, LeaseFacts, RecordShape
  <2> QED BY <2>3, <2>4
<1>2. ASSUME LeaseTypeOK, LeaseInv, [LeaseNext]_leaseVars, NEW p \in Pages, sets = 0,
             Judges(p, "expired")
      PROVE  Greater(real, wall) >= job[p].stored.lease.exp
  <2> DEFINE stored == job[p].stored
             a == AnchorFor(p, stored.token)
             now == EffectiveNow(a, stored.serverOffset)
  <2>1. /\ StatusJudged(p) /\ verdict'[p] = "expired" /\ stored \in Records
        /\ stored.token \in Nat \ {0} /\ stored.serverOffset \in Nat /\ OffsetOK(stored)
    BY <1>2, JudgesMeans
  <2>2. now >= stored.lease.exp
    BY <1>2, <2>1, VerdictMeans
  <2>3. /\ now \in Int
        /\ \/ now = wall + stored.serverOffset
           \/ now = a.wall + (Tick - a.tick) + stored.serverOffset
           \/ now = a.wall + stored.serverOffset
    BY <1>2, <2>1, EffectiveNowBounds
  <2>4. /\ real \in Nat /\ wall \in Nat /\ Tick \in Int /\ stored.lease.exp \in Nat
        /\ anchor[p] \in {NoAnchor} \cup Anchors
    BY <1>2, <2>1, LeaseFacts, RecordShape DEF Tick
  <2>5. a.wall \in Nat /\ a.tick \in Int /\ a.wall <= wall /\ a.wall + (Tick - a.tick) <= wall
    <3>1. CASE anchor[p].token = stored.token
      <4>1. a = anchor[p] /\ anchor[p] # NoAnchor
        BY <2>1, <2>4, <3>1, AnchorShape DEF AnchorFor
      <4>2. AnchorOK(p)
        BY <1>2 DEF LeaseInv
      <4> HIDE DEF a
      <4> QED
        BY <1>2, <2>4, <4>1, <4>2, AnchorShape DEF AnchorOK
    <3>2. CASE anchor[p].token # stored.token
      BY <2>4, <3>2 DEF AnchorFor
    <3> QED BY <3>1, <3>2
  <2>6. stored.serverOffset = 0 \/ wall + stored.serverOffset <= real
    BY <1>2, <2>1 DEF OffsetOK
  <2> HIDE DEF stored, a, now
  <2>7. now <= wall + stored.serverOffset
    BY <2>1, <2>3, <2>4, <2>5
  <2>8. Greater(real, wall) >= stored.lease.exp
    BY <2>1, <2>2, <2>3, <2>4, <2>6, <2>7 DEF Greater
  <2> QED BY <2>8 DEF stored
<1>3. LeaseTypeOK /\ LeaseInv /\ [LeaseNext]_leaseVars
        => [\A p \in Pages : sets = 0 =>
              /\ ~Judges(p, "clock_rollback")
              /\ Judges(p, "expired") => Greater(real, wall) >= job[p].stored.lease.exp]_leaseVars
  BY <1>1, <1>2
<1> QED
  BY <1>3, LeaseTyped, PTL DEF LeaseSpec, SlowClockStillWorks

\* The page that saved a lease cannot be made to open the copy for longer by
\* setting the wall clock: its anchor and the record's offset come from one
\* reading of that clock.
THEOREM PageNeverRewinds == LeaseSpec => PageCannotRewind
<1>1. ASSUME LeaseTypeOK, LeaseInv, [LeaseNext]_leaseVars, NEW p \in Pages,
             Judges(p, "available"), saved'[p]
      PROVE  Tick < job[p].stored.lease.tick + Life + Delay
  <2> DEFINE stored == job[p].stored
             a == AnchorFor(p, stored.token)
             now == EffectiveNow(a, stored.serverOffset)
  <2>1. /\ StatusJudged(p) /\ verdict'[p] = "available" /\ stored \in Records
        /\ stored.token \in Nat \ {0} /\ stored.serverOffset \in Nat
        /\ ~stored.legacy /\ RecordOK(stored) /\ OffsetOK(stored)
    BY <1>1, JudgesMeans
  <2>2. ~(now >= stored.lease.exp) /\ saved[p] /\ a = anchor[p]
    BY <1>1, <2>1, VerdictMeans
  <2>3. now \in Int /\ a.wall + (Tick - a.tick) + stored.serverOffset <= now
    BY <1>1, <2>1, EffectiveNowBounds
  <2>4. anchor[p].token = stored.token
    BY <2>2 DEF AnchorFor
  <2>5. /\ stored.lease.iat <= anchor[p].wall + stored.serverOffset
        /\ anchor[p].tick <= stored.lease.tick + Delay
    BY <2>1, <2>2, <2>4 DEF RecordOK, AnchorFits
  <2>6. stored.lease.exp = stored.lease.iat + Life
    BY <2>1 DEF OffsetOK
  <2>7. /\ Tick \in Int /\ Delay \in Nat /\ Life \in Nat
        /\ stored.lease.exp \in Nat /\ stored.lease.iat \in Nat /\ stored.lease.tick \in Int
        /\ anchor[p].wall \in Nat /\ anchor[p].tick \in Int
    BY <1>1, <2>1, <2>4, LeaseFacts, RecordShape, AnchorShape DEF Tick
  <2> HIDE DEF stored, a, now
  <2>8. Tick < stored.lease.tick + Life + Delay
    BY <2>1, <2>2, <2>3, <2>5, <2>6, <2>7
  <2> QED BY <2>8 DEF stored
<1>2. LeaseTypeOK /\ LeaseInv /\ [LeaseNext]_leaseVars
        => [\A p \in Pages : Judges(p, "available") /\ saved'[p] =>
              Tick < job[p].stored.lease.tick + Life + Delay]_leaseVars
  BY <1>1
<1> QED
  BY <1>2, LeaseTyped, PTL DEF LeaseSpec, PageCannotRewind
=============================================================================
