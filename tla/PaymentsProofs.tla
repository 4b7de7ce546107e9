--------------------------- MODULE PaymentsProofs ---------------------------
(***************************************************************************)
(* What holds of a subscription and the cards that pay for it              *)
(* (ManualPayments) for any lengths of trial, period, grace and gap, any   *)
(* number of cards and of an administrator's decisions, and any days.      *)
(*                                                                         *)
(* A transaction is a chain of functions on the account's rows, so the     *)
(* lemmas are about those functions and the invariants about the rows.     *)
(***************************************************************************)
EXTENDS ManualPayments, WellFoundedInduction, TLAPS

SubType ==
  [status : Statuses \cup {"none"}, plan : Plans \cup {"trial"}, started : Nat, trialStart : Nat,
   trialEnd : Nat, start : Nat, end : Nat, grace : Nat, cancel : BOOLEAN,
   reason : {"other", "installment"}, prov : 0..MaxPayments]
CardType ==
  [status : {"none", "pending", "succeeded", "failed"},
   review : {"none", "pending", "approved", "rejected"}, plan : Plans, number : 0..Installments,
   of : 0..MaxPayments, agreement : {"none", "active", "completed", "cancelled"}, at : Nat,
   from : Nat, until : Nat, early : BOOLEAN, prev : SubType, timely : BOOLEAN]

RowsOK(r) ==
  /\ r = [sub |-> r.sub, ended |-> r.ended, grant |-> r.grant, pay |-> r.pay]
  /\ r.sub \in SubType
  /\ r.pay \in [Cards -> CardType]

PaymentsTypeOK ==
  /\ day \in Nat \ {0} /\ decisions \in Nat /\ promised \in Nat /\ policy \in BOOLEAN
  /\ RowsOK(Rows)

\* A card is under review until it is reviewed, its agreement is open while it
\* is under review or approved, and cards are sent in the order of their
\* numbers, each after the review of the one before.
CardsOK(r) ==
  \A p \in Cards :
    LET c == r.pay[p]
    IN /\ c.status = "none" <=> c.review = "none"
       /\ c.status = "pending" <=> c.review = "pending"
       /\ c.review = "approved" => c.status = "succeeded"
       /\ c.status = "none" => c.agreement = "none"
       /\ c.agreement = "active" => /\ c.review \in {"pending", "approved"}
                                    /\ c.number = 1 /\ c.of = p
       /\ c.number = 0 => c.of = 0
       /\ c.number = 1 => c.of = p
       /\ c.status \in {"none", "pending"} =>
            \A q \in Cards : q > p => r.pay[q].status = "none"

\* The subscription rests on the purchase under review, if there is one.
OwnsReview(r) ==
  /\ \A p \in Cards : r.pay[p].review = "pending" /\ r.pay[p].number < 2 => r.sub.prov = p
  /\ r.sub.prov # 0 => /\ r.pay[r.sub.prov].review = "pending"
                       /\ r.pay[r.sub.prov].number < 2
                       /\ r.sub.status \notin {"trialing", "none"}
                       /\ r.pay[r.sub.prov].prev.status # "none"
  /\ r.sub.status = "none" => r.sub = NoSub

-----------------------------------------------------------------------------
(* Access that was paid for *)

\* Day t is before the end of the trial, of what an administrator gave, or of
\* the period, with its grace, of an approved card.
Covered(r, given, t) ==
  \/ t <= r.sub.trialEnd
  \/ t <= given
  \/ \E p \in Cards : r.pay[p].review = "approved" /\ t <= r.pay[p].until + GraceLength
CoveredDates(r, given, s) == Covered(r, given, s.end) /\ Covered(r, given, s.grace)

\* The dates of the row, or of the row a card under review took the place of,
\* are paid for.
DatesCovered(r, given) ==
  /\ r.sub.prov = 0 => CoveredDates(r, given, r.sub)
  /\ r.sub.prov # 0 =>
       LET card == r.pay[r.sub.prov]
       IN /\ CoveredDates(r, given, card.prev)
          /\ card.prev.trialEnd = r.sub.trialEnd
          /\ r.sub.end = card.until \/ CoveredDates(r, given, r.sub)

\* While a card is under review the grant is the earlier row's.
GrantCovered(r, given) ==
  r.sub.prov # 0 /\ r.grant.on =>
    /\ r.grant.until \in Nat \ {0} /\ Covered(r, given, r.grant.until)

PaidInv == policy => DatesCovered(Rows, promised) /\ GrantCovered(Rows, promised)

-----------------------------------------------------------------------------
(* Periods that follow *)

Bought(r) == {p \in Cards : r.pay[p].review = "approved" /\ r.pay[p].number < 2}

\* Row s ends no earlier than any period sold.
EndsLast(r, s) ==
  /\ \A p \in Bought(r) : 0 < r.pay[p].until /\ r.pay[p].until <= s.end /\ s.end <= s.grace
  /\ s.status = "trialing" => s.end = s.trialEnd

InOrder(r) ==
  /\ \A p, q \in Bought(r) : p < q => r.pay[p].until <= r.pay[q].from
  /\ r.sub.prov = 0 => EndsLast(r, r.sub)
  /\ r.sub.prov # 0 =>
       LET card == r.pay[r.sub.prov]
       IN /\ EndsLast(r, card.prev)
          /\ r.sub.end = card.until /\ r.sub.end <= r.sub.grace
          /\ card.from < card.until
          /\ \A p \in Bought(r) : r.pay[p].until <= card.from

OrderInv == decisions = 0 => InOrder(Rows)

-----------------------------------------------------------------------------
(* Holds *)

\* The end of the period has been recorded, for a row that was active again
\* with the same period.
Recorded(r) == <<"period", r.sub.end>> \in r.ended
HeldForReason(r) == HeldBack(r.sub) => \E a \in ActiveAgreements(r) : HoldsBack(r, a)
HoldInv == HeldForReason(Rows) \/ Recorded(Rows)

\* A period's end is recorded when it has come.
KeysOK(r) == \A k \in r.ended : k[1] = "period" => k[2] \in Nat \ {0} /\ k[2] <= day

\* As long as no administrator has decided anything, a row whose last reason is
\* an installment has not had its period's end recorded; nor has the row that a
\* card under review took the place of, which a refusal brings back.
Running(s) == s.status \in {"active", "grace", "suspended"} \/ s.end <= day
Fresh(r, s) == s.reason = "installment" => Running(s) /\ <<"period", s.end>> \notin r.ended
FreshRows(r) ==
  /\ Fresh(r, r.sub)
  /\ r.sub.prov # 0 =>
       LET card == r.pay[r.sub.prov]
       IN /\ Running(r.sub) /\ Fresh(r, card.prev)
          /\ card.prev.reason = "installment" => card.prev.end <= card.from

FreshInv == KeysOK(Rows) /\ (decisions = 0 => FreshRows(Rows))

PaymentsInv ==
  /\ PaymentsTypeOK /\ CardsOK(Rows) /\ OwnsReview(Rows)
  /\ PaidInv /\ OrderInv /\ HoldInv /\ FreshInv

-----------------------------------------------------------------------------
(* Earliest, and the functions that leave the periods and the cards alone *)

\* A set of numbers has an earliest one.
LEMMA EarliestIs ==
  ASSUME NEW S \in SUBSET Nat, S # {}
  PROVE  Earliest(S) \in S /\ \A u \in S : Earliest(S) <= u
<1> DEFINE R == OpToRel(<, Nat)
<1>1. IsWellFoundedOn(R, Nat)
  BY NatLessThanWellFounded, Zenon
<1>2. \A y \in Nat, x \in Nat : <<y, x>> \in R <=> y < x
  BY DEF OpToRel
<1> HIDE DEF R
<1>3. PICK x \in S : \A y \in S : ~ (<<y, x>> \in R)
  BY <1>1, WFMin
<1>4. \A y \in S : ~ (y < x)
  BY <1>2, <1>3, Zenon
<1>5. \A y \in S : x <= y
  BY <1>4
<1>6. QED
  BY <1>5 DEF Earliest

\* What every function of the lifecycle keeps of a card: all but an agreement
\* that is completed.
SameCard(c, d) ==
  /\ d.status = c.status /\ d.review = c.review /\ d.plan = c.plan /\ d.number = c.number
  /\ d.of = c.of /\ d.at = c.at /\ d.from = c.from /\ d.until = c.until
  /\ d.early = c.early /\ d.prev = c.prev /\ d.timely = c.timely
  /\ d.agreement = c.agreement \/ (c.agreement = "active" /\ d.agreement = "completed")

\* What they keep of the rows: the periods and the card the row rests on.
Kept(r, R) ==
  /\ RowsOK(R)
  /\ R.sub.plan = r.sub.plan /\ R.sub.trialStart = r.sub.trialStart
  /\ R.sub.trialEnd = r.sub.trialEnd /\ R.sub.start = r.sub.start /\ R.sub.end = r.sub.end
  /\ R.sub.grace = r.sub.grace /\ R.sub.cancel = r.sub.cancel /\ R.sub.prov = r.sub.prov
  /\ R.sub.status \in {"trialing", "none"} => R.sub = r.sub
  /\ r.ended \subseteq R.ended
  /\ \A p \in Cards : SameCard(r.pay[p], R.pay[p])

\* A row that is under review names the card.
LEMMA ReviewCard ==
  ASSUME NEW s \in SubType
  PROVE  s.prov # 0 => s.prov \in Cards
<1>1. s.prov \in 0..MaxPayments /\ MaxPayments \in Nat
  BY PaymentsAssumption DEF SubType
<1>2. QED
  BY <1>1 DEF Cards

LEMMA KeptReflexive ==
  ASSUME NEW r, RowsOK(r)
  PROVE  Kept(r, r)
BY DEF Kept, SameCard

LEMMA KeptTransitive ==
  ASSUME NEW r, NEW q, NEW R, Kept(r, q), Kept(q, R)
  PROVE  Kept(r, R)
BY DEF Kept, SameCard

LEMMA SyncRows ==
  ASSUME NEW r, RowsOK(r)
  PROVE  LET R == SyncEntitlements(r)
         IN RowsOK(R) /\ R.sub = r.sub /\ R.pay = r.pay /\ R.ended = r.ended
<1> DEFINE g == SyncEntitlements(r).grant
<1>1. SyncEntitlements(r) = [r EXCEPT !.grant = g]
  BY DEF SyncEntitlements, RowsOK
<1> HIDE DEF g
<1>2. QED
  BY <1>1 DEF RowsOK

\* The row a transition leaves.
Moved(s, to, reason) ==
  [s EXCEPT !.status = to, !.reason = reason,
            !.started = IF to = "active" THEN FirstOf(s.started, day) ELSE s.started]

LEMMA MovedFields ==
  ASSUME NEW s \in SubType, NEW to \in Statuses, NEW reason \in {"other", "installment"},
         day \in Nat \ {0}
  PROVE  LET t == Moved(s, to, reason)
         IN /\ t \in SubType
            /\ t.status = to /\ t.reason = reason
            /\ t.plan = s.plan /\ t.trialStart = s.trialStart /\ t.trialEnd = s.trialEnd
            /\ t.start = s.start /\ t.end = s.end /\ t.grace = s.grace
            /\ t.cancel = s.cancel /\ t.prov = s.prov
            /\ t.started = s.started \/ (to = "active" /\ s.started = 0 /\ t.started = day)
            /\ to = "active" => t.started # 0
<1> DEFINE started == IF to = "active" THEN FirstOf(s.started, day) ELSE s.started
<1>1. /\ started \in Nat
      /\ started = s.started \/ (to = "active" /\ s.started = 0 /\ started = day)
      /\ to = "active" => started # 0
  BY DEF SubType, FirstOf
<1> HIDE DEF started
<1>2. Moved(s, to, reason) = [s EXCEPT !.status = to, !.reason = reason, !.started = started]
  BY DEF Moved, started
<1>3. QED
  BY <1>1, <1>2 DEF SubType

LEMMA TransitionIs ==
  ASSUME NEW r, RowsOK(r), NEW to \in Statuses, NEW reason \in {"other", "installment"},
         day \in Nat \ {0}
  PROVE  LET q == [r EXCEPT !.sub = Moved(r.sub, to, reason)]
         IN /\ Transition(r, to, reason) = SyncEntitlements(q)
            /\ RowsOK(q) /\ q.pay = r.pay /\ q.ended = r.ended /\ q.grant = r.grant
            /\ q.sub = Moved(r.sub, to, reason)
<1> DEFINE started == IF to = "active" THEN FirstOf(r.sub.started, day) ELSE r.sub.started
           q == [r EXCEPT !.sub.status = to, !.sub.reason = reason, !.sub.started = started]
<1>1. started \in Nat
  BY DEF RowsOK, SubType, FirstOf
<1>2. q = [r EXCEPT !.sub = Moved(r.sub, to, reason)]
  <2> HIDE DEF started
  <2>1. q = [r EXCEPT !.sub = [r.sub EXCEPT !.status = to, !.reason = reason,
                                             !.started = started]]
    BY <1>1 DEF RowsOK, SubType
  <2>2. QED
    BY <2>1 DEF Moved, started
<1>3. Moved(r.sub, to, reason) \in SubType
  BY MovedFields DEF RowsOK
<1>4. Transition(r, to, reason) = SyncEntitlements(q)
  BY DEF Transition
<1> HIDE DEF q, started
<1>5. QED
  BY <1>2, <1>3, <1>4 DEF RowsOK

LEMMA TransitionRows ==
  ASSUME NEW r, RowsOK(r), NEW to \in Statuses, NEW reason \in {"other", "installment"},
         day \in Nat \ {0}
  PROVE  LET R == Transition(r, to, reason)
         IN /\ RowsOK(R) /\ R.pay = r.pay /\ R.ended = r.ended
            /\ R.sub = Moved(r.sub, to, reason)
<1> DEFINE q == [r EXCEPT !.sub = Moved(r.sub, to, reason)]
<1>1. /\ Transition(r, to, reason) = SyncEntitlements(q)
      /\ RowsOK(q) /\ q.pay = r.pay /\ q.ended = r.ended /\ q.sub = Moved(r.sub, to, reason)
  BY TransitionIs
<1> HIDE DEF q
<1>2. QED
  BY <1>1, SyncRows

LEMMA SyncKept ==
  ASSUME NEW r, RowsOK(r)
  PROVE  Kept(r, SyncEntitlements(r))
BY SyncRows DEF Kept, SameCard

LEMMA TransitionKept ==
  ASSUME NEW r, RowsOK(r), NEW to \in Statuses \ {"trialing"},
         NEW reason \in {"other", "installment"}, day \in Nat \ {0}
  PROVE  Kept(r, Transition(r, to, reason))
<1>1. to \in Statuses /\ to \notin {"trialing", "none"}
  BY DEF Statuses, Granting
<1> DEFINE R == Transition(r, to, reason)
<1>2. /\ RowsOK(R) /\ R.pay = r.pay /\ R.ended = r.ended
      /\ R.sub = Moved(r.sub, to, reason)
  BY <1>1, TransitionRows
<1> HIDE DEF R
<1>3. /\ R.sub.status = to
      /\ R.sub.plan = r.sub.plan /\ R.sub.trialStart = r.sub.trialStart
      /\ R.sub.trialEnd = r.sub.trialEnd /\ R.sub.start = r.sub.start /\ R.sub.end = r.sub.end
      /\ R.sub.grace = r.sub.grace /\ R.sub.cancel = r.sub.cancel /\ R.sub.prov = r.sub.prov
  BY <1>1, <1>2, MovedFields DEF RowsOK
<1>4. QED
  BY <1>1, <1>2, <1>3 DEF Kept, SameCard, R

\* A dated transition leaves the rows or makes the transition.
LEMMA OnceCases ==
  ASSUME NEW r, RowsOK(r), NEW key, NEW to \in Statuses \ {"trialing"}, day \in Nat \ {0}
  PROVE  LET R == Once(r, key, to)
         IN /\ Kept(r, R)
            /\ \/ key \in r.ended /\ R = r
               \/ /\ key \notin r.ended
                  /\ R.sub = Moved(r.sub, to, "other")
                  /\ R.pay = r.pay
                  /\ R.ended = r.ended \cup {key}
<1> DEFINE q == [r EXCEPT !.ended = @ \cup {key}]
<1>1. RowsOK(q) /\ Kept(r, q) /\ q.sub = r.sub /\ q.pay = r.pay /\ q.ended = r.ended \cup {key}
  <2>1. RowsOK(q) /\ q.sub = r.sub /\ q.pay = r.pay /\ q.ended = r.ended \cup {key}
    BY SMTT(30) DEF RowsOK
  <2> HIDE DEF q
  <2>2. QED
    BY <2>1 DEF Kept, SameCard
<1>2. CASE key \in r.ended
  BY <1>2, KeptReflexive DEF Once
<1>3. CASE key \notin r.ended
  <2>1. Once(r, key, to) = Transition(q, to, "other")
    BY <1>3 DEF Once
  <2> HIDE DEF q
  <2>2. Kept(q, Transition(q, to, "other"))
    BY <1>1, TransitionKept
  <2>3. /\ Transition(q, to, "other").pay = q.pay /\ Transition(q, to, "other").ended = q.ended
        /\ Transition(q, to, "other").sub = Moved(q.sub, to, "other")
    BY <1>1, TransitionRows
  <2>4. QED
    BY <1>1, <1>3, <2>1, <2>2, <2>3, KeptTransitive
<1>4. QED
  BY <1>2, <1>3

\* One pass leaves the rows or makes a dated transition of a running row.
LEMMA LifecycleStepCases ==
  ASSUME NEW r
  PROVE  LET R == LifecycleStep(r)
         IN \/ R = r
            \/ /\ r.sub.status \in Granting
               /\ \E key : \E to \in {"expired", "cancelled", "grace"} : R = Once(r, key, to)
BY DEF LifecycleStep, PeriodOver, Granting

LEMMA LifecycleStepKept ==
  ASSUME NEW r, RowsOK(r), day \in Nat \ {0}
  PROVE  Kept(r, LifecycleStep(r))
<1>1. {"expired", "cancelled", "grace"} \subseteq Statuses \ {"trialing"}
  BY DEF Statuses, Granting
<1>2. CASE LifecycleStep(r) = r
  BY <1>2, KeptReflexive
<1>3. CASE \E key : \E to \in {"expired", "cancelled", "grace"} : LifecycleStep(r) = Once(r, key, to)
  <2>1. PICK key : \E to \in {"expired", "cancelled", "grace"} : LifecycleStep(r) = Once(r, key, to)
    BY <1>3
  <2>2. PICK to \in {"expired", "cancelled", "grace"} : LifecycleStep(r) = Once(r, key, to)
    BY <2>1
  <2>3. Kept(r, Once(r, key, to))
    BY <1>1, OnceCases
  <2>4. QED
    BY <2>2, <2>3
<1>4. QED
  BY <1>2, <1>3, LifecycleStepCases

LEMMA LifecycleKept ==
  ASSUME NEW r, RowsOK(r), day \in Nat \ {0}
  PROVE  Kept(r, RefreshLifecycle(r))
<1>1. Kept(r, LifecycleStep(r)) /\ RowsOK(LifecycleStep(r))
  BY LifecycleStepKept DEF Kept
<1>2. QED
  BY <1>1, LifecycleStepKept, KeptTransitive DEF RefreshLifecycle

-----------------------------------------------------------------------------
(* Installments *)

\* The next part is the first that is not paid, 0 when both are.
LEMMA NextNumberCases ==
  ASSUME NEW r, NEW a
  PROVE  LET n == NextNumber(r, a)
         IN /\ n \in 0..Installments
            /\ n = 0 <=> 1 \in PaidNumbers(r, a) /\ 2 \in PaidNumbers(r, a)
            /\ n = 1 <=> 1 \notin PaidNumbers(r, a)
<1> DEFINE S == (1..Installments) \ PaidNumbers(r, a)
<1>1. 1..Installments = {1, 2}
  BY DEF Installments
<1>2. CASE S = {}
  BY <1>1, <1>2 DEF NextNumber, Installments
<1>3. CASE S # {}
  <2>1. S \in SUBSET Nat
    BY <1>1
  <2>2. Earliest(S) \in S /\ \A u \in S : Earliest(S) <= u
    <3> HIDE DEF S
    <3> QED BY <1>3, <2>1, EarliestIs
  <2>3. NextNumber(r, a) = Earliest(S)
    BY <1>1, <1>3 DEF NextNumber
  <2>4. QED
    BY <1>1, <2>2, <2>3 DEF Installments
<1>4. QED
  BY <1>2, <1>3

\* A first part under review puts enforce_installments off.
Skips(r) == policy /\ \E p \in Cards : r.pay[p].status = "pending" /\ r.pay[p].number = 1

LEMMA EnforceCases ==
  ASSUME NEW r, RowsOK(r)
  PROVE  LET R == EnforceInstallments(r)
         IN \/ /\ R = r
               /\ \/ r.sub.status \notin {"active", "suspended"}
                  \/ Skips(r)
                  \/ \E a \in ActiveAgreements(r) : HoldsBack(r, a) /\ r.sub.status # "active"
            \/ /\ HeldBack(r.sub) /\ r.sub.end # 0 /\ r.sub.end <= day
               /\ R = Once(r, <<"period", r.sub.end>>, "expired")
            \/ /\ R = Resume(r)
               /\ ~ (HeldBack(r.sub) /\ r.sub.end # 0 /\ r.sub.end <= day)
            \/ /\ ~ (HeldBack(r.sub) /\ r.sub.end # 0 /\ r.sub.end <= day)
               /\ \E a \in ActiveAgreements(r) : R = Resume([r EXCEPT !.pay[a].agreement = "completed"])
            \/ \E a \in ActiveAgreements(r) :
                 /\ HoldsBack(r, a) /\ r.sub.status = "active"
                 /\ R = Transition(r, "suspended", "installment")
<1>1. CASE ActiveAgreements(r) = {}
  BY <1>1 DEF EnforceInstallments, Skips
<1>2. CASE ActiveAgreements(r) # {}
  <2> DEFINE a == Earliest(ActiveAgreements(r))
  <2>1. ActiveAgreements(r) \in SUBSET Nat
    BY PaymentsAssumption DEF ActiveAgreements, Cards
  <2>2. a \in ActiveAgreements(r)
    BY <1>2, <2>1, EarliestIs
  <2> HIDE DEF a
  <2>3. QED
    BY <1>2, <2>2 DEF EnforceInstallments, Skips, a
<1>3. QED
  BY <1>1, <1>2

\* A hold that is lifted leaves the row active, any other row as it is.
LEMMA ResumeCases ==
  ASSUME NEW r, RowsOK(r), day \in Nat \ {0}
  PROVE  LET R == Resume(r)
         IN /\ Kept(r, R) /\ R.pay = r.pay /\ R.ended = r.ended
            /\ \/ ~HeldBack(r.sub) /\ R = r
               \/ /\ HeldBack(r.sub) /\ R = Transition(r, "active", "installment")
                  /\ R.sub = Moved(r.sub, "active", "installment")
                  /\ R.sub.status = "active"
<1>1. "active" \in Statuses \ {"trialing"} /\ "active" \in Statuses
  BY DEF Statuses, Granting
<1>2. CASE HeldBack(r.sub)
  <2>1. Resume(r) = Transition(r, "active", "installment")
    BY <1>2 DEF Resume
  <2>2. Kept(r, Resume(r))
    BY <1>1, <2>1, TransitionKept
  <2>3. /\ Resume(r).pay = r.pay /\ Resume(r).ended = r.ended
        /\ Resume(r).sub = Moved(r.sub, "active", "installment")
    BY <1>1, <2>1, TransitionRows
  <2>4. Resume(r).sub.status = "active"
    BY <1>1, <2>3, MovedFields DEF RowsOK
  <2>5. QED
    BY <1>2, <2>1, <2>2, <2>3, <2>4
<1>3. CASE ~HeldBack(r.sub)
  BY <1>3, KeptReflexive DEF Resume
<1>4. QED
  BY <1>2, <1>3

LEMMA CompletedRows ==
  ASSUME NEW r, RowsOK(r), NEW a \in ActiveAgreements(r)
  PROVE  LET q == [r EXCEPT !.pay[a].agreement = "completed"]
         IN /\ RowsOK(q) /\ Kept(r, q) /\ q.sub = r.sub /\ q.ended = r.ended
            /\ q.pay[a].agreement = "completed" /\ q.grant = r.grant
<1> DEFINE q == [r EXCEPT !.pay[a].agreement = "completed"]
           card == [r.pay[a] EXCEPT !.agreement = "completed"]
<1>1. a \in Cards /\ r.pay[a].agreement = "active" /\ r.pay[a] \in CardType
  BY DEF ActiveAgreements, RowsOK
<1>2. /\ q = [r EXCEPT !.pay = [r.pay EXCEPT ![a] = card]]
  BY <1>1 DEF RowsOK
<1>3. card \in CardType /\ SameCard(r.pay[a], card) /\ card.agreement = "completed"
  BY <1>1 DEF CardType, SameCard
<1> HIDE DEF q, card
<1>4. /\ RowsOK(q) /\ q.sub = r.sub /\ q.ended = r.ended /\ q.grant = r.grant
      /\ q.pay = [r.pay EXCEPT ![a] = card]
  BY <1>1, <1>2, <1>3 DEF RowsOK
<1>5. \A p \in Cards : SameCard(r.pay[p], q.pay[p])
  BY <1>1, <1>3, <1>4 DEF RowsOK, SameCard
<1>6. q.pay[a] = card
  BY <1>1, <1>4 DEF RowsOK
<1>7. Kept(r, q)
  BY <1>4, <1>5 DEF Kept
<1>8. QED
  BY <1>3, <1>4, <1>6, <1>7 DEF q

LEMMA EnforceKept ==
  ASSUME NEW r, RowsOK(r), day \in Nat \ {0}
  PROVE  Kept(r, EnforceInstallments(r))
<1> DEFINE R == EnforceInstallments(r)
<1>0. "suspended" \in Statuses \ {"trialing"} /\ "expired" \in Statuses \ {"trialing"}
  BY DEF Statuses, Granting
<1>1. CASE R = r
  BY <1>1, KeptReflexive
<1>2. CASE R = Once(r, <<"period", r.sub.end>>, "expired")
  BY <1>0, <1>2, OnceCases
<1>3. CASE R = Resume(r)
  BY <1>3, ResumeCases
<1>4. ASSUME NEW a \in ActiveAgreements(r), R = Resume([r EXCEPT !.pay[a].agreement = "completed"])
      PROVE  Kept(r, R)
  BY <1>4, CompletedRows, ResumeCases, KeptTransitive
<1>5. CASE R = Transition(r, "suspended", "installment")
  BY <1>0, <1>5, TransitionKept
<1> HIDE DEF R
<1>6. QED
  BY <1>1, <1>2, <1>3, <1>4, <1>5, EnforceCases DEF R

LEMMA RefreshKept ==
  ASSUME NEW r, RowsOK(r), day \in Nat \ {0}
  PROVE  Kept(r, RefreshSubscription(r))
<1>1. Kept(r, RefreshLifecycle(r)) /\ RowsOK(RefreshLifecycle(r))
  BY LifecycleKept DEF Kept
<1>2. QED
  BY <1>1, EnforceKept, KeptTransitive DEF RefreshSubscription

\* The payments of an agreement are read from what Kept keeps.
LEMMA KeptHolds ==
  ASSUME NEW r, NEW R, Kept(r, R), NEW a \in Cards
  PROVE  /\ PaymentsOf(R, a) = PaymentsOf(r, a) /\ PaidNumbers(R, a) = PaidNumbers(r, a)
         /\ NextNumber(R, a) = NextNumber(r, a) /\ HoldsBack(R, a) = HoldsBack(r, a)
<1>1. PaymentsOf(R, a) = PaymentsOf(r, a)
  BY DEF PaymentsOf, Kept, SameCard
<1>2. \A p \in PaymentsOf(r, a) : p \in Cards
  BY DEF PaymentsOf
<1>3. PaidNumbers(R, a) = PaidNumbers(r, a)
  BY <1>1, <1>2 DEF PaidNumbers, Kept, SameCard
<1>4. NextNumber(R, a) = NextNumber(r, a)
  BY <1>3 DEF NextNumber
<1>5. \A n : DueAt(R, a, n) = DueAt(r, a, n)
  BY DEF DueAt, Kept, SameCard
<1>6. \A p \in PaymentsOf(r, a) : /\ R.pay[p].status = r.pay[p].status
                                  /\ R.pay[p].number = r.pay[p].number
                                  /\ R.pay[p].at = r.pay[p].at
  BY <1>2 DEF Kept, SameCard
<1>7. HoldsBack(R, a) <=> HoldsBack(r, a)
  BY <1>1, <1>4, <1>5, <1>6 DEF HoldsBack
<1>8. HoldsBack(R, a) = HoldsBack(r, a)
  BY <1>7, Zenon DEF HoldsBack
<1>9. QED
  BY <1>1, <1>3, <1>4, <1>8

\* enforce_installments ends with a hold that has its reason, unless a first
\* part under review puts it off or the period's end was recorded before.
LEMMA EnforceHolds ==
  ASSUME NEW r, RowsOK(r), day \in Nat \ {0},
         HeldForReason(r) \/ Recorded(r) \/ ~Skips(r)
  PROVE  LET R == EnforceInstallments(r) IN HeldForReason(R) \/ Recorded(R)
<1> DEFINE R == EnforceInstallments(r)
<1>0. "suspended" \in Statuses /\ "expired" \in Statuses \ {"trialing"} /\ "expired" \in Statuses
  BY DEF Statuses, Granting
<1>1. ASSUME R = r,
             \/ r.sub.status \notin {"active", "suspended"}
             \/ Skips(r)
             \/ \E a \in ActiveAgreements(r) : HoldsBack(r, a) /\ r.sub.status # "active"
      PROVE  HeldForReason(R) \/ Recorded(R)
  BY <1>1 DEF HeldForReason, HeldBack
<1>2. CASE HeldBack(r.sub) /\ R = Once(r, <<"period", r.sub.end>>, "expired")
  <2>1. CASE <<"period", r.sub.end>> \in r.ended
    BY <1>0, <1>2, <2>1, OnceCases DEF Recorded
  <2>2. CASE <<"period", r.sub.end>> \notin r.ended
    <3>1. R.sub = Moved(r.sub, "expired", "other")
      BY <1>0, <1>2, <2>2, OnceCases
    <3>2. R.sub.status = "expired"
      BY <1>0, <3>1, MovedFields DEF RowsOK
    <3>3. QED
      BY <3>2 DEF HeldForReason, HeldBack
  <2>3. QED
    BY <2>1, <2>2
<1>3. CASE R = Resume(r)
  BY <1>3, ResumeCases DEF HeldForReason, HeldBack
<1>4. ASSUME NEW a \in ActiveAgreements(r), R = Resume([r EXCEPT !.pay[a].agreement = "completed"])
      PROVE  ~HeldBack(R.sub)
  <2> DEFINE q == [r EXCEPT !.pay[a].agreement = "completed"]
  <2>1. RowsOK(q)
    BY CompletedRows
  <2> HIDE DEF q
  <2>2. ~HeldBack(Resume(q).sub)
    BY <2>1, ResumeCases DEF HeldBack
  <2>3. QED
    BY <1>4, <2>2 DEF q
<1>5. ASSUME NEW a \in ActiveAgreements(r), HoldsBack(r, a),
             R = Transition(r, "suspended", "installment")
      PROVE  HeldForReason(R)
  <2>1. Kept(r, R) /\ R.pay = r.pay
    BY <1>0, <1>5, TransitionKept, TransitionRows, SMTT(30)
  <2>2. a \in Cards /\ a \in ActiveAgreements(R)
    BY <2>1 DEF ActiveAgreements
  <2>3. HoldsBack(R, a)
    BY <1>5, <2>1, <2>2, KeptHolds
  <2>4. QED
    BY <2>2, <2>3 DEF HeldForReason
<1> HIDE DEF R
<1>6. QED
  BY <1>1, <1>2, <1>3, <1>4, <1>5, EnforceCases DEF R, HeldForReason

\* A pass that changes the row leaves it in grace or ended.
LEMMA LifecycleStepStatus ==
  ASSUME NEW r, RowsOK(r), day \in Nat \ {0}
  PROVE  LET R == LifecycleStep(r)
         IN R = r \/ R.sub.status \in {"expired", "cancelled", "grace"}
<1>1. {"expired", "cancelled", "grace"} \subseteq Statuses \ {"trialing"}
  BY DEF Statuses, Granting
<1>2. ASSUME NEW key, NEW to \in {"expired", "cancelled", "grace"}
      PROVE  Once(r, key, to) = r \/ Once(r, key, to).sub.status = to
  <2>1. to \in Statuses /\ to \in Statuses \ {"trialing"}
    BY <1>1
  <2>2. Once(r, key, to) = r \/ Once(r, key, to).sub = Moved(r.sub, to, "other")
    BY <2>1, OnceCases
  <2>3. Moved(r.sub, to, "other").status = to
    BY <2>1, MovedFields DEF RowsOK
  <2>4. QED
    BY <2>2, <2>3
<1>3. QED
  BY <1>2, LifecycleStepCases

LEMMA LifecycleStatus ==
  ASSUME NEW r, RowsOK(r), day \in Nat \ {0}
  PROVE  LET R == RefreshLifecycle(r)
         IN R = r \/ R.sub.status \in {"expired", "cancelled", "grace"}
<1>1. RowsOK(LifecycleStep(r))
  BY LifecycleStepKept DEF Kept
<1>2. QED
  BY <1>1, LifecycleStepStatus DEF RefreshLifecycle

\* The same of refresh_subscription.
LEMMA RefreshHolds ==
  ASSUME NEW r, RowsOK(r), day \in Nat \ {0},
         HeldForReason(r) \/ Recorded(r) \/ ~Skips(r)
  PROVE  LET R == RefreshSubscription(r) IN HeldForReason(R) \/ Recorded(R)
<1> DEFINE q == RefreshLifecycle(r)
<1>1. Kept(r, q) /\ RowsOK(q)
  BY LifecycleKept DEF Kept
<1>2. q = r \/ ~HeldBack(q.sub)
  BY LifecycleStatus DEF HeldBack
<1>3. HeldForReason(q) \/ Recorded(q) \/ ~Skips(q)
  BY <1>2 DEF HeldForReason
<1>4. RefreshSubscription(r) = EnforceInstallments(q)
  BY DEF RefreshSubscription
<1> HIDE DEF q
<1>5. QED
  BY <1>1, <1>3, <1>4, EnforceHolds

-----------------------------------------------------------------------------
(* Which ends have been recorded *)

\* What a row under review is known to be: its period follows the one before.
Resting(r) ==
  r.sub.prov # 0 =>
    LET card == r.pay[r.sub.prov]
    IN /\ r.sub.status # "trialing"
       /\ r.sub.end = card.until /\ card.from < card.until /\ r.sub.end <= r.sub.grace

LEMMA KeptResting ==
  ASSUME NEW r, RowsOK(r), NEW R, Kept(r, R), Resting(r)
  PROVE  Resting(R)
<1>1. r.sub.prov # 0 => r.sub.prov \in Cards
  BY ReviewCard DEF RowsOK
<1>2. QED
  BY <1>1 DEF Resting, Kept, SameCard

\* A dated transition records an end that has come, and sets the reason aside.
LEMMA OnceFresh ==
  ASSUME NEW r, RowsOK(r), day \in Nat \ {0}, KeysOK(r),
         NEW kind, NEW date, NEW to \in Statuses \ {"trialing"},
         kind = "period" => date = r.sub.end /\ date # 0 /\ date <= day
  PROVE  LET R == Once(r, <<kind, date>>, to)
         IN /\ KeysOK(R)
            /\ /\ FreshRows(r) /\ Resting(r)
               /\ r.sub.prov # 0 => to = "grace" \/ r.sub.end <= day
               => FreshRows(R)
<1> DEFINE key == <<kind, date>>
           R == Once(r, key, to)
<1>0. key[1] = kind /\ key[2] = date /\ \A e : key = <<"period", e>> => kind = "period" /\ date = e
  OBVIOUS
<1>1. r.sub \in SubType /\ r.sub.end \in Nat
  BY DEF RowsOK, SubType
<1> HIDE DEF key
<1>2. CASE key \in r.ended
  BY <1>2, OnceCases DEF key
<1>3. CASE key \notin r.ended
  <2>1. /\ Kept(r, R) /\ R.sub = Moved(r.sub, to, "other") /\ R.pay = r.pay
        /\ R.ended = r.ended \cup {key}
    BY <1>3, OnceCases
  <2>2. to \in Statuses
    OBVIOUS
  <2>3. /\ R.sub.status = to /\ R.sub.reason = "other" /\ R.sub.end = r.sub.end
        /\ R.sub.prov = r.sub.prov
    BY <1>1, <2>1, <2>2, MovedFields
  <2> HIDE DEF R
  <2>4. KeysOK(R)
    BY <1>0, <1>1, <2>1 DEF KeysOK
  <2>5. ASSUME FreshRows(r), Resting(r), r.sub.prov # 0 => to = "grace" \/ r.sub.end <= day
        PROVE  FreshRows(R)
    <3>1. Fresh(R, R.sub)
      BY <2>3 DEF Fresh
    <3>2. ASSUME R.sub.prov # 0
          PROVE  LET card == R.pay[R.sub.prov]
                 IN /\ Running(R.sub) /\ Fresh(R, card.prev)
                    /\ card.prev.reason = "installment" => card.prev.end <= card.from
      <4> DEFINE card == r.pay[r.sub.prov]
      <4>1. /\ Fresh(r, card.prev)
            /\ card.prev.reason = "installment" => card.prev.end <= card.from
            /\ r.sub.end = card.until /\ card.from < card.until
        BY <2>3, <2>5, <3>2 DEF FreshRows, Resting
      <4>2. card = R.pay[R.sub.prov]
        BY <2>1, <2>3
      <4>3. card \in CardType
        <5>1. r.sub.prov \in Cards
          BY <1>1, <2>3, <3>2, PaymentsAssumption DEF SubType, Cards
        <5>2. QED
          BY <5>1 DEF RowsOK
      <4>4. card.from \in Nat /\ card.until \in Nat /\ card.prev.end \in Nat
        BY <4>3 DEF CardType, SubType
      <4> HIDE DEF card
      <4>5. Running(R.sub)
        BY <2>3, <2>5, <3>2 DEF Running
      <4>6. ASSUME card.prev.reason = "installment"
            PROVE  <<"period", card.prev.end>> \notin R.ended
        <5>1. card.prev.end <= card.from /\ <<"period", card.prev.end>> \notin r.ended
          BY <4>1, <4>6 DEF Fresh
        <5>2. card.prev.end # r.sub.end
          BY <4>1, <4>4, <5>1
        <5>3. key # <<"period", card.prev.end>>
          BY <1>0, <5>2
        <5>4. QED
          BY <2>1, <5>1, <5>3
      <4>7. Fresh(R, card.prev)
        BY <4>1, <4>6 DEF Fresh
      <4>8. QED
        BY <4>1, <4>2, <4>5, <4>7
    <3>3. QED
      BY <3>1, <3>2 DEF FreshRows
  <2>6. QED
    BY <2>4, <2>5 DEF R, key
<1>4. QED
  BY <1>2, <1>3 DEF key

LEMMA LifecycleStepFresh ==
  ASSUME NEW r, RowsOK(r), day \in Nat \ {0}, KeysOK(r)
  PROVE  LET R == LifecycleStep(r)
         IN KeysOK(R) /\ (FreshRows(r) /\ Resting(r) => FreshRows(R))
<1> DEFINE s == r.sub
           ending == IF s.cancel THEN "cancelled" ELSE "expired"
           next == IF s.cancel THEN "cancelled"
                   ELSE IF GraceDays(s.plan) > 0 THEN "grace" ELSE "expired"
<1>0. /\ {"expired", "cancelled", "grace"} \subseteq Statuses \ {"trialing"}
      /\ ending \in {"expired", "cancelled", "grace"} /\ next \in {"expired", "cancelled", "grace"}
      /\ s.end \in Nat /\ s.grace \in Nat
  BY DEF Statuses, Granting, RowsOK, SubType
<1> HIDE DEF ending, next
<1>1. CASE s.status = "active" /\ s.end = 0 /\ s.grace = 0
  <2>1. LifecycleStep(r) = Once(r, <<"period missing", 0>>, "expired")
    BY <1>1 DEF LifecycleStep, PeriodOver
  <2>2. s.end <= day /\ "expired" \in Statuses \ {"trialing"}
    BY <1>0, <1>1
  <2>3. QED
    BY <2>1, <2>2, OnceFresh
<1>2. CASE s.status = "trialing" /\ s.trialEnd # 0 /\ s.trialEnd <= day
  <2>1. LifecycleStep(r) = Once(r, <<"trial", s.trialEnd>>, ending)
    BY <1>2 DEF LifecycleStep, PeriodOver, ending
  <2>2. Resting(r) => s.prov = 0
    BY <1>2 DEF Resting
  <2>3. QED
    BY <1>0, <2>1, <2>2, OnceFresh
<1>3. CASE PeriodOver(s)
  <2>1. LifecycleStep(r) = Once(r, <<"period", s.end>>, next)
    BY <1>3 DEF LifecycleStep, PeriodOver, next
  <2>2. s.end # 0 /\ s.end <= day
    BY <1>3 DEF PeriodOver
  <2>3. QED
    BY <1>0, <2>1, <2>2, OnceFresh
<1>4. CASE s.status = "grace" /\ s.grace # 0 /\ s.grace <= day
  <2>1. LifecycleStep(r) = Once(r, <<"grace", s.grace>>, "expired")
    BY <1>4 DEF LifecycleStep, PeriodOver
  <2>2. Resting(r) /\ s.prov # 0 => s.end <= day
    BY <1>0, <1>4 DEF Resting
  <2>3. QED
    BY <1>0, <2>1, <2>2, OnceFresh
<1>5. CASE LifecycleStep(r) = r
  BY <1>5
<1>6. QED
  BY <1>1, <1>2, <1>3, <1>4, <1>5 DEF LifecycleStep

\* A row that is still active after the lifecycle is in its period.
LEMMA LifecycleFresh ==
  ASSUME NEW r, RowsOK(r), day \in Nat \ {0}, KeysOK(r), ~Loops(r)
  PROVE  LET R == RefreshLifecycle(r)
         IN /\ KeysOK(R) /\ (FreshRows(r) /\ Resting(r) => FreshRows(R) /\ Resting(R))
            /\ ~PeriodOver(R.sub)
<1> DEFINE q == LifecycleStep(r)
           R == LifecycleStep(q)
<1>1. Kept(r, q) /\ RowsOK(q) /\ KeysOK(q) /\ (FreshRows(r) /\ Resting(r) => FreshRows(q))
  BY LifecycleStepKept, LifecycleStepFresh DEF Kept
<1> HIDE DEF q
<1>2. Resting(r) => Resting(q)
  BY <1>1, KeptResting
<1>3. Kept(q, R) /\ RowsOK(R) /\ KeysOK(R) /\ (FreshRows(q) /\ Resting(q) => FreshRows(R))
  BY <1>1, LifecycleStepKept, LifecycleStepFresh DEF Kept
<1>4. Resting(q) => Resting(R)
  BY <1>1, <1>3, KeptResting
<1>5. RefreshLifecycle(r) = R
  BY DEF RefreshLifecycle, q
<1> HIDE DEF R
<1>6. ASSUME PeriodOver(R.sub) PROVE FALSE
  <2>1. R.sub.status = "active"
    BY <1>6 DEF PeriodOver
  <2>2. R = r
    BY <1>5, <2>1, LifecycleStatus
  <2>3. PeriodOver(r.sub) /\ <<"period", r.sub.end>> \notin r.ended
    BY <1>6, <2>2 DEF Loops
  <2>4. PICK to \in {"cancelled", "grace", "expired"} : q = Once(r, <<"period", r.sub.end>>, to)
    BY <2>3 DEF q, LifecycleStep, PeriodOver
  <2>5. to \in Statuses \ {"trialing"}
    BY DEF Statuses, Granting
  <2>6. <<"period", r.sub.end>> \in q.ended
    BY <2>3, <2>4, <2>5, OnceCases
  <2>7. q.ended \subseteq R.ended
    BY <1>3 DEF Kept
  <2>8. QED
    BY <2>2, <2>3, <2>6, <2>7
<1>7. QED
  BY <1>1, <1>2, <1>3, <1>4, <1>5, <1>6

\* A hold that is set or lifted leaves the period and what was recorded alone.
LEMMA MovedFresh ==
  ASSUME NEW r, RowsOK(r), day \in Nat \ {0}, KeysOK(r),
         NEW to \in {"active", "suspended"},
         r.sub.reason = "installment" \/ <<"period", r.sub.end>> \notin r.ended
  PROVE  LET R == Transition(r, to, "installment")
         IN KeysOK(R) /\ (FreshRows(r) => FreshRows(R)) /\ R.sub.end = r.sub.end
<1>0. to \in Statuses
  BY DEF Statuses, Granting
<1> DEFINE R == Transition(r, to, "installment")
<1>1. R.pay = r.pay /\ R.ended = r.ended /\ R.sub = Moved(r.sub, to, "installment")
  BY <1>0, TransitionRows
<1> HIDE DEF R
<1>2. /\ R.sub.status = to /\ R.sub.reason = "installment" /\ R.sub.end = r.sub.end
      /\ R.sub.prov = r.sub.prov
  BY <1>0, <1>1, MovedFields DEF RowsOK
<1>3. KeysOK(R)
  BY <1>1 DEF KeysOK
<1>4. ASSUME FreshRows(r) PROVE FreshRows(R)
  <2>1. <<"period", R.sub.end>> \notin R.ended
    BY <1>1, <1>2, <1>4 DEF FreshRows, Fresh
  <2>2. Running(R.sub)
    BY <1>2 DEF Running
  <2>3. QED
    BY <1>1, <1>2, <1>4, <2>1, <2>2 DEF FreshRows, Fresh
<1>5. QED
  BY <1>2, <1>3, <1>4 DEF R

LEMMA ResumeFresh ==
  ASSUME NEW r, RowsOK(r), day \in Nat \ {0}, KeysOK(r), ~PeriodOver(r.sub),
         ~ (HeldBack(r.sub) /\ r.sub.end # 0 /\ r.sub.end <= day)
  PROVE  LET R == Resume(r)
         IN KeysOK(R) /\ (FreshRows(r) => FreshRows(R)) /\ ~PeriodOver(R.sub)
<1>1. CASE HeldBack(r.sub)
  <2>1. Resume(r) = Transition(r, "active", "installment") /\ r.sub.reason = "installment"
    BY <1>1 DEF Resume, HeldBack
  <2>2. /\ KeysOK(Resume(r)) /\ (FreshRows(r) => FreshRows(Resume(r)))
        /\ Resume(r).sub.end = r.sub.end
    BY <2>1, MovedFresh
  <2>3. QED
    BY <1>1, <2>2 DEF PeriodOver
<1>2. CASE ~HeldBack(r.sub)
  BY <1>2 DEF Resume
<1>3. QED
  BY <1>1, <1>2

LEMMA EnforceFresh ==
  ASSUME NEW r, RowsOK(r), day \in Nat \ {0}, KeysOK(r), ~PeriodOver(r.sub)
  PROVE  LET R == EnforceInstallments(r)
         IN /\ KeysOK(R) /\ (FreshRows(r) /\ Resting(r) => FreshRows(R))
            /\ ~PeriodOver(R.sub)
<1> DEFINE R == EnforceInstallments(r)
           G(Q) == /\ KeysOK(Q) /\ (FreshRows(r) /\ Resting(r) => FreshRows(Q))
                   /\ ~PeriodOver(Q.sub)
<1>0. /\ "expired" \in Statuses /\ "expired" \in Statuses \ {"trialing"}
      /\ "suspended" \in Statuses
  BY DEF Statuses, Granting
<1>1. CASE R = r
  BY <1>1
<1>2. CASE /\ HeldBack(r.sub) /\ r.sub.end # 0 /\ r.sub.end <= day
           /\ R = Once(r, <<"period", r.sub.end>>, "expired")
  <2>1. R = r \/ R.sub = Moved(r.sub, "expired", "other")
    BY <1>0, <1>2, OnceCases
  <2>2. ~PeriodOver(R.sub)
    <3>1. Moved(r.sub, "expired", "other").status = "expired"
      BY <1>0, MovedFields DEF RowsOK
    <3>2. ASSUME R.sub = Moved(r.sub, "expired", "other") PROVE R.sub.status # "active"
      BY <3>1, <3>2
    <3> HIDE DEF R
    <3>3. QED
      BY <2>1, <3>2 DEF PeriodOver
  <2>3. QED
    BY <1>0, <1>2, <2>2, OnceFresh
<1>3. CASE R = Resume(r) /\ ~ (HeldBack(r.sub) /\ r.sub.end # 0 /\ r.sub.end <= day)
  BY <1>3, ResumeFresh
<1>4. ASSUME ~ (HeldBack(r.sub) /\ r.sub.end # 0 /\ r.sub.end <= day),
             NEW a \in ActiveAgreements(r), R = Resume([r EXCEPT !.pay[a].agreement = "completed"])
      PROVE  G(R)
  <2> DEFINE q == [r EXCEPT !.pay[a].agreement = "completed"]
  <2>1. RowsOK(q) /\ Kept(r, q) /\ q.sub = r.sub /\ q.ended = r.ended
    BY CompletedRows
  <2> HIDE DEF q
  <2>2. KeysOK(q)
    BY <2>1 DEF KeysOK
  <2>3. FreshRows(r) => FreshRows(q)
    <3>1. r.sub.prov # 0 => r.sub.prov \in Cards
      BY ReviewCard DEF RowsOK
    <3>2. \A v : Fresh(q, v) <=> Fresh(r, v)
      BY <2>1 DEF Fresh
    <3>3. r.sub.prov # 0 =>
            /\ q.pay[r.sub.prov].prev = r.pay[r.sub.prov].prev
            /\ q.pay[r.sub.prov].from = r.pay[r.sub.prov].from
      BY <2>1, <3>1 DEF Kept, SameCard
    <3>4. QED
      BY <2>1, <3>2, <3>3 DEF FreshRows
  <2>4. G(Resume(q))
    BY <1>4, <2>1, <2>2, <2>3, ResumeFresh
  <2>5. QED
    BY <1>4, <2>4 DEF q
<1>5. CASE r.sub.status = "active" /\ R = Transition(r, "suspended", "installment")
  <2>1. r.sub.end \in Nat /\ (r.sub.end = 0 \/ r.sub.end > day)
    BY <1>5 DEF PeriodOver, RowsOK, SubType
  <2>2. <<"period", r.sub.end>> \notin r.ended
    <3> SUFFICES ASSUME <<"period", r.sub.end>> \in r.ended PROVE FALSE
      OBVIOUS
    <3>1. r.sub.end # 0 /\ r.sub.end <= day
      BY DEF KeysOK
    <3>2. QED
      BY <2>1, <3>1
  <2>3. KeysOK(R) /\ (FreshRows(r) => FreshRows(R))
    BY <1>5, <2>2, MovedFresh
  <2>4. R.sub = Moved(r.sub, "suspended", "installment")
    BY <1>0, <1>5, TransitionRows
  <2>5. ~PeriodOver(R.sub)
    <3>1. r.sub \in SubType /\ "suspended" \in Statuses
      BY DEF RowsOK, Statuses
    <3>2. Moved(r.sub, "suspended", "installment").status = "suspended"
      BY <3>1, MovedFields
    <3>3. QED
      BY <2>4, <3>2 DEF PeriodOver
  <2>6. QED
    BY <2>3, <2>5
<1> HIDE DEF R
<1>6. QED
  BY <1>1, <1>2, <1>3, <1>4, <1>5, EnforceCases DEF R

LEMMA RefreshFresh ==
  ASSUME NEW r, RowsOK(r), day \in Nat \ {0}, KeysOK(r), ~Loops(r)
  PROVE  LET R == RefreshSubscription(r)
         IN /\ KeysOK(R) /\ (FreshRows(r) /\ Resting(r) => FreshRows(R))
            /\ ~Loops(R)
<1> DEFINE q == RefreshLifecycle(r)
<1>1. RowsOK(q)
  BY LifecycleKept DEF Kept
<1>2. /\ KeysOK(q) /\ (FreshRows(r) /\ Resting(r) => FreshRows(q) /\ Resting(q))
      /\ ~PeriodOver(q.sub)
  BY LifecycleFresh
<1>3. RefreshSubscription(r) = EnforceInstallments(q)
  BY DEF RefreshSubscription
<1> HIDE DEF q
<1>4. QED
  BY <1>1, <1>2, <1>3, EnforceFresh DEF Loops

LEMMA SyncFresh ==
  ASSUME NEW r, RowsOK(r)
  PROVE  LET R == SyncEntitlements(r)
         IN (KeysOK(r) => KeysOK(R)) /\ (FreshRows(r) => FreshRows(R))
BY SyncRows DEF KeysOK, FreshRows, Fresh

-----------------------------------------------------------------------------
(* What the functions leave covered *)

PaidRows(r, given) == DatesCovered(r, given) /\ GrantCovered(r, given)

LEMMA KeptCovered ==
  ASSUME NEW r, RowsOK(r), NEW R, Kept(r, R), NEW given
  PROVE  /\ \A t : Covered(R, given, t) <=> Covered(r, given, t)
         /\ DatesCovered(r, given) => DatesCovered(R, given)
         /\ R.grant = r.grant /\ GrantCovered(r, given) => GrantCovered(R, given)
<1>1. \A t : Covered(R, given, t) <=> Covered(r, given, t)
  BY DEF Covered, Kept, SameCard
<1>2. \A s : CoveredDates(R, given, s) <=> CoveredDates(r, given, s)
  BY <1>1 DEF CoveredDates
<1>3. r.sub.prov # 0 => r.sub.prov \in Cards
  BY ReviewCard DEF RowsOK
<1>4. CoveredDates(r, given, r.sub) => CoveredDates(R, given, R.sub)
  BY <1>2 DEF CoveredDates, Kept
<1>5. DatesCovered(r, given) => DatesCovered(R, given)
  BY <1>2, <1>3, <1>4 DEF DatesCovered, Kept, SameCard
<1>6. R.grant = r.grant /\ GrantCovered(r, given) => GrantCovered(R, given)
  BY <1>1 DEF GrantCovered, Kept
<1>7. QED
  BY <1>1, <1>5, <1>6

LEMMA PrevType ==
  ASSUME NEW r, RowsOK(r), r.sub.prov # 0
  PROVE  /\ r.sub.prov \in Cards /\ r.pay[r.sub.prov] \in CardType
         /\ r.pay[r.sub.prov].prev \in SubType
<1>1. r.sub.prov \in Cards
  BY ReviewCard DEF RowsOK
<1>2. r.pay[r.sub.prov] \in CardType
  BY <1>1 DEF RowsOK
<1>3. QED
  BY <1>1, <1>2 DEF CardType

LEMMA SyncCovered ==
  ASSUME NEW r, RowsOK(r), NEW given, DatesCovered(r, given), policy, day \in Nat \ {0}
  PROVE  PaidRows(SyncEntitlements(r), given)
<1> DEFINE R == SyncEntitlements(r)
           prev == r.pay[r.sub.prov].prev
<1>1. Kept(r, R) /\ R.sub = r.sub
  BY SyncKept, SyncRows
<1>2. DatesCovered(R, given)
  BY <1>1, KeptCovered
<1>3. ASSUME r.sub.prov # 0, R.grant.on
      PROVE  R.grant.until \in Nat \ {0} /\ Covered(r, given, R.grant.until)
  <2>1. Provisional(r)
    BY <1>3 DEF Provisional
  <2>2. R.grant = IF prev.status \in Granting /\ KeptUntil(prev) > day
                  THEN [on |-> TRUE, from |-> FirstOf(KeptFrom(prev), OpenFrom(r.sub)),
                        until |-> KeptUntil(prev)]
                  ELSE NoGrant
    <3> DEFINE g == IF prev.status \in Granting /\ KeptUntil(prev) > day
                    THEN [on |-> TRUE, from |-> FirstOf(KeptFrom(prev), OpenFrom(r.sub)),
                          until |-> KeptUntil(prev)]
                    ELSE NoGrant
    <3>1. R = [r EXCEPT !.grant = g]
      BY <2>1 DEF SyncEntitlements
    <3> HIDE DEF g
    <3>2. R.grant = g
      BY <3>1 DEF RowsOK
    <3>3. QED
      BY <3>2 DEF g
  <2>3. R.grant.until = KeptUntil(prev) /\ KeptUntil(prev) > day
    <3> HIDE DEF R, prev
    <3> QED BY <1>3, <2>2 DEF NoGrant
  <2>4. prev \in SubType
    BY <1>3, PrevType
  <2>5. KeptUntil(prev) \in Nat
    BY <2>4 DEF KeptUntil, FirstOf, SubType
  <2>6. Covered(r, given, KeptUntil(prev))
    <3>1. CoveredDates(r, given, prev) /\ prev.trialEnd = r.sub.trialEnd
      BY <1>3 DEF DatesCovered
    <3>2. KeptUntil(prev) \in {prev.trialEnd, prev.grace, prev.end}
      BY DEF KeptUntil, FirstOf
    <3>3. Covered(r, given, prev.trialEnd)
      BY <2>4, <3>1 DEF Covered, SubType
    <3>4. QED
      BY <3>1, <3>2, <3>3 DEF CoveredDates
  <2>7. QED
    BY <2>3, <2>5, <2>6
<1>4. GrantCovered(R, given)
  BY <1>1, <1>3, KeptCovered DEF GrantCovered
<1>5. QED
  BY <1>2, <1>4 DEF PaidRows

LEMMA TransitionCovered ==
  ASSUME NEW r, RowsOK(r), NEW given, DatesCovered(r, given), policy, day \in Nat \ {0},
         NEW to \in Statuses \ {"trialing"}, NEW reason \in {"other", "installment"}
  PROVE  PaidRows(Transition(r, to, reason), given)
<1> DEFINE q == [r EXCEPT !.sub = Moved(r.sub, to, reason)]
<1>1. /\ Transition(r, to, reason) = SyncEntitlements(q)
      /\ RowsOK(q) /\ q.pay = r.pay /\ q.sub = Moved(r.sub, to, reason)
  BY TransitionIs
<1> HIDE DEF q
<1>2. /\ q.sub.prov = r.sub.prov /\ q.sub.trialEnd = r.sub.trialEnd
      /\ q.sub.end = r.sub.end /\ q.sub.grace = r.sub.grace
  BY <1>1, MovedFields DEF RowsOK
<1>3. DatesCovered(q, given)
  BY <1>1, <1>2 DEF DatesCovered, CoveredDates, Covered
<1>4. QED
  BY <1>1, <1>3, SyncCovered

LEMMA OnceCovered ==
  ASSUME NEW r, RowsOK(r), NEW given, PaidRows(r, given), policy, day \in Nat \ {0},
         NEW key, NEW to \in Statuses \ {"trialing"}
  PROVE  PaidRows(Once(r, key, to), given)
<1> DEFINE q == [r EXCEPT !.ended = @ \cup {key}]
<1>1. RowsOK(q) /\ q.sub = r.sub /\ q.pay = r.pay
  BY DEF RowsOK
<1> HIDE DEF q
<1>2. DatesCovered(q, given)
  BY <1>1 DEF PaidRows, DatesCovered, CoveredDates, Covered
<1>3. PaidRows(Transition(q, to, "other"), given)
  BY <1>1, <1>2, TransitionCovered
<1>4. QED
  BY <1>3 DEF Once, q

LEMMA LifecycleStepCovered ==
  ASSUME NEW r, RowsOK(r), NEW given, PaidRows(r, given), policy, day \in Nat \ {0}
  PROVE  PaidRows(LifecycleStep(r), given)
<1>1. {"expired", "cancelled", "grace"} \subseteq Statuses \ {"trialing"}
  BY DEF Statuses, Granting
<1>2. \A key : \A to \in {"expired", "cancelled", "grace"} : PaidRows(Once(r, key, to), given)
  BY <1>1, OnceCovered
<1>3. QED
  BY <1>2, LifecycleStepCases

LEMMA ResumeCovered ==
  ASSUME NEW r, RowsOK(r), NEW given, PaidRows(r, given), policy, day \in Nat \ {0}
  PROVE  PaidRows(Resume(r), given)
<1>1. "active" \in Statuses \ {"trialing"}
  BY DEF Statuses, Granting
<1>2. PaidRows(Transition(r, "active", "installment"), given)
  BY <1>1, TransitionCovered DEF PaidRows
<1>3. QED
  BY <1>2 DEF Resume

LEMMA RefreshCovered ==
  ASSUME NEW r, RowsOK(r), NEW given, PaidRows(r, given), policy, day \in Nat \ {0}
  PROVE  PaidRows(RefreshSubscription(r), given)
<1> DEFINE q == RefreshLifecycle(r)
           R == EnforceInstallments(q)
<1>0. "suspended" \in Statuses \ {"trialing"} /\ "expired" \in Statuses \ {"trialing"}
  BY DEF Statuses, Granting
<1>1. RowsOK(LifecycleStep(r)) /\ RowsOK(q)
  BY LifecycleStepKept, LifecycleKept DEF Kept
<1>2. PaidRows(q, given)
  BY <1>1, LifecycleStepCovered DEF RefreshLifecycle
<1> SUFFICES PaidRows(R, given)
  BY DEF RefreshSubscription
<1> HIDE DEF q
<1>3. CASE R = Once(q, <<"period", q.sub.end>>, "expired")
  BY <1>0, <1>1, <1>2, <1>3, OnceCovered
<1>4. CASE R = Resume(q)
  BY <1>1, <1>2, <1>4, ResumeCovered
<1>5. ASSUME NEW a \in ActiveAgreements(q), R = Resume([q EXCEPT !.pay[a].agreement = "completed"])
      PROVE  PaidRows(R, given)
  <2> DEFINE t == [q EXCEPT !.pay[a].agreement = "completed"]
  <2>1. RowsOK(t) /\ Kept(q, t) /\ t.grant = q.grant
    BY <1>1, CompletedRows
  <2> HIDE DEF t
  <2>2. PaidRows(t, given)
    BY <1>1, <1>2, <2>1, KeptCovered DEF PaidRows
  <2>3. QED
    BY <1>5, <2>1, <2>2, ResumeCovered DEF t
<1>6. CASE R = Transition(q, "suspended", "installment")
  BY <1>0, <1>1, <1>2, <1>6, TransitionCovered DEF PaidRows
<1> HIDE DEF R
<1>7. QED
  BY <1>1, <1>2, <1>3, <1>4, <1>5, <1>6, EnforceCases DEF R

-----------------------------------------------------------------------------
(* What the functions leave of the invariants *)

LEMMA KeptInvariants ==
  ASSUME NEW r, RowsOK(r), NEW R, Kept(r, R)
  PROVE  /\ CardsOK(r) => CardsOK(R)
         /\ OwnsReview(r) => OwnsReview(R)
         /\ InOrder(r) => InOrder(R)
<1>1. r.sub.prov # 0 => r.sub.prov \in Cards
  BY ReviewCard DEF RowsOK
<1>2. CardsOK(r) => CardsOK(R)
  BY DEF CardsOK, Kept, SameCard
<1>3. OwnsReview(r) => OwnsReview(R)
  BY <1>1 DEF OwnsReview, Kept, SameCard
<1>4. Bought(R) = Bought(r)
  BY DEF Bought, Kept, SameCard
<1>5. \A p \in Bought(r) : R.pay[p].until = r.pay[p].until /\ R.pay[p].from = r.pay[p].from
  BY DEF Bought, Kept, SameCard
<1>6. \A s : EndsLast(r, s) => EndsLast(R, s)
  BY <1>4, <1>5 DEF EndsLast
<1>7. EndsLast(r, r.sub) => EndsLast(R, R.sub)
  BY <1>4, <1>5 DEF EndsLast, Kept
<1>8. InOrder(r) => InOrder(R)
  <2> SUFFICES ASSUME InOrder(r) PROVE InOrder(R)
    OBVIOUS
  <2>1. \A p, q \in Bought(R) : p < q => R.pay[p].until <= R.pay[q].from
    BY <1>4, <1>5 DEF InOrder
  <2>2. R.sub.prov = 0 => EndsLast(R, R.sub)
    BY <1>7 DEF InOrder, Kept
  <2>3. ASSUME R.sub.prov # 0
        PROVE  LET card == R.pay[R.sub.prov]
               IN /\ EndsLast(R, card.prev)
                  /\ R.sub.end = card.until /\ R.sub.end <= R.sub.grace
                  /\ card.from < card.until
                  /\ \A p \in Bought(R) : R.pay[p].until <= card.from
    <3>1. R.sub.prov = r.sub.prov /\ SameCard(r.pay[r.sub.prov], R.pay[R.sub.prov])
          /\ R.sub.end = r.sub.end /\ R.sub.grace = r.sub.grace
      BY <1>1, <2>3 DEF Kept
    <3>2. QED
      BY <1>4, <1>5, <1>6, <2>3, <3>1 DEF InOrder, SameCard
  <2>4. QED
    BY <2>1, <2>2, <2>3 DEF InOrder
<1>9. QED
  BY <1>2, <1>3, <1>8

\* A card under review is the last one sent, so there is one at most.
LEMMA OneUnderReview ==
  ASSUME NEW r, CardsOK(r), NEW p \in Cards, NEW q \in Cards,
         r.pay[p].review = "pending", r.pay[q].review = "pending"
  PROVE  p = q
BY PaymentsAssumption DEF CardsOK, Cards

LEMMA GraceDaysBound ==
  ASSUME NEW plan
  PROVE  GraceDays(plan) \in Nat /\ GraceDays(plan) <= GraceLength
BY PaymentsAssumption DEF GraceDays

LEMMA WithPeriodFields ==
  ASSUME NEW s \in SubType, NEW from \in Nat, NEW until \in Nat
  PROVE  LET t == WithPeriod(s, from, until)
         IN /\ t \in SubType
            /\ t.start = from /\ t.end = until /\ t.grace = until + GraceDays(s.plan)
            /\ t.status = s.status /\ t.plan = s.plan /\ t.started = s.started
            /\ t.trialStart = s.trialStart /\ t.trialEnd = s.trialEnd /\ t.cancel = s.cancel
            /\ t.reason = s.reason /\ t.prov = s.prov
<1>1. until + GraceDays(s.plan) \in Nat
  BY GraceDaysBound
<1>2. QED
  BY <1>1 DEF WithPeriod, SubType

\* A paid period follows on every period sold before.
LEMMA PaidFromFollows ==
  ASSUME NEW r, RowsOK(r), NEW s \in SubType, day \in Nat
  PROVE  /\ PaidFrom(s) \in Nat
         /\ EndsLast(r, s) => \A p \in Bought(r) : r.pay[p].until <= PaidFrom(s)
<1>1. \A p \in Bought(r) : r.pay[p].until \in Nat
  BY DEF RowsOK, CardType, Bought
<1>2. /\ s.end \in Nat /\ s.grace \in Nat /\ s.trialEnd \in Nat
  BY DEF SubType
<1>3. PaidFrom(s) \in Nat
  BY <1>2 DEF PaidFrom
<1>4. ASSUME EndsLast(r, s), NEW p \in Bought(r)
      PROVE  r.pay[p].until <= PaidFrom(s)
  BY <1>1, <1>2, <1>4 DEF EndsLast, PaidFrom
<1>5. QED
  BY <1>3, <1>4

LEMMA PaidFromRunning ==
  ASSUME NEW s \in SubType, day \in Nat, s.status # "suspended", Running(s)
  PROVE  s.end <= PaidFrom(s)
<1>1. s.end \in Nat /\ s.trialEnd \in Nat /\ s.grace \in Nat
  BY DEF SubType
<1>2. CASE s.status = "trialing" /\ s.trialEnd > day
  BY <1>1, <1>2 DEF Running, PaidFrom
<1>3. CASE s.status \in {"active", "grace"}
  BY <1>1, <1>3 DEF PaidFrom
<1>4. CASE s.end <= day /\ ~(s.status = "trialing" /\ s.trialEnd > day)
  BY <1>1, <1>4 DEF PaidFrom
<1>5. QED
  BY <1>2, <1>3, <1>4 DEF Running

LEMMA PaidUntilType ==
  ASSUME NEW plan, NEW from \in Nat
  PROVE  PaidUntil(plan, from) \in Nat
BY PaymentsAssumption DEF PaidUntil

LEMMA CommitRows ==
  ASSUME NEW R, Commit(R), RowsOK(R)
  PROVE  Rows' = R
BY DEF Commit, Rows, RowsOK

\* What an administrator gives, and an approved card, only adds to what is covered.
LEMMA CoveredGrows ==
  ASSUME NEW r, NEW given \in Nat, NEW more \in Nat, given <= more, NEW t \in Nat,
         Covered(r, given, t)
  PROVE  Covered(r, more, t)
BY DEF Covered

\* The invariants of rows that are committed.
LEMMA CommittedRows ==
  ASSUME NEW R, RowsOK(R), Commit(R)
  PROVE  /\ RowsOK(Rows)'
         /\ CardsOK(R) => CardsOK(Rows)'
         /\ OwnsReview(R) => OwnsReview(Rows)'
         /\ InOrder(R) => InOrder(Rows)'
         /\ DatesCovered(R, promised') /\ GrantCovered(R, promised') =>
              DatesCovered(Rows, promised)' /\ GrantCovered(Rows, promised)'
         /\ Recorded(R) => Recorded(Rows)'
         /\ UNCHANGED day /\ HeldForReason(R) => HeldForReason(Rows)'
         /\ UNCHANGED day /\ KeysOK(R) => KeysOK(Rows)'
         /\ UNCHANGED day /\ FreshRows(R) => FreshRows(Rows)'
<1>1. Rows' = R
  BY CommitRows
<1>2. RowsOK(Rows)'
  BY <1>1 DEF RowsOK
<1>3. CardsOK(R) => CardsOK(Rows)'
  BY <1>1 DEF CardsOK
<1>4. OwnsReview(R) => OwnsReview(Rows)'
  BY <1>1 DEF OwnsReview
<1>5. InOrder(R) => InOrder(Rows)'
  BY <1>1 DEF InOrder, Bought, EndsLast
<1>6. DatesCovered(R, promised') => DatesCovered(Rows, promised)'
  BY <1>1 DEF DatesCovered, CoveredDates, Covered
<1>7. GrantCovered(R, promised') => GrantCovered(Rows, promised)'
  BY <1>1 DEF GrantCovered, Covered
<1>8. Recorded(R) => Recorded(Rows)'
  BY <1>1 DEF Recorded
<1>9. UNCHANGED day /\ HeldForReason(R) => HeldForReason(Rows)'
  <2> SUFFICES ASSUME UNCHANGED day, HeldForReason(R) PROVE HeldForReason(Rows)'
    OBVIOUS
  <2>1. \A a : PaymentsOf(Rows, a)' = PaymentsOf(R, a)
    BY <1>1 DEF PaymentsOf
  <2>2. \A a : PaidNumbers(Rows, a)' = PaidNumbers(R, a)
    BY <1>1, <2>1 DEF PaidNumbers
  <2>3. \A a : NextNumber(Rows, a)' = NextNumber(R, a)
    BY <1>1
  <2>4. \A a, n : DueAt(Rows, a, n)' = DueAt(R, a, n)
    BY <1>1 DEF DueAt
  <2>5. \A a : HoldsBack(R, a) => HoldsBack(Rows, a)'
    BY <1>1, <2>1, <2>3, <2>4 DEF HoldsBack
  <2>6. ActiveAgreements(Rows)' = ActiveAgreements(R)
    BY <1>1 DEF ActiveAgreements
  <2>7. HeldBack(Rows.sub)' <=> HeldBack(R.sub)
    BY <1>1 DEF HeldBack
  <2>8. QED
    BY <2>5, <2>6, <2>7 DEF HeldForReason
<1>10. UNCHANGED day /\ KeysOK(R) => KeysOK(Rows)'
  BY <1>1 DEF KeysOK
<1>11. UNCHANGED day /\ FreshRows(R) => FreshRows(Rows)'
  BY <1>1 DEF FreshRows, Fresh, Running
<1>12. QED
  BY <1>2, <1>3, <1>4, <1>5, <1>6, <1>7, <1>8, <1>9, <1>10, <1>11

\* Rows that keep all the invariants.
GoodRows(R) ==
  /\ RowsOK(R) /\ CardsOK(R) /\ OwnsReview(R)
  /\ policy => PaidRows(R, promised')
  /\ decisions' = 0 => InOrder(R)
  /\ HeldForReason(R) \/ Recorded(R)
  /\ KeysOK(R)
  /\ decisions' = 0 => FreshRows(R)

LEMMA GoodCommit ==
  ASSUME PaymentsTypeOK, NEW R, GoodRows(R), Commit(R), UNCHANGED <<day, policy>>,
         decisions' \in Nat, promised' \in Nat
  PROVE  PaymentsInv'
<1>1. PaymentsTypeOK'
  BY CommittedRows DEF GoodRows, PaymentsTypeOK
<1>2. CardsOK(Rows)' /\ OwnsReview(Rows)'
  BY CommittedRows DEF GoodRows
<1>3. PaidInv'
  BY CommittedRows DEF GoodRows, PaidInv, PaidRows
<1>4. OrderInv'
  BY CommittedRows DEF GoodRows, OrderInv
<1>5. HoldInv'
  BY CommittedRows DEF GoodRows, HoldInv
<1>6. FreshInv'
  BY CommittedRows DEF GoodRows, FreshInv
<1>7. QED
  BY <1>1, <1>2, <1>3, <1>4, <1>5, <1>6 DEF PaymentsInv

-----------------------------------------------------------------------------
(* One step *)

LEMMA StartingFacts ==
  ASSUME PaymentsInv
  PROVE  /\ PaymentsTypeOK /\ RowsOK(Rows) /\ CardsOK(Rows) /\ OwnsReview(Rows)
         /\ Rows.sub = sub /\ Rows.pay = pay /\ Rows.ended = ended /\ Rows.grant = grant
         /\ sub \in SubType /\ pay \in [Cards -> CardType]
         /\ day \in Nat \ {0} /\ promised \in Nat /\ decisions \in Nat
         /\ policy => PaidRows(Rows, promised)
         /\ decisions = 0 => InOrder(Rows)
         /\ HeldForReason(Rows) \/ Recorded(Rows)
         /\ KeysOK(Rows)
         /\ decisions = 0 => FreshRows(Rows) /\ Resting(Rows)
<1>1. /\ PaymentsTypeOK /\ RowsOK(Rows) /\ CardsOK(Rows) /\ OwnsReview(Rows)
      /\ Rows.sub = sub /\ Rows.pay = pay /\ Rows.ended = ended /\ Rows.grant = grant
      /\ sub \in SubType /\ pay \in [Cards -> CardType]
      /\ day \in Nat \ {0} /\ promised \in Nat /\ decisions \in Nat
  BY DEF PaymentsInv, PaymentsTypeOK, Rows, RowsOK
<1>2. /\ policy => PaidRows(Rows, promised)
      /\ decisions = 0 => InOrder(Rows)
      /\ HeldForReason(Rows) \/ Recorded(Rows)
      /\ KeysOK(Rows)
      /\ decisions = 0 => FreshRows(Rows)
  BY DEF PaymentsInv, PaidInv, OrderInv, HoldInv, PaidRows, FreshInv
<1>3. InOrder(Rows) => Resting(Rows)
  BY <1>1 DEF InOrder, OwnsReview, Resting
<1>4. QED
  BY <1>1, <1>2, <1>3

\* The rows before the step, and the rows they become by functions that keep
\* what Kept says.
LEMMA GoodKept ==
  ASSUME PaymentsInv, NEW R, Kept(Rows, R), promised' = promised, decisions' = decisions,
         policy => PaidRows(R, promised), HeldForReason(R) \/ Recorded(R),
         KeysOK(R), decisions = 0 => FreshRows(R)
  PROVE  GoodRows(R)
<1>1. RowsOK(Rows) /\ RowsOK(R)
  BY DEF PaymentsInv, PaymentsTypeOK, Kept
<1>2. CardsOK(R) /\ OwnsReview(R)
  BY <1>1, KeptInvariants DEF PaymentsInv
<1>3. decisions = 0 => InOrder(R)
  BY <1>1, KeptInvariants DEF PaymentsInv, OrderInv
<1>4. QED
  BY <1>1, <1>2, <1>3 DEF GoodRows

LEMMA SyncHolds ==
  ASSUME NEW r, RowsOK(r), HeldForReason(r) \/ Recorded(r)
  PROVE  LET R == SyncEntitlements(r) IN HeldForReason(R) \/ Recorded(R)
<1> DEFINE R == SyncEntitlements(r)
<1>1. Kept(r, R) /\ R.sub = r.sub /\ R.pay = r.pay /\ R.ended = r.ended
  BY SyncKept, SyncRows
<1> HIDE DEF R
<1>2. \A a \in ActiveAgreements(r) : a \in Cards /\ a \in ActiveAgreements(R)
  BY <1>1 DEF ActiveAgreements
<1>3. \A a \in ActiveAgreements(r) : HoldsBack(r, a) => HoldsBack(R, a)
  BY <1>1, <1>2, KeptHolds
<1>4. HeldForReason(R) \/ Recorded(R)
  BY <1>1, <1>2, <1>3 DEF HeldForReason, Recorded
<1>5. QED
  BY <1>4 DEF R

LEMMA VisitInv ==
  ASSUME PaymentsInv, Visit
  PROVE  PaymentsInv'
<1> DEFINE q == RefreshSubscription(Rows)
           R == SyncEntitlements(q)
<1>1. RowsOK(Rows) /\ day \in Nat \ {0} /\ promised \in Nat /\ decisions \in Nat
      /\ PaymentsTypeOK
  BY DEF PaymentsInv, PaymentsTypeOK
<1>2. Kept(Rows, q) /\ RowsOK(q)
  BY <1>1, RefreshKept DEF Kept
<1>3. policy => PaidRows(q, promised)
  BY <1>1, RefreshCovered DEF PaymentsInv, PaidInv, PaidRows
<1>4. HeldForReason(q) \/ Recorded(q)
  BY <1>1, RefreshHolds DEF PaymentsInv, HoldInv
<1>5. UNCHANGED <<day, policy, decisions, promised>>
  BY DEF Visit
<1>10. ~Loops(Rows) => KeysOK(q) /\ (decisions = 0 => FreshRows(q))
  BY <1>1, StartingFacts, RefreshFresh
<1>6. CASE UNCHANGED rows
  <2>1. Kept(Rows, Rows) /\ Commit(Rows)
    BY <1>1, <1>6, KeptReflexive DEF Commit, Rows, rows
  <2>2. GoodRows(Rows)
    BY <1>5, <2>1, StartingFacts, GoodKept
  <2>3. QED
    BY <1>1, <1>5, <2>1, <2>2, GoodCommit
<1> HIDE DEF q
<1>7. CASE ~Loops(Rows) /\ Commit(q)
  <2>1. GoodRows(q)
    BY <1>2, <1>3, <1>4, <1>5, <1>7, <1>10, GoodKept
  <2>2. QED
    BY <1>1, <1>5, <1>7, <2>1, GoodCommit
<1>8. CASE ~Loops(Rows) /\ Commit(R)
  <2>0. KeysOK(R) /\ (decisions = 0 => FreshRows(R))
    BY <1>2, <1>8, <1>10, SyncFresh
  <2>1. Kept(Rows, R)
    BY <1>2, SyncKept, KeptTransitive
  <2>2. policy => PaidRows(R, promised)
    BY <1>1, <1>2, <1>3, SyncCovered DEF PaidRows
  <2>3. HeldForReason(R) \/ Recorded(R)
    BY <1>2, <1>4, SyncHolds
  <2> HIDE DEF R
  <2>4. GoodRows(R)
    BY <1>5, <2>0, <2>1, <2>2, <2>3, GoodKept
  <2>5. QED
    BY <1>1, <1>5, <1>8, <2>4, GoodCommit
<1>9. QED
  BY <1>6, <1>7, <1>8 DEF Visit, q, R

LEMMA WithSub ==
  ASSUME NEW r, RowsOK(r), NEW s \in SubType
  PROVE  LET q == [r EXCEPT !.sub = s]
         IN /\ RowsOK(q) /\ q.sub = s /\ q.pay = r.pay /\ q.ended = r.ended
            /\ q.grant = r.grant
BY DEF RowsOK

\* A decision of an administrator on a row that keeps the card it rests on.
LEMMA DecisionGood ==
  ASSUME PaymentsInv, sub.status # "none", NEW s \in SubType, decisions' # 0,
         promised' \in Nat, promised <= promised',
         s.prov = sub.prov, s.trialEnd = sub.trialEnd,
         s.status # "none", s.status = "trialing" => sub.status = "trialing",
         \/ s.end = sub.end /\ s.grace = sub.grace
         \/ s.end <= promised' /\ s.grace <= promised',
         ~HeldBack(s)
  PROVE  LET q == [Rows EXCEPT !.sub = s]
             R == SyncEntitlements(q)
         IN /\ RowsOK(q) /\ q.sub = s /\ (policy => DatesCovered(q, promised'))
            /\ GoodRows(R) /\ R.sub = s
<1> DEFINE q == [Rows EXCEPT !.sub = s]
           R == SyncEntitlements(q)
<1>1. /\ RowsOK(Rows) /\ day \in Nat \ {0} /\ promised \in Nat /\ sub = Rows.sub
  BY DEF PaymentsInv, PaymentsTypeOK, Rows
<1>2. RowsOK(q) /\ q.sub = s /\ q.pay = Rows.pay /\ q.ended = Rows.ended
  BY <1>1, WithSub
<1> HIDE DEF q
<1>3. RowsOK(R) /\ R.sub = s /\ R.pay = Rows.pay /\ R.ended = Rows.ended
  BY <1>2, SyncRows
<1>4. CardsOK(R)
  BY <1>3 DEF PaymentsInv, CardsOK
<1>5. OwnsReview(R)
  BY <1>1, <1>3 DEF PaymentsInv, OwnsReview
<1>6. policy => DatesCovered(q, promised')
  <2> SUFFICES ASSUME policy PROVE DatesCovered(q, promised')
    OBVIOUS
  <2>1. DatesCovered(Rows, promised)
    BY DEF PaymentsInv, PaidInv
  <2>2. \A t \in Nat : Covered(Rows, promised, t) => Covered(q, promised', t)
    BY <1>1, <1>2 DEF Covered, RowsOK, SubType
  <2>3. \A t \in SubType : CoveredDates(Rows, promised, t) => CoveredDates(q, promised', t)
    BY <2>2 DEF CoveredDates, SubType
  <2>4. sub.prov # 0 => Rows.pay[sub.prov].prev \in SubType
    BY <1>1, PrevType
  <2>5. CASE s.end = sub.end /\ s.grace = sub.grace
    <3>1. CoveredDates(Rows, promised, sub) => CoveredDates(q, promised', s)
      BY <1>1, <2>3, <2>5 DEF CoveredDates, RowsOK
    <3>2. QED
      BY <1>1, <1>2, <2>1, <2>3, <2>4, <2>5, <3>1 DEF DatesCovered
  <2>6. CASE s.end <= promised' /\ s.grace <= promised'
    <3>1. CoveredDates(q, promised', s)
      BY <2>6 DEF CoveredDates, Covered
    <3>2. QED
      BY <1>1, <1>2, <2>1, <2>3, <2>4, <3>1 DEF DatesCovered
  <2>7. QED
    BY <2>5, <2>6
<1>7. policy => PaidRows(R, promised')
  BY <1>1, <1>2, <1>6, SyncCovered
<1>8. HeldForReason(R)
  BY <1>3 DEF HeldForReason
<1>9. KeysOK(R)
  BY <1>3, StartingFacts DEF KeysOK
<1>10. QED
  BY <1>2, <1>3, <1>4, <1>5, <1>6, <1>7, <1>8, <1>9 DEF GoodRows, q

LEMMA GoodSync ==
  ASSUME NEW R, GoodRows(R), day \in Nat \ {0}
  PROVE  GoodRows(SyncEntitlements(R))
<1> DEFINE Q == SyncEntitlements(R)
<1>1. RowsOK(R) /\ Kept(R, Q) /\ RowsOK(Q)
  BY SyncKept DEF GoodRows, Kept
<1>2. CardsOK(Q) /\ OwnsReview(Q) /\ (decisions' = 0 => InOrder(Q))
  BY <1>1, KeptInvariants DEF GoodRows
<1>3. policy => PaidRows(Q, promised')
  BY <1>1, SyncCovered DEF GoodRows, PaidRows
<1>4. HeldForReason(Q) \/ Recorded(Q)
  BY <1>1, SyncHolds DEF GoodRows
<1>5. KeysOK(Q) /\ (decisions' = 0 => FreshRows(Q))
  BY <1>1, SyncFresh DEF GoodRows
<1>6. QED
  BY <1>1, <1>2, <1>3, <1>4, <1>5 DEF GoodRows

\* Nothing becomes a trial, or no subscription at all.
LEMMA AllowedStatuses ==
  ASSUME NEW status, NEW to \in AllowedTransitions(status)
  PROVE  to \in Statuses \ {"trialing"} /\ to \in Statuses /\ to # "none"
BY DEF AllowedTransitions, Statuses, Granting

LEMMA DecideFacts ==
  ASSUME PaymentsInv, Decide
  PROVE  /\ sub.status # "none" /\ decisions' \in Nat /\ decisions' # 0
         /\ UNCHANGED <<day, policy>>
         /\ PaymentsTypeOK /\ RowsOK(Rows) /\ Rows.sub = sub /\ sub \in SubType
         /\ day \in Nat \ {0} /\ promised \in Nat
BY DEF Decide, PaymentsInv, PaymentsTypeOK, Rows, RowsOK

LEMMA AdminTransitionInv ==
  ASSUME PaymentsInv, NEW to \in Statuses, AdminTransition(to)
  PROVE  PaymentsInv'
<1> DEFINE s == Moved(sub, to, "other")
           R == SyncEntitlements([Rows EXCEPT !.sub = s])
<1>1. Decide /\ to \in AllowedTransitions(sub.status) /\ Commit(Transition(Rows, to, "other"))
      /\ promised' = promised
  BY DEF AdminTransition
<1>2. to \in Statuses \ {"trialing"} /\ to # "none"
  BY <1>1, AllowedStatuses
<1>3. /\ sub.status # "none" /\ decisions' \in Nat /\ decisions' # 0
      /\ UNCHANGED <<day, policy>>
      /\ PaymentsTypeOK /\ RowsOK(Rows) /\ Rows.sub = sub /\ sub \in SubType
      /\ day \in Nat \ {0} /\ promised \in Nat
  BY <1>1, DecideFacts
<1>4. Transition(Rows, to, "other") = R
  BY <1>3, TransitionIs
<1>5. /\ s \in SubType /\ s.status = to /\ s.reason = "other" /\ s.end = sub.end
      /\ s.grace = sub.grace /\ s.prov = sub.prov /\ s.trialEnd = sub.trialEnd
  BY <1>3, MovedFields
<1> HIDE DEF s
<1>6. GoodRows(R)
  BY <1>1, <1>2, <1>3, <1>5, DecisionGood DEF HeldBack
<1> HIDE DEF R
<1>7. QED
  BY <1>1, <1>3, <1>4, <1>6, GoodCommit

LEMMA AdminActivateInv ==
  ASSUME PaymentsInv, NEW until \in AdminDays \cup {sub.end}, AdminActivate(until)
  PROVE  PaymentsInv'
<1>1. PICK from \in {day} \cup (IF until = sub.end THEN {sub.start} ELSE {}) :
        LET r == [Rows EXCEPT !.sub = WithPeriod(@, from, until)]
        IN Commit(SyncEntitlements(Transition(r, "active", "other")))
  BY DEF AdminActivate
<1>2. Decide /\ promised' = LatestOf(promised, sub'.grace)
  BY DEF AdminActivate
<1>3. /\ sub.status # "none" /\ decisions' \in Nat /\ decisions' # 0
      /\ UNCHANGED <<day, policy>>
      /\ PaymentsTypeOK /\ RowsOK(Rows) /\ Rows.sub = sub /\ sub \in SubType
      /\ day \in Nat \ {0} /\ promised \in Nat
  BY <1>2, DecideFacts
<1> DEFINE w == WithPeriod(sub, from, until)
           r == [Rows EXCEPT !.sub = w]
           s == Moved(w, "active", "other")
           q == [Rows EXCEPT !.sub = s]
           R == SyncEntitlements(SyncEntitlements(q))
<1>4. from \in Nat /\ until \in Nat
  BY <1>3, PaymentsAssumption DEF SubType
<1>5. /\ w \in SubType /\ w.end = until /\ w.grace = until + GraceDays(sub.plan)
      /\ w.prov = sub.prov /\ w.trialEnd = sub.trialEnd
  <2>1. sub \in SubType /\ from \in Nat /\ until \in Nat
    BY <1>3, <1>4
  <2>2. w \in SubType
    BY <2>1, WithPeriodFields
  <2>3. w.end = until
    BY <2>1, WithPeriodFields
  <2>4. w.grace = until + GraceDays(sub.plan)
    BY <2>1, WithPeriodFields
  <2>5. QED
    BY <2>1, <2>2, <2>3, <2>4, WithPeriodFields
<1> HIDE DEF w
<1>6. RowsOK(r) /\ r.sub = w
  BY <1>3, <1>5, WithSub
<1>7. "active" \in Statuses
  BY DEF Statuses, Granting
<1>8. /\ s \in SubType /\ s.status = "active" /\ s.reason = "other" /\ s.end = until
      /\ s.grace = until + GraceDays(sub.plan) /\ s.prov = sub.prov
      /\ s.trialEnd = sub.trialEnd
  BY <1>3, <1>5, <1>7, MovedFields
<1>9. Transition(r, "active", "other") = SyncEntitlements(q)
  <2>1. Transition(r, "active", "other") = SyncEntitlements([r EXCEPT !.sub = Moved(r.sub, "active", "other")])
    BY <1>3, <1>6, <1>7, TransitionIs
  <2>2. [r EXCEPT !.sub = s] = q
    <3> HIDE DEF s
    <3> QED BY <1>3 DEF RowsOK
  <2>3. QED
    BY <1>6, <2>1, <2>2
<1>10. Commit(R)
  BY <1>1, <1>3, <1>9 DEF w
<1> HIDE DEF s
<1>11. RowsOK(q) /\ q.sub = s
  BY <1>3, <1>8, WithSub
<1> HIDE DEF q
<1>12. R.sub = s
  BY <1>11, SyncRows
<1>13. sub'.grace = until + GraceDays(sub.plan)
  BY <1>8, <1>10, <1>12 DEF Commit
<1>14. /\ promised' \in Nat /\ promised <= promised'
       /\ s.end <= promised' /\ s.grace <= promised'
  BY <1>2, <1>3, <1>4, <1>8, <1>13, GraceDaysBound DEF LatestOf
<1>15. GoodRows(SyncEntitlements(q))
  BY <1>3, <1>8, <1>14, DecisionGood DEF HeldBack, q
<1>16. GoodRows(R)
  BY <1>3, <1>15, GoodSync
<1> HIDE DEF R
<1>17. QED
  BY <1>3, <1>10, <1>14, <1>16, GoodCommit

LEMMA AdminExtendInv ==
  ASSUME PaymentsInv, NEW until \in AdminDays, AdminExtend(until)
  PROVE  PaymentsInv'
<1> DEFINE w == WithPeriod(sub, sub.start, until)
           s == [w EXCEPT !.cancel = FALSE, !.reason = "other"]
           q == [Rows EXCEPT !.sub = s]
           R == SyncEntitlements(q)
<1>1. Decide /\ promised' = LatestOf(promised, sub'.grace)
  BY DEF AdminExtend
<1>2. /\ sub.status # "none" /\ decisions' \in Nat /\ decisions' # 0
      /\ UNCHANGED <<day, policy>>
      /\ PaymentsTypeOK /\ RowsOK(Rows) /\ Rows.sub = sub /\ sub \in SubType
      /\ day \in Nat \ {0} /\ promised \in Nat
  BY <1>1, DecideFacts
<1>3. Commit(R)
  BY <1>2 DEF AdminExtend
<1>4. sub.start \in Nat /\ until \in Nat /\ until + GraceDays(sub.plan) \in Nat
  BY <1>2, PaymentsAssumption, GraceDaysBound DEF SubType
<1>5. /\ w \in SubType /\ w.end = until /\ w.grace = until + GraceDays(sub.plan)
      /\ w.prov = sub.prov /\ w.trialEnd = sub.trialEnd /\ w.status = sub.status
  <2>1. sub \in SubType /\ sub.start \in Nat /\ until \in Nat
    BY <1>2, <1>4
  <2>2. w \in SubType
    BY <2>1, WithPeriodFields
  <2>3. w.end = until
    BY <2>1, WithPeriodFields
  <2>4. w.grace = until + GraceDays(sub.plan)
    BY <2>1, WithPeriodFields
  <2>5. w.prov = sub.prov
    BY <2>1, WithPeriodFields
  <2>6. w.trialEnd = sub.trialEnd
    BY <2>1, WithPeriodFields
  <2>7. w.status = sub.status
    BY <2>1, WithPeriodFields
  <2> HIDE DEF w
  <2>8. QED
    BY <2>2, <2>3, <2>4, <2>5, <2>6, <2>7
<1> HIDE DEF w
<1>6. /\ s \in SubType /\ s.end = w.end /\ s.grace = w.grace /\ s.prov = w.prov
      /\ s.trialEnd = w.trialEnd /\ s.status = w.status /\ s.reason = "other"
  BY <1>5 DEF SubType
<1> HIDE DEF s
<1>7. R.sub = s
  <2>1. RowsOK(q) /\ q.sub = s
    BY <1>2, <1>6, WithSub
  <2> HIDE DEF q
  <2>2. QED
    BY <2>1, SyncRows
<1>8. sub'.grace = until + GraceDays(sub.plan)
  BY <1>3, <1>5, <1>6, <1>7 DEF Commit
<1>9. /\ promised' \in Nat /\ promised <= promised'
      /\ s.end <= promised' /\ s.grace <= promised'
  BY <1>1, <1>2, <1>4, <1>5, <1>6, <1>8, GraceDaysBound DEF LatestOf
<1>10. GoodRows(R)
  BY <1>2, <1>5, <1>6, <1>9, DecisionGood DEF HeldBack
<1> HIDE DEF R
<1>11. QED
  BY <1>2, <1>3, <1>9, <1>10, GoodCommit

LEMMA AdminChangePlanInv ==
  ASSUME PaymentsInv, NEW plan \in Plans, AdminChangePlan(plan)
  PROVE  PaymentsInv'
<1> DEFINE s == [sub EXCEPT !.plan = plan, !.reason = "other"]
           R == SyncEntitlements([Rows EXCEPT !.sub = s])
<1>1. Decide /\ promised' = promised
  BY DEF AdminChangePlan
<1>2. /\ sub.status # "none" /\ decisions' \in Nat /\ decisions' # 0
      /\ UNCHANGED <<day, policy>>
      /\ PaymentsTypeOK /\ RowsOK(Rows) /\ Rows.sub = sub /\ sub \in SubType
      /\ day \in Nat \ {0} /\ promised \in Nat
  BY <1>1, DecideFacts
<1>3. [Rows EXCEPT !.sub.plan = plan, !.sub.reason = "other"] = [Rows EXCEPT !.sub = s]
  BY <1>2 DEF RowsOK, SubType
<1>4. Commit(R)
  BY <1>3 DEF AdminChangePlan
<1>5. /\ s \in SubType /\ s.end = sub.end /\ s.grace = sub.grace /\ s.prov = sub.prov
      /\ s.trialEnd = sub.trialEnd /\ s.status = sub.status /\ s.reason = "other"
  BY <1>2 DEF SubType
<1> HIDE DEF s
<1>6. GoodRows(R)
  BY <1>1, <1>2, <1>5, DecisionGood DEF HeldBack
<1> HIDE DEF R
<1>7. QED
  BY <1>1, <1>2, <1>4, <1>6, GoodCommit

LEMMA AdminCancelAtEndInv ==
  ASSUME PaymentsInv, AdminCancelAtEnd
  PROVE  PaymentsInv'
<1> DEFINE s == [sub EXCEPT !.cancel = TRUE, !.reason = "other"]
           R == SyncEntitlements([Rows EXCEPT !.sub = s])
<1>1. Decide /\ promised' = promised
  BY DEF AdminCancelAtEnd
<1>2. /\ sub.status # "none" /\ decisions' \in Nat /\ decisions' # 0
      /\ UNCHANGED <<day, policy>>
      /\ PaymentsTypeOK /\ RowsOK(Rows) /\ Rows.sub = sub /\ sub \in SubType
      /\ day \in Nat \ {0} /\ promised \in Nat
  BY <1>1, DecideFacts
<1>3. [Rows EXCEPT !.sub.cancel = TRUE, !.sub.reason = "other"] = [Rows EXCEPT !.sub = s]
  BY <1>2 DEF RowsOK, SubType
<1>4. Commit(R)
  BY <1>3 DEF AdminCancelAtEnd
<1>5. /\ s \in SubType /\ s.end = sub.end /\ s.grace = sub.grace /\ s.prov = sub.prov
      /\ s.trialEnd = sub.trialEnd /\ s.status = sub.status /\ s.reason = "other"
  BY <1>2 DEF SubType
<1> HIDE DEF s
<1>6. GoodRows(R)
  BY <1>1, <1>2, <1>5, DecisionGood DEF HeldBack
<1> HIDE DEF R
<1>7. QED
  BY <1>1, <1>2, <1>4, <1>6, GoodCommit

\* Before there is a subscription no period has been sold.
LEMMA NothingSold ==
  ASSUME NEW r, RowsOK(r), r.sub.prov = 0, r.sub.end = 0, InOrder(r)
  PROVE  Bought(r) = {}
<1>1. \A p \in Bought(r) : 0 < r.pay[p].until /\ r.pay[p].until <= 0 /\ r.pay[p].until \in Nat
  BY DEF InOrder, EndsLast, RowsOK, CardType, Bought
<1>2. QED
  BY <1>1

LEMMA TrialSubType ==
  /\ NoSub \in SubType /\ TrialSub \in SubType
  /\ TrialSub.status = "trialing" /\ TrialSub.prov = 0 /\ TrialSub.end = TrialEnd
  /\ TrialSub.trialEnd = TrialEnd /\ TrialSub.grace = 0 /\ TrialSub.reason = "other"
  /\ NoSub.status = "none" /\ NoSub.prov = 0 /\ NoSub.end = 0 /\ NoSub.grace = 0
  /\ NoSub.trialEnd = 0 /\ NoSub.reason = "other"
<1>1. 0 \in 0..MaxPayments
  BY PaymentsAssumption
<1>2. NoSub \in SubType
  BY <1>1 DEF NoSub, SubType, Statuses, Granting, Plans
<1>3. /\ NoSub.status = "none" /\ NoSub.prov = 0 /\ NoSub.end = 0 /\ NoSub.grace = 0
      /\ NoSub.trialEnd = 0 /\ NoSub.reason = "other"
  BY DEF NoSub
<1>4. TrialEnd \in Nat /\ "trialing" \in Statuses
  BY PaymentsAssumption DEF Statuses, Granting
<1> HIDE DEF NoSub
<1>5. TrialSub \in SubType
  BY <1>2, <1>4 DEF TrialSub, SubType
<1>6. /\ TrialSub.status = "trialing" /\ TrialSub.prov = 0 /\ TrialSub.end = TrialEnd
      /\ TrialSub.trialEnd = TrialEnd /\ TrialSub.grace = 0 /\ TrialSub.reason = "other"
  BY <1>2, <1>3, <1>4 DEF TrialSub, SubType
<1>7. QED
  BY <1>2, <1>3, <1>5, <1>6

LEMMA CreateTrialInv ==
  ASSUME PaymentsInv, CreateTrial
  PROVE  PaymentsInv'
<1> DEFINE q == [Rows EXCEPT !.sub = TrialSub]
           R == SyncEntitlements(q)
<1>1. /\ sub.status = "none" /\ Commit(R)
      /\ UNCHANGED <<day, policy, decisions, promised>>
  BY DEF CreateTrial
<1>2. sub = NoSub
  BY <1>1, StartingFacts DEF OwnsReview
<1>3. RowsOK(q) /\ q.sub = TrialSub /\ q.pay = pay /\ q.ended = ended
  BY StartingFacts, TrialSubType, WithSub
<1> HIDE DEF q
<1>4. RowsOK(R) /\ R.sub = TrialSub /\ R.pay = pay /\ R.ended = ended
  BY <1>3, SyncRows
<1>5. CardsOK(R)
  BY <1>4, StartingFacts DEF CardsOK
<1>6. OwnsReview(R)
  BY <1>2, <1>4, StartingFacts, TrialSubType DEF OwnsReview
<1>7. DatesCovered(q, promised)
  BY <1>3, TrialSubType, PaymentsAssumption DEF DatesCovered, CoveredDates, Covered
<1>8. policy => PaidRows(R, promised)
  BY <1>3, <1>7, StartingFacts, SyncCovered
<1>9. decisions = 0 => InOrder(R)
  <2> SUFFICES ASSUME decisions = 0 PROVE InOrder(R)
    OBVIOUS
  <2>1. Bought(Rows) = {}
    BY <1>2, StartingFacts, TrialSubType, NothingSold
  <2>2. Bought(R) = {}
    BY <1>4, <2>1, StartingFacts DEF Bought
  <2>3. QED
    BY <1>4, <2>2, TrialSubType DEF InOrder, EndsLast
<1>10. HeldForReason(R)
  BY <1>4, TrialSubType DEF HeldForReason, HeldBack
<1>13. KeysOK(R) /\ FreshRows(R)
  BY <1>4, StartingFacts, TrialSubType DEF KeysOK, FreshRows, Fresh
<1> HIDE DEF R
<1>11. GoodRows(R)
  BY <1>1, <1>4, <1>5, <1>6, <1>8, <1>9, <1>10, <1>13 DEF GoodRows
<1>12. QED
  BY <1>1, <1>11, StartingFacts, GoodCommit

LEMMA ScheduleCancellationInv ==
  ASSUME PaymentsInv, ScheduleCancellation
  PROVE  PaymentsInv'
<1> DEFINE s == [sub EXCEPT !.cancel = TRUE]
           R == [Rows EXCEPT !.sub = s]
<1>1. /\ sub.status \in Granting /\ sub' = s
      /\ UNCHANGED <<day, policy, decisions, promised>> /\ UNCHANGED <<ended, grant, pay>>
  BY DEF ScheduleCancellation
<1>2. /\ s \in SubType /\ s.end = sub.end /\ s.grace = sub.grace /\ s.prov = sub.prov
      /\ s.trialEnd = sub.trialEnd /\ s.status = sub.status /\ s.status # "none"
      /\ s.status # "suspended" /\ s.reason = sub.reason
  BY <1>1, StartingFacts DEF SubType, Granting
<1> HIDE DEF s
<1>3. RowsOK(R) /\ R.sub = s /\ R.pay = pay /\ R.ended = ended /\ R.grant = grant
  BY <1>2, StartingFacts, WithSub
<1> HIDE DEF R
<1>4. Commit(R)
  BY <1>1, <1>3 DEF Commit
<1>5. CardsOK(R)
  BY <1>3, StartingFacts DEF CardsOK
<1>6. OwnsReview(R)
  BY <1>2, <1>3, StartingFacts DEF OwnsReview
<1>7. policy => PaidRows(R, promised)
  BY <1>2, <1>3, StartingFacts
     DEF PaidRows, DatesCovered, GrantCovered, CoveredDates, Covered
<1>8. decisions = 0 => InOrder(R)
  BY <1>2, <1>3, StartingFacts DEF InOrder, EndsLast, Bought
<1>9. HeldForReason(R)
  BY <1>2, <1>3 DEF HeldForReason, HeldBack
<1>12. KeysOK(R)
  BY <1>3, StartingFacts DEF KeysOK
<1>13. decisions = 0 => FreshRows(R)
  BY <1>2, <1>3, StartingFacts DEF FreshRows, Fresh, Running
<1>10. GoodRows(R)
  BY <1>1, <1>3, <1>5, <1>6, <1>7, <1>8, <1>9, <1>12, <1>13 DEF GoodRows
<1>11. QED
  BY <1>1, <1>4, <1>10, StartingFacts, GoodCommit

\* A hold that has a reason has it the next day.
LEMMA NextDayInv ==
  ASSUME PaymentsInv, NextDay
  PROVE  PaymentsInv'
<1>1. /\ day' = day + 1 /\ Rows' = Rows
      /\ UNCHANGED <<policy, decisions, promised>>
  BY DEF NextDay, rows, Rows
<1>2. PaymentsTypeOK'
  BY <1>1, StartingFacts DEF PaymentsTypeOK, RowsOK
<1>3. CardsOK(Rows)' /\ OwnsReview(Rows)'
  BY <1>1, StartingFacts DEF CardsOK, OwnsReview
<1>4. PaidInv'
  BY <1>1 DEF PaymentsInv, PaidInv, DatesCovered, GrantCovered, CoveredDates, Covered
<1>5. OrderInv'
  BY <1>1 DEF PaymentsInv, OrderInv, InOrder, EndsLast, Bought
<1>6. Recorded(Rows) => Recorded(Rows)'
  BY <1>1 DEF Recorded
<1>7. HeldForReason(Rows) => HeldForReason(Rows)'
  <2> SUFFICES ASSUME HeldForReason(Rows) PROVE HeldForReason(Rows)'
    OBVIOUS
  <2>1. ASSUME NEW a \in ActiveAgreements(Rows), HoldsBack(Rows, a)
        PROVE  HoldsBack(Rows, a)'
    <3>1. PaymentsOf(Rows, a)' = PaymentsOf(Rows, a)
      BY <1>1
    <3>2. NextNumber(Rows, a)' = NextNumber(Rows, a)
      BY <1>1
    <3>3. \A n : DueAt(Rows, a, n)' = DueAt(Rows, a, n)
      BY <1>1
    <3>4. a \in Cards /\ Rows.pay[a].at \in Nat
      BY StartingFacts DEF ActiveAgreements, CardType
    <3>5. NextNumber(Rows, a) \in 1..2
      BY <2>1, NextNumberCases DEF HoldsBack, Installments
    <3>6. DueAt(Rows, a, NextNumber(Rows, a)) \in Nat
      <4>1. CASE NextNumber(Rows, a) = 1
        BY <3>4, <4>1, PaymentsAssumption DEF DueAt
      <4>2. CASE NextNumber(Rows, a) = 2
        BY <3>4, <4>2, PaymentsAssumption DEF DueAt
      <4>3. QED
        BY <3>5, <4>1, <4>2
    <3>7. DueAt(Rows, a, NextNumber(Rows, a)) <= day'
      BY <1>1, <2>1, <3>6, StartingFacts DEF HoldsBack
    <3>8. QED
      BY <1>1, <2>1, <3>1, <3>2, <3>3, <3>7 DEF HoldsBack
  <2>2. ActiveAgreements(Rows)' = ActiveAgreements(Rows) /\ (HeldBack(Rows.sub)' <=> HeldBack(Rows.sub))
    BY <1>1 DEF ActiveAgreements, HeldBack
  <2>3. QED
    BY <2>1, <2>2 DEF HeldForReason
<1>8. FreshInv'
  <2>1. KeysOK(Rows)'
    <3>1. \A e \in Nat : e <= day => e <= day'
      BY <1>1, StartingFacts
    <3>2. QED
      BY <1>1, <3>1, StartingFacts DEF KeysOK
  <2>2. ASSUME decisions = 0 PROVE FreshRows(Rows)'
    <3>1. \A s \in SubType : Running(s) => Running(s)'
      BY <1>1, StartingFacts DEF Running, SubType
    <3>2. \A s \in SubType : Fresh(Rows, s) => Fresh(Rows, s)'
      BY <1>1, <3>1 DEF Fresh
    <3>3. sub.prov # 0 => Rows.pay[sub.prov].prev \in SubType
      BY StartingFacts, PrevType
    <3>4. FreshRows(Rows)
      BY <2>2, StartingFacts
    <3>5. QED
      BY <1>1, <3>1, <3>2, <3>3, <3>4, StartingFacts DEF FreshRows
  <2>3. QED
    BY <1>1, <2>1, <2>2 DEF FreshInv
<1>9. QED
  BY <1>2, <1>3, <1>4, <1>5, <1>6, <1>7, <1>8 DEF PaymentsInv, HoldInv

-----------------------------------------------------------------------------
(* Submitting a card *)

\* The rows a purchase begins with: nothing is under review and the row's own
\* dates are paid for.
LEMMA PurchaseRows ==
  ASSUME PaymentsInv, UnderReview = {}, ~Loops(Rows), NEW plan \in Plans
  PROVE  LET r == BeforePurchase(plan)
         IN /\ RowsOK(r) /\ CardsOK(r) /\ r.sub.prov = 0
            /\ \A p \in Cards : r.pay[p].review # "pending"
            /\ \A p \in Cards : r.pay[p].status = "none" <=> pay[p].status = "none"
            /\ policy => CoveredDates(r, promised, r.sub)
            /\ decisions = 0 => InOrder(r)
            /\ KeysOK(r) /\ (decisions = 0 => Fresh(r, r.sub))
<1> DEFINE o == OpenedRow(plan)
           t == [sub EXCEPT !.status = "pending", !.plan = plan]
<1>1. /\ RowsOK(Rows) /\ CardsOK(Rows) /\ OwnsReview(Rows) /\ Rows.sub = sub /\ Rows.pay = pay
      /\ Rows.ended = ended /\ sub \in SubType /\ day \in Nat \ {0}
      /\ policy => PaidRows(Rows, promised)
      /\ decisions = 0 => InOrder(Rows)
      /\ KeysOK(Rows) /\ (decisions = 0 => FreshRows(Rows))
  BY StartingFacts
<1>2. \A p \in Cards : pay[p].review # "pending"
  BY DEF UnderReview
<1>3. sub.prov = 0
  <2>1. sub.prov # 0 => sub.prov \in Cards
    BY <1>1, ReviewCard
  <2>2. QED
    BY <1>1, <1>2, <2>1 DEF OwnsReview
<1>4. "pending" \in Statuses
  BY DEF Statuses
<1>5. /\ t \in SubType /\ t.prov = 0 /\ t.end = sub.end /\ t.grace = sub.grace
      /\ t.trialEnd = sub.trialEnd /\ t.status = "pending" /\ t.reason = sub.reason
  BY <1>1, <1>3, <1>4 DEF SubType
<1>6. o = Rows \/ (sub.status = "none" /\ o = [Rows EXCEPT !.sub = t])
  <2>1. [Rows EXCEPT !.sub.status = "pending", !.sub.plan = plan] = [Rows EXCEPT !.sub = t]
    BY <1>1 DEF RowsOK, SubType
  <2>2. QED
    BY <2>1 DEF OpenedRow
<1> HIDE DEF t
<1>7. /\ RowsOK(o) /\ o.pay = pay /\ o.sub \in SubType /\ o.sub.prov = 0
      /\ o.sub.end = sub.end /\ o.sub.grace = sub.grace /\ o.sub.trialEnd = sub.trialEnd
      /\ o.ended = ended
      /\ o.sub = sub \/ (sub.status = "none" /\ o.sub.status = "pending")
  <2>1. CASE o = Rows
    BY <1>1, <1>3, <2>1
  <2>2. CASE sub.status = "none" /\ o = [Rows EXCEPT !.sub = t]
    BY <1>1, <1>5, <2>2, WithSub
  <2>3. QED
    BY <1>6, <2>1, <2>2
<1> HIDE DEF o
<1>8. CardsOK(o)
  BY <1>1, <1>7 DEF CardsOK
<1>9. policy => CoveredDates(o, promised, o.sub)
  BY <1>1, <1>3, <1>7 DEF PaidRows, DatesCovered, CoveredDates, Covered
<1>10. decisions = 0 => InOrder(o)
  BY <1>1, <1>3, <1>7 DEF InOrder, EndsLast, Bought
<1>15. /\ KeysOK(o) /\ ~Loops(o) /\ Resting(o)
       /\ decisions = 0 => FreshRows(o)
  <2>1. KeysOK(o)
    BY <1>1, <1>7 DEF KeysOK
  <2>2. ~Loops(o)
    BY <1>1, <1>7 DEF Loops, PeriodOver
  <2>3. ASSUME decisions = 0 PROVE FreshRows(o)
    <3>1. CASE o.sub = sub
      BY <1>1, <1>3, <1>7, <2>3, <3>1 DEF FreshRows, Fresh
    <3>2. CASE sub.status = "none"
      <4>1. o = Rows \/ o = [Rows EXCEPT !.sub = t]
        BY <1>6
      <4>2. sub.reason = "other"
        BY <1>1, <3>2, TrialSubType DEF OwnsReview
      <4>3. o.sub.reason = "other"
        <5>1. CASE o = Rows
          BY <1>1, <4>2, <5>1
        <5>2. CASE o = [Rows EXCEPT !.sub = t]
          <6>1. o.sub = t
            BY <1>1, <1>5, <5>2, WithSub
          <6>2. QED
            BY <1>5, <4>2, <6>1
        <5>3. QED
          BY <4>1, <5>1, <5>2
      <4>4. QED
        BY <1>7, <4>3 DEF FreshRows, Fresh
    <3>3. QED
      BY <1>7, <3>1, <3>2
  <2>4. QED
    BY <1>7, <2>1, <2>2, <2>3 DEF Resting
<1>11. ASSUME NEW r, Kept(o, r)
       PROVE  /\ RowsOK(r) /\ CardsOK(r) /\ r.sub.prov = 0
              /\ \A p \in Cards : r.pay[p].review # "pending"
              /\ \A p \in Cards : r.pay[p].status = "none" <=> pay[p].status = "none"
              /\ policy => CoveredDates(r, promised, r.sub)
              /\ decisions = 0 => InOrder(r)
  <2>1. RowsOK(r) /\ r.sub.prov = 0 /\ r.sub.end = o.sub.end /\ r.sub.grace = o.sub.grace
    BY <1>7, <1>11 DEF Kept
  <2>2. CardsOK(r) /\ (decisions = 0 => InOrder(r))
    BY <1>7, <1>8, <1>10, <1>11, KeptInvariants
  <2>3. \A p \in Cards : r.pay[p].review # "pending"
                         /\ (r.pay[p].status = "none" <=> pay[p].status = "none")
    BY <1>2, <1>7, <1>11 DEF Kept, SameCard
  <2>4. \A d : Covered(r, promised, d) <=> Covered(o, promised, d)
    BY <1>7, <1>11, KeptCovered
  <2>5. policy => CoveredDates(r, promised, r.sub)
    BY <1>9, <2>1, <2>4 DEF CoveredDates
  <2>6. QED
    BY <2>1, <2>2, <2>3, <2>5
<1>12. CASE BeforePurchase(plan) = RefreshSubscription(o)
  <2>1. Kept(o, RefreshSubscription(o))
    BY <1>1, <1>7, RefreshKept
  <2>2. /\ KeysOK(RefreshSubscription(o))
        /\ decisions = 0 => FreshRows(RefreshSubscription(o))
    BY <1>1, <1>7, <1>15, RefreshFresh
  <2>3. QED
    BY <1>11, <1>12, <2>1, <2>2 DEF FreshRows
<1>13. CASE BeforePurchase(plan) = Rows /\ sub.status = "grace"
  <2>1. o = Rows
    BY <1>13 DEF o, OpenedRow
  <2>2. Kept(o, Rows)
    BY <1>7, <2>1, KeptReflexive
  <2>3. QED
    BY <1>1, <1>11, <1>13, <2>2 DEF FreshRows
<1>14. QED
  BY <1>12, <1>13 DEF BeforePurchase, o

\* The card a purchase takes: cards before it have been sent, those after it not.
LEMMA NextCard ==
  ASSUME NEW r, CardsOK(r), NEW p \in Unused, p = Earliest(Unused),
         \A c \in Cards : r.pay[c].status = "none" <=> pay[c].status = "none"
  PROVE  /\ p \in Cards /\ p \in Nat \ {0} /\ r.pay[p].status = "none"
         /\ \A c \in Cards : c < p => r.pay[c].status # "none"
         /\ \A c \in Cards : c > p => r.pay[c].status = "none"
<1>1. Unused \in SUBSET Nat /\ Unused # {} /\ p \in Cards /\ Cards \subseteq Nat \ {0}
  BY PaymentsAssumption DEF Unused, Cards
<1>2. \A c \in Unused : p <= c
  BY <1>1, EarliestIs
<1>3. r.pay[p].status = "none"
  BY <1>1 DEF Unused
<1>4. \A c \in Cards : c < p => r.pay[c].status # "none"
  BY <1>1, <1>2 DEF Unused
<1>5. \A c \in Cards : c > p => r.pay[c].status = "none"
  BY <1>1, <1>3 DEF CardsOK
<1>6. QED
  BY <1>1, <1>3, <1>4, <1>5

LEMMA WithCard ==
  ASSUME NEW r, RowsOK(r), NEW p \in Cards, NEW card \in CardType
  PROVE  LET q == [r EXCEPT !.pay[p] = card]
         IN /\ RowsOK(q) /\ q.sub = r.sub /\ q.ended = r.ended /\ q.grant = r.grant
            /\ q.pay[p] = card /\ \A c \in Cards : c # p => q.pay[c] = r.pay[c]
            /\ q = [r EXCEPT !.pay = [r.pay EXCEPT ![p] = card]]
<1> DEFINE q == [r EXCEPT !.pay[p] = card]
           cards == [r.pay EXCEPT ![p] = card]
<1>1. q = [r EXCEPT !.pay = cards]
  BY DEF RowsOK
<1>2. cards \in [Cards -> CardType] /\ cards[p] = card /\ \A c \in Cards : c # p => cards[c] = r.pay[c]
  BY DEF RowsOK
<1> HIDE DEF q, cards
<1>3. RowsOK(q) /\ q.sub = r.sub /\ q.ended = r.ended /\ q.grant = r.grant /\ q.pay = cards
  BY <1>1, <1>2 DEF RowsOK
<1>4. QED
  BY <1>1, <1>2, <1>3 DEF q, cards

LEMMA NoCardType ==
  /\ NoCard \in CardType
  /\ NoCard.status = "none" /\ NoCard.review = "none" /\ NoCard.number = 0 /\ NoCard.of = 0
  /\ NoCard.agreement = "none"
<1>1. NoSub \in SubType /\ 0 \in 0..MaxPayments /\ 0 \in 0..Installments
  BY TrialSubType, PaymentsAssumption DEF Installments
<1>2. NoCard \in CardType
  BY <1>1 DEF NoCard, CardType, Plans
<1>3. QED
  BY <1>2 DEF NoCard

\* A card of a purchase, on the rows r it is bought on.
PurchaseCard(p, plan, inParts, s, from, until) ==
  [NoCard EXCEPT
     !.status = "pending", !.review = "pending", !.plan = plan,
     !.number = IF inParts THEN 1 ELSE 0, !.of = IF inParts THEN p ELSE 0,
     !.agreement = IF inParts THEN "active" ELSE "none",
     !.at = IF inParts THEN day ELSE 0, !.from = from, !.until = until,
     !.early = IsEarlyRenewal(s, plan), !.prev = s]
\* The row it leaves.
PurchaseSub(p, plan, s, from, until) ==
  [WithPeriod([s EXCEPT !.plan = plan], from, until)
     EXCEPT !.status = "active", !.reason = "other", !.prov = p, !.started = FirstOf(@, day)]

LEMMA PurchaseCardType ==
  ASSUME NEW p \in Cards, NEW plan \in Plans, NEW inParts \in BOOLEAN, NEW s \in SubType,
         NEW from \in Nat, NEW until \in Nat, day \in Nat
  PROVE  LET card == PurchaseCard(p, plan, inParts, s, from, until)
         IN /\ card \in CardType
            /\ card.status = "pending" /\ card.review = "pending" /\ card.number \in {0, 1}
            /\ card.number = 0 => card.of = 0 /\ card.agreement = "none"
            /\ card.number = 1 => card.of = p
            /\ card.from = from /\ card.until = until /\ card.prev = s
<1> DEFINE number == IF inParts THEN 1 ELSE 0
           of == IF inParts THEN p ELSE 0
           agreement == IF inParts THEN "active" ELSE "none"
           at == IF inParts THEN day ELSE 0
           early == IsEarlyRenewal(s, plan)
           card == PurchaseCard(p, plan, inParts, s, from, until)
<1>1. /\ number \in {0, 1} /\ number \in 0..Installments /\ of \in 0..MaxPayments
      /\ agreement \in {"none", "active", "completed", "cancelled"} /\ at \in Nat
      /\ number = 0 => of = 0 /\ agreement = "none"
      /\ number = 1 => of = p
  BY PaymentsAssumption DEF Installments, Cards
<1>2. early \in BOOLEAN
  BY DEF IsEarlyRenewal, EarlyRenewalAllowed
<1>3. card = [NoCard EXCEPT
                !.status = "pending", !.review = "pending", !.plan = plan,
                !.number = number, !.of = of, !.agreement = agreement,
                !.at = at, !.from = from, !.until = until,
                !.early = early, !.prev = s]
  BY DEF PurchaseCard
<1> HIDE DEF number, of, agreement, at, early, card
<1>4. /\ card \in CardType
      /\ card.status = "pending" /\ card.review = "pending" /\ card.number = number
      /\ card.of = of /\ card.agreement = agreement
      /\ card.from = from /\ card.until = until /\ card.prev = s
  BY <1>1, <1>2, <1>3, NoCardType DEF CardType
<1>5. QED
  BY <1>1, <1>4 DEF card

LEMMA PurchaseSubType ==
  ASSUME NEW p \in Cards, NEW plan \in Plans, NEW s \in SubType,
         NEW from \in Nat, NEW until \in Nat, day \in Nat
  PROVE  LET t == PurchaseSub(p, plan, s, from, until)
         IN /\ t \in SubType
            /\ t.status = "active" /\ t.reason = "other" /\ t.prov = p
            /\ t.end = until /\ until <= t.grace /\ t.trialEnd = s.trialEnd
<1> DEFINE u == [s EXCEPT !.plan = plan]
           w == WithPeriod(u, from, until)
           started == FirstOf(w.started, day)
           t == [w EXCEPT !.status = "active", !.reason = "other", !.prov = p, !.started = started]
<1>1. PurchaseSub(p, plan, s, from, until) = t
  BY DEF PurchaseSub
<1>2. u \in SubType /\ u.trialEnd = s.trialEnd
  BY DEF SubType
<1> HIDE DEF u
<1>3. /\ w \in SubType /\ w.end = until /\ w.trialEnd = u.trialEnd
      /\ w.grace = until + GraceDays(u.plan)
  <2>1. w.grace = until + GraceDays(u.plan)
    BY <1>2, WithPeriodFields
  <2>2. QED
    BY <1>2, <2>1, WithPeriodFields
<1>4. until <= w.grace
  BY <1>3, GraceDaysBound
<1> HIDE DEF w
<1>5. started \in Nat
  BY <1>3 DEF FirstOf, SubType
<1> HIDE DEF started
<1>6. p \in 0..MaxPayments /\ "active" \in Statuses
  BY PaymentsAssumption DEF Cards, Statuses, Granting
<1>7. t \in SubType
  BY <1>3, <1>5, <1>6 DEF SubType
<1>8. /\ t.status = "active" /\ t.reason = "other" /\ t.prov = p
      /\ t.end = w.end /\ t.grace = w.grace /\ t.trialEnd = w.trialEnd
  BY <1>3 DEF SubType
<1> HIDE DEF t
<1>9. QED
  BY <1>1, <1>2, <1>3, <1>4, <1>7, <1>8

\* A card is sent after the ones before it, and none is under review beside it.
LEMMA SentCard ==
  ASSUME NEW r, CardsOK(r), NEW q, NEW p \in Cards, p \in Nat,
         \A c \in Cards : r.pay[c].review # "pending",
         r.pay[p].status = "none",
         \A c \in Cards : c < p => r.pay[c].status # "none",
         \A c \in Cards : c > p => r.pay[c].status = "none",
         \A c \in Cards : c # p => q.pay[c] = r.pay[c],
         q.pay[p].status = "pending", q.pay[p].review = "pending",
         q.pay[p].number \in {0, 1, 2},
         q.pay[p].number = 0 => q.pay[p].of = 0,
         q.pay[p].number = 1 => q.pay[p].of = p,
         q.pay[p].number # 1 => q.pay[p].agreement = "none"
  PROVE  CardsOK(q)
<1>1. Cards \subseteq Nat
  BY PaymentsAssumption DEF Cards
<1> SUFFICES ASSUME NEW c \in Cards
             PROVE  LET k == q.pay[c]
                    IN /\ k.status = "none" <=> k.review = "none"
                       /\ k.status = "pending" <=> k.review = "pending"
                       /\ k.review = "approved" => k.status = "succeeded"
                       /\ k.status = "none" => k.agreement = "none"
                       /\ k.agreement = "active" => /\ k.review \in {"pending", "approved"}
                                                    /\ k.number = 1 /\ k.of = c
                       /\ k.number = 0 => k.of = 0
                       /\ k.number = 1 => k.of = c
                       /\ k.status \in {"none", "pending"} =>
                            \A d \in Cards : d > c => q.pay[d].status = "none"
  BY DEF CardsOK
<1>2. CASE c = p
  <2>1. \A d \in Cards : d > c => q.pay[d].status = "none"
    BY <1>1, <1>2
  <2>2. QED
    BY <1>2, <2>1
<1>3. CASE c # p
  <2>1. q.pay[c] = r.pay[c]
    BY <1>3
  <2>2. r.pay[c].status # "pending"
    BY DEF CardsOK
  <2>3. r.pay[c].status = "none" => c > p
    BY <1>1, <1>3
  <2>4. q.pay[c].status \in {"none", "pending"} =>
          \A d \in Cards : d > c => q.pay[d].status = "none"
    BY <1>1, <2>1, <2>2, <2>3
  <2>5. LET k == r.pay[c]
        IN /\ k.status = "none" <=> k.review = "none"
           /\ k.status = "pending" <=> k.review = "pending"
           /\ k.review = "approved" => k.status = "succeeded"
           /\ k.status = "none" => k.agreement = "none"
           /\ k.agreement = "active" => /\ k.review \in {"pending", "approved"}
                                        /\ k.number = 1 /\ k.of = c
           /\ k.number = 0 => k.of = 0
           /\ k.number = 1 => k.of = c
    BY DEF CardsOK
  <2>6. QED
    BY <2>1, <2>4, <2>5
<1>4. QED
  BY <1>2, <1>3

LEMMA SubmitRechargeInv ==
  ASSUME PaymentsInv, NEW plan \in Plans, NEW inParts \in BOOLEAN,
         SubmitRecharge(plan, inParts)
  PROVE  PaymentsInv'
<1> DEFINE r == BeforePurchase(plan)
           s == r.sub
           from == PaidFrom(s)
           until == PaidUntil(plan, from)
           periodStart == IF s.status \in {"active", "grace"} /\ s.start # 0 THEN s.start ELSE from
<1>1. PICK p \in Unused :
        /\ p = Earliest(Unused) /\ UnderReview = {} /\ until > from
        /\ ~Loops(Rows) /\ MayBuy(r, plan) /\ "active" \in AllowedTransitions(s.status)
        /\ Commit(SyncEntitlements(
             [r EXCEPT !.sub = PurchaseSub(p, plan, s, periodStart, until),
                       !.pay[p] = PurchaseCard(p, plan, inParts, s, from, until)]))
        /\ UNCHANGED <<day, policy, decisions, promised>>
  BY DEF SubmitRecharge, PurchaseSub, PurchaseCard
<1>2. /\ RowsOK(r) /\ CardsOK(r) /\ r.sub.prov = 0
      /\ \A c \in Cards : r.pay[c].review # "pending"
      /\ \A c \in Cards : r.pay[c].status = "none" <=> pay[c].status = "none"
      /\ policy => CoveredDates(r, promised, r.sub)
      /\ decisions = 0 => InOrder(r)
      /\ KeysOK(r) /\ (decisions = 0 => Fresh(r, r.sub))
  BY <1>1, PurchaseRows
<1>3. /\ p \in Cards /\ p \in Nat \ {0} /\ r.pay[p].status = "none"
      /\ \A c \in Cards : c < p => r.pay[c].status # "none"
      /\ \A c \in Cards : c > p => r.pay[c].status = "none"
  BY <1>1, <1>2, NextCard
<1>4. day \in Nat \ {0} /\ PaymentsTypeOK /\ promised \in Nat /\ decisions \in Nat
  BY StartingFacts
<1> HIDE DEF r
<1>5. s \in SubType
  BY <1>2 DEF RowsOK
<1>6. from \in Nat /\ until \in Nat /\ periodStart \in Nat
  <2>1. from \in Nat
    BY <1>2, <1>4, <1>5, PaidFromFollows
  <2>2. until \in Nat
    BY <2>1, PaidUntilType
  <2> HIDE DEF from, until
  <2>3. QED
    BY <1>5, <2>1, <2>2 DEF SubType
<1>7. decisions = 0 => EndsLast(r, s) /\ \A c \in Bought(r) : r.pay[c].until <= from
  BY <1>2, <1>4, <1>5, PaidFromFollows DEF InOrder
<1>22. s.status # "suspended" /\ Running(s) => s.end <= from
  BY <1>4, <1>5, PaidFromRunning
<1> HIDE DEF from, until, periodStart
<1> DEFINE card == PurchaseCard(p, plan, inParts, s, from, until)
           bought == PurchaseSub(p, plan, s, periodStart, until)
           q0 == [r EXCEPT !.pay[p] = card]
           q == [q0 EXCEPT !.sub = bought]
           R == SyncEntitlements(q)
<1>8. /\ card \in CardType
      /\ card.status = "pending" /\ card.review = "pending" /\ card.number \in {0, 1}
      /\ card.number = 0 => card.of = 0 /\ card.agreement = "none"
      /\ card.number = 1 => card.of = p
      /\ card.from = from /\ card.until = until /\ card.prev = s
  BY <1>3, <1>4, <1>5, <1>6, PurchaseCardType
<1>9. /\ bought \in SubType
      /\ bought.status = "active" /\ bought.reason = "other" /\ bought.prov = p
      /\ bought.end = until /\ until <= bought.grace /\ bought.trialEnd = s.trialEnd
  <2> HIDE DEF s
  <2>1. p \in Cards /\ day \in Nat /\ s \in SubType /\ periodStart \in Nat /\ until \in Nat
    BY <1>3, <1>4, <1>5, <1>6
  <2>2. until <= bought.grace
    BY <2>1, PurchaseSubType
  <2>3. bought.end = until
    BY <2>1, PurchaseSubType
  <2>4. QED
    BY <2>1, <2>2, <2>3, PurchaseSubType
<1>10. Commit(R)
  <2> HIDE DEF card, bought, s
  <2>1. [r EXCEPT !.sub = bought, !.pay[p] = card] = q
    BY <1>2, <1>3 DEF RowsOK
  <2>2. QED
    BY <1>1, <2>1 DEF card, bought, s
<1> HIDE DEF card, bought
<1>11. /\ RowsOK(q0) /\ q0.pay[p] = card /\ q0.ended = r.ended
       /\ \A c \in Cards : c # p => q0.pay[c] = r.pay[c]
  BY <1>2, <1>3, <1>8, WithCard
<1> HIDE DEF q0
<1>12. /\ RowsOK(q) /\ q.sub = bought /\ q.pay[p] = card /\ q.ended = r.ended
       /\ \A c \in Cards : c # p => q.pay[c] = r.pay[c]
  <2>1. RowsOK(q) /\ q.sub = bought /\ q.pay = q0.pay /\ q.ended = r.ended
    BY <1>9, <1>11, WithSub
  <2>2. QED
    BY <1>11, <2>1
<1> HIDE DEF q
<1>13. CardsOK(q)
  BY <1>2, <1>3, <1>8, <1>12, SentCard
<1>14. OwnsReview(q)
  <2>1. s.status # "none"
    BY <1>1 DEF AllowedTransitions
  <2>2. \A c \in Cards : q.pay[c].review = "pending" /\ q.pay[c].number < 2 => q.sub.prov = c
    <3> SUFFICES ASSUME NEW c \in Cards, q.pay[c].review = "pending", q.pay[c].number < 2
                 PROVE  q.sub.prov = c
      OBVIOUS
    <3>1. CASE c = p
      BY <1>9, <1>12, <3>1
    <3>2. CASE c # p
      BY <1>2, <1>3, <1>12, <3>2 DEF OwnsReview
    <3>3. QED
      BY <3>1, <3>2
  <2>3. /\ q.pay[q.sub.prov].review = "pending"
        /\ q.pay[q.sub.prov].number < 2
        /\ q.sub.status = "active"
        /\ q.pay[q.sub.prov].prev.status # "none"
    BY <1>8, <1>9, <1>12, <2>1
  <2>4. QED
    BY <2>2, <2>3 DEF OwnsReview
<1>15. r.pay[p].review = "none"
  BY <1>2, <1>3 DEF CardsOK
<1>16. policy => DatesCovered(q, promised)
  <2> SUFFICES ASSUME policy PROVE DatesCovered(q, promised)
    OBVIOUS
  <2>1. \A t : Covered(r, promised, t) => Covered(q, promised, t)
    BY <1>8, <1>9, <1>12, <1>15 DEF Covered
  <2>2. CoveredDates(q, promised, s)
    BY <1>2, <2>1 DEF CoveredDates
  <2>3. QED
    BY <1>3, <1>8, <1>9, <1>12, <2>2 DEF DatesCovered
<1>17. policy => PaidRows(R, promised)
  BY <1>4, <1>12, <1>16, SyncCovered
<1>18. decisions = 0 => InOrder(q)
  <2> SUFFICES ASSUME decisions = 0 PROVE InOrder(q)
    OBVIOUS
  <2>1. Bought(q) = Bought(r)
    BY <1>3, <1>8, <1>12, <1>15 DEF Bought
  <2>2. \A c \in Bought(r) : c \in Cards /\ q.pay[c] = r.pay[c]
    BY <1>12, <1>15 DEF Bought
  <2>3. \A c, d \in Bought(q) : c < d => q.pay[c].until <= q.pay[d].from
    BY <1>2, <2>1, <2>2 DEF InOrder
  <2>4. EndsLast(q, card.prev)
    BY <1>7, <1>8, <2>1, <2>2 DEF EndsLast
  <2>5. \A c \in Bought(q) : q.pay[c].until <= card.from
    BY <1>7, <1>8, <2>1, <2>2
  <2>6. card.from < card.until /\ q.sub.end = card.until /\ q.sub.end <= q.sub.grace
    BY <1>1, <1>6, <1>8, <1>9, <1>12
  <2>7. q.sub.prov = p /\ p # 0
    BY <1>3, <1>9, <1>12
  <2>8. QED
    BY <1>12, <2>3, <2>4, <2>5, <2>6, <2>7 DEF InOrder
<1>19. HeldForReason(q)
  BY <1>9, <1>12 DEF HeldForReason, HeldBack
<1>23. KeysOK(q)
  BY <1>2, <1>12 DEF KeysOK
<1>24. decisions = 0 => FreshRows(q)
  <2> SUFFICES ASSUME decisions = 0 PROVE FreshRows(q)
    OBVIOUS
  <2>1. Fresh(q, q.sub) /\ Running(q.sub)
    BY <1>9, <1>12 DEF Fresh, Running
  <2>2. Fresh(q, s)
    BY <1>2, <1>12 DEF Fresh
  <2>3. s.reason = "installment" => s.end <= from
    <3>1. s.status # "suspended"
      BY <1>1 DEF MayBuy
    <3>2. QED
      BY <1>2, <1>22, <3>1 DEF Fresh
  <2>4. QED
    BY <1>8, <1>9, <1>12, <2>1, <2>2, <2>3 DEF FreshRows
<1>20. GoodRows(R)
  <2>0. KeysOK(R) /\ (decisions = 0 => FreshRows(R))
    BY <1>12, <1>23, <1>24, SyncFresh
  <2>1. Kept(q, R) /\ RowsOK(R)
    BY <1>12, SyncKept, SyncRows
  <2>2. CardsOK(R) /\ OwnsReview(R) /\ (decisions = 0 => InOrder(R))
    BY <1>12, <1>13, <1>14, <1>18, <2>1, KeptInvariants
  <2>3. HeldForReason(R) \/ Recorded(R)
    BY <1>12, <1>19, SyncHolds
  <2> HIDE DEF R
  <2>4. QED
    BY <1>1, <1>17, <2>0, <2>1, <2>2, <2>3 DEF GoodRows
<1> HIDE DEF R
<1>21. QED
  BY <1>1, <1>4, <1>10, <1>20, GoodCommit

\* The first part of an agreement that is open and not under review is paid.
LEMMA FirstPartPaid ==
  ASSUME NEW r, RowsOK(r), CardsOK(r), NEW a \in ActiveAgreements(r),
         r.pay[a].review # "pending"
  PROVE  a \in Cards /\ NextNumber(r, a) \in {0, 2}
<1>1. /\ a \in Cards /\ r.pay[a].review = "approved" /\ r.pay[a].status = "succeeded"
      /\ r.pay[a].number = 1 /\ r.pay[a].of = a
  BY DEF ActiveAgreements, CardsOK
<1>2. a \in PaymentsOf(r, a)
  BY <1>1 DEF PaymentsOf
<1>3. 1 \in PaidNumbers(r, a)
  BY <1>1, <1>2 DEF PaidNumbers
<1>4. QED
  BY <1>1, <1>3, NextNumberCases DEF Installments

\* Rows that rest on no card, refreshed.
LEMMA RefreshedGood ==
  ASSUME NEW q, RowsOK(q), CardsOK(q), OwnsReview(q), day \in Nat \ {0},
         promised' = promised, decisions' = decisions,
         policy => PaidRows(q, promised),
         decisions = 0 => InOrder(q),
         HeldForReason(q) \/ Recorded(q) \/ ~Skips(q),
         KeysOK(q), ~Loops(q), q.sub.prov = 0, decisions = 0 => Fresh(q, q.sub)
  PROVE  GoodRows(RefreshSubscription(q))
<1> DEFINE R == RefreshSubscription(q)
<1>1. Kept(q, R) /\ RowsOK(R)
  BY RefreshKept DEF Kept
<1>2. CardsOK(R) /\ OwnsReview(R) /\ (decisions = 0 => InOrder(R))
  BY <1>1, KeptInvariants
<1>3. policy => PaidRows(R, promised)
  BY RefreshCovered
<1>4. HeldForReason(R) \/ Recorded(R)
  BY RefreshHolds
<1>5. KeysOK(R) /\ (decisions = 0 => FreshRows(R))
  <2>1. Resting(q) /\ (decisions = 0 => FreshRows(q))
    BY DEF Resting, FreshRows
  <2>2. QED
    BY <2>1, RefreshFresh
<1> HIDE DEF R
<1>6. GoodRows(R)
  BY <1>1, <1>2, <1>3, <1>4, <1>5 DEF GoodRows
<1>7. QED
  BY <1>6 DEF R

LEMMA SubmitInstallmentInv ==
  ASSUME PaymentsInv, SubmitInstallment
  PROVE  PaymentsInv'
<1> DEFINE r == RefreshSubscription(Rows)
           Part(a) == [NoCard EXCEPT
                         !.status = "pending", !.review = "pending", !.plan = r.sub.plan,
                         !.number = NextNumber(r, a), !.of = a, !.at = day,
                         !.from = r.sub.start, !.until = r.sub.end, !.prev = r.sub]
<1>1. PICK p \in Unused, a \in ActiveAgreements(Rows) :
        /\ p = Earliest(Unused) /\ UnderReview = {} /\ ~Loops(Rows) /\ MayPayPart(r, a)
        /\ Commit(RefreshSubscription([r EXCEPT !.pay[p] = Part(a)]))
        /\ UNCHANGED <<day, policy, decisions, promised>>
  BY DEF SubmitInstallment, WithPart
<1>2. /\ RowsOK(Rows) /\ CardsOK(Rows) /\ OwnsReview(Rows) /\ Rows.pay = pay /\ Rows.sub = sub
      /\ PaymentsTypeOK /\ day \in Nat \ {0} /\ promised \in Nat /\ decisions \in Nat
      /\ policy => PaidRows(Rows, promised)
      /\ decisions = 0 => InOrder(Rows)
  BY StartingFacts
<1>3. Kept(Rows, r) /\ RowsOK(r)
  BY <1>2, RefreshKept DEF Kept
<1>4. policy => PaidRows(r, promised)
  BY <1>2, RefreshCovered
<1>22. KeysOK(r) /\ ~Loops(r) /\ (decisions = 0 => Fresh(r, r.sub))
  BY <1>1, <1>2, StartingFacts, RefreshFresh DEF FreshRows
<1>5. CardsOK(r) /\ OwnsReview(r) /\ (decisions = 0 => InOrder(r))
  BY <1>2, <1>3, KeptInvariants
<1>6. \A c \in Cards : pay[c].review # "pending"
  BY <1>1 DEF UnderReview
<1>7. /\ \A c \in Cards : r.pay[c].review # "pending"
      /\ \A c \in Cards : r.pay[c].status = "none" <=> pay[c].status = "none"
  BY <1>2, <1>3, <1>6 DEF Kept, SameCard
<1> HIDE DEF r
<1>8. r.sub \in SubType /\ r.sub.prov = 0
  <2>1. r.sub \in SubType /\ (r.sub.prov # 0 => r.sub.prov \in Cards)
    BY <1>3, ReviewCard DEF RowsOK
  <2>2. QED
    BY <1>5, <1>7, <2>1 DEF OwnsReview
<1>9. /\ p \in Cards /\ p \in Nat \ {0} /\ r.pay[p].status = "none"
      /\ \A c \in Cards : c < p => r.pay[c].status # "none"
      /\ \A c \in Cards : c > p => r.pay[c].status = "none"
  BY <1>1, <1>5, <1>7, NextCard
<1>10. a \in Cards /\ NextNumber(r, a) = 2
  <2>1. a \in Cards /\ NextNumber(Rows, a) \in {0, 2}
    <3>1. a \in Cards
      BY DEF ActiveAgreements
    <3>2. QED
      BY <1>2, <1>6, <3>1, FirstPartPaid
  <2>2. NextNumber(r, a) = NextNumber(Rows, a)
    BY <1>3, <2>1, KeptHolds
  <2>3. QED
    BY <1>1, <2>1, <2>2 DEF MayPayPart
<1> DEFINE card == Part(a)
           q == [r EXCEPT !.pay[p] = card]
           R == RefreshSubscription(q)
<1>11. /\ card \in CardType
       /\ card.status = "pending" /\ card.review = "pending" /\ card.number = 2
       /\ card.agreement = "none"
  <2>1. r.sub.plan \in Plans
    BY <1>1, <1>3, <1>10 DEF MayPayPart, RowsOK, CardType
  <2>2. /\ a \in 0..MaxPayments /\ 2 \in 0..Installments /\ day \in Nat
        /\ r.sub.start \in Nat /\ r.sub.end \in Nat
    BY <1>2, <1>8, <1>10, PaymentsAssumption DEF Cards, Installments, SubType
  <2>3. QED
    BY <1>8, <1>10, <2>1, <2>2, NoCardType DEF CardType
<1> HIDE DEF card
<1>12. /\ RowsOK(q) /\ q.sub = r.sub /\ q.ended = r.ended /\ q.pay[p] = card
       /\ \A c \in Cards : c # p => q.pay[c] = r.pay[c]
  BY <1>3, <1>9, <1>11, WithCard
<1> HIDE DEF q
<1>13. CardsOK(q)
  BY <1>5, <1>7, <1>9, <1>11, <1>12, SentCard
<1>14. OwnsReview(q)
  BY <1>5, <1>7, <1>8, <1>9, <1>11, <1>12 DEF OwnsReview
<1>15. r.pay[p].review = "none"
  BY <1>5, <1>9 DEF CardsOK
<1>16. policy => PaidRows(q, promised)
  <2> SUFFICES ASSUME policy PROVE PaidRows(q, promised)
    OBVIOUS
  <2>1. \A t : Covered(r, promised, t) => Covered(q, promised, t)
    BY <1>11, <1>12, <1>15 DEF Covered
  <2>2. CoveredDates(r, promised, r.sub)
    BY <1>4, <1>8 DEF PaidRows, DatesCovered
  <2>3. CoveredDates(q, promised, q.sub)
    BY <1>12, <2>1, <2>2 DEF CoveredDates
  <2>4. QED
    BY <1>8, <1>12, <2>3 DEF PaidRows, DatesCovered, GrantCovered
<1>17. decisions = 0 => InOrder(q)
  <2> SUFFICES ASSUME decisions = 0 PROVE InOrder(q)
    OBVIOUS
  <2>1. Bought(q) = Bought(r)
    BY <1>9, <1>11, <1>12, <1>15 DEF Bought
  <2>2. \A c \in Bought(r) : c \in Cards /\ q.pay[c] = r.pay[c]
    BY <1>12, <1>15 DEF Bought
  <2>3. QED
    BY <1>5, <1>8, <1>12, <2>1, <2>2 DEF InOrder, EndsLast
<1>18. ~Skips(q)
  <2>1. \A c \in Cards : r.pay[c].status # "pending"
    BY <1>5, <1>7 DEF CardsOK
  <2>2. QED
    BY <1>9, <1>11, <1>12, <2>1 DEF Skips
<1>23. KeysOK(q) /\ ~Loops(q) /\ (decisions = 0 => Fresh(q, q.sub)) /\ q.sub.prov = 0
  BY <1>8, <1>12, <1>22 DEF KeysOK, Loops, Fresh
<1>19. Commit(R)
  BY <1>1 DEF q, card
<1>20. GoodRows(R)
  BY <1>1, <1>2, <1>12, <1>13, <1>14, <1>16, <1>17, <1>18, <1>23, RefreshedGood
<1> HIDE DEF R
<1>21. QED
  BY <1>1, <1>2, <1>19, <1>20, GoodCommit

-----------------------------------------------------------------------------
(* Reviewing a card *)

\* The row a review leaves to be settled.
LeftBy(p, s) == IF Owns(p) THEN [s EXCEPT !.prov = 0] ELSE sub

\* The card under review is the one the row rests on, or the row rests on none.
LEMMA ReviewFacts ==
  ASSUME PaymentsInv, NEW p \in UnderReview
  PROVE  /\ p \in Cards /\ p \in Nat \ {0} /\ pay[p] \in CardType
         /\ pay[p].review = "pending" /\ pay[p].status = "pending"
         /\ \A c \in Cards : c # p => pay[c].review # "pending"
         /\ \A c \in Cards : pay[c].review = "approved" => c < p
         /\ Owns(p) => /\ pay[p].number < 2 /\ sub.status \notin {"trialing", "none"}
                       /\ pay[p].prev \in SubType /\ pay[p].prev.status # "none"
         /\ ~Owns(p) => pay[p].number = 2 /\ sub.prov = 0
<1>1. /\ CardsOK(Rows) /\ OwnsReview(Rows) /\ Rows.pay = pay /\ Rows.sub = sub
      /\ pay \in [Cards -> CardType] /\ sub \in SubType
  BY StartingFacts
<1>2. p \in Cards /\ p \in Nat \ {0} /\ Cards \subseteq Nat /\ pay[p].review = "pending"
  BY PaymentsAssumption DEF UnderReview, Cards
<1>3. pay[p] \in CardType /\ pay[p].status = "pending" /\ pay[p].number \in 0..2
  BY <1>1, <1>2 DEF CardsOK, CardType, Installments
<1>4. \A c \in Cards : c # p => pay[c].review # "pending"
  BY <1>1, <1>2, OneUnderReview
<1>5. \A c \in Cards : pay[c].review = "approved" => c < p
  <2>1. \A c \in Cards : c > p => pay[c].status = "none"
    BY <1>1, <1>2, <1>3 DEF CardsOK
  <2>2. \A c \in Cards : c > p => pay[c].review = "none"
    BY <1>1, <2>1 DEF CardsOK
  <2>3. \A c \in Cards : pay[c].review = "approved" => c # p /\ ~(c > p)
    <3> SUFFICES ASSUME NEW c \in Cards, pay[c].review = "approved" PROVE c # p /\ ~(c > p)
      OBVIOUS
    <3>1. c # p
      BY <1>2
    <3>2. ~(c > p)
      BY <2>2
    <3>3. QED
      BY <3>1, <3>2
  <2>4. \A c \in Cards : c # p /\ ~(c > p) => c < p
    <3> SUFFICES ASSUME NEW c \in Cards PROVE c # p /\ ~(c > p) => c < p
      OBVIOUS
    <3>1. c \in Nat /\ p \in Nat
      BY <1>2
    <3>2. QED
      BY <3>1
  <2>5. QED
    BY <2>3, <2>4
<1>6. Owns(p) => /\ pay[p].number < 2 /\ sub.status \notin {"trialing", "none"}
                 /\ pay[p].prev \in SubType /\ pay[p].prev.status # "none"
  BY <1>1, <1>2, <1>3 DEF Owns, OwnsReview, CardType
<1>7. ~Owns(p) => pay[p].number = 2 /\ sub.prov = 0
  <2>1. sub.prov # 0 => sub.prov \in Cards
    BY <1>1, ReviewCard
  <2>2. ASSUME ~Owns(p) PROVE pay[p].number = 2
    <3>1. ~(pay[p].number < 2)
      BY <1>1, <1>2, <2>2 DEF Owns, OwnsReview
    <3>2. QED
      BY <1>3, <3>1
  <2>3. ASSUME ~Owns(p) PROVE sub.prov = 0
    BY <1>1, <1>4, <2>1, <2>3 DEF Owns, OwnsReview
  <2>4. QED
    BY <2>2, <2>3
<1>8. QED
  BY <1>2, <1>3, <1>4, <1>5, <1>6, <1>7

\* A card that has been reviewed.
ReviewedCard(p, card) ==
  /\ card.of = pay[p].of /\ card.number = pay[p].number
  /\ card.status \in {"succeeded", "failed"} /\ card.review \in {"approved", "rejected"}
  /\ card.review = "approved" => card.status = "succeeded"
  /\ card.agreement = "active" => card.review = "approved" /\ pay[p].agreement = "active"

\* The rows of the account with the reviewed card, before they are refreshed.
ReviewedRows(q, p, t, card) ==
  /\ RowsOK(q) /\ q.sub = t /\ q.ended = ended
  /\ q.pay[p] = card /\ \A c \in Cards : c # p => q.pay[c] = pay[c]

\* Settling the subscription and saving the card in the order of the code
\* keeps of these rows what Kept says.
LEMMA SettledKept ==
  ASSUME PaymentsInv, NEW p \in UnderReview, NEW s \in SubType, NEW card \in CardType,
         NEW q, ReviewedRows(q, p, LeftBy(p, s), card)
  PROVE  LET Q == SettledSub(p, s)
             r == [Q EXCEPT !.pay[p] = card]
         IN /\ RowsOK(Q) /\ SameCard(pay[p], Q.pay[p])
            /\ RowsOK(r) /\ Kept(q, r) /\ r.sub = Q.sub /\ r.ended = Q.ended /\ r.pay[p] = card
            /\ \A c \in Cards : c # p => r.pay[c] = Q.pay[c]
<1> DEFINE t == LeftBy(p, s)
           q0 == [Rows EXCEPT !.sub = t]
           Q == SettledSub(p, s)
           r == [Q EXCEPT !.pay[p] = card]
<1>1. /\ RowsOK(Rows) /\ Rows.pay = pay /\ Rows.sub = sub /\ Rows.ended = ended
      /\ sub \in SubType /\ day \in Nat \ {0} /\ p \in Cards
  BY StartingFacts, ReviewFacts
<1>2. t \in SubType
  <2>1. 0 \in 0..MaxPayments
    BY PaymentsAssumption
  <2>2. QED
    BY <1>1, <2>1 DEF LeftBy, SubType
<1>3. RowsOK(q0) /\ q0.sub = t /\ q0.pay = pay /\ q0.ended = ended
  BY <1>1, <1>2, WithSub
<1>4. Kept(q0, Q)
  <2>1. CASE Owns(p)
    <3>1. Q = SyncEntitlements(RefreshSubscription(q0))
      BY <2>1 DEF SettledSub, LeftBy
    <3> HIDE DEF q0
    <3>2. Kept(q0, RefreshSubscription(q0)) /\ RowsOK(RefreshSubscription(q0))
      BY <1>1, <1>3, RefreshKept DEF Kept
    <3>3. QED
      BY <3>1, <3>2, SyncKept, KeptTransitive
  <2>2. CASE ~Owns(p)
    <3>1. Q = Rows
      BY <2>2 DEF SettledSub
    <3>2. q0 = Rows
      BY <1>1, <2>2 DEF LeftBy, RowsOK
    <3>3. QED
      BY <1>1, <3>1, <3>2, KeptReflexive
  <2>3. QED
    BY <2>1, <2>2
<1> HIDE DEF q0, Q, t
<1>5. RowsOK(Q) /\ SameCard(pay[p], Q.pay[p])
  BY <1>1, <1>3, <1>4 DEF Kept
<1>6. /\ RowsOK(r) /\ r.sub = Q.sub /\ r.ended = Q.ended /\ r.pay[p] = card
      /\ \A c \in Cards : c # p => r.pay[c] = Q.pay[c]
  BY <1>1, <1>5, WithCard
<1> HIDE DEF r
<1>7. q.sub = q0.sub /\ q.ended = q0.ended /\ q.pay[p] = card
      /\ \A c \in Cards : c # p => q.pay[c] = q0.pay[c]
  BY <1>3 DEF ReviewedRows, t
<1>8. \A c \in Cards : SameCard(q.pay[c], r.pay[c])
  <2> SUFFICES ASSUME NEW c \in Cards PROVE SameCard(q.pay[c], r.pay[c])
    OBVIOUS
  <2>1. CASE c = p
    BY <1>6, <1>7, <2>1 DEF SameCard
  <2>2. CASE c # p
    BY <1>4, <1>6, <1>7, <2>2 DEF Kept
  <2>3. QED
    BY <2>1, <2>2
<1>9. Kept(q, r)
  BY <1>4, <1>6, <1>7, <1>8 DEF Kept
<1>10. QED
  BY <1>5, <1>6, <1>9 DEF Q, r

\* A card that is no part of an agreement is not read by a hold.
LEMMA OtherCard ==
  ASSUME NEW Q, NEW r, NEW p \in Cards, Q.pay[p].of = 0, r.pay[p].of = 0,
         \A c \in Cards : c # p => r.pay[c] = Q.pay[c], NEW a \in Cards
  PROVE  HoldsBack(Q, a) => HoldsBack(r, a) \/ a = p
<1>1. a # 0 /\ 0 \notin Cards
  BY PaymentsAssumption DEF Cards
<1>2. \A c \in PaymentsOf(Q, a) : c # p /\ r.pay[c] = Q.pay[c] /\ c \in Cards
  BY <1>1 DEF PaymentsOf
<1>3. PaymentsOf(r, a) = PaymentsOf(Q, a)
  BY <1>1 DEF PaymentsOf
<1>4. PaidNumbers(r, a) = PaidNumbers(Q, a)
  BY <1>2, <1>3 DEF PaidNumbers
<1>5. NextNumber(r, a) = NextNumber(Q, a)
  BY <1>4 DEF NextNumber
<1>6. a # p => \A n : DueAt(r, a, n) = DueAt(Q, a, n)
  BY DEF DueAt
<1>7. ASSUME a # p, HoldsBack(Q, a) PROVE HoldsBack(r, a)
  BY <1>2, <1>3, <1>5, <1>6, <1>7 DEF HoldsBack
<1>8. QED
  BY <1>7

LEMMA ReviewGood ==
  ASSUME PaymentsInv, NEW p \in UnderReview, NEW s \in SubType, NEW card \in CardType,
         ReviewedCard(p, card), NEW q, ReviewedRows(q, p, LeftBy(p, s), card),
         promised' = promised, decisions' = decisions,
         Owns(p) => s.status # "none",
         policy => CoveredDates(q, promised, q.sub),
         decisions = 0 => InOrder(q) /\ Fresh(q, q.sub),
         ReviewReturns(p, s), ~Loops([SettledSub(p, s) EXCEPT !.pay[p] = card])
  PROVE  GoodRows(SettledPart([SettledSub(p, s) EXCEPT !.pay[p] = card], p))
<1> DEFINE Q == SettledSub(p, s)
           r == [Q EXCEPT !.pay[p] = card]
           R == SettledPart(r, p)
<1>1. /\ p \in Cards /\ p \in Nat \ {0} /\ pay[p] \in CardType
      /\ pay[p].review = "pending" /\ pay[p].status = "pending"
      /\ \A c \in Cards : c # p => pay[c].review # "pending"
      /\ ~Owns(p) => sub.prov = 0
  BY ReviewFacts
<1>2. /\ RowsOK(Rows) /\ CardsOK(Rows) /\ OwnsReview(Rows) /\ Rows.pay = pay /\ Rows.sub = sub
      /\ Rows.ended = ended /\ sub \in SubType /\ day \in Nat \ {0}
      /\ HeldForReason(Rows) \/ Recorded(Rows)
  BY StartingFacts
<1>3. /\ RowsOK(q) /\ q.sub = LeftBy(p, s) /\ q.pay[p] = card
      /\ \A c \in Cards : c # p => q.pay[c] = pay[c]
  BY DEF ReviewedRows
<1>4. q.sub.prov = 0 /\ (q.sub.status = "none" => q.sub = sub /\ ~Owns(p))
  <2>1. CASE Owns(p)
    BY <1>3, <2>1 DEF LeftBy, SubType
  <2>2. CASE ~Owns(p)
    BY <1>1, <1>3, <2>2 DEF LeftBy
  <2>3. QED
    BY <2>1, <2>2
<1>5. CardsOK(q)
  <2> SUFFICES ASSUME NEW c \in Cards
               PROVE  LET k == q.pay[c]
                      IN /\ k.status = "none" <=> k.review = "none"
                         /\ k.status = "pending" <=> k.review = "pending"
                         /\ k.review = "approved" => k.status = "succeeded"
                         /\ k.status = "none" => k.agreement = "none"
                         /\ k.agreement = "active" => /\ k.review \in {"pending", "approved"}
                                                      /\ k.number = 1 /\ k.of = c
                         /\ k.number = 0 => k.of = 0
                         /\ k.number = 1 => k.of = c
                         /\ k.status \in {"none", "pending"} =>
                              \A d \in Cards : d > c => q.pay[d].status = "none"
    BY DEF CardsOK
  <2>1. LET k == pay[c]
        IN /\ k.status = "none" <=> k.review = "none"
           /\ k.status = "pending" <=> k.review = "pending"
           /\ k.review = "approved" => k.status = "succeeded"
           /\ k.status = "none" => k.agreement = "none"
           /\ k.agreement = "active" => /\ k.review \in {"pending", "approved"}
                                        /\ k.number = 1 /\ k.of = c
           /\ k.number = 0 => k.of = 0
           /\ k.number = 1 => k.of = c
           /\ k.status \in {"none", "pending"} =>
                \A d \in Cards : d > c => pay[d].status = "none"
    BY <1>2 DEF CardsOK
  <2>2. CASE c = p
    BY <1>1, <1>3, <2>1, <2>2 DEF ReviewedCard
  <2>3. CASE c # p
    <3>1. q.pay[c] = pay[c] /\ pay[c].status # "pending"
      BY <1>1, <1>3, <2>1, <2>3
    <3>2. pay[c].status = "none" => \A d \in Cards : d > c => q.pay[d].status = "none"
      BY <1>1, <1>3, <2>1
    <3>3. QED
      BY <2>1, <3>1, <3>2
  <2>4. QED
    BY <2>2, <2>3
<1>6. \A c \in Cards : q.pay[c].review # "pending"
  BY <1>1, <1>3 DEF ReviewedCard
<1>7. OwnsReview(q)
  BY <1>2, <1>4, <1>6 DEF OwnsReview
<1>8. /\ RowsOK(Q) /\ SameCard(pay[p], Q.pay[p])
      /\ RowsOK(r) /\ Kept(q, r) /\ r.sub = Q.sub /\ r.ended = Q.ended /\ r.pay[p] = card
      /\ \A c \in Cards : c # p => r.pay[c] = Q.pay[c]
  BY SettledKept
<1>9. R = IF r.pay[p].of # 0 THEN RefreshSubscription(r) ELSE r
  BY DEF SettledPart
<1>16. KeysOK(Q) /\ (decisions = 0 => Fresh(Q, Q.sub))
  <2>0. KeysOK(Rows) /\ q.ended = ended
    BY StartingFacts DEF ReviewedRows
  <2>1. CASE Owns(p)
    <3> DEFINE t == [s EXCEPT !.prov = 0]
               q0 == [Rows EXCEPT !.sub = t]
               u == [Rows EXCEPT !.sub = s]
    <3>1. Q = SyncEntitlements(RefreshSubscription(q0))
      BY <2>1 DEF SettledSub
    <3>2. t \in SubType /\ t.prov = 0 /\ t.status = s.status /\ t.end = s.end
      BY PaymentsAssumption DEF SubType
    <3>3. q.sub = t
      BY <1>3, <2>1 DEF LeftBy
    <3> HIDE DEF t
    <3>4. RowsOK(q0) /\ q0.sub = t /\ q0.ended = ended
      BY <1>2, <3>2, WithSub
    <3>5. RowsOK(u) /\ u.sub = s /\ u.ended = ended /\ ~Loops(u)
      BY <1>2, <2>1, WithSub DEF ReviewReturns
    <3> HIDE DEF q0, u
    <3>6. KeysOK(q0)
      BY <1>2, <2>0, <3>4 DEF KeysOK
    <3>7. ~Loops(q0)
      BY <3>2, <3>4, <3>5 DEF Loops, PeriodOver
    <3>8. Resting(q0) /\ (decisions = 0 => FreshRows(q0))
      BY <2>0, <3>2, <3>3, <3>4 DEF Resting, FreshRows, Fresh
    <3>9. RowsOK(RefreshSubscription(q0))
      BY <1>2, <3>4, RefreshKept DEF Kept
    <3>10. KeysOK(Q) /\ (decisions = 0 => FreshRows(Q))
      BY <1>2, <3>1, <3>4, <3>6, <3>7, <3>8, <3>9, RefreshFresh, SyncFresh
    <3>11. QED
      BY <3>10 DEF FreshRows
  <2>2. CASE ~Owns(p)
    BY <2>2, StartingFacts DEF SettledSub, FreshRows
  <2>3. QED
    BY <2>1, <2>2
<1>17. KeysOK(r) /\ ~Loops(r) /\ (decisions = 0 => Fresh(r, r.sub))
  BY <1>8, <1>16 DEF KeysOK, Fresh
<1> HIDE DEF r, R
<1>10. CardsOK(r) /\ OwnsReview(r) /\ (decisions = 0 => InOrder(r)) /\ r.sub.prov = 0
  BY <1>3, <1>4, <1>5, <1>7, <1>8, KeptInvariants DEF Kept
<1>11. policy => PaidRows(r, promised)
  <2> SUFFICES ASSUME policy PROVE PaidRows(r, promised)
    OBVIOUS
  <2>1. DatesCovered(q, promised)
    BY <1>4 DEF DatesCovered
  <2>2. DatesCovered(r, promised)
    BY <1>3, <1>8, <2>1, KeptCovered
  <2>3. QED
    BY <1>10, <2>2 DEF PaidRows, GrantCovered
<1>12. ~Skips(r)
  <2>1. \A c \in Cards : r.pay[c].review # "pending"
    BY <1>6, <1>8 DEF Kept, SameCard
  <2>2. \A c \in Cards : r.pay[c].status # "pending"
    BY <1>10, <2>1 DEF CardsOK
  <2>3. QED
    BY <2>2 DEF Skips
<1>13. CASE r.pay[p].of # 0
  <2>1. R = RefreshSubscription(r)
    BY <1>9, <1>13
  <2>2. GoodRows(RefreshSubscription(r))
    BY <1>2, <1>8, <1>10, <1>11, <1>12, <1>17, RefreshedGood
  <2>3. QED
    BY <2>1, <2>2 DEF R, r
<1>14. CASE r.pay[p].of = 0
  <2>1. R = r
    BY <1>9, <1>14
  <2>2. pay[p].of = 0 /\ Q.pay[p].of = 0
    BY <1>8, <1>14 DEF ReviewedCard, SameCard
  <2>3. pay[p].number # 1 /\ pay[p].agreement # "active"
    BY <1>1, <1>2, <2>2 DEF CardsOK
  <2>4. HeldForReason(Q) \/ Recorded(Q)
    <3>1. CASE Owns(p)
      <4> DEFINE q0 == [Rows EXCEPT !.sub = [s EXCEPT !.prov = 0]]
      <4>1. Q = SyncEntitlements(RefreshSubscription(q0))
        BY <3>1 DEF SettledSub
      <4>2. [s EXCEPT !.prov = 0] \in SubType
        BY PaymentsAssumption DEF SubType
      <4>3. RowsOK(q0) /\ q0.pay = pay
        BY <1>2, <4>2, WithSub
      <4> HIDE DEF q0
      <4>4. ~Skips(q0)
        <5>1. \A c \in Cards : c # p => pay[c].status # "pending"
          BY <1>1, <1>2 DEF CardsOK
        <5>2. QED
          BY <2>3, <4>3, <5>1 DEF Skips
      <4>5. RowsOK(RefreshSubscription(q0))
        BY <1>2, <4>3, RefreshKept DEF Kept
      <4>6. HeldForReason(RefreshSubscription(q0)) \/ Recorded(RefreshSubscription(q0))
        BY <1>2, <4>3, <4>4, RefreshHolds
      <4>7. QED
        BY <4>1, <4>5, <4>6, SyncHolds
    <3>2. CASE ~Owns(p)
      BY <1>2, <3>2 DEF SettledSub
    <3>3. QED
      BY <3>1, <3>2
  <2>5. HeldForReason(r) \/ Recorded(r)
    <3> HIDE DEF Q
    <3>1. CASE Recorded(Q)
      BY <1>8, <3>1 DEF Recorded
    <3>2. ASSUME HeldForReason(Q), HeldBack(r.sub)
          PROVE  \E a \in ActiveAgreements(r) : HoldsBack(r, a)
      <4>1. PICK a \in ActiveAgreements(Q) : HoldsBack(Q, a)
        BY <1>8, <3>2 DEF HeldForReason
      <4>2. a \in Cards /\ a # p
        BY <1>1, <1>8, <2>3 DEF ActiveAgreements, SameCard
      <4>3. a \in ActiveAgreements(r)
        BY <1>8, <4>1, <4>2 DEF ActiveAgreements
      <4>4. HoldsBack(r, a)
        BY <1>1, <1>8, <1>14, <2>2, <4>1, <4>2, OtherCard
      <4>5. QED
        BY <4>3, <4>4
    <3>3. QED
      BY <2>4, <3>1, <3>2 DEF HeldForReason
  <2>6. GoodRows(r)
    BY <1>8, <1>10, <1>11, <1>17, <2>5 DEF GoodRows, FreshRows
  <2>7. QED
    BY <2>1, <2>6 DEF R, r
<1>15. QED
  BY <1>13, <1>14

\* The rows with the reviewed card, and what they have bought and cover.
LEMMA ReviewedRowsIs ==
  ASSUME PaymentsInv, NEW p \in UnderReview, NEW t \in SubType, NEW card \in CardType
  PROVE  LET q0 == [Rows EXCEPT !.sub = t]
             q == [q0 EXCEPT !.pay[p] = card]
         IN ReviewedRows(q, p, t, card)
<1> DEFINE q0 == [Rows EXCEPT !.sub = t]
           q == [q0 EXCEPT !.pay[p] = card]
<1>1. RowsOK(Rows) /\ Rows.pay = pay /\ Rows.ended = ended /\ p \in Cards
  BY StartingFacts, ReviewFacts
<1>2. RowsOK(q0) /\ q0.sub = t /\ q0.pay = pay /\ q0.ended = ended
  BY <1>1, WithSub
<1> HIDE DEF q0
<1>3. /\ RowsOK(q) /\ q.sub = t /\ q.ended = ended /\ q.pay[p] = card
      /\ \A c \in Cards : c # p => q.pay[c] = pay[c]
  BY <1>1, <1>2, WithCard
<1> HIDE DEF q
<1>4. ReviewedRows(q, p, t, card)
  BY <1>3 DEF ReviewedRows
<1>5. QED
  BY <1>4 DEF q, q0

LEMMA ReviewedBought ==
  ASSUME PaymentsInv, NEW p \in UnderReview, NEW t \in SubType, NEW card,
         NEW q, ReviewedRows(q, p, t, card)
  PROVE  /\ \A c \in Bought(Rows) : c \in Bought(q) /\ c \in Cards /\ c < p /\ q.pay[c] = pay[c]
         /\ card.review = "approved" /\ card.number < 2 => Bought(q) = Bought(Rows) \cup {p}
         /\ ~ (card.review = "approved" /\ card.number < 2) => Bought(q) = Bought(Rows)
         /\ t.trialEnd = sub.trialEnd =>
              \A x : Covered(Rows, promised, x) => Covered(q, promised, x)
<1>1. /\ p \in Cards /\ p \in Nat \ {0} /\ pay[p].review = "pending"
      /\ \A c \in Cards : pay[c].review = "approved" => c < p
      /\ Rows.pay = pay /\ Rows.sub = sub
  BY StartingFacts, ReviewFacts
<1>2. q.sub = t /\ q.pay[p] = card /\ \A c \in Cards : c # p => q.pay[c] = pay[c]
  BY DEF ReviewedRows
<1>3. \A c \in Bought(Rows) : c \in Bought(q) /\ c \in Cards /\ c < p /\ c # p /\ q.pay[c] = pay[c]
  BY <1>1, <1>2 DEF Bought
<1>4. \A c \in Bought(q) : c # p => c \in Bought(Rows)
  BY <1>1, <1>2 DEF Bought
<1>5. p \in Bought(q) <=> card.review = "approved" /\ card.number < 2
  BY <1>1, <1>2 DEF Bought
<1>6. t.trialEnd = sub.trialEnd => \A x : Covered(Rows, promised, x) => Covered(q, promised, x)
  BY <1>1, <1>2 DEF Covered
<1>7. QED
  BY <1>3, <1>4, <1>5, <1>6

\* The review of a part leaves the row to the refresh.
LEMMA PartReviewed ==
  ASSUME PaymentsInv, NEW p \in UnderReview, NEW card, card.number = pay[p].number,
         NEW q, ReviewedRows(q, p, sub, card), ~Owns(p)
  PROVE  /\ policy => CoveredDates(q, promised, q.sub)
         /\ decisions = 0 => InOrder(q) /\ Fresh(q, q.sub)
<1>1. /\ Rows.sub = sub /\ Rows.pay = pay /\ sub \in SubType /\ sub.prov = 0 /\ card.number = 2
      /\ policy => PaidRows(Rows, promised)
      /\ decisions = 0 => InOrder(Rows)
  BY StartingFacts, ReviewFacts
<1>2. q.sub = sub
  BY DEF ReviewedRows
<1>3. policy => CoveredDates(q, promised, q.sub)
  BY <1>1, <1>2, ReviewedBought DEF PaidRows, DatesCovered, CoveredDates
<1>4. Bought(q) = Bought(Rows) /\ \A c \in Bought(Rows) : q.pay[c] = pay[c]
  BY <1>1, ReviewedBought
<1>5. decisions = 0 => InOrder(q)
  BY <1>1, <1>2, <1>4 DEF InOrder, EndsLast
<1>6. decisions = 0 => Fresh(q, q.sub)
  BY <1>2, StartingFacts DEF FreshRows, Fresh, ReviewedRows
<1>7. QED
  BY <1>3, <1>5, <1>6

LEMMA TakenBackFields ==
  ASSUME PaymentsInv, NEW p \in UnderReview, Owns(p)
  PROVE  LET s == TakenBack(p)
             prev == pay[p].prev
         IN /\ s \in SubType /\ s.status # "none"
            /\ \/ s = sub /\ sub.end # pay[p].until
               \/ s = prev
               \/ s.end = prev.end /\ s.grace = prev.grace /\ s.status = sub.status
                  /\ s.trialEnd = sub.trialEnd /\ s.reason = prev.reason
<1>1. sub \in SubType /\ pay[p].prev \in SubType /\ pay[p].prev.status # "none"
      /\ sub.status # "none"
  BY StartingFacts, ReviewFacts
<1> DEFINE prev == pay[p].prev
           early == [sub EXCEPT !.plan = prev.plan, !.start = prev.start, !.end = prev.end,
                                !.grace = prev.grace, !.reason = prev.reason]
<1>2. /\ early \in SubType /\ early.end = prev.end /\ early.grace = prev.grace
      /\ early.status = sub.status /\ early.trialEnd = sub.trialEnd
      /\ early.reason = prev.reason
  BY <1>1 DEF SubType
<1>3. \/ TakenBack(p) = early
      \/ TakenBack(p) = prev
      \/ TakenBack(p) = sub /\ sub.end # pay[p].until
  BY DEF TakenBack
<1> HIDE DEF early
<1>4. QED
  BY <1>1, <1>2, <1>3

LEMMA RejectInv ==
  ASSUME PaymentsInv, NEW p \in Cards, NEW collected \in BOOLEAN, Reject(p, collected)
  PROVE  PaymentsInv'
<1> DEFINE s == IF Owns(p) THEN TakenBack(p) ELSE sub
           Q == SettledSub(p, s)
           status == IF collected THEN "succeeded" ELSE "failed"
           card == Closed(Reviewed(Q.pay[p], status, "rejected"))
           t == LeftBy(p, s)
           q0 == [Rows EXCEPT !.sub = t]
           q == [q0 EXCEPT !.pay[p] = card]
           R == SettledPart([Q EXCEPT !.pay[p] = card], p)
<1>1. p \in UnderReview /\ UNCHANGED <<day, policy, decisions, promised>>
      /\ ReviewReturns(p, TakenBack(p))
  BY DEF Reject
<1>2. /\ PaymentsTypeOK /\ sub \in SubType /\ Rows.sub = sub /\ Rows.pay = pay /\ RowsOK(Rows)
      /\ promised \in Nat /\ decisions \in Nat /\ day \in Nat \ {0}
      /\ policy => PaidRows(Rows, promised)
      /\ decisions = 0 => InOrder(Rows)
  BY StartingFacts
<1>3. s \in SubType /\ (Owns(p) => s.status # "none")
  BY <1>1, <1>2, TakenBackFields
<1>4. SettledSub(p, TakenBack(p)) = Q
  BY DEF SettledSub
<1>5. RowsOK(Q) /\ Q.pay[p] \in CardType /\ SameCard(pay[p], Q.pay[p])
  <2>1. pay[p] \in CardType
    BY <1>1, ReviewFacts
  <2>2. t \in SubType
    BY <1>2, <1>3, PaymentsAssumption DEF LeftBy, SubType
  <2> DEFINE k == [q0 EXCEPT !.pay[p] = pay[p]]
  <2>3. ReviewedRows(k, p, t, pay[p])
    BY <1>1, <2>1, <2>2, ReviewedRowsIs
  <2> HIDE DEF k, s, Q
  <2>4. RowsOK(Q) /\ SameCard(pay[p], Q.pay[p])
    BY <1>1, <1>3, <2>1, <2>3, SettledKept DEF Q
  <2>5. QED
    BY <2>4 DEF RowsOK
<1>6. Commit(R) /\ ~Loops([Q EXCEPT !.pay[p] = card]) /\ ReviewReturns(p, s)
  <2>0. ReviewReturns(p, s)
    BY <1>1 DEF ReviewReturns
  <2> HIDE DEF s, status
  <2>1. [SettledSub(p, TakenBack(p)) EXCEPT !.pay[p] = Closed(Reviewed(@, status, "rejected"))]
          = [Q EXCEPT !.pay[p] = card]
    <3> HIDE DEF Q
    <3> QED BY <1>4, <1>5 DEF RowsOK
  <2>2. QED
    BY <2>0, <2>1 DEF Reject, status
<1>7. /\ card \in CardType /\ ReviewedCard(p, card) /\ card.review = "rejected"
  <2> DEFINE k == Reviewed(Q.pay[p], status, "rejected")
             agreement == IF k.agreement = "active" THEN "cancelled" ELSE k.agreement
  <2>1. status \in {"succeeded", "failed"}
    OBVIOUS
  <2> HIDE DEF Q, status
  <2>2. /\ k \in CardType /\ k.status = status /\ k.review = "rejected"
        /\ k.of = Q.pay[p].of /\ k.number = Q.pay[p].number
    BY <1>5, <2>1, TrialSubType DEF Reviewed, CardType
  <2>3. card = [k EXCEPT !.agreement = agreement]
    BY <2>2 DEF Closed, CardType
  <2>4. agreement \in {"none", "completed", "cancelled"}
    BY <2>2 DEF CardType
  <2> HIDE DEF k, agreement, card
  <2>5. /\ card \in CardType /\ card.status = status /\ card.review = "rejected"
        /\ card.of = Q.pay[p].of /\ card.number = Q.pay[p].number /\ card.agreement = agreement
    BY <2>2, <2>3, <2>4 DEF CardType
  <2>6. QED
    BY <1>5, <2>1, <2>4, <2>5 DEF ReviewedCard, SameCard
<1> HIDE DEF card
<1>8. t \in SubType /\ t.prov = 0
  <2>1. ~Owns(p) => sub.prov = 0
    BY <1>1, ReviewFacts
  <2>2. QED
    BY <1>2, <1>3, <2>1, PaymentsAssumption DEF LeftBy, SubType
<1>9. ReviewedRows(q, p, t, card)
  BY <1>1, <1>7, <1>8, ReviewedRowsIs
<1>10. q.sub = t
  BY <1>9 DEF ReviewedRows
<1> HIDE DEF q, q0
<1>11. CASE ~Owns(p)
  <2>1. t = sub /\ s = sub
    BY <1>11 DEF LeftBy
  <2>2. /\ policy => CoveredDates(q, promised, q.sub)
        /\ decisions = 0 => InOrder(q) /\ Fresh(q, q.sub)
    BY <1>1, <1>7, <1>9, <1>11, <2>1, PartReviewed DEF ReviewedCard
  <2> HIDE DEF s, Q, R
  <2>3. GoodRows(R)
    BY <1>1, <1>3, <1>6, <1>7, <1>9, <2>2, ReviewGood DEF R, Q
  <2>4. QED
    BY <1>1, <1>2, <1>6, <2>3, GoodCommit
<1>12. CASE Owns(p)
  <2> DEFINE prev == pay[p].prev
  <2>1. /\ t.end = s.end /\ t.grace = s.grace /\ t.trialEnd = s.trialEnd /\ t.status = s.status
        /\ t.reason = s.reason
    BY <1>3, <1>12 DEF LeftBy, SubType
  <2>2. \/ s = sub /\ sub.end # pay[p].until
        \/ s = prev
        \/ s.end = prev.end /\ s.grace = prev.grace /\ s.status = sub.status
           /\ s.trialEnd = sub.trialEnd /\ s.reason = prev.reason
    BY <1>1, <1>12, TakenBackFields
  <2>3. sub.prov = p /\ p # 0 /\ prev \in SubType /\ sub.status # "trialing"
    BY <1>1, <1>12, ReviewFacts DEF Owns
  <2> HIDE DEF s, t, prev
  <2>4. /\ Bought(q) = Bought(Rows)
        /\ \A c \in Bought(Rows) : q.pay[c] = pay[c]
        /\ t.trialEnd = sub.trialEnd =>
             \A x : Covered(Rows, promised, x) => Covered(q, promised, x)
    BY <1>1, <1>7, <1>8, <1>9, ReviewedBought
  <2>5. policy => CoveredDates(q, promised, q.sub)
    <3> SUFFICES ASSUME policy PROVE CoveredDates(q, promised, q.sub)
      OBVIOUS
    <3>1. /\ CoveredDates(Rows, promised, prev) /\ prev.trialEnd = sub.trialEnd
          /\ sub.end = pay[p].until \/ CoveredDates(Rows, promised, sub)
      BY <1>2, <2>3 DEF PaidRows, DatesCovered, prev
    <3>2. t.trialEnd = sub.trialEnd
      BY <2>1, <2>2, <3>1
    <3>3. CoveredDates(Rows, promised, t)
      BY <2>1, <2>2, <3>1 DEF CoveredDates
    <3>4. QED
      BY <1>10, <2>4, <3>2, <3>3 DEF CoveredDates
  <2>6. decisions = 0 => InOrder(q)
    <3> SUFFICES ASSUME decisions = 0 PROVE InOrder(q)
      OBVIOUS
    <3>1. EndsLast(Rows, prev) /\ sub.end = pay[p].until
      BY <1>2, <2>3 DEF InOrder, prev
    <3>2. EndsLast(Rows, t)
      BY <2>1, <2>2, <2>3, <3>1 DEF EndsLast
    <3>3. EndsLast(q, t)
      BY <1>2, <2>4, <3>2 DEF EndsLast
    <3>4. \A c, d \in Bought(q) : c < d => q.pay[c].until <= q.pay[d].from
      BY <1>2, <2>4 DEF InOrder
    <3>5. QED
      BY <1>8, <1>10, <3>3, <3>4 DEF InOrder
  <2>9. decisions = 0 => Fresh(q, q.sub)
    <3> SUFFICES ASSUME decisions = 0, t.reason = "installment"
                 PROVE  Running(t) /\ <<"period", t.end>> \notin q.ended
      BY <1>10 DEF Fresh
    <3>1. /\ sub.end = pay[p].until /\ pay[p].from < pay[p].until
      BY <1>2, <2>3 DEF InOrder
    <3>2. /\ Running(sub) /\ Fresh(Rows, prev)
          /\ prev.reason = "installment" => prev.end <= pay[p].from
      BY <2>3, StartingFacts DEF FreshRows, prev
    <3>3. prev.reason = "installment" /\ t.end = prev.end
      BY <2>1, <2>2, <3>1
    <3>4. <<"period", t.end>> \notin ended /\ Running(prev)
      BY <3>2, <3>3, StartingFacts DEF Fresh
    <3>5. t.status = prev.status \/ t.status = sub.status
      BY <2>1, <2>2, <3>1
    <3>6. /\ pay[p].from \in Nat /\ pay[p].until \in Nat /\ prev.end \in Nat /\ day \in Nat
      BY <1>1, <1>2, <2>3, ReviewFacts DEF CardType, SubType
    <3>7. sub.end <= day => prev.end <= day
      BY <3>1, <3>2, <3>3, <3>6
    <3>8. Running(t)
      BY <3>2, <3>3, <3>4, <3>5, <3>7 DEF Running
    <3>9. QED
      BY <1>9, <3>4, <3>8 DEF ReviewedRows
  <2> HIDE DEF Q, R
  <2>7. GoodRows(R)
    BY <1>1, <1>3, <1>6, <1>7, <1>9, <2>5, <2>6, <2>9, ReviewGood DEF R, Q, t
  <2>8. QED
    BY <1>1, <1>2, <1>6, <2>7, GoodCommit
<1>13. QED
  BY <1>11, <1>12

\* The row the period of an approved card is derived from.
Anchor(p) ==
  LET prev == pay[p].prev
  IN [sub EXCEPT !.status = prev.status, !.start = prev.start, !.end = prev.end,
                 !.trialEnd = prev.trialEnd, !.grace = prev.grace]

LEMMA ApprovedFromIs ==
  ASSUME PaymentsInv, NEW p \in UnderReview
  PROVE  /\ ApprovedFrom(p) = PaidFrom(Anchor(p)) /\ Anchor(p) \in SubType
         /\ ApprovedFrom(p) \in Nat /\ PaidUntil(pay[p].plan, ApprovedFrom(p)) \in Nat
         /\ EndsLast(Rows, pay[p].prev) => \A c \in Bought(Rows) : pay[c].until <= ApprovedFrom(p)
<1>1. /\ RowsOK(Rows) /\ Rows.pay = pay /\ sub \in SubType /\ day \in Nat
      /\ pay[p].prev \in SubType
  BY StartingFacts, ReviewFacts DEF CardType
<1>2. ApprovedFrom(p) = PaidFrom(Anchor(p))
  BY DEF ApprovedFrom, Anchor
<1>3. /\ Anchor(p) \in SubType /\ Anchor(p).end = pay[p].prev.end
      /\ Anchor(p).grace = pay[p].prev.grace /\ Anchor(p).status = pay[p].prev.status
      /\ Anchor(p).trialEnd = pay[p].prev.trialEnd
  <2> DEFINE v == pay[p].prev
             t == [sub EXCEPT !.status = v.status, !.start = v.start, !.end = v.end,
                              !.trialEnd = v.trialEnd, !.grace = v.grace]
  <2>1. Anchor(p) = t
    BY DEF Anchor
  <2>2. v \in SubType
    BY <1>1
  <2> HIDE DEF v
  <2>3. t \in SubType
    BY <1>1, <2>2 DEF SubType
  <2>4. /\ t.end = v.end /\ t.grace = v.grace /\ t.status = v.status
        /\ t.trialEnd = v.trialEnd
    BY <1>1 DEF SubType
  <2> HIDE DEF t
  <2>5. QED
    BY <2>1, <2>3, <2>4 DEF v
<1>4. ApprovedFrom(p) \in Nat
  BY <1>1, <1>2, <1>3, PaidFromFollows
<1>5. PaidUntil(pay[p].plan, ApprovedFrom(p)) \in Nat
  BY <1>4, PaidUntilType
<1>6. EndsLast(Rows, pay[p].prev) => EndsLast(Rows, Anchor(p))
  BY <1>3 DEF EndsLast
<1>7. EndsLast(Rows, Anchor(p)) => \A c \in Bought(Rows) : pay[c].until <= ApprovedFrom(p)
  BY <1>1, <1>2, <1>3, PaidFromFollows
<1>8. QED
  BY <1>2, <1>3, <1>4, <1>5, <1>6, <1>7

LEMMA ApprovedSubFields ==
  ASSUME PaymentsInv, NEW p \in UnderReview
  PROVE  LET s == ApprovedSub(p)
             until == PaidUntil(pay[p].plan, ApprovedFrom(p))
         IN /\ s \in SubType /\ s.status = sub.status
            /\ DerivedAgain(p) => /\ s.end = until /\ until <= s.grace
                                  /\ s.grace <= until + GraceLength
            /\ ~DerivedAgain(p) => s.end = sub.end /\ s.grace = sub.grace
            /\ s.reason = "other"
<1> DEFINE from == ApprovedFrom(p)
           until == PaidUntil(pay[p].plan, from)
           u == [sub EXCEPT !.trialEnd = pay[p].prev.trialEnd]
           w == IF DerivedAgain(p) THEN WithPeriod(u, from, until) ELSE sub
<1>1. /\ sub \in SubType /\ pay[p].prev \in SubType /\ from \in Nat /\ until \in Nat
  BY StartingFacts, ReviewFacts, ApprovedFromIs DEF CardType
<1>2. u \in SubType /\ u.status = sub.status
  BY <1>1 DEF SubType
<1>3. ApprovedSub(p) = [w EXCEPT !.prov = 0, !.reason = "other"]
  BY DEF ApprovedSub
<1> HIDE DEF u, from, until
<1>4. /\ w \in SubType /\ w.status = sub.status
      /\ DerivedAgain(p) => w.end = until /\ until <= w.grace /\ w.grace <= until + GraceLength
      /\ ~DerivedAgain(p) => w.end = sub.end /\ w.grace = sub.grace
  <2>1. CASE DerivedAgain(p)
    <3>1. w = WithPeriod(u, from, until)
      BY <2>1
    <3>2. w \in SubType /\ w.end = until
      BY <1>1, <1>2, <3>1, WithPeriodFields
    <3>3. w.status = sub.status
      <4>1. WithPeriod(u, from, until).status = u.status
        <5> HIDE DEF w
        <5> QED BY <1>1, <1>2, WithPeriodFields
      <4>2. QED
        BY <1>2, <3>1, <4>1, Zenon
    <3>4. w.grace = until + GraceDays(u.plan)
      <4>1. WithPeriod(u, from, until).grace = until + GraceDays(u.plan)
        <5> HIDE DEF w
        <5> QED BY <1>1, <1>2, WithPeriodFields
      <4>2. QED
        BY <3>1, <4>1, Zenon
    <3>5. GraceDays(u.plan) \in Nat /\ GraceDays(u.plan) <= GraceLength /\ GraceLength \in Nat
      BY GraceDaysBound, PaymentsAssumption
    <3>6. until <= w.grace /\ w.grace <= until + GraceLength
      BY <1>1, <3>4, <3>5
    <3>7. QED
      BY <2>1, <3>2, <3>3, <3>6
  <2>2. CASE ~DerivedAgain(p)
    BY <1>1, <2>2
  <2>3. QED
    BY <2>1, <2>2
<1> HIDE DEF w
<1>5. 0 \in 0..MaxPayments
  BY PaymentsAssumption
<1>6. QED
  BY <1>3, <1>4, <1>5 DEF SubType, from, until

LEMMA ApprovedCardFields ==
  ASSUME PaymentsInv, NEW p \in UnderReview
  PROVE  LET card == ApprovedCard(p)
             until == PaidUntil(pay[p].plan, ApprovedFrom(p))
         IN /\ card \in CardType /\ ReviewedCard(p, card) /\ card.review = "approved"
            /\ DerivedAgain(p) => card.from = ApprovedFrom(p) /\ card.until = until
            /\ ~DerivedAgain(p) => card.from = pay[p].from /\ card.until = pay[p].until
<1> DEFINE from == ApprovedFrom(p)
           until == PaidUntil(pay[p].plan, from)
           timely == sub.status \in Granting
           k == Reviewed(pay[p], "succeeded", "approved")
           m == [k EXCEPT !.timely = timely]
<1>1. pay[p] \in CardType /\ from \in Nat /\ until \in Nat /\ timely \in BOOLEAN
      /\ NoSub \in SubType
  BY ReviewFacts, ApprovedFromIs, TrialSubType
<1> HIDE DEF from, until, timely
<1>2. /\ k \in CardType /\ k.status = "succeeded" /\ k.review = "approved"
      /\ k.of = pay[p].of /\ k.number = pay[p].number /\ k.agreement = pay[p].agreement
      /\ k.from = pay[p].from /\ k.until = pay[p].until
  BY <1>1 DEF Reviewed, CardType
<1> HIDE DEF k
<1>3. /\ m \in CardType /\ m.status = "succeeded" /\ m.review = "approved"
      /\ m.of = pay[p].of /\ m.number = pay[p].number /\ m.agreement = pay[p].agreement
      /\ m.from = pay[p].from /\ m.until = pay[p].until
  BY <1>1, <1>2 DEF CardType
<1> HIDE DEF m
<1>4. ApprovedCard(p) = IF DerivedAgain(p) THEN [m EXCEPT !.from = from, !.until = until] ELSE m
  BY DEF ApprovedCard, from, until, timely, k, m
<1>5. CASE DerivedAgain(p)
  <2>1. ApprovedCard(p) = [m EXCEPT !.from = from, !.until = until]
    BY <1>4, <1>5
  <2> DEFINE card == ApprovedCard(p)
  <2>2. /\ card \in CardType /\ card.status = "succeeded" /\ card.review = "approved"
        /\ card.of = pay[p].of /\ card.number = pay[p].number /\ card.agreement = pay[p].agreement
        /\ card.from = from /\ card.until = until
    BY <1>1, <1>3, <2>1 DEF CardType
  <2>3. QED
    BY <1>5, <2>2 DEF ReviewedCard, from, until
<1>6. CASE ~DerivedAgain(p)
  BY <1>3, <1>4, <1>6 DEF ReviewedCard
<1>7. QED
  BY <1>5, <1>6

LEMMA ApproveInv ==
  ASSUME PaymentsInv, NEW p \in Cards, Approve(p)
  PROVE  PaymentsInv'
<1> DEFINE s == IF Owns(p) THEN ApprovedSub(p) ELSE sub
           Q == SettledSub(p, s)
           card == ApprovedCard(p)
           from == ApprovedFrom(p)
           until == PaidUntil(pay[p].plan, from)
           t == LeftBy(p, s)
           q0 == [Rows EXCEPT !.sub = t]
           q == [q0 EXCEPT !.pay[p] = card]
           R == SettledPart([Q EXCEPT !.pay[p] = card], p)
<1>1. p \in UnderReview /\ UNCHANGED <<day, policy, decisions, promised>>
      /\ (DerivedAgain(p) => until > from) /\ ReviewReturns(p, ApprovedSub(p))
  BY DEF Approve
<1>2. /\ PaymentsTypeOK /\ sub \in SubType /\ Rows.sub = sub /\ Rows.pay = pay /\ RowsOK(Rows)
      /\ promised \in Nat /\ decisions \in Nat /\ day \in Nat \ {0}
      /\ policy => PaidRows(Rows, promised)
      /\ decisions = 0 => InOrder(Rows)
  BY StartingFacts
<1>3. s \in SubType /\ s.status = sub.status
  BY <1>1, <1>2, ApprovedSubFields
<1>4. Owns(p) => s.status # "none" /\ s.status # "trialing"
  BY <1>1, <1>3, ReviewFacts
<1>5. Commit(R) /\ ~Loops([Q EXCEPT !.pay[p] = card]) /\ ReviewReturns(p, s)
  <2>1. SettledSub(p, ApprovedSub(p)) = Q
    BY DEF SettledSub
  <2>2. QED
    BY <1>1, <2>1 DEF Approve, ReviewReturns
<1>6. /\ card \in CardType /\ ReviewedCard(p, card) /\ card.review = "approved"
      /\ DerivedAgain(p) => card.from = from /\ card.until = until
      /\ ~DerivedAgain(p) => card.from = pay[p].from /\ card.until = pay[p].until
  BY <1>1, ApprovedCardFields
<1>7. from \in Nat /\ until \in Nat
  BY <1>1, ApprovedFromIs
<1> HIDE DEF card, until
<1>8. t \in SubType /\ t.prov = 0
  <2>1. ~Owns(p) => sub.prov = 0
    BY <1>1, ReviewFacts
  <2> HIDE DEF s
  <2>2. CASE Owns(p)
    BY <1>3, <2>2, PaymentsAssumption DEF LeftBy, SubType
  <2>3. CASE ~Owns(p)
    BY <1>2, <2>1, <2>3 DEF LeftBy
  <2>4. QED
    BY <2>2, <2>3
<1>9. ReviewedRows(q, p, t, card)
  BY <1>1, <1>6, <1>8, ReviewedRowsIs
<1>10. q.sub = t
  BY <1>9 DEF ReviewedRows
<1>11. p \in Cards /\ q.pay[p] = card
  BY <1>9 DEF ReviewedRows
<1> HIDE DEF q, q0
<1>12. CASE ~Owns(p)
  <2>1. t = sub /\ s = sub
    BY <1>12 DEF LeftBy
  <2>2. /\ policy => CoveredDates(q, promised, q.sub)
        /\ decisions = 0 => InOrder(q) /\ Fresh(q, q.sub)
    BY <1>1, <1>6, <1>9, <1>12, <2>1, PartReviewed DEF ReviewedCard
  <2> HIDE DEF s, Q, R
  <2>3. GoodRows(R)
    BY <1>1, <1>3, <1>4, <1>5, <1>6, <1>9, <2>2, ReviewGood DEF R, Q
  <2>4. QED
    BY <1>1, <1>2, <1>5, <2>3, GoodCommit
<1>13. CASE Owns(p)
  <2> DEFINE prev == pay[p].prev
  <2>0. /\ DerivedAgain(p) => s.end = until /\ until <= s.grace /\ s.grace <= until + GraceLength
        /\ ~DerivedAgain(p) => s.end = sub.end /\ s.grace = sub.grace
        /\ DerivedAgain(p) <=> policy
        /\ s.reason = "other"
    BY <1>1, <1>13, ApprovedSubFields DEF DerivedAgain, until
  <2> HIDE DEF s
  <2>1. t.end = s.end /\ t.grace = s.grace /\ t.status = s.status /\ t.reason = s.reason
    BY <1>3, <1>13 DEF LeftBy, SubType
  <2>2. sub.prov = p /\ p # 0 /\ p \in Nat /\ prev \in SubType /\ pay[p].number < 2
    BY <1>1, <1>13, ReviewFacts DEF Owns
  <2>3. /\ Bought(q) = Bought(Rows) \cup {p}
        /\ \A c \in Bought(Rows) : c < p /\ c \in Nat /\ q.pay[c] = pay[c] /\ pay[c].until \in Nat
    <3>1. card.number < 2
      BY <1>6, <2>2 DEF ReviewedCard
    <3>2. Cards \subseteq Nat
      BY PaymentsAssumption DEF Cards
    <3>3. Bought(q) = Bought(Rows) \cup {p}
      BY <1>1, <1>6, <1>8, <1>9, <3>1, ReviewedBought
    <3>4. \A c \in Bought(Rows) : c < p /\ c \in Cards /\ q.pay[c] = pay[c]
      BY <1>1, <1>8, <1>9, ReviewedBought
    <3>5. \A c \in Cards : pay[c].until \in Nat
      BY <1>2 DEF RowsOK, CardType
    <3>6. QED
      BY <3>2, <3>3, <3>4, <3>5
  <2> HIDE DEF t, prev
  <2>4. policy => CoveredDates(q, promised, q.sub)
    <3> SUFFICES ASSUME policy PROVE CoveredDates(q, promised, q.sub)
      OBVIOUS
    <3>1. /\ card.until = until /\ t.end = until /\ t.grace <= until + GraceLength
      BY <1>6, <2>0, <2>1
    <3>2. until <= until + GraceLength
      BY <1>7, PaymentsAssumption
    <3>3. QED
      BY <1>6, <1>10, <1>11, <3>1, <3>2 DEF CoveredDates, Covered
  <2>5. decisions = 0 => InOrder(q)
    <3> SUFFICES ASSUME decisions = 0 PROVE InOrder(q)
      OBVIOUS
    <3>1. /\ EndsLast(Rows, prev) /\ sub.end = pay[p].until /\ sub.end <= sub.grace
          /\ pay[p].from < pay[p].until
          /\ \A c \in Bought(Rows) : pay[c].until <= pay[p].from
      BY <1>2, <2>2 DEF InOrder, prev
    <3>2. \A c \in Bought(Rows) : pay[c].until <= from
      BY <1>1, <3>1, ApprovedFromIs DEF prev
    <3>3. pay[p].from \in Nat /\ pay[p].until \in Nat
      BY <1>2, <1>11 DEF RowsOK, CardType
    <3> HIDE DEF from
    <3>4. /\ \A c \in Bought(Rows) : pay[c].until <= card.from
          /\ card.from < card.until /\ card.from \in Nat /\ card.until \in Nat
          /\ t.end = card.until /\ t.end <= t.grace
      <4>1. CASE DerivedAgain(p)
        BY <1>1, <1>6, <1>7, <2>0, <2>1, <3>2, <4>1
      <4>2. CASE ~DerivedAgain(p)
        BY <1>6, <2>0, <2>1, <3>1, <3>3, <4>2
      <4>3. QED
        BY <4>1, <4>2
    <3>5. ASSUME NEW c \in Bought(q), NEW d \in Bought(q), c < d
          PROVE  q.pay[c].until <= q.pay[d].from
      <4>1. CASE c \in Bought(Rows) /\ d \in Bought(Rows)
        <5>1. pay[c].until <= pay[d].from
          BY <1>2, <3>5, <4>1 DEF InOrder
        <5>2. QED
          BY <2>3, <4>1, <5>1
      <4>2. CASE c \in Bought(Rows) /\ d = p
        BY <1>11, <2>3, <3>4, <4>2
      <4>3. CASE c = p
        <5>1. d = p \/ (d < p /\ d \in Nat)
          BY <2>3
        <5>2. QED
          BY <2>2, <3>5, <4>3, <5>1
      <4>4. QED
        BY <2>3, <4>1, <4>2, <4>3
    <3>6. EndsLast(q, t)
      <4>1. ASSUME NEW c \in Bought(q)
            PROVE  0 < q.pay[c].until /\ q.pay[c].until <= t.end
        <5>1. CASE c = p
          BY <1>11, <3>4, <5>1
        <5>2. CASE c \in Bought(Rows)
          <6>1. 0 < pay[c].until
            BY <1>2, <3>1, <5>2 DEF EndsLast
          <6>2. QED
            BY <2>3, <3>4, <5>2, <6>1
        <5>3. QED
          BY <2>3, <5>1, <5>2
      <4>2. t.status # "trialing"
        BY <1>4, <1>13, <2>1
      <4>3. QED
        BY <3>4, <4>1, <4>2 DEF EndsLast
    <3>7. QED
      BY <1>8, <1>10, <3>5, <3>6 DEF InOrder
  <2>8. Fresh(q, q.sub)
    BY <1>10, <2>0, <2>1 DEF Fresh
  <2> HIDE DEF Q, R
  <2>6. GoodRows(R)
    BY <1>1, <1>3, <1>4, <1>5, <1>6, <1>9, <1>13, <2>4, <2>5, <2>8, ReviewGood DEF R, Q, t
  <2>7. QED
    BY <1>1, <1>2, <1>5, <2>6, GoodCommit
<1>14. QED
  BY <1>12, <1>13

-----------------------------------------------------------------------------
(* The invariant, and what follows from it *)

LEMMA PaymentsInvInit ==
  ASSUME PaymentsInit
  PROVE  PaymentsInv
<1>1. /\ Rows.sub = NoSub /\ Rows.pay = pay /\ Rows.ended = {} /\ Rows.grant = NoGrant
      /\ \A p \in Cards : pay[p] = NoCard
      /\ Rows = [sub |-> Rows.sub, ended |-> Rows.ended, grant |-> Rows.grant, pay |-> Rows.pay]
  BY DEF PaymentsInit, Rows
<1>2. PaymentsTypeOK
  <2>1. pay \in [Cards -> CardType]
    BY NoCardType DEF PaymentsInit
  <2>2. RowsOK(Rows)
    BY <1>1, <2>1, TrialSubType DEF RowsOK
  <2>3. QED
    BY <2>2, PaymentsAssumption DEF PaymentsInit, PaymentsTypeOK
<1>3. CardsOK(Rows)
  BY <1>1, NoCardType DEF CardsOK
<1>4. OwnsReview(Rows)
  BY <1>1, NoCardType, TrialSubType DEF OwnsReview
<1>5. PaidInv
  <2>1. Covered(Rows, promised, 0)
    BY <1>1, TrialSubType DEF Covered
  <2>2. QED
    BY <1>1, <2>1, TrialSubType DEF PaidInv, DatesCovered, CoveredDates, GrantCovered
<1>6. OrderInv
  <2>1. Bought(Rows) = {}
    BY <1>1, NoCardType DEF Bought
  <2>2. QED
    BY <1>1, <2>1, TrialSubType DEF OrderInv, InOrder, EndsLast
<1>7. HoldInv
  BY <1>1, TrialSubType DEF HoldInv, HeldForReason, HeldBack
<1>8. FreshInv
  BY <1>1, TrialSubType DEF FreshInv, KeysOK, FreshRows, Fresh
<1>9. QED
  BY <1>2, <1>3, <1>4, <1>5, <1>6, <1>7, <1>8 DEF PaymentsInv

LEMMA PaymentsInvStep ==
  ASSUME PaymentsInv, [PaymentsNext]_paymentVars
  PROVE  PaymentsInv'
<1>1. CASE UNCHANGED paymentVars
  <2>1. Commit(Rows) /\ UNCHANGED <<day, policy, decisions, promised>>
    BY <1>1 DEF paymentVars, rows, Commit, Rows
  <2>2. GoodRows(Rows)
    BY <2>1, StartingFacts DEF GoodRows
  <2>3. QED
    BY <2>1, <2>2, StartingFacts, GoodCommit
<1>2. CASE \E plan \in Plans, inParts \in BOOLEAN : SubmitRecharge(plan, inParts)
  BY <1>2, SubmitRechargeInv
<1>3. CASE SubmitInstallment
  BY <1>3, SubmitInstallmentInv
<1>4. CASE \E p \in Cards : Approve(p)
  BY <1>4, ApproveInv
<1>5. CASE \E p \in Cards, collected \in BOOLEAN : Reject(p, collected)
  BY <1>5, RejectInv
<1>6. CASE CreateTrial \/ ScheduleCancellation \/ Visit \/ NextDay
  BY <1>6, CreateTrialInv, ScheduleCancellationInv, VisitInv, NextDayInv
<1>7. CASE \E to \in Statuses : AdminTransition(to)
  BY <1>7, AdminTransitionInv
<1>8. CASE \E until \in AdminDays \cup {sub.end} : AdminActivate(until)
  BY <1>8, AdminActivateInv
<1>9. CASE \E until \in AdminDays : AdminExtend(until)
  BY <1>9, AdminExtendInv
<1>10. CASE (\E plan \in Plans : AdminChangePlan(plan)) \/ AdminCancelAtEnd
  BY <1>10, AdminChangePlanInv, AdminCancelAtEndInv
<1>11. QED
  BY <1>1, <1>2, <1>3, <1>4, <1>5, <1>6, <1>7, <1>8, <1>9, <1>10 DEF PaymentsNext

LEMMA PaymentsInvariant == PaymentsSpec => []PaymentsInv
<1>1. PaymentsInit => PaymentsInv
  BY PaymentsInvInit
<1>2. PaymentsInv /\ [PaymentsNext]_paymentVars => PaymentsInv'
  BY PaymentsInvStep
<1>3. QED
  BY <1>1, <1>2, PTL DEF PaymentsSpec

\* Every purchase, review, decision and visit leaves the account's rows of
\* their types, and its cards numbered within an agreement.
THEOREM PaymentsTyped == PaymentsSpec => []PaymentsTypeOK
<1>1. PaymentsInv => PaymentsTypeOK
  BY DEF PaymentsInv
<1>2. QED
  BY <1>1, PaymentsInvariant, PTL

\* Under the current policy access is always in the trial, in the period or
\* the grace of an approved card, or in what an administrator gave: whatever
\* cards are sent, reviewed, refused or held, and however the visits of the
\* lifecycle fall (sync_subscription_entitlements, review_manual_recharge).
THEOREM NoUnpaidAccessHolds == PaymentsSpec => []NoUnpaidAccess
<1>1. ASSUME PaymentsInv, policy, Access
      PROVE  \/ day < sub.trialEnd
             \/ day < promised
             \/ \E p \in Cards : pay[p].review = "approved" /\ day < pay[p].until + GraceLength
  <2>1. /\ day \in Nat /\ sub \in SubType /\ promised \in Nat /\ Rows.sub = sub
        /\ Rows.pay = pay /\ Rows.grant = grant /\ PaidRows(Rows, promised)
        /\ pay \in [Cards -> CardType]
    BY <1>1, StartingFacts
  <2>2. ASSUME NEW t \in Nat, day < t, Covered(Rows, promised, t)
        PROVE  \/ day < sub.trialEnd
               \/ day < promised
               \/ \E p \in Cards : pay[p].review = "approved" /\ day < pay[p].until + GraceLength
    <3>1. CASE t <= sub.trialEnd
      BY <2>1, <2>2, <3>1 DEF SubType
    <3>2. CASE t <= promised
      BY <2>1, <2>2, <3>2
    <3>3. CASE \E p \in Cards : pay[p].review = "approved" /\ t <= pay[p].until + GraceLength
      <4>1. PICK p \in Cards : pay[p].review = "approved" /\ t <= pay[p].until + GraceLength
        BY <3>3
      <4>2. pay[p].until + GraceLength \in Nat
        BY <2>1, PaymentsAssumption DEF CardType
      <4>3. day < pay[p].until + GraceLength
        BY <2>1, <2>2, <4>1, <4>2
      <4>4. QED
        BY <4>1, <4>3
    <3>4. QED
      BY <2>1, <2>2, <3>1, <3>2, <3>3 DEF Covered
  <2>3. CASE sub.prov # 0
    <3>1. grant.until \in Nat \ {0} /\ Covered(Rows, promised, grant.until)
      BY <1>1, <2>1, <2>3 DEF Access, PaidRows, GrantCovered
    <3>2. day < grant.until
      BY <1>1, <2>1, <3>1 DEF Access
    <3>3. QED
      BY <2>2, <3>1, <3>2
  <2>4. CASE sub.prov = 0
    <3>1. /\ Covered(Rows, promised, sub.end) /\ Covered(Rows, promised, sub.grace)
          /\ sub.end \in Nat /\ sub.grace \in Nat /\ sub.trialEnd \in Nat
      BY <2>1, <2>4 DEF PaidRows, DatesCovered, CoveredDates, SubType
    <3>2. day < sub.trialEnd \/ day < sub.end \/ day < sub.grace
      BY <1>1, <2>1, <3>1 DEF Access, LiveSubscription
    <3>3. QED
      BY <2>2, <3>1, <3>2
  <2>5. QED
    BY <2>3, <2>4
<1>2. PaymentsInv => NoUnpaidAccess
  BY <1>1 DEF NoUnpaidAccess
<1>3. QED
  BY <1>2, PaymentsInvariant, PTL

\* No day is sold twice: as long as no administrator has decided otherwise,
\* the periods of the approved purchases follow on one another, whatever was
\* refused, held or renewed in between (paid_period_window, derived at
\* submission and again at approval).
THEOREM PeriodsFollowAlways == PaymentsSpec => []PeriodsFollow
<1>1. PaymentsInv => PeriodsFollow
  BY StartingFacts DEF PeriodsFollow, InOrder, Bought
<1>2. QED
  BY <1>1, PaymentsInvariant, PTL

\* A hold never outlives its reason: whatever is sent, reviewed, refused or
\* visited, a subscription suspended for an installment has one that is due and
\* not covered by a card sent in time, unless an administrator's decisions let
\* the end of its period be recorded before (enforce_installments).
THEOREM HoldHasReasonAlways == PaymentsSpec => []HoldHasReason
<1>1. ASSUME PaymentsInv PROVE HoldHasReason
  <2>1. /\ Rows.sub = sub /\ Rows.ended = ended /\ decisions \in Nat
        /\ HeldForReason(Rows) \/ Recorded(Rows)
        /\ decisions = 0 => FreshRows(Rows)
    BY <1>1, StartingFacts
  <2>2. HeldBack(sub) /\ decisions = 0 => ~Recorded(Rows)
    BY <2>1 DEF HeldBack, FreshRows, Fresh, Recorded
  <2>3. decisions # 0 => decisions > 0
    BY <2>1
  <2>4. QED
    BY <2>1, <2>2, <2>3 DEF HoldHasReason, HeldForReason, Recorded
<1>2. QED
  BY <1>1, PaymentsInvariant, PTL

=============================================================================
