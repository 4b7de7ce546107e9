--------------------------- MODULE ManualPayments ---------------------------
(***************************************************************************)
(* One reader's subscription (backend/apps/subscriptions), what it opens   *)
(* (entitlements), the recharge cards that pay for it and wait for a       *)
(* reviewer (payments/manual_services.py), the installments of a term      *)
(* (payments/installments.py) and the administrator (admin_control).       *)
(*                                                                         *)
(* A purchase, a review or an administrator's decision is one transaction  *)
(* under a lock of the account's or the subscription's row, so it is one   *)
(* step here: a chain of functions from the account's rows to its rows.    *)
(* What comes between them is time, and the order of submissions, reviews, *)
(* decisions and visits.                                                   *)
(*                                                                         *)
(* Instants are days; 0 is a null instant.  Three plans stand for the      *)
(* catalog: the trial, a month that rolls on and has a grace period, and a *)
(* term with a fixed end, no grace, that may be paid in two installments.  *)
(* Every plan opens the same content.                                      *)
(***************************************************************************)
EXTENDS Naturals, FiniteSets

CONSTANTS MaxPayments,   \* bound: cards submitted and decisions made
          TrialEnd,      \* the trial runs from day 1 to this day
          MonthLength,   \* length of a rolling period
          GraceLength,   \* grace_days of the rolling plan
          RenewalWindow, \* EARLY_RENEWAL_WINDOW
          TermEnd,       \* fixed_period_ends_at of the term
          Gap,           \* days between two installments
          PayWindow,     \* INSTALLMENT_PAYMENT_WINDOW
          MaxDay,        \* bound: the last day
          MaxDecisions,  \* bound: decisions of an administrator
          AdminDays,     \* bound: the expiration days an administrator picks
          Policies       \* whether purchases are made under the current policy

ASSUME PaymentsAssumption ==
  /\ MaxPayments \in Nat
  /\ {TrialEnd, MonthLength, GraceLength, RenewalWindow, TermEnd, Gap} \subseteq Nat \ {0}
  /\ {PayWindow, MaxDay, MaxDecisions} \subseteq Nat
  /\ AdminDays \subseteq Nat
  /\ Policies \subseteq BOOLEAN

Cards == 1..MaxPayments
Plans == {"month", "term"}
Installments == 2

VARIABLES
  day,
  sub,       \* the Subscription row; status "none" before there is one
  ended,     \* the dated keys of the lifecycle's SubscriptionTransition rows
  grant,     \* the EntitlementGrant row
  pay,       \* Payment, ManualRechargeSubmission and InstallmentAgreement rows
  policy,    \* whether the account has accepted the current policy
  (* History, read by the properties only *)
  decisions, \* decisions an administrator has made
  promised   \* the latest day an administrator has extended access to

rows == <<sub, ended, grant, pay>>
paymentVars == <<day, rows, policy, decisions, promised>>

\* The rows of the account as one value, for what a transaction does to them.
Rows == [sub |-> sub, ended |-> ended, grant |-> grant, pay |-> pay]
Commit(r) == sub' = r.sub /\ ended' = r.ended /\ grant' = r.grant /\ pay' = r.pay

NoSub == [status |-> "none", plan |-> "trial", started |-> 0, trialStart |-> 0, trialEnd |-> 0,
          start |-> 0, end |-> 0, grace |-> 0, cancel |-> FALSE, reason |-> "other", prov |-> 0]
TrialSub == [NoSub EXCEPT !.status = "trialing", !.started = 1, !.trialStart = 1,
                          !.trialEnd = TrialEnd, !.start = 1, !.end = TrialEnd]
NoCard == [status |-> "none", review |-> "none", plan |-> "month", number |-> 0, of |-> 0,
           agreement |-> "none", at |-> 0, from |-> 0, until |-> 0, early |-> FALSE,
           prev |-> NoSub, timely |-> FALSE]

\* The dates of a revoked grant and the snapshot of a reviewed card are read by
\* nothing, so they are not kept.
NoGrant == [on |-> FALSE, from |-> 0, until |-> 0]
Reviewed(card, status, review) ==
  [card EXCEPT !.status = status, !.review = review, !.early = FALSE, !.prev = NoSub]

Granting == {"trialing", "active", "grace"}
Statuses == Granting \cup {"pending", "suspended", "cancelled", "expired", "refunded"}
GraceDays(plan) == IF plan = "month" THEN GraceLength ELSE 0

\* An account verified on day 1.
PaymentsInit ==
  /\ day = 1
  /\ sub = NoSub
  /\ grant = NoGrant
  /\ ended = {}
  /\ pay = [p \in Cards |-> NoCard]
  /\ policy \in Policies
  /\ decisions = 0
  /\ promised = 0

-----------------------------------------------------------------------------
(* Entitlements *)

Earliest(S) == CHOOSE t \in S : \A u \in S : t <= u
FirstOf(a, b) == IF a # 0 THEN a ELSE b
LatestOf(a, b) == IF a < b THEN b ELSE a

\* Variant: the grant begins with the paid period.
OpenFromPeriod(s) == FirstOf(s.start, FirstOf(s.trialStart, s.started))

\* What subscription s opens by itself: from when, until when (0 is no end).
OpenFrom(s) ==
  Earliest({FirstOf(s.start, FirstOf(s.trialStart, s.started)), s.trialStart, s.started} \ {0})
OpenUntil(s) ==
  CASE s.status = "trialing" -> s.trialEnd
    [] s.status = "grace" -> s.grace
    [] OTHER -> FirstOf(s.grace, s.end)

\* The earlier state that goes on giving access while its replacement is
\* reviewed: until when, and since when.
KeptUntil(s) == IF s.status = "trialing" THEN s.trialEnd ELSE FirstOf(s.grace, s.end)
KeptFrom(s) == FirstOf(s.start, s.trialStart)

\* Whether the subscription rests on a card under review of the current policy.
Provisional(r) == r.sub.prov # 0 /\ policy

\* Variant: a card under review opens what it pays for.
SyncProvisionally(r) ==
  [r EXCEPT !.grant =
     IF r.sub.status \in Granting
       THEN [on |-> TRUE, from |-> OpenFrom(r.sub), until |-> OpenUntil(r.sub)]
       ELSE NoGrant]

\* sync_subscription_entitlements
SyncEntitlements(r) ==
  LET prev == r.pay[r.sub.prov].prev
      pending == Provisional(r)
      allowed == IF pending THEN prev.status \in Granting /\ KeptUntil(prev) > day
                 ELSE r.sub.status \in Granting
  IN [r EXCEPT !.grant =
        IF ~allowed THEN NoGrant
        ELSE IF pending
          THEN [on |-> TRUE, from |-> FirstOf(KeptFrom(prev), OpenFrom(r.sub)),
                until |-> KeptUntil(prev)]
          ELSE [on |-> TRUE, from |-> OpenFrom(r.sub), until |-> OpenUntil(r.sub)]]

\* effective_grants_for_user: the subscription that backs the grant is live.
LiveSubscription(s) ==
  \/ s.status = "trialing" /\ s.trialEnd > day
  \/ s.status = "active" /\ s.end > day
  \/ s.status = "active" /\ ~s.cancel /\ s.grace > day
  \/ s.status = "grace" /\ s.grace > day

Access ==
  /\ grant.on /\ grant.from <= day /\ (grant.until = 0 \/ grant.until > day)
  /\ LiveSubscription(sub)

-----------------------------------------------------------------------------
(* The lifecycle *)

\* ALLOWED_TRANSITIONS
AllowedTransitions(status) ==
  CASE status \in {"pending", "trialing"} -> {"active", "cancelled", "expired", "suspended"}
    [] status = "active" ->
         {"active", "grace", "cancelled", "expired", "suspended", "refunded"}
    [] status = "grace" -> {"active", "expired", "cancelled", "suspended", "refunded"}
    [] status = "suspended" -> {"active", "expired", "cancelled", "refunded"}
    [] status \in {"expired", "cancelled"} -> {"active"}
    [] OTHER -> {}

\* transition_subscription without its key: the status, its reason and the
\* entitlements that follow from it.
Transition(r, to, reason) ==
  LET started == IF to = "active" THEN FirstOf(r.sub.started, day) ELSE r.sub.started
  IN SyncEntitlements(
       [r EXCEPT !.sub.status = to, !.sub.reason = reason, !.sub.started = started])

\* A transition under a dated key happens once.
Once(r, key, to) ==
  IF key \in r.ended THEN r
  ELSE Transition([r EXCEPT !.ended = @ \cup {key}], to, "other")

WithPeriod(s, from, until) ==
  [s EXCEPT !.start = from, !.end = until, !.grace = until + GraceDays(s.plan)]

PeriodOver(s) == s.status = "active" /\ s.end # 0 /\ s.end <= day

\* One pass of _refresh_lifecycle.
LifecycleStep(r) ==
  LET s == r.sub
  IN CASE s.status = "active" /\ s.end = 0 /\ s.grace = 0 ->
            Once(r, <<"period missing", 0>>, "expired")
       [] s.status = "trialing" /\ s.trialEnd # 0 /\ s.trialEnd <= day ->
            Once(r, <<"trial", s.trialEnd>>, IF s.cancel THEN "cancelled" ELSE "expired")
       [] PeriodOver(s) ->
            Once(r, <<"period", s.end>>,
                 IF s.cancel THEN "cancelled"
                 ELSE IF GraceDays(s.plan) > 0 THEN "grace" ELSE "expired")
       [] s.status = "grace" /\ s.grace # 0 /\ s.grace <= day ->
            Once(r, <<"grace", s.grace>>, "expired")
       [] OTHER -> r

\* _refresh_lifecycle: a period that is over is followed by a second pass,
\* which may find its grace over too.
RefreshLifecycle(r) == LifecycleStep(LifecycleStep(r))

\* The key of the period's end is taken: the row stays as it is and
\* _refresh_lifecycle calls itself for ever.
Loops(r) == PeriodOver(r.sub) /\ <<"period", r.sub.end>> \in r.ended

-----------------------------------------------------------------------------
(* Installments.  An agreement is named by the card of its first part. *)

PaymentsOf(r, a) == {p \in Cards : r.pay[p].of = a /\ r.pay[p].status \in {"pending", "succeeded"}}

\* The numbers that are settled: paid, and approved if a card paid them.
PaidNumbers(r, a) ==
  {r.pay[p].number : p \in {q \in PaymentsOf(r, a) : /\ r.pay[q].status = "succeeded"
                                                    /\ r.pay[q].review = "approved"}}

NextNumber(r, a) ==
  IF 1..Installments \subseteq PaidNumbers(r, a) THEN 0
  ELSE Earliest((1..Installments) \ PaidNumbers(r, a))

DueAt(r, a, number) == r.pay[a].at + (number - 1) * Gap

\* blocks_access of installment_snapshot: the next part is due, and no card
\* sent for it before its window closed is under review.
HoldsBack(r, a) ==
  LET next == NextNumber(r, a)
  IN /\ next # 0
     /\ DueAt(r, a, next) <= day
     /\ ~ \E p \in PaymentsOf(r, a) :
            /\ r.pay[p].status = "pending" /\ r.pay[p].number = next
            /\ next = 1 \/ r.pay[p].at <= DueAt(r, a, next) + PayWindow

\* active_agreement: the account has one at most.
ActiveAgreements(r) == {a \in Cards : r.pay[a].agreement = "active"}

\* is_installment_suspension
HeldBack(s) == s.status = "suspended" /\ s.reason = "installment"

Resume(r) == IF HeldBack(r.sub) THEN Transition(r, "active", "installment") ELSE r

\* enforce_installments
EnforceInstallments(r) ==
  IF \/ r.sub.status \notin {"active", "suspended"}
     \/ policy /\ \E p \in Cards : r.pay[p].status = "pending" /\ r.pay[p].number = 1
    THEN r
  ELSE IF HeldBack(r.sub) /\ r.sub.end # 0 /\ r.sub.end <= day
    THEN Once(r, <<"period", r.sub.end>>, "expired")
  ELSE IF ActiveAgreements(r) = {}
    THEN Resume(r)
  ELSE LET a == Earliest(ActiveAgreements(r))
       IN IF NextNumber(r, a) = 0
            THEN Resume([r EXCEPT !.pay[a].agreement = "completed"])
          ELSE IF ~HoldsBack(r, a)
            THEN Resume(r)
          ELSE IF r.sub.status = "active"
            THEN Transition(r, "suspended", "installment")
          ELSE r

\* refresh_subscription
RefreshSubscription(r) == EnforceInstallments(RefreshLifecycle(r))

-----------------------------------------------------------------------------
(* Submitting a card *)

\* Variant: a period is bought from the day the card is sent.
AnchorNow(s) == day

\* The instant a paid period follows on (paid_period_window).
PaidFrom(s) ==
  IF s.status = "trialing" /\ s.trialEnd > day THEN s.trialEnd
  ELSE IF s.end # 0 /\ (s.status \in {"active", "grace"} \/ (s.grace # 0 /\ day <= s.grace))
    THEN s.end
  ELSE day

PaidUntil(plan, from) == IF plan = "term" THEN TermEnd ELSE from + MonthLength

\* _early_renewal_allowed
EarlyRenewalAllowed(s) ==
  \/ s.status = "active" /\ s.end > day /\ s.end - day <= RenewalWindow
  \/ s.status = "grace" /\ s.end # 0 /\ s.grace # 0 /\ day <= s.grace

\* purchase_block_reason gives none.
MayBuy(r, plan) ==
  LET s == r.sub
      live == s.status \in {"active", "grace"}
  IN /\ s.status # "suspended"
     /\ IF plan = "term"
          THEN /\ TermEnd > day
               /\ live => ActiveAgreements(r) = {} /\ s.end < TermEnd
          ELSE s.status = "active" /\ s.end > day => EarlyRenewalAllowed(s)

\* Buying a later term while a period runs is rolled back like a renewal.
IsEarlyRenewal(s, plan) ==
  \/ EarlyRenewalAllowed(s)
  \/ /\ plan = "term"
     /\ s.status \in {"active", "grace"}
     /\ s.end > day \/ (s.end # 0 /\ day <= s.grace)

Unused == {p \in Cards : pay[p].status = "none"}
\* Bound: a decision takes the place of a card.
TurnsLeft == decisions < Cardinality(Unused)
UnderReview == {p \in Cards : pay[p].review = "pending"}

\* The rows submit_manual_recharge begins with: a subscription is opened if
\* there is none, and is refreshed unless it can still be renewed in grace.
OpenedRow(plan) ==
  IF sub.status = "none"
    THEN [Rows EXCEPT !.sub.status = "pending", !.sub.plan = plan]
    ELSE Rows
BeforePurchase(plan) ==
  IF sub.status = "grace" /\ day <= sub.grace THEN Rows
  ELSE RefreshSubscription(OpenedRow(plan))

\* submit_manual_recharge
SubmitRecharge(plan, inParts) ==
  \E p \in Unused :
    LET r == BeforePurchase(plan)
        s == r.sub
        from == PaidFrom(s)
        until == PaidUntil(plan, from)
        periodStart == IF s.status \in {"active", "grace"} /\ s.start # 0 THEN s.start ELSE from
        card == [NoCard EXCEPT
                   !.status = "pending", !.review = "pending", !.plan = plan,
                   !.number = IF inParts THEN 1 ELSE 0, !.of = IF inParts THEN p ELSE 0,
                   !.agreement = IF inParts THEN "active" ELSE "none",
                   !.at = IF inParts THEN day ELSE 0, !.from = from, !.until = until,
                   !.early = IsEarlyRenewal(s, plan), !.prev = s]
        bought == [WithPeriod([s EXCEPT !.plan = plan], periodStart, until)
                     EXCEPT !.status = "active", !.reason = "other", !.prov = p,
                            !.started = FirstOf(@, day)]
    IN /\ p = Earliest(Unused)
       /\ TurnsLeft /\ UnderReview = {}
       /\ ~Loops(Rows)
       /\ MayBuy(r, plan)
       /\ inParts => /\ plan = "term" /\ day + (Installments - 1) * Gap < TermEnd
                     /\ ActiveAgreements(r) = {}
       /\ until > from
       /\ "active" \in AllowedTransitions(s.status)
       /\ Commit(SyncEntitlements([r EXCEPT !.sub = bought, !.pay[p] = card]))
       /\ UNCHANGED <<day, policy, decisions, promised>>

\* A card for the next part of agreement a can be taken (the subscription has
\* to be of the agreement's plan: create_payment).
MayPayPart(r, a) ==
  /\ r.sub.status \in {"active", "suspended"}
  /\ r.sub.start # 0 /\ r.sub.end # 0
  /\ NextNumber(r, a) # 0
  /\ r.sub.plan = r.pay[a].plan
  /\ ~ \E q \in PaymentsOf(r, a) : r.pay[q].review = "rejected"

\* Variant: the hold is left to the next visit of the scheduler.
PaidPart(r, p, card) == [r EXCEPT !.pay[p] = card]

\* The card is recorded and the hold derived again.
WithPart(r, p, card) == RefreshSubscription([r EXCEPT !.pay[p] = card])

\* submit_installment_payment
SubmitInstallment ==
  \E p \in Unused, a \in ActiveAgreements(Rows) :
    LET r == RefreshSubscription(Rows)
        card == [NoCard EXCEPT
                   !.status = "pending", !.review = "pending", !.plan = r.sub.plan,
                   !.number = NextNumber(r, a), !.of = a, !.at = day,
                   !.from = r.sub.start, !.until = r.sub.end, !.prev = r.sub]
    IN /\ p = Earliest(Unused)
       /\ TurnsLeft /\ UnderReview = {}
       /\ ~Loops(Rows)
       /\ MayPayPart(r, a)
       /\ Commit(WithPart(r, p, card))
       /\ UNCHANGED <<day, policy, decisions, promised>>

-----------------------------------------------------------------------------
(* Reviewing a card *)

\* The card is the one the subscription rests on.
Owns(p) == sub.prov = p

\* The row review_manual_recharge leaves when it approves card p.  A card of
\* the current policy is paid for from the day of approval, so its period is
\* derived again from the state before the purchase.
ApprovedFrom(p) ==
  LET prev == pay[p].prev
  IN PaidFrom([sub EXCEPT !.status = prev.status, !.start = prev.start, !.end = prev.end,
                          !.trialEnd = prev.trialEnd, !.grace = prev.grace])
DerivedAgain(p) == Owns(p) /\ policy
ApprovedSub(p) ==
  LET from == ApprovedFrom(p)
      s == IF DerivedAgain(p)
             THEN WithPeriod([sub EXCEPT !.trialEnd = pay[p].prev.trialEnd],
                             from, PaidUntil(pay[p].plan, from))
             ELSE sub
  IN [s EXCEPT !.prov = 0, !.reason = "other"]
ApprovedCard(p) ==
  LET from == ApprovedFrom(p)
      card == [Reviewed(pay[p], "succeeded", "approved")
                 EXCEPT !.timely = sub.status \in Granting]
  IN IF DerivedAgain(p)
       THEN [card EXCEPT !.from = from, !.until = PaidUntil(pay[p].plan, from)]
       ELSE card

\* Variant: a renewal is rolled back in its dates and keeps its plan.
TakenBackDates(p) ==
  LET prev == pay[p].prev
  IN IF pay[p].early
       THEN [sub EXCEPT !.start = prev.start, !.end = prev.end, !.grace = prev.grace]
       ELSE prev

\* The state a refused purchase is rolled back to: of a renewal only the
\* period, of any other purchase the whole snapshot.
TakenBack(p) ==
  LET prev == pay[p].prev
  IN IF pay[p].early
       THEN [sub EXCEPT !.plan = prev.plan, !.start = prev.start, !.end = prev.end,
                        !.grace = prev.grace, !.reason = prev.reason]
     ELSE IF sub.end = pay[p].until THEN prev
     ELSE sub

\* Settling the subscription comes before the payment row is saved, so its
\* refresh still sees the card as pending; a part of an agreement has the hold
\* derived once more afterwards.
SettledSub(p, s) ==
  LET r == [Rows EXCEPT !.sub = [s EXCEPT !.prov = 0]]
  IN IF Owns(p) THEN SyncEntitlements(RefreshSubscription(r)) ELSE Rows
SettledPart(r, p) == IF r.pay[p].of # 0 THEN RefreshSubscription(r) ELSE r

\* refresh_subscription comes back from the row the review leaves.
ReviewReturns(p, s) == Owns(p) => ~Loops([Rows EXCEPT !.sub = s])

\* review_manual_recharge, "approve".
Approve(p) ==
  LET from == ApprovedFrom(p)
      r == [SettledSub(p, ApprovedSub(p)) EXCEPT !.pay[p] = ApprovedCard(p)]
  IN /\ p \in UnderReview
     /\ DerivedAgain(p) => PaidUntil(pay[p].plan, from) > from
     /\ ReviewReturns(p, ApprovedSub(p))
     /\ ~Loops(r)
     /\ Commit(SettledPart(r, p))
     /\ UNCHANGED <<day, policy, decisions, promised>>

\* The refusal of its first part ends an agreement.
Closed(card) == [card EXCEPT !.agreement = IF @ = "active" THEN "cancelled" ELSE @]

\* review_manual_recharge, "reject"; collected says that the card held some
\* money, which is kept.
Reject(p, collected) ==
  LET r == [SettledSub(p, TakenBack(p)) EXCEPT
              !.pay[p] = Closed(Reviewed(@, IF collected THEN "succeeded" ELSE "failed", "rejected"))]
  IN /\ p \in UnderReview
     /\ Owns(p) /\ pay[p].early => pay[p].prev.end # 0 /\ sub.end = pay[p].until
     /\ ReviewReturns(p, TakenBack(p))
     /\ ~Loops(r)
     /\ Commit(SettledPart(r, p))
     /\ UNCHANGED <<day, policy, decisions, promised>>

-----------------------------------------------------------------------------
(* The reader, the administrator, the visits and time *)

\* create_trial_for_user, when the address is verified or a page asks for
\* access: the trial counts from the verification.
CreateTrial ==
  /\ sub.status = "none"
  /\ Commit(SyncEntitlements([Rows EXCEPT !.sub = TrialSub]))
  /\ UNCHANGED <<day, policy, decisions, promised>>

\* schedule_cancellation
ScheduleCancellation ==
  /\ sub.status \in Granting /\ ~sub.cancel
  /\ sub' = [sub EXCEPT !.cancel = TRUE]
  /\ UNCHANGED <<day, ended, grant, pay, policy, decisions, promised>>

\* The subscription page, the lifecycle command and the reconciliation, which
\* syncs as well.  One that does not come back is abandoned.
Visit ==
  /\ sub.status # "none"
  /\ \/ Loops(Rows) /\ UNCHANGED rows
     \/ ~Loops(Rows) /\ Commit(RefreshSubscription(Rows))
     \/ ~Loops(Rows) /\ Commit(SyncEntitlements(RefreshSubscription(Rows)))
  /\ UNCHANGED <<day, policy, decisions, promised>>

Decide == /\ sub.status # "none"
          /\ decisions < MaxDecisions /\ TurnsLeft
          /\ decisions' = decisions + 1
          /\ UNCHANGED <<day, policy>>

\* "suspend" and "cancel_now" of manage_subscription, and any status from the
\* administrator's transition view.
AdminTransition(to) ==
  /\ Decide
  /\ to \in AllowedTransitions(sub.status)
  /\ Commit(Transition(Rows, to, "other"))
  /\ UNCHANGED promised

\* "activate", until a new day or for what is left of the period.
AdminActivate(until) ==
  /\ Decide
  /\ until > day /\ "active" \in AllowedTransitions(sub.status)
  /\ \E from \in {day} \cup (IF until = sub.end THEN {sub.start} ELSE {}) :
       /\ until > from
       /\ LET r == [Rows EXCEPT !.sub = WithPeriod(@, from, until)]
          IN Commit(SyncEntitlements(Transition(r, "active", "other")))
  /\ promised' = LatestOf(promised, sub'.grace)

\* "extend" and "change_expiration".
AdminExtend(until) ==
  /\ Decide
  /\ sub.start # 0 /\ until > sub.start
  /\ Commit(SyncEntitlements(
       [Rows EXCEPT !.sub = [WithPeriod(@, sub.start, until) EXCEPT !.cancel = FALSE,
                                                                    !.reason = "other"]]))
  /\ promised' = LatestOf(promised, sub'.grace)

\* "change_plan"
AdminChangePlan(plan) ==
  /\ Decide
  /\ Commit(SyncEntitlements([Rows EXCEPT !.sub.plan = plan, !.sub.reason = "other"]))
  /\ UNCHANGED promised

\* "cancel_period_end"
AdminCancelAtEnd ==
  /\ Decide
  /\ sub.status \in Granting /\ ~sub.cancel
  /\ Commit(SyncEntitlements([Rows EXCEPT !.sub.cancel = TRUE, !.sub.reason = "other"]))
  /\ UNCHANGED promised

NextDay ==
  /\ day < MaxDay
  /\ day' = day + 1
  /\ UNCHANGED <<rows, policy, decisions, promised>>

PaymentsNext ==
  \/ \E plan \in Plans, inParts \in BOOLEAN : SubmitRecharge(plan, inParts)
  \/ SubmitInstallment
  \/ \E p \in Cards : Approve(p)
  \/ \E p \in Cards, collected \in BOOLEAN : Reject(p, collected)
  \/ CreateTrial
  \/ ScheduleCancellation
  \/ Visit
  \/ \E to \in Statuses : AdminTransition(to)
  \/ \E until \in AdminDays \cup {sub.end} : AdminActivate(until)
  \/ \E until \in AdminDays : AdminExtend(until)
  \/ \E plan \in Plans : AdminChangePlan(plan)
  \/ AdminCancelAtEnd
  \/ NextDay

PaymentsSpec == PaymentsInit /\ [][PaymentsNext]_paymentVars

-----------------------------------------------------------------------------
(* Properties *)

\* With the current policy a card under review opens nothing: whoever has
\* access is in the trial, in an approved card's period or a grace, or in
\* what an administrator gave (sync_subscription_entitlements,
\* review_manual_recharge, _refresh_lifecycle).
NoUnpaidAccess ==
  policy /\ Access =>
    \/ day < sub.trialEnd
    \/ day < promised
    \/ \E p \in Cards : /\ pay[p].review = "approved"
                        /\ day < pay[p].until + GraceLength

\* Whoever has paid has access: a purchase approved in time opens its period
\* to the last day, through renewals, refusals of other cards, holds that were
\* lifted and the visits in between, unless the reader has cancelled, a part
\* is due, the row is suspended, or an administrator decided otherwise
\* (review_manual_recharge).  A hold outlasts its part where a renewal sent
\* before the part fell due is refused after it: the refusal writes the reason
\* of the snapshot over the hold's, and no payment lifts it any more.
PaidMeansAccess ==
  /\ decisions = 0 /\ ~sub.cancel
  /\ UnderReview = {}
  /\ ~ \E a \in ActiveAgreements(Rows) : HoldsBack(Rows, a)
  /\ sub.status # "suspended"
  => \A p \in Cards : /\ pay[p].review = "approved" /\ pay[p].timely
                       /\ pay[p].number < 2
                       /\ day < pay[p].until
                     => Access

\* No day is sold twice: the periods of two approved purchases never overlap
\* (paid_period_window at submission and again at approval).
PeriodsFollow ==
  decisions = 0 =>
    \A p, q \in {c \in Cards : pay[c].review = "approved" /\ pay[c].number < 2} :
      p < q => pay[p].until <= pay[q].from

\* A refused purchase leaves nothing behind: if no decision came in between,
\* no part is due and the period it asked for is not over, the reader has
\* after the refusal the access the state before the purchase would give that
\* day (review_manual_recharge, reject).
RefusalRestores ==
  [][\A p \in Cards :
       (/\ pay[p].review = "pending" /\ pay'[p].review = "rejected" /\ Owns(p)
        /\ decisions = 0 /\ ~sub.cancel /\ day < pay[p].until
        /\ ~ \E a \in ActiveAgreements(Rows) : HoldsBack(Rows, a))
       => LET prev == pay[p].prev
              open == RefreshLifecycle([Rows EXCEPT !.sub = [prev EXCEPT !.prov = 0]]).sub
          IN /\ sub'.end = prev.end /\ sub'.plan = prev.plan
             /\ sub'.status \in Granting <=> open.status \in Granting
             /\ sub'.prov = 0]_paymentVars

\* A hold never outlives its reason: after every submission, review and visit,
\* a subscription suspended for an installment has an installment that is due
\* and not covered by a card sent in time.  The one exception takes decisions
\* of an administrator: the end of the period was recorded before, so that
\* enforce_installments can neither lift the hold nor end the subscription
\* (enforce_installments).
HoldHasReason ==
  HeldBack(sub) =>
    \/ \E a \in ActiveAgreements(Rows) : HoldsBack(Rows, a)
    \/ decisions > 0 /\ <<"period", sub.end>> \in ended

\* A review settles the payment whatever became of the subscription: a card
\* under review can always be refused (review_manual_recharge:803).
ReviewSettles == \A p \in UnderReview : ReviewReturns(p, TakenBack(p))

=============================================================================
