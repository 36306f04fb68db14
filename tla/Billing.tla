------------------------------- MODULE Billing -------------------------------
(***************************************************************************)
(* RecoverFlow's own subscriptions, for one merchant: checkout requests    *)
(* open a Stripe session, the merchant pays it, and the BillingSubscription*)
(* row follows by three ways: checkout.session.completed, the subscription *)
(* and invoice events, and the success page's reconciliation.  Stripe      *)
(* delivers events late, in any order and more than once.                  *)
(*                                                                         *)
(* A delivery's transaction runs at READ COMMITTED: it reads the row, and  *)
(* a later step writes row and receipt together or rolls back.  Checkout's *)
(* idempotency key makes one session, and so one subscription, per tier,   *)
(* which the tier names.                                                   *)
(***************************************************************************)
EXTENDS Naturals, Sequences, FiniteSets

CONSTANTS
    Tiers,       \* self-serve plans, each the id of its session and subscription
    Requests,    \* concurrent requests: checkout, Stripe webhook, success page
    None,        \* no tier, no subscription
    MaxNow,      \* bound: changes Stripe makes, each in a second of its own
    MaxFaults    \* bound: requests that die, events delivered again after their receipt

ASSUME NoneAssumption == None \notin Tiers
ASSUME BoundsAssumption == MaxNow \in Nat /\ MaxFaults \in Nat

VARIABLES
    row,        \* the BillingSubscription row
    receipts,   \* Stripe events with a WebhookReceipt
    now,        \* Stripe's clock, in seconds
    open,       \* checkout sessions created and not paid
    sub,        \* Stripe's subscriptions
    events,     \* the events Stripe has created, in order
    at,         \* where each request is
    tier,       \* the tier a checkout or a success page is about
    ev,         \* the event a delivery carries
    found,      \* what a success page has retrieved
    faults,     \* faults so far
    raced       \* history: the kinds of races there have been

local == <<row, receipts>>
stripe == <<now, open, sub, events>>
procs == <<at, tier, ev, found>>
vars == <<local, stripe, procs, faults, raced>>

Optional(S) == S \cup {None}
RowStatuses == {"INCOMPLETE", "ACTIVE", "PAST_DUE", "CANCELED"}
Live == {"ACTIVE", "TRIALING", "PAST_DUE"}      \* ACTIVE_SUBSCRIPTION_STATUSES
SubStatuses == {"none", "active", "past_due", "canceled"}

EventRecords ==
    [type : {"completed", "subscription", "invoice"}, sub : Tiers,
     status : RowStatuses, price : Tiers, created : Nat]

TypeOK ==
    /\ row \in [status : RowStatuses, plan : Optional(Tiers), sub : Optional(Tiers),
                customer : BOOLEAN, last : Nat]
    /\ receipts \subseteq DOMAIN events
    /\ now \in 0..MaxNow
    /\ open \subseteq Tiers
    /\ sub \in [Tiers -> [status : SubStatuses, price : Tiers]]
    /\ events \in Seq(EventRecords)
    /\ at \in [Requests -> {"idle", "customer", "session", "associate", "update",
                         "receipt", "retrieve", "write"}]
    /\ tier \in [Requests -> Optional(Tiers)]
    /\ ev \in [Requests -> {0} \cup DOMAIN events]
    /\ found \in [Requests -> SubStatuses]
    /\ faults \in Nat
    /\ raced \subseteq {"transaction", "page"}

(* lastStripeEventAt 0 stands for null: Stripe's first second is 1.        *)
Init ==
    /\ row = [status |-> "INCOMPLETE", plan |-> None, sub |-> None,
              customer |-> FALSE, last |-> 0]
    /\ receipts = {}
    /\ now = 0
    /\ open = {}
    /\ sub = [t \in Tiers |-> [status |-> "none", price |-> t]]
    /\ events = <<>>
    /\ at = [p \in Requests |-> "idle"]
    /\ tier = [p \in Requests |-> None]
    /\ ev = [p \in Requests |-> 0]
    /\ found = [p \in Requests |-> "none"]
    /\ faults = 0
    /\ raced = {}

----------------------------------------------------------------------------
Goto(p, place) ==
    /\ at' = [at EXCEPT ![p] = place]
    /\ UNCHANGED <<tier, ev, found>>

Leave(p) ==
    /\ at' = [at EXCEPT ![p] = "idle"]
    /\ tier' = [tier EXCEPT ![p] = None]
    /\ ev' = [ev EXCEPT ![p] = 0]
    /\ found' = [found EXCEPT ![p] = "none"]

mapStripeStatus(s) ==
    CASE s = "active" -> "ACTIVE"
      [] s = "past_due" -> "PAST_DUE"
      [] OTHER -> "CANCELED"

(* A write falls into the transaction of a delivery, after its read.       *)
Overlap(p) ==
    IF \E q \in Requests \ {p} : at[q] \in {"associate", "update", "receipt"}
    THEN {"transaction"} ELSE {}

(* An event is applied before the write of a success page that read an     *)
(* older status than Stripe has by now.                                    *)
Outrun ==
    IF \E q \in Requests : at[q] = "write" /\ found[q] # sub[tier[q]].status
    THEN {"page"} ELSE {}

----------------------------------------------------------------------------
(* createCheckoutSession: the guard reads the row once, at the start.      *)

MayCheckOut == row.status \notin Live

BeginCheckout(p, t) ==
    /\ at[p] = "idle"
    /\ MayCheckOut
    /\ at' = [at EXCEPT ![p] = IF row.customer THEN "session" ELSE "customer"]
    /\ tier' = [tier EXCEPT ![p] = t]
    /\ UNCHANGED <<local, stripe, ev, found, faults, raced>>

EnsureCustomer_SetsPlan(p) ==
    /\ at[p] = "customer"
    /\ row' = [row EXCEPT !.customer = TRUE, !.plan = tier[p]]
    /\ Goto(p, "session")
    /\ UNCHANGED <<receipts, stripe, faults, raced>>

(* The upsert: its create sets the plan, its update leaves it alone.       *)
EnsureCustomer(p) ==
    /\ at[p] = "customer"
    /\ row' = [row EXCEPT !.customer = TRUE, !.plan = IF row.customer THEN @ ELSE tier[p]]
    /\ Goto(p, "session")
    /\ UNCHANGED <<receipts, stripe, faults, raced>>

(* A second request for the same tier is given the session of the first.   *)
CreateSession(p) ==
    /\ at[p] = "session"
    /\ open' = IF sub[tier[p]].status = "none" THEN open \cup {tier[p]} ELSE open
    /\ Leave(p)
    /\ UNCHANGED <<local, now, sub, events, faults, raced>>

----------------------------------------------------------------------------
(* Stripe and the merchant's customer portal.                              *)

Change(t, status, price, types) ==
    /\ now < MaxNow
    /\ now' = now + 1
    /\ sub' = [sub EXCEPT ![t] = [status |-> status, price |-> price]]
    /\ events' = events \o [i \in DOMAIN types |->
                    [type |-> types[i], sub |-> t, status |-> mapStripeStatus(status),
                     price |-> price, created |-> now']]
    /\ UNCHANGED <<local, procs, faults, raced>>

Pay(t) ==
    /\ t \in open
    /\ open' = open \ {t}
    /\ Change(t, "active", t, <<"completed", "subscription", "invoice">>)

RenewalFails(t) ==
    /\ sub[t].status = "active"
    /\ Change(t, "past_due", sub[t].price, <<"subscription", "invoice">>)
    /\ UNCHANGED open

RenewalPaid(t) ==
    /\ sub[t].status \in {"active", "past_due"}
    /\ Change(t, "active", sub[t].price, <<"subscription", "invoice">>)
    /\ UNCHANGED open

ChangePlan(t, price) ==
    /\ sub[t].status \in {"active", "past_due"}
    /\ price # sub[t].price
    /\ Change(t, sub[t].status, price, <<"subscription">>)
    /\ UNCHANGED open

Cancel(t) ==
    /\ sub[t].status \in {"active", "past_due"}
    /\ Change(t, "canceled", sub[t].price, <<"subscription">>)
    /\ UNCHANGED open

----------------------------------------------------------------------------
(* applyStripeEvent.  Stripe delivers an event until it is acknowledged,   *)
(* and sometimes again.                                                    *)

isStripeEventStale_Never(created) == FALSE

isStripeEventStale(created) == row.last # 0 /\ created < row.last

Decide(i) == IF isStripeEventStale(events[i].created) THEN "receipt" ELSE "update"

(* The first statement: none for a completed checkout, the row bound to    *)
(* the subscription for its events, the customer's row for an invoice.     *)
Deliver(p, i) ==
    LET e == events[i]
    IN  /\ at[p] = "idle"
        /\ i \in DOMAIN events
        /\ i \in receipts => faults < MaxFaults
        /\ faults' = IF i \in receipts THEN faults + 1 ELSE faults
        /\ at' = [at EXCEPT ![p] =
                    CASE e.type = "completed" -> "update"
                      [] e.type = "subscription" /\ row.sub # e.sub -> "associate"
                      [] OTHER -> Decide(i)]
        /\ ev' = [ev EXCEPT ![p] = i]
        /\ UNCHANGED <<local, stripe, tier, found, raced>>

(* The second: the customer's row, a target only while it is not bound.    *)
Associate(p) ==
    /\ at[p] = "associate"
    /\ Goto(p, IF row.sub = None THEN Decide(ev[p]) ELSE "receipt")
    /\ UNCHANGED <<local, stripe, faults, raced>>

Written(e) ==
    CASE e.type = "completed" ->
            [row EXCEPT !.sub = e.sub, !.plan = e.sub, !.customer = TRUE]
      [] e.type = "subscription" ->
            [row EXCEPT !.status = e.status, !.sub = e.sub, !.plan = e.price,
                        !.last = e.created]
      [] e.type = "invoice" ->
            [row EXCEPT !.status = e.status, !.last = e.created]

(* Update and receipt commit together; a receipt that exists rolls both    *)
(* back.                                                                   *)
Commit(p) ==
    LET i == ev[p]
    IN  /\ at[p] \in {"update", "receipt"}
        /\ receipts' = receipts \cup {i}
        /\ IF i \notin receipts /\ at[p] = "update"
           THEN /\ row' = Written(events[i])
                /\ raced' = raced \cup Overlap(p) \cup Outrun
           ELSE UNCHANGED <<row, raced>>
        /\ Leave(p)
        /\ UNCHANGED <<stripe, faults>>

----------------------------------------------------------------------------
(* The success page of a paid session, while the row is not ACTIVE:        *)
(* reconcileCheckoutSession asks Stripe first and writes the row later,    *)
(* with no regard to lastStripeEventAt.  An unpaid session changes nothing.*)

VisitSuccessPage(p, t) ==
    /\ at[p] = "idle"
    /\ sub[t].status # "none"
    /\ row.status # "ACTIVE"
    /\ at' = [at EXCEPT ![p] = "retrieve"]
    /\ tier' = [tier EXCEPT ![p] = t]
    /\ UNCHANGED <<local, stripe, ev, found, faults, raced>>

Retrieve(p) ==
    /\ at[p] = "retrieve"
    /\ at' = [at EXCEPT ![p] = "write"]
    /\ found' = [found EXCEPT ![p] = sub[tier[p]].status]
    /\ UNCHANGED <<local, stripe, tier, ev, faults, raced>>

Reconcile_StatusAsIs(p) ==
    /\ at[p] = "write"
    /\ row' = [row EXCEPT !.status = found[p],
                          !.sub = tier[p], !.plan = tier[p], !.customer = TRUE]
    /\ raced' = raced \cup Overlap(p)
    /\ Leave(p)
    /\ UNCHANGED <<receipts, stripe, faults>>

Reconcile(p) ==
    /\ at[p] = "write"
    /\ row' = [row EXCEPT !.status = mapStripeStatus(found[p]),
                          !.sub = tier[p], !.plan = tier[p], !.customer = TRUE]
    /\ raced' = raced \cup Overlap(p)
    /\ Leave(p)
    /\ UNCHANGED <<receipts, stripe, faults>>

----------------------------------------------------------------------------
(* The request dies or a statement rejects; a transaction rolls back.      *)
Abandon(p) ==
    /\ faults < MaxFaults
    /\ faults' = faults + 1
    /\ at[p] # "idle"
    /\ Leave(p)
    /\ UNCHANGED <<local, stripe, raced>>

StripeActs(t) ==
    \/ Pay(t) \/ RenewalFails(t) \/ RenewalPaid(t) \/ Cancel(t)
    \/ \E price \in Tiers : ChangePlan(t, price)

(* What a request that was started does next.                              *)
GoOn(p) ==
    \/ EnsureCustomer(p) \/ CreateSession(p)
    \/ Associate(p) \/ Commit(p)
    \/ Retrieve(p) \/ Reconcile(p)

Next ==
    \/ \E t \in Tiers : StripeActs(t)
    \/ \E p \in Requests, t \in Tiers : BeginCheckout(p, t) \/ VisitSuccessPage(p, t)
    \/ \E p \in Requests, i \in DOMAIN events : Deliver(p, i)
    \/ \E p \in Requests : GoOn(p) \/ Abandon(p)

Spec == Init /\ [][Next]_vars

----------------------------------------------------------------------------
(* The row's readers: the plan limit (None: the entry-level cap applies)   *)
(* and the billing page.                                                   *)

getActivePlan == IF row.status \in Live THEN row.plan ELSE None

stateFor(status) ==
    CASE status \in {"ACTIVE", "TRIALING"} -> "active"
      [] status = "PAST_DUE" -> "past_due"
      [] status = "CANCELED" -> "canceled"
      [] OTHER -> "none"

billingView ==
    LET state == stateFor(row.status)
    IN  [state |-> state,
         plan |-> IF state = "none" THEN None ELSE row.plan,
         canManageBilling |-> state # "none" /\ row.customer]

----------------------------------------------------------------------------
(* Properties.                                                             *)

(* Whichever of checkout, completed, subscription event and success page   *)
(* wrote last: a row bound to a subscription shows a plan that this        *)
(* subscription has been sold as.                                          *)
SoldAs(t) == {t} \cup {events[i].price : i \in {j \in DOMAIN events : events[j].sub = t}}

PlanIsOfSubscription == row.sub # None => row.plan \in SoldAs(row.sub)

(* However many subscriptions tell of themselves at once, and in whatever  *)
(* order: unless a write fell into a delivery's transaction, the event     *)
(* time of the row never goes back, so what an older event says is not put *)
(* over a newer one; and an event never takes a bound row over to another  *)
(* subscription, which only a completed checkout and the success page do,  *)
(* and they leave the event time alone.                                    *)
RowKeepsOrder ==
    [][\/ "transaction" \in raced'
       \/ /\ row'.last >= row.last
          /\ row.sub \in {None, row'.sub} \/ row'.last = row.last]_vars

(* For a merchant with one subscription, late, reordered and repeated      *)
(* events and visits of the success page do no harm in the end, even if    *)
(* events are applied between a page's question to Stripe and its write:   *)
(* once all events are receipted, the billing page shows Stripe's status,  *)
(* the cap of the purchased plan applies unless Stripe canceled the        *)
(* subscription, and exactly then a new checkout is allowed.  Two races    *)
(* are excluded: a write inside a delivery's transaction, and an event     *)
(* applied before the write of a page whose answer Stripe had overtaken by *)
(* then: such a page restores the older status.                            *)
Paid == {t \in Tiers : sub[t].status # "none"}

Quiet == receipts = DOMAIN events /\ \A p \in Requests : at[p] = "idle"

FirstSubscriptionConverges ==
    \A t \in Tiers :
        Paid = {t} /\ Quiet /\ raced = {}
            => /\ row.sub = t
               /\ billingView.state = sub[t].status
               /\ billingView.canManageBilling
               /\ getActivePlan = None <=> sub[t].status = "canceled"
               /\ MayCheckOut <=> sub[t].status = "canceled"

==============================================================================
