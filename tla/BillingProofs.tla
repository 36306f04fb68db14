---------------------------- MODULE BillingProofs ----------------------------
(***************************************************************************)
(* Machine-checked theorems about Billing, for any plans, any number of    *)
(* concurrent requests, of Stripe's changes and of faults: a row shows a   *)
(* plan its subscription was sold as, and a merchant's first subscription  *)
(* ends with the row Stripe's events ask for.                              *)
(***************************************************************************)
EXTENDS Billing, SequenceTheorems, TLAPS

Types == {"completed", "subscription", "invoice"}

(* The last thing Stripe told of its last change: every change sends a     *)
(* subscription event.                                                     *)
Newest(i) ==
    i \in DOMAIN events /\ events[i].type = "subscription" /\ events[i].created = now

----------------------------------------------------------------------------
(* The inductive invariant.                                                *)

(* What Stripe has said, it has said of paid subscriptions, in order of    *)
(* time; the newest events tell the present state.                         *)
EventsTell ==
    /\ \A i \in DOMAIN events :
          /\ events[i].sub \in Paid
          /\ events[i].created \in 1..now
          /\ events[i].created = now => events[i].status = mapStripeStatus(sub[events[i].sub].status)
    /\ Paid # {} => \E i \in DOMAIN events : Newest(i)

(* A request that is under way carries what its statements use.            *)
RequestsCarry ==
    \A p \in Requests :
        /\ at[p] \in {"customer", "session"} => tier[p] \in Tiers
        /\ at[p] \in {"retrieve", "write"} => tier[p] \in Paid
        /\ at[p] = "write" => found[p] # "none"
        /\ at[p] \in {"associate", "update", "receipt"} => ev[p] \in DOMAIN events
        /\ at[p] = "associate" => events[ev[p]].type = "subscription"

(* Nothing can be bought, and nothing bound, without a customer; the row   *)
(* follows what Stripe has said.                                           *)
RowFollows ==
    /\ (\E p \in Requests : at[p] = "session") => row.customer
    /\ open # {} => row.customer
    /\ Paid # {} => row.customer
    /\ row.sub \in Paid \cup {None}
    /\ row.last \in 0..now

(* For a first subscription, with no write inside a delivery's transaction *)
(* and no event applied before the write of an outdated success page: what *)
(* a delivery found out about the row before its write still holds, and    *)
(* once the newest subscription event is receipted, the row shows it and   *)
(* no success page is about to write an older status.                      *)
FirstOnly == \A s, t \in Paid : s = t

DecisionsHold ==
    \A p \in Requests :
        /\ at[p] = "associate" => row.sub # events[ev[p]].sub
        /\ at[p] = "update" /\ events[ev[p]].type # "completed"
              => ~isStripeEventStale(events[ev[p]].created)
        /\ at[p] = "receipt" => isStripeEventStale(events[ev[p]].created)

NewestIsShown ==
    \A i \in receipts :
        Newest(i) =>
            /\ row.sub = events[i].sub
            /\ row.status = events[i].status
            /\ row.last = now
            /\ \A p \in Requests : at[p] = "write" => found[p] = sub[tier[p]].status

Undisturbed == FirstOnly /\ raced = {} => DecisionsHold /\ NewestIsShown

BillingInv ==
    /\ TypeOK /\ EventsTell /\ RequestsCarry /\ RowFollows
    /\ PlanIsOfSubscription /\ Undisturbed

----------------------------------------------------------------------------
(* Lemmas.                                                                 *)

Places == {"idle", "customer", "session", "associate", "update", "receipt", "retrieve", "write"}

Rows ==
    [status : RowStatuses, plan : Optional(Tiers), sub : Optional(Tiers),
     customer : BOOLEAN, last : Nat]

LEMMA StatusIsMapped == \A s : mapStripeStatus(s) \in RowStatuses
BY DEF mapStripeStatus, RowStatuses

(* What Stripe knows and has said changes with Stripe's steps only.        *)
LEMMA SameStripe ==
    ASSUME EventsTell, UNCHANGED stripe
    PROVE  /\ EventsTell' /\ Paid' = Paid /\ events' = events /\ now' = now /\ sub' = sub
           /\ FirstOnly' = FirstOnly /\ \A i : Newest(i)' = Newest(i)
<1>1. events' = events /\ now' = now /\ sub' = sub
  BY DEF stripe
<1>2. Paid' = Paid
  BY <1>1 DEF Paid
<1>3. \A i : Newest(i)' = Newest(i)
  BY <1>1 DEF Newest
<1>4. FirstOnly' = FirstOnly
  BY <1>2 DEF FirstOnly
<1>5. EventsTell'
  BY <1>1, <1>2, <1>3 DEF EventsTell
<1>6. QED
  BY <1>1, <1>2, <1>3, <1>4, <1>5

(* A request that ends.                                                    *)
LEMMA LeaveIsSafe ==
    ASSUME TypeOK, NEW p \in Requests, Leave(p), RequestsCarry,
           UNCHANGED events, Paid' = Paid
    PROVE  /\ at' \in [Requests -> Places] /\ tier' \in [Requests -> Optional(Tiers)]
           /\ ev' \in [Requests -> {0} \cup DOMAIN events] /\ found' \in [Requests -> SubStatuses]
           /\ RequestsCarry'
           /\ at'[p] = "idle"
           /\ \A q \in Requests \ {p} :
                 at'[q] = at[q] /\ tier'[q] = tier[q] /\ ev'[q] = ev[q] /\ found'[q] = found[q]
<1>1. /\ at' \in [Requests -> Places] /\ tier' \in [Requests -> Optional(Tiers)]
      /\ ev' \in [Requests -> {0} \cup DOMAIN events] /\ found' \in [Requests -> SubStatuses]
  BY DEF TypeOK, Leave, Places, Optional, SubStatuses
<1>2. at'[p] = "idle"
  BY DEF TypeOK, Leave
<1>3. \A q \in Requests \ {p} :
         at'[q] = at[q] /\ tier'[q] = tier[q] /\ ev'[q] = ev[q] /\ found'[q] = found[q]
  BY DEF TypeOK, Leave
<1>4. RequestsCarry'
  BY <1>2, <1>3 DEF RequestsCarry
<1>5. QED
  BY <1>1, <1>2, <1>3, <1>4

LEMMA InitBilling == Init => BillingInv
<1> SUFFICES ASSUME Init PROVE BillingInv
  OBVIOUS
<1> USE DEF Init
<1>1. Paid = {} /\ DOMAIN events = {}
  BY DEF Paid
<1>2. TypeOK
  <2>1. now \in 0..MaxNow
    BY BoundsAssumption
  <2>2. events \in Seq(EventRecords)
    OBVIOUS
  <2>3. QED
    BY <2>1, <2>2 DEF TypeOK, Optional, RowStatuses, SubStatuses
<1>3. EventsTell
  BY <1>1 DEF EventsTell
<1>4. RequestsCarry /\ RowFollows /\ PlanIsOfSubscription
  BY <1>1 DEF RequestsCarry, RowFollows, PlanIsOfSubscription
<1>5. Undisturbed
  BY DEF Undisturbed, DecisionsHold, NewestIsShown
<1>6. QED
  BY <1>2, <1>3, <1>4, <1>5 DEF BillingInv

(* Requests that only read: they carry on with what they have read.        *)
LEMMA ReadPreserves ==
    ASSUME BillingInv, NEW p \in Requests, UNCHANGED <<local, stripe, raced>>,
           \/ \E t \in Tiers : BeginCheckout(p, t) \/ VisitSuccessPage(p, t)
           \/ \E i \in DOMAIN events : Deliver(p, i)
           \/ Associate(p) \/ Retrieve(p) \/ Abandon(p)
    PROVE  BillingInv'
<1> USE DEF BillingInv
<1>1. /\ EventsTell' /\ Paid' = Paid /\ events' = events /\ now' = now /\ sub' = sub
      /\ FirstOnly' = FirstOnly /\ \A i : Newest(i)' = Newest(i)
  BY SameStripe
<1>2. row' = row /\ receipts' = receipts /\ open' = open /\ raced' = raced
  BY DEF local, stripe
<1>3. PlanIsOfSubscription'
  BY <1>1, <1>2 DEF PlanIsOfSubscription, SoldAs
<1>4. \A j : isStripeEventStale(events[j].created)' = isStripeEventStale(events[j].created)
  BY <1>1, <1>2 DEF isStripeEventStale
<1>5. \A q \in Requests \ {p} :
         at'[q] = at[q] /\ tier'[q] = tier[q] /\ ev'[q] = ev[q] /\ found'[q] = found[q]
  BY DEF TypeOK, BeginCheckout, VisitSuccessPage, Deliver, Associate, Retrieve, Abandon,
         Goto, Leave
<1>6. ASSUME /\ at' \in [Requests -> Places] /\ tier' \in [Requests -> Optional(Tiers)]
             /\ ev' \in [Requests -> {0} \cup DOMAIN events] /\ found' \in [Requests -> SubStatuses]
             /\ faults' \in Nat
      PROVE  TypeOK'
  BY <1>1, <1>2, <1>6 DEF TypeOK, Places
<1>7. ASSUME at'[p] = "session" => row.customer
      PROVE  RowFollows'
  BY <1>1, <1>2, <1>5, <1>7 DEF RowFollows
<1>8. ASSUME at'[p] \notin {"associate", "update", "receipt", "write"}
      PROVE  Undisturbed'
  BY <1>1, <1>2, <1>4, <1>5, <1>8 DEF Undisturbed, DecisionsHold, NewestIsShown
<1>9. ASSUME NEW t \in Tiers, BeginCheckout(p, t) PROVE BillingInv'
  <2>1. /\ at'[p] \in {"customer", "session"} /\ tier'[p] = t
        /\ at'[p] = "session" => row.customer
    BY <1>9 DEF TypeOK, BeginCheckout
  <2>2. /\ at' \in [Requests -> Places] /\ tier' \in [Requests -> Optional(Tiers)]
        /\ ev' = ev /\ found' = found /\ faults' = faults
    BY <1>9 DEF TypeOK, BeginCheckout, Places, Optional
  <2>3. TypeOK'
    BY <1>6, <2>2 DEF TypeOK
  <2>4. RequestsCarry'
    BY <1>1, <1>5, <2>1 DEF RequestsCarry
  <2>5. RowFollows' /\ Undisturbed'
    BY <1>7, <1>8, <2>1
  <2>6. QED
    BY <1>1, <1>3, <2>3, <2>4, <2>5
<1>10. ASSUME NEW t \in Tiers, VisitSuccessPage(p, t) PROVE BillingInv'
  <2>1. at'[p] = "retrieve" /\ tier'[p] = t /\ t \in Paid
    BY <1>10 DEF TypeOK, VisitSuccessPage, Paid
  <2>2. /\ at' \in [Requests -> Places] /\ tier' \in [Requests -> Optional(Tiers)]
        /\ ev' = ev /\ found' = found /\ faults' = faults
    BY <1>10 DEF TypeOK, VisitSuccessPage, Places, Optional
  <2>3. TypeOK'
    BY <1>6, <2>2 DEF TypeOK
  <2>4. RequestsCarry'
    BY <1>1, <1>5, <2>1 DEF RequestsCarry
  <2>5. RowFollows' /\ Undisturbed'
    BY <1>7, <1>8, <2>1
  <2>6. QED
    BY <1>1, <1>3, <2>3, <2>4, <2>5
<1>11. CASE Abandon(p)
  <2>1. /\ at' \in [Requests -> Places] /\ tier' \in [Requests -> Optional(Tiers)]
        /\ ev' \in [Requests -> {0} \cup DOMAIN events] /\ found' \in [Requests -> SubStatuses]
        /\ RequestsCarry' /\ at'[p] = "idle"
    BY <1>1, <1>11, LeaveIsSafe DEF Abandon
  <2>2. faults' \in Nat
    BY <1>11 DEF TypeOK, Abandon
  <2>3. TypeOK'
    BY <1>6, <2>1, <2>2
  <2>4. RowFollows' /\ Undisturbed'
    BY <1>7, <1>8, <2>1
  <2>5. QED
    BY <1>1, <1>3, <2>1, <2>3, <2>4
<1>12. CASE Retrieve(p)
  <2>1. /\ at[p] = "retrieve" /\ at'[p] = "write" /\ tier'[p] = tier[p] /\ tier[p] \in Paid
        /\ found'[p] = sub[tier[p]].status
    BY <1>12 DEF TypeOK, Retrieve, RequestsCarry
  <2>2. found'[p] \in SubStatuses \ {"none"}
    BY <2>1 DEF Paid, TypeOK
  <2>3. /\ at' \in [Requests -> Places] /\ found' \in [Requests -> SubStatuses]
        /\ tier' = tier /\ ev' = ev /\ faults' = faults
    BY <1>12, <2>1, <2>2 DEF TypeOK, Retrieve, Places
  <2>4. TypeOK'
    BY <1>6, <2>3 DEF TypeOK
  <2>5. RequestsCarry'
    BY <1>1, <1>5, <2>1, <2>2 DEF RequestsCarry
  <2>6. RowFollows'
    BY <1>7, <2>1
  <2>7. Undisturbed'
    BY <1>1, <1>2, <1>4, <1>5, <2>1 DEF Undisturbed, DecisionsHold, NewestIsShown
  <2>8. QED
    BY <1>1, <1>3, <2>4, <2>5, <2>6, <2>7
<1>13. ASSUME NEW i \in DOMAIN events, Deliver(p, i) PROVE BillingInv'
  <2>1. /\ ev'[p] = i
        /\ at'[p] = CASE events[i].type = "completed" -> "update"
                      [] events[i].type = "subscription" /\ row.sub # events[i].sub -> "associate"
                      [] OTHER -> Decide(i)
    BY <1>13 DEF TypeOK, Deliver
  <2>2. Decide(i) \in {"update", "receipt"}
    BY DEF Decide
  <2>3. /\ at'[p] \in {"associate", "update", "receipt"}
        /\ at'[p] = "associate"
              => events[i].type = "subscription" /\ row.sub # events[i].sub
        /\ at'[p] = "update" /\ events[i].type # "completed"
              => ~isStripeEventStale(events[i].created)
        /\ at'[p] = "receipt" => isStripeEventStale(events[i].created)
    BY <2>1, <2>2 DEF Decide
  <2>4. /\ at' \in [Requests -> Places] /\ ev' \in [Requests -> {0} \cup DOMAIN events]
        /\ tier' = tier /\ found' = found
    <3>1. at' = [at EXCEPT ![p] = at'[p]]
      BY <1>13, <2>1 DEF Deliver
    <3>2. at'[p] \in Places
      BY <2>3 DEF Places
    <3>3. at' \in [Requests -> Places]
      BY <3>1, <3>2 DEF TypeOK, Places
    <3>4. QED
      BY <1>13, <3>3 DEF TypeOK, Deliver
  <2>5. faults' \in Nat
    BY <1>13 DEF TypeOK, Deliver
  <2>6. TypeOK'
    BY <1>6, <2>4, <2>5 DEF TypeOK
  <2>7. RequestsCarry'
    BY <1>1, <1>5, <2>1, <2>3 DEF RequestsCarry
  <2>8. RowFollows'
    BY <1>7, <2>3
  <2>9. Undisturbed'
    BY <1>1, <1>2, <1>4, <1>5, <2>1, <2>3 DEF Undisturbed, DecisionsHold, NewestIsShown
  <2>10. QED
    BY <1>1, <1>3, <2>6, <2>7, <2>8, <2>9
<1>14. CASE Associate(p)
  <2> DEFINE i == ev[p]
  <2>1. /\ i \in DOMAIN events /\ events[i].type = "subscription" /\ at[p] = "associate"
        /\ ev' = ev /\ tier' = tier /\ found' = found /\ faults' = faults
        /\ at'[p] = IF row.sub = None THEN Decide(i) ELSE "receipt"
        /\ at' = [at EXCEPT ![p] = at'[p]]
    BY <1>14 DEF TypeOK, Associate, Goto, RequestsCarry
  <2>2. at'[p] \in {"update", "receipt"}
    BY <2>1 DEF Decide
  <2>3. at' \in [Requests -> Places]
    BY <2>1, <2>2 DEF TypeOK, Places
  <2>4. TypeOK'
    BY <1>6, <2>1, <2>3 DEF TypeOK
  <2>5. RequestsCarry'
    BY <1>1, <1>5, <2>1, <2>2 DEF RequestsCarry
  <2>6. RowFollows'
    BY <1>7, <2>2
  <2>7. ASSUME FirstOnly, raced = {}, DecisionsHold PROVE DecisionsHold'
    <3>1. row.sub # events[i].sub
      BY <2>1, <2>7 DEF DecisionsHold
    <3>2. row.sub = None
      BY <2>1, <2>7, <3>1 DEF RowFollows, EventsTell, FirstOnly
    <3>3. at'[p] = Decide(i)
      BY <2>1, <3>2
    <3>4. /\ at'[p] = "update" => ~isStripeEventStale(events[i].created)
          /\ at'[p] = "receipt" => isStripeEventStale(events[i].created)
      BY <3>3 DEF Decide
    <3>5. QED
      BY <1>1, <1>2, <1>4, <1>5, <2>1, <2>2, <2>7, <3>4 DEF DecisionsHold
  <2>8. Undisturbed'
    BY <1>1, <1>2, <1>5, <2>2, <2>7 DEF Undisturbed, NewestIsShown
  <2>9. QED
    BY <1>1, <1>3, <2>4, <2>5, <2>6, <2>8
<1>15. QED
  BY <1>9, <1>10, <1>11, <1>12, <1>13, <1>14

(* The checkout's own writes.                                              *)
LEMMA CheckoutPreserves ==
    ASSUME BillingInv, NEW p \in Requests, EnsureCustomer(p) \/ CreateSession(p)
    PROVE  BillingInv'
<1> USE DEF BillingInv
<1>1. CASE EnsureCustomer(p)
  <2>1. /\ at[p] = "customer" /\ tier[p] \in Tiers /\ UNCHANGED <<receipts, stripe, faults, raced>>
        /\ tier' = tier /\ ev' = ev /\ found' = found
        /\ at' \in [Requests -> Places] /\ at'[p] = "session"
        /\ \A q \in Requests \ {p} : at'[q] = at[q]
    BY <1>1 DEF TypeOK, EnsureCustomer, Goto, RequestsCarry, Places
  <2>2. /\ EventsTell' /\ Paid' = Paid /\ events' = events /\ now' = now /\ sub' = sub
        /\ FirstOnly' = FirstOnly /\ \A i : Newest(i)' = Newest(i)
    BY <2>1, SameStripe
  <2>3. /\ row' \in Rows /\ row'.customer = TRUE /\ row'.sub = row.sub
        /\ row'.status = row.status /\ row'.last = row.last
        /\ row.customer => row'.plan = row.plan
    BY <1>1, <2>1 DEF TypeOK, EnsureCustomer, Rows, Optional
  <2>4. TypeOK'
    BY <2>1, <2>2, <2>3 DEF TypeOK, Rows, Places, stripe
  <2>5. RequestsCarry'
    BY <2>1, <2>2 DEF RequestsCarry
  <2>6. RowFollows'
    BY <2>1, <2>2, <2>3 DEF RowFollows
  <2>7. PlanIsOfSubscription'
    <3>1. row.sub # None => row'.plan = row.plan
      BY <2>3 DEF RowFollows
    <3>2. QED
      BY <2>2, <2>3, <3>1 DEF PlanIsOfSubscription, SoldAs
  <2>8. \A j : isStripeEventStale(events[j].created)' = isStripeEventStale(events[j].created)
    BY <2>2, <2>3 DEF isStripeEventStale
  <2>9. Undisturbed'
    BY <2>1, <2>2, <2>3, <2>8 DEF Undisturbed, DecisionsHold, NewestIsShown
  <2>10. QED
    BY <2>2, <2>4, <2>5, <2>6, <2>7, <2>9
<1>2. CASE CreateSession(p)
  <2>1. /\ at[p] = "session" /\ tier[p] \in Tiers /\ Leave(p)
        /\ row' = row /\ receipts' = receipts /\ now' = now /\ sub' = sub /\ events' = events
        /\ faults' = faults /\ raced' = raced /\ open' \subseteq Tiers
    BY <1>2 DEF TypeOK, CreateSession, RequestsCarry, local
  <2>2. Paid' = Paid /\ FirstOnly' = FirstOnly /\ \A i : Newest(i)' = Newest(i)
    BY <2>1 DEF Paid, FirstOnly, Newest
  <2>3. /\ at' \in [Requests -> Places] /\ tier' \in [Requests -> Optional(Tiers)]
        /\ ev' \in [Requests -> {0} \cup DOMAIN events] /\ found' \in [Requests -> SubStatuses]
        /\ RequestsCarry' /\ at'[p] = "idle"
        /\ \A q \in Requests \ {p} :
              at'[q] = at[q] /\ tier'[q] = tier[q] /\ ev'[q] = ev[q] /\ found'[q] = found[q]
    BY <2>1, <2>2, LeaveIsSafe
  <2>4. TypeOK'
    BY <2>1, <2>3 DEF TypeOK, Places
  <2>5. EventsTell'
    BY <2>1, <2>2 DEF EventsTell
  <2>6. RowFollows'
    BY <2>1, <2>2, <2>3 DEF RowFollows
  <2>7. PlanIsOfSubscription'
    BY <2>1 DEF PlanIsOfSubscription, SoldAs
  <2>8. \A j : isStripeEventStale(events[j].created)' = isStripeEventStale(events[j].created)
    BY <2>1 DEF isStripeEventStale
  <2>9. Undisturbed'
    BY <2>1, <2>2, <2>3, <2>8 DEF Undisturbed, DecisionsHold, NewestIsShown
  <2>10. QED
    BY <2>3, <2>4, <2>5, <2>6, <2>7, <2>9
<1>3. QED
  BY <1>1, <1>2

(* What a change adds to the events.                                       *)
LEMMA ChangeAdds ==
    ASSUME TypeOK, NEW t \in Tiers, NEW status \in SubStatuses, NEW price \in Tiers,
           NEW types \in Seq(Types), Change(t, status, price, types)
    PROVE  /\ events' \in Seq(EventRecords) /\ DOMAIN events \subseteq DOMAIN events'
           /\ \A i \in DOMAIN events : events'[i] = events[i]
           /\ \A i \in DOMAIN events' \ DOMAIN events :
                 /\ events'[i].sub = t /\ events'[i].created = now + 1
                 /\ events'[i].status = mapStripeStatus(status)
           /\ \A k \in DOMAIN types :
                 \E i \in DOMAIN events' :
                    events'[i].type = types[k] /\ events'[i].created = now + 1
           /\ now' = now + 1 /\ now + 1 \in 1..MaxNow
<1> DEFINE record(i) == [type |-> types[i], sub |-> t, status |-> mapStripeStatus(status),
                         price |-> price, created |-> now + 1]
           added == [i \in DOMAIN types |-> record(i)]
<1>1. now' = now + 1 /\ now + 1 \in 1..MaxNow
  BY BoundsAssumption DEF TypeOK, Change
<1>2. events' = events \o added
  BY <1>1 DEF Change
<1>3. \A i \in DOMAIN types : record(i) \in EventRecords
  BY <1>1, StatusIsMapped, ElementOfSeq DEF EventRecords, Types
<1>4. DOMAIN types = 1..Len(types) /\ Len(types) \in Nat
  OBVIOUS
<1>5. added \in Seq(EventRecords) /\ Len(added) = Len(types)
  BY <1>3, <1>4, IsASeq
<1> HIDE DEF added
<1>6. events \in Seq(EventRecords) /\ events' \in Seq(EventRecords)
  BY <1>2, <1>5, ConcatProperties DEF TypeOK
<1>7. /\ DOMAIN events = 1..Len(events) /\ DOMAIN events' = 1..(Len(events) + Len(types))
      /\ \A i \in 1..Len(events) : events'[i] = events[i]
      /\ \A i \in (Len(events) + 1)..(Len(events) + Len(types)) :
            events'[i] = added[i - Len(events)]
      /\ Len(events) \in Nat
  <2>1. Len(events) \in Nat /\ DOMAIN events = 1..Len(events)
    BY <1>6
  <2>2. Len(events') = Len(events) + Len(types)
    <3>1. Len(events \o added) = Len(events) + Len(added)
      BY <1>5, <1>6, ConcatProperties
    <3>2. QED
      BY <1>2, <1>5, <3>1
  <2>3. DOMAIN events' = 1..(Len(events) + Len(types))
    BY <1>6, <2>2
  <2>4. \A i \in 1..(Len(events) + Len(types)) :
           events'[i] = IF i <= Len(events) THEN events[i] ELSE added[i - Len(events)]
    BY <1>2, <1>5, <1>6, ConcatProperties
  <2>5. QED
    BY <1>4, <2>1, <2>3, <2>4
<1>8. ASSUME NEW i \in DOMAIN events' \ DOMAIN events
      PROVE  events'[i] = record(i - Len(events))
  <2>1. i \in (Len(events) + 1)..(Len(events) + Len(types))
    BY <1>7
  <2>2. i - Len(events) \in DOMAIN types
    BY <1>4, <1>7, <2>1
  <2>3. QED
    BY <1>7, <2>1, <2>2 DEF added
<1>9. ASSUME NEW k \in DOMAIN types
      PROVE  \E i \in DOMAIN events' :
                events'[i].type = types[k] /\ events'[i].created = now + 1
  <2> DEFINE i == Len(events) + k
  <2>1. i \in DOMAIN events' \ DOMAIN events /\ i - Len(events) = k
    BY <1>4, <1>7
  <2>2. events'[i] = record(k)
    BY <1>8, <2>1
  <2>3. QED
    BY <2>1, <2>2
<1>10. QED
  BY <1>1, <1>6, <1>7, <1>8, <1>9

(* Stripe's changes: the newest subscription event is one nobody has       *)
(* receipted yet.                                                          *)
LEMMA ChangePreserves ==
    ASSUME BillingInv, NEW t \in Tiers, NEW status \in SubStatuses \ {"none"},
           NEW price \in Tiers, NEW types \in Seq(Types), \E k \in DOMAIN types :
                types[k] = "subscription",
           Change(t, status, price, types), open' \subseteq open, row.customer
    PROVE  BillingInv'
<1> USE DEF BillingInv
<1>1. /\ events' \in Seq(EventRecords) /\ DOMAIN events \subseteq DOMAIN events'
      /\ \A i \in DOMAIN events : events'[i] = events[i]
      /\ \A i \in DOMAIN events' \ DOMAIN events :
            /\ events'[i].sub = t /\ events'[i].created = now + 1
            /\ events'[i].status = mapStripeStatus(status)
      /\ \A k \in DOMAIN types :
            \E i \in DOMAIN events' :
               events'[i].type = types[k] /\ events'[i].created = now + 1
      /\ now' = now + 1 /\ now + 1 \in 1..MaxNow
  BY ChangeAdds
<1>2. now \in Nat /\ \A i \in DOMAIN events : events[i].created \in 1..now
  BY BoundsAssumption DEF TypeOK, EventsTell
<1>3. /\ row' = row /\ receipts' = receipts /\ at' = at /\ tier' = tier /\ ev' = ev
      /\ found' = found /\ faults' = faults /\ raced' = raced
  BY DEF Change, local, procs
<1>4. /\ sub' \in [Tiers -> [status : SubStatuses, price : Tiers]]
      /\ sub'[t].status = status /\ \A u \in Tiers \ {t} : sub'[u] = sub[u]
  BY DEF Change, TypeOK
<1>5. Paid' = Paid \cup {t}
  BY <1>4 DEF Paid
<1>6. TypeOK'
  <2>1. receipts' \subseteq DOMAIN events' /\ ev' \in [Requests -> {0} \cup DOMAIN events']
    BY <1>1, <1>3 DEF TypeOK
  <2>2. open' \subseteq Tiers
    BY DEF TypeOK
  <2>3. now' \in 0..MaxNow
    BY <1>1, <1>2
  <2>4. QED
    BY <1>1, <1>3, <1>4, <2>1, <2>2, <2>3 DEF TypeOK
<1>7. EventsTell'
  <2>1. ASSUME NEW i \in DOMAIN events'
        PROVE  /\ events'[i].sub \in Paid' /\ events'[i].created \in 1..now'
               /\ events'[i].created = now'
                     => events'[i].status = mapStripeStatus(sub'[events'[i].sub].status)
    <3>1. CASE i \in DOMAIN events
      <4>1. events'[i] = events[i] /\ events[i].created \in 1..now
        BY <1>1, <1>2, <3>1
      <4>2. events[i].created \in 1..now' /\ events[i].created # now'
        BY <1>1, <1>2, <4>1
      <4>3. events[i].sub \in Paid
        BY <3>1 DEF EventsTell
      <4>4. QED
        BY <1>5, <4>1, <4>2, <4>3
    <3>2. CASE i \notin DOMAIN events
      <4>1. /\ events'[i].sub = t /\ events'[i].created = now'
            /\ events'[i].status = mapStripeStatus(status)
        BY <1>1, <3>2
      <4>2. now' \in 1..now'
        BY <1>1, <1>2
      <4>3. QED
        BY <1>4, <1>5, <4>1, <4>2
    <3>3. QED
      BY <3>1, <3>2
  <2>2. \E i \in DOMAIN events' : events'[i].type = "subscription" /\ events'[i].created = now'
    BY <1>1
  <2>3. QED
    BY <2>1, <2>2 DEF EventsTell, Newest
<1>8. RequestsCarry'
  <2> SUFFICES ASSUME NEW p \in Requests
               PROVE  /\ at[p] \in {"customer", "session"} => tier[p] \in Tiers
                      /\ at[p] \in {"retrieve", "write"} => tier[p] \in Paid'
                      /\ at[p] = "write" => found[p] # "none"
                      /\ at[p] \in {"associate", "update", "receipt"}
                            => ev[p] \in DOMAIN events'
                      /\ at[p] = "associate" => events'[ev[p]].type = "subscription"
    BY <1>3 DEF RequestsCarry
  <2>1. QED
    BY <1>1, <1>5 DEF RequestsCarry
<1>9. RowFollows'
  <2>1. row.last \in 0..now'
    BY <1>1, <1>2 DEF RowFollows
  <2>2. QED
    BY <1>3, <1>5, <2>1 DEF RowFollows
<1>10. PlanIsOfSubscription'
  <2>1. ASSUME row.sub # None PROVE row.plan \in SoldAs(row.sub)'
    <3>1. row.plan \in SoldAs(row.sub)
      BY <2>1 DEF PlanIsOfSubscription
    <3>2. CASE row.plan = row.sub
      BY <1>3, <3>2 DEF SoldAs
    <3>3. CASE row.plan # row.sub
      <4>1. PICK i \in DOMAIN events : events[i].sub = row.sub /\ events[i].price = row.plan
        BY <3>1, <3>3 DEF SoldAs
      <4>2. i \in DOMAIN events' /\ events'[i] = events[i]
        BY <1>1
      <4>3. QED
        BY <1>3, <4>1, <4>2 DEF SoldAs
    <3>4. QED
      BY <3>2, <3>3
  <2>2. QED
    BY <1>3, <2>1 DEF PlanIsOfSubscription
<1>11. Undisturbed'
  <2> SUFFICES ASSUME FirstOnly', raced' = {} PROVE DecisionsHold' /\ NewestIsShown'
    BY DEF Undisturbed
  <2>1. DecisionsHold
    BY <1>3, <1>5 DEF Undisturbed, FirstOnly
  <2>2. \A p \in Requests :
           at[p] \in {"associate", "update", "receipt"} => events'[ev[p]] = events[ev[p]]
    BY <1>1 DEF RequestsCarry
  <2>3. \A p \in Requests :
           at[p] \in {"update", "receipt"} =>
             isStripeEventStale(events[ev[p]].created)'
               = isStripeEventStale(events[ev[p]].created)
    BY <1>3, <2>2 DEF isStripeEventStale
  <2>4. DecisionsHold'
    BY <1>3, <2>1, <2>2, <2>3 DEF DecisionsHold
  <2>5. \A i \in receipts : ~Newest(i)'
    <3> SUFFICES ASSUME NEW i \in receipts, Newest(i)' PROVE FALSE
      OBVIOUS
    <3>1. i \in DOMAIN events /\ events'[i].created = now + 1
      BY <1>1 DEF TypeOK, Newest
    <3>2. events[i].created \in 1..now /\ events'[i] = events[i]
      BY <1>1, <1>2, <3>1
    <3>3. QED
      BY <1>2, <3>1, <3>2
  <2>6. NewestIsShown'
    BY <1>3, <2>5 DEF NewestIsShown
  <2>7. QED
    BY <2>4, <2>6
<1>12. QED
  BY <1>6, <1>7, <1>8, <1>9, <1>10, <1>11

LEMMA StripePreserves == ASSUME BillingInv, NEW t \in Tiers, StripeActs(t) PROVE BillingInv'
<1> USE DEF BillingInv
<1>1. /\ <<"completed", "subscription", "invoice">> \in Seq(Types)
      /\ <<"subscription", "invoice">> \in Seq(Types)
      /\ <<"subscription">> \in Seq(Types)
      /\ 2 \in DOMAIN <<"completed", "subscription", "invoice">>
      /\ 1 \in DOMAIN <<"subscription", "invoice">>
      /\ 1 \in DOMAIN <<"subscription">>
  BY DEF Types
<1>2. sub[t].status \in SubStatuses /\ sub[t].price \in Tiers
  BY DEF TypeOK
<1>3. sub[t].status # "none" => row.customer
  BY DEF RowFollows, Paid
<1>4. {"active", "past_due", "canceled"} \subseteq SubStatuses \ {"none"}
  BY DEF SubStatuses
<1>5. CASE Pay(t)
  <2>1. /\ row.customer /\ open' \subseteq open
        /\ Change(t, "active", t, <<"completed", "subscription", "invoice">>)
    BY <1>5 DEF Pay, RowFollows
  <2>2. QED
    BY <1>1, <1>4, <2>1, ChangePreserves
<1>6. CASE RenewalFails(t) \/ RenewalPaid(t)
  <2>1. PICK status \in {"active", "past_due"} :
           /\ row.customer /\ open' = open
           /\ Change(t, status, sub[t].price, <<"subscription", "invoice">>)
    BY <1>3, <1>6 DEF RenewalFails, RenewalPaid
  <2>2. QED
    BY <1>1, <1>2, <1>4, <2>1, ChangePreserves
<1>7. CASE Cancel(t)
  <2>1. /\ row.customer /\ open' = open
        /\ Change(t, "canceled", sub[t].price, <<"subscription">>)
    BY <1>3, <1>7 DEF Cancel
  <2>2. QED
    BY <1>1, <1>2, <1>4, <2>1, ChangePreserves
<1>8. ASSUME NEW price \in Tiers, ChangePlan(t, price) PROVE BillingInv'
  <2>1. /\ row.customer /\ open' = open /\ sub[t].status \in {"active", "past_due"}
        /\ Change(t, sub[t].status, price, <<"subscription">>)
    BY <1>3, <1>8 DEF ChangePlan
  <2>2. QED
    BY <1>1, <1>4, <2>1, ChangePreserves
<1>9. QED
  BY <1>5, <1>6, <1>7, <1>8 DEF StripeActs

(* A write that no other request's read precedes: it takes the row to what *)
(* the receipted events ask for.                                           *)
LEMMA CommitPreserves == ASSUME BillingInv, NEW p \in Requests, Commit(p) PROVE BillingInv'
<1> USE DEF BillingInv
<1> DEFINE i == ev[p]
           writes == i \notin receipts /\ at[p] = "update"
<1>1. /\ UNCHANGED stripe /\ Leave(p) /\ faults' = faults /\ receipts' = receipts \cup {i}
      /\ at[p] \in {"update", "receipt"}
      /\ writes => row' = Written(events[i]) /\ raced' = raced \cup Overlap(p) \cup Outrun
      /\ ~writes => row' = row /\ raced' = raced
  BY DEF Commit
<1>2. /\ EventsTell' /\ Paid' = Paid /\ events' = events /\ now' = now /\ sub' = sub
      /\ FirstOnly' = FirstOnly /\ \A j : Newest(j)' = Newest(j)
  BY <1>1, SameStripe
<1>3. open' = open /\ i \in DOMAIN events
  BY <1>1 DEF stripe, RequestsCarry
<1>4. /\ at' \in [Requests -> Places] /\ tier' \in [Requests -> Optional(Tiers)]
      /\ ev' \in [Requests -> {0} \cup DOMAIN events] /\ found' \in [Requests -> SubStatuses]
      /\ RequestsCarry' /\ at'[p] = "idle"
      /\ \A q \in Requests \ {p} :
            at'[q] = at[q] /\ tier'[q] = tier[q] /\ ev'[q] = ev[q] /\ found'[q] = found[q]
  BY <1>1, <1>2, LeaveIsSafe
<1> DEFINE e == events[i]
<1>5. /\ e \in EventRecords /\ e.sub \in Paid /\ e.sub # None /\ e.created \in 1..now
      /\ e.type \in Types /\ row.customer
      /\ e.created = now => e.status = mapStripeStatus(sub[e.sub].status)
  <2>1. events \in Seq(EventRecords)
    BY DEF TypeOK
  <2>2. e \in EventRecords
    BY <1>3, <2>1
  <2>3. e.sub \in Paid
    BY <1>3 DEF EventsTell
  <2>4. QED
    BY <1>3, <2>2, <2>3, NoneAssumption DEF EventRecords, EventsTell, RowFollows, Types, Paid
<1>6. now \in Nat
  BY BoundsAssumption DEF TypeOK
<1>7. row \in Rows
  BY DEF TypeOK, Rows
<1> HIDE DEF e
<1>8. CASE ~writes
  <2>1. row' = row /\ raced' = raced /\ receipts' \subseteq DOMAIN events
    BY <1>1, <1>3, <1>8 DEF TypeOK
  <2>2. TypeOK'
    BY <1>1, <1>2, <1>3, <1>4, <2>1 DEF TypeOK, Places
  <2>3. RowFollows'
    BY <1>2, <1>3, <1>4, <2>1 DEF RowFollows
  <2>4. PlanIsOfSubscription'
    BY <1>2, <2>1 DEF PlanIsOfSubscription, SoldAs
  <2>5. \A j : isStripeEventStale(events[j].created)' = isStripeEventStale(events[j].created)
    BY <1>2, <2>1 DEF isStripeEventStale
  <2>6. Undisturbed'
    <3> SUFFICES ASSUME FirstOnly, raced = {} PROVE DecisionsHold' /\ NewestIsShown'
      BY <1>2, <2>1 DEF Undisturbed
    <3>1. DecisionsHold /\ NewestIsShown
      BY DEF Undisturbed
    <3>2. DecisionsHold'
      BY <1>2, <1>4, <2>1, <2>5, <3>1 DEF DecisionsHold
    <3>3. i \in receipts \/ ~Newest(i)
      <4>1. CASE at[p] = "receipt"
        <5>1. row.last # 0 /\ e.created < row.last
          BY <3>1, <4>1 DEF DecisionsHold, isStripeEventStale, e
        <5>2. e.created # now
          BY <1>5, <1>6, <5>1 DEF RowFollows
        <5>3. QED
          BY <5>2 DEF Newest, e
      <4>2. QED
        BY <1>1, <1>8, <4>1
    <3>4. NewestIsShown'
      BY <1>1, <1>2, <1>4, <2>1, <3>1, <3>3 DEF NewestIsShown
    <3>5. QED
      BY <3>2, <3>4
  <2>7. QED
    BY <1>2, <1>4, <2>2, <2>3, <2>4, <2>6
<1>9. CASE writes
  <2>1. /\ row' = Written(e) /\ raced' = raced \cup Overlap(p) \cup Outrun
        /\ i \notin receipts /\ at[p] = "update"
    BY <1>1, <1>9 DEF e
  <2>2. /\ row' \in Rows /\ row'.customer
        /\ e.type = "completed" =>
              row'.sub = e.sub /\ row'.plan = e.sub /\ row'.status = row.status
              /\ row'.last = row.last
        /\ e.type = "subscription" =>
              row'.sub = e.sub /\ row'.plan = e.price /\ row'.status = e.status
              /\ row'.last = e.created
        /\ e.type = "invoice" =>
              row'.sub = row.sub /\ row'.plan = row.plan /\ row'.status = e.status
              /\ row'.last = e.created
    <3>1. CASE e.type = "completed"
      <4>1. row' = [row EXCEPT !.sub = e.sub, !.plan = e.sub, !.customer = TRUE]
        BY <2>1, <3>1 DEF Written
      <4>2. QED
        BY <1>5, <1>7, <3>1, <4>1 DEF Rows, EventRecords, Optional
    <3>2. CASE e.type = "subscription"
      <4>1. row' = [row EXCEPT !.status = e.status, !.sub = e.sub, !.plan = e.price,
                               !.last = e.created]
        BY <2>1, <3>2 DEF Written
      <4>2. QED
        BY <1>5, <1>7, <3>2, <4>1 DEF Rows, EventRecords, Optional
    <3>3. CASE e.type = "invoice"
      <4>1. row' = [row EXCEPT !.status = e.status, !.last = e.created]
        BY <2>1, <3>3 DEF Written
      <4>2. QED
        BY <1>5, <1>7, <3>3, <4>1 DEF Rows, EventRecords, Optional
    <3>4. QED
      BY <1>5, <3>1, <3>2, <3>3 DEF Types
  <2>3. TypeOK'
    <3>1. receipts' \subseteq DOMAIN events
      BY <1>1, <1>3 DEF TypeOK
    <3>2. raced' \subseteq {"transaction", "page"}
      BY <2>1 DEF TypeOK, Overlap, Outrun
    <3>3. QED
      BY <1>1, <1>2, <1>3, <1>4, <2>2, <3>1, <3>2 DEF TypeOK, Rows, Places
  <2>4. RowFollows'
    <3>1. row'.sub \in Paid \cup {None} /\ row'.last \in 0..now
      BY <1>5, <1>6, <2>2 DEF RowFollows, Types
    <3>2. QED
      BY <1>2, <1>3, <1>4, <2>2, <3>1 DEF RowFollows
  <2>5. PlanIsOfSubscription'
    <3>1. row'.sub # None => row'.plan \in SoldAs(row'.sub)
      <4>1. CASE e.type = "completed"
        BY <2>2, <4>1 DEF SoldAs
      <4>2. CASE e.type = "subscription"
        <5>1. row'.sub = e.sub /\ row'.plan = e.price
          BY <2>2, <4>2
        <5>2. e.price \in SoldAs(e.sub)
          BY <1>3 DEF SoldAs, e
        <5>3. QED
          BY <5>1, <5>2
      <4>3. CASE e.type = "invoice"
        BY <2>2, <4>3 DEF PlanIsOfSubscription
      <4>4. QED
        BY <1>5, <4>1, <4>2, <4>3 DEF Types
    <3>2. QED
      BY <1>2, <3>1 DEF PlanIsOfSubscription, SoldAs
  <2>6. Undisturbed'
    <3> SUFFICES ASSUME FirstOnly, raced = {}, Overlap(p) = {}, Outrun = {}
                 PROVE  DecisionsHold' /\ NewestIsShown'
      BY <1>2, <2>1 DEF Undisturbed
    <3>1. DecisionsHold /\ NewestIsShown
      BY DEF Undisturbed
    <3>2. \A q \in Requests :
             /\ at'[q] \notin {"associate", "update", "receipt"}
             /\ at'[q] = "write" => found'[q] = sub[tier'[q]].status
      BY <1>4 DEF Overlap, Outrun
    <3>3. DecisionsHold'
      BY <3>2 DEF DecisionsHold
    <3>4. ASSUME NEW j \in receipts', Newest(j)
          PROVE  row'.sub = events[j].sub /\ row'.status = events[j].status /\ row'.last = now
      <4>1. /\ j \in DOMAIN events /\ events[j].created = now /\ events[j].type = "subscription"
            /\ events[j].sub \in Paid /\ events[j].sub = e.sub
            /\ events[j].status = mapStripeStatus(sub[e.sub].status)
        BY <1>5, <3>4 DEF Newest, EventsTell, FirstOnly
      <4>2. CASE e.type = "completed"
        <5>1. j \in receipts
          BY <1>1, <4>1, <4>2 DEF e
        <5>2. row.sub = events[j].sub /\ row.status = events[j].status /\ row.last = now
          BY <3>1, <3>4, <5>1 DEF NewestIsShown
        <5>3. QED
          BY <2>2, <4>1, <4>2, <5>2
      <4>3. CASE e.type # "completed" /\ e.created = now
        <5>1. row'.status = events[j].status /\ row'.last = now
          BY <1>5, <2>2, <4>1, <4>3 DEF Types
        <5>2. row'.sub = events[j].sub
          <6>1. CASE e.type = "subscription"
            BY <2>2, <4>1, <6>1
          <6>2. CASE e.type = "invoice"
            <7>1. j \in receipts
              BY <1>1, <4>1, <6>2 DEF e
            <7>2. row.sub = events[j].sub
              BY <3>1, <3>4, <7>1 DEF NewestIsShown
            <7>3. QED
              BY <2>2, <6>2, <7>2
          <6>3. QED
            BY <1>5, <4>3, <6>1, <6>2 DEF Types
        <5>3. QED
          BY <5>1, <5>2
      <4>4. CASE e.type # "completed" /\ e.created # now
        <5>1. j \in receipts
          BY <1>1, <4>1, <4>4 DEF e
        <5>2. row.last = now
          BY <3>1, <3>4, <5>1 DEF NewestIsShown
        <5>3. isStripeEventStale(e.created)
          BY <1>5, <1>6, <4>4, <5>2 DEF isStripeEventStale
        <5>4. ~isStripeEventStale(e.created)
          BY <2>1, <3>1, <4>4 DEF DecisionsHold, e
        <5>5. QED
          BY <5>3, <5>4
      <4>5. QED
        BY <4>2, <4>3, <4>4
    <3>5. NewestIsShown'
      BY <1>2, <3>2, <3>4 DEF NewestIsShown
    <3>6. QED
      BY <3>3, <3>5
  <2>7. QED
    BY <1>2, <1>4, <2>3, <2>4, <2>5, <2>6
<1>10. QED
  BY <1>8, <1>9

(* The success page's write: what it found is what Stripe still says, or   *)
(* the newest event is yet to be receipted.                                *)
LEMMA ReconcilePreserves == ASSUME BillingInv, NEW p \in Requests, Reconcile(p) PROVE BillingInv'
<1> USE DEF BillingInv
<1> DEFINE t == tier[p]
<1>1. /\ at[p] = "write" /\ UNCHANGED stripe /\ Leave(p) /\ receipts' = receipts
      /\ faults' = faults /\ raced' = raced \cup Overlap(p)
      /\ row' = [row EXCEPT !.status = mapStripeStatus(found[p]),
                            !.sub = t, !.plan = t, !.customer = TRUE]
  BY DEF Reconcile
<1>2. /\ EventsTell' /\ Paid' = Paid /\ events' = events /\ now' = now /\ sub' = sub
      /\ FirstOnly' = FirstOnly /\ \A j : Newest(j)' = Newest(j)
  BY <1>1, SameStripe
<1>3. open' = open /\ t \in Paid /\ t \in Tiers
  BY <1>1 DEF stripe, RequestsCarry, Paid
<1>4. /\ at' \in [Requests -> Places] /\ tier' \in [Requests -> Optional(Tiers)]
      /\ ev' \in [Requests -> {0} \cup DOMAIN events] /\ found' \in [Requests -> SubStatuses]
      /\ RequestsCarry' /\ at'[p] = "idle"
      /\ \A q \in Requests \ {p} :
            at'[q] = at[q] /\ tier'[q] = tier[q] /\ ev'[q] = ev[q] /\ found'[q] = found[q]
  BY <1>1, <1>2, LeaveIsSafe
<1>5. /\ row' \in Rows /\ row'.status = mapStripeStatus(found[p]) /\ row'.sub = t
      /\ row'.plan = t /\ row'.customer /\ row'.last = row.last
  <2>1. row \in Rows
    BY DEF TypeOK, Rows
  <2>2. QED
    BY <1>1, <1>3, <2>1, StatusIsMapped DEF Rows, Optional
<1>6. TypeOK'
  <2>1. raced' \subseteq {"transaction", "page"}
    BY <1>1 DEF TypeOK, Overlap
  <2>2. QED
    BY <1>1, <1>2, <1>3, <1>4, <1>5, <2>1 DEF TypeOK, Rows, Places
<1>7. RowFollows'
  BY <1>2, <1>3, <1>4, <1>5 DEF RowFollows
<1>8. PlanIsOfSubscription'
  BY <1>5 DEF PlanIsOfSubscription, SoldAs
<1>9. Undisturbed'
  <2> SUFFICES ASSUME FirstOnly, raced = {}, Overlap(p) = {}
               PROVE  DecisionsHold' /\ NewestIsShown'
    BY <1>1, <1>2 DEF Undisturbed
  <2>1. NewestIsShown
    BY DEF Undisturbed
  <2>2. \A q \in Requests : at'[q] \notin {"associate", "update", "receipt"}
    BY <1>4 DEF Overlap
  <2>3. DecisionsHold'
    BY <2>2 DEF DecisionsHold
  <2>4. ASSUME NEW j \in receipts, Newest(j)
        PROVE  row'.sub = events[j].sub /\ row'.status = events[j].status /\ row'.last = now
    <3>1. /\ events[j].sub = t /\ events[j].status = mapStripeStatus(sub[t].status)
      BY <1>3, <2>4 DEF Newest, EventsTell, FirstOnly
    <3>2. found[p] = sub[t].status /\ row.last = now
      BY <1>1, <2>1, <2>4 DEF NewestIsShown
    <3>3. QED
      BY <1>5, <3>1, <3>2
  <2>5. NewestIsShown'
    BY <1>1, <1>2, <1>4, <2>1, <2>4 DEF NewestIsShown
  <2>6. QED
    BY <2>3, <2>5
<1>10. QED
  BY <1>2, <1>4, <1>6, <1>7, <1>8, <1>9

LEMMA StutterPreserves == BillingInv /\ UNCHANGED vars => BillingInv'
<1> SUFFICES ASSUME BillingInv, UNCHANGED vars PROVE BillingInv'
  OBVIOUS
<1> USE DEF BillingInv
<1>1. UNCHANGED <<local, stripe, procs, faults, raced>>
  BY DEF vars
<1>2. /\ EventsTell' /\ Paid' = Paid /\ events' = events /\ now' = now /\ sub' = sub
      /\ FirstOnly' = FirstOnly /\ \A j : Newest(j)' = Newest(j)
  BY <1>1, SameStripe
<1>3. /\ row' = row /\ receipts' = receipts /\ open' = open /\ at' = at /\ tier' = tier
      /\ ev' = ev /\ found' = found
  BY <1>1 DEF local, stripe, procs
<1>4. TypeOK' /\ RequestsCarry' /\ RowFollows' /\ PlanIsOfSubscription'
  BY <1>1, <1>2, <1>3 DEF TypeOK, RequestsCarry, RowFollows, PlanIsOfSubscription, SoldAs
<1>5. Undisturbed'
  <2>1. \A j : isStripeEventStale(events[j].created)' = isStripeEventStale(events[j].created)
    BY <1>2, <1>3 DEF isStripeEventStale
  <2>2. QED
    BY <1>1, <1>2, <1>3, <2>1 DEF Undisturbed, DecisionsHold, NewestIsShown
<1>6. QED
  BY <1>2, <1>4, <1>5

LEMMA StepPreserves == BillingInv /\ [Next]_vars => BillingInv'
<1> SUFFICES ASSUME BillingInv, Next PROVE BillingInv'
  BY StutterPreserves
<1>1. ASSUME NEW t \in Tiers, StripeActs(t) PROVE BillingInv'
  BY <1>1, StripePreserves
<1>2. ASSUME NEW p \in Requests, NEW t \in Tiers, BeginCheckout(p, t) \/ VisitSuccessPage(p, t)
      PROVE  BillingInv'
  <2>1. UNCHANGED <<local, stripe, raced>>
    BY <1>2 DEF BeginCheckout, VisitSuccessPage
  <2>2. QED
    BY <1>2, <2>1, ReadPreserves
<1>3. ASSUME NEW p \in Requests, NEW i \in DOMAIN events, Deliver(p, i) PROVE BillingInv'
  <2>1. UNCHANGED <<local, stripe, raced>>
    BY <1>3 DEF Deliver
  <2>2. QED
    BY <1>3, <2>1, ReadPreserves
<1>4. ASSUME NEW p \in Requests, Associate(p) \/ Retrieve(p) \/ Abandon(p) PROVE BillingInv'
  <2>1. UNCHANGED <<local, stripe, raced>>
    BY <1>4 DEF Associate, Retrieve, Abandon
  <2>2. QED
    BY <1>4, <2>1, ReadPreserves
<1>5. ASSUME NEW p \in Requests,
             EnsureCustomer(p) \/ CreateSession(p) \/ Commit(p) \/ Reconcile(p)
      PROVE  BillingInv'
  BY <1>5, CheckoutPreserves, CommitPreserves, ReconcilePreserves
<1>6. QED
  BY <1>1, <1>2, <1>3, <1>4, <1>5 DEF Next, GoOn

(* However deliveries, checkouts and the success page interleave: the row  *)
(* follows what Stripe has said, and for a first subscription, with none   *)
(* of the races excluded, shows the newest of it once it is receipted.     *)
THEOREM BillingInvariant == Spec => []BillingInv
<1>1. QED
  BY InitBilling, StepPreserves, PTL DEF Spec

----------------------------------------------------------------------------
(* What the run checks.                                                    *)

(* Billing's variables keep their types: the row names no plan and no      *)
(* subscription Stripe does not know, a request carries an event that      *)
(* exists.                                                                 *)
THEOREM TypeCorrect == Spec => []TypeOK
<1>1. BillingInv => TypeOK
  BY DEF BillingInv
<1>2. QED
  BY <1>1, BillingInvariant, PTL

(* Whichever of checkout, webhook and success page wrote the row last, its *)
(* plan is one the bound subscription was sold as.                         *)
THEOREM PlanIsTheSubscriptions == Spec => []PlanIsOfSubscription
<1>1. BillingInv => PlanIsOfSubscription
  BY DEF BillingInv
<1>2. QED
  BY <1>1, BillingInvariant, PTL

(* A quiet row, with all events receipted, shows Stripe's status for a     *)
(* merchant's one subscription.                                            *)
LEMMA QuietRowIsRight == BillingInv => FirstSubscriptionConverges
<1> SUFFICES ASSUME BillingInv, NEW t \in Tiers, Paid = {t}, Quiet, raced = {}
             PROVE  /\ row.sub = t
                    /\ billingView.state = sub[t].status
                    /\ billingView.canManageBilling
                    /\ getActivePlan = None <=> sub[t].status = "canceled"
                    /\ MayCheckOut <=> sub[t].status = "canceled"
  BY DEF FirstSubscriptionConverges
<1> USE DEF BillingInv
<1>1. NewestIsShown
  BY DEF Undisturbed, FirstOnly
<1>2. PICK i \in DOMAIN events : Newest(i)
  BY DEF EventsTell
<1>3. events[i].sub = t /\ events[i].status = mapStripeStatus(sub[t].status)
  BY <1>2 DEF EventsTell, Newest
<1>4. row.sub = t /\ row.status = mapStripeStatus(sub[t].status)
  BY <1>1, <1>2, <1>3 DEF NewestIsShown, Quiet
<1>5. row.customer
  BY DEF RowFollows
<1>6. sub[t].status \in {"active", "past_due", "canceled"}
  BY DEF TypeOK, SubStatuses, Paid
<1>7. row.plan # None
  <2>1. row.plan \in SoldAs(t)
    BY <1>4, NoneAssumption DEF PlanIsOfSubscription
  <2>2. \A j \in DOMAIN events : events[j].price \in Tiers
    <3>1. events \in Seq(EventRecords)
      BY DEF TypeOK
    <3>2. \A j \in DOMAIN events : events[j] \in EventRecords
      BY <3>1
    <3>3. QED
      BY <3>2 DEF EventRecords
  <2>3. QED
    BY <2>1, <2>2, NoneAssumption DEF SoldAs
<1>8. billingView.state = stateFor(row.status)
      /\ (billingView.canManageBilling <=> stateFor(row.status) # "none" /\ row.customer)
  BY DEF billingView
<1>9. CASE sub[t].status = "active"
  <2>1. row.status = "ACTIVE"
    BY <1>4, <1>9 DEF mapStripeStatus
  <2>2. stateFor(row.status) = "active" /\ getActivePlan = row.plan /\ ~MayCheckOut
    BY <2>1 DEF stateFor, getActivePlan, MayCheckOut, Live
  <2>3. QED
    BY <1>4, <1>5, <1>7, <1>8, <1>9, <2>2
<1>10. CASE sub[t].status = "past_due"
  <2>1. row.status = "PAST_DUE"
    BY <1>4, <1>10 DEF mapStripeStatus
  <2>2. stateFor(row.status) = "past_due" /\ getActivePlan = row.plan /\ ~MayCheckOut
    BY <2>1 DEF stateFor, getActivePlan, MayCheckOut, Live
  <2>3. QED
    BY <1>4, <1>5, <1>7, <1>8, <1>10, <2>2
<1>11. CASE sub[t].status = "canceled"
  <2>1. row.status = "CANCELED"
    BY <1>4, <1>11 DEF mapStripeStatus
  <2>2. stateFor(row.status) = "canceled" /\ getActivePlan = None /\ MayCheckOut
    BY <2>1 DEF stateFor, getActivePlan, MayCheckOut, Live
  <2>3. QED
    BY <1>4, <1>5, <1>7, <1>8, <1>11, <2>2
<1>12. QED
  BY <1>6, <1>9, <1>10, <1>11

(* However late, out of order and often Stripe's events and the success    *)
(* page's visits come: once all events are receipted, a first subscription *)
(* ends as Stripe has it, with the plan's cap, the portal and the checkout *)
(* guard in line, unless a write fell into a delivery's transaction or an  *)
(* event was applied before the write of a success page whose answer       *)
(* Stripe had overtaken by then.                                           *)
THEOREM FirstSubscriptionEndsRight == Spec => []FirstSubscriptionConverges
<1>1. QED
  BY BillingInvariant, QuietRowIsRight, PTL

----------------------------------------------------------------------------
(* The order of events.                                                    *)

(* While no write fell into a delivery's transaction: what a delivery found *)
(* out about the row's event time and subscription holds at its write, of  *)
(* however many subscriptions Stripe tells.  Inductive with BillingInv.    *)
FreshWrite(p) ==
    /\ events[ev[p]].type # "completed" => events[ev[p]].created >= row.last
    /\ events[ev[p]].type = "subscription" => row.sub \in {None, events[ev[p]].sub}

WritesAreFresh == "transaction" \notin raced => \A p \in Requests : at[p] = "update" => FreshWrite(p)

(* Stripe adds events and touches nothing of ours.                         *)
LEMMA StripeOnlyAdds ==
    ASSUME TypeOK, NEW t \in Tiers, StripeActs(t)
    PROVE  /\ \A i \in DOMAIN events : events'[i] = events[i]
           /\ UNCHANGED <<row, at, ev, raced>>
<1>1. /\ <<"completed", "subscription", "invoice">> \in Seq(Types)
      /\ <<"subscription", "invoice">> \in Seq(Types)
      /\ <<"subscription">> \in Seq(Types)
  BY DEF Types
<1>2. /\ sub[t].status \in SubStatuses /\ sub[t].price \in Tiers
      /\ {"active", "past_due", "canceled"} \subseteq SubStatuses
  BY DEF TypeOK, SubStatuses
<1>3. \E status \in SubStatuses, price \in Tiers, types \in Seq(Types) :
         Change(t, status, price, types)
  BY <1>1, <1>2 DEF StripeActs, Pay, RenewalFails, RenewalPaid, ChangePlan, Cancel
<1>4. QED
  BY <1>3, ChangeAdds DEF Change, local, procs

(* Steps that leave the row's event time and subscription alone, and send  *)
(* nobody else to write.                                                   *)
LEMMA FreshStays ==
    ASSUME TypeOK, RequestsCarry, WritesAreFresh, raced' = raced,
           row'.last = row.last, row'.sub = row.sub,
           \A i \in DOMAIN events : events'[i] = events[i],
           NEW p, p \in Requests /\ at'[p] = "update" => FreshWrite(p)',
           \A q \in Requests \ {p} : at'[q] = at[q] /\ ev'[q] = ev[q]
    PROVE  WritesAreFresh'
<1> SUFFICES ASSUME "transaction" \notin raced, NEW q \in Requests \ {p}, at'[q] = "update"
             PROVE  FreshWrite(q)'
  BY DEF WritesAreFresh
<1>1. at[q] = "update" /\ ev'[q] = ev[q] /\ ev[q] \in DOMAIN events /\ FreshWrite(q)
  BY DEF RequestsCarry, WritesAreFresh
<1>2. events'[ev'[q]] = events[ev[q]]
  BY <1>1
<1>3. QED
  BY <1>1, <1>2 DEF FreshWrite

(* A write that found no other transaction under way leaves nobody with a  *)
(* decision it could have spoilt.                                          *)
LEMMA FreshAlone ==
    ASSUME NEW p \in Requests, raced \cup Overlap(p) \subseteq raced', at'[p] # "update",
           \A q \in Requests \ {p} : at'[q] = at[q]
    PROVE  WritesAreFresh'
BY DEF WritesAreFresh, Overlap

LEMMA FreshStep ==
    ASSUME BillingInv, WritesAreFresh, [Next]_vars
    PROVE  WritesAreFresh'
<1> USE DEF BillingInv
<1>1. ASSUME NEW t \in Tiers, StripeActs(t) PROVE WritesAreFresh'
  <2>1. /\ \A i \in DOMAIN events : events'[i] = events[i]
        /\ UNCHANGED <<row, at, ev, raced>>
    BY <1>1, StripeOnlyAdds
  <2>2. QED
    BY <2>1 DEF WritesAreFresh, FreshWrite, RequestsCarry
<1>2. ASSUME NEW p \in Requests, NEW t \in Tiers, BeginCheckout(p, t) \/ VisitSuccessPage(p, t)
      PROVE  WritesAreFresh'
  <2>1. /\ UNCHANGED <<local, stripe, raced, ev>> /\ at'[p] # "update"
        /\ \A q \in Requests \ {p} : at'[q] = at[q]
    BY <1>2 DEF BeginCheckout, VisitSuccessPage, TypeOK
  <2>2. QED
    BY <2>1, FreshStays DEF local, stripe
<1>3. ASSUME NEW p \in Requests, NEW i \in DOMAIN events, Deliver(p, i)
      PROVE  WritesAreFresh'
  <2>1. /\ UNCHANGED <<row, events, raced>> /\ ev'[p] = i
        /\ \A q \in Requests \ {p} : at'[q] = at[q] /\ ev'[q] = ev[q]
        /\ at'[p] = CASE events[i].type = "completed" -> "update"
                      [] events[i].type = "subscription" /\ row.sub # events[i].sub -> "associate"
                      [] OTHER -> Decide(i)
    BY <1>3 DEF Deliver, TypeOK, local, stripe
  <2>2. events[i] \in EventRecords /\ row.last \in Nat
    BY DEF TypeOK
  <2>3. at'[p] = "update" =>
          /\ events[i].type # "completed" => ~isStripeEventStale(events[i].created)
          /\ events[i].type = "subscription" => row.sub = events[i].sub
    BY <2>1 DEF Decide
  <2>4. at'[p] = "update" => FreshWrite(p)'
    BY <2>1, <2>2, <2>3 DEF FreshWrite, isStripeEventStale, EventRecords
  <2>5. QED
    BY <2>1, <2>4, FreshStays
<1>4. ASSUME NEW p \in Requests, Associate(p) PROVE WritesAreFresh'
  <2>1. /\ UNCHANGED <<row, events, raced, ev>> /\ ev[p] \in DOMAIN events
        /\ \A q \in Requests \ {p} : at'[q] = at[q]
        /\ at'[p] = IF row.sub = None THEN Decide(ev[p]) ELSE "receipt"
    BY <1>4 DEF Associate, Goto, TypeOK, RequestsCarry, local, stripe
  <2>2. events[ev[p]] \in EventRecords /\ row.last \in Nat
    BY <2>1 DEF TypeOK
  <2>3. at'[p] = "update" => row.sub = None /\ ~isStripeEventStale(events[ev[p]].created)
    BY <2>1 DEF Decide
  <2>4. at'[p] = "update" => FreshWrite(p)'
    BY <2>1, <2>2, <2>3 DEF FreshWrite, isStripeEventStale, EventRecords
  <2>5. QED
    BY <2>1, <2>4, FreshStays
<1>5. ASSUME NEW p \in Requests,
             Retrieve(p) \/ Abandon(p) \/ EnsureCustomer(p) \/ CreateSession(p)
      PROVE  WritesAreFresh'
  <2>1. /\ UNCHANGED <<events, raced>> /\ at'[p] # "update"
        /\ \A q \in Requests \ {p} : at'[q] = at[q] /\ ev'[q] = ev[q]
    BY <1>5 DEF Retrieve, Abandon, EnsureCustomer, CreateSession, Goto, Leave, TypeOK, stripe
  <2>2. row'.last = row.last /\ row'.sub = row.sub
    BY <1>5 DEF Retrieve, Abandon, EnsureCustomer, CreateSession, TypeOK, local
  <2>3. QED
    BY <2>1, <2>2, FreshStays
<1>6. ASSUME NEW p \in Requests, Commit(p) PROVE WritesAreFresh'
  <2>1. /\ UNCHANGED events /\ at'[p] = "idle"
        /\ \A q \in Requests \ {p} : at'[q] = at[q] /\ ev'[q] = ev[q]
    BY <1>6 DEF Commit, Leave, TypeOK, stripe
  <2>2. raced \cup Overlap(p) \subseteq raced' \/ UNCHANGED <<row, raced>>
    BY <1>6 DEF Commit
  <2>3. QED
    BY <2>1, <2>2, FreshStays, FreshAlone
<1>7. ASSUME NEW p \in Requests, Reconcile(p) PROVE WritesAreFresh'
  <2>1. /\ at'[p] = "idle" /\ raced' = raced \cup Overlap(p)
        /\ \A q \in Requests \ {p} : at'[q] = at[q]
    BY <1>7 DEF Reconcile, Leave, TypeOK
  <2>2. QED
    BY <2>1, FreshAlone
<1>8. CASE UNCHANGED vars
  BY <1>8 DEF vars, local, stripe, procs, WritesAreFresh, FreshWrite
<1>9. QED
  BY <1>1, <1>2, <1>3, <1>4, <1>5, <1>6, <1>7, <1>8 DEF Next, GoOn

(* Only Commit and Reconcile write event time or subscription.             *)
LEMMA OrderStep ==
    ASSUME BillingInv, WritesAreFresh, [Next]_vars, "transaction" \notin raced'
    PROVE  /\ row'.last >= row.last
           /\ row.sub \in {None, row'.sub} \/ row'.last = row.last
<1> DEFINE Ordered == /\ row'.last >= row.last
                      /\ row.sub \in {None, row'.sub} \/ row'.last = row.last
<1> USE DEF BillingInv
<1>1. row.last \in Nat
  BY DEF TypeOK
<1>2. ASSUME row'.last = row.last /\ row'.sub = row.sub PROVE Ordered
  BY <1>1, <1>2
<1>3. ASSUME NEW t \in Tiers, StripeActs(t) PROVE Ordered
  BY <1>2, <1>3, StripeOnlyAdds
<1>4. ASSUME NEW p \in Requests, NEW t \in Tiers, BeginCheckout(p, t) \/ VisitSuccessPage(p, t)
      PROVE  Ordered
  BY <1>2, <1>4 DEF BeginCheckout, VisitSuccessPage, local
<1>5. ASSUME NEW p \in Requests, NEW i \in DOMAIN events, Deliver(p, i) PROVE Ordered
  BY <1>2, <1>5 DEF Deliver, local
<1>6. ASSUME NEW p \in Requests, \/ Associate(p) \/ Retrieve(p) \/ Abandon(p)
                                \/ EnsureCustomer(p) \/ CreateSession(p)
      PROVE  Ordered
  BY <1>2, <1>6 DEF Associate, Retrieve, Abandon, EnsureCustomer, CreateSession, TypeOK, local
<1>7. ASSUME NEW p \in Requests, Commit(p) PROVE Ordered
  <2> DEFINE e == events[ev[p]]
  <2>1. CASE UNCHANGED row
    BY <1>2, <2>1
  <2>2. CASE at[p] = "update" /\ row' = Written(e) /\ raced \subseteq raced'
    <3>1. /\ ev[p] \in DOMAIN events /\ "transaction" \notin raced /\ FreshWrite(p)
          /\ e \in EventRecords
      BY <2>2 DEF RequestsCarry, WritesAreFresh, TypeOK
    <3>2. e.type \in {"completed", "subscription", "invoice"} /\ e.created \in Nat
      BY <3>1 DEF EventRecords
    <3>3. CASE e.type = "completed"
      <4>1. row'.last = row.last
        BY <2>2, <3>3 DEF Written, TypeOK
      <4>2. QED
        BY <1>1, <4>1
    <3>4. CASE e.type = "subscription"
      <4>1. row'.last = e.created /\ row'.sub = e.sub
        BY <2>2, <3>4 DEF Written, TypeOK
      <4>2. QED
        BY <3>1, <3>4, <4>1 DEF FreshWrite
    <3>5. CASE e.type = "invoice"
      <4>1. row'.last = e.created /\ row'.sub = row.sub
        BY <2>2, <3>5 DEF Written, TypeOK
      <4>2. QED
        BY <3>1, <3>5, <4>1 DEF FreshWrite
    <3>6. QED
      BY <3>2, <3>3, <3>4, <3>5
  <2>3. QED
    BY <1>7, <2>1, <2>2 DEF Commit
<1>8. ASSUME NEW p \in Requests, Reconcile(p) PROVE Ordered
  <2>1. row'.last = row.last
    BY <1>8 DEF Reconcile, TypeOK
  <2>2. QED
    BY <1>1, <2>1
<1>9. CASE UNCHANGED vars
  BY <1>2, <1>9 DEF vars, local
<1>10. QED
  BY <1>3, <1>4, <1>5, <1>6, <1>7, <1>8, <1>9 DEF Next, GoOn

(* For any number of subscriptions, requests and events, and unless a      *)
(* write fell into a delivery's transaction: the row's event time never    *)
(* goes back, and no event takes a bound row over to another subscription. *)
THEOREM EventsApplyInOrder == Spec => RowKeepsOrder
<1>1. Init => WritesAreFresh
  BY DEF Init, WritesAreFresh
<1>2. Spec => []WritesAreFresh
  BY <1>1, FreshStep, BillingInvariant, PTL DEF Spec
<1>3. BillingInv /\ WritesAreFresh /\ [Next]_vars
        => [\/ "transaction" \in raced'
            \/ /\ row'.last >= row.last
               /\ row.sub \in {None, row'.sub} \/ row'.last = row.last]_vars
  BY OrderStep
<1>4. QED
  BY <1>2, <1>3, BillingInvariant, PTL DEF Spec, RowKeepsOrder

=============================================================================
