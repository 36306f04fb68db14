------------------------------ MODULE Ingestion ------------------------------
(***************************************************************************)
(* The Razorpay webhook of one merchant: from a delivery to a queued row.  *)
(* A request reads the merchant, verifies the delivery, commits receipt    *)
(* and PaymentEvent in one transaction, captures the Razorpay account on   *)
(* first use, meters failed payments against the monthly plan limit, and   *)
(* queues the event or drops it and mails a notice.  Every database        *)
(* statement is a step of its own; Razorpay delivers an event any number   *)
(* of times.  Signatures are always good here: only the merchant's secret  *)
(* makes one.                                                              *)
(***************************************************************************)
EXTENDS Naturals, FiniteSets

CONSTANTS
    Failed,         \* provider event ids of type payment.failed
    Others,         \* provider event ids of the types that are not metered
    Requests,       \* concurrent webhook requests
    Foreign,        \* events sent by a second Razorpay account
    Anonymous,      \* events whose envelope has no account_id
    NoEvent,        \* what an idle request works on
    Limit,          \* PLANS[plan].failedPaymentsPerMonth
    MaxMonth,       \* bound: calendar months
    MaxDeliveries,  \* bound: deliveries in all
    MaxFaults       \* bound: crashes and rejected statements

Events == Failed \cup Others
Months == 1..MaxMonth
NoAccount == "none"
Accounts == {NoAccount, "own", "second"}

accountOf(e) ==
    IF e \in Anonymous THEN NoAccount ELSE IF e \in Foreign THEN "second" ELSE "own"

ASSUME EventsAssumption == Failed \cap Others = {} /\ NoEvent \notin Events
ASSUME LimitAssumption == Limit \in Nat
ASSUME FiniteEventsAssumption == IsFiniteSet(Failed)
ASSUME AccountsAssumption == Foreign \cup Anonymous \subseteq Events
ASSUME IngestionBoundsAssumption ==
    /\ MaxMonth \in Nat \ {0}
    /\ MaxDeliveries \in Nat
    /\ MaxFaults \in Nat

VARIABLES
    month,      \* the calendar month
    stale,      \* events older than the freshness window
    stored,     \* WebhookReceipt and PaymentEvent rows
    receivedIn, \* PaymentEvent.receivedAt, by month (0: none)
    queued,     \* EventProcessing rows
    account,    \* Merchant.razorpayAccountId
    notices,    \* PlanLimitNotice rows, by period
    at,         \* where each request is
    event,      \* the event a request delivers
    known,      \* the account the request read with the merchant
    window,     \* the month a request meters, then the period it notifies
    deliveries, \* deliveries so far
    faults,     \* faults so far
    meteredIn,  \* history: the month whose window decided on an event
    dropped,    \* history: events declined by the plan limit
    emails      \* history: limit mails sent per period

rows == <<stored, receivedIn, queued, account, notices>>
procs == <<at, event, known, window>>
history == <<meteredIn, dropped, emails>>
env == <<month, stale, deliveries>>
vars == <<rows, procs, history, env, faults>>

Deciding == {"capture", "check", "count", "enqueue"}
Places == Deciding \cup {"idle", "verify", "notify", "email"}

TypeOK ==
    /\ month \in Months
    /\ stale \subseteq Events
    /\ stored \subseteq Events
    /\ receivedIn \in [Events -> {0} \cup Months]
    /\ queued \subseteq Events
    /\ account \in Accounts
    /\ notices \subseteq Months
    /\ at \in [Requests -> Places]
    /\ event \in [Requests -> Events \cup {NoEvent}]
    /\ \A d \in Requests :
          /\ at[d] # "idle" => event[d] \in Events
          /\ at[d] \in {"check", "count", "notify", "email"} => event[d] \in Failed
          /\ at[d] \in {"count", "email"} => window[d] \in Months
    /\ known \in [Requests -> Accounts]
    /\ window \in [Requests -> {0} \cup Months]
    /\ deliveries \in Nat
    /\ faults \in Nat
    /\ meteredIn \in [Events -> {0} \cup Months]
    /\ dropped \subseteq Failed
    /\ emails \in [Months -> Nat]

Init ==
    /\ month = 1
    /\ stale = {}
    /\ stored = {}
    /\ receivedIn = [e \in Events |-> 0]
    /\ queued = {}
    /\ account = NoAccount
    /\ notices = {}
    /\ at = [d \in Requests |-> "idle"]
    /\ event = [d \in Requests |-> NoEvent]
    /\ known = [d \in Requests |-> NoAccount]
    /\ window = [d \in Requests |-> 0]
    /\ deliveries = 0
    /\ faults = 0
    /\ meteredIn = [e \in Events |-> 0]
    /\ dropped = {}
    /\ emails = [m \in Months |-> 0]

----------------------------------------------------------------------------
Goto(d, place) ==
    /\ at' = [at EXCEPT ![d] = place]
    /\ UNCHANGED <<event, known, window>>

Leave(d) ==
    /\ at' = [at EXCEPT ![d] = "idle"]
    /\ event' = [event EXCEPT ![d] = NoEvent]
    /\ known' = [known EXCEPT ![d] = NoAccount]
    /\ window' = [window EXCEPT ![d] = 0]

Fault == faults < MaxFaults /\ faults' = faults + 1

NewMonth ==
    /\ month < MaxMonth
    /\ month' = month + 1
    /\ UNCHANGED <<stale, deliveries, rows, procs, history, faults>>

(* Five minutes pass since the event was created; only a delivery under    *)
(* way can notice.                                                         *)
Age(e) ==
    /\ \E d \in Requests : event[d] = e
    /\ stale' = stale \cup {e}
    /\ UNCHANGED <<month, deliveries, rows, procs, history, faults>>

----------------------------------------------------------------------------
(* A delivery arrives and the merchant row is read.                        *)
Deliver(d, e) ==
    /\ at[d] = "idle"
    /\ deliveries < MaxDeliveries
    /\ deliveries' = deliveries + 1
    /\ at' = [at EXCEPT ![d] = "verify"]
    /\ event' = [event EXCEPT ![d] = e]
    /\ known' = [known EXCEPT ![d] = account]
    /\ UNCHANGED <<month, stale, rows, window, history, faults>>

(* processWebhook: the account cross-check, then freshness.                *)
Accepts(d) ==
    /\ NoAccount \in {known[d], accountOf(event[d])} \/ known[d] = accountOf(event[d])
    /\ event[d] \notin stale

Refuse(d) ==
    /\ at[d] = "verify"
    /\ ~Accepts(d)
    /\ Leave(d)
    /\ UNCHANGED <<rows, history, env, faults>>

IsNew_Always(e) == TRUE

IsNew(e) == e \notin stored

Duplicate(d) ==
    /\ at[d] = "verify"
    /\ Accepts(d)
    /\ ~IsNew(event[d])
    /\ Leave(d)
    /\ UNCHANGED <<rows, history, env, faults>>

AfterCapture_MetersAll(e) == "check"

AfterCapture_MetersNone(e) == "enqueue"

AfterCapture(e) == IF e \in Failed THEN "check" ELSE "enqueue"

Persist(d) ==
    LET e == event[d]
    IN  /\ at[d] = "verify"
        /\ Accepts(d)
        /\ IsNew(e)
        /\ stored' = stored \cup {e}
        /\ receivedIn' = [receivedIn EXCEPT ![e] = month]
        /\ Goto(d, IF known[d] = NoAccount /\ accountOf(e) # NoAccount
                   THEN "capture" ELSE AfterCapture(e))
        /\ UNCHANGED <<queued, account, notices, history, env, faults>>

(* Trust on first use.  A rejected update is swallowed.                    *)
CaptureAccount(d) ==
    /\ at[d] = "capture"
    /\ account' = accountOf(event[d])
    /\ Goto(d, AfterCapture(event[d]))
    /\ UNCHANGED <<stored, receivedIn, queued, notices, history, env, faults>>

CaptureFails(d) ==
    /\ Fault
    /\ at[d] = "capture"
    /\ Goto(d, AfterCapture(event[d]))
    /\ UNCHANGED <<rows, history, env>>

----------------------------------------------------------------------------
(* checkPlanLimit: the window is fixed before the plan is read, the count  *)
(* is a later statement, and includes the event itself.                    *)

BeginCheck(d) ==
    /\ at[d] = "check"
    /\ window' = [window EXCEPT ![d] = month]
    /\ at' = [at EXCEPT ![d] = "count"]
    /\ UNCHANGED <<rows, event, known, history, env, faults>>

Used_Decided(since) == Cardinality({e \in queued \cap Failed : receivedIn[e] >= since})

Used(since) == Cardinality({e \in stored \cap Failed : receivedIn[e] >= since})

CountUsed(d) ==
    LET allowed == Used(window[d]) <= Limit
    IN  /\ at[d] = "count"
        /\ meteredIn' = [meteredIn EXCEPT ![event[d]] = window[d]]
        /\ dropped' = IF allowed THEN dropped ELSE dropped \cup {event[d]}
        /\ at' = [at EXCEPT ![d] = IF allowed THEN "enqueue" ELSE "notify"]
        /\ window' = [window EXCEPT ![d] = 0]
        /\ UNCHANGED <<rows, event, known, emails, env, faults>>

Enqueue_AcksOnly(d) ==
    /\ at[d] = "enqueue"
    /\ Leave(d)
    /\ UNCHANGED <<rows, history, env, faults>>

Enqueue(d) ==
    /\ at[d] = "enqueue"
    /\ queued' = queued \cup {event[d]}
    /\ Leave(d)
    /\ UNCHANGED <<stored, receivedIn, account, notices, history, env, faults>>

----------------------------------------------------------------------------
(* notifyPlanLimitReached: the notice row of the current period gates the  *)
(* mail.                                                                   *)

NoticeIsFree_Always(m) == TRUE

NoticeIsFree(m) == m \notin notices

ClaimNotice(d) ==
    /\ at[d] = "notify"
    /\ NoticeIsFree(month)
    /\ notices' = notices \cup {month}
    /\ window' = [window EXCEPT ![d] = month]
    /\ at' = [at EXCEPT ![d] = "email"]
    /\ UNCHANGED <<stored, receivedIn, queued, account, event, known, history, env, faults>>

AlreadyNotified(d) ==
    /\ at[d] = "notify"
    /\ ~NoticeIsFree(month)
    /\ Leave(d)
    /\ UNCHANGED <<rows, history, env, faults>>

SendNotice(d) ==
    /\ at[d] = "email"
    /\ emails' = [emails EXCEPT ![window[d]] = @ + 1]
    /\ Leave(d)
    /\ UNCHANGED <<rows, meteredIn, dropped, env, faults>>

(* The usage meter of the dashboard: the count of enforcement, taken now,  *)
(* as the page shows it.  The merchant sees percent rounded to half up.    *)

computeUsageMeter(used) ==
    [used |-> used,
     remaining |-> IF used < Limit THEN Limit - used ELSE 0,
     percent |-> IF used >= Limit THEN 100 ELSE (200 * used + Limit) \div (2 * Limit),
     exceeded |-> used > Limit]

getUsageMeter == computeUsageMeter(Used(month))

(* The request dies, or a statement or the mail rejects: Razorpay gets no  *)
(* 200, or (in the notice) one all the same.                               *)
Abandon(d) ==
    /\ Fault
    /\ at[d] # "idle"
    /\ Leave(d)
    /\ UNCHANGED <<rows, history, env>>

processWebhook(d) == Refuse(d) \/ Duplicate(d) \/ Persist(d)

notifyMerchantLimitReached(d) == ClaimNotice(d) \/ AlreadyNotified(d) \/ SendNotice(d)

Step(d) ==
    \/ processWebhook(d)
    \/ CaptureAccount(d)
    \/ BeginCheck(d)
    \/ CountUsed(d)
    \/ Enqueue(d)
    \/ notifyMerchantLimitReached(d)

Next ==
    \/ NewMonth
    \/ \E e \in Events : Age(e)
    \/ \E d \in Requests, e \in Events : Deliver(d, e)
    \/ \E d \in Requests : Step(d) \/ CaptureFails(d) \/ Abandon(d)

(* A request that was started goes on; Razorpay owes us no redelivery.     *)
Spec == Init /\ [][Next]_vars

FairSpec == Spec /\ \A d \in Requests : WF_vars(Step(d))

----------------------------------------------------------------------------
(* Properties.                                                             *)

(* However often an event is delivered, only one request ever decides on   *)
(* it, so its EventProcessing row is never created twice; and as long as   *)
(* nothing failed one does, although every later delivery is answered as a *)
(* duplicate and leaves it to that one.                                    *)
AtMostOneDecides ==
    \A d \in Requests : at[d] \in Deciding =>
        /\ event[d] \notin queued \cup dropped
        /\ \A c \in Requests : at[c] \in Deciding /\ event[c] = event[d] => c = d

NoneForgotten ==
    faults = 0 =>
        \A e \in stored \ (queued \cup dropped) :
            \E d \in Requests : at[d] \in Deciding /\ event[d] = e

OneDecider == AtMostOneDecides /\ NoneForgotten

(* Of the failed payments received and metered in one month at most Limit  *)
(* are queued, although counting and queueing are separate statements; and *)
(* none is declined that month while the merchant's meter shows room.      *)
MeteredQueue(m) == {e \in queued \cap Failed : receivedIn[e] = m /\ meteredIn[e] = m}

CapKept == \A m \in Months : Cardinality(MeteredQueue(m)) <= Limit

(* The meter never disagrees with enforcement (usage.ts): as soon as a     *)
(* payment of this month's window is declined the page says so, and        *)
(* whatever is received later it goes on saying so.                        *)
MeterAgrees ==
    dropped \cap {e \in Failed : meteredIn[e] = month} # {}
        => /\ getUsageMeter.exceeded
           /\ getUsageMeter.remaining = 0
           /\ getUsageMeter.percent = 100

CapHolds == CapKept /\ MeterAgrees

(* However many requests meet the limit at once, and whatever fails, the   *)
(* limit mail goes out at most once a month.                               *)
OneMailAMonth == \A m \in Months : emails[m] <= 1

(* Unless a request failed on its way, every event that was stored is      *)
(* queued or declined, though its redeliveries are acknowledged as         *)
(* duplicates from the start.                                              *)
StoredIsDecided ==
    \A e \in Events : e \in stored ~> e \in queued \cup dropped \/ faults > 0

(* Why the three invariants above hold: an event is decided on by the one  *)
(* request that stored it, a mail is sent by the one request that claimed  *)
(* the period's notice, every month's allowance is counted out of the      *)
(* events that were stored when it was counted, and counts only grow.      *)
(* Inductive with TypeOK.                                                  *)
Allowed(m) ==
    {e \in (stored \cap Failed) \ dropped : receivedIn[e] = m /\ meteredIn[e] = m}

Decisions ==
    /\ AtMostOneDecides
    /\ queued \cup dropped \subseteq stored
    /\ queued \cap dropped = {}
    /\ \A e \in Events \ stored : meteredIn[e] = 0
    /\ \A d \in Requests : at[d] \in Deciding => event[d] \in stored
    /\ OneMailAMonth
    /\ \A m \in Months : emails[m] > 0 => m \in notices
    /\ \A d \in Requests : at[d] = "email" =>
          /\ window[d] \in notices
          /\ emails[window[d]] = 0
          /\ \A c \in Requests : at[c] = "email" /\ window[c] = window[d] => c = d

Allowance == \A m \in Months : Cardinality(Allowed(m)) <= Limit

(* No request meters, and no event was metered in, a month to come.        *)
Meter ==
    /\ MeterAgrees
    /\ \A d \in Requests : window[d] <= month
    /\ \A e \in Events : meteredIn[e] <= month

Bookkeeping == Decisions /\ Allowance /\ Meter

----------------------------------------------------------------------------
(* The promise to the merchant: see Admission.                             *)

PhaseOf(e) ==
    IF e \notin stored THEN "new"
    ELSE IF e \in queued THEN "queued"
    ELSE IF e \in dropped THEN "declined"
    ELSE IF meteredIn[e] # 0 THEN "admitted" ELSE "accepted"

phases == [e \in Events |-> PhaseOf(e)]
allowances == [m \in Months |-> Allowed(m)]

Plan == INSTANCE Admission WITH
    Metered <- Failed,
    phase <- phases, arrived <- receivedIn, allowance <- allowances, mails <- emails

(* Every behaviour of the webhook is one Admission allows.                 *)
ImplementsAdmission == Plan!Spec

============================================================================
