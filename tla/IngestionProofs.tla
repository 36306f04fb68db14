-------------------------- MODULE IngestionProofs --------------------------
(***************************************************************************)
(* Machine-checked theorems about Ingestion, for any number of events,     *)
(* requests, months and faults and any plan limit.                         *)
(***************************************************************************)
EXTENDS Ingestion, FiniteSetTheorems, TLAPS

(***************************************************************************)
(* Type correctness.                                                       *)
(***************************************************************************)

(* Every step of every request keeps all variables within their types.     *)
LEMMA TypeStep == TypeOK /\ [Next]_vars => TypeOK'
<1> SUFFICES ASSUME TypeOK, [Next]_vars PROVE TypeOK'
  OBVIOUS
<1> USE EventsAssumption, IngestionBoundsAssumption
    DEF TypeOK, Places, Deciding, Months, Events, rows, procs, history, env
<1>1. CASE UNCHANGED vars
  BY <1>1 DEF vars
<1>2. CASE NewMonth
  BY <1>2 DEF NewMonth
<1>3. ASSUME NEW e \in Events, Age(e) PROVE TypeOK'
  BY <1>3 DEF Age
<1>4. ASSUME NEW d \in Requests, NEW e \in Events, Deliver(d, e) PROVE TypeOK'
  BY <1>4 DEF Deliver
<1>5. ASSUME NEW d \in Requests, Refuse(d) PROVE TypeOK'
  BY <1>5 DEF Refuse, Leave, Accounts
<1>6. ASSUME NEW d \in Requests, Duplicate(d) PROVE TypeOK'
  BY <1>6 DEF Duplicate, Leave, Accounts
<1>7. ASSUME NEW d \in Requests, Persist(d) PROVE TypeOK'
  BY <1>7 DEF Persist, Goto, AfterCapture
<1>8. ASSUME NEW d \in Requests, CaptureAccount(d) PROVE TypeOK'
  BY <1>8 DEF CaptureAccount, Goto, AfterCapture, accountOf, Accounts
<1>9. ASSUME NEW d \in Requests, CaptureFails(d) PROVE TypeOK'
  BY <1>9 DEF CaptureFails, Fault, Goto, AfterCapture
<1>10. ASSUME NEW d \in Requests, BeginCheck(d) PROVE TypeOK'
  BY <1>10 DEF BeginCheck
<1>11. ASSUME NEW d \in Requests, CountUsed(d) PROVE TypeOK'
  BY <1>11 DEF CountUsed
<1>12. ASSUME NEW d \in Requests, Enqueue(d) PROVE TypeOK'
  BY <1>12 DEF Enqueue, Leave, Accounts
<1>13. ASSUME NEW d \in Requests, ClaimNotice(d) PROVE TypeOK'
  BY <1>13 DEF ClaimNotice
<1>14. ASSUME NEW d \in Requests, AlreadyNotified(d) PROVE TypeOK'
  BY <1>14 DEF AlreadyNotified, Leave, Accounts
<1>15. ASSUME NEW d \in Requests, SendNotice(d) PROVE TypeOK'
  <2>1. emails' \in [Months -> Nat]
    BY <1>15 DEF SendNotice
  <2>2. QED
    BY <1>15, <2>1 DEF SendNotice, Leave, Accounts
<1>16. ASSUME NEW d \in Requests, Abandon(d) PROVE TypeOK'
  BY <1>16 DEF Abandon, Fault, Leave, Accounts
<1> HIDE DEF TypeOK, Events
<1>17. QED
  BY <1>1, <1>2, <1>3, <1>4, <1>5, <1>6, <1>7, <1>8, <1>9, <1>10, <1>11,
     <1>12, <1>13, <1>14, <1>15, <1>16 DEF Next, Step, processWebhook, notifyMerchantLimitReached

(* The rows of the webhook and its running requests always have the shape  *)
(* the schema and the code give them.                                      *)
THEOREM TypeCorrect == Spec => []TypeOK
<1>1. Init => TypeOK
  BY EventsAssumption, IngestionBoundsAssumption
  DEF Init, TypeOK, Places, Deciding, Months, Accounts, Events
<1>2. QED
  BY <1>1, TypeStep, PTL DEF Spec

(***************************************************************************)
(* One decision per event, one mail per period, one allowance per month.   *)
(***************************************************************************)

(* checkPlanLimit counts every stored event, so what is allowed after a    *)
(* count is either what was allowed before it, or among what it counted.   *)
LEMMA AllowanceStep ==
    ASSUME TypeOK, Bookkeeping, NEW d \in Requests, CountUsed(d), NEW m \in Months
    PROVE  Cardinality(Allowed(m)') <= Limit
<1> DEFINE e == event[d]
<1> DEFINE counted == {f \in stored \cap Failed : receivedIn[f] >= window[d]}
<1>1. IsFiniteSet(stored \cap Failed)
  BY FiniteEventsAssumption, FS_Intersection
<1>2. CASE Allowed(m)' \subseteq Allowed(m)
  <2>1. IsFiniteSet(Allowed(m))
    BY <1>1, FS_Subset DEF Allowed
  <2>2. Cardinality(Allowed(m)') <= Cardinality(Allowed(m))
    BY <1>2, <2>1, FS_Subset
  <2>3. Cardinality(Allowed(m)) <= Limit
    BY DEF Bookkeeping, Allowance
  <2>4. Cardinality(Allowed(m)) \in Nat /\ Cardinality(Allowed(m)') \in Nat
    BY <1>2, <2>1, FS_Subset, FS_CardinalityType
  <2>5. QED
    BY <2>2, <2>3, <2>4, LimitAssumption
<1>3. CASE m = window[d] /\ Used(window[d]) <= Limit
  <2>1. Allowed(m)' \subseteq counted
    BY <1>3 DEF Allowed, CountUsed, rows, TypeOK, Months
  <2>2. IsFiniteSet(counted)
    BY <1>1, FS_Subset
  <2>3. Cardinality(Allowed(m)') <= Cardinality(counted)
    BY <2>1, <2>2, FS_Subset
  <2>4. Cardinality(counted) \in Nat /\ Cardinality(Allowed(m)') \in Nat
    BY <2>1, <2>2, FS_Subset, FS_CardinalityType
  <2>5. Cardinality(counted) <= Limit
    BY <1>3 DEF Used
  <2>6. QED
    BY <2>3, <2>4, <2>5, LimitAssumption
<1>4. CASE m # window[d]
  <2>1. Allowed(m)' \subseteq Allowed(m)
    BY <1>4 DEF Allowed, CountUsed, rows, TypeOK
  <2>2. QED
    BY <2>1, <1>2
<1>5. CASE ~(Used(window[d]) <= Limit)
  <2>1. Allowed(m)' \subseteq Allowed(m)
    BY <1>5 DEF Allowed, CountUsed, rows, TypeOK
  <2>2. QED
    BY <2>1, <1>2
<1>6. QED
  BY <1>3, <1>4, <1>5

(* No other step allows a payment: a payment that was just stored is not   *)
(* metered yet.                                                            *)
LEMMA AllowanceKept ==
    ASSUME TypeOK, Decisions, [Next]_vars, NEW m \in Months,
           \A d \in Requests : ~CountUsed(d)
    PROVE  Allowed(m)' = Allowed(m)
<1> USE DEF Allowed, rows, history
<1>1. ASSUME NEW d \in Requests, Persist(d) PROVE Allowed(m)' = Allowed(m)
  <2>1. event[d] \in Events \ stored
    BY <1>1 DEF Persist, IsNew, TypeOK
  <2>2. meteredIn[event[d]] # m
    BY <2>1 DEF Decisions, Months
  <2>3. QED
    BY <1>1, <2>1, <2>2 DEF Persist, TypeOK, Events
<1>2. CASE UNCHANGED <<stored, receivedIn, meteredIn, dropped>>
  BY <1>2
<1>3. QED
  BY <1>1, <1>2
  DEF Next, Step, processWebhook, notifyMerchantLimitReached, vars, NewMonth, Age, Deliver,
      Refuse, Duplicate, CaptureAccount, CaptureFails, BeginCheck, Enqueue, ClaimNotice, AlreadyNotified, SendNotice,
      Abandon

(* Every statement of the webhook, and every fault in it, keeps the books: *)
(* one decider per event and one mailer per period.                        *)
LEMMA DecisionsStep == TypeOK /\ Decisions /\ [Next]_vars => Decisions'
<1> SUFFICES ASSUME TypeOK, Decisions, [Next]_vars PROVE Decisions'
  OBVIOUS
<1> USE DEF Decisions, AtMostOneDecides, OneMailAMonth, Deciding, rows, procs, history, env
<1>1. CASE UNCHANGED vars
  BY <1>1 DEF vars
<1>2. CASE NewMonth
  BY <1>2 DEF NewMonth
<1>3. ASSUME NEW e \in Events, Age(e) PROVE Decisions'
  BY <1>3 DEF Age
<1>4. ASSUME NEW d \in Requests, NEW e \in Events, Deliver(d, e) PROVE Decisions'
  BY <1>4 DEF Deliver, TypeOK
<1>5. ASSUME NEW d \in Requests, Refuse(d) PROVE Decisions'
  BY <1>5 DEF Refuse, Leave, TypeOK
<1>6. ASSUME NEW d \in Requests, Duplicate(d) PROVE Decisions'
  BY <1>6 DEF Duplicate, Leave, TypeOK
<1>7. ASSUME NEW d \in Requests, Persist(d) PROVE Decisions'
  BY <1>7 DEF Persist, Goto, AfterCapture, IsNew, TypeOK
<1>8. ASSUME NEW d \in Requests, CaptureAccount(d) PROVE Decisions'
  BY <1>8 DEF CaptureAccount, Goto, AfterCapture, TypeOK
<1>9. ASSUME NEW d \in Requests, CaptureFails(d) PROVE Decisions'
  BY <1>9 DEF CaptureFails, Goto, AfterCapture, TypeOK
<1>10. ASSUME NEW d \in Requests, BeginCheck(d) PROVE Decisions'
  BY <1>10 DEF BeginCheck, TypeOK
<1>11. ASSUME NEW d \in Requests, CountUsed(d) PROVE Decisions'
  BY <1>11 DEF CountUsed, TypeOK
<1>12. ASSUME NEW d \in Requests, Enqueue(d) PROVE Decisions'
  BY <1>12 DEF Enqueue, Leave, TypeOK
<1>13. ASSUME NEW d \in Requests, ClaimNotice(d) PROVE Decisions'
  BY <1>13 DEF ClaimNotice, NoticeIsFree, TypeOK
<1>14. ASSUME NEW d \in Requests, AlreadyNotified(d) PROVE Decisions'
  BY <1>14 DEF AlreadyNotified, Leave, TypeOK
<1>15. ASSUME NEW d \in Requests, SendNotice(d) PROVE Decisions'
  BY <1>15 DEF SendNotice, Leave, TypeOK
<1>16. ASSUME NEW d \in Requests, Abandon(d) PROVE Decisions'
  BY <1>16 DEF Abandon, Leave, TypeOK
<1> HIDE DEF Decisions
<1>17. QED
  BY <1>1, <1>2, <1>3, <1>4, <1>5, <1>6, <1>7, <1>8, <1>9, <1>10, <1>11,
     <1>12, <1>13, <1>14, <1>15, <1>16 DEF Next, Step, processWebhook, notifyMerchantLimitReached

(* Counts of stored events are numbers, and they only grow.                *)
LEMMA UsedGrows ==
    ASSUME TypeOK, [Next]_vars, NEW m \in Months
    PROVE  Used(m) \in Nat /\ Used(m)' \in Nat /\ Used(m) <= Used(m)'
<1> DEFINE S == {e \in stored \cap Failed : receivedIn[e] >= m}
<1> DEFINE T == {e \in stored' \cap Failed : receivedIn'[e] >= m}
<1>1. S \subseteq T
  <2>1. ASSUME NEW d \in Requests, Persist(d) PROVE S \subseteq T
    BY <2>1 DEF Persist, IsNew, TypeOK
  <2>2. CASE UNCHANGED <<stored, receivedIn>>
    BY <2>2
  <2>3. QED
    BY <2>1, <2>2
    DEF Next, Step, processWebhook, notifyMerchantLimitReached, vars, rows, NewMonth, Age,
        Deliver, Refuse, Duplicate, CaptureAccount, CaptureFails, BeginCheck, CountUsed,
        Enqueue, ClaimNotice, AlreadyNotified, SendNotice, Abandon
<1>2. IsFiniteSet(T) /\ IsFiniteSet(S)
  BY FiniteEventsAssumption, FS_Subset
<1>3. Cardinality(S) \in Nat /\ Cardinality(T) \in Nat /\ Cardinality(S) <= Cardinality(T)
  BY <1>1, <1>2, FS_Subset, FS_CardinalityType
<1>4. QED
  BY <1>3 DEF Used

(* What the meter shows once the count is over the limit.                  *)
LEMMA MeterOverLimit ==
    ASSUME NEW used \in Nat, used > Limit
    PROVE  /\ computeUsageMeter(used).exceeded
           /\ computeUsageMeter(used).remaining = 0
           /\ computeUsageMeter(used).percent = 100
<1>1. used >= Limit /\ ~(used < Limit)
  BY LimitAssumption
<1>2. computeUsageMeter(used).exceeded
  BY DEF computeUsageMeter
<1>3. computeUsageMeter(used).remaining = 0
  BY <1>1, Zenon DEF computeUsageMeter
<1>4. computeUsageMeter(used).percent = 100
  BY <1>1, Zenon DEF computeUsageMeter
<1>5. QED
  BY <1>2, <1>3, <1>4

LEMMA MeterUnderLimit ==
    ASSUME NEW used \in Nat, computeUsageMeter(used).exceeded
    PROVE  used > Limit
BY DEF computeUsageMeter

(* Nobody meters a month to come.                                          *)
MonthsPast ==
    /\ \A d \in Requests : window[d] <= month
    /\ \A e \in Events : meteredIn[e] <= month

LEMMA MonthsStep == TypeOK /\ MonthsPast /\ [Next]_vars => MonthsPast'
<1> SUFFICES ASSUME TypeOK, MonthsPast, [Next]_vars PROVE MonthsPast'
  OBVIOUS
<1>0. /\ month \in Nat /\ month >= 1 /\ month' \in Nat /\ month <= month'
      /\ window \in [Requests -> Nat] /\ meteredIn \in [Events -> Nat]
      /\ event \in [Requests -> Events \cup {NoEvent}]
  <2>1. month \in Nat /\ month >= 1
    BY DEF TypeOK, Months
  <2>2. month' = month \/ month' = month + 1
    BY DEF Next, Step, processWebhook, notifyMerchantLimitReached, vars, env, NewMonth, Age,
        Deliver, Refuse, Duplicate, Persist, CaptureAccount, CaptureFails, BeginCheck,
        CountUsed, Enqueue, ClaimNotice, AlreadyNotified, SendNotice, Abandon
  <2>3. QED
    BY <2>1, <2>2, IngestionBoundsAssumption DEF TypeOK, Months
<1>1. ASSUME NEW d \in Requests, NEW w \in Nat, w <= month, UNCHANGED meteredIn,
             window' = [window EXCEPT ![d] = w]
      PROVE  MonthsPast'
  BY <1>0, <1>1 DEF MonthsPast
<1>2. ASSUME NEW d \in Requests, CountUsed(d) PROVE MonthsPast'
  BY <1>0, <1>2 DEF MonthsPast, CountUsed, env
<1>3. CASE UNCHANGED <<window, meteredIn>>
  BY <1>0, <1>3 DEF MonthsPast
<1>4. QED
  BY <1>0, <1>1, <1>2, <1>3
  DEF Next, Step, processWebhook, notifyMerchantLimitReached, vars, history, procs, NewMonth,
      Age, Deliver, Refuse, Duplicate, Persist, CaptureAccount, CaptureFails, BeginCheck,
      Enqueue, ClaimNotice, AlreadyNotified, SendNotice, Abandon, Goto, Leave

(* A payment is declined over the limit, and the count never goes down     *)
(* within the month.                                                       *)
LEMMA MeterStep ==
    ASSUME TypeOK, MeterAgrees, MonthsPast, Decisions, [Next]_vars,
           NEW e \in Failed, e \in dropped', meteredIn'[e] = month'
    PROVE  Used(month)' \in Nat /\ Used(month)' > Limit
<1>0. month \in Months /\ month \in Nat /\ dropped \subseteq Failed
  BY DEF TypeOK, Months
<1>1. PICK m \in Months : m = month
  BY <1>0
<1>2. Used(m) \in Nat /\ Used(m)' \in Nat /\ Used(m) <= Used(m)'
  BY UsedGrows
<1>3. CASE UNCHANGED <<month, dropped, meteredIn>>
  <2>1. Used(m) > Limit
    BY <1>0, <1>1, <1>2, <1>3, MeterUnderLimit DEF MeterAgrees, getUsageMeter
  <2>2. Used(month)' = Used(m)'
    BY <1>1, <1>3 DEF Used
  <2>3. QED
    BY <1>2, <2>1, <2>2, LimitAssumption
<1>4. CASE NewMonth
  <2>1. meteredIn[e] = month + 1 /\ meteredIn[e] <= month
    BY <1>4 DEF NewMonth, MonthsPast, history, Events
  <2>2. QED
    BY <1>0, <2>1
<1>5. ASSUME NEW d \in Requests, CountUsed(d)
      PROVE  Used(month)' \in Nat /\ Used(month)' > Limit
  <2>1. month' = month /\ stored' = stored /\ receivedIn' = receivedIn
    BY <1>5 DEF CountUsed, env, rows
  <2>2. Used(month)' = Used(m)
    BY <1>1, <2>1 DEF Used
  <2>3. CASE e = event[d] /\ e \notin dropped
    <3>1. meteredIn'[e] = window[d]
      BY <1>5, <2>3 DEF CountUsed, TypeOK, Events
    <3>2. ~(Used(window[d]) <= Limit)
      BY <1>5, <2>3 DEF CountUsed
    <3>3. window[d] = m
      BY <1>1, <2>1, <3>1
    <3>4. QED
      BY <1>2, <2>2, <3>2, <3>3, LimitAssumption
  <2>4. CASE e # event[d]
    <3>1. e \in dropped /\ meteredIn[e] = month
      BY <1>5, <2>1, <2>4 DEF CountUsed, TypeOK, Events
    <3>2. Used(m) > Limit
      BY <1>1, <1>2, <3>1, MeterUnderLimit DEF MeterAgrees, getUsageMeter
    <3>3. QED
      BY <1>2, <2>2, <3>2
  <2>5. CASE e = event[d] /\ e \in dropped
    <3>1. at[d] \in Deciding
      BY <1>5 DEF CountUsed, Deciding
    <3>2. QED
      BY <2>5, <3>1 DEF Decisions, AtMostOneDecides
  <2>6. QED
    BY <2>3, <2>4, <2>5
<1>6. QED
  BY <1>3, <1>4, <1>5
  DEF Next, Step, processWebhook, notifyMerchantLimitReached, vars, rows, history, env, Age,
      Deliver, Refuse, Duplicate, Persist, CaptureAccount, CaptureFails, BeginCheck,
      Enqueue, ClaimNotice, AlreadyNotified, SendNotice, Abandon

LEMMA MeterKept == TypeOK /\ MeterAgrees /\ MonthsPast /\ Decisions /\ [Next]_vars => MeterAgrees'
<1> SUFFICES ASSUME TypeOK, MeterAgrees, MonthsPast, Decisions, [Next]_vars,
                    NEW e \in Failed, e \in dropped', meteredIn'[e] = month'
             PROVE  /\ computeUsageMeter(Used(month)').exceeded
                    /\ computeUsageMeter(Used(month)').remaining = 0
                    /\ computeUsageMeter(Used(month)').percent = 100
  BY DEF MeterAgrees, getUsageMeter, computeUsageMeter
<1>1. Used(month)' \in Nat /\ Used(month)' > Limit
  BY MeterStep
<1>2. QED
  BY <1>1, MeterOverLimit

(* Spec keeps Bookkeeping, the conjunction of all.                         *)
THEOREM BookkeepingInvariant == Spec => []Bookkeeping
<1>1. Init => Bookkeeping
  <2> SUFFICES ASSUME Init PROVE Bookkeeping
    OBVIOUS
  <2>1. Decisions
    BY DEF Init, Decisions, AtMostOneDecides, OneMailAMonth, Deciding
  <2>2. ASSUME NEW m \in Months PROVE Cardinality(Allowed(m)) <= Limit
    <3>1. Allowed(m) = {}
      BY DEF Init, Allowed
    <3>2. QED
      BY <3>1, FS_EmptySet, LimitAssumption
  <2>3. Meter
    BY IngestionBoundsAssumption DEF Init, Meter, MeterAgrees
  <2>4. QED
    BY <2>1, <2>2, <2>3 DEF Bookkeeping, Allowance
<1>2. TypeOK /\ Bookkeeping /\ [Next]_vars => Bookkeeping'
  <2> SUFFICES ASSUME TypeOK, Bookkeeping, [Next]_vars PROVE Bookkeeping'
    OBVIOUS
  <2>1. Decisions'
    BY DecisionsStep DEF Bookkeeping
  <2>2. ASSUME NEW m \in Months PROVE (Cardinality(Allowed(m)) <= Limit)'
    <3>1. CASE \E d \in Requests : CountUsed(d)
      BY <3>1, AllowanceStep
    <3>2. CASE \A d \in Requests : ~CountUsed(d)
      <4>1. Allowed(m)' = Allowed(m)
        BY <3>2, AllowanceKept DEF Bookkeeping
      <4>2. QED
        BY <4>1 DEF Bookkeeping, Allowance
    <3>3. QED
      BY <3>1, <3>2
  <2>3. Allowance'
    BY <2>2 DEF Allowance, Months
  <2>4. MonthsPast'
    BY MonthsStep DEF Bookkeeping, Meter, MonthsPast
  <2>5. MeterAgrees'
    BY MeterKept DEF Bookkeeping, Meter, MonthsPast
  <2>6. QED
    BY <2>1, <2>3, <2>4, <2>5 DEF Bookkeeping, Meter, MonthsPast
<1>3. QED
  BY <1>1, <1>2, TypeCorrect, PTL DEF Spec

(* A request keeps its event until it queued or declined it: while nothing *)
(* failed, no event that was stored is left behind.                        *)
LEMMA NoneForgottenStep == TypeOK /\ NoneForgotten /\ [Next]_vars => NoneForgotten'
<1> SUFFICES ASSUME TypeOK, NoneForgotten, [Next]_vars, faults' = 0,
                    NEW e \in stored', e \notin queued', e \notin dropped'
             PROVE  \E d \in Requests : at'[d] \in Deciding /\ event'[d] = e
  BY DEF NoneForgotten
<1>1. /\ at \in [Requests -> Places] /\ event \in [Requests -> Events \cup {NoEvent}]
      /\ dropped \subseteq Failed
  BY DEF TypeOK
<1>2. ASSUME NEW d \in Requests, Persist(d), event[d] = e
      PROVE  at'[d] \in Deciding /\ event'[d] = e
  BY <1>1, <1>2 DEF Persist, Goto, AfterCapture, Deciding
<1>3. CASE e \in stored
  <2>1. faults = 0 /\ e \notin queued /\ e \notin dropped
    <3>1. ASSUME NEW d \in Requests, CountUsed(d) PROVE dropped \subseteq dropped'
      BY <3>1 DEF CountUsed
    <3>2. ASSUME NEW d \in Requests, Enqueue(d) PROVE queued \subseteq queued'
      BY <3>2 DEF Enqueue
    <3>3. faults = 0
      BY DEF TypeOK, Next, Step, processWebhook, notifyMerchantLimitReached, vars, NewMonth, Age,
             Deliver, Refuse, Duplicate, Persist, CaptureAccount, CaptureFails, BeginCheck,
             CountUsed, Enqueue, ClaimNotice, AlreadyNotified, SendNotice, Abandon, Fault
    <3>4. QED
      BY <3>1, <3>2, <3>3
      DEF Next, Step, processWebhook, notifyMerchantLimitReached, vars, rows, history, NewMonth,
          Age, Deliver, Refuse, Duplicate, Persist, CaptureAccount, CaptureFails, BeginCheck,
          CountUsed, Enqueue, ClaimNotice, AlreadyNotified, SendNotice, Abandon
  <2>2. PICK d \in Requests : at[d] \in Deciding /\ event[d] = e
    BY <1>3, <2>1 DEF NoneForgotten
  <2>3. ASSUME NEW c \in Requests,
               Deliver(c, event'[c]) \/ Refuse(c) \/ Duplicate(c) \/ Persist(c) \/ ClaimNotice(c)
               \/ AlreadyNotified(c) \/ SendNotice(c)
        PROVE  at'[d] \in Deciding /\ event'[d] = e
    <3>1. at[c] \notin Deciding /\ \A r \in Requests \ {c} : at'[r] = at[r] /\ event'[r] = event[r]
      BY <1>1, <2>3 DEF Deliver, Refuse, Duplicate, Persist, ClaimNotice, AlreadyNotified,
                        SendNotice, Leave, Goto, Deciding
    <3>2. QED
      BY <2>2, <3>1
  <2>4. ASSUME NEW c \in Requests, CaptureAccount(c) \/ CaptureFails(c) \/ BeginCheck(c)
        PROVE  at'[d] \in Deciding /\ event'[d] = e
    BY <1>1, <2>2, <2>4 DEF CaptureAccount, CaptureFails, BeginCheck, Goto, AfterCapture, Deciding
  <2>5. ASSUME NEW c \in Requests, CountUsed(c)
        PROVE  at'[d] \in Deciding /\ event'[d] = e
    BY <1>1, <2>2, <2>5 DEF CountUsed, Deciding
  <2>6. ASSUME NEW c \in Requests, Enqueue(c)
        PROVE  at'[d] \in Deciding /\ event'[d] = e
    <3>1. c # d
      BY <2>2, <2>6 DEF Enqueue
    <3>2. QED
      BY <1>1, <2>2, <2>6, <3>1 DEF Enqueue, Leave
  <2>7. ASSUME NEW c \in Requests, Abandon(c) PROVE FALSE
    BY <2>1, <2>7 DEF Abandon, Fault
  <2>8. CASE UNCHANGED <<at, event>>
    BY <2>2, <2>8
  <2>9. ASSUME NEW c \in Requests, NEW f \in Events, Deliver(c, f)
        PROVE  Deliver(c, event'[c])
    BY <1>1, <2>9 DEF Deliver
  <2>10. QED
    BY <2>3, <2>4, <2>5, <2>6, <2>7, <2>8, <2>9
    DEF Next, Step, processWebhook, notifyMerchantLimitReached, vars, procs, NewMonth, Age
<1>4. CASE e \notin stored
  <2>1. \E d \in Requests : Persist(d) /\ event[d] = e
    BY <1>4
    DEF Next, Step, processWebhook, notifyMerchantLimitReached, vars, rows, NewMonth, Age,
        Deliver, Refuse, Duplicate, Persist, CaptureAccount, CaptureFails, BeginCheck,
        CountUsed, Enqueue, ClaimNotice, AlreadyNotified, SendNotice, Abandon
  <2>2. QED
    BY <1>2, <2>1
<1>5. QED
  BY <1>3, <1>4

(* The receipt's unique key makes one request decide on an event, however  *)
(* often and however concurrently it is delivered; and while nothing       *)
(* failed no event is answered for as a duplicate that nobody decides on.  *)
THEOREM OneRequestDecides == Spec => []OneDecider
<1>1. Bookkeeping => AtMostOneDecides
  BY DEF Bookkeeping, Decisions
<1>2. Init => NoneForgotten
  BY DEF Init, NoneForgotten
<1>3. QED
  BY <1>1, <1>2, NoneForgottenStep, TypeCorrect, BookkeepingInvariant, PTL DEF Spec, OneDecider

(* Of the payments received and metered in one month, at most Limit are    *)
(* queued for recovery, however many requests meter at once; and as soon   *)
(* as one is declined the merchant's meter says so, to the month's end.    *)
THEOREM PlanCapHolds == Spec => []CapHolds
<1>1. TypeOK /\ Bookkeeping => CapHolds
  <2> SUFFICES ASSUME TypeOK, Bookkeeping, NEW m \in Months
               PROVE  Cardinality(MeteredQueue(m)) <= Limit
    BY DEF CapHolds, CapKept, Bookkeeping, Meter
  <2>1. MeteredQueue(m) \subseteq Allowed(m)
    BY DEF MeteredQueue, Allowed, Bookkeeping, Decisions
  <2>2. IsFiniteSet(Allowed(m))
    BY FiniteEventsAssumption, FS_Subset DEF Allowed
  <2>3. Cardinality(MeteredQueue(m)) <= Cardinality(Allowed(m))
    BY <2>1, <2>2, FS_Subset
  <2>4. Cardinality(Allowed(m)) \in Nat /\ Cardinality(MeteredQueue(m)) \in Nat
    BY <2>1, <2>2, FS_Subset, FS_CardinalityType
  <2>5. Cardinality(Allowed(m)) <= Limit
    BY DEF Bookkeeping, Allowance
  <2>6. QED
    BY <2>3, <2>4, <2>5, LimitAssumption
<1>2. QED
  BY <1>1, TypeCorrect, BookkeepingInvariant, PTL

(* The unique notice row of a period lets one limit mail through.          *)
THEOREM LimitMailAtMostOnce == Spec => []OneMailAMonth
<1>1. Bookkeeping => OneMailAMonth
  BY DEF Bookkeeping, Decisions
<1>2. QED
  BY <1>1, BookkeepingInvariant, PTL

(***************************************************************************)
(* The webhook implements Admission.                                       *)
(***************************************************************************)

(* What a request may rely on between its statements, beside Bookkeeping:  *)
(* its payment is not metered before the count and is metered after it,    *)
(* and only a request whose payment was declined is about to notify.       *)
Metering ==
    /\ \A e \in Events : e \notin stored => receivedIn[e] = 0
    /\ \A e \in Events : meteredIn[e] # 0 => e \in Failed
    /\ \A d \in Requests :
          /\ at[d] \in {"capture", "check", "count"} => meteredIn[event[d]] = 0
          /\ at[d] = "enqueue" /\ event[d] \in Failed => meteredIn[event[d]] # 0
          /\ at[d] \in {"notify", "email"} => event[d] \in dropped

LEMMA MeteringStep == TypeOK /\ Decisions /\ Metering /\ [Next]_vars => Metering'
<1> SUFFICES ASSUME TypeOK, Decisions, Metering, [Next]_vars PROVE Metering'
  OBVIOUS
<1>0. /\ at \in [Requests -> Places] /\ event \in [Requests -> Events \cup {NoEvent}]
      /\ meteredIn \in [Events -> {0} \cup Months] /\ receivedIn \in [Events -> {0} \cup Months]
      /\ \A d \in Requests : at[d] # "idle" => event[d] \in Events
  BY DEF TypeOK
<1>1. ASSUME NEW d \in Requests, Persist(d) PROVE Metering'
  <2>1. event[d] \in Events \ stored /\ meteredIn[event[d]] = 0
    BY <1>0, <1>1 DEF Persist, IsNew, Decisions
  <2>2. PICK place \in {"capture", "check", "enqueue"} :
            /\ at' = [at EXCEPT ![d] = place]
            /\ place = "enqueue" => event[d] \notin Failed
    BY <1>1 DEF Persist, Goto, AfterCapture
  <2>3. /\ stored' = stored \cup {event[d]} /\ receivedIn' = [receivedIn EXCEPT ![event[d]] = month]
        /\ UNCHANGED <<event, meteredIn, dropped>>
    BY <1>1 DEF Persist, Goto, history
  <2>4. QED
    BY <1>0, <2>1, <2>2, <2>3 DEF Metering
<1>2. ASSUME NEW d \in Requests, CaptureAccount(d) \/ CaptureFails(d) PROVE Metering'
  <2>1. PICK place \in {"check", "enqueue"} :
            /\ at[d] = "capture" /\ at' = [at EXCEPT ![d] = place]
            /\ place = "enqueue" => event[d] \notin Failed
    BY <1>2 DEF CaptureAccount, CaptureFails, Goto, AfterCapture
  <2>2. UNCHANGED <<stored, receivedIn, event, meteredIn, dropped>>
    BY <1>2 DEF CaptureAccount, CaptureFails, Goto, history, rows
  <2>3. QED
    BY <1>0, <2>1, <2>2 DEF Metering
<1>3. ASSUME NEW d \in Requests, BeginCheck(d) PROVE Metering'
  BY <1>0, <1>3 DEF Metering, BeginCheck, rows, history
<1>4. ASSUME NEW d \in Requests, CountUsed(d) PROVE Metering'
  <2>1. event[d] \in Events /\ event[d] \in Failed /\ window[d] \in Months /\ window[d] # 0
    BY <1>4 DEF CountUsed, TypeOK, Months
  <2>2. \A c \in Requests : at[c] \in Deciding /\ event[c] = event[d] => c = d
    BY <1>4 DEF CountUsed, Decisions, AtMostOneDecides, Deciding
  <2>3. /\ meteredIn' = [meteredIn EXCEPT ![event[d]] = window[d]]
        /\ dropped \subseteq dropped'
        /\ UNCHANGED <<stored, receivedIn, event>>
    BY <1>4 DEF CountUsed, rows
  <2>4. PICK place \in {"enqueue", "notify"} :
            /\ at' = [at EXCEPT ![d] = place]
            /\ place = "notify" => event[d] \in dropped'
    BY <1>4 DEF CountUsed
  <2>5. QED
    BY <1>0, <2>1, <2>2, <2>3, <2>4 DEF Metering, Deciding
<1>5. ASSUME NEW d \in Requests,
             Refuse(d) \/ Duplicate(d) \/ Enqueue(d) \/ AlreadyNotified(d) \/ SendNotice(d) \/ Abandon(d)
      PROVE  Metering'
  <2>1. at' = [at EXCEPT ![d] = "idle"] /\ event' = [event EXCEPT ![d] = NoEvent]
    BY <1>5 DEF Refuse, Duplicate, Enqueue, AlreadyNotified, SendNotice, Abandon, Leave
  <2>2. UNCHANGED <<stored, receivedIn, meteredIn, dropped>>
    BY <1>5 DEF Refuse, Duplicate, Enqueue, AlreadyNotified, SendNotice, Abandon, rows, history
  <2>3. QED
    BY <1>0, <2>1, <2>2 DEF Metering
<1>6. ASSUME NEW d \in Requests, ClaimNotice(d) PROVE Metering'
  BY <1>0, <1>6 DEF Metering, ClaimNotice, history
<1>7. ASSUME NEW d \in Requests, NEW e \in Events, Deliver(d, e) PROVE Metering'
  BY <1>0, <1>7 DEF Metering, Deliver, rows, history
<1>8. CASE UNCHANGED <<rows, procs, history>>
  BY <1>8 DEF Metering, rows, procs, history
<1>9. QED
  BY <1>1, <1>2, <1>3, <1>4, <1>5, <1>6, <1>7, <1>8
  DEF Next, Step, processWebhook, notifyMerchantLimitReached, vars, NewMonth, Age

(* Only the step that changes a payment's columns changes its phase.       *)
LEMMA PhaseStays ==
    ASSUME UNCHANGED <<stored, queued, dropped, meteredIn>>
    PROVE  phases' = phases
BY DEF phases, PhaseOf

LEMMA AllowancesStay ==
    ASSUME TypeOK, Bookkeeping, [Next]_vars, \A d \in Requests : ~CountUsed(d)
    PROVE  allowances' = allowances
BY AllowanceKept DEF allowances, Bookkeeping

(* The transaction that stores an event accepts it.                        *)
LEMMA PersistAccepts ==
    ASSUME TypeOK, Bookkeeping, Metering, NEW d \in Requests, Persist(d),
           allowances' = allowances
    PROVE  Plan!Accept(event[d], month)
<1> DEFINE e == event[d]
<1>1. e \in Events /\ e \notin stored /\ meteredIn[e] = 0
      /\ e \notin queued /\ e \notin dropped
  BY DEF Persist, IsNew, TypeOK, Bookkeeping, Decisions
<1>2. /\ stored' = stored \cup {e} /\ receivedIn' = [receivedIn EXCEPT ![e] = month]
      /\ UNCHANGED <<queued, dropped, meteredIn, emails>>
  BY DEF Persist, history
<1> HIDE DEF e
<1>3. phases[e] = "new" /\ phases' = [phases EXCEPT ![e] = "accepted"]
  BY <1>1, <1>2 DEF phases, PhaseOf
<1>4. QED
  BY <1>2, <1>3 DEF Plan!Accept, Plan!Move, e

LEMMA SameCount == \A S : Plan!Cardinality(S) = Cardinality(S)
BY DEF Plan!Cardinality, Cardinality

(* The count admits its payment or declines it.                            *)
LEMMA CountDecides ==
    ASSUME TypeOK, Bookkeeping, Metering, [Next]_vars, NEW d \in Requests, CountUsed(d)
    PROVE  /\ window[d] \in Months /\ event[d] \in Failed
           /\ Plan!Admit(event[d], window[d]) \/ Plan!Decline(event[d], window[d])
<1>0. PICK e \in Failed, w \in Months : e = event[d] /\ w = window[d]
  BY DEF CountUsed, TypeOK
<1>1. /\ e \in Events /\ e \in Failed /\ w \in Months /\ w \in Nat /\ w # 0
      /\ e \in stored /\ e \notin queued /\ e \notin dropped /\ meteredIn[e] = 0
  BY <1>0
  DEF CountUsed, TypeOK, Bookkeeping, Decisions, AtMostOneDecides, Deciding, Metering, Months, Events
<1>2. /\ meteredIn' = [meteredIn EXCEPT ![e] = w]
      /\ dropped' = IF Used(w) <= Limit THEN dropped ELSE dropped \cup {e}
      /\ UNCHANGED <<stored, queued, receivedIn, emails>>
  BY <1>0 DEF CountUsed, rows
<1>3. meteredIn \in [Events -> {0} \cup Months] /\ phases[e] = "accepted"
  BY <1>1 DEF TypeOK, phases, PhaseOf
<1>4. CASE Used(w) <= Limit
  <2>1. phases' = [phases EXCEPT ![e] = "admitted"]
    BY <1>1, <1>2, <1>3, <1>4 DEF phases, PhaseOf
  <2>2. ASSUME NEW m \in Months
        PROVE  Allowed(m)' = IF m = w /\ receivedIn[e] = m THEN Allowed(m) \cup {e} ELSE Allowed(m)
    <3>1. m # 0
      BY DEF Months
    <3>2. QED
      BY <1>1, <1>2, <1>3, <1>4, <3>1 DEF Allowed, Events
  <2>3. allowances' = [allowances EXCEPT ![w] = IF receivedIn[e] = w THEN @ \cup {e} ELSE @]
    BY <1>1, <2>2 DEF allowances
  <2>4. Cardinality(Allowed(w)') <= Limit
    BY AllowanceStep
  <2>5. allowances'[w] = Allowed(w)'
    BY <1>1, <2>2, <2>3 DEF allowances
  <2>6. Plan!Admit(e, w)
    BY <1>2, <1>3, <2>1, <2>3, <2>4, <2>5, SameCount DEF Plan!Admit, Plan!Move
  <2>7. QED
    BY <1>0, <2>6
<1>5. CASE ~(Used(w) <= Limit)
  <2>1. phases' = [phases EXCEPT ![e] = "declined"]
    BY <1>1, <1>2, <1>3, <1>5 DEF phases, PhaseOf
  <2>2. ASSUME NEW m \in Months PROVE Allowed(m)' = Allowed(m)
    <3>1. m # 0
      BY DEF Months
    <3>2. QED
      BY <1>1, <1>2, <1>3, <1>5, <3>1 DEF Allowed, Events
  <2>3. allowances' = allowances
    BY <2>2 DEF allowances
  <2>4. {f \in Failed : receivedIn[f] >= w} = {f \in stored \cap Failed : receivedIn[f] >= w}
    <3>1. \A f \in Failed : receivedIn[f] >= w => f \in stored
      BY <1>1 DEF Metering, Events
    <3>2. QED
      BY <3>1
  <2>5. Used(w) \in Nat
    BY <1>1, UsedGrows
  <2>6. Cardinality({f \in Failed : receivedIn[f] >= w}) > Limit
    BY <1>5, <2>4, <2>5, LimitAssumption DEF Used
  <2>7. Plan!Decline(e, w)
    BY <1>2, <1>3, <2>1, <2>3, <2>6, SameCount DEF Plan!Decline, Plan!Move
  <2>8. QED
    BY <1>0, <2>7
<1>6. QED
  BY <1>4, <1>5

(* An event is queued once it is admitted, or at once if nothing meters it. *)
LEMMA EnqueueQueues ==
    ASSUME TypeOK, Bookkeeping, Metering, NEW d \in Requests, Enqueue(d),
           allowances' = allowances
    PROVE  event[d] \in Events /\ Plan!Queue(event[d])
<1> DEFINE e == event[d]
<1>1. /\ e \in Events /\ e \in stored /\ e \notin queued /\ e \notin dropped
      /\ e \in Failed <=> meteredIn[e] # 0
  BY DEF Enqueue, TypeOK, Bookkeeping, Decisions, AtMostOneDecides, Deciding, Metering
<1>2. /\ queued' = queued \cup {e}
      /\ UNCHANGED <<stored, receivedIn, dropped, meteredIn, emails>>
  BY DEF Enqueue, history
<1> HIDE DEF e
<1>3. /\ phases[e] = IF e \in Failed THEN "admitted" ELSE "accepted"
      /\ phases' = [phases EXCEPT ![e] = "queued"]
  BY <1>1, <1>2 DEF phases, PhaseOf
<1>4. QED
  BY <1>1, <1>2, <1>3 DEF Plan!Queue, Plan!Move, e

(* A mail goes out to a merchant who was declined a payment, the first of  *)
(* its month.                                                              *)
LEMMA NoticeMails ==
    ASSUME TypeOK, Bookkeeping, Metering, NEW d \in Requests, SendNotice(d),
           allowances' = allowances
    PROVE  window[d] \in Months /\ Plan!Mail(window[d])
<1>1. /\ window[d] \in Months /\ emails[window[d]] = 0
      /\ event[d] \in dropped /\ event[d] \in Failed /\ event[d] \in Events
      /\ event[d] \in stored /\ event[d] \notin queued
  BY DEF SendNotice, TypeOK, Bookkeeping, Decisions, Metering
<1>2. phases[event[d]] = "declined"
  BY <1>1 DEF phases, PhaseOf
<1>3. /\ emails' = [emails EXCEPT ![window[d]] = 1]
      /\ UNCHANGED <<stored, queued, receivedIn, dropped, meteredIn>>
  BY <1>1 DEF SendNotice, rows
<1>4. phases' = phases
  BY <1>3, PhaseStays
<1>5. QED
  BY <1>1, <1>2, <1>3, <1>4 DEF Plan!Mail

(* For any limit and any number of requests: the webhook, statement by     *)
(* statement, with its crashes and its duplicate and concurrent            *)
(* deliveries, does what Admission promises and nothing else.              *)
THEOREM AdmissionIsImplemented == Spec => ImplementsAdmission
<1>1. Init => Plan!Init /\ Metering
  <2> SUFFICES ASSUME Init PROVE Plan!Init /\ Metering
    OBVIOUS
  <2>1. \A e \in Events : PhaseOf(e) = "new"
    BY DEF Init, PhaseOf
  <2>2. \A m \in Months : Allowed(m) = {}
    BY DEF Init, Allowed
  <2>3. QED
    BY <2>1, <2>2 DEF Init, Plan!Init, phases, allowances, Metering
<1>2. TypeOK /\ Bookkeeping /\ Metering /\ [Next]_vars => [Plan!Next]_(Plan!vars)
  <2> SUFFICES ASSUME TypeOK, Bookkeeping, Metering, [Next]_vars
               PROVE  Plan!Next \/ UNCHANGED Plan!vars
    BY DEF Plan!vars
  <2>1. ASSUME NEW d \in Requests, CountUsed(d) PROVE Plan!Next
    BY <2>1, CountDecides DEF Plan!Next
  <2>2. CASE \A d \in Requests : ~CountUsed(d)
    <3>1. allowances' = allowances
      BY <2>2, AllowancesStay
    <3>2. ASSUME NEW d \in Requests, Persist(d) PROVE Plan!Next
      <4>1. month \in Months /\ event[d] \in Events
        BY <3>2 DEF TypeOK, Persist
      <4>2. QED
        BY <3>1, <3>2, <4>1, PersistAccepts DEF Plan!Next
    <3>3. ASSUME NEW d \in Requests, Enqueue(d) PROVE Plan!Next
      BY <3>1, <3>3, EnqueueQueues DEF Plan!Next
    <3>4. ASSUME NEW d \in Requests, SendNotice(d) PROVE Plan!Next
      BY <3>1, <3>4, NoticeMails DEF Plan!Next
    <3>5. CASE UNCHANGED <<stored, queued, receivedIn, meteredIn, dropped, emails>>
      BY <3>1, <3>5, PhaseStays DEF Plan!vars
    <3>6. QED
      BY <2>2, <3>2, <3>3, <3>4, <3>5
      DEF Next, Step, processWebhook, notifyMerchantLimitReached, vars, rows, history,
          NewMonth, Age, Deliver, Refuse, Duplicate, CaptureAccount, CaptureFails, BeginCheck,
          ClaimNotice, AlreadyNotified, Abandon
  <2>3. QED
    BY <2>1, <2>2
<1>3. TypeOK /\ Bookkeeping /\ Metering /\ [Next]_vars => Metering'
  BY MeteringStep DEF Bookkeeping
<1>4. QED
  BY <1>1, <1>2, <1>3, TypeCorrect, BookkeepingInvariant, PTL
  DEF Spec, ImplementsAdmission, Plan!Spec
============================================================================
