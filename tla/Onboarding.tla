------------------------------ MODULE Onboarding ------------------------------
(***************************************************************************)
(* The onboarding page waits for the merchant's first webhook event: while *)
(* its banner says "waiting" it asks the status route every few seconds,   *)
(* without waiting for earlier answers, so answers overtake one another;   *)
(* the banner shows the last one that arrived.                             *)
(***************************************************************************)
EXTENDS Naturals

CONSTANTS
    Polls,          \* requests of the page that may be on their way at once
    MaxFailed       \* bound: requests that fail

ASSUME FailedAssumption == MaxFailed \in Nat

VARIABLES
    firstEvent,     \* has the merchant a PaymentEvent?
    connected,      \* what the banner shows
    poll,           \* each request: "none", "asked", or the answer on its way
    failedPolls     \* requests that failed

onboardingVars == <<firstEvent, connected, poll, failedPolls>>

(* The page is rendered before or after the first event.                   *)
OnboardingInit ==
    /\ firstEvent \in BOOLEAN
    /\ connected = firstEvent
    /\ poll = [q \in Polls |-> "none"]
    /\ failedPolls = 0

(* A verified webhook is stored.                                           *)
FirstEventArrives ==
    /\ ~firstEvent
    /\ firstEvent' = TRUE
    /\ UNCHANGED <<connected, poll, failedPolls>>

(* The interval is cleared while the banner is green, and set up again if  *)
(* it turns back.                                                          *)
PollStart(q) ==
    /\ ~connected
    /\ poll[q] = "none"
    /\ poll' = [poll EXCEPT ![q] = "asked"]
    /\ UNCHANGED <<firstEvent, connected, failedPolls>>

resolveConnectionStatus == IF firstEvent THEN "connected" ELSE "waiting"

getConnectionStatus(q) ==
    /\ poll[q] = "asked"
    /\ poll' = [poll EXCEPT ![q] = resolveConnectionStatus]
    /\ UNCHANGED <<firstEvent, connected, failedPolls>>

PollAnswer_StopsOnWaiting(q) ==
    /\ poll[q] \in {"connected", "waiting"}
    /\ connected' = (poll[q] = "connected")
    /\ poll' = [poll EXCEPT ![q] = IF poll[q] = "connected" THEN "none" ELSE "over"]
    /\ UNCHANGED <<firstEvent, failedPolls>>

PollAnswer(q) ==
    /\ poll[q] \in {"connected", "waiting"}
    /\ connected' = (poll[q] = "connected")
    /\ poll' = [poll EXCEPT ![q] = "none"]
    /\ UNCHANGED <<firstEvent, failedPolls>>

(* No network, no session, or an error: the banner stays.                  *)
PollFails(q) ==
    /\ poll[q] # "none"
    /\ failedPolls < MaxFailed
    /\ failedPolls' = failedPolls + 1
    /\ poll' = [poll EXCEPT ![q] = "none"]
    /\ UNCHANGED <<firstEvent, connected>>

PollGoesOn(q) == PollStart(q) \/ getConnectionStatus(q) \/ PollAnswer(q)

OnboardingNext ==
    \/ FirstEventArrives
    \/ \E q \in Polls : PollGoesOn(q) \/ PollFails(q)

(* The interval fires, and a request that does not fail is answered.       *)
OnboardingFairness == \A q \in Polls : WF_onboardingVars(PollGoesOn(q))

OnboardingSpec == OnboardingInit /\ [][OnboardingNext]_onboardingVars /\ OnboardingFairness

----------------------------------------------------------------------------
(* Properties.                                                             *)

(* Once the first event is stored the banner turns green for good: a late  *)
(* "waiting" answer may turn it back, but the page asks again.             *)
BannerSettles == firstEvent ~> []connected

=============================================================================
