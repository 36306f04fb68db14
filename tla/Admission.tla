----------------------------- MODULE Admission -----------------------------
(***************************************************************************)
(* What the webhook promises: an event is accepted once, whatever number   *)
(* of times it is delivered; it is metered before it is queued, once, and  *)
(* admitted or declined for good; a month's plan admits no more of the     *)
(* payments that arrived in it than it covers, and declines none before    *)
(* more than that have arrived; a merchant who was declined a payment gets *)
(* one mail a month.  An accepted event whose request died stays as it is. *)
(***************************************************************************)
EXTENDS Naturals, FiniteSets

CONSTANTS
    Events, Months,
    Metered,    \* the events that count against the plan
    Limit       \* how many of them a month covers

VARIABLES
    phase,      \* "new", "accepted", "admitted", "declined" or "queued"
    arrived,    \* the month of an event's acceptance (0: none)
    allowance,  \* who was admitted on a month's allowance
    mails       \* mails sent, by month

vars == <<phase, arrived, allowance, mails>>

Init ==
    /\ phase = [e \in Events |-> "new"]
    /\ arrived = [e \in Events |-> 0]
    /\ allowance = [m \in Months |-> {}]
    /\ mails = [m \in Months |-> 0]

Move(e, from, to) == phase[e] = from /\ phase' = [phase EXCEPT ![e] = to]

Accept(e, m) ==
    /\ Move(e, "new", "accepted")
    /\ arrived' = [arrived EXCEPT ![e] = m]
    /\ UNCHANGED <<allowance, mails>>

(* A payment of an earlier month that is metered in this one is admitted   *)
(* without using its allowance.                                            *)
Admit(e, m) ==
    /\ Move(e, "accepted", "admitted")
    /\ allowance' = [allowance EXCEPT ![m] = IF arrived[e] = m THEN @ \cup {e} ELSE @]
    /\ Cardinality(allowance'[m]) <= Limit
    /\ UNCHANGED <<arrived, mails>>

Decline(e, m) ==
    /\ Cardinality({f \in Metered : arrived[f] >= m}) > Limit
    /\ Move(e, "accepted", "declined")
    /\ UNCHANGED <<arrived, allowance, mails>>

Queue(e) ==
    /\ Move(e, IF e \in Metered THEN "admitted" ELSE "accepted", "queued")
    /\ UNCHANGED <<arrived, allowance, mails>>

Mail(m) ==
    /\ \E e \in Metered : phase[e] = "declined"
    /\ mails[m] = 0
    /\ mails' = [mails EXCEPT ![m] = 1]
    /\ UNCHANGED <<phase, arrived, allowance>>

Next ==
    \/ \E e \in Events, m \in Months : Accept(e, m)
    \/ \E e \in Metered, m \in Months : Admit(e, m) \/ Decline(e, m)
    \/ \E e \in Events : Queue(e)
    \/ \E m \in Months : Mail(m)

Spec == Init /\ [][Next]_vars
=============================================================================
