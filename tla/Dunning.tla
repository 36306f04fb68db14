------------------------------ MODULE Dunning ------------------------------
(***************************************************************************)
(* Dunning as a merchant sees it: a case opens, climbs a ladder of at most *)
(* MaxRung attempts, sends at most one reminder for each attempt reached,  *)
(* may be recovered at any time, and is given up only at the top.          *)
(***************************************************************************)
EXTENDS Naturals

CONSTANTS Cases, MaxRung

VARIABLES
    status,     \* "NONE", "OPEN", "RECOVERED" or "FAILED"
    height,     \* how many rungs exist
    reminded    \* reminders sent per rung

vars == <<status, height, reminded>>

Init ==
    /\ status = [c \in Cases |-> "NONE"]
    /\ height = [c \in Cases |-> 0]
    /\ reminded = [c \in Cases |-> [n \in 1..MaxRung |-> 0]]

Open(c) ==
    /\ status[c] = "NONE"
    /\ status' = [status EXCEPT ![c] = "OPEN"]
    /\ UNCHANGED <<height, reminded>>

ClimbOne(c) ==
    /\ status[c] # "NONE"
    /\ height[c] < MaxRung
    /\ height' = [height EXCEPT ![c] = @ + 1]
    /\ UNCHANGED <<status, reminded>>

Remind(c, n) ==
    /\ n <= height[c]
    /\ reminded[c][n] = 0
    /\ reminded' = [reminded EXCEPT ![c][n] = 1]
    /\ UNCHANGED <<status, height>>

Recover(c) ==
    /\ status[c] # "NONE"
    /\ status' = [status EXCEPT ![c] = "RECOVERED"]
    /\ UNCHANGED <<height, reminded>>

GiveUp(c) ==
    /\ status[c] # "NONE"
    /\ height[c] = MaxRung
    /\ status' = [status EXCEPT ![c] = "FAILED"]
    /\ UNCHANGED <<height, reminded>>

Next ==
    \E c \in Cases :
        \/ Open(c) \/ ClimbOne(c) \/ Recover(c) \/ GiveUp(c)
        \/ \E n \in 1..MaxRung : Remind(c, n)

Spec == Init /\ [][Next]_vars
============================================================================
