----------------------------- MODULE ClaimQueue -----------------------------
(***************************************************************************)
(* What the ProcessingStore port promises its callers: a queue that lends  *)
(* each event to one holder at a time, and either takes it back for another*)
(* try or retires it for good.  A holder that vanishes keeps its event, and*)
(* one that does not learn that its event is finished may still undo that. *)
(***************************************************************************)
CONSTANTS Events, Procs

VARIABLES
    phase,      \* "absent", "waiting", "held", "finished" or "dead"
    holders,    \* who is working on each event
    recorded    \* events whose business action is on permanent record

vars == <<phase, holders, recorded>>

Init ==
    /\ phase = [e \in Events |-> "absent"]
    /\ holders = [e \in Events |-> {}]
    /\ recorded = {}

Move(e, from, to) == phase[e] \in from /\ phase' = [phase EXCEPT ![e] = to]

Add(e) ==
    /\ Move(e, {"absent"}, "waiting")
    /\ UNCHANGED <<holders, recorded>>

Take(e, p) ==
    /\ Move(e, {"waiting"}, "held")
    /\ holders[e] = {}
    /\ holders' = [holders EXCEPT ![e] = {p}]
    /\ UNCHANGED recorded

Record(e, p) ==
    /\ holders[e] = {p}
    /\ recorded' = recorded \cup {e}
    /\ UNCHANGED <<phase, holders>>

Release(e, p) ==
    /\ holders[e] = {p}
    /\ holders' = [holders EXCEPT ![e] = {}]

Finish(e, p) ==
    /\ Move(e, {"held"}, "finished")
    /\ Release(e, p)
    /\ e \in recorded
    /\ UNCHANGED recorded

(* The event is finished, but its holder does not learn of it.             *)
FinishUnheard(e, p) ==
    /\ Move(e, {"held"}, "finished")
    /\ holders[e] = {p}
    /\ e \in recorded
    /\ UNCHANGED <<holders, recorded>>

GiveBack(e, p) ==
    /\ Move(e, {"held", "finished"}, "waiting")
    /\ Release(e, p)
    /\ UNCHANGED recorded

Bury(e, p) ==
    /\ Move(e, {"held", "finished"}, "dead")
    /\ Release(e, p)
    /\ UNCHANGED recorded

(* The holder is gone; nothing in the queue takes the event back.          *)
Vanish(e, p) ==
    /\ Release(e, p)
    /\ UNCHANGED <<phase, recorded>>

Next ==
    \E e \in Events :
        \/ Add(e)
        \/ \E p \in Procs :
              \/ Take(e, p)
              \/ Record(e, p)
              \/ Finish(e, p)
              \/ FinishUnheard(e, p)
              \/ GiveBack(e, p)
              \/ Bury(e, p)
              \/ Vanish(e, p)

Spec == Init /\ [][Next]_vars
============================================================================
