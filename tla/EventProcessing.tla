-------------------------- MODULE EventProcessing --------------------------
(***************************************************************************)
(* The life of one EventProcessing row: a Razorpay webhook persists a      *)
(* PaymentEvent and queues it, worker slots poll the queue, the internal   *)
(* process-event route can be asked to process any event by hand, and both *)
(* run the recovery engine's processPaymentEvent over different stores.    *)
(*                                                                         *)
(* A process is one running call of processPaymentEvent.  Every database   *)
(* statement is one atomic step; between two statements any other process  *)
(* may run, the process may die, or the statement may reject.  The handler *)
(* itself is a single step here (it returns or it throws); module Recovery *)
(* opens it up.                                                            *)
(***************************************************************************)
EXTENDS Naturals, FiniteSets

CONSTANTS
    Events,         \* PaymentEvent ids
    WorkerSlots,    \* in-flight slots of the background workers
    WebCalls,       \* concurrent POST /api/internal/process-event requests
    MaxAttempts,    \* RetryPolicy.maxAttempts (WORKER_MAX_ATTEMPTS)
    NoEvent,        \* what an idle process is working on
    MaxManual,      \* bound: manual claims started per event
    MaxFaults       \* bound: crashes and rejected statements

Procs == WorkerSlots \cup WebCalls

ASSUME ProcsAssumption == WorkerSlots \cap WebCalls = {}
ASSUME NoEventAssumption == NoEvent \notin Events
ASSUME MaxAttemptsAssumption == MaxAttempts \in Nat \ {0}
ASSUME BoundsAssumption ==
    /\ MaxManual \in Nat
    /\ MaxFaults \in Nat

VARIABLES
    stored,     \* PaymentEvent rows
    status,     \* EventProcessing.status, "NONE" while there is no row
    attempts,   \* EventProcessing.attempts
    retryAt,    \* EventProcessing.nextAttemptAt seen from the clock
    ledger,     \* events with an IdempotencyRecord
    at,         \* where each process is in processPaymentEvent
    event,      \* the event each process works on
    seen,       \* the attempts count the worker's markFailed has read
    manual,     \* history: claims the manual route has made on each event
    faults      \* crashes and rejected statements so far

rows == <<status, attempts, retryAt>>
procs == <<at, event, seen>>
vars == <<stored, rows, ledger, procs, manual, faults>>

Statuses == {"NONE", "PENDING", "PROCESSING", "SUCCESS", "FAILED", "DONE", "DEAD"}
Terminal == {"SUCCESS", "DONE", "DEAD"}
Places == {"idle", "claiming", "handling", "recording", "succeeding",
           "failing", "deciding"}

TypeOK ==
    /\ stored \subseteq Events
    /\ status \in [Events -> Statuses]
    /\ attempts \in [Events -> Nat]
    /\ retryAt \in [Events -> {"null", "future", "past"}]
    /\ ledger \subseteq Events
    /\ at \in [Procs -> Places]
    /\ event \in [Procs -> Events \cup {NoEvent}]
    /\ \A p \in Procs : at[p] # "idle" => event[p] \in Events
    /\ seen \in [Procs -> Nat]
    /\ manual \in [Events -> Nat]
    /\ faults \in Nat

Init ==
    /\ stored = {}
    /\ status = [e \in Events |-> "NONE"]
    /\ attempts = [e \in Events |-> 0]
    /\ retryAt = [e \in Events |-> "null"]
    /\ ledger = {}
    /\ at = [p \in Procs |-> "idle"]
    /\ event = [p \in Procs |-> NoEvent]
    /\ seen = [p \in Procs |-> 0]
    /\ manual = [e \in Events |-> 0]
    /\ faults = 0

----------------------------------------------------------------------------
(* The webhook's side: the receipt and the PaymentEvent commit in one      *)
(* transaction, the EventProcessing row is a later statement that the plan *)
(* limit or a crash may prevent (module Ingestion).                        *)

Persist(e) ==
    /\ e \notin stored
    /\ stored' = stored \cup {e}
    /\ UNCHANGED <<rows, ledger, procs, manual, faults>>

Enqueue(e) ==
    /\ e \in stored
    /\ status[e] = "NONE"
    /\ status' = [status EXCEPT ![e] = "PENDING"]
    /\ UNCHANGED <<stored, attempts, retryAt, ledger, procs, manual, faults>>

(* The clock passes nextAttemptAt.                                         *)
BackoffElapses(e) ==
    /\ retryAt[e] = "future"
    /\ retryAt' = [retryAt EXCEPT ![e] = "past"]
    /\ UNCHANGED <<stored, status, attempts, ledger, procs, manual, faults>>

----------------------------------------------------------------------------
(* Claiming.  Which rows a conditional update may take depends on the      *)
(* store: the worker's waits for the backoff, the web's does not.          *)

WorkerClaimable_FirstTryOnly(e) == status[e] = "PENDING"

WorkerClaimable(e) ==
    \/ status[e] = "PENDING"
    \/ status[e] = "FAILED" /\ retryAt[e] # "future"

WebClaimable_Dead(e) == status[e] \in {"PENDING", "FAILED", "DEAD"}

WebClaimable(e) == status[e] \in {"PENDING", "FAILED"}

ClaimableBy_ById(p, e) == status[e] # "NONE"

ClaimableBy(p, e) == IF p \in WorkerSlots THEN WorkerClaimable(e) ELSE WebClaimable(e)

(* The worker's poll returns rows that were claimable when it read them.   *)
Poll(p, e) ==
    /\ p \in WorkerSlots
    /\ at[p] = "idle"
    /\ WorkerClaimable(e)
    /\ at' = [at EXCEPT ![p] = "claiming"]
    /\ event' = [event EXCEPT ![p] = e]
    /\ UNCHANGED <<stored, rows, ledger, seen, manual, faults>>

(* The manual route takes any id; loadEvent skips an unknown one.          *)
Trigger(p, e) ==
    /\ p \in WebCalls
    /\ at[p] = "idle"
    /\ e \in stored
    /\ manual[e] < MaxManual
    /\ at' = [at EXCEPT ![p] = "claiming"]
    /\ event' = [event EXCEPT ![p] = e]
    /\ UNCHANGED <<stored, rows, ledger, seen, manual, faults>>

Leave_KeepPlace(p) ==
    /\ event' = [event EXCEPT ![p] = NoEvent]
    /\ UNCHANGED <<at, seen>>

Leave(p) ==
    /\ at' = [at EXCEPT ![p] = "idle"]
    /\ event' = [event EXCEPT ![p] = NoEvent]
    /\ seen' = [seen EXCEPT ![p] = 0]

Claim(p) ==
    /\ at[p] = "claiming"
    /\ ClaimableBy(p, event[p])
    /\ status' = [status EXCEPT ![event[p]] = "PROCESSING"]
    /\ attempts' = [attempts EXCEPT ![event[p]] = @ + 1]
    /\ manual' = [manual EXCEPT ![event[p]] = IF p \in WebCalls THEN @ + 1 ELSE @]
    /\ at' = [at EXCEPT ![p] = "handling"]
    /\ UNCHANGED <<stored, retryAt, ledger, event, seen, faults>>

Skip(p) ==
    /\ at[p] = "claiming"
    /\ ~ClaimableBy(p, event[p])
    /\ Leave(p)
    /\ UNCHANGED <<stored, rows, ledger, manual, faults>>

----------------------------------------------------------------------------
(* Inside the try block.                                                   *)

Goto(p, place) ==
    /\ at' = [at EXCEPT ![p] = place]
    /\ UNCHANGED <<event, seen>>

HandlerReturns_SkipLedger(p) ==
    /\ at[p] = "handling"
    /\ Goto(p, "succeeding")
    /\ UNCHANGED <<stored, rows, ledger, manual, faults>>

HandlerReturns(p) ==
    /\ at[p] = "handling"
    /\ Goto(p, "recording")
    /\ UNCHANGED <<stored, rows, ledger, manual, faults>>

HandlerThrows(p) ==
    /\ at[p] = "handling"
    /\ Goto(p, "failing")
    /\ UNCHANGED <<stored, rows, ledger, manual, faults>>

(* A unique violation means the entry is already there: same outcome.      *)
RecordLedger(p) ==
    /\ at[p] = "recording"
    /\ ledger' = ledger \cup {event[p]}
    /\ Goto(p, "succeeding")
    /\ UNCHANGED <<stored, rows, manual, faults>>

Succeed(p) ==
    /\ status' = [status EXCEPT ![event[p]] =
                     IF p \in WorkerSlots THEN "DONE" ELSE "SUCCESS"]
    /\ retryAt' = [retryAt EXCEPT ![event[p]] =
                     IF p \in WorkerSlots THEN "null" ELSE @]
    /\ UNCHANGED attempts

MarkSuccess(p) ==
    /\ at[p] = "succeeding"
    /\ Succeed(p)
    /\ Leave(p)
    /\ UNCHANGED <<stored, ledger, manual, faults>>

----------------------------------------------------------------------------
(* The catch block: each store has its own markFailed.                     *)

MarkFailedWeb(p) ==
    /\ p \in WebCalls
    /\ at[p] = "failing"
    /\ status' = [status EXCEPT ![event[p]] = "FAILED"]
    /\ Leave(p)
    /\ UNCHANGED <<stored, attempts, retryAt, ledger, manual, faults>>

ReadAttempts(p) ==
    /\ p \in WorkerSlots
    /\ at[p] = "failing"
    /\ seen' = [seen EXCEPT ![p] = attempts[event[p]]]
    /\ at' = [at EXCEPT ![p] = "deciding"]
    /\ UNCHANGED <<stored, rows, ledger, event, manual, faults>>

DecideOnFailure_OffByOne(n) == IF n > MaxAttempts THEN "DEAD" ELSE "FAILED"

DecideOnFailure(n) == IF n >= MaxAttempts THEN "DEAD" ELSE "FAILED"

MarkFailedWorker(p) ==
    /\ at[p] = "deciding"
    /\ LET fate == DecideOnFailure(seen[p])
       IN  /\ status' = [status EXCEPT ![event[p]] = fate]
           /\ retryAt' = [retryAt EXCEPT ![event[p]] =
                             IF fate = "DEAD" THEN "null" ELSE "future"]
    /\ Leave(p)
    /\ UNCHANGED <<stored, attempts, ledger, manual, faults>>

----------------------------------------------------------------------------
(* Faults.                                                                 *)

Fault == faults < MaxFaults /\ faults' = faults + 1

(* A statement of the try block rejects; it may have committed all the     *)
(* same, its acknowledgement lost.                                         *)
StatementRejects(p) ==
    /\ Fault
    /\ at[p] \in {"recording", "succeeding"}
    /\ Goto(p, "failing")
    /\ \/ UNCHANGED <<rows, ledger>>
       \/ /\ at[p] = "recording"
          /\ ledger' = ledger \cup {event[p]}
          /\ UNCHANGED rows
       \/ /\ at[p] = "succeeding"
          /\ Succeed(p)
          /\ UNCHANGED ledger
    /\ UNCHANGED <<stored, manual>>

(* The process dies, or claimEvent's read-back or markFailed rejects: both *)
(* are outside the try block, so the call ends with nothing written.       *)
Abandon(p) ==
    /\ Fault
    /\ at[p] # "idle"
    /\ Leave(p)
    /\ UNCHANGED <<stored, rows, ledger, manual>>

----------------------------------------------------------------------------
Step(p) ==
    \/ Claim(p)
    \/ Skip(p)
    \/ HandlerReturns(p)
    \/ HandlerThrows(p)
    \/ RecordLedger(p)
    \/ MarkSuccess(p)
    \/ MarkFailedWeb(p)
    \/ ReadAttempts(p)
    \/ MarkFailedWorker(p)

Next ==
    \/ \E e \in Events : Persist(e) \/ Enqueue(e) \/ BackoffElapses(e)
    \/ \E p \in Procs, e \in Events : Poll(p, e) \/ Trigger(p, e)
    \/ \E p \in Procs : Step(p)
    \/ \E p \in Procs : StatementRejects(p) \/ Abandon(p)

(* A running call keeps taking steps, the worker loop keeps polling and    *)
(* the clock keeps going; nobody has to press the manual button and        *)
(* nothing has to fail.                                                    *)
Fairness ==
    /\ \A p \in Procs : WF_vars(Step(p))
    /\ \A p \in WorkerSlots, e \in Events : SF_vars(Poll(p, e))
    /\ \A e \in Events : WF_vars(BackoffElapses(e))

Spec == Init /\ [][Next]_vars

FairSpec == Spec /\ Fairness

----------------------------------------------------------------------------
(* Properties.                                                             *)

(* The processes between a won claim and the end of the call.              *)
Holding(p, e) == at[p] \notin {"idle", "claiming"} /\ event[p] = e

Held(e) == \E p \in Procs : Holding(p, e)

(* The atomic conditional updates of the two claimEvents hand an event to  *)
(* one call at a time, worker or web, and until the call has written its   *)
(* outcome neither store would hand the event out again.  And while no     *)
(* call has failed, a row that shows PROCESSING is being processed.        *)
Alone ==
    \A p \in Procs, e \in Events :
        Holding(p, e) =>
            /\ ~WorkerClaimable(e) /\ ~WebClaimable(e)
            /\ \A q \in Procs : Holding(q, e) => q = p

Attended == \A e \in Events : status[e] = "PROCESSING" => Held(e) \/ faults > 0

ClaimExclusive == Alone /\ Attended

(* A row reaches DONE or SUCCESS only after its ledger entry is permanent. *)
LedgerBeforeSuccess ==
    \A e \in Events : status[e] \in {"DONE", "SUCCESS"} => e \in ledger

(* However claims of the two stores interleave, the claims on a row never  *)
(* exceed the worker's retry budget plus what the manual route added, and  *)
(* a row waiting for its next retry still has some of that budget left.    *)
RetryBudget ==
    \A e \in Events :
        /\ attempts[e] <= MaxAttempts + manual[e]
        /\ status[e] = "FAILED" => attempts[e] < MaxAttempts + manual[e]

(* Completed and dead-lettered rows are never claimed, retried or          *)
(* rewritten again.  (A call whose markSuccess committed unacknowledged    *)
(* still holds its row, and may yet take the success back.)                *)
TerminalIsFinal ==
    [][\A e \in Events :
          status[e] \in Terminal /\ ~Held(e) => status'[e] = status[e]]_vars

(* Failing handlers, rejected statements and lost acknowledgements only    *)
(* delay an event: a queued one comes to rest processed or dead-lettered,  *)
(* for good, unless a call died holding it.                                *)
Orphaned(e) == status[e] = "PROCESSING" /\ ~Held(e)

EventuallySettled ==
    \A e \in Events :
        <>[](status[e] \in Terminal \cup {"NONE"} \/ Orphaned(e))

(* The same without the exception for calls that die: a queued event is    *)
(* processed or dead-lettered.                                             *)
QueuedIsSettled ==
    \A e \in Events : status[e] = "PENDING" ~> status[e] \in Terminal

(* Why the three invariants above hold: what a call may assume about its   *)
(* event between its claim and its last statement.  Inductive with TypeOK. *)
Custody ==
    /\ \A p \in Procs, e \in Events :
          Holding(p, e) =>
            /\ \/ status[e] = "PROCESSING"
               \/ /\ at[p] \in {"failing", "deciding"}
                  /\ status[e] \in {"DONE", "SUCCESS"}
            /\ \A q \in Procs : Holding(q, e) => q = p
            /\ at[p] = "succeeding" => e \in ledger
            /\ at[p] = "deciding" => p \in WorkerSlots /\ seen[p] = attempts[e]
            /\ p \in WebCalls => attempts[e] < MaxAttempts + manual[e]
    /\ LedgerBeforeSuccess
    /\ RetryBudget
    /\ \A e \in Events : status[e] \in {"NONE", "PENDING"} => attempts[e] = 0

(* The promise the two stores make together, as a queue: see ClaimQueue.   *)
PhaseOf(s) ==
    CASE s = "NONE" -> "absent"
      [] s \in {"PENDING", "FAILED"} -> "waiting"
      [] s = "PROCESSING" -> "held"
      [] s \in {"DONE", "SUCCESS"} -> "finished"
      [] s = "DEAD" -> "dead"

phases == [e \in Events |-> PhaseOf(status[e])]

holdersOf == [e \in Events |-> {p \in Procs : Holding(p, e)}]

Queue == INSTANCE ClaimQueue WITH
    phase <- phases, holders <- holdersOf, recorded <- ledger

(* Every behaviour of the two stores is one the queue allows.              *)
ImplementsClaimQueue == Queue!Spec

============================================================================
