----------------------------- MODULE WorkerPool -----------------------------
(***************************************************************************)
(* One worker process: the poll loop, its slots, and stop().               *)
(*                                                                         *)
(* The loop asks the database for claimable events, launches what fits,    *)
(* asks for due ladder attempts, launches what still fits, and sleeps.     *)
(* JavaScript runs one callback at a time: a step is what happens between  *)
(* two awaits.  What a launched call does inside is EventProcessing's and  *)
(* Recovery's business; here it claims its row and ends.  Events and       *)
(* attempts keep coming: the key of a row that is done stands for a new    *)
(* row later on.                                                           *)
(***************************************************************************)
EXTENDS Naturals, FiniteSets

CONSTANTS
    NumEvents,      \* EventProcessing rows that may wait or run at a time
    NumAttempts,    \* RecoveryAttempt rows that may wait or run at a time
    Concurrency,    \* config.concurrency
    MaxFaults       \* bound: failed polls, failed or broken calls, hung calls

ASSUME SizesAssumption == NumEvents \in Nat /\ NumAttempts \in Nat /\ MaxFaults \in Nat
ASSUME ConcurrencyAssumption == Concurrency \in Nat \ {0}

Events == {<<"evt", i>> : i \in 1..NumEvents}
Attempts == {<<"att", i>> : i \in 1..NumAttempts}
Keys == Events \cup Attempts

VARIABLES
    row,          \* per key: "ready", "taken" by a call here, or "gone": none yet,
                  \* done, or another worker's
    age,          \* per key its place by createdAt (events), scheduledAt (attempts)
    broken,       \* history: claimed rows whose call broke off
    inFlight,     \* tracked calls per key
    inFlightIds,  \* keys launched and not finished
    hung,         \* keys whose call will never end
    loop,         \* where the poll loop is
    slots,        \* the free slots counted before a query
    batch,        \* the rows a query returned
    shuttingDown,
    stop,         \* where stop() is
    faults

rows == <<row, age, broken>>
pool == <<inFlight, inFlightIds, hung>>
poll == <<loop, slots, batch>>
vars == <<rows, pool, poll, shuttingDown, stop, faults>>

Loops == {"off", "top", "ask events", "got events", "ask attempts", "got attempts",
          "sleep", "exited"}
Stops == {"no", "await loop", "drain", "drained", "timeout"}

TypeOK ==
    /\ row \in [Keys -> {"gone", "ready", "taken"}]
    /\ age \in [Keys -> Nat]
    /\ broken \subseteq Keys
    /\ inFlight \in [Keys -> Nat]
    /\ inFlightIds \subseteq Keys
    /\ hung \subseteq Keys
    /\ loop \in Loops
    /\ slots \in 0..Concurrency
    /\ batch \subseteq Keys
    /\ shuttingDown \in BOOLEAN
    /\ stop \in Stops
    /\ faults \in Nat

Init ==
    /\ row = [k \in Keys |-> "gone"]
    /\ age = [k \in Keys |-> k[2]]
    /\ broken = {}
    /\ inFlight = [k \in Keys |-> 0]
    /\ inFlightIds = {}
    /\ hung = {}
    /\ loop = "off"
    /\ slots = 0
    /\ batch = {}
    /\ shuttingDown = FALSE
    /\ stop = "no"
    /\ faults = 0

----------------------------------------------------------------------------
Alive == stop \notin {"drained", "timeout"}

Running == {k \in Keys : inFlight[k] > 0}

InFlightSize == Cardinality(Running)

Free == Concurrency - InFlightSize

Ready(K) == {k \in K : row[k] = "ready"}

(* ORDER BY age LIMIT n.                                                   *)
Oldest(K, n) == {k \in K : Cardinality({j \in K : age[j] < age[k]}) < n}

Fault == faults < MaxFaults /\ faults' = faults + 1

----------------------------------------------------------------------------
(* The rest of the system: rows become claimable or due, and other workers *)
(* take them.                                                              *)

(* Of its kind the new row is the youngest.                                *)
Youngest(k) ==
    LET kind == IF k \in Events THEN Events ELSE Attempts
        last == IF k \in Events THEN NumEvents ELSE NumAttempts
    IN  [j \in Keys |-> IF j = k THEN last
                        ELSE IF j \in kind /\ age[j] > age[k] THEN age[j] - 1 ELSE age[j]]

Arrive(k) ==
    /\ row[k] = "gone"
    /\ inFlight[k] = 0 /\ k \notin batch
    /\ row' = [row EXCEPT ![k] = "ready"]
    /\ age' = Youngest(k)
    /\ UNCHANGED <<broken, pool, poll, shuttingDown, stop, faults>>

TakenElsewhere(k) ==
    /\ row[k] = "ready"
    /\ row' = [row EXCEPT ![k] = "gone"]
    /\ UNCHANGED <<age, broken, pool, poll, shuttingDown, stop, faults>>

----------------------------------------------------------------------------
(* The loop.                                                               *)

Start ==
    /\ loop = "off"
    /\ loop' = "top"
    /\ UNCHANGED <<rows, pool, slots, batch, shuttingDown, stop, faults>>

(* Count the free slots, then ask; with none free the pass is over.        *)
AskFor(place) ==
    /\ loop' = IF Free > 0 THEN place ELSE "sleep"
    /\ slots' = IF Free > 0 THEN Free ELSE 0
    /\ batch' = {}

FillSlots ==
    /\ loop = "top"
    /\ ~shuttingDown
    /\ AskFor("ask events")
    /\ UNCHANGED <<rows, pool, shuttingDown, stop, faults>>

LeaveLoop ==
    /\ loop = "top"
    /\ shuttingDown
    /\ loop' = "exited"
    /\ UNCHANGED <<rows, pool, slots, batch, shuttingDown, stop, faults>>

(* The database runs the query; the answer is used in a later step.        *)
Answer(from, to, K) ==
    /\ Alive
    /\ loop = from
    /\ batch' = Oldest(Ready(K), slots)
    /\ loop' = to
    /\ UNCHANGED <<rows, pool, slots, shuttingDown, stop, faults>>

ListClaimable == Answer("ask events", "got events", Events)

ListDueAttempts == Answer("ask attempts", "got attempts", Attempts)

PollFails ==
    /\ Fault
    /\ loop \in {"ask events", "ask attempts"}
    /\ loop' = "sleep"
    /\ slots' = 0
    /\ UNCHANGED <<rows, pool, batch, shuttingDown, stop>>

Launchable_All(n) == Oldest(batch, n)

Launchable(n) == Oldest(batch \ inFlightIds, n)

Launch(K) ==
    /\ inFlight' = [k \in Keys |-> inFlight[k] + (IF k \in K THEN 1 ELSE 0)]
    /\ inFlightIds' = inFlightIds \cup K
    /\ UNCHANGED hung

(* Rows already running here are passed over; the loop breaks when the     *)
(* slots are full.  What is left goes to the attempts.                     *)
LaunchEvents ==
    /\ loop = "got events"
    /\ LET K == Launchable(Free)
           left == Free - Cardinality(K)
       IN  /\ Launch(K)
           /\ loop' = IF left > 0 THEN "ask attempts" ELSE "sleep"
           /\ slots' = left
    /\ batch' = {}
    /\ UNCHANGED <<rows, shuttingDown, stop, faults>>

LaunchAttempts ==
    /\ loop = "got attempts"
    /\ Launch(Launchable(Free))
    /\ loop' = "sleep"
    /\ slots' = 0
    /\ batch' = {}
    /\ UNCHANGED <<rows, shuttingDown, stop, faults>>

(* The poll interval ends; with shuttingDown there is no sleep at all.     *)
Wake ==
    /\ loop = "sleep"
    /\ loop' = "top"
    /\ UNCHANGED <<rows, pool, slots, batch, shuttingDown, stop, faults>>

----------------------------------------------------------------------------
(* A launched call.                                                        *)

End_KeepsSlot(k) ==
    /\ inFlightIds' = inFlightIds \ {k}
    /\ UNCHANGED <<inFlight, hung>>

End(k) ==
    /\ inFlight' = [inFlight EXCEPT ![k] = @ - 1]
    /\ inFlightIds' = inFlightIds \ {k}
    /\ UNCHANGED hung

CanGoOn(k) == Alive /\ inFlight[k] > 0 /\ k \notin hung

(* The call runs, and has claimed its row.                                 *)
Holds(k) == CanGoOn(k) /\ row[k] = "taken" /\ k \notin broken

(* claimEvent: the row is ours, or the call ends.                          *)
ClaimEvent(k) ==
    /\ CanGoOn(k)
    /\ row[k] = "ready"
    /\ row' = [row EXCEPT ![k] = "taken"]
    /\ UNCHANGED <<age, broken, pool, poll, shuttingDown, stop, faults>>

SkipEvent(k) ==
    /\ CanGoOn(k)
    /\ row[k] = "gone" \/ k \in broken
    /\ End(k)
    /\ UNCHANGED <<rows, poll, shuttingDown, stop, faults>>

EventEnds(k) ==
    /\ Holds(k)
    /\ row' = [row EXCEPT ![k] = "gone"]
    /\ End(k)
    /\ UNCHANGED <<age, broken, poll, shuttingDown, stop, faults>>

(* A failed event is claimable again (markFailed).  A call that throws     *)
(* before its claim leaves the row as it is, and so does an attempt's.     *)
CallFails(k) ==
    /\ Fault
    /\ CanGoOn(k)
    /\ row' = [row EXCEPT ![k] = IF Holds(k) THEN "ready" ELSE @]
    /\ End(k)
    /\ UNCHANGED <<age, broken, poll, shuttingDown, stop>>

(* After the claim its read-back, or markFailed in the catch, rejects: the *)
(* worker logs it, the call is over, and the row stays PROCESSING.         *)
CallBreaks(k) ==
    /\ Fault
    /\ Holds(k)
    /\ broken' = broken \cup {k}
    /\ End(k)
    /\ UNCHANGED <<row, age, poll, shuttingDown, stop>>

(* runDueAttempt claims nothing: it runs whatever other workers did.       *)
AttemptEnds(k) ==
    /\ CanGoOn(k)
    /\ row' = [row EXCEPT ![k] = "gone"]
    /\ End(k)
    /\ UNCHANGED <<age, broken, poll, shuttingDown, stop, faults>>

(* The database or a provider never answers the call.                      *)
Hang(k) ==
    /\ Fault
    /\ CanGoOn(k)
    /\ hung' = hung \cup {k}
    /\ UNCHANGED <<rows, inFlight, inFlightIds, poll, shuttingDown, stop>>

----------------------------------------------------------------------------
(* stop(): raise the flag, wake the sleeper, await the loop, then race the *)
(* calls in flight against the timeout.                                    *)

Stop ==
    /\ stop = "no"
    /\ loop # "off"
    /\ shuttingDown' = TRUE
    /\ stop' = "await loop"
    /\ loop' = IF loop = "sleep" THEN "top" ELSE loop
    /\ UNCHANGED <<rows, pool, slots, batch, faults>>

LoopIsDone_AtOnce == TRUE

LoopIsDone == loop = "exited"

AwaitLoop ==
    /\ stop = "await loop"
    /\ LoopIsDone
    /\ stop' = "drain"
    /\ UNCHANGED <<rows, pool, poll, shuttingDown, faults>>

Drained ==
    /\ stop = "drain"
    /\ Running = {}
    /\ stop' = "drained"
    /\ UNCHANGED <<rows, pool, poll, shuttingDown, faults>>

TimeOut_OnlyIdle ==
    /\ stop = "drain"
    /\ Running = {}
    /\ stop' = "timeout"
    /\ UNCHANGED <<rows, pool, poll, shuttingDown, faults>>

(* shutdownTimeoutMs passes: the process exits with calls in flight.       *)
TimeOut ==
    /\ stop = "drain"
    /\ stop' = "timeout"
    /\ UNCHANGED <<rows, pool, poll, shuttingDown, faults>>

Loop ==
    \/ Start \/ FillSlots \/ LeaveLoop \/ ListClaimable \/ ListDueAttempts
    \/ LaunchEvents \/ LaunchAttempts \/ Wake

Call(k) ==
    \/ k \in Events /\ (ClaimEvent(k) \/ SkipEvent(k) \/ EventEnds(k))
    \/ k \in Attempts /\ AttemptEnds(k)

Next ==
    \/ Alive /\ (Loop \/ PollFails)
    \/ \E k \in Keys : Arrive(k) \/ TakenElsewhere(k) \/ Call(k)
    \/ \E k \in Keys : CallFails(k) \/ CallBreaks(k) \/ Hang(k)
    \/ Stop \/ AwaitLoop \/ Drained \/ TimeOut

Spec == Init /\ [][Next]_vars

(* Queries are answered, timers fire, and calls go on unless they hang.    *)
FairSpec ==
    /\ Spec
    /\ WF_vars(Alive /\ Loop) /\ WF_vars(AwaitLoop) /\ WF_vars(TimeOut)
    /\ \A k \in Keys : WF_vars(Call(k))

----------------------------------------------------------------------------
(* Properties.                                                             *)

(* Although slots are counted before a query and filled after it, at most  *)
(* Concurrency calls run, and never two for the same row.                  *)
SlotsRespected ==
    /\ InFlightSize <= Concurrency
    /\ \A k \in Keys : inFlight[k] <= 1

(* When stop() reports a clean drain, nothing runs here, nothing can start *)
(* any more, and the only rows left claimed are those whose call broke off *)
(* when its own markFailed or the claim's read-back was rejected.          *)
CleanStop ==
    stop = "drained" =>
        /\ Running = {}
        /\ loop = "exited"
        /\ \A k \in Keys : row[k] = "taken" => k \in broken

(* stop() returns even if calls hang.                                      *)
StopReturns == shuttingDown ~> ~Alive

EventsFillSlots ==
    /\ InFlightSize = Concurrency
    /\ \E e \in Events : inFlight[e] > 0

(* While rows keep coming, and unless the worker stops or a call hangs (it *)
(* keeps a slot, and its row a place in the poll's LIMIT): a claimable     *)
(* event is always taken by someone.  A due attempt is not, since events   *)
(* go first; but it waits for ever only if events fill the last free slots *)
(* again and again.  Rows running here hide the younger ones from the      *)
(* LIMIT only for a time.                                                  *)
NothingStarves ==
    /\ \A k \in Events :
          row[k] = "ready" ~> row[k] # "ready" \/ shuttingDown \/ hung # {}
    /\ \A k \in Attempts :
          <>[](row[k] = "ready" /\ ~shuttingDown /\ hung = {}) => []<>EventsFillSlots

============================================================================
