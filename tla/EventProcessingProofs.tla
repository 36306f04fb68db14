----------------------- MODULE EventProcessingProofs -----------------------
(***************************************************************************)
(* Machine-checked theorems about EventProcessing, for any number of       *)
(* events, worker slots and manual calls, any retry policy and any number  *)
(* of faults.                                                              *)
(***************************************************************************)
EXTENDS EventProcessing, TLAPS

(***************************************************************************)
(* Type correctness.                                                       *)
(***************************************************************************)

(* Every step of every process keeps all variables within their types.     *)
LEMMA TypeStep == TypeOK /\ [Next]_vars => TypeOK'
<1> SUFFICES ASSUME TypeOK, [Next]_vars PROVE TypeOK'
  OBVIOUS
<1> USE DEF TypeOK, Statuses, Places, rows, procs
<1>1. CASE UNCHANGED vars
  BY <1>1 DEF vars
<1>2. ASSUME NEW e \in Events, Persist(e) PROVE TypeOK'
  BY <1>2 DEF Persist
<1>3. ASSUME NEW e \in Events, Enqueue(e) PROVE TypeOK'
  BY <1>3 DEF Enqueue
<1>4. ASSUME NEW e \in Events, BackoffElapses(e) PROVE TypeOK'
  BY <1>4 DEF BackoffElapses
<1>5. ASSUME NEW p \in Procs, NEW e \in Events, Poll(p, e) PROVE TypeOK'
  BY <1>5 DEF Poll
<1>6. ASSUME NEW p \in Procs, NEW e \in Events, Trigger(p, e) PROVE TypeOK'
  BY <1>6 DEF Trigger
<1>7. ASSUME NEW p \in Procs, Claim(p) PROVE TypeOK'
  BY <1>7 DEF Claim
<1>8. ASSUME NEW p \in Procs, Skip(p) PROVE TypeOK'
  BY <1>8 DEF Skip, Leave
<1>9. ASSUME NEW p \in Procs, HandlerReturns(p) PROVE TypeOK'
  BY <1>9 DEF HandlerReturns, Goto
<1>10. ASSUME NEW p \in Procs, HandlerThrows(p) PROVE TypeOK'
  BY <1>10 DEF HandlerThrows, Goto
<1>11. ASSUME NEW p \in Procs, RecordLedger(p) PROVE TypeOK'
  BY <1>11 DEF RecordLedger, Goto
<1>12. ASSUME NEW p \in Procs, MarkSuccess(p) PROVE TypeOK'
  BY <1>12 DEF MarkSuccess, Succeed, Leave
<1>13. ASSUME NEW p \in Procs, MarkFailedWeb(p) PROVE TypeOK'
  BY <1>13 DEF MarkFailedWeb, Leave
<1>14. ASSUME NEW p \in Procs, ReadAttempts(p) PROVE TypeOK'
  BY <1>14 DEF ReadAttempts
<1>15. ASSUME NEW p \in Procs, MarkFailedWorker(p) PROVE TypeOK'
  BY <1>15 DEF MarkFailedWorker, DecideOnFailure, Leave
<1>16. ASSUME NEW p \in Procs, StatementRejects(p) PROVE TypeOK'
  BY <1>16 DEF StatementRejects, Fault, Goto, Succeed
<1>17. ASSUME NEW p \in Procs, Abandon(p) PROVE TypeOK'
  BY <1>17 DEF Abandon, Fault, Leave
<1>18. QED
  BY <1>1, <1>2, <1>3, <1>4, <1>5, <1>6, <1>7, <1>8, <1>9, <1>10, <1>11,
     <1>12, <1>13, <1>14, <1>15, <1>16, <1>17 DEF Next, Step

(* The row of every event, the ledger and every running call of            *)
(* processPaymentEvent always have the shape the schema and code give them.*)
THEOREM TypeCorrect == Spec => []TypeOK
<1>1. Init => TypeOK
  BY DEF Init, TypeOK, Statuses, Places
<1>2. QED
  BY <1>1, TypeStep, PTL DEF Spec

(***************************************************************************)
(* Custody of an event.                                                    *)
(***************************************************************************)

(* Every statement of processPaymentEvent, and every fault in it, leaves   *)
(* the rows and the running calls in custody of one another.               *)
LEMMA CustodyStep == TypeOK /\ Custody /\ [Next]_vars => Custody'
<1> SUFFICES ASSUME TypeOK, Custody, [Next]_vars PROVE Custody'
  OBVIOUS
<1> USE ProcsAssumption, MaxAttemptsAssumption
    DEF TypeOK, Statuses, Places, rows, procs, Custody, Holding,
        LedgerBeforeSuccess, RetryBudget, Procs
<1>1. CASE UNCHANGED vars
  BY <1>1 DEF vars
<1>2. ASSUME NEW e \in Events, Persist(e) PROVE Custody'
  BY <1>2 DEF Persist
<1>3. ASSUME NEW e \in Events, Enqueue(e) PROVE Custody'
  BY <1>3 DEF Enqueue
<1>4. ASSUME NEW e \in Events, BackoffElapses(e) PROVE Custody'
  BY <1>4 DEF BackoffElapses
<1>5. ASSUME NEW p \in Procs, NEW e \in Events, Poll(p, e) PROVE Custody'
  BY <1>5 DEF Poll
<1>6. ASSUME NEW p \in Procs, NEW e \in Events, Trigger(p, e) PROVE Custody'
  BY <1>6 DEF Trigger
<1>7. ASSUME NEW p \in Procs, Claim(p) PROVE Custody'
  BY <1>7 DEF Claim, ClaimableBy, WorkerClaimable, WebClaimable
<1>8. ASSUME NEW p \in Procs, Skip(p) PROVE Custody'
  BY <1>8 DEF Skip, Leave
<1>9. ASSUME NEW p \in Procs, HandlerReturns(p) PROVE Custody'
  BY <1>9 DEF HandlerReturns, Goto
<1>10. ASSUME NEW p \in Procs, HandlerThrows(p) PROVE Custody'
  BY <1>10 DEF HandlerThrows, Goto
<1>11. ASSUME NEW p \in Procs, RecordLedger(p) PROVE Custody'
  BY <1>11 DEF RecordLedger, Goto
<1>12. ASSUME NEW p \in Procs, MarkSuccess(p) PROVE Custody'
  BY <1>12 DEF MarkSuccess, Succeed, Leave
<1>13. ASSUME NEW p \in Procs, MarkFailedWeb(p) PROVE Custody'
  BY <1>13 DEF MarkFailedWeb, Leave
<1>14. ASSUME NEW p \in Procs, ReadAttempts(p) PROVE Custody'
  BY <1>14 DEF ReadAttempts
<1>15. ASSUME NEW p \in Procs, MarkFailedWorker(p) PROVE Custody'
  BY <1>15 DEF MarkFailedWorker, DecideOnFailure, Leave
<1>16. ASSUME NEW p \in Procs, StatementRejects(p) PROVE Custody'
  BY <1>16 DEF StatementRejects, Fault, Goto, Succeed
<1>17. ASSUME NEW p \in Procs, Abandon(p) PROVE Custody'
  BY <1>17 DEF Abandon, Fault, Leave
<1>18. QED
  BY <1>1, <1>2, <1>3, <1>4, <1>5, <1>6, <1>7, <1>8, <1>9, <1>10, <1>11,
     <1>12, <1>13, <1>14, <1>15, <1>16, <1>17 DEF Next, Step

(* Spec keeps Custody: a running call holds its event alone, its row shows *)
(* it, and the counts and the ledger agree with the row.                   *)
THEOREM CustodyInvariant == Spec => []Custody
<1>1. Init => Custody
  BY MaxAttemptsAssumption
     DEF Init, Custody, Holding, LedgerBeforeSuccess, RetryBudget
<1>2. QED
  BY <1>1, CustodyStep, TypeCorrect, PTL DEF Spec

(* A row in PROCESSING keeps the call that claimed it until that call has  *)
(* written another status.                                                 *)
LEMMA AttendedStep == TypeOK /\ Attended /\ [Next]_vars => Attended'
<1> SUFFICES ASSUME TypeOK, Attended, [Next]_vars,
                    NEW e \in Events, status'[e] = "PROCESSING", ~(faults' > 0)
             PROVE  Held(e)'
  BY DEF Attended
<1> USE DEF TypeOK
<1>1. ASSUME NEW p \in Procs, event[p] # e \/ at[p] \in {"idle", "claiming"},
             ~(faults > 0), status[e] = "PROCESSING",
             \A q \in Procs \ {p} : at'[q] = at[q] /\ event'[q] = event[q]
      PROVE  Held(e)'
  <2>1. PICK q \in Procs : Holding(q, e)
    BY <1>1 DEF Attended, Held
  <2>2. q # p
    BY <1>1, <2>1 DEF Holding
  <2>3. Holding(q, e)'
    BY <1>1, <2>1, <2>2 DEF Holding
  <2>4. QED
    BY <2>3 DEF Held
<1>2. ASSUME status'[e] = status[e], faults' = faults,
             \A p \in Procs : Holding(p, e) => Holding(p, e)'
      PROVE  Held(e)'
  BY <1>2 DEF Attended, Held
<1>3. ASSUME NEW p \in Procs, Claim(p) PROVE Held(e)'
  <2>1. CASE event[p] = e
    <3>1. Holding(p, e)'
      BY <1>3, <2>1 DEF Claim, Holding
    <3>2. QED
      BY <3>1 DEF Held
  <2>2. CASE event[p] # e
    BY <1>1, <1>3, <2>2 DEF Claim
  <2>3. QED
    BY <2>1, <2>2
<1>4. ASSUME NEW p \in Procs, MarkSuccess(p) \/ MarkFailedWeb(p) \/ MarkFailedWorker(p)
      PROVE  Held(e)'
  <2>1. event[p] # e /\ status[e] = "PROCESSING"
    BY <1>4 DEF MarkSuccess, Succeed, MarkFailedWeb, MarkFailedWorker, DecideOnFailure, Holding
  <2>2. QED
    BY <1>1, <1>4, <2>1 DEF MarkSuccess, MarkFailedWeb, MarkFailedWorker, Leave
<1>5. ASSUME NEW p \in Procs, Skip(p) \/ \E f \in Events : Poll(p, f) \/ Trigger(p, f)
      PROVE  Held(e)'
  BY <1>1, <1>5 DEF Skip, Leave, Poll, Trigger, rows
<1>6. ASSUME NEW p \in Procs,
             HandlerReturns(p) \/ HandlerThrows(p) \/ RecordLedger(p) \/ ReadAttempts(p)
      PROVE  Held(e)'
  BY <1>2, <1>6 DEF HandlerReturns, HandlerThrows, RecordLedger, ReadAttempts, Goto, rows, Holding
<1>7. ASSUME NEW p \in Procs, StatementRejects(p) \/ Abandon(p) PROVE FALSE
  BY <1>7 DEF StatementRejects, Abandon, Fault
<1>8. ASSUME NEW f \in Events, Persist(f) \/ Enqueue(f) \/ BackoffElapses(f) PROVE Held(e)'
  BY <1>2, <1>8 DEF Persist, Enqueue, BackoffElapses, rows, procs, Holding
<1>9. CASE UNCHANGED vars
  BY <1>2, <1>9 DEF vars, rows, procs, Holding
<1>10. QED
  BY <1>3, <1>4, <1>5, <1>6, <1>7, <1>8, <1>9 DEF Next, Step

(* No two calls of processPaymentEvent, from whichever store, ever work on *)
(* the same event, a row being worked on is claimable by neither, and a    *)
(* row in PROCESSING is worked on as long as nothing failed.               *)
THEOREM ClaimsAreExclusive == Spec => []ClaimExclusive
<1>1. Custody => Alone
  BY DEF Custody, Alone, Holding, WorkerClaimable, WebClaimable
<1>2. Init => Attended
  BY DEF Init, Attended
<1>3. Spec => []Attended
  BY <1>2, AttendedStep, TypeCorrect, PTL DEF Spec
<1>4. QED
  BY <1>1, <1>3, CustodyInvariant, PTL DEF ClaimExclusive

(* A row marked DONE or SUCCESS has its IdempotencyRecord.                 *)
THEOREM LedgerPrecedesSuccess == Spec => []LedgerBeforeSuccess
<1>1. Custody => LedgerBeforeSuccess
  BY DEF Custody
<1>2. QED
  BY <1>1, CustodyInvariant, PTL

(* Claims never outnumber maxAttempts plus the manual claims.              *)
THEOREM ClaimsWithinBudget == Spec => []RetryBudget
<1>1. Custody => RetryBudget
  BY DEF Custody
<1>2. QED
  BY <1>1, CustodyInvariant, PTL

(* A row that used up maxAttempts is DEAD, not waiting for another retry.  *)
ExhaustedIsDead ==
    \A e \in Events : status[e] = "FAILED" => attempts[e] < MaxAttempts

(* With no manual trigger deployed the budget is maxAttempts itself.       *)
THEOREM WorkersExhaustToDead ==
    ASSUME WebCalls = {} PROVE Spec => []ExhaustedIsDead
<1> DEFINE NoManual == \A e \in Events : manual[e] = 0
<1>1. Init => NoManual
  BY DEF Init
<1>2. TypeOK /\ NoManual /\ [Next]_vars => NoManual'
  <2> SUFFICES ASSUME TypeOK, NoManual, [Next]_vars PROVE NoManual'
    OBVIOUS
  <2>1. ASSUME NEW p \in Procs, Claim(p) PROVE NoManual'
    BY <2>1 DEF Claim, TypeOK
  <2>2. CASE UNCHANGED manual
    BY <2>2
  <2>3. QED
    BY <2>1, <2>2
    DEF Next, Step, vars, Persist, Enqueue, BackoffElapses, Poll, Trigger,
        Skip, HandlerReturns, HandlerThrows, RecordLedger, MarkSuccess,
        MarkFailedWeb, ReadAttempts, MarkFailedWorker, StatementRejects, Abandon
<1>3. TypeOK /\ NoManual /\ Custody => ExhaustedIsDead
  BY MaxAttemptsAssumption DEF TypeOK, Custody, RetryBudget, ExhaustedIsDead
<1>4. QED
  BY <1>1, <1>2, <1>3, TypeCorrect, CustodyInvariant, PTL DEF Spec

(***************************************************************************)
(* The end of an event, and the queue as a whole.                          *)
(***************************************************************************)

(* DONE, SUCCESS and DEAD are final once the call that wrote them is over: *)
(* every write to a row is made by a call that holds it or claims it.      *)
THEOREM TerminalRowsAreFinal == Spec => TerminalIsFinal
<1> DEFINE Final == \A e \in Events :
                        status[e] \in Terminal /\ ~Held(e) => status'[e] = status[e]
<1>1. TypeOK /\ Custody /\ [Next]_vars => [Final]_vars
  <2> SUFFICES ASSUME TypeOK, Custody, Next PROVE Final
    OBVIOUS
  <2> USE DEF TypeOK, Custody, Held, Holding, Terminal, Procs
  <2>1. ASSUME NEW e \in Events, Enqueue(e) PROVE Final
    BY <2>1 DEF Enqueue
  <2>2. ASSUME NEW p \in Procs, Claim(p) PROVE Final
    BY <2>2 DEF Claim, ClaimableBy, WorkerClaimable, WebClaimable
  <2>3. ASSUME NEW p \in Procs, MarkSuccess(p) PROVE Final
    BY <2>3 DEF MarkSuccess, Succeed
  <2>4. ASSUME NEW p \in Procs, MarkFailedWeb(p) PROVE Final
    BY <2>4 DEF MarkFailedWeb
  <2>5. ASSUME NEW p \in Procs, MarkFailedWorker(p) PROVE Final
    BY <2>5 DEF MarkFailedWorker
  <2>6. ASSUME NEW p \in Procs, StatementRejects(p) PROVE Final
    BY <2>6 DEF StatementRejects, Succeed, rows
  <2>7. CASE UNCHANGED status
    BY <2>7
  <2>8. QED
    BY <2>1, <2>2, <2>3, <2>4, <2>5, <2>6, <2>7
    DEF Next, Step, rows, Persist, BackoffElapses, Poll, Trigger, Skip,
        HandlerReturns, HandlerThrows, RecordLedger, ReadAttempts, Abandon
<1>2. QED
  BY <1>1, TypeCorrect, CustodyInvariant, PTL DEF Spec, TerminalIsFinal

(* What becomes of a row whose call died holding it: it is an orphan, and  *)
(* stays one.                                                              *)
OrphansStay == [][\A e \in Events : Orphaned(e) => Orphaned(e)']_vars

(* Neither store's claim, nor any other statement of a call, takes an      *)
(* orphaned row back: for any number of workers, calls and retries, what   *)
(* QueuedIsSettled's counterexample shows is for good.                     *)
THEOREM OrphansAreNeverTaken == Spec => OrphansStay
<1> DEFINE Stay == \A e \in Events : Orphaned(e) => Orphaned(e)'
<1>1. TypeOK /\ [Next]_vars => Stay
  <2> SUFFICES ASSUME TypeOK, [Next]_vars, NEW e \in Events, Orphaned(e)
               PROVE  status'[e] = "PROCESSING" /\ ~Held(e)'
    BY DEF Orphaned
  <2> USE DEF TypeOK
  <2>1. status[e] = "PROCESSING" /\ \A p \in Procs : ~Holding(p, e)
    BY DEF Orphaned, Held
  <2>2. ASSUME NEW p \in Procs,
               \A q \in Procs \ {p} : at'[q] = at[q] /\ event'[q] = event[q],
               status'[e] = status[e], ~Holding(p, e)'
        PROVE  status'[e] = "PROCESSING" /\ ~Held(e)'
    BY <2>1, <2>2 DEF Held, Holding
  <2>3. ASSUME NEW p \in Procs, Claim(p) PROVE event[p] # e
    BY <2>1, <2>3 DEF Claim, ClaimableBy, WorkerClaimable, WebClaimable
  <2>4. ASSUME NEW p \in Procs, Claim(p) PROVE status'[e] = "PROCESSING" /\ ~Held(e)'
    BY <2>2, <2>3, <2>4 DEF Claim, Holding
  <2>5. ASSUME NEW p \in Procs, Skip(p) \/ \E f \in Events : Poll(p, f) \/ Trigger(p, f)
        PROVE  status'[e] = "PROCESSING" /\ ~Held(e)'
    BY <2>2, <2>5 DEF Skip, Leave, Poll, Trigger, Holding, rows
  <2>6. ASSUME NEW p \in Procs,
               \/ HandlerReturns(p) \/ HandlerThrows(p) \/ RecordLedger(p) \/ ReadAttempts(p)
               \/ MarkSuccess(p) \/ MarkFailedWeb(p) \/ MarkFailedWorker(p)
               \/ StatementRejects(p) \/ Abandon(p)
        PROVE  status'[e] = "PROCESSING" /\ ~Held(e)'
    <3>1. at[p] \notin {"idle", "claiming"} => event[p] # e
      BY <2>1 DEF Holding
    <3>2. status'[e] = status[e]
      BY <2>6, <3>1 DEF HandlerReturns, HandlerThrows, RecordLedger, ReadAttempts, MarkSuccess,
         Succeed, MarkFailedWeb, MarkFailedWorker, StatementRejects, Abandon, rows
    <3>3. /\ \A q \in Procs \ {p} : at'[q] = at[q] /\ event'[q] = event[q]
          /\ ~Holding(p, e)'
      BY <2>6, <3>1 DEF HandlerReturns, HandlerThrows, RecordLedger, ReadAttempts, MarkSuccess,
         MarkFailedWeb, MarkFailedWorker, StatementRejects, Abandon, Goto, Leave, Holding
    <3>4. QED
      BY <2>2, <3>2, <3>3
  <2>7. ASSUME NEW f \in Events, Persist(f) \/ Enqueue(f) \/ BackoffElapses(f)
        PROVE  status'[e] = "PROCESSING" /\ ~Held(e)'
    BY <2>1, <2>7 DEF Persist, Enqueue, BackoffElapses, Held, Holding, rows, procs
  <2>8. CASE UNCHANGED vars
    BY <2>1, <2>8 DEF vars, rows, procs, Held, Holding
  <2>9. QED
    BY <2>4, <2>5, <2>6, <2>7, <2>8 DEF Next, Step
<1>2. QED
  BY <1>1, TypeCorrect, PTL DEF Spec, OrphansStay

(* Rewriting the status of one row moves that event alone to another phase *)
(* of the abstract queue.                                                  *)
LEMMA PhaseStep ==
    ASSUME TypeOK, NEW e \in Events, NEW s,
           status' = [status EXCEPT ![e] = s]
    PROVE  phases' = [phases EXCEPT ![e] = PhaseOf(s)]
BY DEF TypeOK, phases

(* Winning claimEvent makes the caller the only holder of its event.       *)
LEMMA TakeHold ==
    ASSUME TypeOK, Custody, NEW p \in Procs, Claim(p)
    PROVE  /\ holdersOf[event[p]] = {}
           /\ holdersOf' = [holdersOf EXCEPT ![event[p]] = {p}]
<1>1. event[p] \in Events
  BY DEF Claim, TypeOK
<1>2. \A q \in Procs : ~Holding(q, event[p])
  BY <1>1 DEF Claim, ClaimableBy, WorkerClaimable, WebClaimable, Custody
<1>3. ASSUME NEW e \in Events
      PROVE  holdersOf'[e] = IF e = event[p] THEN {p} ELSE holdersOf[e]
  BY <1>1, <1>2 DEF Claim, TypeOK, Holding, holdersOf
<1>4. holdersOf[event[p]] = {}
  BY <1>1, <1>2 DEF holdersOf
<1>5. holdersOf' = [holdersOf EXCEPT ![event[p]] = {p}]
  BY <1>3 DEF holdersOf
<1>6. QED
  BY <1>4, <1>5

(* markSuccess, markFailed and a crash release exactly the caller's event. *)
LEMMA LoseHold ==
    ASSUME TypeOK, Custody, NEW p \in Procs, Holding(p, event[p]), Leave(p)
    PROVE  Queue!Release(event[p], p)
<1>1. event[p] \in Events
  BY DEF TypeOK, Holding
<1>2. \A q \in Procs : Holding(q, event[p]) <=> q = p
  BY <1>1 DEF Custody
<1>3. ASSUME NEW e \in Events
      PROVE  holdersOf'[e] = IF e = event[p] THEN {} ELSE holdersOf[e]
  BY <1>1, <1>2 DEF Leave, TypeOK, Holding, holdersOf
<1>4. holdersOf[event[p]] = {p}
  BY <1>1, <1>2 DEF holdersOf
<1>5. holdersOf' = [holdersOf EXCEPT ![event[p]] = {}]
  BY <1>3 DEF holdersOf
<1>6. QED
  BY <1>4, <1>5 DEF Queue!Release

(* A step inside the try block moves the call and releases nothing.        *)
LEMMA KeepHold ==
    ASSUME TypeOK, NEW p \in Procs, event' = event,
           NEW place \in Places \ {"idle", "claiming"},
           at[p] \notin {"idle", "claiming"},
           at' = [at EXCEPT ![p] = place]
    PROVE  holdersOf' = holdersOf
BY DEF TypeOK, Holding, holdersOf, Places

(* The two stores together implement ClaimQueue: each step of any call is  *)
(* a step of the abstract queue or leaves it unchanged.                    *)
THEOREM StoresImplementClaimQueue == Spec => ImplementsClaimQueue
<1>1. Init => Queue!Init
  BY DEF Init, Queue!Init, Holding, phases, PhaseOf, holdersOf
<1>2. TypeOK /\ Custody /\ [Next]_vars => [Queue!Next]_Queue!vars
  <2> SUFFICES ASSUME TypeOK, Custody, [Next]_vars
               PROVE  Queue!Next \/ UNCHANGED Queue!vars
    OBVIOUS
  <2> USE DEF TypeOK, Queue!vars, rows, procs
  <2>1. ASSUME NEW e \in Events, Enqueue(e) PROVE Queue!Add(e)
    <3>1. phases' = [phases EXCEPT ![e] = "waiting"] /\ phases[e] = "absent"
      BY <2>1, PhaseStep DEF Enqueue, PhaseOf, phases
    <3>2. QED
      BY <2>1, <3>1 DEF Enqueue, Queue!Add, Queue!Move, holdersOf, Holding
  <2>2. ASSUME NEW p \in Procs, Claim(p) PROVE Queue!Take(event[p], p)
    <3>1. event[p] \in Events /\ status[event[p]] \in {"PENDING", "FAILED"}
      BY <2>2 DEF Claim, ClaimableBy, WorkerClaimable, WebClaimable
    <3>2. /\ phases' = [phases EXCEPT ![event[p]] = "held"]
          /\ phases[event[p]] = "waiting"
      BY <2>2, <3>1, PhaseStep DEF Claim, PhaseOf, phases
    <3>3. QED
      BY <2>2, <3>1, <3>2, TakeHold DEF Claim, Queue!Take, Queue!Move
  <2>3. ASSUME NEW p \in Procs, RecordLedger(p)
        PROVE  Queue!Record(event[p], p)
    BY <2>3 DEF RecordLedger, Goto, Queue!Record, Custody, Holding, holdersOf, phases
  <2>4. ASSUME NEW p \in Procs, MarkSuccess(p) PROVE Queue!Finish(event[p], p)
    <3>1. /\ event[p] \in Events /\ Holding(p, event[p])
          /\ status[event[p]] = "PROCESSING" /\ event[p] \in ledger
      BY <2>4 DEF MarkSuccess, Custody, Holding
    <3>2. PICK s \in {"DONE", "SUCCESS"} :
                 status' = [status EXCEPT ![event[p]] = s]
      BY <2>4 DEF MarkSuccess, Succeed
    <3>3. /\ phases' = [phases EXCEPT ![event[p]] = "finished"]
          /\ phases[event[p]] = "held"
      BY <3>1, <3>2, PhaseStep DEF PhaseOf, phases
    <3>4. QED
      BY <2>4, <3>1, <3>3, LoseHold DEF MarkSuccess, Queue!Finish, Queue!Move
  <2>5. ASSUME NEW p \in Procs, MarkFailedWeb(p) PROVE Queue!GiveBack(event[p], p)
    <3>1. /\ event[p] \in Events /\ Holding(p, event[p])
          /\ status[event[p]] \in {"PROCESSING", "DONE", "SUCCESS"}
      BY <2>5 DEF MarkFailedWeb, Custody, Holding
    <3>2. /\ phases' = [phases EXCEPT ![event[p]] = "waiting"]
          /\ phases[event[p]] \in {"held", "finished"}
      BY <2>5, <3>1, PhaseStep DEF MarkFailedWeb, PhaseOf, phases
    <3>3. QED
      BY <2>5, <3>1, <3>2, LoseHold DEF MarkFailedWeb, Queue!GiveBack, Queue!Move
  <2>6. ASSUME NEW p \in Procs, MarkFailedWorker(p)
        PROVE  Queue!GiveBack(event[p], p) \/ Queue!Bury(event[p], p)
    <3>1. /\ event[p] \in Events /\ Holding(p, event[p])
          /\ status[event[p]] \in {"PROCESSING", "DONE", "SUCCESS"}
      BY <2>6 DEF MarkFailedWorker, Custody, Holding
    <3>2. PICK fate \in {"DEAD", "FAILED"} :
                 status' = [status EXCEPT ![event[p]] = fate]
      BY <2>6 DEF MarkFailedWorker, DecideOnFailure
    <3>3. /\ phases' = [phases EXCEPT ![event[p]] = PhaseOf(fate)]
          /\ phases[event[p]] \in {"held", "finished"}
      BY <3>1, <3>2, PhaseStep DEF PhaseOf, phases
    <3>4. Queue!Release(event[p], p) /\ ledger' = ledger
      BY <2>6, <3>1, LoseHold DEF MarkFailedWorker
    <3>5. PhaseOf("DEAD") = "dead" /\ PhaseOf("FAILED") = "waiting"
      BY DEF PhaseOf
    <3>6. QED
      BY <3>2, <3>3, <3>4, <3>5 DEF Queue!GiveBack, Queue!Bury, Queue!Move
  <2>7. ASSUME NEW p \in Procs, Abandon(p)
        PROVE  Queue!Vanish(event[p], p) \/ UNCHANGED Queue!vars
    <3>1. CASE at[p] = "claiming"
      BY <2>7, <3>1 DEF Abandon, Leave, holdersOf, Holding, phases
    <3>2. CASE at[p] # "claiming"
      <4>1. event[p] \in Events /\ Holding(p, event[p])
        BY <2>7, <3>2 DEF Abandon, Holding
      <4>2. QED
        BY <2>7, <4>1, LoseHold DEF Abandon, Queue!Vanish, phases
    <3>3. QED
      BY <3>1, <3>2
  <2>8. ASSUME NEW p \in Procs,
               HandlerReturns(p) \/ HandlerThrows(p) \/ ReadAttempts(p)
        PROVE  UNCHANGED Queue!vars
    <3>1. UNCHANGED <<status, ledger>>
      BY <2>8 DEF HandlerReturns, HandlerThrows, ReadAttempts
    <3>2. PICK place \in {"recording", "failing", "deciding"} :
                 at' = [at EXCEPT ![p] = place]
      BY <2>8 DEF HandlerReturns, HandlerThrows, ReadAttempts, Goto
    <3>3. event' = event /\ at[p] \notin {"idle", "claiming"}
      BY <2>8 DEF HandlerReturns, HandlerThrows, ReadAttempts, Goto
    <3>4. QED
      BY <3>1, <3>2, <3>3, KeepHold DEF Places, phases
  <2>9. ASSUME NEW p \in Procs,
               \/ \E e \in Events : Poll(p, e) \/ Trigger(p, e)
               \/ Skip(p)
        PROVE  UNCHANGED Queue!vars
    BY <2>9 DEF Poll, Trigger, Skip, Leave, holdersOf, Holding, phases
  <2>10. ASSUME \/ \E e \in Events : Persist(e) \/ BackoffElapses(e)
                \/ UNCHANGED vars
         PROVE  UNCHANGED Queue!vars
    BY <2>10 DEF vars, Persist, BackoffElapses, holdersOf, Holding, phases
  <2>11. ASSUME NEW p \in Procs, at[p] # "idle" PROVE event[p] \in Events
    BY <2>11
  <2>12. ASSUME NEW p \in Procs, StatementRejects(p)
         PROVE  \/ Queue!Record(event[p], p)
                \/ Queue!FinishUnheard(event[p], p)
                \/ UNCHANGED Queue!vars
    <3>1. /\ event[p] \in Events /\ Holding(p, event[p])
          /\ at[p] \in {"recording", "succeeding"}
          /\ status[event[p]] = "PROCESSING"
          /\ at[p] = "succeeding" => event[p] \in ledger
      BY <2>12 DEF StatementRejects, Custody, Holding
    <3>2. holdersOf' = holdersOf
      BY <2>12, <3>1, KeepHold DEF StatementRejects, Goto, Places
    <3>3. holdersOf[event[p]] = {p}
      BY <3>1 DEF Custody, holdersOf
    <3>4. CASE UNCHANGED <<rows, ledger>>
      BY <3>2, <3>4 DEF phases
    <3>5. CASE ledger' = ledger \cup {event[p]} /\ UNCHANGED rows
      BY <3>2, <3>3, <3>5 DEF Queue!Record, phases
    <3>6. CASE at[p] = "succeeding" /\ Succeed(p) /\ UNCHANGED ledger
      <4>1. PICK s \in {"DONE", "SUCCESS"} :
                   status' = [status EXCEPT ![event[p]] = s]
        BY <3>6 DEF Succeed
      <4>2. /\ phases' = [phases EXCEPT ![event[p]] = "finished"]
            /\ phases[event[p]] = "held"
        BY <3>1, <4>1, PhaseStep DEF PhaseOf, phases
      <4>3. QED
        BY <3>1, <3>2, <3>3, <3>6, <4>2 DEF Queue!FinishUnheard, Queue!Move
    <3>7. QED
      BY <2>12, <3>4, <3>5, <3>6 DEF StatementRejects
  <2>13. ASSUME NEW p \in Procs, Step(p)
         PROVE  Queue!Next \/ UNCHANGED Queue!vars
    BY <2>2, <2>3, <2>4, <2>5, <2>6, <2>8, <2>9, <2>11, <2>13
    DEF Step, Queue!Next, Claim, RecordLedger, MarkSuccess, MarkFailedWeb,
        MarkFailedWorker
  <2>14. ASSUME NEW p \in Procs, StatementRejects(p) \/ Abandon(p)
         PROVE  Queue!Next \/ UNCHANGED Queue!vars
    BY <2>7, <2>11, <2>12, <2>14 DEF Queue!Next, Abandon, StatementRejects
  <2>15. QED
    BY <2>1, <2>9, <2>10, <2>13, <2>14 DEF Next, Queue!Next
<1>3. QED
  BY <1>1, <1>2, TypeCorrect, CustodyInvariant, PTL
  DEF Spec, ImplementsClaimQueue, Queue!Spec
============================================================================
