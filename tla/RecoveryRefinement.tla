------------------------- MODULE RecoveryRefinement -------------------------
(***************************************************************************)
(* Recovery implements Dunning, for any cases, worker slots, customers and *)
(* bounds: every statement is a step of Dunning or none.  And no statement *)
(* leaves an open case without what takes it further.                      *)
(***************************************************************************)
EXTENDS RecoveryProofs

Opened(c) == case[c].status # "NONE"

Exists(c, n) == attempt[c][n] # "NONE"

Rows(c) == {n \in Rungs : Exists(c, n)}

(* Whatever exists or is worked on belongs to a case that was opened, and  *)
(* whoever works on a rung has its attempt; a payment.failed handler works *)
(* on its own case.                                                        *)
Grounded ==
    /\ \A t \in DOMAIN tokens : Opened(tokens[t].case)
    /\ \A c \in Cases, n \in Rungs : Exists(c, n) => Opened(c)
    /\ \A p \in Procs : on[p] \in Cases => Opened(on[p])
    /\ \A s \in Senders : at[s] \notin {"idle", "attempt"} => Exists(on[s], rung[s])
    /\ \A c \in Cases : at[c] # "idle" => on[c] = c

(* What a statement adds is grounded.                                      *)
Grounds(p) ==
    /\ \A t \in DOMAIN tokens' : t \in DOMAIN tokens \/ Opened(tokens[t].case)'
    /\ \A c \in Cases, n \in Rungs : Exists(c, n)' => Exists(c, n) \/ Opened(c)
    /\ on'[p] \in Cases => Opened(on[p])'
    /\ p \in Senders /\ at'[p] \notin {"idle", "attempt"} => Exists(on[p], rung[p])'
    /\ p \in Cases /\ at'[p] # "idle" => on'[p] = p

LEMMA GroundedKept ==
    ASSUME TypeOK, Roles, Grounded, NEW p \in Procs, Still(p), TokensLast, RowsLast, Grounds(p)
    PROVE  Grounded'
<1>1. \A c \in Cases : Opened(c) => Opened(c)'
  BY DEF RowsLast, Opened
<1>2. \A c \in Cases, n \in Rungs : Exists(c, n) => Exists(c, n)'
  BY DEF RowsLast, Exists
<1>3. ASSUME NEW t \in DOMAIN tokens' PROVE Opened(tokens[t].case)'
  <2>1. CASE t \in DOMAIN tokens
    <3>1. tokens[t].case \in Cases
      BY <2>1, Parts, TokenFields DEF LinksTyped
    <3>2. Opened(tokens[t].case) /\ tokens'[t].case = tokens[t].case
      BY <2>1 DEF Grounded, TokensLast
    <3>3. QED
      BY <1>1, <3>1, <3>2 DEF Opened
  <2>2. CASE t \notin DOMAIN tokens
    BY <2>2 DEF Grounds
  <2>3. QED
    BY <2>1, <2>2
<1>4. ASSUME NEW c \in Cases, NEW n \in Rungs, Exists(c, n)' PROVE Opened(c)'
  BY <1>1, <1>4 DEF Grounds, Grounded
<1>5. ASSUME NEW r \in Procs, on'[r] \in Cases PROVE Opened(on[r])'
  <2>1. CASE r = p
    BY <1>5, <2>1 DEF Grounds
  <2>2. CASE r # p
    <3>1. on'[r] = on[r]
      BY <2>2 DEF Still
    <3>2. Opened(on[r])
      BY <1>5, <3>1 DEF Grounded
    <3>3. QED
      BY <1>1, <1>5, <3>1, <3>2 DEF Opened
  <2>3. QED
    BY <2>1, <2>2
<1>6. ASSUME NEW s \in Senders, at'[s] \notin {"idle", "attempt"} PROVE Exists(on[s], rung[s])'
  <2>1. CASE s = p
    BY <1>6, <2>1 DEF Grounds
  <2>2. CASE s # p
    <3>1. at'[s] = at[s] /\ on'[s] = on[s] /\ rung'[s] = rung[s]
      BY <2>2, Kinds DEF Still
    <3>2. Exists(on[s], rung[s]) /\ on[s] \in Cases /\ rung[s] \in Rungs
      BY <1>6, <3>1, SenderPlace DEF Grounded
    <3>3. QED
      BY <1>2, <3>1, <3>2 DEF Exists
  <2>3. QED
    BY <2>1, <2>2
<1>7. ASSUME NEW c \in Cases, at'[c] # "idle" PROVE on'[c] = c
  BY <1>7, Kinds DEF Grounds, Grounded, Still
<1>8. QED
  BY <1>3, <1>4, <1>5, <1>6, <1>7 DEF Grounded

(* Statements that only let a process go on, stop, or write elsewhere.     *)
LEMMA GoesOn ==
    ASSUME Grounded, NEW p \in Procs, RowsLast, DOMAIN tokens' = DOMAIN tokens,
           attempt' = attempt,
           on'[p] \notin Cases \/ on'[p] = on[p],
           p \in Senders => \/ at'[p] = "idle"
                            \/ /\ at[p] \notin {"idle", "attempt"}
                               /\ on'[p] = on[p] /\ rung'[p] = rung[p]
    PROVE  Grounds(p)
  BY Kinds DEF Grounds, Grounded, RowsLast, Opened, Exists

LEMMA SenderGrounds ==
    ASSUME TypeOK, Roles, Grounded, NEW s \in Procs, RowsLast, SenderStep(s)
    PROVE  Grounds(s)
<1>1. ProcsTyped /\ LinksTyped /\ s \in Senders /\ attempt' = attempt
  BY Parts DEF SenderStep, Send, SupersedeActiveTokens, CreateToken, CreateMessageLog,
       SkipDuplicate, ProviderSends, ProviderFails, MarkSent, MarkFailed, MarkMessage,
       MarkSentRejects, dbase
<1>2. CASE SupersedeActiveTokens(s)
  <2>1. /\ DOMAIN tokens' = DOMAIN tokens /\ on'[s] = on[s] /\ rung'[s] = rung[s]
        /\ at[s] = "supersede"
    BY <1>1, <1>2, SupersedeTokens DEF SupersedeActiveTokens
  <2>2. QED
    BY <1>1, <2>1, GoesOn
<1>3. CASE CreateToken(s)
  <2>1. on[s] \in Cases /\ on' = on /\ rung' = rung /\ at[s] = "mint"
    BY <1>1, <1>3, SenderPlace DEF CreateToken
  <2>2. PICK r : r = [case |-> on[s], minter |-> s, expires |-> clock[s] + TTL,
                      used |-> FALSE, superseded |-> FALSE]
    OBVIOUS
  <2>3. r \in TokenRows /\ r.case = on[s]
    BY <1>1, <2>1, <2>2 DEF ProcsTyped, TokenRows, TTL
  <2>4. /\ DOMAIN tokens' = DOMAIN tokens \cup {Len(tokens) + 1}
        /\ tokens'[Len(tokens) + 1] = r
    BY <1>1, <1>3, <2>2, <2>3, MintToken DEF CreateToken
  <2>5. Opened(on[s])' /\ Exists(on[s], rung[s])
    BY <1>1, <2>1 DEF Grounded, RowsLast, Opened
  <2>6. QED
    BY <1>1, <2>1, <2>3, <2>4, <2>5 DEF Grounds, Grounded, Exists, Opened
<1>4. CASE SkipDuplicate(s) \/ MarkSent(s) \/ MarkFailed(s)
  <2>1. AfterMessage(s) /\ tokens' = tokens /\ at[s] \notin {"idle", "attempt"}
    BY <1>4 DEF SkipDuplicate, MarkSent, MarkFailed, MarkMessage, dbase
  <2>2. /\ on'[s] \notin Cases \/ on'[s] = on[s]
        /\ at'[s] = "idle" \/ (on'[s] = on[s] /\ rung'[s] = rung[s])
    BY <1>1, <2>1, NoCaseAssumption DEF AfterMessage, EndMessage, Leave, ProcsTyped
  <2>3. QED
    BY <1>1, <2>1, <2>2, GoesOn
<1>5. CASE CreateMessageLog(s) \/ ProviderSends(s) \/ ProviderFails(s) \/ MarkSentRejects(s)
  <2>1. /\ on' = on /\ rung' = rung /\ tokens' = tokens /\ at[s] \notin {"idle", "attempt"}
    BY <1>5 DEF CreateMessageLog, ProviderSends, ProviderFails, MarkSentRejects, Goto, dbase
  <2>2. QED
    BY <1>1, <2>1, GoesOn
<1>6. QED
  BY <1>2, <1>3, <1>4, <1>5 DEF SenderStep, Send

LEMMA NewRung ==
    ASSUME RowsTyped, NEW c \in Cases, NEW n \in Rungs, createAttempt(c, n)
    PROVE  /\ \A d \in Cases, m \in Rungs :
                 Exists(d, m)' <=> Exists(d, m) \/ (d = c /\ m = n)
           /\ \A d \in Cases : Rows(d)' = IF d = c THEN Rows(d) \cup {n} ELSE Rows(d)
<1>1. attempt \in [Cases -> [Rungs -> Attempts]]
  BY DEF RowsTyped
<1>2. PICK r \in Attempts : r = (IF findAttempt(c, n) THEN attempt[c][n] ELSE "PENDING")
  BY <1>1 DEF Attempts
<1>3. attempt' = [attempt EXCEPT ![c][n] = r]
  BY <1>2, Zenon DEF createAttempt
<1>4. \A d \in Cases, m \in Rungs :
         attempt'[d][m] = IF d = c /\ m = n THEN r ELSE attempt[d][m]
  BY <1>1, <1>3, CellUpdated
<1>5. r # "NONE"
  BY <1>2 DEF findAttempt
<1>6. \A d \in Cases, m \in Rungs : Exists(d, m)' <=> Exists(d, m) \/ (d = c /\ m = n)
  BY <1>4, <1>5 DEF Exists
<1>7. QED
  BY <1>6 DEF Rows

LEMMA ProcessGrounds ==
    ASSUME TypeOK, Roles, Ordered, Grounded, NEW p \in Procs, RowsLast, StepOf(p), ~SenderStep(p)
    PROVE  Grounds(p)
<1>1. ProcsTyped /\ RowsTyped /\ LinksTyped
  BY Parts, Zenon
<1>2. CASE CaseStep(p)
  <2>1. p \in Cases /\ p \in Senders /\ tokens' = tokens
    BY <1>2, Kinds DEF CaseStep, OpenCase, ScheduleFirstAttempt
  <2>2. CASE OpenCase(p)
    <3>1. on'[p] = p /\ at'[p] = "attempt" /\ attempt' = attempt
      BY <1>1, <2>2 DEF OpenCase, ProcsTyped
    <3>2. Opened(p)'
      <4>1. case[p] \in CaseRows
        BY <1>1, <2>1 DEF RowsTyped
      <4>2. PICK r : r = [case[p] EXCEPT !.status = "OPEN", !.created = now]
        OBVIOUS
      <4>3. r.status = "OPEN"
        BY <4>1, <4>2 DEF CaseRows
      <4>4. case' = [case EXCEPT ![p] = r] \/ (case' = case /\ case[p].status # "NONE")
        BY <2>2, <4>2, Zenon DEF OpenCase, findCaseByPaymentEventId
      <4>5. QED
        BY <1>1, <2>1, <4>3, <4>4 DEF Opened, RowsTyped
    <3>3. QED
      BY <2>1, <3>1, <3>2 DEF Grounds, Exists, Opened
  <2>3. CASE ScheduleFirstAttempt(p)
    <3>1. on[p] = p /\ on'[p] = p /\ rung'[p] = 1 /\ 1 \in Rungs
      BY <1>1, <2>1, <2>3 DEF ScheduleFirstAttempt, ProcsTyped, Grounded, Rungs, MaxRung
    <3>2. Opened(p) /\ Opened(p)'
      BY <2>1, <3>1 DEF Grounded, RowsLast, Opened
    <3>3. \A c \in Cases, n \in Rungs : Exists(c, n)' <=> Exists(c, n) \/ (c = p /\ n = 1)
      BY <1>1, <2>1, <2>3, <3>1, NewRung DEF ScheduleFirstAttempt
    <3>4. QED
      BY <2>1, <3>1, <3>2, <3>3 DEF Grounds, Exists, Opened
  <2>4. QED
    BY <1>2, <2>2, <2>3 DEF CaseStep
<1>3. CASE LadderStep(p)
  <2>1. p \in Ladders /\ p \in Senders /\ p \notin Cases /\ tokens' = tokens
    BY <1>3, Kinds DEF LadderStep, Climb, Halt, MarkAttemptExecuted, ScheduleNextRung,
                       ExhaustLadder, PickDueAttempt, dbase
  <2>2. CASE Halt(p) \/ ExhaustLadder(p)
    <3>1. on'[p] \notin Cases /\ at'[p] = "idle"
      BY <1>1, <2>2, NoCaseAssumption DEF Halt, ExhaustLadder, Leave, ProcsTyped
    <3>2. \A c \in Cases, n \in Rungs : Exists(c, n)' => Exists(c, n)
      <4>1. CASE ExhaustLadder(p)
        BY <4>1 DEF ExhaustLadder, Exists
      <4>2. CASE Halt(p)
        <5>1. on[p] \in Cases /\ rung[p] \in Rungs /\ Exists(on[p], rung[p])
          BY <2>1, <4>2, SenderPlace DEF Halt, Grounded
        <5>2. \A c \in Cases, n \in Rungs :
                 attempt'[c][n] = IF c = on[p] /\ n = rung[p] THEN "FAILED" ELSE attempt[c][n]
          BY <1>1, <4>2, <5>1, CellUpdated DEF Halt, RowsTyped
        <5>3. QED
          BY <5>1, <5>2 DEF Exists
      <4>3. QED
        BY <2>2, <4>1, <4>2
    <3>3. QED
      BY <2>1, <3>1, <3>2 DEF Grounds
  <2>3. CASE MarkAttemptExecuted(p)
    <3>1. on[p] \in Cases /\ rung[p] \in Rungs /\ Exists(on[p], rung[p])
      BY <2>1, <2>3, SenderPlace DEF MarkAttemptExecuted, Grounded
    <3>2. \A c \in Cases, n \in Rungs :
             attempt'[c][n] = IF c = on[p] /\ n = rung[p] THEN "SUCCESS" ELSE attempt[c][n]
      BY <1>1, <2>3, <3>1, CellUpdated DEF MarkAttemptExecuted, RowsTyped
    <3>3. on'[p] = on[p] /\ rung'[p] = rung[p] /\ Opened(on[p])'
      BY <2>3, <3>1 DEF MarkAttemptExecuted, Goto, Grounded, RowsLast, Opened
    <3>4. QED
      BY <2>1, <3>1, <3>2, <3>3 DEF Grounds, Exists, Opened
  <2>4. CASE ScheduleNextRung(p)
    <3>1. on[p] \in Cases /\ rung[p] + 1 \in Rungs
      BY <2>1, <2>4, SenderPlace DEF ScheduleNextRung, Rungs, MaxRung
    <3>2. on'[p] \notin Cases /\ at'[p] = "idle" /\ Opened(on[p])
      BY <1>1, <2>4, <3>1, NoCaseAssumption DEF ScheduleNextRung, Leave, ProcsTyped, Grounded
    <3>3. \A c \in Cases, n \in Rungs :
             Exists(c, n)' <=> Exists(c, n) \/ (c = on[p] /\ n = rung[p] + 1)
      BY <1>1, <2>4, <3>1, NewRung DEF ScheduleNextRung
    <3>4. QED
      BY <2>1, <3>2, <3>3 DEF Grounds
  <2>5. ASSUME NEW c \in Cases, NEW n \in Rungs, PickDueAttempt(p, c, n)
        PROVE  Grounds(p)
    <3>1. on'[p] = c /\ rung'[p] = n /\ attempt' = attempt
      BY <1>1, <2>5 DEF PickDueAttempt, ProcsTyped, dbase
    <3>2. Exists(c, n) /\ Opened(c) /\ Opened(c)'
      BY <2>5 DEF PickDueAttempt, Due, Exists, Grounded, RowsLast, Opened
    <3>3. QED
      BY <2>1, <3>1, <3>2 DEF Grounds, Exists, Opened
  <2>6. QED
    BY <1>3, <2>2, <2>3, <2>4, <2>5 DEF LadderStep, Climb
<1>4. CASE PostStep(p)
  <2>1. p \in Posts /\ p \notin Senders /\ p \notin Cases /\ attempt' = attempt
    BY <1>4, Kinds DEF PostStep, submitPaymentUpdate, ValidateToken, MarkUsed,
                       CompleteRecovery, SendRecovered, dbase
  <2>2. ASSUME NEW t \in DOMAIN tokens, ValidateToken(p, t) PROVE Grounds(p)
    <3>1. on'[p] = tokens[t].case /\ tokens' = tokens /\ case' = case
      BY <1>1, <2>2 DEF ValidateToken, ProcsTyped, dbase
    <3>2. QED
      BY <2>1, <3>1 DEF Grounds, Grounded, Exists, Opened
  <2>3. CASE MarkUsed(p)
    <3>1. link[p] \in DOMAIN tokens
      BY <2>1, <2>3 DEF MarkUsed, Roles, PostRole
    <3>2. DOMAIN tokens' = DOMAIN tokens
      BY <1>1, <2>3, <3>1, UseToken DEF MarkUsed
    <3>3. on'[p] \notin Cases \/ on'[p] = on[p]
      BY <1>1, <2>3, NoCaseAssumption DEF MarkUsed, Goto, Leave, ProcsTyped
    <3>4. QED
      BY <2>1, <3>2, <3>3, GoesOn
  <2>4. CASE CompleteRecovery(p) \/ SendRecovered(p)
    <3>1. tokens' = tokens /\ (on'[p] \notin Cases \/ on'[p] = on[p])
      BY <1>1, <2>4, NoCaseAssumption DEF CompleteRecovery, SendRecovered, Goto, Leave,
                                          ProcsTyped, dbase
    <3>2. QED
      BY <2>1, <3>1, GoesOn
  <2>5. QED
    BY <1>4, <2>2, <2>3, <2>4 DEF PostStep, submitPaymentUpdate
<1>5. CASE CaptureStep(p)
  <2>1. p \in Captures /\ p \notin Senders /\ p \notin Cases /\ attempt' = attempt /\ tokens' = tokens
    BY <1>5, Kinds DEF CaptureStep, handlePaymentCaptured, FindOpenCase, NoOpenCase,
                       CompleteOrganic, HandlerReruns, dbase
  <2>2. CASE FindOpenCase(p)
    <3>1. PICK i \in OpenCases : on' = [on EXCEPT ![p] = order[i]]
      BY <2>2 DEF FindOpenCase
    <3>2. on'[p] = order[i] /\ case[order[i]].status = "OPEN" /\ case' = case
      BY <1>1, <2>2, <3>1 DEF FindOpenCase, ProcsTyped, OpenCases, dbase
    <3>3. QED
      BY <2>1, <3>2 DEF Grounds, Exists, Opened
  <2>3. CASE NoOpenCase(p) \/ CompleteOrganic(p) \/ HandlerReruns(p)
    <3>1. on'[p] \notin Cases
      BY <1>1, <2>3, NoCaseAssumption DEF NoOpenCase, CompleteOrganic, HandlerReruns, Leave,
                                          ProcsTyped
    <3>2. QED
      BY <2>1, <3>1, GoesOn
  <2>4. QED
    BY <1>5, <2>2, <2>3 DEF CaptureStep, handlePaymentCaptured
<1>6. CASE Abandon(p)
  <2>1. on'[p] \notin Cases /\ at'[p] = "idle" /\ tokens' = tokens /\ attempt' = attempt
    BY <1>1, <1>6, NoCaseAssumption DEF Abandon, Leave, ProcsTyped, dbase
  <2>2. QED
    BY <2>1, GoesOn
<1>7. QED
  BY <1>2, <1>3, <1>4, <1>5, <1>6 DEF StepOf

LEMMA GroundedStep == TypeOK /\ Roles /\ Ordered /\ Grounded /\ [Next]_vars => Grounded'
<1> SUFFICES ASSUME TypeOK, Roles, Ordered, Grounded, [Next]_vars PROVE Grounded'
  OBVIOUS
<1>1. CASE Tick \/ UNCHANGED vars
  BY <1>1 DEF Tick, vars, dbase, procs, Grounded, Opened, Exists
<1>2. ASSUME NEW p \in Procs, StepOf(p) PROVE Grounded'
  <2>1. Still(p) /\ TokensLast /\ RowsLast
    BY <1>2, StepsAreSound, StepClimbs DEF Sound
  <2>2. Grounds(p)
    BY <1>2, <2>1, SenderGrounds, ProcessGrounds
  <2>3. QED
    BY <2>1, <2>2, GroundedKept
<1>3. QED
  BY <1>1, <1>2, Steps

LEMMA GroundedInit == Init => Grounded
  BY Kinds, NoCaseAssumption DEF Init, Grounded, Exists

(***************************************************************************)
(* No case is stranded.                                                    *)
(***************************************************************************)

Ended(c) == case[c].status \in {"RECOVERED", "FAILED"}

(* A slot that will take an attempt off the ladder does so for a case that *)
(* has ended since it was polled.                                          *)
Halting == \A l \in Ladders : at[l] = "halt" => Ended(on[l])

(* A case only opens, by its own handler, or ends.                         *)
LEMMA StatusMoves ==
    ASSUME TypeOK, Roles, NEW p \in Procs, StepOf(p), NEW c \in Cases
    PROVE  \/ case'[c].status = case[c].status
           \/ /\ p = c /\ OpenCase(p)
              /\ case[c].status = "NONE" /\ case'[c].status = "OPEN"
           \/ Ended(c)'
<1>1. ProcsTyped /\ RowsTyped
  BY Parts, Zenon
<1>2. ASSUME NEW d \in Cases, NEW r, case' = [case EXCEPT ![d] = r]
      PROVE  case'[c] = IF c = d THEN r ELSE case[c]
  BY <1>1, <1>2 DEF RowsTyped
<1>3. CASE SenderStep(p) \/ Abandon(p)
  BY <1>3 DEF SenderStep, Send, SupersedeActiveTokens, CreateToken, CreateMessageLog, SkipDuplicate,
              ProviderSends, ProviderFails, MarkSent, MarkFailed, MarkMessage, MarkSentRejects,
              Abandon, dbase
<1>4. CASE CaseStep(p)
  <2>1. p \in Cases
    BY <1>4 DEF CaseStep
  <2>2. PICK r : r = [case[p] EXCEPT !.status = "OPEN", !.created = now]
    OBVIOUS
  <2>3. r.status = "OPEN"
    BY <1>1, <2>1, <2>2 DEF RowsTyped, CaseRows
  <2>4. \/ case' = case
        \/ case' = [case EXCEPT ![p] = r] /\ OpenCase(p) /\ case[p].status = "NONE"
    BY <1>4, <2>2, Zenon DEF CaseStep, OpenCase, ScheduleFirstAttempt, findCaseByPaymentEventId
  <2>5. QED
    BY <1>2, <2>1, <2>3, <2>4
<1>5. CASE LadderStep(p)
  <2>1. CASE ExhaustLadder(p)
    <3>1. on[p] \in Cases
      BY <1>5, <2>1, Kinds, SenderPlace DEF LadderStep, ExhaustLadder
    <3>2. PICK r : r = [case[on[p]] EXCEPT !.status = "FAILED"]
      OBVIOUS
    <3>3. r.status = "FAILED"
      BY <1>1, <3>1, <3>2 DEF RowsTyped, CaseRows
    <3>4. case' = [case EXCEPT ![on[p]] = r]
      BY <2>1, <3>2, Zenon DEF ExhaustLadder
    <3>5. QED
      BY <1>2, <3>1, <3>3, <3>4 DEF Ended
  <2>2. CASE ~ExhaustLadder(p)
    BY <1>5, <2>2 DEF LadderStep, Climb, Halt, MarkAttemptExecuted, ScheduleNextRung,
                      PickDueAttempt, dbase
  <2>3. QED
    BY <2>1, <2>2
<1>6. CASE PostStep(p) \/ CaptureStep(p)
  <2>1. \/ case' = case
        \/ on[p] \in Cases /\ \E via \in {"LINK", "ORGANIC"} : MarkRecovered(p, via)
    BY <1>6 DEF PostStep, submitPaymentUpdate, ValidateToken, MarkUsed, CompleteRecovery,
                SendRecovered, CaptureStep, handlePaymentCaptured, FindOpenCase, NoOpenCase,
                CompleteOrganic, HandlerReruns, dbase, Roles, PostRole, CaptureRole
  <2>2. ASSUME on[p] \in Cases, NEW via \in {"LINK", "ORGANIC"}, MarkRecovered(p, via)
        PROVE  case'[c].status = case[c].status \/ Ended(c)'
    <3>1. PICK r : r = [case[on[p]] EXCEPT !.status = "RECOVERED", !.via = via]
      OBVIOUS
    <3>2. r.status = "RECOVERED"
      BY <1>1, <2>2, <3>1 DEF RowsTyped, CaseRows
    <3>3. case' = [case EXCEPT ![on[p]] = r]
      BY <2>2, <3>1, Zenon DEF MarkRecovered
    <3>4. QED
      BY <1>2, <2>2, <3>2, <3>3 DEF Ended
  <2>3. QED
    BY <2>1, <2>2
<1>7. QED
  BY <1>3, <1>4, <1>5, <1>6 DEF StepOf

(* Where a statement leaves a slot that has to halt: only a poll that saw  *)
(* the case ended sends it there.                                          *)
LEMMA HaltingStep == TypeOK /\ Roles /\ Halting /\ [Next]_vars => Halting'
<1> SUFFICES ASSUME TypeOK, Roles, Halting, [Next]_vars PROVE Halting'
  OBVIOUS
<1>1. CASE Tick \/ UNCHANGED vars
  BY <1>1 DEF Tick, vars, dbase, procs, Halting, Ended
<1>2. ASSUME NEW p \in Procs, StepOf(p), NEW l \in Ladders, at'[l] = "halt"
      PROVE  Ended(on[l])'
  <2>1. Still(p) /\ ProcsTyped
    BY <1>2, StepsAreSound, Parts, Zenon DEF Sound
  <2>2. l \in Procs /\ l \in Senders
    BY Kinds
  <2>3. \A c \in Cases : Ended(c) => Ended(c)'
    BY <1>2, StatusMoves DEF Ended
  <2>4. CASE l # p
    <3>1. at[l] = "halt" /\ on'[l] = on[l] /\ on[l] \in Cases
      BY <1>2, <2>1, <2>2, <2>4 DEF Still, Roles, SenderRole
    <3>2. QED
      BY <2>3, <3>1 DEF Halting, Ended
  <2>5. CASE l = p
    <3>1. LadderStep(l)
      <4>1. ~CaseStep(p) /\ ~PostStep(p) /\ ~CaptureStep(p)
        BY <2>5, Kinds DEF CaseStep, PostStep, CaptureStep
      <4>2. ~Abandon(p)
        BY <1>2, <2>1, <2>5 DEF Abandon, Leave, ProcsTyped
      <4>3. ASSUME SenderStep(p) PROVE FALSE
        <5>1. l \notin Cases /\ (SkipDuplicate(p) \/ MarkSent(p) \/ MarkFailed(p) => AfterMessage(p))
          BY Kinds DEF SkipDuplicate, MarkSent, MarkFailed, MarkMessage
        <5>2. QED
          BY <1>2, <2>1, <2>5, <4>3, <5>1
          DEF SenderStep, Send, SupersedeActiveTokens, CreateToken, CreateMessageLog,
              ProviderSends, ProviderFails, MarkSentRejects, AfterMessage, EndMessage,
              Goto, ProcsTyped
      <4>4. QED
        BY <1>2, <2>5, <4>1, <4>2, <4>3 DEF StepOf
    <3>2. PICK c \in Cases, n \in Rungs : PickDueAttempt(l, c, n)
      BY <1>2, <2>1, <2>2, <3>1 DEF LadderStep, Climb, Halt, MarkAttemptExecuted,
         ScheduleNextRung, ExhaustLadder, Goto, Leave, ProcsTyped
    <3>3. on'[l] = c /\ case' = case /\ Halts(c)
      BY <1>2, <2>1, <2>2, <3>2 DEF PickDueAttempt, ProcsTyped, dbase
    <3>4. case[c].status \in {"NONE", "OPEN", "RECOVERED", "FAILED"}
      BY Parts, Zenon DEF RowsTyped, CaseRows
    <3>5. QED
      BY <3>3, <3>4 DEF Halts, Ended
  <2>6. QED
    BY <2>4, <2>5
<1>3. QED
  BY <1>1, <1>2, Steps DEF Halting

(* A process that is not the one to take c further, and does not touch its *)
(* attempts, leaves c to who is.                                           *)
LEMMA DriverStays ==
    ASSUME NEW p \in Procs, Still(p), NEW c \in Cases, Driven(c),
           \A n \in Rungs : attempt'[c][n] = attempt[c][n],
           \A l \in Ladders : at[l] = "next" => rung[l] \in Rungs,
           p = c => at[p] # "attempt",
           p \in Ladders => at[p] # "next" \/ on[p] # c
    PROVE  Driven(c)'
<1>1. 1 \in Rungs /\ \A n \in Rungs : n < MaxRung => n + 1 \in Rungs
  BY DEF Rungs, MaxRung
<1>2. c \in Procs /\ \A l \in Ladders : l \in Procs
  BY Kinds
<1>3. CASE at[c] = "attempt" /\ ~findAttempt(c, 1)
  BY <1>1, <1>2, <1>3 DEF Still, Driven, findAttempt
<1>4. ASSUME NEW n \in Rungs, attempt[c][n] = "PENDING" PROVE Driven(c)'
  BY <1>4 DEF Driven
<1>5. ASSUME NEW l \in Ladders, TopSlot(c, l) PROVE Driven(c)'
  <2>1. l # p /\ at'[l] = at[l] /\ on'[l] = on[l] /\ rung'[l] = rung[l]
    BY <1>2, <1>5 DEF TopSlot, Still
  <2>2. TopSlot(c, l)'
    BY <1>1, <1>5, <2>1 DEF TopSlot, findAttempt
  <2>3. QED
    BY <2>2 DEF Driven
<1>6. QED
  BY <1>3, <1>4, <1>5 DEF Driven

(* A slot's statements.  The rung it executes or the next one it creates   *)
(* is what takes the case further; a case it halts or gives up has ended.  *)
LEMMA SlotLeavesADriver ==
    ASSUME TypeOK, Roles, Ordered, Halting, NEW p \in Procs, LadderStep(p),
           NEW c \in Cases, Driven(c), (case[c].status = "OPEN")'
    PROVE  Driven(c)'
<1>1. p \in Ladders /\ p \in Senders /\ p \notin Cases /\ ProcsTyped /\ RowsTyped
  BY Parts, Kinds, Zenon DEF LadderStep
<1>2. StepOf(p) /\ Still(p)
  BY StepsAreSound DEF StepOf, Sound
<1>3. \A l \in Ladders : at[l] = "next" => rung[l] \in Rungs
  BY Kinds, SenderPlace
<1>4. c # p /\ c \in Procs /\ \A l \in Ladders : l \in Procs
  BY <1>1, Kinds
<1>5. ASSUME NEW d \in Cases, NEW n \in Rungs, PickDueAttempt(p, d, n) PROVE Driven(c)'
  <2>1. at[p] = "idle" /\ attempt' = attempt
    BY <1>5 DEF PickDueAttempt, dbase
  <2>2. QED
    BY <1>2, <1>3, <1>4, <2>1, DriverStays
<1>6. CASE Halt(p)
  <2>1. at[p] = "halt" /\ on[p] \in Cases /\ rung[p] \in Rungs /\ case' = case
    BY <1>1, <1>6, SenderPlace DEF Halt
  <2>2. c # on[p]
    BY <1>1, <2>1 DEF Halting, Ended
  <2>3. \A n \in Rungs : attempt'[c][n] = attempt[c][n]
    BY <1>1, <1>6, <2>1, <2>2, CellUpdated DEF Halt, RowsTyped
  <2>4. QED
    BY <1>2, <1>3, <1>4, <2>1, <2>3, DriverStays
<1>7. CASE MarkAttemptExecuted(p)
  <2>1. at[p] = "execute" /\ on[p] \in Cases /\ rung[p] \in Rungs /\ findAttempt(on[p], rung[p])
    BY <1>1, <1>7, SenderPlace DEF MarkAttemptExecuted, Ordered, Climbing, findAttempt
  <2>2. \A n \in Rungs :
           attempt'[c][n] = IF c = on[p] /\ n = rung[p] THEN "SUCCESS" ELSE attempt[c][n]
    BY <1>1, <1>7, <2>1, CellUpdated DEF MarkAttemptExecuted, RowsTyped
  <2>3. at'[p] = "next" /\ on'[p] = on[p] /\ rung'[p] = rung[p]
    BY <1>1, <1>4, <1>7 DEF MarkAttemptExecuted, Goto, ProcsTyped
  <2>4. CASE c # on[p]
    BY <1>2, <1>3, <1>4, <2>1, <2>2, <2>4, DriverStays
  <2>5. CASE c = on[p] /\ attempt[c][rung[p]] = "PENDING"
    <3>1. rung[p] < MaxRung => rung[p] + 1 \in Rungs /\ ~findAttempt(c, rung[p] + 1)
      BY <2>1, <2>5 DEF Ordered, LadderOrder, Executed, findAttempt, Rungs, MaxRung
    <3>2. rung[p] < MaxRung => rung[p] + 1 # rung[p]
      BY <2>1 DEF Rungs
    <3>3. TopSlot(c, p)'
      BY <2>2, <2>3, <2>5, <3>1, <3>2 DEF TopSlot, findAttempt
    <3>4. QED
      BY <1>1, <3>3 DEF Driven
  <2>6. CASE c = on[p] /\ attempt[c][rung[p]] # "PENDING"
    <3>1. CASE at[c] = "attempt" /\ ~findAttempt(c, 1)
      <4>1. rung[p] # 1 /\ 1 \in Rungs /\ at'[c] = at[c]
        BY <1>2, <1>4, <2>1, <2>6, <3>1 DEF Still, Rungs, MaxRung
      <4>2. QED
        BY <2>2, <3>1, <4>1 DEF Driven, findAttempt
    <3>2. ASSUME NEW n \in Rungs, attempt[c][n] = "PENDING" PROVE Driven(c)'
      BY <2>2, <2>6, <3>2 DEF Driven
    <3>3. ASSUME NEW l \in Ladders, TopSlot(c, l) PROVE Driven(c)'
      <4>1. at'[l] = at[l] /\ on'[l] = on[l] /\ rung'[l] = rung[l] /\ rung[l] \in Rungs
        BY <1>2, <1>3, <1>4, <2>1, <3>3 DEF TopSlot, Still
      <4>2. rung[l] < MaxRung => rung[l] + 1 \in Rungs /\ rung[l] + 1 # rung[p]
        BY <2>1, <2>6, <3>3, <4>1 DEF TopSlot, Rungs, MaxRung
      <4>3. TopSlot(c, l)'
        BY <2>2, <3>3, <4>1, <4>2 DEF TopSlot, findAttempt
      <4>4. QED
        BY <4>3 DEF Driven
    <3>4. QED
      BY <3>1, <3>2, <3>3 DEF Driven
  <2>7. QED
    BY <2>4, <2>5, <2>6
<1>8. CASE ScheduleNextRung(p)
  <2>1. at[p] = "next" /\ on[p] \in Cases /\ rung[p] \in Rungs /\ rung[p] + 1 \in Rungs
    BY <1>1, <1>8, SenderPlace DEF ScheduleNextRung, Rungs, MaxRung
  <2>2. PICK r : r = (IF findAttempt(on[p], rung[p] + 1) THEN attempt[on[p]][rung[p] + 1] ELSE "PENDING")
    OBVIOUS
  <2>3. attempt' = [attempt EXCEPT ![on[p]][rung[p] + 1] = r]
    BY <1>8, <2>2, Zenon DEF ScheduleNextRung, createAttempt
  <2>4. \A n \in Rungs :
           attempt'[c][n] = IF c = on[p] /\ n = rung[p] + 1 THEN r ELSE attempt[c][n]
    BY <1>1, <2>1, <2>3, CellUpdated DEF RowsTyped
  <2>5. CASE c # on[p]
    BY <1>2, <1>3, <1>4, <2>1, <2>4, <2>5, DriverStays
  <2>6. CASE c = on[p] /\ ~findAttempt(c, rung[p] + 1)
    BY <2>1, <2>2, <2>4, <2>6 DEF Driven
  <2>7. CASE c = on[p] /\ findAttempt(c, rung[p] + 1)
    <3>1. \A n \in Rungs : attempt'[c][n] = attempt[c][n]
      BY <2>2, <2>4, <2>7
    <3>2. ~TopSlot(c, p)
      BY <2>1, <2>7 DEF TopSlot, Rungs, MaxRung
    <3>3. 1 \in Rungs /\ \A n \in Rungs : n < MaxRung => n + 1 \in Rungs
      BY DEF Rungs, MaxRung
    <3>4. CASE at[c] = "attempt" /\ ~findAttempt(c, 1)
      BY <1>2, <1>4, <3>1, <3>3, <3>4 DEF Still, Driven, findAttempt
    <3>5. ASSUME NEW n \in Rungs, attempt[c][n] = "PENDING" PROVE Driven(c)'
      BY <3>1, <3>5 DEF Driven
    <3>6. ASSUME NEW l \in Ladders, TopSlot(c, l) PROVE Driven(c)'
      <4>1. l # p /\ at'[l] = at[l] /\ on'[l] = on[l] /\ rung'[l] = rung[l] /\ rung[l] \in Rungs
        BY <1>2, <1>3, <1>4, <3>2, <3>6 DEF TopSlot, Still
      <4>2. TopSlot(c, l)'
        BY <3>1, <3>3, <3>6, <4>1 DEF TopSlot, findAttempt
      <4>3. QED
        BY <4>2 DEF Driven
    <3>7. QED
      BY <3>4, <3>5, <3>6 DEF Driven
  <2>8. QED
    BY <2>5, <2>6, <2>7
<1>9. CASE ExhaustLadder(p)
  <2>1. on[p] \in Cases /\ attempt' = attempt
    BY <1>1, <1>9, SenderPlace DEF ExhaustLadder
  <2>2. c # on[p]
    <3>1. PICK r : r = [case[on[p]] EXCEPT !.status = "FAILED"]
      OBVIOUS
    <3>2. case' = [case EXCEPT ![on[p]] = r] /\ r.status = "FAILED"
      BY <1>1, <1>9, <2>1, <3>1 DEF ExhaustLadder, RowsTyped, CaseRows
    <3>3. QED
      BY <1>1, <2>1, <3>2 DEF RowsTyped
  <2>3. QED
    BY <1>2, <1>3, <1>4, <2>1, <2>2, DriverStays
<1>10. QED
  BY <1>5, <1>6, <1>7, <1>8, <1>9 DEF LadderStep, Climb

LEMMA StepLeavesADriver ==
    ASSUME TypeOK, Roles, Ordered, Grounded, Halting, NEW p \in Procs, StepOf(p),
           NEW c \in Cases, ~BreaksOffAtNextRung(p, c), ~Stranded(c), Stranded(c)'
    PROVE  FALSE
<1>1. ProcsTyped /\ RowsTyped /\ Still(p) /\ c \in Procs
  BY StepsAreSound, Parts, Kinds, Zenon DEF Sound
<1>2. \A l \in Ladders : at[l] = "next" => rung[l] \in Rungs
  BY Kinds, SenderPlace
<1>3. 1 \in Rungs
  BY DEF Rungs, MaxRung
<1>4. case'[c].status = "OPEN" /\ ~Driven(c)'
  BY DEF Stranded
<1>5. CASE case[c].status # "OPEN"
  <2>1. p = c /\ OpenCase(c) /\ case[c].status = "NONE"
    BY <1>4, <1>5, StatusMoves DEF Ended
  <2>2. at'[c] = "attempt" /\ attempt' = attempt /\ ~findAttempt(c, 1)
    BY <1>1, <1>3, <2>1 DEF OpenCase, ProcsTyped, Grounded, Opened, Exists, findAttempt
  <2>3. QED
    BY <1>4, <2>2 DEF Driven, findAttempt
<1>6. CASE case[c].status = "OPEN"
  <2>1. Driven(c)
    BY <1>6 DEF Stranded
  <2>2. ASSUME attempt' = attempt, p \in Cases => at[p] # "attempt", p \in Ladders => at[p] # "next"
        PROVE  FALSE
    BY <1>1, <1>2, <1>4, <2>1, <2>2, DriverStays
  <2>3. CASE SenderStep(p)
    <3>1. attempt' = attempt /\ at[p] \notin {"attempt", "next"}
      BY <2>3 DEF SenderStep, Send, SupersedeActiveTokens, CreateToken, CreateMessageLog,
         SkipDuplicate, ProviderSends, ProviderFails, MarkSent, MarkFailed, MarkMessage,
         MarkSentRejects, dbase
    <3>2. QED
      BY <2>2, <3>1
  <2>4. CASE LadderStep(p)
    BY <1>4, <2>1, <2>4, SlotLeavesADriver
  <2>5. CASE OpenCase(p) /\ p \in Cases
    BY <2>2, <2>5, Kinds DEF OpenCase
  <2>6. CASE ScheduleFirstAttempt(p) /\ p \in Cases
    <3>1. PICK r : r = (IF findAttempt(p, 1) THEN attempt[p][1] ELSE "PENDING")
      OBVIOUS
    <3>2. attempt' = [attempt EXCEPT ![p][1] = r]
      BY <2>6, <3>1, Zenon DEF ScheduleFirstAttempt, createAttempt
    <3>3. \A n \in Rungs : attempt'[c][n] = IF c = p /\ n = 1 THEN r ELSE attempt[c][n]
      BY <1>1, <1>3, <2>6, <3>2, CellUpdated DEF RowsTyped
    <3>4. CASE c # p
      BY <1>1, <1>2, <1>4, <2>1, <2>6, <3>3, <3>4, Kinds, DriverStays
    <3>5. CASE c = p /\ ~findAttempt(p, 1)
      BY <1>3, <1>4, <3>1, <3>3, <3>5 DEF Driven
    <3>6. CASE c = p /\ findAttempt(p, 1)
      <4>1. \A n \in Rungs : attempt'[c][n] = attempt[c][n]
        BY <3>1, <3>3, <3>6
      <4>2. \A l \in Ladders : TopSlot(c, l) => TopSlot(c, l)'
        <5>1. \A n \in Rungs : n < MaxRung => n + 1 \in Rungs
          BY DEF Rungs, MaxRung
        <5>2. \A l \in Ladders : at'[l] = at[l] /\ on'[l] = on[l] /\ rung'[l] = rung[l]
          BY <1>1, <2>6, Kinds DEF Still
        <5>3. QED
          BY <1>2, <4>1, <5>1, <5>2 DEF TopSlot, findAttempt
      <4>3. QED
        BY <1>4, <2>1, <3>6, <4>1, <4>2 DEF Driven
    <3>7. QED
      BY <3>4, <3>5, <3>6
  <2>7. CASE PostStep(p) \/ CaptureStep(p)
    <3>1. p \notin Cases /\ p \notin Ladders
      BY <2>7, Kinds DEF PostStep, CaptureStep
    <3>2. attempt' = attempt
      BY <2>7 DEF PostStep, submitPaymentUpdate, ValidateToken, MarkUsed, CompleteRecovery,
         SendRecovered, CaptureStep, handlePaymentCaptured, FindOpenCase, NoOpenCase,
         CompleteOrganic, HandlerReruns, dbase
    <3>3. QED
      BY <2>2, <3>1, <3>2
  <2>8. CASE Abandon(p)
    <3>1. attempt' = attempt /\ at[p] # "idle"
      BY <2>8 DEF Abandon, dbase
    <3>2. p = c => at[p] # "attempt"
      BY <2>8, <3>1 DEF BreaksOffAtNextRung, Grounded
    <3>3. p \in Ladders => at[p] # "next" \/ on[p] # c
      BY <2>8 DEF BreaksOffAtNextRung
    <3>4. QED
      BY <1>1, <1>2, <1>4, <2>1, <3>1, <3>2, <3>3, DriverStays
  <2>9. QED
    BY <2>3, <2>4, <2>5, <2>6, <2>7, <2>8 DEF StepOf, CaseStep
<1>7. QED
  BY <1>5, <1>6

(* For any number of cases, slots and customers, whatever errs or races    *)
(* and however old the copy a slot works on: a step after which an open    *)
(* case has nothing left to take it further is a call that breaks off, by  *)
(* a death or an uncaught rejection, before the handler's createAttempt or *)
(* between a slot's markAttemptExecuted and the statement after it.        *)
THEOREM CasesAreNotStranded == Spec => OnlyAbandonStrands
<1> DEFINE Inv == TypeOK /\ Roles /\ Ordered /\ Grounded /\ Halting
<1>1. Init => Ordered /\ Halting
  BY Kinds DEF Init, Ordered, LadderAtWork, Climbing, LadderOrder, Executed, Rungs, MaxRung, Halting
<1>2. Spec => []Inv
  BY <1>1, TypeInit, TypeStep, OrderedStep, GroundedInit, GroundedStep, HaltingStep, PTL DEF Spec
<1>3. ASSUME Inv, [Next]_vars
      PROVE  [\A c \in Cases : Stranded(c)' =>
                Stranded(c) \/ \E p \in Procs : BreaksOffAtNextRung(p, c)]_vars
  <2>1. CASE Tick \/ UNCHANGED vars
    BY <2>1 DEF Tick, vars, dbase, procs, Stranded, Driven, TopSlot, findAttempt
  <2>2. ASSUME NEW q \in Procs, StepOf(q), NEW c \in Cases, Stranded(c)'
        PROVE  Stranded(c) \/ \E p \in Procs : BreaksOffAtNextRung(p, c)
    BY <1>3, <2>2, StepLeavesADriver
  <2>3. QED
    BY <1>3, <2>1, <2>2, Steps
<1>4. QED
  BY <1>2, <1>3, PTL DEF Spec, OnlyAbandonStrands

(***************************************************************************)
(* The steps of Dunning.                                                   *)
(***************************************************************************)

(* What Dunning sees of the rows.                                          *)
Statuses == [c \in Cases |-> case[c].status]

Heights == [c \in Cases |-> Cardinality(Rows(c))]

Reminders == [c \in Cases |-> [n \in Rungs |-> Len(delivered[c][n])]]

(* A statement is one step of Dunning, or none.                            *)
Allowed ==
    \/ UNCHANGED <<Statuses, Heights, Reminders>>
    \/ \E c \in Cases :
          \/ /\ Statuses[c] = "NONE"
             /\ Statuses' = [Statuses EXCEPT ![c] = "OPEN"]
             /\ UNCHANGED <<Heights, Reminders>>
          \/ /\ Statuses[c] # "NONE" /\ Heights[c] < MaxRung
             /\ Heights' = [Heights EXCEPT ![c] = @ + 1]
             /\ UNCHANGED <<Statuses, Reminders>>
          \/ /\ Statuses[c] # "NONE"
             /\ Statuses' = [Statuses EXCEPT ![c] = "RECOVERED"]
             /\ UNCHANGED <<Heights, Reminders>>
          \/ /\ Statuses[c] # "NONE" /\ Heights[c] = MaxRung
             /\ Statuses' = [Statuses EXCEPT ![c] = "FAILED"]
             /\ UNCHANGED <<Heights, Reminders>>
          \/ \E n \in 1..MaxRung :
                /\ n <= Heights[c] /\ Reminders[c][n] = 0
                /\ Reminders' = [Reminders EXCEPT ![c][n] = 1]
                /\ UNCHANGED <<Statuses, Heights>>

LEMMA AllowedIsDunning == Allowed => [Promise!Next]_(Promise!vars)
  BY DEF Allowed, Statuses, Heights, Reminders, Rows, Exists, Promise!Next, Promise!vars,
         Promise!Open, Promise!ClimbOne, Promise!Remind, Promise!Recover, Promise!GiveUp

LEMMA SameStatuses ==
    ASSUME \A c \in Cases : case'[c].status = case[c].status
    PROVE  Statuses' = Statuses
  BY DEF Statuses

LEMMA SameHeights ==
    ASSUME \A c \in Cases, n \in Rungs : Exists(c, n)' <=> Exists(c, n)
    PROVE  Heights' = Heights
<1>1. \A c \in Cases : Rows(c)' = Rows(c)
  BY DEF Rows
<1>2. QED
  BY <1>1 DEF Heights

LEMMA SameReminders == ASSUME delivered' = delivered PROVE Reminders' = Reminders
  BY DEF Reminders

LEMMA StatusWritten ==
    ASSUME RowsTyped, NEW c \in Cases, NEW r, case' = [case EXCEPT ![c] = r]
    PROVE  Statuses' = [Statuses EXCEPT ![c] = r.status]
  BY DEF RowsTyped, Statuses

LEMMA RungsCount == IsFiniteSet(Rungs) /\ Cardinality(Rungs) = MaxRung
<1>1. 1 \in Int /\ 3 \in Int
  OBVIOUS
<1>2. IsFiniteSet(1..3) /\ Cardinality(1..3) = IF 1 > 3 THEN 0 ELSE 3 - 1 + 1
  BY <1>1, FS_Interval, Zenon
<1>3. QED
  BY <1>2 DEF Rungs, MaxRung

(* The rungs that exist are the lowest ones.                               *)
LEMMA HeightTyped ==
    ASSUME NEW c \in Cases
    PROVE  IsFiniteSet(Rows(c)) /\ Cardinality(Rows(c)) \in Nat /\ Heights[c] = Cardinality(Rows(c))
<1>1. IsFiniteSet(Rungs)
  BY RungsCount
<1>2. IsFiniteSet(Rows(c))
  BY <1>1, FS_Subset DEF Rows
<1>3. QED
  BY <1>2, FS_CardinalityType DEF Heights

LEMMA HeightReached ==
    ASSUME LadderOrder, NEW c \in Cases, NEW n \in Rungs, Exists(c, n)
    PROVE  n <= Heights[c] /\ (n = MaxRung => Heights[c] = MaxRung)
<1>1. 1..n \subseteq Rows(c) /\ Rows(c) \subseteq Rungs
  <2>1. \A m \in 1..(MaxRung - 1) : Exists(c, m + 1) => Exists(c, m)
    BY DEF LadderOrder, Executed, Exists
  <2>2. n \in {1, 2, 3} /\ Rungs = {1, 2, 3} /\ MaxRung - 1 = 2
    BY DEF Rungs, MaxRung
  <2>3. (Exists(c, 3) => Exists(c, 2)) /\ (Exists(c, 2) => Exists(c, 1))
    BY <2>1, <2>2
  <2>4. QED
    BY <2>2, <2>3 DEF Rows
<1>2. Cardinality(1..n) = n /\ n \in Nat
  BY FS_Interval DEF Rungs, MaxRung
<1>3. IsFiniteSet(Rungs) /\ Cardinality(Rungs) = MaxRung
  BY RungsCount
<1>4. Cardinality(1..n) <= Cardinality(Rows(c))
  BY <1>1, HeightTyped, FS_Subset
<1>5. Cardinality(Rows(c)) <= Cardinality(Rungs)
  BY <1>1, <1>3, FS_Subset
<1>6. QED
  BY <1>2, <1>3, <1>4, <1>5, HeightTyped DEF MaxRung

LEMMA ClimbsOne ==
    ASSUME RowsTyped, NEW c \in Cases, NEW n \in Rungs, createAttempt(c, n), ~Exists(c, n)
    PROVE  Heights[c] < MaxRung /\ Heights' = [Heights EXCEPT ![c] = @ + 1]
<1>1. Rows(c)' = Rows(c) \cup {n} /\ \A d \in Cases \ {c} : Rows(d)' = Rows(d)
  BY NewRung
<1>2. n \notin Rows(c) /\ Rows(c) \cup {n} \subseteq Rungs
  BY DEF Rows
<1>3. Cardinality(Rows(c) \cup {n}) = Cardinality(Rows(c)) + 1
  BY <1>2, HeightTyped, FS_AddElement
<1>4. IsFiniteSet(Rungs) /\ Cardinality(Rungs) = MaxRung
  BY RungsCount
<1>5. Cardinality(Rows(c) \cup {n}) <= Cardinality(Rungs)
  BY <1>2, <1>4, FS_Subset
<1>6. Heights[c] < MaxRung
  BY <1>3, <1>4, <1>5, HeightTyped DEF MaxRung
<1>7. Heights' = [Heights EXCEPT ![c] = @ + 1]
  BY <1>1, <1>3 DEF Heights
<1>8. QED
  BY <1>6, <1>7

(* A statement that creates the attempt, or finds that it exists.          *)
LEMMA CreatesOrFinds ==
    ASSUME RowsTyped, NEW c \in Cases, NEW n \in Rungs, createAttempt(c, n), Opened(c),
           case' = case, delivered' = delivered
    PROVE  Allowed
<1>1. Statuses' = Statuses /\ Reminders' = Reminders /\ Statuses[c] # "NONE"
  BY SameStatuses, SameReminders DEF Statuses, Opened
<1>2. CASE Exists(c, n)
  <2>1. \A d \in Cases, m \in Rungs : Exists(d, m)' <=> Exists(d, m)
    BY <1>2, NewRung
  <2>2. QED
    BY <1>1, <2>1, SameHeights DEF Allowed
<1>3. CASE ~Exists(c, n)
  BY <1>1, <1>3, ClimbsOne DEF Allowed
<1>4. QED
  BY <1>2, <1>3

(* A statement that mails the attempt's first reminder, or none.           *)
LEMMA MailsOne ==
    ASSUME LinksTyped, LadderOrder, NEW c \in Cases, NEW n \in Rungs, Exists(c, n),
           delivered[c][n] = <<>>, NEW t,
           delivered' = [delivered EXCEPT ![c][n] = Append(@, t)], case' = case, attempt' = attempt
    PROVE  Allowed
<1>1. Statuses' = Statuses /\ Heights' = Heights
  BY SameStatuses, SameHeights DEF Exists
<1>2. n <= Heights[c] /\ n \in 1..MaxRung
  BY HeightReached DEF Rungs
<1>3. PICK q : q = Append(<<>>, t)
  OBVIOUS
<1>4. Len(q) = 1 /\ Len(<<>>) = 0
  BY <1>3
<1>5. delivered' = [delivered EXCEPT ![c][n] = q]
  BY <1>3, Zenon
<1>6. \A d \in Cases, m \in Rungs :
         delivered'[d][m] = IF d = c /\ m = n THEN q ELSE delivered[d][m]
  BY <1>5, CellUpdated DEF LinksTyped
<1>7. \A d \in Cases, m \in Rungs :
         Len(delivered'[d][m]) = IF d = c /\ m = n THEN 1 ELSE Len(delivered[d][m])
  <2>1. ASSUME NEW d \in Cases, NEW m \in Rungs
        PROVE  Len(delivered'[d][m]) = IF d = c /\ m = n THEN 1 ELSE Len(delivered[d][m])
    <3>1. CASE d = c /\ m = n
      <4>1. delivered'[d][m] = q
        BY <1>6, <3>1
      <4>2. Len(delivered'[d][m]) = 1
        BY <1>4, <4>1, Zenon
      <4>3. QED
        BY <3>1, <4>2, Zenon
    <3>2. CASE ~(d = c /\ m = n)
      <4>1. delivered'[d][m] = delivered[d][m]
        BY <1>6, <3>2
      <4>2. Len(delivered'[d][m]) = Len(delivered[d][m])
        BY <4>1, Zenon
      <4>3. QED
        BY <3>2, <4>2
    <3>3. QED
      BY <3>1, <3>2
  <2>2. QED
    BY <2>1
<1>8. Reminders' = [Reminders EXCEPT ![c][n] = 1] /\ Reminders[c][n] = 0
  <2>1. PICK R : R = Reminders
    OBVIOUS
  <2>2. /\ R = [d \in Cases |-> [m \in Rungs |-> R[d][m]]]
        /\ \A d \in Cases, m \in Rungs : R[d][m] = Len(delivered[d][m])
    BY <2>1 DEF Reminders
  <2>3. Reminders' = [d \in Cases |-> [m \in Rungs |-> IF d = c /\ m = n THEN 1 ELSE R[d][m]]]
    BY <1>7, <2>2 DEF Reminders
  <2>4. [R EXCEPT ![c][n] = 1]
          = [d \in Cases |-> [m \in Rungs |-> IF d = c /\ m = n THEN 1 ELSE R[d][m]]]
    BY <2>2
  <2>5. R[c][n] = 0
    BY <1>4, <2>2
  <2>6. QED
    BY <2>1, <2>3, <2>4, <2>5, Zenon
<1>9. QED
  BY <1>1, <1>2, <1>8 DEF Allowed

(* A statement that recovers the case of its process.                      *)
LEMMA RecoversOne ==
    ASSUME RowsTyped, NEW p \in Procs, on[p] \in Cases, Opened(on[p]), NEW via,
           MarkRecovered(p, via), attempt' = attempt, delivered' = delivered
    PROVE  Allowed
<1>1. Heights' = Heights /\ Reminders' = Reminders /\ Statuses[on[p]] # "NONE"
  BY SameHeights, SameReminders DEF Exists, Statuses, Opened
<1>2. PICK r : r = [case[on[p]] EXCEPT !.status = "RECOVERED", !.via = via]
  OBVIOUS
<1>3. case[on[p]] \in CaseRows
  BY DEF RowsTyped
<1>4. r.status = "RECOVERED"
  BY <1>2, <1>3 DEF CaseRows
<1>5. case' = [case EXCEPT ![on[p]] = r]
  BY <1>2, Zenon DEF MarkRecovered
<1>6. Statuses' = [Statuses EXCEPT ![on[p]] = "RECOVERED"]
  BY <1>4, <1>5, StatusWritten
<1>7. QED
  BY <1>1, <1>6 DEF Allowed

(* A statement that Dunning does not see.                                  *)
LEMMA Unseen ==
    ASSUME case' = case, attempt' = attempt, delivered' = delivered
    PROVE  Allowed
  BY SameStatuses, SameHeights, SameReminders DEF Allowed, Exists

(* A statement that writes the status of an attempt that exists.           *)
LEMMA UnseenAttempt ==
    ASSUME RowsTyped, NEW c \in Cases, NEW n \in Rungs, Exists(c, n), NEW r, r # "NONE",
           attempt' = [attempt EXCEPT ![c][n] = r], case' = case, delivered' = delivered
    PROVE  Allowed
<1>1. \A d \in Cases, m \in Rungs :
         attempt'[d][m] = IF d = c /\ m = n THEN r ELSE attempt[d][m]
  BY CellUpdated DEF RowsTyped
<1>2. \A d \in Cases, m \in Rungs : Exists(d, m)' <=> Exists(d, m)
  BY <1>1 DEF Exists
<1>3. QED
  BY <1>2, SameStatuses, SameHeights, SameReminders DEF Allowed

LEMMA SenderIsAllowed ==
    ASSUME TypeOK, Roles, Ordered, Grounded, MayMail, NEW s \in Procs, SenderStep(s)
    PROVE  Allowed
<1>1. LinksTyped /\ s \in Senders /\ attempt' = attempt /\ case' = case
  BY Parts DEF SenderStep, Send, SupersedeActiveTokens, CreateToken, CreateMessageLog,
       SkipDuplicate, ProviderSends, ProviderFails, MarkSent, MarkFailed, MarkMessage,
       MarkSentRejects, dbase
<1>2. CASE ProviderSends(s) \/ ProviderFails(s)
  <2>1. /\ on[s] \in Cases /\ rung[s] \in Rungs /\ Exists(on[s], rung[s])
        /\ delivered[on[s]][rung[s]] = <<>>
    BY <1>1, <1>2, SenderPlace DEF ProviderSends, ProviderFails, Grounded, MayMail
  <2>2. CASE Deliver(s)
    BY <1>1, <2>1, <2>2, MailsOne DEF Deliver, Ordered
  <2>3. CASE delivered' = delivered
    BY <1>1, <2>3, Unseen
  <2>4. QED
    BY <1>2, <2>2, <2>3 DEF ProviderSends, ProviderFails
<1>3. CASE ~(ProviderSends(s) \/ ProviderFails(s))
  <2>1. delivered' = delivered
    BY <1>3 DEF SenderStep, Send, SupersedeActiveTokens, CreateToken, CreateMessageLog,
                SkipDuplicate, MarkSent, MarkFailed, MarkMessage, MarkSentRejects, history
  <2>2. QED
    BY <1>1, <2>1, Unseen
<1>4. QED
  BY <1>2, <1>3

LEMMA CaseIsAllowed ==
    ASSUME TypeOK, Roles, Grounded, NEW c \in Procs, CaseStep(c)
    PROVE  Allowed
<1>1. RowsTyped /\ c \in Cases /\ delivered' = delivered
  BY Parts DEF CaseStep, OpenCase, ScheduleFirstAttempt, history
<1>2. CASE OpenCase(c)
  <2>1. PICK r : r = [case[c] EXCEPT !.status = "OPEN", !.created = now]
    OBVIOUS
  <2>2. case[c] \in CaseRows
    BY <1>1 DEF RowsTyped
  <2>3. r.status = "OPEN"
    BY <2>1, <2>2 DEF CaseRows
  <2>4. /\ attempt' = attempt
        /\ \/ case[c].status = "NONE" /\ case' = [case EXCEPT ![c] = r]
           \/ case' = case
    BY <1>2, <2>1, Zenon DEF OpenCase, findCaseByPaymentEventId
  <2>5. CASE case' = case
    BY <1>1, <2>4, <2>5, Unseen
  <2>6. CASE case[c].status = "NONE" /\ case' = [case EXCEPT ![c] = r]
    <3>1. Statuses' = [Statuses EXCEPT ![c] = "OPEN"] /\ Statuses[c] = "NONE"
      BY <1>1, <2>3, <2>6, StatusWritten DEF Statuses
    <3>2. UNCHANGED <<Heights, Reminders>>
      BY <1>1, <2>4, SameHeights, SameReminders DEF Exists
    <3>3. QED
      BY <1>1, <3>1, <3>2 DEF Allowed
  <2>7. QED
    BY <2>4, <2>5, <2>6
<1>3. CASE ScheduleFirstAttempt(c)
  <2>1. createAttempt(c, 1) /\ case' = case /\ at[c] = "attempt" /\ 1 \in Rungs
    BY <1>3 DEF ScheduleFirstAttempt, Rungs, MaxRung
  <2>2. Opened(c)
    BY <1>1, <2>1, Kinds DEF Grounded
  <2>3. QED
    BY <1>1, <2>1, <2>2, CreatesOrFinds
<1>4. QED
  BY <1>2, <1>3 DEF CaseStep

LEMMA SlotIsAllowed ==
    ASSUME TypeOK, Roles, Ordered, Grounded, NEW l \in Procs, LadderStep(l)
    PROVE  Allowed
<1>1. RowsTyped /\ l \in Ladders /\ l \in Senders /\ delivered' = delivered
  BY Parts, Kinds DEF LadderStep, Climb, Halt, MarkAttemptExecuted, ScheduleNextRung,
                      ExhaustLadder, PickDueAttempt, history
<1>2. CASE Climb(l)
  <2>1. on[l] \in Cases /\ rung[l] \in Rungs /\ Exists(on[l], rung[l]) /\ Opened(on[l])
    BY <1>1, <1>2, SenderPlace DEF Climb, Halt, MarkAttemptExecuted, ScheduleNextRung,
                                   ExhaustLadder, Grounded
  <2>2. CASE Halt(l) \/ MarkAttemptExecuted(l)
    <3>1. PICK r \in {"FAILED", "SUCCESS"} :
             attempt' = [attempt EXCEPT ![on[l]][rung[l]] = r] /\ case' = case
      BY <2>2 DEF Halt, MarkAttemptExecuted
    <3>2. QED
      BY <1>1, <2>1, <3>1, UnseenAttempt
  <2>3. CASE ScheduleNextRung(l)
    <3>1. createAttempt(on[l], rung[l] + 1) /\ case' = case /\ rung[l] + 1 \in Rungs
      BY <2>1, <2>3 DEF ScheduleNextRung, Rungs, MaxRung
    <3>2. QED
      BY <1>1, <2>1, <3>1, CreatesOrFinds
  <2>4. CASE ExhaustLadder(l)
    <3>1. PICK r : r = [case[on[l]] EXCEPT !.status = "FAILED"]
      OBVIOUS
    <3>2. case[on[l]] \in CaseRows
      BY <1>1, <2>1 DEF RowsTyped
    <3>3. r.status = "FAILED"
      BY <3>1, <3>2 DEF CaseRows
    <3>4. case' = [case EXCEPT ![on[l]] = r] /\ attempt' = attempt /\ rung[l] = MaxRung
      BY <2>4, <3>1, Zenon DEF ExhaustLadder
    <3>5. Statuses' = [Statuses EXCEPT ![on[l]] = "FAILED"] /\ Statuses[on[l]] # "NONE"
      BY <1>1, <2>1, <3>3, <3>4, StatusWritten DEF Statuses, Opened
    <3>6. Heights[on[l]] = MaxRung
      BY <2>1, <3>4, HeightReached DEF Ordered
    <3>7. UNCHANGED <<Heights, Reminders>>
      BY <1>1, <3>4, SameHeights, SameReminders DEF Exists
    <3>8. QED
      BY <2>1, <3>5, <3>6, <3>7 DEF Allowed
  <2>5. QED
    BY <1>2, <2>2, <2>3, <2>4 DEF Climb
<1>3. CASE ~Climb(l)
  BY <1>1, <1>3, Unseen DEF LadderStep, PickDueAttempt, dbase
<1>4. QED
  BY <1>2, <1>3

LEMMA CustomerIsAllowed ==
    ASSUME TypeOK, Roles, Grounded, NEW p \in Procs, PostStep(p) \/ CaptureStep(p)
    PROVE  Allowed
<1>1. RowsTyped /\ attempt' = attempt /\ delivered' = delivered
  BY Parts DEF PostStep, submitPaymentUpdate, ValidateToken, MarkUsed, CompleteRecovery,
               SendRecovered, CaptureStep, handlePaymentCaptured, FindOpenCase, NoOpenCase,
               CompleteOrganic, HandlerReruns, dbase, history
<1>2. \/ case' = case
      \/ on[p] \in Cases /\ \E via \in {"LINK", "ORGANIC"} : MarkRecovered(p, via)
  BY DEF PostStep, submitPaymentUpdate, ValidateToken, MarkUsed, CompleteRecovery,
         SendRecovered, CaptureStep, handlePaymentCaptured, FindOpenCase, NoOpenCase,
         CompleteOrganic, HandlerReruns, dbase, Roles, PostRole, CaptureRole
<1>3. CASE case' = case
  BY <1>1, <1>3, Unseen
<1>4. ASSUME on[p] \in Cases, NEW via \in {"LINK", "ORGANIC"}, MarkRecovered(p, via)
      PROVE  Allowed
  <2>1. Opened(on[p])
    BY <1>4 DEF Grounded
  <2>2. QED
    BY <1>1, <1>4, <2>1, RecoversOne
<1>5. QED
  BY <1>2, <1>3, <1>4

Refining == TypeOK /\ Roles /\ Reminding /\ Ordered /\ Grounded

LEMMA RefiningInvariant == Spec => []Refining
<1>1. Init => Reminding /\ Ordered
  BY Kinds DEF Init, Reminding, MayMail, AtMostOneReminder, Ordered, LadderAtWork, Climbing,
               LadderOrder, Executed, Rungs, MaxRung
<1>2. QED
  BY <1>1, TypeInit, TypeStep, RemindingStep, OrderedStep, GroundedInit, GroundedStep, PTL
  DEF Spec, Refining

LEMMA NextIsAllowed == Refining /\ [Next]_vars => Allowed
<1> SUFFICES ASSUME Refining, [Next]_vars PROVE Allowed
  OBVIOUS
<1>1. CASE Tick \/ UNCHANGED vars
  BY <1>1, Unseen DEF Tick, vars, dbase, history
<1>2. ASSUME NEW p \in Procs, StepOf(p) PROVE Allowed
  <2>1. CASE Abandon(p)
    BY <2>1, Unseen DEF Abandon, dbase, history
  <2>2. CASE ~Abandon(p)
    BY <1>2, <2>2, SenderIsAllowed, CaseIsAllowed, SlotIsAllowed, CustomerIsAllowed, Zenon
    DEF StepOf, Refining, Reminding
  <2>3. QED
    BY <2>1, <2>2
<1>3. QED
  BY <1>1, <1>2, Steps

LEMMA InitIsDunning == Init => Promise!Init
<1> SUFFICES ASSUME Init PROVE Promise!Init
  OBVIOUS
<1>1. \A c \in Cases : {n \in Rungs : attempt[c][n] # "NONE"} = {}
  BY DEF Init
<1>2. Cardinality({}) = 0
  BY FS_EmptySet
<1>3. QED
  BY <1>1, <1>2 DEF Init, Promise!Init, Rungs

(* Every statement of handlers, ladder slots and customers is a step of    *)
(* Dunning or none: the rows keep the promise to merchant and customer.    *)
THEOREM DunningIsImplemented == Spec => ImplementsDunning
<1>1. QED
  BY InitIsDunning, NextIsAllowed, AllowedIsDunning, RefiningInvariant, PTL
  DEF Spec, ImplementsDunning, Promise!Spec
=============================================================================
