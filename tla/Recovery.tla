------------------------------ MODULE Recovery ------------------------------
(***************************************************************************)
(* The recovery of one customer's failed payments: cases, their ladder of  *)
(* at most three attempts, the reminder of each attempt, and the payment-  *)
(* update links the reminders carry.  Four kinds of process share these    *)
(* rows, one database statement at a time:                                 *)
(*   - the payment.failed handler of each case's event (the process is     *)
(*     named by the case: EventProcessing shows there is at most one);     *)
(*   - ladder slots of the workers, each running one due attempt;          *)
(*   - POSTs of the payment-update page by the customer;                   *)
(*   - payment.captured handlers.                                          *)
(* Time is counted in units of 24 hours.                                   *)
(***************************************************************************)
EXTENDS Naturals, Sequences, FiniteSets

CONSTANTS
    Cases,      \* payment.failed events, each the id of its case
    Ladders,    \* worker slots that run due attempts
    Posts,      \* concurrent payment-update POSTs
    Captures,   \* payment.captured events of the same customer
    Reachable,  \* cases whose customer left a phone or an email
    NoCase,     \* what an idle process works on
    MaxRuns,    \* bound: runs of the payment.failed handlers, in all
    MaxNow,     \* bound: the clock
    MaxFaults   \* bound: crashes, rejected statements and provider errors

Senders == Cases \cup Ladders
Procs == Senders \cup Posts \cup Captures

ASSUME ProcsAssumption ==
    /\ Cases \cap (Ladders \cup Posts \cup Captures) = {}
    /\ Ladders \cap (Posts \cup Captures) = {}
    /\ Posts \cap Captures = {}
ASSUME ReachableAssumption == Reachable \subseteq Cases
ASSUME NoCaseAssumption == NoCase \notin Cases
ASSUME FiniteAssumption == IsFiniteSet(Posts)
ASSUME BoundsAssumption == MaxRuns \in Nat /\ MaxNow \in Nat /\ MaxFaults \in Nat

MaxRung == 3                            \* MAX_ATTEMPTS
Rungs == 1..MaxRung
ScheduleDays == <<0, 1, 3>>             \* ATTEMPT_SCHEDULE_HOURS
TTL == 3                                \* DEFAULT_TTL_HOURS
NoLink == 0

VARIABLES
    now,        \* the clock
    case,       \* RecoveryCase rows: status, recoveryAttribution, createdAt
    order,      \* the cases in the order they were created
    attempt,    \* RecoveryAttempt.status per case and rung
    log,        \* MessageLog.status per case and rung
    tokens,     \* PaymentUpdateToken rows, in order of creation
    at,         \* where each process is
    on,         \* the case each process works on
    rung,       \* the attempt number each sender works on
    link,       \* the token a sender will mail or a POST consumes
    clock,      \* the time a sender read before it superseded
    runs,       \* payment.failed handlers started so far
    faults,     \* faults so far
    delivered,  \* history: the links mailed for each attempt
    wins,       \* history: the recoveries written to each case, by whom
    thanked     \* history: PAYMENT_RECOVERED messages sent for each case

dbase == <<case, order, attempt, log, tokens>>
procs == <<at, on, rung, link, clock>>
counts == <<now, runs, faults>>
history == <<delivered, wins, thanked>>
vars == <<dbase, procs, counts, history>>

CaseRows == [status : {"NONE", "OPEN", "RECOVERED", "FAILED"},
             via : {"none", "LINK", "ORGANIC"},
             created : Nat]
TokenRows == [case : Cases, minter : Senders, expires : Nat,
              used : BOOLEAN, superseded : BOOLEAN]
Places == {"idle", "halt", "attempt", "supersede", "mint", "log", "send", "sent",
           "unsent", "execute", "next", "claim", "recover", "thank", "done"}

TypeOK ==
    /\ now \in Nat
    /\ case \in [Cases -> CaseRows]
    /\ order \in Seq(Cases)
    /\ attempt \in [Cases -> [Rungs -> {"NONE", "PENDING", "SUCCESS", "FAILED"}]]
    /\ log \in [Cases -> [Rungs -> {"NONE", "PENDING", "SENT", "FAILED"}]]
    /\ tokens \in Seq(TokenRows)
    /\ at \in [Procs -> Places]
    /\ on \in [Procs -> Cases \cup {NoCase}]
    /\ rung \in [Procs -> {0} \cup Rungs]
    /\ link \in [Procs -> {NoLink} \cup DOMAIN tokens]
    /\ clock \in [Procs -> Nat]
    /\ runs \in Nat
    /\ faults \in Nat
    /\ delivered \in [Cases -> [Rungs -> Seq({NoLink} \cup DOMAIN tokens)]]
    /\ wins \in [Cases -> Seq([by : Posts \cup Captures, link : {NoLink} \cup DOMAIN tokens])]
    /\ thanked \in [Cases -> Nat]

Init ==
    /\ now = 0
    /\ case = [c \in Cases |-> [status |-> "NONE", via |-> "none", created |-> 0]]
    /\ order = <<>>
    /\ attempt = [c \in Cases |-> [n \in Rungs |-> "NONE"]]
    /\ log = [c \in Cases |-> [n \in Rungs |-> "NONE"]]
    /\ tokens = <<>>
    /\ at = [p \in Procs |-> "idle"]
    /\ on = [p \in Procs |-> NoCase]
    /\ rung = [p \in Procs |-> 0]
    /\ link = [p \in Procs |-> NoLink]
    /\ clock = [p \in Procs |-> 0]
    /\ runs = 0
    /\ faults = 0
    /\ delivered = [c \in Cases |-> [n \in Rungs |-> <<>>]]
    /\ wins = [c \in Cases |-> <<>>]
    /\ thanked = [c \in Cases |-> 0]

----------------------------------------------------------------------------
(* Moving a process.                                                       *)

Goto(p, place) ==
    /\ at' = [at EXCEPT ![p] = place]
    /\ UNCHANGED <<on, rung, link, clock>>

Leave(p, place) ==
    /\ at' = [at EXCEPT ![p] = place]
    /\ on' = [on EXCEPT ![p] = NoCase]
    /\ rung' = [rung EXCEPT ![p] = 0]
    /\ link' = [link EXCEPT ![p] = NoLink]
    /\ clock' = [clock EXCEPT ![p] = 0]

Fault == faults < MaxFaults /\ faults' = faults + 1

Tick ==
    /\ now < MaxNow
    /\ now' = now + 1
    /\ UNCHANGED <<dbase, procs, runs, faults, history>>

----------------------------------------------------------------------------
(* handlePaymentFailed: the case and its first attempt.  A unique          *)
(* violation returns the existing row, so a re-run passes through.         *)

findCaseByPaymentEventId(c) == case[c].status # "NONE"
findAttempt(c, n) == attempt[c][n] # "NONE"

createAttempt(c, n) ==
    attempt' = [attempt EXCEPT ![c][n] = IF findAttempt(c, n) THEN @ ELSE "PENDING"]

OpenCase(c) ==
    /\ at[c] = "idle"
    /\ runs < MaxRuns
    /\ runs' = runs + 1
    /\ IF ~findCaseByPaymentEventId(c)
       THEN /\ case' = [case EXCEPT ![c] = [@ EXCEPT !.status = "OPEN", !.created = now]]
            /\ order' = Append(order, c)
       ELSE UNCHANGED <<case, order>>
    /\ at' = [at EXCEPT ![c] = "attempt"]
    /\ on' = [on EXCEPT ![c] = c]
    /\ UNCHANGED <<attempt, log, tokens, rung, link, clock, now, faults, history>>

ScheduleFirstAttempt(c) ==
    /\ at[c] = "attempt"
    /\ createAttempt(c, 1)
    /\ at' = [at EXCEPT ![c] = "supersede"]
    /\ rung' = [rung EXCEPT ![c] = 1]
    /\ UNCHANGED <<case, order, log, tokens, on, link, clock, counts, history>>

----------------------------------------------------------------------------
(* createPaymentUpdateToken: two statements.                               *)

Active(t) == ~tokens[t].used /\ ~tokens[t].superseded /\ tokens[t].expires > now

ActiveFor_Oldest(c) ==
    {t \in DOMAIN tokens :
        /\ tokens[t].case = c /\ Active(t)
        /\ \A u \in 1..(t - 1) : ~(tokens[u].case = c /\ Active(u))}

ActiveFor(c) == {t \in DOMAIN tokens : tokens[t].case = c /\ Active(t)}

SupersedeActiveTokens(s) ==
    /\ at[s] = "supersede"
    /\ tokens' = [t \in DOMAIN tokens |->
                    [tokens[t] EXCEPT !.superseded = @ \/ t \in ActiveFor(on[s])]]
    /\ clock' = [clock EXCEPT ![s] = now]
    /\ at' = [at EXCEPT ![s] = "mint"]
    /\ UNCHANGED <<case, order, attempt, log, on, rung, link, counts, history>>

CreateToken(s) ==
    /\ at[s] = "mint"
    /\ tokens' = Append(tokens, [case |-> on[s], minter |-> s,
                                 expires |-> clock[s] + TTL,
                                 used |-> FALSE, superseded |-> FALSE])
    /\ link' = [link EXCEPT ![s] = Len(tokens) + 1]
    /\ clock' = [clock EXCEPT ![s] = 0]
    /\ at' = [at EXCEPT ![s] = "log"]
    /\ UNCHANGED <<case, order, attempt, log, on, rung, counts, history>>

----------------------------------------------------------------------------
(* sendMessage for an attempt.  The partial unique index on                *)
(* recoveryAttemptId lets one sender through.                              *)

EndMessage(s, place) ==
    IF s \in Cases
    THEN Leave(s, "idle")
    ELSE /\ at' = [at EXCEPT ![s] = place]
         /\ link' = [link EXCEPT ![s] = NoLink]
         /\ UNCHANGED <<on, rung, clock>>

AfterMessage_NotExecuted(s) == EndMessage(s, "next")

AfterMessage(s) == EndMessage(s, "execute")

LogIsFree_Always(c, n) == TRUE

LogIsFree(c, n) == log[c][n] = "NONE"

CreateMessageLog(s) ==
    /\ at[s] = "log"
    /\ LogIsFree(on[s], rung[s])
    /\ log' = [log EXCEPT ![on[s]][rung[s]] = "PENDING"]
    /\ Goto(s, IF on[s] \in Reachable THEN "send" ELSE "unsent")
    /\ UNCHANGED <<case, order, attempt, tokens, counts, history>>

SkipDuplicate(s) ==
    /\ at[s] = "log"
    /\ ~LogIsFree(on[s], rung[s])
    /\ AfterMessage(s)
    /\ UNCHANGED <<dbase, counts, history>>

Deliver(s) ==
    delivered' = [delivered EXCEPT ![on[s]][rung[s]] = Append(@, link[s])]

ProviderSends(s) ==
    /\ at[s] = "send"
    /\ Deliver(s)
    /\ Goto(s, "sent")
    /\ UNCHANGED <<dbase, counts, wins, thanked>>

(* The provider call fails, before or after the message went out.          *)
ProviderFails(s) ==
    /\ Fault
    /\ at[s] = "send"
    /\ Deliver(s) \/ UNCHANGED delivered
    /\ Goto(s, "unsent")
    /\ UNCHANGED <<dbase, now, runs, wins, thanked>>

MarkMessage(s, place, result) ==
    /\ at[s] = place
    /\ log' = [log EXCEPT ![on[s]][rung[s]] = result]
    /\ AfterMessage(s)
    /\ UNCHANGED <<case, order, attempt, tokens, counts, history>>

MarkSent_Success(s) == MarkMessage(s, "sent", "SUCCESS")

MarkSent(s) == MarkMessage(s, "sent", "SENT")

MarkSentRejects(s) ==
    /\ Fault
    /\ at[s] = "sent"
    /\ Goto(s, "unsent")
    /\ UNCHANGED <<dbase, now, runs, history>>

MarkFailed(s) == MarkMessage(s, "unsent", "FAILED")

----------------------------------------------------------------------------
(* runDueAttempt.  The poll reads the attempt together with the status its *)
(* case has at that moment; nothing claims the attempt.                    *)

Due(c, n) ==
    /\ attempt[c][n] = "PENDING"
    /\ case[c].created + ScheduleDays[n] <= now

Halts(c) == case[c].status \in {"RECOVERED", "CLOSED"}

PickDueAttempt(l, c, n) ==
    /\ at[l] = "idle"
    /\ Due(c, n)
    /\ at' = [at EXCEPT ![l] = IF Halts(c) THEN "halt"
                               ELSE IF n > 1 THEN "supersede" ELSE "log"]
    /\ on' = [on EXCEPT ![l] = c]
    /\ rung' = [rung EXCEPT ![l] = n]
    /\ UNCHANGED <<dbase, link, clock, counts, history>>

Halt(l) ==
    /\ at[l] = "halt"
    /\ attempt' = [attempt EXCEPT ![on[l]][rung[l]] = "FAILED"]
    /\ Leave(l, "idle")
    /\ UNCHANGED <<case, order, log, tokens, counts, history>>

MarkAttemptExecuted(l) ==
    /\ at[l] = "execute"
    /\ attempt' = [attempt EXCEPT ![on[l]][rung[l]] = "SUCCESS"]
    /\ Goto(l, "next")
    /\ UNCHANGED <<case, order, log, tokens, counts, history>>

ScheduleNextRung(l) ==
    /\ at[l] = "next"
    /\ rung[l] < MaxRung
    /\ createAttempt(on[l], rung[l] + 1)
    /\ Leave(l, "idle")
    /\ UNCHANGED <<case, order, log, tokens, counts, history>>

ExhaustLadder_LeavesOpen(l) ==
    /\ at[l] = "next"
    /\ rung[l] = MaxRung
    /\ Leave(l, "idle")
    /\ UNCHANGED <<dbase, counts, history>>

ExhaustLadder(l) ==
    /\ at[l] = "next"
    /\ rung[l] = MaxRung
    /\ case' = [case EXCEPT ![on[l]].status = "FAILED"]
    /\ Leave(l, "idle")
    /\ UNCHANGED <<order, attempt, log, tokens, counts, history>>

----------------------------------------------------------------------------
(* The customer follows a link: consumeToken, then completeRecovery.       *)

MailedLinks(c) == UNION {{delivered[c][n][i] : i \in DOMAIN delivered[c][n]} : n \in Rungs}

(* An invalid token is refused without a trace.                            *)
ValidateToken(q, t) ==
    /\ at[q] = "idle"
    /\ \E c \in Cases : t \in MailedLinks(c) \ {NoLink}
    /\ Active(t)
    /\ at' = [at EXCEPT ![q] = "claim"]
    /\ link' = [link EXCEPT ![q] = t]
    /\ on' = [on EXCEPT ![q] = tokens[t].case]
    /\ UNCHANGED <<dbase, rung, clock, counts, history>>

Unused_Always(t) == TRUE

Unused(t) == ~tokens[t].used

MarkUsed(q) ==
    /\ at[q] = "claim"
    /\ IF Unused(link[q])
       THEN /\ tokens' = [tokens EXCEPT ![link[q]].used = TRUE]
            /\ Goto(q, "recover")
       ELSE /\ Leave(q, "idle")
            /\ UNCHANGED tokens
    /\ UNCHANGED <<case, order, attempt, log, counts, history>>

MarkRecovered(p, via) ==
    /\ case' = [case EXCEPT ![on[p]] = [@ EXCEPT !.status = "RECOVERED", !.via = via]]
    /\ wins' = [wins EXCEPT ![on[p]] = Append(@, [by |-> p, link |-> link[p]])]

CompleteRecovery(q) ==
    /\ at[q] = "recover"
    /\ MarkRecovered(q, "LINK")
    /\ Goto(q, "thank")
    /\ UNCHANGED <<order, attempt, log, tokens, counts, delivered, thanked>>

(* The PAYMENT_RECOVERED message: its log row is not tied to an attempt,   *)
(* so nothing but the consumed token limits it.                            *)
SendRecovered(q) ==
    /\ at[q] = "thank"
    /\ thanked' = [thanked EXCEPT ![on[q]] = @ + 1]
    /\ Leave(q, "idle")
    /\ UNCHANGED <<dbase, counts, delivered, wins>>

----------------------------------------------------------------------------
(* handlePaymentCaptured: the newest OPEN case of the customer, found by   *)
(* email or phone.                                                         *)

OpenCases ==
    {i \in DOMAIN order : order[i] \in Reachable /\ case[order[i]].status = "OPEN"}

FindOpenCase(k) ==
    /\ at[k] = "idle"
    /\ \E i \in OpenCases :
          /\ \A j \in OpenCases : j <= i
          /\ on' = [on EXCEPT ![k] = order[i]]
    /\ at' = [at EXCEPT ![k] = "recover"]
    /\ UNCHANGED <<dbase, rung, link, clock, counts, history>>

NoOpenCase(k) ==
    /\ at[k] = "idle"
    /\ OpenCases = {}
    /\ Leave(k, "done")
    /\ UNCHANGED <<dbase, counts, history>>

CompleteOrganic(k) ==
    /\ at[k] = "recover"
    /\ MarkRecovered(k, "ORGANIC")
    /\ Leave(k, "done")
    /\ UNCHANGED <<order, attempt, log, tokens, counts, delivered, thanked>>

(* A statement of the processor after the handler rejected: the event is   *)
(* FAILED and the handler runs again (EventProcessing).                    *)
HandlerReruns(k) ==
    /\ Fault
    /\ at[k] = "done"
    /\ Leave(k, "idle")
    /\ UNCHANGED <<dbase, now, runs, history>>

----------------------------------------------------------------------------
(* The process dies, or one of its statements rejects outside the try      *)
(* block of sendMessage: the call ends there (the worker logs it).  An     *)
(* attempt still PENDING is polled again, a failed event may be run again. *)
Abandon(p) ==
    /\ Fault
    /\ at[p] \notin {"idle", "done"}
    /\ Leave(p, "idle")
    /\ UNCHANGED <<dbase, now, runs, history>>

Send(s) ==
    \/ SupersedeActiveTokens(s)
    \/ CreateToken(s)
    \/ CreateMessageLog(s)
    \/ SkipDuplicate(s)
    \/ ProviderSends(s)
    \/ MarkSent(s)
    \/ MarkFailed(s)

Climb(l) ==
    \/ Halt(l)
    \/ MarkAttemptExecuted(l)
    \/ ScheduleNextRung(l)
    \/ ExhaustLadder(l)

(* The handlers, each with all it does.                                    *)

handlePaymentFailed(c) == OpenCase(c) \/ ScheduleFirstAttempt(c) \/ Send(c)

runDueAttempt(l) == Send(l) \/ Climb(l)

submitPaymentUpdate(q) ==
    \/ \E t \in DOMAIN tokens : ValidateToken(q, t)
    \/ MarkUsed(q)
    \/ CompleteRecovery(q)
    \/ SendRecovered(q)

handlePaymentCaptured(k) == FindOpenCase(k) \/ NoOpenCase(k) \/ CompleteOrganic(k)

Next ==
    \/ Tick
    \/ \E c \in Cases : handlePaymentFailed(c)
    \/ \E l \in Ladders : runDueAttempt(l)
    \/ \E l \in Ladders, c \in Cases, n \in Rungs : PickDueAttempt(l, c, n)
    \/ \E q \in Posts : submitPaymentUpdate(q)
    \/ \E k \in Captures : handlePaymentCaptured(k) \/ HandlerReruns(k)
    \/ \E s \in Senders : ProviderFails(s) \/ MarkSentRejects(s)
    \/ \E p \in Procs : Abandon(p)

(* The clock runs, started calls go on, and the workers keep polling: the  *)
(* oldest due attempt is picked first, so none is passed over for ever.    *)
(* Nobody makes the customer follow a link.                                *)
Fairness ==
    /\ WF_vars(Tick)
    /\ \A c \in Cases : WF_vars(ScheduleFirstAttempt(c))
    /\ \A s \in Senders : WF_vars(Send(s))
    /\ \A l \in Ladders : WF_vars(Climb(l))
    /\ \A l \in Ladders, c \in Cases, n \in Rungs : SF_vars(PickDueAttempt(l, c, n))

Spec == Init /\ [][Next]_vars

FairSpec == Spec /\ Fairness

----------------------------------------------------------------------------
(* Properties.                                                             *)

(* However handler re-runs and ladder workers overlap, and whatever fails, *)
(* at most one reminder goes out per attempt.                              *)
AtMostOneReminder ==
    \A c \in Cases, n \in Rungs : Len(delivered[c][n]) <= 1

(* A rung exists only once the one below it was executed (or halted), and  *)
(* the case is given up only from the top of the ladder.                   *)
Executed(c, n) == attempt[c][n] \in {"SUCCESS", "FAILED"}

LadderOrder ==
    \A c \in Cases :
        /\ \A n \in 1..(MaxRung - 1) : attempt[c][n + 1] # "NONE" => Executed(c, n)
        /\ case[c].status = "FAILED" => Executed(c, MaxRung)

(* An open case is never left with nothing to take it further: its handler *)
(* is about to create the first attempt, or an attempt is pending for the  *)
(* poll, or the slot that executed the top rung has not acted on it yet.   *)
(* Racing slots, stale copies and the errors that the code catches never   *)
(* strand a case.  A call that breaks off does, whether its process dies   *)
(* or its statement rejects outside every try block, and only at the next  *)
(* rung: before the handler's createAttempt, or after a slot's             *)
(* markAttemptExecuted and before its createAttempt or updateCaseStatus.   *)
TopSlot(c, l) ==
    /\ at[l] = "next" /\ on[l] = c
    /\ rung[l] < MaxRung => ~findAttempt(c, rung[l] + 1)

Driven(c) ==
    \/ at[c] = "attempt" /\ ~findAttempt(c, 1)
    \/ \E n \in Rungs : attempt[c][n] = "PENDING"
    \/ \E l \in Ladders : TopSlot(c, l)

Stranded(c) == case[c].status = "OPEN" /\ ~Driven(c)

BreaksOffAtNextRung(p, c) == Abandon(p) /\ on[p] = c /\ at[p] \in {"attempt", "next"}

OnlyAbandonStrands ==
    [][\A c \in Cases : Stranded(c)' =>
          Stranded(c) \/ \E p \in Procs : BreaksOffAtNextRung(p, c)]_vars

(* Racing minters can leave several active links to a case, but never two  *)
(* from the same minter: its next mint supersedes its last.                *)
OneActiveLinkPerMinter ==
    \A t, u \in DOMAIN tokens :
        /\ Active(t) /\ Active(u)
        /\ tokens[t].case = tokens[u].case
        /\ tokens[t].minter = tokens[u].minter
        => t = u

(* A link completes at most one recovery, of its own case, and only after  *)
(* it was consumed; a customer is thanked at most once for each.           *)
LinkWins(c) == {i \in DOMAIN wins[c] : wins[c][i].link # NoLink}

LinkWinsOnce ==
    \A c \in Cases :
        /\ thanked[c] <= Cardinality(LinkWins(c))
        /\ \A i \in LinkWins(c) :
              LET t == wins[c][i].link
              IN  /\ tokens[t].used
                  /\ tokens[t].case = c
                  /\ \A d \in Cases : \A j \in LinkWins(d) :
                        wins[d][j].link = t => d = c /\ j = i

(* With no fault every case whose ladder fits the clock's bound ends:      *)
(* recovered, or given up after the last rung.                             *)
LadderFits(c) == case[c].created + ScheduleDays[MaxRung] <= MaxNow

LadderCompletes ==
    \A c \in Cases :
        case[c].status = "OPEN" /\ LadderFits(c) ~> case[c].status # "OPEN"

----------------------------------------------------------------------------
(* What comments of the code say of it.  Each is refuted by a run.         *)

(* recovery-completion.ts: a recovery is real once the case is marked, and *)
(* nothing that happens later may undo it.                                 *)
RecoveryIsKept ==
    [][\A c \in Cases : case[c].status = "RECOVERED" => case'[c].status = "RECOVERED"]_vars

(* router.ts: a customer's first-message link never goes dead.             *)
FirstLinkNeverDead ==
    \A c \in Cases : \A i \in DOMAIN delivered[c][1] :
        LET t == delivered[c][1][i] IN t # NoLink => ~tokens[t].superseded

----------------------------------------------------------------------------
(* The promise to merchant and customer: see Dunning.                      *)

Promise == INSTANCE Dunning WITH
    status <- [c \in Cases |-> case[c].status],
    height <- [c \in Cases |-> Cardinality({n \in Rungs : attempt[c][n] # "NONE"})],
    reminded <- [c \in Cases |-> [n \in Rungs |-> Len(delivered[c][n])]]

(* Every behaviour of handlers, ladder and customer is one Dunning allows. *)
ImplementsDunning == Promise!Spec

============================================================================
