------------------------------ MODULE Dashboard ------------------------------
(***************************************************************************)
(* What a merchant sees of the recovery cases while the engine writes      *)
(* them: the paged case list, a case's timeline, and the figures of the    *)
(* overview and of the analytics page.  The engine's writes are reduced    *)
(* to what these pages select; Recovery models them in full.               *)
(*                                                                         *)
(* A case's id is a number, assigned in any order (a cuid).  Several cases *)
(* may be created in one moment, and one may be inserted with the clock of *)
(* a process that runs a moment late.                                      *)
(***************************************************************************)
EXTENDS Integers, Sequences, SequencesExt, FiniteSets

CONSTANTS
    Cases,          \* ids, a set of positive numbers
    Detailed,       \* the cases that get attempts and reminders, and whose page is opened
    Amounts,        \* what a payment may bring, a set of numbers
    MaxRung,        \* attempts of a case
    PageSize,       \* CASES_PAGE_SIZE
    DayLength,      \* moments of a UTC day
    WindowDays,     \* days of the analytics window
    MaxNow          \* bound: the clock

ASSUME SizesAssumption ==
    /\ Cases \subseteq Nat \ {0} /\ Detailed \subseteq Cases
    /\ {MaxRung, PageSize, DayLength, WindowDays} \subseteq Nat \ {0}
    /\ MaxNow \in Nat
ASSUME AmountsAssumption == Amounts \subseteq Nat

VARIABLES
    now,        \* the clock, in moments
    row,        \* the RecoveryCase rows
    attempts,   \* creation times of a case's attempts, by rung
    messages,   \* its MessageLog rows, in the order of their creation
    undone,     \* history: cases given up after they were recovered
    page,       \* the page that is being looked at
    walk,       \* the walk through the list: filter, cursor, what was listed
    kept,       \* history: cases that matched the filter since the walk began
    detail      \* what a case's page has read

engine == <<now, row, attempts, messages, undone>>
reader == <<page, walk, detail>>
vars == <<engine, reader, kept>>

Never == -1
Moments == 0..MaxNow
Statuses == {"OPEN", "RECOVERED", "FAILED"}
Filters == Statuses \cup {"ALL"}
NoRow == [status |-> "NONE", created |-> Never, recovered |-> Never, paid |-> 0]
Rows == [status : Statuses, created : Moments, recovered : Moments \cup {Never},
         paid : Amounts \cup {0}]

Top == [created |-> Never, id |-> 0]
NoWalk == [filter |-> "ALL", cursor |-> Top, listed |-> <<>>]
NoDetail == [id |-> 0, summary |-> NoRow, attempts |-> <<>>, messages |-> <<>>]

Init ==
    /\ now = 0
    /\ row = [c \in Cases |-> NoRow]
    /\ attempts = [c \in Cases |-> <<>>]
    /\ messages = [c \in Cases |-> <<>>]
    /\ undone = {}
    /\ page = "none"
    /\ walk = NoWalk
    /\ kept = {}
    /\ detail = NoDetail

Existing == {c \in Cases : row[c] # NoRow}

(* What a query's orderBy and the timeline's sort do: the i-th of S is the *)
(* one that i - 1 others precede.  precedes orders S strictly and totally. *)
InOrder(S, precedes) ==
    [i \in 1..Cardinality(S) |->
        CHOOSE x \in S : Cardinality({y \in S : <<y, x>> \in precedes}) = i - 1]

----------------------------------------------------------------------------
(* The engine.                                                             *)

Matches(filter, r) == r # NoRow /\ filter \in {"ALL", r.status}

Write(c, r) ==
    /\ row' = [row EXCEPT ![c] = r]
    /\ kept' = {d \in kept : Matches(walk.filter, row'[d])}
    /\ UNCHANGED reader

Tick ==
    /\ now < MaxNow
    /\ now' = now + 1
    /\ UNCHANGED <<row, attempts, messages, undone, reader, kept>>

createCase(c, created) ==
    /\ row[c] = NoRow
    /\ Write(c, [status |-> "OPEN", created |-> created, recovered |-> Never, paid |-> 0])
    /\ UNCHANGED <<now, attempts, messages, undone>>

(* The ladder goes by the status it polled: a rung may be created after    *)
(* the case was recovered.                                                 *)
createAttempt(c) ==
    /\ row[c] # NoRow
    /\ Len(attempts[c]) < MaxRung
    /\ attempts' = [attempts EXCEPT ![c] = Append(@, now)]
    /\ UNCHANGED <<now, row, messages, undone, reader, kept>>

(* A reminder polled before the customer paid goes out after.              *)
createMessageLog(c, n) ==
    /\ n \in DOMAIN attempts[c]
    /\ \A i \in DOMAIN messages[c] : messages[c][i].rung # n
    /\ messages' = [messages EXCEPT ![c] = Append(@, [rung |-> n, at |-> now])]
    /\ UNCHANGED <<now, row, attempts, undone, reader, kept>>

(* By id, from a link or from a captured payment: a case recovered before  *)
(* is recovered anew, and gets the later payment's time and amount.        *)
markRecovered(c, amount) ==
    /\ row[c] # NoRow
    /\ Write(c, [row[c] EXCEPT !.status = "RECOVERED", !.recovered = now, !.paid = amount])
    /\ undone' = undone \ {c}
    /\ UNCHANGED <<now, attempts, messages>>

(* The end of the ladder: by id, whatever the status has become.           *)
updateCaseStatus(c) ==
    /\ row[c] # NoRow
    /\ Write(c, [row[c] EXCEPT !.status = "FAILED"])
    /\ undone' = IF row[c].status = "RECOVERED" THEN undone \cup {c} ELSE undone
    /\ UNCHANGED <<now, attempts, messages>>

----------------------------------------------------------------------------
(* The list.                                                               *)

Newer(k, l) == k.created > l.created \/ (k.created = l.created /\ k.id > l.id)

Key(c) == [created |-> row[c].created, id |-> c]

Below_NoTies(cursor) == {c \in Existing : cursor = Top \/ Key(c).created < cursor.created}

(* The where-clause of the keyset: none on the first page, or when the     *)
(* cursor cannot be decoded.                                               *)
Below(cursor) == {c \in Existing : cursor = Top \/ Newer(cursor, Key(c))}

Found(filter, cursor) ==
    LET found == {c \in Below(cursor) : Matches(filter, row[c])}
    IN  InOrder(found, {p \in found \X found : Newer(Key(p[1]), Key(p[2]))})

(* take: limit + 1 tells whether there is more.                            *)
listCases(filter, cursor, listed) ==
    LET found == Found(filter, cursor)
        more == Len(found) > PageSize
        shown == SubSeq(found, 1, IF more THEN PageSize ELSE Len(found))
    IN  /\ walk' = [filter |-> filter, listed |-> listed \o shown,
                    cursor |-> IF more THEN Key(Last(shown)) ELSE Top]
        /\ page' = IF more THEN "list" ELSE "end"

OpenList(filter) ==
    /\ page = "none"
    /\ listCases(filter, Top, <<>>)
    /\ kept' = {c \in Existing : Matches(filter, row[c])}
    /\ UNCHANGED <<engine, detail>>

(* The link carries the filter and the cursor.                             *)
LoadMore ==
    /\ page = "list"
    /\ listCases(walk.filter, walk.cursor, walk.listed)
    /\ UNCHANGED <<engine, detail, kept>>

----------------------------------------------------------------------------
(* A case's page: the row, its attempts and its messages are three         *)
(* queries.                                                                *)

OpenCasePage(c) ==
    /\ page = "none"
    /\ row[c] # NoRow
    /\ page' = "attempts"
    /\ detail' = [NoDetail EXCEPT !.id = c, !.summary = row[c]]
    /\ UNCHANGED <<engine, walk, kept>>

ReadAttempts ==
    /\ page = "attempts"
    /\ page' = "messages"
    /\ detail' = [detail EXCEPT !.attempts = attempts[detail.id]]
    /\ UNCHANGED <<engine, walk, kept>>

ReadMessages ==
    /\ page = "messages"
    /\ page' = "timeline"
    /\ detail' = [detail EXCEPT !.messages = messages[detail.id]]
    /\ UNCHANGED <<engine, walk, kept>>

ClosePage ==
    /\ page \in {"list", "end", "timeline"}
    /\ page' = "none"
    /\ walk' = NoWalk
    /\ kept' = {}
    /\ detail' = NoDetail
    /\ UNCHANGED engine

(* By time, then by kind; the sort is stable, so events of one kind keep   *)
(* the order in which they were added.                                     *)
Earlier_ByTimeOnly(x, y) ==
    \/ x.at < y.at
    \/ x.at = y.at /\ x.kind > y.kind
    \/ x.at = y.at /\ x.kind = y.kind /\ x.added < y.added

Earlier(x, y) ==
    \/ x.at < y.at
    \/ x.at = y.at /\ x.kind < y.kind
    \/ x.at = y.at /\ x.kind = y.kind /\ x.added < y.added

(* kind: 0 the case, 1 an attempt, 2 a message, 3 the recovery.            *)
Event(at, kind, rung, added) == [at |-> at, kind |-> kind, rung |-> rung, added |-> added]

EventsOf(d) ==
    {Event(d.summary.created, 0, 0, 0)}
    \cup {Event(d.attempts[n], 1, n, n) : n \in DOMAIN d.attempts}
    \cup {Event(d.messages[i].at, 2, d.messages[i].rung, i) : i \in DOMAIN d.messages}
    \cup IF d.summary.recovered = Never THEN {} ELSE {Event(d.summary.recovered, 3, 0, 0)}

buildTimeline(d) ==
    InOrder(EventsOf(d), {p \in EventsOf(d) \X EventsOf(d) : Earlier(p[1], p[2])})

----------------------------------------------------------------------------
(* The figures.  A page's queries run in parallel; here they see one state.*)

(* A sum of natural numbers, unit by unit.  It is the fold MapThenSumSet   *)
(* (MCWeb compares them), in a form that proofs can take apart.            *)
Units(f) == UNION {{x} \X (1..f[x]) : x \in DOMAIN f}
SumOf(f) == Cardinality(Units(f))

TotalOf(S) == SumOf([c \in S |-> row[c].paid])
With(status) == {c \in Existing : row[c].status = status}

(* Math.round of a percentage with one decimal, as tenths of a percent.    *)
RecoveryRate(recovered, total) ==
    IF total = 0 THEN 0 ELSE (2000 * recovered + total) \div (2 * total)

getDashboardStats ==
    [total |-> Cardinality(Existing),
     open |-> Cardinality(With("OPEN")),
     rate |-> RecoveryRate(Cardinality(With("RECOVERED")), Cardinality(Existing)),
     revenue |-> TotalOf(With("RECOVERED"))]

Day(t) == t \div DayLength
windowStart_Late == DayLength * (Day(now) - (WindowDays - 2))
windowStart == DayLength * (Day(now) - (WindowDays - 1))
WindowDay(i) == Day(windowStart) + i

(* The rows that the revenue query groups under the window's i-th day.     *)
PaidOn(i) == {c \in Existing :
    /\ row[c].recovered # Never
    /\ row[c].recovered >= windowStart /\ Day(row[c].recovered) = WindowDay(i)}

(* A point per day of the window, zero where a query returned none.        *)
getAnalytics ==
    LET days == 0..(WindowDays - 1)
        created(i) == {c \in Existing :
            row[c].created >= windowStart /\ Day(row[c].created) = WindowDay(i)}
    IN  [caseTrend |-> [i \in days |-> Cardinality(created(i))],
         revenueTrend |-> [i \in days |-> TotalOf(PaidOn(i))],
         rate |-> RecoveryRate(Cardinality(With("RECOVERED")), Cardinality(Existing))]

----------------------------------------------------------------------------
Next ==
    \/ Tick
    \/ \E c \in Cases, t \in {now, now - 1} \cap Nat : createCase(c, t)
    \/ \E c \in Cases, a \in Amounts : markRecovered(c, a)
    \/ \E c \in Cases : updateCaseStatus(c)
    \/ \E c \in Detailed : createAttempt(c) \/ OpenCasePage(c)
    \/ \E c \in Detailed, n \in 1..MaxRung : createMessageLog(c, n)
    \/ \E f \in Filters : OpenList(f)
    \/ LoadMore \/ ReadAttempts \/ ReadMessages \/ ClosePage

Spec == Init /\ [][Next]_vars

----------------------------------------------------------------------------
(* Properties.                                                             *)

(* A walk through the list shows no case twice, and newer cases first; one *)
(* that reaches its end has shown every case that was there at its start   *)
(* and has matched the filter ever since: although cases arrive, with tied *)
(* or earlier times, and change their status between its pages.            *)
WalkIsExact ==
    /\ \A i, j \in DOMAIN walk.listed :
          i < j => Newer(Key(walk.listed[i]), Key(walk.listed[j]))
    /\ page = "end" => kept \subseteq Range(walk.listed)

(* Whatever was written between the page's three queries, rungs created    *)
(* after the recovery included: the timeline begins with the case,         *)
(* attempts climb, and no attempt follows a reminder of its own or of a    *)
(* later rung.  A reminder may be shown without its attempt, when both     *)
(* were written after the attempts were read; then it comes after every    *)
(* attempt that is shown.                                                  *)
TimelineIsCausal ==
    page = "timeline" =>
        LET feed == buildTimeline(detail)
        IN  /\ feed[1].kind = 0
            /\ \A i, j \in DOMAIN feed :
                  i < j => /\ feed[i].at <= feed[j].at
                           /\ ~(feed[j].kind = 1 /\ feed[i].kind = 1
                                /\ feed[j].rung < feed[i].rung)
                           /\ ~(feed[j].kind = 1 /\ feed[i].kind = 2
                                /\ feed[j].rung <= feed[i].rung)

(* On the same rows, however often a case was recovered, given up and      *)
(* recovered anew with another date and amount: the money of the trend is  *)
(* the overview's, less what was recovered before the window, plus what    *)
(* was recovered and then given up; every case counts once, on one day.    *)
(* The figures depend on the rows alone, so states in which no page is     *)
(* open are enough.                                                        *)
Older(c) == Day(row[c].recovered) <= Day(now) - WindowDays

FiguresAgree ==
    page = "none" =>
        SumOf(getAnalytics.revenueTrend) + TotalOf({c \in With("RECOVERED") : Older(c)})
            = getDashboardStats.revenue + TotalOf({c \in undone : ~Older(c)})

=============================================================================
