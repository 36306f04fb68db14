--------------------------- MODULE RecoveryProofs ---------------------------
(***************************************************************************)
(* Machine-checked theorems about Recovery, for any cases, worker slots,   *)
(* customers and bounds.                                                   *)
(***************************************************************************)
EXTENDS Recovery, FiniteSetTheorems, TLAPS

(* The four kinds of processes do not overlap.                             *)
LEMMA Kinds ==
    /\ Cases \subseteq Senders /\ Ladders \subseteq Senders /\ Senders \subseteq Procs
    /\ Posts \subseteq Procs /\ Captures \subseteq Procs
    /\ Senders \cap Posts = {} /\ Senders \cap Captures = {} /\ Posts \cap Captures = {}
    /\ Cases \cap Ladders = {}
  BY ProcsAssumption, Zenon DEF Senders, Procs

(* The type invariant in parts, as the steps disturb them.                 *)
ProcsTyped ==
    /\ at \in [Procs -> Places] /\ on \in [Procs -> Cases \cup {NoCase}]
    /\ rung \in [Procs -> {0} \cup Rungs] /\ clock \in [Procs -> Nat]

Attempts == {"NONE", "PENDING", "SUCCESS", "FAILED"}
Logs == {"NONE", "PENDING", "SENT", "FAILED"}

RowsTyped ==
    /\ case \in [Cases -> CaseRows] /\ order \in Seq(Cases)
    /\ attempt \in [Cases -> [Rungs -> Attempts]]
    /\ log \in [Cases -> [Rungs -> Logs]]

Links == {NoLink} \cup DOMAIN tokens

Wins(S) == [by : Posts \cup Captures, link : S]

LinksTyped ==
    /\ tokens \in Seq(TokenRows)
    /\ link \in [Procs -> Links]
    /\ delivered \in [Cases -> [Rungs -> Seq(Links)]]
    /\ wins \in [Cases -> Seq(Wins(Links))]

CountsTyped == now \in Nat /\ runs \in Nat /\ faults \in Nat /\ thanked \in [Cases -> Nat]

LEMMA Parts == TypeOK <=> ProcsTyped /\ RowsTyped /\ LinksTyped /\ CountsTyped
  BY Zenon DEF TypeOK, ProcsTyped, RowsTyped, LinksTyped, CountsTyped, Links, Wins, Attempts, Logs

LEMMA PartsNext == TypeOK' <=> ProcsTyped' /\ RowsTyped' /\ LinksTyped' /\ CountsTyped'
  BY Parts, PTL

(* What a process that has begun carries.                                  *)
SenderRole(s) ==
    /\ at[s] # "idle" => on[s] \in Cases
    /\ at[s] \notin {"idle", "attempt"} => rung[s] \in Rungs

PostRole(q) ==
    at[q] # "idle" =>
        on[q] \in Cases /\ link[q] \in DOMAIN tokens /\ tokens[link[q]].case = on[q]

CaptureRole(k) == link[k] = NoLink /\ (at[k] = "recover" => on[k] \in Cases)

Roles ==
    /\ \A s \in Senders : SenderRole(s)
    /\ \A q \in Posts : PostRole(q)
    /\ \A k \in Captures : CaptureRole(k)

(* A step of a process leaves the others where they are.                   *)
Still(p) ==
    \A r \in Procs \ {p} :
        at'[r] = at[r] /\ on'[r] = on[r] /\ rung'[r] = rung[r] /\ link'[r] = link[r]

(* Tokens are never removed, never change hands, and are not revived.      *)
TokensLast ==
    /\ DOMAIN tokens \subseteq DOMAIN tokens'
    /\ \A t \in DOMAIN tokens :
          /\ tokens'[t].case = tokens[t].case
          /\ tokens'[t].minter = tokens[t].minter
          /\ tokens'[t].expires = tokens[t].expires
          /\ tokens[t].used => tokens'[t].used
          /\ tokens[t].superseded => tokens'[t].superseded

(* Updates in general.                                                     *)
LEMMA AppendTyped == ASSUME NEW S, NEW q \in Seq(S), NEW x \in S PROVE Append(q, x) \in Seq(S)
  OBVIOUS

LEMMA ExceptTyped ==
    ASSUME NEW D, NEW R, NEW f \in [D -> R], NEW d \in D, NEW r \in R
    PROVE  [f EXCEPT ![d] = r] \in [D -> R]
  OBVIOUS

LEMMA CellTyped ==
    ASSUME NEW D, NEW E, NEW R, NEW f \in [D -> [E -> R]], NEW d \in D, NEW e \in E, NEW r \in R
    PROVE  [f EXCEPT ![d][e] = r] \in [D -> [E -> R]]
  OBVIOUS

LEMMA CellUpdated ==
    ASSUME NEW D, NEW E, NEW R, NEW f \in [D -> [E -> R]], NEW d \in D, NEW e \in E, NEW r,
           NEW g, g = [f EXCEPT ![d][e] = r]
    PROVE  \A c \in D, n \in E : g[c][n] = IF c = d /\ n = e THEN r ELSE f[c][n]
  OBVIOUS

LEMMA GotoTyped ==
    ASSUME ProcsTyped, NEW p \in Procs, NEW place \in Places, Goto(p, place)
    PROVE  ProcsTyped' /\ Still(p)
  BY DEF Goto, ProcsTyped, Still

LEMMA LeaveTyped ==
    ASSUME ProcsTyped, NEW p \in Procs, NEW place \in {"idle", "done"}, Leave(p, place)
    PROVE  ProcsTyped' /\ Still(p)
  BY DEF Leave, ProcsTyped, Still, Places

(* The statements that write tokens.                                       *)
LEMMA TokenFields ==
    ASSUME NEW r \in TokenRows
    PROVE  /\ r.case \in Cases /\ r.minter \in Senders /\ r.expires \in Nat
           /\ r.used \in BOOLEAN /\ r.superseded \in BOOLEAN
  BY DEF TokenRows

LEMMA SupersedeTokens ==
    ASSUME LinksTyped, NEW S,
           tokens' = [t \in DOMAIN tokens |-> [tokens[t] EXCEPT !.superseded = @ \/ t \in S]]
    PROVE  /\ tokens' \in Seq(TokenRows) /\ DOMAIN tokens' = DOMAIN tokens
           /\ TokensLast /\ \A t \in DOMAIN tokens : t \in S => tokens'[t].superseded
<1>1. DOMAIN tokens' = DOMAIN tokens /\ DOMAIN tokens = 1..Len(tokens) /\ Len(tokens) \in Nat
  BY DEF LinksTyped
<1>2. ASSUME NEW t \in DOMAIN tokens
      PROVE  /\ tokens'[t] \in TokenRows
             /\ tokens'[t].case = tokens[t].case
             /\ tokens'[t].minter = tokens[t].minter
             /\ tokens'[t].expires = tokens[t].expires
             /\ tokens[t].used => tokens'[t].used
             /\ tokens[t].superseded => tokens'[t].superseded
             /\ t \in S => tokens'[t].superseded
  <2>1. tokens[t] \in TokenRows
    BY DEF LinksTyped
  <2>2. PICK b \in BOOLEAN : b = (tokens[t].superseded \/ t \in S)
    BY Zenon
  <2>3. tokens'[t] = [tokens[t] EXCEPT !.superseded = b]
    BY <2>2, Zenon
  <2>4. /\ tokens'[t] \in TokenRows
        /\ tokens'[t].case = tokens[t].case /\ tokens'[t].minter = tokens[t].minter
        /\ tokens'[t].expires = tokens[t].expires
        /\ tokens'[t].used = tokens[t].used /\ tokens'[t].superseded = b
    BY <2>1, <2>3 DEF TokenRows
  <2>5. QED
    BY <2>2, <2>4, Zenon
<1>3. tokens' \in Seq(TokenRows)
  <2>1. tokens' \in [1..Len(tokens) -> TokenRows]
    BY <1>1, <1>2
  <2>2. QED
    BY <1>1, <2>1
<1>4. QED
  BY <1>1, <1>2, <1>3 DEF TokensLast

LEMMA MintToken ==
    ASSUME LinksTyped, NEW r \in TokenRows, tokens' = Append(tokens, r)
    PROVE  /\ tokens' \in Seq(TokenRows) /\ DOMAIN tokens' = DOMAIN tokens \cup {Len(tokens) + 1}
           /\ Len(tokens) + 1 \notin DOMAIN tokens
           /\ tokens'[Len(tokens) + 1] = r /\ \A t \in DOMAIN tokens : tokens'[t] = tokens[t]
           /\ TokensLast
  BY DEF LinksTyped, TokensLast

LEMMA UseToken ==
    ASSUME LinksTyped, NEW t \in DOMAIN tokens, tokens' = [tokens EXCEPT ![t].used = TRUE]
    PROVE  /\ tokens' \in Seq(TokenRows) /\ DOMAIN tokens' = DOMAIN tokens
           /\ TokensLast /\ tokens'[t].used
           /\ \A u \in DOMAIN tokens : u # t => tokens'[u] = tokens[u]
           /\ \A u \in DOMAIN tokens : tokens'[u].superseded <=> tokens[u].superseded
<1>1. /\ DOMAIN tokens' = DOMAIN tokens
      /\ DOMAIN tokens = 1..Len(tokens) /\ Len(tokens) \in Nat
      /\ tokens'[t] = [tokens[t] EXCEPT !.used = TRUE]
      /\ \A u \in DOMAIN tokens : u # t => tokens'[u] = tokens[u]
      /\ \A u \in DOMAIN tokens : tokens[u] \in TokenRows
  BY DEF LinksTyped
<1>2. /\ tokens'[t] \in TokenRows /\ tokens'[t].used
      /\ tokens'[t].case = tokens[t].case /\ tokens'[t].minter = tokens[t].minter
      /\ tokens'[t].expires = tokens[t].expires /\ tokens'[t].superseded = tokens[t].superseded
  BY <1>1 DEF TokenRows
<1>3. tokens' \in [1..Len(tokens) -> TokenRows]
  BY <1>1, <1>2
<1>4. tokens' \in Seq(TokenRows)
  BY <1>1, <1>3
<1>5. QED
  BY <1>1, <1>2, <1>4 DEF TokensLast

LEMMA SameTokens ==
    ASSUME LinksTyped, tokens' = tokens
    PROVE  tokens' \in Seq(TokenRows) /\ DOMAIN tokens' = DOMAIN tokens /\ TokensLast
  BY DEF LinksTyped, TokensLast

LEMMA LinksGrow ==
    ASSUME TokensLast
    PROVE  Links \subseteq Links'
  BY DEF Links, TokensLast

LEMMA SeqGrows == ASSUME NEW S, NEW T, S \subseteq T, NEW q \in Seq(S) PROVE q \in Seq(T)
  OBVIOUS

(* A step that mails nothing and writes no recovery.                       *)
LEMMA LinksKept ==
    ASSUME LinksTyped, TokensLast, tokens' \in Seq(TokenRows),
           UNCHANGED <<delivered, wins>>,
           link' \in [Procs -> Links']
    PROVE  LinksTyped'
<1>1. Links \subseteq Links'
  BY LinksGrow
<1>2. delivered' \in [Cases -> [Rungs -> Seq(Links')]]
  <2>1. ASSUME NEW c \in Cases, NEW n \in Rungs PROVE delivered[c][n] \in Seq(Links')
    BY <1>1 DEF LinksTyped
  <2>2. QED
    BY <2>1 DEF LinksTyped
<1>3. wins' \in [Cases -> Seq(Wins(Links'))]
  <2>1. ASSUME NEW c \in Cases PROVE wins[c] \in Seq(Wins(Links'))
    <3>1. Wins(Links) \subseteq Wins(Links')
      BY <1>1 DEF Wins
    <3>2. wins[c] \in Seq(Wins(Links))
      BY DEF LinksTyped
    <3>3. QED
      BY <3>1, <3>2, SeqGrows, Zenon
  <2>2. QED
    BY <2>1 DEF LinksTyped
<1>4. QED
  BY <1>2, <1>3 DEF LinksTyped

(* What every statement of a process guarantees.                           *)
Role(p) ==
    /\ p \in Senders => SenderRole(p)
    /\ p \in Posts => PostRole(p)
    /\ p \in Captures => CaptureRole(p)

Sound(p) ==
    /\ ProcsTyped' /\ RowsTyped' /\ LinksTyped' /\ CountsTyped'
    /\ Still(p) /\ TokensLast /\ Role(p)'

LEMMA SoundStep ==
    ASSUME TypeOK, Roles, NEW p \in Procs, Sound(p)
    PROVE  TypeOK' /\ Roles'
<1>1. TypeOK'
  BY PartsNext, Zenon DEF Sound
<1>2. ASSUME NEW s \in Senders PROVE SenderRole(s)'
  <2>1. CASE s = p
    BY <2>1, Zenon DEF Sound, Role
  <2>2. CASE s # p
    <3>1. at'[s] = at[s] /\ on'[s] = on[s] /\ rung'[s] = rung[s] /\ SenderRole(s)
      BY <2>2, Kinds DEF Sound, Still, Roles
    <3>2. QED
      BY <3>1 DEF SenderRole
  <2>3. QED
    BY <2>1, <2>2
<1>3. ASSUME NEW q \in Posts PROVE PostRole(q)'
  <2>1. CASE q = p
    BY <2>1, Zenon DEF Sound, Role
  <2>2. CASE q # p
    <3>1. at'[q] = at[q] /\ on'[q] = on[q] /\ link'[q] = link[q] /\ PostRole(q)
      BY <2>2, Kinds DEF Sound, Still, Roles
    <3>2. QED
      BY <3>1 DEF PostRole, Sound, TokensLast
  <2>3. QED
    BY <2>1, <2>2
<1>4. ASSUME NEW k \in Captures PROVE CaptureRole(k)'
  <2>1. CASE k = p
    BY <2>1, Zenon DEF Sound, Role
  <2>2. CASE k # p
    <3>1. at'[k] = at[k] /\ on'[k] = on[k] /\ link'[k] = link[k] /\ CaptureRole(k)
      BY <2>2, Kinds DEF Sound, Still, Roles
    <3>2. QED
      BY <3>1 DEF CaptureRole
  <2>3. QED
    BY <2>1, <2>2
<1>5. QED
  BY <1>1, <1>2, <1>3, <1>4 DEF Roles

(* A step that touches neither tokens nor what was mailed or won: two      *)
(* ways for its process to go on.                                          *)
LEMMA GoingOn ==
    ASSUME TypeOK, Roles, NEW p \in Procs, NEW place \in Places, Goto(p, place),
           UNCHANGED <<tokens, delivered, wins>>, RowsTyped', CountsTyped',
           place # "idle", place = "recover" => p \notin Captures, at[p] # "idle",
           at[p] # "attempt"
    PROVE  Sound(p)
<1>1. ProcsTyped /\ LinksTyped
  BY Parts, Zenon
<1>2. ProcsTyped' /\ Still(p)
  BY <1>1, GotoTyped
<1>3. tokens' \in Seq(TokenRows) /\ DOMAIN tokens' = DOMAIN tokens /\ TokensLast
  BY <1>1, SameTokens
<1>4. link' \in [Procs -> Links']
  BY <1>1, <1>3 DEF Goto, LinksTyped, Links
<1>5. LinksTyped'
  BY <1>1, <1>3, <1>4, LinksKept
<1>6. Role(p)'
  <2>1. /\ at'[p] = place /\ on'[p] = on[p] /\ rung'[p] = rung[p] /\ link'[p] = link[p]
        /\ tokens' = tokens
    BY <1>1 DEF Goto, ProcsTyped
  <2>2. p \in Senders => SenderRole(p)'
    BY <2>1 DEF Roles, SenderRole
  <2>3. p \in Posts => PostRole(p)'
    BY <2>1 DEF Roles, PostRole
  <2>4. p \in Captures => CaptureRole(p)'
    BY <2>1 DEF Roles, CaptureRole
  <2>5. QED
    BY <2>2, <2>3, <2>4 DEF Role
<1>7. QED
  BY <1>2, <1>3, <1>5, <1>6 DEF Sound

LEMMA Leaving ==
    ASSUME TypeOK, NEW p \in Procs, NEW place \in {"idle", "done"}, Leave(p, place),
           UNCHANGED <<tokens, delivered, wins>>, RowsTyped', CountsTyped',
           place = "idle" \/ p \in Captures
    PROVE  Sound(p)
<1>1. ProcsTyped /\ LinksTyped
  BY Parts, Zenon
<1>2. ProcsTyped' /\ Still(p)
  BY <1>1, LeaveTyped
<1>3. tokens' \in Seq(TokenRows) /\ DOMAIN tokens' = DOMAIN tokens /\ TokensLast
  BY <1>1, SameTokens
<1>4. link' \in [Procs -> Links']
  BY <1>1, <1>3 DEF Leave, LinksTyped, Links
<1>5. LinksTyped'
  BY <1>1, <1>3, <1>4, LinksKept
<1>6. Role(p)'
  <2>1. at'[p] = place /\ link'[p] = NoLink
    BY <1>1 DEF Leave, ProcsTyped, LinksTyped
  <2>2. QED
    BY <2>1, Kinds DEF Role, SenderRole, PostRole, CaptureRole
<1>7. QED
  BY <1>2, <1>3, <1>5, <1>6 DEF Sound

(***************************************************************************)
(* Every statement is sound.                                               *)
(***************************************************************************)
LEMMA SenderPlace ==
    ASSUME Roles, NEW s \in Senders, at[s] \notin {"idle", "attempt"}
    PROVE  on[s] \in Cases /\ rung[s] \in Rungs
  BY DEF Roles, SenderRole

LEMMA OpenCaseSound ==
    ASSUME TypeOK, Roles, NEW c \in Cases, OpenCase(c)
    PROVE  Sound(c)
<1>1. ProcsTyped /\ RowsTyped /\ LinksTyped /\ CountsTyped /\ c \in Senders /\ c \in Procs
  BY Parts, Kinds
<1>2. ProcsTyped' /\ Still(c)
  BY <1>1 DEF OpenCase, ProcsTyped, Still, Places
<1>3. RowsTyped'
  <2>1. case[c] \in CaseRows /\ now \in Nat
    BY <1>1 DEF RowsTyped, CountsTyped
  <2>2. [case[c] EXCEPT !.status = "OPEN", !.created = now] \in CaseRows
    BY <2>1 DEF CaseRows
  <2>3. PICK r \in CaseRows : r = [case[c] EXCEPT !.status = "OPEN", !.created = now]
    BY <2>2
  <2>4. \/ case' = [case EXCEPT ![c] = r] /\ order' = Append(order, c)
        \/ UNCHANGED <<case, order>>
    BY <2>3, Zenon DEF OpenCase
  <2>5. case' \in [Cases -> CaseRows] /\ order' \in Seq(Cases)
    <3>1. case \in [Cases -> CaseRows] /\ order \in Seq(Cases)
      BY <1>1 DEF RowsTyped
    <3>2. [case EXCEPT ![c] = r] \in [Cases -> CaseRows]
      BY <3>1, ExceptTyped
    <3>3. Append(order, c) \in Seq(Cases)
      BY <3>1, AppendTyped
    <3>4. QED
      BY <2>4, <3>1, <3>2, <3>3, Zenon
  <2>6. QED
    BY <1>1, <2>5 DEF OpenCase, RowsTyped
<1>4. tokens' \in Seq(TokenRows) /\ DOMAIN tokens' = DOMAIN tokens /\ TokensLast
  BY <1>1, SameTokens DEF OpenCase
<1>5. LinksTyped'
  BY <1>1, <1>4, LinksKept DEF OpenCase, LinksTyped, Links, history
<1>6. CountsTyped'
  BY <1>1 DEF OpenCase, CountsTyped, history
<1>7. Role(c)'
  <2>1. at'[c] = "attempt" /\ on'[c] = c
    BY <1>1 DEF OpenCase, ProcsTyped
  <2>2. QED
    BY <1>1, <2>1, Kinds DEF Role, SenderRole
<1>8. QED
  BY <1>2, <1>3, <1>4, <1>5, <1>6, <1>7 DEF Sound

LEMMA CreateAttemptTyped ==
    ASSUME RowsTyped, NEW c \in Cases, NEW n \in Rungs, createAttempt(c, n),
           UNCHANGED <<case, order, log>>
    PROVE  RowsTyped'
  BY DEF RowsTyped, createAttempt, Attempts

LEMMA ScheduleFirstAttemptSound ==
    ASSUME TypeOK, Roles, NEW c \in Cases, ScheduleFirstAttempt(c)
    PROVE  Sound(c)
<1>1. ProcsTyped /\ RowsTyped /\ LinksTyped /\ CountsTyped /\ c \in Senders /\ c \in Procs
  BY Parts, Kinds
<1>2. ProcsTyped' /\ Still(c)
  BY <1>1 DEF ScheduleFirstAttempt, ProcsTyped, Still, Places, Rungs, MaxRung
<1>3. RowsTyped'
  BY <1>1, CreateAttemptTyped DEF ScheduleFirstAttempt, Rungs, MaxRung
<1>4. tokens' \in Seq(TokenRows) /\ DOMAIN tokens' = DOMAIN tokens /\ TokensLast
  BY <1>1, SameTokens DEF ScheduleFirstAttempt
<1>5. LinksTyped'
  BY <1>1, <1>4, LinksKept DEF ScheduleFirstAttempt, LinksTyped, Links, history
<1>6. CountsTyped'
  BY <1>1 DEF ScheduleFirstAttempt, CountsTyped, history, counts
<1>7. Role(c)'
  <2>1. at[c] = "attempt" /\ on'[c] = on[c] /\ rung'[c] = 1
    BY <1>1 DEF ScheduleFirstAttempt, ProcsTyped
  <2>2. on'[c] \in Cases /\ rung'[c] \in Rungs
    BY <1>1, <2>1 DEF Roles, SenderRole, Rungs, MaxRung
  <2>3. QED
    BY <1>1, <2>2, Kinds DEF Role, SenderRole
<1>8. QED
  BY <1>2, <1>3, <1>4, <1>5, <1>6, <1>7 DEF Sound

LEMMA SupersedeSound ==
    ASSUME TypeOK, Roles, NEW s \in Senders, SupersedeActiveTokens(s)
    PROVE  Sound(s)
<1>1. ProcsTyped /\ RowsTyped /\ LinksTyped /\ CountsTyped /\ s \in Procs
  BY Parts, Kinds
<1>2. ProcsTyped' /\ Still(s)
  BY <1>1 DEF SupersedeActiveTokens, ProcsTyped, CountsTyped, Still, Places
<1>3. RowsTyped' /\ CountsTyped'
  BY <1>1 DEF SupersedeActiveTokens, RowsTyped, CountsTyped, history, counts
<1>4. tokens' \in Seq(TokenRows) /\ DOMAIN tokens' = DOMAIN tokens /\ TokensLast
  BY <1>1, SupersedeTokens DEF SupersedeActiveTokens
<1>5. LinksTyped'
  BY <1>1, <1>4, LinksKept DEF SupersedeActiveTokens, LinksTyped, Links, history
<1>6. Role(s)'
  <2>1. on'[s] = on[s] /\ rung'[s] = rung[s] /\ at[s] = "supersede"
    BY <1>1 DEF SupersedeActiveTokens
  <2>2. QED
    BY <2>1, SenderPlace, Kinds DEF Role, SenderRole
<1>7. QED
  BY <1>2, <1>3, <1>4, <1>5, <1>6 DEF Sound

LEMMA CreateTokenSound ==
    ASSUME TypeOK, Roles, NEW s \in Senders, CreateToken(s)
    PROVE  Sound(s)
<1>1. ProcsTyped /\ RowsTyped /\ LinksTyped /\ CountsTyped /\ s \in Procs
  BY Parts, Kinds
<1>2. ProcsTyped' /\ Still(s)
  BY <1>1 DEF CreateToken, ProcsTyped, LinksTyped, Still, Places
<1>3. RowsTyped' /\ CountsTyped'
  BY <1>1 DEF CreateToken, RowsTyped, CountsTyped, history, counts
<1>4. on[s] \in Cases /\ rung[s] \in Rungs
  BY SenderPlace DEF CreateToken
<1>5. [case |-> on[s], minter |-> s, expires |-> clock[s] + TTL,
       used |-> FALSE, superseded |-> FALSE] \in TokenRows
  BY <1>1, <1>4 DEF ProcsTyped, TokenRows, TTL
<1>6. /\ tokens' \in Seq(TokenRows) /\ TokensLast
      /\ DOMAIN tokens' = DOMAIN tokens \cup {Len(tokens) + 1}
  BY <1>1, <1>5, MintToken DEF CreateToken
<1>7. LinksTyped'
  <2>1. link' \in [Procs -> Links']
    BY <1>1, <1>6 DEF CreateToken, LinksTyped, Links
  <2>2. QED
    BY <1>1, <1>6, <2>1, LinksKept DEF CreateToken, history
<1>8. Role(s)'
  <2>1. on'[s] = on[s] /\ rung'[s] = rung[s]
    BY <1>1 DEF CreateToken
  <2>2. QED
    BY <1>4, <2>1, Kinds DEF Role, SenderRole
<1>9. QED
  BY <1>2, <1>3, <1>6, <1>7, <1>8 DEF Sound

LEMMA LogTyped ==
    ASSUME RowsTyped, NEW c \in Cases, NEW n \in Rungs, NEW result \in Logs,
           log' = [log EXCEPT ![c][n] = result], UNCHANGED <<case, order, attempt>>
    PROVE  RowsTyped'
  BY DEF RowsTyped

LEMMA CreateMessageLogSound ==
    ASSUME TypeOK, Roles, NEW s \in Senders, CreateMessageLog(s)
    PROVE  Sound(s)
<1>1. ProcsTyped /\ RowsTyped /\ LinksTyped /\ CountsTyped /\ s \in Procs
  BY Parts, Kinds
<1>2. on[s] \in Cases /\ rung[s] \in Rungs /\ s \notin Captures
  BY SenderPlace, Kinds DEF CreateMessageLog
<1>3. RowsTyped' /\ CountsTyped'
  BY <1>1, <1>2, LogTyped DEF CreateMessageLog, CountsTyped, history, counts, Logs
<1>4. PICK place \in {"send", "unsent"} : Goto(s, place)
  BY DEF CreateMessageLog
<1>5. QED
  BY <1>1, <1>2, <1>3, <1>4, GoingOn DEF CreateMessageLog, history, Places

(* The end of a message: a handler's call is over, a slot goes on.         *)
LEMMA AfterMessageSound ==
    ASSUME TypeOK, Roles, NEW s \in Senders, AfterMessage(s), at[s] \notin {"idle", "attempt"},
           UNCHANGED <<tokens, delivered, wins>>, RowsTyped', CountsTyped'
    PROVE  Sound(s)
<1>1. ProcsTyped /\ LinksTyped /\ s \in Procs
  BY Parts, Kinds
<1>2. CASE s \in Cases
  BY <1>1, <1>2, Leaving DEF AfterMessage, EndMessage
<1>3. CASE s \notin Cases
  <2>1. /\ at' = [at EXCEPT ![s] = "execute"] /\ link' = [link EXCEPT ![s] = NoLink]
        /\ on' = on /\ rung' = rung /\ clock' = clock
    BY <1>3 DEF AfterMessage, EndMessage
  <2>2. ProcsTyped' /\ Still(s)
    BY <1>1, <2>1 DEF ProcsTyped, LinksTyped, Still, Places
  <2>3. tokens' \in Seq(TokenRows) /\ DOMAIN tokens' = DOMAIN tokens /\ TokensLast
    BY <1>1, SameTokens
  <2>4. link' \in [Procs -> Links']
    BY <1>1, <2>1, <2>3 DEF LinksTyped, Links
  <2>5. LinksTyped'
    BY <1>1, <2>3, <2>4, LinksKept
  <2>6. Role(s)'
    BY <2>1, SenderPlace, Kinds DEF Role, SenderRole
  <2>7. QED
    BY <2>2, <2>3, <2>5, <2>6 DEF Sound
<1>4. QED
  BY <1>2, <1>3

LEMMA SkipDuplicateSound ==
    ASSUME TypeOK, Roles, NEW s \in Senders, SkipDuplicate(s)
    PROVE  Sound(s)
<1>1. RowsTyped' /\ CountsTyped'
  BY Parts DEF SkipDuplicate, RowsTyped, CountsTyped, history, counts, dbase
<1>2. QED
  BY <1>1, AfterMessageSound DEF SkipDuplicate, history, dbase

LEMMA MarkMessageSound ==
    ASSUME TypeOK, Roles, NEW s \in Senders, MarkSent(s) \/ MarkFailed(s)
    PROVE  Sound(s)
<1>1. on[s] \in Cases /\ rung[s] \in Rungs
  BY SenderPlace DEF MarkSent, MarkFailed, MarkMessage
<1>2. PICK result \in {"SENT", "FAILED"} : log' = [log EXCEPT ![on[s]][rung[s]] = result]
  BY DEF MarkSent, MarkFailed, MarkMessage
<1>3. RowsTyped'
  BY <1>1, <1>2, Parts, LogTyped DEF MarkSent, MarkFailed, MarkMessage, Logs
<1>4. CountsTyped'
  BY Parts DEF MarkSent, MarkFailed, MarkMessage, CountsTyped, counts, history
<1>5. QED
  BY <1>3, <1>4, AfterMessageSound DEF MarkSent, MarkFailed, MarkMessage, history

LEMMA ProviderSound ==
    ASSUME TypeOK, Roles, NEW s \in Senders, ProviderSends(s) \/ ProviderFails(s)
    PROVE  Sound(s)
<1>1. ProcsTyped /\ RowsTyped /\ LinksTyped /\ CountsTyped /\ s \in Procs
  BY Parts, Kinds
<1>2. at[s] = "send" /\ on[s] \in Cases /\ rung[s] \in Rungs
  BY SenderPlace DEF ProviderSends, ProviderFails
<1>3. PICK place \in {"sent", "unsent"} : Goto(s, place)
  BY DEF ProviderSends, ProviderFails
<1>4. ProcsTyped' /\ Still(s)
  BY <1>1, <1>3, GotoTyped DEF Places
<1>5. RowsTyped' /\ CountsTyped'
  BY <1>1 DEF ProviderSends, ProviderFails, Fault, RowsTyped, CountsTyped, counts, dbase
<1>6. UNCHANGED <<tokens, wins, link>>
  BY <1>3 DEF ProviderSends, ProviderFails, dbase, Goto
<1>7. tokens' \in Seq(TokenRows) /\ DOMAIN tokens' = DOMAIN tokens /\ TokensLast
  BY <1>1, <1>6, SameTokens
<1>8. LinksTyped'
  <2>1. Links' = Links
    BY <1>6 DEF Links
  <2>2. delivered' \in [Cases -> [Rungs -> Seq(Links)]]
    <3>1. delivered[on[s]][rung[s]] \in Seq(Links) /\ link[s] \in Links
      BY <1>1, <1>2 DEF LinksTyped
    <3>2. PICK q : q = Append(delivered[on[s]][rung[s]], link[s])
      OBVIOUS
    <3>3. q \in Seq(Links)
      BY <3>1, <3>2, AppendTyped
    <3>4. delivered' = [delivered EXCEPT ![on[s]][rung[s]] = q] \/ delivered' = delivered
      BY <3>2, Zenon DEF ProviderSends, ProviderFails, Deliver
    <3>5. delivered \in [Cases -> [Rungs -> Seq(Links)]]
      BY <1>1 DEF LinksTyped
    <3>6. [delivered EXCEPT ![on[s]][rung[s]] = q] \in [Cases -> [Rungs -> Seq(Links)]]
      BY <1>2, <3>3, <3>5, CellTyped
    <3>7. QED
      BY <3>4, <3>5, <3>6, Zenon
  <2>3. QED
    BY <1>1, <1>6, <1>7, <2>1, <2>2 DEF LinksTyped
<1>9. Role(s)'
  <2>1. on'[s] = on[s] /\ rung'[s] = rung[s]
    BY <1>3 DEF Goto
  <2>2. QED
    BY <1>2, <2>1, Kinds DEF Role, SenderRole
<1>10. QED
  BY <1>4, <1>5, <1>7, <1>8, <1>9 DEF Sound

LEMMA MarkSentRejectsSound ==
    ASSUME TypeOK, Roles, NEW s \in Senders, MarkSentRejects(s)
    PROVE  Sound(s)
<1>1. RowsTyped' /\ CountsTyped'
  BY Parts DEF MarkSentRejects, Fault, RowsTyped, CountsTyped, history, dbase
<1>2. QED
  BY <1>1, Kinds, GoingOn DEF MarkSentRejects, history, dbase, Places

LEMMA PickDueAttemptSound ==
    ASSUME TypeOK, Roles, NEW l \in Ladders, NEW c \in Cases, NEW n \in Rungs,
           PickDueAttempt(l, c, n)
    PROVE  Sound(l)
<1>1. ProcsTyped /\ RowsTyped /\ LinksTyped /\ CountsTyped /\ l \in Senders /\ l \in Procs
  BY Parts, Kinds
<1>2. ProcsTyped' /\ Still(l)
  BY <1>1 DEF PickDueAttempt, ProcsTyped, Still, Places
<1>3. RowsTyped' /\ CountsTyped'
  BY <1>1 DEF PickDueAttempt, RowsTyped, CountsTyped, history, counts, dbase
<1>4. tokens' \in Seq(TokenRows) /\ DOMAIN tokens' = DOMAIN tokens /\ TokensLast
  BY <1>1, SameTokens DEF PickDueAttempt, dbase
<1>5. LinksTyped'
  BY <1>1, <1>4, LinksKept DEF PickDueAttempt, LinksTyped, Links, history
<1>6. Role(l)'
  <2>1. on'[l] = c /\ rung'[l] = n
    BY <1>1 DEF PickDueAttempt, ProcsTyped
  <2>2. QED
    BY <1>1, <2>1, Kinds DEF Role, SenderRole
<1>7. QED
  BY <1>2, <1>3, <1>4, <1>5, <1>6 DEF Sound

LEMMA AttemptTyped ==
    ASSUME RowsTyped, NEW c \in Cases, NEW n \in Rungs, NEW status \in Attempts,
           attempt' = [attempt EXCEPT ![c][n] = status], UNCHANGED <<case, order, log>>
    PROVE  RowsTyped'
  BY DEF RowsTyped

LEMMA HaltSound ==
    ASSUME TypeOK, Roles, NEW l \in Ladders, Halt(l)
    PROVE  Sound(l)
<1>1. on[l] \in Cases /\ rung[l] \in Rungs /\ l \in Procs
  BY SenderPlace, Kinds DEF Halt
<1>2. RowsTyped' /\ CountsTyped'
  BY <1>1, Parts, AttemptTyped DEF Halt, CountsTyped, history, counts, Attempts
<1>3. QED
  BY <1>1, <1>2, Leaving DEF Halt, history

LEMMA MarkAttemptExecutedSound ==
    ASSUME TypeOK, Roles, NEW l \in Ladders, MarkAttemptExecuted(l)
    PROVE  Sound(l)
<1>1. on[l] \in Cases /\ rung[l] \in Rungs /\ l \in Procs
  BY SenderPlace, Kinds DEF MarkAttemptExecuted
<1>2. RowsTyped' /\ CountsTyped'
  BY <1>1, Parts, AttemptTyped DEF MarkAttemptExecuted, CountsTyped, history, counts, Attempts
<1>3. QED
  BY <1>1, <1>2, GoingOn DEF MarkAttemptExecuted, history, Places

LEMMA ScheduleNextRungSound ==
    ASSUME TypeOK, Roles, NEW l \in Ladders, ScheduleNextRung(l)
    PROVE  Sound(l)
<1>1. on[l] \in Cases /\ rung[l] + 1 \in Rungs /\ l \in Procs
  BY SenderPlace, Kinds DEF ScheduleNextRung, Rungs, MaxRung
<1>2. RowsTyped' /\ CountsTyped'
  BY <1>1, Parts, CreateAttemptTyped DEF ScheduleNextRung, CountsTyped, history, counts
<1>3. QED
  BY <1>1, <1>2, Leaving DEF ScheduleNextRung, history

(* Writing a case's status, or its status and attribution.                 *)
LEMMA CaseTyped ==
    ASSUME RowsTyped, NEW c \in Cases, NEW r \in CaseRows, case' = [case EXCEPT ![c] = r],
           UNCHANGED <<order, attempt, log>>
    PROVE  RowsTyped'
  BY DEF RowsTyped

LEMMA ExhaustLadderSound ==
    ASSUME TypeOK, Roles, NEW l \in Ladders, ExhaustLadder(l)
    PROVE  Sound(l)
<1>1. on[l] \in Cases /\ l \in Procs /\ RowsTyped /\ CountsTyped
  BY SenderPlace, Kinds, Parts DEF ExhaustLadder
<1>2. RowsTyped'
  <2>1. case[on[l]] \in CaseRows
    BY <1>1 DEF RowsTyped
  <2>2. [case[on[l]] EXCEPT !.status = "FAILED"] \in CaseRows
    BY <2>1 DEF CaseRows
  <2>3. QED
    BY <1>1, <2>2, CaseTyped DEF ExhaustLadder
<1>3. CountsTyped'
  BY <1>1 DEF ExhaustLadder, CountsTyped, history, counts
<1>4. QED
  BY <1>1, <1>2, <1>3, Leaving DEF ExhaustLadder, history

LEMMA MailedIsToken ==
    ASSUME LinksTyped, NEW c \in Cases, NEW t \in MailedLinks(c) \ {NoLink}
    PROVE  t \in DOMAIN tokens
<1>1. PICK n \in Rungs : t \in {delivered[c][n][i] : i \in DOMAIN delivered[c][n]}
  BY DEF MailedLinks
<1>2. delivered[c][n] \in Seq(Links)
  BY DEF LinksTyped
<1>3. t \in Links
  BY <1>1, <1>2
<1>4. QED
  BY <1>3 DEF Links

LEMMA ValidateTokenSound ==
    ASSUME TypeOK, Roles, NEW q \in Posts, NEW t, ValidateToken(q, t)
    PROVE  Sound(q) /\ t \in DOMAIN tokens
<1>1. ProcsTyped /\ RowsTyped /\ LinksTyped /\ CountsTyped /\ q \in Procs
  BY Parts, Kinds
<1>2. t \in DOMAIN tokens /\ tokens[t].case \in Cases
  <2>1. t \in DOMAIN tokens
    BY <1>1, MailedIsToken DEF ValidateToken
  <2>2. QED
    BY <1>1, <2>1, TokenFields DEF LinksTyped
<1>3. ProcsTyped' /\ Still(q)
  BY <1>1, <1>2 DEF ValidateToken, ProcsTyped, LinksTyped, Still, Places
<1>4. RowsTyped' /\ CountsTyped'
  BY <1>1 DEF ValidateToken, RowsTyped, CountsTyped, history, counts, dbase
<1>5. tokens' = tokens /\ tokens' \in Seq(TokenRows) /\ DOMAIN tokens' = DOMAIN tokens /\ TokensLast
  BY <1>1, SameTokens DEF ValidateToken, dbase
<1>6. LinksTyped'
  BY <1>1, <1>2, <1>5, LinksKept DEF ValidateToken, LinksTyped, Links, history
<1>7. Role(q)'
  <2>1. on'[q] = tokens[t].case /\ link'[q] = t
    BY <1>1 DEF ValidateToken, ProcsTyped, LinksTyped
  <2>2. QED
    BY <1>2, <1>5, <2>1, Kinds DEF Role, PostRole
<1>8. QED
  BY <1>2, <1>3, <1>4, <1>5, <1>6, <1>7 DEF Sound

LEMMA MarkUsedSound ==
    ASSUME TypeOK, Roles, NEW q \in Posts, MarkUsed(q)
    PROVE  Sound(q) /\ link[q] \in DOMAIN tokens
<1>1. ProcsTyped /\ RowsTyped /\ LinksTyped /\ CountsTyped /\ q \in Procs
  BY Parts, Kinds
<1>2. on[q] \in Cases /\ link[q] \in DOMAIN tokens /\ tokens[link[q]].case = on[q]
  BY DEF MarkUsed, Roles, PostRole
<1>3. RowsTyped' /\ CountsTyped'
  BY <1>1 DEF MarkUsed, RowsTyped, CountsTyped, history, counts
<1>4. CASE Unused(link[q])
  <2>1. tokens' = [tokens EXCEPT ![link[q]].used = TRUE] /\ Goto(q, "recover")
    BY <1>4 DEF MarkUsed
  <2>2. ProcsTyped' /\ Still(q)
    BY <1>1, <2>1, GotoTyped DEF Places
  <2>3. tokens' \in Seq(TokenRows) /\ DOMAIN tokens' = DOMAIN tokens /\ TokensLast
    BY <1>1, <1>2, <2>1, UseToken
  <2>4. link' = link /\ on' = on
    BY <2>1 DEF Goto
  <2>5. LinksTyped'
    BY <1>1, <2>3, <2>4, LinksKept DEF MarkUsed, LinksTyped, Links, history
  <2>6. Role(q)'
    BY <1>2, <2>3, <2>4, Kinds DEF Role, PostRole, TokensLast
  <2>7. QED
    BY <1>2, <1>3, <2>2, <2>3, <2>5, <2>6 DEF Sound
<1>5. CASE ~Unused(link[q])
  BY <1>1, <1>2, <1>3, <1>5, Leaving DEF MarkUsed, history
<1>6. QED
  BY <1>4, <1>5

(* A recovery that is written.                                             *)
LEMMA WinTyped ==
    ASSUME RowsTyped, LinksTyped, NEW p \in Posts \cup Captures, on[p] \in Cases,
           NEW via \in {"LINK", "ORGANIC"}, MarkRecovered(p, via), link[p] \in Links,
           UNCHANGED <<order, attempt, log, tokens, delivered>>, link' \in [Procs -> Links]
    PROVE  RowsTyped' /\ LinksTyped'
<1>1. case[on[p]] \in CaseRows
  BY DEF RowsTyped
<1>2. [case[on[p]] EXCEPT !.status = "RECOVERED", !.via = via] \in CaseRows
  BY <1>1 DEF CaseRows
<1>3. RowsTyped'
  BY <1>2, CaseTyped DEF MarkRecovered
<1>4. [by |-> p, link |-> link[p]] \in Wins(Links)
  BY DEF Wins
<1>5. wins' \in [Cases -> Seq(Wins(Links))]
  BY <1>4 DEF MarkRecovered, LinksTyped
<1>6. Links' = Links
  BY DEF Links
<1>7. QED
  BY <1>3, <1>5, <1>6 DEF LinksTyped

LEMMA CompleteRecoverySound ==
    ASSUME TypeOK, Roles, NEW q \in Posts, CompleteRecovery(q)
    PROVE  Sound(q)
<1>1. ProcsTyped /\ RowsTyped /\ LinksTyped /\ CountsTyped /\ q \in Procs
  BY Parts, Kinds
<1>2. on[q] \in Cases /\ link[q] \in DOMAIN tokens /\ tokens[link[q]].case = on[q]
  BY DEF CompleteRecovery, Roles, PostRole
<1>3. ProcsTyped' /\ Still(q)
  BY <1>1, GotoTyped DEF CompleteRecovery, Places
<1>4. RowsTyped' /\ LinksTyped'
  BY <1>1, <1>2, WinTyped DEF CompleteRecovery, Goto, LinksTyped, Links
<1>5. CountsTyped'
  BY <1>1 DEF CompleteRecovery, CountsTyped, counts
<1>6. TokensLast
  BY <1>1, SameTokens DEF CompleteRecovery
<1>7. Role(q)'
  BY <1>2, Kinds DEF CompleteRecovery, Goto, Role, PostRole
<1>8. QED
  BY <1>3, <1>4, <1>5, <1>6, <1>7 DEF Sound

LEMMA SendRecoveredSound ==
    ASSUME TypeOK, Roles, NEW q \in Posts, SendRecovered(q)
    PROVE  Sound(q)
<1>1. RowsTyped'
  BY Parts DEF SendRecovered, RowsTyped, dbase
<1>2. CountsTyped'
  <2>1. on[q] \in Cases /\ thanked \in [Cases -> Nat]
    BY Parts DEF SendRecovered, Roles, PostRole, CountsTyped
  <2>2. thanked' \in [Cases -> Nat]
    BY <2>1 DEF SendRecovered
  <2>3. QED
    BY <2>2, Parts DEF SendRecovered, CountsTyped, counts
<1>3. QED
  BY <1>1, <1>2, Kinds, Leaving DEF SendRecovered, dbase

LEMMA FindOpenCaseSound ==
    ASSUME TypeOK, Roles, NEW k \in Captures, FindOpenCase(k)
    PROVE  Sound(k)
<1>1. ProcsTyped /\ RowsTyped /\ LinksTyped /\ CountsTyped /\ k \in Procs
  BY Parts, Kinds
<1>2. PICK i \in OpenCases : on' = [on EXCEPT ![k] = order[i]]
  BY DEF FindOpenCase
<1>3. order[i] \in Cases
  BY <1>1, <1>2 DEF OpenCases, RowsTyped
<1>4. ProcsTyped' /\ Still(k)
  BY <1>1, <1>2, <1>3 DEF FindOpenCase, ProcsTyped, Still, Places
<1>5. RowsTyped' /\ CountsTyped'
  BY <1>1 DEF FindOpenCase, RowsTyped, CountsTyped, history, counts, dbase
<1>6. tokens' \in Seq(TokenRows) /\ DOMAIN tokens' = DOMAIN tokens /\ TokensLast
  BY <1>1, SameTokens DEF FindOpenCase, dbase
<1>7. LinksTyped'
  BY <1>1, <1>6, LinksKept DEF FindOpenCase, LinksTyped, Links, history
<1>8. Role(k)'
  <2>1. on'[k] = order[i] /\ link'[k] = link[k]
    BY <1>1, <1>2 DEF FindOpenCase, ProcsTyped
  <2>2. QED
    BY <1>3, <2>1, Kinds DEF Role, CaptureRole, Roles
<1>9. QED
  BY <1>4, <1>5, <1>6, <1>7, <1>8 DEF Sound

LEMMA CaptureLeaves ==
    ASSUME TypeOK, NEW k \in Captures, NoOpenCase(k) \/ HandlerReruns(k)
    PROVE  Sound(k)
<1>1. RowsTyped' /\ CountsTyped'
  BY Parts DEF NoOpenCase, HandlerReruns, Fault, RowsTyped, CountsTyped, counts, history, dbase
<1>2. PICK place \in {"idle", "done"} : Leave(k, place)
  BY DEF NoOpenCase, HandlerReruns
<1>3. QED
  BY <1>1, <1>2, Kinds, Leaving DEF NoOpenCase, HandlerReruns, dbase, history

LEMMA CompleteOrganicSound ==
    ASSUME TypeOK, Roles, NEW k \in Captures, CompleteOrganic(k)
    PROVE  Sound(k)
<1>1. ProcsTyped /\ RowsTyped /\ LinksTyped /\ CountsTyped /\ k \in Procs
  BY Parts, Kinds
<1>2. on[k] \in Cases /\ link[k] = NoLink
  BY DEF CompleteOrganic, Roles, CaptureRole
<1>3. ProcsTyped' /\ Still(k)
  BY <1>1, LeaveTyped DEF CompleteOrganic
<1>4. RowsTyped' /\ LinksTyped'
  BY <1>1, <1>2, WinTyped DEF CompleteOrganic, Leave, LinksTyped, Links
<1>5. CountsTyped'
  BY <1>1 DEF CompleteOrganic, CountsTyped, counts
<1>6. TokensLast
  BY <1>1, SameTokens DEF CompleteOrganic
<1>7. Role(k)'
  BY <1>1, Kinds DEF CompleteOrganic, Leave, Role, CaptureRole, ProcsTyped, LinksTyped
<1>8. QED
  BY <1>3, <1>4, <1>5, <1>6, <1>7 DEF Sound

LEMMA AbandonSound ==
    ASSUME TypeOK, NEW p \in Procs, Abandon(p)
    PROVE  Sound(p)
<1>1. RowsTyped' /\ CountsTyped'
  BY Parts DEF Abandon, Fault, RowsTyped, CountsTyped, history, dbase
<1>2. QED
  BY <1>1, Leaving DEF Abandon, history, dbase

(***************************************************************************)
(* Type correctness.                                                       *)
(***************************************************************************)
LEMMA TickSound ==
    ASSUME TypeOK, Roles, Tick \/ UNCHANGED vars
    PROVE  TypeOK' /\ Roles'
<1>1. UNCHANGED <<dbase, procs, history>> /\ runs' = runs /\ faults' = faults
  BY DEF Tick, vars, counts
<1>2. now \in Nat /\ now' \in Nat
  BY DEF Tick, TypeOK, vars, counts
<1>3. TypeOK'
  BY <1>1, <1>2 DEF TypeOK, dbase, procs, history
<1>4. Roles'
  BY <1>1 DEF Roles, SenderRole, PostRole, CaptureRole, dbase, procs
<1>5. QED
  BY <1>3, <1>4

LEMMA SendSound ==
    ASSUME TypeOK, Roles, NEW s \in Senders, Send(s)
    PROVE  Sound(s)
  BY SupersedeSound, CreateTokenSound, CreateMessageLogSound, SkipDuplicateSound,
     ProviderSound, MarkMessageSound, Zenon DEF Send

LEMMA ClimbSound ==
    ASSUME TypeOK, Roles, NEW l \in Ladders, Climb(l)
    PROVE  Sound(l)
  BY HaltSound, MarkAttemptExecutedSound, ScheduleNextRungSound, ExhaustLadderSound, Zenon
  DEF Climb

(* The statements of a process.                                            *)
SenderStep(s) ==
    /\ s \in Senders
    /\ Send(s) \/ ProviderFails(s) \/ MarkSentRejects(s)

CaseStep(c) == c \in Cases /\ (OpenCase(c) \/ ScheduleFirstAttempt(c))

LadderStep(l) ==
    /\ l \in Ladders
    /\ Climb(l) \/ \E c \in Cases, n \in Rungs : PickDueAttempt(l, c, n)

PostStep(q) == q \in Posts /\ submitPaymentUpdate(q)

CaptureStep(k) == k \in Captures /\ (handlePaymentCaptured(k) \/ HandlerReruns(k))

StepOf(p) ==
    \/ SenderStep(p) \/ CaseStep(p) \/ LadderStep(p) \/ PostStep(p) \/ CaptureStep(p)
    \/ Abandon(p)

LEMMA StepsAreSound ==
    ASSUME TypeOK, Roles, NEW p \in Procs, StepOf(p)
    PROVE  Sound(p)
<1>1. CASE SenderStep(p)
  BY <1>1, SendSound, ProviderSound, MarkSentRejectsSound, Zenon DEF SenderStep
<1>2. CASE CaseStep(p)
  BY <1>2, OpenCaseSound, ScheduleFirstAttemptSound, Zenon DEF CaseStep
<1>3. CASE LadderStep(p)
  BY <1>3, ClimbSound, PickDueAttemptSound, Zenon DEF LadderStep
<1>4. CASE PostStep(p)
  BY <1>4, ValidateTokenSound, MarkUsedSound, CompleteRecoverySound, SendRecoveredSound, Zenon
  DEF PostStep, submitPaymentUpdate
<1>5. CASE CaptureStep(p)
  BY <1>5, FindOpenCaseSound, CaptureLeaves, CompleteOrganicSound, Zenon
  DEF CaptureStep, handlePaymentCaptured
<1>6. CASE Abandon(p)
  BY <1>6, AbandonSound
<1>7. QED
  BY <1>1, <1>2, <1>3, <1>4, <1>5, <1>6 DEF StepOf

(* Every step is one of these, or the clock's.                             *)
LEMMA Steps ==
    ASSUME [Next]_vars
    PROVE  Tick \/ UNCHANGED vars \/ \E p \in Procs : StepOf(p)
<1>1. ASSUME NEW c \in Cases, handlePaymentFailed(c) PROVE c \in Procs /\ StepOf(c)
  BY <1>1, Kinds DEF handlePaymentFailed, StepOf, CaseStep, SenderStep
<1>2. ASSUME NEW l \in Ladders,
             runDueAttempt(l) \/ \E c \in Cases, n \in Rungs : PickDueAttempt(l, c, n)
      PROVE  l \in Procs /\ StepOf(l)
  BY <1>2, Kinds DEF runDueAttempt, StepOf, LadderStep, SenderStep
<1>3. ASSUME NEW q \in Posts, submitPaymentUpdate(q) PROVE q \in Procs /\ StepOf(q)
  BY <1>3, Kinds DEF StepOf, PostStep
<1>4. ASSUME NEW k \in Captures, handlePaymentCaptured(k) \/ HandlerReruns(k)
      PROVE  k \in Procs /\ StepOf(k)
  BY <1>4, Kinds DEF StepOf, CaptureStep
<1>5. ASSUME NEW s \in Senders, ProviderFails(s) \/ MarkSentRejects(s)
      PROVE  s \in Procs /\ StepOf(s)
  BY <1>5, Kinds DEF StepOf, SenderStep
<1>6. ASSUME NEW p \in Procs, Abandon(p) PROVE StepOf(p)
  BY <1>6 DEF StepOf
<1>7. QED
  BY <1>1, <1>2, <1>3, <1>4, <1>5, <1>6 DEF Next

(* Every statement of every process keeps all variables within their types *)
(* and lets each process carry what its next statement needs.              *)
LEMMA TypeStep == TypeOK /\ Roles /\ [Next]_vars => TypeOK' /\ Roles'
  BY Steps, StepsAreSound, SoundStep, TickSound

LEMMA TypeInit == Init => TypeOK /\ Roles
<1> SUFFICES ASSUME Init PROVE TypeOK /\ Roles
  OBVIOUS
<1>1. ProcsTyped /\ CountsTyped
  BY DEF Init, ProcsTyped, CountsTyped, Places
<1>2. RowsTyped
  BY DEF Init, RowsTyped, CaseRows, Attempts, Logs
<1>3. LinksTyped
  BY DEF Init, LinksTyped, Links
<1>4. Roles
  BY Kinds DEF Init, Roles, SenderRole, PostRole, CaptureRole
<1>5. QED
  BY <1>1, <1>2, <1>3, <1>4, Parts

LEMMA RolesInvariant == Spec => [](TypeOK /\ Roles)
<1>1. QED
  BY TypeInit, TypeStep, PTL DEF Spec

(* All variables of the recovery keep their types.                         *)
THEOREM TypeCorrect == Spec => []TypeOK
  BY RolesInvariant, PTL

(***************************************************************************)
(* One reminder per attempt.                                               *)
(***************************************************************************)

(* A sender that is about to call the provider owns the attempt's log row, *)
(* and nothing was mailed for the attempt.                                 *)
MayMail ==
    /\ \A c \in Cases, n \in Rungs : log[c][n] = "NONE" => delivered[c][n] = <<>>
    /\ \A s \in Senders :
          at[s] = "send" => /\ log[on[s]][rung[s]] # "NONE"
                            /\ delivered[on[s]][rung[s]] = <<>>
    /\ \A s, t \in Senders :
          at[s] = "send" /\ at[t] = "send" /\ on[s] = on[t] /\ rung[s] = rung[t] => s = t

Reminding == MayMail /\ AtMostOneReminder

(* No log row is deleted.                                                  *)
LogsLast == \A c \in Cases, n \in Rungs : log'[c][n] = "NONE" => log[c][n] = "NONE"

LEMMA RemindingKept ==
    ASSUME Roles, Reminding, NEW p \in Procs, Still(p), at'[p] # "send",
           delivered' = delivered, LogsLast
    PROVE  Reminding'
<1>1. ASSUME NEW s \in Senders, at'[s] = "send"
      PROVE  /\ at[s] = "send" /\ on'[s] = on[s] /\ rung'[s] = rung[s]
             /\ on[s] \in Cases /\ rung[s] \in Rungs
  BY <1>1, Kinds DEF Still, Roles, SenderRole
<1>2. QED
  BY <1>1 DEF Reminding, MayMail, AtMostOneReminder, LogsLast

(* All statements but those between the log row and the provider's answer. *)
LEMMA MailsNothing ==
    ASSUME TypeOK, Roles, NEW p \in Procs, StepOf(p),
           ~(p \in Senders /\ (CreateMessageLog(p) \/ ProviderSends(p) \/ ProviderFails(p)))
    PROVE  at'[p] # "send" /\ delivered' = delivered /\ LogsLast
<1>1. ProcsTyped /\ RowsTyped
  BY Parts, Zenon
<1>2. CASE SenderStep(p)
  <2>1. CASE SupersedeActiveTokens(p)
    BY <1>1, <2>1 DEF SupersedeActiveTokens, ProcsTyped, LogsLast, history
  <2>2. CASE CreateToken(p)
    BY <1>1, <2>2 DEF CreateToken, ProcsTyped, LogsLast, history
  <2>3. CASE SkipDuplicate(p)
    BY <1>1, <2>3 DEF SkipDuplicate, AfterMessage, EndMessage, Leave, ProcsTyped, LogsLast,
                      history, dbase
  <2>4. CASE MarkSent(p) \/ MarkFailed(p)
    <3>1. on[p] \in Cases /\ rung[p] \in Rungs
      BY <1>2, <2>4, SenderPlace DEF SenderStep, MarkSent, MarkFailed, MarkMessage
    <3>2. PICK r \in {"SENT", "FAILED"} : log' = [log EXCEPT ![on[p]][rung[p]] = r]
      BY <2>4 DEF MarkSent, MarkFailed, MarkMessage
    <3>3. LogsLast
      BY <1>1, <3>1, <3>2 DEF LogsLast, RowsTyped
    <3>4. AfterMessage(p) /\ delivered' = delivered
      BY <2>4 DEF MarkSent, MarkFailed, MarkMessage, history
    <3>5. QED
      BY <1>1, <3>3, <3>4 DEF AfterMessage, EndMessage, Leave, ProcsTyped
  <2>5. CASE MarkSentRejects(p)
    BY <1>1, <2>5 DEF MarkSentRejects, Goto, ProcsTyped, LogsLast, history, dbase
  <2>6. QED
    BY <1>2, <2>1, <2>2, <2>3, <2>4, <2>5 DEF SenderStep, Send
<1>3. CASE CaseStep(p)
  BY <1>1, <1>3 DEF CaseStep, OpenCase, ScheduleFirstAttempt, ProcsTyped, LogsLast, history
<1>4. CASE LadderStep(p)
  <2>1. CASE Climb(p)
    BY <1>1, <2>1 DEF Climb, Halt, MarkAttemptExecuted, ScheduleNextRung, ExhaustLadder, Goto,
                      Leave, ProcsTyped, LogsLast, history
  <2>2. CASE ~Climb(p)
    BY <1>1, <1>4, <2>2 DEF LadderStep, PickDueAttempt, ProcsTyped, LogsLast, history, dbase
  <2>3. QED
    BY <2>1, <2>2
<1>5. CASE PostStep(p)
  BY <1>1, <1>5 DEF PostStep, submitPaymentUpdate, ValidateToken, MarkUsed, CompleteRecovery,
                    SendRecovered, Goto, Leave, ProcsTyped, LogsLast, history, dbase
<1>6. CASE CaptureStep(p)
  BY <1>1, <1>6 DEF CaptureStep, handlePaymentCaptured, FindOpenCase, NoOpenCase,
                    CompleteOrganic, HandlerReruns, Leave, ProcsTyped, LogsLast, history, dbase
<1>7. CASE Abandon(p)
  BY <1>1, <1>7 DEF Abandon, Leave, ProcsTyped, LogsLast, history, dbase
<1>8. QED
  BY <1>2, <1>3, <1>4, <1>5, <1>6, <1>7 DEF StepOf

LEMMA RemindingStep == TypeOK /\ Roles /\ Reminding /\ [Next]_vars => Reminding'
<1> SUFFICES ASSUME TypeOK, Roles, Reminding, [Next]_vars PROVE Reminding'
  OBVIOUS
<1>1. CASE Tick \/ UNCHANGED vars
  BY <1>1 DEF Tick, vars, dbase, procs, history, Reminding, MayMail, AtMostOneReminder
<1>2. ASSUME NEW p \in Procs, StepOf(p) PROVE Reminding'
  <2>1. Sound(p) /\ Still(p) /\ ProcsTyped /\ RowsTyped /\ LinksTyped
    BY <1>2, StepsAreSound, Parts DEF Sound
  <2>2. CASE p \in Senders /\ CreateMessageLog(p)
    <3>1. p \in Senders
      BY <2>2
    <3>2. on[p] \in Cases /\ rung[p] \in Rungs /\ at[p] = "log" /\ log[on[p]][rung[p]] = "NONE"
      BY <2>2, <3>1, SenderPlace DEF CreateMessageLog, LogIsFree
    <3>3. /\ log' = [log EXCEPT ![on[p]][rung[p]] = "PENDING"] /\ delivered' = delivered
          /\ on'[p] = on[p] /\ rung'[p] = rung[p]
      BY <2>2 DEF CreateMessageLog, Goto, history
    <3>4. \A c \in Cases, n \in Rungs :
             log'[c][n] = IF c = on[p] /\ n = rung[p] THEN "PENDING" ELSE log[c][n]
      BY <2>1, <3>2, <3>3 DEF RowsTyped
    <3>5. \A s \in Senders \ {p} : at'[s] = at[s] /\ on'[s] = on[s] /\ rung'[s] = rung[s]
      BY <2>1, Kinds DEF Still
    <3>6. \A s \in Senders : at[s] = "send" => on[s] \in Cases /\ rung[s] \in Rungs
      BY DEF Roles, SenderRole
    <3>7. QED
      BY <3>1, <3>2, <3>3, <3>4, <3>5, <3>6 DEF Reminding, MayMail, AtMostOneReminder
  <2>3. CASE p \in Senders /\ (ProviderSends(p) \/ ProviderFails(p))
    <3>1. p \in Senders
      BY <2>3
    <3>2. on[p] \in Cases /\ rung[p] \in Rungs /\ at[p] = "send"
      BY <2>3, <3>1, SenderPlace DEF ProviderSends, ProviderFails
    <3>3. /\ log' = log /\ at'[p] # "send"
          /\ Deliver(p) \/ delivered' = delivered
      BY <2>1, <2>3 DEF ProviderSends, ProviderFails, Goto, dbase, ProcsTyped
    <3>4. /\ \A c \in Cases, n \in Rungs :
                c # on[p] \/ n # rung[p] => delivered'[c][n] = delivered[c][n]
          /\ Len(delivered'[on[p]][rung[p]]) <= 1
      <4>1. delivered[on[p]][rung[p]] = <<>>
        BY <3>1, <3>2 DEF Reminding, MayMail
      <4>2. PICK q : q = Append(<<>>, link[p])
        OBVIOUS
      <4>3. Len(q) = 1
        BY <4>2
      <4>4. delivered' = [delivered EXCEPT ![on[p]][rung[p]] = q] \/ delivered' = delivered
        BY <3>3, <4>1, <4>2, Zenon DEF Deliver
      <4>5. delivered \in [Cases -> [Rungs -> Seq(Links)]]
        BY <2>1 DEF LinksTyped
      <4>6. CASE delivered' = [delivered EXCEPT ![on[p]][rung[p]] = q]
        <5>1. \A c \in Cases, n \in Rungs :
                 delivered'[c][n] = IF c = on[p] /\ n = rung[p] THEN q ELSE delivered[c][n]
          BY <3>2, <4>5, <4>6, CellUpdated
        <5>2. delivered'[on[p]][rung[p]] = q
          BY <3>2, <5>1
        <5>3. Len(delivered'[on[p]][rung[p]]) = 1
          BY <4>3, <5>2, Zenon
        <5>4. QED
          BY <5>1, <5>3
      <4>7. CASE delivered' = delivered
        BY <4>1, <4>7
      <4>8. QED
        BY <4>4, <4>6, <4>7
    <3>5. \A s \in Senders \ {p} : at'[s] = at[s] /\ on'[s] = on[s] /\ rung'[s] = rung[s]
      BY <2>1, Kinds DEF Still
    <3>6. \A s \in Senders : at[s] = "send" => on[s] \in Cases /\ rung[s] \in Rungs
      BY DEF Roles, SenderRole
    <3>7. QED
      BY <3>1, <3>2, <3>3, <3>4, <3>5, <3>6 DEF Reminding, MayMail, AtMostOneReminder
  <2>4. CASE ~(p \in Senders /\ (CreateMessageLog(p) \/ ProviderSends(p) \/ ProviderFails(p)))
    BY <1>2, <2>1, <2>4, MailsNothing, RemindingKept
  <2>5. QED
    BY <2>2, <2>3, <2>4
<1>3. QED
  BY <1>1, <1>2, Steps

(* However handler re-runs and ladder workers overlap and whatever fails:  *)
(* no attempt is reminded of twice.                                        *)
THEOREM RemindersAreUnique == Spec => []AtMostOneReminder
<1>1. Init => Reminding
  BY Kinds DEF Init, Reminding, MayMail, AtMostOneReminder
<1>2. Reminding => AtMostOneReminder
  BY DEF Reminding
<1>3. QED
  BY <1>1, <1>2, RemindingStep, RolesInvariant, PTL DEF Spec

(***************************************************************************)
(* The ladder is climbed in order.                                         *)
(***************************************************************************)

(* A slot works on a rung that exists, and comes to the next one only when *)
(* its own was executed.                                                   *)
Climbing ==
    \A l \in Ladders :
        /\ at[l] # "idle" => attempt[on[l]][rung[l]] # "NONE"
        /\ at[l] = "next" => Executed(on[l], rung[l])

(* A ladder slot is at work on a case and a rung.                          *)
LadderAtWork == \A l \in Ladders : at[l] # "attempt"

Ordered == LadderAtWork /\ Climbing /\ LadderOrder

(* No case or attempt is deleted, and an executed attempt stays so.        *)
RowsLast ==
    \A c \in Cases :
        /\ case[c].status # "NONE" => case'[c].status # "NONE"
        /\ \A n \in Rungs :
              /\ attempt[c][n] # "NONE" => attempt'[c][n] # "NONE"
              /\ Executed(c, n) => Executed(c, n)'

(* A new rung has an executed one below it; a case that is given up now    *)
(* has reached the top.                                                    *)
RungsInOrder ==
    \A c \in Cases :
        /\ \A n \in 1..(MaxRung - 1) :
              attempt[c][n + 1] = "NONE" /\ attempt'[c][n + 1] # "NONE" => Executed(c, n)
        /\ case'[c].status = "FAILED" => case[c].status = "FAILED" \/ Executed(c, MaxRung)

SlotClimbs(l) ==
    l \in Ladders =>
        /\ at'[l] # "attempt"
        /\ at'[l] # "idle" => attempt'[on'[l]][rung'[l]] # "NONE"
        /\ at'[l] = "next" => Executed(on[l], rung[l])'

LEMMA OrderedKept ==
    ASSUME Roles, Ordered, NEW p \in Procs, Still(p), RowsLast, RungsInOrder, SlotClimbs(p)
    PROVE  Ordered'
<1>1. ASSUME NEW l \in Ladders
      PROVE  /\ at'[l] # "attempt"
             /\ at'[l] # "idle" => attempt'[on'[l]][rung'[l]] # "NONE"
             /\ at'[l] = "next" => Executed(on[l], rung[l])'
  <2>1. CASE l = p
    BY <2>1 DEF SlotClimbs
  <2>2. CASE l # p
    <3>1. at'[l] = at[l] /\ on'[l] = on[l] /\ rung'[l] = rung[l] /\ at[l] # "attempt"
      BY <2>2, Kinds DEF Still, Ordered, LadderAtWork
    <3>2. at[l] # "idle" => on[l] \in Cases /\ rung[l] \in Rungs
      BY <3>1, Kinds DEF Roles, SenderRole
    <3>3. /\ at[l] # "idle" => attempt[on[l]][rung[l]] # "NONE"
          /\ at[l] = "next" => Executed(on[l], rung[l])
      BY DEF Ordered, Climbing
    <3>4. QED
      BY <3>1, <3>2, <3>3 DEF RowsLast, Executed
  <2>3. QED
    BY <2>1, <2>2
<1>2. LadderOrder'
  BY DEF Ordered, LadderOrder, RowsLast, RungsInOrder, Rungs, MaxRung, Executed
<1>3. QED
  BY <1>1, <1>2 DEF Ordered, LadderAtWork, Climbing, Executed

(* Statements that leave attempts and case statuses alone.                 *)
LEMMA LeavesTheLadder ==
    ASSUME attempt' = attempt, case' = case
    PROVE  RowsLast /\ RungsInOrder
  BY DEF RowsLast, RungsInOrder, Executed

LEMMA CreatesARung ==
    ASSUME RowsTyped, NEW c \in Cases, NEW n \in Rungs, createAttempt(c, n), case' = case,
           n > 1 => Executed(c, n - 1)
    PROVE  RowsLast /\ RungsInOrder /\ attempt'[c][n] # "NONE"
<1>1. attempt \in [Cases -> [Rungs -> Attempts]]
  BY DEF RowsTyped
<1>2. PICK r \in Attempts : r = (IF findAttempt(c, n) THEN attempt[c][n] ELSE "PENDING")
  BY <1>1 DEF Attempts
<1>3. attempt' = [attempt EXCEPT ![c][n] = r]
  BY <1>2, Zenon DEF createAttempt
<1>4. \A d \in Cases, m \in Rungs :
         attempt'[d][m] = IF d = c /\ m = n THEN r ELSE attempt[d][m]
  BY <1>1, <1>3, CellUpdated
<1>5. r # "NONE" /\ (attempt[c][n] # "NONE" => r = attempt[c][n])
  BY <1>2 DEF findAttempt
<1>6. RowsLast /\ attempt'[c][n] # "NONE"
  BY <1>4, <1>5 DEF RowsLast, Executed
<1>7. RungsInOrder
  BY <1>4 DEF RungsInOrder, Executed, Rungs, MaxRung
<1>8. QED
  BY <1>6, <1>7

LEMMA EndsARung ==
    ASSUME RowsTyped, NEW c \in Cases, NEW n \in Rungs, NEW r \in {"SUCCESS", "FAILED"},
           attempt[c][n] # "NONE", attempt' = [attempt EXCEPT ![c][n] = r], case' = case
    PROVE  RowsLast /\ RungsInOrder /\ attempt'[c][n] = r
<1>1. attempt \in [Cases -> [Rungs -> Attempts]]
  BY DEF RowsTyped
<1>2. \A d \in Cases, m \in Rungs :
         attempt'[d][m] = IF d = c /\ m = n THEN r ELSE attempt[d][m]
  BY <1>1, CellUpdated
<1>3. RowsLast /\ attempt'[c][n] = r
  BY <1>2 DEF RowsLast, Executed
<1>4. RungsInOrder
  BY <1>2 DEF RungsInOrder, Executed, Rungs, MaxRung
<1>5. QED
  BY <1>3, <1>4

LEMMA WritesACase ==
    ASSUME RowsTyped, NEW c \in Cases, NEW r, case' = [case EXCEPT ![c] = r], attempt' = attempt,
           r.status # "NONE", r.status # "FAILED" \/ Executed(c, MaxRung)
    PROVE  RowsLast /\ RungsInOrder
  BY DEF RowsTyped, RowsLast, RungsInOrder, Executed

LEMMA SendClimbs ==
    ASSUME TypeOK, Roles, Ordered, NEW s \in Senders, Send(s) \/ ProviderFails(s) \/ MarkSentRejects(s)
    PROVE  RowsLast /\ RungsInOrder /\ SlotClimbs(s)
<1>1. ProcsTyped /\ s \in Procs
  BY Parts, Kinds
<1>2. attempt' = attempt /\ case' = case
  BY DEF Send, SupersedeActiveTokens, CreateToken, CreateMessageLog, SkipDuplicate, ProviderSends,
         ProviderFails, MarkSent, MarkFailed, MarkMessage, MarkSentRejects, dbase
<1>3. ASSUME s \in Ladders
      PROVE  /\ at'[s] \notin {"attempt", "next"} /\ on'[s] = on[s] /\ rung'[s] = rung[s]
             /\ at[s] # "idle"
  <2>1. CASE SupersedeActiveTokens(s) \/ CreateToken(s) \/ CreateMessageLog(s)
    BY <1>1, <2>1 DEF SupersedeActiveTokens, CreateToken, CreateMessageLog, Goto, ProcsTyped
  <2>2. CASE SkipDuplicate(s) \/ MarkSent(s) \/ MarkFailed(s)
    <3>1. AfterMessage(s) /\ at[s] # "idle" /\ s \notin Cases
      BY <1>3, <2>2, Kinds DEF SkipDuplicate, MarkSent, MarkFailed, MarkMessage
    <3>2. QED
      BY <1>1, <3>1 DEF AfterMessage, EndMessage, ProcsTyped
  <2>3. CASE ProviderSends(s) \/ ProviderFails(s) \/ MarkSentRejects(s)
    BY <1>1, <2>3 DEF ProviderSends, ProviderFails, MarkSentRejects, Goto, ProcsTyped
  <2>4. QED
    BY <2>1, <2>2, <2>3 DEF Send
<1>4. QED
  BY <1>2, <1>3, LeavesTheLadder DEF SlotClimbs, Ordered, Climbing

LEMMA SlotStepClimbs ==
    ASSUME TypeOK, Roles, Ordered, NEW l \in Procs, LadderStep(l)
    PROVE  RowsLast /\ RungsInOrder /\ SlotClimbs(l)
<1>1. ProcsTyped /\ RowsTyped /\ l \in Ladders /\ l \in Senders
  BY Parts, Kinds DEF LadderStep
<1>2. /\ at[l] # "idle" => attempt[on[l]][rung[l]] # "NONE"
      /\ at[l] = "next" => Executed(on[l], rung[l])
  BY <1>1 DEF Ordered, Climbing
<1>3. CASE Halt(l)
  <2>1. on[l] \in Cases /\ rung[l] \in Rungs
    BY <1>1, <1>3, SenderPlace DEF Halt
  <2>2. RowsLast /\ RungsInOrder
    BY <1>1, <1>2, <1>3, <2>1, EndsARung DEF Halt
  <2>3. at'[l] = "idle"
    BY <1>1, <1>3 DEF Halt, Leave, ProcsTyped
  <2>4. QED
    BY <2>2, <2>3 DEF SlotClimbs
<1>4. CASE MarkAttemptExecuted(l)
  <2>1. on[l] \in Cases /\ rung[l] \in Rungs
    BY <1>1, <1>4, SenderPlace DEF MarkAttemptExecuted
  <2>2. RowsLast /\ RungsInOrder /\ attempt'[on[l]][rung[l]] = "SUCCESS"
    BY <1>1, <1>2, <1>4, <2>1, EndsARung DEF MarkAttemptExecuted
  <2>3. at'[l] = "next" /\ on'[l] = on[l] /\ rung'[l] = rung[l]
    BY <1>1, <1>4 DEF MarkAttemptExecuted, Goto, ProcsTyped
  <2>4. QED
    BY <2>2, <2>3 DEF SlotClimbs, Executed
<1>5. CASE ScheduleNextRung(l)
  <2>1. on[l] \in Cases /\ rung[l] \in Rungs /\ rung[l] + 1 \in Rungs /\ (rung[l] + 1) - 1 = rung[l]
    BY <1>1, <1>5, SenderPlace DEF ScheduleNextRung, Rungs, MaxRung
  <2>2. RowsLast /\ RungsInOrder
    BY <1>1, <1>2, <1>5, <2>1, CreatesARung DEF ScheduleNextRung
  <2>3. at'[l] = "idle"
    BY <1>1, <1>5 DEF ScheduleNextRung, Leave, ProcsTyped
  <2>4. QED
    BY <2>2, <2>3 DEF SlotClimbs
<1>6. CASE ExhaustLadder(l)
  <2>1. on[l] \in Cases
    BY <1>1, <1>6, SenderPlace DEF ExhaustLadder
  <2>2. Executed(on[l], MaxRung)
    BY <1>2, <1>6 DEF ExhaustLadder
  <2>3. RowsLast /\ RungsInOrder
    <3>1. PICK r : r = [case[on[l]] EXCEPT !.status = "FAILED"]
      OBVIOUS
    <3>2. case[on[l]] \in CaseRows
      BY <1>1, <2>1 DEF RowsTyped
    <3>3. r.status = "FAILED"
      BY <3>1, <3>2 DEF CaseRows
    <3>4. case' = [case EXCEPT ![on[l]] = r] /\ attempt' = attempt
      BY <1>6, <3>1, Zenon DEF ExhaustLadder
    <3>5. QED
      BY <1>1, <2>1, <2>2, <3>3, <3>4, WritesACase
  <2>4. at'[l] = "idle"
    BY <1>1, <1>6 DEF ExhaustLadder, Leave, ProcsTyped
  <2>5. QED
    BY <2>3, <2>4 DEF SlotClimbs
<1>7. ASSUME NEW c \in Cases, NEW n \in Rungs, PickDueAttempt(l, c, n)
      PROVE  RowsLast /\ RungsInOrder /\ SlotClimbs(l)
  <2>1. attempt' = attempt /\ case' = case
    BY <1>7 DEF PickDueAttempt, dbase
  <2>2. on'[l] = c /\ rung'[l] = n /\ at'[l] \notin {"attempt", "next"} /\ attempt[c][n] # "NONE"
    BY <1>1, <1>7 DEF PickDueAttempt, ProcsTyped, Due
  <2>3. QED
    BY <2>1, <2>2, LeavesTheLadder DEF SlotClimbs
<1>8. QED
  BY <1>3, <1>4, <1>5, <1>6, <1>7 DEF LadderStep, Climb

(* What OrderedKept asks of a statement, every statement gives.            *)
LEMMA StepClimbs ==
    ASSUME TypeOK, Roles, Ordered, NEW p \in Procs, StepOf(p)
    PROVE  RowsLast /\ RungsInOrder /\ SlotClimbs(p)
<1>1. Still(p) /\ ProcsTyped /\ RowsTyped
  BY StepsAreSound, Parts DEF Sound
<1>2. CASE SenderStep(p)
  BY <1>1, <1>2, SendClimbs DEF SenderStep
<1>3. CASE LadderStep(p)
  BY <1>1, <1>3, SlotStepClimbs
<1>4. CASE CaseStep(p)
  <2>1. p \in Cases /\ SlotClimbs(p)
    BY <1>4, Kinds DEF CaseStep, SlotClimbs
  <2>2. CASE OpenCase(p)
    <3>1. PICK r : r = [case[p] EXCEPT !.status = "OPEN", !.created = now]
      OBVIOUS
    <3>2. case[p] \in CaseRows
      BY <1>1, <2>1 DEF RowsTyped
    <3>3. r.status = "OPEN"
      BY <3>1, <3>2 DEF CaseRows
    <3>4. attempt' = attempt /\ (case' = [case EXCEPT ![p] = r] \/ case' = case)
      BY <2>2, <3>1, Zenon DEF OpenCase
    <3>5. RowsLast /\ RungsInOrder
      BY <1>1, <2>1, <3>3, <3>4, WritesACase, LeavesTheLadder
    <3>6. QED
      BY <2>1, <3>5
  <2>3. CASE ScheduleFirstAttempt(p)
    <3>1. 1 \in Rungs
      BY DEF Rungs, MaxRung
    <3>2. RowsLast /\ RungsInOrder
      BY <1>1, <2>1, <2>3, <3>1, CreatesARung DEF ScheduleFirstAttempt
    <3>3. QED
      BY <1>1, <2>1, <3>2
  <2>4. QED
    BY <1>4, <2>2, <2>3 DEF CaseStep
<1>5. CASE PostStep(p) \/ CaptureStep(p)
  <2>1. SlotClimbs(p)
    BY <1>5, Kinds DEF PostStep, CaptureStep, SlotClimbs
  <2>2. /\ attempt' = attempt
        /\ case' = case \/ (on[p] \in Cases /\ \E via \in {"LINK", "ORGANIC"} : MarkRecovered(p, via))
    BY <1>5 DEF PostStep, submitPaymentUpdate, ValidateToken, MarkUsed, CompleteRecovery,
                SendRecovered, CaptureStep, handlePaymentCaptured, FindOpenCase, NoOpenCase,
                CompleteOrganic, HandlerReruns, dbase, Roles, PostRole, CaptureRole
  <2>3. CASE case' = case
    BY <1>1, <2>1, <2>2, <2>3, LeavesTheLadder
  <2>4. ASSUME on[p] \in Cases, NEW via \in {"LINK", "ORGANIC"}, MarkRecovered(p, via)
        PROVE  RowsLast /\ RungsInOrder /\ SlotClimbs(p)
    <3>1. PICK r : r = [case[on[p]] EXCEPT !.status = "RECOVERED", !.via = via]
      OBVIOUS
    <3>2. case[on[p]] \in CaseRows
      BY <1>1, <2>4 DEF RowsTyped
    <3>3. r.status = "RECOVERED"
      BY <3>1, <3>2 DEF CaseRows
    <3>4. case' = [case EXCEPT ![on[p]] = r]
      BY <2>4, <3>1, Zenon DEF MarkRecovered
    <3>5. QED
      BY <1>1, <2>1, <2>2, <2>4, <3>3, <3>4, WritesACase
  <2>5. QED
    BY <2>2, <2>3, <2>4
<1>6. CASE Abandon(p)
  <2>1. attempt' = attempt /\ case' = case /\ at'[p] = "idle"
    BY <1>1, <1>6 DEF Abandon, Leave, ProcsTyped, dbase
  <2>2. QED
    BY <1>1, <2>1, LeavesTheLadder DEF SlotClimbs
<1>7. QED
  BY <1>2, <1>3, <1>4, <1>5, <1>6 DEF StepOf

LEMMA OrderedStep == TypeOK /\ Roles /\ Ordered /\ [Next]_vars => Ordered'
<1> SUFFICES ASSUME TypeOK, Roles, Ordered, [Next]_vars PROVE Ordered'
  OBVIOUS
<1>1. CASE Tick \/ UNCHANGED vars
  BY <1>1 DEF Tick, vars, dbase, procs, Ordered, LadderAtWork, Climbing, LadderOrder, Executed
<1>2. ASSUME NEW p \in Procs, StepOf(p) PROVE Ordered'
  <2>1. Still(p) /\ RowsLast /\ RungsInOrder /\ SlotClimbs(p)
    BY <1>2, StepsAreSound, StepClimbs DEF Sound
  <2>2. QED
    BY <2>1, OrderedKept
<1>3. QED
  BY <1>1, <1>2, Steps

(* However many slots hold old copies of attempts: a rung appears only     *)
(* above an executed one, and only the top gives a case up.                *)
THEOREM LadderIsOrdered == Spec => []LadderOrder
<1>1. Init => Ordered
  BY Kinds DEF Init, Ordered, LadderAtWork, Climbing, LadderOrder, Executed, Rungs, MaxRung
<1>2. Ordered => LadderOrder
  BY DEF Ordered
<1>3. QED
  BY <1>1, <1>2, OrderedStep, RolesInvariant, PTL DEF Spec

(***************************************************************************)
(* One active link per minter.                                             *)
(***************************************************************************)

(* A sender that is about to mint has superseded what it minted before.    *)
ClearedToMint ==
    \A s \in Senders : at[s] = "mint" =>
        \A t \in DOMAIN tokens :
            tokens[t].case = on[s] /\ tokens[t].minter = s => ~Active(t)

Minting == ClearedToMint /\ OneActiveLinkPerMinter

(* A token that is not active never is again.                              *)
LEMMA StaysInactive ==
    ASSUME LinksTyped, now \in Nat, now' \in Nat, now' >= now, TokensLast,
           NEW t \in DOMAIN tokens, Active(t)'
    PROVE  Active(t) /\ t \in DOMAIN tokens'
<1>1. tokens[t].expires \in Nat
  BY TokenFields DEF LinksTyped
<1>2. QED
  BY <1>1 DEF Active, TokensLast

LEMMA MintingKept ==
    ASSUME LinksTyped, Roles, Minting, NEW p \in Procs, Still(p), at'[p] # "mint", TokensLast,
           DOMAIN tokens' = DOMAIN tokens, now \in Nat, now' = now
    PROVE  Minting'
<1>1. \A t \in DOMAIN tokens : Active(t)' => Active(t)
  BY StaysInactive
<1>2. \A t \in DOMAIN tokens :
         tokens'[t].case = tokens[t].case /\ tokens'[t].minter = tokens[t].minter
  BY DEF TokensLast
<1>3. \A s \in Senders : at'[s] = "mint" => at[s] = "mint" /\ on'[s] = on[s]
  BY Kinds DEF Still
<1>4. ClearedToMint'
  BY <1>1, <1>2, <1>3 DEF Minting, ClearedToMint
<1>5. OneActiveLinkPerMinter'
  BY <1>1, <1>2 DEF Minting, OneActiveLinkPerMinter
<1>6. QED
  BY <1>4, <1>5 DEF Minting

(* All statements but the two of createPaymentUpdateToken.                 *)
LEMMA MintsNothing ==
    ASSUME TypeOK, Roles, NEW p \in Procs, StepOf(p),
           ~(p \in Senders /\ (SupersedeActiveTokens(p) \/ CreateToken(p)))
    PROVE  at'[p] # "mint" /\ DOMAIN tokens' = DOMAIN tokens /\ now' = now
<1>1. ProcsTyped /\ LinksTyped
  BY Parts, Zenon
<1>2. CASE SenderStep(p)
  <2>1. CASE SkipDuplicate(p) \/ MarkSent(p) \/ MarkFailed(p)
    <3>1. AfterMessage(p) /\ tokens' = tokens /\ now' = now
      BY <2>1 DEF SkipDuplicate, MarkSent, MarkFailed, MarkMessage, dbase, counts
    <3>2. QED
      BY <1>1, <3>1 DEF AfterMessage, EndMessage, Leave, ProcsTyped
  <2>2. CASE CreateMessageLog(p) \/ ProviderSends(p) \/ ProviderFails(p) \/ MarkSentRejects(p)
    BY <1>1, <2>2 DEF CreateMessageLog, ProviderSends, ProviderFails, MarkSentRejects, Goto,
                      ProcsTyped, dbase, counts
  <2>3. QED
    BY <1>2, <2>1, <2>2 DEF SenderStep, Send
<1>3. CASE CaseStep(p)
  BY <1>1, <1>3 DEF CaseStep, OpenCase, ScheduleFirstAttempt, ProcsTyped, counts
<1>4. CASE LadderStep(p)
  <2>1. CASE Climb(p)
    BY <1>1, <2>1 DEF Climb, Halt, MarkAttemptExecuted, ScheduleNextRung, ExhaustLadder, Goto,
                      Leave, ProcsTyped, counts
  <2>2. CASE ~Climb(p)
    BY <1>1, <1>4, <2>2 DEF LadderStep, PickDueAttempt, ProcsTyped, counts, dbase
  <2>3. QED
    BY <2>1, <2>2
<1>5. CASE PostStep(p)
  BY <1>1, <1>5 DEF PostStep, submitPaymentUpdate, ValidateToken, MarkUsed, CompleteRecovery,
                    SendRecovered, Goto, Leave, ProcsTyped, counts, dbase
<1>6. CASE CaptureStep(p)
  BY <1>1, <1>6 DEF CaptureStep, handlePaymentCaptured, FindOpenCase, NoOpenCase,
                    CompleteOrganic, HandlerReruns, Leave, ProcsTyped, counts, dbase
<1>7. CASE Abandon(p)
  BY <1>1, <1>7 DEF Abandon, Leave, ProcsTyped, dbase
<1>8. QED
  BY <1>2, <1>3, <1>4, <1>5, <1>6, <1>7 DEF StepOf

LEMMA MintingStep == TypeOK /\ Roles /\ Minting /\ [Next]_vars => Minting'
<1> SUFFICES ASSUME TypeOK, Roles, Minting, [Next]_vars PROVE Minting'
  OBVIOUS
<1>1. LinksTyped /\ ProcsTyped /\ now \in Nat
  BY Parts DEF CountsTyped
<1>2. CASE Tick \/ UNCHANGED vars
  <2>1. at' = at /\ on' = on /\ tokens' = tokens /\ now' \in Nat /\ now' >= now
    BY <1>1, <1>2 DEF Tick, vars, dbase, procs, counts
  <2>2. \A t \in DOMAIN tokens : Active(t)' => Active(t)
    BY <1>1, <2>1, SameTokens, StaysInactive
  <2>3. QED
    BY <2>1, <2>2 DEF Minting, ClearedToMint, OneActiveLinkPerMinter
<1>3. ASSUME NEW p \in Procs, StepOf(p) PROVE Minting'
  <2>1. Still(p) /\ TokensLast
    BY <1>3, StepsAreSound DEF Sound
  <2>2. CASE p \in Senders /\ SupersedeActiveTokens(p)
    <3>1. /\ tokens' = [t \in DOMAIN tokens |->
                  [tokens[t] EXCEPT !.superseded = @ \/ t \in ActiveFor(on[p])]]
          /\ on'[p] = on[p] /\ now' = now
      BY <2>2 DEF SupersedeActiveTokens, counts
    <3>2. /\ DOMAIN tokens' = DOMAIN tokens
          /\ \A t \in DOMAIN tokens : t \in ActiveFor(on[p]) => tokens'[t].superseded
      BY <1>1, <3>1, SupersedeTokens
    <3>3. \A t \in DOMAIN tokens : Active(t)' => Active(t)
      BY <1>1, <2>1, <3>1, StaysInactive
    <3>4. \A t \in DOMAIN tokens : tokens[t].case = on[p] => ~Active(t)'
      BY <3>2, <3>3 DEF ActiveFor, Active
    <3>5. \A t \in DOMAIN tokens :
             tokens'[t].case = tokens[t].case /\ tokens'[t].minter = tokens[t].minter
      BY <2>1 DEF TokensLast
    <3>6. \A s \in Senders \ {p} : at'[s] = at[s] /\ on'[s] = on[s]
      BY <2>1, Kinds DEF Still
    <3>7. ClearedToMint'
      BY <3>1, <3>2, <3>3, <3>4, <3>5, <3>6 DEF Minting, ClearedToMint
    <3>8. OneActiveLinkPerMinter'
      BY <3>2, <3>3, <3>5 DEF Minting, OneActiveLinkPerMinter
    <3>9. QED
      BY <3>7, <3>8 DEF Minting
  <2>3. CASE p \in Senders /\ CreateToken(p)
    <3>1. on[p] \in Cases /\ at[p] = "mint" /\ now' = now /\ at'[p] = "log"
      BY <1>1, <2>3, SenderPlace DEF CreateToken, ProcsTyped, counts
    <3>2. PICK r : r = [case |-> on[p], minter |-> p, expires |-> clock[p] + TTL,
                        used |-> FALSE, superseded |-> FALSE]
      OBVIOUS
    <3>3. r \in TokenRows /\ r.case = on[p] /\ r.minter = p
      BY <1>1, <2>3, <3>1, <3>2 DEF ProcsTyped, TokenRows, TTL
    <3>4. tokens' = Append(tokens, r)
      BY <2>3, <3>2 DEF CreateToken
    <3>5. /\ DOMAIN tokens' = DOMAIN tokens \cup {Len(tokens) + 1}
          /\ Len(tokens) + 1 \notin DOMAIN tokens
          /\ tokens'[Len(tokens) + 1] = r /\ \A t \in DOMAIN tokens : tokens'[t] = tokens[t]
      BY <1>1, <3>3, <3>4, MintToken
    <3>6. \A t \in DOMAIN tokens : Active(t)' => Active(t)
      BY <1>1, <2>1, <3>1, StaysInactive
    <3>7. \A t \in DOMAIN tokens : tokens[t].case = on[p] /\ tokens[t].minter = p => ~Active(t)
      BY <2>3, <3>1 DEF Minting, ClearedToMint
    <3>8. \A s \in Senders \ {p} : at'[s] = at[s] /\ on'[s] = on[s]
      BY <2>1, Kinds DEF Still
    <3>9. ClearedToMint'
      <4> SUFFICES ASSUME NEW s \in Senders, at'[s] = "mint", NEW t \in DOMAIN tokens',
                          tokens'[t].case = on'[s], tokens'[t].minter = s
                   PROVE  ~Active(t)'
        BY DEF ClearedToMint
      <4>1. s # p /\ at[s] = "mint" /\ on'[s] = on[s]
        BY <3>1, <3>8
      <4>2. t \in DOMAIN tokens /\ tokens'[t] = tokens[t]
        BY <3>3, <3>5, <4>1
      <4>3. QED
        BY <3>6, <4>1, <4>2 DEF Minting, ClearedToMint
    <3>10. OneActiveLinkPerMinter'
      BY <3>3, <3>5, <3>6, <3>7 DEF Minting, OneActiveLinkPerMinter
    <3>11. QED
      BY <3>9, <3>10 DEF Minting
  <2>4. CASE ~(p \in Senders /\ (SupersedeActiveTokens(p) \/ CreateToken(p)))
    BY <1>1, <1>3, <2>1, <2>4, MintsNothing, MintingKept
  <2>5. QED
    BY <2>2, <2>3, <2>4
<1>4. QED
  BY <1>2, <1>3, Steps

(* Whoever supersedes and mints in between: no minter has two active links *)
(* to a case.                                                              *)
THEOREM LinksArePerMinter == Spec => []OneActiveLinkPerMinter
<1>1. Init => Minting
  BY Kinds DEF Init, Minting, ClearedToMint, OneActiveLinkPerMinter
<1>2. Minting => OneActiveLinkPerMinter
  BY DEF Minting
<1>3. QED
  BY <1>1, <1>2, MintingStep, RolesInvariant, PTL DEF Spec

(***************************************************************************)
(* A link wins once.                                                       *)
(***************************************************************************)

(* Every recovery by a link was written for the link's case, after it was  *)
(* consumed, and for no other recovery.                                    *)
WonByLink ==
    \A c \in Cases : \A i \in LinkWins(c) :
        LET t == wins[c][i].link
        IN  /\ tokens[t].used
            /\ tokens[t].case = c
            /\ \A d \in Cases : \A j \in LinkWins(d) :
                  wins[d][j].link = t => d = c /\ j = i

(* A POST that has consumed its link is alone with it, and nothing was won *)
(* by it yet.                                                              *)
HoldsTheLink ==
    /\ \A q \in Posts : at[q] = "recover" =>
          /\ tokens[link[q]].used
          /\ \A c \in Cases : \A i \in LinkWins(c) : wins[c][i].link # link[q]
    /\ \A q, r \in Posts :
          at[q] = "recover" /\ at[r] = "recover" /\ link[q] = link[r] => q = r

(* POSTs that have recovered the case and not thanked the customer yet.    *)
Thanking(c) == {q \in Posts : at[q] = "thank" /\ on[q] = c}

ThanksDue == \A c \in Cases : thanked[c] + Cardinality(Thanking(c)) <= Cardinality(LinkWins(c))

Winning == WonByLink /\ HoldsTheLink /\ ThanksDue

LEMMA WonToken ==
    ASSUME LinksTyped, NEW c \in Cases, NEW i \in LinkWins(c)
    PROVE  wins[c][i].link \in DOMAIN tokens
<1>1. wins[c] \in Seq(Wins(Links)) /\ i \in DOMAIN wins[c] /\ wins[c][i].link # NoLink
  BY DEF LinksTyped, LinkWins
<1>2. wins[c][i] \in Wins(Links)
  BY <1>1
<1>3. QED
  BY <1>1, <1>2 DEF Wins, Links

LEMMA Sizes ==
    ASSUME TypeOK, NEW c \in Cases
    PROVE  /\ IsFiniteSet(Thanking(c)) /\ Cardinality(Thanking(c)) \in Nat
           /\ IsFiniteSet(LinkWins(c)) /\ Cardinality(LinkWins(c)) \in Nat
           /\ thanked[c] \in Nat
<1>1. wins[c] \in Seq(Wins(Links)) /\ thanked[c] \in Nat
  BY Parts DEF LinksTyped, CountsTyped
<1>2. IsFiniteSet(1..Len(wins[c])) /\ DOMAIN wins[c] = 1..Len(wins[c])
  <2>1. Len(wins[c]) \in Int /\ 1 \in Int /\ DOMAIN wins[c] = 1..Len(wins[c])
    BY <1>1
  <2>2. QED
    BY <2>1, FS_Interval
<1>3. IsFiniteSet(Thanking(c)) /\ IsFiniteSet(LinkWins(c))
  BY <1>2, FiniteAssumption, FS_Subset DEF Thanking, LinkWins
<1>4. QED
  BY <1>1, <1>3, FS_CardinalityType

LEMMA WinningIsEnough == TypeOK /\ Winning => LinkWinsOnce
<1> SUFFICES ASSUME TypeOK, Winning PROVE LinkWinsOnce
  OBVIOUS
<1>1. ASSUME NEW c \in Cases PROVE thanked[c] <= Cardinality(LinkWins(c))
  <2>1. thanked[c] + Cardinality(Thanking(c)) <= Cardinality(LinkWins(c))
    BY DEF Winning, ThanksDue
  <2>2. QED
    BY <2>1, Sizes
<1>2. QED
  BY <1>1 DEF Winning, WonByLink, LinkWinsOnce

(* The recoveries by links stay what they were.                            *)
WinsKept ==
    \A c \in Cases :
        /\ LinkWins(c)' = LinkWins(c)
        /\ \A i \in LinkWins(c) : wins'[c][i].link = wins[c][i].link

LEMMA WonByLinkKept ==
    ASSUME LinksTyped, WonByLink, TokensLast, WinsKept
    PROVE  WonByLink'
<1>1. ASSUME NEW c \in Cases, NEW i \in LinkWins(c)
      PROVE  /\ wins'[c][i].link = wins[c][i].link /\ wins[c][i].link \in DOMAIN tokens
             /\ tokens'[wins[c][i].link].used /\ tokens'[wins[c][i].link].case = c
  <2>1. wins[c][i].link \in DOMAIN tokens
    BY WonToken
  <2>2. tokens[wins[c][i].link].used /\ tokens[wins[c][i].link].case = c
    BY DEF WonByLink
  <2>3. QED
    BY <2>1, <2>2 DEF TokensLast, WinsKept
<1>2. \A c, d \in Cases : \A i \in LinkWins(c), j \in LinkWins(d) :
         wins[d][j].link = wins[c][i].link => d = c /\ j = i
  BY DEF WonByLink
<1>3. \A c \in Cases : LinkWins(c)' = LinkWins(c)
  BY DEF WinsKept
<1>4. QED
  BY <1>1, <1>2, <1>3 DEF WonByLink

LEMMA WinningKept ==
    ASSUME TypeOK, Roles, Winning, NEW p \in Procs, Still(p), TokensLast, WinsKept,
           thanked' = thanked, p \in Posts => at'[p] \notin {"recover", "thank"}
    PROVE  Winning'
<1>1. LinksTyped /\ WonByLink /\ HoldsTheLink /\ ThanksDue
  BY Parts DEF Winning
<1>2. WonByLink'
  BY <1>1, WonByLinkKept
<1>3. \A q \in Posts :
         at'[q] \in {"recover", "thank"} => at'[q] = at[q] /\ link'[q] = link[q] /\ on'[q] = on[q]
  BY Kinds DEF Still
<1>4. HoldsTheLink'
  <2>1. ASSUME NEW q \in Posts, at'[q] = "recover"
        PROVE  /\ tokens'[link'[q]].used
               /\ \A c \in Cases : \A i \in LinkWins(c)' : wins'[c][i].link # link'[q]
    <3>1. at[q] = "recover" /\ link'[q] = link[q] /\ link[q] \in DOMAIN tokens
      BY <1>3, <2>1 DEF Roles, PostRole
    <3>2. QED
      BY <1>1, <3>1 DEF HoldsTheLink, TokensLast, WinsKept
  <2>2. QED
    BY <1>1, <1>3, <2>1 DEF HoldsTheLink
<1>5. ThanksDue'
  <2>1. ASSUME NEW c \in Cases
        PROVE  thanked'[c] + Cardinality(Thanking(c)') <= Cardinality(LinkWins(c)')
    <3>1. Thanking(c)' \subseteq Thanking(c) /\ LinkWins(c)' = LinkWins(c)
      BY <1>3 DEF Thanking, WinsKept
    <3>2. Cardinality(Thanking(c)') <= Cardinality(Thanking(c)) /\ Cardinality(Thanking(c)') \in Nat
      BY <3>1, Sizes, FS_Subset, FS_CardinalityType
    <3>3. thanked[c] + Cardinality(Thanking(c)) <= Cardinality(LinkWins(c))
      BY <1>1 DEF ThanksDue
    <3>4. QED
      BY <3>1, <3>2, <3>3, Sizes
  <2>2. QED
    BY <2>1 DEF ThanksDue
<1>6. QED
  BY <1>2, <1>4, <1>5 DEF Winning

(* The recovery with number n is written to case c.                        *)
WinAdded(c, n, t) ==
    /\ n \notin DOMAIN wins[c]
    /\ \A d \in Cases \ {c} : wins'[d] = wins[d]
    /\ wins'[c][n].link = t
    /\ \A i \in DOMAIN wins[c] : wins'[c][i] = wins[c][i]
    /\ DOMAIN wins'[c] = DOMAIN wins[c] \cup {n}

LEMMA OneMoreWin ==
    ASSUME LinksTyped, NEW p \in Posts \cup Captures, on[p] \in Cases, link[p] \in Links,
           NEW via, MarkRecovered(p, via)
    PROVE  WinAdded(on[p], Len(wins[on[p]]) + 1, link[p])
<1>1. PICK w : w = [by |-> p, link |-> link[p]]
  OBVIOUS
<1>2. w \in Wins(Links) /\ w.link = link[p]
  BY <1>1 DEF Wins
<1>3. wins' = [wins EXCEPT ![on[p]] = Append(@, w)]
  BY <1>1, Zenon DEF MarkRecovered
<1>4. wins \in [Cases -> Seq(Wins(Links))]
  BY DEF LinksTyped
<1>5. wins[on[p]] \in Seq(Wins(Links)) /\ wins'[on[p]] = Append(wins[on[p]], w)
  BY <1>3, <1>4
<1>6. \A c \in Cases \ {on[p]} : wins'[c] = wins[c]
  BY <1>3, <1>4
<1>7. QED
  BY <1>2, <1>5, <1>6 DEF WinAdded

(* All statements but MarkUsed, the writing of a recovery and the thanks.  *)
LEMMA WinsNothing ==
    ASSUME TypeOK, Roles, NEW p \in Procs, StepOf(p),
           ~(p \in Posts /\ (MarkUsed(p) \/ CompleteRecovery(p) \/ SendRecovered(p))),
           ~(p \in Captures /\ CompleteOrganic(p))
    PROVE  wins' = wins /\ thanked' = thanked /\ (p \in Posts => at'[p] \notin {"recover", "thank"})
<1>1. ProcsTyped
  BY Parts, Zenon
<1>2. CASE SenderStep(p)
  BY <1>2, Kinds DEF SenderStep, Send, SupersedeActiveTokens, CreateToken, CreateMessageLog,
       SkipDuplicate, ProviderSends, ProviderFails, MarkSent, MarkFailed, MarkMessage,
       MarkSentRejects, history
<1>3. CASE CaseStep(p)
  BY <1>3, Kinds DEF CaseStep, OpenCase, ScheduleFirstAttempt, history
<1>4. CASE LadderStep(p)
  BY <1>4, Kinds DEF LadderStep, Climb, Halt, MarkAttemptExecuted, ScheduleNextRung,
       ExhaustLadder, PickDueAttempt, history
<1>5. CASE PostStep(p)
  BY <1>1, <1>5 DEF PostStep, submitPaymentUpdate, ValidateToken, ProcsTyped, history
<1>6. CASE CaptureStep(p)
  BY <1>6, Kinds DEF CaptureStep, handlePaymentCaptured, FindOpenCase, NoOpenCase, HandlerReruns,
                     history
<1>7. CASE Abandon(p)
  BY <1>1, <1>7 DEF Abandon, Leave, ProcsTyped, history
<1>8. QED
  BY <1>2, <1>3, <1>4, <1>5, <1>6, <1>7 DEF StepOf

LEMMA SameWins == ASSUME wins' = wins PROVE WinsKept
  BY DEF WinsKept, LinkWins

(* A POST consumes its link: nobody else has, and nothing was won by it.   *)
LEMMA ConsumesTheLink ==
    ASSUME TypeOK, Roles, Winning, NEW q \in Posts, MarkUsed(q), Still(q), TokensLast
    PROVE  Winning'
<1>1. LinksTyped /\ ProcsTyped /\ q \in Procs /\ WonByLink /\ HoldsTheLink /\ ThanksDue
  BY Parts, Kinds DEF Winning
<1>2. wins' = wins /\ thanked' = thanked
  BY DEF MarkUsed, history
<1>3. CASE ~Unused(link[q])
  <2>1. at'[q] = "idle"
    BY <1>1, <1>3 DEF MarkUsed, Leave, ProcsTyped
  <2>2. QED
    BY <1>1, <1>2, <2>1, SameWins, WinningKept
<1>4. CASE Unused(link[q])
  <2>1. link[q] \in DOMAIN tokens
    BY DEF MarkUsed, Roles, PostRole
  <2>2. /\ tokens' = [tokens EXCEPT ![link[q]].used = TRUE]
        /\ at'[q] = "recover" /\ link' = link /\ on' = on
    BY <1>1, <1>4 DEF MarkUsed, Goto, ProcsTyped
  <2>3. tokens'[link[q]].used
    BY <1>1, <2>1, <2>2, UseToken
  <2>4. \A c \in Cases : \A i \in LinkWins(c) : wins[c][i].link # link[q]
    BY <1>1, <1>4 DEF WonByLink, Unused
  <2>5. \A r \in Posts : at[r] = "recover" => link[r] # link[q]
    BY <1>1, <1>4 DEF HoldsTheLink, Unused
  <2>6. \A r \in Posts \ {q} : at'[r] = at[r] /\ link'[r] = link[r] /\ on'[r] = on[r]
    BY Kinds DEF Still
  <2>7. WonByLink'
    BY <1>1, <1>2, SameWins, WonByLinkKept
  <2>8. HoldsTheLink'
    <3>1. ASSUME NEW r \in Posts, at'[r] = "recover"
          PROVE  /\ tokens'[link'[r]].used
                 /\ \A c \in Cases : \A i \in LinkWins(c)' : wins'[c][i].link # link'[r]
      <4>1. CASE r = q
        BY <1>2, <2>2, <2>3, <2>4, <4>1 DEF LinkWins
      <4>2. CASE r # q
        <5>1. at[r] = "recover" /\ link'[r] = link[r] /\ link[r] \in DOMAIN tokens
          BY <2>6, <3>1, <4>2 DEF Roles, PostRole
        <5>2. QED
          BY <1>1, <1>2, <5>1 DEF HoldsTheLink, TokensLast, LinkWins
      <4>3. QED
        BY <4>1, <4>2
    <3>2. \A r, s \in Posts :
             at'[r] = "recover" /\ at'[s] = "recover" /\ link'[r] = link'[s] => r = s
      BY <1>1, <2>2, <2>5, <2>6 DEF HoldsTheLink
    <3>3. QED
      BY <3>1, <3>2 DEF HoldsTheLink
  <2>9. ThanksDue'
    <3>1. at[q] = "claim"
      BY DEF MarkUsed
    <3>2. \A c \in Cases : Thanking(c)' = Thanking(c) /\ LinkWins(c)' = LinkWins(c)
      BY <1>2, <2>2, <2>6, <3>1 DEF Thanking, LinkWins
    <3>3. QED
      BY <1>1, <1>2, <3>2 DEF ThanksDue
  <2>10. QED
    BY <2>7, <2>8, <2>9 DEF Winning
<1>5. QED
  BY <1>3, <1>4

(* A POST that holds its link writes the recovery of its case.             *)
LEMMA WinsByLink ==
    ASSUME TypeOK, Roles, Winning, NEW q \in Posts, CompleteRecovery(q), Still(q), TokensLast
    PROVE  Winning'
<1>1. LinksTyped /\ ProcsTyped /\ q \in Procs /\ WonByLink /\ HoldsTheLink /\ ThanksDue
  BY Parts, Kinds DEF Winning
<1>2. /\ at[q] = "recover" /\ on[q] \in Cases /\ link[q] \in DOMAIN tokens
      /\ tokens[link[q]].case = on[q] /\ tokens[link[q]].used
  BY <1>1 DEF CompleteRecovery, Roles, PostRole, HoldsTheLink
<1>3. link[q] \in Links /\ link[q] # NoLink
  BY <1>1, <1>2 DEF Links, LinksTyped, NoLink
<1>4. /\ at'[q] = "thank" /\ link' = link /\ on' = on /\ tokens' = tokens /\ thanked' = thanked
      /\ MarkRecovered(q, "LINK")
  BY <1>1 DEF CompleteRecovery, Goto, ProcsTyped
<1>5. PICK e \in Cases, n \in Nat : e = on[q] /\ n = Len(wins[e]) + 1
  BY <1>1, <1>2 DEF LinksTyped
<1>6. /\ n \notin DOMAIN wins[e]
      /\ \A c \in Cases \ {e} : wins'[c] = wins[c]
      /\ wins'[e][n].link = link[q]
      /\ \A i \in DOMAIN wins[e] : wins'[e][i] = wins[e][i]
      /\ DOMAIN wins'[e] = DOMAIN wins[e] \cup {n}
  <2>1. WinAdded(on[q], Len(wins[on[q]]) + 1, link[q])
    BY <1>1, <1>2, <1>3, <1>4, OneMoreWin
  <2>2. WinAdded(e, n, link[q])
    BY <2>1, <1>5, Zenon
  <2>3. QED
    BY <2>2 DEF WinAdded
<1>7. /\ LinkWins(e)' = LinkWins(e) \cup {n} /\ n \notin LinkWins(e)
      /\ \A c \in Cases \ {e} : LinkWins(c)' = LinkWins(c)
  BY <1>3, <1>6 DEF LinkWins
<1>8. \A c \in Cases : \A i \in LinkWins(c) :
         wins'[c][i].link = wins[c][i].link /\ wins[c][i].link # link[q]
  BY <1>1, <1>2, <1>6 DEF LinkWins, HoldsTheLink
<1>9. \A r \in Posts \ {q} : at'[r] = at[r]
  BY Kinds DEF Still
<1>10. ASSUME NEW c \in Cases, NEW i \in LinkWins(c)'
       PROVE  \/ i \in LinkWins(c) /\ ~(c = e /\ i = n)
              \/ c = e /\ i = n
  BY <1>7
<1>11. WonByLink'
  <2>1. ASSUME NEW c \in Cases, NEW i \in LinkWins(c)'
        PROVE  tokens'[wins'[c][i].link].used /\ tokens'[wins'[c][i].link].case = c
    <3>1. CASE i \in LinkWins(c)
      BY <1>1, <1>4, <1>8, <3>1 DEF WonByLink
    <3>2. CASE c = e /\ i = n
      BY <1>2, <1>4, <1>5, <1>6, <3>2
    <3>3. QED
      BY <1>10, <3>1, <3>2
  <2>2. ASSUME NEW c \in Cases, NEW i \in LinkWins(c)', NEW d \in Cases, NEW j \in LinkWins(d)',
               wins'[d][j].link = wins'[c][i].link
        PROVE  d = c /\ j = i
    <3>1. CASE i \in LinkWins(c) /\ j \in LinkWins(d)
      BY <1>1, <1>8, <2>2, <3>1 DEF WonByLink
    <3>2. CASE i \in LinkWins(c) /\ d = e /\ j = n
      BY <1>6, <1>8, <2>2, <3>2
    <3>3. CASE c = e /\ i = n /\ j \in LinkWins(d)
      BY <1>6, <1>8, <2>2, <3>3
    <3>4. QED
      BY <1>10, <3>1, <3>2, <3>3
  <2>3. QED
    BY <2>1, <2>2 DEF WonByLink
<1>12. HoldsTheLink'
  <2>1. ASSUME NEW r \in Posts, at'[r] = "recover"
        PROVE  at[r] = "recover" /\ link[r] # link[q]
    BY <1>1, <1>2, <1>4, <1>9, <2>1 DEF HoldsTheLink
  <2>2. ASSUME NEW r \in Posts, at'[r] = "recover", NEW c \in Cases, NEW i \in LinkWins(c)'
        PROVE  wins'[c][i].link # link'[r]
    <3>1. at[r] = "recover" /\ link[r] # link[q]
      BY <2>1, <2>2
    <3>2. CASE i \in LinkWins(c)
      BY <1>1, <1>4, <1>8, <3>1, <3>2 DEF HoldsTheLink
    <3>3. CASE c = e /\ i = n
      BY <1>4, <1>6, <3>1, <3>3
    <3>4. QED
      BY <1>10, <3>2, <3>3
  <2>3. QED
    BY <1>1, <1>4, <2>1, <2>2 DEF HoldsTheLink
<1>13. ThanksDue'
  <2>1. q \notin Thanking(e) /\ Thanking(e)' = Thanking(e) \cup {q}
    BY <1>2, <1>4, <1>5, <1>9 DEF Thanking
  <2>2. \A c \in Cases \ {e} : Thanking(c)' = Thanking(c)
    BY <1>2, <1>4, <1>5, <1>9 DEF Thanking
  <2>3. /\ Cardinality(Thanking(e)') = Cardinality(Thanking(e)) + 1
        /\ Cardinality(LinkWins(e)') = Cardinality(LinkWins(e)) + 1
    <3>1. IsFiniteSet(Thanking(e)) /\ IsFiniteSet(LinkWins(e))
      BY Sizes
    <3>2. Cardinality(Thanking(e) \cup {q}) = Cardinality(Thanking(e)) + 1
      BY <2>1, <3>1, FS_AddElement
    <3>3. Cardinality(LinkWins(e) \cup {n}) = Cardinality(LinkWins(e)) + 1
      BY <1>7, <3>1, FS_AddElement
    <3>4. QED
      BY <1>7, <2>1, <3>2, <3>3
  <2>4. ASSUME NEW c \in Cases
        PROVE  thanked'[c] + Cardinality(Thanking(c)') <= Cardinality(LinkWins(c)')
    <3>1. thanked[c] + Cardinality(Thanking(c)) <= Cardinality(LinkWins(c))
      BY <1>1 DEF ThanksDue
    <3>2. CASE c = e
      BY <1>4, <2>3, <3>1, <3>2, Sizes
    <3>3. CASE c # e
      BY <1>4, <1>7, <2>2, <3>1, <3>3
    <3>4. QED
      BY <3>2, <3>3
  <2>5. QED
    BY <2>4 DEF ThanksDue
<1>14. QED
  BY <1>11, <1>12, <1>13 DEF Winning

(* A POST thanks the customer for the recovery it wrote.                   *)
LEMMA ThanksOnce ==
    ASSUME TypeOK, Roles, Winning, NEW q \in Posts, SendRecovered(q), Still(q), TokensLast
    PROVE  Winning'
<1>1. LinksTyped /\ ProcsTyped /\ CountsTyped /\ q \in Procs
  BY Parts, Kinds
<1>2. WonByLink /\ HoldsTheLink /\ ThanksDue /\ at[q] = "thank" /\ on[q] \in Cases
  BY DEF Winning, SendRecovered, Roles, PostRole
<1>3. /\ at'[q] = "idle" /\ wins' = wins /\ tokens' = tokens
      /\ thanked' = [thanked EXCEPT ![on[q]] = @ + 1]
  BY <1>1 DEF SendRecovered, Leave, ProcsTyped, dbase
<1>4. \A r \in Posts \ {q} : at'[r] = at[r] /\ link'[r] = link[r] /\ on'[r] = on[r]
  BY Kinds DEF Still
<1>5. \A c \in Cases : LinkWins(c)' = LinkWins(c)
  BY <1>3 DEF LinkWins
<1>6. WonByLink'
  BY <1>1, <1>2, <1>3, SameWins, WonByLinkKept
<1>7. HoldsTheLink'
  BY <1>2, <1>3, <1>4, <1>5 DEF HoldsTheLink
<1>8. ThanksDue'
  <2>1. PICK e \in Cases : e = on[q]
    BY <1>2
  <2>2. q \in Thanking(e) /\ Thanking(e)' = Thanking(e) \ {q}
    BY <1>2, <1>3, <1>4, <2>1 DEF Thanking
  <2>3. \A c \in Cases \ {e} : Thanking(c)' = Thanking(c)
    BY <1>2, <1>3, <1>4, <2>1 DEF Thanking
  <2>4. Cardinality(Thanking(e)') = Cardinality(Thanking(e)) - 1
    <3>1. IsFiniteSet(Thanking(e))
      BY Sizes
    <3>2. Cardinality(Thanking(e) \ {q}) = Cardinality(Thanking(e)) - 1
      BY <2>2, <3>1, FS_RemoveElement
    <3>3. QED
      BY <2>2, <3>2
  <2>5. ASSUME NEW c \in Cases
        PROVE  thanked'[c] + Cardinality(Thanking(c)') <= Cardinality(LinkWins(c)')
    <3>1. /\ thanked[c] + Cardinality(Thanking(c)) <= Cardinality(LinkWins(c))
          /\ thanked'[c] = IF c = e THEN thanked[c] + 1 ELSE thanked[c]
      BY <1>1, <1>2, <1>3, <2>1 DEF ThanksDue, CountsTyped
    <3>2. CASE c = e
      BY <1>5, <2>4, <3>1, <3>2, Sizes
    <3>3. CASE c # e
      BY <1>5, <2>3, <3>1, <3>3
    <3>4. QED
      BY <3>2, <3>3
  <2>6. QED
    BY <2>5 DEF ThanksDue
<1>9. QED
  BY <1>6, <1>7, <1>8 DEF Winning

(* A captured payment writes a recovery that no link won.                  *)
LEMMA WinsOrganically ==
    ASSUME TypeOK, Roles, Winning, NEW k \in Captures, CompleteOrganic(k), Still(k), TokensLast
    PROVE  Winning'
<1>1. LinksTyped /\ k \in Procs /\ k \notin Posts
  BY Parts, Kinds
<1>2. on[k] \in Cases /\ link[k] = NoLink /\ link[k] \in Links
  BY DEF CompleteOrganic, Roles, CaptureRole, Links
<1>3. MarkRecovered(k, "ORGANIC") /\ thanked' = thanked
  BY DEF CompleteOrganic
<1>4. PICK e \in Cases, n \in Nat : e = on[k] /\ n = Len(wins[e]) + 1
  BY <1>1, <1>2 DEF LinksTyped
<1>5. /\ n \notin DOMAIN wins[e]
      /\ \A c \in Cases \ {e} : wins'[c] = wins[c]
      /\ wins'[e][n].link = link[k]
      /\ \A i \in DOMAIN wins[e] : wins'[e][i] = wins[e][i]
      /\ DOMAIN wins'[e] = DOMAIN wins[e] \cup {n}
  <2>1. WinAdded(on[k], Len(wins[on[k]]) + 1, link[k])
    BY <1>1, <1>2, <1>3, OneMoreWin
  <2>2. WinAdded(e, n, link[k])
    BY <2>1, <1>4, Zenon
  <2>3. QED
    BY <2>2 DEF WinAdded
<1>6. WinsKept
  <2>1. ASSUME NEW c \in Cases \ {e}
        PROVE  LinkWins(c)' = LinkWins(c) /\ \A i \in LinkWins(c) : wins'[c][i].link = wins[c][i].link
    BY <1>5 DEF LinkWins
  <2>2. LinkWins(e)' = LinkWins(e)
    BY <1>2, <1>5 DEF LinkWins
  <2>3. \A i \in LinkWins(e) : wins'[e][i].link = wins[e][i].link
    BY <1>5 DEF LinkWins
  <2>4. QED
    BY <2>1, <2>2, <2>3 DEF WinsKept
<1>7. QED
  BY <1>1, <1>3, <1>6, WinningKept

LEMMA WinningStep == TypeOK /\ Roles /\ Winning /\ [Next]_vars => Winning'
<1> SUFFICES ASSUME TypeOK, Roles, Winning, [Next]_vars PROVE Winning'
  OBVIOUS
<1>1. CASE Tick \/ UNCHANGED vars
  <2>1. UNCHANGED <<at, on, link, tokens, wins, thanked>>
    BY <1>1 DEF Tick, vars, dbase, procs, history
  <2>2. \A c \in Cases : LinkWins(c)' = LinkWins(c) /\ Thanking(c)' = Thanking(c)
    BY <2>1 DEF LinkWins, Thanking
  <2>3. QED
    BY <2>1, <2>2 DEF Winning, WonByLink, HoldsTheLink, ThanksDue
<1>2. ASSUME NEW p \in Procs, StepOf(p) PROVE Winning'
  <2>1. Still(p) /\ TokensLast
    BY <1>2, StepsAreSound DEF Sound
  <2>2. CASE p \in Posts /\ (MarkUsed(p) \/ CompleteRecovery(p) \/ SendRecovered(p))
    BY <2>1, <2>2, ConsumesTheLink, WinsByLink, ThanksOnce
  <2>3. CASE p \in Captures /\ CompleteOrganic(p)
    BY <2>1, <2>3, WinsOrganically
  <2>4. CASE /\ ~(p \in Posts /\ (MarkUsed(p) \/ CompleteRecovery(p) \/ SendRecovered(p)))
             /\ ~(p \in Captures /\ CompleteOrganic(p))
    BY <1>2, <2>1, <2>4, WinsNothing, SameWins, WinningKept
  <2>5. QED
    BY <2>2, <2>3, <2>4
<1>3. QED
  BY <1>1, <1>2, Steps

LEMMA WinningInit == Init => Winning
<1> SUFFICES ASSUME Init PROVE Winning
  OBVIOUS
<1>1. \A c \in Cases : LinkWins(c) = {} /\ Thanking(c) = {} /\ thanked[c] = 0
  BY Kinds DEF Init, LinkWins, Thanking
<1>2. \A q \in Posts : at[q] = "idle"
  BY Kinds DEF Init
<1>3. Cardinality({}) = 0
  BY FS_EmptySet
<1>4. ThanksDue
  BY <1>1, <1>3 DEF ThanksDue
<1>5. QED
  BY <1>1, <1>2, <1>4 DEF Winning, WonByLink, HoldsTheLink

(* Whatever POSTs race on a link and whatever fails between their          *)
(* statements: a link recovers its own case at most once, after it was     *)
(* consumed, and each recovery is thanked for at most once.                *)
THEOREM LinkRecoversOnce == Spec => []LinkWinsOnce
  BY WinningInit, WinningStep, WinningIsEnough, RolesInvariant, PTL DEF Spec
============================================================================
