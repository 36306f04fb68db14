---------------------------- MODULE AccountsProofs ----------------------------
(***************************************************************************)
(* Machine-checked theorems about Accounts, for any number of browsers,    *)
(* requests and reset links, and any lengths of time.                      *)
(***************************************************************************)
EXTENDS Accounts, FiniteSetTheorems, TLAPS

(***************************************************************************)
(* Type correctness.                                                       *)
(***************************************************************************)

Typed(f) == f \in [DOMAIN f -> SessionRow]

(* Deleting rows leaves a table of rows, no larger.                        *)
LEMMA WithoutTyped ==
    ASSUME Typed(session), NEW S
    PROVE  Typed(Without(S)) /\ DOMAIN Without(S) \subseteq DOMAIN session
BY DEF Typed, Without

(* So does writing one row, of a new or an existing id.                    *)
LEMMA WithTyped ==
    ASSUME Typed(session), NEW s, NEW r \in SessionRow
    PROVE  Typed(With(s, r)) /\ DOMAIN With(s, r) = DOMAIN session \cup {s}
BY DEF Typed, With

(* Type correctness by parts: who carries what, the cookies, the rest.     *)
ProcsTyped ==
    /\ at \in [Requests -> Places]
    /\ req \in [Requests -> Carried]
    /\ \A p \in Requests : req[p].cred <= password /\ req[p].set.token <= minted

JarTyped ==
    /\ jar \in [Browsers -> Cookie]
    /\ \A b \in Browsers : jar[b].token <= minted

TableTyped == Typed(session) /\ DOMAIN session \subseteq 1..minted

RestTyped ==
    /\ now \in 0..MaxNow
    /\ password \in Nat
    /\ minted \in 0..MaxSessions
    /\ link \in [Links -> [status : {"none", "unused", "used"}, expires : Nat]]
    /\ faults \in 0..MaxFaults
    /\ ended \in 0..password

LEMMA Parts == TypeOK <=> ProcsTyped /\ JarTyped /\ TableTyped /\ RestTyped
BY DEF TypeOK, ProcsTyped, JarTyped, TableTyped, RestTyped, Typed

(* No number goes down.                                                    *)
Grows == password' \in Nat /\ password <= password' /\ minted' \in Nat /\ minted <= minted'

LEMMA NothingCarried ==
    /\ Nothing \in Carried
    /\ NoCookie \in Cookie
    /\ Nothing.cred = 0 /\ Nothing.set = NoCookie /\ NoCookie.token = 0
BY BoundsAssumption DEF Nothing, Carried, Cookie, NoCookie, Tokens, Sessions

(* The cookie a browser sends is a token, or none.                         *)
LEMMA SentTyped == ASSUME JarTyped, NEW b \in Browsers PROVE Sends(b) \in Tokens
BY DEF JarTyped, Sends, Cookie, Tokens

(* A request that begins, moves or ends carries what requests may carry.   *)
LEMMA CarryTyped ==
    ASSUME ProcsTyped, RestTyped, Grows, NEW p \in Requests, NEW place \in Places,
           NEW c \in Carried, c.cred <= password', c.set.token <= minted',
           at' = [at EXCEPT ![p] = place], req' = [req EXCEPT ![p] = c]
    PROVE  ProcsTyped'
<1>1. at' \in [Requests -> Places] /\ req' \in [Requests -> Carried]
  BY DEF ProcsTyped
<1>2. ASSUME NEW q \in Requests
      PROVE  req'[q].cred <= password' /\ req'[q].set.token <= minted'
  <2>1. CASE q = p
    BY <2>1 DEF ProcsTyped
  <2>2. CASE q # p
    <3>1. req'[q] = req[q] /\ req[q] \in Carried
      BY <2>2 DEF ProcsTyped
    <3>2. req[q].cred \in Nat /\ req[q].set.token \in Nat
      BY <3>1 DEF Carried, Cookie, Tokens, Sessions
    <3>3. req[q].cred <= password /\ req[q].set.token <= minted
      BY DEF ProcsTyped
    <3>4. QED
      BY <3>1, <3>2, <3>3, BoundsAssumption DEF Grows, RestTyped
  <2>3. QED
    BY <2>1, <2>2
<1>3. QED
  BY <1>1, <1>2 DEF ProcsTyped

LEMMA GotoTyped ==
    ASSUME ProcsTyped, RestTyped, Grows, NEW p \in Requests, NEW place \in Places,
           Goto(p, place)
    PROVE  ProcsTyped'
<1>1. req[p] \in Carried /\ req[p].cred \in Nat /\ req[p].set.token \in Nat
  BY DEF ProcsTyped, Carried, Cookie, Tokens, Sessions
<1>2. req[p].cred <= password /\ req[p].set.token <= minted
  BY DEF ProcsTyped
<1>3. req[p].cred <= password' /\ req[p].set.token <= minted'
  BY <1>1, <1>2, BoundsAssumption DEF Grows, RestTyped
<1>4. at' = [at EXCEPT ![p] = place] /\ req' = [req EXCEPT ![p] = req[p]]
  BY DEF Goto, ProcsTyped
<1>5. QED
  BY <1>1, <1>3, <1>4, CarryTyped

LEMMA LeaveTyped ==
    ASSUME ProcsTyped, RestTyped, Grows, NEW p \in Requests, Leave(p)
    PROVE  ProcsTyped'
<1>1. "idle" \in Places
  BY DEF Places
<1>2. Nothing \in Carried /\ Nothing.cred <= password' /\ Nothing.set.token <= minted'
  BY NothingCarried DEF Grows
<1>3. QED
  BY <1>1, <1>2, CarryTyped DEF Leave

LEMMA SameProcs ==
    ASSUME ProcsTyped, RestTyped, Grows, UNCHANGED procs
    PROVE  ProcsTyped'
<1>1. at' = at /\ req' = req
  BY DEF procs
<1>2. ASSUME NEW q \in Requests
      PROVE  req[q].cred <= password' /\ req[q].set.token <= minted'
  <2>1. req[q].cred \in Nat /\ req[q].set.token \in Nat
    BY DEF ProcsTyped, Carried, Cookie, Tokens, Sessions
  <2>2. req[q].cred <= password /\ req[q].set.token <= minted
    BY DEF ProcsTyped
  <2>3. QED
    BY <2>1, <2>2, BoundsAssumption DEF Grows, RestTyped
<1>3. QED
  BY <1>1, <1>2 DEF ProcsTyped

(* Every response leaves the browser a cookie of an existing row, or none. *)
LEMMA SetCookieTyped ==
    ASSUME JarTyped, RestTyped, Grows, NEW b, NEW c \in Cookie, c.token <= minted',
           jar' = [jar EXCEPT ![b] = c]
    PROVE  JarTyped'
<1>1. jar' \in [Browsers -> Cookie]
  BY DEF JarTyped
<1>2. ASSUME NEW a \in Browsers PROVE jar'[a].token <= minted'
  <2>1. jar[a].token \in Nat /\ jar[a].token <= minted
    BY DEF JarTyped, Cookie, Tokens, Sessions
  <2>2. jar'[a] = jar[a] \/ jar'[a] = c
    BY DEF JarTyped
  <2>3. QED
    BY <2>1, <2>2, BoundsAssumption DEF Grows, RestTyped
<1>3. QED
  BY <1>1, <1>2 DEF JarTyped

LEMMA SameJar ==
    ASSUME JarTyped, RestTyped, Grows, UNCHANGED jar
    PROVE  JarTyped'
<1>1. ASSUME NEW a \in Browsers PROVE jar[a].token <= minted'
  <2>1. jar[a].token \in Nat /\ jar[a].token <= minted
    BY DEF JarTyped, Cookie, Tokens, Sessions
  <2>2. QED
    BY <2>1, BoundsAssumption DEF Grows, RestTyped
<1>2. QED
  BY <1>1 DEF JarTyped

LEMMA RespondTyped ==
    ASSUME ProcsTyped, JarTyped, RestTyped, Grows, NEW p \in Requests,
           Respond(p) \/ ClearCookie(p)
    PROVE  ProcsTyped' /\ JarTyped'
<1>1. ProcsTyped'
  BY LeaveTyped DEF Respond, ClearCookie
<1>2. NoCookie \in Cookie /\ NoCookie.token <= minted'
  BY NothingCarried DEF Grows
<1>3. req[p].set \in Cookie /\ req[p].set.token <= minted'
  <2>1. req[p].set \in Cookie /\ req[p].set.token \in Nat /\ req[p].set.token <= minted
    BY DEF ProcsTyped, Carried, Cookie, Tokens, Sessions
  <2>2. QED
    BY <2>1, BoundsAssumption DEF Grows, RestTyped
<1>4. JarTyped'
  <2>1. CASE jar' = jar
    BY <2>1, SameJar
  <2>2. CASE jar' = [jar EXCEPT ![req[p].browser] = req[p].set]
    BY <2>2, <1>3, SetCookieTyped
  <2>3. CASE jar' = [jar EXCEPT ![req[p].browser] = NoCookie]
    BY <2>3, <1>2, SetCookieTyped
  <2>4. QED
    BY <2>1, <2>2, <2>3 DEF Respond, ClearCookie
<1>5. QED
  BY <1>1, <1>4

(* Deleting rows.                                                          *)
LEMMA DeleteTyped ==
    ASSUME TableTyped, minted' = minted, NEW S, session' = Without(S)
    PROVE  TableTyped'
<1>1. Typed(Without(S)) /\ DOMAIN Without(S) \subseteq DOMAIN session
  BY WithoutTyped DEF TableTyped
<1>2. QED
  BY <1>1 DEF TableTyped, Typed

(* Creating the next row.                                                  *)
LEMMA CreateTyped ==
    ASSUME TableTyped, RestTyped, minted' = minted + 1, NEW r \in SessionRow
    PROVE  /\ Typed(With(minted', r))
           /\ DOMAIN With(minted', r) = DOMAIN session \cup {minted'}
           /\ DOMAIN With(minted', r) \subseteq 1..minted'
<1>1. Typed(With(minted', r)) /\ DOMAIN With(minted', r) = DOMAIN session \cup {minted'}
  BY WithTyped DEF TableTyped
<1>2. QED
  BY <1>1, BoundsAssumption DEF TableTyped, RestTyped

LEMMA PartsNext == TypeOK' <=> ProcsTyped' /\ JarTyped' /\ TableTyped' /\ RestTyped'
BY Parts, PTL

(* Every statement of every request keeps all variables within their types.*)
LEMMA TypeStep == TypeOK /\ [Next]_vars => TypeOK'
<1> SUFFICES ASSUME ProcsTyped, JarTyped, TableTyped, RestTyped, [Next]_vars
             PROVE  ProcsTyped' /\ JarTyped' /\ TableTyped' /\ RestTyped'
  BY Parts, PartsNext
<1> USE TimesAssumption, BoundsAssumption
<1>0. password <= password /\ minted <= minted /\ password \in Nat /\ minted \in Nat
  BY DEF RestTyped
<1>1. CASE UNCHANGED vars
  BY <1>1 DEF vars, rows, procs, ProcsTyped, JarTyped, TableTyped, RestTyped, Typed
<1>2. CASE Tick
  BY <1>2 DEF Tick, rows, procs, ProcsTyped, JarTyped, TableTyped, RestTyped, Typed
<1>3. ASSUME NEW l \in Links, requestPasswordReset(l)
      PROVE  ProcsTyped' /\ JarTyped' /\ TableTyped' /\ RestTyped'
  <2>1. Grows
    BY <1>0, <1>3 DEF requestPasswordReset, issueResetToken, Grows, rows, procs
  <2>2. ProcsTyped'
    BY <2>1, <1>3, SameProcs DEF requestPasswordReset, issueResetToken
  <2>3. JarTyped'
    BY <2>1, <1>3, SameJar DEF requestPasswordReset, issueResetToken
  <2>4. TableTyped'
    BY <1>3 DEF requestPasswordReset, issueResetToken, rows, TableTyped, Typed
  <2>5. RestTyped'
    BY <1>3 DEF requestPasswordReset, issueResetToken, rows, RestTyped
  <2>6. QED
    BY <2>2, <2>3, <2>4, <2>5
<1>4. ASSUME NEW p \in Requests, NEW b \in Browsers, registerMerchant(p, b)
      PROVE  ProcsTyped' /\ JarTyped' /\ TableTyped' /\ RestTyped'
  <2>1. Grows
    BY <1>0, <1>4 DEF registerMerchant, Grows, rows, procs
  <2>2. ProcsTyped'
    <3>1. "open" \in Places
      BY DEF Places
    <3> DEFINE c == [Nothing EXCEPT !.browser = b, !.cred = 1]
    <3>2. 1 \in Nat /\ 1 <= password'
      BY <2>1, <1>4 DEF registerMerchant, Grows, RestTyped
    <3>3. c \in Carried
      BY <3>2, NothingCarried DEF Nothing, Carried
    <3>4. c.cred = 1 /\ c.set = NoCookie
      BY DEF Nothing
    <3>5. c.cred <= password' /\ c.set.token <= minted'
      BY <2>1, <3>2, <3>4, NothingCarried DEF Grows
    <3>6. QED
      BY <2>1, <3>1, <3>3, <3>5, <1>4, CarryTyped DEF registerMerchant, Begin
  <2>3. JarTyped'
    BY <2>1, <1>4, SameJar DEF registerMerchant
  <2>4. TableTyped'
    BY <1>4 DEF registerMerchant, rows, TableTyped, Typed
  <2>5. RestTyped'
    BY <1>4 DEF registerMerchant, rows, RestTyped
  <2>6. QED
    BY <2>2, <2>3, <2>4, <2>5
<1>5. ASSUME NEW p \in Requests, NEW b \in Browsers, authenticate(p, b)
      PROVE  ProcsTyped' /\ JarTyped' /\ TableTyped' /\ RestTyped'
  <2>1. Grows
    BY <1>0, <1>5 DEF authenticate, Grows, rows, procs
  <2>2. ProcsTyped'
    <3>1. "open" \in Places
      BY DEF Places
    <3> DEFINE c == [Nothing EXCEPT !.browser = b, !.cred = password]
    <3>2. password \in Nat /\ password <= password'
      BY <2>1, <1>5 DEF authenticate, Grows, RestTyped
    <3>3. c \in Carried
      BY <3>2, NothingCarried DEF Nothing, Carried
    <3>4. c.cred = password /\ c.set = NoCookie
      BY DEF Nothing
    <3>5. c.cred <= password' /\ c.set.token <= minted'
      BY <2>1, <3>2, <3>4, NothingCarried DEF Grows
    <3>6. QED
      BY <2>1, <3>1, <3>3, <3>5, <1>5, CarryTyped DEF authenticate, Begin
  <2>3. JarTyped'
    BY <2>1, <1>5, SameJar DEF authenticate
  <2>4. TableTyped'
    BY <1>5 DEF authenticate, rows, TableTyped, Typed
  <2>5. RestTyped'
    BY <1>5 DEF authenticate, rows, RestTyped
  <2>6. QED
    BY <2>2, <2>3, <2>4, <2>5
<1>6. ASSUME NEW p \in Requests, NEW b \in Browsers, Visit(p, b)
      PROVE  ProcsTyped' /\ JarTyped' /\ TableTyped' /\ RestTyped'
  <2>1. Grows
    BY <1>0, <1>6 DEF Visit, Grows, rows, procs
  <2>2. ProcsTyped'
    <3>1. "rotate" \in Places
      BY DEF Places
    <3> DEFINE c == [Nothing EXCEPT !.browser = b, !.token = Sends(b)]
    <3>2. 0 \in Nat /\ 0 <= password' /\ Sends(b) \in Tokens
      BY <2>1, <1>6, SentTyped DEF Visit, Grows, RestTyped
    <3>3. c \in Carried
      BY <3>2, NothingCarried DEF Nothing, Carried
    <3>4. c.cred = 0 /\ c.set = NoCookie
      BY DEF Nothing
    <3>5. c.cred <= password' /\ c.set.token <= minted'
      BY <2>1, <3>2, <3>4, NothingCarried DEF Grows
    <3>6. QED
      BY <2>1, <3>1, <3>3, <3>5, <1>6, CarryTyped DEF Visit, Begin
  <2>3. JarTyped'
    BY <2>1, <1>6, SameJar DEF Visit
  <2>4. TableTyped'
    BY <1>6 DEF Visit, rows, TableTyped, Typed
  <2>5. RestTyped'
    BY <1>6 DEF Visit, rows, RestTyped
  <2>6. QED
    BY <2>2, <2>3, <2>4, <2>5
<1>7. ASSUME NEW p \in Requests, NEW b \in Browsers, NEW leaving \in BOOLEAN, Call(p, b, leaving)
      PROVE  ProcsTyped' /\ JarTyped' /\ TableTyped' /\ RestTyped'
  <2>1. Grows
    BY <1>0, <1>7 DEF Call, Grows, rows, procs
  <2>2. ProcsTyped'
    <3>1. "validate" \in Places
      BY DEF Places
    <3> DEFINE c == [Nothing EXCEPT !.browser = b, !.token = Sends(b), !.leaving = leaving]
    <3>2. 0 \in Nat /\ 0 <= password' /\ Sends(b) \in Tokens
      BY <2>1, <1>7, SentTyped DEF Call, Grows, RestTyped
    <3>3. c \in Carried
      BY <3>2, NothingCarried DEF Nothing, Carried
    <3>4. c.cred = 0 /\ c.set = NoCookie
      BY DEF Nothing
    <3>5. c.cred <= password' /\ c.set.token <= minted'
      BY <2>1, <3>2, <3>4, NothingCarried DEF Grows
    <3>6. QED
      BY <2>1, <3>1, <3>3, <3>5, <1>7, CarryTyped DEF Call, Begin
  <2>3. JarTyped'
    BY <2>1, <1>7, SameJar DEF Call
  <2>4. TableTyped'
    BY <1>7 DEF Call, rows, TableTyped, Typed
  <2>5. RestTyped'
    BY <1>7 DEF Call, rows, RestTyped
  <2>6. QED
    BY <2>2, <2>3, <2>4, <2>5
<1>8. ASSUME NEW p \in Requests, NEW l \in Links, FollowLink(p, l)
      PROVE  ProcsTyped' /\ JarTyped' /\ TableTyped' /\ RestTyped'
  <2>1. Grows
    BY <1>0, <1>8 DEF FollowLink, Grows, rows, procs
  <2>2. ProcsTyped'
    <3>1. "claim" \in Places
      BY DEF Places
    <3> DEFINE c == [Nothing EXCEPT !.reset = l]
    <3>2. 0 \in Nat /\ 0 <= password'
      BY <2>1, <1>8 DEF FollowLink, Grows, RestTyped
    <3>3. c \in Carried
      BY <3>2, NothingCarried DEF Nothing, Carried
    <3>4. c.cred = 0 /\ c.set = NoCookie
      BY DEF Nothing
    <3>5. c.cred <= password' /\ c.set.token <= minted'
      BY <2>1, <3>2, <3>4, NothingCarried DEF Grows
    <3>6. QED
      BY <2>1, <3>1, <3>3, <3>5, <1>8, CarryTyped DEF FollowLink, Begin
  <2>3. JarTyped'
    BY <2>1, <1>8, SameJar DEF FollowLink
  <2>4. TableTyped'
    BY <1>8 DEF FollowLink, rows, TableTyped, Typed
  <2>5. RestTyped'
    BY <1>8 DEF FollowLink, rows, RestTyped
  <2>6. QED
    BY <2>2, <2>3, <2>4, <2>5
<1>9. ASSUME NEW p \in Requests, createSession(p)
      PROVE  ProcsTyped' /\ JarTyped' /\ TableTyped' /\ RestTyped'
  <2>1. Grows
    BY <1>0, <1>9 DEF createSession, Grows, rows, procs
  <2>2. ProcsTyped'
    BY <2>1, <1>9, LeaveTyped DEF createSession
  <2>3. JarTyped'
    <3>1. Fresh(minted') \in Cookie /\ Fresh(minted').token <= minted'
      BY <1>9 DEF createSession, Fresh, sessionExpiry, Cookie, Tokens, Sessions, RestTyped
    <3>2. QED
      BY <2>1, <3>1, <1>9, SetCookieTyped DEF createSession
  <2>4. TableTyped'
    <3> DEFINE r == [expires |-> sessionExpiry, password |-> req[p].cred,
                     late |-> req[p].cred # password]
    <3>1. r \in SessionRow
      BY DEF SessionRow, sessionExpiry, RestTyped, ProcsTyped, Carried
    <3>2. QED
      BY <3>1, <1>9, CreateTyped DEF createSession, TableTyped, Typed
  <2>5. RestTyped'
    BY <1>9 DEF createSession, RestTyped
  <2>6. QED
    BY <2>2, <2>3, <2>4, <2>5
<1>10. ASSUME NEW p \in Requests, ReadForRotation(p)
      PROVE  ProcsTyped' /\ JarTyped' /\ TableTyped' /\ RestTyped'
  <2>1. Grows
    BY <1>0, <1>10 DEF ReadForRotation, Grows, rows, procs
  <2>2. ProcsTyped'
    <3>1. {"validate", "discard", "swap"} \subseteq Places
      BY DEF Places
    <3>2. QED
      BY <2>1, <3>1, <1>10, GotoTyped DEF ReadForRotation
  <2>3. JarTyped'
    BY <2>1, <1>10, SameJar DEF ReadForRotation
  <2>4. TableTyped'
    BY <1>10 DEF ReadForRotation, rows, TableTyped, Typed
  <2>5. RestTyped'
    BY <1>10 DEF ReadForRotation, rows, RestTyped
  <2>6. QED
    BY <2>2, <2>3, <2>4, <2>5
<1>11. ASSUME NEW p \in Requests, Discard(p)
      PROVE  ProcsTyped' /\ JarTyped' /\ TableTyped' /\ RestTyped'
  <2>1. Grows
    BY <1>0, <1>11 DEF Discard, Grows, rows, procs
  <2>2. ProcsTyped'
    <3>1. {"validate"} \subseteq Places
      BY DEF Places
    <3>2. QED
      BY <2>1, <3>1, <1>11, GotoTyped DEF Discard
  <2>3. JarTyped'
    BY <2>1, <1>11, SameJar DEF Discard
  <2>4. TableTyped'
    BY <1>11, DeleteTyped DEF Discard
  <2>5. RestTyped'
    BY <1>11 DEF Discard, rows, RestTyped
  <2>6. QED
    BY <2>2, <2>3, <2>4, <2>5
<1>12. ASSUME NEW p \in Requests, Swap(p)
      PROVE  ProcsTyped' /\ JarTyped' /\ TableTyped' /\ RestTyped'
  <2>1. Grows
    BY <1>0, <1>12 DEF Swap, Grows, rows, procs, SwapAs
  <2>2. ProcsTyped'
    <3> DEFINE c == [req[p] EXCEPT !.set = Fresh(minted')]
    <3>1. "validate" \in Places
      BY DEF Places
    <3>2. req[p] \in Carried /\ req[p].cred <= password
      BY DEF ProcsTyped
    <3>3. Fresh(minted') \in Cookie /\ Fresh(minted').token <= minted'
      BY <1>12 DEF Swap, SwapAs, Fresh, sessionExpiry, Cookie, Tokens, Sessions, RestTyped
    <3>4. c \in Carried /\ c.set = Fresh(minted') /\ c.cred = req[p].cred
      BY <3>2, <3>3 DEF Carried
    <3>5. c.cred <= password' /\ c.set.token <= minted'
      BY <3>2, <3>3, <3>4, <1>12 DEF Swap, SwapAs
    <3>6. req' = [req EXCEPT ![p] = c] /\ at' = [at EXCEPT ![p] = "validate"]
      BY <1>12 DEF Swap, SwapAs, ProcsTyped
    <3>7. QED
      BY <2>1, <3>1, <3>4, <3>5, <3>6, CarryTyped
  <2>3. JarTyped'
    BY <2>1, <1>12, SameJar DEF Swap, SwapAs
  <2>4. TableTyped'
    <3> DEFINE r == Replacement(p, sessionExpiry)
               old == req[p].token
    <3>1. old \in DOMAIN session /\ session[old] \in SessionRow
      BY <1>12 DEF Swap, SwapAs, Found, TableTyped, Typed
    <3>2. r \in SessionRow
      BY <3>1 DEF Replacement, Row, SessionRow, sessionExpiry, RestTyped
    <3>3. minted' = minted + 1
      BY <1>12 DEF Swap, SwapAs
    <3>4. /\ Typed(With(minted', r))
          /\ DOMAIN With(minted', r) \subseteq 1..minted'
      BY <3>2, <3>3, CreateTyped
    <3>5. session' = [With(minted', r) EXCEPT ![old].expires = now + Grace]
      BY <1>12 DEF Swap, SwapAs
    <3>6. now + Grace \in Nat
      BY DEF RestTyped
    <3>7. DOMAIN session' = DOMAIN With(minted', r)
      BY <3>5
    <3>8. Typed(session')
      BY <3>4, <3>5, <3>6 DEF Typed, SessionRow
    <3>9. QED
      BY <3>4, <3>7, <3>8 DEF TableTyped, Typed
  <2>5. RestTyped'
    BY <1>12 DEF Swap, SwapAs, RestTyped
  <2>6. QED
    BY <2>2, <2>3, <2>4, <2>5
<1>13. ASSUME NEW p \in Requests, RotationFails(p)
      PROVE  ProcsTyped' /\ JarTyped' /\ TableTyped' /\ RestTyped'
  <2>1. Grows
    BY <1>0, <1>13 DEF RotationFails, Grows, rows, procs
  <2>2. ProcsTyped'
    <3>1. {"validate"} \subseteq Places
      BY DEF Places
    <3>2. QED
      BY <2>1, <3>1, <1>13, GotoTyped DEF RotationFails
  <2>3. JarTyped'
    BY <2>1, <1>13, SameJar DEF RotationFails
  <2>4. TableTyped'
    BY <1>13 DEF RotationFails, rows, TableTyped, Typed
  <2>5. RestTyped'
    BY <1>13 DEF RotationFails, rows, RestTyped
  <2>6. QED
    BY <2>2, <2>3, <2>4, <2>5
<1>14. ASSUME NEW p \in Requests, NoSession(p)
      PROVE  ProcsTyped' /\ JarTyped' /\ TableTyped' /\ RestTyped'
  <2>1. Grows
    BY <1>0, <1>14 DEF NoSession, Grows, rows, procs
  <2>2. ProcsTyped'
    BY <2>1, <1>14, RespondTyped DEF NoSession, Refused
  <2>3. JarTyped'
    BY <2>1, <1>14, RespondTyped DEF NoSession, Refused
  <2>4. TableTyped'
    BY <1>14 DEF NoSession, rows, TableTyped, Typed
  <2>5. RestTyped'
    BY <1>14 DEF NoSession, rows, RestTyped
  <2>6. QED
    BY <2>2, <2>3, <2>4, <2>5
<1>15. ASSUME NEW p \in Requests, Validate(p)
      PROVE  ProcsTyped' /\ JarTyped' /\ TableTyped' /\ RestTyped'
  <2>1. Grows
    BY <1>0, <1>15 DEF Validate, Grows, rows, procs
  <2>2. ProcsTyped'
    <3>1. {"expire", "renew", "revoke"} \subseteq Places
      BY DEF Places
    <3>2. QED
      BY <2>1, <3>1, <1>15, GotoTyped, RespondTyped DEF Validate, Served
  <2>3. JarTyped'
    BY <2>1, <1>15, SameJar, RespondTyped DEF Validate, Served
  <2>4. TableTyped'
    BY <1>15 DEF Validate, rows, TableTyped, Typed
  <2>5. RestTyped'
    BY <1>15 DEF Validate, rows, RestTyped
  <2>6. QED
    BY <2>2, <2>3, <2>4, <2>5
<1>16. ASSUME NEW p \in Requests, Expire(p)
      PROVE  ProcsTyped' /\ JarTyped' /\ TableTyped' /\ RestTyped'
  <2>1. Grows
    BY <1>0, <1>16 DEF Expire, Grows, rows, procs
  <2>2. ProcsTyped'
    BY <2>1, <1>16, RespondTyped DEF Expire, Refused
  <2>3. JarTyped'
    BY <2>1, <1>16, RespondTyped DEF Expire, Refused
  <2>4. TableTyped'
    BY <1>16, DeleteTyped DEF Expire
  <2>5. RestTyped'
    BY <1>16 DEF Expire, rows, RestTyped
  <2>6. QED
    BY <2>2, <2>3, <2>4, <2>5
<1>17. ASSUME NEW p \in Requests, Renew(p)
      PROVE  ProcsTyped' /\ JarTyped' /\ TableTyped' /\ RestTyped'
  <2>1. Grows
    BY <1>0, <1>17 DEF Renew, Grows, rows, procs
  <2>2. ProcsTyped'
    <3>1. "revoke" \in Places
      BY DEF Places
    <3>2. QED
      BY <2>1, <3>1, <1>17, GotoTyped, RespondTyped DEF Renew, Served
  <2>3. JarTyped'
    BY <2>1, <1>17, SameJar, RespondTyped DEF Renew, Served
  <2>4. TableTyped'
    BY <1>17 DEF Renew, TableTyped, Typed, SessionRow, sessionExpiry, RestTyped
  <2>5. RestTyped'
    BY <1>17 DEF Renew, rows, RestTyped
  <2>6. QED
    BY <2>2, <2>3, <2>4, <2>5
<1>18. ASSUME NEW p \in Requests, invalidateSession(p)
      PROVE  ProcsTyped' /\ JarTyped' /\ TableTyped' /\ RestTyped'
  <2>1. Grows
    BY <1>0, <1>18 DEF invalidateSession, Grows, rows, procs
  <2>2. ProcsTyped'
    BY <2>1, <1>18, RespondTyped DEF invalidateSession
  <2>3. JarTyped'
    BY <2>1, <1>18, RespondTyped DEF invalidateSession
  <2>4. TableTyped'
    BY <1>18, DeleteTyped DEF invalidateSession
  <2>5. RestTyped'
    BY <1>18 DEF invalidateSession, rows, RestTyped
  <2>6. QED
    BY <2>2, <2>3, <2>4, <2>5
<1>19. ASSUME NEW p \in Requests, markUsed(p)
      PROVE  ProcsTyped' /\ JarTyped' /\ TableTyped' /\ RestTyped'
  <2>1. Grows
    BY <1>0, <1>19 DEF markUsed, Grows, rows, procs
  <2>2. ProcsTyped'
    <3>1. "store" \in Places
      BY DEF Places
    <3>2. QED
      BY <2>1, <3>1, <1>19, GotoTyped, LeaveTyped DEF markUsed
  <2>3. JarTyped'
    BY <2>1, <1>19, SameJar DEF markUsed
  <2>4. TableTyped'
    BY <1>19 DEF markUsed, rows, TableTyped, Typed
  <2>5. RestTyped'
    BY <1>19 DEF markUsed, rows, RestTyped
  <2>6. QED
    BY <2>2, <2>3, <2>4, <2>5
<1>20. ASSUME NEW p \in Requests, updatePassword(p)
      PROVE  ProcsTyped' /\ JarTyped' /\ TableTyped' /\ RestTyped'
  <2>1. Grows
    BY <1>0, <1>20 DEF updatePassword, Grows, rows, procs
  <2>2. ProcsTyped'
    <3> DEFINE c == [req[p] EXCEPT !.cred = password']
    <3>1. "purge" \in Places
      BY DEF Places
    <3>2. req[p] \in Carried /\ req[p].set.token <= minted
      BY DEF ProcsTyped
    <3>3. c \in Carried /\ c.set = req[p].set /\ c.cred = password'
      BY <2>1, <3>2 DEF Carried, Grows
    <3>4. c.cred <= password' /\ c.set.token <= minted'
      BY <2>1, <3>2, <3>3, <1>20 DEF updatePassword, Grows
    <3>5. req' = [req EXCEPT ![p] = c] /\ at' = [at EXCEPT ![p] = "purge"]
      BY <1>20 DEF updatePassword, ProcsTyped
    <3>6. QED
      BY <2>1, <3>1, <3>3, <3>4, <3>5, CarryTyped
  <2>3. JarTyped'
    BY <2>1, <1>20, SameJar DEF updatePassword
  <2>4. TableTyped'
    BY <1>20 DEF updatePassword, rows, TableTyped, Typed
  <2>5. RestTyped'
    BY <1>20 DEF updatePassword, rows, RestTyped
  <2>6. QED
    BY <2>2, <2>3, <2>4, <2>5
<1>21. ASSUME NEW p \in Requests, invalidateUserSessions(p)
      PROVE  ProcsTyped' /\ JarTyped' /\ TableTyped' /\ RestTyped'
  <2>1. Grows
    BY <1>0, <1>21 DEF invalidateUserSessions, Grows, rows, procs
  <2>2. ProcsTyped'
    BY <2>1, <1>21, LeaveTyped DEF invalidateUserSessions
  <2>3. JarTyped'
    BY <2>1, <1>21, SameJar DEF invalidateUserSessions
  <2>4. TableTyped'
    BY <1>21, DeleteTyped DEF invalidateUserSessions
  <2>5. RestTyped'
    BY <1>21 DEF invalidateUserSessions, RestTyped, ProcsTyped, Carried
  <2>6. QED
    BY <2>2, <2>3, <2>4, <2>5
<1>22. ASSUME NEW p \in Requests, Abandon(p)
      PROVE  ProcsTyped' /\ JarTyped' /\ TableTyped' /\ RestTyped'
  <2>1. Grows
    BY <1>0, <1>22 DEF Abandon, Grows, rows, procs
  <2>2. ProcsTyped'
    BY <2>1, <1>22, LeaveTyped DEF Abandon
  <2>3. JarTyped'
    BY <2>1, <1>22, SameJar DEF Abandon
  <2>4. TableTyped'
    BY <1>22 DEF Abandon, rows, TableTyped, Typed
  <2>5. RestTyped'
    BY <1>22 DEF Abandon, rows, RestTyped
  <2>6. QED
    BY <2>2, <2>3, <2>4, <2>5
<1>23. QED
  BY <1>1, <1>2, <1>3, <1>4, <1>5, <1>6, <1>7, <1>8, <1>9, <1>10, <1>11, <1>12, <1>13,
     <1>14, <1>15, <1>16, <1>17, <1>18, <1>19, <1>20, <1>21, <1>22
  DEF Next, GoOn, rotateSessionToken, validateSessionToken, resetPassword

(* The account's rows, the browsers' cookies and what requests carry       *)
(* always have the shape the schema and the code give them; no cookie      *)
(* names a session before its row was created.                             *)
THEOREM TypeCorrect == Spec => []TypeOK
<1>1. Init => TypeOK
  BY BoundsAssumption
  DEF Init, TypeOK, Places, Carried, Cookie, Tokens, Nothing, NoCookie
<1>2. QED
  BY <1>1, TypeStep, PTL DEF Spec

(***************************************************************************)
(* A completed reset ends the sessions of older passwords.                 *)
(***************************************************************************)

(* What is true of the rows stays true of a table that holds some of them, *)
(* with other times: passwords and lateness are never rewritten, and the   *)
(* newest completed reset is not touched.                                  *)
LEMMA RowsKept ==
    ASSUME ResetEndsSessions, ended' = ended, DOMAIN session' \subseteq DOMAIN session,
           \A s \in DOMAIN session' : /\ session'[s].password = session[s].password
                                     /\ session'[s].late = session[s].late
    PROVE  ResetEndsSessions'
BY DEF ResetEndsSessions

(* Sign-in, rotation, renewal, clean-up, logout and reset preserve it: a   *)
(* new session's password is the current one, is marked late, or is that   *)
(* of a session that is still there.                                       *)
LEMMA ResetStep == TypeOK /\ ResetEndsSessions /\ [Next]_vars => ResetEndsSessions'
<1> SUFFICES ASSUME TypeOK, ResetEndsSessions, [Next]_vars PROVE ResetEndsSessions'
  OBVIOUS
<1>0. Typed(session) /\ password \in Nat /\ ended \in 0..password
  BY DEF TypeOK, Typed
<1>1. CASE UNCHANGED <<session, ended>>
  BY <1>1 DEF ResetEndsSessions
<1>2. ASSUME NEW p \in Requests, createSession(p) PROVE ResetEndsSessions'
  <2>1. session' = With(minted', [expires |-> sessionExpiry, password |-> req[p].cred,
                                  late |-> req[p].cred # password])
    BY <1>2 DEF createSession
  <2>2. UNCHANGED <<password, ended>>
    BY <1>2 DEF createSession
  <2>3. ASSUME NEW s \in DOMAIN session', session'[s].password < ended
        PROVE  session'[s].late
    <3>1. CASE s = minted'
      <4>1. session'[s].password = req[p].cred /\ session'[s].late = (req[p].cred # password)
        BY <2>1, <3>1 DEF With
      <4>2. CASE req[p].cred = password
        BY <1>0, <2>3, <4>1, <4>2
      <4>3. QED
        BY <4>1, <4>2
    <3>2. CASE s # minted'
      BY <2>1, <2>3, <3>2 DEF With, ResetEndsSessions
    <3>3. QED
      BY <3>1, <3>2
  <2>4. QED
    BY <2>2, <2>3 DEF ResetEndsSessions
<1>3. ASSUME NEW p \in Requests, Swap(p) PROVE ResetEndsSessions'
  <2> DEFINE old == req[p].token
             r == Replacement(p, sessionExpiry)
  <2>1. old \in DOMAIN session /\ session[old] \in SessionRow
    BY <1>0, <1>3 DEF Swap, SwapAs, Found, Typed
  <2>2. r.password = session[old].password /\ r.late = session[old].late
    BY <2>1 DEF Replacement, Row, SessionRow
  <2>3. session' = [With(minted', r) EXCEPT ![old].expires = now + Grace]
    BY <1>3 DEF Swap, SwapAs
  <2>4. ended' = ended
    BY <1>3 DEF Swap, SwapAs
  <2>5. DOMAIN session' = DOMAIN session \cup {minted'}
    BY <2>3 DEF With
  <2>6. ASSUME NEW s \in DOMAIN session', session'[s].password < ended
        PROVE  session'[s].late
    <3> DEFINE from == IF s \in DOMAIN session /\ s # minted' THEN s ELSE old
    <3>1. With(minted', r)[s] = IF s = minted' THEN r ELSE session[s]
      BY <2>5 DEF With
    <3>2. from \in DOMAIN session /\ session[from] \in SessionRow
      BY <1>0, <2>1 DEF Typed
    <3>3. With(minted', r)[s].password = session[from].password
          /\ With(minted', r)[s].late = session[from].late
      BY <2>2, <2>5, <3>1
    <3>4. session'[s].password = With(minted', r)[s].password
          /\ session'[s].late = With(minted', r)[s].late
      <4>1. CASE s = old
        <5>1. With(minted', r)[s] \in SessionRow
          BY <2>1, <3>1, <4>1, TimesAssumption, BoundsAssumption
          DEF Replacement, Row, SessionRow, sessionExpiry, TypeOK
        <5>2. session'[s] = [With(minted', r)[s] EXCEPT !.expires = now + Grace]
          BY <2>3, <2>5, <4>1 DEF With
        <5>3. QED
          BY <5>1, <5>2 DEF SessionRow
      <4>2. CASE s # old
        BY <2>3, <2>5, <4>2 DEF With
      <4>3. QED
        BY <4>1, <4>2
    <3>5. QED
      BY <2>6, <3>2, <3>3, <3>4 DEF ResetEndsSessions
  <2>7. QED
    BY <2>4, <2>6 DEF ResetEndsSessions
<1>4. ASSUME NEW S, session' = Without(S), ended' = ended PROVE ResetEndsSessions'
  BY <1>4, RowsKept DEF Without
<1>5. ASSUME NEW p \in Requests, Renew(p) PROVE ResetEndsSessions'
  BY <1>0, <1>5, RowsKept DEF Renew, Typed, SessionRow
<1>6. ASSUME NEW p \in Requests, invalidateUserSessions(p) PROVE ResetEndsSessions'
  <2>1. DOMAIN session' = {}
    BY <1>6 DEF invalidateUserSessions, Without
  <2>2. QED
    BY <2>1 DEF ResetEndsSessions
<1>7. QED
  BY <1>1, <1>2, <1>3, <1>4, <1>5, <1>6
  DEF Next, GoOn, rotateSessionToken, validateSessionToken, resetPassword, vars, rows,
      procs, Tick, requestPasswordReset, issueResetToken, registerMerchant, authenticate, Visit, Call, FollowLink, ReadForRotation, Discard, RotationFails, NoSession, Validate,
      Expire, invalidateSession, markUsed, updatePassword, Abandon

(* However rotation, renewal, logout and other resets run beside it: when  *)
(* a reset has deleted the user's sessions, none of an older password is   *)
(* left or comes back, but for a sign-in that was already past the check   *)
(* of the password.                                                        *)
THEOREM NoSessionOutlivesReset == Spec => []ResetEndsSessions
<1>1. Init => ResetEndsSessions
  BY DEF Init, ResetEndsSessions
<1>2. QED
  BY <1>1, ResetStep, TypeCorrect, PTL DEF Spec

(***************************************************************************)
(* A link changes the password once.                                       *)
(***************************************************************************)

(* Requests that won their link and have not stored the password yet.      *)
Storing == {p \in Requests : at[p] = "store"}

(* Passwords set by resets; the first one is of the registration.          *)
Resets == IF password = 0 THEN 0 ELSE password - 1

(* Every link used is a reset that was stored, will be, or died.           *)
LinkBudget == Resets + Cardinality(Storing) <= Cardinality(Used)

LEMMA Counts ==
    /\ IsFiniteSet(Storing) /\ Cardinality(Storing) \in Nat
    /\ IsFiniteSet(Used) /\ Cardinality(Used) \in Nat
<1>1. IsFiniteSet(Storing) /\ IsFiniteSet(Used)
  BY FiniteAssumption, FS_Subset DEF Storing, Used
<1>2. QED
  BY <1>1, FS_CardinalityType

LEMMA CountsNext ==
    /\ IsFiniteSet(Storing') /\ Cardinality(Storing') \in Nat
    /\ IsFiniteSet(Used') /\ Cardinality(Used') \in Nat
<1>1. IsFiniteSet(Storing') /\ IsFiniteSet(Used')
  BY FiniteAssumption, FS_Subset DEF Storing, Used
<1>2. QED
  BY <1>1, FS_CardinalityType

(* A step that moves no request to "store", leaves the password and no     *)
(* used link unused.                                                       *)
LEMMA BudgetKept ==
    ASSUME TypeOK, LinkBudget, Resets' = Resets, Storing' \subseteq Storing, Used \subseteq Used'
    PROVE  LinkBudget'
<1>1. Cardinality(Storing') <= Cardinality(Storing)
  BY Counts, FS_Subset
<1>2. Cardinality(Used) <= Cardinality(Used')
  BY CountsNext, FS_Subset
<1>3. Resets \in Nat
  <2>1. password \in Nat
    BY DEF TypeOK
  <2>2. QED
    BY <2>1 DEF Resets
<1>4. /\ Cardinality(Storing) \in Nat /\ Cardinality(Storing') \in Nat
      /\ Cardinality(Used) \in Nat /\ Cardinality(Used') \in Nat
  BY Counts, CountsNext
<1>5. QED
  BY <1>1, <1>2, <1>3, <1>4 DEF LinkBudget

(* A request at its claim carries a link.                                  *)
ClaimsALink == \A p \in Requests : at[p] = "claim" => req[p].reset \in Links

LEMMA ClaimStep == TypeOK /\ ClaimsALink /\ [Next]_vars => ClaimsALink'
<1> SUFFICES ASSUME TypeOK, ClaimsALink, [Next]_vars PROVE ClaimsALink'
  OBVIOUS
<1>0. at \in [Requests -> Places] /\ req \in [Requests -> Carried]
  BY DEF TypeOK
<1>1. ASSUME NEW p \in Requests, NEW place, place # "claim", NEW c,
             at' = [at EXCEPT ![p] = place], req' = [req EXCEPT ![p] = c]
      PROVE  ClaimsALink'
  BY <1>0, <1>1 DEF ClaimsALink
<1>2. ASSUME NEW p \in Requests, NEW place, place # "claim", Goto(p, place)
      PROVE  ClaimsALink'
  BY <1>0, <1>2 DEF ClaimsALink, Goto
<1>3. CASE UNCHANGED procs
  BY <1>3 DEF ClaimsALink, procs
<1>4. ASSUME NEW p \in Requests, NEW l \in Links, FollowLink(p, l) PROVE ClaimsALink'
  BY <1>0, <1>4 DEF FollowLink, Begin, ClaimsALink, Nothing
<1>5. ASSUME NEW p \in Requests, Leave(p) PROVE ClaimsALink'
  BY <1>1, <1>5 DEF Leave
<1>6. ASSUME NEW p \in Requests, Swap(p) PROVE ClaimsALink'
  BY <1>0, <1>6 DEF Swap, SwapAs, ClaimsALink
<1>7. ASSUME NEW p \in Requests, updatePassword(p) PROVE ClaimsALink'
  BY <1>0, <1>7 DEF updatePassword, ClaimsALink
<1>8. ASSUME NEW p \in Requests, NEW b \in Browsers,
             registerMerchant(p, b) \/ authenticate(p, b) \/ Visit(p, b)
      PROVE  ClaimsALink'
  BY <1>1, <1>8 DEF registerMerchant, authenticate, Visit, Begin
<1>9. ASSUME NEW p \in Requests, NEW b \in Browsers, NEW leaving \in BOOLEAN,
             Call(p, b, leaving)
      PROVE  ClaimsALink'
  BY <1>1, <1>9 DEF Call, Begin
<1>10. ASSUME NEW p \in Requests,
              ReadForRotation(p) \/ Discard(p) \/ RotationFails(p) \/ Validate(p) \/ Renew(p)
       PROVE  ClaimsALink'
  BY <1>2, <1>5, <1>10
  DEF ReadForRotation, Discard, RotationFails, Validate, Renew, Served, Respond
<1>11. ASSUME NEW p \in Requests,
              createSession(p) \/ NoSession(p) \/ Expire(p) \/ invalidateSession(p)
              \/ invalidateUserSessions(p) \/ Abandon(p)
       PROVE  ClaimsALink'
  BY <1>5, <1>11
  DEF createSession, NoSession, Expire, invalidateSession, invalidateUserSessions, Abandon,
      Refused, Respond, ClearCookie
<1>12. ASSUME NEW p \in Requests, markUsed(p) PROVE ClaimsALink'
  BY <1>2, <1>5, <1>12 DEF markUsed
<1>13. QED
  BY <1>3, <1>4, <1>6, <1>7, <1>8, <1>9, <1>10, <1>11, <1>12
  DEF Next, GoOn, rotateSessionToken, validateSessionToken, resetPassword, vars, Tick,
      requestPasswordReset, issueResetToken

(* One link is spent before each change of the password.                   *)
LEMMA BudgetStep == TypeOK /\ ClaimsALink /\ LinkBudget /\ [Next]_vars => LinkBudget'
<1> SUFFICES ASSUME TypeOK, ClaimsALink, LinkBudget, [Next]_vars PROVE LinkBudget'
  OBVIOUS
<1>0. /\ at \in [Requests -> Places] /\ password \in Nat
      /\ link \in [Links -> [status : {"none", "unused", "used"}, expires : Nat]]
  BY DEF TypeOK
<1>1. ASSUME UNCHANGED <<password, link>>,
             NEW p \in Requests, NEW place, at' = [at EXCEPT ![p] = place], place # "store"
      PROVE  LinkBudget'
  <2>1. Resets' = Resets /\ Used' = Used
    BY <1>1 DEF Resets, Used
  <2>2. Storing' \subseteq Storing
    BY <1>0, <1>1 DEF Storing
  <2>3. QED
    BY <2>1, <2>2, BudgetKept
<1>2. CASE UNCHANGED <<password, link, at>>
  <2>1. Resets' = Resets /\ Used' = Used /\ Storing' = Storing
    BY <1>2 DEF Resets, Used, Storing
  <2>2. QED
    BY <2>1, BudgetKept
<1>3. ASSUME NEW l \in Links, requestPasswordReset(l) PROVE LinkBudget'
  <2>1. Resets' = Resets /\ Storing' = Storing
    BY <1>3 DEF requestPasswordReset, issueResetToken, procs, Resets, Storing
  <2>2. Used \subseteq Used'
    BY <1>0, <1>3 DEF requestPasswordReset, issueResetToken, Used
  <2>3. QED
    BY <2>1, <2>2, BudgetKept
<1>4. ASSUME NEW p \in Requests, NEW b \in Browsers, registerMerchant(p, b) PROVE LinkBudget'
  <2>1. Resets' = Resets /\ Used' = Used
    BY <1>4 DEF registerMerchant, Resets, Used
  <2>2. Storing' \subseteq Storing
    BY <1>0, <1>4 DEF registerMerchant, Begin, Storing
  <2>3. QED
    BY <2>1, <2>2, BudgetKept
<1>5. ASSUME NEW p \in Requests, markUsed(p) PROVE LinkBudget'
  <2> DEFINE l == req[p].reset
  <2>1. l \in Links /\ Resets' = Resets
    BY <1>5 DEF markUsed, ClaimsALink, Resets
  <2>2. CASE link[l].status = "unused"
    <3>1. l \notin Used /\ Used' = Used \cup {l}
      BY <1>0, <1>5, <2>1, <2>2 DEF markUsed, Used
    <3>2. p \notin Storing /\ Storing' = Storing \cup {p}
      BY <1>0, <1>5, <2>2 DEF markUsed, Goto, Storing
    <3>3. Cardinality(Used') = Cardinality(Used) + 1
      BY <3>1, Counts, FS_AddElement
    <3>4. Cardinality(Storing') = Cardinality(Storing) + 1
      BY <3>2, Counts, FS_AddElement
    <3>5. Resets \in Nat /\ Cardinality(Used) \in Nat /\ Cardinality(Storing) \in Nat
      BY <1>0, Counts DEF Resets
    <3>6. QED
      BY <2>1, <3>3, <3>4, <3>5 DEF LinkBudget
  <2>3. CASE link[l].status # "unused"
    <3>1. Storing' \subseteq Storing
      BY <1>0, <1>5, <2>3 DEF markUsed, Leave, Storing
    <3>2. Used \subseteq Used'
      BY <1>0, <1>5 DEF markUsed, Used
    <3>3. QED
      BY <2>1, <3>1, <3>2, BudgetKept
  <2>4. QED
    BY <2>2, <2>3
<1>6. ASSUME NEW p \in Requests, updatePassword(p) PROVE LinkBudget'
  <2>1. p \in Storing /\ Storing' = Storing \ {p}
    BY <1>0, <1>6 DEF updatePassword, Storing
  <2>2. Cardinality(Storing') = Cardinality(Storing) - 1
    BY <2>1, Counts, FS_RemoveElement
  <2>3. Used' = Used
    BY <1>6 DEF updatePassword, Used
  <2>4. Resets \in Nat /\ Resets' <= Resets + 1 /\ Resets' \in Nat
    BY <1>0, <1>6 DEF updatePassword, Resets
  <2>5. Cardinality(Used) \in Nat /\ Cardinality(Storing) \in Nat
    BY Counts
  <2>6. QED
    BY <2>2, <2>3, <2>4, <2>5 DEF LinkBudget
<1>7. ASSUME NEW p \in Requests, NEW b \in Browsers, NEW leaving \in BOOLEAN,
             authenticate(p, b) \/ Visit(p, b) \/ Call(p, b, leaving)
      PROVE  LinkBudget'
  BY <1>1, <1>7 DEF authenticate, Visit, Call, Begin, rows
<1>8. ASSUME NEW p \in Requests, NEW l \in Links, FollowLink(p, l) PROVE LinkBudget'
  BY <1>1, <1>8 DEF FollowLink, Begin, rows
<1>9. ASSUME NEW p \in Requests,
             ReadForRotation(p) \/ Discard(p) \/ Swap(p) \/ RotationFails(p) \/ Validate(p)
             \/ Renew(p)
      PROVE  LinkBudget'
  BY <1>1, <1>9
  DEF ReadForRotation, Discard, Swap, SwapAs, RotationFails, Validate, Renew, Served, Respond,
      Goto, Leave, rows
<1>10. ASSUME NEW p \in Requests,
              createSession(p) \/ NoSession(p) \/ Expire(p) \/ invalidateSession(p)
              \/ invalidateUserSessions(p) \/ Abandon(p)
       PROVE  LinkBudget'
  BY <1>1, <1>10
  DEF createSession, NoSession, Expire, invalidateSession, invalidateUserSessions, Abandon,
      Refused, Respond, ClearCookie, Leave, rows
<1>11. QED
  BY <1>2, <1>3, <1>4, <1>5, <1>6, <1>7, <1>8, <1>9, <1>10
  DEF Next, GoOn, rotateSessionToken, validateSessionToken, resetPassword, vars, rows,
      procs, Tick

(* However many requests carry one link, and whichever of them die: the    *)
(* password has been changed no more often than links were used.           *)
THEOREM EachLinkOnce == Spec => []LinksChangeOnce
<1>1. Init => ClaimsALink /\ LinkBudget
  <2> SUFFICES ASSUME Init PROVE ClaimsALink /\ LinkBudget
    OBVIOUS
  <2>1. ClaimsALink
    BY DEF Init, ClaimsALink
  <2>2. Storing = {} /\ Used = {} /\ Resets = 0
    BY DEF Init, Storing, Used, Resets
  <2>3. LinkBudget
    BY <2>2, FS_EmptySet DEF LinkBudget
  <2>4. QED
    BY <2>1, <2>3
<1>2. TypeOK /\ LinkBudget => LinksChangeOnce
  <2> SUFFICES ASSUME TypeOK, LinkBudget PROVE password <= 1 + Cardinality(Used)
    BY DEF LinksChangeOnce
  <2>1. Resets \in Nat /\ password \in Nat /\ password <= Resets + 1
    BY DEF TypeOK, Resets
  <2>2. Cardinality(Used) \in Nat /\ Cardinality(Storing) \in Nat
    BY Counts
  <2>3. QED
    BY <2>1, <2>2 DEF LinkBudget
<1>3. QED
  BY <1>1, <1>2, ClaimStep, BudgetStep, TypeCorrect, PTL DEF Spec

(***************************************************************************)
(* A cookie that is still sent opens a session.                            *)
(***************************************************************************)

(* Requests whose response will carry a cookie from rotation.              *)
Awarded == {p \in Requests : req[p].set # NoCookie}

(* Whose tokens these are: a cookie lasts no longer than a session created *)
(* now; no two browsers hold one token, and only the browser that holds it *)
(* has sent it.                                                            *)
Timely ==
    /\ \A b \in Browsers : jar[b].until <= now + Lifetime
    /\ \A p \in Requests : req[p].set.until <= now + Lifetime

Owned ==
    /\ \A p \in Requests : req[p].token <= minted
    /\ \A b, c \in Browsers : b # c /\ jar[b].token # 0 => jar[b].token # jar[c].token
    /\ \A p \in Requests, b \in Browsers :
          req[p].token # 0 /\ req[p].token = jar[b].token => req[p].browser = b

(* What rotation puts on a response is known to nobody until it arrives.   *)
Unseen ==
    \A p \in Awarded :
        /\ at[p] \in {"validate", "expire", "renew"} /\ ~req[p].leaving
        /\ req[p].set.token # 0
        /\ \A b \in Browsers : jar[b].token # req[p].set.token
        /\ \A q \in Requests : req[q].token # req[p].set.token
        /\ \A q \in Requests \ {p} : req[q].set.token # req[p].set.token

PurgesAreResets == \A p \in Requests : at[p] = "purge" => req[p].cred # 0

LogoutsValidate ==
    \A p \in Requests : req[p].leaving => at[p] \in {"validate", "expire", "renew", "revoke"}

Ownership == Timely /\ Owned /\ Unseen /\ PurgesAreResets /\ LogoutsValidate

(* What the rows hold while nothing was reset and nobody died: a session   *)
(* for every cookie on its way, which lasts as long as the cookie; and for *)
(* every cookie sent the same, with no request about to delete it, or else *)
(* another cookie on its way.                                              *)
Calm == ended = 0 /\ faults = 0

AwardsLive ==
    Calm => \A p \in Awarded :
        /\ req[p].set.token \in DOMAIN session
        /\ req[p].set.until <= session[req[p].set.token].expires

Deleting == {p \in Requests : at[p] \in {"discard", "expire"}}

Backed(b) ==
    /\ jar[b].token \in DOMAIN session
    /\ jar[b].until <= session[jar[b].token].expires
    /\ \A p \in Deleting : req[p].token # jar[b].token

Replacing(b) == \E p \in Awarded : req[p].browser = b

CookiesLive ==
    Calm => \A b \in Browsers : Sends(b) # 0 => Backed(b) \/ Replacing(b)

CookieInv == Ownership /\ AwardsLive /\ CookiesLive

LEMMA CookieTypes ==
    ASSUME TypeOK
    PROVE  /\ now \in Nat /\ minted \in Nat /\ Lifetime \in Nat /\ Grace \in Nat
           /\ jar \in [Browsers -> Cookie] /\ req \in [Requests -> Carried]
           /\ at \in [Requests -> Places]
           /\ \A b \in Browsers : /\ jar[b].token \in Nat /\ jar[b].until \in Nat
                                  /\ jar[b].token <= minted
           /\ \A p \in Requests : /\ req[p].token \in Nat /\ req[p].set \in Cookie
                                  /\ req[p].set.token \in Nat /\ req[p].set.until \in Nat
                                  /\ req[p].set.token <= minted
           /\ \A s \in DOMAIN session : /\ session[s] \in SessionRow
                                        /\ session[s].expires \in Nat
                                        /\ s \in Nat /\ s # 0 /\ s <= minted
<1> USE TimesAssumption, BoundsAssumption
<1>1. now \in Nat /\ minted \in Nat /\ Lifetime \in Nat /\ Grace \in Nat
  BY DEF TypeOK
<1>2. /\ jar \in [Browsers -> Cookie] /\ req \in [Requests -> Carried]
      /\ at \in [Requests -> Places]
  BY DEF TypeOK
<1>3. \A b \in Browsers : /\ jar[b].token \in Nat /\ jar[b].until \in Nat
                          /\ jar[b].token <= minted
  BY DEF TypeOK, Cookie, Tokens, Sessions
<1>4. \A p \in Requests : /\ req[p].token \in Nat /\ req[p].set \in Cookie
                          /\ req[p].set.token \in Nat /\ req[p].set.until \in Nat
                          /\ req[p].set.token <= minted
  BY DEF TypeOK, Carried, Cookie, Tokens, Sessions
<1>5. ASSUME NEW s \in DOMAIN session
      PROVE  /\ session[s] \in SessionRow /\ session[s].expires \in Nat
             /\ s \in Nat /\ s # 0 /\ s <= minted
  <2>1. session \in [DOMAIN session -> SessionRow] /\ s \in 1..minted
    BY DEF TypeOK
  <2>2. QED
    BY <1>1, <2>1 DEF SessionRow
<1>6. QED
  BY <1>1, <1>2, <1>3, <1>4, <1>5

LEMMA Sending ==
    \A b \in Browsers : Sends(b) # 0 <=> now < jar[b].until /\ jar[b].token # 0
BY DEF Sends

(* Ownership, step by step: a request that moves on.                       *)
LEMMA MoveOwned ==
    ASSUME Ownership, NEW p \in Requests, NEW place,
           at' = [at EXCEPT ![p] = place], at \in [Requests -> Places],
           UNCHANGED <<now, minted, jar>>,
           req' = req \/ \E c : req' = [req EXCEPT ![p].cred = c] /\ c # 0,
           req \in [Requests -> Carried],
           p \in Awarded => place \in {"validate", "expire", "renew"},
           req[p].leaving => place \in {"validate", "expire", "renew", "revoke"},
           place = "purge" => req'[p].cred # 0
    PROVE  Ownership'
<1> USE DEF Ownership
<1>1. \A q \in Requests : /\ req'[q].token = req[q].token /\ req'[q].set = req[q].set
                          /\ req'[q].browser = req[q].browser
                          /\ req'[q].leaving = req[q].leaving
                          /\ q # p => req'[q].cred = req[q].cred
  BY DEF Carried
<1>2. \A q \in Requests : at'[q] = IF q = p THEN place ELSE at[q]
  OBVIOUS
<1>3. Awarded' = Awarded
  BY <1>1 DEF Awarded
<1>4. Timely' /\ Owned'
  BY <1>1 DEF Timely, Owned
<1>5. Unseen'
  BY <1>1, <1>2, <1>3 DEF Unseen, Awarded
<1>6. PurgesAreResets' /\ LogoutsValidate'
  BY <1>1, <1>2 DEF PurgesAreResets, LogoutsValidate
<1>7. QED
  BY <1>4, <1>5, <1>6

(* A request that begins with what its browser sends.                      *)
LEMMA BeginOwned ==
    ASSUME TypeOK, Ownership, NEW p \in Requests, NEW place, place # "purge", NEW c,
           Begin(p, place, c), UNCHANGED <<now, minted, jar>>, c.set = NoCookie,
           c.token # 0 => c.browser \in Browsers /\ c.token = jar[c.browser].token,
           c.token \in Nat, c.leaving => place = "validate"
    PROVE  Ownership'
<1> USE DEF Ownership
<1>1. /\ \A q \in Requests : req'[q] = IF q = p THEN c ELSE req[q]
      /\ \A q \in Requests : at'[q] = IF q = p THEN place ELSE at[q]
  BY CookieTypes DEF Begin
<1>2. /\ now \in Nat /\ Lifetime \in Nat /\ minted \in Nat /\ NoCookie.until = 0 /\ NoCookie.token = 0
      /\ \A b \in Browsers : jar[b].token <= minted
  BY CookieTypes DEF NoCookie
<1>3. Timely'
  BY <1>1, <1>2 DEF Timely
<1>4. Owned'
  <2>1. \A q \in Requests : req'[q].token <= minted
    BY <1>1, <1>2 DEF Owned
  <2>2. ASSUME NEW q \in Requests, NEW b \in Browsers, req'[q].token # 0,
               req'[q].token = jar[b].token
        PROVE  req'[q].browser = b
    BY <1>1, <2>2 DEF Owned
  <2>3. QED
    BY <2>1, <2>2 DEF Owned
<1>5. Awarded' \subseteq Awarded \ {p}
  BY <1>1 DEF Awarded
<1>6. Unseen'
  <2> SUFFICES ASSUME NEW a \in Awarded'
               PROVE  /\ at'[a] \in {"validate", "expire", "renew"} /\ ~req'[a].leaving
                      /\ req'[a].set.token # 0
                      /\ \A b \in Browsers : jar[b].token # req'[a].set.token
                      /\ \A q \in Requests : req'[q].token # req'[a].set.token
                      /\ \A q \in Requests \ {a} : req'[q].set.token # req'[a].set.token
    BY DEF Unseen
  <2>1. a \in Awarded /\ a # p /\ a \in Requests
    BY <1>5 DEF Awarded
  <2>2. req'[a] = req[a] /\ at'[a] = at[a]
    BY <1>1, <2>1
  <2>3. \A q \in Requests : req'[q].token # req[a].set.token
    <3>1. c.token # req[a].set.token
      BY <2>1 DEF Unseen
    <3>2. QED
      BY <1>1, <2>1, <3>1 DEF Unseen
  <2>4. \A q \in Requests \ {a} : req'[q].set.token # req[a].set.token
    BY <1>1, <1>2, <2>1 DEF Unseen
  <2>5. QED
    BY <2>1, <2>2, <2>3, <2>4 DEF Unseen
<1>7. PurgesAreResets' /\ LogoutsValidate'
  BY <1>1 DEF PurgesAreResets, LogoutsValidate
<1>8. QED
  BY <1>3, <1>4, <1>6, <1>7

(* A cookie that p may give its browser: none, or one nobody else knows.   *)
Giveable(c, p) ==
    /\ c.until <= now + Lifetime
    /\ c.token # 0 =>
          /\ \A b \in Browsers : jar[b].token # c.token
          /\ \A q \in Requests : req[q].token # c.token
          /\ \A q \in Requests \ {p} : req[q].set.token # c.token

(* A request that ends, with its browser's cookie left alone, cleared, or  *)
(* set to one nobody knows.                                                *)
LEMMA EndOwned ==
    ASSUME TypeOK, Ownership, NEW p \in Requests, Leave(p), UNCHANGED now,
           minted' \in Nat, minted <= minted', NEW c \in Cookie,
           jar' = jar \/ (jar' = [jar EXCEPT ![req[p].browser] = c] /\ Giveable(c, p))
    PROVE  Ownership'
<1> USE DEF Ownership, Giveable
<1>1. /\ \A q \in Requests : req'[q] = IF q = p THEN Nothing ELSE req[q]
      /\ \A q \in Requests : at'[q] = IF q = p THEN "idle" ELSE at[q]
  BY CookieTypes DEF Leave
<1>2. /\ Nothing.token = 0 /\ Nothing.set = NoCookie /\ ~Nothing.leaving
      /\ NoCookie.until = 0 /\ NoCookie.token = 0
  BY DEF Nothing, NoCookie
<1>3. ASSUME NEW b \in Browsers
      PROVE  jar'[b] = jar[b] \/ (jar'[b] = c /\ b = req[p].browser /\ jar' # jar)
  BY CookieTypes
<1>4. Timely'
  BY <1>1, <1>2, <1>3, CookieTypes DEF Timely
<1>5. Owned'
  <2>1. ASSUME NEW q \in Requests PROVE req'[q].token <= minted'
    <3>1. req[q].token \in Nat /\ req[q].token <= minted /\ minted \in Nat
      BY CookieTypes DEF Owned
    <3>2. QED
      BY <1>1, <1>2, <3>1
  <2>2. ASSUME NEW b \in Browsers, NEW d \in Browsers, b # d, jar'[b].token # 0
        PROVE  jar'[b].token # jar'[d].token
    <3>1. CASE jar'[b] = jar[b] /\ jar'[d] = jar[d]
      BY <2>2, <3>1 DEF Owned
    <3>2. CASE jar'[b] = jar[b] /\ jar'[d] # jar[d]
      BY <1>3, <2>2, <3>2
    <3>3. CASE jar'[b] # jar[b]
      <4>1. jar'[b] = c /\ jar' # jar /\ b = req[p].browser
        BY <1>3, <3>3
      <4>2. jar'[d] = jar[d]
        BY <1>3, <2>2, <4>1
      <4>3. QED
        BY <2>2, <4>1, <4>2
    <3>4. QED
      BY <3>1, <3>2, <3>3
  <2>3. ASSUME NEW q \in Requests, NEW b \in Browsers, req'[q].token # 0,
               req'[q].token = jar'[b].token
        PROVE  req'[q].browser = b
    <3>1. q # p /\ req'[q] = req[q]
      BY <1>1, <1>2, <2>3
    <3>2. CASE jar'[b] = jar[b]
      BY <2>3, <3>1, <3>2 DEF Owned
    <3>3. CASE jar'[b] # jar[b]
      BY <1>3, <2>3, <3>1, <3>3
    <3>4. QED
      BY <3>2, <3>3
  <2>4. QED
    BY <2>1, <2>2, <2>3 DEF Owned
<1>6. Unseen'
  <2> SUFFICES ASSUME NEW a \in Awarded'
               PROVE  /\ at'[a] \in {"validate", "expire", "renew"} /\ ~req'[a].leaving
                      /\ req'[a].set.token # 0
                      /\ \A b \in Browsers : jar'[b].token # req'[a].set.token
                      /\ \A q \in Requests : req'[q].token # req'[a].set.token
                      /\ \A q \in Requests \ {a} : req'[q].set.token # req'[a].set.token
    BY DEF Unseen
  <2>1. a \in Awarded /\ a # p /\ a \in Requests /\ req'[a] = req[a] /\ at'[a] = at[a]
    BY <1>1, <1>2 DEF Awarded
  <2>2. req[a].set.token # 0
    BY <2>1 DEF Unseen
  <2>3. \A b \in Browsers : jar'[b].token # req[a].set.token
    BY <1>3, <2>1, <2>2 DEF Unseen
  <2>4. \A q \in Requests : req'[q].token # req[a].set.token
    BY <1>1, <1>2, <2>1, <2>2 DEF Unseen
  <2>5. \A q \in Requests \ {a} : req'[q].set.token # req[a].set.token
    BY <1>1, <1>2, <2>1, <2>2 DEF Unseen
  <2>6. QED
    BY <2>1, <2>3, <2>4, <2>5 DEF Unseen
<1>7. PurgesAreResets' /\ LogoutsValidate'
  BY <1>1, <1>2 DEF PurgesAreResets, LogoutsValidate
<1>8. QED
  BY <1>4, <1>5, <1>6, <1>7

(* Rotation's new cookie is one that nobody has.                           *)
LEMMA SwapOwned ==
    ASSUME TypeOK, Ownership, NEW p \in Requests, Swap(p)
    PROVE  Ownership'
<1> USE DEF Ownership
<1>1. /\ at[p] = "swap" /\ minted' = minted + 1 /\ UNCHANGED <<now, jar>>
      /\ at' = [at EXCEPT ![p] = "validate"]
      /\ req' = [req EXCEPT ![p].set = Fresh(minted')]
  BY DEF Swap, SwapAs
<1>2. /\ Fresh(minted').token = minted + 1 /\ Fresh(minted').until = now + Lifetime
  BY <1>1 DEF Fresh, sessionExpiry
<1> HIDE DEF Fresh
<1>3. /\ req'[p].set = Fresh(minted') /\ req'[p].leaving = req[p].leaving
      /\ \A q \in Requests : /\ req'[q].token = req[q].token
                             /\ req'[q].browser = req[q].browser
                             /\ req'[q].cred = req[q].cred
                             /\ q # p => req'[q] = req[q]
      /\ at'[p] = "validate" /\ \A q \in Requests \ {p} : at'[q] = at[q]
  BY <1>1, CookieTypes DEF Carried
<1>4. /\ now \in Nat /\ Lifetime \in Nat /\ minted \in Nat
      /\ \A b \in Browsers : jar[b].token \in Nat /\ jar[b].token <= minted
      /\ \A q \in Requests : /\ req[q].token \in Nat /\ req[q].token <= minted
                             /\ req[q].set.token \in Nat /\ req[q].set.token <= minted
  BY CookieTypes DEF Owned
<1>5. Timely'
  <2>1. ASSUME NEW q \in Requests PROVE req'[q].set.until <= now + Lifetime
    <3>1. CASE q = p
      BY <1>2, <1>3, <1>4, <3>1
    <3>2. CASE q # p
      BY <1>3, <3>2 DEF Timely
    <3>3. QED
      BY <3>1, <3>2
  <2>2. QED
    BY <1>1, <2>1 DEF Timely
<1>6. Owned'
  <2>1. \A q \in Requests : req'[q].token <= minted'
    BY <1>1, <1>3, <1>4
  <2>2. QED
    BY <1>1, <1>3, <2>1 DEF Owned
<1>7. Unseen'
  <2> SUFFICES ASSUME NEW a \in Awarded'
               PROVE  /\ at'[a] \in {"validate", "expire", "renew"} /\ ~req'[a].leaving
                      /\ req'[a].set.token # 0
                      /\ \A b \in Browsers : jar[b].token # req'[a].set.token
                      /\ \A q \in Requests : req'[q].token # req'[a].set.token
                      /\ \A q \in Requests \ {a} : req'[q].set.token # req'[a].set.token
    BY <1>1 DEF Unseen
  <2>0. a \in Requests
    BY DEF Awarded
  <2>1. CASE a = p
    <3>1. req'[a].set.token = minted + 1
      BY <1>2, <1>3, <2>1
    <3>2. ~req'[a].leaving
      BY <1>1, <1>3, <2>1 DEF LogoutsValidate
    <3>3. \A q \in Requests \ {a} : req'[q].set.token # minted + 1
      BY <1>3, <1>4, <2>1
    <3>4. QED
      BY <1>3, <1>4, <2>1, <3>1, <3>2, <3>3
  <2>2. CASE a # p
    <3>1. a \in Awarded /\ req'[a] = req[a] /\ at'[a] = at[a]
      BY <1>3, <2>0, <2>2 DEF Awarded
    <3>2. \A q \in Requests \ {a} : req'[q].set.token # req[a].set.token
      <4>1. Fresh(minted').token # req[a].set.token
        BY <1>2, <1>4, <2>0
      <4>2. QED
        BY <1>3, <3>1, <4>1 DEF Unseen
    <3>3. QED
      BY <1>3, <3>1, <3>2 DEF Unseen
  <2>3. QED
    BY <2>1, <2>2
<1>8. PurgesAreResets' /\ LogoutsValidate'
  <2>1. \A q \in Requests : req'[q].leaving = req[q].leaving
    BY <1>3
  <2>2. QED
    BY <1>1, <1>3, <2>1 DEF PurgesAreResets, LogoutsValidate
<1>9. QED
  BY <1>5, <1>6, <1>7, <1>8

(* Responses.                                                              *)
LEMMA RespondOwned ==
    ASSUME TypeOK, Ownership, NEW p \in Requests, UNCHANGED <<now, minted>>,
           Respond(p) \/ ClearCookie(p)
    PROVE  Ownership'
<1>1. Leave(p) /\ minted \in Nat /\ NoCookie \in Cookie /\ req[p].set \in Cookie
      /\ NoCookie.token = 0 /\ NoCookie.until = 0 /\ now \in Nat /\ Lifetime \in Nat
  BY CookieTypes, NothingCarried DEF Respond, ClearCookie, NoCookie
<1>0. minted' \in Nat /\ minted <= minted' /\ UNCHANGED now
  BY <1>1
<1>2. CASE jar' = jar
  BY <1>0, <1>1, <1>2, EndOwned
<1>3. CASE ClearCookie(p)
  <2>1. jar' = [jar EXCEPT ![req[p].browser] = NoCookie]
    BY <1>3 DEF ClearCookie
  <2> DEFINE c == NoCookie
  <2>2. c \in Cookie /\ Giveable(c, p)
    BY <1>1 DEF Giveable
  <2>3. jar' = [jar EXCEPT ![req[p].browser] = c]
    BY <2>1
  <2> HIDE DEF c
  <2>4. QED
    BY <1>0, <1>1, <2>2, <2>3, EndOwned
<1>4. CASE Respond(p) /\ p \in Awarded
  <2> DEFINE c == req[p].set
  <2>1. jar' = [jar EXCEPT ![req[p].browser] = c]
    BY <1>4 DEF Respond, Awarded
  <2>2. Giveable(c, p)
    BY <1>4 DEF Giveable, Ownership, Timely, Unseen
  <2>3. c \in Cookie
    BY <1>1
  <2> HIDE DEF c
  <2>4. QED
    BY <1>0, <1>1, <2>1, <2>2, <2>3, EndOwned
<1>5. QED
  BY <1>2, <1>3, <1>4 DEF Respond, Awarded

LEMMA SignInOwned ==
    ASSUME TypeOK, Ownership, NEW p \in Requests, createSession(p)
    PROVE  Ownership'
<1> DEFINE c == Fresh(minted')
<1>1. /\ Leave(p) /\ now' = now /\ minted' = minted + 1 /\ minted < MaxSessions
      /\ jar' = [jar EXCEPT ![req[p].browser] = c]
  BY DEF createSession
<1>2. /\ now \in Nat /\ Lifetime \in Nat /\ minted \in Nat
      /\ \A b \in Browsers : jar[b].token \in Nat /\ jar[b].token <= minted
      /\ \A q \in Requests : /\ req[q].token \in Nat /\ req[q].token <= minted
                             /\ req[q].set.token \in Nat /\ req[q].set.token <= minted
  BY CookieTypes DEF Ownership, Owned
<1>3. c.token = minted + 1 /\ c.until = now + Lifetime /\ c \in Cookie
  BY <1>1, <1>2, BoundsAssumption DEF Fresh, sessionExpiry, Cookie, Tokens, Sessions
<1> HIDE DEF c
<1>4. Giveable(c, p) /\ minted' \in Nat /\ minted <= minted'
  BY <1>1, <1>2, <1>3 DEF Giveable
<1>5. QED
  BY <1>1, <1>3, <1>4, EndOwned

LEMMA OwnershipStep == TypeOK /\ Ownership /\ [Next]_vars => Ownership'
<1> SUFFICES ASSUME TypeOK, Ownership, [Next]_vars PROVE Ownership'
  OBVIOUS
<1>0. /\ at \in [Requests -> Places] /\ req \in [Requests -> Carried] /\ minted \in Nat
      /\ password \in Nat /\ NoCookie \in Cookie
      /\ Nothing.token = 0 /\ Nothing.set = NoCookie /\ ~Nothing.leaving
  BY CookieTypes, NothingCarried DEF TypeOK, Nothing
<1>1. CASE UNCHANGED <<now, minted, jar, procs>>
  BY <1>1 DEF procs, Ownership, Timely, Owned, Unseen, Awarded, PurgesAreResets, LogoutsValidate
<1>2. CASE Tick
  <2>1. now' = now + 1 /\ UNCHANGED <<minted, jar, at, req>>
    BY <1>2 DEF Tick, rows, procs
  <2>2. Timely'
    BY <2>1, CookieTypes DEF Ownership, Timely
  <2>3. QED
    BY <2>1, <2>2 DEF Ownership, Owned, Unseen, Awarded, PurgesAreResets, LogoutsValidate
<1>3. ASSUME NEW p \in Requests, NEW b \in Browsers,
             registerMerchant(p, b) \/ authenticate(p, b) \/ Visit(p, b)
             \/ \E leaving \in BOOLEAN : Call(p, b, leaving)
      PROVE  Ownership'
  <2>1. UNCHANGED <<now, minted, jar>>
    BY <1>3 DEF registerMerchant, authenticate, Visit, Call, rows
  <2>2. Sends(b) # 0 => Sends(b) = jar[b].token
    BY DEF Sends
  <2>3. Sends(b) \in Nat
    BY CookieTypes DEF Sends
  <2>4. CASE registerMerchant(p, b) \/ authenticate(p, b)
    <3>1. PICK n : Begin(p, "open", [Nothing EXCEPT !.browser = b, !.cred = n])
      BY <2>4 DEF registerMerchant, authenticate
    <3> DEFINE c == [Nothing EXCEPT !.browser = b, !.cred = n]
    <3>2. c.token = 0 /\ c.set = NoCookie /\ ~c.leaving
      BY DEF Nothing
    <3>3. Begin(p, "open", c)
      BY <3>1
    <3> HIDE DEF c
    <3>4. QED
      BY <2>1, <3>2, <3>3, BeginOwned
  <2>5. CASE Visit(p, b)
    <3> DEFINE c == [Nothing EXCEPT !.browser = b, !.token = Sends(b)]
    <3>1. Begin(p, "rotate", c)
      BY <2>5 DEF Visit
    <3>2. c.browser = b /\ c.token = Sends(b) /\ c.set = NoCookie /\ ~c.leaving
      BY DEF Nothing
    <3> HIDE DEF c
    <3>3. QED
      BY <2>1, <2>2, <2>3, <3>1, <3>2, BeginOwned
  <2>6. ASSUME NEW leaving \in BOOLEAN, Call(p, b, leaving) PROVE Ownership'
    <3> DEFINE c == [Nothing EXCEPT !.browser = b, !.token = Sends(b), !.leaving = leaving]
    <3>1. Begin(p, "validate", c)
      BY <2>6 DEF Call
    <3>2. c.browser = b /\ c.token = Sends(b) /\ c.set = NoCookie
      BY DEF Nothing
    <3> HIDE DEF c
    <3>3. QED
      BY <2>1, <2>2, <2>3, <3>1, <3>2, BeginOwned
  <2>7. QED
    BY <1>3, <2>4, <2>5, <2>6
<1>4. ASSUME NEW p \in Requests, NEW l \in Links, FollowLink(p, l) PROVE Ownership'
  <2> DEFINE c == [Nothing EXCEPT !.reset = l]
  <2>1. Begin(p, "claim", c) /\ UNCHANGED <<now, minted, jar>>
    BY <1>4 DEF FollowLink, rows
  <2>2. c.token = 0 /\ c.set = NoCookie /\ ~c.leaving
    BY DEF Nothing
  <2> HIDE DEF c
  <2>3. QED
    BY <2>1, <2>2, BeginOwned
<1>5. ASSUME NEW p \in Requests, NEW place, Goto(p, place), UNCHANGED <<now, minted, jar>>,
             at[p] # "purge", place # "purge",
             p \in Awarded => place \in {"validate", "expire", "renew"},
             req[p].leaving => place \in {"validate", "expire", "renew", "revoke"}
      PROVE  Ownership'
  BY <1>0, <1>5, MoveOwned DEF Goto
<1>6. ASSUME NEW p \in Requests, Leave(p), UNCHANGED <<now, jar, minted>> PROVE Ownership'
  BY <1>0, <1>6, EndOwned
<1>7. ASSUME NEW p \in Requests,
             ReadForRotation(p) \/ Discard(p) \/ RotationFails(p)
      PROVE  Ownership'
  <2>1. /\ UNCHANGED <<now, minted, jar>> /\ at[p] \in {"rotate", "discard", "swap"}
        /\ \E place \in {"validate", "discard", "swap"} : Goto(p, place)
    BY <1>7 DEF ReadForRotation, Discard, RotationFails, rows
  <2>2. p \notin Awarded /\ ~req[p].leaving
    BY <2>1 DEF Ownership, Unseen, LogoutsValidate
  <2>3. QED
    BY <1>5, <2>1, <2>2
<1>8. ASSUME NEW p \in Requests, Served(p), at[p] \in {"validate", "renew"}, UNCHANGED <<now, minted>>
      PROVE  Ownership'
  <2>1. CASE req[p].leaving
    <3>1. p \notin Awarded /\ Goto(p, "revoke") /\ UNCHANGED jar
      BY <1>8, <2>1 DEF Served, Ownership, Unseen
    <3>2. QED
      BY <1>5, <1>8, <3>1
  <2>2. CASE ~req[p].leaving
    BY <1>8, <2>2, RespondOwned DEF Served
  <2>3. QED
    BY <2>1, <2>2
<1>9. ASSUME NEW p \in Requests,
             NoSession(p) \/ Expire(p) \/ invalidateSession(p)
      PROVE  Ownership'
  <2>1. UNCHANGED <<now, minted>> /\ (Respond(p) \/ ClearCookie(p))
    BY <1>9 DEF NoSession, Expire, invalidateSession, Refused, rows
  <2>2. QED
    BY <2>1, RespondOwned
<1>10. ASSUME NEW p \in Requests, Validate(p) PROVE Ownership'
  <2>1. /\ UNCHANGED <<now, minted>> /\ at[p] = "validate"
        /\ \/ Served(p)
           \/ UNCHANGED jar /\ (Goto(p, "expire") \/ Goto(p, "renew"))
    BY <1>10 DEF Validate, rows
  <2>2. QED
    BY <1>5, <1>8, <2>1
<1>11. ASSUME NEW p \in Requests, Renew(p) PROVE Ownership'
  <2>1. UNCHANGED <<now, minted>> /\ at[p] = "renew" /\ (Served(p) \/ Respond(p))
    BY <1>11 DEF Renew
  <2>2. QED
    BY <1>8, <2>1, RespondOwned
<1>12. ASSUME NEW p \in Requests, markUsed(p) PROVE Ownership'
  <2>1. /\ UNCHANGED <<now, minted, jar>> /\ at[p] = "claim"
        /\ Goto(p, "store") \/ Leave(p)
    BY <1>12 DEF markUsed
  <2>2. p \notin Awarded /\ ~req[p].leaving
    BY <2>1 DEF Ownership, Unseen, LogoutsValidate
  <2>3. QED
    BY <1>5, <1>6, <2>1, <2>2
<1>13. ASSUME NEW p \in Requests, updatePassword(p) PROVE Ownership'
  <2>1. /\ UNCHANGED <<now, minted, jar>> /\ at[p] = "store"
        /\ at' = [at EXCEPT ![p] = "purge"]
        /\ req' = [req EXCEPT ![p].cred = password'] /\ password' = password + 1
    BY <1>13 DEF updatePassword
  <2>2. p \notin Awarded /\ ~req[p].leaving
    BY <2>1 DEF Ownership, Unseen, LogoutsValidate
  <2>3. password' # 0 /\ req'[p].cred = password'
    BY <1>0, <2>1 DEF Carried
  <2>4. QED
    BY <1>0, <2>1, <2>2, <2>3, MoveOwned
<1>14. ASSUME NEW p \in Requests, invalidateUserSessions(p) \/ Abandon(p) PROVE Ownership'
  <2>1. Leave(p) /\ UNCHANGED <<now, jar, minted>>
    BY <1>14 DEF invalidateUserSessions, Abandon, rows
  <2>2. QED
    BY <1>6, <2>1
<1>15. ASSUME NEW p \in Requests, rotateSessionToken(p) PROVE Ownership'
  BY <1>7, <1>15, SwapOwned DEF rotateSessionToken
<1>16. ASSUME NEW p \in Requests, validateSessionToken(p) \/ invalidateSession(p)
       PROVE  Ownership'
  BY <1>9, <1>10, <1>11, <1>16 DEF validateSessionToken
<1>17. ASSUME NEW p \in Requests, resetPassword(p) \/ Abandon(p) PROVE Ownership'
  BY <1>12, <1>13, <1>14, <1>17 DEF resetPassword
<1>18. ASSUME NEW p \in Requests, GoOn(p) PROVE Ownership'
  BY <1>15, <1>16, <1>17, <1>18, SignInOwned DEF GoOn
<1>19. ASSUME NEW l \in Links, requestPasswordReset(l) PROVE Ownership'
  BY <1>1, <1>19 DEF requestPasswordReset
<1>20. CASE UNCHANGED vars
  BY <1>1, <1>20 DEF vars, rows
<1>21. QED
  BY <1>2, <1>3, <1>4, <1>17, <1>18, <1>19, <1>20 DEF Next

(* The rows: what a step may do to a session that somebody still counts    *)
(* on is to keep it, or to give it a whole lifetime from now.              *)
Keeps(s) ==
    /\ s \in DOMAIN session'
    /\ \/ session[s].expires <= session'[s].expires
       \/ now + Lifetime <= session'[s].expires

AllKept == \A s \in DOMAIN session : Keeps(s)

OthersKept(p) ==
    \A s \in DOMAIN session : Keeps(s) \/ (p \in Deleting /\ s = req[p].token)

LEMMA KeptLongEnough ==
    ASSUME TypeOK, Timely, NEW s \in DOMAIN session, Keeps(s),
           session'[s].expires \in Nat, NEW u \in Nat,
           u <= now + Lifetime, u <= session[s].expires
    PROVE  u <= session'[s].expires
<1>1. now \in Nat /\ Lifetime \in Nat /\ session[s].expires \in Nat
  BY CookieTypes
<1>2. QED
  BY <1>1 DEF Keeps

(* A step that touches no cookie, deletes only what its request had read   *)
(* as expired, and turns only on expired sessions to delete them.          *)
LEMMA LiveKept ==
    ASSUME TypeOK, TypeOK', Ownership, AwardsLive, CookiesLive,
           jar' = jar, now' \in Nat, now <= now', Calm' => Calm,
           Awarded' = Awarded,
           \A p \in Awarded : req'[p].set = req[p].set /\ req'[p].browser = req[p].browser,
           \A s \in DOMAIN session :
               Keeps(s) \/ \E p \in Deleting : req[p].token = s,
           \A q \in Deleting' :
               \/ q \in Deleting /\ req'[q].token = req[q].token
               \/ /\ req'[q].token \in DOMAIN session
                  /\ session[req'[q].token].expires <= now
    PROVE  AwardsLive' /\ CookiesLive'
<1> USE DEF Ownership
<1>0. \A s \in DOMAIN session' : session'[s].expires \in Nat
  BY DEF TypeOK, SessionRow
<1>1. AwardsLive'
  <2> SUFFICES ASSUME Calm, NEW p \in Awarded
               PROVE  /\ req[p].set.token \in DOMAIN session'
                      /\ req[p].set.until <= session'[req[p].set.token].expires
    BY DEF AwardsLive
  <2> DEFINE s == req[p].set.token
  <2>1. p \in Requests /\ s \in DOMAIN session /\ req[p].set.until <= session[s].expires
    BY DEF AwardsLive, Awarded
  <2>2. Keeps(s)
    BY <2>1 DEF Unseen, Deleting
  <2>3. req[p].set.until \in Nat /\ req[p].set.until <= now + Lifetime
    BY <2>1, CookieTypes DEF Timely
  <2>4. s \in DOMAIN session'
    BY <2>2 DEF Keeps
  <2> HIDE DEF s
  <2>5. req[p].set.until <= session'[s].expires
    BY <1>0, <2>1, <2>2, <2>3, <2>4, KeptLongEnough
  <2>6. QED
    BY <2>4, <2>5 DEF s
<1>2. CookiesLive'
  <2> SUFFICES ASSUME Calm, NEW b \in Browsers, Sends(b)' # 0
               PROVE  (Backed(b) \/ Replacing(b))'
    BY DEF CookiesLive
  <2>1. now' < jar[b].until /\ jar[b].token # 0
    BY DEF Sends
  <2>2. now \in Nat /\ jar[b].until \in Nat
    BY CookieTypes
  <2>3. Sends(b) # 0
    BY <2>1, <2>2, Sending
  <2>4. CASE Replacing(b)
    BY <2>4 DEF Replacing
  <2>5. CASE Backed(b)
    <3> DEFINE s == jar[b].token
    <3>1. /\ s \in DOMAIN session /\ jar[b].until <= session[s].expires
          /\ \A p \in Deleting : req[p].token # s
      BY <2>5 DEF Backed
    <3>2. Keeps(s) /\ jar[b].until <= now + Lifetime /\ session[s].expires \in Nat
      BY <3>1, CookieTypes DEF Timely
    <3>3. s \in DOMAIN session'
      BY <3>2 DEF Keeps
    <3>4. jar[b].until <= session'[s].expires
      <4> HIDE DEF s
      <4>1. QED
        BY <1>0, <2>2, <3>1, <3>2, <3>3, KeptLongEnough
    <3>5. ASSUME NEW q \in Deleting' PROVE req'[q].token # s
      <4>1. ~(session[s].expires <= now)
        BY <2>1, <2>2, <3>1, <3>2
      <4>2. QED
        BY <3>1, <3>5, <4>1
    <3>6. QED
      BY <3>3, <3>4, <3>5 DEF Backed
  <2>6. QED
    BY <2>3, <2>4, <2>5 DEF CookiesLive
<1>3. QED
  BY <1>1, <1>2

(* A request that ends by clearing its browser's cookie, or by setting one *)
(* that has its session, and deletes at most the session it came with.     *)
LEMMA LiveAnswer ==
    ASSUME TypeOK, TypeOK', Ownership, AwardsLive, CookiesLive,
           NEW p \in Requests, Leave(p), now' = now, Calm' => Calm, NEW c \in Cookie,
           jar' = [jar EXCEPT ![req[p].browser] = c],
           c.token # 0 /\ Calm =>
               /\ c.token \in DOMAIN session'
               /\ c.until <= session'[c.token].expires
               /\ \A q \in Requests : req[q].token # c.token,
           \A s \in DOMAIN session : Keeps(s) \/ s = req[p].token
    PROVE  AwardsLive' /\ CookiesLive'
<1> USE DEF Ownership
<1>0. \A s \in DOMAIN session' : session'[s].expires \in Nat
  BY DEF TypeOK, SessionRow
<1>1. /\ \A q \in Requests : req'[q] = IF q = p THEN Nothing ELSE req[q]
      /\ \A q \in Requests : at'[q] = IF q = p THEN "idle" ELSE at[q]
      /\ Nothing.set = NoCookie
  BY CookieTypes DEF Leave, Nothing
<1>2. /\ Awarded' = Awarded \ {p}
      /\ Deleting' = Deleting \ {p}
  BY <1>1 DEF Awarded, Deleting
<1>3. AwardsLive'
  <2> SUFFICES ASSUME Calm, NEW q \in Awarded \ {p}
               PROVE  /\ req[q].set.token \in DOMAIN session'
                      /\ req[q].set.until <= session'[req[q].set.token].expires
    BY <1>1, <1>2 DEF AwardsLive, Awarded
  <2> DEFINE s == req[q].set.token
  <2>1. q \in Requests /\ s \in DOMAIN session /\ req[q].set.until <= session[s].expires
    BY DEF AwardsLive, Awarded
  <2>2. Keeps(s)
    BY <2>1 DEF Unseen
  <2>3. req[q].set.until \in Nat /\ req[q].set.until <= now + Lifetime
    BY <2>1, CookieTypes DEF Timely
  <2>4. s \in DOMAIN session'
    BY <2>2 DEF Keeps
  <2> HIDE DEF s
  <2>5. req[q].set.until <= session'[s].expires
    BY <1>0, <2>1, <2>2, <2>3, <2>4, KeptLongEnough
  <2>6. QED
    BY <2>4, <2>5 DEF s
<1>4. CookiesLive'
  <2> SUFFICES ASSUME Calm, NEW b \in Browsers, Sends(b)' # 0
               PROVE  (Backed(b) \/ Replacing(b))'
    BY DEF CookiesLive
  <2>1. now < jar'[b].until /\ jar'[b].token # 0
    BY DEF Sends
  <2>2. CASE b = req[p].browser
    <3>1. jar'[b] = c
      BY <2>2, CookieTypes
    <3>2. \A q \in Deleting' : req'[q].token # c.token
      BY <1>1, <1>2, <2>1, <3>1 DEF Deleting
    <3>3. QED
      BY <2>1, <3>1, <3>2 DEF Backed
  <2>3. CASE b # req[p].browser
    <3>1. jar'[b] = jar[b]
      BY <2>3, CookieTypes
    <3>2. Sends(b) # 0
      BY <2>1, <3>1, Sending
    <3>3. CASE Replacing(b)
      <4>1. PICK q \in Awarded : req[q].browser = b
        BY <3>3 DEF Replacing
      <4>2. q \in Awarded' /\ req'[q].browser = b
        BY <1>1, <1>2, <2>3, <4>1 DEF Awarded
      <4>3. QED
        BY <4>2 DEF Replacing
    <3>4. CASE Backed(b)
      <4> DEFINE s == jar[b].token
      <4>1. /\ s \in DOMAIN session /\ jar[b].until <= session[s].expires
            /\ \A q \in Deleting : req[q].token # s
        BY <3>4 DEF Backed
      <4>2. Keeps(s) /\ jar[b].until <= now + Lifetime /\ jar[b].until \in Nat
        BY <2>1, <2>3, <3>1, <4>1, CookieTypes DEF Owned, Timely
      <4>3. s \in DOMAIN session'
        BY <4>2 DEF Keeps
      <4>4. jar[b].until <= session'[s].expires
        <5> HIDE DEF s
        <5>1. QED
          BY <1>0, <4>1, <4>2, <4>3, KeptLongEnough
      <4>5. \A q \in Deleting' : req'[q].token # s
        BY <1>1, <1>2, <4>1 DEF Deleting
      <4>6. QED
        BY <3>1, <4>3, <4>4, <4>5 DEF Backed
    <3>5. QED
      BY <3>2, <3>3, <3>4 DEF CookiesLive
  <2>4. QED
    BY <2>2, <2>3
<1>5. QED
  BY <1>3, <1>4

(* What each statement does to the rows it does not delete.                *)
LEMMA RowsKeep ==
    ASSUME TypeOK
    PROVE  /\ session' = session => \A s \in DOMAIN session : Keeps(s)
           /\ \A t : session' = Without({t}) => \A s \in DOMAIN session : Keeps(s) \/ s = t
           /\ \A row : session' = With(minted + 1, row) => \A s \in DOMAIN session : Keeps(s)
           /\ \A t : session' = [session EXCEPT ![t].expires = sessionExpiry]
                     => \A s \in DOMAIN session : Keeps(s)
<1>1. /\ now \in Nat /\ Lifetime \in Nat /\ minted \in Nat
      /\ \A s \in DOMAIN session : /\ session[s].expires \in Nat /\ session[s] \in SessionRow
                                   /\ s \in Nat /\ s <= minted
  BY CookieTypes
<1>2. session' = session => \A s \in DOMAIN session : Keeps(s)
  BY <1>1 DEF Keeps
<1>3. ASSUME NEW t, session' = Without({t}), NEW s \in DOMAIN session, s # t PROVE Keeps(s)
  BY <1>1, <1>3 DEF Keeps, Without
<1>4. ASSUME NEW row, session' = With(minted + 1, row), NEW s \in DOMAIN session PROVE Keeps(s)
  <2>1. s # minted + 1
    BY <1>1
  <2>2. s \in DOMAIN session' /\ session'[s] = session[s]
    BY <1>4, <2>1 DEF With
  <2>3. QED
    BY <1>1, <2>2 DEF Keeps
<1>5. ASSUME NEW t, session' = [session EXCEPT ![t].expires = sessionExpiry],
             NEW s \in DOMAIN session
      PROVE  Keeps(s)
  <2>1. s \in DOMAIN session'
    BY <1>5
  <2>2. CASE s = t
    <3>1. session'[s] = [session[s] EXCEPT !.expires = sessionExpiry]
      BY <1>5, <2>2
    <3>2. session'[s].expires = now + Lifetime
      BY <1>1, <3>1 DEF SessionRow, sessionExpiry
    <3>3. QED
      BY <1>1, <2>1, <3>2 DEF Keeps
  <2>3. CASE s # t
    BY <1>1, <1>5, <2>1, <2>3 DEF Keeps
  <2>4. QED
    BY <2>2, <2>3
<1>6. QED
  BY <1>2, <1>3, <1>4, <1>5

LEMMA KeepingAll ==
    ASSUME TypeOK
    PROVE  /\ session' = session => AllKept
           /\ \A p : AllKept => OthersKept(p)
           /\ \A p : session' = Without({req[p].token})
                     => \A s \in DOMAIN session : Keeps(s) \/ s = req[p].token
           /\ \A p \in Deleting : session' = Without({req[p].token}) => OthersKept(p)
<1>1. session' = session => AllKept
  BY RowsKeep DEF AllKept
<1>2. ASSUME NEW p, AllKept PROVE OthersKept(p)
  BY <1>2 DEF AllKept, OthersKept, Keeps
<1>3. ASSUME NEW p, session' = Without({req[p].token}), NEW s \in DOMAIN session
      PROVE  Keeps(s) \/ s = req[p].token
  BY <1>3, RowsKeep
<1>4. ASSUME NEW p \in Deleting, session' = Without({req[p].token}) PROVE OthersKept(p)
  BY <1>3, <1>4 DEF OthersKept, Keeps
<1>5. QED
  BY <1>1, <1>2, <1>3, <1>4

(* The rows, step by step: a request that goes from place to place.        *)
LEMMA LiveMove ==
    ASSUME TypeOK, TypeOK', CookieInv, NEW p \in Requests, NEW place,
           at' = [at EXCEPT ![p] = place],
           req' = req \/ \E n : req' = [req EXCEPT ![p].cred = n],
           UNCHANGED <<now, jar, faults, ended>>,
           OthersKept(p),
           place \in {"discard", "expire"} => Found(p) /\ isSessionExpired(Row(p).expires)
    PROVE  AwardsLive' /\ CookiesLive'
<1>1. now' \in Nat /\ now <= now' /\ jar' = jar /\ (Calm' => Calm)
  BY CookieTypes DEF Calm
<1>2. \A q \in Requests : /\ req'[q].token = req[q].token /\ req'[q].set = req[q].set
                          /\ req'[q].browser = req[q].browser
  BY CookieTypes DEF Carried
<1>3. /\ Awarded' = Awarded
      /\ \A q \in Awarded : req'[q].set = req[q].set /\ req'[q].browser = req[q].browser
  BY <1>2 DEF Awarded
<1>4. ASSUME NEW q \in Deleting'
      PROVE  \/ q \in Deleting /\ req'[q].token = req[q].token
             \/ req'[q].token \in DOMAIN session /\ session[req'[q].token].expires <= now
  <2>1. q \in Requests /\ at'[q] \in {"discard", "expire"} /\ req'[q].token = req[q].token
    BY <1>2 DEF Deleting
  <2>2. CASE q = p
    BY <2>1, <2>2, CookieTypes DEF Found, Row, isSessionExpired
  <2>3. CASE q # p
    BY <2>1, <2>3, CookieTypes DEF Deleting
  <2>4. QED
    BY <2>2, <2>3
<1>5. \A s \in DOMAIN session : Keeps(s) \/ \E q \in Deleting : req[q].token = s
  BY DEF OthersKept
<1>6. QED
  BY <1>1, <1>3, <1>4, <1>5, LiveKept DEF CookieInv

LEMMA LiveBegin ==
    ASSUME TypeOK, TypeOK', CookieInv, NEW p \in Requests, NEW place, NEW c,
           Begin(p, place, c), UNCHANGED <<now, session, jar, faults, ended>>,
           c.set = NoCookie, place \notin {"discard", "expire"}
    PROVE  AwardsLive' /\ CookiesLive'
<1>1. now' \in Nat /\ now <= now' /\ jar' = jar /\ (Calm' => Calm)
  BY CookieTypes DEF Calm
<1>2. \A q \in Requests : /\ req'[q] = IF q = p THEN c ELSE req[q]
                          /\ at'[q] = IF q = p THEN place ELSE at[q]
  BY CookieTypes DEF Begin
<1>3. p \notin Awarded
  BY DEF Begin, CookieInv, Ownership, Unseen
<1>4. /\ Awarded' = Awarded
      /\ \A q \in Awarded : req'[q].set = req[q].set /\ req'[q].browser = req[q].browser
  BY <1>2, <1>3 DEF Awarded
<1>5. \A q \in Deleting' : q \in Deleting /\ req'[q].token = req[q].token
  BY <1>2 DEF Deleting
<1>6. \A s \in DOMAIN session : Keeps(s)
  BY RowsKeep
<1>7. QED
  BY <1>1, <1>4, <1>5, <1>6, LiveKept DEF CookieInv

(* A request that ends without a cookie on its response.                   *)
LEMMA LiveLeave ==
    ASSUME TypeOK, TypeOK', CookieInv, NEW p \in Requests, Leave(p), p \notin Awarded,
           UNCHANGED <<now, jar, faults, ended>>,
           OthersKept(p)
    PROVE  AwardsLive' /\ CookiesLive'
<1>1. now' \in Nat /\ now <= now' /\ jar' = jar /\ (Calm' => Calm)
  BY CookieTypes DEF Calm
<1>2. /\ \A q \in Requests : /\ req'[q] = IF q = p THEN Nothing ELSE req[q]
                             /\ at'[q] = IF q = p THEN "idle" ELSE at[q]
      /\ Nothing.set = NoCookie
  BY CookieTypes DEF Leave, Nothing
<1>3. /\ Awarded' = Awarded
      /\ \A q \in Awarded : req'[q].set = req[q].set /\ req'[q].browser = req[q].browser
  BY <1>2 DEF Awarded
<1>4. \A q \in Deleting' : q \in Deleting /\ req'[q].token = req[q].token
  BY <1>2 DEF Deleting
<1>5. \A s \in DOMAIN session : Keeps(s) \/ \E q \in Deleting : req[q].token = s
  BY DEF OthersKept
<1>6. QED
  BY <1>1, <1>3, <1>4, <1>5, LiveKept DEF CookieInv

LEMMA LiveRespond ==
    ASSUME TypeOK, TypeOK', CookieInv, NEW p \in Requests, Respond(p),
           UNCHANGED <<now, faults, ended>>,
           OthersKept(p)
    PROVE  AwardsLive' /\ CookiesLive'
<1>1. CASE p \notin Awarded
  BY <1>1, LiveLeave DEF Respond, Awarded
<1>2. CASE p \in Awarded
  <2> DEFINE c == req[p].set
  <2>1. /\ jar' = [jar EXCEPT ![req[p].browser] = c] /\ Leave(p) /\ now' = now
        /\ c \in Cookie /\ (Calm' => Calm)
    BY <1>2, CookieTypes DEF Respond, Awarded, Calm
  <2>2. /\ \A q \in Requests : req[q].token # c.token
        /\ c.until \in Nat /\ c.until <= now + Lifetime
    BY <1>2, CookieTypes DEF CookieInv, Ownership, Unseen, Timely
  <2>3. ASSUME Calm PROVE c.token \in DOMAIN session' /\ c.until <= session'[c.token].expires
    <3>1. c.token \in DOMAIN session /\ c.until <= session[c.token].expires
      BY <1>2, <2>3 DEF CookieInv, AwardsLive
    <3>2. Keeps(c.token)
      BY <2>2, <3>1, <1>2 DEF OthersKept, CookieInv, Ownership, Unseen
    <3>3. c.token \in DOMAIN session'
      BY <3>2 DEF Keeps
    <3>4. session'[c.token].expires \in Nat
      BY <3>3 DEF TypeOK, SessionRow
    <3> HIDE DEF c
    <3>5. QED
      BY <2>2, <3>1, <3>2, <3>3, <3>4, KeptLongEnough DEF CookieInv, Ownership
  <2>4. \A s \in DOMAIN session : Keeps(s) \/ s = req[p].token
    BY DEF OthersKept
  <2> HIDE DEF c
  <2>5. QED
    BY <2>1, <2>2, <2>3, <2>4, LiveAnswer DEF CookieInv
<1>3. QED
  BY <1>1, <1>2

LEMMA LiveClear ==
    ASSUME TypeOK, TypeOK', CookieInv, NEW p \in Requests, ClearCookie(p),
           UNCHANGED <<now, faults, ended>>,
           \A s \in DOMAIN session : Keeps(s) \/ s = req[p].token
    PROVE  AwardsLive' /\ CookiesLive'
<1> DEFINE c == NoCookie
<1>1. c.token = 0 /\ c \in Cookie
  BY NothingCarried, CookieTypes DEF Cookie, Tokens, NoCookie
<1>2. /\ jar' = [jar EXCEPT ![req[p].browser] = c] /\ Leave(p) /\ now' = now
      /\ (Calm' => Calm)
  BY DEF ClearCookie, Calm
<1> HIDE DEF c
<1>3. QED
  BY <1>1, <1>2, LiveAnswer DEF CookieInv

LEMMA LiveSignIn ==
    ASSUME TypeOK, TypeOK', CookieInv, NEW p \in Requests, createSession(p)
    PROVE  AwardsLive' /\ CookiesLive'
<1> DEFINE c == Fresh(minted')
           row == [expires |-> sessionExpiry, password |-> req[p].cred,
                   late |-> req[p].cred # password]
<1>1. /\ Leave(p) /\ now' = now /\ minted' = minted + 1 /\ minted < MaxSessions
      /\ session' = With(minted + 1, row)
      /\ jar' = [jar EXCEPT ![req[p].browser] = c] /\ (Calm' => Calm)
  BY DEF createSession, Calm
<1>2. now \in Nat /\ Lifetime \in Nat /\ minted \in Nat
  BY CookieTypes
<1>3. c.token = minted + 1 /\ c.until = now + Lifetime /\ c \in Cookie
  BY <1>1, <1>2, BoundsAssumption DEF Fresh, sessionExpiry, Cookie, Tokens, Sessions
<1>4. c.token \in DOMAIN session' /\ c.until <= session'[c.token].expires
  <2>1. session'[minted + 1] = row /\ minted + 1 \in DOMAIN session'
    BY <1>1 DEF With
  <2>2. row.expires = now + Lifetime
    BY DEF sessionExpiry
  <2>3. QED
    BY <1>2, <1>3, <2>1, <2>2
<1>5. \A q \in Requests : req[q].token # c.token
  <2>1. \A q \in Requests : req[q].token \in Nat /\ req[q].token <= minted
    BY CookieTypes DEF CookieInv, Ownership, Owned
  <2>2. QED
    BY <1>2, <1>3, <2>1
<1>6. \A s \in DOMAIN session : Keeps(s)
  BY <1>1, RowsKeep
<1> HIDE DEF c
<1>7. QED
  BY <1>1, <1>3, <1>4, <1>5, <1>6, LiveAnswer DEF CookieInv

(* Rotation leaves the old session only the grace: its browser counts on   *)
(* the new one, which is on the response of the request that rotates.      *)
LEMMA LiveSwap ==
    ASSUME TypeOK, TypeOK', CookieInv, NEW p \in Requests, Swap(p)
    PROVE  AwardsLive' /\ CookiesLive'
<1> DEFINE n == minted + 1
           t == req[p].token
<1>1. /\ at[p] = "swap" /\ Found(p) /\ minted' = n /\ UNCHANGED <<now, jar, faults, ended>>
      /\ at' = [at EXCEPT ![p] = "validate"]
      /\ req' = [req EXCEPT ![p].set = Fresh(n)]
      /\ session' = [With(n, Replacement(p, sessionExpiry)) EXCEPT ![t].expires = now + Grace]
  BY DEF Swap, SwapAs
<1>2. /\ now \in Nat /\ Lifetime \in Nat /\ minted \in Nat /\ t \in DOMAIN session
      /\ \A s \in DOMAIN session : /\ session[s] \in SessionRow /\ session[s].expires \in Nat
                                   /\ s \in Nat /\ s # 0 /\ s <= minted
  BY <1>1, CookieTypes DEF Found
<1>3. Fresh(n).token = n /\ Fresh(n).until = now + Lifetime /\ Fresh(n) # NoCookie
  <2>1. Fresh(n).token = n /\ Fresh(n).until = now + Lifetime /\ NoCookie.token = 0
    BY DEF Fresh, sessionExpiry, NoCookie
  <2>2. n # 0
    BY <1>2
  <2>3. QED
    BY <2>1, <2>2
<1>4. /\ \A q \in Requests : /\ req'[q].token = req[q].token
                             /\ req'[q].browser = req[q].browser
                             /\ q # p => req'[q] = req[q] /\ at'[q] = at[q]
      /\ req'[p].set = Fresh(n) /\ at'[p] = "validate"
  <2> HIDE DEF n
  <2>1. QED
    BY <1>1, CookieTypes DEF Carried
<1>5. Awarded' = Awarded \cup {p} /\ Deleting' = Deleting
  <2> HIDE DEF n
  <2>1. QED
    BY <1>1, <1>3, <1>4 DEF Awarded, Deleting
<1>6. n \in DOMAIN session' /\ session'[n].expires = now + Lifetime
  <2>1. n # t
    BY <1>2
  <2>2. session'[n] = Replacement(p, sessionExpiry) /\ n \in DOMAIN session'
    BY <1>1, <2>1 DEF With
  <2>3. Row(p) \in SessionRow
    BY <1>2 DEF Row
  <2>4. Replacement(p, sessionExpiry).expires = sessionExpiry
    BY <2>3 DEF Replacement, SessionRow
  <2>5. QED
    BY <2>2, <2>4 DEF sessionExpiry
<1>7. ASSUME NEW s \in DOMAIN session
      PROVE  s \in DOMAIN session' /\ (s # t => session'[s] = session[s])
  <2>1. s # n
    BY <1>2
  <2>2. QED
    BY <1>1, <2>1 DEF With
<1>8. AwardsLive'
  <2> SUFFICES ASSUME Calm, NEW q \in Awarded'
               PROVE  /\ req'[q].set.token \in DOMAIN session'
                      /\ req'[q].set.until <= session'[req'[q].set.token].expires
    BY <1>1 DEF AwardsLive, Calm
  <2>1. CASE q = p
    <3> HIDE DEF n
    <3>1. req'[q].set.token = n /\ req'[q].set.until = now + Lifetime
      BY <1>3, <1>4, <2>1
    <3>2. QED
      BY <1>2, <1>6, <3>1
  <2>2. CASE q # p
    <3> DEFINE s == req[q].set.token
    <3>1. q \in Awarded /\ q \in Requests /\ req'[q] = req[q]
      BY <1>4, <1>5, <2>2 DEF Awarded
    <3>2. s \in DOMAIN session /\ req[q].set.until <= session[s].expires /\ s # t
      BY <3>1 DEF CookieInv, AwardsLive, Ownership, Unseen
    <3>3. QED
      BY <1>7, <3>1, <3>2
  <2>3. QED
    BY <2>1, <2>2
<1>9. CookiesLive'
  <2> SUFFICES ASSUME Calm, NEW b \in Browsers, Sends(b) # 0
               PROVE  (Backed(b) \/ Replacing(b))'
    BY <1>1 DEF CookiesLive, Calm, Sends
  <2>1. CASE jar[b].token = t
    <3>1. req[p].browser = b
      BY <1>2, <2>1 DEF CookieInv, Ownership, Owned
    <3>2. p \in Awarded' /\ req'[p].browser = b
      BY <1>4, <1>5, <3>1
    <3>3. QED
      BY <3>2 DEF Replacing
  <2>2. CASE jar[b].token # t /\ Backed(b)
    <3>1. /\ jar'[b].token \in DOMAIN session'
          /\ jar'[b].until <= session'[jar'[b].token].expires
      BY <1>1, <1>7, <2>2 DEF Backed
    <3>2. ASSUME NEW q \in Deleting' PROVE req'[q].token # jar'[b].token
      BY <1>1, <1>4, <1>5, <2>2 DEF Backed, Deleting
    <3>3. QED
      BY <3>1, <3>2 DEF Backed
  <2>3. CASE Replacing(b)
    <3>1. PICK q \in Awarded : req[q].browser = b
      BY <2>3 DEF Replacing
    <3>2. q \in Awarded' /\ req'[q].browser = b
      BY <1>4, <1>5, <3>1 DEF Awarded
    <3>3. QED
      BY <3>2 DEF Replacing
  <2>4. QED
    BY <2>1, <2>2, <2>3 DEF CookieInv, CookiesLive
<1>10. QED
  BY <1>8, <1>9

LEMMA LiveStep ==
    TypeOK /\ TypeOK' /\ CookieInv /\ [Next]_vars => AwardsLive' /\ CookiesLive'
<1> SUFFICES ASSUME TypeOK, TypeOK', CookieInv, [Next]_vars
             PROVE  AwardsLive' /\ CookiesLive'
  OBVIOUS
<1> DEFINE Live == AwardsLive' /\ CookiesLive'
<1> SUFFICES Live
  OBVIOUS
<1> HIDE DEF Live
<1>1. ASSUME NEW p \in Requests, NEW place, Goto(p, place),
             UNCHANGED <<now, jar, faults, ended>>,
             OthersKept(p),
             place \in {"discard", "expire"} => Found(p) /\ isSessionExpired(Row(p).expires)
      PROVE  Live
  BY <1>1, LiveMove DEF Live, Goto
<1>2. /\ session' = session => AllKept
      /\ \A p : AllKept => OthersKept(p)
      /\ \A p : session' = Without({req[p].token})
                => \A s \in DOMAIN session : Keeps(s) \/ s = req[p].token
      /\ \A p \in Deleting : session' = Without({req[p].token}) => OthersKept(p)
  BY KeepingAll
<1>3. CASE UNCHANGED <<session, jar, procs, faults, ended>> /\ (now' = now \/ now' = now + 1)
  <2>1. now' \in Nat /\ now <= now' /\ jar' = jar /\ (Calm' => Calm)
    BY <1>3, CookieTypes DEF Calm
  <2>2. /\ Awarded' = Awarded /\ Deleting' = Deleting
        /\ \A q : req'[q] = req[q]
    BY <1>3 DEF procs, Awarded, Deleting
  <2>3. \A s \in DOMAIN session : Keeps(s)
    BY <1>3, <1>2 DEF AllKept
  <2>4. QED
    BY <2>1, <2>2, <2>3, LiveKept DEF Live, CookieInv
<1>4. ASSUME NEW p \in Requests, NEW b \in Browsers,
             registerMerchant(p, b) \/ authenticate(p, b) \/ Visit(p, b)
             \/ \E leaving \in BOOLEAN : Call(p, b, leaving)
      PROVE  Live
  <2>1. PICK place, c : /\ Begin(p, place, c) /\ UNCHANGED <<now, session, jar, faults, ended>>
                        /\ place \in {"open", "rotate", "validate"} /\ c.set = NoCookie
    <3>1. ASSUME NEW n PROVE [Nothing EXCEPT !.browser = b, !.cred = n].set = NoCookie
      BY DEF Nothing
    <3>2. ASSUME NEW n PROVE [Nothing EXCEPT !.browser = b, !.token = n].set = NoCookie
      BY DEF Nothing
    <3>3. ASSUME NEW n, NEW l
          PROVE  [Nothing EXCEPT !.browser = b, !.token = n, !.leaving = l].set = NoCookie
      BY DEF Nothing
    <3>4. CASE registerMerchant(p, b)
      BY <3>1, <3>4 DEF registerMerchant
    <3>5. CASE authenticate(p, b)
      BY <3>1, <3>5 DEF authenticate, rows
    <3>6. CASE Visit(p, b)
      BY <3>2, <3>6 DEF Visit, rows
    <3>7. CASE \E leaving \in BOOLEAN : Call(p, b, leaving)
      BY <3>3, <3>7 DEF Call, rows
    <3>8. QED
      BY <1>4, <3>4, <3>5, <3>6, <3>7
  <2>2. QED
    BY <2>1, LiveBegin DEF Live
<1>5. ASSUME NEW p \in Requests, NEW l \in Links, FollowLink(p, l) PROVE Live
  <2> DEFINE c == [Nothing EXCEPT !.reset = l]
  <2>1. /\ Begin(p, "claim", c) /\ UNCHANGED <<now, session, jar, faults, ended>>
        /\ c.set = NoCookie
    BY <1>5 DEF FollowLink, rows, Nothing
  <2> HIDE DEF c
  <2>2. QED
    BY <2>1, LiveBegin DEF Live
<1>6. ASSUME NEW p \in Requests, ReadForRotation(p) PROVE Live
  <2>1. PICK place : /\ Goto(p, place) /\ UNCHANGED <<now, session, jar, faults, ended>>
                     /\ place \in {"discard", "expire"}
                           => Found(p) /\ isSessionExpired(Row(p).expires)
    BY <1>6 DEF ReadForRotation, rows
  <2>2. OthersKept(p)
    BY <1>2, <2>1
  <2>3. QED
    BY <1>1, <2>1, <2>2
<1>7. ASSUME NEW p \in Requests, Discard(p) \/ RotationFails(p) PROVE Live
  <2>1. Goto(p, "validate") /\ UNCHANGED <<now, jar, faults, ended>>
    BY <1>7 DEF Discard, RotationFails
  <2>2. \/ session' = session
        \/ p \in Deleting /\ session' = Without({req[p].token})
    BY <1>7 DEF Discard, RotationFails, rows, Deleting
  <2>3. OthersKept(p)
    BY <1>2, <2>2
  <2>4. QED
    BY <1>1, <2>1, <2>3
<1>8. ASSUME NEW p \in Requests, Served(p), UNCHANGED <<now, faults, ended>>,
             OthersKept(p)
      PROVE  Live
  <2>1. CASE req[p].leaving
    <3>1. Goto(p, "revoke") /\ UNCHANGED <<now, jar, faults, ended>>
      BY <1>8, <2>1 DEF Served
    <3>2. QED
      BY <1>1, <1>8, <3>1
  <2>2. CASE ~req[p].leaving
    <3>1. Respond(p)
      BY <1>8, <2>2 DEF Served
    <3>2. QED
      BY <1>8, <3>1, LiveRespond DEF Live
  <2>3. QED
    BY <2>1, <2>2
<1>9. ASSUME NEW p \in Requests, Refused(p) \/ Respond(p), UNCHANGED <<now, faults, ended>>,
             OthersKept(p)
      PROVE  Live
  <2>1. CASE ClearCookie(p)
    <3>1. \A s \in DOMAIN session : Keeps(s) \/ s = req[p].token
      BY <1>9 DEF OthersKept, Keeps
    <3>2. QED
      BY <1>9, <2>1, <3>1, LiveClear DEF Live, Keeps
  <2>2. CASE Respond(p)
    BY <1>9, <2>2, LiveRespond DEF Live
  <2>3. QED
    BY <1>9, <2>1, <2>2 DEF Refused
<1>10. ASSUME NEW p \in Requests, NoSession(p) \/ Expire(p) PROVE Live
  <2>1. (Refused(p) \/ Respond(p)) /\ UNCHANGED <<now, faults, ended>>
    BY <1>10 DEF NoSession, Expire
  <2>2. \/ session' = session
        \/ p \in Deleting /\ session' = Without({req[p].token})
    BY <1>10 DEF NoSession, Expire, rows, Deleting
  <2>3. OthersKept(p)
    BY <1>2, <2>2
  <2>4. QED
    BY <1>9, <2>1, <2>3
<1>11. ASSUME NEW p \in Requests, Validate(p) PROVE Live
  <2>1. /\ Found(p) /\ UNCHANGED <<now, session, faults, ended>>
        /\ \/ Served(p)
           \/ UNCHANGED jar /\ Goto(p, "expire") /\ isSessionExpired(Row(p).expires)
           \/ UNCHANGED jar /\ Goto(p, "renew")
    BY <1>11 DEF Validate, rows
  <2>2. OthersKept(p)
    BY <1>2, <2>1
  <2>3. CASE Served(p)
    BY <1>8, <2>1, <2>2, <2>3
  <2>4. CASE UNCHANGED jar /\ Goto(p, "expire") /\ isSessionExpired(Row(p).expires)
    BY <1>1, <2>1, <2>2, <2>4
  <2>5. CASE UNCHANGED jar /\ Goto(p, "renew")
    BY <1>1, <2>1, <2>2, <2>5
  <2>6. QED
    BY <2>1, <2>3, <2>4, <2>5
<1>12. ASSUME NEW p \in Requests, Renew(p) PROVE Live
  <2>1. UNCHANGED <<now, faults, ended>> /\ (Served(p) \/ Respond(p))
    BY <1>12 DEF Renew
  <2>2. AllKept /\ OthersKept(p)
    BY <1>2, <1>12, RowsKeep DEF Renew, AllKept
  <2>3. CASE Served(p)
    BY <1>8, <2>1, <2>2, <2>3
  <2>4. CASE Respond(p)
    BY <1>9, <2>1, <2>2, <2>4
  <2>5. QED
    BY <2>1, <2>3, <2>4
<1>13. ASSUME NEW p \in Requests, invalidateSession(p) PROVE Live
  <2>1. ClearCookie(p) /\ UNCHANGED <<now, faults, ended>> /\ session' = Without({req[p].token})
    BY <1>13 DEF invalidateSession
  <2>2. QED
    BY <2>1, RowsKeep, LiveClear DEF Live
<1>14. ASSUME NEW p \in Requests, markUsed(p) PROVE Live
  <2>1. /\ UNCHANGED <<now, session, jar, faults, ended>> /\ at[p] = "claim"
        /\ Goto(p, "store") \/ Leave(p)
    BY <1>14 DEF markUsed
  <2>2. p \notin Awarded /\ OthersKept(p)
    BY <1>2, <2>1 DEF CookieInv, Ownership, Unseen
  <2>3. CASE Goto(p, "store")
    BY <1>1, <2>1, <2>2, <2>3
  <2>4. CASE Leave(p)
    BY <2>1, <2>2, <2>4, LiveLeave DEF Live
  <2>5. QED
    BY <2>1, <2>3, <2>4
<1>15. ASSUME NEW p \in Requests, updatePassword(p) PROVE Live
  <2>1. /\ UNCHANGED <<now, session, jar, faults, ended>>
        /\ at' = [at EXCEPT ![p] = "purge"]
        /\ req' = [req EXCEPT ![p].cred = password']
    BY <1>15 DEF updatePassword
  <2>2. OthersKept(p)
    BY <1>2, <2>1
  <2>3. \E n : req' = [req EXCEPT ![p].cred = n]
    BY <2>1
  <2>4. QED
    BY <2>1, <2>2, <2>3, LiveMove DEF Live
<1>16. ASSUME NEW p \in Requests, invalidateUserSessions(p) \/ Abandon(p) PROVE Live
  <2>1. /\ ended \in Nat /\ req[p].cred \in Nat /\ faults \in Nat
        /\ at[p] = "purge" => req[p].cred # 0
    BY BoundsAssumption, CookieTypes
    DEF TypeOK, Carried, CookieInv, Ownership, PurgesAreResets
  <2>2. ended' # 0 \/ faults' # 0
    BY <1>16, <2>1 DEF invalidateUserSessions, Abandon
  <2>3. QED
    BY <2>2 DEF Live, AwardsLive, CookiesLive, Calm
<1>17. ASSUME NEW p \in Requests, GoOn(p) \/ Abandon(p) PROVE Live
  BY <1>6, <1>7, <1>10, <1>11, <1>12, <1>13, <1>14, <1>15, <1>16, <1>17, LiveSignIn, LiveSwap
  DEF GoOn, rotateSessionToken, validateSessionToken, resetPassword, Live
<1>18. CASE Tick
  BY <1>3, <1>18 DEF Tick, rows
<1>19. ASSUME NEW l \in Links, requestPasswordReset(l) PROVE Live
  BY <1>3, <1>19 DEF requestPasswordReset
<1>20. CASE UNCHANGED vars
  BY <1>3, <1>20 DEF vars, rows
<1>21. QED
  BY <1>4, <1>5, <1>17, <1>18, <1>19, <1>20 DEF Next

(* While nothing is reset and no request dies, a cookie that a browser     *)
(* sends with no request of its own under way opens a session that lives:  *)
(* however rotations, renewals and expiry clean-ups of any number of       *)
(* requests and browsers overlap, none of them signs a user out.           *)
THEOREM NobodyIsSignedOut == Spec => []CookieWorks
<1>1. Init => CookieInv
  <2> SUFFICES ASSUME Init PROVE CookieInv
    OBVIOUS
  <2>1. /\ now = 0 /\ Lifetime \in Nat /\ \A b \in Browsers : jar[b] = NoCookie
        /\ \A p \in Requests : req[p] = Nothing /\ at[p] = "idle"
        /\ minted = 0
    BY TimesAssumption DEF Init
  <2>2. /\ NoCookie.token = 0 /\ NoCookie.until = 0
        /\ Nothing.set = NoCookie /\ Nothing.token = 0 /\ ~Nothing.leaving
    BY DEF Nothing, NoCookie
  <2>3. Awarded = {} /\ Deleting = {} /\ \A b \in Browsers : Sends(b) = 0
    BY <2>1, <2>2 DEF Awarded, Deleting, Sends
  <2>4. Ownership
    BY <2>1, <2>2, <2>3
    DEF Ownership, Timely, Owned, Unseen, PurgesAreResets, LogoutsValidate
  <2>5. QED
    BY <2>3, <2>4 DEF CookieInv, AwardsLive, CookiesLive
<1>2. TypeOK /\ TypeOK' /\ CookieInv /\ [Next]_vars => CookieInv'
  BY OwnershipStep, LiveStep DEF CookieInv
<1>3. TypeOK /\ CookieInv => CookieWorks
  <2> SUFFICES ASSUME TypeOK, CookieInv, Calm, NEW b \in Browsers, ~Busy(b), Sends(b) # 0
               PROVE  /\ Sends(b) \in DOMAIN session
                      /\ ~isSessionExpired(session[Sends(b)].expires)
    BY DEF CookieWorks, Calm
  <2>1. ~Replacing(b)
    BY DEF Replacing, Busy, Awarded
  <2>2. Backed(b) /\ now < jar[b].until /\ Sends(b) = jar[b].token
    BY <2>1 DEF CookieInv, CookiesLive, Sends
  <2>3. now \in Nat /\ jar[b].until \in Nat /\ session[jar[b].token].expires \in Nat
    BY <2>2, CookieTypes DEF Backed
  <2>4. QED
    BY <2>2, <2>3 DEF Backed, isSessionExpired
<1>4. QED
  BY <1>1, <1>2, <1>3, TypeCorrect, PTL DEF Spec
=============================================================================
