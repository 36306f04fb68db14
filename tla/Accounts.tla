------------------------------ MODULE Accounts ------------------------------
(***************************************************************************)
(* One merchant's account: registration and login, sliding sessions whose  *)
(* token is rotated by the middleware, logout, and password reset.         *)
(* Requests of several browsers run concurrently over the rows of User,    *)
(* Session and PasswordResetToken; each statement is a step, rotation's    *)
(* two statements are one transaction.                                     *)
(*                                                                         *)
(* A session is named by the number of its row, which also stands for its  *)
(* token: no two rows share one and nobody guesses one.  A password is the *)
(* version of User.passwordHash that it opens.  Time passes between        *)
(* requests' statements, but a request's clock readings for the expiry it  *)
(* writes are those of the write.                                          *)
(***************************************************************************)
EXTENDS Naturals, FiniteSets

CONSTANTS
    Browsers,
    Requests,
    Links,          \* password-reset tokens that can be issued
    None,           \* no browser, no link
    Lifetime,       \* SESSION_DURATION_MS, in units of the rotation's grace
    Grace,          \* SESSION_ROTATION_GRACE_MS
    LinkTTL,        \* DEFAULT_TTL_MINUTES
    MaxNow,         \* bound: the clock
    MaxSessions,    \* bound: session rows ever created
    MaxFaults       \* bound: requests that die

ASSUME NoneAssumption == None \notin Browsers \cup Links
ASSUME FiniteAssumption == IsFiniteSet(Requests) /\ IsFiniteSet(Links)
ASSUME TimesAssumption ==
    /\ Lifetime \in Nat /\ Grace \in Nat /\ LinkTTL \in Nat
    /\ 0 < Grace /\ Grace < Lifetime \div 2
ASSUME BoundsAssumption == MaxNow \in Nat /\ MaxSessions \in Nat /\ MaxFaults \in Nat

VARIABLES
    now,        \* the clock
    password,   \* version of User.passwordHash; 0: no such user
    session,    \* the Session rows
    minted,     \* session rows ever created
    link,       \* the PasswordResetToken rows
    jar,        \* each browser's session cookie, token 0: none
    at,         \* where each request is
    req,        \* what each request carries
    faults,     \* requests that died
    ended       \* history: newest password version whose reset was completed

rows == <<password, session, minted, link>>
procs == <<at, req>>
vars == <<now, rows, jar, procs, faults, ended>>

Sessions == 1..MaxSessions
Tokens == {0} \cup Sessions

(* history parts of a row: the password its sign-in was opened with, and   *)
(* whether that password had been replaced when the row was first created. *)
SessionRow == [expires : Nat, password : Nat, late : BOOLEAN]
Cookie == [token : Tokens, until : Nat]

NoCookie == [token |-> 0, until |-> 0]

(* browser: whose request; token: of the session cookie it came with; set: *)
(* the cookie rotation put on its response; cred: a password version;      *)
(* reset: its link; leaving: is it a logout?                               *)
Carried == [browser : Browsers \cup {None}, token : Tokens, set : Cookie,
            cred : Nat, reset : Links \cup {None}, leaving : BOOLEAN]
Nothing == [browser |-> None, token |-> 0, set |-> NoCookie,
            cred |-> 0, reset |-> None, leaving |-> FALSE]

Places == {"idle", "rotate", "discard", "swap", "validate", "expire", "renew",
           "revoke", "open", "claim", "store", "purge"}

TypeOK ==
    /\ now \in 0..MaxNow
    /\ password \in Nat
    /\ minted \in 0..MaxSessions
    /\ DOMAIN session \subseteq 1..minted
    /\ session \in [DOMAIN session -> SessionRow]
    /\ link \in [Links -> [status : {"none", "unused", "used"}, expires : Nat]]
    /\ jar \in [Browsers -> Cookie]
    /\ \A b \in Browsers : jar[b].token <= minted
    /\ at \in [Requests -> Places]
    /\ req \in [Requests -> Carried]
    /\ \A p \in Requests : req[p].cred <= password /\ req[p].set.token <= minted
    /\ faults \in 0..MaxFaults
    /\ ended \in 0..password

Init ==
    /\ now = 0
    /\ password = 0
    /\ session = [s \in {} |-> NoCookie]
    /\ minted = 0
    /\ link = [l \in Links |-> [status |-> "none", expires |-> 0]]
    /\ jar = [b \in Browsers |-> NoCookie]
    /\ at = [p \in Requests |-> "idle"]
    /\ req = [p \in Requests |-> Nothing]
    /\ faults = 0
    /\ ended = 0

----------------------------------------------------------------------------
(* session-core.                                                           *)

isSessionExpired(expires) == now >= expires
shouldRenewSession(expires) == expires < now + Lifetime \div 2
sessionExpiry == now + Lifetime

----------------------------------------------------------------------------
Begin(p, place, carried) ==
    /\ at[p] = "idle"
    /\ at' = [at EXCEPT ![p] = place]
    /\ req' = [req EXCEPT ![p] = carried]

Goto(p, place) ==
    /\ at' = [at EXCEPT ![p] = place]
    /\ UNCHANGED req

Leave(p) ==
    /\ at' = [at EXCEPT ![p] = "idle"]
    /\ req' = [req EXCEPT ![p] = Nothing]

Row(p) == session[req[p].token]
Found(p) == req[p].token \in DOMAIN session

Without(S) == [s \in DOMAIN session \ S |-> session[s]]

With(s, row) == [t \in DOMAIN session \cup {s} |-> IF t = s THEN row ELSE session[t]]

Fresh_TooEarly(s) == [token |-> s + 1, until |-> sessionExpiry]
Fresh(s) == [token |-> s, until |-> sessionExpiry]

(* The browser stops sending a cookie that is past its own expiry.         *)
Sends(b) == IF now < jar[b].until THEN jar[b].token ELSE 0

(* A response carries the cookie that rotation put on it, if it did.       *)
Respond(p) ==
    /\ jar' = IF req[p].set = NoCookie THEN jar
              ELSE [jar EXCEPT ![req[p].browser] = req[p].set]
    /\ Leave(p)

ClearCookie(p) ==
    /\ jar' = [jar EXCEPT ![req[p].browser] = NoCookie]
    /\ Leave(p)

Tick ==
    /\ now < MaxNow
    /\ now' = now + 1
    /\ UNCHANGED <<rows, jar, procs, faults, ended>>

----------------------------------------------------------------------------
(* Registration and login.                                                 *)

(* Merchant and user in one transaction; the unique email admits one.      *)
registerMerchant(p, b) ==
    /\ password = 0
    /\ password' = 1
    /\ Begin(p, "open", [Nothing EXCEPT !.browser = b, !.cred = 1])
    /\ UNCHANGED <<now, session, minted, link, jar, faults, ended>>

(* The hash is read once; a wrong password changes nothing.                *)
authenticate(p, b) ==
    /\ password # 0
    /\ minted < MaxSessions
    /\ Begin(p, "open", [Nothing EXCEPT !.browser = b, !.cred = password])
    /\ UNCHANGED <<now, rows, jar, faults, ended>>

createSession(p) ==
    /\ at[p] = "open"
    /\ minted < MaxSessions
    /\ minted' = minted + 1
    /\ session' = With(minted', [expires |-> sessionExpiry, password |-> req[p].cred,
                                 late |-> req[p].cred # password])
    /\ jar' = [jar EXCEPT ![req[p].browser] = Fresh(minted')]
    /\ Leave(p)
    /\ UNCHANGED <<now, password, link, faults, ended>>

----------------------------------------------------------------------------
(* Requests with a cookie.  On /dashboard the middleware rotates first;    *)
(* other pages and routes only validate, and logout removes what it found. *)

Visit(p, b) ==
    /\ Sends(b) # 0
    /\ Begin(p, "rotate", [Nothing EXCEPT !.browser = b, !.token = Sends(b)])
    /\ UNCHANGED <<now, rows, jar, faults, ended>>

Call(p, b, leaving) ==
    /\ Sends(b) # 0
    /\ Begin(p, "validate", [Nothing EXCEPT !.browser = b, !.token = Sends(b),
                                           !.leaving = leaving])
    /\ UNCHANGED <<now, rows, jar, faults, ended>>

ReadForRotation(p) ==
    /\ at[p] = "rotate"
    /\ Goto(p, IF ~Found(p) THEN "validate"
               ELSE IF isSessionExpired(Row(p).expires) THEN "discard"
               ELSE IF shouldRenewSession(Row(p).expires) THEN "swap"
               ELSE "validate")
    /\ UNCHANGED <<now, rows, jar, faults, ended>>

(* The row read as expired is removed.                                     *)
Discard(p) ==
    /\ at[p] = "discard"
    /\ session' = Without({req[p].token})
    /\ Goto(p, "validate")
    /\ UNCHANGED <<now, password, minted, link, jar, faults, ended>>

Replacement(p, expires) == [Row(p) EXCEPT !.expires = expires]

SwapAs(p, graceExpires, newExpires) ==
    /\ at[p] = "swap"
    /\ Found(p)
    /\ minted < MaxSessions
    /\ minted' = minted + 1
    /\ session' = [With(minted', Replacement(p, newExpires))
                      EXCEPT ![req[p].token].expires = graceExpires]
    /\ req' = [req EXCEPT ![p].set = Fresh(minted')]
    /\ at' = [at EXCEPT ![p] = "validate"]
    /\ UNCHANGED <<now, password, link, jar, faults, ended>>

Swap_BothToGrace(p) == SwapAs(p, now + Grace, now + Grace)

(* The transaction: the old row is left the grace, a new one is created.   *)
Swap(p) == SwapAs(p, now + Grace, sessionExpiry)

RotationFails_StillCreates(p) ==
    /\ at[p] = "swap"
    /\ ~Found(p)
    /\ minted < MaxSessions
    /\ minted' = minted + 1
    /\ session' = With(minted', [expires |-> sessionExpiry, password |-> 1, late |-> FALSE])
    /\ Goto(p, "validate")
    /\ UNCHANGED <<now, password, link, jar, faults, ended>>

(* A statement of the rotation rejects, because the row is gone or for any *)
(* other reason: nothing is written, the middleware swallows the error and *)
(* the request goes on.                                                    *)
RotationFails(p) ==
    /\ at[p] \in {"rotate", "discard", "swap"}
    /\ Goto(p, "validate")
    /\ UNCHANGED <<now, rows, jar, faults, ended>>

(* validateSessionToken.  A logout goes on to invalidateSession.           *)
Served(p) ==
    IF req[p].leaving THEN Goto(p, "revoke") /\ UNCHANGED jar
    ELSE Respond(p)

Refused(p) == IF req[p].leaving THEN ClearCookie(p) ELSE Respond(p)

NoSession(p) ==
    /\ at[p] = "validate"
    /\ ~Found(p)
    /\ Refused(p)
    /\ UNCHANGED <<now, rows, faults, ended>>

Validate(p) ==
    /\ at[p] = "validate"
    /\ Found(p)
    /\ IF isSessionExpired(Row(p).expires) THEN Goto(p, "expire") /\ UNCHANGED jar
       ELSE IF shouldRenewSession(Row(p).expires) THEN Goto(p, "renew") /\ UNCHANGED jar
       ELSE Served(p)
    /\ UNCHANGED <<now, rows, faults, ended>>

(* By id: rejects when another request deleted the row meanwhile, and the  *)
(* request is answered with an error.                                      *)
Expire(p) ==
    /\ at[p] = "expire"
    /\ IF Found(p) THEN Refused(p) ELSE Respond(p)
    /\ session' = Without({req[p].token})
    /\ UNCHANGED <<now, password, minted, link, faults, ended>>

Renew(p) ==
    /\ at[p] = "renew"
    /\ IF Found(p)
       THEN /\ session' = [session EXCEPT ![req[p].token].expires = sessionExpiry]
            /\ Served(p)
       ELSE UNCHANGED session /\ Respond(p)
    /\ UNCHANGED <<now, password, minted, link, faults, ended>>

invalidateSession(p) ==
    /\ at[p] = "revoke"
    /\ session' = Without({req[p].token})
    /\ ClearCookie(p)
    /\ UNCHANGED <<now, password, minted, link, faults, ended>>

----------------------------------------------------------------------------
(* Password reset.                                                         *)

(* Earlier links of the user stay as they are.                             *)
issueResetToken(l) ==
    /\ link[l].status = "none"
    /\ link' = [link EXCEPT ![l] = [status |-> "unused", expires |-> now + LinkTTL]]

(* Nothing is issued for an unknown email.  A link whose mail fails stays; *)
(* nobody follows it.                                                      *)
requestPasswordReset(l) ==
    /\ password # 0
    /\ issueResetToken(l)
    /\ UNCHANGED <<now, password, session, minted, jar, procs, faults, ended>>

FollowLink(p, l) ==
    /\ link[l].status = "unused"
    /\ now < link[l].expires
    /\ Begin(p, "claim", [Nothing EXCEPT !.reset = l])
    /\ UNCHANGED <<now, rows, jar, faults, ended>>

markUsed_ById(p) ==
    /\ at[p] = "claim"
    /\ link' = [link EXCEPT ![req[p].reset].status = "used"]
    /\ Goto(p, "store")
    /\ UNCHANGED <<now, password, session, minted, jar, faults, ended>>

(* The conditional update: one of the requests that read the link wins it. *)
markUsed(p) ==
    /\ at[p] = "claim"
    /\ link' = [link EXCEPT ![req[p].reset].status = "used"]
    /\ IF link[req[p].reset].status = "unused" THEN Goto(p, "store") ELSE Leave(p)
    /\ UNCHANGED <<now, password, session, minted, jar, faults, ended>>

updatePassword(p) ==
    /\ at[p] = "store"
    /\ password' = password + 1
    /\ at' = [at EXCEPT ![p] = "purge"]
    /\ req' = [req EXCEPT ![p].cred = password']
    /\ UNCHANGED <<now, session, minted, link, jar, faults, ended>>

invalidateUserSessions(p) ==
    /\ at[p] = "purge"
    /\ session' = Without(DOMAIN session)
    /\ ended' = IF req[p].cred > ended THEN req[p].cred ELSE ended
    /\ Leave(p)
    /\ UNCHANGED <<now, password, minted, link, jar, faults>>

----------------------------------------------------------------------------
(* The request dies, or a statement rejects outside the middleware: there  *)
(* is no response.                                                         *)
Abandon(p) ==
    /\ faults < MaxFaults
    /\ faults' = faults + 1
    /\ at[p] # "idle"
    /\ Leave(p)
    /\ UNCHANGED <<now, rows, jar, ended>>

rotateSessionToken(p) == ReadForRotation(p) \/ Discard(p) \/ Swap(p) \/ RotationFails(p)

validateSessionToken(p) == NoSession(p) \/ Validate(p) \/ Expire(p) \/ Renew(p)

resetPassword(p) == markUsed(p) \/ updatePassword(p) \/ invalidateUserSessions(p)

GoOn(p) ==
    \/ createSession(p)
    \/ rotateSessionToken(p)
    \/ validateSessionToken(p)
    \/ invalidateSession(p)
    \/ resetPassword(p)

Next ==
    \/ Tick
    \/ \E l \in Links : requestPasswordReset(l)
    \/ \E p \in Requests, b \in Browsers :
          \/ registerMerchant(p, b) \/ authenticate(p, b) \/ Visit(p, b)
          \/ \E leaving \in BOOLEAN : Call(p, b, leaving)
    \/ \E p \in Requests, l \in Links : FollowLink(p, l)
    \/ \E p \in Requests : GoOn(p) \/ Abandon(p)

Spec == Init /\ [][Next]_vars

----------------------------------------------------------------------------
(* Properties.                                                             *)

(* Once a reset is completed, no session opened with an older password is  *)
(* left, however rotation, renewal and other resets ran beside it; but for *)
(* the sign-in that had verified the old password and creates its session  *)
(* only after the change.                                                  *)
ResetEndsSessions ==
    \A s \in DOMAIN session : session[s].password < ended => session[s].late

(* Each link changes the password at most once, however many requests      *)
(* carry it, and with several live links.                                  *)
Used == {l \in Links : link[l].status = "used"}

LinksChangeOnce == password <= 1 + Cardinality(Used)

(* As long as nothing is reset and no request dies, a cookie that a        *)
(* browser still sends opens a live session once its requests are          *)
(* answered: rotation, its failures and expiry clean-up, however they      *)
(* overlap, sign nobody out.                                               *)
Busy(b) == \E p \in Requests : req[p].browser = b

CookieWorks ==
    \A b \in Browsers :
        ended = 0 /\ faults = 0 /\ ~Busy(b) /\ Sends(b) # 0
            => /\ Sends(b) \in DOMAIN session
               /\ ~isSessionExpired(session[Sends(b)].expires)

=============================================================================
