----------------------------- MODULE RateLimiter -----------------------------
(***************************************************************************)
(* The fixed-window rate limiter of one web process and its guard.  A      *)
(* request is counted in the bucket of its scope and client address; those *)
(* without a proxy header share one.  A webhook is counted by its          *)
(* merchant's token instead, which is like an address here.  sweep, which  *)
(* no route calls yet, may drop buckets whose window is over at any time.  *)
(*                                                                         *)
(* Names carry the limiter's name where another module of the web app has  *)
(* one like it, so that one run can extend both.                           *)
(***************************************************************************)
EXTENDS Integers, Sequences

CONSTANTS
    Scopes,         \* named endpoints: login, register, password-reset, ...
    Addresses,      \* client addresses a proxy header may carry
    NoAddress,      \* the header is missing or empty
    Limit,          \* requests a window allows, for each scope
    Window,         \* windowMs
    MaxClock        \* bound: the clock

ASSUME LimitsAssumption ==
    /\ NoAddress \notin Addresses
    /\ Limit \in [Scopes -> Nat \ {0}]
    /\ Window \in Nat \ {0}

VARIABLES
    clock,      \* the process's clock
    buckets,    \* the Map from key to counter; count 0: no entry
    granted     \* history: when requests of a key were let through

limiterVars == <<clock, buckets, granted>>

Keys == Scopes \X (Addresses \cup {NoAddress})

NoCounter == [count |-> 0, resetAt |-> 0]

LimiterInit ==
    /\ clock = 0
    /\ buckets = [k \in Keys |-> NoCounter]
    /\ granted = [k \in Keys |-> <<>>]

(* x-forwarded-for's first hop, else x-real-ip, else "unknown".            *)
clientIp(forwarded, real) == IF forwarded # NoAddress THEN forwarded ELSE real

WindowIsOver(b) == b.count = 0 \/ clock >= b.resetAt

HasRoom_OffByOne(b, limit) == b.count <= limit
HasRoom(b, limit) == b.count < limit

(* check, and the guard's throw: a refused request changes nothing.        *)
check(k, limit) ==
    LET b == buckets[k]
    IN  /\ WindowIsOver(b) \/ HasRoom(b, limit)
        /\ buckets' = [buckets EXCEPT ![k] =
              IF WindowIsOver(b) THEN [count |-> 1, resetAt |-> clock + Window]
                                 ELSE [b EXCEPT !.count = @ + 1]]
        /\ granted' = [granted EXCEPT ![k] = Append(@, clock)]
        /\ UNCHANGED clock

assertWithinRateLimit(scope, key) == check(<<scope, key>>, Limit[scope])

sweep ==
    /\ buckets' = [k \in Keys |-> IF WindowIsOver(buckets[k]) THEN NoCounter ELSE buckets[k]]
    /\ UNCHANGED <<clock, granted>>

ClockTick ==
    /\ clock < MaxClock
    /\ clock' = clock + 1
    /\ UNCHANGED <<buckets, granted>>

LimiterNext ==
    \/ ClockTick
    \/ sweep
    \/ \E s \in Scopes, f, r \in Addresses \cup {NoAddress} : assertWithinRateLimit(s, clientIp(f, r))

LimiterSpec == LimiterInit /\ [][LimiterNext]_limiterVars

----------------------------------------------------------------------------
(* Properties.                                                             *)

(* A burst across a window's end, with sweeps in between: no stretch of    *)
(* one window's length lets more than two windows' worth of a key through. *)
BurstBound ==
    \A k \in Keys : \A i, j \in DOMAIN granted[k] :
        j >= i + 2 * Limit[k[1]] => granted[k][j] >= granted[k][i] + Window

=============================================================================
