------------------------------ MODULE Security -----------------------------
(***************************************************************************)
(* packages/core/security/src: the rate limiter of middleware.ts, a        *)
(* counter per client that starts again when its window has passed, and    *)
(* jwt.ts, access tokens and the refresh tokens that renew them.           *)
(*                                                                         *)
(* Times are relative to now, so that the clock, which does not step back, *)
(* needs no bound: what expires has some time left, an admission has an    *)
(* age, a token is some time since the login behind it.  A token is its    *)
(* payload: its signature only tells that it was issued here.              *)
(***************************************************************************)
EXTENDS Integers, FiniteSets

CONSTANTS
  Clients,
  Window,     \* 60000 ms, in ticks of the clock
  MaxRpm,
  AccessTtl, RefreshTtl

ASSUME RateAssumption == Window \in Nat \ {0} /\ MaxRpm \in Nat \ {0}
ASSUME TtlAssumption == AccessTtl \in Nat \ {0} /\ RefreshTtl \in Nat \ {0}

VARIABLES
  count, left,   \* counters: left is -1 if there is no entry, or its window has passed
  admitted,      \* history: <<age, nth>> for the nth admission that long ago, up to twice the Window
  refused,       \* was the client's last request refused?
  tokens         \* the issued tokens that are still of use to anybody

rateVars == <<count, left, admitted, refused>>

-----------------------------------------------------------------------------
(* rateLimitMiddleware() *)

RateInit ==
  /\ count = [c \in Clients |-> 0] /\ left = [c \in Clients |-> -1]
  /\ admitted = [c \in Clients |-> {}] /\ refused = [c \in Clients |-> FALSE]

\* The admissions to c that are at least from and at most to ticks ago.
Within(c, from, to) == {a \in admitted[c] : from <= a[1] /\ a[1] <= to}

\* `now > entry.resetAt`: a request at resetAt still belongs to the window.  A count
\* beyond the maximum makes no difference, so it is kept at one more.
Request(c) ==
  LET n == IF left[c] < 0 THEN 1 ELSE count[c] + 1 IN
  /\ count' = [count EXCEPT ![c] = IF n > MaxRpm THEN MaxRpm + 1 ELSE n]
  /\ left' = [left EXCEPT ![c] = IF left[c] < 0 THEN Window ELSE left[c]]
  /\ refused' = [refused EXCEPT ![c] = n > MaxRpm]
  /\ admitted' = IF n > MaxRpm THEN admitted
                 ELSE [admitted EXCEPT ![c] = @ \cup {<<0, Cardinality(Within(c, 0, 0)) + 1>>}]

RateTick ==
  /\ left' = [c \in Clients |-> IF left[c] < 0 THEN -1 ELSE left[c] - 1]
  /\ admitted' = [c \in Clients |-> {<<a[1] + 1, a[2]>> : a \in Within(c, 0, 2 * Window - 1)}]
  /\ UNCHANGED <<count, refused>>

RateNext == RateTick \/ \E c \in Clients : Request(c)

\* Time passes, and a refused client asks again and again.
RateSpec ==
  /\ RateInit /\ [][RateNext]_rateVars
  /\ WF_rateVars(RateTick)
  /\ \A c \in Clients : SF_rateVars(left[c] < 0 /\ refused[c] /\ Request(c))

-----------------------------------------------------------------------------
(* JwtService *)

SessionInit == tokens = {}

Token(type, expires, since, roles) == [type |-> type, left |-> expires, since |-> since, roles |-> roles]

\* generateAccessToken() and generateRefreshToken(), which carries no roles.
LogIn == tokens' = tokens \cup {Token("access", AccessTtl, 0, TRUE), Token("refresh", RefreshTtl, 0, FALSE)}

\* `payload.exp < now`: at its expiry a token is still valid.
Valid(token) == token.left >= 0

\* Mutant: any valid token renews the access.
RefreshAccess_AnyToken(token) ==
  /\ Valid(token)
  /\ tokens' = tokens \cup {Token("access", AccessTtl, token.since, token.roles)}

\* refreshAccessToken(): with the roles of the refresh token, which has none.
RefreshAccess(token) ==
  /\ Valid(token) /\ token.type = "refresh"
  /\ tokens' = tokens \cup {Token("access", AccessTtl, token.since, token.roles)}

\* A second passes; an expired token is never valid again and is left out.
SessionTick ==
  tokens' = {[token EXCEPT !.left = @ - 1, !.since = @ + 1] : token \in {t \in tokens : t.left > 0}}

SessionNext == LogIn \/ SessionTick \/ \E token \in tokens : RefreshAccess(token)

SessionSpec == SessionInit /\ [][SessionNext]_tokens

-----------------------------------------------------------------------------
(* Properties *)

\* A client gets no more than its requests per minute twice over, in any minute whatsoever, and never
\* more than once over within the window of its counter.
NoMoreThanTwiceTheRate ==
  \A c \in Clients :
    /\ \A from \in 0..Window : Cardinality(Within(c, from, from + Window)) <= 2 * MaxRpm
    /\ left[c] >= 0 => Cardinality(Within(c, 0, Window - left[c])) <= MaxRpm

\* Refusals do not lengthen a window: a client that goes on asking is admitted in the end.
RefusedGetsThrough == \A c \in Clients : refused[c] ~> ~refused[c]

\* However often a session is renewed, it ends: nothing is accepted later than both lifetimes
\* after the login behind it.
SessionsEnd == \A token \in tokens : Valid(token) => token.since <= RefreshTtl + AccessTtl

\* Only the access token of the login itself carries the user's roles, so they last no longer
\* than one access token does: a renewed session has none.
RolesLastOneToken == \A token \in tokens : token.roles => token.since <= AccessTtl

\* A client gets no more than it was granted, however it times or repeats its calls: requests
\* within a window, the lifetime of a login and the roles that came with it.
AccessLimited == NoMoreThanTwiceTheRate /\ SessionsEnd /\ RolesLastOneToken
=============================================================================
