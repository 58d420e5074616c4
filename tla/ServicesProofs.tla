--------------------------- MODULE ServicesProofs --------------------------
(***************************************************************************)
(* Proofs about the services that stand beside the engine, the queue and   *)
(* the API: consents and policies (enterprise/governance), sessions and    *)
(* the rate limiter (core/security), spans and histograms                  *)
(* (enterprise/observability), generation jobs, transactions, the workflow *)
(* builder, experiments, campaigns, execution contexts, vectors, prompts   *)
(* and node types.                                                         *)
(***************************************************************************)
EXTENDS MCServices, FiniteSetTheorems, SequenceTheorems, WellFoundedInduction, TLAPS

-----------------------------------------------------------------------------
(* Consents *)

GrantRecords == [revoked : BOOLEAN, expires : {n \in Int : n >= -1} \cup {NoExpiry}]

\* An expiry counts down to -1 and stays there.
ConsentInv == grants \in [Pairs -> GrantRecords \cup {NoGrant}] /\ justGranted \subseteq Pairs

LEMMA NoGrantIsNone == NoGrant \notin GrantRecords
BY NoGrantAssumption DEF GrantRecords

LEMMA GrantStep ==
  ASSUME ConsentInv, NEW k \in Pairs, NEW expires \in Expiries \cup {NoExpiry}, Grant(k, expires)
  PROVE  ConsentInv' /\ Reason(k)' = "active" /\ \A l \in Pairs \ {k} : grants'[l] = grants[l]
<1>1. [revoked |-> FALSE, expires |-> expires] \in GrantRecords /\ expires # -1
  BY ExpiriesAssumption DEF GrantRecords
<1>2. grants'[k] = [revoked |-> FALSE, expires |-> expires] /\ grants'[k] # NoGrant
  BY <1>1, NoGrantIsNone DEF Grant, ConsentInv
<1>3. Reason(k)' = "active"
  BY <1>1, <1>2 DEF Reason
<1> QED BY <1>1, <1>3 DEF Grant, ConsentInv

LEMMA RevokeStep ==
  ASSUME ConsentInv, NEW k \in Pairs, Revoke(k)
  PROVE  ConsentInv' /\ justGranted' = {} /\ Reason(k)' = "revoked" /\ \A l \in Pairs \ {k} : grants'[l] = grants[l]
<1>1. grants[k] \in GrantRecords
  BY DEF Revoke, ConsentInv
<1>2. grants'[k] = [grants[k] EXCEPT !.revoked = TRUE] /\ grants'[k] \in GrantRecords
  BY <1>1 DEF Revoke, ConsentInv, GrantRecords
<1>3. Reason(k)' = "revoked"
  BY <1>1, <1>2, NoGrantIsNone DEF Reason, GrantRecords
<1> QED BY <1>2, <1>3 DEF Revoke, ConsentInv

\* Time takes consents away and gives none.
LEMMA TickStep ==
  ASSUME ConsentInv, ConsentTick
  PROVE  /\ ConsentInv' /\ justGranted' = {}
         /\ \A k \in Pairs : /\ Reason(k)' = "active" => Reason(k) = "active"
                             /\ Reason(k) = "revoked" => Reason(k)' = "revoked"
<1>1. ASSUME NEW k \in Pairs
      PROVE  /\ grants'[k] \in GrantRecords \cup {NoGrant}
             /\ Reason(k)' = "active" => Reason(k) = "active"
             /\ Reason(k) = "revoked" => Reason(k)' = "revoked"
  <2>1. CASE grants[k] = NoGrant \/ grants[k].expires \in {NoExpiry, -1}
    <3>1. grants'[k] = grants[k]
      BY <2>1 DEF ConsentTick
    <3> QED BY <3>1 DEF ConsentInv, Reason
  <2>2. CASE ~(grants[k] = NoGrant \/ grants[k].expires \in {NoExpiry, -1})
    <3>1. grants[k] \in GrantRecords /\ grants[k] # NoGrant /\ grants[k].expires \in Nat
      BY <2>2 DEF ConsentInv, GrantRecords
    <3>2. grants'[k] = [grants[k] EXCEPT !.expires = @ - 1]
      BY <2>2 DEF ConsentTick
    <3>3. grants'[k] \in GrantRecords /\ grants'[k].revoked = grants[k].revoked
      BY <3>1, <3>2 DEF GrantRecords
    <3>4. grants'[k] # NoGrant /\ grants[k].expires # -1
      BY <3>1, <3>3, NoGrantIsNone
    <3> QED BY <3>1, <3>3, <3>4 DEF Reason
  <2> QED BY <2>1, <2>2
<1>2. justGranted' = {} /\ grants' = [k \in Pairs |-> grants'[k]]
  BY DEF ConsentTick
<1>3. grants' \in [Pairs -> GrantRecords \cup {NoGrant}]
  BY <1>1, <1>2
<1> QED BY <1>1, <1>2, <1>3 DEF ConsentInv

LEMMA ConsentInvariance == ConsentSpec => []ConsentInv
<1>1. ConsentInit => ConsentInv
  BY DEF ConsentInit, ConsentInv
<1>2. ConsentInv /\ [ConsentNext]_consentVars => ConsentInv'
  BY GrantStep, RevokeStep, TickStep DEF ConsentNext, consentVars, ConsentInv
<1> QED BY <1>1, <1>2, PTL DEF ConsentSpec

\* Consent is had by those who granted it, for what they granted it for and as long as they did,
\* for any number of subjects, purposes and expiries: ConsentRegistry of compliance.ts.
THEOREM ConsentHolds == ConsentSpec => ConsentKept
<1>1. ConsentViewsAgree
  <2>1. ASSUME NEW s \in DataSubjects, NEW p \in Purposes
        PROVE  p \in ActivePurposes(s) <=> HasConsent(s, p)
    BY DEF ActivePurposes, HasConsent, Reason
  <2> QED BY <2>1 DEF ConsentViewsAgree, ActivePurposes
<1>2. ConsentInv /\ [ConsentNext]_consentVars =>
        [\A k \in Pairs :
           /\ Reason(k)' = "active" /\ Reason(k) # "active" => k \in justGranted'
           /\ k \in justGranted' => Reason(k)' = "active"
           /\ Reason(k) = "revoked" => Reason(k)' \in {"revoked", "active"}]_consentVars
  <2> SUFFICES ASSUME ConsentInv, ConsentNext, NEW k \in Pairs
               PROVE  /\ Reason(k)' = "active" /\ Reason(k) # "active" => k \in justGranted'
                      /\ k \in justGranted' => Reason(k)' = "active"
                      /\ Reason(k) = "revoked" => Reason(k)' \in {"revoked", "active"}
    BY DEF consentVars
  <2>1. ASSUME NEW l \in Pairs, NEW expires \in Expiries \cup {NoExpiry}, Grant(l, expires)
        PROVE  /\ justGranted' = {l} /\ Reason(l)' = "active"
               /\ k # l => Reason(k)' = Reason(k)
    BY <2>1, GrantStep DEF Grant, Reason
  <2>2. ASSUME NEW l \in Pairs, Revoke(l)
        PROVE  /\ justGranted' = {} /\ Reason(l)' = "revoked"
               /\ k # l => Reason(k)' = Reason(k)
    BY <2>2, RevokeStep DEF Reason
  <2> QED BY <2>1, <2>2, TickStep DEF ConsentNext
<1> QED BY <1>1, <1>2, ConsentInvariance, PTL DEF ConsentSpec, ConsentKept, ConsentOnlyByGrant

-----------------------------------------------------------------------------
(* Sessions *)

\* What is left of a token and how long ago its login was: a refresh token comes from the login
\* itself, and an access token from the login or from a refresh token still valid.
TokenInv(token) ==
  /\ token \in [type : {"access", "refresh"}, left : Nat, since : Nat, roles : BOOLEAN]
  /\ token.type = "refresh" => token.left + token.since = RefreshTtl /\ token.roles = FALSE
  /\ token.left + token.since <= AccessTtl + RefreshTtl
  /\ token.roles = TRUE => token.left + token.since = AccessTtl

SessionInv == \A token \in tokens : TokenInv(token)

\* However it is renewed, a login lasts no longer than both lifetimes of jwt.ts, and its roles no
\* longer than one access token.
THEOREM SessionsHold == SessionSpec => [](SessionsEnd /\ RolesLastOneToken)
<1>1. SessionInit => SessionInv
  BY DEF SessionInit, SessionInv
<1>2. SessionInv /\ [SessionNext]_tokens => SessionInv'
  <2> SUFFICES ASSUME SessionInv, [SessionNext]_tokens, NEW new \in tokens'
               PROVE  TokenInv(new)
    BY DEF SessionInv
  <2>1. CASE LogIn
    <3>1. TokenInv(Token("access", AccessTtl, 0, TRUE))
      BY TtlAssumption DEF Token, TokenInv
    <3>2. TokenInv(Token("refresh", RefreshTtl, 0, FALSE))
      BY TtlAssumption DEF Token, TokenInv
    <3> QED BY <2>1, <3>1, <3>2 DEF LogIn, SessionInv
  <2>2. CASE SessionTick
    <3>1. PICK old \in tokens : old.left > 0 /\ new = [old EXCEPT !.left = @ - 1, !.since = @ + 1]
      BY <2>2 DEF SessionTick
    <3>2. TokenInv(old)
      BY DEF SessionInv
    <3>3. new = [type |-> old.type, left |-> old.left - 1, since |-> old.since + 1, roles |-> old.roles]
      BY <3>1, <3>2 DEF TokenInv
    <3>4. old.left - 1 \in Nat /\ old.since + 1 \in Nat /\ old.left - 1 + (old.since + 1) = old.left + old.since
      BY <3>1, <3>2 DEF TokenInv
    <3> QED BY <3>2, <3>3, <3>4 DEF TokenInv
  <2>3. ASSUME NEW token \in tokens, RefreshAccess(token)
        PROVE  TokenInv(new)
    <3>1. new \in tokens \/ new = Token("access", AccessTtl, token.since, token.roles)
      BY <2>3 DEF RefreshAccess
    <3>2. TokenInv(token) /\ token.type = "refresh"
      BY <2>3 DEF RefreshAccess, SessionInv
    <3>3. TokenInv(Token("access", AccessTtl, token.since, token.roles))
      BY <3>2, TtlAssumption DEF Token, TokenInv
    <3> QED BY <3>1, <3>3 DEF SessionInv
  <2>4. CASE UNCHANGED tokens
    BY <2>4 DEF SessionInv
  <2> QED BY <2>1, <2>2, <2>3, <2>4 DEF SessionNext
<1>3. SessionInv => SessionsEnd /\ RolesLastOneToken
  BY TtlAssumption DEF SessionInv, TokenInv, SessionsEnd, RolesLastOneToken
<1> QED BY <1>1, <1>2, <1>3, PTL DEF SessionSpec
-----------------------------------------------------------------------------
(* The rate limiter *)

Between(A, from, to) == {a \in A : from <= a[1] /\ a[1] <= to}

\* The admissions A to a client whose counter is at n for another l ticks: those of the current
\* window are counted, those of the window before it were no more than the rate, and a counter
\* that has expired leaves none more recent than a whole window, beyond the rate.
RateInv(A, n, l) ==
  /\ A \subseteq Nat \X Nat /\ IsFiniteSet(A) /\ n \in 0..(MaxRpm + 1) /\ l \in -1..Window
  /\ l >= 0 => /\ Cardinality(Between(A, 0, Window - l)) <= n
               /\ Cardinality(Between(A, 0, Window - l)) <= MaxRpm
               /\ Cardinality(Between(A, Window - l + 1, 2 * Window - l)) <= MaxRpm
  /\ l < 0 => Cardinality(Between(A, 0, Window)) <= MaxRpm /\ Between(A, 0, 0) = {}
  /\ \A from \in 0..Window : Cardinality(Between(A, from, from + Window)) <= 2 * MaxRpm

LEMMA BetweenFinite ==
  ASSUME NEW A, IsFiniteSet(A), NEW from, NEW to
  PROVE  IsFiniteSet(Between(A, from, to)) /\ Cardinality(Between(A, from, to)) \in Nat
<1>1. Between(A, from, to) \in SUBSET A
  BY DEF Between
<1> QED BY <1>1, FS_Subset, FS_CardinalityType

LEMMA WiderHasMore ==
  ASSUME NEW A, A \subseteq Nat \X Nat, IsFiniteSet(A),
         NEW from \in Int, NEW to \in Int, NEW low \in Int, NEW high \in Int, low <= from, to <= high
  PROVE  Cardinality(Between(A, from, to)) <= Cardinality(Between(A, low, high))
<1>1. Between(A, from, to) \in SUBSET Between(A, low, high)
  BY DEF Between
<1> QED BY <1>1, BetweenFinite, FS_Subset

\* A span is no fuller than the two parts it is made of.
LEMMA TwoParts ==
  ASSUME NEW A, A \subseteq Nat \X Nat, IsFiniteSet(A),
         NEW from \in Int, NEW mid \in Int, NEW to \in Int
  PROVE  Cardinality(Between(A, from, to)) <= Cardinality(Between(A, from, mid)) + Cardinality(Between(A, mid + 1, to))
<1>1. Between(A, from, to) \in SUBSET (Between(A, from, mid) \cup Between(A, mid + 1, to))
  BY DEF Between
<1>2. /\ IsFiniteSet(Between(A, from, mid) \cup Between(A, mid + 1, to))
      /\ Cardinality(Between(A, from, mid) \cup Between(A, mid + 1, to))
           = Cardinality(Between(A, from, mid)) + Cardinality(Between(A, mid + 1, to))
               - Cardinality(Between(A, from, mid) \cap Between(A, mid + 1, to))
  BY BetweenFinite, FS_Union
<1>3. Cardinality(Between(A, from, mid) \cap Between(A, mid + 1, to)) \in Nat
  BY BetweenFinite, FS_Intersection, FS_CardinalityType
<1>4. Cardinality(Between(A, from, to)) <= Cardinality(Between(A, from, mid) \cup Between(A, mid + 1, to))
  BY <1>1, <1>2, FS_Subset
<1>5. Cardinality(Between(A, from, to)) \in Nat /\ Cardinality(Between(A, from, mid)) \in Nat
      /\ Cardinality(Between(A, mid + 1, to)) \in Nat
  BY BetweenFinite
<1> QED BY <1>2, <1>3, <1>4, <1>5

\* A tick makes everything one older.
Older(A, limit) == {<<a[1] + 1, a[2]>> : a \in Between(A, 0, limit)}

LEMMA Aged ==
  ASSUME NEW A, A \subseteq Nat \X Nat, IsFiniteSet(A), NEW limit \in Int, NEW B, B = Older(A, limit)
  PROVE  /\ B \subseteq Nat \X Nat /\ IsFiniteSet(B) /\ Between(B, 0, 0) = {}
         /\ \A from, to \in Int : Cardinality(Between(B, from, to)) <= Cardinality(Between(A, from - 1, to - 1))
<1>1. B \subseteq Nat \X Nat
  BY DEF Between, Older
<1>2. \A b \in B : b[1] >= 1
  BY DEF Between, Older
<1>3. Between(B, 0, 0) = {}
  BY <1>1, <1>2 DEF Between
<1>4. IsFiniteSet(B)
  <2>1. PICK f : f = [a \in Between(A, 0, limit) |-> <<a[1] + 1, a[2]>>]
    OBVIOUS
  <2>2. f \in Surjection(Between(A, 0, limit), B)
    BY <2>1 DEF Surjection, Older
  <2> QED BY <2>2, BetweenFinite, FS_Surjection
<1>5. ASSUME NEW from \in Int, NEW to \in Int
      PROVE  Cardinality(Between(B, from, to)) <= Cardinality(Between(A, from - 1, to - 1))
  <2>1. PICK S : S = {a \in Between(A, 0, limit) : from - 1 <= a[1] /\ a[1] <= to - 1}
    OBVIOUS
  <2>2. PICK f : f = [a \in S |-> <<a[1] + 1, a[2]>>]
    OBVIOUS
  <2>3. S \in SUBSET Between(A, from - 1, to - 1)
    BY <2>1 DEF Between
  <2>4. IsFiniteSet(S) /\ Cardinality(S) <= Cardinality(Between(A, from - 1, to - 1))
    BY <2>3, BetweenFinite, FS_Subset
  <2>5. f \in Surjection(S, Between(B, from, to))
    <3>1. \A a \in S : f[a] \in Between(B, from, to)
      <4> SUFFICES ASSUME NEW a \in S PROVE f[a] \in Between(B, from, to)
        OBVIOUS
      <4>1. f[a] = <<a[1] + 1, a[2]>> /\ a \in Between(A, 0, limit) /\ a[1] \in Nat /\ from - 1 <= a[1] /\ a[1] <= to - 1
        BY <2>1, <2>2 DEF Between
      <4>2. f[a] \in B /\ from <= f[a][1] /\ f[a][1] <= to
        BY <4>1 DEF Older
      <4> QED BY <4>2 DEF Between
    <3>2. ASSUME NEW b \in Between(B, from, to) PROVE \E a \in S : f[a] = b
      <4>1. PICK a \in Between(A, 0, limit) : b = <<a[1] + 1, a[2]>>
        BY DEF Between, Older
      <4>2. a[1] \in Nat /\ from <= a[1] + 1 /\ a[1] + 1 <= to
        BY <4>1 DEF Between
      <4>3. a \in S
        BY <2>1, <4>2
      <4> QED BY <2>2, <4>1, <4>3
    <3>3. DOMAIN f = S /\ f = [a \in S |-> f[a]]
      BY <2>2
    <3>4. f \in [S -> Between(B, from, to)]
      BY <3>1, <3>3
    <3> QED BY <3>2, <3>4 DEF Surjection
  <2>6. Cardinality(Between(B, from, to)) <= Cardinality(S)
    BY <2>4, <2>5, FS_Surjection
  <2>7. Cardinality(Between(B, from, to)) \in Nat /\ Cardinality(S) \in Nat /\ Cardinality(Between(A, from - 1, to - 1)) \in Nat
    <3>1. IsFiniteSet(Between(B, from, to))
      BY <1>4, BetweenFinite
    <3> QED BY <2>4, <3>1, BetweenFinite, FS_CardinalityType
  <2> QED BY <2>4, <2>6, <2>7
<1> QED BY <1>1, <1>3, <1>4, <1>5

LEMMA TickKeepsRate ==
  ASSUME NEW A, NEW n, NEW l, RateInv(A, n, l),
         NEW B, B = Older(A, 2 * Window - 1)
  PROVE  RateInv(B, n, IF l < 0 THEN -1 ELSE l - 1)
<1>0. /\ Window \in Nat \ {0} /\ MaxRpm \in Nat \ {0} /\ 2 * Window - 1 \in Int
      /\ A \subseteq Nat \X Nat /\ IsFiniteSet(A) /\ n \in 0..(MaxRpm + 1) /\ l \in -1..Window
  BY RateAssumption DEF RateInv
<1>1. /\ B \subseteq Nat \X Nat /\ IsFiniteSet(B) /\ Between(B, 0, 0) = {}
      /\ \A from, to \in Int : Cardinality(Between(B, from, to)) <= Cardinality(Between(A, from - 1, to - 1))
  BY <1>0, Aged
<1>2. \A from, to : Cardinality(Between(A, from, to)) \in Nat /\ Cardinality(Between(B, from, to)) \in Nat
  BY <1>0, <1>1, BetweenFinite
\* What is at least one tick old was there before.
<1>3. ASSUME NEW to \in Int
      PROVE  Cardinality(Between(B, 0, to)) <= Cardinality(Between(A, 0, to - 1))
  <2>1. Between(A, 0 - 1, to - 1) = Between(A, 0, to - 1)
    BY <1>0 DEF Between
  <2> QED BY <1>1, <2>1
<1>4. ASSUME NEW from \in 0..Window PROVE Cardinality(Between(B, from, from + Window)) <= 2 * MaxRpm
  <2>1. CASE from = 0
    <3>1. Cardinality(Between(B, 0, Window)) <= Cardinality(Between(A, 0, Window - 1))
      BY <1>0, <1>3
    <3>2. Cardinality(Between(A, 0, Window - 1)) <= Cardinality(Between(A, 0, Window))
      BY <1>0, WiderHasMore
    <3>3. 0 \in 0..Window /\ 0 + Window = Window
      BY <1>0
    <3>4. Cardinality(Between(A, 0, Window)) <= 2 * MaxRpm
      BY <3>3 DEF RateInv
    <3> QED BY <1>0, <1>2, <2>1, <3>1, <3>2, <3>3, <3>4
  <2>2. CASE from # 0
    <3>1. from - 1 \in 0..Window /\ (from + Window) - 1 = (from - 1) + Window /\ from \in Int /\ from + Window \in Int
      BY <1>0, <2>2
    <3>2. Cardinality(Between(B, from, from + Window)) <= Cardinality(Between(A, from - 1, (from - 1) + Window))
      BY <1>1, <3>1
    <3>3. Cardinality(Between(A, from - 1, (from - 1) + Window)) <= 2 * MaxRpm
      BY <3>1 DEF RateInv
    <3> QED BY <1>0, <1>2, <3>2, <3>3
  <2> QED BY <2>1, <2>2
<1>5. CASE l < 0
  <2>1. Cardinality(Between(B, 0, Window)) <= Cardinality(Between(A, 0, Window - 1))
    BY <1>0, <1>3
  <2>2. Cardinality(Between(A, 0, Window - 1)) <= Cardinality(Between(A, 0, Window))
    BY <1>0, WiderHasMore
  <2>3. Cardinality(Between(A, 0, Window)) <= MaxRpm
    BY <1>5 DEF RateInv
  <2>4. Cardinality(Between(B, 0, Window)) <= MaxRpm
    BY <1>0, <1>2, <2>1, <2>2, <2>3
  <2> QED BY <1>0, <1>1, <1>4, <1>5, <2>4 DEF RateInv
<1>6. CASE l = 0
  <2>1. Cardinality(Between(B, 0, Window)) <= Cardinality(Between(A, 0, Window - 1))
    BY <1>0, <1>3
  <2>2. Cardinality(Between(A, 0, Window - 1)) <= Cardinality(Between(A, 0, Window - l))
    BY <1>0, <1>6, WiderHasMore
  <2>3. Cardinality(Between(A, 0, Window - l)) <= MaxRpm
    BY <1>6 DEF RateInv
  <2>4. Cardinality(Between(B, 0, Window)) <= MaxRpm
    BY <1>0, <1>2, <2>1, <2>2, <2>3
  <2> QED BY <1>0, <1>1, <1>4, <1>6, <2>4 DEF RateInv
<1>7. CASE l > 0
  <2>1. PICK m \in 0..Window : m = l - 1
    BY <1>0, <1>7
  <2>2. /\ Cardinality(Between(A, 0, Window - l)) <= n /\ Cardinality(Between(A, 0, Window - l)) <= MaxRpm
        /\ Cardinality(Between(A, Window - l + 1, 2 * Window - l)) <= MaxRpm
    BY <1>0, <1>7 DEF RateInv
  <2>3. Cardinality(Between(B, 0, Window - m)) <= Cardinality(Between(A, 0, Window - l))
    <3>1. (Window - m) - 1 = Window - l /\ Window - m \in Int
      BY <1>0, <2>1
    <3> QED BY <1>3, <3>1
  <2>4. Cardinality(Between(B, Window - m + 1, 2 * Window - m)) <= Cardinality(Between(A, Window - l + 1, 2 * Window - l))
    <3>1. /\ (Window - m + 1) - 1 = Window - l + 1 /\ (2 * Window - m) - 1 = 2 * Window - l
          /\ Window - m + 1 \in Int /\ 2 * Window - m \in Int
      BY <1>0, <2>1
    <3> QED BY <1>1, <3>1
  <2>5. /\ Cardinality(Between(B, 0, Window - m)) <= n /\ Cardinality(Between(B, 0, Window - m)) <= MaxRpm
        /\ Cardinality(Between(B, Window - m + 1, 2 * Window - m)) <= MaxRpm
    BY <1>0, <1>2, <2>2, <2>3, <2>4
  <2>6. RateInv(B, n, m)
    BY <1>0, <1>1, <1>4, <2>1, <2>5 DEF RateInv
  <2>7. (IF l < 0 THEN -1 ELSE l - 1) = m
    BY <1>0, <1>7, <2>1
  <2> QED BY <2>6, <2>7
<1> QED BY <1>0, <1>5, <1>6, <1>7

LEMMA AdmitKeepsRate ==
  ASSUME NEW A, NEW n, NEW l, RateInv(A, n, l), NEW nth \in Nat, NEW more, NEW m,
         more = (IF l < 0 THEN 1 ELSE n + 1), more <= MaxRpm, m = (IF l < 0 THEN Window ELSE l)
  PROVE  RateInv(A \cup {<<0, nth>>}, more, m)
<1>0. /\ Window \in Nat \ {0} /\ MaxRpm \in Nat \ {0}
      /\ A \subseteq Nat \X Nat /\ IsFiniteSet(A) /\ n \in 0..(MaxRpm + 1) /\ l \in -1..Window
      /\ more \in 0..(MaxRpm + 1) /\ m \in 0..Window
  BY RateAssumption DEF RateInv
<1>1. PICK B : B = A \cup {<<0, nth>>}
  OBVIOUS
<1>2. B \subseteq Nat \X Nat /\ IsFiniteSet(B)
  <2>1. IsFiniteSet(B)
    BY <1>0, <1>1, FS_AddElement
  <2>2. B \subseteq Nat \X Nat
    BY <1>0, <1>1
  <2> QED BY <2>1, <2>2
<1>3. \A from, to : Cardinality(Between(A, from, to)) \in Nat /\ Cardinality(Between(B, from, to)) \in Nat
  BY <1>0, <1>2, BetweenFinite
<1>4. ASSUME NEW from \in Int, NEW to \in Int, from > 0 PROVE Between(B, from, to) = Between(A, from, to)
  BY <1>1, <1>4 DEF Between
<1>5. ASSUME NEW to \in Nat PROVE Cardinality(Between(B, 0, to)) <= Cardinality(Between(A, 0, to)) + 1
  <2>1. Between(B, 0, to) = Between(A, 0, to) \cup {<<0, nth>>}
    BY <1>1 DEF Between
  <2>2. IsFiniteSet(Between(A, 0, to)) /\ Cardinality(Between(A, 0, to)) \in Nat
    BY <1>0, BetweenFinite
  <2> QED BY <2>1, <2>2, FS_AddElement
<1>6. /\ Cardinality(Between(B, 0, Window - m)) <= more
      /\ Cardinality(Between(B, Window - m + 1, 2 * Window - m)) <= MaxRpm
  <2>1. CASE l < 0
    <3>1. m = Window /\ Window - m = 0 /\ Window - m + 1 = 1 /\ 2 * Window - m = Window /\ more = 1
      BY <1>0, <2>1
    <3>2. Cardinality(Between(A, 0, 0)) = 0
      BY <2>1, FS_EmptySet DEF RateInv
    <3>3. Cardinality(Between(B, 0, 0)) <= 1
      BY <1>3, <1>5, <3>2
    <3>4. Between(B, 1, Window) = Between(A, 1, Window)
      BY <1>0, <1>4
    <3>5. Cardinality(Between(A, 1, Window)) <= Cardinality(Between(A, 0, Window))
      BY <1>0, WiderHasMore
    <3>6. Cardinality(Between(A, 0, Window)) <= MaxRpm
      BY <2>1 DEF RateInv
    <3>7. Cardinality(Between(B, 1, Window)) <= MaxRpm
      BY <1>0, <1>3, <3>4, <3>5, <3>6
    <3> QED BY <3>1, <3>3, <3>7
  <2>2. CASE ~(l < 0)
    <3>1. m = l /\ more = n + 1 /\ l \in 0..Window /\ Window - l \in Nat
      BY <1>0, <2>2
    <3>2. /\ Cardinality(Between(A, 0, Window - l)) <= n
          /\ Cardinality(Between(A, Window - l + 1, 2 * Window - l)) <= MaxRpm
      BY <3>1 DEF RateInv
    <3>3. Cardinality(Between(B, 0, Window - l)) <= n + 1
      BY <1>0, <1>3, <1>5, <3>1, <3>2
    <3>4. Between(B, Window - l + 1, 2 * Window - l) = Between(A, Window - l + 1, 2 * Window - l)
      <4>1. Window - l + 1 \in Int /\ 2 * Window - l \in Int /\ Window - l + 1 > 0
        BY <1>0, <3>1
      <4> QED BY <1>4, <4>1
    <3> QED BY <3>1, <3>2, <3>3, <3>4
  <2> QED BY <2>1, <2>2
<1>7. Cardinality(Between(B, 0, Window - m)) <= MaxRpm
  BY <1>0, <1>3, <1>6
<1>8. ASSUME NEW from \in 0..Window PROVE Cardinality(Between(B, from, from + Window)) <= 2 * MaxRpm
  <2>1. CASE from = 0
    <3>1. Window - m \in Int /\ 2 * Window - m \in Int /\ Window <= 2 * Window - m
      BY <1>0
    <3>2. Cardinality(Between(B, 0, 2 * Window - m))
            <= Cardinality(Between(B, 0, Window - m)) + Cardinality(Between(B, Window - m + 1, 2 * Window - m))
      BY <1>2, <3>1, TwoParts
    <3>3. Cardinality(Between(B, 0, Window)) <= Cardinality(Between(B, 0, 2 * Window - m))
      BY <1>0, <1>2, <3>1, WiderHasMore
    <3>4. Cardinality(Between(B, 0, Window)) <= 2 * MaxRpm
      BY <1>0, <1>3, <1>6, <1>7, <3>2, <3>3
    <3>5. from + Window = Window
      BY <1>0, <2>1
    <3> QED BY <2>1, <3>4, <3>5
  <2>2. CASE from # 0
    <3>1. Between(B, from, from + Window) = Between(A, from, from + Window)
      BY <1>0, <1>4, <2>2
    <3> QED BY <3>1 DEF RateInv
  <2> QED BY <2>1, <2>2
<1>9. RateInv(B, more, m)
  BY <1>0, <1>2, <1>6, <1>7, <1>8 DEF RateInv
<1> QED BY <1>1, <1>9

RatesInv ==
  /\ count \in [Clients -> Int] /\ left \in [Clients -> Int]
  /\ admitted \in [Clients -> SUBSET (Nat \X Nat)]
  /\ \A c \in Clients : RateInv(admitted[c], count[c], left[c])

LEMMA WithinIsBetween == \A c, from, to : Within(c, from, to) = Between(admitted[c], from, to)
BY DEF Within, Between

LEMMA RequestKeepsRates ==
  ASSUME RatesInv, NEW c \in Clients, Request(c)
  PROVE  RatesInv'
<1>0. MaxRpm \in Nat \ {0} /\ Window \in Nat \ {0} /\ RateInv(admitted[c], count[c], left[c])
  BY RateAssumption DEF RatesInv
<1>1. count[c] \in 0..(MaxRpm + 1) /\ left[c] \in -1..Window
  BY <1>0 DEF RateInv
<1>2. PICK n : n = IF left[c] < 0 THEN 1 ELSE count[c] + 1
  OBVIOUS
<1>3. PICK m : m = IF left[c] < 0 THEN Window ELSE left[c]
  OBVIOUS
<1>4. n \in Int /\ m \in Int
  BY <1>0, <1>1, <1>2, <1>3
<1>5. /\ count' = [count EXCEPT ![c] = IF n > MaxRpm THEN MaxRpm + 1 ELSE n]
      /\ left' = [left EXCEPT ![c] = m]
  BY <1>2, <1>3 DEF Request
<1>6. /\ count' \in [Clients -> Int] /\ left' \in [Clients -> Int]
      /\ count'[c] = (IF n > MaxRpm THEN MaxRpm + 1 ELSE n) /\ left'[c] = m
      /\ \A d \in Clients \ {c} : count'[d] = count[d] /\ left'[d] = left[d]
  BY <1>0, <1>4, <1>5 DEF RatesInv
<1>7. CASE n > MaxRpm
  <2>1. admitted' = admitted
    BY <1>2, <1>7 DEF Request
  <2>2. left[c] >= 0 /\ m = left[c] /\ count'[c] = MaxRpm + 1
    BY <1>0, <1>1, <1>2, <1>3, <1>6, <1>7
  <2>3. \A from, to : Cardinality(Between(admitted[c], from, to)) \in Nat
    BY <1>0, BetweenFinite DEF RateInv
  <2>4. RateInv(admitted[c], MaxRpm + 1, left[c])
    BY <1>0, <2>2, <2>3 DEF RateInv
  <2> QED BY <1>6, <2>1, <2>2, <2>4 DEF RatesInv
<1>8. CASE ~(n > MaxRpm)
  <2>1. PICK nth \in Nat : nth = Cardinality(Within(c, 0, 0)) + 1
    BY <1>0, BetweenFinite, WithinIsBetween DEF RateInv
  <2>2. admitted' = [admitted EXCEPT ![c] = @ \cup {<<0, nth>>}]
    BY <1>2, <1>8, <2>1 DEF Request
  <2>3. /\ admitted'[c] = admitted[c] \cup {<<0, nth>>} /\ admitted' \in [Clients -> SUBSET (Nat \X Nat)]
        /\ \A d \in Clients \ {c} : admitted'[d] = admitted[d]
    BY <2>2 DEF RatesInv
  <2>4. RateInv(admitted[c] \cup {<<0, nth>>}, n, m)
    <3>1. n <= MaxRpm
      BY <1>0, <1>4, <1>8
    <3> QED BY <1>0, <1>2, <1>3, <3>1, AdmitKeepsRate
  <2> QED BY <1>6, <1>8, <2>3, <2>4 DEF RatesInv
<1> QED BY <1>7, <1>8

LEMMA RatesInvariance == RateSpec => []RatesInv
<1>1. RateInit => RatesInv
  <2> SUFFICES ASSUME RateInit, NEW c \in Clients PROVE RatesInv
    BY DEF RateInit, RatesInv
  <2>1. \A from, to : Between({}, from, to) = {} /\ Cardinality(Between({}, from, to)) = 0
    BY FS_EmptySet DEF Between
  <2>2. RateInv({}, 0, -1)
    BY <2>1, FS_EmptySet, RateAssumption DEF RateInv
  <2> QED BY <2>2 DEF RateInit, RatesInv
<1>2. RatesInv /\ [RateNext]_rateVars => RatesInv'
  <2> SUFFICES ASSUME RatesInv, [RateNext]_rateVars PROVE RatesInv'
    OBVIOUS
  <2>1. CASE RateTick
    <3>1. ASSUME NEW c \in Clients PROVE RateInv(admitted[c], count[c], left[c])'
      <4>1. admitted'[c] = Older(admitted[c], 2 * Window - 1)
        BY <2>1, WithinIsBetween DEF RateTick, Older
      <4>3. count'[c] = count[c] /\ left'[c] = IF left[c] < 0 THEN -1 ELSE left[c] - 1
        BY <2>1 DEF RateTick
      <4>2. RateInv(admitted[c], count[c], left[c])
        BY DEF RatesInv
      <4> QED BY <4>1, <4>2, <4>3, TickKeepsRate
    <3>2. count' \in [Clients -> Int] /\ left' \in [Clients -> Int]
      BY <2>1 DEF RateTick, RatesInv
    <3>3. admitted' \in [Clients -> SUBSET (Nat \X Nat)]
      <4>1. \A c \in Clients : admitted'[c] \in SUBSET (Nat \X Nat)
        BY <3>1 DEF RateInv
      <4> QED BY <2>1, <4>1 DEF RateTick
    <3> QED BY <3>1, <3>2, <3>3 DEF RatesInv
  <2>2. CASE UNCHANGED rateVars
    BY <2>2 DEF rateVars, RatesInv
  <2> QED BY <2>1, <2>2, RequestKeepsRates DEF RateNext
<1> QED BY <1>1, <1>2, PTL DEF RateSpec

\* A client gets no more than twice its requests per minute within any minute (rateLimitMiddleware()),
\* a session no more than its lifetimes (jwt.ts), and its roles no more than one access token.
THEOREM AccessIsLimited == RateSpec /\ SessionSpec => []AccessLimited
<1>1. RatesInv => NoMoreThanTwiceTheRate
  BY WithinIsBetween DEF RatesInv, RateInv, NoMoreThanTwiceTheRate
<1> QED BY <1>1, RatesInvariance, SessionsHold, PTL DEF AccessLimited

-----------------------------------------------------------------------------
(* Traces *)

SpanStates == {"none", "live", "ended"}
Marks      == {"a", "exception"}
SpanCodes  == {"unset", "error"}

SpanRecords == [state : SpanStates, trace : Spans \cup {NoSpan}, parent : Spans \cup {NoSpan},
                attributes : SUBSET Marks, code : SpanCodes]
Snapshots   == [id : Spans, trace : Spans \cup {NoSpan}, parent : Spans \cup {NoSpan},
                attributes : SUBSET Marks, code : SpanCodes]

IsNew(s)   == span[s].state = "none"
IsLive(s)  == span[s].state = "live"
IsEnded(s) == span[s].state = "ended"

LEMMA StateIsOne ==
  ASSUME NEW s
  PROVE  (IsNew(s) => ~IsLive(s) /\ ~IsEnded(s)) /\ (IsLive(s) => ~IsEnded(s))
BY DEF IsNew, IsLive, IsEnded

Family(family, s) == \A t \in Spans : ~IsNew(t) /\ (t = span[s].trace \/ span[t].parent \in family) => t \in family

\* A span that has been started is below the one that began its trace.
InTree(s) ==
  /\ span[s].trace \in Spans /\ ~IsNew(span[s].trace) /\ span[span[s].trace].parent = NoSpan
  /\ span[s].parent = NoSpan => span[s].trace = s
  /\ span[s].parent # NoSpan => span[s].parent \in Spans /\ ~IsNew(span[s].parent) /\ span[s].trace = span[span[s].parent].trace
  /\ \A family \in SUBSET Spans : Family(family, s) => s \in family

\* What an exporter has received: spans that have ended, as they are, each once, and each
\* received before by the exporter added before it.
Received(e) ==
  /\ \A i \in DOMAIN exported[e] : IsEnded(exported[e][i].id) /\ exported[e][i] = SpanData(exported[e][i].id)
  /\ \A i, j \in DOMAIN exported[e] : exported[e][i].id = exported[e][j].id => i = j
  /\ e > 1 => \A i \in DOMAIN exported[e] : \E j \in DOMAIN exported[e - 1] : exported[e - 1][j] = exported[e][i]

TracerInv ==
  /\ span \in [Spans -> SpanRecords] /\ exported \in [1..Exporters -> Seq(Snapshots)]
  /\ \A s \in Spans : ~IsNew(s) => InTree(s)
  /\ \A e \in 1..Exporters : Received(e)

LEMMA SnapshotType ==
  ASSUME span \in [Spans -> SpanRecords], NEW s \in Spans
  PROVE  SpanData(s) \in Snapshots /\ SpanData(s).id = s
BY DEF SpanRecords, Snapshots, SpanData

\* A span changes that has not ended: the exporters are not concerned.
LEMMA ChangeOfOne ==
  ASSUME TracerInv, NEW s \in Spans, ~IsEnded(s), span' \in [Spans -> SpanRecords], exported' = exported,
         \A t \in Spans \ {s} : span'[t] = span[t],
         \A t \in Spans : ~IsNew(t)' => InTree(t)'
  PROVE  TracerInv'
<1> SUFFICES ASSUME NEW e \in 1..Exporters PROVE Received(e)'
  BY DEF TracerInv
<1>1. Received(e) /\ exported[e] \in Seq(Snapshots) /\ exported'[e] = exported[e] /\ exported'[e - 1] = exported[e - 1]
  BY DEF TracerInv
<1>2. ASSUME NEW i \in DOMAIN exported[e]
      PROVE  IsEnded(exported[e][i].id)' /\ (exported[e][i] = SpanData(exported[e][i].id))'
  <2>0. exported[e][i] \in Snapshots
    BY <1>1
  <2>1. PICK t \in Spans : t = exported[e][i].id
    BY <2>0 DEF Snapshots
  <2>2. IsEnded(t) /\ exported[e][i] = SpanData(t)
    BY <1>1, <2>1 DEF Received
  <2>3. span'[t] = span[t]
    BY <2>2
  <2>4. IsEnded(t)' /\ SpanData(t)' = SpanData(t)
    BY <2>2, <2>3 DEF IsEnded, SpanData
  <2> QED BY <1>1, <2>1, <2>2, <2>4
<1> QED BY <1>1, <1>2 DEF Received

\* The trees stay as long as traces, parents and who has been started do.
LEMMA TreesStay ==
  ASSUME TracerInv,
         \A t \in Spans : span'[t].trace = span[t].trace /\ span'[t].parent = span[t].parent /\ (IsNew(t)' <=> IsNew(t))
  PROVE  \A t \in Spans : ~IsNew(t)' => InTree(t)'
<1> SUFFICES ASSUME NEW s \in Spans, ~IsNew(s)' PROVE InTree(s)'
  OBVIOUS
<1>1. InTree(s)
  BY DEF TracerInv
<1>2. \A family \in SUBSET Spans : Family(family, s)' => Family(family, s)
  BY DEF Family
<1>3. span[s].trace \in Spans /\ (span[s].parent # NoSpan => span[s].parent \in Spans)
  BY <1>1 DEF InTree
<1> QED BY <1>1, <1>2, <1>3 DEF InTree

LEMMA StartKeepsTraces ==
  ASSUME TracerInv, NEW s \in Spans, NEW parent \in Spans \cup {NoSpan}, StartSpan(s, parent)
  PROVE  TracerInv'
<1>1. IsNew(s) /\ parent # s /\ (parent # NoSpan => parent \in Spans /\ ~IsNew(parent)) /\ exported' = exported
  BY DEF StartSpan, IsNew
<1>2. PICK trace : trace = IF parent = NoSpan THEN s ELSE span[parent].trace
  OBVIOUS
<1>3. span' = [span EXCEPT ![s] = [NotStarted EXCEPT !.state = "live", !.parent = parent, !.trace = trace]]
  BY <1>2 DEF StartSpan
<1>4. trace \in Spans
  <2>1. CASE parent = NoSpan
    BY <1>2, <2>1
  <2>2. CASE parent # NoSpan
    BY <1>1, <1>2, <2>2 DEF TracerInv, InTree
  <2> QED BY <2>1, <2>2
<1>5. PICK new : new = [NotStarted EXCEPT !.state = "live", !.parent = parent, !.trace = trace]
  OBVIOUS
<1>6. new \in SpanRecords /\ new.state = "live" /\ new.parent = parent /\ new.trace = trace
  BY <1>4, <1>5 DEF NotStarted, SpanRecords, SpanStates, SpanCodes
<1>7. /\ span' \in [Spans -> SpanRecords] /\ span'[s] = new
      /\ \A t \in Spans \ {s} : span'[t] = span[t]
  BY <1>3, <1>5, <1>6 DEF TracerInv
<1>8. IsLive(s)' /\ ~IsNew(s)' /\ span'[s].parent = parent /\ span'[s].trace = trace
  BY <1>6, <1>7 DEF IsLive, IsNew
<1>9. \A t \in Spans \ {s} : IsNew(t)' <=> IsNew(t)
  BY <1>7 DEF IsNew
\* What was a family of a span already started is one.
<1>10. ASSUME NEW t \in Spans, ~IsNew(t), NEW family \in SUBSET Spans, Family(family, t)' PROVE t \in family
  <2>1. span'[t] = span[t] /\ t # s
    BY <1>1, <1>7, <1>10
  <2>2. Family(family, t)
    <3> SUFFICES ASSUME NEW u \in Spans, ~IsNew(u), u = span[t].trace \/ span[u].parent \in family PROVE u \in family
      BY DEF Family
    <3>1. u # s /\ span'[u] = span[u] /\ ~IsNew(u)'
      BY <1>1, <1>7, <1>9
    <3> QED BY <1>10, <2>1, <3>1 DEF Family
  <2>3. InTree(t)
    BY <1>10 DEF TracerInv
  <2> QED BY <2>2, <2>3 DEF InTree
<1>11. ASSUME NEW t \in Spans, ~IsNew(t) PROVE InTree(t)'
  <2>1. InTree(t) /\ t # s /\ span'[t] = span[t]
    BY <1>1, <1>7, <1>11 DEF TracerInv
  <2>2. PICK root \in Spans : root = span[t].trace /\ ~IsNew(root) /\ span[root].parent = NoSpan
    BY <2>1 DEF InTree
  <2>3. span'[root] = span[root] /\ ~IsNew(root)'
    BY <1>1, <1>7, <1>9, <2>2
  <2>4. CASE span[t].parent = NoSpan
    BY <1>10, <1>11, <2>1, <2>2, <2>3, <2>4 DEF InTree
  <2>5. CASE span[t].parent # NoSpan
    <3>1. PICK above \in Spans : above = span[t].parent /\ ~IsNew(above) /\ span[t].trace = span[above].trace
      BY <2>1, <2>5 DEF InTree
    <3>2. span'[above] = span[above] /\ ~IsNew(above)'
      BY <1>1, <1>7, <1>9, <3>1
    <3> QED BY <1>10, <1>11, <2>1, <2>2, <2>3, <2>5, <3>1, <3>2 DEF InTree
  <2> QED BY <2>4, <2>5
<1>12. InTree(s)'
  <2>1. CASE parent = NoSpan
    <3>1. trace = s
      BY <1>2, <2>1
    <3>2. \A family \in SUBSET Spans : Family(family, s)' => s \in family
      BY <1>8, <3>1 DEF Family
    <3> QED BY <1>8, <2>1, <3>1, <3>2 DEF InTree
  <2>2. CASE parent # NoSpan
    <3>1. parent \in Spans /\ ~IsNew(parent) /\ trace = span[parent].trace /\ parent # s
      BY <1>1, <1>2, <2>2
    <3>2. InTree(parent)
      BY <3>1 DEF TracerInv
    <3>3. ~IsNew(trace) /\ span[trace].parent = NoSpan /\ trace # s
      BY <1>1, <3>1, <3>2 DEF InTree
    <3>4. span'[trace] = span[trace] /\ span'[parent] = span[parent] /\ ~IsNew(trace)' /\ ~IsNew(parent)'
      BY <1>4, <1>7, <1>9, <3>1, <3>3
    <3>5. ASSUME NEW family \in SUBSET Spans, Family(family, s)' PROVE s \in family
      <4>1. Family(family, parent)'
        BY <1>8, <3>1, <3>4, <3>5 DEF Family
      <4>2. parent \in family
        BY <1>10, <3>1, <4>1
      <4> QED BY <1>8, <3>5, <4>2 DEF Family
    <3> QED BY <1>4, <1>8, <2>2, <3>1, <3>3, <3>4, <3>5 DEF InTree
  <2> QED BY <2>1, <2>2
<1>13. \A t \in Spans : ~IsNew(t)' => InTree(t)'
  BY <1>9, <1>11, <1>12
<1>14. ~IsEnded(s)
  BY <1>1, StateIsOne
<1> QED BY <1>1, <1>7, <1>13, <1>14, ChangeOfOne

LEMMA MarkKeepsTraces ==
  ASSUME TracerInv, NEW s \in Spans, SetAttribute(s, "a") \/ RecordException(s)
  PROVE  TracerInv'
<1>1. IsLive(s) /\ exported' = exported
  BY DEF SetAttribute, RecordException, IsLive
<1>2. PICK new : new = span'[s]
  OBVIOUS
<1>3. span[s] \in SpanRecords
  BY DEF TracerInv
<1>4. new \in SpanRecords /\ span' = [span EXCEPT ![s] = new]
      /\ new.state = span[s].state /\ new.trace = span[s].trace /\ new.parent = span[s].parent
  <2>1. CASE SetAttribute(s, "a")
    <3>1. new = [span[s] EXCEPT !.attributes = @ \cup {"a"}] /\ span' = [span EXCEPT ![s] = new]
      BY <1>2, <2>1 DEF SetAttribute, TracerInv
    <3>2. span[s].attributes \cup {"a"} \in SUBSET Marks
      BY <1>3 DEF SpanRecords, Marks
    <3> QED BY <1>3, <3>1, <3>2 DEF SpanRecords
  <2>2. CASE RecordException(s)
    <3>1. new = [span[s] EXCEPT !.attributes = @ \cup {"exception"}, !.code = "error"] /\ span' = [span EXCEPT ![s] = new]
      BY <1>2, <2>2 DEF RecordException, TracerInv
    <3>2. span[s].attributes \cup {"exception"} \in SUBSET Marks /\ "error" \in SpanCodes
      BY <1>3 DEF SpanRecords, Marks, SpanCodes
    <3> QED BY <1>3, <3>1, <3>2 DEF SpanRecords
  <2> QED BY <2>1, <2>2
<1>5. /\ span' \in [Spans -> SpanRecords] /\ \A t \in Spans \ {s} : span'[t] = span[t]
  BY <1>4 DEF TracerInv
<1>6. \A t \in Spans : span'[t].trace = span[t].trace /\ span'[t].parent = span[t].parent /\ (IsNew(t)' <=> IsNew(t))
  BY <1>2, <1>4, <1>5 DEF IsNew
<1>7. ~IsEnded(s)
  BY <1>1, StateIsOne
<1> QED BY <1>1, <1>5, <1>6, <1>7, TreesStay, ChangeOfOne

LEMMA EndKeepsTraces ==
  ASSUME TracerInv, NEW s \in Spans, NEW failing \in Throwing \cup {0}, EndSpan(s, failing)
  PROVE  TracerInv'
<1>1. IsLive(s) /\ span' = [span EXCEPT ![s].state = "ended"] /\ failing \in 0..Exporters
  BY TracerAssumption DEF EndSpan, IsLive
<1>2. PICK data : data = SpanData(s)
  OBVIOUS
<1>3. data \in Snapshots /\ data.id = s
  BY <1>2, SnapshotType DEF TracerInv
<1>4. /\ exported' = [e \in 1..Exporters |->
           IF failing = 0 \/ e < failing THEN Append(exported[e], data) ELSE exported[e]]
  BY <1>2 DEF EndSpan, Export
<1>5. span' \in [Spans -> SpanRecords] /\ IsEnded(s)'
  BY <1>1 DEF TracerInv, SpanRecords, SpanStates, IsEnded
<1>6. \A t \in Spans : /\ span'[t].trace = span[t].trace /\ span'[t].parent = span[t].parent
                       /\ span'[t].attributes = span[t].attributes /\ span'[t].code = span[t].code
                       /\ (t # s => span'[t] = span[t])
  BY <1>1 DEF TracerInv, SpanRecords
<1>7. \A t \in Spans : (IsNew(t)' <=> IsNew(t)) /\ (IsEnded(t) => IsEnded(t)') /\ SpanData(t)' = SpanData(t)
  <2>1. ~IsNew(s)' /\ ~IsNew(s)
    <3>1. ~IsNew(s)
      BY <1>1, StateIsOne
    <3>2. ~IsNew(s)'
      BY <1>5 DEF IsNew, IsEnded
    <3> QED BY <3>1, <3>2
  <2>2. \A t \in Spans \ {s} : (IsNew(t)' <=> IsNew(t)) /\ (IsEnded(t)' <=> IsEnded(t))
    BY <1>6 DEF IsNew, IsEnded
  <2>3. \A t \in Spans : SpanData(t)' = SpanData(t)
    BY <1>6 DEF SpanData
  <2> QED BY <1>5, <2>1, <2>2, <2>3
<1>8. \A t \in Spans : ~IsNew(t)' => InTree(t)'
  BY <1>6, <1>7, TreesStay
<1>9. ASSUME NEW e \in 1..Exporters
      PROVE  \/ exported'[e] = exported[e]
             \/ /\ exported'[e] = Append(exported[e], data)
                /\ e - 1 \in 1..Exporters => exported'[e - 1] = Append(exported[e - 1], data)
  <2>1. CASE failing = 0 \/ e < failing
    <3>1. e - 1 \in 1..Exporters => failing = 0 \/ e - 1 < failing
      BY <1>1, <2>1
    <3> QED BY <1>4, <2>1, <3>1
  <2>2. CASE ~(failing = 0 \/ e < failing)
    BY <1>4, <2>2
  <2> QED BY <2>1, <2>2
<1>10. ASSUME NEW e \in 1..Exporters
       PROVE  /\ exported'[e] \in Seq(Snapshots) /\ DOMAIN exported[e] \subseteq DOMAIN exported'[e]
              /\ \A i \in DOMAIN exported[e] : exported'[e][i] = exported[e][i]
              /\ \A i \in DOMAIN exported'[e] \ DOMAIN exported[e] : exported'[e][i] = data /\ i = Len(exported[e]) + 1
  <2>1. exported[e] \in Seq(Snapshots)
    BY DEF TracerInv
  <2>2. CASE exported'[e] = exported[e]
    BY <2>1, <2>2
  <2>3. CASE exported'[e] = Append(exported[e], data)
    BY <1>3, <2>1, <2>3
  <2> QED BY <1>9, <2>2, <2>3
<1>11. ASSUME NEW e \in 1..Exporters PROVE Received(e)'
  <2>1. Received(e) /\ exported[e] \in Seq(Snapshots)
    BY DEF TracerInv
  <2>2. ASSUME NEW i \in DOMAIN exported[e] PROVE exported[e][i].id \in Spans \ {s} /\ exported[e][i] \in Snapshots
    <3>0. exported[e][i] \in Snapshots
      BY <2>1
    <3>1. exported[e][i].id \in Spans
      BY <3>0 DEF Snapshots
    <3>2. IsEnded(exported[e][i].id)
      BY <2>1 DEF Received
    <3> QED BY <1>1, <3>0, <3>1, <3>2, StateIsOne
  <2>3. ASSUME NEW i \in DOMAIN exported'[e]
        PROVE  IsEnded(exported[e][i].id)' /\ (exported[e][i] = SpanData(exported[e][i].id))'
    <3>1. CASE i \in DOMAIN exported[e]
      <4>1. PICK t \in Spans : t = exported[e][i].id /\ IsEnded(t) /\ exported[e][i] = SpanData(t)
        BY <2>1, <2>2, <3>1 DEF Received
      <4>2. exported'[e][i] = exported[e][i]
        BY <1>10, <3>1
      <4> QED BY <1>7, <4>1, <4>2
    <3>2. CASE i \notin DOMAIN exported[e]
      <4>1. exported'[e][i] = data
        BY <1>10, <3>2
      <4> QED BY <1>2, <1>3, <1>5, <1>7, <4>1
    <3> QED BY <3>1, <3>2
  <2>4. ASSUME NEW i \in DOMAIN exported'[e], NEW j \in DOMAIN exported'[e], exported'[e][i].id = exported'[e][j].id
        PROVE  i = j
    <3>1. CASE i \in DOMAIN exported[e] /\ j \in DOMAIN exported[e]
      BY <1>10, <2>1, <2>4, <3>1 DEF Received
    <3>2. CASE i \in DOMAIN exported[e] /\ j \notin DOMAIN exported[e]
      BY <1>3, <1>10, <2>2, <2>4, <3>2
    <3>3. CASE i \notin DOMAIN exported[e] /\ j \in DOMAIN exported[e]
      BY <1>3, <1>10, <2>2, <2>4, <3>3
    <3>4. CASE i \notin DOMAIN exported[e] /\ j \notin DOMAIN exported[e]
      BY <1>10, <3>4
    <3> QED BY <3>1, <3>2, <3>3, <3>4
  <2>5. ASSUME e > 1, NEW i \in DOMAIN exported'[e]
        PROVE  \E j \in DOMAIN exported'[e - 1] : exported'[e - 1][j] = exported'[e][i]
    <3>1. e - 1 \in 1..Exporters
      BY <2>5, TracerAssumption
    <3>2. CASE i \in DOMAIN exported[e]
      <4>1. PICK j \in DOMAIN exported[e - 1] : exported[e - 1][j] = exported[e][i]
        BY <2>1, <2>5, <3>2 DEF Received
      <4> QED BY <1>10, <3>1, <3>2, <4>1
    <3>3. CASE i \notin DOMAIN exported[e]
      <4>1. exported'[e][i] = data /\ exported'[e - 1] = Append(exported[e - 1], data)
        BY <1>9, <1>10, <2>5, <3>1, <3>3
      <4>2. exported[e - 1] \in Seq(Snapshots)
        BY <3>1 DEF TracerInv
      <4>3. Len(exported[e - 1]) + 1 \in DOMAIN exported'[e - 1] /\ exported'[e - 1][Len(exported[e - 1]) + 1] = data
        BY <1>3, <4>1, <4>2
      <4> QED BY <4>1, <4>3
    <3> QED BY <3>2, <3>3
  <2> QED BY <2>3, <2>4, <2>5 DEF Received
<1>12. exported' \in [1..Exporters -> Seq(Snapshots)]
  BY <1>4, <1>10
<1> QED BY <1>5, <1>8, <1>11, <1>12 DEF TracerInv

LEMMA TracerInvariance == TracerSpec => []TracerInv
<1>1. TracerInit => TracerInv
  <2> SUFFICES ASSUME TracerInit PROVE TracerInv
    OBVIOUS
  <2>1. span \in [Spans -> SpanRecords] /\ \A s \in Spans : IsNew(s)
    BY DEF TracerInit, NotStarted, SpanRecords, SpanStates, SpanCodes, IsNew
  <2>2. exported \in [1..Exporters -> Seq(Snapshots)] /\ \A e \in 1..Exporters : DOMAIN exported[e] = {}
    BY DEF TracerInit
  <2> QED BY <2>1, <2>2 DEF TracerInv, Received
<1>2. TracerInv /\ [TracerNext]_tracerVars => TracerInv'
  <2> SUFFICES ASSUME TracerInv, [TracerNext]_tracerVars PROVE TracerInv'
    OBVIOUS
  <2>1. CASE UNCHANGED tracerVars
    <3>1. span' = span /\ exported' = exported
      BY <2>1 DEF tracerVars
    <3>2. \A s : InTree(s)' <=> InTree(s)
      BY <3>1 DEF InTree, Family, IsNew
    <3>3. \A e : Received(e)' <=> Received(e)
      BY <3>1 DEF Received, IsEnded, SpanData
    <3> QED BY <3>1, <3>2, <3>3 DEF TracerInv, IsNew
  <2> QED BY <2>1, StartKeepsTraces, MarkKeepsTraces, EndKeepsTraces DEF TracerNext
<1> QED BY <1>1, <1>2, PTL DEF TracerSpec

\* Each exporter gets a span once, as it was at its end (tracer.ts), after the exporters before it,
\* and in the trace of its ancestors, for any spans, exporters and errors of exporters.
THEOREM TracesHold == TracerSpec => []TracesFaithful
<1>1. TracerInv => TracesFaithful
  <2> SUFFICES ASSUME TracerInv PROVE TracesFaithful
    OBVIOUS
  <2>1. ExportedOnce /\ SnapshotIsFinal
    BY DEF TracerInv, Received, IsEnded, ExportedOnce, SnapshotIsFinal
  <2>2. TraceIsOneTree
    BY DEF TracerInv, InTree, Family, IsNew, TraceIsOneTree
  <2> QED BY <2>1, <2>2 DEF TracesFaithful
<1> QED BY <1>1, TracerInvariance, PTL

-----------------------------------------------------------------------------
(* Generation jobs *)

GenRecords == [status : {"none", "processing", "completed", "failed"}, progress : {0, 25, 50, 75, 100},
               result : BOOLEAN, error : BOOLEAN]

\* A job completes with its fourth timer, which also gives it its result.
JobInv(job) ==
  /\ job \in GenRecords
  /\ job.result <=> job.status = "completed"
  /\ job.status = "completed" <=> job.progress = 100
  /\ job.status = "failed" => job.error

JobsInv == gen \in [GenIds -> GenRecords] /\ \A j \in GenIds : JobInv(gen[j])

LEMMA JobStep ==
  ASSUME JobsInv, NEW j \in GenIds, Generate(j) \/ Progress(j) \/ CancelJob(j)
  PROVE  JobsInv' /\ \A i \in GenIds : gen[i].status = "completed" => gen'[i] = gen[i]
<1>1. JobInv(gen[j]) /\ gen[j] \in GenRecords
  BY DEF JobsInv
<1>2. PICK new : new = gen'[j]
  OBVIOUS
<1>3. JobInv(new) /\ gen' = [gen EXCEPT ![j] = new] /\ gen[j].status # "completed"
  <2>1. CASE Generate(j)
    <3>1. new = [gen[j] EXCEPT !.status = "processing"] /\ gen' = [gen EXCEPT ![j] = new] /\ gen[j] = NoGenJob
      BY <1>2, <2>1 DEF Generate, JobsInv
    <3>2. gen[j].status = "none" /\ gen[j].progress = 0 /\ gen[j].result = FALSE
      BY <3>1 DEF NoGenJob
    <3>3. new \in GenRecords
      BY <1>1, <3>1 DEF GenRecords
    <3>4. new.status = "processing" /\ new.progress = gen[j].progress /\ new.result = gen[j].result
      BY <1>1, <3>1 DEF GenRecords
    <3>5. new.progress # 100
      BY <3>2, <3>4
    <3> QED BY <3>1, <3>2, <3>3, <3>4, <3>5 DEF JobInv
  <2>2. CASE Progress(j)
    <3>1. /\ new = [gen[j] EXCEPT !.progress = @ + 25, !.status = IF gen[j].progress = 75 THEN "completed" ELSE @,
                                  !.result = gen[j].progress = 75]
          /\ gen' = [gen EXCEPT ![j] = new] /\ gen[j].progress < 100
      BY <1>2, <2>2 DEF Progress, JobsInv
    <3>2. gen[j].progress \in {0, 25, 50, 75} /\ gen[j].status # "completed"
      BY <1>1, <3>1 DEF JobInv, GenRecords
    <3>3. new.error = gen[j].error
      BY <1>1, <3>1 DEF GenRecords
    <3>4. CASE gen[j].progress = 75
      <4>0. new.progress = gen[j].progress + 25 /\ new.status = "completed" /\ new.result = TRUE
        BY <1>1, <3>1, <3>4 DEF GenRecords
      <4>1. new.progress = 100 /\ new.status = "completed" /\ new.result = TRUE
        BY <3>4, <4>0
      <4>2. new \in GenRecords
        BY <1>1, <3>1, <4>1 DEF GenRecords
      <4> QED BY <3>1, <3>2, <4>1, <4>2 DEF JobInv
    <3>5. CASE gen[j].progress # 75
      <4>1. new.progress \in {25, 50, 75} /\ new.progress # 100
        BY <1>1, <3>1, <3>2, <3>5 DEF GenRecords
      <4>2. new.status = gen[j].status /\ new.result = FALSE
        BY <1>1, <3>1, <3>5 DEF GenRecords
      <4>3. new \in GenRecords
        BY <1>1, <3>1, <4>1, <4>2 DEF GenRecords
      <4> QED BY <1>1, <3>1, <3>2, <3>3, <4>1, <4>2, <4>3 DEF JobInv
    <3> QED BY <3>4, <3>5
  <2>3. CASE CancelJob(j)
    <3>1. /\ new = [gen[j] EXCEPT !.status = "failed", !.error = TRUE]
          /\ gen' = [gen EXCEPT ![j] = new] /\ gen[j].status = "processing"
      BY <1>2, <2>3 DEF CancelJob, JobsInv
    <3> QED BY <1>1, <3>1 DEF JobInv, GenRecords
  <2> QED BY <2>1, <2>2, <2>3
<1>4. \A i \in GenIds \ {j} : gen'[i] = gen[i]
  BY <1>3 DEF JobsInv
<1>5. new \in GenRecords /\ gen'[j] = new
  BY <1>2, <1>3 DEF JobInv
<1> QED BY <1>3, <1>4, <1>5 DEF JobsInv

LEMMA JobsHold == GenSpec => []ResultIffCompleted /\ CompletedIsFinal
<1> DEFINE Kept == \A j \in GenIds : gen[j].status = "completed" => gen'[j] = gen[j]
<1>1. GenInit => JobsInv
  BY DEF GenInit, JobsInv, JobInv, GenRecords, NoGenJob
<1>2. JobsInv /\ [GenNext]_gen => JobsInv' /\ [Kept]_gen
  <2> SUFFICES ASSUME JobsInv, [GenNext]_gen PROVE JobsInv' /\ Kept
    OBVIOUS
  <2>1. CASE gen' = gen
    BY <2>1 DEF JobsInv
  <2>2. CASE GenNext
    BY <2>2, JobStep DEF GenNext
  <2> QED BY <2>1, <2>2
<1>3. JobsInv => ResultIffCompleted
  BY DEF JobsInv, JobInv, ResultIffCompleted
<1> QED BY <1>1, <1>2, <1>3, PTL DEF GenSpec, CompletedIsFinal

-----------------------------------------------------------------------------
(* Transactions *)

TxRecords == [stage : {"none", "callback", "returned", "threw", "committed", "rolled back"}, active : BOOLEAN]

\* A transaction that has been settled has taken its client's permission away.
TxInv ==
  /\ tx \in [Txs -> TxRecords] /\ ran \in [Txs -> Int]
  /\ \A t \in Txs : tx[t].stage \in {"committed", "rolled back"} => ~tx[t].active

TxKept == \A t \in Txs : tx[t].stage \in {"committed", "rolled back"} => ran'[t] = ran[t] /\ tx'[t] = tx[t]

LEMMA TxStep ==
  ASSUME TxInv, NEW t \in Txs, NEW new \in TxRecords, tx' = [tx EXCEPT ![t] = new], ran' = ran,
         tx[t].stage \notin {"committed", "rolled back"},
         new.stage \in {"committed", "rolled back"} => ~new.active
  PROVE  TxInv' /\ TxKept
BY DEF TxInv, TxKept

LEMMA TransactionsHold == TxSpec => LateQueriesRefused
<1>1. TxInit => TxInv
  <2>1. TxInit => ran \in [Txs -> Int]
    BY DEF TxInit
  <2>2. TxInit => tx \in [Txs -> TxRecords] /\ \A t \in Txs : tx[t].stage = "none"
    BY DEF TxInit, TxRecords
  <2> QED BY <2>1, <2>2 DEF TxInv
<1>2. TxInv /\ [TxNext]_txVars => TxInv' /\ [TxKept]_txVars
  <2> SUFFICES ASSUME TxInv, [TxNext]_txVars PROVE TxInv' /\ TxKept
    OBVIOUS
  <2>1. CASE UNCHANGED txVars \/ Connect \/ Disconnect
    BY <2>1 DEF txVars, Connect, Disconnect, TxInv, TxKept
  <2>2. ASSUME NEW t \in Txs, Begin(t) PROVE TxInv' /\ TxKept
    <3>1. [stage |-> "callback", active |-> TRUE] \in TxRecords
      BY DEF TxRecords
    <3> QED BY <2>2, <3>1, TxStep DEF Begin
  <2>3. ASSUME NEW t \in Txs, TxQuery(t) PROVE TxInv' /\ TxKept
    <3>0. ran \in [Txs -> Int] /\ ran' = [ran EXCEPT ![t] = @ + 1]
      BY <2>3 DEF TxQuery, TxInv
    <3>1. ran' \in [Txs -> Int] /\ \A u \in Txs \ {t} : ran'[u] = ran[u]
      BY <3>0
    <3>2. tx' = tx /\ tx[t].active
      BY <2>3 DEF TxQuery
    <3> QED BY <3>1, <3>2 DEF TxInv, TxKept
  <2>4. ASSUME NEW t \in Txs, Settle(t) PROVE TxInv' /\ TxKept
    <3>1. PICK new : new = [stage |-> IF tx[t].stage = "returned" THEN "committed" ELSE "rolled back", active |-> FALSE]
      OBVIOUS
    <3>2. new \in TxRecords /\ tx' = [tx EXCEPT ![t] = new] /\ ~new.active /\ ran' = ran
          /\ tx[t].stage \notin {"committed", "rolled back"}
      BY <2>4, <3>1 DEF Settle, TxRecords, TxInv
    <3> QED BY <3>2, TxStep
  <2>5. ASSUME NEW t \in Txs, NEW how \in {"returned", "threw"}, CallbackEnds(t, how) PROVE TxInv' /\ TxKept
    <3>1. PICK new : new = [tx[t] EXCEPT !.stage = how]
      OBVIOUS
    <3>2. tx[t] \in TxRecords
      BY DEF TxInv
    <3>3. new \in TxRecords /\ new.stage = how
      BY <3>1, <3>2 DEF TxRecords
    <3>4. tx' = [tx EXCEPT ![t] = new] /\ ran' = ran /\ tx[t].stage = "callback"
      BY <2>5, <3>1 DEF CallbackEnds, TxInv
    <3> QED BY <3>3, <3>4, TxStep
  <2> QED BY <2>1, <2>2, <2>3, <2>4, <2>5 DEF TxNext
<1> QED BY <1>1, <1>2, PTL DEF TxSpec, LateQueriesRefused, TxKept

-----------------------------------------------------------------------------
(* Built workflows *)

AllSettings  == Settings \cup {DefaultSetting}
AnyEdges     == [id : Int, source : BuilderNodes, target : BuilderNodes]
Builders     == [nodes : Seq(BuilderNodes), edges : Seq(AnyEdges), counter : Int, setting : AllSettings]
BuiltRecords == [nodes : Seq(BuilderNodes), edges : Seq(AnyEdges), setting : AllSettings]

\* s is what t begins with.
Starts(s, t) == Len(s) <= Len(t) /\ \A i \in 1..Len(s) : s[i] = t[i]

\* The edges are numbered in their order.
Numbered(edges) == \A i \in 1..Len(edges) : edges[i].id = i - 1

BuildersInv ==
  /\ builder \in Builders /\ built \in Seq(BuiltRecords)
  /\ builder.counter = Len(builder.edges) /\ Numbered(builder.edges)
  /\ \A k \in DOMAIN built : Starts(built[k].nodes, builder.nodes) /\ Starts(built[k].edges, builder.edges)

BuiltKept ==
  \A k \in DOMAIN built :
    /\ built'[k] = built[k]
    /\ Len(built') > Len(built) =>
         IsPrefix(built[k].nodes, Last(built').nodes) /\ IsPrefix(built[k].edges, Last(built').edges)

LEMMA StartsIsPrefix ==
  ASSUME NEW S, NEW s \in Seq(S), NEW t \in Seq(S), Starts(s, t)
  PROVE  IsPrefix(s, t)
<1>1. Len(s) <= Len(t) /\ Len(s) \in Nat /\ Len(t) \in Nat
  BY DEF Starts
<1>2. SubSeq(s, 1, Len(s)) = s
  BY <1>1
<1>3. SubSeq(t, 1, Len(s)) = s
  BY <1>1 DEF Starts
<1> QED BY <1>1, <1>2, <1>3 DEF IsPrefix

LEMMA StartsOnwards ==
  ASSUME NEW S, NEW s \in Seq(S), NEW t \in Seq(S), NEW u \in Seq(S), Starts(s, t), Starts(t, u)
  PROVE  Starts(s, u)
BY DEF Starts

LEMMA BuilderGrows ==
  ASSUME BuildersInv, builder' \in Builders, built' = built,
         Starts(builder.nodes, builder'.nodes), Starts(builder.edges, builder'.edges),
         builder'.counter = Len(builder'.edges), Numbered(builder'.edges)
  PROVE  BuildersInv' /\ BuiltKept
<1>1. builder.nodes \in Seq(BuilderNodes) /\ builder.edges \in Seq(AnyEdges)
      /\ builder'.nodes \in Seq(BuilderNodes) /\ builder'.edges \in Seq(AnyEdges)
  BY DEF BuildersInv, Builders
<1>2. ASSUME NEW k \in DOMAIN built
      PROVE  Starts(built[k].nodes, builder'.nodes) /\ Starts(built[k].edges, builder'.edges)
  <2>1. built[k] \in BuiltRecords
    BY DEF BuildersInv
  <2>2. built[k].nodes \in Seq(BuilderNodes) /\ built[k].edges \in Seq(AnyEdges)
    BY <2>1 DEF BuiltRecords
  <2>3. Starts(built[k].nodes, builder.nodes) /\ Starts(built[k].edges, builder.edges)
    BY DEF BuildersInv
  <2> QED BY <1>1, <2>2, <2>3, StartsOnwards
<1> QED BY <1>2 DEF BuildersInv, BuiltKept

LEMMA BuilderStep ==
  ASSUME BuildersInv, BuilderNext
  PROVE  BuildersInv' /\ BuiltKept
<1>0. /\ builder \in Builders /\ builder.nodes \in Seq(BuilderNodes) /\ builder.edges \in Seq(AnyEdges)
      /\ builder.counter = Len(builder.edges) /\ Numbered(builder.edges)
  BY DEF BuildersInv, Builders
<1>1. Starts(builder.nodes, builder.nodes) /\ Starts(builder.edges, builder.edges)
  BY <1>0 DEF Starts
<1>2. PICK new : new = builder'
  OBVIOUS
<1>3. ASSUME NEW setting \in Settings, Set(setting) PROVE BuildersInv' /\ BuiltKept
  <2>1. new = [builder EXCEPT !.setting = setting] /\ built' = built
    BY <1>2, <1>3 DEF Set
  <2>2. new \in Builders /\ new.nodes = builder.nodes /\ new.edges = builder.edges /\ new.counter = builder.counter
    BY <1>0, <2>1 DEF Builders, AllSettings
  <2> QED BY <1>0, <1>1, <1>2, <2>1, <2>2, BuilderGrows
<1>4. ASSUME NEW n \in BuilderNodes, AddNode(n) PROVE BuildersInv' /\ BuiltKept
  <2>1. PICK nodes : nodes = Append(builder.nodes, n)
    OBVIOUS
  <2>2. new = [builder EXCEPT !.nodes = nodes] /\ built' = built
    BY <1>2, <1>4, <2>1 DEF AddNode
  <2>3. nodes \in Seq(BuilderNodes) /\ Starts(builder.nodes, nodes)
    BY <1>0, <2>1 DEF Starts
  <2>4. new \in Builders /\ new.nodes = nodes /\ new.edges = builder.edges /\ new.counter = builder.counter
    BY <1>0, <2>2, <2>3 DEF Builders
  <2> QED BY <1>0, <1>1, <1>2, <2>2, <2>3, <2>4, BuilderGrows
<1>5. ASSUME NEW source \in BuilderNodes, NEW target \in BuilderNodes, ConnectNodes(source, target)
      PROVE  BuildersInv' /\ BuiltKept
  <2>1. PICK edge : edge = Edge(builder.counter, source, target)
    OBVIOUS
  <2>2. PICK edges : edges = Append(builder.edges, edge)
    OBVIOUS
  <2>3. new = [builder EXCEPT !.edges = edges, !.counter = @ + 1] /\ built' = built
    BY <1>2, <1>5, <2>1, <2>2 DEF ConnectNodes
  <2>4. edge \in AnyEdges /\ edge.id = Len(builder.edges)
    BY <1>0, <2>1 DEF Edge, AnyEdges
  <2>5. edges \in Seq(AnyEdges) /\ Starts(builder.edges, edges) /\ Len(edges) = Len(builder.edges) + 1
    BY <1>0, <2>2, <2>4 DEF Starts
  <2>6. Numbered(edges)
    BY <1>0, <2>2, <2>4, <2>5 DEF Numbered
  <2>7. new \in Builders /\ new.nodes = builder.nodes /\ new.edges = edges /\ new.counter = builder.counter + 1
    <3>1. new = [nodes |-> builder.nodes, edges |-> edges, counter |-> builder.counter + 1, setting |-> builder.setting]
      BY <1>0, <2>3 DEF Builders
    <3>2. builder.counter + 1 \in Int /\ builder.setting \in AllSettings
      BY <1>0 DEF Builders
    <3> QED BY <1>0, <2>5, <3>1, <3>2 DEF Builders
  <2> QED BY <1>0, <1>1, <1>2, <2>3, <2>5, <2>6, <2>7, BuilderGrows
<1>6. ASSUME NEW chain \in Chains, AddChain(chain) PROVE BuildersInv' /\ BuiltKept
  <2>0. chain \in Seq(BuilderNodes)
    BY ChainsAssumption
  <2>1. PICK more : more = ChainEdges(chain)
    OBVIOUS
  <2>2. more \in Seq(AnyEdges) /\ \A i \in 1..Len(more) : more[i].id = Len(builder.edges) + i - 1
    <3>1. CASE Len(chain) = 0
      <4>1. more = <<>>
        BY <2>1, <3>1 DEF ChainEdges
      <4> QED BY <4>1
    <3>2. CASE Len(chain) # 0
      <4>1. Len(chain) - 1 \in Nat
        BY <2>0, <3>2
      <4>2. more = [i \in 1..(Len(chain) - 1) |-> Edge(builder.counter + i - 1, chain[i], chain[i + 1])]
        BY <2>1 DEF ChainEdges
      <4>3. ASSUME NEW i \in 1..(Len(chain) - 1)
            PROVE  more[i] \in AnyEdges /\ more[i].id = Len(builder.edges) + i - 1
        <5>1. more[i] = Edge(builder.counter + i - 1, chain[i], chain[i + 1])
          BY <4>2
        <5>2. chain[i] \in BuilderNodes /\ chain[i + 1] \in BuilderNodes
          BY <2>0, <4>1
        <5> QED BY <1>0, <5>1, <5>2 DEF Edge, AnyEdges
      <4>4. more \in Seq(AnyEdges) /\ Len(more) = Len(chain) - 1
        BY <4>1, <4>2, <4>3
      <4> QED BY <4>3, <4>4
    <3> QED BY <3>1, <3>2
  <2>3. PICK nodes, edges : nodes = builder.nodes \o chain /\ edges = builder.edges \o more
    OBVIOUS
  <2>4. new = [builder EXCEPT !.nodes = nodes, !.edges = edges, !.counter = @ + Len(more)] /\ built' = built
    BY <1>2, <1>6, <2>1, <2>3 DEF AddChain
  <2>5. nodes \in Seq(BuilderNodes) /\ Starts(builder.nodes, nodes)
    BY <1>0, <2>0, <2>3 DEF Starts
  <2>6. edges \in Seq(AnyEdges) /\ Starts(builder.edges, edges) /\ Len(edges) = Len(builder.edges) + Len(more)
    BY <1>0, <2>2, <2>3 DEF Starts
  <2>7. Numbered(edges)
    <3> SUFFICES ASSUME NEW i \in 1..Len(edges) PROVE edges[i].id = i - 1
      BY DEF Numbered
    <3>1. CASE i <= Len(builder.edges)
      BY <1>0, <2>2, <2>3, <2>6, <3>1 DEF Numbered
    <3>2. CASE i > Len(builder.edges)
      <4>0. i \in Nat /\ Len(builder.edges) \in Nat /\ Len(more) \in Nat
        BY <1>0, <2>2, <2>6
      <4>3. i - Len(builder.edges) \in 1..Len(more)
        BY <2>6, <3>2, <4>0
      <4>1. PICK k \in 1..Len(more) : k = i - Len(builder.edges)
        BY <4>3
      <4>2. edges[i] = more[k]
        BY <1>0, <2>2, <2>3, <2>6, <3>2, <4>1
      <4> QED BY <1>0, <2>2, <4>1, <4>2
    <3> QED BY <1>0, <3>1, <3>2
  <2>8. new \in Builders /\ new.nodes = nodes /\ new.edges = edges /\ new.counter = builder.counter + Len(more)
    <3>1. new = [nodes |-> nodes, edges |-> edges, counter |-> builder.counter + Len(more), setting |-> builder.setting]
      BY <1>0, <2>4 DEF Builders
    <3>2. builder.counter \in Int /\ Len(more) \in Int /\ builder.setting \in AllSettings
      BY <1>0, <2>2 DEF Builders
    <3>3. builder.counter + Len(more) \in Int
      BY <3>2
    <3> QED BY <2>5, <2>6, <3>1, <3>2, <3>3 DEF Builders
  <2> QED BY <1>0, <1>2, <2>4, <2>5, <2>6, <2>7, <2>8, BuilderGrows
<1>7. ASSUME Build PROVE BuildersInv' /\ BuiltKept
  <2>1. PICK def : def = [nodes |-> builder.nodes, edges |-> builder.edges, setting |-> builder.setting]
    OBVIOUS
  <2>2. built' = Append(built, def) /\ builder' = builder /\ built \in Seq(BuiltRecords)
    BY <1>7, <2>1 DEF Build, BuildersInv
  <2>3. def \in BuiltRecords /\ def.nodes = builder.nodes /\ def.edges = builder.edges
    BY <1>0, <2>1 DEF Builders, BuiltRecords
  <2>4. /\ built' \in Seq(BuiltRecords) /\ Last(built') = def
        /\ \A k \in DOMAIN built : k \in DOMAIN built' /\ built'[k] = built[k]
        /\ \A k \in DOMAIN built' : k \in DOMAIN built \/ built'[k] = def
    BY <2>2, <2>3 DEF Last
  <2>5. ASSUME NEW k \in DOMAIN built
        PROVE  IsPrefix(built[k].nodes, def.nodes) /\ IsPrefix(built[k].edges, def.edges)
    <3>1. built[k] \in BuiltRecords /\ Starts(built[k].nodes, builder.nodes) /\ Starts(built[k].edges, builder.edges)
      BY <2>2 DEF BuildersInv
    <3>2. built[k].nodes \in Seq(BuilderNodes) /\ built[k].edges \in Seq(AnyEdges)
      BY <3>1 DEF BuiltRecords
    <3> QED BY <1>0, <2>3, <3>1, <3>2, StartsIsPrefix
  <2>6. BuiltKept
    BY <2>4, <2>5 DEF BuiltKept
  <2>7. \A k \in DOMAIN built' : Starts(built'[k].nodes, builder.nodes) /\ Starts(built'[k].edges, builder.edges)
    BY <1>1, <2>3, <2>4 DEF BuildersInv
  <2> QED BY <1>0, <2>2, <2>4, <2>6, <2>7 DEF BuildersInv
<1> QED BY <1>3, <1>4, <1>5, <1>6, <1>7 DEF BuilderNext

LEMMA WorkflowsHold == BuilderSpec => []EdgeIdsDistinct /\ BuiltStands
<1>1. BuilderInit => BuildersInv
  <2> SUFFICES ASSUME BuilderInit PROVE BuildersInv
    OBVIOUS
  <2>1. builder = [nodes |-> <<>>, edges |-> <<>>, counter |-> 0, setting |-> DefaultSetting] /\ built = <<>>
    BY DEF BuilderInit
  <2>2. builder \in Builders /\ builder.edges = <<>> /\ builder.counter = 0
    BY <2>1 DEF Builders, AllSettings
  <2> QED BY <2>1, <2>2 DEF BuildersInv, Numbered
<1>2. BuildersInv /\ [BuilderNext]_builderVars => BuildersInv' /\ [BuiltKept]_builderVars
  <2> SUFFICES ASSUME BuildersInv, [BuilderNext]_builderVars PROVE BuildersInv' /\ [BuiltKept]_builderVars
    OBVIOUS
  <2>1. CASE UNCHANGED builderVars
    BY <2>1 DEF builderVars, BuildersInv
  <2>2. CASE BuilderNext
    BY <2>2, BuilderStep
  <2> QED BY <2>1, <2>2
<1>3. BuildersInv => EdgeIdsDistinct
  <2> SUFFICES ASSUME BuildersInv, NEW k \in DOMAIN built, NEW i \in DOMAIN built[k].edges, NEW j \in DOMAIN built[k].edges,
                      built[k].edges[i].id = built[k].edges[j].id
               PROVE  i = j
    BY DEF EdgeIdsDistinct
  <2>1. built[k] \in BuiltRecords /\ Starts(built[k].edges, builder.edges) /\ Numbered(builder.edges)
    BY DEF BuildersInv
  <2>2. built[k].edges \in Seq(AnyEdges) /\ builder.edges \in Seq(AnyEdges)
    BY <2>1 DEF BuiltRecords, BuildersInv, Builders
  <2>3. ASSUME NEW n \in DOMAIN built[k].edges PROVE n \in Int /\ built[k].edges[n].id = n - 1
    <3>1. n \in 1..Len(built[k].edges) /\ Len(built[k].edges) \in Nat /\ Len(builder.edges) \in Nat
      BY <2>2
    <3>2. n \in 1..Len(builder.edges) /\ built[k].edges[n] = builder.edges[n]
      BY <2>1, <3>1 DEF Starts
    <3> QED BY <2>1, <3>1, <3>2 DEF Numbered
  <2> QED BY <2>3
<1> QED BY <1>1, <1>2, <1>3, PTL DEF BuilderSpec, BuiltStands, BuiltKept

-----------------------------------------------------------------------------
(* Registered node types *)

LEMMA NodesStay == NodeSpec => HandlersStay
<1>1. [NodeNext]_nodeVars => [nodeTypes \subseteq nodeTypes']_nodeVars
  BY DEF NodeNext, nodeVars, RegisterCategory, RegisterCustom, RunNode
<1> QED BY <1>1, PTL DEF NodeSpec, HandlersStay

-----------------------------------------------------------------------------
\* What is handed out stays (music-generator.ts, db.ts, workflow.ts, node-registry.ts): a completed
\* track, a settled transaction, a built workflow and a registered node type, for any of them.
THEOREM FinishedIsKept == GenSpec /\ TxSpec /\ BuilderSpec /\ NodeSpec => FinishedStays
BY JobsHold, TransactionsHold, WorkflowsHold, NodesStay, PTL DEF FinishedStays

-----------------------------------------------------------------------------
(* Recursion and induction over an interval *)

LEMMA LeastExists ==
  ASSUME NEW S \in SUBSET Nat, S # {}
  PROVE  \E k \in S : \A m \in S : k <= m
<1>1. PICK k \in S : \A m \in Nat : <<m, k>> \in OpToRel(<, Nat) => m \notin S
  BY NatLessThanWellFounded, WFMin
<1>2. \A m \in S : ~(m < k)
  BY <1>1 DEF OpToRel
<1> QED BY <1>2

LEMMA UpTo ==
  ASSUME NEW n \in Nat, NEW P, 0 \in P, \A i \in 1..n : i - 1 \in P => i \in P
  PROVE  0..n \subseteq P
<1> SUFFICES ASSUME (0..n) \ P # {} PROVE FALSE
  OBVIOUS
<1>1. PICK k \in (0..n) \ P : \A m \in (0..n) \ P : k <= m
  <2>1. (0..n) \ P \in SUBSET Nat
    OBVIOUS
  <2> QED BY <2>1, LeastExists
<1>2. k \in 1..n /\ k - 1 \in 0..n
  BY <1>1
<1>3. k - 1 \in P
  BY <1>1, <1>2
<1> QED BY <1>1, <1>2, <1>3

\* A value for each number, from the value for the number before.
Grows(n, S, base, step, out) ==
  out \in [0..n -> S] /\ out[0] = base /\ \A i \in 1..n : out[i] = step[i][out[i - 1]]

LEMMA StepByStep ==
  ASSUME NEW n \in Nat, NEW S, NEW base \in S, NEW step \in [1..n -> [S -> S]]
  PROVE  \E out : Grows(n, S, base, step, out)
<1> DEFINE P == {m \in 0..n : \E out : Grows(m, S, base, step, out)}
<1>1. 0 \in P
  <2>1. Grows(0, S, base, step, [i \in 0..0 |-> base])
    BY DEF Grows
  <2>2. 0 \in 0..n
    OBVIOUS
  <2> QED BY <2>1, <2>2
<1>2. ASSUME NEW m \in 1..n, m - 1 \in P PROVE m \in P
  <2>1. PICK old : Grows(m - 1, S, base, step, old)
    BY <1>2
  <2>2. old \in [0..(m - 1) -> S] /\ m - 1 \in 0..(m - 1)
    BY <2>1 DEF Grows
  <2>3. PICK last \in S : last = step[m][old[m - 1]]
    BY <2>2
  <2>4. PICK out : out = [i \in 0..m |-> IF i = m THEN last ELSE old[i]]
    OBVIOUS
  <2>5. out \in [0..m -> S] /\ out[m] = last /\ \A i \in 0..(m - 1) : out[i] = old[i]
    BY <2>2, <2>4
  <2>6. out[0] = base
    BY <2>1, <2>5 DEF Grows
  <2>7. ASSUME NEW i \in 1..m PROVE out[i] = step[i][out[i - 1]]
    <3>1. i - 1 \in 0..(m - 1) /\ out[i - 1] = old[i - 1]
      BY <2>5
    <3>2. CASE i = m
      BY <2>3, <2>5, <3>1, <3>2
    <3>3. CASE i # m
      BY <2>1, <2>5, <3>1, <3>3 DEF Grows
    <3> QED BY <3>2, <3>3
  <2>8. Grows(m, S, base, step, out)
    BY <2>5, <2>6, <2>7 DEF Grows
  <2>9. m \in 0..n
    OBVIOUS
  <2> QED BY <2>8, <2>9
<1>3. n \in P
  <2> HIDE DEF P
  <2>1. 0..n \subseteq P
    BY <1>1, <1>2, UpTo
  <2> QED BY <2>1
<1> QED BY <1>3

-----------------------------------------------------------------------------
(* Experiments *)

Holders(f)  == {u \in ExpUsers : f[u] # NoVariant}
With(f, v)  == {u \in ExpUsers : f[u] = v}

\* Who holds a variant was sampled, once, and shown it.
Sampling(f, shown, recorded, n) ==
  /\ f \in [ExpUsers -> Drawn \cup {NoVariant}] /\ IsFiniteSet(Holders(f)) /\ n = Cardinality(Holders(f))
  /\ shown \in [ExpVariants -> Nat] /\ recorded \in [ExpVariants -> Nat]
  /\ \A v \in ExpVariants : shown[v] = recorded[v] + Cardinality(With(f, v))

ExpInv == Sampling(assigned, impressions, recordedImpressions, sampled)

Sticks ==
  /\ \A u \in ExpUsers : assigned[u] # NoVariant => assigned'[u] = assigned[u]
  /\ expStatus = "completed" => expStatus' = "completed" /\ assigned' = assigned

LEMMA AssignStep ==
  ASSUME ExpInv, NEW u \in ExpUsers, NEW v \in Drawn, AssignVariant(u, v)
  PROVE  ExpInv' /\ Sticks
<1>1. /\ Sampling(assigned, impressions, recordedImpressions, sampled) /\ v \in ExpVariants /\ v # NoVariant
      /\ recordedImpressions' = recordedImpressions /\ expStatus # "completed"
  BY NoVariantAssumption DEF ExpInv, AssignVariant, Drawn, ExpVariants
<1>2. PICK f : f = [assigned EXCEPT ![u] = v]
  OBVIOUS
<1>3. /\ assigned' = f /\ sampled' = sampled + 1 /\ impressions' = [impressions EXCEPT ![v] = @ + 1] /\ assigned[u] = NoVariant
  BY <1>2 DEF AssignVariant
<1>4. f \in [ExpUsers -> Drawn \cup {NoVariant}] /\ f[u] = v /\ \A t \in ExpUsers \ {u} : f[t] = assigned[t]
  BY <1>1, <1>2 DEF Sampling
<1>5. Holders(f) = Holders(assigned) \cup {u} /\ u \notin Holders(assigned)
  BY <1>1, <1>3, <1>4 DEF Holders
<1>6. IsFiniteSet(Holders(assigned)) /\ sampled = Cardinality(Holders(assigned)) /\ sampled \in Nat
  BY <1>1, FS_CardinalityType DEF Sampling
<1>7. IsFiniteSet(Holders(f)) /\ sampled + 1 = Cardinality(Holders(f))
  BY <1>5, <1>6, FS_AddElement
<1>8. With(f, v) = With(assigned, v) \cup {u} /\ u \notin With(assigned, v) /\ With(assigned, v) \subseteq Holders(assigned)
  BY <1>1, <1>3, <1>4 DEF With, Holders
<1>9. IsFiniteSet(With(assigned, v)) /\ Cardinality(With(assigned, v)) \in Nat
  BY <1>6, <1>8, FS_Subset, FS_CardinalityType
<1>10. Cardinality(With(f, v)) = Cardinality(With(assigned, v)) + 1
  BY <1>8, <1>9, FS_AddElement
<1>11. \A w \in ExpVariants \ {v} : With(f, w) = With(assigned, w)
  BY <1>3, <1>4, NoVariantAssumption DEF With, ExpVariants
<1>12. /\ impressions \in [ExpVariants -> Nat] /\ recordedImpressions \in [ExpVariants -> Nat]
       /\ \A w \in ExpVariants : impressions[w] = recordedImpressions[w] + Cardinality(With(assigned, w))
  BY <1>1 DEF Sampling
<1>13. impressions' \in [ExpVariants -> Nat] /\ impressions'[v] = impressions[v] + 1
       /\ \A w \in ExpVariants \ {v} : impressions'[w] = impressions[w]
  BY <1>1, <1>3, <1>12
<1>14. impressions[v] \in Nat /\ recordedImpressions[v] \in Nat /\ impressions[v] = recordedImpressions[v] + Cardinality(With(assigned, v))
  BY <1>1, <1>12
<1>15. impressions'[v] = recordedImpressions[v] + Cardinality(With(f, v))
  BY <1>9, <1>10, <1>13, <1>14
<1>16. \A w \in ExpVariants : impressions'[w] = recordedImpressions[w] + Cardinality(With(f, w))
  BY <1>11, <1>12, <1>13, <1>15
<1>17. Sampling(f, impressions', recordedImpressions, sampled + 1)
  BY <1>4, <1>7, <1>12, <1>13, <1>16 DEF Sampling
<1> QED BY <1>1, <1>3, <1>4, <1>17 DEF ExpInv, Sticks

LEMMA ImpressionStep ==
  ASSUME ExpInv, NEW v \in ExpVariants, RecordImpression(v)
  PROVE  ExpInv'
<1>1. /\ impressions \in [ExpVariants -> Nat] /\ recordedImpressions \in [ExpVariants -> Nat]
      /\ \A w \in ExpVariants : impressions[w] = recordedImpressions[w] + Cardinality(With(assigned, w))
  BY DEF ExpInv, Sampling
<1>2. /\ impressions' = [impressions EXCEPT ![v] = @ + 1] /\ recordedImpressions' = [recordedImpressions EXCEPT ![v] = @ + 1]
      /\ assigned' = assigned /\ sampled' = sampled
  BY DEF RecordImpression
<1>3. IsFiniteSet(With(assigned, v))
  <2>1. With(assigned, v) \subseteq Holders(assigned)
    BY NoVariantAssumption DEF With, Holders, ExpVariants
  <2> QED BY <2>1, FS_Subset DEF ExpInv, Sampling
<1>4. PICK n \in Nat : n = Cardinality(With(assigned, v))
  BY <1>3, FS_CardinalityType
<1>5. /\ impressions' \in [ExpVariants -> Nat] /\ recordedImpressions' \in [ExpVariants -> Nat]
      /\ \A w \in ExpVariants \ {v} : impressions'[w] = impressions[w] /\ recordedImpressions'[w] = recordedImpressions[w]
      /\ impressions'[v] = impressions[v] + 1 /\ recordedImpressions'[v] = recordedImpressions[v] + 1
  BY <1>1, <1>2
<1>6. impressions[v] \in Nat /\ recordedImpressions[v] \in Nat /\ impressions[v] = recordedImpressions[v] + n
  BY <1>1, <1>4
<1>7. impressions'[v] = recordedImpressions'[v] + n
  BY <1>5, <1>6
<1>8. \A w \in ExpVariants : impressions'[w] = recordedImpressions'[w] + Cardinality(With(assigned, w))
  BY <1>1, <1>4, <1>5, <1>7
<1>9. assigned \in [ExpUsers -> Drawn \cup {NoVariant}] /\ IsFiniteSet(Holders(assigned)) /\ sampled = Cardinality(Holders(assigned))
  BY DEF ExpInv, Sampling
<1>10. Sampling(assigned, impressions', recordedImpressions', sampled)
  BY <1>5, <1>8, <1>9 DEF Sampling
<1> QED BY <1>2, <1>10 DEF ExpInv

\* Users stay where the weights put them and are counted once (ab-testing.ts), for any users and weights.
THEOREM ExperimentsHold == ExpSpec => ExperimentsCount
<1>1. ExpInit => ExpInv
  <2> SUFFICES ASSUME ExpInit PROVE ExpInv
    OBVIOUS
  <2>1. Holders(assigned) = {} /\ \A v \in ExpVariants : With(assigned, v) = {}
    BY NoVariantAssumption DEF ExpInit, Holders, With, ExpVariants
  <2>2. IsFiniteSet(Holders(assigned)) /\ Cardinality(Holders(assigned)) = 0 /\ \A v \in ExpVariants : Cardinality(With(assigned, v)) = 0
    BY <2>1, FS_EmptySet
  <2>3. impressions = Zeros /\ recordedImpressions = Zeros /\ sampled = 0 /\ assigned \in [ExpUsers -> Drawn \cup {NoVariant}]
    BY DEF ExpInit
  <2>4. Zeros \in [ExpVariants -> Nat] /\ \A v \in ExpVariants : Zeros[v] = 0
    BY DEF Zeros
  <2> QED BY <2>2, <2>3, <2>4 DEF ExpInv, Sampling
<1>2. ExpInv /\ [ExpNext]_expVars => ExpInv' /\ [Sticks]_expVars
  <2> SUFFICES ASSUME ExpInv, [ExpNext]_expVars PROVE ExpInv' /\ Sticks
    OBVIOUS
  <2>1. CASE UNCHANGED <<assigned, impressions, sampled, recordedImpressions>> /\ (expStatus = "completed" => expStatus' = "completed")
    BY <2>1 DEF ExpInv, Sticks
  <2>2. CASE UNCHANGED expVars \/ CreateExperiment \/ StartExperiment \/ StopExperiment
    BY <2>1, <2>2 DEF expVars, CreateExperiment, StartExperiment, StopExperiment
  <2>3. ASSUME NEW v \in ExpVariants, RecordConversion(v) PROVE ExpInv' /\ Sticks
    BY <2>1, <2>3 DEF RecordConversion
  <2>4. ASSUME NEW v \in ExpVariants, RecordImpression(v) PROVE ExpInv' /\ Sticks
    BY <2>4, ImpressionStep DEF RecordImpression, Sticks
  <2> QED BY <2>2, <2>3, <2>4, AssignStep DEF ExpNext
<1>3. ExpInv => SampleCountsUsersOnce
  BY DEF ExpInv, Sampling, SampleCountsUsersOnce, Holders, With
<1>4. ExpInv => WeightlessNotAssigned
  <2> SUFFICES ASSUME ExpInv, NEW u \in ExpUsers, assigned[u] \in ExpVariants \ {1}, ExpWeights[assigned[u]] = 0 PROVE FALSE
    BY DEF WeightlessNotAssigned
  <2>1. assigned[u] \in Drawn
    BY NoVariantAssumption DEF ExpInv, Sampling, ExpVariants
  <2> QED BY <2>1 DEF Drawn
<1> QED BY <1>1, <1>2, <1>3, <1>4, PTL DEF ExpSpec, ExperimentsCount, AssignmentsStick, Sticks

-----------------------------------------------------------------------------
(* Scopes *)

Rows(keys) == [Contexts -> [keys -> Contents \cup {Absent}]]

\* Every context that has been created has one above it; the root is above itself.
ScopeInv ==
  /\ ancestor \in [Contexts -> Contexts \cup {Absent}] /\ \A c \in Created : ancestor[c] \in Created
  /\ locals \in Rows(Variables) /\ outputs \in Rows(ContextNodes)

Climbs(c, up) == up = [i \in Levels |-> IF i = 0 THEN c ELSE ancestor[up[i - 1]]]

LEMMA LevelsAre == Cardinality(Contexts) \in Nat /\ Levels = 0..Cardinality(Contexts) /\ 0 \in Levels
BY ContextAssumption, FS_CardinalityType DEF Levels

LEMMA AboveIs ==
  ASSUME ScopeInv, NEW c \in Created
  PROVE  Above(c, 0) = c /\ \A k \in Levels : Above(c, k) \in Created
<1>1. PICK n \in Nat : n = Cardinality(Contexts) /\ Levels = 0..n
  BY LevelsAre
<1>2. PICK step : step = [i \in 1..n |-> [d \in Created |-> ancestor[d]]]
  OBVIOUS
<1>3. step \in [1..n -> [Created -> Created]]
  BY <1>2 DEF ScopeInv
<1>4. PICK out \in [0..n -> Created] : out[0] = c /\ \A i \in 1..n : out[i] = step[i][out[i - 1]]
  <2>1. PICK T : T = Created
    OBVIOUS
  <2>2. c \in T /\ step \in [1..n -> [T -> T]] /\ n \in Nat
    BY <1>3, <2>1
  <2>3. \E out : Grows(n, T, c, step, out)
    BY <2>2, StepByStep
  <2> QED BY <2>1, <2>3 DEF Grows
<1>5. \A i \in 0..n : out[i] = IF i = 0 THEN c ELSE ancestor[out[i - 1]]
  <2> SUFFICES ASSUME NEW i \in 1..n PROVE out[i] = ancestor[out[i - 1]]
    BY <1>4
  <2>1. i - 1 \in 0..n /\ out[i - 1] \in Created
    OBVIOUS
  <2> QED BY <1>2, <1>4, <2>1
<1>6. Climbs(c, out)
  BY <1>1, <1>5 DEF Climbs
<1>7. PICK up : up = CHOOSE u : Climbs(c, u)
  OBVIOUS
<1>8. Climbs(c, up)
  BY <1>6, <1>7
<1>9. \A k : Above(c, k) = up[k]
  BY <1>7 DEF Above, Climbs, Levels
<1>10. up[0] = c /\ \A i \in 1..n : up[i] = ancestor[up[i - 1]]
  BY <1>1, <1>8 DEF Climbs
<1>11. \A k \in 0..n : up[k] \in Created
  <2>1. PICK P : P = {k \in 0..n : up[k] \in Created}
    OBVIOUS
  <2>2. 0 \in P /\ \A i \in 1..n : i - 1 \in P => i \in P
    BY <1>10, <2>1 DEF ScopeInv
  <2>3. 0..n \subseteq P
    BY <2>2, UpTo
  <2> QED BY <2>1, <2>3
<1> QED BY <1>1, <1>9, <1>10, <1>11

Having(own, c, x) == {k \in Levels : own[Above(c, k)][x] # Absent}
Nearest(S)        == CHOOSE k \in S : \A j \in S : k <= j

LEMMA NearestIs ==
  ASSUME NEW own, NEW c, NEW x, Having(own, c, x) # {}
  PROVE  /\ Nearest(Having(own, c, x)) \in Having(own, c, x) /\ \A j \in Having(own, c, x) : Nearest(Having(own, c, x)) <= j
         /\ Seen(own, c, x) = own[Above(c, Nearest(Having(own, c, x)))][x] /\ Seen(own, c, x) # Absent
<1>1. PICK S \in SUBSET Nat : S = Having(own, c, x)
  <2>1. Having(own, c, x) \in SUBSET Nat
    BY LevelsAre DEF Having
  <2> QED BY <2>1
<1>2. \E k \in S : \A j \in S : k <= j
  BY <1>1, LeastExists
<1>3. Nearest(S) \in S /\ \A j \in S : Nearest(S) <= j
  BY <1>2 DEF Nearest
<1>4. Seen(own, c, x) = own[Above(c, Nearest(S))][x]
  BY <1>1 DEF Seen, Having, Nearest
<1>5. own[Above(c, Nearest(S))][x] # Absent
  BY <1>1, <1>3 DEF Having
<1> QED BY <1>1, <1>3, <1>4, <1>5

LEMMA SeenIsHad ==
  ASSUME NEW own, NEW c, NEW x
  PROVE  Seen(own, c, x) # Absent <=> \E k \in Levels : own[Above(c, k)][x] # Absent
<1>1. CASE Having(own, c, x) = {}
  BY <1>1 DEF Seen, Having
<1>2. CASE Having(own, c, x) # {}
  <2>1. \E k \in Levels : own[Above(c, k)][x] # Absent
    BY <1>2 DEF Having
  <2> QED BY <1>2, <2>1, NearestIs
<1> QED BY <1>1, <1>2

LEMMA ScopeStep ==
  ASSUME ScopeInv, ContextNext
  PROVE  ScopeInv'
<1>1. ASSUME NEW p \in Contexts, NEW c \in Contexts, NEW x \in Variables, NEW value \in Contents \cup {Absent},
             CreateChild(p, c, x, value)
      PROVE  ScopeInv'
  <2>1. p \in Created /\ p \in Contexts /\ p # Absent /\ c # p
    BY <1>1, ContextAssumption DEF CreateChild, Created
  <2>2. /\ ancestor' \in [Contexts -> Contexts \cup {Absent}] /\ ancestor'[c] = p
        /\ \A d \in Contexts \ {c} : ancestor'[d] = ancestor[d]
    BY <1>1 DEF CreateChild, ScopeInv
  <2>3. \A d \in Contexts : d \in Created' <=> d \in Created \/ d = c
    BY <1>1, <2>1, <2>2 DEF Created, CreateChild
  <2>4. \A d \in Created' : ancestor'[d] \in Created'
    BY <2>1, <2>2, <2>3 DEF ScopeInv, Created
  <2> QED BY <1>1, <2>2, <2>4 DEF CreateChild, ScopeInv, Rows
<1>2. ASSUME ancestor' = ancestor, locals' \in Rows(Variables), outputs' \in Rows(ContextNodes) PROVE ScopeInv'
  BY <1>2 DEF ScopeInv, Created
<1>3. ASSUME NEW c \in Contexts, NEW x \in Variables, NEW value \in Contents, SetVariable(c, x, value) PROVE ScopeInv'
  <2>1. locals' \in Rows(Variables)
    BY <1>3 DEF SetVariable, ScopeInv, Rows
  <2> QED BY <1>2, <1>3, <2>1 DEF SetVariable, ScopeInv
<1>4. ASSUME NEW c \in Contexts, NEW n \in ContextNodes, NEW value \in Contents, SetNodeOutput(c, n, value) PROVE ScopeInv'
  <2>1. outputs' \in Rows(ContextNodes)
    BY <1>4 DEF SetNodeOutput, ScopeInv, Rows
  <2> QED BY <1>2, <1>4, <2>1 DEF SetNodeOutput, ScopeInv
<1>5. ASSUME NEW p \in Contexts, NEW c \in Contexts, MergeChild(p, c) PROVE ScopeInv'
  <2>1. outputs' \in Rows(ContextNodes)
    BY <1>5 DEF MergeChild, ScopeInv, Rows
  <2> QED BY <1>2, <1>5, <2>1 DEF MergeChild, ScopeInv
<1> QED BY <1>1, <1>3, <1>4, <1>5 DEF ContextNext

Stays ==
  \A c \in Created, n \in ContextNodes : Seen(outputs, c, n) # Absent => Seen(outputs', c, n) # Absent

LEMMA OutputsStayStep ==
  ASSUME ScopeInv, ContextNext
  PROVE  Stays
<1>1. ASSUME NEW d \in Contexts, NEW n \in ContextNodes, outputs[d][n] # Absent PROVE outputs'[d][n] # Absent
  <2>1. ASSUME NEW c \in Contexts, NEW m \in ContextNodes, NEW value \in Contents, SetNodeOutput(c, m, value)
        PROVE  outputs'[d][n] # Absent
    <3>1. value # Absent /\ outputs' = [outputs EXCEPT ![c][m] = value]
      BY <2>1, ContextAssumption DEF SetNodeOutput
    <3> QED BY <1>1, <3>1 DEF ScopeInv, Rows
  <2>2. ASSUME NEW p \in Contexts, NEW c \in Contexts, MergeChild(p, c) PROVE outputs'[d][n] # Absent
    <3>1. outputs' = [outputs EXCEPT ![p] = [m \in ContextNodes |-> IF outputs[c][m] # Absent THEN outputs[c][m] ELSE outputs[p][m]]]
      BY <2>2 DEF MergeChild, ScopeInv
    <3> QED BY <1>1, <3>1 DEF ScopeInv, Rows
  <2>3. outputs' = outputs \/ (\E c \in Contexts, m \in ContextNodes, value \in Contents : SetNodeOutput(c, m, value))
        \/ (\E p, c \in Contexts : MergeChild(p, c))
    BY DEF ContextNext, CreateChild, SetVariable
  <2> QED BY <1>1, <2>1, <2>2, <2>3
<1> SUFFICES ASSUME NEW c \in Created, NEW n \in ContextNodes, Seen(outputs, c, n) # Absent PROVE Seen(outputs', c, n) # Absent
  BY DEF Stays
<1>2. PICK k \in Levels : outputs[Above(c, k)][n] # Absent
  BY SeenIsHad
<1>3. Above(c, k) \in Contexts
  BY AboveIs DEF Created
<1> QED BY <1>1, <1>2, <1>3, SeenIsHad

Isolated ==
  \A d \in Created : writer' # Absent /\ writer' \notin Scopes(d)
    => \A x \in Variables : Seen(locals', d, x) = Seen(locals, d, x)

LEMMA IsolatedStep ==
  ASSUME ScopeInv, ContextNext
  PROVE  Isolated
<1> SUFFICES ASSUME NEW d \in Created, writer' # Absent, writer' \notin Scopes(d), NEW x \in Variables
             PROVE  Seen(locals', d, x) = Seen(locals, d, x)
  BY DEF Isolated
<1>1. PICK c \in Contexts, y \in Variables, value \in Contents : SetVariable(c, y, value)
  BY DEF ContextNext, CreateChild, SetNodeOutput, MergeChild
<1>2. \A e \in Contexts \ {c} : locals'[e] = locals[e]
  BY <1>1 DEF SetVariable, ScopeInv, Rows
<1>3. \A k \in Levels : Above(d, k) \in Contexts \ {c}
  BY <1>1, AboveIs DEF SetVariable, Scopes, Created
<1>4. \A k \in Levels : locals'[Above(d, k)][x] = locals[Above(d, k)][x]
  BY <1>2, <1>3
<1>5. Having(locals', d, x) = Having(locals, d, x)
  BY <1>4 DEF Having
<1>6. CASE Having(locals, d, x) = {}
  BY <1>5, <1>6 DEF Seen, Having
<1>7. CASE Having(locals, d, x) # {}
  <2>1. PICK k : k = Nearest(Having(locals, d, x))
    OBVIOUS
  <2>2. k \in Levels /\ Seen(locals, d, x) = locals[Above(d, k)][x]
    BY <1>7, <2>1, NearestIs DEF Having
  <2>3. Seen(locals', d, x) = locals'[Above(d, k)][x]
    BY <1>5, <1>7, <2>1, NearestIs
  <2> QED BY <1>4, <2>2, <2>3
<1> QED BY <1>6, <1>7

\* Contexts do not disturb each other (context.ts), for any tree of contexts, variables and nodes.
THEOREM ScopesHold == ContextSpec => ScopesKept
<1>1. ContextInit => ScopeInv
  BY ContextAssumption DEF ContextInit, ScopeInv, Created, Rows
<1>2. ScopeInv /\ [ContextNext]_contextVars => ScopeInv' /\ [Stays]_contextVars /\ [Isolated]_contextVars
  <2>1. ScopeInv /\ UNCHANGED contextVars => ScopeInv'
    BY DEF ScopeInv, contextVars, Created
  <2> QED BY <2>1, ScopeStep, OutputsStayStep, IsolatedStep
<1>3. ScopeInv => OwnWritesRead
  <2> SUFFICES ASSUME ScopeInv, NEW c \in Created, NEW x \in Variables, locals[c][x] # Absent
               PROVE  Seen(locals, c, x) = locals[c][x]
    BY DEF OwnWritesRead
  <2>1. Above(c, 0) = c /\ 0 \in Levels
    BY AboveIs, LevelsAre
  <2>2. 0 \in Having(locals, c, x)
    BY <2>1 DEF Having
  <2>3. PICK k : k = Nearest(Having(locals, c, x))
    OBVIOUS
  <2>4. k \in Having(locals, c, x) /\ k <= 0 /\ Seen(locals, c, x) = locals[Above(c, k)][x]
    BY <2>2, <2>3, NearestIs
  <2>5. k = 0
    BY <2>4, LevelsAre DEF Having
  <2> QED BY <2>1, <2>4, <2>5
<1> QED BY <1>1, <1>2, <1>3, PTL DEF ContextSpec, ScopesKept, WritesStayBelow, OutputsStay, Stays, Isolated

-----------------------------------------------------------------------------
(* Policies *)

Sorted(s)      == \A i, j \in DOMAIN s : i < j => Precedes(s[i], s[j])
IdsDistinct(s) == \A i, j \in DOMAIN s : s[i].id = s[j].id => i = j

PolicyInv == rules \in Seq(Rules) /\ Sorted(rules) /\ IdsDistinct(rules)

LEMMA AddRuleStep ==
  ASSUME PolicyInv, NEW rule \in Rules, AddRule(rule)
  PROVE  PolicyInv'
<1>1. PICK all : all = Append(rules, rule)
  OBVIOUS
<1>2. PICK n \in Nat : n = Len(rules) + 1 /\ DOMAIN all = 1..n /\ all \in Seq(Rules) /\ Len(all) = n
  BY <1>1 DEF PolicyInv
<1>3. IdsDistinct(all)
  <2> SUFFICES ASSUME NEW i \in DOMAIN all, NEW j \in DOMAIN all, i # j PROVE all[i].id # all[j].id
    BY DEF IdsDistinct
  <2>1. all[n] = rule /\ \A k \in 1..n : k # n => k \in DOMAIN rules /\ all[k] = rules[k]
    BY <1>1, <1>2 DEF PolicyInv
  <2>2. \A k \in DOMAIN rules : rules[k].id # rule.id
    BY DEF AddRule
  <2> QED BY <1>2, <2>1, <2>2 DEF PolicyInv, IdsDistinct
<1>4. PICK order \in Bijection(1..n, 1..n) :
        /\ \A i, j \in 1..n : i < j => Precedes(all[order[i]], all[order[j]])
        /\ rules' = [i \in 1..n |-> all[order[i]]]
  BY <1>1, <1>2 DEF AddRule
<1>5. order \in [1..n -> 1..n] /\ \A i, j \in 1..n : order[i] = order[j] => i = j
  BY <1>4 DEF Bijection, Injection, IsInjective
<1>6. \A i \in 1..n : all[order[i]] \in Rules
  BY <1>2, <1>5
<1>7. rules' \in Seq(Rules) /\ DOMAIN rules' = 1..n
  BY <1>4, <1>6
<1>8. Sorted(rules')
  BY <1>4, <1>7 DEF Sorted
<1>9. IdsDistinct(rules')
  BY <1>2, <1>3, <1>4, <1>5, <1>7 DEF IdsDistinct
<1> QED BY <1>7, <1>8, <1>9 DEF PolicyInv

LEMMA RemoveRuleStep ==
  ASSUME PolicyInv, NEW id, RemoveRule(id)
  PROVE  PolicyInv'
<1>1. PICK i \in DOMAIN rules : rules' = RemoveAt(rules, i)
  BY DEF RemoveRule
<1>2. PICK n \in Nat : n = Len(rules) /\ rules \in Seq(Rules) /\ i \in 1..n
  BY DEF PolicyInv
<1>3. PICK before : before = SubSeq(rules, 1, i - 1)
  OBVIOUS
<1>4. PICK after : after = SubSeq(rules, i + 1, n)
  OBVIOUS
<1>5. /\ before \in Seq(Rules) /\ Len(before) = i - 1 /\ \A k \in 1..(i - 1) : before[k] = rules[k]
      /\ after \in Seq(Rules) /\ Len(after) = n - i /\ \A k \in 1..(n - i) : after[k] = rules[i + k]
  <2>1. i - 1 \in Nat /\ n - i \in Nat /\ i + 1 \in Nat /\ i + (n - i) = n
    BY <1>2
  <2>2. before \in Seq(Rules) /\ Len(before) = i - 1 /\ \A k \in 1..(i - 1) : before[k] = rules[k]
    BY <1>2, <1>3, <2>1, SMTT(30)
  <2>3. after \in Seq(Rules)
    BY <1>2, <1>4, <2>1
  <2>4. Len(after) = n - i
    BY <1>2, <1>4, <2>1
  <2>5. \A k \in 1..(n - i) : after[k] = rules[i + k]
    BY <1>2, <1>4, <2>1, SMTT(30)
  <2> QED BY <2>2, <2>3, <2>4, <2>5
<1>6. PICK new : new = rules' /\ new = before \o after
  BY <1>1, <1>2, <1>3, <1>4 DEF RemoveAt
<1>7. new \in Seq(Rules) /\ DOMAIN new = 1..(n - 1) /\ \A k \in 1..(n - 1) : new[k] = rules[IF k < i THEN k ELSE k + 1]
  <2>1. new \in Seq(Rules) /\ Len(new) = n - 1
    BY <1>2, <1>5, <1>6
  <2>2. ASSUME NEW k \in 1..(n - 1) PROVE new[k] = rules[IF k < i THEN k ELSE k + 1]
    <3>1. CASE k < i
      BY <1>2, <1>5, <1>6, <3>1
    <3>2. CASE ~(k < i)
      <4>1. new[k] = after[k - (i - 1)]
        BY <1>2, <1>5, <1>6, <3>2, SMTT(30)
      <4>2. PICK m \in 1..(n - i) : m = k - (i - 1) /\ i + m = k + 1
        <5>1. k - (i - 1) \in 1..(n - i) /\ i + (k - (i - 1)) = k + 1
          BY <1>2, <3>2
        <5> QED BY <5>1
      <4>3. after[m] = rules[i + m]
        BY <1>5
      <4> QED BY <3>2, <4>1, <4>2, <4>3
    <3> QED BY <3>1, <3>2
  <2> QED BY <2>1, <2>2
<1>8. Sorted(new)
  <2> SUFFICES ASSUME NEW j \in 1..(n - 1), NEW k \in 1..(n - 1), j < k PROVE Precedes(new[j], new[k])
    BY <1>7 DEF Sorted
  <2>1. PICK p \in 1..n, q \in 1..n : p = (IF j < i THEN j ELSE j + 1) /\ q = (IF k < i THEN k ELSE k + 1) /\ p < q
    BY <1>2
  <2>2. new[j] = rules[p] /\ new[k] = rules[q]
    BY <1>7, <2>1
  <2> QED BY <1>2, <2>1, <2>2 DEF PolicyInv, Sorted
<1>9. IdsDistinct(new)
  <2> SUFFICES ASSUME NEW j \in 1..(n - 1), NEW k \in 1..(n - 1), new[j].id = new[k].id PROVE j = k
    BY <1>7 DEF IdsDistinct
  <2>1. PICK p \in 1..n, q \in 1..n : p = (IF j < i THEN j ELSE j + 1) /\ q = (IF k < i THEN k ELSE k + 1)
    BY <1>2
  <2>2. new[j] = rules[p] /\ new[k] = rules[q]
    BY <1>7, <2>1
  <2>3. p = q
    BY <1>2, <2>2 DEF PolicyInv, IdsDistinct
  <2> QED BY <1>2, <2>1, <2>3
<1> QED BY <1>6, <1>7, <1>8, <1>9 DEF PolicyInv

First(S) == CHOOSE i \in S : \A j \in S : i <= j

LEMMA FirstMatching ==
  ASSUME PolicyInv, NEW request, Matching(request) # {}
  PROVE  First(Matching(request)) \in Matching(request) /\ \A j \in Matching(request) : First(Matching(request)) <= j
<1>1. PICK S \in SUBSET Nat : S = Matching(request)
  <2>1. Matching(request) \in SUBSET Nat
    BY DEF Matching, PolicyInv
  <2> QED BY <2>1
<1>2. \E i \in S : \A j \in S : i <= j
  BY <1>1, LeastExists
<1> QED BY <1>1, <1>2 DEF First

LEMMA DecisionIs ==
  ASSUME NEW request
  PROVE  /\ Matching(request) = {} =>
              Decision(request).effect = DefaultEffect /\ Decision(request).trace = [k \in 1..Len(rules) |-> rules[k].id]
         /\ Matching(request) # {} =>
              LET i == First(Matching(request)) IN
              /\ Decision(request).effect = rules[i].effect /\ Decision(request).by = rules[i].id
              /\ Decision(request).trace = [k \in 1..i |-> rules[k].id]
BY DEF Decision, First

LEMMA DenialsHold ==
  ASSUME PolicyInv
  PROVE  DenialsWin
<1> SUFFICES ASSUME NEW request \in AccessRequests
             PROVE  LET matching == {rules[i] : i \in Matching(request)}
                        highest  == {r \in matching : \A q \in matching : r.priority >= q.priority}
                    IN Decision(request).effect =
                         IF matching = {} THEN DefaultEffect
                         ELSE IF \E r \in highest : r.effect = "deny" THEN "deny" ELSE "allow"
  BY DEF DenialsWin
<1> DEFINE matching == {rules[i] : i \in Matching(request)}
           highest  == {r \in matching : \A q \in matching : r.priority >= q.priority}
<1>1. CASE Matching(request) = {}
  BY <1>1, DecisionIs
<1>2. CASE Matching(request) # {}
  <2>1. PICK i \in Matching(request) : i = First(Matching(request)) /\ \A j \in Matching(request) : i <= j
    BY <1>2, FirstMatching
  <2>2. Decision(request).effect = rules[i].effect
    BY <1>2, <2>1, DecisionIs
  <2>3. \A j \in Matching(request) : j \in DOMAIN rules /\ j \in Nat /\ rules[j] \in Rules
    BY DEF Matching, PolicyInv
  <2>4. PICK r \in Rules : r = rules[i] /\ r \in matching
    BY <2>1, <2>3
  <2>5. \A q \in matching : q \in Rules /\ (q = r \/ Precedes(r, q))
    <3> SUFFICES ASSUME NEW j \in Matching(request) PROVE rules[j] \in Rules /\ (rules[j] = r \/ Precedes(r, rules[j]))
      OBVIOUS
    <3>1. j = i \/ i < j
      BY <2>1, <2>3
    <3> QED BY <2>1, <2>3, <2>4, <3>1 DEF PolicyInv, Sorted
  <2>6. \A q \in Rules : q.priority \in Int /\ q.effect \in {"allow", "deny"}
    BY RulesAssumption
  <2>7. \A q \in matching : r.priority >= q.priority
    BY <2>4, <2>5, <2>6 DEF Precedes
  <2>8. r \in highest
    BY <2>4, <2>7
  <2>9. ASSUME NEW q \in highest, q.effect = "deny" PROVE r.effect = "deny"
    <3>1. q \in matching /\ q.priority >= r.priority
      BY <2>4, <2>9
    <3>2. CASE Precedes(r, q)
      <4>1. ~(r.priority > q.priority)
        BY <2>4, <2>5, <2>6, <3>1
      <4> QED BY <2>9, <3>2, <4>1 DEF Precedes
    <3> QED BY <2>5, <2>9, <3>1, <3>2
  <2>10. (\E q \in highest : q.effect = "deny") <=> r.effect = "deny"
    BY <2>8, <2>9
  <2>11. r.effect \in {"allow", "deny"} /\ matching # {}
    BY <2>4, <2>6
  <2> QED BY <2>2, <2>4, <2>10, <2>11
<1> QED BY <1>1, <1>2

LEMMA TraceHolds ==
  ASSUME PolicyInv
  PROVE  TraceExplains
<1>1. PICK n \in Nat : n = Len(rules) /\ DOMAIN rules = 1..n
  BY DEF PolicyInv
<1> SUFFICES ASSUME NEW request \in AccessRequests, NEW p \in 1..n
             PROVE  LET d == Decision(request)
                        InTrace(r) == \E k \in DOMAIN d.trace : d.trace[k] = r.id
                    IN /\ InTrace(rules[p]) /\ request \in rules[p].matches => rules[p].id = d.by
                       /\ ~InTrace(rules[p]) => \E decider \in {rules[i] : i \in 1..n} :
                                                  decider.id = d.by /\ Precedes(decider, rules[p])
  BY <1>1 DEF TraceExplains
<1>2. PICK trace : trace = Decision(request).trace
  OBVIOUS
<1>3. CASE Matching(request) = {}
  <2>1. trace = [k \in 1..n |-> rules[k].id]
    BY <1>1, <1>2, <1>3, DecisionIs
  <2>2. p \in DOMAIN trace /\ trace[p] = rules[p].id
    BY <2>1
  <2>3. request \notin rules[p].matches
    BY <1>1, <1>3 DEF Matching
  <2> QED BY <1>2, <2>2, <2>3
<1>4. CASE Matching(request) # {}
  <2>1. PICK i \in Matching(request) : i = First(Matching(request)) /\ \A j \in Matching(request) : i <= j
    BY <1>4, FirstMatching
  <2>2. i \in 1..n /\ Decision(request).by = rules[i].id /\ trace = [k \in 1..i |-> rules[k].id]
    BY <1>1, <1>2, <1>4, <2>1, DecisionIs DEF Matching
  <2>3. DOMAIN trace = 1..i /\ \A k \in 1..i : k \in 1..n /\ trace[k] = rules[k].id
    BY <2>2
  <2>4. (\E k \in DOMAIN trace : trace[k] = rules[p].id) <=> p <= i
    <3>1. ASSUME NEW k \in 1..i, trace[k] = rules[p].id PROVE p <= i
      <4>1. k = p
        BY <1>1, <2>3, <3>1 DEF PolicyInv, IdsDistinct
      <4> QED BY <2>2, <4>1
    <3>2. ASSUME p <= i PROVE p \in 1..i
      BY <2>2, <3>2
    <3> QED BY <2>3, <3>1, <3>2
  <2>5. p <= i /\ request \in rules[p].matches => p = i
    <3>1. request \in rules[p].matches => p \in Matching(request)
      BY <1>1 DEF Matching
    <3> QED BY <2>1, <2>2, <3>1
  <2>6. ~(p <= i) => Precedes(rules[i], rules[p])
    BY <1>1, <2>2 DEF PolicyInv, Sorted
  <2> QED BY <1>2, <2>2, <2>4, <2>5, <2>6
<1> QED BY <1>3, <1>4

\* Decisions follow the rules in any order they come and go (policy-engine.ts), for any rules and requests.
THEOREM DecisionsHold == PolicySpec => []DecisionsExplained
<1>1. PolicyInit => PolicyInv
  BY DEF PolicyInit, PolicyInv, Sorted, IdsDistinct
<1>2. PolicyInv /\ [PolicyNext]_rules => PolicyInv'
  <2> SUFFICES ASSUME PolicyInv, [PolicyNext]_rules PROVE PolicyInv'
    OBVIOUS
  <2>1. CASE rules' = rules
    BY <2>1 DEF PolicyInv, Sorted, IdsDistinct
  <2> QED BY <2>1, AddRuleStep, RemoveRuleStep DEF PolicyNext
<1>3. PolicyInv => DecisionsExplained
  BY DenialsHold, TraceHolds DEF DecisionsExplained
<1> QED BY <1>1, <1>2, <1>3, PTL DEF PolicySpec

-----------------------------------------------------------------------------
(* Shares *)

Adds(d, sum) == sum = [i \in 0..Len(d.weights) |-> IF i = 0 THEN 0 ELSE sum[i - 1] + d.weights[i]]

LEMMA CumulativeIs ==
  ASSUME NEW d, d.weights \in Seq(Int)
  PROVE  /\ Cumulative(d) \in [0..Len(d.weights) -> Int] /\ Cumulative(d)[0] = 0
         /\ \A i \in 1..Len(d.weights) : Cumulative(d)[i] = Cumulative(d)[i - 1] + d.weights[i]
<1>1. PICK n \in Nat : n = Len(d.weights)
  OBVIOUS
<1>2. \A i \in 1..n : d.weights[i] \in Int
  BY <1>1
<1>3. PICK step : step = [i \in 1..n |-> [x \in Int |-> x + d.weights[i]]]
  OBVIOUS
<1>4. step \in [1..n -> [Int -> Int]] /\ \A i \in 1..n, x \in Int : step[i][x] = x + d.weights[i]
  BY <1>2, <1>3
<1>5. PICK out : Grows(n, Int, 0, step, out)
  <2>1. PICK T : T = Int
    OBVIOUS
  <2>2. 0 \in T /\ step \in [1..n -> [T -> T]] /\ n \in Nat
    BY <1>4, <2>1
  <2>3. \E out : Grows(n, T, 0, step, out)
    BY <2>2, StepByStep
  <2> QED BY <2>1, <2>3
<1>6. out \in [0..n -> Int] /\ out[0] = 0 /\ \A i \in 1..n : out[i] = out[i - 1] + d.weights[i]
  <2>1. out \in [0..n -> Int] /\ out[0] = 0 /\ \A i \in 1..n : out[i] = step[i][out[i - 1]]
    BY <1>5 DEF Grows
  <2>2. \A i \in 1..n : out[i - 1] \in Int
    BY <2>1
  <2> QED BY <1>4, <2>1, <2>2
<1>7. Adds(d, out)
  BY <1>1, <1>6 DEF Adds
<1>8. Adds(d, CHOOSE sum : Adds(d, sum))
  BY <1>7
<1>9. PICK sum : sum = Cumulative(d)
  OBVIOUS
<1>10. sum = CHOOSE s : Adds(d, s)
  BY <1>9 DEF Cumulative, Adds
<1>11. Adds(d, sum)
  BY <1>8, <1>10
<1>12. sum[0] = 0 /\ \A i \in 1..n : sum[i] = sum[i - 1] + d.weights[i]
  <2>1. sum = [i \in 0..n |-> IF i = 0 THEN 0 ELSE sum[i - 1] + d.weights[i]]
    BY <1>1, <1>11 DEF Adds
  <2>2. \A i \in 0..n : sum[i] = IF i = 0 THEN 0 ELSE sum[i - 1] + d.weights[i]
    BY <2>1
  <2> QED BY <2>2
<1>13. \A i \in 0..n : sum[i] \in Int
  <2>1. PICK P : P = {i \in 0..n : sum[i] \in Int}
    OBVIOUS
  <2>2. 0 \in P /\ \A i \in 1..n : i - 1 \in P => i \in P
    BY <1>2, <1>12, <2>1
  <2>3. 0..n \subseteq P
    BY <2>2, UpTo
  <2> QED BY <2>1, <2>3
<1>14. sum \in [0..n -> Int]
  BY <1>1, <1>11, <1>13 DEF Adds
<1> QED BY <1>1, <1>9, <1>12, <1>14

\* What ascends from one number to the next ascends throughout.
LEMMA Ascending ==
  ASSUME NEW n \in Nat, NEW f \in [0..n -> Int], \A i \in 1..n : f[i - 1] < f[i]
  PROVE  \A i, j \in 0..n : i < j => f[i] < f[j]
<1> SUFFICES ASSUME NEW i \in 0..n PROVE \A j \in 0..n : i < j => f[i] < f[j]
  OBVIOUS
<1>1. PICK P : P = {j \in 0..n : i < j => f[i] < f[j]}
  OBVIOUS
<1>2. 0 \in P
  BY <1>1
<1>3. ASSUME NEW j \in 1..n, j - 1 \in P PROVE j \in P
  <2>1. f[j - 1] < f[j] /\ f[j] \in Int /\ f[j - 1] \in Int /\ f[i] \in Int
    OBVIOUS
  <2>2. i < j - 1 => f[i] < f[j - 1]
    BY <1>1, <1>3
  <2>3. i < j => f[i] < f[j]
    BY <2>1, <2>2
  <2> QED BY <1>1, <2>3
<1>4. 0..n \subseteq P
  BY <1>2, <1>3, UpTo
<1> QED BY <1>1, <1>4

LEMMA Multiples == \A x, y \in Int, m \in Nat : x <= y => x * m <= y * m
<1> SUFFICES ASSUME NEW x \in Int, NEW y \in Int, NEW m \in Nat, x <= y PROVE x * m <= y * m
  OBVIOUS
<1>1. PICK k \in Nat : y = x + k
  BY y - x \in Nat
<1>2. y * m = x * m + k * m /\ k * m \in Nat /\ x * m \in Int
  BY <1>1
<1> QED BY <1>2

\* The first multiple of m that reaches a.
LEMMA FirstMultiple ==
  ASSUME NEW m \in Nat \ {0}, NEW a \in Nat, NEW top \in Nat, a <= top * m
  PROVE  \E k \in 0..top : k * m < a + m /\ \A p \in Int : p < k <=> p * m < a
<1>1. PICK S \in SUBSET Nat : S = {k \in Nat : a <= k * m}
  OBVIOUS
<1>2. PICK k \in S : \A j \in S : k <= j
  BY <1>1, LeastExists
<1>3. k \in 0..top /\ a <= k * m
  BY <1>1, <1>2
<1>4. \A p \in Int : p < k => p * m < a
  <2> SUFFICES ASSUME NEW p \in Int, p < k, a <= p * m PROVE FALSE
    OBVIOUS
  <2>1. p \notin Nat
    BY <1>1, <1>2
  <2>2. p * m <= (-1) * m
    BY <2>1, Multiples
  <2> QED BY <2>2
<1>5. \A p \in Int : ~(p < k) => a <= p * m
  <2> SUFFICES ASSUME NEW p \in Int, k <= p PROVE a <= p * m
    BY <1>3
  <2>1. k * m <= p * m /\ p * m \in Int /\ k * m \in Int
    BY Multiples
  <2> QED BY <1>3, <2>1
<1>6. k * m < a + m
  <2>1. (k - 1) * m < a
    BY <1>4
  <2>2. (k - 1) * m = k * m - m
    OBVIOUS
  <2> QED BY <2>1, <2>2
<1>7. \A p \in Int : p < k <=> p * m < a
  BY <1>4, <1>5
<1> QED BY <1>3, <1>6, <1>7

Weighted(d) ==
  /\ d.variants \in Seq(Int) /\ d.weights \in Seq(Int) /\ Len(d.weights) = Len(d.variants)
  /\ d.variants # <<>> /\ \A i \in DOMAIN d.weights : d.weights[i] > 0

LEMMA CumulativeAscends ==
  ASSUME NEW d, Weighted(d)
  PROVE  /\ Len(d.weights) \in Nat \ {0} /\ Cumulative(d) \in [0..Len(d.weights) -> Nat]
         /\ Total(d) \in Nat \ {0}
         /\ \A i, j \in 0..Len(d.weights) : i < j => Cumulative(d)[i] < Cumulative(d)[j]
<1>1. PICK n \in Nat : n = Len(d.weights)
  BY DEF Weighted
<1>2. n \in Nat \ {0} /\ \A i \in 1..n : d.weights[i] \in Int /\ d.weights[i] > 0
  BY <1>1 DEF Weighted
<1>3. PICK C \in [0..n -> Int] : C = Cumulative(d) /\ C[0] = 0 /\ \A i \in 1..n : C[i] = C[i - 1] + d.weights[i]
  BY <1>1, CumulativeIs DEF Weighted
<1>4. \A i \in 1..n : C[i - 1] < C[i]
  <2> SUFFICES ASSUME NEW i \in 1..n PROVE C[i - 1] < C[i]
    OBVIOUS
  <2>1. C[i - 1] \in Int /\ d.weights[i] \in Int /\ d.weights[i] > 0 /\ C[i] = C[i - 1] + d.weights[i]
    BY <1>2, <1>3
  <2> QED BY <2>1
<1>5. \A i, j \in 0..n : i < j => C[i] < C[j]
  BY <1>4, Ascending
<1>6. \A i \in 0..n : C[i] \in Nat /\ (i # 0 => C[i] \in Nat \ {0})
  <2> SUFFICES ASSUME NEW i \in 0..n PROVE C[i] \in Nat /\ (i # 0 => C[i] \in Nat \ {0})
    OBVIOUS
  <2>1. 0 \in 0..n /\ C[i] \in Int /\ (0 < i => C[0] < C[i])
    BY <1>5
  <2> QED BY <1>3, <2>1
<1>7. C \in [0..n -> Nat] /\ C[n] \in Nat \ {0}
  BY <1>2, <1>6
<1> QED BY <1>1, <1>2, <1>3, <1>5, <1>7 DEF Total

LEMMA ChosenIs ==
  ASSUME NEW d, Weighted(d), NEW p \in 0..(Denominator - 1)
  PROVE  /\ Chosen(d, p) \in 1..Len(d.weights)
         /\ Cumulative(d)[Chosen(d, p) - 1] * Denominator <= p * Total(d)
         /\ p * Total(d) < Cumulative(d)[Chosen(d, p)] * Denominator
<1>1. PICK n \in Nat \ {0} : n = Len(d.weights)
  BY CumulativeAscends
<1>2. PICK C \in [0..n -> Nat] : C = Cumulative(d) /\ C[0] = 0 /\ Total(d) = C[n] /\ C[n] \in Nat \ {0}
  BY <1>1, CumulativeAscends, CumulativeIs DEF Total, Weighted
<1>3. PICK within \in SUBSET Nat : within = {i \in 1..n : p * C[n] < C[i] * Denominator}
  <2>1. {i \in 1..n : p * C[n] < C[i] * Denominator} \in SUBSET Nat
    OBVIOUS
  <2> QED BY <2>1
<1>4. DOMAIN d.weights = 1..n
  BY <1>1 DEF Weighted
<1>5. n \in within
  <2>1. Denominator \in Nat \ {0} /\ p \in Nat /\ p + 1 <= Denominator
    BY DenominatorAssumption
  <2>2. (p + 1) * C[n] <= Denominator * C[n]
    BY <1>2, <2>1, Multiples
  <2>3. (p + 1) * C[n] = p * C[n] + C[n] /\ p * C[n] \in Nat /\ Denominator * C[n] = C[n] * Denominator
    BY <1>2, <2>1
  <2>4. C[n] * Denominator \in Nat
    BY <1>2, <2>1
  <2>5. p * C[n] < C[n] * Denominator
    BY <1>2, <2>2, <2>3, <2>4
  <2> QED BY <1>3, <2>5
<1>6. \E i \in within : \A j \in within : i <= j
  BY <1>5, LeastExists
<1>7. PICK c : c = CHOOSE i \in within : \A j \in within : i <= j
  OBVIOUS
<1>8. c \in within /\ \A j \in within : c <= j
  BY <1>6, <1>7
<1>9. Chosen(d, p) = c
  BY <1>2, <1>3, <1>4, <1>5, <1>7 DEF Chosen
<1>10. c \in 1..n /\ p * C[n] < C[c] * Denominator
  BY <1>3, <1>8
<1>11. C[c - 1] * Denominator <= p * C[n]
  <2>1. Denominator \in Nat /\ p \in Nat /\ c - 1 \in 0..n /\ C[c - 1] \in Nat /\ c - 1 \in Nat
    BY <1>10, DenominatorAssumption
  <2>2. p * C[n] \in Nat /\ C[c - 1] * Denominator \in Nat
    BY <1>2, <2>1
  <2>3. CASE c = 1
    <3>1. C[c - 1] * Denominator = 0
      BY <1>2, <2>1, <2>3
    <3> QED BY <2>2, <3>1
  <2>4. CASE c # 1
    <3>1. c - 1 \in 1..n /\ c - 1 \notin within
      BY <1>8, <1>10, <2>1, <2>4
    <3>2. ~(p * C[n] < C[c - 1] * Denominator)
      BY <1>3, <3>1
    <3> QED BY <2>2, <3>2
  <2> QED BY <2>3, <2>4
<1> QED BY <1>1, <1>2, <1>9, <1>10, <1>11

LEMMA ChosenIff ==
  ASSUME NEW d, Weighted(d), NEW p \in 0..(Denominator - 1), NEW i \in 1..Len(d.weights)
  PROVE  Chosen(d, p) = i <=> /\ Cumulative(d)[i - 1] * Denominator <= p * Total(d)
                              /\ p * Total(d) < Cumulative(d)[i] * Denominator
<1>1. PICK n \in Nat \ {0} : n = Len(d.weights)
  BY CumulativeAscends
<1>2. PICK C \in [0..n -> Nat] : C = Cumulative(d) /\ \A j, k \in 0..n : j < k => C[j] < C[k]
  BY <1>1, CumulativeAscends
<1>3. PICK c \in 1..n : c = Chosen(d, p)
  BY <1>1, ChosenIs
<1>4. C[c - 1] * Denominator <= p * Total(d) /\ p * Total(d) < C[c] * Denominator
  BY <1>2, <1>3, ChosenIs
<1>5. p * Total(d) \in Nat /\ Denominator \in Nat
  BY CumulativeAscends, DenominatorAssumption
<1>6. \A j, k \in 0..n : j <= k => C[j] * Denominator <= C[k] * Denominator
  <2> SUFFICES ASSUME NEW j \in 0..n, NEW k \in 0..n, j <= k PROVE C[j] * Denominator <= C[k] * Denominator
    OBVIOUS
  <2>1. C[j] <= C[k] /\ C[j] \in Int /\ C[k] \in Int
    BY <1>2
  <2> QED BY <1>5, <2>1, Multiples
<1>7. \A j \in 0..n : C[j] * Denominator \in Nat
  BY <1>5
<1>8. ASSUME C[i - 1] * Denominator <= p * Total(d), p * Total(d) < C[i] * Denominator PROVE c = i
  <2>1. i \in 0..n /\ i - 1 \in 0..n /\ c \in 0..n /\ c - 1 \in 0..n
    BY <1>1
  <2>2. ~(c <= i - 1)
    <3> SUFFICES ASSUME c <= i - 1 PROVE FALSE
      OBVIOUS
    <3>1. C[c] * Denominator <= C[i - 1] * Denominator
      BY <1>6, <2>1
    <3>2. PICK x \in Nat : x = C[c] * Denominator
      BY <1>7, <2>1
    <3>3. PICK y \in Nat : y = C[i - 1] * Denominator
      BY <1>7, <2>1
    <3>4. PICK z \in Nat : z = p * Total(d)
      BY <1>5
    <3>5. x <= y /\ y <= z /\ z < x
      BY <1>4, <1>8, <3>1, <3>2, <3>3, <3>4
    <3> QED BY <3>5
  <2>3. ~(i <= c - 1)
    <3> SUFFICES ASSUME i <= c - 1 PROVE FALSE
      OBVIOUS
    <3>1. C[i] * Denominator <= C[c - 1] * Denominator
      BY <1>6, <2>1
    <3>2. PICK x \in Nat : x = C[i] * Denominator
      BY <1>7, <2>1
    <3>3. PICK y \in Nat : y = C[c - 1] * Denominator
      BY <1>7, <2>1
    <3>4. PICK z \in Nat : z = p * Total(d)
      BY <1>5
    <3>5. x <= y /\ y <= z /\ z < x
      BY <1>4, <1>8, <3>1, <3>2, <3>3, <3>4
    <3> QED BY <3>5
  <2> QED BY <1>1, <2>2, <2>3
<1> QED BY <1>2, <1>3, <1>4, <1>8

LEMMA SharesHold ==
  ASSUME NEW d \in Definitions, Weighted(d)
  PROVE  d \in Proportional
<1>1. PICK n \in Nat \ {0} : n = Len(d.weights)
  BY CumulativeAscends
<1>2. PICK C \in [0..n -> Nat] : C = Cumulative(d) /\ C[0] = 0 /\ \A i \in 1..n : C[i] = C[i - 1] + d.weights[i]
  BY <1>1, CumulativeAscends, CumulativeIs DEF Weighted
<1>3. PICK T \in Nat \ {0} : T = Total(d) /\ T = C[n]
  BY <1>1, <1>2, CumulativeAscends DEF Total
<1>4. DOMAIN d.variants = 1..n
  BY <1>1 DEF Weighted
<1>5. PICK D \in Nat \ {0} : D = Denominator
  BY DenominatorAssumption
<1>6. ASSUME NEW i \in 1..n
      PROVE  LET won == Cardinality({p \in 0..(Denominator - 1) : Chosen(d, p) = i}) * Total(d)
             IN d.weights[i] * Denominator - Total(d) < won /\ won < d.weights[i] * Denominator + Total(d)
  <2>1. PICK w \in Int : w = d.weights[i] /\ w > 0
    BY <1>1 DEF Weighted
  <2>2. i - 1 \in 0..n /\ i \in 0..n /\ C[i - 1] \in Nat /\ C[i] \in Nat /\ C[i] = C[i - 1] + w
    BY <1>2, <2>1
  <2>3. C[i] <= T
    <3>1. i < n => C[i] < C[n]
      <4>1. n \in 0..n /\ \A j, k \in 0..n : j < k => C[j] < C[k]
        BY <1>1, <1>2, CumulativeAscends
      <4> QED BY <2>2, <4>1
    <3> QED BY <1>3, <2>2, <3>1
  <2>4. PICK a \in Nat : a = C[i - 1] * D
    BY <2>2
  <2>5. PICK b \in Nat : b = C[i] * D
    BY <2>2
  <2>6. b = a + w * D /\ w * D \in Nat
    <3>1. w \in Nat /\ (C[i - 1] + w) * D = C[i - 1] * D + w * D
      BY <2>1, <2>2
    <3>2. w * D \in Nat
      BY <3>1
    <3> QED BY <2>2, <2>4, <2>5, <3>1, <3>2
  <2>7. b <= D * T /\ a <= D * T
    <3>1. D * T = T * D /\ T * D \in Nat
      OBVIOUS
    <3>2. C[i] * D <= T * D
      BY <2>2, <2>3, Multiples
    <3> QED BY <2>5, <2>6, <3>1, <3>2
  <2>8. PICK lo \in 0..D : lo * T < a + T /\ \A p \in Int : p < lo <=> p * T < a
    BY <2>7, FirstMultiple
  <2>9. PICK hi \in 0..D : hi * T < b + T /\ \A p \in Int : p < hi <=> p * T < b
    BY <2>7, FirstMultiple
  <2>10. lo * T \in Nat /\ hi * T \in Nat /\ a <= lo * T /\ b <= hi * T
    BY <2>8, <2>9
  <2>11. lo <= hi
    BY <2>6, <2>8, <2>9, <2>10
  <2>12. {p \in 0..(Denominator - 1) : Chosen(d, p) = i} = lo..(hi - 1)
    <3>1. ASSUME NEW p \in 0..(D - 1) PROVE Chosen(d, p) = i <=> p \in lo..(hi - 1)
      <4>1. p * T \in Nat /\ p \in Int
        OBVIOUS
      <4>2. Chosen(d, p) = i <=> a <= p * T /\ p * T < b
        BY <1>1, <1>2, <1>3, <1>5, <2>4, <2>5, ChosenIff
      <4>3. (p < lo <=> p * T < a) /\ (p < hi <=> p * T < b)
        BY <2>8, <2>9, <4>1
      <4>4. PICK x \in Nat : x = p * T
        BY <4>1
      <4>5. Chosen(d, p) = i <=> ~(p < lo) /\ p < hi
        BY <4>2, <4>3, <4>4
      <4> QED BY <4>1, <4>5
    <3>2. lo..(hi - 1) \subseteq 0..(D - 1)
      OBVIOUS
    <3> QED BY <1>5, <3>1, <3>2
  <2>13. Cardinality(lo..(hi - 1)) = hi - lo
    BY <2>11, FS_Interval
  <2>14. (hi - lo) * T = hi * T - lo * T
    OBVIOUS
  <2>15. w * D - T < (hi - lo) * T /\ (hi - lo) * T < w * D + T
    BY <2>6, <2>8, <2>9, <2>10, <2>14
  <2> QED BY <1>3, <1>5, <2>1, <2>12, <2>13, <2>15
<1> QED BY <1>4, <1>6 DEF Proportional

-----------------------------------------------------------------------------
(* The leading variant *)

Converted(s, w) == IF s[w].exposures = 0 THEN 0 ELSE s[w].conversions
Exposed(s, w)   == IF s[w].exposures = 0 THEN 1 ELSE s[w].exposures

\* The order of the variants: by rate, equal rates by id.
Ahead(s, v, w) ==
  \/ Converted(s, v) * Exposed(s, w) > Converted(s, w) * Exposed(s, v)
  \/ Converted(s, v) * Exposed(s, w) = Converted(s, w) * Exposed(s, v) /\ v < w

VariantStats(V) == [V -> [exposures : Nat, conversions : Nat]]

LEMMA RatesAre ==
  ASSUME NEW V, NEW s \in VariantStats(V), NEW v \in V
  PROVE  Converted(s, v) \in Nat /\ Exposed(s, v) \in Nat \ {0}
<1>1. s[v] \in [exposures : Nat, conversions : Nat]
  BY DEF VariantStats
<1>2. s[v].exposures \in Nat /\ s[v].conversions \in Nat
  BY <1>1
<1> QED BY <1>2 DEF Converted, Exposed

\* Fractions: x1 / y1 >= x2 / y2 >= x3 / y3.
LEMMA FractionsOrdered ==
  ASSUME NEW x1 \in Nat, NEW x2 \in Nat, NEW x3 \in Nat, NEW y1 \in Nat \ {0}, NEW y2 \in Nat \ {0}, NEW y3 \in Nat \ {0},
         x2 * y1 <= x1 * y2, x3 * y2 <= x2 * y3
  PROVE  /\ x3 * y1 <= x1 * y3
         /\ x3 * y1 = x1 * y3 => x2 * y1 = x1 * y2 /\ x3 * y2 = x2 * y3
<1>1. (x2 * y1) * y3 <= (x1 * y2) * y3
  <2>1. x2 * y1 \in Int /\ x1 * y2 \in Int /\ y3 \in Nat
    OBVIOUS
  <2> QED BY <2>1, Multiples
<1>2. (x3 * y2) * y1 <= (x2 * y3) * y1
  <2>1. x3 * y2 \in Int /\ x2 * y3 \in Int /\ y1 \in Nat
    OBVIOUS
  <2> QED BY <2>1, Multiples
<1>3. (x2 * y1) * y3 = (x2 * y3) * y1
  OBVIOUS
<1>4. (x1 * y2) * y3 = (x1 * y3) * y2
  OBVIOUS
<1>5. (x3 * y2) * y1 = (x3 * y1) * y2
  OBVIOUS
<1>6. PICK a \in Nat : a = x1 * y3
  OBVIOUS
<1>7. PICK b \in Nat : b = x3 * y1
  OBVIOUS
<1>8. PICK m \in Nat : m = (x2 * y1) * y3
  OBVIOUS
<1>9. b * y2 <= m /\ m <= a * y2
  BY <1>1, <1>2, <1>3, <1>4, <1>5, <1>6, <1>7, <1>8
<1>10. b <= a
  <2> SUFFICES ASSUME a + 1 <= b PROVE FALSE
    OBVIOUS
  <2>1. (a + 1) * y2 <= b * y2
    BY Multiples
  <2>2. (a + 1) * y2 = a * y2 + y2 /\ a * y2 \in Nat /\ b * y2 \in Nat
    OBVIOUS
  <2> QED BY <1>9, <2>1, <2>2
<1>11. ASSUME b = a PROVE x2 * y1 = x1 * y2 /\ x3 * y2 = x2 * y3
  <2>1. m = a * y2 /\ m = b * y2
    BY <1>9, <1>11
  <2>2. (x2 * y1) * y3 = (x1 * y2) * y3 /\ (x3 * y2) * y1 = (x2 * y3) * y1
    BY <1>3, <1>4, <1>5, <1>6, <1>7, <1>8, <2>1
  <2>3. \A p, q \in Nat, y \in Nat \ {0} : p * y = q * y => p = q
    OBVIOUS
  <2>4. x2 * y1 \in Nat /\ x1 * y2 \in Nat /\ x3 * y2 \in Nat /\ x2 * y3 \in Nat
    OBVIOUS
  <2> QED BY <2>2, <2>3, <2>4
<1> QED BY <1>6, <1>7, <1>10, <1>11

LEMMA AheadTransitive ==
  ASSUME NEW V \in SUBSET Int, NEW s \in VariantStats(V), NEW u \in V, NEW v \in V, NEW w \in V,
         Ahead(s, u, v), Ahead(s, v, w)
  PROVE  Ahead(s, u, w)
<1>1. PICK x1 \in Nat, y1 \in Nat \ {0} : x1 = Converted(s, u) /\ y1 = Exposed(s, u)
  BY RatesAre
<1>2. PICK x2 \in Nat, y2 \in Nat \ {0} : x2 = Converted(s, v) /\ y2 = Exposed(s, v)
  BY RatesAre
<1>3. PICK x3 \in Nat, y3 \in Nat \ {0} : x3 = Converted(s, w) /\ y3 = Exposed(s, w)
  BY RatesAre
<1>4. x1 * y2 > x2 * y1 \/ (x1 * y2 = x2 * y1 /\ u < v)
  BY <1>1, <1>2 DEF Ahead
<1>5. x2 * y3 > x3 * y2 \/ (x2 * y3 = x3 * y2 /\ v < w)
  BY <1>2, <1>3 DEF Ahead
<1>6. x1 * y2 \in Nat /\ x2 * y1 \in Nat /\ x2 * y3 \in Nat /\ x3 * y2 \in Nat /\ x1 * y3 \in Nat /\ x3 * y1 \in Nat
  OBVIOUS
<1>7. x2 * y1 <= x1 * y2 /\ x3 * y2 <= x2 * y3
  BY <1>4, <1>5, <1>6
<1>8. x3 * y1 <= x1 * y3 /\ (x3 * y1 = x1 * y3 => x2 * y1 = x1 * y2 /\ x3 * y2 = x2 * y3)
  BY <1>7, FractionsOrdered
<1>9. x1 * y3 > x3 * y1 \/ (x1 * y3 = x3 * y1 /\ u < w)
  <2>1. PICK p \in Nat, q \in Nat : p = x1 * y3 /\ q = x3 * y1
    BY <1>6
  <2>2. CASE q = p
    <3>1. u < v /\ v < w /\ u \in Int /\ v \in Int /\ w \in Int
      BY <1>4, <1>5, <1>6, <1>8, <2>1, <2>2
    <3> QED BY <2>1, <2>2, <3>1
  <2>3. CASE q # p
    BY <1>8, <2>1, <2>3
  <2> QED BY <2>2, <2>3
<1> QED BY <1>1, <1>3, <1>9 DEF Ahead

LEMMA LeadsIsAhead ==
  ASSUME NEW V \in SUBSET Int, NEW s \in VariantStats(V), NEW v \in V, NEW w \in V
  PROVE  /\ Leads(s, v, w) <=> Ahead(s, w, v)
         /\ ~Leads(s, v, w) /\ v # w => Ahead(s, v, w)
<1>1. PICK x1 \in Nat, y1 \in Nat \ {0} : x1 = Converted(s, v) /\ y1 = Exposed(s, v)
  BY RatesAre
<1>2. PICK x2 \in Nat, y2 \in Nat \ {0} : x2 = Converted(s, w) /\ y2 = Exposed(s, w)
  BY RatesAre
<1>3. Leads(s, v, w) <=> x2 * y1 - x1 * y2 > 0 \/ (x2 * y1 - x1 * y2 = 0 /\ w < v)
  BY <1>1, <1>2 DEF Leads, Converted, Exposed
<1>4. PICK p \in Nat, q \in Nat : p = x2 * y1 /\ q = x1 * y2
  OBVIOUS
<1>5. Leads(s, v, w) <=> p > q \/ (p = q /\ w < v)
  BY <1>3, <1>4
<1>6. (Ahead(s, w, v) <=> p > q \/ (p = q /\ w < v)) /\ (Ahead(s, v, w) <=> q > p \/ (q = p /\ v < w))
  BY <1>1, <1>2, <1>4 DEF Ahead
<1>7. v \in Int /\ w \in Int
  OBVIOUS
<1> QED BY <1>5, <1>6, <1>7

Best(s, v, best) == best = [i \in DOMAIN v |-> IF i = 1 THEN v[1] ELSE IF Leads(s, best[i - 1], v[i]) THEN v[i] ELSE best[i - 1]]

LEMMA BestExists ==
  ASSUME NEW V, NEW v \in Seq(V), v # <<>>, NEW s
  PROVE  \E best \in [1..Len(v) -> V] : Best(s, v, best)
<1>1. PICK n \in Nat : Len(v) = n + 1 /\ DOMAIN v = 1..(n + 1) /\ \A i \in 1..(n + 1) : v[i] \in V
  <2>1. Len(v) \in Nat \ {0} /\ DOMAIN v = 1..Len(v) /\ \A i \in 1..Len(v) : v[i] \in V
    OBVIOUS
  <2>2. PICK n : n = Len(v) - 1
    OBVIOUS
  <2>3. n \in Nat /\ Len(v) = n + 1
    BY <2>1, <2>2
  <2> QED BY <2>1, <2>3
<1>2. PICK step : step = [i \in 1..n |-> [x \in V |-> IF Leads(s, x, v[i + 1]) THEN v[i + 1] ELSE x]]
  OBVIOUS
<1>3. \A i \in 1..n : i + 1 \in 1..(n + 1)
  OBVIOUS
<1>4. step \in [1..n -> [V -> V]] /\ \A i \in 1..n, x \in V : step[i][x] = IF Leads(s, x, v[i + 1]) THEN v[i + 1] ELSE x
  BY <1>1, <1>2, <1>3
<1>5. v[1] \in V
  BY <1>1
<1>6. PICK out : Grows(n, V, v[1], step, out)
  BY <1>4, <1>5, StepByStep
<1>7. out \in [0..n -> V] /\ out[0] = v[1] /\ \A i \in 1..n : out[i] = step[i][out[i - 1]]
  BY <1>6 DEF Grows
<1>8. PICK best : best = [i \in 1..(n + 1) |-> out[i - 1]]
  OBVIOUS
<1>9. best \in [1..(n + 1) -> V]
  BY <1>7, <1>8
<1>10. ASSUME NEW i \in 1..(n + 1)
       PROVE  best[i] = IF i = 1 THEN v[1] ELSE IF Leads(s, best[i - 1], v[i]) THEN v[i] ELSE best[i - 1]
  <2>1. CASE i = 1
    BY <1>7, <1>8, <2>1
  <2>2. CASE i # 1
    <3>1. i - 1 \in 1..n /\ i - 1 \in 1..(n + 1) /\ (i - 1) - 1 \in 0..n /\ (i - 1) + 1 = i
      BY <2>2
    <3>2. best[i] = out[i - 1] /\ best[i - 1] = out[(i - 1) - 1] /\ best[i - 1] \in V
      BY <1>8, <1>9, <3>1
    <3>3. out[i - 1] = step[i - 1][out[(i - 1) - 1]]
      BY <1>7, <3>1
    <3>4. step[i - 1][best[i - 1]] = IF Leads(s, best[i - 1], v[i]) THEN v[i] ELSE best[i - 1]
      BY <1>4, <3>1, <3>2
    <3> QED BY <2>2, <3>2, <3>3, <3>4
  <2> QED BY <2>1, <2>2
<1>11. best = [i \in DOMAIN v |-> IF i = 1 THEN v[1] ELSE IF Leads(s, best[i - 1], v[i]) THEN v[i] ELSE best[i - 1]]
  BY <1>1, <1>9, <1>10
<1> QED BY <1>1, <1>9, <1>11 DEF Best

LEMMA BestLeads ==
  ASSUME NEW V \in SUBSET Int, NEW s \in VariantStats(V), NEW v \in Seq(V), v # <<>>, NEW best, Best(s, v, best)
  PROVE  best[Len(v)] \in V /\ \A j \in DOMAIN v : v[j] # best[Len(v)] => Ahead(s, best[Len(v)], v[j])
<1>1. PICK n \in Nat : Len(v) = n + 1 /\ DOMAIN v = 1..(n + 1) /\ \A i \in 1..(n + 1) : v[i] \in V
  <2>1. Len(v) \in Nat \ {0} /\ DOMAIN v = 1..Len(v) /\ \A i \in 1..Len(v) : v[i] \in V
    OBVIOUS
  <2>2. PICK n : n = Len(v) - 1
    OBVIOUS
  <2>3. n \in Nat /\ Len(v) = n + 1
    BY <2>1, <2>2
  <2> QED BY <2>1, <2>3
<1>2. \A i \in 1..(n + 1) : best[i] = IF i = 1 THEN v[1] ELSE IF Leads(s, best[i - 1], v[i]) THEN v[i] ELSE best[i - 1]
  <2>1. best = [i \in 1..(n + 1) |-> IF i = 1 THEN v[1] ELSE IF Leads(s, best[i - 1], v[i]) THEN v[i] ELSE best[i - 1]]
    BY <1>1 DEF Best
  <2> QED BY <2>1
<1>3. PICK P : P = {k \in 0..n : best[k + 1] \in V /\ \A j \in 1..(k + 1) : v[j] # best[k + 1] => Ahead(s, best[k + 1], v[j])}
  OBVIOUS
<1>4. 0 \in P
  <2>1. 1 \in 1..(n + 1) /\ best[1] = v[1] /\ v[1] \in V
    BY <1>1, <1>2
  <2>2. 0 \in 0..n /\ \A j \in 1..(0 + 1) : j = 1
    OBVIOUS
  <2> QED BY <1>3, <2>1, <2>2
<1>5. ASSUME NEW k \in 1..n, k - 1 \in P PROVE k \in P
  <2>1. PICK b \in V : b = best[k] /\ \A j \in 1..k : v[j] # b => Ahead(s, b, v[j])
    <3>1. (k - 1) + 1 = k
      OBVIOUS
    <3> QED BY <1>3, <1>5, <3>1
  <2>2. PICK w \in V : w = v[k + 1]
    <3>1. k + 1 \in 1..(n + 1)
      OBVIOUS
    <3>2. v[k + 1] \in V
      BY <1>1, <3>1
    <3> QED BY <3>2
  <2>3. best[k + 1] = IF Leads(s, b, w) THEN w ELSE b
    <3>1. k + 1 \in 1..(n + 1) /\ k + 1 # 1 /\ (k + 1) - 1 = k
      OBVIOUS
    <3>2. best[k + 1] = IF Leads(s, best[(k + 1) - 1], v[k + 1]) THEN v[k + 1] ELSE best[(k + 1) - 1]
      BY <1>2, <3>1
    <3> QED BY <2>1, <2>2, <3>1, <3>2
  <2>4. \A j \in 1..(k + 1) : j \in 1..k \/ j = k + 1
    OBVIOUS
  <2>5. \A j \in 1..k : v[j] \in V
    BY <1>1
  <2>6. CASE Leads(s, b, w)
    <3>1. Ahead(s, w, b)
      BY <2>6, LeadsIsAhead
    <3>2. \A j \in 1..k : Ahead(s, w, v[j])
      BY <2>1, <2>5, <3>1, AheadTransitive
    <3> QED BY <1>3, <2>2, <2>3, <2>4, <2>6, <3>2
  <2>7. CASE ~Leads(s, b, w)
    <3>1. w # b => Ahead(s, b, w)
      BY <2>7, LeadsIsAhead
    <3> QED BY <1>3, <2>1, <2>2, <2>3, <2>4, <2>7, <3>1
  <2> QED BY <2>6, <2>7
<1>6. n \in P
  <2>1. 0..n \subseteq P
    BY <1>4, <1>5, UpTo
  <2> QED BY <2>1
<1> QED BY <1>1, <1>3, <1>6

CampaignInv ==
  /\ campaigns \in [CampaignIds -> Definitions \cup {NoCampaign}] /\ stats = [c \in CampaignIds |-> stats[c]]
  /\ \A c \in CampaignIds : campaigns[c] # NoCampaign =>
       Weighted(campaigns[c]) /\ stats[c] \in VariantStats(VariantsOf(campaigns[c]))
  /\ \A a \in given : /\ a.campaign \in CampaignIds /\ a.under \in Definitions
                      /\ a.variant \in VariantsOf(a.under)

LEMMA LeaderHolds == CampaignInv => LeaderLeads
<1> SUFFICES ASSUME CampaignInv, NEW c \in CampaignIds, campaigns[c] # NoCampaign,
                    NEW v \in DOMAIN stats[c] \ {LeadingVariant(c)}
             PROVE  Ahead(stats[c], LeadingVariant(c), v)
  BY DEF LeaderLeads, Ahead, Converted, Exposed
<1>1. PICK d : d = campaigns[c]
  OBVIOUS
<1>2. PICK V : V = VariantsOf(d)
  OBVIOUS
<1>3. PICK s \in VariantStats(V) : s = stats[c]
  BY <1>1, <1>2 DEF CampaignInv
<1>4. d.variants \in Seq(Int) /\ d.variants # <<>>
  BY <1>1 DEF CampaignInv, Weighted
<1>5. PICK w : w = d.variants
  OBVIOUS
<1>6. V \subseteq Int /\ w \in Seq(V) /\ \A x \in V : \E j \in DOMAIN w : w[j] = x
  <2>1. V = {w[i] : i \in DOMAIN w}
    BY <1>2, <1>5 DEF VariantsOf
  <2>2. w \in Seq(Int)
    BY <1>4, <1>5
  <2>3. \A i \in DOMAIN w : w[i] \in Int
    BY <2>2
  <2>4. DOMAIN w = 1..Len(w) /\ Len(w) \in Nat /\ w = [i \in 1..Len(w) |-> w[i]]
    BY <2>2
  <2>5. w \in Seq(V)
    BY <2>1, <2>4
  <2> QED BY <2>1, <2>3, <2>5
<1>7. \E best \in [1..Len(w) -> V] : Best(s, w, best)
  BY <1>4, <1>5, <1>6, BestExists
<1>8. PICK best : best = CHOOSE b : Best(s, w, b)
  OBVIOUS
<1>9. Best(s, w, best)
  BY <1>7, <1>8
<1>10. LeadingVariant(c) = best[Len(w)]
  BY <1>1, <1>3, <1>5, <1>8 DEF LeadingVariant, Best
<1>11. v \in V
  BY <1>3 DEF VariantStats
<1>12. best[Len(w)] \in V /\ \A j \in DOMAIN w : w[j] # best[Len(w)] => Ahead(s, best[Len(w)], w[j])
  BY <1>4, <1>5, <1>6, <1>9, BestLeads
<1> QED BY <1>3, <1>6, <1>10, <1>11, <1>12

LEMMA CampaignStep ==
  ASSUME CampaignInv, [CampaignNext]_campaignVars
  PROVE  CampaignInv'
<1>1. ASSUME NEW s \in Segments, AddSegment(s) PROVE CampaignInv'
  BY <1>1 DEF AddSegment, CampaignInv
<1>2. ASSUME NEW c \in CampaignIds, NEW d \in Definitions, AddCampaign(c, d) PROVE CampaignInv'
  <2>1. campaigns' = [campaigns EXCEPT ![c] = d] /\ given' = given
    BY <1>2 DEF AddCampaign
  <2>2. PICK zero : zero = [v \in VariantsOf(d) |-> [exposures |-> 0, conversions |-> 0]]
    OBVIOUS
  <2>3. stats' = [stats EXCEPT ![c] = zero]
    BY <1>2, <2>2 DEF AddCampaign
  <2>4. Weighted(d) /\ zero \in VariantStats(VariantsOf(d))
    BY <1>2, <2>2, DefinitionsAssumption DEF AddCampaign, Accepted, Weighted, VariantStats
  <2> QED BY <2>1, <2>3, <2>4 DEF CampaignInv
<1>3. ASSUME NEW c \in CampaignIds, NEW s \in Subjects, Assign(c, s) PROVE CampaignInv'
  <2>1. PICK d : d = campaigns[c]
    OBVIOUS
  <2>2. d \in Definitions /\ Weighted(d)
    BY <1>3, <2>1 DEF Assign, CampaignInv
  <2>3. Point[s, c] \in 0..(Denominator - 1)
    BY DenominatorAssumption
  <2>4. Chosen(d, Point[s, c]) \in 1..Len(d.weights)
    BY <2>2, <2>3, ChosenIs
  <2>5. d.variants[Chosen(d, Point[s, c])] \in VariantsOf(d)
    <3>1. PICK k : k = Chosen(d, Point[s, c])
      OBVIOUS
    <3>2. DOMAIN d.variants = 1..Len(d.weights)
      BY <2>2 DEF Weighted
    <3>3. d.variants[k] \in VariantsOf(d)
      BY <2>4, <3>1, <3>2 DEF VariantsOf
    <3> QED BY <3>1, <3>3
  <2>6. PICK a : a = [campaign |-> c, subject |-> s, under |-> d, variant |-> d.variants[Chosen(d, Point[s, c])]]
    OBVIOUS
  <2>7. given' = given \cup {a} /\ UNCHANGED <<campaigns, stats>>
    BY <1>3, <2>1, <2>6 DEF Assign
  <2>8. a.campaign \in CampaignIds /\ a.under \in Definitions /\ a.variant \in VariantsOf(a.under)
    BY <2>2, <2>5, <2>6
  <2> QED BY <2>7, <2>8 DEF CampaignInv
<1>4. ASSUME NEW a \in given, NEW field \in {"exposures", "conversions"}, Bump(a, field) PROVE CampaignInv'
  <2>1. PICK c \in CampaignIds : c = a.campaign
    BY DEF CampaignInv
  <2>2. PICK v : v = a.variant
    OBVIOUS
  <2>3. v \in DOMAIN stats[c] /\ stats' = [stats EXCEPT ![c][v][field] = @ + 1] /\ UNCHANGED <<campaigns, given>>
    BY <1>4, <2>1, <2>2 DEF Bump
  <2>4. PICK new : new = [stats[c] EXCEPT ![v][field] = @ + 1]
    OBVIOUS
  <2>5. stats' = [stats EXCEPT ![c] = new]
    BY <2>3, <2>4
  <2>6. ASSUME NEW V, stats[c] \in VariantStats(V) PROVE new \in VariantStats(V)
    <3>1. v \in V /\ stats[c] \in [V -> [exposures : Nat, conversions : Nat]]
      BY <2>3, <2>6 DEF VariantStats
    <3>2. stats[c][v] \in [exposures : Nat, conversions : Nat]
      BY <3>1
    <3>3. [stats[c][v] EXCEPT ![field] = @ + 1] \in [exposures : Nat, conversions : Nat]
      BY <3>2
    <3>4. new = [stats[c] EXCEPT ![v] = [stats[c][v] EXCEPT ![field] = @ + 1]]
      BY <2>4
    <3> QED BY <3>1, <3>3, <3>4 DEF VariantStats
  <2>7. campaigns[c] # NoCampaign => new \in VariantStats(VariantsOf(campaigns[c]))
    BY <2>6 DEF CampaignInv
  <2> QED BY <2>3, <2>5, <2>7 DEF CampaignInv
<1>5. CASE UNCHANGED campaignVars
  BY <1>5 DEF campaignVars, CampaignInv
<1> QED BY <1>1, <1>2, <1>3, <1>4, <1>5 DEF CampaignNext

\* Whatever campaigns are added and replaced: what was assigned under the present definition can be
\* counted, every variant gets its share of the interval to within one point, and the leading variant
\* is the best.
THEOREM CampaignsHold == CampaignSpec => []CampaignsCount
<1>1. CampaignInit => CampaignInv
  BY DEF CampaignInit, CampaignInv
<1>2. CampaignInv /\ [CampaignNext]_campaignVars => CampaignInv'
  BY CampaignStep
<1>3. CampaignInv => AssignmentsCount
  <2> SUFFICES ASSUME CampaignInv PROVE AssignmentsCount
    OBVIOUS
  <2>1. \A c \in CampaignIds : campaigns[c] # NoCampaign => DOMAIN stats[c] = VariantsOf(campaigns[c])
    BY DEF CampaignInv, VariantStats
  <2>2. \A a \in given : a.campaign \in CampaignIds /\ a.under # NoCampaign /\ a.variant \in VariantsOf(a.under)
    BY DefinitionsAssumption DEF CampaignInv
  <2> QED BY <2>1, <2>2 DEF AssignmentsCount
<1>4. CampaignInv => SharesFollowWeights
  BY SharesHold DEF CampaignInv, SharesFollowWeights
<1> QED BY <1>1, <1>2, <1>3, <1>4, LeaderHolds, PTL DEF CampaignSpec, CampaignsCount

-----------------------------------------------------------------------------
(* Ascending order *)

LEMMA PartOf ==
  ASSUME NEW S, IsFiniteSet(S), NEW T \in SUBSET S
  PROVE  /\ IsFiniteSet(T) /\ Cardinality(T) \in Nat /\ Cardinality(S) \in Nat /\ Cardinality(T) <= Cardinality(S)
         /\ T # S => Cardinality(T) < Cardinality(S)
<1>1. IsFiniteSet(T) /\ Cardinality(T) <= Cardinality(S) /\ (Cardinality(S) = Cardinality(T) => S = T)
  BY FS_Subset
<1>2. Cardinality(T) \in Nat /\ Cardinality(S) \in Nat
  BY <1>1, FS_CardinalityType
<1> QED BY <1>1, <1>2

LEMMA ImageOf ==
  ASSUME NEW f, IsFiniteSet(DOMAIN f), f = [x \in DOMAIN f |-> f[x]]
  PROVE  IsFiniteSet({f[x] : x \in DOMAIN f})
<1>1. PICK S : S = DOMAIN f
  OBVIOUS
<1>2. PICK T : T = {f[x] : x \in S}
  OBVIOUS
<1>3. f \in Surjection(S, T)
  BY <1>1, <1>2 DEF Surjection
<1> QED BY <1>1, <1>2, <1>3, FS_Surjection

LEMMA LargestExists ==
  ASSUME NEW S \in SUBSET Int, IsFiniteSet(S), S # {}
  PROVE  \E x \in S : \A y \in S : y <= x
<1>1. PICK above : above = [x \in S |-> {y \in S : y > x}]
  OBVIOUS
<1>2. \A x \in S : above[x] \in SUBSET S
  BY <1>1
<1>3. PICK N \in SUBSET Nat : N = {Cardinality(above[x]) : x \in S}
  <2>1. \A x \in S : Cardinality(above[x]) \in Nat
    BY <1>2, PartOf
  <2>2. {Cardinality(above[x]) : x \in S} \in SUBSET Nat
    BY <2>1
  <2> QED BY <2>2
<1>4. N # {}
  BY <1>3
<1>5. PICK k \in N : \A m \in N : k <= m
  BY <1>4, LeastExists
<1>6. PICK x \in S : k = Cardinality(above[x])
  BY <1>3, <1>5
<1>7. ASSUME NEW z \in S, z > x PROVE FALSE
  <2>1. above[z] \subseteq above[x] /\ z \in above[x] /\ z \notin above[z]
    <3>1. \A y \in S : y > z => y > x
      <4>1. \A y \in S : y \in Int
        OBVIOUS
      <4> QED BY <1>7, <4>1
    <3>2. above[z] = {y \in S : y > z} /\ above[x] = {y \in S : y > x} /\ ~(z > z)
      BY <1>1
    <3> QED BY <1>7, <3>1, <3>2
  <2>2. IsFiniteSet(above[x])
    BY <1>2, PartOf
  <2>3. Cardinality(above[z]) < Cardinality(above[x])
    BY <2>1, <2>2, PartOf
  <2>4. Cardinality(above[z]) \in N
    BY <1>3
  <2>5. k <= Cardinality(above[z]) /\ k \in Nat /\ Cardinality(above[z]) \in Nat
    BY <1>5, <2>4
  <2> QED BY <1>6, <2>3, <2>5
<1> QED BY <1>7

AtMost(s, v) == {i \in DOMAIN s : s[i] <= v}
Below(s, v)  == {i \in DOMAIN s : s[i] < v}

\* v is the k-th smallest of s.
Ranks(s, k, v) == /\ \E i \in DOMAIN s : s[i] = v
                  /\ Cardinality(Below(s, v)) < k /\ k <= Cardinality(AtMost(s, v))

LEMMA CountsAre ==
  ASSUME NEW s \in Seq(Int), NEW v \in Int
  PROVE  /\ IsFiniteSet(AtMost(s, v)) /\ IsFiniteSet(Below(s, v)) /\ IsFiniteSet(DOMAIN s) /\ Cardinality(DOMAIN s) = Len(s)
         /\ Cardinality(AtMost(s, v)) \in Nat /\ Cardinality(Below(s, v)) \in Nat
<1>1. IsFiniteSet(1..Len(s)) /\ Cardinality(1..Len(s)) = Len(s) /\ DOMAIN s = 1..Len(s)
  <2>1. Len(s) \in Nat /\ DOMAIN s = 1..Len(s)
    OBVIOUS
  <2>2. IsFiniteSet(1..Len(s)) /\ Cardinality(1..Len(s)) = IF 1 > Len(s) THEN 0 ELSE Len(s) - 1 + 1
    BY <2>1, FS_Interval
  <2> QED BY <2>1, <2>2
<1>2. AtMost(s, v) \subseteq DOMAIN s /\ Below(s, v) \subseteq DOMAIN s
  BY DEF AtMost, Below
<1> QED BY <1>1, <1>2, FS_Subset, FS_CardinalityType

LEMMA RankExists ==
  ASSUME NEW s \in Seq(Int), NEW k \in DOMAIN s
  PROVE  \E v \in Int : Ranks(s, k, v)
<1>1. PICK R \in SUBSET Int : R = {s[i] : i \in DOMAIN s} /\ IsFiniteSet(R) /\ R # {}
  <2>1. {s[i] : i \in DOMAIN s} \in SUBSET Int /\ {s[i] : i \in DOMAIN s} # {}
    OBVIOUS
  <2>2. IsFiniteSet(DOMAIN s)
    BY CountsAre, 0 \in Int
  <2>3. s = [i \in DOMAIN s |-> s[i]]
    OBVIOUS
  <2>4. IsFiniteSet({s[i] : i \in DOMAIN s})
    BY <2>2, <2>3, ImageOf
  <2> QED BY <2>1, <2>4
<1>2. PICK T \in SUBSET Int : T = {v \in R : k <= Cardinality(AtMost(s, v))}
  OBVIOUS
<1>3. T # {} /\ IsFiniteSet(T)
  <2>1. PICK x \in R : \A y \in R : y <= x
    BY <1>1, LargestExists
  <2>2. AtMost(s, x) = DOMAIN s
    BY <1>1, <2>1 DEF AtMost
  <2>3. Cardinality(AtMost(s, x)) = Len(s) /\ k <= Len(s)
    BY <2>2, CountsAre
  <2>4. x \in T
    BY <1>2, <2>3
  <2> QED BY <1>1, <1>2, <2>4, FS_Subset
<1>4. PICK v \in T : \A u \in T : v <= u
  <2>1. PICK M \in SUBSET Int : M = {0 - u : u \in T}
    <3>1. {0 - u : u \in T} \in SUBSET Int
      OBVIOUS
    <3> QED BY <3>1
  <2>2. IsFiniteSet(M) /\ M # {}
    <3>1. PICK f : f = [u \in T |-> 0 - u]
      OBVIOUS
    <3>2. DOMAIN f = T /\ f = [u \in DOMAIN f |-> f[u]] /\ M = {f[u] : u \in DOMAIN f}
      BY <2>1, <3>1
    <3> QED BY <1>3, <3>2, ImageOf
  <2>3. PICK x \in M : \A y \in M : y <= x
    BY <2>2, LargestExists
  <2>4. PICK v \in T : x = 0 - v
    BY <2>1, <2>3
  <2>5. ASSUME NEW u \in T PROVE v <= u
    <3>1. 0 - u \in M /\ u \in Int /\ v \in Int
      BY <2>1
    <3>2. 0 - u <= 0 - v
      BY <2>3, <2>4, <3>1
    <3> QED BY <3>1, <3>2
  <2> QED BY <2>5
<1>5. Cardinality(Below(s, v)) < k
  <2>1. k \in Nat \ {0} /\ v \in Int
    OBVIOUS
  <2>2. CASE Below(s, v) = {}
    BY <2>1, <2>2, FS_EmptySet
  <2>3. CASE Below(s, v) # {}
    <3>1. PICK U \in SUBSET Int : U = {u \in R : u < v} /\ IsFiniteSet(U)
      <4>1. PICK U \in SUBSET R : U = {u \in R : u < v}
        OBVIOUS
      <4> QED BY <1>1, <4>1, FS_Subset, SMTT(30)
    <3>2. U # {}
      BY <1>1, <2>3, <3>1 DEF Below
    <3>3. PICK u \in U : \A y \in U : y <= u
      BY <3>1, <3>2, LargestExists
    <3>4. u \in R /\ u \in Int /\ u < v
      BY <3>1
    <3>5. u \notin T
      BY <1>4, <2>1, <3>4
    <3>6. ~(k <= Cardinality(AtMost(s, u)))
      BY <1>2, <3>4, <3>5
    <3>7. Below(s, v) \subseteq AtMost(s, u)
      <4> SUFFICES ASSUME NEW i \in DOMAIN s, s[i] < v PROVE s[i] <= u
        BY DEF Below, AtMost
      <4>1. s[i] \in U
        BY <1>1, <3>1
      <4> QED BY <3>3, <4>1
    <3>8. IsFiniteSet(AtMost(s, u)) /\ Cardinality(AtMost(s, u)) \in Nat /\ Cardinality(Below(s, v)) \in Nat
      BY <2>1, <3>4, CountsAre
    <3>9. Cardinality(Below(s, v)) <= Cardinality(AtMost(s, u))
      BY <3>7, <3>8, FS_Subset
    <3> QED BY <2>1, <3>6, <3>8, <3>9
  <2> QED BY <2>2, <2>3
<1>6. Ranks(s, k, v)
  BY <1>1, <1>2, <1>5 DEF Ranks
<1> QED BY <1>6

LEMMA RanksAscend ==
  ASSUME NEW s \in Seq(Int), NEW k \in Nat, NEW l \in Nat, NEW v \in Int, NEW w \in Int,
         Ranks(s, k, v), Ranks(s, l, w), k <= l
  PROVE  v <= w
<1> SUFFICES ASSUME w < v PROVE FALSE
  OBVIOUS
<1>1. AtMost(s, w) \subseteq Below(s, v)
  BY DEF AtMost, Below
<1>2. Cardinality(AtMost(s, w)) <= Cardinality(Below(s, v))
  BY <1>1, CountsAre, FS_Subset
<1>3. Cardinality(AtMost(s, w)) \in Nat /\ Cardinality(Below(s, v)) \in Nat
  BY CountsAre
<1> QED BY <1>2, <1>3 DEF Ranks

LEMMA OrderedRanks ==
  ASSUME NEW s \in Seq(Int)
  PROVE  /\ DOMAIN Ordered(s) = DOMAIN s
         /\ \A k \in DOMAIN s : Ordered(s)[k] \in Int /\ Ranks(s, k, Ordered(s)[k])
<1>1. DOMAIN Ordered(s) = DOMAIN s
  BY DEF Ordered
<1>2. ASSUME NEW k \in DOMAIN s PROVE Ordered(s)[k] \in Int /\ Ranks(s, k, Ordered(s)[k])
  <2>1. PICK v \in Int : Ranks(s, k, v)
    BY RankExists
  <2>2. PICK R : R = {s[i] : i \in DOMAIN s}
    OBVIOUS
  <2>3. v \in R /\ Cardinality({i \in DOMAIN s : s[i] < v}) < k /\ k <= Cardinality({i \in DOMAIN s : s[i] <= v})
    BY <2>1, <2>2 DEF Ranks, Below, AtMost
  <2>4. PICK w : w = CHOOSE u \in R : Cardinality({i \in DOMAIN s : s[i] < u}) < k /\ k <= Cardinality({i \in DOMAIN s : s[i] <= u})
    OBVIOUS
  <2>5. w \in R /\ Cardinality({i \in DOMAIN s : s[i] < w}) < k /\ k <= Cardinality({i \in DOMAIN s : s[i] <= w})
    BY <2>3, <2>4
  <2>6. Ordered(s)[k] = w
    BY <2>2, <2>4 DEF Ordered
  <2>7. w \in Int
    BY <2>2, <2>5
  <2>8. Ranks(s, k, w)
    BY <2>2, <2>5 DEF Ranks, Below, AtMost
  <2> QED BY <2>6, <2>7, <2>8
<1> QED BY <1>1, <1>2

Mirrored(s) == [k \in DOMAIN s |-> 0 - s[k]]

LEMMA OrderedMirrored ==
  ASSUME NEW s \in Seq(Int)
  PROVE  /\ Mirrored(s) \in Seq(Int) /\ Len(Mirrored(s)) = Len(s)
         /\ \A k \in DOMAIN s : Ordered(Mirrored(s))[Len(s) + 1 - k] = 0 - Ordered(s)[k]
<1>1. PICK n \in Nat : n = Len(s) /\ DOMAIN s = 1..n
  OBVIOUS
<1>2. PICK m : m = Mirrored(s)
  OBVIOUS
<1>3. m = [k \in 1..n |-> 0 - s[k]] /\ \A k \in 1..n : s[k] \in Int
  BY <1>1, <1>2 DEF Mirrored
<1>4. m \in Seq(Int) /\ Len(m) = n /\ DOMAIN m = 1..n
  BY <1>3
<1>5. ASSUME NEW k \in 1..n PROVE Ordered(m)[n + 1 - k] = 0 - Ordered(s)[k]
  <2>1. PICK v \in Int : v = Ordered(s)[k] /\ Ranks(s, k, v)
    BY <1>1, OrderedRanks
  <2>2. PICK j \in 1..n : j = n + 1 - k
    OBVIOUS
  <2>3. PICK w \in Int : w = Ordered(m)[j] /\ Ranks(m, j, w)
    BY <1>4, OrderedRanks
  <2>4. PICK u \in Int : u = 0 - v
    OBVIOUS
  <2>5. Below(m, u) = (1..n) \ AtMost(s, v) /\ AtMost(m, u) = (1..n) \ Below(s, v)
    <3>1. \A i \in 1..n : m[i] = 0 - s[i] /\ s[i] \in Int
      BY <1>3
    <3>2. \A i \in 1..n : (m[i] < u <=> ~(s[i] <= v)) /\ (m[i] <= u <=> ~(s[i] < v))
      BY <2>4, <3>1
    <3> QED BY <1>1, <1>4, <3>2 DEF Below, AtMost
  <2>6. AtMost(s, v) \subseteq 1..n /\ Below(s, v) \subseteq 1..n
    BY <1>1 DEF AtMost, Below
  <2>7. IsFiniteSet(1..n) /\ Cardinality(1..n) = n
    <3>1. Cardinality(1..n) = IF 1 > n THEN 0 ELSE n - 1 + 1
      BY FS_Interval
    <3> QED BY <3>1, FS_Interval
  <2>8. Cardinality((1..n) \ AtMost(s, v)) = n - Cardinality(AtMost(s, v)) /\ Cardinality((1..n) \ Below(s, v)) = n - Cardinality(Below(s, v))
    <3>1. PICK A : A = AtMost(s, v)
      OBVIOUS
    <3>2. PICK B : B = Below(s, v)
      OBVIOUS
    <3>3. (1..n) \cap A = A /\ (1..n) \cap B = B
      BY <2>6, <3>1, <3>2
    <3>4. Cardinality((1..n) \ A) = Cardinality(1..n) - Cardinality((1..n) \cap A)
      BY <2>7, FS_Difference
    <3>5. Cardinality((1..n) \ B) = Cardinality(1..n) - Cardinality((1..n) \cap B)
      BY <2>7, FS_Difference
    <3> QED BY <2>7, <3>1, <3>2, <3>3, <3>4, <3>5
  <2>9. Cardinality(AtMost(s, v)) \in Nat /\ Cardinality(Below(s, v)) \in Nat
    BY CountsAre
  <2>10. Cardinality(Below(s, v)) < k /\ k <= Cardinality(AtMost(s, v)) /\ \E i \in DOMAIN s : s[i] = v
    BY <2>1 DEF Ranks
  <2>11. Cardinality(Below(m, u)) < j /\ j <= Cardinality(AtMost(m, u))
    BY <2>2, <2>5, <2>8, <2>9, <2>10
  <2>12. \E i \in DOMAIN m : m[i] = u
    BY <1>1, <1>3, <1>4, <2>4, <2>10
  <2>13. Ranks(m, j, u)
    BY <2>11, <2>12 DEF Ranks
  <2>14. u <= w /\ w <= u
    BY <1>4, <2>3, <2>13, RanksAscend
  <2> QED BY <2>1, <2>2, <2>3, <2>4, <2>14
<1> QED BY <1>1, <1>2, <1>4, <1>5

-----------------------------------------------------------------------------
(* Percentiles *)

\* The value at the position r / 100 of what t has in ascending order, times 100.
At(t, r) == 100 * t[r \div 100 + 1] + (t[(r + 99) \div 100 + 1] - t[r \div 100 + 1]) * (r % 100)

Rising(t, n) == t \in [1..n -> Int] /\ \A i, j \in 1..n : i <= j => t[i] <= t[j]

LEMMA Position == \A r \in Nat : \E a \in Nat, f \in 0..99 : r = 100 * a + f
<1> SUFFICES ASSUME NEW r \in Nat PROVE \E a \in Nat, f \in 0..99 : r = 100 * a + f
  OBVIOUS
<1>1. PICK a \in Nat : a = r \div 100
  OBVIOUS
<1>2. PICK f \in 0..99 : f = r % 100
  OBVIOUS
<1>3. r = 100 * a + f
  BY <1>1, <1>2
<1> QED BY <1>3

LEMMA AtIs ==
  ASSUME NEW n \in Nat \ {0}, NEW t, Rising(t, n), NEW r \in 0..(100 * (n - 1)), NEW a \in Nat, NEW f \in 0..99, r = 100 * a + f
  PROVE  /\ f = 0 => a + 1 \in 1..n /\ At(t, r) = 100 * t[a + 1]
         /\ f # 0 => a + 1 \in 1..n /\ a + 2 \in 1..n /\ At(t, r) = 100 * t[a + 1] + (t[a + 2] - t[a + 1]) * f
<1>1. r \div 100 = a /\ r % 100 = f /\ (r + 99) \div 100 = IF f = 0 THEN a ELSE a + 1
  OBVIOUS
<1>2. CASE f = 0
  <2>1. a + 1 \in 1..n
    BY <1>2
  <2>2. t[a + 1] \in Int
    BY <2>1 DEF Rising
  <2>3. At(t, r) = 100 * t[a + 1] + (t[a + 1] - t[a + 1]) * 0
    BY <1>1, <1>2 DEF At
  <2> QED BY <1>2, <2>1, <2>2, <2>3
<1>3. CASE f # 0
  <2>1. a + 1 \in 1..n /\ a + 2 \in 1..n /\ (a + 1) + 1 = a + 2
    BY <1>3
  <2>2. At(t, r) = 100 * t[a + 1] + (t[(a + 1) + 1] - t[a + 1]) * f
    BY <1>1, <1>3 DEF At
  <2> QED BY <1>3, <2>1, <2>2
<1> QED BY <1>2, <1>3

LEMMA Within100 ==
  ASSUME NEW x \in Int, NEW y \in Int, x <= y, NEW f \in 0..100
  PROVE  100 * x <= 100 * x + (y - x) * f /\ 100 * x + (y - x) * f <= 100 * y
<1>1. PICK d \in Nat : d = y - x
  OBVIOUS
<1>2. f * d <= 100 * d /\ 0 * d <= f * d
  BY Multiples
<1>3. f * d = d * f /\ d * f \in Int
  OBVIOUS
<1> QED BY <1>1, <1>2, <1>3

LEMMA Between100 ==
  ASSUME NEW x \in Int, NEW y \in Int, x <= y, NEW f \in 0..100, NEW g \in 0..100, f <= g
  PROVE  100 * x + (y - x) * f <= 100 * x + (y - x) * g
<1>1. PICK d \in Nat : d = y - x
  OBVIOUS
<1>2. f * d <= g * d
  BY Multiples
<1>3. f * d = d * f /\ g * d = d * g /\ d * f \in Int /\ d * g \in Int
  OBVIOUS
<1> QED BY <1>1, <1>2, <1>3

LEMMA AtRises ==
  ASSUME NEW n \in Nat \ {0}, NEW t, Rising(t, n), NEW r \in 0..(100 * (n - 1)), NEW q \in 0..(100 * (n - 1)), r <= q
  PROVE  At(t, r) <= At(t, q)
<1>1. PICK a \in Nat, f \in 0..99 : r = 100 * a + f
  <2>1. r \in Nat
    OBVIOUS
  <2> QED BY <2>1, Position
<1>2. PICK b \in Nat, g \in 0..99 : q = 100 * b + g
  <2>1. q \in Nat
    OBVIOUS
  <2> QED BY <2>1, Position
<1>3. PICK x \in Int : x = t[a + 1] /\ a + 1 \in 1..n
  BY <1>1, AtIs DEF Rising
<1>4. PICK y \in Int : y = t[b + 1] /\ b + 1 \in 1..n
  BY <1>2, AtIs DEF Rising
<1>5. PICK v \in Int : v = At(t, r) /\ 100 * x <= v /\ (f = 0 => v = 100 * x) /\ (f # 0 => v <= 100 * t[a + 2] /\ a + 2 \in 1..n /\ v = 100 * x + (t[a + 2] - x) * f)
  <2>1. CASE f = 0
    BY <1>1, <1>3, <2>1, AtIs
  <2>2. CASE f # 0
    <3>1. a + 2 \in 1..n /\ At(t, r) = 100 * x + (t[a + 2] - x) * f
      BY <1>1, <1>3, <2>2, AtIs
    <3>2. PICK z \in Int : z = t[a + 2] /\ x <= z
      BY <1>3, <3>1 DEF Rising
    <3>3. 100 * x <= 100 * x + (z - x) * f /\ 100 * x + (z - x) * f <= 100 * z
      BY <3>2, Within100
    <3> QED BY <2>2, <3>1, <3>2, <3>3
  <2> QED BY <2>1, <2>2
<1>6. PICK w \in Int : w = At(t, q) /\ 100 * y <= w /\ (g = 0 => w = 100 * y) /\ (g # 0 => b + 2 \in 1..n /\ w = 100 * y + (t[b + 2] - y) * g)
  <2>1. CASE g = 0
    BY <1>2, <1>4, <2>1, AtIs
  <2>2. CASE g # 0
    <3>1. b + 2 \in 1..n /\ At(t, q) = 100 * y + (t[b + 2] - y) * g
      BY <1>2, <1>4, <2>2, AtIs
    <3>2. PICK z \in Int : z = t[b + 2] /\ y <= z
      BY <1>4, <3>1 DEF Rising
    <3>3. 100 * y <= 100 * y + (z - y) * g
      BY <3>2, Within100
    <3> QED BY <2>2, <3>1, <3>2, <3>3
  <2> QED BY <2>1, <2>2
<1>7. CASE a < b
  <2>1. x <= y
    BY <1>3, <1>4, <1>7 DEF Rising
  <2>2. CASE f = 0
    BY <1>5, <1>6, <2>1, <2>2
  <2>3. CASE f # 0
    <3>1. a + 2 \in 1..n /\ v <= 100 * t[a + 2]
      BY <1>5, <2>3
    <3>2. PICK z \in Int : z = t[a + 2]
      BY <3>1 DEF Rising
    <3>3. a + 2 <= b + 1
      BY <1>7
    <3>4. z <= y
      BY <1>4, <3>1, <3>2, <3>3 DEF Rising
    <3> QED BY <1>5, <1>6, <3>1, <3>2, <3>4
  <2> QED BY <2>2, <2>3
<1>8. CASE a = b
  <2>1. f <= g /\ x = y
    BY <1>1, <1>2, <1>3, <1>4, <1>8
  <2>2. CASE f = 0
    BY <1>5, <1>6, <2>1, <2>2
  <2>3. CASE f # 0
    <3>1. g # 0
      BY <2>1, <2>3
    <3>2. PICK z \in Int : z = t[a + 2] /\ x <= z
      BY <1>3, <1>5, <2>3 DEF Rising
    <3>3. v = 100 * x + (z - x) * f /\ w = 100 * x + (z - x) * g
      BY <1>5, <1>6, <1>8, <2>1, <2>3, <3>1, <3>2
    <3>4. 100 * x + (z - x) * f <= 100 * x + (z - x) * g
      BY <2>1, <3>2, Between100, SMTT(30)
    <3> QED BY <1>5, <1>6, <3>3, <3>4
  <2> QED BY <2>2, <2>3
<1>9. a < b \/ a = b
  BY <1>1, <1>2
<1> QED BY <1>7, <1>8, <1>9

\* Mirrored, what was at the position r is as far from the other end.
LEMMA AtMirrored ==
  ASSUME NEW n \in Nat \ {0}, NEW t, Rising(t, n), NEW u, Rising(u, n), \A k \in 1..n : u[n + 1 - k] = 0 - t[k],
         NEW r \in 0..(100 * (n - 1))
  PROVE  At(u, 100 * (n - 1) - r) = 0 - At(t, r)
<1>1. PICK a \in Nat, f \in 0..99 : r = 100 * a + f
  <2>1. r \in Nat
    OBVIOUS
  <2> QED BY <2>1, Position
<1>2. PICK q \in 0..(100 * (n - 1)) : q = 100 * (n - 1) - r
  OBVIOUS
<1>3. CASE f = 0
  <2>1. a + 1 \in 1..n /\ At(t, r) = 100 * t[a + 1]
    BY <1>1, <1>3, AtIs
  <2>2. PICK b \in Nat : b = n - 1 - a /\ q = 100 * b + f
    BY <1>1, <1>2, <1>3, <2>1
  <2>3. At(u, q) = 100 * u[b + 1]
    <3>1. b \in Nat /\ q = 100 * b + f
      BY <2>2
    <3> QED BY <1>3, <3>1, AtIs
  <2>4. b + 1 = n + 1 - (a + 1)
    BY <2>2
  <2>5. u[b + 1] = 0 - t[a + 1] /\ t[a + 1] \in Int
    BY <2>1, <2>4 DEF Rising
  <2> QED BY <1>2, <2>1, <2>3, <2>5
<1>4. CASE f # 0
  <2>1. a + 1 \in 1..n /\ a + 2 \in 1..n /\ At(t, r) = 100 * t[a + 1] + (t[a + 2] - t[a + 1]) * f
    BY <1>1, <1>4, AtIs
  <2>2. PICK b \in Nat : b = n - 2 - a
    BY <2>1
  <2>3. PICK g \in 0..99 : g = 100 - f /\ g # 0 /\ q = 100 * b + g
    BY <1>1, <1>2, <1>4, <2>2
  <2>4. At(u, q) = 100 * u[b + 1] + (u[b + 2] - u[b + 1]) * g
    <3>1. b \in Nat /\ g \in 0..99 /\ g # 0 /\ q = 100 * b + g
      BY <2>3
    <3> QED BY <3>1, AtIs
  <2>5. b + 1 = n + 1 - (a + 2) /\ b + 2 = n + 1 - (a + 1)
    BY <2>2
  <2>6. PICK x \in Int, y \in Int : x = t[a + 1] /\ y = t[a + 2]
    BY <2>1 DEF Rising
  <2>7. u[b + 1] = 0 - y /\ u[b + 2] = 0 - x
    BY <2>1, <2>5, <2>6
  <2>8. 100 * (0 - y) + ((0 - x) - (0 - y)) * (100 - f) = 0 - (100 * x + (y - x) * f)
    <3>1. PICK d \in Int : d = y - x
      OBVIOUS
    <3>2. (0 - x) - (0 - y) = d /\ d * (100 - f) = 100 * d - d * f /\ d * f \in Int
      BY <3>1
    <3> QED BY <3>1, <3>2
  <2> QED BY <1>2, <2>1, <2>3, <2>4, <2>6, <2>7, <2>8
<1> QED BY <1>3, <1>4

LEMMA OrderedRises ==
  ASSUME NEW s \in Seq(Int)
  PROVE  Rising(Ordered(s), Len(s))
<1>1. PICK t : t = Ordered(s)
  OBVIOUS
<1>2. DOMAIN s = 1..Len(s) /\ Len(s) \in Nat
  OBVIOUS
<1>3. \A k \in 1..Len(s) : t[k] \in Int /\ Ranks(s, k, t[k])
  BY <1>1, <1>2, OrderedRanks
<1>4. t \in [1..Len(s) -> Int]
  BY <1>1, <1>2, <1>3 DEF Ordered
<1>5. \A i, j \in 1..Len(s) : i <= j => t[i] <= t[j]
  BY <1>3, RanksAscend
<1> QED BY <1>1, <1>4, <1>5 DEF Rising

LEMMA PercentilesAre ==
  ASSUME NEW s \in Seq(Int), s # <<>>
  PROVE  /\ Percentile(s, 0) = 100 * Head(Ordered(s)) /\ Percentile(s, 100) = 100 * Ordered(s)[Len(s)]
         /\ \A p, q \in 0..100 : p <= q => Percentile(s, p) <= Percentile(s, q)
         /\ \A p \in 0..100 : Percentile(Mirrored(s), 100 - p) = 0 - Percentile(s, p)
<1>1. PICK n \in Nat \ {0} : n = Len(s) /\ DOMAIN s = 1..n
  OBVIOUS
<1>2. PICK t : t = Ordered(s)
  OBVIOUS
<1>3. Rising(t, n)
  BY <1>1, <1>2, OrderedRises
<1>4. \A p \in 0..100 : Percentile(s, p) = At(t, p * (n - 1))
  BY <1>1, <1>2 DEF Percentile, At
<1>5. \A p \in 0..100 : p * (n - 1) \in 0..(100 * (n - 1))
  <2> SUFFICES ASSUME NEW p \in 0..100 PROVE p * (n - 1) \in 0..(100 * (n - 1))
    OBVIOUS
  <2>1. n - 1 \in Nat
    OBVIOUS
  <2>2. 0 * (n - 1) <= p * (n - 1) /\ p * (n - 1) <= 100 * (n - 1) /\ p * (n - 1) \in Int
    BY <2>1, Multiples
  <2> QED BY <2>1, <2>2
<1>6. Percentile(s, 0) = 100 * Head(Ordered(s))
  <2>1. At(t, 0) = 100 * t[1]
    <3>1. PICK q \in 0..(100 * (n - 1)) : q = 0
      OBVIOUS
    <3>2. PICK a \in Nat : a = 0
      OBVIOUS
    <3>3. PICK f \in 0..99 : f = 0
      OBVIOUS
    <3>4. q = 100 * a + f
      BY <3>1, <3>2, <3>3
    <3>5. At(t, q) = 100 * t[a + 1]
      BY <1>3, <3>3, <3>4, AtIs
    <3>6. a + 1 = 1
      BY <3>2
    <3> QED BY <3>1, <3>5, <3>6
  <2>2. 0 * (n - 1) = 0
    OBVIOUS
  <2>3. Head(t) = t[1]
    <3>1. t \in Seq(Int) /\ t # <<>>
      BY <1>3 DEF Rising
    <3> QED BY <3>1
  <2>4. Percentile(s, 0) = At(t, 0 * (n - 1))
    BY <1>4
  <2> QED BY <1>2, <2>1, <2>2, <2>3, <2>4
<1>7. Percentile(s, 100) = 100 * Ordered(s)[Len(s)]
  <2>1. PICK a \in Nat : a = n - 1
    OBVIOUS
  <2>2. PICK q \in 0..(100 * (n - 1)) : q = 100 * a + 0 /\ q = 100 * (n - 1)
    BY <2>1
  <2>3. At(t, q) = 100 * t[a + 1]
    <3>1. PICK f \in 0..99 : f = 0
      OBVIOUS
    <3>2. q = 100 * a + f
      BY <2>2, <3>1
    <3> QED BY <1>3, <3>1, <3>2, AtIs
  <2>4. a + 1 = n
    BY <2>1
  <2>5. Percentile(s, 100) = At(t, 100 * (n - 1))
    BY <1>4
  <2> QED BY <1>1, <1>2, <2>2, <2>3, <2>4, <2>5
<1>8. ASSUME NEW p \in 0..100, NEW q \in 0..100, p <= q PROVE Percentile(s, p) <= Percentile(s, q)
  <2>1. p * (n - 1) <= q * (n - 1)
    <3>1. n - 1 \in Nat /\ p \in Int /\ q \in Int
      OBVIOUS
    <3> QED BY <1>8, <3>1, Multiples
  <2> QED BY <1>3, <1>4, <1>5, <2>1, AtRises
<1>9. ASSUME NEW p \in 0..100 PROVE Percentile(Mirrored(s), 100 - p) = 0 - Percentile(s, p)
  <2>1. PICK m \in Seq(Int) : m = Mirrored(s) /\ Len(m) = n
    BY <1>1, OrderedMirrored
  <2>2. PICK u : u = Ordered(m)
    OBVIOUS
  <2>3. Rising(u, n)
    BY <2>1, <2>2, OrderedRises
  <2>4. \A k \in 1..n : u[n + 1 - k] = 0 - t[k]
    BY <1>1, <1>2, <2>1, <2>2, OrderedMirrored
  <2>5. Percentile(m, 100 - p) = At(u, (100 - p) * (n - 1))
    BY <2>1, <2>2 DEF Percentile, At
  <2>6. (100 - p) * (n - 1) = 100 * (n - 1) - p * (n - 1)
    OBVIOUS
  <2>7. At(u, 100 * (n - 1) - p * (n - 1)) = 0 - At(t, p * (n - 1))
    <3>1. PICK r \in 0..(100 * (n - 1)) : r = p * (n - 1)
      BY <1>5
    <3>2. At(u, 100 * (n - 1) - r) = 0 - At(t, r)
      BY <1>3, <2>3, <2>4, AtMirrored
    <3> QED BY <3>1, <3>2
  <2> QED BY <1>4, <2>1, <2>5, <2>6, <2>7
<1> QED BY <1>6, <1>7, <1>8, <1>9

-----------------------------------------------------------------------------
(* Histograms *)

Counted(s, i) == {k \in DOMAIN s : i <= Len(Bounds) => s[k] <= Bounds[i]}

LEMMA FirstBucketIs ==
  ASSUME NEW x \in Int
  PROVE  /\ FirstBucket(x) \in 1..(Len(Bounds) + 1)
         /\ \A i \in 1..(Len(Bounds) + 1) : i >= FirstBucket(x) <=> (i <= Len(Bounds) => x <= Bounds[i])
<1>1. PICK n \in Nat : n = Len(Bounds) /\ DOMAIN Bounds = 1..n
  BY BoundsAssumption
<1>2. \A i \in 1..n : Bounds[i] \in Int
  BY <1>1, BoundsAssumption
<1>3. \A i, j \in 1..n : i < j => Bounds[i] < Bounds[j]
  BY <1>1, BoundsAssumption
<1>4. PICK W \in SUBSET Nat : W = {i \in 1..n : x <= Bounds[i]}
  <2>1. {i \in 1..n : x <= Bounds[i]} \in SUBSET Nat
    OBVIOUS
  <2> QED BY <2>1
<1>5. CASE W = {}
  <2>1. FirstBucket(x) = n + 1
    BY <1>1, <1>4, <1>5 DEF FirstBucket
  <2>2. \A i \in 1..n : ~(x <= Bounds[i])
    BY <1>4, <1>5
  <2> QED BY <1>1, <2>1, <2>2
<1>6. CASE W # {}
  <2>1. \E i \in W : \A j \in W : i <= j
    BY <1>6, LeastExists
  <2>2. PICK c : c = CHOOSE i \in W : \A j \in W : i <= j
    OBVIOUS
  <2>3. c \in W /\ \A j \in W : c <= j
    BY <2>1, <2>2
  <2>4. FirstBucket(x) = c
    BY <1>1, <1>4, <1>6, <2>2 DEF FirstBucket
  <2>5. c \in 1..n /\ x <= Bounds[c] /\ Bounds[c] \in Int
    BY <1>2, <1>4, <2>3
  <2>6. ASSUME NEW i \in 1..(n + 1) PROVE i >= c <=> (i <= n => x <= Bounds[i])
    <3>1. CASE i = n + 1
      BY <2>5, <3>1
    <3>2. CASE i # n + 1
      <4>1. i \in 1..n /\ Bounds[i] \in Int
        BY <1>2, <3>2
      <4>2. c < i => x <= Bounds[i]
        <5>1. c < i => Bounds[c] < Bounds[i]
          BY <1>3, <2>5, <4>1
        <5> QED BY <2>5, <4>1, <5>1
      <4>3. x <= Bounds[i] => c <= i
        BY <1>4, <2>3, <4>1
      <4> QED BY <2>5, <4>1, <4>2, <4>3
    <3> QED BY <3>1, <3>2
  <2> QED BY <1>1, <2>4, <2>5, <2>6
<1> QED BY <1>5, <1>6

LEMMA CountedAppend ==
  ASSUME NEW s \in Seq(Int), NEW x \in Int, NEW i \in 1..(Len(Bounds) + 1)
  PROVE  Cardinality(Counted(Append(s, x), i)) =
           IF i >= FirstBucket(x) THEN Cardinality(Counted(s, i)) + 1 ELSE Cardinality(Counted(s, i))
<1>1. PICK n \in Nat : n = Len(s) /\ DOMAIN s = 1..n
  OBVIOUS
<1>2. PICK t : t = Append(s, x)
  OBVIOUS
<1>3. DOMAIN t = 1..(n + 1) /\ t[n + 1] = x /\ \A k \in 1..n : t[k] = s[k]
  BY <1>1, <1>2
<1>4. n + 1 \notin Counted(s, i)
  BY <1>1 DEF Counted
<1>5. IsFiniteSet(Counted(s, i))
  <2>1. Counted(s, i) \subseteq 1..n
    BY <1>1 DEF Counted
  <2>2. IsFiniteSet(1..n)
    BY FS_Interval
  <2> QED BY <2>1, <2>2, FS_Subset
<1>6. i >= FirstBucket(x) <=> (i <= Len(Bounds) => x <= Bounds[i])
  BY FirstBucketIs
<1>7. \A k \in 1..(n + 1) : k \in 1..n \/ k = n + 1
  OBVIOUS
<1>8. CASE i >= FirstBucket(x)
  <2>1. Counted(t, i) = Counted(s, i) \cup {n + 1}
    BY <1>1, <1>3, <1>6, <1>7, <1>8 DEF Counted
  <2> QED BY <1>2, <1>4, <1>5, <1>8, <2>1, FS_AddElement
<1>9. CASE ~(i >= FirstBucket(x))
  <2>1. Counted(t, i) = Counted(s, i)
    BY <1>1, <1>3, <1>6, <1>7, <1>9 DEF Counted
  <2> QED BY <1>2, <1>9, <2>1
<1> QED BY <1>8, <1>9

Faithful(counts, seen) ==
  /\ counts \in [1..(Len(Bounds) + 1) -> Nat] /\ seen \in Seq(Int)
  /\ \A i \in 1..(Len(Bounds) + 1) : counts[i] = Cardinality(Counted(seen, i))

MetricInv ==
  /\ buckets = [m \in Instances |-> [l \in Series |-> buckets[m][l]]]
  /\ observations = [m \in Instances |-> [l \in Series |-> observations[m][l]]]
  /\ \A m \in Instances, l \in Series : Faithful(buckets[m][l], observations[m][l])

LEMMA MetricStep ==
  ASSUME MetricInv, [MetricNext]_metricVars
  PROVE  MetricInv'
<1>1. ASSUME NEW m \in Instances, NEW n \in MetricNames, CreateMetric(m, n) PROVE MetricInv'
  BY <1>1 DEF CreateMetric, MetricInv
<1>2. ASSUME NEW m \in Instances, NEW l \in Series \cup OtherLabels, NEW amount \in {-1, 1}, Increment(m, l, amount) PROVE MetricInv'
  BY <1>2 DEF Increment, MetricInv
<1>3. ASSUME NEW m \in Instances, NEW l \in Series, NEW x \in Values, Observe(m, l, x) PROVE MetricInv'
  <2>1. PICK s \in Seq(Int) : s = observations[m][l]
    BY DEF MetricInv, Faithful
  <2>2. PICK old \in [1..(Len(Bounds) + 1) -> Nat] : old = buckets[m][l] /\ \A i \in 1..(Len(Bounds) + 1) : old[i] = Cardinality(Counted(s, i))
    BY <2>1 DEF MetricInv, Faithful
  <2>3. PICK t : t = Append(s, x)
    OBVIOUS
  <2>4. PICK new : new = [i \in DOMAIN old |-> IF i >= FirstBucket(x) THEN old[i] + 1 ELSE old[i]]
    OBVIOUS
  <2>5. observations' = [observations EXCEPT ![m][l] = t] /\ buckets' = [buckets EXCEPT ![m][l] = new]
    BY <1>3, <2>1, <2>2, <2>3, <2>4 DEF Observe
  <2>6. x \in Int
    BY BoundsAssumption
  <2>7. Faithful(new, t)
    <3>1. new \in [1..(Len(Bounds) + 1) -> Nat] /\ t \in Seq(Int)
      BY <2>2, <2>3, <2>4, <2>6
    <3>2. \A i \in 1..(Len(Bounds) + 1) : new[i] = Cardinality(Counted(t, i))
      BY <2>2, <2>3, <2>4, <2>6, CountedAppend
    <3> QED BY <3>1, <3>2 DEF Faithful
  <2>8. \A k \in Instances, j \in Series : /\ observations'[k][j] = IF k = m /\ j = l THEN t ELSE observations[k][j]
                                           /\ buckets'[k][j] = IF k = m /\ j = l THEN new ELSE buckets[k][j]
    BY <2>5 DEF MetricInv
  <2>9. \A k \in Instances, j \in Series : Faithful(buckets'[k][j], observations'[k][j])
    BY <2>7, <2>8 DEF MetricInv
  <2>10. observations' = [k \in Instances |-> [j \in Series |-> observations'[k][j]]]
    BY <2>5 DEF MetricInv
  <2>11. buckets' = [k \in Instances |-> [j \in Series |-> buckets'[k][j]]]
    BY <2>5 DEF MetricInv
  <2> QED BY <2>9, <2>10, <2>11 DEF MetricInv, Faithful
<1>4. CASE ClearMetrics
  BY <1>4 DEF ClearMetrics, MetricInv
<1>5. CASE UNCHANGED metricVars
  BY <1>5 DEF metricVars, MetricInv
<1> QED BY <1>1, <1>2, <1>3, <1>4, <1>5 DEF MetricNext

\* Whatever is observed, and though the registry is cleared: every bucket counts the observations up to
\* its bound, and the percentiles lie where the observations in order put them.
THEOREM HistogramsHold == MetricSpec => []HistogramsFaithful
<1>1. MetricInit => MetricInv
  <2> SUFFICES ASSUME MetricInit, NEW m \in Instances, NEW l \in Series PROVE Faithful(buckets[m][l], observations[m][l])
    BY DEF MetricInit, MetricInv
  <2>1. observations[m][l] = <<>> /\ buckets[m][l] = [i \in 1..(Len(Bounds) + 1) |-> 0]
    BY DEF MetricInit
  <2>2. \A i : Counted(<<>>, i) = {}
    BY DEF Counted
  <2>3. \A i : Cardinality(Counted(<<>>, i)) = 0
    BY <2>2, FS_EmptySet
  <2>4. buckets[m][l] \in [1..(Len(Bounds) + 1) -> Nat] /\ \A i \in 1..(Len(Bounds) + 1) : buckets[m][l][i] = 0
    BY <2>1
  <2>5. <<>> \in Seq(Int)
    OBVIOUS
  <2> QED BY <2>1, <2>3, <2>4, <2>5 DEF Faithful
<1>2. MetricInv /\ [MetricNext]_metricVars => MetricInv'
  BY MetricStep
<1>3. MetricInv => BucketsCumulative
  <2> SUFFICES ASSUME MetricInv, NEW m \in Instances, NEW l \in Series, NEW i \in DOMAIN buckets[m][l]
               PROVE  buckets[m][l][i] = Cardinality(Counted(observations[m][l], i))
    BY DEF BucketsCumulative, Counted
  <2>1. Faithful(buckets[m][l], observations[m][l])
    BY DEF MetricInv
  <2>2. i \in 1..(Len(Bounds) + 1)
    BY <2>1 DEF Faithful
  <2> QED BY <2>1, <2>2 DEF Faithful
<1>4. MetricInv => PercentilesSound
  <2> SUFFICES ASSUME MetricInv, NEW m \in Instances, NEW l \in Series, observations[m][l] # <<>>,
                      NEW s, s = observations[m][l]
               PROVE  /\ Percentile(s, 0) = 100 * Head(Ordered(s)) /\ Percentile(s, 100) = 100 * Ordered(s)[Len(s)]
                      /\ \A p, q \in {0, 10, 50, 75, 99, 100} : p <= q => Percentile(s, p) <= Percentile(s, q)
                      /\ \A p \in {0, 10, 50, 75, 99, 100} : Percentile(Mirrored(s), 100 - p) = 0 - Percentile(s, p)
    BY DEF PercentilesSound, Mirrored
  <2>1. s \in Seq(Int) /\ s # <<>>
    BY DEF MetricInv, Faithful
  <2>2. {0, 10, 50, 75, 99, 100} \subseteq 0..100
    OBVIOUS
  <2>3. Percentile(s, 0) = 100 * Head(Ordered(s)) /\ Percentile(s, 100) = 100 * Ordered(s)[Len(s)]
    BY <2>1, PercentilesAre
  <2>4. \A p, q \in 0..100 : p <= q => Percentile(s, p) <= Percentile(s, q)
    BY <2>1, PercentilesAre
  <2>5. \A p \in 0..100 : Percentile(Mirrored(s), 100 - p) = 0 - Percentile(s, p)
    BY <2>1, PercentilesAre
  <2>6. PICK ps \in SUBSET (0..100) : ps = {0, 10, 50, 75, 99, 100}
    BY <2>2
  <2>7. /\ \A p, q \in ps : p <= q => Percentile(s, p) <= Percentile(s, q)
        /\ \A p \in ps : Percentile(Mirrored(s), 100 - p) = 0 - Percentile(s, p)
    BY <2>4, <2>5
  <2> QED BY <2>3, <2>6, <2>7
<1> QED BY <1>1, <1>2, <1>3, <1>4, PTL DEF MetricSpec, HistogramsFaithful

-----------------------------------------------------------------------------
(* What Arranged() arranges *)

Ordering(S, R) ==
  /\ \A i \in S : <<i, i>> \notin R
  /\ \A i, j, k \in S : <<i, j>> \in R /\ <<j, k>> \in R => <<i, k>> \in R
  /\ \A i, j \in S : i # j => <<i, j>> \in R \/ <<j, i>> \in R

Earlier(S, R, i) == {j \in S : <<j, i>> \in R}

LEMMA EarlierGrow ==
  ASSUME NEW S, IsFiniteSet(S), NEW R, Ordering(S, R), NEW i \in S
  PROVE  /\ Cardinality(Earlier(S, R, i)) \in 0..(Cardinality(S) - 1) /\ Cardinality(S) \in Nat
         /\ \A j \in S : <<i, j>> \in R => Cardinality(Earlier(S, R, i)) < Cardinality(Earlier(S, R, j))
<1>1. Earlier(S, R, i) \in SUBSET S /\ i \notin Earlier(S, R, i)
  BY DEF Earlier, Ordering
<1>2. Cardinality(Earlier(S, R, i)) \in Nat /\ Cardinality(S) \in Nat /\ Cardinality(Earlier(S, R, i)) < Cardinality(S)
  BY <1>1, PartOf
<1>3. ASSUME NEW j \in S, <<i, j>> \in R PROVE Cardinality(Earlier(S, R, i)) < Cardinality(Earlier(S, R, j))
  <2>1. Earlier(S, R, j) \in SUBSET S
    BY DEF Earlier
  <2>2. Earlier(S, R, i) \in SUBSET Earlier(S, R, j)
    BY <1>3 DEF Earlier, Ordering
  <2>3. i \in Earlier(S, R, j)
    BY <1>3 DEF Earlier
  <2>4. IsFiniteSet(Earlier(S, R, j))
    BY <2>1, PartOf
  <2> QED BY <1>1, <2>2, <2>3, <2>4, PartOf
<1> QED BY <1>2, <1>3

\* A finite set in a strict order is a sequence, each of its members at one place.
LEMMA ArrangedIs ==
  ASSUME NEW S, IsFiniteSet(S), NEW R, Ordering(S, R)
  PROVE  /\ Cardinality(S) \in Nat /\ Arranged(S, R) \in [1..Cardinality(S) -> S]
         /\ \A i \in S : \E n \in 1..Cardinality(S) : Arranged(S, R)[n] = i
         /\ \A n, m \in 1..Cardinality(S) : n < m => <<Arranged(S, R)[n], Arranged(S, R)[m]>> \in R
<1>1. PICK size \in Nat : size = Cardinality(S)
  BY FS_CardinalityType
<1>2. PICK rank : rank = [i \in S |-> Cardinality(Earlier(S, R, i))]
  OBVIOUS
<1>3. rank \in [S -> 0..(size - 1)] /\ \A i, j \in S : <<i, j>> \in R => rank[i] < rank[j]
  BY <1>1, <1>2, EarlierGrow
<1>4. \A i, j \in S : i # j => rank[i] # rank[j]
  <2> SUFFICES ASSUME NEW i \in S, NEW j \in S, i # j PROVE rank[i] # rank[j]
    OBVIOUS
  <2>1. <<i, j>> \in R \/ <<j, i>> \in R
    BY DEF Ordering
  <2>2. rank[i] \in Int /\ rank[j] \in Int /\ (rank[i] < rank[j] \/ rank[j] < rank[i])
    BY <1>3, <2>1
  <2> QED BY <2>2
<1>5. \A k \in 0..(size - 1) : \E i \in S : rank[i] = k
  <2>1. IsFiniteSet(0..(size - 1)) /\ Cardinality(0..(size - 1)) = size
    <3>1. 0 \in Int /\ size - 1 \in Int
      OBVIOUS
    <3>2. IsFiniteSet(0..(size - 1)) /\ Cardinality(0..(size - 1)) = IF 0 > size - 1 THEN 0 ELSE (size - 1) - 0 + 1
      BY <3>1, FS_Interval
    <3> QED BY <3>2
  <2>2. rank \in Injection(S, 0..(size - 1))
    <3>1. rank \in [S -> 0..(size - 1)] /\ \A i, j \in S : rank[i] = rank[j] => i = j
      BY <1>3, <1>4
    <3> QED BY <3>1 DEF Injection, IsInjective
  <2>3. rank \in Surjection(S, 0..(size - 1))
    BY <1>1, <2>1, <2>2, FS_Injection
  <2> QED BY <2>3 DEF Surjection
<1>6. PICK out : out = Arranged(S, R)
  OBVIOUS
<1>7. out = [n \in 1..size |-> CHOOSE i \in S : Cardinality({j \in S : <<j, i>> \in R}) = n - 1]
  BY <1>1, <1>6 DEF Arranged
<1>8. ASSUME NEW n \in 1..size PROVE out[n] \in S /\ rank[out[n]] = n - 1
  <2>1. PICK i \in S : rank[i] = n - 1
    <3>1. n - 1 \in 0..(size - 1)
      OBVIOUS
    <3> QED BY <1>5, <3>1
  <2>2. \A k \in S : Cardinality({j \in S : <<j, k>> \in R}) = rank[k]
    BY <1>2 DEF Earlier
  <2>3. out[n] = CHOOSE k \in S : Cardinality({j \in S : <<j, k>> \in R}) = n - 1
    BY <1>7
  <2>4. Cardinality({j \in S : <<j, i>> \in R}) = n - 1
    BY <2>1, <2>2
  <2>5. out[n] \in S /\ Cardinality({j \in S : <<j, out[n]>> \in R}) = n - 1
    BY <2>3, <2>4
  <2> QED BY <2>2, <2>5
<1>9. out \in [1..size -> S]
  BY <1>7, <1>8
<1>10. ASSUME NEW i \in S PROVE \E n \in 1..size : out[n] = i
  <2>1. PICK n \in 1..size : n = rank[i] + 1
    BY <1>3
  <2>2. out[n] \in S /\ rank[out[n]] = rank[i]
    BY <1>3, <1>8, <2>1
  <2> QED BY <1>4, <2>2
<1>11. ASSUME NEW n \in 1..size, NEW m \in 1..size, n < m PROVE <<out[n], out[m]>> \in R
  <2>1. out[n] \in S /\ out[m] \in S /\ rank[out[n]] = n - 1 /\ rank[out[m]] = m - 1
    BY <1>8
  <2>2. out[n] # out[m]
    BY <1>11, <2>1
  <2>3. <<out[n], out[m]>> \in R \/ <<out[m], out[n]>> \in R
    BY <2>1, <2>2 DEF Ordering
  <2>4. ~(rank[out[m]] < rank[out[n]])
    BY <1>11, <2>1
  <2> QED BY <1>3, <2>1, <2>3, <2>4
<1> QED BY <1>1, <1>6, <1>9, <1>10, <1>11

-----------------------------------------------------------------------------
(* Scalar products *)

Products(a, b, sum) == sum = [i \in 0..Len(a) |-> IF i = 0 THEN 0 ELSE sum[i - 1] + a[i] * b[i]]
AddsUp(n, a, b, sum) == sum \in [0..n -> Int] /\ sum[0] = 0 /\ \A i \in 1..n : sum[i] = sum[i - 1] + a[i] * b[i]

LEMMA DotIs ==
  ASSUME NEW n \in Nat, NEW a \in [1..n -> Int], NEW b \in [1..n -> Int], Len(a) = n
  PROVE  \E sum : AddsUp(n, a, b, sum) /\ Dot(a, b) = sum[n]
<1>1. \A i \in 1..n : a[i] * b[i] \in Int
  OBVIOUS
<1>2. PICK x \in [1..n -> Int] : x = [i \in 1..n |-> a[i] * b[i]]
  BY <1>1
<1>3. PICK step : step = [i \in 1..n |-> [y \in Int |-> y + x[i]]]
  OBVIOUS
<1>4. step \in [1..n -> [Int -> Int]] /\ \A i \in 1..n, y \in Int : step[i][y] = y + x[i]
  BY <1>2, <1>3
<1>5. PICK out : Grows(n, Int, 0, step, out)
  <2>1. PICK T : T = Int
    OBVIOUS
  <2>2. 0 \in T /\ step \in [1..n -> [T -> T]] /\ n \in Nat
    BY <1>4, <2>1
  <2>3. \E out : Grows(n, T, 0, step, out)
    BY <2>2, StepByStep
  <2> QED BY <2>1, <2>3
<1>6. out \in [0..n -> Int] /\ out[0] = 0 /\ \A i \in 1..n : out[i] = out[i - 1] + x[i]
  <2>1. out \in [0..n -> Int] /\ out[0] = 0 /\ \A i \in 1..n : out[i] = step[i][out[i - 1]]
    BY <1>5 DEF Grows
  <2>2. \A i \in 1..n : out[i - 1] \in Int
    BY <2>1
  <2> QED BY <1>4, <2>1, <2>2
<1>7. Products(a, b, out)
  <2>1. \A i \in 0..n : out[i] = IF i = 0 THEN 0 ELSE out[i - 1] + x[i]
    BY <1>6
  <2>2. \A i \in 0..n : i # 0 => x[i] = a[i] * b[i]
    BY <1>2
  <2>3. \A i \in 0..n : out[i] = IF i = 0 THEN 0 ELSE out[i - 1] + a[i] * b[i]
    BY <2>1, <2>2
  <2>4. out = [i \in 0..n |-> out[i]]
    BY <1>6
  <2>5. out = [i \in 0..n |-> IF i = 0 THEN 0 ELSE out[i - 1] + a[i] * b[i]]
    BY <2>3, <2>4
  <2> QED BY <2>5 DEF Products
<1>8. PICK sum : sum = CHOOSE s : Products(a, b, s)
  OBVIOUS
<1>9. Products(a, b, sum)
  BY <1>7, <1>8
<1>10. Dot(a, b) = sum[n]
  BY <1>8 DEF Dot, Products
<1>11. \A i \in 0..n : sum[i] = IF i = 0 THEN 0 ELSE sum[i - 1] + a[i] * b[i]
  <2>1. sum = [i \in 0..n |-> IF i = 0 THEN 0 ELSE sum[i - 1] + a[i] * b[i]]
    BY <1>9 DEF Products
  <2> QED BY <2>1
<1>12. sum[0] = 0 /\ \A i \in 1..n : sum[i] = sum[i - 1] + a[i] * b[i]
  BY <1>11
<1>13. \A i \in 0..n : sum[i] \in Int
  <2>1. PICK Q : Q = {i \in 0..n : sum[i] \in Int}
    OBVIOUS
  <2>2. 0 \in Q
    BY <1>12, <2>1
  <2>3. ASSUME NEW i \in 1..n, i - 1 \in Q PROVE i \in Q
    <3>1. PICK y \in Int : y = a[i] * b[i]
      BY <1>1
    <3>2. PICK z \in Int : z = sum[i - 1]
      BY <2>1, <2>3
    <3>3. sum[i] = z + y
      BY <1>12, <3>1, <3>2
    <3> QED BY <2>1, <3>3
  <2>4. 0..n \subseteq Q
    BY <2>2, <2>3, UpTo
  <2> QED BY <2>1, <2>4
<1>14. sum \in [0..n -> Int]
  BY <1>9, <1>13 DEF Products
<1> QED BY <1>10, <1>12, <1>14 DEF AddsUp

\* Sums of squares are not negative.
LEMMA SumOfSquares ==
  ASSUME NEW n \in Nat, NEW a \in [1..n -> Int], NEW b \in [1..n -> Int],
         NEW aa, NEW ab, NEW bb, AddsUp(n, a, a, aa), AddsUp(n, a, b, ab), AddsUp(n, b, b, bb),
         NEW s \in Int, NEW t \in Int
  PROVE  aa[n] * (s * s) + 2 * (ab[n] * (s * t)) + bb[n] * (t * t) >= 0
<1>1. PICK Q : Q = {i \in 0..n : aa[i] * (s * s) + 2 * (ab[i] * (s * t)) + bb[i] * (t * t) >= 0}
  OBVIOUS
<1>2. 0 \in Q
  BY <1>1 DEF AddsUp
<1>3. ASSUME NEW i \in 1..n, i - 1 \in Q PROVE i \in Q
  <2>1. PICK x \in Int : x = a[i]
    OBVIOUS
  <2>2. PICK y \in Int : y = b[i]
    OBVIOUS
  <2>3. PICK A \in Int : A = aa[i - 1]
    BY DEF AddsUp
  <2>4. PICK D \in Int : D = ab[i - 1]
    BY DEF AddsUp
  <2>5. PICK B \in Int : B = bb[i - 1]
    BY DEF AddsUp
  <2>6. aa[i] = A + x * x /\ ab[i] = D + x * y /\ bb[i] = B + y * y
    BY <2>1, <2>2, <2>3, <2>4, <2>5 DEF AddsUp
  <2>7. A * (s * s) + 2 * (D * (s * t)) + B * (t * t) >= 0
    BY <1>1, <1>3, <2>3, <2>4, <2>5
  <2>8. (x * s + y * t) * (x * s + y * t) >= 0
    <3>1. PICK z \in Int : z = x * s + y * t
      OBVIOUS
    <3>2. z * z >= 0
      OBVIOUS
    <3> QED BY <3>1, <3>2
  <2>9. (A + x * x) * (s * s) + 2 * ((D + x * y) * (s * t)) + (B + y * y) * (t * t)
        = A * (s * s) + 2 * (D * (s * t)) + B * (t * t) + (x * s + y * t) * (x * s + y * t)
    OBVIOUS
  <2>10. (A + x * x) * (s * s) + 2 * ((D + x * y) * (s * t)) + (B + y * y) * (t * t) >= 0
    <3>1. PICK u \in Int : u = A * (s * s) + 2 * (D * (s * t)) + B * (t * t)
      OBVIOUS
    <3>2. PICK v \in Int : v = (x * s + y * t) * (x * s + y * t)
      OBVIOUS
    <3>3. u >= 0 /\ v >= 0
      BY <2>7, <2>8, <3>1, <3>2
    <3>4. u + v >= 0
      BY <3>3
    <3> QED BY <2>9, <3>1, <3>2, <3>4
  <2> QED BY <1>1, <2>6, <2>10, SMTT(30)
<1>4. 0..n \subseteq Q
  BY <1>2, <1>3, UpTo
<1> QED BY <1>1, <1>4

\* No two vectors are longer together than each by itself (Cauchy and Schwarz), nor apart.
LEMMA ProductsBounded ==
  ASSUME NEW n \in Nat, NEW a \in [1..n -> Int], NEW b \in [1..n -> Int], Len(a) = n, Len(b) = n
  PROVE  /\ Dot(a, a) \in Nat /\ Dot(b, b) \in Nat /\ Dot(a, b) \in Int
         /\ Dot(a, b) * Dot(a, b) <= Dot(a, a) * Dot(b, b)
         /\ 2 * Dot(a, b) <= Dot(a, a) + Dot(b, b)
<1>1. PICK aa : AddsUp(n, a, a, aa) /\ Dot(a, a) = aa[n]
  BY DotIs
<1>2. PICK ab : AddsUp(n, a, b, ab) /\ Dot(a, b) = ab[n]
  BY DotIs
<1>3. PICK bb : AddsUp(n, b, b, bb) /\ Dot(b, b) = bb[n]
  BY DotIs
<1>4. PICK A \in Int : A = aa[n]
  BY <1>1 DEF AddsUp
<1>5. PICK D \in Int : D = ab[n]
  BY <1>2 DEF AddsUp
<1>6. PICK B \in Int : B = bb[n]
  BY <1>3 DEF AddsUp
<1>7. \A s, t \in Int : A * (s * s) + 2 * (D * (s * t)) + B * (t * t) >= 0
  BY <1>1, <1>2, <1>3, <1>4, <1>5, <1>6, SumOfSquares
<1>8. A >= 0 /\ B >= 0 /\ A - 2 * D + B >= 0
  <2>1. PICK z \in Int : z = 0
    OBVIOUS
  <2>2. PICK e \in Int : e = 1
    OBVIOUS
  <2>3. PICK m \in Int : m = -1
    OBVIOUS
  <2>4. A * (e * e) + 2 * (D * (e * z)) + B * (z * z) >= 0
    BY <1>7
  <2>5. A * (z * z) + 2 * (D * (z * e)) + B * (e * e) >= 0
    BY <1>7
  <2>6. A * (e * e) + 2 * (D * (e * m)) + B * (m * m) >= 0
    BY <1>7
  <2> QED BY <2>1, <2>2, <2>3, <2>4, <2>5, <2>6
<1>9. D * D <= A * B
  <2>1. CASE B = 0
    <3>1. PICK k \in Int : k = 0 - (A + 1)
      OBVIOUS
    <3>2. A * (D * D) + 2 * (D * (D * k)) + B * (k * k) >= 0
      BY <1>7
    <3>3. A * (D * D) + 2 * (D * (D * k)) + B * (k * k) = 0 - (A + 2) * (D * D)
      BY <2>1, <3>1
    <3>4. D = 0
      <4> SUFFICES ASSUME D # 0 PROVE FALSE
        OBVIOUS
      <4>1. PICK d \in Int : d = D * D /\ d > 0
        <5>1. D * D \in Int /\ D * D > 0
          OBVIOUS
        <5> QED BY <5>1
      <4>2. PICK p \in Nat : p = A + 2
        BY <1>8
      <4>3. 1 * p <= d * p
        BY <4>1, Multiples
      <4>4. d * p >= 2
        BY <1>8, <4>2, <4>3
      <4>5. (A + 2) * (D * D) = d * p
        BY <4>1, <4>2
      <4> QED BY <3>2, <3>3, <4>4, <4>5
    <3> QED BY <2>1, <3>4
  <2>2. CASE B # 0
    <3>1. PICK k \in Int : k = 0 - D
      OBVIOUS
    <3>2. A * (B * B) + 2 * (D * (B * k)) + B * (k * k) >= 0
      BY <1>7
    <3>3. A * (B * B) + 2 * (D * (B * k)) + B * (k * k) = (A * B - D * D) * B
      BY <3>1
    <3>4. PICK g \in Int : g = A * B - D * D
      OBVIOUS
    <3>5. g * B >= 0
      BY <3>2, <3>3, <3>4
    <3>6. g >= 0
      <4> SUFFICES ASSUME g <= -1 PROVE FALSE
        OBVIOUS
      <4>1. PICK b1 \in Nat : b1 = B /\ b1 >= 1
        BY <1>8, <2>2
      <4>2. g * b1 <= (-1) * b1
        BY Multiples
      <4> QED BY <3>5, <4>1, <4>2
    <3> QED BY <3>4, <3>6
  <2> QED BY <2>1, <2>2
<1>10. A \in Nat /\ B \in Nat /\ 2 * D <= A + B
  BY <1>8
<1>11. Dot(a, a) = A /\ Dot(a, b) = D /\ Dot(b, b) = B
  BY <1>1, <1>2, <1>3, <1>4, <1>5, <1>6
<1> QED BY <1>9, <1>10, <1>11

-----------------------------------------------------------------------------
(* Storage: the store *)

Entries == [id : VectorIds, embedding : Seq(Int), tag : Tags]

Searchable(s) ==
  /\ s \in Seq(Entries)
  /\ \A i \in DOMAIN s : Fitting(s[i])
  /\ \A i, j \in DOMAIN s : s[i].id = s[j].id => i = j

LEMMA StoredKeeps ==
  ASSUME NEW s, Searchable(s), NEW entry \in Entries, Fitting(entry)
  PROVE  Searchable(Stored(s, entry))
<1>1. PICK n \in Nat : n = Len(s) /\ DOMAIN s = 1..n
  BY DEF Searchable
<1>2. \A i \in 1..n : s[i] \in Entries /\ Fitting(s[i])
  BY <1>1 DEF Searchable
<1>3. PICK out : out = Stored(s, entry)
  OBVIOUS
<1>4. CASE \E i \in DOMAIN s : s[i].id = entry.id
  <2>1. out = [i \in 1..n |-> IF s[i].id = entry.id THEN entry ELSE s[i]]
    BY <1>1, <1>3, <1>4 DEF Stored
  <2>2. \A i \in 1..n : out[i] = IF s[i].id = entry.id THEN entry ELSE s[i]
    BY <2>1
  <2>3. \A i \in 1..n : out[i] \in Entries /\ Fitting(out[i]) /\ out[i].id = s[i].id
    BY <1>2, <2>2
  <2>4. DOMAIN out = 1..n /\ out = [i \in 1..n |-> out[i]]
    BY <2>1
  <2>5. out \in Seq(Entries)
    BY <2>3, <2>4
  <2>6. \A i, j \in DOMAIN out : out[i].id = out[j].id => i = j
    BY <1>1, <2>3, <2>4 DEF Searchable
  <2> QED BY <1>3, <2>3, <2>4, <2>5, <2>6 DEF Searchable
<1>5. CASE ~\E i \in DOMAIN s : s[i].id = entry.id
  <2>1. out = Append(s, entry)
    BY <1>3, <1>5 DEF Stored
  <2>2. out \in Seq(Entries) /\ Len(out) = n + 1 /\ DOMAIN out = 1..(n + 1) /\ out[n + 1] = entry
        /\ \A i \in 1..n : out[i] = s[i]
    BY <1>1, <2>1 DEF Searchable
  <2>3. \A i \in DOMAIN out : Fitting(out[i])
    BY <1>2, <2>2
  <2>4. ASSUME NEW i \in DOMAIN out, NEW j \in DOMAIN out, out[i].id = out[j].id PROVE i = j
    <3>1. CASE i \in 1..n /\ j \in 1..n
      BY <1>1, <2>2, <2>4, <3>1 DEF Searchable
    <3>2. CASE i = n + 1 /\ j \in 1..n
      BY <1>1, <1>5, <2>2, <2>4, <3>2
    <3>3. CASE j = n + 1 /\ i \in 1..n
      BY <1>1, <1>5, <2>2, <2>4, <3>3
    <3>4. CASE i = n + 1 /\ j = n + 1
      BY <3>4
    <3> QED BY <2>2, <3>1, <3>2, <3>3, <3>4
  <2> QED BY <1>3, <2>2, <2>3, <2>4 DEF Searchable
<1> QED BY <1>3, <1>4, <1>5

Storing(s, entries, kept) ==
  kept = [i \in 0..Len(entries) |-> IF i = 0 THEN s ELSE Stored(kept[i - 1], entries[i])]

LEMMA StoredAllKeeps ==
  ASSUME NEW s, Searchable(s), NEW entries \in Seq(Entries), \A i \in DOMAIN entries : Fitting(entries[i])
  PROVE  Searchable(StoredAll(s, entries))
<1>1. PICK n \in Nat : n = Len(entries) /\ DOMAIN entries = 1..n
  OBVIOUS
<1>2. PICK T : T = {t \in Seq(Entries) : Searchable(t)}
  OBVIOUS
<1>3. s \in T /\ \A t \in T, i \in 1..n : Stored(t, entries[i]) \in T
  <2>1. s \in T
    BY <1>2 DEF Searchable
  <2>2. ASSUME NEW t \in T, NEW i \in 1..n PROVE Stored(t, entries[i]) \in T
    <3>1. Searchable(t) /\ entries[i] \in Entries /\ Fitting(entries[i])
      BY <1>1, <1>2
    <3>2. Searchable(Stored(t, entries[i]))
      BY <3>1, StoredKeeps
    <3> QED BY <1>2, <3>2 DEF Searchable
  <2> QED BY <2>1, <2>2
<1>4. PICK step : step = [i \in 1..n |-> [t \in T |-> Stored(t, entries[i])]]
  OBVIOUS
<1>5. step \in [1..n -> [T -> T]] /\ \A i \in 1..n, t \in T : step[i][t] = Stored(t, entries[i])
  BY <1>3, <1>4
<1>6. PICK out : Grows(n, T, s, step, out)
  BY <1>3, <1>5, StepByStep
<1>7. out \in [0..n -> T] /\ out[0] = s /\ \A i \in 1..n : out[i] = Stored(out[i - 1], entries[i])
  <2>1. out \in [0..n -> T] /\ out[0] = s /\ \A i \in 1..n : out[i] = step[i][out[i - 1]]
    BY <1>6 DEF Grows
  <2>2. \A i \in 1..n : out[i - 1] \in T
    BY <2>1
  <2> QED BY <1>5, <2>1, <2>2
<1>8. Storing(s, entries, out)
  <2>1. \A i \in 0..n : out[i] = IF i = 0 THEN s ELSE Stored(out[i - 1], entries[i])
    BY <1>7
  <2>2. out = [i \in 0..n |-> out[i]]
    BY <1>7
  <2> QED BY <1>1, <2>1, <2>2 DEF Storing
<1>9. PICK kept : kept = CHOOSE k : Storing(s, entries, k)
  OBVIOUS
<1>10. Storing(s, entries, kept)
  BY <1>8, <1>9
<1>11. StoredAll(s, entries) = kept[n]
  BY <1>1, <1>9 DEF StoredAll, Storing
<1>12. \A i \in 0..n : kept[i] = IF i = 0 THEN s ELSE Stored(kept[i - 1], entries[i])
  BY <1>1, <1>10 DEF Storing
<1>13. PICK Q : Q = {i \in 0..n : kept[i] \in T}
  OBVIOUS
<1>14. 0 \in Q
  BY <1>3, <1>12, <1>13
<1>15. ASSUME NEW i \in 1..n, i - 1 \in Q PROVE i \in Q
  <2>1. kept[i] = Stored(kept[i - 1], entries[i]) /\ kept[i - 1] \in T
    BY <1>12, <1>13, <1>15
  <2> QED BY <1>3, <1>13, <2>1
<1>16. n \in Q
  <2>1. 0..n \subseteq Q
    BY <1>14, <1>15, UpTo
  <2> QED BY <2>1
<1> QED BY <1>2, <1>11, <1>13, <1>16

LEMMA PrefixFits ==
  ASSUME NEW batch \in Seq(Entries)
  PROVE  Prefix(batch) \in Seq(Entries) /\ \A i \in DOMAIN Prefix(batch) : Fitting(Prefix(batch)[i])
<1>1. PICK wrong : wrong = {i \in DOMAIN batch : ~Fitting(batch[i])}
  OBVIOUS
<1>2. CASE wrong = {}
  <2>1. Prefix(batch) = batch
    BY <1>1, <1>2 DEF Prefix
  <2> QED BY <1>1, <1>2, <2>1
<1>3. CASE wrong # {}
  <2>1. PICK first : first = CHOOSE i \in wrong : \A j \in wrong : i <= j
    OBVIOUS
  <2>2. first \in wrong /\ \A j \in wrong : first <= j
    <3>1. wrong \in SUBSET Nat
      BY <1>1
    <3>2. \E i \in wrong : \A j \in wrong : i <= j
      BY <1>3, <3>1, LeastExists
    <3> QED BY <2>1, <3>2
  <2>3. Prefix(batch) = SubSeq(batch, 1, first - 1)
    BY <1>1, <1>3, <2>1 DEF Prefix
  <2>4. first \in 1..Len(batch) /\ first - 1 \in 0..Len(batch)
    BY <1>1, <2>2
  <2>5. SubSeq(batch, 1, first - 1) \in Seq(Entries) /\ DOMAIN SubSeq(batch, 1, first - 1) = 1..(first - 1)
        /\ \A i \in 1..(first - 1) : SubSeq(batch, 1, first - 1)[i] = batch[i]
    BY <2>4
  <2>6. \A i \in 1..(first - 1) : Fitting(batch[i])
    BY <1>1, <2>2, <2>4
  <2> QED BY <2>3, <2>5, <2>6
<1> QED BY <1>2, <1>3

\* The places before others are in strict order.
LEMMA PlacesOrdered ==
  ASSUME NEW n \in Nat, NEW S \in SUBSET (1..n)
  PROVE  IsFiniteSet(S) /\ Ordering(S, {p \in S \X S : p[1] < p[2]})
<1>1. IsFiniteSet(1..n)
  BY FS_Interval
<1>2. IsFiniteSet(S)
  BY <1>1, FS_Subset
<1>3. PICK R : R = {p \in S \X S : p[1] < p[2]}
  OBVIOUS
<1>4. \A i, j \in S : <<i, j>> \in R <=> i < j
  BY <1>3
<1>5. \A i \in S : i \in Int
  OBVIOUS
<1>6. Ordering(S, R)
  <2>1. \A i \in S : <<i, i>> \notin R
    BY <1>4, <1>5
  <2>2. ASSUME NEW i \in S, NEW j \in S, NEW k \in S, <<i, j>> \in R, <<j, k>> \in R PROVE <<i, k>> \in R
    <3>1. i < j /\ j < k /\ i \in Int /\ j \in Int /\ k \in Int
      BY <1>4, <1>5, <2>2
    <3>2. i < k
      BY <3>1
    <3> QED BY <1>4, <3>2
  <2>3. ASSUME NEW i \in S, NEW j \in S, i # j PROVE <<i, j>> \in R \/ <<j, i>> \in R
    <3>1. i < j \/ j < i
      BY <1>5, <2>3
    <3> QED BY <1>4, <3>1
  <2> QED BY <2>1, <2>2, <2>3 DEF Ordering
<1> QED BY <1>2, <1>3, <1>6

LEMMA DeleteKeeps ==
  ASSUME Searchable(vectors), NEW ids, Delete(ids)
  PROVE  Searchable(vectors')
<1>1. PICK n \in Nat : n = Len(vectors) /\ DOMAIN vectors = 1..n
  BY DEF Searchable
<1>2. PICK kept \in SUBSET (1..n) : kept = {i \in DOMAIN vectors : vectors[i].id \notin ids}
  BY <1>1
<1>3. PICK R : R = {p \in kept \X kept : p[1] < p[2]}
  OBVIOUS
<1>4. IsFiniteSet(kept) /\ Ordering(kept, R)
  BY <1>3, PlacesOrdered
<1>5. PICK order : order = Arranged(kept, R)
  OBVIOUS
<1>6. PICK m \in Nat : m = Cardinality(kept)
  BY <1>4, ArrangedIs
<1>7. order \in [1..m -> kept] /\ \A i, j \in 1..m : i < j => <<order[i], order[j]>> \in R
  BY <1>4, <1>5, <1>6, ArrangedIs
<1>8. \A i, j \in 1..m : order[i] = order[j] => i = j
  <2> SUFFICES ASSUME NEW i \in 1..m, NEW j \in 1..m, i < j PROVE order[i] # order[j]
    OBVIOUS
  <2>1. <<order[i], order[j]>> \in R
    BY <1>7
  <2>2. \A x, y \in kept : <<x, y>> \in R <=> x < y
    BY <1>3
  <2>3. PICK x \in kept : x = order[i]
    BY <1>7
  <2>4. PICK y \in kept : y = order[j]
    BY <1>7
  <2>5. <<x, y>> \in R
    BY <2>1, <2>3, <2>4
  <2>6. x < y
    BY <2>2, <2>5
  <2>7. x \in Int /\ y \in Int
    OBVIOUS
  <2> QED BY <2>3, <2>4, <2>6, <2>7
<1>9. vectors' = [k \in 1..m |-> vectors[order[k]]]
  <2>1. vectors' = [k \in DOMAIN order |-> vectors[order[k]]]
    BY <1>2, <1>3, <1>5 DEF Delete
  <2> QED BY <1>7, <2>1
<1>10. \A k \in 1..m : order[k] \in 1..n /\ vectors'[k] = vectors[order[k]]
  BY <1>7, <1>9
<1>11. DOMAIN vectors' = 1..m /\ vectors' \in Seq(Entries)
  <2>1. \A i \in 1..n : vectors[i] \in Entries
    BY <1>1 DEF Searchable
  <2>2. \A k \in 1..m : vectors[order[k]] \in Entries
    BY <1>10, <2>1
  <2> QED BY <1>9, <2>2
<1>12. \A i \in DOMAIN vectors' : Fitting(vectors'[i])
  <2>1. \A i \in 1..n : Fitting(vectors[i])
    BY <1>1 DEF Searchable
  <2>2. ASSUME NEW i \in 1..m PROVE Fitting(vectors'[i])
    <3>1. Fitting(vectors[order[i]]) /\ vectors'[i] = vectors[order[i]]
      BY <1>10, <2>1
    <3> QED BY <3>1
  <2> QED BY <1>11, <2>2
<1>13. ASSUME NEW i \in DOMAIN vectors', NEW j \in DOMAIN vectors', vectors'[i].id = vectors'[j].id PROVE i = j
  <2>1. i \in 1..m /\ j \in 1..m
    BY <1>11
  <2>2. vectors[order[i]].id = vectors[order[j]].id /\ order[i] \in DOMAIN vectors /\ order[j] \in DOMAIN vectors
    BY <1>1, <1>10, <1>13, <2>1
  <2>3. order[i] = order[j]
    BY <2>2 DEF Searchable
  <2> QED BY <1>8, <2>1, <2>3
<1> QED BY <1>11, <1>12, <1>13 DEF Searchable

LEMMA VectorStep ==
  ASSUME Searchable(vectors), [VectorNext]_vectors
  PROVE  Searchable(vectors')
<1>1. ASSUME NEW batch \in Batches, Upsert(batch) PROVE Searchable(vectors')
  <2>1. batch \in Seq(Entries)
    BY EntriesAssumption DEF Entries
  <2>2. Prefix(batch) \in Seq(Entries) /\ \A i \in DOMAIN Prefix(batch) : Fitting(Prefix(batch)[i])
    BY <2>1, PrefixFits
  <2>3. PICK entries \in Seq(Entries) : entries = Prefix(batch) /\ \A i \in DOMAIN entries : Fitting(entries[i])
    BY <2>2
  <2>4. Searchable(StoredAll(vectors, entries))
    BY <2>3, StoredAllKeeps
  <2> QED BY <1>1, <2>3, <2>4 DEF Upsert
<1>2. CASE vectors' = vectors
  BY <1>2
<1> QED BY <1>1, <1>2, DeleteKeeps DEF VectorNext

-----------------------------------------------------------------------------
(* Storage: what is closer *)

IsVector(v) == v \in Seq(Int) /\ Len(v) = Dimensions

\* Similarities as fractions.
Numerator(q, a) ==
  IF Metric = "cosine" THEN SignedSquare(Dot(q, a))
  ELSE IF Metric = "dot_product" THEN Dot(q, a) ELSE 2 * Dot(q, a) - Dot(a, a)
Divisor(a) == IF Metric = "cosine" /\ Dot(a, a) # 0 THEN Dot(a, a) ELSE 1

LEMMA VectorProducts ==
  ASSUME NEW a, NEW b, IsVector(a), IsVector(b)
  PROVE  /\ Dot(a, a) \in Nat /\ Dot(b, b) \in Nat /\ Dot(a, b) \in Int
         /\ Dot(a, b) * Dot(a, b) <= Dot(a, a) * Dot(b, b)
         /\ 2 * Dot(a, b) <= Dot(a, a) + Dot(b, b)
<1>1. PICK n \in Nat : n = Len(a) /\ n = Len(b)
  BY DEF IsVector
<1>2. a \in [1..n -> Int] /\ b \in [1..n -> Int]
  BY <1>1 DEF IsVector
<1> QED BY <1>1, <1>2, ProductsBounded

LEMMA CloserIs ==
  ASSUME NEW q, NEW a, NEW b, IsVector(q), IsVector(a), IsVector(b)
  PROVE  /\ Numerator(q, a) \in Int /\ Numerator(q, b) \in Int /\ Divisor(a) \in Nat \ {0} /\ Divisor(b) \in Nat \ {0}
         /\ Closer(q, a, b) <=> Numerator(q, a) * Divisor(b) > Numerator(q, b) * Divisor(a)
<1>1. PICK x \in Int : x = Dot(q, a)
  BY VectorProducts
<1>2. PICK y \in Int : y = Dot(q, b)
  BY VectorProducts
<1>3. PICK A \in Nat : A = Dot(a, a)
  BY VectorProducts
<1>4. PICK B \in Nat : B = Dot(b, b)
  BY VectorProducts
<1>5. SignedSquare(x) \in Int /\ SignedSquare(y) \in Int
  BY DEF SignedSquare
<1>6. CASE Metric = "cosine"
  <2>1. Numerator(q, a) = SignedSquare(x) /\ Numerator(q, b) = SignedSquare(y)
    BY <1>1, <1>2, <1>6 DEF Numerator
  <2>2. Divisor(a) = (IF A = 0 THEN 1 ELSE A) /\ Divisor(b) = (IF B = 0 THEN 1 ELSE B)
    BY <1>3, <1>4, <1>6 DEF Divisor
  <2>3. Closer(q, a, b) <=> SignedSquare(x) * (IF B = 0 THEN 1 ELSE B) > SignedSquare(y) * (IF A = 0 THEN 1 ELSE A)
    BY <1>1, <1>2, <1>3, <1>4, <1>6 DEF Closer
  <2>4. Divisor(a) \in Nat \ {0} /\ Divisor(b) \in Nat \ {0}
    BY <2>2
  <2> QED BY <1>5, <2>1, <2>2, <2>3, <2>4
<1>7. CASE Metric = "dot_product"
  <2>1. Metric # "cosine"
    BY <1>7
  <2>2. Numerator(q, a) = x /\ Numerator(q, b) = y
    BY <1>1, <1>2, <1>7, <2>1 DEF Numerator
  <2>3. Divisor(a) = 1 /\ Divisor(b) = 1
    BY <2>1 DEF Divisor
  <2>4. Closer(q, a, b) <=> x > y
    BY <1>1, <1>2, <1>7, <2>1 DEF Closer
  <2> QED BY <2>2, <2>3, <2>4
<1>8. CASE Metric # "cosine" /\ Metric # "dot_product"
  <2>1. Numerator(q, a) = 2 * x - A /\ Numerator(q, b) = 2 * y - B
    BY <1>1, <1>2, <1>3, <1>4, <1>8 DEF Numerator
  <2>2. Divisor(a) = 1 /\ Divisor(b) = 1
    BY <1>8 DEF Divisor
  <2>3. Closer(q, a, b) <=> A - 2 * x < B - 2 * y
    BY <1>1, <1>2, <1>3, <1>4, <1>8 DEF Closer
  <2> QED BY <2>1, <2>2, <2>3
<1> QED BY <1>6, <1>7, <1>8

LEMMA NoFractionBetween ==
  ASSUME NEW x1 \in Int, NEW x2 \in Int, NEW x3 \in Int, NEW y1 \in Nat \ {0}, NEW y2 \in Nat \ {0}, NEW y3 \in Nat \ {0},
         x1 * y2 <= x2 * y1, x2 * y3 <= x3 * y2
  PROVE  x1 * y3 <= x3 * y1
<1>1. (x1 * y2) * y3 <= (x2 * y1) * y3
  <2>1. x1 * y2 \in Int /\ x2 * y1 \in Int /\ y3 \in Nat
    OBVIOUS
  <2> QED BY <2>1, Multiples
<1>2. (x2 * y3) * y1 <= (x3 * y2) * y1
  <2>1. x2 * y3 \in Int /\ x3 * y2 \in Int /\ y1 \in Nat
    OBVIOUS
  <2> QED BY <2>1, Multiples
<1>3. (x2 * y1) * y3 = (x2 * y3) * y1
  OBVIOUS
<1>4. (x1 * y2) * y3 = (x1 * y3) * y2
  OBVIOUS
<1>5. (x3 * y2) * y1 = (x3 * y1) * y2
  OBVIOUS
<1>6. PICK a \in Int : a = x1 * y3
  OBVIOUS
<1>7. PICK b \in Int : b = x3 * y1
  OBVIOUS
<1>8. PICK m \in Int : m = (x2 * y1) * y3
  OBVIOUS
<1>9. a * y2 <= m /\ m <= b * y2
  BY <1>1, <1>2, <1>3, <1>4, <1>5, <1>6, <1>7, <1>8
<1>10. a <= b
  <2> SUFFICES ASSUME b + 1 <= a PROVE FALSE
    OBVIOUS
  <2>1. (b + 1) * y2 <= a * y2
    BY Multiples
  <2>2. (b + 1) * y2 = b * y2 + y2 /\ b * y2 \in Int /\ a * y2 \in Int
    OBVIOUS
  <2> QED BY <1>9, <2>1, <2>2
<1> QED BY <1>6, <1>7, <1>10

LEMMA CloserOrders ==
  ASSUME NEW q, NEW a, NEW b, NEW c, IsVector(q), IsVector(a), IsVector(b), IsVector(c)
  PROVE  /\ ~(Closer(q, a, b) /\ Closer(q, b, a))
         /\ ~Closer(q, a, b) /\ ~Closer(q, b, c) => ~Closer(q, a, c)
<1>1. PICK x1 \in Int : x1 = Numerator(q, a)
  BY CloserIs
<1>2. PICK x2 \in Int : x2 = Numerator(q, b)
  BY CloserIs
<1>3. PICK x3 \in Int : x3 = Numerator(q, c)
  BY CloserIs
<1>4. PICK y1 \in Nat \ {0} : y1 = Divisor(a)
  BY CloserIs
<1>5. PICK y2 \in Nat \ {0} : y2 = Divisor(b)
  BY CloserIs
<1>6. PICK y3 \in Nat \ {0} : y3 = Divisor(c)
  BY CloserIs
<1>7. /\ Closer(q, a, b) <=> x1 * y2 > x2 * y1
      /\ Closer(q, b, a) <=> x2 * y1 > x1 * y2
      /\ Closer(q, b, c) <=> x2 * y3 > x3 * y2
      /\ Closer(q, a, c) <=> x1 * y3 > x3 * y1
  BY <1>1, <1>2, <1>3, <1>4, <1>5, <1>6, CloserIs
<1>8. x1 * y2 \in Int /\ x2 * y1 \in Int /\ x2 * y3 \in Int /\ x3 * y2 \in Int /\ x1 * y3 \in Int /\ x3 * y1 \in Int
  OBVIOUS
<1>9. x1 * y2 <= x2 * y1 /\ x2 * y3 <= x3 * y2 => x1 * y3 <= x3 * y1
  BY NoFractionBetween
<1>10. ~(x1 * y2 > x2 * y1 /\ x2 * y1 > x1 * y2)
  BY <1>8
<1>11. /\ x1 * y2 > x2 * y1 <=> ~(x1 * y2 <= x2 * y1)
       /\ x2 * y3 > x3 * y2 <=> ~(x2 * y3 <= x3 * y2)
       /\ x1 * y3 > x3 * y1 <=> ~(x1 * y3 <= x3 * y1)
  BY <1>8
<1> QED BY <1>7, <1>9, <1>10, <1>11

LEMMA ItselfClosest ==
  ASSUME NEW a, NEW b, IsVector(a), IsVector(b), Metric # "dot_product"
  PROVE  ~Closer(a, b, a)
<1>1. PICK A \in Nat : A = Dot(a, a)
  BY VectorProducts
<1>2. PICK B \in Nat : B = Dot(b, b)
  BY VectorProducts
<1>3. PICK D \in Int : D = Dot(a, b)
  BY VectorProducts
<1>4. D * D <= A * B /\ 2 * D <= A + B
  BY <1>1, <1>2, <1>3, VectorProducts
<1>5. CASE Metric = "cosine"
  <2>1. PICK M \in Nat \ {0} : M = IF A = 0 THEN 1 ELSE A
    OBVIOUS
  <2>2. PICK N \in Nat \ {0} : N = IF B = 0 THEN 1 ELSE B
    OBVIOUS
  <2>3. Closer(a, b, a) <=> SignedSquare(D) * M > SignedSquare(A) * N
    BY <1>1, <1>2, <1>3, <1>5, <2>1, <2>2 DEF Closer
  <2>4. PICK s \in Int : s = SignedSquare(D) /\ s <= A * B
    <3>1. PICK d \in Nat : d = D * D
      OBVIOUS
    <3>2. SignedSquare(D) = (IF D < 0 THEN 0 - d ELSE d)
      BY <3>1 DEF SignedSquare
    <3>3. 0 - d <= d /\ d <= A * B /\ A * B \in Int
      BY <1>4, <3>1
    <3> QED BY <3>2, <3>3
  <2>5. SignedSquare(A) = A * A
    BY DEF SignedSquare
  <2>6. s * M <= (A * B) * M
    <3>1. A * B \in Int
      OBVIOUS
    <3> QED BY <2>4, <3>1, Multiples
  <2>7. (A * B) * M <= (A * A) * N
    <3>1. CASE A = 0
      BY <2>1, <3>1
    <3>2. CASE A # 0
      <4>1. M = A /\ B <= N
        BY <2>1, <2>2, <3>2
      <4>2. A * A \in Nat
        OBVIOUS
      <4>3. B * (A * A) <= N * (A * A)
        BY <4>1, <4>2, Multiples
      <4>4. (A * B) * A = B * (A * A) /\ (A * A) * N = N * (A * A)
        OBVIOUS
      <4> QED BY <4>1, <4>3, <4>4
    <3> QED BY <3>1, <3>2
  <2>8. s * M \in Int /\ (A * B) * M \in Int /\ (A * A) * N \in Int
    OBVIOUS
  <2>9. ~(s * M > (A * A) * N)
    BY <2>6, <2>7, <2>8
  <2> QED BY <2>3, <2>4, <2>5, <2>9
<1>6. CASE Metric # "cosine"
  <2>1. Closer(a, b, a) <=> B - 2 * D < A - 2 * A
    BY <1>1, <1>2, <1>3, <1>6 DEF Closer
  <2> QED BY <1>4, <2>1
<1> QED BY <1>5, <1>6

-----------------------------------------------------------------------------
(* Storage: what is found *)

Nears(q, i, j) == Closer(q, vectors[i].embedding, vectors[j].embedding)
Nearer(q, S)   == {p \in S \X S : Nears(q, p[1], p[2]) \/ (~Nears(q, p[2], p[1]) /\ p[1] < p[2])}

LEMMA NearerOrders ==
  ASSUME Searchable(vectors), NEW S \in SUBSET DOMAIN vectors, NEW q \in Queries
  PROVE  Ordering(S, Nearer(q, S))
<1>1. \A i \in S : i \in Int /\ IsVector(vectors[i].embedding)
  <2> SUFFICES ASSUME NEW i \in S PROVE i \in Int /\ IsVector(vectors[i].embedding)
    OBVIOUS
  <2>1. i \in DOMAIN vectors /\ i \in Int
    BY DEF Searchable
  <2>2. vectors[i] \in Entries
    BY <2>1 DEF Searchable
  <2>3. vectors[i].embedding \in Seq(Int)
    BY <2>2 DEF Entries
  <2>4. Len(vectors[i].embedding) = Dimensions
    BY <2>1 DEF Searchable, Fitting
  <2> QED BY <2>1, <2>3, <2>4 DEF IsVector
<1>2. IsVector(q)
  BY EntriesAssumption DEF IsVector
<1>3. ASSUME NEW i \in S, NEW j \in S, NEW k \in S
      PROVE  ~(Nears(q, i, j) /\ Nears(q, j, i)) /\ (~Nears(q, i, j) /\ ~Nears(q, j, k) => ~Nears(q, i, k))
  BY <1>1, <1>2, CloserOrders DEF Nears
<1>4. \A i, j \in S : <<i, j>> \in Nearer(q, S) <=> Nears(q, i, j) \/ (~Nears(q, j, i) /\ i < j)
  BY DEF Nearer
<1>5. \A i \in S : <<i, i>> \notin Nearer(q, S)
  BY <1>1, <1>3, <1>4
<1>6. ASSUME NEW i \in S, NEW j \in S, NEW k \in S, <<i, j>> \in Nearer(q, S), <<j, k>> \in Nearer(q, S)
      PROVE  <<i, k>> \in Nearer(q, S)
  <2>1. Nears(q, i, j) \/ (~Nears(q, j, i) /\ i < j)
    BY <1>4, <1>6
  <2>2. Nears(q, j, k) \/ (~Nears(q, k, j) /\ j < k)
    BY <1>4, <1>6
  <2>3. i < j /\ j < k => i < k
    BY <1>1
  <2>4. ~Nears(q, k, j) /\ ~Nears(q, j, i)
    BY <1>3, <2>1, <2>2
  <2>5. ~Nears(q, k, i)
    BY <1>3, <2>4
  <2>6. Nears(q, i, j) => Nears(q, i, k)
    BY <1>3, <2>4
  <2>7. Nears(q, j, k) => Nears(q, i, k)
    BY <1>3, <2>4
  <2> QED BY <1>4, <2>1, <2>2, <2>3, <2>5, <2>6, <2>7
<1>7. ASSUME NEW i \in S, NEW j \in S, i # j PROVE <<i, j>> \in Nearer(q, S) \/ <<j, i>> \in Nearer(q, S)
  <2>1. i < j \/ j < i
    BY <1>1, <1>7
  <2> QED BY <1>4, <2>1
<1> QED BY <1>5, <1>6, <1>7 DEF Ordering

TopAnswer(q, tag, k, found, matching, inside) ==
  /\ inside \subseteq matching
  /\ Cardinality(inside) = Len(found)
  /\ Len(found) = IF Cardinality(matching) < k THEN Cardinality(matching) ELSE k
  /\ \A out \in matching \ inside, in \in inside : ~Closer(q, out.embedding, in.embedding)

LEMMA TopHolds ==
  ASSUME Searchable(vectors), NEW q \in Queries, NEW tag \in Tags, NEW k \in 0..2,
         NEW found, found = FoundVectors(q, k, tag),
         NEW matching, matching = {vectors[i] : i \in {i \in DOMAIN vectors : vectors[i].tag = tag}},
         NEW inside, inside = {found[i] : i \in DOMAIN found}
  PROVE  TopAnswer(q, tag, k, found, matching, inside)
<1>1. PICK n \in Nat : n = Len(vectors) /\ DOMAIN vectors = 1..n
  BY DEF Searchable
<1>2. PICK S \in SUBSET (1..n) : S = {i \in DOMAIN vectors : vectors[i].tag = tag}
  BY <1>1
<1>3. matching = {vectors[i] : i \in S}
  BY <1>2
<1>4. \A i, j \in S : vectors[i] = vectors[j] => i = j
  BY <1>1 DEF Searchable
<1>5. IsFiniteSet(S)
  BY PlacesOrdered
<1>6. PICK R : R = Nearer(q, S)
  OBVIOUS
<1>7. Ordering(S, R)
  BY <1>1, <1>6, NearerOrders
<1>8. PICK m \in Nat : m = Cardinality(S)
  BY <1>5, FS_CardinalityType
<1>9. PICK order : order = Arranged(S, R)
  OBVIOUS
<1>10. /\ order \in [1..m -> S]
       /\ \A i \in S : \E x \in 1..m : order[x] = i
       /\ \A x, y \in 1..m : x < y => <<order[x], order[y]>> \in R
  BY <1>5, <1>7, <1>8, <1>9, ArrangedIs
<1>11. Len(order) = m
  BY <1>10
<1>12. PICK l \in Nat : l = (IF k < m THEN k ELSE m) /\ l <= m
  OBVIOUS
<1>13. found = [x \in 1..l |-> vectors[order[x]]]
  <2>1. order = Arranged({i \in DOMAIN vectors : vectors[i].tag = tag},
                         {p \in {i \in DOMAIN vectors : vectors[i].tag = tag} \X {i \in DOMAIN vectors : vectors[i].tag = tag} :
                            \/ Closer(q, vectors[p[1]].embedding, vectors[p[2]].embedding)
                            \/ ~Closer(q, vectors[p[2]].embedding, vectors[p[1]].embedding) /\ p[1] < p[2]})
    BY <1>2, <1>6, <1>9 DEF Nearer, Nears
  <2>2. found = [x \in 1..(IF k < Len(order) THEN k ELSE Len(order)) |-> vectors[order[x]]]
    BY <2>1 DEF FoundVectors
  <2> QED BY <1>11, <1>12, <2>2
<1>14. Len(found) = l /\ DOMAIN found = 1..l /\ \A x \in 1..l : x \in 1..m /\ order[x] \in S /\ found[x] = vectors[order[x]]
  BY <1>10, <1>12, <1>13
<1>15. inside \subseteq matching
  <2> SUFFICES ASSUME NEW x \in 1..l PROVE found[x] \in matching
    BY <1>14
  <2>1. PICK i \in S : i = order[x] /\ found[x] = vectors[i]
    BY <1>14
  <2> QED BY <1>3, <2>1
<1>16. \A x, y \in 1..m : order[x] = order[y] => x = y
  <2> SUFFICES ASSUME NEW x \in 1..m, NEW y \in 1..m, x < y PROVE order[x] # order[y]
    OBVIOUS
  <2> QED BY <1>7, <1>10 DEF Ordering
<1>17. Cardinality(inside) = l
  <2>1. found \in [1..l -> inside] /\ \A x, y \in 1..l : found[x] = found[y] => x = y
    <3>1. \A x \in 1..l : found[x] \in inside
      BY <1>14
    <3>2. \A x, y \in 1..l : found[x] = found[y] => x = y
      <4> SUFFICES ASSUME NEW x \in 1..l, NEW y \in 1..l, found[x] = found[y] PROVE x = y
        OBVIOUS
      <4>1. x \in 1..m /\ y \in 1..m /\ order[x] \in S /\ order[y] \in S /\ vectors[order[x]] = vectors[order[y]]
        BY <1>14
      <4>2. order[x] = order[y]
        BY <1>4, <4>1
      <4> QED BY <1>16, <4>1, <4>2
    <3> QED BY <1>13, <3>1, <3>2
  <2>2. found \in Bijection(1..l, inside)
    <3>1. \A z \in inside : \E x \in 1..l : found[x] = z
      BY <1>14
    <3> QED BY <2>1, <3>1 DEF Bijection, Injection, Surjection, IsInjective
  <2>3. IsFiniteSet(1..l) /\ Cardinality(1..l) = l
    <3>1. 1 \in Int /\ l \in Int
      OBVIOUS
    <3>2. IsFiniteSet(1..l) /\ Cardinality(1..l) = IF 1 > l THEN 0 ELSE l - 1 + 1
      BY <3>1, FS_Interval
    <3> QED BY <3>2
  <2> QED BY <2>2, <2>3, FS_Bijection DEF ExistsBijection
<1>18. Cardinality(matching) = m
  <2>1. PICK entry : entry = [i \in S |-> vectors[i]]
    OBVIOUS
  <2>2. entry \in [S -> matching] /\ (\A i, j \in S : entry[i] = entry[j] => i = j) /\ \A z \in matching : \E i \in S : entry[i] = z
    BY <1>3, <1>4, <2>1
  <2>3. entry \in Bijection(S, matching)
    BY <2>2 DEF Bijection, Injection, Surjection, IsInjective
  <2> QED BY <1>5, <1>8, <2>3, FS_Bijection DEF ExistsBijection
<1>19. ASSUME NEW out \in matching \ inside, NEW in \in inside PROVE ~Closer(q, out.embedding, in.embedding)
  <2>1. PICK o \in 1..m : out = vectors[order[o]]
    BY <1>3, <1>10, SMTT(30)
  <2>2. PICK x \in 1..l : in = vectors[order[x]]
    BY <1>14
  <2>3. o \notin 1..l
    BY <1>14, <1>19, <2>1
  <2>4. x \in 1..m /\ x < o
    BY <1>12, <2>3
  <2>5. <<order[x], order[o]>> \in R /\ order[x] \in S /\ order[o] \in S
    BY <1>10, <2>4
  <2>6. <<order[o], order[x]>> \notin R
    BY <1>7, <2>5 DEF Ordering
  <2>7. ~Nears(q, order[o], order[x])
    BY <1>6, <2>5, <2>6 DEF Nearer
  <2> QED BY <2>1, <2>2, <2>7 DEF Nears
<1> QED BY <1>12, <1>14, <1>15, <1>17, <1>18, <1>19 DEF TopAnswer

\* However batches come and go, in whole or in part: a search by any of the metrics returns the
\* closest of what matches, and nothing is closer to a stored vector than itself (Cauchy and
\* Schwarz).
THEOREM SearchesHold == VectorSpec => []SearchesSound
<1>1. VectorInit => Searchable(vectors)
  BY DEF VectorInit, Searchable
<1>2. Searchable(vectors) /\ [VectorNext]_vectors => Searchable(vectors')
  BY VectorStep
<1>3. Searchable(vectors) => SearchesSound
  <2> SUFFICES ASSUME Searchable(vectors) PROVE SearchesSound
    OBVIOUS
  <2>1. AllComparable
    BY DEF AllComparable, Searchable
  <2>2. SearchIsTopK
    <3>1. ASSUME NEW q \in Queries, NEW tag \in Tags, NEW k \in 0..2
          PROVE  TopAnswer(q, tag, k, FoundVectors(q, k, tag), {vectors[i] : i \in {i \in DOMAIN vectors : vectors[i].tag = tag}},
                           {FoundVectors(q, k, tag)[i] : i \in DOMAIN FoundVectors(q, k, tag)})
      <4>1. PICK found : found = FoundVectors(q, k, tag)
        OBVIOUS
      <4>2. PICK inside : inside = {found[i] : i \in DOMAIN found}
        OBVIOUS
      <4>3. PICK matching : matching = {vectors[i] : i \in {i \in DOMAIN vectors : vectors[i].tag = tag}}
        OBVIOUS
      <4>4. TopAnswer(q, tag, k, found, matching, inside)
        BY <4>1, <4>2, <4>3, TopHolds
      <4> QED BY <4>1, <4>2, <4>3, <4>4
    <3> QED BY <3>1 DEF SearchIsTopK, TopAnswer
  <2>3. SelfIsClosest
    <3> SUFFICES ASSUME Metric # "dot_product", NEW i \in DOMAIN vectors, NEW j \in DOMAIN vectors
                 PROVE  ~Closer(vectors[i].embedding, vectors[j].embedding, vectors[i].embedding)
      BY DEF SelfIsClosest
    <3>1. \A x \in DOMAIN vectors : IsVector(vectors[x].embedding)
      <4> SUFFICES ASSUME NEW x \in DOMAIN vectors PROVE IsVector(vectors[x].embedding)
        OBVIOUS
      <4>1. vectors[x] \in Entries /\ Len(vectors[x].embedding) = Dimensions
        BY DEF Searchable, Fitting
      <4>2. vectors[x].embedding \in Seq(Int)
        BY <4>1 DEF Entries
      <4> QED BY <4>1, <4>2 DEF IsVector
    <3> QED BY <3>1, ItselfClosest
  <2> QED BY <2>1, <2>2, <2>3 DEF SearchesSound
<1>4. Searchable(vectors)' <=> Searchable(vectors')
  BY DEF Searchable, Fitting
<1> QED BY <1>1, <1>2, <1>3, <1>4, PTL DEF VectorSpec

-----------------------------------------------------------------------------
(* Prompts: sequences put together *)

Flattening(n, parts, f) == f = [i \in 1..n |-> IF i = 1 THEN parts[i] ELSE f[i - 1] \o parts[i]]

\* out[i]: the first i parts together.
Joins(n, U, parts, out) ==
  out \in [0..n -> Seq(U)] /\ out[0] = <<>> /\ \A i \in 1..n : out[i] = out[i - 1] \o parts[i]

\* FlattenSeq joins its parts one after the other.
LEMMA FlattenIs ==
  ASSUME NEW U, NEW n \in Nat, NEW parts \in [1..n -> Seq(U)]
  PROVE  \E out : Joins(n, U, parts, out) /\ FlattenSeq(parts) = out[n]
<1>1. Len(parts) = n
  OBVIOUS
<1>2. PICK step : step = [i \in 1..n |-> [y \in Seq(U) |-> y \o parts[i]]]
  OBVIOUS
<1>3. step \in [1..n -> [Seq(U) -> Seq(U)]] /\ \A i \in 1..n, y \in Seq(U) : step[i][y] = y \o parts[i]
  BY <1>2
<1>4. PICK out : Grows(n, Seq(U), <<>>, step, out)
  <2>1. PICK T : T = Seq(U)
    OBVIOUS
  <2>2. PICK e : e = <<>> /\ e \in T
    <3>1. <<>> \in Seq(U)
      BY EmptySeq
    <3> QED BY <2>1, <3>1
  <2>3. step \in [1..n -> [T -> T]] /\ n \in Nat
    BY <1>3, <2>1
  <2>4. \E out : Grows(n, T, e, step, out)
    BY <2>2, <2>3, StepByStep
  <2> QED BY <2>1, <2>2, <2>4
<1>5. out \in [0..n -> Seq(U)] /\ out[0] = <<>> /\ \A i \in 1..n : out[i] = out[i - 1] \o parts[i]
  <2>1. out \in [0..n -> Seq(U)] /\ out[0] = <<>> /\ \A i \in 1..n : out[i] = step[i][out[i - 1]]
    BY <1>4 DEF Grows
  <2>2. \A i \in 1..n : out[i - 1] \in Seq(U)
    BY <2>1
  <2> QED BY <1>3, <2>1, <2>2
<1>6. Joins(n, U, parts, out)
  BY <1>5 DEF Joins
<1>7. FlattenSeq(parts) = out[n]
  <2>1. CASE n = 0
    <3>1. parts = <<>>
      <4>1. parts \in Seq(Seq(U)) /\ Len(parts) = 0
        BY <1>1, <2>1
      <4> QED BY <4>1, EmptySeq
    <3> QED BY <1>1, <1>5, <2>1, <3>1 DEF FlattenSeq
  <2>2. CASE n # 0
    <3>1. PICK f : f = [i \in 1..n |-> out[i]]
      OBVIOUS
    <3>2. \A i \in 1..n : f[i] = IF i = 1 THEN parts[i] ELSE f[i - 1] \o parts[i]
      <4> SUFFICES ASSUME NEW i \in 1..n PROVE f[i] = IF i = 1 THEN parts[i] ELSE f[i - 1] \o parts[i]
        OBVIOUS
      <4>1. CASE i = 1
        <5>0. out[i] = out[i - 1] \o parts[i]
          BY <1>5
        <5>1. f[i] = out[i] /\ out[i] = out[i - 1] \o parts[i] /\ i - 1 = 0
          BY <3>1, <4>1, <5>0
        <5>2. PICK part \in Seq(U) : part = parts[i]
          OBVIOUS
        <5>3. <<>> \o part = part
          BY ConcatEmptySeq
        <5> QED BY <1>5, <4>1, <5>1, <5>2, <5>3
      <4>2. CASE i # 1
        <5>1. i - 1 \in 1..n
          BY <4>2
        <5> QED BY <1>5, <3>1, <4>2, <5>1
      <4> QED BY <4>1, <4>2
    <3>3. Flattening(n, parts, f)
      BY <3>1, <3>2 DEF Flattening
    <3>4. PICK g : g = CHOOSE h : Flattening(n, parts, h)
      OBVIOUS
    <3>5. Flattening(n, parts, g)
      BY <3>3, <3>4
    <3>6. FlattenSeq(parts) = g[n]
      BY <1>1, <2>2, <3>4 DEF FlattenSeq, Flattening
    <3>7. \A i \in 1..n : g[i] = IF i = 1 THEN parts[i] ELSE g[i - 1] \o parts[i]
      BY <3>5 DEF Flattening
    <3>8. PICK Q : Q = {i \in 0..n : i = 0 \/ g[i] = f[i]}
      OBVIOUS
    <3>9. 0 \in Q
      BY <3>8
    <3>10. ASSUME NEW i \in 1..n, i - 1 \in Q PROVE i \in Q
      <4>1. CASE i = 1
        BY <3>2, <3>7, <3>8, <4>1
      <4>2. CASE i # 1
        <5>1. i - 1 \in 1..n /\ g[i - 1] = f[i - 1]
          BY <3>8, <3>10, <4>2
        <5> QED BY <3>2, <3>7, <3>8, <4>2, <5>1
      <4> QED BY <4>1, <4>2
    <3>11. n \in Q
      <4>1. 0..n \subseteq Q
        BY <3>9, <3>10, UpTo
      <4> QED BY <4>1
    <3> QED BY <2>2, <3>1, <3>6, <3>8, <3>11
  <2> QED BY <2>1, <2>2
<1> QED BY <1>6, <1>7

\* What Joins says determines the result.
LEMMA JoinsOnce ==
  ASSUME NEW U, NEW n \in Nat, NEW parts, NEW x, NEW y, Joins(n, U, parts, x), Joins(n, U, parts, y)
  PROVE  x[n] = y[n]
<1>1. PICK Q : Q = {i \in 0..n : x[i] = y[i]}
  OBVIOUS
<1>2. 0 \in Q
  BY <1>1 DEF Joins
<1>3. ASSUME NEW i \in 1..n, i - 1 \in Q PROVE i \in Q
  <2>1. x[i] = x[i - 1] \o parts[i] /\ y[i] = y[i - 1] \o parts[i]
    BY DEF Joins
  <2>2. x[i - 1] = y[i - 1]
    BY <1>1, <1>3
  <2>3. x[i] = y[i] /\ i \in 0..n
    BY <2>1, <2>2
  <2> QED BY <1>1, <2>3
<1>4. 0..n \subseteq Q
  BY <1>2, <1>3, UpTo
<1> QED BY <1>1, <1>4

\* The parts of r are those of p, then those of q.
Follows(U, n, m, p, q, r) ==
  /\ n \in Nat /\ m \in Nat
  /\ p \in [1..n -> Seq(U)] /\ q \in [1..m -> Seq(U)] /\ r \in [1..(n + m) -> Seq(U)]
  /\ \A i \in 1..n : r[i] = p[i]
  /\ \A i \in 1..m : r[n + i] = q[i]

\* What is joined from the parts of p and of q is what is joined from each, one after the other.
LEMMA FlattenConcat ==
  ASSUME NEW U, NEW n, NEW m, NEW p, NEW q, NEW r, Follows(U, n, m, p, q, r)
  PROVE  FlattenSeq(r) = FlattenSeq(p) \o FlattenSeq(q)
<1> PICK k \in Nat : k = n + m
  BY DEF Follows
<1> /\ n \in Nat /\ m \in Nat
    /\ p \in [1..n -> Seq(U)] /\ q \in [1..m -> Seq(U)] /\ r \in [1..k -> Seq(U)]
    /\ \A i \in 1..n : r[i] = p[i]
    /\ \A i \in 1..m : r[n + i] = q[i]
  BY DEF Follows
<1>1. PICK P : Joins(n, U, p, P) /\ FlattenSeq(p) = P[n]
  BY FlattenIs
<1>2. PICK Q : Joins(m, U, q, Q) /\ FlattenSeq(q) = Q[m]
  BY FlattenIs
<1>3. PICK R : Joins(k, U, r, R) /\ FlattenSeq(r) = R[k]
  BY FlattenIs
<1>4. PICK A : A = {i \in 0..n : R[i] = P[i]}
  OBVIOUS
<1>5. 0 \in A
  BY <1>1, <1>3, <1>4 DEF Joins
<1>6. ASSUME NEW i \in 1..n, i - 1 \in A PROVE i \in A
  <2>1. R[i - 1] = P[i - 1] /\ i \in 1..k
    BY <1>4, <1>6
  <2>2. R[i] = R[i - 1] \o r[i]
    BY <1>3, <2>1 DEF Joins
  <2>3. P[i] = P[i - 1] \o p[i]
    BY <1>1 DEF Joins
  <2>4. r[i] = p[i]
    OBVIOUS
  <2>5. R[i] = P[i] /\ i \in 0..n
    BY <2>1, <2>2, <2>3, <2>4
  <2> QED BY <1>4, <2>5
<1>7. R[n] = P[n]
  <2>1. 0..n \subseteq A
    BY <1>5, <1>6, UpTo
  <2> QED BY <1>4, <2>1
<1>8. PICK B : B = {i \in 0..m : R[n + i] = P[n] \o Q[i]}
  OBVIOUS
<1>9. P[n] \in Seq(U) /\ \A i \in 0..m : Q[i] \in Seq(U)
  <2>1. P \in [0..n -> Seq(U)] /\ n \in 0..n
    BY <1>1 DEF Joins
  <2>2. Q \in [0..m -> Seq(U)]
    BY <1>2 DEF Joins
  <2> QED BY <2>1, <2>2
<1>10. 0 \in B
  <2>1. P[n] \o <<>> = P[n]
    BY <1>9, ConcatEmptySeq
  <2>2. n + 0 = n /\ Q[0] = <<>> /\ 0 \in 0..m
    BY <1>2 DEF Joins
  <2>3. R[n + 0] = P[n] \o Q[0]
    BY <1>7, <2>1, <2>2
  <2> QED BY <1>8, <2>2, <2>3
<1>11. ASSUME NEW i \in 1..m, i - 1 \in B PROVE i \in B
  <2>1. R[n + (i - 1)] = P[n] \o Q[i - 1]
    BY <1>8, <1>11
  <2>2. n + i \in 1..k /\ (n + i) - 1 = n + (i - 1)
    OBVIOUS
  <2>3. R[n + i] = R[n + (i - 1)] \o r[n + i]
    BY <1>3, <2>2 DEF Joins
  <2>4. r[n + i] = q[i]
    OBVIOUS
  <2>5. Q[i] = Q[i - 1] \o q[i]
    BY <1>2 DEF Joins
  <2>6. q[i] \in Seq(U) /\ Q[i - 1] \in Seq(U)
    <3>1. i - 1 \in 0..m
      OBVIOUS
    <3> QED BY <1>9, <3>1
  <2>7. (P[n] \o Q[i - 1]) \o q[i] = P[n] \o (Q[i - 1] \o q[i])
    <3>1. PICK a \in Seq(U) : a = P[n]
      BY <1>9
    <3>2. PICK b \in Seq(U) : b = Q[i - 1]
      BY <2>6
    <3>3. PICK c \in Seq(U) : c = q[i]
      BY <2>6
    <3>4. (a \o b) \o c = a \o (b \o c)
      BY ConcatAssociative, SMTT(30)
    <3> QED BY <3>1, <3>2, <3>3, <3>4
  <2>8. R[n + i] = P[n] \o Q[i] /\ i \in 0..m
    BY <2>1, <2>3, <2>4, <2>5, <2>7
  <2> QED BY <1>8, <2>8
<1>12. R[k] = P[n] \o Q[m]
  <2>1. 0..m \subseteq B
    BY <1>10, <1>11, UpTo
  <2>2. m \in B
    BY <2>1
  <2>3. R[n + m] = P[n] \o Q[m]
    BY <1>8, <2>2
  <2> QED BY <2>3
<1> QED BY <1>1, <1>2, <1>3, <1>12

-----------------------------------------------------------------------------
(* Prompts: what rendering leaves *)

Occurs(x, s) == \E i \in DOMAIN s : s[i] = x
Pieces(text, variable, value) == [i \in 1..Len(text) |-> IF text[i] = variable THEN value ELSE <<text[i]>>]

\* replace() joins the pieces of the text, where the variable has become its value.
LEMMA ReplacedIs ==
  ASSUME NEW U, NEW text \in Seq(U), NEW value \in Seq(U), ~Occurs(Matched, value), NEW variable
  PROVE  /\ Pieces(text, variable, value) \in [1..Len(text) -> Seq(U)]
         /\ Replaced(text, variable, value) = FlattenSeq(Pieces(text, variable, value))
         /\ Replaced(text, variable, value) \in Seq(U)
<1>1. PICK n \in Nat : n = Len(text) /\ DOMAIN text = 1..n
  OBVIOUS
<1>2. PICK parts : parts = Pieces(text, variable, value)
  OBVIOUS
<1>3. parts \in [1..n -> Seq(U)]
  <2>1. \A i \in 1..n : <<text[i]>> \in Seq(U)
    BY <1>1
  <2>2. parts = [i \in 1..n |-> IF text[i] = variable THEN value ELSE <<text[i]>>]
    BY <1>1, <1>2 DEF Pieces
  <2> QED BY <2>1, <2>2
<1>4. PICK inserted : inserted = [i \in DOMAIN value |-> IF value[i] = Matched THEN variable ELSE value[i]]
  OBVIOUS
<1>5. inserted = value
  <2>1. value = [i \in DOMAIN value |-> value[i]]
    OBVIOUS
  <2>2. \A i \in DOMAIN value : value[i] # Matched
    BY DEF Occurs
  <2>3. \A i \in DOMAIN value : inserted[i] = value[i]
    BY <1>4, <2>2
  <2> QED BY <1>4, <2>1, <2>3
<1>6. Replaced(text, variable, value) = FlattenSeq([i \in DOMAIN text |-> IF text[i] = variable THEN inserted ELSE <<text[i]>>])
  BY <1>4 DEF Replaced
<1>7. Replaced(text, variable, value) = FlattenSeq(parts)
  <2>1. parts = [i \in DOMAIN text |-> IF text[i] = variable THEN inserted ELSE <<text[i]>>]
    BY <1>1, <1>2, <1>5 DEF Pieces
  <2> QED BY <1>6, <2>1
<1>8. FlattenSeq(parts) \in Seq(U)
  <2>1. PICK out : Joins(n, U, parts, out) /\ FlattenSeq(parts) = out[n]
    BY <1>3, FlattenIs
  <2>2. out \in [0..n -> Seq(U)] /\ n \in 0..n
    BY <2>1 DEF Joins
  <2> QED BY <2>1, <2>2
<1> QED BY <1>1, <1>2, <1>3, <1>7, <1>8

\* replace() takes a text apart anywhere.
LEMMA ReplacedConcat ==
  ASSUME NEW U, NEW s \in Seq(U), NEW t \in Seq(U), NEW value \in Seq(U), ~Occurs(Matched, value), NEW variable
  PROVE  Replaced(s \o t, variable, value) = Replaced(s, variable, value) \o Replaced(t, variable, value)
<1>1. PICK n \in Nat : n = Len(s)
  OBVIOUS
<1>2. PICK m \in Nat : m = Len(t)
  OBVIOUS
<1>3. PICK st \in Seq(U) : st = s \o t /\ Len(st) = n + m /\ (\A i \in 1..n : st[i] = s[i]) /\ (\A i \in 1..m : st[n + i] = t[i])
  <2>1. s \o t \in Seq(U) /\ Len(s \o t) = n + m
    BY <1>1, <1>2
  <2>2. \A i \in 1..n : (s \o t)[i] = s[i]
    BY <1>1, <1>2
  <2>3. \A i \in 1..m : (s \o t)[n + i] = t[i]
    BY <1>1, <1>2
  <2> QED BY <2>1, <2>2, <2>3
<1>4. PICK p \in [1..n -> Seq(U)] : p = Pieces(s, variable, value) /\ Replaced(s, variable, value) = FlattenSeq(p)
  BY <1>1, ReplacedIs
<1>5. PICK q \in [1..m -> Seq(U)] : q = Pieces(t, variable, value) /\ Replaced(t, variable, value) = FlattenSeq(q)
  BY <1>2, ReplacedIs
<1>6. PICK r \in [1..(n + m) -> Seq(U)] : r = Pieces(st, variable, value) /\ Replaced(st, variable, value) = FlattenSeq(r)
  <2>1. /\ Pieces(st, variable, value) \in [1..Len(st) -> Seq(U)]
        /\ Replaced(st, variable, value) = FlattenSeq(Pieces(st, variable, value))
    BY ReplacedIs
  <2> QED BY <1>3, <2>1
<1>7. \A i \in 1..n : r[i] = p[i]
  <2> SUFFICES ASSUME NEW i \in 1..n PROVE r[i] = p[i]
    OBVIOUS
  <2>1. i \in 1..(n + m) /\ st[i] = s[i]
    BY <1>3
  <2>2. p[i] = IF s[i] = variable THEN value ELSE <<s[i]>>
    BY <1>1, <1>4 DEF Pieces
  <2>3. r[i] = IF st[i] = variable THEN value ELSE <<st[i]>>
    BY <1>3, <1>6, <2>1 DEF Pieces
  <2> QED BY <2>1, <2>2, <2>3
<1>8. \A i \in 1..m : r[n + i] = q[i]
  <2> SUFFICES ASSUME NEW i \in 1..m PROVE r[n + i] = q[i]
    OBVIOUS
  <2>1. n + i \in 1..(n + m) /\ st[n + i] = t[i]
    BY <1>3, SMTT(30)
  <2>2. q[i] = IF t[i] = variable THEN value ELSE <<t[i]>>
    BY <1>2, <1>5 DEF Pieces
  <2>3. r[n + i] = IF st[n + i] = variable THEN value ELSE <<st[n + i]>>
    BY <1>3, <1>6, <2>1 DEF Pieces
  <2> QED BY <2>1, <2>2, <2>3
<1>9. FlattenSeq(r) = FlattenSeq(p) \o FlattenSeq(q)
  <2>1. Follows(U, n, m, p, q, r)
    BY <1>7, <1>8 DEF Follows
  <2> QED BY <2>1, FlattenConcat
<1> QED BY <1>3, <1>4, <1>5, <1>6, <1>9

\* A sequence is joined from its members.
LEMMA Singles ==
  ASSUME NEW U, NEW t \in Seq(U), NEW parts, parts = [i \in 1..Len(t) |-> <<t[i]>>]
  PROVE  FlattenSeq(parts) = t
<1>1. PICK n \in Nat : n = Len(t)
  OBVIOUS
<1>2. parts \in [1..n -> Seq(U)] /\ \A i \in 1..n : parts[i] = <<t[i]>>
  BY <1>1
<1>3. PICK out : Joins(n, U, parts, out) /\ FlattenSeq(parts) = out[n]
  BY <1>2, FlattenIs
<1>4. out \in [0..n -> Seq(U)] /\ out[0] = <<>> /\ \A i \in 1..n : out[i] = out[i - 1] \o parts[i]
  BY <1>3 DEF Joins
<1>5. PICK Q : Q = {i \in 0..n : Len(out[i]) = i /\ \A j \in 1..i : out[i][j] = t[j]}
  OBVIOUS
<1>6. 0 \in Q
  <2>1. Len(<<>>) = 0
    OBVIOUS
  <2> QED BY <1>4, <1>5, <2>1
<1>7. ASSUME NEW i \in 1..n, i - 1 \in Q PROVE i \in Q
  <2>1. PICK before \in Seq(U) : before = out[i - 1] /\ Len(before) = i - 1 /\ \A j \in 1..(i - 1) : before[j] = t[j]
    <3>1. i - 1 \in 0..n
      OBVIOUS
    <3> QED BY <1>4, <1>5, <1>7, <3>1
  <2>2. PICK x \in U : x = t[i]
    BY <1>1
  <2>3. PICK now : now = out[i] /\ now = before \o <<x>>
    BY <1>2, <1>4, <2>1, <2>2
  <2>4. Len(now) = i
    BY <2>1, <2>3
  <2>5. \A j \in 1..i : now[j] = t[j]
    BY <2>1, <2>2, <2>3
  <2>6. i \in 0..n
    OBVIOUS
  <2> QED BY <1>5, <2>3, <2>4, <2>5, <2>6
<1>8. n \in Q
  <2>1. 0..n \subseteq Q
    BY <1>6, <1>7, UpTo
  <2> QED BY <2>1
<1>9. PICK all \in Seq(U) : all = out[n]
  BY <1>4
<1>10. Len(all) = n /\ \A j \in 1..n : all[j] = t[j]
  BY <1>5, <1>8, <1>9
<1>11. all = t
  BY <1>1, <1>10, SeqEqual
<1> QED BY <1>3, <1>9, <1>11

\* Where the variable does not occur, nothing is replaced.
LEMMA ReplacedAbsent ==
  ASSUME NEW U, NEW t \in Seq(U), NEW value \in Seq(U), ~Occurs(Matched, value), NEW variable, ~Occurs(variable, t)
  PROVE  Replaced(t, variable, value) = t
<1>1. PICK parts : parts = Pieces(t, variable, value) /\ Replaced(t, variable, value) = FlattenSeq(parts)
  BY ReplacedIs
<1>2. parts = [i \in 1..Len(t) |-> <<t[i]>>]
  <2>1. \A i \in 1..Len(t) : t[i] # variable
    BY DEF Occurs
  <2> QED BY <1>1, <2>1 DEF Pieces
<1> QED BY <1>1, <1>2, Singles

\* The variable alone becomes its value.
LEMMA ReplacedAlone ==
  ASSUME NEW U, NEW value \in Seq(U), ~Occurs(Matched, value), NEW variable \in U
  PROVE  Replaced(<<variable>>, variable, value) = value
<1>1. PICK one \in Seq(U) : one = <<variable>> /\ Len(one) = 1 /\ one[1] = variable
  <2>1. <<variable>> \in Seq(U)
    OBVIOUS
  <2>2. Len(<<variable>>) = 1 /\ <<variable>>[1] = variable
    OBVIOUS
  <2> QED BY <2>1, <2>2
<1>2. PICK parts \in [1..1 -> Seq(U)] : parts = Pieces(one, variable, value) /\ Replaced(one, variable, value) = FlattenSeq(parts)
  <2>1. /\ Pieces(one, variable, value) \in [1..Len(one) -> Seq(U)]
        /\ Replaced(one, variable, value) = FlattenSeq(Pieces(one, variable, value))
    BY ReplacedIs
  <2> QED BY <1>1, <2>1
<1>3. parts[1] = value
  BY <1>1, <1>2 DEF Pieces
<1>4. PICK n \in Nat : n = 1
  OBVIOUS
<1>5. PICK out : Joins(n, U, parts, out) /\ FlattenSeq(parts) = out[n]
  BY <1>2, <1>4, FlattenIs
<1>6. out[1] = out[1 - 1] \o parts[1] /\ out[0] = <<>>
  BY <1>4, <1>5 DEF Joins
<1>7. <<>> \o value = value
  BY ConcatEmptySeq
<1>8. out[1] = value
  BY <1>3, <1>6, <1>7
<1> QED BY <1>1, <1>2, <1>4, <1>5, <1>8

\* In h the variable has its value where in g it stands for itself.
Substitutes(U, n, g, h, variable, value) ==
  /\ n \in Nat /\ g \in [1..n -> Seq(U)] /\ h \in [1..n -> Seq(U)]
  /\ value \in Seq(U) /\ ~Occurs(Matched, value) /\ variable \in U
  /\ \A i \in 1..n : (g[i] = <<variable>> /\ h[i] = value) \/ (~Occurs(variable, g[i]) /\ h[i] = g[i])

\* In a text of parts, replace() changes the parts that are the variable, and no other.
LEMMA ReplacedParts ==
  ASSUME NEW U, NEW n, NEW g, NEW h, NEW variable, NEW value, Substitutes(U, n, g, h, variable, value)
  PROVE  Replaced(FlattenSeq(g), variable, value) = FlattenSeq(h)
<1> /\ n \in Nat /\ g \in [1..n -> Seq(U)] /\ h \in [1..n -> Seq(U)]
    /\ value \in Seq(U) /\ ~Occurs(Matched, value) /\ variable \in U
    /\ \A i \in 1..n : (g[i] = <<variable>> /\ h[i] = value) \/ (~Occurs(variable, g[i]) /\ h[i] = g[i])
  BY DEF Substitutes
<1>1. PICK G : Joins(n, U, g, G) /\ FlattenSeq(g) = G[n]
  BY FlattenIs
<1>2. PICK H : Joins(n, U, h, H) /\ FlattenSeq(h) = H[n]
  BY FlattenIs
<1>3. PICK Q : Q = {i \in 0..n : Replaced(G[i], variable, value) = H[i]}
  OBVIOUS
<1>4. 0 \in Q
  <2>1. G[0] = <<>> /\ H[0] = <<>>
    BY <1>1, <1>2 DEF Joins
  <2>2. PICK none \in Seq(U) : none = <<>> /\ Len(none) = 0
    BY EmptySeq
  <2>3. ~Occurs(variable, none)
    BY <2>2 DEF Occurs
  <2>4. Replaced(none, variable, value) = none
    BY <2>3, ReplacedAbsent
  <2> QED BY <1>3, <2>1, <2>2, <2>4
<1>5. ASSUME NEW i \in 1..n, i - 1 \in Q PROVE i \in Q
  <2>1. PICK a \in Seq(U) : a = G[i - 1]
    <3>1. G \in [0..n -> Seq(U)] /\ i - 1 \in 0..n
      BY <1>1 DEF Joins
    <3> QED BY <3>1
  <2>2. PICK b \in Seq(U) : b = g[i]
    OBVIOUS
  <2>3. G[i] = a \o b
    BY <1>1, <2>1, <2>2 DEF Joins
  <2>4. H[i] = H[i - 1] \o h[i]
    BY <1>2 DEF Joins
  <2>5. Replaced(a \o b, variable, value) = Replaced(a, variable, value) \o Replaced(b, variable, value)
    BY ReplacedConcat
  <2>6. Replaced(a, variable, value) = H[i - 1]
    BY <1>3, <1>5, <2>1
  <2>7. Replaced(b, variable, value) = h[i]
    <3>1. CASE b = <<variable>> /\ h[i] = value
      BY <3>1, ReplacedAlone
    <3>2. CASE ~Occurs(variable, b) /\ h[i] = b
      BY <3>2, ReplacedAbsent
    <3> QED BY <2>2, <3>1, <3>2
  <2>8. Replaced(G[i], variable, value) = H[i] /\ i \in 0..n
    BY <2>3, <2>4, <2>5, <2>6, <2>7
  <2> QED BY <1>3, <2>8
<1>6. n \in Q
  <2>1. 0..n \subseteq Q
    BY <1>4, <1>5, UpTo
  <2> QED BY <2>1
<1> QED BY <1>1, <1>2, <1>3, <1>6

\* rest[i]: what the first i variables leave of the text.
Rendering(text, variables, rest) ==
  rest = [i \in 0..Len(variables) |-> IF i = 0 THEN text ELSE Replaced(rest[i - 1], variables[i].name, variables[i].value)]

\* Values that contain neither one another's placeholders nor `$&`.
Plainly(U, n, variables) ==
  /\ variables \in Seq([name : U, value : Seq(U)]) /\ Len(variables) = n
  /\ \A i, j \in 1..n : variables[i].name = variables[j].name => i = j
  /\ \A i, j \in 1..n : ~Occurs(variables[j].name, variables[i].value)
  /\ \A i \in 1..n : ~Occurs(Matched, variables[i].value)

LEMMA PlainOne ==
  ASSUME NEW U, NEW n, NEW variables, Plainly(U, n, variables), NEW i \in 1..n
  PROVE  variables[i] \in [name : U, value : Seq(U)] /\ ~Occurs(Matched, variables[i].value)
<1>1. PICK R : R = [name : U, value : Seq(U)]
  OBVIOUS
<1>2. variables \in Seq(R) /\ Len(variables) = n
  BY <1>1 DEF Plainly
<1>3. variables[i] \in R
  BY <1>2, ElementOfSeq
<1>4. ~Occurs(Matched, variables[i].value)
  BY DEF Plainly
<1> QED BY <1>1, <1>3, <1>4

\* After k variables: the parts that are one of them have its value, and the others still stand for themselves.
LEMMA RenderedSteps ==
  ASSUME NEW U, NEW text \in Seq(U), NEW n \in Nat, NEW variables, Plainly(U, n, variables)
  PROVE  \E rest : /\ rest \in [0..n -> Seq(U)] /\ rest[0] = text /\ Rendered(text, variables) = rest[n]
                   /\ \A i \in 1..n : rest[i] = Replaced(rest[i - 1], variables[i].name, variables[i].value)
<1>1. PICK T : T = Seq(U)
  OBVIOUS
<1>2. \A i \in 1..n, t \in T : Replaced(t, variables[i].name, variables[i].value) \in T
  <2> SUFFICES ASSUME NEW i \in 1..n, NEW t \in Seq(U) PROVE Replaced(t, variables[i].name, variables[i].value) \in Seq(U)
    BY <1>1
  <2>1. variables[i] \in [name : U, value : Seq(U)] /\ ~Occurs(Matched, variables[i].value)
    BY PlainOne
  <2>2. variables[i].value \in Seq(U)
    BY <2>1
  <2> QED BY <2>1, <2>2, ReplacedIs
<1>3. PICK step : step = [i \in 1..n |-> [t \in T |-> Replaced(t, variables[i].name, variables[i].value)]]
  OBVIOUS
<1>4. step \in [1..n -> [T -> T]] /\ \A i \in 1..n, t \in T : step[i][t] = Replaced(t, variables[i].name, variables[i].value)
  BY <1>2, <1>3
<1>5. PICK out : Grows(n, T, text, step, out)
  <2>1. text \in T
    BY <1>1
  <2> QED BY <1>4, <2>1, StepByStep
<1>6. out \in [0..n -> T] /\ out[0] = text /\ \A i \in 1..n : out[i] = Replaced(out[i - 1], variables[i].name, variables[i].value)
  <2>1. out \in [0..n -> T] /\ out[0] = text /\ \A i \in 1..n : out[i] = step[i][out[i - 1]]
    BY <1>5 DEF Grows
  <2>2. \A i \in 1..n : out[i - 1] \in T
    BY <2>1
  <2> QED BY <1>4, <2>1, <2>2
<1>7. Len(variables) = n
  BY DEF Plainly
<1>8. Rendering(text, variables, out)
  <2>1. \A i \in 0..n : out[i] = IF i = 0 THEN text ELSE Replaced(out[i - 1], variables[i].name, variables[i].value)
    BY <1>6
  <2>2. out = [i \in 0..n |-> out[i]]
    BY <1>6
  <2> QED BY <1>7, <2>1, <2>2 DEF Rendering
<1>9. PICK rest : rest = CHOOSE l : Rendering(text, variables, l)
  OBVIOUS
<1>10. Rendering(text, variables, rest)
  BY <1>8, <1>9
<1>11. Rendered(text, variables) = rest[n]
  BY <1>7, <1>9 DEF Rendered, Rendering
<1>12. \A i \in 0..n : rest[i] = IF i = 0 THEN text ELSE Replaced(rest[i - 1], variables[i].name, variables[i].value)
  BY <1>7, <1>10 DEF Rendering
<1>13. PICK Q : Q = {i \in 0..n : rest[i] = out[i]}
  OBVIOUS
<1>14. 0 \in Q
  BY <1>6, <1>12, <1>13
<1>15. ASSUME NEW i \in 1..n, i - 1 \in Q PROVE i \in Q
  <2>1. rest[i - 1] = out[i - 1] /\ i \in 0..n /\ i # 0
    BY <1>13, <1>15
  <2>2. rest[i] = Replaced(rest[i - 1], variables[i].name, variables[i].value)
    BY <1>12, <2>1
  <2>3. out[i] = Replaced(out[i - 1], variables[i].name, variables[i].value)
    BY <1>6
  <2> QED BY <1>13, <2>1, <2>2, <2>3
<1>16. n \in Q
  <2>1. 0..n \subseteq Q
    BY <1>14, <1>15, UpTo
  <2> QED BY <2>1
<1> QED BY <1>1, <1>6, <1>11, <1>13, <1>16

\* After all variables, in whatever order, each part of the text that is one of them is its value.
LEMMA RenderedIs ==
  ASSUME NEW U, NEW text \in Seq(U), NEW n \in Nat, NEW variables, Plainly(U, n, variables),
         NEW parts, parts \in [1..Len(text) -> Seq(U)],
         \A i \in 1..Len(text), k \in 1..n : text[i] = variables[k].name => parts[i] = variables[k].value,
         \A i \in 1..Len(text) : (\A k \in 1..n : text[i] # variables[k].name) => parts[i] = <<text[i]>>
  PROVE  Rendered(text, variables) = FlattenSeq(parts)
<1>1. PICK m \in Nat : m = Len(text)
  OBVIOUS
<1>2. PICK rest : /\ rest \in [0..n -> Seq(U)] /\ rest[0] = text /\ Rendered(text, variables) = rest[n]
                  /\ \A i \in 1..n : rest[i] = Replaced(rest[i - 1], variables[i].name, variables[i].value)
  BY RenderedSteps
<1>3. PICK g : g = [k \in 0..n |-> [i \in 1..m |-> IF \E j \in 1..k : text[i] = variables[j].name THEN parts[i] ELSE <<text[i]>>]]
  OBVIOUS
<1>4. \A k \in 0..n : g[k] \in [1..m -> Seq(U)] /\ \A i \in 1..m : g[k][i] = IF \E j \in 1..k : text[i] = variables[j].name THEN parts[i] ELSE <<text[i]>>
  <2>1. \A i \in 1..m : <<text[i]>> \in Seq(U) /\ parts[i] \in Seq(U)
    BY <1>1
  <2> QED BY <1>3, <2>1
<1>5. PICK Q : Q = {k \in 0..n : rest[k] = FlattenSeq(g[k])}
  OBVIOUS
<1>6. 0 \in Q
  <2>1. g[0] = [i \in 1..Len(text) |-> <<text[i]>>]
    <3>1. \A i \in 1..m : ~\E j \in 1..0 : text[i] = variables[j].name
      OBVIOUS
    <3>2. 0 \in 0..n
      OBVIOUS
    <3> QED BY <1>1, <1>3, <3>1, <3>2
  <2>2. FlattenSeq(g[0]) = text
    BY <2>1, Singles
  <2> QED BY <1>2, <1>5, <2>2
<1>7. ASSUME NEW k \in 1..n, k - 1 \in Q PROVE k \in Q
  <2>1. k - 1 \in 0..n /\ k \in 0..n
    OBVIOUS
  <2>2. PICK before \in [1..m -> Seq(U)] : before = g[k - 1]
    BY <1>4, <2>1
  <2>3. PICK after \in [1..m -> Seq(U)] : after = g[k]
    BY <1>4, <2>1
  <2>4. variables[k] \in [name : U, value : Seq(U)] /\ ~Occurs(Matched, variables[k].value)
    BY PlainOne
  <2>5. PICK name \in U : name = variables[k].name
    BY <2>4
  <2>6. PICK value \in Seq(U) : value = variables[k].value /\ ~Occurs(Matched, value)
    BY <2>4
  <2>7. ASSUME NEW i \in 1..m
        PROVE  (before[i] = <<name>> /\ after[i] = value) \/ (~Occurs(name, before[i]) /\ after[i] = before[i])
    <3>1. before[i] = IF \E j \in 1..(k - 1) : text[i] = variables[j].name THEN parts[i] ELSE <<text[i]>>
      BY <1>4, <2>1, <2>2
    <3>2. after[i] = IF \E j \in 1..k : text[i] = variables[j].name THEN parts[i] ELSE <<text[i]>>
      BY <1>4, <2>1, <2>3
    <3>3. CASE \E j \in 1..(k - 1) : text[i] = variables[j].name
      <4>1. PICK j \in 1..(k - 1) : text[i] = variables[j].name
        BY <3>3
      <4>2. j \in 1..n /\ j \in 1..k
        OBVIOUS
      <4>3. parts[i] = variables[j].value
        BY <1>1, <4>1, <4>2
      <4>4. ~Occurs(name, variables[j].value)
        BY <2>5, <4>2 DEF Plainly
      <4>5. before[i] = parts[i] /\ after[i] = parts[i]
        BY <3>1, <3>2, <4>1, <4>2
      <4> QED BY <4>3, <4>4, <4>5
    <3>4. CASE (\A j \in 1..(k - 1) : text[i] # variables[j].name) /\ text[i] = name
      <4>1. before[i] = <<name>>
        BY <3>1, <3>4
      <4>2. after[i] = parts[i]
        <5>1. k \in 1..k
          OBVIOUS
        <5> QED BY <2>5, <3>2, <3>4, <5>1
      <4>3. parts[i] = value
        BY <1>1, <2>5, <2>6, <3>4
      <4> QED BY <4>1, <4>2, <4>3
    <3>5. CASE (\A j \in 1..(k - 1) : text[i] # variables[j].name) /\ text[i] # name
      <4>1. \A j \in 1..k : text[i] # variables[j].name
        <5>1. \A j \in 1..k : j \in 1..(k - 1) \/ j = k
          OBVIOUS
        <5> QED BY <2>5, <3>5, <5>1
      <4>2. before[i] = <<text[i]>> /\ after[i] = <<text[i]>>
        BY <3>1, <3>2, <3>5, <4>1
      <4>3. ~Occurs(name, <<text[i]>>)
        <5>1. DOMAIN <<text[i]>> = {1} /\ <<text[i]>>[1] = text[i]
          OBVIOUS
        <5> QED BY <3>5, <5>1 DEF Occurs
      <4> QED BY <4>2, <4>3
    <3> QED BY <3>3, <3>4, <3>5
  <2>8. Replaced(FlattenSeq(before), name, value) = FlattenSeq(after)
    <3>1. Substitutes(U, m, before, after, name, value)
      BY <2>6, <2>7 DEF Substitutes
    <3> QED BY <3>1, ReplacedParts
  <2>9. rest[k - 1] = FlattenSeq(before)
    BY <1>5, <1>7, <2>2
  <2>10. rest[k] = Replaced(rest[k - 1], name, value)
    BY <1>2, <2>5, <2>6
  <2> QED BY <1>5, <2>1, <2>3, <2>8, <2>9, <2>10
<1>8. n \in Q
  <2>1. 0..n \subseteq Q
    BY <1>6, <1>7, UpTo
  <2> QED BY <2>1
<1>9. g[n] = parts
  <2>1. g[n] \in [1..m -> Seq(U)] /\ \A i \in 1..m : g[n][i] = IF \E j \in 1..n : text[i] = variables[j].name THEN parts[i] ELSE <<text[i]>>
    <3>1. n \in 0..n
      OBVIOUS
    <3> QED BY <1>4, <3>1
  <2>2. \A i \in 1..m : g[n][i] = parts[i]
    BY <1>1, <2>1
  <2>3. PICK f \in [1..m -> Seq(U)] : f = g[n] /\ \A i \in 1..m : f[i] = parts[i]
    BY <2>1, <2>2
  <2>4. parts \in [1..m -> Seq(U)]
    BY <1>1
  <2>5. f = parts
    <3>1. f = [i \in 1..m |-> f[i]] /\ parts = [i \in 1..m |-> parts[i]]
      BY <2>4
    <3>2. [i \in 1..m |-> f[i]] = [i \in 1..m |-> parts[i]]
      BY <2>3
    <3> QED BY <3>1, <3>2
  <2> QED BY <2>3, <2>5
<1> QED BY <1>2, <1>5, <1>8, <1>9

-----------------------------------------------------------------------------
(* Prompts: the templates *)

\* Whoever declares the variables of a template, or leaves it to updateTemplate(), covers its placeholders.
PromptInv ==
  /\ prompts \in [PromptIds \cup DOMAIN BuiltIn -> Templates \cup {NoPrompt}]
  /\ honest \subseteq PromptIds \cup DOMAIN BuiltIn
  /\ \A id \in honest : prompts[id] \in Templates /\ Slots(prompts[id].text) \subseteq prompts[id].declared

Slotted(p) == \E T : \E slots \in Seq(T) : p = [text |-> slots, declared |-> ToSet(slots)]

LEMMA BuiltInSlots ==
  ASSUME NEW id \in DOMAIN BuiltIn
  PROVE  Slotted(BuiltIn[id])
<1>1. id \in {"music_analysis", "genre_classification", "mood_detection", "lyric_generation", "artist_bio", "playlist_description"}
  BY DEF BuiltIn
<1>2. PICK T : T = {"track_name", "artist_name", "genre", "description", "audio_features", "lyrics", "audio_characteristics",
                    "theme", "mood", "structure", "career_highlights", "style_description",
                    "playlist_name", "track_count", "target_audience"}
  OBVIOUS
<1>3. CASE id = "music_analysis"
  <2>1. <<"track_name", "artist_name", "genre">> \in Seq(T)
    BY <1>2
  <2>2. BuiltIn[id] = [text |-> <<"track_name", "artist_name", "genre">>, declared |-> ToSet(<<"track_name", "artist_name", "genre">>)]
    BY <1>3 DEF BuiltIn
  <2> QED BY <2>1, <2>2 DEF Slotted
<1>4. CASE id = "genre_classification"
  <2>1. <<"description", "audio_features">> \in Seq(T)
    BY <1>2
  <2>2. BuiltIn[id] = [text |-> <<"description", "audio_features">>, declared |-> ToSet(<<"description", "audio_features">>)]
    BY <1>4 DEF BuiltIn
  <2> QED BY <2>1, <2>2 DEF Slotted
<1>5. CASE id = "mood_detection"
  <2>1. <<"track_name", "lyrics", "audio_characteristics">> \in Seq(T)
    BY <1>2
  <2>2. BuiltIn[id] = [text |-> <<"track_name", "lyrics", "audio_characteristics">>,
                       declared |-> ToSet(<<"track_name", "lyrics", "audio_characteristics">>)]
    BY <1>5 DEF BuiltIn
  <2> QED BY <2>1, <2>2 DEF Slotted
<1>6. CASE id = "lyric_generation"
  <2>1. <<"theme", "genre", "mood", "structure">> \in Seq(T)
    BY <1>2
  <2>2. BuiltIn[id] = [text |-> <<"theme", "genre", "mood", "structure">>, declared |-> ToSet(<<"theme", "genre", "mood", "structure">>)]
    BY <1>6 DEF BuiltIn
  <2> QED BY <2>1, <2>2 DEF Slotted
<1>7. CASE id = "artist_bio"
  <2>1. <<"artist_name", "genre", "career_highlights", "style_description">> \in Seq(T)
    BY <1>2
  <2>2. BuiltIn[id] = [text |-> <<"artist_name", "genre", "career_highlights", "style_description">>,
                       declared |-> ToSet(<<"artist_name", "genre", "career_highlights", "style_description">>)]
    BY <1>7 DEF BuiltIn
  <2> QED BY <2>1, <2>2 DEF Slotted
<1>8. CASE id = "playlist_description"
  <2>1. <<"playlist_name", "theme", "track_count", "target_audience">> \in Seq(T)
    BY <1>2
  <2>2. BuiltIn[id] = [text |-> <<"playlist_name", "theme", "track_count", "target_audience">>,
                       declared |-> ToSet(<<"playlist_name", "theme", "track_count", "target_audience">>)]
    BY <1>8 DEF BuiltIn
  <2> QED BY <2>1, <2>2 DEF Slotted
<1> QED BY <1>1, <1>3, <1>4, <1>5, <1>6, <1>7, <1>8

LEMMA BuiltInIs ==
  ASSUME NEW id \in DOMAIN BuiltIn
  PROVE  /\ BuiltIn[id] = [text |-> BuiltIn[id].text, declared |-> BuiltIn[id].declared]
         /\ BuiltIn[id].declared = ToSet(BuiltIn[id].text) /\ \E T : BuiltIn[id].text \in Seq(T)
<1>1. PICK T : \E slots \in Seq(T) : BuiltIn[id] = [text |-> slots, declared |-> ToSet(slots)]
  BY BuiltInSlots DEF Slotted
<1>2. PICK slots \in Seq(T) : BuiltIn[id] = [text |-> slots, declared |-> ToSet(slots)]
  BY <1>1
<1>3. BuiltIn[id].text = slots /\ BuiltIn[id].declared = ToSet(slots)
  BY <1>2
<1> QED BY <1>2, <1>3

\* The text and the declared variables of a template, and a template that has both.
LEMMA TemplateParts ==
  /\ \A p \in Templates : /\ p.text \in Texts \/ \E id \in DOMAIN BuiltIn : p.text = BuiltIn[id].text
                          /\ \/ \E text \in Texts : p.declared \in Declarations(text)
                             \/ \E id \in DOMAIN BuiltIn : p.declared = BuiltIn[id].declared
  /\ \A text, declared :
       /\ text \in Texts \/ \E id \in DOMAIN BuiltIn : text = BuiltIn[id].text
       /\ (\E other \in Texts : declared \in Declarations(other)) \/ \E id \in DOMAIN BuiltIn : declared = BuiltIn[id].declared
       => [text |-> text, declared |-> declared] \in Templates
<1> DEFINE A == Texts \cup {BuiltIn[id].text : id \in DOMAIN BuiltIn}
           C == UNION {Declarations(text) : text \in Texts}
           D == {BuiltIn[id].declared : id \in DOMAIN BuiltIn}
<1>1. Templates = [text : A, declared : C \cup D]
  BY DEF Templates, AnyDeclaration
<1>2. \A x : x \in A <=> x \in Texts \/ \E id \in DOMAIN BuiltIn : x = BuiltIn[id].text
  OBVIOUS
<1>3. \A x : x \in C <=> \E text \in Texts : x \in Declarations(text)
  OBVIOUS
<1>4. \A x : x \in D <=> \E id \in DOMAIN BuiltIn : x = BuiltIn[id].declared
  OBVIOUS
<1> HIDE DEF A, C, D
<1>5. \A p \in Templates : p.text \in A /\ p.declared \in C \cup D
  BY <1>1
<1>6. \A text \in A, declared \in C \cup D : [text |-> text, declared |-> declared] \in Templates
  BY <1>1
<1> QED BY <1>2, <1>3, <1>4, <1>5, <1>6

\* Templates are texts of placeholders and words.
LEMMA TemplateIs ==
  ASSUME NEW p \in Templates
  PROVE  /\ \E T : p.text \in Seq(T)
         /\ Matched \notin ToSet(p.text) /\ Word \notin p.declared /\ Matched \notin p.declared
<1>1. ASSUME NEW text \in Texts PROVE Word \notin Slots(text) /\ Matched \notin Slots(text)
  BY DEF Slots
<1>2. "genre" # Word /\ "genre" # Matched
  <2>1. "lyric_generation" \in DOMAIN BuiltIn /\ "genre" \in BuiltIn["lyric_generation"].declared
    BY DEF BuiltIn, ToSet
  <2> QED BY <2>1, TextsAssumption
<1>3. p.text \in Texts \/ \E id \in DOMAIN BuiltIn : p.text = BuiltIn[id].text
  BY TemplateParts
<1>4. (\E text \in Texts : p.declared \in Declarations(text)) \/ \E id \in DOMAIN BuiltIn : p.declared = BuiltIn[id].declared
  BY TemplateParts
<1>5. Word \notin p.declared /\ Matched \notin p.declared
  <2>1. CASE \E text \in Texts : p.declared \in Declarations(text)
    BY <1>1, <1>2, <2>1 DEF Declarations
  <2>2. CASE \E id \in DOMAIN BuiltIn : p.declared = BuiltIn[id].declared
    BY <2>2, TextsAssumption
  <2> QED BY <1>4, <2>1, <2>2
<1>6. CASE p.text \in Texts
  BY <1>5, <1>6, TextsAssumption
<1>7. CASE \E id \in DOMAIN BuiltIn : p.text = BuiltIn[id].text
  <2>1. PICK id \in DOMAIN BuiltIn : p.text = BuiltIn[id].text
    BY <1>7
  <2>2. Matched \notin BuiltIn[id].declared
    BY TextsAssumption
  <2> QED BY <1>5, <2>1, <2>2, BuiltInIs
<1> QED BY <1>3, <1>6, <1>7

LEMMA PromptStart == PromptInit => PromptInv
<1> SUFFICES ASSUME PromptInit PROVE PromptInv
  OBVIOUS
<1>1. ASSUME NEW id \in DOMAIN BuiltIn
      PROVE  BuiltIn[id] \in Templates /\ Slots(BuiltIn[id].text) \subseteq BuiltIn[id].declared
  <2>1. BuiltIn[id] \in Templates
    BY BuiltInIs, TemplateParts
  <2>2. Slots(BuiltIn[id].text) \subseteq BuiltIn[id].declared
    BY BuiltInIs DEF Slots
  <2> QED BY <2>1, <2>2
<1>2. \A id \in DOMAIN BuiltIn : prompts[id] = BuiltIn[id]
  BY DEF PromptInit
<1>3. prompts \in [PromptIds \cup DOMAIN BuiltIn -> Templates \cup {NoPrompt}]
  BY <1>1 DEF PromptInit
<1>4. honest = DOMAIN BuiltIn
  BY DEF PromptInit
<1> QED BY <1>1, <1>2, <1>3, <1>4 DEF PromptInv

LEMMA PromptStep == PromptInv /\ [PromptNext]_promptVars => PromptInv'
<1> SUFFICES ASSUME PromptInv, [PromptNext]_promptVars PROVE PromptInv'
  OBVIOUS
<1>1. ASSUME NEW id \in PromptIds, NEW new \in Templates, prompts' = [prompts EXCEPT ![id] = new],
             honest' \subseteq honest \cup {id}, id \in honest' => Slots(new.text) \subseteq new.declared
      PROVE  PromptInv'
  <2>1. prompts' \in [PromptIds \cup DOMAIN BuiltIn -> Templates \cup {NoPrompt}] /\ prompts'[id] = new
        /\ \A other \in honest \ {id} : prompts'[other] = prompts[other]
    BY <1>1 DEF PromptInv
  <2>2. honest' \subseteq PromptIds \cup DOMAIN BuiltIn
    BY <1>1 DEF PromptInv
  <2>3. ASSUME NEW other \in honest' PROVE prompts'[other] \in Templates /\ Slots(prompts'[other].text) \subseteq prompts'[other].declared
    <3>1. CASE other = id
      BY <1>1, <2>1, <2>3, <3>1
    <3>2. CASE other # id
      <4>1. other \in honest /\ prompts'[other] = prompts[other]
        BY <1>1, <2>1, <2>3, <3>2
      <4> QED BY <4>1 DEF PromptInv
    <3> QED BY <3>1, <3>2
  <2> QED BY <2>1, <2>2, <2>3 DEF PromptInv, Slots
<1>2. ASSUME NEW id \in PromptIds, NEW text \in Texts, NEW declared \in Declarations(text), RegisterTemplate(id, text, declared)
      PROVE  PromptInv'
  <2>1. PICK new \in Templates : new = [text |-> text, declared |-> declared]
    BY TemplateParts
  <2>2. new.text = text /\ new.declared = declared
    BY <2>1
  <2>3. prompts' = [prompts EXCEPT ![id] = new] /\ honest' \subseteq honest \cup {id} /\ (id \in honest' => declared = Slots(text))
    BY <1>2, <2>1 DEF RegisterTemplate
  <2> QED BY <1>1, <2>2, <2>3
<1>3. ASSUME NEW id \in PromptIds, NEW text \in Texts,
             NEW supplied \in AnyDeclaration \cup {p.declared : p \in {prompts[id]} \ {NoPrompt}}, UpdateText(id, text, supplied)
      PROVE  PromptInv'
  <2>1. prompts[id] \in Templates /\ prompts[id] # NoPrompt
    BY <1>3 DEF UpdateText, PromptInv
  <2>2. PICK declared : declared = IF text = <<>> THEN supplied ELSE Slots(text)
    OBVIOUS
  <2>3. PICK new \in Templates : new = [text |-> text, declared |-> declared]
    <3>1. (\E other \in Texts : declared \in Declarations(other)) \/ \E other \in DOMAIN BuiltIn : declared = BuiltIn[other].declared
      <4>1. CASE text = <<>>
        <5>1. CASE supplied \in AnyDeclaration
          BY <2>2, <4>1, <5>1 DEF AnyDeclaration
        <5>2. CASE supplied = prompts[id].declared
          BY <2>1, <2>2, <4>1, <5>2, TemplateParts
        <5> QED BY <1>3, <5>1, <5>2
      <4>2. CASE text # <<>>
        BY <2>2, <4>2 DEF Declarations
      <4> QED BY <4>1, <4>2
    <3> QED BY <3>1, TemplateParts
  <2>4. new.text = text /\ new.declared = declared
    BY <2>3
  <2>5. Slots(text) \subseteq declared
    <3>1. CASE text = <<>>
      BY <3>1 DEF Slots, ToSet
    <3>2. CASE text # <<>>
      BY <2>2, <3>2
    <3> QED BY <3>1, <3>2
  <2>6. prompts' = [prompts EXCEPT ![id] = new] /\ honest' = honest \cup {id}
    BY <1>3, <2>2, <2>3 DEF UpdateText
  <2> QED BY <1>1, <2>4, <2>5, <2>6
<1>6. ASSUME NEW id \in PromptIds, NEW declared \in AnyDeclaration, UpdateVariables(id, declared)
      PROVE  PromptInv'
  <2>1. prompts[id] \in Templates
    BY <1>6 DEF UpdateVariables, PromptInv
  <2>2. PICK new : new = [prompts[id] EXCEPT !.declared = declared]
    OBVIOUS
  <2>3. new \in Templates /\ new.text = prompts[id].text /\ new.declared = declared
    <3>1. prompts[id] = [text |-> prompts[id].text, declared |-> prompts[id].declared]
      BY <2>1 DEF Templates
    <3>2. new = [text |-> prompts[id].text, declared |-> declared]
      BY <2>2, <3>1
    <3>3. \E other \in Texts : declared \in Declarations(other)
      BY <1>6 DEF AnyDeclaration
    <3> QED BY <2>1, <3>2, <3>3, TemplateParts
  <2>4. prompts' = [prompts EXCEPT ![id] = new] /\ honest' \subseteq honest \cup {id} /\ (id \in honest' => declared = Slots(prompts[id].text))
    BY <1>6, <2>2 DEF UpdateVariables
  <2> QED BY <1>1, <2>3, <2>4
<1>4. ASSUME NEW id \in PromptIds, DeleteTemplate(id) PROVE PromptInv'
  <2>1. prompts' \in [PromptIds \cup DOMAIN BuiltIn -> Templates \cup {NoPrompt}] /\ honest' = honest \ {id}
    BY <1>4 DEF DeleteTemplate, PromptInv
  <2>2. \A other \in honest' : prompts'[other] = prompts[other] /\ other \in honest
    BY <1>4, <2>1 DEF DeleteTemplate, PromptInv
  <2> QED BY <2>1, <2>2 DEF PromptInv, Slots
<1>5. CASE UNCHANGED promptVars
  BY <1>5 DEF promptVars, PromptInv, Slots
<1> QED BY <1>2, <1>3, <1>4, <1>5, <1>6 DEF PromptNext

LEMMA ToSetFinite ==
  ASSUME NEW T, NEW s \in Seq(T)
  PROVE  IsFiniteSet(ToSet(s))
<1>1. PICK n \in Nat : n = Len(s) /\ DOMAIN s = 1..n
  OBVIOUS
<1>2. IsFiniteSet(1..n)
  BY FS_Interval
<1>3. s = [i \in DOMAIN s |-> s[i]]
  OBVIOUS
<1>4. IsFiniteSet({s[i] : i \in DOMAIN s})
  BY <1>1, <1>2, <1>3, ImageOf
<1> QED BY <1>4 DEF ToSet

LEMMA DeclaredFinite ==
  ASSUME NEW p \in Templates
  PROVE  IsFiniteSet(p.declared) /\ IsFiniteSet(Slots(p.text))
<1>1. ASSUME NEW text \in Texts PROVE IsFiniteSet(Slots(text))
  <2>1. IsFiniteSet(ToSet(text))
    BY TextsAssumption, ToSetFinite
  <2> QED BY <2>1, FS_Subset DEF Slots
<1>2. IsFiniteSet({"genre"})
  BY FS_Singleton
<1>3. (\E text \in Texts : p.declared \in Declarations(text)) \/ \E id \in DOMAIN BuiltIn : p.declared = BuiltIn[id].declared
  BY TemplateParts
<1>4. ASSUME NEW id \in DOMAIN BuiltIn PROVE IsFiniteSet(BuiltIn[id].declared)
  <2>1. PICK T : BuiltIn[id].text \in Seq(T)
    BY BuiltInIs
  <2> QED BY <2>1, BuiltInIs, ToSetFinite
<1>5. IsFiniteSet(p.declared)
  BY <1>1, <1>2, <1>3, <1>4 DEF Declarations
<1>6. IsFiniteSet(Slots(p.text))
  <2>1. PICK T : p.text \in Seq(T)
    BY TemplateIs
  <2>2. IsFiniteSet(ToSet(p.text))
    BY <2>1, ToSetFinite
  <2> QED BY <2>2, FS_Subset DEF Slots
<1> QED BY <1>5, <1>6

\* Every template renders the same whatever the order of its variables, and leaves none of them.
LEMMA AllRenderComplete ==
  ASSUME NEW p \in Templates
  PROVE  p \in RenderComplete
<1> SUFFICES ASSUME NEW names \in {p.declared, Slots(p.text)}, NEW variables \in PlainArguments(names),
                    Missing(p.declared, names) = {}, Slots(p.text) \subseteq p.declared
             PROVE  Rendered(p.text, variables) = Filled(p.text, variables)
  BY DEF RenderComplete
<1>1. Slots(p.text) \subseteq names /\ Word \notin names /\ Matched \notin names
  BY TemplateIs DEF Missing, Slots
<1>2. PICK Plain : Plain = {value \in PromptValues : ToSet(value) \cap (names \cup {Matched}) = {}}
  OBVIOUS
<1>3. PICK n \in Nat : n = Cardinality(names)
  BY DeclaredFinite, FS_CardinalityType
<1>4. PICK order \in Bijection(1..n, names), values \in [names -> Plain] :
        variables = [i \in DOMAIN order |-> [name |-> order[i], value |-> values[order[i]]]]
  BY <1>2, <1>3 DEF PlainArguments
<1>5. /\ order \in [1..n -> names] /\ (\A i, j \in 1..n : order[i] = order[j] => i = j)
      /\ \A x \in names : \E i \in 1..n : order[i] = x
  <2>1. order \in Injection(1..n, names) /\ order \in Surjection(1..n, names)
    BY DEF Bijection
  <2> QED BY <2>1 DEF Injection, Surjection, IsInjective
<1>6. PICK text : text = p.text
  OBVIOUS
<1>7. PICK U : U = ToSet(text) \cup names \cup UNION {ToSet(value) : value \in PromptValues}
  OBVIOUS
<1>8. text \in Seq(U) /\ \A i \in 1..Len(text) : text[i] \in ToSet(text) /\ text[i] # Matched
  <2>1. PICK T : text \in Seq(T)
    BY <1>6, TemplateIs
  <2>2. PICK m \in Nat : m = Len(text) /\ DOMAIN text = 1..m /\ text = [i \in 1..m |-> text[i]]
    BY <2>1
  <2>3. \A i \in 1..m : text[i] \in ToSet(text)
    BY <2>2 DEF ToSet
  <2>4. text \in [1..m -> U]
    BY <1>7, <2>2, <2>3
  <2>5. text \in Seq(U)
    BY <2>4
  <2> QED BY <1>6, <2>2, <2>3, <2>5, TemplateIs
<1>9. \A x \in names : values[x] \in Seq(U) /\ \A y \in names \cup {Matched} : ~Occurs(y, values[x])
  <2> SUFFICES ASSUME NEW x \in names PROVE values[x] \in Seq(U) /\ \A y \in names \cup {Matched} : ~Occurs(y, values[x])
    OBVIOUS
  <2>1. PICK value : value = values[x] /\ value \in PromptValues /\ ToSet(value) \cap (names \cup {Matched}) = {}
    BY <1>2
  <2>2. value \in Seq(ToSet(value)) /\ ToSet(value) \subseteq U
    BY <1>7, <2>1, TextsAssumption
  <2>3. value \in Seq(U)
    BY <2>2, SeqMonotonic
  <2>4. \A y \in names \cup {Matched} : ~Occurs(y, value)
    BY <2>1 DEF Occurs, ToSet
  <2> QED BY <2>1, <2>3, <2>4
<1>10. \A i \in 1..n : variables[i].name = order[i] /\ variables[i].value = values[order[i]]
  BY <1>4, <1>5
<1>11. Plainly(U, n, variables) /\ DOMAIN variables = 1..n
  <2>1. PICK R : R = [name : U, value : Seq(U)]
    OBVIOUS
  <2>2. \A i \in 1..n : order[i] \in U /\ values[order[i]] \in Seq(U)
    BY <1>5, <1>7, <1>9
  <2>3. \A i \in 1..n : [name |-> order[i], value |-> values[order[i]]] \in R
    BY <2>1, <2>2
  <2>4. variables \in [1..n -> R]
    BY <1>4, <1>5, <2>3
  <2>5. variables \in Seq(R) /\ Len(variables) = n /\ DOMAIN variables = 1..n
    BY <2>4
  <2>6. \A i, j \in 1..n : variables[i].name = variables[j].name => i = j
    BY <1>5, <1>10
  <2>7. \A i, j \in 1..n : ~Occurs(variables[j].name, variables[i].value)
    BY <1>5, <1>9, <1>10
  <2>8. \A i \in 1..n : ~Occurs(Matched, variables[i].value)
    BY <1>5, <1>9, <1>10
  <2> QED BY <2>1, <2>5, <2>6, <2>7, <2>8 DEF Plainly
<1>12. PICK parts : parts = [i \in DOMAIN text |-> IF text[i] = Word THEN <<Word>>
                             ELSE variables[CHOOSE k \in DOMAIN variables : variables[k].name = text[i]].value]
  OBVIOUS
<1>13. \A i \in 1..Len(text), k \in 1..n : text[i] = variables[k].name => parts[i] = variables[k].value
  <2> SUFFICES ASSUME NEW i \in 1..Len(text), NEW k \in 1..n, text[i] = variables[k].name PROVE parts[i] = variables[k].value
    OBVIOUS
  <2>1. text[i] # Word
    BY <1>1, <1>5, <1>10
  <2>2. PICK c : c = CHOOSE l \in DOMAIN variables : variables[l].name = text[i]
    OBVIOUS
  <2>3. c \in 1..n /\ variables[c].name = text[i]
    BY <1>11, <2>2
  <2>4. c = k
    BY <1>11, <2>3 DEF Plainly
  <2>5. i \in DOMAIN text
    BY <1>8
  <2> QED BY <1>12, <2>1, <2>2, <2>4, <2>5
<1>14. \A i \in 1..Len(text) : (\A k \in 1..n : text[i] # variables[k].name) => text[i] = Word
  <2> SUFFICES ASSUME NEW i \in 1..Len(text), text[i] # Word PROVE \E k \in 1..n : text[i] = variables[k].name
    OBVIOUS
  <2>1. text[i] \in Slots(text)
    BY <1>8 DEF Slots
  <2>2. text[i] \in names
    BY <1>1, <1>6, <2>1
  <2> QED BY <1>5, <1>10, <2>2
<1>15. \A i \in 1..Len(text) : text[i] = Word => parts[i] = <<text[i]>>
  <2>1. \A i \in 1..Len(text) : i \in DOMAIN text
    BY <1>8
  <2> QED BY <1>12, <2>1
<1>16. parts \in [1..Len(text) -> Seq(U)]
  <2>1. ASSUME NEW i \in 1..Len(text) PROVE parts[i] \in Seq(U)
    <3>1. CASE text[i] = Word
      <4>1. <<text[i]>> \in Seq(U)
        BY <1>8
      <4> QED BY <1>15, <3>1, <4>1
    <3>2. CASE text[i] # Word
      <4>1. PICK k \in 1..n : text[i] = variables[k].name
        BY <1>14, <3>2
      <4>2. parts[i] = variables[k].value
        BY <1>13, <4>1
      <4>3. variables[k].value \in Seq(U)
        BY <1>11, PlainOne
      <4> QED BY <4>2, <4>3
    <3> QED BY <3>1, <3>2
  <2>2. DOMAIN text = 1..Len(text)
    BY <1>8
  <2>3. parts = [i \in 1..Len(text) |-> parts[i]]
    BY <1>12, <2>2
  <2> QED BY <2>1, <2>3
<1>17. Rendered(text, variables) = FlattenSeq(parts)
  BY <1>8, <1>11, <1>13, <1>14, <1>15, <1>16, RenderedIs
<1> QED BY <1>6, <1>12, <1>17 DEF Filled

LEMMA PromptsHold == PromptSpec => [](DeclaredCoverPlaceholders /\ ValidatedRendersComplete)
<1>1. PromptInv => DeclaredCoverPlaceholders /\ ValidatedRendersComplete
  BY AllRenderComplete DEF PromptInv, DeclaredCoverPlaceholders, ValidatedRendersComplete
<1> QED BY <1>1, PromptStart, PromptStep, PTL DEF PromptSpec

-----------------------------------------------------------------------------
(* Node types *)

\* Each default type belongs to one category.
Place(type) ==
  IF type \in {"start", "end", "branch", "merge", "delay", "loop", "foreach", "noop"} THEN 1
  ELSE IF type \in {"storage_read", "storage_write", "storage_update", "storage_delete", "batch_read", "sql_query",
                    "vector_search", "cache_read", "cache_write"} THEN 2
  ELSE IF type \in {"json_transform", "map_fields", "filter_items", "aggregate", "sort", "deduplicate", "enrich"} THEN 3
  ELSE IF type \in {"llm_generate", "llm_summarize", "llm_score", "llm_classify", "llm_extract", "embedding_generate",
                    "embedding_compare"} THEN 4
  ELSE IF type \in {"music_generate", "music_to_embedding", "bpm_estimator", "mood_classifier", "key_detector",
                    "genre_classifier", "stem_separator", "music_master"} THEN 5
  ELSE IF type \in {"royalties_calculate", "rights_resolver", "territory_checker", "license_validator"} THEN 6
  ELSE IF type \in {"compute_kpi", "forecast_metric", "experiment_assign", "cohort_segment", "revenue_model"} THEN 7
  ELSE IF type \in {"health_probe", "anomaly_detection", "cost_estimator", "log_aggregator", "incident_create"} THEN 8
  ELSE IF type \in {"email_notify", "slack_notify", "webhook_notify", "sms_notify"} THEN 9
  ELSE 10

LEMMA CategoriesAre ==
  /\ DOMAIN Categories = 1..10 /\ Len(Categories) = 10
  /\ Categories[1] = CoreExecution /\ Categories[2] = Data /\ Categories[3] = Transform /\ Categories[4] = AI
  /\ Categories[5] = Music /\ Categories[6] = Rights /\ Categories[7] = Analytics /\ Categories[8] = SRE
  /\ Categories[9] = Notification /\ Categories[10] = System
BY DEF Categories

\* No type is in two categories.
LEMMA Placed ==
  ASSUME NEW k \in 1..10, NEW node \in Categories[k]
  PROVE  Place(node.type) = k
<1>1. CASE k = 1
  BY <1>1, CategoriesAre DEF Place, Node, CoreExecution
<1>2. CASE k = 2
  BY <1>2, CategoriesAre DEF Place, Node, Data
<1>3. CASE k = 3
  BY <1>3, CategoriesAre DEF Place, Node, Transform
<1>4. CASE k = 4
  BY <1>4, CategoriesAre DEF Place, Node, AI
<1>5. CASE k = 5
  BY <1>5, CategoriesAre DEF Place, Node, Music
<1>6. CASE k = 6
  BY <1>6, CategoriesAre DEF Place, Node, Rights
<1>7. CASE k = 7
  BY <1>7, CategoriesAre DEF Place, Node, Analytics
<1>8. CASE k = 8
  BY <1>8, CategoriesAre DEF Place, Node, SRE
<1>9. CASE k = 9
  BY <1>9, CategoriesAre DEF Place, Node, Notification
<1>10. CASE k = 10
  BY <1>10, CategoriesAre DEF Place, Node, System
<1> QED BY <1>1, <1>2, <1>3, <1>4, <1>5, <1>6, <1>7, <1>8, <1>9, <1>10

\* Every node of the music category says which track it is about, the generator among them.
LEMMA MusicKnowsTrack ==
  /\ \A node \in Music : "trackId" \in node.out
  /\ \E node \in Music : node.type = "music_generate"
<1>1. \A node \in Music : "trackId" \in node.out
  BY DEF Music, Node
<1>2. Node("music_generate", {"trackId", "duration", "genre", "mood", "status"}) \in Music
  BY DEF Music
<1>3. Node("music_generate", {"trackId", "duration", "genre", "mood", "status"}).type = "music_generate"
  BY DEF Node
<1> QED BY <1>1, <1>2, <1>3

\* What is registered while category by category is added, and afterwards.
Categorized ==
  /\ building \in 1..11
  /\ \A entry \in nodeTypes :
       \/ entry.category \in 1..10 /\ entry.category < building /\ entry.node \in Categories[entry.category]
       \/ entry.category = 0 /\ entry.node.type # "music_generate" /\ building = 11
  /\ building > 5 => Has("music_generate")

NodesInv == Categorized /\ TrackIsKept

LEMMA CategoryStep == Categorized /\ RegisterCategory => Categorized'
<1> SUFFICES ASSUME Categorized, RegisterCategory PROVE Categorized'
  OBVIOUS
<1>1. building \in 1..10
  BY CategoriesAre DEF RegisterCategory
<1>2. ASSUME NEW node \in Categories[building] PROVE ~Has(node.type)
  <2> SUFFICES ASSUME NEW entry \in nodeTypes, entry.node.type = node.type PROVE FALSE
    BY DEF Has
  <2>1. entry.category \in 1..10 /\ entry.category < building /\ entry.node \in Categories[entry.category]
    BY <1>1 DEF Categorized
  <2>2. Place(entry.node.type) = entry.category
    BY <2>1, Placed
  <2>3. Place(node.type) = building
    BY <1>1, Placed
  <2> QED BY <1>1, <2>1, <2>2, <2>3
<1>3. PICK added : added = {[node |-> node, category |-> building] : node \in Categories[building]}
  OBVIOUS
<1>4. nodeTypes' = nodeTypes \cup added /\ building' = building + 1
  BY <1>2, <1>3 DEF RegisterCategory
<1>5. \A entry \in added : entry.category = building /\ entry.node \in Categories[building]
  BY <1>3
<1>6. ASSUME NEW entry \in nodeTypes'
      PROVE  entry.category \in 1..10 /\ entry.category < building' /\ entry.node \in Categories[entry.category]
  <2>1. CASE entry \in added
    BY <1>1, <1>4, <1>5, <2>1
  <2>2. CASE entry \in nodeTypes
    BY <1>1, <1>4, <2>2 DEF Categorized
  <2> QED BY <1>4, <2>1, <2>2
<1>7. building' > 5 => \E entry \in nodeTypes' : entry.node.type = "music_generate"
  <2>1. CASE building > 5
    BY <1>4, <2>1 DEF Categorized, Has
  <2>2. CASE building = 5
    <3>1. PICK node \in Music : node.type = "music_generate"
      BY MusicKnowsTrack
    <3>2. [node |-> node, category |-> building] \in added
      BY <1>3, <2>2, <3>1, CategoriesAre
    <3>3. [node |-> node, category |-> building].node.type = "music_generate"
      BY <3>1
    <3> QED BY <1>4, <3>2, <3>3
  <2> QED BY <1>1, <1>4, <2>1, <2>2
<1>8. building' \in 1..11
  BY <1>1, <1>4
<1> QED BY <1>6, <1>7, <1>8 DEF Categorized, Has

LEMMA CustomStep ==
  ASSUME Categorized, NEW node \in CustomTypes, RegisterCustom(node)
  PROVE  Categorized'
<1>1. building = 11 /\ building' = building
  BY CategoriesAre DEF RegisterCustom, Built
<1>2. node.type # "music_generate"
  BY <1>1 DEF RegisterCustom, Categorized
<1>3. PICK new : new = [node |-> node, category |-> 0]
  OBVIOUS
<1>4. new.node = node /\ new.category = 0
  BY <1>3
<1>5. nodeTypes' = nodeTypes \cup {new}
  BY <1>3 DEF RegisterCustom
<1> QED BY <1>1, <1>2, <1>4, <1>5 DEF Categorized, Has

LEMMA NodesStep == NodesInv /\ [NodeNext]_nodeVars => NodesInv'
<1> SUFFICES ASSUME NodesInv, [NodeNext]_nodeVars PROVE NodesInv'
  OBVIOUS
<1>1. CASE RegisterCategory
  <2>1. UNCHANGED <<fields, about>>
    BY <1>1 DEF RegisterCategory
  <2> QED BY <1>1, <2>1, CategoryStep DEF NodesInv, TrackIsKept
<1>2. ASSUME NEW node \in CustomTypes, RegisterCustom(node) PROVE NodesInv'
  <2>1. UNCHANGED <<fields, about>>
    BY <1>2 DEF RegisterCustom
  <2> QED BY <1>2, <2>1, CustomStep DEF NodesInv, TrackIsKept
<1>3. ASSUME NEW entry \in nodeTypes, RunNode(entry) PROVE NodesInv'
  <2>1. UNCHANGED <<nodeTypes, building>>
    BY <1>3 DEF RunNode
  <2>2. Categorized'
    BY <2>1 DEF NodesInv, Categorized, Has
  <2>3. ASSUME about' PROVE "trackId" \in fields'
    <3>1. entry.category = 5 => "trackId" \in entry.node.out
      BY CategoriesAre, MusicKnowsTrack DEF NodesInv, Categorized
    <3>2. entry.node.type = "music_generate" => entry.category = 5
      <4> SUFFICES ASSUME entry.node.type = "music_generate" PROVE entry.category = 5
        OBVIOUS
      <4>1. entry.category \in 1..10 /\ entry.node \in Categories[entry.category]
        BY DEF NodesInv, Categorized
      <4>2. Place(entry.node.type) = entry.category
        BY <4>1, Placed
      <4>3. Place("music_generate") = 5
        BY DEF Place
      <4> QED BY <4>2, <4>3
    <3>3. CASE entry.category = 5
      BY <1>3, <3>1, <3>3, PassAssumption DEF RunNode
    <3>4. CASE entry.category # 5
      <4>1. about /\ Pass \in entry.node.out
        BY <1>3, <2>3, <3>2, <3>4 DEF RunNode
      <4>2. fields \subseteq fields'
        BY <1>3, <4>1 DEF RunNode
      <4> QED BY <4>1, <4>2 DEF NodesInv, TrackIsKept
    <3> QED BY <3>3, <3>4
  <2> QED BY <2>2, <2>3 DEF NodesInv, TrackIsKept
<1>4. CASE UNCHANGED nodeVars
  BY <1>4 DEF nodeVars, NodesInv, Categorized, TrackIsKept, Has
<1> QED BY <1>1, <1>2, <1>3, <1>4 DEF NodeNext

LEMMA NodesHold == NodeSpec => [](TrackIsKept /\ DefaultRegistryBuilds)
<1>1. NodeInit => NodesInv
  BY DEF NodeInit, NodesInv, Categorized, TrackIsKept, Has
<1>2. NodesInv => TrackIsKept /\ DefaultRegistryBuilds
  BY DEF NodesInv, Categorized, DefaultRegistryBuilds
<1> QED BY <1>1, <1>2, NodesStep, PTL DEF NodeSpec

\* Whatever templates are registered, updated and deleted, edges and chains added and node types
\* registered, in any order: a template whose caller declared its variables names all its
\* placeholders; with variables that validate, whose values contain neither their placeholders nor
\* `$&`, it renders the same in every order of them and leaves none; the edges of a workflow have
\* ids of their own, no default type is registered twice, and a chain of music nodes knows its
\* track (PromptManager, WorkflowBuilder, createDefaultRegistry()).
THEOREM PartsHold == PromptSpec /\ BuilderSpec /\ NodeSpec => []PartsFit
<1>1. DeclaredCoverPlaceholders /\ ValidatedRendersComplete /\ TrackIsKept /\ EdgeIdsDistinct /\ DefaultRegistryBuilds => PartsFit
  BY DEF PartsFit
<1> QED BY <1>1, PromptsHold, WorkflowsHold, NodesHold, PTL
=============================================================================
