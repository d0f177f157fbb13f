--------------------------- MODULE CurrentUserProofs ---------------------------
(***************************************************************************)
(* For all tokens, certificates and times: a user that CurrentUser returns *)
(* acts for an allowed client, exactly the good ID tokens are accepted,    *)
(* and with the caching authenticator a checked client gets its user.      *)
(***************************************************************************)
EXTENDS CurrentUser, TLAPS

Call == [scopes : ScopeLists, audiences : Audiences, clientIDs : SUBSET Id,
         newContext : BOOLEAN, token : Token \cup {None},
         bearerClient : Id, authenticator : {"caching", "tokeninfo"}]

\* The conjuncts of TypeOK that the argument needs, and the time read is past.
Clocks ==
  /\ clock \in 0 .. MaxTime
  /\ now \in 0 .. MaxTime
  /\ now <= clock
  /\ call \in Call
  /\ via \in {"id token", "bearer token", None}

\* Nothing is accepted before the end; what is being verified is a token; what
\* was accepted has passed the checks, and still does.
Progress ==
  /\ via # None => pc = "done"
  /\ pc = "certs" => call.token \in Token
  /\ pc = "user" => call.bearerClient \in call.clientIDs

Passed ==
  /\ via = "id token" =>
       /\ call.token \in Token
       /\ TimesVerify(call.token)
       /\ verifyParsedToken(call.token)
  /\ via = "bearer token" => call.bearerClient \in call.clientIDs

IInv == Clocks /\ Progress /\ Passed

-------------------------------------------------------------------------------
\* The arithmetic of int64 is that of the integers where nothing overflows.
LEMMA WrapInRange ==
  ASSUME NEW n \in Int64
  PROVE  Wrap(n) = n
<1>1. HalfRange \in Nat \ {0} BY ConstantsAssumption
<1>2. n + HalfRange \in 0 .. 2 * HalfRange - 1 BY <1>1 DEF Int64
<1>3. (n + HalfRange) % (2 * HalfRange) = n + HalfRange BY <1>1, <1>2
<1> QED BY <1>1, <1>3 DEF Wrap, Int64

\* A token that passes the checks of the time, computed in int64, is in its
\* window: the bound on the lifetime keeps the expiry from overflowing, and an
\* issue time that underflows is before any time.
LEMMA TimesVerifyInWindow ==
  ASSUME NEW t \in Token, now \in 0 .. MaxTime, TimesVerify(t)
  PROVE  /\ t.iat - clockSkewSecs <= now
         /\ now <= t.exp + clockSkewSecs
         /\ t.exp < now + maxTokenLifetimeSecs
<1> USE ConstantsAssumption
<1>1. t.iat \in Int64 /\ t.exp \in Int64 OBVIOUS
<1>2. t.exp < now + maxTokenLifetimeSecs
  <2>1. now + maxTokenLifetimeSecs \in Int64 BY DEF Int64
  <2>2. Wrap(now + maxTokenLifetimeSecs) = now + maxTokenLifetimeSecs
    BY <2>1, WrapInRange
  <2> QED BY <2>2 DEF TimesVerify
<1>3. now <= t.exp + clockSkewSecs
  <2>1. t.exp + clockSkewSecs \in Int64 BY <1>1, <1>2 DEF Int64
  <2>2. Wrap(t.exp + clockSkewSecs) = t.exp + clockSkewSecs BY <2>1, WrapInRange
  <2> QED BY <2>2 DEF TimesVerify
<1>4. t.iat - clockSkewSecs <= now
  <2>1. CASE t.iat - clockSkewSecs < -HalfRange BY <1>1, <2>1 DEF Int64
  <2>2. CASE t.iat - clockSkewSecs >= -HalfRange
    <3>1. t.iat - clockSkewSecs \in Int64 BY <1>1, <2>2 DEF Int64
    <3>2. Wrap(t.iat - clockSkewSecs) = t.iat - clockSkewSecs BY <3>1, WrapInRange
    <3> QED BY <3>2 DEF TimesVerify
  <2> QED BY <1>1, <2>1, <2>2 DEF Int64
<1> QED BY <1>2, <1>3, <1>4

\* The same against the time when the token is accepted.
LEMMA TimesVerifyInTime ==
  ASSUME NEW t \in Token, clock \in 0 .. MaxTime, now \in 0 .. MaxTime, now <= clock,
         TimesVerify(t)
  PROVE  /\ t.iat - clockSkewSecs <= clock
         /\ clock <= t.exp + clockSkewSecs + (clock - now)
         /\ t.exp < clock + maxTokenLifetimeSecs
<1>1. /\ t.iat - clockSkewSecs <= now
      /\ now <= t.exp + clockSkewSecs
      /\ t.exp < now + maxTokenLifetimeSecs
  BY TimesVerifyInWindow
<1>2. t.iat \in Int /\ t.exp \in Int BY ConstantsAssumption DEF Int64
<1> QED BY <1>1, <1>2, ConstantsAssumption

-------------------------------------------------------------------------------
LEMMA InitIInv == Init => IInv
<1> SUFFICES ASSUME Init PROVE IInv OBVIOUS
<1>1. via = None /\ pc = "start" /\ now = 0 /\ clock \in 0 .. MaxTime /\ call \in Call
  BY DEF Init, Call
<1>2. Clocks
  <2>1. MaxTime \in Nat BY ConstantsAssumption
  <2> QED BY <1>1, <2>1 DEF Clocks
<1>3. Progress BY <1>1 DEF Progress
<1>4. Passed BY <1>1, NoneAssumption DEF Passed
<1> QED BY <1>2, <1>3, <1>4 DEF IInv

\* What was accepted stays accepted as long as the arguments and the time read
\* do not change.
LEMMA PassedStays ==
  ASSUME Passed, UNCHANGED <<call, now, via>>
  PROVE  Passed'
BY DEF Passed, TimesVerify, verifyParsedToken, Wrap

\* No step leads out of the invariant.
LEMMA NextIInv == IInv /\ [Next]_vars => IInv'
<1> SUFFICES ASSUME IInv, [Next]_vars PROVE IInv' OBVIOUS
<1> USE DEF Goto, Finish
<1>0. MaxTime \in Nat /\ clock \in 0 .. MaxTime /\ now \in 0 .. MaxTime /\ now <= clock
  BY ConstantsAssumption DEF IInv, Clocks
<1>1. CASE Refuse
  <2>1. Clocks' BY <1>1 DEF IInv, Clocks, Refuse
  <2>2. Progress' BY <1>1, NoneAssumption DEF IInv, Progress, Refuse
  <2>3. Passed' BY <1>1, NoneAssumption DEF IInv, Passed, Refuse
  <2> QED BY <2>1, <2>2, <2>3 DEF IInv
<1>2. CASE TryIDToken
  <2>0. via = None /\ via' = None
    BY <1>2, NoneAssumption DEF IInv, Progress, TryIDToken
  <2>1. Clocks'
    <3>1. now' = clock /\ UNCHANGED <<clock, call, via>> BY <1>2 DEF TryIDToken
    <3>2. clock' \in 0 .. MaxTime /\ now' \in 0 .. MaxTime /\ now' <= clock'
      BY <1>0, <3>1
    <3> QED BY <3>1, <3>2 DEF IInv, Clocks
  <2>2. Progress'
    <3>1. call' = call /\ call.token # None /\ pc' \in {"certs", "scope"}
      BY <1>2 DEF TryIDToken, Accepted
    <3>2. call.token \in Token BY <3>1 DEF IInv, Clocks, Call
    <3> QED BY <2>0, <3>1, <3>2 DEF Progress
  <2>3. Passed' BY <2>0, NoneAssumption DEF Passed
  <2> QED BY <2>1, <2>2, <2>3 DEF IInv
<1>3. CASE \E certs \in Certs : CheckIDToken(certs)
  <2> PICK certs \in Certs : CheckIDToken(certs) BY <1>3
  <2>1. Clocks' BY DEF IInv, Clocks, CheckIDToken
  <2>2. Progress' BY NoneAssumption DEF IInv, Progress, CheckIDToken
  <2>3. Passed'
    <3>1. CASE Verifies(certs)
      BY <3>1, NoneAssumption DEF IInv, Progress, Passed, CheckIDToken, Verifies, TimesVerify,
                  verifyParsedToken, Wrap
    <3>2. CASE ~ Verifies(certs)
      BY <3>2, PassedStays DEF IInv, CheckIDToken
    <3> QED BY <3>1, <3>2
  <2> QED BY <2>1, <2>2, <2>3 DEF IInv
<1>4. CASE CheckClient
  <2>1. Clocks' BY <1>4 DEF IInv, Clocks, CheckClient
  <2>2. Progress' BY <1>4, NoneAssumption DEF IInv, Progress, CheckClient
  <2>3. Passed' BY <1>4, NoneAssumption DEF IInv, Passed, Progress, CheckClient
  <2> QED BY <2>1, <2>2, <2>3 DEF IInv
<1>5. CASE CachedUser \/ UserAnswered
  <2>1. Clocks' BY <1>5 DEF IInv, Clocks, CachedUser, UserAnswered
  <2>2. Progress' BY <1>5, NoneAssumption DEF IInv, Progress, CachedUser, UserAnswered
  <2>3. Passed' BY <1>5, NoneAssumption DEF IInv, Passed, Progress, CachedUser, UserAnswered
  <2> QED BY <2>1, <2>2, <2>3 DEF IInv
<1>6. CASE NoScopeLeft
  <2>1. Clocks' BY <1>6 DEF IInv, Clocks, NoScopeLeft
  <2>2. Progress' BY <1>6, NoneAssumption DEF IInv, Progress, NoScopeLeft
  <2>3. Passed' BY <1>6, NoneAssumption DEF IInv, Passed, NoScopeLeft
  <2> QED BY <2>1, <2>2, <2>3 DEF IInv
<1>7. CASE TryBearerToken \/ NoCerts \/ NilCerts \/ ScopeCached \/ ScopeAnswered \/ ScopeFails
  <2>0. UNCHANGED <<clock, call, now, via>> /\ pc' \in {"scope", "panic", "client"}
           /\ pc # "done"
    BY <1>7 DEF TryBearerToken, NoCerts, NilCerts, ScopeCached, ScopeAnswered, ScopeFails
  <2>1. Clocks' BY <2>0 DEF IInv, Clocks
  <2>2. Progress' BY <2>0 DEF IInv, Progress
  <2>3. Passed' BY <2>0, PassedStays DEF IInv
  <2> QED BY <2>1, <2>2, <2>3 DEF IInv
<1>8. CASE Tick
  <2>1. Clocks'
    <3>1. clock' = clock + 1 /\ clock < MaxTime /\ UNCHANGED <<call, now, via>>
      BY <1>8 DEF Tick
    <3>2. clock' \in 0 .. MaxTime /\ now' \in 0 .. MaxTime /\ now' <= clock'
      BY <1>0, <3>1
    <3> QED BY <3>1, <3>2 DEF IInv, Clocks
  <2>2. Progress' BY <1>8 DEF IInv, Progress, Tick
  <2>3. Passed' BY <1>8, PassedStays DEF IInv, Tick
  <2> QED BY <2>1, <2>2, <2>3 DEF IInv
<1>10. CASE OtherGoroutine
  <2>0. UNCHANGED <<clock, call, now, pc, via>> BY <1>10 DEF OtherGoroutine
  <2>1. Clocks' BY <2>0 DEF IInv, Clocks
  <2>2. Progress' BY <2>0 DEF IInv, Progress
  <2>3. Passed' BY <2>0, PassedStays DEF IInv
  <2> QED BY <2>1, <2>2, <2>3 DEF IInv
<1>9. CASE UNCHANGED vars
  <2>1. Clocks' BY <1>9 DEF IInv, Clocks, vars
  <2>2. Progress' BY <1>9 DEF IInv, Progress, vars
  <2>3. Passed' BY <1>9, PassedStays DEF IInv, vars
  <2> QED BY <2>1, <2>2, <2>3 DEF IInv
<1> QED
  BY <1>1, <1>2, <1>3, <1>4, <1>5, <1>6, <1>7, <1>8, <1>9, <1>10 DEF Next, Step, Stopped

\* Every reachable state is in the invariant.
THEOREM Invariance == Spec => []IInv
BY InitIInv, NextIInv, PTL DEF Spec

-------------------------------------------------------------------------------
\* Whichever way a user was found, it acts for one of clientIDs, and the
\* audience of an ID token is its client or one of audiences.
THEOREM AllowedClient == Spec => []UserIsOfAllowedClient
<1>1. IInv => UserIsOfAllowedClient
  BY NoneAssumption
     DEF IInv, Clocks, Passed, verifyParsedToken, UserIsOfAllowedClient, ClientOfUser
<1> QED BY <1>1, Invariance, PTL

\* In unbounded integers, an ID token is accepted in its time, with the clock
\* skew and the time that obtaining the certificates took as the only slack,
\* although the code computes in int64 with the time it read before.
THEOREM InTime == Spec => []AcceptedInTime
<1>1. IInv => AcceptedInTime
  <2> SUFFICES ASSUME IInv, via = "id token" PROVE AcceptedInTime
    BY DEF AcceptedInTime
  <2>1. /\ call.token \in Token /\ TimesVerify(call.token)
        /\ clock \in 0 .. MaxTime /\ now \in 0 .. MaxTime /\ now <= clock
    BY DEF IInv, Clocks, Passed
  <2> QED BY <2>1, TimesVerifyInTime DEF AcceptedInTime
<1> QED BY <1>1, Invariance, PTL

-------------------------------------------------------------------------------
(* Exactly the good tokens *)

\* The checks of the time in int64 are those of GoodToken in the integers: an
\* issue time that underflows wraps to a time that never comes.
LEMMA TimesVerifyExactly ==
  ASSUME NEW t \in Token, now \in 0 .. MaxTime
  PROVE  TimesVerify(t) <=>
           /\ t.iat # 0
           /\ t.iat - clockSkewSecs \in -HalfRange .. now
           /\ t.exp # 0
           /\ t.exp \in now - clockSkewSecs .. now + maxTokenLifetimeSecs - 1
<1> USE ConstantsAssumption
<1>1. t.iat \in Int64 /\ t.exp \in Int64 /\ now \in Nat /\ now <= MaxTime OBVIOUS
<1>2. Wrap(now + maxTokenLifetimeSecs) = now + maxTokenLifetimeSecs
  BY <1>1, WrapInRange DEF Int64
<1>3. ASSUME t.exp < now + maxTokenLifetimeSecs
      PROVE  Wrap(t.exp + clockSkewSecs) = t.exp + clockSkewSecs
  BY <1>1, <1>3, WrapInRange DEF Int64
<1>4. (now >= Wrap(t.iat - clockSkewSecs)) <=> t.iat - clockSkewSecs \in -HalfRange .. now
  <2>1. CASE t.iat - clockSkewSecs >= -HalfRange
    <3>1. Wrap(t.iat - clockSkewSecs) = t.iat - clockSkewSecs
      BY <1>1, <2>1, WrapInRange DEF Int64
    <3> QED BY <1>1, <2>1, <3>1 DEF Int64
  <2>2. CASE t.iat - clockSkewSecs < -HalfRange
    <3> DEFINE n == t.iat - clockSkewSecs + 2 * HalfRange
    <3>1. n \in Int64 /\ n > now BY <1>1, <2>2 DEF Int64
    <3>2. Wrap(t.iat - clockSkewSecs) = n
      <4> DEFINE a == t.iat - clockSkewSecs + HalfRange
                 m == 2 * HalfRange
      <4>1. a \in Int /\ m \in Nat /\ m > 0 /\ a < 0 /\ a >= -m
        BY <1>1, <2>2 DEF Int64
      <4> HIDE DEF a, m
      <4>2. a % m = a + m BY <4>1
      <4> QED BY <1>1, <4>2 DEF Wrap, a, m, Int64
    <3> QED BY <1>1, <2>2, <3>1, <3>2 DEF Int64
  <2> QED BY <1>1, <2>1, <2>2 DEF Int64
<1>5. (t.exp < now + maxTokenLifetimeSecs /\ now <= t.exp + clockSkewSecs)
        <=> t.exp \in now - clockSkewSecs .. now + maxTokenLifetimeSecs - 1
  BY <1>1 DEF Int64
<1> QED BY <1>2, <1>3, <1>4, <1>5 DEF TimesVerify

\* With intact certificates, in whatever order, the three checks together are
\* those of GoodToken.
LEMMA VerifiesExactly ==
  ASSUME call.token \in Token, now \in 0 .. MaxTime,
         NEW certs, DOMAIN certs = 1 .. Len(certs), Len(certs) \in Nat,
         \A i \in DOMAIN certs : certs[i] # None
  PROVE  Verifies(certs) <=> GoodToken(call.token, certs)
<1> DEFINE t == call.token
<1>1. SignatureVerifies(t, certs) <=> \E i \in DOMAIN certs : certs[i] = t.key
  <2>1. ASSUME NEW i \in DOMAIN certs, NEW j \in 1 .. i PROVE certs[j] # None
    <3>1. j \in DOMAIN certs OBVIOUS
    <3> QED BY <3>1
  <2> QED BY <2>1 DEF SignatureVerifies
<1>2. verifyParsedToken(t) <=>
        /\ t.issuerIsGoogle /\ t.email
        /\ t.azp \in call.clientIDs \ {None}
        /\ t.aud \in (call.audiences \cup {t.azp}) \ {None}
  BY DEF verifyParsedToken
<1>3. TimesVerify(t) <=>
        /\ t.iat # 0
        /\ t.iat - clockSkewSecs \in -HalfRange .. now
        /\ t.exp # 0
        /\ t.exp \in now - clockSkewSecs .. now + maxTokenLifetimeSecs - 1
  BY TimesVerifyExactly
<1> QED BY <1>1, <1>2, <1>3, Zenon DEF Verifies, GoodToken

\* Given intact certificates, an ID token is accepted exactly when it is good:
\* no good token is passed on to the OAuth service as a bearer token.
THEOREM ExactlyGoodTokens == Spec => []AcceptsExactlyGoodTokens
<1>1. IInv => AcceptsExactlyGoodTokens
  <2> SUFFICES ASSUME IInv, pc = "certs", NEW certs \in Certs,
                      \A i \in DOMAIN certs : certs[i] # None
               PROVE  Verifies(certs) <=> GoodToken(call.token, certs)
    BY DEF AcceptsExactlyGoodTokens
  <2>1. call.token \in Token /\ now \in 0 .. MaxTime BY DEF IInv, Clocks, Progress
  <2>2. DOMAIN certs = 1 .. Len(certs) /\ Len(certs) \in Nat BY ConstantsAssumption
  <2> QED BY <2>1, <2>2, VerifiesExactly
<1> QED BY <1>1, Invariance, PTL

-------------------------------------------------------------------------------
(* The bearer token *)

Types ==
  /\ pc \in PC
  /\ next \in Nat \ {0}
  /\ checked \in BOOLEAN
  /\ cached \in Scope \cup {None}
  /\ asked \in Nat
  /\ disturbed \in BOOLEAN

\* What the caching authenticator has, once the client is known, it still has
\* when the user is asked for, unless another goroutine was there.
Asking ==
  /\ pc \in {"client", "user"} => next <= Len(call.scopes)
  /\ pc \notin {"user", "done"} => ~ checked
  /\ pc \in {"start", "certs", "scope"} => asked = 0
  /\ call.authenticator = "caching" /\ pc \in {"client", "user"} /\ ~ disturbed =>
       asked <= 1 /\ cached = call.scopes[next]
  /\ CheckedClientGetsUser

Bearer == Types /\ Asking

LEMMA InitBearer == Init => Bearer
<1> SUFFICES ASSUME Init PROVE Bearer OBVIOUS
<1>1. /\ pc = "start" /\ next = 1 /\ checked = FALSE /\ asked = 0 /\ disturbed = FALSE
      /\ cached \in Scope \cup {None}
  BY DEF Init
<1>2. Types
  <2>1. checked \in BOOLEAN /\ disturbed \in BOOLEAN BY <1>1, Zenon
  <2> QED BY <1>1, <2>1 DEF Types, PC
<1>3. Asking BY <1>1 DEF Asking, CheckedClientGetsUser
<1> QED BY <1>2, <1>3 DEF Bearer

\* Before the service is asked, and after an ID token was accepted or a call
\* refused, no client has been checked.
LEMMA UncheckedBearer ==
  ASSUME Bearer, UNCHANGED <<call, next, checked, cached, asked, disturbed>>, ~ checked,
         pc' \in {"scope", "certs", "done", "panic"},
         pc' \in {"scope", "certs"} => asked = 0
  PROVE  Bearer'
<1>1. Types' BY DEF Bearer, Types, PC
<1>2. Asking'
  <2>1. ~ checked' OBVIOUS
  <2>2. CheckedClientGetsUser' BY <2>1 DEF CheckedClientGetsUser
  <2> QED BY <2>1, <2>2 DEF Asking
<1> QED BY <1>1, <1>2 DEF Bearer

LEMMA NextBearer == IInv /\ Bearer /\ [Next]_vars => Bearer'
<1> SUFFICES ASSUME IInv, Bearer, [Next]_vars PROVE Bearer' OBVIOUS
<1> USE DEF Goto, Finish
<1>0. call \in Call /\ call.scopes \in Seq(Scope)
  BY ConstantsAssumption DEF IInv, Clocks, Call
<1>1. CASE Refuse \/ TryIDToken \/ TryBearerToken \/ NoCerts \/ NilCerts \/ NoScopeLeft
  BY <1>1, UncheckedBearer
     DEF Bearer, Asking, Refuse, TryIDToken, TryBearerToken, NoCerts, NilCerts, NoScopeLeft
<1>2. CASE \E certs \in Certs : CheckIDToken(certs)
  <2> PICK certs \in Certs : CheckIDToken(certs) BY <1>2
  <2>1. UNCHANGED <<call, next, checked, cached, asked, disturbed>> /\ pc' \in {"scope", "done"}
        /\ pc = "certs"
    BY DEF CheckIDToken
  <2> QED BY <2>1, UncheckedBearer DEF Bearer, Asking
<1>3. CASE ScopeCached \/ ScopeAnswered
  <2>0. /\ pc = "scope" /\ pc' = "client" /\ UNCHANGED <<call, next, checked>>
        /\ asked' \in {asked, asked + 1}
        /\ cached' \in {Keep, call.scopes[next]}
    BY <1>3 DEF ScopeCached, ScopeAnswered, AskForClient, Ask
  <2>1. next \in 1 .. Len(call.scopes) /\ call.scopes[next] \in Scope
    BY <1>0, <1>3 DEF Bearer, Types, ScopeCached, ScopeAnswered, AskForClient
  <2>2. Types'
    <3>1. disturbed' \in BOOLEAN BY <1>3, Zenon DEF ScopeCached, ScopeAnswered
    <3> QED BY <2>0, <2>1, <3>1 DEF Bearer, Types, PC, Keep
  <2>3. Asking' BY <2>0, <2>1 DEF Bearer, Types, Asking, CheckedClientGetsUser, Keep
  <2> QED BY <2>2, <2>3 DEF Bearer
<1>4. CASE ScopeFails
  BY <1>4 DEF Bearer, Types, Asking, ScopeFails, CheckedClientGetsUser
<1>5. CASE CheckClient
  <2>1. Types' BY <1>5 DEF Bearer, Types, CheckClient, PC
  <2>2. Asking' BY <1>5 DEF Bearer, Types, Asking, CheckClient, CheckedClientGetsUser
  <2> QED BY <2>1, <2>2 DEF Bearer
<1>6. CASE CachedUser
  <2>1. Types' BY <1>6 DEF Bearer, Types, CachedUser, PC
  <2>2. Asking' BY <1>6 DEF Bearer, Types, Asking, CachedUser, CheckedClientGetsUser
  <2> QED BY <2>1, <2>2 DEF Bearer
<1>7. CASE UserAnswered
  <2>0. /\ pc' = "done" /\ asked' = asked + 1 /\ UNCHANGED <<call, next, checked, disturbed>>
        /\ cached' \in {Keep, None} /\ pc = "user" /\ cached # call.scopes[next]
    BY <1>7 DEF UserAnswered, Ask
  <2>1. next \in 1 .. Len(call.scopes) /\ call.scopes[next] \in Scope
    BY <1>0, <2>0 DEF Bearer, Types, Asking
  <2>2. Types' BY <2>0, <2>1 DEF Bearer, Types, PC, Keep
  <2>3. Asking' BY <2>0 DEF Bearer, Types, Asking, CheckedClientGetsUser
  <2> QED BY <2>2, <2>3 DEF Bearer
<1>8. CASE Tick \/ UNCHANGED vars
  <2>1. UNCHANGED <<call, pc, next, checked, cached, asked, disturbed, via>>
    BY <1>8 DEF Tick, vars
  <2> QED BY <2>1 DEF Bearer, Types, Asking, CheckedClientGetsUser
<1>9. CASE OtherGoroutine
  <2>0. /\ pc \in {"scope", "client", "user"} /\ disturbed' = TRUE
        /\ cached' \in Scope \cup {None}
        /\ UNCHANGED <<call, pc, next, checked, asked, via>>
    BY <1>9, Zenon DEF OtherGoroutine
  <2>1. disturbed' \in BOOLEAN /\ disturbed' BY <2>0, Zenon
  <2>2. Types' BY <2>0, <2>1 DEF Bearer, Types
  <2>3. Asking' BY <2>0, <2>1 DEF Bearer, Asking, CheckedClientGetsUser
  <2> QED BY <2>2, <2>3 DEF Bearer
<1> QED
  BY <1>1, <1>2, <1>3, <1>4, <1>5, <1>6, <1>7, <1>8, <1>9 DEF Next, Step, Stopped

LEMMA BearerInvariance == Spec => []Bearer
BY InitBearer, NextBearer, Invariance, PTL DEF Spec

\* Every variable of a call keeps its type: the time read is one of the clock,
\* what the authenticator keeps is a scope.
THEOREM TypeCorrect == Spec => []TypeOK
<1>1. IInv /\ Bearer => TypeOK BY DEF IInv, Clocks, Bearer, Types, TypeOK
<1> QED BY <1>1, Invariance, BearerInvariance, PTL

\* Whatever an earlier call of the request left in the cache of the caching
\* authenticator, a call whose client was accepted returns the user, and asked the
\* service for its scope once at most, for lists that name a scope twice as well;
\* unless another goroutine of the request used the cache in between.
THEOREM CheckedGetsUser == Spec => []CheckedClientGetsUser
<1>1. Bearer => CheckedClientGetsUser BY DEF Bearer, Asking
<1> QED BY <1>1, BearerInvariance, PTL
===============================================================================
