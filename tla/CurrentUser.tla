------------------------------ MODULE CurrentUser ------------------------------
(***************************************************************************)
(* CurrentUser of endpoints/auth.go: one call, which takes the token of    *)
(* the request for an ID token first (verifySignedJWT, verifyParsedToken)  *)
(* and falls back to a bearer token (CurrentBearerTokenUser) with the      *)
(* authenticator of the context, the caching one of production             *)
(* (auth_prod.go) or the tokeninfo one of the development server           *)
(* (auth_dev.go).  The caching one belongs to the request: earlier calls   *)
(* and other goroutines of the request use its cache as well.  What it     *)
(* does under its mutex is one step here: CachingAuthenticator.tla has the *)
(* steps, and shows that they implement such a memory (LastAnswer.tla).    *)
(*                                                                         *)
(* The clock is read once, before the certificates are obtained, which     *)
(* takes time when CertCache.tla has to fetch them.  Timestamps are int64. *)
(***************************************************************************)
EXTENDS Integers, Sequences

CONSTANTS
  Id,             \* client IDs and audiences
  Scope, EmailScope,
  Token,          \* tokens of requests
  Certs,          \* certificate lists: the key of each, None if malformed
  Audiences,      \* audiences arguments
  ScopeLists,     \* scopes arguments
  clockSkewSecs, maxTokenLifetimeSecs,
  HalfRange,      \* an int64 is in -HalfRange .. HalfRange - 1
  MaxTime,        \* bound: where the clock of the model stops
  None            \* an empty string, no certificate, no user

Int64 == -HalfRange .. HalfRange - 1

ASSUME ConstantsAssumption ==
  /\ EmailScope \in Scope
  /\ HalfRange \in Nat \ {0}
  /\ MaxTime \in Nat
  /\ clockSkewSecs \in Nat
  /\ maxTokenLifetimeSecs \in Nat
  /\ MaxTime + maxTokenLifetimeSecs + clockSkewSecs < HalfRange
  /\ \A t \in Token : t.iat \in Int64 /\ t.exp \in Int64
  /\ ScopeLists \subseteq Seq(Scope)
  /\ \A certs \in Certs : Len(certs) \in Nat /\ DOMAIN certs = 1 .. Len(certs)

ASSUME NoneAssumption ==
  None \notin {"id token", "bearer token"} /\ None \notin Token /\ None \notin Scope

VARIABLES
  clock,     \* the time, in seconds
  call,      \* arguments of the call, and what its context holds
  pc,        \* where the call is
  now,       \* the time it read
  next,      \* the index of the scope in question
  checked,   \* whether the client of that scope is one of clientIDs
  cached,    \* the scope that the caching authenticator has a user for
  asked,     \* history: how often the call had the OAuth service asked for it
  disturbed, \* history: another goroutine used the cache since it answered
  via,       \* what the call accepted: "id token", "bearer token" or None
  err        \* the error it returns, None while it runs and on success

vars == <<clock, call, pc, now, next, checked, cached, asked, disturbed, via, err>>

-------------------------------------------------------------------------------
PC == {"start", "certs", "scope", "client", "user", "done", "panic"}

\* An earlier call of the request may have filled the cache.
Init ==
  /\ clock \in 0 .. MaxTime
  /\ call \in [scopes : ScopeLists, audiences : Audiences, clientIDs : SUBSET Id,
               newContext : BOOLEAN, token : Token \cup {None},
               bearerClient : Id, authenticator : {"caching", "tokeninfo"}]
  /\ pc = "start"
  /\ now = 0
  /\ next = 1
  /\ checked = FALSE
  /\ cached \in Scope \cup {None}
  /\ call.authenticator = "tokeninfo" => cached = None
  /\ asked = 0
  /\ disturbed = FALSE
  /\ via = None
  /\ err = None

TypeOK ==
  /\ clock \in 0 .. MaxTime
  /\ pc \in PC
  /\ now \in 0 .. MaxTime
  /\ next \in Nat \ {0}
  /\ checked \in BOOLEAN
  /\ cached \in Scope \cup {None}
  /\ asked \in Nat
  /\ disturbed \in BOOLEAN
  /\ via \in {"id token", "bearer token", None}

Goto(from, to) == pc = from /\ pc' = to

Finish(from, how, e) ==
  /\ Goto(from, "done")
  /\ via' = how
  /\ err' = e

-------------------------------------------------------------------------------
(* CurrentUser *)

Wrap(n) == ((n + HalfRange) % (2 * HalfRange)) - HalfRange

HasInfo == call.scopes # <<>> \/ call.audiences # {} \/ call.clientIDs # {}

\* The checks are made in this order.
Refuse ==
  /\ \/ /\ ~ HasInfo
        /\ Finish("start", None, "no client ID or scope info")
     \/ /\ HasInfo /\ ~ call.newContext
        /\ Finish("start", None, "no request")
     \/ /\ HasInfo /\ call.newContext /\ call.token = None
        /\ Finish("start", None, "no token")
  /\ UNCHANGED <<clock, call, now, next, checked, cached, asked, disturbed>>

Accepted == HasInfo /\ call.newContext /\ call.token # None

\* With the email scope alone and some client IDs, an ID token is tried.
TriesIDToken == call.scopes = <<EmailScope>> /\ call.clientIDs # {}

\* The time is read, and the first two segments of the token decode.
TryIDToken ==
  /\ Accepted
  /\ TriesIDToken
  /\ now' = clock
  /\ IF call.token.wellFormed THEN Goto("start", "certs") ELSE Goto("start", "scope")
  /\ UNCHANGED <<clock, call, next, checked, cached, asked, disturbed, via, err>>

TryBearerToken ==
  /\ Accepted
  /\ ~ TriesIDToken
  /\ Goto("start", "scope")
  /\ UNCHANGED <<clock, call, now, next, checked, cached, asked, disturbed, via, err>>

-------------------------------------------------------------------------------
(* verifySignedJWT and verifyParsedToken *)

\* The certificates are tried in order; one that is malformed ends the
\* verification before later ones are tried.  (Mutant: the first one alone.)
SignatureVerifiesFirst(token, certs) == certs # <<>> /\ certs[1] = token.key

SignatureVerifies(token, certs) ==
  \E i \in DOMAIN certs :
    /\ certs[i] = token.key
    /\ \A j \in 1 .. i : certs[j] # None

\* Mutant of TimesVerify: no bound on the lifetime, so that the sum of the
\* expiry and the clock skew can overflow.
TimesVerifyAnyLifetime(token) ==
  /\ token.iat # 0
  /\ now >= Wrap(token.iat - clockSkewSecs)
  /\ token.exp # 0
  /\ now <= Wrap(token.exp + clockSkewSecs)

TimesVerify(token) ==
  /\ token.iat # 0
  /\ now >= Wrap(token.iat - clockSkewSecs)
  /\ token.exp # 0
  /\ token.exp < Wrap(now + maxTokenLifetimeSecs)
  /\ now <= Wrap(token.exp + clockSkewSecs)

\* Mutant of verifyParsedToken: the audience alone is checked when it differs.
verifyParsedTokenEither(token) ==
  /\ token.issuerIsGoogle
  /\ token.aud # None
  /\ token.azp # None
  /\ \/ token.azp # token.aud /\ token.aud \in call.audiences
     \/ token.azp \in call.clientIDs
  /\ token.email

verifyParsedToken(token) ==
  /\ token.issuerIsGoogle
  /\ token.aud # None
  /\ token.azp # None
  /\ token.azp # token.aud => token.aud \in call.audiences
  /\ call.clientIDs # {}
  /\ token.azp \in call.clientIDs
  /\ token.email

Verifies(certs) ==
  /\ SignatureVerifies(call.token, certs)
  /\ TimesVerify(call.token)
  /\ verifyParsedToken(call.token)

\* The certificates are there.  A token that does not verify, whatever the
\* reason, is tried as a bearer token.
CheckIDToken(certs) ==
  /\ pc = "certs"
  /\ IF Verifies(certs)
       THEN Finish("certs", "id token", None)
       ELSE Goto("certs", "scope") /\ UNCHANGED <<via, err>>
  /\ UNCHANGED <<clock, call, now, next, checked, cached, asked, disturbed>>

\* There are none, for an error of cachedCerts.
NoCerts ==
  /\ Goto("certs", "scope")
  /\ UNCHANGED <<clock, call, now, next, checked, cached, asked, disturbed, via, err>>

\* The list is nil: verifySignedJWT dereferences it.
NilCerts ==
  /\ Goto("certs", "panic")
  /\ UNCHANGED <<clock, call, now, next, checked, cached, asked, disturbed, via, err>>

-------------------------------------------------------------------------------
(* CurrentBearerTokenScope and CurrentBearerTokenUser *)

Ask == asked' = asked + 1

\* Every scope was in error, or there is none.
NoScopeLeft ==
  /\ next > Len(call.scopes)
  /\ Finish("scope", None, "no valid scope")
  /\ UNCHANGED <<clock, call, now, next, checked, cached, asked, disturbed>>

\* CurrentOAuthClientID of the caching authenticator has the user of the scope.
ScopeCached ==
  /\ next <= Len(call.scopes)
  /\ cached = call.scopes[next]
  /\ Goto("scope", "client")
  /\ disturbed' = FALSE
  /\ UNCHANGED <<clock, call, now, next, checked, cached, asked, via, err>>

\* It has not, or is the tokeninfo one: the service is asked.
AskForClient ==
  /\ next <= Len(call.scopes)
  /\ cached # call.scopes[next]

\* Mutants of ScopeAnswered: the list of scopes is kept; nothing is kept.
ScopeAnsweredKeepsList ==
  /\ AskForClient
  /\ Goto("scope", "client")
  /\ Ask
  /\ cached' = call.scopes
  /\ disturbed' = FALSE
  /\ UNCHANGED <<clock, call, now, next, checked, via, err>>

ScopeAnsweredNotKept ==
  /\ AskForClient
  /\ Goto("scope", "client")
  /\ Ask
  /\ cached' = None
  /\ disturbed' = FALSE
  /\ UNCHANGED <<clock, call, now, next, checked, via, err>>

\* The caching authenticator keeps the user for that scope, and no other.
Keep == IF call.authenticator = "caching" THEN call.scopes[next] ELSE None

\* The service answers for the scope.
ScopeAnswered ==
  /\ AskForClient
  /\ Goto("scope", "client")
  /\ Ask
  /\ cached' = Keep
  /\ disturbed' = FALSE
  /\ UNCHANGED <<clock, call, now, next, checked, via, err>>

\* The service does not, or the answer is no good: the next scope is tried.
ScopeFails ==
  /\ pc = "scope"
  /\ AskForClient
  /\ next' = next + 1
  /\ asked' = 0
  /\ cached' = None
  /\ UNCHANGED <<clock, call, pc, now, checked, disturbed, via, err>>

CheckClient ==
  /\ pc = "client"
  /\ IF call.bearerClient \in call.clientIDs
       THEN Goto("client", "user") /\ checked' = TRUE /\ UNCHANGED <<via, err>>
       ELSE Finish("client", None, "mismatched client") /\ UNCHANGED checked
  /\ UNCHANGED <<clock, call, now, next, cached, asked, disturbed>>

\* CurrentOAuthUser of the caching authenticator has the user, still.
CachedUser ==
  /\ pc = "user"
  /\ cached = call.scopes[next]
  /\ Finish("user", "bearer token", None)
  /\ UNCHANGED <<clock, call, now, next, checked, cached, asked, disturbed>>

\* It has not any more, or is the tokeninfo one: the service is asked again.
UserAnswered ==
  /\ pc = "user"
  /\ cached # call.scopes[next]
  /\ Ask
  /\ \/ Finish("user", "bearer token", None) /\ cached' = Keep
     \/ Finish("user", None, "service") /\ cached' = None
  /\ UNCHANGED <<clock, call, now, next, checked, disturbed>>

-------------------------------------------------------------------------------
\* Another goroutine of the request asks the caching authenticator for a scope
\* that it has not, and gets an answer or an error.  (Before the first question
\* of this call nothing depends on it: Init has every cache.)
OtherGoroutine ==
  /\ pc \in {"scope", "client", "user"}
  /\ call.authenticator = "caching"
  /\ \E s \in Scope \ {cached} : cached' \in {s, None}
  /\ disturbed' = TRUE
  /\ UNCHANGED <<clock, call, pc, now, next, checked, asked, via, err>>

Tick ==
  /\ clock < MaxTime
  /\ pc \notin {"done", "panic"}
  /\ clock' = clock + 1
  /\ UNCHANGED <<call, pc, now, next, checked, cached, asked, disturbed, via, err>>

Step ==
  \/ Refuse \/ TryIDToken \/ TryBearerToken
  \/ (\E certs \in Certs : CheckIDToken(certs)) \/ NoCerts \/ NilCerts
  \/ NoScopeLeft \/ ScopeCached \/ ScopeAnswered \/ ScopeFails
  \/ CheckClient \/ CachedUser \/ UserAnswered

Stopped == pc \in {"done", "panic"} /\ UNCHANGED vars

Next == Step \/ OtherGoroutine \/ Tick \/ Stopped

Spec == Init /\ [][Next]_vars

-------------------------------------------------------------------------------
(* Properties *)

ClientOfUser == IF via = "id token" THEN call.token.azp ELSE call.bearerClient

\* Whichever way the user was found, and whatever failed before, it acts for
\* one of clientIDs; without clientIDs nobody is found.  An ID token issued
\* for another audience than its client counts for the audiences alone.
UserIsOfAllowedClient ==
  via # None =>
    /\ ClientOfUser \in call.clientIDs
    /\ via = "id token" =>
         call.token.azp = call.token.aud \/ call.token.aud \in call.audiences

\* When an ID token is accepted it is not used too early, not later than its
\* expiry by more than the clock skew and the time the certificates took,
\* and does not expire in more than a day: in unbounded integers, although
\* the code computes in int64 with the time read at the start.
AcceptedInTime ==
  via = "id token" =>
    /\ call.token.iat - clockSkewSecs <= clock
    /\ clock <= call.token.exp + clockSkewSecs + (clock - now)
    /\ call.token.exp < clock + maxTokenLifetimeSecs

\* Given a list of intact certificates, an ID token is accepted exactly when
\* one of them signed it, the time is in its window, and its claims are right:
\* a good token is never passed on to the OAuth service as a bearer token.
\* (An issue time that underflows is refused.)
GoodToken(token, certs) ==
  /\ \E i \in DOMAIN certs : certs[i] = token.key
  /\ token.iat # 0
  /\ token.iat - clockSkewSecs \in -HalfRange .. now
  /\ token.exp # 0
  /\ token.exp \in now - clockSkewSecs .. now + maxTokenLifetimeSecs - 1
  /\ token.issuerIsGoogle /\ token.email
  /\ token.azp \in call.clientIDs \ {None}
  /\ token.aud \in (call.audiences \cup {token.azp}) \ {None}

AcceptsExactlyGoodTokens ==
  pc = "certs" =>
    \A certs \in Certs :
      (\A i \in DOMAIN certs : certs[i] # None) =>
        (Verifies(certs) <=> GoodToken(call.token, certs))

\* With the caching authenticator the client check and the user come from one
\* answer of the service, of this call or an earlier one: unless another
\* goroutine used the cache in between, a call whose client was accepted returns
\* the user, and had the service asked for the scope no more than once.
CheckedClientGetsUser ==
  call.authenticator = "caching" /\ checked /\ ~ disturbed =>
    /\ asked <= 1
    /\ pc = "done" => via = "bearer token"
===============================================================================
