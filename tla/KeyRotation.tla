------------------------------ MODULE KeyRotation ------------------------------
(***************************************************************************)
(* currentIDTokenUser and verifySignedJWT of endpoints/auth.go put         *)
(* together with cachedCerts: a call of CurrentUser (CurrentUser.tla) gets *)
(* its certificates from the cache that other requests fill at the same    *)
(* time (CertCache.tla), while the provider replaces the keys it signs     *)
(* tokens with.                                                            *)
(*                                                                         *)
(* What follows when the ID token is not accepted, a bearer token, is in   *)
(* CurrentUser.tla alone: here the call stops there.                       *)
(***************************************************************************)
EXTENDS CertCache

CONSTANTS
  Caller,      \* the request of the call of CurrentUser
  Client,      \* its clientIDs has this client ID alone
  EmailScope,
  Token,       \* ID tokens
  Published,   \* the certificates that leave the provider's server at a time
  clockSkewSecs, maxTokenLifetimeSecs

\* What CurrentUser.tla assumes of its constants, and that the certificates
\* published are intact.
ASSUME RotationAssumption ==
  /\ Caller \in Request
  /\ clockSkewSecs \in Nat /\ maxTokenLifetimeSecs \in Nat
  /\ MaxTime \div Second + maxTokenLifetimeSecs + clockSkewSecs < HalfRange
  /\ \A t \in Token : /\ t.iat \in -HalfRange .. HalfRange - 1
                     /\ t.exp \in -HalfRange .. HalfRange - 1
                     /\ t.key # None
  /\ Published \in [0 .. MaxTime -> Seq({t.key : t \in Token})]
  /\ None \notin {"id token", "bearer token"} /\ None \notin Token /\ None # EmailScope

VARIABLES
  call, upc, read, next, checked, cached, asked, disturbed, via, uerr,  \* of CurrentUser
  started,   \* history: when the call read the time
  used       \* history: the response that its certificates are from

userVars == <<call, upc, read, next, checked, cached, asked, disturbed, via, uerr>>
rotationVars == <<vars, userVars, started, used>>

\* The timestamps of tokens are in seconds.
User == INSTANCE CurrentUser WITH
  Id <- {Client},
  Scope <- {EmailScope},
  Certs <- {Published[t] : t \in 0 .. MaxTime},
  Audiences <- {{}},
  ScopeLists <- {<<EmailScope>>},
  MaxTime <- MaxTime \div Second,
  clock <- now \div Second,
  now <- read,
  pc <- upc,
  err <- uerr

-------------------------------------------------------------------------------
\* The cache of bearer tokens is empty: the call stops before it is read.
RotationInit ==
  /\ Init
  /\ User!Init
  /\ User!Accepted /\ User!TriesIDToken
  /\ call.authenticator = "caching" /\ cached = None
  /\ started = None
  /\ used = None

\* CurrentUser reads the time and decodes the token.
StartVerifying ==
  /\ pc[Caller] = "idle"
  /\ UNCHANGED <<vars, used>>
  /\ User!TryIDToken
  /\ started' = now

\* A request inside cachedCerts; Caller is there for its token alone.
CertsStep(r) ==
  /\ r = Caller => upc = "certs" /\ pc[r] # "done"
  /\ Step(r)
  /\ UNCHANGED <<userVars, started, used>>

\* cachedCerts returned a list or an error to verifySignedJWT.
Verify ==
  /\ Return(Caller)
  /\ IF err[Caller] = "nil"
       THEN /\ User!CheckIDToken(Published[resp[Caller].born])
            /\ used' = resp[Caller]
       ELSE /\ User!NoCerts
            /\ UNCHANGED used
  /\ UNCHANGED started

Environment == (Evict \/ Tick) /\ UNCHANGED <<userVars, started, used>>

Verified == upc \notin {"start", "certs"}

RotationNext ==
  \/ /\ ~ Verified
     /\ \/ StartVerifying
        \/ \E r \in Request : CertsStep(r)
        \/ Verify
        \/ Environment
  \/ Verified /\ UNCHANGED rotationVars

RotationSpec == RotationInit /\ [][RotationNext]_rotationVars

-------------------------------------------------------------------------------
(* Properties *)

\* A list that was no older than its max-age when it came from the server or
\* from a proxy.
CameFresh(p) == p # None /\ p.header.age # None /\ p.header.age <= MaxAge(p.header)

\* From a max-age before the call started, give or take the time that a store
\* may take and the second that the Age header is rounded by.
Recent(p) == {t \in 0 .. now : started < OutOfDate([p EXCEPT !.born = t])}

Signs(t) == \E i \in DOMAIN Published[t] : Published[t][i] = call.token.key

\* The cache, whoever filled it, keeps no key alive for longer than its list
\* says: a token is accepted only if its key was published recently.
RetiredKeyIsRefused ==
  via = "id token" /\ CameFresh(used) => \E t \in Recent(used) : Signs(t)

\* Nor does it hide a new key for longer: a good token whose key has been
\* published for that long is accepted when any certificates were obtained,
\* and not passed on as a bearer token.
NewKeyIsKnown ==
  /\ CameFresh(used)
  /\ User!GoodToken(call.token, <<call.token.key>>)
  /\ \A t \in Recent(used) : Signs(t)
  => via = "id token"
===============================================================================
