-------------------------- MODULE CachingAuthenticator --------------------------
(***************************************************************************)
(* The authenticator of one API request in production                      *)
(* (endpoints/auth_prod.go) and the two functions of endpoints/auth.go     *)
(* that consult it, CurrentBearerTokenScope and CurrentBearerTokenUser.    *)
(* The goroutines a method starts share the request's context and so its   *)
(* authenticator; each makes one call of CurrentBearerTokenUser.           *)
(*                                                                         *)
(* The OAuth service behind user.CurrentOAuth is external: it answers for  *)
(* a scope with the user of the request's token while the scope is         *)
(* granted, with an error when it is not, and may fail at any time.        *)
(***************************************************************************)
EXTENDS Naturals, Sequences, FiniteSets

CONSTANTS
  Goroutine,   \* goroutines of the request
  Scope,       \* OAuth scopes
  Client,      \* OAuth client IDs
  ClientOf,    \* the client the service names when asked for a scope
  ScopeLists,  \* scopes arguments of the calls, in order of preference
  None         \* no call, no user, no lock holder

\* A user as the service describes it.
User == [scope : Scope, client : Client]
UserOf(s) == [scope |-> s, client |-> ClientOf[s]]

ASSUME ConstantsAssumption ==
  /\ ClientOf \in [Scope -> Client]
  /\ ScopeLists \subseteq Seq(Scope)
  /\ None \notin Goroutine \cup Scope
  /\ None \notin User
  /\ None \notin [scope : Scope, ok : BOOLEAN]
  /\ None \notin [scopes : ScopeLists, clientIDs : SUBSET Client]

VARIABLES
  cache,      \* oauthResponseCache: the user cached for a scope
  mutex,      \* the goroutine that holds the authenticator's mutex
  granted,    \* the scopes the service would answer for now
  pc,         \* where each goroutine is
  call,       \* the arguments of its call of CurrentBearerTokenUser
  next,       \* the index in scopes of the scope it asks for
  checked,    \* whether the client of that scope was found in clientIDs
  res,        \* the user it read from the cache or returns
  err,        \* the error it read or returns
  last        \* history: the last answer of the service

vars == <<cache, mutex, granted, pc, call, next, checked, res, err, last>>
progress == <<call, next, checked>>

-------------------------------------------------------------------------------
PC == {"idle", "lock", "locked", "rpc", "read", "answered", "done"}
Error == {"nil", "service", "no valid scope", "mismatched client"}

TypeOK ==
  /\ DOMAIN cache \subseteq Scope
  /\ cache \in [DOMAIN cache -> User]
  /\ mutex \in Goroutine \cup {None}
  /\ granted \subseteq Scope
  /\ pc \in [Goroutine -> PC]
  /\ call \in [Goroutine -> [scopes : ScopeLists, clientIDs : SUBSET Client] \cup {None}]
  /\ next \in [Goroutine -> Nat \ {0}]
  /\ checked \in [Goroutine -> BOOLEAN]
  /\ res \in [Goroutine -> User \cup {None}]
  /\ err \in [Goroutine -> Error]
  /\ last \in [scope : Scope, ok : BOOLEAN] \cup {None}

Empty == [s \in {} |-> None]

\* cachingAuthenticatorFactory, called by NewContext for the request.
Init ==
  /\ cache = Empty
  /\ mutex = None
  /\ granted \in SUBSET Scope
  /\ pc = [g \in Goroutine |-> "idle"]
  /\ call = [g \in Goroutine |-> None]
  /\ next = [g \in Goroutine |-> 1]
  /\ checked = [g \in Goroutine |-> FALSE]
  /\ res = [g \in Goroutine |-> None]
  /\ err = [g \in Goroutine |-> "nil"]
  /\ last = None

Goto(g, from, to) ==
  /\ pc[g] = from
  /\ pc' = [pc EXCEPT ![g] = to]

\* The scope the goroutine asks the authenticator for.
Asked(g) == call[g].scopes[next[g]]

-------------------------------------------------------------------------------
(* CurrentBearerTokenUser and CurrentBearerTokenScope, up to the first     *)
(* question put to the authenticator.                                      *)

Call(g, scopes, clientIDs) ==
  /\ pc[g] = "idle"
  /\ call' = [call EXCEPT ![g] = [scopes |-> scopes, clientIDs |-> clientIDs]]
  /\ \/ scopes = <<>> /\ Goto(g, "idle", "done") /\ err' = [err EXCEPT ![g] = "no valid scope"]
     \/ scopes # <<>> /\ Goto(g, "idle", "lock") /\ UNCHANGED err
  /\ UNCHANGED <<cache, mutex, granted, next, checked, res, last>>

-------------------------------------------------------------------------------
(* oauthResponse and populateOAuthResponse *)

\* Mutant of Lock: the cache is used without waiting for its holder.
LockShared(g) ==
  /\ Goto(g, "lock", "locked")
  /\ mutex' = g
  /\ UNCHANGED <<cache, granted, progress, res, err, last>>

Lock(g) ==
  /\ Goto(g, "lock", "locked")
  /\ mutex = None
  /\ mutex' = g
  /\ UNCHANGED <<cache, granted, progress, res, err, last>>

\* Mutant of Hit: any cached user answers, whatever the scope it is cached for.
HitAnyScope(g) ==
  /\ Goto(g, "locked", "answered")
  /\ \E s \in DOMAIN cache : res' = [res EXCEPT ![g] = cache[s]]
  /\ err' = [err EXCEPT ![g] = "nil"]
  /\ mutex' = None
  /\ UNCHANGED <<cache, granted, progress, last>>

Hit(g) ==
  /\ Goto(g, "locked", "answered")
  /\ Asked(g) \in DOMAIN cache
  /\ res' = [res EXCEPT ![g] = cache[Asked(g)]]
  /\ err' = [err EXCEPT ![g] = "nil"]
  /\ mutex' = None
  /\ UNCHANGED <<cache, granted, progress, last>>

\* Mutant of Miss: the users of other scopes stay cached.
MissKeepsOthers(g) ==
  /\ Goto(g, "locked", "rpc")
  /\ Asked(g) \notin DOMAIN cache
  /\ UNCHANGED <<cache, mutex, granted, progress, res, err, last>>

\* The cache is destroyed before the service is asked.
Miss(g) ==
  /\ Goto(g, "locked", "rpc")
  /\ Asked(g) \notin DOMAIN cache
  /\ cache' = Empty
  /\ UNCHANGED <<mutex, granted, progress, res, err, last>>

\* Mutant of Answer: the cache is destroyed after the service answered.
AnswerThenDestroy(g) ==
  /\ Goto(g, "rpc", "answered")
  /\ Asked(g) \in granted
  /\ res' = [res EXCEPT ![g] = UserOf(Asked(g))]
  /\ err' = [err EXCEPT ![g] = "nil"]
  /\ cache' = Empty
  /\ mutex' = None
  /\ last' = [scope |-> Asked(g), ok |-> TRUE]
  /\ UNCHANGED <<granted, progress>>

\* user.CurrentOAuth answered with a user, which is cached.
Answer(g) ==
  /\ Goto(g, "rpc", "read")
  /\ Asked(g) \in granted
  /\ cache' = [s \in DOMAIN cache \cup {Asked(g)} |->
                 IF s = Asked(g) THEN UserOf(s) ELSE cache[s]]
  /\ last' = [scope |-> Asked(g), ok |-> TRUE]
  /\ UNCHANGED <<mutex, granted, progress, res, err>>

\* Mutants of Fail: the nil user of a failure is cached; the mutex stays held.
FailCaches(g) ==
  /\ Goto(g, "rpc", "answered")
  /\ res' = [res EXCEPT ![g] = None]
  /\ err' = [err EXCEPT ![g] = "service"]
  /\ cache' = [s \in {Asked(g)} |-> None]
  /\ mutex' = None
  /\ last' = [scope |-> Asked(g), ok |-> FALSE]
  /\ UNCHANGED <<granted, progress>>

FailKeepsMutex(g) ==
  /\ Goto(g, "rpc", "answered")
  /\ res' = [res EXCEPT ![g] = None]
  /\ err' = [err EXCEPT ![g] = "service"]
  /\ last' = [scope |-> Asked(g), ok |-> FALSE]
  /\ UNCHANGED <<cache, mutex, granted, progress>>

\* user.CurrentOAuth failed: the scope is not granted, or the service is not
\* to be reached.  The deferred Unlock runs.
Fail(g) ==
  /\ Goto(g, "rpc", "answered")
  /\ res' = [res EXCEPT ![g] = None]
  /\ err' = [err EXCEPT ![g] = "service"]
  /\ mutex' = None
  /\ last' = [scope |-> Asked(g), ok |-> FALSE]
  /\ UNCHANGED <<cache, granted, progress>>

\* oauthResponse reads back what populateOAuthResponse stored; an absent
\* entry of a Go map reads as a nil user.
ReadBack(g) ==
  /\ Goto(g, "read", "answered")
  /\ res' = [res EXCEPT ![g] =
       IF Asked(g) \in DOMAIN cache THEN cache[Asked(g)] ELSE None]
  /\ err' = [err EXCEPT ![g] = "nil"]
  /\ mutex' = None
  /\ UNCHANGED <<cache, granted, progress, last>>

-------------------------------------------------------------------------------
(* CurrentBearerTokenScope and CurrentBearerTokenUser, after an answer *)

\* An error moves on to the next scope, if there is one.
NextScope(g) ==
  /\ pc[g] = "answered"
  /\ ~ checked[g]
  /\ err[g] # "nil"
  /\ \/ /\ next[g] < Len(call[g].scopes)
        /\ next' = [next EXCEPT ![g] = @ + 1]
        /\ Goto(g, "answered", "lock")
        /\ UNCHANGED err
     \/ /\ next[g] = Len(call[g].scopes)
        /\ err' = [err EXCEPT ![g] = "no valid scope"]
        /\ Goto(g, "answered", "done")
        /\ UNCHANGED next
  /\ UNCHANGED <<cache, mutex, granted, call, checked, res, last>>

\* The client is accepted: the user is asked for in a second call of the
\* authenticator.  A mismatch is final, whatever scopes are left.
CheckClient(g) ==
  /\ pc[g] = "answered"
  /\ ~ checked[g]
  /\ err[g] = "nil"
  /\ \/ /\ res[g].client \in call[g].clientIDs
        /\ checked' = [checked EXCEPT ![g] = TRUE]
        /\ Goto(g, "answered", "lock")
        /\ UNCHANGED <<res, err>>
     \/ /\ res[g].client \notin call[g].clientIDs
        /\ err' = [err EXCEPT ![g] = "mismatched client"]
        /\ res' = [res EXCEPT ![g] = None]
        /\ Goto(g, "answered", "done")
        /\ UNCHANGED checked
  /\ UNCHANGED <<cache, mutex, granted, call, next, last>>

\* CurrentOAuthUser returns the user, or the error, of the second call.
ReturnUser(g) ==
  /\ checked[g]
  /\ Goto(g, "answered", "done")
  /\ UNCHANGED <<cache, mutex, granted, progress, res, err, last>>

-------------------------------------------------------------------------------
\* The user grants or revokes a scope while the request is in flight.
ChangeGrant(s) ==
  /\ granted' = (granted \ {s}) \cup ({s} \ granted)
  /\ UNCHANGED <<cache, mutex, pc, progress, res, err, last>>

Step(g) ==
  \/ Lock(g) \/ Hit(g) \/ Miss(g) \/ Answer(g) \/ Fail(g) \/ ReadBack(g)
  \/ NextScope(g) \/ CheckClient(g) \/ ReturnUser(g)

Next ==
  \/ \E g \in Goroutine, scopes \in ScopeLists, ids \in SUBSET Client : Call(g, scopes, ids)
  \/ \E g \in Goroutine : Step(g)
  \/ \E s \in Scope : ChangeGrant(s)

Spec == Init /\ [][Next]_vars

\* A goroutine that waits neither for the mutex nor for the service goes on,
\* a free mutex is acquired, and the service answers or the RPC times out.
FairSpec == Spec /\ \A g \in Goroutine : WF_vars(Step(g))

-------------------------------------------------------------------------------
(* Properties *)

\* An answer without error carries a user: nobody destroys the cache between
\* the store of populateOAuthResponse and the read of oauthResponse, so
\* CurrentOAuthClientID never takes the ClientID of a nil user.
NoNilUser ==
  \A g \in Goroutine : pc[g] = "answered" /\ err[g] = "nil" => res[g] # None

\* Although the client is checked in one call of the authenticator and the
\* user fetched in another, between which the cache can be destroyed and
\* filled for another scope, the user returned was answered for one of the
\* caller's scopes and belongs to one of its clients.
ReturnedUserIsAllowed ==
  \A g \in Goroutine :
    pc[g] = "done" /\ err[g] = "nil" =>
      /\ res[g].client \in call[g].clientIDs
      /\ \E i \in 1 .. Len(call[g].scopes) : res[g] = UserOf(call[g].scopes[i])

\* While nobody is inside, the cache holds the last answer of the service and
\* nothing else: one scope at most, never a failure, never a user cached for
\* a scope asked before.
CacheIsLastAnswer ==
  mutex = None =>
    DOMAIN cache = IF last # None /\ last.ok THEN {last.scope} ELSE {}

\* The service is never asked again for the scope it answered last.
NoRedundantFetch ==
  [][\A g \in Goroutine :
       pc[g] = "locked" /\ pc'[g] = "rpc" =>
         last # [scope |-> Asked(g), ok |-> TRUE]]_vars

\* A question is open until the cache or the service answers it: what follows,
\* the store in the cache and the read of what was stored, takes no effect.
questions ==
  [g \in Goroutine |-> IF pc[g] \in {"lock", "locked", "rpc"} THEN Asked(g) ELSE None]

replies ==
  [g \in Goroutine |-> CASE pc[g] = "read" -> UserOf(Asked(g))
                         [] pc[g] = "answered" /\ err[g] = "nil" -> res[g]
                         [] OTHER -> None]

Memory == INSTANCE LastAnswer WITH
  UserFor <- [s \in Scope |-> UserOf(s)], question <- questions, reply <- replies

\* Destroying the cache before a question, failures that leave it empty and
\* the goroutines that wait for each other are invisible: every question has the
\* reply that one memory of the service's last answer gives at one instant.
ImplementsLastAnswer == Memory!FairSpec

\* A call that was made returns, although the mutex is held while the service
\* is asked and every other goroutine of the request waits meanwhile.
EveryCallReturns == \A g \in Goroutine : pc[g] = "lock" ~> pc[g] = "done"
===============================================================================
