# go-endpoints in TLA+

Models of `src/endpoints`, the Go library behind Google Cloud Endpoints on App
Engine: services are registered by type name, requests to `/_ah/spi/` are
dispatched to their methods, users are identified by ID or bearer tokens. The
modules are checked with TLC; the safety properties are proved with TLAPS as well,
for every value of the constants.

## Inventory

| Component | Source | State | Operations | What is hard | What makes it correct |
|---|---|---|---|---|---|
| service registry | `service.go` | `serviceMap.services` under a mutex | `register`, `get`, `serviceByName` | concurrent registration, use of a service after the unlock | one winner per name, entries permanent, no call stuck |
| backend service | `backend.go` | none; reads the registry | `GetApiConfigs`, `GetFirstConfig`, `LogMessages` | ranges over the map without its mutex, a data race | unless a registration races, the list is complete, or an error |
| HTTP server | `server.go`, `errors.go` | one request at a time, no shared state | `ServeHTTP`, `writeError` | failure at every step, after the method ran too | one response with the status of the error, where it is one |
| request validation | `apiconfig.go` 655-851 | the request message, in place | `validateRequest`, `validateField`, `compare`, `parseValue`, `parseTag` | zero values, dynamic types under reflect, widths | a method sees only messages that meet their tags |
| caching authenticator | `auth_prod.go`, `auth.go` 492-536 | `oauthResponseCache` under a mutex, per request | `CurrentOAuthClientID`, `CurrentOAuthUser` | goroutines of a request; an RPC under the mutex; check and use apart | the user returned is of the client that was checked |
| certificate cache | `auth.go` 145-246 | an item of memcache, shared by all instances | `cachedCerts` | no lock at all, time, eviction, overflow | never out of date, never useless |
| user identification | `auth.go` 315-579, `auth_dev.go` | none | `CurrentUser`, `verifySignedJWT`, `verifyParsedToken` | int64 time, fallback, malformed certificates | exactly the good tokens, in their time |
| API descriptor | `apiconfig.go` 133-628, `service.go` 246-291 | the map of schemas while one service is described | `APIDescriptor`, `toAPIMethod`, `addSchemaFromType`, `fieldNames`, `typeToParamsSpec`, `parsePath`, ... | recursive messages, name collisions, two maps ranged over in any order, two sets of rules for one field | the description ends, every reference resolves, exactly the services at fault are refused |

`ServeHTTP` calls the registry (`get`), the validation, and the method of a
service, which may be the backend service (it reads the registry again) or call
`CurrentUser`. `CurrentUser` calls the certificate cache and, through the
context made by `NewContext`, an authenticator. Shared state is the registry (a
process), the authenticator's cache (a request) and memcache (everything).

`PROJECT.json` has the hazards, each at its line.

## Modules

    ServiceDirectory  <- refined by -  ServiceMap  - extended by ->  Backend
    LastAnswer  <- refined by -  CachingAuthenticator
    CertCache, CurrentUser  - composed by, and refined by ->  KeyRotation
    Validation    Descriptor    Server

    ServiceMapProofs  - extended by ->  BackendProofs
    CurrentUserProofs  - instantiated by ->  KeyRotationProofs (CertCache too)
    CachingAuthenticatorProofs  ValidationProofs  DescriptorProofs  ServerProofs

Each has an `MC` module with the small instance, and a `.cfg` per question.
Operators named `...Shared`, `...First` and the like, marked "Mutant of", are
plausible bugs of the definition that follows them. Nothing in a specification
uses them; with one put in place of its definition, the property it is listed
for under "mutants" fails.

**ServiceMap** has one action per step of a goroutine in `register` (reject,
build, lock, check, insert, deferred unlock) and in `get` (ill-formed name, lock,
read, unlock, resolve). `services` is the Go map, `mutex` the lock; `pc`, `got`
and `err` are a goroutine's place, local service and error. The service `NewServer`
registers is there initially. `ServiceDirectory` is the promise: a directory
that binds a name once, atomically, and answers lookups.
`ServiceMap!Directory` maps a registration to its binding at the insertion.

**Backend** adds the calls of `GetApiConfigs` and `GetFirstConfig`. A Go range
visits every entry once, in any order, as long as nobody else writes to the map. Here
somebody may: the range takes no mutex, so that a registration since the call's own
`get` held it is a write that the range is not synchronized with, in progress or not
(`Race`). Of a data race Go promises nothing, so from then on entries may be missed, visited
again or read before their service is there, which is a nil pointer (`VisitTorn`), and the
runtime may throw. `before` has the names that were bound when `get` held the mutex, `raced` the
calls that were in a race.

**CachingAuthenticator** has goroutines of one request, each in one call of
`CurrentBearerTokenUser`: lock, cache hit, or miss with the cache destroyed, the
RPC, the store, the read back and the client check. `granted` is the service's
state and changes at any time; `last` is history. `LastAnswer` is the
promise: a memory of the service's last answer, which gives each question its
reply at one instant. `CachingAuthenticator!Memory` maps a question to the call
until its user is known: at the cache hit, at the answer of the RPC or at its
failure; `last` and `granted` are the same in both.

**CertCache** has concurrent calls of `cachedCerts` with a clock: the lookup, the
headers, the body, the store. `item` is the memcache item with the response
it came from, so that its true age is known. Products of seconds are taken
modulo the width of `time.Duration`.

**CurrentUser** is one call. A token is its claims and which key signed it; RSA,
base64 and JSON are not modelled beyond that. Sums of timestamps wrap at
`HalfRange`. `clock` advances at any time until the call ends, `now` is read once.
Answers of the two authenticators are choices. `cached` is what the caching one has: it belongs
to the context of the request, so it starts with what an earlier call of the request left, and
`OtherGoroutine` replaces or empties it between any two steps of this call (`disturbed`
remembers that). `asked` counts, as history, how often the call had the service asked for the scope
at hand.

**Validation** takes texts of tags by what `strconv` makes of them, and keeps the
kind of a field, whether its type is a defined one, and the dynamic type that
`parseValue` returns, because `reflect` panics on these. `Values` is what a field of a kind can hold.

**KeyRotation** composes the two: it extends `CertCache`, and is the step of
`verifySignedJWT` between the actions of `CurrentUser`, which it instantiates with
the same clock (in seconds). While the call is at `certs`, one of the requests of
`CertCache` runs for it; others run all the time. `Published` tells which keys the
provider's list has when it leaves the server. `started` and `used` are history.
The call stops when the ID token is accepted or not.

**Descriptor** describes one service. A type is a node of a graph: its kind, its
fields (name in Go and in JSON, form, type, what `parseTag` and `parseValue` make of
its tag), which of its value and pointer marshal themselves, its name in Go and its schema name.
A type of whose name `schemaNameForType` leaves nothing is kept under its name in Go (`Key`), while
the references to it are empty: the code does that without an error, so the model does.
`DescribeMethod` is an iteration of the loop over methods with all of `toAPIMethod`;
`RefuseMethod` and `Overflow` are its other ends, in the order of the code:
`fieldNames` of a type that flattens into itself fills the stack of the goroutine.
`stack` has what is left of each range of the calls of `addSchemaFromType`, and
`AddSchema`, `SkipSchema`, `RefuseSchema` and `Return` are its steps. `fieldNames` is
a recursive function, computed once for each type. An info is the default of
`newServiceMethod` or one the application put in its place.

**Server** is one request through `ServeHTTP`; what the registry and the
validation return is a choice at their step. `newServiceMethod` filters the
signatures, and `reflect` takes a call only when its arguments are assignable. `status` and `written` follow
`net/http`: a status is written once, and an error after it changes nothing; a code below 200 does
not settle the status (except 101), one that has not three digits is a panic, and 101, 204 and 304
have no body.

## Runs

| Run | Shows | Instance |
|---|---|---|
| `service_map` | `OneWinnerPerName`, `ResolvedIsCurrent`, `EntriesArePermanent`, `ImplementsDirectory` (with liveness), `EveryCallReturns` | two registrations, of one name or of two, and a lookup, under `FairSpec` |
| `backend` | `ListingIsComplete`, `OneBadServiceHidesAll`, `NotFoundMeansNone` | two registrations, one undescribable, before, during and after the call of a listing |
| `caching_authenticator` | `NoNilUser`, `ReturnedUserIsAllowed`, `CacheIsLastAnswer`, `NoRedundantFetch`, `ImplementsLastAnswer` (with liveness), `EveryCallReturns` | two goroutines, two scopes with different clients, every list of scopes, under `FairSpec` |
| `cert_cache` | `OnlyUsableIsCached`, `ObtainedIsReturned`, `ServedIsFresh` | two requests, five kinds of answers, one with a duration that overflows |
| `current_user` | `UserIsOfAllowedClient`, `AcceptedInTime`, `AcceptsExactlyGoodTokens`, `CheckedClientGetsUser` | all pairs of four-bit timestamps, all combinations of claims, four lists of certificates, lists of scopes of which one names a scope twice, every content of the request's cache |
| `key_rotation` | `RetiredKeyIsRefused`, `NewKeyIsKnown` | a call of `CurrentUser` and another request, a key replaced by a second one after a time in which both are published |
| `validation` | `AcceptedMeetsTags`, `MeetingIsAccepted` | every kind with every tag of five texts, and types of two fields |
| `server` | `FailureIsReported`, `MethodGetsWhatItDeclares` | errors with the codes 0, 100, 204, 404 and 418, with none, and a nil error of a type; every signature of up to four parameters and three results |
| `descriptor` | `EveryReferenceResolves`, `RecursionIsBounded`, `SchemasAreThoseReached`, `FaultsAreFound`, `DescriptionEnds` | services of two methods whose names differ in case alone, 15 message types, default and own infos, under `FairSpec` |

Three runs refute what a comment says; `PROJECT.json` quotes it under "findings".

- `backend_doc`: a service that was registered long before may be missing from a list that is
  returned without error, when a registration races with the range.
- `descriptor_doc`: schemas do not follow `encoding/json` in what they inline: an embedded
  pointer to a struct is a property, an embedded struct with a name of its own is not.
- `validation_doc`: `parseValue` has no value of the kinds int8, int16, int32, uint,
  uint8 and uint16, so that their defaults panic.

A fourth comment is not quite so either, and `CacheIsLastAnswer` says how: the cache of the
authenticator (`auth_prod.go` 77) serves "future invocations" for the last scope alone.

**Bounds.** Two actors are enough for the races here: each concerns a check and a
use by one with a write by another in between, on one key. Any number
of registrations is covered by the proofs. Two methods are enough
for the descriptor: methods meet in `dups`, in the names and in `schemasToCreate` in
pairs, while recursion goes through the types, where circles of one and of two types,
through pointers, slices and slices of pointers, are there. `MaxItems` is how long a list grows by
visiting entries again in a race, which is enough for one entry to be there twice. Time
stops at `MaxTime`; in `key_rotation` it goes on until a call starts when the first
key has been gone for the whole bound; in `cert_cache` it exceeds the longest lifetime that does not
overflow plus the deadline, so that items do expire, and in `current_user` it
leaves room for tokens on both sides of their windows. `HalfRange` is small so
that sums overflow within the instance. Two fields are enough for the order of
validation to matter, since the loop has no other state. `CHECK_DEADLOCK FALSE` is set for
`validation` and `descriptor`, whose loops end; other specifications end in an explicit
step that changes nothing, or do not end.

**Fairness.** `FairSpec` has weak fairness of each goroutine's step: goroutines are
scheduled by the Go runtime, a free `sync.Mutex` is acquired (each goroutine of
the models takes it finitely often), and RPCs of App Engine have a deadline and return.
In `Descriptor`
it has weak fairness of `Next`: one goroutine that waits for nobody goes on.
No fairness is assumed of the environment (grants, evictions, time).

## Proofs

All theorems hold for every value of the constants that satisfies the named
assumptions; no step is left to trust.

`ServiceMapProofs`: `Inductive` says that whoever is between lock and unlock holds
the mutex, that a goroutine about to insert has seen the name unbound, and what
each goroutine's local service is. From it follow `TypeCorrect`, `OneWinner`,
`ResolvedStaysCurrent`, `Permanence` and, by a step-by-step mapping,
`ImplementsDirectorySafety`. `OneWinnerPerName` alone is not inductive: nothing
in it says that two goroutines are not past the check together.

`CachingAuthenticatorProofs`: `IInv` has mutual exclusion, the facts of each
goroutine (`Own`: a checked client belongs to the scope asked for) and of the cache
(`CacheFacts`: empty during an RPC, else the last answer). The cache's content after the
unlock is what makes `NoRedundantFetch` true, and `res = UserOf(Asked)`, whatever
happened to the cache between the two calls, is what makes `ReturnedUserIsAllowed` true.
`ImplementsLastAnswerSafety` is the refinement of `LastAnswer`. An answer has its effect
at the RPC, before it is stored and read back; that no other goroutine sees the cache in
between is mutual exclusion again. By `CacheIsMemory` a goroutine that holds the mutex finds its scope
in the cache exactly if it is the last answer, so a hit is what `LastAnswer` remembers; by
`Fresh` the RPC is for a scope that is not, so its answer is one that `LastAnswer` fetches.
`StepRefines` goes through the steps.

`CurrentUserProofs`: below the bound on the lifetime (`ConstantsAssumption`: the clock, the
lifetime and the skew together fit in the width) the comparisons in int64 are those of the
integers: an issue time that underflows can only be refused. `InTime` and
`ExactlyGoodTokens` rest on that, with the invariant `IInv`: the checks were passed with the
`now` of the call, which is no later than the clock. `AcceptsExactlyGoodTokens` is about both
directions, so the lemma `VerifiesExactly` is an equivalence, whereas `InTime` needs one
half. A second invariant, `Bearer`, is about the fallback: once a client is accepted, and unless
another goroutine used the cache since, the caching authenticator has the user of the scope that was
taken up last, and this call had the service asked for it once, or not at all if an earlier call of
the request had. The count starts anew with each scope, since a list may name a scope twice with
another in between, which destroys the cache. Where another goroutine did use it, `UserAnswered` asks
again, and the answer may be an error: that is what `disturbed` leaves open, and what
`ReturnedUserIsAllowed` of `CachingAuthenticator` is still true of.

`KeyRotationProofs` has the theorems of the cache and those of its composition.
`IInv` says of each call that the response it holds left the server earlier, with an Age
that was right on arrival (`CallFacts`), and of the item that it expires before its
response is out of date (`ItemFacts`). The step that needs arithmetic is `ExpiresInTime`: the Age
is rounded down to a second and the product of the lifetime wraps, but a duration that
wraps is shorter (`OverflowShortens`), so the bound has a second and the deadline of a
store besides the max-age. What `CHOOSE` takes of the max-ages is the least of a set of
naturals, by well-foundedness (`Least`). `RInv` adds what the call knows of the list it
verified with: the list was published at a time in the window of both properties.
`RetiredRefused` and `NewKnown` follow from that and from `VerifiesExactly` of `CurrentUserProofs`,
which is used through INSTANCE with the clock in seconds; `RotationAssumption` gives the
assumptions of `CurrentUser`. That the composition is one is proved as well: each step is a
step of the cache or leaves it alone (`RotationFillsCache`), and one of the call or leaves
it alone (`RotationIsCurrentUser`: a list from memcache or from the server, an error, and
the seconds in between are among the choices of `CurrentUser`). So `ServedIsFresh` and `AcceptedInTime`,
each checked of a part alone, hold of the whole (`RotationServesFresh`, `RotationInTime`). The proof
of the refinement showed that `Tick` of `CurrentUser` had been possible only
while the certificates were fetched; the clock now goes on before the time is read too.

`ValidationProofs`: a value that passes `SetDefault` is one of the field's kind and width (`Values`),
since one that does not fit is refused or panics before it is set. `VInv` is the invariant of the loop: fields before `next` have passed
`validateField` with the value they have now, those after it are as they were sent, and an
error or a panic is that of the field at `next`. The rest is about one field: what passes
meets its tags, and what meets tags that can be applied passes. The proof showed
that `validateField` had been written as a CASE with guards that overlap, of which TLA+ leaves the
choice open; it is now a chain in the order of the code.

`ServerProofs`: `SInv` says that nothing is written before the outcome is known, that a
method is known from its lookup on, that a nil context does not get past the logging
of the body, and that a panic has left the response alone; `CallableExactly` computes, for each signature that `newServiceMethod`
lets pass, when `reflect` accepts the arguments.

`BackendProofs` extends the proofs of the registry. What a list without a race is made of are the
entries that were there when `get` held the mutex: they stay (`EntriesStay`, which `Permanence` rests
on too), `seen` has them at the end, and each was described with the service it has still, once.
`EntriesFit` (a service is under the name of its type) makes the services listed distinct, and
`WantsFit` keeps it while a registration is on its way. Of a range in a race it is proved, and
assumed, only that what it lists are registered services.
`ListingLeavesDirectory` says that a listing, which takes no mutex, changes nothing of the registry,
so that what was proved of the registry alone holds with listings (`ListingKeepsRegistry`).

`DescriptorProofs`: `EveryReferenceResolves` says nothing of a description that is
still being made, so the invariant has `ReferencesKept`: every reference from a method or
from a schema is to a schema that is there or to a name that some call on the stack
(or, before the schemas, `schemasToCreate`) has still to visit. A schema is found under `Key` and
referred to by its schema name, which is the same one unless it is empty. A schema that exists
is skipped without its references being lost, because the call that made it is on the
stack or over. `RecursionIsBounded` is inductive together with the types: each
deeper call follows a new name in the map. `RInv` adds that every type in a map or on the
stack is reached by the messages. At the end, with unique names, the schemas are thus a
set that has the messages and is closed under references, and `Reached`, the
least such set, is theirs (`SchemasOfReached`). `FInv` keeps that what the loop has passed has no
fault and that an end with an error has found one. A type that is to be visited
is in the map under its own schema name, so that of all types that a range has to visit each comes
(`AllCome`) when no two names collide. The graph of types is any with
`TypeAssumption`; what `fieldNames` returns is not used by these proofs.

`FaultsFound` rests on `ShapeIsSkeleton`, which is about all sequences of tokens. `Shape` is what
Go's `{.+?}` replaces: of the brackets that open, those from which a match begins are
chosen from the left, each after the end of the one before. `Skeleton` has every token that is
not between brackets. The two agree when nothing stands between no brackets
(`ParametersAreNamed`, the premise of `FaultsAreFound`): a match then ends at the first closing bracket
(`MatchesAreOutermost`), and what is inside a bracket is inside an outermost one (`InsideOutermost`).
The premise is needed: the expression takes `{}{a}` and `{a}` for the same path, so that a
service whose GET methods have such paths is refused although the two can be told apart.

`DescriptionDescends` is what of `DescriptionEnds` is not about fairness. The methods to visit, the names
without a schema, the calls on the stack and the names that the innermost one has to visit, in
lexicographic order, lessen with each step that does not end the description, and
while it runs there is something to go on with (`Working`). The names are as many as
the types at most, which are finite; `AddSchema` lengthens the stack, but takes a name.

**Model-checked only**: liveness and ENABLED are out of the prover's reach, which leaves
`EveryCallReturns` (twice), the step from `DescriptionDescends` to `DescriptionEnds`, and the fairness of
`ImplementsDirectory` and `ImplementsLastAnswer` (their safety is proved). So is induction over
data: what `fieldNames` and `parsePath` return is not known to the proofs.
The assumptions are all about constants: finite sets, widths with room for the clock, values
outside the sets that they are to be told apart from. TLC evaluates each of them in a run.

## Not modelled

- `LogMessages`, `urlfetch.go`, logging, `Must`, the wrappers of `DefaultServer`: no
  state, or delegation. The sample application and the tests.
- RSA, base64, regular expressions and JSON, except for whether they succeed.
- Types, formats, descriptions and scopes that `Descriptor` only copies into its result,
  and its checks of a nil destination and an empty host. Arrays, channels and pointers to
  pointers as types of fields.
- `validateRequest` looks at the fields of the request itself only. That nested and
  embedded fields are advertised with bounds and not checked is listed as a hazard; no
  document says that they are.
- What is a fault of a path or of one field is taken from the code by `FaultsAreFound`, which is about
  which services are found at fault: the rules themselves (hazards at `apiconfig.go` 328 and 611 and
  `service.go` 280) are modelled, and no document says what they should be. An empty reference to a
  type without a schema name is allowed by `EveryReferenceResolves` for the same reason.
- The comment of `cachedCerts`, which says that the Age header is for how long
  certificates are cached: `CertCache` has what the code does, max-age minus age.
- Changes by the application to the `ServiceInfo` and `MethodInfo` it gets back.

## Plan

Done, in this order of importance: registry, authenticators, certificates, user
identification, listing, validation, server, descriptor, certificates with
identification. What is left:

1. A composition of `Server`, `ServiceMap` and `Validation`, in place of the choices
   of `Server`, with requests and registrations at the same time.
2. `FaultsAreFound` relates the descriptor to the services; the next step is to relate
   it to `Validation`: what is advertised of a field is what is checked.
3. Proofs: every safety property is a theorem, and so are the refinements and both
   compositions. What is left is the type of `fieldNames`, from which `FaultsFound`
   could say more of the fields, and the refinement that the composition of 1 should be.
