------------------------------- MODULE CertCache -------------------------------
(***************************************************************************)
(* cachedCerts of endpoints/auth.go: the certificates that verify ID       *)
(* tokens, read through memcache, which every request of every instance    *)
(* shares.  No lock orders the requests: several miss together, fetch the  *)
(* list at different times and store it in any order.                      *)
(*                                                                         *)
(* External: memcache (it may lose an item, be unreachable, and refuses a  *)
(* call after the deadline of the request), and the provider's server with *)
(* the proxies before it, which answer with a list that left the server at *)
(* an earlier time and tell its age in whole seconds.                      *)
(*                                                                         *)
(* Time is counted in units of time.Duration.  A body is a list when       *)
(* json.Unmarshal accepts it, the literal null included, which decodes to  *)
(* a nil list (CurrentUser.tla has what a nil list does).                  *)
(***************************************************************************)
EXTENDS Integers, Sequences

CONSTANTS
  Request,        \* goroutines calling cachedCerts
  Answer,         \* answers of the server: the max-age of each directive of
                  \* their Cache-Control header, 0 where there is none that
                  \* parses, whether they have an Age header, their body
  Second,         \* time.Second
  HalfRange,      \* a time.Duration is in -HalfRange .. HalfRange - 1
  Deadline,       \* the time a request has from the answer to the store
  MaxTime,        \* bound: where the clock of the model stops
  None            \* no item, no header, no answer

Body == {"list", "garbage"}
Header == [maxAges : Seq(Nat), age : Int \cup {None}]
Response == [born : Nat, header : Header, body : Body]

ASSUME ConstantsAssumption ==
  /\ Answer \subseteq [maxAges : Seq(Nat), aged : BOOLEAN, body : Body]
  /\ Second \in Nat \ {0}
  /\ HalfRange \in Nat \ {0}
  /\ Deadline \in Nat
  /\ MaxTime \in Nat
  /\ None \notin Int
  /\ None \notin Response

VARIABLES
  now,      \* the time
  item,     \* the memcache item under DefaultCertURI: a response, and when it expires
  pc,       \* where each call is
  useCache, \* cacheResults: memcache said that it has no item
  resp,     \* the response a call got from the server, or found in memcache
  at,       \* when it got it from the server
  err       \* what a call returns: "nil", or what went wrong

vars == <<now, item, pc, useCache, resp, at, err>>

-------------------------------------------------------------------------------
PC == {"idle", "fetch", "body", "set", "done"}
Error == {"nil", "not reached", "not decoded"}

TypeOK ==
  /\ now \in Nat
  /\ item \in [resp : Response, expires : Int] \cup {None}
  /\ pc \in [Request -> PC]
  /\ useCache \in [Request -> BOOLEAN]
  /\ resp \in [Request -> Response \cup {None}]
  /\ at \in [Request -> Nat]
  /\ err \in [Request -> Error]

Init ==
  /\ now = 0
  /\ item = None
  /\ pc = [r \in Request |-> "idle"]
  /\ useCache = [r \in Request |-> FALSE]
  /\ resp = [r \in Request |-> None]
  /\ at = [r \in Request |-> 0]
  /\ err = [r \in Request |-> "nil"]

Goto(r, from, to) ==
  /\ pc[r] = from
  /\ pc' = [pc EXCEPT ![r] = to]

\* The call returns the list p or the error e; its other variables are gone.
Finish(r, from, p, e) ==
  /\ Goto(r, from, "done")
  /\ resp' = [resp EXCEPT ![r] = p]
  /\ err' = [err EXCEPT ![r] = e]
  /\ useCache' = [useCache EXCEPT ![r] = FALSE]
  /\ at' = [at EXCEPT ![r] = 0]

-------------------------------------------------------------------------------
(* certExpirationTime *)

\* The first directive with a positive max-age counts.
MaxAge(h) ==
  LET positive == {i \in DOMAIN h.maxAges : h.maxAges[i] > 0}
  IN  IF positive = {} THEN 0
      ELSE h.maxAges[CHOOSE i \in positive : \A j \in positive : i <= j]

\* The product of a number of seconds and time.Second, as an int64.
AsDuration(seconds) ==
  ((seconds * Second + HalfRange) % (2 * HalfRange)) - HalfRange

\* Mutant of certExpirationTime: the Age header is required but not used.
ExpirationIgnoringAge(h) ==
  IF MaxAge(h) <= 0 \/ h.age = None THEN 0 ELSE AsDuration(MaxAge(h))

certExpirationTime(h) ==
  IF MaxAge(h) <= 0 \/ h.age = None \/ MaxAge(h) - h.age <= 0
    THEN 0
    ELSE AsDuration(MaxAge(h) - h.age)

-------------------------------------------------------------------------------
(* memcache.JSON.Get *)

GetHit(r) ==
  /\ item # None
  /\ now < item.expires
  /\ item.resp.body = "list"
  /\ Finish(r, "idle", item.resp, "nil")
  /\ UNCHANGED <<now, item>>

\* A miss lets the call store what it fetches; a failure of memcache, or an
\* item that does not decode, does not.
GetNothing(r) ==
  /\ Goto(r, "idle", "fetch")
  /\ \/ /\ item # None => now >= item.expires
        /\ useCache' = [useCache EXCEPT ![r] = TRUE]
     \/ useCache' = [useCache EXCEPT ![r] = FALSE]
  /\ UNCHANGED <<now, item, resp, at, err>>

-------------------------------------------------------------------------------
(* The fetch from DefaultCertURI *)

\* The server is not reached, or answers with another status than 200, or
\* the body cannot be read to its end.
FetchFails(r) ==
  /\ \E from \in {"fetch", "body"} : Finish(r, from, None, "not reached")
  /\ UNCHANGED <<now, item>>

\* The headers of an answer with status 200 arrive.
Fetch(r, born, a) ==
  /\ Goto(r, "fetch", "body")
  /\ resp' = [resp EXCEPT ![r] =
       [born |-> born,
        header |-> [maxAges |-> a.maxAges,
                    age |-> IF a.aged THEN (now - born) \div Second ELSE None],
        body |-> a.body]]
  /\ at' = [at EXCEPT ![r] = now]
  /\ UNCHANGED <<now, item, useCache, err>>

\* The list is to be stored after a cache miss only, and only when it has a
\* lifetime left.
ToBeCached(r) == useCache[r] /\ certExpirationTime(resp[r].header) > 0

\* Mutant of Decode: the body is stored before it is known to decode.
DecodeLater(r) ==
  \/ /\ pc[r] = "body"
     /\ ToBeCached(r)
     /\ Goto(r, "body", "set")
     /\ UNCHANGED <<now, item, useCache, resp, at, err>>
  \/ /\ pc[r] = "body"
     /\ ~ ToBeCached(r)
     /\ Finish(r, "body", resp[r], "nil")
     /\ UNCHANGED <<now, item>>

\* The body is read and decoded.
Decode(r) ==
  /\ pc[r] = "body"
  /\ \/ /\ resp[r].body = "garbage"
        /\ Finish(r, "body", resp[r], "not decoded")
     \/ /\ resp[r].body = "list"
        /\ ToBeCached(r)
        /\ Goto(r, "body", "set")
        /\ UNCHANGED <<useCache, resp, at, err>>
     \/ /\ resp[r].body = "list"
        /\ ~ ToBeCached(r)
        /\ Finish(r, "body", resp[r], "nil")
  /\ UNCHANGED <<now, item>>

\* Mutant of Set: an item without expiration.
SetForEver(r) ==
  /\ now <= at[r] + Deadline
  /\ Finish(r, "set", resp[r], "nil")
  /\ item' = [resp |-> resp[r], expires |-> None]
  /\ UNCHANGED now

\* memcache.Set, whoever stored an item meanwhile.
Set(r) ==
  /\ now <= at[r] + Deadline
  /\ Finish(r, "set", resp[r], "nil")
  /\ item' = [resp |-> resp[r], expires |-> now + certExpirationTime(resp[r].header)]
  /\ UNCHANGED now

\* Mutant of SetFails: its error is returned.
SetFailureIsReturned(r) ==
  /\ Finish(r, "set", resp[r], "not reached")
  /\ UNCHANGED <<now, item>>

\* An error of Set is logged and the certificates are returned all the same.
SetFails(r) ==
  /\ Finish(r, "set", resp[r], "nil")
  /\ UNCHANGED <<now, item>>

\* The caller has used what the call returned; it may call again.
Return(r) ==
  /\ Goto(r, "done", "idle")
  /\ resp' = [resp EXCEPT ![r] = None]
  /\ err' = [err EXCEPT ![r] = "nil"]
  /\ UNCHANGED <<now, item, useCache, at>>

-------------------------------------------------------------------------------
\* memcache may drop an item before it expires.
Evict ==
  /\ item # None
  /\ item' = None
  /\ UNCHANGED <<now, pc, useCache, resp, at, err>>

Tick ==
  /\ now < MaxTime
  /\ now' = now + 1
  /\ UNCHANGED <<item, pc, useCache, resp, at, err>>

Step(r) ==
  \/ GetHit(r) \/ GetNothing(r)
  \/ FetchFails(r)
  \/ \E born \in 0 .. now, a \in Answer : Fetch(r, born, a)
  \/ Decode(r)
  \/ Set(r) \/ SetFails(r)
  \/ Return(r)

Next == (\E r \in Request : Step(r)) \/ Evict \/ Tick

Spec == Init /\ [][Next]_vars

-------------------------------------------------------------------------------
(* Properties *)

\* When the certificates that left the server at p.born are out of date, for
\* sure: their max-age, the time a store may take, and the second that the
\* Age header is rounded by.
OutOfDate(p) == p.born + MaxAge(p.header) * Second + Deadline + Second

\* Whatever requests fetch and store in whatever order, a list found in
\* memcache is never served when it is out of date.  (It may have replaced a
\* newer one.)
ServedIsFresh ==
  [][\A r \in Request :
       pc[r] = "idle" /\ pc'[r] = "done" => now < OutOfDate(resp'[r])]_vars

\* A list that fails to decode, comes without an age, or was older than its
\* max-age never gets into memcache, where it would keep every later request
\* from storing a better one until it expires.
OnlyUsableIsCached ==
  item # None =>
    /\ item.resp.body = "list"
    /\ item.resp.header.age # None
    /\ item.resp.header.age < MaxAge(item.resp.header)

\* memcache is never the reason of a failure: a call that obtained a list
\* that decodes returns it, whatever memcache answered to its Get and Set.
ObtainedIsReturned ==
  \A r \in Request :
    pc[r] = "done" =>
      (err[r] = "nil" <=> resp[r] # None /\ resp[r].body = "list")
===============================================================================
