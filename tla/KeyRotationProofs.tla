--------------------------- MODULE KeyRotationProofs ---------------------------
(***************************************************************************)
(* The certificate cache, for every set of requests, answers and widths of *)
(* a duration: what it serves is never out of date.  Then the rotation of  *)
(* keys through it: a retired key is refused and a new one is known.       *)
(***************************************************************************)
EXTENDS KeyRotation, WellFoundedInduction, TLAPS

(* certExpirationTime *)

\* Every nonempty set of naturals has a least element.
LEMMA Least ==
  ASSUME NEW S \in SUBSET Nat, S # {}
  PROVE  \E i \in S : \A j \in S : i <= j
<1>1. PICK i \in S : \A j \in S : <<j, i>> \notin OpToRel(<, Nat)
  BY NatLessThanWellFounded, WFMin
<1>2. \A j \in S : ~ (j < i)
  BY <1>1 DEF OpToRel
<1> QED BY <1>2

LEMMA MaxAgeType ==
  ASSUME NEW h \in Header
  PROVE  MaxAge(h) \in Nat
<1> DEFINE positive == {i \in DOMAIN h.maxAges : h.maxAges[i] > 0}
           first == CHOOSE i \in positive : \A j \in positive : i <= j
<1>1. h.maxAges \in Seq(Nat)
  BY DEF Header
<1>2. CASE positive = {}
  BY <1>2 DEF MaxAge
<1>3. CASE positive # {}
  <2>1. positive \in SUBSET Nat
    BY <1>1
  <2>2. \E i \in positive : \A j \in positive : i <= j
    BY <1>3, <2>1, Least
  <2>3. first \in positive
    BY <2>2
  <2>4. first \in DOMAIN h.maxAges
    BY <2>3
  <2> HIDE DEF first, positive
  <2>6. h.maxAges[first] \in Nat
    BY <1>1, <2>4
  <2>5. MaxAge(h) = h.maxAges[first]
    BY <1>3 DEF MaxAge, first, positive
  <2> QED BY <2>5, <2>6
<1> QED BY <1>2, <1>3

\* A duration that overflows gets shorter, never longer.
LEMMA OverflowShortens ==
  ASSUME NEW n \in Nat
  PROVE  AsDuration(n) \in Int /\ AsDuration(n) <= n * Second
<1>1. n * Second \in Nat
  BY ConstantsAssumption
<1> DEFINE a == n * Second + HalfRange
           m == 2 * HalfRange
<1>2. a \in Nat /\ m \in Nat /\ m > 0
  BY <1>1, ConstantsAssumption
<1>3. a % m \in Nat /\ a % m <= a
  <2> HIDE DEF a, m
  <2> QED BY <1>2
<1> QED BY <1>1, <1>3, ConstantsAssumption DEF AsDuration

\* A list that left the server at born and got to a request at arrival, with its
\* Age rounded down: what is left of its max-age, and the time a store takes,
\* ends before it is out of date.
LEMMA ExpiresInTime ==
  ASSUME NEW p \in Response, NEW arrival \in Nat, p.born <= arrival,
         p.header.age # None => p.header.age = (arrival - p.born) \div Second,
         NEW t \in Nat, t <= arrival + Deadline,
         certExpirationTime(p.header) > 0
  PROVE  /\ certExpirationTime(p.header) \in Int
         /\ t + certExpirationTime(p.header) <= OutOfDate(p)
<1> DEFINE age == p.header.age
           left == MaxAge(p.header) - age
<1>1. MaxAge(p.header) \in Nat /\ p.born \in Nat
  BY MaxAgeType DEF Response
<1>2. ~ (MaxAge(p.header) <= 0 \/ age = None \/ left <= 0)
  BY DEF certExpirationTime
<1>3. age \in Int
  BY <1>2 DEF Response, Header
<1>4. left \in Nat /\ certExpirationTime(p.header) = AsDuration(left)
  BY <1>1, <1>2, <1>3 DEF certExpirationTime
<1>5. Second \in Nat \ {0} /\ Deadline \in Nat
  BY ConstantsAssumption
<1>6. (arrival - p.born) - Second < age * Second
  <2> DEFINE d == arrival - p.born
  <2>1. d \in Nat /\ age = d \div Second BY <1>1, <1>2
  <2> HIDE DEF d, age
  <2>2. d < (d \div Second) * Second + Second BY <1>5, <2>1
  <2>3. d - Second < age * Second BY <1>3, <1>5, <2>1, <2>2
  <2> QED BY <2>3 DEF d
<1>7. left * Second = MaxAge(p.header) * Second - age * Second
  BY <1>1, <1>3, <1>5
<1>8. /\ AsDuration(left) \in Int
      /\ AsDuration(left) <= MaxAge(p.header) * Second - age * Second
  BY <1>4, <1>7, OverflowShortens
<1> QED
  <2> DEFINE x == MaxAge(p.header) * Second
             y == age * Second
  <2>1. x \in Int /\ y \in Int BY <1>1, <1>3, <1>5
  <2> HIDE DEF x, y
  <2>2. /\ arrival - p.born - Second < y
        /\ AsDuration(left) <= x - y
    BY <1>6, <1>8 DEF x, y
  <2>3. t + AsDuration(left) <= p.born + x + Deadline + Second
    BY <1>1, <1>5, <1>8, <2>1, <2>2
  <2> QED BY <1>4, <1>8, <2>3 DEF OutOfDate, x

-------------------------------------------------------------------------------
(* The invariant of the cache *)

\* A response as it got to a request at a time: its Age was right then.
Fetched(p, t) ==
  /\ p \in Response
  /\ p.born <= t
  /\ p.header.age # None => p.header.age = (t - p.born) \div Second

\* What a call knows of its response, before and after it returns.
CallFacts(r) ==
  /\ resp[r] # None => resp[r].born <= now
  /\ pc[r] \in {"body", "set"} => Fetched(resp[r], at[r])
  /\ pc[r] = "set" =>
       /\ resp[r].body = "list"
       /\ certExpirationTime(resp[r].header) > 0
  /\ pc[r] = "done" => (err[r] = "nil" <=> resp[r] # None /\ resp[r].body = "list")

\* The item is a list with a lifetime, and expires before it is out of date.
ItemFacts ==
  item # None =>
    /\ item.resp.born <= now
    /\ item.resp.body = "list"
    /\ certExpirationTime(item.resp.header) > 0
    /\ item.expires <= OutOfDate(item.resp)

IInv == TypeOK /\ (\A r \in Request : CallFacts(r)) /\ ItemFacts

LEMMA InitIInv == Init => IInv
<1> SUFFICES ASSUME Init PROVE IInv OBVIOUS
<1>1. TypeOK BY DEF Init, TypeOK, PC, Error
<1>2. ASSUME NEW r \in Request PROVE CallFacts(r) BY DEF Init, CallFacts
<1>3. ItemFacts BY DEF Init, ItemFacts
<1> QED BY <1>1, <1>2, <1>3 DEF IInv

\* The facts of the calls do not depend on the item, nor those of the item on
\* the calls; time may pass.
LEMMA ItemStays ==
  ASSUME ItemFacts, item \in [resp : Response, expires : Int] \cup {None},
         UNCHANGED item, now \in Nat, now' \in Nat, now <= now'
  PROVE  ItemFacts'
<1> SUFFICES ASSUME item # None PROVE ItemFacts' BY DEF ItemFacts
<1>1. item.resp.born \in Nat BY DEF Response
<1> QED BY <1>1 DEF ItemFacts

\* A call that returns a list that decodes, or an error.
LEMMA FinishIInv ==
  ASSUME IInv, UNCHANGED now,
         NEW r \in Request, NEW from, NEW p \in Response \cup {None}, NEW e \in Error,
         Finish(r, from, p, e),
         p # None => p.born <= now,
         e = "nil" <=> p # None /\ p.body = "list",
         ItemFacts', item' \in [resp : Response, expires : Int] \cup {None}
  PROVE  IInv'
<1>1. TypeOK'
  BY DEF IInv, TypeOK, Finish, Goto, PC
<1>2. ASSUME NEW q \in Request PROVE CallFacts(q)'
  <2>1. CASE q = r
    BY <2>1 DEF IInv, TypeOK, CallFacts, Finish, Goto
  <2>2. CASE q # r
    <3>1. CallFacts(q) BY DEF IInv
    <3>2. /\ pc'[q] = pc[q] /\ resp'[q] = resp[q] /\ at'[q] = at[q] /\ err'[q] = err[q]
      BY <2>2 DEF IInv, TypeOK, Finish, Goto
    <3> QED BY <3>1, <3>2 DEF CallFacts, Fetched
  <2> QED BY <2>1, <2>2
<1> QED BY <1>1, <1>2 DEF IInv

\* A call goes on, and keeps its response or gets one now.
LEMMA ProceedIInv ==
  ASSUME IInv, UNCHANGED <<now, item, err>>,
         NEW r \in Request, NEW to \in PC \ {"done"}, NEW from, Goto(r, from, to),
         NEW p \in Response \cup {None}, resp' = [resp EXCEPT ![r] = p],
         NEW t \in Nat, at' = [at EXCEPT ![r] = t],
         useCache' \in [Request -> BOOLEAN],
         p # None => p.born <= now,
         to \in {"body", "set"} => Fetched(p, t),
         to = "set" => p.body = "list" /\ certExpirationTime(p.header) > 0
  PROVE  IInv'
<1>1. TypeOK'
  BY DEF IInv, TypeOK, Goto, PC
<1>2. ASSUME NEW q \in Request PROVE CallFacts(q)'
  <2>1. CASE q = r
    <3>1. pc'[q] = to /\ resp'[q] = p /\ at'[q] = t
      BY <2>1 DEF IInv, TypeOK, Goto
    <3> QED BY <3>1 DEF CallFacts, Fetched
  <2>2. CASE q # r
    <3>1. CallFacts(q) BY DEF IInv
    <3>2. /\ pc'[q] = pc[q] /\ resp'[q] = resp[q] /\ at'[q] = at[q]
      BY <2>2 DEF IInv, TypeOK, Goto
    <3> QED BY <3>1, <3>2 DEF CallFacts, Fetched
  <2> QED BY <2>1, <2>2
<1>3. ItemFacts' BY ItemStays DEF IInv, TypeOK
<1> QED BY <1>1, <1>2, <1>3 DEF IInv

\* What a response from the server, or one of the cache, is to a call.
LEMMA FetchIInv ==
  ASSUME IInv, NEW r \in Request, NEW born \in 0 .. now, NEW a \in Answer,
         Fetch(r, born, a)
  PROVE  IInv'
<1> DEFINE p == [born |-> born,
                 header |-> [maxAges |-> a.maxAges,
                             age |-> IF a.aged THEN (now - born) \div Second ELSE None],
                 body |-> a.body]
<1>1. now \in Nat /\ born \in Nat /\ born <= now BY DEF IInv, TypeOK
<1>2. p \in Response
  <2>1. a.maxAges \in Seq(Nat) /\ a.body \in Body
    BY ConstantsAssumption
  <2>2. (now - born) \div Second \in Int BY <1>1, ConstantsAssumption
  <2> QED BY <1>1, <2>1, <2>2 DEF Response, Header
<1>3. Fetched(p, now) BY <1>1, <1>2, ConstantsAssumption DEF Fetched
<1> HIDE DEF p
<1>4. /\ Goto(r, "fetch", "body") /\ UNCHANGED <<now, item, err, useCache>>
      /\ resp' = [resp EXCEPT ![r] = p] /\ at' = [at EXCEPT ![r] = now]
  BY DEF Fetch, p
<1>5. useCache' \in [Request -> BOOLEAN] BY <1>4 DEF IInv, TypeOK
<1>6. p.born <= now BY <1>3 DEF Fetched
<1>7. "body" \in PC \ {"done"} /\ "body" # "set" BY DEF PC
<1> QED
  BY <1>1, <1>2, <1>3, <1>4, <1>5, <1>6, <1>7, ProceedIInv

LEMMA SetIInv ==
  ASSUME IInv, NEW r \in Request, Set(r)
  PROVE  IInv'
<1> DEFINE p == resp[r]
           life == certExpirationTime(p.header)
<1>1. /\ CallFacts(r) /\ pc[r] = "set" /\ now \in Nat /\ at[r] \in Nat
      /\ now <= at[r] + Deadline
  BY DEF IInv, TypeOK, Set, Finish, Goto
<1>2. Fetched(p, at[r]) /\ p.body = "list" /\ life > 0
  BY <1>1 DEF CallFacts
<1>3. p \in Response /\ p # None /\ p.born <= now
  BY <1>1, <1>2, ConstantsAssumption DEF Fetched, CallFacts
<1>4. life \in Int /\ now + life <= OutOfDate(p)
  BY <1>1, <1>2, <1>3, ExpiresInTime DEF Fetched
<1> HIDE DEF life, p
<1>5. /\ Finish(r, "set", p, "nil") /\ UNCHANGED now
      /\ item' = [resp |-> p, expires |-> now + life]
  BY DEF Set, life, p
<1>6. item' \in [resp : Response, expires : Int] \cup {None}
  BY <1>1, <1>3, <1>4, <1>5
<1>7. ItemFacts'
  BY <1>2, <1>3, <1>4, <1>5 DEF ItemFacts, life
<1> QED BY <1>2, <1>3, <1>5, <1>6, <1>7, FinishIInv DEF Error

\* A call that takes the item of the cache, or what it got, or nothing.
LEMMA EndIInv ==
  ASSUME IInv, NEW r \in Request,
         GetHit(r) \/ FetchFails(r) \/ SetFails(r)
  PROVE  IInv'
<1>1. ItemFacts /\ now \in Nat /\ CallFacts(r)
      /\ item \in [resp : Response, expires : Int] \cup {None}
  BY DEF IInv, TypeOK
<1>2. UNCHANGED <<now, item>> BY DEF GetHit, FetchFails, SetFails
<1>3. ItemFacts' BY <1>1, <1>2, ItemStays
<1>4. CASE GetHit(r)
  <2>1. /\ item.resp \in Response /\ item.resp.born <= now /\ item.resp.body = "list"
        /\ Finish(r, "idle", item.resp, "nil")
    BY <1>1, <1>4 DEF GetHit, ItemFacts
  <2> QED BY <1>1, <1>2, <1>3, <2>1, FinishIInv, ConstantsAssumption DEF Error
<1>5. CASE FetchFails(r)
  <2>1. PICK from : Finish(r, from, None, "not reached") BY <1>5 DEF FetchFails
  <2> QED BY <1>1, <1>2, <1>3, <2>1, FinishIInv DEF Error
<1>6. CASE SetFails(r)
  <2>1. Finish(r, "set", resp[r], "nil") /\ pc[r] = "set"
    BY <1>6 DEF SetFails, Finish, Goto
  <2>2. resp[r] \in Response /\ resp[r] # None /\ resp[r].body = "list" /\ resp[r].born <= now
    BY <1>1, <2>1, ConstantsAssumption DEF CallFacts, Fetched
  <2> QED BY <1>1, <1>2, <1>3, <2>1, <2>2, FinishIInv DEF Error
<1> QED BY <1>4, <1>5, <1>6

LEMMA DecodeIInv ==
  ASSUME IInv, NEW r \in Request, Decode(r)
  PROVE  IInv'
<1> DEFINE p == resp[r]
<1>1. /\ CallFacts(r) /\ pc[r] = "body" /\ now \in Nat /\ at[r] \in Nat /\ ItemFacts
      /\ item \in [resp : Response, expires : Int] \cup {None}
  BY DEF IInv, TypeOK, Decode
<1>2. Fetched(p, at[r]) /\ p \in Response /\ p # None /\ p.born <= now
  BY <1>1, ConstantsAssumption DEF CallFacts, Fetched
<1>3. UNCHANGED <<now, item>> BY DEF Decode
<1>4. ItemFacts' BY <1>1, <1>3, ItemStays
<1>5. CASE p.body = "garbage" /\ Finish(r, "body", p, "not decoded")
  BY <1>1, <1>2, <1>3, <1>4, <1>5, FinishIInv DEF Error
<1>6. CASE p.body = "list" /\ Finish(r, "body", p, "nil")
  BY <1>1, <1>2, <1>3, <1>4, <1>6, FinishIInv DEF Error
<1>7. CASE /\ p.body = "list" /\ ToBeCached(r) /\ Goto(r, "body", "set")
           /\ UNCHANGED <<useCache, resp, at, err>>
  <2>1. resp' = [resp EXCEPT ![r] = p] /\ at' = [at EXCEPT ![r] = at[r]]
        /\ useCache' \in [Request -> BOOLEAN]
    BY <1>7 DEF IInv, TypeOK
  <2>2. certExpirationTime(p.header) > 0 BY <1>7 DEF ToBeCached
  <2> HIDE DEF p
  <2> QED BY <1>1, <1>2, <1>3, <1>7, <2>1, <2>2, ProceedIInv DEF PC
<1> QED BY <1>5, <1>6, <1>7 DEF Decode

LEMMA GetNothingIInv ==
  ASSUME IInv, NEW r \in Request, GetNothing(r)
  PROVE  IInv'
<1> DEFINE p == resp[r]
           t == at[r]
<1>1. p \in Response \cup {None} /\ t \in Nat BY DEF IInv, TypeOK
<1>2. /\ resp' = [resp EXCEPT ![r] = p] /\ at' = [at EXCEPT ![r] = t]
      /\ useCache' \in [Request -> BOOLEAN]
  BY DEF IInv, TypeOK, GetNothing
<1>3. p # None => p.born <= now BY DEF IInv, CallFacts
<1>4. Goto(r, "idle", "fetch") /\ UNCHANGED <<now, item, err>> BY DEF GetNothing
<1>5. "fetch" \in PC \ {"done"} /\ "fetch" \notin {"body", "set"} BY DEF PC
<1> HIDE DEF p, t
<1> QED BY <1>1, <1>2, <1>3, <1>4, <1>5, ProceedIInv

LEMMA ReturnIInv ==
  ASSUME IInv, NEW r \in Request, Return(r)
  PROVE  IInv'
<1>1. TypeOK' BY DEF IInv, TypeOK, Return, Goto, PC, Error
<1>2. ASSUME NEW q \in Request PROVE CallFacts(q)'
  <2>1. CallFacts(q) BY DEF IInv
  <2> QED BY <2>1 DEF IInv, TypeOK, CallFacts, Return, Goto, Fetched
<1>3. ItemFacts' BY ItemStays DEF IInv, TypeOK, Return
<1> QED BY <1>1, <1>2, <1>3 DEF IInv

LEMMA StepIInv ==
  ASSUME IInv, NEW r \in Request, Step(r)
  PROVE  IInv'
<1>1. CASE \E born \in 0 .. now, a \in Answer : Fetch(r, born, a)
  BY <1>1, FetchIInv
<1>2. CASE GetHit(r) \/ FetchFails(r) \/ SetFails(r) BY <1>2, EndIInv
<1>3. CASE GetNothing(r) BY <1>3, GetNothingIInv
<1>4. CASE Decode(r) BY <1>4, DecodeIInv
<1>5. CASE Set(r) BY <1>5, SetIInv
<1>6. CASE Return(r) BY <1>6, ReturnIInv
<1> QED BY <1>1, <1>2, <1>3, <1>4, <1>5, <1>6 DEF Step

\* Evictions and time leave the calls alone, and so does a step of nothing.
LEMMA EnvironmentIInv ==
  ASSUME IInv, Evict \/ Tick \/ UNCHANGED vars
  PROVE  IInv'
<1>1. /\ UNCHANGED <<pc, useCache, resp, at, err>>
      /\ now \in Nat /\ now' \in Nat /\ now <= now'
      /\ item' \in {item, None}
  BY DEF IInv, TypeOK, Evict, Tick, vars
<1>2. TypeOK' BY <1>1 DEF IInv, TypeOK
<1>3. ASSUME NEW q \in Request PROVE CallFacts(q)'
  <2>1. CallFacts(q) /\ resp[q] \in Response \cup {None} BY DEF IInv, TypeOK
  <2>2. resp[q] # None => resp[q].born \in Nat BY <2>1 DEF Response
  <2>3. resp[q] # None => resp[q].born <= now' BY <1>1, <2>1, <2>2 DEF CallFacts
  <2> QED BY <1>1, <2>1, <2>3 DEF CallFacts, Fetched
<1>4. ItemFacts'
  <2>1. CASE item' = None BY <2>1 DEF ItemFacts
  <2>2. CASE item' = item BY <1>1, <2>2, ItemStays DEF IInv, TypeOK
  <2> QED BY <1>1, <2>1, <2>2
<1> QED BY <1>2, <1>3, <1>4 DEF IInv

LEMMA NextIInv == IInv /\ [Next]_vars => IInv'
BY StepIInv, EnvironmentIInv DEF Next

LEMMA CacheInvariance == Spec => []IInv
BY InitIInv, NextIInv, PTL DEF Spec

-------------------------------------------------------------------------------
(* What cachedCerts promises *)

\* A call never holds or stores anything but a response of the server, and the
\* expiration it computes is a duration, wrapped or not.
THEOREM TypeCorrect == Spec => []TypeOK
<1>1. IInv => TypeOK BY DEF IInv
<1> QED BY <1>1, CacheInvariance, PTL

\* Only lists that decode, with an age below their max-age, get into memcache.
THEOREM CachedIsUsable == Spec => []OnlyUsableIsCached
<1>1. IInv => OnlyUsableIsCached
  <2> SUFFICES ASSUME IInv, item # None
               PROVE  /\ item.resp.body = "list"
                      /\ item.resp.header.age # None
                      /\ item.resp.header.age < MaxAge(item.resp.header)
    BY DEF OnlyUsableIsCached
  <2> DEFINE h == item.resp.header
  <2>1. h \in Header /\ item.resp.body = "list" /\ certExpirationTime(h) > 0
    BY DEF IInv, TypeOK, ItemFacts, Response
  <2>2. ~ (MaxAge(h) <= 0 \/ h.age = None \/ MaxAge(h) - h.age <= 0)
    BY <2>1 DEF certExpirationTime
  <2>3. h.age \in Int /\ MaxAge(h) \in Nat BY <2>1, <2>2, MaxAgeType DEF Header
  <2> QED BY <2>1, <2>2, <2>3
<1> QED BY <1>1, CacheInvariance, PTL

\* Whatever memcache answers, a call returns without error exactly when it
\* obtained a list that decodes.
THEOREM ListObtainedIsReturned == Spec => []ObtainedIsReturned
<1>1. IInv => ObtainedIsReturned BY DEF IInv, CallFacts, ObtainedIsReturned
<1> QED BY <1>1, CacheInvariance, PTL

\* A step that ends a call at its lookup is a hit on the item.
LEMMA OnlyHitsServe ==
  ASSUME IInv, Next, NEW r \in Request, pc[r] = "idle", pc'[r] = "done"
  PROVE  GetHit(r)
<1>1. PICK q \in Request : Step(q) BY DEF Next, Evict, Tick
<1>2. q = r
  BY <1>1 DEF IInv, TypeOK, Step, GetHit, GetNothing, FetchFails, Fetch, Decode, Set,
              SetFails, Return, Finish, Goto
<1> QED
  BY <1>1, <1>2 DEF IInv, TypeOK, Step, GetHit, GetNothing, FetchFails, Fetch, Decode, Set,
                    SetFails, Return, Finish, Goto

\* A list found in memcache is never served when it is out of date, although
\* its lifetime is a product that may overflow and its age a rounded one.
THEOREM CacheServesFresh == Spec => ServedIsFresh
<1>1. ASSUME IInv, [Next]_vars
      PROVE  [\A r \in Request :
                pc[r] = "idle" /\ pc'[r] = "done" => now < OutOfDate(resp'[r])]_vars
  <2> SUFFICES ASSUME Next, NEW r \in Request, pc[r] = "idle", pc'[r] = "done"
               PROVE  now < OutOfDate(resp'[r])
    BY <1>1
  <2>1. GetHit(r) BY <1>1, OnlyHitsServe
  <2>2. /\ item # None /\ now < item.expires /\ resp'[r] = item.resp
        /\ now \in Nat /\ item.resp \in Response /\ item.expires \in Int
        /\ item.expires <= OutOfDate(item.resp)
    BY <1>1, <2>1 DEF IInv, TypeOK, GetHit, Finish, ItemFacts
  <2>3. OutOfDate(item.resp) \in Int
    <3>1. MaxAge(item.resp.header) \in Nat /\ item.resp.born \in Nat
      BY <2>2, MaxAgeType DEF Response
    <3> QED BY <3>1, ConstantsAssumption DEF OutOfDate
  <2> QED BY <2>2, <2>3
<1> QED BY <1>1, CacheInvariance, PTL DEF Spec, ServedIsFresh

-------------------------------------------------------------------------------
(* What verifySignedJWT accepts, from CurrentUserProofs *)

UserProofs == INSTANCE CurrentUserProofs WITH
  Id <- {Client},
  Scope <- {EmailScope},
  Certs <- {Published[t] : t \in 0 .. MaxTime},
  Audiences <- {{}},
  ScopeLists <- {<<EmailScope>>},
  MaxTime <- MaxTime \div Second,
  clock <- now \div Second,
  now <- read,
  pc <- upc,
  err <- uerr

\* Seconds of the clock of CertCache are times of CurrentUser.
LEMMA SecondsPassed ==
  ASSUME NEW t \in 0 .. MaxTime
  PROVE  t \div Second \in 0 .. MaxTime \div Second
<1>1. t \in Nat /\ MaxTime \in Nat /\ t <= MaxTime /\ Second \in Nat /\ Second > 0
  BY ConstantsAssumption
<1>2. t \div Second \in Nat /\ MaxTime \div Second \in Nat BY <1>1
<1>3. t \div Second <= MaxTime \div Second BY <1>1
<1> QED BY <1>2, <1>3

\* The lists that the provider publishes are intact.
LEMMA PublishedIsIntact ==
  ASSUME NEW t \in 0 .. MaxTime
  PROVE  /\ Len(Published[t]) \in Nat
         /\ DOMAIN Published[t] = 1 .. Len(Published[t])
         /\ \A i \in DOMAIN Published[t] : Published[t][i] # None
<1> DEFINE Keys == {u.key : u \in Token}
<1>1. Published[t] \in Seq(Keys) BY RotationAssumption
<1>2. None \notin Keys BY RotationAssumption
<1> HIDE DEF Keys
<1> QED BY <1>1, <1>2

\* What CurrentUserProofs assumes of the constants.
LEMMA UserAssumption ==
  /\ EmailScope \in {EmailScope}
  /\ HalfRange \in Nat \ {0}
  /\ MaxTime \div Second \in Nat
  /\ clockSkewSecs \in Nat
  /\ maxTokenLifetimeSecs \in Nat
  /\ MaxTime \div Second + maxTokenLifetimeSecs + clockSkewSecs < HalfRange
  /\ \A u \in Token : u.iat \in UserProofs!Int64 /\ u.exp \in UserProofs!Int64
  /\ {<<EmailScope>>} \subseteq Seq({EmailScope})
  /\ \A c \in {Published[u] : u \in 0 .. MaxTime} : Len(c) \in Nat /\ DOMAIN c = 1 .. Len(c)
<1>1. HalfRange \in Nat \ {0} /\ MaxTime \div Second \in Nat
  BY ConstantsAssumption
<1>2. \A u \in Token : u.iat \in UserProofs!Int64 /\ u.exp \in UserProofs!Int64
  BY RotationAssumption DEF UserProofs!Int64
<1>3. {<<EmailScope>>} \subseteq Seq({EmailScope})
  OBVIOUS
<1>4. \A c \in {Published[u] : u \in 0 .. MaxTime} : Len(c) \in Nat /\ DOMAIN c = 1 .. Len(c)
  BY PublishedIsIntact
<1> QED BY <1>1, <1>2, <1>3, <1>4, RotationAssumption, Zenon

\* With a list that the provider published at some time, exactly the good tokens
\* verify.
LEMMA PublishedVerifiesExactly ==
  ASSUME call.token \in Token, read \in 0 .. MaxTime \div Second, NEW t \in 0 .. MaxTime
  PROVE  User!Verifies(Published[t]) <=> User!GoodToken(call.token, Published[t])
<1> DEFINE certs == Published[t]
<1>5. /\ None \notin {"id token", "bearer token"} /\ None \notin Token
      /\ None \notin {EmailScope}
  BY RotationAssumption
<1>6. /\ Len(certs) \in Nat /\ DOMAIN certs = 1 .. Len(certs)
      /\ \A i \in DOMAIN certs : certs[i] # None
  BY PublishedIsIntact
<1> HIDE DEF certs
<1>7. UserProofs!Verifies(certs) <=> UserProofs!GoodToken(call.token, certs)
  BY <1>5, <1>6, UserAssumption, UserProofs!VerifiesExactly, Zenon
<1>8. User!Verifies(certs) <=> UserProofs!Verifies(certs)
  BY DEF User!Verifies, User!SignatureVerifies, User!TimesVerify, User!verifyParsedToken,
         User!Wrap, UserProofs!Verifies, UserProofs!SignatureVerifies, UserProofs!TimesVerify,
         UserProofs!verifyParsedToken, UserProofs!Wrap
<1>9. User!GoodToken(call.token, certs) <=> UserProofs!GoodToken(call.token, certs)
  BY DEF User!GoodToken, UserProofs!GoodToken
<1>10. User!Verifies(certs) <=> User!GoodToken(call.token, certs)
  BY <1>7, <1>8, <1>9
<1> QED BY <1>10 DEF certs

-------------------------------------------------------------------------------
(* The invariant of the rotation *)

\* What the call gets from cachedCerts was not out of date when it started.
CallerFacts ==
  /\ pc[Caller] \in {"body", "set"} => started <= at[Caller]
  /\ pc[Caller] = "done" /\ err[Caller] = "nil" /\ CameFresh(resp[Caller]) =>
       started < OutOfDate(resp[Caller])

\* What the outcome was decided with.
UsedFacts ==
  /\ used = None => via = None
  /\ used # None =>
       /\ used \in Response
       /\ used.born <= now
       /\ CameFresh(used) => started < OutOfDate(used)
       /\ read \in 0 .. MaxTime \div Second
       /\ via = "id token" <=> User!Verifies(Published[used.born])

UserFacts ==
  /\ now <= MaxTime
  /\ upc \in {"start", "certs", "scope", "done"}
  /\ call.token \in Token
  /\ upc # "start" => started \in 0 .. now
  /\ ~ Verified => via = None /\ used = None
  /\ upc = "certs" => read = started \div Second /\ CallerFacts
  /\ Verified => UsedFacts

RInv == IInv /\ UserFacts

\* A list that was no older than its max-age on arrival was not out of date.
LEMMA FreshOnArrival ==
  ASSUME NEW p, NEW arrival \in Nat, Fetched(p, arrival), CameFresh(p)
  PROVE  arrival < OutOfDate(p) /\ OutOfDate(p) \in Int
<1> DEFINE age == p.header.age
           d == arrival - p.born
           limit == MaxAge(p.header)
<1>1. /\ p \in Response /\ p.born \in Nat /\ p.born <= arrival
      /\ age \in Int /\ age = d \div Second /\ age <= limit
  BY DEF Fetched, CameFresh, Response, Header
<1>2. limit \in Nat BY <1>1, MaxAgeType DEF Response
<1>3. d \in Nat BY <1>1
<1>4. Second \in Nat /\ Second > 0 /\ Deadline \in Nat BY ConstantsAssumption
<1> HIDE DEF age, d, limit
<1>5. d < (d \div Second) * Second + Second BY <1>3, <1>4
<1>6. age * Second <= limit * Second BY <1>1, <1>2, <1>4
<1>7. d < limit * Second + Second
  <2> DEFINE x == age * Second
             y == limit * Second
  <2>1. x \in Int /\ y \in Int BY <1>1, <1>2, <1>4
  <2>2. d < x + Second /\ x <= y BY <1>1, <1>5, <1>6
  <2> HIDE DEF x, y
  <2>3. d < y + Second BY <1>3, <1>4, <2>1, <2>2
  <2> QED BY <2>3 DEF y
<1>8. limit * Second \in Int BY <1>2, <1>4
<1>9. OutOfDate(p) = p.born + limit * Second + Deadline + Second BY DEF OutOfDate, limit
<1> QED BY <1>1, <1>4, <1>7, <1>8, <1>9 DEF d

LEMMA InitRInv == RotationInit => RInv
<1> SUFFICES ASSUME RotationInit PROVE RInv OBVIOUS
<1>1. IInv BY InitIInv DEF RotationInit
<1>2. now = 0 /\ MaxTime \in Nat BY ConstantsAssumption DEF RotationInit, Init
<1>3. upc = "start" /\ via = None /\ used = None
  BY DEF RotationInit, User!Init
<1>4. call.token \in Token BY DEF RotationInit, User!Init, User!Accepted
<1> QED BY <1>1, <1>2, <1>3, <1>4 DEF RInv, UserFacts, Verified

\* A step of a request leaves the others and the time as they were.
LEMMA StepIsLocal ==
  ASSUME TypeOK, NEW r \in Request, Step(r)
  PROVE  /\ now' = now
         /\ \A q \in Request \ {r} :
              /\ pc'[q] = pc[q] /\ resp'[q] = resp[q]
              /\ at'[q] = at[q] /\ err'[q] = err[q]
<1>1. \/ \E from, p, e : Finish(r, from, p, e) /\ now' = now
      \/ GetNothing(r)
      \/ \E born \in 0 .. now, a \in Answer : Fetch(r, born, a)
      \/ Goto(r, "body", "set") /\ UNCHANGED <<now, useCache, resp, at, err>>
      \/ Return(r)
  BY DEF Step, GetHit, FetchFails, Decode, Set, SetFails
<1>2. ASSUME NEW from, NEW p, NEW e, Finish(r, from, p, e), NEW q \in Request \ {r}
      PROVE  pc'[q] = pc[q] /\ resp'[q] = resp[q] /\ at'[q] = at[q] /\ err'[q] = err[q]
  BY <1>2 DEF TypeOK, Finish, Goto
<1>3. CASE \E from, p, e : Finish(r, from, p, e) /\ now' = now BY <1>2, <1>3
<1>4. CASE GetNothing(r) BY <1>4 DEF TypeOK, GetNothing, Goto
<1>5. CASE \E born \in 0 .. now, a \in Answer : Fetch(r, born, a)
  BY <1>5 DEF TypeOK, Fetch, Goto
<1>6. CASE Goto(r, "body", "set") /\ UNCHANGED <<now, useCache, resp, at, err>>
  BY <1>6 DEF TypeOK, Goto
<1>7. CASE Return(r) BY <1>7 DEF TypeOK, Return, Goto
<1> QED BY <1>1, <1>3, <1>4, <1>5, <1>6, <1>7

\* Whatever cachedCerts does for the call, what it returns is recent.
LEMMA CallerStep ==
  ASSUME IInv, CallerFacts, started \in 0 .. now, UNCHANGED started, Caller \in Request,
         pc[Caller] # "done", Step(Caller)
  PROVE  CallerFacts'
<1>1. TypeOK /\ now \in Nat /\ started \in Nat /\ started <= now /\ at[Caller] \in Nat
      /\ CallFacts(Caller)
  BY DEF IInv, TypeOK
<1>2. ASSUME pc[Caller] \in {"body", "set"}, CameFresh(resp[Caller])
      PROVE  started < OutOfDate(resp[Caller])
  <2>1. Fetched(resp[Caller], at[Caller]) /\ started <= at[Caller]
    BY <1>1, <1>2 DEF CallFacts, CallerFacts
  <2>2. at[Caller] < OutOfDate(resp[Caller]) /\ OutOfDate(resp[Caller]) \in Int
    BY <1>1, <1>2, <2>1, FreshOnArrival
  <2> QED BY <1>1, <2>1, <2>2
<1>3. ASSUME NEW from, NEW p, NEW e, Finish(Caller, from, p, e),
             e = "nil" /\ CameFresh(p) => started < OutOfDate(p)
      PROVE  CallerFacts'
  <2>1. pc'[Caller] = "done" /\ resp'[Caller] = p /\ err'[Caller] = e
    BY <1>1, <1>3 DEF TypeOK, Finish, Goto
  <2> QED BY <1>3, <2>1 DEF CallerFacts, CameFresh, OutOfDate
<1>4. CASE GetHit(Caller)
  <2>1. /\ item # None /\ now < item.expires
        /\ Finish(Caller, "idle", item.resp, "nil")
        /\ item.resp \in Response /\ item.expires \in Int
        /\ item.expires <= OutOfDate(item.resp)
    BY <1>4 DEF IInv, TypeOK, GetHit, ItemFacts
  <2>2. OutOfDate(item.resp) \in Int
    <3>1. MaxAge(item.resp.header) \in Nat /\ item.resp.born \in Nat
      BY <2>1, MaxAgeType DEF Response
    <3> QED BY <3>1, ConstantsAssumption DEF OutOfDate
  <2>3. started < OutOfDate(item.resp) BY <1>1, <2>1, <2>2
  <2> QED BY <1>3, <2>1, <2>3
<1>5. CASE GetNothing(Caller)
  <2>1. pc'[Caller] = "fetch" BY <1>1, <1>5 DEF TypeOK, GetNothing, Goto
  <2> QED BY <2>1 DEF CallerFacts
<1>6. CASE FetchFails(Caller) BY <1>3, <1>6 DEF FetchFails
<1>7. CASE \E born \in 0 .. now, a \in Answer : Fetch(Caller, born, a)
  <2>1. pc'[Caller] = "body" /\ at'[Caller] = now
    BY <1>1, <1>7 DEF TypeOK, Fetch, Goto
  <2> QED BY <1>1, <2>1 DEF CallerFacts
<1>8. CASE Decode(Caller)
  <2>1. pc[Caller] = "body" BY <1>8 DEF Decode
  <2>2. CASE Finish(Caller, "body", resp[Caller], "not decoded")
    BY <1>3, <2>2
  <2>3. CASE Finish(Caller, "body", resp[Caller], "nil")
    BY <1>2, <1>3, <2>1, <2>3
  <2>4. CASE Goto(Caller, "body", "set") /\ UNCHANGED at
    <3>1. pc'[Caller] = "set" /\ at'[Caller] = at[Caller]
      BY <1>1, <2>4 DEF TypeOK, Goto
    <3> QED BY <2>1, <3>1 DEF CallerFacts
  <2> QED BY <1>8, <2>2, <2>3, <2>4 DEF Decode
<1>9. CASE Set(Caller) \/ SetFails(Caller)
  <2>1. Finish(Caller, "set", resp[Caller], "nil") /\ pc[Caller] = "set"
    BY <1>9 DEF Set, SetFails, Finish, Goto
  <2> QED BY <1>2, <1>3, <2>1
<1>10. CASE Return(Caller) BY <1>10 DEF Return, Goto
<1> QED BY <1>4, <1>5, <1>6, <1>7, <1>8, <1>9, <1>10 DEF Step

\* Every step of the rotation is one of the cache, or leaves it alone.
LEMMA RotationStepIsCacheStep ==
  ASSUME [RotationNext]_rotationVars
  PROVE  [Next]_vars
<1>1. Caller \in Request BY RotationAssumption
<1>2. CASE StartVerifying BY <1>2 DEF StartVerifying
<1>3. CASE \E r \in Request : CertsStep(r) BY <1>3 DEF CertsStep, Next
<1>4. CASE Verify BY <1>1, <1>4 DEF Verify, Next, Step
<1>5. CASE Environment BY <1>5 DEF Environment, Next
<1>6. CASE UNCHANGED rotationVars BY <1>6 DEF rotationVars
<1> QED BY <1>2, <1>3, <1>4, <1>5, <1>6 DEF RotationNext

LEMMA StartUserFacts ==
  ASSUME RInv, ~ Verified, StartVerifying
  PROVE  UserFacts'
<1>1. /\ now \in Nat /\ now' = now /\ now <= MaxTime /\ pc[Caller] = "idle" /\ pc' = pc
      /\ started' = now /\ used' = used
  BY DEF RInv, IInv, TypeOK, UserFacts, StartVerifying, vars
<1>2. /\ read' = now \div Second /\ upc' \in {"certs", "scope"}
      /\ UNCHANGED <<call, via>>
  BY DEF StartVerifying, User!TryIDToken, User!Goto
<1>3. via = None /\ used = None /\ call.token \in Token BY DEF RInv, UserFacts
<1>4. CallerFacts' BY <1>1 DEF CallerFacts
<1>5. UsedFacts' BY <1>1, <1>2, <1>3 DEF UsedFacts
<1> QED BY <1>1, <1>2, <1>3, <1>4, <1>5 DEF UserFacts, Verified

LEMMA CertsUserFacts ==
  ASSUME RInv, ~ Verified, NEW r \in Request, CertsStep(r)
  PROVE  UserFacts'
<1>1. /\ IInv /\ TypeOK /\ Caller \in Request /\ Step(r)
      /\ UNCHANGED <<userVars, started, used>>
  BY RotationAssumption DEF RInv, IInv, CertsStep
<1>2. now' = now BY <1>1, StepIsLocal
<1>3. ASSUME upc = "certs" PROVE CallerFacts'
  <2>1. CallerFacts /\ started \in 0 .. now BY <1>3 DEF RInv, UserFacts
  <2>2. CASE r = Caller BY <1>1, <2>1, <2>2, CallerStep DEF CertsStep
  <2>3. CASE r # Caller
    <3>1. /\ pc'[Caller] = pc[Caller] /\ resp'[Caller] = resp[Caller]
          /\ at'[Caller] = at[Caller] /\ err'[Caller] = err[Caller]
      BY <1>1, <2>3, StepIsLocal
    <3> QED BY <1>1, <2>1, <3>1 DEF CallerFacts, CameFresh, OutOfDate
  <2> QED BY <2>2, <2>3
<1>4. UNCHANGED <<call, upc, read, via, started, used>> BY <1>1 DEF userVars
<1>5. Verified' = Verified BY <1>4 DEF Verified
<1> QED BY <1>2, <1>3, <1>4, <1>5 DEF RInv, UserFacts

LEMMA VerifyUserFacts ==
  ASSUME RInv, ~ Verified, Verify
  PROVE  UserFacts'
<1>1. /\ now \in Nat /\ now' = now /\ now <= MaxTime /\ Caller \in Request
      /\ pc[Caller] = "done" /\ CallFacts(Caller) /\ started' = started
      /\ resp[Caller] \in Response \cup {None}
  BY RotationAssumption DEF RInv, IInv, TypeOK, UserFacts, Verify, Return, Goto
<1>2. upc = "certs" /\ UNCHANGED <<call, read>>
  BY DEF Verify, User!CheckIDToken, User!NoCerts, User!Goto
<1>3. /\ read = started \div Second /\ CallerFacts /\ started \in 0 .. now
      /\ via = None /\ used = None /\ call.token \in Token
  BY <1>2 DEF RInv, UserFacts
<1>4. read \in 0 .. MaxTime \div Second
  <2>1. started \in 0 .. MaxTime BY <1>1, <1>3, ConstantsAssumption
  <2> QED BY <1>3, <2>1, SecondsPassed
<1>5. CASE err[Caller] = "nil"
  <2> DEFINE certs == Published[resp[Caller].born]
  <2>1. used' = resp[Caller] /\ User!CheckIDToken(certs) BY <1>5 DEF Verify
  <2>2. resp[Caller] # None /\ resp[Caller] \in Response /\ resp[Caller].born <= now
    BY <1>1, <1>5 DEF CallFacts
  <2>3. CameFresh(resp[Caller]) => started < OutOfDate(resp[Caller])
    BY <1>1, <1>3, <1>5 DEF CallerFacts
  <2> HIDE DEF certs
  <2>4. /\ upc' \in {"scope", "done"}
        /\ via' = "id token" <=> User!Verifies(certs)
    BY <1>3, <2>1, RotationAssumption DEF User!CheckIDToken, User!Finish, User!Goto
  <2>5. /\ Published[used'.born] = certs
        /\ (User!Verifies(Published[used.born]))' <=> User!Verifies(certs)
    BY <1>2, <2>1 DEF certs, User!Verifies, User!SignatureVerifies, User!TimesVerify,
                      User!verifyParsedToken, User!Wrap
  <2>6. UsedFacts'
    BY <1>1, <1>2, <1>4, <2>1, <2>2, <2>3, <2>4, <2>5 DEF UsedFacts, CameFresh, OutOfDate
  <2>7. upc' \notin {"start", "certs"} BY <2>4
  <2> QED BY <1>1, <1>2, <1>3, <2>4, <2>6, <2>7 DEF UserFacts, Verified
<1>6. CASE err[Caller] # "nil"
  <2>1. used' = None /\ upc' = "scope" /\ via' = None
    BY <1>3, <1>6 DEF Verify, User!NoCerts, User!Goto
  <2>2. UsedFacts' BY <2>1 DEF UsedFacts
  <2> QED BY <1>1, <1>2, <1>3, <2>1, <2>2 DEF UserFacts, Verified
<1> QED BY <1>5, <1>6

\* The rest: evictions, time, and the end.
LEMMA EnvironmentUserFacts ==
  ASSUME RInv, Environment \/ UNCHANGED rotationVars
  PROVE  UserFacts'
<1>1. /\ now \in Nat /\ now' \in Nat /\ now <= now' /\ now' <= MaxTime
      /\ UNCHANGED <<pc, resp, at, err, userVars, started, used>>
  BY ConstantsAssumption
     DEF RInv, IInv, TypeOK, UserFacts, Environment, Evict, Tick, rotationVars, vars
<1>2. UNCHANGED <<call, upc, read, via>> BY <1>1 DEF userVars
<1>3. Verified' = Verified BY <1>2 DEF Verified
<1>4. CallerFacts' = CallerFacts BY <1>1 DEF CallerFacts, CameFresh, OutOfDate
<1>5. ASSUME UsedFacts PROVE UsedFacts'
  <2>1. (User!Verifies(Published[used.born]))' <=> User!Verifies(Published[used.born])
    BY <1>1, <1>2 DEF User!Verifies, User!SignatureVerifies, User!TimesVerify,
                      User!verifyParsedToken, User!Wrap
  <2>2. used # None => used.born \in Nat BY <1>5 DEF UsedFacts, Response
  <2>3. CASE used = None BY <1>1, <1>2, <1>5, <2>3 DEF UsedFacts
  <2>4. CASE used # None
    <3>1. used' # None /\ used' \in Response /\ used'.born <= now'
      <4>1. used' = used /\ used \in Response /\ used.born <= now
        BY <1>1, <1>5, <2>4 DEF UsedFacts
      <4>2. used.born \in Nat BY <2>2, <2>4
      <4>3. used.born <= now' BY <1>1, <4>1, <4>2
      <4> QED BY <2>4, <4>1, <4>3
    <3>2. (CameFresh(used) => started < OutOfDate(used))'
      BY <1>1, <1>5, <2>4 DEF UsedFacts, CameFresh, OutOfDate
    <3>3. (read \in 0 .. MaxTime \div Second)'
      BY <1>2, <1>5, <2>4 DEF UsedFacts
    <3>4. (via = "id token" <=> User!Verifies(Published[used.born]))'
      BY <1>2, <1>5, <2>1, <2>4 DEF UsedFacts
    <3> QED BY <3>1, <3>2, <3>3, <3>4 DEF UsedFacts
  <2> QED BY <2>3, <2>4
<1>6. started \in 0 .. now => started \in 0 .. now' BY <1>1
<1> QED BY <1>1, <1>2, <1>3, <1>4, <1>5, <1>6 DEF RInv, UserFacts

LEMMA NextRInv == RInv /\ [RotationNext]_rotationVars => RInv'
<1> SUFFICES ASSUME RInv, [RotationNext]_rotationVars PROVE RInv' OBVIOUS
<1>1. IInv' BY RotationStepIsCacheStep, NextIInv DEF RInv
<1>2. UserFacts'
  BY StartUserFacts, CertsUserFacts, VerifyUserFacts, EnvironmentUserFacts DEF RotationNext
<1> QED BY <1>1, <1>2 DEF RInv

LEMMA RotationInvariance == RotationSpec => []RInv
BY InitRInv, NextRInv, PTL DEF RotationSpec

-------------------------------------------------------------------------------
(* What the rotation of keys can rely on *)

\* What was published when the response that was used left the server is in the
\* window of both properties.
LEMMA UsedIsRecent ==
  ASSUME RInv, used # None
  PROVE  /\ used.born \in 0 .. MaxTime
         /\ CameFresh(used) => used.born \in Recent(used)
         /\ via = "id token" <=> User!GoodToken(call.token, Published[used.born])
<1>1. Verified /\ UsedFacts BY DEF RInv, UserFacts
<1>2. /\ used \in Response /\ used.born <= now /\ now \in Nat /\ now <= MaxTime
      /\ read \in 0 .. MaxTime \div Second /\ call.token \in Token
  BY <1>1 DEF UsedFacts, RInv, UserFacts, IInv, TypeOK
<1>3. used.born \in Nat /\ used.born \in 0 .. now /\ used.born \in 0 .. MaxTime
  BY <1>2, ConstantsAssumption DEF Response
<1>4. [used EXCEPT !.born = used.born] = used BY <1>2 DEF Response
<1>5. CameFresh(used) => used.born \in Recent(used)
  BY <1>1, <1>3, <1>4 DEF UsedFacts, Recent
<1>6. User!Verifies(Published[used.born]) <=> User!GoodToken(call.token, Published[used.born])
  BY <1>2, <1>3, PublishedVerifiesExactly
<1> QED BY <1>1, <1>3, <1>5, <1>6 DEF UsedFacts

\* A retired key is refused: no call accepts an ID token on the strength of a
\* key that was not published recently, whichever requests filled the cache.
THEOREM RetiredRefused == RotationSpec => []RetiredKeyIsRefused
<1>1. RInv => RetiredKeyIsRefused
  <2> SUFFICES ASSUME RInv, via = "id token", CameFresh(used)
               PROVE  \E t \in Recent(used) : Signs(t)
    BY DEF RetiredKeyIsRefused
  <2>1. used # None BY DEF CameFresh
  <2>2. used.born \in Recent(used) /\ User!GoodToken(call.token, Published[used.born])
    BY <2>1, UsedIsRecent
  <2>3. Signs(used.born) BY <2>2 DEF Signs, User!GoodToken
  <2> QED BY <2>2, <2>3
<1> QED BY <1>1, RotationInvariance, PTL

\* A new key is known: a good token signed with a key that was published
\* throughout that time is accepted, given any certificates.
THEOREM NewKnown == RotationSpec => []NewKeyIsKnown
<1>1. RInv => NewKeyIsKnown
  <2> SUFFICES ASSUME RInv, CameFresh(used),
                      User!GoodToken(call.token, <<call.token.key>>),
                      \A t \in Recent(used) : Signs(t)
               PROVE  via = "id token"
    BY DEF NewKeyIsKnown
  <2>1. used # None BY DEF CameFresh
  <2>2. Signs(used.born) BY <2>1, UsedIsRecent
  <2>3. User!GoodToken(call.token, Published[used.born])
    BY <2>2 DEF Signs, User!GoodToken
  <2> QED BY <2>1, <2>3, UsedIsRecent
<1> QED BY <1>1, RotationInvariance, PTL

-------------------------------------------------------------------------------
(* What the parts promise holds of the whole *)

\* With requests that verify tokens and a provider that changes its keys, the
\* cache is the cache: what was proved of it is true here.
THEOREM RotationFillsCache == RotationSpec => Spec
BY RotationStepIsCacheStep, PTL DEF RotationSpec, RotationInit, Spec

\* No list that a request gets out of memcache is out of date.
THEOREM RotationServesFresh == RotationSpec => ServedIsFresh
BY RotationFillsCache, CacheServesFresh, PTL

\* The seconds of a clock that goes on are the same, or the next.
LEMMA NextSecond ==
  ASSUME NEW t \in Nat
  PROVE  (t + 1) \div Second \in {t \div Second, t \div Second + 1}
<1> DEFINE q == t \div Second
           p == (t + 1) \div Second
<1>1. Second \in Nat /\ Second > 0 BY ConstantsAssumption
<1>2. q \in Nat /\ p \in Nat BY <1>1
<1>3. q * Second <= t /\ t < q * Second + Second BY <1>1
<1>4. p * Second <= t + 1 /\ t + 1 < p * Second + Second BY <1>1
<1> HIDE DEF q, p
<1>5. p >= q
  <2>1. SUFFICES ASSUME p <= q - 1 PROVE FALSE BY <1>2
  <2>2. p * Second <= (q - 1) * Second BY <1>1, <1>2, <2>1
  <2>3. (q - 1) * Second = q * Second - Second BY <1>1, <1>2
  <2>4. q * Second \in Int /\ p * Second \in Int /\ (q - 1) * Second \in Int BY <1>1, <1>2
  <2> QED BY <1>1, <1>3, <1>4, <2>2, <2>3, <2>4
<1>6. p <= q + 1
  <2>1. SUFFICES ASSUME q + 2 <= p PROVE FALSE BY <1>2
  <2>2. (q + 2) * Second <= p * Second BY <1>1, <1>2, <2>1
  <2>3. (q + 2) * Second = q * Second + Second + Second BY <1>1, <1>2
  <2>4. q * Second \in Int /\ p * Second \in Int /\ (q + 2) * Second \in Int BY <1>1, <1>2
  <2> QED BY <1>1, <1>3, <1>4, <2>2, <2>3, <2>4
<1>7. p \in {q, q + 1} BY <1>2, <1>5, <1>6
<1> QED BY <1>7 DEF p, q

LEMMA RotationStepIsUserStep ==
  ASSUME RInv, [RotationNext]_rotationVars
  PROVE  [User!Next]_(User!vars)
<1> USE DEF User!vars
<1>1. ASSUME ~ Verified, StartVerifying PROVE User!Next
  BY <1>1 DEF StartVerifying, User!Next, User!Step
<1>2. ASSUME NEW r \in Request, CertsStep(r) PROVE UNCHANGED User!vars
  <2>1. now' = now BY <1>2, StepIsLocal DEF CertsStep, RInv, IInv
  <2> QED BY <1>2, <2>1 DEF CertsStep, userVars
<1>3. ASSUME ~ Verified, Verify PROVE User!Next
  <2>1. CASE err[Caller] = "nil"
    <3>1. Caller \in Request /\ pc[Caller] = "done" /\ CallFacts(Caller) /\ TypeOK
      BY <1>3, RotationAssumption DEF RInv, IInv, Verify, Return, Goto
    <3>2. resp[Caller] \in Response /\ resp[Caller].born <= now
      BY <2>1, <3>1 DEF CallFacts, TypeOK
    <3>3. resp[Caller].born \in 0 .. MaxTime
      BY <3>1, <3>2, ConstantsAssumption DEF RInv, UserFacts, TypeOK, Response
    <3>4. Published[resp[Caller].born] \in {Published[t] : t \in 0 .. MaxTime}
      BY <3>3
    <3> QED BY <1>3, <2>1, <3>4 DEF Verify, User!Next, User!Step
  <2>2. CASE err[Caller] # "nil"
    BY <1>3, <2>2 DEF Verify, User!Next, User!Step
  <2> QED BY <2>1, <2>2
<1>4. ASSUME ~ Verified, Environment PROVE [User!Next]_(User!vars)
  <2>1. CASE Evict BY <1>4, <2>1 DEF Environment, Evict, userVars
  <2>2. CASE Tick
    <3>1. now \in Nat /\ now' = now + 1 /\ now' \in 0 .. MaxTime /\ UNCHANGED userVars
      BY <1>4, <2>2, ConstantsAssumption DEF RInv, IInv, TypeOK, Environment, Tick
    <3>2. now' \div Second \in 0 .. MaxTime \div Second BY <3>1, SecondsPassed
    <3>3. now' \div Second \in {now \div Second, now \div Second + 1} BY <3>1, NextSecond
    <3>4. now \div Second \in Nat /\ MaxTime \div Second \in Nat
      BY <3>1, ConstantsAssumption
    <3>5. CASE now' \div Second = now \div Second BY <3>1, <3>5 DEF userVars
    <3>6. CASE now' \div Second = now \div Second + 1
      <4>1. now \div Second < MaxTime \div Second BY <3>2, <3>4, <3>6
      <4>2. upc \notin {"done", "panic"} BY <1>4 DEF Verified
      <4>3. User!Tick BY <3>1, <3>6, <4>1, <4>2 DEF User!Tick, userVars
      <4> QED BY <4>3 DEF User!Next
    <3> QED BY <3>3, <3>5, <3>6
  <2> QED BY <1>4, <2>1, <2>2 DEF Environment
<1>5. CASE UNCHANGED rotationVars BY <1>5 DEF rotationVars, vars, userVars
<1> QED BY <1>1, <1>2, <1>3, <1>4, <1>5 DEF RotationNext

\* A call of CurrentUser that gets its certificates from the shared cache is a
\* call of CurrentUser: the lists it may get, the failures and the time that
\* passes meanwhile are among those that CurrentUser.tla allows for.
THEOREM RotationIsCurrentUser == RotationSpec => User!Spec
<1>1. RotationInit => User!Init BY DEF RotationInit
<1> QED BY <1>1, RotationInvariance, RotationStepIsUserStep, PTL DEF RotationSpec, User!Spec

\* CurrentUserProofs is about the steps of CurrentUser.
LEMMA SameUser == [User!Next]_(User!vars) => [UserProofs!Next]_(UserProofs!vars)
<1> USE DEF User!Goto, UserProofs!Goto, User!Finish, UserProofs!Finish, User!Ask, UserProofs!Ask
<1>1. User!Refuse \/ User!TryIDToken \/ User!TryBearerToken => UserProofs!Step
  BY DEF User!Refuse, User!TryIDToken, User!TryBearerToken, User!Accepted, User!TriesIDToken,
         User!HasInfo, UserProofs!HasInfo, UserProofs!Refuse, UserProofs!TryIDToken, UserProofs!TryBearerToken,
         UserProofs!Accepted, UserProofs!TriesIDToken, UserProofs!Step
<1>2. ASSUME NEW certs \in {Published[t] : t \in 0 .. MaxTime}, User!CheckIDToken(certs)
      PROVE  UserProofs!Step
  <2>1. User!Verifies(certs) <=> UserProofs!Verifies(certs)
    BY DEF User!Verifies, User!SignatureVerifies, User!TimesVerify, User!verifyParsedToken,
           User!Wrap, UserProofs!Verifies, UserProofs!SignatureVerifies, UserProofs!TimesVerify,
           UserProofs!verifyParsedToken, UserProofs!Wrap
  <2>2. UserProofs!CheckIDToken(certs)
    BY <1>2, <2>1 DEF User!CheckIDToken, UserProofs!CheckIDToken
  <2> QED BY <2>2 DEF UserProofs!Step
<1>3. User!NoCerts \/ User!NilCerts => UserProofs!Step
  BY DEF User!NoCerts, User!NilCerts, UserProofs!NoCerts, UserProofs!NilCerts, UserProofs!Step
<1>4. User!NoScopeLeft \/ User!ScopeCached \/ User!ScopeAnswered \/ User!ScopeFails
        => UserProofs!Step
  BY DEF User!NoScopeLeft, User!ScopeCached, User!ScopeAnswered, User!ScopeFails,
         User!AskForClient, User!Keep, UserProofs!NoScopeLeft, UserProofs!ScopeCached,
         UserProofs!ScopeAnswered, UserProofs!ScopeFails, UserProofs!AskForClient,
         UserProofs!Keep, UserProofs!Step
<1>5. User!CheckClient \/ User!CachedUser \/ User!UserAnswered => UserProofs!Step
  BY DEF User!CheckClient, User!CachedUser, User!UserAnswered, User!Keep,
         UserProofs!CheckClient, UserProofs!CachedUser, UserProofs!UserAnswered,
         UserProofs!Keep, UserProofs!Step
<1>6. User!Tick \/ User!Stopped => UserProofs!Tick \/ UserProofs!Stopped
  BY DEF User!Tick, User!Stopped, User!vars, UserProofs!Tick, UserProofs!Stopped, UserProofs!vars
<1>7. UNCHANGED User!vars => UNCHANGED UserProofs!vars
  BY DEF User!vars, UserProofs!vars
<1>8. User!OtherGoroutine => UserProofs!OtherGoroutine
  BY DEF User!OtherGoroutine, UserProofs!OtherGoroutine
<1> QED
  BY <1>1, <1>2, <1>3, <1>4, <1>5, <1>6, <1>7, <1>8 DEF User!Next, User!Step, UserProofs!Next

\* An ID token that is accepted with certificates out of the shared cache is in
\* its window, but for the seconds that passed since the call read the time.
THEOREM RotationInTime == RotationSpec => []User!AcceptedInTime
<1>1. UserProofs!Spec => []UserProofs!AcceptedInTime
  BY UserProofs!InTime, UserAssumption, RotationAssumption
<1>2. User!Init => UserProofs!Init
  BY DEF User!Init, UserProofs!Init
<1>3. [User!Next]_(User!vars) => [UserProofs!Next]_(UserProofs!vars)
  BY SameUser
<1>4. UserProofs!AcceptedInTime => User!AcceptedInTime
  BY DEF User!AcceptedInTime, UserProofs!AcceptedInTime
<1> QED BY <1>1, <1>2, <1>3, <1>4, RotationIsCurrentUser, PTL DEF User!Spec, UserProofs!Spec
===============================================================================
