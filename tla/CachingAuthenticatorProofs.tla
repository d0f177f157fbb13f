---------------------- MODULE CachingAuthenticatorProofs ----------------------
(***************************************************************************)
(* The caching authenticator, for any number of goroutines and scopes: the *)
(* mutex makes the cache the last answer of the service, which no other    *)
(* goroutine can destroy between store and read, and a client that was     *)
(* checked is the client of the user that a later call returns.            *)
(***************************************************************************)
EXTENDS CachingAuthenticator, SequenceTheorems, TLAPS

Arguments == [scopes : ScopeLists, clientIDs : SUBSET Client]
Inside == {"locked", "rpc", "read"}

\* The conjuncts of TypeOK, except the ones about the cache.
Typed ==
  /\ mutex \in Goroutine \cup {None}
  /\ granted \subseteq Scope
  /\ pc \in [Goroutine -> PC]
  /\ call \in [Goroutine -> Arguments \cup {None}]
  /\ next \in [Goroutine -> Nat \ {0}]
  /\ checked \in [Goroutine -> BOOLEAN]
  /\ res \in [Goroutine -> User \cup {None}]
  /\ err \in [Goroutine -> Error]
  /\ last \in [scope : Scope, ok : BOOLEAN] \cup {None}

\* The mutex is held by the goroutine that is inside, if there is one.
Exclusive == \A g \in Goroutine : pc[g] \in Inside <=> mutex = g

\* A call asks for one of its scopes; an answer is the user of that scope, and
\* the client of a scope that was checked is one of clientIDs.
Own(g) ==
  /\ pc[g] = "idle" => next[g] = 1
  /\ pc[g] # "idle" => call[g] \in Arguments
  /\ pc[g] \notin {"idle", "done"} => next[g] \in 1 .. Len(call[g].scopes)
  /\ pc[g] = "answered" /\ err[g] = "nil" => res[g] = UserOf(Asked(g))
  /\ checked[g] =>
       /\ pc[g] # "idle"
       /\ next[g] \in 1 .. Len(call[g].scopes)
       /\ ClientOf[Asked(g)] \in call[g].clientIDs
  /\ pc[g] = "done" /\ err[g] = "nil" => checked[g] /\ res[g] = UserOf(Asked(g))

LastScope == IF last # None /\ last.ok THEN {last.scope} ELSE {}

\* The cache has users of their scopes alone.  It is empty while the service
\* is asked, and holds the last answer at any other time.
CacheFacts ==
  /\ DOMAIN cache \subseteq Scope
  /\ cache = [s \in DOMAIN cache |-> UserOf(s)]
  /\ (\A g \in Goroutine : pc[g] # "rpc") => DOMAIN cache = LastScope
  /\ \A g \in Goroutine : pc[g] = "rpc" => DOMAIN cache = {}
  /\ \A g \in Goroutine : pc[g] = "read" => Asked(g) \in DOMAIN cache

IInv ==
  /\ Typed
  /\ Exclusive
  /\ \A g \in Goroutine : Own(g)
  /\ CacheFacts

-------------------------------------------------------------------------------
LEMMA UserOfIsUser ==
  ASSUME NEW s \in Scope
  PROVE  /\ UserOf(s) \in User
         /\ UserOf(s) # None
         /\ UserOf(s).client = ClientOf[s]
BY ConstantsAssumption DEF UserOf, User

LEMMA AnswerIsSome ==
  ASSUME NEW s \in Scope
  PROVE  [scope |-> s, ok |-> TRUE] # None
<1>1. [scope |-> s, ok |-> TRUE] \in [scope : Scope, ok : BOOLEAN] OBVIOUS
<1> QED BY <1>1, ConstantsAssumption

LEMMA FirstScope ==
  ASSUME NEW scopes \in Seq(Scope), scopes # <<>>
  PROVE  1 \in 1 .. Len(scopes)
<1>1. Len(scopes) \in Nat \ {0} BY EmptySeq
<1> QED BY <1>1

LEMMA ScopesAreScopes ==
  ASSUME NEW a \in Arguments
  PROVE  a.scopes \in Seq(Scope) /\ Len(a.scopes) \in Nat
<1>1. a.scopes \in ScopeLists BY DEF Arguments
<1>2. a.scopes \in Seq(Scope) BY <1>1, ConstantsAssumption
<1> QED BY <1>2

\* A goroutine that is in a call asks for a scope.
LEMMA AskedIsScope ==
  ASSUME NEW g \in Goroutine, call[g] \in Arguments, next[g] \in 1 .. Len(call[g].scopes)
  PROVE  Asked(g) \in Scope
BY ScopesAreScopes DEF Asked

LEMMA InitIInv == Init => IInv
<1> SUFFICES ASSUME Init PROVE IInv OBVIOUS
<1>1. Typed BY DEF Init, Typed, PC, Error
<1>2. Exclusive BY ConstantsAssumption DEF Init, Exclusive, Inside
<1>3. \A g \in Goroutine : Own(g) BY DEF Init, Own
<1>4. CacheFacts BY DEF Init, CacheFacts, LastScope, Empty
<1> QED BY <1>1, <1>2, <1>3, <1>4 DEF IInv

\* The facts about a goroutine last while its own variables do.
LEMMA OwnStays ==
  ASSUME NEW g \in Goroutine, Own(g),
         pc'[g] = pc[g], call'[g] = call[g], next'[g] = next[g],
         checked'[g] = checked[g], res'[g] = res[g], err'[g] = err[g]
  PROVE  Own(g)'
BY DEF Own, Asked, UserOf

\* The facts about the cache last while nobody starts to ask or to read back.
LEMMA CacheFactsStay ==
  ASSUME CacheFacts, cache' = cache, last' = last,
         \A h \in Goroutine : pc'[h] = "rpc" <=> pc[h] = "rpc",
         \A h \in Goroutine : pc'[h] = "read" => pc[h] = "read" /\ Asked(h)' = Asked(h)
  PROVE  CacheFacts'
<1>1. LastScope' = LastScope BY DEF LastScope
<1> QED BY <1>1 DEF CacheFacts, UserOf

-------------------------------------------------------------------------------
LEMMA NextIInv == IInv /\ [Next]_vars => IInv'
<1> SUFFICES ASSUME IInv, [Next]_vars PROVE IInv' OBVIOUS
<1> USE DEF Goto, progress
<1>1. ASSUME NEW g \in Goroutine, NEW scopes \in ScopeLists, NEW ids \in SUBSET Client,
             Call(g, scopes, ids)
      PROVE  IInv'
  <2>1. Typed' BY <1>1 DEF IInv, Typed, Call, Arguments, PC, Error
  <2>2. Exclusive' BY <1>1 DEF IInv, Typed, Exclusive, Inside, Call
  <2>3. \A h \in Goroutine : Own(h)'
    <3> TAKE h \in Goroutine
    <3>1. CASE h # g BY <1>1, <3>1, OwnStays DEF IInv, Typed, Call
    <3>2. CASE h = g
      <4>1. /\ scopes \in Seq(Scope)
            /\ call'[g] = [scopes |-> scopes, clientIDs |-> ids]
            /\ next'[g] = next[g] /\ ~ checked'[g]
            /\ \/ pc'[g] = "done" /\ err'[g] = "no valid scope"
               \/ pc'[g] = "lock" /\ scopes # <<>>
        BY <1>1, ConstantsAssumption DEF IInv, Typed, Own, Call
      <4>2. next[g] = 1 BY <1>1 DEF IInv, Own, Call
      <4>3. scopes # <<>> => 1 \in 1 .. Len(scopes)  BY <4>1, FirstScope
      <4>4. call'[g] \in Arguments /\ call'[g].scopes = scopes
        BY <1>1 DEF IInv, Typed, Call, Arguments
      <4> QED BY <3>2, <4>1, <4>2, <4>3, <4>4 DEF Own
    <3> QED BY <3>1, <3>2
  <2>4. CacheFacts'
    <3>1. /\ cache' = cache /\ last' = last
          /\ \A h \in Goroutine : pc'[h] = "rpc" <=> pc[h] = "rpc"
      BY <1>1 DEF IInv, Typed, Call
    <3>2. \A h \in Goroutine : pc'[h] = "read" => pc[h] = "read" /\ Asked(h)' = Asked(h)
      BY <1>1 DEF IInv, Typed, Asked, Call
    <3> QED BY <3>1, <3>2, CacheFactsStay DEF IInv
  <2> QED BY <2>1, <2>2, <2>3, <2>4 DEF IInv
<1>2. ASSUME NEW g \in Goroutine, Lock(g)
      PROVE  IInv'
  <2>1. Typed' BY <1>2 DEF IInv, Typed, Lock, PC
  <2>2. Exclusive' BY <1>2, ConstantsAssumption DEF IInv, Typed, Exclusive, Inside, Lock
  <2>3. \A h \in Goroutine : Own(h)'
    <3> TAKE h \in Goroutine
    <3>1. CASE h # g BY <1>2, <3>1, OwnStays DEF IInv, Typed, Lock
    <3>2. CASE h = g BY <1>2, <3>2 DEF IInv, Typed, Own, Asked, Lock
    <3> QED BY <3>1, <3>2
  <2>4. CacheFacts'
    <3>1. /\ cache' = cache /\ last' = last
          /\ \A h \in Goroutine : pc'[h] = "rpc" <=> pc[h] = "rpc"
      BY <1>2 DEF IInv, Typed, Lock
    <3>2. \A h \in Goroutine : pc'[h] = "read" => pc[h] = "read" /\ Asked(h)' = Asked(h)
      BY <1>2 DEF IInv, Typed, Asked, Lock
    <3> QED BY <3>1, <3>2, CacheFactsStay DEF IInv
  <2> QED BY <2>1, <2>2, <2>3, <2>4 DEF IInv
<1>3. ASSUME NEW g \in Goroutine, Hit(g)
      PROVE  IInv'
  <2>0. Asked(g) \in Scope /\ cache[Asked(g)] = UserOf(Asked(g))
    BY <1>3, AskedIsScope DEF IInv, CacheFacts, Own, Hit
  <2>1. Typed' BY <1>3, <2>0, UserOfIsUser DEF IInv, Typed, Hit, PC, Error
  <2>2. Exclusive' BY <1>3, ConstantsAssumption DEF IInv, Typed, Exclusive, Inside, Hit
  <2>3. \A h \in Goroutine : Own(h)'
    <3> TAKE h \in Goroutine
    <3>1. CASE h # g BY <1>3, <3>1, OwnStays DEF IInv, Typed, Hit
    <3>2. CASE h = g BY <1>3, <2>0, <3>2 DEF IInv, Typed, Own, Asked, UserOf, Hit
    <3> QED BY <3>1, <3>2
  <2>4. CacheFacts'
    <3>1. /\ cache' = cache /\ last' = last
          /\ \A h \in Goroutine : pc'[h] = "rpc" <=> pc[h] = "rpc"
      BY <1>3 DEF IInv, Typed, Hit
    <3>2. \A h \in Goroutine : pc'[h] = "read" => pc[h] = "read" /\ Asked(h)' = Asked(h)
      BY <1>3 DEF IInv, Typed, Asked, Hit
    <3> QED BY <3>1, <3>2, CacheFactsStay DEF IInv
  <2> QED BY <2>1, <2>2, <2>3, <2>4 DEF IInv
<1>4. ASSUME NEW g \in Goroutine, Miss(g)
      PROVE  IInv'
  <2>1. Typed' BY <1>4 DEF IInv, Typed, Miss, PC
  <2>2. Exclusive' BY <1>4 DEF IInv, Typed, Exclusive, Inside, Miss
  <2>3. \A h \in Goroutine : Own(h)'
    <3> TAKE h \in Goroutine
    <3>1. CASE h # g BY <1>4, <3>1, OwnStays DEF IInv, Typed, Miss
    <3>2. CASE h = g BY <1>4, <3>2 DEF IInv, Typed, Own, Asked, Miss
    <3> QED BY <3>1, <3>2
  <2>4. CacheFacts'
    <3>1. cache' = [s \in {} |-> None] /\ DOMAIN cache' = {} BY <1>4 DEF Miss, Empty
    <3>2. pc'[g] = "rpc" BY <1>4 DEF IInv, Typed, Miss
    <3>3. \A h \in Goroutine : pc'[h] # "read"
      BY <1>4 DEF IInv, Typed, Exclusive, Inside, Miss
    <3> QED BY <3>1, <3>2, <3>3 DEF CacheFacts, UserOf
  <2> QED BY <2>1, <2>2, <2>3, <2>4 DEF IInv
<1>5. ASSUME NEW g \in Goroutine, Answer(g)
      PROVE  IInv'
  <2>0. Asked(g) \in Scope BY <1>5, AskedIsScope DEF IInv, Own, Answer
  <2>1. Typed' BY <1>5, <2>0 DEF IInv, Typed, Answer, PC
  <2>2. Exclusive' BY <1>5 DEF IInv, Typed, Exclusive, Inside, Answer
  <2>3. \A h \in Goroutine : Own(h)'
    <3> TAKE h \in Goroutine
    <3>1. CASE h # g BY <1>5, <3>1, OwnStays DEF IInv, Typed, Answer
    <3>2. CASE h = g BY <1>5, <3>2 DEF IInv, Typed, Own, Asked, Answer
    <3> QED BY <3>1, <3>2
  <2>4. CacheFacts'
    <3>1. DOMAIN cache = {} BY <1>5 DEF IInv, CacheFacts, Answer
    <3>2. cache' = [s \in {Asked(g)} |-> UserOf(s)] BY <1>5, <3>1 DEF Answer
    <3>3. \A h \in Goroutine : pc'[h] \in Inside <=> h = g
      BY <1>5 DEF IInv, Typed, Exclusive, Inside, Answer
    <3>4. pc'[g] = "read" /\ Asked(g)' = Asked(g) BY <1>5 DEF IInv, Typed, Answer, Asked
    <3>5. LastScope' = {Asked(g)} 
      BY <1>5, <2>0, AnswerIsSome DEF Answer, LastScope
    <3> QED BY <2>0, <3>2, <3>3, <3>4, <3>5 DEF CacheFacts, Inside, UserOf
  <2> QED BY <2>1, <2>2, <2>3, <2>4 DEF IInv
<1>6. ASSUME NEW g \in Goroutine, Fail(g)
      PROVE  IInv'
  <2>0. Asked(g) \in Scope BY <1>6, AskedIsScope DEF IInv, Own, Fail
  <2>1. Typed' BY <1>6, <2>0 DEF IInv, Typed, Fail, PC, Error
  <2>2. Exclusive' BY <1>6, ConstantsAssumption DEF IInv, Typed, Exclusive, Inside, Fail
  <2>3. \A h \in Goroutine : Own(h)'
    <3> TAKE h \in Goroutine
    <3>1. CASE h # g BY <1>6, <3>1, OwnStays DEF IInv, Typed, Fail
    <3>2. CASE h = g BY <1>6, <3>2 DEF IInv, Typed, Own, Asked, Fail
    <3> QED BY <3>1, <3>2
  <2>4. CacheFacts'
    <3>1. DOMAIN cache = {} /\ cache' = cache BY <1>6 DEF IInv, CacheFacts, Fail
    <3>2. \A h \in Goroutine : pc'[h] \notin Inside
      BY <1>6 DEF IInv, Typed, Exclusive, Inside, Fail
    <3>3. LastScope' = {} BY <1>6 DEF Fail, LastScope
    <3> QED BY <3>1, <3>2, <3>3 DEF IInv, CacheFacts, Inside, UserOf
  <2> QED BY <2>1, <2>2, <2>3, <2>4 DEF IInv
<1>7. ASSUME NEW g \in Goroutine, ReadBack(g)
      PROVE  IInv'
  <2>0. Asked(g) \in Scope BY <1>7, AskedIsScope DEF IInv, Own, ReadBack
  <2>a. res' = [res EXCEPT ![g] = UserOf(Asked(g))]
    BY <1>7 DEF IInv, CacheFacts, ReadBack
  <2>1. Typed'
    <3>1. res' \in [Goroutine -> User \cup {None}]
      BY <2>0, <2>a, UserOfIsUser DEF IInv, Typed
    <3>2. pc' \in [Goroutine -> PC] /\ err' \in [Goroutine -> Error]
      BY <1>7 DEF IInv, Typed, ReadBack, PC, Error
    <3> QED BY <1>7, <3>1, <3>2 DEF IInv, Typed, ReadBack
  <2>2. Exclusive' BY <1>7, ConstantsAssumption DEF IInv, Typed, Exclusive, Inside, ReadBack
  <2>3. \A h \in Goroutine : Own(h)'
    <3> TAKE h \in Goroutine
    <3>1. CASE h # g BY <1>7, <3>1, OwnStays DEF IInv, Typed, ReadBack
    <3>2. CASE h = g BY <1>7, <2>a, <3>2 DEF IInv, Typed, Own, Asked, UserOf, ReadBack
    <3> QED BY <3>1, <3>2
  <2>4. CacheFacts'
    <3>1. /\ cache' = cache /\ last' = last
          /\ \A h \in Goroutine : pc'[h] = "rpc" <=> pc[h] = "rpc"
      BY <1>7 DEF IInv, Typed, ReadBack
    <3>2. \A h \in Goroutine : pc'[h] = "read" => pc[h] = "read" /\ Asked(h)' = Asked(h)
      BY <1>7 DEF IInv, Typed, Asked, ReadBack
    <3> QED BY <3>1, <3>2, CacheFactsStay DEF IInv
  <2> QED BY <2>1, <2>2, <2>3, <2>4 DEF IInv
<1>8. ASSUME NEW g \in Goroutine, NextScope(g)
      PROVE  IInv'
  <2>1. Typed'
    <3>1. next' \in [Goroutine -> Nat \ {0}]
      <4>1. next' = next \/ next' = [next EXCEPT ![g] = next[g] + 1]
        BY <1>8 DEF NextScope
      <4>2. next \in [Goroutine -> Nat \ {0}] /\ next[g] + 1 \in Nat \ {0}
        BY DEF IInv, Typed
      <4> QED BY <4>1, <4>2
    <3>2. pc' \in [Goroutine -> PC] /\ err' \in [Goroutine -> Error]
      BY <1>8 DEF IInv, Typed, NextScope, PC, Error
    <3> QED BY <1>8, <3>1, <3>2 DEF IInv, Typed, NextScope
  <2>2. Exclusive' BY <1>8 DEF IInv, Typed, Exclusive, Inside, NextScope
  <2>3. \A h \in Goroutine : Own(h)'
    <3> TAKE h \in Goroutine
    <3>1. CASE h # g BY <1>8, <3>1, OwnStays DEF IInv, Typed, NextScope
    <3>2. CASE h = g
      <4>1. Len(call[g].scopes) \in Nat
        BY <1>8, ScopesAreScopes DEF IInv, Own, NextScope
      <4>2. UNCHANGED <<call, checked, res>> /\ call[g] \in Arguments /\ ~ checked[g]
        BY <1>8 DEF IInv, Own, NextScope
      <4>3. CASE next[g] < Len(call[g].scopes)
        <5>1. next[g] \in Nat \ {0} /\ next[g] # Len(call[g].scopes)
          BY <4>1, <4>3 DEF IInv, Typed
        <5>2. pc' = [pc EXCEPT ![g] = "lock"] /\ next' = [next EXCEPT ![g] = next[g] + 1]
          BY <1>8, <5>1 DEF NextScope
        <5>3. pc'[g] = "lock" /\ next'[g] = next[g] + 1 BY <5>2 DEF IInv, Typed
        <5>4. next'[g] \in 1 .. Len(call[g].scopes) BY <4>1, <4>3, <5>1, <5>3
        <5> QED BY <3>2, <4>2, <5>3, <5>4 DEF Own
      <4>4. CASE ~ next[g] < Len(call[g].scopes)
        <5>1. pc'[g] = "done" /\ err'[g] = "no valid scope"
          BY <1>8, <4>4 DEF IInv, Typed, NextScope
        <5> QED BY <3>2, <4>2, <5>1 DEF Own
      <4> QED BY <4>3, <4>4
    <3> QED BY <3>1, <3>2
  <2>4. CacheFacts'
    <3>1. \A h \in Goroutine : h # g => Asked(h)' = Asked(h)
      BY <1>8 DEF IInv, Typed, Asked, NextScope
    <3>2. /\ cache' = cache /\ last' = last
          /\ \A h \in Goroutine : pc'[h] = "rpc" <=> pc[h] = "rpc"
          /\ \A h \in Goroutine : pc'[h] = "read" => pc[h] = "read" /\ h # g
      BY <1>8 DEF IInv, Typed, NextScope
    <3> QED BY <3>1, <3>2, CacheFactsStay DEF IInv
  <2> QED BY <2>1, <2>2, <2>3, <2>4 DEF IInv
<1>9. ASSUME NEW g \in Goroutine, CheckClient(g)
      PROVE  IInv'
  <2>1. Typed' BY <1>9 DEF IInv, Typed, CheckClient, PC, Error
  <2>2. Exclusive' BY <1>9 DEF IInv, Typed, Exclusive, Inside, CheckClient
  <2>3. \A h \in Goroutine : Own(h)'
    <3> TAKE h \in Goroutine
    <3>1. CASE h # g BY <1>9, <3>1, OwnStays DEF IInv, Typed, CheckClient
    <3>2. CASE h = g
      <4>1. res[g].client = ClientOf[Asked(g)]
        BY <1>9, AskedIsScope, UserOfIsUser DEF IInv, Own, CheckClient
      <4> QED BY <1>9, <3>2, <4>1 DEF IInv, Typed, Own, Asked, CheckClient
    <3> QED BY <3>1, <3>2
  <2>4. CacheFacts'
    <3>1. /\ cache' = cache /\ last' = last
          /\ \A h \in Goroutine : pc'[h] = "rpc" <=> pc[h] = "rpc"
      BY <1>9 DEF IInv, Typed, CheckClient
    <3>2. \A h \in Goroutine : pc'[h] = "read" => pc[h] = "read" /\ Asked(h)' = Asked(h)
      BY <1>9 DEF IInv, Typed, Asked, CheckClient
    <3> QED BY <3>1, <3>2, CacheFactsStay DEF IInv
  <2> QED BY <2>1, <2>2, <2>3, <2>4 DEF IInv
<1>10. ASSUME NEW g \in Goroutine, ReturnUser(g)
       PROVE  IInv'
  <2>1. Typed' BY <1>10 DEF IInv, Typed, ReturnUser, PC
  <2>2. Exclusive' BY <1>10 DEF IInv, Typed, Exclusive, Inside, ReturnUser
  <2>3. \A h \in Goroutine : Own(h)'
    <3> TAKE h \in Goroutine
    <3>1. CASE h # g BY <1>10, <3>1, OwnStays DEF IInv, Typed, ReturnUser
    <3>2. CASE h = g BY <1>10, <3>2 DEF IInv, Typed, Own, Asked, UserOf, ReturnUser
    <3> QED BY <3>1, <3>2
  <2>4. CacheFacts'
    <3>1. /\ cache' = cache /\ last' = last
          /\ \A h \in Goroutine : pc'[h] = "rpc" <=> pc[h] = "rpc"
      BY <1>10 DEF IInv, Typed, ReturnUser
    <3>2. \A h \in Goroutine : pc'[h] = "read" => pc[h] = "read" /\ Asked(h)' = Asked(h)
      BY <1>10 DEF IInv, Typed, Asked, ReturnUser
    <3> QED BY <3>1, <3>2, CacheFactsStay DEF IInv
  <2> QED BY <2>1, <2>2, <2>3, <2>4 DEF IInv
<1>11. ASSUME (\E s \in Scope : ChangeGrant(s)) \/ UNCHANGED vars
       PROVE  IInv'
  <2>0. /\ UNCHANGED <<cache, mutex, pc, call, next, checked, res, err, last>>
        /\ granted' \subseteq Scope
    BY <1>11 DEF IInv, Typed, ChangeGrant, vars
  <2>1. Typed' BY <2>0 DEF IInv, Typed
  <2>2. Exclusive' BY <2>0 DEF IInv, Exclusive
  <2>3. \A h \in Goroutine : Own(h)' BY <2>0, OwnStays DEF IInv
  <2>4. CacheFacts'
    <3>1. \A h \in Goroutine : Asked(h)' = Asked(h) BY <2>0 DEF Asked
    <3> QED BY <2>0, <3>1, CacheFactsStay DEF IInv
  <2> QED BY <2>1, <2>2, <2>3, <2>4 DEF IInv
<1> QED
  BY <1>1, <1>2, <1>3, <1>4, <1>5, <1>6, <1>7, <1>8, <1>9, <1>10, <1>11 DEF Next, Step

\* Every reachable state is in the invariant.
THEOREM Invariance == Spec => []IInv
BY InitIInv, NextIInv, PTL DEF Spec

-------------------------------------------------------------------------------
\* Every variable keeps its type; the users in the cache are users of scopes.
THEOREM TypeCorrect == Spec => []TypeOK
<1>1. IInv => TypeOK
  <2> SUFFICES ASSUME IInv PROVE TypeOK OBVIOUS
  <2>1. DOMAIN cache \subseteq Scope /\ cache \in [DOMAIN cache -> User]
    BY UserOfIsUser DEF IInv, CacheFacts
  <2> QED BY <2>1 DEF IInv, Typed, TypeOK, Arguments
<1> QED BY <1>1, Invariance, PTL

\* An answer without error carries a user, whoever else uses the cache.
THEOREM AnswerHasUser == Spec => []NoNilUser
<1>1. IInv => NoNilUser
  <2> SUFFICES ASSUME IInv, NEW g \in Goroutine, pc[g] = "answered", err[g] = "nil"
               PROVE  res[g] # None
    BY DEF NoNilUser
  <2>1. Asked(g) \in Scope BY AskedIsScope DEF IInv, Own
  <2> QED BY <2>1, UserOfIsUser DEF IInv, Own
<1> QED BY <1>1, Invariance, PTL

\* The user returned has the client that was checked, and is the user of one of
\* the caller's scopes.
THEOREM ReturnsAllowedUser == Spec => []ReturnedUserIsAllowed
<1>1. IInv => ReturnedUserIsAllowed
  <2> SUFFICES ASSUME IInv, NEW g \in Goroutine, pc[g] = "done", err[g] = "nil"
               PROVE  /\ res[g].client \in call[g].clientIDs
                      /\ \E i \in 1 .. Len(call[g].scopes) :
                           res[g] = UserOf(call[g].scopes[i])
    BY DEF ReturnedUserIsAllowed
  <2>1. /\ next[g] \in 1 .. Len(call[g].scopes)
        /\ res[g] = UserOf(Asked(g))
        /\ ClientOf[Asked(g)] \in call[g].clientIDs
    BY DEF IInv, Own
  <2>2. Asked(g) \in Scope BY <2>1, AskedIsScope DEF IInv, Own
  <2> QED BY <2>1, <2>2, UserOfIsUser DEF Asked
<1> QED BY <1>1, Invariance, PTL

\* While nobody is inside, the cache holds the last answer of the service alone.
THEOREM CacheHoldsLastAnswer == Spec => []CacheIsLastAnswer
<1>1. IInv => CacheIsLastAnswer
  <2> SUFFICES ASSUME IInv, mutex = None PROVE DOMAIN cache = LastScope
    BY DEF CacheIsLastAnswer, LastScope
  <2>1. \A g \in Goroutine : pc[g] # "rpc"
    BY ConstantsAssumption DEF IInv, Exclusive, Inside
  <2> QED BY <2>1 DEF IInv, CacheFacts
<1> QED BY <1>1, Invariance, PTL

\* The service is not asked again for what it answered last.
THEOREM AsksOnlyForMore == Spec => NoRedundantFetch
<1>1. IInv /\ [Next]_vars =>
        [\A g \in Goroutine :
           pc[g] = "locked" /\ pc'[g] = "rpc" =>
             last # [scope |-> Asked(g), ok |-> TRUE]]_vars
  <2> SUFFICES ASSUME IInv, Next, NEW g \in Goroutine, pc[g] = "locked", pc'[g] = "rpc",
                      last = [scope |-> Asked(g), ok |-> TRUE]
               PROVE  FALSE
    OBVIOUS
  <2>1. Miss(g)
    BY DEF Next, Step, IInv, Typed, Goto, Call, Lock, Hit, Miss, Answer, Fail, ReadBack,
           NextScope, CheckClient, ReturnUser, ChangeGrant
  <2>2. \A h \in Goroutine : pc[h] # "rpc" BY DEF IInv, Exclusive, Inside
  <2>3. last # None BY AskedIsScope, AnswerIsSome DEF IInv, Own
  <2>4. DOMAIN cache = {Asked(g)} BY <2>2, <2>3 DEF IInv, CacheFacts, LastScope
  <2> QED BY <2>1, <2>4 DEF Miss
<1> QED BY <1>1, Invariance, PTL DEF Spec, NoRedundantFetch

-------------------------------------------------------------------------------
(* The refinement of LastAnswer *)

\* The service is asked only for what it did not answer last.
Fresh == \A g \in Goroutine : pc[g] = "rpc" => last # [scope |-> Asked(g), ok |-> TRUE]

\* A goroutine that finds the mutex free finds the last answer in the cache.
LEMMA CacheIsMemory ==
  ASSUME IInv, NEW g \in Goroutine, pc[g] = "locked"
  PROVE  /\ Asked(g) \in Scope
         /\ Asked(g) \in DOMAIN cache <=> last = [scope |-> Asked(g), ok |-> TRUE]
<1>1. Asked(g) \in Scope
  BY AskedIsScope DEF IInv, Own
<1>2. \A h \in Goroutine : pc[h] # "rpc"
  BY DEF IInv, Exclusive, Inside
<1>3. DOMAIN cache = LastScope
  BY <1>2 DEF IInv, CacheFacts
<1>4. CASE last = None
  BY <1>1, <1>3, <1>4, AnswerIsSome DEF LastScope
<1>5. CASE last # None
  <2>1. last \in [scope : Scope, ok : BOOLEAN]
    BY <1>5 DEF IInv, Typed
  <2>2. last = [scope |-> last.scope, ok |-> last.ok] /\ last.ok \in BOOLEAN
    BY <2>1
  <2>3. Asked(g) \in DOMAIN cache <=> last.ok /\ last.scope = Asked(g)
    BY <1>3, <1>5 DEF LastScope
  <2>4. last = [scope |-> Asked(g), ok |-> TRUE] => last.ok /\ last.scope = Asked(g)
    OBVIOUS
  <2>5. last.ok /\ last.scope = Asked(g) => last = [scope |-> Asked(g), ok |-> TRUE]
    BY <2>2
  <2> QED BY <1>1, <2>3, <2>4, <2>5
<1> QED BY <1>1, <1>4, <1>5

LEMMA NextFresh == IInv /\ Fresh /\ [Next]_vars => Fresh'
<1> SUFFICES ASSUME IInv, Fresh, [Next]_vars, NEW h \in Goroutine, pc'[h] = "rpc"
             PROVE  last' # [scope |-> Asked(h)', ok |-> TRUE]
  BY DEF Fresh
<1> USE DEF Goto, progress
<1>1. ASSUME NEW g \in Goroutine, Miss(g) PROVE last' # [scope |-> Asked(h)', ok |-> TRUE]
  <2>1. pc[g] = "locked" /\ Asked(g) \notin DOMAIN cache /\ UNCHANGED <<last, call, next>>
    BY <1>1 DEF Miss
  <2>2. last' # [scope |-> Asked(g)', ok |-> TRUE]
    BY <2>1, CacheIsMemory DEF Asked
  <2>3. h = g \/ pc[h] = "rpc"
    BY <1>1 DEF Miss, IInv, Typed
  <2>4. pc[h] # "rpc"
    BY <2>1 DEF IInv, Exclusive, Inside
  <2> QED BY <2>2, <2>3, <2>4
<1>2. ASSUME NEW g \in Goroutine, Answer(g) \/ Fail(g) PROVE FALSE
  <2>1. pc[g] = "rpc" /\ pc' = [pc EXCEPT ![g] = pc'[g]] /\ pc'[g] # "rpc"
    BY <1>2 DEF Answer, Fail, IInv, Typed
  <2>2. pc[h] = "rpc" /\ h # g
    BY <2>1 DEF IInv, Typed
  <2> QED BY <2>1, <2>2 DEF IInv, Exclusive, Inside
<1>3. ASSUME UNCHANGED last, pc[h] = "rpc", call'[h] = call[h], next'[h] = next[h]
      PROVE  last' # [scope |-> Asked(h)', ok |-> TRUE]
  BY <1>3 DEF Fresh, Asked
<1>4. ASSUME NEW g \in Goroutine, NEW scopes \in ScopeLists, NEW ids \in SUBSET Client,
             Call(g, scopes, ids)
      PROVE  last' # [scope |-> Asked(h)', ok |-> TRUE]
  BY <1>3, <1>4 DEF Call, IInv, Typed
<1>5. ASSUME NEW g \in Goroutine, Lock(g) \/ Hit(g) \/ ReadBack(g)
      PROVE  last' # [scope |-> Asked(h)', ok |-> TRUE]
  BY <1>3, <1>5 DEF Lock, Hit, ReadBack, IInv, Typed
<1>6. ASSUME NEW g \in Goroutine, NextScope(g) \/ CheckClient(g) \/ ReturnUser(g)
      PROVE  last' # [scope |-> Asked(h)', ok |-> TRUE]
  BY <1>3, <1>6 DEF NextScope, CheckClient, ReturnUser, IInv, Typed
<1>7. ASSUME (\E s \in Scope : ChangeGrant(s)) \/ UNCHANGED vars
      PROVE  last' # [scope |-> Asked(h)', ok |-> TRUE]
  BY <1>3, <1>7 DEF ChangeGrant, vars
<1> QED BY <1>1, <1>2, <1>4, <1>5, <1>6, <1>7 DEF Next, Step

\* The steps of a goroutine concern its own question and reply.
Alone(g) ==
  \A h \in Goroutine \ {g} :
    /\ pc'[h] = pc[h] /\ call'[h] = call[h] /\ next'[h] = next[h]
    /\ res'[h] = res[h] /\ err'[h] = err[h]

LEMMA OwnQuestion ==
  ASSUME NEW g \in Goroutine, Alone(g)
  PROVE  /\ questions' = [questions EXCEPT ![g] = questions'[g]]
         /\ replies' = [replies EXCEPT ![g] = replies'[g]]
BY DEF questions, replies, Alone, Asked, UserOf

LEMMA SameQuestion ==
  ASSUME NEW g \in Goroutine, Alone(g),
         questions'[g] = questions[g], replies'[g] = replies[g], UNCHANGED <<granted, last>>
  PROVE  UNCHANGED Memory!memoryVars
<1>1. /\ questions' = [questions EXCEPT ![g] = questions[g]]
      /\ replies' = [replies EXCEPT ![g] = replies[g]]
  BY OwnQuestion
<1>2. UNCHANGED <<questions, replies>>
  BY <1>1 DEF questions, replies
<1> QED BY <1>2 DEF Memory!memoryVars

\* A goroutine that has its answer takes it, and asks again or returns.
LEMMA TakesAnswer ==
  ASSUME IInv', NEW g \in Goroutine, Alone(g), UNCHANGED <<granted, last>>,
         pc[g] \in {"idle", "answered"}, pc'[g] \in {"lock", "done"}
  PROVE  Memory!Ask(g)
<1>1. questions[g] = None
  BY DEF questions
<1>2. replies'[g] = None
  BY DEF replies
<1>3. questions'[g] \in Scope \cup {None}
  <2>1. CASE pc'[g] = "lock"
    <3>1. Own(g)'
      BY DEF IInv
    <3>2. call'[g] \in Arguments /\ next'[g] \in 1 .. Len(call'[g].scopes)
      BY <2>1, <3>1 DEF Own
    <3>3. call'[g].scopes \in Seq(Scope)
      BY <3>2, ScopesAreScopes
    <3>4. Asked(g)' \in Scope
      BY <3>2, <3>3 DEF Asked
    <3> QED BY <2>1, <3>4 DEF questions
  <2>2. CASE pc'[g] = "done"
    BY <2>2 DEF questions
  <2> QED BY <2>1, <2>2
<1>4. /\ questions' = [questions EXCEPT ![g] = questions'[g]]
      /\ replies' = [replies EXCEPT ![g] = None]
  BY <1>2, OwnQuestion
<1> QED BY <1>1, <1>3, <1>4 DEF Memory!Ask

LEMMA StepRefines ==
  ASSUME IInv, IInv', Fresh, NEW g \in Goroutine, Step(g)
  PROVE  Memory!Ask(g) \/ Memory!Remember(g) \/ Memory!Fetch(g) \/ UNCHANGED Memory!memoryVars
<1> USE DEF Goto, progress
<1>1. CASE Lock(g)
  <2>1. Alone(g) /\ pc[g] = "lock" /\ pc'[g] = "locked" /\ Asked(g)' = Asked(g)
    BY <1>1 DEF Lock, IInv, Typed, Alone, Asked
  <2>2. questions'[g] = questions[g] /\ replies'[g] = replies[g]
    BY <2>1 DEF questions, replies
  <2> QED BY <1>1, <2>1, <2>2, SameQuestion DEF Lock
<1>2. CASE Miss(g)
  <2>1. Alone(g) /\ pc[g] = "locked" /\ pc'[g] = "rpc" /\ Asked(g)' = Asked(g)
    BY <1>2 DEF Miss, IInv, Typed, Alone, Asked
  <2>2. questions'[g] = questions[g] /\ replies'[g] = replies[g]
    BY <2>1 DEF questions, replies
  <2> QED BY <1>2, <2>1, <2>2, SameQuestion DEF Miss
<1>3. CASE ReadBack(g)
  <2>1. /\ Alone(g) /\ pc[g] = "read" /\ pc'[g] = "answered" /\ err'[g] = "nil"
        /\ res'[g] = UserOf(Asked(g))
    BY <1>3 DEF ReadBack, IInv, Typed, CacheFacts, Alone
  <2>2. questions'[g] = questions[g] /\ replies'[g] = replies[g]
    BY <2>1 DEF questions, replies
  <2> QED BY <1>3, <2>1, <2>2, SameQuestion DEF ReadBack
<1>4. CASE Hit(g)
  <2>1. /\ Alone(g) /\ pc[g] = "locked" /\ pc'[g] = "answered" /\ err'[g] = "nil"
        /\ Asked(g) \in DOMAIN cache /\ res'[g] = UserOf(Asked(g))
        /\ UNCHANGED <<granted, last>>
    BY <1>4 DEF Hit, IInv, Typed, CacheFacts, Alone
  <2>2. last = [scope |-> Asked(g), ok |-> TRUE] /\ Asked(g) \in Scope
    BY <2>1, CacheIsMemory
  <2>3. questions[g] = Asked(g) /\ questions'[g] = None /\ replies'[g] = UserOf(Asked(g))
    BY <2>1 DEF questions, replies
  <2>4. Asked(g) # None
    BY <2>2, ConstantsAssumption
  <2>5. Memory!Reply(g, [s \in Scope |-> UserOf(s)][questions[g]])
    BY <2>1, <2>2, <2>3, <2>4, OwnQuestion DEF Memory!Reply
  <2>6. Memory!Remembered(g)
    BY <2>2, <2>3 DEF Memory!Remembered
  <2> QED BY <2>1, <2>5, <2>6 DEF Memory!Remember
<1>5. CASE Answer(g)
  <2>1. /\ Alone(g) /\ pc[g] = "rpc" /\ pc'[g] = "read" /\ Asked(g)' = Asked(g)
        /\ Asked(g) \in granted /\ UNCHANGED granted
        /\ last' = [scope |-> Asked(g), ok |-> TRUE]
    BY <1>5 DEF Answer, IInv, Typed, Alone, Asked
  <2>2. Asked(g) \in Scope /\ Asked(g) # None
    BY <2>1, ConstantsAssumption DEF IInv, Typed
  <2>3. questions[g] = Asked(g) /\ questions'[g] = None /\ replies'[g] = UserOf(Asked(g))
    BY <2>1 DEF questions, replies, UserOf
  <2>4. Memory!Reply(g, [s \in Scope |-> UserOf(s)][questions[g]])
    BY <2>1, <2>2, <2>3, OwnQuestion DEF Memory!Reply
  <2>5. ~ Memory!Remembered(g)
    BY <2>1, <2>3 DEF Memory!Remembered, Fresh
  <2> QED BY <2>1, <2>3, <2>4, <2>5 DEF Memory!Fetch
<1>6. CASE Fail(g)
  <2>1. /\ Alone(g) /\ pc[g] = "rpc" /\ pc'[g] = "answered" /\ err'[g] = "service"
        /\ UNCHANGED granted /\ last' = [scope |-> Asked(g), ok |-> FALSE]
    BY <1>6 DEF Fail, IInv, Typed, Alone
  <2>2. Asked(g) \in Scope /\ Asked(g) # None
    BY <2>1, AskedIsScope, ConstantsAssumption DEF IInv, Own
  <2>3. questions[g] = Asked(g) /\ questions'[g] = None /\ replies'[g] = None
    BY <2>1 DEF questions, replies
  <2>4. Memory!Reply(g, None)
    BY <2>1, <2>2, <2>3, OwnQuestion DEF Memory!Reply
  <2>5. ~ Memory!Remembered(g)
    BY <2>1, <2>3 DEF Memory!Remembered, Fresh
  <2> QED BY <2>1, <2>3, <2>4, <2>5 DEF Memory!Fetch
<1>7. CASE NextScope(g) \/ CheckClient(g) \/ ReturnUser(g)
  <2>1. /\ Alone(g) /\ pc[g] = "answered" /\ pc'[g] \in {"lock", "done"}
        /\ UNCHANGED <<granted, last>>
    BY <1>7 DEF NextScope, CheckClient, ReturnUser, IInv, Typed, Alone
  <2> QED BY <2>1, TakesAnswer
<1> QED BY <1>1, <1>2, <1>3, <1>4, <1>5, <1>6, <1>7 DEF Step

\* The cache, its mutex and the steps of asking, storing and reading back are
\* one memory of the service's last answer, in which every question of any
\* number of goroutines has its reply at one instant.
THEOREM ImplementsLastAnswerSafety == Spec => Memory!Spec
<1>1. Init => Fresh /\ Memory!Init
  BY DEF Init, Fresh, Memory!Init, questions, replies
<1>2. IInv /\ IInv' /\ Fresh /\ [Next]_vars => [Memory!Next]_(Memory!memoryVars)
  <2> SUFFICES ASSUME IInv, IInv', Fresh, [Next]_vars
               PROVE  Memory!Next \/ UNCHANGED Memory!memoryVars
    OBVIOUS
  <2>1. ASSUME NEW g \in Goroutine, NEW scopes \in ScopeLists, NEW ids \in SUBSET Client,
               Call(g, scopes, ids)
        PROVE  Memory!Ask(g)
    <3>1. /\ Alone(g) /\ UNCHANGED <<granted, last>>
          /\ pc[g] = "idle" /\ pc'[g] \in {"lock", "done"}
      BY <2>1 DEF Call, Goto, IInv, Typed, Alone
    <3> QED BY <3>1, TakesAnswer
  <2>2. ASSUME NEW s \in Scope, ChangeGrant(s) PROVE Memory!ChangeGrant
    <3>1. UNCHANGED <<last, pc, call, next, res, err>> /\ granted' \in SUBSET Scope
      BY <2>2 DEF ChangeGrant, progress, IInv, Typed
    <3>2. UNCHANGED <<questions, replies>>
      BY <3>1 DEF questions, replies, Asked, UserOf
    <3> QED BY <3>1, <3>2 DEF Memory!ChangeGrant
  <2>3. CASE UNCHANGED vars
    <3>1. UNCHANGED <<granted, last, pc, call, next, res, err>>
      BY <2>3 DEF vars
    <3>2. UNCHANGED <<questions, replies>>
      BY <3>1 DEF questions, replies, Asked, UserOf
    <3> QED BY <3>1, <3>2 DEF Memory!memoryVars
  <2> QED BY <2>1, <2>2, <2>3, StepRefines DEF Next, Memory!Next
<1> QED BY <1>1, <1>2, Invariance, NextFresh, PTL DEF Spec, Memory!Spec
===============================================================================
