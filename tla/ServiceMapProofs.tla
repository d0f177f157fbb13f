--------------------------- MODULE ServiceMapProofs ---------------------------
(***************************************************************************)
(* The registry's properties for every set of goroutines, receivers and    *)
(* names.  Inductive, of ServiceMap.tla, holds initially and is preserved  *)
(* by every step; the invariants, the action property and the refinement   *)
(* of ServiceDirectory follow from it.                                     *)
(***************************************************************************)
EXTENDS ServiceMap, TLAPS

Request == [name : Name, bind : RPCService \cup {None}]

\* A call of register or of a lookup is by exactly one kind of goroutine, and
\* None is none of the values it stands apart from.
LEMMA Distinct ==
  /\ Registrar \cap Reader = {}
  /\ None \notin Caller
  /\ None \notin RPCService
  /\ None \notin Method
  /\ \A q \in Request : q # None /\ q.name \in Name /\ q.bind \in RPCService \cup {None}
  /\ BackendService \in RPCService
BY ConstantsAssumption DEF Request, BackendService, RPCService

LEMMA InitInductive == Init => Inductive
<1> SUFFICES ASSUME Init PROVE Inductive
  OBVIOUS
<1>1. TypeOK
  BY Distinct DEF Init, TypeOK, Error, PC, Caller
<1>2. HolderIsInside
  BY Distinct DEF Init, HolderIsInside, Holding
<1>3. RegisterProgress
  BY DEF Init, RegisterProgress, RegisterFacts, Caller
<1>4. LookupProgress
  BY DEF Init, LookupProgress, LookupFacts, Caller
<1>5. UnmadeIsEmpty
  BY DEF Init, UnmadeIsEmpty
<1> QED
  BY <1>1, <1>2, <1>3, <1>4, <1>5 DEF Inductive

LEMMA RegisterRejectInductive ==
  ASSUME Inductive, NEW r \in Registrar, NEW v \in Srv, RegisterReject(r, v)
  PROVE  Inductive'
<1> USE DEF RegisterReject, Return, Goto
<1>1. TypeOK'
  BY DEF Inductive, TypeOK, Error, PC, Caller
<1>2. HolderIsInside'
  BY DEF Inductive, TypeOK, HolderIsInside, Holding, Caller
<1>3. RegisterProgress'
  <2> SUFFICES ASSUME NEW q \in Registrar
               PROVE  RegisterFacts(q)'
    BY DEF RegisterProgress
  <2>1. RegisterFacts(q)
    BY DEF Inductive, RegisterProgress
  <2>2. CASE q = r
    BY <2>1, <2>2 DEF Inductive, TypeOK, RegisterFacts, Caller
  <2>3. CASE q # r
    BY <2>1, <2>3 DEF Inductive, TypeOK, RegisterFacts, Caller
  <2> QED
    BY <2>2, <2>3
<1>4. LookupProgress'
  BY Distinct DEF Inductive, TypeOK, LookupProgress, LookupFacts, Caller
<1>5. UnmadeIsEmpty'
  BY DEF Inductive, UnmadeIsEmpty
<1> QED
  BY <1>1, <1>2, <1>3, <1>4, <1>5 DEF Inductive

LEMMA RegisterBuildInductive ==
  ASSUME Inductive, NEW r \in Registrar, NEW v \in Srv, RegisterBuild(r, v)
  PROVE  Inductive'
<1> DEFINE q == [name |-> NameOf[v], bind |-> [by |-> r, srv |-> v]]
<1> USE DEF RegisterBuild, Goto
<1>0. q \in Request /\ q.bind \in RPCService /\ q.bind.by = r
  BY ConstantsAssumption DEF Request, RPCService
<1>1. TypeOK'
  BY <1>0 DEF Inductive, TypeOK, Request, PC, Caller
<1>2. HolderIsInside'
  BY DEF Inductive, TypeOK, HolderIsInside, Holding, Caller
<1>3. RegisterProgress'
  BY <1>0, Distinct DEF Inductive, TypeOK, RegisterProgress, RegisterFacts, Caller
<1>4. LookupProgress'
  BY Distinct DEF Inductive, TypeOK, LookupProgress, LookupFacts, Caller
<1>5. UnmadeIsEmpty'
  BY DEF Inductive, UnmadeIsEmpty
<1> QED
  BY <1>1, <1>2, <1>3, <1>4, <1>5 DEF Inductive

LEMMA LockInductive ==
  ASSUME Inductive,
         NEW c \in Caller,
         \/ c \in Registrar /\ Lock(c, "check")
         \/ c \in Reader /\ Lock(c, "read")
  PROVE  Inductive'
<1> USE DEF Lock, Goto
<1>1. TypeOK'
  BY DEF Inductive, TypeOK, PC
<1>2. HolderIsInside'
  BY Distinct DEF Inductive, TypeOK, HolderIsInside, Holding
<1>3. RegisterProgress'
  BY Distinct DEF Inductive, TypeOK, RegisterProgress, RegisterFacts, Caller
<1>4. LookupProgress'
  BY Distinct DEF Inductive, TypeOK, LookupProgress, LookupFacts, Caller
<1>5. UnmadeIsEmpty'
  BY DEF Inductive, UnmadeIsEmpty
<1> QED
  BY <1>1, <1>2, <1>3, <1>4, <1>5 DEF Inductive

LEMMA RegisterCheckInductive ==
  ASSUME Inductive, NEW r \in Registrar, RegisterCheck(r)
  PROVE  Inductive'
<1> USE DEF RegisterCheck, Goto
<1>1. TypeOK'
  BY DEF Inductive, TypeOK, PC, Error, Caller
<1>2. HolderIsInside'
  BY DEF Inductive, TypeOK, HolderIsInside, Holding, Caller
<1>a. want[r] # None
  BY DEF Inductive, RegisterProgress, RegisterFacts
<1>0. want[r] \in Request
  BY <1>a DEF Inductive, TypeOK, Request, Caller
<1>3. RegisterProgress'
  <2> SUFFICES ASSUME NEW q \in Registrar
               PROVE  RegisterFacts(q)'
    BY DEF RegisterProgress
  <2>1. RegisterFacts(q)
    BY DEF Inductive, RegisterProgress
  <2>2. CASE q = r
    <3>1. CASE services[want[r].name] = None
      BY <1>0, <2>1, <2>2, <3>1 DEF Inductive, TypeOK, UnmadeIsEmpty, RegisterFacts, Caller
    <3>2. CASE services[want[r].name] # None
      BY <1>0, <2>1, <2>2, <3>2 DEF Inductive, TypeOK, UnmadeIsEmpty, RegisterFacts, Caller
    <3> QED
      BY <3>1, <3>2
  <2>3. CASE q # r
    BY <2>1, <2>3 DEF Inductive, TypeOK, RegisterFacts, Caller
  <2> QED
    BY <2>2, <2>3
<1>4. LookupProgress'
  BY Distinct DEF Inductive, TypeOK, LookupProgress, LookupFacts, Caller
<1>5. UnmadeIsEmpty'
  BY DEF Inductive, UnmadeIsEmpty
<1> QED
  BY <1>1, <1>2, <1>3, <1>4, <1>5 DEF Inductive

LEMMA RegisterInsertInductive ==
  ASSUME Inductive, NEW r \in Registrar, RegisterInsert(r)
  PROVE  Inductive'
<1> USE DEF RegisterInsert, Goto
<1>0. /\ want[r] \in Request
      /\ want[r].bind \in RPCService
      /\ made
      /\ services[want[r].name] = None
  BY DEF Inductive, TypeOK, RegisterProgress, RegisterFacts, Request, Caller
<1>1. TypeOK'
  BY <1>0, Distinct DEF Inductive, TypeOK, PC, Error, Caller
<1>2. HolderIsInside'
  BY DEF Inductive, TypeOK, HolderIsInside, Holding, Caller
<1>3. \A s \in Registrar \ {r} : pc[s] # "insert"
  BY DEF Inductive, HolderIsInside, Holding, Caller
<1>4. RegisterProgress'
  BY <1>0, <1>3, Distinct DEF Inductive, TypeOK, RegisterProgress, RegisterFacts, Request, Caller
<1>5. LookupProgress'
  BY <1>0, Distinct DEF Inductive, TypeOK, LookupProgress, LookupFacts, Request, Caller
<1>6. UnmadeIsEmpty'
  BY <1>0 DEF UnmadeIsEmpty
<1> QED
  BY <1>1, <1>2, <1>4, <1>5, <1>6 DEF Inductive

LEMMA RegisterUnlockInductive ==
  ASSUME Inductive, NEW r \in Registrar, RegisterUnlock(r)
  PROVE  Inductive'
<1> USE DEF RegisterUnlock, Goto
<1>1. TypeOK'
  BY DEF Inductive, TypeOK, PC
<1>2. HolderIsInside'
  BY Distinct DEF Inductive, TypeOK, HolderIsInside, Holding, Caller
<1>3. RegisterProgress'
  BY DEF Inductive, TypeOK, RegisterProgress, RegisterFacts, Caller
<1>4. LookupProgress'
  BY Distinct DEF Inductive, TypeOK, LookupProgress, LookupFacts, Caller
<1>5. UnmadeIsEmpty'
  BY DEF Inductive, UnmadeIsEmpty
<1> QED
  BY <1>1, <1>2, <1>3, <1>4, <1>5 DEF Inductive

LEMMA GetIllFormedInductive ==
  ASSUME Inductive, NEW c \in Reader, GetIllFormed(c)
  PROVE  Inductive'
<1> USE DEF GetIllFormed, Return, Goto
<1>1. TypeOK'
  BY DEF Inductive, TypeOK, PC, Error, Caller
<1>2. HolderIsInside'
  BY DEF Inductive, TypeOK, HolderIsInside, Holding, Caller
<1>3. RegisterProgress'
  BY Distinct DEF Inductive, TypeOK, RegisterProgress, RegisterFacts, Caller
<1>4. LookupProgress'
  <2> SUFFICES ASSUME NEW d \in Reader
               PROVE  LookupFacts(d)'
    BY DEF LookupProgress
  <2>1. LookupFacts(d)
    BY DEF Inductive, LookupProgress
  <2>2. CASE d = c
    BY <2>1, <2>2 DEF Inductive, TypeOK, LookupFacts, Caller
  <2>3. CASE d # c
    BY <2>1, <2>3 DEF Inductive, TypeOK, LookupFacts, Caller
  <2> QED
    BY <2>2, <2>3
<1>5. UnmadeIsEmpty'
  BY DEF Inductive, UnmadeIsEmpty
<1> QED
  BY <1>1, <1>2, <1>3, <1>4, <1>5 DEF Inductive

LEMMA LookupCallInductive ==
  ASSUME Inductive,
         NEW c \in Reader, NEW n \in Name, NEW m \in Method \cup {None},
         LookupCall(c, n, m)
  PROVE  Inductive'
<1> DEFINE q == [name |-> n, bind |-> None]
<1> USE DEF LookupCall, Goto
<1>0. q \in Request
  BY DEF Request
<1>1. TypeOK'
  BY <1>0 DEF Inductive, TypeOK, PC, Request, Caller
<1>2. HolderIsInside'
  BY DEF Inductive, TypeOK, HolderIsInside, Holding, Caller
<1>3. RegisterProgress'
  BY Distinct DEF Inductive, TypeOK, RegisterProgress, RegisterFacts, Caller
<1>4. LookupProgress'
  BY <1>0, Distinct DEF Inductive, TypeOK, LookupProgress, LookupFacts, Caller
<1>5. UnmadeIsEmpty'
  BY DEF Inductive, UnmadeIsEmpty
<1> QED
  BY <1>1, <1>2, <1>3, <1>4, <1>5 DEF Inductive

LEMMA LookupReadInductive ==
  ASSUME Inductive, NEW c \in Reader, LookupRead(c)
  PROVE  Inductive'
<1> USE DEF LookupRead, Goto
<1>a. want[c] # None
  BY DEF Inductive, LookupProgress, LookupFacts
<1>0. want[c] \in Request
  BY <1>a DEF Inductive, TypeOK, Request, Caller
<1>1. TypeOK'
  BY <1>0, Distinct DEF Inductive, TypeOK, PC, Caller
<1>2. HolderIsInside'
  BY DEF Inductive, TypeOK, HolderIsInside, Holding, Caller
<1>3. RegisterProgress'
  BY Distinct DEF Inductive, TypeOK, RegisterProgress, RegisterFacts, Caller
<1>4. LookupProgress'
  BY <1>a, Distinct DEF Inductive, TypeOK, LookupProgress, LookupFacts, Caller
<1>5. UnmadeIsEmpty'
  BY DEF Inductive, UnmadeIsEmpty
<1> QED
  BY <1>1, <1>2, <1>3, <1>4, <1>5 DEF Inductive

LEMMA LookupUnlockInductive ==
  ASSUME Inductive, NEW c \in Reader, LookupUnlock(c)
  PROVE  Inductive'
<1> USE DEF LookupUnlock, Return, Goto
<1>1. TypeOK'
  BY DEF Inductive, TypeOK, PC, Error, Caller
<1>2. HolderIsInside'
  BY Distinct DEF Inductive, TypeOK, HolderIsInside, Holding, Caller
<1>3. RegisterProgress'
  BY Distinct DEF Inductive, TypeOK, RegisterProgress, RegisterFacts, Caller
<1>4. LookupProgress'
  BY Distinct DEF Inductive, TypeOK, LookupProgress, LookupFacts, Caller
<1>5. UnmadeIsEmpty'
  BY DEF Inductive, UnmadeIsEmpty
<1> QED
  BY <1>1, <1>2, <1>3, <1>4, <1>5 DEF Inductive

LEMMA GetResolveInductive ==
  ASSUME Inductive, NEW c \in Reader, GetResolve(c)
  PROVE  Inductive'
<1> USE DEF GetResolve, Return, Goto
<1>1. TypeOK'
  BY DEF Inductive, TypeOK, PC, Error, Caller
<1>2. HolderIsInside'
  BY DEF Inductive, TypeOK, HolderIsInside, Holding, Caller
<1>3. RegisterProgress'
  <2> SUFFICES ASSUME NEW q \in Registrar
               PROVE  RegisterFacts(q)'
    BY DEF RegisterProgress
  <2>1. RegisterFacts(q)
    BY DEF Inductive, RegisterProgress
  <2>2. pc[q]' = pc[q] /\ err[q]' = err[q]
    BY Distinct DEF Inductive, TypeOK, Caller
  <2> QED
    BY <2>1, <2>2 DEF RegisterFacts
<1>4. LookupProgress'
  <2> SUFFICES ASSUME NEW d \in Reader
               PROVE  LookupFacts(d)'
    BY DEF LookupProgress
  <2>1. LookupFacts(d)
    BY DEF Inductive, LookupProgress
  <2>2. CASE d = c
    BY <2>1, <2>2 DEF Inductive, TypeOK, LookupFacts, HasMethod, Caller
  <2>3. CASE d # c
    BY <2>1, <2>3 DEF Inductive, TypeOK, LookupFacts, HasMethod, Caller
  <2> QED
    BY <2>2, <2>3
<1>5. UnmadeIsEmpty'
  BY DEF Inductive, UnmadeIsEmpty
<1> QED
  BY <1>1, <1>2, <1>3, <1>4, <1>5 DEF Inductive

LEMMA StutterInductive ==
  ASSUME Inductive, UNCHANGED vars
  PROVE  Inductive'
<1> USE DEF vars
<1>1. TypeOK'
  BY DEF Inductive, TypeOK
<1>2. HolderIsInside'
  BY DEF Inductive, HolderIsInside
<1>3. RegisterProgress'
  BY DEF Inductive, RegisterProgress, RegisterFacts
<1>4. LookupProgress'
  BY DEF Inductive, LookupProgress, LookupFacts, HasMethod
<1>5. UnmadeIsEmpty'
  BY DEF Inductive, UnmadeIsEmpty
<1> QED
  BY <1>1, <1>2, <1>3, <1>4, <1>5 DEF Inductive

LEMMA NextInductive == Inductive /\ [Next]_vars => Inductive'
<1> SUFFICES ASSUME Inductive, [Next]_vars PROVE Inductive'
  OBVIOUS
<1>1. ASSUME NEW r \in Registrar, Register(r) PROVE Inductive'
  <2>1. CASE \E v \in Srv \ {BackendSrv} : RegisterReject(r, v)
    BY <2>1, RegisterRejectInductive
  <2>2. CASE \E v \in Srv \ {BackendSrv} : RegisterBuild(r, v)
    BY <2>2, RegisterBuildInductive
  <2>3. CASE Lock(r, "check")
    BY <2>3, LockInductive DEF Caller
  <2>4. CASE RegisterCheck(r)
    BY <2>4, RegisterCheckInductive
  <2>5. CASE RegisterInsert(r)
    BY <2>5, RegisterInsertInductive
  <2>6. CASE RegisterUnlock(r)
    BY <2>6, RegisterUnlockInductive
  <2> QED
    BY <1>1, <2>1, <2>2, <2>3, <2>4, <2>5, <2>6 DEF Register
<1>2. ASSUME NEW c \in Reader, LookUp(c) PROVE Inductive'
  <2>1. CASE GetIllFormed(c)
    BY <2>1, GetIllFormedInductive
  <2>2. CASE \E n \in Name, m \in Method \cup {None} : LookupCall(c, n, m)
    BY <2>2, LookupCallInductive
  <2>3. CASE Lock(c, "read")
    BY <2>3, LockInductive DEF Caller
  <2>4. CASE LookupRead(c)
    BY <2>4, LookupReadInductive
  <2>5. CASE LookupUnlock(c)
    BY <2>5, LookupUnlockInductive
  <2>6. CASE GetResolve(c)
    BY <2>6, GetResolveInductive
  <2> QED
    BY <1>2, <2>1, <2>2, <2>3, <2>4, <2>5, <2>6 DEF LookUp
<1>3. CASE AllReturned
  BY <1>3, StutterInductive DEF AllReturned
<1>4. CASE UNCHANGED vars
  BY <1>4, StutterInductive
<1> QED
  BY <1>1, <1>2, <1>3, <1>4 DEF Next

-------------------------------------------------------------------------------
(* Invariants *)

THEOREM InductiveInvariant == Spec => []Inductive
<1>1. Init => Inductive
  BY InitInductive
<1>2. Inductive /\ [Next]_vars => Inductive'
  BY NextInductive
<1> QED
  BY <1>1, <1>2, PTL DEF Spec

\* Every variable of the registry keeps its type: no call ever holds a value
\* it did not build or read.
THEOREM TypeCorrect == Spec => []TypeOK
<1>1. Inductive => TypeOK
  BY DEF Inductive
<1> QED
  BY <1>1, InductiveInvariant, PTL

\* However many calls of register for one type name race, at most one returns
\* without error, and its service is the registered one.
THEOREM OneWinner == Spec => []OneWinnerPerName
<1>1. Inductive => OneWinnerPerName
  <2> SUFFICES ASSUME Inductive PROVE OneWinnerPerName
    OBVIOUS
  <2>1. ASSUME NEW r \in Registrar, Registered(r)
        PROVE  /\ services[want[r].name] = got[r]
               /\ got[r].by = r
    BY <2>1 DEF Inductive, RegisterProgress, RegisterFacts, Registered
  <2> QED
    BY <2>1 DEF OneWinnerPerName
<1> QED
  BY <1>1, InductiveInvariant, PTL

\* What get returns is still registered, although it finished without the
\* lock.
THEOREM ResolvedStaysCurrent == Spec => []ResolvedIsCurrent
<1>1. Inductive => ResolvedIsCurrent
  BY DEF Inductive, LookupProgress, LookupFacts, ResolvedIsCurrent, HasMethod
<1> QED
  BY <1>1, InductiveInvariant, PTL

-------------------------------------------------------------------------------
(* Steps *)

\* What is in the map stays as it is, whatever step is taken.
LEMMA EntriesStay ==
  ASSUME Inductive, [Next]_vars, NEW n \in Name, services[n] # None
  PROVE  services'[n] = services[n]
<1>1. CASE services' = services
  BY <1>1
<1>2. CASE \E r \in Registrar : RegisterInsert(r)
  <2> PICK r \in Registrar : RegisterInsert(r)
    BY <1>2
  <2>1. services[want[r].name] = None
    BY DEF RegisterInsert, Goto, Inductive, RegisterProgress, RegisterFacts
  <2> QED
    BY <2>1 DEF RegisterInsert, Inductive, TypeOK
<1> QED
  BY <1>1, <1>2
  DEF Next, Register, RegisterReject, RegisterBuild, Lock, RegisterCheck,
      RegisterUnlock, LookUp, GetIllFormed, LookupCall, LookupRead,
      LookupUnlock, GetResolve, AllReturned, vars

\* A registered service is never replaced nor removed, by any call.
THEOREM Permanence == Spec => EntriesArePermanent
<1>1. Inductive /\ [Next]_vars =>
        [\A n \in Name : services[n] # None => services'[n] = services[n]]_vars
  BY EntriesStay
<1> QED
  BY <1>1, InductiveInvariant, PTL DEF Spec, EntriesArePermanent

-------------------------------------------------------------------------------
(* Refinement *)

LEMMA InitRefines == Init => Directory!Init
<1> SUFFICES ASSUME Init PROVE Directory!Init
  OBVIOUS
<1>1. services \in [Name -> RPCService \cup {None}]
  BY Distinct DEF Init
<1>2. TookEffect = {}
  BY DEF Init, TookEffect
<1> QED
  BY <1>1, <1>2 DEF Init, Directory!Init, Caller

\* A step that moves one goroutine without its wish taking effect.
LEMMA Stutters ==
  ASSUME UNCHANGED <<services, want, got>>,
         TookEffect' = TookEffect
  PROVE  UNCHANGED Directory!dirVars
BY DEF Directory!dirVars

LEMMA AsksRefines ==
  ASSUME Inductive,
         NEW c \in Caller, NEW q \in Request,
         pc[c] = "idle", want[c] = None,
         pc' = [pc EXCEPT ![c] = "lock"],
         want' = [want EXCEPT ![c] = q],
         UNCHANGED <<services, got>>
  PROVE  Directory!Ask(c)
<1>1. TookEffect' = TookEffect
  BY DEF TookEffect, Inductive, TypeOK
<1>2. q \in Directory!Wish
  BY DEF Directory!Wish, Request
<1> QED
  BY <1>1, <1>2 DEF Directory!Ask

LEMMA RegisterRefines ==
  ASSUME Inductive, NEW r \in Registrar, Register(r)
  PROVE  (\E c \in Caller : Directory!Ask(c) \/ Directory!Answer(c))
         \/ UNCHANGED Directory!dirVars
<1>0. r \in Caller /\ RegisterFacts(r)
  BY DEF Caller, Inductive, RegisterProgress
<1>1. ASSUME NEW v \in Srv, RegisterReject(r, v)
      PROVE  UNCHANGED Directory!dirVars
  <2>1. TookEffect' = TookEffect
    BY <1>0, <1>1 DEF RegisterReject, Return, Goto, TookEffect, Inductive, TypeOK, RegisterFacts
  <2> QED
    BY <1>1, <2>1, Stutters DEF RegisterReject
<1>2. ASSUME NEW v \in Srv, RegisterBuild(r, v)
      PROVE  Directory!Ask(r)
  <2> DEFINE q == [name |-> NameOf[v], bind |-> [by |-> r, srv |-> v]]
  <2>1. q \in Request
    BY ConstantsAssumption DEF Request, RPCService
  <2>2. pc[r] = "idle" /\ want[r] = None
    BY <1>0, <1>2 DEF RegisterBuild, Goto, RegisterFacts
  <2> QED
    BY <1>0, <1>2, <2>1, <2>2, AsksRefines DEF RegisterBuild, Goto
<1>3. CASE Lock(r, "check")
  <2>1. TookEffect' = TookEffect
    BY <1>0, <1>3 DEF Lock, Goto, TookEffect, Inductive, TypeOK
  <2> QED
    BY <1>3, <2>1, Stutters DEF Lock
<1>4. CASE RegisterCheck(r)
  <2>0. pc[r] = "check" /\ want[r] # None /\ want[r].bind # None /\ got[r] = None
    BY <1>0, <1>4, Distinct DEF RegisterCheck, RegisterFacts
  <2>1. CASE services[want[r].name] = None
    <3>1. TookEffect' = TookEffect
      BY <1>0, <1>4, <2>1 DEF RegisterCheck, Goto, TookEffect, Inductive, TypeOK
    <3> QED
      BY <1>4, <3>1, Stutters DEF RegisterCheck
  <2>2. CASE services[want[r].name] # None
    <3>1. want[r].name \in Name
      BY <1>0, <2>0 DEF Inductive, TypeOK
    <3>2. made
      BY <2>2, <3>1 DEF Inductive, UnmadeIsEmpty
    <3>3. pc' = [pc EXCEPT ![r] = "unlock"] /\ UNCHANGED <<services, want, got>>
      BY <1>4, <2>2, <3>2 DEF RegisterCheck, Goto
    <3>4. TookEffect' = TookEffect \cup {r} /\ r \notin TookEffect
      BY <1>0, <2>0, <3>3 DEF TookEffect, Inductive, TypeOK
    <3> QED
      BY <1>0, <2>0, <2>2, <3>3, <3>4
      DEF Directory!Answer, Directory!Refuse, Directory!Outstanding
  <2> QED
    BY <2>1, <2>2
<1>5. CASE RegisterInsert(r)
  <2>1. /\ pc[r] = "insert"
        /\ want[r] # None
        /\ want[r].bind # None
        /\ services[want[r].name] = None
    BY <1>0, <1>5, Distinct DEF RegisterInsert, Goto, RegisterFacts
  <2>2. TookEffect' = TookEffect \cup {r} /\ r \notin TookEffect
    BY <1>0, <1>5, <2>1 DEF RegisterInsert, Goto, TookEffect, Inductive, TypeOK
  <2> QED
    BY <1>0, <1>5, <2>1, <2>2
    DEF RegisterInsert, Directory!Answer, Directory!Bind, Directory!Outstanding
<1>6. CASE RegisterUnlock(r)
  <2>1. TookEffect' = TookEffect
    BY <1>0, <1>6 DEF RegisterUnlock, Goto, TookEffect, Inductive, TypeOK
  <2> QED
    BY <1>6, <2>1, Stutters DEF RegisterUnlock
<1> QED
  BY <1>0, <1>1, <1>2, <1>3, <1>4, <1>5, <1>6 DEF Register

LEMMA LookUpRefines ==
  ASSUME Inductive, NEW c \in Reader, LookUp(c)
  PROVE  (\E d \in Caller : Directory!Ask(d) \/ Directory!Answer(d))
         \/ UNCHANGED Directory!dirVars
<1>0. c \in Caller /\ LookupFacts(c)
  BY DEF Caller, Inductive, LookupProgress
<1>1. CASE GetIllFormed(c)
  <2>1. TookEffect' = TookEffect
    BY <1>0, <1>1 DEF GetIllFormed, Return, Goto, TookEffect, Inductive, TypeOK, LookupFacts
  <2> QED
    BY <1>1, <2>1, Stutters DEF GetIllFormed
<1>2. ASSUME NEW n \in Name, NEW m \in Method \cup {None}, LookupCall(c, n, m)
      PROVE  Directory!Ask(c)
  <2> DEFINE q == [name |-> n, bind |-> None]
  <2>1. q \in Request
    BY DEF Request
  <2>2. pc[c] = "idle" /\ want[c] = None
    BY <1>0, <1>2 DEF LookupCall, Goto, LookupFacts
  <2> QED
    BY <1>0, <1>2, <2>1, <2>2, AsksRefines DEF LookupCall, Goto
<1>3. CASE Lock(c, "read")
  <2>1. TookEffect' = TookEffect
    BY <1>0, <1>3 DEF Lock, Goto, TookEffect, Inductive, TypeOK
  <2> QED
    BY <1>3, <2>1, Stutters DEF Lock
<1>4. CASE LookupRead(c)
  <2>1. pc[c] = "read" /\ want[c] # None /\ want[c].bind = None
    BY <1>0, <1>4 DEF LookupRead, Goto, LookupFacts
  <2>2. TookEffect' = TookEffect \cup {c} /\ c \notin TookEffect
    BY <1>0, <1>4, <2>1 DEF LookupRead, Goto, TookEffect, Inductive, TypeOK
  <2> QED
    BY <1>0, <1>4, <2>1, <2>2
    DEF LookupRead, Directory!Answer, Directory!LookUp, Directory!Outstanding
<1>5. CASE LookupUnlock(c)
  <2>1. TookEffect' = TookEffect
    BY <1>0, <1>5 DEF LookupUnlock, Return, Goto, TookEffect, Inductive, TypeOK
  <2> QED
    BY <1>5, <2>1, Stutters DEF LookupUnlock
<1>6. CASE GetResolve(c)
  <2>1. TookEffect' = TookEffect
    BY <1>0, <1>6 DEF GetResolve, Return, Goto, TookEffect, Inductive, TypeOK
  <2> QED
    BY <1>6, <2>1, Stutters DEF GetResolve
<1> QED
  BY <1>0, <1>1, <1>2, <1>3, <1>4, <1>5, <1>6 DEF LookUp

\* The registry with its mutex implements the put-if-absent directory: a
\* register takes effect at its insertion, or at the check that finds the
\* name taken, and a lookup at its read.
THEOREM ImplementsDirectorySafety == Spec => Directory!Spec
<1>1. Init => Directory!Init
  BY InitRefines
<1>2. Inductive /\ [Next]_vars => [Directory!Next]_(Directory!dirVars)
  <2> SUFFICES ASSUME Inductive, [Next]_vars
               PROVE  Directory!Next \/ UNCHANGED Directory!dirVars
    OBVIOUS
  <2>1. CASE UNCHANGED vars
    BY <2>1 DEF vars, TookEffect, Directory!dirVars
  <2>2. CASE Next
    BY <2>1, <2>2, RegisterRefines, LookUpRefines
    DEF Next, AllReturned, Directory!Next
  <2> QED
    BY <2>1, <2>2
<1> QED
  BY <1>1, <1>2, InductiveInvariant, PTL DEF Spec, Directory!Spec
===============================================================================
