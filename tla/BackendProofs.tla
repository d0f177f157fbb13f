----------------------------- MODULE BackendProofs -----------------------------
(***************************************************************************)
(* Proofs about Backend, for every set of goroutines, receivers and names: *)
(* what a range over the services lists while others register.             *)
(***************************************************************************)
EXTENDS Backend, ServiceMapProofs, Integers

(* The invariant *)

\* A service is in the map under the name of its receiver's type, and NewServer
\* registers the BackendService alone.
EntriesFit ==
  \A n \in Name : services[n] # None =>
    /\ NameOf[services[n].srv] = n
    /\ services[n].by = NewServer => services[n] = BackendService

WantsFit ==
  \A r \in Registrar : want[r] # None => want[r].name = NameOf[want[r].bind.srv]

\* What a call of a backend method knows: what it listed are the public services
\* that it visited; without a race, each once, and those that were there.
ListFacts(c) ==
  /\ before[c] \subseteq Bound /\ seen[c] \subseteq Bound
  /\ lpc[c] = "idle" => result[c] = "pending" /\ seen[c] = {} /\ items[c] = <<>>
  /\ lpc[c] # "idle" => pc[c] = "done"
  /\ lpc[c] = "range" =>
       /\ result[c] = "pending"
       /\ Calls(c, GetApiConfigs) \/ Calls(c, GetFirstConfig)
       /\ Calls(c, GetFirstConfig) => \A n \in seen[c] : Internal(n)
  /\ \A i \in DOMAIN items[c] :
       \E n \in seen[c] : ~ Internal(n) /\ items[c][i] = services[n]
  /\ c \notin raced => \A i, j \in DOMAIN items[c] : i # j => items[c][i] # items[c][j]
  /\ lpc[c] = "range" \/ result[c] = "nil" =>
       \A n \in seen[c] : ~ Internal(n) =>
         services[n] \in Listed(c) /\ services[n].srv \notin Undescribable
  /\ result[c] = "nil" /\ Calls(c, GetApiConfigs) /\ c \notin raced =>
       before[c] \subseteq seen[c]
  /\ result[c] = "not found" =>
       /\ c \notin raced => before[c] \subseteq seen[c]
       /\ \A n \in seen[c] : Internal(n)

BInv ==
  /\ Inductive /\ ListTypeOK /\ EntriesFit /\ WantsFit
  /\ \A c \in Reader : ListFacts(c)

LEMMA InitBInv == ListInit => BInv
<1> SUFFICES ASSUME ListInit PROVE BInv OBVIOUS
<1>1. Init /\ Inductive BY InitInductive DEF ListInit
<1>2. ListTypeOK
  <2>1. <<>> \in Seq(RPCService) OBVIOUS
  <2> QED BY <2>1 DEF ListInit, ListTypeOK
<1>3. EntriesFit BY <1>1, Distinct DEF Init, EntriesFit, BackendService
<1>4. WantsFit BY <1>1 DEF Init, WantsFit, Caller
<1>5. ASSUME NEW c \in Reader PROVE ListFacts(c)
  BY DEF ListInit, ListFacts
<1> QED BY <1>1, <1>2, <1>3, <1>4, <1>5 DEF BInv

-------------------------------------------------------------------------------
(* Steps of the registry *)

LEMMA RegistryFits ==
  ASSUME Inductive, EntriesFit, WantsFit,
         (\E r \in Registrar : Register(r)) \/ (\E c \in Reader : LookUp(c))
  PROVE  EntriesFit' /\ WantsFit'
<1>1. TypeOK /\ Registrar \cap Reader = {} BY Distinct DEF Inductive
<1>2. CASE UNCHANGED <<services, want>> BY <1>2 DEF EntriesFit, WantsFit
<1>3. ASSUME NEW r \in Registrar, NEW v \in Srv, RegisterBuild(r, v)
      PROVE  EntriesFit' /\ WantsFit'
  BY <1>1, <1>3 DEF RegisterBuild, TypeOK, EntriesFit, WantsFit, Caller
<1>4. ASSUME NEW c \in Reader, NEW n \in Name, NEW m \in Method \cup {None},
             LookupCall(c, n, m)
      PROVE  EntriesFit' /\ WantsFit'
  BY <1>1, <1>4 DEF LookupCall, TypeOK, EntriesFit, WantsFit, Caller
<1>5. ASSUME NEW r \in Registrar, RegisterInsert(r)
      PROVE  EntriesFit' /\ WantsFit'
  <2>1. want[r] # None /\ want[r].bind \in RPCService /\ want[r].bind.by = r
    BY <1>5 DEF RegisterInsert, Goto, Inductive, RegisterProgress, RegisterFacts
  <2>2. /\ services' = [services EXCEPT ![want[r].name] = want[r].bind]
        /\ want' = want
    BY <1>5 DEF RegisterInsert
  <2>3. want[r].name = NameOf[want[r].bind.srv] /\ r # NewServer
    BY <2>1, ConstantsAssumption DEF WantsFit, Caller
  <2> QED BY <1>1, <2>1, <2>2, <2>3 DEF TypeOK, EntriesFit, WantsFit
<1> QED
  BY <1>2, <1>3, <1>4, <1>5
     DEF Register, RegisterReject, Lock, RegisterCheck, RegisterUnlock,
         LookUp, GetIllFormed, LookupRead, LookupUnlock, GetResolve

\* A lookup that has returned keeps what it returned.
LEMMA ReturnedStays ==
  ASSUME Inductive, NEW c \in Reader, pc[c] = "done",
         (\E r \in Registrar : Register(r)) \/ (\E d \in Reader : LookUp(d))
  PROVE  /\ pc'[c] = pc[c] /\ err'[c] = err[c]
         /\ spelling'[c] = spelling[c] /\ got'[c] = got[c]
<1>1. TypeOK /\ Registrar \cap Reader = {} BY Distinct DEF Inductive
<1>2. ASSUME NEW r \in Registrar, Register(r)
      PROVE  /\ pc'[c] = pc[c] /\ err'[c] = err[c]
             /\ spelling'[c] = spelling[c] /\ got'[c] = got[c]
  <2>1. c # r BY <1>1
  <2> QED
    BY <1>1, <1>2, <2>1
       DEF Register, RegisterReject, RegisterBuild, Lock, RegisterCheck, RegisterInsert,
           RegisterUnlock, Return, Goto, TypeOK, Caller
<1>3. ASSUME NEW d \in Reader, LookUp(d)
      PROVE  /\ pc'[c] = pc[c] /\ err'[c] = err[c]
             /\ spelling'[c] = spelling[c] /\ got'[c] = got[c]
  <2>1. d # c
    BY <1>3 DEF LookUp, GetIllFormed, LookupCall, Lock, LookupRead, LookupUnlock,
                GetResolve, Return, Goto
  <2> QED
    BY <1>1, <1>3, <2>1
       DEF LookUp, GetIllFormed, LookupCall, Lock, LookupRead, LookupUnlock, GetResolve,
           Return, Goto, TypeOK, Caller
<1> QED BY <1>2, <1>3

\* Facts about a call that only looks at what stays: its own state, what it has
\* returned from the registry, and the entries it knows of.
LEMMA FactsStay ==
  ASSUME NEW c \in Reader, ListFacts(c),
         lpc[c] # "idle" => /\ pc'[c] = pc[c] /\ err'[c] = err[c]
                            /\ spelling'[c] = spelling[c] /\ got'[c] = got[c],
         \A n \in Bound : services'[n] = services[n],
         before'[c] = before[c] \/ (lpc[c] = "idle" /\ before'[c] = Bound),
         lpc'[c] = lpc[c], seen'[c] = seen[c], items'[c] = items[c],
         result'[c] = result[c], c \in raced' <=> c \in raced
  PROVE  ListFacts(c)'
<1>1. Bound \subseteq Bound' BY DEF Bound
<1>2. \A n \in before[c] \cup seen[c] : services'[n] = services[n] BY DEF ListFacts
<1>3. \A n \in before[c] \cup seen[c] : Internal(n)' <=> Internal(n) BY <1>2 DEF Internal
<1>4. Listed(c)' = Listed(c) BY DEF Listed
<1>5. ASSUME lpc[c] # "idle", NEW m PROVE Calls(c, m)' <=> Calls(c, m)
  BY <1>5 DEF Calls
<1>6. CASE lpc[c] = "idle"
  BY <1>1, <1>2, <1>6 DEF ListFacts
<1>7. CASE lpc[c] # "idle"
  <2>0. before'[c] = before[c] BY <1>7
  <2>1. /\ before'[c] \subseteq Bound' /\ seen'[c] \subseteq Bound'
        /\ pc'[c] = "done"
    BY <1>1, <1>7, <2>0 DEF ListFacts
  <2>2. lpc'[c] = "range" =>
          /\ result'[c] = "pending"
          /\ Calls(c, GetApiConfigs)' \/ Calls(c, GetFirstConfig)'
          /\ Calls(c, GetFirstConfig)' => \A n \in seen'[c] : Internal(n)'
    BY <1>3, <1>5, <1>7 DEF ListFacts
  <2>3. ASSUME NEW i \in DOMAIN items'[c]
        PROVE  \E n \in seen'[c] : ~ Internal(n)' /\ items'[c][i] = services'[n]
    <3>1. PICK n \in seen[c] : ~ Internal(n) /\ items[c][i] = services[n]
      BY DEF ListFacts
    <3>2. n \in seen'[c] /\ ~ Internal(n)' /\ items'[c][i] = services'[n]
      BY <1>2, <1>3, <3>1
    <3> QED BY <3>2
  <2>6. c \notin raced' =>
          \A i, j \in DOMAIN items'[c] : i # j => items'[c][i] # items'[c][j]
    BY DEF ListFacts
  <2>4. lpc'[c] = "range" \/ result'[c] = "nil" =>
          \A n \in seen'[c] : ~ Internal(n)' =>
            services'[n] \in Listed(c)' /\ services'[n].srv \notin Undescribable
    BY <1>2, <1>3, <1>4 DEF ListFacts
  <2>5. /\ result'[c] = "nil" /\ Calls(c, GetApiConfigs)' /\ c \notin raced' =>
             before'[c] \subseteq seen'[c]
        /\ result'[c] = "not found" =>
             /\ c \notin raced' => before'[c] \subseteq seen'[c]
             /\ \A n \in seen'[c] : Internal(n)'
    BY <1>3, <1>5, <1>7, <2>0 DEF ListFacts
  <2> QED BY <1>7, <2>1, <2>2, <2>3, <2>4, <2>5, <2>6 DEF ListFacts
<1> QED BY <1>6, <1>7

\* A step of the registry, as the listings see it.
RegistryStep ==
  /\ UNCHANGED <<lpc, seen, items, result, raced, thrown>>
  /\ (\E r \in Registrar : Register(r)) \/ (\E c \in Reader : LookUp(c))
  /\ before' \in [Reader -> SUBSET Name]
  /\ \A c \in Reader : \/ before'[c] = before[c]
                       \/ lpc[c] = "idle" /\ before'[c] = Bound

LEMMA RegistryBInv ==
  ASSUME BInv, RegistryStep
  PROVE  BInv'
<1> USE DEF RegistryStep
<1>1. Inductive /\ Next BY DEF BInv, Next
<1>2. Inductive' BY <1>1, NextInductive
<1>3. EntriesFit' /\ WantsFit' BY RegistryFits DEF BInv
<1>5. ListTypeOK' BY DEF BInv, ListTypeOK
<1>6. \A n \in Bound : services'[n] = services[n] BY <1>1, EntriesStay DEF Bound
<1>7. ASSUME NEW c \in Reader PROVE ListFacts(c)'
  <2>1. ListFacts(c) BY DEF BInv
  <2>2. lpc[c] # "idle" => pc[c] = "done" BY <2>1 DEF ListFacts
  <2> QED BY <1>1, <1>6, <2>1, <2>2, FactsStay, ReturnedStays
<1> QED BY <1>2, <1>3, <1>5, <1>7 DEF BInv

LEMMA FindBInv ==
  ASSUME BInv, NEW c \in Reader, Find(c)
  PROVE  BInv'
<1>1. ListTypeOK /\ ListFacts(c) BY DEF BInv
<1>2. pc[c] = "read" => lpc[c] = "idle" BY <1>1 DEF ListFacts
<1>3. Bound \subseteq Name BY DEF Bound
<1>4. before' \in [Reader -> SUBSET Name] BY <1>1, <1>3 DEF Find, ListTypeOK
<1>5. ASSUME NEW d \in Reader
      PROVE  before'[d] = before[d] \/ (lpc[d] = "idle" /\ before'[d] = Bound)
  BY <1>1, <1>2 DEF Find, ListTypeOK
<1>6. UNCHANGED <<lpc, seen, items, result, raced, thrown>> BY DEF Find
<1>7. \E d \in Reader : LookUp(d) BY DEF Find
<1>8. RegistryStep BY <1>4, <1>5, <1>6, <1>7 DEF RegistryStep
<1> QED BY <1>8, RegistryBInv

-------------------------------------------------------------------------------
(* Steps of the backend methods *)

\* A step of one call is none of the registry, and leaves the others alone.
LEMMA OneCallBInv ==
  ASSUME BInv, UNCHANGED vars, ListTypeOK', NEW c \in Reader, ListFacts(c)',
         \A d \in Reader \ {c} :
           /\ lpc'[d] = lpc[d] /\ before'[d] = before[d] /\ seen'[d] = seen[d]
           /\ items'[d] = items[d] /\ result'[d] = result[d]
           /\ d \in raced' <=> d \in raced
  PROVE  BInv'
<1>1. Inductive' BY StutterInductive DEF BInv
<1>2. /\ services' = services /\ want' = want
      /\ pc' = pc /\ err' = err /\ spelling' = spelling /\ got' = got
  BY DEF vars
<1>3. EntriesFit' /\ WantsFit' BY <1>2 DEF BInv, EntriesFit, WantsFit
<1>4. ASSUME NEW d \in Reader PROVE ListFacts(d)'
  <2>1. CASE d = c BY <2>1
  <2>2. CASE d # c BY <1>2, <2>2, FactsStay DEF BInv
  <2> QED BY <2>1, <2>2
<1> QED BY <1>1, <1>3, <1>4 DEF BInv

\* What a call sees of the registry does not change in a step of its own.
LEMMA SameRegistry ==
  ASSUME UNCHANGED vars
  PROVE  /\ services' = services /\ pc' = pc /\ Bound' = Bound
         /\ \A n : Internal(n)' <=> Internal(n)
         /\ \A c, m : Calls(c, m)' <=> Calls(c, m)
<1>1. /\ services' = services
      /\ pc' = pc /\ err' = err /\ spelling' = spelling /\ got' = got
  BY DEF vars
<1> QED BY <1>1 DEF Bound, Internal, Calls

LEMMA WrongRevisionBInv ==
  ASSUME BInv, NEW c \in Reader, WrongRevision(c)
  PROVE  BInv'
<1>1. /\ UNCHANGED <<vars, before, seen, items, raced, thrown>>
      /\ lpc[c] = "idle" /\ pc[c] = "done"
      /\ lpc' = [lpc EXCEPT ![c] = "done"] /\ result' = [result EXCEPT ![c] = "revision"]
      /\ ListTypeOK /\ ListFacts(c)
  BY DEF WrongRevision, Calls, End, BInv
<1>2. ListTypeOK' BY <1>1 DEF ListTypeOK
<1>3. lpc'[c] = "done" /\ result'[c] = "revision" BY <1>1 DEF ListTypeOK
<1>4. ListFacts(c)' BY <1>1, <1>3, SameRegistry DEF ListFacts
<1> QED BY <1>1, <1>2, <1>4, OneCallBInv DEF ListTypeOK

LEMMA StartRangeBInv ==
  ASSUME BInv, NEW c \in Reader, StartRange(c)
  PROVE  BInv'
<1>1. /\ UNCHANGED <<vars, before, seen, items, result, raced, thrown>>
      /\ lpc[c] = "idle" /\ pc[c] = "done" /\ lpc' = [lpc EXCEPT ![c] = "range"]
      /\ Calls(c, GetApiConfigs) \/ Calls(c, GetFirstConfig)
      /\ ListTypeOK /\ ListFacts(c)
  BY DEF StartRange, Calls, BInv
<1>2. ListTypeOK' BY <1>1 DEF ListTypeOK
<1>3. lpc'[c] = "range" BY <1>1 DEF ListTypeOK
<1>4. seen[c] = {} /\ items[c] = <<>> /\ result[c] = "pending" BY <1>1 DEF ListFacts
<1>5. ListFacts(c)' BY <1>1, <1>3, <1>4, SameRegistry DEF ListFacts
<1> QED BY <1>1, <1>2, <1>5, OneCallBInv DEF ListTypeOK

LEMMA VisitInternalBInv ==
  ASSUME BInv, NEW c \in Reader, NEW n \in Name, VisitInternal(c, n)
  PROVE  BInv'
<1>1. /\ UNCHANGED <<vars, lpc, before, items, result, thrown>>
      /\ lpc[c] = "range" /\ n \in Bound /\ Internal(n)
      /\ seen' = [seen EXCEPT ![c] = @ \cup {n}]
      /\ raced' = raced \/ raced' = raced \cup {c}
      /\ ListTypeOK /\ ListFacts(c)
  BY DEF VisitInternal, Visit, ReadsMap, BInv
<1>2. ListTypeOK' BY <1>1 DEF ListTypeOK
<1>3. seen'[c] = seen[c] \cup {n} BY <1>1 DEF ListTypeOK
<1>4. Listed(c)' = Listed(c) BY <1>1 DEF Listed
<1>5. ListFacts(c)' BY <1>1, <1>3, <1>4, SameRegistry DEF ListFacts
<1> QED BY <1>1, <1>2, <1>5, OneCallBInv DEF ListTypeOK

LEMMA VisitTornBInv ==
  ASSUME BInv, NEW c \in Reader, VisitTorn(c)
  PROVE  BInv'
<1>1. /\ UNCHANGED <<vars, before, seen, items, thrown>> /\ lpc[c] = "range"
      /\ lpc' = [lpc EXCEPT ![c] = "done"] /\ result' = [result EXCEPT ![c] = "panic"]
      /\ raced' = raced \cup {c}
      /\ ListTypeOK /\ ListFacts(c)
  BY DEF VisitTorn, ReadsMap, End, BInv
<1>2. ListTypeOK' BY <1>1 DEF ListTypeOK
<1>3. lpc'[c] = "done" /\ result'[c] = "panic" BY <1>1 DEF ListTypeOK
<1>4. ListFacts(c)' BY <1>1, <1>3, SameRegistry DEF ListFacts
<1> QED BY <1>1, <1>2, <1>4, OneCallBInv DEF ListTypeOK

\* A service is under one name.
LEMMA OneName ==
  ASSUME EntriesFit, NEW n \in Bound, NEW m \in Bound, services[n] = services[m]
  PROVE  n = m
BY DEF EntriesFit, Bound

\* What is listed when one more service is.
LEMMA AppendOne ==
  ASSUME NEW S, NEW s \in Seq(S), NEW x \in S
  PROVE  /\ Append(s, x) \in Seq(S)
         /\ DOMAIN s = 1 .. Len(s) /\ Len(s) \in Nat
         /\ DOMAIN Append(s, x) = 1 .. Len(s) + 1
         /\ Append(s, x)[Len(s) + 1] = x
         /\ \A i \in 1 .. Len(s) : Append(s, x)[i] = s[i]
OBVIOUS

LEMMA VisitPublicBInv ==
  ASSUME BInv, NEW c \in Reader, NEW n \in Name, VisitPublic(c, n)
  PROVE  BInv'
<1>1. /\ UNCHANGED <<vars, before, thrown>>
      /\ lpc[c] = "range" /\ n \in Bound /\ ~ Internal(n)
      /\ seen' = [seen EXCEPT ![c] = @ \cup {n}]
      /\ raced' = raced \/ raced' = raced \cup {c}
      /\ c \notin raced' => n \notin seen[c] /\ c \notin raced
      /\ ListTypeOK /\ ListFacts(c) /\ EntriesFit
  BY DEF VisitPublic, Visit, ReadsMap, BInv
<1>2. seen'[c] = seen[c] \cup {n} /\ seen' \in [Reader -> SUBSET Name]
  BY <1>1 DEF ListTypeOK
<1>3. /\ pc[c] = "done" /\ result[c] = "pending"
      /\ Calls(c, GetApiConfigs) \/ Calls(c, GetFirstConfig)
      /\ ~ (Calls(c, GetApiConfigs) /\ Calls(c, GetFirstConfig))
  BY <1>1, BackendAssumption DEF ListFacts, Calls
<1>4. CASE services[n].srv \in Undescribable /\ End(c, "descriptor") /\ UNCHANGED items
  <2>1. lpc'[c] = "done" /\ result'[c] = "descriptor"
    BY <1>1, <1>4 DEF End, ListTypeOK
  <2>2. ListTypeOK' BY <1>1, <1>2, <1>4 DEF End, ListTypeOK
  <2>3. ListFacts(c)'
    BY <1>1, <1>2, <1>3, <1>4, <2>1, SameRegistry DEF ListFacts
  <2> QED BY <1>1, <1>4, <2>2, <2>3, OneCallBInv DEF End, ListTypeOK
<1>5. CASE /\ services[n].srv \notin Undescribable
           /\ Describe(c, n)
           /\ IF Calls(c, GetFirstConfig) THEN End(c, "nil") ELSE UNCHANGED <<lpc, result>>
  <2> DEFINE s == items[c]
             t == Append(s, services[n])
  <2>1. services[n] \in RPCService /\ s \in Seq(RPCService)
    BY <1>1 DEF BInv, Inductive, TypeOK, ListTypeOK, Bound
  <2>2. /\ t \in Seq(RPCService)
        /\ DOMAIN s = 1 .. Len(s) /\ Len(s) \in Nat
        /\ DOMAIN t = 1 .. Len(s) + 1
        /\ t[Len(s) + 1] = services[n]
        /\ \A i \in 1 .. Len(s) : t[i] = s[i]
    BY <2>1, AppendOne
  <2>3. items' = [items EXCEPT ![c] = t] BY <1>5 DEF Describe
  <2> HIDE DEF s, t
  <2>4. items'[c] = t BY <1>1, <2>3 DEF ListTypeOK
  <2>5. \/ Calls(c, GetFirstConfig) /\ lpc'[c] = "done" /\ result'[c] = "nil"
        \/ ~ Calls(c, GetFirstConfig) /\ lpc'[c] = lpc[c] /\ result'[c] = result[c]
    BY <1>1, <1>5 DEF End, ListTypeOK
  <2>6. ListTypeOK' BY <1>1, <1>2, <1>5, <2>2, <2>3 DEF End, ListTypeOK
  <2>7. \A i \in DOMAIN t : i = Len(s) + 1 \/ i \in 1 .. Len(s) BY <2>2
  <2>8. \A i \in DOMAIN s : \E m \in seen[c] : ~ Internal(m) /\ s[i] = services[m]
    BY <1>1 DEF ListFacts, s
  <2>9. \A i \in DOMAIN t : \E m \in seen'[c] : ~ Internal(m) /\ t[i] = services[m]
    BY <1>1, <1>2, <2>2, <2>7, <2>8
  <2>10. c \notin raced' => \A i \in DOMAIN s : s[i] # services[n]
    <3> SUFFICES ASSUME c \notin raced', NEW i \in DOMAIN s, s[i] = services[n] PROVE FALSE
      OBVIOUS
    <3>1. PICK m \in seen[c] : s[i] = services[m] BY <2>8
    <3>2. m \in Bound BY <1>1 DEF ListFacts
    <3>3. m = n BY <1>1, <3>1, <3>2, OneName
    <3> QED BY <1>1, <3>3
  <2>11. c \notin raced' => \A i, j \in DOMAIN t : i # j => t[i] # t[j]
    <3>1. c \notin raced' => \A i, j \in DOMAIN s : i # j => s[i] # s[j]
      BY <1>1 DEF ListFacts, s
    <3> QED BY <2>2, <2>7, <2>10, <3>1
  <2>12. Listed(c)' = Listed(c) \cup {services[n]}
    <3>1. Listed(c)' = {t[i] : i \in DOMAIN t} BY <2>4 DEF Listed
    <3>2. Listed(c) = {s[i] : i \in DOMAIN s} BY DEF Listed, s
    <3>3. \A i \in DOMAIN s : i \in DOMAIN t BY <2>2
    <3>4. Len(s) + 1 \in DOMAIN t BY <2>2
    <3> QED BY <2>2, <2>7, <3>1, <3>2, <3>3, <3>4
  <2>13. \A m \in seen'[c] : ~ Internal(m) =>
           services[m] \in Listed(c)' /\ services[m].srv \notin Undescribable
    BY <1>1, <1>2, <1>5, <2>12 DEF ListFacts
  <2>14. ListFacts(c)'
    <3>1. /\ UNCHANGED <<before, pc>> /\ services' = services /\ Bound' = Bound
          /\ \A m : Internal(m)' <=> Internal(m)
          /\ \A m : Calls(c, m)' <=> Calls(c, m)
      BY <1>1, SameRegistry
    <3>2. before'[c] \subseteq Bound' /\ seen'[c] \subseteq Bound'
      BY <1>1, <1>2, <3>1 DEF ListFacts
    <3>3. lpc'[c] # "idle" /\ pc'[c] = "done" /\ result'[c] # "not found"
      BY <1>1, <1>3, <2>5, <3>1
    <3>4. /\ \A i \in DOMAIN items'[c] :
               \E m \in seen'[c] : ~ Internal(m)' /\ items'[c][i] = services'[m]
          /\ c \notin raced' =>
               \A i, j \in DOMAIN items'[c] : i # j => items'[c][i] # items'[c][j]
      BY <2>4, <2>9, <2>11, <3>1
    <3>5. \A m \in seen'[c] : ~ Internal(m)' =>
            services'[m] \in Listed(c)' /\ services'[m].srv \notin Undescribable
      BY <2>13, <3>1
    <3>6. lpc'[c] = "range" =>
            result'[c] = "pending" /\ Calls(c, GetApiConfigs)' /\ ~ Calls(c, GetFirstConfig)'
      BY <1>3, <2>5, <3>1
    <3>7. ~ (result'[c] = "nil" /\ Calls(c, GetApiConfigs)')
      BY <1>3, <2>5, <3>1
    <3> QED BY <3>2, <3>3, <3>4, <3>5, <3>6, <3>7 DEF ListFacts
  <2>15. \A d \in Reader \ {c} :
           /\ lpc'[d] = lpc[d] /\ before'[d] = before[d] /\ seen'[d] = seen[d]
           /\ items'[d] = items[d] /\ result'[d] = result[d]
           /\ d \in raced' <=> d \in raced
    BY <1>1, <1>5, <2>3 DEF End, ListTypeOK
  <2> QED BY <1>1, <2>6, <2>14, <2>15, OneCallBInv
<1> QED BY <1>4, <1>5 DEF VisitPublic

LEMMA EndRangeBInv ==
  ASSUME BInv, NEW c \in Reader, EndRange(c)
  PROVE  BInv'
<1> DEFINE e == IF Calls(c, GetApiConfigs) THEN "nil" ELSE "not found"
<1>1. /\ UNCHANGED <<vars, before, seen, items, thrown>>
      /\ lpc[c] = "range"
      /\ raced' = raced \/ raced' = raced \cup {c}
      /\ c \notin raced' => before[c] \subseteq seen[c] /\ c \notin raced
      /\ lpc' = [lpc EXCEPT ![c] = "done"] /\ result' = [result EXCEPT ![c] = e]
      /\ ListTypeOK /\ ListFacts(c)
  BY DEF EndRange, ReadsMap, End, BInv
<1>2. ListTypeOK' BY <1>1 DEF ListTypeOK
<1>3. lpc'[c] = "done" /\ result'[c] = e BY <1>1 DEF ListTypeOK
<1>4. Listed(c)' = Listed(c) BY <1>1 DEF Listed
<1>5. ~ Calls(c, GetApiConfigs) => \A n \in seen[c] : Internal(n)
  BY <1>1 DEF ListFacts
<1>6. ListFacts(c)'
  <2>1. /\ before'[c] = before[c] /\ seen'[c] = seen[c] /\ items'[c] = items[c]
        /\ services' = services /\ pc' = pc /\ Bound' = Bound
        /\ \A n : Internal(n)' <=> Internal(n)
        /\ \A m : Calls(c, m)' <=> Calls(c, m)
    BY <1>1, SameRegistry
  <2>2. /\ pc[c] = "done" /\ before[c] \subseteq Bound /\ seen[c] \subseteq Bound
        /\ \A i \in DOMAIN items[c] :
             \E n \in seen[c] : ~ Internal(n) /\ items[c][i] = services[n]
        /\ c \notin raced' =>
             \A i, j \in DOMAIN items[c] : i # j => items[c][i] # items[c][j]
        /\ \A n \in seen[c] : ~ Internal(n) =>
             services[n] \in Listed(c) /\ services[n].srv \notin Undescribable
    BY <1>1 DEF ListFacts
  <2>3. CASE Calls(c, GetApiConfigs)
    <3>1. result'[c] = "nil" BY <1>3, <2>3
    <3> QED BY <1>1, <1>3, <1>4, <2>1, <2>2, <3>1 DEF ListFacts
  <2>4. CASE ~ Calls(c, GetApiConfigs)
    <3>1. result'[c] = "not found" BY <1>3, <2>4
    <3>2. /\ lpc'[c] = "done" /\ pc'[c] = "done"
          /\ before'[c] \subseteq Bound' /\ seen'[c] \subseteq Bound'
      BY <1>3, <2>1, <2>2
    <3>3. /\ \A i \in DOMAIN items'[c] :
               \E n \in seen'[c] : ~ Internal(n)' /\ items'[c][i] = services'[n]
          /\ c \notin raced' =>
               \A i, j \in DOMAIN items'[c] : i # j => items'[c][i] # items'[c][j]
      BY <2>1, <2>2
    <3>4. /\ c \notin raced' => before'[c] \subseteq seen'[c]
          /\ \A n \in seen'[c] : Internal(n)'
      BY <1>1, <1>5, <2>1, <2>4
    <3> QED BY <3>1, <3>2, <3>3, <3>4 DEF ListFacts
  <2> QED BY <2>3, <2>4
<1> QED BY <1>1, <1>2, <1>6, OneCallBInv DEF ListTypeOK

LEMMA NextBInv == BInv /\ [ListNext]_allVars => BInv'
<1> SUFFICES ASSUME BInv, [ListNext]_allVars PROVE BInv' OBVIOUS
<1>1. CASE UNCHANGED listVars /\ (\E r \in Registrar : Register(r))
  <2>1. UNCHANGED <<lpc, seen, items, result, raced, thrown>> BY <1>1 DEF listVars
  <2>2. before' = before BY <1>1 DEF listVars
  <2>3. before' \in [Reader -> SUBSET Name] BY <2>2 DEF BInv, ListTypeOK
  <2>4. \A c \in Reader : \/ before'[c] = before[c]
                          \/ lpc[c] = "idle" /\ before'[c] = Bound
    BY <2>2
  <2>5. RegistryStep BY <1>1, <2>1, <2>3, <2>4 DEF RegistryStep
  <2> QED BY <2>5, RegistryBInv
<1>2. ASSUME NEW c \in Reader, Find(c) PROVE BInv'
  BY <1>2, FindBInv
<1>3. ASSUME NEW c \in Reader, List(c) PROVE BInv'
  BY <1>3, WrongRevisionBInv, StartRangeBInv, VisitInternalBInv, VisitPublicBInv,
     VisitTornBInv, EndRangeBInv
     DEF List
<1>4. CASE UNCHANGED <<vars, lpc, before, seen, items, result, raced>> /\ thrown' \in {thrown, TRUE}
  <2>1. Inductive' BY <1>4, StutterInductive DEF BInv
  <2>2. EntriesFit' /\ WantsFit' BY <1>4 DEF BInv, EntriesFit, WantsFit, vars
  <2>3. ListTypeOK' BY <1>4 DEF BInv, ListTypeOK
  <2>4. \A c \in Reader : ListFacts(c)'
    BY <1>4, FactsStay DEF BInv, vars
  <2> QED BY <2>1, <2>2, <2>3, <2>4 DEF BInv
<1>5. CASE \E r \in Registrar, c \in Reader : Throw(r, c) BY <1>4, <1>5 DEF Throw
<1>6. CASE UNCHANGED allVars BY <1>4, <1>6 DEF allVars, listVars
<1> QED BY <1>1, <1>2, <1>3, <1>5, <1>6 DEF ListNext, Stopped

LEMMA ListInvariance == ListSpec => []BInv
BY InitBInv, NextBInv, PTL DEF ListSpec

-------------------------------------------------------------------------------
(* What a listing promises *)

\* A call lists services of the registry, and ends in one of the ways that it can.
THEOREM ListTypeCorrect == ListSpec => []ListTypeOK
<1>1. BInv => ListTypeOK BY DEF BInv
<1> QED BY <1>1, ListInvariance, PTL

\* A list has no other than registered public services; when no registration
\* raced with it, it has all that were registered, each once.
THEOREM ListingComplete == ListSpec => []ListingIsComplete
<1>1. BInv => ListingIsComplete
  <2> SUFFICES ASSUME BInv, NEW c \in Reader,
                      lpc[c] = "done", result[c] = "nil", Calls(c, GetApiConfigs)
               PROVE  /\ \A s \in Listed(c) : /\ s # BackendService
                                             /\ \E n \in Name : services[n] = s
                      /\ c \notin raced =>
                           /\ \A n \in before[c] : ~ Internal(n) => services[n] \in Listed(c)
                           /\ \A i, j \in DOMAIN items[c] : i # j => items[c][i] # items[c][j]
    BY DEF ListingIsComplete
  <2>1. ListFacts(c) BY DEF BInv
  <2>2. c \notin raced => \A n \in before[c] : ~ Internal(n) => services[n] \in Listed(c)
    BY <2>1 DEF ListFacts
  <2>3. ASSUME NEW s \in Listed(c)
        PROVE  s # BackendService /\ \E n \in Name : services[n] = s
    <3>1. PICK i \in DOMAIN items[c] : s = items[c][i] BY DEF Listed
    <3>2. PICK n \in seen[c] : ~ Internal(n) /\ s = services[n] BY <2>1, <3>1 DEF ListFacts
    <3>3. n \in Name BY <2>1 DEF ListFacts, Bound
    <3> QED BY <3>2, <3>3 DEF Internal, BackendService
  <2> QED BY <2>1, <2>2, <2>3 DEF ListFacts
<1> QED BY <1>1, ListInvariance, PTL

\* One service that cannot be described keeps the others from being listed, when
\* no registration raced with the listing.
THEOREM BadServiceHidesAll == ListSpec => []OneBadServiceHidesAll
<1>1. BInv => OneBadServiceHidesAll
  <2> SUFFICES ASSUME BInv, NEW c \in Reader \ raced, Calls(c, GetApiConfigs),
                      NEW n \in before[c], services[n].srv \in Undescribable,
                      result[c] = "nil"
               PROVE  FALSE
    BY DEF OneBadServiceHidesAll
  <2>1. ListFacts(c) /\ EntriesFit BY DEF BInv
  <2>2. n \in seen[c] /\ n \in Bound BY <2>1 DEF ListFacts
  <2>3. ~ Internal(n)
    BY <2>1, <2>2, BackendAssumption DEF EntriesFit, Internal, Bound, BackendService
  <2> QED BY <2>1, <2>2, <2>3 DEF ListFacts
<1> QED BY <1>1, ListInvariance, PTL

\* GetFirstConfig reports that there is no service only if there was no public
\* one, when no registration raced with it.
THEOREM NotFoundIsNone == ListSpec => []NotFoundMeansNone
<1>1. BInv => NotFoundMeansNone BY DEF BInv, ListFacts, NotFoundMeansNone
<1> QED BY <1>1, ListInvariance, PTL

-------------------------------------------------------------------------------
(* What the registry promises while it is ranged over *)

\* The calls that list services read the registry without its mutex and change
\* nothing of it: with them it is still the put-if-absent directory.
THEOREM ListingLeavesDirectory == ListSpec => Spec /\ Directory!Spec
<1>1. ListInit => Init
  BY DEF ListInit
<1>2. [ListNext]_allVars => [Next]_vars
  <2> SUFFICES ASSUME [ListNext]_allVars PROVE [Next]_vars
    OBVIOUS
  <2>1. ASSUME NEW c \in Reader, List(c) PROVE UNCHANGED vars
    BY <2>1 DEF List, WrongRevision, StartRange, VisitInternal, VisitPublic, VisitTorn, EndRange
  <2>4. ASSUME NEW c \in Reader, Find(c) PROVE Next
    BY <2>4 DEF Find, Next
  <2>2. ASSUME NEW r \in Registrar, NEW c \in Reader, Throw(r, c) PROVE UNCHANGED vars
    BY <2>2 DEF Throw
  <2>3. CASE UNCHANGED allVars
    BY <2>3 DEF allVars
  <2> QED BY <2>1, <2>2, <2>3, <2>4 DEF ListNext, Stopped, Next
<1>3. ListSpec => Spec
  BY <1>1, <1>2, PTL DEF ListSpec, Spec
<1> QED BY <1>3, ImplementsDirectorySafety, PTL

\* The service and the method that ServeHTTP calls for a listing are those of
\* the registry, which holds one winner for every name meanwhile.
THEOREM ListingKeepsRegistry == ListSpec => [](OneWinnerPerName /\ ResolvedIsCurrent)
BY ListingLeavesDirectory, OneWinner, ResolvedStaysCurrent, PTL
===============================================================================
