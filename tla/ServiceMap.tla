------------------------------ MODULE ServiceMap ------------------------------
(***************************************************************************)
(* The service registry of endpoints/service.go: serviceMap.register,      *)
(* called by Server.RegisterService, and the lookups serviceMap.get, called*)
(* by Server.ServeHTTP, and serviceMap.serviceByName.  Goroutines run      *)
(* concurrently; each makes one call, so further calls are further         *)
(* goroutines.  A call is split at the points where another goroutine can  *)
(* run: the work before the lock, the lock, the reads and the writes of    *)
(* the map made under it, the unlock, and the work after it.               *)
(*                                                                         *)
(* Reflection is abstracted to three constants: the type name of a         *)
(* receiver, whether it is exported, and which of its methods              *)
(* newServiceMethod accepts.                                               *)
(***************************************************************************)
CONSTANTS
  Registrar,   \* goroutines calling register
  Reader,      \* goroutines calling get or serviceByName
  NewServer,   \* the call of register made by NewServer
  Srv,         \* receivers given to register
  BackendSrv,  \* the *BackendService registered by NewServer
  Name,        \* names of Go types
  NameOf,      \* the type name of a receiver
  Exported,    \* the names that start with an upper case letter
  Method,      \* method names, as spelled in a request or in Go
  MethodsOf,   \* the methods of a receiver that newServiceMethod accepts
  Title,       \* strings.Title on a method name
  None         \* no service, no request, no method, no lock holder

Caller == Registrar \cup Reader

\* The RPCService allocated by a call of register for its receiver.
RPCService == [by : Registrar \cup {NewServer}, srv : Srv]

BackendService == [by |-> NewServer, srv |-> BackendSrv]

ASSUME ConstantsAssumption ==
  /\ Registrar \cap Reader = {}
  /\ NewServer \notin Caller
  /\ BackendSrv \in Srv
  /\ NameOf \in [Srv -> Name]
  /\ Exported \subseteq Name
  /\ NameOf[BackendSrv] \in Exported
  /\ MethodsOf \in [Srv -> SUBSET Method]
  /\ MethodsOf[BackendSrv] # {}
  /\ Title \in [Method -> Method]
  /\ None \notin Caller \cup RPCService \cup Method
  /\ None \notin [name : Name, bind : RPCService \cup {None}]

VARIABLES
  services,    \* serviceMap.services: the RPCService under every name
  made,        \* whether the Go map has been made, services # nil
  mutex,       \* serviceMap.mutex: the goroutine that holds it
  pc,          \* where each goroutine is in its call
  want,        \* the name asked for, and the RPCService to register under it
  spelling,    \* the method part of the name given to get
  got,         \* the RPCService a call read from the map or returns
  err          \* the error a call returns

vars == <<services, made, mutex, pc, want, spelling, got, err>>

-------------------------------------------------------------------------------
Error == {"pending", "nil", "unexported", "no methods", "already defined",
          "ill-formed", "no service", "no method"}

PC == {"idle", "lock", "check", "insert", "read", "unlock", "resolve", "done"}

TypeOK ==
  /\ services \in [Name -> RPCService \cup {None}]
  /\ made \in BOOLEAN
  /\ mutex \in Caller \cup {None}
  /\ pc \in [Caller -> PC]
  /\ want \in [Caller -> [name : Name, bind : RPCService \cup {None}] \cup {None}]
  /\ spelling \in [Reader -> Method \cup {None}]
  /\ got \in [Caller -> RPCService \cup {None}]
  /\ err \in [Caller -> Error]

\* NewServer registers the BackendService before it returns the Server; a
\* serviceMap made by new(serviceMap) alone, as the tests do, is empty.
Init ==
  /\ made \in BOOLEAN
  /\ services = [n \in Name |->
       IF made /\ n = NameOf[BackendSrv] THEN BackendService ELSE None]
  /\ mutex = None
  /\ pc = [c \in Caller |-> "idle"]
  /\ want = [c \in Caller |-> None]
  /\ spelling = [c \in Reader |-> None]
  /\ got = [c \in Caller |-> None]
  /\ err = [c \in Caller |-> "pending"]

Goto(c, from, to) ==
  /\ pc[c] = from
  /\ pc' = [pc EXCEPT ![c] = to]

Return(c, from, e) ==
  /\ Goto(c, from, "done")
  /\ err' = [err EXCEPT ![c] = e]

-------------------------------------------------------------------------------
(* serviceMap.register *)

\* register rejects a receiver of unexported type, then one without methods.
RegisterReject(r, v) ==
  /\ \/ NameOf[v] \notin Exported /\ Return(r, "idle", "unexported")
     \/ /\ NameOf[v] \in Exported
        /\ MethodsOf[v] = {}
        /\ Return(r, "idle", "no methods")
  /\ UNCHANGED <<services, made, mutex, want, spelling, got>>

\* register has built its RPCService and is about to lock.
RegisterBuild(r, v) ==
  /\ NameOf[v] \in Exported
  /\ MethodsOf[v] # {}
  /\ Goto(r, "idle", "lock")
  /\ want' = [want EXCEPT ![r] =
       [name |-> NameOf[v], bind |-> [by |-> r, srv |-> v]]]
  /\ UNCHANGED <<services, made, mutex, spelling, got, err>>

\* Mutant of Lock: a read lock, which any number of goroutines share.
LockShared(c, next) ==
  /\ Goto(c, "lock", next)
  /\ mutex' = c
  /\ UNCHANGED <<services, made, want, spelling, got, err>>

Lock(c, next) ==
  /\ Goto(c, "lock", next)
  /\ mutex = None
  /\ mutex' = c
  /\ UNCHANGED <<services, made, want, spelling, got, err>>

\* Mutants of RegisterCheck: the last registration of a name wins, and the
\* map is made anew by every registration.
RegisterCheckOverwrites(r) ==
  /\ Goto(r, "check", "insert")
  /\ made' = TRUE
  /\ UNCHANGED <<services, mutex, want, spelling, got, err>>

RegisterCheckRemakes(r) ==
  /\ Goto(r, "check", "insert")
  /\ made' = TRUE
  /\ services' = [n \in Name |-> None]
  /\ UNCHANGED <<mutex, want, spelling, got, err>>

\* Under the lock: make the map if there is none, else look for the name.
RegisterCheck(r) ==
  /\ pc[r] = "check"
  /\ made' = TRUE
  /\ \/ /\ made => services[want[r].name] = None
        /\ Goto(r, "check", "insert")
        /\ UNCHANGED err
     \/ /\ made /\ services[want[r].name] # None
        /\ Goto(r, "check", "unlock")
        /\ err' = [err EXCEPT ![r] = "already defined"]
  /\ UNCHANGED <<services, mutex, want, spelling, got>>

\* Mutant of RegisterInsert: the map holds the receiver, not its RPCService.
RegisterInsertReceiver(r) ==
  /\ Goto(r, "insert", "unlock")
  /\ services' = [services EXCEPT ![want[r].name] = want[r].bind.srv]
  /\ got' = [got EXCEPT ![r] = want[r].bind]
  /\ err' = [err EXCEPT ![r] = "nil"]
  /\ UNCHANGED <<made, mutex, want, spelling>>

RegisterInsert(r) ==
  /\ Goto(r, "insert", "unlock")
  /\ services' = [services EXCEPT ![want[r].name] = want[r].bind]
  /\ got' = [got EXCEPT ![r] = want[r].bind]
  /\ err' = [err EXCEPT ![r] = "nil"]
  /\ UNCHANGED <<made, mutex, want, spelling>>

\* The deferred Unlock of register, on success and on error alike.
RegisterUnlock(r) ==
  /\ Goto(r, "unlock", "done")
  /\ mutex' = None
  /\ UNCHANGED <<services, made, want, spelling, got, err>>

Register(r) ==
  \/ \E v \in Srv \ {BackendSrv} : RegisterReject(r, v) \/ RegisterBuild(r, v)
  \/ Lock(r, "check")
  \/ RegisterCheck(r)
  \/ RegisterInsert(r)
  \/ RegisterUnlock(r)

-------------------------------------------------------------------------------
(* serviceMap.get and serviceMap.serviceByName *)

\* get finds no two parts separated by a dot in the name it is given.
GetIllFormed(c) ==
  /\ Return(c, "idle", "ill-formed")
  /\ UNCHANGED <<services, made, mutex, want, spelling, got>>

\* get has split "Name.method"; serviceByName has no method part.
LookupCall(c, n, m) ==
  /\ Goto(c, "idle", "lock")
  /\ want' = [want EXCEPT ![c] = [name |-> n, bind |-> None]]
  /\ spelling' = [spelling EXCEPT ![c] = m]
  /\ UNCHANGED <<services, made, mutex, got, err>>

LookupRead(c) ==
  /\ Goto(c, "read", "unlock")
  /\ got' = [got EXCEPT ![c] = services[want[c].name]]
  /\ UNCHANGED <<services, made, mutex, want, spelling, err>>

\* serviceByName returns what it read, nil included; get goes on.
LookupUnlock(c) ==
  /\ pc[c] = "unlock"
  /\ mutex' = None
  /\ \/ spelling[c] = None /\ Return(c, "unlock", "nil")
     \/ spelling[c] # None /\ Goto(c, "unlock", "resolve") /\ UNCHANGED err
  /\ UNCHANGED <<services, made, want, spelling, got>>

\* The methods of an RPCService, keyed by their Go names.
HasMethod(s, m) == m \in MethodsOf[s.srv]

\* Mutant of GetResolve: it waits for a service that it will not read again.
GetResolveWaits(c) ==
  /\ pc[c] = "resolve"
  /\ \/ got[c] = None /\ UNCHANGED <<pc, err>>
     \/ got[c] # None /\ Return(c, "resolve", "nil")
  /\ UNCHANGED <<services, made, mutex, want, spelling, got>>

\* get, after the unlock: find the method in the service read before.
GetResolve(c) ==
  /\ pc[c] = "resolve"
  /\ \/ got[c] = None /\ Return(c, "resolve", "no service")
     \/ /\ got[c] # None
        /\ ~ HasMethod(got[c], Title[spelling[c]])
        /\ Return(c, "resolve", "no method")
     \/ /\ got[c] # None
        /\ HasMethod(got[c], Title[spelling[c]])
        /\ Return(c, "resolve", "nil")
  /\ UNCHANGED <<services, made, mutex, want, spelling, got>>

LookUp(c) ==
  \/ GetIllFormed(c)
  \/ \E n \in Name, m \in Method \cup {None} : LookupCall(c, n, m)
  \/ Lock(c, "read")
  \/ LookupRead(c)
  \/ LookupUnlock(c)
  \/ GetResolve(c)

-------------------------------------------------------------------------------
AllReturned ==
  /\ \A c \in Caller : pc[c] = "done"
  /\ UNCHANGED vars

Next ==
  \/ \E r \in Registrar : Register(r)
  \/ \E c \in Reader : LookUp(c)
  \/ AllReturned

Spec == Init /\ [][Next]_vars

\* A goroutine that started its call is scheduled again and again, and a
\* sync.Mutex that is free for long enough is acquired.  Nothing obliges a
\* goroutine to make its call.
RegisterStep(r) == pc[r] # "idle" /\ Register(r)
LookUpStep(c) == pc[c] # "idle" /\ LookUp(c)

FairSpec ==
  /\ Spec
  /\ \A r \in Registrar : WF_vars(RegisterStep(r))
  /\ \A c \in Reader : WF_vars(LookUpStep(c))

-------------------------------------------------------------------------------
(* Properties *)

Registered(r) == pc[r] = "done" /\ err[r] = "nil"

\* Of the calls of register for one type name, however they interleave, at
\* most one returns without error, and the service it returned is the one
\* the map holds.
OneWinnerPerName ==
  /\ \A r \in Registrar : Registered(r) => services[want[r].name] = got[r]
  /\ \A r, q \in Registrar :
       Registered(r) /\ Registered(q) /\ want[r].name = want[q].name => r = q

\* get returns a service and a method only when that very service is still
\* registered under the requested name, although it looks the method up
\* after it released the lock: the pair it returns cannot be stale.
ResolvedIsCurrent ==
  \A c \in Reader :
    pc[c] = "done" /\ err[c] = "nil" /\ spelling[c] # None =>
      /\ services[want[c].name] = got[c]
      /\ got[c] # None
      /\ Title[spelling[c]] \in MethodsOf[got[c].srv]

\* A registered service is never replaced and never removed.
EntriesArePermanent ==
  [][\A n \in Name : services[n] # None => services'[n] = services[n]]_vars

\* What the directory has seen of a call: a register that was rejected and a
\* get that was ill-formed never reached it, and a call took effect once it
\* checked a taken name, inserted, or read.
TookEffect == {c \in Caller : want[c] # None /\ pc[c] \in {"unlock", "resolve", "done"}}

Directory == INSTANCE ServiceDirectory WITH
  directory <- services,
  wish <- want,
  answered <- TookEffect,
  answer <- got

\* The mutex makes the check and the insertion of register, and the read of
\* a lookup, appear as one instant: the registry is an atomic directory.
ImplementsDirectory == Directory!FairSpec

\* Every call that was started returns, on its error paths too.
EveryCallReturns == \A c \in Caller : pc[c] = "lock" ~> pc[c] = "done"
-------------------------------------------------------------------------------
(* The inductive invariant behind the properties above. *)

Holding == {"check", "insert", "read", "unlock"}

\* The goroutines between their lock and their unlock are the mutex holder.
HolderIsInside == \A c \in Caller : pc[c] \in Holding <=> mutex = c

\* What a register in progress has built, and what its check established.
RegisterFacts(r) ==
  /\ pc[r] \notin {"read", "resolve"}
  /\ pc[r] = "idle" => want[r] = None
  /\ pc[r] \in {"lock", "check", "insert", "unlock"} => want[r] # None
  /\ want[r] # None =>
       /\ want[r].bind \in RPCService
       /\ want[r].bind.by = r
  /\ pc[r] = "insert" => made /\ services[want[r].name] = None
  /\ pc[r] \in {"idle", "lock", "check", "insert"} => got[r] = None /\ err[r] # "nil"
  /\ err[r] = "nil" =>
       /\ want[r] # None
       /\ got[r] = want[r].bind
       /\ services[want[r].name] = got[r]
  /\ err[r] # "nil" => got[r] = None
  /\ pc[r] = "unlock" /\ err[r] # "nil" => services[want[r].name] # None

RegisterProgress == \A r \in Registrar : RegisterFacts(r)

\* A service that was read stays the one in the map.
LookupFacts(c) ==
  /\ pc[c] \notin {"check", "insert"}
  /\ pc[c] = "idle" => want[c] = None
  /\ pc[c] \in {"lock", "read", "unlock", "resolve"} => want[c] # None
  /\ pc[c] = "resolve" => spelling[c] # None
  /\ pc[c] \in {"idle", "lock", "read"} => got[c] = None
  /\ want[c] # None => want[c].bind = None
  /\ got[c] # None => want[c] # None /\ services[want[c].name] = got[c]
  /\ pc[c] = "done" /\ err[c] = "nil" /\ spelling[c] # None =>
       /\ got[c] # None
       /\ HasMethod(got[c], Title[spelling[c]])

LookupProgress == \A c \in Reader : LookupFacts(c)

\* Before the map is made nothing is registered.
UnmadeIsEmpty == ~ made => \A n \in Name : services[n] = None

Inductive ==
  TypeOK /\ HolderIsInside /\ RegisterProgress /\ LookupProgress /\ UnmadeIsEmpty
===============================================================================
