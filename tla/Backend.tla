-------------------------------- MODULE Backend --------------------------------
(***************************************************************************)
(* BackendService of endpoints/backend.go, which ServeHTTP reaches through *)
(* the registry of ServiceMap.tla like any other service.  GetApiConfigs   *)
(* and GetFirstConfig range over serviceMap.services without its mutex,    *)
(* while other goroutines may still register.                              *)
(*                                                                         *)
(* A range over a Go map visits in any order every entry that is there,    *)
(* once.  That is promised when no write races with it: a write that the   *)
(* goroutine of the range is not synchronized with is a data race, whose   *)
(* outcome is open.  The range may then miss entries, visit some again,    *)
(* see an entry without its service, or the runtime may throw (concurrent  *)
(* map iteration and map write), which ends the process.  The last time    *)
(* that the goroutine held the mutex, in get, is what it is synchronized   *)
(* with.                                                                   *)
(***************************************************************************)
EXTENDS ServiceMap, Naturals, Sequences

CONSTANTS
  GetApiConfigs, GetFirstConfig,  \* methods of the BackendService
  Undescribable,                  \* receivers whose APIDescriptor is an error
  MaxItems                        \* bound: how long a list grows by visiting again

ASSUME BackendAssumption ==
  /\ {GetApiConfigs, GetFirstConfig} \subseteq MethodsOf[BackendSrv]
  /\ GetApiConfigs # GetFirstConfig
  /\ Undescribable \subseteq Srv \ {BackendSrv}
  /\ MaxItems \in Nat

VARIABLES
  lpc,       \* where the call of a backend method is
  before,    \* history: the names of services when its get held the mutex
  seen,      \* the names it has visited
  items,     \* resp.Items: the services it described
  result,    \* the error it returned: "nil", "revision", "descriptor", "not found",
             \* or "panic"
  raced,     \* history: the calls whose range was in a data race
  thrown     \* whether the runtime ended the process

listVars == <<lpc, before, seen, items, result, raced, thrown>>
allVars == <<vars, listVars>>

-------------------------------------------------------------------------------
Bound == {n \in Name : services[n] # None}

ListTypeOK ==
  /\ lpc \in [Reader -> {"idle", "range", "done"}]
  /\ before \in [Reader -> SUBSET Name]
  /\ seen \in [Reader -> SUBSET Name]
  /\ items \in [Reader -> Seq(RPCService)]
  /\ result \in [Reader -> {"pending", "nil", "revision", "descriptor", "not found",
                            "panic"}]
  /\ raced \subseteq Reader
  /\ thrown \in BOOLEAN

ListInit ==
  /\ Init
  /\ lpc = [c \in Reader |-> "idle"]
  /\ before = [c \in Reader |-> {}]
  /\ seen = [c \in Reader |-> {}]
  /\ items = [c \in Reader |-> <<>>]
  /\ result = [c \in Reader |-> "pending"]
  /\ raced = {}
  /\ thrown = FALSE

\* The registry's own step of a call, which is synchronized with every
\* registration before it when it holds the mutex.
Find(c) ==
  /\ LookUp(c)
  /\ before' = IF pc[c] = "read" THEN [before EXCEPT ![c] = Bound] ELSE before
  /\ UNCHANGED <<lpc, seen, items, result, raced, thrown>>

\* ServeHTTP calls the method that get found.
Calls(c, m) ==
  /\ pc[c] = "done" /\ err[c] = "nil"
  /\ spelling[c] # None
  /\ got[c] = BackendService
  /\ Title[spelling[c]] = m

End(c, e) ==
  /\ lpc' = [lpc EXCEPT ![c] = "done"]
  /\ result' = [result EXCEPT ![c] = e]

-------------------------------------------------------------------------------
\* GetApiConfigs refuses a request for another revision of the application.
WrongRevision(c) ==
  /\ lpc[c] = "idle"
  /\ Calls(c, GetApiConfigs)
  /\ End(c, "revision")
  /\ UNCHANGED <<vars, before, seen, items, raced, thrown>>

StartRange(c) ==
  /\ lpc[c] = "idle"
  /\ Calls(c, GetApiConfigs) \/ Calls(c, GetFirstConfig)
  /\ lpc' = [lpc EXCEPT ![c] = "range"]
  /\ UNCHANGED <<vars, before, seen, items, result, raced, thrown>>

\* The names that have been written to the map, or are being.
Written == Bound \cup {want[r].name : r \in {q \in Registrar : pc[q] = "insert"}}

\* One of the writes is none that the call is synchronized with.
Race(c) == Written # before[c]

ReadsMap(c) ==
  /\ lpc[c] = "range"
  /\ raced' = IF Race(c) THEN raced \cup {c} ELSE raced

Visit(c, n) ==
  /\ ReadsMap(c)
  /\ n \in Bound
  /\ n \in seen[c] => Race(c) /\ Len(items[c]) < MaxItems
  /\ seen' = [seen EXCEPT ![c] = @ \cup {n}]

\* An entry whose write the call is not synchronized with may be there without
\* its service: service.internal is read through a nil pointer.
VisitTorn(c) ==
  /\ ReadsMap(c)
  /\ Race(c)
  /\ End(c, "panic")
  /\ UNCHANGED <<vars, before, seen, items, thrown>>

\* The BackendService is internal: it has no ServiceInfo and is left out.
Internal(n) == services[n].by = NewServer

VisitInternal(c, n) ==
  /\ Visit(c, n)
  /\ Internal(n)
  /\ UNCHANGED <<vars, lpc, before, items, result, thrown>>

\* Mutant of Describe: the descriptor is appended before it is filled.
DescribeNil(c, n) == items' = [items EXCEPT ![c] = Append(@, None)]

Describe(c, n) == items' = [items EXCEPT ![c] = Append(@, services[n])]

\* Mutant of VisitPublic: a service without a descriptor is skipped.
VisitPublicSkipping(c, n) ==
  /\ Visit(c, n)
  /\ ~ Internal(n)
  /\ IF services[n].srv \in Undescribable THEN UNCHANGED items ELSE Describe(c, n)
  /\ UNCHANGED <<vars, lpc, before, result, thrown>>

\* Another: the list ends, without error, where there is none.
VisitPublicBreaks(c, n) ==
  /\ Visit(c, n)
  /\ ~ Internal(n)
  /\ IF services[n].srv \in Undescribable THEN UNCHANGED items ELSE Describe(c, n)
  /\ IF services[n].srv \in Undescribable \/ Calls(c, GetFirstConfig)
       THEN End(c, "nil") ELSE UNCHANGED <<lpc, result>>
  /\ UNCHANGED <<vars, before, thrown>>

\* GetApiConfigs gives up at the first service it cannot describe, and
\* GetFirstConfig returns at the first service.
VisitPublic(c, n) ==
  /\ Visit(c, n)
  /\ ~ Internal(n)
  /\ \/ /\ services[n].srv \in Undescribable
        /\ End(c, "descriptor")
        /\ UNCHANGED items
     \/ /\ services[n].srv \notin Undescribable
        /\ Describe(c, n)
        /\ IF Calls(c, GetFirstConfig) THEN End(c, "nil") ELSE UNCHANGED <<lpc, result>>
  /\ UNCHANGED <<vars, before, thrown>>

\* Every entry has been visited, as far as that is promised.
EndRange(c) ==
  /\ ReadsMap(c)
  /\ before[c] \subseteq seen[c] \/ Race(c)
  /\ End(c, IF Calls(c, GetApiConfigs) THEN "nil" ELSE "not found")
  /\ UNCHANGED <<vars, before, seen, items, thrown>>

\* The runtime notices that a map is written to while it is ranged over.
Throw(r, c) ==
  /\ pc[r] = "insert"
  /\ lpc[c] = "range"
  /\ thrown' = TRUE
  /\ UNCHANGED <<vars, lpc, before, seen, items, result, raced>>

-------------------------------------------------------------------------------
List(c) ==
  \/ WrongRevision(c)
  \/ StartRange(c)
  \/ \E n \in Name : VisitInternal(c, n) \/ VisitPublic(c, n)
  \/ VisitTorn(c)
  \/ EndRange(c)

Stopped ==
  /\ thrown \/ \A c \in Caller : pc[c] = "done"
  /\ UNCHANGED allVars

ListNext ==
  \/ /\ ~ thrown
     /\ \/ (\E r \in Registrar : Register(r)) /\ UNCHANGED listVars
        \/ \E c \in Reader : Find(c) \/ List(c)
        \/ \E r \in Registrar, c \in Reader : Throw(r, c)
  \/ Stopped

ListSpec == ListInit /\ [][ListNext]_allVars

-------------------------------------------------------------------------------
(* Properties *)

Listed(c) == {items[c][i] : i \in DOMAIN items[c]}

\* A list of configurations that is returned without error has registered
\* services of the application only; and, unless registrations raced with it,
\* all of them, each once.
ListingIsComplete ==
  \A c \in Reader :
    lpc[c] = "done" /\ result[c] = "nil" /\ Calls(c, GetApiConfigs) =>
      /\ \A s \in Listed(c) : s # BackendService /\ \E n \in Name : services[n] = s
      /\ c \notin raced =>
           /\ \A n \in before[c] : ~ Internal(n) => services[n] \in Listed(c)
           /\ \A i, j \in DOMAIN items[c] : i # j => items[c][i] # items[c][j]

\* One service that cannot be described keeps all the others from being
\* listed: without a race, a list is returned only when there is none such.
OneBadServiceHidesAll ==
  \A c \in Reader \ raced :
    lpc[c] = "done" /\ Calls(c, GetApiConfigs)
      /\ (\E n \in before[c] : services[n].srv \in Undescribable) =>
    result[c] # "nil"

\* Without a race, GetFirstConfig finds no public service only when there is
\* none.
NotFoundMeansNone ==
  \A c \in Reader \ raced :
    result[c] = "not found" => \A n \in before[c] : Internal(n)

\* As the comment on GetApiConfigs has it: every service that was registered
\* before the call found the method is in a list that is returned.
EveryServiceIsListed ==
  \A c \in Reader :
    lpc[c] = "done" /\ result[c] = "nil" /\ Calls(c, GetApiConfigs) =>
      \A n \in before[c] : ~ Internal(n) => services[n] \in Listed(c)
===============================================================================
