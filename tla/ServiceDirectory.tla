--------------------------- MODULE ServiceDirectory ---------------------------
(***************************************************************************)
(* What the service registry promises to its callers: a directory in which *)
(* a name is bound at most once and for ever, where every binding and      *)
(* every lookup takes effect at one instant between the call and its       *)
(* return.  ServiceMap.tla, which models serviceMap of service.go with its *)
(* mutex and its separate check and insert steps, implements it.           *)
(***************************************************************************)
CONSTANTS
  Caller,      \* goroutines, each making one call
  Name,        \* names that can be bound
  RPCService,  \* values a name can be bound to
  None         \* no binding, no wish, no answer

VARIABLES
  directory,   \* the binding of every name
  wish,        \* what each caller asked for: a name, and a service to bind
  answered,    \* the callers whose wish took effect
  answer       \* the service a caller obtained

dirVars == <<directory, wish, answered, answer>>

Wish == [name : Name, bind : RPCService \cup {None}]

Init ==
  /\ directory \in [Name -> RPCService \cup {None}]
  /\ wish = [c \in Caller |-> None]
  /\ answered = {}
  /\ answer = [c \in Caller |-> None]

\* A caller states its wish: to bind a name to a service, or to look it up.
Ask(c) ==
  /\ wish[c] = None
  /\ \E w \in Wish : wish' = [wish EXCEPT ![c] = w]
  /\ UNCHANGED <<directory, answered, answer>>

Outstanding(c) == wish[c] # None /\ c \notin answered

\* The name is free: it is bound and the caller gets the service it bound.
Bind(c) ==
  /\ Outstanding(c)
  /\ wish[c].bind # None
  /\ directory[wish[c].name] = None
  /\ directory' = [directory EXCEPT ![wish[c].name] = wish[c].bind]
  /\ answer' = [answer EXCEPT ![c] = wish[c].bind]
  /\ answered' = answered \cup {c}
  /\ UNCHANGED wish

\* The name is taken: the caller gets nothing and the binding stays.
Refuse(c) ==
  /\ Outstanding(c)
  /\ wish[c].bind # None
  /\ directory[wish[c].name] # None
  /\ answered' = answered \cup {c}
  /\ UNCHANGED <<directory, wish, answer>>

\* A lookup answers with the binding of the moment.
LookUp(c) ==
  /\ Outstanding(c)
  /\ wish[c].bind = None
  /\ answer' = [answer EXCEPT ![c] = directory[wish[c].name]]
  /\ answered' = answered \cup {c}
  /\ UNCHANGED <<directory, wish>>

Answer(c) == Bind(c) \/ Refuse(c) \/ LookUp(c)

Next == \E c \in Caller : Ask(c) \/ Answer(c)

Spec == Init /\ [][Next]_dirVars

\* Every wish takes effect in the end.
FairSpec == Spec /\ \A c \in Caller : WF_dirVars(Answer(c))
===============================================================================
