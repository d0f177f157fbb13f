------------------------------ MODULE LastAnswer ------------------------------
(***************************************************************************)
(* What the caching authenticator promises to the goroutines of a request: *)
(* a memory of the last answer of the OAuth service.  Every question has   *)
(* its reply at one instant between the call and its return, from the      *)
(* memory if that is what the service answered last with a user, and from  *)
(* the service otherwise.  CachingAuthenticator.tla, which has the mutex,  *)
(* the cache and the separate steps of asking, storing and reading back,   *)
(* implements it.                                                          *)
(***************************************************************************)
CONSTANTS
  Goroutine,   \* goroutines of the request
  Scope,       \* OAuth scopes
  UserFor,     \* the user that the service names for a scope
  None         \* no question, no reply or a reply without user, no answer

VARIABLES
  granted,     \* the scopes the service would answer for now
  last,        \* its last answer
  question,    \* what each goroutine waits for
  reply        \* the user it obtained by its last question

memoryVars == <<granted, last, question, reply>>

Init ==
  /\ granted \in SUBSET Scope
  /\ last = None
  /\ question = [g \in Goroutine |-> None]
  /\ reply = [g \in Goroutine |-> None]

\* A goroutine takes its reply, and asks another question or none.
Ask(g) ==
  /\ question[g] = None
  /\ \E q \in Scope \cup {None} : question' = [question EXCEPT ![g] = q]
  /\ reply' = [reply EXCEPT ![g] = None]
  /\ UNCHANGED <<granted, last>>

Reply(g, user) ==
  /\ question[g] # None
  /\ reply' = [reply EXCEPT ![g] = user]
  /\ question' = [question EXCEPT ![g] = None]
  /\ UNCHANGED granted

Remembered(g) == last = [scope |-> question[g], ok |-> TRUE]

Remember(g) ==
  /\ Remembered(g)
  /\ Reply(g, UserFor[question[g]])
  /\ UNCHANGED last

\* The service names a user for a scope that is granted, or fails.
Fetch(g) ==
  /\ ~ Remembered(g)
  /\ \/ /\ question[g] \in granted
        /\ Reply(g, UserFor[question[g]])
        /\ last' = [scope |-> question[g], ok |-> TRUE]
     \/ /\ Reply(g, None)
        /\ last' = [scope |-> question[g], ok |-> FALSE]

ChangeGrant ==
  /\ granted' \in SUBSET Scope
  /\ UNCHANGED <<last, question, reply>>

Next == ChangeGrant \/ \E g \in Goroutine : Ask(g) \/ Remember(g) \/ Fetch(g)

Spec == Init /\ [][Next]_memoryVars

\* Every question has its reply in the end.
FairSpec == Spec /\ \A g \in Goroutine : WF_memoryVars(Remember(g) \/ Fetch(g))
===============================================================================
