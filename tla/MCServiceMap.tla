----------------------------- MODULE MCServiceMap -----------------------------
(***************************************************************************)
(* A small instance of ServiceMap: two receivers of types with the same    *)
(* name (of two packages), one whose type has the name of the internal     *)
(* BackendService, one of unexported type, one without suitable methods.   *)
(***************************************************************************)
EXTENDS ServiceMap, TLC

CONSTANTS r1, r2, c1, greetA, greetB, myBackend, hidden, void, backend

MCRegistrar == {r1, r2}
MCReader == {c1}
MCSrv == {greetA, greetB, myBackend, hidden, void, backend}
MCName == {"Greeting", "BackendService", "hidden", "Void"}
MCNameOf == greetA :> "Greeting" @@ greetB :> "Greeting"
            @@ myBackend :> "BackendService" @@ backend :> "BackendService"
            @@ hidden :> "hidden" @@ void :> "Void"
MCExported == {"Greeting", "BackendService", "Void"}
MCMethod == {"list", "List", "Add"}
MCMethodsOf == greetA :> {"List"} @@ greetB :> {"List", "Add"}
               @@ myBackend :> {"Add"} @@ backend :> {"List"}
               @@ hidden :> {"List"} @@ void :> {}
MCTitle == "list" :> "List" @@ "List" :> "List" @@ "Add" :> "Add"
===============================================================================
