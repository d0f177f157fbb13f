------------------------------- MODULE MCBackend -------------------------------
(***************************************************************************)
(* Two registrations, of a service that can be described and of one that   *)
(* cannot, and a call of a method of the BackendService.                   *)
(***************************************************************************)
EXTENDS Backend, TLC

CONSTANTS r1, r2, c1, greeter, broken, backend

MCRegistrar == {r1, r2}
MCReader == {c1}
MCSrv == {greeter, broken, backend}
MCName == {"Greeting", "Broken", "BackendService"}
MCNameOf == greeter :> "Greeting" @@ broken :> "Broken" @@ backend :> "BackendService"
MCExported == MCName
MCMethod == {"list", "List", "getApiConfigs", "GetApiConfigs", "GetFirstConfig"}
MCMethodsOf == greeter :> {"List"} @@ broken :> {"List"}
               @@ backend :> {"GetApiConfigs", "GetFirstConfig"}
MCTitle == [m \in MCMethod |->
              CASE m = "list" -> "List"
                [] m = "getApiConfigs" -> "GetApiConfigs"
                [] OTHER -> m]
===============================================================================
