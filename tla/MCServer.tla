-------------------------------- MODULE MCServer --------------------------------
(***************************************************************************)
(* APIErrors with a known code, with another one, with none, with one that *)
(* has no body, and with one that is not final.                            *)
(***************************************************************************)
EXTENDS Server

MCCode == {0, 100, 204, 404, 418}
MCKnownCode == {500, 400, 401, 403, 404, 409}
===============================================================================
