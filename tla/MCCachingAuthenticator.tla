------------------------- MODULE MCCachingAuthenticator -------------------------
(***************************************************************************)
(* Two goroutines that share a request's authenticator, two scopes with    *)
(* different clients, and every order of preference among them.            *)
(***************************************************************************)
EXTENDS CachingAuthenticator, TLC

CONSTANTS g1, g2, email, drive, web, android

MCGoroutine == {g1, g2}
MCScope == {email, drive}
MCClient == {web, android}
MCClientOf == email :> web @@ drive :> android
MCScopeLists == {<<>>, <<email>>, <<drive>>, <<email, drive>>, <<drive, email>>}
===============================================================================
