----------------------------- MODULE MCKeyRotation -----------------------------
(***************************************************************************)
(* The key k1 is replaced by k2 after a time in which both are published.  *)
(* Answers have a max-age of a second.                                     *)
(***************************************************************************)
EXTENDS KeyRotation

CONSTANTS r1, r2, k1, k2, web

MCRequest == {r1, r2}
MCAnswer == {[maxAges |-> <<1>>, aged |-> TRUE, body |-> "list"]}

MCPublished == [t \in 0 .. MaxTime |-> CASE t < 1 -> <<k1>>
                                         [] t = 1 -> <<k1, k2>>
                                         [] OTHER -> <<k2>>]

MCToken ==
  {[wellFormed |-> TRUE, key |-> k, issuerIsGoogle |-> TRUE, aud |-> web,
    azp |-> web, email |-> TRUE, iat |-> 1, exp |-> 4] : k \in {k1, k2}}
===============================================================================
