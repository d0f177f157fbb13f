----------------------------- MODULE MCCurrentUser -----------------------------
(***************************************************************************)
(* Tokens with every pair of timestamps of a four-bit int64 and right      *)
(* claims, tokens with every combination of claims and timely stamps, and  *)
(* one that does not decode.                                               *)
(***************************************************************************)
EXTENDS CurrentUser

CONSTANTS email, drive, web, android, server, k1, k2

MCId == {web, android}
MCScope == {email, drive}
MCScopeLists == {<<>>, <<email>>, <<drive, email>>, <<drive, drive>>}
MCAudiences == {{}, {server}}
MCCerts == {<<>>, <<k1>>, <<k2, k1>>, <<None, k1>>}

Good == [wellFormed |-> TRUE, key |-> k1, issuerIsGoogle |-> TRUE, aud |-> web,
         azp |-> web, email |-> TRUE, iat |-> 1, exp |-> 2]

MCToken ==
  {[Good EXCEPT !.iat = i, !.exp = e] : i \in -8 .. 7, e \in -8 .. 7}
  \cup {[Good EXCEPT !.key = k, !.issuerIsGoogle = g, !.aud = a, !.azp = c, !.email = m] :
          k \in {k1, k2}, g \in BOOLEAN, a \in {web, server, None},
          c \in {web, android, None}, m \in BOOLEAN}
  \cup {[Good EXCEPT !.wellFormed = FALSE]}
===============================================================================
