------------------------------ MODULE MCCertCache ------------------------------
(***************************************************************************)
(* Two requests and a short clock.  The answers have no max-age, a max-age *)
(* of a second after another directive, and one of so many seconds that    *)
(* the duration overflows; one has no Age, one no list.                    *)
(***************************************************************************)
EXTENDS CertCache, TLC

CONSTANTS r1, r2

MCRequest == {r1, r2}
MCAnswer ==
  {[maxAges |-> <<0>>, aged |-> TRUE, body |-> "list"],
   [maxAges |-> <<0, 1>>, aged |-> TRUE, body |-> "list"],
   [maxAges |-> <<0, 1>>, aged |-> TRUE, body |-> "garbage"],
   [maxAges |-> <<9>>, aged |-> TRUE, body |-> "list"],
   [maxAges |-> <<9>>, aged |-> FALSE, body |-> "list"]}
MCSymmetry == Permutations(MCRequest)
================================================================================
