----------------------------- MODULE MCValidation -----------------------------
(***************************************************************************)
(* Every type of one field with a default and a minimum, or with two       *)
(* bounds, and every type of two fields out of a few.  Integers have 3     *)
(* bits (8 and 16), 4 (32) and 5 (64).                                     *)
(***************************************************************************)
EXTENDS Validation, TLC

MCText == {"2", "010", "0x3", "40", "true"}
MCDecimal == "2" :> 2 @@ "010" :> 4 @@ "40" :> 40 @@ "0x3" :> None @@ "true" :> None
MCLiteral == "2" :> 2 @@ "010" :> 3 @@ "40" :> 40 @@ "0x3" :> 3 @@ "true" :> None
MCTruth == [s \in MCText |-> IF s = "true" THEN 1 ELSE None]
MCRank == "010" :> 1 @@ "0x3" :> 2 @@ "2" :> 3 @@ "40" :> 4 @@ "true" :> 5

MCBits == [k \in SignedKind \cup UnsignedKind |->
             CASE k \in {"int8", "uint8", "int16", "uint16"} -> 3
               [] k \in {"int32", "uint32"} -> 4
               [] OTHER -> 5]

MCSent == [k \in Kind |->
             CASE k \in SignedKind -> {-1, 0, 2, 3}
               [] k \in UnsignedKind -> {0, 2, 3, 5}
               [] k = "bool" -> {0, 1}
               [] OTHER -> {0, 2, 3}]

F(k, n, e, r, d, lo, hi) ==
  [kind |-> k, named |-> n, exported |-> e, required |-> r,
   defaultVal |-> d, minVal |-> lo, maxVal |-> hi]

Tag == MCText \cup {None}

\* A default with a lower bound, and a pair of bounds.
Single ==
  {F(k, n, e, r, d, lo, None) : k \in Kind, n, e, r \in BOOLEAN, d, lo \in Tag} \cup
  {F(k, FALSE, TRUE, r, None, lo, hi) : k \in Kind, r \in BOOLEAN, lo, hi \in Tag}

Few ==
  {F(k, FALSE, TRUE, r, d, lo, hi) :
     k \in {"int", "uint8", "string", "slice"}, r \in BOOLEAN,
     d \in {None, "2"}, lo \in {None, "2", "010"}, hi \in {None, "40"}}

MCStruct == {<<>>} \cup {<<f>> : f \in Single} \cup {<<f, g>> : f, g \in Few}
===============================================================================
