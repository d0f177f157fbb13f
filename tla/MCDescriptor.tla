------------------------------ MODULE MCDescriptor ------------------------------
(***************************************************************************)
(* Messages that are recursive, empty, unnamed, without a schema name, no  *)
(* structs, embedded, of one name, or have fields that cannot be           *)
(* parameters or properties; and services of two methods, whose names      *)
(* differ in case alone.                                                   *)
(***************************************************************************)
EXTENDS Descriptor, TLC

F(n, k, form, t, tag) ==
  [name |-> n, json |-> k, exported |-> TRUE, anonymous |-> FALSE, word |-> FALSE,
   form |-> form, type |-> t, tag |-> tag]

Word(f) == [f EXCEPT !.word = TRUE]
Hidden(f) == [f EXCEPT !.exported = FALSE]
Embedded(f) == [f EXCEPT !.anonymous = TRUE]

MCFields ==
  "int" :> <<>> @@ "bytes" :> <<>> @@ "map" :> <<>> @@ "Names" :> <<>> @@ "Void" :> <<>>
  @@ "Time" :> <<Hidden(F("wall", "wall", "value", "int", "plain"))>>
  @@ "Mark" :> <<F("At", "At", "ptr", "Mark", "plain")>>
  @@ "Item" :> <<Word(F("Id", "Id", "value", "int", "plain")),
                 Word(F("Mark", "Mark", "ptr", "Mark", "plain"))>>
  @@ "item" :> <<F("Page", "page", "ptr", "Page", "plain"), F("Skip", "-", "value", "map", "both")>>
  @@ "Page" :> <<F("Items", "items", "ptrs", "Item", "plain"), F("At", "at", "value", "Time", "plain"),
                 F("Raw", "raw", "value", "bytes", "plain"), F("Size", "size", "value", "int", "default")>>
  @@ "Node" :> <<Word(F("Id", "id", "value", "int", "plain")), F("Kids", "kids", "ptrs", "Node", "plain")>>
  @@ "Tree" :> <<F("Left", "left", "ptr", "Twig", "plain"), F("Times", "times", "slice", "Time", "plain")>>
  @@ "Twig" :> <<F("Up", "up", "ptr", "Tree", "plain"), F("Id", "Id", "value", "int", "bad bound")>>
  @@ "Base" :> <<Embedded(F("Item", "item", "value", "Item", "plain")),
                 Word(F("Sub", "sub", "value", "Item", "plain"))>>
  @@ "Over" :> <<F("Id", "Id", "ptr", "int", "plain"), Embedded(F("Node", "Node", "ptr", "Node", "plain"))>>
  @@ "Bad" :> <<F("Any", "any", "ptr", "map", "plain"), F("Page", "page", "value", "Page", "plain")>>
  @@ "Worse" :> <<F("Bad", "bad", "slice", "Bad", "plain")>>
  @@ "Tagged" :> <<F("Id", "Id", "ptr", "int", "default")>>
  @@ "Latin" :> <<F("Next", "next", "ptr", "Latin", "plain"), F("Id", "Id", "value", "int", "plain")>>
  @@ "struct" :> <<F("Id", "Id", "value", "int", "both")>>

MCType == DOMAIN MCFields
MCKind == [t \in MCType |-> CASE t = "int" -> "simple"
                              [] t = "bytes" -> "bytes"
                              [] t \in {"map", "Names"} -> "other"
                              [] OTHER -> "struct"]
MCMarshals == [t \in MCType |-> IF t \in {"Time", "Mark"} THEN "pointer" ELSE "no"]
\* Of the name of "Latin" in Go, which has other letters, nothing is left.
MCGoName == [t \in MCType |-> IF t \in {"struct", "map", "bytes"} THEN None ELSE t]
MCSchemaName == [t \in MCType |-> CASE t \in {"struct", "map", "bytes", "Latin"} -> None
                                    [] t = "item" -> "Item"
                                    [] OTHER -> t]

MCLower == "List" :> "list" @@ "LIST" :> "list"

Message == MCType \ {"int", "bytes", "map", "Mark", "Time"}
MCService ==
  {"List" :> [req |-> r, resp |-> s] @@ "LIST" :> [req |-> other[1], resp |-> other[2]] :
     r, s \in Message,
     other \in {<<"Item", "Over">>, <<"Base", "Tree">>}}

I(n, h, p) == [name |-> <<n>>, http |-> h, path |-> p]
MCSetting ==
  "List" :> {I("get", "GET", <<"list">>), I("post", "POST", <<"list", "{", "Id", "}">>),
             I("put", "POST", <<"list", "{", "sub", "Id", "}">>),
             I("put", "POST", <<"list", "{", "}", "{", "Id", "}">>),
             I("put", "PUT", <<"list", "}", "{", "Id">>)}
  @@ "LIST" :> {I("mark", "POST", <<"list", "{", "Mark", "}">>)}
===============================================================================
