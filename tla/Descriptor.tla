------------------------------- MODULE Descriptor -------------------------------
(***************************************************************************)
(* RPCService.APIDescriptor of endpoints/apiconfig.go, with the default    *)
(* infos that newServiceMethod of endpoints/service.go gives to methods:   *)
(* it ranges over the methods of a service in any order, checks their      *)
(* routes and parameters and collects the types of their messages, and     *)
(* then adds a schema for each, recursively, into a map by name.           *)
(*                                                                         *)
(* A Go type is a model of what reflect tells of it.  A path is a sequence *)
(* of tokens, of which "{" and "}" delimit parameters, and a name of a     *)
(* flattened field such as a.b is the sequence of its parts.  Types,       *)
(* formats and descriptions that are only copied are left out.             *)
(***************************************************************************)
EXTENDS Integers, SequencesExt

CONSTANTS
  Type,        \* the types of messages and of their fields
  Kind,        \* "simple" (typeToPropFormat knows it), "bytes", "struct", "other"
  Fields,      \* the fields of a struct, <<>> of any other type
  Marshals,    \* which of its value and pointer implement jsonMarshaler
  GoName,      \* reflect's name of a type, None for an unnamed one
  SchemaName,  \* schemaNameForType: by default made of GoName, None if no
               \* character that is allowed is left of it
  Time,        \* time.Time
  Service,     \* services: functions from methods to their messages
  Lower,       \* strings.ToLower on the names of methods
  Setting,     \* the infos that an application may give to each method instead
  None         \* the empty name, and an error of parsePath

\* The form of a field: its type, a pointer to it, a slice of it or of pointers.
Form == {"value", "ptr", "slice", "ptrs"}

\* name, json: the name in Go, and in JSON or "-"; word: the tag has "required".
\* tag: whether parseTag and parseValue understand it, for an integer.
IsField(f) ==
  /\ f.form \in Form /\ f.type \in Type
  /\ {f.exported, f.anonymous, f.word} \subseteq BOOLEAN
  /\ f.tag \in {"plain", "default", "both", "bad default", "bad bound"}

ASSUME TypeAssumption ==
  /\ Kind \in [Type -> {"simple", "bytes", "struct", "other"}]
  /\ Marshals \in [Type -> {"value", "pointer", "no"}]
  /\ \A t \in Type : /\ \A i \in DOMAIN Fields[t] : IsField(Fields[t][i])
                     /\ Kind[t] # "struct" => Fields[t] = <<>>
  /\ Time \in Type /\ Kind[Time] = "struct"
  /\ IsFiniteSet(Type)

\* The types that Step leads to from those of S, in any number of steps.
Closure(S, Step(_)) ==
  LET Within[k \in Nat] ==
        IF k = 0 THEN S
        ELSE LET nearer == Within[k - 1] IN nearer \cup UNION {Step(t) : t \in nearer}
  IN Within[Cardinality(Type)]

\* Go has no type that contains itself by value.
ASSUME ValueAssumption ==
  LET Contained(t) == {f.type : f \in {g \in Range(Fields[t]) : g.form = "value"}}
  IN \A t \in Type : t \notin Closure(Contained(t), Contained)

ASSUME ServiceAssumption ==
  \A s \in Service : /\ DOMAIN s # {} /\ IsFiniteSet(DOMAIN s)
                     /\ \A m \in DOMAIN s : {s[m].req, s[m].resp} \subseteq Type

-------------------------------------------------------------------------------
(* fieldNames *)

IsStruct(f) == Kind[f.type] = "struct"

\* implements: the type itself, or what it points to or has as elements.
Marshaler(f) == \/ Marshals[f.type] = "value" /\ f.form # "ptrs"
                \/ Marshals[f.type] # "no" /\ f.form \in {"ptr", "ptrs"}

Own(f) == f.exported /\ f.json # "-"
Embeds(f) == f.anonymous /\ f.form = "value" /\ IsStruct(f)
Flattens(f) == f.form # "ptrs" /\ IsStruct(f) /\ ~ Marshaler(f)

\* The types that fieldNames would flatten for ever.
Expanded(t) == {f.type : f \in {g \in Range(Fields[t]) : Own(g) /\ (Embeds(g) \/ Flattens(g))}}
Endless ==
  {t \in Type : \E u \in Closure({t}, Expanded) : u \in Closure(Expanded(u), Expanded)}

Under(k, m) == [n \in {<<k>> \o x : x \in DOMAIN m} |-> m[Tail(n)]]

\* From names to fields, for a type that nests no deeper than depth: a field
\* replaces those of its name that came before it, embedded ones too.
NamesWithin(flatten) ==
  LET Of[depth \in Nat, t \in Type] ==
        LET Named(f) ==
              CASE ~ Own(f) -> <<>>
                [] Own(f) /\ Embeds(f) -> Of[depth - 1, f.type]
                [] Own(f) /\ ~ Embeds(f) /\ flatten /\ Flattens(f) ->
                     Under(f.json, Of[depth - 1, f.type])
                [] OTHER -> <<f.json>> :> f
        IN FoldLeft(LAMBDA m, f : Named(f) @@ m, <<>>, Fields[t])
  IN Of

flatNames == [t \in Type \ Endless |-> NamesWithin(TRUE)[Cardinality(Type), t]]
ownNames == [t \in Type |-> NamesWithin(FALSE)[Cardinality(Type), t]]
fieldNames(flatten, t) == IF flatten THEN flatNames[t] ELSE ownNames[t]

-------------------------------------------------------------------------------
(* Paths *)

Opening == "{"
Closing == "}"

Positions(p, i, token) == {j \in i .. Len(p) : p[j] = token}

\* The parameters of a path; the last one is None if it is malformed: the next
\* closing bracket must come after the next opening one.
parsePath(p) ==
  LET From[i \in Nat] ==
        LET open == Positions(p, i, Opening)
            close == Positions(p, i, Closing)
        IN CASE open = {} -> <<>>
             [] open # {} /\ (close = {} \/ Min(close) < Min(open)) -> <<None>>
             [] OTHER -> <<SubSeq(p, Min(open) + 1, Min(close) - 1)>> \o From[Min(close) + 1]
  IN From[1]

\* Mutant of Shape: paths are compared with the names of their parameters.
ShapeNamed(p) == p

\* The tokens of a path at the positions of S.
Kept(p, S) ==
  LET order == SetToSortSeq(S, <) IN [j \in DOMAIN order |-> p[order[j]]]

\* The expression {.+?} matches from an opening bracket to the first closing one
\* that leaves a token between them.
Openings(p) == {o \in DOMAIN p : p[o] = Opening}
MatchEnds(p, o) == Positions(p, o + 2, Closing)
MatchEnd(p, o) == Min(MatchEnds(p, o))

\* Where the matches begin: from the left, each after the end of those before it.
Matches(p) ==
  CHOOSE S \in SUBSET Openings(p) :
    \A o \in Openings(p) :
      o \in S <=> MatchEnds(p, o) # {} /\ \A x \in S : x < o => MatchEnd(p, x) < o

\* The path with each match of {.+?} replaced by empty brackets.
Shape(p) == Kept(p, {i \in DOMAIN p : \A o \in Matches(p) : i <= o \/ i >= MatchEnd(p, o)})

\* The info of a method that the application leaves as newServiceMethod made it.
requiredParamNames(t) ==
  LET required == SelectSeq(Fields[t], LAMBDA f : f.exported /\ f.word)
  IN [i \in DOMAIN required |-> required[i].name]

DefaultInfo(m, t) ==
  LET params == requiredParamNames(t) IN
  [name |-> <<Lower[m]>>,
   http |-> CASE Kind[t] # "struct" -> ""
              [] Len(params) = Len(Fields[t]) /\ Kind[t] = "struct" -> "GET"
              [] OTHER -> "POST",
   path |-> FoldLeft(LAMBDA p, k : p \o <<Opening, k, Closing>>, <<Lower[m]>>, params)]

-------------------------------------------------------------------------------
(* Fields as parameters and as properties *)

\* fieldToParamSpec refuses the type or the tag of a field.
ParamFails(f) ==
  LET integer == Kind[f.type] = "simple" /\ f.form \in {"value", "ptr"} IN
  \/ ~ (integer \/ (Kind[f.type] = "bytes" /\ f.form = "value") \/ Marshaler(f))
  \/ f.tag \in {"both", "bad default"}
  \/ f.tag = "default" /\ ~ integer
  \/ f.tag = "bad bound" /\ integer

\* addSchemaFromType refuses the type or the tag of a field: here the default
\* of a pointer is parsed as a value of kind reflect.Ptr.
PropertyFails(f) ==
  \/ f.form = "ptr" /\ Kind[f.type] \in {"bytes", "other"} /\ ~ Marshaler(f)
  \/ f.tag \in {"both", "bad default"}
  \/ f.tag = "default" /\ ~ (f.form = "value" /\ Kind[f.type] = "simple")

\* The property of a field is a reference to the schema of its type.
Refers(f) ==
  /\ IsStruct(f)
  /\ ~ Marshaler(f)
  /\ f.form \in {"value", "ptr"} => f.type # Time

\* reflect's fields of the type of a schema, by their names in JSON.
Properties(t) == IF Kind[t] = "struct" THEN Range(fieldNames(FALSE, t)) ELSE {}

Describes(t) == \A f \in Properties(t) : ~ PropertyFails(f)

\* The types whose schemas are ensured with that of a type.
Nested(t) == {u \in Type : \E f \in Properties(t) : Refers(f) /\ f.type = u}

NamesOf(S) == {SchemaName[t] : t \in S}

\* The key that addSchemaFromType adds a type with: references to a type without
\* a schema name are empty, and its schema is kept under its name in Go.
Key(t) == IF SchemaName[t] # None THEN SchemaName[t] ELSE GoName[t]

\* Maps from names to types, with any of those that share a name.
Ensured(S) == {e \in [NamesOf(S) -> S] : \A n \in NamesOf(S) : SchemaName[e[n]] = n}

-------------------------------------------------------------------------------
VARIABLES
  service,     \* the messages of the methods of the service
  info,        \* the infos of its methods
  left,        \* the methods that the loop has not visited
  dups,        \* the routes seen
  descr,       \* Descriptor.Methods: the references of each method
  names,       \* the keys of Methods
  toCreate,    \* schemasToCreate
  schemas,     \* Descriptor.Schemas, as the types described
  stack,       \* what the calls of addSchemaFromType range over, innermost first
  outcome      \* "running", "ok", "error", or "crash": out of stack

vars == <<service, info, left, dups, descr, names, toCreate, schemas, stack, outcome>>

Init ==
  /\ service \in Service
  /\ LET Infos(m) == Setting[m] \cup {DefaultInfo(m, service[m].req)}
         all == UNION {Infos(m) : m \in DOMAIN service}
     IN info \in {i \in [DOMAIN service -> all] : \A m \in DOMAIN i : i[m] \in Infos(m)}
  /\ left = DOMAIN service
  /\ dups = {} /\ names = {}
  /\ descr = <<>> /\ toCreate = <<>> /\ schemas = <<>>
  /\ stack = <<>>
  /\ outcome = "running"

isBodiless(m) == info[m].http \in {"GET", "DELETE"}
isEmptyStruct(t) == Kind[t] = "struct" /\ Fields[t] = <<>>
Route(m) == <<info[m].http, Shape(info[m].path)>>

\* The messages that a method refers to.
Referred(m) ==
  {t \in (IF isBodiless(m) THEN {} ELSE {service[m].req}) \cup {service[m].resp} :
     ~ isEmptyStruct(t)}

\* The map f with v at k.
Put(f, k, v) == [x \in DOMAIN f \cup {k} |-> IF x = k THEN v ELSE f[x]]

\* Mutant of Collect: a method forgets the types of the one before it.
CollectAnew(m, types) ==
  IF service[m].resp \in Referred(m) THEN Put(<<>>, SchemaName[service[m].resp], service[m].resp)
  ELSE types

\* The map types with those messages, of which the response comes last.
Collect(m, types) ==
  LET Add(t, f) == IF t \in Referred(m) THEN Put(f, SchemaName[t], t) ELSE f
  IN Add(service[m].resp, Add(service[m].req, types))

\* Mutant of Begin: schemas are added after each method.
BeginEach(types) == <<types>>

\* The end of the loop over methods starts that over schemasToCreate.
Begin(types) == IF left' = {} THEN <<types>> ELSE <<>>

\* Errors before the fields are looked at, and those of the fields.
Malformed(m) == \/ Kind[service[m].req] # "struct"
                \/ ~ isBodiless(m) /\ None \in Range(parsePath(info[m].path))

BadParam(m) ==
  LET fields == fieldNames(TRUE, service[m].req)
      params == IF isBodiless(m) THEN DOMAIN fields ELSE Range(parsePath(info[m].path))
  IN \E k \in params : k \in DOMAIN fields => ParamFails(fields[k])

\* An iteration of the loop over methods, with toAPIMethod.
DescribeMethod(m) ==
  LET req == service[m].req IN
  /\ outcome = "running"
  /\ m \in left
  /\ Route(m) \notin dups
  /\ ~ Malformed(m)
  /\ req \notin Endless
  /\ ~ BadParam(m)
  /\ info[m].name \notin names
  /\ left' = left \ {m}
  /\ dups' = dups \cup {Route(m)}
  /\ names' = names \cup {info[m].name}
  /\ descr' = Put(descr, m, NamesOf(Referred(m)))
  /\ toCreate' = Collect(m, toCreate)
  /\ stack' = Begin(toCreate')
  /\ UNCHANGED <<service, info, schemas, outcome>>

RefuseMethod(m) ==
  /\ outcome = "running"
  /\ m \in left
  /\ \/ Route(m) \in dups
     \/ Malformed(m)
     \/ /\ service[m].req \notin Endless
        /\ BadParam(m) \/ info[m].name \in names
  /\ outcome' = "error"
  /\ UNCHANGED <<service, info, left, dups, descr, names, toCreate, schemas, stack>>

\* fieldNames calls itself until the stack of the goroutine is full, which the
\* Go runtime does not recover from.
Overflow(m) ==
  /\ outcome = "running"
  /\ m \in left
  /\ Route(m) \notin dups
  /\ ~ Malformed(m)
  /\ service[m].req \in Endless
  /\ outcome' = "crash"
  /\ UNCHANGED <<service, info, left, dups, descr, names, toCreate, schemas, stack>>

\* addSchemaFromType for a name of the innermost range.
Visit(n) ==
  /\ outcome = "running"
  /\ stack # <<>>
  /\ n \in DOMAIN Head(stack)

KeyAt(n) == Key(Head(stack)[n])
Others(n) == Restrict(Head(stack), DOMAIN Head(stack) \ {n})

\* Mutant of SkipSchema: a schema that exists ends the loop around the call.
SkipSchemas(n) ==
  /\ Visit(n)
  /\ KeyAt(n) # None
  /\ KeyAt(n) \in DOMAIN schemas
  /\ stack' = <<<<>>>> \o Tail(stack)
  /\ UNCHANGED <<service, info, left, dups, descr, names, toCreate, schemas, outcome>>

SkipSchema(n) ==
  /\ Visit(n)
  /\ KeyAt(n) # None
  /\ KeyAt(n) \in DOMAIN schemas
  /\ stack' = <<Others(n)>> \o Tail(stack)
  /\ UNCHANGED <<service, info, left, dups, descr, names, toCreate, schemas, outcome>>

RefuseSchema(n) ==
  /\ Visit(n)
  /\ \/ KeyAt(n) = None
     \/ KeyAt(n) \notin DOMAIN schemas /\ ~ Describes(Head(stack)[n])
  /\ outcome' = "error"
  /\ UNCHANGED <<service, info, left, dups, descr, names, toCreate, schemas, stack>>

\* Mutant of AddSchema: the schema gets into the map after those of its
\* properties, so that it is not seen by them.
AddSchemaLast(n) ==
  /\ Visit(n)
  /\ KeyAt(n) # None
  /\ KeyAt(n) \notin DOMAIN schemas
  /\ LET t == Head(stack)[n] IN
       /\ Describes(t)
       /\ schemas' = IF Nested(t) = {} THEN Put(schemas, KeyAt(n), t) ELSE schemas
       /\ \E e \in Ensured(Nested(t)) : stack' = <<e>> \o stack
  /\ UNCHANGED <<service, info, left, dups, descr, names, toCreate, outcome>>

\* The schema is in the map before those of its properties are ensured.
AddSchema(n) ==
  /\ Visit(n)
  /\ KeyAt(n) # None
  /\ KeyAt(n) \notin DOMAIN schemas
  /\ LET t == Head(stack)[n] IN
       /\ Describes(t)
       /\ schemas' = Put(schemas, KeyAt(n), t)
       /\ \E e \in Ensured(Nested(t)) : stack' = <<e, Others(n)>> \o Tail(stack)
  /\ UNCHANGED <<service, info, left, dups, descr, names, toCreate, outcome>>

\* Mutant of Return: the outermost call returns to itself.
ReturnAgain ==
  /\ outcome = "running"
  /\ stack # <<>>
  /\ DOMAIN Head(stack) = {}
  /\ stack' = IF Len(stack) = 1 THEN <<toCreate>> ELSE Tail(stack)
  /\ UNCHANGED <<service, info, left, dups, descr, names, toCreate, schemas, outcome>>

Return ==
  /\ outcome = "running"
  /\ stack # <<>>
  /\ DOMAIN Head(stack) = {}
  /\ stack' = Tail(stack)
  /\ outcome' = IF Tail(stack) = <<>> THEN "ok" ELSE outcome
  /\ UNCHANGED <<service, info, left, dups, descr, names, toCreate, schemas>>

Next ==
  \/ \E m \in left : DescribeMethod(m) \/ RefuseMethod(m) \/ Overflow(m)
  \/ \E n \in NamesOf(Type) : SkipSchema(n) \/ RefuseSchema(n) \/ AddSchema(n)
  \/ Return

Spec == Init /\ [][Next]_vars

FairSpec == Spec /\ WF_vars(Next)

-------------------------------------------------------------------------------
(* Properties *)

TypeOK ==
  /\ service \in Service
  /\ DOMAIN info = DOMAIN service /\ left \subseteq DOMAIN service
  /\ outcome \in {"running", "ok", "error", "crash"}
  /\ DOMAIN descr = DOMAIN service \ left
  /\ \A f \in {toCreate} \cup Range(stack) :
       \A n \in DOMAIN f : f[n] \in Type /\ SchemaName[f[n]] = n
  /\ \A k \in DOMAIN schemas : schemas[k] \in Type /\ Key(schemas[k]) = k
  /\ None \notin DOMAIN schemas
  /\ outcome = "ok" => left = {} /\ stack = <<>>
  /\ stack # <<>> => left = {}

\* Every reference of a description that GetApiConfigs returns, from a method
\* or from a property of a schema, is to a schema that is there: schemas that
\* refer to each other, methods that share messages, and types that share a
\* name included.  The empty reference, to a type that has a name in Go alone, is
\* the only one that is to no schema.
References(t) == NamesOf(Nested(t))

EveryReferenceResolves ==
  outcome = "ok" =>
    /\ \A m \in DOMAIN service : descr[m] \subseteq DOMAIN schemas \cup {None}
    /\ \A n \in DOMAIN schemas : References(schemas[n]) \subseteq DOMAIN schemas \cup {None}

\* Messages may refer to each other in a circle, yet addSchemaFromType calls
\* itself no deeper than there are schemas.
RecursionIsBounded == Len(stack) <= Cardinality(DOMAIN schemas) + 1

\* The types that the messages of the methods reach through their fields: those
\* in every set that has what its structs refer to.
Roots == UNION {Referred(m) : m \in DOMAIN service}
NestedIn == [t \in Type |-> Nested(t)]
Closed == {S \in SUBSET {t \in Type : Kind[t] = "struct"} : \A t \in S : NestedIn[t] \subseteq S}
ReachedFrom ==
  [t \in Type |-> {t} \cup {u \in Type : \A S \in Closed : NestedIn[t] \subseteq S => u \in S}]
Reached == UNION {ReachedFrom[t] : t \in Roots}

NamesAreUnique ==
  LET reached == Reached IN
  \A t, u \in reached : SchemaName[t] = SchemaName[u] \/ Key(t) = Key(u) => t = u

\* Where names are unique, the schemas do not depend on the order in which Go
\* ranges over its maps: they are those of the types that the messages reach,
\* with a type that only its name in Go is known of.
SchemasAreThoseReached ==
  outcome = "ok" /\ NamesAreUnique => Range(schemas) = Reached

\* Two methods that requests cannot be told apart for: their paths differ in
\* the names of parameters alone.
Inside(p, i) ==
  /\ \E o \in Openings(p) : o < i /\ \A c \in o .. i : p[c] # Closing
  /\ \E c \in i .. Len(p) : p[c] = Closing

Skeleton(p) == Kept(p, {i \in DOMAIN p : ~ Inside(p, i)})

SameRoute(i, j) == i.http = j.http /\ Skeleton(i.path) = Skeleton(j.path)

\* The expression that duplicates are found with needs a token between brackets:
\* to it "{}{a}" and "{a}" are one path.
NamesItsParameters(p) ==
  /\ p \in Seq(Range(p))
  /\ \A i \in DOMAIN p : p[i] = Opening /\ i < Len(p) => p[i + 1] # Closing

ParametersAreNamed == \A m \in DOMAIN info : NamesItsParameters(info[m].path)

\* What makes a service one that can be described, whatever comes first; what is
\* wrong with a single path or field is as the code has it.
Describable ==
  /\ \A m \in DOMAIN service : ~ Malformed(m)
  /\ \A m \in DOMAIN service : service[m].req \notin Endless /\ ~ BadParam(m)
  /\ \A m, n \in DOMAIN service :
       m # n => info[m].name # info[n].name /\ ~ SameRoute(info[m], info[n])
  /\ \A t \in Reached : (SchemaName[t] # None \/ GoName[t] # None) /\ Describes(t)

\* Where names are unique and parameters have one, a description that ends is an
\* error, or a crash, for exactly the services that cannot be described: an
\* error in any of the messages reached is found, and nothing else is one, in
\* every order.
FaultsAreFound ==
  outcome # "running" /\ NamesAreUnique /\ ParametersAreNamed =>
    (outcome = "ok" <=> Describable)

\* GetApiConfigs gets an answer for every service: recursive messages do not
\* keep addSchemaFromType going.
DescriptionEnds == <>(outcome # "running")

\* The names under which encoding/json writes the fields of a struct.
KeysInJSON(type) ==
  LET Of[depth \in Nat, t \in Type] ==
        LET F == Range(Fields[t])
            Inlined(f) == /\ f.anonymous /\ f.json = f.name
                          /\ IsStruct(f) /\ f.form \in {"value", "ptr"}
        IN {<<f.json>> : f \in {g \in F : Own(g) /\ ~ Inlined(g)}} \cup
           (IF depth = 0 THEN {} ELSE UNION {Of[depth - 1, f.type] : f \in {g \in F : Inlined(g)}})
  IN Of[Cardinality(Type), type]

\* doc.go says that Endpoints honors the marshaling rules of encoding/json: the
\* properties of a schema are the names of the fields in JSON.
HonorsMarshalingRules ==
  outcome = "ok" =>
    \A n \in DOMAIN schemas :
      Kind[schemas[n]] = "struct" => DOMAIN fieldNames(FALSE, schemas[n]) = KeysInJSON(schemas[n])
===============================================================================
