------------------------------- MODULE Validation -------------------------------
(***************************************************************************)
(* validateRequest of endpoints/apiconfig.go: the constraints in the       *)
(* "endpoints" tags of the fields of a request type, applied in place to   *)
(* the request that ServeHTTP decoded, one field after the other.          *)
(*                                                                         *)
(* A text of a tag stands for what the parsers of strconv make of it: as a *)
(* decimal number (Atoi, ParseFloat), as a Go literal (ParseInt and        *)
(* ParseUint with base 0), as a Boolean, and its place in the order of     *)
(* strings.  Values are numbers: FALSE is 0 and TRUE 1, and a string is    *)
(* its place in that order, the empty one being 0.                         *)
(***************************************************************************)
EXTENDS Integers, Sequences

CONSTANTS
  Text,          \* texts of tags, without the empty one
  Decimal, Literal, Truth, Rank,  \* what the parsers of strconv make of them
  Struct,        \* request types: sequences of fields
  Sent,          \* the values sent for a field of each kind
  Bits,          \* the width of int8 .. uint64
  None           \* the empty text, no number, no value

SignedKind == {"int", "int8", "int16", "int32", "int64"}
UnsignedKind == {"uint", "uint8", "uint16", "uint32", "uint64"}
FloatKind == {"float32", "float64"}
NumberKind == SignedKind \cup UnsignedKind \cup FloatKind

\* The kinds up to reflect.Float64, and strings: all others are ignored.
SimpleKind == NumberKind \cup {"bool", "uintptr", "string"}
Kind == SimpleKind \cup {"slice", "struct", "ptr"}

\* named: the type is a defined one, such as type Celsius int.
Field == [kind : Kind, named : BOOLEAN, exported : BOOLEAN, required : BOOLEAN,
          defaultVal : Text \cup {None}, minVal : Text \cup {None},
          maxVal : Text \cup {None}]

ASSUME TextAssumption ==
  /\ Decimal \in [Text -> Int \cup {None}]
  /\ Literal \in [Text -> Int \cup {None}]
  /\ Truth \in [Text -> {0, 1, None}]
  /\ Rank \in [Text -> Nat \ {0}]

ASSUME BitsAssumption ==
  /\ Bits \in [SignedKind \cup UnsignedKind -> Nat \ {0}]
  /\ Bits["uint"] = Bits["uint64"] /\ Bits["int"] = Bits["int64"]

\* The values of a kind.
Signed(k) == -(2 ^ (Bits[k] - 1)) .. 2 ^ (Bits[k] - 1) - 1
Unsigned(k) == 0 .. 2 ^ Bits[k] - 1

Values(k) ==
  CASE k \in SignedKind -> Signed(k)
    [] k \in UnsignedKind -> Unsigned(k)
    [] k = "bool" -> {0, 1}
    [] k = "string" -> Nat
    [] OTHER -> Int

ASSUME RequestAssumption ==
  /\ Struct \subseteq Seq(Field)
  /\ \A k \in Kind : 0 \in Sent[k] /\ Sent[k] \subseteq Values(k)

-------------------------------------------------------------------------------
(* parseValue: a type and a number, or an error *)

Error == [type |-> "error", number |-> 0]

Parsed(t, n, range) == IF n # None /\ n \in range THEN [type |-> t, number |-> n] ELSE Error

parseValue(s, k) ==
  CASE k \in {"int", "int8", "int16", "int32"} -> Parsed("int", Decimal[s], Signed("int"))
    [] k = "int64" -> Parsed("int64", Literal[s], Signed("int64"))
    [] k \in {"uint", "uint8", "uint16", "uint32"} ->
         Parsed("uint32", Literal[s], Unsigned("uint32"))
    [] k = "uint64" -> Parsed("uint64", Literal[s], Unsigned("uint64"))
    [] k \in FloatKind -> Parsed(k, Decimal[s], Int)
    [] k = "bool" -> Parsed("bool", Truth[s], {0, 1})
    [] k = "string" -> [type |-> "string", number |-> Rank[s]]
    [] OTHER -> Error

-------------------------------------------------------------------------------
(* validateField *)

\* compare knows the predeclared types of numbers and strings alone.
Comparable(f) == f.kind \in NumberKind \cup {"string"} /\ ~ f.named

\* compare of a value with a bound: a number to compare with, or an error.
Understood(f, s) == Comparable(f) /\ parseValue(s, f.kind) # Error

\* Mutant of InRange: the maximum is checked when there is no minimum alone.
InRangeOneBound(f, v) ==
  IF f.minVal # None
    THEN Understood(f, f.minVal) /\ v >= parseValue(f.minVal, f.kind).number
    ELSE f.maxVal # None =>
           Understood(f, f.maxVal) /\ v <= parseValue(f.maxVal, f.kind).number

InRange(f, v) ==
  /\ f.minVal # None =>
       Understood(f, f.minVal) /\ v >= parseValue(f.minVal, f.kind).number
  /\ f.maxVal # None =>
       Understood(f, f.maxVal) /\ v <= parseValue(f.maxVal, f.kind).number

Result(e, v) == [err |-> e, value |-> v]
Check(f, v) == Result(IF InRange(f, v) THEN "nil" ELSE "error", v)

\* Mutant of SetDefault: a default is set into a field of a smaller type.
SetDefaultUnchecked(f) ==
  LET r == parseValue(f.defaultVal, f.kind) IN
  IF r = Error THEN Result("error", 0) ELSE Check(f, r.number)

\* reflect panics on a value of a type that cannot be assigned to the field's.
SetDefault(f) ==
  LET r == parseValue(f.defaultVal, f.kind) IN
  CASE r = Error -> Result("error", 0)
    [] r # Error /\ (f.named \/ r.type # f.kind) -> Result("panic", 0)
    [] OTHER -> Check(f, r.number)

\* Mutant of validateField: the bounds are checked before the default is set.
validateFieldBoundsFirst(f, v) ==
  LET isZero == v = 0 IN
  IF f.kind \notin SimpleKind THEN Result("nil", v)
  ELSE IF f.required /\ f.defaultVal # None THEN Result("error", v)
  ELSE IF ~ f.exported THEN Result("panic", v)
  ELSE IF isZero /\ f.required THEN Result("error", v)
  ELSE IF isZero /\ f.defaultVal # None /\ InRange(f, 0)
    THEN Result("nil", parseValue(f.defaultVal, f.kind).number)
  ELSE Check(f, v)

\* In this order: parseTag refuses a default for a required field, reflect
\* panics on reading an unexported field, zero counts as missing.
validateField(f, v) ==
  LET isZero == v = 0 IN
  IF f.kind \notin SimpleKind THEN Result("nil", v)
  ELSE IF f.required /\ f.defaultVal # None THEN Result("error", v)
  ELSE IF ~ f.exported THEN Result("panic", v)
  ELSE IF isZero /\ f.required THEN Result("error", v)
  ELSE IF isZero /\ f.defaultVal # None THEN SetDefault(f)
  ELSE Check(f, v)

-------------------------------------------------------------------------------
(* validateRequest *)

VARIABLES
  struct,    \* the type of the request, None if it is not a struct
  sent,      \* the values in the body
  args,      \* the values of the fields, which defaults are set into
  next,      \* the index of the next field
  outcome    \* "pending", or what validateRequest ends in

vars == <<struct, sent, args, next, outcome>>

Bodies(t) ==
  IF t = None THEN {<<>>}
  ELSE {b \in [DOMAIN t -> UNION {Sent[k] : k \in Kind}] :
          \A i \in DOMAIN t : b[i] \in Sent[t[i].kind]}

Init ==
  /\ struct \in Struct \cup {None}
  /\ sent \in Bodies(struct)
  /\ args = sent
  /\ next = 1
  /\ outcome = "pending"

\* Every field keeps a value of its kind, in the width of the kind.
TypeOK ==
  /\ args \in Seq(Int)
  /\ struct # None =>
       /\ Len(args) = Len(struct) /\ next \in 1 .. Len(struct) + 1
       /\ \A i \in DOMAIN struct : args[i] \in Values(struct[i].kind)
  /\ outcome \in {"pending", "nil", "error", "panic"}

RefuseNoStruct ==
  /\ outcome = "pending"
  /\ struct = None
  /\ outcome' = "error"
  /\ UNCHANGED <<struct, sent, args, next>>

\* The first field that is refused ends it; fields before it keep defaults.
ValidateNext ==
  /\ outcome = "pending"
  /\ struct # None
  /\ next <= Len(struct)
  /\ LET r == validateField(struct[next], args[next]) IN
       /\ args' = [args EXCEPT ![next] = r.value]
       /\ outcome' = IF r.err = "nil" THEN outcome ELSE r.err
       /\ next' = IF r.err = "nil" THEN next + 1 ELSE next
  /\ UNCHANGED <<struct, sent>>

Accept ==
  /\ outcome = "pending"
  /\ struct # None
  /\ next > Len(struct)
  /\ outcome' = "nil"
  /\ UNCHANGED <<struct, sent, args, next>>

Next == RefuseNoStruct \/ ValidateNext \/ Accept

Spec == Init /\ [][Next]_vars

-------------------------------------------------------------------------------
(* Properties *)

\* What the documentation of field tags promises of a value, with the texts
\* read as the kind reads them.
Reads(f, s) ==
  CASE f.kind \in {"int", "int8", "int16", "int32"} \cup FloatKind -> Decimal[s]
    [] f.kind = "bool" -> Truth[s]
    [] f.kind = "string" -> Rank[s]
    [] OTHER -> Literal[s]

Effective(f, v) == IF v = 0 /\ f.defaultVal # None THEN Reads(f, f.defaultVal) ELSE v

Meets(f, v) ==
  /\ f.required => v # 0
  /\ f.minVal # None => v >= Reads(f, f.minVal)
  /\ f.maxVal # None => v <= Reads(f, f.maxVal)

\* The method of a service sees only requests all of whose simple fields were
\* sent or have their default, and meet their tags, a default too, while every
\* other field is as it was sent: whatever the order of the fields.
AcceptedMeetsTags ==
  outcome = "nil" =>
    \A i \in DOMAIN struct :
      LET f == struct[i] IN
      IF f.kind \in SimpleKind
        THEN args[i] = Effective(f, sent[i]) /\ Meets(f, args[i])
        ELSE args[i] = sent[i]

\* The tags of a field that the code can apply: a default of exactly the type
\* of the field, and bounds that compare understands.
WellFormed(f) ==
  f.kind \in SimpleKind =>
    /\ f.exported
    /\ f.defaultVal # None =>
         ~ f.required /\ ~ f.named /\ parseValue(f.defaultVal, f.kind).type = f.kind
    /\ \A s \in {f.minVal, f.maxVal} \ {None} : Understood(f, s)

\* A request whose tags are all of use and whose values, the defaults among
\* them, meet them is not refused, and no field that comes before or after
\* another changes that.
MeetingIsAccepted ==
  struct # None
    /\ (\A i \in DOMAIN struct :
          LET f == struct[i] IN
          /\ WellFormed(f)
          /\ f.kind \in SimpleKind => Meets(f, Effective(f, sent[i])))
  => outcome \in {"pending", "nil"}

\* The comment on parseValue: it parses a text into its real value of the kind,
\* for every kind of integer, so that an exported field of a predeclared type
\* that is omitted takes the default of its tag.
DefaultsAreOfTheirKind ==
  outcome = "panic" =>
    LET f == struct[next] IN
    f.exported /\ ~ f.named => parseValue(f.defaultVal, f.kind) = Error
===============================================================================
