---------------------------- MODULE ValidationProofs ----------------------------
(***************************************************************************)
(* Proofs about Validation, for every set of request types, values and     *)
(* texts of tags: what is accepted meets its tags, and what meets tags     *)
(* that can be applied is not refused.                                     *)
(***************************************************************************)
EXTENDS Validation, TLAPS

(* One field *)

\* A text that parses is read as the documentation of the tags reads it.
LEMMA ParsesAsRead ==
  ASSUME NEW f \in Field, NEW s \in Text, parseValue(s, f.kind) # Error
  PROVE  /\ parseValue(s, f.kind).number = Reads(f, s)
         /\ Reads(f, s) \in Int
<1> DEFINE k == f.kind
<1>1. ASSUME NEW t, NEW n, NEW range, Parsed(t, n, range) # Error
      PROVE  Parsed(t, n, range).number = n /\ n \in range
  BY <1>1 DEF Parsed
<1>2. /\ Signed("int") \subseteq Int /\ Signed("int64") \subseteq Int
      /\ Unsigned("uint32") \subseteq Int /\ Unsigned("uint64") \subseteq Int
  BY DEF Signed, Unsigned
<1>3. CASE k \in {"int", "int8", "int16", "int32"}
  <2>1. parseValue(s, k) = Parsed("int", Decimal[s], Signed("int"))
    BY <1>3 DEF parseValue, FloatKind
  <2> QED BY <1>1, <1>2, <1>3, <2>1 DEF Reads
<1>4. CASE k = "int64"
  <2>1. parseValue(s, k) = Parsed("int64", Literal[s], Signed("int64"))
    BY <1>4 DEF parseValue, FloatKind
  <2> QED BY <1>1, <1>2, <1>4, <2>1 DEF Reads, FloatKind
<1>5. CASE k \in {"uint", "uint8", "uint16", "uint32"}
  <2>1. parseValue(s, k) = Parsed("uint32", Literal[s], Unsigned("uint32"))
    BY <1>5 DEF parseValue, FloatKind
  <2> QED BY <1>1, <1>2, <1>5, <2>1 DEF Reads, FloatKind
<1>6. CASE k = "uint64"
  <2>1. parseValue(s, k) = Parsed("uint64", Literal[s], Unsigned("uint64"))
    BY <1>6 DEF parseValue, FloatKind
  <2> QED BY <1>1, <1>2, <1>6, <2>1 DEF Reads, FloatKind
<1>7. CASE k \in FloatKind
  <2>1. parseValue(s, k) = Parsed(k, Decimal[s], Int)
    BY <1>7 DEF parseValue, FloatKind
  <2> QED BY <1>1, <1>7, <2>1 DEF Reads, FloatKind
<1>8. CASE k = "bool"
  <2>1. parseValue(s, k) = Parsed("bool", Truth[s], {0, 1})
    BY <1>8 DEF parseValue, FloatKind
  <2> QED BY <1>1, <1>8, <2>1 DEF Reads, FloatKind
<1>9. CASE k = "string"
  <2>1. parseValue(s, k) = [type |-> "string", number |-> Rank[s]]
    BY <1>9 DEF parseValue, FloatKind
  <2>2. Rank[s] \in Int BY TextAssumption
  <2> QED BY <1>9, <2>1, <2>2 DEF Reads, FloatKind
<1> QED BY <1>3, <1>4, <1>5, <1>6, <1>7, <1>8, <1>9 DEF parseValue

\* The number that a text parses to, 0 for an error.
LEMMA ParseType ==
  ASSUME NEW f \in Field, NEW s \in Text
  PROVE  parseValue(s, f.kind).number \in Int
BY ParsesAsRead DEF Error

LEMMA FieldTags ==
  ASSUME NEW f \in Field
  PROVE  \A s \in {f.defaultVal, f.minVal, f.maxVal} : s # None => s \in Text
BY DEF Field

\* The bounds of a value in range are those of its tags.
LEMMA InRangeMeets ==
  ASSUME NEW f \in Field, NEW v \in Int, InRange(f, v)
  PROVE  /\ f.minVal # None => v >= Reads(f, f.minVal)
         /\ f.maxVal # None => v <= Reads(f, f.maxVal)
BY FieldTags, ParsesAsRead DEF InRange, Understood

LEMMA MeetsInRange ==
  ASSUME NEW f \in Field, NEW v \in Int, Meets(f, v),
         \A s \in {f.minVal, f.maxVal} \ {None} : Understood(f, s)
  PROVE  InRange(f, v)
BY FieldTags, ParsesAsRead DEF InRange, Meets, Understood

\* Values are numbers, of which every kind has zero.
LEMMA ValuesAreNumbers ==
  ASSUME NEW k \in Kind
  PROVE  Values(k) \subseteq Int /\ 0 \in Values(k) /\ Sent[k] \subseteq Values(k)
<1>1. Signed(k) \subseteq Int /\ Unsigned(k) \subseteq Int
  BY DEF Signed, Unsigned
<1>2. Values(k) \subseteq Int
  BY <1>1 DEF Values
<1> QED BY <1>2, RequestAssumption

\* What parses to the type of a kind is a value of the kind.
LEMMA ParsesToValue ==
  ASSUME NEW f \in Field, NEW s \in Text, parseValue(s, f.kind).type = f.kind
  PROVE  parseValue(s, f.kind).number \in Values(f.kind)
<1> DEFINE k == f.kind
<1>1. ASSUME NEW t, NEW n, NEW range, Parsed(t, n, range).type = k
      PROVE  t = k /\ Parsed(t, n, range).number \in range
  BY <1>1 DEF Parsed, Error, Field, Kind, SimpleKind, NumberKind, SignedKind, UnsignedKind,
              FloatKind
<1>2. CASE k \in {"int", "int8", "int16", "int32"}
  <2>1. parseValue(s, k) = Parsed("int", Decimal[s], Signed("int"))
    BY <1>2 DEF parseValue, FloatKind
  <2>2. k = "int" /\ parseValue(s, k).number \in Signed("int")
    BY <1>1, <2>1
  <2> QED BY <2>2 DEF Values, SignedKind, UnsignedKind
<1>3. CASE k = "int64"
  <2>1. parseValue(s, k) = Parsed("int64", Literal[s], Signed("int64"))
    BY <1>3 DEF parseValue, FloatKind
  <2> QED BY <1>1, <1>3, <2>1 DEF Values, SignedKind, UnsignedKind
<1>4. CASE k \in {"uint", "uint8", "uint16", "uint32"}
  <2>1. parseValue(s, k) = Parsed("uint32", Literal[s], Unsigned("uint32"))
    BY <1>4 DEF parseValue, FloatKind
  <2>2. k = "uint32" /\ parseValue(s, k).number \in Unsigned("uint32")
    BY <1>1, <2>1
  <2> QED BY <2>2 DEF Values, SignedKind, UnsignedKind
<1>5. CASE k = "uint64"
  <2>1. parseValue(s, k) = Parsed("uint64", Literal[s], Unsigned("uint64"))
    BY <1>5 DEF parseValue, FloatKind
  <2> QED BY <1>1, <1>5, <2>1 DEF Values, SignedKind, UnsignedKind
<1>6. CASE k \in FloatKind
  <2>1. parseValue(s, k) = Parsed(k, Decimal[s], Int)
    BY <1>6 DEF parseValue, FloatKind
  <2> QED BY <1>1, <1>6, <2>1 DEF Values, SignedKind, UnsignedKind, FloatKind
<1>7. CASE k = "bool"
  <2>1. parseValue(s, k) = Parsed("bool", Truth[s], {0, 1})
    BY <1>7 DEF parseValue, FloatKind
  <2> QED BY <1>1, <1>7, <2>1 DEF Values, SignedKind, UnsignedKind
<1>8. CASE k = "string"
  <2>1. parseValue(s, k) = [type |-> "string", number |-> Rank[s]]
    BY <1>8 DEF parseValue, FloatKind
  <2>2. Rank[s] \in Nat BY TextAssumption
  <2> QED BY <1>8, <2>1, <2>2 DEF Values, SignedKind, UnsignedKind
<1>9. CASE parseValue(s, k) = Error
  BY <1>9 DEF Error, Field, Kind, SimpleKind, NumberKind, SignedKind, UnsignedKind, FloatKind
<1> QED BY <1>2, <1>3, <1>4, <1>5, <1>6, <1>7, <1>8, <1>9 DEF parseValue

\* A field keeps a value of its kind, a default among them.
LEMMA ValidateType ==
  ASSUME NEW f \in Field, NEW v \in Values(f.kind)
  PROVE  /\ validateField(f, v).value \in Values(f.kind)
         /\ validateField(f, v).err \in {"nil", "error", "panic"}
<1> DEFINE r == parseValue(f.defaultVal, f.kind)
<1>1. f.kind \in Kind BY DEF Field
<1>2. 0 \in Values(f.kind) BY <1>1, ValuesAreNumbers
<1>3. f.defaultVal # None /\ r.type = f.kind => r.number \in Values(f.kind)
  BY FieldTags, ParsesToValue
<1>4. f.defaultVal # None =>
        /\ SetDefault(f).value \in Values(f.kind)
        /\ SetDefault(f).err \in {"nil", "error", "panic"}
  BY <1>2, <1>3 DEF SetDefault, Check, Result
<1> QED BY <1>4 DEF validateField, Check, Result

\* A field that is accepted was sent or has its default, and meets its tags.
LEMMA FieldAccepted ==
  ASSUME NEW f \in Field, NEW v \in Int, validateField(f, v).err = "nil"
  PROVE  IF f.kind \in SimpleKind
           THEN /\ validateField(f, v).value = Effective(f, v)
                /\ Meets(f, validateField(f, v).value)
           ELSE validateField(f, v).value = v
<1> SUFFICES ASSUME f.kind \in SimpleKind
             PROVE  /\ validateField(f, v).value = Effective(f, v)
                    /\ Meets(f, validateField(f, v).value)
  BY DEF validateField, Result
<1> DEFINE r == parseValue(f.defaultVal, f.kind)
<1>1. CASE v = 0 /\ f.defaultVal # None
  <2>1. ~ f.required /\ validateField(f, v) = SetDefault(f)
    BY <1>1 DEF validateField, Result
  <2>2. r # Error /\ SetDefault(f) = Check(f, r.number)
    BY <2>1 DEF SetDefault, Result
  <2>3. /\ validateField(f, v).value = r.number
        /\ InRange(f, r.number)
    BY <2>1, <2>2 DEF Check, Result
  <2>4. r.number = Effective(f, v) /\ r.number \in Int
    BY <1>1, <2>2, FieldTags, ParsesAsRead DEF Effective
  <2> QED BY <2>1, <2>3, <2>4, InRangeMeets DEF Meets
<1>2. CASE ~ (v = 0 /\ f.defaultVal # None)
  <2>1. validateField(f, v) = Check(f, v) /\ ~ (v = 0 /\ f.required)
    BY <1>2 DEF validateField, Result
  <2>2. validateField(f, v).value = v /\ InRange(f, v)
    BY <2>1 DEF Check, Result
  <2> QED BY <1>2, <2>1, <2>2, InRangeMeets DEF Meets, Effective
<1> QED BY <1>1, <1>2

\* A field with tags that can be applied and a value that meets them is accepted.
LEMMA FieldNotRefused ==
  ASSUME NEW f \in Field, NEW v \in Int, WellFormed(f),
         f.kind \in SimpleKind => Meets(f, Effective(f, v))
  PROVE  validateField(f, v).err = "nil"
<1>1. CASE f.kind \notin SimpleKind BY <1>1 DEF validateField, Result
<1>2. CASE f.kind \in SimpleKind
  <2> DEFINE r == parseValue(f.defaultVal, f.kind)
  <2>1. /\ f.exported
        /\ f.defaultVal # None => ~ f.required /\ ~ f.named /\ r.type = f.kind
        /\ \A s \in {f.minVal, f.maxVal} \ {None} : Understood(f, s)
    BY <1>2 DEF WellFormed
  <2>2. CASE v = 0 /\ f.defaultVal # None
    <3>1. validateField(f, v) = SetDefault(f)
      BY <1>2, <2>1, <2>2 DEF validateField
    <3>2. r # Error
      BY <1>2, <2>1, <2>2
         DEF Error, SimpleKind, NumberKind, SignedKind, UnsignedKind, FloatKind
    <3>3. SetDefault(f) = Check(f, r.number)
      BY <2>1, <2>2, <3>2 DEF SetDefault
    <3>4. r.number = Effective(f, v) /\ r.number \in Int
      BY <2>2, <3>2, FieldTags, ParsesAsRead DEF Effective
    <3>5. InRange(f, r.number) BY <1>2, <2>1, <3>4, MeetsInRange
    <3> QED BY <3>1, <3>3, <3>5 DEF Check, Result
  <2>3. CASE ~ (v = 0 /\ f.defaultVal # None)
    <3>1. Meets(f, v) BY <1>2, <2>3 DEF Effective
    <3>2. InRange(f, v) BY <2>1, <3>1, MeetsInRange
    <3>3. ~ (v = 0 /\ f.required) BY <3>1 DEF Meets
    <3>4. validateField(f, v) = Check(f, v)
      BY <1>2, <2>1, <2>3, <3>3 DEF validateField
    <3> QED BY <3>2, <3>4 DEF Check, Result
  <2> QED BY <2>2, <2>3
<1> QED BY <1>1, <1>2

-------------------------------------------------------------------------------
(* The loop over the fields *)

\* Fields before the next one are validated, later ones are as they were sent,
\* and the outcome is that of the first field that is refused, if there is one.
VInv ==
  /\ TypeOK
  /\ struct \in Struct \cup {None}
  /\ sent \in Seq(Int)
  /\ struct # None =>
       /\ Len(sent) = Len(struct)
       /\ \A i \in DOMAIN struct : sent[i] \in Values(struct[i].kind)
       /\ \A i \in DOMAIN struct :
            IF i < next THEN validateField(struct[i], sent[i]) = Result("nil", args[i])
            ELSE i > next \/ outcome = "pending" => args[i] = sent[i]
  /\ outcome = "nil" => struct # None /\ next > Len(struct)
  /\ outcome \in {"error", "panic"} /\ struct # None =>
       next <= Len(struct) /\ validateField(struct[next], sent[next]).err # "nil"

LEMMA StructType ==
  ASSUME struct \in Struct \cup {None}, struct # None
  PROVE  /\ Len(struct) \in Nat /\ DOMAIN struct = 1 .. Len(struct)
         /\ \A i \in DOMAIN struct : struct[i] \in Field
<1>1. struct \in Seq(Field) BY RequestAssumption
<1> HIDE DEF Field
<1> QED BY <1>1

LEMMA InitVInv == Init => VInv
<1> SUFFICES ASSUME Init PROVE VInv OBVIOUS
<1>1. /\ struct \in Struct \cup {None} /\ args = sent /\ next = 1
      /\ outcome = "pending" /\ sent \in Bodies(struct)
  BY DEF Init
<1>2. CASE struct = None
  <2>1. sent = <<>> BY <1>1, <1>2 DEF Bodies
  <2> QED BY <1>1, <1>2, <2>1 DEF VInv, TypeOK
<1>3. CASE struct # None
  <2>1. Len(struct) \in Nat /\ DOMAIN struct = 1 .. Len(struct)
    BY <1>1, <1>3, StructType
  <2>2. \A k \in Kind : Sent[k] \subseteq Int /\ Sent[k] \subseteq Values(k)
    BY ValuesAreNumbers
  <2>5. ASSUME NEW i \in DOMAIN struct PROVE sent[i] \in Values(struct[i].kind)
    <3>1. struct[i].kind \in Kind
      BY <1>1, <1>3, StructType DEF Field
    <3>2. sent[i] \in Sent[struct[i].kind]
      BY <1>1, <1>3 DEF Bodies
    <3> QED BY <2>2, <3>1, <3>2
  <2> HIDE DEF Kind
  <2>3. sent \in [1 .. Len(struct) -> Int]
    <3>1. sent \in [DOMAIN struct -> UNION {Sent[k] : k \in Kind}]
      BY <1>1, <1>3 DEF Bodies
    <3>2. UNION {Sent[k] : k \in Kind} \subseteq Int BY <2>2
    <3> QED BY <2>1, <3>1, <3>2
  <2>4. sent \in Seq(Int) /\ Len(sent) = Len(struct) BY <2>1, <2>3
  <2> QED BY <1>1, <1>3, <2>1, <2>4, <2>5 DEF VInv, TypeOK
<1> QED BY <1>2, <1>3

LEMMA ValidateNextVInv ==
  ASSUME VInv, ValidateNext
  PROVE  VInv'
<1> DEFINE f == struct[next]
           v == sent[next]
           r == validateField(f, v)
<1>1. /\ struct \in Struct /\ struct # None /\ outcome = "pending" /\ next <= Len(struct)
      /\ next \in 1 .. Len(struct) + 1 /\ args \in Seq(Int) /\ Len(args) = Len(struct)
      /\ sent \in Seq(Int) /\ Len(sent) = Len(struct)
  BY DEF VInv, TypeOK, ValidateNext
<1>2. Len(struct) \in Nat /\ DOMAIN struct = 1 .. Len(struct) /\ next \in DOMAIN struct
      /\ f \in Field
  <2>1. /\ Len(struct) \in Nat /\ DOMAIN struct = 1 .. Len(struct)
        /\ \A i \in DOMAIN struct : struct[i] \in Field
    BY <1>1, StructType
  <2> HIDE DEF Field
  <2>2. next \in 1 .. Len(struct) BY <1>1, <2>1
  <2> QED BY <2>1, <2>2
<1>3. /\ args[next] = v /\ v \in Int /\ v \in Values(f.kind)
      /\ \A i \in DOMAIN struct : args[i] \in Values(struct[i].kind)
  BY <1>1, <1>2 DEF VInv, TypeOK
<1>4. /\ args' = [args EXCEPT ![next] = r.value]
      /\ outcome' = IF r.err = "nil" THEN outcome ELSE r.err
      /\ next' = IF r.err = "nil" THEN next + 1 ELSE next
      /\ UNCHANGED <<struct, sent>>
  BY <1>3 DEF ValidateNext
<1>5. /\ r.value \in Values(f.kind) /\ r.value \in Int
      /\ r.err \in {"nil", "error", "panic"}
      /\ r = Result(r.err, r.value)
  <2>1. r = Result(r.err, r.value)
    BY DEF validateField, SetDefault, Check, Result
  <2>2. f.kind \in Kind
    BY <1>2 DEF Field
  <2> HIDE DEF r, f, v, Kind
  <2>3. r.value \in Values(f.kind) /\ r.err \in {"nil", "error", "panic"}
    BY <1>2, <1>3, ValidateType DEF r
  <2> QED BY <2>1, <2>2, <2>3, ValuesAreNumbers
<1>6. \A i \in DOMAIN struct :
        IF i < next THEN validateField(struct[i], sent[i]) = Result("nil", args[i])
        ELSE args[i] = sent[i]
  BY <1>1 DEF VInv
<1> HIDE DEF r, f, v
<1>7. /\ args' \in Seq(Int) /\ Len(args') = Len(struct)
      /\ args'[next] = r.value
      /\ \A i \in DOMAIN struct : i # next => args'[i] = args[i]
  BY <1>1, <1>2, <1>4, <1>5
<1>8. TypeOK'
  <2>1. \A i \in DOMAIN struct : args'[i] \in Values(struct[i].kind)
    BY <1>3, <1>5, <1>7 DEF f
  <2> QED BY <1>1, <1>2, <1>4, <1>5, <1>7, <2>1 DEF TypeOK
<1>9. CASE r.err = "nil"
  <2>1. \A i \in DOMAIN struct :
          IF i < next + 1 THEN validateField(struct[i], sent[i]) = Result("nil", args'[i])
          ELSE args'[i] = sent[i]
    <3> SUFFICES ASSUME NEW i \in DOMAIN struct
                 PROVE  IF i < next + 1
                          THEN validateField(struct[i], sent[i]) = Result("nil", args'[i])
                          ELSE args'[i] = sent[i]
      OBVIOUS
    <3>1. i \in Nat BY <1>2
    <3>2. CASE i = next BY <1>1, <1>5, <1>7, <1>9, <3>1, <3>2 DEF r, f, v
    <3>3. CASE i # next BY <1>1, <1>6, <1>7, <3>1, <3>3
    <3> QED BY <3>2, <3>3
  <2> QED BY <1>1, <1>4, <1>8, <1>9, <2>1 DEF VInv
<1>10. CASE r.err # "nil"
  <2>1. validateField(struct[next], sent[next]).err # "nil" BY <1>10 DEF r, f, v
  <2>2. \A i \in DOMAIN struct :
          IF i < next THEN validateField(struct[i], sent[i]) = Result("nil", args'[i])
          ELSE i > next => args'[i] = sent[i]
    <3> SUFFICES ASSUME NEW i \in DOMAIN struct
                 PROVE  IF i < next
                          THEN validateField(struct[i], sent[i]) = Result("nil", args'[i])
                          ELSE i > next => args'[i] = sent[i]
      OBVIOUS
    <3>1. i \in Nat BY <1>2
    <3> QED BY <1>1, <1>6, <1>7, <3>1
  <2>3. outcome' # "nil" /\ outcome' # "pending" /\ next' = next BY <1>4, <1>5, <1>10
  <2> QED BY <1>1, <1>4, <1>8, <2>1, <2>2, <2>3 DEF VInv
<1> QED BY <1>9, <1>10

LEMMA NextVInv == VInv /\ [Next]_vars => VInv'
<1> SUFFICES ASSUME VInv, [Next]_vars PROVE VInv' OBVIOUS
<1>1. CASE RefuseNoStruct BY <1>1 DEF VInv, TypeOK, RefuseNoStruct
<1>2. CASE ValidateNext BY <1>2, ValidateNextVInv
<1>3. CASE Accept
  <2>1. /\ struct # None /\ next > Len(struct) /\ outcome = "pending" /\ outcome' = "nil"
        /\ UNCHANGED <<struct, sent, args, next>>
    BY <1>3 DEF Accept
  <2> QED BY <2>1 DEF VInv, TypeOK
<1>4. CASE UNCHANGED vars BY <1>4 DEF VInv, TypeOK, vars
<1> QED BY <1>1, <1>2, <1>3, <1>4 DEF Next

LEMMA Invariance == Spec => []VInv
BY InitVInv, NextVInv, PTL DEF Spec

-------------------------------------------------------------------------------
(* What validateRequest promises *)

\* The request keeps a value of its kind in every field, in the width of the kind,
\* whatever the defaults parse to and whenever validateRequest ends.
THEOREM TypeCorrect == Spec => []TypeOK
<1>1. VInv => TypeOK BY DEF VInv
<1> QED BY <1>1, Invariance, PTL

\* Of a request that is accepted every simple field was sent or has its default
\* and meets its tags, and every other field is as it was sent.
THEOREM AcceptedMeets == Spec => []AcceptedMeetsTags
<1>1. VInv => AcceptedMeetsTags
  <2> SUFFICES ASSUME VInv, outcome = "nil", NEW i \in DOMAIN struct
               PROVE  IF struct[i].kind \in SimpleKind
                        THEN /\ args[i] = Effective(struct[i], sent[i])
                             /\ Meets(struct[i], args[i])
                        ELSE args[i] = sent[i]
    BY DEF AcceptedMeetsTags
  <2>1. /\ struct # None /\ struct \in Struct \cup {None} /\ next > Len(struct)
        /\ sent \in Seq(Int) /\ Len(sent) = Len(struct) /\ next \in 1 .. Len(struct) + 1
    BY DEF VInv, TypeOK
  <2>2. /\ Len(struct) \in Nat /\ DOMAIN struct = 1 .. Len(struct) /\ struct[i] \in Field
    BY <2>1, StructType
  <2>3. i < next /\ i \in 1 .. Len(sent) /\ sent[i] \in Int BY <2>1, <2>2
  <2>4. validateField(struct[i], sent[i]) = Result("nil", args[i])
    BY <2>1, <2>3 DEF VInv
  <2>5. /\ validateField(struct[i], sent[i]).err = "nil"
        /\ validateField(struct[i], sent[i]).value = args[i]
    BY <2>4 DEF Result
  <2> QED BY <2>2, <2>3, <2>5, FieldAccepted
<1> QED BY <1>1, Invariance, PTL

\* A request whose tags can all be applied and are all met is not refused.
THEOREM MeetingAccepted == Spec => []MeetingIsAccepted
<1>1. VInv => MeetingIsAccepted
  <2> SUFFICES ASSUME VInv, struct # None,
                      \A i \in DOMAIN struct :
                        LET f == struct[i] IN
                        /\ WellFormed(f)
                        /\ f.kind \in SimpleKind => Meets(f, Effective(f, sent[i]))
               PROVE  outcome \in {"pending", "nil"}
    BY DEF MeetingIsAccepted
  <2> SUFFICES ASSUME outcome \in {"error", "panic"} PROVE FALSE
    BY DEF VInv, TypeOK
  <2>1. /\ struct \in Struct \cup {None} /\ next <= Len(struct)
        /\ sent \in Seq(Int) /\ Len(sent) = Len(struct) /\ next \in 1 .. Len(struct) + 1
        /\ validateField(struct[next], sent[next]).err # "nil"
    BY DEF VInv, TypeOK
  <2>2. /\ Len(struct) \in Nat /\ DOMAIN struct = 1 .. Len(struct)
        /\ \A i \in DOMAIN struct : struct[i] \in Field
    BY <2>1, StructType
  <2>3. next \in DOMAIN struct /\ next \in 1 .. Len(sent) /\ sent[next] \in Int
    BY <2>1, <2>2
  <2> QED BY <2>1, <2>2, <2>3, FieldNotRefused
<1> QED BY <1>1, Invariance, PTL
===============================================================================
