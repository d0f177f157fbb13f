---------------------------- MODULE DescriptorProofs ----------------------------
(***************************************************************************)
(* Proofs about Descriptor: the schemas of a description have every schema *)
(* that they refer to, the recursion that adds them is bounded and ends,   *)
(* and exactly the services at fault are refused.                          *)
(***************************************************************************)
EXTENDS Descriptor, FiniteSetTheorems, TLAPS

(* Maps from names to types, and what the ranges on a stack have still to visit *)

Name == NamesOf(Type)
Frame == UNION {[N -> Type] : N \in SUBSET Name}
Named(f) == \A n \in DOMAIN f : SchemaName[f[n]] = n
Keys == {Key(t) : t \in Type}
Schemas == UNION {[K -> Type] : K \in SUBSET Keys}
Keyed(f) == \A k \in DOMAIN f : Key(f[k]) = k
Pending(s) == UNION {DOMAIN s[i] : i \in DOMAIN s}

\* A pushed range is pending besides what was.
LEMMA PendingPush ==
  ASSUME NEW s \in Seq(Frame), NEW f \in Frame
  PROVE  /\ <<f>> \o s \in Seq(Frame)
         /\ Len(<<f>> \o s) = Len(s) + 1
         /\ Pending(<<f>> \o s) = DOMAIN f \cup Pending(s)
         /\ Range(<<f>> \o s) = {f} \cup Range(s)
<1>1. /\ <<f>> \o s \in Seq(Frame) /\ Len(<<f>> \o s) = Len(s) + 1
  OBVIOUS
<1>2. DOMAIN (<<f>> \o s) = 1 .. Len(s) + 1 /\ DOMAIN s = 1 .. Len(s) /\ Len(s) \in Nat
  OBVIOUS
<1>3. (<<f>> \o s)[1] = f
  OBVIOUS
<1>4. \A i \in 1 .. Len(s) : (<<f>> \o s)[i + 1] = s[i]
  OBVIOUS
<1>5. \A i \in 1 .. Len(s) + 1 : i = 1 \/ (i - 1 \in 1 .. Len(s) /\ (<<f>> \o s)[i] = s[i - 1])
  <2>1. TAKE i \in 1 .. Len(s) + 1
  <2>2. i = 1 \/ i - 1 \in 1 .. Len(s)
    BY <1>2
  <2> QED BY <2>2, <1>2
<1>6. \A i \in 1 .. Len(s) : i + 1 \in 1 .. Len(s) + 1
  BY <1>2
<1>7. 1 \in 1 .. Len(s) + 1
  BY <1>2
<1>8. Pending(<<f>> \o s) = DOMAIN f \cup Pending(s)
  <2> DEFINE p == <<f>> \o s
  <2> HIDE DEF p
  <2>1. /\ DOMAIN p = 1 .. Len(s) + 1
        /\ p[1] = f
        /\ \A i \in 1 .. Len(s) : p[i + 1] = s[i]
        /\ \A i \in 1 .. Len(s) + 1 : i = 1 \/ (i - 1 \in 1 .. Len(s) /\ p[i] = s[i - 1])
    BY <1>2, <1>3, <1>4, <1>5 DEF p
  <2>2. Pending(p) \subseteq DOMAIN f \cup Pending(s)
    <3>1. SUFFICES ASSUME NEW n, NEW i \in 1 .. Len(s) + 1, n \in DOMAIN p[i]
                   PROVE  n \in DOMAIN f \cup Pending(s)
      BY <2>1 DEF Pending
    <3>2. CASE i = 1
      BY <3>1, <3>2, <2>1
    <3>3. CASE i - 1 \in 1 .. Len(s) /\ p[i] = s[i - 1]
      BY <3>1, <3>3, <1>2 DEF Pending
    <3> QED BY <3>2, <3>3, <2>1
  <2>3. DOMAIN f \subseteq Pending(p)
    BY <2>1, <1>7 DEF Pending
  <2>4. Pending(s) \subseteq Pending(p)
    BY <2>1, <1>2, <1>6 DEF Pending
  <2> QED BY <2>2, <2>3, <2>4 DEF p
<1>9. Range(<<f>> \o s) = {f} \cup Range(s)
  <2> DEFINE p == <<f>> \o s
  <2> HIDE DEF p
  <2>1. /\ DOMAIN p = 1 .. Len(s) + 1
        /\ p[1] = f
        /\ \A i \in 1 .. Len(s) : p[i + 1] = s[i]
        /\ \A i \in 1 .. Len(s) + 1 : i = 1 \/ (i - 1 \in 1 .. Len(s) /\ p[i] = s[i - 1])
    BY <1>2, <1>3, <1>4, <1>5 DEF p
  <2>2. Range(p) \subseteq {f} \cup Range(s)
    <3>1. SUFFICES ASSUME NEW i \in 1 .. Len(s) + 1 PROVE p[i] \in {f} \cup Range(s)
      BY <2>1 DEF Range
    <3>2. CASE i = 1
      BY <2>1, <3>2
    <3>3. CASE i - 1 \in 1 .. Len(s) /\ p[i] = s[i - 1]
      BY <3>3, <1>2 DEF Range
    <3> QED BY <2>1, <3>2, <3>3
  <2>3. f \in Range(p)
    BY <2>1, <1>7 DEF Range
  <2>4. Range(s) \subseteq Range(p)
    BY <2>1, <1>2, <1>6 DEF Range
  <2> QED BY <2>2, <2>3, <2>4 DEF p
<1> QED BY <1>1, <1>8, <1>9

\* A range that is taken off leaves what the others have to visit.
LEMMA PendingTop ==
  ASSUME NEW s \in Seq(Frame), s # <<>>
  PROVE  /\ Head(s) \in Frame /\ Tail(s) \in Seq(Frame)
         /\ Len(Tail(s)) = Len(s) - 1
         /\ Pending(s) = DOMAIN Head(s) \cup Pending(Tail(s))
         /\ Range(s) = {Head(s)} \cup Range(Tail(s))
<1>1. Head(s) \in Frame /\ Tail(s) \in Seq(Frame) /\ Len(Tail(s)) = Len(s) - 1
  OBVIOUS
<1>2. s = <<Head(s)>> \o Tail(s)
  OBVIOUS
<1> QED BY <1>1, <1>2, PendingPush

\* Of no calls nothing is pending.
LEMMA PendingNothing == Pending(<<>>) = {} /\ Range(<<>>) = {} /\ <<>> \in Seq(Frame)
BY DEF Pending, Range

\* A visited name is no longer pending in its range, and others still are.
LEMMA OthersLeft ==
  ASSUME NEW f \in Frame, NEW n \in DOMAIN f, Named(f)
  PROVE  LET g == Restrict(f, DOMAIN f \ {n})
         IN g \in Frame /\ Named(g) /\ DOMAIN g = DOMAIN f \ {n}
<1> DEFINE g == Restrict(f, DOMAIN f \ {n})
<1>1. DOMAIN g = DOMAIN f \ {n} /\ \A x \in DOMAIN f \ {n} : g[x] = f[x]
  BY DEF Restrict
<1>2. Named(g)
  BY <1>1 DEF Named
<1>3. PICK N \in SUBSET Name : f \in [N -> Type]
  BY DEF Frame
<1>4. DOMAIN f = N /\ \A x \in N : f[x] \in Type
  BY <1>3
<1>5. g \in [N \ {n} -> Type]
  BY <1>4 DEF Restrict
<1>6. N \ {n} \in SUBSET Name
  OBVIOUS
<1>7. g \in Frame
  BY <1>5, <1>6 DEF Frame
<1> QED BY <1>1, <1>2, <1>7

\* A type put into a map under its name leaves the other entries alone.
LEMMA MapPut ==
  ASSUME NEW f \in Frame, Named(f), NEW t \in Type
  PROVE  LET g == Put(f, SchemaName[t], t) IN
         /\ g \in Frame /\ Named(g) /\ DOMAIN g = DOMAIN f \cup {SchemaName[t]}
         /\ g[SchemaName[t]] = t
         /\ \A x \in DOMAIN f \ {SchemaName[t]} : g[x] = f[x]
<1> DEFINE n == SchemaName[t]
           g == Put(f, n, t)
<1>1. PICK N \in SUBSET Name : f \in [N -> Type]
  BY DEF Frame
<1>2. /\ DOMAIN f = N
      /\ DOMAIN g = N \cup {n}
      /\ g[n] = t
      /\ \A x \in N \ {n} : g[x] = f[x]
  BY <1>1 DEF Put
<1>3. g \in [N \cup {n} -> Type]
  BY <1>1 DEF Put
<1>4. N \cup {n} \in SUBSET Name
  BY DEF Name, NamesOf
<1>5. g \in Frame
  BY <1>3, <1>4 DEF Frame
<1>6. Named(g)
  BY <1>2 DEF Named
<1> QED BY <1>2, <1>5, <1>6

\* A schema put into the map under the key of its type does so, too.
LEMMA SchemaPut ==
  ASSUME NEW f \in Schemas, Keyed(f), NEW t \in Type
  PROVE  LET g == Put(f, Key(t), t) IN
         /\ g \in Schemas /\ Keyed(g) /\ DOMAIN g = DOMAIN f \cup {Key(t)}
         /\ g[Key(t)] = t
         /\ \A x \in DOMAIN f \ {Key(t)} : g[x] = f[x]
<1> DEFINE n == Key(t)
           g == Put(f, n, t)
<1>1. PICK K \in SUBSET Keys : f \in [K -> Type]
  BY DEF Schemas
<1>2. /\ DOMAIN f = K
      /\ DOMAIN g = K \cup {n}
      /\ g[n] = t
      /\ \A x \in K \ {n} : g[x] = f[x]
  BY <1>1 DEF Put
<1>3. g \in [K \cup {n} -> Type]
  BY <1>1 DEF Put
<1>4. K \cup {n} \in SUBSET Keys
  BY DEF Keys
<1>5. g \in Schemas
  BY <1>3, <1>4 DEF Schemas
<1>6. Keyed(g)
  BY <1>2 DEF Keyed
<1> QED BY <1>2, <1>5, <1>6

\* What ensures the schemas of types has each of their names.
LEMMA EnsuredMap ==
  ASSUME NEW S \in SUBSET Type, NEW e \in Ensured(S)
  PROVE  e \in Frame /\ Named(e) /\ DOMAIN e = NamesOf(S)
<1>1. e \in [NamesOf(S) -> S] /\ NamesOf(S) \in SUBSET Name
  BY DEF Ensured, NamesOf, Name
<1>2. e \in [NamesOf(S) -> Type]
  BY <1>1
<1>3. e \in Frame
  BY <1>1, <1>2 DEF Frame
<1>4. DOMAIN e = NamesOf(S)
  BY <1>1
<1> QED BY <1>3, <1>4 DEF Named, Ensured

-------------------------------------------------------------------------------
(* The types that the messages reach *)

\* What a type refers to are structs.
LEMMA NestedAreStructs ==
  ASSUME NEW t \in Type
  PROVE  NestedIn[t] = Nested(t) /\ Nested(t) \in SUBSET {u \in Type : Kind[u] = "struct"}
BY DEF NestedIn, Nested, Refers, IsStruct

LEMMA RootsAreTypes ==
  ASSUME service \in Service
  PROVE  Roots \in SUBSET Type /\ \A m \in DOMAIN service : Referred(m) \subseteq Roots
BY ServiceAssumption DEF Roots, Referred

\* They are types, with the messages themselves and all that they refer to.
LEMMA ReachedHas ==
  ASSUME service \in Service
  PROVE  /\ Reached \in SUBSET Type
         /\ Roots \subseteq Reached
         /\ \A t \in Reached : Nested(t) \subseteq Reached
<1>1. Roots \in SUBSET Type
  BY RootsAreTypes
<1>2. \A t \in Type : t \in ReachedFrom[t] /\ ReachedFrom[t] \in SUBSET Type
  BY DEF ReachedFrom
<1>3. ASSUME NEW t \in Roots, NEW u \in ReachedFrom[t], NEW v \in Nested(u)
      PROVE  v \in ReachedFrom[t]
  <2>1. t \in Type /\ u \in Type
    BY <1>1, <1>2
  <2>2. v \in Type
    BY <1>3, <2>1, NestedAreStructs
  <2>3. ASSUME NEW S \in Closed, NestedIn[t] \subseteq S PROVE v \in S
    <3>1. CASE u = t
      BY <1>3, <2>1, <2>3, <3>1, NestedAreStructs
    <3>2. CASE u # t
      <4>1. u \in S
        BY <1>3, <2>1, <2>3, <3>2 DEF ReachedFrom
      <4>2. NestedIn[u] \subseteq S
        BY <4>1 DEF Closed
      <4> QED BY <1>3, <2>1, <4>2, NestedAreStructs
    <3> QED BY <3>1, <3>2
  <2> QED BY <2>1, <2>2, <2>3 DEF ReachedFrom
<1> QED BY <1>1, <1>2, <1>3 DEF Reached

\* They are no others: every set of types that has as much has them all.
LEMMA ReachedIsLeast ==
  ASSUME service \in Service, NEW S \in SUBSET Type, Roots \subseteq S,
         \A t \in S : Nested(t) \subseteq S
  PROVE  Reached \subseteq S
<1> DEFINE C == {t \in S : Kind[t] = "struct"}
<1>1. \A t \in S : NestedIn[t] = Nested(t) /\ Nested(t) \subseteq C
  BY NestedAreStructs
<1>2. C \in Closed
  BY <1>1 DEF Closed
<1>3. SUFFICES ASSUME NEW t \in Roots, NEW u \in ReachedFrom[t] PROVE u \in S
  BY DEF Reached
<1>4. t \in S /\ t \in Type
  OBVIOUS
<1>5. u = t \/ (NestedIn[t] \subseteq C => u \in C)
  BY <1>2, <1>4 DEF ReachedFrom
<1> QED BY <1>1, <1>4, <1>5

-------------------------------------------------------------------------------
(* The inductive invariant *)

\* TypeOK, with what the lemmas need to know of maps and of the stack.
Types ==
  /\ TypeOK
  /\ toCreate \in Frame /\ schemas \in Schemas
  /\ stack \in Seq(Frame)
  /\ IsFiniteSet(DOMAIN schemas)

\* A reference is empty, to a schema that is there, or to one that a range has
\* still to visit.
Resolvable(S) == S \subseteq DOMAIN schemas \cup Pending(stack) \cup {None}

ReferencesKept ==
  /\ \A m \in DOMAIN service \ left : descr[m] \subseteq DOMAIN toCreate
  /\ left = {} => Resolvable(DOMAIN toCreate)
  /\ \A n \in DOMAIN schemas : Resolvable(References(schemas[n]))

IInv == Types /\ ReferencesKept /\ RecursionIsBounded

\* In terms of the lemmas: every map of the state is named.
LEMMA AllNamed ==
  ASSUME Types
  PROVE  Named(toCreate) /\ Keyed(schemas) /\ \A f \in Range(stack) : Named(f)
BY DEF Types, TypeOK, Named, Keyed

\* And the other way round.
LEMMA NamedIsTyped ==
  ASSUME NEW f \in Frame, Named(f)
  PROVE  \A n \in DOMAIN f : f[n] \in Type /\ SchemaName[f[n]] = n
<1>1. PICK N \in SUBSET Name : f \in [N -> Type]
  BY DEF Frame
<1> QED BY <1>1 DEF Named

LEMMA KeyedIsTyped ==
  ASSUME NEW f \in Schemas, Keyed(f)
  PROVE  \A k \in DOMAIN f : f[k] \in Type /\ Key(f[k]) = k
<1>1. PICK K \in SUBSET Keys : f \in [K -> Type]
  BY DEF Schemas
<1> QED BY <1>1 DEF Keyed

\* The empty map.
LEMMA Nothing ==
  /\ <<>> \in Frame /\ Named(<<>>) /\ DOMAIN <<>> = {}
  /\ <<>> \in Schemas /\ Keyed(<<>>)
<1>1. DOMAIN <<>> = {}
  OBVIOUS
<1>2. <<>> \in [{} -> Type]
  OBVIOUS
<1>3. {} \in SUBSET Name
  OBVIOUS
<1>4. <<>> \in Frame
  BY <1>2, <1>3 DEF Frame
<1>5. {} \in SUBSET Keys
  OBVIOUS
<1>6. <<>> \in Schemas
  BY <1>2, <1>5 DEF Schemas
<1> QED BY <1>1, <1>4, <1>6 DEF Named, Keyed

LEMMA InitIInv == Init => IInv
<1> SUFFICES ASSUME Init PROVE IInv
  OBVIOUS
<1>1. toCreate = <<>> /\ schemas = <<>> /\ stack = <<>> /\ descr = <<>>
  BY DEF Init
<1>2. IsFiniteSet(DOMAIN schemas) /\ Cardinality(DOMAIN schemas) = 0
  BY <1>1, Nothing, FS_EmptySet
<1>3. DOMAIN service # {}
  BY ServiceAssumption DEF Init
<1>4. TypeOK
  <2>1. DOMAIN info = DOMAIN service
    BY DEF Init
  <2>2. schemas = <<>> /\ \A f \in {toCreate} \cup Range(stack) : f = <<>>
    BY <1>1, PendingNothing
  <2> QED BY <1>1, <2>1, <2>2, Nothing DEF Init, TypeOK
<1>5. Types
  BY <1>1, <1>2, <1>4, Nothing, PendingNothing DEF Types
<1>6. ReferencesKept
  BY <1>1, <1>3, Nothing DEF Init, ReferencesKept
<1>7. RecursionIsBounded
  <2>1. Len(stack) = 0
    BY <1>1
  <2> QED BY <1>2, <2>1 DEF RecursionIsBounded
<1> QED BY <1>5, <1>6, <1>7 DEF IInv

\* What a method adds to the types to create has the names that it refers to.
LEMMA CollectNames ==
  ASSUME Types, NEW m \in DOMAIN service
  PROVE  LET c == Collect(m, toCreate) IN
         /\ c \in Frame /\ Named(c)
         /\ DOMAIN c = DOMAIN toCreate \cup NamesOf(Referred(m))
<1> DEFINE req == service[m].req
           resp == service[m].resp
           R == Referred(m)
           a == IF req \in R THEN Put(toCreate, SchemaName[req], req) ELSE toCreate
           b == IF resp \in R THEN Put(a, SchemaName[resp], resp) ELSE a
<1>1. req \in Type /\ resp \in Type
  BY ServiceAssumption DEF Types, TypeOK
<1>2. R \subseteq {req, resp}
  BY DEF Referred
<1>3. toCreate \in Frame /\ Named(toCreate)
  BY AllNamed DEF Types
<1>4. /\ a \in Frame /\ Named(a)
      /\ DOMAIN a = DOMAIN toCreate \cup IF req \in R THEN {SchemaName[req]} ELSE {}
  BY <1>1, <1>3, MapPut
<1> HIDE DEF a
<1>5. /\ b \in Frame /\ Named(b)
      /\ DOMAIN b = DOMAIN a \cup IF resp \in R THEN {SchemaName[resp]} ELSE {}
  BY <1>1, <1>4, MapPut
<1>6. NamesOf(R) = (IF req \in R THEN {SchemaName[req]} ELSE {})
                   \cup (IF resp \in R THEN {SchemaName[resp]} ELSE {})
  BY <1>2 DEF NamesOf
<1>7. Collect(m, toCreate) = b
  BY DEF Collect, a
<1> QED BY <1>4, <1>5, <1>6, <1>7

\* A method adds the names it refers to, and the last one leaves all to visit.
LEMMA DescribeIInv ==
  ASSUME IInv, NEW m \in left, DescribeMethod(m)
  PROVE  IInv'
<1>1. /\ outcome = "running" /\ outcome' = outcome
      /\ service' = service /\ info' = info /\ schemas' = schemas
      /\ left' = left \ {m}
      /\ descr' = Put(descr, m, NamesOf(Referred(m)))
      /\ toCreate' = Collect(m, toCreate)
      /\ stack' = IF left' = {} THEN <<toCreate'>> ELSE <<>>
  BY DEF DescribeMethod, Begin
<1>2. Types /\ TypeOK /\ m \in DOMAIN service
  BY DEF IInv, Types, TypeOK
<1>3. stack = <<>>
  BY <1>2 DEF TypeOK
<1>4. /\ toCreate' \in Frame /\ Named(toCreate')
      /\ DOMAIN toCreate' = DOMAIN toCreate \cup NamesOf(Referred(m))
  BY <1>1, <1>2, CollectNames
<1>5. Keyed(schemas) /\ schemas \in Schemas
  BY <1>2, AllNamed DEF Types
<1>6. /\ stack' \in Seq(Frame)
      /\ Range(stack') \subseteq {toCreate'}
      /\ Len(stack') <= 1
      /\ stack' # <<>> => left' = {}
      /\ left' = {} => Pending(stack') = DOMAIN toCreate'
  <2>1. CASE left' = {}
    <3>1. stack' = <<toCreate'>> \o <<>>
      BY <1>1, <2>1
    <3>2. <<>> \in Seq(Frame) /\ Len(<<>>) = 0
      OBVIOUS
    <3>3. /\ stack' \in Seq(Frame)
          /\ Len(stack') = Len(<<>>) + 1
          /\ Pending(stack') = DOMAIN toCreate' \cup Pending(<<>>)
          /\ Range(stack') = {toCreate'} \cup Range(<<>>)
      BY <3>1, <3>2, <1>4, PendingPush
    <3>4. Len(stack') = 1
      BY <3>2, <3>3
    <3>5. Range(stack') \subseteq {toCreate'}
      BY <3>3, PendingNothing
    <3>6. Pending(stack') = DOMAIN toCreate'
      BY <3>3, PendingNothing
    <3>7. Len(stack') <= 1
      BY <3>4
    <3> QED BY <2>1, <3>3, <3>5, <3>6, <3>7
  <2>2. CASE left' # {}
    <3>1. stack' = <<>> /\ Len(stack') = 0
      BY <1>1, <2>2
    <3> QED BY <2>2, <3>1, PendingNothing
  <2> QED BY <2>1, <2>2
<1>7. DOMAIN descr' = DOMAIN service \ left'
  <2>1. DOMAIN descr' = DOMAIN descr \cup {m}
    BY <1>1 DEF Put
  <2> QED BY <1>1, <1>2, <2>1 DEF TypeOK
<1>8. TypeOK'
  <2>1. /\ \A f \in {toCreate'} \cup Range(stack') :
             \A n \in DOMAIN f : f[n] \in Type /\ SchemaName[f[n]] = n
        /\ \A k \in DOMAIN schemas' : schemas'[k] \in Type /\ Key(schemas'[k]) = k
    BY <1>1, <1>4, <1>5, <1>6, NamedIsTyped, KeyedIsTyped
  <2> QED BY <1>1, <1>2, <1>6, <1>7, <2>1 DEF TypeOK
<1>9. Types'
  BY <1>1, <1>2, <1>4, <1>6, <1>8 DEF Types
<1>10. ReferencesKept'
  <2>1. \A k \in DOMAIN service \ left' : descr'[k] \subseteq DOMAIN toCreate'
    <3>1. descr'[m] = NamesOf(Referred(m))
      BY <1>1 DEF Put
    <3>2. \A k \in DOMAIN service \ left : k # m /\ descr'[k] = descr[k]
      BY <1>1, <1>2 DEF Put, TypeOK
    <3> QED BY <1>1, <1>4, <3>1, <3>2 DEF IInv, ReferencesKept
  <2>2. left' = {} => DOMAIN toCreate' \subseteq DOMAIN schemas' \cup Pending(stack') \cup {None}
    BY <1>6
  <2>3. \A n \in DOMAIN schemas' :
          References(schemas'[n]) \subseteq DOMAIN schemas' \cup Pending(stack') \cup {None}
    BY <1>1, <1>3, PendingNothing DEF IInv, ReferencesKept, Resolvable
  <2> QED BY <1>1, <2>1, <2>2, <2>3 DEF ReferencesKept, Resolvable
<1>11. RecursionIsBounded'
  <2>1. Cardinality(DOMAIN schemas) \in Nat
    BY <1>2, FS_CardinalityType DEF Types
  <2>2. Len(stack') \in Nat /\ Len(stack') <= 1
    BY <1>6
  <2> QED BY <1>1, <2>1, <2>2 DEF RecursionIsBounded
<1> QED BY <1>9, <1>10, <1>11 DEF IInv

\* What the innermost range is, for the steps that visit a name of it.
LEMMA Visited ==
  ASSUME Types, NEW n, Visit(n)
  PROVE  /\ Head(stack) \in Frame /\ Named(Head(stack))
         /\ Head(stack)[n] \in Type /\ SchemaName[Head(stack)[n]] = n
         /\ n # None => KeyAt(n) = n
         /\ Others(n) \in Frame /\ Named(Others(n))
         /\ DOMAIN Head(stack) = DOMAIN Others(n) \cup {n}
         /\ <<Others(n)>> \o Tail(stack) \in Seq(Frame)
         /\ Len(<<Others(n)>> \o Tail(stack)) = Len(stack)
         /\ Pending(stack) = Pending(<<Others(n)>> \o Tail(stack)) \cup {n}
         /\ \A f \in Range(<<Others(n)>> \o Tail(stack)) : Named(f)
<1>1. stack \in Seq(Frame) /\ stack # <<>> /\ n \in DOMAIN Head(stack)
  BY DEF Types, Visit
<1>2. /\ Head(stack) \in Frame /\ Tail(stack) \in Seq(Frame)
      /\ Len(Tail(stack)) = Len(stack) - 1
      /\ Pending(stack) = DOMAIN Head(stack) \cup Pending(Tail(stack))
      /\ Range(stack) = {Head(stack)} \cup Range(Tail(stack))
  BY <1>1, PendingTop
<1>3. \A f \in Range(stack) : Named(f)
  BY AllNamed
<1>4. Named(Head(stack)) /\ \A f \in Range(Tail(stack)) : Named(f)
  BY <1>2, <1>3
<1>5. Head(stack)[n] \in Type /\ SchemaName[Head(stack)[n]] = n
  BY <1>1, <1>2, <1>4, NamedIsTyped
<1>6. Others(n) \in Frame /\ Named(Others(n)) /\ DOMAIN Others(n) = DOMAIN Head(stack) \ {n}
  BY <1>1, <1>2, <1>4, OthersLeft DEF Others
<1>7. /\ <<Others(n)>> \o Tail(stack) \in Seq(Frame)
      /\ Len(<<Others(n)>> \o Tail(stack)) = Len(Tail(stack)) + 1
      /\ Pending(<<Others(n)>> \o Tail(stack)) = DOMAIN Others(n) \cup Pending(Tail(stack))
      /\ Range(<<Others(n)>> \o Tail(stack)) = {Others(n)} \cup Range(Tail(stack))
  BY <1>2, <1>6, PendingPush
<1>8. Len(stack) \in Nat
  BY <1>1
<1>9. Len(<<Others(n)>> \o Tail(stack)) = Len(stack)
  BY <1>2, <1>7, <1>8
<1>10. DOMAIN Head(stack) = DOMAIN Others(n) \cup {n}
  BY <1>1, <1>6
<1>11. Pending(stack) = Pending(<<Others(n)>> \o Tail(stack)) \cup {n}
  BY <1>2, <1>7, <1>10
<1>12. \A f \in Range(<<Others(n)>> \o Tail(stack)) : Named(f)
  BY <1>4, <1>6, <1>7
<1>13. n # None => KeyAt(n) = n
  BY <1>5 DEF KeyAt, Key
<1> QED BY <1>13, <1>2, <1>4, <1>5, <1>6, <1>7, <1>9, <1>10, <1>11, <1>12

\* A schema that exists is not to be visited any more.
LEMMA SkipIInv ==
  ASSUME IInv, NEW n \in NamesOf(Type), SkipSchema(n)
  PROVE  IInv'
<1>1. /\ Visit(n) /\ KeyAt(n) \in DOMAIN schemas
      /\ stack' = <<Others(n)>> \o Tail(stack)
      /\ service' = service /\ info' = info /\ left' = left /\ descr' = descr
      /\ toCreate' = toCreate /\ schemas' = schemas /\ outcome' = outcome
  BY DEF SkipSchema
<1>2. Types /\ TypeOK /\ outcome = "running" /\ stack # <<>>
  BY <1>1 DEF IInv, Types, Visit
<1>3. /\ stack' \in Seq(Frame) /\ Len(stack') = Len(stack)
      /\ Pending(stack) = Pending(stack') \cup {n}
      /\ n \in DOMAIN schemas \cup {None}
      /\ \A f \in Range(stack') : Named(f)
  BY <1>1, <1>2, Visited
<1>4. \A f \in Range(stack') : f \in Frame
  BY <1>3 DEF Range
<1>5. TypeOK'
  <2>1. \A f \in {toCreate'} \cup Range(stack') :
          \A x \in DOMAIN f : f[x] \in Type /\ SchemaName[f[x]] = x
    BY <1>1, <1>2, <1>3, <1>4, NamedIsTyped DEF TypeOK
  <2> QED BY <1>1, <1>2, <2>1 DEF TypeOK
<1>6. Types'
  BY <1>1, <1>2, <1>3, <1>5 DEF Types
<1>7. ReferencesKept'
  BY <1>1, <1>3 DEF IInv, ReferencesKept, Resolvable
<1>8. RecursionIsBounded'
  BY <1>1, <1>3 DEF IInv, RecursionIsBounded
<1> QED BY <1>6, <1>7, <1>8 DEF IInv

\* A new schema has its references visited next, one level deeper.
LEMMA AddIInv ==
  ASSUME IInv, NEW n \in NamesOf(Type), AddSchema(n)
  PROVE  IInv'
<1> DEFINE t == Head(stack)[n]
           rest == <<Others(n)>> \o Tail(stack)
<1>1. /\ Visit(n) /\ KeyAt(n) = Key(t) /\ Key(t) # None /\ Key(t) \notin DOMAIN schemas
      /\ schemas' = Put(schemas, Key(t), t)
      /\ service' = service /\ info' = info /\ left' = left /\ descr' = descr
      /\ toCreate' = toCreate /\ outcome' = outcome
  BY DEF AddSchema, KeyAt
<1>2. PICK e \in Ensured(Nested(t)) : stack' = <<e, Others(n)>> \o Tail(stack)
  BY DEF AddSchema
<1>3. Types /\ TypeOK /\ outcome = "running" /\ stack # <<>>
  BY <1>1 DEF IInv, Types, Visit
<1>4. /\ t \in Type /\ (n # None => Key(t) = n)
      /\ rest \in Seq(Frame) /\ Len(rest) = Len(stack)
      /\ Pending(stack) = Pending(rest) \cup {n}
      /\ \A f \in Range(rest) : Named(f)
  BY <1>1, <1>3, Visited
<1>5. e \in Frame /\ Named(e) /\ DOMAIN e = References(t)
  <2>1. Nested(t) \in SUBSET Type
    BY DEF Nested
  <2> QED BY <2>1, EnsuredMap DEF References
<1>6. stack' = <<e>> \o rest
  <2>1. Others(n) \in Frame /\ Tail(stack) \in Seq(Frame)
    BY <1>1, <1>3, Visited, PendingTop DEF Types
  <2> QED BY <1>2, <1>5, <2>1
<1> HIDE DEF rest
<1>7. /\ stack' \in Seq(Frame) /\ Len(stack') = Len(rest) + 1
      /\ Pending(stack') = DOMAIN e \cup Pending(rest)
      /\ Range(stack') = {e} \cup Range(rest)
  BY <1>4, <1>5, <1>6, PendingPush
<1>8. schemas \in Schemas /\ Keyed(schemas) /\ toCreate \in Frame /\ Named(toCreate)
  BY <1>3, AllNamed DEF Types
<1> HIDE DEF t
<1>9. /\ schemas' \in Schemas /\ Keyed(schemas')
      /\ DOMAIN schemas' = DOMAIN schemas \cup {Key(t)}
      /\ schemas'[Key(t)] = t
      /\ \A x \in DOMAIN schemas \ {Key(t)} : schemas'[x] = schemas[x]
  BY <1>1, <1>4, <1>8, SchemaPut
<1>10. \A f \in Range(stack') : f \in Frame /\ Named(f)
  <2>1. \A f \in Range(stack') : f \in Frame
    BY <1>7 DEF Range
  <2>2. \A f \in Range(stack') : Named(f)
    BY <1>4, <1>5, <1>7
  <2> QED BY <2>1, <2>2
<1>11. stack' # <<>>
  BY <1>6, <1>4
<1>12. TypeOK'
  <2>1. /\ \A f \in {toCreate'} \cup Range(stack') :
             \A x \in DOMAIN f : f[x] \in Type /\ SchemaName[f[x]] = x
        /\ \A k \in DOMAIN schemas' : schemas'[k] \in Type /\ Key(schemas'[k]) = k
    BY <1>1, <1>8, <1>9, <1>10, NamedIsTyped, KeyedIsTyped
  <2> QED BY <1>1, <1>3, <1>9, <1>11, <2>1 DEF TypeOK
<1>13. /\ IsFiniteSet(DOMAIN schemas')
       /\ Cardinality(DOMAIN schemas') = Cardinality(DOMAIN schemas) + 1
       /\ Cardinality(DOMAIN schemas) \in Nat
  BY <1>1, <1>3, <1>9, FS_AddElement, FS_CardinalityType DEF Types
<1>14. Types'
  BY <1>1, <1>3, <1>7, <1>9, <1>12, <1>13 DEF Types
<1>15. DOMAIN schemas \cup Pending(stack) \cup {None}
         \subseteq DOMAIN schemas' \cup Pending(stack') \cup {None}
  BY <1>4, <1>7, <1>9
<1>16. ReferencesKept'
  <2>1. \A m \in DOMAIN service' \ left' : descr'[m] \subseteq DOMAIN toCreate'
    BY <1>1 DEF IInv, ReferencesKept
  <2>2. left' = {} => DOMAIN toCreate' \subseteq DOMAIN schemas' \cup Pending(stack') \cup {None}
    BY <1>1, <1>15 DEF IInv, ReferencesKept, Resolvable
  <2>3. \A x \in DOMAIN schemas' :
          References(schemas'[x]) \subseteq DOMAIN schemas' \cup Pending(stack') \cup {None}
    <3>1. References(t) \subseteq Pending(stack')
      BY <1>5, <1>7
    <3>2. \A x \in DOMAIN schemas :
            References(schemas[x]) \subseteq DOMAIN schemas \cup Pending(stack) \cup {None}
      BY DEF IInv, ReferencesKept, Resolvable
    <3> QED BY <1>1, <1>9, <1>15, <3>1, <3>2
  <2> QED BY <2>1, <2>2, <2>3 DEF ReferencesKept, Resolvable
<1>17. RecursionIsBounded'
  <2>1. Len(stack) \in Nat
    BY <1>3 DEF Types
  <2>2. Len(stack') = Len(stack) + 1
    BY <1>4, <1>7
  <2> QED BY <1>13, <2>1, <2>2 DEF IInv, RecursionIsBounded
<1> QED BY <1>14, <1>16, <1>17 DEF IInv

\* A range that is over has nothing left to visit.
LEMMA ReturnIInv ==
  ASSUME IInv, Return
  PROVE  IInv'
<1>1. /\ stack # <<>> /\ DOMAIN Head(stack) = {} /\ stack' = Tail(stack)
      /\ outcome = "running" /\ outcome' = IF stack' = <<>> THEN "ok" ELSE outcome
      /\ service' = service /\ info' = info /\ left' = left /\ descr' = descr
      /\ toCreate' = toCreate /\ schemas' = schemas
  BY DEF Return
<1>2. Types /\ TypeOK /\ stack \in Seq(Frame)
  BY DEF IInv, Types
<1>3. /\ stack' \in Seq(Frame) /\ Len(stack') = Len(stack) - 1
      /\ Pending(stack) = DOMAIN Head(stack) \cup Pending(stack')
      /\ Range(stack) = {Head(stack)} \cup Range(stack')
  BY <1>1, <1>2, PendingTop
<1>4. Pending(stack') = Pending(stack)
  BY <1>1, <1>3
<1>5. TypeOK'
  <2>1. \A f \in {toCreate'} \cup Range(stack') :
          \A n \in DOMAIN f : f[n] \in Type /\ SchemaName[f[n]] = n
    BY <1>1, <1>2, <1>3 DEF TypeOK
  <2> QED BY <1>1, <1>2, <2>1 DEF TypeOK
<1>6. Types'
  BY <1>1, <1>2, <1>3, <1>5 DEF Types
<1>7. ReferencesKept'
  BY <1>1, <1>4 DEF IInv, ReferencesKept, Resolvable
<1>8. RecursionIsBounded'
  <2>1. Len(stack) \in Nat /\ Cardinality(DOMAIN schemas) \in Nat
    BY <1>2, FS_CardinalityType DEF Types
  <2> QED BY <1>1, <1>3, <2>1 DEF IInv, RecursionIsBounded
<1> QED BY <1>6, <1>7, <1>8 DEF IInv

\* An error, a crash and a stuttering step leave the maps as they are.
LEMMA EndIInv ==
  ASSUME IInv, outcome' \in {outcome, "error", "crash"},
         UNCHANGED <<service, info, left, dups, descr, names, toCreate, schemas, stack>>
  PROVE  IInv'
<1>1. TypeOK'
  BY DEF IInv, Types, TypeOK
<1>2. Types'
  BY <1>1 DEF IInv, Types
<1>3. ReferencesKept'
  BY DEF IInv, ReferencesKept, Resolvable
<1>4. RecursionIsBounded'
  BY DEF IInv, RecursionIsBounded
<1> QED BY <1>2, <1>3, <1>4 DEF IInv

LEMMA NextIInv == IInv /\ [Next]_vars => IInv'
<1> SUFFICES ASSUME IInv, [Next]_vars PROVE IInv'
  OBVIOUS
<1>1. ASSUME NEW m \in left, DescribeMethod(m) PROVE IInv'
  BY <1>1, DescribeIInv
<1>2. ASSUME NEW m \in left, RefuseMethod(m) PROVE IInv'
  BY <1>2, EndIInv DEF RefuseMethod
<1>3. ASSUME NEW m \in left, Overflow(m) PROVE IInv'
  BY <1>3, EndIInv DEF Overflow
<1>4. ASSUME NEW n \in NamesOf(Type), SkipSchema(n) PROVE IInv'
  BY <1>4, SkipIInv
<1>5. ASSUME NEW n \in NamesOf(Type), RefuseSchema(n) PROVE IInv'
  BY <1>5, EndIInv DEF RefuseSchema
<1>6. ASSUME NEW n \in NamesOf(Type), AddSchema(n) PROVE IInv'
  BY <1>6, AddIInv
<1>7. CASE Return
  BY <1>7, ReturnIInv
<1>8. CASE UNCHANGED vars
  BY <1>8, EndIInv DEF vars
<1> QED BY <1>1, <1>2, <1>3, <1>4, <1>5, <1>6, <1>7, <1>8 DEF Next

LEMMA Invariance == Spec => []IInv
<1>1. Init => IInv
  BY InitIInv
<1>2. IInv /\ [Next]_vars => IInv'
  BY NextIInv
<1> QED BY <1>1, <1>2, PTL DEF Spec

-------------------------------------------------------------------------------
(* The schemas are of types that the messages reach *)

ReachedOnly ==
  \A f \in {toCreate, schemas} \cup Range(stack) : Range(f) \subseteq Reached

\* A type has its schema, or is in a range that has still to visit it.
Visiting(s) == UNION {Range(s[i]) : i \in DOMAIN s}
Comes(S) == S \subseteq Range(schemas) \cup Visiting(stack)

AllCome ==
  /\ \A m \in DOMAIN service \ left : Referred(m) \subseteq Range(toCreate)
  /\ left = {} => Comes(Range(toCreate))
  /\ \A t \in Range(schemas) : Comes(Nested(t))

RInv == IInv /\ ReachedOnly /\ (NamesAreUnique => AllCome)

LEMMA RangePut ==
  ASSUME NEW f, NEW n, NEW t
  PROVE  /\ Range(Put(f, n, t)) \subseteq Range(f) \cup {t}
         /\ t \in Range(Put(f, n, t))
         /\ (\A x \in DOMAIN f : x = n => f[x] = t) =>
              Range(Put(f, n, t)) = Range(f) \cup {t}
<1> DEFINE g == Put(f, n, t)
<1>1. DOMAIN g = DOMAIN f \cup {n} /\ g[n] = t /\ \A x \in DOMAIN f \ {n} : g[x] = f[x]
  BY DEF Put
<1> HIDE DEF g
<1> QED BY <1>1 DEF Range, g

\* What a stack visits, by its innermost range and the others.
LEMMA VisitingPush ==
  ASSUME NEW s \in Seq(Frame), NEW f \in Frame
  PROVE  Visiting(<<f>> \o s) = Range(f) \cup Visiting(s)
<1>1. /\ Range(<<f>> \o s) = {f} \cup Range(s)
  BY PendingPush
<1>2. \A z : Visiting(z) = UNION {Range(g) : g \in Range(z)}
  BY DEF Visiting, Range
<1> QED BY <1>1, <1>2

LEMMA VisitingTop ==
  ASSUME NEW s \in Seq(Frame), s # <<>>
  PROVE  Visiting(s) = Range(Head(s)) \cup Visiting(Tail(s))
<1>1. Head(s) \in Frame /\ Tail(s) \in Seq(Frame) /\ s = <<Head(s)>> \o Tail(s)
  BY PendingTop
<1> QED BY <1>1, VisitingPush

LEMMA VisitingNothing == Visiting(<<>>) = {}
BY DEF Visiting

\* The messages of a service stay as they are.
LEMMA ReachedStays ==
  ASSUME UNCHANGED <<service, info>>
  PROVE  /\ Reached' = Reached /\ NamesAreUnique' = NamesAreUnique
         /\ \A m : Referred(m)' = Referred(m)
<1>1. \A m : Referred(m)' = Referred(m)
  BY DEF Referred, isBodiless
<1>2. Roots' = Roots
  BY <1>1 DEF Roots
<1> QED BY <1>1, <1>2 DEF Reached, NamesAreUnique

\* A method collects the types that it refers to.
LEMMA CollectRange ==
  ASSUME RInv, NEW m \in DOMAIN service
  PROVE  LET c == Collect(m, toCreate) IN
         /\ Range(c) \subseteq Reached
         /\ NamesAreUnique => Range(c) = Range(toCreate) \cup Referred(m)
<1> DEFINE req == service[m].req
           resp == service[m].resp
           R == Referred(m)
           a == IF req \in R THEN Put(toCreate, SchemaName[req], req) ELSE toCreate
           b == IF resp \in R THEN Put(a, SchemaName[resp], resp) ELSE a
<1>1. service \in Service /\ req \in Type /\ resp \in Type /\ toCreate \in Frame
  BY ServiceAssumption DEF RInv, IInv, Types, TypeOK
<1>2. R \subseteq {req, resp} /\ R \subseteq Reached
  BY <1>1, RootsAreTypes, ReachedHas DEF Referred
<1>3. Named(toCreate) /\ Range(toCreate) \subseteq Reached
  BY AllNamed DEF RInv, IInv, ReachedOnly
<1>4. ASSUME NEW f, Named(f), Range(f) \subseteq Reached, NEW t \in R, NamesAreUnique
      PROVE  \A x \in DOMAIN f : x = SchemaName[t] => f[x] = t
  BY <1>2, <1>4 DEF Named, NamesAreUnique, Range
<1>5. /\ Named(a) /\ Range(a) \subseteq Reached
      /\ NamesAreUnique => Range(a) = Range(toCreate) \cup (R \cap {req})
  <2>1. CASE req \in R
    <3>1. Named(a) BY <1>1, <1>3, <2>1, MapPut
    <3>2. Range(a) \subseteq Reached BY <1>2, <1>3, <2>1, RangePut
    <3>3. NamesAreUnique => Range(a) = Range(toCreate) \cup {req}
      BY <1>3, <1>4, <2>1, RangePut
    <3> QED BY <2>1, <3>1, <3>2, <3>3
  <2>2. CASE req \notin R BY <1>3, <2>2
  <2> QED BY <2>1, <2>2
<1> HIDE DEF a
<1>6. /\ Range(b) \subseteq Reached
      /\ NamesAreUnique => Range(b) = Range(a) \cup (R \cap {resp})
  <2>1. CASE resp \in R
    <3>2. Range(b) \subseteq Reached BY <1>2, <1>5, <2>1, RangePut
    <3>3. NamesAreUnique => Range(b) = Range(a) \cup {resp}
      BY <1>4, <1>5, <2>1, RangePut
    <3> QED BY <2>1, <3>2, <3>3
  <2>2. CASE resp \notin R BY <1>5, <2>2
  <2> QED BY <2>1, <2>2
<1>7. Collect(m, toCreate) = b
  BY DEF Collect, a
<1> QED BY <1>2, <1>5, <1>6, <1>7

LEMMA DescribeReached ==
  ASSUME RInv, NEW m \in left, DescribeMethod(m)
  PROVE  ReachedOnly' /\ (NamesAreUnique => AllCome)'
<1>1. /\ UNCHANGED <<service, info>> /\ schemas' = schemas /\ left' = left \ {m}
      /\ toCreate' = Collect(m, toCreate)
      /\ stack' = IF left' = {} THEN <<toCreate'>> ELSE <<>>
  BY DEF DescribeMethod, Begin
<1>2. m \in DOMAIN service /\ stack = <<>>
  BY DEF RInv, IInv, Types, TypeOK
<1>3. /\ Range(toCreate') \subseteq Reached
      /\ NamesAreUnique => Range(toCreate') = Range(toCreate) \cup Referred(m)
  BY <1>1, <1>2, CollectRange
<1>4. Range(stack') \subseteq {toCreate'} /\ Range(schemas) \subseteq Reached
  BY <1>1 DEF Range, RInv, ReachedOnly
<1>5. \A f \in {toCreate', schemas'} \cup Range(stack') : Range(f) \subseteq Reached
  BY <1>1, <1>3, <1>4
<1>6. /\ Reached' = Reached /\ NamesAreUnique' = NamesAreUnique
      /\ \A k : Referred(k)' = Referred(k)
  BY <1>1, ReachedStays
<1>7. ASSUME NamesAreUnique PROVE AllCome'
  <2>1. \A k \in DOMAIN service \ left' : Referred(k) \subseteq Range(toCreate')
    BY <1>1, <1>3, <1>7 DEF RInv, AllCome
  <2>2. ASSUME left' = {} PROVE Range(toCreate') \subseteq Visiting(stack')
    <3>1. DOMAIN stack' = {1} /\ stack'[1] = toCreate'
      BY <1>1, <2>2
    <3> QED BY <3>1 DEF Visiting
  <2>3. \A t \in Range(schemas) : Nested(t) \subseteq Range(schemas)
    BY <1>2, <1>7, VisitingNothing DEF RInv, AllCome, Comes
  <2> QED BY <1>1, <1>6, <2>1, <2>2, <2>3 DEF AllCome, Comes
<1> QED BY <1>5, <1>6, <1>7 DEF ReachedOnly

\* What a visit leaves of the stack has ranges over types that are reached, and
\* over all but the one that it visits.
LEMMA VisitReached ==
  ASSUME RInv, NEW n, Visit(n)
  PROVE  /\ Head(stack)[n] \in Reached
         /\ \A f \in Range(<<Others(n)>> \o Tail(stack)) : Range(f) \subseteq Reached
         /\ Visiting(stack) \subseteq
              {Head(stack)[n]} \cup Visiting(<<Others(n)>> \o Tail(stack))
<1>1. stack \in Seq(Frame) /\ stack # <<>> /\ n \in DOMAIN Head(stack) /\ Types
  BY DEF RInv, IInv, Types, Visit
<1>2. Tail(stack) \in Seq(Frame) /\ Range(stack) = {Head(stack)} \cup Range(Tail(stack))
  BY <1>1, PendingTop
<1>3. \A f \in {Head(stack)} \cup Range(Tail(stack)) : Range(f) \subseteq Reached
  BY <1>2 DEF RInv, ReachedOnly
<1>4. Others(n) \in Frame
  BY <1>1, Visited
<1>5. Range(<<Others(n)>> \o Tail(stack)) = {Others(n)} \cup Range(Tail(stack))
  BY <1>2, <1>4, PendingPush
<1>6. /\ Range(Others(n)) \subseteq Range(Head(stack))
      /\ Range(Head(stack)) \subseteq {Head(stack)[n]} \cup Range(Others(n))
  BY DEF Others, Restrict, Range
<1>7. Head(stack)[n] \in Range(Head(stack))
  BY <1>1 DEF Range
<1>8. /\ Visiting(stack) = Range(Head(stack)) \cup Visiting(Tail(stack))
      /\ Visiting(<<Others(n)>> \o Tail(stack)) = Range(Others(n)) \cup Visiting(Tail(stack))
  BY <1>1, <1>2, <1>4, VisitingTop, VisitingPush
<1> QED BY <1>3, <1>5, <1>6, <1>7, <1>8

\* A schema that exists under the key of a type is its own, if names are unique.
LEMMA SkipReached ==
  ASSUME RInv, NEW n \in NamesOf(Type), SkipSchema(n)
  PROVE  ReachedOnly' /\ (NamesAreUnique => AllCome)'
<1> DEFINE t == Head(stack)[n]
<1>1. /\ Visit(n) /\ stack' = <<Others(n)>> \o Tail(stack)
      /\ KeyAt(n) \in DOMAIN schemas
      /\ UNCHANGED <<service, info>> /\ left' = left /\ toCreate' = toCreate
      /\ schemas' = schemas
  BY DEF SkipSchema
<1>2. /\ t \in Reached /\ \A f \in Range(stack') : Range(f) \subseteq Reached
      /\ Visiting(stack) \subseteq {t} \cup Visiting(stack')
  BY <1>1, VisitReached
<1>3. /\ Reached' = Reached /\ NamesAreUnique' = NamesAreUnique
      /\ \A k : Referred(k)' = Referred(k)
  BY <1>1, ReachedStays
<1>4. ReachedOnly'
  BY <1>1, <1>2, <1>3 DEF RInv, ReachedOnly
<1>5. ASSUME NamesAreUnique PROVE AllCome'
  <2>1. /\ schemas[Key(t)] \in Range(schemas) /\ Key(schemas[Key(t)]) = Key(t)
        /\ Range(schemas) \subseteq Reached
    BY <1>1, AllNamed DEF RInv, IInv, ReachedOnly, Keyed, KeyAt, Range
  <2>2. t \in Range(schemas)
    BY <1>2, <1>5, <2>1 DEF NamesAreUnique
  <2>3. \A S : Comes(S) => Comes(S)'
    BY <1>1, <1>2, <2>2 DEF Comes
  <2>4. AllCome
    BY <1>5 DEF RInv
  <2> QED BY <1>1, <1>3, <2>3, <2>4 DEF AllCome
<1> QED BY <1>3, <1>4, <1>5

\* A schema is added for a type that is reached, and so are those it refers to.
LEMMA AddReached ==
  ASSUME RInv, NEW n \in NamesOf(Type), AddSchema(n)
  PROVE  ReachedOnly' /\ (NamesAreUnique => AllCome)'
<1> DEFINE t == Head(stack)[n]
           rest == <<Others(n)>> \o Tail(stack)
<1>1. /\ Visit(n) /\ schemas' = Put(schemas, Key(t), t) /\ Key(t) \notin DOMAIN schemas
      /\ UNCHANGED <<service, info>> /\ left' = left /\ toCreate' = toCreate
  BY DEF AddSchema, KeyAt
<1>2. PICK e \in Ensured(Nested(t)) : stack' = <<e, Others(n)>> \o Tail(stack)
  BY DEF AddSchema
<1>3. Types /\ stack \in Seq(Frame) /\ stack # <<>>
  BY <1>1 DEF RInv, IInv, Types, Visit
<1>4. /\ t \in Reached /\ \A f \in Range(rest) : Range(f) \subseteq Reached
      /\ Visiting(stack) \subseteq {t} \cup Visiting(rest)
  BY <1>1, VisitReached
<1>5. Nested(t) \in SUBSET Type /\ Nested(t) \subseteq Reached
  <2>1. service \in Service
    BY <1>3 DEF Types, TypeOK
  <2> QED BY <1>4, <2>1, ReachedHas
<1>6. /\ e \in Frame /\ Range(e) \subseteq Reached
      /\ NamesAreUnique => Range(e) = Nested(t)
  <2>1. /\ e \in [NamesOf(Nested(t)) -> Nested(t)]
        /\ \A x \in NamesOf(Nested(t)) : SchemaName[e[x]] = x
    BY DEF Ensured
  <2>2. Range(e) \subseteq Nested(t)
    BY <2>1 DEF Range
  <2>3. ASSUME NamesAreUnique, NEW u \in Nested(t) PROVE u \in Range(e)
    <3>1. SchemaName[u] \in DOMAIN e
      BY <2>1, <2>3 DEF NamesOf
    <3>2. e[SchemaName[u]] \in Nested(t) /\ SchemaName[e[SchemaName[u]]] = SchemaName[u]
      BY <2>1, <3>1
    <3>3. e[SchemaName[u]] = u
      BY <1>5, <2>3, <3>2 DEF NamesAreUnique
    <3> QED BY <3>1, <3>3 DEF Range
  <2> QED BY <1>5, <2>2, <2>3, EnsuredMap
<1>7. rest \in Seq(Frame) /\ stack' = <<e>> \o rest
  <2>1. Others(n) \in Frame /\ Tail(stack) \in Seq(Frame) /\ rest \in Seq(Frame)
    BY <1>1, <1>3, Visited, PendingTop
  <2> QED BY <1>2, <1>6, <2>1
<1> HIDE DEF rest, t
<1>8. /\ Range(stack') = {e} \cup Range(rest)
      /\ Visiting(stack') = Range(e) \cup Visiting(rest)
  BY <1>6, <1>7, PendingPush, VisitingPush
<1>9. Range(schemas') = Range(schemas) \cup {t} /\ Range(schemas) \subseteq Reached
  BY <1>1, RangePut DEF RInv, ReachedOnly
<1>10. \A f \in {toCreate', schemas'} \cup Range(stack') : Range(f) \subseteq Reached
  BY <1>1, <1>4, <1>6, <1>8, <1>9 DEF RInv, ReachedOnly
<1>11. /\ Reached' = Reached /\ NamesAreUnique' = NamesAreUnique
       /\ \A k : Referred(k)' = Referred(k)
  BY <1>1, ReachedStays
<1>12. ASSUME NamesAreUnique PROVE AllCome'
  <2>1. \A S : Comes(S) => Comes(S)'
    BY <1>4, <1>8, <1>9 DEF Comes
  <2>2. Nested(t) \subseteq Range(schemas') \cup Visiting(stack')
    BY <1>6, <1>8, <1>12
  <2>3. AllCome
    BY <1>12 DEF RInv
  <2>4. ASSUME NEW u \in Range(schemas') PROVE Comes(Nested(u))'
    BY <1>9, <2>1, <2>2, <2>3, <2>4 DEF AllCome, Comes
  <2> QED BY <1>1, <1>11, <2>1, <2>3, <2>4 DEF AllCome
<1> QED BY <1>10, <1>11, <1>12 DEF ReachedOnly

\* Steps that leave the maps as they are, and the stack what it has to visit.
LEMMA OtherReached ==
  ASSUME RInv, UNCHANGED <<service, info, left, toCreate, schemas>>,
         \A f \in Range(stack)' : Range(f) \subseteq Reached,
         Visiting(stack) \subseteq Visiting(stack)'
  PROVE  ReachedOnly' /\ (NamesAreUnique => AllCome)'
<1>1. /\ Reached' = Reached /\ NamesAreUnique' = NamesAreUnique
      /\ \A k : Referred(k)' = Referred(k)
  BY ReachedStays
<1>2. \A S : Comes(S) => Comes(S)'
  BY DEF Comes
<1>3. AllCome => AllCome'
  BY <1>1, <1>2 DEF AllCome
<1> QED BY <1>1, <1>3 DEF RInv, ReachedOnly

LEMMA NextRInv == RInv /\ [Next]_vars => RInv'
<1> SUFFICES ASSUME RInv, [Next]_vars PROVE ReachedOnly' /\ (NamesAreUnique => AllCome)'
  BY NextIInv DEF RInv
<1> DEFINE P == ReachedOnly' /\ (NamesAreUnique => AllCome)'
<1>1. ASSUME NEW m \in left, DescribeMethod(m) PROVE P
  BY <1>1, DescribeReached
<1>2. ASSUME NEW n \in NamesOf(Type), AddSchema(n) PROVE P
  BY <1>2, AddReached
<1>3. ASSUME NEW n \in NamesOf(Type), SkipSchema(n) PROVE P
  BY <1>3, SkipReached
<1>4. ASSUME UNCHANGED <<service, info, left, toCreate, schemas, stack>> PROVE P
  BY <1>4, OtherReached DEF RInv, ReachedOnly
<1>5. CASE Return
  <2>1. /\ stack # <<>> /\ DOMAIN Head(stack) = {} /\ stack' = Tail(stack)
        /\ stack \in Seq(Frame)
        /\ UNCHANGED <<service, info, left, toCreate, schemas>>
    BY <1>5 DEF Return, RInv, IInv, Types
  <2>2. Range(stack)' \subseteq Range(stack)
    BY <2>1, PendingTop
  <2>3. Visiting(stack) = Range(Head(stack)) \cup Visiting(Tail(stack))
    BY <2>1, VisitingTop
  <2>4. Range(Head(stack)) = {}
    BY <2>1 DEF Range
  <2>5. Visiting(stack) \subseteq Visiting(stack)'
    BY <2>1, <2>3, <2>4
  <2> QED BY <2>1, <2>2, <2>5, OtherReached DEF RInv, ReachedOnly
<1>6. CASE UNCHANGED vars
  BY <1>4, <1>6 DEF vars
<1>7. ASSUME NEW m \in left, RefuseMethod(m) \/ Overflow(m) PROVE P
  BY <1>4, <1>7 DEF RefuseMethod, Overflow
<1>8. ASSUME NEW n \in NamesOf(Type), RefuseSchema(n) PROVE P
  BY <1>4, <1>8 DEF RefuseSchema
<1>9. CASE \E m \in left : DescribeMethod(m) \/ RefuseMethod(m) \/ Overflow(m)
  BY <1>1, <1>7, <1>9
<1>10. CASE \E n \in NamesOf(Type) : SkipSchema(n) \/ RefuseSchema(n) \/ AddSchema(n)
  BY <1>2, <1>3, <1>8, <1>10
<1> QED BY <1>5, <1>6, <1>9, <1>10 DEF Next

LEMMA InitRInv == Init => RInv
<1> SUFFICES ASSUME Init PROVE ReachedOnly /\ AllCome
  BY InitIInv DEF RInv
<1>1. /\ toCreate = <<>> /\ schemas = <<>> /\ stack = <<>> /\ left = DOMAIN service
      /\ left # {}
  BY ServiceAssumption DEF Init
<1>2. Range(<<>>) = {}
  BY PendingNothing
<1> QED BY <1>1, <1>2 DEF ReachedOnly, AllCome

LEMMA ReachedInvariance == Spec => []RInv
BY InitRInv, NextRInv, PTL DEF Spec

\* Where names are unique, a description without an error has all and no others.
LEMMA SchemasReached == RInv => SchemasAreThoseReached
<1> SUFFICES ASSUME RInv, outcome = "ok", NamesAreUnique PROVE Range(schemas) = Reached
  BY DEF SchemasAreThoseReached
<1>1. service \in Service /\ left = {} /\ stack = <<>>
  BY DEF RInv, IInv, Types, TypeOK
<1>2. /\ Reached \in SUBSET Type /\ Range(schemas) \subseteq Reached
  BY <1>1, ReachedHas DEF RInv, ReachedOnly
<1>3. \A S : Comes(S) => S \subseteq Range(schemas)
  BY <1>1, VisitingNothing DEF Comes
<1>4. Roots \subseteq Range(schemas)
  <2>1. \A m \in DOMAIN service : Referred(m) \subseteq Range(schemas)
    BY <1>1, <1>3 DEF RInv, AllCome
  <2> QED BY <2>1 DEF Roots
<1>5. \A t \in Range(schemas) : Nested(t) \subseteq Range(schemas)
  BY <1>3 DEF RInv, AllCome
<1>6. Reached \subseteq Range(schemas)
  <2>1. Range(schemas) \in SUBSET Type
    BY <1>2
  <2> QED BY <1>1, <1>4, <1>5, <2>1, ReachedIsLeast
<1> QED BY <1>2, <1>6

-------------------------------------------------------------------------------
(* Routes *)

\* Min is the least element of a set of naturals that has one.
LEMMA LeastOf ==
  ASSUME NEW S \in SUBSET Nat, S # {}
  PROVE  Min(S) \in S /\ \A j \in S : Min(S) <= j
<1>1. PICK i \in S : \A j \in S : <<j, i>> \notin OpToRel(<, Nat)
  BY NatLessThanWellFounded, WFMin
<1>2. \A j \in S : ~ (j < i)
  BY <1>1, Zenon DEF OpToRel
<1>3. i \in S /\ \A j \in S : i <= j
  BY <1>2
<1> QED BY <1>3 DEF Min

\* A position inside brackets is inside those of a match, since the outermost
\* opening bracket around it is not itself inside.
Outermost(p) == {o \in Openings(p) : MatchEnds(p, o) # {} /\ ~ Inside(p, o)}

LEMMA BracketsDiffer == Opening # Closing
BY Zenon DEF Opening, Closing

LEMMA PathPositions ==
  ASSUME NEW p, NamesItsParameters(p)
  PROVE  /\ Len(p) \in Nat /\ DOMAIN p = 1 .. Len(p)
         /\ \A o \in Openings(p) : o \in 1 .. Len(p) /\ p[o] = Opening
         /\ \A o \in Openings(p), c \in 1 .. Len(p) :
              c > o /\ p[c] = Closing => c >= o + 2 /\ c \in MatchEnds(p, o)
         /\ \A o \in Openings(p) : MatchEnds(p, o) # {} =>
              /\ MatchEnd(p, o) \in o + 2 .. Len(p) /\ p[MatchEnd(p, o)] = Closing
              /\ \A c \in MatchEnds(p, o) : MatchEnd(p, o) <= c
<1>1. Len(p) \in Nat /\ DOMAIN p = 1 .. Len(p)
  BY DEF NamesItsParameters
<1>2. \A o \in Openings(p) : o \in 1 .. Len(p) /\ p[o] = Opening
  BY <1>1 DEF Openings
<1>3. \A o \in Openings(p), c \in 1 .. Len(p) :
        c > o /\ p[c] = Closing => c >= o + 2 /\ c \in MatchEnds(p, o)
  <2>1. SUFFICES ASSUME NEW o \in Openings(p), NEW c \in 1 .. Len(p), c > o, p[c] = Closing
                 PROVE  c >= o + 2 /\ c \in MatchEnds(p, o)
    OBVIOUS
  <2>2. o < Len(p) => p[o + 1] # Closing
    BY <1>1, <1>2 DEF NamesItsParameters
  <2>3. c # o + 1
    BY <1>1, <1>2, <2>1, <2>2
  <2>4. c >= o + 2 /\ c \in o + 2 .. Len(p)
    BY <1>1, <1>2, <2>1, <2>3
  <2> QED BY <2>1, <2>4 DEF MatchEnds, Positions
<1>4. ASSUME NEW o \in Openings(p), MatchEnds(p, o) # {}
      PROVE  /\ MatchEnd(p, o) \in o + 2 .. Len(p) /\ p[MatchEnd(p, o)] = Closing
             /\ \A c \in MatchEnds(p, o) : MatchEnd(p, o) <= c
  <2>1. MatchEnds(p, o) \subseteq o + 2 .. Len(p)
    BY DEF MatchEnds, Positions
  <2>2. MatchEnds(p, o) \in SUBSET Nat
    BY <1>1, <1>2, <2>1
  <2>3. MatchEnd(p, o) \in MatchEnds(p, o) /\ \A c \in MatchEnds(p, o) : MatchEnd(p, o) <= c
    BY <1>4, <2>2, LeastOf DEF MatchEnd
  <2> QED BY <2>3 DEF MatchEnds, Positions
<1> QED BY <1>1, <1>2, <1>3, <1>4

LEMMA InsideOutermost ==
  ASSUME NEW p, NamesItsParameters(p), NEW i \in 1 .. Len(p), Inside(p, i)
  PROVE  \E o \in Outermost(p) : o < i /\ i < MatchEnd(p, o)
<1> DEFINE around == {o \in Openings(p) : o < i /\ \A c \in o .. i : p[c] # Closing}
           first == Min(around)
<1>1. around # {}
  BY DEF Inside
<1>2. Len(p) \in Nat /\ \A o \in Openings(p) : o \in 1 .. Len(p)
  BY PathPositions
<1>3. around \in SUBSET Nat
  BY <1>2
<1>4. first \in around /\ \A o \in around : first <= o
  BY <1>1, <1>3, LeastOf
<1> HIDE DEF first
<1>5. first \in Openings(p) /\ first < i /\ first \in 1 .. Len(p)
  BY <1>2, <1>4
<1>6. \A c \in first .. i : p[c] # Closing
  BY <1>4
<1>7. PICK e \in i .. Len(p) : p[e] = Closing
  BY DEF Inside
<1>8. e \in 1 .. Len(p) /\ e > first
  BY <1>2, <1>5, <1>7
<1>9. MatchEnds(p, first) # {}
  BY <1>5, <1>7, <1>8, PathPositions
<1>10. MatchEnd(p, first) \in first + 2 .. Len(p) /\ p[MatchEnd(p, first)] = Closing
  BY <1>5, <1>9, PathPositions
<1>11. i < MatchEnd(p, first)
  BY <1>2, <1>5, <1>6, <1>10
<1>12. ~ Inside(p, first)
  <2>1. SUFFICES ASSUME NEW o \in Openings(p), o < first, \A c \in o .. first : p[c] # Closing
                 PROVE  FALSE
    BY DEF Inside
  <2>2. \A c \in o .. i : p[c] # Closing
    BY <1>2, <1>5, <1>6, <2>1
  <2>3. o \in around
    BY <1>2, <1>5, <2>1, <2>2
  <2> QED BY <1>2, <1>4, <1>5, <2>1, <2>3
<1> QED BY <1>5, <1>9, <1>11, <1>12 DEF Outermost

\* A match ends before the next opening bracket that is not inside it.
LEMMA MatchEndsBefore ==
  ASSUME NEW p, NamesItsParameters(p), NEW o \in Openings(p), NEW x \in Openings(p), x < o,
         MatchEnds(p, o) # {}, ~ Inside(p, o)
  PROVE  MatchEnd(p, x) < o
<1>1. /\ Len(p) \in Nat /\ o \in 1 .. Len(p) /\ x \in 1 .. Len(p) /\ p[o] = Opening
      /\ MatchEnd(p, o) \in o + 2 .. Len(p) /\ p[MatchEnd(p, o)] = Closing
  BY PathPositions
<1>2. \E c \in o .. Len(p) : p[c] = Closing
  BY <1>1
<1>3. PICK c \in x .. o : p[c] = Closing
  BY <1>2 DEF Inside
<1>4. c # o /\ c # x
  BY <1>1, <1>3, BracketsDiffer, PathPositions
<1>5. c \in 1 .. Len(p) /\ c > x /\ c < o
  BY <1>1, <1>3, <1>4
<1>6. c \in MatchEnds(p, x)
  BY <1>3, <1>5, PathPositions
<1>7. MatchEnd(p, x) <= c /\ MatchEnd(p, x) \in x + 2 .. Len(p)
  BY <1>6, PathPositions
<1> QED BY <1>1, <1>5, <1>7

LEMMA MatchesAreOutermost ==
  ASSUME NEW p, NamesItsParameters(p)
  PROVE  Matches(p) = Outermost(p)
<1> DEFINE Leftmost(S) ==
      \A o \in Openings(p) :
        o \in S <=> MatchEnds(p, o) # {} /\ \A x \in S : x < o => MatchEnd(p, x) < o
<1>1. Outermost(p) \in SUBSET Openings(p)
  BY DEF Outermost
<1>2. ASSUME NEW S \in SUBSET Openings(p), Outermost(p) \subseteq S,
             NEW o \in Openings(p), \A x \in S : x < o => MatchEnd(p, x) < o
      PROVE  ~ Inside(p, o)
  <2>1. SUFFICES ASSUME Inside(p, o) PROVE FALSE
    OBVIOUS
  <2>2. o \in 1 .. Len(p) /\ Len(p) \in Nat
    BY PathPositions
  <2>3. PICK x \in Outermost(p) : x < o /\ o < MatchEnd(p, x)
    BY <2>1, <2>2, InsideOutermost
  <2>4. x \in Openings(p) /\ MatchEnds(p, x) # {} /\ x \in 1 .. Len(p)
    BY <2>3, PathPositions DEF Outermost
  <2>5. MatchEnd(p, x) \in x + 2 .. Len(p)
    BY <2>4, PathPositions
  <2>6. MatchEnd(p, x) < o
    BY <1>2, <2>3
  <2> QED BY <2>2, <2>3, <2>4, <2>5, <2>6
<1>3. Leftmost(Outermost(p))
  <2>1. SUFFICES ASSUME NEW o \in Openings(p)
                 PROVE  o \in Outermost(p) <=>
                          /\ MatchEnds(p, o) # {}
                          /\ \A x \in Outermost(p) : x < o => MatchEnd(p, x) < o
    OBVIOUS
  <2>2. ASSUME o \in Outermost(p), NEW x \in Outermost(p), x < o
        PROVE  MatchEnd(p, x) < o
    BY <2>2, MatchEndsBefore DEF Outermost
  <2>3. (\A x \in Outermost(p) : x < o => MatchEnd(p, x) < o) => ~ Inside(p, o)
    BY <1>1, <1>2
  <2> QED BY <2>2, <2>3 DEF Outermost
<1>4. ASSUME NEW S \in SUBSET Openings(p), Leftmost(S)
      PROVE  S = Outermost(p)
  <2>1. ASSUME NEW o \in Outermost(p) PROVE o \in S
    <3>1. o \in Openings(p) /\ MatchEnds(p, o) # {} /\ ~ Inside(p, o)
      BY DEF Outermost
    <3>2. \A x \in S : x < o => MatchEnd(p, x) < o
      BY <3>1, MatchEndsBefore
    <3> QED BY <1>4, <3>1, <3>2
  <2>2. ASSUME NEW o \in S PROVE o \in Outermost(p)
    <3>1. /\ o \in Openings(p) /\ MatchEnds(p, o) # {}
          /\ \A x \in S : x < o => MatchEnd(p, x) < o
      BY <1>4
    <3>2. ~ Inside(p, o)
      BY <1>2, <2>1, <3>1
    <3> QED BY <3>1, <3>2 DEF Outermost
  <2> QED BY <2>1, <2>2
<1>5. Matches(p) = CHOOSE S \in SUBSET Openings(p) : Leftmost(S)
  BY DEF Matches
<1> HIDE DEF Leftmost
<1> QED BY <1>1, <1>3, <1>4, <1>5

\* Where every parameter has a name, the regular expression {.+?} takes out of a
\* path what is inside its brackets, nested and unbalanced ones included.
THEOREM ShapeIsSkeleton ==
  ASSUME NEW p, NamesItsParameters(p)
  PROVE  Shape(p) = Skeleton(p)
<1> DEFINE out == {i \in DOMAIN p : \A o \in Matches(p) : i <= o \/ i >= MatchEnd(p, o)}
<1>1. Len(p) \in Nat /\ DOMAIN p = 1 .. Len(p)
  BY PathPositions
<1>2. ASSUME NEW i \in 1 .. Len(p), Inside(p, i) PROVE i \notin out
  <2>1. PICK o \in Outermost(p) : o < i /\ i < MatchEnd(p, o)
    BY <1>2, InsideOutermost
  <2>2. o \in Openings(p) /\ MatchEnds(p, o) # {} /\ o \in 1 .. Len(p)
    BY PathPositions DEF Outermost
  <2>3. MatchEnd(p, o) \in o + 2 .. Len(p)
    BY <2>2, PathPositions
  <2>4. ~ (i <= o \/ i >= MatchEnd(p, o))
    BY <1>1, <2>1, <2>2, <2>3
  <2> QED BY <2>1, <2>4, MatchesAreOutermost
<1>3. ASSUME NEW i \in 1 .. Len(p), NEW o \in Outermost(p), ~ (i <= o \/ i >= MatchEnd(p, o))
      PROVE  Inside(p, i)
  <2>1. o \in Openings(p) /\ MatchEnds(p, o) # {} /\ o \in 1 .. Len(p) /\ p[o] = Opening
    BY PathPositions DEF Outermost
  <2>2. /\ MatchEnd(p, o) \in o + 2 .. Len(p) /\ p[MatchEnd(p, o)] = Closing
        /\ \A c \in MatchEnds(p, o) : MatchEnd(p, o) <= c
    BY <2>1, PathPositions
  <2>3. o < i /\ i < MatchEnd(p, o)
    BY <1>1, <1>3, <2>1, <2>2
  <2>4. ASSUME NEW c \in o .. i, p[c] = Closing PROVE FALSE
    <3>1. c # o
      BY <2>1, <2>4, BracketsDiffer
    <3>2. c \in 1 .. Len(p) /\ c > o
      BY <1>1, <2>1, <3>1
    <3>3. c \in MatchEnds(p, o)
      BY <2>1, <2>4, <3>2, PathPositions
    <3> QED BY <1>1, <2>1, <2>2, <2>3, <3>2, <3>3
  <2> QED BY <1>1, <2>1, <2>2, <2>3, <2>4 DEF Inside
<1>4. out = {i \in DOMAIN p : ~ Inside(p, i)}
  BY <1>1, <1>2, <1>3, MatchesAreOutermost
<1> QED BY <1>4 DEF Shape, Skeleton

-------------------------------------------------------------------------------
(* The faults of methods and of schemas *)

Visitees == DOMAIN service \ left

Sound(m) == ~ Malformed(m) /\ service[m].req \notin Endless /\ ~ BadParam(m)

FaultsKept ==
  /\ dups = {Route(m) : m \in Visitees}
  /\ names = {info[m].name : m \in Visitees}
  /\ \A m \in Visitees : Sound(m)
  /\ \A m, k \in Visitees : m # k => Route(m) # Route(k) /\ info[m].name # info[k].name
  /\ \A n \in DOMAIN schemas : Describes(schemas[n])
  /\ outcome \in {"error", "crash"} /\ ParametersAreNamed => ~ Describable

FInv == RInv /\ FaultsKept

\* What is asked of methods is asked of the service alone.
LEMMA FaultsStay ==
  ASSUME UNCHANGED <<service, info>>
  PROVE  /\ \A m : Route(m)' = Route(m) /\ Sound(m)' = Sound(m)
         /\ ParametersAreNamed' = ParametersAreNamed /\ Describable' = Describable
<1>1. \A m : Malformed(m)' = Malformed(m) /\ BadParam(m)' = BadParam(m)
  BY DEF Malformed, BadParam, isBodiless
<1>2. \A m : Route(m)' = Route(m) /\ Sound(m)' = Sound(m)
  BY <1>1 DEF Route, Sound
<1>3. ParametersAreNamed' = ParametersAreNamed
  BY DEF ParametersAreNamed
<1>4. Describable' = Describable
  BY <1>1, ReachedStays DEF Describable
<1> QED BY <1>2, <1>3, <1>4

\* A method that is described has no fault, and none with those before it.
LEMMA DescribeFaults ==
  ASSUME FInv, NEW m \in left, DescribeMethod(m)
  PROVE  FaultsKept'
<1>1. /\ UNCHANGED <<service, info, schemas, outcome>>
      /\ outcome = "running" /\ left' = left \ {m}
      /\ dups' = dups \cup {Route(m)} /\ names' = names \cup {info[m].name}
      /\ Route(m) \notin dups /\ info[m].name \notin names /\ Sound(m)
  BY DEF DescribeMethod, Sound
<1>2. m \in DOMAIN service
  BY DEF FInv, RInv, IInv, Types, TypeOK
<1>3. Visitees' = Visitees \cup {m}
  BY <1>1, <1>2 DEF Visitees
<1>4. /\ \A k : Route(k)' = Route(k) /\ Sound(k)' = Sound(k)
  BY <1>1, FaultsStay
<1>5. /\ dups' = {Route(k) : k \in Visitees'}
      /\ names' = {info[k].name : k \in Visitees'}
  BY <1>1, <1>3 DEF FInv, FaultsKept
<1>6. \A k \in Visitees' : Sound(k)
  BY <1>1, <1>3 DEF FInv, FaultsKept
<1>7. \A k, l \in Visitees' : k # l => Route(k) # Route(l) /\ info[k].name # info[l].name
  BY <1>1, <1>3 DEF FInv, FaultsKept
<1> QED BY <1>1, <1>4, <1>5, <1>6, <1>7 DEF FInv, FaultsKept

\* A method that is refused, or overflows the stack, is not describable.
LEMMA RefuseFaults ==
  ASSUME FInv, NEW m \in left, RefuseMethod(m) \/ Overflow(m), ParametersAreNamed
  PROVE  ~ Describable
<1>1. m \in DOMAIN service /\ DOMAIN info = DOMAIN service
  BY DEF FInv, RInv, IInv, Types, TypeOK
<1>2. CASE Route(m) \in dups
  <2>1. PICK k \in Visitees : Route(k) = Route(m)
    BY <1>2 DEF FInv, FaultsKept
  <2>2. k \in DOMAIN service /\ k # m
    BY DEF Visitees
  <2>3. info[k].http = info[m].http /\ Shape(info[k].path) = Shape(info[m].path)
    BY <2>1 DEF Route
  <2>4. NamesItsParameters(info[k].path) /\ NamesItsParameters(info[m].path)
    BY <1>1, <2>2 DEF ParametersAreNamed
  <2>5. SameRoute(info[k], info[m])
    BY <2>3, <2>4, ShapeIsSkeleton DEF SameRoute
  <2> QED BY <1>1, <2>2, <2>5 DEF Describable
<1>3. CASE info[m].name \in names
  <2>1. PICK k \in Visitees : info[k].name = info[m].name
    BY <1>3 DEF FInv, FaultsKept
  <2>2. k \in DOMAIN service /\ k # m
    BY DEF Visitees
  <2> QED BY <1>1, <2>1, <2>2 DEF Describable
<1>4. CASE Malformed(m) \/ BadParam(m) \/ service[m].req \in Endless
  BY <1>1, <1>4 DEF Describable
<1> QED BY <1>2, <1>3, <1>4 DEF RefuseMethod, Overflow

\* A type that is refused is one that the messages reach.
LEMMA RefuseSchemaFaults ==
  ASSUME FInv, NEW n \in NamesOf(Type), RefuseSchema(n)
  PROVE  ~ Describable
<1>1. Visit(n) /\ (KeyAt(n) = None \/ ~ Describes(Head(stack)[n]))
  BY DEF RefuseSchema
<1>2. Head(stack)[n] \in Reached
  BY <1>1, VisitReached DEF FInv
<1> QED BY <1>1, <1>2 DEF Describable, KeyAt, Key

\* A schema that is added describes its type.
LEMMA AddFaults ==
  ASSUME FInv, NEW n \in NamesOf(Type), AddSchema(n)
  PROVE  FaultsKept'
<1> DEFINE t == Head(stack)[n]
<1>1. /\ UNCHANGED <<service, info, left, dups, names, outcome>>
      /\ Describes(t) /\ schemas' = Put(schemas, KeyAt(n), t)
  BY DEF AddSchema
<1> HIDE DEF t
<1>2. \A k \in DOMAIN schemas' : Describes(schemas'[k])
  BY <1>1 DEF Put, FInv, FaultsKept
<1> QED BY <1>1, <1>2, FaultsStay DEF FInv, FaultsKept, Visitees

\* Steps that only visit, and those that end with a fault of the service.
LEMMA OtherFaults ==
  ASSUME FInv, UNCHANGED <<service, info, left, dups, names, schemas>>,
         outcome' \in {"error", "crash"} /\ ParametersAreNamed =>
           ~ Describable \/ outcome' = outcome
  PROVE  FaultsKept'
BY FaultsStay DEF FInv, FaultsKept, Visitees

LEMMA NextFInv == FInv /\ [Next]_vars => FInv'
<1> SUFFICES ASSUME FInv, [Next]_vars PROVE FaultsKept'
  BY NextRInv DEF FInv
<1>1. ASSUME NEW m \in left, DescribeMethod(m) PROVE FaultsKept'
  BY <1>1, DescribeFaults
<1>2. ASSUME NEW m \in left, RefuseMethod(m) \/ Overflow(m) PROVE FaultsKept'
  BY <1>2, RefuseFaults, OtherFaults DEF RefuseMethod, Overflow
<1>3. ASSUME NEW n \in NamesOf(Type), SkipSchema(n) PROVE FaultsKept'
  BY <1>3, OtherFaults DEF SkipSchema
<1>4. ASSUME NEW n \in NamesOf(Type), RefuseSchema(n) PROVE FaultsKept'
  BY <1>4, RefuseSchemaFaults, OtherFaults DEF RefuseSchema
<1>5. ASSUME NEW n \in NamesOf(Type), AddSchema(n) PROVE FaultsKept'
  BY <1>5, AddFaults
<1>6. CASE Return
  BY <1>6, OtherFaults DEF Return
<1>7. CASE UNCHANGED vars
  BY <1>7, OtherFaults DEF vars
<1> QED BY <1>1, <1>2, <1>3, <1>4, <1>5, <1>6, <1>7 DEF Next

LEMMA FaultsInvariance == Spec => []FInv
<1>1. Init => FInv
  <2> SUFFICES ASSUME Init PROVE FInv
    OBVIOUS
  <2>1. RInv
    BY InitRInv
  <2>2. /\ schemas = <<>> /\ left = DOMAIN service /\ dups = {} /\ names = {}
        /\ outcome = "running"
    BY DEF Init
  <2>3. Visitees = {} /\ DOMAIN schemas = {}
    BY <2>2, Nothing DEF Visitees
  <2> QED BY <2>1, <2>2, <2>3 DEF FInv, FaultsKept
<1> QED BY <1>1, NextFInv, PTL DEF Spec

-------------------------------------------------------------------------------
(* The end of a description: what is left to do decreases *)

\* A description that runs has a method, a name or a return to go on with.
Working == outcome = "running" => left # {} \/ stack # <<>>

LEMMA InitWorking == Init => Working
BY ServiceAssumption DEF Init, Working

LEMMA NextWorking == Types /\ Working /\ [Next]_vars => Working'
<1> SUFFICES ASSUME Types, Working, [Next]_vars PROVE Working'
  OBVIOUS
<1>1. ASSUME NEW m \in left, DescribeMethod(m) PROVE Working'
  BY <1>1 DEF DescribeMethod, Begin, Working
<1>2. ASSUME NEW m \in left, RefuseMethod(m) \/ Overflow(m) PROVE Working'
  BY <1>2 DEF RefuseMethod, Overflow, Working
<1>3. ASSUME NEW n \in Name, SkipSchema(n) PROVE Working'
  <2>1. Visit(n) /\ stack' = <<Others(n)>> \o Tail(stack)
    BY <1>3 DEF SkipSchema
  <2>2. stack' \in Seq(Frame) /\ Len(stack') = Len(stack) /\ stack # <<>>
    BY <2>1, Visited DEF Visit
  <2>3. stack' # <<>>
    BY <2>2 DEF Types
  <2> QED BY <2>3 DEF Working
<1>4. ASSUME NEW n \in Name, RefuseSchema(n) PROVE Working'
  BY <1>4 DEF RefuseSchema, Working
<1>5. ASSUME NEW n \in Name, AddSchema(n) PROVE Working'
  <2>1. PICK e \in Ensured(Nested(Head(stack)[n])) : stack' = <<e, Others(n)>> \o Tail(stack)
    BY <1>5 DEF AddSchema
  <2>2. Tail(stack) \in Seq(Frame)
    BY <1>5, PendingTop DEF AddSchema, Visit, Types
  <2>3. stack' # <<>>
    BY <2>1, <2>2
  <2> QED BY <2>3 DEF Working
<1>6. CASE Return
  BY <1>6 DEF Return, Working
<1>7. CASE UNCHANGED vars
  BY <1>7 DEF vars, Working
<1> QED BY <1>1, <1>2, <1>3, <1>4, <1>5, <1>6, <1>7 DEF Next, Name

\* There are maps to ensure the schemas of any types.
LEMMA EnsuredExists ==
  ASSUME NEW S \in SUBSET Type
  PROVE  Ensured(S) # {}
<1> DEFINE e == [n \in NamesOf(S) |-> CHOOSE t \in S : SchemaName[t] = n]
<1>1. \A n \in NamesOf(S) : \E t \in S : SchemaName[t] = n
  BY DEF NamesOf
<1>2. \A n \in NamesOf(S) : e[n] \in S /\ SchemaName[e[n]] = n
  BY <1>1
<1>3. e \in [NamesOf(S) -> S]
  BY <1>2
<1>4. e \in Ensured(S)
  BY <1>2, <1>3 DEF Ensured
<1> QED BY <1>4

\* The methods to visit, the schemas that may be added, the calls of
\* addSchemaFromType and what the innermost one has to visit.
Innermost == IF stack = <<>> THEN {} ELSE DOMAIN Head(stack)
Work == <<Cardinality(left), Cardinality(Keys \ DOMAIN schemas),
          Len(stack), Cardinality(Innermost)>>

Below(a, b) == \E i \in 1 .. 4 : a[i] < b[i] /\ \A j \in 1 .. i - 1 : a[j] = b[j]

\* There are no more names than types, and no more keys.
LEMMA NameIsFinite == IsFiniteSet(Name) /\ IsFiniteSet(Keys)
<1> DEFINE f == [t \in Type |-> SchemaName[t]]
           g == [t \in Type |-> Key(t)]
<1>1. f \in Surjection(Type, Name)
  BY DEF Surjection, Name, NamesOf
<1>2. g \in Surjection(Type, Keys)
  BY DEF Surjection, Keys
<1> QED BY <1>1, <1>2, TypeAssumption, FS_Surjection

LEMMA FrameIsFinite ==
  ASSUME NEW f \in Frame
  PROVE  DOMAIN f \in SUBSET Name /\ IsFiniteSet(DOMAIN f)
<1>1. DOMAIN f \in SUBSET Name
  BY DEF Frame
<1> QED BY <1>1, NameIsFinite, FS_Subset

LEMMA WorkIsFinite ==
  ASSUME Types
  PROVE  /\ IsFiniteSet(left) /\ IsFiniteSet(Keys \ DOMAIN schemas) /\ IsFiniteSet(Innermost)
         /\ Work \in Nat \X Nat \X Nat \X Nat
<1>1. IsFiniteSet(left)
  BY ServiceAssumption, FS_Subset DEF Types, TypeOK
<1>2. IsFiniteSet(Keys \ DOMAIN schemas)
  BY NameIsFinite, FS_Subset
<1>3. IsFiniteSet(Innermost)
  <2>1. CASE stack = <<>>
    BY <2>1, FS_EmptySet DEF Innermost
  <2>2. CASE stack # <<>>
    BY <2>2, PendingTop, FrameIsFinite DEF Innermost, Types
  <2> QED BY <2>1, <2>2
<1>4. Len(stack) \in Nat
  BY DEF Types
<1> QED BY <1>1, <1>2, <1>3, <1>4, FS_CardinalityType DEF Work

\* A finite set without one of its elements is smaller.
LEMMA Smaller ==
  ASSUME NEW S, NEW x \in S, IsFiniteSet(S)
  PROVE  Cardinality(S \ {x}) < Cardinality(S)
<1>1. Cardinality(S) \in Nat
  BY FS_CardinalityType
<1>2. Cardinality(S \ {x}) = Cardinality(S) - 1
  BY FS_RemoveElement
<1> QED BY <1>1, <1>2

\* A step of APIDescriptor ends it or leaves less to do.
Descends == outcome = "running" /\ (outcome' # "running" \/ Below(Work', Work))

LEMMA NextDescends == Types /\ [Next]_vars => [Descends]_vars
<1> SUFFICES ASSUME Types, Next PROVE Descends
  OBVIOUS
<1>1. ASSUME NEW m \in left, DescribeMethod(m) PROVE Descends
  <2>1. outcome = "running" /\ left' = left \ {m}
    BY <1>1 DEF DescribeMethod
  <2>2. Cardinality(left') < Cardinality(left)
    BY <2>1, Smaller, WorkIsFinite
  <2> QED BY <2>1, <2>2 DEF Descends, Below, Work
<1>2. ASSUME NEW m \in left, RefuseMethod(m) \/ Overflow(m) PROVE Descends
  BY <1>2 DEF RefuseMethod, Overflow, Descends
<1>3. ASSUME NEW n \in Name, SkipSchema(n) PROVE Descends
  <2>1. /\ Visit(n) /\ outcome = "running" /\ left' = left /\ schemas' = schemas
        /\ stack' = <<Others(n)>> \o Tail(stack)
    BY <1>3 DEF SkipSchema, Visit
  <2>2. /\ stack # <<>> /\ n \in DOMAIN Head(stack) /\ Head(stack) \in Frame
        /\ Len(stack') = Len(stack) /\ Tail(stack) \in Seq(Frame)
    BY <2>1, Visited, PendingTop DEF Visit, Types
  <2>3. stack' # <<>> /\ Head(stack') = Others(n)
    BY <2>1, <2>2
  <2>4. Innermost' = Innermost \ {n} /\ n \in Innermost
    BY <2>1, <2>2, <2>3, Visited, OthersLeft DEF Innermost, Others
  <2>5. Cardinality(Innermost') < Cardinality(Innermost)
    BY <2>4, Smaller, WorkIsFinite
  <2> QED BY <2>1, <2>2, <2>5 DEF Descends, Below, Work
<1>4. ASSUME NEW n \in Name, RefuseSchema(n) PROVE Descends
  BY <1>4 DEF RefuseSchema, Visit, Descends
<1>5. ASSUME NEW n \in Name, AddSchema(n) PROVE Descends
  <2>1. /\ Visit(n) /\ outcome = "running" /\ left' = left
        /\ KeyAt(n) \notin DOMAIN schemas /\ schemas' = Put(schemas, KeyAt(n), Head(stack)[n])
    BY <1>5 DEF AddSchema, Visit
  <2>2. DOMAIN schemas' = DOMAIN schemas \cup {KeyAt(n)}
    BY <2>1 DEF Put
  <2>3. KeyAt(n) \in Keys
    BY <2>1, Visited DEF KeyAt, Keys
  <2>4. /\ Keys \ DOMAIN schemas' = (Keys \ DOMAIN schemas) \ {KeyAt(n)}
        /\ KeyAt(n) \in Keys \ DOMAIN schemas
    BY <2>1, <2>2, <2>3
  <2>5. Cardinality(Keys \ DOMAIN schemas') < Cardinality(Keys \ DOMAIN schemas)
    BY <2>4, Smaller, WorkIsFinite
  <2> QED BY <2>1, <2>5 DEF Descends, Below, Work
<1>6. CASE Return
  <2>1. outcome = "running" /\ left' = left /\ schemas' = schemas /\ stack' = Tail(stack)
    BY <1>6 DEF Return
  <2>2. Len(stack') < Len(stack)
    BY <1>6, <2>1 DEF Return, Types
  <2> QED BY <2>1, <2>2 DEF Descends, Below, Work
<1> QED BY <1>1, <1>2, <1>3, <1>4, <1>5, <1>6 DEF Next, Name

-------------------------------------------------------------------------------
(* Theorems *)

\* APIDescriptor keeps the types of its maps: a name stands for a type of it.
THEOREM TypeCorrect == Spec => []TypeOK
<1>1. IInv => TypeOK
  BY DEF IInv, Types
<1> QED BY <1>1, Invariance, PTL

\* However messages refer to each other and share names, a description that
\* APIDescriptor returns without an error has every schema that it refers to by a
\* name.
THEOREM ReferencesResolve == Spec => []EveryReferenceResolves
<1>1. IInv => EveryReferenceResolves
  <2> SUFFICES ASSUME IInv, outcome = "ok"
               PROVE  /\ \A m \in DOMAIN service : descr[m] \subseteq DOMAIN schemas \cup {None}
                      /\ \A n \in DOMAIN schemas :
                           References(schemas[n]) \subseteq DOMAIN schemas \cup {None}
    BY DEF EveryReferenceResolves
  <2>1. left = {} /\ stack = <<>>
    BY DEF IInv, Types, TypeOK
  <2>2. Pending(stack) = {}
    BY <2>1, PendingNothing
  <2> QED BY <2>1, <2>2 DEF IInv, ReferencesKept, Resolvable
<1> QED BY <1>1, Invariance, PTL

\* addSchemaFromType recurs no deeper than there are schemas, for any number of
\* types that refer to each other in any way.
THEOREM BoundedRecursion == Spec => []RecursionIsBounded
<1>1. IInv => RecursionIsBounded
  BY DEF IInv
<1> QED BY <1>1, Invariance, PTL

\* Where the names of the types that the messages reach are unique, a description
\* without an error has the schemas of these types and no others, whatever the
\* order in which APIDescriptor ranges over its maps.
THEOREM SchemasOfReached == Spec => []SchemasAreThoseReached
BY SchemasReached, ReachedInvariance, PTL

\* Where the names of types are unique, and no path has brackets with nothing
\* between them, APIDescriptor describes exactly the services without a fault in a
\* method or in a message that is reached, in whatever order it comes to them.
THEOREM FaultsFound == Spec => []FaultsAreFound
<1>1. FInv => FaultsAreFound
  <2> SUFFICES ASSUME FInv, ParametersAreNamed, outcome # "running", NamesAreUnique
               PROVE  outcome = "ok" <=> Describable
    BY DEF FaultsAreFound
  <2>1. outcome \in {"running", "ok", "error", "crash"}
    BY DEF FInv, RInv, IInv, Types, TypeOK
  <2>2. CASE outcome = "ok"
    <3>1. left = {} /\ DOMAIN info = DOMAIN service /\ None \notin DOMAIN schemas
      BY <2>2 DEF FInv, RInv, IInv, Types, TypeOK
    <3>2. Visitees = DOMAIN service
      BY <3>1 DEF Visitees
    <3>3. \A m, k \in DOMAIN service :
            m # k => info[m].name # info[k].name /\ ~ SameRoute(info[m], info[k])
      <4>1. SUFFICES ASSUME NEW m \in DOMAIN service, NEW k \in DOMAIN service, m # k,
                            SameRoute(info[m], info[k])
                     PROVE  FALSE
        BY <3>2 DEF FInv, FaultsKept
      <4>2. NamesItsParameters(info[m].path) /\ NamesItsParameters(info[k].path)
        BY <3>1, <4>1 DEF ParametersAreNamed
      <4>3. Route(m) = Route(k)
        BY <4>1, <4>2, ShapeIsSkeleton DEF SameRoute, Route
      <4> QED BY <3>2, <4>1, <4>3 DEF FInv, FaultsKept
    <3>4. \A t \in Reached : (SchemaName[t] # None \/ GoName[t] # None) /\ Describes(t)
      <4>1. Range(schemas) = Reached
        BY <2>2, SchemasReached DEF FInv, SchemasAreThoseReached
      <4>2. schemas \in Schemas /\ Keyed(schemas)
        BY AllNamed DEF FInv, RInv, IInv, Types
      <4>3. SUFFICES ASSUME NEW k \in DOMAIN schemas
                     PROVE  /\ SchemaName[schemas[k]] # None \/ GoName[schemas[k]] # None
                            /\ Describes(schemas[k])
        BY <4>1 DEF Range
      <4>4. Key(schemas[k]) # None
        BY <3>1, <4>2, KeyedIsTyped
      <4> QED BY <4>4 DEF FInv, FaultsKept, Key
    <3>5. \A m \in DOMAIN service : Sound(m)
      BY <3>2 DEF FInv, FaultsKept
    <3> QED BY <2>2, <3>3, <3>4, <3>5 DEF Describable, Sound
  <2>3. CASE outcome \in {"error", "crash"}
    BY <2>3 DEF FInv, FaultsKept
  <2> QED BY <2>1, <2>2, <2>3
<1> QED BY <1>1, FaultsInvariance, PTL

\* While a description runs, APIDescriptor has a method or a range over types to
\* go on with, and the types that a range ensures can be put into a map.
Ready ==
  outcome = "running" =>
    \/ left # {}
    \/ stack # <<>> /\ \A n \in DOMAIN Head(stack) : Ensured(Nested(Head(stack)[n])) # {}

\* Every step of a description ends it or leaves less to do, in the lexicographic
\* order of four natural numbers, although addSchemaFromType calls itself for types
\* that refer to each other in circles: no run of it is infinite, and none gets stuck.
THEOREM DescriptionDescends ==
  Spec => [](Work \in Nat \X Nat \X Nat \X Nat) /\ []Ready /\ [][Descends]_vars
<1>1. IInv => Types
  BY DEF IInv
<1>2. Types => Work \in Nat \X Nat \X Nat \X Nat
  BY WorkIsFinite
<1>3. Working => Ready
  <2>1. SUFFICES ASSUME NEW n PROVE Ensured(Nested(Head(stack)[n])) # {}
    BY DEF Working, Ready
  <2>2. Nested(Head(stack)[n]) \in SUBSET Type
    BY DEF Nested
  <2> QED BY <2>2, EnsuredExists
<1> QED BY <1>1, <1>2, <1>3, Invariance, InitWorking, NextWorking, NextDescends, PTL DEF Spec
===============================================================================
