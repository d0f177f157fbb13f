------------------------------ MODULE ServerProofs ------------------------------
(***************************************************************************)
(* Proofs about Server, for every set of codes: how a failure is answered, *)
(* and that newServiceMethod and ServeHTTP agree on what a method takes.   *)
(***************************************************************************)
EXTENDS Server, TLAPS

(* The arguments of a method *)

\* The parameters of a method that may be called.
LEMMA MethodShape ==
  ASSUME NEW m \in Method
  PROVE  /\ Len(m.ins) \in 1 .. 3 /\ DOMAIN m.ins = 1 .. Len(m.ins)
         /\ m.ins[1] \in {"request", "context", "own context"}
         /\ Len(m.ins) > 1 => isMessage(m.ins[2])
         /\ Len(m.ins) > 2 => isMessage(m.ins[3])
<1>1. m.ins \in SeqOf(4) /\ newServiceMethod(m) BY DEF Method, Signature
<1>2. PICK k \in 0 .. 4 : m.ins \in [1 .. k -> Types] BY <1>1 DEF SeqOf
<1>3. Len(m.ins) = k /\ DOMAIN m.ins = 1 .. k BY <1>2
<1> QED BY <1>1, <1>3 DEF newServiceMethod, isRequestOrContext

\* One more argument.
LEMMA ConcatOne ==
  ASSUME NEW S, NEW s \in Seq(S), NEW b \in S
  PROVE  /\ s \o <<b>> \in Seq(S) /\ Len(s \o <<b>>) = Len(s) + 1
         /\ (s \o <<b>>)[Len(s) + 1] = b
         /\ \A i \in 1 .. Len(s) : (s \o <<b>>)[i] = s[i]
OBVIOUS

\* What the arguments of a method are, one by one.
LEMMA ArgumentsShape ==
  ASSUME method \in Method
  PROVE  /\ Arguments \in Seq({ctx, "request", "message", "response"})
         /\ Len(Arguments) = Len(method.ins)
         /\ Arguments[1] = IF wantsContext(method) THEN ctx ELSE "request"
         /\ Len(method.ins) > 1 => Arguments[2] = "message"
         /\ Len(method.ins) > 2 => Arguments[3] = "response"
<1> DEFINE S == {ctx, "request", "message", "response"}
           a == IF wantsContext(method) THEN ctx ELSE "request"
           two == <<a>> \o <<"message">>
<1>1. Len(method.ins) \in 1 .. 3 BY MethodShape
<1>2. <<a>> \in Seq(S) /\ Len(<<a>>) = 1 /\ <<a>>[1] = a OBVIOUS
<1>3. "message" \in S /\ "response" \in S OBVIOUS
<1>4. Arguments = (<<a>> \o (IF Len(method.ins) > 1 THEN <<"message">> ELSE <<>>))
                    \o (IF Len(method.ins) > 2 THEN <<"response">> ELSE <<>>)
  BY DEF Arguments
<1> HIDE DEF S, a
<1>5. two \in Seq(S) /\ Len(two) = 2 /\ two[1] = a /\ two[2] = "message"
  BY <1>2, <1>3, ConcatOne
<1> HIDE DEF two
<1>6. CASE Len(method.ins) = 1
  <2>1. Arguments = (<<a>> \o <<>>) \o <<>> BY <1>4, <1>6
  <2>2. Arguments = <<a>> BY <1>2, <2>1
  <2> QED BY <1>2, <1>6, <2>2 DEF a, S
<1>7. CASE Len(method.ins) = 2
  <2>1. Arguments = two \o <<>> BY <1>4, <1>7 DEF two
  <2>2. Arguments = two BY <1>5, <2>1
  <2> QED BY <1>5, <1>7, <2>2 DEF a, S
<1>8. CASE Len(method.ins) = 3
  <2>1. Arguments = two \o <<"response">> BY <1>4, <1>8 DEF two
  <2>2. /\ Arguments \in Seq(S) /\ Len(Arguments) = 3
        /\ Arguments[1] = a /\ Arguments[2] = "message" /\ Arguments[3] = "response"
    <3> DEFINE three == two \o <<"response">>
    <3>1. /\ three \in Seq(S) /\ Len(three) = Len(two) + 1
          /\ three[Len(two) + 1] = "response"
          /\ \A i \in 1 .. Len(two) : three[i] = two[i]
      <4> DEFINE r == "response"
      <4>1. r \in S /\ two \in Seq(S) BY <1>3, <1>5
      <4> HIDE DEF r
      <4>2. /\ two \o <<r>> \in Seq(S) /\ Len(two \o <<r>>) = Len(two) + 1
            /\ (two \o <<r>>)[Len(two) + 1] = r
            /\ \A i \in 1 .. Len(two) : (two \o <<r>>)[i] = two[i]
        BY <4>1, ConcatOne
      <4> QED BY <4>2 DEF r
    <3> HIDE DEF three
    <3>2. Len(three) = 3 /\ three[3] = "response" /\ three[1] = two[1] /\ three[2] = two[2]
      BY <1>5, <3>1
    <3>3. Arguments = three BY <2>1 DEF three
    <3> QED BY <1>5, <3>1, <3>2, <3>3
  <2> QED BY <1>8, <2>2 DEF a, S
<1> QED BY <1>1, <1>6, <1>7, <1>8

\* A method with its arguments may be called, unless it takes a context of
\* another type than the one there is.
LEMMA CallableExactly ==
  ASSUME method \in Method, args = Arguments, ctx \in {"plain", "decorated", "own"}
  PROVE  Callable <=> (method.ins[1] = "own context" => ctx = "own")
<1>1. /\ Len(method.ins) \in 1 .. 3
      /\ method.ins[1] \in {"request", "context", "own context"}
      /\ Len(method.ins) > 1 => isMessage(method.ins[2])
      /\ Len(method.ins) > 2 => isMessage(method.ins[3])
  BY MethodShape
<1>2. /\ args \in Seq({ctx, "request", "message", "response"})
      /\ Len(args) = Len(method.ins)
      /\ args[1] = IF wantsContext(method) THEN ctx ELSE "request"
      /\ Len(method.ins) > 1 => args[2] = "message"
      /\ Len(method.ins) > 2 => args[3] = "response"
  BY ArgumentsShape
<1> DEFINE n == Len(method.ins)
<1>3. DOMAIN args = 1 .. n BY <1>2
<1> HIDE DEF n
<1>7. n \in 1 .. 3 BY <1>1 DEF n
<1>4. \A i \in 2 .. n : Assignable(args[i], method.ins[i])
  <2> TAKE i \in 2 .. n
  <2>1. (i = 2 /\ n > 1) \/ (i = 3 /\ n > 2) BY <1>7
  <2>2. args[i] \in {"message", "response"} /\ isMessage(method.ins[i])
    <3>1. CASE i = 2 /\ n > 1 BY <1>1, <1>2, <3>1 DEF n
    <3>2. CASE i = 3 /\ n > 2 BY <1>1, <1>2, <3>2 DEF n
    <3> QED BY <2>1, <3>1, <3>2
  <2> QED BY <2>2 DEF Assignable
<1>5. Callable <=> Assignable(args[1], method.ins[1])
  <2>1. 1 \in 1 .. n BY <1>7
  <2>2. \A i \in 1 .. n : i = 1 \/ i \in 2 .. n BY <1>7
  <2> QED BY <1>2, <1>3, <1>4, <2>1, <2>2 DEF Callable
<1>6. Assignable(args[1], method.ins[1]) <=> (method.ins[1] = "own context" => ctx = "own")
  <2>1. CASE method.ins[1] = "request"
    <3>1. args[1] = "request" BY <1>2, <2>1 DEF wantsContext
    <3> QED BY <2>1, <3>1 DEF Assignable, isMessage
  <2>2. CASE method.ins[1] \in {"context", "own context"}
    <3>1. args[1] = ctx BY <1>2, <2>2 DEF wantsContext
    <3> QED BY <2>2, <3>1 DEF Assignable, isMessage
  <2> QED BY <1>1, <2>1, <2>2
<1> QED BY <1>5, <1>6

-------------------------------------------------------------------------------
(* The invariant *)

\* Nothing is written before the outcome is known, a method is known as soon as
\* it is found, and a context that is nil does not get past the logging of the
\* body.
SInv ==
  /\ TypeOK
  /\ pc \notin {"returned", "panic"} =>
       failure = None /\ status = None /\ written = <<>> /\ broken = FALSE
  /\ pc \in {"body", "decode", "validate", "restore", "call"} => method \in Method
  /\ pc \in {"decode", "validate", "restore", "call"} => ctx # "nil"
  /\ pc = "call" => body = "restored" /\ args = Arguments
  /\ FailureIsReported

LEMMA InitSInv == Init => SInv
<1> SUFFICES ASSUME Init PROVE SInv OBVIOUS
<1>1. <<>> \in Seq({"request", "plain", "decorated", "own", "message", "response"})
  OBVIOUS
<1>2. <<>> \in Seq({"response", "null", "error"}) OBVIOUS
<1>3. TypeOK BY <1>1, <1>2 DEF Init, TypeOK, PC
<1> QED BY <1>3 DEF Init, SInv, FailureIsReported

\* An error that is written when nothing was before.
LEMMA writeErrorReports ==
  ASSUME SInv, pc \notin {"returned", "panic"}, NEW e \in Failure, writeError(e)
  PROVE  /\ pc' \in {"returned", "panic"}
         /\ failure' \in Failure /\ status' \in 100 .. 999 \cup {None}
         /\ written' \in Seq({"response", "null", "error"}) /\ broken' = FALSE
         /\ FailureIsReported'
<1>1. /\ failure = None /\ status = None /\ written = <<>> /\ broken = FALSE
      /\ failure' = e /\ broken' = FALSE
  BY DEF SInv, writeError, Note
<1>2. CASE e = NilAPIError \/ CodeOf(e) \notin 100 .. 999
  <2>1. pc' = "panic" /\ status' = None /\ written' = <<>> BY <1>1, <1>2 DEF writeError
  <2>2. e # None BY NoneAssumption
  <2>3. Asked(e) = CodeOf(e) BY DEF Asked, CodeOf
  <2>4. CASE e = NilAPIError
    <3>1. Asked(e) = 400 BY <2>4 DEF NilAPIError, Asked
    <3> QED BY <1>1, <2>1, <2>2, <2>4, <3>1 DEF FailureIsReported, Bodyless
  <2>5. CASE CodeOf(e) \notin 100 .. 999
    BY <1>1, <2>1, <2>2, <2>3, <2>5 DEF FailureIsReported
  <2> QED BY <1>1, <1>2, <2>1, <2>4, <2>5
<1>3. CASE e # NilAPIError /\ CodeOf(e) \in 100 .. 999
  <2> DEFINE code == CodeOf(e)
             final == IF code \in Informational THEN 200 ELSE code
  <2>0. Asked(e) = code /\ e # None BY NoneAssumption DEF Asked, CodeOf
  <2>1. /\ pc' = "returned" /\ status' = final
        /\ written' = IF final \in Bodyless THEN <<>> ELSE <<"error">>
    BY <1>1, <1>3 DEF writeError, Write, Settled
  <2> HIDE DEF code
  <2>2. final \in 100 .. 999 /\ (final \in Bodyless <=> code \in Bodyless)
    BY <1>3 DEF code, Informational, Bodyless
  <2>3. written' \in Seq({"response", "null", "error"})
    <3>1. <<>> \in Seq({"response", "null", "error"}) OBVIOUS
    <3>2. <<"error">> \in Seq({"response", "null", "error"}) OBVIOUS
    <3>3. written' = <<>> \/ written' = <<"error">> BY <2>1
    <3> QED BY <3>1, <3>2, <3>3
  <2>4. FailureIsReported'
    BY <1>1, <1>3, <2>0, <2>1, <2>2 DEF FailureIsReported, code
  <2> QED BY <1>1, <2>1, <2>2, <2>3, <2>4
<1> QED BY <1>2, <1>3

\* A step that goes on or writes an error, before the method is called.
LEMMA StageSInv ==
  ASSUME SInv, pc \notin {"returned", "panic"}, NEW to \in PC \ {"returned", "call"},
         Proceed(to) \/ writeError(OwnError),
         ctx' \in {"plain", "decorated", "own", "nil"},
         body' \in {"open", "drained", "restored"},
         method' \in Method \cup {None}, args' = args,
         to \in {"body", "decode", "validate", "restore"} => method' \in Method,
         to \in {"decode", "validate", "restore"} => ctx' # "nil"
  PROVE  SInv'
<1>1. CASE Proceed(to)
  <2>1. pc' = to /\ UNCHANGED <<failure, status, written, broken>> BY <1>1 DEF Proceed
  <2>2. TypeOK' BY <2>1 DEF SInv, TypeOK
  <2>3. failure = None /\ status = None /\ written = <<>> BY DEF SInv
  <2>4. FailureIsReported' BY <2>1, <2>3 DEF FailureIsReported
  <2> QED BY <2>1, <2>2, <2>4 DEF SInv
<1>2. CASE writeError(OwnError)
  <2>1. OwnError \in Failure BY DEF OwnError, Failure, PlainError
  <2>2. /\ pc' \in {"returned", "panic"}
        /\ failure' \in Failure /\ status' \in 100 .. 999 \cup {None}
        /\ written' \in Seq({"response", "null", "error"}) /\ broken' = FALSE
        /\ FailureIsReported'
    BY <1>2, <2>1, writeErrorReports
  <2>3. TypeOK' BY <2>2 DEF SInv, TypeOK, PC
  <2> QED BY <2>2, <2>3 DEF SInv
<1> QED BY <1>1, <1>2

\* The decorator, which may fail in its own way, and the method, which may too.
LEMMA FailingSInv ==
  ASSUME SInv, pc \notin {"returned", "panic"}, NEW e \in Failure, writeError(e),
         UNCHANGED <<ctx, body, method, args>>
  PROVE  SInv'
<1>1. /\ pc' \in {"returned", "panic"}
      /\ failure' \in Failure /\ status' \in 100 .. 999 \cup {None}
      /\ written' \in Seq({"response", "null", "error"}) /\ broken' = FALSE
      /\ FailureIsReported'
  BY writeErrorReports
<1>2. TypeOK' BY <1>1 DEF SInv, TypeOK, PC
<1> QED BY <1>1, <1>2 DEF SInv

\* A method that returns, with the document that is written.
LEMMA ReturnedSInv ==
  ASSUME SInv, pc = "call", pc' = "returned", UNCHANGED <<ctx, body, method, args>>,
         failure' = None \/ broken' = TRUE,
         failure' \in Failure \cup {None}, broken' \in BOOLEAN,
         status' \in {None, 200},
         written' \in {<<>>, <<"response">>, <<"null">>}
  PROVE  SInv'
<1>1. TypeOK'
  <2>1. written' \in Seq({"response", "null", "error"})
    <3>1. CASE written' = <<>> BY <3>1
    <3>2. CASE written' = <<"response">> BY <3>2
    <3>3. CASE written' = <<"null">> BY <3>3
    <3> QED BY <3>1, <3>2, <3>3
  <2>2. status' \in 100 .. 999 \cup {None} OBVIOUS
  <2> QED BY <2>1, <2>2 DEF SInv, TypeOK, PC
<1>2. FailureIsReported'
  <2>1. "error" \notin {written'[i] : i \in DOMAIN written'} OBVIOUS
  <2> QED BY <2>1 DEF FailureIsReported
<1> QED BY <1>1, <1>2 DEF SInv

LEMMA NextSInv == SInv /\ [Next]_vars => SInv'
<1> SUFFICES ASSUME SInv, [Next]_vars PROVE SInv' OBVIOUS
<1>1. TypeOK /\ pc \in PC /\ method \in Method \cup {None} BY DEF SInv, TypeOK
<1>2. CASE Decorate
  <2>1. pc = "start" BY <1>2 DEF Decorate
  <2>2. CASE \E e \in Failure : writeError(e) /\ UNCHANGED ctx
    BY <1>2, <2>1, <2>2, FailingSInv DEF Decorate
  <2>3. CASE Proceed("verb") /\ ctx' \in {ctx, "decorated", "own", "nil"}
    BY <1>1, <1>2, <2>1, <2>3, StageSInv DEF Decorate, TypeOK, PC
  <2> QED BY <1>2, <2>2, <2>3 DEF Decorate
<1>3. CASE CheckVerb \/ CheckPath
  BY <1>1, <1>3, StageSInv DEF CheckVerb, CheckPath, TypeOK, PC
<1>4. CASE Get BY <1>1, <1>4, StageSInv DEF Get, TypeOK, PC
<1>5. CASE ReadBody
  <2>1. pc = "body" /\ method \in Method BY <1>5 DEF ReadBody, SInv
  <2> QED BY <1>1, <1>5, <2>1, StageSInv DEF ReadBody, TypeOK, PC
<1>6. CASE Decode \/ Validate
  <2>1. pc \in {"decode", "validate"} /\ method \in Method /\ ctx # "nil"
    BY <1>6 DEF Decode, Validate, SInv
  <2>2. CASE Validate BY <1>1, <2>1, <2>2, StageSInv DEF Validate, TypeOK, PC
  <2>3. CASE Decode /\ \E e \in Failure : writeError(e)
    BY <2>1, <2>3, FailingSInv DEF Decode
  <2>4. CASE Decode /\ (Proceed("validate") \/ Proceed("panic"))
    BY <1>1, <2>1, <2>4, StageSInv DEF Decode, TypeOK, PC
  <2> QED BY <1>6, <2>2, <2>3, <2>4 DEF Decode
<1>7. CASE Restore
  <2>1. /\ pc = "restore" /\ method \in Method /\ ctx \in {"plain", "decorated", "own"}
        /\ failure = None /\ status = None /\ written = <<>> /\ broken = FALSE
    BY <1>7 DEF Restore, SInv, TypeOK
  <2>2. /\ body' = "restored" /\ args' = Arguments /\ pc' = "call"
        /\ UNCHANGED <<ctx, method, failure, status, written, broken>>
    BY <1>7 DEF Restore, Proceed
  <2>3. Arguments' = Arguments BY <2>2 DEF Arguments
  <2>4. args' \in Seq({"request", "plain", "decorated", "own", "message", "response"})
    BY <2>1, <2>2, ArgumentsShape
  <2>5. TypeOK' BY <1>1, <2>2, <2>4 DEF TypeOK, PC
  <2>6. FailureIsReported' BY <2>2 DEF FailureIsReported
  <2> QED BY <2>1, <2>2, <2>3, <2>5, <2>6 DEF SInv
<1>8. CASE CallPanics BY <1>1, <1>8, StageSInv DEF CallPanics, TypeOK, PC
<1>9. CASE CallFails
  <2>1. pc = "call" BY <1>9 DEF CallFails, Call
  <2>2. CASE Proceed("panic")
    BY <1>1, <1>9, <2>1, <2>2, StageSInv DEF CallFails, TypeOK, PC
  <2>3. CASE \E e \in Failure : writeError(e) BY <1>9, <2>1, <2>3, FailingSInv DEF CallFails
  <2> QED BY <1>9, <2>2, <2>3 DEF CallFails
<1>10. CASE CallVoid \/ CallResponds \/ CallBreaks
  <2>1. /\ pc = "call" /\ UNCHANGED <<ctx, body, method, args>>
        /\ failure = None /\ status = None /\ written = <<>> /\ broken = FALSE
    BY <1>10 DEF CallVoid, CallResponds, CallBreaks, Call, SInv
  <2>2. OwnError \in Failure BY DEF OwnError, Failure, PlainError
  <2>3. CASE CallResponds /\ writeError(OwnError) BY <2>1, <2>2, <2>3, FailingSInv
  <2>5. CASE CallResponds /\ Proceed("panic")
    BY <1>1, <2>1, <2>5, StageSInv DEF CallResponds, TypeOK, PC
  <2>4. CASE ~ (CallResponds /\ (writeError(OwnError) \/ Proceed("panic")))
    <3>1. /\ pc' = "returned"
          /\ failure' = None \/ (failure' = OwnError /\ broken' = TRUE)
          /\ broken' \in BOOLEAN /\ status' \in {None, 200}
          /\ written' \in {<<>>, <<"response">>, <<"null">>}
      <4>1. Append(<<>>, "response") = <<"response">> /\ Append(<<>>, "null") = <<"null">>
        OBVIOUS
      <4>2. CASE CallVoid BY <2>1, <4>2 DEF CallVoid, Proceed
      <4>3. CASE CallResponds
        <5>1. /\ pc' = "returned" /\ UNCHANGED <<failure, broken>>
              /\ Write("response", 200) \/ Write("null", 200)
          BY <2>4, <4>3 DEF CallResponds
        <5>2. Settled(200) = 200 /\ 200 \notin Bodyless
          BY <2>1 DEF Settled, Informational, Bodyless
        <5> QED BY <2>1, <4>1, <5>1, <5>2 DEF Write
      <4>4. CASE CallBreaks BY <2>1, <4>4 DEF CallBreaks
      <4> QED BY <1>10, <4>2, <4>3, <4>4
    <3> QED BY <2>1, <2>2, <3>1, ReturnedSInv
  <2> QED BY <2>3, <2>4, <2>5
<1>11. CASE UNCHANGED vars
  BY <1>11 DEF SInv, TypeOK, FailureIsReported, vars, Arguments
<1> QED
  BY <1>2, <1>3, <1>4, <1>5, <1>6, <1>7, <1>8, <1>9, <1>10, <1>11 DEF Next, Step, Stopped

LEMMA Invariance == Spec => []SInv
BY InitSInv, NextSInv, PTL DEF Spec

-------------------------------------------------------------------------------
(* What ServeHTTP promises *)

\* A status has three digits, and what is called takes arguments that exist.
THEOREM TypeCorrect == Spec => []TypeOK
<1>1. SInv => TypeOK BY DEF SInv
<1> QED BY <1>1, Invariance, PTL

\* Every failure is answered once: by its own status and one error document,
\* as far as a status has one; or, for a nil *APIError and for a code that is no
\* status, by a panic before anything is written.  A request that does not fail
\* gets no error document.
THEOREM FailureReported == Spec => []FailureIsReported
<1>1. SInv => FailureIsReported BY DEF SInv
<1> QED BY <1>1, Invariance, PTL

\* A method that newServiceMethod lets pass is called with what it declares.
THEOREM MethodGetsArguments == Spec => []MethodGetsWhatItDeclares
<1>1. SInv => MethodGetsWhatItDeclares
  <2> SUFFICES ASSUME SInv, pc = "call" PROVE MethodGetsWhatItDeclares
    BY DEF MethodGetsWhatItDeclares
  <2>1. /\ method \in Method /\ ctx \in {"plain", "decorated", "own"}
        /\ body = "restored" /\ args = Arguments
    BY DEF SInv, TypeOK
  <2> QED BY <2>1, ArgumentsShape, CallableExactly DEF MethodGetsWhatItDeclares
<1> QED BY <1>1, Invariance, PTL
===============================================================================
