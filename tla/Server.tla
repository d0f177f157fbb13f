--------------------------------- MODULE Server ---------------------------------
(***************************************************************************)
(* ServeHTTP of endpoints/server.go with newErrorResponse and writeError   *)
(* of endpoints/errors.go: one request, from the context decorator to the  *)
(* response.  The registry (ServiceMap.tla) and the validation of requests *)
(* (Validation.tla) are there by what they return.                         *)
(*                                                                         *)
(* The ResponseWriter is the one of net/http: a status is written once, by *)
(* WriteHeader or with the first byte of a body (200), and later ones are  *)
(* ignored; one that has not three digits is a panic; one below 200 is     *)
(* sent ahead of the status that counts, except 101; there is no body with *)
(* 101, 204 and 304, nor once the connection is broken.                    *)
(***************************************************************************)
EXTENDS Integers, Sequences

CONSTANTS
  Code,          \* codes of the APIErrors of services
  KnownCode,     \* the codes of knownErrors
  None

ASSUME CodeAssumption ==
  /\ Code \subseteq Int
  /\ KnownCode \subseteq 100 .. 999
  /\ 400 \in KnownCode

\* Errors: an *APIError with its code, a nil *APIError, and any other, whose
\* message begins with the name of one of knownErrors or (None) does not.
APIError == [type : {"api"}, code : Code]
PlainError == [type : {"plain"}, prefix : KnownCode \cup {None}]
NilAPIError == [type |-> "nil api"]
Failure == APIError \cup PlainError \cup {NilAPIError}

ASSUME NoneAssumption == None \notin Int /\ None \notin Failure

\* Errors that ServeHTTP and the functions it calls make themselves.
OwnError == [type |-> "plain", prefix |-> None]

-------------------------------------------------------------------------------
(* newServiceMethod: which methods of a receiver may be called *)

\* Types of arguments and results: *http.Request, the interface Context, another
\* type that implements it and is not a pointer, other pointers to an exported or
\* builtin type and to one that is not, error, and any other.
Types == {"request", "context", "own context", "pointer", "local pointer", "error", "other"}

\* The parameters of a method after its receiver, and its results.
SeqOf(n) == UNION {[1 .. k -> Types] : k \in 0 .. n}
Signature == [ins : SeqOf(4), outs : SeqOf(3)]

isRequestOrContext(t) == t \in {"request", "context", "own context"}

\* A pointer to an exported type, be it that of requests.
isMessage(t) == t \in {"pointer", "request"}

newServiceMethod(m) ==
  /\ Len(m.ins) \in 1 .. 3 /\ Len(m.outs) \in 1 .. 2
  /\ ~ (Len(m.ins) = 3 /\ Len(m.outs) = 2)
  /\ isRequestOrContext(m.ins[1])
  /\ Len(m.ins) > 1 => isMessage(m.ins[2])
  /\ Len(m.ins) > 2 => isMessage(m.ins[3])
  /\ Len(m.outs) = 2 => isMessage(m.outs[1])
  /\ m.outs[Len(m.outs)] = "error"

Method == {m \in Signature : newServiceMethod(m)}

wantsContext(m) == m.ins[1] \in {"context", "own context"}

VARIABLES
  pc,          \* where the request is
  ctx,         \* the context: of the request, or what the decorator returned
  body,        \* the body of the http.Request: "open", "drained" or "restored"
  method,      \* the method that was found
  args,        \* the arguments of its call
  failure,     \* history: the first error met, None if there was none
  status,      \* the status that was written, None before
  written,     \* the documents that were written to the body of the response
  broken       \* whether the connection broke

vars == <<pc, ctx, body, method, args, failure, status, written, broken>>

PC == {"start", "verb", "path", "get", "body", "decode", "validate", "restore",
       "call", "returned", "panic"}

Init ==
  /\ pc = "start"
  /\ ctx = "plain"
  /\ body = "open"
  /\ method = None
  /\ args = <<>>
  /\ failure = None
  /\ status = None
  /\ written = <<>>
  /\ broken = FALSE

TypeOK ==
  /\ pc \in PC
  /\ ctx \in {"plain", "decorated", "own", "nil"}
  /\ body \in {"open", "drained", "restored"}
  /\ method \in Method \cup {None}
  /\ args \in Seq({"request", "plain", "decorated", "own", "message", "response"})
  /\ failure \in Failure \cup {None}
  /\ status \in 100 .. 999 \cup {None}
  /\ written \in Seq({"response", "null", "error"})
  /\ broken \in BOOLEAN

-------------------------------------------------------------------------------
(* newErrorResponse and writeError *)

\* An error that is not an *APIError and names none of knownErrors has 400.
CodeOf(e) ==
  CASE e.type = "api" -> e.code
    [] e.type = "plain" /\ e.prefix # None -> e.prefix
    [] OTHER -> 400

Note(e) == failure' = IF failure = None THEN e ELSE failure

Informational == (100 .. 199) \ {101}
Bodyless == {101, 204, 304}

\* WriteHeader of net/http, and the status that counts once a body is written.
Settled(code) ==
  IF status # None THEN status ELSE IF code \in Informational THEN 200 ELSE code

Write(document, code) ==
  /\ status' = Settled(code)
  /\ written' = IF broken \/ status' \in Bodyless THEN written
                ELSE Append(written, document)

writeError(e) ==
  /\ Note(e)
  /\ UNCHANGED broken
  /\ IF e = NilAPIError \/ (status = None /\ CodeOf(e) \notin 100 .. 999)
       THEN pc' = "panic" /\ UNCHANGED <<status, written>>
       ELSE pc' = "returned" /\ Write("error", CodeOf(e))

Proceed(to) ==
  /\ pc' = to
  /\ UNCHANGED <<failure, status, written, broken>>

-------------------------------------------------------------------------------
(* ServeHTTP *)

\* Mutant of Decorate: what the decorator returns with an error is kept.
DecorateKeepsNil ==
  /\ pc = "start"
  /\ \/ Proceed("verb") /\ UNCHANGED ctx
     \/ Proceed("verb") /\ ctx' \in {"decorated", "own", "nil"}
     \/ \E e \in Failure : writeError(e) /\ ctx' = None
  /\ UNCHANGED <<body, method, args>>

\* There is no ContextDecorator, or it returns a context, which may be one of
\* the type of their own that methods take, nil, or an error.
Decorate ==
  /\ pc = "start"
  /\ \/ Proceed("verb") /\ UNCHANGED ctx
     \/ Proceed("verb") /\ ctx' \in {"decorated", "own", "nil"}
     \/ \E e \in Failure : writeError(e) /\ UNCHANGED ctx
  /\ UNCHANGED <<body, method, args>>

\* The method must be POST, and there must be a slash in the path.
CheckVerb ==
  /\ pc = "verb"
  /\ Proceed("path") \/ writeError(OwnError)
  /\ UNCHANGED <<ctx, body, method, args>>

CheckPath ==
  /\ pc = "path"
  /\ Proceed("get") \/ writeError(OwnError)
  /\ UNCHANGED <<ctx, body, method, args>>

Get ==
  /\ pc = "get"
  /\ \/ Proceed("body") /\ method' \in Method
     \/ writeError(OwnError) /\ UNCHANGED method
  /\ UNCHANGED <<ctx, body, args>>

\* A body that was read is logged, which takes a context that is not nil.
ReadBody ==
  /\ pc = "body"
  /\ body' = "drained"
  /\ \/ Proceed(IF ctx = "nil" THEN "panic" ELSE "decode")
     \/ writeError(OwnError)
  /\ UNCHANGED <<ctx, method, args>>

\* Even for a method without a message the body must be a JSON document.  A
\* message may decode itself, and fail or panic in its own way.
Decode ==
  /\ pc = "decode"
  /\ \/ Proceed("validate") \/ Proceed("panic")
     \/ \E e \in Failure : writeError(e)
  /\ UNCHANGED <<ctx, body, method, args>>

\* See Validation.tla.
Validate ==
  /\ pc = "validate"
  /\ Proceed("restore") \/ Proceed("panic") \/ writeError(OwnError)
  /\ UNCHANGED <<ctx, body, method, args>>

\* The arguments after the receiver.
Arguments ==
  <<IF wantsContext(method) THEN ctx ELSE "request">>
    \o (IF Len(method.ins) > 1 THEN <<"message">> ELSE <<>>)
    \o (IF Len(method.ins) > 2 THEN <<"response">> ELSE <<>>)

\* Mutant of Restore: the arguments are ready, the body is still drained.
RestoreNot ==
  /\ pc = "restore"
  /\ args' = Arguments
  /\ Proceed("call")
  /\ UNCHANGED <<ctx, body, method>>

Restore ==
  /\ pc = "restore"
  /\ body' = "restored"
  /\ args' = Arguments
  /\ Proceed("call")
  /\ UNCHANGED <<ctx, method>>

\* Func.Call panics unless each argument is assignable to its parameter.  The
\* message and the response are made for their parameters.
Assignable(a, t) ==
  \/ a = "request" /\ t = "request"
  \/ a \in {"plain", "decorated", "own"} /\ t = "context"
  \/ a = "own" /\ t = "own context"
  \/ a \in {"message", "response"} /\ isMessage(t)

Callable ==
  /\ Len(args) = Len(method.ins)
  /\ \A i \in DOMAIN args : Assignable(args[i], method.ins[i])

Call == pc = "call" /\ Callable

CallPanics ==
  /\ pc = "call"
  /\ ~ Callable
  /\ Proceed("panic")
  /\ UNCHANGED <<ctx, body, method, args>>

Responds == Len(method.ins) = 3 \/ Len(method.outs) = 2

\* The method panics or returns an error.
CallFails ==
  /\ Call
  /\ Proceed("panic") \/ \E e \in Failure : writeError(e)
  /\ UNCHANGED <<ctx, body, method, args>>

\* It returns, and there is no response to encode.
CallVoid ==
  /\ Call
  /\ ~ Responds
  /\ Proceed("returned")
  /\ UNCHANGED <<ctx, body, method, args>>

\* Mutant of CallResponds: the header is written before the encoding.
CallRespondsEagerly ==
  /\ Call
  /\ Responds
  /\ \/ /\ Write("response", 200)
        /\ pc' = "returned"
        /\ UNCHANGED <<failure, broken>>
     \/ /\ Write("error", 200)
        /\ pc' = "returned"
        /\ Note(OwnError)
        /\ UNCHANGED broken
  /\ UNCHANGED <<ctx, body, method, args>>

\* Encode writes nothing before the whole response is encoded, so that an
\* error of the encoding still gets a status.  A returned response may be nil,
\* and one that encodes itself may panic.
CallResponds ==
  /\ Call
  /\ Responds
  /\ \/ /\ \/ Write("response", 200)
           \/ Len(method.outs) = 2 /\ Write("null", 200)
        /\ pc' = "returned"
        /\ UNCHANGED <<failure, broken>>
     \/ Proceed("panic") \/ writeError(OwnError)
  /\ UNCHANGED <<ctx, body, method, args>>

\* The connection breaks while the response is written: writeError, which
\* follows, has no effect on it.
CallBreaks ==
  /\ Call
  /\ Responds
  /\ status' = 200
  /\ broken' = TRUE
  /\ failure' = OwnError
  /\ pc' = "returned"
  /\ UNCHANGED <<ctx, body, method, args, written>>

Step ==
  \/ Decorate \/ CheckVerb \/ CheckPath \/ Get \/ ReadBody \/ Decode \/ Validate
  \/ Restore \/ CallPanics \/ CallFails \/ CallVoid \/ CallResponds \/ CallBreaks

Stopped == pc \in {"returned", "panic"} /\ UNCHANGED vars

Next == Step \/ Stopped

Spec == Init /\ [][Next]_vars

-------------------------------------------------------------------------------
(* Properties *)

\* The code that a failure asks for: an APIError its own, any other error the one
\* that its message names, or 400.
Asked(e) ==
  CASE e.type = "api" -> e.code
    [] e.type = "plain" /\ e.prefix # None -> e.prefix
    [] OTHER -> 400

\* A request whose connection holds ends in one of these ways.  Without a failure
\* there is no error document, and a panic, of a method or a context, leaves the
\* response unwritten.  A failure, at whatever step, is answered by one error
\* document and the status that it asks for; that is all, no part of a response
\* precedes it.  Three exceptions depend on what the service asks for: for a nil
\* *APIError, or a code that is no status, it panics with nothing written; a
\* status without a body leaves out the document; an interim one becomes 200.
FailureIsReported ==
  pc \in {"returned", "panic"} /\ ~ broken =>
    /\ pc = "panic" => status = None /\ written = <<>>
    /\ failure = None => "error" \notin {written[i] : i \in DOMAIN written}
    /\ failure # None =>
         /\ pc = "panic" <=> failure = NilAPIError \/ Asked(failure) \notin 100 .. 999
         /\ pc = "returned" /\ Asked(failure) \notin Informational =>
              status = Asked(failure)
         /\ pc = "returned" /\ Asked(failure) \in Informational => status = 200
         /\ pc = "returned" /\ Asked(failure) \notin Bodyless => written = <<"error">>
         /\ Asked(failure) \in Bodyless => written = <<>>

\* What newServiceMethod lets pass when a service is registered and what
\* ServeHTTP does when a request comes agree: a method is called when the body
\* of its request can be read again, with its message, response, and request or
\* context (as decorated, never nil), and reflect accepts them all -- unless it
\* takes a context of another type than the interface, which passes as well but
\* depends on what the decorator made.
MethodGetsWhatItDeclares ==
  pc = "call" =>
    /\ body = "restored"
    /\ Len(args) = Len(method.ins)
    /\ wantsContext(method) => args[1] = ctx /\ ctx # "nil"
    /\ Len(args) > 1 => args[2] = "message"
    /\ Len(args) > 2 => args[3] = "response"
    /\ Callable <=> (method.ins[1] = "own context" => ctx = "own")
===============================================================================
