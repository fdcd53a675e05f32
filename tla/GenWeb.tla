------------------------------- MODULE GenWeb -------------------------------
(***************************************************************************)
(* gen/web.go: the controller interface and the request handlers that the  *)
(* generator makes of api.yaml, and what such a handler does with a        *)
(* request.  Operations and parameters are the records of GenApi; a        *)
(* security scheme is [type, model, getter].                               *)
(***************************************************************************)
EXTENDS GenApi, HttpAnswer

NoType == "unset"

HasParams(op) ==
    \/ op.params # <<>>
    \/ op.requestModel # NoModel
    \/ op.rawBody
    \/ op.rawHeaders
    \/ op.files # {}
    \/ op.security # <<>>

\* The first response model that is not an error code.
ResponseModel(op, errors) ==
    LET ok == SelectSeq(op.responseModels, LAMBDA r : r \notin DOMAIN errors)
    IN  IF ok = <<>> THEN NoModel ELSE ok[1]

ControllerMethod(op, errors) ==
    [name |-> op.id, url |-> op.url, operation |-> op.op, op |-> op,
     params |-> HasParams(op), response |-> ResponseModel(op, errors), isHttp |-> op.http]

ControllerMethods(api) ==
    [i \in DOMAIN api.routes |-> ControllerMethod(api.routes[i], api.errors)]

AllParams(api) == UNION {ToSet(api.routes[i].params) : i \in DOMAIN api.routes}

\* hasUuid looks at param.Model, hasTime does not.
ControllerImports(api) ==
    {i \in {"context", "uuid", "time", "http"} :
        \/ i = "context"
        \/ i = "uuid" /\ \E p \in AllParams(api) : p.format = "uuid" /\ p.model = NoType
        \/ i = "time" /\ \E p \in AllParams(api) : p.format = "unix_time"
        \/ i = "http" /\ \E k \in DOMAIN api.routes : api.routes[k].files # {} \/ api.routes[k].http}

\* The Go type of a parameter, or why there is none.
ParamError(p) ==
    CASE p.model # NoType -> NoErr
      [] p.model = NoType /\ p.format # NoType ->
            IF p.format \in {"uint64", "uuid", "unix_time"} THEN NoErr ELSE "errUnknownParameterFormat"
      [] OTHER -> IF p.type \in {"string", "bool"} THEN NoErr ELSE "errUnknownParameterType"

ParamType(p) ==
    [base |-> IF p.model # NoType THEN p.model ELSE IF p.format # NoType THEN p.format ELSE p.type,
     prefix |-> IF p.array THEN "[]" ELSE IF ~p.required THEN "*" ELSE NoType]

SchemesError(api, op) ==
    IF ToSet(op.security) \subseteq DOMAIN api.security THEN NoErr ELSE "errSecurityNotFound"

ControllerError(api) ==
    FirstOf([i \in DOMAIN api.routes |->
        FirstOf(<<SchemesError(api, api.routes[i])>> \o
                [k \in DOMAIN api.routes[i].params |-> ParamError(api.routes[i].params[k])])])

RequestStruct(api, op) ==
    [security |-> [i \in DOMAIN op.security |-> api.security[op.security[i]].model],
     request |-> op.requestModel, rawBody |-> op.rawBody, rawHeaders |-> op.rawHeaders,
     files |-> op.files,
     params |-> [i \in DOMAIN op.params |-> <<op.params[i].name, ParamType(op.params[i])>>]]

\* controller_gen.go.
Controller(api) ==
    LET methods == ControllerMethods(api)
    IN  [imports |-> ControllerImports(api),
         requests |-> {<<m.name, RequestStruct(api, m.op)>> : m \in {n \in ToSet(methods) : n.params}},
         methods |-> {<<m.name, m.params, m.response, m.isHttp>> : m \in ToSet(methods)}]

-----------------------------------------------------------------------------
(* request_handler_gen.go *)

\* The checks the handler's generator makes of a parameter, in order.
HandlerParamError(p) ==
    IF p.in \notin {"path", "query"} THEN "errUnknownParameterIn"
    ELSE IF p.array /\ (p.model # NoType \/ p.format # NoType) THEN "errParameterArrayNotSupported"
    ELSE IF p.model # NoType /\ p.getter = NoType THEN "errNoModelGetterSet"
    ELSE ParamError(p)

\* Every operation's kind is looked at before the first handler is made.
RouterError(api) ==
    FirstOf([i \in DOMAIN api.routes |->
                IF api.routes[i].op \in RouteOperations THEN NoErr ELSE "errUnknownOperationType"]
            \o
            [i \in DOMAIN api.routes |->
                FirstOf(<<SchemesError(api, api.routes[i])>> \o
                        [k \in DOMAIN api.routes[i].params |-> HandlerParamError(api.routes[i].params[k])])])

Router(api) ==
    [routes |-> {<<api.routes[i].op, api.routes[i].url, api.routes[i].id>> : i \in DOMAIN api.routes},
     handlers |-> ToSet(ControllerMethods(api))]

-----------------------------------------------------------------------------
(* What a generated handler does with a request of HttpAnswer, which has    *)
(* also [values, files]: values gives each parameter "missing", "blank",    *)
(* "malformed" or "good", and files is "good" or "bad".  It leaves an       *)
(* answer, and what the controller was called with, or Untouched.           *)

Untouched == [called |-> FALSE, params |-> <<>>]

\* The security step: an error is answered; no identity is refused only when
\* the operation requires one.
SecurityAnswer(op, request) ==
    LET identity == GetAuthorizationBearerToken(request.token)
    IN  IF op.security = <<>> THEN NoErr
        ELSE IF identity = "error" THEN "error"
        ELSE IF identity = "nobody" /\ op.authRequired THEN "ErrUnauthorized"
        ELSE NoErr

\* A value with blanks trimmed: "" for what is missing or blank.
Trimmed(value) == IF value \in {"missing", "blank"} THEN "" ELSE value

\* A parameter: a required path parameter must be there, a required one must
\* not be blank, and one that is converted must be well formed.
ParameterAnswer(p, value) ==
    CASE p.required /\ p.in = "path" /\ value = "missing" -> "ErrBadRequest"
      [] p.required /\ Trimmed(value) = "" -> "ErrBadRequest"
      [] Trimmed(value) = "malformed" /\ (p.model # NoType \/ p.format # NoType \/ p.type = "bool") -> "ErrBadRequest"
      [] OTHER -> NoErr

\* What ends up in the field: unset, or the value (of a string: as it is).
ParameterValue(p, value) == IF Trimmed(value) = "" THEN NoType ELSE Trimmed(value)

\* Mutant: the identity is not looked at.
LateAnswer(op, request) ==
    FirstOf([i \in DOMAIN op.params |-> ParameterAnswer(op.params[i], request.values[op.params[i].name])]
        \o <<IF op.requestModel # NoModel /\ ~ReadBody(request) THEN "ErrBadRequest" ELSE NoErr,
             IF op.files # {} /\ request.files = "bad" THEN "error" ELSE NoErr>>)

\* The first step of the handler that answers the request itself.
EarlyAnswer(op, request) ==
    FirstOf(<<SecurityAnswer(op, request)>>
        \o [i \in DOMAIN op.params |-> ParameterAnswer(op.params[i], request.values[op.params[i].name])]
        \o <<IF op.requestModel # NoModel /\ ~ReadBody(request) THEN "ErrBadRequest" ELSE NoErr,
             IF op.files # {} /\ request.files = "bad" THEN "error" ELSE NoErr>>)

\* The controller's reply is [err, response]: err the errors it is, or empty.
Handle(method, request, reply, ctx) ==
    LET op == method.op
        early == IF method.params THEN EarlyAnswer(op, request) ELSE NoErr
    IN  IF early # NoErr
        THEN [ctx |-> HandleError(ctx, request, {early}), call |-> Untouched]
        ELSE [ctx |-> IF reply.err # {} THEN HandleError(ctx, request, reply.err)
                      ELSE IF method.isHttp THEN HandleHttp(ctx, request, reply.response)
                      ELSE Ok(ctx, request, "model"),
              call |-> [called |-> TRUE,
                        params |-> [i \in DOMAIN op.params |->
                            ParameterValue(op.params[i], request.values[op.params[i].name])]]]

\* http/router.go has OPTIONS, GET, POST and DELETE only, and a bool is not a
\* list: a router with anything else does not compile.
RouterMethods == {"options", "get", "post", "delete"}
Compiles(router) ==
    \A m \in router.handlers :
        /\ m.operation \in RouterMethods
        /\ \A i \in DOMAIN m.op.params : ~(m.op.params[i].array /\ m.op.params[i].type = "bool")
=============================================================================
