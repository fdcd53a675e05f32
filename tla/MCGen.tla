-------------------------------- MODULE MCGen --------------------------------
(* A project that grows: a first version, one with more messages, an enum    *)
(* and a dao, and versions with a mistake in each of the sources.            *)
EXTENDS Gen

Field(name, type) ==
    [name |-> name, type |-> type, seq |-> FALSE, primary |-> FALSE, unique |-> FALSE,
     array |-> "no", nullable |-> FALSE, enum |-> Unset, dataType |-> Unset,
     default |-> FALSE, references |-> 0]

Dao(name, fields) ==
    [name |-> name, modelName |-> name, daoImports |-> <<>>, imports |-> <<>>,
     fields |-> fields, hidden |-> FALSE]

UserFields ==
    <<[Field("id", "int64") EXCEPT !.seq = TRUE, !.primary = TRUE],
      [Field("uid", "uuid") EXCEPT !.dataType = "UserId", !.unique = TRUE],
      [Field("status", "enum") EXCEPT !.enum = "STATUS", !.default = TRUE],
      [Field("seen", "timestamp") EXCEPT !.nullable = TRUE]>>

OrderFields ==
    <<[Field("user", "uuid") EXCEPT !.references = 2, !.array = "open"],
      [Field("area", "geometry") EXCEPT !.nullable = TRUE],
      [Field("data", "json") EXCEPT !.dataType = "Data", !.nullable = TRUE],
      [Field("name", "varchar") EXCEPT !.array = "sized"]>>

ShopFields ==
    <<[Field("bytes", "uint64") EXCEPT !.nullable = TRUE], Field("open", "bool"),
      Field("day", "date"), [Field("spec", "json") EXCEPT !.dataType = "Spec"]>>

El(kind, name, type, of) ==
    [kind |-> kind, name |-> name, type |-> type, of |-> of, repeated |-> FALSE,
     optional |-> FALSE, required |-> FALSE, members |-> <<>>]
OneOf(name, members) == [El("oneof", name, "none", <<>>) EXCEPT !.members = members]

\* User with a list of itself, a nested message and a union; Event, a union
\* and nothing else; Failure, the model of the error codes.
User == <<<<"user">>>>
Info == <<<<"user">>, <<"info">>>>
Event == <<<<"event">>>>
Failure == <<<<"failure">>>>
Audit == <<<<"audit", "log">>>>
Role == <<<<"Role">>>>
Code == <<<<"404">>>>

UserMessage ==
    [path |-> User, elements |->
        <<El("normal", "name", "string", <<>>),
          [El("normal", "friends", "message", User) EXCEPT !.repeated = TRUE],
          [El("normal", "info", "message", Info) EXCEPT !.optional = TRUE],
          El("comment", "c", "none", <<>>),
          OneOf("contact", <<El("oneof_field", "mail", "string", <<>>),
                             El("oneof_field", "boss", "message", User)>>)>>]
InfoMessage == [path |-> Info, elements |-> <<El("map", "peers", "message", User)>>]
EventMessage ==
    [path |-> Event, elements |->
        <<OneOf("event", <<El("oneof_field", "joined", "message", User),
                           El("oneof_field", "left", "int64", <<>>)>>)>>]
FailureMessage == [path |-> Failure, elements |-> <<El("normal", "text", "string", <<>>)>>]
AuditMessage ==
    [path |-> Audit, elements |->
        <<El("normal", "role", "enum", Role), El("normal", "who", "message", Info),
          OneOf("only", <<El("oneof_field", "note", "string", <<>>)>>)>>]

Param(name, in, type, format, required) ==
    [name |-> name, in |-> in, type |-> type, format |-> format, model |-> NoType,
     getter |-> NoType, required |-> required, array |-> FALSE]

Op(url, op, id) ==
    [url |-> url, op |-> op, id |-> id, hidden |-> FALSE, hasSecurity |-> FALSE,
     security |-> <<>>, authRequired |-> FALSE, http |-> FALSE, params |-> <<>>, files |-> {},
     requestModel |-> NoModel, responseModels |-> <<>>, rawBody |-> FALSE, rawHeaders |-> FALSE]

GetUser ==
    [Op("/user", "get", "GetUser") EXCEPT
        !.hasSecurity = TRUE, !.security = <<"bearer">>, !.authRequired = TRUE,
        !.params = <<Param("id", "path", "integer", "uint64", TRUE),
                     Param("q", "query", "string", NoType, FALSE)>>,
        !.responseModels = <<User, Code>>]
PostEvent ==
    [Op("/user", "post", "PostEvent") EXCEPT !.requestModel = Event, !.http = TRUE,
        !.hasSecurity = TRUE, !.security = <<"bearer">>]
Upload == [Op("/upload", "post", "Upload") EXCEPT !.files = {"file"}, !.hidden = TRUE]
Health == Op("/healthcheck", "get", "Health")
ListAudit == [Op("/audit", "get", "ListAudit") EXCEPT
                !.params = <<[Param("q", "query", "string", NoType, TRUE) EXCEPT !.array = TRUE]>>,
                !.responseModels = <<Audit>>]

Bearer == [bearer |-> [type |-> "bearer", model |-> "Identity", getter |-> "getIdentity"]]
ApiOf(routes) ==
    [security |-> Bearer, errors |-> [c \in {Code} |-> Failure], routes |-> routes]

\* Two sources of the first version are of the same dao.
First ==
    [enums |-> {"STATUS"}, daos |-> <<Dao("users", ShopFields), Dao("users", UserFields)>>,
     proto |-> [enums |-> <<>>, messages |-> {UserMessage, InfoMessage, EventMessage, FailureMessage}],
     api |-> ApiOf(<<Health, GetUser, PostEvent>>)]

Second ==
    [enums |-> {"STATUS", "ROLE"},
     daos |-> <<Dao("orders", OrderFields), Dao("users", ShopFields),
                [Dao("orders", <<>>) EXCEPT !.hidden = TRUE]>>,
     proto |-> [enums |-> [n \in {Role} |-> <<"user", "admin">>],
                messages |-> {UserMessage, InfoMessage, EventMessage, FailureMessage, AuditMessage}],
     api |-> ApiOf(<<ListAudit, Upload, GetUser>>)]

\* Mistakes: an enum that is gone, a dao import that is no pair, a nested enum
\* in the proto file, a model nobody defined, a parameter only the document
\* takes, a header parameter only the controller takes (and an enum that has
\* other values).
LostEnum == [First EXCEPT !.enums = {}]
BadImport == [Second EXCEPT !.daos[2].imports = <<BrokenImport>>]
NestedEnum ==
    [First EXCEPT !.proto.messages = {FailureMessage,
        [path |-> User, elements |-> <<El("enum", "kind", "none", <<>>)>>]}]
NoSuchModel == [First EXCEPT !.api.routes[1].responseModels = <<Audit>>]
IntegerParam == [First EXCEPT !.api.routes[2].params[1].format = NoType]
HeaderParam ==
    [Second EXCEPT !.api.routes[3].params[1].in = "header", !.proto.enums[Role] = <<"user">>]

MCProjects == {First, Second, LostEnum, BadImport, NestedEnum, NoSuchModel, IntegerParam, HeaderParam}

Req(token, id, q, body, files) ==
    [token |-> token, values |-> [id |-> id, q |-> q], body |-> body, files |-> files,
     method |-> "GET", id |-> "", accept |-> <<MediaRange("text/html", 10), MediaRange("*/*", 5)>>,
     contentType |-> <<>>]

All == <<"metadata", "renderer", "cors">>
Reply(err) == [err |-> err, response |-> [model |-> TRUE, options |-> <<>>]]
WithOptions(model, options) == [err |-> {}, response |-> [model |-> model, options |-> options]]
Option(option, value) == [option |-> option, value |-> value]
Exchange(request, middlewares, reply) ==
    [request |-> request, middlewares |-> middlewares, reply |-> reply]

Good == Req("some", "good", "good", "good", "good")
OnlyXml == <<MediaRange("text/xml", 10), EmptyPart, MediaRange("application/json", 0)>>
Protobuf ==
    <<MediaRange("application/json", 3), MediaRange("application/protobuf", 20), MediaRange("application/x-protobuf", 10)>>

MCExchanges ==
    {Exchange(Good, All, Reply({})),
     Exchange([Good EXCEPT !.accept = Protobuf, !.id = "given"], All, Reply({"ErrNotFound"})),
     Exchange([Good EXCEPT !.accept = OnlyXml], All, Reply({"ErrForbidden"})),
     Exchange([Good EXCEPT !.contentType = OnlyXml], <<"renderer">>, Reply({"other"})),
     Exchange([Good EXCEPT !.method = "OPTIONS", !.token = "none"], <<"renderer", "cors">>, Reply({})),
     Exchange([Good EXCEPT !.method = "OPTIONS"], <<"cors", "renderer">>, Reply({})),
     Exchange(Good, <<"metadata">>, Reply({"ErrUnauthorized"})),
     Exchange(Good, All, WithOptions(FALSE, <<>>)),
     Exchange(Good, All, WithOptions(FALSE, <<Option("WithRedirect", 200), Option("WithBody", 0)>>)),
     Exchange(Good, All, WithOptions(TRUE, <<Option("WithHeader", 0), Option("WithStatusCode", 404)>>)),
     Exchange(Req("123", "good", "malformed", "good", "good"), All, Reply({})),
     Exchange(Req("malformed", "missing", "good", "bad", "bad"), All, Reply({})),
     Exchange(Req("some", "missing", "blank", "good", "bad"), All, Reply({})),
     Exchange(Req("some", "blank", "missing", "bad", "good"), All, Reply({})),
     Exchange(Req("some", "malformed", "good", "good", "good"), <<"renderer">>, Reply({})),
     Exchange(Req("none", "malformed", "blank", "bad", "bad"), <<"renderer">>, Reply({}))}
=============================================================================
