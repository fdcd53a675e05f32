------------------------------- MODULE GenApi -------------------------------
(***************************************************************************)
(* gen/api.go, the pure part: what the generator makes of the proto file   *)
(* (the registry gen.go of enums and models) and of api.yaml together with *)
(* the registry compiled into it (the OpenAPI document swagger.yaml).      *)
(*                                                                         *)
(* Names.  A message name is the sequence of its words, a model is named   *)
(* by its path, the names of the enclosing messages and its own: the Go    *)
(* name joins them with "_", the schema's name is the snake case of that,  *)
(* which keeps the words and forgets where one name ends.                  *)
(*                                                                         *)
(* A proto file is [messages |-> set of [path, elements], enums |-> for    *)
(* each name its values].  An element of a message is [kind, name, type,   *)
(* of, repeated, optional, required, members]: "of" is the path of a       *)
(* message type or, for an enum, the enum's name as a path; "members" are  *)
(* the elements of a oneof.                                                *)
(*                                                                         *)
(* api.yaml is [security, errors, routes]: the type of each security       *)
(* scheme, the model of each error code, and the operations in the order   *)
(* GetRoutes sorts them.                                                   *)
(***************************************************************************)
EXTENDS Integers, FiniteSets, SequencesExt

NoErr == "nil"
NoModel == <<>>

\* Converting a key of "errors" to a status: only numbers do.
Statuses == {"401", "404"}

\* The first error of a sequence of verdicts, in order.
FirstOf(errors) ==
    LET bad == {i \in DOMAIN errors : errors[i] # NoErr}
    IN  IF bad = {} THEN NoErr ELSE errors[CHOOSE i \in bad : \A j \in bad : i <= j]

Snake(path) == FlattenSeq(path)

-----------------------------------------------------------------------------
(* generateApiGen: the registry and the kinds of the fields *)

ProtoFlags(required, optional, repeated, map) ==
    [required |-> required, optional |-> optional, repeated |-> repeated, map |-> map]

NormalProtoField(el) == ProtoFlags(el.required, el.optional, el.repeated, FALSE)
MapProtoField == ProtoFlags(TRUE, FALSE, FALSE, TRUE)
OneOfProtoField == ProtoFlags(TRUE, FALSE, FALSE, FALSE)
OneOfFieldProtoField == ProtoFlags(TRUE, FALSE, FALSE, FALSE)

\* What a message may hold; anything else (an enum, a group) is a panic, and
\* so is anything but a field inside a oneof.
KnownElements == {"normal", "map", "oneof", "comment", "option", "reserved", "message"}

ApiGenError(proto) ==
    IF \A m \in proto.messages : \A i \in DOMAIN m.elements :
            /\ m.elements[i].kind \in KnownElements
            /\ \A k \in DOMAIN m.elements[i].members : m.elements[i].members[k].kind = "oneof_field"
    THEN NoErr ELSE "panic"

\* modelsFields: for each model the flags of each field and oneof by name.
FieldsOf(m) ==
    LET named == {el \in ToSet(m.elements) : el.kind \in {"normal", "map", "oneof"}}
        members == UNION {ToSet(el.members) : el \in named}
    IN  [n \in {el.name : el \in named \cup members} |->
            LET el == CHOOSE e \in named \cup members : e.name = n
            IN  CASE el.kind = "normal" -> NormalProtoField(el)
                  [] el.kind = "map" -> MapProtoField
                  [] el.kind = "oneof" -> OneOfProtoField
                  [] el.kind = "oneof_field" -> OneOfFieldProtoField]

ModelsFields(proto) ==
    [p \in {m.path : m \in proto.messages} |->
        FieldsOf(CHOOSE m \in proto.messages : m.path = p)]

\* gen.go: ApiEnums and ApiModels.
generateApiGen(proto) ==
    [enums |-> proto.enums, models |-> {m.path : m \in proto.messages}]

-----------------------------------------------------------------------------
(* describeModel and addSchema.  env is what stays the same in one run:     *)
(* [errors, registry, descriptors, fields].  The recursion is a walk: its   *)
(* state is [schemas, visited, made, todo, err], made being the properties  *)
(* so far and todo the calls still to make, the next one first; what a call *)
(* calls comes before the rest.                                             *)

OperationCall(op) == [call |-> "operation", op |-> op]
ResponseCall(path) == [call |-> "response", path |-> path]
CheckCall(err) == [call |-> "check", err |-> err]
ModelCall(path) == [call |-> "model", path |-> path]
ElementCall(path, el, grouped) == [call |-> "element", path |-> path, el |-> el, grouped |-> grouped]
FieldCall(path, f, group) == [call |-> "field", path |-> path, field |-> f, group |-> group]
CloseCall(path) == [call |-> "close", path |-> path]

Scalars ==
    [string |-> "string", bool |-> "boolean",
     int32 |-> "integer", int64 |-> "integer", uint64 |-> "integer",
     float |-> "number", double |-> "number"]

\* An error code stands for its model, which may be an error code again.
Standing(errors, path) ==
    LET chain[n \in 0 .. Cardinality(DOMAIN errors)] ==
            IF n = 0 THEN path
            ELSE IF chain[n - 1] \in DOMAIN errors THEN errors[chain[n - 1]] ELSE chain[n - 1]
    IN  chain[Cardinality(DOMAIN errors)]

\* What addSchema returns.  Mutant: the name of an error code's schema is the code.
SchemaNameOfCode(errors, path) == Snake(path)
SchemaName(errors, path) == Snake(Standing(errors, path))

\* The fields an element gives the compiled descriptor.
FieldsIn(el) ==
    CASE el.kind = "oneof" -> el.members
      [] el.kind \in {"normal", "map"} -> <<el>>
      [] OTHER -> <<>>

\* isOneOfField: a oneof of one field is not treated as one.
IsGroup(el) == el.kind = "oneof" /\ Len(el.members) > 1

\* The oneof an element's fields belong to.
NoGroup == <<>>
GroupOf(el) == IF IsGroup(el) THEN <<el.name>> ELSE NoGroup

\* resultIsRequired.
IsRequired(flags) == flags.repeated \/ flags.required \/ ~flags.optional

\* fieldToObjectProperty: why there is none, and the property.
PropertyError(env, path, f) ==
    IF ~(path \in DOMAIN env.fields /\ f.name \in DOMAIN env.fields[path]) THEN "errFieldNotFound"
    ELSE IF f.type # "message" /\ env.fields[path][f.name].map THEN "panic"
    ELSE IF f.type = "enum" /\ f.of \notin DOMAIN env.registry.enums THEN "errUnknownEnum"
    ELSE IF f.type \notin {"message", "enum"} \cup DOMAIN Scalars THEN "errKindNotSupported"
    ELSE NoErr

PropertyOf(env, path, f) ==
    LET flags == env.fields[path][f.name]
        property(type, ref) == [type |-> type, ref |-> ref, array |-> flags.repeated]
    IN  CASE f.type = "message" ->
                property(IF flags.map THEN "map" ELSE "ref", SchemaName(env.errors, f.of))
          [] f.type = "enum" -> property("enum", env.registry.enums[f.of])
          [] OTHER -> property(Scalars[f.type], <<>>)

\* The schema of a described model; a message that is one oneof and nothing
\* else is the union itself.
SchemaOf(descriptors, fields, made, path) ==
    LET m == CHOOSE d \in descriptors : d.path = path
        properties(group) ==
            {<<x.name, x.property>> : x \in {y \in made : y.model = path /\ y.group = group}}
        plain == UNION {ToSet(FieldsIn(el)) : el \in {e \in ToSet(m.elements) : ~IsGroup(e)}}
        groups == {GroupOf(el) : el \in {e \in ToSet(m.elements) : IsGroup(e)}}
    IN  [properties |-> properties(NoGroup),
         required |-> {f.name : f \in {g \in plain : IsRequired(fields[path][g.name])}},
         unions |-> {<<group, properties(group)>> : group \in groups},
         top |-> plain = {} /\ Cardinality(groups) = 1,
         model |-> path]

\* describeModel: the plain fields in order, then the oneofs, then the schema.
describeModel(descriptors, path) ==
    LET els == (CHOOSE d \in descriptors : d.path = path).elements
    IN  [i \in DOMAIN els |-> ElementCall(path, els[i], FALSE)]
        \o [i \in DOMAIN els |-> ElementCall(path, els[i], TRUE)]
        \o <<CloseCall(path)>>

addSchemaError(env, st, path) ==
    LET model == Standing(env.errors, path)
    IN  IF model \in DOMAIN env.errors THEN "panic"
        ELSE IF Snake(model) \in DOMAIN st.schemas THEN NoErr
        ELSE IF model \notin env.registry.models THEN "errNoSchemaFound"
        ELSE NoErr

\* A schema is made once, and a model visited before its fields are, so that
\* one that contains itself ends in a reference.
addSchema(env, st, path) ==
    IF SchemaName(env.errors, path) \in st.visited THEN <<>>
    ELSE describeModel(env.descriptors, Standing(env.errors, path))

-----------------------------------------------------------------------------
(* Operations of api.yaml: [url, op, id, hidden, hasSecurity, security,     *)
(* authRequired, http, params, files, requestModel, responseModels, rawBody,*)
(* rawHeaders].  A parameter is [name, in, type, format, model, getter,     *)
(* required, array].                                                        *)

ParameterTypes ==
    [string |-> "string", bool |-> "boolean", integer |-> "integer", uint64 |-> "integer",
     number |-> "number", float |-> "number"]

SecurityError(op) ==
    CASE op.hasSecurity /\ Len(op.security) > 1 -> "errOnlyOneSecurityAllowed"
      [] op.hasSecurity /\ Len(op.security) = 0 -> "panic"
      [] OTHER -> NoErr

ParameterError(op) ==
    IF \A i \in DOMAIN op.params : op.params[i].type \in DOMAIN ParameterTypes
    THEN NoErr ELSE "errUnknownParameterType"

\* The first reason to refuse an operation before its schemas are made.
OperationError(op) ==
    IF op.hidden THEN NoErr ELSE FirstOf(<<SecurityError(op), ParameterError(op)>>)

Documented(op) ==
    [params |-> [i \in DOMAIN op.params |->
        [name |-> op.params[i].name, in |-> op.params[i].in,
         type |-> ParameterTypes[op.params[i].type], required |-> op.params[i].required]],
     security |-> op.security]

\* The body: files, else the model, else raw.
RequestBody(errors, op) ==
    CASE op.files # {} -> <<"multipart">>
      [] op.files = {} /\ op.requestModel # NoModel -> SchemaName(errors, op.requestModel)
      [] OTHER -> IF op.rawBody THEN <<"raw">> ELSE <<>>

\* A response model that is an error code goes under that status, the others
\* under 200; of several under one status the last stays.
StatusOf(errors, r) == IF r \in DOMAIN errors THEN r[1][1] ELSE "200"
StatusError(errors, r) ==
    IF r \in DOMAIN errors /\ StatusOf(errors, r) \notin Statuses THEN "errAtoi" ELSE NoErr

Responses(errors, op) ==
    LET status(i) == StatusOf(errors, op.responseModels[i])
        last == {i \in DOMAIN op.responseModels :
                    \A j \in DOMAIN op.responseModels : j > i => status(j) # status(i)}
    IN  {[status |-> status(i), model |-> op.responseModels[i],
          schema |-> SchemaName(errors, op.responseModels[i])] : i \in last}

RouteOperations == {"get", "post", "put", "patch", "delete"}
RouteError(op) == IF op.op \in RouteOperations THEN NoErr ELSE "errUnknownRouteOperation"

\* Body first, then the responses, then the kind of the operation.
OperationCalls(op) ==
    IF op.hidden THEN <<>>
    ELSE (IF op.files = {} /\ op.requestModel # NoModel THEN <<ModelCall(op.requestModel)>> ELSE <<>>)
         \o [i \in DOMAIN op.responseModels |-> ResponseCall(op.responseModels[i])]
         \o <<CheckCall(RouteError(op))>>

Paths(errors, routes) ==
    {[url |-> op.url, op |-> op.op, id |-> op.id, what |-> Documented(op),
      body |-> RequestBody(errors, op), requestModel |-> op.requestModel,
      responses |-> Responses(errors, op)] : op \in {o \in ToSet(routes) : ~o.hidden}}

-----------------------------------------------------------------------------
(* The walk *)

CallError(env, st, c) ==
    CASE c.call = "operation" -> OperationError(c.op)
      [] c.call = "model" -> addSchemaError(env, st, c.path)
      [] c.call = "field" -> PropertyError(env, c.path, c.field)
      [] c.call = "check" -> c.err
      [] OTHER -> NoErr

Calls(env, st, c) ==
    CASE c.call = "operation" -> OperationCalls(c.op)
      [] c.call = "response" -> <<ModelCall(c.path), CheckCall(StatusError(env.errors, c.path))>>
      [] c.call = "model" -> addSchema(env, st, c.path)
      [] c.call = "element" /\ IsGroup(c.el) = c.grouped ->
            [k \in DOMAIN FieldsIn(c.el) |-> FieldCall(c.path, FieldsIn(c.el)[k], GroupOf(c.el))]
      [] c.call = "field" /\ c.field.type = "message" -> <<ModelCall(c.field.of)>>
      [] OTHER -> <<>>

Made(env, c) ==
    [model |-> c.path, group |-> c.group, name |-> c.field.name,
     property |-> PropertyOf(env, c.path, c.field)]

Walk(env, st) ==
    IF st.todo = <<>> \/ st.err # NoErr THEN st
    ELSE
    LET c == Head(st.todo)
    IN  IF CallError(env, st, c) # NoErr THEN [st EXCEPT !.err = CallError(env, st, c)]
        ELSE [schemas |->
                IF c.call = "close"
                THEN [k \in DOMAIN st.schemas \cup {Snake(c.path)} |->
                        IF k = Snake(c.path) THEN SchemaOf(env.descriptors, env.fields, st.made, c.path)
                        ELSE st.schemas[k]]
                ELSE st.schemas,
              visited |-> st.visited \cup (IF c.call = "model" THEN {SchemaName(env.errors, c.path)} ELSE {}),
              made |-> st.made \cup (IF c.call = "field" THEN {Made(env, c)} ELSE {}),
              todo |-> Calls(env, st, c) \o Tail(st.todo),
              err |-> NoErr]

WalkStart(routes) ==
    [schemas |-> <<>>, visited |-> {}, made |-> {},
     todo |-> [i \in DOMAIN routes |-> OperationCall(routes[i])], err |-> NoErr]

\* The calls there can be: an operation calls for its body and its kind, a
\* response for its model and its status, a model is described once.
MaxCallsOf(descriptors, routes) ==
    LET responses == UNION {{i} \X DOMAIN routes[i].responseModels : i \in DOMAIN routes}
        elements == UNION {{m} \X DOMAIN m.elements : m \in descriptors}
        fields == UNION {{e} \X DOMAIN FieldsIn(e[1].elements[e[2]]) : e \in elements}
    IN  3 * Len(routes) + 3 * Cardinality(responses)
        + Cardinality(descriptors) + 2 * Cardinality(elements) + 2 * Cardinality(fields)

\* The end of the walk; one that has none exhausts the stack.
Walked(env, routes) ==
    LET n == MaxCallsOf(env.descriptors, routes)
        st[i \in 0 .. n] == IF i = 0 THEN WalkStart(routes) ELSE Walk(env, st[i - 1])
    IN  IF st[n].err = NoErr /\ st[n].todo # <<>> THEN [st[n] EXCEPT !.err = "panic"] ELSE st[n]

\* Only bearer schemes are known.
SchemeError(api) ==
    IF \A s \in DOMAIN api.security : api.security[s].type = "bearer" THEN NoErr ELSE "errUnknownSecurityType"

\* generateApi after the registry is written: the document or an error.
generateApi(api, proto, registry) ==
    LET env == [errors |-> api.errors, registry |-> registry,
                descriptors |-> proto.messages, fields |-> ModelsFields(proto)]
        end == Walked(env, api.routes)
    IN  IF SchemeError(api) # NoErr THEN [err |-> SchemeError(api), doc |-> <<>>]
        ELSE IF end.err # NoErr THEN [err |-> end.err, doc |-> <<>>]
        ELSE [err |-> NoErr,
              doc |-> [schemas |-> end.schemas, paths |-> Paths(api.errors, api.routes)]]
=============================================================================
