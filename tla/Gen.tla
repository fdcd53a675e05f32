--------------------------------- MODULE Gen ---------------------------------
(***************************************************************************)
(* gen/gen.go, Generate: one run of the generator reads the sources of a   *)
(* project and writes its files one after the other, and may fail between  *)
(* any two of them.  The registry gen.go it writes is compiled into the    *)
(* next run (Config.ApiEnums, Config.ApiModels).                           *)
(*                                                                         *)
(* Between runs the programmer edits the sources, compiles the generator   *)
(* and keeps the dao files; when the handlers compile they serve requests. *)
(***************************************************************************)
EXTENDS GenDao, GenWeb

CONSTANTS
    Projects,     \* the states of the sources the programmer may leave
    Exchanges,    \* requests, the middlewares they pass and the controller's replies
    MaxGenRuns,   \* runs of the generator
    MaxGenFaults  \* writes and reads that fail

IsList(s) == s \in Seq({s[i] : i \in DOMAIN s})

\* The sources are lists of lists, and the proto file is finite.
ASSUME ProjectsAssumption ==
    \A p \in Projects :
        /\ IsList(p.daos) /\ IsList(p.api.routes)
        /\ \A i \in DOMAIN p.api.routes :
            /\ IsList(p.api.routes[i].params) /\ IsList(p.api.routes[i].security)
            /\ IsList(p.api.routes[i].responseModels)
        /\ IsFiniteSet(p.proto.messages)
        /\ \A m \in p.proto.messages :
            /\ IsList(m.elements)
            /\ \A i \in DOMAIN m.elements : IsList(m.elements[i].members)

\* A router has a list of the middlewares of http/; what a request can hold is
\* named in GenWeb.
ASSUME ExchangesAssumption ==
    \A e \in Exchanges :
        /\ e.middlewares \in Seq({"metadata", "renderer", "cors"})
        /\ \A n \in DOMAIN e.request.values :
                e.request.values[n] \in {"missing", "blank", "malformed", "good"}
        /\ e.request.files \in {"good", "bad"}

VARIABLES
    src,          \* the sources: [enums, daos, proto, api]
    tree,         \* what each generated file holds
    bin,          \* the registry compiled into the run
    pc,           \* the step the run is at
    todo,         \* the dao sources still to do
    result,       \* what the last run returned, NotRun since an edit
    runs, genFaults,
    served        \* the last request served: [method, exchange, ctx, call, log]

genVars == <<src, tree, bin, pc, todo, result, runs, genFaults, served>>

NotRun == "not run"
NoText == [none |-> TRUE]
Absent == [state |-> "absent", what |-> NoText]
Torn == [state |-> "torn", what |-> NoText]
Edited == [state |-> "edited", what |-> NoText]
Whole(text) == [state |-> "whole", what |-> text]

DaoNames == UNION {{p.daos[i].name : i \in DOMAIN p.daos} : p \in Projects}
SingleFiles == {"enums.sql", "enums.go", "gen.go", "swagger", "controller", "router"}
Files == ({"sql", "daoGen", "dao"} \X DaoNames) \cup (SingleFiles \X {"-"})
Single(name) == <<name, "-">>

NoRegistry == [enums |-> <<>>, models |-> {}]
NoneServed == [none |-> TRUE]

GenInit ==
    /\ src \in Projects
    /\ tree = [f \in Files |-> Absent]
    /\ bin = NoRegistry
    /\ pc = "idle"
    /\ todo = <<>>
    /\ result = NotRun
    /\ runs = 0 /\ genFaults = 0
    /\ served = NoneServed

-----------------------------------------------------------------------------
(* Between runs *)

Edit ==
    /\ pc = "idle"
    /\ runs < MaxGenRuns
    /\ src' \in Projects \ {src}
    /\ result' = NotRun
    /\ served' = NoneServed
    /\ UNCHANGED <<tree, bin, pc, todo, runs, genFaults>>

\* The programmer completes a dao file.
EditDao(d) ==
    /\ pc = "idle"
    /\ tree[<<"dao", d>>].state = "whole"
    /\ tree' = [tree EXCEPT ![<<"dao", d>>] = Edited]
    /\ UNCHANGED <<src, bin, pc, todo, result, runs, genFaults, served>>

\* The registry the generator is compiled with: the gen.go on disk, less the
\* models the proto file no longer has; none when it is missing or torn.
Compiled ==
    LET file == tree[Single("gen.go")]
    IN  IF file.state # "whole" THEN NoRegistry
        ELSE [file.what EXCEPT !.models = @ \cap {m.path : m \in src.proto.messages}]

Start ==
    /\ pc = "idle"
    /\ runs < MaxGenRuns
    /\ runs' = runs + 1
    /\ bin' = Compiled
    /\ pc' = "readEnums"
    /\ result' = NotRun
    /\ served' = NoneServed
    /\ UNCHANGED <<src, tree, todo, genFaults>>

-----------------------------------------------------------------------------
(* The steps of a run *)

Return(r) ==
    /\ pc' = "idle"
    /\ result' = r
    /\ todo' = <<>>
    /\ bin' = NoRegistry

AtDao == pc = "dao" /\ todo # <<>> /\ ~Head(todo).hidden

\* A directory, a source or the proto file that cannot be read or made.
SourceReadFails ==
    /\ pc \in {"readEnums", "daos", "readApi", "apiGen"} \/ AtDao
    /\ genFaults < MaxGenFaults
    /\ genFaults' = genFaults + 1
    /\ Return("errRead")
    /\ UNCHANGED <<src, tree, runs, served>>

\* os.WriteFile truncates and then writes: a failure leaves the file as it
\* was or torn, and ends the run.
WriteFails(f) ==
    /\ genFaults < MaxGenFaults
    /\ genFaults' = genFaults + 1
    /\ tree' \in {tree, [tree EXCEPT ![f] = Torn]}
    /\ Return("errWrite")
    /\ UNCHANGED <<src, runs, served>>

WriteFile(f, text, next) ==
    \/ /\ tree' = [tree EXCEPT ![f] = Whole(text)]
       /\ pc' = next
       /\ UNCHANGED <<src, bin, todo, result, runs, genFaults, served>>
    \/ WriteFails(f)

Reject(error) ==
    /\ error # NoErr
    /\ Return(error)
    /\ UNCHANGED <<src, tree, runs, genFaults, served>>

Step(from, to) ==
    /\ pc = from
    /\ pc' = to
    /\ UNCHANGED <<src, tree, bin, result, runs, genFaults, served>>

ReadEnums == Step("readEnums", "enumsSql") /\ UNCHANGED todo

WriteEnumsSql ==
    /\ pc = "enumsSql"
    /\ WriteFile(Single("enums.sql"), generateEnums(src.enums), "enumsGo")

WriteEnumsGo ==
    /\ pc = "enumsGo"
    /\ WriteFile(Single("enums.go"), generateEnums(src.enums), "daos")

\* ReadDir lists the sources by name; hidden and backup files are passed over.
ReadDaoDir == Step("daos", "dao") /\ todo' = src.daos

PassOverDao == todo # <<>> /\ Head(todo).hidden /\ Step("dao", "dao") /\ todo' = Tail(todo)

DaoRefused == AtDao /\ Reject(FileError(Head(todo), src.enums))

WriteDaoSql ==
    /\ AtDao
    /\ FileError(Head(todo), src.enums) = NoErr
    /\ WriteFile(<<"sql", Head(todo).name>>, generateFile(Head(todo)).sql, "daoGen")

\* Mutant: the file that exists is kept, for the generated one too.
WriteDaoGenOnce ==
    /\ pc = "daoGen"
    /\ IF tree[<<"daoGen", Head(todo).name>>].state = "absent"
       THEN WriteFile(<<"daoGen", Head(todo).name>>, generateFile(Head(todo)).daoGen, "skeleton")
       ELSE Step("daoGen", "skeleton") /\ UNCHANGED todo

WriteDaoGen ==
    /\ pc = "daoGen"
    /\ WriteFile(<<"daoGen", Head(todo).name>>, generateFile(Head(todo)).daoGen, "skeleton")

\* Mutant: the skeleton is written over what is there.
OverwriteDao ==
    /\ pc = "skeleton"
    /\ WriteFile(<<"dao", Head(todo).name>>, generateFile(Head(todo)).dao, "nextDao")

\* The skeleton is written once; from then on the file is the programmer's.
WriteDao ==
    /\ pc = "skeleton"
    /\ IF tree[<<"dao", Head(todo).name>>].state = "absent"
       THEN WriteFile(<<"dao", Head(todo).name>>, generateFile(Head(todo)).dao, "nextDao")
       ELSE Step("skeleton", "nextDao") /\ UNCHANGED todo

NextDao == Step("nextDao", "dao") /\ todo' = Tail(todo)

DaosDone == todo = <<>> /\ Step("dao", "readApi") /\ UNCHANGED todo

ReadApi == Step("readApi", "apiGen") /\ UNCHANGED todo

\* Mutant: the document is made first, so the registry is written only for
\* sources that are right already.
WriteApiGenChecked ==
    /\ pc = "apiGen"
    /\ \/ Reject(ApiGenError(src.proto))
       \/ ApiGenError(src.proto) = NoErr /\ Reject(generateApi(src.api, src.proto, bin).err)
       \/ /\ ApiGenError(src.proto) = NoErr
          /\ generateApi(src.api, src.proto, bin).err = NoErr
          /\ WriteFile(Single("gen.go"), generateApiGen(src.proto), "spec")

\* The registry comes first, whatever becomes of the document.
WriteApiGen ==
    /\ pc = "apiGen"
    /\ \/ Reject(ApiGenError(src.proto))
       \/ /\ ApiGenError(src.proto) = NoErr
          /\ WriteFile(Single("gen.go"), generateApiGen(src.proto), "spec")

WriteSpec ==
    /\ pc = "spec"
    /\ \E made \in {generateApi(src.api, src.proto, bin)} :
        \/ Reject(made.err)
        \/ made.err = NoErr /\ WriteFile(Single("swagger"), made.doc, "controller")

WriteController ==
    /\ pc = "controller"
    /\ \/ Reject(ControllerError(src.api))
       \/ /\ ControllerError(src.api) = NoErr
          /\ WriteFile(Single("controller"), Controller(src.api), "router")

WriteRouter ==
    /\ pc = "router"
    /\ \/ Reject(RouterError(src.api))
       \/ /\ RouterError(src.api) = NoErr
          /\ WriteFile(Single("router"), Router(src.api), "done")

Done ==
    /\ pc = "done"
    /\ Return(NoErr)
    /\ UNCHANGED <<src, tree, runs, genFaults, served>>

-----------------------------------------------------------------------------
(* The generated handlers *)

\* The handlers fit the controller interface they were compiled with.
Fit(controller, router) ==
    controller.methods = {<<m.name, m.params, m.response, m.isHttp>> : m \in router.handlers}

\* A preflight request ends in a middleware; the others reach the handler.
Answered(m, e) ==
    LET at == Through(e.middlewares, e.request)
        end == IF at.stopped THEN [ctx |-> at.ctx, call |-> Untouched]
               ELSE Handle(m, e.request, e.reply, at.ctx)
    IN  [method |-> m, exchange |-> e, ctx |-> end.ctx, call |-> end.call,
         log |-> RequestLog(end.ctx, m.url)]

ServeRequest ==
    /\ pc = "idle"
    /\ served = NoneServed
    /\ LET controller == tree[Single("controller")]
           router == tree[Single("router")]
       IN  /\ controller.state = "whole" /\ router.state = "whole"
           /\ Compiles(router.what) /\ Fit(controller.what, router.what)
           /\ \E m \in router.what.handlers, e \in Exchanges :
                /\ {m.op.params[i].name : i \in DOMAIN m.op.params} \subseteq DOMAIN e.request.values
                /\ served' = Answered(m, e)
    /\ UNCHANGED <<src, tree, bin, pc, todo, result, runs, genFaults>>

GenNext ==
    \/ Edit \/ Start \/ ServeRequest
    \/ \E d \in DaoNames : EditDao(d)
    \/ SourceReadFails
    \/ ReadEnums \/ WriteEnumsSql \/ WriteEnumsGo
    \/ ReadDaoDir \/ PassOverDao \/ DaoRefused \/ WriteDaoSql \/ WriteDaoGen \/ WriteDao \/ NextDao \/ DaosDone
    \/ ReadApi \/ WriteApiGen \/ WriteSpec \/ WriteController \/ WriteRouter \/ Done

-----------------------------------------------------------------------------
(* Properties *)

\* What the files of the project hold when every one is made from src.
Current(f) ==
    CASE f = Single("enums.sql") \/ f = Single("enums.go") -> generateEnums(src.enums)
      [] f = Single("gen.go") -> generateApiGen(src.proto)
      [] f = Single("swagger") -> generateApi(src.api, src.proto, generateApiGen(src.proto)).doc
      [] f = Single("controller") -> Controller(src.api)
      [] f = Single("router") -> Router(src.api)

FieldsOfProto(proto) ==
    UNION {UNION {ToSet(FieldsIn(el)) : el \in ToSet(m.elements)} : m \in proto.messages}

\* The registry gives the enums of the fields the values the proto file does.
EnumsAgree(registry, proto) ==
    \A f \in FieldsOfProto(proto) :
        f.type = "enum" /\ f.of \in DOMAIN registry.enums =>
            f.of \in DOMAIN proto.enums /\ registry.enums[f.of] = proto.enums[f.of]

\* No source of the project after the i-th is of the same dao.
LastOfItsName(i) ==
    \A j \in DOMAIN src.daos :
        j > i /\ ~src.daos[j].hidden => src.daos[j].name # src.daos[i].name

\* A run that returns nil leaves every generated file as a run on these
\* sources from nothing would have made it, whatever earlier runs did, failed
\* at or were compiled with: the document too, unless the registry compiled in
\* has other values for an enum.  (Files of sources that are gone stay behind.)
SuccessIsCurrent ==
    /\ pc = "idle" /\ result = NoErr =>
        /\ \A f \in (SingleFiles \ {"swagger"}) \X {"-"} : tree[f] = Whole(Current(f))
        /\ \A i \in DOMAIN src.daos : ~src.daos[i].hidden =>
            LET d == src.daos[i]
            IN  /\ LastOfItsName(i) =>
                    /\ tree[<<"sql", d.name>>] = Whole(generateFile(d).sql)
                    /\ tree[<<"daoGen", d.name>>] = Whole(generateFile(d).daoGen)
                /\ tree[<<"dao", d.name>>].state # "absent"
    /\ pc = "done" /\ EnumsAgree(bin, src.proto) =>
        tree[Single("swagger")] = Whole(Current(Single("swagger")))

\* No run changes a dao file the programmer has worked on.
HandWrittenSurvives ==
    [][\A d \in DaoNames : tree[<<"dao", d>>] = Edited => tree'[<<"dao", d>>] = Edited]_genVars

\* The models that api.yaml and the fields of the messages name.
NamedModels(api, proto) ==
    (UNION {ToSet(op.responseModels) \cup {op.requestModel} : op \in ToSet(api.routes)})
    \cup {f.of : f \in {g \in FieldsOfProto(proto) : g.type = "message"}}

\* errNoSchemaFound says "try to run gen again": when a model or an enum of
\* the proto file is missing in the compiled registry, the registry on disk has
\* it, and a run that is compiled with that registry misses only what the
\* sources name and the proto file does not declare.
RunAgainHelps ==
    /\ result \in {"errNoSchemaFound", "errUnknownEnum"} /\ pc = "idle" =>
        tree[Single("gen.go")] = Whole(generateApiGen(src.proto))
    /\ pc = "spec" /\ bin = generateApiGen(src.proto) =>
        LET err == generateApi(src.api, src.proto, bin).err
        IN  /\ err = "errNoSchemaFound" =>
                \E r \in NamedModels(src.api, src.proto) :
                    Standing(src.api.errors, r) \notin {m.path : m \in src.proto.messages}
            /\ err = "errUnknownEnum" =>
                \E f \in FieldsOfProto(src.proto) : f.type = "enum" /\ f.of \notin DOMAIN src.proto.enums

\* Every reference of a written document, of a model inside itself, under an
\* error code, in a union or a map, leads to a schema that is in the document.
SpecIsClosed ==
    tree[Single("swagger")].state = "whole" =>
        LET doc == tree[Single("swagger")].what
            refs(s) == {x[2].ref : x \in {y \in s.properties \cup UNION {u[2] : u \in s.unions} :
                                            y[2].type \in {"ref", "map"}}}
        IN  /\ \A k \in DOMAIN doc.schemas : refs(doc.schemas[k]) \subseteq DOMAIN doc.schemas
            /\ \A p \in doc.paths :
                /\ p.requestModel # NoModel /\ p.body # <<"multipart">> => p.body \in DOMAIN doc.schemas
                /\ \A r \in p.responses : r.schema \in DOMAIN doc.schemas

\* A client is told anything only through a renderer, in a format it accepts.
Answerable(e) ==
    "renderer" \in ToSet(e.middlewares) /\ getAcceptFormat(e.request.accept) # "unknown"

\* The controller is called only when the identity the operation requires is
\* there, every required parameter has a value and every converted one is well
\* formed; a request that is all right, and no preflight, always reaches it.
\* A client that can be answered is told 2xx only when the controller was
\* called and did not fail, unless the controller chose the status, and
\* the log says success of just what was answered so.
HandlerKeepsPromises ==
    served # NoneServed =>
        LET op == served.method.op
            e == served.exchange
            identity == GetAuthorizationBearerToken(e.request.token)
            preflight == e.request.method = "OPTIONS" /\ "cors" \in ToSet(e.middlewares)
            value(p) == e.request.values[p.name]
            fine(p) ==
                /\ p.required => value(p) \notin {"missing", "blank"}
                /\ value(p) = "malformed" => p.model = NoType /\ p.format = NoType /\ p.type = "string"
            success == served.ctx.status \in 200 .. 299
        IN  /\ served.call.called <=>
                /\ ~preflight
                /\ op.security # <<>> =>
                        identity # "error" /\ (op.authRequired => identity = "somebody")
                /\ \A i \in DOMAIN op.params : fine(op.params[i])
                /\ op.requestModel # NoModel =>
                        e.request.body = "good" /\ getAcceptFormat(e.request.contentType) # "unknown"
                /\ op.files # {} => e.request.files = "good"
            /\ Answerable(e) /\ ~preflight /\ ~(op.http /\ served.call.called) =>
                (success <=> served.call.called /\ e.reply.err = {})
            /\ Answerable(e) /\ served.call.called /\ e.reply.err # {} => ~success
            /\ Answerable(e) /\ ~success /\ ~served.call.called => served.ctx.error
            /\ \A i \in DOMAIN served.log : served.log[i].success = success
=============================================================================
