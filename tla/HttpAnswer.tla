------------------------------ MODULE HttpAnswer ------------------------------
(***************************************************************************)
(* http/: how a request is answered.  The middlewares of a router pass it  *)
(* on to a handler, which answers through the response renderer; the log   *)
(* handler is around them all.                                             *)
(*                                                                         *)
(* A request has [method, id, accept, contentType, body, token].  The      *)
(* header Accept, or Content-Type, is a sequence of parts [type, q], q in  *)
(* tenths, empty when the header is; a part may be EmptyPart.  An answer   *)
(* is what the handlers leave in fasthttp's RequestCtx.                    *)
(***************************************************************************)
EXTENDS Integers, SequencesExt

NewCtx == [status |-> 200, type |-> "none", body |-> "none", headers |-> {},
           renderer |-> FALSE, id |-> "none", error |-> FALSE]

-----------------------------------------------------------------------------
(* Which format a header asks for *)

MediaRange(type, q) == [type |-> type, q |-> q]
EmptyPart == MediaRange("empty", 0)

\* A quality that is malformed or not in 0 .. 1 is 1; a header that is empty
\* asks for anything, one of commas only for nothing.
parseAcceptHeader(header) ==
    IF header = <<>> THEN <<MediaRange("", 10)>>
    ELSE LET parts == SelectSeq(header, LAMBDA p : p # EmptyPart)
         IN  [i \in DOMAIN parts |->
                IF parts[i].q \in 0 .. 10 THEN parts[i] ELSE MediaRange(parts[i].type, 10)]

mediaTypeToFormat(type) ==
    CASE type \in {"application/json", "*/*", ""} -> "json"
      [] type \in {"application/protobuf", "application/x-protobuf"} -> type
      [] OTHER -> "unknown"

\* The first of the formats that are known and wanted most.
getAcceptFormat(header) ==
    LET ranges == parseAcceptHeader(header)
        usable == {i \in DOMAIN ranges : ranges[i].q > 0 /\ mediaTypeToFormat(ranges[i].type) # "unknown"}
        before(i, j) == ranges[i].q > ranges[j].q \/ (ranges[i].q = ranges[j].q /\ i < j)
    IN  IF usable = {} THEN "unknown"
        ELSE mediaTypeToFormat(ranges[CHOOSE i \in usable : \A j \in usable \ {i} : before(i, j)].type)

\* Whether ReadBody gives the handler a message.
ReadBody(request) ==
    getAcceptFormat(request.contentType) # "unknown" /\ request.body = "good"

\* GetAuthorizationBearerToken of an optional token: "Bearer 123" counts as none.
GetAuthorizationBearerToken(token) ==
    CASE token \in {"none", "123"} -> "nobody"
      [] token = "malformed" -> "error"
      [] OTHER -> "somebody"

-----------------------------------------------------------------------------
(* The response renderer *)

\* Without a format nothing is changed, not even the status, and the error logged.
renderResponse(ctx, request, status, body) ==
    LET format == getAcceptFormat(request.accept)
    IN  IF format = "unknown" THEN ctx
        ELSE [ctx EXCEPT !.status = status, !.type = format, !.body = body]

\* Without a renderer there is a line in the log.
withResponseRenderer(ctx, rendered) == IF ctx.renderer THEN rendered ELSE ctx

Ok(ctx, request, body) == withResponseRenderer(ctx, renderResponse(ctx, request, 200, body))
EmptyOk(ctx, request) == Ok(ctx, request, "ok")

\* An error is the set of the errors it is.
ErrorStatus(err) ==
    CASE "ErrBadRequest" \in err -> 400
      [] "ErrNotFound" \in err -> 404
      [] "ErrUnauthorized" \in err -> 401
      [] "ErrForbidden" \in err -> 403
      [] OTHER -> 500

HandleError(ctx, request, err) ==
    withResponseRenderer(ctx,
        renderResponse([ctx EXCEPT !.error = TRUE], request, ErrorStatus(err), "error"))

Unauthorized(ctx, request) == HandleError(ctx, request, {"ErrUnauthorized"})
InternalServerError(ctx, request) == HandleError(ctx, request, {"ErrInternalServerError"})

\* The options of an HttpResponse, [option, value].  fasthttp's Redirect takes
\* a status that is not one of a redirection for 302.
Redirections == {301, 302, 303, 307, 308}
ApplyOption(ctx, o) ==
    CASE o.option = "WithStatusCode" -> [ctx EXCEPT !.status = o.value]
      [] o.option = "WithRedirect" ->
            [ctx EXCEPT !.status = IF o.value \in Redirections THEN o.value ELSE 302,
                        !.headers = @ \cup {"Location"}]
      [] o.option = "WithHeader" -> [ctx EXCEPT !.headers = @ \cup {"X"}]
      [] o.option = "WithBody" -> [ctx EXCEPT !.body = "raw"]

HandleHttp(ctx, request, response) ==
    IF ~response.model /\ response.options = <<>> THEN InternalServerError(ctx, request)
    ELSE FoldLeft(ApplyOption,
                  IF response.model THEN Ok(ctx, request, "model") ELSE ctx, response.options)

-----------------------------------------------------------------------------
(* Middlewares.  None does anything once the next handler has returned. *)

addHeaders(ctx) == [ctx EXCEPT !.headers = @ \cup {"Access-Control-Allow"}]

\* What they make of [ctx, stopped].
ResponseRendererMiddleware(at) == [at EXCEPT !.ctx.renderer = TRUE]

RequestMetadataMiddleware(at, request) ==
    [at EXCEPT !.ctx.id = IF request.id = "" THEN "generated" ELSE request.id]

CorsMiddleware(at, request) ==
    IF request.method = "OPTIONS"
    THEN [ctx |-> EmptyOk(addHeaders(at.ctx), request), stopped |-> TRUE]
    ELSE [at EXCEPT !.ctx = addHeaders(at.ctx)]

Pass(request, at, middleware) ==
    CASE at.stopped -> at
      [] ~at.stopped /\ middleware = "renderer" -> ResponseRendererMiddleware(at)
      [] ~at.stopped /\ middleware = "metadata" -> RequestMetadataMiddleware(at, request)
      [] ~at.stopped /\ middleware = "cors" -> CorsMiddleware(at, request)

\* The first one in a router's list is the outermost.
Through(middlewares, request) ==
    LET at[i \in 0 .. Len(middlewares)] ==
            IF i = 0 THEN [ctx |-> NewCtx, stopped |-> FALSE]
            ELSE Pass(request, at[i - 1], middlewares[i])
    IN  at[Len(middlewares)]

\* RequestLogHandler: what is logged of a request when it is answered.
RequestLog(ctx, url) ==
    IF url = "/healthcheck" THEN <<>>
    ELSE <<[success |-> ctx.status \in 200 .. 299, error |-> ctx.error, id |-> ctx.id]>>
=============================================================================
