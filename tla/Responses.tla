------------------------------ MODULE Responses ------------------------------
(***************************************************************************)
(* The answers of src/src/server.cpp: class Response, what is written of   *)
(* one, the buffer it is written from, and those of WebSockets.            *)
(*                                                                         *)
(* A text is a sequence of words, its length their number.  A response     *)
(* has the text it was given (body) and the one its route produces, which  *)
(* is written behind it.  setDelayOnce has no caller: next never waits.    *)
(***************************************************************************)
EXTENDS Naturals, Sequences, SequencesExt, TLC

-----------------------------------------------------------------------------
\* HttpStatus and status_map, of which the program answers with these.
StatusText == "101" :> "Switching Protocols" @@ "200" :> "OK" @@ "204" :> "No Content" @@
              "400" :> "Bad Request" @@ "404" :> "Not Found"
GetStatusText(status) ==
    IF status \in DOMAIN StatusText THEN StatusText[status] ELSE "Unknown Status"

\* The default constructor, whose status is set by setStatus.
NoResponse == [status |-> "", text |-> "", type |-> "", headers |-> <<>>, body |-> <<>>,
          repeat |-> FALSE, request |-> <<>>]

SetStatus(resp, status) == [resp EXCEPT !.status = status, !.text = GetStatusText(status)]
SetHeader(resp, key, value) ==
    [resp EXCEPT !.headers = [k \in {key} \cup DOMAIN @ |-> IF k = key THEN value ELSE @[k]]]
SetContentType(resp, type) == SetHeader([resp EXCEPT !.type = type], "Content-Type", type)
SetBody(resp, body) == [resp EXCEPT !.body = body]
MarkRepeat(resp) == [resp EXCEPT !.repeat = TRUE]

\* The others, and init: a body that is given has its length among the headers.
Response(body, type, status, headers) ==
    LET resp  == SetBody([SetStatus(NoResponse, status) EXCEPT !.headers = headers], body)
        typed == IF type = "" THEN resp ELSE SetContentType(resp, type)
        named == SetHeader(typed, "Server", "deskshare-http-server")
    IN  IF body = <<>> THEN named ELSE SetHeader(named, "Content-Length", ToString(Len(body)))

\* newResponse: a route's response is copied for each request, which is then its own.
NewResponse(resp, request) == [resp EXCEPT !.request = request]

-----------------------------------------------------------------------------
\* str: the status, the headers in the map's order, an empty line, the body.
EmptyLine == ""
Str(resp) ==
    <<"HTTP/1.1", resp.status, resp.text>> \o
    FlattenSeq(SetToSeq({<<key, resp.headers[key]>> : key \in DOMAIN resp.headers})) \o
    <<EmptyLine>> \o resp.body

\* sendHttpResponse: the length is that of what was produced if none was given
\* and the response is not repeated.
SizedBy(resp, produced) ==
    IF resp.repeat \/ "Content-Length" \in DOMAIN resp.headers THEN resp
    ELSE SetHeader(resp, "Content-Length", ToString(Len(produced)))

Written(resp, produced) == Str(SizedBy(resp, produced)) \o produced

\* sendErrorResponse: the text is set after the headers.
ErrorResponse(status) ==
    SetBody(SetHeader(SetStatus(NoResponse, status), "Content-Type", "text/html"),
            <<"<h1>", status, GetStatusText(status), "</h1>">>)

-----------------------------------------------------------------------------
\* set_http_write_buf: a request of a WebSocket is answered again and again
\* from the same memory, which grows if it has to; a text that is shorter is
\* ended there.
NoBuffer == [data |-> <<>>, len |-> 0]

Filled(buffer, data) ==
    LET kept == SubSeq(buffer.data, Len(data) + 2, Len(buffer.data))
    IN  [data |-> IF Len(buffer.data) <= Len(data) THEN data ELSE data \o <<"NUL">> \o kept,
         len  |-> Len(data)]

\* uv_buf_init and uv_write.
Sent(buffer) == SubSeq(buffer.data, 1, buffer.len)

-----------------------------------------------------------------------------
\* WsErrorCode.
WsErrorCode == [NORMAL_CLOSURE |-> "1000", PROTOCOL_ERROR |-> "1002",
                AUTH_FAILED |-> "3000", RESOURCE_NOT_FOUND |-> "3003"]

\* compute_accept_key: OpenSSL's hash of the key in base64.
AcceptKey(key) == <<"base64", <<"SHA1", key>>>>
=============================================================================
