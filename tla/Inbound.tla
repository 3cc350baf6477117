------------------------------ MODULE Inbound -------------------------------
(***************************************************************************)
(* What one connection sends and what src/src/server.cpp makes of it:      *)
(* on_read, which collects the bytes of requests and takes WebSocket       *)
(* frames, isWebsocket, parseHttpRequest, the routes of pages.cpp and the  *)
(* answers.  HttpServer takes a message as one step; here TCP cuts and     *)
(* joins messages as it likes.                                             *)
(*                                                                         *)
(* A message is sent in two pieces.  Of a request the first has its first  *)
(* line, the second its headers and the empty line.  What is parsed from   *)
(* the middle of a message can be anything: the rest of a header line has  *)
(* three words or not, a byte of a frame may be any opcode.                *)
(***************************************************************************)
EXTENDS Utils, Responses

CONSTANTS Urls,    \* what browsers ask for: a url and the path it is meant for
          MaxSent  \* a bound on the messages

\* A path without superfluous slashes, and the urls that spell it: a slash may
\* be repeated, one may stand at the end, and a query may follow.
IsClear(path) ==
    /\ path # <<>> /\ path[1] = "/"
    /\ \A i \in 2..Len(path) : path[i] = "/" => i < Len(path) /\ path[i - 1] # "/"

Spells(url, path) ==
    LET whole == IF Len(path) = 1 THEN path ELSE Append(path, "/")
    IN  \E n \in 1..Len(url) :
          /\ n = Len(url) \/ url[n + 1] = "?"
          /\ \A i \in 1..n : url[i] # "?"
          /\ \E at \in [1..n -> 1..Len(whole)] :
               /\ at[1] = 1 /\ at[n] >= Len(path)
               /\ \A i \in 1..n : url[i] = whole[at[i]]
               /\ \A i \in 2..n : at[i] = at[i - 1] + 1 \/ (at[i] = at[i - 1] /\ url[i] = "/")

ASSUME InboundAssumption ==
    /\ MaxSent \in Nat
    /\ Urls \subseteq Seq(STRING) \X Seq(STRING)
    /\ \A url \in Urls : IsClear(url[2]) /\ Spells(url[1], url[2])

VARIABLES
    sent,          \* the messages
    wire,          \* their pieces that were not read yet, <<message, piece>>
    request_data,  \* the pieces that were read and not handled
    ws_req,        \* the path of the WebSocket's route; <<>> if there is none
    buffer,        \* the memory its answers are written from
    answers,       \* one for each message that was handled
    ended,         \* has a close frame been sent?
    hurried,       \* was a message sent before the one before it was handled?
    cut            \* has a frame been read in two parts?

inboundVars == <<sent, wire, request_data, ws_req, buffer, answers, ended, hurried, cut>>

-----------------------------------------------------------------------------
\* The parts of a request that tell answers apart; "first" is its first line.
Http(method, url, connection, hasKey) ==
    [frame |-> "", first |-> "good", method |-> method, url |-> url,
     connection |-> connection, hasKey |-> hasKey]
NoUrl == <<<<"/">>, <<"/">>>>
Garbled == [Http("GET", NoUrl, "keep-alive", FALSE) EXCEPT !.first = "bad"]
WsMessage(type) == [Http("", NoUrl, "", FALSE) EXCEPT !.frame = type]

Requests ==
    {m \in [frame : {""}, first : {"good"}, method : {"GET", "OPTIONS", "POST"}, url : Urls,
            connection : {"keep-alive", "Upgrade", "keep-alive, Upgrade"}, hasKey : BOOLEAN] :
        IF m.connection = "keep-alive" THEN ~m.hasKey ELSE m.method # "OPTIONS"} \cup
    {Garbled}
WsMessages == {WsMessage(type) : type \in {"TEXT", "PING", "CLOSE"}}

IsUpgrade(m) == m.connection \in {"Upgrade", "keep-alive, Upgrade"}

\* pages::init and initStreamRoutes.  addRoute gives a page without a type that
\* of its name.
File(name, ending) == <<"/", name, ".", ending>>
StaticPages == {<<"/">>, <<"/", "video">>, <<"/", "raw">>, File("favicon", "ico"),
                File("player", "css"), File("player", "js"), File("jmuxer", "js"),
                File("mjpeg", "js")}
PageText(path) == path \o <<"text">>
AddRoute(path, resp) ==
    IF resp.type = "" THEN SetContentType(resp, MimeType(path)) ELSE resp
AnyOrigin == [key \in {"Access-Control-Allow-Origin"} |-> "*"]

Routes(method) ==
    IF method = "GET"
    THEN [path \in StaticPages \cup {<<"/", "info">>, <<"/", "mjpeg">>} |->
            CASE path = <<"/", "info">> -> Response(<<>>, "text/html", "200", <<>>)
              [] path = <<"/", "mjpeg">> ->
                    MarkRepeat(Response(<<>>, "multipart/x-mixed-replace", "200", AnyOrigin))
              [] OTHER -> AddRoute(path, Response(PageText(path), "", "200", <<>>))]
    ELSE IF method = "OPTIONS"
         THEN [path \in {<<"/", "mjpeg">>} |-> Response(<<>>, "text/plain", "204", AnyOrigin)]
    ELSE <<>>

\* What their functions produce; of an MJPEG answer it is the first picture.
Produced(method, path) ==
    IF path = <<"/", "info">> THEN PageText(path)
    ELSE IF path = <<"/", "mjpeg">> /\ method = "GET" THEN <<"--jpegframe", "picture">>
    ELSE <<>>

AddWsRoute(path) == ClearSlash(path)
WsRoutes == {AddWsRoute(path) : path \in {<<"/", "stream">>, <<"/", "ws", "test">>}}

-----------------------------------------------------------------------------
(***************************************************************************)
(* Answers, as they are understood when they are read.                     *)
(***************************************************************************)
Answer(status, type, length) == [status |-> status, type |-> type, length |-> length]

\* Lines begin at even places.  The length that is announced is that of what
\* comes behind the headers, or not.
Understood(data) ==
    LET end == Min({i \in 4..Len(data) : i % 2 = 0 /\ data[i] = EmptyLine})
        of(key) == {i \in 4..(end - 1) : i % 2 = 0 /\ data[i] = key}
        value(key) == data[(CHOOSE i \in of(key) : TRUE) + 1]
    IN  Answer(data[2], value("Content-Type"),
               IF of("Content-Length") = {} THEN "unknown"
               ELSE IF value("Content-Length") = ToString(Len(data) - end) THEN "right"
               ELSE "wrong")

ErrorAnswer(status) == Understood(Written(ErrorResponse(status), <<>>))
CloseAnswer(code) == Answer(WsErrorCode[code], "CLOSE", "right")
Handshake(key) ==
    [accept |-> AcceptKey(key), status |-> "101", type |-> "", length |-> "right"]

\* The answers of the two routes, as frames with their lengths.
Framed(type, words) == <<type, ToString(Len(words))>> \o words
WsAnswer(path, type) ==
    CASE path = <<"/", "stream">> /\ type = "TEXT" -> Framed("TEXT", <<"PONG">>)
      [] path = <<"/", "stream">> /\ type # "TEXT" -> <<>>
      [] path # <<"/", "stream">> /\ type = "TEXT" -> Framed("TEXT", <<"Received", "text">>)
      [] path # <<"/", "stream">> /\ type = "PING" -> Framed("PONG", <<"PONG", "time", "day">>)
      [] OTHER -> Framed("TEXT", <<"invalid message">>)

UnderstoodFrame(data) ==
    IF data = <<>> THEN Answer("nothing", "", "right")
    ELSE Answer(data[3], data[1], IF data[2] = ToString(Len(data) - 2) THEN "right" ELSE "wrong")

\* newResponse, newWsResponse: the path is cleared of its query and its slashes.
PathOf(url) == ClearSlash(Bisect(url, "?")[1])

\* handleHttpRequest.
HttpAnswer(m) ==
    LET path == PathOf(m.url[1])
    IN  IF m.first = "bad" THEN ErrorAnswer("400")
        ELSE IF path \notin DOMAIN Routes(m.method) THEN ErrorAnswer("404")
        ELSE Understood(Written(NewResponse(Routes(m.method)[path], m), Produced(m.method, path)))

\* handleWsRequest, before there is a WebSocket.
UpgradeAnswer(i) ==
    LET m == sent[i]
    IN  IF m.first = "bad" \/ m.method # "GET" THEN CloseAnswer("PROTOCOL_ERROR")
        ELSE IF ~m.hasKey THEN CloseAnswer("AUTH_FAILED")
        ELSE IF PathOf(m.url[1]) \notin WsRoutes THEN CloseAnswer("RESOURCE_NOT_FOUND")
        ELSE Handshake(i)

-----------------------------------------------------------------------------
InboundInit ==
    /\ sent = <<>> /\ wire = <<>> /\ request_data = <<>> /\ ws_req = <<>>
    /\ buffer = NoBuffer /\ answers = <<>> /\ ended = FALSE /\ hurried = FALSE /\ cut = FALSE

\* A browser sends frames once it has a WebSocket, and nothing behind a request
\* for one before it has.
SendMessage(m) ==
    /\ Len(sent) < MaxSent /\ ~ended
    /\ IF ws_req # <<>> THEN m.frame # ""
       ELSE m.frame = "" /\ \A i \in DOMAIN sent : ~IsUpgrade(sent[i])
    /\ sent' = Append(sent, m)
    /\ wire' = wire \o <<<<Len(sent) + 1, 1>>, <<Len(sent) + 1, 2>>>>
    /\ hurried' = (hurried \/ Len(answers) < Len(sent))
    /\ UNCHANGED <<request_data, ws_req, buffer, answers, ended, cut>>

\* on_read: is there an empty line, and is WebSocket asked for, anywhere in
\* what has come?  The header must be spelled Connection: Upgrade.
HasEmptyLine(data) == \E i \in DOMAIN data : data[i][2] = 2
IsWebsocket(data) == \E i \in DOMAIN data : data[i][2] = 2 /\ sent[data[i][1]].connection = "Upgrade"
Whole(data) == Len(data) > 1 /\ data[1][2] = 1

\* One request is handled, whatever else has come ...
Handled(data) ==
    IF IsWebsocket(data)
    THEN {IF Whole(data) THEN UpgradeAnswer(data[1][1]) ELSE CloseAnswer("PROTOCOL_ERROR")}
    ELSE IF Whole(data) THEN {HttpAnswer(sent[data[1][1]])}
    ELSE {ErrorAnswer("400"), ErrorAnswer("404")}

\* ... and all of it is forgotten.
Forgets_Not(data) == data  \* slip: request_data not cleared
Forgets(data) == <<>>

OnReadRequest(n) ==
    LET data == request_data \o SubSeq(wire, 1, n)
    IN  /\ ws_req = <<>> /\ ~ended /\ n \in 1..Len(wire)
        /\ wire' = SubSeq(wire, n + 1, Len(wire))
        /\ IF HasEmptyLine(data)
           THEN \E a \in Handled(data) :
                   /\ answers' = Append(answers, a)
                   /\ request_data' = Forgets(data)
                   /\ ws_req' = IF a.status = "101" THEN PathOf(sent[data[1][1]].url[1]) ELSE <<>>
                   /\ ended' = (a.type = "CLOSE")
           ELSE request_data' = data /\ UNCHANGED <<answers, ws_req, ended>>
        /\ UNCHANGED <<sent, buffer, hurried, cut>>

\* A frame is parsed from what one read has brought.  A part that is missing
\* makes it unknown, what comes behind it is dropped.
TypesRead(data) ==
    IF data[1][2] = 2 THEN {"TEXT", "PING", "CLOSE", "UNKNOWN"}
    ELSE IF Len(data) = 1 THEN {"UNKNOWN"} ELSE {sent[data[1][1]].frame}

OnReadWsFrame(n) ==
    LET data == request_data \o SubSeq(wire, 1, n)
    IN  /\ ws_req # <<>> /\ ~ended /\ n \in 1..Len(wire)
        /\ wire' = SubSeq(wire, n + 1, Len(wire)) /\ request_data' = <<>>
        /\ \E type \in TypesRead(data) :
              IF type = "CLOSE"
              THEN /\ answers' = Append(answers, CloseAnswer("NORMAL_CLOSURE"))
                   /\ ended' = TRUE /\ UNCHANGED buffer
              ELSE /\ buffer' = Filled(buffer, WsAnswer(ws_req, type))
                   /\ answers' = Append(answers, UnderstoodFrame(Sent(buffer')))
                   /\ UNCHANGED ended
        /\ cut' = (cut \/ data[Len(data)][2] = 1)
        /\ UNCHANGED <<sent, ws_req, hurried>>

InboundNext ==
    \/ \E m \in Requests \cup WsMessages : SendMessage(m)
    \/ \E n \in 1..(2 * MaxSent) : OnReadRequest(n) \/ OnReadWsFrame(n)

InboundSpec == InboundInit /\ [][InboundNext]_inboundVars

-----------------------------------------------------------------------------
(***************************************************************************)
(* What visitors should get.                                               *)
(***************************************************************************)
Page(name) == <<"/", name>>

\* The pages, what those load, and the pictures they show, with their types.
Scripts == {File("player", "js"), File("jmuxer", "js"), File("mjpeg", "js")}
Needed ==
    [path \in Scripts \cup {<<"/">>, Page("video"), Page("raw"), Page("info"), Page("mjpeg"),
                            File("player", "css"), File("favicon", "ico")} |->
        CASE path \in Scripts -> "application/javascript"
          [] path = File("player", "css") -> "text/css"
          [] path = File("favicon", "ico") -> "image/x-icon"
          [] path = Page("mjpeg") -> "multipart/x-mixed-replace"
          [] OTHER -> "text/html"]

Fits(a, i) ==
    LET m    == sent[i]
        path == m.url[2]
    IN  IF m.frame = "PING" THEN a.type \in {"", "PONG"}
        ELSE IF m.frame # ""
             THEN a.status \in (IF m.frame = "TEXT" THEN {"PONG", "Received"} ELSE {"1000"})
        ELSE IF IsUpgrade(m)
             THEN IF m.method = "GET" /\ m.hasKey /\ path \in {Page("stream"), <<"/", "ws", "test">>}
                  THEN a = Handshake(i) ELSE a.type = "CLOSE"
        ELSE IF m.first = "bad" THEN a.status = "400"
        ELSE IF m.method = "GET" /\ path \in DOMAIN Needed
             THEN a.status = "200" /\ a.type = Needed[path]
        ELSE a.status = IF m.method = "OPTIONS" /\ path = Page("mjpeg") THEN "204" ELSE "404"

(***************************************************************************)
(* A visitor that lets each message be handled before the next one gets    *)
(* the answer to every message, in order, however TCP cuts requests and    *)
(* whatever was answered before (on_read, parseHttpRequest, routes).  The  *)
(* code relies on frames that arrive in one piece, and on browsers that    *)
(* spell the header of an upgrade as it is looked for.  Whoever reads an   *)
(* answer by its length can go on reading, but behind an error.            *)
(***************************************************************************)
AnswersFit ==
    ~hurried /\ ~cut /\ (\A i \in DOMAIN sent : sent[i].connection # "keep-alive, Upgrade") =>
        /\ wire = <<>> => Len(answers) = Len(sent)
        /\ \A i \in DOMAIN answers : Fits(answers[i], i)
        /\ \A i \in DOMAIN answers :
              /\ answers[i].length = "wrong" => answers[i].status \in {"400", "404"}
              /\ answers[i].length = "unknown" => answers[i].type = "multipart/x-mixed-replace"
=============================================================================
