----------------------------- MODULE HttpServer -----------------------------
(***************************************************************************)
(* The connection and request lifetime of src/src/server.cpp: one libuv    *)
(* loop thread runs the callbacks of class HttpServer over two kinds of    *)
(* heap object, client_context (here Ctx) and http_write_req (here Req).   *)
(* A context is deleted by whichever callback sees "closed and no request  *)
(* left"; a request is deleted by release_http_write_req.  The request     *)
(* callbacks that pages.cpp installs (Stream::requestStart/requestEnd and  *)
(* the TimeoutTimerQueue) run inside them and are part of the actions.     *)
(*                                                                         *)
(* libuv is external.  What the code relies on: an iteration runs timers,  *)
(* then I/O callbacks ("poll"), then close callbacks; write callbacks are  *)
(* never run from inside uv_write; the writes still pending when a handle  *)
(* is closed are called back (ECANCELED) just before its close callback;   *)
(* uv_write on a handle being closed fails and never calls back; uv_close  *)
(* of a handle being closed, and a uv_write_t written while it is pending, *)
(* are errors.  Where the program does such a thing, or touches a deleted  *)
(* object, what follows is undefined: the model records it in "fault" and  *)
(* stops there.                                                            *)
(***************************************************************************)
EXTENDS Integers, Sequences, FiniteSets

(***************************************************************************)
(* "page"    a request answered once, any route but those below            *)
(* "mjpeg"   GET /mjpeg: the response repeats (markRepeat)                 *)
(* "stream"  an upgrade of /stream, the viewer's WebSocket                 *)
(* "test"    an upgrade of /ws/test, a WebSocket that answers every frame  *)
(* Of these pages.cpp gives /mjpeg and /stream callbacks for the start and *)
(* the end of the request: a WebSocket of /ws/test watches nothing.        *)
(***************************************************************************)
PlainKinds   == {"page", "mjpeg"}
SocketKinds  == {"stream", "test"}
WatchKinds   == {"mjpeg", "stream"}
RequestKinds == PlainKinds \cup SocketKinds

CONSTANTS Ctx,            \* client_context objects, one per connection
          Req,            \* http_write_req objects
          None,           \* the null pointer
          Kinds,          \* which requests clients make, see RequestKinds
          Env,            \* what the peers and the operator may do, see EnvChoices
          MaxQueue,       \* bound: entries of write_queue
          MaxCloseWrites  \* bound: close frames being written on one connection

(***************************************************************************)
(* "eof"       a peer disconnects                                          *)
(* "abort"     ... even while its WebSocket answer or close is under way   *)
(* "close"     a peer sends a WebSocket CLOSE frame, or a bad upgrade      *)
(* "pipeline"  a request is sent while an earlier one is unanswered        *)
(* "burst"     a frame is sent while an earlier one is unanswered          *)
(* "binary"    a WebSocket frame that is not TEXT (player.js sends none)   *)
(* "timeout"   the 30 s keepalive check finds a silent client              *)
(* "refuse"    uv_accept or uv_tcp_init of a connection fails              *)
(* "stop"      the GUI stops the server (and may start it again)           *)
(***************************************************************************)
EnvChoices == {"eof", "abort", "close", "pipeline", "burst", "binary",
               "timeout", "refuse", "stop"}

ASSUME ConstantsAssumption ==
    /\ IsFiniteSet(Ctx) /\ IsFiniteSet(Req)
    /\ None \notin Ctx \cup Req
    /\ Kinds \subseteq RequestKinds
    /\ Env \subseteq EnvChoices
    /\ MaxQueue \in Nat /\ MaxCloseWrites \in Nat

VARIABLES
    \* client_context
    cst,          \* "none", "open", "closing" (uv_close called), "closed"
                  \* (on_close has run, ctx->closed), "freed"
    id,           \* ctx->id
    reqs,         \* ctx->reqs
    wsReq,        \* ctx->ws_req
    closeWrites,  \* sendWsClose writes whose callback is pending
    \* http_write_req
    rst,          \* "none", "live", "freed"
    kind,         \* what was asked for, of RequestKinds
    rctx,         \* req->ctx
    inflight,     \* is req->req handed to uv_write and not called back?
    wsType,       \* ws_type_ of a WsResponse: "nil", "text", "other"
    \* HttpServer
    server,       \* the listening handle: "down", "listening", "closing"
    queue,        \* write_queue
    writeTimer,   \* "off", "armed" (due), "fired" (repeats in 1 ms)
    clients,      \* the contexts in the map clients, keyed by their id
    counter,      \* client_counter
    phase,        \* of the loop iteration: "timers", "poll", "closing"
    \* Stream (_reqs, _running) and TimeoutTimerQueue (timers)
    registry,     \* the requests in Stream::_reqs, keyed by RegKey
    running,      \* Stream::_running
    tracked,      \* client ids in TimeoutTimerQueue::timers
    \* undefined behaviour reached
    fault, victim

ctxVars    == <<cst, id, reqs, wsReq, closeWrites>>
reqVars    == <<rst, kind, rctx, inflight, wsType>>
loopVars   == <<server, queue, writeTimer, clients, counter>>
streamVars == <<registry, running, tracked>>
faultVars  == <<fault, victim>>
vars == <<ctxVars, reqVars, loopVars, phase, streamVars, faultVars>>

FaultKinds == {"use_after_free", "double_close", "double_write", "buffer_reused"}

CtxType ==
    /\ cst \in [Ctx -> {"none", "open", "closing", "closed", "freed"}]
    /\ id \in [Ctx -> Nat]
    /\ reqs \in [Ctx -> Int]
    /\ wsReq \in [Ctx -> Req \cup {None}]
    /\ closeWrites \in [Ctx -> Nat]

ReqType ==
    /\ rst \in [Req -> {"none", "live", "freed"}]
    /\ kind \in [Req -> RequestKinds]
    /\ rctx \in [Req -> Ctx \cup {None}]
    /\ inflight \in [Req -> BOOLEAN]
    /\ wsType \in [Req -> {"nil", "text", "other"}]

LoopType ==
    /\ server \in {"down", "listening", "closing"}
    /\ queue \in Seq(Req)
    /\ writeTimer \in {"off", "armed", "fired"}
    /\ clients \subseteq Ctx
    /\ counter \in Nat
    /\ phase \in {"timers", "poll", "closing"}

StreamType ==
    /\ registry \subseteq Req
    /\ running \in BOOLEAN
    /\ tracked \subseteq Nat

TypeOK ==
    /\ CtxType /\ ReqType /\ LoopType /\ StreamType
    /\ fault \in FaultKinds \cup {"none"}
    /\ victim \in Ctx \cup Req \cup {None}

Init ==
    /\ cst = [c \in Ctx |-> "none"]
    /\ id = [c \in Ctx |-> 0]
    /\ reqs = [c \in Ctx |-> 0]
    /\ wsReq = [c \in Ctx |-> None]
    /\ closeWrites = [c \in Ctx |-> 0]
    /\ rst = [r \in Req |-> "none"]
    /\ kind = [r \in Req |-> "page"]
    /\ rctx = [r \in Req |-> None]
    /\ inflight = [r \in Req |-> FALSE]
    /\ wsType = [r \in Req |-> "nil"]
    /\ server = "down" /\ queue = <<>> /\ writeTimer = "off"
    /\ clients = {} /\ counter = 0 /\ phase = "timers"
    /\ registry = {} /\ running = FALSE /\ tracked = {}
    /\ fault = "none" /\ victim = None

-----------------------------------------------------------------------------
\* The program does what libuv or C++ leaves undefined: nothing is said of
\* what follows.
Fault(f, v) ==
    /\ fault' = f /\ victim' = v
    /\ UNCHANGED <<ctxVars, reqVars, loopVars, phase, streamVars>>

Queued(r) == \E i \in DOMAIN queue : queue[i] = r

\* Requests of the same peer share a key of Stream::_reqs when both are
\* MJPEG ("*ip:port") or both are the WebSocket's ("ip:port").
SameKey(q, r) == rctx[q] = rctx[r] /\ kind[q] = kind[r]

\* release_http_write_req on each request of R: what it does to the requests
\* and to their contexts' counters ...
FreeReqs_KeepsCount(R) ==  \* slip: --reqs forgotten
    /\ rst' = [r \in Req |-> IF r \in R THEN "freed" ELSE rst[r]]
    /\ wsReq' = [c \in Ctx |-> IF \E r \in R : rctx[r] = c THEN None ELSE wsReq[c]]
    /\ UNCHANGED reqs

FreeReqs(R) ==
    /\ rst' = [r \in Req |-> IF r \in R THEN "freed" ELSE rst[r]]
    /\ reqs' = [c \in Ctx |-> reqs[c] - Cardinality({r \in R : rctx[r] = c})]
    /\ wsReq' = [c \in Ctx |-> IF \E r \in R : rctx[r] = c THEN None ELSE wsReq[c]]

\* ... the contexts it deletes, F being those that are left closed without a
\* request (~client_context calls removeClient(id)) ...
LastReqs_Any(c, R) == TRUE  \* slip: reqs not looked at
LastReqs(c, R) == reqs[c] = Cardinality({r \in R : rctx[r] = c})

Orphans_None(R) == {}  \* slip: the release leaves the context to on_close
Orphans(R) ==
    {c \in Ctx : cst[c] = "closed" /\ (\E r \in R : rctx[r] = c) /\ LastReqs(c, R)}

RemoveClients_None(F) == clients  \* slip: the destructor does not unregister
RemoveClients(F) == {c \in clients : \A f \in F : id[f] # id[c]}

\* ... and the onRequestEnd callbacks of /mjpeg and of /stream in pages.cpp.
RequestEnd_None(R) == UNCHANGED streamVars  \* slip: callback not called
RequestEnd_Stops(R) ==  \* slip: any leaving watcher stops the pipeline
    LET S == {r \in R : kind[r] \in WatchKinds}
    IN  /\ registry' = {q \in registry : \A r \in S : ~SameKey(q, r)}
        /\ running' = (running /\ S = {})
        /\ UNCHANGED tracked

RequestEnd(R) ==
    LET S == {r \in R : kind[r] \in WatchKinds}
    IN  /\ registry' = {q \in registry : \A r \in S : ~SameKey(q, r)}
        /\ running' = (running /\ (S = {} \/ registry' # {}))
        /\ tracked' = tracked \ {id[rctx[r]] : r \in {q \in S : kind[q] = "stream"}}

\* new_http_write_req, and the onRequestStart callbacks of pages.cpp.
NewReq(c, r, k) ==
    /\ rst[r] = "none"
    /\ rst' = [rst EXCEPT ![r] = "live"]
    /\ kind' = [kind EXCEPT ![r] = k]
    /\ rctx' = [rctx EXCEPT ![r] = c]
    /\ reqs' = [reqs EXCEPT ![c] = @ + 1]
    /\ UNCHANGED <<inflight, wsType>>

RequestStart_NoPush(c, r, k) ==  \* slip: the keepalive table is not told
    /\ registry' = IF k \in WatchKinds THEN registry \cup {r} ELSE registry
    /\ running' = TRUE /\ UNCHANGED tracked

RequestStart(c, r, k) ==
    /\ registry' = IF k \in WatchKinds
                   THEN {q \in registry : rctx[q] # c \/ kind[q] # k} \cup {r}
                   ELSE registry
    /\ running' = (running \/ (k \in WatchKinds /\ Cardinality(registry') = 1))
    /\ tracked' = IF k = "stream" THEN tracked \cup {id[c]} ELSE tracked

\* enqueueWriteRequest for a context that is not closed, dequeueWriteQueue.
Enqueue(r) ==
    /\ queue' = Append(queue, r)
    /\ writeTimer' = IF writeTimer = "off" THEN "armed" ELSE writeTimer

\* on_send takes the first request of write_queue.
Dequeue_Peek == UNCHANGED queue  \* slip: front without pop
Dequeue == queue' = Tail(queue)

\* stop takes all of them.
Flush_NoPop == UNCHANGED queue  \* slip: released, and left in the queue
Flush == queue' = <<>>

\* on_write's test for a request that is not a WebSocket's.
NotWs_Inverted(r) == wsReq[rctx[r]] # None
NotWs(r) == wsReq[rctx[r]] = None

\* The connections stop closes, F having been deleted.
StopTargets(F) == {c \in RemoveClients(F) : cst[c] \in {"open", "closing"}}

-----------------------------------------------------------------------------
\* HttpServer::start, from async_start_cb: bind and listen succeed.
Start ==
    /\ fault = "none" /\ phase = "poll"
    /\ server = "down"
    /\ server' = "listening"
    /\ running' = TRUE
    /\ UNCHANGED <<ctxVars, reqVars, queue, writeTimer, clients, counter, phase,
                   registry, tracked, faultVars>>

\* on_connection: the context is counted in clients before the accept; a failed
\* accept closes the handle, a failed uv_tcp_init deletes the context.
OnConnection(c) ==
    /\ fault = "none" /\ phase = "poll"
    /\ server = "listening"
    /\ cst[c] = "none"
    /\ counter' = counter + 1
    /\ id' = [id EXCEPT ![c] = counter + 1]
    /\ \/ /\ cst' = [cst EXCEPT ![c] = "open"]
          /\ clients' = {d \in clients : id[d] # counter + 1} \cup {c}
       \/ /\ "refuse" \in Env
          /\ cst' = [cst EXCEPT ![c] = "closing"]
          /\ clients' = {d \in clients : id[d] # counter + 1} \cup {c}
       \/ /\ "refuse" \in Env
          /\ cst' = [cst EXCEPT ![c] = "freed"]
          /\ clients' = {d \in clients : id[d] # counter + 1}
    /\ UNCHANGED <<reqs, wsReq, closeWrites, reqVars, server, queue, writeTimer,
                   phase, streamVars, faultVars>>

\* on_read may be called for a handle that is open and being read.
Readable(c) == fault = "none" /\ phase = "poll" /\ cst[c] = "open"

\* What a peer that waits for its answers waits for: the answer to an HTTP
\* request; the answer to a WebSocket frame, or the server's close frame.
Owed(c) == \E r \in Req : rst[r] = "live" /\ rctx[r] = c /\ kind[r] \in PlainKinds
WsOwed(c) == \/ closeWrites[c] > 0
             \/ wsReq[c] # None /\ (Queued(wsReq[c]) \/ inflight[wsReq[c]])

\* on_read of a complete HTTP request: handleHttpRequest, sendHttpResponse (or
\* sendErrorResponse), whose first body is produced and queued at once.
OnReadHttp(c, r, k) ==
    /\ Readable(c) /\ wsReq[c] = None
    /\ k \in Kinds \cap PlainKinds
    /\ "pipeline" \in Env \/ ~Owed(c)
    /\ NewReq(c, r, k)
    /\ RequestStart(c, r, k)
    /\ Enqueue(r)
    /\ UNCHANGED <<cst, id, wsReq, closeWrites, server, clients, counter, phase,
                   faultVars>>

\* on_read of an upgrade request for one of the two routes: doWsHandshake.
OnReadUpgrade(c, r, k) ==
    /\ Readable(c) /\ wsReq[c] = None
    /\ k \in Kinds \cap SocketKinds
    /\ "pipeline" \in Env \/ ~Owed(c)
    /\ NewReq(c, r, k)
    /\ RequestStart(c, r, k)
    /\ wsReq' = [wsReq EXCEPT ![c] = r]
    /\ UNCHANGED <<cst, id, closeWrites, loopVars, phase, faultVars>>

\* on_read of a CLOSE frame, or of an upgrade that is refused: sendWsClose.
OnReadClose(c) ==
    /\ Readable(c) /\ "close" \in Env
    /\ "pipeline" \in Env \/ ~Owed(c)
    /\ "burst" \in Env \/ ~WsOwed(c)
    /\ closeWrites[c] < MaxCloseWrites
    /\ closeWrites' = [closeWrites EXCEPT ![c] = @ + 1]
    /\ UNCHANGED <<cst, id, reqs, wsReq, reqVars, loopVars, phase, streamVars, faultVars>>

\* on_read of any other frame: handleWsRequest sets the frame, produces the
\* answer into the request's only buffer and queues the request.  Refilling the
\* buffer of a write that has not reached the socket yet is undefined.
OnReadFrame(c, t) ==
    LET r == wsReq[c]
    IN  /\ Readable(c) /\ r # None
        /\ t = "text" \/ "binary" \in Env
        /\ "burst" \in Env \/ ~WsOwed(c)
        /\ \/ /\ Len(queue) < MaxQueue
              /\ wsType' = [wsType EXCEPT ![r] = t]
              /\ Enqueue(r)
              /\ UNCHANGED <<ctxVars, rst, kind, rctx, inflight, server, clients,
                             counter, phase, streamVars, faultVars>>
           \/ inflight[r] /\ Fault("buffer_reused", r)

\* on_read with an error or EOF.
OnReadEof(c) ==
    /\ Readable(c) /\ "eof" \in Env
    /\ "abort" \in Env \/ ~WsOwed(c)
    /\ cst' = [cst EXCEPT ![c] = "closing"]
    /\ UNCHANGED <<id, reqs, wsReq, closeWrites, reqVars, loopVars, phase, streamVars,
                   faultVars>>

\* The callback of sendWsClose's write calls closeStream, which does not ask
\* whether the handle is being closed already.
OnCloseWritten(c) ==
    /\ fault = "none" /\ closeWrites[c] > 0
    /\ \/ /\ phase = "poll" /\ cst[c] = "open"
          /\ cst' = [cst EXCEPT ![c] = "closing"]
          /\ closeWrites' = [closeWrites EXCEPT ![c] = @ - 1]
          /\ UNCHANGED <<id, reqs, wsReq, reqVars, loopVars, phase, streamVars, faultVars>>
       \/ /\ phase = "closing" /\ cst[c] = "closing"
          /\ Fault("double_close", c)

\* on_write: a repeating response produces its next body and is queued again,
\* any other is released unless the connection has become a WebSocket.
OnWrite(r) ==
    LET c == rctx[r]
    IN  /\ fault = "none" /\ inflight[r]
        /\ \/ phase = "poll" /\ cst[c] = "open"
           \/ phase = "closing" /\ cst[c] = "closing"
        /\ \/ rst[r] = "freed" /\ Fault("use_after_free", r)
           \/ /\ rst[r] = "live"
              /\ inflight' = [inflight EXCEPT ![r] = FALSE]
              /\ \/ /\ kind[r] = "mjpeg"
                    /\ Enqueue(r)
                    /\ UNCHANGED <<ctxVars, rst, clients, streamVars>>
                 \/ /\ kind[r] # "mjpeg" /\ NotWs(r)
                    /\ FreeReqs({r}) /\ RequestEnd({r})
                    /\ UNCHANGED <<cst, id, closeWrites, queue, writeTimer, clients>>
                 \/ /\ kind[r] # "mjpeg" /\ ~NotWs(r)
                    /\ UNCHANGED <<ctxVars, rst, queue, writeTimer, clients, streamVars>>
              /\ UNCHANGED <<kind, rctx, wsType, server, counter, phase, faultVars>>

\* on_send, the write timer: one request per tick.  uv_write on a handle being
\* closed returns an error that is not looked at.
OnSend ==
    /\ fault = "none" /\ phase = "timers" /\ writeTimer = "armed"
    /\ \/ /\ queue = <<>>
          /\ writeTimer' = "off"
          /\ UNCHANGED <<ctxVars, reqVars, server, queue, clients, counter, phase,
                         streamVars, faultVars>>
       \/ /\ queue # <<>>
          /\ LET r == Head(queue)
                 c == rctx[r]
             IN  \/ rst[r] = "freed" /\ Fault("use_after_free", r)
                 \/ rst[r] = "live" /\ inflight[r] /\ cst[c] = "open"
                    /\ Fault("double_write", r)
                 \/ /\ rst[r] = "live"
                    /\ \/ /\ cst[c] = "closed"
                          /\ FreeReqs({r}) /\ RequestEnd({r})
                          /\ cst' = [d \in Ctx |-> IF d \in Orphans({r}) THEN "freed" ELSE cst[d]]
                          /\ clients' = RemoveClients(Orphans({r}))
                          /\ UNCHANGED <<id, closeWrites, inflight>>
                       \/ /\ cst[c] = "open" /\ ~inflight[r]
                          /\ inflight' = [inflight EXCEPT ![r] = TRUE]
                          /\ UNCHANGED <<ctxVars, rst, clients, streamVars>>
                       \/ /\ cst[c] = "closing"
                          /\ UNCHANGED <<ctxVars, rst, inflight, clients, streamVars>>
                    /\ Dequeue
                    /\ writeTimer' = "fired"
                    /\ UNCHANGED <<kind, rctx, wsType, server, counter, phase, faultVars>>

\* onCheckTimeout: every client silent for IDL_TIMEOUT is dropped from the
\* table and closed (closeClient).  A TEXT frame to /stream refreshes its client,
\* and no request stays in write_queue for 30 s: a client whose TEXT answer is queued
\* is not overdue.
Overdue_Always(k) == TRUE  \* slip: frames do not refresh their client
Overdue(k) == \A i \in DOMAIN queue :
                 LET r == queue[i]
                 IN  ~(kind[r] = "stream" /\ wsType[r] = "text" /\ id[rctx[r]] = k)

\* closeClient, closeStream.
CloseClients(C) ==
    /\ clients' = clients \ C
    /\ cst' = [c \in Ctx |-> IF c \in C THEN "closing" ELSE cst[c]]

CheckTimeout ==
    /\ fault = "none" /\ phase = "timers" /\ "timeout" \in Env
    /\ \E K \in SUBSET {k \in tracked : Overdue(k)} \ {{}} :
         LET C == {c \in clients : id[c] \in K}
         IN  \/ /\ \A c \in C : cst[c] = "open"
                /\ tracked' = tracked \ K /\ CloseClients(C)
                /\ UNCHANGED <<id, reqs, wsReq, closeWrites, reqVars, server, queue,
                               writeTimer, counter, phase, registry, running, faultVars>>
             \/ \E c \in C : cst[c] = "closing" /\ Fault("double_close", c)

\* on_close: the WebSocket request is released, wherever it is; the context is
\* deleted if that was its last one.
OnClose(c) ==
    /\ fault = "none" /\ phase = "closing"
    /\ cst[c] = "closing" /\ closeWrites[c] = 0
    /\ \A r \in Req : inflight[r] => rctx[r] # c
    /\ LET R == IF wsReq[c] = None THEN {} ELSE {wsReq[c]}
           last == LastReqs(c, R)
       IN  /\ FreeReqs(R) /\ RequestEnd(R)
           /\ cst' = [cst EXCEPT ![c] = IF last THEN "freed" ELSE "closed"]
           /\ clients' = IF last THEN RemoveClients({c}) ELSE clients
    /\ UNCHANGED <<id, closeWrites, kind, rctx, inflight, wsType, server, queue,
                   writeTimer, counter, phase, faultVars>>

\* async_stop_cb: pages::stop, then HttpServer::stop: every queued request is
\* released, every connection that has not run on_close is closed.
Stop ==
    /\ fault = "none" /\ phase = "poll" /\ "stop" \in Env
    /\ LET R == {r \in Req : Queued(r)}
           F == Orphans(R)
           C == StopTargets(F)
       IN  \/ /\ \A r \in R : rst[r] = "live"
              /\ Cardinality(R) = Len(queue)
              /\ \A c \in C : cst[c] = "open"
              /\ FreeReqs(R)
              /\ cst' = [c \in Ctx |-> CASE c \in F -> "freed"
                                         [] c \in C -> "closing"
                                         [] OTHER -> cst[c]]
              /\ server' = IF server = "listening" THEN "closing" ELSE server
              /\ writeTimer' = "off" /\ Flush
              /\ clients' = {} /\ counter' = 0
              /\ registry' = {} /\ running' = FALSE /\ tracked' = {}
              /\ UNCHANGED <<id, closeWrites, kind, rctx, inflight, wsType, phase, faultVars>>
           \/ \E r \in R : /\ rst[r] = "freed" \/ Cardinality({i \in DOMAIN queue : queue[i] = r}) > 1
                           /\ Fault("use_after_free", r)
           \/ \E c \in C : cst[c] = "closing" /\ Fault("double_close", c)

\* The close callback of the listening handle.
OnServerClosed ==
    /\ fault = "none" /\ phase = "closing" /\ server = "closing"
    /\ server' = "down"
    /\ UNCHANGED <<ctxVars, reqVars, queue, writeTimer, clients, counter, phase,
                   streamVars, faultVars>>

\* The loop goes on to its next phase: all timers that are due have run, and
\* all handles being closed have been called back.
NextPhase ==
    /\ fault = "none"
    /\ \/ /\ phase = "timers" /\ writeTimer # "armed"
          /\ phase' = "poll" /\ UNCHANGED writeTimer
       \/ /\ phase = "poll" /\ phase' = "closing" /\ UNCHANGED writeTimer
       \/ /\ phase = "closing" /\ server # "closing"
          /\ \A c \in Ctx : cst[c] # "closing"
          /\ phase' = "timers"
          /\ writeTimer' \in IF writeTimer = "fired" THEN {"fired", "armed"} ELSE {writeTimer}
    /\ UNCHANGED <<ctxVars, reqVars, server, queue, clients, counter, streamVars, faultVars>>

Read == \E c \in Ctx :
    \/ \E r \in Req, k \in Kinds : OnReadUpgrade(c, r, k) \/ OnReadHttp(c, r, k)
    \/ \E t \in {"text", "other"} : OnReadFrame(c, t)
    \/ OnReadClose(c) \/ OnReadEof(c)

Written == (\E c \in Ctx : OnCloseWritten(c)) \/ (\E r \in Req : OnWrite(r))

Timers == OnSend \/ CheckTimeout

Closed == OnServerClosed \/ \E c \in Ctx : OnClose(c)

Halted == fault # "none" /\ UNCHANGED vars

Next == \/ Halted
        \/ Start \/ Stop \/ \E c \in Ctx : OnConnection(c)
        \/ Read \/ Written \/ Timers \/ Closed \/ NextPhase

\* The loop thread keeps running its callbacks, and the millisecond between two
\* ticks of the write timer passes.
Tick == NextPhase /\ writeTimer = "fired" /\ writeTimer' = "armed"

Fairness ==
    /\ WF_vars(OnSend) /\ WF_vars(NextPhase) /\ SF_vars(Tick)
    /\ WF_vars(Closed) /\ WF_vars(phase = "closing" /\ Written)

Spec == Init /\ [][Next]_vars /\ Fairness

-----------------------------------------------------------------------------
LiveReqs(c) == {r \in Req : rst[r] = "live" /\ rctx[r] = c}

\* A context counts exactly the requests that will still touch it: its counter
\* is what decides when on_close and release_http_write_req delete it.
ReqsCounted == \A c \in Ctx : reqs[c] = Cardinality(LiveReqs(c))

\* A request never outlives its context: every callback goes through req->ctx.
Alive(c) == cst[c] \in {"open", "closing", "closed"}

ContextOutlivesRequests ==
    \A r \in Req : rst[r] = "live" => rctx[r] \in Ctx /\ Alive(rctx[r])

\* The map clients, which stop and closeClient walk, holds no deleted context
\* and no two contexts of one id, although ids restart with the server.
ClientsAlive ==
    /\ \A c \in clients : Alive(c)
    /\ \A c, d \in clients : id[c] = id[d] => c = d

\* Stream::sendFrame writes through every registered response: none is deleted.
RegistryLive == \A r \in registry : rst[r] = "live" /\ kind[r] \in WatchKinds

\* A plain request waits in one place only, the queue or the socket, and is
\* alive there: it is never used after it was released, whatever the peers and
\* the operator do.
PlainInOnePlace ==
    /\ \A i, j \in DOMAIN queue :
          queue[i] = queue[j] /\ kind[queue[i]] \in PlainKinds => i = j
    /\ \A r \in Req : Queued(r) /\ kind[r] \in PlainKinds => rst[r] = "live" /\ ~inflight[r]
    /\ \A r \in Req : inflight[r] /\ kind[r] \in PlainKinds => rst[r] = "live"

\* The frame pipeline runs whenever somebody watches.
RunningWhileWatched == registry # {} => running

\* What makes those inductive: ctx->ws_req points to a live request of its own
\* connection, and a request that has not been made is nowhere.
WsReqOwned ==
    \A c \in Ctx : wsReq[c] # None =>
        rst[wsReq[c]] = "live" /\ rctx[wsReq[c]] = c /\ kind[wsReq[c]] \in SocketKinds

FreshNowhere == \A r \in Req : rst[r] = "none" => ~Queued(r) /\ ~inflight[r]

-----------------------------------------------------------------------------
(* With peers that keep to a subset of Env, see the runs. *)

\* Nothing undefined is ever done.
NoFault == fault = "none"

\* A live plain request is on its way: queued or being written, so that it is
\* released in the end.
PlainUnderWay ==
    \A r \in Req : rst[r] = "live" /\ kind[r] \in PlainKinds => Queued(r) \/ inflight[r]

\* An open WebSocket gets the frames and is subject to the keepalive check if it
\* is one of /stream, and neither if it is one of /ws/test; and the check looks
\* for no other connection.
WsServed ==
    /\ \A c \in Ctx : cst[c] = "open" /\ wsReq[c] # None =>
            /\ wsReq[c] \in registry <=> kind[wsReq[c]] = "stream"
            /\ id[c] \in tracked <=> kind[wsReq[c]] = "stream"
    /\ \A k \in tracked : \E c \in clients :
            id[c] = k /\ wsReq[c] # None /\ kind[wsReq[c]] = "stream"

\* stop leaves no connection open, and an open connection can be found by its id.
StopClosesAll ==
    \A c \in Ctx : cst[c] = "open" => server = "listening" /\ c \in clients

\* Every connection that is being closed is deleted in the end, by on_close or by
\* the release of its last request: no context is leaked.
ClosedIsFreed == \A c \in Ctx : cst[c] \in {"closing", "closed"} ~> cst[c] = "freed"
=============================================================================
