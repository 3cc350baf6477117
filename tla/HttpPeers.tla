------------------------------ MODULE HttpPeers ------------------------------
(***************************************************************************)
(* HttpServer with a history variable: the connections whose WebSocket was *)
(* hurried while its answer was still in write_queue or in the socket.     *)
(* on_close releases the WebSocket's request wherever it is, and each      *)
(* frame queues it again (server.cpp:747, 877): what this module is for is *)
(* to say that nobody else pays for it, and nobody who waits.              *)
(***************************************************************************)
EXTENDS HttpServer

VARIABLE hurried   \* subset of Ctx

\* The WebSocket's request of c is queued or being written.
Unanswered(c) ==
    wsReq[c] # None /\ (Queued(wsReq[c]) \/ inflight[wsReq[c]])

HurriedInit == Init /\ hurried = {}

\* A step after which the peers of C have been hurried.  Those that hurry a peer
\* are another frame, a disconnect, the written close frame of the server and the
\* keepalive check; HttpServer::stop does not, it empties write_queue before it
\* closes.
Hurry(C) == hurried' = hurried \cup {c \in C : Unanswered(c)}

CalmStep ==
    \/ Halted /\ UNCHANGED hurried
    \/ Start /\ UNCHANGED hurried
    \/ Stop /\ UNCHANGED hurried
    \/ OnSend /\ UNCHANGED hurried
    \/ OnServerClosed /\ UNCHANGED hurried
    \/ NextPhase /\ UNCHANGED hurried
    \/ \E r \in Req : OnWrite(r) /\ UNCHANGED hurried
    \/ \E c \in Ctx : OnConnection(c) /\ UNCHANGED hurried
    \/ \E c \in Ctx : OnReadClose(c) /\ UNCHANGED hurried
    \/ \E c \in Ctx : OnClose(c) /\ UNCHANGED hurried
    \/ \E c \in Ctx, r \in Req, k \in Kinds : OnReadUpgrade(c, r, k) /\ UNCHANGED hurried
    \/ \E c \in Ctx, r \in Req, k \in Kinds : OnReadHttp(c, r, k) /\ UNCHANGED hurried

HurryingStep ==
    \/ \E c \in Ctx, t \in {"text", "other"} : OnReadFrame(c, t) /\ Hurry({c})
    \/ \E c \in Ctx : OnReadEof(c) /\ Hurry({c})
    \/ \E c \in Ctx : OnCloseWritten(c) /\ Hurry({c})
    \/ CheckTimeout /\ Hurry({c \in Ctx : cst[c] = "open" /\ cst'[c] = "closing"})

\* HttpServer's Next, remembering.
HurriedNext == CalmStep \/ HurryingStep

HurriedSpec ==
    HurriedInit /\ [][HurriedNext]_<<vars, hurried>> /\ Fairness

\* A request is used after its release, written twice or refilled under a write
\* only on a connection that was hurried itself: a peer that waits for its answers
\* is safe from the frames, disconnects and pipelined requests of all the others,
\* from stop and from the restart that gives its id away.
OnlyHurried ==
    fault \in {"use_after_free", "double_write", "buffer_reused"} =>
        victim \in Req /\ rctx[victim] \in hurried
=============================================================================
