-------------------------- MODULE HttpServer_proofs --------------------------
(***************************************************************************)
(* What HttpServer guarantees for any number of connections and requests   *)
(* and whatever its peers and its operator do (any Env): types, counted    *)
(* and outlived requests, a table of clients without deleted contexts, and *)
(* plain requests that are never used after their release.  Then, for what *)
(* the peers must not do (Peaceful, Regular): nothing undefined, no answer *)
(* dropped, no connection missing from the tables.                         *)
(***************************************************************************)
EXTENDS HttpPeers, FiniteSetTheorems, TLAPS

USE DEF PlainKinds, SocketKinds, WatchKinds, RequestKinds

-----------------------------------------------------------------------------
\* A set of requests is finite, and so is what is counted of it.
LEMMA ReqsFinite ==
  ASSUME NEW S \in SUBSET Req
  PROVE  IsFiniteSet(S) /\ Cardinality(S) \in Nat
<1>1. IsFiniteSet(S)
  BY ConstantsAssumption, FS_Subset
<1>2. QED
  BY <1>1, FS_CardinalityType

\* The state of a program that has not reached undefined behaviour after a
\* fault: everything but the record of the fault is as it was.
LEMMA FaultType ==
  ASSUME TypeOK, NEW f \in FaultKinds, NEW v \in Ctx \cup Req, Fault(f, v)
  PROVE  TypeOK'
BY DEF TypeOK, CtxType, ReqType, LoopType, StreamType, Fault, ctxVars, reqVars, loopVars, streamVars

\* Releasing requests (release_http_write_req).
LEMMA FreeReqsType ==
  ASSUME TypeOK, NEW R \in SUBSET Req, FreeReqs(R)
  PROVE  /\ rst' \in [Req -> {"none", "live", "freed"}]
         /\ reqs' \in [Ctx -> Int]
         /\ wsReq' \in [Ctx -> Req \cup {None}]
<1>1. \A c \in Ctx : Cardinality({r \in R : rctx[r] = c}) \in Nat
  BY ReqsFinite
<1>2. QED
  BY <1>1 DEF TypeOK, CtxType, ReqType, FreeReqs

\* Leaving the registry (requestEnd).
LEMMA RequestEndType ==
  ASSUME TypeOK, NEW R \in SUBSET Req, RequestEnd(R)
  PROVE  registry' \subseteq Req /\ running' \in BOOLEAN /\ tracked' \subseteq Nat
BY DEF TypeOK, CtxType, ReqType, StreamType, RequestEnd

\* Making a request (new_http_write_req).
LEMMA NewReqType ==
  ASSUME TypeOK, NEW c \in Ctx, NEW r \in Req, NEW k \in RequestKinds,
         NewReq(c, r, k)
  PROVE  ReqType'
<1>1. /\ rst' \in [Req -> {"none", "live", "freed"}]
      /\ kind' \in [Req -> RequestKinds]
      /\ rctx' \in [Req -> Ctx \cup {None}]
  BY DEF NewReq, TypeOK, ReqType
<1>2. QED
  BY <1>1 DEF NewReq, TypeOK, ReqType

\* Queueing a request (enqueueWriteRequest).
LEMMA EnqueueType ==
  ASSUME TypeOK, NEW r \in Req, Enqueue(r)
  PROVE  queue' \in Seq(Req) /\ writeTimer' \in {"off", "armed", "fired"}
BY DEF Enqueue, TypeOK, LoopType

\* Entering the registry (requestStart).
LEMMA RequestStartType ==
  ASSUME TypeOK, NEW c \in Ctx, NEW r \in Req, NEW k, RequestStart(c, r, k)
  PROVE  StreamType'
BY DEF RequestStart, TypeOK, CtxType, StreamType

\* Every step keeps the variables within their types.
LEMMA TypeStep == TypeOK /\ [Next]_vars => TypeOK'
<1> SUFFICES ASSUME TypeOK, [Next]_vars PROVE TypeOK'
  OBVIOUS
<1> USE DEF ctxVars, reqVars, loopVars, streamVars, faultVars, FaultKinds,
          CtxType, ReqType, LoopType, StreamType
<1>1. CASE Start
  BY <1>1 DEF Start, TypeOK
<1>2. CASE Stop
  <2> DEFINE R == {r \in Req : Queued(r)}
             F == Orphans(R)
             C == StopTargets(F)
  <2>1. CASE \E r \in R : Fault("use_after_free", r)
    BY <2>1, FaultType
  <2>2. CASE \E c \in C : Fault("double_close", c)
    BY <2>2, FaultType DEF StopTargets, RemoveClients, TypeOK
  <2>3. CASE /\ FreeReqs(R)
             /\ cst' = [c \in Ctx |-> CASE c \in F -> "freed"
                                         [] c \in C -> "closing"
                                         [] OTHER -> cst[c]]
             /\ server' = IF server = "listening" THEN "closing" ELSE server
             /\ writeTimer' = "off" /\ queue' = <<>>
             /\ clients' = {} /\ counter' = 0
             /\ registry' = {} /\ running' = FALSE /\ tracked' = {}
             /\ UNCHANGED <<id, closeWrites, kind, rctx, inflight, wsType, phase, faultVars>>
    <3>1. cst' \in [Ctx -> {"none", "open", "closing", "closed", "freed"}]
      <4> HIDE DEF F, C
      <4> QED BY <2>3 DEF TypeOK
    <3>2. queue' \in Seq(Req)
      BY <2>3
    <3> HIDE DEF R
    <3>3. R \in SUBSET Req
      BY DEF R
    <3>4. QED
      BY <3>1, <3>2, <3>3, <2>3, FreeReqsType DEF TypeOK
  <2> QED BY <1>2, <2>1, <2>2, <2>3 DEF Stop, Flush
<1>3. ASSUME NEW c \in Ctx, OnConnection(c) PROVE TypeOK'
  <2>1. CtxType'
    <3>1. id' \in [Ctx -> Nat]
      BY <1>3 DEF OnConnection, TypeOK
    <3>2. cst' \in [Ctx -> {"none", "open", "closing", "closed", "freed"}]
      BY <1>3 DEF OnConnection, TypeOK
    <3>3. UNCHANGED <<reqs, wsReq, closeWrites>>
      BY <1>3 DEF OnConnection
    <3> QED BY <3>1, <3>2, <3>3 DEF TypeOK
  <2>2. LoopType'
    BY <1>3 DEF OnConnection, TypeOK
  <2>3. ReqType' /\ StreamType'
    BY <1>3 DEF OnConnection, TypeOK
  <2> QED BY <1>3, <2>1, <2>2, <2>3 DEF OnConnection, TypeOK
<1>4. CASE Read
  <2>1. ASSUME NEW c \in Ctx, NEW r \in Req, NEW k \in Kinds, OnReadUpgrade(c, r, k) PROVE TypeOK'
    <3>1. CtxType'
      <4>1. reqs' \in [Ctx -> Int] /\ wsReq' \in [Ctx -> Req \cup {None}]
        BY <2>1 DEF OnReadUpgrade, NewReq, TypeOK
      <4> QED BY <2>1, <4>1 DEF OnReadUpgrade, TypeOK
    <3>2. ReqType'
      BY <2>1, NewReqType DEF OnReadUpgrade
    <3>3. StreamType'
      BY <2>1, RequestStartType DEF OnReadUpgrade
    <3> QED BY <2>1, <3>1, <3>2, <3>3 DEF OnReadUpgrade, TypeOK
  <2>2. ASSUME NEW c \in Ctx, NEW r \in Req, NEW k \in Kinds, OnReadHttp(c, r, k)
        PROVE  TypeOK'
    <3>1. CtxType'
      <4>1. reqs' \in [Ctx -> Int]
        BY <2>2 DEF OnReadHttp, NewReq, TypeOK
      <4> QED BY <2>2, <4>1 DEF OnReadHttp, TypeOK
    <3>2. ReqType'
      BY <2>2, ConstantsAssumption, NewReqType DEF OnReadHttp
    <3>3. StreamType'
      BY <2>2, RequestStartType DEF OnReadHttp
    <3>4. LoopType'
      BY <2>2 DEF OnReadHttp, Enqueue, TypeOK
    <3> QED BY <2>2, <3>1, <3>2, <3>3, <3>4 DEF OnReadHttp, TypeOK
  <2>3. ASSUME NEW c \in Ctx, NEW t \in {"text", "other"}, OnReadFrame(c, t)
        PROVE  TypeOK'
    <3> DEFINE r == wsReq[c]
    <3>1. r \in Req
      BY <2>3 DEF OnReadFrame, TypeOK
    <3>2. CASE Fault("buffer_reused", r)
      BY <3>1, <3>2, FaultType
    <3>3. CASE ~Fault("buffer_reused", r)
      <4>1. LoopType'
        <5>1. Enqueue(r) /\ UNCHANGED <<server, clients, counter, phase>>
          BY <2>3, <3>1, <3>3 DEF OnReadFrame
        <5> QED BY <5>1, <3>1, EnqueueType DEF TypeOK
      <4>2. wsType' \in [Req -> {"nil", "text", "other"}]
        BY <2>3, <3>1, <3>3 DEF OnReadFrame, TypeOK
      <4>3. UNCHANGED <<ctxVars, rst, kind, rctx, inflight, streamVars, faultVars>>
        BY <2>3, <3>1, <3>3 DEF OnReadFrame
      <4> QED BY <4>1, <4>2, <4>3 DEF TypeOK
    <3> QED BY <3>2, <3>3
  <2>4. ASSUME NEW c \in Ctx, OnReadClose(c) PROVE TypeOK'
    BY <2>4 DEF OnReadClose, TypeOK
  <2>5. ASSUME NEW c \in Ctx, OnReadEof(c) PROVE TypeOK'
    BY <2>5 DEF OnReadEof, TypeOK
  <2> QED BY <1>4, <2>1, <2>2, <2>3, <2>4, <2>5 DEF Read
<1>5. ASSUME NEW c \in Ctx, OnCloseWritten(c) PROVE TypeOK'
  <2>1. CASE Fault("double_close", c)
    BY <2>1, FaultType
  <2>2. CASE ~Fault("double_close", c)
    <3>1. closeWrites' \in [Ctx -> Nat]
      BY <1>5, <2>2 DEF OnCloseWritten, TypeOK
    <3>2. cst' \in [Ctx -> {"none", "open", "closing", "closed", "freed"}]
      BY <1>5, <2>2 DEF OnCloseWritten, TypeOK
    <3> QED BY <1>5, <2>2, <3>1, <3>2 DEF OnCloseWritten, TypeOK
  <2> QED BY <2>1, <2>2
<1>6. ASSUME NEW r \in Req, OnWrite(r) PROVE TypeOK'
  <2>1. CASE Fault("use_after_free", r)
    BY <2>1, FaultType
  <2>2. CASE FreeReqs({r}) /\ RequestEnd({r}) /\ ~Fault("use_after_free", r)
    <3>1. UNCHANGED <<cst, id, closeWrites, kind, rctx, wsType, phase, faultVars>>
      BY <1>6, <2>2 DEF OnWrite
    <3>2. inflight' \in [Req -> BOOLEAN]
      BY <1>6, <2>2 DEF OnWrite, TypeOK
    <3>3. LoopType'
      <4>1. \/ Enqueue(r)
            \/ UNCHANGED <<queue, writeTimer>>
        BY <1>6, <2>2 DEF OnWrite
      <4>2. clients' = clients /\ UNCHANGED <<server, counter, phase>>
        BY <1>6, <2>2 DEF OnWrite
      <4> QED BY <4>1, <4>2, EnqueueType DEF TypeOK
    <3> QED BY <2>2, <3>1, <3>2, <3>3, FreeReqsType, RequestEndType DEF TypeOK
  <2>3. CASE ~(FreeReqs({r}) /\ RequestEnd({r})) /\ ~Fault("use_after_free", r)
    <3>1. UNCHANGED <<ctxVars, rst, kind, rctx, wsType, streamVars, faultVars>>
      BY <1>6, <2>3 DEF OnWrite
    <3>2. inflight' \in [Req -> BOOLEAN]
      BY <1>6, <2>3 DEF OnWrite, TypeOK
    <3>3. LoopType'
      <4>1. \/ Enqueue(r)
            \/ UNCHANGED <<queue, writeTimer>>
        BY <1>6, <2>3 DEF OnWrite
      <4>2. clients' = clients /\ UNCHANGED <<server, counter, phase>>
        BY <1>6, <2>3 DEF OnWrite
      <4> QED BY <4>1, <4>2, EnqueueType DEF TypeOK
    <3> QED BY <3>1, <3>2, <3>3 DEF TypeOK
  <2> QED BY <2>1, <2>2, <2>3
<1>7. CASE OnSend
  <2>1. CASE queue = <<>>
    BY <1>7, <2>1 DEF OnSend, TypeOK
  <2>2. CASE queue # <<>>
    <3> DEFINE r == Head(queue)
    <3>1. r \in Req /\ Tail(queue) \in Seq(Req)
      BY <2>2 DEF TypeOK
    <3>2. CASE Fault("use_after_free", r) \/ Fault("double_write", r)
      BY <3>1, <3>2, FaultType
    <3>3. CASE ~(Fault("use_after_free", r) \/ Fault("double_write", r))
      <4>1. CASE cst[rctx[r]] = "closed"
        BY <1>7, <2>2, <3>1, <3>3, <4>1, FreeReqsType, RequestEndType
           DEF OnSend, Dequeue, RemoveClients, TypeOK
      <4>2. CASE cst[rctx[r]] # "closed"
        BY <1>7, <2>2, <3>1, <3>3, <4>2 DEF OnSend, Dequeue, TypeOK
      <4> QED BY <4>1, <4>2
    <3> QED BY <3>2, <3>3
  <2> QED BY <2>1, <2>2
<1>8. CASE CheckTimeout
  <2>1. CASE \E c \in Ctx : Fault("double_close", c)
    BY <2>1, FaultType
  <2>2. CASE ~\E c \in Ctx : Fault("double_close", c)
    BY <1>8, <2>2 DEF CheckTimeout, CloseClients, TypeOK
  <2> QED BY <2>1, <2>2
<1>9. CASE OnServerClosed
  BY <1>9 DEF OnServerClosed, TypeOK
<1>10. ASSUME NEW c \in Ctx, OnClose(c) PROVE TypeOK'
  <2> DEFINE R == IF wsReq[c] = None THEN {} ELSE {wsReq[c]}
  <2>1. R \in SUBSET Req
    BY DEF TypeOK
  <2>2. FreeReqs(R) /\ RequestEnd(R)
    BY <1>10 DEF OnClose
  <2>3. QED
    BY <1>10, <2>1, <2>2, FreeReqsType, RequestEndType DEF OnClose, RemoveClients, TypeOK
<1>11. CASE NextPhase
  BY <1>11 DEF NextPhase, TypeOK
<1>12. CASE Halted \/ UNCHANGED vars
  BY <1>12 DEF Halted, vars, TypeOK
<1> QED
  BY <1>1, <1>2, <1>3, <1>4, <1>5, <1>6, <1>7, <1>8, <1>9, <1>10, <1>11, <1>12
     DEF Next, Written, Timers, Closed

\* Type correctness: the counters, tables and phases of the server keep the
\* shapes server.cpp gives them.
THEOREM TypeCorrect == Spec => []TypeOK
<1>1. Init => TypeOK
  <2>1. Init => CtxType
    BY DEF Init, CtxType
  <2>2. Init => ReqType
    BY DEF Init, ReqType
  <2>3. Init => LoopType
    BY DEF Init, LoopType
  <2>4. Init => StreamType
    BY DEF Init, StreamType
  <2> QED BY <2>1, <2>2, <2>3, <2>4 DEF Init, TypeOK
<1>2. QED
  BY <1>1, TypeStep, PTL DEF Spec

-----------------------------------------------------------------------------
(* Requests are counted, and outlived by their contexts. *)

Owned == ReqsCounted /\ ContextOutlivesRequests /\ WsReqOwned

\* The live requests of a connection are finitely many.
LEMMA LiveReqsFinite ==
  ASSUME NEW c \in Ctx
  PROVE  LiveReqs(c) \in SUBSET Req /\ IsFiniteSet(LiveReqs(c))
<1>1. LiveReqs(c) \in SUBSET Req
  BY DEF LiveReqs
<1>2. QED
  BY <1>1, ReqsFinite

\* A step that only moves contexts between states in which they exist.
LEMMA OwnedIfContextsStay ==
  ASSUME TypeOK, Owned, UNCHANGED <<reqs, wsReq, rst, kind, rctx>>,
         \A c \in Ctx : Alive(c) => Alive(c)'
  PROVE  Owned'
<1>1. \A c \in Ctx : LiveReqs(c)' = LiveReqs(c)
  BY DEF LiveReqs
<1>2. ReqsCounted'
  BY <1>1 DEF Owned, ReqsCounted
<1>3. ContextOutlivesRequests'
  BY DEF Owned, ContextOutlivesRequests
<1>4. WsReqOwned'
  BY DEF Owned, WsReqOwned
<1>5. QED
  BY <1>2, <1>3, <1>4 DEF Owned

\* new_http_write_req on a context that is open.
LEMMA OwnedNewReq ==
  ASSUME TypeOK, Owned, NEW c \in Ctx, NEW r \in Req, NEW k, NewReq(c, r, k),
         cst' = cst, Alive(c),
         wsReq' = wsReq \/ (k \in SocketKinds /\ wsReq' = [wsReq EXCEPT ![c] = r])
  PROVE  Owned'
<1>1. r \notin LiveReqs(c) /\ LiveReqs(c)' = LiveReqs(c) \cup {r}
  BY DEF NewReq, LiveReqs, TypeOK, ReqType
<1>2. \A d \in Ctx \ {c} : LiveReqs(d)' = LiveReqs(d)
  BY DEF NewReq, LiveReqs, TypeOK, ReqType
<1>3. Cardinality(LiveReqs(c)') = Cardinality(LiveReqs(c)) + 1
  BY <1>1, LiveReqsFinite, FS_AddElement
<1>4. ReqsCounted'
  <2>1. reqs'[c] = reqs[c] + 1 /\ \A d \in Ctx \ {c} : reqs'[d] = reqs[d]
    BY DEF NewReq, TypeOK, CtxType
  <2>2. \A d \in Ctx : reqs'[d] = Cardinality(LiveReqs(d)')
    BY <1>2, <1>3, <2>1 DEF Owned, ReqsCounted
  <2>3. QED
    BY <2>2 DEF ReqsCounted
<1>5. ContextOutlivesRequests'
  BY DEF NewReq, Owned, ContextOutlivesRequests, Alive, TypeOK, ReqType
<1>6. WsReqOwned'
  <2> SUFFICES ASSUME NEW d \in Ctx, wsReq'[d] # None
               PROVE  rst'[wsReq'[d]] = "live" /\ rctx'[wsReq'[d]] = d /\ kind'[wsReq'[d]] \in SocketKinds
    BY DEF WsReqOwned
  <2>1. CASE wsReq'[d] = wsReq[d]
    <3>1. wsReq[d] \in Req /\ wsReq[d] # r
      BY <2>1 DEF NewReq, Owned, WsReqOwned, TypeOK, CtxType
    <3> QED BY <2>1, <3>1 DEF NewReq, Owned, WsReqOwned, TypeOK, ReqType
  <2>2. CASE wsReq'[d] # wsReq[d]
    <3>1. k \in SocketKinds /\ d = c /\ wsReq'[d] = r
      BY <2>2 DEF TypeOK, CtxType
    <3> QED BY <3>1 DEF NewReq, TypeOK, ReqType
  <2> QED BY <2>1, <2>2
<1>7. QED
  BY <1>4, <1>5, <1>6 DEF Owned

\* A context that release_http_write_req deletes loses its last requests.
LEMMA OrphansHaveNoOther ==
  ASSUME TypeOK, Owned, NEW R \in SUBSET Req, \A r \in R : rst[r] = "live",
         NEW c \in Ctx, reqs[c] = Cardinality({r \in R : rctx[r] = c})
  PROVE  LiveReqs(c) \subseteq R
<1> DEFINE S == {r \in R : rctx[r] = c}
<1>1. S \in SUBSET LiveReqs(c)
  BY DEF LiveReqs
<1>2. Cardinality(LiveReqs(c)) = Cardinality(S)
  BY DEF Owned, ReqsCounted
<1>3. LiveReqs(c) = S
  <2> HIDE DEF S
  <2> QED BY <1>1, <1>2, LiveReqsFinite, FS_Subset
<1>4. QED
  BY <1>3

\* release_http_write_req: a context is deleted only with its last requests.
LEMMA OwnedFreeReqs ==
  ASSUME TypeOK, Owned, NEW R \in SUBSET Req, \A r \in R : rst[r] = "live",
         FreeReqs(R), UNCHANGED <<kind, rctx>>,
         \A c \in Ctx : Alive(c) => Alive(c)' \/ LiveReqs(c) \subseteq R
  PROVE  Owned'
<1>1. ReqsCounted'
  <2> SUFFICES ASSUME NEW c \in Ctx PROVE reqs'[c] = Cardinality(LiveReqs(c)')
    BY DEF ReqsCounted
  <2> DEFINE S == {r \in R : rctx[r] = c}
  <2>1. LiveReqs(c)' = LiveReqs(c) \ S
    BY DEF LiveReqs, FreeReqs, TypeOK, ReqType
  <2>2. LiveReqs(c) \cap S = S
    BY DEF LiveReqs
  <2>3. Cardinality(LiveReqs(c)') = Cardinality(LiveReqs(c)) - Cardinality(S)
    <3> HIDE DEF S
    <3> QED BY <2>1, <2>2, LiveReqsFinite, FS_Difference
  <2>4. reqs'[c] = reqs[c] - Cardinality(S)
    BY DEF FreeReqs
  <2>5. QED
    BY <2>3, <2>4 DEF Owned, ReqsCounted
<1>2. ContextOutlivesRequests'
  <2> SUFFICES ASSUME NEW r \in Req, rst'[r] = "live"
               PROVE  rctx[r] \in Ctx /\ Alive(rctx[r])'
    BY DEF ContextOutlivesRequests, Alive
  <2>1. rst[r] = "live" /\ r \notin R
    BY DEF FreeReqs, TypeOK, ReqType
  <2>2. rctx[r] \in Ctx /\ Alive(rctx[r])
    BY <2>1 DEF Owned, ContextOutlivesRequests
  <2>3. r \in LiveReqs(rctx[r])
    BY <2>1 DEF LiveReqs
  <2>4. QED
    BY <2>1, <2>2, <2>3
<1>3. WsReqOwned'
  <2> SUFFICES ASSUME NEW c \in Ctx, wsReq'[c] # None
               PROVE  rst'[wsReq'[c]] = "live" /\ rctx[wsReq'[c]] = c /\ kind[wsReq'[c]] \in SocketKinds
    BY DEF WsReqOwned
  <2>1. wsReq'[c] = wsReq[c] /\ \A r \in R : rctx[r] # c
    BY DEF FreeReqs
  <2>2. QED
    BY <2>1 DEF FreeReqs, Owned, WsReqOwned, TypeOK, CtxType
<1>4. QED
  BY <1>1, <1>2, <1>3 DEF Owned

\* Every step keeps requests counted and outlived by their contexts.
LEMMA OwnedStep == TypeOK /\ Owned /\ [Next]_vars => Owned'
<1> SUFFICES ASSUME TypeOK, Owned, [Next]_vars PROVE Owned'
  OBVIOUS
<1> USE DEF ctxVars, reqVars, loopVars, streamVars
<1>0. ASSUME NEW f, NEW v, Fault(f, v) PROVE Owned'
  BY <1>0, OwnedIfContextsStay DEF Fault, Alive
<1>1. CASE Start
  BY <1>1, OwnedIfContextsStay DEF Start, Alive
<1>2. CASE Stop
  <2> DEFINE R == {r \in Req : Queued(r)}
             F == Orphans(R)
             C == StopTargets(F)
  <2>1. CASE \E f, v : Fault(f, v)
    BY <1>0, <2>1
  <2>2. CASE ~\E f, v : Fault(f, v)
    <3>1. /\ \A r \in R : rst[r] = "live"
          /\ FreeReqs(R)
          /\ cst' = [c \in Ctx |-> CASE c \in F -> "freed"
                                      [] c \in C -> "closing"
                                      [] OTHER -> cst[c]]
          /\ UNCHANGED <<kind, rctx>>
      BY <1>2, <2>2 DEF Stop, Flush
    <3>2. ASSUME NEW c \in Ctx, Alive(c) PROVE Alive(c)' \/ LiveReqs(c) \subseteq R
      <4>1. CASE c \in F
        <5>1. reqs[c] = Cardinality({r \in R : rctx[r] = c})
          BY <4>1 DEF Orphans, LastReqs
        <5> HIDE DEF R
        <5> QED BY <3>1, <5>1, OrphansHaveNoOther DEF R
      <4>2. CASE c \notin F
        <5> HIDE DEF F, C
        <5> QED BY <3>1, <3>2, <4>2 DEF Alive
      <4> QED BY <4>1, <4>2
    <3>3. R \in SUBSET Req
      OBVIOUS
    <3> HIDE DEF R
    <3>4. QED
      BY <3>1, <3>2, <3>3, OwnedFreeReqs
  <2> QED BY <2>1, <2>2
<1>3. ASSUME NEW c \in Ctx, OnConnection(c) PROVE Owned'
  <2>1. \A d \in Ctx : Alive(d) => Alive(d)'
    BY <1>3 DEF OnConnection, Alive, TypeOK, CtxType
  <2>2. QED
    BY <1>3, <2>1, OwnedIfContextsStay DEF OnConnection
<1>4. CASE Read
  <2>1. ASSUME NEW c \in Ctx, NEW r \in Req, NEW k \in Kinds, OnReadUpgrade(c, r, k) PROVE Owned'
    BY <2>1, OwnedNewReq DEF OnReadUpgrade, Readable, Alive
  <2>2. ASSUME NEW c \in Ctx, NEW r \in Req, NEW k \in Kinds, OnReadHttp(c, r, k)
        PROVE  Owned'
    BY <2>2, OwnedNewReq DEF OnReadHttp, Readable, Alive
  <2>3. ASSUME NEW c \in Ctx, NEW t \in {"text", "other"}, OnReadFrame(c, t)
        PROVE  Owned'
    BY <2>3, <1>0, OwnedIfContextsStay DEF OnReadFrame, Alive
  <2>4. ASSUME NEW c \in Ctx, OnReadClose(c) PROVE Owned'
    BY <2>4, OwnedIfContextsStay DEF OnReadClose, Alive
  <2>5. ASSUME NEW c \in Ctx, OnReadEof(c) PROVE Owned'
    <3>1. \A d \in Ctx : Alive(d) => Alive(d)'
      BY <2>5 DEF OnReadEof, Alive, TypeOK, CtxType
    <3> QED BY <2>5, <3>1, OwnedIfContextsStay DEF OnReadEof
  <2> QED BY <1>4, <2>1, <2>2, <2>3, <2>4, <2>5 DEF Read
<1>5. ASSUME NEW c \in Ctx, OnCloseWritten(c) PROVE Owned'
  <2>1. CASE Fault("double_close", c)
    BY <2>1, <1>0
  <2>2. CASE ~Fault("double_close", c)
    <3>1. \A d \in Ctx : Alive(d) => Alive(d)'
      BY <1>5, <2>2 DEF OnCloseWritten, Alive, TypeOK, CtxType
    <3> QED BY <1>5, <2>2, <3>1, OwnedIfContextsStay DEF OnCloseWritten
  <2> QED BY <2>1, <2>2
<1>6. ASSUME NEW r \in Req, OnWrite(r) PROVE Owned'
  <2>1. CASE Fault("use_after_free", r)
    BY <2>1, <1>0
  <2>2. CASE rst[r] = "live" /\ FreeReqs({r}) /\ ~Fault("use_after_free", r)
    <3>1. UNCHANGED <<cst, kind, rctx>>
      BY <1>6, <2>2 DEF OnWrite
    <3> QED BY <2>2, <3>1, OwnedFreeReqs DEF Alive
  <2>3. CASE ~(rst[r] = "live" /\ FreeReqs({r})) /\ ~Fault("use_after_free", r)
    BY <1>6, <2>3, OwnedIfContextsStay DEF OnWrite, Alive
  <2> QED BY <2>1, <2>2, <2>3
<1>7. CASE OnSend
  <2> DEFINE r == Head(queue)
  <2>1. CASE \E f, v : Fault(f, v)
    BY <2>1, <1>0
  <2>2. CASE queue = <<>>
    BY <1>7, <2>2, OwnedIfContextsStay DEF OnSend, Alive
  <2>3. CASE queue # <<>> /\ cst[rctx[r]] = "closed" /\ ~\E f, v : Fault(f, v)
    <3>1. /\ rst[r] = "live" /\ FreeReqs({r}) /\ UNCHANGED <<kind, rctx>>
          /\ cst' = [d \in Ctx |-> IF d \in Orphans({r}) THEN "freed" ELSE cst[d]]
      BY <1>7, <2>3 DEF OnSend
    <3>2. r \in Req
      BY <2>3 DEF TypeOK, LoopType
    <3> HIDE DEF r
    <3>3. ASSUME NEW c \in Ctx, Alive(c) PROVE Alive(c)' \/ LiveReqs(c) \subseteq {r}
      <4>1. CASE c \in Orphans({r})
        BY <3>1, <3>2, <4>1, OrphansHaveNoOther DEF Orphans, LastReqs
      <4>2. CASE c \notin Orphans({r})
        BY <3>1, <3>3, <4>2 DEF Alive
      <4> QED BY <4>1, <4>2
    <3>4. QED
      BY <3>1, <3>2, <3>3, OwnedFreeReqs
  <2>4. CASE queue # <<>> /\ cst[rctx[r]] # "closed" /\ ~\E f, v : Fault(f, v)
    <3>1. UNCHANGED <<ctxVars, rst, kind, rctx>>
      BY <1>7, <2>4 DEF OnSend
    <3> QED BY <3>1, OwnedIfContextsStay DEF Alive
  <2> QED BY <2>1, <2>2, <2>3, <2>4
<1>8. CASE CheckTimeout
  <2>1. CASE \E f, v : Fault(f, v)
    BY <2>1, <1>0
  <2>2. CASE ~\E f, v : Fault(f, v)
    <3>1. /\ \A c \in Ctx : cst'[c] \in {cst[c], "closing"}
          /\ UNCHANGED <<reqs, wsReq, rst, kind, rctx>>
      BY <1>8, <2>2 DEF CheckTimeout, CloseClients
    <3> QED BY <3>1, OwnedIfContextsStay DEF Alive
  <2> QED BY <2>1, <2>2
<1>9. CASE OnServerClosed
  BY <1>9, OwnedIfContextsStay DEF OnServerClosed, Alive
<1>10. ASSUME NEW c \in Ctx, OnClose(c) PROVE Owned'
  <2> DEFINE R == IF wsReq[c] = None THEN {} ELSE {wsReq[c]}
  <2>1. R \in SUBSET Req /\ \A r \in R : rst[r] = "live" /\ rctx[r] = c
    BY DEF TypeOK, CtxType, Owned, WsReqOwned
  <2>2. /\ FreeReqs(R) /\ UNCHANGED <<kind, rctx>>
        /\ cst' = [cst EXCEPT ![c] = IF LastReqs(c, R) THEN "freed" ELSE "closed"]
    BY <1>10 DEF OnClose
  <2> HIDE DEF R
  <2>3. ASSUME NEW d \in Ctx, Alive(d) PROVE Alive(d)' \/ LiveReqs(d) \subseteq R
    <3>1. CASE d # c \/ ~LastReqs(c, R)
      BY <2>2, <2>3, <3>1 DEF Alive, TypeOK, CtxType
    <3>2. CASE d = c /\ LastReqs(c, R)
      BY <2>1, <3>2, OrphansHaveNoOther DEF LastReqs
    <3> QED BY <3>1, <3>2
  <2>4. QED
    BY <2>1, <2>2, <2>3, OwnedFreeReqs
<1>11. CASE NextPhase
  BY <1>11, OwnedIfContextsStay DEF NextPhase, Alive
<1>12. CASE Halted \/ UNCHANGED vars
  BY <1>12, OwnedIfContextsStay DEF Halted, vars, Alive
<1> QED
  BY <1>1, <1>2, <1>3, <1>4, <1>5, <1>6, <1>7, <1>8, <1>9, <1>10, <1>11, <1>12
     DEF Next, Written, Timers, Closed

\* There is no WebSocket at first.
LEMMA OwnedInit == Init => Owned
<1> SUFFICES ASSUME Init PROVE Owned
  OBVIOUS
<1>1. \A c \in Ctx : LiveReqs(c) = {}
  BY DEF Init, LiveReqs
<1>2. ReqsCounted
  BY <1>1, FS_EmptySet DEF Init, ReqsCounted
<1>3. ContextOutlivesRequests /\ WsReqOwned
  BY DEF Init, ContextOutlivesRequests, WsReqOwned
<1>4. QED
  BY <1>2, <1>3 DEF Owned

\* ctx->reqs is the number of live requests of the context, whatever peers send
\* and whenever connections are closed: the count on which every deletion of a
\* context in server.cpp rests.
THEOREM RequestsAreCounted == Spec => []ReqsCounted
<1>1. Spec => []Owned
  BY OwnedInit, OwnedStep, TypeCorrect, PTL DEF Spec
<1>2. Owned => ReqsCounted
  BY DEF Owned
<1>3. QED
  BY <1>1, <1>2, PTL

\* No callback reaches a deleted context through a live request.
THEOREM ContextsOutliveRequests == Spec => []ContextOutlivesRequests
<1>1. Spec => []Owned
  BY OwnedInit, OwnedStep, TypeCorrect, PTL DEF Spec
<1>2. Owned => ContextOutlivesRequests
  BY DEF Owned
<1>3. QED
  BY <1>1, <1>2, PTL

-----------------------------------------------------------------------------
(* The table of clients. *)

\* Fewer clients, all of them alive, are still told apart by their ids.
LEMMA ClientsStay ==
  ASSUME ClientsAlive, UNCHANGED id, clients' \subseteq clients,
         \A c \in clients' : Alive(c)'
  PROVE  ClientsAlive'
BY DEF ClientsAlive, Alive

\* ~client_context erases whatever has the id of the deleted context; so no
\* deleted context is left, even where ids were given twice.
LEMMA ClientsStep == TypeOK /\ ClientsAlive /\ [Next]_vars => ClientsAlive'
<1> SUFFICES ASSUME TypeOK, ClientsAlive, [Next]_vars PROVE ClientsAlive'
  OBVIOUS
<1> USE DEF ctxVars, loopVars
<1>0. ASSUME UNCHANGED <<cst, id, clients>> PROVE ClientsAlive'
  BY <1>0 DEF ClientsAlive, Alive
<1>a. ASSUME NEW f, NEW v, Fault(f, v) PROVE ClientsAlive'
  BY <1>a, <1>0 DEF Fault
<1>1. CASE Start
  BY <1>1, <1>0 DEF Start
<1>2. CASE Stop
  <2>1. CASE \E f, v : Fault(f, v)
    BY <2>1, <1>a
  <2>2. CASE ~\E f, v : Fault(f, v)
    <3>1. clients' = {}
      BY <1>2, <2>2 DEF Stop, Flush
    <3> QED BY <3>1 DEF ClientsAlive
  <2> QED BY <2>1, <2>2
<1>3. ASSUME NEW c \in Ctx, OnConnection(c) PROVE ClientsAlive'
  <2> DEFINE K == {d \in clients : id[d] # counter + 1}
  <2>1. /\ cst[c] = "none" /\ clients' \in {K, K \cup {c}}
        /\ id' = [id EXCEPT ![c] = counter + 1]
    BY <1>3 DEF OnConnection
  <2>2. c \notin clients
    BY <2>1 DEF ClientsAlive, Alive
  <2>3. \A d \in clients' : Alive(d)'
    <3>1. \A d \in Ctx \ {c} : cst'[d] = cst[d]
      BY <1>3 DEF OnConnection, TypeOK, CtxType
    <3>2. c \in clients' => cst'[c] \in {"open", "closing"}
      BY <1>3, <2>2 DEF OnConnection, TypeOK, CtxType
    <3> QED BY <2>1, <3>1, <3>2 DEF ClientsAlive, Alive, TypeOK, LoopType
  <2>4. \A d, e \in clients' : id'[d] = id'[e] => d = e
    <3>1. id'[c] = counter + 1 /\ \A d \in K : id'[d] = id[d] /\ id[d] # counter + 1
      BY <2>1, <2>2 DEF TypeOK, CtxType, LoopType
    <3>2. \A d, e \in K : id[d] = id[e] => d = e
      BY DEF ClientsAlive
    <3> HIDE DEF K
    <3> QED BY <2>1, <3>1, <3>2
  <2>5. QED
    BY <2>3, <2>4 DEF ClientsAlive
<1>4. CASE Read
  <2>1. ASSUME NEW c \in Ctx, OnReadEof(c) PROVE ClientsAlive'
    <3>1. UNCHANGED <<id, clients>> /\ \A d \in Ctx : Alive(d) => Alive(d)'
      BY <2>1 DEF OnReadEof, Alive, TypeOK, CtxType
    <3> QED BY <3>1, ClientsStay DEF ClientsAlive, TypeOK, LoopType
  <2>2. CASE ~\E c \in Ctx : OnReadEof(c)
    <3>1. \/ UNCHANGED <<cst, id, clients>>
          \/ \E f, v : Fault(f, v)
      BY <1>4, <2>2
         DEF Read, OnReadUpgrade, OnReadHttp, OnReadFrame, OnReadClose, Enqueue
    <3> QED BY <3>1, <1>0, <1>a
  <2> QED BY <2>1, <2>2
<1>5. ASSUME NEW c \in Ctx, OnCloseWritten(c) PROVE ClientsAlive'
  <2>1. CASE Fault("double_close", c)
    BY <2>1, <1>a
  <2>2. CASE ~Fault("double_close", c)
    <3>1. UNCHANGED <<id, clients>> /\ \A d \in Ctx : Alive(d) => Alive(d)'
      BY <1>5, <2>2 DEF OnCloseWritten, Alive, TypeOK, CtxType
    <3> QED BY <3>1, ClientsStay DEF ClientsAlive, TypeOK, LoopType
  <2> QED BY <2>1, <2>2
<1>6. ASSUME NEW r \in Req, OnWrite(r) PROVE ClientsAlive'
  <2>1. CASE Fault("use_after_free", r)
    BY <2>1, <1>a
  <2>2. CASE ~Fault("use_after_free", r)
    <3>1. UNCHANGED <<cst, id, clients>>
      BY <1>6, <2>2 DEF OnWrite
    <3> QED BY <3>1, <1>0
  <2> QED BY <2>1, <2>2
<1>7. CASE OnSend
  <2> DEFINE F == Orphans({Head(queue)})
  <2>1. CASE \E f, v : Fault(f, v)
    BY <2>1, <1>a
  <2>2. CASE ~\E f, v : Fault(f, v)
    <3>1. \/ UNCHANGED <<cst, id, clients>>
          \/ /\ UNCHANGED id /\ clients' = RemoveClients(F)
             /\ cst' = [d \in Ctx |-> IF d \in F THEN "freed" ELSE cst[d]]
      BY <1>7, <2>2 DEF OnSend
    <3>2. CASE UNCHANGED <<cst, id, clients>>
      BY <3>2, <1>0
    <3>3. CASE ~UNCHANGED <<cst, id, clients>>
      <4> HIDE DEF F
      <4>1. \A c \in RemoveClients(F) : c \in clients /\ c \notin F
        BY DEF RemoveClients
      <4> QED BY <3>1, <3>3, <4>1, ClientsStay DEF ClientsAlive, Alive, TypeOK, LoopType
    <3> QED BY <3>2, <3>3
  <2> QED BY <2>1, <2>2
<1>8. CASE CheckTimeout
  <2>1. CASE \E f, v : Fault(f, v)
    BY <2>1, <1>a
  <2>2. CASE ~\E f, v : Fault(f, v)
    <3>1. /\ UNCHANGED id /\ clients' \subseteq clients
          /\ \A c \in Ctx : cst'[c] \in {cst[c], "closing"}
      BY <1>8, <2>2 DEF CheckTimeout, CloseClients
    <3> QED BY <3>1, ClientsStay DEF ClientsAlive, Alive, TypeOK, LoopType
  <2> QED BY <2>1, <2>2
<1>9. CASE OnServerClosed
  BY <1>9, <1>0 DEF OnServerClosed
<1>10. ASSUME NEW c \in Ctx, OnClose(c) PROVE ClientsAlive'
  <2>1. /\ UNCHANGED id
        /\ \/ /\ cst' = [cst EXCEPT ![c] = "freed"]
              /\ clients' = RemoveClients({c})
           \/ /\ cst' = [cst EXCEPT ![c] = "closed"]
              /\ clients' = clients
    BY <1>10 DEF OnClose
  <2>2. \A d \in RemoveClients({c}) : d \in clients /\ d # c
    BY DEF RemoveClients
  <2>3. clients' \subseteq clients /\ \A d \in clients' : Alive(d)'
    BY <2>1, <2>2 DEF ClientsAlive, Alive, TypeOK, CtxType, LoopType
  <2>4. QED
    BY <2>1, <2>3, ClientsStay
<1>11. CASE NextPhase
  BY <1>11, <1>0 DEF NextPhase
<1>12. CASE Halted \/ UNCHANGED vars
  BY <1>12, <1>0 DEF Halted, vars
<1> QED
  BY <1>1, <1>2, <1>3, <1>4, <1>5, <1>6, <1>7, <1>8, <1>9, <1>10, <1>11, <1>12
     DEF Next, Written, Timers, Closed

\* What stop and closeClient find in the map clients exists, and is found under
\* its own id only.
THEOREM ClientsAreAlive == Spec => []ClientsAlive
<1>1. Init => ClientsAlive
  BY DEF Init, ClientsAlive
<1>2. QED
  BY <1>1, ClientsStep, TypeCorrect, PTL DEF Spec

-----------------------------------------------------------------------------
(* Where requests are. *)

Placed == FreshNowhere /\ PlainInOnePlace

\* A step that leaves the queue and the socket, and everything about the
\* requests, alone.
LEMMA PlacedStays ==
  ASSUME Placed, UNCHANGED <<rst, kind, inflight, queue>>
  PROVE  Placed'
BY DEF Placed, FreshNowhere, PlainInOnePlace, Queued

\* Undefined behaviour leaves everything but its record alone.
LEMMA PlacedFault ==
  ASSUME Placed, NEW f, NEW v, Fault(f, v)
  PROVE  Placed'
BY PlacedStays DEF Fault, reqVars, loopVars

\* Queueing a request that is nowhere yet, or that is a WebSocket's.
LEMMA PlacedAppend ==
  ASSUME TypeOK, Placed, NEW r \in Req, Enqueue(r), UNCHANGED faultVars,
         kind' \in [Req -> RequestKinds],
         \A q \in Req \ {r} : kind'[q] = kind[q] /\ rst'[q] = rst[q] /\ inflight'[q] = inflight[q],
         fault = "none", rst'[r] = "live",
         kind'[r] \in PlainKinds => ~Queued(r) /\ ~inflight'[r]
  PROVE  Placed'
<1>1. queue \in Seq(Req) /\ queue' = Append(queue, r)
  BY DEF TypeOK, LoopType, Enqueue
<1>2. /\ Len(queue') = Len(queue) + 1 /\ Len(queue) \in Nat
      /\ queue'[Len(queue) + 1] = r
      /\ \A i \in 1 .. Len(queue) : queue'[i] = queue[i] /\ queue[i] \in Req
      /\ DOMAIN queue = 1 .. Len(queue) /\ DOMAIN queue' = 1 .. Len(queue')
  BY <1>1
<1>3. \A i \in DOMAIN queue' : i \in DOMAIN queue \/ i = Len(queue) + 1
  BY <1>2
<1>4. \A q \in Req : Queued(q)' => q = r \/ Queued(q)
  BY <1>2, <1>3 DEF Queued
<1>5. FreshNowhere'
  BY <1>4 DEF Placed, FreshNowhere
<1>6. PlainInOnePlace'
  <2>1. ASSUME NEW i \in DOMAIN queue', NEW j \in DOMAIN queue',
               queue'[i] = queue'[j], kind'[queue'[i]] \in PlainKinds
        PROVE  i = j
    <3>1. CASE queue'[i] = r
      BY <1>2, <1>3, <2>1, <3>1 DEF Queued
    <3>2. CASE queue'[i] # r
      BY <1>2, <1>3, <2>1, <3>2 DEF Placed, PlainInOnePlace
    <3> QED BY <3>1, <3>2
  <2>2. ASSUME NEW q \in Req, Queued(q)', kind'[q] \in PlainKinds
        PROVE  rst'[q] = "live" /\ ~inflight'[q]
    BY <1>4, <2>2 DEF Placed, PlainInOnePlace
  <2>3. ASSUME NEW q \in Req, inflight'[q], kind'[q] \in PlainKinds PROVE rst'[q] = "live"
    BY <2>3 DEF Placed, PlainInOnePlace
  <2>4. QED
    BY <2>1, <2>2, <2>3 DEF PlainInOnePlace
<1>8. QED
  BY <1>5, <1>6 DEF Placed

\* Releasing requests that are not plain ones still to be sent.
LEMMA PlacedFree ==
  ASSUME TypeOK, Placed, NEW R \in SUBSET Req, FreeReqs(R),
         UNCHANGED <<kind, queue, faultVars>>, fault = "none",
         \A q \in Req : inflight'[q] => inflight[q] /\ (q \in R => kind[q] \in SocketKinds),
         \A q \in R : kind[q] \in PlainKinds => ~Queued(q)
  PROVE  Placed'
<1>1. \A q \in Req : Queued(q)' <=> Queued(q)
  BY DEF Queued
<1>2. \A q \in Req : /\ rst'[q] = "none" => rst[q] = "none"
                     /\ q \notin R => rst'[q] = rst[q]
  BY DEF FreeReqs
<1>3. FreshNowhere'
  BY <1>1, <1>2 DEF Placed, FreshNowhere
<1>4. PlainInOnePlace'
  BY <1>1, <1>2 DEF Placed, PlainInOnePlace
<1>6. QED
  BY <1>3, <1>4 DEF Placed

\* Taking the first request of the queue, which is then written or released.
LEMMA PlacedPop ==
  ASSUME TypeOK, Placed, queue # <<>>, queue' = Tail(queue), fault = "none",
         UNCHANGED <<kind, faultVars>>,
         NEW r, r = Head(queue), rst'[r] # "none",
         inflight'[r] /\ kind[r] \in PlainKinds => rst'[r] = "live",
         \A q \in Req \ {r} : rst'[q] = rst[q] /\ inflight'[q] = inflight[q]
  PROVE  Placed'
<1>1. /\ queue \in Seq(Req) /\ Len(queue) \in Nat \ {0} /\ r = queue[1] /\ r \in Req
      /\ DOMAIN queue = 1 .. Len(queue) /\ DOMAIN queue' = 1 .. Len(queue) - 1
      /\ \A i \in 1 .. Len(queue) - 1 : queue'[i] = queue[i + 1]
  BY DEF TypeOK, LoopType
<1>2. \A q \in Req : Queued(q)' => Queued(q)
  BY <1>1 DEF Queued
<1>3. kind[r] \in PlainKinds => ~Queued(r)'
  <2> SUFFICES ASSUME kind[r] \in PlainKinds, NEW i \in DOMAIN queue', queue'[i] = r PROVE FALSE
    BY DEF Queued
  <2>1. i + 1 \in DOMAIN queue /\ 1 \in DOMAIN queue /\ queue[i + 1] = queue[1] /\ i + 1 # 1
    BY <1>1
  <2>2. QED
    BY <2>1, <1>1 DEF Placed, PlainInOnePlace
<1>4. FreshNowhere'
  BY <1>1, <1>2 DEF Placed, FreshNowhere
<1>5. PlainInOnePlace'
  <2>1. ASSUME NEW i \in DOMAIN queue', NEW j \in DOMAIN queue',
               queue'[i] = queue'[j], kind'[queue'[i]] \in PlainKinds
        PROVE  i = j
    <3>1. /\ i + 1 \in DOMAIN queue /\ j + 1 \in DOMAIN queue
          /\ queue[i + 1] = queue[j + 1] /\ kind[queue[i + 1]] \in PlainKinds
      BY <1>1, <2>1
    <3>2. i + 1 = j + 1
      BY <3>1 DEF Placed, PlainInOnePlace
    <3>3. QED
      BY <1>1, <3>2
  <2>2. ASSUME NEW q \in Req, Queued(q)', kind'[q] \in PlainKinds
        PROVE  rst'[q] = "live" /\ ~inflight'[q]
    BY <1>2, <1>3, <2>2 DEF Placed, PlainInOnePlace
  <2>3. ASSUME NEW q \in Req, inflight'[q], kind'[q] \in PlainKinds PROVE rst'[q] = "live"
    BY <2>3 DEF Placed, PlainInOnePlace
  <2>4. QED
    BY <2>1, <2>2, <2>3 DEF PlainInOnePlace
<1>7. QED
  BY <1>4, <1>5 DEF Placed

\* Every step keeps plain requests in one place.
LEMMA PlacedStep == TypeOK /\ Owned /\ Placed /\ [Next]_vars => Placed'
<1> SUFFICES ASSUME TypeOK, Owned, Placed, [Next]_vars PROVE Placed'
  OBVIOUS
<1> USE DEF ctxVars, reqVars, loopVars
<1>1. CASE Start
  BY <1>1, PlacedStays DEF Start
<1>2. CASE Stop
  <2> DEFINE R == {r \in Req : Queued(r)}
             C == StopTargets(Orphans(R))
  <2>1. CASE \E c \in C : Fault("double_close", c)
    BY <2>1, PlacedFault
  <2>2. CASE \E r \in R : Fault("use_after_free", r)
    BY <2>2, PlacedFault
  <2>3. CASE /\ FreeReqs(R) /\ queue' = <<>>
             /\ UNCHANGED <<kind, inflight, faultVars>>
    <3>1. \A q \in Req : ~Queued(q)'
      BY <2>3 DEF Queued
    <3>2. \A q \in Req : rst'[q] = IF q \in R THEN "freed" ELSE rst[q]
      BY <2>3 DEF FreeReqs
    <3>3. FreshNowhere'
      BY <2>3, <3>1, <3>2 DEF Placed, FreshNowhere
    <3>4. PlainInOnePlace'
      BY <2>3, <3>1, <3>2 DEF Placed, PlainInOnePlace
    <3> QED BY <3>3, <3>4 DEF Placed
  <2> QED BY <1>2, <2>1, <2>2, <2>3 DEF Stop, Flush
<1>3. ASSUME NEW c \in Ctx, OnConnection(c) PROVE Placed'
  BY <1>3, PlacedStays DEF OnConnection
<1>4. CASE Read
  <2>1. ASSUME NEW c \in Ctx, NEW r \in Req, NEW k \in Kinds, OnReadUpgrade(c, r, k) PROVE Placed'
    <3>1. /\ rst[r] = "none" /\ ~Queued(r) /\ ~inflight[r]
          /\ UNCHANGED <<inflight, queue, faultVars>> /\ fault = "none"
          /\ \A q \in Req \ {r} : rst'[q] = rst[q] /\ kind'[q] = kind[q]
      BY <2>1 DEF OnReadUpgrade, Readable, NewReq, Placed, FreshNowhere, TypeOK, ReqType
    <3>2. \A q \in Req : Queued(q)' <=> Queued(q)
      BY <3>1 DEF Queued
    <3>3. \A i \in DOMAIN queue : queue[i] \in Req \ {r}
      BY <3>1 DEF Queued, TypeOK, LoopType
    <3>4. FreshNowhere'
      BY <3>1, <3>2 DEF Placed, FreshNowhere
    <3>5. PlainInOnePlace'
      BY <3>1, <3>2, <3>3 DEF Placed, PlainInOnePlace
    <3> QED BY <3>4, <3>5 DEF Placed
  <2>2. ASSUME NEW c \in Ctx, NEW r \in Req, NEW k \in Kinds, OnReadHttp(c, r, k)
        PROVE  Placed'
    <3>1. NewReq(c, r, k) /\ Enqueue(r) /\ fault = "none" /\ UNCHANGED faultVars
      BY <2>2 DEF OnReadHttp, Readable
    <3>2. /\ rst'[r] = "live" /\ ~Queued(r) /\ ~inflight'[r]
          /\ \A q \in Req \ {r} : rst'[q] = rst[q] /\ kind'[q] = kind[q] /\ inflight'[q] = inflight[q]
      BY <3>1 DEF NewReq, Placed, FreshNowhere, TypeOK, ReqType
    <3>3. kind' \in [Req -> RequestKinds]
      BY <3>1, ConstantsAssumption DEF NewReq, TypeOK, ReqType
    <3> QED BY <3>1, <3>2, <3>3, PlacedAppend
  <2>3. ASSUME NEW c \in Ctx, NEW t \in {"text", "other"}, OnReadFrame(c, t)
        PROVE  Placed'
    <3> DEFINE r == wsReq[c]
    <3>1. r \in Req /\ rst[r] = "live" /\ kind[r] \in SocketKinds /\ fault = "none"
      BY <2>3 DEF OnReadFrame, Readable, Owned, WsReqOwned, TypeOK, CtxType
    <3>2. CASE Fault("buffer_reused", r)
      BY <3>1, <3>2, PlacedFault
    <3>3. CASE ~Fault("buffer_reused", r)
      <4>1. Enqueue(r) /\ UNCHANGED <<rst, kind, inflight, faultVars>>
        BY <2>3, <3>3 DEF OnReadFrame
      <4> HIDE DEF r
      <4> QED BY <3>1, <4>1, PlacedAppend DEF TypeOK, ReqType
    <3> QED BY <3>2, <3>3
  <2>4. ASSUME NEW c \in Ctx, OnReadClose(c) PROVE Placed'
    BY <2>4, PlacedStays DEF OnReadClose
  <2>5. ASSUME NEW c \in Ctx, OnReadEof(c) PROVE Placed'
    BY <2>5, PlacedStays DEF OnReadEof
  <2> QED BY <1>4, <2>1, <2>2, <2>3, <2>4, <2>5 DEF Read
<1>5. ASSUME NEW c \in Ctx, OnCloseWritten(c) PROVE Placed'
  BY <1>5, PlacedStays, PlacedFault DEF OnCloseWritten
<1>6. ASSUME NEW r \in Req, OnWrite(r) PROVE Placed'
  <2>1. inflight[r] /\ fault = "none"
    BY <1>6 DEF OnWrite
  <2>2. kind[r] \in PlainKinds => rst[r] = "live" /\ ~Queued(r)
    BY <2>1 DEF Placed, PlainInOnePlace
  <2>3. CASE rst[r] = "freed" /\ Fault("use_after_free", r)
    BY <2>2, <2>3, PlacedFault
  <2>4. CASE rst[r] = "live"
    <3>1. inflight' = [inflight EXCEPT ![r] = FALSE] /\ UNCHANGED <<kind, faultVars>>
      BY <1>6, <2>4 DEF OnWrite
    <3>2. ~inflight'[r] /\ \A q \in Req \ {r} : inflight'[q] = inflight[q]
      BY <3>1 DEF TypeOK, ReqType
    <3>3. CASE Enqueue(r) /\ rst' = rst
      BY <2>1, <2>2, <2>4, <3>1, <3>2, <3>3, PlacedAppend DEF TypeOK, ReqType
    <3>4. CASE FreeReqs({r}) /\ queue' = queue
      BY <2>1, <2>2, <3>1, <3>2, <3>4, PlacedFree DEF TypeOK, ReqType
    <3>5. CASE UNCHANGED <<rst, queue>>
      <4>1. \A q \in Req : Queued(q)' <=> Queued(q)
        BY <3>5 DEF Queued
      <4>2. FreshNowhere'
        BY <2>1, <3>1, <3>2, <3>5, <4>1 DEF Placed, FreshNowhere
      <4>3. PlainInOnePlace'
        BY <3>1, <3>2, <3>5, <4>1 DEF Placed, PlainInOnePlace
      <4> QED BY <4>2, <4>3 DEF Placed
    <3> QED BY <1>6, <2>4, <3>3, <3>4, <3>5 DEF OnWrite
  <2> QED BY <1>6, <2>3, <2>4 DEF OnWrite
<1>7. CASE OnSend
  <2> DEFINE r == Head(queue)
  <2>1. fault = "none"
    BY <1>7 DEF OnSend
  <2>2. CASE queue = <<>>
    BY <1>7, <2>2, PlacedStays DEF OnSend
  <2>3. CASE queue # <<>>
    <3>1. r \in Req /\ Queued(r)
      <4>1. 1 \in DOMAIN queue /\ r = queue[1] /\ queue[1] \in Req
        BY <2>3 DEF TypeOK, LoopType
      <4> QED BY <4>1 DEF Queued
    <3>2. rst[r] = "freed" \/ inflight[r] => kind[r] \in SocketKinds
      BY <3>1 DEF Placed, PlainInOnePlace, TypeOK, ReqType
    <3>3. CASE rst[r] = "freed" /\ Fault("use_after_free", r)
      BY <3>1, <3>2, <3>3, PlacedFault
    <3>4. CASE inflight[r] /\ Fault("double_write", r)
      BY <3>1, <3>2, <3>4, PlacedFault
    <3>5. CASE rst[r] = "live" /\ ~Fault("double_write", r)
      <4>1. /\ rst[r] = "live" /\ queue' = Tail(queue) /\ UNCHANGED <<kind, faultVars>>
            /\ \/ FreeReqs({r}) /\ UNCHANGED inflight
               \/ rst' = rst /\ inflight' = [inflight EXCEPT ![r] = TRUE]
               \/ UNCHANGED <<rst, inflight>>
        BY <1>7, <2>3, <3>5 DEF OnSend, Dequeue
      <4> HIDE DEF r
      <4>2. CASE FreeReqs({r}) /\ UNCHANGED inflight /\ kind[r] \in PlainKinds
        <5>1. rst' = [q \in Req |-> IF q \in {r} THEN "freed" ELSE rst[q]] /\ ~inflight[r]
          BY <3>1, <4>2 DEF FreeReqs, Placed, PlainInOnePlace
        <5> QED BY <2>1, <2>3, <3>1, <4>1, <4>2, <5>1, PlacedPop DEF r
      <4>3. CASE FreeReqs({r}) /\ UNCHANGED inflight /\ kind[r] \in SocketKinds
        <5>1. rst' = [q \in Req |-> IF q \in {r} THEN "freed" ELSE rst[q]]
          BY <4>3 DEF FreeReqs
        <5> QED BY <2>1, <2>3, <3>1, <4>1, <4>3, <5>1, PlacedPop DEF r
      <4>4. CASE rst' = rst /\ inflight' = [inflight EXCEPT ![r] = TRUE]
        BY <2>1, <2>3, <3>1, <4>1, <4>4, PlacedPop DEF r, TypeOK, ReqType
      <4>5. CASE UNCHANGED <<rst, inflight>>
        BY <2>1, <2>3, <3>1, <4>1, <4>5, PlacedPop DEF r, Placed, PlainInOnePlace
      <4>6. kind[r] \in RequestKinds
        BY <3>1 DEF TypeOK, ReqType
      <4> QED BY <4>1, <4>2, <4>3, <4>4, <4>5, <4>6
    <3>6. Fault("double_write", r) => inflight[r]
      BY <1>7, <2>3 DEF OnSend, Fault, faultVars
    <3>7. \/ rst[r] = "freed" /\ Fault("use_after_free", r)
          \/ rst[r] = "live"
      BY <1>7, <2>3 DEF OnSend
    <3> QED BY <3>3, <3>4, <3>5, <3>6, <3>7
  <2> QED BY <2>2, <2>3
<1>8. CASE CheckTimeout
  BY <1>8, PlacedStays, PlacedFault DEF CheckTimeout, CloseClients
<1>9. CASE OnServerClosed
  BY <1>9, PlacedStays DEF OnServerClosed
<1>10. ASSUME NEW c \in Ctx, OnClose(c) PROVE Placed'
  <2> DEFINE R == IF wsReq[c] = None THEN {} ELSE {wsReq[c]}
  <2>1. R \in SUBSET Req /\ \A r \in R : kind[r] \in SocketKinds
    BY DEF TypeOK, CtxType, Owned, WsReqOwned
  <2>2. /\ FreeReqs(R) /\ UNCHANGED <<kind, inflight, queue, faultVars>>
        /\ fault = "none"
    BY <1>10 DEF OnClose
  <2> QED BY <2>1, <2>2, PlacedFree
<1>11. CASE NextPhase
  BY <1>11, PlacedStays DEF NextPhase
<1>12. CASE Halted \/ UNCHANGED vars
  BY <1>12, PlacedStays DEF Halted, vars
<1> QED
  BY <1>1, <1>2, <1>3, <1>4, <1>5, <1>6, <1>7, <1>8, <1>9, <1>10, <1>11, <1>12
     DEF Next, Written, Timers, Closed

\* No request has been made at first.
LEMMA PlacedInit == Init => Placed
BY DEF Init, Placed, FreshNowhere, PlainInOnePlace, Queued

\* The answer to a plain request, single or repeating, waits in the queue or in
\* the socket, never in both or twice, and its request lives as long.
THEOREM PlainRequestsInOnePlace == Spec => []PlainInOnePlace
<1>1. Spec => []Placed
  BY PlacedInit, PlacedStep, OwnedInit, OwnedStep, TypeCorrect, PTL DEF Spec
<1>2. Placed => PlainInOnePlace
  BY DEF Placed
<1>3. QED
  BY <1>1, <1>2, PTL

-----------------------------------------------------------------------------
(* The table of requests the frame pipeline writes to. *)

Watched == RegistryLive /\ RunningWhileWatched

\* A step that leaves requests and the registry alone and does not stop the stream.
LEMMA WatchedStays ==
  ASSUME Watched, UNCHANGED <<rst, kind, registry>>, running => running'
  PROVE  Watched'
BY DEF Watched, RegistryLive, RunningWhileWatched

\* requestStart: the first watcher starts the pipeline.
LEMMA WatchedStart ==
  ASSUME TypeOK, Watched, NEW c \in Ctx, NEW r \in Req, NEW k,
         NewReq(c, r, k), RequestStart(c, r, k)
  PROVE  Watched'
<1>1. r \notin registry
  BY DEF NewReq, Watched, RegistryLive
<1>2. rst'[r] = "live" /\ kind'[r] = k
      /\ \A q \in Req \ {r} : rst'[q] = rst[q] /\ kind'[q] = kind[q]
  BY DEF NewReq, TypeOK, ReqType
<1>3. registry \subseteq Req
  BY DEF TypeOK, StreamType
<1>4. registry' \subseteq registry \cup {r} /\ (k \notin WatchKinds => registry' = registry)
  BY DEF RequestStart
<1>5. RegistryLive'
  BY <1>1, <1>2, <1>3, <1>4 DEF Watched, RegistryLive
<1>6. RunningWhileWatched'
  <2> SUFFICES ASSUME registry' # {} PROVE running'
    BY DEF RunningWhileWatched
  <2>1. CASE registry # {}
    BY <2>1 DEF RequestStart, Watched, RunningWhileWatched
  <2>2. CASE registry = {}
    <3>1. k \in WatchKinds /\ registry' = {r}
      BY <2>2 DEF RequestStart
    <3>2. Cardinality(registry') = 1
      BY <3>1, FS_Singleton
    <3>3. QED
      BY <3>1, <3>2 DEF RequestStart
  <2>3. QED
    BY <2>1, <2>2
<1>7. QED
  BY <1>5, <1>6 DEF Watched

\* requestEnd: a released request leaves the table with its key.
LEMMA WatchedEnd ==
  ASSUME TypeOK, Watched, NEW R \in SUBSET Req, FreeReqs(R), RequestEnd(R), UNCHANGED kind
  PROVE  Watched'
<1>1. registry' \subseteq registry
  BY DEF RequestEnd
<1>2. \A q \in registry' : q \notin R
  BY <1>1 DEF RequestEnd, SameKey, Watched, RegistryLive
<1>3. RegistryLive'
  BY <1>1, <1>2 DEF Watched, RegistryLive, FreeReqs, TypeOK, StreamType
<1>4. RunningWhileWatched'
  <2>1. registry' # {} => running
    BY <1>1 DEF Watched, RunningWhileWatched
  <2>2. QED
    BY <2>1 DEF RequestEnd, RunningWhileWatched
<1>5. QED
  BY <1>3, <1>4 DEF Watched

\* Every step keeps the table live and served.
LEMMA WatchedStep == TypeOK /\ Watched /\ [Next]_vars => Watched'
<1> SUFFICES ASSUME TypeOK, Watched, [Next]_vars PROVE Watched'
  OBVIOUS
<1> USE DEF reqVars, streamVars
<1>0. ASSUME NEW f, NEW v, Fault(f, v) PROVE Watched'
  BY <1>0, WatchedStays DEF Fault
<1>1. CASE Start
  BY <1>1, WatchedStays DEF Start
<1>2. CASE Stop
  <2>1. CASE \E f, v : Fault(f, v)
    BY <2>1, <1>0
  <2>2. CASE ~\E f, v : Fault(f, v)
    <3>1. registry' = {}
      BY <1>2, <2>2 DEF Stop, Flush
    <3> QED BY <3>1 DEF Watched, RegistryLive, RunningWhileWatched
  <2> QED BY <2>1, <2>2
<1>3. ASSUME NEW c \in Ctx, OnConnection(c) PROVE Watched'
  BY <1>3, WatchedStays DEF OnConnection
<1>4. CASE Read
  <2>1. ASSUME NEW c \in Ctx, NEW r \in Req, NEW k \in Kinds, OnReadUpgrade(c, r, k) PROVE Watched'
    BY <2>1, WatchedStart DEF OnReadUpgrade
  <2>2. ASSUME NEW c \in Ctx, NEW r \in Req, NEW k \in Kinds, OnReadHttp(c, r, k)
        PROVE  Watched'
    BY <2>2, WatchedStart DEF OnReadHttp
  <2>3. ASSUME NEW c \in Ctx, NEW t \in {"text", "other"}, OnReadFrame(c, t)
        PROVE  Watched'
    BY <2>3, <1>0, WatchedStays DEF OnReadFrame
  <2>4. ASSUME NEW c \in Ctx, OnReadClose(c) PROVE Watched'
    BY <2>4, WatchedStays DEF OnReadClose
  <2>5. ASSUME NEW c \in Ctx, OnReadEof(c) PROVE Watched'
    BY <2>5, WatchedStays DEF OnReadEof
  <2> QED BY <1>4, <2>1, <2>2, <2>3, <2>4, <2>5 DEF Read
<1>5. ASSUME NEW c \in Ctx, OnCloseWritten(c) PROVE Watched'
  BY <1>5, <1>0, WatchedStays DEF OnCloseWritten
<1>6. ASSUME NEW r \in Req, OnWrite(r) PROVE Watched'
  <2>1. \/ Fault("use_after_free", r)
        \/ FreeReqs({r}) /\ RequestEnd({r}) /\ UNCHANGED kind
        \/ UNCHANGED <<rst, kind, registry, running>>
    BY <1>6 DEF OnWrite, ctxVars
  <2> QED BY <2>1, <1>0, WatchedStays, WatchedEnd
<1>7. CASE OnSend
  <2> DEFINE r == Head(queue)
  <2>1. \/ \E f, v : Fault(f, v)
        \/ r \in Req /\ FreeReqs({r}) /\ RequestEnd({r}) /\ UNCHANGED kind
        \/ UNCHANGED <<rst, kind, registry, running>>
    <3>1. queue # <<>> => r \in Req
      BY DEF TypeOK, LoopType
    <3> HIDE DEF r
    <3> QED BY <1>7, <3>1 DEF OnSend, r
  <2> HIDE DEF r
  <2>2. QED
    BY <2>1, <1>0, WatchedStays, WatchedEnd
<1>8. CASE CheckTimeout
  BY <1>8, <1>0, WatchedStays DEF CheckTimeout, CloseClients
<1>9. CASE OnServerClosed
  BY <1>9, WatchedStays DEF OnServerClosed
<1>10. ASSUME NEW c \in Ctx, OnClose(c) PROVE Watched'
  <2> DEFINE R == IF wsReq[c] = None THEN {} ELSE {wsReq[c]}
  <2>1. R \in SUBSET Req
    BY DEF TypeOK, CtxType
  <2>2. FreeReqs(R) /\ RequestEnd(R) /\ UNCHANGED kind
    BY <1>10 DEF OnClose
  <2> QED BY <2>1, <2>2, WatchedEnd
<1>11. CASE NextPhase
  BY <1>11, WatchedStays DEF NextPhase
<1>12. CASE Halted \/ UNCHANGED vars
  BY <1>12, WatchedStays DEF Halted, vars
<1> QED
  BY <1>1, <1>2, <1>3, <1>4, <1>5, <1>6, <1>7, <1>8, <1>9, <1>10, <1>11, <1>12
     DEF Next, Written, Timers, Closed

\* Nobody watches at first.
LEMMA WatchedInit == Init => Watched
BY DEF Init, Watched, RegistryLive, RunningWhileWatched

\* Stream::_reqs never holds a response that was deleted: sendFrame, on the same
\* thread, writes to live responses only.
THEOREM RegistryIsLive == Spec => []RegistryLive
<1>1. Spec => []Watched
  BY WatchedInit, WatchedStep, TypeCorrect, PTL DEF Spec
<1>2. Watched => RegistryLive
  BY DEF Watched
<1>3. QED
  BY <1>1, <1>2, PTL

\* As long as a request watches the screen, Stream::_running is set.
THEOREM RunsWhileWatched == Spec => []RunningWhileWatched
<1>1. Spec => []Watched
  BY WatchedInit, WatchedStep, TypeCorrect, PTL DEF Spec
<1>2. Watched => RunningWhileWatched
  BY DEF Watched
<1>3. QED
  BY <1>1, <1>2, PTL
-----------------------------------------------------------------------------
(* The queue. *)

QueuedOnce == \A i, j \in DOMAIN queue : queue[i] = queue[j] => i = j

\* enqueueWriteRequest puts a request behind the others.
LEMMA QueueAppend ==
  ASSUME TypeOK, NEW r \in Req, Enqueue(r)
  PROVE  /\ \A q \in Req : Queued(q)' <=> Queued(q) \/ q = r
         /\ QueuedOnce /\ ~Queued(r) => QueuedOnce'
<1>1. queue \in Seq(Req) /\ queue' = Append(queue, r)
  BY DEF TypeOK, LoopType, Enqueue
<1>2. /\ Len(queue) \in Nat /\ Len(queue') = Len(queue) + 1 /\ queue'[Len(queue) + 1] = r
      /\ \A i \in 1 .. Len(queue) : queue'[i] = queue[i]
      /\ DOMAIN queue = 1 .. Len(queue) /\ DOMAIN queue' = 1 .. Len(queue) + 1
  BY <1>1
<1>3. \A i \in DOMAIN queue' : i \in DOMAIN queue \/ i = Len(queue) + 1
  BY <1>2
<1>4. \A q \in Req : Queued(q)' <=> Queued(q) \/ q = r
  BY <1>2, <1>3 DEF Queued
<1>5. ASSUME QueuedOnce, ~Queued(r) PROVE QueuedOnce'
  BY <1>2, <1>3, <1>5 DEF Queued, QueuedOnce
<1>6. QED
  BY <1>4, <1>5

\* on_send takes the first request, which then waits no more.
LEMMA QueuePop ==
  ASSUME TypeOK, queue # <<>>, Dequeue
  PROVE  /\ Head(queue) \in Req /\ Queued(Head(queue))
         /\ \A q \in Req : (Queued(q)' => Queued(q)) /\ (Queued(q) /\ q # Head(queue) => Queued(q)')
         /\ QueuedOnce => QueuedOnce' /\ \A q \in Req : Queued(q)' => q # Head(queue)
<1>1. /\ queue \in Seq(Req) /\ Len(queue) \in Nat \ {0} /\ Head(queue) = queue[1]
      /\ queue[1] \in Req
      /\ DOMAIN queue = 1 .. Len(queue) /\ DOMAIN queue' = 1 .. Len(queue) - 1
      /\ \A i \in 1 .. Len(queue) - 1 : queue'[i] = queue[i + 1]
  BY DEF TypeOK, LoopType, Dequeue
<1>2. 1 \in DOMAIN queue /\ \A i \in DOMAIN queue' : i + 1 \in DOMAIN queue
  BY <1>1
<1>3. Head(queue) \in Req /\ Queued(Head(queue))
  BY <1>1, <1>2 DEF Queued
<1>4. \A q \in Req : Queued(q)' => Queued(q)
  BY <1>1, <1>2 DEF Queued
<1>5. ASSUME NEW q \in Req, Queued(q), q # Head(queue) PROVE Queued(q)'
  <2>1. PICK i \in DOMAIN queue : queue[i] = q
    BY <1>5 DEF Queued
  <2>2. i - 1 \in DOMAIN queue' /\ queue'[i - 1] = q
    BY <1>1, <1>5, <2>1
  <2>3. QED
    BY <2>2 DEF Queued
<1>6. ASSUME QueuedOnce PROVE QueuedOnce' /\ \A q \in Req : Queued(q)' => q # Head(queue)
  <2>1. QueuedOnce'
    <3> SUFFICES ASSUME NEW i \in DOMAIN queue', NEW j \in DOMAIN queue', queue'[i] = queue'[j]
                 PROVE  i = j
      BY DEF QueuedOnce
    <3>1. i + 1 = j + 1
      BY <1>1, <1>2, <1>6 DEF QueuedOnce
    <3> QED BY <1>1, <3>1
  <2>2. ASSUME NEW i \in DOMAIN queue' PROVE queue'[i] # Head(queue)
    <3>1. i + 1 \in DOMAIN queue /\ i + 1 # 1 /\ queue'[i] = queue[i + 1]
      BY <1>1, <1>2
    <3> QED BY <1>1, <1>2, <1>6, <3>1 DEF QueuedOnce
  <2> QED BY <2>1, <2>2 DEF Queued
<1>7. QED
  BY <1>3, <1>4, <1>5, <1>6

\* A queue that is left alone.
LEMMA QueueStays ==
  ASSUME queue' = queue
  PROVE  (\A q \in Req : Queued(q)' <=> Queued(q)) /\ (QueuedOnce' <=> QueuedOnce)
BY DEF Queued, QueuedOnce

\* An empty one.
LEMMA QueueEmpty ==
  ASSUME queue = <<>>
  PROVE  (\A q \in Req : ~Queued(q)) /\ QueuedOnce
BY DEF Queued, QueuedOnce

\* A request that is queued once is found at one place.
LEMMA OnePlace ==
  ASSUME QueuedOnce, NEW r, Queued(r)
  PROVE  Cardinality({i \in DOMAIN queue : queue[i] = r}) = 1
<1> DEFINE I == {i \in DOMAIN queue : queue[i] = r}
<1>1. PICK i \in I : TRUE
  BY DEF Queued
<1>2. I = {i}
  BY DEF QueuedOnce
<1>3. QED
  BY <1>2, FS_Singleton

\* release_http_write_req: what is left of the requests and of the contexts.
LEMMA Released ==
  ASSUME TypeOK, NEW R \in SUBSET Req, FreeReqs(R)
  PROVE  /\ \A q \in Req : rst'[q] = IF q \in R THEN "freed" ELSE rst[q]
         /\ \A c \in Ctx : /\ wsReq'[c] \in {None, wsReq[c]}
                           /\ wsReq'[c] = None <=> wsReq[c] = None \/ \E r \in R : rctx[r] = c
BY DEF FreeReqs, TypeOK, CtxType

-----------------------------------------------------------------------------
(* Peers that wait for their answers, and one thing at a time that closes    *)
(* connections: the keepalive check closes those of viewers, who send TEXT   *)
(* only, and stop closes all of them.                                        *)

Peaceful ==
    /\ Env \cap {"abort", "burst"} = {}
    /\ "timeout" \in Env => Env \cap {"close", "binary", "stop"} = {}
    /\ "stop" \in Env => Env \cap {"eof", "close", "timeout", "refuse"} = {}

\* Also the request of a WebSocket waits in one place, and is alive there.
InPlace ==
    \A r \in Req : /\ Queued(r) => rst[r] = "live" /\ ~inflight[r]
                   /\ inflight[r] => rst[r] = "live"

\* A connection that is being closed has no answer to a frame in the queue.
ClosedQuietly == \A c \in Ctx : cst[c] = "closing" /\ wsReq[c] # None => ~Queued(wsReq[c])

\* A close frame is under way alone, on a connection that nothing else closes.
CloseAlone ==
    \A c \in Ctx : closeWrites[c] > 0 =>
        /\ cst[c] = "open" /\ closeWrites[c] = 1 /\ "close" \in Env
        /\ wsReq[c] # None => ~Queued(wsReq[c]) /\ ~inflight[wsReq[c]]

\* Whoever closes all of clients finds none in it that is being closed.
Unlisted ==
    \A c \in Ctx : cst[c] = "closing" /\ (phase = "timers" \/ "stop" \in Env) => c \notin clients

\* Where there is a keepalive check, what waits answers a TEXT.
TextWaits ==
    "timeout" \in Env => \A r \in Req : Queued(r) /\ kind[r] \in SocketKinds => wsType[r] = "text"

Sound == NoFault /\ QueuedOnce /\ InPlace /\ ClosedQuietly /\ CloseAlone /\ Unlisted /\ TextWaits

\* A context that has not been made has no request, nor has one that was deleted.
LEMMA NoWsReq ==
  ASSUME TypeOK, Owned, NEW c \in Ctx, ~Alive(c)
  PROVE  wsReq[c] = None
BY DEF TypeOK, CtxType, Owned, WsReqOwned, ContextOutlivesRequests

\* A step that leaves requests and the queue alone.
LEMMA SoundIfRequestsStay ==
  ASSUME Sound, UNCHANGED <<rst, kind, inflight, wsType, wsReq, queue, faultVars>>,
         ClosedQuietly', CloseAlone', Unlisted'
  PROVE  Sound'
<1>1. (\A q \in Req : Queued(q)' <=> Queued(q)) /\ QueuedOnce'
  BY QueueStays DEF Sound
<1>2. NoFault' /\ InPlace' /\ TextWaits'
  BY <1>1 DEF Sound, NoFault, InPlace, TextWaits, faultVars
<1>3. QED
  BY <1>1, <1>2 DEF Sound

\* The keepalive check, where there is one (and then no stop, so that ids do not
\* start again), finds connections of /stream by its ids and no others.
Told ==
    "timeout" \in Env =>
        /\ \A c \in Ctx : cst[c] # "none" => id[c] <= counter
        /\ \A c, d \in Ctx : cst[c] # "none" /\ cst[d] # "none" /\ id[c] = id[d] => c = d
        /\ \A k \in tracked : k <= counter
        /\ \A c \in Ctx : cst[c] # "none" /\ id[c] \in tracked =>
               wsReq[c] # None /\ kind[wsReq[c]] = "stream"
        /\ \A c \in Ctx : cst[c] = "closed" => wsReq[c] = None

\* A step that leaves ids and requests alone.
LEMMA ToldStays ==
  ASSUME Told, UNCHANGED <<id, counter, wsReq, kind>>, tracked' \subseteq tracked,
         \A c \in Ctx : (cst'[c] = "none" <=> cst[c] = "none") /\ (cst'[c] = "closed" => cst[c] = "closed")
  PROVE  Told'
BY DEF Told

\* new_http_write_req, with its entry in the keepalive table.
LEMMA ToldNew ==
  ASSUME TypeOK, Owned, Told, NEW c \in Ctx, NEW r \in Req, NEW k,
         NewReq(c, r, k), RequestStart(c, r, k), UNCHANGED <<cst, id, counter>>,
         cst[c] = "open", wsReq[c] = None,
         \/ k \in PlainKinds /\ wsReq' = wsReq
         \/ k \in SocketKinds /\ wsReq' = [wsReq EXCEPT ![c] = r]
  PROVE  Told'
<1> SUFFICES ASSUME "timeout" \in Env PROVE Told'
  BY DEF Told
<1>1. rst[r] = "none" /\ kind'[r] = k /\ \A q \in Req \ {r} : kind'[q] = kind[q]
  BY DEF NewReq, TypeOK, ReqType
<1>2. \A d \in Ctx \ {c} : wsReq'[d] = wsReq[d]
  BY DEF TypeOK, CtxType
<1>3. ASSUME NEW d \in Ctx \ {c}, wsReq[d] # None PROVE wsReq[d] \in Req \ {r}
  BY <1>1, <1>3 DEF Owned, WsReqOwned, TypeOK, CtxType
<1>4. /\ k = "stream" => tracked' = tracked \cup {id[c]} /\ wsReq'[c] = r
      /\ k # "stream" => tracked' = tracked
  BY DEF RequestStart, TypeOK, CtxType
<1>5. id[c] \notin tracked
  BY DEF Told
<1>6. ASSUME NEW d \in Ctx, cst[d] # "none", id[d] \in tracked'
      PROVE  wsReq'[d] # None /\ kind'[wsReq'[d]] = "stream"
  <2>1. CASE d = c
    BY <1>1, <1>4, <1>5, <1>6, <2>1, ConstantsAssumption
  <2>2. CASE d # c
    <3>1. id[d] \in tracked
      BY <1>4, <1>6, <2>2 DEF Told
    <3> QED BY <1>1, <1>2, <1>3, <1>6, <2>2, <3>1 DEF Told
  <2> QED BY <2>1, <2>2
<1>7. \A x \in tracked' : x <= counter
  BY <1>4 DEF Told
<1>8. \A d \in Ctx : cst[d] = "closed" => wsReq'[d] = None
  BY <1>2 DEF Told
<1> QED BY <1>6, <1>7, <1>8 DEF Told

\* release_http_write_req takes a viewer out of the keepalive table.
LEMMA ToldFree ==
  ASSUME TypeOK, Owned, Told, NEW R \in SUBSET Req, FreeReqs(R), RequestEnd(R),
         UNCHANGED <<id, counter, kind>>,
         \A c \in Ctx : wsReq[c] # None /\ wsReq[c] \notin R => \A r \in R : rctx[r] # c,
         \A c \in Ctx : /\ cst'[c] = "none" <=> cst[c] = "none"
                        /\ cst'[c] = "closed" => cst[c] = "closed" \/ wsReq'[c] = None
  PROVE  Told'
<1> SUFFICES ASSUME "timeout" \in Env PROVE Told'
  BY DEF Told
<1>1. tracked' \subseteq tracked
  BY DEF RequestEnd
<1>2. \A c \in Ctx : /\ wsReq'[c] \in {None, wsReq[c]}
                     /\ wsReq'[c] = None <=> wsReq[c] = None \/ \E r \in R : rctx[r] = c
  BY Released
<1>3. ASSUME NEW c \in Ctx, cst[c] # "none", id[c] \in tracked'
      PROVE  wsReq'[c] # None /\ kind[wsReq'[c]] = "stream"
  <2>1. wsReq[c] # None /\ kind[wsReq[c]] = "stream"
    BY <1>1, <1>3 DEF Told
  <2>2. rctx[wsReq[c]] = c
    BY <2>1 DEF Owned, WsReqOwned
  <2>3. wsReq[c] \notin R
    BY <1>3, <2>1, <2>2 DEF RequestEnd
  <2> QED BY <1>2, <2>1, <2>3
<1>4. \A c \in Ctx : cst'[c] = "closed" => wsReq'[c] = None
  BY <1>2 DEF Told
<1> QED BY <1>1, <1>3, <1>4 DEF Told

\* Where only viewers fall silent every step keeps the ids apart.
LEMMA ToldStep ==
  ASSUME Peaceful, TypeOK, Owned, Told, [Next]_vars
  PROVE  Told'
<1> USE DEF ctxVars, reqVars, loopVars, streamVars
<1>0. ASSUME NEW f, NEW v, Fault(f, v) PROVE Told'
  BY <1>0, ToldStays DEF Fault
<1>1. CASE Start
  BY <1>1, ToldStays DEF Start
<1>2. CASE Stop
  BY <1>2 DEF Stop, Peaceful, Told
<1>3. ASSUME NEW c \in Ctx, OnConnection(c) PROVE Told'
  <2> SUFFICES ASSUME "timeout" \in Env PROVE Told'
    BY DEF Told
  <2>1. /\ cst[c] = "none" /\ counter' = counter + 1 /\ id'[c] = counter + 1
        /\ \A d \in Ctx \ {c} : cst'[d] = cst[d] /\ id'[d] = id[d]
        /\ cst'[c] \in {"open", "closing", "freed"}
        /\ UNCHANGED <<wsReq, kind, tracked>>
    BY <1>3 DEF OnConnection, TypeOK, CtxType
  <2>2. counter \in Nat /\ (\A d \in Ctx : id[d] \in Nat) /\ tracked \subseteq Nat
    BY DEF TypeOK, LoopType, CtxType, StreamType
  <2>3. ASSUME NEW d \in Ctx, cst'[d] # "none" PROVE d = c \/ (cst[d] # "none" /\ id[d] <= counter)
    BY <2>1, <2>3 DEF Told
  <2>4. \A d \in Ctx : cst'[d] # "none" => id'[d] <= counter'
    BY <2>1, <2>2, <2>3
  <2>5. \A d, e \in Ctx : cst'[d] # "none" /\ cst'[e] # "none" /\ id'[d] = id'[e] => d = e
    <3> SUFFICES ASSUME NEW d \in Ctx, NEW e \in Ctx, cst'[d] # "none", cst'[e] # "none",
                        id'[d] = id'[e]
                 PROVE  d = e
      OBVIOUS
    <3>1. CASE d = c \/ e = c
      BY <2>1, <2>2, <2>3, <3>1
    <3>2. CASE d # c /\ e # c
      BY <2>1, <2>3, <3>2 DEF Told
    <3> QED BY <3>1, <3>2
  <2>6. \A k \in tracked : k <= counter
    BY DEF Told
  <2>7. \A k \in tracked' : k <= counter' /\ k # id'[c]
    BY <2>1, <2>2, <2>6
  <2>8. ASSUME NEW d \in Ctx, cst'[d] # "none", id'[d] \in tracked'
        PROVE  wsReq'[d] # None /\ kind'[wsReq'[d]] = "stream"
    BY <2>1, <2>7, <2>8 DEF Told
  <2>9. \A d \in Ctx : cst'[d] = "closed" => wsReq'[d] = None
    BY <2>1 DEF Told
  <2> QED BY <2>4, <2>5, <2>7, <2>8, <2>9 DEF Told
<1>4. CASE Read
  <2>1. ASSUME NEW c \in Ctx, NEW r \in Req, NEW k \in Kinds, OnReadUpgrade(c, r, k) PROVE Told'
    BY <2>1, ToldNew DEF OnReadUpgrade, Readable
  <2>2. ASSUME NEW c \in Ctx, NEW r \in Req, NEW k \in Kinds, OnReadHttp(c, r, k) PROVE Told'
    BY <2>2, ToldNew DEF OnReadHttp, Readable
  <2>3. ASSUME NEW c \in Ctx, NEW t \in {"text", "other"}, OnReadFrame(c, t) PROVE Told'
    BY <2>3, <1>0, ToldStays DEF OnReadFrame
  <2>4. ASSUME NEW c \in Ctx, OnReadClose(c) PROVE Told'
    BY <2>4, ToldStays DEF OnReadClose
  <2>5. ASSUME NEW c \in Ctx, OnReadEof(c) PROVE Told'
    <3>1. /\ UNCHANGED <<id, counter, wsReq, kind, tracked>>
          /\ cst[c] = "open" /\ cst' = [cst EXCEPT ![c] = "closing"]
      BY <2>5 DEF OnReadEof, Readable
    <3> QED BY <3>1, ToldStays DEF TypeOK, CtxType
  <2> QED BY <1>4, <2>1, <2>2, <2>3, <2>4, <2>5 DEF Read
<1>5. ASSUME NEW c \in Ctx, OnCloseWritten(c) PROVE Told'
  <2>1. CASE Fault("double_close", c)
    BY <2>1, <1>0
  <2>2. CASE ~Fault("double_close", c)
    <3>1. /\ UNCHANGED <<id, counter, wsReq, kind, tracked>>
          /\ cst[c] = "open" /\ cst' = [cst EXCEPT ![c] = "closing"]
      BY <1>5, <2>2 DEF OnCloseWritten
    <3> QED BY <3>1, ToldStays DEF TypeOK, CtxType
  <2> QED BY <2>1, <2>2
<1>6. ASSUME NEW r \in Req, OnWrite(r) PROVE Told'
  <2>1. CASE FreeReqs({r}) /\ RequestEnd({r}) /\ NotWs(r)
    <3>1. UNCHANGED <<cst, id, counter, kind>>
      BY <1>6, <2>1 DEF OnWrite, Fault
    <3>2. \A c \in Ctx : wsReq[c] # None => rctx[r] # c
      BY <2>1 DEF NotWs
    <3> QED BY <2>1, <3>1, <3>2, ToldFree
  <2>2. CASE \/ \E f, v : Fault(f, v)
            \/ UNCHANGED <<cst, id, counter, wsReq, kind, tracked>>
    BY <2>2, <1>0, ToldStays
  <2> QED BY <1>6, <2>1, <2>2 DEF OnWrite
<1>7. CASE OnSend
  <2> DEFINE r == Head(queue)
  <2>1. CASE \/ \E f, v : Fault(f, v)
            \/ UNCHANGED <<cst, id, counter, wsReq, kind, tracked>>
    BY <2>1, <1>0, ToldStays
  <2>2. CASE /\ queue # <<>> /\ cst[rctx[r]] = "closed" /\ FreeReqs({r}) /\ RequestEnd({r})
            /\ cst' = [d \in Ctx |-> IF d \in Orphans({r}) THEN "freed" ELSE cst[d]]
            /\ UNCHANGED <<id, counter, kind>>
    <3>1. r \in Req
      BY <2>2 DEF TypeOK, LoopType
    <3> SUFFICES ASSUME "timeout" \in Env PROVE Told'
      BY DEF Told
    <3>2. \A c \in Ctx : wsReq[c] # None => rctx[r] # c
      BY <2>2 DEF Told
    <3>3. \A c \in Ctx : /\ cst'[c] = "none" <=> cst[c] = "none"
                         /\ cst'[c] = "closed" => cst[c] = "closed"
      BY <2>2 DEF Orphans
    <3> HIDE DEF r
    <3> QED BY <2>2, <3>1, <3>2, <3>3, ToldFree
  <2> QED BY <1>7, <2>1, <2>2 DEF OnSend
<1>8. CASE CheckTimeout
  <2>1. CASE \E f, v : Fault(f, v)
    BY <2>1, <1>0
  <2>2. CASE ~\E f, v : Fault(f, v)
    <3>1. PICK K : LET C == {c \in clients : id[c] \in K}
             IN  /\ \A c \in C : cst[c] = "open"
                 /\ tracked' = tracked \ K /\ CloseClients(C)
                 /\ UNCHANGED <<id, wsReq, kind, counter>>
      BY <1>8, <2>2 DEF CheckTimeout
    <3>2. \A c \in Ctx : cst'[c] = cst[c] \/ (cst[c] = "open" /\ cst'[c] = "closing")
      BY <3>1 DEF CloseClients
    <3> QED BY <3>1, <3>2, ToldStays
  <2> QED BY <2>1, <2>2
<1>9. CASE OnServerClosed
  BY <1>9, ToldStays DEF OnServerClosed
<1>10. ASSUME NEW c \in Ctx, OnClose(c) PROVE Told'
  <2> DEFINE R == IF wsReq[c] = None THEN {} ELSE {wsReq[c]}
  <2>1. R \in SUBSET Req /\ \A r \in R : rctx[r] = c /\ r = wsReq[c]
    BY DEF TypeOK, CtxType, Owned, WsReqOwned
  <2>2. /\ FreeReqs(R) /\ RequestEnd(R) /\ UNCHANGED <<id, counter, kind>>
        /\ cst[c] = "closing" /\ cst'[c] \in {"freed", "closed"}
        /\ \A d \in Ctx \ {c} : cst'[d] = cst[d]
    BY <1>10 DEF OnClose, TypeOK, CtxType
  <2>3. wsReq[c] = None \/ wsReq[c] \in R
    OBVIOUS
  <2> HIDE DEF R
  <2>4. wsReq'[c] = None
    BY <2>1, <2>2, <2>3, Released
  <2>5. \A d \in Ctx : wsReq[d] # None /\ wsReq[d] \notin R => \A r \in R : rctx[r] # d
    BY <2>1, <2>3
  <2>6. \A d \in Ctx : /\ cst'[d] = "none" <=> cst[d] = "none"
                       /\ cst'[d] = "closed" => cst[d] = "closed" \/ wsReq'[d] = None
    BY <2>2, <2>4
  <2> QED BY <2>1, <2>2, <2>5, <2>6, ToldFree
<1>11. CASE NextPhase
  BY <1>11, ToldStays DEF NextPhase
<1>12. CASE Halted \/ UNCHANGED vars
  BY <1>12, ToldStays DEF Halted, vars
<1> QED
  BY <1>1, <1>2, <1>3, <1>4, <1>5, <1>6, <1>7, <1>8, <1>9, <1>10, <1>11, <1>12
     DEF Next, Written, Timers, Closed

\* With such peers every step keeps all that.
LEMMA SoundStep ==
  ASSUME Peaceful, TypeOK, Owned, Placed, Told, Sound, [Next]_vars
  PROVE  Sound'
<1> USE DEF ctxVars, reqVars, loopVars, faultVars
<1>1. CASE Start
  <2>1. /\ UNCHANGED <<rst, kind, inflight, wsType, wsReq, queue, faultVars>>
        /\ UNCHANGED <<cst, closeWrites, clients, phase>>
    BY <1>1 DEF Start
  <2>2. ClosedQuietly' /\ CloseAlone' /\ Unlisted'
    BY <2>1, QueueStays DEF Sound, ClosedQuietly, CloseAlone, Unlisted, TypeOK, CtxType
  <2> QED BY <2>1, <2>2, SoundIfRequestsStay
<1>2. CASE Stop
  <2> DEFINE R == {r \in Req : Queued(r)}
             C == StopTargets(Orphans(R))
  <2>0. "stop" \in Env
    BY <1>2 DEF Stop, Flush
  <2>1. ASSUME NEW r \in R
        PROVE  ~(rst[r] = "freed" \/ Cardinality({i \in DOMAIN queue : queue[i] = r}) > 1)
    <3>1. r \in Req /\ Queued(r)
      OBVIOUS
    <3>2. rst[r] = "live" /\ Cardinality({i \in DOMAIN queue : queue[i] = r}) = 1
      BY <3>1, OnePlace DEF Sound, InPlace
    <3> QED BY <3>2
  <2>2. ~\E c \in C : cst[c] = "closing"
    BY <2>0 DEF Sound, Unlisted, StopTargets, RemoveClients, TypeOK, LoopType
  <2>3. /\ FreeReqs(R) /\ queue' = <<>> /\ clients' = {}
        /\ UNCHANGED <<closeWrites, kind, inflight, wsType, faultVars>>
    BY <1>2, <2>1, <2>2 DEF Stop, Flush
  <2>4. (\A q \in Req : ~Queued(q)') /\ QueuedOnce'
    BY <2>3, QueueEmpty DEF Queued, QueuedOnce
  <2>5. \A q \in Req : rst'[q] = IF q \in R THEN "freed" ELSE rst[q]
    BY <2>3, Released
  <2>6. NoFault' /\ InPlace' /\ TextWaits'
    BY <2>3, <2>4, <2>5 DEF Sound, NoFault, InPlace, TextWaits
  <2>7. ClosedQuietly' /\ Unlisted'
    BY <2>3, <2>4, FreeReqsType DEF ClosedQuietly, Unlisted
  <2>8. CloseAlone'
    BY <2>0, <2>3 DEF Sound, CloseAlone, Peaceful
  <2> QED BY <2>4, <2>6, <2>7, <2>8 DEF Sound
<1>3. ASSUME NEW c \in Ctx, OnConnection(c) PROVE Sound'
  <2>1. /\ UNCHANGED <<rst, kind, inflight, wsType, wsReq, closeWrites, queue, phase, faultVars>>
        /\ cst[c] = "none" /\ phase = "poll"
        /\ \A d \in Ctx \ {c} : cst'[d] = cst[d]
        /\ clients' \subseteq clients \cup {c}
        /\ cst'[c] = "open" \/ "refuse" \in Env
    BY <1>3 DEF OnConnection, TypeOK, CtxType
  <2>2. wsReq[c] = None /\ ~(closeWrites[c] > 0)
    BY <2>1, NoWsReq DEF Alive, Sound, CloseAlone
  <2>3. ClosedQuietly' /\ CloseAlone'
    BY <2>1, <2>2, QueueStays DEF Sound, ClosedQuietly, CloseAlone, TypeOK, CtxType
  <2>4. Unlisted'
    BY <2>1 DEF Sound, Unlisted, Peaceful
  <2> QED BY <2>1, <2>3, <2>4, SoundIfRequestsStay
<1>4. CASE Read
  <2>1. ASSUME NEW c \in Ctx, NEW r \in Req, NEW k \in Kinds, OnReadUpgrade(c, r, k) PROVE Sound'
    <3>1. /\ UNCHANGED <<cst, closeWrites, inflight, wsType, queue, clients, phase, faultVars>>
          /\ rst[r] = "none" /\ rst'[r] = "live" /\ cst[c] = "open"
          /\ \A q \in Req \ {r} : rst'[q] = rst[q] /\ kind'[q] = kind[q]
          /\ wsReq'[c] = r /\ \A d \in Ctx \ {c} : wsReq'[d] = wsReq[d]
      BY <2>1 DEF OnReadUpgrade, Readable, NewReq, TypeOK, CtxType, ReqType
    <3>2. ~Queued(r) /\ ~inflight[r] /\ r # None
      BY <3>1, ConstantsAssumption DEF Placed, FreshNowhere
    <3>3. (\A q \in Req : Queued(q)' <=> Queued(q)) /\ QueuedOnce'
      BY <3>1, QueueStays DEF Sound
    <3>4. NoFault' /\ InPlace' /\ TextWaits'
      BY <3>1, <3>2, <3>3 DEF Sound, NoFault, InPlace, TextWaits
    <3>5. ClosedQuietly' /\ CloseAlone' /\ Unlisted'
      BY <3>1, <3>2, <3>3 DEF Sound, ClosedQuietly, CloseAlone, Unlisted, TypeOK, CtxType
    <3> QED BY <3>3, <3>4, <3>5 DEF Sound
  <2>2. ASSUME NEW c \in Ctx, NEW r \in Req, NEW k \in Kinds, OnReadHttp(c, r, k)
        PROVE  Sound'
    <3>1. /\ UNCHANGED <<cst, wsReq, closeWrites, inflight, wsType, clients, phase, faultVars>>
          /\ rst[r] = "none" /\ rst'[r] = "live" /\ kind'[r] = k /\ Enqueue(r)
          /\ \A q \in Req \ {r} : rst'[q] = rst[q] /\ kind'[q] = kind[q]
      BY <2>2 DEF OnReadHttp, NewReq, TypeOK, ReqType
    <3>2. ~Queued(r) /\ ~inflight[r] /\ k \in PlainKinds
      BY <2>2, <3>1 DEF OnReadHttp, Placed, FreshNowhere
    <3>3. (\A q \in Req : Queued(q)' <=> Queued(q) \/ q = r) /\ QueuedOnce'
      BY <3>1, <3>2, QueueAppend DEF Sound
    <3>4. NoFault' /\ InPlace' /\ TextWaits'
      BY <3>1, <3>2, <3>3 DEF Sound, NoFault, InPlace, TextWaits
    <3>5. \A d \in Ctx : wsReq[d] # None => wsReq[d] \in Req /\ wsReq[d] # r
      BY <3>1 DEF Owned, WsReqOwned, TypeOK, CtxType
    <3>6. ClosedQuietly' /\ CloseAlone' /\ Unlisted'
      BY <3>1, <3>3, <3>5 DEF Sound, ClosedQuietly, CloseAlone, Unlisted
    <3> QED BY <3>3, <3>4, <3>6 DEF Sound
  <2>3. ASSUME NEW c \in Ctx, NEW t \in {"text", "other"}, OnReadFrame(c, t)
        PROVE  Sound'
    <3> DEFINE r == wsReq[c]
    <3>1. /\ r \in Req /\ cst[c] = "open" /\ ~(closeWrites[c] > 0) /\ ~Queued(r) /\ ~inflight[r]
          /\ rst[r] = "live" /\ rctx[r] = c
      BY <2>3 DEF OnReadFrame, Readable, WsOwed, Peaceful, TypeOK, CtxType, Owned, WsReqOwned
    <3>2. /\ wsType' = [wsType EXCEPT ![r] = t] /\ Enqueue(r)
          /\ UNCHANGED <<ctxVars, rst, kind, inflight, clients, phase, faultVars>>
          /\ "timeout" \in Env => t = "text"
      BY <2>3, <3>1 DEF OnReadFrame, Peaceful
    <3>3. \A d \in Ctx \ {c} : wsReq[d] # None => wsReq[d] \in Req /\ wsReq[d] # r
      BY <3>1 DEF Owned, WsReqOwned, TypeOK, CtxType
    <3> HIDE DEF r
    <3>4. (\A q \in Req : Queued(q)' <=> Queued(q) \/ q = r) /\ QueuedOnce'
      BY <3>1, <3>2, QueueAppend DEF Sound
    <3>5. NoFault' /\ InPlace'
      BY <3>1, <3>2, <3>4 DEF Sound, NoFault, InPlace
    <3>6. TextWaits'
      BY <3>1, <3>2, <3>4 DEF Sound, TextWaits, TypeOK, ReqType
    <3>7. ClosedQuietly' /\ CloseAlone' /\ Unlisted'
      BY <3>1, <3>2, <3>3, <3>4 DEF Sound, ClosedQuietly, CloseAlone, Unlisted
    <3> QED BY <3>4, <3>5, <3>6, <3>7 DEF Sound
  <2>4. ASSUME NEW c \in Ctx, OnReadClose(c) PROVE Sound'
    <3>1. /\ UNCHANGED <<cst, wsReq, rst, kind, inflight, wsType, queue, clients, phase, faultVars>>
          /\ cst[c] = "open" /\ "close" \in Env /\ ~WsOwed(c)
          /\ closeWrites' = [closeWrites EXCEPT ![c] = @ + 1]
      BY <2>4 DEF OnReadClose, Readable, Peaceful
    <3>2. closeWrites'[c] = 1 /\ \A d \in Ctx \ {c} : closeWrites'[d] = closeWrites[d]
      BY <3>1 DEF WsOwed, TypeOK, CtxType
    <3>3. ClosedQuietly' /\ Unlisted'
      BY <3>1, QueueStays DEF Sound, ClosedQuietly, Unlisted, TypeOK, CtxType
    <3>4. CloseAlone'
      BY <3>1, <3>2, QueueStays DEF WsOwed, Sound, CloseAlone, TypeOK, CtxType
    <3> QED BY <3>1, <3>3, <3>4, SoundIfRequestsStay
  <2>5. ASSUME NEW c \in Ctx, OnReadEof(c) PROVE Sound'
    <3>1. /\ UNCHANGED <<closeWrites, wsReq, rst, kind, inflight, wsType, queue, clients, phase, faultVars>>
          /\ ~WsOwed(c) /\ "eof" \in Env /\ phase = "poll"
          /\ cst' = [cst EXCEPT ![c] = "closing"]
      BY <2>5 DEF OnReadEof, Readable, Peaceful
    <3>2. \A d \in Ctx \ {c} : cst'[d] = cst[d]
      BY <3>1 DEF TypeOK, CtxType
    <3>3. ClosedQuietly'
      BY <3>1, <3>2, QueueStays DEF WsOwed, Sound, ClosedQuietly, TypeOK, CtxType
    <3>4. CloseAlone'
      BY <3>1, <3>2, QueueStays DEF WsOwed, Sound, CloseAlone, TypeOK, CtxType
    <3>5. Unlisted'
      BY <3>1 DEF Unlisted, Peaceful
    <3> QED BY <3>1, <3>3, <3>4, <3>5, SoundIfRequestsStay
  <2> QED BY <1>4, <2>1, <2>2, <2>3, <2>4, <2>5 DEF Read
<1>5. ASSUME NEW c \in Ctx, OnCloseWritten(c) PROVE Sound'
  <2>1. closeWrites[c] = 1 /\ cst[c] = "open" /\ "close" \in Env
    BY <1>5 DEF OnCloseWritten, Sound, CloseAlone
  <2>2. /\ UNCHANGED <<wsReq, rst, kind, inflight, wsType, queue, clients, phase, faultVars>>
        /\ phase = "poll" /\ cst' = [cst EXCEPT ![c] = "closing"]
        /\ closeWrites' = [closeWrites EXCEPT ![c] = @ - 1]
    BY <1>5, <2>1 DEF OnCloseWritten
  <2>3. /\ closeWrites'[c] = 0
        /\ \A d \in Ctx \ {c} : cst'[d] = cst[d] /\ closeWrites'[d] = closeWrites[d]
    BY <2>1, <2>2 DEF TypeOK, CtxType
  <2>4. ClosedQuietly' /\ CloseAlone'
    BY <2>1, <2>2, <2>3, QueueStays DEF Sound, ClosedQuietly, CloseAlone, TypeOK, CtxType
  <2>5. Unlisted'
    BY <2>1, <2>2 DEF Unlisted, Peaceful
  <2> QED BY <2>2, <2>4, <2>5, SoundIfRequestsStay
<1>6. ASSUME NEW r \in Req, OnWrite(r) PROVE Sound'
  <2>1. inflight[r] /\ rst[r] = "live" /\ ~Queued(r)
    BY <1>6 DEF OnWrite, Sound, InPlace
  <2>2. /\ inflight' = [inflight EXCEPT ![r] = FALSE]
        /\ UNCHANGED <<cst, closeWrites, kind, wsType, clients, phase, faultVars>>
    BY <1>6, <2>1 DEF OnWrite
  <2>3. ~inflight'[r] /\ \A q \in Req \ {r} : inflight'[q] = inflight[q]
    BY <2>2 DEF TypeOK, ReqType
  <2>4. NoFault' /\ Unlisted'
    BY <2>2 DEF Sound, NoFault, Unlisted
  <2>5. CASE kind[r] = "mjpeg" /\ Enqueue(r) /\ UNCHANGED <<rst, wsReq>>
    <3>1. (\A q \in Req : Queued(q)' <=> Queued(q) \/ q = r) /\ QueuedOnce'
      BY <2>1, <2>5, QueueAppend DEF Sound
    <3>2. \A d \in Ctx : wsReq[d] # None => wsReq[d] \in Req /\ wsReq[d] # r
      BY <2>5 DEF Owned, WsReqOwned, TypeOK, CtxType
    <3>3. InPlace' /\ TextWaits'
      BY <2>1, <2>2, <2>3, <2>5, <3>1 DEF Sound, InPlace, TextWaits
    <3>4. ClosedQuietly' /\ CloseAlone'
      BY <2>2, <2>3, <2>5, <3>1, <3>2 DEF Sound, ClosedQuietly, CloseAlone
    <3> QED BY <2>4, <3>1, <3>3, <3>4 DEF Sound
  <2>6. CASE queue' = queue /\ (FreeReqs({r}) \/ UNCHANGED <<rst, wsReq>>)
    <3>1. (\A q \in Req : Queued(q)' <=> Queued(q)) /\ QueuedOnce'
      BY <2>6, QueueStays DEF Sound
    <3>2. /\ \A q \in Req \ {r} : rst'[q] = rst[q]
          /\ \A d \in Ctx : wsReq'[d] \in {None, wsReq[d]}
      BY <2>6, Released
    <3>3. InPlace' /\ TextWaits'
      BY <2>1, <2>2, <2>3, <3>1, <3>2 DEF Sound, InPlace, TextWaits
    <3>4. ClosedQuietly' /\ CloseAlone'
      BY <2>2, <2>3, <3>1, <3>2 DEF Sound, ClosedQuietly, CloseAlone, TypeOK, CtxType
    <3> QED BY <2>4, <3>1, <3>3, <3>4 DEF Sound
  <2> QED BY <1>6, <2>1, <2>5, <2>6 DEF OnWrite
<1>7. CASE OnSend
  <2> DEFINE r == Head(queue)
  <2>1. CASE queue = <<>>
    <3>1. UNCHANGED <<ctxVars, reqVars, queue, clients, phase, faultVars>>
      BY <1>7, <2>1 DEF OnSend
    <3>2. ClosedQuietly' /\ CloseAlone' /\ Unlisted'
      BY <3>1, QueueStays DEF Sound, ClosedQuietly, CloseAlone, Unlisted, TypeOK, CtxType
    <3> QED BY <3>1, <3>2, SoundIfRequestsStay
  <2>2. CASE queue # <<>>
    <3>1. r \in Req /\ Queued(r)
      BY <2>2, QueuePop DEF TypeOK, LoopType, Queued
    <3>2. rst[r] = "live" /\ ~inflight[r]
      BY <3>1 DEF Sound, InPlace
    <3>3. /\ Dequeue /\ UNCHANGED <<closeWrites, kind, wsType, phase, faultVars>>
          /\ cst' = cst \/ cst' = [d \in Ctx |-> IF d \in Orphans({r}) THEN "freed" ELSE cst[d]]
          /\ clients' \subseteq clients
          /\ \/ FreeReqs({r}) /\ UNCHANGED inflight
             \/ inflight' = [inflight EXCEPT ![r] = TRUE] /\ UNCHANGED <<rst, wsReq>>
             \/ UNCHANGED <<rst, inflight, wsReq>>
      BY <1>7, <2>2, <3>2 DEF OnSend, RemoveClients
    <3>4. /\ \A q \in Req : Queued(q)' => Queued(q) /\ q # r
          /\ QueuedOnce'
      BY <2>2, <3>3, QueuePop DEF Sound
    <3> HIDE DEF r
    <3>5. /\ \A q \in Req \ {r} : rst'[q] = rst[q] /\ inflight'[q] = inflight[q]
          /\ inflight'[r] => rst'[r] = "live"
          /\ \A d \in Ctx : wsReq'[d] \in {None, wsReq[d]}
      BY <3>1, <3>2, <3>3, Released DEF TypeOK, ReqType
    <3>6. InPlace' /\ TextWaits' /\ NoFault'
      BY <3>1, <3>2, <3>3, <3>4, <3>5 DEF Sound, InPlace, TextWaits, NoFault
    <3>7. ClosedQuietly' /\ Unlisted'
      BY <3>3, <3>4, <3>5 DEF Sound, ClosedQuietly, Unlisted, TypeOK, CtxType
    <3>8. CloseAlone'
      <4>1. \A d \in Ctx : cst[d] = "open" => cst'[d] = "open"
        BY <3>3 DEF Orphans
      <4>2. \A d \in Ctx : closeWrites[d] > 0 => wsReq[d] # r \/ wsReq[d] = None
        BY <3>1 DEF Sound, CloseAlone
      <4>3. \A d \in Ctx : wsReq'[d] # None => wsReq'[d] = wsReq[d] /\ wsReq[d] \in Req
        BY <3>5 DEF TypeOK, CtxType
      <4> QED BY <3>3, <3>4, <3>5, <4>1, <4>2, <4>3 DEF Sound, CloseAlone
    <3> QED BY <3>4, <3>6, <3>7, <3>8 DEF Sound
  <2> QED BY <2>1, <2>2
<1>8. CASE CheckTimeout
  <2>1. phase = "timers" /\ "timeout" \in Env
    BY <1>8 DEF CheckTimeout
  <2>2. PICK K \in SUBSET {k \in tracked : Overdue(k)} \ {{}} :
          LET C == {c \in clients : id[c] \in K}
          IN  \/ /\ \A c \in C : cst[c] = "open"
                 /\ tracked' = tracked \ K /\ CloseClients(C)
                 /\ UNCHANGED <<id, reqs, wsReq, closeWrites, reqVars, server, queue,
                                writeTimer, counter, phase, registry, running, faultVars>>
              \/ \E c \in C : cst[c] = "closing" /\ Fault("double_close", c)
    BY <1>8 DEF CheckTimeout
  <2> DEFINE C == {c \in clients : id[c] \in K}
  <2>3. ~\E c \in C : cst[c] = "closing"
    BY <2>1 DEF Sound, Unlisted, TypeOK, LoopType
  <2>4. /\ CloseClients(C)
        /\ UNCHANGED <<id, wsReq, closeWrites, rst, kind, inflight, wsType, queue, phase, faultVars>>
    BY <2>2, <2>3
  <2>5. \A c \in C : wsReq[c] # None => ~Queued(wsReq[c])
    <3> SUFFICES ASSUME NEW c \in C, wsReq[c] # None, NEW i \in DOMAIN queue, queue[i] = wsReq[c]
                 PROVE  FALSE
      BY DEF Queued
    <3>0. c \in Ctx /\ wsReq[c] \in Req /\ rctx[wsReq[c]] = c /\ Alive(c)
      BY NoWsReq DEF TypeOK, CtxType, LoopType, Owned, WsReqOwned
    <3>1. kind[wsReq[c]] = "stream"
      BY <2>1, <2>2, <3>0 DEF Told, Alive
    <3>2. wsType[wsReq[c]] = "text"
      BY <2>1, <3>0, <3>1 DEF Sound, TextWaits, Queued
    <3>3. Overdue(id[c])
      BY <2>2
    <3> QED BY <3>0, <3>1, <3>2, <3>3 DEF Overdue
  <2> HIDE DEF C
  <2>6. ClosedQuietly'
    BY <2>4, <2>5, QueueStays DEF Sound, ClosedQuietly, CloseClients, TypeOK, CtxType
  <2>7. CloseAlone'
    BY <2>1, <2>4 DEF Sound, CloseAlone, Peaceful
  <2>8. Unlisted'
    BY <2>1, <2>4 DEF Sound, Unlisted, CloseClients
  <2> QED BY <2>4, <2>6, <2>7, <2>8, SoundIfRequestsStay
<1>9. CASE OnServerClosed
  <2>1. UNCHANGED <<ctxVars, reqVars, queue, clients, phase, faultVars>>
    BY <1>9 DEF OnServerClosed
  <2>2. ClosedQuietly' /\ CloseAlone' /\ Unlisted'
    BY <2>1, QueueStays DEF Sound, ClosedQuietly, CloseAlone, Unlisted, TypeOK, CtxType
  <2> QED BY <2>1, <2>2, SoundIfRequestsStay
<1>10. ASSUME NEW c \in Ctx, OnClose(c) PROVE Sound'
  <2> DEFINE R == IF wsReq[c] = None THEN {} ELSE {wsReq[c]}
  <2>1. /\ FreeReqs(R) /\ UNCHANGED <<closeWrites, kind, inflight, wsType, queue, phase, faultVars>>
        /\ cst' \in {[cst EXCEPT ![c] = "freed"], [cst EXCEPT ![c] = "closed"]}
        /\ clients' \subseteq clients /\ cst[c] = "closing" /\ closeWrites[c] = 0
        /\ \A r \in Req : inflight[r] => rctx[r] # c
    BY <1>10 DEF OnClose, RemoveClients
  <2>2. /\ R \in SUBSET Req
        /\ \A r \in R : ~Queued(r) /\ ~inflight[r]
    BY <2>1 DEF TypeOK, CtxType, Owned, WsReqOwned, Sound, ClosedQuietly
  <2> HIDE DEF R
  <2>3. (\A q \in Req : Queued(q)' <=> Queued(q)) /\ QueuedOnce'
    BY <2>1, QueueStays DEF Sound
  <2>4. /\ \A q \in Req : rst'[q] = IF q \in R THEN "freed" ELSE rst[q]
        /\ \A d \in Ctx : wsReq'[d] \in {None, wsReq[d]}
    BY <2>1, <2>2, Released
  <2>5. NoFault' /\ InPlace' /\ TextWaits'
    BY <2>1, <2>2, <2>3, <2>4 DEF Sound, NoFault, InPlace, TextWaits
  <2>6. cst'[c] \in {"freed", "closed"} /\ \A d \in Ctx \ {c} : cst'[d] = cst[d]
    BY <2>1 DEF TypeOK, CtxType
  <2>7. ClosedQuietly' /\ CloseAlone' /\ Unlisted'
    BY <2>1, <2>3, <2>4, <2>6 DEF Sound, ClosedQuietly, CloseAlone, Unlisted, TypeOK, CtxType
  <2> QED BY <2>3, <2>5, <2>7 DEF Sound
<1>11. CASE NextPhase
  <2>1. /\ UNCHANGED <<ctxVars, reqVars, queue, clients, faultVars>>
        /\ phase' = "timers" => \A c \in Ctx : cst[c] # "closing"
    BY <1>11 DEF NextPhase
  <2>2. ClosedQuietly' /\ CloseAlone' /\ Unlisted'
    BY <2>1, QueueStays DEF Sound, ClosedQuietly, CloseAlone, Unlisted, TypeOK, CtxType
  <2> QED BY <2>1, <2>2, SoundIfRequestsStay
<1>12. CASE Halted \/ UNCHANGED vars
  <2>1. UNCHANGED <<ctxVars, reqVars, queue, clients, phase, faultVars>>
    BY <1>12 DEF Halted, vars
  <2>2. ClosedQuietly' /\ CloseAlone' /\ Unlisted'
    BY <2>1, QueueStays DEF Sound, ClosedQuietly, CloseAlone, Unlisted, TypeOK, CtxType
  <2> QED BY <2>1, <2>2, SoundIfRequestsStay
<1> QED
  BY <1>1, <1>2, <1>3, <1>4, <1>5, <1>6, <1>7, <1>8, <1>9, <1>10, <1>11, <1>12
     DEF Next, Written, Timers, Closed

\* Nothing has been queued or closed at first.
LEMMA SoundInit == Init => Sound
<1> SUFFICES ASSUME Init PROVE Sound
  OBVIOUS
<1>1. (\A q \in Req : ~Queued(q)) /\ QueuedOnce
  BY QueueEmpty DEF Init
<1> QED BY <1>1 DEF Init, Sound, NoFault, InPlace, ClosedQuietly, CloseAlone, Unlisted, TextWaits

\* Peers that wait for their answers, viewers that fall silent, disconnects,
\* failed accepts, restarts of the server: as long as only one of stop and the
\* others closes connections, nothing undefined is ever done.
THEOREM PeacefulNeverFault == ASSUME Peaceful PROVE Spec => []NoFault
<1>1. TypeOK /\ Owned /\ Placed /\ Told /\ Sound /\ [Next]_vars => Sound' /\ Told'
  BY SoundStep, ToldStep
<1>2. Sound => NoFault
  BY DEF Sound
<1>3. Init => Told
  BY DEF Init, Told
<1>4. QED
  BY <1>1, <1>2, <1>3, SoundInit, PlacedInit, PlacedStep, OwnedInit, OwnedStep, TypeCorrect, PTL DEF Spec

-----------------------------------------------------------------------------
(* Peers that wait for the answer to a request before they send the next.    *)

\* A connection has one request at a time ...
OneRequest ==
    \A q, r \in Req : rst[q] = "live" /\ rst[r] = "live" /\ rctx[q] = rctx[r] => q = r

\* ... which ws_req points to if it is a WebSocket's ...
WsLinked == \A r \in Req : rst[r] = "live" /\ kind[r] \in SocketKinds => wsReq[rctx[r]] = r

\* ... and which on_close released in that case.
ClosedNone == \A c \in Ctx : cst[c] = "closed" => wsReq[c] = None

Linked == OneRequest /\ WsLinked /\ ClosedNone

\* A step that leaves requests alone and closes no connection for good.
LEMMA LinkedStays ==
  ASSUME Linked, UNCHANGED <<rst, kind, rctx, wsReq>>,
         \A c \in Ctx : cst'[c] = "closed" => cst[c] = "closed"
  PROVE  Linked'
BY DEF Linked, OneRequest, WsLinked, ClosedNone

\* A connection that may send a request has none.
LEMMA NoneOwed ==
  ASSUME TypeOK, Owned, Linked, NEW c \in Ctx, wsReq[c] = None, ~Owed(c)
  PROVE  \A q \in Req : rst[q] = "live" => rctx[q] # c
BY ConstantsAssumption DEF Linked, WsLinked, Owed, TypeOK, ReqType

\* new_http_write_req for such a connection.
LEMMA LinkedNew ==
  ASSUME TypeOK, Owned, Linked, NEW c \in Ctx, NEW r \in Req, NEW k, NewReq(c, r, k),
         cst' = cst, cst[c] = "open",
         \A q \in Req : rst[q] = "live" => rctx[q] # c,
         \/ k \in PlainKinds /\ wsReq' = wsReq
         \/ k \in SocketKinds /\ wsReq' = [wsReq EXCEPT ![c] = r]
  PROVE  Linked'
<1>1. /\ rst[r] = "none" /\ rst'[r] = "live" /\ kind'[r] = k /\ rctx'[r] = c
      /\ \A q \in Req \ {r} : rst'[q] = rst[q] /\ kind'[q] = kind[q] /\ rctx'[q] = rctx[q]
  BY DEF NewReq, TypeOK, ReqType
<1>2. \A d \in Ctx \ {c} : wsReq'[d] = wsReq[d]
  BY DEF TypeOK, CtxType
<1>3. OneRequest'
  BY <1>1 DEF Linked, OneRequest
<1>4. WsLinked'
  <2>1. k \in SocketKinds => wsReq'[c] = r
    BY DEF TypeOK, CtxType
  <2>2. \A q \in Req : rst[q] = "live" /\ kind[q] \in SocketKinds => wsReq'[rctx[q]] = q
    BY <1>2 DEF Linked, WsLinked, Owned, ContextOutlivesRequests
  <2> QED BY <1>1, <2>1, <2>2 DEF WsLinked
<1>5. ClosedNone'
  BY <1>2 DEF Linked, ClosedNone
<1> QED BY <1>3, <1>4, <1>5 DEF Linked

\* release_http_write_req.
LEMMA LinkedFree ==
  ASSUME TypeOK, Owned, Linked, NEW R \in SUBSET Req, \A r \in R : rst[r] = "live",
         FreeReqs(R), UNCHANGED <<kind, rctx>>,
         \A c \in Ctx : cst'[c] = "closed" => cst[c] = "closed" \/ wsReq'[c] = None
  PROVE  Linked'
<1>1. /\ \A q \in Req : rst'[q] = IF q \in R THEN "freed" ELSE rst[q]
      /\ \A c \in Ctx : /\ wsReq'[c] \in {None, wsReq[c]}
                        /\ wsReq'[c] = None <=> wsReq[c] = None \/ \E r \in R : rctx[r] = c
  BY Released
<1>2. OneRequest' /\ ClosedNone'
  BY <1>1 DEF Linked, OneRequest, ClosedNone
<1>3. ASSUME NEW q \in Req, rst'[q] = "live", kind[q] \in SocketKinds PROVE wsReq'[rctx[q]] = q
  <2>1. rst[q] = "live" /\ q \notin R /\ rctx[q] \in Ctx
    BY <1>1, <1>3 DEF Owned, ContextOutlivesRequests
  <2>2. ~\E r \in R : rctx[r] = rctx[q]
    BY <2>1 DEF Linked, OneRequest
  <2>3. wsReq[rctx[q]] = q /\ q # None
    BY <1>3, <2>1, ConstantsAssumption DEF Linked, WsLinked
  <2> QED BY <1>1, <2>1, <2>2, <2>3
<1> QED BY <1>2, <1>3 DEF Linked, WsLinked

\* Every step keeps a connection to one request.
LEMMA LinkedStep ==
  ASSUME "pipeline" \notin Env, TypeOK, Owned, Linked, [Next]_vars
  PROVE  Linked'
<1> USE DEF ctxVars, reqVars, loopVars
<1>0. ASSUME NEW f, NEW v, Fault(f, v) PROVE Linked'
  BY <1>0, LinkedStays DEF Fault
<1>1. CASE Start
  BY <1>1, LinkedStays DEF Start
<1>2. CASE Stop
  <2> DEFINE R == {r \in Req : Queued(r)}
             F == Orphans(R)
             C == StopTargets(F)
  <2>1. CASE \E f, v : Fault(f, v)
    BY <1>0, <2>1
  <2>2. CASE ~\E f, v : Fault(f, v)
    <3>1. /\ \A r \in R : rst[r] = "live"
          /\ FreeReqs(R)
          /\ cst' = [c \in Ctx |-> CASE c \in F -> "freed"
                                      [] c \in C -> "closing"
                                      [] OTHER -> cst[c]]
          /\ UNCHANGED <<kind, rctx>>
      BY <1>2, <2>2 DEF Stop, Flush
    <3>2. \A c \in Ctx : cst'[c] = "closed" => cst[c] = "closed"
      <4> HIDE DEF F, C
      <4> QED BY <3>1
    <3>3. R \in SUBSET Req
      OBVIOUS
    <3> HIDE DEF R
    <3> QED BY <3>1, <3>2, <3>3, LinkedFree
  <2> QED BY <2>1, <2>2
<1>3. ASSUME NEW c \in Ctx, OnConnection(c) PROVE Linked'
  <2>1. \A d \in Ctx : cst'[d] = "closed" => cst[d] = "closed"
    BY <1>3 DEF OnConnection, TypeOK, CtxType
  <2> QED BY <1>3, <2>1, LinkedStays DEF OnConnection
<1>4. CASE Read
  <2>1. ASSUME NEW c \in Ctx, NEW r \in Req, NEW k \in Kinds, OnReadUpgrade(c, r, k) PROVE Linked'
    <3>1. \A q \in Req : rst[q] = "live" => rctx[q] # c
      BY <2>1, NoneOwed DEF OnReadUpgrade
    <3> QED BY <2>1, <3>1, LinkedNew DEF OnReadUpgrade, Readable
  <2>2. ASSUME NEW c \in Ctx, NEW r \in Req, NEW k \in Kinds, OnReadHttp(c, r, k)
        PROVE  Linked'
    <3>1. \A q \in Req : rst[q] = "live" => rctx[q] # c
      BY <2>2, NoneOwed DEF OnReadHttp
    <3>2. k \in PlainKinds
      BY <2>2 DEF OnReadHttp
    <3> QED BY <2>2, <3>1, <3>2, LinkedNew DEF OnReadHttp, Readable
  <2>3. ASSUME NEW c \in Ctx, NEW t \in {"text", "other"}, OnReadFrame(c, t) PROVE Linked'
    BY <2>3, <1>0, LinkedStays DEF OnReadFrame
  <2>4. ASSUME NEW c \in Ctx, OnReadClose(c) PROVE Linked'
    BY <2>4, LinkedStays DEF OnReadClose
  <2>5. ASSUME NEW c \in Ctx, OnReadEof(c) PROVE Linked'
    <3>1. \A d \in Ctx : cst'[d] = "closed" => cst[d] = "closed"
      BY <2>5 DEF OnReadEof, TypeOK, CtxType
    <3> QED BY <2>5, <3>1, LinkedStays DEF OnReadEof
  <2> QED BY <1>4, <2>1, <2>2, <2>3, <2>4, <2>5 DEF Read
<1>5. ASSUME NEW c \in Ctx, OnCloseWritten(c) PROVE Linked'
  <2>1. CASE Fault("double_close", c)
    BY <2>1, <1>0
  <2>2. CASE ~Fault("double_close", c)
    <3>1. \A d \in Ctx : cst'[d] = "closed" => cst[d] = "closed"
      BY <1>5, <2>2 DEF OnCloseWritten, TypeOK, CtxType
    <3> QED BY <1>5, <2>2, <3>1, LinkedStays DEF OnCloseWritten
  <2> QED BY <2>1, <2>2
<1>6. ASSUME NEW r \in Req, OnWrite(r) PROVE Linked'
  <2>1. \/ Fault("use_after_free", r)
        \/ rst[r] = "live" /\ FreeReqs({r}) /\ UNCHANGED <<cst, kind, rctx>>
        \/ UNCHANGED <<cst, rst, kind, rctx, wsReq>>
    BY <1>6 DEF OnWrite
  <2> QED BY <2>1, <1>0, LinkedStays, LinkedFree
<1>7. CASE OnSend
  <2> DEFINE r == Head(queue)
  <2>1. \/ \E f, v : Fault(f, v)
        \/ /\ r \in Req /\ rst[r] = "live" /\ FreeReqs({r}) /\ UNCHANGED <<kind, rctx>>
           /\ cst' = [d \in Ctx |-> IF d \in Orphans({r}) THEN "freed" ELSE cst[d]]
        \/ UNCHANGED <<cst, rst, kind, rctx, wsReq>>
    <3>1. queue # <<>> => r \in Req
      BY DEF TypeOK, LoopType
    <3> HIDE DEF r
    <3> QED BY <1>7, <3>1 DEF OnSend, r
  <2> HIDE DEF r
  <2> QED BY <2>1, <1>0, LinkedStays, LinkedFree
<1>8. CASE CheckTimeout
  <2>1. \/ \E f, v : Fault(f, v)
        \/ /\ \A c \in Ctx : cst'[c] \in {cst[c], "closing"}
           /\ UNCHANGED <<rst, kind, rctx, wsReq>>
    BY <1>8 DEF CheckTimeout, CloseClients
  <2> QED BY <2>1, <1>0, LinkedStays
<1>9. CASE OnServerClosed
  BY <1>9, LinkedStays DEF OnServerClosed
<1>10. ASSUME NEW c \in Ctx, OnClose(c) PROVE Linked'
  <2> DEFINE R == IF wsReq[c] = None THEN {} ELSE {wsReq[c]}
  <2>1. R \in SUBSET Req /\ \A r \in R : rst[r] = "live" /\ rctx[r] = c
    BY DEF TypeOK, CtxType, Owned, WsReqOwned
  <2>2. /\ FreeReqs(R) /\ UNCHANGED <<kind, rctx>>
        /\ \A d \in Ctx \ {c} : cst'[d] = cst[d]
    BY <1>10 DEF OnClose, TypeOK, CtxType
  <2>3. wsReq'[c] = None
    BY <2>1, <2>2, Released
  <2> HIDE DEF R
  <2> QED BY <2>1, <2>2, <2>3, LinkedFree
<1>11. CASE NextPhase
  BY <1>11, LinkedStays DEF NextPhase
<1>12. CASE Halted \/ UNCHANGED vars
  BY <1>12, LinkedStays DEF Halted, vars
<1> QED
  BY <1>1, <1>2, <1>3, <1>4, <1>5, <1>6, <1>7, <1>8, <1>9, <1>10, <1>11, <1>12
     DEF Next, Written, Timers, Closed

-----------------------------------------------------------------------------
(* Plain requests get their answers.                                         *)

\* A connection whose socket holds a buffer has not run on_close.
InflightHeld == \A r \in Req : inflight[r] => rctx[r] \in Ctx /\ cst[rctx[r]] \in {"open", "closing"}

\* What the timers close are WebSockets.
TimersClosing == \A c \in Ctx : phase = "timers" /\ cst[c] = "closing" => wsReq[c] # None

UnderWay == PlainUnderWay /\ InflightHeld /\ TimersClosing

\* A step that leaves requests, the queue and the socket alone.
LEMMA UnderWayStays ==
  ASSUME UnderWay, UNCHANGED <<rst, kind, rctx, inflight, queue>>, TimersClosing',
         \A c \in Ctx : cst[c] \in {"open", "closing"} => cst'[c] \in {"open", "closing"}
  PROVE  UnderWay'
<1>1. PlainUnderWay'
  BY QueueStays DEF UnderWay, PlainUnderWay
<1>2. InflightHeld'
  BY DEF UnderWay, InflightHeld
<1> QED BY <1>1, <1>2 DEF UnderWay

\* A viewer's connection is in both tables, and whoever the keepalive check looks
\* for is a viewer that can be found by its id.
Viewing(c) == wsReq[c] # None /\ kind[wsReq[c]] = "stream"

Served ==
    /\ \A c \in Ctx : cst[c] = "open" /\ Viewing(c) => wsReq[c] \in registry /\ id[c] \in tracked
    /\ \A k \in tracked : \E c \in clients : id[c] = k /\ Viewing(c)

\* Whom the keepalive check closes is a WebSocket.
LEMMA OverdueIsWs ==
  ASSUME TypeOK, ClientsAlive, Served, NEW c \in clients, id[c] \in tracked
  PROVE  wsReq[c] # None
BY DEF ClientsAlive, Served, Viewing

\* Every step keeps plain requests on their way.
LEMMA UnderWayStep ==
  ASSUME "pipeline" \notin Env, TypeOK, Owned, ClientsAlive, Served, Linked, UnderWay,
         [Next]_vars
  PROVE  UnderWay'
<1> USE DEF ctxVars, reqVars, loopVars
<1>0. ASSUME UNCHANGED <<cst, wsReq, reqVars, queue>>, phase' = phase \/ phase' # "timers"
      PROVE  UnderWay'
  BY <1>0, UnderWayStays DEF UnderWay, TimersClosing
<1>a. ASSUME NEW f, NEW v, Fault(f, v) PROVE UnderWay'
  BY <1>a, <1>0 DEF Fault
<1>1. CASE Start
  BY <1>1, <1>0 DEF Start
<1>2. CASE Stop
  <2> DEFINE R == {r \in Req : Queued(r)}
             F == Orphans(R)
             C == StopTargets(F)
  <2>1. CASE \E f, v : Fault(f, v)
    BY <1>a, <2>1
  <2>2. CASE ~\E f, v : Fault(f, v)
    <3>1. /\ FreeReqs(R)
          /\ cst' = [c \in Ctx |-> CASE c \in F -> "freed"
                                      [] c \in C -> "closing"
                                      [] OTHER -> cst[c]]
          /\ UNCHANGED <<kind, rctx, inflight, phase>> /\ phase = "poll"
      BY <1>2, <2>2 DEF Stop, Flush
    <3>2. \A c \in Ctx : cst[c] \in {"open", "closing"} => cst'[c] \in {"open", "closing"}
      <4>1. \A c \in F : cst[c] = "closed"
        BY DEF Orphans
      <4> HIDE DEF F, C
      <4> QED BY <3>1, <4>1
    <3>3. \A q \in Req : rst'[q] = IF Queued(q) THEN "freed" ELSE rst[q]
      BY <3>1 DEF FreeReqs
    <3>4. PlainUnderWay' /\ InflightHeld' /\ TimersClosing'
      BY <3>1, <3>2, <3>3 DEF UnderWay, PlainUnderWay, InflightHeld, TimersClosing
    <3> QED BY <3>4 DEF UnderWay
  <2> QED BY <2>1, <2>2
<1>3. ASSUME NEW c \in Ctx, OnConnection(c) PROVE UnderWay'
  <2>1. /\ cst[c] = "none" /\ \A d \in Ctx \ {c} : cst'[d] = cst[d]
        /\ UNCHANGED <<rst, kind, rctx, inflight, queue, phase>> /\ phase = "poll"
    BY <1>3 DEF OnConnection, TypeOK, CtxType
  <2> QED BY <2>1, UnderWayStays DEF TimersClosing
<1>4. CASE Read
  <2>1. ASSUME NEW c \in Ctx, NEW r \in Req, NEW k \in Kinds, OnReadUpgrade(c, r, k) PROVE UnderWay'
    <3>1. /\ UNCHANGED <<cst, inflight, queue, phase>> /\ phase = "poll"
          /\ rst[r] = "none" /\ kind'[r] \in SocketKinds /\ cst[c] = "open"
          /\ rctx'[r] = c
          /\ \A q \in Req \ {r} : rst'[q] = rst[q] /\ kind'[q] = kind[q] /\ rctx'[q] = rctx[q]
      BY <2>1 DEF OnReadUpgrade, Readable, NewReq, TypeOK, ReqType
    <3>2. PlainUnderWay' /\ InflightHeld' /\ TimersClosing'
      BY <3>1, QueueStays DEF UnderWay, PlainUnderWay, InflightHeld, TimersClosing
    <3> QED BY <3>2 DEF UnderWay
  <2>2. ASSUME NEW c \in Ctx, NEW r \in Req, NEW k \in Kinds, OnReadHttp(c, r, k)
        PROVE  UnderWay'
    <3>1. /\ UNCHANGED <<cst, inflight, phase>> /\ phase = "poll"
          /\ Enqueue(r) /\ cst[c] = "open" /\ rctx'[r] = c
          /\ \A q \in Req \ {r} : rst'[q] = rst[q] /\ kind'[q] = kind[q] /\ rctx'[q] = rctx[q]
      BY <2>2 DEF OnReadHttp, Readable, NewReq, TypeOK, ReqType
    <3>2. \A q \in Req : Queued(q)' <=> Queued(q) \/ q = r
      BY <3>1, QueueAppend
    <3>3. PlainUnderWay' /\ InflightHeld' /\ TimersClosing'
      BY <3>1, <3>2 DEF UnderWay, PlainUnderWay, InflightHeld, TimersClosing
    <3> QED BY <3>3 DEF UnderWay
  <2>3. ASSUME NEW c \in Ctx, NEW t \in {"text", "other"}, OnReadFrame(c, t) PROVE UnderWay'
    <3> DEFINE r == wsReq[c]
    <3>1. r \in Req
      BY <2>3 DEF OnReadFrame, TypeOK, CtxType
    <3>2. CASE Fault("buffer_reused", r)
      BY <1>a, <3>2
    <3>3. CASE ~Fault("buffer_reused", r)
      <4>1. UNCHANGED <<cst, wsReq, rst, kind, rctx, inflight, phase>> /\ Enqueue(r)
        BY <2>3, <3>3 DEF OnReadFrame
      <4> HIDE DEF r
      <4>2. \A q \in Req : Queued(q)' <=> Queued(q) \/ q = r
        BY <3>1, <4>1, QueueAppend
      <4>3. PlainUnderWay' /\ InflightHeld' /\ TimersClosing'
        BY <4>1, <4>2 DEF UnderWay, PlainUnderWay, InflightHeld, TimersClosing
      <4> QED BY <4>3 DEF UnderWay
    <3> QED BY <3>2, <3>3
  <2>4. ASSUME NEW c \in Ctx, OnReadClose(c) PROVE UnderWay'
    BY <2>4, <1>0 DEF OnReadClose
  <2>5. ASSUME NEW c \in Ctx, OnReadEof(c) PROVE UnderWay'
    <3>1. /\ UNCHANGED <<rst, kind, rctx, inflight, queue, phase>> /\ phase = "poll"
          /\ cst' = [cst EXCEPT ![c] = "closing"]
      BY <2>5 DEF OnReadEof, Readable
    <3> QED BY <3>1, UnderWayStays DEF TimersClosing, TypeOK, CtxType
  <2> QED BY <1>4, <2>1, <2>2, <2>3, <2>4, <2>5 DEF Read
<1>5. ASSUME NEW c \in Ctx, OnCloseWritten(c) PROVE UnderWay'
  <2>1. CASE Fault("double_close", c)
    BY <2>1, <1>a
  <2>2. CASE ~Fault("double_close", c)
    <3>1. /\ UNCHANGED <<rst, kind, rctx, inflight, queue, phase>> /\ phase = "poll"
          /\ cst' = [cst EXCEPT ![c] = "closing"]
      BY <1>5, <2>2 DEF OnCloseWritten
    <3> QED BY <3>1, UnderWayStays DEF TimersClosing, TypeOK, CtxType
  <2> QED BY <2>1, <2>2
<1>6. ASSUME NEW r \in Req, OnWrite(r) PROVE UnderWay'
  <2>1. CASE Fault("use_after_free", r)
    BY <2>1, <1>a
  <2>2. CASE ~Fault("use_after_free", r)
    <3>1. /\ rst[r] = "live" /\ inflight' = [inflight EXCEPT ![r] = FALSE]
          /\ UNCHANGED <<cst, kind, rctx, phase>> /\ phase # "timers"
      BY <1>6, <2>2 DEF OnWrite
    <3>2. ~inflight'[r] /\ \A q \in Req \ {r} : inflight'[q] = inflight[q]
      BY <3>1 DEF TypeOK, ReqType
    <3>3. InflightHeld' /\ TimersClosing'
      BY <3>1, <3>2 DEF UnderWay, InflightHeld, TimersClosing
    <3>4. CASE Enqueue(r) /\ rst' = rst
      <4>1. \A q \in Req : Queued(q)' <=> Queued(q) \/ q = r
        BY <3>4, QueueAppend
      <4> QED BY <3>1, <3>2, <3>3, <3>4, <4>1 DEF UnderWay, PlainUnderWay
    <3>5. CASE FreeReqs({r}) /\ queue' = queue
      <4>1. \A q \in Req : rst'[q] = IF q = r THEN "freed" ELSE rst[q]
        BY <3>5 DEF FreeReqs
      <4> QED BY <3>1, <3>2, <3>3, <3>5, <4>1, QueueStays DEF UnderWay, PlainUnderWay
    <3>6. CASE UNCHANGED <<rst, queue>> /\ ~NotWs(r)
      <4>1. kind[r] \in SocketKinds
        <5>1. rctx[r] \in Ctx /\ wsReq[rctx[r]] # None
          BY <3>1, <3>6 DEF NotWs, Owned, ContextOutlivesRequests
        <5>2. /\ wsReq[rctx[r]] \in Req /\ rst[wsReq[rctx[r]]] = "live"
              /\ rctx[wsReq[rctx[r]]] = rctx[r] /\ kind[wsReq[rctx[r]]] \in SocketKinds
          BY <5>1 DEF Owned, WsReqOwned, TypeOK, CtxType
        <5> QED BY <3>1, <5>2 DEF Linked, OneRequest
      <4> QED BY <3>1, <3>2, <3>3, <3>6, <4>1, QueueStays DEF UnderWay, PlainUnderWay
    <3> QED BY <1>6, <2>2, <3>1, <3>4, <3>5, <3>6 DEF OnWrite
  <2> QED BY <2>1, <2>2
<1>7. CASE OnSend
  <2> DEFINE r == Head(queue)
  <2>1. CASE \E f, v : Fault(f, v)
    BY <2>1, <1>a
  <2>2. CASE queue = <<>>
    BY <1>7, <2>2, <1>0 DEF OnSend
  <2>3. CASE queue # <<>> /\ ~\E f, v : Fault(f, v)
    <3>1. /\ Dequeue /\ rst[r] = "live" /\ UNCHANGED <<kind, rctx, phase>> /\ phase = "timers"
          /\ \/ /\ cst[rctx[r]] = "closed"
                /\ FreeReqs({r}) /\ UNCHANGED inflight
                /\ cst' = [d \in Ctx |-> IF d \in Orphans({r}) THEN "freed" ELSE cst[d]]
             \/ /\ cst[rctx[r]] = "open"
                /\ inflight' = [inflight EXCEPT ![r] = TRUE]
                /\ UNCHANGED <<cst, wsReq, rst>>
             \/ /\ cst[rctx[r]] = "closing"
                /\ UNCHANGED <<cst, wsReq, rst, inflight>>
      BY <1>7, <2>3 DEF OnSend
    <3>2. r \in Req /\ \A q \in Req : Queued(q) /\ q # r => Queued(q)'
      BY <2>3, <3>1, QueuePop
    <3> HIDE DEF r
    <3>3. rctx[r] \in Ctx
      BY <3>1, <3>2 DEF Owned, ContextOutlivesRequests
    <3>4. CASE cst[rctx[r]] = "closed"
      <4>1. FreeReqs({r}) /\ UNCHANGED inflight /\ \A d \in Ctx : cst[d] # "closed" => cst'[d] = cst[d]
        BY <3>1, <3>4 DEF Orphans
      <4>2. /\ rst'[r] = "freed" /\ \A q \in Req \ {r} : rst'[q] = rst[q]
            /\ \A d \in Ctx \ {rctx[r]} : wsReq'[d] = wsReq[d]
        BY <3>2, <4>1 DEF FreeReqs
      <4>3. PlainUnderWay' /\ InflightHeld'
        BY <3>1, <3>2, <4>1, <4>2 DEF UnderWay, PlainUnderWay, InflightHeld
      <4>4. TimersClosing'
        BY <3>1, <3>4, <4>1, <4>2 DEF UnderWay, TimersClosing, Orphans
      <4> QED BY <4>3, <4>4 DEF UnderWay
    <3>5. CASE cst[rctx[r]] = "open"
      <4>1. inflight'[r] /\ \A q \in Req \ {r} : inflight'[q] = inflight[q]
        BY <3>1, <3>2, <3>5 DEF TypeOK, ReqType
      <4>2. UNCHANGED <<cst, wsReq, rst>>
        BY <3>1, <3>5
      <4>3. PlainUnderWay' /\ InflightHeld' /\ TimersClosing'
        BY <3>1, <3>2, <3>3, <3>5, <4>1, <4>2 DEF UnderWay, PlainUnderWay, InflightHeld, TimersClosing
      <4> QED BY <4>3 DEF UnderWay
    <3>6. CASE cst[rctx[r]] = "closing"
      <4>1. kind[r] \in SocketKinds
        <5>1. wsReq[rctx[r]] # None
          BY <3>1, <3>3, <3>6 DEF UnderWay, TimersClosing
        <5>2. /\ wsReq[rctx[r]] \in Req /\ rst[wsReq[rctx[r]]] = "live"
              /\ rctx[wsReq[rctx[r]]] = rctx[r] /\ kind[wsReq[rctx[r]]] \in SocketKinds
          BY <3>3, <5>1 DEF Owned, WsReqOwned, TypeOK, CtxType
        <5> QED BY <3>1, <3>2, <5>2 DEF Linked, OneRequest
      <4>2. PlainUnderWay' /\ InflightHeld' /\ TimersClosing'
        BY <3>1, <3>2, <3>6, <4>1 DEF UnderWay, PlainUnderWay, InflightHeld, TimersClosing
      <4> QED BY <4>2 DEF UnderWay
    <3> QED BY <3>1, <3>4, <3>5, <3>6
  <2> QED BY <2>1, <2>2, <2>3
<1>8. CASE CheckTimeout
  <2>1. CASE \E f, v : Fault(f, v)
    BY <2>1, <1>a
  <2>2. CASE ~\E f, v : Fault(f, v)
    <3>1. /\ UNCHANGED <<rst, kind, rctx, inflight, wsReq, queue, phase>>
          /\ \A c \in Ctx : \/ cst'[c] = cst[c]
                            \/ cst'[c] = "closing" /\ c \in clients /\ id[c] \in tracked
      BY <1>8, <2>2 DEF CheckTimeout, CloseClients
    <3>2. TimersClosing'
      BY <3>1, OverdueIsWs DEF UnderWay, TimersClosing
    <3> QED BY <3>1, <3>2, UnderWayStays
  <2> QED BY <2>1, <2>2
<1>9. CASE OnServerClosed
  BY <1>9, <1>0 DEF OnServerClosed
<1>10. ASSUME NEW c \in Ctx, OnClose(c) PROVE UnderWay'
  <2> DEFINE R == IF wsReq[c] = None THEN {} ELSE {wsReq[c]}
  <2>1. R \in SUBSET Req
    BY DEF TypeOK, CtxType
  <2>2. /\ FreeReqs(R) /\ UNCHANGED <<kind, rctx, inflight, queue, phase>> /\ phase = "closing"
        /\ \A d \in Ctx \ {c} : cst'[d] = cst[d]
        /\ \A r \in Req : inflight[r] => rctx[r] # c
    BY <1>10 DEF OnClose, TypeOK, CtxType
  <2> HIDE DEF R
  <2>3. \A q \in Req : rst'[q] = "live" => rst[q] = "live"
    BY <2>1, <2>2, Released
  <2>4. PlainUnderWay' /\ InflightHeld' /\ TimersClosing'
    BY <2>2, <2>3, QueueStays DEF UnderWay, PlainUnderWay, InflightHeld, TimersClosing
  <2> QED BY <2>4 DEF UnderWay
<1>11. CASE NextPhase
  <2>1. /\ UNCHANGED <<ctxVars, reqVars, queue>>
        /\ phase' = "timers" => \A c \in Ctx : cst[c] # "closing"
    BY <1>11 DEF NextPhase
  <2> QED BY <2>1, UnderWayStays DEF TimersClosing
<1>12. CASE Halted \/ UNCHANGED vars
  BY <1>12, <1>0 DEF Halted, vars
<1> QED
  BY <1>1, <1>2, <1>3, <1>4, <1>5, <1>6, <1>7, <1>8, <1>9, <1>10, <1>11, <1>12
     DEF Next, Written, Timers, Closed

-----------------------------------------------------------------------------
(* The map clients and the keepalive table lose nobody.                      *)

\* Peers that wait for their answers; a server that is stopped serves no MJPEG
\* (a repeating answer outlives stop and takes a new client's id along).
Regular == "pipeline" \notin Env /\ ("stop" \in Env => "mjpeg" \notin Kinds)

\* No two contexts have the same id, although ids restart with the server ...
UniqueIds == \A c, d \in Ctx : Alive(c) /\ Alive(d) /\ id[c] = id[d] => c = d

\* ... because the ids given so far are known while it listens ...
Counted == server = "listening" => \A c \in Ctx : Alive(c) => id[c] <= counter

\* ... and when it does not, what is left is closed before it can be started.
Stopped ==
    server # "listening" =>
        /\ queue = <<>>
        /\ \A c \in Ctx : Alive(c) => /\ cst[c] = "closing" /\ phase # "timers"
                                      /\ server = "down" => phase = "closing"

\* Only requests keep a closed context, and no repeating one where there is stop.
ClosedHolds == \A c \in Ctx : cst[c] = "closed" => \E r \in Req : rst[r] = "live" /\ rctx[r] = c
NoRepeats ==
    "stop" \in Env \/ server # "listening" => \A r \in Req : rst[r] = "live" => kind[r] # "mjpeg"

Listed == UniqueIds /\ Counted /\ Stopped /\ ClosedHolds /\ NoRepeats /\ StopClosesAll /\ Served

\* A step that leaves all that alone.
LEMMA ListedStays ==
  ASSUME Listed, UNCHANGED <<cst, id, wsReq, rst, kind, rctx, server, clients, counter, phase,
                             registry, tracked>>,
         queue' = queue \/ server = "listening"
  PROVE  Listed'
BY DEF Listed, UniqueIds, Counted, Stopped, ClosedHolds, NoRepeats, StopClosesAll, Served, Viewing, Alive

\* Fewer contexts have fewer ids.
LEMMA FewerIds ==
  ASSUME UniqueIds, Counted, UNCHANGED id, \A c \in Ctx : Alive(c)' => Alive(c),
         UNCHANGED <<server, counter>> \/ server' # "listening"
  PROVE  UniqueIds' /\ Counted'
BY DEF UniqueIds, Counted

\* ~client_context erases no other context from clients.
LEMMA RemovesOnly ==
  ASSUME TypeOK, ClientsAlive, UniqueIds, NEW F \in SUBSET Ctx, \A f \in F : Alive(f)
  PROVE  RemoveClients(F) = clients \ F
<1>1. \A c \in clients : c \in Ctx /\ Alive(c)
  BY DEF TypeOK, LoopType, ClientsAlive
<1>2. \A c \in clients \ F, f \in F : id[f] # id[c]
  BY <1>1 DEF UniqueIds
<1>3. \A c \in clients \cap F : \E f \in F : id[f] = id[c]
  OBVIOUS
<1> QED BY <1>2, <1>3 DEF RemoveClients

\* requestEnd takes only what belongs to the released requests out of the tables.
LEMMA EndsOnly ==
  ASSUME TypeOK, Owned, Linked, UniqueIds, NEW R \in SUBSET Req, \A r \in R : rst[r] = "live",
         RequestEnd(R)
  PROVE  /\ \A d \in Ctx : wsReq[d] # None /\ wsReq[d] \notin R =>
               /\ wsReq[d] \in registry => wsReq[d] \in registry'
               /\ id[d] \in tracked => id[d] \in tracked'
         /\ tracked' \subseteq tracked
         /\ \A r \in R : kind[r] = "stream" => id[rctx[r]] \notin tracked'
<1>1. ASSUME NEW d \in Ctx, wsReq[d] # None, wsReq[d] \notin R, NEW r \in R
      PROVE  rctx[r] # d /\ rctx[r] \in Ctx /\ Alive(rctx[r])
  <2>1. wsReq[d] \in Req /\ rst[wsReq[d]] = "live" /\ rctx[wsReq[d]] = d
    BY <1>1 DEF Owned, WsReqOwned, TypeOK, CtxType
  <2>2. rctx[r] # d
    BY <1>1, <2>1 DEF Linked, OneRequest
  <2> QED BY <2>2 DEF Owned, ContextOutlivesRequests
<1>2. ASSUME NEW d \in Ctx, wsReq[d] # None, wsReq[d] \notin R, wsReq[d] \in registry
      PROVE  wsReq[d] \in registry'
  <2>1. \A r \in R : ~SameKey(wsReq[d], r)
    BY <1>1, <1>2 DEF SameKey, Owned, WsReqOwned
  <2> QED BY <1>2, <2>1 DEF RequestEnd
<1>3. ASSUME NEW d \in Ctx, wsReq[d] # None, wsReq[d] \notin R, id[d] \in tracked
      PROVE  id[d] \in tracked'
  <2>1. Alive(d)
    BY <1>3, NoWsReq
  <2>2. \A r \in R : id[rctx[r]] # id[d]
    BY <1>1, <1>3, <2>1 DEF UniqueIds
  <2> QED BY <1>3, <2>2 DEF RequestEnd
<1>4. tracked' \subseteq tracked /\ \A r \in R : kind[r] = "stream" => id[rctx[r]] \notin tracked'
  BY DEF RequestEnd
<1> QED BY <1>2, <1>3, <1>4

\* release_http_write_req, with the contexts F that it deletes.
LEMMA ServedFree ==
  ASSUME TypeOK, Owned, Linked, UniqueIds, Served,
         NEW R \in SUBSET Req, \A r \in R : rst[r] = "live",
         FreeReqs(R), RequestEnd(R), UNCHANGED <<kind, rctx, id>>,
         NEW F \in SUBSET Ctx, clients' = clients \ F,
         \A c \in F : wsReq[c] = None \/ wsReq[c] \in R,
         \A c \in Ctx : cst'[c] = "open" => cst[c] = "open"
  PROVE  Served'
<1>1. \A c \in Ctx : /\ wsReq'[c] \in {None, wsReq[c]}
                     /\ wsReq'[c] = None <=> wsReq[c] = None \/ \E r \in R : rctx[r] = c
  BY Released
<1>2. ASSUME NEW c \in Ctx, wsReq[c] # None, wsReq[c] \notin R PROVE wsReq'[c] = wsReq[c]
  <2>1. wsReq[c] \in Req /\ rst[wsReq[c]] = "live" /\ rctx[wsReq[c]] = c
    BY <1>2 DEF Owned, WsReqOwned, TypeOK, CtxType
  <2>2. \A r \in R : rctx[r] # c
    BY <1>2, <2>1 DEF Linked, OneRequest
  <2> QED BY <1>1, <1>2, <2>2
<1>3. ASSUME NEW c \in Ctx, wsReq'[c] # None
      PROVE  wsReq[c] # None /\ wsReq[c] \notin R /\ wsReq'[c] = wsReq[c]
  <2>1. wsReq[c] # None /\ wsReq'[c] = wsReq[c] /\ \A r \in R : rctx[r] # c
    BY <1>1, <1>3
  <2> QED BY <2>1 DEF Owned, WsReqOwned
<1>4. ASSUME NEW c \in Ctx, cst'[c] = "open", Viewing(c)'
      PROVE  wsReq'[c] \in registry' /\ id'[c] \in tracked'
  BY <1>3, <1>4, EndsOnly DEF Served, Viewing
<1>5. ASSUME NEW k \in tracked' PROVE \E c \in clients' : id'[c] = k /\ Viewing(c)'
  <2>1. PICK c \in clients : id[c] = k /\ wsReq[c] # None /\ kind[wsReq[c]] = "stream"
    BY EndsOnly DEF Served, Viewing
  <2>2. c \in Ctx
    BY DEF TypeOK, LoopType
  <2>3. wsReq[c] \notin R
    BY <2>1, <2>2, EndsOnly DEF Owned, WsReqOwned
  <2>4. wsReq'[c] = wsReq[c] /\ c \in clients'
    BY <1>2, <2>1, <2>2, <2>3
  <2> QED BY <2>1, <2>4 DEF Viewing
<1> QED BY <1>4, <1>5 DEF Served

\* requestStart tells the tables of the new request and of no other.
LEMMA ServedNew ==
  ASSUME TypeOK, Owned, Linked, Listed, NEW c \in Ctx, NEW r \in Req, NEW k,
         NewReq(c, r, k), RequestStart(c, r, k), cst' = cst, cst[c] = "open", wsReq[c] = None,
         UNCHANGED <<id, clients, server, counter, phase>>,
         queue' = queue \/ server = "listening",
         \/ k \in PlainKinds /\ wsReq' = wsReq /\ ("stop" \in Env => k # "mjpeg")
         \/ k \in SocketKinds /\ wsReq' = [wsReq EXCEPT ![c] = r]
  PROVE  Listed'
<1>1. /\ rst[r] = "none" /\ rst'[r] = "live" /\ kind'[r] = k /\ rctx'[r] = c
      /\ \A q \in Req \ {r} : rst'[q] = rst[q] /\ kind'[q] = kind[q] /\ rctx'[q] = rctx[q]
  BY DEF NewReq, TypeOK, ReqType
<1>2. \A d \in Ctx \ {c} : wsReq'[d] = wsReq[d]
  BY DEF TypeOK, CtxType
<1>3. server = "listening" /\ c \in clients
  BY DEF Listed, StopClosesAll
<1>4. UniqueIds' /\ Counted' /\ Stopped' /\ StopClosesAll'
  BY <1>3 DEF Listed, UniqueIds, Counted, Stopped, StopClosesAll, Alive
<1>5. ClosedHolds' /\ NoRepeats'
  BY <1>1, <1>3 DEF Listed, ClosedHolds, NoRepeats
<1>6. \A d \in Ctx \ {c} : wsReq[d] # None /\ wsReq[d] \in registry => wsReq[d] \in registry'
  BY DEF RequestStart, Owned, WsReqOwned
<1>7. tracked \subseteq tracked' /\ tracked' \subseteq tracked \cup {id[c]}
  BY DEF RequestStart
<1>8. /\ k \in SocketKinds => wsReq'[c] = r
      /\ k = "stream" => r \in registry' /\ id[c] \in tracked'
  BY DEF RequestStart, TypeOK, CtxType
<1>9. /\ k # "stream" => tracked' = tracked
      /\ k \in PlainKinds => wsReq'[c] = None
  BY DEF RequestStart
<1>10. Viewing(c)' <=> k = "stream"
  BY <1>1, <1>8, <1>9, ConstantsAssumption DEF Viewing
<1>11. ASSUME NEW d \in Ctx \ {c} PROVE Viewing(d)' <=> Viewing(d)
  <2>1. wsReq[d] # None => wsReq[d] \in Req \ {r}
    BY <1>1 DEF Owned, WsReqOwned, TypeOK, CtxType
  <2> QED BY <1>1, <1>2, <2>1 DEF Viewing
<1>12. ASSUME NEW d \in Ctx, cst[d] = "open", Viewing(d)'
       PROVE  wsReq'[d] \in registry' /\ id[d] \in tracked'
  <2>1. CASE d = c
    BY <1>8, <1>10, <1>12, <2>1
  <2>2. CASE d # c
    BY <1>2, <1>6, <1>7, <1>11, <1>12, <2>2 DEF Listed, Served, Viewing
  <2> QED BY <2>1, <2>2
<1>13. ASSUME NEW x \in tracked' PROVE \E d \in clients : id[d] = x /\ Viewing(d)'
  <2>1. CASE x \in tracked
    <3>1. PICK d \in clients : id[d] = x /\ Viewing(d)
      BY <2>1 DEF Listed, Served
    <3>2. d \in Ctx \ {c}
      BY <3>1 DEF TypeOK, LoopType, Viewing
    <3> QED BY <1>11, <3>1, <3>2
  <2>2. CASE x \notin tracked
    BY <1>3, <1>7, <1>9, <1>10, <1>13, <2>2
  <2> QED BY <2>1, <2>2
<1> QED BY <1>4, <1>5, <1>12, <1>13 DEF Listed, Served

\* stop leaves only contexts that are being closed.
LEMMA StopLeavesClosing ==
  ASSUME TypeOK, Owned, ClientsAlive, Linked, UnderWay, Listed,
         NEW R, R = {r \in Req : Queued(r)}, \A r \in R : rst[r] = "live",
         cst' = [c \in Ctx |-> CASE c \in Orphans(R) -> "freed"
                                 [] c \in StopTargets(Orphans(R)) -> "closing"
                                 [] OTHER -> cst[c]],
         NEW c \in Ctx, Alive(c)'
  PROVE  Alive(c) /\ cst'[c] = "closing"
<1> DEFINE F == Orphans(R)
           C == StopTargets(F)
<1>1. F \in SUBSET Ctx /\ \A f \in F : Alive(f)
  BY DEF Orphans, Alive
<1>2. C = {d \in clients \ F : cst[d] \in {"open", "closing"}}
  <2>1. RemoveClients(F) = clients \ F
    <3> HIDE DEF F
    <3> QED BY <1>1, RemovesOnly DEF Listed
  <2> QED BY <2>1 DEF StopTargets
<1>3. cst'[c] = CASE c \in F -> "freed" [] c \in C -> "closing" [] OTHER -> cst[c]
  OBVIOUS
<1> HIDE DEF C
<1>4. CASE cst[c] = "closed"
  <2>1. PICK r \in Req : rst[r] = "live" /\ rctx[r] = c
    BY <1>4 DEF Listed, ClosedHolds
  <2>2. kind[r] \in PlainKinds
    BY <1>4, <2>1, ConstantsAssumption DEF Linked, WsLinked, ClosedNone, TypeOK, ReqType
  <2>3. r \in R
    BY <1>4, <2>1, <2>2 DEF UnderWay, PlainUnderWay, InflightHeld
  <2>4. LiveReqs(c) = {r}
    BY <2>1 DEF LiveReqs, Linked, OneRequest
  <2>5. {q \in R : rctx[q] = c} = {r}
    BY <2>1, <2>3 DEF Linked, OneRequest
  <2>6. reqs[c] = Cardinality({q \in R : rctx[q] = c})
    BY <2>4, <2>5 DEF Owned, ReqsCounted
  <2>7. c \in F
    BY <1>4, <2>1, <2>3, <2>6 DEF Orphans, LastReqs
  <2>8. cst'[c] = "freed"
    <3> HIDE DEF F
    <3> QED BY <1>2, <1>3, <2>7
  <2> QED BY <2>8 DEF Alive
<1>5. CASE cst[c] # "closed"
  <2> HIDE DEF F
  <2>1. c \notin F /\ Alive(c)
    BY <1>2, <1>3 DEF Alive
  <2>2. cst[c] = "open" => c \in C
    BY <1>2, <2>1 DEF Listed, StopClosesAll
  <2> QED BY <1>2, <1>3, <1>5, <2>1, <2>2 DEF Alive
<1> QED BY <1>4, <1>5

\* Every step keeps the tables complete.
LEMMA ListedStep ==
  ASSUME Regular, TypeOK, Owned, ClientsAlive, Linked, UnderWay, Listed, [Next]_vars
  PROVE  Listed'
<1> USE DEF ctxVars, reqVars, loopVars, streamVars
<1>0. ASSUME NEW f, NEW v, Fault(f, v) PROVE Listed'
  BY <1>0, ListedStays DEF Fault
<1>b. \A c \in clients : c \in Ctx /\ Alive(c)
  BY DEF TypeOK, LoopType, ClientsAlive
<1>1. CASE Start
  <2>1. server = "down" /\ phase = "poll" /\ server' = "listening"
        /\ UNCHANGED <<cst, id, wsReq, rst, kind, rctx, clients, registry, tracked>>
    BY <1>1 DEF Start
  <2>2. \A c \in Ctx : ~Alive(c)
    BY <2>1 DEF Listed, Stopped
  <2> QED BY <2>1, <2>2
      DEF Listed, UniqueIds, Counted, Stopped, ClosedHolds, NoRepeats, StopClosesAll, Served, Viewing, Alive
<1>2. CASE Stop
  <2> DEFINE R == {r \in Req : Queued(r)}
             F == Orphans(R)
             C == StopTargets(F)
  <2>1. CASE \E f, v : Fault(f, v)
    BY <1>0, <2>1
  <2>2. CASE ~\E f, v : Fault(f, v)
    <3>1. /\ \A r \in R : rst[r] = "live"
          /\ FreeReqs(R)
          /\ cst' = [c \in Ctx |-> CASE c \in F -> "freed"
                                      [] c \in C -> "closing"
                                      [] OTHER -> cst[c]]
          /\ server' = IF server = "listening" THEN "closing" ELSE server
          /\ queue' = <<>> /\ tracked' = {} /\ phase = "poll" /\ "stop" \in Env
          /\ UNCHANGED <<id, kind, rctx, phase>>
      BY <1>2, <2>2 DEF Stop, Flush
    <3>2. \A c \in Ctx : Alive(c)' => Alive(c) /\ cst'[c] = "closing"
      BY <3>1, StopLeavesClosing
    <3>3. \A q \in Req : rst'[q] = "live" => rst[q] = "live"
      <4>1. R \in SUBSET Req
        OBVIOUS
      <4> HIDE DEF R
      <4> QED BY <3>1, <4>1, Released
    <3> HIDE DEF R, F, C
    <3>4. server' # "listening" /\ (server' = "down" => server = "down")
      BY <3>1
    <3>5. UniqueIds' /\ Counted'
      BY <3>1, <3>2, <3>4, FewerIds DEF Listed
    <3>6. Stopped'
      BY <3>1, <3>2, <3>4 DEF Listed, Stopped
    <3>7. ClosedHolds' /\ StopClosesAll' /\ Served'
      BY <3>1, <3>2 DEF ClosedHolds, StopClosesAll, Served, Viewing, Alive
    <3>8. NoRepeats'
      BY <3>1, <3>3 DEF Listed, NoRepeats
    <3> QED BY <3>5, <3>6, <3>7, <3>8 DEF Listed
  <2> QED BY <2>1, <2>2
<1>3. ASSUME NEW c \in Ctx, OnConnection(c) PROVE Listed'
  <2> DEFINE K == {d \in clients : id[d] # counter + 1}
  <2>1. /\ server = "listening" /\ cst[c] = "none" /\ counter' = counter + 1
        /\ \A d \in Ctx \ {c} : cst'[d] = cst[d]
        /\ id'[c] = counter + 1 /\ \A d \in Ctx \ {c} : id'[d] = id[d]
        /\ cst'[c] \in {"open", "closing", "freed"}
        /\ UNCHANGED <<wsReq, rst, kind, rctx, server, phase, registry, tracked>>
    BY <1>3 DEF OnConnection, TypeOK, CtxType
  <2>2. \A d \in Ctx : Alive(d) => id[d] \in Nat /\ id[d] <= counter
    BY <2>1 DEF Listed, Counted, TypeOK, CtxType
  <2>3. counter \in Nat
    BY DEF TypeOK, LoopType
  <2>4. \A d \in Ctx : Alive(d) => id[d] # counter + 1
    BY <2>2, <2>3
  <2>5. K = clients
    BY <1>b, <2>4
  <2>6. clients' \in {clients, clients \cup {c}} /\ (cst'[c] = "open" => c \in clients')
    BY <1>3, <2>5 DEF OnConnection, TypeOK, CtxType
  <2> HIDE DEF K
  <2>7. ~Alive(c) /\ wsReq[c] = None
    BY <2>1, NoWsReq DEF Alive
  <2>8. \A d \in Ctx : Alive(d)' => d = c \/ Alive(d)
    BY <2>1 DEF Alive
  <2>9. UniqueIds'
    BY <2>1, <2>4, <2>8 DEF Listed, UniqueIds
  <2>10. Counted'
    <3>1. \A d \in Ctx : Alive(d)' => id'[d] <= counter + 1
      BY <2>1, <2>2, <2>3, <2>8
    <3> QED BY <2>1, <3>1 DEF Counted
  <2>11. Stopped' /\ ClosedHolds' /\ NoRepeats' /\ StopClosesAll'
    BY <2>1, <2>6 DEF Listed, Stopped, ClosedHolds, NoRepeats, StopClosesAll
  <2>12. Served'
    <3>1. \A d \in clients : d # c
      BY <1>b, <2>7
    <3>2. \A d \in Ctx : cst'[d] = "open" /\ wsReq[d] # None => d # c /\ cst[d] = "open"
      BY <2>1, <2>7
    <3> QED BY <1>b, <2>1, <2>6, <3>1, <3>2 DEF Listed, Served, Viewing
  <2> QED BY <2>9, <2>10, <2>11, <2>12 DEF Listed
<1>4. CASE Read
  <2>1. ASSUME NEW c \in Ctx, NEW r \in Req, NEW k \in Kinds, OnReadUpgrade(c, r, k) PROVE Listed'
    BY <2>1, ServedNew DEF OnReadUpgrade, Readable
  <2>2. ASSUME NEW c \in Ctx, NEW r \in Req, NEW k \in Kinds, OnReadHttp(c, r, k)
        PROVE  Listed'
    <3>1. k \in PlainKinds /\ ("stop" \in Env => k # "mjpeg")
      BY <2>2 DEF OnReadHttp, Regular
    <3>2. server = "listening"
      BY <2>2 DEF OnReadHttp, Readable, Listed, StopClosesAll
    <3> QED BY <2>2, <3>1, <3>2, ServedNew DEF OnReadHttp, Readable
  <2>3. ASSUME NEW c \in Ctx, NEW t \in {"text", "other"}, OnReadFrame(c, t) PROVE Listed'
    <3>1. server = "listening"
      BY <2>3 DEF OnReadFrame, Readable, Listed, StopClosesAll
    <3> QED BY <2>3, <3>1, <1>0, ListedStays DEF OnReadFrame
  <2>4. ASSUME NEW c \in Ctx, OnReadClose(c) PROVE Listed'
    BY <2>4, ListedStays DEF OnReadClose
  <2>5. ASSUME NEW c \in Ctx, OnReadEof(c) PROVE Listed'
    <3>1. /\ cst[c] = "open" /\ cst' = [cst EXCEPT ![c] = "closing"]
          /\ UNCHANGED <<id, wsReq, rst, kind, rctx, server, queue, clients, counter, phase,
                         registry, tracked>>
      BY <2>5 DEF OnReadEof, Readable
    <3> QED BY <3>1 DEF Listed, UniqueIds, Counted, Stopped, ClosedHolds, NoRepeats, StopClosesAll,
                        Served, Viewing, Alive, TypeOK, CtxType
  <2> QED BY <1>4, <2>1, <2>2, <2>3, <2>4, <2>5 DEF Read
<1>5. ASSUME NEW c \in Ctx, OnCloseWritten(c) PROVE Listed'
  <2>1. CASE Fault("double_close", c)
    BY <2>1, <1>0
  <2>2. CASE ~Fault("double_close", c)
    <3>1. /\ cst[c] = "open" /\ cst' = [cst EXCEPT ![c] = "closing"]
          /\ UNCHANGED <<id, wsReq, rst, kind, rctx, server, queue, clients, counter, phase,
                         registry, tracked>>
      BY <1>5, <2>2 DEF OnCloseWritten
    <3> QED BY <3>1 DEF Listed, UniqueIds, Counted, Stopped, ClosedHolds, NoRepeats, StopClosesAll,
                        Served, Viewing, Alive, TypeOK, CtxType
  <2> QED BY <2>1, <2>2
<1>6. ASSUME NEW r \in Req, OnWrite(r) PROVE Listed'
  <2>1. CASE Fault("use_after_free", r)
    BY <2>1, <1>0
  <2>2. CASE rst[r] = "live" /\ FreeReqs({r}) /\ RequestEnd({r}) /\ queue' = queue
    <3>1. /\ UNCHANGED <<cst, id, kind, rctx, server, clients, counter, phase>>
          /\ cst[rctx[r]] # "closed"
      BY <1>6, <2>2 DEF OnWrite, Fault
    <3>2. \A q \in Req : rst'[q] = IF q = r THEN "freed" ELSE rst[q]
      BY <2>2 DEF FreeReqs
    <3>3. Served'
      <4> DEFINE F == {}
      <4>1. clients' = clients \ F /\ F \in SUBSET Ctx /\ \A d \in F : wsReq[d] = None
        BY <3>1
      <4> HIDE DEF F
      <4> QED BY <2>2, <3>1, <4>1, ServedFree DEF Listed
    <3>4. UniqueIds' /\ Counted' /\ Stopped' /\ StopClosesAll'
      BY <2>2, <3>1 DEF Listed, UniqueIds, Counted, Stopped, StopClosesAll, Alive
    <3>5. ClosedHolds' /\ NoRepeats'
      BY <3>1, <3>2 DEF Listed, ClosedHolds, NoRepeats
    <3> QED BY <3>3, <3>4, <3>5 DEF Listed
  <2>3. CASE UNCHANGED <<cst, id, wsReq, rst, kind, rctx, server, clients, counter, phase,
                         registry, tracked>> /\ (queue' = queue \/ server = "listening")
    BY <2>3, ListedStays
  <2>4. rst[r] = "live" /\ kind[r] = "mjpeg" => server = "listening"
    BY DEF Listed, NoRepeats
  <2> QED BY <1>6, <2>1, <2>2, <2>3, <2>4 DEF OnWrite
<1>7. CASE OnSend
  <2> DEFINE r == Head(queue)
             F == Orphans({r})
  <2>1. CASE \E f, v : Fault(f, v)
    BY <2>1, <1>0
  <2>2. CASE queue = <<>>
    BY <1>7, <2>2, ListedStays DEF OnSend
  <2>3. CASE queue # <<>> /\ ~\E f, v : Fault(f, v)
    <3>1. /\ rst[r] = "live" /\ UNCHANGED <<id, kind, rctx, server, counter, phase>>
          /\ \/ /\ cst[rctx[r]] = "closed"
                /\ FreeReqs({r}) /\ RequestEnd({r})
                /\ cst' = [d \in Ctx |-> IF d \in F THEN "freed" ELSE cst[d]]
                /\ clients' = RemoveClients(F)
             \/ UNCHANGED <<cst, wsReq, rst, clients, registry, tracked>>
      BY <1>7, <2>3 DEF OnSend
    <3>2. r \in Req /\ server = "listening"
      BY <2>3 DEF TypeOK, LoopType, Listed, Stopped
    <3> HIDE DEF r
    <3>3. CASE UNCHANGED <<cst, wsReq, rst, clients, registry, tracked>>
      BY <3>1, <3>2, <3>3, ListedStays
    <3>4. CASE /\ cst[rctx[r]] = "closed" /\ FreeReqs({r}) /\ RequestEnd({r})
               /\ cst' = [d \in Ctx |-> IF d \in F THEN "freed" ELSE cst[d]]
               /\ clients' = RemoveClients(F)
      <4>1. rctx[r] \in Ctx
        BY <3>1, <3>2 DEF Owned, ContextOutlivesRequests
      <4>2. F = {rctx[r]}
        <5>1. LiveReqs(rctx[r]) = {r}
          BY <3>1, <3>2 DEF LiveReqs, Linked, OneRequest
        <5>2. {q \in {r} : rctx[q] = rctx[r]} = {r}
          OBVIOUS
        <5>3. LastReqs(rctx[r], {r})
          BY <4>1, <5>1, <5>2 DEF LastReqs, Owned, ReqsCounted
        <5> QED BY <3>4, <4>1, <5>3 DEF Orphans
      <4> HIDE DEF F
      <4>3. F \in SUBSET Ctx /\ \A f \in F : Alive(f) /\ wsReq[f] = None
        BY <3>4, <4>1, <4>2 DEF Alive, Linked, ClosedNone
      <4>4. clients' = clients \ F
        BY <3>4, <4>3, RemovesOnly DEF Listed
      <4>5. /\ \A d \in Ctx : cst'[d] = IF d \in F THEN "freed" ELSE cst[d]
            /\ \A q \in Req : rst'[q] = IF q = r THEN "freed" ELSE rst[q]
        BY <3>4 DEF FreeReqs
      <4>6. Served'
        BY <3>1, <3>2, <3>4, <4>3, <4>4, <4>5, ServedFree DEF Listed
      <4>7. \A d \in Ctx : Alive(d)' => Alive(d)
        BY <4>5 DEF Alive
      <4>8. UniqueIds' /\ Counted'
        BY <3>1, <4>7, FewerIds DEF Listed
      <4>9. Stopped' /\ NoRepeats'
        BY <3>1, <3>2, <4>5 DEF Listed, Stopped, NoRepeats
      <4>10. StopClosesAll'
        BY <3>1, <4>4, <4>5 DEF Listed, StopClosesAll
      <4>11. ClosedHolds'
        BY <3>1, <4>2, <4>5 DEF Listed, ClosedHolds
      <4> QED BY <4>6, <4>8, <4>9, <4>10, <4>11 DEF Listed
    <3> QED BY <3>1, <3>3, <3>4
  <2> QED BY <2>1, <2>2, <2>3
<1>8. CASE CheckTimeout
  <2>1. CASE \E f, v : Fault(f, v)
    BY <2>1, <1>0
  <2>2. CASE ~\E f, v : Fault(f, v)
    <3>1. phase = "timers" /\ \E K : LET C == {c \in clients : id[c] \in K}
             IN  /\ tracked' = tracked \ K /\ CloseClients(C)
                 /\ UNCHANGED <<id, wsReq, rst, kind, rctx, server, queue, counter, phase, registry>>
      BY <1>8, <2>2 DEF CheckTimeout
    <3>2. PICK K : LET C == {c \in clients : id[c] \in K}
             IN  /\ tracked' = tracked \ K /\ CloseClients(C)
                 /\ UNCHANGED <<id, wsReq, rst, kind, rctx, server, queue, counter, phase, registry>>
      BY <3>1
    <3> DEFINE C == {c \in clients : id[c] \in K}
    <3>3. /\ clients' = clients \ C
          /\ \A c \in Ctx : cst'[c] = IF c \in C THEN "closing" ELSE cst[c]
      BY <3>2 DEF CloseClients
    <3>4. \A c \in C : Alive(c)
      BY <1>b
    <3>5. \A c \in clients : c \in C <=> id[c] \in K
      OBVIOUS
    <3>6. C \subseteq clients
      OBVIOUS
    <3> HIDE DEF C
    <3>7. \A c \in Ctx : Alive(c)' => Alive(c)
      BY <3>3, <3>4 DEF Alive
    <3>8. UniqueIds' /\ Counted'
      BY <3>2, <3>7, FewerIds DEF Listed
    <3>9. Stopped' /\ ClosedHolds' /\ NoRepeats'
      BY <3>1, <3>2, <3>3, <3>7 DEF Listed, Stopped, ClosedHolds, NoRepeats
    <3>10. StopClosesAll'
      BY <3>2, <3>3 DEF Listed, StopClosesAll
    <3>11. Served'
      <4>1. ASSUME NEW c \in Ctx, cst'[c] = "open", Viewing(c)
            PROVE  wsReq[c] \in registry /\ id[c] \in tracked \ K
        <5>1. cst[c] = "open" /\ c \in clients /\ c \notin C
          BY <3>3, <4>1 DEF Listed, StopClosesAll
        <5> QED BY <3>5, <4>1, <5>1 DEF Listed, Served
      <4>2. ASSUME NEW x \in tracked \ K PROVE \E c \in clients \ C : id[c] = x /\ Viewing(c)
        BY <3>5 DEF Listed, Served
      <4> QED BY <3>2, <3>3, <4>1, <4>2 DEF Served, Viewing
    <3> QED BY <3>8, <3>9, <3>10, <3>11 DEF Listed
  <2> QED BY <2>1, <2>2
<1>9. CASE OnServerClosed
  <2>1. /\ server = "closing" /\ server' = "down" /\ phase = "closing"
        /\ UNCHANGED <<cst, id, wsReq, rst, kind, rctx, queue, clients, counter, phase, registry,
                       tracked>>
    BY <1>9 DEF OnServerClosed
  <2> QED BY <2>1
      DEF Listed, UniqueIds, Counted, Stopped, ClosedHolds, NoRepeats, StopClosesAll, Served, Viewing, Alive
<1>10. ASSUME NEW c \in Ctx, OnClose(c) PROVE Listed'
  <2> DEFINE R == IF wsReq[c] = None THEN {} ELSE {wsReq[c]}
             F == IF LastReqs(c, R) THEN {c} ELSE {}
  <2>1. R \in SUBSET Req /\ \A r \in R : rst[r] = "live" /\ rctx[r] = c /\ kind[r] \in SocketKinds
    BY DEF TypeOK, CtxType, Owned, WsReqOwned
  <2>2. wsReq[c] = None \/ wsReq[c] \in R
    OBVIOUS
  <2>3. /\ FreeReqs(R) /\ RequestEnd(R)
        /\ UNCHANGED <<id, kind, rctx, server, queue, counter, phase>> /\ phase = "closing"
        /\ cst[c] = "closing" /\ \A d \in Ctx \ {c} : cst'[d] = cst[d]
        /\ cst'[c] = IF LastReqs(c, R) THEN "freed" ELSE "closed"
        /\ clients' = IF LastReqs(c, R) THEN RemoveClients({c}) ELSE clients
        /\ \A r \in Req : inflight[r] => rctx[r] # c
    BY <1>10 DEF OnClose, TypeOK, CtxType
  <2> HIDE DEF R
  <2>4. clients' = clients \ F /\ F \in SUBSET {c}
    <3>1. RemoveClients({c}) = clients \ {c}
      BY <2>3, RemovesOnly DEF Listed, Alive
    <3> QED BY <2>3, <3>1
  <2>5. \A q \in Req : rst'[q] = IF q \in R THEN "freed" ELSE rst[q]
    BY <2>1, <2>3, Released
  <2>6. ASSUME ~LastReqs(c, R)
        PROVE  \E q \in Req : rst[q] = "live" /\ rctx[q] = c /\ q \notin R
    <3>1. {r \in R : rctx[r] = c} = R
      BY <2>1
    <3>2. LiveReqs(c) # R
      BY <2>6, <3>1 DEF LastReqs, Owned, ReqsCounted
    <3> QED BY <2>1, <3>2 DEF LiveReqs
  <2>7. server # "listening" => LastReqs(c, R)
    <3> SUFFICES ASSUME server # "listening", NEW q \in Req,
                        rst[q] = "live", rctx[q] = c, q \notin R
                 PROVE  FALSE
      BY <2>6
    <3>1. ~Queued(q)
      BY DEF Listed, Stopped, Queued
    <3>2. kind[q] \in SocketKinds
      BY <2>3, <3>1 DEF UnderWay, PlainUnderWay, TypeOK, ReqType
    <3>3. wsReq[c] = q
      BY <3>2 DEF Linked, WsLinked
    <3> QED BY <2>2, <3>3, ConstantsAssumption
  <2> HIDE DEF F
  <2>8. \A d \in Ctx : Alive(d)' => Alive(d)
    BY <2>3 DEF Alive
  <2>9. UniqueIds' /\ Counted'
    BY <2>3, <2>8, FewerIds DEF Listed
  <2>10. Stopped'
    BY <2>3, <2>7 DEF Listed, Stopped, Alive
  <2>11. ClosedHolds'
    <3> SUFFICES ASSUME NEW d \in Ctx, cst'[d] = "closed"
                 PROVE  \E q \in Req : rst'[q] = "live" /\ rctx[q] = d
      BY <2>3 DEF ClosedHolds
    <3>1. CASE d = c
      BY <2>3, <2>5, <2>6, <3>1
    <3>2. CASE d # c
      BY <2>1, <2>3, <2>5, <3>2 DEF Listed, ClosedHolds
    <3> QED BY <3>1, <3>2
  <2>12. NoRepeats'
    BY <2>3, <2>5 DEF Listed, NoRepeats
  <2>13. StopClosesAll'
    BY <2>3, <2>4 DEF Listed, StopClosesAll
  <2>14. Served'
    <3>1. /\ F \in SUBSET Ctx /\ \A d \in F : wsReq[d] = None \/ wsReq[d] \in R
          /\ \A d \in Ctx : cst'[d] = "open" => cst[d] = "open"
      BY <2>2, <2>3, <2>4
    <3> QED BY <2>1, <2>3, <2>4, <3>1, ServedFree DEF Listed
  <2> QED BY <2>9, <2>10, <2>11, <2>12, <2>13, <2>14 DEF Listed
<1>11. CASE NextPhase
  <2>1. /\ UNCHANGED <<cst, id, wsReq, rst, kind, rctx, server, queue, clients, counter,
                       registry, tracked>>
        /\ \/ phase = "timers" /\ phase' = "poll"
           \/ phase = "poll" /\ phase' = "closing"
           \/ /\ phase = "closing" /\ phase' = "timers" /\ \A c \in Ctx : cst[c] # "closing"
    BY <1>11 DEF NextPhase
  <2>2. Stopped'
    BY <2>1 DEF Listed, Stopped, Alive
  <2> QED BY <2>1, <2>2
      DEF Listed, UniqueIds, Counted, ClosedHolds, NoRepeats, StopClosesAll, Served, Viewing, Alive
<1>12. CASE Halted \/ UNCHANGED vars
  BY <1>12, ListedStays DEF Halted, vars
<1> QED
  BY <1>1, <1>2, <1>3, <1>4, <1>5, <1>6, <1>7, <1>8, <1>9, <1>10, <1>11, <1>12
     DEF Next, Written, Timers, Closed

\* Nobody has connected at first.
LEMMA ListedInit == Init => Linked /\ UnderWay /\ Listed
<1> SUFFICES ASSUME Init PROVE Linked /\ UnderWay /\ Listed
  OBVIOUS
<1>1. Linked
  BY DEF Init, Linked, OneRequest, WsLinked, ClosedNone
<1>2. UnderWay
  BY DEF Init, UnderWay, PlainUnderWay, InflightHeld, TimersClosing
<1>3. UniqueIds /\ Counted /\ Stopped
  BY DEF Init, UniqueIds, Counted, Stopped, Alive
<1>4. ClosedHolds /\ NoRepeats /\ StopClosesAll /\ Served
  BY DEF Init, ClosedHolds, NoRepeats, StopClosesAll, Served
<1> QED BY <1>1, <1>2, <1>3, <1>4 DEF Listed

\* All of it together, for peers that wait for their answers.
LEMMA RegularHolds == ASSUME Regular PROVE Spec => [](Linked /\ UnderWay /\ Listed)
<1> DEFINE All == Linked /\ UnderWay /\ Listed
<1>1. ClientsAlive /\ TypeOK /\ Owned /\ All /\ [Next]_vars => All'
  BY LinkedStep, UnderWayStep, ListedStep DEF Regular, Listed
<1>2. Init => All
  BY ListedInit
<1> HIDE DEF All
<1>3. Spec => []All
  BY <1>1, <1>2, OwnedInit, OwnedStep, TypeCorrect, ClientsAreAlive, PTL DEF Spec
<1> QED BY <1>3, PTL DEF All

\* Every answer to a plain request is on its way, queued or in the socket: the
\* queue drops none, whoever disconnects, is refused or times out meanwhile.
THEOREM PlainRequestsUnderWay == ASSUME Regular PROVE Spec => []PlainUnderWay
<1>1. Linked /\ UnderWay /\ Listed => PlainUnderWay
  BY DEF UnderWay
<1> QED BY <1>1, RegularHolds, PTL

\* A viewer of /stream is in the table of the frames and in that of the keepalive
\* check as long as it is connected: no other peer's leaving takes it from them.  A
\* WebSocket of /ws/test is in neither, and the check looks for nobody else.
THEOREM ViewersAreServed == ASSUME Regular PROVE Spec => []WsServed
<1>1. TypeOK /\ Owned /\ Watched /\ Linked /\ UnderWay /\ Listed => WsServed
  <2> SUFFICES ASSUME TypeOK, Owned, Watched, Listed PROVE WsServed
    OBVIOUS
  <2>1. ASSUME NEW c \in Ctx, cst[c] = "open", wsReq[c] # None
        PROVE  wsReq[c] \in registry <=> kind[wsReq[c]] = "stream"
    BY <2>1 DEF Listed, Served, Viewing, Watched, RegistryLive, Owned, WsReqOwned
  <2>2. ASSUME NEW c \in Ctx, cst[c] = "open", wsReq[c] # None
        PROVE  id[c] \in tracked <=> kind[wsReq[c]] = "stream"
    <3>1. ASSUME id[c] \in tracked PROVE Viewing(c)
      <4>1. PICK d \in clients : id[d] = id[c] /\ Viewing(d)
        BY <3>1 DEF Listed, Served
      <4>2. d \in Ctx /\ Alive(d)
        BY <4>1, NoWsReq DEF TypeOK, LoopType, Viewing
      <4>3. d = c
        BY <2>2, <4>1, <4>2 DEF Listed, UniqueIds, Alive
      <4> QED BY <4>1, <4>3
    <3> QED BY <2>2, <3>1 DEF Listed, Served, Viewing
  <2>3. \A k \in tracked : \E c \in clients :
           id[c] = k /\ wsReq[c] # None /\ kind[wsReq[c]] = "stream"
    BY DEF Listed, Served, Viewing
  <2> QED BY <2>1, <2>2, <2>3 DEF WsServed
<1>2. Spec => [](TypeOK /\ Owned /\ Watched)
  BY OwnedInit, OwnedStep, WatchedInit, WatchedStep, TypeCorrect, PTL DEF Spec
<1> QED BY <1>1, <1>2, RegularHolds, PTL

\* stop closes every connection, and what it leaves is gone when the server is
\* started again, so that no new client is given an id in use.
THEOREM StopClosesEverything == ASSUME Regular PROVE Spec => []StopClosesAll
<1>1. Linked /\ UnderWay /\ Listed => StopClosesAll
  BY DEF Listed
<1> QED BY <1>1, RegularHolds, PTL

\* HttpPeers only watches: what it lets happen are the behaviours of HttpServer,
\* so that every theorem of this module holds of its runs.
THEOREM HurriedIsServer == HurriedSpec => Spec
<1>1. HurriedInit => Init
  BY DEF HurriedInit
<1>2. [HurriedNext]_<<vars, hurried>> => [Next]_vars
  <2>1. CalmStep => Next
    BY DEF CalmStep, Next, Read, Written, Timers, Closed
  <2>2. HurryingStep => Next
    BY DEF HurryingStep, Next, Read, Written, Timers
  <2> QED BY <2>1, <2>2 DEF HurriedNext
<1> QED BY <1>1, <1>2, PTL DEF HurriedSpec, Spec
=============================================================================
