---------------------------- MODULE FramePipeline ---------------------------
(***************************************************************************)
(* src/src/stream.cpp and frame.cpp: the main loop thread, on which viewers*)
(* come and go and sendFrame runs, and the worker thread, on which frames  *)
(* are captured and encoded.  Each wakes the other with a uv_async handle: *)
(* a frame is made, sent, the next one is made.  What is passed round is   *)
(* called the turn here; nothing else keeps the threads off the one frame  *)
(* buffer they share.                                                      *)
(*                                                                         *)
(* libuv is external: uv_async_send may be called by any thread, and sends *)
(* that are not handled yet coalesce.                                      *)
(***************************************************************************)
EXTENDS Naturals, FiniteSets

CONSTANTS Ws,       \* viewers on a WebSocket
          Mjpeg,    \* viewers of /mjpeg, registered without a WsResponse
          Encoder,  \* EncodeType: "h264" or "jpeg"
          KeyInt,   \* i_keyint_max: frames from one key frame to the next
          Env       \* what the environment may do, see EnvChoices

(***************************************************************************)
(* "rejoin"     a viewer enters an empty room while the turn that earlier  *)
(*              viewers started is still on its way                        *)
(* "capfail"    the screen cannot be captured                              *)
(***************************************************************************)
EnvChoices == {"rejoin", "capfail"}

Viewer == Ws \cup Mjpeg

ASSUME PipelineAssumption ==
    /\ IsFiniteSet(Ws) /\ IsFiniteSet(Mjpeg) /\ Ws \cap Mjpeg = {}
    /\ Encoder \in {"h264", "jpeg"}
    /\ KeyInt \in Nat \ {0}
    /\ Env \subseteq EnvChoices

VARIABLES
    \* Stream
    reqs,       \* _reqs
    running,    \* _running
    terminal,   \* _terminal; the worker's handles are closing too
    async,      \* _async: is a callback on the main loop pending?
    wasync,     \* _worker_async: is one on the worker loop pending?
    wtimer,     \* is _worker_timer armed?
    \* FrameH264
    keyFrame,   \* _key_frame: make the next one a key frame
    forced,     \* the value of _key_frame that encode was called with
    gop,        \* x264: frames since the last key frame; 0: the next one is one
    curKey,     \* is the frame in _frame a key frame?
    unsent,     \* frames put into _frame since sendFrame sent one (2: or more)
    \* where the threads are
    main,       \* "loop", "send" (reads _frame), "jpeg" (capJpegFrame), "join",
                \* "exit"
    worker,     \* "poll", "capture", "encode" (writes _frame), "signal", "exit"
    \* what the player of each WebSocket has: "out"; "new", "late", "starved"
    \* (no key frame in 0, 1, more frames); "unsure" (none, but it came during
    \* an encode); "synced"; "broken" (a frame that others refer to is missing
    \* or was decoded twice)
    view

frameVars  == <<keyFrame, forced, gop, curKey, unsent>>
roomVars   == <<reqs, running, terminal>>
wakeVars   == <<async, wasync, wtimer>>
threadVars == <<main, worker>>
vars == <<roomVars, wakeVars, frameVars, threadVars, view>>

TypeOK ==
    /\ reqs \subseteq Viewer /\ running \in BOOLEAN /\ terminal \in BOOLEAN
    /\ async \in BOOLEAN /\ wasync \in BOOLEAN /\ wtimer \in BOOLEAN
    /\ keyFrame \in BOOLEAN /\ forced \in BOOLEAN /\ curKey \in BOOLEAN
    /\ gop \in 0..KeyInt - 1 /\ unsent \in 0..2
    /\ main \in {"loop", "send", "jpeg", "join", "exit"}
    /\ worker \in {"poll", "capture", "encode", "signal", "exit"}
    /\ view \in [Ws -> {"out", "new", "late", "starved", "unsure", "synced", "broken"}]

\* _key_frame has no initialiser.
Init ==
    /\ reqs = {} /\ running = FALSE /\ terminal = FALSE
    /\ async = FALSE /\ wasync = FALSE /\ wtimer = FALSE
    /\ keyFrame \in BOOLEAN /\ forced = FALSE /\ gop = 0 /\ curKey = FALSE /\ unsent = 0
    /\ main = "loop" /\ worker = "poll"
    /\ view = [v \in Ws |-> "out"]

-----------------------------------------------------------------------------
\* The turn: where it may be.
AtWorker == wasync \/ wtimer \/ worker \notin {"poll", "exit"}
AtMain == async \/ main = "send"
Turn == AtWorker \/ AtMain

\* What the player makes of a frame.
Received(v) ==
    IF curKey THEN "synced"
    ELSE CASE v = "synced" -> IF unsent = 1 THEN "synced" ELSE "broken"
           [] v = "new" -> "late"
           [] v = "late" -> "starved"
           [] OTHER -> v

\* Stream::requestStart.
FirstIn_Always(R) == TRUE  \* slip: the worker is woken for every viewer
FirstIn_Never(R) == R = {}  \* slip: size() == 0 after the insertion
FirstIn(R) == Cardinality(R) = 1

AskKey_No == keyFrame  \* slip: setKeyFrame not called
AskKey == TRUE

Join(v) ==
    /\ main = "loop" /\ v \in Viewer \ reqs
    /\ reqs = {} /\ Turn => "rejoin" \in Env
    /\ reqs' = reqs \cup {v}
    /\ keyFrame' = AskKey
    /\ running' = (running \/ FirstIn(reqs'))
    /\ wasync' = (wasync \/ FirstIn(reqs'))
    /\ view' = [w \in Ws |-> IF w # v THEN view[w]
                            ELSE IF worker = "encode" THEN "unsure" ELSE "new"]
    /\ UNCHANGED <<terminal, async, wtimer, forced, gop, curKey, unsent, threadVars>>

\* Stream::requestEnd; stop may have cleared the registry before.
Leave(v) ==
    /\ main = "loop" /\ v \in Viewer
    /\ reqs' = reqs \ {v}
    /\ running' = (running /\ reqs' # {})
    /\ view' = [w \in Ws |-> IF w = v THEN "out" ELSE view[w]]
    /\ UNCHANGED <<terminal, wakeVars, frameVars, threadVars>>

\* Stream::start and Stream::stop, with the server.
Start ==
    /\ main = "loop"
    /\ running' = TRUE
    /\ UNCHANGED <<reqs, terminal, wakeVars, frameVars, threadVars, view>>

Stop ==
    /\ main = "loop"
    /\ running' = FALSE /\ reqs' = {}
    /\ view' = [w \in Ws |-> "out"]
    /\ UNCHANGED <<terminal, wakeVars, frameVars, threadVars>>

\* async_cb: sendFrame reads the frame and its size ...
SendBegins_Unless(R) == TRUE  \* slip: the early return dropped
SendBegins(R) == R # {} /\ running

BeginSend ==
    /\ main = "loop" /\ async
    /\ async' = FALSE
    /\ main' = IF SendBegins(reqs) THEN "send" ELSE "loop"
    /\ UNCHANGED <<roomVars, wasync, wtimer, frameVars, worker, view>>

\* ... then wakes the worker, and writes to every WebSocket.
Awaken_Not == wasync  \* slip: the worker is not woken
Awaken == TRUE

\* WsResponse::send, to whoever is in the room.
Sends == [v \in Ws |-> IF v \in reqs THEN Received(view[v]) ELSE view[v]]

EndSend ==
    /\ main = "send"
    /\ main' = "loop"
    /\ wasync' = Awaken
    /\ view' = Sends /\ unsent' = 0
    /\ UNCHANGED <<roomVars, async, wtimer, keyFrame, forced, gop, curKey, worker>>

\* capJpegFrame, for the next part of an MJPEG answer, on the main thread.
BeginJpeg ==
    /\ main = "loop" /\ reqs \cap Mjpeg # {}
    /\ main' = "jpeg"
    /\ UNCHANGED <<roomVars, wakeVars, frameVars, worker, view>>

EndJpeg ==
    /\ main = "jpeg" /\ main' = "loop"
    /\ UNCHANGED <<roomVars, wakeVars, frameVars, worker, view>>

\* Stream::close, after the main loop has returned: captures fail from now on,
\* the worker is woken and its handles are closed; then the worker is joined.
CloseWakes_Not == wasync  \* slip: uv_async_send forgotten
CloseWakes == TRUE

Close ==
    /\ main = "loop"
    /\ running' = FALSE /\ reqs' = {} /\ terminal' = TRUE
    /\ wasync' = CloseWakes /\ wtimer' = FALSE /\ async' = FALSE
    /\ view' = [w \in Ws |-> "out"]
    /\ main' = "join"
    /\ UNCHANGED <<frameVars, worker>>

Joined ==
    /\ main = "join" /\ worker = "exit"
    /\ main' = "exit"
    /\ UNCHANGED <<roomVars, wakeVars, frameVars, worker, view>>

-----------------------------------------------------------------------------
\* worker_cb: the next frame is due in d milliseconds, or at once.  At the end
\* the loop stops: by uv_stop, or because its handles are closed.
WorkerCb ==
    /\ worker = "poll" /\ wasync
    /\ wasync' = FALSE
    /\ \/ terminal /\ worker' = "exit" /\ UNCHANGED wtimer
       \/ ~terminal /\ ~running /\ UNCHANGED <<worker, wtimer>>
       \/ ~terminal /\ running /\ wtimer' = TRUE /\ UNCHANGED worker
       \/ ~terminal /\ running /\ worker' = "capture" /\ UNCHANGED wtimer
    /\ UNCHANGED <<roomVars, async, frameVars, main, view>>

\* worker_timer_cb does not look at _running.
WorkerTimer ==
    /\ worker = "poll" /\ wtimer
    /\ wtimer' = FALSE /\ worker' = "capture"
    /\ UNCHANGED <<roomVars, async, wasync, frameVars, main, view>>

\* next: captureBgra (ScreenCapture), then encodeBGRA fills _frame.
Capture ==
    /\ worker = "capture"
    /\ worker' = "encode" /\ forced' = keyFrame
    /\ UNCHANGED <<roomVars, wakeVars, keyFrame, gop, curKey, unsent, main, view>>

CaptureFails ==
    /\ worker = "capture"
    /\ terminal \/ "capfail" \in Env
    /\ worker' = "signal"
    /\ UNCHANGED <<roomVars, wakeVars, frameVars, main, view>>

\* Every frame of FrameJpeg can be shown on its own.
IsKey == Encoder = "jpeg" \/ forced \/ gop = 0

NextGop == (IF IsKey THEN 1 ELSE gop + 1) % KeyInt

Encoded ==
    /\ worker = "encode"
    /\ worker' = "signal"
    /\ curKey' = IsKey
    /\ gop' = NextGop
    /\ keyFrame' = FALSE
    /\ unsent' = IF unsent = 2 THEN 2 ELSE unsent + 1
    /\ UNCHANGED <<roomVars, wakeVars, forced, main, view>>

\* The main loop is told, even if there is no new frame.
Signal ==
    /\ worker = "signal"
    /\ worker' = "poll"
    /\ async' = ~terminal
    /\ UNCHANGED <<roomVars, wasync, wtimer, frameVars, main, view>>

MainStep == BeginSend \/ EndSend \/ EndJpeg \/ Joined
WorkerStep == WorkerCb \/ Capture \/ CaptureFails \/ Encoded \/ Signal

Next ==
    \/ \E v \in Viewer : Join(v) \/ Leave(v)
    \/ Start \/ Stop \/ BeginJpeg \/ Close
    \/ MainStep \/ WorkerStep \/ WorkerTimer

\* Both threads run, also while MJPEG answers keep the main loop busy: libuv
\* serves every handle in each round.  That a capture returns is CaptureReturns
\* and StopFrees of ScreenCapture.
Fairness ==
    /\ SF_vars(BeginSend) /\ WF_vars(EndSend) /\ WF_vars(EndJpeg) /\ WF_vars(Joined)
    /\ WF_vars(WorkerStep) /\ WF_vars(WorkerTimer)

Spec == Init /\ [][Next]_vars /\ Fairness

-----------------------------------------------------------------------------
(***************************************************************************)
(* As long as anybody watches, the pipeline is switched on and the turn is *)
(* somewhere: the early returns of sendFrame and worker_cb, which drop the *)
(* turn, never leave a room with a viewer in which nobody makes a frame.   *)
(***************************************************************************)
TurnAlive == reqs # {} => running /\ Turn

(***************************************************************************)
(* No lock guards _frame.  sendFrame (its size, its data) and the worker's *)
(* next are never in it at once; nor, as both use _frame_jpeg if frames    *)
(* are JPEG, capJpegFrame and next.                                        *)
(***************************************************************************)
NoRace ==
    worker = "encode" => /\ main # "send"
                         /\ main = "jpeg" => Encoder = "h264"

(***************************************************************************)
(* A player that has begun with a key frame gets each later frame once and *)
(* in order: none is encoded and never sent, none is sent twice.           *)
(***************************************************************************)
Decodable == \A v \in Ws : view[v] # "broken"

(***************************************************************************)
(* requestStart asks for a key frame for the viewer it lets in: of the     *)
(* first two frames a viewer gets, one can be shown on its own, unless it  *)
(* came during an encode, whose end overwrites the request.                *)
(***************************************************************************)
KeyPrompt == \A v \in Ws : view[v] # "starved"

(***************************************************************************)
(* Even if a request for a key frame is lost, every viewer who stays gets  *)
(* a picture: the threads keep waking each other until a key frame is due. *)
(***************************************************************************)
KeyArrives ==
    \A v \in Ws : view[v] \notin {"synced", "out"} ~> view[v] \in {"synced", "out"}

(***************************************************************************)
(* Nobody is watched for nothing: when the last viewer has left, and nobody*)
(* comes, capturing and encoding come to rest, also if the server is       *)
(* stopped and started meanwhile.                                          *)
(***************************************************************************)
Rests == reqs = {} ~> (reqs # {} \/ ~Turn)

(***************************************************************************)
(* Stream::close returns: wherever the worker is when it is called, it     *)
(* comes to its end and is joined.                                         *)
(***************************************************************************)
WorkerStops == main = "join" ~> main = "exit"
=============================================================================
