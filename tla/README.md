# DeskShare: specifications and proofs

DeskShare shares a screen with web browsers. One process captures the screen, encodes it
(H.264 or JPEG) and serves it over HTTP: as a WebSocket stream to `player.js`, or as an
endless `multipart/x-mixed-replace` answer at `/mjpeg`. This directory holds TLA+ models of
the parts of it that are hard to test, the TLC runs that check them, and theorems about them
that TLAPS proves for every value of the constants. Paths are relative to `src/src/`.

- [The system](#the-system)
- [Modules](#modules), and how they correspond to the code
- [Runs](#runs), their bounds, and what they show
- [Fairness](#fairness)
- [Proofs](#proofs)
- [What the models say about the code](#what-the-models-say-about-the-code)
- [Not modelled](#not-modelled)
- [Plan](#plan)

## The system

| Part | State | Operations | Talks to |
|---|---|---|---|
| `HttpServer` (`server.cpp`) | a `client_context` per connection (`reqs`, `ws_req`, `closed`, `id`), an `http_write_req` per request, `clients`, `client_counter`, `write_queue`, a 1 ms write timer, an idle timer | accept, read (HTTP, upgrade, frames, close), queued writes, close, `closeClient`, start, stop | libuv; the responses of `pages` |
| `pages` (`pages.cpp`) | routes; `TimeoutTimerQueue`: client id → last sign of life | `onRequestStart`/`onRequestEnd` of `/mjpeg` and `/stream` (`/ws/test`, the other WebSocket, has none), a check every 30 s | `HttpServer`, `Stream` |
| `Stream` (`stream.cpp`) | `_reqs` (who watches), `_running`, `_terminal`, two `uv_async_t`, a timer, the worker thread | `requestStart`, `requestEnd`, `sendFrame`, the worker's callbacks, start, stop, `close` | `Frame`, `WsResponse::send` |
| `Frame`, `H264Encoder` (`frame.cpp`, `h264/`) | `_frame`, `_key_frame`, `_key`, the encoder and the parameters it was made for | `next`, `setKeyFrame`, `init`, `encode` | `Capturer`, x264 |
| `ScreenCapture` (`capture/darwin/`) | `running_`, `ready_`, `buf_`, mutex and condition variable, the helper with its capture session | capture callbacks, `captureBGRA`, `start`, `stop` | AVFoundation |
| `Capturer` (`capture/`) | none | scaling, conversion, platform calls | `ScreenCapture` |
| WebSocket framing (`websocket.cpp`) | none | pack, parse, unmask | |
| Command line (`main.cpp`, `utils.cpp`) | `g_config` | `parse_args`; Ctrl+C stops the loop | all |
| GUI (`main_gui.cpp`, `gui.cpp`) | `running`, `on_stop`, `g_config`; which of preview, details, about text and log is shown; the preview's pixels | start and stop by `uv_async_send`, `pages::setup` on options, timers of FLTK, a preview | loop thread, `Stream`, `Capturer` |
| Player (`assets/*.js`) | a socket, a keepalive interval, the decoder | play, pause, PING every 3 s | `HttpServer` |
| Logger (`logger.cpp`) | level, mask, streams | `log`, `LogStream` | standard error, the window |

Four kinds of thread meet. The *loop thread* runs `HttpServer`, `pages` and half of `Stream`,
all of it in libuv callbacks. The *worker* of `Stream` captures and encodes. *Capture
callbacks* of the system store frames in `ScreenCapture`. The *GUI thread* sends requests to
the loop thread, and calls `pages::setup` and the preview itself.

What makes each part correct, and is hard to test:

- **HttpServer.** Contexts and requests are deleted by whichever callback sees the last use of
  them: a close callback, the callback of a write, the write timer, stop. None may be used
  afterwards, none leaked, none closed twice; ids, which start again with each start, must
  still name one connection; a viewer registered with `Stream` must be alive.
- **Stream.** The two threads share one frame buffer without a lock. They are kept apart only
  because each wakes the other when it has finished: the *turn* must exist while anybody
  watches, and there must be only one. A new viewer needs a key frame, then every frame.
- **ScreenCapture.** The usual duties of a monitor (exclusion, no lost wakeup), and that stop,
  which takes no lock, still sets everybody free: `Stream::close` joins a thread that may wait.
- **Keepalive, idle timeout.** Silent clients are closed and talking ones are not; a server that
  answers does not end, and one that only streams lives by the PINGs of its viewers.
- **Bytes.** TCP cuts and joins what browsers send; each message is still answered, in order, by
  what was asked for. Frames are understood on both sides.
- **Encoder.** It encodes the picture it was opened for, though the screen and the settings
  change under it, captures and initialisations fail, and its key is rounded.
- **GUI and command line.** Start, stop and exit in any order reach a server that can take them;
  the button, the preview and the rates tell what is so; the stream follows the options.
- **Player.** What plays is kept alive and can be paused; pictures reach the decoder for them.

The hazards behind these, at their lines, are listed in `PROJECT.json`; those that no model reaches
are under [Not modelled](#not-modelled).

## Modules

| Module | Models | Composes / refines |
|---|---|---|
| `HttpServer` | connections and requests of `server.cpp` with the callbacks of `pages.cpp` (`TimeoutTimerQueue`, `Stream::requestStart/End` as seen by the server) | |
| `HttpPeers` | whose peer did not wait: a history variable beside `HttpServer` | extends `HttpServer` |
| `FramePipeline` | `stream.cpp`, `frame.cpp`: the threads, wakeups and frames | |
| `ScreenCapture` | the macOS monitor, a step per access others can see | implements `FrameHandoff` |
| `FrameHandoff` | abstract: a slot for one frame, `Put` and `Take` | |
| `Control` | `main_gui.cpp`, `main.cpp`: start, stop and quit between two threads | |
| `IdleTimer` | the idle timeout of `server.cpp`, with a clock | |
| `Panel` | the lower half of the window (`gui.cpp`), with its timers | |
| `Desk` | the program around its server | composes `Control`, `IdleTimer`, `Panel` |
| `WsFrame` | packing and parsing of WebSocket frames (`websocket.cpp`), byte by byte | |
| `Inbound` | what one connection sends and gets: `on_read`, routes, answers | uses `Utils`, `Responses` |
| `Responses` | class `Response`, what is written of one, the buffer of answers | |
| `Utils`, `Logger` | the functions on texts of `utils.cpp`, `ua.hpp`, `server.cpp`; `logger.cpp` | |
| `Text` | these functions next to what they are for | uses `Utils`, `Logger` |
| `Options` | `parse_args`, the fields of the window, `setup` | |
| `FrameEncoder` | `next` of both frames: sizes, keys, failures | |
| `Stats` | the counter behind the frame rates | |
| `Preview` | the memory of the picture in the window | |
| `Player` | `player.js`: sockets, intervals, button, decoders | |
| `Parts` | the eight that share no state | composes `WsFrame`, `Inbound`, `Text`, `Options`, `FrameEncoder`, `Player`, `Stats`, `Preview` |
| `*_proofs` | theorems about each; those of `Control`, `IdleTimer` and `Panel` are in `Desk_proofs`, those of `WsFrame`, `Options`, `FrameEncoder`, `Player`, `Stats` and `Preview` in `Parts_proofs`, those of `Utils` and `Logger` in `Text_proofs` | |
| `SequenceLemmas` | what the proofs about texts need to know of numbers, recursive functions and sequences | |
| `MC*` | values for TLC that a configuration cannot express | |

Definitions named `X_Something` before a definition `X`, marked *slip*, are wrong variants of
`X`. No specification uses them: they are what each property has been tried against.

**HttpServer.** `cst` follows a context from "open" to "closing" (`uv_close` called), "closed"
(`on_close` has run, `ctx->closed`) and "freed"; `rst`, `kind`, `rctx` and `inflight` describe a
request. One action is one callback: `OnConnection`, `OnReadHttp`, `OnReadUpgrade`,
`OnReadFrame`, `OnReadClose`, `OnReadEof`, `OnWrite`, `OnCloseWritten`, `OnSend`,
`CheckTimeout`, `OnClose`, and `Start`, `Stop`, `OnServerClosed` for the GUI's requests. Each
contains what its callback calls: `RequestStart`/`RequestEnd` are the callbacks that `pages`
installs, `FreeReqs` and `Orphans` are `release_http_write_req` and the deletion of a context in
it. `phase` is libuv's order inside an iteration (timers, I/O, close callbacks), on which the
code depends. Where the program would touch a deleted object, close a handle twice or hand one
`uv_write_t` to libuv twice, the model sets `fault` and stops: what follows is undefined, so
nothing is claimed of it. Time is reduced to "the next tick of the 1 ms timer is due" and "a
client is overdue"; a TEXT frame counts as a sign of life until its answer leaves the queue,
since no answer waits there for 30 s. `kind` is what was asked for: a page, `/mjpeg`, or the upgrade to
one of the two WebSockets. Only `/mjpeg` and `/stream` have callbacks (`WatchKinds`), so a WebSocket of
`/ws/test` answers frames but is neither in `_reqs` nor in the keepalive table, and stays open for ever if
its peer says nothing.

**HttpPeers** adds `hurried`, the connections whose WebSocket got another frame, lost its peer or was closed
by the server while its own answer was queued or being written. `on_close` and a second frame misuse that
answer's request; `OnlyHurried` says that nobody else's request is ever misused. Each of its steps is an
action of `HttpServer` (`HurriedIsServer`), and the passing runs of the server use it.

**FramePipeline.** `async` and `wasync` are the two `uv_async_t` (several sends before the
callback are one), `wtimer` the worker's timer. `main` and `worker` say where each thread is;
`sendFrame` and `next` take two steps each, so that the threads can overlap. `view` is what a
player can make of the frames it got, "synced" after a key frame, "broken" when a frame that
others refer to was skipped or decoded twice, "starved" after two frames without a key frame,
"unsure" if it came during an encode, whose end overwrites its request for one.
`unsent` counts frames encoded since one was sent. `_key_frame` has no initialiser in the code
and starts with either value here.

**ScreenCapture.** `pc` is a thread's place between two accesses that others can see: wanting
the mutex, having tested the condition, asleep, having passed, copying, about to notify. `stop`
is three steps and `start` two, none under the mutex, as in the code. The threads are the serial
queues of the capture sessions, and consumers: the worker and the GUI's preview
(`gui.cpp:247`). Spurious wakeups are a step of their own.

`Handoff` in `ScreenCapture` is the specification of `FrameHandoff` under an explicit substitution:
the slot holds `buf_` from the end of the copy into it to the end of the copy out of it.

**Control.** `gui` and `loop` are the two threads' places; a callback that several things can
happen in (`async_start_cb`, the callback of `stop`) has a step for each access to what is shared:
`running`, `on_stop`, the two async handles (`pending`) and FLTK's queue (`awakes`). A round of the
loop runs stop before start, then close callbacks. `button`, `active` and `line` are what the window
shows: the button and the line below it, to which each answer writes (`Shows`, `Says`). `asked` records who asked for something since
all was quiet, `hasty` an operator who acts before the last answer to him is on the screen (`Answered`): for a
stop the button, for a start the line below it. Both answers are ahead of the program: `on_start` sends its own
before `running = true`, the callback of stop before `running = false` and `on_stop`. `early` records where
the loop thread was (`Ahead`) when an operator acted on an answer he had seen. No step depends on these.
`fault` is what the program may not do: send to a handle that is not initialised,
initialise a server that listens or closes, assign `on_stop` while the other thread calls it, read
the addresses for the line while `on_start` writes them into the same static stream.
`ui = "cli"` is `main.cpp`.

**IdleTimer** counts milliseconds: `age` since `idl_time` was set, `unused` since an answer left, `unseen`
since a frame was sent to a viewer that has sent a PING, `due` until the timer fires. The write timer runs
each millisecond; it sets the clock only when it finds `write_queue` empty, and then stops. Frames
(`SendFrame`) bypass the queue and do neither; the answers to PINGs, which `player.js` sends every `Ping`
milliseconds, pass it. So a server whose timeout is not longer than that interval ends while it streams.
`timeout * 1000` is taken modulo `Word`.

**Panel.** `flags` are `show_preview` and its like, `ticks`, `refreshes` and `abouts` count armed
timers of each kind, since FLTK removes none when its flag is reset. `PreviewOn` is called by every
handler that does, as in the code.

**Desk.** Without the window, the clock of `IdleTimer` and the loop of `Control` are composed step by
step: a start arms the clock, its expiry stops the loop. With the window the expiry may come
whenever a server is up. `Panel` shares nothing with them.

**WsFrame** packs and parses whole headers. `char` is signed, as on the platforms the program is built for,
so that a 16-bit length with a low byte of 128 or more comes out wrong, and the mask is read at
offset 2 whatever the header's length. Payload bytes are 0 or 1, which makes the mask a sum
modulo 2; payloads have no period of four, so that a mask at the wrong place shows.

**Inbound.** A message is two pieces; TCP delivers any number of pieces at once. What is parsed from
the middle of a message is a nondeterministic choice. Answers are written by `Responses` into a
buffer, kept between the answers of a WebSocket, and read back (`Understood`): a length that is
announced is compared with what follows. `hurried` and `cut` record visitors that do not wait and
frames that come in parts.

**Text** holds one operation of a text and what it should give: the parts that were joined come out
of `split`, a template shows its values, a path spelled with more slashes leads to its page. A
text is a sequence of words, with the separators that the code looks for among them.

**FrameEncoder** follows one `next`: capture, comparison of the key, initialisation, encode, with
`setup` at any time between. Sizes are those of either system: macOS scales by `scale_`, Windows rounds
up. The key, `w * h * _quality * _fps`, is computed in floats of 24 bits before it is kept as a double:
`Floats` is the conversion to the nearest of `Mantissa` numbers times a power of two, ties to even, and
`Keys` a product of three of them. `keyed` remembers what the last key was made of. **Stats** has a step for each access to the counter, by two readers and the sender.
**Preview** gives memory an address, so that the image's pointer into a vector that grew is seen
to be stale. **Options** carries settings from the command line and the fields to the frame in use.

**Player.** `sock` is each socket ever made, `cur` the one `this.ws` names; `running` the intervals,
`ws_keepalive` the one handle that they share. `overlapped` records that a socket was made while
another was not closed.

**Parts** puts together modules that share no variable: a behaviour is one of one of them.

**Environments.** Each specification has a constant `Env`, the set of things peers, the system
and the operator may do beyond the ordinary. Invariants that hold whatever happens are checked
with all of them; others need some of them to be absent, and the run says which. This is how
the project states what the code relies on.

## Runs

| Run | Environment | Checks |
|---|---|---|
| `http_any` | everything | reference counts exact, contexts outlive requests, `clients` and `_reqs` hold nothing deleted, plain requests are in one place, a request is misused only on a connection that was hurried itself |
| `http_viewers` | disconnects, keepalive, failed accepts | nothing undefined; every answer under way; every WebSocket of `/stream` registered and kept alive, none of `/ws/test`; closed contexts are deleted (liveness) |
| `http_restart_mjpeg` | stop and start, `/mjpeg` | **violated**, see below |
| `http_pipeline` | requests before the last answer | **violated**, see below |
| `pipeline_any` | re-entered rooms, failed captures; JPEG | while somebody watches, the pipeline is on and the turn exists; an empty room comes to rest, `close` returns (liveness) |
| `pipeline_steady` | none; H.264 | threads never meet in the frame, no frame lost or repeated, one of a new viewer's first two frames is a key frame; every viewer gets a picture (liveness) |
| `capture_any` | everything | exclusion, no lost wakeup between frames and consumers |
| `capture_session` | none | implements `FrameHandoff`; `captureBGRA` returns, after stop every thread leaves for good (liveness) |
| `capture_lost_wakeup` | late threads | **violated**, see below |
| `capture_failed_start` | failed starts | **violated**, see below |
| `desk` | an operator who clicks at any time, an idle timeout at any time, starts that fail | `Desk`: an operator who acts when the answer is on the screen causes nothing undefined, but for the moment before `running = true` and the race in `on_stop`; at rest the button tells the truth; the idle timeout ends a server in time, and none that sent answers, or frames to viewers that ping; the panel follows its flags and timers; closing the window ends the program, a clicked button comes back, a loop told to stop ends, a window without the focus stops capturing (liveness) |
| `parts` | TCP that cuts and joins, screens and settings that change, captures and encoders that fail, sockets that close at any time | `Parts`: frames are understood on both sides; every message is answered; texts come out as meant; the stream follows the options; the encoder encodes what it was opened for; the player agrees with its sockets; what the window shows is so |

**Bounds.** `HttpServer`: 2 or 3 connections and 3 requests. Two connections and three requests
give a WebSocket with a plain request before it, an MJPEG answer beside it, and an id used again
after a restart; a context or request is used once, so the sets also bound how many ever exist.
`http_any` leaves out `/ws/test`, whose WebSocket does less than that of `/stream`, and
`http_viewers` has it. `MaxQueue` (3, and 2 in `http_any`) bounds the queue, in which only a WebSocket's request can stand twice, and
`MaxCloseWrites` (2) the close frames under way, two being what a double close needs.
`FramePipeline`: two WebSocket viewers (one that is synchronised while the other comes) and one
or two of `/mjpeg`; `KeyInt` 4 lets a lost request show, as three frames without a key frame
follow. No action is bounded: viewers come and go for ever. `ScreenCapture`: two sessions
(capturing is started again while a callback of the first is still waiting), two consumers
for the invariants and one for the liveness properties (with two, one may take every frame and the
other starve, which is why the preview of the GUI can lag), two frames, so that taking the wrong
one shows. `Control`: `MaxAwakes` (3) answers wait when the button is clicked,
one more than a start and a stop leave behind; `MaxTimers` (3) timers of one kind, two being what
a flag reset and set again needs. `IdleTimer` runs with a second of 2, a minute of 5, PINGs every 3 and a word of
64 units and one answer at a time in the queue, a PING that is due being a second: the timeouts 0, 1, 4 and 33 give none, one below a minute, one above, and one whose
product wraps. `WsFrame`: lengths on both sides of every limit of the header, of a close frame's
reason and of bytes that are negative as `char`; those up to `MaxParsed` (300) are parsed from
every number of bytes that ends in a header or next to the end. `Inbound`: three messages, so that
one follows an answer that followed another. `Text`: texts of up to four parts, messages of the log
cut after three words. `Options`: one option, then the window without a bound: options do not
depend on each other. `FrameEncoder`: floats of 5 bits and screens of 40 by 41 pixels, the
same turned, 41 by 41, whose area a float does not always tell from theirs (with equal areas instead of
`Close` ones the property fails), and a larger one; qualities of 20 and 30
thirty-seconds and rates of 2 and 3, which can be exchanged. `Player`: three sockets, so that one may close late
while another opens. `Stats`: four frames and four milliseconds. `Preview`: a wide screen, the same
turned, and a square one with more pixels, in a wide box; three chains of timers.

Symmetry is used in runs without liveness only. Deadlock is checked in `HttpServer`, where the loop always has a next step; the
others may stop (nobody watches, or the program has ended) and say `CHECK_DEADLOCK FALSE`.

## Fairness

- `HttpServer`: the loop thread runs what is due (`OnSend`, `NextPhase`, the close callbacks and
  the writes cancelled by a close), and a millisecond passes (`Tick`, strong, since the phase in
  which it is noticed comes and goes). Nothing is assumed of peers, and writes to a slow peer
  need never complete.
- `FramePipeline`: both threads take the steps that are enabled; `BeginSend` strongly, since an
  MJPEG answer can keep the main thread busy between two rounds of the loop, each of which serves
  every handle. That a capture returns is what `ScreenCapture` is about.
- `ScreenCapture`: threads run, a mutex that is free again and again is obtained (`SF` of `Test`),
  sessions deliver frames, calls of `start` and `stop` go on. Nobody is obliged to call anything.
- `Desk`: both threads go on with what they have begun, and timers of FLTK fire. Nobody is obliged to
  click, and neither the idle timeout nor Ctrl+C need ever come.
- `Parts` has safety properties only, and no fairness.

## Proofs

All theorems are for any finite sets of connections, requests and viewers, any sessions and
consumers, and hold under the named assumptions on the constants only. Where `Env` matters the
theorem says so in its `ASSUME`.

**`HttpServer_proofs`** proves six of the seven invariants of `http_any` and the types for every environment
(`OnlyHurried`, which needs the history of `HttpPeers`, is model-checked only; `HurriedIsServer` carries
the theorems over to what these runs check). They are
inductive together with two more, checked with them: `WsReqOwned` (`ws_req` points to a live
WebSocket request of its own connection) and `FreshNowhere` (a request not made yet is in no
queue). The core is that a context is deleted exactly when `reqs` reaches zero (`Orphans`,
`LastReqs`) and that `reqs` is the cardinality of a set of requests: the lemmas show how that
cardinality changes when requests are made and released.

Four more hold in environments that leave something out. `NoFault` is proved for *peaceful* ones
(`Peaceful`): no disconnect while an answer is under way, no frame before the last was answered; the
keepalive check together with clients that only send TEXT and a server that is not stopped; and stop
together with clients that stay. Its invariant says where the one request of each WebSocket is
(`Linked`), that each plain request is where `PlainUnderWay` wants it, and that what is being written
belongs to an open connection (`UnderWay`). `PlainUnderWay`, `WsServed` (of WebSockets of `/stream` and `/ws/test`) and `StopClosesAll` hold in
*regular* ones (`Regular`), peaceful or not: no request before the last answer, and nobody of
`/mjpeg` where the server is stopped. `Listed` adds what ids need: no two connections share one, none is above the counter, and
`clients` holds everything that is open. With stop, this rests on ids starting again only when
nothing is left that could erase one (`Stopped`, `NoRepeats`).

**`FramePipeline_proofs`.** `TurnIsKept` holds in every environment: sendFrame drops the turn
only for an empty room or a pipeline that is off, which is off only for an empty room, and the
first to enter it starts another. The others add `OneTurn`, that the turn is in one place, which
is inductive exactly if no room is entered under an old turn; from it follow `NoRace`, then
`Numbered` (before an encode all is sent, after it one frame is not) gives `Decodable`, and `Asked`
(the request for a key frame travels with the turn: `keyFrame`, `forced`, `curKey`) gives
`KeyPrompt`.

**`ScreenCapture_proofs`.** `Locked` (who copies or has tested holds the mutex) gives `Exclusive`.
`Awake` gives `NoLostWakeup`. The refinement needs, besides, that a thread that passed the test
still finds its condition true (`Once`), which fails only if capturing is started again in
between, and that a frame counted in `ready_` is in `buf_` (`Stored`): then the end of each copy
is a `Put` or a `Take` and all other steps stutter.

**`Desk_proofs`, the operator.** An operator who waits for the last answer has one request under way; the timer may add a
stop at any time, but never a start. So, unless he acted while `running = true` was still to come
(`ActedAtRun`), a start under way is the only one (`OneStart`) and finds no server, since
a server in use is known to run or about to be (`Known`). A stop that reaches `on_stop` while the GUI
thread is about to assign it is the timer's, or he acted between its answer and `on_stop` (`ActedAtStop`,
`Asked`). For the button, what will be shown when all
answers have been run (`Told`) is compared with the server (`Books`); it lags behind, but never leads.
A button that is off has something under way that switches it on (`Returning`). Nothing is read while it
is written, since no announcement waits when a start is under way (`NoInfo`); and the line goes with the
button, as whatever changes one changes the other or has an answer behind it that does (`Lined`).

**`Desk_proofs`, the rest.** The timer, for any timeouts and any width of a word: while it is armed, `age` plus
`due` is at most the timeout and one period (`Within`), and the clock is behind the last use unless the
write timer has still to find the queue empty (`Behind`). `EndsInTime` and `EndsOnlyUnused` follow.
`OneShown` and `TimersBehind`, with the types, are inductive for `Panel`. `DeskImplements`: a step of the
composition is a step of each part or leaves it alone. So what is proved of the parts holds in `Desk`.

**`Parts_proofs`, the encoder**, for displays of any size, any settings, any set of powers of two and any
`Mantissa` from 32: the key is one of what it was last made of, which is also what an open encoder was opened
with, but for settings that were raced (`Keyed`); what is captured has an area and, if it was scaled
or rounded, even sides (`Captured`). The areas: a float is off by one part in `Mantissa` at most
(`FloatNear`) and there is one for each number (`OneFloat`); each of the three roundings on the way from
the area to the key loses one part on either side of a comparison (`Stage`), and three on both sides are less
than seven (`SevenParts`). With 24 bits this means equal areas below 2.3 million pixels, and below 9.5
million if both sides are even, as they are but on an unscaled display of macOS. A JPEG's bound is at most the
width announced.

**`Parts_proofs`, frames**, for all payloads, lengths and masks (`Sized`: a length is a number of 64 bits).
`BigEndian` is a recursive function unrolled for the two and eight bytes that a header has: the
bytes are what repeated division leaves, and mean the length again (`TwoMean`, `EightMean`). `HeaderDecodes`
takes each form of the header apart, `PackUnderstood` what the server packs, `ParseUnderstood` what a
browser's frame of at most 125 bytes becomes when it is parsed from any number of bytes: masking
twice gives the payload (`Twice`), and a byte that is not there makes the frame incomplete.

**`SequenceLemmas`.** The library's induction theorems take an operator as a parameter. Instead: the
subsets of a finite set are well founded, so every set of numbers has a least one (`LeastNumber`),
and a set with 0 and each successor has all numbers (`Induction`). It follows that a recursive
function exists and has the value it is defined by (`Recursion`; `Onward` and `Forward` for one
that goes up or down), and from that what the folds behind `FlattenSeq` and `SetToSeq` return, and
where the elements of sequences stand when they are put together (`FlattenPlaces`, `EachPlace`).

**`Inbound_proofs`**, for any number of messages and any urls that spell a clear path
(`InboundAssumption`: slashes repeated, one at the end, a query). *Paths*: at each character,
`clearSlash` has behind it the part of the path that was spelled so far, so every spelling is
cleared to its path (`UrlsAreMeant`). *Answers*: the headers of a response are pairs in some
order, found again at even places before the first empty line, where a browser looks for them,
with the length of what follows; the older words of the buffer behind a shorter answer are not
sent. *Order*: a visitor who waits (`Patient`) has at most one message unread, at most its first
piece collected, and as many answers as messages handled (`Flow`); `AnswersFit` follows.

**`Text_proofs`**, for any words without separators (`TextAssumption`) and any number of parts, of the kinds
`Text` composes texts of. Where the parts of a text stand is known, so what `find` returns from
such a place is too; a function that goes on behind what it found has there what the parts from
there on were meant to become, up to the first one. *Queries*: `split` finds the parts (`SplitJoined`),
a field is read as its name and value (`FieldRead`), the last of a name stays. *Paths* are those of
`Inbound_proofs`, spelled with any slash twice. *Templates*: what does not open two braces is passed over
(`PlaceholderSkips`, `PlainStays`), and a placeholder ends at its own braces (`PlaceholderAt`). *Log*: a
colour disappears and a word stays whatever is behind it (`Becomes`), so each line in the file is the one on
the terminal without colours; a line whose message is cut has none of its own, as the loop that erases
them would not end (below).
`TextsAreRight` is the sum of one lemma for each kind of text.

**`Parts_proofs`, the rest.** *Options*: what the stream was told is what the options say (`Follows`), and the
fields show the options (`AsShown`), from the command line to any number of changes. *Player*:
`KeptAlive` is inductive, as intervals only clear handles of a player that does not play or has no
open socket, and `onopen` starts one. As long as no two sockets overlap the one not closed is
`this.ws` (`OneSocket`), and it delivers arrays only for the decoder of H.264 (`TypesFollow`). *Stats*: readers
that do not come together are alone (`Alone`) and reset no more than they have read, but for frames
counted between the two (`ReadBefore`). *Preview*: while a timer of it is armed there is an image
(`Imaged`), in the size of the screen unless that was exchanged (`SizeOfScreen`). `PartsStep`: a step of `Parts` is a step of one of them and
leaves the others alone; so the composition keeps what each does (`PartsKeep`).

Only model-checked: `OnlyHurried`, and the liveness properties (`ClosedIsFreed`, `KeyArrives`, `Rests`, `WorkerStops`,
`CaptureReturns`, `StopFrees`, `QuitEnds`, `ButtonReturns`, `LoopStops`, `PreviewRests`), which need
fairness, out of the prover's reach. Every other invariant that a passing run checks is proved.

## What the models say about the code

Disagreements that a run shows:

1. `on_write` (`server.cpp:709`, "not ws req") asks whether the *connection* has a WebSocket
   request. A page answered on a connection that becomes a WebSocket before the write completes
   is never released, nor is the context (`http_pipeline`).
2. `stop` starts ids again although contexts of the stopped run still wait for their deletion,
   which later removes ids of new connections: the next stop misses those (`http_restart_mjpeg`).
3. `ScreenCapture::stop` notifies without the mutex. If it does so between a thread's test and
   its sleep, the thread never wakes and `Stream::close` never returns (`capture_lost_wakeup`).
4. A failed start keeps its helper, which the next start takes for a running session
   (`capture_failed_start`).

What else the code relies on, found by enlarging `Env` (each breaks the property named):

- `NoFault`: a client sending a frame before the last was answered; a disconnect while an answer
  or a close frame is under way; CLOSE together with the keepalive check or with stop; other
  frames than TEXT together with the keepalive check; a disconnect or a failed accept together
  with stop. Without those it also holds for clients that say CLOSE or send other frames. Each is a double `uv_close`, or a WebSocket's request released by `on_close` while
  it is queued or being written.
- `NoRace`, `Decodable`, `KeyPrompt`: the last viewer leaving and another coming within one frame
  (a page reloaded) starts a second turn.
- A viewer entering during an encode has its request overwritten (`frame.cpp:97`) and waits for the
  next regular key frame: `KeyPrompt` leaves it out, `KeyArrives` covers it.
- `NoRace`: with the JPEG encoder and a viewer of `/mjpeg`, both threads fill `_frame_jpeg`.
- `Decodable`, `KeyPrompt`: a failed capture sends the former frame again (`stream.cpp:95`).
- `Handoff`: `running_` set again between a test passed because of `stop` and the second look at
  it: a frame is overwritten, or `ready_` becomes -1.
- `SafeUnlessHasty`: a click or a close before the loop thread has initialised its handles; a click
  before the answer to the last one, which may start a server that listens or closes, or write addresses
  that are being read. A click on the button that a start has given back, with the addresses already on
  the screen but before `running = true`, starts the server a second time. And `on_stop` is assigned while
  the loop thread looks at it by a click right after the button of a stop came back, or by any click
  or the window's end at the moment of the idle timeout.
- `ButtonTells` leaves out operators who were hasty or acted before `running = true`: the options of their
  second start may have been refused while the server runs.
- `EndsOnlyUnused`: with a timeout not longer than the interval of PINGs a server ends while it streams, and
  with any timeout to viewers that send none. While the write timer runs a server with an answer queued, or
  just sent, may end;
  `/mjpeg` answers that follow each other so fast that the write timer never finds
  the queue empty keep the idle time from being set; a timeout of 2^32 ms or more wraps.
- `FramesUnderstood` claims only frames of at most 125 bytes on the server's side: with a 16-bit
  length no frame is unmasked rightly, and one of low byte 128 or more has a wrong or negative length.
  A frame without a mask is taken as complete before all of it has come. Players send four bytes.
- `AnswersFit`: a message sent before the former one was answered may be dropped; a frame in two parts is
  answered as two; `Connection: keep-alive, Upgrade`, as Firefox spells it, is answered 404; the
  error pages announce a length of 0.
- `PicturesFit`: a `setup` within the encoder's initialisation leaves a key that does not belong to the
  encoder's settings. After a failed initialisation the encoder is closed but the former key stays, so a
  screen or settings that go back meet a closed encoder. A turned screen keeps its encoder, whose rows then
  have the other length, and so do quality and rate exchanged for others of the same product; large
  screens whose areas a float does not tell apart share a key. An unscaled display of macOS with an
  odd side reaches an assertion. A failed JPEG capture sends the former picture with the size 0x0, or with
  what was on the stack.
- `PlayerAgrees`, `PicturesDecoded`: a second socket made before the first is closed is stopped by the
  end of the first: pictures come, and the button offers play.
- `StreamFollows`: a refused start stores the port, and perhaps the rate; with H.264 the quality of
  `/mjpeg` is never set.
- `WindowShows`: a frame sent while the window asks for the rate is counted in none, or in two if the
  page asks at once; after a screen with fewer pixels the image keeps its former size.
- `TextRight`: a message with colours of its own that the buffer cuts inside one: the loop that erases
  colours for the file (`logger.cpp:141`) does not end. Nobody sets a file yet.

## Not modelled

Answers delayed by `setDelayOnce`, `urlDecode`, `ack_frame`, `pack_ws_frame`, `parse_handshake_key`: nobody calls
them. `Stream::_reqs` on the GUI thread, which copies it for the details (`gui.cpp:203`) and asks for its size
while the loop thread changes it: any overlap is a data race. Partial writes of the local buffers of the handshake and close frames (they depend on the socket
buffer); what `getPeerInfo` leaves uninitialised when it fails. The texts of pages, formats of times and
speeds, positions and colours of widgets, the cursor. Pixels: conversion and scaling; x264 and libyuv;
AVFoundation, in particular whether `stopRunning` waits for callbacks under way; GDI.
`ScreenCaptureImpl_SCKit.mm`, which is not built. FLTK's and libuv's own state: that `close` closes
handles of a loop another thread runs, that the log appends to a widget from any thread. Messages with
`%`, which are used as a format. `-q nan`, which the code does not refuse. `setup` exchanging the frame
under both threads (`FramePipeline` takes the encoder as chosen before). Of the player: alerts, the timer that warns of
a slow connection, drawing, the conversion of a Blob by a promise. Singletons, generated headers.

## Plan

Done: `HttpServer`, `ScreenCapture` with `FrameHandoff`, `FramePipeline`, `Control`, `IdleTimer` and
`Panel` composed in `Desk`, and the parts composed in `Parts`; the invariants and the refinements of
all of them proved.

Next, in this order:

1. `StartedDelivers` for environments without failed starts.
2. `setup` in `FramePipeline`: the frame exchanged between an encode and the `sendFrame` of it.
3. The window's expiry in `Desk` composed with the clock, as it is without the window.
