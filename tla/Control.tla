------------------------------- MODULE Control ------------------------------
(***************************************************************************)
(* src/src/main_gui.cpp, the parts of gui.cpp behind its one button, and   *)
(* main.cpp: how the server is started, stopped and left.                  *)
(*                                                                         *)
(* With the window there are two threads.  The GUI thread asks the loop    *)
(* thread for a start or a stop by uv_async_send; the loop thread answers  *)
(* by Fl::awake, which queues a function for the GUI thread.  Between them *)
(* are two shared variables: running, which a click looks at, and on_stop, *)
(* a std::function that both use without a lock.  Without the window there *)
(* is the loop thread only, which starts at once and ends by Ctrl+C.       *)
(*                                                                         *)
(* libuv is external: a round of its loop runs timers, then the two async  *)
(* handles, stop before start, each if it is pending when its turn comes,  *)
(* then close callbacks.  FLTK is external: one handler runs at a time.    *)
(***************************************************************************)
EXTENDS Naturals, Sequences

CONSTANT MaxAwakes  \* a bound on the answers that wait when a button is clicked

ASSUME ControlAssumption == MaxAwakes \in Nat

VARIABLES
    ui,        \* "gui" or "cli": which main
    gui,       \* the GUI thread: "events"; in the click's callback "start" or
               \* "stop"; after Fl::run "quit" (sets on_stop), "join", "done"
    loop,      \* the loop thread: "init", "setup", then uv_run: "poll", "second"
               \* (past async_stop), "bind", "announce", "run" (in
               \* async_start_cb), "tell", "unset", "onstop" (in the callback
               \* of stop), "closing" (close callbacks), and "done"
    back,      \* where the loop goes on after the callback of stop
    pending,   \* the async handles sent to: a subset of {"stop", "start"}
    server,    \* HttpServer::server: "down"; "failed" (initialised, but not
               \* listening); "up"; "closing"
    sharing,   \* pages::start, stop and exit
    running,   \* the atomic of main_gui.cpp
    onStop,    \* on_stop: "none" or "quit" (uv_stop)
    stopping,  \* uv_stop was called
    awakes,    \* what waits in Fl::awake's queue
    button,    \* the label of button_start: "wait" ("?"), "start", "stop"
    active,    \* is it active?
    line,      \* info, the line below it: "name" (of the program), "idle", "error",
               \* or "addresses"
    fault,     \* "none"; "async": a send before uv_async_init; "restart": a
               \* handle that listens or closes was initialised; "race": on_stop
               \* was assigned while the other thread looked at it; "text":
               \* addrs was read while the other thread wrote it
    asked,     \* who asked for something since all was quiet
    hasty,     \* did the operator act while an answer to him was still to come?
    early      \* where the loop thread was when he acted on an answer that he
               \* saw before it was true: a subset of Ahead

windowVars  == <<gui, awakes, button, active, line>>
sharedVars  == <<pending, running, onStop>>
serverVars  == <<server, sharing>>
loopVars    == <<loop, back, stopping>>
historyVars == <<asked, hasty, early>>
controlVars == <<ui, windowVars, sharedVars, serverVars, loopVars, fault, historyVars>>

Asyncs == {"stop", "start"}
Awakes == {"activate", "deactivate", "info", "failed"}

\* Where the loop thread is when it has given its last answer but has not done
\* what the answer says: running is still to be set, or on_stop to be called.
Ahead == {"run", "unset", "onstop"}

ControlTypeOK ==
    /\ ui \in {"gui", "cli"}
    /\ gui \in {"events", "start", "stop", "quit", "join", "done"}
    /\ loop \in {"init", "setup", "poll", "second", "bind", "announce", "run",
                 "tell", "unset", "onstop", "closing", "done"}
    /\ back \in {"poll", "second"}
    /\ pending \subseteq Asyncs
    /\ server \in {"down", "failed", "up", "closing"}
    /\ sharing \in BOOLEAN /\ running \in BOOLEAN /\ stopping \in BOOLEAN
    /\ onStop \in {"none", "quit"}
    /\ awakes \in Seq(Awakes)
    /\ button \in {"wait", "start", "stop"} /\ active \in BOOLEAN
    /\ line \in {"name", "idle", "error", "addresses"}
    /\ fault \in {"none", "async", "restart", "race", "text"}
    /\ asked \subseteq {"operator", "timer"} /\ hasty \in BOOLEAN /\ early \subseteq Ahead

\* The button is active from the start; the thread of the loop runs already.
ControlInit ==
    /\ \/ ui = "gui" /\ gui = "events" /\ loop = "init"
       \/ ui = "cli" /\ gui = "done" /\ loop = "setup"
    /\ back = "poll" /\ pending = {} /\ server = "down" /\ sharing = FALSE
    /\ running = FALSE /\ onStop = "none" /\ stopping = FALSE
    /\ awakes = <<>> /\ button = "wait" /\ active = TRUE /\ line = "name"
    /\ fault = "none" /\ asked = {} /\ hasty = FALSE /\ early = {}

-----------------------------------------------------------------------------
(***************************************************************************)
(* The GUI thread.                                                         *)
(***************************************************************************)
\* A click looks at running, whatever the button says ...
Clicked == IF running THEN "stop" ELSE "start"

\* ... and the button is off until there is an answer.
Click ==
    /\ gui = "events" /\ active /\ Len(awakes) <= MaxAwakes
    /\ active' = FALSE
    /\ gui' = Clicked
    /\ UNCHANGED <<ui, awakes, button, line, sharedVars, serverVars, loopVars, fault>>

\* uv_async_send: several sends before the callback are one.
Send(a) ==
    IF loop = "init" THEN fault' = "async" /\ UNCHANGED pending
                     ELSE pending' = pending \cup {a} /\ UNCHANGED fault

\* updateArgs takes the options, and the loop is asked to start ...
Launch ==
    /\ gui = "start" /\ Send("start")
    /\ gui' = "events"
    /\ UNCHANGED <<ui, awakes, button, active, line, running, onStop, serverVars, loopVars>>

\* ... or refuses them, and the button can be clicked again.
Refuse_Inactive == active  \* slip: FAILED without activate
Refuse == TRUE

RefuseOptions ==
    /\ gui = "start"
    /\ gui' = "events" /\ active' = Refuse /\ line' = "error"
    /\ UNCHANGED <<ui, awakes, button, sharedVars, serverVars, loopVars, fault>>

\* stopWorker assigns on_stop, which the loop thread may be looking at.
StopWorker(callback) ==
    IF loop = "onstop" THEN fault' = "race" /\ UNCHANGED <<pending, onStop>>
                       ELSE onStop' = callback /\ Send("stop")

Halt ==
    /\ gui = "stop" /\ StopWorker("none")
    /\ gui' = "events"
    /\ UNCHANGED <<ui, awakes, button, active, line, running, serverVars, loopVars>>

\* activate, deactivate: the answers of the loop.
Shows_FailedRuns(h) == IF h = "activate" THEN "start" ELSE "stop"  \* slip: no activate after a failure
Shows(h) == IF h \in {"activate", "failed"} THEN "start" ELSE "stop"

\* setInfo, setError.
Says(h) == CASE h = "activate" -> "idle" [] h = "failed" -> "error"
             [] h = "info" -> "addresses" [] h = "deactivate" -> line

\* The addresses are read from the static stream that on_start fills.
Reads(h) == h = "info" /\ loop = "announce"

RunAwake ==
    /\ gui = "events" /\ awakes # <<>>
    /\ button' = Shows(Head(awakes)) /\ active' = TRUE /\ line' = Says(Head(awakes))
    /\ awakes' = Tail(awakes)
    /\ fault' = IF Reads(Head(awakes)) THEN "text" ELSE fault
    /\ UNCHANGED <<ui, gui, sharedVars, serverVars, loopVars>>

\* Fl::run returns when the window is closed.
CloseWindow ==
    /\ gui = "events"
    /\ gui' = "quit"
    /\ UNCHANGED <<ui, awakes, button, active, line, sharedVars, serverVars, loopVars, fault>>

QuitWith_Nothing == "none"  \* slip: on_stop not set
QuitWith == "quit"

Quit ==
    /\ gui = "quit" /\ StopWorker(QuitWith)
    /\ gui' = "join"
    /\ UNCHANGED <<ui, awakes, button, active, line, running, serverVars, loopVars>>

Joined ==
    /\ gui = "join" /\ loop = "done"
    /\ gui' = "done"
    /\ UNCHANGED <<ui, awakes, button, active, line, sharedVars, serverVars, loopVars, fault>>

-----------------------------------------------------------------------------
(***************************************************************************)
(* The loop thread, with the window.                                       *)
(***************************************************************************)
Tell(h) == awakes' = Append(awakes, h)

InitAsyncs ==
    /\ loop = "init" /\ loop' = "setup"
    /\ UNCHANGED <<ui, windowVars, sharedVars, serverVars, back, stopping, fault>>

Ready ==
    /\ ui = "gui" /\ loop = "setup" /\ loop' = "poll"
    /\ Tell("activate")
    /\ UNCHANGED <<ui, gui, button, active, line, sharedVars, serverVars, back, stopping, fault>>

\* async_stop_cb: pages::stop, then HttpServer::stop, which calls back at once
\* if nothing listens.
Unshared == FALSE

AsyncStop ==
    /\ loop = "poll" /\ ~stopping /\ "stop" \in pending
    /\ pending' = pending \ {"stop"}
    /\ sharing' = Unshared
    /\ IF server = "up"
         THEN server' = "closing" /\ loop' = "second" /\ UNCHANGED back
         ELSE loop' = "tell" /\ back' = "second" /\ UNCHANGED server
    /\ UNCHANGED <<ui, windowVars, running, onStop, stopping, fault>>

SkipStop ==
    /\ loop = "poll" /\ ~stopping /\ pending = {"start"}
    /\ loop' = "second"
    /\ UNCHANGED <<ui, windowVars, sharedVars, serverVars, back, stopping, fault>>

\* async_start_cb.
AsyncStart ==
    /\ loop = "second" /\ "start" \in pending
    /\ pending' = pending \ {"start"}
    /\ Tell("deactivate")
    /\ loop' = "bind"
    /\ UNCHANGED <<ui, gui, button, active, line, running, onStop, serverVars, back, stopping, fault>>

SkipStart ==
    /\ loop = "second" /\ "start" \notin pending
    /\ loop' = IF server = "closing" THEN "closing" ELSE "poll"
    /\ UNCHANGED <<ui, windowVars, sharedVars, serverVars, back, stopping, fault>>

\* HttpServer::start initialises server, whatever state it is in; pages::start.
InUse == server \in {"up", "closing"}

Bind ==
    /\ loop = "bind" /\ ~InUse
    /\ server' = "up" /\ sharing' = TRUE
    /\ loop' = "announce"
    /\ UNCHANGED <<ui, windowVars, sharedVars, back, stopping, fault>>

BindFails ==
    /\ loop = "bind" /\ ~InUse
    /\ server' = "failed" /\ Tell("failed")
    /\ loop' = "poll"
    /\ UNCHANGED <<ui, gui, button, active, line, sharedVars, sharing, back, stopping, fault>>

BindAgain ==
    /\ loop = "bind" /\ InUse
    /\ fault' = "restart"
    /\ UNCHANGED <<ui, windowVars, sharedVars, serverVars, loopVars>>

\* on_start.
Announce ==
    /\ loop = "announce" /\ Tell("info")
    /\ loop' = "run"
    /\ UNCHANGED <<ui, gui, button, active, line, sharedVars, serverVars, back, stopping, fault>>

NowRunning_Not == running  \* slip: running = true forgotten
NowRunning == TRUE

SetRunning ==
    /\ loop = "run"
    /\ running' = NowRunning
    /\ loop' = "poll"
    /\ UNCHANGED <<ui, windowVars, pending, onStop, serverVars, back, stopping, fault>>

\* The callback of stop, when the handle is closed.
ServerClosed ==
    /\ loop = "closing"
    /\ server' = "down" /\ loop' = "tell" /\ back' = "poll"
    /\ UNCHANGED <<ui, windowVars, sharedVars, sharing, stopping, fault>>

TellStopped ==
    /\ loop = "tell" /\ Tell("activate")
    /\ loop' = "unset"
    /\ UNCHANGED <<ui, gui, button, active, line, sharedVars, serverVars, back, stopping, fault>>

UnsetRunning ==
    /\ loop = "unset"
    /\ running' = FALSE
    /\ loop' = "onstop"
    /\ UNCHANGED <<ui, windowVars, pending, onStop, serverVars, back, stopping, fault>>

CallOnStop ==
    /\ loop = "onstop"
    /\ stopping' = (stopping \/ onStop = "quit")
    /\ loop' = back /\ back' = "poll"
    /\ UNCHANGED <<ui, windowVars, sharedVars, serverVars, fault>>

-----------------------------------------------------------------------------
(***************************************************************************)
(* Both.                                                                   *)
(***************************************************************************)
\* The idle timeout: with the window it asks for a stop like a click.
Expire ==
    /\ loop = "poll" /\ ~stopping /\ server = "up"
    /\ IF ui = "gui" THEN pending' = pending \cup {"stop"} /\ UNCHANGED stopping
                     ELSE stopping' = TRUE /\ UNCHANGED pending
    /\ UNCHANGED <<ui, windowVars, running, onStop, serverVars, loop, back, fault>>

\* uv_run returns; pages::exit, and the server is destroyed.
LoopEnds ==
    /\ loop = "poll" /\ stopping
    /\ loop' = "done" /\ sharing' = FALSE /\ server' = "down"
    /\ UNCHANGED <<ui, windowVars, sharedVars, back, stopping, fault>>

\* main.cpp.
CliStart(ok) ==
    /\ ui = "cli" /\ loop = "setup"
    /\ server' = IF ok THEN "up" ELSE "failed"
    /\ sharing' = ok /\ loop' = "poll"
    /\ UNCHANGED <<ui, windowVars, sharedVars, back, stopping, fault>>

\* exit_timer, after a failed start; Ctrl+C.
CliEnds_Interrupt == FALSE  \* slip: exit_timer not started
CliEnds == server = "failed"

ExitTimer ==
    /\ ui = "cli" /\ loop = "poll" /\ ~stopping /\ CliEnds
    /\ stopping' = TRUE
    /\ UNCHANGED <<ui, windowVars, sharedVars, serverVars, loop, back, fault>>

Interrupt ==
    /\ ui = "cli" /\ loop = "poll" /\ ~stopping
    /\ stopping' = TRUE
    /\ UNCHANGED <<ui, windowVars, sharedVars, serverVars, loop, back, fault>>

-----------------------------------------------------------------------------
\* Nothing is under way.
Quiet == gui = "events" /\ pending = {} /\ awakes = <<>> /\ loop = "poll" /\ ~stopping

Acts(who) == \/ who = "operator" /\ gui = "events" /\ gui' # "events"
             \/ who = "timer" /\ loop' = "poll" /\ pending' # pending /\ gui' = gui

\* The last answer to what was asked for is on the screen: for a stop the button
\* that came back, for a start the line below it.  (The button of a start comes
\* back before, with "deactivate".)
Answered == /\ pending = {} /\ awakes = <<>>
            /\ loop \in Ahead \/ (loop = "second" /\ server # "closing")

\* What the operator should have waited for: the first answer, or the last.  And
\* what he cannot see, that the answer on the screen is ahead of the program;
\* which is of no more interest when he was hasty.
Waiting == button = "wait" \/ ("operator" \in asked /\ ~Answered)

History ==
    /\ hasty' = (hasty \/ (Acts("operator") /\ Waiting))
    /\ early' = IF hasty' THEN {}
                ELSE early \cup {place \in {loop} \cap Ahead :
                                   Acts("operator") /\ "operator" \in asked}
    /\ asked' = IF Quiet' THEN {} ELSE asked \cup {who \in {"operator", "timer"} : Acts(who)}

WindowStep == Launch \/ RefuseOptions \/ Halt \/ Quit \/ Joined
CallbackStep == AsyncStart \/ SkipStart \/ Bind \/ BindFails \/ BindAgain \/ Announce
                \/ SetRunning \/ ServerClosed \/ TellStopped \/ UnsetRunning \/ CallOnStop
LoopStep == InitAsyncs \/ Ready \/ AsyncStop \/ SkipStop \/ CallbackStep \/ LoopEnds
            \/ ExitTimer \/ \E ok \in BOOLEAN : CliStart(ok)

WindowNext == Click \/ RunAwake \/ CloseWindow \/ WindowStep
LoopNext == LoopStep \/ Expire \/ Interrupt
ControlNext == fault = "none" /\ (WindowNext \/ LoopNext) /\ History

ControlSpec == ControlInit /\ [][ControlNext]_controlVars

-----------------------------------------------------------------------------
(***************************************************************************)
(* An operator who acts only when the last answer to him is on the screen  *)
(* never makes the program send to a handle that is not there yet, nor read*)
(* addresses while they are written, also when the idle timeout comes at   *)
(* the worst moment.  But seeing the answer is not enough, as both answers *)
(* are ahead of the program: a click between the addresses and running =   *)
(* true takes the program for stopped and starts the server a second time; *)
(* one between the button and on_stop may assign on_stop while the loop    *)
(* looks at it.  The idle timeout makes the same race, whenever he acts.   *)
(***************************************************************************)
SafeUnlessHasty ==
    fault # "none" =>
        \/ hasty
        \/ fault = "restart" /\ "run" \in early
        \/ fault = "race" /\ ("timer" \in asked \/ early \cap {"unset", "onstop"} # {})

(***************************************************************************)
(* When nothing is under way the button can be clicked and tells the truth:*)
(* what it offers to stop is there, runs and shares the screen, and only   *)
(* then the line below tells where it is found.  This is so for an operator*)
(* who was never hasty and never acted before running = true; one who did  *)
(* may have had the options of a start refused while the server runs.      *)
(***************************************************************************)
ButtonTells ==
    Quiet /\ ui = "gui" /\ ~hasty /\ "run" \notin early =>
        /\ active
        /\ button \in {"start", "stop"}
        /\ running = (button = "stop") /\ sharing = running
        /\ (server = "up") = running
        /\ (line = "addresses") = running

(***************************************************************************)
(* Closing the window ends the program, whatever the server is doing.      *)
(***************************************************************************)
QuitEnds == gui = "quit" ~> gui = "done" \/ fault # "none"

(***************************************************************************)
(* A button that was clicked can be clicked again.                         *)
(***************************************************************************)
ButtonReturns == ~active ~> active \/ gui \in {"quit", "join", "done"} \/ fault # "none"

(***************************************************************************)
(* A loop that is told to stop, by Ctrl+C, the idle timeout or after a     *)
(* start that failed, ends.                                                *)
(***************************************************************************)
LoopStops == (stopping \/ (ui = "cli" /\ server = "failed")) ~> loop = "done" \/ fault # "none"
=============================================================================
