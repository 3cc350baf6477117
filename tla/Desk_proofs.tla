----------------------------- MODULE Desk_proofs ----------------------------
(***************************************************************************)
(* Proofs about Control, for any number of answers that wait, IdleTimer,   *)
(* for any times, Panel, for any number of timers, and Desk: a behaviour   *)
(* of the whole is one of Control, of IdleTimer and of Panel, so that what *)
(* was proved of each holds in the composition.                            *)
(***************************************************************************)
EXTENDS Desk, TLAPS

-----------------------------------------------------------------------------
(***************************************************************************)
(* Starting and stopping the server (Control).                             *)
(*                                                                         *)
(* The argument: an operator who waits has at most one request under way,  *)
(* but for what is left of a stop that he was told of.  The timer may add a*)
(* stop at any time, but never a start.  So a start under way is the only  *)
(* one and finds no server, unless he acted between the answer to a start  *)
(* and running = true; and when the loop thread is in on_stop while the GUI*)
(* thread is about to assign it, the stop is the timer's, or the operator  *)
(* acted between the answer to his stop and on_stop.                       *)
(***************************************************************************)
\* Starting, after the server has been bound.
Started == {"announce", "run"}

\* Without the window nobody sends.
CliOrder ==
    /\ gui = "done" /\ pending = {} /\ fault = "none"
    /\ loop \in {"setup", "poll", "done"}

\* Before the loop runs nothing is asked for.
Beginning ==
    loop \in {"init", "setup"} =>
        awakes = <<>> /\ button = "wait" /\ gui = "events" /\ pending = {} /\ asked = {}

\* Did the operator act on the answer to a start before running was set, or on
\* the answer to a stop before on_stop was called?
ActedAtRun == "run" \in early
ActedAtStop == early \cap {"unset", "onstop"} # {}

\* What is under way was asked for: anything, a start, or what the operator is
\* about to send.
Asked ==
    /\ asked = {} => gui = "events" /\ pending = {} /\ loop \in {"init", "setup", "poll"}
    /\ "operator" \notin asked =>
          gui = "events" /\ "start" \notin pending /\ loop \notin Started \cup {"bind"}
    /\ gui \in {"start", "stop", "quit"} /\ "timer" \notin asked =>
          /\ pending = {}
          /\ \/ loop = "poll" \/ (loop = "second" /\ server # "closing")
             \/ loop = "run" /\ ActedAtRun
             \/ loop \in {"unset", "onstop"} /\ ActedAtStop
    /\ stopping \/ onStop = "quit" => gui \in {"join", "done"}

\* There is one start under way, and it finds no server, but for an operator who
\* acted before running was set.
OneStart ==
    /\ gui = "start" => "start" \notin pending
    /\ gui = "start" \/ "start" \in pending =>
          /\ loop \notin {"bind", "announce"}
          /\ ActedAtRun \/ (loop # "run" /\ ~InUse)
    /\ loop = "bind" => ~InUse \/ ActedAtRun

\* A server that is in use is known to run, or about to be.
Known ==
    /\ InUse => running \/ loop \in Started
    /\ loop \in {"tell", "unset", "onstop"} => ~InUse
    /\ server = "closing" => loop \in {"second", "closing"} \/ (loop = "bind" /\ ActedAtRun)

\* From the click to the announcement no addresses of an earlier start wait for
\* the window.
InfoWaits == \E i \in DOMAIN awakes : awakes[i] = "info"

NoInfo ==
    "operator" \notin asked \/ gui = "start" \/ "start" \in pending \/ loop \in {"bind", "announce"} =>
        ~InfoWaits

Order == Beginning /\ Asked /\ OneStart /\ Known /\ NoInfo

Careful == ui = "gui" /\ fault = "none" /\ ~hasty

ControlInv ==
    /\ ControlTypeOK
    /\ ui = "cli" => CliOrder
    /\ Careful => Order
    /\ SafeUnlessHasty

-----------------------------------------------------------------------------
\* The two halves of the type invariant.
Switches ==
    /\ sharing \in BOOLEAN /\ running \in BOOLEAN /\ stopping \in BOOLEAN
    /\ active \in BOOLEAN /\ hasty \in BOOLEAN

Values ==
    /\ ui \in {"gui", "cli"}
    /\ gui \in {"events", "start", "stop", "quit", "join", "done"}
    /\ loop \in {"init", "setup", "poll", "second", "bind", "announce", "run",
                 "tell", "unset", "onstop", "closing", "done"}
    /\ back \in {"poll", "second"}
    /\ pending \subseteq Asyncs
    /\ server \in {"down", "failed", "up", "closing"}
    /\ onStop \in {"none", "quit"}
    /\ awakes \in Seq(Awakes)
    /\ button \in {"wait", "start", "stop"}
    /\ line \in {"name", "idle", "error", "addresses"}
    /\ fault \in {"none", "async", "restart", "race", "text"}
    /\ asked \subseteq {"operator", "timer"} /\ early \subseteq Ahead

(***************************************************************************)
(* Types.                                                                  *)
(***************************************************************************)
\* The first states, with the window and without.
LEMMA TypeInit == ControlInit => ControlTypeOK
<1> SUFFICES ASSUME ControlInit PROVE ControlTypeOK
    OBVIOUS
<1>1. Switches
      BY DEF ControlInit, Switches
<1>2. Values
      BY DEF ControlInit, Values
<1> QED BY <1>1, <1>2 DEF ControlTypeOK, Switches, Values

\* Sending to the loop, and telling the window.
LEMMA SendType ==
  ASSUME ControlTypeOK, NEW a \in Asyncs, Send(a)
  PROVE  pending' \subseteq Asyncs /\ fault' \in {"none", "async", "restart", "race", "text"}
  BY DEF ControlTypeOK, Send

\* What is queued for the window is one of the answers.
LEMMA TellType ==
  ASSUME ControlTypeOK, NEW h \in Awakes, Tell(h)
  PROVE  awakes' \in Seq(Awakes)
  BY DEF ControlTypeOK, Tell

\* What an answer makes of the line.
LEMMA SaysType ==
  ASSUME ControlTypeOK, awakes # <<>>
  PROVE  /\ Head(awakes) \in Awakes /\ Tail(awakes) \in Seq(Awakes)
         /\ Says(Head(awakes)) \in {"name", "idle", "error", "addresses"}
<1>1. Head(awakes) \in Awakes /\ Tail(awakes) \in Seq(Awakes)
      BY DEF ControlTypeOK
<1> QED BY <1>1 DEF ControlTypeOK, Says, Awakes

\* What is noted of who asked.
LEMMA HistoryType ==
  ASSUME ControlTypeOK, History
  PROVE  asked' \subseteq {"operator", "timer"} /\ hasty' \in BOOLEAN /\ early' \subseteq Ahead
<1>1. asked' \subseteq {"operator", "timer"}
      BY DEF ControlTypeOK, History
<1>2. hasty' \in BOOLEAN
      BY DEF ControlTypeOK, History
<1>3. early' \subseteq Ahead
      BY DEF ControlTypeOK, History
<1> QED BY <1>1, <1>2, <1>3

\* Every step keeps the types.
LEMMA TypeStep == ControlTypeOK /\ ControlNext => ControlTypeOK'
<1> SUFFICES ASSUME ControlTypeOK, ControlNext PROVE ControlTypeOK'
    OBVIOUS
<1>0. asked' \subseteq {"operator", "timer"} /\ hasty' \in BOOLEAN /\ early' \subseteq Ahead
      BY HistoryType DEF ControlNext
<1> USE DEF ControlTypeOK, windowVars, sharedVars, serverVars, loopVars
<1>1. CASE WindowNext
  <2>1. CASE Click
    <3>1. Switches'
          BY <1>0, <2>1 DEF Click, Clicked, Switches
    <3>2. Values'
          BY <1>0, <2>1 DEF Click, Clicked, Values
    <3> QED BY <3>1, <3>2 DEF Switches, Values
  <2>2. CASE RunAwake
        BY <1>0, <2>2, SaysType DEF RunAwake, Shows
  <2>3. CASE CloseWindow
        BY <1>0, <2>3 DEF CloseWindow
  <2>4. CASE Launch
        BY <1>0, <2>4, SendType DEF Launch, Asyncs
  <2>5. CASE RefuseOptions
        BY <1>0, <2>5 DEF RefuseOptions, Refuse
  <2>6. CASE Halt
    <3>1. Switches'
          BY <1>0, <2>6, SendType DEF Halt, StopWorker, Asyncs, Switches
    <3>2. pending' \subseteq Asyncs /\ fault' \in {"none", "async", "restart", "race", "text"}
          BY <2>6, SendType DEF Halt, StopWorker, Asyncs
    <3>3. Values'
          BY <1>0, <2>6, <3>2 DEF Halt, StopWorker, Values
    <3> QED BY <3>1, <3>3 DEF Switches, Values
  <2>7. CASE Quit
    <3>1. Switches'
          BY <1>0, <2>7, SendType DEF Quit, StopWorker, QuitWith, Asyncs, Switches
    <3>2. pending' \subseteq Asyncs /\ fault' \in {"none", "async", "restart", "race", "text"}
          BY <2>7, SendType DEF Quit, StopWorker, Asyncs
    <3>3. Values'
          BY <1>0, <2>7, <3>2 DEF Quit, StopWorker, QuitWith, Values
    <3> QED BY <3>1, <3>3 DEF Switches, Values
  <2>8. CASE Joined
        BY <1>0, <2>8 DEF Joined
  <2> QED BY <1>1, <2>1, <2>2, <2>3, <2>4, <2>5, <2>6, <2>7, <2>8 DEF WindowNext, WindowStep
<1>2. CASE LoopStep
  <2>1. CASE InitAsyncs
        BY <1>0, <2>1 DEF InitAsyncs
  <2>2. CASE Ready
        BY <1>0, <2>2, TellType DEF Ready, Awakes
  <2>3. CASE AsyncStop
    <3>1. Switches'
          BY <1>0, <2>3 DEF AsyncStop, Unshared, Switches
    <3>2. Values'
          BY <1>0, <2>3 DEF AsyncStop, Unshared, Values
    <3> QED BY <3>1, <3>2 DEF Switches, Values
  <2>4. CASE SkipStop
        BY <1>0, <2>4 DEF SkipStop
  <2>5. CASE AsyncStart
        BY <1>0, <2>5, TellType DEF AsyncStart, Awakes
  <2>6. CASE SkipStart
        BY <1>0, <2>6 DEF SkipStart
  <2>7. CASE Bind
        BY <1>0, <2>7 DEF Bind
  <2>8. CASE BindFails
        BY <1>0, <2>8, TellType DEF BindFails, Awakes
  <2>9. CASE BindAgain
        BY <1>0, <2>9 DEF BindAgain
  <2>10. CASE Announce
        BY <1>0, <2>10, TellType DEF Announce, Awakes
  <2>11. CASE SetRunning
        BY <1>0, <2>11 DEF SetRunning, NowRunning
  <2>12. CASE ServerClosed
        BY <1>0, <2>12 DEF ServerClosed
  <2>13. CASE TellStopped
        BY <1>0, <2>13, TellType DEF TellStopped, Awakes
  <2>14. CASE UnsetRunning
    <3>1. Switches'
          BY <1>0, <2>14 DEF UnsetRunning, Switches
    <3>2. Values'
          BY <1>0, <2>14 DEF UnsetRunning, Values
    <3> QED BY <3>1, <3>2 DEF Switches, Values
  <2>15. CASE CallOnStop
        BY <1>0, <2>15 DEF CallOnStop
  <2>16. CASE LoopEnds
    <3>1. Switches'
          BY <1>0, <2>16 DEF LoopEnds, Switches
    <3>2. Values'
          BY <1>0, <2>16 DEF LoopEnds, Values
    <3> QED BY <3>1, <3>2 DEF Switches, Values
  <2>17. CASE ExitTimer
        BY <1>0, <2>17 DEF ExitTimer
  <2>18. ASSUME NEW ok \in BOOLEAN, CliStart(ok) PROVE ControlTypeOK'
        BY <1>0, <2>18 DEF CliStart
  <2> QED BY <1>2, <2>1, <2>2, <2>3, <2>4, <2>5, <2>6, <2>7, <2>8, <2>9, <2>10, <2>11, <2>12,
             <2>13, <2>14, <2>15, <2>16, <2>17, <2>18 DEF LoopStep, CallbackStep
<1>3. CASE Expire
  <2>1. Switches'
        BY <1>0, <1>3 DEF Expire, Asyncs, Switches
  <2>2. Values'
    <3>1. pending' \subseteq Asyncs
          BY <1>0, <1>3 DEF Expire, Asyncs, Values
    <3>2. /\ ui' = ui /\ gui' = gui /\ loop' = loop /\ back' = back /\ server' = server
          /\ onStop' = onStop /\ awakes' = awakes /\ button' = button /\ line' = line
          /\ fault' = fault /\ asked' \subseteq {"operator", "timer"} /\ early' \subseteq Ahead
          BY <1>0, <1>3 DEF Expire, Values
    <3> QED BY <1>0, <3>1, <3>2 DEF Values
  <2> QED BY <2>1, <2>2 DEF Switches, Values
<1>4. CASE Interrupt
      BY <1>0, <1>4 DEF Interrupt
<1> QED BY <1>1, <1>2, <1>3, <1>4 DEF ControlNext, LoopNext

-----------------------------------------------------------------------------
(***************************************************************************)
(* The order of requests.                                                  *)
(***************************************************************************)
\* A request is over but for running or for on_stop.
Over ==
    /\ pending = {} /\ awakes = <<>>
    /\ loop \in {"run", "unset", "onstop"} \/ (loop = "second" /\ server # "closing")

\* What is noted of who asked: nothing is forgotten before all is quiet, and an
\* operator who stays careful had no request under way, or one that was over, and
\* then it is noted what it lacked.
LEMMA HistoryKept ==
  ASSUME ControlTypeOK, History, ~hasty'
  PROVE  /\ ~hasty
         /\ Acts("operator") =>
               /\ button # "wait"
               /\ "operator" \in asked =>
                     /\ Over
                     /\ loop = "run" => ActedAtRun'
                     /\ loop \in {"unset", "onstop"} => ActedAtStop'
         /\ (ActedAtRun => ActedAtRun') /\ (ActedAtStop => ActedAtStop')
         /\ asked' = {} => Quiet' \/ (asked = {} /\ ~Acts("operator") /\ ~Acts("timer"))
         /\ \A who \in {"operator", "timer"} :
               /\ who \notin asked' => Quiet' \/ (who \notin asked /\ ~Acts(who))
               /\ who \in asked' => who \in asked \/ Acts(who)
<1>1. /\ ~hasty /\ (Acts("operator") => ~Waiting)
      /\ early' = early \cup {place \in {loop} \cap Ahead : Acts("operator") /\ "operator" \in asked}
      BY DEF History
<1>2. Acts("operator") => button # "wait" /\ ("operator" \in asked => Over)
      BY <1>1 DEF Waiting, Answered, Ahead, Over
<1>3. /\ Acts("operator") /\ "operator" \in asked =>
            /\ loop = "run" => ActedAtRun'
            /\ loop \in {"unset", "onstop"} => ActedAtStop'
      /\ (ActedAtRun => ActedAtRun') /\ (ActedAtStop => ActedAtStop')
      BY <1>1 DEF ActedAtRun, ActedAtStop, Ahead
<1>4. ~Quiet' => asked' = asked \cup {who \in {"operator", "timer"} : Acts(who)}
      BY DEF History
<1>5. Quiet' => asked' = {}
      BY DEF History
<1>6. asked \subseteq {"operator", "timer"}
      BY DEF ControlTypeOK
<1>7. CASE Quiet'
      BY <1>1, <1>2, <1>3, <1>5, <1>7
<1>8. CASE ~Quiet'
      BY <1>1, <1>2, <1>3, <1>4, <1>6, <1>8
<1> QED BY <1>7, <1>8

\* Nothing is asked for before the loop runs, as the window still waits.
LEMMA BeginningStep ==
  ASSUME ControlTypeOK, Careful, Order, ControlNext, ~hasty', fault' = "none"
  PROVE  Beginning'
<1> USE DEF windowVars, sharedVars, serverVars, loopVars, ControlTypeOK, Careful, Order
<1>0. /\ Acts("operator") =>
            /\ button # "wait"
            /\ "operator" \in asked =>
                  /\ Over
                  /\ loop = "run" => ActedAtRun'
                  /\ loop \in {"unset", "onstop"} => ActedAtStop'
      /\ (ActedAtRun => ActedAtRun') /\ (ActedAtStop => ActedAtStop')
      /\ asked' = {} => Quiet' \/ (asked = {} /\ ~Acts("operator") /\ ~Acts("timer"))
      /\ \A who \in {"operator", "timer"} :
            /\ who \notin asked' => Quiet' \/ (who \notin asked /\ ~Acts(who))
            /\ who \in asked' => who \in asked \/ Acts(who)
      /\ asked' \subseteq {"operator", "timer"}
      BY HistoryKept, HistoryType DEF ControlNext
<1>1. CASE WindowNext
  <2>1. CASE Click
        BY <1>0, <2>1 DEF Click, Clicked, Beginning, Acts, Over, Quiet
  <2>2. CASE RunAwake
        BY <1>0, <2>2 DEF RunAwake, Beginning, Acts, Over, Quiet
  <2>3. CASE CloseWindow
        BY <1>0, <2>3 DEF CloseWindow, Beginning, Acts, Over, Quiet
  <2>4. CASE Launch
        BY <1>0, <2>4 DEF Launch, Send, Beginning, Acts, Over, Quiet
  <2>5. CASE RefuseOptions
        BY <1>0, <2>5 DEF RefuseOptions, Beginning, Acts, Over, Quiet
  <2>6. CASE Halt
        BY <1>0, <2>6 DEF Halt, StopWorker, Send, Beginning, Acts, Over, Quiet
  <2>7. CASE Quit
        BY <1>0, <2>7 DEF Quit, StopWorker, QuitWith, Send, Beginning, Acts, Over, Quiet
  <2>8. CASE Joined
        BY <1>0, <2>8 DEF Joined, Beginning, Acts, Over, Quiet
  <2> QED BY <1>1, <2>1, <2>2, <2>3, <2>4, <2>5, <2>6, <2>7, <2>8 DEF WindowNext, WindowStep
<1>2. CASE LoopStep
  <2>1. CASE InitAsyncs
        BY <1>0, <2>1 DEF InitAsyncs, Beginning, Acts, Over, Quiet
  <2>2. CASE Ready
        BY <1>0, <2>2 DEF Ready, Tell, Beginning, Acts, Over, Quiet
  <2>3. CASE AsyncStop
        BY <1>0, <2>3 DEF AsyncStop, Beginning, Acts, Over, Quiet
  <2>4. CASE SkipStop
        BY <1>0, <2>4 DEF SkipStop, Beginning, Acts, Over, Quiet
  <2>5. CASE AsyncStart
        BY <1>0, <2>5 DEF AsyncStart, Tell, Beginning, Acts, Over, Quiet
  <2>6. CASE SkipStart
        BY <1>0, <2>6 DEF SkipStart, Beginning, Acts, Over, Quiet
  <2>7. CASE Bind
        BY <1>0, <2>7 DEF Bind, Beginning, Acts, Over, Quiet
  <2>8. CASE BindFails
        BY <1>0, <2>8 DEF BindFails, Tell, Beginning, Acts, Over, Quiet
  <2>9. CASE BindAgain
        BY <1>0, <2>9 DEF BindAgain, Beginning, Acts, Over, Quiet
  <2>10. CASE Announce
        BY <1>0, <2>10 DEF Announce, Tell, Beginning, Acts, Over, Quiet
  <2>11. CASE SetRunning
        BY <1>0, <2>11 DEF SetRunning, NowRunning, Beginning, Acts, Over, Quiet
  <2>12. CASE ServerClosed
        BY <1>0, <2>12 DEF ServerClosed, Beginning, Acts, Over, Quiet
  <2>13. CASE TellStopped
        BY <1>0, <2>13 DEF TellStopped, Tell, Beginning, Acts, Over, Quiet
  <2>14. CASE UnsetRunning
        BY <1>0, <2>14 DEF UnsetRunning, Beginning, Acts, Over, Quiet
  <2>15. CASE CallOnStop
        BY <1>0, <2>15 DEF CallOnStop, Beginning, Acts, Over, Quiet
  <2>16. CASE LoopEnds
        BY <1>0, <2>16 DEF LoopEnds, Beginning, Acts, Over, Quiet
  <2>17. CASE ExitTimer
        BY <1>0, <2>17 DEF ExitTimer, Beginning, Acts, Over, Quiet
  <2>18. ASSUME NEW ok \in BOOLEAN, CliStart(ok) PROVE Beginning'
        BY <1>0, <2>18 DEF CliStart, Beginning, Acts, Over, Quiet
  <2> QED BY <1>2, <2>1, <2>2, <2>3, <2>4, <2>5, <2>6, <2>7, <2>8, <2>9, <2>10,
             <2>11, <2>12, <2>13, <2>14, <2>15, <2>16, <2>17, <2>18 DEF LoopStep, CallbackStep
<1>3. CASE Expire
      BY <1>0, <1>3 DEF Expire, Beginning, Acts, Over, Quiet
<1>4. CASE Interrupt
      BY <1>0, <1>4 DEF Interrupt, Beginning, Acts, Over, Quiet
<1> QED BY <1>1, <1>2, <1>3, <1>4 DEF ControlNext, LoopNext

\* Nothing is under way that nobody asked for.
LEMMA AskedStep ==
  ASSUME ControlTypeOK, Careful, Order, ControlNext, ~hasty', fault' = "none"
  PROVE  Asked'
<1> USE DEF windowVars, sharedVars, serverVars, loopVars, ControlTypeOK, Careful, Order
<1>0. /\ Acts("operator") =>
            /\ button # "wait"
            /\ "operator" \in asked =>
                  /\ Over
                  /\ loop = "run" => ActedAtRun'
                  /\ loop \in {"unset", "onstop"} => ActedAtStop'
      /\ (ActedAtRun => ActedAtRun') /\ (ActedAtStop => ActedAtStop')
      /\ asked' = {} => Quiet' \/ (asked = {} /\ ~Acts("operator") /\ ~Acts("timer"))
      /\ \A who \in {"operator", "timer"} :
            /\ who \notin asked' => Quiet' \/ (who \notin asked /\ ~Acts(who))
            /\ who \in asked' => who \in asked \/ Acts(who)
      /\ asked' \subseteq {"operator", "timer"}
      BY HistoryKept, HistoryType DEF ControlNext
<1>1. CASE WindowNext
  <2>1. CASE Click
        BY <1>0, <2>1 DEF Click, Clicked, Beginning, Asked, Started, Acts, Over, Quiet
  <2>2. CASE RunAwake
        BY <1>0, <2>2 DEF RunAwake, Beginning, Asked, Started, Acts, Over, Quiet
  <2>3. CASE CloseWindow
        BY <1>0, <2>3 DEF CloseWindow, Beginning, Asked, Started, Acts, Over, Quiet
  <2>4. CASE Launch
        BY <1>0, <2>4 DEF Launch, Send, Beginning, Asked, Started, Acts, Over, Quiet
  <2>5. CASE RefuseOptions
        BY <1>0, <2>5 DEF RefuseOptions, Beginning, Asked, Started, Acts, Over, Quiet
  <2>6. CASE Halt
        BY <1>0, <2>6 DEF Halt, StopWorker, Send, Beginning, Asked, Started, Acts, Over, Quiet
  <2>7. CASE Quit
        BY <1>0, <2>7 DEF Quit, StopWorker, QuitWith, Send, Beginning, Asked, Started, Acts, Over, Quiet
  <2>8. CASE Joined
        BY <1>0, <2>8 DEF Joined, Beginning, Asked, Started, Acts, Over, Quiet
  <2> QED BY <1>1, <2>1, <2>2, <2>3, <2>4, <2>5, <2>6, <2>7, <2>8 DEF WindowNext, WindowStep
<1>2. CASE LoopStep
  <2>1. CASE InitAsyncs
        BY <1>0, <2>1 DEF InitAsyncs, Beginning, Asked, Started, Acts, Over, Quiet
  <2>2. CASE Ready
        BY <1>0, <2>2 DEF Ready, Tell, Beginning, Asked, Started, Acts, Over, Quiet
  <2>3. CASE AsyncStop
        BY <1>0, <2>3 DEF AsyncStop, Beginning, Asked, Started, Acts, Over, Quiet
  <2>4. CASE SkipStop
        BY <1>0, <2>4 DEF SkipStop, Beginning, Asked, Started, Acts, Over, Quiet
  <2>5. CASE AsyncStart
        BY <1>0, <2>5 DEF AsyncStart, Tell, Beginning, Asked, Started, Acts, Over, Quiet
  <2>6. CASE SkipStart
        BY <1>0, <2>6 DEF SkipStart, Beginning, Asked, Started, Acts, Over, Quiet
  <2>7. CASE Bind
        BY <1>0, <2>7 DEF Bind, Beginning, Asked, Started, Acts, Over, Quiet
  <2>8. CASE BindFails
        BY <1>0, <2>8 DEF BindFails, Tell, Beginning, Asked, Started, Acts, Over, Quiet
  <2>9. CASE BindAgain
        BY <1>0, <2>9 DEF BindAgain, Beginning, Asked, Started, Acts, Over, Quiet
  <2>10. CASE Announce
        BY <1>0, <2>10 DEF Announce, Tell, Beginning, Asked, Started, Acts, Over, Quiet
  <2>11. CASE SetRunning
        BY <1>0, <2>11 DEF SetRunning, NowRunning, Beginning, Asked, Started, Acts, Over, Quiet
  <2>12. CASE ServerClosed
        BY <1>0, <2>12 DEF ServerClosed, Beginning, Asked, Started, Acts, Over, Quiet
  <2>13. CASE TellStopped
        BY <1>0, <2>13 DEF TellStopped, Tell, Beginning, Asked, Started, Acts, Over, Quiet
  <2>14. CASE UnsetRunning
        BY <1>0, <2>14 DEF UnsetRunning, Beginning, Asked, Started, Acts, Over, Quiet
  <2>15. CASE CallOnStop
        BY <1>0, <2>15 DEF CallOnStop, Beginning, Asked, Known, InUse, Started, Acts, Over, Quiet
  <2>16. CASE LoopEnds
        BY <1>0, <2>16 DEF LoopEnds, Beginning, Asked, Started, Acts, Over, Quiet
  <2>17. CASE ExitTimer
        BY <1>0, <2>17 DEF ExitTimer, Beginning, Asked, Started, Acts, Over, Quiet
  <2>18. ASSUME NEW ok \in BOOLEAN, CliStart(ok) PROVE Asked'
        BY <1>0, <2>18 DEF CliStart, Beginning, Asked, Started, Acts, Over, Quiet
  <2> QED BY <1>2, <2>1, <2>2, <2>3, <2>4, <2>5, <2>6, <2>7, <2>8, <2>9, <2>10,
             <2>11, <2>12, <2>13, <2>14, <2>15, <2>16, <2>17, <2>18 DEF LoopStep, CallbackStep
<1>3. CASE Expire
      BY <1>0, <1>3 DEF Expire, Beginning, Asked, Started, Acts, Over, Quiet
<1>4. CASE Interrupt
      BY <1>0, <1>4 DEF Interrupt, Beginning, Asked, Started, Acts, Over, Quiet
<1> QED BY <1>1, <1>2, <1>3, <1>4 DEF ControlNext, LoopNext

\* A start is asked for when nothing runs, and it is the only one.
LEMMA OneStartStep ==
  ASSUME ControlTypeOK, Careful, Order, ControlNext, ~hasty', fault' = "none"
  PROVE  OneStart'
<1> USE DEF windowVars, sharedVars, serverVars, loopVars, ControlTypeOK, Careful, Order
<1>0. /\ Acts("operator") =>
            /\ button # "wait"
            /\ "operator" \in asked =>
                  /\ Over
                  /\ loop = "run" => ActedAtRun'
                  /\ loop \in {"unset", "onstop"} => ActedAtStop'
      /\ (ActedAtRun => ActedAtRun') /\ (ActedAtStop => ActedAtStop')
      /\ asked' = {} => Quiet' \/ (asked = {} /\ ~Acts("operator") /\ ~Acts("timer"))
      /\ \A who \in {"operator", "timer"} :
            /\ who \notin asked' => Quiet' \/ (who \notin asked /\ ~Acts(who))
            /\ who \in asked' => who \in asked \/ Acts(who)
      /\ asked' \subseteq {"operator", "timer"}
      BY HistoryKept, HistoryType DEF ControlNext
<1>1. CASE WindowNext
  <2>1. CASE Click
        BY <1>0, <2>1 DEF Click, Clicked, Beginning, Asked, OneStart, Known, Started, InUse, Acts, Over
  <2>2. CASE RunAwake
        BY <1>0, <2>2 DEF RunAwake, Beginning, Asked, OneStart, Known, Started, InUse, Acts, Over
  <2>3. CASE CloseWindow
        BY <1>0, <2>3 DEF CloseWindow, Beginning, Asked, OneStart, Known, Started, InUse, Acts, Over
  <2>4. CASE Launch
        BY <1>0, <2>4 DEF Launch, Send, Beginning, Asked, OneStart, Known, Started, InUse, Acts, Over
  <2>5. CASE RefuseOptions
        BY <1>0, <2>5 DEF RefuseOptions, Beginning, Asked, OneStart, Known, Started, InUse, Acts, Over
  <2>6. CASE Halt
        BY <1>0, <2>6 DEF Halt, StopWorker, Send, Beginning, Asked, OneStart, Known, Started, InUse, Acts, Over
  <2>7. CASE Quit
        BY <1>0, <2>7 DEF Quit, StopWorker, QuitWith, Send, Beginning, Asked, OneStart, Known, Started, InUse, Acts, Over
  <2>8. CASE Joined
        BY <1>0, <2>8 DEF Joined, Beginning, Asked, OneStart, Known, Started, InUse, Acts, Over
  <2> QED BY <1>1, <2>1, <2>2, <2>3, <2>4, <2>5, <2>6, <2>7, <2>8 DEF WindowNext, WindowStep
<1>2. CASE LoopStep
  <2>1. CASE InitAsyncs
        BY <1>0, <2>1 DEF InitAsyncs, Beginning, Asked, OneStart, Known, Started, InUse, Acts, Over
  <2>2. CASE Ready
        BY <1>0, <2>2 DEF Ready, Tell, Beginning, Asked, OneStart, Known, Started, InUse, Acts, Over
  <2>3. CASE AsyncStop
        BY <1>0, <2>3 DEF AsyncStop, Beginning, Asked, OneStart, Known, Started, InUse, Acts, Over
  <2>4. CASE SkipStop
        BY <1>0, <2>4 DEF SkipStop, Beginning, Asked, OneStart, Known, Started, InUse, Acts, Over
  <2>5. CASE AsyncStart
        BY <1>0, <2>5 DEF AsyncStart, Tell, Beginning, Asked, OneStart, Known, Started, InUse, Acts, Over
  <2>6. CASE SkipStart
        BY <1>0, <2>6 DEF SkipStart, Beginning, Asked, OneStart, Known, Started, InUse, Acts, Over
  <2>7. CASE Bind
        BY <1>0, <2>7 DEF Bind, Beginning, Asked, OneStart, Known, Started, InUse, Acts, Over
  <2>8. CASE BindFails
        BY <1>0, <2>8 DEF BindFails, Tell, Beginning, Asked, OneStart, Known, Started, InUse, Acts, Over
  <2>9. CASE BindAgain
        BY <1>0, <2>9 DEF BindAgain, Beginning, Asked, OneStart, Known, Started, InUse, Acts, Over
  <2>10. CASE Announce
        BY <1>0, <2>10 DEF Announce, Tell, Beginning, Asked, OneStart, Known, Started, InUse, Acts, Over
  <2>11. CASE SetRunning
        BY <1>0, <2>11 DEF SetRunning, NowRunning, Beginning, Asked, OneStart, Known, Started, InUse, Acts, Over
  <2>12. CASE ServerClosed
        BY <1>0, <2>12 DEF ServerClosed, Beginning, Asked, OneStart, Known, Started, InUse, Acts, Over
  <2>13. CASE TellStopped
        BY <1>0, <2>13 DEF TellStopped, Tell, Beginning, Asked, OneStart, Known, Started, InUse, Acts, Over
  <2>14. CASE UnsetRunning
        BY <1>0, <2>14 DEF UnsetRunning, Beginning, Asked, OneStart, Known, Started, InUse, Acts, Over
  <2>15. CASE CallOnStop
        BY <1>0, <2>15 DEF CallOnStop, Beginning, Asked, OneStart, Known, Started, InUse, Acts, Over
  <2>16. CASE LoopEnds
        BY <1>0, <2>16 DEF LoopEnds, Beginning, Asked, OneStart, Known, Started, InUse, Acts, Over
  <2>17. CASE ExitTimer
        BY <1>0, <2>17 DEF ExitTimer, Beginning, Asked, OneStart, Known, Started, InUse, Acts, Over
  <2>18. ASSUME NEW ok \in BOOLEAN, CliStart(ok) PROVE OneStart'
        BY <1>0, <2>18 DEF CliStart, Beginning, Asked, OneStart, Known, Started, InUse, Acts, Over
  <2> QED BY <1>2, <2>1, <2>2, <2>3, <2>4, <2>5, <2>6, <2>7, <2>8, <2>9, <2>10,
             <2>11, <2>12, <2>13, <2>14, <2>15, <2>16, <2>17, <2>18 DEF LoopStep, CallbackStep
<1>3. CASE Expire
      BY <1>0, <1>3 DEF Expire, Beginning, Asked, OneStart, Known, Started, InUse, Acts, Over
<1>4. CASE Interrupt
      BY <1>0, <1>4 DEF Interrupt, Beginning, Asked, OneStart, Known, Started, InUse, Acts, Over
<1> QED BY <1>1, <1>2, <1>3, <1>4 DEF ControlNext, LoopNext

\* running follows the server, a step behind.
LEMMA KnownStep ==
  ASSUME ControlTypeOK, Careful, Order, ControlNext, ~hasty', fault' = "none"
  PROVE  Known'
<1> USE DEF windowVars, sharedVars, serverVars, loopVars, ControlTypeOK, Careful, Order
<1>0. /\ Acts("operator") =>
            /\ button # "wait"
            /\ "operator" \in asked =>
                  /\ Over
                  /\ loop = "run" => ActedAtRun'
                  /\ loop \in {"unset", "onstop"} => ActedAtStop'
      /\ (ActedAtRun => ActedAtRun') /\ (ActedAtStop => ActedAtStop')
      /\ asked' = {} => Quiet' \/ (asked = {} /\ ~Acts("operator") /\ ~Acts("timer"))
      /\ \A who \in {"operator", "timer"} :
            /\ who \notin asked' => Quiet' \/ (who \notin asked /\ ~Acts(who))
            /\ who \in asked' => who \in asked \/ Acts(who)
      /\ asked' \subseteq {"operator", "timer"}
      BY HistoryKept, HistoryType DEF ControlNext
<1>1. CASE WindowNext
  <2>1. CASE Click
        BY <1>0, <2>1 DEF Click, Clicked, Beginning, Asked, OneStart, Known, Started, InUse, Acts, Over
  <2>2. CASE RunAwake
        BY <1>0, <2>2 DEF RunAwake, Beginning, Asked, OneStart, Known, Started, InUse, Acts, Over
  <2>3. CASE CloseWindow
        BY <1>0, <2>3 DEF CloseWindow, Beginning, Asked, OneStart, Known, Started, InUse, Acts, Over
  <2>4. CASE Launch
        BY <1>0, <2>4 DEF Launch, Send, Beginning, Asked, OneStart, Known, Started, InUse, Acts, Over
  <2>5. CASE RefuseOptions
        BY <1>0, <2>5 DEF RefuseOptions, Beginning, Asked, OneStart, Known, Started, InUse, Acts, Over
  <2>6. CASE Halt
        BY <1>0, <2>6 DEF Halt, StopWorker, Send, Beginning, Asked, OneStart, Known, Started, InUse, Acts, Over
  <2>7. CASE Quit
        BY <1>0, <2>7 DEF Quit, StopWorker, QuitWith, Send, Beginning, Asked, OneStart, Known, Started, InUse, Acts, Over
  <2>8. CASE Joined
        BY <1>0, <2>8 DEF Joined, Beginning, Asked, OneStart, Known, Started, InUse, Acts, Over
  <2> QED BY <1>1, <2>1, <2>2, <2>3, <2>4, <2>5, <2>6, <2>7, <2>8 DEF WindowNext, WindowStep
<1>2. CASE LoopStep
  <2>1. CASE InitAsyncs
        BY <1>0, <2>1 DEF InitAsyncs, Beginning, Asked, OneStart, Known, Started, InUse, Acts, Over
  <2>2. CASE Ready
        BY <1>0, <2>2 DEF Ready, Tell, Beginning, Asked, OneStart, Known, Started, InUse, Acts, Over
  <2>3. CASE AsyncStop
        BY <1>0, <2>3 DEF AsyncStop, Beginning, Asked, OneStart, Known, Started, InUse, Acts, Over
  <2>4. CASE SkipStop
        BY <1>0, <2>4 DEF SkipStop, Beginning, Asked, OneStart, Known, Started, InUse, Acts, Over
  <2>5. CASE AsyncStart
        BY <1>0, <2>5 DEF AsyncStart, Tell, Beginning, Asked, OneStart, Known, Started, InUse, Acts, Over
  <2>6. CASE SkipStart
        BY <1>0, <2>6 DEF SkipStart, Beginning, Asked, OneStart, Known, Started, InUse, Acts, Over
  <2>7. CASE Bind
        BY <1>0, <2>7 DEF Bind, Beginning, Asked, OneStart, Known, Started, InUse, Acts, Over
  <2>8. CASE BindFails
        BY <1>0, <2>8 DEF BindFails, Tell, Beginning, Asked, OneStart, Known, Started, InUse, Acts, Over
  <2>9. CASE BindAgain
        BY <1>0, <2>9 DEF BindAgain, Beginning, Asked, OneStart, Known, Started, InUse, Acts, Over
  <2>10. CASE Announce
        BY <1>0, <2>10 DEF Announce, Tell, Beginning, Asked, OneStart, Known, Started, InUse, Acts, Over
  <2>11. CASE SetRunning
        BY <1>0, <2>11 DEF SetRunning, NowRunning, Beginning, Asked, OneStart, Known, Started, InUse, Acts, Over
  <2>12. CASE ServerClosed
        BY <1>0, <2>12 DEF ServerClosed, Beginning, Asked, OneStart, Known, Started, InUse, Acts, Over
  <2>13. CASE TellStopped
        BY <1>0, <2>13 DEF TellStopped, Tell, Beginning, Asked, OneStart, Known, Started, InUse, Acts, Over
  <2>14. CASE UnsetRunning
        BY <1>0, <2>14 DEF UnsetRunning, Beginning, Asked, OneStart, Known, Started, InUse, Acts, Over
  <2>15. CASE CallOnStop
        BY <1>0, <2>15 DEF CallOnStop, Beginning, Asked, OneStart, Known, Started, InUse, Acts, Over
  <2>16. CASE LoopEnds
        BY <1>0, <2>16 DEF LoopEnds, Beginning, Asked, OneStart, Known, Started, InUse, Acts, Over
  <2>17. CASE ExitTimer
        BY <1>0, <2>17 DEF ExitTimer, Beginning, Asked, OneStart, Known, Started, InUse, Acts, Over
  <2>18. ASSUME NEW ok \in BOOLEAN, CliStart(ok) PROVE Known'
        BY <1>0, <2>18 DEF CliStart, Beginning, Asked, OneStart, Known, Started, InUse, Acts, Over
  <2> QED BY <1>2, <2>1, <2>2, <2>3, <2>4, <2>5, <2>6, <2>7, <2>8, <2>9, <2>10,
             <2>11, <2>12, <2>13, <2>14, <2>15, <2>16, <2>17, <2>18 DEF LoopStep, CallbackStep
<1>3. CASE Expire
      BY <1>0, <1>3 DEF Expire, Beginning, Asked, OneStart, Known, Started, InUse, Acts, Over
<1>4. CASE Interrupt
      BY <1>0, <1>4 DEF Interrupt, Beginning, Asked, OneStart, Known, Started, InUse, Acts, Over
<1> QED BY <1>1, <1>2, <1>3, <1>4 DEF ControlNext, LoopNext

\* Where addresses wait: nothing but an announcement adds them.
LEMMA InfoMoves ==
  ASSUME ControlTypeOK
  PROVE  /\ awakes = <<>> => ~InfoWaits
         /\ awakes # <<>> /\ Head(awakes) = "info" => InfoWaits
         /\ UNCHANGED awakes => InfoWaits' = InfoWaits
         /\ \A h \in Awakes \ {"info"} : Tell(h) => (InfoWaits' => InfoWaits)
         /\ RunAwake => (InfoWaits' => InfoWaits)
<1> USE DEF InfoWaits
<1>0. awakes \in Seq(Awakes)
      BY DEF ControlTypeOK
<1>1. awakes = <<>> => ~InfoWaits
      OBVIOUS
<1>2. awakes # <<>> /\ Head(awakes) = "info" => InfoWaits
      BY <1>0
<1>3. UNCHANGED awakes => InfoWaits' = InfoWaits
      OBVIOUS
<1>4. ASSUME NEW h \in Awakes \ {"info"}, Tell(h), InfoWaits' PROVE InfoWaits
      BY <1>0, <1>4 DEF Tell
<1>5. ASSUME RunAwake, InfoWaits' PROVE InfoWaits
  <2>1. awakes # <<>> /\ awakes' = Tail(awakes)
        BY <1>5 DEF RunAwake
  <2>2. PICK i \in DOMAIN Tail(awakes) : Tail(awakes)[i] = "info"
        BY <1>5, <2>1
  <2>3. i + 1 \in DOMAIN awakes /\ awakes[i + 1] = Tail(awakes)[i]
        BY <1>0, <2>1, <2>2
  <2> QED BY <2>2, <2>3
<1> QED BY <1>1, <1>2, <1>3, <1>4, <1>5

\* What is told waits.
LEMMA TellFills ==
  ASSUME ControlTypeOK
  PROVE  \A h \in Awakes : Tell(h) => awakes' # <<>>
<1> SUFFICES ASSUME NEW h \in Awakes, Tell(h) PROVE awakes' # <<>>
    OBVIOUS
<1>1. awakes \in Seq(Awakes) /\ awakes' = Append(awakes, h)
      BY DEF ControlTypeOK, Tell
<1> QED BY <1>1

\* No addresses wait that a start under way could meet.
LEMMA NoInfoStep ==
  ASSUME ControlTypeOK, Careful, Order, ControlNext, ~hasty', fault' = "none"
  PROVE  NoInfo'
<1> USE DEF windowVars, sharedVars, serverVars, loopVars, ControlTypeOK, Careful, Order
<1>0. /\ Acts("operator") =>
            /\ button # "wait"
            /\ "operator" \in asked =>
                  /\ Over
                  /\ loop = "run" => ActedAtRun'
                  /\ loop \in {"unset", "onstop"} => ActedAtStop'
      /\ (ActedAtRun => ActedAtRun') /\ (ActedAtStop => ActedAtStop')
      /\ asked' = {} => Quiet' \/ (asked = {} /\ ~Acts("operator") /\ ~Acts("timer"))
      /\ \A who \in {"operator", "timer"} :
            /\ who \notin asked' => Quiet' \/ (who \notin asked /\ ~Acts(who))
            /\ who \in asked' => who \in asked \/ Acts(who)
      /\ asked' \subseteq {"operator", "timer"}
      BY HistoryKept, HistoryType DEF ControlNext
<1>i. /\ awakes = <<>> => ~InfoWaits
      /\ UNCHANGED awakes => InfoWaits' = InfoWaits
      /\ \A h \in Awakes \ {"info"} : Tell(h) => (InfoWaits' => InfoWaits)
      /\ \A h \in Awakes : Tell(h) => awakes' # <<>>
      /\ RunAwake => (InfoWaits' => InfoWaits)
      /\ awakes' = <<>> => ~InfoWaits'
      BY InfoMoves, TellFills DEF InfoWaits
<1>1. CASE WindowNext
  <2>1. CASE Click
        BY <1>0, <1>i, <2>1 DEF Click, Clicked, Asked, OneStart, Started, NoInfo, Acts, Over, Awakes, Quiet
  <2>2. CASE RunAwake
        BY <1>0, <1>i, <2>2 DEF RunAwake, Asked, OneStart, Started, NoInfo, Acts, Over, Awakes, Quiet
  <2>3. CASE CloseWindow
        BY <1>0, <1>i, <2>3 DEF CloseWindow, Asked, OneStart, Started, NoInfo, Acts, Over, Awakes, Quiet
  <2>4. CASE Launch
        BY <1>0, <1>i, <2>4 DEF Launch, Send, Asked, OneStart, Started, NoInfo, Acts, Over, Awakes, Quiet
  <2>5. CASE RefuseOptions
        BY <1>0, <1>i, <2>5 DEF RefuseOptions, Asked, OneStart, Started, NoInfo, Acts, Over, Awakes, Quiet
  <2>6. CASE Halt
        BY <1>0, <1>i, <2>6 DEF Halt, StopWorker, Send, Asked, OneStart, Started, NoInfo, Acts, Over, Awakes, Quiet
  <2>7. CASE Quit
        BY <1>0, <1>i, <2>7 DEF Quit, StopWorker, QuitWith, Send, Asked, OneStart, Started, NoInfo, Acts, Over, Awakes, Quiet
  <2>8. CASE Joined
        BY <1>0, <1>i, <2>8 DEF Joined, Asked, OneStart, Started, NoInfo, Acts, Over, Awakes, Quiet
  <2> QED BY <1>1, <2>1, <2>2, <2>3, <2>4, <2>5, <2>6, <2>7, <2>8 DEF WindowNext, WindowStep
<1>2. CASE LoopStep
  <2>1. CASE InitAsyncs
        BY <1>0, <1>i, <2>1 DEF InitAsyncs, Asked, OneStart, Started, NoInfo, Acts, Over, Awakes, Quiet
  <2>2. CASE Ready
        BY <1>0, <1>i, <2>2 DEF Ready, Asked, OneStart, Started, NoInfo, Acts, Over, Awakes, Quiet
  <2>3. CASE AsyncStop
        BY <1>0, <1>i, <2>3 DEF AsyncStop, Asked, OneStart, Started, NoInfo, Acts, Over, Awakes, Quiet
  <2>4. CASE SkipStop
        BY <1>0, <1>i, <2>4 DEF SkipStop, Asked, OneStart, Started, NoInfo, Acts, Over, Awakes, Quiet
  <2>5. CASE AsyncStart
        BY <1>0, <1>i, <2>5 DEF AsyncStart, Asked, OneStart, Started, NoInfo, Acts, Over, Awakes, Quiet
  <2>6. CASE SkipStart
        BY <1>0, <1>i, <2>6 DEF SkipStart, Asked, OneStart, Started, NoInfo, Acts, Over, Awakes, Quiet
  <2>7. CASE Bind
        BY <1>0, <1>i, <2>7 DEF Bind, Asked, OneStart, Started, NoInfo, Acts, Over, Awakes, Quiet
  <2>8. CASE BindFails
        BY <1>0, <1>i, <2>8 DEF BindFails, Asked, OneStart, Started, NoInfo, Acts, Over, Awakes, Quiet
  <2>9. CASE BindAgain
        BY <1>0, <1>i, <2>9 DEF BindAgain, Asked, OneStart, Started, NoInfo, Acts, Over, Awakes, Quiet
  <2>10. CASE Announce
        BY <1>0, <1>i, <2>10 DEF Announce, Asked, OneStart, Started, NoInfo, Acts, Over, Awakes, Quiet
  <2>11. CASE SetRunning
        BY <1>0, <1>i, <2>11 DEF SetRunning, NowRunning, Asked, OneStart, Started, NoInfo, Acts, Over, Awakes, Quiet
  <2>12. CASE ServerClosed
        BY <1>0, <1>i, <2>12 DEF ServerClosed, Asked, OneStart, Started, NoInfo, Acts, Over, Awakes, Quiet
  <2>13. CASE TellStopped
        BY <1>0, <1>i, <2>13 DEF TellStopped, Asked, OneStart, Started, NoInfo, Acts, Over, Awakes, Quiet
  <2>14. CASE UnsetRunning
        BY <1>0, <1>i, <2>14 DEF UnsetRunning, Asked, OneStart, Started, NoInfo, Acts, Over, Awakes, Quiet
  <2>15. CASE CallOnStop
        BY <1>0, <1>i, <2>15 DEF CallOnStop, Asked, OneStart, Started, NoInfo, Acts, Over, Awakes, Quiet
  <2>16. CASE LoopEnds
        BY <1>0, <1>i, <2>16 DEF LoopEnds, Asked, OneStart, Started, NoInfo, Acts, Over, Awakes, Quiet
  <2>17. CASE ExitTimer
        BY <1>0, <1>i, <2>17 DEF ExitTimer, Asked, OneStart, Started, NoInfo, Acts, Over, Awakes, Quiet
  <2>18. ASSUME NEW ok \in BOOLEAN, CliStart(ok) PROVE NoInfo'
        BY <1>0, <1>i, <2>18 DEF CliStart, Asked, OneStart, Started, NoInfo, Acts, Over, Awakes, Quiet
  <2> QED BY <1>2, <2>1, <2>2, <2>3, <2>4, <2>5, <2>6, <2>7, <2>8, <2>9, <2>10,
             <2>11, <2>12, <2>13, <2>14, <2>15, <2>16, <2>17, <2>18 DEF LoopStep, CallbackStep
<1>3. CASE Expire
      BY <1>0, <1>i, <1>3 DEF Expire, Asked, OneStart, Started, NoInfo, Acts, Over, Awakes, Quiet
<1>4. CASE Interrupt
      BY <1>0, <1>i, <1>4 DEF Interrupt, Asked, OneStart, Started, NoInfo, Acts, Over, Awakes, Quiet
<1> QED BY <1>1, <1>2, <1>3, <1>4 DEF ControlNext, LoopNext

-----------------------------------------------------------------------------
(***************************************************************************)
(* No two servers.                                                         *)
(***************************************************************************)
\* Without the window there is only the loop thread.
LEMMA CliOrderStep == ControlTypeOK /\ ui = "cli" /\ CliOrder /\ ControlNext => CliOrder'
<1> SUFFICES ASSUME ControlTypeOK, ui = "cli", CliOrder, ControlNext PROVE CliOrder'
    OBVIOUS
<1> USE DEF CliOrder, ControlTypeOK, windowVars, sharedVars, serverVars, loopVars
<1>1. CASE WindowNext
      BY <1>1 DEF WindowNext, WindowStep, Click, Clicked, RunAwake, CloseWindow, Launch, RefuseOptions, Halt,
         Quit, Joined
<1>2. CASE LoopStep
  <2>1. ~CallbackStep
        BY DEF CallbackStep, AsyncStart, SkipStart, Bind, BindFails, BindAgain, Announce,
           SetRunning, ServerClosed, TellStopped, UnsetRunning, CallOnStop
  <2>2. ~InitAsyncs /\ ~Ready /\ ~AsyncStop /\ ~SkipStop
        BY DEF InitAsyncs, Ready, AsyncStop, SkipStop
  <2>3. CASE LoopEnds
        BY <2>3 DEF LoopEnds
  <2>4. CASE ExitTimer
        BY <2>4 DEF ExitTimer
  <2>5. ASSUME NEW ok \in BOOLEAN, CliStart(ok) PROVE CliOrder'
        BY <2>5 DEF CliStart
  <2> QED BY <1>2, <2>1, <2>2, <2>3, <2>4, <2>5 DEF LoopStep
<1>3. CASE Expire
      BY <1>3 DEF Expire
<1>4. CASE Interrupt
      BY <1>4 DEF Interrupt
<1> QED BY <1>1, <1>2, <1>3, <1>4 DEF ControlNext, LoopNext

\* A step of a careful operator's program goes wrong only in a second start, after
\* he acted before running was set, or in on_stop, and then it was the timer that
\* asked for the stop, or the operator acted before on_stop was called.
LEMMA SafeStep ==
  ASSUME ControlTypeOK, Careful, Order, ControlNext, ~hasty'
  PROVE  \/ fault' = "none"
         \/ fault' = "restart" /\ ActedAtRun'
         \/ fault' = "race" /\ loop' = "onstop" /\ ("timer" \in asked' \/ ActedAtStop')
<1> USE DEF Careful, Order, Beginning, Asked, OneStart
<1>0. RunAwake => fault' = fault
      BY InfoMoves DEF RunAwake, Reads, NoInfo
<1>1. CASE Launch
      BY <1>1 DEF Launch, Send
<1>2. CASE Halt \/ Quit
  <2>1. loop # "init"
        BY <1>2 DEF Halt, Quit
  <2>2. CASE loop # "onstop"
        BY <1>2, <2>1, <2>2 DEF Halt, Quit, StopWorker, Send
  <2>3. CASE loop = "onstop"
    <3>1. "timer" \in asked \/ ActedAtStop
          BY <1>2, <2>3 DEF Halt, Quit
    <3>2. fault' = "race" /\ loop' = "onstop" /\ ~Quiet'
          BY <1>2, <2>3 DEF Halt, Quit, StopWorker, serverVars, loopVars, Quiet
    <3>3. "timer" \in asked => "timer" \in asked'
          BY <3>2 DEF ControlNext, History
    <3>4. ActedAtStop => ActedAtStop'
          BY HistoryKept DEF ControlNext
    <3> QED BY <3>1, <3>2, <3>3, <3>4
  <2> QED BY <2>2, <2>3
<1>3. CASE BindAgain
  <2>1. ActedAtRun => ActedAtRun'
        BY HistoryKept DEF ControlNext
  <2> QED BY <1>3, <2>1 DEF BindAgain
<1>4. CASE ~(Launch \/ Halt \/ Quit \/ BindAgain)
  <2>1. WindowNext => fault' = fault
        BY <1>0, <1>4 DEF WindowNext, WindowStep, Click, Clicked, CloseWindow, RefuseOptions, Joined
  <2>2. CallbackStep => fault' = fault
        BY <1>4 DEF CallbackStep, AsyncStart, SkipStart, Bind, BindFails, Announce, SetRunning,
           ServerClosed, TellStopped, UnsetRunning, CallOnStop
  <2>3. LoopNext => fault' = fault
        BY <2>2 DEF LoopNext, LoopStep, InitAsyncs, Ready, AsyncStop, SkipStop, LoopEnds,
           ExitTimer, CliStart, Expire, Interrupt
  <2> QED BY <2>1, <2>3 DEF ControlNext
<1> QED BY <1>1, <1>2, <1>3, <1>4

\* A program has its window or not for good.
LEMMA UiKept == ControlNext => ui' = ui
<1>1. WindowNext => ui' = ui
      BY DEF WindowNext, WindowStep, Click, Clicked, RunAwake, CloseWindow, Launch, RefuseOptions, Halt,
         Quit, Joined
<1>2. CallbackStep => ui' = ui
      BY DEF CallbackStep, AsyncStart, SkipStart, Bind, BindFails, BindAgain, Announce,
         SetRunning, ServerClosed, TellStopped, UnsetRunning, CallOnStop
<1>3. LoopNext => ui' = ui
      BY <1>2 DEF LoopNext, LoopStep, InitAsyncs, Ready, AsyncStop, SkipStop, LoopEnds,
         ExitTimer, CliStart, Expire, Interrupt
<1> QED BY <1>1, <1>3 DEF ControlNext

\* The initial states have the invariant.
LEMMA ControlInvInit == ControlInit => ControlInv
<1> SUFFICES ASSUME ControlInit PROVE ControlInv
    OBVIOUS
<1>1. ui = "cli" => CliOrder
      BY DEF ControlInit, CliOrder
<1>2. Careful => Order
      BY DEF ControlInit, Careful, Order, Beginning, Asked, OneStart, Known, NoInfo, InfoWaits, Started, InUse
<1>3. SafeUnlessHasty
      BY DEF ControlInit, SafeUnlessHasty
<1> QED BY <1>1, <1>2, <1>3, TypeInit DEF ControlInv

\* Each step preserves it.
LEMMA ControlInvStep == ControlInv /\ [ControlNext]_controlVars => ControlInv'
<1> SUFFICES ASSUME ControlInv, [ControlNext]_controlVars PROVE ControlInv'
    OBVIOUS
<1>1. CASE ControlNext
  <2>1. ControlTypeOK /\ ControlTypeOK'
        BY <1>1, TypeStep DEF ControlInv
  <2>2. ui' = ui
        BY <1>1, UiKept
  <2>3. ui = "cli" => CliOrder'
        BY <1>1, <2>1, CliOrderStep DEF ControlInv
  <2>4. fault = "none"
        BY <1>1 DEF ControlNext
  <2>5. ~hasty' => ~hasty
        BY <1>1, <2>1, HistoryKept DEF ControlNext
  <2>6. Careful' => Order'
    <3> SUFFICES ASSUME Careful' PROVE Order'
        OBVIOUS
    <3>1. Careful /\ ~hasty' /\ fault' = "none"
          BY <2>2, <2>4, <2>5 DEF Careful
    <3>2. Order
          BY <3>1 DEF ControlInv
    <3> QED BY <1>1, <2>1, <3>1, <3>2, BeginningStep, AskedStep, OneStartStep, KnownStep, NoInfoStep
        DEF Order
  <2>7. SafeUnlessHasty'
    <3>1. CASE hasty'
          BY <3>1 DEF SafeUnlessHasty
    <3>2. CASE ui = "cli"
          BY <2>3, <3>2 DEF SafeUnlessHasty, CliOrder
    <3>3. CASE ~hasty' /\ ui = "gui"
      <4>1. Careful
            BY <2>4, <2>5, <3>3 DEF Careful
      <4>2. Order
            BY <4>1 DEF ControlInv
      <4> QED BY <1>1, <2>1, <3>3, <4>1, <4>2, SafeStep DEF SafeUnlessHasty, ActedAtRun, ActedAtStop
    <3> QED BY <2>1, <3>1, <3>2, <3>3 DEF ControlTypeOK
  <2> QED BY <2>1, <2>2, <2>3, <2>6, <2>7 DEF ControlInv
<1>2. CASE UNCHANGED controlVars
  <2> USE <1>2 DEF controlVars, windowVars, sharedVars, serverVars, loopVars, historyVars
  <2>1. ControlTypeOK'
        BY DEF ControlInv, ControlTypeOK
  <2>2. (ui = "cli" => CliOrder)' /\ SafeUnlessHasty'
        BY DEF ControlInv, CliOrder, SafeUnlessHasty
  <2>3. (Careful => Order)'
        BY DEF ControlInv, Careful, Order, Beginning, Asked, OneStart, Known, NoInfo, InfoWaits, Started, InUse,
           ActedAtRun, ActedAtStop
  <2> QED BY <2>1, <2>2, <2>3 DEF ControlInv
<1> QED BY <1>1, <1>2

\* The type invariant of the two threads and what they share (main_gui.cpp).
THEOREM ControlTyped == ControlSpec => []ControlTypeOK
<1>1. ControlInv => ControlTypeOK
      BY DEF ControlInv
<1> QED BY ControlInvInit, ControlInvStep, <1>1, PTL DEF ControlSpec

\* An operator who has seen the answer to each of his requests meets two faults: a
\* second start, if he acted before running was set, and the race in on_stop, which
\* takes the idle timeout, or that he acted before it was called (on_start,
\* async_start_cb, async_stop_cb, stopWorker).
THEOREM CarefulIsSafe == ControlSpec => []SafeUnlessHasty
<1>1. ControlInv => SafeUnlessHasty
      BY DEF ControlInv
<1> QED BY ControlInvInit, ControlInvStep, <1>1, PTL DEF ControlSpec


-----------------------------------------------------------------------------
(***************************************************************************)
(* What the button tells.  It lags behind: what it will show when all that *)
(* waits for the GUI thread has been run is compared with the server.      *)
(***************************************************************************)
Told == IF awakes = <<>> THEN button ELSE Shows(awakes[Len(awakes)])

Agreed ==
    /\ Told \in {"start", "stop"} /\ (Told = "stop" <=> running)
    /\ (sharing <=> running) /\ (server = "up" <=> running)

Books ==
    /\ loop \in {"init", "setup"} => ~running /\ ~sharing /\ server = "down"
    /\ loop = "poll" \/ (loop = "second" /\ server # "closing") => Agreed
    /\ loop = "bind" => Told = "stop" /\ ~running /\ ~sharing
    /\ loop \in Started => Told = "stop" /\ sharing /\ server = "up"
    /\ loop = "closing" => server = "closing"
    /\ server = "closing" => Told = "stop" /\ running /\ ~sharing
    /\ loop \in {"tell", "unset", "onstop"} => ~sharing
    /\ loop \in {"unset", "onstop"} => Told = "start"
    /\ loop = "onstop" => ~running

\* A button that cannot be clicked will be set active by something under way.
Returning ==
    ~active /\ gui = "events" =>
        \/ pending # {} \/ awakes # <<>>
        \/ loop \in {"closing", "tell"} \/ (loop = "second" /\ server = "closing")

\* What the line will say, and that it will say where the server is found if and
\* only if the button will offer to stop it.  From async_start_cb to on_start it
\* is behind the button.
LineTold == IF awakes = <<>> THEN line ELSE Says(awakes[Len(awakes)])

Lined ==
    /\ gui = "start" => ~running
    /\ loop = "tell" /\ ~running => Told = "start"
    /\ loop = "done" => stopping
    /\ loop \notin {"bind", "announce"} =>
          /\ awakes # <<>> => awakes[Len(awakes)] # "deactivate"
          /\ LineTold = "addresses" <=> Told = "stop"

\* What is left of the threads after the one fault that a careful operator meets.
Stuck == ui = "gui" /\ fault # "none" /\ ~hasty /\ ~ActedAtRun => loop = "onstop"

Telling == Careful /\ ~ActedAtRun

ButtonInv == ControlInv /\ (Telling => Books /\ Returning /\ Lined) /\ Stuck

\* The only answer that waits is the first and the last.
LEMMA OneLeft ==
  awakes \in Seq(Awakes) /\ awakes # <<>> /\ Tail(awakes) = <<>> => Head(awakes) = awakes[Len(awakes)]
<1>1. awakes \in Seq(Awakes) /\ awakes # <<>> =>
        Len(Tail(awakes)) = Len(awakes) - 1 /\ Len(awakes) \in Nat /\ Head(awakes) = awakes[1]
      OBVIOUS
<1>2. Tail(awakes) = <<>> => Len(Tail(awakes)) = Len(<<>>) /\ Len(<<>>) = 0
      OBVIOUS
<1> QED BY <1>1, <1>2

\* What was told last is what will be shown, whatever waits before it.
LEMMA ToldLast ==
  ASSUME ControlTypeOK
  PROVE  /\ \A h \in Awakes : Tell(h) => Told' = Shows(h) /\ awakes' # <<>>
         /\ RunAwake => Told' = Told
         /\ UNCHANGED <<awakes, button>> => Told' = Told
<1>1. ASSUME NEW h \in Awakes, Tell(h) PROVE Told' = Shows(h) /\ awakes' # <<>>
  <2>1. awakes \in Seq(Awakes) /\ awakes' = Append(awakes, h)
        BY <1>1 DEF ControlTypeOK, Tell
  <2>2. awakes' # <<>> /\ awakes'[Len(awakes')] = h
        BY <2>1
  <2> QED BY <2>2 DEF Told, Shows
<1>2. ASSUME RunAwake PROVE Told' = Told
  <2>1. awakes \in Seq(Awakes) /\ awakes # <<>> /\ awakes' = Tail(awakes) /\ button' = Shows(Head(awakes))
        BY <1>2 DEF ControlTypeOK, RunAwake
  <2>2. CASE awakes' = <<>>
    <3>1. Head(awakes) = awakes[Len(awakes)]
          BY <2>1, <2>2, OneLeft
    <3> QED BY <2>1, <2>2, <3>1 DEF Told
  <2>3. CASE awakes' # <<>>
    <3>1. awakes'[Len(awakes')] = awakes[Len(awakes)]
          BY <2>1, <2>3
    <3> QED BY <2>1, <2>3, <3>1 DEF Told, Shows
  <2> QED BY <2>2, <2>3
<1>3. UNCHANGED <<awakes, button>> => Told' = Told
      BY DEF Told, Shows
<1> QED BY <1>1, <1>2, <1>3

\* Server, sharing, running and button follow each other through a start and a stop.
LEMMA BooksStep ==
  ASSUME ControlTypeOK, Careful, Order, Books, Returning, ControlNext, ~hasty', ~ActedAtRun, fault' = "none"
  PROVE  Books'
<1> USE DEF windowVars, sharedVars, serverVars, loopVars, ControlTypeOK, Careful, Order
<1>0. /\ \A h \in Awakes : Tell(h) => Told' = Shows(h) /\ awakes' # <<>>
      /\ RunAwake => Told' = Told
      /\ UNCHANGED <<awakes, button>> => Told' = Told
      BY ToldLast
<1>1. CASE WindowNext
  <2>1. CASE Click
        BY <1>0, <2>1 DEF Click, Clicked, Beginning, Asked, OneStart, Known, Started, InUse, Books, Agreed, Shows, Awakes, Unshared
  <2>2. CASE RunAwake
        BY <1>0, <2>2 DEF RunAwake, Beginning, Asked, OneStart, Known, Started, InUse, Books, Agreed, Shows, Awakes, Unshared
  <2>3. CASE CloseWindow
        BY <1>0, <2>3 DEF CloseWindow, Beginning, Asked, OneStart, Known, Started, InUse, Books, Agreed, Shows, Awakes, Unshared
  <2>4. CASE Launch
        BY <1>0, <2>4 DEF Launch, Send, Beginning, Asked, OneStart, Known, Started, InUse, Books, Agreed, Shows, Awakes, Unshared
  <2>5. CASE RefuseOptions
        BY <1>0, <2>5 DEF RefuseOptions, Beginning, Asked, OneStart, Known, Started, InUse, Books, Agreed, Shows, Awakes, Unshared
  <2>6. CASE Halt
        BY <1>0, <2>6 DEF Halt, StopWorker, Send, Beginning, Asked, OneStart, Known, Started, InUse, Books, Agreed, Shows, Awakes, Unshared
  <2>7. CASE Quit
        BY <1>0, <2>7 DEF Quit, StopWorker, QuitWith, Send, Beginning, Asked, OneStart, Known, Started, InUse, Books, Agreed, Shows, Awakes, Unshared
  <2>8. CASE Joined
        BY <1>0, <2>8 DEF Joined, Beginning, Asked, OneStart, Known, Started, InUse, Books, Agreed, Shows, Awakes, Unshared
  <2> QED BY <1>1, <2>1, <2>2, <2>3, <2>4, <2>5, <2>6, <2>7, <2>8 DEF WindowNext, WindowStep
<1>2. CASE LoopStep
  <2>1. CASE InitAsyncs
        BY <1>0, <2>1 DEF InitAsyncs, Beginning, Asked, OneStart, Known, Started, InUse, Books, Agreed, Shows, Awakes, Unshared
  <2>2. CASE Ready
        BY <1>0, <2>2 DEF Ready, Beginning, Asked, OneStart, Known, Started, InUse, Books, Agreed, Shows, Awakes, Unshared
  <2>3. CASE AsyncStop
        BY <1>0, <2>3 DEF AsyncStop, Beginning, Asked, OneStart, Known, Started, InUse, Books, Agreed, Shows, Awakes, Unshared
  <2>4. CASE SkipStop
        BY <1>0, <2>4 DEF SkipStop, Beginning, Asked, OneStart, Known, Started, InUse, Books, Agreed, Shows, Awakes, Unshared
  <2>5. CASE AsyncStart
        BY <1>0, <2>5 DEF AsyncStart, Beginning, Asked, OneStart, Known, Started, InUse, Books, Agreed, Shows, Awakes, Unshared
  <2>6. CASE SkipStart
        BY <1>0, <2>6 DEF SkipStart, Beginning, Asked, OneStart, Known, Started, InUse, Books, Agreed, Shows, Awakes, Unshared
  <2>7. CASE Bind
        BY <1>0, <2>7 DEF Bind, Beginning, Asked, OneStart, Known, Started, InUse, Books, Agreed, Shows, Awakes, Unshared
  <2>8. CASE BindFails
        BY <1>0, <2>8 DEF BindFails, Beginning, Asked, OneStart, Known, Started, InUse, Books, Agreed, Shows, Awakes, Unshared
  <2>9. CASE BindAgain
        BY <1>0, <2>9 DEF BindAgain, Beginning, Asked, OneStart, Known, Started, InUse, Books, Agreed, Shows, Awakes, Unshared
  <2>10. CASE Announce
        BY <1>0, <2>10 DEF Announce, Beginning, Asked, OneStart, Known, Started, InUse, Books, Agreed, Shows, Awakes, Unshared
  <2>11. CASE SetRunning
        BY <1>0, <2>11 DEF SetRunning, NowRunning, Beginning, Asked, OneStart, Known, Started, InUse, Books, Agreed, Shows, Awakes, Unshared
  <2>12. CASE ServerClosed
        BY <1>0, <2>12 DEF ServerClosed, Beginning, Asked, OneStart, Known, Started, InUse, Books, Agreed, Shows, Awakes, Unshared
  <2>13. CASE TellStopped
        BY <1>0, <2>13 DEF TellStopped, Beginning, Asked, OneStart, Known, Started, InUse, Books, Agreed, Shows, Awakes, Unshared
  <2>14. CASE UnsetRunning
        BY <1>0, <2>14 DEF UnsetRunning, Beginning, Asked, OneStart, Known, Started, InUse, Books, Agreed, Shows, Awakes, Unshared
  <2>15. CASE CallOnStop
        BY <1>0, <2>15 DEF CallOnStop, Beginning, Asked, OneStart, Known, Started, InUse, Books, Agreed, Shows, Awakes, Unshared
  <2>16. CASE LoopEnds
        BY <1>0, <2>16 DEF LoopEnds, Beginning, Asked, OneStart, Known, Started, InUse, Books, Agreed, Shows, Awakes, Unshared
  <2>17. CASE ExitTimer
        BY <1>0, <2>17 DEF ExitTimer, Beginning, Asked, OneStart, Known, Started, InUse, Books, Agreed, Shows, Awakes, Unshared
  <2>18. ASSUME NEW ok \in BOOLEAN, CliStart(ok) PROVE Books'
        BY <1>0, <2>18 DEF CliStart, Beginning, Asked, OneStart, Known, Started, InUse, Books, Agreed, Shows, Awakes, Unshared
  <2> QED BY <1>2, <2>1, <2>2, <2>3, <2>4, <2>5, <2>6, <2>7, <2>8, <2>9, <2>10,
             <2>11, <2>12, <2>13, <2>14, <2>15, <2>16, <2>17, <2>18 DEF LoopStep, CallbackStep
<1>3. CASE Expire
      BY <1>0, <1>3 DEF Expire, Beginning, Asked, OneStart, Known, Started, InUse, Books, Agreed, Shows, Awakes, Unshared
<1>4. CASE Interrupt
      BY <1>0, <1>4 DEF Interrupt, Beginning, Asked, OneStart, Known, Started, InUse, Books, Agreed, Shows, Awakes, Unshared
<1> QED BY <1>1, <1>2, <1>3, <1>4 DEF ControlNext, LoopNext

\* Whatever makes the button inactive leaves something under way.
LEMMA ReturningStep ==
  ASSUME ControlTypeOK, Careful, Order, Books, Returning, ControlNext, ~hasty', ~ActedAtRun, fault' = "none"
  PROVE  Returning'
<1> USE DEF windowVars, sharedVars, serverVars, loopVars, ControlTypeOK, Careful, Order
<1>0. /\ \A h \in Awakes : Tell(h) => Told' = Shows(h) /\ awakes' # <<>>
      /\ RunAwake => Told' = Told
      /\ UNCHANGED <<awakes, button>> => Told' = Told
      BY ToldLast
<1>1. CASE WindowNext
  <2>1. CASE Click
        BY <1>0, <2>1 DEF Click, Clicked, Beginning, Asked, OneStart, Known, Returning, InUse, Awakes, Refuse
  <2>2. CASE RunAwake
        BY <1>0, <2>2 DEF RunAwake, Beginning, Asked, OneStart, Known, Returning, InUse, Awakes, Refuse
  <2>3. CASE CloseWindow
        BY <1>0, <2>3 DEF CloseWindow, Beginning, Asked, OneStart, Known, Returning, InUse, Awakes, Refuse
  <2>4. CASE Launch
        BY <1>0, <2>4 DEF Launch, Send, Beginning, Asked, OneStart, Known, Returning, InUse, Awakes, Refuse
  <2>5. CASE RefuseOptions
        BY <1>0, <2>5 DEF RefuseOptions, Beginning, Asked, OneStart, Known, Returning, InUse, Awakes, Refuse
  <2>6. CASE Halt
        BY <1>0, <2>6 DEF Halt, StopWorker, Send, Beginning, Asked, OneStart, Known, Returning, InUse, Awakes, Refuse
  <2>7. CASE Quit
        BY <1>0, <2>7 DEF Quit, StopWorker, QuitWith, Send, Beginning, Asked, OneStart, Known, Returning, InUse, Awakes, Refuse
  <2>8. CASE Joined
        BY <1>0, <2>8 DEF Joined, Beginning, Asked, OneStart, Known, Returning, InUse, Awakes, Refuse
  <2> QED BY <1>1, <2>1, <2>2, <2>3, <2>4, <2>5, <2>6, <2>7, <2>8 DEF WindowNext, WindowStep
<1>2. CASE LoopStep
  <2>1. CASE InitAsyncs
        BY <1>0, <2>1 DEF InitAsyncs, Beginning, Asked, OneStart, Known, Returning, InUse, Awakes, Refuse
  <2>2. CASE Ready
        BY <1>0, <2>2 DEF Ready, Beginning, Asked, OneStart, Known, Returning, InUse, Awakes, Refuse
  <2>3. CASE AsyncStop
        BY <1>0, <2>3 DEF AsyncStop, Beginning, Asked, OneStart, Known, Returning, InUse, Awakes, Refuse
  <2>4. CASE SkipStop
        BY <1>0, <2>4 DEF SkipStop, Beginning, Asked, OneStart, Known, Returning, InUse, Awakes, Refuse
  <2>5. CASE AsyncStart
        BY <1>0, <2>5 DEF AsyncStart, Beginning, Asked, OneStart, Known, Returning, InUse, Awakes, Refuse
  <2>6. CASE SkipStart
        BY <1>0, <2>6 DEF SkipStart, Beginning, Asked, OneStart, Known, Returning, InUse, Awakes, Refuse
  <2>7. CASE Bind
        BY <1>0, <2>7 DEF Bind, Beginning, Asked, OneStart, Known, Returning, InUse, Awakes, Refuse
  <2>8. CASE BindFails
        BY <1>0, <2>8 DEF BindFails, Beginning, Asked, OneStart, Known, Returning, InUse, Awakes, Refuse
  <2>9. CASE BindAgain
        BY <1>0, <2>9 DEF BindAgain, Beginning, Asked, OneStart, Known, Returning, InUse, Awakes, Refuse
  <2>10. CASE Announce
        BY <1>0, <2>10 DEF Announce, Beginning, Asked, OneStart, Known, Returning, InUse, Awakes, Refuse
  <2>11. CASE SetRunning
        BY <1>0, <2>11 DEF SetRunning, NowRunning, Beginning, Asked, OneStart, Known, Returning, InUse, Awakes, Refuse
  <2>12. CASE ServerClosed
        BY <1>0, <2>12 DEF ServerClosed, Beginning, Asked, OneStart, Known, Returning, InUse, Awakes, Refuse
  <2>13. CASE TellStopped
        BY <1>0, <2>13 DEF TellStopped, Beginning, Asked, OneStart, Known, Returning, InUse, Awakes, Refuse
  <2>14. CASE UnsetRunning
        BY <1>0, <2>14 DEF UnsetRunning, Beginning, Asked, OneStart, Known, Returning, InUse, Awakes, Refuse
  <2>15. CASE CallOnStop
        BY <1>0, <2>15 DEF CallOnStop, Beginning, Asked, OneStart, Known, Returning, InUse, Awakes, Refuse
  <2>16. CASE LoopEnds
        BY <1>0, <2>16 DEF LoopEnds, Beginning, Asked, OneStart, Known, Returning, InUse, Awakes, Refuse
  <2>17. CASE ExitTimer
        BY <1>0, <2>17 DEF ExitTimer, Beginning, Asked, OneStart, Known, Returning, InUse, Awakes, Refuse
  <2>18. ASSUME NEW ok \in BOOLEAN, CliStart(ok) PROVE Returning'
        BY <1>0, <2>18 DEF CliStart, Beginning, Asked, OneStart, Known, Returning, InUse, Awakes, Refuse
  <2> QED BY <1>2, <2>1, <2>2, <2>3, <2>4, <2>5, <2>6, <2>7, <2>8, <2>9, <2>10,
             <2>11, <2>12, <2>13, <2>14, <2>15, <2>16, <2>17, <2>18 DEF LoopStep, CallbackStep
<1>3. CASE Expire
      BY <1>0, <1>3 DEF Expire, Beginning, Asked, OneStart, Known, Returning, InUse, Awakes, Refuse
<1>4. CASE Interrupt
      BY <1>0, <1>4 DEF Interrupt, Beginning, Asked, OneStart, Known, Returning, InUse, Awakes, Refuse
<1> QED BY <1>1, <1>2, <1>3, <1>4 DEF ControlNext, LoopNext

\* The same of the line: an answer but "deactivate" says what it will be.
LEMMA LineToldLast ==
  ASSUME ControlTypeOK
  PROVE  /\ \A h \in Awakes \ {"deactivate"} :
               Tell(h) => LineTold' = Says(h) /\ awakes'[Len(awakes')] # "deactivate"
         /\ RunAwake /\ awakes[Len(awakes)] # "deactivate" =>
               LineTold' = LineTold /\ (awakes' # <<>> => awakes'[Len(awakes')] # "deactivate")
         /\ UNCHANGED <<awakes, line>> => LineTold' = LineTold
<1>0. awakes \in Seq(Awakes)
      BY DEF ControlTypeOK
<1>1. ASSUME NEW h \in Awakes \ {"deactivate"}, Tell(h)
      PROVE  LineTold' = Says(h) /\ awakes'[Len(awakes')] # "deactivate"
  <2>1. awakes' = Append(awakes, h)
        BY <1>1 DEF Tell
  <2>2. awakes' # <<>> /\ awakes'[Len(awakes')] = h
        BY <1>0, <2>1
  <2>3. LineTold' = Says(h)'
        BY <2>2 DEF LineTold, Says
  <2> QED BY <1>1, <2>2, <2>3 DEF Says, Awakes
<1>2. ASSUME RunAwake, awakes[Len(awakes)] # "deactivate"
      PROVE  LineTold' = LineTold /\ (awakes' # <<>> => awakes'[Len(awakes')] # "deactivate")
  <2>1. awakes # <<>> /\ awakes' = Tail(awakes) /\ line' = Says(Head(awakes))
        BY <1>2 DEF RunAwake
  <2>2. CASE awakes' = <<>>
    <3>1. Head(awakes) = awakes[Len(awakes)]
          BY <1>0, <2>1, <2>2, OneLeft
    <3> QED BY <2>1, <2>2, <3>1 DEF LineTold
  <2>3. CASE awakes' # <<>>
    <3>1. awakes'[Len(awakes')] = awakes[Len(awakes)] /\ awakes[Len(awakes)] \in Awakes
          BY <1>0, <2>1, <2>3
    <3> QED BY <1>2, <2>1, <2>3, <3>1 DEF LineTold, Says, Awakes
  <2> QED BY <2>2, <2>3
<1>3. UNCHANGED <<awakes, line>> => LineTold' = LineTold
      BY DEF LineTold, Says
<1> QED BY <1>1, <1>2, <1>3

\* Each answer that changes the button changes the line, or one behind it does.
LEMMA LinedStep ==
  ASSUME ControlTypeOK, Careful, Order, Books, Lined, ControlNext, ~hasty', ~ActedAtRun, fault' = "none"
  PROVE  Lined'
<1> USE DEF windowVars, sharedVars, serverVars, loopVars, ControlTypeOK, Careful, Order
<1>0. /\ \A h \in Awakes : Tell(h) => Told' = Shows(h) /\ awakes' # <<>>
      /\ RunAwake => Told' = Told
      /\ UNCHANGED <<awakes, button>> => Told' = Told
      BY ToldLast
<1>i. /\ \A h \in Awakes \ {"deactivate"} :
            Tell(h) => LineTold' = Says(h) /\ awakes'[Len(awakes')] # "deactivate"
      /\ RunAwake /\ awakes[Len(awakes)] # "deactivate" =>
            LineTold' = LineTold /\ (awakes' # <<>> => awakes'[Len(awakes')] # "deactivate")
      /\ UNCHANGED <<awakes, line>> => LineTold' = LineTold
      BY LineToldLast
<1>1. CASE WindowNext
  <2>1. CASE Click
        BY <1>0, <1>i, <2>1 DEF Click, Clicked, Beginning, Asked, OneStart, Known, Started, InUse, Books, Agreed, Lined, Shows, Says, Awakes
  <2>2. CASE RunAwake
        BY <1>0, <1>i, <2>2 DEF RunAwake, Beginning, Asked, OneStart, Known, Started, InUse, Books, Agreed, Lined, Shows, Says, Awakes
  <2>3. CASE CloseWindow
        BY <1>0, <1>i, <2>3 DEF CloseWindow, Beginning, Asked, OneStart, Known, Started, InUse, Books, Agreed, Lined, Shows, Says, Awakes
  <2>4. CASE Launch
        BY <1>0, <1>i, <2>4 DEF Launch, Send, Beginning, Asked, OneStart, Known, Started, InUse, Books, Agreed, Lined, Shows, Says, Awakes
  <2>5. CASE RefuseOptions
    <3>1. /\ gui = "start" /\ gui' = "events" /\ line' = "error"
          /\ UNCHANGED <<awakes, button, loop, running, stopping>>
          BY <2>5 DEF RefuseOptions
    <3>2. Told = "start"
          BY <3>1 DEF Beginning, Asked, OneStart, Started, InUse, Books, Agreed, Lined
    <3>3. loop \notin {"bind", "announce"}
          BY <3>1 DEF OneStart, Started
    <3>4. awakes # <<>> => awakes[Len(awakes)] # "deactivate" /\ LineTold # "addresses"
          BY <3>2, <3>3 DEF Lined
    <3>5. LineTold' # "addresses"
      <4>1. CASE awakes = <<>>
            BY <3>1, <4>1 DEF LineTold
      <4>2. CASE awakes # <<>>
        <5>1. awakes[Len(awakes)] \in Awakes \ {"deactivate"}
              BY <3>4, <4>2
        <5>2. LineTold' = LineTold
              BY <3>1, <4>2, <5>1 DEF LineTold, Says, Awakes
        <5> QED BY <3>4, <4>2, <5>2
      <4> QED BY <4>1, <4>2
    <3>6. Told' = "start"
          BY <1>0, <3>1, <3>2
    <3> QED BY <3>1, <3>2, <3>3, <3>4, <3>5, <3>6 DEF Lined
  <2>6. CASE Halt
        BY <1>0, <1>i, <2>6 DEF Halt, StopWorker, Send, Beginning, Asked, OneStart, Known, Started, InUse, Books, Agreed, Lined, Shows, Says, Awakes
  <2>7. CASE Quit
        BY <1>0, <1>i, <2>7 DEF Quit, StopWorker, QuitWith, Send, Beginning, Asked, OneStart, Known, Started, InUse, Books, Agreed, Lined, Shows, Says, Awakes
  <2>8. CASE Joined
        BY <1>0, <1>i, <2>8 DEF Joined, Beginning, Asked, OneStart, Known, Started, InUse, Books, Agreed, Lined, Shows, Says, Awakes
  <2> QED BY <1>1, <2>1, <2>2, <2>3, <2>4, <2>5, <2>6, <2>7, <2>8 DEF WindowNext, WindowStep
<1>2. CASE LoopStep
  <2>1. CASE InitAsyncs
        BY <1>0, <1>i, <2>1 DEF InitAsyncs, Beginning, Asked, OneStart, Known, Started, InUse, Books, Agreed, Lined, Shows, Says, Awakes
  <2>2. CASE Ready
        BY <1>0, <1>i, <2>2 DEF Ready, Beginning, Asked, OneStart, Known, Started, InUse, Books, Agreed, Lined, Shows, Says, Awakes
  <2>3. CASE AsyncStop
        BY <1>0, <1>i, <2>3 DEF AsyncStop, Beginning, Asked, OneStart, Known, Started, InUse, Books, Agreed, Lined, Shows, Says, Awakes
  <2>4. CASE SkipStop
        BY <1>0, <1>i, <2>4 DEF SkipStop, Beginning, Asked, OneStart, Known, Started, InUse, Books, Agreed, Lined, Shows, Says, Awakes
  <2>5. CASE AsyncStart
        BY <1>0, <1>i, <2>5 DEF AsyncStart, Beginning, Asked, OneStart, Known, Started, InUse, Books, Agreed, Lined, Shows, Says, Awakes
  <2>6. CASE SkipStart
        BY <1>0, <1>i, <2>6 DEF SkipStart, Beginning, Asked, OneStart, Known, Started, InUse, Books, Agreed, Lined, Shows, Says, Awakes
  <2>7. CASE Bind
        BY <1>0, <1>i, <2>7 DEF Bind, Beginning, Asked, OneStart, Known, Started, InUse, Books, Agreed, Lined, Shows, Says, Awakes
  <2>8. CASE BindFails
        BY <1>0, <1>i, <2>8 DEF BindFails, Beginning, Asked, OneStart, Known, Started, InUse, Books, Agreed, Lined, Shows, Says, Awakes
  <2>9. CASE BindAgain
        BY <1>0, <1>i, <2>9 DEF BindAgain, Beginning, Asked, OneStart, Known, Started, InUse, Books, Agreed, Lined, Shows, Says, Awakes
  <2>10. CASE Announce
        BY <1>0, <1>i, <2>10 DEF Announce, Beginning, Asked, OneStart, Known, Started, InUse, Books, Agreed, Lined, Shows, Says, Awakes
  <2>11. CASE SetRunning
        BY <1>0, <1>i, <2>11 DEF SetRunning, NowRunning, Beginning, Asked, OneStart, Known, Started, InUse, Books, Agreed, Lined, Shows, Says, Awakes
  <2>12. CASE ServerClosed
        BY <1>0, <1>i, <2>12 DEF ServerClosed, Beginning, Asked, OneStart, Known, Started, InUse, Books, Agreed, Lined, Shows, Says, Awakes
  <2>13. CASE TellStopped
        BY <1>0, <1>i, <2>13 DEF TellStopped, Beginning, Asked, OneStart, Known, Started, InUse, Books, Agreed, Lined, Shows, Says, Awakes
  <2>14. CASE UnsetRunning
        BY <1>0, <1>i, <2>14 DEF UnsetRunning, Beginning, Asked, OneStart, Known, Started, InUse, Books, Agreed, Lined, Shows, Says, Awakes
  <2>15. CASE CallOnStop
        BY <1>0, <1>i, <2>15 DEF CallOnStop, Beginning, Asked, OneStart, Known, Started, InUse, Books, Agreed, Lined, Shows, Says, Awakes
  <2>16. CASE LoopEnds
        BY <1>0, <1>i, <2>16 DEF LoopEnds, Beginning, Asked, OneStart, Known, Started, InUse, Books, Agreed, Lined, Shows, Says, Awakes
  <2>17. CASE ExitTimer
        BY <1>0, <1>i, <2>17 DEF ExitTimer, Beginning, Asked, OneStart, Known, Started, InUse, Books, Agreed, Lined, Shows, Says, Awakes
  <2>18. ASSUME NEW ok \in BOOLEAN, CliStart(ok) PROVE Lined'
        BY <1>0, <1>i, <2>18 DEF CliStart, Beginning, Asked, OneStart, Known, Started, InUse, Books, Agreed, Lined, Shows, Says, Awakes
  <2> QED BY <1>2, <2>1, <2>2, <2>3, <2>4, <2>5, <2>6, <2>7, <2>8, <2>9, <2>10,
             <2>11, <2>12, <2>13, <2>14, <2>15, <2>16, <2>17, <2>18 DEF LoopStep, CallbackStep
<1>3. CASE Expire
      BY <1>0, <1>i, <1>3 DEF Expire, Beginning, Asked, OneStart, Known, Started, InUse, Books, Agreed, Lined, Shows, Says, Awakes
<1>4. CASE Interrupt
      BY <1>0, <1>i, <1>4 DEF Interrupt, Beginning, Asked, OneStart, Known, Started, InUse, Books, Agreed, Lined, Shows, Says, Awakes
<1> QED BY <1>1, <1>2, <1>3, <1>4 DEF ControlNext, LoopNext

\* When all is quiet the button that is shown is the one that was told.
LEMMA ButtonInvImplies == ButtonInv => ButtonTells
<1> SUFFICES ASSUME ButtonInv, Quiet, ui = "gui", ~hasty, ~ActedAtRun
             PROVE  /\ active /\ button \in {"start", "stop"}
                    /\ running = (button = "stop") /\ sharing = running /\ (server = "up") = running
                    /\ (line = "addresses") = running
    BY DEF ButtonTells, ActedAtRun
<1>1. CASE fault = "none"
  <2>1. Books /\ Returning /\ Lined
        BY <1>1 DEF ButtonInv, Telling, Careful
  <2>2. active
        BY <2>1 DEF Returning, Quiet
  <2>3. Told = button /\ LineTold = line
        BY DEF Told, LineTold, Quiet
  <2>4. Agreed
        BY <2>1 DEF Books, Quiet
  <2>5. running \in BOOLEAN /\ sharing \in BOOLEAN
        BY DEF ButtonInv, ControlInv, ControlTypeOK
  <2>6. line = "addresses" <=> button = "stop"
        BY <2>1, <2>3 DEF Lined, Quiet
  <2> QED BY <2>2, <2>3, <2>4, <2>5, <2>6 DEF Agreed
<1>2. CASE fault # "none"
      BY <1>2 DEF ButtonInv, Stuck, Quiet
<1> QED BY <1>1, <1>2

\* The initial states have the invariant.
LEMMA ButtonInvInit == ControlInit => ButtonInv
<1> SUFFICES ASSUME ControlInit PROVE ButtonInv
    OBVIOUS
<1>1. Telling => Books
      BY DEF ControlInit, Telling, Careful, Books, Started
<1>2. Telling => Returning
      BY DEF ControlInit, Telling, Careful, Returning
<1>3. Stuck
      BY DEF ControlInit, Stuck
<1>4. Telling => Lined
      BY DEF ControlInit, Telling, Careful, Lined, LineTold, Told
<1> QED BY <1>1, <1>2, <1>3, <1>4, ControlInvInit DEF ButtonInv

\* Each step preserves it.
LEMMA ButtonInvStep == ButtonInv /\ [ControlNext]_controlVars => ButtonInv'
<1> SUFFICES ASSUME ButtonInv, [ControlNext]_controlVars PROVE ButtonInv'
    OBVIOUS
<1>0. ControlInv /\ ControlInv'
      BY ControlInvStep DEF ButtonInv
<1>1. CASE ControlNext
  <2>1. ControlTypeOK /\ ui' = ui
        BY <1>0, <1>1, UiKept DEF ControlInv
  <2>2. fault = "none" /\ (~hasty' => ~hasty /\ (~ActedAtRun' => ~ActedAtRun))
        BY <1>1, <2>1, HistoryKept DEF ControlNext
  <2>3. ~hasty' /\ ~ActedAtRun' /\ ui = "gui" =>
           Careful /\ ~ActedAtRun /\ Order /\ Books /\ Returning /\ Lined
        BY <1>0, <2>2 DEF ButtonInv, ControlInv, Telling, Careful
  <2>4. Telling' => Books' /\ Returning' /\ Lined'
    <3> SUFFICES ASSUME Telling' PROVE Books' /\ Returning' /\ Lined'
        OBVIOUS
    <3>1. ~hasty' /\ ~ActedAtRun' /\ ui = "gui" /\ fault' = "none"
          BY <2>1 DEF Telling, Careful
    <3> QED BY <1>1, <2>1, <2>3, <3>1, BooksStep, ReturningStep, LinedStep
  <2>5. Stuck'
    <3> SUFFICES ASSUME ui' = "gui", fault' # "none", ~hasty', ~ActedAtRun' PROVE loop' = "onstop"
        BY DEF Stuck
    <3> QED BY <1>1, <2>1, <2>3, SafeStep
  <2> QED BY <1>0, <2>4, <2>5 DEF ButtonInv
<1>2. CASE UNCHANGED controlVars
  <2> USE <1>2 DEF controlVars, windowVars, sharedVars, serverVars, loopVars, historyVars
  <2>1. (Telling => Books)'
        BY DEF ButtonInv, Telling, Careful, ActedAtRun, Books, Agreed, Told, Started, Shows
  <2>2. (Telling => Returning)' /\ Stuck'
        BY DEF ButtonInv, Telling, Careful, ActedAtRun, Returning, Stuck
  <2>3. (Telling => Lined)'
        BY DEF ButtonInv, Telling, Careful, ActedAtRun, Lined, LineTold, Told, Says, Shows
  <2> QED BY <1>0, <2>1, <2>2, <2>3 DEF ButtonInv
<1> QED BY <1>1, <1>2

\* When nothing is under way the button can be clicked and offers what is true
\* of the server, for an operator who waits (activate, deactivate).
THEOREM ButtonIsTrue == ControlSpec => []ButtonTells
  BY ButtonInvInit, ButtonInvStep, ButtonInvImplies, PTL DEF ControlSpec

-----------------------------------------------------------------------------
(***************************************************************************)
(* The idle timer.                                                         *)
(***************************************************************************)
\* While the timer is armed the clock is behind the last answer, unless the write
\* timer, which sets the clock when it ends, has still to find the queue empty.
Behind == due # Off /\ writing = "off" => age <= unused \/ unused >= Millis(timeout)

\* The clock of a viewer who pings is no more than a PING behind, as the answer to
\* the last PING has set it ...
Fresh == writing = "off" /\ viewer = "known" => age + ping <= Ping

\* ... and so it is for the frames he was sent.
Seen == due # Off /\ writing = "off" => age <= unseen + Ping \/ unseen >= Millis(timeout)

\* What is left until the timer fires, and what has passed, is within the limit.
Within == due # Off => age + due <= Millis(timeout) + Period

IdleInv == IdleTypeOK /\ Behind /\ Fresh /\ Seen /\ Within

-----------------------------------------------------------------------------
\* The arithmetic of the words: what is cut off is less than a word, and a
\* number that fits is kept.
LEMMA Words ==
  ASSUME NEW n \in Nat
  PROVE  /\ n % Word \in 0..(Word - 1)
         /\ n < Word => n % Word = n
  BY IdleAssumption

\* A timeout in milliseconds is a number, also when the product wraps.
LEMMA MillisType ==
  ASSUME NEW t \in Timeouts
  PROVE  /\ t * Second \in Nat
         /\ Millis(t) \in Nat
         /\ t * Second < Word => Millis(t) = t * Second
<1>1. t \in Nat /\ Second \in Nat
      BY IdleAssumption
<1>2. t * Second \in Nat
      BY <1>1
<1>3. (t * Second) % Word \in 0..(Word - 1) /\ (t * Second < Word => (t * Second) % Word = t * Second)
      BY <1>2, Words
<1> QED BY <1>2, <1>3, IdleAssumption DEF Millis

\* The interval is less than a word, so that an armed timer is never taken for
\* one that is stopped.
LEMMA PeriodType ==
  ASSUME timeout \in Timeouts
  PROVE  Period \in 0..(Word - 1)
<1>1. Millis(timeout) \in Nat
      BY MillisType
<1>2. Lesser(Minute, Millis(timeout)) + Second \in Nat
      BY <1>1, IdleAssumption DEF Lesser
<1> QED BY <1>2, Words DEF Period

-----------------------------------------------------------------------------
\* The initial states have the invariant.
LEMMA IdleInvInit == IdleInit => IdleInv
<1> SUFFICES ASSUME IdleInit PROVE IdleInv
    OBVIOUS
<1>1. Word \in Nat /\ Ping \in Nat
      BY IdleAssumption
<1>2. IdleTypeOK
      BY <1>1 DEF IdleInit, IdleTypeOK, Off
<1>3. Behind /\ Fresh /\ Seen /\ Within
      BY DEF IdleInit, Behind, Fresh, Seen, Within
<1> QED BY <1>2, <1>3 DEF IdleInv

\* Each step preserves it.
LEMMA IdleInvStep == IdleInv /\ [IdleNext]_idleVars => IdleInv'
<1> SUFFICES ASSUME IdleInv, [IdleNext]_idleVars PROVE IdleInv'
    OBVIOUS
<1>1. /\ Word \in Nat \ {0} /\ Second \in Nat \ {0} /\ Minute \in Nat /\ MaxQueued \in Nat
      /\ Ping \in Nat
      /\ timeout \in Timeouts /\ due \in 0..Word /\ age \in Nat /\ unused \in Nat /\ unseen \in Nat
      /\ queued \in Nat /\ writing \in {"off", "due", "ran"}
      /\ viewer \in {"none", "new", "known"} /\ ping \in 0..Ping
      BY IdleAssumption DEF IdleInv, IdleTypeOK, Off
<1>2. Millis(timeout) \in Nat /\ Period \in 0..(Word - 1)
      BY <1>1, MillisType, PeriodType
<1>3. timeout' = timeout => Millis(timeout)' = Millis(timeout) /\ Period' = Period
      BY DEF Millis, Period
<1> USE <1>1, <1>2, <1>3 DEF IdleInv, IdleTypeOK, Off, serverTimers, answers, viewers, uses
<1>4. CASE IdleStart
  <2>1. IdleTypeOK' /\ Within'
        BY <1>4 DEF IdleStart, FirstDue, Within
  <2>2. age' = 0 /\ unused' = 0 /\ unseen' = 0 /\ ping' = ping /\ viewer' = viewer /\ writing' = writing
        BY <1>4 DEF IdleStart
  <2>3. Behind' /\ Fresh' /\ Seen'
        BY <2>2 DEF Behind, Fresh, Seen
  <2> QED BY <2>1, <2>3
<1>5. CASE IdleStop
      BY <1>5 DEF IdleStop, Behind, Fresh, Seen, Within
<1>6. CASE EnqueueAnswer
  <2>1. writing' # "off" /\ UNCHANGED <<timeout, due, age>>
        BY <1>6 DEF EnqueueAnswer, Enqueue
  <2>2. Behind' /\ Fresh' /\ Seen' /\ Within'
        BY <2>1 DEF Behind, Fresh, Seen, Within
  <2>3. IdleTypeOK'
        BY <1>6 DEF EnqueueAnswer, Enqueue
  <2> QED BY <2>2, <2>3
<1>7. CASE SendNothing
      BY <1>7 DEF SendNothing, Rested, Behind, Fresh, Seen, Within
<1>8. ASSUME NEW closed \in BOOLEAN, SendAnswer(closed) PROVE IdleInv'
      BY <1>8 DEF SendAnswer, HasAnswer, Behind, Fresh, Seen, Within
<1>9. CASE NotTimeout
      BY <1>9 DEF NotTimeout, IsOver, Behind, Fresh, Seen, Within
<1>10. CASE TimedOut
      BY <1>10 DEF TimedOut, Behind, Fresh, Seen, Within
<1>11. CASE Millisecond
  <2>1. /\ due' = due - 1 /\ due' \in 0..Word /\ due # Word /\ due # 0
        /\ age' = age + 1 /\ timeout' = timeout /\ queued' = queued /\ viewer' = viewer
        /\ writing # "due" /\ writing' \in {"off", "due", "ran"} /\ (writing' = "off" => writing = "off")
        /\ ping' = (IF viewer = "none" THEN ping ELSE ping - 1) /\ (viewer = "none" \/ ping # 0)
        BY <1>11 DEF Millisecond
  <2>2. /\ unused' \in Nat /\ (unused' >= unused + 1 \/ unused' >= Millis(timeout))
        /\ unseen' \in Nat /\ (unseen' >= unseen + 1 \/ unseen' >= Millis(timeout))
        BY <1>11 DEF Millisecond, Later, Lesser
  <2>3. IdleTypeOK'
        BY <2>1, <2>2
  <2>4. Behind'
        BY <1>11, <2>1 DEF Behind, Millisecond, Later, Lesser
  <2>5. Fresh'
        BY <2>1 DEF Fresh
  <2>6. Seen'
        BY <1>11, <2>1 DEF Seen, Millisecond, Later, Lesser
  <2>7. Within'
        BY <2>1 DEF Within
  <2> HIDE DEF IdleTypeOK
  <2> QED BY <2>3, <2>4, <2>5, <2>6, <2>7
<1>12. CASE Join
      BY <1>12 DEF Join, Behind, Fresh, Seen, Within
<1>13. CASE Leave
      BY <1>13 DEF Leave, Behind, Fresh, Seen, Within
<1>14. CASE AnswerPing
      BY <1>14 DEF AnswerPing, Enqueue, Behind, Fresh, Seen, Within
<1>15. CASE SendFrame
      BY <1>15 DEF SendFrame, Behind, Fresh, Seen, Within
<1>16. CASE UNCHANGED idleVars
      BY <1>16 DEF idleVars, Behind, Fresh, Seen, Within
<1> QED BY <1>4, <1>5, <1>6, <1>7, <1>8, <1>9, <1>10, <1>11, <1>12, <1>13, <1>14, <1>15, <1>16
        DEF IdleNext, IdleStep

\* What the timer decides on follows from it.
LEMMA IdleInvImplies == IdleInv => EndsOnlyUnused /\ EndsInTime
<1> SUFFICES ASSUME IdleInv PROVE EndsOnlyUnused /\ EndsInTime
    OBVIOUS
<1>1. /\ timeout \in Timeouts /\ due \in 0..Word /\ age \in Nat /\ unused \in Nat /\ unseen \in Nat
      /\ Word \in Nat \ {0} /\ Ping \in Nat
      BY IdleAssumption DEF IdleInv, IdleTypeOK
<1>2. /\ timeout * Second \in Nat /\ Millis(timeout) \in Nat
      /\ timeout * Second < Word => Millis(timeout) = timeout * Second
      BY <1>1, MillisType
<1>3. Period \in Nat
      BY <1>1, PeriodType
<1>4. EndsOnlyUnused
  <2> DEFINE limit == timeout * Second
  <2>1. limit \in Nat /\ (limit < Word => Millis(timeout) = limit)
        BY <1>2
  <2>2. due = 0 /\ IsOver /\ writing = "off" /\ limit < Word => unused >= limit /\ unseen + Ping >= limit
    <3> HIDE DEF limit
    <3> QED BY <1>1, <1>2, <2>1 DEF IdleInv, Behind, Seen, IsOver, Off
  <2> QED BY <1>1, <2>1, <2>2 DEF EndsOnlyUnused, Wraps
<1>5. EndsInTime
      BY <1>1, <1>2, <1>3 DEF EndsInTime, IdleInv, Within
<1> QED BY <1>4, <1>5

\* The program never counts below nothing and never leaves its types: the type
\* invariant of the clock, the timers and the queue.
THEOREM IdleTyped == IdleSpec => []IdleTypeOK
<1>1. IdleInv => IdleTypeOK
      BY DEF IdleInv
<1> QED BY IdleInvInit, IdleInvStep, <1>1, PTL DEF IdleSpec

\* A timer that ends a server whose write timer is off does so only if no answer
\* was sent for the time asked for, and no frame for that time less the interval of
\* the PINGs (HttpServer::on_send, start; WsResponse::send).
THEOREM EndsUnused == IdleSpec => []EndsOnlyUnused
<1>1. IdleInv => EndsOnlyUnused
      BY IdleInvImplies
<1> QED BY IdleInvInit, IdleInvStep, <1>1, PTL DEF IdleSpec

\* While the timer is armed, the time since the server last rested does not pass
\* the timeout by more than the interval (HttpServer::start, on_timeout).
THEOREM EndsTimely == IdleSpec => []EndsInTime
<1>1. IdleInv => EndsInTime
      BY IdleInvImplies
<1> QED BY IdleInvInit, IdleInvStep, <1>1, PTL DEF IdleSpec

-----------------------------------------------------------------------------
(***************************************************************************)
(* The panel.                                                              *)
(***************************************************************************)
PanelInv == PanelTypeOK /\ OneShown /\ TimersBehind

\* The window opens with its preview.
LEMMA PanelInvInit == PanelInit => PanelInv
<1> SUFFICES ASSUME PanelInit PROVE PanelInv
    OBVIOUS
<1>1. focused \in BOOLEAN /\ pushed \in BOOLEAN
      BY DEF PanelInit
<1>2. /\ flags \subseteq Shown /\ visible \in {"preview", "detail", "display"}
      /\ ticks \in Nat /\ refreshes \in Nat /\ abouts \in Nat
      BY DEF PanelInit, Shown
<1>3. OneShown
      BY DEF PanelInit, OneShown
<1>4. TimersBehind
      BY DEF PanelInit, TimersBehind
<1> QED BY <1>1, <1>2, <1>3, <1>4 DEF PanelInv, PanelTypeOK

\* previewOn with what the window knows of its focus, from the details, the
\* about text, the log or the preview itself.
LEMMA PreviewOnKeeps ==
  ASSUME PanelInv, NEW hasFocus \in BOOLEAN, PreviewOn(hasFocus), focused' = hasFocus,
         "preview" \in flags => hasFocus
  PROVE  /\ flags' \subseteq Shown /\ visible' \in {"preview", "detail", "display"} /\ ticks' \in Nat
         /\ OneShown' /\ "detail" \notin flags' /\ "about" \notin flags'
         /\ "preview" \in flags' => ticks' > 0
<1> USE DEF PanelInv, PanelTypeOK, PreviewOn, Shown
<1>1. CASE "preview" \in flags
  <2>1. flags' = {"preview"} /\ visible' = visible /\ ticks' = ticks /\ hasFocus
        BY <1>1
  <2>2. visible = "preview" /\ ticks > 0
        BY <1>1 DEF OneShown, TimersBehind
  <2> QED BY <2>1, <2>2 DEF OneShown
<1>2. CASE "preview" \notin flags /\ hasFocus
  <2>1. flags' = {"preview"} /\ visible' = "preview" /\ ticks' = ticks + 1
        BY <1>2
  <2> QED BY <1>2, <2>1 DEF OneShown
<1>3. CASE "preview" \notin flags /\ ~hasFocus
  <2>1. flags' = {} /\ visible' = "preview" /\ ticks' = ticks
        BY <1>3
  <2> QED BY <1>3, <2>1 DEF OneShown
<1> QED BY <1>1, <1>2, <1>3

\* The preview is shown only in a window that has the focus.
LEMMA PreviewFocused == PanelInv => ("preview" \in flags => focused) /\ focused \in BOOLEAN
  BY DEF PanelInv, PanelTypeOK, OneShown

\* Each step preserves it.
LEMMA PanelInvStep == PanelInv /\ [PanelNext]_panelVars => PanelInv'
<1> SUFFICES ASSUME PanelInv, [PanelNext]_panelVars PROVE PanelInv'
    OBVIOUS
<1>0. /\ flags \subseteq Shown /\ visible \in {"preview", "detail", "display"}
      /\ focused \in BOOLEAN /\ pushed \in BOOLEAN
      /\ ticks \in Nat /\ refreshes \in Nat /\ abouts \in Nat
      BY DEF PanelInv, PanelTypeOK
<1>1. ASSUME NEW isPush \in BOOLEAN, Focus(isPush) PROVE PanelInv'
  <2>1. pushed' \in BOOLEAN /\ focused' = TRUE /\ refreshes' = refreshes /\ abouts' = abouts
        BY <1>1 DEF Focus
  <2>2. CASE UNCHANGED <<flags, visible, ticks>> /\ (focused \/ flags \cap {"detail", "log"} # {})
        BY <1>0, <2>1, <2>2 DEF PanelInv, PanelTypeOK, OneShown, TimersBehind
  <2>3. CASE PreviewOn(TRUE)
        BY <1>0, <2>1, <2>3, PreviewOnKeeps DEF PanelInv, PanelTypeOK, TimersBehind
  <2> QED BY <1>1, <2>2, <2>3 DEF Focus, Resume
<1>2. CASE Unfocus
      BY <1>0, <1>2 DEF Unfocus, HidePreview, PanelInv, PanelTypeOK, OneShown, TimersBehind
<1>3. CASE OtherEvent
      BY <1>0, <1>3 DEF OtherEvent, PanelInv, PanelTypeOK, OneShown, TimersBehind
<1>4. ASSUME PreviewOn(focused), UNCHANGED <<focused, pushed, refreshes>>,
             abouts' \in Nat
      PROVE  PanelInv'
      BY <1>0, <1>4, PreviewOnKeeps, PreviewFocused DEF PanelInv, PanelTypeOK, TimersBehind
<1>5. CASE OnDetail
  <2>1. CASE "detail" \notin flags
        BY <1>0, <1>5, <2>1 DEF OnDetail, ShowDetail, Show, Refreshing, PanelInv, PanelTypeOK,
           OneShown, TimersBehind, Shown
  <2>2. CASE "detail" \in flags
        BY <1>0, <1>4, <1>5, <2>2 DEF OnDetail
  <2> QED BY <2>1, <2>2
<1>6. CASE OnAbout
  <2>1. CASE "about" \notin flags
        BY <1>0, <1>6, <2>1 DEF OnAbout, Show, PanelInv, PanelTypeOK, OneShown, TimersBehind, Shown
  <2>2. CASE "about" \in flags
        BY <1>0, <1>4, <1>6, <2>2 DEF OnAbout
  <2> QED BY <2>1, <2>2
<1>7. CASE OnLog
  <2>1. CASE "log" \notin flags
        BY <1>0, <1>7, <2>1 DEF OnLog, Show, PanelInv, PanelTypeOK, OneShown, TimersBehind, Shown
  <2>2. CASE "log" \in flags
        BY <1>0, <1>4, <1>7, <2>2 DEF OnLog
  <2> QED BY <2>1, <2>2
<1>8. CASE Deactivate
      BY <1>0, <1>4, <1>8 DEF Deactivate
<1>9. CASE PreviewTimer
      BY <1>0, <1>9 DEF PreviewTimer, TickGoesOn, PanelInv, PanelTypeOK, OneShown, TimersBehind
<1>10. CASE DetailTimer
  <2>1. CASE "detail" \in flags
        BY <1>0, <1>10, <2>1 DEF DetailTimer, ShowDetail, Show, Refreshing, PanelInv, PanelTypeOK,
           OneShown, TimersBehind, Shown
  <2>2. CASE "detail" \notin flags
        BY <1>0, <1>10, <2>2 DEF DetailTimer, PanelInv, PanelTypeOK, OneShown, TimersBehind
  <2> QED BY <2>1, <2>2
<1>11. CASE AboutTimer
  <2>1. CASE "about" \in flags
    <3>1. PreviewOn(focused) /\ UNCHANGED <<focused, pushed, refreshes>>
          BY <1>11, <2>1 DEF AboutTimer, AboutShown
    <3>2. abouts' \in Nat
          BY <1>0, <1>11 DEF AboutTimer
    <3> QED BY <1>4, <3>1, <3>2
  <2>2. CASE "about" \notin flags
        BY <1>0, <1>11, <2>2 DEF AboutTimer, AboutShown, PanelInv, PanelTypeOK, OneShown, TimersBehind
  <2> QED BY <2>1, <2>2
<1>12. CASE UNCHANGED panelVars
      BY <1>0, <1>12 DEF panelVars, PanelInv, PanelTypeOK, OneShown, TimersBehind
<1> QED BY <1>1, <1>2, <1>3, <1>5, <1>6, <1>7, <1>8, <1>9, <1>10, <1>11, <1>12 DEF PanelNext

-----------------------------------------------------------------------------
(***************************************************************************)
(* The composition.                                                        *)
(***************************************************************************)
\* The whole starts as each of its parts does.
LEMMA DeskStarts == DeskInit => ControlInit /\ IdleInit /\ PanelInit
  BY DEF DeskInit

\* A step of the whole is a step of each part, or leaves it alone.
LEMMA DeskMoves ==
  [DeskNext]_deskVars =>
     [ControlNext]_controlVars /\ [IdleNext]_idleVars /\ [PanelNext]_panelVars
<1> SUFFICES ASSUME [DeskNext]_deskVars
             PROVE  [ControlNext]_controlVars /\ [IdleNext]_idleVars /\ [PanelNext]_panelVars
    OBVIOUS
<1>1. ASSUME InWindow(WindowNext) \/ InWindow(LoopStep) \/ InWindow(Expire)
      PROVE  ControlNext /\ UNCHANGED <<idleVars, panelVars>>
      BY <1>1 DEF InWindow, ControlNext, LoopNext
<1>2. ASSUME Alone(CliStep)
      PROVE  ControlNext /\ (IdleNext \/ UNCHANGED idleVars) /\ UNCHANGED panelVars
  <2>1. fault = "none" /\ History /\ UNCHANGED panelVars
        BY <1>2 DEF Alone, CliStep
  <2>2. CASE CliStarts
        BY <2>1, <2>2 DEF CliStarts, ControlNext, LoopNext, LoopStep, IdleNext
  <2>3. CASE CliTimer
        BY <2>1, <2>3 DEF CliTimer, ControlNext, LoopNext, LoopStep
  <2>4. CASE CliExpires
        BY <2>1, <2>4 DEF CliExpires, ControlNext, LoopNext, IdleNext
  <2>5. CASE CliEndsLoop
        BY <2>1, <2>5 DEF CliEndsLoop, ControlNext, LoopNext, LoopStep, IdleNext
  <2> QED BY <1>2, <2>2, <2>3, <2>4, <2>5 DEF Alone, CliStep
<1>3. ASSUME Alone(CliClock)
      PROVE  IdleNext /\ UNCHANGED <<controlVars, panelVars>>
      BY <1>3 DEF Alone, CliClock, IdleNext
<1>4. ASSUME InPanel(PanelNext)
      PROVE  PanelNext /\ UNCHANGED <<controlVars, idleVars>>
      BY <1>4 DEF InPanel
<1>5. ASSUME UNCHANGED deskVars
      PROVE  UNCHANGED <<controlVars, idleVars, panelVars>>
      BY <1>5 DEF deskVars
<1> QED BY <1>1, <1>2, <1>3, <1>4, <1>5 DEF DeskNext

\* The composition implements each of its parts: main_gui.cpp and main.cpp, the
\* idle timeout of server.cpp, the panel of gui.cpp.
THEOREM DeskImplements ==
  DeskSpec => /\ ControlInit /\ [][ControlNext]_controlVars
              /\ IdleInit /\ [][IdleNext]_idleVars
              /\ PanelInit /\ [][PanelNext]_panelVars
  BY DeskStarts, DeskMoves, PTL DEF DeskSpec

\* The window's lower half shows what was asked for and keeps it up to date,
\* whatever timers are still armed (previewOn, onDetail, onAbout, onLog).
THEOREM DeskPanel == DeskSpec => []PanelAgrees
<1>1. PanelInv => PanelAgrees
      BY DEF PanelInv, PanelAgrees
<1> QED BY DeskStarts, DeskMoves, PanelInvInit, PanelInvStep, <1>1, PTL DEF DeskSpec

\* With the panel and the clock beside it, an operator who waits is as safe
\* (async_start, stopWorker, on_timeout).
THEOREM DeskIsSafe == DeskSpec => []SafeUnlessHasty /\ []ButtonTells
<1>1. ControlInv => SafeUnlessHasty
      BY DEF ControlInv
<1> QED BY DeskStarts, DeskMoves, ControlInvInit, ControlInvStep, <1>1, ButtonInvInit, ButtonInvStep,
           ButtonInvImplies, PTL DEF DeskSpec

\* In the program without the window, where the clock and the loop are composed
\* step by step, the idle timeout ends no server in use and is not late.
THEOREM DeskEnds == DeskSpec => []EndsOnlyUnused /\ []EndsInTime
<1>1. IdleInv => EndsOnlyUnused /\ EndsInTime
      BY IdleInvImplies
<1> QED BY DeskStarts, DeskMoves, IdleInvInit, IdleInvStep, <1>1, PTL DEF DeskSpec
=============================================================================
