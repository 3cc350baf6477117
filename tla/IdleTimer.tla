------------------------------ MODULE IdleTimer -----------------------------
(***************************************************************************)
(* The idle timeout of src/src/server.cpp: the server ends when nothing was*)
(* sent for `timeout' seconds.                                             *)
(*                                                                         *)
(* The clock is idl_time.  It is set by the write timer, which runs every  *)
(* millisecond while write_queue is not empty, and only when that timer    *)
(* finds the queue empty.  The other timer looks at the clock once in a    *)
(* minute or, if that is less, in the time asked for, and a second.        *)
(* timeout is a uint32_t, and so is its product with 1000.                 *)
(*                                                                         *)
(* Frames do not pass write_queue, so a server that only streams is idle.  *)
(* What keeps it up are the PINGs of its viewers (player.js), as their     *)
(* PONGs are answers like any other.  One viewer is modelled; it stands for*)
(* the one that pings last.                                                *)
(*                                                                         *)
(* libuv is external: timers that are due run before time goes on.         *)
(***************************************************************************)
EXTENDS Naturals

CONSTANTS Timeouts,  \* the timeouts asked for, in seconds; 0 for none
          Second,    \* milliseconds in a second: 1000
          Minute,    \* and in a minute: 60 * 1000
          Word,      \* 2^32
          Ping,      \* at most so many milliseconds are between two PINGs: 3000
          MaxQueued  \* a bound on write_queue when an answer is added to it

ASSUME IdleAssumption ==
    /\ Timeouts \subseteq Nat
    /\ Second \in Nat \ {0} /\ Minute \in Nat /\ MaxQueued \in Nat
    /\ Word \in Nat /\ Word > Minute + Second
    /\ Ping \in Nat

VARIABLES
    timeout,  \* HttpServer::timeout
    due,      \* milliseconds until timeout_timer fires; Off if it is stopped
    age,      \* uv_now - idl_time
    queued,   \* the length of write_queue
    writing,  \* is write_timer active? "off", "due", "ran" in this millisecond
    viewer,   \* "none"; "new"; "known": has sent a PING
    ping,     \* the next PING comes in so many milliseconds
    unused,   \* milliseconds since an answer was sent, and since a frame was
    unseen    \* sent to a viewer with a PING, both counted up to the timeout

serverTimers == <<timeout, due, age>>
answers == <<queued, writing>>
viewers == <<viewer, ping>>
uses == <<unused, unseen>>
idleVars == <<serverTimers, answers, viewers, uses>>

Off == Word

\* timeout * 1000, as a uint32_t, and the interval of the timer.
Millis(t) == (t * Second) % Word

Lesser(a, b) == IF a < b THEN a ELSE b

Period == (Lesser(Minute, Millis(timeout)) + Second) % Word

\* Is the product too large?
Wraps == timeout * Second >= Word

IdleTypeOK ==
    /\ timeout \in Timeouts
    /\ due \in 0..Word
    /\ age \in Nat /\ unused \in Nat /\ unseen \in Nat
    /\ queued \in Nat
    /\ writing \in {"off", "due", "ran"}
    /\ viewer \in {"none", "new", "known"} /\ ping \in 0..Ping

IdleInit ==
    /\ timeout \in Timeouts
    /\ due = Off /\ age = 0 /\ queued = 0 /\ writing = "off"
    /\ viewer = "none" /\ ping = Ping /\ unused = 0 /\ unseen = 0

-----------------------------------------------------------------------------
\* start: the time is noted, and the timer fires at once for the first time.
FirstDue == IF timeout # 0 THEN 0 ELSE Off

IdleStart ==
    /\ due' = FirstDue
    /\ age' = 0 /\ unused' = 0 /\ unseen' = 0
    /\ UNCHANGED <<timeout, answers, viewers>>

\* stop, which closes all connections.
IdleStop ==
    /\ due' = Off /\ queued' = 0 /\ writing' = "off"
    /\ viewer' = "none" /\ ping' = Ping
    /\ UNCHANGED <<timeout, age, uses>>

\* enqueueWriteRequest, dequeueWriteQueue: the write timer fires at once.
Enqueue ==
    /\ queued' = queued + 1
    /\ writing' = IF writing = "off" THEN "due" ELSE writing

EnqueueAnswer ==
    /\ queued < MaxQueued
    /\ Enqueue
    /\ UNCHANGED <<serverTimers, viewers, uses>>

\* on_send with an empty queue: idle ...
Rested_Not == age  \* slip: idle not called
Rested == 0

SendNothing ==
    /\ writing = "due" /\ queued = 0
    /\ writing' = "off" /\ age' = Rested
    /\ UNCHANGED <<timeout, due, queued, viewers, uses>>

\* ... and with an answer, whose connection may have been closed.
HasAnswer == queued > 0

SendAnswer(closed) ==
    /\ writing = "due" /\ HasAnswer
    /\ writing' = "ran" /\ queued' = queued - 1
    /\ unused' = IF closed THEN unused ELSE 0
    /\ UNCHANGED <<serverTimers, viewers, unseen>>

\* A viewer comes, by a handshake that is written at once, and goes.
Join ==
    /\ viewer = "none"
    /\ viewer' = "new" /\ ping' = Ping
    /\ UNCHANGED <<serverTimers, answers, uses>>

Leave ==
    /\ viewer # "none"
    /\ viewer' = "none" /\ ping' = Ping
    /\ UNCHANGED <<serverTimers, answers, uses>>

\* Its PING is answered.  (One that is due is not held back by the bound.)
AnswerPing ==
    /\ viewer # "none" /\ (queued < MaxQueued \/ ping = 0)
    /\ Enqueue
    /\ viewer' = "known" /\ ping' = Ping
    /\ UNCHANGED <<serverTimers, uses>>

\* WsResponse::send: a frame is written at once, past the queue, and neither the
\* clock nor the write timer hears of it.
SendFrame ==
    /\ viewer # "none"
    /\ unseen' = IF viewer = "known" THEN 0 ELSE unseen
    /\ UNCHANGED <<serverTimers, answers, viewers, unused>>

\* The timer fires: not timeout ...
IsOver_Late == age > Millis(timeout) + Minute  \* slip: compared with the wrong time
IsOver == age >= Millis(timeout)

NotTimeout ==
    /\ due = 0 /\ ~IsOver
    /\ due' = Period
    /\ UNCHANGED <<timeout, age, answers, viewers, uses>>

\* ... or timed out, which ends the loop, or asks for a stop; asking for it
\* again changes nothing.
TimedOut ==
    /\ due = 0 /\ IsOver
    /\ due' = Off
    /\ UNCHANGED <<timeout, age, answers, viewers, uses>>

\* A millisecond passes, when no timer is due.
Later(n) == Lesser(n + 1, Millis(timeout))

Millisecond ==
    /\ due \notin {0, Off} /\ writing # "due" /\ (viewer = "none" \/ ping # 0)
    /\ due' = due - 1
    /\ age' = age + 1 /\ unused' = Later(unused) /\ unseen' = Later(unseen)
    /\ writing' = IF writing = "ran" THEN "due" ELSE writing
    /\ ping' = IF viewer = "none" THEN ping ELSE ping - 1
    /\ UNCHANGED <<timeout, queued, viewer>>

IdleStep == \/ EnqueueAnswer \/ SendNothing \/ (\E closed \in BOOLEAN : SendAnswer(closed))
            \/ Join \/ Leave \/ AnswerPing \/ SendFrame
            \/ NotTimeout \/ Millisecond

IdleNext == IdleStart \/ IdleStop \/ IdleStep \/ TimedOut

IdleSpec == IdleInit /\ [][IdleNext]_idleVars

-----------------------------------------------------------------------------
(***************************************************************************)
(* A server that is about to end, with no answer queued or sent within the *)
(* last tick of the write timer, has sent none for the whole time asked    *)
(* for, and no frame either in that time less the interval of the PINGs, to*)
(* viewers that have sent one.  It is less than it seems:                  *)
(*   - frames do not keep a server up, only the answers to PINGs do, so one*)
(*     whose timeout is not longer than that interval ends while it streams*)
(*   - while the write timer runs the clock goes on: a server with an      *)
(*     answer in its queue, or just sent, may end, also one whose answers  *)
(*     follow each other so fast that the queue is never found empty       *)
(*   - a timeout of 2^32 milliseconds or more is another one.              *)
(***************************************************************************)
EndsOnlyUnused ==
    due = 0 /\ IsOver /\ writing = "off" /\ ~Wraps =>
        /\ unused >= timeout * Second
        /\ unseen + Ping >= timeout * Second

(***************************************************************************)
(* A server that rests does end, a minute and a second late at most.       *)
(***************************************************************************)
EndsInTime == due # Off => age <= Millis(timeout) + Period
=============================================================================
