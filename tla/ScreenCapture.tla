---------------------------- MODULE ScreenCapture ---------------------------
(***************************************************************************)
(* The monitor of src/src/capture/darwin/ScreenCapture.cpp: one mutex, one *)
(* condition variable, the frame buffer and the counter ready_, used by    *)
(*   - the capture callbacks: each session has a serial dispatch queue     *)
(*     whose callback stores a frame (_onBGRAFrame) when the slot is empty;*)
(*   - the consumers of captureBGRA: the worker thread of Stream;          *)
(*   - the main thread, which calls start and stop and takes no lock.      *)
(* A step of the model is a step of one thread between two accesses that   *)
(* another thread can observe.                                             *)
(***************************************************************************)
EXTENDS Integers

CONSTANTS Session,   \* ScreenCaptureHelper objects; bounds how often start creates one
          Consumer,  \* threads that call captureBGRA
          Frame, NoFrame,
          None,      \* no thread, no helper
          Env        \* what the environment may do, see EnvChoices

(***************************************************************************)
(* "fail"     startCapture fails (no permission to record the screen)      *)
(* "late"     a thread that has tested the condition is delayed, before it *)
(*            sleeps, until stop has called notify_all                     *)
(* "restart"  start may be called after stop; Stream::close, the only      *)
(*            caller of stop, is the last thing the program does           *)
(***************************************************************************)
EnvChoices == {"fail", "late", "restart"}

Thread == Session \cup Consumer

ASSUME CaptureAssumption ==
    /\ Session \cap Consumer = {}
    /\ None \notin Thread
    /\ NoFrame \notin Frame
    /\ Env \subseteq EnvChoices

VARIABLES
    running,   \* running_
    ready,     \* ready_
    buf,       \* buf_, width_ and height_
    mtx,       \* the thread that holds mtx_
    pc,        \* per thread, see PcValues
    cur,       \* the frame a callback was called with
    got,       \* the frame captureBGRA returned last
    helper,    \* impl_->helper
    made,      \* the helpers that start has made
    live,      \* the sessions that deliver frames
    main,      \* the main thread: "idle", "started" and "failed" (impl_.start
               \* has returned), "stopping", "notifying"
    stopped    \* has stop been called?

vars == <<running, ready, buf, mtx, pc, cur, got, helper, made, live, main, stopped>>

(***************************************************************************)
(* "idle"    outside       "enter"  wants the mutex, to test the condition *)
(* "gap"     holds the mutex, has found the condition false                *)
(* "asleep"  waits on cv_  "pass"   holds the mutex, condition found true  *)
(* "copy"    holds the mutex, copies the frame                             *)
(* "notify"  has released the mutex, will call notify_all                  *)
(***************************************************************************)
PcValues == {"idle", "enter", "gap", "asleep", "pass", "copy", "notify"}

TypeOK ==
    /\ running \in BOOLEAN /\ stopped \in BOOLEAN
    /\ ready \in Int /\ ready <= 1
    /\ buf \in Frame \cup {NoFrame}
    /\ mtx \in Thread \cup {None}
    /\ pc \in [Thread -> PcValues]
    /\ cur \in [Session -> Frame \cup {NoFrame}]
    /\ got \in [Consumer -> Frame \cup {NoFrame}]
    /\ helper \in Session \cup {None}
    /\ made \subseteq Session /\ live \subseteq made
    /\ main \in {"idle", "started", "failed", "stopping", "notifying"}

Init ==
    /\ running = FALSE /\ stopped = FALSE
    /\ ready = 0 /\ buf = NoFrame /\ mtx = None
    /\ pc = [t \in Thread |-> "idle"]
    /\ cur = [s \in Session |-> NoFrame]
    /\ got = [c \in Consumer |-> NoFrame]
    /\ helper = None /\ made = {} /\ live = {} /\ main = "idle"

-----------------------------------------------------------------------------
\* The condition each side waits for, !running_ apart.
Ready_Any(t) == TRUE  \* slip: wait without the condition
Ready(t) == IF t \in Session THEN ready <= 0 ELSE ready > 0

\* cv_.notify_all, called by a thread that then leaves.
Wake_None(q) == q  \* slip: notify_all forgotten
Wake(q) == [t \in Thread |-> IF q[t] = "asleep" THEN "enter" ELSE q[t]]

\* May a thread take the mutex?
LockFree_Ignored == TRUE  \* slip: wait returns without the lock
LockFree == mtx = None

\* The counter after a frame was stored or taken.
Counted(t) == IF t \in Session THEN 1 ELSE ready - 1

\* captureOutput and _onFrameStart: the frame is dropped unless running_.
OnFrame(s, f) ==
    /\ pc[s] = "idle" /\ s \in live /\ running
    /\ pc' = [pc EXCEPT ![s] = "enter"]
    /\ cur' = [cur EXCEPT ![s] = f]
    /\ UNCHANGED <<running, ready, buf, mtx, got, helper, made, live, main, stopped>>

\* captureBGRA, which returns false at once unless running_.
Call(c) ==
    /\ pc[c] = "idle" /\ running
    /\ pc' = [pc EXCEPT ![c] = "enter"]
    /\ UNCHANGED <<running, ready, buf, mtx, cur, got, helper, made, live, main, stopped>>

\* The lock is taken, for the first time or by wait when it wakes up, and the
\* predicate evaluated.
Test(t) ==
    /\ pc[t] = "enter" /\ LockFree
    /\ mtx' = t
    /\ pc' = [pc EXCEPT ![t] = IF Ready(t) \/ ~running THEN "pass" ELSE "gap"]
    /\ UNCHANGED <<running, ready, buf, cur, got, helper, made, live, main, stopped>>

\* wait gives up the lock and sleeps, atomically.
Sleep(t) ==
    /\ pc[t] = "gap"
    /\ mtx' = None
    /\ pc' = [pc EXCEPT ![t] = "asleep"]
    /\ UNCHANGED <<running, ready, buf, cur, got, helper, made, live, main, stopped>>

\* A condition variable may wake a thread for no reason.
Spurious(t) ==
    /\ pc[t] = "asleep"
    /\ pc' = [pc EXCEPT ![t] = "enter"]
    /\ UNCHANGED <<running, ready, buf, mtx, cur, got, helper, made, live, main, stopped>>

\* After the wait running_ is read again; a thread that gives up notifies nobody.
Recheck(t) ==
    /\ pc[t] = "pass"
    /\ \/ /\ ~running
          /\ mtx' = None
          /\ pc' = [pc EXCEPT ![t] = "idle"]
          /\ UNCHANGED ready
       \/ /\ running
          /\ ready' = Counted(t)
          /\ pc' = [pc EXCEPT ![t] = "copy"]
          /\ UNCHANGED mtx
    /\ UNCHANGED <<running, buf, cur, got, helper, made, live, main, stopped>>

\* The rows have been copied, and the lock is released.
EndCopy(t) ==
    /\ pc[t] = "copy"
    /\ mtx' = None
    /\ pc' = [pc EXCEPT ![t] = "notify"]
    /\ \/ t \in Session /\ buf' = cur[t] /\ UNCHANGED got
       \/ t \in Consumer /\ got' = [got EXCEPT ![t] = buf] /\ UNCHANGED buf
    /\ UNCHANGED <<running, ready, cur, helper, made, live, main, stopped>>

Notify(t) ==
    /\ pc[t] = "notify"
    /\ pc' = Wake([pc EXCEPT ![t] = "idle"])
    /\ UNCHANGED <<running, ready, buf, mtx, cur, got, helper, made, live, main, stopped>>

-----------------------------------------------------------------------------
\* start when not running: impl_.start makes a helper and waits until its
\* session runs or has failed; the helper is kept in both cases ...
BeginStart(s) ==
    /\ main = "idle" /\ ~running
    /\ stopped => "restart" \in Env
    /\ helper = None /\ s \notin made
    /\ helper' = s /\ made' = made \cup {s}
    /\ \/ live' = live \cup {s} /\ main' = "started"
       \/ "fail" \in Env /\ main' = "failed" /\ UNCHANGED live
    /\ UNCHANGED <<running, ready, buf, mtx, pc, cur, got, stopped>>

\* ... then running_ is set to its result.
EndStart ==
    /\ main \in {"started", "failed"}
    /\ running' = (main = "started")
    /\ main' = "idle"
    /\ UNCHANGED <<ready, buf, mtx, pc, cur, got, helper, made, live, stopped>>

\* start after a failed start: a helper exists, which counts as started.
StartAgain ==
    /\ main = "idle" /\ ~running
    /\ stopped => "restart" \in Env
    /\ helper # None
    /\ running' = TRUE
    /\ UNCHANGED <<ready, buf, mtx, pc, cur, got, helper, made, live, main, stopped>>

\* stop: running_ = false; impl_.stop(); cv_.notify_all(), without the mutex.
BeginStop ==
    /\ main = "idle"
    /\ stopped => "restart" \in Env
    /\ running' = FALSE /\ stopped' = TRUE
    /\ main' = "stopping"
    /\ UNCHANGED <<ready, buf, mtx, pc, cur, got, helper, made, live>>

StopSession ==
    /\ main = "stopping"
    /\ live' = live \ {helper}
    /\ helper' = None
    /\ main' = "notifying"
    /\ UNCHANGED <<running, ready, buf, mtx, pc, cur, got, made, stopped>>

StopNotify ==
    /\ main = "notifying"
    /\ "late" \in Env \/ \A t \in Thread : pc[t] # "gap"
    /\ pc' = Wake(pc)
    /\ main' = "idle"
    /\ UNCHANGED <<running, ready, buf, mtx, cur, got, helper, made, live, stopped>>

ThreadStep(t) == Test(t) \/ Sleep(t) \/ Recheck(t) \/ EndCopy(t) \/ Notify(t)

Start == EndStart \/ StartAgain \/ \E s \in Session : BeginStart(s)
Stop  == BeginStop \/ StopSession \/ StopNotify

Next ==
    \/ \E s \in Session, f \in Frame : OnFrame(s, f)
    \/ \E c \in Consumer : Call(c)
    \/ \E t \in Thread : ThreadStep(t) \/ Spurious(t)
    \/ Start \/ Stop

\* Threads run, a mutex that is free again and again is obtained in the end,
\* sessions deliver frames, and a call of start or stop goes on; nothing obliges
\* a consumer to call or the main thread to start or stop.
Fairness ==
    /\ \A t \in Thread : WF_vars(ThreadStep(t)) /\ SF_vars(Test(t))
    /\ \A s \in Session : WF_vars(\E f \in Frame : OnFrame(s, f))
    /\ WF_vars(EndStart) /\ WF_vars(StopSession) /\ WF_vars(StopNotify)

Spec == Init /\ [][Next]_vars /\ Fairness

-----------------------------------------------------------------------------
\* One thread at a time touches the buffer: a frame is never read while the
\* next one is copied into it, however threads wake up.
Exclusive == \A t, u \in Thread : pc[t] = "copy" /\ pc[u] = "copy" => t = u

\* No wakeup is lost between the two sides: a thread sleeps although what it
\* waits for is there only as long as somebody is about to notify it.
NoLostWakeup ==
    \A t \in Thread : pc[t] = "asleep" /\ Ready(t) =>
        \E u \in Thread : pc[u] \in {"copy", "notify"}

\* The monitor implements the slot: the frame is in the slot from the end of
\* the copy into buf_ to the end of the copy out of it.
slot == IF \/ \E s \in Session : pc[s] = "copy"
           \/ ready <= 0 /\ \A c \in Consumer : pc[c] # "copy"
        THEN NoFrame ELSE buf

H == INSTANCE FrameHandoff WITH slot <- slot, got <- got
Handoff == H!Spec

\* A call of captureBGRA returns: frames keep coming, or stop wakes it up.
CaptureReturns == \A c \in Consumer : pc[c] # "idle" ~> pc[c] = "idle"

\* Once stop was called every thread leaves the monitor, for good: Stream::close
\* joins the worker after it.
StopFrees == stopped ~> [](\A t \in Thread : pc[t] = "idle")

\* running_ means that a session delivers frames, and "already started" that the
\* helper which exists has a session.
StartedDelivers == running => helper \in live
=============================================================================
