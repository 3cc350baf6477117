------------------------ MODULE ScreenCapture_proofs ------------------------
(***************************************************************************)
(* Proofs about ScreenCapture, for any number of sessions and consumers.   *)
(* The mutex argument (Locked) and the wakeup argument (Awake) hold        *)
(* whatever Env is; that the monitor implements FrameHandoff needs that    *)
(* start is not called after stop (Once).                                  *)
(***************************************************************************)
EXTENDS ScreenCapture, TLAPS

\* The mutex is held by the thread, if any, that is between Test and Sleep, or
\* between Test and the end of its copy.
Locked == \A t \in Thread : pc[t] \in {"gap", "pass", "copy"} <=> mtx = t

\* A thread about to sleep has nothing to wait for yet: ready_ changes only
\* under the mutex, which it holds.
Awake == /\ \A t \in Thread : pc[t] = "gap" => ~Ready(t)
         /\ NoLostWakeup

Safe == TypeOK /\ Locked /\ Awake

\* Both kinds of thread.
LEMMA Threads == Session \subseteq Thread /\ Consumer \subseteq Thread
  BY DEF Thread

\* Init establishes, and every step preserves, the types.
LEMMA TypeInit == Init => TypeOK
<1> SUFFICES ASSUME Init PROVE TypeOK
    OBVIOUS
<1>1. running \in BOOLEAN /\ stopped \in BOOLEAN
      BY DEF Init
<1>6. ready \in Int /\ ready <= 1
      BY DEF Init
<1>2. pc \in [Thread -> PcValues]
      BY DEF Init, PcValues
<1>3. cur \in [Session -> Frame \cup {NoFrame}] /\ got \in [Consumer -> Frame \cup {NoFrame}]
      BY DEF Init
<1>4. buf \in Frame \cup {NoFrame} /\ mtx \in Thread \cup {None}
      BY DEF Init
<1>5. /\ helper \in Session \cup {None} /\ made \subseteq Session /\ live \subseteq made
      /\ main \in {"idle", "started", "failed", "stopping", "notifying"}
      BY DEF Init
<1> QED BY <1>1, <1>2, <1>3, <1>4, <1>5, <1>6 DEF TypeOK

\* Every step keeps the types.
LEMMA TypeStep == TypeOK /\ [Next]_vars => TypeOK'
<1> SUFFICES ASSUME TypeOK, [Next]_vars PROVE TypeOK'
    OBVIOUS
<1> USE Threads DEF TypeOK, PcValues
<1>1. ASSUME NEW s \in Session, NEW f \in Frame, OnFrame(s, f) PROVE TypeOK'
      BY <1>1 DEF OnFrame
<1>2. ASSUME NEW c \in Consumer, Call(c) PROVE TypeOK'
      BY <1>2 DEF Call
<1>3. ASSUME NEW t \in Thread, Test(t) PROVE TypeOK'
      BY <1>3 DEF Test
<1>4. ASSUME NEW t \in Thread, Sleep(t) PROVE TypeOK'
      BY <1>4 DEF Sleep
<1>5. ASSUME NEW t \in Thread, Spurious(t) PROVE TypeOK'
      BY <1>5 DEF Spurious
<1>6. ASSUME NEW t \in Thread, Recheck(t) PROVE TypeOK'
      BY <1>6 DEF Recheck, Counted
<1>7. ASSUME NEW t \in Thread, EndCopy(t) PROVE TypeOK'
      BY <1>7 DEF EndCopy
<1>8. ASSUME NEW t \in Thread, Notify(t) PROVE TypeOK'
      BY <1>8 DEF Notify, Wake
<1>9. CASE Start
  <2>1. ASSUME NEW s \in Session, BeginStart(s) PROVE TypeOK'
        BY <2>1 DEF BeginStart
  <2>2. CASE EndStart
        BY <2>2 DEF EndStart
  <2>3. CASE StartAgain
        BY <2>3 DEF StartAgain
  <2> QED BY <1>9, <2>1, <2>2, <2>3 DEF Start
<1>10. CASE Stop
  <2>1. CASE BeginStop
        BY <2>1 DEF BeginStop
  <2>2. CASE StopSession
        BY <2>2 DEF StopSession
  <2>3. CASE StopNotify
        BY <2>3 DEF StopNotify, Wake
  <2> QED BY <1>10, <2>1, <2>2, <2>3 DEF Stop
<1>11. CASE UNCHANGED vars
      BY <1>11 DEF vars
<1> QED BY <1>1, <1>2, <1>3, <1>4, <1>5, <1>6, <1>7, <1>8, <1>9, <1>10, <1>11
        DEF Next, ThreadStep

\* A step of start or stop touches neither the mutex nor ready_, and moves
\* threads at most from sleep to the door.
LEMMA MainStep ==
  ASSUME TypeOK, Start \/ Stop
  PROVE  /\ UNCHANGED <<mtx, ready, buf, got, cur>>
         /\ \A t \in Thread : pc'[t] = pc[t] \/ (pc[t] = "asleep" /\ pc'[t] = "enter")
<1>1. ASSUME NEW s \in Session, BeginStart(s) PROVE UNCHANGED <<mtx, ready, buf, got, cur, pc>>
      BY <1>1 DEF BeginStart
<1>2. CASE EndStart \/ StartAgain
      BY <1>2 DEF EndStart, StartAgain
<1>3. CASE BeginStop \/ StopSession
      BY <1>3 DEF BeginStop, StopSession
<1>4. CASE StopNotify
      BY <1>4 DEF StopNotify, Wake, TypeOK
<1> QED BY <1>1, <1>2, <1>3, <1>4 DEF Start, Stop

\* At first no thread holds the mutex or sleeps.
LEMMA SafeInit == Init => Safe
<1> SUFFICES ASSUME Init PROVE Safe
    OBVIOUS
<1>1. \A t \in Thread : pc[t] = "idle"
      BY DEF Init
<1>2. mtx = None
      BY DEF Init
<1> QED BY TypeInit, CaptureAssumption, <1>1, <1>2 DEF Safe, Locked, Awake, NoLostWakeup

\* While ready_ stays, so does what each side waits for.
LEMMA SameReady == ASSUME UNCHANGED ready PROVE \A t \in Thread : Ready(t)' <=> Ready(t)
  BY DEF Ready

\* Each step preserves exclusion and wakeups.
LEMMA SafeStep == Safe /\ [Next]_vars => Safe'
<1> SUFFICES ASSUME Safe, [Next]_vars PROVE Locked' /\ Awake'
    BY TypeStep DEF Safe
<1> pc \in [Thread -> PcValues] /\ None \notin Thread
    BY CaptureAssumption DEF Safe, TypeOK
<1> USE Threads DEF Safe, Locked, Awake, NoLostWakeup
<1>1. ASSUME NEW s \in Session, NEW f \in Frame, OnFrame(s, f) PROVE Locked' /\ Awake'
      BY <1>1, SameReady DEF OnFrame
<1>2. ASSUME NEW c \in Consumer, Call(c) PROVE Locked' /\ Awake'
      BY <1>2, SameReady DEF Call
<1>3. ASSUME NEW t \in Thread, Test(t) PROVE Locked' /\ Awake'
  <2>1. pc[t] = "enter" /\ mtx = None /\ mtx' = t /\ UNCHANGED ready
        BY <1>3 DEF Test, LockFree
  <2>2. CASE pc' = [pc EXCEPT ![t] = "pass"]
        BY <2>1, <2>2, SameReady
  <2>3. CASE pc' = [pc EXCEPT ![t] = "gap"] /\ ~Ready(t)
        BY <2>1, <2>3, SameReady
  <2> QED BY <1>3, <2>2, <2>3 DEF Test
<1>4. ASSUME NEW t \in Thread, Sleep(t) PROVE Locked' /\ Awake'
      BY <1>4, SameReady DEF Sleep
<1>5. ASSUME NEW t \in Thread, Spurious(t) PROVE Locked' /\ Awake'
      BY <1>5, SameReady DEF Spurious
<1>6. ASSUME NEW t \in Thread, Recheck(t) PROVE Locked' /\ Awake'
  <2>1. CASE UNCHANGED ready /\ mtx' = None /\ pc' = [pc EXCEPT ![t] = "idle"]
        BY <1>6, <2>1, SameReady DEF Recheck
  <2>2. CASE UNCHANGED mtx /\ pc' = [pc EXCEPT ![t] = "copy"]
        BY <1>6, <2>2 DEF Recheck
  <2> QED BY <1>6, <2>1, <2>2 DEF Recheck
<1>7. ASSUME NEW t \in Thread, EndCopy(t) PROVE Locked' /\ Awake'
      BY <1>7, SameReady DEF EndCopy
<1>8. ASSUME NEW t \in Thread, Notify(t) PROVE Locked' /\ Awake'
      BY <1>8, SameReady DEF Notify, Wake
<1>9. CASE Start \/ Stop
      BY <1>9, MainStep, SameReady
<1>10. CASE UNCHANGED vars
      BY <1>10, SameReady DEF vars
<1> QED BY <1>1, <1>2, <1>3, <1>4, <1>5, <1>6, <1>7, <1>8, <1>9, <1>10
        DEF Next, ThreadStep

\* The invariant of the monitor, in all reachable states.
LEMMA SafeAlways == Spec => []Safe
  BY SafeInit, SafeStep, PTL DEF Spec

\* Every reachable state is well typed, whatever Env is.
THEOREM TypeCorrect == Spec => []TypeOK
<1>1. Safe => TypeOK
      BY DEF Safe
<1> QED BY <1>1, SafeAlways, PTL

\* Mutual exclusion on the frame buffer, for any number of threads: the two
\* copies of _onBGRAFrame and captureBGRA never overlap.
THEOREM MutualExclusion == Spec => []Exclusive
<1>1. Safe => Exclusive
      BY DEF Safe, Locked, Exclusive
<1> QED BY <1>1, SafeAlways, PTL

\* Nobody sleeps while what he waits for is there and nobody will notify him.
THEOREM WakeupsAreKept == Spec => []NoLostWakeup
<1>1. Safe => NoLostWakeup
      BY DEF Safe, Awake
<1> QED BY <1>1, SafeAlways, PTL

-----------------------------------------------------------------------------
\* Is there a frame that nobody has begun to take?
Full == ready > 0

\* Without a restart running_ never becomes true again, so that a condition that
\* was found true under the mutex still is when running_ is read again.
Once ==
    /\ stopped => ~running
    /\ main \in {"started", "failed"} => ~running /\ ~stopped
    /\ ~running /\ ~stopped => \A t \in Thread : pc[t] = "idle"
    /\ \A t \in Thread : pc[t] = "pass" /\ running => Ready(t)

\* What the slot is made of: a frame being stored is counted already, one being
\* taken is not counted any more.
Stored ==
    /\ \A s \in Session : pc[s] # "idle" => cur[s] \in Frame
    /\ \A s \in Session : pc[s] = "copy" => Full
    /\ \A c \in Consumer : pc[c] = "copy" => ~Full /\ buf \in Frame
    /\ Full => buf \in Frame \/ \E s \in Session : pc[s] = "copy"

Handed == Safe /\ Once /\ Stored

\* Who waits for what: capture callbacks for an empty slot, consumers for a full one.
LEMMA ReadyFull ==
  ASSUME ready \in Int
  PROVE  /\ \A s \in Session : Ready(s) <=> ~Full
         /\ \A c \in Consumer : Ready(c) <=> Full
<1>1. ASSUME NEW s \in Session PROVE Ready(s) <=> ~Full
      BY DEF Ready, Full
<1>2. ASSUME NEW c \in Consumer PROVE Ready(c) <=> Full
  <2>1. c \notin Session
        BY CaptureAssumption
  <2> QED BY <2>1 DEF Ready, Full
<1> QED BY <1>1, <1>2

\* A frame stored fills the slot, a frame taken empties it.
LEMMA CountedFull ==
  ASSUME TypeOK, NEW t \in Thread, ready' = Counted(t)
  PROVE  Full' <=> t \in Session
  BY DEF TypeOK, Counted, Full

\* The slot is what ready_ says.
LEMMA SameFull == ASSUME UNCHANGED ready PROVE Full' <=> Full
  BY DEF Full

\* At first the slot is empty and nobody has passed.
LEMMA HandedInit == Init => Handed
<1> SUFFICES ASSUME Init PROVE Handed
    OBVIOUS
<1>1. \A t \in Thread : pc[t] = "idle"
      BY DEF Init
<1>2. ~stopped /\ main = "idle"
      BY DEF Init
<1>3. ~Full
      BY DEF Init, Full
<1>4. Once
      BY <1>1, <1>2 DEF Once
<1>5. Stored
      BY <1>1, <1>3, Threads DEF Stored
<1> QED BY SafeInit, <1>4, <1>5 DEF Handed

\* Start and stop: this is where "restart" would break Once.
LEMMA OnceStart ==
  ASSUME Handed, Start, "restart" \notin Env
  PROVE  Once'
<1> USE DEF Handed, Once
<1>1. ASSUME NEW s \in Session, BeginStart(s) PROVE Once'
      BY <1>1, SameReady DEF BeginStart
<1>2. CASE EndStart
  <2>1. \A t \in Thread : pc'[t] = "idle"
        BY <1>2 DEF EndStart
  <2> QED BY <1>2, <2>1 DEF EndStart
<1>3. CASE StartAgain
  <2>1. \A t \in Thread : pc'[t] = "idle"
        BY <1>3 DEF StartAgain
  <2> QED BY <1>3, <2>1 DEF StartAgain
<1> QED BY <1>1, <1>2, <1>3 DEF Start

\* stop makes no condition false that a thread has found true.
LEMMA OnceStop ==
  ASSUME Handed, Stop
  PROVE  Once'
<1> USE DEF Handed, Once
<1>1. CASE BeginStop
      BY <1>1, SameReady DEF BeginStop
<1>2. CASE StopSession
      BY <1>2, SameReady DEF StopSession
<1>3. CASE StopNotify
  <2>1. /\ UNCHANGED <<running, stopped, ready>> /\ main' = "idle"
        /\ \A t \in Thread : pc'[t] = pc[t] \/ (pc[t] = "asleep" /\ pc'[t] = "enter")
        BY <1>3, MainStep DEF StopNotify, Stop, Safe
  <2> QED BY <2>1, SameReady
<1> QED BY <1>1, <1>2, <1>3 DEF Stop

\* A thread that has passed finds its condition true.
LEMMA OnceStep ==
  ASSUME "restart" \notin Env, Handed, [Next]_vars
  PROVE  Once'
<1> USE Threads DEF Handed, Once
<1> pc \in [Thread -> PcValues] /\ None \notin Thread
    BY CaptureAssumption DEF Safe, TypeOK
<1>1. ASSUME NEW s \in Session, NEW f \in Frame, OnFrame(s, f) PROVE Once'
      BY <1>1, SameReady DEF OnFrame
<1>2. ASSUME NEW c \in Consumer, Call(c) PROVE Once'
      BY <1>2, SameReady DEF Call
<1>3. ASSUME NEW t \in Thread, Test(t) PROVE Once'
  <2>1. pc[t] = "enter" /\ UNCHANGED <<running, stopped, main, ready>>
        BY <1>3 DEF Test
  <2>2. CASE pc' = [pc EXCEPT ![t] = "pass"] /\ (Ready(t) \/ ~running)
        BY <2>1, <2>2, SameReady
  <2>3. CASE pc' = [pc EXCEPT ![t] = "gap"]
        BY <2>1, <2>3, SameReady
  <2> QED BY <1>3, <2>2, <2>3 DEF Test
<1>4. ASSUME NEW t \in Thread, Sleep(t) PROVE Once'
      BY <1>4, SameReady DEF Sleep
<1>5. ASSUME NEW t \in Thread, Spurious(t) PROVE Once'
      BY <1>5, SameReady DEF Spurious
<1>6. ASSUME NEW t \in Thread, Recheck(t) PROVE Once'
  <2>1. CASE UNCHANGED <<running, stopped, main, ready>> /\ pc' = [pc EXCEPT ![t] = "idle"]
        BY <2>1, SameReady
  <2>2. CASE UNCHANGED <<running, stopped, main>> /\ running /\ pc' = [pc EXCEPT ![t] = "copy"]
    <3>1. \A u \in Thread : pc'[u] # "pass"
          BY <1>6, <2>2 DEF Recheck, Safe, Locked
    <3> QED BY <2>2, <3>1
  <2> QED BY <1>6, <2>1, <2>2 DEF Recheck
<1>7. ASSUME NEW t \in Thread, EndCopy(t) PROVE Once'
      BY <1>7, SameReady DEF EndCopy
<1>8. ASSUME NEW t \in Thread, Notify(t) PROVE Once'
      BY <1>8, SameReady DEF Notify, Wake
<1>9. CASE Start
      BY <1>9, OnceStart
<1>10. CASE Stop
      BY <1>10, OnceStop
<1>11. CASE UNCHANGED vars
      BY <1>11, SameReady DEF vars
<1> QED BY <1>1, <1>2, <1>3, <1>4, <1>5, <1>6, <1>7, <1>8, <1>9, <1>10, <1>11
        DEF Next, ThreadStep

\* A frame counted in ready_ is in buf_.
LEMMA StoredStep ==
  ASSUME Handed, [Next]_vars
  PROVE  Stored'
<1> USE Threads DEF Handed, Stored
<1> /\ pc \in [Thread -> PcValues] /\ cur \in [Session -> Frame \cup {NoFrame}]
    /\ Session \cap Consumer = {} /\ Thread = Session \cup Consumer
    BY CaptureAssumption DEF Safe, TypeOK, Thread
<1>1. ASSUME NEW s \in Session, NEW f \in Frame, OnFrame(s, f) PROVE Stored'
      BY <1>1, SameFull DEF OnFrame
<1>2. ASSUME NEW c \in Consumer, Call(c) PROVE Stored'
      BY <1>2, SameFull DEF Call
<1>3. ASSUME NEW t \in Thread, Test(t) PROVE Stored'
      BY <1>3, SameFull DEF Test
<1>4. ASSUME NEW t \in Thread, Sleep(t) PROVE Stored'
      BY <1>4, SameFull DEF Sleep
<1>5. ASSUME NEW t \in Thread, Spurious(t) PROVE Stored'
      BY <1>5, SameFull DEF Spurious
<1>6. ASSUME NEW t \in Thread, Recheck(t) PROVE Stored'
  <2>1. CASE UNCHANGED <<ready, buf, cur>> /\ pc' = [pc EXCEPT ![t] = "idle"]
        BY <1>6, <2>1, SameFull DEF Recheck
  <2>2. CASE UNCHANGED <<buf, cur>> /\ running /\ ready' = Counted(t) /\ pc' = [pc EXCEPT ![t] = "copy"]
    <3>1. pc[t] = "pass" /\ \A u \in Thread : u # t => pc[u] # "copy"
          BY <1>6 DEF Recheck, Safe, Locked
    <3>2. Full' <=> t \in Session
          BY <2>2, CountedFull DEF Safe
    <3>3. t \in Consumer => Full
          BY <2>2, <3>1, ReadyFull DEF Once, Safe, TypeOK
    <3> QED BY <2>2, <3>1, <3>2, <3>3
  <2> QED BY <1>6, <2>1, <2>2 DEF Recheck
<1>7. ASSUME NEW t \in Thread, EndCopy(t) PROVE Stored'
  <2>1. \A u \in Thread : u # t => pc[u] # "copy"
        BY <1>7 DEF EndCopy, Safe, Locked
  <2> QED BY <1>7, <2>1, SameFull DEF EndCopy
<1>8. ASSUME NEW t \in Thread, Notify(t) PROVE Stored'
      BY <1>8, SameFull DEF Notify, Wake
<1>9. CASE Start \/ Stop
      BY <1>9, MainStep, SameFull DEF Safe
<1>10. CASE UNCHANGED vars
      BY <1>10, SameFull DEF vars
<1> QED BY <1>1, <1>2, <1>3, <1>4, <1>5, <1>6, <1>7, <1>8, <1>9, <1>10
        DEF Next, ThreadStep

-----------------------------------------------------------------------------
\* The slot changes only when a copy begins or ends or ready_ changes.
LEMMA SameSlot ==
  ASSUME UNCHANGED <<ready, buf>>,
         \A t \in Thread : pc'[t] = "copy" <=> pc[t] = "copy"
  PROVE  slot' = slot
  BY Threads DEF slot

\* The slot in terms of Full.
LEMMA SlotIs ==
  ASSUME ready \in Int
  PROVE  slot = IF \/ \E s \in Session : pc[s] = "copy"
                   \/ ~Full /\ \A c \in Consumer : pc[c] # "copy"
                THEN NoFrame ELSE buf
<1>1. ready <= 0 <=> ~Full
      BY DEF Full
<1> QED BY <1>1 DEF slot

\* The initial states are those of an empty slot.
LEMMA HandoffInit == Init => H!Init
<1> SUFFICES ASSUME Init PROVE H!Init
    OBVIOUS
<1>1. ready = 0 /\ \A t \in Thread : pc[t] = "idle"
      BY DEF Init
<1>2. slot = NoFrame
      BY <1>1, Threads DEF slot
<1> QED BY <1>2 DEF Init, H!Init

\* Under the mutex a copy is the only one.
LEMMA OnlyCopy ==
  ASSUME Handed, NEW t \in Thread, pc[t] \in {"pass", "copy"}
  PROVE  \A u \in Thread : u # t => pc[u] # "copy"
  BY DEF Handed, Safe, Locked

\* To begin a copy is a stutter: the frame counts as stored at the end of the
\* copy into buf_, and as taken at the end of the copy out of it.
LEMMA RecheckStutters ==
  ASSUME Handed, Handed', NEW t \in Thread, Recheck(t)
  PROVE  UNCHANGED <<slot, got>>
<1> USE Threads
<1> /\ pc \in [Thread -> PcValues] /\ ready \in Int /\ ready' \in Int
    /\ Session \cap Consumer = {} /\ Thread = Session \cup Consumer
    BY CaptureAssumption DEF Handed, Safe, TypeOK, Thread
<1>1. UNCHANGED <<buf, got>>
      BY DEF Recheck
<1>2. CASE UNCHANGED ready /\ pc' = [pc EXCEPT ![t] = "idle"]
      BY <1>1, <1>2, SameSlot DEF Recheck
<1>3. CASE running /\ ready' = Counted(t) /\ pc' = [pc EXCEPT ![t] = "copy"]
  <2>1. pc[t] = "pass" /\ \A u \in Thread : pc[u] # "copy"
        BY OnlyCopy DEF Recheck
  <2>2. \A u \in Thread : pc'[u] = "copy" <=> u = t
        BY <1>3, <2>1
  <2>3. CASE t \in Session
    <3>1. ~Full
          BY <1>3, <2>1, <2>3, ReadyFull DEF Handed, Once
    <3>2. slot = NoFrame
          BY <2>1, <3>1, SlotIs
    <3>3. slot' = NoFrame
          BY <2>2, <2>3 DEF slot
    <3> QED BY <1>1, <3>2, <3>3
  <2>4. CASE t \in Consumer
    <3>1. Full
          BY <1>3, <2>1, <2>4, ReadyFull DEF Handed, Once
    <3>2. slot = buf
          BY <2>1, <3>1, SlotIs
    <3>3. slot' = buf'
          BY <2>2, <2>4 DEF slot
    <3> QED BY <1>1, <3>2, <3>3
  <2> QED BY <2>3, <2>4
<1> QED BY <1>2, <1>3 DEF Recheck

\* The end of a copy is a Put or a Take.
LEMMA EndCopyHands ==
  ASSUME Handed, Handed', NEW t \in Thread, EndCopy(t)
  PROVE  H!Next
<1> USE Threads
<1> /\ pc \in [Thread -> PcValues] /\ ready \in Int /\ ready' \in Int
    /\ Session \cap Consumer = {} /\ Thread = Session \cup Consumer
    BY CaptureAssumption DEF Handed, Safe, TypeOK, Thread
<1>1. /\ pc[t] = "copy" /\ \A u \in Thread : pc'[u] # "copy"
      /\ UNCHANGED <<ready, cur>>
      BY OnlyCopy DEF EndCopy
<1>2. Full' <=> Full
      BY <1>1, SameFull
<1>3. CASE t \in Session /\ buf' = cur[t] /\ UNCHANGED got
  <2>1. slot = NoFrame
        BY <1>1, <1>3 DEF slot
  <2>2. Full' /\ buf' \in Frame
        BY <1>1, <1>2, <1>3 DEF Handed, Stored
  <2>3. \A s \in Session : pc'[s] # "copy"
        BY <1>1
  <2>4. slot' = buf'
    <3>1. ~(ready' <= 0)
          BY <2>2 DEF Full
    <3> QED BY <2>3, <3>1 DEF slot
  <2> QED BY <1>3, <2>1, <2>2, <2>4 DEF H!Next, H!Put
<1>4. CASE t \in Consumer /\ got' = [got EXCEPT ![t] = buf] /\ UNCHANGED buf
  <2>1. ~Full /\ buf \in Frame
        BY <1>1, <1>4 DEF Handed, Stored
  <2>2. \A s \in Session : pc[s] # "copy"
        BY <1>1, <1>4, OnlyCopy
  <2>3. slot = buf
        BY <1>1, <1>4, <2>2, SlotIs
  <2>4. slot' = NoFrame
    <3>1. ready' <= 0
          BY <1>2, <2>1 DEF Full
    <3> QED BY <1>1, <3>1 DEF slot
  <2>5. buf # NoFrame
        BY <2>1, CaptureAssumption
  <2> QED BY <1>4, <2>3, <2>4, <2>5 DEF H!Next, H!Take
<1> QED BY <1>3, <1>4 DEF EndCopy

\* A step of the monitor is a Put, a Take, or nothing to the slot.
LEMMA HandoffStep ==
  ASSUME Handed, Handed', [Next]_vars
  PROVE  [H!Next]_<<slot, got>>
<1> pc \in [Thread -> PcValues]
    BY DEF Handed, Safe, TypeOK
<1> USE Threads
<1>1. ASSUME NEW s \in Session, NEW f \in Frame, OnFrame(s, f) PROVE UNCHANGED <<slot, got>>
      BY <1>1, SameSlot DEF OnFrame
<1>2. ASSUME NEW c \in Consumer, Call(c) PROVE UNCHANGED <<slot, got>>
      BY <1>2, SameSlot DEF Call
<1>3. ASSUME NEW t \in Thread, Test(t) PROVE UNCHANGED <<slot, got>>
  <2>1. \A u \in Thread : pc'[u] = "copy" <=> pc[u] = "copy"
        BY <1>3 DEF Test
  <2> QED BY <1>3, <2>1, SameSlot DEF Test
<1>4. ASSUME NEW t \in Thread, Sleep(t) PROVE UNCHANGED <<slot, got>>
      BY <1>4, SameSlot DEF Sleep
<1>5. ASSUME NEW t \in Thread, Spurious(t) PROVE UNCHANGED <<slot, got>>
      BY <1>5, SameSlot DEF Spurious
<1>6. ASSUME NEW t \in Thread, Notify(t) PROVE UNCHANGED <<slot, got>>
      BY <1>6, SameSlot DEF Notify, Wake
<1>7. CASE Start \/ Stop
  <2>1. \A u \in Thread : pc'[u] = "copy" <=> pc[u] = "copy"
        BY <1>7, MainStep DEF Handed, Safe
  <2>2. UNCHANGED <<ready, buf, got>>
        BY <1>7, MainStep DEF Handed, Safe
  <2> QED BY <2>1, <2>2, SameSlot
<1>8. CASE UNCHANGED vars
      BY <1>8, SameSlot DEF vars
<1> QED BY <1>1, <1>2, <1>3, <1>4, <1>5, <1>6, <1>7, <1>8, RecheckStutters, EndCopyHands
        DEF Next, ThreadStep

\* As long as start is not called after stop, which is how Stream uses it, the
\* monitor implements FrameHandoff: no frame that was stored is overwritten or
\* skipped, and none is returned twice.
THEOREM ImplementsHandoff ==
  ASSUME "restart" \notin Env
  PROVE  Spec => Handoff
<1>1. Handed /\ [Next]_vars => Handed'
      BY SafeStep, OnceStep, StoredStep DEF Handed
<1>2. Handed /\ Handed' /\ [Next]_vars => [H!Next]_<<slot, got>>
      BY HandoffStep
<1>3. Init => H!Init
      BY HandoffInit
<1> QED BY <1>1, <1>2, <1>3, HandedInit, PTL DEF Spec, Handoff, H!Spec
=============================================================================
