------------------------ MODULE FramePipeline_proofs ------------------------
(***************************************************************************)
(* Proofs about FramePipeline: for any viewers, any i_keyint_max and, where*)
(* the theorem does not exclude it, any environment.                       *)
(***************************************************************************)
EXTENDS FramePipeline, FiniteSetTheorems, TLAPS

-----------------------------------------------------------------------------
\* The inductive invariants.

\* A viewer is registered exactly as long as its player has a view.
Registered == \A v \in Ws : view[v] # "out" <=> v \in reqs

\* While the main loop runs, the turn is in one place at most.
Open == main \in {"loop", "send", "jpeg"}
Busy == worker \notin {"poll", "exit"}
OneTurn ==
    /\ wasync => ~wtimer /\ ~Busy /\ ~AtMain
    /\ wtimer => ~Busy /\ ~AtMain
    /\ Busy => ~AtMain
    /\ async => main # "send"
Closed == (terminal => ~Open) /\ (~Open => reqs = {})

\* Before a frame is encoded the last one was sent; after it, one is not.
Before == wasync \/ wtimer \/ worker \in {"capture", "encode"}
After == AtMain \/ worker = "signal"
Numbered == \A v \in Ws : view[v] = "synced" => /\ Before => unsent = 0
                                                /\ After => unsent = 1

\* The request of a viewer without a key frame is in keyFrame, then in forced,
\* then in the frame.
Asked ==
    \A v \in Ws :
        /\ view[v] = "new" => /\ wasync \/ wtimer \/ worker = "capture" => keyFrame
                              /\ worker = "encode" => forced
                              /\ After => keyFrame \/ curKey
        /\ view[v] = "late" => /\ wasync \/ wtimer \/ worker = "capture" => keyFrame
                               /\ worker = "encode" => forced
                               /\ After => curKey

\* capJpegFrame runs for viewers of /mjpeg only.
Alone == main = "jpeg" => Mjpeg # {}

Alive == TypeOK /\ Closed /\ TurnAlive
Apart == Alive /\ Alone /\ (Open => OneTurn)
InOrder == Apart /\ Registered /\ Numbered /\ Decodable
Prompt == Apart /\ Registered /\ Asked /\ KeyPrompt

-----------------------------------------------------------------------------
\* Somebody is the first in exactly if nobody was there.
LEMMA FirstInEmpty ==
    ASSUME NEW R, R \subseteq Viewer, NEW v \in Viewer \ R
    PROVE  FirstIn(R \cup {v}) <=> R = {}
<1>1. IsFiniteSet(Viewer)
  BY PipelineAssumption, FS_Union DEF Viewer
<1>2. IsFiniteSet(R)
  BY <1>1, FS_Subset
<1>3. Cardinality(R \cup {v}) = Cardinality(R) + 1
  BY <1>2, FS_AddElement
<1>4. Cardinality(R) \in Nat /\ (Cardinality(R) = 0 <=> R = {})
  BY <1>2, FS_CardinalityType, FS_EmptySet
<1> QED
  BY <1>3, <1>4 DEF FirstIn

\* The counter of frames stays within the distance of key frames.
LEMMA GopType == ASSUME TypeOK PROVE NextGop \in 0..KeyInt - 1
  BY PipelineAssumption DEF TypeOK, NextGop, IsKey

\* At first the room is empty and nothing runs.
LEMMA InitAlive == Init => Alive
<1> SUFFICES ASSUME Init PROVE Alive
  OBVIOUS
<1>1. gop \in 0..KeyInt - 1 /\ unsent \in 0..2
  BY PipelineAssumption DEF Init
<1>2. TypeOK
  BY <1>1 DEF Init, TypeOK
<1> QED
  BY <1>2 DEF Init, Alive, Closed, Open, TurnAlive

\* One action at a time, the type invariant first.
LEMMA TypeStep == TypeOK /\ [Next]_vars => TypeOK'
<1> SUFFICES ASSUME TypeOK, [Next]_vars PROVE TypeOK'
  OBVIOUS
<1> USE DEF TypeOK, roomVars, wakeVars, frameVars, threadVars
<1>1. ASSUME NEW v \in Viewer, Join(v) PROVE TypeOK'
  <2>1. (reqs \subseteq Viewer /\ running \in BOOLEAN /\ wasync \in BOOLEAN)'
    BY <1>1 DEF Join, FirstIn
  <2>2. (keyFrame \in BOOLEAN)'
    BY <1>1 DEF Join, AskKey
  <2>3. (view \in [Ws -> {"out", "new", "late", "starved", "unsure", "synced", "broken"}])'
    BY <1>1 DEF Join
  <2> QED
    BY <1>1, <2>1, <2>2, <2>3 DEF Join
<1>2. ASSUME NEW v \in Viewer, Leave(v) PROVE TypeOK'
  BY <1>2 DEF Leave
<1>3. CASE Start
  BY <1>3 DEF Start
<1>4. CASE Stop
  BY <1>4 DEF Stop
<1>5. CASE BeginJpeg
  BY <1>5 DEF BeginJpeg
<1>6. CASE Close
  BY <1>6 DEF Close, CloseWakes
<1>7. CASE BeginSend
  BY <1>7 DEF BeginSend
<1>8. CASE EndSend
  <2>1. (view \in [Ws -> {"out", "new", "late", "starved", "unsure", "synced", "broken"}])'
    BY <1>8 DEF EndSend, Sends, Received
  <2> QED
    BY <1>8, <2>1 DEF EndSend, Sends, Awaken
<1>9. CASE EndJpeg
  BY <1>9 DEF EndJpeg
<1>10. CASE Joined
  BY <1>10 DEF Joined
<1>11. CASE WorkerCb
  BY <1>11 DEF WorkerCb
<1>12. CASE Capture
  BY <1>12 DEF Capture
<1>13. CASE CaptureFails
  BY <1>13 DEF CaptureFails
<1>14. CASE Encoded
  <2>1. gop' \in 0..KeyInt - 1
    BY <1>14, GopType DEF Encoded
  <2>2. unsent' \in 0..2
    BY <1>14 DEF Encoded
  <2>3. curKey' \in BOOLEAN /\ keyFrame' \in BOOLEAN
    BY <1>14 DEF Encoded, IsKey
  <2> QED
    BY <1>14, <2>1, <2>2, <2>3 DEF Encoded
<1>15. CASE Signal
  BY <1>15 DEF Signal
<1>16. CASE WorkerTimer
  BY <1>16 DEF WorkerTimer
<1>17. CASE UNCHANGED vars
  BY <1>17 DEF vars
<1> QED
  BY <1>1, <1>2, <1>3, <1>4, <1>5, <1>6, <1>7, <1>8, <1>9, <1>10, <1>11, <1>12,
     <1>13, <1>14, <1>15, <1>16, <1>17 DEF Next, MainStep, WorkerStep

\* A room with a viewer keeps its turn: whoever takes the turn passes it on, and
\* the two places that drop it, sendFrame and worker_cb, do so for empty rooms.
LEMMA AliveStep == Alive /\ [Next]_vars => Alive'
<1> SUFFICES ASSUME Alive, [Next]_vars PROVE Closed' /\ TurnAlive'
  BY TypeStep DEF Alive
<1> USE DEF Alive, Closed, Open, TurnAlive, Turn, AtWorker, AtMain,
            roomVars, wakeVars, frameVars, threadVars
<1>1. ASSUME NEW v \in Viewer, Join(v) PROVE Closed' /\ TurnAlive'
  <2>1. FirstIn(reqs') <=> reqs = {}
    BY <1>1, FirstInEmpty DEF Join, TypeOK
  <2> QED
    BY <1>1, <2>1 DEF Join
<1>2. ASSUME NEW v \in Viewer, Leave(v) PROVE Closed' /\ TurnAlive'
  BY <1>2 DEF Leave
<1>3. CASE Start
  BY <1>3 DEF Start
<1>4. CASE Stop
  BY <1>4 DEF Stop
<1>5. CASE BeginJpeg
  BY <1>5 DEF BeginJpeg
<1>6. CASE Close
  BY <1>6 DEF Close
<1>7. CASE BeginSend
  BY <1>7 DEF BeginSend, SendBegins
<1>8. CASE EndSend
  BY <1>8 DEF EndSend, Sends, Awaken
<1>9. CASE EndJpeg
  BY <1>9 DEF EndJpeg
<1>10. CASE Joined
  BY <1>10 DEF Joined
<1>11. CASE WorkerCb
  BY <1>11 DEF WorkerCb
<1>12. CASE Capture
  BY <1>12 DEF Capture
<1>13. CASE CaptureFails
  BY <1>13 DEF CaptureFails
<1>14. CASE Encoded
  BY <1>14 DEF Encoded
<1>15. CASE Signal
  BY <1>15 DEF Signal
<1>16. CASE WorkerTimer
  BY <1>16 DEF WorkerTimer
<1>17. CASE UNCHANGED vars
  BY <1>17 DEF vars
<1> QED
  BY <1>1, <1>2, <1>3, <1>4, <1>5, <1>6, <1>7, <1>8, <1>9, <1>10, <1>11, <1>12,
     <1>13, <1>14, <1>15, <1>16, <1>17 DEF Next, MainStep, WorkerStep

\* Without a turn on its way when a room fills again, there is one turn.
LEMMA ApartStep ==
    ASSUME "rejoin" \notin Env, Apart, [Next]_vars PROVE Apart'
<1> SUFFICES Alone' /\ (Open => OneTurn)'
  BY AliveStep DEF Apart
<1> USE DEF Apart, Alive, Closed, Open, OneTurn, Busy, Turn, AtWorker, AtMain, Alone,
            roomVars, wakeVars, frameVars, threadVars
<1>1. ASSUME NEW v \in Viewer, Join(v) PROVE Alone' /\ (Open => OneTurn)'
  <2>1. FirstIn(reqs') <=> reqs = {}
    BY <1>1, FirstInEmpty DEF Join, TypeOK
  <2> QED
    BY <1>1, <2>1 DEF Join
<1>2. ASSUME NEW v \in Viewer, Leave(v) PROVE Alone' /\ (Open => OneTurn)'
  BY <1>2 DEF Leave
<1>3. CASE Start
  BY <1>3 DEF Start
<1>4. CASE Stop
  BY <1>4 DEF Stop
<1>5. CASE BeginJpeg
  BY <1>5 DEF BeginJpeg
<1>6. CASE Close
  BY <1>6 DEF Close
<1>7. CASE BeginSend
  BY <1>7 DEF BeginSend
<1>8. CASE EndSend
  BY <1>8 DEF EndSend, Sends
<1>9. CASE EndJpeg
  BY <1>9 DEF EndJpeg
<1>10. CASE Joined
  BY <1>10 DEF Joined
<1>11. CASE WorkerCb
  BY <1>11 DEF WorkerCb
<1>12. CASE Capture
  BY <1>12 DEF Capture
<1>13. CASE CaptureFails
  BY <1>13 DEF CaptureFails
<1>14. CASE Encoded
  BY <1>14 DEF Encoded
<1>15. CASE Signal
  BY <1>15 DEF Signal
<1>16. CASE WorkerTimer
  BY <1>16 DEF WorkerTimer
<1>17. CASE UNCHANGED vars
  BY <1>17 DEF vars
<1> QED
  BY <1>1, <1>2, <1>3, <1>4, <1>5, <1>6, <1>7, <1>8, <1>9, <1>10, <1>11, <1>12,
     <1>13, <1>14, <1>15, <1>16, <1>17 DEF Next, MainStep, WorkerStep

\* Who is registered has a view.
LEMMA RegisteredStep == TypeOK /\ Registered /\ [Next]_vars => Registered'
<1> SUFFICES ASSUME TypeOK, Registered, [Next]_vars PROVE Registered'
  OBVIOUS
<1> USE DEF Registered, TypeOK, roomVars, wakeVars, frameVars, threadVars
<1>1. ASSUME NEW v \in Viewer, Join(v) PROVE Registered'
  BY <1>1 DEF Join
<1>2. ASSUME NEW v \in Viewer, Leave(v) PROVE Registered'
  BY <1>2 DEF Leave
<1>3. CASE Start
  BY <1>3 DEF Start
<1>4. CASE Stop
  BY <1>4 DEF Stop
<1>5. CASE BeginJpeg
  BY <1>5 DEF BeginJpeg
<1>6. CASE Close
  BY <1>6 DEF Close
<1>7. CASE BeginSend
  BY <1>7 DEF BeginSend
<1>8. CASE EndSend
  BY <1>8 DEF EndSend, Sends, Received
<1>9. CASE EndJpeg
  BY <1>9 DEF EndJpeg
<1>10. CASE Joined
  BY <1>10 DEF Joined
<1>11. CASE WorkerCb
  BY <1>11 DEF WorkerCb
<1>12. CASE Capture
  BY <1>12 DEF Capture
<1>13. CASE CaptureFails
  BY <1>13 DEF CaptureFails
<1>14. CASE Encoded
  BY <1>14 DEF Encoded
<1>15. CASE Signal
  BY <1>15 DEF Signal
<1>16. CASE WorkerTimer
  BY <1>16 DEF WorkerTimer
<1>17. CASE UNCHANGED vars
  BY <1>17 DEF vars
<1> QED
  BY <1>1, <1>2, <1>3, <1>4, <1>5, <1>6, <1>7, <1>8, <1>9, <1>10, <1>11, <1>12,
     <1>13, <1>14, <1>15, <1>16, <1>17 DEF Next, MainStep, WorkerStep

\* Each frame the worker makes is counted in unsent and sent before the next.
LEMMA InOrderStep ==
    ASSUME "rejoin" \notin Env, "capfail" \notin Env, InOrder, [Next]_vars
    PROVE  InOrder'
<1> SUFFICES Numbered' /\ Decodable'
  BY ApartStep, RegisteredStep DEF InOrder, Apart, Alive
<1> USE DEF InOrder, Apart, Alive, TypeOK, Closed, Open, OneTurn, Busy, Turn, AtWorker,
            AtMain, TurnAlive, Registered, Numbered, Before, After, Decodable,
            roomVars, wakeVars, frameVars, threadVars
<1>1. ASSUME NEW v \in Viewer, Join(v) PROVE Numbered' /\ Decodable'
  <2>1. FirstIn(reqs') <=> reqs = {}
    BY <1>1, FirstInEmpty DEF Join
  <2> QED
    BY <1>1, <2>1 DEF Join
<1>2. ASSUME NEW v \in Viewer, Leave(v) PROVE Numbered' /\ Decodable'
  BY <1>2 DEF Leave
<1>3. CASE Start
  BY <1>3 DEF Start
<1>4. CASE Stop
  BY <1>4 DEF Stop
<1>5. CASE BeginJpeg
  BY <1>5 DEF BeginJpeg
<1>6. CASE Close
  BY <1>6 DEF Close
<1>7. CASE BeginSend
  BY <1>7 DEF BeginSend, SendBegins
<1>8. CASE EndSend
  BY <1>8 DEF EndSend, Sends, Received, Awaken
<1>9. CASE EndJpeg
  BY <1>9 DEF EndJpeg
<1>10. CASE Joined
  BY <1>10 DEF Joined
<1>11. CASE WorkerCb
  BY <1>11 DEF WorkerCb
<1>12. CASE Capture
  BY <1>12 DEF Capture
<1>13. CASE CaptureFails
  BY <1>13 DEF CaptureFails
<1>14. CASE Encoded
  BY <1>14 DEF Encoded
<1>15. CASE Signal
  BY <1>15 DEF Signal
<1>16. CASE WorkerTimer
  BY <1>16 DEF WorkerTimer
<1>17. CASE UNCHANGED vars
  BY <1>17 DEF vars
<1> QED
  BY <1>1, <1>2, <1>3, <1>4, <1>5, <1>6, <1>7, <1>8, <1>9, <1>10, <1>11, <1>12,
     <1>13, <1>14, <1>15, <1>16, <1>17 DEF Next, MainStep, WorkerStep

\* The request for a key frame travels with the turn.
LEMMA PromptStep ==
    ASSUME "rejoin" \notin Env, "capfail" \notin Env, Prompt, [Next]_vars
    PROVE  Prompt'
<1> SUFFICES Asked' /\ KeyPrompt'
  BY ApartStep, RegisteredStep DEF Prompt, Apart, Alive
<1> USE DEF Prompt, Apart, Alive, TypeOK, Closed, Open, OneTurn, Busy, Turn, AtWorker,
            AtMain, TurnAlive, Registered, Asked, After, KeyPrompt,
            roomVars, wakeVars, frameVars, threadVars
<1>1. ASSUME NEW v \in Viewer, Join(v) PROVE Asked' /\ KeyPrompt'
  <2>1. FirstIn(reqs') <=> reqs = {}
    BY <1>1, FirstInEmpty DEF Join
  <2> QED
    BY <1>1, <2>1 DEF Join, AskKey
<1>2. ASSUME NEW v \in Viewer, Leave(v) PROVE Asked' /\ KeyPrompt'
  BY <1>2 DEF Leave
<1>3. CASE Start
  BY <1>3 DEF Start
<1>4. CASE Stop
  BY <1>4 DEF Stop
<1>5. CASE BeginJpeg
  BY <1>5 DEF BeginJpeg
<1>6. CASE Close
  BY <1>6 DEF Close
<1>7. CASE BeginSend
  BY <1>7 DEF BeginSend, SendBegins
<1>8. CASE EndSend
  BY <1>8 DEF EndSend, Sends, Received, Awaken
<1>9. CASE EndJpeg
  BY <1>9 DEF EndJpeg
<1>10. CASE Joined
  BY <1>10 DEF Joined
<1>11. CASE WorkerCb
  BY <1>11 DEF WorkerCb
<1>12. CASE Capture
  BY <1>12 DEF Capture
<1>13. CASE CaptureFails
  BY <1>13 DEF CaptureFails
<1>14. CASE Encoded
  BY <1>14 DEF Encoded, IsKey
<1>15. CASE Signal
  BY <1>15 DEF Signal
<1>16. CASE WorkerTimer
  BY <1>16 DEF WorkerTimer
<1>17. CASE UNCHANGED vars
  BY <1>17 DEF vars
<1> QED
  BY <1>1, <1>2, <1>3, <1>4, <1>5, <1>6, <1>7, <1>8, <1>9, <1>10, <1>11, <1>12,
     <1>13, <1>14, <1>15, <1>16, <1>17 DEF Next, MainStep, WorkerStep

-----------------------------------------------------------------------------
(***************************************************************************)
(* Every reachable state is well typed, for any viewers and environment.   *)
(***************************************************************************)
THEOREM TypeCorrect == Spec => []TypeOK
<1>1. Init => TypeOK
  BY InitAlive DEF Alive
<1> QED
  BY <1>1, TypeStep, PTL DEF Spec

(***************************************************************************)
(* The pipeline never stalls before a viewer: requestStart, sendFrame and  *)
(* worker_cb together keep the turn alive while anybody is registered,     *)
(* whatever else happens, lost captures and second turns included.         *)
(***************************************************************************)
THEOREM TurnIsKept == Spec => []TurnAlive
<1>1. Alive => TurnAlive
  BY DEF Alive
<1> QED
  BY <1>1, InitAlive, AliveStep, PTL DEF Spec

(***************************************************************************)
(* Passing the turn is enough to keep sendFrame and capJpegFrame off the   *)
(* frame that the worker writes, unless a room is entered again while the  *)
(* turn of its former viewers is on its way; with the JPEG encoder nobody  *)
(* may watch /mjpeg besides.                                               *)
(***************************************************************************)
THEOREM FrameIsNotShared ==
    ASSUME "rejoin" \notin Env, Encoder = "h264" \/ Mjpeg = {}
    PROVE  Spec => []NoRace
<1>1. Init => Apart
  BY InitAlive DEF Init, Apart, Alone, OneTurn, Busy, AtMain
<1>2. Apart /\ [Next]_vars => Apart'
  BY ApartStep
<1>3. Apart => NoRace
  BY DEF Apart, Alone, Open, OneTurn, Busy, AtMain, NoRace
<1> QED
  BY <1>1, <1>2, <1>3, PTL DEF Spec

(***************************************************************************)
(* With one turn and a screen that can be captured, a player that has a    *)
(* key frame gets all the frames that refer to it, once each and in order. *)
(***************************************************************************)
THEOREM FramesInOrder ==
    ASSUME "rejoin" \notin Env, "capfail" \notin Env
    PROVE  Spec => []Decodable
<1>1. Init => InOrder
  BY InitAlive DEF Init, InOrder, Apart, Alone, OneTurn, Busy, AtMain, Registered,
                   Numbered, Decodable
<1>2. InOrder /\ [Next]_vars => InOrder'
  BY InOrderStep
<1>3. InOrder => Decodable
  BY DEF InOrder
<1> QED
  BY <1>1, <1>2, <1>3, PTL DEF Spec

(***************************************************************************)
(* The key frame that requestStart asks for is the first or the second     *)
(* frame the new viewer gets, unless it enters while a frame is encoded.   *)
(***************************************************************************)
THEOREM KeyFramesArePrompt ==
    ASSUME "rejoin" \notin Env, "capfail" \notin Env
    PROVE  Spec => []KeyPrompt
<1>1. Init => Prompt
  BY InitAlive DEF Init, Prompt, Apart, Alone, OneTurn, Busy, AtMain, Registered,
                   Asked, KeyPrompt
<1>2. Prompt /\ [Next]_vars => Prompt'
  BY PromptStep
<1>3. Prompt => KeyPrompt
  BY DEF Prompt
<1> QED
  BY <1>1, <1>2, <1>3, PTL DEF Spec
=============================================================================
