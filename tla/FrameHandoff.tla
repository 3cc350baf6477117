---------------------------- MODULE FrameHandoff ----------------------------
(***************************************************************************)
(* What src/src/capture/darwin/ScreenCapture.cpp promises: a slot for one  *)
(* frame.  A frame is put only into an empty slot, so that none is lost    *)
(* once it was put, and is taken out by one consumer, once.                *)
(***************************************************************************)
CONSTANTS Frame, NoFrame, Consumer

VARIABLES slot,  \* the frame put and not taken, or NoFrame
          got    \* the frame each consumer took last

Init == slot = NoFrame /\ got = [c \in Consumer |-> NoFrame]

Put == /\ slot = NoFrame
       /\ slot' \in Frame
       /\ UNCHANGED got

Take(c) == /\ slot # NoFrame
           /\ got' = [got EXCEPT ![c] = slot]
           /\ slot' = NoFrame

Next == Put \/ \E c \in Consumer : Take(c)

Spec == Init /\ [][Next]_<<slot, got>>
=============================================================================
