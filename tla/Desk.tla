-------------------------------- MODULE Desk --------------------------------
(***************************************************************************)
(* The program around its server: Control starts and stops it, IdleTimer   *)
(* ends it when nobody uses it, Panel is the rest of the window.           *)
(*                                                                         *)
(* Control and IdleTimer meet in start, in stop and in the expiry.  In the *)
(* program without the window they are composed step by step.  With the    *)
(* window the expiry may come at any time a server is up, whatever a clock *)
(* would say.  Panel shares no variable with them: a behaviour is one of   *)
(* the window's lower half, or one of the rest.                            *)
(***************************************************************************)
EXTENDS Control, Panel, IdleTimer

VARIABLE part  \* "program" or "panel"

deskVars == <<part, controlVars, panelVars, idleVars>>

DeskInit ==
    /\ part \in {"program", "panel"}
    /\ ControlInit /\ PanelInit /\ IdleInit
    /\ ui = "gui" \/ part = "panel" => timeout = CHOOSE t \in Timeouts : TRUE
    /\ part = "panel" => ui = "gui"

-----------------------------------------------------------------------------
\* Steps of the window and its loop, and steps of the program without.
InWindow(A) ==
    /\ part = "program" /\ ui = "gui" /\ fault = "none"
    /\ A /\ History
    /\ UNCHANGED <<part, panelVars, idleVars>>

Alone(A) ==
    /\ part = "program" /\ ui = "cli" /\ fault = "none"
    /\ A
    /\ UNCHANGED <<part, panelVars>>

\* The program without the window starts its server with the clock, which runs
\* while the loop does, and may end it.
CliStarts ==
    \E ok \in BOOLEAN : CliStart(ok) /\ IF ok THEN IdleStart ELSE UNCHANGED idleVars
CliTimer == (ExitTimer \/ Interrupt) /\ UNCHANGED idleVars
CliExpires == Expire /\ TimedOut
CliEndsLoop == LoopEnds /\ IdleStop
CliStep == (CliStarts \/ CliTimer \/ CliExpires \/ CliEndsLoop) /\ History
CliClock == loop = "poll" /\ ~stopping /\ server = "up" /\ IdleStep /\ UNCHANGED controlVars

InPanel(A) ==
    /\ part = "panel" /\ A
    /\ UNCHANGED <<part, controlVars, idleVars>>

DeskNext ==
    \/ InWindow(WindowNext) \/ InWindow(LoopStep) \/ InWindow(Expire)
    \/ Alone(CliStep) \/ Alone(CliClock)
    \/ InPanel(PanelNext)

\* The threads run; nobody is obliged to click, and timers of FLTK fire.
DeskFairness ==
    /\ WF_deskVars(InWindow(WindowStep)) /\ WF_deskVars(InWindow(RunAwake))
    /\ WF_deskVars(InWindow(LoopStep))
    /\ WF_deskVars(Alone((CliStarts \/ CliEndsLoop) /\ History))
    /\ WF_deskVars(Alone(ExitTimer /\ UNCHANGED idleVars /\ History))
    /\ WF_deskVars(InPanel(PreviewTimer))

DeskSpec == DeskInit /\ [][DeskNext]_deskVars /\ DeskFairness
=============================================================================
