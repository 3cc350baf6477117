-------------------------------- MODULE Panel -------------------------------
(***************************************************************************)
(* src/src/gui.cpp: the lower half of the window, which shows the preview  *)
(* of the screen, the details, the about text or the log.                  *)
(*                                                                         *)
(* All of it runs on the GUI thread.  What makes it hard are the timers of *)
(* FLTK: none is ever removed.  Each looks, when it fires, at a flag that  *)
(* may have been reset and set again since, and then goes on as if it had  *)
(* been set by the click it belongs to.                                    *)
(***************************************************************************)
EXTENDS Naturals

CONSTANT MaxTimers  \* a bound on the timers of one kind that are armed at once

ASSUME PanelAssumption == MaxTimers \in Nat

VARIABLES
    flags,      \* which of show_preview, show_detail, show_about, show_log
    visible,    \* the widget that is not hidden: "preview", "detail", "display"
    focused,    \* has the window the focus, as far as its handlers know?
    pushed,     \* was the last event a push or a shortcut?
    ticks,      \* timers that call previewImpl
    refreshes,  \* timers that call onDetailMessage(false)
    abouts      \* timers that close the about text

panelVars == <<flags, visible, focused, pushed, ticks, refreshes, abouts>>

Shown == {"preview", "detail", "about", "log"}

PanelTypeOK ==
    /\ flags \subseteq Shown
    /\ visible \in {"preview", "detail", "display"}
    /\ focused \in BOOLEAN /\ pushed \in BOOLEAN
    /\ ticks \in Nat /\ refreshes \in Nat /\ abouts \in Nat

-----------------------------------------------------------------------------
\* previewOn: a window without the focus shows the last picture.
PreviewOn(hasFocus) ==
    /\ flags' = IF hasFocus \/ "preview" \in flags THEN {"preview"} ELSE {}
    /\ visible' = IF "preview" \in flags THEN visible ELSE "preview"
    /\ ticks' = IF hasFocus /\ "preview" \notin flags THEN ticks + 1 ELSE ticks

Show(what, widget) ==
    /\ flags' = {what} /\ visible' = widget
    /\ UNCHANGED ticks

\* The end of init.
PanelInit ==
    /\ flags = {"preview"} /\ visible = "preview" /\ focused = TRUE /\ pushed = FALSE
    /\ ticks = 1 /\ refreshes = 0 /\ abouts = 0

-----------------------------------------------------------------------------
(***************************************************************************)
(* GuiWindow::handle.                                                      *)
(***************************************************************************)
\* onFocus: the details and the log stay, the about text does not.
Resume == IF flags \cap {"detail", "log"} # {} THEN UNCHANGED <<flags, visible, ticks>>
                                               ELSE PreviewOn(TRUE)

Focus(isPush) ==
    /\ pushed' = isPush /\ focused' = TRUE
    /\ IF focused THEN UNCHANGED <<flags, visible, ticks>> ELSE Resume
    /\ UNCHANGED <<refreshes, abouts>>

\* onUnfocus, previewOff: not right after a push, when a menu takes the focus.
HidePreview == flags \ {"preview"}

Unfocus ==
    /\ pushed' = FALSE
    /\ IF pushed THEN UNCHANGED <<flags, focused>>
                 ELSE focused' = FALSE /\ flags' = HidePreview
    /\ UNCHANGED <<visible, ticks, refreshes, abouts>>

OtherEvent ==
    /\ pushed' = FALSE
    /\ UNCHANGED <<flags, visible, focused, ticks, refreshes, abouts>>

-----------------------------------------------------------------------------
(***************************************************************************)
(* The buttons.  Each shows its text, or the preview if it is shown.       *)
(***************************************************************************)
\* onDetail; the text is renewed every three seconds.
Refreshing_Once(again) == again  \* slip: no timer from the click
Refreshing(again) == TRUE

ShowDetail(again) ==
    /\ Show("detail", "detail")
    /\ refreshes' = refreshes + (IF Refreshing(again) THEN 1 ELSE 0) - (IF again THEN 1 ELSE 0)

OnDetail ==
    /\ refreshes < MaxTimers
    /\ IF "detail" \in flags THEN PreviewOn(focused) /\ UNCHANGED refreshes
                             ELSE ShowDetail(FALSE)
    /\ UNCHANGED <<focused, pushed, abouts>>

\* onAbout; closed after ten seconds.
OnAbout ==
    /\ abouts < MaxTimers
    /\ IF "about" \in flags
         THEN PreviewOn(focused) /\ UNCHANGED abouts
         ELSE Show("about", "detail") /\ abouts' = abouts + 1
    /\ UNCHANGED <<focused, pushed, refreshes>>

\* onLog, also called by showLog after a start that failed.
OnLog ==
    /\ IF "log" \in flags THEN PreviewOn(focused) ELSE Show("log", "display")
    /\ UNCHANGED <<focused, pushed, refreshes, abouts>>

\* deactivate, when the server starts.
Deactivate ==
    /\ PreviewOn(focused)
    /\ UNCHANGED <<focused, pushed, refreshes, abouts>>

-----------------------------------------------------------------------------
(***************************************************************************)
(* The timers.                                                             *)
(***************************************************************************)
TickGoesOn_Always == TRUE  \* slip: show_preview not looked at
TickGoesOn == "preview" \in flags

PreviewTimer ==
    /\ ticks > 0
    /\ ticks' = IF TickGoesOn THEN ticks ELSE ticks - 1
    /\ UNCHANGED <<flags, visible, focused, pushed, refreshes, abouts>>

DetailTimer ==
    /\ refreshes > 0
    /\ IF "detail" \in flags
         THEN ShowDetail(TRUE)
         ELSE refreshes' = refreshes - 1 /\ UNCHANGED <<flags, visible, ticks>>
    /\ UNCHANGED <<focused, pushed, abouts>>

AboutShown == "about" \in flags

AboutTimer ==
    /\ abouts > 0
    /\ abouts' = abouts - 1
    /\ IF AboutShown THEN PreviewOn(focused) ELSE UNCHANGED <<flags, visible, ticks>>
    /\ UNCHANGED <<focused, pushed, refreshes>>

-----------------------------------------------------------------------------
PanelNext ==
    \/ ticks < MaxTimers /\ (\/ \E isPush \in BOOLEAN : Focus(isPush)
                             \/ OnDetail \/ OnAbout \/ OnLog \/ Deactivate)
    \/ Unfocus \/ OtherEvent
    \/ PreviewTimer \/ DetailTimer \/ AboutTimer

PanelSpec == PanelInit /\ [][PanelNext]_panelVars

-----------------------------------------------------------------------------
\* One thing is shown at a time and the widget is the one for it; nothing is
\* shown only without the focus.
OneShown ==
    \/ flags = {"preview"} /\ visible = "preview" /\ focused
    \/ flags = {} /\ visible = "preview" /\ ~focused
    \/ flags \in {{"detail"}, {"about"}} /\ visible = "detail"
    \/ flags = {"log"} /\ visible = "display"

\* What has to change by itself has its timer.
TimersBehind ==
    /\ "preview" \in flags => ticks > 0
    /\ "detail" \in flags => refreshes > 0
    /\ "about" \in flags => abouts > 0

(***************************************************************************)
(* The panel shows what was asked for and keeps it up to date, however the *)
(* flags were set and reset while timers of earlier clicks were armed: a   *)
(* window in use has no frozen picture, details that nobody renews or an   *)
(* about text that stays (previewOn, onDetail, onAbout, onLog, handle).    *)
(***************************************************************************)
PanelAgrees == OneShown /\ TimersBehind

(***************************************************************************)
(* A window that has lost the focus stops capturing the screen, though     *)
(* several chains of timers may have been started (previewImpl).           *)
(***************************************************************************)
PreviewRests == <>[]~focused => <>[](ticks = 0)
=============================================================================
