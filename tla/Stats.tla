-------------------------------- MODULE Stats -------------------------------
(***************************************************************************)
(* The counter of src/src/stream.cpp behind the frame rates that are shown.*)
(* sendFrame counts; Stream::stat reads the counter and then resets it,    *)
(* for the window's timer (onTimeout) on one thread and for the page /info *)
(* (listRequests) on the other, where sendFrame runs as well.  Each        *)
(* variable is atomic, what is done with it is not.                        *)
(*                                                                         *)
(* _bytes is read and reset right after _frames and left out.              *)
(***************************************************************************)
EXTENDS Naturals

CONSTANTS MaxFrames,  \* a bound on the frames that are sent
          MaxClock    \* ... and on the time

ASSUME StatsAssumption == MaxFrames \in Nat /\ MaxClock \in Nat

VARIABLES
    clock,       \* uv_now of the main loop
    tally,      \* _frames
    stamp,       \* _stat_ts_ms
    stat,        \* where the threads are in stat: "out", "read", "reset"
    rate,        \* what each has made of _frames: a number and a time
    counted,     \* how many frames were sent,
    told,        \* ... and how many were told to somebody
    disturbed,   \* was a frame sent within a stat, or left out of its rate?
    together   \* were both threads in stat at once?

statsVars == <<clock, tally, stamp, stat, rate, counted, told, disturbed, together>>

Readers == {"window", "loop"}
NoRate == [number |-> 0, time |-> 0]

StatsInit ==
    /\ clock = 0 /\ tally = 0 /\ stamp = 0
    /\ stat = [t \in Readers |-> "out"] /\ rate = [t \in Readers |-> NoRate]
    /\ counted = 0 /\ told = 0 /\ disturbed = FALSE /\ together = FALSE

-----------------------------------------------------------------------------
PassTime ==
    /\ clock < MaxClock /\ clock' = clock + 1
    /\ UNCHANGED <<tally, stamp, stat, rate, counted, told, disturbed, together>>

\* The end of sendFrame, on the loop's thread.
CountFrame ==
    /\ counted < MaxFrames /\ stat["loop"] = "out"
    /\ tally' = tally + 1 /\ counted' = counted + 1
    /\ disturbed' = (disturbed \/ stat["window"] # "out")
    /\ UNCHANGED <<clock, stamp, stat, rate, told, together>>

\* onTimeout and listRequests call stat: the time since the last call ...
BeginStat(t) ==
    /\ stat[t] = "out"
    /\ stat' = [stat EXCEPT ![t] = "read"]
    /\ rate' = [rate EXCEPT ![t].time = clock - stamp]
    /\ stamp' = clock
    /\ together' = (together \/ \E u \in Readers \ {t} : stat[u] # "out")
    /\ UNCHANGED <<clock, tally, counted, told, disturbed>>

\* ... the frames, if any time has passed ...
ReadFrames(t) ==
    /\ stat[t] = "read"
    /\ stat' = [stat EXCEPT ![t] = "reset"]
    /\ rate' = [rate EXCEPT ![t].number = IF rate[t].time > 0 THEN tally ELSE 0]
    /\ disturbed' = (disturbed \/ (rate[t].time = 0 /\ tally > 0))
    /\ UNCHANGED <<clock, tally, stamp, counted, told, together>>

\* ... and the reset, after which the rate is shown.
Reset_Not == tally  \* slip: the counter goes on
Reset == 0

ResetFrames(t) ==
    /\ stat[t] = "reset"
    /\ stat' = [stat EXCEPT ![t] = "out"]
    /\ tally' = Reset /\ told' = told + rate[t].number
    /\ UNCHANGED <<clock, stamp, rate, counted, disturbed, together>>

StatsNext ==
    \/ PassTime \/ CountFrame
    \/ \E t \in Readers : BeginStat(t) \/ ReadFrames(t) \/ ResetFrames(t)

StatsSpec == StatsInit /\ [][StatsNext]_statsVars

-----------------------------------------------------------------------------
(***************************************************************************)
(* No frame is counted in two of the rates that are shown, as long as the  *)
(* window and the page do not ask at once.  None is left out, as long as   *)
(* none is sent while the window asks and no two ask in one millisecond    *)
(* (stat, sendFrame).                                                      *)
(***************************************************************************)
StatsTell ==
    ~together =>
        /\ told + tally <= counted
        /\ ~disturbed => told + tally = counted
=============================================================================
