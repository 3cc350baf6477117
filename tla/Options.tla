------------------------------ MODULE Options -------------------------------
(***************************************************************************)
(* The settings on their way to the stream: parse_args of                  *)
(* src/src/utils.cpp, the fields of the window (gui.cpp), g_config,        *)
(* pages::setup and Stream::setup.                                         *)
(*                                                                         *)
(* A text is what std::stoi makes of it, NotANumber if it throws, and      *)
(* whether it has digits only: "8x" is 8, the empty text has digits only.  *)
(* quality is counted in hundredths.                                       *)
(***************************************************************************)
EXTENDS Integers

CONSTANTS Texts,       \* texts of options and fields, <<number, digits only>>
          NotANumber,  \* ... without a number
          QualityArgs, \* what -q is given, in hundredths
          ChosenTenths, \* what is chosen in the window, in tenths
          MaxArgs      \* a bound on the options

ASSUME OptionsAssumption ==
    /\ Texts \subseteq Int \X BOOLEAN /\ NotANumber \in Int /\ QualityArgs \subseteq Int
    /\ ChosenTenths \subseteq 1..10
    /\ MaxArgs \in Nat

VARIABLES
    g_config,  \* Args: port, quality, fps, timeout, h264
    stage,     \* "args", "cli", "window", "exited", "thrown" (an exception nobody catches)
    args,      \* the number of options seen
    inputs,    \* the texts of the fields: port, timeout, fps
    choice,    \* choice_quality, in tenths
    up,        \* does a server run that the window started with these options?
    frames,    \* the quality and rate of _frame_jpeg and _frame_h264
    chosen,    \* the frame _frame points to
    refused    \* has updateArgs refused its fields since the last setup?

optionsVars == <<g_config, stage, args, inputs, choice, up, frames, chosen, refused>>

-----------------------------------------------------------------------------
Number(t) == t[1]
Shown(n) == <<n, TRUE>>

\* Args and Frame.
Defaults == [port |-> 2333, quality |-> 60, fps |-> 15, timeout |-> 3600, h264 |-> TRUE]
FrameDefaults == <<60, 10>>

OptionsInit ==
    /\ g_config = Defaults /\ stage = "args" /\ args = 0
    /\ inputs = [field \in {"port", "timeout", "fps"} |-> Shown(0)] /\ choice = 1 /\ up = FALSE
    /\ frames = [encoder \in {"jpeg", "h264"} |-> FrameDefaults] /\ chosen = "none"
    /\ refused = FALSE

\* pages::setup and Stream::setup.
Passes_Select(fs, enc, c) == fs  \* slip: the frame is selected only
Passes(fs, enc, c) == [fs EXCEPT ![enc] = <<c.quality, c.fps>>]

SetupStream(c) ==
    LET enc == IF c.h264 THEN "h264" ELSE "jpeg"
    IN  frames' = Passes(frames, enc, c) /\ chosen' = enc /\ refused' = FALSE

KeepStream == UNCHANGED <<frames, chosen, refused>>

-----------------------------------------------------------------------------
(***************************************************************************)
(* parse_args, one option after the other.                                 *)
(***************************************************************************)
Option(valid, c) ==
    /\ stage = "args" /\ args < MaxArgs
    /\ args' = args + 1
    /\ IF valid THEN g_config' = c /\ UNCHANGED stage ELSE stage' = "exited" /\ UNCHANGED g_config
    /\ UNCHANGED <<inputs, choice, up>> /\ KeepStream

ParseTimeout(t) == Number(t) # NotANumber /\ Option(Number(t) >= 0, [g_config EXCEPT !.timeout = Number(t)])
ParsePort(t)    == Number(t) # NotANumber /\ Option(TRUE, [g_config EXCEPT !.port = Number(t)])
ParseFps(t)     == Number(t) # NotANumber /\ Option(Number(t) >= 1, [g_config EXCEPT !.fps = Number(t)])
ParseQuality(q) == Option(q > 0 /\ q <= 100, [g_config EXCEPT !.quality = q])
ParseEncoder(e) == Option(e \in {"h264", "jpeg"}, [g_config EXCEPT !.h264 = (e = "h264")])

\* stoi throws, and parse_args does not catch.
ParseThrows(t) ==
    /\ stage = "args" /\ Number(t) = NotANumber
    /\ stage' = "thrown"
    /\ UNCHANGED <<g_config, args, inputs, choice, up>> /\ KeepStream

\* The program without the window, and GUI::init, which shows the options.
RunAlone ==
    /\ stage = "args" /\ stage' = "cli"
    /\ SetupStream(g_config)
    /\ UNCHANGED <<g_config, args, inputs, choice, up>>

QualityChoice(q) == IF q < 20 THEN 1 ELSE q \div 10

OpenWindow ==
    /\ stage = "args" /\ stage' = "window"
    /\ inputs' = [port |-> Shown(g_config.port), timeout |-> Shown(g_config.timeout),
                  fps |-> Shown(g_config.fps)]
    /\ choice' = QualityChoice(g_config.quality)
    /\ SetupStream(g_config)
    /\ UNCHANGED <<g_config, args, up>>

-----------------------------------------------------------------------------
(***************************************************************************)
(* The window.                                                             *)
(***************************************************************************)
InRange(n, low, high) == n # NotANumber /\ low <= n /\ n <= high

\* digitCheck: only the rate takes effect at once, and only in range.  From Start
\* on the other fields are inactive.
EditPortOrTimeout(field, t) ==
    /\ stage = "window" /\ ~up /\ inputs' = [inputs EXCEPT ![field] = t]
    /\ UNCHANGED <<g_config, stage, args, choice, up>> /\ KeepStream

EditFps(t) ==
    /\ stage = "window" /\ inputs' = [inputs EXCEPT !.fps = t]
    /\ \/ /\ ~t[2] \/ (Number(t) # NotANumber /\ ~InRange(Number(t), 1, 60))
          /\ UNCHANGED <<g_config, stage>> /\ KeepStream
       \/ /\ t[2] /\ InRange(Number(t), 1, 60)
          /\ g_config' = [g_config EXCEPT !.fps = Number(t)]
          /\ SetupStream([g_config EXCEPT !.fps = Number(t)]) /\ UNCHANGED stage
       \/ /\ t[2] /\ Number(t) = NotANumber
          /\ stage' = "thrown" /\ UNCHANGED g_config /\ KeepStream
    /\ UNCHANGED <<args, choice, up>>

ChooseQuality(tenths) ==
    /\ stage = "window" /\ choice' = tenths
    /\ g_config' = [g_config EXCEPT !.quality = tenths * 10]
    /\ SetupStream([g_config EXCEPT !.quality = tenths * 10])
    /\ UNCHANGED <<stage, args, inputs, up>>

ChooseEncoder(h264) ==
    /\ stage = "window"
    /\ g_config' = [g_config EXCEPT !.h264 = h264]
    /\ SetupStream([g_config EXCEPT !.h264 = h264])
    /\ UNCHANGED <<stage, args, inputs, choice, up>>

\* updateArgs: each option is stored before the next one is looked at.
FieldOk(field) ==
    CASE field = "port"    -> InRange(Number(inputs.port), 1, 65535)
      [] field = "fps"     -> InRange(Number(inputs.fps), 1, 60)
      [] field = "timeout" -> InRange(Number(inputs.timeout), 0, 604800)

UpTo(field) ==  \* what is stored when that field is refused
    [g_config EXCEPT
        !.port = IF field # "port" THEN Number(inputs.port) ELSE @,
        !.fps  = IF field = "timeout" THEN Number(inputs.fps) ELSE @]

UpdateArgs ==
    /\ stage = "window" /\ ~up
    /\ \A field \in DOMAIN inputs : FieldOk(field)
    /\ LET c == [UpTo("timeout") EXCEPT !.timeout = Number(inputs.timeout), !.quality = choice * 10]
       IN  g_config' = c /\ SetupStream(c)
    /\ up' = TRUE
    /\ UNCHANGED <<stage, args, inputs, choice>>

UpdateArgsFails ==
    /\ stage = "window" /\ ~up
    /\ \/ ~FieldOk("port") /\ g_config' = g_config
       \/ FieldOk("port") /\ ~FieldOk("fps") /\ g_config' = UpTo("fps")
       \/ FieldOk("port") /\ FieldOk("fps") /\ ~FieldOk("timeout") /\ g_config' = UpTo("timeout")
    /\ refused' = TRUE
    /\ UNCHANGED <<stage, args, inputs, choice, up, frames, chosen>>

\* The server ends.
EndServer ==
    /\ up /\ up' = FALSE
    /\ UNCHANGED <<g_config, stage, args, inputs, choice>> /\ KeepStream

OptionsNext ==
    \/ \E t \in Texts : \/ ParseTimeout(t) \/ ParsePort(t) \/ ParseFps(t) \/ ParseThrows(t)
                        \/ \E field \in {"port", "timeout"} : EditPortOrTimeout(field, t)
                        \/ EditFps(t)
    \/ \E q \in QualityArgs : ParseQuality(q)
    \/ \E e \in {"h264", "jpeg", "other"} : ParseEncoder(e)
    \/ \E tenths \in ChosenTenths : ChooseQuality(tenths)
    \/ \E h264 \in BOOLEAN : ChooseEncoder(h264)
    \/ RunAlone \/ OpenWindow \/ UpdateArgs \/ UpdateArgsFails \/ EndServer

OptionsSpec == OptionsInit /\ [][OptionsNext]_optionsVars

-----------------------------------------------------------------------------
(***************************************************************************)
(* What the stream encodes with is what was asked for last, by whatever    *)
(* way: an option, a field that takes effect at once, a choice, or Start.  *)
(* Only a refused Start may leave options stored that the stream was not   *)
(* told, and only the frame in use is told: with H.264 the quality of      *)
(* /mjpeg stays what it was (Stream::setup).  A server that the window     *)
(* started has the port and the quality it shows, and no encoder is given  *)
(* what it asserts against.                                                *)
(***************************************************************************)
StreamFollows ==
    /\ stage \in {"cli", "window"} /\ ~refused =>
          /\ chosen = IF g_config.h264 THEN "h264" ELSE "jpeg"
          /\ frames[chosen] = <<g_config.quality, g_config.fps>>
    /\ up => /\ g_config.port = Number(inputs.port) /\ 1 <= g_config.port /\ g_config.port <= 65535
             /\ g_config.fps \in 1..60 /\ g_config.quality = choice * 10
    /\ \A enc \in DOMAIN frames : frames[enc][1] \in 1..100 /\ frames[enc][2] >= 1
=============================================================================
