------------------------------- MODULE Parts --------------------------------
(***************************************************************************)
(* The parts of the program that share no state with each other: frames of *)
(* WebSockets, what a connection sends, texts, options, the encoder, the   *)
(* frame rates, the picture in the window, and the player in the browser.  *)
(* A behaviour is one of one of them, while the others rest.               *)
(***************************************************************************)
EXTENDS WsFrame, Inbound, Text, Options, FrameEncoder, Player, Stats,
        Preview

VARIABLE part  \* the one that moves

partsVars == <<part, frame, inboundVars, text, optionsVars, encoderVars, playerVars,
              statsVars, previewVars>>

\* Where an encoder that rests may be any, it is this one.
EncoderRests ==
    /\ system = "Windows" /\ display = CHOOSE d \in Displays : TRUE
    /\ settings = (CHOOSE s \in Settings : TRUE) /\ doing = "idle"

PartsInit ==
    /\ part \in {"frame", "inbound", "text", "options", "encoder", "player", "stats",
               "preview"}
    /\ FrameInit /\ InboundInit /\ TextInit /\ OptionsInit /\ EncoderInit /\ PlayerInit
    /\ StatsInit /\ PreviewInit
    /\ part = "encoder" \/ EncoderRests
    /\ part = "preview" \/ screen = CHOOSE size \in Screens : TRUE

\* The steps of one part.
Of(name, A) == part = name /\ A /\ UNCHANGED part

PartsNext ==
    \/ /\ Of("frame", FrameNext)
       /\ UNCHANGED <<inboundVars, text, optionsVars, encoderVars, playerVars, statsVars,
                       previewVars>>
    \/ /\ Of("inbound", InboundNext)
       /\ UNCHANGED <<frame, text, optionsVars, encoderVars, playerVars, statsVars,
                       previewVars>>
    \/ /\ Of("text", TextNext)
       /\ UNCHANGED <<frame, inboundVars, optionsVars, encoderVars, playerVars, statsVars,
                       previewVars>>
    \/ /\ Of("options", OptionsNext)
       /\ UNCHANGED <<frame, inboundVars, text, encoderVars, playerVars, statsVars,
                       previewVars>>
    \/ /\ Of("encoder", EncoderNext)
       /\ UNCHANGED <<frame, inboundVars, text, optionsVars, playerVars, statsVars,
                       previewVars>>
    \/ /\ Of("player", PlayerNext)
       /\ UNCHANGED <<frame, inboundVars, text, optionsVars, encoderVars, statsVars,
                       previewVars>>
    \/ /\ Of("stats", StatsNext)
       /\ UNCHANGED <<frame, inboundVars, text, optionsVars, encoderVars, playerVars,
                       previewVars>>
    \/ /\ Of("preview", PreviewNext)
       /\ UNCHANGED <<frame, inboundVars, text, optionsVars, encoderVars, playerVars,
                       statsVars>>

PartsSpec == PartsInit /\ [][PartsNext]_partsVars

-----------------------------------------------------------------------------
\* What the window shows of the server and of the screen: its frame rate counts
\* each frame at most once, its preview is drawn from its own memory (onTimeout,
\* previewImpl).
WindowShows == StatsTell /\ PreviewFits
=============================================================================
