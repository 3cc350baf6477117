---------------------------- MODULE FrameEncoder ---------------------------
(***************************************************************************)
(* FrameJpeg::next and FrameH264::next of src/src/frame.cpp.  The first    *)
(* lets the system make a JPEG of the screen.  In the second one picture is*)
(* captured, the encoder is initialised again if the picture or the        *)
(* settings ask for it, and the picture is encoded.  What FramePipeline    *)
(* takes as one step is looked at here: captureJpg and captureBgra and     *)
(* their sizes on both systems, H264Encoder::init, and Stream::setup, which*)
(* the window's thread calls at any time.  A behaviour is one of one frame.*)
(*                                                                         *)
(* Pixels are left out, their sizes are not.  x264 and the systems are     *)
(* external: captures, initialisations and encodes may fail.  The key by   *)
(* which sizes and settings are compared is a float: a number of fewer     *)
(* than Mantissa times a power of two, to which each product is rounded.   *)
(* Qualities are such numbers too and are given in units of a power of two,*)
(* in which they are whole.                                                *)
(***************************************************************************)
EXTENDS Integers

CONSTANTS Displays,   \* the screens: width and height
          Qualities,  \* the qualities ...
          Rates,      \* ... and rates that setup is called with
          Mantissa,   \* the numbers that a float tells apart; 2^24 in the code
          Units       \* the powers of two that a float may be a multiple of

ASSUME EncoderAssumption ==
    /\ Displays \subseteq (Nat \ {0, 1}) \X (Nat \ {0, 1})
    /\ Qualities \subseteq Nat \ {0} /\ Rates \subseteq Nat \ {0}
    /\ Mantissa \in Nat /\ Mantissa >= 32
    /\ Units \subseteq Nat \ {0} /\ \A u, v \in Units : u < v => 2 * u <= v

VARIABLES
    display,   \* the screen's width and height, in its own pixels
    system,    \* "macOS" or "Windows"
    halves,    \* twice ScreenCapture::scale_; on Windows it stays 0
    settings,  \* <<_quality, _fps>>
    doing,     \* where next is: "jpeg"; for H.264 "idle", "captured", "init", "encode"
    pixels,    \* its w and h, which setSize keeps and browsers are told
    read,      \* the settings it has read for its key
    lastKey,   \* _key, the key of the last initialisation
    keyed,     \* the size and the settings that key was made of; Null
    encoder,   \* the size and the settings encoder_ was opened with; Null
    pictured,  \* the size of the picture in _frame; Null if it has none
    failed,    \* has the last initialisation failed, the last JPEG?
    raced      \* has setup been called within the last initialisation?

encoderVars == <<display, system, halves, settings, doing, pixels, read, lastKey, keyed,
                 encoder, pictured, failed, raced>>

Null == <<>>
Settings == Qualities \X Rates
Area(s) == s[1] * s[2]

-----------------------------------------------------------------------------
\* width += width & 1.
Even(n) == n + (n % 2)

\* impl::captureBgra of either system: Windows makes its size even.
SystemSize == IF system = "Windows" THEN <<Even(display[1]), Even(display[2])>> ELSE display

\* Capturer::captureBgra: the picture of a display with smaller pixels is
\* scaled down, any other is passed on.
ScaledSide_Raw(n) == (n * 2) \div halves  \* slip: not made even
ScaledSide(n) == Even((n * 2) \div halves)

CapturedSize ==
    IF halves > 2 THEN <<ScaledSide(SystemSize[1]), ScaledSide(SystemSize[2])>> ELSE SystemSize

\* The floats around n are the multiples of u.
Spacing(n) == {u \in Units : n < Mantissa * u /\ (u = 1 \/ Mantissa * u <= 2 * n)}

\* The nearest multiple of u, the even one of two.
Rounded(n, u) ==
    IF 2 * (n % u) < u \/ (2 * (n % u) = u /\ (n \div u) % 2 = 0) THEN u * (n \div u)
    ELSE u * ((n \div u) + 1)

\* The float that stands for n, none if n is beyond them all ...
Floats(n) == {Rounded(n, u) : u \in Spacing(n)}

\* ... and for a product of two.
Product(X, Y) == UNION {Floats(x * y) : x \in X, y \in Y}

\* w * h * _quality * _fps: w * h is whole, the rest are floats.
Keys_Settings(s, set) == Product({set[1]}, Floats(set[2]))  \* slip: sizes not compared
Keys(s, set) == Product(Product(Floats(Area(s)), {set[1]}), Floats(set[2]))

EncoderInit ==
    /\ display \in Displays /\ system \in {"macOS", "Windows"}
    /\ halves \in (IF system = "macOS" THEN {2, 3, 4} ELSE {0})
    /\ settings \in Settings
    /\ doing \in {"idle", "jpeg"} /\ pixels = <<0, 0>> /\ read = settings /\ lastKey = 0
    /\ keyed = Null /\ encoder = Null /\ pictured = Null /\ failed = FALSE /\ raced = FALSE

-----------------------------------------------------------------------------
\* The screen is turned or exchanged.
ChangeDisplay ==
    /\ display' \in Displays
    /\ UNCHANGED <<system, halves, settings, doing, pixels, read, lastKey, keyed,
                   encoder, pictured, failed, raced>>

\* setup, from the window's thread.
Setup ==
    /\ settings' \in Settings
    /\ raced' = (raced \/ doing = "init")
    /\ UNCHANGED <<display, system, halves, doing, pixels, read, lastKey, keyed, encoder, pictured,
                   failed>>

\* Frame::setSize.
SetSize(size) == pixels' = size

\* next: a picture is captured.  If that fails, nothing is done.
CaptureBgra ==
    /\ doing = "idle"
    /\ doing' = "captured" /\ SetSize(CapturedSize)
    /\ UNCHANGED <<display, system, halves, settings, read, lastKey, keyed, encoder, pictured, failed,
                   raced>>

\* The settings are read for the key, which is compared ...
Compare ==
    /\ doing = "captured"
    /\ read' = settings
    /\ IF lastKey \notin Keys(pixels, settings) THEN doing' = "init" /\ raced' = FALSE
       ELSE doing' = "encode" /\ UNCHANGED raced
    /\ UNCHANGED <<display, system, halves, settings, pixels, lastKey, keyed, encoder, pictured, failed>>

\* ... and once more for the encoder that replaces the former one.
Opened == <<pixels, settings>>

InitEncoder ==
    /\ doing = "init" /\ doing' = "encode"
    /\ encoder' = Opened /\ failed' = FALSE
    /\ lastKey' \in Keys(pixels, read) /\ keyed' = <<pixels, read>>
    /\ UNCHANGED <<display, system, halves, settings, pixels, read, pictured, raced>>

\* It cannot be opened: the former one is closed, its key stays.
InitFails ==
    /\ doing = "init" /\ doing' = "idle"
    /\ encoder' = Null /\ failed' = TRUE
    /\ UNCHANGED <<display, system, halves, settings, pixels, read, lastKey, keyed, pictured, raced>>

\* The former picture is dropped and the new one is encoded, if it can be: as
\* large as the encoder takes it, whatever its size is.
Encode ==
    /\ doing = "encode" /\ encoder # Null
    /\ doing' = "idle" /\ pictured' \in {encoder[1], Null}
    /\ UNCHANGED <<display, system, halves, settings, pixels, read, lastKey, keyed, encoder, failed,
                   raced>>

-----------------------------------------------------------------------------
(***************************************************************************)
(* FrameJpeg.                                                              *)
(***************************************************************************)
\* captureJpeg of either system announces the size of the screen, on macOS in
\* logical pixels, and there bounds the longer side of the picture by the width.
Announced ==
    IF system = "Windows" THEN SystemSize ELSE <<ScaledSide(display[1]), ScaledSide(display[2])>>

Bounded(s, side) ==
    IF s[1] <= side /\ s[2] <= side THEN s
    ELSE IF s[1] >= s[2] THEN <<side, (s[2] * side) \div s[1]>>
    ELSE <<(s[1] * side) \div s[2], side>>

JpegSize == IF system = "Windows" THEN SystemSize ELSE Bounded(display, Announced[1])

CaptureJpeg ==
    /\ doing = "jpeg"
    /\ SetSize(Announced) /\ pictured' = JpegSize /\ failed' = FALSE
    /\ UNCHANGED <<display, system, halves, settings, doing, read, lastKey, keyed, encoder, raced>>

\* A capture fails: macOS announces nothing, Windows what was on the stack.  Or
\* only the encoding fails.  The former picture stays, and is sent once more.
JpegFails ==
    /\ doing = "jpeg"
    /\ pixels' \in {Announced} \cup (IF system = "Windows" THEN Displays ELSE {<<0, 0>>})
    /\ failed' = TRUE
    /\ UNCHANGED <<display, system, halves, settings, doing, read, lastKey, keyed, encoder, pictured,
                   raced>>

EncoderNext ==
    \/ ChangeDisplay \/ Setup \/ CaptureJpeg \/ JpegFails
    \/ CaptureBgra \/ Compare \/ InitEncoder \/ InitFails \/ Encode

EncoderSpec == EncoderInit /\ [][EncoderNext]_encoderVars

-----------------------------------------------------------------------------
\* What the variables hold.
EncoderTypeOK ==
    /\ display \in Displays /\ system \in {"macOS", "Windows"} /\ halves \in {0, 2, 3, 4}
    /\ settings \in Settings /\ read \in Settings
    /\ doing \in {"jpeg", "idle", "captured", "init", "encode"}
    /\ pixels \in Nat \X Nat /\ lastKey \in Nat
    /\ keyed \in ((Nat \X Nat) \X Settings) \cup {Null}
    /\ encoder \in ((Nat \X Nat) \X Settings) \cup {Null}
    /\ pictured \in (Nat \X Nat) \cup {Null}
    /\ failed \in BOOLEAN /\ raced \in BOOLEAN

\* Areas that keys of the same settings may not tell apart: they differ by seven
\* in Mantissa at most, so in the code they are equal below 2.3 million pixels,
\* and with even sides below 9.5 million.
Close(a, b) == Mantissa * a <= (Mantissa + 7) * b /\ Mantissa * b <= (Mantissa + 7) * a

(***************************************************************************)
(* What is encoded is what the encoder was opened for (FrameH264::next,    *)
(* bgraToI420).  Whatever failed and whenever setup was called: nothing is *)
(* encoded before the encoder was open once, and as long as the settings   *)
(* are those of the last key the picture has the area that belongs to the  *)
(* key, up to what a float tells apart; an encoder that is open has the    *)
(* size of the key, and its settings if setup did not come between the key *)
(* and the parameters; it is closed only if the last initialisation failed *)
(* and the screen or the settings then became again what they were.  Not   *)
(* claimed: that a turned screen, which keeps its area and so its encoder, *)
(* has its rows read right, and anything of the area if quality and rate   *)
(* were exchanged for others, as their product may belong to another area. *)
(* The encoder's sizes are even, as init asserts, unless the display is    *)
(* one of macOS that is not scaled (h264.cpp:32).                          *)
(***************************************************************************)
EncoderFits ==
    /\ doing = "encode" =>
          /\ keyed # Null
          /\ read = keyed[2] => Close(Area(keyed[1]), Area(pixels))
          /\ encoder = Null => failed
          /\ encoder # Null => encoder[1] = keyed[1] /\ (encoder[2] = keyed[2] \/ raced)
    /\ encoder # Null /\ ~(system = "macOS" /\ halves <= 2) =>
          encoder[1][1] % 2 = 0 /\ encoder[1][2] % 2 = 0

\* A JPEG is no wider than was announced, also on a turned screen and on one
\* whose pixels are not the logical ones.
JpegFits == doing = "jpeg" /\ pictured # Null /\ ~failed => pictured[1] <= pixels[1]

\* The pictures of both frames fit what is read and said of them.
PicturesFit == EncoderFits /\ JpegFits
=============================================================================
