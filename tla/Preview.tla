------------------------------- MODULE Preview -------------------------------
(***************************************************************************)
(* The picture in the window: what GUI::previewOn and previewImpl of       *)
(* src/src/gui.cpp do to the memory it is drawn from, with                 *)
(* captureRgbaScaled of src/src/capture/capturer.cpp.  Panel has the flags *)
(* and the timers of the window; of them only show_preview is looked at.   *)
(*                                                                         *)
(* Fl_RGB_Image is given a pointer into the vector of pixels and keeps it. *)
(* A size is counted in pixels of four bytes.                              *)
(***************************************************************************)
EXTENDS Naturals

CONSTANTS Screens,   \* the sizes of screens
          Box,       \* the size of the widget
          MaxChains  \* a bound on the chains of timers

ASSUME PreviewAssumption ==
    /\ \A s \in Screens \cup {Box} : s[1] \in Nat \ {0} /\ s[2] \in Nat \ {0}
    /\ MaxChains \in Nat

VARIABLES
    screen,    \* the size of the screen
    exchanged, \* ... and has it ever changed?
    shows,     \* show_preview
    chains,    \* the timers that call previewImpl
    img_size,  \* the size the picture is scaled to
    pixel,     \* the vector: where its memory is, and for how many pixels
    img,       \* the Fl_RGB_Image: its memory and its size; None
    gray       \* was rgbaToGray the last to change the pixels?

previewVars == <<screen, exchanged, shows, chains, img_size, pixel, img, gray>>

None == [at |-> 2, size |-> <<0, 0>>]
Pixels(size) == size[1] * size[2]

\* previewOn: as large as the widget allows, with the screen's proportions.
Scaled(s) == IF Box[1] * s[2] <= Box[2] * s[1] THEN <<Box[1], (s[2] * Box[1]) \div s[1]>>
                                               ELSE <<(s[1] * Box[2]) \div s[2], Box[2]>>

\* resize: memory that is too small is replaced by other memory, perhaps by
\* what was freed the last time.
Resized(n) == IF n <= pixel.room THEN pixel ELSE [at |-> 1 - pixel.at, room |-> n]

-----------------------------------------------------------------------------
PreviewInit ==
    /\ screen \in Screens /\ exchanged = FALSE /\ shows = FALSE /\ chains = 0
    /\ img_size = <<0, 0>> /\ pixel = [at |-> 0, room |-> 0] /\ img = None /\ gray = FALSE

ExchangeScreen(s) ==
    /\ s # screen /\ screen' = s /\ exchanged' = TRUE
    /\ UNCHANGED <<shows, chains, img_size, pixel, img, gray>>

\* captureRgbaScaled, for a picture of a size; if it fails previewImpl resizes.
CaptureRgbaScaled(size) == pixel' = Resized(Pixels(size))

\* previewImpl: the image is made anew if there is none, or other memory.
IsStale_Never == img = None  \* slip: the array not compared
IsStale == img = None \/ img.at # pixel'.at

RgbaToGray == gray' = TRUE

PreviewImpl(size, isShown) ==
    /\ CaptureRgbaScaled(size)
    /\ IF isShown THEN gray' = FALSE ELSE RgbaToGray
    /\ img' = IF IsStale THEN [at |-> pixel'.at, size |-> size] ELSE img

\* previewOn calls it, and it calls itself as long as the preview is shown.
SwitchOn ==
    /\ ~shows /\ chains < MaxChains
    /\ shows' = TRUE /\ chains' = chains + 1 /\ img_size' = Scaled(screen)
    /\ PreviewImpl(img_size', TRUE)
    /\ UNCHANGED <<screen, exchanged>>

PreviewTick ==
    /\ chains > 0 /\ chains' = IF shows THEN chains ELSE chains - 1
    /\ PreviewImpl(img_size, shows)
    /\ UNCHANGED <<screen, exchanged, shows, img_size>>

\* previewOff, and whatever else is shown instead.
SwitchOff ==
    /\ shows /\ shows' = FALSE
    /\ UNCHANGED <<screen, exchanged, chains, img_size, pixel, img, gray>>

PreviewNext ==
    \/ \E s \in Screens : ExchangeScreen(s)
    \/ SwitchOn \/ PreviewTick \/ SwitchOff

PreviewSpec == PreviewInit /\ [][PreviewNext]_previewVars

-----------------------------------------------------------------------------
(***************************************************************************)
(* The window draws from memory that is there and large enough, whatever   *)
(* screens came and went.  A screen that stays is drawn in its size; after *)
(* another one of fewer pixels the image keeps its former size, and its    *)
(* rows are not those of the pixels.  A preview that has come to rest is   *)
(* gray, however many timers ran (previewImpl, captureRgbaScaled).         *)
(***************************************************************************)
PreviewFits ==
    /\ img # None => img.at = pixel.at /\ Pixels(img.size) <= pixel.room
    /\ img # None /\ ~exchanged => img.size = img_size
    /\ img # None /\ chains = 0 => gray
=============================================================================
