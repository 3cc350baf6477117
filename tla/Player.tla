------------------------------- MODULE Player ------------------------------
(***************************************************************************)
(* The player of src/src/assets/player.js: its sockets, its keepalive      *)
(* intervals and its button.                                               *)
(*                                                                         *)
(* The handlers of a socket outlive it, and all of them use this.ws and    *)
(* this.ws_keepalive, which belong to the socket made last.  A script is   *)
(* one thread: a handler is an action.  The browser and the server are     *)
(* external: a socket opens, fails or is closed at any time, and the       *)
(* encoder may be changed at any time.                                     *)
(***************************************************************************)
EXTENDS Naturals

CONSTANT MaxPlays  \* a bound on the sockets made

ASSUME PlayerAssumption == MaxPlays \in Nat \ {0}

VARIABLES
    sock,        \* each socket: "none", "connecting", "open", "closing", "closed"
    cur,         \* this.ws
    isPlaying,
    running,     \* the intervals that run, named after their sockets
    ws_keepalive,  \* the interval that will be cleared; 0 is null
    pauseBtn,    \* what the button offers: "play" or "pause"
    ish264,      \* the decoder in use
    binaryType,  \* of each socket: "blob" or "arraybuffer"
    picture,     \* the encoder of the last picture and the decoder that got it
    overlapped   \* has a socket been made while another was not closed yet?

playerVars == <<sock, cur, isPlaying, running, ws_keepalive, pauseBtn, ish264, binaryType,
                picture, overlapped>>

Plays == 1..MaxPlays
Decoders == {"jpeg", "h264", "none"}

PlayerTypeOK ==
    /\ sock \in [Plays -> {"none", "connecting", "open", "closing", "closed"}]
    /\ cur \in 0..MaxPlays /\ ws_keepalive \in 0..MaxPlays /\ running \subseteq Plays
    /\ isPlaying \in BOOLEAN /\ ish264 \in BOOLEAN /\ overlapped \in BOOLEAN
    /\ pauseBtn \in {"play", "pause"}
    /\ binaryType \in [Plays -> {"blob", "arraybuffer"}]
    /\ picture \in Decoders \X Decoders

PlayerInit ==
    /\ sock = [i \in Plays |-> "none"] /\ cur = 0
    /\ isPlaying = FALSE /\ running = {} /\ ws_keepalive = 0 /\ pauseBtn = "pause"
    /\ ish264 = FALSE /\ binaryType = [i \in Plays |-> "blob"]
    /\ picture = <<"none", "none">> /\ overlapped = FALSE

-----------------------------------------------------------------------------
\* play: a new socket, whatever the former one does.
Unclosed == \E i \in Plays : sock[i] \in {"connecting", "open", "closing"}

SetupWs(i) ==
    /\ sock[i] = "none" /\ \A j \in 1..(i - 1) : sock[j] # "none"
    /\ sock' = [sock EXCEPT ![i] = "connecting"] /\ cur' = i
    /\ overlapped' = (overlapped \/ Unclosed)

\* The page plays when it is loaded, and when its picture is clicked.
PlayByPicture(i) ==
    /\ ~isPlaying /\ SetupWs(i)
    /\ UNCHANGED <<isPlaying, running, ws_keepalive, pauseBtn, ish264, binaryType, picture>>

PlayByButton(i) ==
    /\ cur # 0 /\ ~isPlaying /\ SetupWs(i)
    /\ pauseBtn' = "pause"
    /\ UNCHANGED <<isPlaying, running, ws_keepalive, ish264, binaryType, picture>>

\* onopen: the interval of a former socket is not looked at.
OnOpen(i) ==
    /\ sock[i] = "connecting"
    /\ sock' = [sock EXCEPT ![i] = "open"]
    /\ isPlaying' = TRUE /\ pauseBtn' = "pause"
    /\ running' = running \cup {i} /\ ws_keepalive' = i
    /\ UNCHANGED <<cur, ish264, binaryType, picture, overlapped>>

\* nextFrame: is a PING sent?
NextFrame == isPlaying /\ sock[cur] = "open"

\* An interval fires.  The one it clears is the one started last.
Keepalive(i) ==
    /\ i \in running
    /\ IF NextFrame THEN UNCHANGED <<running, ws_keepalive>>
       ELSE running' = running \ {ws_keepalive} /\ ws_keepalive' = 0
    /\ UNCHANGED <<sock, cur, isPlaying, pauseBtn, ish264, binaryType, picture, overlapped>>

\* stop, by which a player that stands still is stopped as well.
Offers == "play"

StopPlaying == isPlaying' = FALSE /\ pauseBtn' = Offers

\* pause: close does nothing to a socket that is closed.
ClosesFirst_Not(state) == state  \* slip: only the player is stopped
ClosesFirst(state) == IF state \in {"connecting", "open"} THEN "closing" ELSE state

Pause ==
    /\ isPlaying
    /\ sock' = [sock EXCEPT ![cur] = ClosesFirst(sock[cur])]
    /\ StopPlaying
    /\ UNCHANGED <<cur, running, ws_keepalive, ish264, binaryType, picture, overlapped>>

\* onerror and onclose of any socket stop the player.
OnClose(i) ==
    /\ sock[i] \in {"connecting", "open", "closing"}
    /\ sock' = [sock EXCEPT ![i] = "closed"]
    /\ StopPlaying
    /\ UNCHANGED <<cur, running, ws_keepalive, ish264, binaryType, picture, overlapped>>

-----------------------------------------------------------------------------
\* onmessage, first the text that tells the encoder: a decoder is changed, and
\* with it the type in which this.ws delivers.
TypesAfter(h264) ==
    IF ish264 = h264 THEN binaryType
    ELSE [binaryType EXCEPT ![cur] = IF h264 THEN "arraybuffer" ELSE "blob"]

\* Then the picture: an ArrayBuffer is for one decoder, a Blob for either, but
\* only while the player plays.
DecoderFor_Blob(type, h264) == IF type = "blob" THEN "jpeg" ELSE "h264"  \* slip: told by the type
DecoderFor(type, h264) ==
    IF type = "arraybuffer" THEN (IF h264 THEN "h264" ELSE "none")
    ELSE IF ~isPlaying THEN "none" ELSE IF h264 THEN "h264" ELSE "jpeg"

OnMessage(i, h264) ==
    /\ sock[i] = "open"
    /\ ish264' = h264
    /\ binaryType' = TypesAfter(h264)
    /\ picture' = <<IF h264 THEN "h264" ELSE "jpeg", DecoderFor(TypesAfter(h264)[i], h264)>>
    /\ UNCHANGED <<sock, cur, isPlaying, running, ws_keepalive, pauseBtn, overlapped>>

PlayerNext ==
    \/ \E i \in Plays : \/ PlayByPicture(i) \/ PlayByButton(i) \/ OnOpen(i) \/ Keepalive(i)
                        \/ OnClose(i) \/ \E h264 \in BOOLEAN : OnMessage(i, h264)
    \/ Pause

PlayerSpec == PlayerInit /\ [][PlayerNext]_playerVars

-----------------------------------------------------------------------------
\* A player that plays is kept alive: some interval goes on sending PING on its
\* socket, although intervals clear each other's handle.
KeptAlive == isPlaying /\ sock[cur] = "open" => running # {}

\* A socket over which pictures come is one the player plays, so that it can be
\* paused, and at rest the button offers what can be done.
PlaysWhileOpen == \A i \in Plays : sock[i] = "open" => isPlaying /\ i = cur
ButtonAgrees == cur # 0 /\ sock[cur] # "connecting" => (pauseBtn = "pause" <=> isPlaying)

(***************************************************************************)
(* The player, its button and its sockets agree: what plays is kept alive  *)
(* and can be paused, what does not play can be played (play, pause,       *)
(* onopen, onclose).  Only the first holds when a socket was made while    *)
(* another lived: the end of the former stops the player of the latter.    *)
(***************************************************************************)
PlayerAgrees == KeptAlive /\ (~overlapped => PlaysWhileOpen /\ ButtonAgrees)

(***************************************************************************)
(* Every picture reaches the decoder for its encoding, when the encoder is *)
(* changed and when a new socket starts with the type of none (onmessage). *)
(***************************************************************************)
PicturesDecoded == ~overlapped => picture[1] = picture[2]
=============================================================================
