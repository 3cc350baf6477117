------------------------------ MODULE WsFrame ------------------------------
(***************************************************************************)
(* WebSocket frames as src/src/websocket.cpp packs them for browsers and   *)
(* parses those of browsers, byte by byte.                                 *)
(*                                                                         *)
(* A frame is its header and its payload.  Packing is a matter of the      *)
(* header and of the payload's length.  For parsing the payload's bytes    *)
(* matter, since a browser masks them: they are 0 or 1 here, and so are    *)
(* the bytes of masks, which makes exclusive or a sum.  `char' is signed.  *)
(***************************************************************************)
EXTENDS Integers, Sequences

CONSTANTS Lengths,    \* lengths of payloads
          MaxParsed,  \* a bound on those that are parsed
          Masks       \* masks of browsers, of four bytes

ASSUME FrameAssumption ==
    Lengths \subseteq Nat /\ MaxParsed \in Nat /\ Masks \subseteq [1..4 -> {0, 1}]

VARIABLE frame  \* the frame packed or parsed last, and what came of it

Opcode == [NIL |-> 0, TEXT |-> 1, BINARY |-> 2, CLOSE |-> 8, PING |-> 9, PONG |-> 10]
Received == {"TEXT", "BINARY", "CLOSE", "PING", "PONG"}

NoFrame == [op |-> "none"]

-----------------------------------------------------------------------------
\* An unsigned number as n bytes, the most significant first (htons, htonll).
BigEndian(x, n) ==
    LET rest[k \in 0..n] == IF k = 0 THEN x ELSE rest[k - 1] \div 256
    IN  [i \in 1..n |-> rest[n - i] % 256]

\* pack_frame: the header for a payload of that length.
MaxShort_Next == 126  \* slip: one too many
MaxShort == 125
MaxMiddle == 65535

Header(type, len) ==
    <<128 + Opcode[type]>> \o
    (IF len <= MaxShort THEN <<len>>
     ELSE IF len <= MaxMiddle THEN <<126>> \o BigEndian(len, 2)
     ELSE <<127>> \o BigEndian(len, 8))

\* pack_close_frame: a code and a reason that is cut.
MaxReason == 123
CloseLength(reason) == 2 + (IF reason <= MaxReason THEN reason ELSE MaxReason)

\* sendWsClose sends it, and pages its answers and pictures.
Pack(type, len) ==
    frame' = [op |-> "pack", type |-> type, len |-> len, header |-> Header(type, len)]

PackClose(reason) ==
    frame' = [op |-> "pack", type |-> "CLOSE", len |-> CloseLength(reason),
              header |-> Header("CLOSE", CloseLength(reason))]

-----------------------------------------------------------------------------
\* unpack_ws_header: the type ...
TypeOf(b) ==
    LET known == {t \in Received : Opcode[t] = b % 16}
    IN  IF b % 16 = 0 THEN "CONTINUATION"
        ELSE IF known # {} THEN CHOOSE t \in known : TRUE
        ELSE "UNKNOWN"

\* ... and the length, of which a byte of 128 or more is negative: as the upper
\* byte it is extended to 16 bits, as the lower one it overrides the upper one.
Signed(b) == IF b >= 128 THEN b - 256 ELSE b
MiddleLength(hi, lo) ==
    IF Signed(lo) < 0 THEN Signed(lo) ELSE (Signed(hi) % 65536) * 256 + lo

\* An opcode that is not known, a length of eight bytes, and a masked frame of
\* which bytes are missing are not frames.  A frame without a mask is taken
\* as complete.
HasAll_Header(nread, masked, header, len) == ~masked \/ nread >= header  \* slip: the payload forgotten
HasAll(nread, masked, header, len) == ~masked \/ nread >= header + len

Unpacked(data) ==
    LET nread  == Len(data)
        field  == data[2] % 128
        masked == data[2] >= 128
        len    == IF field = 126 THEN MiddleLength(data[3], data[4]) ELSE field
        header == 2 + (IF field = 126 THEN 2 ELSE 0) + (IF masked THEN 4 ELSE 0)
    IN  IF \/ nread < 2
           \/ TypeOf(data[1]) = "UNKNOWN"
           \/ field = 127
           \/ field = 126 /\ nread < 4
           \/ ~HasAll(nread, masked, header, len)
        THEN [type |-> "UNKNOWN"]
        ELSE [type |-> TypeOf(data[1]), masked |-> masked, header |-> header, len |-> len]

\* parse_frame: the payload lies behind the header and is unmasked with the
\* four bytes behind the second.
MaskByte(i) == 3 + ((i - 1) % 4)

Unmasked(data, header, len) ==
    [i \in 1..len |-> (data[header + i] + data[MaskByte(i)]) % 2]

\* What a negative length or missing bytes lead to is not data: std::string
\* throws, or reads what follows the buffer.
Parsed(data) ==
    LET u == Unpacked(data)
    IN  IF u.type = "UNKNOWN" THEN [type |-> "UNKNOWN", payload |-> <<>>]
        ELSE IF u.len < 0 THEN [type |-> "throws", payload |-> <<>>]
        ELSE IF Len(data) < u.header + u.len THEN [type |-> "overrun", payload |-> <<>>]
        ELSE [type |-> u.type,
              payload |-> IF u.masked THEN Unmasked(data, u.header, u.len)
                          ELSE SubSeq(data, u.header + 1, u.header + u.len)]

-----------------------------------------------------------------------------
(***************************************************************************)
(* RFC 6455, section 5.2: what a header means, and the frame that a browser*)
(* makes of a payload.                                                     *)
(***************************************************************************)
Value(bytes) ==
    LET upTo[i \in 0..Len(bytes)] == IF i = 0 THEN 0 ELSE upTo[i - 1] * 256 + bytes[i]
    IN  upTo[Len(bytes)]

Meaning(h) ==
    LET field == h[2] % 128
    IN  [final |-> h[1] \div 128 = 1, opcode |-> h[1] % 128, masked |-> h[2] >= 128,
         len |-> IF field <= 125 THEN field ELSE Value(SubSeq(h, 3, Len(h))),
         size |-> IF field <= 125 THEN 2 ELSE IF field = 126 THEN 4 ELSE 10]

\* A payload with no period of four, of the length asked for.
Payload(len) == [i \in 1..len |-> IF i % 3 = 0 THEN 1 ELSE 0]

BrowserFrame(type, len, mask) ==
    <<128 + Opcode[type]>> \o
    (IF len <= 125 THEN <<128 + len>> ELSE <<254>> \o BigEndian(len, 2)) \o
    mask \o [i \in 1..len |-> (Payload(len)[i] + mask[1 + ((i - 1) % 4)]) % 2]

\* Of a browser's frame `came' bytes have come, and `more' bytes of the next.
Parse(type, len, mask, came, more) ==
    LET sent == BrowserFrame(type, len, mask)
        data == SubSeq(sent, 1, came) \o [i \in 1..more |-> 129]
    IN  frame' = [op |-> "parse", type |-> type, len |-> len, whole |-> came = Len(sent),
                  got |-> Parsed(data)]

-----------------------------------------------------------------------------
FrameInit == frame = NoFrame

ParseAny ==
    \E type \in Received, len \in {n \in Lengths : n <= MaxParsed}, mask \in Masks :
        LET size == Len(BrowserFrame(type, len, mask))
        IN  \E came \in {n \in 0..size : n <= 9 \/ n >= size - 1}, more \in 0..1 :
                (more = 0 \/ came = size) /\ Parse(type, len, mask, came, more)

FrameNext ==
    /\ frame = NoFrame
    /\ \/ \E type \in {"TEXT", "BINARY", "PONG"}, len \in Lengths : Pack(type, len)
       \/ \E reason \in Lengths : PackClose(reason)
       \/ ParseAny

FrameSpec == FrameInit /\ [][FrameNext]_frame

-----------------------------------------------------------------------------
(***************************************************************************)
(* A browser understands every frame the server packs: it is final and not *)
(* masked, its length is the payload's and its header ends where the       *)
(* payload begins; a control frame has at most 125 bytes, whatever the     *)
(* reason of a close (pack_frame, pack_close_frame).                       *)
(***************************************************************************)
FramesDecode ==
    frame.op = "pack" =>
        /\ Meaning(frame.header) = [final |-> TRUE, opcode |-> Opcode[frame.type],
                                    masked |-> FALSE, len |-> frame.len,
                                    size |-> Len(frame.header)]
        /\ frame.type = "CLOSE" => frame.len <= 125

(***************************************************************************)
(* The server understands a browser's frame of at most 125 bytes when all  *)
(* of it has come, whatever comes behind it, and nothing of it before:     *)
(* it never takes part of a frame for a frame, and unmasks it as it was    *)
(* masked (unpack_ws_header, parse_frame).                                 *)
(***************************************************************************)
ShortFramesRead ==
    frame.op = "parse" /\ frame.len <= 125 =>
        frame.got = IF frame.whole
                    THEN [type |-> frame.type, payload |-> Payload(frame.len)]
                    ELSE [type |-> "UNKNOWN", payload |-> <<>>]

\* Frames are understood on both sides.
FramesUnderstood == FramesDecode /\ ShortFramesRead
=============================================================================
