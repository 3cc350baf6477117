------------------------------- MODULE Logger -------------------------------
(***************************************************************************)
(* src/src/logger.cpp and logger.h: what becomes of a message.  The lock   *)
(* of Logger::log makes it one step.  A text is a sequence of words;       *)
(* vsnprintf is given no arguments, so messages have no % here.  Whoever   *)
(* calls setLogFile would get a file without colours; nobody does.         *)
(***************************************************************************)
EXTENDS Utils

CONSTANT MaxMessage  \* words that fit into the buffer of vsnprintf

ASSUME LoggerAssumption == MaxMessage \in Nat

-----------------------------------------------------------------------------
\* LogLevel, their names and their colours: ESC [ number m.
Levels == 1..4
LevelString == <<"DEBUG", "INFO", "WARNING", "ERROR">>
ESC == "\\033["
Colour == <<"36", "32", "33", "31">>

ColoredLevelString(level, useColor) ==
    IF useColor THEN <<ESC, Colour[level], "m", LevelString[level], ESC, "0", "m">>
    ELSE <<LevelString[level]>>

\* The bits of the mask.  LOG_FUNC shares those of LOG_TIME and LOG_LINE.
LOG_STIME == {1}
LOG_TIME  == {2}
LOG_LEVEL == {4}
LOG_LINE  == {8}
LOG_FUNC  == {8, 2}
LOG_ALL   == LOG_TIME \cup LOG_LEVEL \cup LOG_LINE \cup LOG_FUNC

\* The path of a source file without its directories.
FileName(path) ==
    LET slash == SelectLastInSeq(path, LAMBDA x : x = "/")
        back  == SelectLastInSeq(path, LAMBDA x : x = "\\")
    IN  SubSeq(path, (IF slash # 0 THEN slash ELSE back) + 1, Len(path))

\* What comes before the message.
Bracketed(s) == <<"[">> \o s \o <<"]">>
Fields(mask, level, useColor, path) ==
    (IF mask \cap LOG_TIME # {} THEN Bracketed(<<"date", "time">>)
     ELSE IF mask \cap LOG_STIME # {} THEN Bracketed(<<"time">>) ELSE <<>>) \o
    (IF mask \cap LOG_LEVEL # {} THEN Bracketed(ColoredLevelString(level, useColor)) ELSE <<>>) \o
    (IF mask \cap LOG_LINE # {} THEN Bracketed(FileName(path) \o <<"line">>) ELSE <<>>) \o
    (IF mask \cap LOG_FUNC # {} THEN Bracketed(<<"function">>) ELSE <<>>)

\* vsnprintf into a buffer.
Cut(message) == SubSeq(message, 1, IF Len(message) <= MaxMessage THEN Len(message) ELSE MaxMessage)

\* For the file colours are erased.  One that does not end is looked for again
\* and again.
Plain(s) ==
    LET from[i \in 1..(Len(s) + 1)] ==
          IF i > Len(s) THEN <<>>
          ELSE IF s[i] # ESC THEN <<s[i]>> \o from[i + 1]
          ELSE IF Find(s, "m", i) = 0 THEN <<"endless">> ELSE from[Find(s, "m", i) + 1]
    IN  from[1]

\* The logger, as it is made, and what changes it.
NewLogger == [level |-> 2, color |-> TRUE, mask |-> LOG_ALL, toFile |-> FALSE, out |-> {"cerr"}]
SetLogLevel(logger, level) == [logger EXCEPT !.level = level]
SetMask(logger, mask) == [logger EXCEPT !.mask = mask]
SetColor(logger, color) == [logger EXCEPT !.color = color]
SetOutStream(logger, out) == [logger EXCEPT !.out = out]
SetLogFile(logger, opens) == [logger EXCEPT !.toFile = opens]

\* Both mains set it up; GuiBuf writes to the terminal and into the window.
GuiBuf == {"cerr", "display"}
TerminalLogger(debug) == SetLogLevel(NewLogger, IF debug THEN 1 ELSE 2)
WindowLogger(debug) ==
    LET plain == SetMask(SetColor(NewLogger, FALSE), LOG_STIME)
    IN  SetOutStream(IF debug THEN SetMask(SetLogLevel(plain, 1), LOG_ALL) ELSE SetLogLevel(plain, 2),
                     GuiBuf)

\* Logger::log: the line, which goes to the stream and to the file.
Nothing == [line |-> <<>>, out |-> {}, file |-> <<>>]

Log(logger, level, path, message) ==
    LET line == Fields(logger.mask, level, logger.color, path) \o <<" ">> \o Cut(message)
    IN  IF level < logger.level THEN Nothing
        ELSE [line |-> line, out |-> logger.out, file |-> IF logger.toFile THEN Plain(line) ELSE <<>>]

\* LogStream: its parts are put together if they will be logged, and logged by
\* its destructor.
LogStream(logger, level, path, parts) ==
    Log(logger, level, path, IF level >= logger.level THEN FlattenSeq(parts) ELSE <<>>)
=============================================================================
