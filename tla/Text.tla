-------------------------------- MODULE Text --------------------------------
(***************************************************************************)
(* Utils and Logger next to what they are for: parameters come back out of *)
(* the query they were put into, a template shows its values, a path leads *)
(* to its page however it is spelled, a browser is not taken for those     *)
(* whose names it also bears, the window shows where the server is found,  *)
(* players are told each other, and a line of the log has its message.     *)
(***************************************************************************)
EXTENDS Utils, Logger

CONSTANTS Words,   \* words: texts without separators
          MaxText  \* a bound on the parts a text is composed of

ASSUME TextAssumption == MaxText \in Nat /\ Words \cap {"/", "&", "=", Blank} = {}

VARIABLE text  \* what the program makes of a text, and what it is meant to

\* The names that browsers and systems bear, of themselves and of others.
UserAgents == [Edge |-> {"Edg", "Chrome", "Safari"}, Opera |-> {"OPR", "Chrome", "Safari"},
               Firefox |-> {"Firefox"}, Chrome |-> {"Chrome", "Safari"}, Safari |-> {"Safari"}]
Systems == [Windows |-> {"Windows"}, macOS |-> {"Mac_OS_X_number"}, iOS |-> {"CPU_OS_number", "Mac_OS_X"},
            Android |-> {"Linux", "Android"}, Linux |-> {"Linux"}]

-----------------------------------------------------------------------------
\* Texts as they are meant, and what becomes of them.
Made(op, got, meant) == text' = [op |-> op, got |-> got, meant |-> meant]

Upto(S, n) == UNION {[1..k -> S] : k \in 0..n}
Joined(parts, c) == FlattenSeq([i \in DOMAIN parts |-> c \o parts[i]])

\* Parts with separators between them.
SplitParts ==
    \E parts \in Upto({<<>>, <<"x">>}, MaxText) \ {<<>>, <<<<>>>>} :
        Made("split", Split(Tail(Joined(parts, <<"&">>)), "&"), parts)

\* A query, with blanks or without, and perhaps with a separator too many.
SplitQuery ==
    \E pairs \in Upto({<<w>> : w \in Words} \X {<<>>, <<"x">>, <<"x", "=", "x">>}, MaxText),
       blank \in {<<>>, <<Blank>>}, more \in {<<>>, <<<<>>>>} :
        LET fields == [i \in DOMAIN pairs |-> blank \o pairs[i][1] \o <<"=">> \o pairs[i][2] \o blank]
            named(i) == pairs[i][1]
            lastOf(key) == Max({i \in DOMAIN pairs : named(i) = key})
        IN  pairs # <<>> /\
            Made("query", Params(Tail(Joined(fields \o more, <<"&">>))),
                 [key \in {named(i) : i \in DOMAIN pairs} |-> pairs[lastOf(key)][2]])

\* A path, with slashes too many: a word stands between two slashes at even places.
ClearPath ==
    \E words \in Upto(Words, MaxText), more \in 0..1 :
        LET path  == IF words = <<>> THEN <<"/">>
                     ELSE [i \in 1..(2 * Len(words)) |-> IF i % 2 = 0 THEN words[i \div 2] ELSE "/"]
            whole == IF words = <<>> \/ more = 0 THEN path ELSE Append(path, "/")
        IN  \E times \in [DOMAIN whole -> 1..2] :
              /\ \A i \in DOMAIN whole : times[i] > 1 => whole[i] = "/"
              /\ Made("path", ClearSlash(FlattenSeq([i \in DOMAIN whole |->
                                                      [k \in 1..times[i] |-> whole[i]]])), path)

\* A template with braces of its own, such as those of a style sheet.
RenderParts ==
    \E parts \in Upto({<<"x">>, <<"{", "x">>, <<"x", "}">>, <<"{", "{", "k", "}", "}">>,
                       <<"{", "{", "u", "}", "}">>}, MaxText) :
        Made("template", Rendered(FlattenSeq(parts), [key \in {<<"k">>} |-> <<"v">>]),
             FlattenSeq([i \in DOMAIN parts |->
                           IF parts[i] = <<"{", "{", "k", "}", "}">> THEN <<"v">> ELSE parts[i]]))

\* A browser on a system.
NameBrowser ==
    \E browser \in DOMAIN UserAgents, system \in DOMAIN Systems :
        LET tokens == UserAgents[browser] \cup Systems[system]
        IN  Made("browser", <<NameBy(BrowserRules, tokens), NameBy(OsRules, tokens)>>,
                 <<browser, system>>)

\* The addresses of a machine, and the clients that are told each other.
ShowAddresses ==
    \E interfaces \in Upto([family : {"AF_INET", "AF_INET6"}, ip : {Loopback, "lan", "vpn"}], MaxText) :
        LET reached == {interfaces[i].ip : i \in {k \in DOMAIN interfaces :
                            interfaces[k].family = "AF_INET" /\ interfaces[k].ip # Loopback}}
        IN  Made("addresses", ToSet(Addrs(interfaces)), IF reached = {} THEN {Loopback} ELSE reached)

ShowClients ==
    \E keys \in Upto(Words, MaxText) :
        LET quoted == Joined([i \in DOMAIN keys |-> <<"\"", keys[i], "\"">>], <<",">>)
        IN  Made("clients", ListClients(keys), <<"[">> \o SubSeq(quoted, 2, Len(quoted)) \o <<"]">>)

\* A line of the log of the program with the window or without, perhaps with a
\* file.  A message that is cut has no colours of its own.
WriteLog ==
    \E window \in BOOLEAN, debug \in BOOLEAN, toFile \in BOOLEAN, level \in Levels,
       dir \in {<<>>, <<"dir", "/", "m", "/">>, <<"dir", "\\">>},
       parts \in Upto({<<"x">>, <<"m">>, <<ESC, "1", "m">>}, MaxText) :
        LET logger  == SetLogFile(IF window THEN WindowLogger(debug) ELSE TerminalLogger(debug), toFile)
            message == FlattenSeq(parts)
            kept    == FlattenSeq([i \in DOMAIN parts |->
                                     IF parts[i][1] = ESC THEN <<>> ELSE parts[i]])
            before(levelText) ==
                IF window /\ ~debug THEN <<"[", "time", "]", " ">>
                ELSE <<"[", "date", "time", "]", "[">> \o levelText \o
                     <<"]", "[", "file", "line", "]", "[", "function", "]", " ">>
        IN  /\ Len(message) <= MaxMessage \/ \A i \in DOMAIN parts : parts[i][1] # ESC
            /\ Made("log", LogStream(logger, level, dir \o <<"file">>, parts),
                    IF level = 1 /\ ~debug THEN Nothing
                    ELSE [line |-> before(ColoredLevelString(level, ~window)) \o Cut(message),
                          out  |-> IF window THEN {"cerr", "display"} ELSE {"cerr"},
                          file |-> IF toFile THEN before(<<LevelString[level]>>) \o
                                                  Cut(kept) ELSE <<>>])

NoText == [op |-> "none", got |-> <<>>, meant |-> <<>>]
TextInit == text = NoText
TextNext ==
    /\ text = NoText
    /\ SplitParts \/ SplitQuery \/ ClearPath \/ RenderParts \/ NameBrowser \/ ShowAddresses
       \/ ShowClients \/ WriteLog
TextSpec == TextInit /\ [][TextNext]_text

-----------------------------------------------------------------------------
(***************************************************************************)
(* What was put in comes out: the parts and the parameters of a query, the *)
(* last of a name; a path without its superfluous slashes; a template with *)
(* the values that are known, its other braces untouched; the browser and  *)
(* the system and none whose name it also bears; the addresses others can  *)
(* reach; the array of all clients; a message with its level, its file and,*)
(* in a file, none of the colours (bisect, split, trim, clearSlash,        *)
(* renderTemplate, BrowserInfo, OsInfo, on_start, listClients, log).       *)
(***************************************************************************)
TextRight == text.got = text.meant
=============================================================================
