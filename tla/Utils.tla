-------------------------------- MODULE Utils -------------------------------
(***************************************************************************)
(* What src/src/utils.cpp and clearSlash of server.cpp do to text, and the *)
(* names src/src/ua.hpp finds in it.                                       *)
(*                                                                         *)
(* A text is a sequence of characters; where only some characters matter,  *)
(* a word that has none of them counts as one.                             *)
(***************************************************************************)
EXTENDS Naturals, Sequences, SequencesExt, FiniteSetsExt

-----------------------------------------------------------------------------
\* string::find: the first c at i or behind it; 0 if there is none.
Find(s, c, i) == SelectInSubSeq(s, i, Len(s), LAMBDA x : x = c)

\* bisect: before and after the first c.
Bisect(s, c) ==
    LET i == SelectInSeq(s, LAMBDA x : x = c)
    IN  IF i = 0 THEN <<s, <<>>>> ELSE <<SubSeq(s, 1, i - 1), SubSeq(s, i + 1, Len(s))>>

\* split, with n = 0: from each i to the next c, or to the end; a c at the end
\* is followed by one more part.
EndOfPart(s, c, i) ==
    IF Find(s, c, i) = 0 THEN Len(s) + 1 ELSE Find(s, c, i)

Split_NoLast(s, c) ==  \* slip: the part behind a c at the end forgotten
    LET from[i \in 1..(Len(s) + 2)] ==
          IF i > Len(s) THEN <<>>
          ELSE LET j == EndOfPart(s, c, i) IN <<SubSeq(s, i, j - 1)>> \o from[j + 1]
    IN  from[1]

Split(s, c) ==
    LET from[i \in 1..(Len(s) + 2)] ==
          IF i > Len(s) THEN <<>>
          ELSE LET j == EndOfPart(s, c, i)
               IN  <<SubSeq(s, i, j - 1)>> \o
                   (IF j = Len(s) THEN <<<<>>>> ELSE from[j + 1])
    IN  from[1]

\* trim.
Blank == " "
Trim(s) ==
    LET solid == {i \in DOMAIN s : s[i] # Blank}
    IN  IF solid = {} THEN <<>> ELSE SubSeq(s, Min(solid), Max(solid))

\* The parameters of parseHttpRequest: parts that are empty are left out, the
\* last of a name stays.
Params(query) ==
    LET pairs == [i \in DOMAIN Split(query, "&") |->
                    LET kv == Bisect(Split(query, "&")[i], "=") IN <<Trim(kv[1]), Trim(kv[2])>>]
        named == {i \in DOMAIN pairs : Split(query, "&")[i] # <<>>}
    IN  [key \in {pairs[i][1] : i \in named} |->
            pairs[Max({i \in named : pairs[i][1] = key})][2]]

\* clearSlash.
ClearSlash(url) ==
    LET clear == FoldLeft(LAMBDA res, ch :
                            IF res # <<>> /\ Last(res) = "/" /\ ch = "/" THEN res
                            ELSE Append(res, ch), <<>>, url)
    IN  IF Len(clear) > 1 /\ Last(clear) = "/" THEN Front(clear) ELSE clear

\* getMimeType.
MimeTypes == [html |-> "text/html", htm |-> "text/html", css |-> "text/css", txt |-> "text/plain",
              js |-> "application/javascript", json |-> "application/json",
              icon |-> "image/x-icon", ico |-> "image/x-icon", png |-> "image/png",
              jpg |-> "image/jpeg", jpeg |-> "image/jpeg", gif |-> "image/gif",
              svg |-> "image/svg+xml", pdf |-> "application/pdf"]

MimeType(path) ==
    LET dot == SelectLastInSeq(path, LAMBDA x : x = ".")
    IN  IF dot = 0 THEN "text/html"
        ELSE IF dot + 1 = Len(path) /\ path[Len(path)] \in DOMAIN MimeTypes
             THEN MimeTypes[path[Len(path)]]
        ELSE "application/octet-stream"

\* The elements that pass a test, in their order.
Selected(s, Test(_)) == FlattenSeq([i \in DOMAIN s |-> IF Test(s[i]) THEN <<s[i]>> ELSE <<>>])

\* getIpAddress, and on_start, which shows those that are not the machine's own,
\* or that one.
GetIpAddress(interfaces) == Selected(interfaces, LAMBDA itf : itf.family = "AF_INET")
Loopback == "127.0.0.1"
Addrs(interfaces) ==
    LET shown == Selected(GetIpAddress(interfaces), LAMBDA itf : itf.ip # Loopback)
    IN  IF shown = <<>> THEN <<Loopback>> ELSE [i \in DOMAIN shown |-> shown[i].ip]

\* listClients: a JSON array of the keys.
ListClients(keys) ==
    LET ss[i \in 0..Len(keys)] ==
          IF i = 0 THEN <<"[">>
          ELSE (IF i = 1 THEN ss[i - 1] ELSE ss[i - 1] \o <<",">>) \o <<"\"", keys[i], "\"">>
    IN  ss[Len(keys)] \o <<"]">>

-----------------------------------------------------------------------------
\* renderTemplate.  findPlaceholder: the first {{ at or behind k whose next }
\* is followed by another one; the search goes on behind what was not.
Opens(tpl, i) == i < Len(tpl) /\ tpl[i] = "{" /\ tpl[i + 1] = "{"

Placeholder(tpl, k) ==
    LET find[i \in 1..(Len(tpl) + 3)] ==
          LET open  == Find([n \in DOMAIN tpl |-> Opens(tpl, n)], TRUE, i)
              brace == Find(tpl, "}", open + 2)
          IN  IF i > Len(tpl) \/ open = 0 \/ brace = 0 THEN <<0, 0>>
              ELSE IF brace < Len(tpl) /\ tpl[brace + 1] = "}" THEN <<open, brace + 1>>
              ELSE find[brace + 2]
    IN  find[k]

\* What is not known stays as it is.
Rendered(tpl, values) ==
    LET from[k \in 1..(Len(tpl) + 1)] ==
          LET ij  == Placeholder(tpl, k)
              key == SubSeq(tpl, ij[1] + 2, ij[2] - 2)
          IN  IF ij[2] = 0 THEN SubSeq(tpl, k, Len(tpl))
              ELSE (IF key \in DOMAIN values
                    THEN SubSeq(tpl, k, ij[1] - 1) \o values[key]
                    ELSE SubSeq(tpl, k, ij[2])) \o from[ij[2] + 1]
    IN  from[1]

-----------------------------------------------------------------------------
\* BrowserInfo and OsInfo: the first rule that fits.
BrowserRules == <<<<"Edg", "Edge">>, <<"OPR", "Opera">>, <<"Firefox", "Firefox">>,
                  <<"Chrome", "Chrome">>, <<"Safari", "Safari">>>>
OsRules == <<<<"Windows", "Windows">>, <<"CPU_OS_number", "iOS">>,
             <<"Mac_OS_X_number", "macOS">>, <<"Android", "Android">>, <<"Linux", "Linux">>>>

NameBy(rules, tokens) ==
    LET i == SelectInSeq(rules, LAMBDA rule : rule[1] \in tokens)
    IN  IF i = 0 THEN "" ELSE rules[i][2]
=============================================================================
