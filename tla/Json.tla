-------------------------------- MODULE Json --------------------------------
(***************************************************************************)
(* The JSON that the program writes and reads by hand: ChatMessage::toJson *)
(* and fromJson (src/chat/message.cpp) and the helpers behind HELLO        *)
(* (src/chat/chat_session.cpp).                                            *)
(*                                                                         *)
(* A text is a sequence of characters, and a character a string: Quote,    *)
(* Escape (the backslash), "newline", the letter "n" that stands for it    *)
(* after a backslash, "control" for one below 0x20 that has no letter, and *)
(* others.  A key, a number and "u0001" each count as one character.       *)
(***************************************************************************)
EXTENDS Integers, Sequences, SequencesExt

Quote == "quote"
Escape == "backslash"

\* A message that fromJson refuses, or a text that is not there.
None == "none"

\* escapeJson, for one character.
EscapeOf(c) ==
  CASE c = Quote     -> <<Escape, Quote>>
    [] c = Escape    -> <<Escape, Escape>>
    [] c = "newline" -> <<Escape, "n">>
    [] OTHER         -> <<c>>

\* jsonEscape also writes \u00xx.
HelloEscapeOf(c) == IF c = "control" THEN <<Escape, "u0001">> ELSE EscapeOf(c)

\* What a backslash and c stand for: \u is not known.
Unescaped(c) == IF c = "n" THEN "newline" ELSE c

\* A backslash at the very end stands for itself.
Escapes(s, i) == s[i] = Escape /\ i < Len(s)

\* What s says from each position up to one of the ends.
Reading(s, ends) ==
  LET From[i \in 1 .. Len(s) + 2] ==
        IF i > Len(s) THEN <<>>
        ELSE CASE Escapes(s, i) -> <<Unescaped(s[i + 1])>> \o From[i + 2]
               [] ~Escapes(s, i) /\ s[i] \in ends -> <<>>
               [] OTHER -> <<s[i]>> \o From[i + 1]
  IN  From

UnescapeJson(s) == Reading(s, {})[1]

\* The position after the first place where json has s, or 0.
After(json, s) ==
  LET At == {i \in 1 .. Len(json) - Len(s) + 1 : SubSeq(json, i, i + Len(s) - 1) = s}
  IN  IF At = {} THEN 0 ELSE Min(At) + Len(s)

KeyIs(key) == <<Quote, key, Quote, ":">>

\* A key and its value: a number, or a text in quotes.
Number(key, digits) == KeyIs(key) \o <<digits>>
Quoted(key, escaped) == KeyIs(key) \o <<Quote>> \o escaped \o <<Quote>>

Object(members) ==
  FlattenSeq([i \in DOMAIN members |-> <<IF i = 1 THEN "{" ELSE ",">> \o members[i]])
    \o <<"}">>

-----------------------------------------------------------------------------
(* ChatMessage.                                                            *)

Member(key, value) ==
  Quoted(key, FlattenSeq([i \in DOMAIN value |-> EscapeOf(value[i])]))

ToJson(m) ==
  Object(<<Member("msgId", m.msgId), Member("senderId", m.senderId),
           Member("senderName", m.senderName), Number("timestampUtc", m.timestampUtc),
           Member("text", m.text)>>)

\* Mutant of EndsValue: every quote ends the value.
AnyQuote(json, i) == json[i] = Quote

\* The quote that ends a value is the first one without a backslash before it.
EndsValue(json, i) == json[i] = Quote /\ json[i - 1] # Escape

ExtractJsonString(json, key) ==
  LET pos == After(json, KeyIs(key) \o <<Quote>>)
      ends == {i \in pos .. Len(json) : EndsValue(json, i)} \cup {Len(json) + 1}
  IN  IF pos = 0 THEN <<>> ELSE UnescapeJson(SubSeq(json, pos, Min(ends) - 1))

\* A number is one character here; the value is 0 when the key is missing.
ExtractJsonInt(json, key) ==
  LET pos == After(json, KeyIs(key)) IN IF pos = 0 THEN "0" ELSE json[pos]

FromJson(json) ==
  LET m == [msgId        |-> ExtractJsonString(json, "msgId"),
            senderId     |-> ExtractJsonString(json, "senderId"),
            senderName   |-> ExtractJsonString(json, "senderName"),
            text         |-> ExtractJsonString(json, "text"),
            timestampUtc |-> ExtractJsonInt(json, "timestampUtc")]
  IN  IF m.msgId = <<>> \/ m.senderId = <<>> THEN None ELSE m

-----------------------------------------------------------------------------
(* HELLO.                                                                  *)

JsonStr(key, value) ==
  Quoted(key, FlattenSeq([i \in DOMAIN value |-> HelloEscapeOf(value[i])]))

\* What sendHello writes.
HelloJson(deviceId, displayName) ==
  Object(<<JsonStr("device_id", deviceId), JsonStr("display_name", displayName),
           JsonStr("platform", <<"linux">>), Number("tcp_port", "5050")>>)

\* extractStr reads and unescapes in one go.
ExtractStr(json, key) ==
  LET pos == After(json, KeyIs(key) \o <<Quote>>)
  IN  IF pos = 0 THEN <<>> ELSE Reading(json, {Quote})[pos]

-----------------------------------------------------------------------------
(* What to expect.                                                         *)

\* A text that ends in a backslash comes back with its closing quote and the
\* character after it; every other one as it was.
Survives(s, separator) ==
  IF s # <<>> /\ s[Len(s)] = Escape THEN s \o <<Quote, separator>> ELSE s

Surviving(m) ==
  [msgId |-> Survives(m.msgId, ","), senderId |-> Survives(m.senderId, ","),
   senderName |-> Survives(m.senderName, ","), text |-> Survives(m.text, "}"),
   timestampUtc |-> m.timestampUtc]

\* A control character comes back as the text of its escape.
HelloSurviving(s) == [i \in DOMAIN s |-> IF s[i] = "control" THEN "u0001" ELSE s[i]]

=============================================================================
