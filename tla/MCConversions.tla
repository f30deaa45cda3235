---------------------------- MODULE MCConversions ----------------------------
(***************************************************************************)
(* Conversions on every short input and a few crafted ones.                *)
(***************************************************************************)
EXTENDS Conversions

Upto(n, chars) == UNION {[1 .. k -> chars] : k \in 0 .. n}

Chars == {"x", Quote, Escape, "newline", "n"}

\* A name that looks like a member of the object, before and after escaping.
Tricky == {<<Quote, ",", Quote, "text", Quote, ":", Quote>>,
           <<Escape, Quote, "text", Escape, Quote, ":", Escape, Quote>>,
           <<"text", Escape>>}

MCMessages ==
  [msgId : {<<"x">>, <<>>}, senderId : {<<"x">>}, timestampUtc : {"123"},
   senderName : Upto(2, Chars) \cup Tricky, text : Upto(3, Chars)]

MCNames == Upto(3, Chars \cup {"control"})

MCDashed == [arg \in {"--port", "--quiet", "--help"} |->
               CASE arg = "--port" -> "port" [] arg = "--quiet" -> "quiet"
                 [] arg = "--help" -> "help"]

MCArgVectors == Upto(4, {"connect", "host", "-v", "--port", "--quiet", "--help"})

MCPortSettings == {-1, 0, 1, 5050, 65535, 65536, 70000}
MCPortFlags == MCPortSettings \cup {NotANumber}

MCRecvs == Upto(4, [gap : 0 .. 3, frames : 0 .. 3]) \ {<<>>}

MCHeaders ==
  [magic : {kProtocolMagic, 0}, version : {1, 2},
   type : DOMAIN MessageTypes \cup {"UNKNOWN"},
   payloadLength : {0, 1, 255, 256, 65535, 65536, 65537, 16777216},
   flags : {0, 1, 256, 65535}, reserved : {0, 1}]

=============================================================================
