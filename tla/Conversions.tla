---------------------------- MODULE Conversions ----------------------------
(***************************************************************************)
(* The conversions and the rate limit: one step takes an input to what the *)
(* code makes of it.                                                       *)
(***************************************************************************)
EXTENDS Json, CommandParser, RateLimit, FrameHeader

CONSTANTS
  Messages,     \* chat messages to send
  Names,        \* display names
  ArgVectors,   \* command lines, without the name of the program
  PortFlags,    \* values of --port, as integers or NotANumber
  PortSettings, \* numbers of the configured port
  Recvs,        \* what the calls of recv() return
  Headers       \* frame headers

\* Texts and arguments are strings, numbers are not negative where the code
\* counts, and a header is one that struct FrameHeader can hold.
ConversionAssumption ==
  /\ Messages \subseteq [msgId : Seq(STRING), senderId : Seq(STRING),
                        senderName : Seq(STRING), text : Seq(STRING),
                        timestampUtc : STRING]
  /\ Names \subseteq Seq(STRING)
  /\ ArgVectors \subseteq Seq(STRING)
  /\ PortFlags \subseteq Int \cup {NotANumber}
  /\ PortSettings \subseteq Int
  /\ NotANumber \notin Int /\ NoPort \notin Int
  /\ Recvs \subseteq Seq([gap : Nat, frames : Nat])
  /\ Headers \subseteq FrameHeaders
ASSUME ConversionsAssumption == ConversionAssumption

VARIABLES kind, input, output
vars == <<kind, input, output>>

Init ==
  /\ output = None
  /\ \/ kind = "message" /\ input \in Messages
     \/ kind = "hello" /\ input \in Names
     \/ kind = "args" /\ input \in ArgVectors
     \/ kind = "port" /\ input \in PortFlags \X PortSettings
     \/ kind = "recvs" /\ input \in Recvs
     \/ kind = "header" /\ input \in Headers

ThroughJson(m) == FromJson(ToJson(m))
ThroughHello(name) == ExtractStr(HelloJson(<<"x">>, name), "display_name")
ThroughHeader(h) == Deserialize(Serialize(h))
PortOf(pair) == ListenPort(pair[1], pair[2])

Convert(k, Conversion(_)) ==
  /\ kind = k
  /\ output = None
  /\ output' = <<Conversion(input)>>
  /\ UNCHANGED <<kind, input>>

Next ==
  \/ Convert("message", ThroughJson)
  \/ Convert("hello", ThroughHello)
  \/ Convert("args", Parse)
  \/ Convert("port", PortOf)
  \/ Convert("recvs", IsCut)
  \/ Convert("header", ThroughHeader)

Spec == Init /\ [][Next]_vars

Done(k) == kind = k /\ output # None

-----------------------------------------------------------------------------
(* Properties.                                                             *)

\* A chat message comes out of fromJson() as it went into toJson(), quotes,
\* newlines and text that looks like JSON included; only a text or a name that
\* ends in a backslash gains two characters.  It is refused without its ids.
MessageSurvives ==
  Done("message") =>
    output[1] = IF input.msgId = <<>> \/ input.senderId = <<>>
                  THEN None ELSE Surviving(input)

\* A display name comes out of a HELLO as it went in; only a control character
\* turns into the text of its escape.
HelloSurvives == Done("hello") => output[1] = HelloSurviving(input)

\* A header comes out of deserialize() as it went into serialize(), at every
\* boundary of a byte, except for `reserved`, which is not on the wire and comes
\* out as zero; one of another protocol does not come out at all.
HeaderSurvives ==
  Done("header") =>
    output[1] =
      IF input.magic = kProtocolMagic /\ input.version = kProtocolVersion
        THEN [input EXCEPT !.reserved = 0] ELSE <<>>

\* Chat messages, names and headers come out as they went in, with exactly
\* these exceptions (toJson and fromJson, jsonStr and extractStr, serialize and
\* deserialize).
SurvivesTheWire == MessageSurvives /\ HelloSurvives /\ HeaderSurvives

\* parse() gives a flag the argument after it and nothing else: so the host in
\* `connect --quiet host` is lost, and the last of two equal flags counts.
ParsesByPosition ==
  Done("args") /\ input # <<>> /\ output[1].command = input[1] =>
    /\ IsPositional(output[1].positional, input)
    /\ output[1].flags = FlagsOf(input)

\* The server listens on the port of the command line when that is one, and
\* otherwise on the configured number, of which only sixteen bits are left.
PortIsExactOrIgnored ==
  Done("port") =>
    IF input[1] \in Ports
      THEN output[1] = input[1]
      ELSE output[1] \in Ports \cup {0} /\ (input[2] - output[1]) % 65536 = 0

\* The command line says what its positions say: flags, arguments and the port
\* (CommandParser::parse, getFlagAsPort, runListen).
CommandLineIsKept == ParsesByPosition /\ PortIsExactOrIgnored

\* A peer that never sends more than half the limit within a second is never
\* cut off; one that sends just under the limit may be.
HalfRateIsSafe ==
  /\ Done("recvs")
  /\ \A i, j \in DOMAIN input :
       WithinSecond(input, i, j) => 2 * FramesIn(input, i, j) <= Limit
  => output[1] = FALSE

\* A peer that sends more than twice the limit within a second is cut off, if
\* it sends anything once that second and another one are over.
FloodIsCut ==
  /\ Done("recvs")
  /\ \E i, j, u \in DOMAIN input :
       /\ WithinSecond(input, i, j) /\ FramesIn(input, i, j) > 2 * Limit
       /\ Clock(input)[u] >= Clock(input)[i] + 2 * Second - 1
  => output[1] = TRUE

\* The rate limit of recvLoop holds within a factor of two.
RateLimitWithinTwo == HalfRateIsSafe /\ FloodIsCut

=============================================================================
