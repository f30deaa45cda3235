---------------------------- MODULE CommandParser ----------------------------
(***************************************************************************)
(* CommandParser::parse (src/cli/command_parser.cpp) and the ports that    *)
(* the program takes from the command line and from the configuration.     *)
(* An argument is a string; Dashed maps those that begin with two dashes   *)
(* to the name of the flag.  A port is an integer or NotANumber.           *)
(***************************************************************************)
EXTENDS Integers, Sequences, SequencesExt, Functions

CONSTANTS Dashed, NotANumber, NoPort

IsFlag(arg) == arg \in DOMAIN Dashed

\* positional.push_back(arg), ahead of what is found further on.
PlainBefore(arg, args) == [args EXCEPT !.positional = <<arg>> \o @]

\* flags[name] = value, unless an argument further on gives it again.
PutBefore(name, value, args) ==
  [args EXCEPT !.flags =
     IF name \in DOMAIN @ THEN @
     ELSE [n \in DOMAIN @ \cup {name} |-> IF n = name THEN value ELSE @[n]]]

\* Mutant of TakesValue: a flag takes whatever follows.
TakesAnything(argv, i) == i < Len(argv)

\* A flag takes the next argument unless that begins with two dashes.
TakesValue(argv, i) == i < Len(argv) /\ ~IsFlag(argv[i + 1])

\* The command, before its arguments are read.
Bare(command) ==
  [command |-> command, positional |-> <<>>, flags |-> [n \in {} |-> ""]]

\* What the loop makes of the arguments from position i on.
Arguments(argv) ==
  LET From[i \in 1 .. Len(argv) + 2] ==
        IF i > Len(argv) THEN Bare(argv[1])
        ELSE CASE ~IsFlag(argv[i]) ->
                    PlainBefore(argv[i], From[i + 1])
               [] IsFlag(argv[i]) /\ TakesValue(argv, i) ->
                    PutBefore(Dashed[argv[i]], argv[i + 1], From[i + 2])
               [] OTHER -> PutBefore(Dashed[argv[i]], "true", From[i + 1])
  IN  From

\* argv without the name of the program.
Parse(argv) ==
  IF argv = <<>> THEN Bare("")
  ELSE CASE argv[1] \in {"--help", "-h"}    -> Bare("help")
         [] argv[1] \in {"--version", "-v"} -> Bare("version")
         [] OTHER                           -> Arguments(argv)[2]

-----------------------------------------------------------------------------
(* Ports.                                                                  *)

\* ParsedArgs::getFlagAsPort
GetFlagAsPort(v) ==
  IF v # NotANumber /\ v > 0 /\ v <= 65535 THEN v ELSE NoPort

\* Config::set: std::stoi into a uint16_t.
StoredPort(v) == v % 65536

\* The port that runListen binds.
ListenPort(flag, configured) ==
  IF GetFlagAsPort(flag) = NoPort THEN StoredPort(configured)
                                  ELSE GetFlagAsPort(flag)

-----------------------------------------------------------------------------
(* What to expect, without a loop.                                         *)

Ports == {n \in Nat : 0 < n /\ n < 65536}

\* The argument at i is the value of the flag before it.
IsValue(argv, i) == i > 2 /\ IsFlag(argv[i - 1]) /\ ~IsFlag(argv[i])

Plain(argv) == {i \in 2 .. Len(argv) : ~IsFlag(argv[i]) /\ ~IsValue(argv, i)}

\* The plain arguments in their order.
IsPositional(positional, argv) ==
  /\ Len(positional) = Cardinality(Plain(argv))
  /\ \A i \in Plain(argv) :
       positional[Cardinality({j \in Plain(argv) : j <= i})] = argv[i]

\* Where the flag is, and its value there.
PlacesOf(name, argv) == {i \in 2 .. Len(argv) : IsFlag(argv[i]) /\ Dashed[argv[i]] = name}

ValueAt(argv, i) == IF i < Len(argv) /\ IsValue(argv, i + 1) THEN argv[i + 1] ELSE "true"

\* The last place of a flag counts.
FlagsOf(argv) ==
  [name \in {n \in Range(Dashed) : PlacesOf(n, argv) # {}} |->
     ValueAt(argv, Max(PlacesOf(name, argv)))]

=============================================================================
