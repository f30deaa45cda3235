------------------------------- MODULE Config -------------------------------
(***************************************************************************)
(* Class Config (src/config/config.cpp) and its use in src/main.cpp: the   *)
(* lantalk processes of one user, which come and go, may overlap and may   *)
(* crash, and the one config.ini that they share.                          *)
(*                                                                         *)
(* Of the settings three stand for all: device_id, which is drawn when it  *)
(* is empty, display_name, which then becomes the host's name, and         *)
(* listen_port, which is a number and is written after the two texts.      *)
(*                                                                         *)
(* config.ini is here what load() makes of its lines: the function from    *)
(* the keys in it to the value that the last line for the key gives them.  *)
(* save() writes a text as it is, and load() reads lines: so only the      *)
(* first line of a text is read back, without the blanks around it, and    *)
(* the other lines may be settings of their own.  The file is empty        *)
(* between the open that truncates it and the close that writes it (save() *)
(* writes less than one buffer).                                           *)
(***************************************************************************)
EXTENDS Integers, FiniteSets

CONSTANTS
  Procs,      \* the processes that are ever run
  DeviceIds,  \* bound: what generateUUID may draw, each at most once
  Texts,      \* what a text may be
  Inputs,     \* the texts that the user sets
  HostName,   \* what readHostname finds, or "UnknownUser"
  Empty,      \* the empty text
  FirstLine,  \* what load() reads back of a text that save() has written
  MoreLines,  \* the settings that the other lines of the text make
  Ports,      \* the numbers that the user gives for listen_port
  NoFile,     \* config.ini does not exist
  MaxFaults   \* bound: crashes, loads and saves that fail

PortSize == 65536

TextKeys == {"device_id", "display_name"}
Keys == TextKeys \cup {"listen_port"}

\* What the user may write: nobody guesses what generateUUID draws.
GivenTexts == Texts \ DeviceIds

\* What a key may have as its value.
Values == Texts \cup 0 .. PortSize - 1

WellTyped(s) ==
  \A k \in DOMAIN s :
    s[k] \in IF k \in TextKeys THEN Texts ELSE 0 .. PortSize - 1

Nothing == [k \in {} |-> Empty]

\* The first line of a text is a text of one line; ids, the host's name and
\* the empty text are texts of one line; and lines make trimmed texts.
ASSUME ConfigAssumption ==
  /\ DeviceIds \cup {HostName, Empty} \subseteq Texts
  /\ DeviceIds # {} /\ HostName # Empty
  /\ DeviceIds \cap {HostName, Empty} = {}
  /\ Inputs \subseteq GivenTexts
  /\ FirstLine \in [Texts -> Texts]
  /\ \A t \in DeviceIds \cup {HostName, Empty} : FirstLine[t] = t
  /\ \A t \in GivenTexts : FirstLine[t] \in GivenTexts
  /\ \A t \in Texts :
       /\ FirstLine[FirstLine[t]] = FirstLine[t]
       /\ MoreLines[FirstLine[t]] = Nothing
       /\ \E K \in SUBSET Keys : MoreLines[t] \in [K -> Values]
       /\ WellTyped(MoreLines[t])
       /\ \A k \in DOMAIN MoreLines[t] \cap TextKeys :
            LET value == MoreLines[t][k]
            IN  value \in GivenTexts /\ FirstLine[value] = value
  /\ Ports \subseteq Int
  /\ \A K \in SUBSET Keys : NoFile \notin [K -> Values]
  /\ MaxFaults \in Nat

VARIABLES
  file,       \* config.ini
  pc,         \* where each process is
  config,     \* config_ of each process
  setting,    \* the key that each process was told to set
  drawn,      \* history: the device ids drawn so far
  used,       \* history: the device ids under which a process went to work
  asked,      \* history: the keys set and saved so far, with their last value
  seen,       \* history: the file as each process found it
  raced,      \* history: a load or a save met the save of another process
  broken,     \* history: a fault hit a load or a save
  blanked,    \* history: a file was written that says an empty device id
  tangled,    \* history: a text was written whose other lines are settings
  faults

procVars == <<pc, config, setting, drawn>>
shapeVars == <<blanked, tangled>>
histVars == <<used, asked, seen, raced, broken, shapeVars>>
vars == <<file, procVars, histVars, faults>>

Pcs == {"off", "load", "create", "creating", "ready", "store", "storing",
        "ended"}

\* Type invariant; a port has sixteen bits.
TypeOK ==
  /\ file # NoFile => WellTyped(file)
  /\ pc \in [Procs -> Pcs]
  /\ DOMAIN config = Procs
  /\ \A p \in Procs : DOMAIN config[p] = Keys /\ WellTyped(config[p])
  /\ setting \in [Procs -> Keys]
  /\ drawn \subseteq DeviceIds
  /\ used \subseteq Texts
  /\ WellTyped(asked)
  /\ \A p \in Procs : seen[p] # NoFile => WellTyped(seen[p])
  /\ {raced, broken, blanked, tangled} \subseteq BOOLEAN
  /\ faults \in 0 .. MaxFaults

\* struct AppConfig before the constructor has done its work.
Blank ==
  [device_id |-> Empty, display_name |-> Empty, listen_port |-> 5050]

Init ==
  /\ file = NoFile
  /\ pc = [p \in Procs |-> "off"]
  /\ config = [p \in Procs |-> Blank]
  /\ setting = [p \in Procs |-> "device_id"]
  /\ drawn = {}
  /\ used = {}
  /\ asked = Nothing
  /\ seen = [p \in Procs |-> NoFile]
  /\ raced = FALSE
  /\ broken = FALSE
  /\ blanked = FALSE
  /\ tangled = FALSE
  /\ faults = 0

-----------------------------------------------------------------------------
Goto(p, to) == pc' = [pc EXCEPT ![p] = to]

\* The process is set up and goes on under the device id it has.
GoToWork(p) ==
  /\ used' = used \cup {config'[p].device_id}
  /\ Goto(p, "ready")

\* The process is gone, and its memory with it.
Exit(p) ==
  /\ Goto(p, "ended")
  /\ config' = [config EXCEPT ![p] = Blank]
  /\ setting' = [setting EXCEPT ![p] = "device_id"]
  /\ seen' = [seen EXCEPT ![p] = NoFile]
  /\ UNCHANGED drawn

Fault ==
  /\ faults < MaxFaults
  /\ faults' = faults + 1

Saving == {p \in Procs : pc[p] \in {"creating", "storing"}}

\* generateUUID: an id that nobody has drawn, whichever.
Fresh == CHOOSE id \in DeviceIds : id \notin drawn

\* ensureDeviceId and ensureDisplayName.
Ensured(s) ==
  [s EXCEPT !.device_id = IF @ = Empty THEN Fresh ELSE @,
            !.display_name = IF @ = Empty THEN HostName ELSE @]

\* The process has these settings, and what is empty is filled in.
Ensure(p, s) ==
  /\ s.device_id = Empty => DeviceIds \ drawn # {}
  /\ config' = [config EXCEPT ![p] = Ensured(s)]
  /\ drawn' = IF s.device_id = Empty THEN drawn \cup {Fresh} ELSE drawn

\* Config::Config draws a device id, whether or not there is a file.
Construct(p) ==
  /\ pc[p] = "off"
  /\ Ensure(p, Blank)
  /\ Goto(p, "load")
  /\ UNCHANGED <<file, setting, histVars, faults>>

\* load() without a file saves what the constructor made.
LoadMissing(p) ==
  /\ pc[p] = "load"
  /\ file = NoFile
  /\ Goto(p, "create")
  /\ UNCHANGED <<file, config, setting, drawn, histVars, faults>>

\* What lines set when others follow them.
Then(earlier, later) ==
  [k \in DOMAIN earlier \cup DOMAIN later |->
     IF k \in DOMAIN later THEN later[k] ELSE earlier[k]]

\* Mutant of Merged: only the identity is taken from the file.
MergedIdOnly(s) ==
  [s EXCEPT !.device_id =
     IF "device_id" \in DOMAIN file THEN file.device_id ELSE @]

\* What the lines of the file make of the settings: what it lacks stays as it
\* was constructed.
Merged(s) == Then(s, file)

\* load() sets what the file has and fills in what is empty; neither what was
\* lacking nor what was empty is written back.
LoadFile(p) ==
  /\ pc[p] = "load"
  /\ file # NoFile
  /\ Ensure(p, Merged(config[p]))
  /\ GoToWork(p)
  /\ seen' = [seen EXCEPT ![p] = file]
  /\ raced' = (raced \/ Saving # {})
  /\ UNCHANGED <<file, setting, asked, broken, shapeVars, faults>>

\* The file cannot be opened; main() ignores the result of load().
LoadFails(p) ==
  /\ pc[p] = "load"
  /\ file # NoFile
  /\ Fault
  /\ broken' = TRUE
  /\ UNCHANGED config
  /\ GoToWork(p)
  /\ seen' = [seen EXCEPT ![p] = file]
  /\ UNCHANGED <<file, setting, drawn, asked, raced, shapeVars>>

\* Mutant of Stored: the number is stored as it was given.
StoredAsGiven(key, value) == value

\* listen_port goes through std::stoi to a uint16_t.
Stored(key, value) == IF key = "listen_port" THEN value % PortSize ELSE value

\* `lantalk config set`: any text is taken, the empty one too.
Set(p, key, value) ==
  /\ pc[p] = "ready"
  /\ config' = [config EXCEPT ![p][key] = Stored(key, value)]
  /\ setting' = [setting EXCEPT ![p] = key]
  /\ Goto(p, "store")
  /\ UNCHANGED <<file, drawn, histVars, faults>>

\* save(): std::ofstream truncates the file ...
SaveOpen(p) ==
  /\ pc[p] \in {"create", "store"}
  /\ file' = Nothing
  /\ raced' = (raced \/ file # seen[p])
  /\ Goto(p, IF pc[p] = "create" THEN "creating" ELSE "storing")
  /\ UNCHANGED <<config, setting, drawn, used, asked, seen, broken, shapeVars,
                 faults>>

\* The lines for a text.
Lines(key, text) == Then([k \in {key} |-> FirstLine[text]], MoreLines[text])

\* Mutant of Written: the settings are not written.
NothingWritten(p) == file

\* The lines of the file in their order: those of the texts, and the number.
WrittenTexts(p) ==
  Then(Lines("device_id", config[p].device_id),
       Lines("display_name", config[p].display_name))

Written(p) ==
  Then(WrittenTexts(p), [k \in {"listen_port"} |-> config[p][k]])

\* ... and its destructor writes everything.
Write(p) ==
  /\ file' = Written(p)
  /\ blanked' = (blanked \/ WrittenTexts(p).device_id = Empty)
  /\ tangled' =
       (tangled \/ \E k \in TextKeys : MoreLines[config[p][k]] # Nothing)

\* On the first run the process then goes to work ...
CreateDone(p) ==
  /\ pc[p] = "creating"
  /\ Write(p)
  /\ UNCHANGED config
  /\ GoToWork(p)
  /\ seen' = [seen EXCEPT ![p] = file']
  /\ UNCHANGED <<setting, drawn, asked, raced, broken, faults>>

\* ... and after a `config set` it ends.
StoreDone(p) ==
  /\ pc[p] = "storing"
  /\ Write(p)
  /\ asked' = [k \in DOMAIN asked \cup {setting[p]} |->
                 IF k = setting[p] THEN config[p][k] ELSE asked[k]]
  /\ Exit(p)
  /\ UNCHANGED <<used, raced, broken, faults>>

\* The directory or the file cannot be created; main() ignores the result.
CreateFails(p) ==
  /\ pc[p] = "create"
  /\ Fault
  /\ broken' = TRUE
  /\ UNCHANGED config
  /\ GoToWork(p)
  /\ UNCHANGED <<file, setting, drawn, asked, seen, raced, shapeVars>>

\* Nothing is changed, and the user is told that it is.
StoreFails(p) ==
  /\ pc[p] = "store"
  /\ Fault
  /\ Exit(p)
  /\ UNCHANGED <<file, used, asked, raced, broken, shapeVars>>

\* Any other command than `config set` ends without saving.
End(p) ==
  /\ pc[p] = "ready"
  /\ Exit(p)
  /\ UNCHANGED <<file, used, asked, raced, broken, shapeVars, faults>>

\* Killed, or ended by what std::stoi throws.
Crash(p) ==
  /\ pc[p] \notin {"off", "ended"}
  /\ Fault
  /\ broken' = (broken \/ p \in Saving)
  /\ Exit(p)
  /\ UNCHANGED <<file, used, asked, raced, shapeVars>>

Next ==
  \E p \in Procs :
    \/ Construct(p)
    \/ LoadMissing(p)
    \/ LoadFile(p)
    \/ LoadFails(p)
    \/ \E key \in TextKeys, text \in Inputs : Set(p, key, text)
    \/ \E port \in Ports : Set(p, "listen_port", port)
    \/ SaveOpen(p)
    \/ CreateDone(p)
    \/ StoreDone(p)
    \/ CreateFails(p)
    \/ StoreFails(p)
    \/ End(p)
    \/ Crash(p)

Spec == Init /\ [][Next]_vars

-----------------------------------------------------------------------------
\* Everyone who runs lantalk without setting a device id goes by one id, the
\* one that the first run persisted (Config::load), unless a save was cut
\* short, failed or met another one, or a saved file says an empty id: then
\* every run draws an id of its own.
IdentityKept ==
  ~raced /\ ~broken /\ ~blanked => Cardinality(used \cap DeviceIds) <= 1

\* A key that was set keeps the value it was last given, down to the end of
\* the first line and without the blanks around it, however many other keys
\* are set after it by processes that loaded and saved the whole file
\* (runConfig, Config::save).  Instead of an empty text the file may have the
\* host's name or a device id.  A text with further lines may set other keys,
\* and then nothing is said.
LastSetWins ==
  (~raced /\ ~broken /\ ~tangled /\ Saving = {}) =>
    \A k \in DOMAIN asked :
      /\ k \in DOMAIN file
      /\ IF k \notin TextKeys
           THEN file[k] = asked[k]
           ELSE \/ file[k] = FirstLine[asked[k]]
                \/ /\ FirstLine[asked[k]] = Empty
                   /\ k = "display_name" => file[k] = HostName

=============================================================================
