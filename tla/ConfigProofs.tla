----------------------------- MODULE ConfigProofs -----------------------------
(***************************************************************************)
(* Proofs about Config, for any number of processes, device ids, texts     *)
(* and what load() reads back of them, ports and faults.                   *)
(***************************************************************************)
EXTENDS Config, FiniteSetTheorems, TLAPS

-----------------------------------------------------------------------------
(* The inductive invariant.                                                *)

\* What config_ can hold, and what a config.ini that was written to its end
\* can say: its texts are read back as they are.
Settings == {s \in [Keys -> Values] : WellTyped(s)}
Plain(t) == FirstLine[t] = t /\ MoreLines[t] = Nothing
PlainSettings == {s \in Settings : \A k \in TextKeys : Plain(s[k])}

\* TypeOK, and that what it types are functions.
Typed ==
  /\ file \in PlainSettings \cup {Nothing, NoFile}
  /\ pc \in [Procs -> Pcs]
  /\ config \in [Procs -> Settings]
  /\ setting \in [Procs -> Keys]
  /\ drawn \subseteq DeviceIds
  /\ used \subseteq Texts
  /\ DOMAIN asked \subseteq Keys /\ WellTyped(asked)
  /\ seen \in [Procs -> PlainSettings \cup {Nothing, NoFile}]
  /\ raced \in BOOLEAN
  /\ broken \in BOOLEAN
  /\ blanked \in BOOLEAN
  /\ tangled \in BOOLEAN
  /\ faults \in 0 .. MaxFaults

\* A text of a process that would not be read back as it is comes from the
\* user, just now.
PlainOf(p) ==
  \A k \in TextKeys :
    \/ Plain(config[p][k])
    \/ pc[p] \in {"store", "storing"} /\ k = setting[p]

TypeInv == Typed /\ \A p \in Procs : PlainOf(p)

\* No save met another load or save, and none was cut short or failed.
Clean == ~ raced /\ ~ broken

\* The file is empty exactly while the one process that saves has it open, a
\* process that is set up has found a whole file, and before the first save
\* nothing has happened.
FileInv ==
  /\ \A p \in Procs :
       pc[p] \in {"off", "load", "create", "creating"} => seen[p] = NoFile
  /\ Clean =>
       /\ \A p, q \in Saving : p = q
       /\ file = Nothing <=> Saving # {}
       /\ \A p \in Procs : pc[p] \in {"ready", "store"} => seen[p] \in Settings
       /\ file = NoFile =>
            /\ \A p \in Procs : pc[p] \in {"off", "load", "create", "ended"}
            /\ used = {}
            /\ DOMAIN asked = {}

\* The ids that the user may set, and the one that the first run drew.
OneId(id) == GivenTexts \cup {id}

\* One drawn id is in the file, in every process that is set up, and in use.
IdInv ==
  /\ file \in Settings => file["device_id"] # Empty \/ blanked
  /\ Clean /\ ~ blanked /\ file # NoFile =>
       \E id \in DeviceIds :
         /\ used \subseteq OneId(id)
         /\ file # Nothing => file["device_id"] \in OneId(id)
         /\ \A p \in Procs :
              pc[p] \in {"creating", "ready", "store", "storing"}
                => config[p]["device_id"] \in OneId(id)

\* What load() may make of the value v in the file.
Loaded(k, value, v) ==
  \/ value = v
  \/ k \in TextKeys /\ v = Empty /\ (k = "display_name" => value = HostName)

\* What the file may have after the user asked for a value.
Kept(k, value, a) ==
  IF k \notin TextKeys
    THEN value = a
    ELSE \/ value = FirstLine[a]
         \/ FirstLine[a] = Empty /\ (k = "display_name" => value = HostName)

\* A process that is set up has what it found, but for what it sets; the one
\* that saves will write what was asked for.
ValueOK(p) ==
  /\ pc[p] = "ready" => \A k \in Keys : Loaded(k, config[p][k], seen[p][k])
  /\ pc[p] = "store" =>
       \A k \in Keys \ {setting[p]} : Loaded(k, config[p][k], seen[p][k])
  /\ pc[p] = "creating" => DOMAIN asked = {}
  /\ pc[p] = "storing" =>
       \A k \in DOMAIN asked \ {setting[p]} : Kept(k, config[p][k], asked[k])

\* The file has what was asked for, and so will have what is written next.
ValueInv ==
  Clean /\ ~ tangled =>
    /\ file \notin {Nothing, NoFile} =>
         \A k \in DOMAIN asked : Kept(k, file[k], asked[k])
    /\ \A p \in Procs : ValueOK(p)

IInv == TypeInv /\ FileInv /\ IdInv /\ ValueInv

-----------------------------------------------------------------------------
(* Lemmas on the operators.                                                *)

\* A missing file, an empty one and a whole one are three things.
LEMMA FilesDiffer ==
  /\ NoFile \notin Settings /\ Nothing \notin Settings /\ NoFile # Nothing
  /\ PlainSettings \subseteq Settings
<1>1. NoFile \notin [Keys -> Values] /\ NoFile \notin [{} -> Values]
  BY ConfigAssumption
<1>2. Nothing \in [{} -> Values] /\ Nothing \notin [Keys -> Values]
  BY DEF Nothing, Keys, TextKeys
<1> QED  BY <1>1, <1>2 DEF Settings, PlainSettings

\* A tuple of settings, key by key.
LEMMA InSettings ==
  ASSUME NEW s \in [Keys -> Values],
         s["device_id"] \in Texts, s["display_name"] \in Texts,
         s["listen_port"] \in 0 .. PortSize - 1
  PROVE  s \in Settings
  BY DEF Settings, WellTyped, Keys, TextKeys

\* What settings hold, key by key.
LEMMA OfSettings ==
  ASSUME NEW s \in Settings
  PROVE  /\ s \in [Keys -> Values] /\ DOMAIN s = Keys /\ WellTyped(s)
         /\ s["device_id"] \in Texts
         /\ s["display_name"] \in Texts
         /\ s["listen_port"] \in 0 .. PortSize - 1
  BY DEF Settings, WellTyped, Keys, TextKeys

\* What the program puts in place of an empty text, and every first line, is
\* read back as it is.
LEMMA PlainTexts ==
  /\ \A t \in DeviceIds \cup {HostName, Empty} : t \in Texts /\ Plain(t)
  /\ \A t \in Texts : FirstLine[t] \in Texts /\ Plain(FirstLine[t])
BY ConfigAssumption DEF Plain

\* The constructor begins with settings.
LEMMA BlankFits == Blank \in PlainSettings
<1>1. 5050 \in 0 .. PortSize - 1
  BY DEF PortSize
<1>2. Blank \in [Keys -> Values]
  BY <1>1, ConfigAssumption DEF Blank, Keys, TextKeys, Values
<1>3. /\ Blank["device_id"] = Empty /\ Blank["display_name"] = Empty
      /\ Blank["listen_port"] = 5050
  BY DEF Blank
<1>4. Blank \in Settings
  BY <1>1, <1>2, <1>3, InSettings, PlainTexts
<1> QED  BY <1>3, <1>4, PlainTexts DEF PlainSettings, TextKeys

\* ensureDeviceId and ensureDisplayName make settings of settings; the number
\* and what is not empty stay.
LEMMA EnsuredFits ==
  ASSUME NEW s \in PlainSettings, s.device_id = Empty => DeviceIds \ drawn # {}
  PROVE  /\ Ensured(s) \in PlainSettings
         /\ \A k \in Keys : Loaded(k, Ensured(s)[k], s[k])
         /\ Ensured(s)["device_id"] # Empty
         /\ s.device_id = Empty => Fresh \in DeviceIds
<1>1. s \in Settings /\ \A k \in TextKeys : Plain(s[k])
  BY DEF PlainSettings
<1>2. s.device_id = Empty => Fresh \in DeviceIds
  BY DEF Fresh
<1>3. /\ Ensured(s)["device_id"] = IF s["device_id"] = Empty THEN Fresh
                                   ELSE s["device_id"]
      /\ Ensured(s)["display_name"] = IF s["display_name"] = Empty THEN HostName
                                      ELSE s["display_name"]
      /\ Ensured(s)["listen_port"] = s["listen_port"]
      /\ DOMAIN Ensured(s) = Keys
  BY <1>1, OfSettings DEF Ensured, Keys, TextKeys
<1>4. /\ Ensured(s)["device_id"] \in Texts /\ Plain(Ensured(s)["device_id"])
      /\ Ensured(s)["device_id"] # Empty
  BY <1>1, <1>2, <1>3, OfSettings, PlainTexts, ConfigAssumption DEF TextKeys
<1>5. Ensured(s)["display_name"] \in Texts /\ Plain(Ensured(s)["display_name"])
  BY <1>1, <1>3, OfSettings, PlainTexts DEF TextKeys
<1>6. Ensured(s)["listen_port"] \in 0 .. PortSize - 1
  BY <1>1, <1>3, OfSettings
<1>7. Ensured(s) \in [Keys -> Values]
  <2>1. Ensured(s) = [k \in Keys |-> Ensured(s)[k]]
    BY <1>1, <1>3, OfSettings DEF Ensured
  <2> HIDE DEF Ensured
  <2> QED  BY <2>1, <1>4, <1>5, <1>6 DEF Values, Keys, TextKeys
<1>8. Ensured(s) \in PlainSettings
  BY <1>4, <1>5, <1>6, <1>7, InSettings DEF PlainSettings, TextKeys
<1>9. \A k \in Keys : Loaded(k, Ensured(s)[k], s[k])
  <2>1. Loaded("device_id", Ensured(s)["device_id"], s["device_id"])
    BY <1>3 DEF Loaded, TextKeys
  <2>2. Loaded("display_name", Ensured(s)["display_name"], s["display_name"])
    BY <1>3 DEF Loaded, TextKeys
  <2>3. Loaded("listen_port", Ensured(s)["listen_port"], s["listen_port"])
    BY <1>3 DEF Loaded
  <2> QED  BY <2>1, <2>2, <2>3 DEF Keys, TextKeys
<1> QED  BY <1>2, <1>4, <1>8, <1>9

\* load() makes settings of settings: those of a whole file.
LEMMA MergedFits ==
  ASSUME file \in PlainSettings \cup {Nothing}, NEW s \in PlainSettings
  PROVE  /\ Merged(s) \in PlainSettings
         /\ file # Nothing => Merged(s) = file
<1>1. CASE file = Nothing
  <2>1. DOMAIN file = {} /\ DOMAIN s = Keys
    BY <1>1, OfSettings DEF Nothing, PlainSettings
  <2>2. Merged(s) = [k \in Keys |-> s[k]]  BY <2>1 DEF Merged, Then
  <2>3. Merged(s) = s  BY <2>2, OfSettings DEF PlainSettings
  <2> QED  BY <1>1, <2>3
<1>2. CASE file \in PlainSettings
  <2>1. DOMAIN file = Keys /\ DOMAIN s = Keys
    BY <1>2, OfSettings DEF PlainSettings
  <2>2. Merged(s) = [k \in Keys |-> file[k]]  BY <2>1 DEF Merged, Then
  <2>3. Merged(s) = file  BY <1>2, <2>2, OfSettings DEF PlainSettings
  <2> QED  BY <1>2, <2>3
<1> QED  BY <1>1, <1>2

\* The lines for a text: the key has one, every text in them is read back as
\* it is, and no drawn id is in them but the text itself.
LEMMA LinesFit ==
  ASSUME NEW key \in TextKeys, NEW t \in Texts
  PROVE  /\ key \in DOMAIN Lines(key, t) /\ DOMAIN Lines(key, t) \subseteq Keys
         /\ WellTyped(Lines(key, t))
         /\ \A k \in DOMAIN Lines(key, t) \cap TextKeys :
              /\ Plain(Lines(key, t)[k])
              /\ \/ Lines(key, t)[k] \in GivenTexts
                 \/ k = key /\ Lines(key, t)[k] = FirstLine[t]
         /\ MoreLines[t] = Nothing =>
              DOMAIN Lines(key, t) = {key} /\ Lines(key, t)[key] = FirstLine[t]
<1> DEFINE more == MoreLines[t]
<1>1. /\ DOMAIN more \subseteq Keys /\ WellTyped(more)
      /\ \A k \in DOMAIN more \cap TextKeys :
           more[k] \in GivenTexts /\ FirstLine[more[k]] = more[k]
  <2>1. PICK K \in SUBSET Keys : more \in [K -> Values]
    BY ConfigAssumption
  <2> QED  BY <2>1, ConfigAssumption
<1>2. DOMAIN Lines(key, t) = {key} \cup DOMAIN more
  BY DEF Lines, Then
<1>3. \A k \in DOMAIN Lines(key, t) :
        Lines(key, t)[k] = IF k \in DOMAIN more THEN more[k] ELSE FirstLine[t]
  BY DEF Lines, Then
<1>4. WellTyped(Lines(key, t))
  BY <1>1, <1>2, <1>3, PlainTexts DEF WellTyped
<1>5. \A k \in DOMAIN Lines(key, t) \cap TextKeys :
        /\ Plain(Lines(key, t)[k])
        /\ \/ Lines(key, t)[k] \in GivenTexts
           \/ k = key /\ Lines(key, t)[k] = FirstLine[t]
  <2> SUFFICES ASSUME NEW k \in DOMAIN Lines(key, t) \cap TextKeys
               PROVE  /\ Plain(Lines(key, t)[k])
                      /\ \/ Lines(key, t)[k] \in GivenTexts
                         \/ k = key /\ Lines(key, t)[k] = FirstLine[t]
    OBVIOUS
  <2>1. CASE k \in DOMAIN more
    <3>1. /\ more[k] \in Texts /\ more[k] \in GivenTexts
          /\ FirstLine[more[k]] = more[k]
      BY <1>1, <2>1 DEF GivenTexts
    <3>2. Plain(more[k])
      BY <3>1, PlainTexts
    <3> QED  BY <1>3, <2>1, <3>1, <3>2
  <2>2. CASE k \notin DOMAIN more
    BY <1>2, <1>3, <2>2, PlainTexts
  <2> QED  BY <2>1, <2>2
<1>6. more = Nothing =>
        DOMAIN Lines(key, t) = {key} /\ Lines(key, t)[key] = FirstLine[t]
  BY <1>2, <1>3 DEF Nothing
<1> QED  BY <1>1, <1>2, <1>4, <1>5, <1>6 DEF Keys

\* save() writes settings whose texts are read back as they are.  No drawn id
\* comes in by other lines, and without other lines every key has its own.
LEMMA WrittenFits ==
  ASSUME NEW p \in Procs, config[p] \in Settings
  PROVE  /\ Written(p) \in PlainSettings
         /\ Written(p)["device_id"] = WrittenTexts(p).device_id
         /\ \/ Written(p)["device_id"] \in GivenTexts
            \/ Written(p)["device_id"] = FirstLine[config[p]["device_id"]]
         /\ Written(p)["listen_port"] = config[p]["listen_port"]
         /\ (\A k \in TextKeys : MoreLines[config[p][k]] = Nothing) =>
              \A k \in TextKeys : Written(p)[k] = FirstLine[config[p][k]]
<1> DEFINE ids == Lines("device_id", config[p].device_id)
           names == Lines("display_name", config[p].display_name)
<1>1. /\ config[p]["device_id"] \in Texts /\ config[p]["display_name"] \in Texts
      /\ config[p]["listen_port"] \in 0 .. PortSize - 1
  BY OfSettings
<1>2. /\ "device_id" \in DOMAIN ids /\ DOMAIN ids \subseteq Keys
      /\ WellTyped(ids)
      /\ \A k \in DOMAIN ids \cap TextKeys :
           /\ Plain(ids[k])
           /\ \/ ids[k] \in GivenTexts
              \/ /\ k = "device_id"
                 /\ ids[k] = FirstLine[config[p]["device_id"]]
      /\ MoreLines[config[p]["device_id"]] = Nothing =>
           /\ DOMAIN ids = {"device_id"}
           /\ ids["device_id"] = FirstLine[config[p]["device_id"]]
  BY <1>1, LinesFit DEF TextKeys
<1>3. /\ "display_name" \in DOMAIN names /\ DOMAIN names \subseteq Keys
      /\ WellTyped(names)
      /\ \A k \in DOMAIN names \cap TextKeys :
           /\ Plain(names[k])
           /\ \/ names[k] \in GivenTexts
              \/ /\ k = "display_name"
                 /\ names[k] = FirstLine[config[p]["display_name"]]
      /\ MoreLines[config[p]["display_name"]] = Nothing =>
           /\ DOMAIN names = {"display_name"}
           /\ names["display_name"] = FirstLine[config[p]["display_name"]]
  BY <1>1, LinesFit DEF TextKeys
<1> HIDE DEF ids, names
<1>4. WrittenTexts(p) = Then(ids, names)
  BY DEF WrittenTexts, ids, names
<1>5. /\ DOMAIN WrittenTexts(p) = DOMAIN ids \cup DOMAIN names
      /\ \A k \in DOMAIN WrittenTexts(p) :
           WrittenTexts(p)[k] = IF k \in DOMAIN names THEN names[k] ELSE ids[k]
  BY <1>4 DEF Then
<1>6. /\ DOMAIN Written(p) = DOMAIN WrittenTexts(p) \cup {"listen_port"}
      /\ \A k \in DOMAIN Written(p) :
           Written(p)[k] = IF k = "listen_port" THEN config[p][k]
                                                ELSE WrittenTexts(p)[k]
      /\ Written(p) = [k \in DOMAIN Written(p) |-> Written(p)[k]]
  BY DEF Written, Then
<1>7. DOMAIN Written(p) = Keys
  BY <1>2, <1>3, <1>5, <1>6 DEF Keys, TextKeys
<1>8. \A k \in TextKeys : Written(p)[k] = IF k \in DOMAIN names THEN names[k]
                                                              ELSE ids[k]
  BY <1>2, <1>3, <1>5, <1>6, <1>7 DEF Keys, TextKeys
<1>9. \A k \in TextKeys : Written(p)[k] \in Texts /\ Plain(Written(p)[k])
  <2> SUFFICES ASSUME NEW k \in TextKeys
               PROVE  Written(p)[k] \in Texts /\ Plain(Written(p)[k])
    OBVIOUS
  <2>1. CASE k \in DOMAIN names
    BY <1>3, <1>8, <2>1 DEF WellTyped
  <2>2. CASE k \notin DOMAIN names
    BY <1>2, <1>3, <1>5, <1>6, <1>7, <1>8, <2>2 DEF WellTyped, Keys, TextKeys
  <2> QED  BY <2>1, <2>2
<1>10. Written(p)["listen_port"] = config[p]["listen_port"]
  BY <1>6
<1>11. Written(p) \in PlainSettings
  <2>1. Written(p) \in [Keys -> Values]
    BY <1>1, <1>6, <1>7, <1>9, <1>10 DEF Keys, TextKeys, Values
  <2> QED  BY <1>1, <1>9, <1>10, <2>1, InSettings DEF PlainSettings, TextKeys
<1>12. Written(p)["device_id"] = WrittenTexts(p).device_id
  BY <1>2, <1>5, <1>6
<1>13. \/ Written(p)["device_id"] \in GivenTexts
       \/ Written(p)["device_id"] = FirstLine[config[p]["device_id"]]
  BY <1>2, <1>3, <1>8 DEF TextKeys
<1>14. ASSUME \A k \in TextKeys : MoreLines[config[p][k]] = Nothing
       PROVE  \A k \in TextKeys : Written(p)[k] = FirstLine[config[p][k]]
  BY <1>2, <1>3, <1>8, <1>14 DEF TextKeys
<1> QED  BY <1>10, <1>11, <1>12, <1>13, <1>14

\* What the user may set.
Admitted(key, value) ==
  \/ key \in TextKeys /\ value \in Inputs
  \/ key = "listen_port" /\ value \in Ports

\* `config set` makes settings of settings: a port is cut to sixteen bits.
LEMMA StoredFits ==
  ASSUME NEW s \in Settings, NEW key, NEW value, Admitted(key, value)
  PROVE  [s EXCEPT ![key] = Stored(key, value)] \in Settings
<1>1. \A n \in Int : n % PortSize \in 0 .. PortSize - 1
  BY DEF PortSize
<1>2. CASE key \in TextKeys /\ value \in Inputs
  <2>1. value \in Texts
    BY <1>2, ConfigAssumption DEF GivenTexts
  <2> QED  BY <1>2, <2>1, OfSettings, InSettings DEF Stored, Keys, TextKeys,
                Values
<1>3. CASE key = "listen_port" /\ value \in Ports
  <2>1. Stored(key, value) \in 0 .. PortSize - 1
    BY <1>1, <1>3, ConfigAssumption DEF Stored
  <2> HIDE DEF Stored
  <2> QED  BY <1>3, <2>1, OfSettings, InSettings DEF Keys, TextKeys, Values
<1> QED  BY <1>2, <1>3 DEF Admitted

\* load() keeps what was asked for.
LEMMA LoadedKept ==
  ASSUME NEW k, NEW value, NEW v, NEW a, Loaded(k, value, v), Kept(k, v, a)
  PROVE  Kept(k, value, a)
BY ConfigAssumption DEF Loaded, Kept

-----------------------------------------------------------------------------
(* What one process does to the others, and to itself.                     *)

\* The others are left alone.
Alone(p) ==
  \A q \in Procs \ {p} :
    /\ pc'[q] = pc[q] /\ config'[q] = config[q]
    /\ seen'[q] = seen[q] /\ setting'[q] = setting[q]

\* A process that ends forgets everything.
LEMMA ExitForgets ==
  ASSUME TypeInv, NEW p \in Procs, Exit(p)
  PROVE  /\ pc' \in [Procs -> Pcs] /\ config' \in [Procs -> Settings]
         /\ setting' \in [Procs -> Keys] /\ drawn' = drawn
         /\ seen' \in [Procs -> PlainSettings \cup {Nothing, NoFile}]
         /\ pc'[p] = "ended" /\ config'[p] = Blank /\ seen'[p] = NoFile
         /\ \A k \in TextKeys : Plain(config'[p][k])
         /\ Alone(p)
<1>1. Blank \in Settings /\ \A k \in TextKeys : Plain(Blank[k])
  BY BlankFits DEF PlainSettings
<1> QED  BY <1>1 DEF Exit, Goto, TypeInv, Typed, PlainOf, Pcs, Keys, TextKeys,
              Alone

\* A process whose settings were filled in has settings.
LEMMA EnsureFits ==
  ASSUME TypeInv, NEW p \in Procs, NEW s \in PlainSettings, Ensure(p, s)
  PROVE  /\ config' \in [Procs -> Settings] /\ drawn' \subseteq DeviceIds
         /\ config'[p] = Ensured(s) /\ config'[p] \in PlainSettings
         /\ \A q \in Procs \ {p} : config'[q] = config[q]
<1>1. /\ Ensured(s) \in PlainSettings
      /\ s.device_id = Empty => Fresh \in DeviceIds
  BY EnsuredFits DEF Ensure
<1>2. config' = [config EXCEPT ![p] = Ensured(s)]
  BY DEF Ensure
<1>3. drawn' \subseteq DeviceIds
  BY <1>1 DEF Ensure, TypeInv, Typed, PlainOf
<1> HIDE DEF Ensured
<1> QED  BY <1>1, <1>2, <1>3, FilesDiffer DEF TypeInv, Typed, PlainOf

\* A process that loads has what load() makes of the settings in the file.
LEMMA LoadFits ==
  ASSUME TypeInv, NEW p \in Procs, LoadFile(p)
  PROVE  /\ config' \in [Procs -> Settings] /\ drawn' \subseteq DeviceIds
         /\ config'[p] \in PlainSettings
         /\ file # Nothing => config'[p] = Ensured(file)
         /\ Alone(p)
<1>1. file \in PlainSettings \cup {Nothing} /\ config[p] \in PlainSettings
  BY DEF LoadFile, TypeInv, Typed, PlainOf, PlainSettings
<1>2. Merged(config[p]) \in PlainSettings
      /\ (file # Nothing => Merged(config[p]) = file)
  BY <1>1, MergedFits
<1>3. Ensure(p, Merged(config[p]))
  BY DEF LoadFile
<1> HIDE DEF Merged, Ensure, Ensured
<1>4. /\ config' \in [Procs -> Settings] /\ drawn' \subseteq DeviceIds
      /\ config'[p] = Ensured(Merged(config[p])) /\ config'[p] \in PlainSettings
      /\ \A q \in Procs \ {p} : config'[q] = config[q]
  BY <1>2, <1>3, EnsureFits
<1>5. Alone(p)
  BY <1>4 DEF LoadFile, GoToWork, Goto, TypeInv, Typed, PlainOf, Alone
<1> QED  BY <1>2, <1>4, <1>5

\* What a process does after Set.
LEMMA SetFits ==
  ASSUME TypeInv, NEW p \in Procs, NEW key, NEW value, Admitted(key, value),
         Set(p, key, value)
  PROVE  /\ config' \in [Procs -> Settings] /\ setting' \in [Procs -> Keys]
         /\ config'[p][key] = Stored(key, value)
         /\ pc[p] = "ready" /\ pc'[p] = "store" /\ setting'[p] = key
         /\ \A k \in Keys \ {key} : config'[p][k] = config[p][k]
         /\ Alone(p)
<1>1. [config[p] EXCEPT ![key] = Stored(key, value)] \in Settings
  BY StoredFits DEF TypeInv, Typed, PlainOf
<1>2. config' = [config EXCEPT ![p] =
                   [config[p] EXCEPT ![key] = Stored(key, value)]]
  BY DEF Set
<1>3. config[p] \in Settings /\ DOMAIN config[p] = Keys
  BY OfSettings DEF TypeInv, Typed, PlainOf
<1>4. config' \in [Procs -> Settings]
      /\ config'[p] = [config[p] EXCEPT ![key] = Stored(key, value)]
  BY <1>1, <1>2 DEF TypeInv, Typed, PlainOf
<1>5. \A k \in Keys \ {key} : config'[p][k] = config[p][k]
  BY <1>3, <1>4
<1>6. key \in Keys  BY DEF Admitted, Keys
<1>7. setting' \in [Procs -> Keys] /\ setting'[p] = key
  BY <1>6 DEF Set, TypeInv, Typed, PlainOf
<1>8. pc[p] = "ready" /\ pc'[p] = "store"
  BY DEF Set, Goto, TypeInv, Typed, PlainOf
<1>9. \A q \in Procs \ {p} : config'[q] = config[q]
  BY <1>2 DEF TypeInv, Typed, PlainOf
<1>10. Alone(p)
  BY <1>9 DEF Set, Goto, TypeInv, Typed, PlainOf, Alone, histVars
<1>11. config'[p][key] = Stored(key, value)
  BY <1>3, <1>4, <1>6
<1> QED  BY <1>4, <1>5, <1>7, <1>8, <1>10, <1>11

-----------------------------------------------------------------------------
(* Every action preserves the parts of the invariant.                      *)

\* Steps keep the types.
LEMMA TypeStep ==
  ASSUME TypeInv, [Next]_vars
  PROVE  TypeInv'
<1>a. ASSUME NEW p \in Procs, Alone(p), PlainOf(p)'
      PROVE  \A q \in Procs : PlainOf(q)'
  BY <1>a DEF Alone, TypeInv, Typed, PlainOf, Plain
<1>b. ASSUME NEW p \in Procs, Exit(p)
      PROVE  /\ pc' \in [Procs -> Pcs] /\ config' \in [Procs -> Settings]
             /\ setting' \in [Procs -> Keys] /\ drawn' \subseteq DeviceIds
             /\ seen' \in [Procs -> PlainSettings \cup {Nothing, NoFile}]
             /\ \A q \in Procs : PlainOf(q)'
  <2>1. /\ pc' \in [Procs -> Pcs] /\ config' \in [Procs -> Settings]
        /\ setting' \in [Procs -> Keys] /\ drawn' = drawn
        /\ seen' \in [Procs -> PlainSettings \cup {Nothing, NoFile}]
        /\ \A k \in TextKeys : Plain(config'[p][k])
        /\ Alone(p)
    BY <1>b, ExitForgets
  <2>2. PlainOf(p)'
    BY <2>1 DEF Plain, PlainOf
  <2>3. \A q \in Procs : PlainOf(q)'
    BY <1>a, <2>1, <2>2
  <2> QED  BY <2>1, <2>3 DEF TypeInv, Typed, PlainOf
<1>1. ASSUME NEW p \in Procs, Construct(p) PROVE TypeInv'
  <2>1. Ensure(p, Blank) /\ Blank \in PlainSettings
    BY <1>1, BlankFits DEF Construct
  <2>2. /\ config' \in [Procs -> Settings] /\ drawn' \subseteq DeviceIds
        /\ config'[p] \in PlainSettings
        /\ \A q \in Procs \ {p} : config'[q] = config[q]
    BY <2>1, EnsureFits
  <2>3. Alone(p)
    BY <1>1, <2>2 DEF Construct, Goto, TypeInv, Typed, PlainOf, Alone, histVars
  <2>4. \A q \in Procs : PlainOf(q)'
    BY <1>a, <2>2, <2>3 DEF PlainSettings, Plain, PlainOf
  <2> QED  BY <1>1, <2>2, <2>4 DEF Construct, Goto, TypeInv, Typed, PlainOf,
                Pcs, histVars,
               shapeVars, Plain
<1>2. ASSUME NEW p \in Procs, LoadMissing(p) PROVE TypeInv'
  BY <1>2 DEF LoadMissing, Goto, TypeInv, Typed, PlainOf, Pcs, vars, procVars,
       histVars,
              shapeVars, Plain
<1>3. ASSUME NEW p \in Procs, LoadFile(p) PROVE TypeInv'
  <2>1. /\ config' \in [Procs -> Settings] /\ drawn' \subseteq DeviceIds
        /\ config'[p] \in PlainSettings /\ Alone(p)
    BY <1>3, LoadFits
  <2>2. used' \subseteq Texts
    BY <1>3, <2>1, OfSettings DEF LoadFile, GoToWork, TypeInv, Typed, PlainOf,
         PlainSettings
  <2>3. raced' \in BOOLEAN  BY <1>3 DEF LoadFile
  <2>4. \A q \in Procs : PlainOf(q)'
    BY <1>a, <2>1 DEF PlainSettings, Plain, PlainOf
  <2> QED  BY <1>3, <2>1, <2>2, <2>3, <2>4 DEF LoadFile, GoToWork, Goto,
               TypeInv, Typed, PlainOf, Pcs, shapeVars, Plain
<1>4. ASSUME NEW p \in Procs, LoadFails(p) PROVE TypeInv'
  <2>1. used' \subseteq Texts
    BY <1>4, OfSettings DEF LoadFails, GoToWork, TypeInv, Typed, PlainOf
  <2>2. faults' \in 0 .. MaxFaults
    BY <1>4, ConfigAssumption DEF LoadFails, Fault, TypeInv, Typed, PlainOf
  <2> QED  BY <1>4, <2>1, <2>2 DEF LoadFails, GoToWork, Goto, TypeInv, Typed,
                PlainOf, Pcs,
               shapeVars, Plain
<1>5. ASSUME NEW p \in Procs, NEW key, NEW value, Admitted(key, value),
            Set(p, key, value)
     PROVE  TypeInv'
  <2>1. /\ config' \in [Procs -> Settings] /\ setting' \in [Procs -> Keys]
        /\ pc[p] = "ready" /\ pc'[p] = "store" /\ setting'[p] = key
        /\ \A k \in Keys \ {key} : config'[p][k] = config[p][k]
        /\ Alone(p)
    BY <1>5, SetFits
  <2>2. \A q \in Procs : PlainOf(q)'
    <3>1. \A k \in TextKeys : Plain(config[p][k])
      BY <2>1 DEF TypeInv, Typed, PlainOf
    <3> QED  BY <1>a, <2>1, <3>1 DEF Keys, Plain, PlainOf
  <2>3. pc' \in [Procs -> Pcs]
    BY <1>5 DEF Set, Goto, TypeInv, Typed, PlainOf, Pcs
  <2>4. UNCHANGED <<file, drawn, used, asked, seen, raced, broken, blanked,
                    tangled, faults>>
    BY <1>5 DEF Set, histVars, shapeVars
  <2> QED  BY <2>1, <2>2, <2>3, <2>4 DEF TypeInv, Typed, PlainOf
<1>6. ASSUME NEW p \in Procs, SaveOpen(p) PROVE TypeInv'
  <2>1. raced' \in BOOLEAN  BY <1>6 DEF SaveOpen
  <2>2. Alone(p)  BY <1>6 DEF SaveOpen, Goto, TypeInv, Typed, PlainOf, Alone
  <2>3. \A q \in Procs : PlainOf(q)'
    <3>1. pc[p] = "create" => \A k \in TextKeys : Plain(config[p][k])
      BY DEF TypeInv, Typed, PlainOf
    <3> QED  BY <1>a, <1>6, <2>2, <3>1 DEF SaveOpen, Goto, TypeInv, Typed,
                  PlainOf, Plain
  <2> QED  BY <1>6, <2>1, <2>3 DEF SaveOpen, Goto, TypeInv, Typed, PlainOf,
                Pcs, shapeVars,
               Plain
<1>7. ASSUME NEW p \in Procs, CreateDone(p) PROVE TypeInv'
  <2>1. used' \subseteq Texts
    BY <1>7, OfSettings DEF CreateDone, GoToWork, TypeInv, Typed, PlainOf
  <2>2. Written(p) \in PlainSettings
    BY WrittenFits DEF TypeInv, Typed, PlainOf
  <2>3. blanked' \in BOOLEAN /\ tangled' \in BOOLEAN /\ file' = Written(p)
    BY <1>7 DEF CreateDone, Write, TypeInv, Typed, PlainOf
  <2> HIDE DEF Written
  <2> QED  BY <1>7, <2>1, <2>2, <2>3 DEF CreateDone, GoToWork, Goto, TypeInv,
                Typed, PlainOf,
               Pcs, Plain
<1>8. ASSUME NEW p \in Procs, StoreDone(p) PROVE TypeInv'
  <2>1. setting[p] \in Keys /\ config[p] \in Settings
    BY DEF TypeInv, Typed, PlainOf
  <2>2. asked' = [k \in DOMAIN asked \cup {setting[p]} |->
                    IF k = setting[p] THEN config[p][k] ELSE asked[k]]
    BY <1>8 DEF StoreDone
  <2>3. DOMAIN asked' \subseteq Keys /\ WellTyped(asked)'
    BY <2>1, <2>2, OfSettings DEF TypeInv, Typed, PlainOf, WellTyped, Keys,
         TextKeys
  <2>4. Written(p) \in PlainSettings
    BY WrittenFits DEF TypeInv, Typed, PlainOf
  <2>5. blanked' \in BOOLEAN /\ tangled' \in BOOLEAN /\ file' = Written(p)
    BY <1>8 DEF StoreDone, Write, TypeInv, Typed, PlainOf
  <2>6. Exit(p)  BY <1>8 DEF StoreDone
  <2>7. /\ pc' \in [Procs -> Pcs] /\ config' \in [Procs -> Settings]
        /\ setting' \in [Procs -> Keys] /\ drawn' \subseteq DeviceIds
        /\ seen' \in [Procs -> PlainSettings \cup {Nothing, NoFile}]
        /\ \A q \in Procs : PlainOf(q)'
    BY <1>b, <2>6
  <2> QED  BY <1>8, <2>3, <2>4, <2>5, <2>7
           DEF StoreDone, TypeInv, Typed, PlainOf, shapeVars
<1>9. ASSUME NEW p \in Procs, CreateFails(p) PROVE TypeInv'
  <2>1. used' \subseteq Texts
    BY <1>9, OfSettings DEF CreateFails, GoToWork, TypeInv, Typed, PlainOf
  <2>2. faults' \in 0 .. MaxFaults
    BY <1>9, ConfigAssumption DEF CreateFails, Fault, TypeInv, Typed, PlainOf
  <2> QED  BY <1>9, <2>1, <2>2 DEF CreateFails, GoToWork, Goto, TypeInv,
                Typed, PlainOf, Pcs,
               shapeVars, Plain
<1>10. ASSUME NEW p \in Procs, StoreFails(p) PROVE TypeInv'
  <2>1. faults' \in 0 .. MaxFaults
    BY <1>10, ConfigAssumption DEF StoreFails, Fault, TypeInv, Typed, PlainOf
  <2>2. Exit(p)  BY <1>10 DEF StoreFails
  <2>3. /\ pc' \in [Procs -> Pcs] /\ config' \in [Procs -> Settings]
        /\ setting' \in [Procs -> Keys] /\ drawn' \subseteq DeviceIds
        /\ seen' \in [Procs -> PlainSettings \cup {Nothing, NoFile}]
        /\ \A q \in Procs : PlainOf(q)'
    BY <1>b, <2>2
  <2> QED  BY <1>10, <2>1, <2>3
           DEF StoreFails, TypeInv, Typed, PlainOf, shapeVars
<1>11. ASSUME NEW p \in Procs, End(p) PROVE TypeInv'
  <2>1. Exit(p)  BY <1>11 DEF End
  <2>2. /\ pc' \in [Procs -> Pcs] /\ config' \in [Procs -> Settings]
        /\ setting' \in [Procs -> Keys] /\ drawn' \subseteq DeviceIds
        /\ seen' \in [Procs -> PlainSettings \cup {Nothing, NoFile}]
        /\ \A q \in Procs : PlainOf(q)'
    BY <1>b, <2>1
  <2> QED  BY <1>11, <2>2
           DEF End, TypeInv, Typed, PlainOf, shapeVars
<1>12. ASSUME NEW p \in Procs, Crash(p) PROVE TypeInv'
  <2>1. faults' \in 0 .. MaxFaults
    BY <1>12, ConfigAssumption DEF Crash, Fault, TypeInv, Typed, PlainOf
  <2>2. Exit(p) /\ broken' \in BOOLEAN  BY <1>12 DEF Crash, TypeInv, Typed,
                                             PlainOf
  <2>3. /\ pc' \in [Procs -> Pcs] /\ config' \in [Procs -> Settings]
        /\ setting' \in [Procs -> Keys] /\ drawn' \subseteq DeviceIds
        /\ seen' \in [Procs -> PlainSettings \cup {Nothing, NoFile}]
        /\ \A q \in Procs : PlainOf(q)'
    BY <1>b, <2>2
  <2> QED  BY <1>12, <2>1, <2>2, <2>3
           DEF Crash, TypeInv, Typed, PlainOf, shapeVars
<1>13. CASE UNCHANGED vars
  BY <1>13 DEF TypeInv, Typed, PlainOf, Pcs, vars, procVars, histVars,
       shapeVars, Plain
<1> QED
  BY <1>1, <1>2, <1>3, <1>4, <1>5, <1>6, <1>7, <1>8, <1>9, <1>10, <1>11,
       <1>12, <1>13 DEF Next, Admitted

\* A process that loads while nobody saves finds a whole file and takes all of
\* it.
LEMMA LoadFinds ==
  ASSUME TypeInv, FileInv, NEW p \in Procs, LoadFile(p), Clean'
  PROVE  /\ Clean /\ file \in PlainSettings /\ file' = file
         /\ \A k \in Keys : Loaded(k, config'[p][k], file[k])
         /\ file["device_id"] # Empty =>
              config'[p]["device_id"] = file["device_id"]
<1>1. Clean /\ Saving = {} /\ file # NoFile /\ file' = file
  BY DEF LoadFile, Clean
<1>2. file \in PlainSettings /\ file # Nothing
  BY <1>1, FilesDiffer DEF TypeInv, Typed, FileInv
<1>3. config'[p] = Ensured(file)
  BY <1>2, LoadFits
<1>4. file["device_id"] = Empty => DeviceIds \ drawn # {}
  <2>1. Merged(config[p]) = file
    <3>1. config[p] \in PlainSettings
      BY DEF LoadFile, TypeInv, Typed, PlainOf, PlainSettings
    <3> QED  BY <1>2, <3>1, MergedFits
  <2> QED  BY <2>1 DEF LoadFile, Ensure
<1>5. \A k \in Keys : Loaded(k, Ensured(file)[k], file[k])
  BY <1>2, <1>4, EnsuredFits
<1>6. file["device_id"] # Empty =>
        Ensured(file)["device_id"] = file["device_id"]
  <2>1. file \in [Keys -> Values]
    BY <1>2, OfSettings DEF PlainSettings
  <2> QED  BY <2>1 DEF Ensured, Keys, TextKeys
<1> QED  BY <1>1, <1>2, <1>3, <1>5, <1>6

\* A process that opens the file to save, and meets no other, finds what it has
\* seen before.
LEMMA SaveFinds ==
  ASSUME TypeInv, FileInv, NEW p \in Procs, SaveOpen(p), Clean'
  PROVE  /\ Clean /\ file = seen[p] /\ file' = Nothing
         /\ pc[p] = "create" => file = NoFile
         /\ pc[p] = "store" => file \in Settings
         /\ pc' = [pc EXCEPT ![p] =
                     IF pc[p] = "create" THEN "creating" ELSE "storing"]
<1>1. Clean /\ file = seen[p]
  BY DEF SaveOpen, Clean
<1> QED  BY <1>1 DEF SaveOpen, Goto, FileInv

\* Steps that meet no other save, and no fault, keep the file whole.
LEMMA FileStep ==
  ASSUME TypeInv, FileInv, [Next]_vars
  PROVE  FileInv'
<1>1. ASSUME NEW p \in Procs, Construct(p) PROVE FileInv'
  BY <1>1, FilesDiffer DEF Construct, Goto, TypeInv, Typed, FileInv, Clean,
       Saving, vars, procVars, histVars, shapeVars
<1>2. ASSUME NEW p \in Procs, LoadMissing(p) PROVE FileInv'
  BY <1>2, FilesDiffer DEF LoadMissing, Goto, TypeInv, Typed, FileInv, Clean,
       Saving, vars, procVars, histVars, shapeVars
<1>3. ASSUME NEW p \in Procs, LoadFile(p) PROVE FileInv'
  BY <1>3, FilesDiffer DEF LoadFile, GoToWork, Goto, TypeInv, Typed, FileInv,
       Clean, Saving, vars, procVars, histVars, shapeVars
<1>4. ASSUME NEW p \in Procs, LoadFails(p) PROVE FileInv'
  BY <1>4, FilesDiffer DEF LoadFails, Fault, GoToWork, Goto, TypeInv, Typed,
       FileInv, Clean, Saving, vars, procVars, histVars, shapeVars
<1>5. ASSUME NEW p \in Procs, NEW key, NEW value, Admitted(key, value),
            Set(p, key, value)
     PROVE  FileInv'
  BY <1>5, FilesDiffer DEF Set, Goto, TypeInv, Typed, FileInv, Clean, Saving,
       vars, procVars, histVars, shapeVars
<1>6. ASSUME NEW p \in Procs, SaveOpen(p) PROVE FileInv'
  BY <1>6, FilesDiffer DEF SaveOpen, Goto, TypeInv, Typed, FileInv, Clean,
       Saving, vars, procVars, histVars, shapeVars
<1>7. ASSUME NEW p \in Procs, CreateDone(p) PROVE FileInv'
  <2>1. Written(p) \in PlainSettings
    BY WrittenFits DEF TypeInv, Typed
  <2>2. file' = Written(p)
    BY <1>7 DEF CreateDone, Write
  <2> HIDE DEF Written
  <2> QED  BY <1>7, <2>1, <2>2, FilesDiffer DEF CreateDone, GoToWork, Goto,
               TypeInv, Typed, FileInv, Clean, Saving
<1>8. ASSUME NEW p \in Procs, StoreDone(p) PROVE FileInv'
  <2>1. Written(p) \in PlainSettings
    BY WrittenFits DEF TypeInv, Typed
  <2>2. file' = Written(p)
    BY <1>8 DEF StoreDone, Write
  <2> HIDE DEF Written
  <2> QED  BY <1>8, <2>1, <2>2, FilesDiffer DEF StoreDone, Exit, Goto, TypeInv,
               Typed, FileInv, Clean, Saving
<1>9. ASSUME NEW p \in Procs, CreateFails(p) PROVE FileInv'
  BY <1>9, FilesDiffer DEF CreateFails, Fault, GoToWork, Goto, TypeInv, Typed,
       FileInv, Clean, Saving
<1>10. ASSUME NEW p \in Procs, StoreFails(p) PROVE FileInv'
  BY <1>10, FilesDiffer DEF StoreFails, Fault, Exit, Goto, TypeInv, Typed,
       FileInv, Clean, Saving
<1>11. ASSUME NEW p \in Procs, End(p) PROVE FileInv'
  BY <1>11, FilesDiffer DEF End, Exit, Goto, TypeInv, Typed, FileInv, Clean,
       Saving
<1>12. ASSUME NEW p \in Procs, Crash(p) PROVE FileInv'
  BY <1>12, FilesDiffer DEF Crash, Fault, Exit, Goto, TypeInv, Typed, FileInv,
       Clean, Saving
<1>13. CASE UNCHANGED vars
  BY <1>13, FilesDiffer DEF TypeInv, Typed, FileInv, Clean, Saving, vars,
       procVars, histVars, shapeVars
<1> QED
  BY <1>1, <1>2, <1>3, <1>4, <1>5, <1>6, <1>7, <1>8, <1>9, <1>10, <1>11,
       <1>12, <1>13 DEF Next, Admitted

\* Steps that write no empty id keep the one drawn id.
LEMMA IdStep ==
  ASSUME TypeInv, FileInv, IdInv, [Next]_vars
  PROVE  IdInv'
<1> DEFINE One(id) ==
      /\ used \subseteq OneId(id)
      /\ file # Nothing => file["device_id"] \in OneId(id)
      /\ \A q \in Procs :
           pc[q] \in {"creating", "ready", "store", "storing"}
             => config[q]["device_id"] \in OneId(id)
<1>1. ASSUME NEW p \in Procs, Construct(p) PROVE IdInv'
  <2>1. \A q \in Procs \ {p} : pc'[q] = pc[q] /\ config'[q] = config[q]
    BY <1>1 DEF Construct, Ensure, Goto, TypeInv, Typed
  <2>2. pc'[p] = "load" /\ UNCHANGED <<file, used, raced, broken, blanked>>
    BY <1>1 DEF Construct, Goto, TypeInv, Typed, histVars, shapeVars
  <2> QED  BY <2>1, <2>2 DEF IdInv, Clean, OneId
<1>2. ASSUME NEW p \in Procs, LoadMissing(p) PROVE IdInv'
  BY <1>2, FilesDiffer DEF LoadMissing, Goto, TypeInv, Typed, FileInv, IdInv,
       Clean, Saving, OneId, vars, procVars, histVars, shapeVars
<1>3. ASSUME NEW p \in Procs, LoadFile(p) PROVE IdInv'
  <2>1. file' = file /\ blanked' = blanked
    BY <1>3 DEF LoadFile, shapeVars
  <2>2. ASSUME Clean', ~ blanked', file' # NoFile
        PROVE  \E id \in DeviceIds : One(id)'
    <3>1. Clean /\ file \in PlainSettings
          /\ (file["device_id"] # Empty
                => config'[p]["device_id"] = file["device_id"])
      BY <1>3, <2>2, LoadFinds
    <3>2. file["device_id"] # Empty /\ file # NoFile /\ file # Nothing
      BY <2>1, <2>2, <3>1, FilesDiffer DEF IdInv
    <3>3. PICK id \in DeviceIds : One(id)
      BY <2>1, <2>2, <3>1, <3>2 DEF IdInv
    <3>4. config'[p]["device_id"] \in OneId(id)
      BY <3>1, <3>2, <3>3
    <3>5. used' \subseteq OneId(id)
      BY <1>3, <3>3, <3>4 DEF LoadFile, GoToWork
    <3>6. Alone(p)
      BY <1>3, LoadFits
    <3> QED  BY <2>1, <3>3, <3>4, <3>5, <3>6 DEF Alone, OneId
  <2> QED  BY <2>1, <2>2 DEF IdInv, Clean, OneId
<1>4. ASSUME NEW p \in Procs, LoadFails(p) PROVE IdInv'
  BY <1>4 DEF LoadFails, IdInv, Clean, shapeVars
<1>5. ASSUME NEW p \in Procs, NEW key, NEW value, Admitted(key, value),
            Set(p, key, value)
     PROVE  IdInv'
  <2>1. UNCHANGED <<file, used, raced, broken, blanked>>
    BY <1>5 DEF Set, histVars, shapeVars
  <2>2. ASSUME Clean, ~ blanked, file # NoFile
        PROVE  \E id \in DeviceIds : One(id)'
    <3>1. PICK id \in DeviceIds : One(id)
      BY <2>2 DEF IdInv
    <3>2. /\ config'[p][key] = Stored(key, value)
          /\ \A k \in Keys \ {key} : config'[p][k] = config[p][k]
      BY <1>5, SetFits
    <3>6. pc[p] = "ready" /\ Alone(p)
      BY <1>5, SetFits
    <3>3. config[p]["device_id"] \in OneId(id) /\ DOMAIN config[p] = Keys
      BY <3>1, <3>6, OfSettings DEF TypeInv, Typed
    <3>4. key = "device_id" => Stored(key, value) \in GivenTexts
      BY <1>5, ConfigAssumption DEF Admitted, Stored
    <3>5. config'[p]["device_id"] \in OneId(id)
      BY <3>2, <3>3, <3>4 DEF OneId, Keys, TextKeys
    <3> QED  BY <2>1, <3>1, <3>5, <3>6 DEF Alone, OneId
  <2> QED  BY <2>1, <2>2 DEF IdInv, Clean, OneId
<1>6. ASSUME NEW p \in Procs, SaveOpen(p) PROVE IdInv'
  <2>1. file' = Nothing /\ UNCHANGED <<config, used, blanked>>
    BY <1>6 DEF SaveOpen, shapeVars
  <2>2. \A q \in Procs \ {p} : pc'[q] = pc[q]
    BY <1>6 DEF SaveOpen, Goto, TypeInv, Typed
  <2>3. ASSUME Clean', ~ blanked', file' # NoFile
        PROVE  \E id \in DeviceIds : One(id)'
    <3>1. Clean
      BY <1>6, <2>3, SaveFinds
    <3>2. CASE pc[p] = "create"
      <4>1. PICK id \in DeviceIds : config[p]["device_id"] \in OneId(id)
        <5>1. config[p]["device_id"] \in Texts
          BY OfSettings DEF TypeInv, Typed
        <5>2. DeviceIds # {}
          BY ConfigAssumption
        <5> QED  BY <5>1, <5>2 DEF OneId, GivenTexts
      <4>2. used = {} /\ \A q \in Procs :
                           pc[q] \in {"off", "load", "create", "ended"}
        BY <1>6, <2>3, <3>1, <3>2, SaveFinds DEF FileInv
      <4> QED  BY <2>1, <2>2, <4>1, <4>2 DEF OneId
    <3>3. CASE pc[p] = "store"
      <4>1. file # NoFile
        BY <1>6, <2>3, <3>3, SaveFinds, FilesDiffer
      <4>2. PICK id \in DeviceIds : One(id)
        BY <2>1, <2>3, <3>1, <4>1 DEF IdInv
      <4> QED  BY <2>1, <2>2, <3>3, <4>2 DEF OneId
    <3> QED  BY <1>6, <3>2, <3>3 DEF SaveOpen
  <2> QED  BY <2>1, <2>3, FilesDiffer DEF IdInv, Clean, OneId
<1>7. ASSUME NEW p \in Procs, CreateDone(p) PROVE IdInv'
  <2>1. /\ file' = Written(p) /\ UNCHANGED <<raced, broken>>
        /\ blanked' = (blanked \/ WrittenTexts(p).device_id = Empty)
        /\ pc[p] \in {"creating", "storing"}
    BY <1>7 DEF CreateDone, Write
  <2>2. /\ Written(p)["device_id"] = WrittenTexts(p).device_id
        /\ \/ Written(p)["device_id"] \in GivenTexts
           \/ Written(p)["device_id"] = FirstLine[config[p]["device_id"]]
    BY WrittenFits DEF TypeInv, Typed
  <2>3. file'["device_id"] # Empty \/ blanked'
    BY <2>1, <2>2
  <2>4. ASSUME Clean', ~ blanked'
        PROVE  \E id \in DeviceIds : One(id)'
    <3>1. Clean /\ ~ blanked /\ file # NoFile
      BY <2>1, <2>4 DEF Clean, FileInv
    <3>2. PICK id \in DeviceIds : One(id)
      BY <3>1 DEF IdInv
    <3>3. config[p]["device_id"] \in OneId(id)
      BY <2>1, <3>2
    <3>4. Written(p)["device_id"] \in OneId(id)
      BY <2>2, <3>3, ConfigAssumption DEF OneId
    <3>5. used' \subseteq OneId(id) /\ config' = config
      BY <1>7, <3>2, <3>3 DEF CreateDone, GoToWork
    <3>6. \A q \in Procs \ {p} : pc'[q] = pc[q]
      BY <1>7 DEF CreateDone, GoToWork, Goto, TypeInv, Typed
    <3> QED  BY <2>1, <3>2, <3>3, <3>4, <3>5, <3>6 DEF OneId
  <2> QED  BY <2>3, <2>4 DEF IdInv, Clean, OneId
<1>8. ASSUME NEW p \in Procs, StoreDone(p) PROVE IdInv'
  <2>1. /\ file' = Written(p) /\ UNCHANGED <<raced, broken>>
        /\ blanked' = (blanked \/ WrittenTexts(p).device_id = Empty)
        /\ pc[p] \in {"creating", "storing"}
    BY <1>8 DEF StoreDone, Write
  <2>2. /\ Written(p)["device_id"] = WrittenTexts(p).device_id
        /\ \/ Written(p)["device_id"] \in GivenTexts
           \/ Written(p)["device_id"] = FirstLine[config[p]["device_id"]]
    BY WrittenFits DEF TypeInv, Typed
  <2>3. file'["device_id"] # Empty \/ blanked'
    BY <2>1, <2>2
  <2>4. ASSUME Clean', ~ blanked'
        PROVE  \E id \in DeviceIds : One(id)'
    <3>1. Clean /\ ~ blanked /\ file # NoFile
      BY <2>1, <2>4 DEF Clean, FileInv
    <3>2. PICK id \in DeviceIds : One(id)
      BY <3>1 DEF IdInv
    <3>3. config[p]["device_id"] \in OneId(id)
      BY <2>1, <3>2
    <3>4. Written(p)["device_id"] \in OneId(id)
      BY <2>2, <3>3, ConfigAssumption DEF OneId
    <3>5. pc'[p] = "ended" /\ Alone(p) /\ used' = used
      BY <1>8, ExitForgets DEF StoreDone
    <3> QED  BY <2>1, <3>2, <3>4, <3>5 DEF Alone, OneId
  <2> QED  BY <2>3, <2>4 DEF IdInv, Clean, OneId
<1>9. ASSUME NEW p \in Procs, CreateFails(p) PROVE IdInv'
  BY <1>9 DEF CreateFails, IdInv, Clean, shapeVars
<1>10. ASSUME NEW p \in Procs, StoreFails(p) PROVE IdInv'
  <2>1. UNCHANGED <<file, used, blanked>> /\ (Clean' => Clean)
    BY <1>10 DEF StoreFails, shapeVars, Clean
  <2>2. pc'[p] = "ended" /\ Alone(p)
    BY <1>10, ExitForgets DEF StoreFails
  <2> QED  BY <2>1, <2>2 DEF IdInv, Alone, OneId
<1>11. ASSUME NEW p \in Procs, End(p) PROVE IdInv'
  <2>1. UNCHANGED <<file, used, blanked>> /\ (Clean' => Clean)
    BY <1>11 DEF End, shapeVars, Clean
  <2>2. pc'[p] = "ended" /\ Alone(p)
    BY <1>11, ExitForgets DEF End
  <2> QED  BY <2>1, <2>2 DEF IdInv, Alone, OneId
<1>12. ASSUME NEW p \in Procs, Crash(p) PROVE IdInv'
  <2>1. UNCHANGED <<file, used, blanked>> /\ (Clean' => Clean)
    BY <1>12 DEF Crash, shapeVars, Clean, Typed, TypeInv
  <2>2. pc'[p] = "ended" /\ Alone(p)
    BY <1>12, ExitForgets DEF Crash
  <2> QED  BY <2>1, <2>2 DEF IdInv, Alone, OneId
<1>13. CASE UNCHANGED vars
  BY <1>13, FilesDiffer DEF TypeInv, Typed, FileInv, IdInv, Clean, Saving,
       OneId, vars, procVars, histVars, shapeVars
<1> QED
  BY <1>1, <1>2, <1>3, <1>4, <1>5, <1>6, <1>7, <1>8, <1>9, <1>10, <1>11,
       <1>12, <1>13 DEF Next, Admitted

\* A process that is left alone still has what it found, or will write what was
\* asked for.
LEMMA ValueKept ==
  ASSUME NEW q \in Procs, ValueOK(q), pc'[q] = pc[q], config'[q] = config[q],
         seen'[q] = seen[q], setting'[q] = setting[q], asked' = asked
  PROVE  ValueOK(q)'
  BY DEF ValueOK

\* So are all the others, when one process takes a step.
LEMMA OthersKept ==
  ASSUME NEW p \in Procs, Alone(p), asked' = asked, Clean, ~ tangled, ValueInv
  PROVE  \A q \in Procs \ {p} : ValueOK(q)'
  BY ValueKept DEF Alone, ValueInv

\* Such steps keep what was asked for.
LEMMA ValueStep ==
  ASSUME TypeInv, FileInv, ValueInv, [Next]_vars
  PROVE  ValueInv'
<1>a. ASSUME NEW p \in Procs, Alone(p), ValueOK(p)', UNCHANGED <<file, asked>>,
            (Clean /\ ~ tangled)' => Clean /\ ~ tangled
      PROVE  ValueInv'
  BY <1>a, OthersKept DEF ValueInv
<1>1. ASSUME NEW p \in Procs, Construct(p) PROVE ValueInv'
  <2>1. /\ UNCHANGED <<file, asked>> /\ Alone(p)
        /\ (Clean /\ ~ tangled)' => Clean /\ ~ tangled
    BY <1>1 DEF Construct, Ensure, Goto, Alone, Clean, TypeInv, Typed,
            histVars, shapeVars
  <2>2. pc'[p] = "load"
    BY <1>1 DEF Construct, Ensure, Goto, Alone, Clean, TypeInv, Typed,
            histVars, shapeVars
  <2>3. ValueOK(p)'
    BY <2>2 DEF ValueOK
  <2> QED  BY <1>a, <2>1, <2>3
<1>2. ASSUME NEW p \in Procs, LoadMissing(p) PROVE ValueInv'
  <2>1. /\ UNCHANGED <<file, asked>> /\ Alone(p)
        /\ (Clean /\ ~ tangled)' => Clean /\ ~ tangled
    BY <1>2 DEF LoadMissing, Goto, Alone, Clean, TypeInv, Typed,
            histVars, shapeVars
  <2>2. pc'[p] = "create"
    BY <1>2 DEF LoadMissing, Goto, Alone, Clean, TypeInv, Typed,
            histVars, shapeVars
  <2>3. ValueOK(p)'
    BY <2>2 DEF ValueOK
  <2> QED  BY <1>a, <2>1, <2>3
<1>3. ASSUME NEW p \in Procs, LoadFile(p) PROVE ValueInv'
  <2> SUFFICES ASSUME Clean', ~ tangled' PROVE ValueInv'
    BY DEF ValueInv
  <2>1. /\ Clean /\ file' = file
        /\ \A k \in Keys : Loaded(k, config'[p][k], file[k])
    BY <1>3, LoadFinds
  <2>2. pc'[p] = "ready" /\ seen'[p] = file /\ asked' = asked
    BY <1>3 DEF LoadFile, GoToWork, Goto, TypeInv, Typed
  <2>3. tangled' = tangled
    BY <1>3 DEF LoadFile, shapeVars
  <2>4. Alone(p)
    BY <1>3, LoadFits
  <2>5. ValueOK(p)'
    BY <2>1, <2>2 DEF ValueOK
  <2> QED  BY <1>a, <2>1, <2>2, <2>3, <2>4, <2>5
<1>4. ASSUME NEW p \in Procs, LoadFails(p) PROVE ValueInv'
  BY <1>4 DEF LoadFails, ValueInv, Clean
<1>5. ASSUME NEW p \in Procs, NEW key, NEW value, Admitted(key, value),
            Set(p, key, value)
     PROVE  ValueInv'
  <2> SUFFICES ASSUME Clean', ~ tangled' PROVE ValueInv'
    BY DEF ValueInv
  <2>1. /\ UNCHANGED <<file, asked, seen>> /\ Clean /\ ~ tangled
    BY <1>5 DEF Set, Clean, histVars, shapeVars
  <2>2. /\ pc[p] = "ready" /\ pc'[p] = "store" /\ setting'[p] = key
        /\ \A k \in Keys \ {key} : config'[p][k] = config[p][k]
        /\ Alone(p)
    BY <1>5, SetFits
  <2>3. \A k \in Keys : Loaded(k, config[p][k], seen[p][k])
    BY <2>1, <2>2 DEF ValueInv, ValueOK
  <2>4. ValueOK(p)'
    BY <2>1, <2>2, <2>3 DEF ValueOK
  <2> QED  BY <1>a, <2>1, <2>2, <2>4
<1>6. ASSUME NEW p \in Procs, SaveOpen(p) PROVE ValueInv'
  <2> SUFFICES ASSUME Clean', ~ tangled' PROVE ValueInv'
    BY DEF ValueInv
  <2>1. Clean /\ file' = Nothing
    BY <1>6, SaveFinds
  <2>2. ~ tangled /\ UNCHANGED <<asked, config, seen, setting>>
    BY <1>6 DEF SaveOpen, shapeVars
  <2>3. Alone(p)
    BY <1>6 DEF SaveOpen, Goto, TypeInv, Typed, Alone
  <2>4. ValueOK(p)'
    <3>1. CASE pc[p] = "create"
      <4>1. DOMAIN asked = {} /\ pc'[p] = "creating"
        BY <1>6, <2>1, <3>1, SaveFinds DEF FileInv, TypeInv, Typed
      <4> QED  BY <2>2, <4>1 DEF ValueOK
    <3>2. CASE pc[p] = "store"
      <4>1. file \in Settings /\ file = seen[p] /\ pc'[p] = "storing"
        BY <1>6, <3>2, SaveFinds DEF TypeInv, Typed
      <4>2. \A k \in DOMAIN asked : Kept(k, file[k], asked[k])
        BY <2>1, <2>2, <4>1, FilesDiffer DEF ValueInv
      <4>3. \A k \in Keys \ {setting[p]} : Loaded(k, config[p][k], file[k])
        BY <2>1, <2>2, <3>2, <4>1 DEF ValueInv, ValueOK
      <4>4. \A k \in DOMAIN asked \ {setting[p]} :
              Kept(k, config[p][k], asked[k])
        BY <4>2, <4>3, LoadedKept DEF TypeInv, Typed
      <4> QED  BY <2>2, <4>1, <4>4 DEF ValueOK
    <3> QED  BY <1>6, <3>1, <3>2 DEF SaveOpen
  <2>5. \A q \in Procs : ValueOK(q)'
    BY <2>1, <2>2, <2>3, <2>4, OthersKept
  <2> QED  BY <2>1, <2>5 DEF ValueInv
<1>7. ASSUME NEW p \in Procs, CreateDone(p) PROVE ValueInv'
  <2> SUFFICES ASSUME Clean', ~ tangled' PROVE ValueInv'
    BY DEF ValueInv
  <2>1. /\ file' = Written(p) /\ Clean /\ ~ tangled
        /\ \A k \in TextKeys : MoreLines[config[p][k]] = Nothing
    BY <1>7 DEF CreateDone, Write, Clean
  <2>2. /\ \A k \in TextKeys : Written(p)[k] = FirstLine[config[p][k]]
        /\ Written(p)["listen_port"] = config[p]["listen_port"]
    BY <2>1, WrittenFits DEF TypeInv, Typed
  <2>3. /\ pc[p] = "creating" /\ pc'[p] = "ready" /\ seen'[p] = Written(p)
        /\ UNCHANGED <<asked, config, setting>>
    BY <1>7, <2>1 DEF CreateDone, GoToWork, Goto, TypeInv, Typed
  <2>4. Alone(p)
    BY <1>7 DEF CreateDone, GoToWork, Goto, TypeInv, Typed, Alone
  <2>5. \A k \in TextKeys : FirstLine[config[p][k]] = config[p][k]
    BY <2>3 DEF TypeInv, PlainOf, Plain
  <2>6. \A k \in Keys : Loaded(k, config[p][k], Written(p)[k])
    BY <2>2, <2>5 DEF Loaded, Keys
  <2>7. ValueOK(p)'
    BY <2>3, <2>6 DEF ValueOK
  <2>8. DOMAIN asked' = {}
    BY <2>1, <2>3 DEF ValueInv, ValueOK
  <2>9. \A q \in Procs : ValueOK(q)'
    BY <2>1, <2>3, <2>4, <2>7, OthersKept
  <2> QED  BY <2>8, <2>9 DEF ValueInv
<1>8. ASSUME NEW p \in Procs, StoreDone(p) PROVE ValueInv'
  <2> SUFFICES ASSUME Clean', ~ tangled' PROVE ValueInv'
    BY DEF ValueInv
  <2>1. /\ file' = Written(p) /\ Clean /\ ~ tangled
        /\ \A k \in TextKeys : MoreLines[config[p][k]] = Nothing
    BY <1>8 DEF StoreDone, Write, Clean
  <2>2. /\ \A k \in TextKeys : Written(p)[k] = FirstLine[config[p][k]]
        /\ Written(p)["listen_port"] = config[p]["listen_port"]
    BY <2>1, WrittenFits DEF TypeInv, Typed
  <2>3. /\ pc[p] = "storing" /\ setting[p] \in Keys
        /\ DOMAIN asked \subseteq Keys
        /\ asked' = [k \in DOMAIN asked \cup {setting[p]} |->
                       IF k = setting[p] THEN config[p][k] ELSE asked[k]]
    BY <1>8 DEF StoreDone, TypeInv, Typed
  <2>4. pc'[p] = "ended" /\ Alone(p)
    BY <1>8, ExitForgets DEF StoreDone
  <2>5. Kept(setting[p], Written(p)[setting[p]], asked'[setting[p]])
    BY <2>2, <2>3 DEF Kept, Keys
  <2>6. ASSUME NEW k \in DOMAIN asked \ {setting[p]}
        PROVE  Kept(k, Written(p)[k], asked'[k])
    <3>1. Kept(k, config[p][k], asked[k]) /\ asked'[k] = asked[k]
      BY <2>1, <2>3 DEF ValueInv, ValueOK
    <3>2. k \in TextKeys => FirstLine[config[p][k]] = config[p][k]
      BY <2>6, <2>3 DEF TypeInv, PlainOf, Plain
    <3>3. Written(p)[k] = config[p][k]
      BY <2>2, <2>3, <3>2 DEF Keys
    <3> QED  BY <3>1, <3>3
  <2>7. \A k \in DOMAIN asked' : Kept(k, Written(p)[k], asked'[k])
    BY <2>3, <2>5, <2>6
  <2>8. \A q \in Procs \ {p} : pc[q] \notin {"creating", "storing"}
    BY <2>1, <2>3 DEF FileInv, Saving
  <2>9. \A q \in Procs : ValueOK(q)'
    BY <2>1, <2>4, <2>8 DEF ValueInv, ValueOK, Alone
  <2> QED  BY <2>1, <2>7, <2>9 DEF ValueInv
<1>9. ASSUME NEW p \in Procs, CreateFails(p) PROVE ValueInv'
  BY <1>9 DEF CreateFails, ValueInv, Clean
<1>10. ASSUME NEW p \in Procs, StoreFails(p) PROVE ValueInv'
  <2>1. /\ UNCHANGED <<file, asked>>
        /\ (Clean /\ ~ tangled)' => Clean /\ ~ tangled
    BY <1>10 DEF StoreFails, shapeVars, Clean, TypeInv, Typed
  <2>2. pc'[p] = "ended" /\ Alone(p)
    BY <1>10, ExitForgets DEF StoreFails
  <2>3. ValueOK(p)'
    BY <2>2 DEF ValueOK
  <2> QED  BY <1>a, <2>1, <2>2, <2>3
<1>11. ASSUME NEW p \in Procs, End(p) PROVE ValueInv'
  <2>1. /\ UNCHANGED <<file, asked>>
        /\ (Clean /\ ~ tangled)' => Clean /\ ~ tangled
    BY <1>11 DEF End, shapeVars, Clean, TypeInv, Typed
  <2>2. pc'[p] = "ended" /\ Alone(p)
    BY <1>11, ExitForgets DEF End
  <2>3. ValueOK(p)'
    BY <2>2 DEF ValueOK
  <2> QED  BY <1>a, <2>1, <2>2, <2>3
<1>12. ASSUME NEW p \in Procs, Crash(p) PROVE ValueInv'
  <2>1. /\ UNCHANGED <<file, asked>>
        /\ (Clean /\ ~ tangled)' => Clean /\ ~ tangled
    BY <1>12 DEF Crash, shapeVars, Clean, TypeInv, Typed
  <2>2. pc'[p] = "ended" /\ Alone(p)
    BY <1>12, ExitForgets DEF Crash
  <2>3. ValueOK(p)'
    BY <2>2 DEF ValueOK
  <2> QED  BY <1>a, <2>1, <2>2, <2>3
<1>13. CASE UNCHANGED vars
  BY <1>13 DEF ValueInv, ValueOK, Clean, vars, procVars, histVars, shapeVars
<1> QED
  BY <1>1, <1>2, <1>3, <1>4, <1>5, <1>6, <1>7, <1>8, <1>9, <1>10, <1>11,
       <1>12, <1>13 DEF Next, Admitted

-----------------------------------------------------------------------------
(* The theorems.                                                           *)

\* The initial state satisfies the invariant.
LEMMA InitInv == Init => IInv
<1> SUFFICES ASSUME Init PROVE IInv
  OBVIOUS
<1>1. TypeInv
  <2>1. Blank \in Settings /\ \A k \in TextKeys : Plain(Blank[k])
    BY BlankFits DEF PlainSettings
  <2>2. 0 \in 0 .. MaxFaults
    BY ConfigAssumption
  <2>3. DOMAIN asked \subseteq Keys /\ WellTyped(asked)
    BY DEF Init, Nothing, WellTyped
  <2>4. Typed
    BY <2>1, <2>2, <2>3 DEF Init, Typed, Pcs, Keys, TextKeys
  <2>5. \A p \in Procs : PlainOf(p)
    BY <2>1 DEF Init, PlainOf
  <2> QED  BY <2>4, <2>5 DEF TypeInv
<1>2. FileInv /\ IdInv /\ ValueInv
  BY FilesDiffer
     DEF Init, FileInv, IdInv, ValueInv, ValueOK, Saving, Nothing
<1> QED  BY <1>1, <1>2 DEF IInv

\* IInv is an invariant of the processes that share config.ini.
THEOREM Invariance == Spec => []IInv
<1>1. IInv /\ [Next]_vars => IInv'
  BY TypeStep, FileStep, IdStep, ValueStep DEF IInv
<1> QED  BY <1>1, InitInv, PTL DEF Spec

\* What is loaded, set and saved keeps its type: a port has sixteen bits,
\* whatever number the user gave and whatever further lines a text had.
THEOREM TypeCorrect == Spec => []TypeOK
<1>1. IInv => TypeOK
  <2> SUFFICES ASSUME Typed PROVE TypeOK
    BY DEF IInv, TypeInv
  <2>1. WellTyped(Nothing)
    BY DEF WellTyped, Nothing
  <2>2. \A s \in PlainSettings \cup {Nothing} : WellTyped(s)
    BY <2>1, OfSettings DEF PlainSettings
  <2>3. \A p \in Procs : DOMAIN config[p] = Keys /\ WellTyped(config[p])
    BY OfSettings DEF Typed
  <2>4. \A p \in Procs : seen[p] # NoFile => WellTyped(seen[p])
    BY <2>2 DEF Typed
  <2>5. {raced, broken, blanked, tangled} \subseteq BOOLEAN
    BY DEF Typed
  <2> QED  BY <2>2, <2>3, <2>4, <2>5 DEF Typed, TypeOK
<1> QED  BY <1>1, Invariance, PTL

\* However many processes are run, they go by one drawn device id, unless a
\* save was cut short, failed or met another one, or a saved file says an empty
\* id.
THEOREM IdentityIsKept == Spec => []IdentityKept
<1>1. IInv => IdentityKept
  <2> SUFFICES ASSUME IInv, Clean, ~ blanked
               PROVE  Cardinality(used \cap DeviceIds) <= 1
    BY DEF IdentityKept, Clean
  <2>1. PICK id : used \cap DeviceIds \subseteq {id}
    <3>1. CASE file = NoFile
      BY <3>1 DEF IInv, FileInv
    <3>2. CASE file # NoFile
      BY <3>2 DEF IInv, IdInv, OneId, GivenTexts
    <3> QED  BY <3>1, <3>2
  <2>2. used \cap DeviceIds = {} \/ used \cap DeviceIds = {id}
    BY <2>1
  <2>3. Cardinality({}) = 0 /\ Cardinality({id}) = 1
    BY FS_EmptySet, FS_Singleton
  <2> QED  BY <2>2, <2>3
<1> QED  BY <1>1, Invariance, PTL

\* A key keeps the first line of what it was last given, however many processes
\* load and save the file after it, unless saves meet or fail or the other
\* lines of a text are settings.
THEOREM LastSetIsKept == Spec => []LastSetWins
<1>1. IInv => LastSetWins
  <2> SUFFICES ASSUME IInv, Clean, ~ tangled, Saving = {},
                      NEW k \in DOMAIN asked
               PROVE  k \in DOMAIN file /\ Kept(k, file[k], asked[k])
    BY DEF LastSetWins, Clean, Kept
  <2>1. file \in PlainSettings /\ k \in Keys
    BY DEF IInv, TypeInv, Typed, FileInv
  <2>2. DOMAIN file = Keys /\ file \notin {Nothing, NoFile}
    BY <2>1, OfSettings, FilesDiffer DEF PlainSettings
  <2> QED  BY <2>1, <2>2 DEF IInv, ValueInv
<1> QED  BY <1>1, Invariance, PTL

=============================================================================
