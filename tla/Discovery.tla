------------------------------ MODULE Discovery ------------------------------
(***************************************************************************)
(* Class LanDiscovery (src/discovery/lan_discovery.cpp): the devices that  *)
(* run `lantalk listen` broadcast their presence, and one device scans.    *)
(*                                                                         *)
(* Time passes in ticks of 100 ms, the unit in which announceLoop sleeps.  *)
(* The network may lose, duplicate, delay and reorder datagrams, and other *)
(* programs may broadcast to the port.  A datagram keeps its lengths and   *)
(* drops the name and the platform that they measure.                      *)
(***************************************************************************)
EXTENDS Naturals, Sequences, FiniteSets

CONSTANTS
  Devices,   \* ids of the devices that may run `lantalk listen`
  Self,      \* the device that scans; it may listen as well
  Ports,     \* the listen ports that each device may be started with
  Foreign,   \* what other programs and versions broadcast
  Period,    \* ticks between two announcements: 300
  Window,    \* ticks that a scan takes: 30
  MaxNet,    \* bound: datagrams under way at once
  Ideal      \* nothing is lost, late or twice, and no thread lags

\* Magic, version, port, device id and the length of the name.
FixedSize == 4 + 1 + 2 + 36 + 1

\* A display name of any length and the platform "linux".
NameLen == 3
PlatformLen == 5

Datagram(id, port) ==
  [id |-> id, port |-> port, magic |-> TRUE, nameLen |-> NameLen,
   len |-> FixedSize + NameLen + 1 + PlatformLen]

Announcements == UNION {{Datagram(id, p) : p \in Ports[id]} : id \in Devices}

\* Every device id that can be heard of.
Ids == Devices \cup {d.id : d \in Foreign}

ASSUME DiscoveryAssumption ==
  /\ Self \in Devices
  /\ IsFiniteSet(Ids)
  /\ Ports \in [Devices -> SUBSET Nat]
  /\ \A d \in Devices : Ports[d] # {}
  /\ Period \in Nat \ {0}
  /\ Window \in Nat
  /\ MaxNet \in Nat
  /\ Ideal \in BOOLEAN
  /\ \A d \in Foreign :
       /\ d.port \in Nat
       /\ d.magic \in BOOLEAN
       /\ {d.nameLen, d.len} \subseteq Nat

VARIABLES
  running,   \* running_ of each device
  main,      \* where the main thread of each device is
  thread,    \* where its announceThread_ is
  slept,     \* i in announceLoop
  port,      \* config_.listenPort
  net,       \* the datagrams under way
  scan,      \* where scan() is
  left,      \* ticks until endTime
  results,
  called,    \* history: the ids for which onFound was called
  last,      \* history: the last good datagram received from each device
  present    \* history: the devices that announce since the scan began

hostVars == <<running, main, thread, slept, port>>
scanVars == <<scan, left, results, called, last>>
vars == <<hostVars, net, scanVars, present>>

\* Type invariant; a scan lists at most every other device.
TypeOK ==
  /\ running \in [Devices -> BOOLEAN]
  /\ main \in [Devices -> {"off", "up", "joining"}]
  /\ thread \in [Devices -> {"none", "test", "send", "nap", "asleep"}]
  /\ slept \in [Devices -> 0 .. Period]
  /\ \A d \in Devices : port[d] \in Ports[d]
  /\ net \subseteq Announcements \cup Foreign
  /\ scan \in {"off", "on", "over"}
  /\ left \in 0 .. Window
  /\ Len(results) < Cardinality(Ids)
  /\ \A i \in DOMAIN results : results[i] \in Announcements \cup Foreign
  /\ called \in Seq(Ids)
  /\ DOMAIN last \subseteq Ids
  /\ present \subseteq Devices

NoneHeard == [id \in {} |-> 0]

Init ==
  /\ running = [d \in Devices |-> FALSE]
  /\ main = [d \in Devices |-> "off"]
  /\ thread = [d \in Devices |-> "none"]
  /\ slept = [d \in Devices |-> 0]
  /\ port = [d \in Devices |-> CHOOSE p \in Ports[d] : TRUE]
  /\ net = {}
  /\ scan = "off"
  /\ left = 0
  /\ results = <<>>
  /\ called = <<>>
  /\ last = NoneHeard
  /\ present = {}

-----------------------------------------------------------------------------
(* The listening devices. *)

Goto(d, to) == thread' = [thread EXCEPT ![d] = to]

\* startAnnounce() of a new LanDiscovery, whose process may have been given
\* another port than the one before.
StartAnnounce(d) ==
  /\ main[d] = "off"
  /\ main' = [main EXCEPT ![d] = "up"]
  /\ running' = [running EXCEPT ![d] = TRUE]
  /\ Goto(d, "test")
  /\ \E p \in Ports[d] : port' = [port EXCEPT ![d] = p]
  /\ UNCHANGED <<slept, net, scanVars, present>>

\* Mutant of AfterStop: running_ is left as it is.
StillRunning(d) == running[d]

\* running_ after stopAnnounce().
AfterStop(d) == FALSE

\* stopAnnounce() clears running_ ...
StopAnnounce(d) ==
  /\ main[d] = "up"
  /\ running' = [running EXCEPT ![d] = AfterStop(d)]
  /\ main' = [main EXCEPT ![d] = "joining"]
  /\ present' = present \ {d}
  /\ UNCHANGED <<thread, slept, port, net, scanVars>>

\* Mutant of Joinable: the thread is detached.
Detached(d) == TRUE

\* announceThread_ has ended, or was never started.
Joinable(d) == thread[d] = "none"

\* ... and joins announceThread_.
Join(d) ==
  /\ main[d] = "joining"
  /\ Joinable(d)
  /\ main' = [main EXCEPT ![d] = "off"]
  /\ UNCHANGED <<running, thread, slept, port, net, scanVars, present>>

\* while (running_) in announceLoop.
LoopTest(d) ==
  /\ thread[d] = "test"
  /\ Goto(d, IF running[d] THEN "send" ELSE "none")
  /\ UNCHANGED <<running, main, slept, port, net, scanVars, present>>

Send(datagrams) ==
  /\ net' = net \cup datagrams
  /\ Cardinality(net') <= MaxNet

\* announce(), which ignores every error: the datagram may never leave.
Announce(d) ==
  /\ thread[d] = "send"
  /\ \/ Send({Datagram(d, port[d])})
     \/ ~Ideal /\ net' = net
  /\ Goto(d, "nap")
  /\ UNCHANGED <<running, main, slept, port, scanVars, present>>

\* Mutant of MoreNaps: one sleep too many.
OneNapMore(d) == slept[d] <= Period /\ running[d]

\* i < 300 && running_
MoreNaps(d) == slept[d] < Period /\ running[d]

\* Mutant of AfterNaps: the thread ends after its first round.
EndsAfterNaps == "none"

\* Where announceLoop goes from its sleep.
AfterNaps == "test"

\* i ends with its loop.
Nap(d) ==
  /\ thread[d] = "nap"
  /\ IF MoreNaps(d)
       THEN Goto(d, "asleep") /\ UNCHANGED slept
       ELSE Goto(d, AfterNaps) /\ slept' = [slept EXCEPT ![d] = 0]
  /\ UNCHANGED <<running, main, port, net, scanVars, present>>

-----------------------------------------------------------------------------
(* Time and the network. *)

Asleep == {d \in Devices : thread[d] = "asleep"}

Lagging == {d \in Devices : thread[d] \in {"test", "send", "nap"}}

\* 100 ms pass, for the sleeping threads and for the scan.
Tick ==
  /\ Asleep # {} \/ left > 0
  /\ Ideal => Lagging = {} /\ net = {}
  /\ thread' = [d \in Devices |-> IF d \in Asleep THEN "nap" ELSE thread[d]]
  /\ slept' = [d \in Devices |->
                 IF d \in Asleep THEN slept[d] + 1 ELSE slept[d]]
  /\ left' = IF left > 0 THEN left - 1 ELSE 0
  /\ UNCHANGED <<running, main, port, net, scan, results, called, last,
                 present>>

\* A datagram finds no socket bound to the port, or gets lost.
Lose(d) ==
  /\ d \in net
  /\ Ideal => scan # "on"
  /\ net' = net \ {d}
  /\ UNCHANGED <<hostVars, scanVars, present>>

ForeignSend(d) ==
  /\ d \notin net
  /\ Send({d})
  /\ UNCHANGED <<hostVars, scanVars, present>>

-----------------------------------------------------------------------------
(* The scanning device. *)

\* scan() binds the port ...
ScanBegin ==
  /\ scan # "on"
  /\ scan' = "on"
  /\ left' = Window
  /\ results' = <<>>
  /\ called' = <<>>
  /\ last' = NoneHeard
  /\ present' = {d \in Devices \ {Self} : main[d] = "up"}
  /\ UNCHANGED <<hostVars, net>>

\* ... or cannot, and finds nothing.
BindFails ==
  /\ scan # "on"
  /\ ~Ideal
  /\ scan' = "over"
  /\ results' = <<>>
  /\ called' = <<>>
  /\ last' = NoneHeard
  /\ UNCHANGED <<hostVars, net, left, present>>

\* parseAnnouncePacket returns a peer: a platform that is cut short is let
\* pass, a name that is cut short is not.
Parses(d) ==
  /\ d.len >= FixedSize
  /\ d.magic
  /\ FixedSize + d.nameLen <= d.len

Known(id) == {i \in DOMAIN results : results[i].id = id}

\* Mutant of Replaced: a device that is listed is left as it is.
KeptAsListed(d) == results

\* p = *peerOpt
Replaced(d) ==
  [i \in DOMAIN results |-> IF i \in Known(d.id) THEN d ELSE results[i]]

\* A device that is listed is replaced, another one is added and reported.
Record(d) ==
  IF Known(d.id) # {}
    THEN /\ results' = Replaced(d)
         /\ UNCHANGED called
    ELSE /\ results' = Append(results, d)
         /\ called' = Append(called, d.id)

\* What a scan should take note of: a complete announcement by another.
Good(d) == d.magic /\ d.len >= FixedSize + d.nameLen /\ d.id # Self

\* recvfrom() returns a datagram before endTime; a copy may follow.
ScanRecv(d) ==
  /\ scan = "on"
  /\ left > 0
  /\ d \in net
  /\ \/ net' = net \ {d}
     \/ ~Ideal /\ net' = net
  /\ IF Parses(d) /\ d.id # Self
       THEN Record(d)
       ELSE UNCHANGED <<results, called>>
  /\ last' = IF Good(d) THEN [id \in DOMAIN last \cup {d.id} |->
                                IF id = d.id THEN d ELSE last[id]]
                        ELSE last
  /\ UNCHANGED <<hostVars, scan, left, present>>

\* Mutant of TimeIsUp: endTime is looked at only when nothing is there.
UpAndQuiet == left = 0 /\ net = {}

\* endTime is looked at in every round.
TimeIsUp == left = 0

ScanEnd ==
  /\ scan = "on"
  /\ TimeIsUp
  /\ scan' = "over"
  /\ UNCHANGED <<hostVars, net, left, results, called, last, present>>

Threads(d) == LoopTest(d) \/ Announce(d) \/ Nap(d) \/ Join(d)

Next ==
  \/ \E d \in Devices :
       \/ StartAnnounce(d)
       \/ StopAnnounce(d)
       \/ Join(d)
       \/ LoopTest(d)
       \/ Announce(d)
       \/ Nap(d)
  \/ Tick
  \/ \E d \in net : Lose(d)
  \/ \E d \in Foreign : ForeignSend(d)
  \/ ScanBegin
  \/ BindFails
  \/ \E d \in net : ScanRecv(d)
  \/ ScanEnd

Spec == Init /\ [][Next]_vars

\* Threads run, time passes; nothing makes a user act or a datagram arrive.
Fairness ==
  /\ \A d \in Devices : WF_vars(Threads(d))
  /\ WF_vars(Tick)
  /\ WF_vars(ScanEnd)

FairSpec == Spec /\ Fairness

-----------------------------------------------------------------------------
\* scan() returns each device of which a complete announcement came through,
\* once and with the last one, and nothing else: not the device itself, not a
\* datagram that is cut short (parseAnnouncePacket, the loop over results).
\* runScan's callback numbers the devices in that order, each once, however
\* often they are heard.
ListsWhatWasHeard ==
  /\ Len(results) = Cardinality(DOMAIN last)
  /\ \A id \in DOMAIN last : \E i \in DOMAIN results : results[i] = last[id]
  /\ called = [i \in DOMAIN results |-> results[i].id]

\* Once stopAnnounce() has returned, or before startAnnounce(), a device does
\* not announce itself.
SilentWhenStopped ==
  [][\A d \in net' \ net : d \in Foreign \/ main[d.id] # "off"]_vars

\* stopAnnounce() returns, from wherever in its loop the thread is.
StopAnnounceReturns ==
  \A d \in Devices : main[d] = "joining" ~> main[d] = "off"

\* scan() returns, however many datagrams keep coming.
ScanReturns == scan = "on" ~> scan # "on"

\* A listener that stays announces again and again, not only once.
KeepsAnnouncing ==
  \A d \in Devices : main[d] = "up" ~> (thread[d] = "send" \/ main[d] # "up")

\* "`lantalk scan` finds peers automatically via UDP broadcast" (README.md):
\* a scan lists every other device that announced itself all the time.
ScanFindsPeers ==
  scan = "over" => \A d \in present : \E i \in DOMAIN results : results[i].id = d

=============================================================================
