--------------------------- MODULE DiscoveryProofs ---------------------------
(***************************************************************************)
(* Proofs about Discovery, for any number of devices, ports and foreign    *)
(* datagrams, any period and window, on an ideal and on a real network.    *)
(***************************************************************************)
EXTENDS Discovery, FiniteSetTheorems, TLAPS

-----------------------------------------------------------------------------
(* The inductive invariant.                                                *)

\* Whatever can arrive at the port.
Datagrams == Announcements \cup Foreign

\* TypeOK but for the bound on the results, and that what it types are
\* functions and sequences.
TypeInv ==
  /\ running \in [Devices -> BOOLEAN]
  /\ main \in [Devices -> {"off", "up", "joining"}]
  /\ thread \in [Devices -> {"none", "test", "send", "nap", "asleep"}]
  /\ slept \in [Devices -> 0 .. Period]
  /\ port \in [Devices -> Nat]
  /\ \A d \in Devices : port[d] \in Ports[d]
  /\ net \subseteq Datagrams
  /\ scan \in {"off", "on", "over"}
  /\ left \in 0 .. Window
  /\ results \in Seq(Datagrams)
  /\ called \in Seq(Ids)
  /\ DOMAIN last \subseteq Ids
  /\ present \subseteq Devices

\* A device that is off has no thread, and a thread that sleeps has not slept
\* for the whole period.
ThreadInv ==
  \A d \in Devices :
    /\ main[d] = "off" => thread[d] = "none"
    /\ thread[d] = "asleep" => slept[d] < Period

\* The results are the devices that were heard, each once and with its last
\* datagram.
HeardInv ==
  /\ Self \notin DOMAIN last
  /\ \A id \in DOMAIN last :
       last[id].id = id /\ \E i \in DOMAIN results : results[i] = last[id]
  /\ \A i \in DOMAIN results :
       results[i].id \in DOMAIN last /\ results[i] = last[results[i].id]
  /\ \A i, j \in DOMAIN results : results[i].id = results[j].id => i = j
  /\ Len(results) = Cardinality(DOMAIN last)
  /\ called = [i \in DOMAIN results |-> results[i].id]

IInv == TypeInv /\ ThreadInv /\ HeardInv

-----------------------------------------------------------------------------
(* Lemmas on the operators.                                                *)

\* An announcement is a datagram, and bears the id of its device.
LEMMA AnnouncementsFit ==
  ASSUME NEW d \in Devices, NEW p \in Ports[d]
  PROVE  Datagram(d, p) \in Datagrams /\ Datagram(d, p).id = d
<1>1. Datagram(d, p) \in Announcements
  BY DEF Announcements
<1> QED  BY <1>1 DEF Datagrams, Datagram

\* The fields of a datagram.
LEMMA OfDatagrams ==
  ASSUME NEW d \in Datagrams
  PROVE  /\ d.id \in Ids
         /\ d.magic \in BOOLEAN
         /\ d.nameLen \in Nat /\ d.len \in Nat
<1>1. CASE d \in Foreign
  BY <1>1, DiscoveryAssumption DEF Ids
<1>2. CASE d \in Announcements
  <2>1. PICK id \in Devices : d \in {Datagram(id, p) : p \in Ports[id]}
    BY <1>2 DEF Announcements
  <2>2. PICK p \in Ports[id] : d = Datagram(id, p)
    BY <2>1
  <2> QED  BY <2>2 DEF Datagram, Ids, FixedSize, NameLen, PlatformLen
<1> QED  BY <1>1, <1>2 DEF Datagrams

\* parseAnnouncePacket, with the test of the own id, accepts what a scan should
\* take note of and nothing else.
LEMMA ParsesTheGood ==
  ASSUME NEW d \in Datagrams
  PROVE  Parses(d) /\ d.id # Self <=> Good(d)
<1>1. FixedSize \in Nat
  BY DEF FixedSize
<1> HIDE DEF FixedSize
<1> QED  BY <1>1, OfDatagrams DEF Parses, Good

-----------------------------------------------------------------------------
(* Every action preserves the parts of the invariant.                      *)

\* Steps keep the types.
LEMMA TypeStep ==
  ASSUME TypeInv, ThreadInv, [Next]_vars
  PROVE  TypeInv'
<1> USE DiscoveryAssumption
<1>1. ASSUME NEW d \in Devices, StartAnnounce(d) PROVE TypeInv'
  <2>1. PICK p \in Ports[d] : port' = [port EXCEPT ![d] = p]
    BY <1>1 DEF StartAnnounce
  <2>2. p \in Nat  OBVIOUS
  <2>3. port' \in [Devices -> Nat] /\ \A e \in Devices : port'[e] \in Ports[e]
    BY <2>1, <2>2 DEF TypeInv
  <2> QED  BY <1>1, <2>3 DEF StartAnnounce, Goto, TypeInv, scanVars
<1>2. ASSUME NEW d \in Devices, StopAnnounce(d) PROVE TypeInv'
  BY <1>2 DEF StopAnnounce, AfterStop, TypeInv, vars, hostVars, scanVars
<1>3. ASSUME NEW d \in Devices, Join(d) PROVE TypeInv'
  BY <1>3 DEF Join, Joinable, TypeInv, vars, hostVars, scanVars
<1>4. ASSUME NEW d \in Devices, LoopTest(d) PROVE TypeInv'
  BY <1>4 DEF LoopTest, Goto, TypeInv, vars, hostVars, scanVars
<1>5. ASSUME NEW d \in Devices, Announce(d) PROVE TypeInv'
  <2>1. net' \subseteq Datagrams
    BY <1>5, AnnouncementsFit DEF Announce, Send, TypeInv
  <2> QED  BY <1>5, <2>1 DEF Announce, Goto, TypeInv, scanVars
<1>6. ASSUME NEW d \in Devices, Nap(d) PROVE TypeInv'
  <2>1. 0 \in 0 .. Period  OBVIOUS
  <2>2. slept' \in [Devices -> 0 .. Period]
    BY <1>6, <2>1 DEF Nap, TypeInv
  <2> QED  BY <1>6, <2>2 DEF Nap, Goto, AfterNaps, TypeInv, scanVars
<1>7. ASSUME Tick PROVE TypeInv'
  <2>1. \A d \in Asleep : slept[d] + 1 \in 0 .. Period
    BY DEF Asleep, ThreadInv, TypeInv
  <2>2. slept' \in [Devices -> 0 .. Period]
    BY <1>7, <2>1 DEF Tick, TypeInv
  <2>3. left' \in 0 .. Window
    BY <1>7 DEF Tick, TypeInv
  <2>4. thread' \in [Devices -> {"none", "test", "send", "nap", "asleep"}]
    BY <1>7 DEF Tick, TypeInv
  <2> QED  BY <1>7, <2>2, <2>3, <2>4 DEF Tick, TypeInv
<1>8. ASSUME NEW d \in net, Lose(d) PROVE TypeInv'
  BY <1>8 DEF Lose, TypeInv, vars, hostVars, scanVars
<1>9. ASSUME NEW d \in Foreign, ForeignSend(d) PROVE TypeInv'
  <2>1. net' \subseteq Datagrams
    BY <1>9 DEF ForeignSend, Send, TypeInv, Datagrams
  <2> QED  BY <1>9, <2>1 DEF ForeignSend, TypeInv, hostVars, scanVars
<1>10. ASSUME ScanBegin PROVE TypeInv'
  <2>1. Window \in 0 .. Window  OBVIOUS
  <2>2. <<>> \in Seq(Datagrams) /\ <<>> \in Seq(Ids)  OBVIOUS
  <2>3. DOMAIN NoneHeard \subseteq Ids  BY DEF NoneHeard
  <2> QED  BY <1>10, <2>1, <2>2, <2>3 DEF ScanBegin, TypeInv, hostVars
<1>11. ASSUME BindFails PROVE TypeInv'
  <2>1. <<>> \in Seq(Datagrams) /\ <<>> \in Seq(Ids)  OBVIOUS
  <2>2. DOMAIN NoneHeard \subseteq Ids  BY DEF NoneHeard
  <2> QED  BY <1>11, <2>1, <2>2 DEF BindFails, TypeInv, hostVars
<1>12. ASSUME NEW d \in net, ScanRecv(d) PROVE TypeInv'
  <2>1. d \in Datagrams /\ d.id \in Ids
    BY OfDatagrams DEF TypeInv
  <2>2. net' \subseteq Datagrams
    BY <1>12 DEF ScanRecv, TypeInv
  <2>3. DOMAIN last' \subseteq Ids
    BY <1>12, <2>1 DEF ScanRecv, TypeInv
  <2>4. results' \in Seq(Datagrams) /\ called' \in Seq(Ids)
    <3>1. CASE UNCHANGED <<results, called>>
      BY <3>1 DEF TypeInv
    <3>2. CASE results' = Replaced(d) /\ called' = called
      <4>1. results \in Seq(Datagrams) /\ DOMAIN results = 1 .. Len(results)
        BY DEF TypeInv
      <4>2. \A i \in 1 .. Len(results) : Replaced(d)[i] \in Datagrams
        BY <2>1, <4>1 DEF Replaced
      <4>3. DOMAIN Replaced(d) = 1 .. Len(results)
        BY <4>1 DEF Replaced
      <4>4. Replaced(d) \in [1 .. Len(results) -> Datagrams]
        BY <2>1, <4>1 DEF Replaced
      <4>5. Len(results) \in Nat
        BY <4>1
      <4>6. Replaced(d) \in Seq(Datagrams)
        BY <4>4, <4>5
      <4> QED  BY <3>2, <4>6 DEF TypeInv
    <3>3. CASE results' = Append(results, d) /\ called' = Append(called, d.id)
      BY <2>1, <3>3 DEF TypeInv
    <3> QED  BY <1>12, <3>1, <3>2, <3>3 DEF ScanRecv, Record
  <2> QED  BY <1>12, <2>2, <2>3, <2>4 DEF ScanRecv, TypeInv, hostVars
<1>13. ASSUME ScanEnd PROVE TypeInv'
  BY <1>13 DEF ScanEnd, TypeInv, vars, hostVars, scanVars
<1>14. CASE UNCHANGED vars
  BY <1>14 DEF TypeInv, vars, hostVars, scanVars
<1> QED
  BY <1>1, <1>2, <1>3, <1>4, <1>5, <1>6, <1>7, <1>8, <1>9, <1>10, <1>11,
       <1>12, <1>13, <1>14 DEF Next

\* Threads end before stopAnnounce() returns, and sleep in bounds.
LEMMA ThreadStep ==
  ASSUME TypeInv, ThreadInv, [Next]_vars
  PROVE  ThreadInv'
<1> USE DiscoveryAssumption
<1>1. ASSUME NEW d \in Devices, StartAnnounce(d) PROVE ThreadInv'
  BY <1>1 DEF StartAnnounce, Goto, TypeInv, ThreadInv, vars, hostVars,
       scanVars
<1>2. ASSUME NEW d \in Devices, StopAnnounce(d) PROVE ThreadInv'
  BY <1>2 DEF StopAnnounce, AfterStop, TypeInv, ThreadInv, vars, hostVars,
       scanVars
<1>3. ASSUME NEW d \in Devices, Join(d) PROVE ThreadInv'
  BY <1>3 DEF Join, Joinable, TypeInv, ThreadInv, vars, hostVars, scanVars
<1>4. ASSUME NEW d \in Devices, LoopTest(d) PROVE ThreadInv'
  BY <1>4 DEF LoopTest, Goto, TypeInv, ThreadInv, vars, hostVars, scanVars
<1>5. ASSUME NEW d \in Devices, Announce(d) PROVE ThreadInv'
  BY <1>5 DEF Announce, Goto, Send, TypeInv, ThreadInv, vars, hostVars,
       scanVars
<1>6. ASSUME NEW d \in Devices, Nap(d) PROVE ThreadInv'
  <2>1. CASE MoreNaps(d)
    BY <1>6, <2>1 DEF Nap, Goto, MoreNaps, TypeInv, ThreadInv
  <2>2. CASE ~ MoreNaps(d)
    BY <1>6, <2>2 DEF Nap, Goto, AfterNaps, TypeInv, ThreadInv
  <2> QED  BY <2>1, <2>2
<1>7. ASSUME Tick PROVE ThreadInv'
  <2>1. main' = main
    BY <1>7 DEF Tick
  <2>2. \A d \in Devices :
          IF thread[d] = "asleep" THEN thread'[d] = "nap"
                                  ELSE thread'[d] = thread[d]
    BY <1>7 DEF Tick, Asleep
  <2>3. \A d \in Devices : thread'[d] # "asleep"
    BY <2>2
  <2> QED  BY <2>1, <2>2, <2>3 DEF ThreadInv
<1>8. ASSUME NEW d \in net, Lose(d) PROVE ThreadInv'
  BY <1>8 DEF Lose, TypeInv, ThreadInv, vars, hostVars, scanVars
<1>9. ASSUME NEW d \in Foreign, ForeignSend(d) PROVE ThreadInv'
  BY <1>9 DEF ForeignSend, Send, TypeInv, ThreadInv, vars, hostVars, scanVars
<1>10. ASSUME ScanBegin PROVE ThreadInv'
  BY <1>10 DEF ScanBegin, NoneHeard, TypeInv, ThreadInv, vars, hostVars,
       scanVars
<1>11. ASSUME BindFails PROVE ThreadInv'
  BY <1>11 DEF BindFails, NoneHeard, TypeInv, ThreadInv, vars, hostVars,
       scanVars
<1>12. ASSUME NEW d \in net, ScanRecv(d) PROVE ThreadInv'
  BY <1>12 DEF ScanRecv, TypeInv, ThreadInv, vars, hostVars, scanVars
<1>13. ASSUME ScanEnd PROVE ThreadInv'
  BY <1>13 DEF ScanEnd, TypeInv, ThreadInv, vars, hostVars, scanVars
<1>14. CASE UNCHANGED vars
  BY <1>14 DEF TypeInv, ThreadInv, vars, hostVars, scanVars
<1> QED
  BY <1>1, <1>2, <1>3, <1>4, <1>5, <1>6, <1>7, <1>8, <1>9, <1>10, <1>11,
       <1>12, <1>13, <1>14 DEF Next

\* A datagram of a device that is listed takes the place of the one before.
LEMMA ReplaceKeeps ==
  ASSUME TypeInv, HeardInv, NEW d \in Datagrams, d.id # Self, Known(d.id) # {},
         results' = Replaced(d), called' = called,
         last' = [id \in DOMAIN last \cup {d.id} |->
                    IF id = d.id THEN d ELSE last[id]]
  PROVE  HeardInv'
<1>1. PICK k \in DOMAIN results : results[k].id = d.id
  BY DEF Known
<1>2. DOMAIN last' = DOMAIN last /\ d.id \in DOMAIN last
  <2>1. d.id \in DOMAIN last
    BY <1>1 DEF HeardInv
  <2>2. DOMAIN last' = DOMAIN last \cup {d.id}
    OBVIOUS
  <2> QED  BY <2>1, <2>2
<1>3. \A id \in DOMAIN last : last'[id] = IF id = d.id THEN d ELSE last[id]
  BY <1>2
<1>4. DOMAIN results' = DOMAIN results /\ Len(results') = Len(results)
  <2>1. results' \in Seq(Datagrams)
    <3>1. Len(results) \in Nat /\ DOMAIN results = 1 .. Len(results)
      BY DEF TypeInv
    <3>2. Replaced(d) \in [1 .. Len(results) -> Datagrams]
      BY <3>1 DEF Replaced, TypeInv
    <3> QED  BY <3>1, <3>2
  <2>2. DOMAIN results' = DOMAIN results
    BY DEF Replaced
  <2> QED  BY <2>1, <2>2 DEF TypeInv
<1>5. \A i \in DOMAIN results :
        results'[i] = IF results[i].id = d.id THEN d ELSE results[i]
  BY DEF Replaced, Known
<1>6. \A i \in DOMAIN results : results'[i].id = results[i].id
  BY <1>5
<1>7. ASSUME NEW id \in DOMAIN last'
      PROVE  /\ last'[id].id = id
             /\ \E i \in DOMAIN results' : results'[i] = last'[id]
  <2>1. CASE id = d.id
    BY <1>1, <1>2, <1>3, <1>4, <1>5, <2>1
  <2>2. CASE id # d.id
    <3>1. PICK i \in DOMAIN results : results[i] = last[id]
      BY <1>2 DEF HeardInv
    <3>2. results[i].id = id
      BY <1>2, <3>1 DEF HeardInv
    <3> QED  BY <1>2, <1>3, <1>4, <1>5, <2>2, <3>1, <3>2
  <2> QED  BY <2>1, <2>2
<1>8. ASSUME NEW i \in DOMAIN results'
      PROVE  /\ results'[i].id \in DOMAIN last'
             /\ results'[i] = last'[results'[i].id]
  <2>1. results[i].id \in DOMAIN last /\ results[i] = last[results[i].id]
    BY <1>4 DEF HeardInv
  <2> QED  BY <1>2, <1>3, <1>4, <1>5, <1>6, <2>1
<1>9. \A i, j \in DOMAIN results' : results'[i].id = results'[j].id => i = j
  BY <1>4, <1>6 DEF HeardInv
<1>10. called' = [i \in DOMAIN results' |-> results'[i].id]
  BY <1>4, <1>6 DEF HeardInv
<1>11. Self \notin DOMAIN last' /\ Len(results') = Cardinality(DOMAIN last')
  BY <1>2, <1>4 DEF HeardInv
<1> QED  BY <1>7, <1>8, <1>9, <1>10, <1>11 DEF HeardInv

\* The datagram of a device that is not listed yet comes to the end.
LEMMA AppendKeeps ==
  ASSUME TypeInv, HeardInv, NEW d \in Datagrams, d.id # Self, Known(d.id) = {},
         results' = Append(results, d), called' = Append(called, d.id),
         last' = [id \in DOMAIN last \cup {d.id} |->
                    IF id = d.id THEN d ELSE last[id]]
  PROVE  HeardInv'
<1> DEFINE n == Len(results)
<1>1. n \in Nat /\ DOMAIN results = 1 .. n
  BY DEF TypeInv
<1>2. \A i \in 1 .. n : results[i].id # d.id
  BY <1>1 DEF Known
<1>3. d.id \notin DOMAIN last
  BY <1>1, <1>2 DEF HeardInv
<1>4. /\ DOMAIN last' = DOMAIN last \cup {d.id} /\ last'[d.id] = d
      /\ \A id \in DOMAIN last : last'[id] = last[id]
  BY <1>3
<1>5. /\ DOMAIN results' = 1 .. n + 1 /\ Len(results') = n + 1
      /\ results'[n + 1] = d
      /\ \A i \in 1 .. n : results'[i] = results[i]
  BY <1>1 DEF TypeInv
<1>6. Len(results') = Cardinality(DOMAIN last')
  <2>1. IsFiniteSet(DOMAIN last)
    BY DiscoveryAssumption, FS_Subset DEF TypeInv
  <2>2. Cardinality(DOMAIN last \cup {d.id}) = Cardinality(DOMAIN last) + 1
    BY <1>3, <2>1, FS_AddElement
  <2> QED  BY <1>4, <1>5, <2>2 DEF HeardInv
<1>7. called' = [i \in DOMAIN results' |-> results'[i].id]
  <2>1. called \in Seq(Ids) /\ DOMAIN called = 1 .. n /\ Len(called) = n
    <3>1. called = [i \in 1 .. n |-> results[i].id]
      BY <1>1 DEF HeardInv
    <3>2. called \in Seq(Ids) /\ DOMAIN called = 1 .. n
      BY <3>1 DEF TypeInv
    <3> QED  BY <1>1, <3>2
  <2>2. \A i \in 1 .. n : called[i] = results[i].id
    BY <1>1 DEF HeardInv
  <2>3. /\ DOMAIN called' = 1 .. n + 1 /\ called'[n + 1] = d.id
        /\ \A i \in 1 .. n : called'[i] = called[i]
    BY <1>1, <2>1
  <2>4. \A i \in 1 .. n + 1 : called'[i] = results'[i].id
    BY <1>1, <1>5, <2>2, <2>3
  <2>5. called' = [i \in 1 .. n + 1 |-> called'[i]]
    BY <1>1, <2>1, <2>3
  <2> QED  BY <1>5, <2>4, <2>5
<1>8. ASSUME NEW id \in DOMAIN last'
      PROVE  /\ last'[id].id = id
             /\ \E i \in DOMAIN results' : results'[i] = last'[id]
  <2>1. CASE id = d.id
    BY <1>1, <1>4, <1>5, <2>1
  <2>2. CASE id # d.id
    <3>1. id \in DOMAIN last /\ last'[id] = last[id]
      BY <1>4, <2>2
    <3>2. PICK i \in 1 .. n : results[i] = last[id]
      BY <1>1, <3>1 DEF HeardInv
    <3>3. i \in DOMAIN results'  BY <1>1, <1>5
    <3> QED  BY <1>5, <3>1, <3>2, <3>3 DEF HeardInv
  <2> QED  BY <2>1, <2>2
<1>9. ASSUME NEW i \in DOMAIN results'
      PROVE  /\ results'[i].id \in DOMAIN last'
             /\ results'[i] = last'[results'[i].id]
  <2>1. CASE i = n + 1
    BY <1>4, <1>5, <2>1
  <2>2. CASE i \in 1 .. n
    BY <1>1, <1>4, <1>5, <2>2 DEF HeardInv
  <2> QED  BY <1>1, <1>5, <2>1, <2>2
<1>10. ASSUME NEW i \in DOMAIN results', NEW j \in DOMAIN results',
              results'[i].id = results'[j].id
       PROVE  i = j
  <2>1. CASE i \in 1 .. n /\ j \in 1 .. n
    BY <1>1, <1>5, <1>10, <2>1 DEF HeardInv
  <2>2. CASE i = n + 1 \/ j = n + 1
    BY <1>1, <1>2, <1>5, <1>10, <2>2
  <2> QED  BY <1>1, <1>5, <2>1, <2>2
<1>11. Self \notin DOMAIN last'
  BY <1>4 DEF HeardInv
<1> QED  BY <1>6, <1>7, <1>8, <1>9, <1>10, <1>11 DEF HeardInv

\* A scan that begins has heard nothing.
LEMMA NothingHeard ==
  ASSUME results' = <<>>, called' = <<>>, last' = NoneHeard
  PROVE  HeardInv'
<1>1. DOMAIN last' = {} /\ DOMAIN results' = {} /\ Len(results') = 0
  BY DEF NoneHeard
<1>2. Cardinality({}) = 0
  BY FS_EmptySet
<1>3. called' = [i \in DOMAIN results' |-> results'[i].id]
  BY <1>1
<1> QED  BY <1>1, <1>2, <1>3 DEF HeardInv

\* The results stay what was heard.
LEMMA HeardStep ==
  ASSUME TypeInv, HeardInv, [Next]_vars
  PROVE  HeardInv'
<1> USE DiscoveryAssumption
<1>1. ASSUME NEW d \in Devices, StartAnnounce(d) PROVE HeardInv'
  BY <1>1 DEF StartAnnounce, HeardInv, scanVars
<1>2. ASSUME NEW d \in Devices, StopAnnounce(d) PROVE HeardInv'
  BY <1>2 DEF StopAnnounce, HeardInv, scanVars
<1>3. ASSUME NEW d \in Devices, Join(d) PROVE HeardInv'
  BY <1>3 DEF Join, HeardInv, scanVars
<1>4. ASSUME NEW d \in Devices, LoopTest(d) PROVE HeardInv'
  BY <1>4 DEF LoopTest, HeardInv, scanVars
<1>5. ASSUME NEW d \in Devices, Announce(d) PROVE HeardInv'
  BY <1>5 DEF Announce, HeardInv, scanVars
<1>6. ASSUME NEW d \in Devices, Nap(d) PROVE HeardInv'
  BY <1>6 DEF Nap, HeardInv, scanVars
<1>7. ASSUME Tick PROVE HeardInv'
  BY <1>7 DEF Tick, HeardInv, scanVars
<1>8. ASSUME NEW d \in net, Lose(d) PROVE HeardInv'
  BY <1>8 DEF Lose, HeardInv, scanVars
<1>9. ASSUME NEW d \in Foreign, ForeignSend(d) PROVE HeardInv'
  BY <1>9 DEF ForeignSend, HeardInv, scanVars
<1>10. ASSUME ScanBegin PROVE HeardInv'
  BY <1>10, NothingHeard DEF ScanBegin
<1>11. ASSUME BindFails PROVE HeardInv'
  BY <1>11, NothingHeard DEF BindFails
<1>12. ASSUME NEW d \in net, ScanRecv(d) PROVE HeardInv'
  <2>1. d \in Datagrams
    BY DEF TypeInv
  <2>2. CASE ~ Good(d)
    <3>1. UNCHANGED <<results, called, last>>
      BY <1>12, <2>1, <2>2, ParsesTheGood DEF ScanRecv
    <3> QED  BY <3>1 DEF HeardInv
  <2>3. CASE Good(d)
    <3>1. Record(d) /\ d.id # Self
      BY <1>12, <2>1, <2>3, ParsesTheGood DEF ScanRecv
    <3>2. last' = [id \in DOMAIN last \cup {d.id} |->
                     IF id = d.id THEN d ELSE last[id]]
      BY <1>12, <2>3 DEF ScanRecv
    <3> QED  BY <2>1, <3>1, <3>2, ReplaceKeeps, AppendKeeps DEF Record
  <2> QED  BY <2>2, <2>3
<1>13. ASSUME ScanEnd PROVE HeardInv'
  BY <1>13 DEF ScanEnd, HeardInv, scanVars
<1>14. CASE UNCHANGED vars
  BY <1>14 DEF HeardInv, vars, hostVars, scanVars
<1> QED
  BY <1>1, <1>2, <1>3, <1>4, <1>5, <1>6, <1>7, <1>8, <1>9, <1>10, <1>11,
       <1>12, <1>13, <1>14 DEF Next

-----------------------------------------------------------------------------
(* The theorems.                                                           *)

\* The initial state satisfies the invariant.
LEMMA InitInv == Init => IInv
<1> SUFFICES ASSUME Init PROVE IInv
  OBVIOUS
<1> USE DiscoveryAssumption
<1>1. TypeInv
  <2>1. 0 \in 0 .. Period /\ 0 \in 0 .. Window
    OBVIOUS
  <2>2. \A d \in Devices : (CHOOSE p \in Ports[d] : TRUE) \in Ports[d]
    OBVIOUS
  <2>3. port \in [Devices -> Nat] /\ \A d \in Devices : port[d] \in Ports[d]
    BY <2>2 DEF Init
  <2>4. <<>> \in Seq(Datagrams) /\ <<>> \in Seq(Ids)
    OBVIOUS
  <2>5. DOMAIN last \subseteq Ids
    BY DEF Init, NoneHeard
  <2> QED  BY <2>1, <2>3, <2>4, <2>5 DEF Init, TypeInv
<1>2. ThreadInv  BY DEF Init, ThreadInv
<1>3. HeardInv
  <2>1. DOMAIN last = {} /\ DOMAIN results = {} /\ Len(results) = 0
    BY DEF Init, NoneHeard
  <2>2. Cardinality({}) = 0
    BY FS_EmptySet
  <2>3. called = [i \in DOMAIN results |-> results[i].id]
    BY <2>1 DEF Init
  <2> QED  BY <2>1, <2>2, <2>3 DEF HeardInv
<1> QED  BY <1>1, <1>2, <1>3 DEF IInv

\* IInv is an invariant of the devices, the network and the scan.
THEOREM Invariance == Spec => []IInv
<1>1. IInv /\ [Next]_vars => IInv'
  BY TypeStep, ThreadStep, HeardStep DEF IInv
<1> QED  BY <1>1, InitInv, PTL DEF Spec

\* Everything keeps its type, and a scan lists fewer devices than there are: the
\* results are bounded, whatever is broadcast.
THEOREM TypeCorrect == Spec => []TypeOK
<1>1. IInv => TypeOK
  <2> SUFFICES ASSUME TypeInv, HeardInv PROVE TypeOK
    BY DEF IInv
  <2>1. Len(results) < Cardinality(Ids)
    <3>1. IsFiniteSet(Ids) /\ Self \in Ids
      BY DiscoveryAssumption DEF Ids
    <3>2. /\ IsFiniteSet(Ids \ {Self})
          /\ Cardinality(Ids \ {Self}) = Cardinality(Ids) - 1
      BY <3>1, FS_RemoveElement
    <3>3. DOMAIN last \in SUBSET (Ids \ {Self})
      BY DEF TypeInv, HeardInv
    <3>4. Cardinality(DOMAIN last) <= Cardinality(Ids \ {Self})
      BY <3>2, <3>3, FS_Subset
    <3>5. Cardinality(Ids) \in Nat /\ Len(results) \in Nat
      BY <3>1, FS_CardinalityType DEF TypeInv
    <3> QED  BY <3>2, <3>4, <3>5 DEF HeardInv
  <2>2. \A i \in DOMAIN results : results[i] \in Announcements \cup Foreign
    BY DEF TypeInv, Datagrams
  <2> QED  BY <2>1, <2>2 DEF TypeInv, TypeOK, Datagrams
<1> QED  BY <1>1, Invariance, PTL

\* A scan lists each device that was heard once, with the last datagram, and
\* nothing else, whatever the network loses, repeats or reorders.
THEOREM ScanListsTheHeard == Spec => []ListsWhatWasHeard
<1>1. IInv => ListsWhatWasHeard
  BY DEF IInv, HeardInv, ListsWhatWasHeard
<1> QED  BY <1>1, Invariance, PTL

\* A device announces itself only between startAnnounce() and the return of
\* stopAnnounce(): the thread is joined.
THEOREM StoppedIsSilent == Spec => SilentWhenStopped
<1>1. ASSUME IInv, [Next]_vars
      PROVE  [\A d \in net' \ net : d \in Foreign \/ main[d.id] # "off"]_vars
  <2> SUFFICES ASSUME Next, NEW d \in net', d \notin net, d \notin Foreign
               PROVE  main[d.id] # "off"
    BY <1>1
  <2>1. PICK e \in Devices : Announce(e)
    BY DEF Next, StartAnnounce, StopAnnounce, Join, LoopTest, Nap, Tick, Lose,
           ForeignSend, Send, ScanBegin, BindFails, ScanRecv, ScanEnd
  <2>2. d = Datagram(e, port[e])
    BY <2>1 DEF Announce, Send
  <2>3. d.id = e
    BY <2>2 DEF Datagram
  <2>4. main[e] # "off"
    BY <1>1, <2>1 DEF IInv, ThreadInv, Announce
  <2> QED  BY <2>3, <2>4
<1> QED  BY <1>1, Invariance, PTL DEF Spec, SilentWhenStopped

=============================================================================
