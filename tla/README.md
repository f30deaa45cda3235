# A verification project for LanTalk

TLA+ modules, TLC runs and TLAPS proofs for LanTalk, the peer-to-peer LAN
messenger in `src/` (C++17, one process per device, TCP for chat and UDP for
discovery).  Paths below are relative to the repository.

## 1. The system

`lantalk listen` runs these threads in one process:

- the *main thread*: `runListen` builds everything, `TerminalUI::run` reads
  lines and broadcasts them, and after `/quit` it stops discovery, server and
  session, in that order;
- the *accept thread* of `TcpServer`, which starts a *detached thread* per
  client; that thread makes a `Connection` and calls `addConnection`;
- a *receive thread* per started `Connection`, which reads bytes, feeds the
  `FrameReader` and calls the handlers of `ChatSession`;
- the *ping thread* of `ChatSession`, which pings every fifteen seconds and
  reaps connections that it cannot write to;
- the *announce thread* of `LanDiscovery`, which broadcasts a datagram every
  thirty seconds.

`lantalk connect` has the main, the receive and the ping thread only, with one
connection that the main thread opens.  A signal runs its handler on the main
thread (Linux) or on a thread of its own (Windows).

`lantalk scan` and `lantalk connect <name>` listen for such datagrams, and
`lantalk config set` changes the `config.ini` that all the processes of a user
share.

### Inventory

| Component | State | Operations | What is hard | What makes it correct |
|---|---|---|---|---|
| `ChatSession` (`src/chat/chat_session.cpp`) | `connections_`, `peers_`, `connMutex_`, `running_`, ping thread | `addConnection`, the frame handlers, `onDisconnect`, `broadcast`, `pingLoop`, `stop` | five kinds of threads on one mutex; destructors that join a thread while the mutex is held; the `connId` that the callbacks pass is empty | maps agree, no thread outlives its object or joins itself, chat only after HELLO, callbacks balance, `stop()` ends |
| `Connection` (`src/network/connection.cpp`) | `running_`, `state_`, socket, receive thread | `start`, `send`, `disconnect`, receive loop, destructor | `disconnect()` from several threads, before `start()` as well; close against a blocked `recv()` | a disconnected connection writes nothing; the thread is joined |
| `FrameReader` (`src/network/protocol.cpp`) | `buffer_`, `state_`, `currentHeader_` | `feed` | a stream cut anywhere; empty payloads; a throw in mid-call | exactly the frames that were written come out, at once |
| `MessageQueue` (`src/chat/message_queue.cpp`) | a bounded deque, a mutex, two condition variables | `push`, `pop`, `tryPop`, `clear`, `drain` | timeouts that race notifications | bounded, FIFO, no lost wakeup |
| `TcpServer` (`src/network/tcp_server.cpp`) | listening socket, `running_`, accept thread | `start`, `stop`, `acceptLoop`, detached callbacks | `stop()` at any point of `accept()`; errors of `accept()` | no client is dropped silently, `stop()` ends |
| `LanDiscovery` (`src/discovery/lan_discovery.cpp`) | `running_`, announce thread; `results` of a scan | `startAnnounce`, `stopAnnounce`, `announceLoop`, `scan` | UDP loses, duplicates and reorders; a 3 s scan against a 30 s period | each device once with its last word; both loops end when they should |
| `Config` (`src/config/config.cpp`) | settings in memory, `config.ini` | construction, `load`, `set`, `save` | processes that overlap or crash during a save that truncates first; texts that are not read back as they were written | one identity per device; a key keeps its last value |
| `TerminalUI` (`src/cli/terminal_ui.cpp`) | `running_`, output mutex | `run`, `/` commands, printing | a blocking `getline` and a signal flag | `/quit` and Ctrl-C end the program |
| `main` (`src/main.cpp`) | wiring of the callbacks, the menu | `runListen`, `runConnect`, `runScan`, `runConfig` | lifetimes of local objects that detached threads use | nothing is used after its scope |
| `Authenticator`, `Crypto` (`src/security/`) | pending challenges | challenge, response | one challenge per address | (nothing uses the class) |
| `ChatMessage` (`src/chat/message.cpp`) | none | `toJson`, `fromJson`, formatting | escapes | a text survives the conversion |
| `TcpSocket` (`src/network/tcp_socket.cpp`) | `handle_`, not locked | `sendAll`, `recv`, `close` | a close that races a call; reuse of the number; a peer that does not read | frames stay whole; no descriptor leaks or is used for another |
| `CommandParser` (`src/cli/command_parser.cpp`) | none | `parse`, `getFlagAsPort` | flags with and without a value | positions decide, ports are exact |
| `TcpClient`, `Logger` | small | one connect, output | - | - |

How they interact: `TcpServer` calls `onAccept_` in a detached thread; the
frame and disconnect callbacks of a `Connection` call into `ChatSession` on the
receive thread; `ChatSession` calls `send` and `disconnect` of connections,
mostly with `connMutex_` held, and the message and event callbacks of the UI
without it; the last reference to a `Connection` may be dropped by the main, the
ping or a detached thread.

## 2. Modules

| Module | Models | Used by |
|---|---|---|
| `Connection` | `Connection` over `TcpSocket`, with its receive thread | `ChatSession` (EXTENDS) |
| `ChatSession` | `ChatSession` wired up as in `runListen` | `MCChatSession`, `ChatSessionProofs` |
| `FrameStream` | the specification of a frame decoder: no chunks, no buffer | `FrameReader` (INSTANCE) |
| `FrameReader` | `FrameReader::feed`, step by step | `MCFrameReader`, `FrameReaderProofs` |
| `BoundedFifo` | the specification of a bounded queue | `MessageQueue` (INSTANCE) |
| `MessageQueue` | the queue with its mutex, condition variables and timeouts | `MessageQueueProofs` |
| `TcpServer` | accept loop, hand-over, `start()`, `stop()` | `Application` (EXTENDS) |
| `Application` | `runListen`, `runConnect`, `TerminalUI::run`, the signal handler and the lifetimes of their objects, composed with `TcpServer` | `ApplicationProofs` |
| `TcpSocket` | `Connection::send`, `disconnect`, the destructor and the receive loop, in the steps of `TcpSocket` | `TcpSocketProofs` |
| `Json` | `toJson`, `fromJson`, and the JSON of HELLO | `Conversions` (EXTENDS) |
| `CommandParser` | `parse`, and the choice of the port | `Conversions` (EXTENDS) |
| `RateLimit` | the rate limit of the receive loop | `Conversions` (EXTENDS) |
| `FrameHeader` | the bytes of a frame header, the table of types | `Conversions` (EXTENDS) |
| `Conversions` | each of these as a step from an input to its output | `MCConversions`, `ConversionsProofs` |
| `Config` | processes on one `config.ini` | `MCConfig`, `ConfigProofs` |
| `Discovery` | announcers, network, one scanner | `MCDiscovery`, `DiscoveryProofs` |

`MC*` modules give values to constants; `*Proofs` modules only hold theorems.  A
definition whose comment begins "Mutant of" is a wrong variant of the definition after it; it shows which slip in the code a property would
catch and is used by nothing else.

### How the modules correspond to the code

**Connection, ChatSession.**  A variable `recvPc[c]`, `addPc[c]`, `mainPc` or
`pingPc` says where a thread is.  A critical section of `connMutex_` that does
not block is one action, enabled while the mutex is free.  The mutex is held over
several steps in two cases.  Where a `Connection` is destroyed under it
(`connections_.clear()` in `stop()`, `connections_.erase` in `onDisconnect`
called by `pingLoop`) `connMutex` names the thread, since `~Connection` joins.
Where `::send` does not return, because a peer has stopped reading (`stalled`),
`sender` names it: `pingLoop`, `broadcast`, `sendHello` and the `disconnect` calls
of `stop()` send under the mutex, and `SendBlocks`, `SendReturns` and `StopBlocks`
are the two ways such a loop can go.  `DisconnectSelf` is the DISCONNECT that the
receive thread sends itself, without the mutex; it may stay in it (`sending`).
`closeWakes` is the platform, chosen in the initial state: whether `close()` wakes a
call that another thread is blocked in (Windows) or not (Linux).

A shared pointer is modelled by who
has a reference: the map (`c \in connections`), the detached thread
(`AccHolds`), nobody but the joining thread (`victim`, `addPc[c] = "join"`).
`ConnIdOf(c) = NoId` is what the code does: `connIdPtr` in `main.cpp` is never
assigned, so every callback passes the empty string and all connections share
one entry of `peers_`.  Handlers are one action per branch
(`HelloAccepted`, `HelloChallenged`, `HelloRejected`, `ChatAccepted`,
`ChatDropped`, ...); the UI callbacks, which run after the unlock, are steps of
their own (`ShowConnected`, `ShowDisconnected`, `ShowMessage`).  `server.start()`
comes before `ui` is made, and until then (`MakeUi`) the callbacks find no `ui` and
show nothing; `early` counts what they would have shown.  That they read `ui`
without a lock while the main thread assigns it is a data race, of which the model
has the two outcomes "not yet" and "already".  The handlers
whose effects depend on the connection being found (`HelloChallenged`) keep that
condition, although in this wiring it is never true.

**FrameReader.**  A stream is the list of its frames, each with a length and
whether its header is acceptable, and the offsets where they end; the reader
counts bytes.  `Feed` appends a chunk, `ReadHeader`, `ReadPayload` and `Return`
are the iterations and the exits of the loop in `feed()`.

**MessageQueue.**  A thread waits in one of two wait sets; `Expire` ends its
`wait_for`, `NotifyOne` picks any waiter, and a woken thread has to get the mutex
again (`Resume`) and looks at the predicate, as the library does.

**TcpServer.**  `acceptPc` is the position in `acceptLoop`; the three steps of
`stop()` are separate; the operating system is a listen queue.  `platform` says
what `close()` does to an `accept()` that is blocked in another thread: on
Windows it fails, on Linux it stays, and the socket goes on listening until it
returns.

**Application.**  `where` is the line of `runListen` or `runConnect`, `life` says
which local variables exist, in the order of their declarations and, backwards,
of their destructors.  A client has two threads.  The detached one (`addPc`) goes
through `onAccept_` and `addConnection`: `test` (`running_`), `insert` (the maps),
`start`, `hello` (the mutex and the maps again), and, when `stop()` has taken the
connection out of the map in the meantime, `join`, because the thread's own
reference is then the last one.  The receive thread (`chat`) exists from the start of
the connection on: `recv`, and `callback` between the test of `ui` and its use.
`entered` is what is in `connections_`; `stop()` and `~ChatSession` wait for the
receive threads of those connections in it whose detached thread has given up its
reference.  A step that uses a destroyed object is recorded in `outlived`.  Of the
session only this and `running_` are left; `stop()` is taken to return, which is what
`session_live` and `stop_terminates` are about, and what the ping thread erases is
erased by `stop()`.  The signal handler has two steps, the test of `g_ui_ptr` and its
use; on Linux the main thread waits for them.

**TcpSocket.**  One thread, `Session`, stands for whoever holds `connMutex_`, since
everything the session does to a connection it does under it; the receive threads
run beside it.  `via` is the number that a thread has read from `handle_` and, once
it is inside a system call, the connection that the number named then.  `Accept`
takes the lowest free number, so that `handle_` of a connection that another
thread is just closing can name a new one.  A frame is `FrameLen` writes.
`closers`, `robbed` and `hit` are history variables: who called `::close()` for a
connection, which connections lost their descriptor to a `::close()` of another one,
and which were written to or read from by another one.

`Connection` takes the test of `running_` in `send()` and the write as one step; here
they are two, and the write itself is several.

**Json, CommandParser, RateLimit, FrameHeader, Conversions.**  Operators, each loop
of the code a recursive function on its positions: `Reading` and `Arguments` say
what a loop makes of the rest from a position on, `Window` what it knows after
each `recv()`.  Characters are classes of characters, keys and numbers one
character each.  What to expect, without a loop, is in the second half of a
module and in the properties of `Conversions`.  A header has its `reserved` field:
`serialize()` does not write it and `deserialize()` leaves it 0, so that it does not
survive, although `src/README.md:251` lists it on the wire.

**Config.**  A process goes `load` -> (`create` -> `creating`) -> `ready` ->
(`store` -> `storing`) -> `ended`.  Opening the `ofstream` empties the file, its
destructor fills it, and a process may be killed in between.  `file` is what `load()`
makes of the lines: a function from keys to values, where a later line wins.  `save()`
writes a text as it is and `load()` reads lines and trims them, so `FirstLine[t]` is what
is read back of the text `t`, and `MoreLines[t]` the settings that its other lines make
(`Lines`, `WrittenTexts`, `Written`).  `Ensured` is `ensureDeviceId()` and
`ensureDisplayName()`: called by the constructor and at the end of `load()`, where an
empty id that the user has set is replaced by a fresh one, which is not written back.
History variables record precisely what the properties except: a save that started
from an outdated read or a load that met a save (`raced`), a fault that hit a save or a
load (`broken`), a file that says an empty id (`blanked`), a text whose other lines are
settings (`tangled`).

**Discovery.**  A tick is the 100 ms of the inner sleep of `announceLoop`; the
scan counts its window down in ticks.  A datagram that is received may stay
under way (duplication), any datagram may be received next (reordering) and any
may vanish.  `Ideal` switches all of that off, together with slow threads.

## 3. Runs

| Run | Module, bounds | Shows |
|---|---|---|
| `session_open` | `MCChatSession`; 2 connections, one frame each (HELLO, CHAT_MESSAGE, DISCONNECT, PONG or broken bytes), Linux, no peer stops reading | the safety properties of the session in 1.6 million states |
| `session_live` | `MCChatSession`; both platforms, `require_auth`, 1 connection that may stop reading, 2 frames of any kind, also in one `recv()` | `stop()` and `broadcast()` return and dead connections are reaped, unless `connMutex_` is kept for ever by a stuck join or by a `send()` to a peer that does not read |
| `frame_reader` | `MCFrameReader`; streams of up to 3 frames, header of 2 bytes, payloads of 0 to limit + 1, chunks of up to 5 bytes | exactness, promptness, termination and refinement of `FrameStream` |
| `message_queue` | `MessageQueue`; 3 threads, 2 messages, size 2, 4 calls of `push` | no lost wakeup, refinement of `BoundedFifo`, every call returns |
| `application` | `Application`; 2 clients or 1 remote, both platforms, both functions, 1 signal, 1 interrupt, 1 error | no client is lost; who may outlive the objects it uses: the threads of clients that were still in `addConnection` when `stop()` swept the session, and a handler on Windows; `TcpServer::stop()` and `run()` end, with their exact exceptions |
| `tcp_socket` | `TcpSocket`; 2 connections on 1 descriptor number, frames of 2 writes, 1 frame of the session, 1 peer that may misbehave | frames stay whole, a stray descriptor takes a second thread that closes the connection or a stray close that robbed it, no descriptor leaks, only a peer can hold up the session |
| `conversions` | `Conversions`; texts of up to 3 characters and a few crafted ones, up to 4 arguments, ports at the boundaries, up to 4 calls of `recv()`, headers with lengths at the boundaries of a byte and with a reserved field | what the conversions, the parser, the ports and the rate limit do to every such input |
| `config` | `MCConfig`; 3 processes, 3 keys, 1 fault, a port above 65535, texts that are empty, between blanks, or of two lines of which the second sets the device id | identity survives unless a save was disturbed or a file says an empty id, the first line of the last value unless a save was disturbed or a second line is a setting |
| `discovery` | `MCDiscovery`; 2 announcing devices, one of which scans, a foreign device, a foreign broken datagram, 2 ports, 2 datagrams under way | what a scan lists and reports; starting and stopping |

And the runs that refute what the repository says of itself:

| Run | Claim | What happens |
|---|---|---|
| `stop_terminates` | "/quit, /exit - graceful disconnect and exit" (`terminal_ui.cpp`) | `stop()` joins a receive thread with `connMutex_` held while that thread waits for `connMutex_` in a handler |
| `broadcast_reaches` | "Broadcast to all authenticated peers" (`chat_session.hpp:44`; so also the comment at `terminal_ui.cpp:57` and the demo in `src/README.md`) | HELLO authenticates the entry of the empty `connId`, `broadcast()` looks up the ids that `addConnection` drew, and what the user types reaches nobody |
| `scan_finds` | "`lantalk scan` finds peers automatically via UDP broadcast" (`README.md`) | a scan listens for a tenth of the announce period and asks nobody |

Other things the documents say are refuted by the exceptions that properties of
passing runs have to make:

- `README.md` "/quit - disconnect and exit", `main.cpp` "blocks until /quit or
  SIGINT": on Linux `TcpServer::stop()` waits for the next client
  (`ServerStopReturns`), and a signal only takes effect when the user enters a
  line (`StopEndsRun`).  A signal or a disconnect before `run()` has set
  `running_` is lost.  `g_shutdown` is never read, and the handlers stay
  installed, so that in the menu Ctrl-C does nothing at all.
- `chat_session.cpp` "Validate peer is authenticated": the entry that is looked at is
  the one of the empty id, so that one accepted HELLO opens the gate for every
  connection (`ChatIsGated` says `heard # {}` and not that this peer was heard).
- `main.cpp` shows " disconnected" for a peer whose " connected" came before there was
  a `ui` (`EventsBalance` counts such events in).
- `config.hpp` "UUID v4, generated once": after `config set device_id ""` every run
  draws its own (`IdentityKept` excepts it).
- `src/README.md:251` "[reserved:2]": the field is not sent (`SurvivesTheWire`).
- `README.md` "concurrent send/receive without blocking UI": a peer that does not
  read blocks whoever sends to it with `connMutex_` held, the UI thread in
  `broadcast()` too (`SessionGetsThrough`, `UiReturns`).
- `README.md` "peers sending >100 frames/sec are disconnected": only within a
  factor of two, and only when another `recv()` follows (`FloodIsCut`); and a peer
  that stays below the limit can be disconnected (`HalfRateIsSafe`).  Both are
  parts of `RateLimitWithinTwo`.

### Why the bounds are enough

- Two connections are what the shared entry and the maps need: every property of
  the session relates at most two connections, one acting on the entry that
  another relies on.  The proofs remove the bound for the safety properties.
- One frame per connection together with two frames in `session_live` covers a
  handler followed by another one and an exception behind a good frame.  The kinds
  of frames in `session_open` are one for every way in which a receive thread goes
  on; with the empty `connId` the other handlers find no connection and do what that
  of DISCONNECT does.  It has `RequireAuth = FALSE`: that with authentication no chat is
  shown at all is the theorem `ChatGate`.
- The safety properties of the session do not depend on the platform or on who
  blocks but for more steps in which a thread is stuck; `session_open` takes Linux,
  where `recv()` stays longer, and the proofs take both.
- A header of two bytes has an inside; payloads of zero, of the limit and beyond
  it are the boundary cases; three frames give a first, a middle and a last.
- Three threads on a queue of two: two may wait while the third signals, and
  waiters may be on the wrong side of a notification.
- Three processes: one creates, one sets, one observes; or two overlap and a
  third sees the result.  Three texts, one for each way of not being read back as it
  was written.
- Two clients in `application`: one may be in the session while another is on its
  way; one signal is enough since the handler only clears flags (on Windows the
  second one ends the process).
- One descriptor number for two connections makes every close followed by an
  accept a reuse, which is the case in question.  Two writes per frame have a
  point in between.  `Rude` limits stalling and protocol errors to one connection:
  the other one is the bystander that may be hit.
- In `conversions` every escape meets every other one, and a quote or a backslash
  stands first, last and alone; a limit of two frames and a second of two units
  let bursts fall on both sides of every boundary of the window.
- Two datagrams under way are what reordering takes.  `Period` and `Window`
  are 1 in `discovery`, whose properties do not depend on their ratio, and
  10 to 1, as in the code, in `scan_finds`.

`CHECK_DEADLOCK FALSE` stands where the system really stops: after `stop()`, when
the stream is exhausted, when all processes have ended.

### Fairness

Weak fairness is assumed of the threads of the process, each as a whole: the
operating system schedules a thread that can run.  Nothing is assumed of users,
of peers or of the network.  `MessageQueue` assumes that a `wait_for` expires
(WF of `Expire`) and that a woken thread gets the mutex in the end although
others take it in between (SF of `Resume`).  `Discovery` assumes that time passes.
`Application` assumes nothing of `getline()`; a receive thread need not get any
bytes; the detached thread need not be scheduled before the program ends.  In
`TcpSocket` a thread inside a call goes on when its peer lets it, and so it does in
`ChatSession`: no step of a thread that `Blocks` is enabled until the peer closes.
`closeWakes` and `platform` are variables without steps, because the platforms
differ: `close()` in another thread ends a blocked call on Windows and not on Linux.

## 4. Proofs

All theorems hold for every value of the constants that satisfies the named
assumptions in the modules that declare them; TLC evaluates these in the runs.
They are the types of the constants, and three kinds of facts about what the
constants stand for:

- connections, the threads that use a queue and device ids form finite sets
  (`SessionAssumption`, `QueueAssumption`, `DiscoveryAssumption`): a process has
  finitely many of each, and ids are strings of 36 characters.  The proofs that
  count (`EventsBalance`, `NoLostWakeup`, the results of a scan) need it;
- values that stand for nothing are none of the real ones: `NoId`, `Nobody`, `NoFd`,
  `Remote`, `NoName`, `NoFile`, `NotANumber`, `NoPort` (`SessionAssumption`,
  `SocketAssumption`, `ApplicationAssumption`, `ConfigAssumption`,
  `ConversionAssumption`);
- there is an id to draw, and none that is drawn is one that a user gives; ids, the
  name of the host and the empty text are texts of one line, the first line of a text
  is itself a text of one line, and what further lines set is read as it stands
  (`ConfigAssumption`).

Otherwise `ConversionAssumption` and `RateAssumption` only say types: texts and command lines
are sequences of strings of any length, a header is one that `struct FrameHeader`
can hold, times and counts are natural numbers, a second is not empty.

None of the invariants is inductive alone.  Each module of proofs states the
inductive invariant `IInv` as a conjunction of named parts, shows that every step
keeps each part, and draws the theorems from it.

**`ChatSessionProofs`**: for any finite set of connections, any frames and batches.
`IInv` in `ChatSession` adds

- `LockInv`: who holds the mutex over several steps, and when there is a victim;
- `DeadInv`: what `pingLoop` found dead stays in the map until it is erased, and
  `stop()` touches the maps only after the ping thread has ended;
- `OwnerInv`: a registered connection has been inserted by an `addConnection`
  that has got past the insert, and a receive thread exists only after `start()`:
  this gives `RecvThreadOwned`;
- `SilentInv`: a disconnected connection is closed, or can never be started
  again;
- `GateInv`: that entry is AUTHENTICATED only after an accepted HELLO.

`AcceptFrame`, `RecvFrame`, `PingFrame` and `MainFrame` say once which variables each
kind of thread leaves alone.  From `Invariance` follow `MapsConsistent`,
`NoUseAfterDestroy`, `NeverSelfJoins`, `SilentAfterDisconnect` and `ChatGate`; `TypeCorrect` stands on its own.  `EventsAreBalanced` counts: a
callback that becomes pending, or is shown, changes the number of pending ones by
one, and with it whether the shared entry is authenticated or what the user has
seen, or would have seen if there had been a `ui`.

**`FrameReaderProofs`**: for every stream, header size, payload limit and
chunking.  `SyncInv` says that the reader stands at the start of the frame after
those it has decoded, or one header further; `Exactness`, `Promptness` and
`ThrowsPrecisely` follow, and `Refinement` shows that each iteration of `feed()`
is a step of `FrameStream` or a stutter.

**`MessageQueueProofs`**: for any finite set of threads and any size.
`StepEffect` reduces the steps of all threads to five effects on the queue; each
of them keeps the bound (`BoundedAlways`) and is a step of `BoundedFifo`
(`FifoRefinement`).  `WakeupsKept` follows the threads on either side of a
notification: who stores or fetches moves at most one sleeper to the woken ones,
and whoever gives up or goes on leaves enough of them for the items and slots
there are.

**`ApplicationProofs`**: for any clients, signals, interrupts and errors, on both
platforms and in both functions.  `IInv` adds

- `ServerInv`: the accept thread holds a client exactly between `accept()` and what
  becomes of it, and `stop()` gets through its join only when that thread has
  ended;
- `PlaceInv`: the line at which the main thread is says which objects have ended
  and that the accept thread has ended before they do;
- `HandlerInv`: `g_ui_ptr` is set only while the user interface lives, and on Linux
  the main thread does not clear it under a handler;
- `ThreadInv`: a receive thread exists only when its detached thread has got past the
  start; until the sweep, whoever talks in the session and is no longer being added
  is in the map that the sweep empties, so that the sweep waits for it; after it only
  the stragglers have a thread that may go on.

From it follow `ClientsAccountedFor`, `StopCutsOff` and `ScopeIsRespected`.

**`TcpSocketProofs`**: for any connections, descriptors, frames and writes in a
frame.  `IInv` adds

- `FlowInv`, `CallInv`: where the threads can be, what they have read, and that a
  frame is written under the lock of its connection;
- `HandleInv`: a descriptor that names a connection is the one in its `handle_`;
- `NumberInv`: what a thread has read is still the descriptor of its connection, if
  that has one, and a thread that closed its connection knows that it has none;
- `LostInv`, `RivalInv`: a `handle_`, or what a thread has read from it, that names
  something else goes back to a thread that closed the same connection or to a
  stray close;
- `WireInv`: what is on the wire of a connection is nothing, or the beginning of
  the one frame that is being written, or the last frame, cut short.

The first attempt at `RivalInv` failed, rightly: with three connections a stray
close of one can take the descriptor of a second, whose own threads then reach a
third without that anyone closed the second.  TLC confirmed it on three
connections, where the property as it had been stated was violated; `robbed` records
the case, and `DescriptorsInOrder` names it.

**`ConfigProofs`**: for any processes, ids, texts, ways of reading texts back, ports
and faults.  `IInv` adds

- `PlainOf` (in `TypeInv`): a text that would not be read back as it is has just been
  set by the user; what was loaded or filled in reads back as it is;
- `FileInv`: as long as no save met anything, the file is empty exactly while the one
  process that saves has it open, and a process that works has found a whole file;
- `IdInv`: a whole file has an id unless an empty one was written, and one drawn id is
  in the file, in every process that is set up, and in use;
- `ValueInv`: a process has what it found, or what stands in for an empty text, but for
  the key that it sets, and the file has, or is about to get, what was asked for last.

`LinesFit`, `WrittenFits` and `MergedFits` say what the round trip through the text of
the file keeps, `EnsuredFits` what is filled in.
From it follow `IdentityIsKept` and `LastSetIsKept`.

**`DiscoveryProofs`**: for any devices, ports, foreign datagrams and periods, on an
ideal and on a real network.  `IInv` adds `ThreadInv` (a device that is off has
no announce thread) and `HeardInv` (the results are the devices that were heard,
each once, in the order of the callbacks); the last bounds the results by
the number of ids.  From it follow `ScanListsTheHeard` and the action property
`StoppedIsSilent`.

**`ConversionsProofs`**: for every message, name, command line, port, sequence of
`recv()` and header.  `IInv` only says that the output is what the conversion makes
of the input; what that is takes one argument per loop.  A recursive function is
first shown to exist: `Recursion` (state handed from one round to the next) and
`BackwardRecursion` (the value at a position from those at the next two) build
one from the well-foundedness of the natural numbers.  `WindowStep`,
`ArgumentsStep`, `ReadingStep`, `SumsStep` and `FlattenRuns` then give each loop as
an equation per position, and the rest goes from one position to the next
(`SetInduction`, `BackwardInduction`).

- `HeaderRoundTrip`: `WordSplits` and `DoubleWordSplits` do the arithmetic, `Layout`
  says which bytes of a header hold which field, and `TypesDiffer` that no two
  types share a byte.
- `RateLimitHolds`: what `recvLoop` counts has come in since its last look, within
  less than a second but for the latest `recv()`, so that the count is at most
  twice what a second brought (`LookStep`, `HalfRate`); and as long as the
  connection is not cut off, `CalmUntil`: the second that ended with the last look
  brought no more than the limit, and an earlier one no more than twice the limit
  (`CalmStep`, `Flood`).
- `CommandLineKept`: what the loop makes of the arguments from a position on, if it
  arrives there, is their plain ones in order and the last place of each flag
  (`ArgumentsFound`); read from the back, one argument more adds one of them
  (`PlainStep`, `FlagsStep`).
- `WireKeeps`: each character of a text is written as a letter of one or two
  characters that reads back as that character (`EscapesSpell`, `TextIsRead`).
  Every quote inside an escaped text has a backslash before it (`QuotesEscaped`), so
  that a key in quotes is found only where the object has it (`KeyFoundOnce`) and
  `extractJsonString` stops at the closing quote (`StringRead`), but for a text that
  ends in a backslash: there it runs over that quote and stops at the next one or
  at the end, which is the exception `Survives`.

`NoSelfJoin`, `ThrowsAtBadHeader` and `Bounded` are proved and left out of the runs: TLC
shows `ImplementsStream` and `ImplementsFifo`, which say more than the last two.

Only model-checked: liveness (`StopReturns`, `UiReturns`, `GoneIsReaped`,
`FeedTerminates`, `EveryCallReturns`, `ServerStopReturns`, `ClientsAreServed`,
`StopEndsRun`, `SessionGetsThrough`, `StopAnnounceReturns`, `ScanReturns`,
`KeepsAnnouncing`), since the provers know neither fairness nor ENABLED.  Every
invariant and action property of the passing runs has a theorem.

## 5. What is abstracted, and what is left out

- In `Connection` and `ChatSession`, `disconnect()` is one step but for a DISCONNECT
  that blocks, the test and the write of `send()` are one, and the rate limit is a
  choice of the model; `TcpSocket` and `RateLimit` are about what that leaves out.  A
  peer that has stopped reading does not start again before it closes.
- In `ChatSession` frames are records of a type and of whether their content is
  acceptable, in `FrameReader` the header is acceptable or not; `Json` and
  `FrameHeader` are about the bytes.
- In `TcpSocket` a write to a peer that stalls blocks for ever: the setters of
  timeouts exist and nothing calls them.  A blocked call keeps its socket, as on
  Linux.
- TLC tries numbers in `FrameHeader` below 2^31, the largest that it computes with;
  `HeaderRoundTrip` is about all 32 bits.
- `Config` lets three keys stand for all and leaves out files edited by hand;
  the numbers that the user gives, also in a further line of a text, are ones that
  `std::stoi` accepts (what it rejects ends the process, which is a crash of the
  model).
- In `Discovery` device ids have the 36 characters of `generateUUID`; one that the user
  has set and that is longer is cut on the wire, and two such may become one.
- A callback of `drain()` that throws, and a callback of the session that does, are
  left out: those of the program only print.
- Two hazards are in the models, and no property is about them: frames that were
  complete are lost when `feed()` throws later in the same call (`RecvInvalid`,
  `FrameStream!Break`), and a `stop()` of the user interface before `run()` is lost
  (`Run`).
- `ChatSession` is modelled as `runListen` uses it; `runConnect` has one
  connection and the same session, and its wiring is in `Application`.
- The two functions run once: the menu of `main` only calls them again.
- Not modelled: `Authenticator` and `Crypto` (nothing in the program calls them, so
  that there is no order of calls to be faithful to, and what they do is done by
  OpenSSL), `ChatSession::sendTo` and `FrameReader::reset` (nothing calls them),
  `Logger` (output under a mutex that nothing else is taken under), the system calls
  of `TcpClient`, the options of sockets, printing, the empty library stubs, the
  tests.

## 6. Plan

Done: every part of the program that has state of its own, and the conversions
between its parts; every safety invariant and action property of the runs proved
for all values of the constants.

Next:

1. The other direction of `HeaderRoundTrip`: data that `deserialize()` accepts and
   `serialize()` gives back are the same twelve bytes.
2. A shorter `TcpSocketProofs`: one lemma that says which of a few kinds each step
   is (idle, a descriptor read, a descriptor written, bytes on the wire), so that
   the parts of the invariant need a case per kind and not one per action.
3. The lemmas of part 1 of `ConversionsProofs` in a module of their own, when a
   second module needs them.
