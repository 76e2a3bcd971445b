# LibNbiot: a TLA+ verification project

LibNbiot is an MQTT-SN client library for NB-IoT modems.  It is single threaded
and cooperative: the application calls API functions that queue work and return,
and calls `nbiotEventLoop()` again and again to have the work done in small steps.
What makes it hard is not parallelism but interleaving: between two turns of the
event loop anything may be called, any packet may arrive or be lost, any timer may
run out, and the pieces of state (state machine, MQTT-SN client, socket, loop
controller, topic registry) change at different moments.  Below it, in libNbiotCore,
a modem talks whenever it likes: answers come late or not at all, unsolicited lines
come in the middle of a dialogue.  The only code that runs in parallel is the tick
interrupt of the time base.

## 1. The system

| Part | State | Operations | Depends on |
|---|---|---|---|
| Loop controller, `nbiotloop.h`, `nbiotloopclient.h` | queue of loop clients, hooked client, loop id, break flag, result of each client | `registerLoopClient`, `nbiotLoop`, `loopBreak`, clear | handlers of the clients |
| Event dispatcher and state machine library, `external/src/StateMachine` | event list, pending list, state timer | `dispatch`, `sendEvent`, `postEvent`, enter, transition, choice | entry and transition actions |
| Connection state machine, `nbiotstm.cpp`, data pool | current state, error number, initialised, durations, restart counter | one transition per state and event, attach loop | modem, network, MQTT-SN client, loop controller |
| `NbiotMQTT`, `nbiotmqtt.cpp` | (data pool) | connect, publish, subscribe, unsubscribe, disconnect, sleep, hibernate, wakeup, poll, eventLoop; notifications | all of the above |
| MQTT-SN client, `nbiotmqttsnclient.cpp`, `MQTTSNClient.h` | one send buffer, isconnected, message id in flight, retry counters, loop values | eight loops (yield, connect, register, subscribe, publish, unsubscribe, disconnect; attach in the state machine), `cycle` | network, timers, notifications |
| Topic registry, `nbiottopicregistry.cpp`, `nbiottopic.h` | topics with name, id, flags, handler; the topic of the running loop | insert, remove, find, dispatch a message, wildcard handlers | the gateway's ids |
| Modem drivers, `libNbiotCore/src/modems`, `nbiotmodemtools.cpp` | device id, handlers of the application | initialize, reboot, attach, detach, switchModem, status URCs | AT commands |
| Networks of the modems, `network.cpp`, `nbiotconnectivity.cpp` | socket number, URC filter, bytes available, ring buffer | connect, read, write, disconnect, datagram URCs | AT commands, receive buffer |
| AT commands, `atcommands.cpp` | response | sendCommand, readResponse, readUntil | serial line |
| Serial line, URC filters, `serial.cpp` | error, configured functions, filters | readLine, readRaw, write, add and remove a filter | UART callbacks of the application |
| Time base and timers, `nbiottime.cpp`, `nbiottimer.cpp` | seconds and milliseconds, ticks per millisecond, tick lock; start and end | tick (interrupt), getMillis, addMillis, setTime; start, remaining | |

Interaction: an API function sends an event to the state machine (handled before the
call returns) or registers loop clients.  A turn of the event loop runs one step of
one loop client; its step handler reads at most one packet, which may cause a
notification, which may send or post events and even call `disconnect()`.  Only when
no loop client is pending does the turn dispatch posted events and look at the state
timer.

Hard behaviours, each listed with its line under `hazards` in `PROJECT.json`: results
that survive the clearing of the queue; one send buffer for many queued packets; a
queue that is cleared when any of its clients fails; states that run ahead of the
packets that justify them (sleep, wake-up, hibernate, reconnect); timers that are only
looked at in idle turns; lost, late and duplicated acknowledgements; one loop value
with three meanings; a registry whose entries come from three sides and are found by an
id the gateway may give away again; an answer given up on that arrives as the answer to
the next command; unsolicited lines inside a dialogue; readers that stop in the middle of
a line; an interrupt between two halves of the time.

What makes each part correct: the loop controller never mixes clients up; the state
machine never works with a modem that was not set up, and leaves every waiting or
error state; `NbiotMQTT` reports a connection exactly when there is one and sends the
packets it was asked for; a publish is reported once and truthfully; the registry hands
every message to the handler of its topic and calls subscribed what is subscribed; a
driver function that reports success tells the truth about the modem, and returns; the
serial line is a queue of lines, the ring buffer a queue of bytes; the clock keeps pace
and a timer does not run out early.

## 2. Modules

| Module | Models | Proofs |
|---|---|---|
| `NbiotLoop` | loop controller and loop clients; handler outcomes are parameters | `NbiotLoopProofs` |
| `NbiotStm` (extends `NbiotLoop`) | event dispatcher, state timer, all states, transitions and entry actions | `NbiotMqttProofs` |
| `NbiotMqtt` (extends `NbiotStm`) | API functions, event loop, loop handlers with their retransmissions, notifications; gateway and modem as environment | `NbiotMqttProofs` |
| `PublishLoop` | the QoS 1 publish loop in detail, with gateway and link | `PublishLoopProofs` |
| `TopicRegistry` | the registry with names, ids, handlers and flags, the functions and notifications that use it, the topic matcher | `TopicRegistryProofs` |
| `AtCommands` | the AT dialogue on lines: commands, reply kinds, time-outs, filters | `ModemDriversProofs` |
| `ModemDrivers` (extends `AtCommands`) | every function of the four modem drivers, their networks, `NbiotModemTools` and `NbiotConnectivity`; the modem as environment | `ModemDriversProofs` (invariants in `ModemDriversInvariants`) |
| `SerialLine` | `Serial` on bytes: `readLine()`, filters, configuration, errors | `SerialLineProofs` |
| `LineQueue` | abstract: what the AT dialogue takes the serial line for; `SerialLine` implements it | `SerialLineProofs` |
| `CircularBuffer` | the receive ring | `CircularBufferProofs` |
| `ByteQueue` | abstract: what a receive buffer promises; `CircularBuffer` implements it | `CircularBufferProofs` |
| `TimeBase` | `NbiotTime` and `Timer` under the tick interrupt | `TimeBaseProofs` |
| `MC...` | what TLC needs besides: symmetry sets, names, groups of driver functions | |

Definitions carry the names of the functions they model; `map` in `PROJECT.json` gives
the lines.

**Atomicity.**  Handlers run to completion, so one handler is one action.  A dispatch
handles several events, and an API function such as `wakeup()` sends several events and
looks at the state in between; these are runs of steps.  `dispatching` and `calls` (what
the running function has still to do) make sure nothing else happens meanwhile: they are
the program counter.  An application call, a turn of the event loop or the expiry of the
state timer needs `Idle`.  A driver function is a list of steps (`task.todo`): each command
and each line read is a step, between which the modem prints; no other function of the
library runs meanwhile, since nothing returns to the application.  In `SerialLine` a step is a byte, in `TimeBase` a single read
or write of `timestamp` or `millis`, because that is where the interrupt gets in.
`getMillis()` reads the two in either order: the language leaves it to the compiler.

**State.**  `pool` is `NbiotStmDataPool` (registry included: every topic has a set of
flags, an absent topic none, one that the gateway registered `"GW"`), `client` the
MQTT-SN client, `net` an open socket, `modemOn` a modem that is not switched off.
`sendbuf` holds the packet serialised last, by type and argument.  Payloads and return
values of API functions are left out.  QoS matters in `NbiotMqtt` only for whether a
publish waits for an acknowledgement and is in flight.  `TopicRegistry` has the ids,
handlers and wildcards instead, with the loops around it reduced to which one is running;
the two meet in the flags, `m_currentTopic` and `m_hasSubscription`, which both have.
In `ModemDrivers` a line is what it starts with and the numbers in it, a datagram its
length; the driver and the group of its functions in use are chosen once (`Scenarios`).

**History variables** record what the code does not know and the properties need:
`task.clean` (no answer was given up on that was still to come), `strayed` in
`TopicRegistry` (the registry outlived the gateway's session, or a wildcard was removed
from behind a topic it covers), `disturbed` in `SerialLine` (a byte was bad, or a reader
stopped inside a line), `steady` and `timer.sound` in `TimeBase` (nobody set or added
time; the timer was started once).  They mark the behaviours after which the code does go
wrong, which the known divergences below describe; before that the properties hold.

**Environment.**  `Faults` says what may go wrong: modem initialisation, attach, opening
and closing the socket, sending, a DISCONNECT out of the blue (`drop`), a REGISTER from
the gateway (`register`).  Whether an answer comes, accepts or rejects, and when a timer
runs out is always open.  `Patient` chooses the application: the one of the examples,
which calls a function only after a turn of the event loop that returned `LC_Idle`
(`examples/c-example/src/main.c`), or one that calls at any moment.

The modem of `ModemDrivers` may refuse any command (`refuse`), ignore it (`mute`), answer
after the reader has given up (`Late`), register and deregister, receive datagrams, longer
than the ring of the BC95 included, and print status lines at any moment, with all their
fields or, where the handler counts them, with fewer (`whole`).  The gateway of `TopicRegistry` gives
out ids and may forget them, registers topics, and starts anew with a clean session.  The
wire of `SerialLine` spoils bytes and adds NUL bytes.

`PublishLoop` is separate because message ids, remaining time and retries multiply the
state space without interacting with the connection states.  It knows one publish at a
time, as `isBusy()` enforces.  Its link may lose, duplicate or delay packets and refuse
to send.

Mutated definitions, each marked `Mutant:` in its comment, stand before the definition they vary.  They are not part of
any specification; each shows that a property would notice a particular mistake.

## 3. Runs

Every run is exhaustive within its bounds.

| Run | Bounds | Why they are enough |
|---|---|---|
| `faults`, `session`, `sleep` | `MaxQueue` 1, one topic (`session`: two), room for one topic, restart threshold 2, durations 0 (and 5) | the application calls while one client waits, and loops and `publish()` queue up to three more; both sides of the topic limit and of the threshold are reached; only "zero or not" matters of a duration |
| `publish_retries`, `publish_once` | 1 or 2 message ids, 1 or 0 retries, time-out of 2 ticks, 2 or 3 publishes | ids wrap around, so that an old acknowledgement fits a new publish |
| `buffer` | size 3, blocks of 1 to 4 bytes | every position of head and tail, blocks that wrap around and blocks that are too long |
| `registry` | two names, two wildcards of which one covers the other, two ids (symmetric), room for two topics; filters and names of up to 5 characters for the matcher | a full registry, an id that is given away again, every order of wildcard and topic; 5 characters hold three levels |
| `modem`, `returns` | two sockets (the code: 7), reads of 1 or 2 bytes, ring of 2 bytes, datagrams of 1 or 2 bytes and for BC95 of 3 (`returns`: 1 byte, BC95 also 2), counter modulo 16, one line left behind by a reader that gave up; `NbiotConnectivity` reads only with a configured reader | partial reads, datagrams that do not fit into the rest of the ring or into all of it, a second socket, no socket; one late line is enough to be taken for the next answer; without a reader its polling loop only piles up commands |
| `serial` | two lines, one bad byte, one NUL byte; one filter | a line cut by any byte, then a whole one |
| `time` | a second of 3 ms, frequencies 1, 2, 3, 6 and the default, 8 ticks, 3 calls, timer of 7 ms, addition of 9 ms | more than two carries into the seconds; dividing, multiple and inexact frequencies; a period longer than two torn reads |

Passing:

- `faults` - connect and disconnect at any moment, all faults: the machine works only with
  a modem that is set up (`OperationalStatesInitialized`), the restart counter keeps to
  its threshold (part of `TypeOK`), and errors are named (`ErrorHasReason`).
- `session` - publish, subscribe, unsubscribe, connect and disconnect by the patient
  application, with failing attaches and a gateway that drops the connection.  At rest the
  state Connected is backed by client and socket (`ConnectedAtRest`), Disconnected has
  neither (`DisconnectedAtRest`), `m_hasSubscription` is right, every loop sends its own
  packet.  `PendingEndsHooked`: only being run ends a pending client; hence a cleared
  client stays pending, the root of `RegisterIsSent` below.  The run counts states that
  differ only in the finished results of idle clients as one (`PendingView`): the code asks
  of such a result only whether it is `LC_Pending`.
- `sleep` - all sleeping functions, auto poll and registrations by the gateway: `wakeup()`
  has left every sleeping state when it decides on a reconnect; connection attempts end,
  errors are left, disconnects complete, the awake phase ends.  Without failing
  initialisations (they may fail forever) and failing sockets.
- `publish_retries`, `publish_once` - the publish loop with and without retransmission.
- `buffer` - `CircularBuffer` implements `ByteQueue`.
- `registry` - messages reach the handler of their topic (`MessageForItsTopic`), covered
  topics have a handler in whichever order they came (`CoveredHasHandler`), what counts as
  subscribed is subscribed at the gateway (`SubscribedAtGateway`), `unsubscribe()` takes
  the right topics, the limit is exceeded by at most the one topic the gateway registers
  in between, and the character matcher is the match of levels (`MatcherAgrees`).
- `modem` - success is reported truthfully (`TruthfulReport`), datagrams are never taken
  for answers between calls (`FilterFollowsSocket`), the byte count keeps to the ring,
  `read()` returns what it got, and the application knows the status of the last report
  the modem printed with all its fields (`StatusFollowsModem`).  A `+CEREG` line with fewer
  is taken off the line and changes nothing: the application may then know less than the
  modem said, see `EveryReportIsTold` below.
- `returns` - every driver call returns.
- `serial` - `SerialLine` implements `LineQueue`: lines come out whole and in order; after
  a reader that gave up or a bad byte they may be missing or cut, but are never joined and
  never overtake (`LinesInOrder`), and the Normal and Ignore modes are back in step with the
  next line (`WholeAfterResync`).
- `time` - a torn reading is wrong by less than a second, a timer early by less than two;
  the clock itself is never torn by `setTime()` and shows exactly the time of the ticks.

Deadlock is not checked where a bound ends the model (`MaxPublishes`, `MaxSent`,
`MaxTicks`, `MaxCalls`; in `modem` and `returns` `MaxLines`, once lines pile up that no
reader is configured for).  That a call does not get stuck is `OperationEnds`.

Violation: the code does something other than its comment says; the finding in
`PROJECT.json` quotes the line.

- `retry_id` - a retransmission carries the remaining time as its message id.

**Known divergences.**  The same models show more of them; these are not kept as runs, but
the property is in the module, and the instance that violates it is the one of `session` (or of
`publish_once` or `modem` where the table says so) with the constants changed as listed (calls and faults stand for
the whole set, faults none where not given).

| Property | Instance | What happens |
|---|---|---|
| `ConnectedAtRest` | connect, sleep, wakeup; durations 0, 5 | `sleep(d > 0)` sends a DISCONNECT whose loop closes the socket; `wakeup()` queues a CONNECT that has no socket, and enters Connected (`nbiotstm.cpp:582`, against `libnbiot.h:188`) |
| `ConnectedAtRest` | connect, disconnect; not `Patient` | a `ConnectedEv` left from an earlier attempt is handled in WaitForConnect: Connected without asking the client (`nbiotstm.cpp:528`) |
| `ConnectedAtRest` | connect, disconnect, publish; `AutoPoll`; faults attach, drop | a yield is queued while the `ConnectedEv` waits; it loses the connection in WaitForConnect, then the event is handled and the state is Connected |
| `RegisterIsSent` | connect, publish; fault drop | a register loop that was cleared while pending keeps `LC_Pending`; the next publish resumes it without sending a REGISTER (`nbiotloopclient.h:53`, against `libnbiot.h:132`) |
| `DisconnectedAtRest` | connect, disconnect; fault send | a DISCONNECT that cannot be sent is reported with `LI_Unknown`, so the disconnect process is not continued (`nbiotmqtt.cpp:106`): client and socket stay open |
| `DisconnectedAtRest` | connect, disconnect; fault ip | an opening that fails while the DISCONNECT of an earlier attempt is still queued leaves it without a socket: it cannot be sent, and the client stays connected (`nbiotstm.cpp:431`) |
| `DisconnectedAtRest` | connect, disconnect; fault close | the modem refuses to close; nothing asks again (`nbiotstm.cpp:1118`) |
| `DisconnectedAtRest` | connect, publish, disconnect; not `Patient` | a failing loop drops a queued DISCONNECT (`nbiotmqtt.cpp:140`) |
| `LoopSendsOwnPacket` | connect, publish, disconnect; not `Patient` | a queued register loop sends the DISCONNECT that was serialised after its packet |
| `CleanSessionForgets` | connect, subscribe, disconnect | a connect with a clean session keeps the registry after a subscription (`nbiotstm.cpp:946`, against `libnbiot.h:123`) |
| `ConnectSendsConnect` | connect, disconnect | connect right after disconnect sends no CONNECT (`nbiotstm.cpp:1079`, against `libnbiot.h:121`) |
| `OffMeansDisconnected` | connect, sleep, wakeup, hibernate; durations 0, 5 | the modem is off before the DISCONNECT is sent (`nbiotstm.cpp:1002`, against `libnbiot.h:169`) |
| `HibernateSwitchesOff` | `FairSpec`; connect, sleep, asleep, hibernate; durations 0, 5 | hibernate in the awake phase has no effect (`nbiotmqtt.cpp:538`) |
| `AuthenticatedConnect` | connect; fault init | after a failed first initialisation CONNECT has no login (`nbiotstm.cpp:806`, against `libnbiot.h:85`) |
| `SubscriptionKept` | connect, subscribe, poll; fault register | a REGISTER from the gateway erases a subscription (`nbiotmqtt.cpp:649`) |
| `SuccessMeansAccepted` | `publish_once`: `MaxRetry = 0`; link lose | a publish that timed out is notified as accepted (`nbiotmqtt.cpp:119`) |
| `OneVerdict` | `publish_once`: `MaxRetry = 0`; link duplicate | a second PUBACK is notified as another verdict (`MQTTSNClient.h:538`) |
| `EveryReportIsTold` | `modem` as it is | a `+CEREG` report that has not exactly eight fields is swallowed, and the application keeps the status it had (`modembase.cpp:346`, marked `@todo`), although every field after `<stat>` is optional (`modembase.cpp:326-330`) |

Met while translating, and left visible in the models (by history variables, by
`ShortReads`, or by the weaker statement of a property):

- Registry: `removeTopic()` of a wildcard that stands behind a topic it covers removes the
  wrong entry or none (`nbiottopicregistry.cpp:243`); the wildcard stays "subscribed" and
  a later `subscribe()` sends nothing.  A registry that is kept over a clean connect
  (`nbiotstm.cpp:946`) holds ids of the old session.  `NbiotTopic::operator=` keeps an old
  handler (`nbiottopic.h:181`): `subscribe()` of a topic that has one ignores the new one,
  and `m_currentTopic` may hand on the handler of the topic before.  A REGISTER erases the
  SUB flag.  `unsubscribe()` of a wildcard forgets topics that were subscribed one by one,
  and other wildcards it covers.  "a/#" does not match "a".
- AT dialogue: an OK that comes late is taken for the answer to the next command (hence
  `task.clean`).  A `CFUN?` that fails reads as "off", so `switchModem(MODEM_OFF)` then
  reports off without having sent anything; one that is obeyed but not answered reports on
  (`TruthfulReport` therefore speaks of MODEM_ON only).  `sendAtCommand()` leaves lines
  unread.  An `nbiotCoreConfig()` that failed cannot be repeated.
- Networks: a second datagram overwrites `m_bytesAvail` (BC95 `network.cpp:278`), so bytes
  of the first stay in the ring unannounced; with `ShortReads` the count underflows.  A
  datagram between opening the socket and adding the filter is lost, and so is one that is
  only announced, with two fields, because NSONMI=3 was not obeyed (BC95 `network.cpp:272`).  `disconnect()` leaves
  ring and count as they are.  SARA: a failing last read subtracts one from the sum.
  `NbiotConnectivity::read()` may return more than was asked for.  BG96 formats the
  `+QIOPEN: %d,0` it waits for without the argument (`network.cpp:63`), which is undefined:
  whether the line of the modem matches is left open.
- Time: `getMillis()` is torn by up to a second either way; `addMillis()` loses ticks;
  `Timer::start()` twice adds the periods up; an inexact frequency drifts; `tickLock` is
  not volatile (the model takes the locked order as written).
- Serial: a reader that times out in the middle of a line returns the cut line; in Simple
  mode the next one returns the rest; a time-out seen by the loop condition or in
  `waitForTx()` sets no error; a line whose leading LF was taken by a reader that gave up
  is lost.

**Fairness.**  `NbiotMqtt`: a running function goes on (the thread is not stopped), the
application calls the event loop again and again (`libnbiot.h` asks for it; strong
fairness because other calls of the application interrupt its being enabled), no state
timer and no loop client runs forever (every step handler consults its timer and every
timer runs out).  Nothing is assumed about the gateway, the network or the faults.
`PublishLoop`: time passes and the event loop keeps turning.
`ModemDrivers`: the thread runs on, and the modem looks at every command, if only to ignore
it (weak fairness); a reader that waits again and again runs out of time, and so does a polling
loop (strong fairness of `readTimeout` and `timeUp`, since lines that arrive interrupt their
being enabled): the code bounds every wait and every loop with a `Timer`, and time passes
whatever the modem prints.

## 4. Proofs

Proved with TLAPS for every value of the constants that satisfies the named assumptions:

- `NbiotLoopProofs`: `LoopTypeCorrect`, `HookedClientPending`, `PendingEndsOnlyHooked`, from
  `LoopAssumption`.  The inductive invariant `LoopInv` is the type invariant together with
  `HookedIsPending` (both proved here and not repeated in a run: `LoopTypeOK` is a part of
  `TypeOK`); the second part is needed because `loopStep()` reports an old result
  of a client that is not pending, which would let a client finish without running.  The
  action property follows from one step under that invariant.
- `PublishLoopProofs`: `PublishTypeCorrect`, `TransmissionsBounded` and `OneShotPublish`, from
  `PublishAssumption`.  `TransmissionBound` counts transmissions and remaining retries
  together; the strengthening says that nothing has been sent and no retry used while the
  client is still queued.  `OneShotPublish` assumes no retransmission and no late packets:
  its invariant says that every packet on the link belongs to the current publish and
  carries its id, and that an accepting PUBACK means the gateway accepted.  With
  retransmissions the statement is false (`retry_id`).
- `CircularBufferProofs`: `RingCorrect` and the refinement `RingImplementsQueue`, from
  `BufferAssumption`; lemmas say what `advance`, `retreat` and the copies preserve.  For the
  refinement the contents of the queue are `BytesOf`: as many bytes as head, tail and the
  full flag say (`SizeOf`), read from the tail on with wrapping around (`Wrap`).  `put()` lays
  its bytes behind the last one (`Laid`) and leaves the others where they are, `get()` takes
  from the front; each operation is shown to be the step of `ByteQueue` or none.
- `TimeBaseProofs`: `TimeTypeCorrect`, `SetTimeCorrect`, `ReadCorrect`, `PaceCorrect`,
  `TimerCorrect`, from `TimeAssumption`: any length of a second, frequency, number of ticks and
  calls.  The inductive invariant `TimeInv` adds to the properties which phase a call is in
  (`PhaseInv`), that `tickLock` is held exactly while `setTime()` writes (`LockInv`), that the
  seconds a reader has seen are not ahead of the clock and less than a second behind the start
  of the call (`ReadInv`), what a timer that was started once knows of its start (`TimerInv`),
  and that clock and left-over ticks together are the ticks counted (`PaceInv`).
- `NbiotMqttProofs`: `MqttTypeCorrect`, `MqttOperational`, `MqttErrorReason`, `MqttWakeup`,
  `MqttSubscriptions` and `MqttHooked` (the hooked client is pending also in the composition),
  from `LoopAssumption`, `StmAssumption` and `MqttAssumption`: any topics, durations, faults
  and calls, patient or not.  `OperationalStatesInitialized` is not inductive, because an event
  posted in one state is handled in another: an ErrorDisconnect that outlived its Error would
  lead a later Error, with a modem that is not set up, to Disconnected.  `MqttInv` is therefore
  the types, `QueueInv` (in which order Initialize, Timer, ErrorDisconnect and ReInitialize can
  stand in the two event lists in each state) and `MachineInv`.  `WakeupInv` says where in
  `calls` the decision of `wakeup()` can be and which event is under way until then (`Waking`,
  `Dozing`); `SubscriptionInv` says that no subscribe loop is queued with a register loop, whose
  topic carries no subscription.

  `MqttConnected` proves `ConnectedAtRest` for every set of faults, topics, durations and any
  length of the queues, but under a hypothesis, `PlainUse`: the application is patient, there is
  no automatic poll, and it neither sleeps, hibernates nor wakes up.  These are the conditions of
  the examples and of `session`; without patience, with the automatic poll, or with `sleep()` and
  `wakeup()` the statement is false (section 3).
  What can go wrong is that the connection is lost, or taken down by a client queued behind,
  while its `ConnectedEv` waits to be handled, or that an old `ConnectedEv` is believed by a later
  attempt.  `BackingInv` therefore says what can be left of a call (`Shapes`, `CallInv`), that a
  `ConnectedEv` never stands behind a `Connect` in the queues and nothing is posted when one is
  sent (`FreshInv`), that a CONNECT which will be sent is the last client of the list, of a client
  that is not connected (`ListInv`), and that Connected is backed or about to be left and a
  `ConnectedEv` that will be believed is backed with nothing under way (`BackedInv`).

  `MqttOwnPacket` (`LoopSendsOwnPacket`) and `MqttPendingEnds` (`PendingEndsHooked` of the
  composition) have the same hypothesis, and again no other: every fault may occur.  There is one
  send buffer, written when a client is queued and read when its loop starts, so the invariant has
  to say that nobody queues or sends anything in between.  `SendingInv`: a batch of events with a
  `Connect` is one the application started with nothing hooked (`SourceInv`); in Connected the
  application finds the list empty (`EmptyInv`), and elsewhere only the machine's own clients are
  in it (`KindInv`); only attach loops, which send nothing over MQTT-SN, stand before a client
  whose packet waits, and that packet is its own (`CarryInv`); a queued DISCONNECT is started
  before Disconnected is entered again and could queue a second (`PartingInv`).  For
  `PendingEndsHooked` the end of a disconnect loop and the break it asks for are two steps;
  `AnsweredInv` says that no break is raised yet when the loop ends.

  `MqttDisconnected` (`DisconnectedAtRest`) needs one more hypothesis, `SocketsWork`: none of the
  faults ip, send and close.  With each of them the statement is false (section 3); the gateway may
  still drop the connection, and attaching, initialising and registering may fail.  `ClosingInv`
  follows a connection from the decision to give it up to the closed socket: a connected client has
  its socket, and no break is asked for that would drop its DISCONNECT (`UpInv`); that DISCONNECT
  is the first of the list, so that no attach loop fails before it and clears the list
  (`FrontInv`); a turn of the loop that failed takes no DISCONNECT of a connected client with it
  (`TurnInv`); and in Disconnected a connected client has its DISCONNECT queued or hooked, while a
  socket that is still open belongs to the disconnect loop that ends in this very turn (`GoneInv`).
- `TopicRegistryProofs`: `RegistryTypeCorrect`, `RegistryLimit`, `RegistryHandlers`,
  `RegistryMessages`, `RegistrySubscriptions`, `UnsubscribeExact`, `MatcherIsLevels`,
  `MatcherCorrect`.  All but the last two are from `RegistryAssumption` and `NamesAssumption`
  (applications do not publish to wildcards, the gateway registers none), for any names, ids,
  handlers and any relation "covers": nothing is used of the matcher.
  `RegistryInv` says that there is room for the topic of the running loop, that wildcards have
  handlers to hand on, that the ids of the registry are the gateway's and those of the gateway
  differ, and that what is flagged as subscribed is subscribed, as far as `strayed` allows.

  `MatcherAgrees` is about the matcher itself (`MatcherIsLevels`, `MatcherCorrect`): filters and
  names of any length over any characters, as long as they are well-formed and the name has no
  wildcard.  The matcher is a recursive function, and CHOOSE gives it a value only when the
  recursion has a solution: `PathsSolve` builds it from the paths the matcher can take.  The ends
  of the levels (`Ends`) cut both texts; inside a level without wildcards both sides go on
  together (`PlainLevel`), a whole level is one step (`LevelStep`), and behind it both have ended
  or both go on with the next one (`EndsMeet`).  Level by level from the last one (`RestMatches`)
  the two matches are the same.  A least counterexample (`LeastNat`) stands in for induction.
- `SerialLineProofs`: `SerialTypeCorrect`, `SerialWhole`, and the refinement of `LineQueue`
  (`SerialRefines`), from `SerialAssumption` (texts are not empty and have no control
  characters).  The bytes on the line are always the rest of the frames the modem printed
  (`Stream`); the reader is between two frames or inside one (`Between`, `Passed`), and what it
  has collected lies in one frame, or the byte that was lost was the linefeed at its end
  (`LineInv`).  The refinement has the hypothesis `MaxBad <= 1`: two lost bytes can join two
  lines.
- `ModemDriversProofs`: `BytesAreThere`, `SocketHasFilter`, `StatusIsCurrent`, `ReadIsHonest`,
  `ReportsAreTrue`, from `AtAssumption` and `DriverAssumption`: any number of sockets, any ring, any counter wide enough
  for it, any faults.  The inductive invariants are defined in `ModemDriversInvariants`.
  `DriverInv` says what the list of steps of a function can be (`Proper`: a
  step that enters a socket is followed by flush and filter and nothing else; the ends of BC95's
  `read()` loop come first in the list, never behind other steps), that BC95 is about to take
  from the ring only what the last line put there (`AvailInv`), that a socket has its filter or
  a `connect()` that still has `ok` is on its way to install it (`SocketInv`), and that the last
  report of a kind on the wire that has all its fields is the modem's last value and a status
  that was once handed on has a filter (`StatusInv`).

  `ReadHonest` adds `HonestInv`, which says for every place in the `read()` of each driver what
  `bytes`, `rb` and `data` are to each other and what can be on the wire there: in the SARA
  drivers the only row that can be outstanding is the answer to the NSORF just sent, no longer
  than what it asked for (`RowInv`, `Silent`), and what the round before has read is added once
  (`BytesInv`); BC95 and BG96 count in the step that takes the bytes (`BcInv`, `BgInv`).

  `TruthfulReport` adds `TruthInv`, while `clean` holds and for the calls that tell something
  about the modem (`Telling`).  An "OK" carries no name of the command it answers, so the
  invariant has to know which commands it can belong to: every function is a list of steps in
  which certain steps stand next to each other (`Told`: what a step carries, what comes before
  and after it, where it stands); only commands that do not undo what the function reports are
  on the wire (`WayInv`), every line on the wire says the truth (`Evident`, `LinesInv`), an "OK"
  stands behind the line it confirms (`AskInv`), and once no query is left in the function an
  "OK" that is yet to come means that the order was obeyed (`OrderInv`).  The report is then
  true as soon as the step that decides is behind (`Pending`, `JudgeInv`).  Programs that insert
  others while they run (`reboot()` of BC95, `switchModem()`, `initialize()`) need that the
  inserted list keeps these neighbourhoods (`Fits`, `Placed`).

Only model-checked: all liveness properties (`OperationEnds` and those of `sleep` and the publish
runs): fairness and ENABLED are out of the prover's reach.

## 5. Not modelled

- Callbacks that call back into the API (the `eventLoopLock` case); return values of API
  functions.
- Keep-alive timing (a PINGREQ may be sent at any step); the duration in a DISCONNECT of the
  gateway (the client ignores it).  `AwakeActiveEvent` is declared and has a transition, but
  nothing sends it.
- The type of a topic (normal, predefined, short) and the message counter of the registry.
- Texts of AT commands, addresses, payloads and hexadecimal encodings; `REPLY_NONE`, which
  nobody uses.
- Packet formats (third-party serialisers), the C API (one-line wrappers), strings, lists,
  debug output: no state of their own that outlives a call.
- Examples, utilities and tests: board files, a main loop and test drivers; the main loop of
  the C example is the usage that `Patient` stands for.

## 6. Plan

The components that keep state are modelled, and every invariant and action property a passing
run checks is proved, some of them under a condition on the constants (`ConnectedAtRest`,
`LoopSendsOwnPacket` and `PendingEndsHooked` of the composition under `PlainUse`,
`DisconnectedAtRest` under `PlainUse` and `SocketsWork`, `OneShotPublish` without retransmission).
What is left with TLC is liveness.
