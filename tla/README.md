# A TLA+ verification project for 3ds-brew-remote

3ds-brew-remote turns a Nintendo 3DS into an input device of a PC. A homebrew
program on the 3DS (`src/3ds`) streams its inputs over UDP; a program on the PC
(`src/pc/input_server`) finds the 3DS, keeps a session alive, turns each packet
into differences, and fires handlers that drive uinput devices (mouse,
keyboard, gamepad) or a DSU ("cemuhook") server that emulators subscribe to.
`src/pc/py_poc` is an earlier receiver in Python.

This directory holds TLA+ modules translated from that source, TLC
configurations that check them on small instances, and TLAPS proofs that hold
for every value of the constants. Paths below are relative to `src/`; `input/`
stands for `pc/input_server/src/`.

## 1. Inventory

| Component | State it keeps | Operations | Interacts by |
|---|---|---|---|
| **3DS session** `3ds/source/main.cpp` | `g_state` (WAITING_WIFI, LISTENING, STREAMING), `g_sock`, `g_pcAddr`, `g_lastHelloMs` | `controllerTick` once a frame | UDP port 6000: reads HELLO, sends ACK and INPUT |
| **PC receiver** `input/server/transceiver/server.cpp` | locals of `run_client`: socket, attempt, `last_keepalive`, `last_rx`, `now`, `prev_input` | `validate_socket`, `do_handshake`, the loop | UDP port 6001; `InputController::fire` |
| **InputController** `input/server/device_handling/Inputs.*`, `InputMap.h` | owned objects, one bucket of objects per input, a static id counter | create, initialize, override_mapping, remove, adopt, move, fire | raw pointers from buckets to objects |
| **Input objects** `statics/Objects.*`, **uinput wrapper** `host/OSRetrieve.*` | a device, a pending event queue, a DSU frame | init, the setters, sync, flush | uinput; `cemuhook::Connection` |
| **Mappings** `statics/Mappings.cpp`, `Configs.h` | static tap, drag and scroll state | one handler per input | called by `fire` |
| **DSU server** `input/server/cemuhook/Connection.*` | socket, `subs_`, `packet_counter_`, `rumble_`, `slots_` | open, close, poll (with prune), send, set_slot | UDP port 26760 |
| **DSU wire format** `cemuhook/Messages.*`, `Protocol.*` | none | parse and frame | pure |
| **Input packets** `input/server/protocol.*`, `datatypes.h`, `get_diffs` | none (`prev_input` in the receiver) | pack, unpack, difference | pure |
| **3DS platform** `3ds/source/platform.cpp` | soc buffer, whether soc and NDM are up, the last Wi-Fi answer | startNetwork, networkVisible, loop, exit | called by `main` |
| **3DS log** `3ds/source/log.cpp` | messages that wait, an update flag | addLog, drawLog | called by everyone, drawn once a frame |
| **PC entry point** `input/main.cpp` | the controller that `ds()` builds | `main` | runs `run_client` |
| **PC logger** `input/logger.h` | a level and a buffer | chained `<<` | a consumer that drops everything |
| **Python receiver** `pc/py_poc/src/receiver.py` | thread, socket, last-rx time | start, stop, receive_loop | UDP |

What is hard here:

- *Session.* Two programs with clocks of their own share a lease that only
  datagrams carry. HELLO is a request, a keepalive and a takeover at once; ACK
  and INPUT share the receiver's socket. Datagrams are lost, late, repeated and
  overtaken, either side restarts and forgets, and several timers race.
- *DSU server.* It is single-threaded, but requests arrive in the middle of
  `poll`, clients vanish without a word, `send` numbers packets for clients
  that come and go, and rumble outlives the client that asked for it.
- *InputController.* Buckets hold raw pointers to objects that may be removed,
  adopted or moved; initialization is deferred and may throw half way; the
  mapping decides the buckets and changes under them.
- *Console.* The network comes up inside the frame loop, over as many frames as
  it takes; any service call may fail in the middle and the next frame tries
  again, with what the last one took.
- *Mappings and objects.* Timers that are only looked at when a packet comes; a
  digital and an analog view of the same button; handlers that throw.

What must be true of each component:

- session: no receiver streams from a console that never answered it; the
  keepalive schedule keeps a session; a dead PC is released; sessions heal;
  receivers end once nothing comes any more but ACKs, and handshakes end;
- DSU server: one entry per client; only silent clients are pruned and all of
  them in the end; packet numbers without gaps; no rumble without clients;
- InputController: fire calls exactly the initialized objects with a handler;
  one owner per object; ids are not reused;
- mappings and frames: no mouse key stays down without a button that holds it;
  a tap is clicked once, as the click of its number, and never after a drag; a
  DSU frame is the packet it was made from; touch ids follow touches;
- pipeline: emulators and readers of the virtual pad see whole packets, in order,
  and the pad does not outlive the program with keys held;
- console: what was taken is given back whatever failed, the socket is never
  leaked, no message is lost, and the network comes up in the end;
- DSU wire format: a request comes of exactly the datagrams that hold one, and
  nothing is read outside the datagram;
- Python receiver: `stop` leaves no thread behind; a thread that hears nothing
  ends.

`PROJECT.json` lists the hazards line by line with the properties that would
catch them.

## 2. Modules

### Session: `Wire`, `DSClient`, `Receiver`, `RemoteSession`, `StreamLease`

`Wire` is the path: a set of datagrams, each with the time it has been in
flight. Taking one may leave a second copy behind (UDP may duplicate), a set
has no order, and after `MaxDelay` a datagram has to be received or lost. The
socket's receive buffer counts as part of the flight.

`DSClient` is `controllerTick`. One action per way through a frame:

| Action | Code |
|---|---|
| `TickWaiting`, `TickBind` | STATE_WAITING_WIFI (main.cpp:343-354); a failed `createSocket` is tried again |
| `TickListenIdle`, `TickListenHello` | STATE_LISTENING (356-380): a HELLO is answered, INPUT starts in the next frame |
| `TickStreamHello` | STATE_STREAMING with a HELLO (382-410): take the sender, reset the clock, ACK, and INPUT in the same frame |
| `TickStreamInput`, `TickStreamExpire` | without a HELLO (399-410): stream, or time out |
| `ConsoleRelaunch` | the program ends and is started again |

A frame that reads a datagram that is not a HELLO is a frame that reads none.
`helloAge` is `osGetTime() - g_lastHelloMs`; every comparison the code makes
with it is decided below `HelloCap`, where it stops. `g_lastHelloMs` starts at
0, hence `helloAge` at its cap.

`Receiver` is `run_client`. `phase[h]` is the program counter at the calls that
block: `greet` (before `sendto`), `await` (in the `recvfrom` of `do_handshake`),
`top` (head of the loop), `poll` (in the loop's `recvfrom`). Ages stand for the
differences with `last_keepalive`, `last_rx` and `now`. The idle test is made
with the `now` that was read before the wait (server.cpp:199), as in the
code: `rxAge - nowAge`. It is made by a poll that times out and by no other: an
ACK sends the loop round without it (`PollAck`), and so does a datagram that
`unpack_payload` refuses (`PollRefused`, server.cpp:214-217); neither touches
`last_rx`. In `do_handshake` a refused datagram uses up an attempt like an INPUT
(`AwaitRefused`). Anybody may send such a datagram at any moment and any number of
times, a console with another version of the packet for instance, so
`AUTO_TERMINATE_S` is put off for as long as they come.

`RemoteSession` composes one console, any set of `Hosts` and the path under one
clock, and keeps history variables (`lost`, `upAge`, `sentAge`, `silent`) that only
the properties and the loss bound use. Time is discrete. `Tick` waits while
something is overdue: the frame of the unit, a thread that is not blocked, an
expired `recvfrom` timeout, a datagram at the end of its flight. Anything else
may happen any number of times in a unit. `Lose` drops no more than `MaxLoss`
HELLOs of a host in a row while both ends stream; before that, it may drop
every one.

`StreamLease` is the abstract specification: the console leases its stream to
one host at a time, a host that asks takes it over, an unrenewed lease ends but
not before `Term`, and a host believes in a session only if the console once
granted it a lease. No datagrams and no PC timers. `RemoteSession` implements it
(`ImplementsLease`) under: `owner` is `g_pcAddr` while STREAMING, `believers` are
the hosts in their loop.

### DSU server: `DsuConnection`

The actions are the calls of the application thread (`Open`, `Close`, `Send`,
`SetSlot`, and `poll` in three kinds of step: `PollBegin`, one `PollTake` per
request, `PollDrained` then `Prune`) and the arrival of a request. `where` keeps
other calls out of a `poll`; arrivals and time may come between its steps.
`subs` is `subs_` with the age of `last_seen`; it is a set of records, not a
function of the client, so that a second entry for a client would be seen.
`last[c][s]` is history: the number of the last packet of slot `s` that `c` got
in its present series.
Versions, ports and motor queries are answered from constant tables and change
nothing (`Queries`), as does what `parse_client_packet` refuses. Of a slot's
description only the MAC decides anything. `counter` counts modulo
`CounterMod`, which stands for 2^32.

### InputController: `InputController`

One action per public operation: `Create`, `CreateFails`, `InitializeOk`,
`InitializeFails`, `OverrideMapping`, `Remove`, `Adopt`, `MoveAssign`. `obj` is an
object's memory, `inputs[c]` the ids that controller `c` owns, `buckets[c][i]` the
number of entries of each id in the bucket of input `i` (the code's parallel
lists and vectors always change together), and `Fire(c, i)` the calls that
`fire` makes. `AfterInit` follows every `init()`: the mapping is assigned first,
then the device is created, so a failure leaves an object with a mapping and no
device, not initialized. The donor of an `adopt` is a moved-from object and is
not used until it is assigned to.

Every order of these calls is a behaviour of the model, and in two of them the
code enters an object into buckets before its `init()` has returned:
`override_mapping` does so for an object that is not initialized
(Inputs.cpp:120-130), and `adopt` for one whose `init()` threw, since it goes by the
mapping alone (Inputs.cpp:59-68 and 154-160; `Strays`). The handlers of such an
object are called too early and may reach a device that was never created (the
assertion of OSRetrieve.cpp:61), and an `initialize` afterwards adds a second entry.
The history variable `astray` holds these objects until an `override_mapping` of the
initialized object, or an `adopt`, makes their entries anew. `FireExact` and
`CalledReady` say what `fire` calls of all the others, and `FireExact` says of all
objects, strays included, that a controller does not call what it does not own.
The first of the two orders has a run of its own, which fails
(`controller_override`); the second has none, as no text of the repository says
what `adopt` does with such an object.

### Packets and objects: `InputPackets`, `MouseMapping`, `CemuFrame`

`InputPackets` is what a packet says (buttons, touch, position) and `Diffs`,
the operator for `get_diffs`: the buttons that differ from the packet before.
Circle pads, gyroscope and accelerometer are left out; their handlers compute
floating-point movement.

`MouseMapping` is the MOUSE map and the uinput device under it. One action,
`Packet`, is everything that a packet does: the handlers of its differences and
of ALWAYS and LAST, one after the other in the order of firing, as operators
that give the events they write (`KeyEdge`, `XEdge`, `Click`) and what becomes
of the statics of the touchpad (`Touch`, `Flush`, `Move`). `Written` is the
sequence of events, `After` what the kernel makes of it. Packets may be any
packet at any time: a lost or overtaken packet is one that does not come.

- Of movement one thing is kept: a touch that moves the pointer becomes a drag
  and drops the pending taps. Whether a touch that moved does (dead zone,
  speed, debt) is `moves`, chosen freely.
- The tap timer is looked at when a packet arrives and at no other time, as in
  the code. If the stream stalls, two taps that were further apart than the
  timer are joined into a series; `TapOutcome` allows it.
- `queued` of `OSWrapper` is set and never reset, so the code ends an empty
  report after every packet once something was written; the kernel drops an
  empty report and the model does not have it.
- A and L share BTN_LEFT, B and R share BTN_RIGHT: releasing one of the two
  lifts the key while the other is held. Nothing in the source says which is
  meant, so `NoStuckButton` speaks of keys none of whose buttons is held.

`CemuFrame` is the frame of `InputCemuGamepad` and its relay from the 3DS.
`frame` has a bit per button, the explicit pressures and
`derive_analog_from_digital`; `Sent` is what a subscriber gets. The actions are
`Packet` (`translate`: all buttons, the triggers, the touch) and the public
setters (`Setter`: `PressOrRelease`, `CallDpad`, `CallTrigger`, `CallPressure`,
`ClearPressures`), which the owner of the object may call between packets.
`packet` and `aimed` are history. `set_slot` and the other setters of the
descriptor are not modelled; `set_slot` leaves the descriptor of the slot before
present (Objects.cpp:240-243), and nothing calls it.

### Input pipeline: `Pipeline`, `DeviceViews`, `MCPipeline`

`Pipeline` extends `CemuFrame` with the second object of the controller that
`ds()` builds (main.cpp:44-50), an `InputGamepad`, and takes a packet apart into
the handlers that `run_client` fires: `Receive` (FIRST and ALWAYS of the relay,
which touch nothing outside the program), `PadAlways` (`gamepad::apply` on
uinput), `RelayLast` (the frame goes to `Connection::send`), `PadLast` (the
report). Between any two of them someone may look: `sent` is what emulators were
given, `shown` what readers of the pad see, which is `device` as of the last
report. `WriteFails` is a write to uinput that throws, `Leave` the end of the
session; nobody catches and nobody releases keys, the device goes with the
program (`Vanish`). `Set` is a setter that the owner calls between packets.
The handlers share a thread, so a setter cannot come inside a packet.

`DeviceViews` is the promise: two consumers, the emulators first, each seeing
whole packets, with no packet let through while one of them still waits for the
one before, and a pad that is gone in the end. `Pipeline` implements it
(`ImplementsViews`): `emulator` is `sent`, `pad` is `shown`, and `behind` holds
between `RelayLast` and `PadLast`. An emulator keeps what it was given last when
the program ends: DSU has no message for it, and the code sends none.

### Touch: `TouchScreen`, `TouchPixels`

A touched pixel is multiplied by 1/319 (1/239) on the console and by 319 (239) on
the PC, each time in 32-bit floats, and then truncated. `TouchScreen` has the
products exactly, as integers over powers of two, rounded half to even.
`MCPipeline` evaluates for every pixel that corners arrive as they are, that a
coordinate is the pixel or the one before it, and that order is kept.
`TouchPixels` is a finger on one axis, for the claim that fails.

### Console: `Console`

The life of the program on the 3DS around its session: `Boot` (sensors),
`platform::loop` with `startNetwork` (`LoopUp`, `LoopInvisible`, `LoopSocFails`,
`LoopSocUp`), `controllerTick` as far as the network is concerned (`WaitDown`,
`WaitInvisible`, `WaitVisible`; `TickQuiet`, `TickHello`, `TickExpire` stand for
what `DSClient` has in detail), `Draw` (`drawLog`), and the exit in its order
(`SensorsOff`, `Close`, `NdmOff`, `SocOff`). `Outcomes` lets every service call
fail, `Results` has two errors that differ, as a change of the error is logged,
and `WifiChanges` may come between any two steps. `calm` is history: from
`Settle` on Wi-Fi stays and calls succeed. `pending` counts messages.

Two things of this code that no text promises otherwise: sleep is allowed again
at exit only if NDM had been locked (platform.cpp:206-212), and Wi-Fi that goes
away after LISTENING was reached is never noticed, as `networkVisible` is asked in
WAITING_WIFI only.

### DSU wire format: `DsuWire`, `DsuRequests`, `MCDsuWire`

Operators only. A `Reader` is a position and `ok()`, and every group of reads is
the chain of `u8` calls that the code makes; `HeaderOk` has the early returns of
`parse_header` in their order, `ParseClientPacket` the cases of the switch,
`Frame` is `frame_packet` with its 16-bit length. The value that a failed read
gives (0) is dropped with the packet, so values are read by position. `Crc32` is
a constant: that it is the same function on both ends, and that it gives four
bytes, is all that is used.

`DsuRequests` joins it to `DsuConnection`: every request that waits in the socket is
one of the datagrams that an emulator may send for it (`DatagramsOf`), and
`RequestsRead` says that `poll` hands on what the emulator asked for (`Means`), and
of the same datagram exactly what it still holds when it is damaged, cut at any
place or a byte longer, as it is or with any length field up to 15 and the checksum
that goes with it (`Variants`). `MCDsuWire` gives `Crc32` a sum in place of the polynomial, and has
assumptions over bounded datagrams (every type and an unknown one; payloads of 0
to 10 bytes; declared lengths that are too short, right and too long), which TLC
evaluates in every run of `MCDsuConnection`.

### Python receiver: `PyReceiver`

The caller (`main`: idle, in `do_handshake`, in the `join` of `stop`) and any
thread that `start` left behind (`loop[t].at`: before it starts and after it
ends, at the head of the loop, in `recvfrom`, in the display). Steps of both and
time interleave. A thread's `rx`, `keep` and `input` are the times since
`last_rx`, `last_keepalive` and (history) the last valid packet; all locals are
reset when a thread ends. `answer` is the one answer that the network has for
the socket besides packets: an ACK or the ICMP error of a HELLO. Every `start`
uses the same listen port, so the socket of a running thread makes it return
1; with two ports one could start two threads.

## 3. Runs

| Run | Instance | What it shows |
|---|---|---|
| `session_clock` | one PC; timers of the code in seconds, idle limit of the receiver 8 for 30; `MaxDelay` 1, `MaxLoss` 3 | `KeepaliveHolds`: three keepalives may be lost in a row and the console does not time out. `IdleEnds`: a receiver without input ends, two polls and a round trip at the latest after its limit or the last datagram that it refused. Under fairness: `SessionHeals`, `HandshakeResolves` |
| `session_pair` | two PCs; keepalive, poll and idle limit 1, console timeout 4; datagrams that are not delayed beyond their unit but may be lost, repeated and reordered | `NoPhantomSession`, `DeadHostReleased`, and the lease (`ImplementsLease`) |
| `dsu_clients` | two emulators, one slot whose MAC changes, numbers modulo 2 | `SubscribedOnce`, `NoGaps`, `LiveClientKept`, `RequestsRead`; under fairness `SilentClientGoes` |
| `dsu_rumble` | one emulator | **fails**: `RumbleDropped` |
| `controller_calls` | two controllers, three objects, two kinds and maps, every order of calls, uinput failures | `FireExact`, `OneOwner`, `DeadIdsStayDead` |
| `controller_override` | one object | **fails**: `BucketInvariant` |
| `mouse_taps` | A, L and X, two positions, timers of 1 to 3 units | `NoStuckButton`, `StillTapCounts`, `TapOutcome`; under fairness `TapResolves` |
| `pad_pipeline` | a face button, two opposite directions, a trigger; three pressures; touch ids modulo 3; the owner sets a trigger and a button without pressure | `FrameFollowsPacket`, `OthersKept`, `TouchIdStable`, and the promise to both consumers (`ImplementsViews`) |
| `console` | three Wi-Fi words, a window of 29 lines | `Released`, `SocketHeld`, `LogShown`; under fairness `ComesUp` |
| `touch_pixels` | every pixel of either axis | **fails**: `PixelsDistinct` |
| `py_threads` | two threads; the timers of the code in half seconds | `StopReaches`, `SilenceEnds` |
| `py_idle` | the same without datagrams that are neither packet nor ACK | **fails**: `NoInputEnds` |

`TypeOK` of each module is checked in one run of it that passes
(`PipelineTypeOK` includes that of `CemuFrame`).

Why the bounds are enough:

- *Ages* stop at the largest value that any comparison of the code, or of a
  property, looks at (`HelloCap`, `RxCap`, `KeepCap`, `IdleEnd`, `IdleCap`, `ReleaseCap`, ...):
  beyond it all ages behave alike. They are not bounds on the behaviours.
- *Timers.* `session_clock` and `py_threads` have the proportions of the code,
  where the margin between keepalives and timeouts is the point. In the other
  runs the order of the timers is the code's and their size is not.
- *Two PCs* are enough for a takeover and for a dead PC whose datagrams still
  arrive; the theorems hold for any number. Two emulators are enough for an
  entry to be found, missed and removed by another.
- *Three objects* let a bucket lose an entry in the middle, at the end, and keep
  one; two controllers are enough to adopt, to move and to do both.
- *Counters* modulo 2 or 3 wrap early and often; `GapFree` and `TouchSafe` are
  proved for every modulus.
- *Wi-Fi words*: what counts is 0, not 0, and a change from one to another.
- *Two threads* are enough for a start that follows a stop that came too early.

The four failing runs are disagreements between the code and what it says:

- `dsu_rumble`: `prune` drops the rumble in the poll that removes the last
  client (Connection.cpp:206-212), but a rumble command needs no subscription: one
  that comes from a client without one is held for ever. The comment there:
  "If every client is gone, drop any held rumble (DSU spec safety rule)."
- `controller_override`: `initialize` adds entries for the default map without
  removing those of an earlier `override_mapping` (Inputs.cpp:148-155), against
  "obj->mapping non-null and has a non-null handler for btn" (Inputs.cpp:110).
- `touch_pixels`: 82 of the 320 columns and 71 of the 240 rows lose a pixel
  (3 arrives as 2), because `static_cast<uint16_t>` truncates a product that
  rounding left just below the pixel (Mappings.cpp:380). The comment above it
  (Mappings.cpp:369): "it preserves every pixel the 3DS can physically resolve".
- `py_idle`: `last_rx` is set for every datagram, the ACKs of the loop's own
  keepalives included (receiver.py:295), so a console that answers and does not
  stream keeps the loop alive; receiver.py:12 says "Auto-terminates after 30
  seconds of no valid input packets". `run_client` has it right
  (`IdleEnds`).

## 4. Fairness

- *Session.* Time goes on (`[]<><<Tick>>_vars`): nothing else may happen
  infinitely often in a moment. `Tick` waits for what is overdue, so this also
  makes frames happen, threads run and `recvfrom` time out. Strong fairness of
  `TickBind`: a console that keeps trying to bind succeeds in the end. Strong
  fairness of hearing each host: a console that is sent HELLOs again and again
  hears one in the end (UDP loses datagrams, not all of them for ever).
- *DSU server.* The application calls `poll` again and again (strong fairness,
  since `Open` and `Close` come in between), time passes, a poll takes what is
  in the socket and reaches its `prune`, and the socket is empty at some point
  (strong fairness of `PollDrained`). The last is an assumption on the clients:
  the loop of `poll` has no bound of its own.
- *Mouse.* Time goes on and packets keep arriving: the console sends one each
  frame, and the tap timer is looked at by packets only.
- *Console.* `main` runs on as long as it has not returned (weak fairness of its
  steps together: none of them blocks, and `aptMainLoop` may end the loop at any
  frame). Nothing is assumed of Wi-Fi or of the services; `ComesUp` speaks of
  the time after `calm`, when they have settled.
- *Pipeline.* None: its properties are safety.
- *Python receiver.* No fairness: `SilenceEnds` is a bound, since `Tick` waits for
  threads that are not blocked.

## 5. Proofs

Eight modules hold proofs, checked by TLAPS for every value of the constants that
meets the named assumptions of the modules.

- `RemoteSession_proofs`. `TypeInv` strengthens `TypeOK` with what bounds the
  ages: a thread in `recvfrom` waits no longer than its timeout, so time cannot
  pass a cap. `PhantomFree`: an ACK on the path, or a receiver past its
  handshake, comes of a grant (`AcksEarned`). `DeadHostSafe`: a HELLO on the path
  is no younger than the last one its host sent (`SentFirst`), and the HELLO that
  the console took last was on the path for `MaxDelay` at most (`Owed`).
  `KeepaliveSafe`: `Margin` accounts for each lost or flying HELLO with one
  keepalive period since the console last heard the host, and is needed because
  `KeepaliveHolds` alone says nothing of the state one loss earlier; from the
  assumption
  `(MaxLoss + 1) * (KeepaliveInterval + PollTimeout) + MaxDelay <= HelloTimeout`
  (28 <= 30 for three lost keepalives and the timers of the code).
  `IdleSafe` by `IdleInv`. The idle test compares `last_rx` with the `now` that was
  read before the wait (`rxAge - nowAge`), so it lags by the poll it ends
  (`PollInTime`, `TopInTime`); `rxAge` is never behind the true silence by more than
  its cap (`RxBehind`); and a poll that an ACK ends early makes no idle test, which
  (refused datagrams apart, from which `silent` starts at the limit again) may
  happen for a round trip after a keepalive and no longer, since an ACK on the
  path answers a HELLO that is `MaxDelay` older at most (`AckOwed`). The hypothesis
  `RoundTrip`, `2 * MaxDelay < KeepaliveInterval` (2 < 5 in the run), keeps the
  answers of two keepalives apart; with a slower network TLC finds `IdleEnds`
  violated, and with any smaller bound too.
  `LeaseImplemented`: initial states and steps map to those of `StreamLease`.
- `DsuConnection_proofs`. `OnceSafe`; `LiveClientSafe` by `KeepInv`, which says
  that a subscriber none of whose requests waits is no older than its last
  request, and that a request which waits while `poll` prunes has only just
  arrived; `GapFree` for every counter width. `RequestsSafe`: the datagrams that
  emulators send for a request, for every slot, MAC and intensity that is a byte
  and every checksum of four bytes, are framed packets (`FromClientFacts`, from
  `FramingSound`), whose bytes at the positions that the parser looks at are those
  of the selector (`DataRead`, `RumbleRead`, `PortsRead`, `QueryRead`); what is damaged
  is still a sequence of bytes, to which `ParserExact` and `ParserInside` apply.
- `InputController_proofs`. `FireSafe` and `CallSafe`, for every order of calls, by
  `FireInv`: the buckets of every usable controller have no entry of an object it
  does not own and, of those it owns and that are not `astray`, one for each input
  that an initialized object handles (`Exact`); an initialized object has the device
  of its kind (`ObjectInv`); and an object has one owner, without which `adopt`
  could leave the new owner's entries to a second one. An object that is neither
  initialized nor astray has no entry at all, so that the entries `initialize` adds
  are its first.
- `Pipeline_proofs`. First of `CemuFrame` by itself: lemmas on what each setter does
  to `Sent`; `FrameSafe` (what is sent for a packet is that packet, from any frame
  before it), `OthersSafe`, `TouchSafe` by `Remembered` (the frame's touch is the
  one the relay remembers). Then `PipelineIsFrame`: a step of the pipeline is a step
  of `CemuFrame` or leaves its variables alone, so those theorems carry over.
  `ViewsSafe` needs besides them that the frame and the pad hold the images of the
  packet in hand from the step that makes them to the one that shows them,
  whatever setter came before.
- `MouseMapping_proofs`. What a packet writes is a list of events, and the keys that
  are down after it are those whose last event is `Down`. The lemmas say what that
  is for a list that one handler after another makes longer (`AfterConcat`: the
  events of the later one decide, where it has any), so that `UnstuckSafe` becomes
  a statement about each handler. They need the last event of a key, that is, the
  greatest element of a bounded set of numbers; `LeastElement` takes it from the
  well-foundedness of `<` stated with sets, as induction over an operator cannot be
  used. `TapCounts` and `TapEnds` rest on `Inv`: the mapping is pressed exactly while
  the last packet touches, the position it compares with was seen in this touch
  (`SeenLast`), and while it drags no tap is pending and two positions were seen
  (`DragMoved`). Without `SeenLast` a drag could begin in a touch that never moved.
- `Console_proofs`. `ReleaseSafe`, `SocketSafe` and `LogSafe` from one invariant that
  says for every point of `main` what has been taken by then (a sensor is on
  exactly if its flag is set, NDM is locked exactly if `s_ndmuLocked`, soc is up
  whenever there is a socket) and how much the frame has logged: five lines
  before the first frame, four of `startNetwork`, three of the tick.
- `PyReceiver_proofs`. `StopSafe` by `StopInv`: while `stop` waits, its thread has at
  most the rest of a poll and one display before it sees the event, and `join`
  waits for longer (`JoinAssumption`). `SilenceSafe` by `SilenceInv`: how far the
  silence may have grown by the stage it is in - looked at in the last poll,
  one poll ended by an error, a keepalive sent since, two polls ended by errors;
  after those no keepalive is due before a poll times out
  (`KeepaliveAssumption`). It needs `StopReaches`: one thread at most receives
  the answers.
- `DsuWire_proofs`. `ParserExact` (checking `ok()` once after a group of reads is as
  good as checking the length first), `ParserInside` (nothing outside the
  datagram is read, whatever length the client declares), `FramingSound`.

## 6. Model-checked only

Liveness under fairness (`SessionHeals`, `HandshakeResolves`, `SilentClientGoes`,
`TapResolves`, `ComesUp`) is out of the prover's reach, as is anything
that needs ENABLED. The arithmetic of `TouchScreen` is evaluated for every pixel,
which is all there is.
Every invariant and every action property of a run that passes is proved.

## 7. Not modelled

- The platform layer: the APT hook and the backlight (`s_backlight` is never
  false, so both do nothing), threads (none is started), screens, clock. The
  bottom screen shows the address of the PC that began the stream and is not
  redrawn when another one takes it over (main.cpp:390-397). `Console` and
  `DSClient` are two views of one tick and are not composed: the session does
  not depend on how soc came up.
- Session: payloads. With two PCs that both send HELLOs the stream goes to whoever asked
  last; the model has it, and no property speaks of which of the two has it.
- DSU server: a slot's battery and model; moving a `Connection` (no step: it
  carries its whole state over); the payload serializers except for what
  `CemuFrame` says is in them.
- InputController: printing, the logger pointer, the results of `fire`, and a
  donor of `adopt` that is used without being assigned to.
- Mappings: sticks, gyroscope, pointer speed, scrolling (floating-point
  arithmetic); LOGGING, which keeps no state. Writing to uinput never fails in
  `MouseMapping`; it does in `Pipeline`.
- Input objects: `InputGamepad::button_click`, which reports in the middle and which
  no mapping calls; the slot descriptor.
- PC logger (`input/logger.h`): formatting for a consumer that drops all of it, used
  by one thread. Levels and text of the 3DS log.
- PC entry point: the builders that `main` does not call, and the prompt.
- Build files; in Python the display, the simulator,
  the device classes and the interactive `main` of receiver.py.

## 8. Plan

1. Proofs: more bounds in time that liveness follows from where the timers give
   one, as `IdleEnds` does (`SilentClientGoes`: no subscriber is older than the
   timeout after `prune`), and that the reader of `DsuWire` never moves beyond its end for the query of ports
   with any number of slots.
2. The serializers of the DSU payloads, with `Sent` of `CemuFrame` decoded from
   the 80 bytes.
3. `Console` with the session of `DSClient` inside it, if the console learns to
   notice that Wi-Fi went away.
