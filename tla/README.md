# gate-control: a TLA+ model of the gates, the server and the browsers

gate-control lets people watch and move barrier gates from a browser. An Arduino
board drives the gates; a C++ server (Boost.Asio and Beast) talks to the board over
a serial line and to the browsers over HTTP and websockets. This directory holds
TLA+ specifications of the parts that keep state and run concurrently, TLC
configurations that check them on small instances, and TLAPS proofs that almost every
safety property checked holds for any number of gates, sessions, connections and users.

- [Inventory](#1-inventory) of the system and its hazards
- [Modules](#2-modules-and-the-code-they-model) and their correspondence to the code
- [Runs](#3-runs-bounds-fairness), bounds, fairness
- [Proofs](#4-proofs)
- [Findings](#5-findings)
- [What is left out](#6-what-is-not-modelled) and the [plan](#7-plan)

To check: `tlc -config MCBridgeLive.cfg MCBridge.tla`, `tlapm GateFirmwareProofs.tla`.

## 1. Inventory

Paths are relative to `src/src/` unless they start with `src/`.

| component | state | operations | talks to |
|---|---|---|---|
| Gate firmware, `arduino_program/gate_control/gate_control.ino` | `gates[]` (position, direction, moving, just finished), pins | `loop`: `handle_message`, then `update_gates` | the server, over the serial line |
| Serial bridge, `arduino_messenger` | `incoming_message_queue`, `outgoing_message_queue`, one read loop, one write loop | `do_read`/`on_read`, `do_write`/`on_write` | board; `common_state` and `websocket_session` share its queues |
| Registry and broadcast, `common_state` | `sessions`: weak pointers | `add_session`, `update` (posts itself for ever) | takes from the incoming queue, pushes to every session's `write_queue` |
| Websocket session, `websocket_session` | read loop, polling write loop, `write_queue`, permissions | `do_accept`, `on_read`/`handle_message`, `do_write`/`on_write` | page; pushes requests to the outgoing queue |
| Messages, `json_message` | none | `parse_message`, `str_to_type`, `dump_message` | all of the above |
| Pages, `client/view`, `client/control` | what each gate's element shows | `getConfig`, websocket events | server |
| HTTP connection, `http_session` | strand, `response_queue`, `write_semaphore`, parser, stream | `do_read`/`on_read`, `queue_write`, `do_write`/`on_write`, `do_close` | pool of `main`, listener, auth |
| Listener, `http_listener` | `associated_nonces` by address | `do_accept`/`on_accept`, `generate_nonce` | makes HTTP connections, shared by all |
| Digest authentication, `auth` and parts of `http_session` | none of its own | `get_auth`, `unauthorized_response`, `bad_request`… | nonces, auth table |
| Routing, `handle_request`, `get_endpoint_permissions`, `get_maps_for_client` | none | method, path and permission to response | files, config |
| Process, `main.cpp` | thread pool, signal set | start, `ioc.run()` on every thread, stop and join | everything |
| Map configuration, `gc_config` | maps, read once | `open_from_file`, `parse`, `get_maps_for_client`, `get_map_by_id` | routing |
| Auth-file, `auth_table.hpp`; `configurator/` | file of users | load, edit, save | server reads it once |

**How they interact.** A command goes from a page through its websocket, `on_read`,
`outgoing_message_queue`, the serial write loop and the line to `handle_message` on
the board. A report goes from the board through the line, the serial read loop,
`incoming_message_queue`, `update`, `write_queue` of every live session and that
session's write loop to the page. No loop tells the next one that there is work:
each polls its queue by posting itself. Every loop of the server is a chain of
handlers, each run on whichever thread of the pool is free.

**What is hard.** Handlers of different objects interleave freely; a session has two
loops that fail separately; whether it is still registered depends on a reference
count that is the union of pending handlers; the serial port is read without framing;
an HTTP handler can block the very strand it is on; a nonce is shared by everybody
behind an address and looked at twice; the firmware moves gates in floating-point
steps and reports from two places of its loop. `PROJECT.json` lists each of these
hazards at its line with the property that would catch it going wrong.

**What makes each part correct.**

- Firmware: a gate always has one of four states; each change is reported, and the
  last report is right; a commanded movement ends; pins agree with reports.
- Bridge, registry, sessions: an open page gets every report once and in order;
  requests get to the board; only Control moves gates; a session that someone serves is
  registered, and one that has failed is forgotten.
- Whole system: a page ends up showing what the gates do.
- HTTP: one write at a time, responses in order, the queue limit respected, every
  request answered.
- Digest: a known user gets in after one challenge; one address does not disturb another.
- Configurator and auth-file: what the server reads is what was edited, as far as it was
  written; saving loses no user.
- Routing and map configuration: who is granted what gets it; maps and images, and pages by
  plain targets, go to nobody else; a page lacks nothing it asks for; all of it follows from
  what was entered in the configurator.
- Process and listener: connections are let in as long as accepts succeed; a bad
  connection costs one thread at most; the process ends when asked to.

## 2. Modules and the code they model

```
Gate  <--refines--  GateFirmware --INSTANCE--> GateSystem --EXTENDS--> Bridge
                                                                         |
                                           Broadcast <--refines-- Delivery

HttpSession <-- ServerProcess     Configurator <-- Access --> Routing --> GcConfig     DigestAuth
```

Unlabelled arrows are EXTENDS, from the extending module to the extended one or
drawn towards it (`ServerProcess` extends `HttpSession`, `Delivery` extends `Bridge`, `Access` extends
`Configurator` and `Routing`). `MC*.tla` modules give constants their values; each `.cfg` is one run.

Proofs are in modules of their own, named after the module they are about:
`GateFirmwareProofs`, `BridgeProofs`, `DeliveryProofs` (extends `BridgeProofs`),
`GateSystemProofs` (extends `BridgeProofs`, instantiates `GateFirmwareProofs`), `HttpSessionProofs`,
`ServerProcessProofs` (extends `HttpSessionProofs`), `DigestAuthProofs`, and `ConfiguratorProofs`,
which is about `Access` too.

### Gate and GateFirmware (`gate_control.ino`)

`Gate` is what a gate promises: four positions, commands start a movement at once,
only a movement under way can end. `GateFirmware` is the program. One step per message
handled (`HandleMessage`, with `NoMessage` when nothing has arrived) and one per gate
ticked (`UpdateGate`), because those are the points where the board writes to the
line. `i` is the loop variable of `update_gates`; it equals `GATE_PINS_SIZE` at the
top of `loop()`. `GetState` has the missing return of `Gate::get_state` as
`"undefined"`. The float `Gate::state` in [0, 1], moved by 0.01, becomes an integer
in `0 .. Full` moved by `Step`: in floats a hundred steps do not add up to 1 and the
last one overshoots and is clamped, so the checked instance has a `Step` that does
not divide `Full`; the proofs hold for every `Full` and `Step`.

Preconditions and abstractions: `change_state` carries the id of a gate the board has
(the code indexes `gates[id]` unchecked; pages offer configured ids only);
`query_state` may ask for any ids. `malformed` is whatever `send_error` answers,
`null` what does not deserialize. The text in `send_error`'s buffer and the brightness
scale are left out. `MaxSerial` bounds the line; a full output line blocks the board,
as `Serial.write` does. `reported` is a history variable.

### Bridge (`arduino_messenger`, `common_state`, `websocket_session`, `json_message`, pages)

A loop is a program counter: `"reading"`, `"writing"` (an operation is in flight),
`"posted"` (`do_write` will look at the queue again), `"ended"`. There is one step per
completion handler or posted function, in any order, which covers every schedule of the
pool's threads, each queue access being atomic. A poll that finds nothing leaves the
state as it was and is no step.

| action | code |
|---|---|
| `ComDoWrite`, `ComOnWrite`, `ComOnWriteError`, `ComOnRead`, `ComOnReadError` | `arduino_messenger` |
| `Update` | `common_state::update`: drop expired, broadcast one report |
| `Upgrade`, `OnAccept`, `OnRead`, `OnReadError`, `DoWrite`, `OnWrite`, `OnWriteError` | `websocket_session`, and its registration in `http_session::on_read` |
| `ConfigLoaded`, `Disconnect` | the pages |
| `Unplug`, `BoardReads`, `BoardWrites` | the cable and the board (external) |

- `Expired(s)`: the read loop and the write loop both hold a `shared_ptr`; the session
  expires when neither has a handler pending.
- `ComOnRead(k, more)`: `async_read_some` may return the ends of `k` messages and the
  first part of one more. `on_read` parses the result as a single message and drops
  what does not parse. `Aligned = TRUE` keeps only whole-message reads.
- `StrToType` of an unknown name is any type: the function runs off its end.
- `ConfigFirst`: whether the page has its `/config` before its websocket opens. The
  page listens for gate states only after that.
- Reports are numbered (`n`) on entering the queue, and `last` and `popped` remember
  numbers, only to state delivery properties.

### Broadcast and Delivery (what the server promises a page)

`Broadcast` is the promise, with no threads, queues or loops in it: one log of reports, to
which a page is let in no earlier than any other has got, and from there is shown report
after report until it goes. `Delivery` shows that `Bridge` keeps it. Its one history variable, `log`, is
what every message that entered `incoming_message_queue` says of the gates; where a page is in
the log is the number of the last report it has received. A page is waiting until
its session is made and reading while it is up and may see gates, so `update`'s broadcast, the
registration, the expiry and both loops of the session are all hidden, and only `ComOnRead`
(publish), `Upgrade` and `OnAccept` (join, or be turned away), the arrival of a
write (show), `ConfigLoaded` (listen) and the end of a page (leave) are steps of the promise. A page that
has no `/config` yet is served reports like any other, and shows nothing of them.

### GateSystem (main.cpp's composition)

Extends `Bridge` and instantiates `GateFirmware` with the two directions of the line
shared: the server's writes are the board's `rx`, the board's writes the server's
`tx`. The cable stays plugged in. `Path(s)` is everything on its way from the board to
a page.

### HttpSession (`http_session`, threads of `main`)

A connection has a strand: a queue `ready` of completed handlers of which one runs at a
time (`Busy`). `do_write` calls `write_semaphore.acquire()` in the middle of a handler, so a
handler is two steps: `Start` up to the wait, `Acquire` after it, and in between
`serving[t]` holds a thread. A handler that throws ends its thread: the `try` in `main.cpp` is
around `ioc.run()`, which is not called again. Requests are of four kinds by what `on_read` does with them: answered,
upgraded, refused with a nonce out of force, or throwing (an upgrade without
`Authorization`). `Pipeliners` are the clients that may send before they have their responses, `KindsOf` what
each may send.
`Prompt` says that the completion of a write is queued before the client can react to
its last byte; without it, the next request may be read first.

Abstractions: every request parses; a write that times out is a client that has gone;
response bodies are their number and their keep-alive flag.

### ServerProcess (`main.cpp`, `http_listener`)

Extends `HttpSession` with the process around its connections. `stage` is where `main`
is, `acceptor` whether an `async_accept` is pending; `"deaf"` is for ever.

| action | code |
|---|---|
| `FailToStart`, `StartServer` | `main` up to "Server started"; the listener's constructor may have failed silently |
| `Signal`, `OnSignal` | a signal kills the process until there is a `signal_set`; its handler stops the `io_context`, once |
| `LeaveRun`, `Return` | `ioc.run()` returns; `main` has joined all threads |
| `OnAccept`, `OnAcceptError`, `OnAcceptThrows` | `on_accept`: a session and the next accept; an error; `remote_endpoint()` of a connection that was reset |
| `StartHandler`, `FinishHandler` | the two halves of a session's handler, on a thread still in `ioc.run()`; an exception ends the thread |
| `ClientStep`, `IoDone`, `ReadAborts` | clients and the network, for accepted connections |

A thread that has left is `"dead"` either way; `killedBy` remembers which connection's handler
ended it, to state `OneThreadPerConnection`. `stopped` is `ioc.stop()`: no handler is
begun any more, those begun are finished. Which argument is wrong, and the text of addresses and
ports, are left out.

### GcConfig, Routing and Access (who may see what)

`GcConfig` has the functions of `config.hpp` on JSON values: validation, parsing, the choice of maps
for a user, the lookup of a map. `Routing` is `handle_request`: its refusals in their order,
`get_endpoint_permissions` with its recursion over the pieces of a target, `/config`, map
images and files, and what `parse_digest_auth_field`, `is_valid`, `get_auth` and
`check_password` ask of an Authorization field (`right` stands for the hash). Both are
operators; nothing in the server changes when they are used.

`Access` composes them with `Configurator`: at any moment, in the middle of a save too, a
server may be started (`StartServer`) from an auth-file and a config file, and stopped. Its
properties are about the answers of the server that has just been started, for every user, method,
target and field: whatever it answers later is the same, as it never reads the files again.

`PathOf` is the path that `handle_request` joins from the target, `Resolved` what a POSIX file
system makes of it: `.` and empty pieces lead nowhere, so that `FileOf` may be a file the target does not
spell. `ServeFile` answers with that file; a path that goes on below a file is a server error, and a directory
is opened like a file, so that HEAD gets a 200 while the body of a GET cannot be read and the response
is never sent (`Unsent`). `get_endpoint_permissions` looks at the target as it is spelt. A target
that has `.` or empty pieces inside therefore may find a file of `view` or `control` without being below
`view` or `control` for the lookup. `GrantedOrRefused` says what holds: maps and their images, which are
not found by the file system but by comparing the target, are protected whatever the target, and files
against `Plain` targets (no `.`, no empty piece but at the end).

Abstractions: a target is the sequence of its pieces between slashes, and the code's comparisons
of beginnings and ends of strings are made on whole pieces, so that a target with a
piece that only begins or ends like `config` (`/config.x/config`, which needs no
permission and then makes `handle_request` throw) is not among them. Queries,
percent-encoding, MIME types and wording are left out; images are there and can be opened, or are not there.

### DigestAuth (`http_listener`'s nonces, `auth`, `unauthorized_response`, upgrades)

`associated_nonces` has one nonce per remote address, set by `on_accept` if there is
none and replaced by every 401. A request is refused in two steps (decide, then replace
the nonce and make the challenge), an upgrade is accepted in two (compare nonces, then
check the password with the nonce then in force), `/config` is answered in two (check, then
check again to find the user's maps), and connections of one address interleave between
them. A browser gets a page, then its maps or a websocket. Hashing is abstracted to: a response is right when the nonce it was
computed with is the one in force and the user is in the auth-file. Nonces are random
and so never repeat: numbers nobody holds are used again, which keeps the state
finite. `opaque` does not change while the server runs. Browsers, as is usual for Digest, repeat
a refused request with the new challenge; they are modelled external.

### Configurator (`configurator.cpp`, `auth_table.hpp`)

One action per menu entry; prompts repeated until the answer will do are one step. A line
of the file is the sequence of its pieces between colons, so that `Line` (what
`save_auth_table_to_file` writes) and `Load` (what `open_auth_table_from_file` makes of
lines, bad and repeated ones included) are real inverses only as far as the code's are.
A save is `WriteToDisk` (truncate), `WriteUser` for each user, then `EndOfSave`. `DiskFull` is a
write for which there is no room: the fields of a line go through one stream buffer, so the line may
be cut at any byte, everything after it is dropped, and the editor goes on as after a good save. `Cuts`
are the pieces that may be left of a line, `Beginnings` what may be left of the piece it is cut in. `Load` skips
such a line, or takes it for the user with a shorter password. `Restart` may happen anywhere, as a kill or an
exit; since `std::endl` flushes each line a kill leaves whole lines, and the file states after a kill inside a
line would be those of `DiskFull`.
`Mistype` is a menu choice that is not a number: `std::cin` fails, nothing clears
it, and only `Restart` is left. The server reads the file once when it starts, so what it
could have read at any moment is `Load` of the file in that state. `Texts` stands for the
strings between two colons, of which the model needs to know only the three digits.

Precondition: logins and map groups contain no colon (`add_new_user` does not check; the
round trip fails for those). Map groups stay joined by semicolons; `std::stoi`'s tolerance of
text after the digit is left out.

## 3. Runs, bounds, fairness

| run | shows | distinct states |
|---|---|---|
| `firmware` | two gates under every mix of messages: implements `Gate`, every change is reported, pins agree, movements end | 12 thousand |
| `bridge_delivery` (`MCDelivery`) | two sessions opening, closing and failing, two reports in whole, split or joined reads: implements `Broadcast`; nothing lost, doubled or reordered; who is served is registered | 751 thousand |
| `bridge_live` | one session with every permission and message, cable pulled at any time: requests written, reports reach the page, sessions whose write has failed forgotten, closed ones when there is a report | 111 thousand |
| `system` | board, line, server and two pages with any permissions, coming and going: the last word on the way to each page is the gate's present state; nothing moves without a controller | 3.0 million |
| `system_live` | a controller that says two things and a viewer: requests reach the gate, both pages and the gate end up in agreement | 452 thousand |
| `http` | two connections on two threads, pipelining, closing, upgrading, stale, throwing: permits accounted, order kept, queue limit not reached, a wait for the permit is for ever | 1.7 million |
| `server` (`MCServerProcess`) | the process from start to end, a client that waits for responses and one whose requests throw, a listener that may fail, a signal at any time: no wedge, one thread lost per connection at most, the first client is answered, clients are let in, the process ends when asked to | 243 thousand |
| `digest` | three browsers at two addresses: second refusals and drops are a neighbour's doing; who is alone at an address gets in | 721 thousand |
| `configurator` (`MCAccess`) | two auth-files, a configurator killed at any moment or cut off by a full disk, a server started from them and from three config files: files hold what was edited, or the part written so far; no user who was not deleted is lost by a truncation; the server goes by what was edited; pages lack nothing; who is not granted gets no maps, images or, by plain targets, pages | 241 thousand |
| `bridge_stuck`, `system_chunks`, `http_wedge` | violations, see [Findings](#5-findings) | |

**Bounds and why they are enough.** Where section 4 has a theorem for a property, the bounds
matter less: it holds for every value of the constants. *Firmware*: two gates show that ticks and reports of
one do not disturb another; `Full = 5`, `Step = 2` gives an overshoot in both
directions and reversals at odd positions; one message in each direction makes every
loop both full and empty. *Bridge*: two sessions make the broadcast unequal (one
registered before, one between, one after the reports); two reports make order and
gaps visible. Delivery does not depend on client messages, so `bridge_delivery` has
none, and its pages have their `/config` before they connect (the theorem covers those that
have not); `bridge_live` has one session, because its properties are about one session at a
time and the only coupling between sessions, `update`, is in `bridge_delivery`. *System*:
one gate and the queries that sessions send by themselves; a position range of 3 with step 2 takes two
ticks, so a command can arrive in mid-movement. `system` has a client message from either of
two pages that may go at any time; `system_live` has two messages, so that the second can
reverse a movement, from the controller of two pages that stay. *HTTP*: two requests per connection are the least at which a read can
overtake a write; two connections compete for two threads, one connection can kill
both. `QueueLimit` is 2 for the code's 16, a limit that two requests would reach if
responses stayed in the queue (they do not, and the proof has it for every limit).
*Server*: two threads and two connections, so that the client that throws can take one
thread and leave one, and tries for the second (it pipelines two requests); the theorem
`ThreadsLost` has it for every number. One signal, as the second changes nothing. `Prompt = TRUE`
is the assumption under which nothing wedges; without it `http_wedge` is what happens, and
`WedgeHolds` says what becomes of the process.
*Digest*: an address with one browser and an address with a known user and a stranger,
who is refused for ever; 12 nonces are more than can be held at once. *Configurator*: two files
let the table of one be saved to the other if the code allowed it; entries with an
empty field and with a colon in the password are the two hard cases of the format, and both are in the entry that is
made by hand; initial files have a user with groups, a repeated login, an unknown permission, a broken and an empty
line. One password and one group are texts that a line may be cut in (`MCBeginnings`), so that a cut line is
skipped or read with a shorter password; cuts in other texts would be more of the same. The config files are a valid one
with maps of no group and of two groups, with one, two and no gates, one with a gate that lacks a
coordinate, and one that is not an array; the targets are every name the code looks for,
alone, with a slash at its end and with more pieces below it, and some with `.` and empty pieces. A running server changes
nothing and nothing depends on it, so once a file has been saved it is stopped before anything else happens
(`MCStopsFirst`, an action constraint): every state of the configurator and the files is reached all the same, and every
start of a server in it. Symmetric or longer
tables add nothing: users are read and written independently, except for repeated logins.

**Symmetry** (sessions, connections, threads) is used in runs without liveness
properties only.

**Deadlock** is checked for the firmware, whose board never stops, and for the configurator and
server of `Access`. Elsewhere the system
may really stop: clients have closed their connections or have had their answers, threads are dead
or wait for the semaphore, the board has nothing more to say (and polls that find
nothing are no steps). Those configurations turn the check off, and getting stuck too
early is what their liveness properties and `WedgedForEver` are about.

**Fairness** is weak fairness of each handler: a pending operation whose peer is there
completes, and its handler is run, because the pool serves its handlers in turn and polling handlers
come back to the end of that queue. A write or read whose peer has gone ends with an error
by Beast's idle timeout. In `HttpSession` a strand's turn is strongly fair: the
threads that could serve it are busy now and then, but if again and again one is free
the strand is served; it is not served when all threads wait or are dead, which is the
point of that module. `Acquire` is weakly fair and disabled without a permit. The
firmware's `loop()` is called for ever. `GateSystem` and `ServerProcess` have one weak fairness condition for all
handlers together (and one for the board): the pool does not idle while a handler can do
something. That is enough, and weaker than one condition for each, because what clients send
is bounded there and every handler uses up what it handles, so that no handler is put off
for ever by others. Clients are under no fairness, except that
a page that stays open gets its `/config` (`GateSystem`) and browsers repeat a refused
request (`DigestAuth`). Nothing is assumed about `Unplug`, `Disconnect`, or reads that
split messages.

## 4. Proofs

**`GateFirmwareProofs`**, assuming only `FirmwareAssumption` (at least one gate, `Full`,
`Step` and `MaxSerial` positive, queries sets of numbers):

- `Typing`: `Spec => []TypeOK`.
- `StateDefined`: `get_state` never falls off its end. `GetStateDefined` is not inductive; the
  strengthening is `RestAtEnd`: a gate that is not moving is at 0 or `Full`. A tick ends a
  movement only at an end, and `Clamp` puts it there exactly, whatever `Step` is.
- `ReportsAreCurrent`: a gate once reported was last reported as it is. A tick changes the
  state computed by `GetState` only when it sets `just_finished`, which makes the same step report it.
- `ReportsMatchPins`: a gate reported at rest has its pin at that end, by the stronger
  `PinCurrent`: between steps each pin is at its gate's position.
- `FirmwareImplementsGate`: `Spec => Abstract!Spec`. Each of the steps maps to `Raise`,
  `Lower`, `Finish` or a stutter of `Gate`, with `RestAtEnd` to know that a finished movement
  ended at the end it was heading for.

The inductive invariant is `IInv`, the conjunction of `TypeOK`, `RestAtEnd`, `PinCurrent` and
`ReportsCurrent`. Without `RestAtEnd` a gate at rest at half height would satisfy the
type invariant and report an undefined state. `NextImplements`, the step of the refinement, is a lemma of
its own, as the composition uses it.

**`BridgeProofs`**, assuming `BridgeAssumption` (bounds are numbers, permissions are permissions),
for any sessions, messages and cuts of the line into reads, `Aligned` or not:

- `Typing`; `ReportsInOrder`: `GapFreeDelivery`; `RegistryComplete`: every session that somebody serves
  is in `sessions`;
  `CommandsNeedControl`: nothing but the server's own queries goes to the board while nobody has Control.

The inductive invariant is a conjunction over sessions of `Sound`, which says of one session how its two
loops, its page, its registration and the numbers of its pending reports go together: what its page has
received and what waits in its buffer and queue are numbered without a gap up to `popped`.
`GapFreeDelivery` alone is not inductive: that a session not in `sessions` misses no report
needs that it is over, and that needs what each loop can be doing. `PortSound` has the numbers in
`incoming_message_queue` follow on. What the line carries is a parameter of the invariant (`bodies`), so that
the lemmas hold of any board, and of the one in `GateSystem`. `CommandsNeedControl` adds that the outgoing
queue, the write buffer and the line hold queries only (`OnlyQueries`).

**`DeliveryProofs`**: `DeliveryImplementsBroadcast`, `DeliverySpec => Abstract!Spec`, with no assumption
but `BridgeAssumption`. Each handler maps to a step of `Broadcast` or a stutter. Numbers are not enough for this:
`History` adds that every entry of every queue and buffer says what the log has at its number, and that
a blocked session starts no loop.

**`GateSystemProofs`**, assuming `SystemAssumption` (the pages know the board's gates, their requests are
requests of the firmware, the line is long enough for them):

- `SystemImplementsGate`: in the whole system, too, each gate does what `Gate` says;
  `BoardReportsChanges`, `ReportsInOrderInSystem`: the parts keep their invariants (`PartsSound`), since
  each finds the other to be the environment that its proof allows (`LoopOnLine`, `RequestsUnderstood`).
- `MovementNeedsControl`: `NoControllerNoMovement`. The invariant adds to `OnlyQueries` that all gates
  are `Still`; it lasts because `query_state` starts no movement and a tick moves only what is moving.
- `PagesConvergeWhenAligned`: if reads of the port return whole messages, `PagesConverge`. The invariant is
  `Converging`: the last word about each gate on the part of the way that sessions share is the gate's
  state, and so it is on the whole way to each open page. The shared part alone would not do for a page that is
  being told, nor the whole for a page that is let in next. `Aligned` cannot be dropped: `system_chunks`
  loses a message.

**`HttpSessionProofs`**, assuming `HttpAssumption` and nothing on the number of connections or
threads:

- `InOrder`: responses reach the client in the order of its requests, none twice and none skipped
  (`ResponsesInOrder`). `PatientNeverWedge`: if clients wait for their responses, or those that pipeline send
  nothing that is answered on the connection (`Harmless`, which includes `Prompt`), no handler ever waits
  for the semaphore (`NeverWedged`); `http_wedge` is the opposite.
- `Typing`; `PermitsAccounted`: the one permit of a connection is free, or with the one write
  in flight, or with its completion on the strand; `QueueLimitUnreached`: `response_queue` is empty between
  handlers, so `queue_limit` has no effect; `WedgedNeverRecovers`: a handler that waits for a
  permit that is not there waits for ever.

The inductive invariant adds `OneHandler` (a strand has at most one thread in it, and it is
in one exactly when a response is held back for the semaphore). `WedgedNeverRecovers`
follows: while the strand is held its queue of completions is not served, and only those
release permits. `Flow` is the invariant for the order: it follows the numbers of one connection's requests,
those not read yet, the one in hand (read, or held back in `do_write`), the one being written and those
delivered, which together leave no gap as long as anything can be delivered; and of a patient client, that the
completion of a write is always ahead of the next read on the strand.

**`ServerProcessProofs`**, assuming `HttpAssumption` and that `"none"` is no connection:

- `PermitsInProcess`: the permits stay accounted for in the whole process. `ProcessStep` says
  that a step of the process is a step of `HttpSession`, leaves the connections alone, or takes
  a free thread out of `ioc.run()`; the last keeps `IInv` (`DiesIInv`).
- `InOrderInProcess`, `PatientProcess`: so do the order of responses and, for `Harmless` clients, that
  nothing wedges, although threads die and leave.
- `WedgeHolds`: a wedged connection stays wedged, and while there is one `main` does not get
  past its join. With a second Ctrl+C swallowed, such a process never ends of itself.
- `ThreadsLost`: a connection costs the pool one thread at most. It rests on the read
  loop of a session being in one place at a time, `OneLoop`: an `async_read`, or its completion on the
  strand, or a `do_write` that will read again. A handler that throws takes the loop with it
  (`NoLoop`), nothing brings it back (`Keeps`), and no second request of that connection is ever read. For the listener's
  own exception the argument is that it never accepts again. `PInv` joins these.

**`DigestAuthProofs`**, assuming `DigestAssumption`: finitely many connections, and more nonces than
all of them together can remember, which stands for nonces being random (`FreshNonce`: there is always
one that nobody holds).

- `Typing`; `RefusedOnce`: a user of the auth-file is refused once at most unless somebody else at his address has
  been (`RefusedOnceUnlessRival`); `DroppedByRival`: he is never dropped between the two looks at the nonce but
  for that reason (`DroppedOnlyByRival`).

Neither is inductive. `Settled` says what the two steps of each handler rely on: before his one refusal
the user has no nonce, after it the challenge on its way to him, then his browser's cache and
every request of his carry the nonce in force (`Agreed`), for as long as no rival has been refused.

**`ConfiguratorProofs`**, assuming `ConfiguratorAssumption` (the digits, the logins and the
`Beginnings` of texts are `Texts`, a password is one piece or more) and, for `Access`, `AccessAssumption` (JSON arrays and targets are
sequences), for any files, users, initial contents, config files, targets and fields:

- `Typing`; `FilesAreAsEdited`: what a server reads from a saved file is what was edited,
  wherever the save was interrupted, but for the end of the last user's password if a full disk has cut
  his line there; `TruncationKeepsUsers`: a truncated file's users are about
  to be written again or were deleted.

The lemmas are the format's: `LineRead` (a line written is read back as the same user), `LineCut` (a line
cut anywhere is skipped or read as that user with a shorter password),
`FirstLineLeast` (a login that is read has a first line), `LoadTable` and `LoadAppend` (a line for
a new login adds that user and changes no other). `SavedAsEdited` is not inductive, as it does not
say what is still to be written, nor that nothing has been cut yet: `SaveUnderWay` says that the users in the file and those
unwritten are the users of the table, nobody being both, so that each line is a new login's and
counts, and that those in the file are read as in the table, so that a cut is the first and the last. `UsersKept` relates the open table to its file, for the truncation. Both are needed
only in the proof, where `IInv` is their conjunction with `TypeOK` and `SavedAsEdited`.

- `ServedAsEdited`: from the editor through the file to the answer to `/config` (`StartedAsEdited`). It
  joins `FilesAreAsEdited` with `ClientMaps`, what the loop of `get_maps_for_client` lists.
- `NobodySlipsIn`: `GrantedOrRefused`. The lemmas are `EndpointOfFirstPiece`: however many pieces the
  recursion of `get_endpoint_permissions` takes off, what counts is the first; and `PlainFile`: what a plain
  target finds is below that first piece, or at the top. Without `Plain` the second is false.
- `PagesLackNothing`: `PagesComplete`, for config files and images that are as the installer should have them
  (`FilesTidy`: ids differ and can be asked for, images exist). The program checks none of this, so it is a
  hypothesis; `MCAccess` has TLC evaluate it for the files of the run.

The three loops over sequences are recursive functions. That such a function exists is proved by exhibiting
it or by extending it one index at a time; what it returns is proved by induction over a set of lengths (`Counting`,
from the well-foundedness of the numbers), as the library's induction rules take an operator, which the
provers cannot instantiate.

**Only model-checked**: liveness under fairness, which is out of the prover's reach (`RaisingEnds`,
`LoweringEnds`, `RequestsWritten`, `ReportsReachPages`, `ClosedSessionsForgottenByTraffic`, `FailedSessionsForgotten`, `EventuallyAgree`,
`RequestsExecuted`, `AnsweredWhileRunning`, `ShutdownCompletes`, `EveryoneLetIn`, `AloneGetsIn`). Every
other property of a passing run is stated by a theorem, `PagesConverge`, `NeverWedged` and
`PagesComplete` under the hypotheses named above, which their runs satisfy.

## 5. Findings

1. `bridge_stuck`. `update` pops only `query_state_result` messages. The board's
   `{"type": "error"}` stays at the head of the queue (unless the undefined value
   of `str_to_type` happens to be that type) and no report passes it again.
2. `system_chunks`. `on_read` of the serial port takes what one `async_read_some` returns for
   a message. A message in two pieces, or two in one, are dropped, and the page that asked goes
   on showing "connecting". With aligned reads, `system_live` shows that pages and gates agree.
3. `http_wedge`. Reading goes on while a response is being written. If the next request is
   handled before `on_write`, `do_write` waits for the semaphore on the strand on which
   `on_write` is queued: the connection and a thread are lost. `server` (`NeverWedged`) shows when it does not
   happen; `WedgedForEver` that it never resolves.

Observed without a run of its own:

- `common_state.cpp:25` says "remove all dead sessions", but a session whose client has gone keeps
  polling its empty `write_queue` with a `shared_ptr` of itself, so it does not expire, and each
  poll sleeps 100 ms on a pool thread. What does hold is `ClosedSessionsForgottenByTraffic`: the
  next report clears it. A session whose write has failed is forgotten without one (`FailedSessionsForgotten`).
- Two users at one address may refuse each other for ever, as each 401 invalidates the
  other's nonce (`RefusedOnceUnlessRival` states what remains).
- A page whose websocket opens before `/config` is answered misses reports of that time
  (`PageShowsGates` fails with `ConfigFirst = FALSE` even with aligned reads).
- A second Ctrl+C does nothing: the `signal_set` outlives its one `async_wait` and keeps
  catching signals. README.md:181 says that it forces the close; with a wedged connection, when it
  would be needed, the process does not end (`WedgeHolds`).
- The comment at `main.cpp:164` ("the graceful shutdown is in progress") is not true of a
  `main` thread that was ended by an exception: it waits in `join` while the others go on serving.
- A server that could not bind its port prints that it has started, with the default address and
  port whatever was asked for (`main.cpp:131`), and lets nobody in. With six arguments the
  address is ignored (`main.cpp:33`).
- One accept error, or one client that resets its connection before `remote_endpoint()`, ends
  accepting for ever (`EveryoneLetIn` states what remains).
- Neither maps with the same id nor images that do not exist are noticed at start; a page whose
  `/config` lists no map throws before it listens to gates (`control/index.html:349`). `PagesComplete`
  is for maps with different ids, existing images and ids that need no percent-encoding.
- An interrupted save leaves a part of the users in the auth-file; on a full disk the
  configurator reports success (`configurator.cpp:335`), and the last user in the file may have a shorter
  password, which the server accepts (`SavedAsEdited` states what remains).
- `endpoint_map` (`auth.hpp:26`) and README.md:111-114 give `view` and `control` to users with View and Control.
  The lookup goes by the text of the target and the file system by where it leads, so that the pages' files are open to
  targets with `.` or empty pieces inside (`GrantedOrRefused` states what remains). The maps they show are not.
- README.md:115 and 161 say that a map's group limits who controls it. Groups choose which maps `/config` lists;
  a websocket session with Control has its commands forwarded for any gate (`websocket_session.cpp:107`).
- After a write error on the serial port requests are queued and never written (`RequestsWritten` is for a write
  loop that is still there), while reports are still read.

## 6. What is not modelled

- Data races as such: `std::queue`, `std::vector` and nonce strings are shared by threads
  without locks. The modules take each access as atomic; what a torn access does (freed or half-moved
  memory) is below the level of these models.
- Text: header syntax and hashing, targets whose pieces only begin or end like an endpoint's name,
  queries, percent-encoding, MIME types; arguments of `main`; JSON as text.
- Layout, custom elements, switching between maps and texts of the pages; console colours; build
  scripts; vendored code.

## 7. Plan

Done, because everything rests on it: firmware, bridge, their composition, the HTTP
connection, the nonces, the auth-file; then the process and its listener, the abstract
broadcast and its refinement, routing and the map configuration with the configurator; then the proofs of
section 4. Next:

1. Proofs: `Delivery`'s promise carried over to `GateSystem`; `GrantedOrRefused` for connections of
   `DigestAuth`, whose second look at the nonce `Routing` leaves out.
2. Prefixes of pieces in `Routing`, and maps without ids or images in `Access`.
