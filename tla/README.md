# TLA+ models of the LG ThinQ1 local cloud

The program stands in for LG's cloud on a home network: appliances that were
built to talk to LG are diverted to it, it decodes what they report, shows it in
Home Assistant over MQTT, and can query and command them. It is a handful of
Python processes full of threads that share dictionaries, sockets, a log file
and a broker. These modules model that concurrent core, TLC checks them on small
instances, and TLAPS proves the most important invariants for every instance.

## The system

| Part | Code | State | Operations | Talks to |
|---|---|---|---|---|
| :47878 control channel | `server/control_channel.py` | registry `_connections`, one `send_lock` per connection, a handler thread per connection | accept, receive, register, reply, Mon Start, time out, unregister, `query_state`, `send_command`, poll | appliances; state store; MQTT thread; `/debug/query` |
| State store and MQTT sink | `server/state.py`, `server/mqtt_bridge.py` | `latest`, `model_by_devid`; `_LazySink._sink` and lock; `_merged`, `_fields`, `_last`, `_dev_by_ha` | ingest a report or a pump frame, cloud event, age tick; connect, discover, merge, deduplicate, publish | HTTP threads, control handlers, cloud thread, observability thread; broker |
| Passthrough TLS bridge | `server/wm_bridge.py`, `deploy/wm_relay.py` | per end: BIO, pending bytes, handshake, dead | drive handshake, pump, observe, push, select | appliance, LG's edge, store |
| Relay log and its cap | `deploy/wm_relay.py`, `server/logcap.py` | a file | append, truncate in place | the two readers below |
| Relay log watcher | `server/observability.py` | offset per file, age memory | seed, poll, publish ages and events | relay log, store, sink |
| Washer local bridge | `server/wm_local_bridge.py` | position, `last` | replay, follow, heartbeat, reopen | relay log, broker |
| Start-up and health | `server/control_channel.py`, `server/app.py` | bound ports, `_REARM_ACTIVE` | bind, retry, re-arm, probe | Supervisor |
| HTTP dispatch | `server/app.py`, `server/replay.py` | the captured replies, loaded on first use | ingest, forward, retry, answer, query | appliances, LG, store, control channel |
| MQTT command path | `server/mqtt_bridge.py`, `server/models/control_vocab.py`, `server/ha_mqtt.py` | `_cmd_entities`, `_dev_by_ha`, paho's queue | announce, subscribe, route, translate, send | broker, control channel |
| :47878 framing | `server/control_channel.py` | remainder of a stream | decode, resynchronise, drop | control handlers |
| Cloud subscriber | `server/thinq_events.py` | vendor client | dispatch | store |
| Decoders, formatting, replies | `server/models/*`, `server/ha_mqtt.py`, `server/responses.py`, `server/replay.py` | none | pure functions | everybody |
| Capture rig, add-on scripts, tools | `capture-*`, `deploy/haos-addon/*`, `tools/*` | router rules, processes | on, off | router |

What makes it hard:

- Handlers, MQTT commands, HTTP queries and the poller write to the same TLS
  socket, and a socket may be superseded, half dead or gone while a thread that
  looked it up is about to write to it.
- The sink is called from threads of four subsystems, and only the connection to
  the broker is protected by a lock: merge, discovery, deduplication and the
  publication itself interleave freely.
- The bridge engine moves bytes through five buffers per direction on
  non-blocking sockets; either peer may stall, close or reset at any point.
- At a restart the dying process still holds the ports; main thread, re-arm
  thread, health probe and Supervisor each act on what they last saw.
- A registration must reach LG and may be tried on several targets several
  times, while telemetry must be acknowledged whatever LG does.
- Port 47878 carries two framings in pieces of any size, with garbage in between.
- The relay log is appended to, truncated in place and read by offset by three
  processes without any coordination, and its lines bear the time of day without
  a date.
- A command crosses the broker, paho's thread and the channel, each of which may
  be away or start anew while the command is under way.

What each part must get right is stated below with its module. `PROJECT.json`
lists the hazards line by line with the properties that cover each.

## Modules

| Module | Models |
|---|---|
| `RoutingTable` | what the control channel's registry promises: an entry is made by a connection of that appliance, and leaves only with that connection or when that connection is lost |
| `ControlChannel` | the control channel, shown to implement `RoutingTable` |
| `ControlChannelProofs` | proofs about `ControlChannel` |
| `StateSink` | state store, lazy connection and sink, with the threads that feed them |
| `StateSinkProofs` | proofs about `StateSink` |
| `Startup` | ports, re-arm thread, health probe, the Supervisor's rule, restarts |
| `StartupProofs` | proofs about `Startup` |
| `Dispatch` | requests on port 46030: forwarding, captured and synthetic replies, `/debug/query` |
| `DispatchProofs` | proofs about `Dispatch` |
| `Framing` | encoders and decoders of port 47878 on a stream in pieces |
| `FramingProofs` | proofs about `Framing` |
| `WmBridge` | one passthrough bridge, its peers and the network |
| `WmBridgeProofs` | proofs about `WmBridge` |
| `RelayLog` | the log, the relay that appends, the cap that truncates |
| `RelayWatcher` | the incremental follower; extends `RelayLog` |
| `AgeMemory` | the age memory and the events; extends `RelayWatcher` and adds the clock and the store |
| `LocalBridge` | the washer bridge process; extends `RelayLog` |
| `RelayLogProofs` | proofs about the log and the three modules that read it |
| `CommandPath` | from a command topic to the bytes for the appliance |
| `CommandPathProofs` | proofs about `CommandPath` |
| `MC*` | the instances for TLC |

### ControlChannel

`pc[c]` is where the handler of connection `c` is: before the first byte, waiting
in `recv`, before, inside and after each `sendall`, in `finally`. `registry` and
`locked[c]` are `_connections` and the connection's `send_lock`. A pusher `t` (a requester or the poller) is described by
`pstate[t]`, and by the device, connection and frame it has looked up. A critical
section of `_lock` is one step. A `send_lock` is held across a blocking send, so
taking it, sending and releasing are separate steps, and so is the
lookup before: that is where entries go stale. Appliances (external) connect,
speak, stop reading (`Stall`), and vanish with or without a FIN. `sendall` fails
on a socket that is closed, may fail on a peer that is gone and need not, since TCP
buffers, and on one that is there and has stopped reading ("deaf") runs into the
timeout of 300 s, which is a failure like the others.

Connections are numbered in the order they are accepted. Message contents are
reduced to `DevInfo`, a snapshot, or something else; framing and wording are left
out, but for the families that appliances use (`Families`), as only the TLS one
is sent Mon Start. What becomes of a snapshot is the subject of `StateSink`.
`Passthrough` includes the fall back to terminating TLS when LG's edge
cannot be reached.

Properties: `SendExclusion`, `PushOnOwnSocket`, `BridgeInert`,
`ImplementsRoutingTable`, and the liveness properties `DeadPeerForgotten`,
`PushReturns`, `RoundEnds`, `DevInfoAnswered`. Three more, `RouteSound`,
`NoAbandonedLock` and `GateHolds`, are proved and not run.

### StateSink

What a thread brings is of four kinds (`Http`, `Pump`, `Cloud`, `Observer`): that
of the :46030 request threads, the :47878 handlers, the cloud subscriber, the
observability loop. The kinds may share threads. `at[t]` walks through `_LazySink.__call__` and `_Sink.__call__`: every
read and write of a shared attribute is a step of its own, as the interpreter may
switch threads between any two. One appliance model (one `ha_id`) is modelled:
the sink keys everything by it, so models do not interact. Several device ids may
belong to it, and a cloud event may carry the cloud's own id.

A view is reduced to the fields the rules tell apart: `State` (absent, RUN,
RESERVE), `reserve_countdown`, and `other`, which stands for every field that not
all payloads bring. Values of other fields do not influence control.

`allow` is the setting of `allow_control`. With it on, building the sink ends in
paho's refusal of the filter: the client has connected and its thread runs, the
exception goes to whoever called the sink, no sink is stored, and the next payload
builds another client (`Refused`; `MaxClients` bounds those). States are published
with QoS 0: without a connection one is lost, although `_last` has it already
(`PublishState`). Configurations have QoS 1 and are repeated by paho.

Properties: `CountdownFits`, `OneClient` (while commands are not allowed),
`FieldsDiscovered`, `PayloadsEnd`, and what the docstring of `_LazySink` promises,
`SinkOnceConnected`, which is violated (see findings).

### Startup

`stage` is what `main()` is about to do, `port[p]` says whether port `p` is free,
held by the dying previous process, or ours, and `serving` which accept loops
run. The two bind budgets count in `tries`. `rearm` is the re-arm thread: between
its `bind`, the lowering of `flag` (`_REARM_ACTIVE`) and the start of the accept
loop a health request may look at either. A health request goes through
`_health_probe` step by step (`probe`, `dead`); `fails` and `blamed` are the
Supervisor's: what the polls that failed in a row have found. Whatever ends the
process, exhausted binds or the Supervisor, ends its threads and leaves its ports
held until the system releases them.

There is no clock. Polls are 120 s apart, which is kept as `Spaced`: the second
poll of a failing pair comes when `main()` has arrived at its accept loop and the
re-arm thread is not between two of its instructions. `Edges` is what LG's edge
may do with the connection the passthrough handler makes before it takes the
probe's handshake: it may answer, refuse, or be silent for longer than a probe
waits.

Properties: `ChannelTended`, `NoChurn` and the liveness property
`ChannelReturns`.

### Dispatch

Each request thread `r` walks through `dispatch()` (`at[r]`). In bridge mode a
step of `Forward` is one target: LG answers with a success (`lg`), with another
status below 500 (`lg4xx`) or with one from 500 on (`lg5xx`), cannot be
reached, loses the connection after it has processed the request, or sends
something that is not HTTP, which is no `OSError` and ends the attempt at once. Any
status below 500 is passed on to the appliance as it is, a refusal included.
`seen` and `failed` record what LG really did, so that the reply can be held
against it. `replay._load` is three steps, since `_loaded` is set before the file
is read. A captured reply is a success, an error LG gave when it was captured, or an
entry without a body or headers, at which `replay_response` raises and the request
ends unanswered (`Captures`). A file that cannot be read is one without replies. The store is one device's timestamp: taking it (`Stamp`) and storing the
entry (`Commit`) are separate, so a later timestamp can be overwritten by an
earlier one. Frames of the pump move it, too.

Properties: `NeverFaked`, `OutageHidden` (a report is never answered with an error
because LG is down, but may be with LG's own refusal), `FreshIsNew`,
`CapturesServed`, and the liveness property `Answered`. `FreshIsNew` asks for an
entry stored after the query began and does not tell an answer to it from an
unrelated report, which the code does not either.

### Framing

Bytes are numbers, and the decoders are recursive functions over positions that
follow the loops of `decode_messages_len4`, `MsgpackReader` and
`decode_messages`. JSON is reduced to its outermost layer: an object is what
begins and ends with a brace. An appliance sends messages of several lengths (one
per form of header), frames that are no message, a frame longer than it declares,
a msgpack map, or garbage between frames: a stray byte 255, a zero byte, and the
insane length with `{}` behind it of `tests/test_control_channel_wm.py:62`. The
network cuts the stream anywhere. `Loose` are the things that leave a zero byte
outside of a frame: a TLS reader that slides over such garbage byte by byte may
take it for the beginning of a length, and what it then declares swallows the good
frames behind it, as that test asserts. `NothingMissed` excuses a message behind
such a thing, and says nothing else may prevent decoding.

Properties: `NothingMissed`, `NothingInvented`, `BufferBounded`.

### WmBridge

An iteration of the loop is four steps (`Drive`, `Pump`, `Push`, and
`Wake`/`Timeout`), and the peers and the network move between them. Data are
handshake flights, numbered records and ends of stream. `quiet` counts selector
timeouts since `last_alive`; `MaxQuiet` of them are the idle timeout. The relay
has its own copy of the engine; the actions were read against both. That
`tls.write` fails after the observer was called is left out: it writes into a memory
BIO, on a session whose handshake is through and which the loop has just found
alive. If it did fail, the bridge would close with the observer one record ahead of
what was forwarded.

Properties: `NothingLost`, `ObserverComplete`, `LastWords`, `BlocksOnlyParked`,
`EstablishedEnds`.

### RelayLog, RelayWatcher, LocalBridge

Lines are numbered in the order they were written, the file is the sequence of
those it holds, and sizes and offsets count lines instead of bytes. `half` says
that so little of the newest line has reached the file that a reader makes nothing
of it (`Decoded` leaves it out); a reader that has passed it does not come back.
What is not told apart is a line of which the time can be read and the event not
yet. The cap drops the partial line its tail begins with; the old line that the end of
a tail written over the top falls into is cut, and the model counts it as whole.

`truncate_oversized` is four steps: it measures, reads its tail to wherever the file
ends by then, writes it over the top, and cuts off the rest; the relay appends and
the readers read between any two, and each may fail (`CapFail`). Between the last
two, and for good when the truncation fails (`past = "torn"`), the old lines follow
the new ones. Measuring and reading (watcher) and replaying and opening again
(bridge) are separate steps, too. The watcher's read may fail (`ReadFails`): its
offset has then passed the lines already, and they are never processed. `lost` has
those, and lines that were read before their end was there. `times[l]` counts how
often the watcher processed a line; `shown` is the line whose snapshot the broker
retains. The bridge publishes with QoS 0, so a publish may be lost (`Show`), until
the heartbeat repeats it. A restart of the bridge is an action; the supervisor is
external.

Properties: `LogOrdered` (when a rewrite has ended); `OnceOrTwice`, `NoHistory`,
`SeenEventually`; `ShownAdvances`, `CatchesUp`.
Truncation loses and repeats lines by design, so all but `LogOrdered` speak of a
log the cap has not touched yet (`~Truncated`); the runs go on past it.
`OnceOrTwice` and `SeenEventually` leave out the lines in `lost`: nothing in the code
gets them back.

### AgeMemory

`now` is the clock in units of some hours, `Day` of them to a day. Every line is
stamped with the relay's local time of day, `when[l]` being the true time, and
`SightingEpoch` guesses the day as `_sighting_epoch` does; its five minutes of
grace are less than a unit and left out. `Seed` is the scan of the whole log at the
boot, which may fail. A
pass of `_loop` is `PassMeasure` and `PassRead`, the follower's two steps with
`publish_ages` behind them, so lines may be written between any two. `memory` and
`stored` are what is remembered of one appliance of `KNOWN_DEVICES` and what the
store has of its model; `lastSeen` and `told` are what was published. `told` is
the line whose State was sent along, so a State is known by when it was written.
A sink that raises is passed over: the age is told again by the next pass (`heard`
is down until then), the event is not (`missed`).

Properties: `AgesTrue` (where the relay's clock is UTC, an age whose publish got
through is that of the newest line, on the right day) and `EventsCurrent` (the State
told last is that of the newest event that was processed and whose publish got
through).

### CommandPath

A modelJson is the set of its actions, an action its placeholders, and a
placeholder its wire key and its options, so `Expand`, `AllEntities` and `ToWire`
are `control_vocab`'s functions. Payloads come with any id of the appliance and
re-point `route` (`_dev_by_ha`); the first one that finds the broker builds the
sink, which subscribes; one that has new fields announces the entities, which is
when `_on_message` learns them. `inbox` is paho's queue and `job` the call of
`_on_message` that is under way: looked up (`Handle`), routed by the channel
(`Push`), written or failed (`Send`). The channel is the set `reach` of the ids
that are connected, which `RoutingTable` promises to keep.

External are Home Assistant and other clients (`Choose` publishes anything on any
topic, also on one that names no entity), the broker's connection, appliances
that come and go, and the Supervisor (`Restart`). `library` is the MQTT client.
paho refuses the subscription filter, so that with commands allowed there is no
sink and no command arrives (see findings); the client of the tests takes it, and
only with that one do the steps behind the subscription happen. They are kept since
they are what the code is meant to do once the filter is mended.

The session is a clean one, as paho's default is and the code does not change it:
what is published while the connection is down, or before the subscription, is
missed, and nobody subscribes again after a reconnection. The comment at
`mqtt_bridge.py:252-254`, which gives a surviving broker session as the reason for
the retained discovery, describes a session the client does not ask for. That what was
missed is never carried out later follows from that choice and is no property here.

Properties: `CommandsFit`, `ChoicesInOrder`, and the liveness property
`CommandsEnd`.

## Runs

| Run | Instance | Shows |
|---|---|---|
| `cc_main` | 2 appliances, 2 connections, 1 requester, commands allowed, passthrough on, headers may lack the id | writes never overlap, pushes reach the right appliance, bridged connections are left alone, the registry keeps its promise |
| `cc_live` | 2 appliances of the TLS family, 2 connections, poller, fairness | dead peers are forgotten, pushes end, a round reaches every appliance though another one does not read, DevInfo is answered |
| `cc_newer` | 1 appliance, 2 connections | **violated**: see findings |
| `ss_main` | 2 threads, one with reports, cloud events and age ticks, one with pump frames; commands allowed or not; fairness | one client while commands are not allowed; the countdown rule; every retained field announced or at its announcement; payloads end |
| `ss_refused` | 1 thread, commands allowed | **violated**: see findings |
| `su_main` | the real budgets (5 and 6), an edge that answers or refuses, fairness | the channel is tended and returns; no restart for the control port alone |
| `di_main` | 2 requests at once, bridge mode, 3 targets, 1 retry, 2 query rounds, 2 timestamps, fairness | registrations honest, no error because LG is down, captures used, every request ended |
| `fr_main` | 3 things sent, lengths 3, 32 and 256, pieces of up to 40 bytes | every message decoded once, in order, unless loose garbage or a parked frame came before; nothing else decoded; garbage bounded |
| `wb_main` | 2 records each way, fairness | nothing lost, observer complete, last words, no needless block, an established bridge ends |
| `rw_main` | `AgeMemory`: 2 lines, cap 1, keep 1, days of 2 units, one midnight, relay at UTC, fairness | no line skipped but by a failed or early read, none replayed or read three times, every line seen; ages true, events current |
| `lb_main` | 4 lines, cap 2, keep 1, window 2, 1 restart, fairness | a rewritten log is in order; the display only advances and catches up |
| `cp_main` | 2 device ids and the cloud's, a fridge with an enumeration and a range, a washer with a button, no model; paho or the tests' client; 2 commands on 3 topics; fairness | commands fit, in order, and end |

Bounds, and why they are enough. Two connections are what superseding takes: an
old and a new one, of one appliance or of two; the appliances are symmetric in
`cc_main`. One unread message is enough for "still buffered when superseded".
`cc_main` has one requester, which meets handlers on their `send_lock`, but no
other pusher; for any number of requesters and the poller there is the theorem
`SendsExclude`. In `cc_live` one appliance may be deaf while the poller's round
has the other one still before it. Two threads are enough for every race in the
sink, as each rule involves one shared attribute read by one thread and written by
another; one of them brings three kinds of payload and the other the frames of the
pump. Two records tell order from loss, and the second may arrive while the first is
parked. Two lines over a cap of one allow a truncation with polls before, in the
midst of and after it, two events in one poll or in two, and an event before or after a
frame. A day of two units tells today from yesterday; the clock passes one midnight
and the age at which a memory is dropped. Relays that are not at UTC, and more than one
midnight, have the theorem `AgesAlwaysTrue`. In `lb_main` four lines are what a
window of two needs to leave some out, before and after a truncation. Two commands are
what order takes, with a drop or a restart between them.

The budgets of `Startup` are the real ones. In `Dispatch` the targets are the real
ones; one retry of two tells an earlier attempt's error from the last one's; two
query rounds stand for thirty, since a round differs from
the next only by the count, and two timestamps are the one before a query and the
one after. In `Framing` the three lengths take the three forms of a msgpack
header (and a length of two bytes), three things are garbage between two
messages, and pieces of 1 to 40 bytes cut each of them anywhere; the limit of a mute
buffer is 260 bytes instead of 65536, just over the largest frame, so that both
sides of it are reached.

Deadlock is checked in the runs of `StateSink`, `Startup`, `Dispatch` and
`CommandPath`, where somebody can always do something. Elsewhere the system may really stop: connections are bounded
and a quiet appliance leaves every thread waiting; a stream has only so many
messages; a bridge ends; a log may be written no more.

Fairness. Threads are scheduled, so what the code can do by itself is weakly fair:
handlers, pushers, the poller's next query, the engine's loop, the watcher's
poll, the seed of the age memory, the washer bridge, paho's network thread with
its reconnection (`loop_start`), `main()`, the re-arm thread, a request's thread, and the
cap's second half once it did its first. A container that ended is started
again, and a dying process lets go of its ports. Taking
a lock (`send_lock`, the connection lock) is strongly fair: a CPython lock is not
handed over in order, but a waiter is not passed over for ever. A blocked `recv`
on a dead peer ends by the 300 s timeout, a blocked `sendall` too, which is why
these are fair. While the relay log stays quiet one of the washer bridge's
heartbeats gets through in the end. Appliances, peers, requesters, the broker's and LG's
availability, the Supervisor's polls, restarts of the washer bridge, the relay's writes and the cap's decision to start are not: a property
that needed an appliance to speak would be worth nothing.

## Findings

`cc_newer`: `register` runs for every message and does not compare
   connections. A message that was buffered on a superseded connection takes the
   route back, and when that handler ends, `unregister` finds its own socket and
   removes the entry. The newer live connection stays unreachable until its next
   message, contrary to `unregister`'s docstring.

`ss_refused`: the filter `homeassistant/+/lgthinq_+/+/cmd` has a `+` inside a
   level, which MQTT does not allow. paho refuses it with a `ValueError` from
   `_Sink.__init__`, outside the `try` of `_connect_locked`: with commands allowed
   no sink is ever stored, nothing is published, and every payload connects one
   more client. The docstring of `_LazySink` promises a sink once the broker is
   there. The client of the tests takes any filter.

Reachable in the models, met while they were built, and not kept as runs:

- `StateSink`: the merge reads and writes `_merged` without a lock; of two
  overlapping merges one is lost, and a sensor that was populated is not until a
  payload brings its field again. Two threads may set `_last` in one order and
  publish in the other, after which deduplication suppresses the repair. An age
  tick re-points the command route to the first known device id, a cloud event to
  the cloud's hash, though the comment at `_dev_by_ha` speaks of the most recent
  real id; a command that comes then finds no connection.
- `CommandPath`, with a client that takes the filter: the command topics are
  subscribed once, when the sink is built, and the session is a clean one, so after
  a dropped connection commands are dead until the process restarts. A range's
  bounds are announced and not enforced (`CommandsFit` says so: without options
  what was published is what is sent). A modelJson that could not be read is
  remembered as absent until a restart.
- `AgeMemory`: an appliance last heard of days before the boot is seeded as seen
  within the last day, since a stamp has no date (`AgesTrue` says so), while the
  docstring of `seed_memory` promises its stale age. The relay stamps local time
  and the reader takes it for UTC; ages are off by the difference, up to a day.
  After a truncation old END lines are told again, which the module's docstring
  calls structurally impossible. A line written between the seed and the first
  poll is in neither. An END whose publish fails is not told again.
- `WmBridge`: the idle timeout is looked at only when the selector reports nothing
  (in the relay's copy, too). A peer that closes after its own handshake while the
  other handshake stalls leaves a socket that is readable for ever, and the loop
  spins without closing.
- `RelayLog`: the cap writes its tail over the top before it truncates. A reader
  between the two, or after a truncation that failed, finds old lines behind new ones.
- `LocalBridge`: a replayed tail that ends in a blank snapshot makes the heartbeat
  publish the blank over the good state. A snapshot written between the replay and
  the second `open` is not shown until the next one.
- `RelayWatcher`: a line appended between `getsize` and the read is processed
  twice, while the docstring says exactly once (`OnceOrTwice` is what holds). The
  offset is advanced before the file is opened: when that or the read fails, the
  lines are never processed, and neither is one that was read by halves. After
  a truncation lines from before the watcher was armed are processed.
- `Startup` with a silent edge: in passthrough every probe of the control port
  fails, and the Supervisor restarts the app every two polls.
- `Framing`: a msgpack map that is cut between two of its items is delivered with
  the missing ones read as `None`. Zero bytes of garbage can be taken for a length
  and swallow up to 1 MiB of frames behind them.
- `Dispatch`: while one thread loads the captures another is answered from the
  empty table (`CapturesServed` allows just that). An entry may replace one with a
  later timestamp, so what `/debug/query` calls fresh may be the older report. A
  lost reply makes `forward` send the request again: LG may see it more than once.

## Proofs

Proved by TLAPS, for any number of appliances, connections, messages, threads,
lines, attempts and restarts:

| Theorem | States | In words |
|---|---|---|
| `ControlChannelProofs!SendsExclude` | `[]SendExclusion` | one thread at most is inside `sendall` on a connection |
| `ControlChannelProofs!RoutesSound` | `[]RouteSound` | a route is to a live connection of that appliance |
| `ControlChannelProofs!PushesSound` | `[]PushOnOwnSocket` | a stale entry still is a socket of the right appliance |
| `ControlChannelProofs!Refinement` | `ImplementsRoutingTable` | the channel implements the routing table |
| `ControlChannelProofs!BridgesInert` | `[]BridgeInert` | bridged connections are neither routed to nor written to |
| `ControlChannelProofs!LocksReleased` | `[]NoAbandonedLock` | a failed send leaves no lock behind |
| `ControlChannelProofs!GateAlwaysHolds` | `[]GateHolds` | no commands while they are not allowed |
| `StateSinkProofs!OnlyOneClient` | `[]OneClient` | one MQTT client at most is built while commands are not allowed |
| `StateSinkProofs!CountdownAlwaysFits` | `[]CountdownFits` | no countdown is shown with a state other than RESERVE, and none stays beside a state that runs |
| `StateSinkProofs!FieldsAlwaysDiscovered` | `[]FieldsDiscovered` | every field of a shown state was announced, or a thread is at announcing it |
| `WmBridgeProofs!NothingLostHolds` | `[]NothingLost` | what a peer sent is unaltered and in order at the other, in the bridge or on its way |
| `WmBridgeProofs!ObserverCompleteHolds` | `[]ObserverComplete` | the observer sees what is forwarded to LG, once each and in order |
| `WmBridgeProofs!LastWordsHold` | `[]LastWords` | the last records before an end of a stream get through |
| `WmBridgeProofs!BlocksOnlyParkedHolds` | `BlocksOnlyParked` | the selector blocks only when nothing could be done |
| `StartupProofs!AlwaysTended` | `[]ChannelTended` | the channel is served or somebody is at it |
| `StartupProofs!NeverChurns` | `"silent" \notin Edges => Spec => []NoChurn` | no restart for the control port alone |
| `DispatchProofs!RegistrationNeverFaked` | `[]NeverFaked` | a registration gets LG's reply or LG's last error |
| `DispatchProofs!OutageAlwaysHidden` | `[]OutageHidden` | a report never gets an error because LG is down |
| `DispatchProofs!FreshAlwaysNew` | `[]FreshIsNew` | a fresh answer was stored after the query began |
| `DispatchProofs!CapturesAlwaysServed` | `CapturesServed` | a capture is missed only while it is being loaded |
| `RelayLogProofs!LogAlwaysOrdered` | `[]LogOrdered` | a rewrite that has ended, and was not torn, leaves the log in order |
| `RelayLogProofs!HistoryLeftAlone` | `[]NoHistory` | nothing from before the watcher is processed |
| `RelayLogProofs!AlwaysOnceOrTwice` | `[]OnceOrTwice` | no line behind the offset is skipped but by a failed or early read, none is processed three times |
| `RelayLogProofs!FollowerKept` | `AgeSpec => Spec` | the three above hold of the age memory, too |
| `RelayLogProofs!EventsAlwaysCurrent` | `AgeSpec => []EventsCurrent` | the event told last is the newest one processed whose publish got through |
| `RelayLogProofs!AgesAlwaysTrue` | `AgeSpec => []AgesTrue` | an age that got through is that of the newest line or of the store, on the right day |
| `FramingProofs!TlsNothingMissed` | `[](family = "tls" => NothingMissed)` | a message that has arrived has been decoded, however the stream was cut, unless garbage with loose zero bytes came before it |
| `FramingProofs!TlsNothingInvented` | `NothingInvented` for the TLS family, while nothing loose was sent | only what was sent is decoded, each once and in order |
| `FramingProofs!TlsBufferBounded` | `[](family = "tls" => Len(buf) <= MaxFrame + 3)` | what is kept is less than one largest frame |
| `FramingProofs!RawInvariance` | `[]RawInv` | what a raw handler keeps does not begin with a complete message |
| `FramingProofs!RawBufferBounded` | `[]BufferBounded` | what it keeps is within the sanity limit or came with the last piece |
| `CommandPathProofs!CommandsAlwaysFit` | `[]CommandsFit` | what is written is what the published label means |
| `CommandPathProofs!ChoicesAlwaysInOrder` | `[]ChoicesInOrder` | commands are written in order, each once at most |
| `RelayLogProofs!AlwaysAdvances` | `BridgeSpec => ShownAdvances` | the display goes back only by a truncation |

Each of these modules but `FramingProofs` also proves `TypeCorrect` (`Spec => []TypeOK`; of
the follower in `RelayLogProofs`, which has `BridgeTypesCorrect` for `LocalBridge`),
which the rest stands on. Types are proved and not run. `FramingProofs` has, in
`Connection` and `RawInv`, the types of what each family uses, with bytes as any
naturals; the narrower `TypeOK` of `Framing` is neither proved nor run.

Assumptions: the bounds are naturals, the switches are Booleans, `Unknown` is no
appliance, the poller is no requester, (`StateSink`) the cloud's id is none of the
appliance's, (`CommandPath`) a field belongs to one action of its model, the client is
paho or that of the tests, (`ControlChannel`) the families are the two there are,
(`AgeMemory`) a day has two units at least and a memory is kept for nearly a day,
(`RelayLog`) what is kept is no more than the cap, (`Framing`) no message is longer
than 64 KiB, and the largest frame is at least that and less than 16 MiB, (`Startup`) the edge does one of the things it can do, (`Dispatch`) there is
a target and no capture of a query. TLC evaluates them in every run.
`NeverChurns` also assumes that LG's edge is never silent; without it the
property is false (see above).

*ControlChannel.* `RouteSound` is not inductive. A route must be of the appliance's
own connection, which needs that a connection only ever carries `"unknown"` or its
own appliance's name (`OwnName`); that a connection that does not exist yet is
nowhere mentioned (`Unused`); and, for the drop after a failed send, that the
pusher's entry is of the right appliance (`PushOnOwnSocket`) and its send could
really fail (`DropReason`). With `TypeOK` and `SendExclusion` these make `IInv`.
`Refinement` maps a connection to the table's `open` while its handler serves, and
uses `IInv` in every step that removes an entry. `BridgeInert` follows from
`Unserved`: what has not entered the receive loop is in no route and in nobody's
hand, so a connection that goes to the engine never was.

*StateSink.* `OneClient` needs that the lock is held while a thread connects, that
at most one does, and that, while commands are not allowed, no client exists until
`connected` (`Connecting`). `CountdownFits` speaks of three shared views; the invariant
(`Countdowns`) adds the views that threads carry between their reads and writes,
since these become the shared ones later. The step that matters is `Overlay`: the
merged view fits when the old one did and the new payload is `Fresh`, that is as
its channel makes it. That holds even when the old view was read long before,
which is why no lock is needed for this rule; it is needed to keep every sensor
populated. `FieldsDiscovered` is not about `_fields`, which may lose a field to a
race: the invariant (`Announcements`) is that whatever a thread found announced, or is
about to announce, Home Assistant has been told or is being told by the thread that
announces it. Another thread may show a state with such a field before that.

*Startup.* `ChannelTended` needs that the stages behind a bind own the port
(`Bound`) and that the re-arm thread ends only with the channel served
(`DoneServes`). `NoChurn` needs to know what each part last saw: the
flag is up exactly while the re-arm thread waits or has bound (`FlagFits`); a probe
is answered only by a process that got that far (`ProbeFits`); what a failed poll
found is kept with its count (`CountFits`); the control port is found dead only
once the flag has been lowered (`FoundLate`), and by the poll after such a failure
the accept loop runs (`SecondFine`).

*WmBridge.* None of the four properties is inductive: `NothingLost` speaks of sets
of records on a path, and a step moves items between sequences that it does not
tell apart. The invariant says what stands where. Of the things a peer sends, its
flights and then its records by number, the last ones are on the wire, those before
them with the TLS layer (`Feed`); what was encrypted for a peer is a flight and then
records from 1 on, without a gap, part of it delivered (`Laid`); and what was read of
one peer beyond its flights is as much as was forwarded to the other (`Position`).
From these, and that the observer was called as often (`Streams`), `NothingLost` and
`ObserverComplete` follow by counting. `LastWords` and `BlocksOnlyParked` depend on
where the loop is (`Phases`): established ends that were pumped hold nothing but an
end of the stream, and an iteration without progress has left no flight. Sequences
are reasoned about by their indices alone, which is why the readers of the model are
written with `SubSeq` and a count instead of a selection.

*Dispatch.* The invariant holds of each request: where it can be, given what it
asks for (`Place`); that its reply agrees with what LG really did (`Honest`), from
which `OutageHidden` follows, since only a registration is answered with an error of
the forwarding; and that until something is stored a waiting query finds what it found when it came
(`Unmoved`). `CapturesServed` needs that a table that is flagged as loaded is
whole or has a thread at `load` (`Loading`).

*RelayLog.* A log the cap has not touched holds line `i` at place `i` (`Whole`). What
the cap may leave (`Sizes`, `Ordered`) is said for each of its steps: the file is in
order but for a rewrite under way, whose tail, in order by itself, is on top of it, and
for a rewrite that failed to truncate; cutting off the rest then leaves the tail.
*RelayWatcher* adds, per line, how often it was processed or that it was lost, given
the offset and the measured size (`Counts`, `Place`), and that what was processed is
all there and stays so (`Finished`). Every step of
*AgeMemory* is one of the follower or none (`AgeStep`). `EventsCurrent` rests on
`LinesRead` (a read processes exactly the lines behind its offset that are all there),
on `ReadTells` (it tells their last event or misses it), on
`SightingFacts` (what was just read is less than a day old, so its memory is not
pruned and the pass publishes) and on `LatestOf` (a bounded set has a greatest
element, from the well-foundedness of the naturals). `AgesTrue` needs to know how
old a line can be when it is read. Lines are stamped in order (`Clocked`), and what
the follower has not read was written in this unit or the one before (`Fresh`):
there is a pass in every unit, and what slips in between measuring and reading is
of the unit of that pass. So a time of day that is read is guessed right
(`EpochOf`, from the uniqueness of quotient and remainder) and the memory is the
time of the newest line processed, unless that is too old (`Known`). The first
memory is only right up to whole days, and the invariant must say that it is not
later than any line to come, or it would hide that line (`Guessed`). The proof
showed that a day of one unit, which the assumption allowed before, would not do:
a line of the unit before would then be taken for one of today.
*LocalBridge* adds
that what is kept for the heartbeat is at least as new as what is shown
(`Current`); the step that matters is the replay of a window, which holds the line
that is shown, or only newer ones (`ReplayFacts`, from `Greatest`: a bounded set
of numbers has a greatest element).

*CommandPath.* Commands are numbered as they are chosen. The invariant says that
numbers grow through what was written, the job and the inbox (`Written`,
`Pending`). `CommandsFit` is carried by the job (`JobFits`) from the moment
the label is translated (`EntityIsField`, `WireOfLabel`).

*Framing.* The decoder of the TLS family is one recursive function over the
positions of a stream. That there is such a function (`Decoded`) and what its values
are (`DecodedBy`) is shown from the end of the stream backwards: of the positions for
which a claim fails, one is the last, and from there the function only looks ahead
(`Downward`, from the well-foundedness of the naturals). What it finds depends on the
bytes from a position onwards alone (`Shifted`), so a stream may be cut: decoding a piece, and then its
remainder with what comes next, is decoding the whole (`Pieces`). The remainder is
shorter than one largest frame and holds no message that is complete (`Remainder`).
The other half is about what an appliance sends. Each thing adds to the stream what
`Adds` says, a message itself and anything else nothing, as long as what lies before
it decodes to no frame that reaches into it; a stray byte cannot begin a frame, as
its value makes the length insane, and is skipped when the next three are there. That
fails for `Loose` things, so all that is claimed of a stream stands under the condition
that the things sent up to there were `Calm`.

The invariant has to look ahead. That everything received so far was decoded
is not inductive, since a step of `Receive` may bring any number of bytes. It says,
of *every* number `n` of bytes on the wire, what would have been decoded if they
arrived now (`Ahead`): each message whose last byte is among them and that has nothing
loose before it (`Due`), and, while all is calm, nothing but what was sent, in order
(`Origin`, `Traced`). `Receive` then only moves along `n`,
by `Pieces`, and `Send` only adds numbers `n` that reach into the new thing, which
is where `Adds` is used: with all that is on the wire, nothing is left but stray
bytes (`Clean`). With `n = 0` the two properties follow.

The raw family reads its whole remainder again with every piece, and nests: a map is
a number of values read one after another. `ReadAt` is therefore a recursive function
over positions and numbers of values, defined on every stream (`Readable`,
`ReadDone`) by the same induction from the end. What matters is what a second reading
of the same bytes, with more behind them, can differ in (`LaterAll`): a value that
ended before the end of the data ends at the same place; one that was incomplete is
still incomplete, or ends behind the bytes that were known. A value that ended with
the data may change, as a map takes the end of the data for a missing item; but
the reader waits only at strings that are no message, which do not change, and at what
raised. So when a waiting remainder does become a message, that message takes all
of it (`WaitsLonger`), and what is left came with the last piece (`MessagesLeave`).
That is the invariant (`RawInv`): the reader waits (`Waits`), and what it waits at is
within `SanityLimit`, or shorter than a piece.

Only model-checked: all liveness, which is out of the prover's reach; `NothingMissed`
and `NothingInvented` for the raw family; and `NothingInvented` for the TLS family behind
loose zero bytes. In the raw family a message is excused when a frame
that is no message came before it, and maps cut between two items are messages that
nobody sent, so the argument would have to follow what is parked behind what. Behind
loose bytes it holds of the sizes and the garbage of `fr_main`, and whether it does for
every message depends on what stands inside of it.

## Not modelled

Time but for the days of `AgeMemory`: a timeout is a step that may happen, so
nothing is said about how soon, nor about paho's keepalive while a send blocks.
The bytes of the log: a newest line is all there or not to be decoded, and the cap counts
lines. A `tls.write` that fails in the bridge engine. Pure code: decoding
of states, discovery payloads, the text of replies. The vendor SDK behind
`thinq_events.py`, whose thread is not started again when it fails; the capture
scripts, which are sequential; the tools, which are test doubles. Several
appliances of one model, which the sink merges by design, and several logs, which
the watcher treats one by one.

## Plan

Done: `ControlChannel` with `RoutingTable`, `StateSink`, `WmBridge`, `RelayLog` with
its readers and `AgeMemory`, `Startup`, `Dispatch`, `Framing`, `CommandPath`, and the
proofs above. What would add most next:

1. The broker's view of the sink: remember and publish in different orders, and
   what a lost merge costs.
2. The composition of `CommandPath` with `ControlChannel` instead of the set `reach`.
3. `CaptureRig`: on and off with failures between their steps.

To prove next: `NothingMissed` and `NothingInvented` for the raw family of `Framing`. Once
the filter of the command topics is mended: subscribing again after a reconnection.
