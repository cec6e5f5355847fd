# Verification of the Hubble Connected integration

TLA+ models, TLC runs and TLAPS proofs for the Home Assistant integration in
`src/custom_components/hubble_connected`. Paths below are relative to that
directory unless they start with `src/`.

The integration reaches a camera in three ways: the vendor cloud, the camera's
local HTTP commands, and "Orbweb", a peer-to-peer tunnel whose Python
implementation is `orbweb/`. Everything runs on one asyncio event loop: a step
of a model is what the code does between two suspension points, and the
interesting behaviour is what other tasks do while one of them is suspended.

## Inventory

| Component | State | Operations | Hard behaviour | What makes it correct |
|---|---|---|---|---|
| **Port mapping** `orbweb/port_mapping.py` | tables of open and retired streams, next request id, forward tasks, loopback servers, keepalive count, close progress | accept a client, forward its bytes, receive and dispatch frames, disconnect handshake, keepalive, fail, close | tasks of many clients, the receive loop and the close interleave at every await; both ends may disconnect at once; ids wrap and are reused | clients get their own bytes in order; a well-behaved camera is never a protocol error; a close leaves nothing, and only a client that does not read can hold it up |
| **Mapping pool, stable ports** `orbweb/pool.py` | a mapping and a lock per camera, a listener and a lock per endpoint, client tasks, `_closed` | get mapping, get stable port, handle a client with one retry, close | mappings die between hand-out and use; close during an open or a start; a preparation is cancelled with the lock in its hands | one transport per camera, one listener per endpoint, a retry uses a new transport |
| **LAN opener** `orbweb/lan_client.py`, `direct_tunnel.py`, `direct_race.py` | listener, signaling socket, control socket, accept task, race sockets, mapping | bind, register, control exchange, race, handshake, authenticate, clean up | failure, timeout or cancellation at each await of either task | whoever finishes, nothing but the returned mapping stays open |
| **Direct listeners / session** `direct_listeners.py`, `direct_client.py` | servers, pending sockets; registration | bind, accept, close; register, wait for forward | sockets accepted during the close | a socket has one owner at a time |
| **Control, handshake, authentication, rendezvous** `control.py`, `handshake.py`, `authentication.py`, `rendezvous.py` | none between calls | one packet or HTTP exchange each | refusals, answers of another client, connections that end, timers and cancellations at each await | a result is made of the answers to the own requests, nothing stays open |
| **NAT and shunt clients** `nat_client.py`, `shunt_client.py` | probe port, reader task, counters | probe with one local port; register again every 100 ms until answered | late and repeated answers, a read that survives a registration, a cancelled reader | a result is of this request, the calls end |
| **Tunnel codec, framing, crypto** `protocol.py`, `framing.py`, `crypto.py` | none | encode, decode, encrypt | chunk boundaries, integer widths | decode inverts encode; independent of chunking |
| **Command client** `orbweb/commands.py` | cached stable port | one command over HTTP through a stable port | the port is closed between check and dial; timeout of the preparation | a command is sent at most once per call |
| **Restream manager** `restream.py` | registered names and sources, a lock | register with go2rtc, close | cancellation or failure between the remote and the local step; a close that overtakes a registration | no registered stream is forgotten |
| **Camera entity** `camera.py` | the refresh task, stream source | stream source, refresh, unload | a refresh finishing after its stream was replaced | one refresh at a time, the source is that of this setup |
| **Local client, coordinators** `local.py`, `coordinator.py` | remembered values, request lock, published data | polls and setters | setters between the getters of a poll; requests that time out and are carried out | no value goes back to an older one; what an available entity shows is fresh |
| **Cloud client** `cloud.py` | session token | login, inventory, publish a job, poll it | a poll fails; the answer comes after the last poll | a job's result is that job's |
| **Setup and unload** `__init__.py` | runtime data, update listener, entity registry | setup, unload, reload, registry clean-up | any part of the cloud or the LAN is silent; options edited while a setup runs | one route and one view per camera; the registry fits the entities; the saved options are in force |
| **Discovery, bindings, config flow** `discovery.py`, `stream_bindings.py`, `config_flow.py` | options | find cameras, bind streams and commands, save options | an ARP table that is incomplete or outdated, cameras that moved | a camera is reached at its own address |
| **Entities, diagnostics** | none | views and pass-through setters | - | - |

Interactions: *setup* reads the cloud and the LAN, *binds* cameras to keys and
gives the keys to the pool, the command clients and the camera entities. A
camera entity and a command client ask the *pool* for a stable port, and an
entity gives that port to go2rtc through the *restream manager*. A client of a
stable port makes the pool call the *LAN opener* under the camera's lock; the
opener runs the control exchange and the listener race in two tasks, each built
from the *exchanges*, and returns a *port mapping*. The pool closes a mapping
that failed and is closed itself by *unload*, after the restream manager.
The port mapping talks to the camera
over one encrypted TCP stream, and to local clients over loopback TCP.

`PROJECT.json` lists the components with their status, and under `hazards`
every place where this code can go wrong in a way a test would hardly reach.

## Modules

| Module | Models | Lines it stands for |
|---|---|---|
| `PortMapping` | `OrbwebPortMapping` over a FIFO link to a camera | `orbweb/port_mapping.py` |
| `CameraLinks` | abstract: what the pool promises of the links to the cameras | the public calls of `orbweb/pool.py` |
| `MappingPool` | `OrbwebLanMappingPool`, `OrbwebStablePort`; implements `CameraLinks` | `orbweb/pool.py` |
| `LanOpener` | `async_open_lan_rtsp_mapping`, the accept task, the candidate race, the listener | `orbweb/lan_client.py`, `direct_tunnel.py`, `direct_race.py`, parts of `direct_listeners.py`, `direct_client.py` |
| `Exchanges` | nine request and answer exchanges against a peer | `orbweb/control.py`, `handshake.py`, `authentication.py`, `rendezvous.py`, `nat_client.py`, `shunt_client.py`, `framing.py`, parts of `nat.py`, `direct_client.py`, `cloud.py` |
| `EntrySetup` | the setups of one entry, the options and the entity registry | `__init__.py`, `discovery.py`, `stream_bindings.py`, the entity lists of the platforms, parts of `cloud.py`, `config_flow.py`, `local.py` |
| `CameraStreams` | normalised streams over the reloads of the entry | `restream.py`, `camera.py`, the unload in `__init__.py` |
| `CameraSettings` | one setting between its service calls and the polling coordinator | `local.py`, `coordinator.py`, parts of `orbweb/commands.py`, `number.py`, `switch.py`, `select.py` |
| `PortMappingProofs`, `MappingPoolProofs`, `CameraLinksProofs`, `CameraSettingsProofs`, `CameraStreamsProofs`, `LanOpenerProofs`, `ExchangesProofs`, `EntrySetupProofs` | theorems about these modules | |
| `MC*` | what TLC needs: symmetry sets, accounts and options, a state constraint | |

Definitions marked "Mutant" stand beside the definition they vary; no
specification uses them. They are seeded faults for checking that each
property can fail.

### PortMapping

- `stream[c]` holds the fields of the `_MappedStream` of connection `c`
  (request id, port, the two sequence counters, `disconnecting`); `streams` and
  `retired` are the values of `_streams` and `_retired_streams`, and the
  dictionary's insertion order is the number `retiredAt`.
- `task[c]` is where `_async_forward_local` of `c` is suspended: waiting for the
  lock to announce, reading, sending, sending the disconnect request, ended.
  `rx` is the receive loop: reading a packet, draining a socket, answering a
  disconnect, stopping a stream. `ka` is the keepalive loop, `closing`
  `async_close`.
- `up` and `down` are the two directions of the tunnel. A packet carries its
  operation and the connection whose id and ports it has: `RxUnknown`,
  `RxMismatch` and `Routed` look up the id and ports of that connection, as the
  code looks up the header, so a frame of an earlier stream with a reused id
  *is* routed to the new one.
- Each forward step, each dispatch case and each keepalive round is one action.
  An action that fails the mapping contains the whole of `_fail`.
- The camera (`cam`, `Cam*`) and local clients (`Client*`) are external. The
  camera answers disconnect requests, may request one itself at any time, sends
  data until it knows a stream is over, and with the fault `camera_stray` sends
  any frame for any stream it once knew.
- With the fault `client_stalls` a client with unread data stays connected and
  reads no more (`ClientStall`). That is all the model keeps of socket buffers: what was
  written to such a client is not flushed, so a `drain` for it does not return
  (`HeldUp`) and its closed socket is not gone (`Unread`).
- `RxStop` cancels a forward task wherever it is. In `wait_closed()` the
  cancellation reaches the future the canceller awaits next (`CancelsWaitClosed`),
  and the receive loop ends without an error (see `StopLeavesError` below).

Abstractions: payloads are sequence numbers; encryption and byte layout are
left out, and what the transport of a closing socket still flushes is not
counted as received; write failures and a read at end of stream are one fault,
`tunnel_lost`, since both end in `_fail`; the keepalives the mapping sends are
not modelled, those it receives are; the tunnel's own socket takes what is written to it
or is lost, so sends end; a connection is accepted once; `_allocate_request_id` finding no free id
disables `Accept` (the code raises in the server's callback and the client is
not served). Tasks may take the write lock in any order, which includes the FIFO
order of the real lock. That a finished close leaves no socket at all, those of
rejected clients included, relies on `Server.wait_closed` of Python 3.12.1 or
later; what it leaves of accepted streams does not.

### MappingPool

- `pooled[h]` and `lock[h]` are `_mappings` and `_locks`, `published` and
  `stableLock` the same of the stable ports; `listening[k]` counts servers.
- `handler[c]` is the task of a client of a stable port
  (`_async_handle_client`, `_async_connect_upstream`, `async_get_mapping`) or, for the
  `Preparers`, of a command client's `async_prepare`, whose timer cancels it where it
  waits (`PrepareTimeout`); `caller[r]` is a task in `async_get_stable_mapping`.
- `open` in `handler[c].pc` is everything done under the camera's lock once the
  stored mapping was found unusable: its close, the rendezvous and route lookups,
  and the opener. `_closed` is looked at before this, not in it.
- A mapping is a model value with a state: `live`, `failed` (`terminal_error`
  set), `closed` (`async_close` was called on it, so `is_closed` holds; its own
  closing sequence is `PortMapping`'s business). Its opener is one external step that
  succeeds or fails while the lock is held, or never comes. A preparation that is
  cancelled while it closes the old mapping leaves that close unfinished, which is
  not tracked. Every camera port an endpoint stands
  for is mapped (the code's `KeyError` otherwise is a caller's error).
- `WaitsForClients` is the behaviour of `asyncio.Server.wait_closed`: before
  Python 3.12.1 it returned at once, since then it waits for the connections
  the server accepted. The project's CI runs 3.13
  (`src/.github/workflows/validate.yml:23`).

### CameraLinks

What users of the pool may rely on, with no locks, clients or retries: the link
of a camera is opened by one at a time and only while there is none, a link
that failed is gone before its replacement is there, the close drops all links
in one step and begins no other. `MappingPool!Links` gives the mapping: the
openers of a camera are the handlers at `open`, the links in use its live
mappings. That an opening under way at the close still ends in a link is part
of the promise, because it is what the code does (finding 2).

### LanOpener

- `opener` is where `async_open_lan_rtsp_mapping` is suspended, `accept` where
  the mapping task is, `control` the result of the control exchange.
- `inb`, `outb` are the sockets of the race, `taken` the one
  `DirectListenerPool.async_accept` returned, `winner` the one the race chose.
- The constant `Faults` says what may go wrong: failing setup, control or
  authentication, a camera that leaves, a cancellation of the opener, an `OSError` of the
  control socket's `wait_closed()` that is no `ConnectionError`
  (`orbweb/lan_client.py:152-155`). The timeouts of the forward, the race and the
  handshake are no faults: they are always possible.
- `CleanupCancelled` is a cancellation inside the opener's own clean-up: in the
  `gather` of its tasks, in the close of the mapping, in `wait_closed()` of the control
  socket or in the close of listeners that were refused.

Address lists, packet contents, the retries of binding over random ports and
the registration packets are left out. A cancellation of the accept task is
modelled at every await it has, its cleanup included. The opener's close of the
listener in its `finally` clause returns at once, since the accept task has called it.
Not modelled is a cancellation in the pool close of a bind that failed, before any
listener is handed over.

### CameraSettings

- `kind` is the client: `local` (`HubbleLocalClient`, which remembers fields) or
  `orbweb` (`HubbleOrbwebCommandClient`, whose coordinator collects them in local
  variables). `holder` is `_request_lock`.
- `setter[s]` is a service call: the entity's setter, the client's setter and the
  request, in one task. `executed` is a request the camera carried out whose
  answer is under way; `overdue` the calls that gave up on a request that may
  still reach the camera.
- `stage` and `request` are the update of the coordinator: the getters before
  this setting (and the metadata, or the mapping's preparation), the setting,
  the getters after it, and the wait for the other cameras in `gather`. `view` is
  what it will return, `cache` what the local client remembers, `shown` and
  `available` what is published.
- A value is its version, the number of writes the camera had executed; the
  history variables `since` and `asOf` remember how far the camera was when a poll began.

Abstractions: the getters before and after the setting are one request each;
with the setting unknown, whether another getter answered is left open
(`Publish`). The lock is taken in any order, which includes its FIFO order.
The coordinator's scheduling is Home Assistant's: a poll starts from the interval
timer or a requested refresh, one at a time. A service call is not cancelled.
Opening the stable port is part of an Orbweb request.

### Exchanges

- A behaviour is one call of one exchange (`kind`); `step` is the request of its
  script it has come to, `pc` the await. `owes` and `answered` say what the peer
  was asked and has answered, `inbox` what has arrived on each connection.
- A packet arrives in two parts, and `half` is the one whose header was read:
  the await between header and payload is where a timer, a cancellation or a
  cancelled reader does harm. Payload bytes that are read as a header are
  `Garbage`.
- An answer is its command and a sort: own, malformed, of another client, a
  refusal, for a job that it is pending, for the first NAT packet that there is no NAT.
- `finally` is what the `finally` clauses around the current await have yet to
  end; an interruption while they run skips no later one.
- `port` and `from` are the port the probes must share and the one the operating
  system gave; the client refuses another one (`WrongPort`).
- `honest` turns FALSE with the first thing the peer does against the protocol.

Abstractions: the timer of `direct` covers the registration and the wait for
the forward, which are two calls of one session; `control`, `offer` and
`accept` use the caller's connection and the caller's timer, which is
`LanOpener`'s. Opening a connection is one step. A cancellation that arrives
while the shunt client awaits its own cancelled reader is suppressed with the
reader's (`orbweb/shunt_client.py:115`), so it is not an interruption here.

### EntrySetup

- `pc` is the await of `async_setup_entry`; each action is what happens up to the
  next one. `cloud` and `additional` are the cameras of the cloud lists, `specs`
  the discovered addresses, `data` those whose first refresh succeeded, `direct`
  those that answer RTSP. The bindings, the selections and the entities of each
  platform are operators over them, as they are pure functions in the code.
- `occupant` is the camera at each address, `former` the one before it moved;
  `arp` is the table a setup reads: each line right, missing or outdated.
- Addresses are numbers, `1 .. n`: discovery goes through them in an order, here
  the increasing one (`InOrder`), and of two lines for one MAC the last is kept
  (`ArpHost`).
- `listener` and `reload` are the update listener and the reload it asked for;
  `missed` that options were saved while a setup ran that had read the old ones
  and did not listen yet.
- `registry` survives setups: it gains the entities of a setup and loses those
  its clean-up removes. It starts with the `Leftovers`, entities that an older
  release created and this one does not: a contrast control of a 3667
  (`src/CHANGELOG.md:16`) is what the clean-up of `__init__.py:485-506` is for.

Abstractions: MACs are distinct, known or not (`Mac`); addresses move between
setups only; `LanModels` are the models that answer local commands, without the
3667 (`src/docs/protocol.md:69`). A lookup is answered or not, for whatever
reason. Every error the clients name is caught,
so a setup raises only where it writes its structure file (`__init__.py:253`); what a raising setup leaves open is not modelled.

The properties are no stronger than the code: `ShownOnce` is about ARP tables that
are incomplete, not outdated, since an outdated line can give one camera's
address to another; and a 0667 whose getter is silent during a cloud outage
gets image controls, because an unknown model counts as safe. `RegistryClean` exempts
camera entities: the clean-up preserves them (`__init__.py:433`), so one that a later setup
does not create stays in the registry.

### CameraStreams

- The number of a setup stands for the source it gives for a key; `registered` is
  what go2rtc serves under the name of the key. A call of go2rtc is two steps, go2rtc's
  and the return to the caller, and may fail or be cancelled at either.
- `request[r]` is a call of `stream_source` or a refresh task; `refresh` the task
  an entity knows. The unload cancels no request, so one that was waiting for the pool or the
  lock goes on in a manager that is closed (`late`).
- The unload awaits the close of the streams and then that of the pool (phase `pool`),
  which may never return (`PoolCloseEnds`): `PoolClosed` has no fairness.

Left out: the stream worker whose source a refresh updates, which is Home Assistant's.

## Runs

| Run | Question | Bounds |
|---|---|---|
| `PortMapping_streams` | Do the crossing disconnects of both ends and data in flight keep every client's bytes in order, with no protocol error? | 2 connections, 2 ports, 3 ids, 1 chunk up, 1 frame down each |
| `PortMapping_ids` | Ids that wrap and are reused, evicted entries of the retired table, and any frame for any stream the camera once knew | 3 connections over 2 ids, 1 retired entry, 1 frame down; `Short`: one frame under way in each direction, one stream with data |
| `PortMapping_live` | Do handshakes, failures and closes end, and what does a close leave? | 1 connection, keepalives; resets, a client that stops reading, lost tunnel, silent camera, owner's close |
| `PortMapping_late` | counterexample, see findings | 1 connection |
| `MappingPool_clients` | One transport per camera, opened alone; fresh retries; an implementation of `CameraLinks`; is every task that asks for a mapping bridged or dismissed, whatever is cancelled and whichever opener does not end? | 2 clients, 1 preparation, 1 caller, 2 cameras, 2 mappings |
| `MappingPool_closed` | counterexample | 1 of each |
| `LanOpener_cleanup` | Is a returned mapping alone, what does an opener that raises leave, is one socket handed over, and does the opener end, under every fault and a cancellation at its awaits, the clean-up's included? | 2 inbound, 2 outbound |
| `LanOpener_deadlock` | counterexample | 1 inbound, 1 outbound |
| `Exchanges_peers` | Are results made of answers to the own requests, is an honest peer never a protocol error, does nothing stay open, do timed calls end? | the nine scripts; 2 local ports, 3 polls, 3 registrations, 2 repeated answers |
| `EntrySetup_reloads` | Does every camera get one route and one view, does the registry fit, are the saved options in force? | 2 cameras (a 3667 and one that answers on the LAN), 2 addresses, 2 sets of options, 2 changes of the surroundings, 1 leftover entity |
| `CameraStreams_unload` | Is every stream go2rtc serves accounted for, is the remembered one this setup's, one refresh per entity, does the unload get past the close of the streams? | 3 requests, 2 keys, 2 setups |
| `CameraSettings_setters` | Do remembered and published values only go forward, is what an available entity shows fresh, do calls end, does the display converge? | 2 service calls, either client, polls for ever |

Why the bounds are enough. A stream interacts with another one only through
the id it reuses, the tunnel's order, the shared receive loop and the eviction
of retired streams: two connections show the first three, and three
connections over two ids with a table of one entry show wrap, collision, reuse
and eviction together. One chunk in each direction is enough to cross each step
of a disconnect handshake with data. A close treats each stream alike, so
one connection shows what a close leaves of it, and the theorem
`NothingAfterCloseTheorem` covers the rest. `Short` keeps every
order of accept, disconnect, retirement, eviction and reuse, with a stray frame
at any point; what it gives up, frames queued behind each other, is what
`PortMapping_streams` is for. In the pool, two clients of one
camera are one that holds the lock and one that waits or still uses the old
mapping, the preparation one that is cancelled while it holds the lock or waits for it,
two mappings a failed one and its replacement; a race of two callers for one endpoint
is left to the theorems `OneListenerTheorem` and `EndpointStableTheorem`; larger populations are covered by the theorems. In the race two
candidates of each kind are a winner and a loser of each. Two service calls are
one that holds the lock, or was given up, and one that overtakes it; the safety
properties of `CameraSettings` are proved for any number.

Requests of different keys meet only at a manager's lock and in its close:
three requests over two keys are the holder, one that waits and one in the next setup. An
exchange has at most one request unanswered, except the shunt client, for which
two extra registrations and two repeated answers give an answer that is late,
one that is repeated and one that is half read; three polls are a first, a middle
and a last one. In a setup, one camera of each class - polled through the
cloud or Orbweb, or on the LAN - exercises each selection, the second address is
the one a camera moved from or to, and two changes are one that goes wrong and one
that should repair it.

`LocalIntegrity` is checked with as many ids as connections. With fewer, a
frame of an earlier stream of a reused id can reach the new one if its sequence
number fits - in the code too, after 2^31 streams - and what then remains true
is `StraysNeverReorder`.

`LanOpener_cleanup` sets `WaitsForClients` to FALSE: a server close then never
waits, so the safety properties cover TRUE as well, whose steps are a part of
these; only that the opener ends fails there (finding 3). In `LanOpener_deadlock`
nothing fails and every timeout fires; the same instance with `WaitsForClients` FALSE
satisfies `OpenerTerminates`, so its counterexample is the wait for the server.
`outcome` records what stopped the opener. `RaisesClean` says of every raise that session
and control socket are closed; of the rest it excludes control failures and errors of the
control socket, because of the orphaned mapping (below), and cancellations of the
opener: one during the race's own cleanup (`orbweb/direct_race.py:81`), or during the
opener's, leaves sockets open.

`CHECK_DEADLOCK FALSE` is set wherever the system stops: every connection is used
once, a closed mapping or pool does nothing more, a call of `Exchanges` is over
at its end, and `EntrySetup` and `CameraStreams` stop at their bounds. `CameraSettings_setters`
checks for deadlock, since polling never stops.

### Fairness

Weak fairness on the steps of tasks: the event loop runs a task that is ready.
Strong fairness on taking a lock of the pool or of a command client: asyncio locks are FIFO, so a
waiter is not overtaken forever. Dials, exchanges and what the opener awaits end because each
has a timeout, and so does every command; server starts are local, and
the coordinator's interval timer starts polls for ever. A live camera processes its
input (a dead one is noticed by the keepalive loop, whose rounds are timed). Not
assumed: that clients end or read, that anyone resets, connects or closes, that a
mapping survives, that a camera drops its sockets, or that it answers or carries
out any command.

`PortMapping`: a closed socket is gone in the end only if its client reads
(`~Unread(c) /\ SocketLost(c)`), and the receive loop goes on only unless it drains to a client that
does not (`~HeldUp /\ Receive`); nothing in the code aborts or times such a wait.
`DisconnectCompletes` needs no exception for that client: the missing keepalives
then fail the mapping, and its close empties the tables before it waits. `FailureCloses`
and `CloseCompletes` end in `closed` or with a client that stays for good
(`StalledForGood`), as the code does. Sends to the tunnel are assumed to end: the
kernel takes the bytes or gives the connection up.

`MappingPool`: nothing is assumed of an opener, of the retry behind a mapping's close
or of that close. What has a timer is the preparation of commands (35 s,
`orbweb/commands.py:42`), which releases the lock wherever it holds it. So `ClientAnswered`
says that a task is bridged or dismissed unless a handler of the same camera opens for ever,
or the close of the mapping it could not dial does not end. Both do happen: an opener
can hang where servers wait for their clients (finding 3; `LanOpener_cleanup` shows
that it ends where they do not), a close where a client does not read.

`LanOpener`: nothing is assumed of the wait for the servers and of further cancellations.

`CameraStreams`: calls of go2rtc end, by the timeout of its client; strong
fairness of `TakeNames`, since the lock is FIFO; the close goes on; nothing is assumed of
the pool's close that follows. `Exchanges`:
the client goes on and its timer fires; nothing is assumed of the peer, and
calls without a timer of their own are not claimed to end. `EntrySetup` has
safety properties only: what a setup waits for is Home Assistant's business.

## Findings

1. **Late data stops the mapping** (`PortMapping_late`). Data of a stream whose
   client has left is discarded only after the camera answered the disconnect
   request. Before that it is written to a lost socket, `drain()` raises in the
   receive loop and all streams of the camera are closed. The comment at
   `orbweb/port_mapping.py:253` and the test at
   `src/tests/test_orbweb_protocol.py:578` say late data must be harmless.
2. **A mapping or a listener outlives the pool** (`MappingPool_closed`).
   `_closed` is not looked at again after the opener returned, nor after the
   server of a stable port started; `async_close` promises to close "every owned
   mapping". TLC reports the shorter of the two; either conjunct alone is violated.
3. **The listener's close waits for its sockets** (`LanOpener_deadlock`). After an
   inbound socket has won, `DirectListenerPool.async_close` awaits the server
   that accepted it, and the handshake on that socket comes later; after the race has
   timed out, a socket that connected meanwhile is closed only behind the same
   wait (`orbweb/direct_listeners.py:92-103`). Nothing but
   the camera dropping the socket ends the wait, and the lock of the camera is
   held. This depends on Python 3.12.1 or later.

### Claims the code does not keep

Four more properties are stated in the modules and are no part of a run; TLC refutes
them as soon as they are added to one:

- `StopLeavesError` (`PortMapping`, as an INVARIANT with `PortMapping_late.cfg`): both
  ends disconnect at once. The forward task has sent its request and awaits
  `wait_closed()` (`orbweb/port_mapping.py:208`) when the receive loop, which has
  answered the camera's, cancels it (line 349). The cancellation goes to the future that
  every `wait_closed()` of this writer awaits, so the loop's own at line 351 raises
  `CancelledError`, which lines 551 and 234-235 let pass. No stream is served any more,
  the stream is not retired, `terminal_error`, which is to be "the protocol or
  transport error that stopped the mapping" (line 132), stays `None`, and the pool hands the
  mapping out until the keepalive count closes it.
- `ShutdownNeverWaits` (`PortMapping`, as a PROPERTY with `PortMapping_live.cfg`):
  `async_close` closes local sockets gracefully and waits for what they have still to
  flush (`orbweb/port_mapping.py:430-450`), so a client that does not read holds it up; the
  comment at line 445 says that the shutdown cannot wait on its own sockets.
- `PoolCloseEnds` (`MappingPool`, as a PROPERTY of `FairSpec` with the constants of
  `MappingPool_closed.cfg`): `OrbwebStablePort.async_close` awaits `wait_closed()`
  before it disconnects the clients (`orbweb/pool.py:104`), and
  `orbweb/port_mapping.py:445` names the Python behaviour and does it in the
  other order. A client that stays holds up the unload.
- `NoOrphanMapping` (`LanOpener`, as an INVARIANT with `Faults = {"control"}`,
  `WaitsForClients = FALSE` and otherwise the constants of `LanOpener_deadlock.cfg`):
  if the accept task has finished and the control task then fails
  (`orbweb/lan_client.py:145`), the mapping is neither returned nor closed. With
  `Faults = {"socket"}` or `{"cancel"}` likewise: an error of the control socket's
  `wait_closed()` or a cancellation there (lines 150-155) raises past a live mapping.

## Proofs

Proved for all values of the constants that the modules' assumptions admit:
`ConstantsAssumption` (`PortMapping`, `MappingPool`, `LanOpener`), `ActorsAssumption`
(`CameraSettings`), `NoOneAssumption` and `SetupsAssumption` (`CameraStreams`),
`PortsAssumption` and `BoundsAssumption` (`Exchanges`), and six of `EntrySetup`
(below). Sets of clients, cameras, keys and requests may be infinite. Each module
shows one inductive invariant with a lemma per action, the properties being
conjuncts or consequences of it.

`PortMappingProofs` - `IInv` and why each part is needed:
- `TypeOK`: all else reads typed records; that ids stay in range after wrapping
  needs `NextIdAfter`'s modulus.
- `Untouched`: a connection that was never accepted has no trace anywhere, so
  `Accept` starts from nothing.
- `FramesKnown`: packets in the tunnel and the receive loop are of accepted
  connections, whose id and port no longer change.
- `RxOnOpen`: the stream the receive loop holds across its awaits is in the table; a loop
  that ended in silence holds none.
- `IdsApart`: two streams never share an id unless one left both tables; with
  the allocation rule this gives `IdsUnique`.
- `TasksOwned`, `AfterClose`: who has a task or a socket, before and after the
  close; the last step of the close then gives `NothingAfterClose`.
- `SendCounted`, `AllWritten`: the receive counter of a stream is the number of
  frames written to its socket, without which `StraysNeverReorder` is not
  inductive.

More invariants are inductive relative to that one. `RetiredInOrder` says that
each stream was retired at a number of its own and that the table holds at most
`MaxRetired` of them; so when a full table gives up its oldest entry, the
`MaxRetired` numbers between that entry's and the newest are all taken (the pigeonhole
principle) and the entry is out of the window: `RetiredWindow`, and `RetiredBounded`.
`IdsCounted` says that, while there were no more accepted clients than ids, the next id
is the number of accepted clients and each has its own below it; two streams
with one id are then one stream, and `StraysNeverReorder` becomes `LocalIntegrity`.
Its theorem has the hypothesis `Cardinality(Conns) <= IdSpace` - 2^31 connections in
the life of one mapping - because without it the property is false (see Runs); it needs
no honest camera.

Under the same hypothesis the two directions of the tunnel are counted. `SendInv` says
that what a forward task has numbered is what the camera received of its stream plus the
data frames still in `up`, and that nothing was asked to end before the task's `finally`
clause; `Announced` that frames from the camera, and the stream the receive loop works
on, are of connections it was told of, so that an answer to a control never comes before
the announcement. With them `UpOrdered` is kept when a packet is put and when one is taken.
`InBooks` says the same of `down`: the data frames in it are numbered on from what an open
stream received up to what the camera sent. `Listed` says that an accepted connection
is open or remembered, so a frame that is not of an open stream is discarded. The
receive loop then finds no fault: `NoProtocolErrorTheorem`. Its hypotheses are those of
the code: a camera without strays, and `retirements <= MaxRetired` where the property is
claimed, since a frame of a stream that had to be forgotten (the code remembers 256)
does end the mapping.

`MappingPoolProofs` - the invariant relates locks to their holders' program
counters (a task inside a critical section holds that lock and no two do), a live
mapping to the stored one of its camera, a mapping in a handler's `tried` set to
being closed or failed, and a caller about to start a server to the absence of a
published endpoint. `OneTransport`, `OpenAlone`, `RetryIsFresh`, `OneListener`,
`NoOpenAfterClose` and `EndpointStable` follow, for any number of clients,
callers, cameras and mappings, whichever clients prepare commands; whether
`WaitsForClients` holds does not matter.
`OneListener`, `NoOpenAfterClose` and `EndpointStable` are proved and not run.

`CameraLinksProofs` - the refinement: `Spec => ImplementsLinks`. From that
invariant, the initial states and every action of the pool map to an initial state and
to a step of `CameraLinks` or a stutter. `Linked` and `BeginOpen` need
`OpenAlone` (no second opener) and `OneTransport` (nothing in use beside it);
closing a stored mapping maps to `Drop` because no other mapping of that camera is live.

`CameraSettingsProofs` - `LockInv` says that the actor whose request is under way
holds the lock, and no other. So an answer that is under way is alone, and it is as
new as every confirmed setting (`ConfirmedInv`), as the poll it belongs to
(`FreshInv`) and as everything remembered, collected or shown (`ForwardInv`). The
last two differ because a local snapshot is taken from the remembered fields at the
end and an Orbweb one field by field. `ConfirmedRemembered`, `FreshWhenAvailable` and
`ShownNeverBack` follow.

`CameraStreamsProofs` - for any number of requests, keys and setups:
- `LockOwned`: a manager's lock is held by exactly the request whose call of go2rtc is
  under way, so no two calls of a setup overlap.
- `NotYet`: managers of setups to come are empty and unlocked, so a reload starts clean.
- `Outlived`: a request that is still active when the close has taken its manager's names
  is recorded as `late`; the excuses of the properties rest on that record.
- `RegisteredInv`: what go2rtc serves is remembered, on its way to being remembered or
  deleted, or has a cause. It says more than `Accounted` between go2rtc's step and
  the return to the caller, where the lock's holder must be the one that will remember it.
- `ServedInv`: what is remembered, and what is about to be, is served or was replaced
  by a late request: `ServedFromThisSetup`.
- `RefreshKnown`: an entity of the loaded setup knows the refresh task that runs for it;
  `OneRefresh` is not inductive without it.

`LanOpenerProofs` - `SetupInv`, `OpenerInv` and `ListenerInv` say what is open at each
await of the opener, of its clean-up and of the listener's close; `RaceInv`
which sockets are still open at each await of the race and that the candidates that
did not win are closed; `MappingInv` what the accept task leaves, a mapping or
nothing. The opener and the task run concurrently: each invariant speaks of one of
them and of the result it reads of the other. `OneSocketWins`, `ReturnsOnlyTheMapping`
and `RaisesClean` follow for any number of candidates and any set of faults.

`ExchangesProofs` - for any set of local ports and any bounds:
- `PlaceInv`: at which awaits each exchange can be, and what it has counted there.
- `CoveredInv`: a connection that is up, and a reader that runs, is only where a `finally`
  clause will end it or is among those still to run; at the end nothing is up, which
  is `LeavesNothing`.
- `WireInv`: only the answers to the first NAT packet and to a poll can say what the
  code treats as no final answer.
- `AnswersInv`, `PortInv`: the accepted answers are those of the steps of the script that
  are over, and every probe that was answered left from the port of the first: `AnswersMatch`.
- `HonestInv`: while the peer is honest nothing is owed, on the wire or half read but
  the one answer to the current step (for `direct` the forward behind it, for `shunt`
  whole copies), so no exchange can fail for the protocol: `HonestNeverProtocol`. The
  property alone is not inductive, since a packet that is out of place fails only
  when it is read.

`EntrySetupProofs` - from `HostsAssumption` (the addresses are `1 .. n`),
`NobodyAssumption`, `OptionsAssumption` (options name addresses and cameras),
`LanModelsAssumption` (no 3667 answers local commands: `src/ROADMAP.md:10`,
`src/docs/protocol.md:69`), `LeftoversAssumption` (what older releases left in the registry is
of the kinds the clean-up knows) and `BoundAssumption`:
- `WorldInv`: two addresses never have one camera, and the ARP table, the first data and
  the RTSP answers are of a camera that is or was at the address.
- `SpecsInv`: discovery gives one spec per address, with the MAC the table gives it. With
  `WorldInv` and the definitions of the bindings this is `RoutesOwnCamera` and `ShownOnce`,
  which are facts about pure functions of any state the invariant admits.
- `RegistryShape`, `RegistryInv`: an entity belongs to an address or a camera and has a name of
  its platforms, so that the clean-up of `Finish` reaches each one that is left over:
  `RegistryClean`, and for each removal a cause, `RemovedForCause`.
- `OptionsInv`: what the setup has read is what is saved, or a reload is asked for, or
  the options were saved before the listener was there: `OptionsInForce`.

Only model-checked: all liveness, and so the ends of calls, closes and polls, which
rest on fairness and on actions being enabled, out of the prover's reach.

## Not modelled

- Byte layouts, AES and Diffie-Hellman: data TLC cannot enumerate.
- `BasePacketBuffer`, which only a decoder tool uses, and the tools themselves
  (`src/tools`).
- The retries of binding over random ports.
- The fill levels of socket buffers: a client reads, or it stops for good with data unread.
- The command client's cached port: a dial of a closed port is one of the failing
  requests of `CameraSettings`.
- The cloud coordinator, whose getters are the jobs of `Exchanges`; its token is
  refreshed at any poll (`coordinator.py:91`).
- What a raising setup leaves open (`__init__.py:344`): `EntrySetup` has no
  resources of a setup.
- `async_migrate_entry`, which drops keys of old entries, and the dialogues of
  the config flow, which keep no state but the options they save.
- Wording, logging, sensors' units and diagnostics, which keep no state.

## Plan

Done: the port mapping, the pool with its abstract specification and the
refinement, the opener, the exchanges, settings, setups and streams, and a theorem for
every safety property above. What is worth proving next, in this order:

1. The state predicates behind the liveness runs, which need no fairness: while a mapping
   closes, each socket `CloseEnd` waits for is already closing and each task is in its
   `finally` clause; a task that waits for a lock of the pool waits for one that does not
   wait for it.
2. `NoProtocolError` past the first `MaxRetired` retirements, for a camera whose late
   frames outlast at most as many.
