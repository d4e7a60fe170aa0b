# Web Tether in TLA+

Web Tether lets two clients that can only reach a common server talk TCP to each
other: a *relay* accepts WebSockets, a client *binds* named services on it,
another client *connects* to them, and the relay passes the streams of both
through one encrypted WebSocket per client. This directory models the parts of
the program that carry this, checks them with TLC on small instances and proves
the most important properties with TLAPS for instances of every size.

## The system

The program is TypeScript on Deno. Each process is one JavaScript thread: code
runs alone from one `await` to the next, and everything else may happen at an
`await`. All concurrency, and nearly everything that is hard about the program,
lies there. In the models an action is one run of the code between two awaits.

| component | state | operations | talks to |
|---|---|---|---|
| relay registry (`createRelay`) | sockets, a uid counter and a map of circuits per socket, the owner of each service | connected, disconnected, bind, link, close, forward, notify | called by every socket's command loop |
| relay command loop (`handleSocketRelay`) | serviceBound, the command being handled | one per command | registry, secure channel, permissions (asynchronous) |
| async queue (`consumableAsyncQueue`) | pending items, waiting shifts, the chain of maps | push, shift, waitFor, queued, abortWith | every component: sockets, streams, accepted connections |
| secure channel (`createCipheredWriter`, `createDecipheredQueue`, `createTunnelSecurity`) | nonce counters, three queues, the pump | write, shift | WebSocket, command loops |
| handshakes (`auth/*`) | nonce counters, session key | challenge, solution, verdict | the queue of undecrypted frames |
| client session (`handleClientSocket`) | connections, links, the next local uid | one handler per relay command | secure channel, connecting and bound side |
| connecting side (`client-service-handler`, `raw-socket-server`, `socks-proxy-server`) | accepted connections that wait, with a timer each | accept, expire, take, connected, failed, closed | local applications, session |
| bound side (`handle-SERVICE_LINK`) | links, TCP connections, a queue of chunks per link | link, stream, close, end of the destination | destinations, session |
| stream pumps (`handleClientStream`) | two loops per circuit | read, write, end | a TCP connection or a pair of transform streams |
| reconnection (`tunnel.client.ts`) | failed attempts, last reason | connect, wait, give up, stop | session |
| server (`tunnel.server.ts`) | the set of running sockets | upgrade, shut down | command loops |
| SOCKS server (`proxy/*`) | a working buffer, the place in the negotiation | read, reply, ask for a tunnel, pipe | connecting side |
| command line (`cli/*`) | the permissions read from the clients file, reloaded when it changes | load, watch, look up, interrupt | server, client |
| byte buffers, logging, small helpers (`common/safe-buffer.ts`, `crypto.ts`, ...) | none between calls | encode, log | everybody |

What is hard: handlers that check something, await, and act on it; two maps that
must agree on a circuit; nonces counted independently on two sides; asynchronous
maps that settle in any order behind a queue that must stay in order; waits with
timers; pumps that end one another; transports that fail at any point, noticed
by one end before the other; processes that stop, crash and start again while
their peers go on; a file that changes while it is read.

What makes each part correct:

* registry: both ends of a circuit agree on it; nobody takes over a service; a
  uid means one circuit; who stays is told when the other goes; who is lost is
  forgotten.
* queue: first in, first out, each item once, exact count, callbacks that tell
  the truth, nobody waits while an item is there.
* channel: the receiver handles what the sender wrote, in order; memory is
  bounded; what is written is handled and a close is noticed.
* connecting and bound side: each accepted connection gets one answer; a message
  of a circuit that is gone reaches nobody; when a circuit ends both its TCP
  connections end.
* handshakes: both sides agree on the counters of the session they enter, and
  neither waits for ever.
* processes: a client that was cut off gets its session and its service back;
  who is told to stop stops; the permissions become those of the file.
* SOCKS: the negotiation takes exactly its own bytes, a tunnel is had only under
  the policy of the server, and no connection waits for ever.

## The modules

| module | models | code |
|---|---|---|
| `Relay` | `createRelay` and the command loop of `handleSocketRelay` | `tunnel/server/tunnel.relay.ts` |
| `Switchboard` | abstract: what the relay promises | |
| `AsyncQueue` | `consumableAsyncQueue` | `common/utils.ts` |
| `Fifo` | abstract: what the queue promises | |
| `SecureChannel` | one direction of an authenticated WebSocket | `common/communication.ts`, `tunnel/common/tunnel.security.ts` |
| `Handshake` | both modes of authentication, both sides | `tunnel.relay.ts`, `tunnel/server/auth`, `tunnel/client/auth` |
| `Connector` | accepted connections, circuits and pumps of the connecting side | `tunnel/client/services`, `tunnel/client/commands`, `proxy/socks.server.ts` |
| `Linker` | links, connections and pumps of the bound side | `tunnel/client/commands`, `tunnel/client/services/handle-stream.ts` |
| `ClientsFile` | the clients file, its reading and its watcher | `cli/cli.ts` |
| `Lifecycle` | extends `ClientsFile` by the processes of the relay and the clients, and by the handlers of the sockets between them | `tunnel.server.ts`, `tunnel.client.ts`, `tunnel-handle.client.ts`, `cli.ts` |
| `Socks` | one SOCKS connection, both versions | `proxy/*` |
| `MCRelay`, `MCAsyncQueue`, `MCLifecycle`, `MCSocks` | the sets, requests and inputs of their runs | |
| `RelayProofs`, `AsyncQueueProofs`, `SecureChannelProofs`, `HandshakeProofs`, `ConnectorProofs`, `LinkerProofs`, `LifecycleProofs`, `SocksProofs` | theorems about the module of the name | |

How they fit together: each module keeps of its neighbours what they can do to
it, as actions of the environment. `Relay` says which messages `Connector` and
`Linker` get, and `MayBind` and `MayConnect` are what `ClientsFile` had in
memory when a socket entered; `SecureChannel` starts where `Handshake` leaves
the counters and uses the queue of `AsyncQueue`; `Lifecycle` makes and ends the
sockets, and reduces the registry to the owner of one service per client; what
`Socks` calls a tunnel is a circuit of `Connector`.

The names of variables, actions and helpers are those of the code where TLA+
allows it. Operators whose name begins with `Mut` are single plausible mistakes
in the operator that follows them; no specification uses them. They serve to see
that each property would notice such a mistake.

**Relay.** One socket is an element of `Sockets`; `phase` says where its handler
is: in the authentication, in the command loop, or suspended in
`permissions.bind.allowed` or `permissions.connect.allowed`. The variables
`registeredSockets`, `relayCounter`, `connections` and `boundServices` are the
maps in the closure of `createRelay` (680-692); `request` is what the suspended
handler keeps on its stack. Each command is one action per stretch between
awaits: `ServiceBind` is everything up to the first permission check,
`BindAllowed` everything from its answer to the next check or the final verdict.
A handler may resume after its transport has been closed. Messages sent in a
step are in `sent`; they are commands with symbolic infos, without bytes. The
uid of a client's `SERVICE_CONNECT` is any the client may send, duplicates, zero
and negatives included.

**AsyncQueue.** The n-th accepted item is `n`. `mapping` holds the items whose
map has not settled, `chained` counts the links of the promise chain that have
run; `Link` is the code after `await process` (197-237), which hands the item to
the first waiting shift or appends it to `pending`. A shift gives up by its
timer or its signal. `Fifo` has one action: the next item goes to somebody.

**SecureChannel.** Follows a packet from `write` through the encrypting writer,
the transport, `cipheredQueue`, the pump and the decrypted queue to the loop
that awaits one handler at a time. The queues are the ones `AsyncQueue`
describes, reduced to what a single consumer sees. Encryption is modelled by the
nonce: a frame opens exactly under the nonce it was sealed with. `LowSpace` and
`HighSpace` stand for 2^64 and 2^24, so that the runs see counters wrap.

**Handshake.** One client and the relay; `setup` is what they were started with.
A frame is a record; the readers look only at what the code looks at. An action
is what runs between two waits for a frame. In credentials mode the session key
is sealed with the key of the passkey, so opening it is what shows that the two
keys are the same; the comparison of the hashes (174-180) runs only when their
lengths differ, and they never do. A client that the relay does not know, or
whose key differs, cannot open its challenge and leaves, so the mock branches of
the relay wait for their "pointless solution" until a timer or a close ends
them; that no frame comes is part of `NothingMisread`. Afterwards both sides
exchange numbered packets, so that the counters can be seen to fit.

**Connector.** `client` is what the listener knows of an accepted connection,
`circuit` what a session knows of it; `handle` is the queue that outlives
sessions, `connections` the table of the current one. A stream is two sequences
and the state of its pumps. `shut` says that the stream towards the application
was ended, which `close()` can do only when one of its two ends is not locked by
a pump or a pipe; `Locked` is that condition, from the definition of
`ReadableStream.cancel` and `WritableStream.close` and the `.catch(() => {})` in
`createConnectionTunnelPair`. The relay's messages come from the environment,
limited to what `Relay` sends, with one SUCCESS per circuit, since `Linker`, from
which the relay has it, sends no second one.

**Linker.** `link` is a record per request of the relay, `links` the table by
uid. A link is refused, connecting, linked or failed; chunks may come before the
connection, which may come after the close. `Finalizes` is the `done.finally` of
a link: it takes the link out of the table, ends the pumps that wait and closes
the connection, at once or as soon as there is one. `SessionAborts` ends the
pumps that wait and through them their links; a pump that writes finishes its
write first. A pump that ends without an error still sends SERVICE_CLOSED. The
uids are what the relay says, in use or not negative included.

**ClientsFile, Lifecycle.** `reading` is the await that `readPermissions` is in;
the file can be edited at each. `events` are changes the watcher has not come
to: its loop awaits one reload after the other. A first reading that fails ends
the process, a later one withdraws all permissions. The watcher starts after the
first reading; `watchedFrom` marks the edits that fall between. The relay's
process is started, serves, and stops in the order of `createTunnelRelayServer`:
the signal, the end of the HTTP server, the wait for the handlers that are left.
A handler and the session at its other end learn separately of the end of their
socket, so a client can be back before its old handler is gone and be refused
its own service. A client's loop is connecting, opening, authenticating, in
session, pausing (the fixed delay), waiting (the delay that `reconnectDelay`
asks for) or ended. `Patience` stands for `reconnectDelay`.

**Socks.** The protocol is a generator which asks for a number of bytes or for
all up to a zero; `stage` is the yield it is suspended at, `want` what it asked
for, `buffer` the working buffer. `validating4`, `validating4a` and `validating5`
are the awaits of a validate: the loop looks at the signal before it resumes the
generator, and the generator does not look at it when a validate has ended, so
version 4 goes on to the tunnel of an address by itself. The connection brings the input in chunks of
any size. `NegotiationEnd` and `PolicyMet` say, over the whole input, where the
negotiation ends and whether the options allow it, and `Told` which replies
come before the answer; they are written from the shape of the messages and not
from the generator, and the properties compare the two.

## The runs

| run | cfg | bounds | shows |
|---|---|---|---|
| `relay_registry` | `MCRelayPair` | 2 sockets, 2 services, 2 types, 2 circuits | the two maps of a circuit agree; uids never reused; no takeover; SUCCESS means owned; the relay speaks only of circuits held; lost sockets are forgotten; `Relay` implements `Switchboard` |
| `relay_circuits` | `MCRelayCompete` | 3 sockets, 2 services | circuits lead to the current owner; every loss is told; streams cross |
| `relay_own_service` | `MCRelaySelf` | as the first | *violated*: see findings |
| `queue` | `MCAsyncQueue` | 3 items, 2 consumers, 1 watcher | exact count; true callbacks; waiting consumers are served; `AsyncQueue` implements `Fifo` |
| `channel` | `MCSecureChannel` | 5 messages, room for 2, counters wrap after 4 | nothing lost or swapped; nonces agree; memory bounded; what is written is handled; a close is noticed |
| `handshake` | `MCHandshake` | 2 versions, 3 packets per side | no frame misread; only the authorized enter; counters fit; every handshake ends; nobody stays alone |
| `connector_circuits` | `MCConnector` | a raw and a SOCKS connection, 2 sessions, 2 chunks | the table and the answers agree; streams are in order and complete |
| `connector_liveness` | `MCConnectorLive` | the same, 1 session, 1 chunk | answers, refusals and the application's end arrive |
| `connector_remote_end` | `MCConnectorRemoteEnd` | 1 connection | *violated*: see findings |
| `linker` | `MCLinker` | 2 requests, 2 uids and one that is not allowed, 2 chunks each way | the table matches the links; streams are in order and complete; no connection outlives its link, and the relay is told of an end |
| `lifecycle` | `MCLifecycle` | 1 client, 2 sockets, 2 edits, 2 faults, 1 counted failure | the server returns last; permissions follow the file; a client comes back; who is told to stop stops |
| `socks` | `MCSocks` | 17 inputs under 6 sets of options | nothing swallowed; tunnels only as agreed; nobody served once aborted; every negotiation ends |

Why these bounds. A circuit has two ends, so two sockets give every relation of
its ends, a socket with itself included; a third one is needed for somebody who
stays while two compete. Two circuits let one be old and one new under the same
counter, two services let a bind fail half-way. In the queue, two consumers and
three items are the least with an item behind, at and before the one whose map
is late while one consumer gives up. Five messages through a queue for two pass
every state of the pump twice, and the small nonce space wraps within them. A
handshake has four frames; three packets per side go past the counters that
either mode begins with. A connection of the connecting side meets others only
in its queue and in the table of a session; one raw and one SOCKS connection and
two sessions give every meeting of two, and the order of a longer queue is that
of `AsyncQueue`. The liveness run has one session, since what it asks of a
connection ends with its circuit. On the bound side two requests are enough for
one to ask for the uid of the other, while it is connecting, linked or ended; a
request that is refused by the destination and one that is not are two as well.
One client needs two sockets to be back while its old handler still runs;
clients share nothing but the process of the relay and its permissions, and two
faults are a cut connection and a crash in either order. Two edits give a change
during a reload, and a file that is broken in between. The client of that run
never loses its patience (`Patience` is above `MaxFailed`), or it could not be
asked to come back. The SOCKS inputs have each type of address, names without
bytes, bytes that are zero inside fixed fields, bytes sent ahead of the reply,
and inputs that stop short or break the protocol at each decision; each is cut
into chunks in every way.

Deadlock is checked in all runs; the actions `AllGone`, `BothGone` and `Done`
are the states in which everything has ended. `Lifecycle` needs none: a relay
can be started again.

## Fairness

The code's scheduler is the event loop: a promise that is settled is acted on, a
timer that is armed fires. That is weak fairness of the actions that continue
after an await, and of `Expire` and `TimesOut`. The relay's permission checks
and the asynchronous maps of a queue are assumed to settle; command handlers to
return; the transport to deliver or to close, or to be `silent`, which the
properties name. An application is assumed to read what was written to its
connection. Nothing is assumed of what peers send, of sockets opening, of
applications or sessions ending, or of the relay answering: liveness properties
have these as alternatives where they matter.

For the later modules this means: `Deno.connect` settles, for the operating
system limits it, and a destination that is there reads (`Linker`); files are
read, events reach the watcher, delays end, a socket that is upgraded opens
unless it fails, and the relay notices a client that is gone, which is what the
idle timeout of the WebSockets of `Deno.upgradeWebSocket` does (`Lifecycle`);
the deadline of a SOCKS read fires (`Socks`), while a validate and a tunnel may
never answer. Nobody has to start, stop, edit,
cut or send anything. Strong fairness is used nowhere. TLC checks liveness; it
is not proved.

## Proofs

All theorems hold for any values of the constants under the assumptions in the
modules.

* **Relay.** `RegistryCorrect` proves `RegistryInv`. `ConnectionsPaired` alone
  is not inductive: to know that `link` does not overwrite an entry one needs
  that the uid checked before the await is still free after it (`AskedUidFree`),
  for which nobody but the socket itself may enter positive uids (`UidsApart`),
  and that a registered socket is one whose handler runs (`RegisteredRun`).
  `TypesCorrect`, `PairedCorrect`, `OwnersCorrect` and `UidsCorrect` follow.
* **The steps of the relay.** All its action properties are proved from the
  invariant, by way of two lemmas that say what a step can be. `RegistrySteps`
  reduces the handlers to the five operations of `createRelay`; from it come
  `NoTakeoverCorrect` and `UidsNeverReusedCorrect`. `MessageSteps` says how a
  step can write and what circuits it takes away: a handler ends, a message is
  passed on, a circuit is closed, or nothing goes and only replies are written;
  from it come `SpeaksOnlyOfHeldEndsCorrect` and `EveryLossToldCorrect`.
  `StreamsCrossCorrect` needs only the invariant. `SuccessMeansOwnedCorrect`
  follows the last question of a SERVICE_BIND: no flag is set, so the services
  it accepted are all it asked for (`LastQuestion`), and nobody else writes that
  reply. `LinksReachOwnerCorrect` also needs that the permission to offer a
  service, which was asked for long before and is not asked for again, is that
  of whoever owns it: `OffersAllowed`, an invariant of its own, of what is bound
  and of what a suspended handler has accepted (`OffersCorrect`).
* **Refinement.** `SwitchboardImplemented`: a circuit of the switchboard is a
  pair of entries; every step is a `Join`, `Part`, `Publish`, `Arrive`, `Depart`
  or a stutter. It needs the invariant before and after the step.
* **AsyncQueue.** `QueueCorrect` proves `QueueInv`, whose core is `InOrder`: the
  items delivered, those pending and those in the chain are consecutive
  intervals. `CountCorrect`, `NoMissedItemCorrect`, `WaitersCorrect`,
  `CallbacksCorrect` and `FifoImplemented` follow. `NoMissedItem`, that nobody
  waits beside a pending item, is only a theorem: the run sees its consequence,
  `ItemsReachWaiters`.
* **SecureChannel.** `NoncesDistinct`: the encoding of nonces is injective below
  2^88 packets, for both roles together. `ChannelCorrect` and `BoundedCorrect`:
  a pump that was released finds room, so the decrypted queue never holds more
  than `decryptQueueSize`. `StreamCorrect` proves `StreamInv`, from which
  `NothingLostCorrect` and `NoncesAgreeCorrect` follow. Both properties speak
  only of an unbroken channel, or of a peer that sends nothing foreign, and so
  are not inductive: what a place holds after an abort, or behind a foreign
  frame, decides what the handler may still be given. `StreamInv` says it
  place by place, from the handler back to the writer: each continues the
  numbers of the one before it up to the first packet that the program did not
  seal, for that one ends the handler (`TransitInv`, `HandlerInv`); the sender
  numbers without a gap until its signal aborts (`SenderInv`); and who waits has
  left nothing behind (`WaitersInv`), without which a hand-over could overtake
  what is queued.
* **Handshake.** `HandshakeCorrect` proves `HandshakeInv`. `OnlyAuthorized`
  speaks of sessions; to conclude that the client of one was authorized one has
  to follow its frames: a hello on its way says what the client was started
  with, so that what the relay checks of it is what the client is
  (`RelayKnows`), and an AUTHORIZED is on its way only when the relay has
  finished (`Inboxes`, whose `Approved` nothing takes back). `Counted` says what
  each side has counted in each phase, which `Approved` and the types need.
  `OnlyAuthorizedCorrect` and `TypesCorrect` follow. `StreamsCorrect` adds
  `StreamInv`, which relates what is on its way to what will read it. `InStep`
  says which phases of the two sides go together. `ToRelay` and `ToClient` say,
  for each phase of a reader, which frames may wait for it: none, at most one of
  a kind, or sealed frames with the numbers it will count through (`Flows`),
  which are the last ones its peer has sealed unless the connection dropped
  some. The frames behind the first one matter before anybody is in a session:
  the relay enters first, and its packets may wait behind the verdict that the
  client has yet to read; and the client counts the challenge only if it could
  open it, which shows that the relay waits for the solution (`Opened`).
  `NothingMisreadCorrect` and `CountersMeetCorrect` follow.
* **Connector.** `ConnectorCorrect` proves `ConnectorInv`. To the table and the
  answers it adds that a waiting connection is in one queue, once, so that the
  loop gives no connection two circuits (`Queues`); that the table holds uids
  given out before, so that a new one replaces none, and that who is asked for
  has no tunnel yet (`Entries`); and of a connection by itself that only its
  timer answers it before it is taken (`AnswerInv`), and that pumps run only on
  circuits that were connected (`PumpInv`), without which the end of a pump
  could take another circuit out of the table. `TableMatchesCorrect`,
  `AnswersAgreeCorrect` and `TypesCorrect` follow. `StreamsCorrect` adds
  `FlowInv`. `NothingCutShort` speaks of what lies between the relay and the
  application only while the circuit lasts and its writer runs. But chunks come
  before the writer has started, and a writer that is busy goes on after the
  end; so `Flow` says of every writer that has not ended that what lies between
  are the chunks that come next, and `Whole` that none is missing as long as the
  circuit lasts. `NothingCutShortCorrect` follows, with `ToldInv` for the other
  direction.
* **Linker.** `LinkerCorrect` proves `LinkerInv`. `LinksMatch` says nothing of
  links that were refused, so it cannot exclude by itself that a pump of one
  ends and takes the uid of another out of the table; `LinkInv` adds that pumps
  run only on links that are linked, and `Entries` that only accepted links are
  in the table. That a link tells the relay at most twice (`TypeOK`) needs that
  a pump tells only as it ends. `LinksMatchCorrect` and `TypesCorrect` follow.
  `StreamsCorrect` and `NothingCutShortCorrect` are like those of `Connector`;
  here a connection can be made after its link has ended, so its writer may
  begin then with what had been left, and an accepted link has its SUCCESS as
  long as the session is there (`Answered`).
* **Lifecycle.** `LifecycleCorrect` proves `LifecycleInv`. `ReturnsLast` needs
  that each handler that runs while the server waits is one it waits for
  (`WaitsForAll`), and for that no step may give a handler to a socket that has
  none: the sockets that clients hold have one (`SocketsServed`), and the server
  upgrades nothing after the signal. `ReturnsLastCorrect` and `TypesCorrect`
  follow.
* **Socks.** `SocksCorrect` proves `SocksInv` for every sequence of bytes. The
  properties compare where the generator has come with a reading of the whole
  input, of which the generator knows only what it has read so far. So the
  invariant gives every stage a `Position` in the input, a formula of the bytes
  before it, and says that the generator asks for what the message has there
  (`Wanted`), that it has found out what the reading says
  (`Learned4`, `Learned5`), that the buffer is what lies between the position
  and what was read (`Window`), and that the sizes which later positions depend
  on were read when they are used (`Begun`). A step is then one equation
  between two positions. The names of version 4 have no size: that the first
  zero of the buffer is the first one behind the header needs the zeros as a set
  with a least element. `NothingSwallowedCorrect`, `TunnelAsAgreedCorrect` and
  `TypesCorrect` follow. `AbortHeededCorrect` needs two properties that every
  step keeps once the server is aborted: not to be served (`Unserved`), and, for
  a connection in a negotiation or in a validation that the loop takes up again,
  to have no tunnel (`Doomed`). `validating4` is not among the latter: from there
  the generator asks for a tunnel, which is closed unused when it is granted.

The type invariants of `Relay`, `AsyncQueue`, `SecureChannel`, `Handshake`,
`Connector`, `Linker`, `Lifecycle` and `Socks` are proved, each as
`TypesCorrect`, and are in no run: they say what the variables hold.

Only model-checked: all liveness properties, which the prover cannot do. Every
invariant and every action property of the passing runs is proved.

## Findings

* **A service of one's own** (`relay_own_service`). The relay tells the two ends
  of a circuit apart by their WebSocket. A client that connects to a service it
  bound itself is both, and its streams return to where they came from instead
  of reaching the bound end (`tunnel.relay.ts:776`).
* **The end of the other side does not reach the application**
  (`connector_remote_end`). When the relay closes a circuit, or the session is
  lost, `finalize` calls `safelyClose(relayTunnel)` while a pump and a pipe hold
  the locks of the streams; nothing is closed, and nothing closes them later.
  The local TCP connection stays open until the application ends it
  (`client-service-handler.ts:130`). When the application ends first, everything
  is closed: that is `ApplicationEndReaches`.
* **A reload that does not happen.** README.md:127-128 says of the relay: "It
  watches the clients file and reloads permissions automatically when it
  changes." The watcher starts after the first reading (`cli.ts:758-770`), so a
  change in between is seen only with the next one, and the relay keeps the old
  permissions until then. No run is about this: `ReloadSettles` names the case
  (`edits = watchedFrom`) as its exception, and fails without it.

The following are what the code does and no text of the repository says
otherwise; the properties name them as exceptions.

* A SOCKS reply that cannot be written leaves a tunnel that nobody closes
  (`socks5.handler.ts:296`): `TunnelAsAgreed`, `ApplicationEndReaches`.
* The shutdown of the relay ends with the first handler that rejects and does
  not wait for the others (`tunnel.server.ts:216`): `ReturnsLast` is about the
  return, `StopEnds` about either.
* An abort while the user of a version 4 request with an address is validated
  does not keep the generator from asking for a tunnel, which is closed unused
  (`socks4.handler.ts:75`, `115`): `AbortHeeded`.
* Chunks that wait for the destination are dropped when the relay closes their
  link: `NothingCutShort` holds as long as the link lasts.
* A connection that leaves the queue in the moment its session is lost is not
  answered (`client-service-handler.ts:66`): `EveryoneAnswered`.

## Not modelled

* Parsing of arguments, the schemas of the configuration, logging, encodings,
  `safe-buffer` and cryptographic primitives keep no state between calls; the
  models say what they use of them. The build script and the experiments are not
  part of the program.
* `ClientsFile`: removing the file while it is watched, and what a watcher does
  then on each platform. Which permissions of a running session a reload
  reaches: none, a session keeps what its handshake looked up. `Relay` takes
  permissions per service as constants.
* `Lifecycle`: a transport that falls silent without an end for the client,
  against which the code has no timer (it has none for the opening of a socket
  either); `Handshake` has silence, and the timers of the handshake. Several services per client are in `Relay`.
* `Socks`: the listener's loop and its wait for connections; destinations that
  the mapping redirects or rejects, which never reach the relay, are tunnels
  that are there or are refused. The end of the program while the remaining
  buffer is being written is not noticed (`socks.server.ts:218`); that the
  deadline starts over with every chunk, and that a name has no limit, are
  bounds on time and memory, which no property here is about.
* The wrap of the uids, which are written as int32, after 2^31 circuits of one
  session; memory held by closures, such as the writer loop that outlives its
  socket; replies queued in the writer when a handler ends.
* A destination that never reads: a write without end holds its pump, and the
  code has nothing against it.

## The plan

1. `Relay`, `Switchboard` and their proofs: the registry is shared by everybody
   and its handlers interleave. Done.
2. `AsyncQueue`, `Fifo` and their proofs: everything else is built on it. Done.
3. `SecureChannel` and its proofs: nonces and back-pressure. Done.
4. `Handshake`, both modes of authentication, both sides, timers, and its
   proofs; its outcome gives `SecureChannel` its `FirstCounter`. Done.
5. `Connector`, accepted connections, sessions, circuits and pumps of the
   connecting side, and its proofs. Done.
6. `Linker`, the bound side, and its proofs. Done.
7. `ClientsFile` and `Lifecycle`, with their proofs: the processes, their
   restarts and the reload of permissions. Done.
8. `Socks`, one connection of the SOCKS server, and its proofs. Done.
9. `Circuit`, which would compose the two ends and the forwarding of the relay
   and show that an application and a destination have one stream between them. Not
   done: each end's stream is proved against what the relay does to it, and the
   relay's crossing of streams by itself.
