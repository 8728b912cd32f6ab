# ractor-wormhole: specifications and proofs

ractor-wormhole connects ractor actors of two processes. A *nexus* per process
owns one *portal* per connection; two portals talk over a *conduit*; actors are
published on a portal (or on all of them through the nexus), looked up by name,
and used from the other side through local proxy actors. Messages may carry
actor references and reply ports, which are *transmaterialized*: published where
they are sent, and given a proxy where they arrive.

This directory specifies those parts in TLA+, checks them with TLC on small
instances and proves most of the safety properties and all refinements for every instance
with TLAPS.
`PROJECT.json` maps each definition to the lines of the source it stands for.

Contents: [Parts of the system](#parts-of-the-system) ·
[Modules](#modules) · [Runs](#runs) · [Bounds](#bounds) ·
[Fairness](#fairness) · [Proofs](#proofs) · [Divergences](#divergences) ·
[Not modelled](#not-modelled) · [Plan](#plan)

## Parts of the system

Paths are relative to `src/`; `rw/` stands for `ractor_wormhole/src/`.

### Portal (`rw/portal.rs`)
State: `channel_state` (opening with its `waiting_for_handshake`, or open with
`published_actors`, `named_actors`, `proxies_for_remote_actors`,
`open_requests`, `next_request_id`), its own introduction and the sink.
Operations: one handler per `PortalActorMessage`, of which `Content` carries a
`CrossPortalMessage`. A handler may await the sink or the nexus; the portal
handles nothing else meanwhile. An error that leaves a handler through `?` ends
the portal and drops every reply port it holds.

It interacts with the receive loop (casts), the sink (await), the nexus (ask),
applications (asks with and without timeout), the task it spawns for every
message to serialize (which asks it in turn to publish embedded references),
a watcher task per published actor, and proxies.

Hard: content that comes before the handshake; asks whose asker gave up; names
of ended actors; exits that overtake registrations; many tasks that publish the
same actor. Correct when: the two sides never trip each other's protocol
checks and agree on the conduit id; every ask returns; a message reaches the
actor its proxy stands for once, with references that mean the same actor;
proxies end with their actors and not before; a portal goes down only for a
cause.

### Nexus (`rw/nexus.rs`)
State: registry of portals, named actors, an optional listener for new
connections. Operations: `Connected` (spawns and links a portal, awaits its
start), publication and lookup of names, `GetAllPortals`, supervision events.
Hard: a portal that ends while it is being stored; a start that fails or hangs;
callers, askers and listeners that are gone. Correct when: the registry follows
the portals; lookups see the last publication; the listener hears of each
portal once and before the caller; every request returns.

### Conduits (`rw/conduit/`)
`from_sink_source` and `receive_loop` are common to all transports. A unix
socket and SSH carry type, length and bytes of each frame on a byte stream; a
WebSocket maps frames to text and binary messages. Hard: ends in the middle of
a frame, back-pressure, who learns of an end when the halves share a stream,
and the actor, task and event handler around an ewebsock socket. Correct when:
each direction is a lossless, ordered prefix of what was sent, and ends are
noticed where the transport can tell.

### Reply ports (`rw/transmaterialization/`, `rw/transmaterialization/rpc_proxy.rs`)
A reply port in a message becomes an `RpcProxyActor` that is published, and on
the other side a port with a task that forwards its value to a proxy, with a
timer at either end. Correct when the caller sees one ordinary reply port: the
target's answer or an error, once, for its own call.

### Function actors and combinators (`rw/util/`)
`FnActor` runs an async function that reads a bounded channel fed by an
ordinary actor; the thread-local variant fails where it would wait. `filter`,
`map` and `filter_map` derive actors from actors. Correct when: messages arrive
once and in order, ends spread only where they should, the actor ends with its
function and whoever asked gets an error.

### Chat (`chat_app/`)
A server actor with the map of clients, a generator of aliases, a hub actor per
portal, the loop over new connections that awaits each handshake up to 5 s,
clients that look for the hub, join, post and receive. Correct when: posts are
attributed to their author and reach everybody, joins are announced, no two
clients share an alias as long as there are unused ones, every connection is
served.

### Serialization (`rw/transmaterialization/`, `ractor_wormhole_derive/`)
Functions between values and bytes: of numbers, texts, containers, tuples,
references and reply ports by hand, of structs and enums by a derive macro. The
two programs need not be built from the same declarations, nor for the same
width of a `usize`. Hard: nested lengths that the content may look like, parts
that one program does not know, a rest that nobody reads, numbers too wide for
their reader. Correct when: what is declared alike arrives as it was sent or is
refused, and a difference is an error and not another message.

### FFI (`uniffi_test/`)
A `WormholeRuntime` owns a tokio runtime and a nexus; a `WormholeConnection` has
a portal whose conduit is a pair of channels: one is fed by
`on_message_received`, which a web socket library of the foreign program calls,
the other is emptied by a task that calls that program's `TransportCallback`.
Actors are wrapped as handlers that are called, reply ports as objects that are
used once. Kotlin has a server and a client of a chat on top. Hard: the threads
of a library, the main thread and the tasks of the runtime meet in every order;
calls that block a thread of the foreign program; a reply port that is taken and
not used; ends that must cross two callbacks, a socket and a task. Correct when:
blocking calls return, an end on one side ends the other, members are listed and
served.

### Others
HTTP servers, user interfaces, samples and tests: no protocol state of their own.

## Modules

| Module | Models | Uses |
|---|---|---|
| `Portal` | two portals, their receive loops, applications, tasks, watchers and proxies on one conduit | - |
| `Nexus` | a nexus, its portals seen from outside, its users | - |
| `OneShot` | what a reply port promises its caller | - |
| `ReplyPort` | remote reply ports through two open portals | `OneShot` (refined) |
| `Pipe` | what a direction of a conduit promises a portal | - |
| `ByteConduit` | one direction of a framed byte stream | `Pipe` (refined) |
| `WebSocketConduit` | both directions of a WebSocket | `Pipe` (refined, twice) |
| `FnActor` | function actors and actors derived from them | - |
| `Chat` | chat server, hubs, serving loop, aliases, clients | - |
| `Serialization` | layouts, their readers, two portals of programs that may differ | - |
| `Ffi` | runtimes, connections, web socket transports, the Kotlin server and client | - |
| `MC*` | values of the constants for TLC | each the module it is named after |
| `PortalProofs` | theorems on `Portal`: types, ownership, the handshake, waits, causes of an end, what no step takes back; then ids, names, answers, proxies, delivery | `Portal` |
| `NexusProofs`, `ReplyPortProofs`, `WebSocketProofs`, `ByteConduitProofs`, `FnActorProofs`, `ChatProofs`, `FfiProofs` | theorems on the module each is named after | that module |

### Portal
Both sides run the same actions, `Side == {"a", "b"}`; every variable is a
function of the side. `mailbox[s]` is the portal's queue, `wire[s]` the frames
from `s` to its peer. There is one action per handler (`HandleHandshake`,
`HandleClose`, `HandleRequestActorByName`, ... `HandleLocalActorExited`),
each with all of its effects up to the end of the handler, because no other
handler of that portal runs in between. `PortalFails` is the exit through `?` of
every handler that can fail. The asynchronous rest has actions of its own:
`ReceiveLoopReads`, `ReceiveLoopEnds`, `TaskAsksToPublish`, `TaskTransmits`,
`WatcherReports`, what applications do (`App...`, `AskTimesOut`), `ActorExits`
and `LinkBreaks`.

Choices. A proxy's own queue is merged with the send. `spawn` of a proxy and
its registration are one step of the spawning code and a message to the portal.
A lookup through the nexus inside a handler is atomic, as the portal is blocked
meanwhile and the nexus's answer is that of one moment (`Nexus` has the
interleavings on the other side). Ids are drawn fresh from `OpaqueActorId`;
channel contributions are sets of bits, xored. Peers are wormhole portals, so
frames always decode. `Halves` is how the transport is split: the halves of a
unix socket each end their own direction; those of SSH (`tokio::io::split`) and
of a WebSocket (`split`) keep the stream open until both are dropped.
`PublishActor` without a reply port is not modelled, as nobody sends it;
neither is `ResponseActorById`, which is handled like its sibling and never sent.

### Nexus
`mode` is where the nexus is in its handler of `Connected` ("starting": awaits
the portal's start, "storing": has it and stores it). Portals end on their own
at any time. Supervision events and ordinary messages are taken in either
order. A portal whose start fails emits no event.

### OneShot and ReplyPort
Portals are reduced to what reply ports need: open, up or down, casts to
proxies and published ids. Calls go either way. `ImplementsOneShot` maps the
chain (caller's port, `RpcProxyActor`, portals, forwarding task, target's port)
to a port that is open, answered or dropped.

### Pipe, ByteConduit, WebSocketConduit
`Pipe` has three actions: send, receive the next frame, end. `Portal`'s wires
behave like it; the two conduits implement it.
`ByteConduit` writes a frame word by word into a buffer of `Capacity`, lengths
modulo `Modulus` (which stands for 2^32), and chooses in `Init` one of the pairs
of ends that the repository connects: unix to unix, SSH to unix, unix to SSH.
The ends differ in what a drop of the sink shuts, in how the end of the stream is
read, and in whether an unknown type ends the source at once. A sink has an arm for
`ConduitMessage::Close` too, a type byte alone, which the SSH source would read
together with what follows it; nothing in the repository sends one, so there are no
close frames in the model.
`WebSocketConduit` has a tungstenite server and a client of tungstenite,
ewebsock on a desktop, or ewebsock in a browser. Around an ewebsock socket a
frame goes through the sink, an actor, a channel, a task, the socket, the event
handler, a channel and the source; each is a step.

### FnActor
A tree of actors, each of a kind: "fn", "local" (thread-local), "map" (also
`filter_map`) and "filter". Mailbox, the message a handler holds while it waits
for room, channel and task are separate, so the function may end between any
two of them. `Room` is what a channel takes: its capacity, and with the futures
channel of a thread-local actor one more, which that library grants each sender.
ractor's rules (what a stop, a kill and a failed child do) are external definitions.

### Chat
The chat protocol above portals that are taken as correct but reorder: what is
under way to one client is a bag. `Pair` is the generator: the n-th alias is a
pair of places in two word lists, and `Init` may draw a server that has handed
out `Earlier` aliases already. `"slow"` lets a peer never complete its handshake,
so that `ServerMovesOn` stands for the timeout. The loop over connections takes three
steps for each: the hub is spawned, published on the portal, and the handshake
awaited; a client may leave in any of its phases.

### Serialization
A type is a record of its kind and parts; `Immaterialize` and `Rematerialize`
recurse over it, with one operator per layout and one per reader. A reader gives
the set of what it reads: one value, or none for an error. A byte string is a
sequence of words; a `u64` length, a byte, a character, the name of a variant
and an id are one word each, so that content may look like a length, and numbers
are little-endian words of `Base` values. Two portals exchange messages of an
actor and answers to their ports: `Send`, `Receive`, `Answer`, `ReceiveAnswer`,
in any order; what a portal cannot read ends it (`refused`). Each of `Links` is a
pair of programs: one type that has every layout at both widths of a `usize`, the
messages of the chat in the declarations of `chat_app/shared` and of
`uniffi_test`, and two versions of an application.

### Ffi
Both sides run the Rust code (`CreatesConnection`, `NexusAnswers`,
`TransportSends`, `TransportCloses`, portal steps) and differ in their libraries:
the server's throws when it cannot send, which ends the task, and reports a
broken socket as closed; the client's drops what it cannot send and calls
`onFailure`, which tells Rust nothing. `phase` follows `runClient` through the
latch, the handshake, the query, the calls and its `finally`; `closing` follows
`runServer` after its console is closed. `create_connection` is two steps, the
look at the nexus and its answer, between which the other threads run. The hub's
and the chat server's handlers run on tasks of their own; `HubSteps` are the
two steps of the hub's. Portals are reduced to one connection, and what arrives at
one, the channel, the receive loop and the mailbox, is one queue. A query that is
answered and a port that is dropped are as in `Portal` and `ReplyPort`.

## Runs

`tlc -config <run>.cfg <module>`; every run with "pass" finishes without an
error. Several applications of a component (which side publishes, what may
fail, how actors are derived from one another) are checked in one run: the
choice is a variable that `Init` draws from a set the `MC` module defines
(`setting` in `Portal`, `ReplyPort` and `Ffi`, `built` in `FnActor`, `library` in
`WebSocketConduit`, `link` in `Serialization`) and no step changes.

| Run | Module | Distinct states | Shows |
|---|---|---|---|
| `portal_safety` | `MCPortal` | 279,785 | protocol checks, conduit id, ownership of asks, causes of shutdown, lookups, ids, delivery, proxies |
| `portal_liveness` | `MCPortal` | 34,943 | portals open or go down, asks return, registered proxies stop with their actor |
| `remote_linking` | `MCPortal` | violated | a proxy may outlive its actor for ever |
| `nexus` | `MCNexus` | 132,054 | the registry follows the portals, answers are current, the listener hears once, requests return |
| `nexus_isolation` | `MCNexus` | violated | the failed start of one portal takes the others down |
| `reply_port` | `MCReplyPort` | 93,107 | a remote reply port is a reply port; calls return; proxies are released |
| `chat_room` | `MCChat` | 73,272 | attribution and aliases, delivery, announcements, service |
| `byte_conduit` | `MCByteConduit` | 26,228 | framing is a lossless prefix, nobody waits for ever |
| `websocket` | `MCWebSocketConduit` | 36,844 | both directions are lossless prefixes, ends are noticed, frames arrive |
| `fn_actors` | `MCFnActor` | 69,994 | messages once and in order, causes of ends, ends of functions, asks |
| `serialization` | `MCSerialization` | 9,005 | what is declared alike is read as it was sent, differences are told |
| `ffi` | `MCFfi` | 46,160 | members are served, blocking calls return, ends reach both sides |

`TypeOK` of `Chat`, `WebSocketConduit` and `Ffi` holds as well; their runs are
about other properties, and the theorems `TypeCorrect` of their proof modules
establish it.

Each property is stated in a comment above it. The less obvious ones:

- `EveryWaitIsOwned`: an asker waits only while exactly one of the mailbox,
  `open_requests` and `waiting_for_handshake` of a running portal has its port, and a
  serialization task only while its one `PublishActor` is in the mailbox of a running
  portal. It is why an ask without a timeout (`portal.rs`, `nexus.rs`) does not hang.
- `IdsAreSound`: an actor has one id per portal, and every id that is used (by a proxy,
  a name, a message that was serialized, is in a mailbox or on the wire) is one that
  its side has published, under the key both sides derived.
- `NoSpontaneousShutdown`: every end of a portal is traced to a broken link, a
  stop, an asker that gave up or an actor that ended after it was published.
  The last two are consequences of the `?` in the handlers.
- `DeliveredAsSent`: relates what is in an actor's hands to the closure that was
  given to a proxy on the other side, through spawned tasks that overtake one
  another.
- `EveryAskReturns`: holds for a unix socket. With a stream that both halves
  share, an ask may wait at a portal whose peer was stopped but whose receive
  loop still holds the stream open; the property names exactly these states.
- `AnswersAreCurrent`: what an asker of the nexus may rely on when it gets the
  answer, not when the nexus computed it.
- `ImplementsOneShot`, `ImplementsPipe`, `ImplementsPipes`: refinements. The
  abstract modules have no fairness; progress is stated on the detailed ones.
- `NewsReachesAll`: a post that was acknowledged, and a join, are shown to or
  under way to everybody online who was in the map then. A join is announced just
  once; but aliases repeat when the pairs of words are used up, so the property
  counts: a client hears of an alias as often as it was given to others since that
  client joined. (Once for each alias would be wrong with lists of a single word,
  which the attempt to prove it showed.) Whether a client also hears of its own join
  is left open: see [Divergences](#divergences).
- `EveryClientIsServed`: a connection gets its hub, or the server has found its client
  gone; a client that failed while the server still held its connection does not
  count.
- `PostsAreAttributed`: what is shown carries the alias of the client that posted
  it, and that alias belongs to nobody else as long as no more than
  `WordCount^2` aliases were made. Past that the generator starts again, and the
  property promises nothing of whose alias it is.
- `FramesAndEndsArrive`: frames arrive unless the socket ends, and ends are noticed by
  whom the library tells: not by ewebsock in a browser.
- `EndsHaveCause`: that a thread-local actor failed at its limit is a cause only if the
  limit was reached, that is, if as many messages as its channel has room for went
  into it.
- `EndsReachDependents`: an actor ends with its function, panicked or not, and
  every ask that lies in its mailbox, with its handler or in its channel is
  refused or answered.
- `ReadAsSent`: refusal is allowed for exactly one reason, a `usize` or `isize`
  too wide for its reader. `DifferencesAreTold` is about variants and numbers of
  fields. Two programs that declare one field with different types of the same
  layout (a `Vec<u8>` and a `String`, say) do not notice, and no property says so.
- `CallsReturn`: the handshake's wait has its 5 s, a call through a reply port
  its `kill_after`. A query has neither: it may wait for ever when the network
  breaks, as `onFailure` tells Rust nothing, and the property excepts that case.
- `EndsReachBothSides`: excepts the client under a broken network, for the same
  reason, and the server when its library reported the end while `onOpen` was
  still creating the connection: `onClose` finds no connection to tell.
- `MembersAreServed`: whoever got an alias is listed, and hears its own post
  unless the connection is ending.
- `ImplementsPipe` covers the frames up to the first whose payload does not fit
  the length field (`Sound`); of later ones nothing is promised.

## Bounds

Every bound is a constant, or a field of a setting.

- `Portal`, `portal_safety`: two actors and up to two publications per side,
  three ids, two names, two asks and two messages over both sides, distributed
  over five settings: opening with every ask and every fault, two queries for
  two names, messages with embedded references in both directions, exits, and
  exits under a message. Two asks are what it takes to mix responses up, two
  publications to confuse actors, two messages with references to have one
  answer the other through the proxy it brought. Actors, ids, askers and
  messages are interchangeable (symmetry); names are not, as settings name them.
- `portal_liveness`: one ask at a time under every fault over both kinds of
  transport, two under stops, and two proxies for one actor. No symmetry.
- `nexus`: two connections, two actors for one name, two publications, one
  asker, every fault. A third connection adds no new order: the nexus
  handles one start at a time, and a second portal is enough to be hit by it.
- `reply_port`: two calls the same way (their answers may be mixed up), and one
  with a timer among breaks and stops.
- `chat_room`: two clients and one post, with slow clients and such that leave at any
  moment. Word
  lists of two words, and 0, 2 or 3 aliases handed out before, so that the second
  word moves on and the generator starts again while clients join.
- `serialization`: bytes of four values and integers of one byte, a `usize` of
  two bytes on one platform and of one on the other, texts and vectors of up to
  two elements over two characters that look like lengths and flags. One type
  contains every layout, nested (`MCSerialization`), a tuple of twelve fields
  stands for the implementations of every length. One message per link, two
  where frames may overtake one another.
- `ffi`: one client, two calls (the first is to the hub), and either a network
  that may break or a server that may be stopped, at any moment. The two calls
  meet the hub and the chat server; a third would repeat the second.
- `byte_conduit`: words modulo 4 in place of bytes and of a u32, a buffer of two
  words, two frames; payloads look like types and lengths, and one is longer
  than the length field can tell.
- `websocket`: two frames and one control message in all.
- `fn_actors`: three actors, three messages, a channel of one place (two with a
  thread-local actor, so the third message is the one too many). Four applications: a
  full channel behind a filter, a pair, a chain of derived actors, a thread-local
  actor with a filter whose function returns, panics or does not keep up.

## Fairness

Weak fairness of what the tokio runtime and ractor's actor loop poll whenever
it is ready; nothing obliges applications or the environment to act.

- `Portal`: each portal's handlers, each receive loop, each watcher and each
  serialization task. Asks and timeouts are not fair: a property that holds
  does not count on a timeout.
- `Nexus`: the nexus's handler. A start is not fair, because a sink may hold it
  for ever, and `EveryRequestReturns` says so.
- `ReplyPort`: portals, receive loops, tasks, the `RpcProxyActor` and its
  `kill_after` timer, which is a timer of the code. Targets are not fair.
- `Chat`: the serving loop (its 5 s timeout included), server, hub and clients.
- `ByteConduit`, `WebSocketConduit`: sink and source, tasks, the actor, the
  event handler. The transport's break is not fair.
- `FnActor`: actors and filters. Users' functions are not fair.
- `Ffi`: the libraries' threads, each transport's task, tasks, portals, the
  server's handlers, both main functions and the timers they or the reply ports
  set. The break of the network, the user at the client, the console of the
  server and the client's `onFailure` are not fair; that the server's library
  notices a broken socket is (Java-WebSocket pings its sockets).
- `Serialization` has no fairness: its properties are invariants.

## Proofs

Every theorem holds for all values of the constants that the module's assumptions
allow. These are:

- `PortalAssumption`, `NoneAssumption` of `Portal`: `None` is none of the other
  values (of ids neither), the port of the handshake and that of a publication are
  no names (they are the kinds of things a task may want), no asker is a message
  (proxies are named after either), contributions are sets of numbers, settings
  are records of the right fields.
- `NexusAssumption`, `ReplyPortAssumption`, `WebSocketAssumption`,
  `ByteConduitAssumption`: the same kind of facts. Those of the conduits say that a
  frame is a record of its type and its content, that `Modulus` is more than the
  type bytes, and that the transport holds a word.
- `ChatAssumption`: finitely many clients and posts (announcements are counted), a
  word at least in each list, and `None` is neither a client nor an alias, which are
  values of an `Option` in the code.
- `FfiAssumption`: one call at least, and settings are records of the right fields.
- `FnActorAssumption`: the same as for the conduits, and that an actor is derived from one that was
  there before it: among any actors one has its parent elsewhere. The combinators
  take the `ActorRef` of the parent, so there is no other way to build them.

Each module of proofs goes the same way. It opens with the lemmas on queues it
cites (heads, tails and appended elements, position by position). The definitions
that make an invariant inductive stand at the end of the module they are about
(their last sections), those of `Chat` and `Ffi` at the beginning of their proofs;
TLC checked all of them before they were proved. There is a lemma per
action, named after it (`...Typed`, `...Keeps`), and lemmas for the arguments that
actions share; an invariance theorem puts them together, and the properties
follow from it.

### Portal

- `TypeCorrect == Spec => []TypeOK`. `TypeOK` alone is not inductive: the task
  that transmits a message reads the closure that was given to a proxy, which
  has to exist. The invariant is `TypeOK /\ SendsAreOwned`; `SendsAreOwned` says
  that tasks under way and requests in mailboxes are about messages that were
  sent, and that a running proxy has a running portal and a target.
  `OwnershipCorrect == Spec => []SendsAreOwned` comes from the same induction.
- `NeverAViolation == Spec => []NoProtocolViolation` and
  `OneChannelId == Spec => []ChannelAgreement` follow from
  `HandshakeInv == OneIntroductionFirst /\ ContributionsAgree /\ NoProtocolViolation`.
  `NoProtocolViolation` alone says nothing about what is under way;
  `OneIntroductionFirst` (theorem `IntroductionComesFirst`) adds that: on each
  direction the introduction is unread on the wire before everything else, or
  waits in the mailbox before every content frame, or was handled.
  `ContributionsAgree` says that an introduction under way carries its sender's
  contribution and that an open portal has combined it with its own; agreement is
  then the symmetry of xor.
- `WaitsAreOwned == Spec => []EveryWaitIsOwned` and
  `ShutdownsHaveCause == Spec => []NoSpontaneousShutdown`, from `RequestInv`. The
  first counts places of a port, and cardinalities do not add up in an induction:
  `PortsAreOwnedOnce` says instead, of the mailbox, the open requests and the
  waiting list, that each has the port at most once and only one of them has it,
  and that then its task was not answered yet. `RequestsAreNumbered` says that the
  ids of open requests have been given out, without which a new request might take
  the place of an open one and lose its port. Of serialization tasks,
  `AsksAreUnderWay` says that one that asks has a request in the mailbox
  (`RequestsAreUnderWay`); that there is no second one follows from `OneCopy`, below.
  `EndsHaveCause` says that a receive
  loop that ended and a `Close` that waits have a cause, too.
- `NothingIsTakenBack == Spec => [][Grows]_vars`, an action property: no step
  revives a portal that went down, an actor that ended or a task that gave up,
  gives an id or a message to another actor, or uses a request id again.
- `IdsStandForActors`, `QueriesAreAnswered`, `KnownNamesAreFound`,
  `ProxiesStopWithActor` and `MessagesMeanTheSame` (the properties `IdsAreSound`,
  `AnswersTheQuestion`, `PublishedNamesAreFound`, `ProxyOutlivedByActorOnly`,
  `ReceivedAsSent`) hold by `ReferenceInv`, which says what every id, name and
  reference *under way* means: in the portals' maps (`NamesAreSound`), in mailboxes
  and on wires (`TrafficIsSound`), at the tasks that ask (`AskersAreSound`), at
  proxies and in closures. `MeantIdsStand`, `SentIdsStand` and `MailedIdsStand` draw
  from it what `NoDanglingId` claims of closures and tasks, wires and mailboxes. It
  needs `HandshakeInv` (both sides derive the same key of a remote id),
  `RequestsAreNumbered` (a response that is under way answers the request that its id
  was given to, not a later one) and `Grows` (what was true of an actor when a message
  was sent is true when it comes).
- `MessagesAreNotDoubled == Spec => []OneCopy`: of each message there is at most
  one copy in the tasks, mailboxes, wires and inboxes together. With
  `ReceivedAsSent` it gives `DeliveredOnce == Spec => []DeliveredAsSent`.

### Nexus

`NexusInvariant == Spec => []NexusInv` gives `TypeCorrect`,
`RegistryCorrect` (`RegistryTracksPortals`), `AnswersCorrect`
(`AnswersAreCurrent`) and `ListenerCorrect` (`ListenerHearsOnce`).
`RegistryTracksPortals` is about the registry and the events that wait. It is
inductive only with what the nexus is doing between two awaits: which connection
is being started or stored, that no portal has two events, and that an event may
come before its portal is stored but not before it has started (`Lives`,
`Tracks`). Answers are current because a portal that has started never starts
again, so that what a query expected stays right until it is answered
(`Questions`).

### ReplyPort

`ReplyPortInvariant == Spec => []ReplyPortInv`, with
`ReplyPortInv == TypeOK /\ OneCopy /\ MessagesAreSound /\ CallsAreSound /\ EndsHaveCause`:
a call is one thing in one place of the chain, first its request, then the rebuilt
port, then the answer; what is under way agrees with the states of the actors at
both ends; and an end of a portal has its cause. It gives `TypeCorrect`,
`AnswersAreHarmless` (`PortalsOutliveAnswers`) and the refinement
`ChainIsAPort == Spec => ImplementsOneShot`: a step of the chain is, for each
call, a step of `OneShot` or a stutter.

### Conduits

Both refinements of `Pipe` say what is under way between the two ends, as a walk
through what was sent.

- `ConduitIsTwoPipes == Spec => ImplementsPipes` (`WebSocketConduit`). The messages
  in the inbox, on the wire, in the outbox and in the actor's queue, one after
  another and without the control messages, are the frames from the one after
  those received to the last one sent (`FramesInOrder`). Once the link is broken
  the last of them may be missing (`Flow`). `QueuesAreEwebsocks` says that what
  only ewebsock has is empty otherwise. `TypeCorrect == Spec => []TypeOK` comes
  along.
- `StreamIsAPipe == Spec => ImplementsPipe` (`ByteConduit`). A *place* `<<n, i>>` is
  the i-th word of the n-th frame, `After` the next place. The words in transit are
  those from the place that the source reads next (`ToRead`) on (`UpTo`, `Ahead`), up
  to the place that the sink writes next, unless it stopped or the stream lost its
  end (`WordsInOrder`). This is claimed while the source is on its track (`OnTrack`):
  it yields, and no frame up to the one it reads is longer than a u32 can say. From a longer one on, the words lose their meaning, as they do in the code;
  `SoundIsPrefix` and `YieldsAreSent` bound what may then happen, and the refinement
  is about the part before. `ReadsNext` says that the fields read so far are those of
  the next frame, so a frame that is yielded is that frame (`YieldedIsSent`).
  `TypeCorrect == Spec => []TypeOK` comes along.

### FnActor

- `TypeCorrect == Spec => []TypeOK`, with the capacity of every channel.
- `EndsAreCaused == Spec => []EndsHaveCause`, from `DueInvariant`. An end has its
  cause because what led to it has: a request to stop, an event of a child and the
  kill signal each are about something that happened before (`EndsAreDue`), and
  what has happened stays (an actor that ended does not run again).
- `SentIsReceivedOnce == Spec => []SentOnceInOrder`, from `OnceInvariant`. The
  property counts the places of a message and looks only at what was received.
  The invariant puts what came to an actor into one line: what its function
  received, its channel, what its handler holds, its mailbox. No message is in
  lines twice (`LinesAreDisjoint`), each was let through by those it has passed
  (`LinesAreSound`), and along a way messages from one entry are in the order of the
  sends, also across two actors (`LinesAreInOrder`). Handing on within an actor
  does not change its line, the end of an actor or of its function cuts a piece out of
  it, `map` and `filter` take its first and append it to the parent's. `NoneIsLost`
  says that what was cut out shows on its way. That ways are chains, which lets the
  order pass from one line to the next, follows from `FnActorAssumption`
  (`RouteIsChain`). `Route` is the least set closed under parents, not a recursive
  function, so that this could be proved without induction.

### Chat

`ChatInvariantCorrect == Spec => []ChatInvariant` gives `TypeCorrect`,
`PostsHaveTheirAuthors` (`PostsAreAttributed`) and `NewsReachesEveryone`
(`NewsReachesAll`). Both properties are about what clients are shown, and neither is
inductive:

- that a post carries its author's alias needs that the hub's answer, the client's
  own alias and the chat server's map agree, which are three copies written at three
  moments (`JoiningIsSound`), and that a post in the mailbox names its author's portal
  (`MailIsSound`);
- that it is shown once needs that a post is in one place, the network, the mailbox or
  behind the server, and never goes back (`PostsTakeOneWay`, `ShownIsSound`);
- that nobody else has had the alias needs that the clients in the map have the last
  `Len(joined)` pairs of the generator, in the order in which they joined
  (`JoinedIsSound`), and that `Pair` is one-to-one on the first `WordCount^2` numbers
  (`PairsDiffer`, by division with remainder);
- that an acknowledged post has reached its audience needs the same of one whose
  acknowledgement is under way (`AcksAreSound`), and that its audience were members
  (`AuthorsAreMembers`), as the chat server sends to those in its map;
- how often a client has heard of an alias is an invariant of every client that has
  not left, online or not (`NewsIsCounted`). What is shown is a sum of two bags, so the
  lemmas on counting copies (`CopiesOfSum` and its neighbours) come first.

### Ffi

`FfiInvariantCorrect == Spec => []FfiInvariant` gives `TypeCorrect` and
`WhoeverConnectedIsServed` (`MembersAreServed`), for any number of calls.
`MembersAreServed` is about posts that were acknowledged; it holds because of what
was so before:

- the client is in the server's map from the first answer on, and no call to the hub
  that is still somewhere can take it out again (`MembersStay`); for this the call to
  the hub has to be in one place of its way at most, task, channel, wire or queue, and
  in none once the hub has it (`ConnectIsOnce`);
- what is on its way is about calls that were made, one at a time (`CallsAreSound`);
- a post is on its way to the client before its acknowledgement is (`PostsAreTold`),
  and is lost only with the connection: a broken link, a closed socket of the server
  and a portal that is down each stay that way (`Gone`);
- connection, portal and channel are there in this order (`ConnectionsAreSound`).

Most of the steps are *quiet*: they move frames along a way or end something. One
lemma (`QuietSteps`) shows that a quiet step keeps everything but the types and the
connections, and one for each part of a way (`TaskMoves`, `OutboxMoves`, `WireMoves`,
`InboxMoves` and others) what moving a frame does. The steps that ask, answer and
deliver have proofs of their own.

### Only model-checked

Liveness (every property with `~>`, under fairness) is beyond the prover. So are:

- `ReadAsSent` and `DifferencesAreTold` of `Serialization`, whose layouts recurse
  with RECURSIVE operators;
- the counterexamples of `remote_linking` and `nexus_isolation`, which are
  behaviours.

Every other safety property and refinement that a passing run checks is a theorem.

## Divergences

Where the code does something else than a comment, a test or a document says.

- `remote_linking`: `braindump.md` says that proxies are stopped when the real
  actor exits. An `ActorExited` that comes before the proxy is registered is
  discarded (`portal.rs:642-650`), and the proxy registered a moment later stays.
  `LinkedProxyStops` is the part that holds.
- `nexus_isolation`: `portal_isolation.rs` says that failures of portals are
  isolated. The `?` on the start of a portal (`nexus.rs:113`) ends the nexus, and
  with it every portal linked to it. Failures after the start are isolated
  (`RegistryTracksPortals` goes on).
- Comments in `chat_server.rs:80` and `chat_app/shared/src/lib.rs:72` say that the
  *others* are told of a new connection. `chat_server.rs:82` compares the id of a
  portal with that of a client actor, which never are the same, so the client is
  told of itself: `HandleConnect` does as the code does (`Told`). `NewsReachesAll`
  states what everybody else hears and leaves the newcomer's own join open, so that
  it holds of the code as it is and of the code as documented.

More facts that no property claims the opposite of:

- a client's query for the hub may come before the server has published it, and
  ends the client (`ClientFails`, `HubIsFound` in `Chat`; `NotFound` in `Ffi`,
  where the hub is published after the handshake);
- both sinks of byte streams and both sources have an arm for close frames which the
  two ends of an SSH conduit would not agree on (`unix_socket/server.rs:107`,
  `ssh/client.rs:481`); it is never reached, as nothing sends
  `ConduitMessage::Close` into a sink;
- an entry of the published actors, of the chat servers' clients and of the named
  actors is never removed, so posts go on being sent to clients that left;
- a Kotlin client that gave up its latch shuts its runtime down but leaves a
  socket open that connects later: the runtime refuses it, and nobody closes it;
- a reply through the FFI to a client whose chat server actor was stopped takes
  the port and fails; the client waits until `kill_after` refuses it.

## Not modelled

- Floats apart from their width, generics and attributes of the derive macro,
  `generate_deps`, and the envelope `CrossPortalMessage` (serialized by a library):
  peers are wormhole portals, so envelopes decode.
- Of the FFI: `to_ref`, `is_running`, `is_consumed`, the convenience senders, what
  the server's console broadcasts and prints, further clients of the Kotlin
  server, and what happens when the last handle drops the runtime on one of its
  own workers.
- Accept loops, upgrades, SSH authentication: I/O of the libraries.
- Lengths of 2^32 and more in front of parts of a value, which a reader of 32 bits would
  cut (`default_implementations.rs:372`, `445`; numbers of type `usize` are modelled).
- In `ReplyPort`, targets that end (`portal.rs:633`; `Portal` has them). In `Ffi`, the
  exception in a library's callback when a message comes after `disconnect`: the
  message is dropped, and the socket is being closed already.
- The words of the alias generator (`Chat` has their places).
- HTTP servers, user interfaces, samples.
- `combinators/intermediate`, which is not compiled.
- `PortalActor`'s own supervision handler, which only logs.

## Plan

Everything on the plan is built: the models, and proofs of every invariant and
refinement the runs check except those of `Serialization`. To prove these, its
layouts would have to be written without RECURSIVE operators, and facts about them
would need an induction over types, which is beyond the provers.
