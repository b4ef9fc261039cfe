# AsterFSD in TLA+

AsterFSD is a flight simulation network server: pilots and controllers connect
over TCP in one of three dialects, log in under a callsign, and exchange
positions, flight plans and messages. This directory holds a TLA+ model of its
network core, of the transport and the supervision around it, of the three dialects and the
framing below them, and of start-up; the TLC instances that check it; and TLAPS proofs
about the core, the transport, the supervision, the framing, the dialects and start-up.

## 1. Inventory

| part | source (under `crates/`) | state | operations | what makes it correct |
|---|---|---|---|---|
| network core | `aster_fsd_core/src/network` | `NetworkState`: `sessions`, `callsigns`, behind one `RwLock` | `register`, `disconnect`, `broadcast`, `execute` (identify, login, weather and the commands of an active session) | the two indexes agree; a login that comes back from an await acts on the session it started from; ratings and identities are those of the account; effects go to the right clients, once |
| recipient selection | `network/routing.rs` | none | `active_ids`, `resolve_destination`, ranges | only active clients, symmetric radio range, observers |
| identity | `aster_fsd_model/src/identity.rs` | none | rating scales, `allows_wire_value` | the two scales are never mixed |
| dispatch runtime | `aster_fsd_server/src/runtime.rs` | `connections` (handles), mailboxes | `dispatch`, `run_maintenance` | no silent loss, nobody waits for a slow peer, order |
| connection task | `aster_fsd_server/src/connection` | program counter, writer task, cancellation token | register, handshake, read loop, decode-error policy, writer, teardown | nothing is left behind, whichever way a connection ends |
| listener, server | `listener.rs`, `server.rs` | task sets, shutdown token | `Server::new`, `bind`, accept, serve, shutdown | the shutdown converges; a failing task is noticed; nothing outlives its owner |
| authenticator, weather provider | `aster_fsd_auth`, `aster_fsd_persistence`, `provider` | accounts, whitelist | `authorize_client`, `authenticate`, `lookup` | external answers, awaited without the lock |
| dialects | `aster_fsd_protocol*` | none | `initial_frames`, `decode`, `encode` | what is relayed reads back as what was sent and fits; no password leaves; errors close the right connections |
| codec | `aster_fsd_codec` | read buffer | framing, `RawPacket::parse` and `encode` | frames are the lines of the stream, the limit is exact, memory is bounded |
| start-up | `src/src`, `aster_fsd_migration`, `connect` | configuration, database schema | load, validate, connect, migrate, build, bind | one judge of the configuration; a complete schema or no server; restarts recover |

How the parts interact. A connection task reads a frame, decodes it, and calls
`Network::execute`. The core changes its state under the lock and returns an
`Effects` value: a sequence of deliveries (recipients and an event) and possibly
a request to close one connection. The lock is released, and the same task then
dispatches the effects: for every recipient it clones the handle out of the
connection map, encodes, and `try_send`s into the recipient's bounded mailbox. A
writer task per connection empties the mailbox into the socket. A full mailbox, a
closed one, or an encoding error cancels the token of the recipient, which its
read loop notices. A maintenance task broadcasts wind deltas the same way.

What is hard. The core awaits external services between two critical sections;
several tasks dispatch at the same time, outside the lock; a connection can be
ended by its peer, by a logoff, by a kill, by a slow mailbox, by an idle timeout
or by a shutdown, in any combination; peers may stop reading at any time; mailboxes
and the session table have limits. `PROJECT.json` lists these hazards with the
lines where they bite and the properties that cover them.

## 2. Modules

| module | models |
|---|---|
| `Identity` | the rating scales and what an account may log in with |
| `Routing` | recipients and ranges |
| `Network` | the core; EXTENDS the two above |
| `CallsignRegistry` | abstract specification: connection phases and callsign ownership |
| `NetworkProofs` | theorems about the state of `Network`: types, indexes, identities, refinement of the registry |
| `NetworkDeliveryProofs` | theorems about ranges and about what `Network` sends and to whom; EXTENDS `NetworkProofs` |
| `ProtocolErrors` | error kinds of a backend and which of them close a connection |
| `Server` | dispatch, connection tasks, writers, shutdown; EXTENDS `Network` and `ProtocolErrors` |
| `Supervisor` | who owns which task: main, `serve`, accept loops, connection tasks, writers, maintenance; `Server` implements it |
| `SupervisorProofs` | theorems about `Supervisor` |
| `ServerProofs` | theorems about `Server`: its inductive invariant and its refinement of `Supervisor`; EXTENDS `NetworkProofs` |
| `ServerDeliveryProofs` | the theorem that no event is lost silently; EXTENDS `ServerProofs` |
| `RosterView` | `Server` with a history variable: what each client was last told about each callsign |
| `FrameCodec` | a byte stream cut by reads into bounded frames, and the encoder |
| `FrameCodecProofs` | theorems about `FrameCodec` |
| `Packet` | the tokenizer of the classic family |
| `Dialects` | decoders and encoders of the three backends; EXTENDS `Packet` and `ProtocolErrors` |
| `Relay` | one frame's way through decode, the core's event and the encoder of a recipient; EXTENDS `Dialects` |
| `RelayProofs` | theorems about `Relay` and the dialects |
| `Startup` | configuration, migrations, `Server::new` and `bind`, with crashes and restarts |
| `StartupProofs` | theorems about `Startup` |
| `MCNetwork`, `MCServer`, `MCRosterView`, `MCSupervisor`, `MCRelay`, `MCStartup` | constants for TLC |

### Network

`sessions` and `callsigns` are the two maps of `NetworkState`, as total
functions: an id without an entry maps to `NoSession`, whose phase is `Closed`,
which is what `process_frame` assumes for a missing session. `registered` is the set
of ids that `next_connection_id` has handed out to `register`; ids are never used
twice. One action is one critical section. `identify`, `login` and
`weather_request` are split at their await: the first half puts what the future
holds (operation, connection, command, generation) into `calls[t]`, and the second
half (`identify_authorized`, `identify_unauthorized`, `login_authenticated`,
`login_unauthenticated`, `weather_answered`) takes it out. The port's answer is a
nondeterministic choice: credentials may be wrong, the backend may fail, an enabled
client may be refused because the lookup fails. `effects` is what the call that
ended in the last step returned.

Data is abstracted to what routing and authorisation read: a message is its type,
source and destination; a position keeps its place, altitude, facility type and
visual range, and whether the rest is well formed; coordinates are abstract places
with a symmetric distance table in nautical miles, rounded up. Ranges in the code
are whole numbers, so comparing the rounded distance is exact. The radio horizon
`trunc(10 + 1.414 sqrt h)` is computed in integers.

### Server

`stage[c]` is where the task of connection `c` stands: `new`, `accepted`,
`refused`, `handshake`, `select` (the `select!` of the read loop), `execute` (inside
an await of the core), `dispatch`, `leave`, `removed`, `join`, `done`. `handles` is the
domain of `Runtime::connections`; `mailbox`, `writer` and `cancelled` are the
channel, the writer task and the token of each connection; `pending[d]` is the rest
of the effects that task `d` is dispatching, with the handle it currently holds.
Recipients are visited in any order (the code iterates a hash map). An
idle timeout, an end of stream and a framing error are the one step `peer_gone`: it
may happen whenever the read loop waits.

What an event looks like on the wire is the constant operator `Encoded`: the
transport runs give all events the same frames, `RosterView` `RosterView` tells roster events
apart, and the dispatch run a removal from everything else. `Unencodable` are the frames that may
fail to encode. the frames that may fail to encode.

### CallsignRegistry

A connection id goes from Unused to Connected (or straight to Closed when the
server is full), perhaps Identified, perhaps Active, and Closed, never back; a callsign is
claimed when its connection becomes active and given up when that connection closes.
`Network` implements it with `phase <- sessions[c].phase` (Unused before
registration) and `owner <- callsigns`.

### Supervisor

The states of the accept loops, connection tasks, writers and the maintenance task, of `serve` and
of `main`. `serve` owns the accept loops and each accept loop its connection tasks
through a `JoinSet`; dropping one (an early return, a panic, an abort) puts the tasks that
still run into `aborting`, and each stops at its next await, wherever it is. An aborted accept loop
is an error to the first select of `serve` and none while it drains the others (`EndedWell`). Writers and
the maintenance task are spawned on their own and run on detached. Any accept may fail and
any task may panic. `accept` may take a connection until the loop leaves its `select!`.

`Server` implements this module (`SupervisionSpec`): its stages map to a running task, its
writer to a running writer, its sessions to `held`. `Server` has no failing accept and
never reaches the joins, so the mapping covers the life of the connections and the two levels
agree on what a connection task gives back before it ends.

### FrameCodec

`decode` is one call of the decoder on a buffer; `next` is what tokio's `Framed` does with its
answer, at the end of the stream too. `read(n)` hands over any number of the bytes that are
on the way, so every split of every stream is explored. The writing side is either the
encoder of this codec or a foreign peer that sends any bytes. The reference
definition is `Lines`: the maximal runs of payload bytes that a delimiter has ended.

### Packet, Dialects and Relay

A string is the sequence of its colon-free segments, so splitting at colons and joining
again is what it is in the code, and a payload that contains a colon really becomes two
segments. A segment is a model value with a size; a
conversion (`i32`, `f64`, the squawk, the first character, upper case) is a partial
function on segments: its domain is what the parser accepts, its value what the printer
writes. A coordinate has two: `Decimal` is the exact `f64` that the decoder keeps and
`Position::validate` looks at, `Rounded` the five digits that the classic encoder prints. Decoders
list their checks in the order of the code, and the first fault is the error returned.
`decode_packet` and `classic_packets` are the dispatch tables of the two directions. An Aster frame
is the object it carries; serde's text is external.

`IsFrame` has every prefix that `RawPacketKind` knows, and the unknown one.
`Relay` takes a frame through `process_frame`: decoded in the sender's dialect and phase,
turned into one of the events the core may make of it, and encoded for a recipient of any
dialect the event may reach. Which recipients and how dispatches interleave are left to
`Network` and `Server`, which in turn do not look into frames.

### Startup

`step` is how far `main` is; `schema` is durable, `work` is the schema as a migration under way
sees it, and `todo` the statements left. `database` is the configured
backend: sea-orm-migration opens a transaction on PostgreSQL only (`Transactional`), where a
migration and its record become durable together; on SQLite, the default, each statement
becomes durable by itself. Faults (a file that cannot
be read, a failing connection, a bind that fails, a crash at any step) are bounded by
`MaxFaults`.

## 3. Runs

| run | instance | shows |
|---|---|---|
| `core` | 3 connections, 2 slots, 2 callsigns, 2 concurrent callers, Classic and VATSIM, a controller and a pilot 60 nm apart | two callers may be suspended at once, so logins race for a callsign and overlap with identify, kill and disconnect of the same connection (identify and login of one connection overlap only for a direct caller of `Network`: the server awaits a connection's commands one after the other); the third connection meets a full server and a slot that is freed; positions, a plan, every kind of destination, queries, weather and kills in between |
| `dispatch` | 2 connections, mailboxes of one slot, removals that may fail to encode | dispatches of both tasks interleave with writers, cancellations, failing encoders, teardown and shutdown |
| `admission` | 2 connections, 1 slot, Classic and VATSIM | refusal and failed handshakes; every step is one the `Supervisor` allows |
| `stalled_peer` | 1 connection and maintenance, 2 slots, Classic and VATSIM, encoding and decode errors | liveness when the peer may never read, and what more holds when socket writes end |
| `supervision` | 2 accept loops, 1 connection each | failing accepts, panics, stuck tasks and aborts in every combination: safety and liveness |
| `frames` | every stream of at most 5 bytes over 2 payload bytes, CR and LF, limit 2; encoded frames of up to 3 bytes in a stream of at most 7 | framing, limit, round trip, arrival of every finished line |
| `relay` | about two dozen frames, of every prefix, with every field varied over the substitutes of `MCRelay`, coordinates beyond five digits and just outside the globe, boundary frames, every Aster message | relaying between all dialects |
| `startup` | 34 configurations, each one value away from a sound one, 3 faults, PostgreSQL and SQLite | validation, start-up, recovery |
| `kill_rating`, `stuck_shutdown`, `roster_order`, `observer_view` | see section 5 | disagreements with the documentation |

Bounds. Every set is finite and named in its `.cfg`. Two callers and three
connections are the smallest instance in which two suspended logins race for
a callsign while a third connection takes the place of one of them; every property of routing and stored state
is about one client or two, so two active ones suffice; two connections are the smallest
in which two dispatches meet in a mailbox. A mailbox of one slot makes full mailboxes
frequent. `WindTicks = FALSE` keeps the maintenance task quiet in the two-connection
runs, where it would only be a third dispatcher. Generations are bounded by the
code itself (at most 2). Two accept loops with a connection each are the smallest instance in which
one fails while another is drained and its connection is stuck. With a limit of two payload bytes, streams of
five bytes hold a frame of the limit, one beyond it, and a pair of delimiters on both sides of a read. Frames in `relay` have
real sizes in bytes: a message that makes a frame of exactly 511 bytes, and one of 800. Three
faults are one more than the two migrations, so that a restart can fail again. Connections, and in the transport runs callsigns, are symmetric in the safety runs, which
check no liveness; no symmetry is used under fairness.

Fairness (`Server!Fairness`). The runtime polls every woken task: weak fairness for each
task's own steps. The authenticator answers: weak fairness of `command_returned`.
`select!` picks at random among ready branches, so a cancelled token cannot
be passed over for ever although frames keep arriving: strong fairness of
`token_cancelled`, `stop_listening` and `maintenance_stops`. Nothing is assumed of
peers: `writer_sent`, `writer_failed`, a handshake with frames, frames from
the peer and `peer_gone` may never happen. `ConvergesWhenPeersRead` and
`CloseTakesEffect` speak of the behaviours that satisfy `PeersRead`: every socket write ends, well
or badly. `Supervisor!Fairness` is the same for its tasks, and an aborted
task is dropped at its next await; connection tasks may be stuck for ever, and `main` may take as
long as it likes to return, so nothing rests on the end of the process. `FrameCodec`: a readable
socket is read and a filled buffer is decoded. `Startup`: `main` takes its next step, and
an operator starts a service that has exited again.

Notable results that hold:

* A callsign is announced as removed exactly once, to exactly the remaining active
  clients, whichever of logoff, kill and teardown comes first (`RosterExact`).
* A weather answer that arrives after its session was closed reaches nobody
  who has not logged in (`UnauthenticatedSilent`): ids are not reused.
* A full mailbox cancels its owner and nobody else, and no client lives on with a gap
  (`NoSilentGap`, `OnlyTheSlowIsCancelled`), even between the registration of
  a session and the publication of its handle, because only active sessions are
  recipients.
* However reads cut a stream, the frames are its lines and a refused frame is one that
  is longer than the limit (`FramesAreLines`, `LimitIsExact`); a frame of the limit is accepted even
  when its delimiter arrives later.
* What a peer of the classic family receives reads back as the command the server acted on, for every
  routed command, position and flight plan (`RelayReadsBack`). A coordinate comes back as the five
  digits that were printed (`Reread`): the core keeps and checks the exact value, the encoder rounds it. A classic
  frame always fits the classic limit of 511 bytes when it is relayed (`ClassicRelayFits`); a listener
  that is configured with a smaller `max_frame_bytes` has that limit in its writer too, which is not
  part of the property, and a longer frame ends the connection it is for. Two exceptions are left out of that property by name: a ping or a pong
  without payload gains a colon, and a flight plan is addressed anew. A native message
  with a line delimiter in it can be encoded for native recipients only; the others are cancelled.
* What `Config::validate` accepts is refused neither by `Server::new`, by the codec nor for want of a
  backend (`ValidatedIsAccepted`).
* After an error of a listener nothing is joined, and yet everything stops: aborts travel down the
  task sets and `main` cancels the token (`ErrorStopsEverything`).
* A stalled peer delays no dispatch, and its session and callsign are released
  (`DispatchFinishes`, `CancelledIsReleased`, `ShutdownReleases`), although its writer and
  its task may never end. A VATSIM peer that does not read its handshake is the exception that
  `ShutdownReleases` names: the session is registered before that write, which watches no token.
* The service comes up again after any crash or failed start, as long as its configuration is
  valid (`RestartsRecover`); the one way out that the property names is the half-applied
  migration of section 5, on a database without transactions.

## 4. Proofs

A run checks a property on one small instance; the theorems below state it for every choice
of the constants that satisfies the named assumptions of the modules. Those are: finite
connection ids, tables and inputs of the right type, a symmetric distance, a `None` that
is no member of the sets it is added to (`NoneAssumption`, `PendingAssumption`), mailboxes of at least one slot (`Server::new`
refuses zero), accept loops and connections that are different tasks, configurations whose
listeners have the fields and integer widths of `ListenerConfig`, and the facts about texts that the
subsection on the dialects lists. No assumption bounds the number of connections, callsigns, commands,
loops, faults, texts, fields or frames.

| theorem | states | module |
|---|---|---|
| `TypeCorrect` | `Spec => []TypeOK` | `NetworkProofs` |
| `SessionShapeHolds` | `Spec => []SessionShape` | |
| `IndexesAgree` | `Spec => []CallsignIndexExact` | |
| `VatsimIdentityHolds` | `Spec => []VatsimIdentityMatches` | |
| `RatingsHold` | `Spec => []RatingAuthorized` | |
| `StateIsOwnHolds` | `Spec => []StateIsOwn` | |
| `ImplementsRegistry` | `Spec => RegistrySpec` (refinement) | |
| `HorizonIsTotal` | the truncated root in `Horizon` exists for every altitude | `NetworkDeliveryProofs` |
| `CapacityHolds` | `Spec => []WithinCapacity` | |
| `CallsHold` | `Spec => []CallsNeverOutrun` | |
| `RadioHolds` | `Spec => []RadioIsMutual` | |
| `SilenceHolds` | `Spec => []UnauthenticatedSilent` | |
| `RosterHolds` | `Spec => RosterExact` (action property) | |
| `OwnershipHolds` | `Spec => []Owned` | `SupervisorProofs` |
| `SupervisorTypeCorrect` | `Spec => []TypeOK` | |
| `CleanReturn` | `Spec => []OkMeansEnded` | |
| `ServerInvHolds` | `ServerSafety => []ServerInv` | `ServerProofs` |
| `ServerTypeCorrect` | `ServerSafety => []ServerTypeOK` | |
| `NothingLeftBehind` | `ServerSafety => []NoOrphan` | |
| `CancelsOnlyTheSlow` | `ServerSafety => OnlyTheSlowIsCancelled` (action property) | |
| `ImplementsSupervisor` | `ServerSafety => SupervisionSpec` (refinement) | |
| `NoGap` | `ServerSafety => NoSilentGap` (action property) | `ServerDeliveryProofs` |
| `FrameInvHolds` | `Spec => [](FrameInv /\ SentInv)` | `FrameCodecProofs` |
| `FramesHold` | `Spec => []FramesAreLines` | |
| `LimitHolds` | `Spec => []LimitIsExact` | |
| `BufferHolds` | `Spec => []BufferBounded` | |
| `RoundTripHolds` | `Spec => []RoundTrip` | |
| `RelayInvariant` | `Spec => []RelayInv` | `RelayProofs` |
| `LoginErrors` | `Spec => []LoginErrorPolicy` | |
| `EnvelopesRoundTrip` | `Spec => []EnvelopeRoundTrip` | |
| `PasswordsStay` | `Spec => []NoPasswordOnWire` | |
| `RelaysReadBack` | `Spec => []RelayReadsBack` | |
| `ClassicRelaysFit` | `Spec => []ClassicRelayFits` | |
| `StartupHolds` | `Spec => []StartupSound` | `StartupProofs` |
| `ValidationSuffices` | `Spec => []ValidatedIsAccepted` | |
| `ServingIsComplete` | `Spec => []ServesComplete` | |

### The core

Types come first, with one lemma per group of actions. Then
`StepIsChange` shows that every step, whatever command is behind it, changes
`sessions`, `callsigns` and `registered` in one of six ways (a connection is opened,
removed, identified or activated, a position is stored, a plan is filed) or not at
all; an activation carries the verdicts under which it happened. Each invariant is
then proved once per kind of change. `CallsignIndexExact` is not inductive
alone: that removing a session frees the right index entry and that an activation
overwrites no presence needs `SessionShape` (presence exactly in the Active phase, nothing
in an unregistered id), and both need `TypeOK`. The later invariants are inductive
relative to those three. `ImplementsRegistry` maps each kind of change to a step
of the registry or to a stutter; that removal frees exactly the callsigns owned by the
connection is where `CallsignIndexExact` is used.

Capacity counts the open sessions: a change opens at most one, and `register` has compared the
count with the limit under the same lock. `CallsNeverOutrun` relates the token of a
suspended call to the generation of its session, which only grows; it needs that ids are not
reused. Mutual radio contact rests on the symmetry of the distance and of the larger of two ranges
(`MessageRangeSymmetric`), and on every range being a number, for which `Horizon` must be total: the
least number whose square exceeds a bound exists.

What is sent. `StepDelivers` does for `effects` what `StepIsChange` does for the state: every step is an
answer whose deliveries are errors or go to active clients, a removal, a welcome, or a kill
(`Delivered`). Effects are sequences built by concatenation, and each builder is shown to stay in `Seq(S)`
for the set `S` of deliveries that its property allows. `UnauthenticatedSilent` is not
inductive: a weather answer comes back after an await. The strengthening `WeatherAsked` says that
the session behind a suspended weather request is active or closed. `RosterExact` compares each
kind of delivery with the callsigns that the step releases and claims.

### Supervision

`Owned` is the inductive invariant. A clean return of `serve` promises that everything has
ended, which no single step sees: `JoinedEnded` says what a finished join has established,
`OkLoopsAreEmpty` that a loop that returned well has drained its tasks, `EndedHoldNothing` that
an ended task has given back its session and writer, `AbortsFollowDrops` that tasks are
aborted only below an owner that dropped its set (so a clean loop has lost none of them that
way), `LoopsUndisturbed` that no loop is aborted while `serve` has not failed, and `ServeReturned`
that `Ok` comes only after all joins and `main` leaves only after `serve`.

### The transport

`ServerInv` is the conjunction of `ServerTypeOK`, `HeldHasFrames`, the two
invariants of the core and `Discipline`. `Discipline` says what each stage of a connection task
holds: a session only between registration and removal, a suspended call only while it executes, a
handle exactly while it serves, a writer only once it is spawned and none that runs when it
is done, and something to dispatch whenever it dispatches. `NoOrphan` is what it says of the stage `done`.
The steps of the core are not
opened again: `Server` takes them whole, and the lemmas of `NetworkProofs` about
`Change` carry over. Without `SessionShape` the removal of a session could not be shown to leave nothing,
and without `HeldHasFrames` the type of a mailbox is not inductive, since `try_send` is split from the
encoding before it.

`ImplementsSupervisor` maps stages to running tasks, writers to running writers and sessions to
`held`. Every action of `Server` is shown to be a step of the supervisor or a stutter, one step per action;
`LiveLoses` and `SupervisedStep` carry the two facts that need `ServerInv`, that no step of the core
but a registration adds a session, and that a task which ends holds nothing.

`NoSilentGap` counts what a task still owes a connection. A count falls with every delivery
that is taken off, so the proof must show that the recipient got it or is on its way out. A recipient without
a handle is the hard case: it may have left, and that is allowed, or it may not have published its handle
yet, and that would be a gap. `DeliveryInv` excludes the second: whoever is addressed has started reading
(`Addressed`), because nobody is active before that (`Fresh`) and an answer goes to the connection
that asked (`OwnCall`). The counts themselves are compared by a bijection between the deliveries before
and after the step.

### The codec

The reference `Runs` numbers the starts of runs by rank and takes each up to its end. That this defines
the k-th run at all is `CountedOff`: the rank is an injection of the starts into as many
numbers, hence onto them. The argument about the decoder then needs four facts about a `Boundary`, a position no run
crosses: the runs before it are the first runs of the whole (`RunsPrefix`), delimiters after it add none (`RunsSame`), payload
after it is the next run (`RunsNext`), a line with its delimiters adds exactly one (`RunsAppend`). `DecodeIs` says
what one call of `decode` returns in those terms, and `FrameInv` that the buffer always starts at a boundary and that the
frames are the runs before it; a reader that has failed keeps the reason instead (`Refused`). `SentInv` says the same of
the writing end: the runs of its stream are its non-empty frames. `RoundTrip` needs both, and that a run cut by a read
is no longer than the whole one (`RunsGrow`).

No induction scheme is used. Where a least position, an end of a run or a recursive function (`NonEmpty`) must be shown to exist, the
argument is by the least counterexample (`LeastNumber`, from the well-foundedness of `<`).

### The dialects

What is assumed of texts is what the conversions of the code do, and TLC evaluates it on the instance. `PacketAssumption`
and `DialectsAssumption`: sizes are natural numbers, a conversion applied to its own result changes nothing, upper case keeps
the length and adds no delimiter, every number that parses can be printed, a callsign has 2 to 12 bytes and is one in upper case too, a printed integer has at
most 11 bytes. `RelayAssumption`: a frame has been cut by the framing and so holds no delimiter, an Aster frame has the fields of its
type, a valid latitude is a valid longitude, and a valid coordinate is rounded to at most 10 bytes. `ServerTextAssumption`: the fixed texts of the server are short.
`SecretsAssumption`: a password is no other text, so that its appearance anywhere else would mean that it leaked; it
stands in no other field of the frame that carries it, and no conversion makes it of something else.

`RelayInv` follows the content of a frame through the stages. `ValidCommand` holds of whatever a decoder accepts:
only a login holds a secret, and only as its password. `ValidEvent` holds of whatever the core makes of it: no secret is
left. `Origin` ties a relayed event to its command: it is the command, the plan on its way to the controllers, the server's
answer to a ping, or what a VATSIM client is told at its login. A plan on file outlives the frame that brought it, so the
invariant speaks of `plans` as well.

* `LoginErrorPolicy` needs no more than that the result is what `decode` returned. The list of checks of a decoder is a
  sequence of faults; `CheckedFirst` says that the first one is returned, and `LoginFaults` goes through the list of
  `decode_login` in order.
* `EnvelopeRoundTrip` is about `parse` and `assemble`, which are inverse on frames (`FrameRoundTrip`) and on
  well-formed packets (`AssembledParses`); every encoder is shown to make well-formed packets of public
  segments. `$DI` is the case that the other commands do not cover: both directions exchange its names.
* `NoPasswordOnWire` follows from `ValidEvent`: the segments of a written frame are those of the packet, and those are the event's.
* `RelayReadsBack`: each pair of a decoder and an encoder is shown to be a fixed point after one pass. Names are in upper case,
  numbers are as they are printed, an absent payload has become an empty one, and decoding what is written changes nothing more.
  A position is the exception: what is written has rounded coordinates, and decodes to the command with these in their place.
* `ClassicRelayFits` counts bytes. `Kept` says that a relayed message has the segments that came, some of them in upper case, so
  the two frames are equally long (`SameBytes`; in a pong of the server, the destination has become the head). What is
  not a copy is short: a position has at most nine printed segments (`PlacedFits`), the profile of a login three (`ProfileFits`).

`FlattenSeq` and `frame_bytes` are recursive functions. That the function of such a definition exists and is unique is proved for each by the
least counterexample (`FlattenDef`, `BytesCounted`).

### Start-up

`StartupSound` has three parts. `ConfigSound`: beyond validation the configuration is valid, and no
failure was ever caused by `Server::new` or a missing backend. `MigrationsSound`: what is on
record is in the schema, durable or under way, and nothing is pending once `connect` has
returned; a crash between two statements keeps it because the record is written last. `ListenersSound`: a
serving process has bound them all. `ServesComplete` and `ValidatedIsAccepted` follow; that a valid
configuration has no address twice comes from the order-free form of the duplicate check.

### Only model-checked

* All liveness, since fairness and `ENABLED` are beyond the prover: `DispatchFinishes`, `CancelledIsReleased`,
  `ShutdownReleases`, `ConvergesWhenPeersRead`, `CloseTakesEffect`, `ListenerFailureSurfaces`,
  `ErrorStopsEverything`, `RestartsRecover`, `LinesArrive`.
* That the assumptions about conversions hold of the tables in `MCRelay`. That they hold of Rust's
  parsing and printing is read from the code.
* The disagreements of section 5 that have a run, which are counterexamples.


## 5. Disagreements with the documentation

* `kill_rating`: `handle_kill` compares a rating with 11 without looking at the client
  type, so a pilot whose licence has wire value 15 or more may remove clients. The
  project contract forbids comparing the two scales on one integer range.
* `stuck_shutdown`: the writer does not watch the token while it sends, and the
  task waits for the writer. One peer that does not read keeps `serve` from
  returning.
* `roster_order`: effects are dispatched outside the core's lock. A supervisor who kills
  a client right after its login can receive the removal before the addition
  and keeps a client in view that is gone.
* `observer_view`: neither position kind matches the client type of an observer, so it never has a
  position, and without one it is in no range. The architecture overview (`index.md:72-79`)
  counts an Aster observer among those who see a pilot's position, and `routing.rs` gives observers ranges.

The following were met while modelling. They follow from the definitions of the modules named;
no run is spent on them.

* A refused login keeps its session until the transport has closed the connection, and `Close` waits
  in the mailbox behind the reply. A login that follows in the stream activates the session and claims
  a callsign (`Server`). `index.md:68` says that closing after a failure is enforced by `Network`. The connection is closed
  all the same (`CloseTakesEffect`).
* `serve` documents an error when the maintenance task ends unexpectedly (`server.rs:41`) and looks at it
  only after a shutdown, when all accept loops have been joined (`Supervisor`).
* After a listener has failed, `serve` returns while other tasks still run (`Supervisor`);
  `project-contract.md:100` says that every spawned task is held and observed by a supervisor. They do
  end (`ErrorStopsEverything`).
* All VATSIM events but presence are encoded with the classic limit of 511 bytes (`Dialects`,
  `vatsim_encode`), while a VATSIM listener accepts 4096 and `protocol-backends.md:51-60` gives the backend a
  larger limit of its own. A longer message disconnects the client it is for.
* A native client may address a response to everybody (`aster_decode`), which
  `project-contract.md:69` makes direct only; the classic decoder refuses what classic clients then receive.
* A refused position is answered with the reason (`Relay`, `accepted_events`), where `protocol-backends.md:45`
  promises the bare error 004.
* On SQLite a crash between the insert of the default clients and the record of the migration leaves a
  database with which no later start succeeds (`Startup`, `HalfMigrated`); `connect` (persistence
  `lib.rs:76`) says that it applies all pending migrations.
* Validation bounds neither the product message nor the motd lines; one that is too long
  for a classic frame, or a motd line with a delimiter, cannot be encoded, and every client that logs in is disconnected.
* The Aster dialect has no Pong and no no-op, although `project-contract.md:90` maps its commands and
  events one-to-one to the core model.
* `RawPacket` is called lossless, but a pilot position in the compact form is written again with
  a colon (`EnvelopeRoundTrip` names the exception).

## 6. Not modelled

JSON and TOML text, the haversine formula, Argon2, SQL, logging: library calls or I/O, with no
control that the properties depend on. `create_user` and the down migrations are never called by
the server. `AtcRating::try_from` and `PilotRating::try_from` are used by tests only. A frame
limit of zero, which makes `handle_connection` return before it registers, is excluded by the
configuration (`ValidatedIsAccepted`). `Relay` follows one recipient of one event; order and loss
are `Server`'s. The idle timer is a nondeterministic step without time.

## 7. Plan

The core, its refinement and proofs came first, then the transport, the supervision above
it, the frames and dialects below it, and start-up; then the proofs of every safety property that the runs
check, those of `Relay` last. What is left is out of the prover's reach: the liveness properties, which the runs
check, and the text formats that section 6 leaves out.
