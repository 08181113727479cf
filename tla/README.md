# TLA+ verification of nomos-node components

This directory holds TLA+ models of the repository's code, the TLC
configurations that check them on small instances, and TLAPS proofs. The
core of the system is the per-connection handler of the mix protocol,
`src/nomos-mix/network/src/handler.rs`. It carries cover traffic: one frame
per cadence interval, with noise filling the slots where no real payload is
queued. Around it are modelled:

* the network and mempool services of a node and the HTTP handlers that
  call them (`NodeServices`);
* the node's start-up: config file, argument overrides, CORS layer
  (`NodeConfig`);
* the DA sampling service's storage adapter (`DaStorage`).

## 1. Inventory

### Components

| Component | Source | State it keeps | Operations |
|---|---|---|---|
| Mix link handler | `nomos-mix/network/src/handler.rs` | `inbound_substream` (recv future or none); `outbound_substream` (None / PendingOpenSubstream / Idle(stream) / PendingSend(future)); `timer`, `interval`; `queue`; `pending_events_to_behaviour`; `waker` | `poll`, `on_behaviour_event`, `on_connection_event`, `send_msg`, `recv_msg` |
| Cover-traffic queue and frame codec | `NonMixQueue`, `NOISE`, `is_noise` (not under `src/`) | a FIFO of payloads | `push`, `pop` (noise when empty), `is_noise` |
| Cadence scheduler | `handler.rs:50-57,143-150` over `futures_timer::Delay` | a deadline | fire, reset |
| Network service | `nomos-services/network/src/lib.rs`, `backends/libp2p/command.rs` | the backend | run loop: relay messages (`Process`, `Subscribe`) and lifecycle (`Kill`, `Shutdown`) |
| Mempool service | `nomos-services/mempool/src/lib.rs` | the pool | run loop: `AddTx`, `View`, `Prune`, `MarkInBlock`, transactions from the network |
| DA sampling storage adapter | `.../sampling/src/storage/adapters/rocksdb.rs`, `kzgrs-backend/src/common/blob.rs` | none (a relay) | `get_blob`, `create_blob_idx` |
| Node binary, config, HTTP API | `nodes/nomos-node/src/{main,config,api}.rs` | the `Config` being built | `main`, `Config::update_*`, `AxumBackend::serve`, the HTTP handlers |
| cfgsync client, bundler utils, test executor | `testnet/cfgsync`, `nomos-bundler`, `tests` | none | HTTP and file I/O, cargo metadata, a test harness |

### How the handler interacts with its environment

libp2p's swarm owns one handler per connection and drives it from a single
task. It calls `poll` whenever a future the handler waits on wakes it.
`on_connection_event` delivers negotiated inbound and outbound substreams
and dial upgrade errors. `on_behaviour_event` delivers payloads to send.
`poll` returns at most one thing per call: a buffered event, a received
`Message`, an `IOError`, or a request for an outbound substream. Otherwise
it returns `Pending`. Concurrently with the handler: the peer writes frames,
the network completes or fails writes and reads, the swarm answers substream
requests (with a substream or an upgrade error), and time passes.

### What is hard

* **Ordering of events to the behaviour.** Some events are buffered and some
  are returned directly. The buffer is drained first (`handler.rs:107`).
* **Failures in the middle of a step.** A payload is popped before its write,
  and a failed write loses it (`145`, `165-170`). A read error drops the
  inbound substream (`124-127`). A dial upgrade error leaves the outbound
  side waiting (`225-245`).
* **Timing.** The timer runs while no substream is open and is reset only
  after a pop (`150`). The interval comes from a truncating float cast
  (`50-51`).
* **Replacement.** A new inbound substream replaces the current one and drops
  the frames not yet read on it (`214`). `FullyNegotiatedOutbound` overwrites
  the outbound state whatever it is (`221`).

### What makes each component correct

* Handler, outbound: payloads are written in push order, each at most once,
  and are lost only by a failed write. At most one substream request is
  outstanding. Frames are at least one interval apart and keep flowing.
* Handler, inbound: noise never reaches the behaviour, and messages arrive in
  the order the peer sent them.
* Handler and behaviour together: once the event buffer is drained, the
  behaviour's view of the outbound link (up after `FullyNegotiatedOutbound`,
  down after `NegotiationFailed` or `IOError`) matches the handler's state.
* After any outbound failure the handler requests a new substream (the spec,
  sections 7 and 8).

`PROJECT.json` lists the hazards one by one, each at its line.

## 2. Plan

1. **`MixConnectionHandler`** (done): the handler and its environment. See
   section 3.
2. **`MixConnectionHandlerProofs`** (done): type correctness,
   `SingleSubstreamRequest`, `OutboundFIFO`, `LinkViewConsistent`,
   `CadenceSpacing` and `InboundFiltering` are proved. See section 4.
3. **`MixCadence`**: the interval conversion of `handler.rs:50-51` as a pure
   operator over rates given as rationals, checked against a reference
   definition. It shows where the interval is 0 and where it saturates.
4. **`MixLink`**: two handlers composed over a pair of wires, A's outbound
   feeding B's inbound. Properties: end-to-end FIFO and noise filtering, plus
   a run with the NOISE collision (a real payload equal to the sentinel).
5. **`MixLinkAbstract`**: an abstract spec of a link as "every cadence slot
   carries one frame; real payloads leave in FIFO order", refined by the
   handler.
6. **`NodeServices`** (done): the `tokio::select!` run loops of the network
   and mempool services, with relay and lifecycle messages and the
   all-branches-disabled panic of `select!`. See section 5.
7. **`NodeConfig`** (done): start-up and the CORS layer. See section 6.
8. **`DaStorage`** and **`DaStorageProofs`** (done): `get_blob`'s
   check-then-load sequence and `create_blob_idx`. Both safety properties
   are proved. See section 7.

Every safety property of the handler's passing runs is proved; its
liveness properties stay with TLC (section 4).

## 3. The handler model (`MixConnectionHandler.tla`)

**State.**

| Variable | Code |
|---|---|
| `inbound` | `inbound_substream` |
| `inWire` | frames the peer has written on it and the handler has not read |
| `inErr` | that substream has failed |
| `outbound` | `outbound_substream` |
| `sending`, `writeRes` | the frame and the outcome of the `PendingSend` future |
| `elapsed` | the `Delay` timer: ticks since its last reset, capped at `Interval` |
| `queue` | the `NonMixQueue` |
| `pending` | `pending_events_to_behaviour` |
| `swarmReqs` | substream requests the swarm has not answered yet |

Observation variables:

* `sent`: payloads written, in order.
* `lost`: payloads whose write failed.
* `delivered`: `Message` payloads the behaviour received.
* `linkUp`: the behaviour's view of the outbound link.
* `sincePop`: time since the last pop.

A frame is `Noise` (0) or a real payload. Payloads are numbered in the order
they are produced, so order and duplication can be read off the logs.

**Actions.** Each call of the code is one atomic action: the handler runs on
one task with `&mut self`.

* `Poll` is the whole of `poll`, as three disjuncts:
  * `PollPendingEvent` (106-109);
  * `PollInboundMessage` (113-122);
  * `PollOutbound`: the inbound side without an event (`InboundNoEvent`),
    then the outbound loop (`OutboundLoop`: `RequestSubstream`, `SendNext`,
    `IdleWait`, `SendFailed`, and the branches that return `Pending`).
  A completed write goes back to `Idle` and, in the same call, pops again
  when the timer has fired.
* `OnBehaviourMessage` (191-197).
* `OnFullyNegotiatedInbound` (209-215).
* `OnFullyNegotiatedOutbound` (216-224).
* `OnDialUpgradeError(e)` (225-245). `Apply` is `unreachable!()`, so it is not
  among the kinds the swarm reports.
* Environment: `PeerWrite`, `InboundFault`, `WriteComplete` (the
  `send_msg`/`recv_msg` futures) and `Tick` (the timer).

The waker is not a variable. It only makes the swarm poll again, which the
fairness of `Poll` stands for.

**Bounds** (`MC_MixConnectionHandler.tla`):

| Constant | Value | Why |
|---|---|---|
| `Interval` | 2 | a second poll can come inside one interval, so an early pop is reachable |
| `MaxPayload` | 3 | one payload can be lost between two that are sent |
| `MaxPeerFrames` | 2 | |
| `WireCap` | 2 | |
| `MaxFaults` | 2 | one read fault and one write fault, or two of either |
| `DialErrors` | all three kinds (safety), none (liveness) | |

Noise frames from the peer are unbounded; the wire capacity keeps the state
space finite.

### Runs

| Run | Result | What it shows |
|---|---|---|
| `handler_safety` | passes, 79k distinct states | `TypeOK`; `OutboundFIFO`: written, in-flight and queued payloads are in push order, and each enqueued payload is in exactly one of them or lost; `InboundFiltering`; `LinkViewConsistent`; `SingleSubstreamRequest`; `CadenceSpacing`: a pop happens at least `Interval` ticks after the previous one |
| `handler_liveness` | passes | `FairSpec` without dial errors: `EmitsForever` (pops recur for ever) and `EnqueuedEventuallySent` |
| `handler_dial_failure` | violation, as expected | `PendingOpenHasRequest`; see the finding below |

Each property of a passing run has a mutant in `PROJECT.json`: a variant of
a mapped definition, written the way a plausible bug would change it, that
TLC rejects.

**Fairness.** `FairSpec` assumes four things:

* weak fairness of `Poll`: the swarm polls whenever polling would change
  something. The futures and the timer register the waker, and
  `on_connection_event` calls `try_wake`.
* weak fairness of the swarm answering a substream request;
* weak fairness of writes completing;
* weak fairness of `Tick`: time passes.

Peer writes and faults are not fair. Nothing forces them to happen.

### Finding

After a `DialUpgradeError` (negotiation failure, I/O error or timeout), the
handler buffers the event but leaves `outbound_substream` in
`PendingOpenSubstream`. After that, `poll` returns `Pending` at 137-140 for
ever. It never requests a new substream and never sends another frame on the
connection. The spec (sections 7 and 8) says a new substream is requested on
the next cycle. TLC finds the trace in 3 steps: request, then dial error. The
behaviour, which is not under `src/`, may close the connection on
`NegotiationFailed`. The handler itself does not recover.

## 4. Proofs (`MixConnectionHandlerProofs.tla`)

The theorems hold for every value of the constants that satisfies
`ConstantsAssumption`.

* **`TypeCorrect`**: `Spec => []TypeOK`.
  * `TypeInit` proves the initial case.
  * `TypeStep` proves the step case, from `PollType` (one case per disjunct
    of `poll`) and `EnvironmentType` (one case per environment action).
  * These rest on the helper lemmas `DeliverType` and `QueuePopType`.
* **`SingleRequestTheorem`**: `Spec => []SingleSubstreamRequest`.
  * The inductive invariant is `TypeOK /\ SingleSubstreamRequest`. It needs
    the type because `swarmReqs \in Nat` and `swarmReqs <= 1` give
    `swarmReqs = 0` outside `PendingOpen` (lemma
    `NoRequestOutsidePendingOpen`).
  * A request is made only from `None`, so no request was outstanding.
  * Each answer of the swarm consumes the single request.
* **`FIFOTheorem`**: `Spec => []OutboundFIFO`.
  * `OutboundFIFO` speaks of the trail `sent \o InFlight \o queue`. The
    inductive invariant is `TypeOK /\ SingleSubstreamRequest /\
    OutboundFIFO`.
  * `SingleSubstreamRequest` is needed because `FullyNegotiatedOutbound`
    overwrites the outbound state whatever it is (`handler.rs:221`). Only the
    fact that it comes in `PendingOpen`, where nothing is in flight, keeps it
    from dropping an in-flight payload from the trail.
  * Only three steps change the trail. A push appends `nextId`, which is
    larger than every element (lemma `IncreasingAppend`). A pop moves the
    head of the queue into flight, which leaves the trail as it was (lemma
    `HeadTailConcat`). A completed write moves the in-flight payload to
    `sent`, which also leaves the trail as it was. A failed write takes the
    payload out of the trail and puts it into `lost` (lemma
    `IncreasingRemove`).
  * Every other step keeps the trail's parts (lemma `TrailKept`).

* **`LinkViewTheorem`**: `Spec => []LinkViewConsistent`.
  * `LinkViewConsistent` speaks only of states with no buffered event, and
    is not inductive as it stands. The strengthening `LVInv` adds
    `SingleSubstreamRequest` and `BufferedAnswer`. TLC checked `LVInv` on
    the `handler_safety` instance before it was proved.
  * `BufferedAnswer` says that at most one event is buffered, and that a
    buffered event is the answer to the one request. That is either
    `FullyNegotiatedOutbound` with the handler `Idle`, or an upgrade error
    with the handler still in `PendingOpen`. While an event is buffered,
    the link is down and no request is outstanding.
  * It holds for two reasons. A request is made only by a poll that found
    the buffer empty (`handler.rs:181-186`), and the swarm answers it once
    (lemma `AnswerLV`). While an event is buffered, poll returns it before
    it reaches the outbound loop (`handler.rs:107-108`), so nothing changes
    the outbound state under it.
  * `PollPendingEventLV` shows that delivering the event makes the
    behaviour's view that of the outbound state. `OutboundLoopLV` shows that
    the loop keeps the view. `LVKept` covers every other step.
* **`CadenceTheorem`**: `Spec => CadenceSpacing`, an action property.
  * `SendNext` pops only when the Delay timer has reached the interval
    (`handler.rs:143`). It resets the timer together with the pop
    (`handler.rs:145-150`).
  * The inductive invariant is `TypeOK /\ TimerInv`, where `TimerInv` is
    `elapsed <= sincePop`: the timer never runs ahead of the time since the
    last pop.
  * `ClockSteps` shows that every step resets both clocks, ticks, or leaves
    both alone. `PopNeedsTimer` shows that only `SendNext` starts a send.

* **`InboundFilteringTheorem`**: `Spec => []InboundFiltering`.
  * `InboundFiltering` says that the behaviour received only real frames,
    in strictly increasing order, and that they followed by the real
    frames still on the wire are strictly increasing. The peer numbers its
    payloads in write order, so this says: no noise reaches the behaviour,
    and the payloads it gets are the peer's, in write order, each once
    (some may be lost with a replaced or failed substream).
  * It is stated by positions in the sequences. An equivalent form with
    `SelectSeq` (drop the noise, then compare) is out of the prover's
    reach: tlapm knows no fact about `SelectSeq`, and proving one would
    need induction over the sequence. TLC checked that the two forms agree
    on every state of the `handler_safety` instance before the positional
    one replaced it.
  * The inductive invariant `IFInv` adds two facts. `BelowNext`: every
    payload received or on the wire is below the peer's next payload
    `peerNext`, so the peer's next write is larger than all of them.
    `NoMessagePending`: no event buffered by `on_connection_event` is a
    `Message`, so delivering a buffered event adds nothing to `delivered`.
    TLC checked `IFInv` on the `handler_safety` instance first.
  * One lemma per way the wire changes, on sequences of numbers:
    `WireAppend` (the peer writes noise or its next payload), `WireTail`
    (poll drops a noise head), `WireDeliver` (poll hands a real head to the
    behaviour, `handler.rs:115-122`) and `WireClear` (a new inbound
    substream replaces the old one, or the substream fails).
    `OutboundLoopKeepsReceived` shows that the outbound loop reports no
    message. `IFStep` puts these together, one case per action.

`PendingOpenHasRequest`, the converse of `SingleSubstreamRequest`, is false
(see the finding).

Three things stay with TLC and out of the prover's reach:

* liveness (`EmitsForever`, `EnqueuedEventuallySent`), which needs fairness
  and ENABLED;
* induction over data: nothing is proved of `SelectSeq` or of a
  recursive definition, which is why `InboundFiltering` is stated by
  positions;
* anything in a module with a RECURSIVE operator. The proved modules use
  none.

## 5. The services model (`NodeServices.tla`)

The network service (`nomos-services/network/src/lib.rs`) and the mempool
service (`nomos-services/mempool/src/lib.rs`) each run one task: a loop
around `tokio::select!`. One iteration of a loop, meaning the branch taken
and its handler run to the end, is one action. Overwatch relays are bounded
mpsc channels (`netRelay`, `mpRelay`, capacity `RelayCap`). A send waits
while the channel is full and fails once the receiver is dropped. Dropping a
receiver drops the queued messages together with their oneshot reply
senders (`DropReplies`).

* **Network service.** `NetHandleRelay` is the relay branch
  (`lib.rs:122-138`). `Subscribe` replies. `Process` hands the command to
  the backend (`commands`). The commands of `command.rs` come in two kinds:
  a `PubSub` broadcast carries no reply, and a `Query` carries a oneshot
  reply sender (`GetClosestPeers`, `DumpRoutingTable`, `Info`, the
  `result_sender` of a `Dial`; `/network/info` awaits `Info`).
  `BackendCommand` is the backend's swarm task. It is not under `src/`, and
  is modelled from the spec: it takes the oldest command and answers it if
  it is a `Query`. `NetStop` is the lifecycle branch (`lib.rs:140-154`).
  `Kill` and `Shutdown` both end the loop, and `Shutdown` first sends its
  acknowledgement (`ack`). When `run` returns, the relay is dropped with what
  it holds, and so is the backend. Dropping the backend ends the mempool's
  network transaction stream (`netTxOpen`).
* **Mempool service.** `MpHandleRelay` handles `AddTx`, `View`, `Prune` and
  `MarkInBlock` (`lib.rs:129-146`). `MpHandleNetTx` adds a transaction
  gossiped by a peer (`lib.rs:147-151`). `MpPanic` is the `select!` panic
  when both streams have ended (`lib.rs:128`).
* **Clients.** `ClientSend` is the HTTP handler's
  `make_request_and_return_response` (`api.rs:139-152`). A client can hang
  up while it waits for a reply. Overwatch sends one lifecycle message, and
  the node drops the mempool relay's senders only after every client has
  sent.

Fairness: weak fairness of each service's loop (`NetworkStep`,
`MempoolStep`) and of the backend's swarm task (`BackendCommand`). Each is a
tokio task that is polled again whenever one of its
branches is ready. Nothing else is fair: clients, peers and overwatch may stop
acting. The run (`services`, two clients, two transactions, relays of one
slot) checks:

* `WaiterQueued`: a client waiting for a reply has its reply sender in the
  relay of a service whose loop still runs, or in the backend's command
  queue. It is the safety half of
  `RequestsResolved`: a handler never consumes a request with a reply
  without answering it, and a loop that ends never leaves a caller waiting
  on a reply sender nobody holds. The mutant `MpHandleRelay_NoViewReply`,
  whose `View` branch drops the reply sender unsent, is rejected.
* `RequestsResolved`: every client waiting for a reply eventually gets it,
  gets an error, or hangs up, even when the service stops with the request
  still queued.
* `ShutdownAcknowledged`: a `Shutdown` sent is eventually acknowledged.

Deadlock checking is off in this run because the node stops by design: the
network service is killed and the mempool then ends.

`NodeServicesProofs.tla` proves `TypeCorrect` (`Spec => []TypeOK`) and
`WaiterQueuedTheorem` (`Spec => []WaiterQueued`). They hold for every relay
capacity, client set and transaction set that satisfy `ServicesAssumption`.

* `WaiterQueued` alone is not inductive: a step that pops the head of a
  relay could, as far as it says, pop a waiting caller's request without
  answering it. The inductive invariant `WQInv` adds `RelaysCarryRequests`
  (every message in a relay or in the command queue is its sender's
  request, for that service, and every command is a `Process`) and
  `WaitersHaveReply` (only a `Query`, a `Subscribe` or a `View` leaves its
  caller waiting). With them, the head of the network relay sent by a
  waiting caller is a `Subscribe`, which `NetHandleRelay` answers, or a
  `Query`, which it moves into the command queue; the head of the command
  queue from a waiting caller is a `Query`, which `BackendCommand`
  answers; and the head of the mempool relay is a `View`, which
  `MpHandleRelay` answers (lemma `ReplyKinds`).
* One lemma per step that can disturb it: `NetHandleRelayWQ`,
  `BackendCommandWQ` and `MpHandleRelayWQ` (the head is answered or handed
  on, the rest of the queue stays; lemmas `InRelayTail`, `InRelayAppend`),
  `NetStopWQ` (the relay is dropped and its waiting callers fail, so the
  callers still waiting are queued at the mempool or the backend; the
  swarm task outlives the service's loop), `MpPanicWQ` (the panic
  needs an empty relay) and `ClientSendWQ` (a caller with a reply starts
  waiting with its request appended to its service's relay, or fails at
  once). `WQShrink` covers every step that puts nobody into the waiting
  state and leaves the relays alone.

`RequestsResolved` and `ShutdownAcknowledged` are liveness properties and
stay with TLC.

## 6. The start-up model (`NodeConfig.tla`)

`main` (`main.rs:36-88`) reads the YAML config, applies the argument groups
one by one (`update_log`, `update_network`, `update_http`,
`update_cryptarchia_consensus`; `config.rs:129-255`), runs overwatch, and
the HTTP service builds its CORS layer (`api.rs:95-107`). `pc` follows these
steps. Each update is an operator that returns the new `Config`, or `None`
for the error of the first argument it rejects. Main's `?` then ends
start-up (`ApplyUpdate`).
Each update reads only its own group, so an argument group is chosen when its
update runs rather than all at once when clap parses. Values are abstracted
to what the code tells apart, except `--net-port`, which keeps its `as u16`
truncation (`U16`).

* `startup` checks `TypeOK` over every combination of argument groups:
  every update writes only values its field can hold. The port is the
  16-bit value `as u16` gives, and at most one note is added. The mutant
  `UpdateNetwork_NoTruncate`, which stores the port without the
  conversion, is rejected.
* `startup_cors` is a violation run, and finds a spec/code divergence. The
  doc comment of `cors_origins` (`api.rs:40`) calls them the allowed
  origins. `serve` calls `allow_origin` once per origin, and tower-http's
  `allow_origin` replaces the previous value. With two origins configured,
  only the last is allowed (`CorsAllowsConfigured` fails in 8 steps).

`NodeConfigProofs.tla` proves `TypeCorrect` for every file port below 65536
and every argument set.

* The inductive invariant `IInv` keeps `step` within the four updates while
  start-up is loading or updating.
* It also says that the config carries no note before the Cryptarchia
  step, so the one note that step may add keeps `notes` within `0 .. 1`.
* Per update, `UpdateLogFacts`, `UpdateNetworkFacts`, `UpdateHttpFacts` and
  `UpdateCryptarchiaFacts` show that the result is a `Config` or `None`,
  and the first three that it keeps the notes.

A port argument of 65536 or more wraps silently (73536 becomes 8000). The
model computes this, but no documentation says what should happen, so no
property claims it.

## 7. The DA storage model (`DaStorage.tla`, `DaStorageProofs.tla`)

`get_blob` (`rocksdb.rs:53-83`) is two steps of each concurrent caller:

* `SendLoad` builds the key with `create_blob_idx` and `key_bytes`, and sends
  `StorageMsg::Load` on the bounded storage relay.
* `LoadFile` takes the reply. An absent key gives `Ok(None)`. A present key
  makes it load the file of (blob id, column): a missing file is an error,
  and a file that does not deserialize gives `Ok(None)`.

The storage service (`StorageLoad`) and the verifier (`WriteFile`,
`MarkVerified`) are not under `src/`. They act in any order, and a written
file may not deserialize. `verified` records the pairs the verifier has
marked. The run `da_storage` covers two callers, two blobs with 2-byte ids,
and the columns 0 and 256, whose big-endian bytes differ in the first byte.
It checks:

* `BlobIdxInjective`: the key of a pair the verifier has marked names that
  pair only.
* `ReturnsOnlyVerified`: a blob is returned only for a verified pair.

Both are proved for every value of the constants that satisfies
`DaStorageAssumption`: ids of one length `IdLen` over bytes, columns below
65536, and `None` distinct from the replies and results.

* **`KeyInjective`**, a constant-level fact. The key is
  `<<prefix>> \o (id \o ColumnBytes(col))`. `PrefixCancel` strips the
  prefix. `ConcatInjective` splits the rest, because all ids have the same
  length. `ColumnBytesInjective` recovers the column from its two bytes.
* **`ReturnsOnlyVerifiedTheorem`** (`ReturnsOnlyVerified`). The inductive
  invariant `IInv` says four things:
  * the storage service holds exactly the keys of the verified pairs;
  * every queued `Load` carries the key of its caller's request;
  * a `TRUE` reply was given for a verified pair;
  * a caller that has been replied to holds a Boolean reply.

  `BlobIdxInjectiveTheorem` (`BlobIdxInjective`) follows from
  `KeyInjective` and the first conjunct of `IInv` (`verified` holds only
  pairs). The storage service's step needs `KeyInjective`. Without injectivity, a
  key verified for one column could answer `TRUE` for another. The mutant
  `CreateBlobIdx_NoColumn` shows exactly that.

`TypeCorrect` proves `Spec => []TypeOK` together with the relay bound
(`RelayBound`).

## 8. Not modelled

* Byte-level framing (`MSG_SIZE`, `read_exact`, `write_all`) is reduced to
  whole frames.
* The `io::Error` causes and all logging are left out.
* `update_from_args` and `BlendArgs` are not under `src/`. The update order
  is taken from `main.rs`. Also left out: the routes and the hyper server,
  and whether axum applies a layer added before the routes to them (the
  manifest with the axum version is not in the repository).
* The lifetime of the storage service seen by `get_blob`. A stopped storage
  service makes its `expect` panic (`rocksdb.rs:68`).
* The cfgsync client, the bundler utilities and the test executor: one-shot
  HTTP and file I/O.
* Items 3-5 of the plan are still to do. `PROJECT.json` gives the reason for
  each component not modelled.
