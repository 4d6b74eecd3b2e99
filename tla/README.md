# A TLA+ model of CSQTT

CSQTT carries the IP traffic of a device over many independent TURN streams. A
client (`rust-client`, embedded in the Android app and, as an identical copy,
in `windows-client/Core`) reads packets from a TUN device, spreads them over up
to 126 workers, each with its own TURN allocation, and a server (`rust-server`)
puts them on its own TUN device; the way back is the same. `shared` holds what
both ends use.

This directory models the parts of that system whose correctness depends on
the order of events. Each module says in its header which files it models;
`PROJECT.json` maps every definition to source lines, and lists the hazards,
the runs, the mutated definitions each property is known to catch, and the
theorems.

## 1. Inventory

| Component | State | Operations | Talks to |
|---|---|---|---|
| **PacketQueue** `rust-client/dispatcher.rs` | bounded ArrayQueue, epoch word, sender count, `receiver_open`, a `Notify` | send, force_send, clone, drop, recv, resume, suspend | dispatcher tasks, session writers, TUN writer |
| **FlowFrame** `shared/flow_frame.rs` | sequencer: next number per flow; reassembler: expected number, pending frames and gap clock per flow | next, push | both TUN readers and writers |
| **StreamRepair** `rust-server/protocol.rs`, `rust-client/repair.rs` | server: one round per identity; client: four atomics per stream and a `Notify` | reconcile, repair/alive payload, apply_repair, apply_alive, mark_ready, changed | sessions, worker supervisor |
| **ReplayFilters** `rust-client/session.rs`, `rust-server/protocol.rs` | highest number and a ring of bits | accept | every received datagram |
| **WorkerSupervisor** `rust-client/worker.rs` | credential cache behind a mutex, pause flag, config flags, active count | get, store, release, invalidate, rotate, worker_loop | authentication, sessions |
| **Session** `rust-client/session.rs` | phase of one TURN allocation, ShutdownCoordinator | connect, bind, GETCONF, READY, reader, writer, shutdown | TURN core, dispatcher, server |
| **SessionTable** `rust-server/protocol.rs`, `tun_device.rs` | per shard: slab of sessions, by_peer, by_id, route table, migrating endpoints | on_udp, on_command, on_tick | router, control plane |
| **ShardRouter** `rust-server/dataplane.rs` | endpoint and tunnel bindings, pending migrations, bounded queues | route, bind, migrate, fan out | shards, UDP and TUN sockets |
| **DeviceControl** `rust-server/protocol.rs`, `web_panel.rs`, `main.rs` | device epochs with their locks, public sessions, passwords and bindings, credentials, command channel | GETCONF, DISCONNECT, purges, panel changes, janitors, sweeper | shards by commands and control events |
| **Persistence** `rust-server/model.rs`, `web_panel.rs` | database in memory, SQLite file, queue of updates, revisions, writer thread | submit, write, complete, wait, flush, restart | panel handlers, janitors, control plane |
| **TurnCore** `rust-client/turn.rs`, `turn_core.rs` | transactions, timers and state of one allocation, driver task, snapshot for waiters | allocate, permission, bind channel, refresh, deallocate, drop | TURN server, session |
| **WindowsClient** `windows-client/TunnelController.cs`, `RouteManager.cs`, `MainForm.cs` | adapter, routes, DNS, child process, locks, cancellation source | start, stop, close, log readers, packet loops | Windows, `client.exe` |
| **ClientDispatcher** `rust-client/dispatcher.rs`, `shared/striped_scheduler.rs` | registry of workers, snapshots, cursors | register, unregister, dispatch, TUN attach | PacketQueue, sessions |
| **DownlinkQueue** `rust-server/downlink_queue.rs` | per address and class rings | push, drain, configure | SessionTable |
| **SelectiveFec**, **PacketPool**, **TransparentProxy**, **Authentication**, **ClientMain**, **ServerMain**, **AndroidClient** | see `PROJECT.json` | | |

What is hard here, and hardly reached by the unit tests of the repository:

* *Concurrency in the client.* Its runtime has several threads; queues, repair
  slots and flags are atomics that different tasks read and write between any
  two instructions of each other (PacketQueue, StreamRepair, WorkerPool).
* *Unreliable delivery.* Everything between client and server is a datagram on
  one of many paths: lost, repeated, late, out of order (FlowReassembly,
  StreamRepair, ReplayWindow).
* *Wrapping numbers.* 16- and 32-bit sequence numbers wrap while the tunnel is
  up (FlowReassembly, ReplayWindow).
* *Limits.* Every table and queue is bounded and drops something when full
  (PacketQueue, FlowReassembly, SessionTable).
* *Restarts and failures at every step* of a session, with shared state to be
  given back: leases, guards, allocations, routes (WorkerPool, SessionTable,
  TurnAllocation, WindowsTunnel).
* *Awaits between a check and its use.* A task of the server or of the Windows
  client checks, waits for a lock, a disk or a command, and acts on what it saw
  (DeviceControl, Persistence, WindowsTunnel).
* *Death of the process* between a change in memory and its write
  (Persistence).
* *Moving state between threads.* With more than one shard a session is created
  on one thread and lives on another, while its datagrams keep coming
  (SessionTable).

## 2. Modules and how they correspond to the code

### PacketQueue

One lane between the dispatcher, the session writers and the TUN writer. Every
atomic access of `send_inner`, `recv`, `resume`, `suspend` and the two `Drop`s
is a step of its own (`SendCheckOpen`, `SendLoadState`, `ForcePush`,
`SendNotify`; `TryRecv1`, `CheckSenders1`, `TryRecv2`, `CheckSenders2`,
`Poll`, `Wake`; `PurgeOne`, `PurgeDone`), so that senders on other threads fall
between any two of them. `NotifyOne`, `NotifyWaiters` and `LeaveWait` give the
documented behaviour of `tokio::sync::Notify` with one waiter: a permit is
stored when nobody waits, a future sees every `notify_waiters` since its
creation, and a dropped future hands a `notify_one` on. The packet is its epoch
tag and `born`, a history field: the number of `resume` calls when the sender
read the state word. Pop and load of the state word are one step because
only the receiver writes that word.

*Correct means:* a sleeping receiver is never left with work (`NoLostWakeup`,
`ReceiverWakes`); no packet admitted before a `resume` is delivered after
it (`DeliveredFresh`; `run_tun` replaces a device without one, see section 4); a queue whose receiver is gone keeps a bounded number of
buffers (`StrandedBounded`).

### FlowReassembly

`SequencerNext` stamps the packets of a flow, `ArriveFrame` is a whole `push_at`
for one of the frames on the paths. The network is a set of frames, so a frame
may arrive never, once or often, and in any order within `FlowLag` sends. `n`,
`flowSent`, `arrived`, `out` and `earlier` are history: `out` is what was released
since the table was made or last cleared, `earlier` what was released before.
Sequence numbers wrap at `FlowModulus` (2^32 in the code).

*Correct means:* until its table is cleared or replaced, a reassembler releases
a flow in order and no packet twice, whatever the paths do (`OutputOrdered`;
section 4 says what a clear does); the count of buffered frames is
exact although the code subtracts with saturation (`TotalExact`), and limited
(also `TotalExact`); nothing is lost when nothing had to be given up
(`Complete`).

### StreamRepair

Composes the server's `StreamRepairRound` with the client's `RepairState` for
one device identity. `Reconcile` is a whole `reconcile_streams` pass; on the
client each atomic access of `mark_ready`, `changed` and `apply_repair` is a
step. `apply_alive` is one step: its `fetch_max` per slot is independent of the
other slots.

*Correct means:* a REPAIR restarts a stream once, over however many carriers
and readers (`OneRestartPerSequence`); it never costs a credential the first
time (`FirstRepairKeepsCredentials`); only streams missing for the whole grace
period are named (`GraceRespected`).

### ReplayWindow

Both duplicate filters, with the same arrivals, against the set of packets
accepted so far and their true numbers. The server compares wrapping numbers,
the client extends them. No packet is later than half the modulus, nor a run of
losses longer (`ReplayAssumption`). The client's `FirstInOrder` is an assumption of the
passing run; section 4 says what happens without it.

*Correct means:* a packet passes exactly when it has not passed before and lies
within the window (`MatchesReference`).

### WorkerPool

`worker_loop` of every worker of one credential cohort: `pc` is the place in
the loop or in the session it runs, `loc` its locals, `cache` the
`CredentialCache`, `holder` who keeps its mutex across an await. A session is
the sequence of its phases, each of which may fail with every kind of error the
loop tells apart (`quota`, `auth`, `mismatch`, `repair`, `other`). Authentication
is external: a fetch returns any of `Values`, also one handed out before, fails,
or reports that the call is gone. The `select!` of the loop is not biased:
`Return` may take the result before the message that the allocation started.

*Correct means:* no credential is used for more allocations than allowed
(`AllocationsBounded`); a refused one is not handed out again
(`RejectedNotLeased`); a stale lease does no harm (`StaleLeaseHarmless`); the
configuration is asked for again after a failed request (`FlightNotLeaked`) and
after a full outage (`OutageRefreshes`); everything stops when told to
(`CancelStops`).

### SessionTable

The engine of each shard with its three indexes and its route table, the router
and its queues. `OnUdp...` are the cases of `on_udp` for a GETCONF (no other
datagram changes the tables), `OnAdopt`, `OnEpoch`, `OnActivate`,
`OnDisconnect` and `DropSession` the commands that do, `Compact` the
renumbering of slots, `SweepMark` the expiry of the mark that an endpoint is
moving; `RouteUdp`, `RouterTake` and `RouterRetry` are the router. The control
plane is the environment: it answers a GETCONF with SetAuthoritativeEpoch and
ActivateTunnel (`GetconfEpoch`, `GetconfActivate`), under the lock of the
device, and may drop sessions at any time. Which GETCONFs it accepts is
DeviceControl's subject and left open here, so more can happen than in the
program. `lost` remembers that some `try_send` failed.

Re-filing a session under another local address (`handle_existing`) is left
out: with IP_PKTINFO enabled every datagram carries one (tokio_io.rs:473), so
keys never change. `Slots` are interchangeable: the slab's choice of a free
slot is any free slot. `Remove` takes out a set of sessions at once, `Compacted`
moves a set of them: the code goes through them one by one within the same
command, the shard takes no input in between, and the result does not depend on
the order (the last heir of a route is the youngest session of the stream that
stays). `gen` in an activation is history; the command itself names the session.

*Correct means:* the slab and its indexes describe the same sessions
(`TablesAgree`); every route leads to the live session that registered it, one
per stream (`RoutesLive`); a registered stream is not left without a route
(`StreamsServed`); the router sends to the shard where the session is
(`Reached`).

### Persistence and DurableStore

`DurableStore` is what the server's database promises: memory runs through a
history of contents, the disk always holds one whole content of that history
and moves only forward through it, and a restart resumes from the disk.
`Persistence` is how `model.rs` does it: `submit_snapshot` and `submit_traffic`
under the mutex of the queue, the writer thread (`take_pending`,
`persist_commit` or `persist_fail`, `complete`, `notify_waiters`), a handler's
`wait` with its future created before the revisions are read (`wait_register`,
`wait_check`, `wait_poll`, `wait_woken`), the two halves of `flush_traffic`
around its unlock, once for the janitor and once for the shutdown, the
shutdown's last snapshot (`shutdown_save`), the panel handlers and janitors that
change the database, and `Restart` at any point. `ImplementsStore` is the refinement
(`durable <- disk.ver`, `stored <- disk.clients`). `ver`, `history`, `acked`,
`failed`, `lossy` and `crossed` (the clients whose counter both flushes held at
one time) are history.

A client is one switch (standing for its settings) and one counter. The
rejection of a new client at MAX_PASSWORDS is an action of its own
(`clients_create_refused`): it comes after the expired clients have left memory
and before anything is submitted.

*Correct means:* the disk is a content of the history and never goes back
(`ImplementsStore`); what was reported as saved is saved (`AckedUnlessFailed`);
superseding and merging bound the queue (`QueueBounded`); every waiting handler
is answered (`AnswerComes`). Counters do not go back on disk (`CountersForward`)
and superseding and merging lose nothing (`CaughtUp`), except for the counter of
a client that the flushes of the janitor and of the shutdown held at one time:
that one may be wrong, which is a finding (section 4).

### DeviceControl

`control_loop` and the tasks it spawns, each split at its awaits and locks:
GETCONF (`handle_getconf`, the mutex of the epoch slot, `getconf_admit` or
`getconf_refuse`, `getconf_send`, the refresh of the credentials), DISCONNECT,
and data before the tunnel (`ensure_control_tunnel`). Slots are numbered objects
behind their `Arc`s; `slotOf` is the map `device_epochs`, so that a slot can be
replaced while a task waits for it. The panel and the password janitor are one
process that changes the database and then works off what its handler has left
to do. The engine executes the command channel in order and is reduced to which
sessions it has; commands that do not fit are lost, as with `try_send`.

`exempt` remembers devices and passwords for which a command was lost or a
handler gave up after a failed write: nothing is promised for them.

*Correct means:* tasks of one device exclude each other (`EpochSerial`); the
tunnels of a device carry its last epoch (`TunnelEpochCurrent`), belong to a
usable password bound to that device (`TunnelAuthorized`) and are in the public
table (`TunnelListed`); a late DISCONNECT spares a newer epoch
(`DisconnectSparesNewer`).

### TurnAllocation

`core` is `Inner` of `turn_core.rs`, whose functions are operators from core to
core; the driver task is split at the head of its loop, in `pump_native`
(poll, each send, each event) and at its `select!`; the owner is the sequence
connect, prepare the channel, leave, deallocate, drop. A reply may come as long
as a transaction that was sent is pending: success, a challenge, "gone" (437,
and 400 to a ChannelBind) or another error. UDP and stream differ as in the
code: a stream repeats nothing, and its biased `select!` does not read any more
once the receiver is gone.

*Correct means:* data goes only to a channel that is bound (`ChannelBacked`); an
allocation is given back, also one that succeeds after its owner has left
(`AllocationReturned`); the driver ends (`DriverEnds`); an allocation that dies
is reported (`DeathReported`).

### WindowsTunnel

All continuations run on the one UI thread. `StartAsync`, the two `PumpLogs`
readers and the packet loops are tasks suspended at an await; `StopAsync` blocks
the thread until it is through (`DisposeDefault`, `DisposeBypass`, `StopCore`).
System commands are children that take effect when they exit. A command may
outlive its run: `StartAsync` leaves what still runs to `sys.stray`, and
`StrayEnds` ends it, with its effect or without, in whatever run there is by
then. The commands of `RunQuiet` are not checked at all (RouteManager.cs:121):
the deletion of the default route, of the host routes and of the DNS servers may
fail, or go on after their three seconds, and `Dispose` forgets the routes all
the same (`past.kept` remembers them). Stopping client.exe may throw
(TunnelController.cs:221): then the process is "lost". The two semaphores hand
themselves to the next in line on release.

*Correct means:* the transport never goes through its own tunnel
(`TransportOutside`); the last DNS wins (`DnsLatest`); a stop at any await leaves
nothing behind but the routes whose own deletion did not go through, and
client.exe only when stopping it threw (`CleanAfterStop`), and comes to an end
(`StopEnds`, which fails).

## 3. Runs

| Run | Shows | Bounds | States |
|---|---|---|---|
| `packet_queue` | all properties of PacketQueue, safety and liveness | 2 sender handles, capacity 2, 2 resumes | 165,496 |
| `flow_reassembly` | order, exact count and completeness under loss, repetition, deadline, full tables, restarts, and across the wrap | 3 flows with room for 2, 2 frames per flow and in all, 5 sends from 0 and from 13 modulo 16, 1 restart | 996,490 |
| `repair_safety` | properties of StreamRepair | 2 streams, 2 readers, 5 ticks, 2 starts | 1,115,156 |
| `replay_filters` | both filters equal the reference | modulus 16, window 4, every start value, 18 sends | 564,096 |
| `worker_pool` | properties of WorkerPool | 2 workers, 2 secrets, 2 leases per credential, 2 fetches, 3 turns | 3,654,810 |
| `worker_stops` | cancellation | the same with 1 secret, 1 fetch, 2 turns | 320,250 |
| `session_table` | properties of SessionTable | 2 shards, 2 devices at home on different shards, 2 generations of one, 2 endpoints, 2 sessions, queues of length 1, 2 registrations | 1,114,596 |
| `persistence` | the queue, durability, counters and answers of Persistence, the refinement of DurableStore | 1 password, 1 request, both flushes, counters to 2, 3 versions, 1 failed write, 1 restart | 235,268 |
| `device_control` | properties of DeviceControl | 1 password, 2 devices, 2 epochs, 3 sessions, 2 tasks, 1 outside event, channel of 3 | 883,237 |
| `turn_allocation` | properties of TurnAllocation | both transports, 2 transmissions, 1 nonce retry, 2 channel failures, 1 timer, 1 socket error | 128,425 |
| `windows_tunnel` | safety of WindowsTunnel over two runs, the second beside what is left of the first | 2 addresses, 3 DNS profiles, 2 starts, 3 TUNCONFs, 1 failure | 6,392,018 |
| `windows_stop` | the disagreement of section 4 | 1 start, 1 TUNCONF, no failure | violation |

Why the bounds are enough to be interesting:

* *packet_queue*: two handles are needed for one to push while the other is the
  last to be dropped or is cloned; two packets fill the queue and force the
  oldest out; two resumes let a sender sleep across one and across two of them.
* *flow_reassembly*: three flows overflow a table of two on both ends; two
  frames per flow and in all reach both limits, also by a flow that holds
  nothing itself; five sends put several frames behind a gap, and from 13 they
  pass the wrap. `FlowLag` exceeds `FlowSends`: nothing is ever too late. Half the
  modulus exceeds the lag, as 2^31 exceeds any delay of the network; a frame
  that is 2^31 packets late is outside what the algorithm can tell apart.
* *replay_filters*: the window divides the modulus four times as in the code;
  jumps of up to seven pass a whole window; 18 sends from each of 16 start
  values pass the wrap at every alignment.
* *repair_safety*: two streams make the set of missing streams change; with
  `Grace` 1 and `Escalate` 2, five ticks reach the repetition of a REPAIR, its
  recovery and both ALIVEs.
* *worker_pool*: two workers race for the last lease, two secrets and two
  fetches let the service hand out the same secret again under a new
  generation; three turns let one worker finish and return to a credential the
  other has judged.
* *session_table*: two sessions of one stream are the heir of each other; the
  endpoint that is used by devices of both shards moves away and back; queues of
  length one make every overflow and every retry of a migration happen. `Prompt`
  says that what is queued for an endpoint is handled within the two seconds its
  mark lives; section 4 says what happens otherwise.
* *persistence*: three versions are the creation of a client and its change or
  removal; they put a snapshot into the queue while one is being written and
  another is acknowledged. Counters up to two let both flushes hold the client,
  in either order, around the snapshots, of which one may be the shutdown's; one
  failed write and one restart fall anywhere among them. Clients meet only in
  the atomic snapshot; the run also passes, within five minutes, with two
  passwords of which one exists, at two versions or with counters up to one. The
  theorems of section 5 are for any number.
* *device_control*: two tasks overtake each other between any two awaits, with
  two generations of one device and a second device for the same password; the
  outside event is any one of the panel's changes, a janitor's, or a session
  that is lost. A channel of three commands overflows, and the run goes on after
  the loss. What holds for more of each is proved (section 5).
* *turn_allocation*: one timer is a refresh, a maintenance round, or the expiry;
  two channel failures are a retry and its exhaustion. The invariants also hold
  with two timers.
* *windows_tunnel*: a TURN address arrives before or after the snapshot of the
  addresses; three profiles let two updates wait for each other; the failure is
  any one of a command, a quiet deletion, the start or the end of client.exe. The
  second start meets what the first left: routes that were not deleted, a
  deletion or a netsh that ends late, a lost client.exe.

Symmetry is used for flows, readers, workers, slots, tasks, addresses and DNS
profiles in runs of invariants and action properties; never in a run with a
liveness property. Runs with `CHECK_DEADLOCK FALSE` stop at their bounds, or
because everything has been closed.

**Fairness.** `packet_queue` assumes weak fairness of `RecvContinue`,
`PurgeContinue` and each `SenderContinue`: a thread inside one of these calls
goes on, and a woken task is polled, which the tokio runtime guarantees. No
operation is assumed to be *begun*. `worker_stops` assumes weak fairness of each
worker's `Step`: the runtime polls every ready task, each request of a session
or a fetch has a timeout, and the tokio mutex is first come, first served.
Nothing is assumed of Pause, Resume or the cancellation itself. `persistence`
assumes weak fairness of `Worker`, a thread that loops for ever, and of each
`Handler`, a task that is polled when it is woken; no write has to succeed and
no timeout has to fire. `turn_allocation` assumes it of `Driver` (a running task
whose transactions have deadlines), of the owner's wakeups and of its way
through `deallocate` and `drop` once it has begun; no server has to answer, no
timer of a ready allocation has to fire, and the deadline of the cleanup, which
would end the driver anyway, does not have to come. `windows_stop` assumes that
system commands end and that a free UI thread runs the continuations that are
due; its counterexample is a state in which none is.

## 4. Disagreements and other behaviour found

One run shows one as a violation (the finding in `PROJECT.json` quotes the
source):

* `windows_stop`: StopAsync blocks the UI thread in `RouteManager.Dispose` on a
  lock that a log reader holds across an await; the reader's continuation needs
  that thread. The window hangs and the routes stay.

Further ones, each with a configuration under which TLC reports the violation of
the property it names (`tlc -config <cfg> <module>`):

* `MCFlowPerFlow.cfg`, `PerFlowBounded`: storing a frame in a full flow releases
  the lowest one and drains; that can move `expected` past the frame being
  stored, which is stored all the same and never released. The flow then exceeds
  its limit (flow_frame.rs:188).
* `MCFlowCleared.cfg`, `OutputOrderedAlways`: a frame of one flow too many clears
  the table of the reassembler (flow_frame.rs:155-158). The flows that go on are
  expected at 0 again; a late or repeated frame of theirs is released after
  younger ones, or a second time. `OutputOrdered` and `FlowsInOrder` hold between
  two clears. No document promises more.
* `MCRepairAlive.cfg`, `AliveHonoured`: `mark_ready` loads `last_sequence` and
  stores it in `ready_sequence`; an ALIVE with a newer number between the two is
  undone, and the next REPAIR throws the credential away (repair.rs:75-81).
* `MCReplayReordered.cfg`, `AcceptedOnce`: when the first packets of a session
  arrive out of order around the wrap, the client extends an old number into the
  next cycle and then judges repetitions against the wrong number
  (session.rs:450).
* `MCConfigFlight.cfg`, `ConfigSingleFlight`: `config_in_flight` is cleared by
  the answer and again by the guard when the session ends; in between another
  worker may have set it, and the next one to come then asks beside it
  (worker.rs:206).
* `MCPersistenceFlush.cfg`, `NoIncrementLost`: `flush_traffic` queues what it
  read after it has dropped the lock of the database. The janitor is never
  stopped before the shutdown flushes in its turn, so the two may read a counter
  in one order and queue it in the other; the disk ends with the older value,
  against the comment at model.rs:207-209. The window is narrow: a thread has to
  lose the processor between two statements without an await. `CaughtUp` and
  `CountersForward` excuse exactly the clients whose counter two flushes held at
  one time.
* `MCPersistenceAck.cfg`, `AckedDurable`: a snapshot fails, a traffic update
  queued behind it succeeds, and only then does the handler look: the later
  revision counts as its own, the panel reports success, and the change is gone
  after a restart. The comment at web_panel.rs:584-587 rules this out.
* `MCTurnExhausted.cfg`, `ExhaustedReturned`: when a channel could not be bound
  again the core is "destroying" but keeps the allocation so that it can be
  given back. The driver queues the Deallocate, sees the old state in the
  snapshot and ends before sending it (turn.rs:760-766). The test at
  turn_core.rs:1664-1709 expects the request from the core.
* `MCWindowsDns.cfg`, `DnsLatestAlways`: profiles A, B, A in a row. While B is
  being applied `appliedDns` is still A, so the third TUNCONF is skipped, and B
  stays (TunnelController.cs:154; the comment at 165-167 says the last one
  wins).
* `MCWindowsLeft.cfg`, `CleanAlways`: one quiet deletion fails or is late and its
  route is left for good, for `Dispose` has forgotten it; or `WriteLine` or
  `Kill` throws and client.exe is left (RouteManager.cs:105-106 and 121,
  TunnelController.cs:221). The comment at RouteManager.cs:99-100 says that
  errors are suppressed on purpose, since deleting an absent route is normal;
  that a route which is there may stay is not mentioned. A deletion that is late
  can also take the route that the next start has added again.
* `MCWindowsSession.cfg`, `SessionLive`: a packet continuation that runs after
  `StopAsync` calls Wintun with the ended session (TunnelController.cs:199-212).

Reached by the models, or seen while reading, but contradicting no document or
test:

* *A restart that nobody hears* (repair.rs:62-73). `changed` compares the
  generation before it creates the `Notified` future. A REPAIR applied between
  the two bumps the generation and notifies nobody; the worker sleeps until the
  next REPAIR, which counts as an unresolved one.
* *Numbers that start over* (protocol.rs:3024-3028). An orphaned, unsettled
  round is dropped, and the next one starts at 1 although the client remembers
  higher numbers; its REPAIRs are ignored until the count has caught up.
* *A start that goes unseen* (worker.rs:697). The unbiased `select!` may take
  the result of a session before the message that the allocation has started;
  the lease is then given back although it was used. `AllocationsBounded`
  counts, like the code, the attempts that were seen.
* *A gap without a clock* (flow_frame.rs:172). A frame that fills the first of
  two gaps clears `gap_started_ms`; what waits behind the second is not timed
  until another frame of the flow is stored.
* *A mark that expires too early* (protocol.rs:3468). A migration may wait in
  `pending_router` while the target shard's queue is full. After two seconds
  the mark at the old shard is gone, the endpoint still bound there, and the
  next GETCONF makes a second session. Both are adopted; the second takes over
  the `by_peer` entry of the first, whose later removal deletes it. With
  `Prompt = FALSE` TLC shows this as a violation of `TablesAgree`.
* *Bindings that are lost* (dataplane.rs:117-133). `bind_endpoint` and
  `bind_tunnel` ignore a full queue. `Reached` therefore speaks about
  behaviours without an overflow.
* *Tables that only grow*: `stream_repairs` for settled rounds
  (protocol.rs:3026), `endpoint_shards` of the router (dataplane.rs:715).
* *Expired clients that come back* (web_panel.rs:1144-1147). A client that is
  refused because of MAX_PASSWORDS has already made the expired ones leave
  memory; nothing is submitted, their sessions are not dropped, and a restart
  has them again until the janitor comes.
* *A change without its effect* (web_panel.rs:1257). A handler whose write
  failed returns before it drops the sessions, although the database in memory
  has changed: the tunnel of a deactivated client stays up.
* *Racing refreshes* (protocol.rs:1807-1811). Two `refresh_credentials` may read
  in one order and publish in the other; the older set stays until the next
  change. `CredentialsCurrent` of DeviceControl states the contrary and is not
  checked by a run.
* *A branch that is never taken* (protocol.rs:5145). The overflow part of
  `prune_public_sessions` follows a limit that `SessionCreated` already keeps.
* *A spinning driver* (turn.rs:1048). Once the receiver is dropped,
  `incoming.closed()` is ready each time and the biased `select!` of the stream
  never reads again: an answer to the Deallocate is not seen, and its timeout
  ends the driver.
* *A loop that finds nothing* (TunnelController.cs:104-105). Each TURN address
  gets its route from the log reader as soon as there is a gateway; the late
  loop only waits for those still under way.
* *A shutdown that gives up early* (session.rs:255 on). Streams that are already
  dead use up the two attempts of the DISCONNECT, and a late `DENIED:` to an
  earlier one completes the shutdown.
* *A new TUN device without a purge* (dispatcher.rs:638-656). `run_tun` replaces
  the descriptor without resuming the return queues, so packets queued for the
  old device are written to the new one; and `read_tun` makes a new `FlowSequencer` per
  device; the server's reassembler takes the restart like any other gap.

## 5. Proofs

Each `...Proofs` module extends the module of its component (DataPathProofs
extends the three of the data path, PacketQueue, ReplayWindow and FlowReassembly,
which is why these share no name) and proves safety properties that a run checks
there, for every value of the constants that the component's assumptions allow. All have the same shape: an inductive invariant
`Inv`, a lemma that `Init` implies it, one lemma per action or group of actions
that keeps it, and `Spec => []P` from `Inv => P`. The invariants TLC can evaluate
were checked on the component's instance before they were proved; those of
ReplayWindow and FlowReassembly speak of *some* true number behind a wrapped one
and are proved only.

| Module | Theorems (property) |
|---|---|
| DataPathProofs, part 1 (PacketQueue) | `TypeCorrect` (`TypeOK`), `WakeupNeverLost` (`NoLostWakeup`), `DeliveryIsFresh` (`DeliveredFresh`), `StrandingIsBounded` (`StrandedBounded`) |
| DataPathProofs, part 2 (ReplayWindow) | `FiltersExact` (`MatchesReference`) |
| DataPathProofs, part 3 (FlowReassembly) | `PendingExact` (`TotalExact`), `FlowsInOrder` (`OutputOrdered`), `NothingLost` (`Complete`) |
| PersistenceProofs | `QueueStaysBounded` (`QueueBounded`), `StoreImplemented` (`ImplementsStore`), `AcknowledgedIsDurable` (`AckedUnlessFailed`), `CountersRunForward` (`CountersForward`), `DiskCatchesUp` (`CaughtUp`) |
| WorkerPoolProofs | `NoCredentialOverused` (`AllocationsBounded`), `RefusedStaysOut` (`RejectedNotLeased`), `FlightAlwaysOwned` (`FlightNotLeaked`), `OutageAlwaysNoticed` (`OutageRefreshes`), `OldLeaseIsHarmless` (`StaleLeaseHarmless`) |
| StreamRepairProofs | `RestartsOnce` (`OneRestartPerSequence`), `FirstRepairIsFree` (`FirstRepairKeepsCredentials`), `GraceIsRespected` (`GraceRespected`) |
| DeviceControlProofs | `DevicesAreSerial` (`EpochSerial`), `TunnelsAreListed` (`TunnelListed`), `TunnelsAreAuthorized` (`TunnelAuthorized`), `TunnelsAreCurrent` (`TunnelEpochCurrent`), `DisconnectIsForItsEpoch` (`DisconnectSparesNewer`) |
| TurnAllocationProofs | `ChannelIsBacked` (`ChannelBacked`), `AllocationIsReturned` (`AllocationReturned`) |
| SessionTableProofs | `RoutesAlwaysLive` (`RoutesLive`), `TablesAlwaysAgree` (`TablesAgree`), `StreamsAlwaysServed` (`StreamsServed`), `SessionsReached` (`Reached`) |
| WindowsTunnelProofs | `TransportStaysOutside` (`TransportOutside`), `LatestDnsWins` (`DnsLatest`), `StopLeavesNothing` (`CleanAfterStop`) |

### The invariants, and why they are needed

**PacketQueue.** `TypeOK` is inductive by itself: the queue is only ever extended
at the back and shortened at the front, and a full lane keeps its length.
`NoLostWakeup` speaks about a sleeping receiver only; that it holds when the
receiver falls asleep depends on the steps before. `WakeInv` has three parts.
`PermitInv`: nobody sleeps over a stored permit. `PacketInv`: from the second
look at the queue on, packets in the queue imply a stored permit or a sender
that still has to notify. `LastSenderInv`: from the creation of the future on,
if all senders are gone, the future has been completed or the last one still has
to call `notify_waiters`. This is where it matters that `recv` creates the
future *before* it looks again. `EpochInv` says that each packet carries as its
tag the number of resumes at its birth; `ClosedInv` that after the receiver's
drop has begun no sender becomes in flight any more.

**ReplayWindow.** A bit of the ring says nothing by itself: it stands for a
number only together with the newest one. `RingInv` gives the ring its meaning on
true numbers. `RingAgrees`: the highest number of the filter is, on the wire (on
the client: up to whole cycles), the greatest accepted one. `RingHolds`: a slot
is set exactly when the number of the window that falls on it was accepted; the
window is no longer than the ring, so there is one such number per slot
(`SlotApart`). An advance clears the slots of the numbers it passes, which are
exactly those that leave the window. Below are the lemmas on remainders
(`ModUnique`, `ModApart`, `ModMinus`, ...): numbers less than the modulus apart
are equal when their remainders are, and the wrapped difference has the sign of
the true one within half the modulus (`WireDistance`, `ExtendIs`).

**FlowReassembly.** Three invariants. *`HoldInv`*, for `TotalExact`: every
FlowState is typed and finite and the total is the number of (key, frame) pairs
held. `push_at` is taken apart into the steps that change its `w` (`Expire`,
`Released`, `Added`, `Jumped`, ...), and each keeps `Work(w, R)`: the total is
that of the other flows, `R`, and the frames of this one. The bound needs that a
full table releases a frame: a frame stored into it is forward, because making
room that released nothing left the expected number alone.

*`OrderInv`*, for `OutputOrdered`: the sequencer stamps packet `n` with `n` modulo
the modulus and a new sender id has no frames yet (`SeqInv`, `Stamped`); for each
flow there is a true expected number `e` behind the wrapped one, all of the
output lies below it and increases (`Placed`), and every pending frame is within
half the modulus of it (`Place`). So "forward" on the wire is "greater" on true
numbers (`FrameIn`), and every step of `push_at` only moves `e` up past what it
releases (`Ordered`). A flow the table does not know expects 0 on the wire, which
is the true 0 or the true modulus (`NewPlace`). The invariant is about `out`, the
output since the last clear; nothing relates it to `earlier`.

*`FillInv`*, for `Complete`: when the paths only reorder, the frames that arrived
are the numbers below `e`, all of them out, and the pending ones above it;
`e` itself is missing (`Gapless`). As no frame is overtaken by more than
`MaxPerFlow` others, the pending ones and the new one are at most that many
(`FramesBetween`), so nothing is ever released to make room, and after a drain
the next number is missing again (`DrainGapless`).

**Persistence.** `DurableInv` orders the places a content can be in: disk, job of
the writer, queued snapshot and memory each hold a content of the history, none
older than the one before it (`HistoryInv`), and the queue is at most a snapshot
followed by one merged traffic update (`QueueShape`). That gives the bound and
the refinement: a commit moves the disk forward along the history or only its
counters. For `AckedUnlessFailed` a handler's *revision* has to be tied to its
*version*: `RevisionInv` says that a revision that somebody waits for is
settled, or is in the snapshot being written, or in one queued behind a job with
a smaller revision. For the counters, `ForwardInv` says that they grow along the
same way, including what a flush has read and not queued yet, and `EventualInv`
that writing everything that is queued would bring the disk to the memory, up to
what a flush still holds. Both speak of the counters that are not `crossed`, and
`CrossInv` makes that inductive: a counter that is held by two flushes is
crossed, so of the others no second reading is under way that could be queued
behind a younger one.

**WorkerPool.** Attempts are counted per generation, leases are not: `LeaseInv`
says that the attempts of the current generation that were seen, together with
the workers that hold a lease of it, are at most the reservations, of which
there are at most `PerCredential`. `QuotaInv` ties the refused credential to
`blocked` and to an empty cache; `Mutex` says that the worker that fetches is
the holder. `OutageInv` says that while the outage stands and the configuration
counts as sent, some worker is connected or is still to look at the count, so
the last one cannot miss zero; it needs `Counted`, that `active` is the number
of workers in a connection.

**StreamRepair.** A restart happens several steps after the
compare-and-exchange that allows it. `OnceInv` counts the readers in between:
restarts and winners that have still to restart are together at most the number
of sequences issued to the stream up to the last one exchanged. `CostInv` does
the same for credentials, without the first. `ReaderInv` is what a reader
remembers of its message, `IssuedInv` what the messages under way may contain.
`GraceInv`: every stream of the round has been missing since its first
reconcile.

**DeviceControl.** `SlotInv`: a task inside its critical section holds the mutex
of the slot it remembers *and* that slot is still the one of its device in the
map; either half alone is lost to the sweeper or to a refused GETCONF. The other
properties speak about an empty channel, so the invariant has to say what is
true before: every admitted session that the table, the database or the slot no
longer agrees with is doomed by a command in the channel, or the task or handler
that will queue that command is under way, or it is exempt (`ListInv`,
`AuthInv`, `EpochInv`). `DisconnectInv` says which tunnels a queued
DisconnectDevice will find. That a new slot can always be had needs a counting
argument: devices and tasks refer to fewer slots than there are.

**TurnAllocation.** The driver learns of the core through events, one at a time.
`CoreOk` is what holds of the core alone; `Faithful` is proved of every operation
of the core: the events it adds tell the difference it makes. `NewsInv` combines
them: whoever believes in the channel is right or the contrary is queued, and
the same for the end of the allocation. `SentInv` and `EndInv` say that a driver
ends only on a retired core or before its first packet. The control
packets the core has queued are a count per operation, because their order does
not matter to it.

**SessionTable.** Three invariants, each on top of the first.

*`TableInv`* is what holds in every behaviour, with queues that overflow and
marks that expire at any time. `LocalInv` is about one shard: by_id and the slab
agree, by_peer leads only to sessions of its endpoint, a route is that of the
registered session in its slot, a stream has one. It needs two facts from
outside. A session that is filed must have a new id: `PlaceInv` says that every
session is in one place, in one table or in one message (a migration in a
queue of the router, waiting there, or an adoption in the queue of a shard). A
new registration must displace no other session: `RegInv` says that the numbers
of the activations in a queue grow and are above those in the table.
`MessageInv` and `JobInv` say what messages and requests may contain. This gives
`RoutesLive`.

*`EndpointInv`*, under `Prompt`, adds that an endpoint has one session
(`OneEach`), and that the session is where the endpoint is bound (`BoundInv`).
Both depend on what may still come: a GETCONF lies in the queue of the shard the
endpoint is bound to, or of one that still has the mark (`MarkInv`, `ArriveInv`);
a migration is behind every bind of its endpoint in the same queue (`LeaveInv`),
and none is left when it has been taken (`WaitInv`, `ArriveInv`). This gives
`TablesAgree`; without `Prompt` it is false (section 4).

*`StreamInv`*, as long as no `try_send` has failed, is for `StreamsServed`. A
stream can only be left without a route when the session that had it and the one
that should take it over are of different generations, so the invariant has to
exclude two registered generations of one device on a shard (`GenOK`). That
holds because the commands of one GETCONF come in pairs under the lock of the
device: `Follows` says that the last commands for a device before a place of a
queue, or the registered sessions when there is no epoch before it, are of one
generation; it holds at every activation (`ActivateInv`) and at the end of every
queue for the request that has the lock (`LockInv`). `HomeInv` says that
sessions live on the shard of their device and that the router knows or is being
told; with `BoundInv` it gives `Reached`.

**WindowsTunnel.** `LockInv`, `DnsLockInv` and `ChildInv` tie the two semaphores
and the running commands to the places of the tasks. `RouteInv`: the record of
RouteManager and the routes of the system differ at most by the route whose
command has just succeeded under the lock, and by the routes (`past.kept`) that
an earlier stop could not delete in time; so `Dispose`, which waits for the
lock, misses none. `LateInv` says what can still be running of an earlier run:
no command that adds a route, for `Dispose` has waited for those, but netsh with
a DNS server and the quiet deletions, which concern only routes in `past.kept`.
`OwedInv`: every known address has its
route, was refused, or is owed by a task that is going to add it. `StageInv` and
`LastDnsInv` follow the start: from `Configured` on the DNS of the adapter is the
one applied, unless a task is about to apply the latest.

### Assumptions

Beyond the types and signs of the numbers: the sets of senders, workers,
streams, readers, devices, sessions and tasks are finite, as they are in any
run of the program; the marks for "nobody" and "nothing" (`"free"`, `NoValue`,
`None`) are none of the values they stand beside; devices and passwords are
different things. The numbers that only bound a TLC instance (`Max...`, `FlowSends`, `FlowLag`) are
arbitrary naturals. For SessionTable there are at least as many slots as
sessions can be made (the slab grows), and `TablesAlwaysAgree` and
`SessionsReached` are for `Prompt`. For ReplayWindow a packet is at most half the
modulus late and fewer numbers than that are lost in a row (2^15 in the code:
farther apart, 16 bits cannot tell old from new); `FiltersExact` is for the
server, and for the client when the first packet sent is the first received.
`FlowsInOrder` and `NothingLost` are for behaviours that send fewer packets than
half the modulus (2^31 in the code), starting from any number, so across a wrap;
without it a flow stuck for that long takes an old number for a new one.
`NothingLost` also needs that the limit of one flow is within that of the table
(96 and 4096 in the code). TLC evaluates the assumptions of the modules in the
runs, and the instances that are run satisfy the hypotheses of the theorems.

The proofs led to two corrections of the model. `missingFor` of StreamRepair, the
history behind `GraceRespected`, counted only reconciles in which a round
existed; it now counts every one that finds no session of the stream, and the
property is the stronger for it. DeviceControl was checked only as long as no
command was lost; the invariants hold without that restriction, and the run now
does without it too.

### Only model-checked

* Liveness under fairness: `ReceiverWakes`, `CancelStops`, `AnswerComes`,
  `DriverEnds`, `DeathReported`, `StopEnds`.

Every invariant and every action property that a run checks is also the
statement of a theorem. Liveness stays with TLC: TLAPS does not reason about
`ENABLED` and fairness.

No module that is proved about, nor a module it uses, declares a RECURSIVE
operator.

## 6. What is not modelled, and the plan

Contents of packets, encryption, obfuscation, FEC coding, logging, metrics, the
pages of the web panel and the graphical part of the clients are out: their
correctness is about bytes or pictures and not about order. Time is a counter
where a deadline matters and a free choice elsewhere. Panics and the restart of
a whole dataplane are not modelled.

* *ClientDispatcher*: which of the live workers a packet takes decides its cost,
  not its correctness; what happens to it in the queue is PacketQueue, and what
  a reordered or lost packet does is FlowReassembly.
* *DownlinkQueue*: a ring per address and class inside one thread; its unit
  tests reach its cases.
* *ShutdownCoordinator*: best effort by design (two attempts and a timeout, then
  the client ends); section 4 says what was seen in it. What the server does
  with a DISCONNECT is DeviceControl.
* *SelectiveFec*, *PacketPool*: pure functions, and ownership that the compiler
  checks.
* *TransparentProxy*: kernel sockets and netfilter decide most of it.
* *Authentication*: conversations with an external service; WorkerPool models
  what they return.
* *AndroidClient*: driven by callbacks whose order is the Android platform's,
  which this repository does not contain.
* *SessionTable with DeviceControl* are not composed into one state machine:
  each is the environment of the other, with more behaviour than the other
  allows (SessionTable leaves open which GETCONFs are accepted, DeviceControl
  when the engine gives up a session). Their product is out of TLC's reach.

Simplifications inside the modules, none of which a property depends on:

* *SessionTable*: a session reaches `ActivateTunnel` only through GETCONF. The
  same command from `ensure_control_tunnel` (protocol.rs:4882-4921), without the
  lock of the device and without SetAuthoritativeEpoch, is left out, and the
  worker of a session is fixed when it is made although `handle_getconf` stores
  it again (protocol.rs:4739-4741).
* *DeviceControl*: a refused GETCONF gives up the slot it has created
  (protocol.rs:4815-4818), the lock (4870) and its session (4874) in one step.
  An entry that has expired counts as valid until the janitor removes it (5203);
  `is_expired` (4309) would refuse it earlier.
* *TurnAllocation*: `start_allocation` does not look at the state of the core
  (turn_core.rs:336-342, with its error path at turn.rs:327-330). When the
  driver has ended before, the code fails at once; the model goes on with a core
  that is destroyed and with `terminal` set, so that the owner fails at its
  first wait. While closing, the driver always pumps after an answer; the code
  may put that off to the next deadline of the core when a packet that is no
  answer follows it (turn.rs:802-821).
* *WindowsTunnel*: a click does not come between the end of `StopAsync` and the
  continuations it has cancelled, which are in the message queue by then. Two
  quiet deletions that go wrong in one `Dispose` count as one failure.

What is left to prove is liveness, which is out of the prover's reach.
