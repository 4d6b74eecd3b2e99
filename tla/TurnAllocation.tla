-------------------------- MODULE TurnAllocation ---------------------------
(***************************************************************************)
(* One TURN allocation of the client: the state machine without I/O        *)
(* (rust-client/turn_core.rs, NativeCore and Inner), the driver task that  *)
(* pumps it (turn.rs, driver_loop_udp and driver_loop_stream), and the     *)
(* owner that connects, binds the channel and gives the allocation back.   *)
(*                                                                         *)
(* Abstractions.  An answer counts only for the pending transaction with   *)
(* its random identifier, so an answer may come as long as the transaction *)
(* that was sent is pending, or stay away.  Messages that fail the         *)
(* fingerprint or the integrity check are dropped by the code and count as *)
(* lost.  Deadlines are timers that may fire in any order; several at once *)
(* are several polls.  Keepalives and log events are left out, and so is   *)
(* the limit of the control ring (16 packets): it holds no more than a     *)
(* copy of every pending request per poll, and the driver empties it       *)
(* before it does anything else, so the order within it does not matter.   *)
(***************************************************************************)
EXTENDS Naturals, Sequences

CONSTANTS
    Transports,         \* subset of {"Datagram", "Stream"}
    MaxTransmissions,   \* MAX_TRANSMISSIONS
    MaxNonceRetries,    \* MAX_NONCE_RETRIES
    MaxChannelFailures, \* MAX_CHANNEL_MAINTENANCE_FAILURES
    MaxTimers,          \* bound: maintenance timers that fire
    MaxErrors           \* bound: failing socket operations

ASSUME TurnAssumption ==
    /\ Transports \subseteq {"Datagram", "Stream"} /\ Transports # {}
    /\ MaxTransmissions \in Nat \ {0} /\ MaxNonceRetries \in Nat
    /\ MaxChannelFailures \in Nat \ {0}
    /\ MaxTimers \in Nat /\ MaxErrors \in Nat

VARIABLES
    transport,
    core,    \* Inner
    driver,  \* locals of the driver task
    shared,  \* DriverShared without the snapshot
    snap,    \* CoreSnapshot: what waiters see
    owner,   \* where the owner is, and the sequence it waits to pass
    rx,      \* the receiver of packets is alive
    timers,  \* counter of the bound MaxTimers
    errors,  \* counter of the bound MaxErrors
    cut      \* ghost: the cleanup ended before the server was told

vars == <<transport, core, driver, shared, snap, owner, rx, timers, errors, cut>>

Operations == {"Allocate", "Refresh", "Deallocate", "Permission", "Channel"}
Timers == {"refresh", "maintenance", "permission", "channel"}
Replies == {"ok", "challenge", "gone", "error"}
States == {"null", "allocating", "ready", "deallocating", "deallocated", "destroying"}
\* STATE_DEALLOCATED and beyond
Over == {"deallocated", "destroying"}

NoTransaction == [sent |-> 0, retries |-> 0, authenticated |-> FALSE, wire |-> FALSE]
NothingPending == [op \in Operations |-> NoTransaction]
\* How many packets of each request wait to be sent.
NoControls == [op \in Operations |-> 0]

Init ==
    /\ transport \in Transports
    /\ core = [state |-> "null", auth |-> FALSE, relay |-> FALSE, channel |-> FALSE,
               expires |-> FALSE, due |-> {}, failures |-> 0, pending |-> NothingPending,
               controls |-> NoControls, events |-> <<>>, shutting |-> FALSE, destroyed |-> FALSE]
    /\ driver = [at |-> "top", pump |-> TRUE, fired |-> "none", cleanup |-> FALSE,
                 requested |-> FALSE, unexpected |-> FALSE]
    /\ shared = [closing |-> FALSE, terminal |-> FALSE, control_sent |-> FALSE,
                 channel |-> FALSE, wake |-> FALSE]
    /\ snap = [state |-> "null", relay |-> FALSE, channel |-> FALSE,
               allocate |-> "none", bind |-> "none", binds |-> 0]
    /\ owner = [at |-> "start", baseline |-> 0]
    /\ rx = TRUE /\ timers = 0 /\ errors = 0 /\ cut = FALSE

-----------------------------------------------------------------------------
(* Inner: functions from a core to a core.                                 *)

push_event(c, e) == [c EXCEPT !.events = Append(@, e)]
StateEvent(s) == [kind |-> "state", state |-> s]
Complete(op, ok) == [kind |-> "complete", op |-> op, ok |-> ok]

\* Mutant: the driver does not hear of it.
SilentState(c, s) == [c EXCEPT !.state = s]

set_state(c, s) == IF c.state = s THEN c ELSE push_event([c EXCEPT !.state = s], StateEvent(s))

has_operation(c, op) == c.pending[op].sent > 0

queue_packet(c, op) == [c EXCEPT !.controls[op] = @ + 1]

\* A second request for a pending ChannelBind repeats its packet.
start_operation(c, op, retries) ==
    IF has_operation(c, op)
    THEN IF op = "Channel" THEN queue_packet(c, op) ELSE c
    ELSE queue_packet([c EXCEPT !.pending[op] =
            [NoTransaction EXCEPT !.sent = 1, !.retries = retries, !.authenticated = c.auth]], op)

\* The transaction goes, with the copies of it that wait to be sent.
Forgotten(c, op) ==
    [c EXCEPT !.pending[op] = NoTransaction, !.controls[op] = 0]

\* Completions that somebody waits for; the others only count in the snapshot.
complete(c, op, ok) == IF op \in {"Allocate", "Channel"} THEN push_event(c, Complete(op, ok)) ELSE c

destroy_allocation(c, op) ==
    set_state([complete(c, op, FALSE) EXCEPT
                  !.controls = NoControls, !.pending = NothingPending, !.channel = FALSE,
                  !.due = {}, !.expires = FALSE, !.relay = FALSE],
              IF op = "Deallocate" THEN "deallocated" ELSE "destroying")

\* Relay, expiry and the refresh timer stay: the server still has the allocation.
destroy_after_channel_rebind_exhausted(c) ==
    set_state([c EXCEPT !.controls = NoControls, !.pending = NothingPending, !.channel = FALSE,
                        !.due = @ \cap {"refresh"}],
              "destroying")

RetryTimer == [Refresh |-> "refresh", Permission |-> "permission", Channel |-> "channel"]

\* schedule_maintenance_retry, or the end of the channel's patience.
complete_failure(c, op) ==
    LET told == complete(c, op, FALSE)
        counted == IF op = "Channel" THEN [told EXCEPT !.failures = @ + 1] ELSE told
    IN  IF op \notin DOMAIN RetryTimer \/ c.state # "ready"
        THEN destroy_allocation(c, op)
        ELSE IF counted.failures >= MaxChannelFailures /\ op = "Channel"
        THEN destroy_after_channel_rebind_exhausted(counted)
        ELSE [counted EXCEPT !.due = @ \cup {RetryTimer[op]}]

complete_success(c, op) ==
    CASE op = "Allocate" ->
            LET held == push_event([c EXCEPT !.relay = TRUE, !.expires = TRUE,
                                             !.due = {"refresh", "maintenance"}],
                                   [kind |-> "relay"])
            IN  IF c.shutting
                THEN start_operation(set_state(held, "deallocating"), "Deallocate", 0)
                ELSE complete(set_state(held, "ready"), op, TRUE)
      [] op = "Refresh" -> [c EXCEPT !.due = @ \cup {"refresh"}, !.expires = TRUE]
      [] op = "Deallocate" ->
            set_state([c EXCEPT !.relay = FALSE, !.expires = FALSE, !.due = @ \ {"refresh"}],
                      "deallocated")
      [] op = "Permission" -> c
      [] op = "Channel" ->
            complete(push_event([c EXCEPT !.channel = TRUE, !.failures = 0], [kind |-> "bound"]),
                     op, TRUE)

\* input_stun.  "challenge": 401 or 438 with a nonce; "gone": 437, and 400 to
\* a ChannelBind; "error": any other code, and a success without its
\* attributes.  A success that was not authenticated is a failure.
input_stun(c, op, reply) ==
    LET t == c.pending[op]
        rest == Forgotten(c, op)
    IN  CASE reply = "gone" -> destroy_allocation(rest, op)
          [] reply = "challenge" /\ t.retries < MaxNonceRetries ->
                start_operation([rest EXCEPT !.auth = TRUE], op, t.retries + 1)
          [] reply = "ok" /\ t.authenticated -> complete_success(rest, op)
          [] OTHER -> complete_failure(rest, op)

\* A deadline of a transaction: send again, or give up.
expire_transaction(c, op) ==
    IF transport = "Stream" \/ c.pending[op].sent >= MaxTransmissions
    THEN complete_failure(Forgotten(c, op), op)
    ELSE queue_packet([c EXCEPT !.pending[op].sent = @ + 1], op)

\* A timer of a ready allocation.
maintain(c, timer) ==
    CASE timer = "refresh" ->
            IF has_operation(c, "Refresh") THEN c
            ELSE start_operation([c EXCEPT !.due = @ \ {timer}], "Refresh", 0)
      [] timer = "maintenance" ->
            LET p == IF has_operation(c, "Permission") THEN c
                     ELSE start_operation([c EXCEPT !.due = @ \ {"permission"}], "Permission", 0)
            IN  IF has_operation(c, "Channel") THEN p
                ELSE start_operation([p EXCEPT !.due = @ \ {"channel"}], "Channel", 0)
      [] timer = "permission" ->
            IF has_operation(c, "Permission") THEN c
            ELSE start_operation([c EXCEPT !.due = @ \ {timer}], "Permission", 0)
      [] timer = "channel" ->
            IF has_operation(c, "Channel") THEN c
            ELSE start_operation([c EXCEPT !.due = @ \ {timer}], "Channel", 0)

\* poll when "fired" is what is due.
poll(c, fired) ==
    IF c.destroyed THEN c
    ELSE IF fired \in Operations /\ has_operation(c, fired) THEN expire_transaction(c, fired)
    ELSE IF c.shutting \/ c.state # "ready" THEN c
    ELSE IF fired = "expiry" THEN destroy_allocation(c, "Refresh")
    ELSE IF fired \in c.due THEN maintain(c, fired)
    ELSE c

\* Mutant: a pending Allocate is forgotten too.
ShutdownForgets(c) ==
    LET closed == [c EXCEPT !.shutting = TRUE, !.channel = FALSE, !.pending = NothingPending,
                            !.due = @ \cap {"refresh"}, !.controls = NoControls]
    IN  IF c.destroyed \/ c.shutting THEN c
        ELSE IF c.state = "ready" \/ (c.state = "destroying" /\ c.expires)
        THEN start_operation(set_state(closed, "deallocating"), "Deallocate", 0)
        ELSE closed

graceful_shutdown(c) ==
    LET closed == [c EXCEPT !.shutting = TRUE, !.channel = FALSE,
                            !.due = @ \cap {"refresh"}, !.controls = NoControls]
    IN  IF c.destroyed \/ c.shutting THEN c
        ELSE IF c.state = "ready" \/ (c.state = "destroying" /\ c.expires)
        THEN start_operation(set_state([closed EXCEPT !.pending = NothingPending], "deallocating"),
                             "Deallocate", 0)
        ELSE IF c.state = "allocating" THEN closed
        ELSE [closed EXCEPT !.pending = NothingPending]

force_destroy(c) ==
    IF c.destroyed THEN c
    ELSE push_event(set_state([c EXCEPT !.destroyed = TRUE, !.controls = NoControls,
                                        !.pending = NothingPending], "destroying"),
                    [kind |-> "forced"])

-----------------------------------------------------------------------------
(* DriverShared.                                                           *)

fail(sh) == IF sh.closing THEN sh ELSE [sh EXCEPT !.terminal = TRUE]
request_cleanup(sh) == [sh EXCEPT !.closing = TRUE, !.channel = FALSE, !.wake = TRUE]

-----------------------------------------------------------------------------
(* The driver task.                                                        *)

At(l) == driver.at = l
Ended(c) == driver' = [driver EXCEPT !.at = "ended"] /\ core' = force_destroy(c)
\* What follows the head of the loop.
Continued(d) == [d EXCEPT !.at = IF d.pump THEN "poll" ELSE "wait"]

top_open ==
    /\ At("top") /\ ~ shared.closing
    /\ driver' = Continued(driver)
    /\ UNCHANGED <<transport, core, shared, snap, owner, rx, timers, errors, cut>>

\* Mutant: what was sent does not matter.
TopAbandons ==
    /\ At("top") /\ shared.closing
    /\ Ended(core)
    /\ UNCHANGED <<transport, shared, snap, owner, rx, timers, errors, cut>>

\* Nothing was ever sent, so there is nothing to give back.
top_unused ==
    /\ At("top") /\ shared.closing /\ ~ shared.control_sent
    /\ Ended(core)
    /\ UNCHANGED <<transport, shared, snap, owner, rx, timers, errors, cut>>

\* MAX_BACKGROUND_CLEANUPS are running, or the deadline of this one passed.
top_cut ==
    /\ At("top") /\ shared.closing /\ shared.control_sent
    /\ Ended(core) /\ cut' = TRUE
    /\ UNCHANGED <<transport, shared, snap, owner, rx, timers, errors>>

\* start_driver_cleanup, then the snapshot decides whether all is done.
top_cleanup ==
    LET c == IF driver.requested THEN core ELSE graceful_shutdown(core)
    IN  /\ At("top") /\ shared.closing /\ shared.control_sent
        /\ IF snap.state \in Over THEN Ended(c)
           ELSE /\ core' = c
                /\ driver' = Continued([driver EXCEPT !.cleanup = TRUE, !.requested = TRUE,
                                                      !.pump = @ \/ ~ driver.requested])
        /\ UNCHANGED <<transport, shared, snap, owner, rx, timers, errors, cut>>

\* pump_native: poll, send all that is queued, take all events.
pump_poll ==
    /\ At("poll")
    /\ core' = poll(core, driver.fired)
    /\ driver' = [driver EXCEPT !.at = "send", !.fired = "none"]
    /\ UNCHANGED <<transport, shared, snap, owner, rx, timers, errors, cut>>

pump_send ==
    \E op \in Operations :
        /\ At("send") /\ core.controls[op] > 0
        /\ core' = [core EXCEPT !.controls[op] = @ - 1, !.pending[op].wire = TRUE]
        /\ shared' = [shared EXCEPT !.control_sent = TRUE]
        /\ UNCHANGED <<transport, driver, snap, owner, rx, timers, errors, cut>>

\* A send fails: the packet is lost and the events stay queued.
pump_send_error ==
    \E op \in Operations :
        /\ At("send") /\ core.controls[op] > 0 /\ errors < MaxErrors
        /\ errors' = errors + 1
        /\ shared' = request_cleanup(fail(shared))
        /\ LET c == [core EXCEPT !.controls[op] = @ - 1] IN
           IF shared.control_sent
           THEN core' = c /\ driver' = [driver EXCEPT !.at = "top", !.pump = TRUE]
           ELSE Ended(c)
        /\ UNCHANGED <<transport, snap, owner, rx, timers, cut>>

pump_sent ==
    /\ At("send") /\ core.controls = NoControls
    /\ driver' = [driver EXCEPT !.at = "events", !.unexpected = FALSE]
    /\ UNCHANGED <<transport, core, shared, snap, owner, rx, timers, errors, cut>>

pump_event ==
    /\ At("events") /\ core.events # <<>>
    /\ LET e == Head(core.events) IN
       /\ core' = [core EXCEPT !.events = Tail(@)]
       /\ snap' = CASE e.kind = "state" ->
                       [snap EXCEPT !.state = e.state,
                                    !.channel = @ /\ e.state = "ready",
                                    !.relay = @ /\ e.state \notin Over]
                   [] e.kind = "complete" /\ e.op = "Allocate" ->
                       [snap EXCEPT !.allocate = IF e.ok THEN "ok" ELSE "failed"]
                   [] e.kind = "complete" /\ e.op = "Channel" ->
                       [snap EXCEPT !.bind = IF e.ok THEN "ok" ELSE "failed", !.binds = @ + 1]
                   [] e.kind = "bound" -> [snap EXCEPT !.channel = TRUE]
                   [] e.kind = "relay" /\ core.relay -> [snap EXCEPT !.relay = TRUE]
                   [] OTHER -> snap
       /\ shared' = CASE e.kind = "state" -> [shared EXCEPT !.channel = @ /\ e.state = "ready"]
                     [] e.kind = "bound" -> [shared EXCEPT !.channel = TRUE]
                     [] e.kind = "complete" /\ e.op = "Allocate" /\ ~ e.ok -> fail(shared)
                     [] e.kind = "forced" -> fail(shared)
                     [] e.kind = "relay" /\ ~ core.relay -> request_cleanup(fail(shared))
                     [] OTHER -> shared
       /\ driver' = CASE e.kind = "state" /\ e.state = "destroying" /\ ~ shared.closing ->
                            [driver EXCEPT !.unexpected = TRUE]
                     [] e.kind = "relay" /\ ~ core.relay ->
                            [driver EXCEPT !.at = "top", !.pump = TRUE]
                     [] OTHER -> driver
    /\ UNCHANGED <<transport, owner, rx, timers, errors, cut>>

\* Mutant: an unexpected end is not reported.
PumpEndQuiet ==
    /\ At("events") /\ core.events = <<>>
    /\ driver' = [driver EXCEPT !.at = "top", !.pump = FALSE]
    /\ UNCHANGED <<transport, core, shared, snap, owner, rx, timers, errors, cut>>

pump_end ==
    /\ At("events") /\ core.events = <<>>
    /\ shared' = IF driver.unexpected THEN fail(shared) ELSE shared
    /\ driver' = [driver EXCEPT !.at = "top", !.pump = FALSE]
    /\ UNCHANGED <<transport, core, snap, owner, rx, timers, errors, cut>>

Woken == [driver EXCEPT !.at = "top", !.pump = TRUE]

wait_wake ==
    /\ At("wait") /\ shared.wake
    /\ shared' = [shared EXCEPT !.wake = FALSE]
    /\ driver' = Woken
    /\ UNCHANGED <<transport, core, snap, owner, rx, timers, errors, cut>>

\* The sleep until the next deadline ends: that of a transaction, ...
wait_transaction(op) ==
    /\ At("wait") /\ ~ shared.wake /\ has_operation(core, op)
    /\ driver' = [Woken EXCEPT !.fired = op]
    /\ UNCHANGED <<transport, core, shared, snap, owner, rx, timers, errors, cut>>

\* ... or one of a ready allocation: it expires or wants maintenance.
wait_timer(t) ==
    /\ At("wait") /\ ~ shared.wake /\ timers < MaxTimers
    /\ core.state = "ready" /\ (t \in core.due \/ t = "expiry")
    /\ timers' = timers + 1
    /\ driver' = [Woken EXCEPT !.fired = t]
    /\ UNCHANGED <<transport, core, shared, snap, owner, rx, errors, cut>>

wait_owner_closed ==
    /\ At("wait") /\ ~ rx /\ ~ shared.closing
    /\ shared' = request_cleanup(shared)
    /\ driver' = [driver EXCEPT !.at = "top"]
    /\ UNCHANGED <<transport, core, snap, owner, rx, timers, errors, cut>>

\* The stream's biased select never comes to reading once the receiver is
\* gone: incoming.closed() is ready each time.
wait_packet(op, reply) ==
    /\ At("wait") /\ core.pending[op].wire
    /\ transport = "Datagram" \/ rx
    /\ core' = input_stun(core, op, reply)
    /\ driver' = Woken
    /\ UNCHANGED <<transport, shared, snap, owner, rx, timers, errors, cut>>

wait_error ==
    /\ At("wait") /\ errors < MaxErrors /\ (transport = "Datagram" \/ rx)
    /\ errors' = errors + 1
    /\ shared' = IF transport = "Datagram" /\ shared.closing THEN shared
                 ELSE request_cleanup(fail(shared))
    /\ driver' = Woken
    /\ UNCHANGED <<transport, core, snap, owner, rx, timers, cut>>

\* What the task does once it runs and time passes, ...
Driver ==
    \/ top_open \/ top_unused \/ top_cleanup
    \/ pump_poll \/ pump_send \/ pump_sent \/ pump_event \/ pump_end
    \/ wait_wake \/ wait_owner_closed
    \/ \E op \in Operations : wait_transaction(op)

\* ... and what may happen to it.
Surroundings ==
    \/ top_cut \/ pump_send_error \/ wait_error
    \/ \E op \in Operations, reply \in Replies : wait_packet(op, reply)
    \/ \E t \in Timers \cup {"expiry"} : wait_timer(t)

-----------------------------------------------------------------------------
(* The owner: TurnAllocation.                                              *)

OwnerTo(from, to) == owner.at = from /\ owner' = [owner EXCEPT !.at = to]
Leave == owner' = [owner EXCEPT !.at = "leaving"]

\* connect up to its wait
start_allocation ==
    /\ OwnerTo("start", "allocating")
    /\ core' = start_operation(set_state(core, "allocating"), "Allocate", 0)
    /\ shared' = [shared EXCEPT !.wake = TRUE]
    /\ UNCHANGED <<transport, driver, snap, rx, timers, errors, cut>>

wait_for_allocation ==
    /\ owner.at = "allocating"
    /\ IF snap.allocate = "ok" /\ ~ shared.terminal
       THEN snap.state = "ready" /\ snap.relay /\ OwnerTo("allocating", "ready")
       ELSE (snap.allocate = "failed" \/ shared.terminal) /\ Leave
    /\ UNCHANGED <<transport, core, driver, shared, snap, rx, timers, errors, cut>>

\* ALLOCATION_TIMEOUT
allocation_timeout ==
    /\ owner.at = "allocating" /\ Leave
    /\ shared' = fail(shared)
    /\ UNCHANGED <<transport, core, driver, snap, rx, timers, errors, cut>>

Ready == ~ core.destroyed /\ ~ core.shutting /\ core.state = "ready"

\* prepare_channel finds a channel that the maintenance has bound already.
prepare_channel ==
    /\ shared.channel /\ ~ shared.closing /\ ~ shared.terminal
    /\ OwnerTo("ready", "up")
    /\ UNCHANGED <<transport, core, driver, shared, snap, rx, timers, errors, cut>>

\* bind_channel: its two requests, under the core's lock each.
start_permission ==
    /\ owner.at = "ready" /\ ~ shared.closing /\ ~ shared.terminal /\ ~ shared.channel
    /\ IF Ready
       THEN /\ owner' = [at |-> "permission", baseline |-> snap.binds]
            /\ core' = start_operation(core, "Permission", 0) /\ UNCHANGED shared
       ELSE shared' = fail(shared) /\ Leave /\ UNCHANGED core
    /\ UNCHANGED <<transport, driver, snap, rx, timers, errors, cut>>

start_channel ==
    /\ owner.at = "permission"
    /\ IF Ready
       THEN /\ OwnerTo("permission", "binding")
            /\ core' = start_operation(core, "Channel", 0)
            /\ shared' = [shared EXCEPT !.wake = TRUE]
       ELSE shared' = fail(shared) /\ Leave /\ UNCHANGED core
    /\ UNCHANGED <<transport, driver, snap, rx, timers, errors, cut>>

\* wait_for_completion of the ChannelBind, then of the channel itself.
wait_for_channel ==
    /\ owner.at = "binding"
    /\ IF snap.binds > owner.baseline /\ snap.bind = "ok" /\ ~ shared.terminal
       THEN snap.channel /\ OwnerTo("binding", "up")
       ELSE (snap.binds > owner.baseline \/ shared.terminal) /\ Leave
    /\ UNCHANGED <<transport, core, driver, shared, snap, rx, timers, errors, cut>>

\* A timeout, a cancelled session or ensure_open ends the attempt; a session
\* that was up drops its receiver first.
leave ==
    /\ owner.at \in {"allocating", "ready", "binding", "up"} /\ Leave
    /\ rx' = (rx /\ owner.at # "up")
    /\ UNCHANGED <<transport, core, driver, shared, snap, timers, errors, cut>>

\* deallocate, and drop: request_cleanup, graceful_shutdown, and the receiver goes.
deallocate ==
    /\ OwnerTo("leaving", "closing")
    /\ shared' = request_cleanup(shared)
    /\ UNCHANGED <<transport, core, driver, snap, rx, timers, errors, cut>>

deallocate_core ==
    /\ OwnerTo("closing", "closed")
    /\ core' = graceful_shutdown(core)
    /\ UNCHANGED <<transport, driver, shared, snap, rx, timers, errors, cut>>

drop ==
    /\ OwnerTo("closed", "gone")
    /\ rx' = FALSE
    /\ UNCHANGED <<transport, core, driver, shared, snap, timers, errors, cut>>

\* deallocate waited a second longer than any cleanup may take.
deallocate_abort ==
    /\ owner.at = "closed" /\ ~ At("ended")
    /\ Ended(core) /\ cut' = TRUE
    /\ UNCHANGED <<transport, shared, snap, owner, rx, timers, errors>>

Waiting == wait_for_allocation \/ wait_for_channel
Closing == deallocate \/ deallocate_core \/ drop
Owner ==
    \/ start_allocation \/ prepare_channel \/ start_permission \/ start_channel
    \/ allocation_timeout \/ leave \/ deallocate_abort
    \/ Waiting \/ Closing

Next == Driver \/ Surroundings \/ Owner

Spec == Init /\ [][Next]_vars

\* The driver task and the owner's wakeups run and transactions time out;
\* nobody has to answer, and neither a timeout of the owner nor the deadline
\* of the cleanup has to come.
FairSpec == Spec /\ WF_vars(Driver) /\ WF_vars(start_allocation \/ start_channel)
                 /\ WF_vars(Waiting) /\ WF_vars(Closing)

-----------------------------------------------------------------------------
\* The types of the variables; a queued packet belongs to a pending
\* transaction, and a transaction was sent at most MaxTransmissions times.
TypeOK ==
    /\ core.state \in States /\ core.due \subseteq Timers
    /\ \A op \in Operations : core.pending[op].sent \in 0 .. MaxTransmissions
    /\ \A op \in Operations : core.controls[op] > 0 => has_operation(core, op)
    /\ core.failures \in 0 .. MaxChannelFailures
    /\ driver.at \in {"top", "poll", "send", "events", "wait", "ended"}
    /\ owner.at \in {"start", "allocating", "ready", "permission", "binding", "up",
                     "leaving", "closing", "closed", "gone"}
    /\ snap.state \in States

\* Who may send data has an allocation with a bound channel behind the
\* channel number, or the news of its end is still queued for the driver.
ChannelBacked ==
    /\ TypeOK
    /\ (shared.channel /\ ~ shared.closing /\ ~ shared.terminal)
         => core.channel \/ core.events # <<>>

\* A driver that ends on its own leaves no allocation behind that the core
\* still holds: it was given back, refused, expired, or never made, also
\* when Allocate succeeds after the owner has gone.
AllocationReturned ==
    (At("ended") /\ ~ cut /\ core.failures < MaxChannelFailures) => ~ core.expires

\* The same for an allocation whose channel could not be bound again.
ExhaustedReturned ==
    (At("ended") /\ ~ cut) => ~ core.expires

\* Cleanup ends by itself, without its deadline.
DriverEnds == shared.closing ~> At("ended")

\* An allocation that dies under its owner is reported to it.
DeathReported == (core.state = "destroying" /\ ~ shared.closing) ~> (shared.terminal \/ shared.closing)
=============================================================================
