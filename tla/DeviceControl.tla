--------------------------- MODULE DeviceControl ----------------------------
(***************************************************************************)
(* The control plane of the server (rust-server/protocol.rs): control_loop *)
(* and the tasks it spawns for GETCONF, DISCONNECT and early tunnel data,  *)
(* the epoch slots that serialise the tasks of one device, the janitors    *)
(* and the sweeper (main.rs), the panel's changes of a client              *)
(* (web_panel.rs), and the publication of credentials.  The dataplane is   *)
(* one engine that executes queued commands in order; SessionTable has its *)
(* tables and shards, Persistence what a handler waits for.                *)
(*                                                                         *)
(* A session belongs to the GETCONF that created it and keeps its password,*)
(* device, epoch (generation and salt) and worker: the engine answers a    *)
(* GETCONF with another identity by a new session.  UpdateEpoch and        *)
(* SetDataFrames therefore repeat what the engine has; they are sent with  *)
(* SetAuthoritativeEpoch and counted as one command.                       *)
(***************************************************************************)
EXTENDS Naturals, Sequences, FiniteSets, SequencesExt

CONSTANTS
    Sessions,      \* session ids: natural numbers given in this order
    Ident,         \* per session: [pw, dev, epoch, worker]
    Passwords, Devices, Epochs,
    Bound,         \* the bindings the database starts with
    Jobs,          \* CONTROL_TASK_CAPACITY tasks
    MaxIps,        \* addresses get_next_ip can give
    PublicLimit,   \* PUBLIC_SESSION_LIMIT
    CommandCap,    \* capacity of the command channel
    MaxTasks,      \* bound: control tasks started
    MaxEvents      \* bound: changes of a client, and sessions lost to idleness or a full channel

None == "none"

ASSUME DeviceControlAssumption ==
    /\ Sessions \subseteq Nat
    /\ IsFiniteSet(Sessions) /\ IsFiniteSet(Devices) /\ IsFiniteSet(Jobs)
    /\ Ident \in [Sessions -> [pw : Passwords, dev : Devices, epoch : Epochs, worker : Nat]]
    /\ Bound \in [Passwords -> Devices \cup {None}]
    /\ MaxIps \in Nat /\ PublicLimit \in Nat /\ CommandCap \in Nat
    /\ MaxTasks \in Nat /\ MaxEvents \in Nat
    /\ None \notin Devices \cup Epochs \cup Jobs /\ Devices \cap Passwords = {}

VARIABLES
    entry,     \* db.passwords: "on", "off" (deactivated) or "gone" (deleted, expired)
    bind,      \* password -> device_id or None
    ips,       \* db.devices: devices that have an address
    slotOf,    \* device_epochs: device -> slot, 0 when absent
    slot,      \* the slots behind their Arcs: [epoch, holder]
    listed,    \* App.sessions: "new" (SessionCreated under way), "in", "out"
    tunnelled, \* Session.has_tunnel
    known,     \* Session.worker_id is set
    engine,    \* "unborn", "setup", "tunnel", "dead"
    creds,     \* CredentialSet of the engine
    cmds,      \* command channel to the engine
    job,       \* control tasks
    panel,     \* the handler or janitor that changes a client
    tasks, events, \* counters of the bounds
    exempt     \* ghost: devices and passwords for which a command was lost or a handler gave up

dbVars == <<entry, bind, ips>>
slotVars == <<slotOf, slot>>
publicVars == <<listed, tunnelled, known>>
engineVars == <<engine, creds>>
vars == <<dbVars, slotVars, publicVars, engineVars, cmds, job, panel, tasks, events, exempt>>

\* As many slots as devices and tasks can refer to at one time.
Slots == 1 .. Cardinality(Devices) + Cardinality(Jobs)
NewSlot == [epoch |-> None, holder |-> None]
Idle == [at |-> "idle", s |-> 0, slot |-> 0, fresh |-> FALSE, changed |-> FALSE, set |-> {}]
Resting == [at |-> "idle", pw |-> None, todo |-> <<>>]

Init ==
    /\ entry = [p \in Passwords |-> "on"] /\ bind = Bound
    /\ ips = {Bound[p] : p \in Passwords} \ {None}
    /\ slotOf = [d \in Devices |-> 0]
    /\ slot = [n \in Slots |-> NewSlot]
    /\ listed = [s \in Sessions |-> "out"]
    /\ tunnelled = [s \in Sessions |-> FALSE] /\ known = tunnelled
    /\ engine = [s \in Sessions |-> "unborn"] /\ creds = Passwords
    /\ cmds = <<>>
    /\ job = [j \in Jobs |-> Idle] /\ panel = Resting /\ tasks = 0 /\ events = 0
    /\ exempt = {}

-----------------------------------------------------------------------------
(* The command channel: try_send.                                          *)

SetAuthoritativeEpoch(d, e) == [op |-> "SetAuthoritativeEpoch", dev |-> d, epoch |-> e]
ActivateTunnel(s) == [op |-> "ActivateTunnel", session |-> s]
DropSession(s) == [op |-> "DropSession", session |-> s]
DropPassword(p) == [op |-> "DropPassword", pw |-> p]
DisconnectDevice(d, s) == [op |-> "DisconnectDevice", dev |-> d, requester |-> s]
ReplaceCredentials(set) == [op |-> "ReplaceCredentials", set |-> set]

Room == CommandCap - Len(cmds)
\* The commands of the sequence c that still fit.
Fitting(c) == SubSeq(c, 1, IF Len(c) <= Room THEN Len(c) ELSE Room)

DropSessions(S) == [i \in 1 .. Cardinality(S) |-> DropSession(SetToSeq(S)[i])]

\* Senders that ignore the error of try_send.
SendAll(c, about) ==
    /\ cmds' = cmds \o Fitting(c)
    /\ exempt' = IF Len(c) <= Room THEN exempt ELSE exempt \cup about

-----------------------------------------------------------------------------
(* The engine.                                                             *)

Live == {s \in Sessions : engine[s] \in {"setup", "tunnel"}}
Killed(S) == engine' = [s \in Sessions |-> IF s \in S THEN "dead" ELSE engine[s]]

Event == events < MaxEvents /\ events' = events + 1

\* A client's first GETCONF under a known password makes a session and its
\* SessionCreated; with a full event channel the event is lost.
EngineCreate(s) ==
    /\ engine[s] = "unborn" /\ Ident[s].pw \in creds
    /\ \A x \in Sessions : x < s => engine[x] # "unborn"
    /\ engine' = [engine EXCEPT ![s] = "setup"]
    /\ \/ listed' = [listed EXCEPT ![s] = "new"] /\ UNCHANGED events
       \/ Event /\ UNCHANGED listed
    /\ UNCHANGED <<dbVars, slotVars, tunnelled, known, creds, cmds, job, panel, tasks, exempt>>

\* Idle timeouts and everything else that makes the engine give up a session.
EngineRemove(s) ==
    /\ s \in Live /\ Event
    /\ Killed({s}) /\ tunnelled' = [tunnelled EXCEPT ![s] = FALSE]
    /\ UNCHANGED <<dbVars, slotVars, listed, known, creds, cmds, job, panel, tasks, exempt>>

\* The sessions a command removes.
Removed(c) ==
    CASE c.op = "SetAuthoritativeEpoch" -> {s \in Live : Ident[s].dev = c.dev /\ Ident[s].epoch # c.epoch}
      [] c.op = "DropSession" -> {s \in Live : s = c.session}
      [] c.op = "DropPassword" -> {s \in Live : Ident[s].pw = c.pw}
      [] c.op = "DisconnectDevice" -> {s \in Live : s = c.requester \/ Ident[s].dev = c.dev}
      [] c.op = "ReplaceCredentials" -> {s \in Live : Ident[s].pw \notin c.set}
      [] OTHER -> {}

\* on_command
EngineCommand ==
    /\ cmds # <<>>
    /\ LET c == Head(cmds)
           dead == Removed(c)
           up == {s \in Live : c.op = "ActivateTunnel" /\ s = c.session}
       IN  /\ engine' = [s \in Sessions |-> IF s \in dead THEN "dead"
                                            ELSE IF s \in up THEN "tunnel" ELSE engine[s]]
           /\ tunnelled' = [s \in Sessions |-> (tunnelled[s] \/ s \in up) /\ s \notin dead]
           /\ creds' = IF c.op = "ReplaceCredentials" THEN c.set ELSE creds
    /\ cmds' = Tail(cmds)
    /\ UNCHANGED <<dbVars, slotVars, listed, known, job, panel, tasks, events, exempt>>

-----------------------------------------------------------------------------
(* control_loop: the table of public sessions.                             *)

In == {s \in Sessions : listed[s] = "in"}

SessionCreated(s) ==
    /\ listed[s] = "new"
    /\ listed' = [listed EXCEPT ![s] = IF Cardinality(In) < PublicLimit THEN "in" ELSE "out"]
    /\ UNCHANGED <<dbVars, slotVars, tunnelled, known, engineVars, cmds, job, panel, tasks, events, exempt>>

SessionClosed(s) ==
    /\ listed[s] = "in" /\ engine[s] = "dead"
    /\ listed' = [listed EXCEPT ![s] = "out"]
    /\ UNCHANGED <<dbVars, slotVars, tunnelled, known, engineVars, cmds, job, panel, tasks, events, exempt>>

\* Mutant: the engine is not told.
PruneQuietly(s) ==
    /\ listed[s] = "in" /\ Event
    /\ listed' = [listed EXCEPT ![s] = "out"]
    /\ UNCHANGED <<dbVars, slotVars, tunnelled, known, engineVars, cmds, job, panel, tasks, exempt>>

\* prune_public_sessions: a session that was not heard of for long.
prune_public_sessions(s) ==
    /\ listed[s] = "in" /\ Event
    /\ listed' = [listed EXCEPT ![s] = "out"]
    /\ SendAll(DropSessions({s}), {Ident[s].dev, Ident[s].pw})
    /\ UNCHANGED <<dbVars, slotVars, tunnelled, known, engineVars, job, panel, tasks>>

-----------------------------------------------------------------------------
(* The epoch slots.                                                        *)

Device(j) == Ident[job[j].s].dev

\* A slot without a reference: neither in the map nor held by a task.
UnusedSlot ==
    CHOOSE n \in Slots : (\A d \in Devices : slotOf[d] # n) /\ (\A j \in Jobs : job[j].slot # n)

\* lock_device_epoch up to the mutex: take the slot of the device of session
\* s or make one.
lock_device_epoch(j, s) ==
    LET d == Ident[s].dev
        n == IF slotOf[d] # 0 THEN slotOf[d] ELSE UnusedSlot
    IN  /\ slotOf' = [slotOf EXCEPT ![d] = n]
        /\ slot' = IF slotOf[d] # 0 THEN slot ELSE [slot EXCEPT ![n] = NewSlot]
        /\ job' = [job EXCEPT ![j] = [Idle EXCEPT !.at = "lock", !.s = s, !.slot = n,
                                                  !.fresh = (slotOf[d] = 0)]]

\* Mutant: the slot that was waited for counts, replaced or not.
StaleSlotCounts(d, n) == TRUE
\* A slot that was replaced meanwhile does not count.
current_device_epoch(d, n) == slotOf[d] = n

\* The mutex of the slot is ours and the slot still the device's.
Acquire(j, from, to) ==
    /\ job[j].at = from /\ slot[job[j].slot].holder = None
    /\ current_device_epoch(Device(j), job[j].slot)
    /\ slot' = [slot EXCEPT ![job[j].slot].holder = j]
    /\ job' = [job EXCEPT ![j].at = to]
    /\ UNCHANGED <<dbVars, slotOf, publicVars, engineVars, cmds, panel, tasks, events, exempt>>

\* Otherwise the loop of lock_device_epoch starts again.
Retry(j) ==
    /\ job[j].at = "lock" /\ slot[job[j].slot].holder = None
    /\ ~ current_device_epoch(Device(j), job[j].slot)
    /\ lock_device_epoch(j, job[j].s)
    /\ UNCHANGED <<dbVars, publicVars, engineVars, cmds, panel, tasks, events, exempt>>

Unlocked(j) == [slot EXCEPT ![job[j].slot].holder = None]

\* An hour without use is abstracted to: nobody holds the slot.
device_epoch_sweeper(d) ==
    /\ slotOf[d] # 0 /\ slot[slotOf[d]].holder = None
    /\ \A s \in In : Ident[s].dev # d
    /\ slotOf' = [slotOf EXCEPT ![d] = 0]
    /\ UNCHANGED <<dbVars, slot, publicVars, engineVars, cmds, job, panel, tasks, events, exempt>>

-----------------------------------------------------------------------------
(* GETCONF.                                                                *)

\* control_loop spawns a task for the payload of a session in the table.
Start(j, s) ==
    /\ job[j].at = "idle" /\ s \in In
    /\ tasks < MaxTasks /\ tasks' = tasks + 1

\* getconf_credential_access
getconf_credential_access(p, d) == entry[p] = "on" /\ bind[p] \in {None, d}

\* drop_exact_session
drop_exact_session(s) ==
    /\ listed' = [listed EXCEPT ![s] = "out"]
    /\ SendAll(DropSessions({s}), {Ident[s].dev, Ident[s].pw})

\* handle_getconf up to the mutex: the preliminary check refuses or goes on.
handle_getconf(j, s) ==
    /\ Start(j, s)
    /\ IF getconf_credential_access(Ident[s].pw, Ident[s].dev)
       THEN lock_device_epoch(j, s) /\ UNCHANGED <<listed, cmds, exempt>>
       ELSE drop_exact_session(s) /\ UNCHANGED <<slotVars, job>>
    /\ UNCHANGED <<dbVars, tunnelled, known, engineVars, panel, events>>

\* The public sessions an admitted GETCONF of session s puts out:
\* purge_stale_device_sessions and purge_replaced_worker_sessions.
purge_stale_device_sessions(s) ==
    {x \in In \ {s} : Ident[x].dev = Ident[s].dev /\ Ident[x].epoch # Ident[s].epoch}
purge_replaced_worker_sessions(s) ==
    {x \in In \ {s} : /\ Ident[x].dev = Ident[s].dev /\ Ident[x].epoch = Ident[s].epoch
                      /\ Ident[x].worker = Ident[s].worker /\ known[x]}

\* Mutant: the first epoch stays.
AdmitFirst(current, epoch) == IF current = None THEN epoch ELSE current
\* DeviceEpochState::admit: any other epoch replaces the current one.
admit(current, epoch) == epoch

\* Under the lock of the device and of the database: access is checked
\* again, the epoch admitted, the others purged, device and address bound.
getconf_admit(j) ==
    LET s == job[j].s
        d == Ident[s].dev
        p == Ident[s].pw
        n == job[j].slot
        purged == purge_stale_device_sessions(s) \cup purge_replaced_worker_sessions(s)
        addressed == IF Cardinality(ips) < MaxIps THEN ips \cup {d} ELSE ips
    IN  /\ job[j].at = "admit" /\ getconf_credential_access(p, d)
        /\ slot' = [slot EXCEPT ![n].epoch = admit(@, Ident[s].epoch)]
        /\ known' = [known EXCEPT ![s] = TRUE]
        /\ listed' = [x \in Sessions |-> IF x \in purged THEN "out" ELSE listed[x]]
        /\ SendAll(DropSessions(purged), {d})
        /\ bind' = [bind EXCEPT ![p] = d]
        /\ ips' = addressed
        /\ job' = [job EXCEPT ![j].at = "send",
                              ![j].changed = (bind[p] = None \/ addressed # ips)]
        /\ UNCHANGED <<entry, slotOf, tunnelled, engineVars, panel, tasks, events>>

\* The second check refuses: a slot made for this request goes again.
getconf_refuse(j) ==
    LET s == job[j].s
        d == Ident[s].dev
    IN  /\ job[j].at = "admit" /\ ~ getconf_credential_access(Ident[s].pw, d)
        /\ slotOf' = IF job[j].fresh /\ current_device_epoch(d, job[j].slot)
                     THEN [slotOf EXCEPT ![d] = 0] ELSE slotOf
        /\ slot' = Unlocked(j)
        /\ drop_exact_session(s)
        /\ job' = [job EXCEPT ![j] = Idle]
        /\ UNCHANGED <<dbVars, tunnelled, known, engineVars, panel, tasks, events>>

\* The commands of an admitted GETCONF, all under the lock: UpdateEpoch,
\* SetDataFrames and SetAuthoritativeEpoch, then ActivateTunnel.
Admission(s) ==
    <<SetAuthoritativeEpoch(Ident[s].dev, Ident[s].epoch)>>
        \o (IF Ident[s].dev \in ips THEN <<ActivateTunnel(s)>> ELSE <<>>)

\* The first command that does not fit ends the task, the guard unlocks the
\* slot; has_tunnel is set before ActivateTunnel is sent.  A change of the
\* database is followed by refresh_credentials.
getconf_send(j) ==
    LET s == job[j].s
        d == Ident[s].dev
        fits == Len(Admission(s)) <= Room
    IN  /\ job[j].at = "send"
        /\ cmds' = cmds \o Fitting(Admission(s))
        /\ exempt' = IF fits THEN exempt ELSE exempt \cup {d}
        /\ tunnelled' = [tunnelled EXCEPT ![s] = @ \/ (d \in ips /\ Room > 0)]
        /\ slot' = Unlocked(j)
        /\ job' = [job EXCEPT ![j] = IF fits /\ job[j].changed
                                     THEN [Idle EXCEPT !.at = "build"] ELSE Idle]
        /\ UNCHANGED <<dbVars, slotOf, listed, known, engineVars, panel, tasks, events>>

-----------------------------------------------------------------------------
(* DISCONNECT and data before the tunnel.                                  *)

device_control_authorized(p, d) == entry[p] = "on" /\ bind[p] = d /\ d \in ips

\* lock_existing_device_epoch up to the mutex; without a slot the task ends.
lock_existing_device_epoch(j, s) ==
    LET n == slotOf[Ident[s].dev] IN
    job' = [job EXCEPT ![j] = IF n = 0 THEN Idle
                             ELSE [Idle EXCEPT !.at = "relock", !.s = s, !.slot = n]]

\* handle_disconnect up to the mutex; who is refused changes nothing.
handle_disconnect(j, s) ==
    /\ Start(j, s)
    /\ device_control_authorized(Ident[s].pw, Ident[s].dev)
    /\ lock_existing_device_epoch(j, s)
    /\ UNCHANGED <<dbVars, slotVars, publicVars, engineVars, cmds, panel, events, exempt>>

RetryExisting(j) ==
    /\ job[j].at = "relock" /\ slot[job[j].slot].holder = None
    /\ ~ current_device_epoch(Device(j), job[j].slot)
    /\ lock_existing_device_epoch(j, job[j].s)
    /\ UNCHANGED <<dbVars, slotVars, publicVars, engineVars, cmds, panel, tasks, events, exempt>>

\* Mutant: the epoch is not compared again under the lock.
AuthorizedOnce(s, n) == device_control_authorized(Ident[s].pw, Ident[s].dev)
\* disconnect_request_authorized
disconnect_request_authorized(s, n) ==
    /\ slot[n].epoch = Ident[s].epoch
    /\ device_control_authorized(Ident[s].pw, Ident[s].dev)

\* Under the lock: the device's sessions leave the table and the engine.
disconnect_device(j) ==
    LET s == job[j].s
        d == Ident[s].dev
    IN  /\ job[j].at = "disconnect"
        /\ IF disconnect_request_authorized(s, job[j].slot) /\ Room > 0
           THEN /\ cmds' = Append(cmds, DisconnectDevice(d, s))
                /\ listed' = [x \in Sessions |->
                      IF x \in In /\ (x = s \/ Ident[x].dev = d) THEN "out" ELSE listed[x]]
           ELSE UNCHANGED <<cmds, listed>>
        /\ slot' = Unlocked(j)
        /\ job' = [job EXCEPT ![j] = Idle]
        /\ UNCHANGED <<dbVars, slotOf, tunnelled, known, engineVars, panel, tasks, events, exempt>>

\* ensure_control_tunnel up to its command: the address is resolved from
\* the device or from the device the password is bound to.
ensure_control_tunnel(j, s) ==
    /\ Start(j, s) /\ ~ tunnelled[s]
    /\ IF known[s] /\ (Ident[s].dev \in ips \/ (entry[Ident[s].pw] # "gone" /\ bind[Ident[s].pw] \in ips))
       THEN /\ job' = [job EXCEPT ![j].at = "ensure", ![j].s = s]
            /\ UNCHANGED <<listed, cmds, exempt>>
       ELSE drop_exact_session(s) /\ UNCHANGED job
    /\ UNCHANGED <<dbVars, slotVars, tunnelled, known, engineVars, panel, events>>

\* ActivateTunnel and then has_tunnel; without room the session is dropped.
ensure_activate(j) ==
    LET s == job[j].s IN
    /\ job[j].at = "ensure"
    /\ IF Room = 0
       THEN drop_exact_session(s) /\ UNCHANGED tunnelled
       ELSE /\ cmds' = Append(cmds, ActivateTunnel(s))
            /\ tunnelled' = [tunnelled EXCEPT ![s] = TRUE]
            /\ UNCHANGED <<listed, exempt>>
    /\ job' = [job EXCEPT ![j] = Idle]
    /\ UNCHANGED <<dbVars, slotVars, known, engineVars, panel, tasks, events>>

-----------------------------------------------------------------------------
(* Credentials.                                                            *)

\* build_credentials reads the passwords, publication follows later.
build_credentials == {p \in Passwords : entry[p] = "on"}

job_build(j) ==
    /\ job[j].at = "build"
    /\ job' = [job EXCEPT ![j].at = "publish", ![j].set = build_credentials]
    /\ UNCHANGED <<dbVars, slotVars, publicVars, engineVars, cmds, panel, tasks, events, exempt>>

job_publish(j) ==
    /\ job[j].at = "publish"
    /\ SendAll(<<ReplaceCredentials(job[j].set)>>, {})
    /\ job' = [job EXCEPT ![j] = Idle]
    /\ UNCHANGED <<dbVars, slotVars, publicVars, engineVars, panel, tasks, events>>

-----------------------------------------------------------------------------
(* The panel and the password janitor: a change of the database, then what *)
(* is left to do: wait for the disk, drop the sessions, reload.            *)

PanelChange(p, todo) ==
    /\ panel.at = "idle" /\ Event
    /\ panel' = [Resting EXCEPT !.at = Head(todo), !.pw = p, !.todo = Tail(todo)]
    /\ UNCHANGED <<ips, slotVars, publicVars, engineVars, cmds, job, tasks, exempt>>

client_toggle(p) ==
    /\ entry[p] # "gone"
    /\ entry' = [entry EXCEPT ![p] = IF @ = "on" THEN "off" ELSE "on"]
    /\ PanelChange(p, <<"persist", "drop", "refresh">>)
    /\ UNCHANGED bind

client_unbind(p) ==
    /\ entry[p] # "gone"
    /\ bind' = [bind EXCEPT ![p] = None]
    /\ PanelChange(p, <<"persist", "drop">>)
    /\ UNCHANGED entry

Forget(p) ==
    /\ entry[p] # "gone"
    /\ entry' = [entry EXCEPT ![p] = "gone"] /\ bind' = [bind EXCEPT ![p] = None]

client_delete(p) == Forget(p) /\ PanelChange(p, <<"persist", "drop", "refresh">>)

\* run_password_janitor_cycle does not wait for the disk.
run_password_janitor_cycle(p) == Forget(p) /\ PanelChange(p, <<"drop", "refresh">>)

\* clients_create drops expired entries; only the reload removes their
\* sessions.  Its refusal at MAX_PASSWORDS comes after that, and leaves the
\* sessions like a failed wait for the disk.
clients_create(p) == Forget(p) /\ PanelChange(p, <<"persist", "refresh">>)

Proceed == panel' = IF panel.todo = <<>> THEN Resting
                    ELSE [panel EXCEPT !.at = Head(panel.todo), !.todo = Tail(panel.todo)]

\* wait_for_persistence: an error ends the handler before anything is dropped.
panel_persist ==
    /\ panel.at = "persist"
    /\ \/ Proceed /\ UNCHANGED exempt
       \/ panel' = Resting /\ exempt' = exempt \cup {panel.pw}
    /\ UNCHANGED <<dbVars, slotVars, publicVars, engineVars, cmds, job, tasks, events>>

\* Mutant: the sessions leave the table only.
DropFromTable ==
    /\ panel.at = "drop"
    /\ listed' = [x \in Sessions |-> IF x \in In /\ Ident[x].pw = panel.pw THEN "out" ELSE listed[x]]
    /\ Proceed
    /\ UNCHANGED <<dbVars, slotVars, tunnelled, known, engineVars, cmds, job, tasks, events, exempt>>

drop_password_sessions ==
    /\ panel.at = "drop"
    /\ listed' = [x \in Sessions |-> IF x \in In /\ Ident[x].pw = panel.pw THEN "out" ELSE listed[x]]
    /\ IF Room > 0
       THEN /\ cmds' = Append(cmds, DropPassword(panel.pw))
            /\ exempt' = exempt \ {panel.pw}
       ELSE exempt' = exempt \cup {panel.pw} /\ UNCHANGED cmds
    /\ Proceed
    /\ UNCHANGED <<dbVars, slotVars, tunnelled, known, engineVars, job, tasks, events>>

panel_refresh ==
    /\ panel.at = "refresh"
    /\ SendAll(<<ReplaceCredentials(build_credentials)>>, {panel.pw})
    /\ panel' = Resting
    /\ UNCHANGED <<dbVars, slotVars, publicVars, engineVars, job, tasks, events>>

-----------------------------------------------------------------------------
Engine ==
    \/ EngineCommand
    \/ \E s \in Sessions : EngineCreate(s) \/ EngineRemove(s)

ControlLoop ==
    \E s \in Sessions : SessionCreated(s) \/ SessionClosed(s) \/ prune_public_sessions(s)

Task(j) ==
    \/ \E s \in Sessions : handle_getconf(j, s) \/ handle_disconnect(j, s) \/ ensure_control_tunnel(j, s)
    \/ Acquire(j, "lock", "admit") \/ Retry(j)
    \/ getconf_admit(j) \/ getconf_refuse(j)
    \/ getconf_send(j)
    \/ Acquire(j, "relock", "disconnect") \/ RetryExisting(j)
    \/ disconnect_device(j)
    \/ ensure_activate(j)
    \/ job_build(j) \/ job_publish(j)

Panel ==
    \/ \E p \in Passwords : \/ client_toggle(p) \/ client_unbind(p) \/ client_delete(p)
                            \/ run_password_janitor_cycle(p) \/ clients_create(p)
    \/ panel_persist \/ drop_password_sessions \/ panel_refresh

Sweeper == \E d \in Devices : device_epoch_sweeper(d)

Next == Engine \/ ControlLoop \/ (\E j \in Jobs : Task(j)) \/ Panel \/ Sweeper

Spec == Init /\ [][Next]_vars

-----------------------------------------------------------------------------
\* The types of the variables; a held slot is held by a task that is past
\* its lock.
TypeOK ==
    /\ entry \in [Passwords -> {"on", "off", "gone"}]
    /\ bind \in [Passwords -> Devices \cup {None}] /\ ips \subseteq Devices
    /\ slotOf \in [Devices -> {0} \cup Slots]
    /\ \A n \in Slots :
          /\ slot[n].epoch \in Epochs \cup {None}
          /\ slot[n].holder # None =>
                /\ job[slot[n].holder].slot = n
                /\ job[slot[n].holder].at \in {"admit", "send", "disconnect"}
    /\ listed \in [Sessions -> {"new", "in", "out"}]
    /\ tunnelled \in [Sessions -> BOOLEAN] /\ known \in [Sessions -> BOOLEAN]
    /\ engine \in [Sessions -> {"unborn", "setup", "tunnel", "dead"}]
    /\ creds \subseteq Passwords /\ Len(cmds) <= CommandCap
    /\ exempt \subseteq Devices \cup Passwords

\* All commands are executed, and no handler is between its change of the
\* database and its last command.
Settled == cmds = <<>> /\ panel.at = "idle"

\* A tunnel for whose device and password nothing was lost.
UpAndWell(s) == engine[s] = "tunnel" /\ {Ident[s].dev, Ident[s].pw} \cap exempt = {}

\* Tasks of one device are never inside their critical sections together,
\* although slots are swept, dropped and made again while tasks wait for them.
EpochSerial == TypeOK /\
    \A j, k \in Jobs :
        j # k /\ {job[j].at, job[k].at} \subseteq {"admit", "send", "disconnect"}
            => Device(j) # Device(k)

\* A tunnel carries the epoch its device was last given, whatever tasks of
\* the device ran at once and whatever became of its slot, unless a command
\* for the device did not fit into the channel.
TunnelEpochCurrent ==
    cmds = <<>> =>
        \A s \in Sessions :
            LET n == slotOf[Ident[s].dev] IN
            (/\ UpAndWell(s)
             /\ n # 0 /\ slot[n].holder = None)
                => slot[n].epoch \in {None, Ident[s].epoch}

\* A tunnel belongs to a usable password and to the one device the password
\* is bound to, although GETCONFs were under way when the panel deactivated,
\* deleted or unbound it.
TunnelAuthorized ==
    Settled =>
        \A s \in Sessions :
            UpAndWell(s)
                => entry[Ident[s].pw] = "on" /\ bind[Ident[s].pw] = Ident[s].dev

\* A tunnel of the engine is in the table of public sessions: its traffic is
\* counted, its DISCONNECT heard and its device's slot kept.
TunnelListed ==
    cmds = <<>> =>
        \A s \in Sessions :
            UpAndWell(s)
                => listed[s] = "in"

\* A DISCONNECT that waited behind a newer epoch never takes that epoch's
\* tunnels down.
DisconnectSparesNewer ==
    [][\A s \in Sessions :
          (/\ cmds # <<>> /\ cmds' = Tail(cmds) /\ Head(cmds).op = "DisconnectDevice"
           /\ UpAndWell(s) /\ engine'[s] = "dead")
              => Ident[s].epoch = Ident[Head(cmds).requester].epoch]_vars

\* When nothing is under way the engine knows exactly the usable passwords.
CredentialsCurrent ==
    (Settled /\ \A j \in Jobs : job[j].at \notin {"build", "publish"}) => creds = build_credentials
=============================================================================
