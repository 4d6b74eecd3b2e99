--------------------------- MODULE WindowsTunnel ---------------------------
(***************************************************************************)
(* The Windows client's tunnel: TunnelController.StartAsync and StopAsync, *)
(* the two PumpLogs readers, RouteManager with its route and DNS commands, *)
(* the packet loops, and the form that calls them.                         *)
(*                                                                         *)
(* Every continuation runs on the one UI thread, which the tasks share     *)
(* between their awaits; StopAsync blocks it until it is done.  The system *)
(* commands (Exec) are child processes that finish at any time, also when  *)
(* nobody waits for them any more; the quiet ones (RunQuiet) may fail, or  *)
(* outlast the three seconds they are given, and nobody is told.  A lock   *)
(* is handed to the next in line when it is released, before that task     *)
(* runs.  What a task does after its token was cancelled is overwritten by *)
(* the next StartAsync and runs before a further click, so StopAsync ends  *)
(* the readers itself.                                                     *)
(***************************************************************************)
EXTENDS Integers, FiniteSets

CONSTANTS
    Addresses,      \* IPv4 addresses of the transport
    Hosts,          \* those of the peer, VK and OK, known before the start
    Dns,            \* DNS profiles a TUNCONF may carry
    None,           \* no address, no profile, no holder, no command
    MaxStarts,      \* bound: clicks on the connect button
    MaxConfs,       \* bound: TUNCONF lines of one run
    MaxFailures     \* bound: system commands and calls that fail

Tasks == {"start", "err", "out"}

\* A command and its exit code, None while it runs; the last three delete.
Commands == [cmd : {"bypass", "address", "dns", "default", "unbypass", "undns", "undefault"},
             arg : Addresses \cup Dns \cup {None}, exit : {"ok", "failed", None}]

ASSUME WindowsTunnelAssumption ==
    /\ Hosts \subseteq Addresses
    /\ None \notin Addresses \cup Dns \cup Tasks \cup {"ok", "failed"} \cup Commands
    /\ {MaxStarts, MaxConfs, MaxFailures} \subseteq Nat

VARIABLES
    app,        \* the UI thread: what it does; the state the form shows
    ctl,        \* the fields of TunnelController
    rm,         \* the fields and locks of RouteManager, and dnsApplyLock
    task,       \* where StartAsync and the two readers are suspended
    child,      \* the system command each of them waits for
    sys,        \* Windows: routes, DNS and handle of the adapter, client.exe,
                \* and the commands that run although nobody waits for them
    wire,       \* the packet loops
    past        \* bounds, and what the properties have to excuse
vars == <<app, ctl, rm, task, child, sys, wire, past>>

Fresh == [cts |-> FALSE, ready |-> FALSE, latest |-> None, applied |-> None,
          routesReady |-> FALSE, seen |-> {}, dns |-> None]

Init ==
    /\ app = [at |-> "free", connected |-> FALSE, closing |-> FALSE]
    /\ ctl = Fresh
    /\ rm = [gateway |-> FALSE, bypass |-> {}, lock |-> None, dnsLock |-> None]
    /\ task = [start |-> [at |-> "idle", addr |-> None, todo |-> {}, phase |-> "configure"],
               err |-> [at |-> "off", addr |-> None], out |-> [at |-> "off"]]
    /\ child = [t \in Tasks |-> None]
    /\ sys = [bypass |-> {}, default |-> FALSE, dns |-> None, adapter |-> FALSE, core |-> "none",
              stray |-> {}]
    /\ wire = [tx |-> "off", rx |-> "off"]
    /\ past = [starts |-> 0, confs |-> 0, failures |-> 0, refused |-> {}, had |-> {},
               repeated |-> FALSE, lostDns |-> FALSE, crashed |-> FALSE, kept |-> {}]

Free == app.at = "free"
MayFail == past.failures < MaxFailures
Failed(p) == [p EXCEPT !.failures = @ + 1]

-----------------------------------------------------------------------------
(* System commands *)

\* Exec: the command the task waits for starts to run.
Exec(cmd, arg) == [cmd |-> cmd, arg |-> arg, exit |-> None]

\* What a command has changed when it has done its work; one on the adapter
\* needs it.
OnAdapter == {"address", "dns", "default", "undns", "undefault"}
Effect(c) ==
    CASE c.cmd = "bypass" -> [sys EXCEPT !.bypass = @ \cup {c.arg}]
      [] c.cmd = "unbypass" -> [sys EXCEPT !.bypass = @ \ {c.arg}]
      [] c.cmd = "dns" -> [sys EXCEPT !.dns = c.arg]
      [] c.cmd = "undns" -> [sys EXCEPT !.dns = None]
      [] c.cmd = "default" -> [sys EXCEPT !.default = TRUE]
      [] c.cmd = "undefault" -> [sys EXCEPT !.default = FALSE]
      [] OTHER -> sys

\* Nothing has to go wrong for it to fail: the adapter is gone, or the route
\* is there already.
Futile(c) ==
    \/ c.cmd \in OnAdapter /\ ~ sys.adapter
    \/ c.cmd = "bypass" /\ c.arg \in sys.bypass

ChildExits(t) ==
    /\ child[t] # None /\ child[t].exit = None
    /\ LET c == child[t] IN
       \/ /\ c.cmd \in OnAdapter => sys.adapter
          /\ child' = [child EXCEPT ![t].exit = "ok"]
          /\ sys' = Effect(c)
          /\ UNCHANGED past
       \/ /\ IF Futile(c) THEN UNCHANGED past ELSE MayFail /\ past' = Failed(past)
          /\ child' = [child EXCEPT ![t].exit = "failed"]
          /\ UNCHANGED sys
       \/ \* the servers were added, but the quiet deletion before had not gone
          \* through, or still runs: the list is not the one that was asked for
          /\ c.cmd = "dns" /\ sys.adapter
          /\ MayFail /\ past' = [Failed(past) EXCEPT !.lostDns = TRUE]
          /\ child' = [child EXCEPT ![t].exit = "ok"]
          /\ \E late \in SUBSET {Exec("undns", None)} :
                sys' = [sys EXCEPT !.stray = @ \cup late]
    /\ UNCHANGED <<app, ctl, rm, task, wire>>

\* A command that nobody waits for ends, with its effect or without, on
\* whatever run there is by then.
StrayEnds(c) ==
    /\ c \in sys.stray
    /\ \/ sys' = [sys EXCEPT !.stray = @ \ {c}] /\ UNCHANGED past
       \/ /\ c.cmd \in OnAdapter => sys.adapter
          /\ sys' = [Effect(c) EXCEPT !.stray = @ \ {c}]
          /\ past' = [past EXCEPT !.lostDns = @ \/ c.cmd \in {"dns", "undns"}]
    /\ UNCHANGED <<app, ctl, rm, task, child, wire>>

\* The continuation of Exec on the UI thread.
Returned(t, exit) == Free /\ child[t] # None /\ child[t].exit = exit

\* The commands that are still running, which nobody waits for from now on.
Running == {child[t] : t \in {u \in Tasks : child[u] # None /\ child[u].exit = None}}
Abandon(s) == [s EXCEPT !.stray = @ \cup Running]

\* client.exe may end by itself; nobody watches it.
CoreExits ==
    /\ sys.core = "running" /\ MayFail
    /\ sys' = [sys EXCEPT !.core = "exited"]
    /\ past' = Failed(past)
    /\ UNCHANGED <<app, ctl, rm, task, child, wire>>

-----------------------------------------------------------------------------
(* StopAsync *)

\* The first statements: the source is taken and cancelled.  Without one
\* there is nothing to stop, and closing closes the form at once.
StopAsync(closing) ==
    IF ctl.cts
    THEN /\ app' = [app EXCEPT !.at = "delete", !.closing = closing]
         /\ ctl' = [ctl EXCEPT !.cts = FALSE, !.routesReady = FALSE]
    ELSE /\ app' = [app EXCEPT !.at = IF closing THEN "ended" ELSE "free"]
         /\ UNCHANGED ctl

\* Dispose first deletes the default route, quietly.
DisposeDefault ==
    /\ app.at = "delete"
    /\ app' = [app EXCEPT !.at = "lock"]
    /\ \/ sys' = [sys EXCEPT !.default = FALSE] /\ UNCHANGED past
       \/ /\ MayFail /\ past' = Failed(past)
          /\ \E late \in SUBSET {Exec("undefault", None)} :
                sys' = [sys EXCEPT !.stray = @ \cup late]
    /\ UNCHANGED <<ctl, rm, task, child, wire>>

\* Mutant: Dispose does not wait for the route lock.
DisposeUnlocked ==
    /\ app.at = "lock"
    /\ app' = [app EXCEPT !.at = "core"]
    /\ sys' = [sys EXCEPT !.bypass = IF rm.gateway THEN @ \ rm.bypass ELSE @]
    /\ rm' = [rm EXCEPT !.bypass = {}, !.gateway = FALSE, !.lock = None]
    /\ UNCHANGED <<ctl, task, child, wire, past>>

\* The routes it has a record of are deleted, but for those that are kept:
\* their deletion failed, or runs late.
Known == IF rm.gateway THEN rm.bypass ELSE {}
Deleted(kept, late) ==
    [sys EXCEPT !.bypass = @ \ (Known \ kept),
                !.stray = @ \cup {Exec("unbypass", a) : a \in late}]

\* Dispose then waits for the route lock, blocking the UI thread, and deletes
\* the host routes.  It forgets the record also of those whose deletion
\* failed or is not done after three seconds.
DisposeBypass ==
    /\ app.at = "lock" /\ rm.lock = None
    /\ app' = [app EXCEPT !.at = "core"]
    /\ \/ sys' = Deleted({}, {}) /\ UNCHANGED past
       \/ /\ MayFail
          /\ \E kept \in (SUBSET Known) \ {{}} : \E late \in SUBSET kept :
                /\ sys' = Deleted(kept, late)
                /\ past' = [Failed(past) EXCEPT !.kept = @ \cup kept]
    /\ rm' = [rm EXCEPT !.bypass = {}, !.gateway = FALSE]
    /\ UNCHANGED <<ctl, task, child, wire>>

\* client.exe is stopped or killed, unless that throws: then the process is
\* lost.  The session and the adapter go with what was configured on them,
\* the cancelled readers end, the form is told.
StopCore ==
    /\ app.at = "core"
    /\ app' = [app EXCEPT !.at = IF app.closing THEN "ended" ELSE "free", !.connected = FALSE]
    /\ \E core \in {"none", "lost"} :
          /\ sys' = [sys EXCEPT !.core = core, !.adapter = FALSE, !.default = FALSE, !.dns = None]
          /\ \/ core = (IF sys.core = "lost" THEN "lost" ELSE "none") /\ UNCHANGED past
             \/ sys.core = "running" /\ core = "lost" /\ MayFail /\ past' = Failed(past)
    /\ task' = [task EXCEPT !.err = [at |-> "off", addr |-> None], !.out.at = "off",
                            !.start.at = "idle"]
    /\ rm' = [rm EXCEPT !.dnsLock = None]
    /\ wire' = [tx |-> IF wire.tx = "delay" THEN "off" ELSE wire.tx,
                rx |-> IF wire.rx = "wait" THEN "off" ELSE wire.rx]
    /\ UNCHANGED <<ctl, child>>

\* StartAsync throws: the form's handler calls StopAsync before it returns
\* to the message loop.
StartFails ==
    /\ task' = [task EXCEPT !.start.at = "idle"]
    /\ StopAsync(FALSE)

-----------------------------------------------------------------------------
(* RouteManager.AddBypassAsync, called by StartAsync and the stderr reader *)

\* The task that waits at a lock when t releases it, or None.
Heir(t, at) ==
    LET others == {u \in Tasks \ {t} : task[u].at = at}
    IN  IF others = {} THEN None ELSE CHOOSE u \in others : TRUE

\* The lock is released, which hands it on.
Released(t) == [rm EXCEPT !.lock = Heir(t, "lock")]

\* Inside the lock: a route is added if there is a gateway and no record.
Worthwhile(r, a) == a \notin r.bypass /\ r.gateway

\* The tunnel is up: the packet loops start and the form is told.
Up(r) ==
    /\ task' = [task EXCEPT !.start.at = "idle"]
    /\ app' = [app EXCEPT !.connected = TRUE]
    /\ wire' = [tx |-> "delay", rx |-> "wait"]
    /\ child' = [child EXCEPT !["start"] = None]
    /\ rm' = r

\* StartAsync goes through addresses, in ConfigureAsync and again at the end.
\* Those with a record cost no await when the lock is free.
EachBypass(phase, todo, r) ==
    LET left == IF r.lock = None THEN {a \in todo : Worthwhile(r, a)} ELSE todo
    IN  \/ /\ left = {} /\ phase = "configure"
           /\ task' = [task EXCEPT !.start.at = "address"]
           /\ child' = [child EXCEPT !["start"] = Exec("address", None)]
           /\ rm' = r
           /\ UNCHANGED <<app, wire>>
        \/ left = {} /\ phase = "late" /\ Up(r)
        \/ \E a \in left :
             /\ task' = [task EXCEPT !.start =
                    [at |-> IF r.lock = None THEN "exec" ELSE "lock",
                     addr |-> a, todo |-> left \ {a}, phase |-> phase]]
             /\ child' = [child EXCEPT !["start"] =
                    IF r.lock = None THEN Exec("bypass", a) ELSE None]
             /\ rm' = IF r.lock = None THEN [r EXCEPT !.lock = "start"] ELSE r
             /\ UNCHANGED <<app, wire>>

\* What the caller does once AddBypassAsync has returned.
AfterBypass(t, r) ==
    IF t = "start"
    THEN EachBypass(task.start.phase, task.start.todo, r)
    ELSE /\ task' = [task EXCEPT !.err = [at |-> "read", addr |-> None]]
         /\ child' = [child EXCEPT !["err"] = None]
         /\ rm' = r
         /\ UNCHANGED <<app, wire>>

\* A waiting task finds that it has the lock.
BypassGranted(t) ==
    /\ Free /\ task[t].at = "lock" /\ rm.lock = t
    /\ IF Worthwhile(rm, task[t].addr)
       THEN /\ task' = [task EXCEPT ![t].at = "exec"]
            /\ child' = [child EXCEPT ![t] = Exec("bypass", task[t].addr)]
            /\ UNCHANGED <<app, rm, wire>>
       ELSE AfterBypass(t, Released(t))
    /\ UNCHANGED <<ctl, sys, past>>

\* route.exe has added the route: it is recorded, under the lock.
BypassAdded(t) ==
    /\ Returned(t, "ok") /\ task[t].at = "exec"
    /\ AfterBypass(t, [Released(t) EXCEPT !.bypass = @ \cup {task[t].addr}])
    /\ UNCHANGED <<ctl, sys, past>>

\* route.exe failed: ConfigureAsync fails with it, TryAddTransportBypassAsync
\* only logs it.
BypassFailed(t) ==
    /\ Returned(t, "failed") /\ task[t].at = "exec"
    /\ IF t = "start" /\ task.start.phase = "configure"
       THEN /\ StartFails
            /\ rm' = Released(t)
            /\ child' = [child EXCEPT ![t] = None]
            /\ UNCHANGED <<wire, past>>
       ELSE /\ AfterBypass(t, Released(t))
            /\ past' = [past EXCEPT !.refused = @ \cup {task[t].addr}]
            /\ UNCHANGED ctl
    /\ UNCHANGED sys

-----------------------------------------------------------------------------
(* ApplyLatestDnsAsync, called by StartAsync and the stdout reader *)

\* What the caller does once ApplyLatestDnsAsync has returned.
AfterDns(t, r) ==
    IF t = "start"
    THEN EachBypass("late", ctl.seen, r)
    ELSE /\ task' = [task EXCEPT !.out.at = "read"]
         /\ child' = [child EXCEPT !["out"] = None]
         /\ rm' = r
         /\ UNCHANGED <<app, wire>>

\* The update inside the lock: the latest value is read only here, and
\* nothing is done when it is the one applied.  UpdateDnsAsync empties the
\* list and adds the new servers.
ApplyDns(t, c, r) ==
    IF c.routesReady /\ c.latest # c.applied
    THEN /\ task' = [task EXCEPT ![t].at = "dnsExec"]
         /\ child' = [child EXCEPT ![t] = Exec("dns", c.latest)]
         /\ sys' = [sys EXCEPT !.dns = None]
         /\ rm' = [r EXCEPT !.dnsLock = t]
         /\ UNCHANGED <<app, wire>>
    ELSE /\ AfterDns(t, r)
         /\ UNCHANGED sys

\* Entering: the lock is taken, or the task queues for it.
ApplyLatestDns(t, c, r) ==
    IF r.dnsLock = None
    THEN ApplyDns(t, c, r)
    ELSE /\ task' = [task EXCEPT ![t].at = "dnsLock"]
         /\ rm' = r
         /\ child' = [child EXCEPT ![t] = None]
         /\ UNCHANGED <<app, wire, sys>>

DnsGranted(t) ==
    /\ Free /\ task[t].at = "dnsLock" /\ rm.dnsLock = t
    /\ ApplyDns(t, ctl, [rm EXCEPT !.dnsLock = None])
    /\ UNCHANGED <<ctl, past>>

\* netsh has returned; an error is only logged.
DnsReturned(t) ==
    /\ task[t].at = "dnsExec"
    /\ LET r == [rm EXCEPT !.dnsLock = Heir(t, "dnsLock")] IN
       \/ /\ Returned(t, "ok")
          /\ ctl' = [ctl EXCEPT !.applied = child[t].arg]
          /\ AfterDns(t, r)
          /\ UNCHANGED past
       \/ /\ Returned(t, "failed")
          /\ past' = [past EXCEPT !.lostDns = TRUE]
          /\ AfterDns(t, r)
          /\ UNCHANGED ctl
    /\ UNCHANGED sys

-----------------------------------------------------------------------------
(* PumpLogs: stderr names TURN addresses, stdout carries TUNCONF *)

\* Mutant: a new address is only noted, for the next start.
TurnNoted(a) ==
    /\ Free /\ task.err.at = "read" /\ sys.core = "running"
    /\ a \notin ctl.seen
    /\ ctl' = [ctl EXCEPT !.seen = @ \cup {a}]
    /\ UNCHANGED <<app, rm, task, child, sys, wire, past>>

\* A new transport address: it is noted, and a route is added if one can be.
PumpTurn(a) ==
    /\ Free /\ task.err.at = "read" /\ sys.core = "running"
    /\ a \notin ctl.seen
    /\ ctl' = [ctl EXCEPT !.seen = @ \cup {a}]
    /\ IF rm.lock # None
       THEN /\ task' = [task EXCEPT !.err = [at |-> "lock", addr |-> a]]
            /\ UNCHANGED <<rm, child>>
       ELSE IF Worthwhile(rm, a)
       THEN /\ task' = [task EXCEPT !.err = [at |-> "exec", addr |-> a]]
            /\ child' = [child EXCEPT !["err"] = Exec("bypass", a)]
            /\ rm' = [rm EXCEPT !.lock = "err"]
       ELSE UNCHANGED <<task, rm, child>>
    /\ UNCHANGED <<app, sys, wire, past>>

\* A TUNCONF: the first one lets StartAsync go on, a later one is applied
\* when the routes are ready and it differs from what was applied.
PumpConf(d) ==
    /\ Free /\ task.out.at = "read" /\ sys.core = "running"
    /\ past.confs < MaxConfs /\ d # ctl.latest
    /\ LET c == [ctl EXCEPT !.latest = d, !.ready = TRUE,
                            !.dns = IF ctl.ready THEN @ ELSE d]
       IN  /\ ctl' = c
           /\ IF ctl.ready /\ c.routesReady /\ c.applied # d
              THEN ApplyLatestDns("out", c, rm)
              ELSE UNCHANGED <<app, rm, task, child, sys, wire>>
    /\ past' = [past EXCEPT !.confs = @ + 1, !.had = @ \cup {d},
                            !.repeated = @ \/ d \in past.had]

\* The output of a client.exe that has ended is at its end.
PumpEnds ==
    /\ Free /\ sys.core = "exited"
    /\ \/ task.err.at = "read" /\ task' = [task EXCEPT !.err.at = "off"]
       \/ task.out.at = "read" /\ task' = [task EXCEPT !.out.at = "off"]
    /\ UNCHANGED <<app, ctl, rm, child, sys, wire, past>>

-----------------------------------------------------------------------------
(* StartAsync *)

\* Up to the first await: the adapter, its session and client.exe, with the
\* token still to be written to its input in the automatic mode.  A command
\* of the run before may still be running; its packet loops are not: the
\* message loop gets to a cancelled continuation, which is posted before
\* StopAsync returns, before it gets to a click.
Pumping(t, at) ==
    [t EXCEPT !.start.at = at, !.err.at = IF at = "config" THEN "read" ELSE "off",
              !.out.at = IF at = "config" THEN "read" ELSE "off"]
StartAsync ==
    /\ Free /\ ~ app.connected /\ task.start.at = "idle" /\ ~ ctl.cts
    /\ past.starts < MaxStarts
    /\ wire = [tx |-> "off", rx |-> "off"]
    /\ child' = [t \in Tasks |-> None]
    /\ LET p == [past EXCEPT !.starts = @ + 1, !.confs = 0, !.refused = {}, !.had = {},
                             !.repeated = FALSE, !.lostDns = FALSE]
       IN  \/ /\ ctl' = [Fresh EXCEPT !.cts = TRUE]
              /\ sys' = Abandon([sys EXCEPT !.adapter = TRUE, !.core = "running"])
              /\ \E at \in {"bootstrap", "config"} : task' = Pumping(task, at)
              /\ past' = p
              /\ UNCHANGED app
           \/ \* the adapter or its session cannot be opened
              /\ MayFail /\ past' = Failed(p)
              /\ \E open \in BOOLEAN : sys' = Abandon([sys EXCEPT !.adapter = open])
              /\ ctl' = Fresh
              /\ app' = [app EXCEPT !.at = "delete", !.closing = FALSE]
              /\ UNCHANGED task
    /\ UNCHANGED <<rm, wire>>

\* The token is written; the readers start.
Bootstrapped ==
    /\ Free /\ task.start.at = "bootstrap"
    /\ IF sys.core = "running"
       THEN task' = Pumping(task, "config") /\ UNCHANGED <<app, ctl>>
       ELSE StartFails
    /\ UNCHANGED <<rm, child, sys, wire, past>>

\* WaitForConfigAsync ends, or fails after its 90 seconds.
ConfigReady ==
    /\ Free /\ task.start.at = "config"
    /\ \/ /\ ctl.ready
          /\ task' = [task EXCEPT !.start.at = "delay"]
          /\ UNCHANGED <<app, ctl>>
       \/ ~ ctl.ready /\ StartFails
    /\ UNCHANGED <<rm, child, sys, wire, past>>

\* After the short delay: the latest DNS and the addresses known by now are
\* taken, and ConfigureAsync looks for the gateway and resolves the names.
Snapshot ==
    /\ Free /\ task.start.at = "delay"
    /\ \/ /\ task' = [task EXCEPT !.start = [at |-> "resolve", addr |-> None,
                                             todo |-> Hosts \cup ctl.seen, phase |-> "configure"]]
          /\ ctl' = [ctl EXCEPT !.dns = ctl.latest]
          /\ rm' = [rm EXCEPT !.gateway = TRUE]
          /\ UNCHANGED <<app, past>>
       \/ MayFail /\ past' = Failed(past) /\ StartFails /\ UNCHANGED rm
    /\ UNCHANGED <<child, sys, wire>>

\* The names are resolved, or one cannot be.
Resolved ==
    /\ Free /\ task.start.at = "resolve"
    /\ \/ /\ EachBypass("configure", task.start.todo, rm)
          /\ UNCHANGED <<ctl, past>>
       \/ /\ MayFail /\ past' = Failed(past) /\ StartFails
          /\ UNCHANGED <<rm, child, wire>>
    /\ UNCHANGED sys

\* The commands of ConfigureAsync, one after the other: the address and the
\* MTU, the DNS servers, and last of all the default route.
CommandDone ==
    /\ Returned("start", "ok") /\ task.start.at \in {"address", "dns"}
    /\ LET next == IF task.start.at = "address" THEN "dns" ELSE "default"
       IN  /\ task' = [task EXCEPT !.start.at = next]
           /\ child' = [child EXCEPT !["start"] = Exec(next, IF next = "dns" THEN ctl.dns ELSE None)]
           /\ sys' = IF next = "dns" THEN [sys EXCEPT !.dns = None] ELSE sys
    /\ UNCHANGED <<app, ctl, rm, wire, past>>

CommandFailed ==
    /\ Returned("start", "failed") /\ task.start.at \in {"address", "dns", "default"}
    /\ child' = [child EXCEPT !["start"] = None]
    /\ StartFails
    /\ UNCHANGED <<rm, sys, wire, past>>

\* Mutant: StartAsync does not catch up with what arrived meanwhile.
ConfiguredAtOnce ==
    /\ Returned("start", "ok") /\ task.start.at = "default"
    /\ ctl' = [ctl EXCEPT !.applied = ctl.dns, !.routesReady = TRUE]
    /\ Up(rm)
    /\ UNCHANGED <<sys, past>>

\* The routes are ready; what arrived in the meantime is caught up with,
\* first the DNS, then the addresses.
Configured ==
    /\ Returned("start", "ok") /\ task.start.at = "default"
    /\ LET c == [ctl EXCEPT !.applied = ctl.dns, !.routesReady = TRUE]
       IN  ctl' = c /\ ApplyLatestDns("start", c, rm)
    /\ UNCHANGED past

-----------------------------------------------------------------------------
(* The packet loops and the form *)

\* TunToCore takes a packet and waits for its SendAsync; it gives the packet
\* back to the session afterwards, whatever became of the send.
TunRead ==
    /\ Free /\ wire.tx = "delay"
    /\ wire' = [wire EXCEPT !.tx = "sending"]
    /\ UNCHANGED <<app, ctl, rm, task, child, sys, past>>
\* A call of Wintun with the session that has ended is the end of the process.
OnSession(loop, next) ==
    /\ wire' = [wire EXCEPT ![loop] = IF sys.adapter THEN next ELSE "off"]
    /\ app' = [app EXCEPT !.at = IF sys.adapter THEN @ ELSE "ended"]
    /\ past' = [past EXCEPT !.crashed = @ \/ ~ sys.adapter]
    /\ UNCHANGED <<ctl, rm, task, child, sys>>
TunToCore == Free /\ wire.tx = "sending" /\ OnSession("tx", "delay")

\* CoreToTun: a datagram of client.exe completes ReceiveAsync, and the
\* continuation writes it to the session.
Datagram ==
    /\ wire.rx = "wait" /\ ctl.cts /\ sys.core = "running"
    /\ wire' = [wire EXCEPT !.rx = "ready"]
    /\ UNCHANGED <<app, ctl, rm, task, child, sys, past>>
CoreToTun == Free /\ wire.rx = "ready" /\ OnSession("rx", "wait")

\* The button, which is disabled while StartAsync runs.
Disconnect ==
    /\ Free /\ app.connected /\ task.start.at = "idle"
    /\ StopAsync(FALSE)
    /\ UNCHANGED <<rm, task, child, sys, wire, past>>

\* The window is closed, at any time.
FormClosing ==
    /\ Free
    /\ StopAsync(TRUE)
    /\ UNCHANGED <<rm, task, child, sys, wire, past>>

Stopping == DisposeDefault \/ DisposeBypass \/ StopCore
Starting == Bootstrapped \/ ConfigReady \/ Snapshot \/ Resolved \/ CommandDone
              \/ CommandFailed \/ Configured
Bypassing == \E t \in {"start", "err"} : BypassGranted(t) \/ BypassAdded(t) \/ BypassFailed(t)
Updating == \E t \in {"start", "out"} : DnsGranted(t) \/ DnsReturned(t)
Reading == (\E a \in Addresses : PumpTurn(a)) \/ (\E d \in Dns : PumpConf(d)) \/ PumpEnds
Carrying == TunRead \/ TunToCore \/ Datagram \/ CoreToTun

Next ==
    \/ StartAsync \/ Disconnect \/ FormClosing
    \/ Stopping \/ Starting \/ Bypassing \/ Updating \/ Reading \/ Carrying
    \/ CoreExits \/ (\E t \in Tasks : ChildExits(t)) \/ (\E c \in sys.stray : StrayEnds(c))

Spec == Init /\ [][Next]_vars

\* A system command ends, and the UI thread gets to the continuations that
\* are due; nobody has to click and client.exe has to say nothing.
FairSpec ==
    /\ Spec
    /\ WF_vars(Stopping) /\ WF_vars(Starting) /\ WF_vars(Bypassing) /\ WF_vars(Updating)
    /\ \A t \in Tasks : WF_vars(ChildExits(t))

-----------------------------------------------------------------------------
\* The types of the variables; a lock belongs to a task that is inside it.
TypeOK ==
    /\ app.at \in {"free", "delete", "lock", "core", "ended"}
    /\ task.start.at \in {"idle", "bootstrap", "config", "delay", "resolve", "lock", "exec",
                          "address", "dns", "default", "dnsLock", "dnsExec"}
    /\ task.err.at \in {"off", "read", "lock", "exec"}
    /\ task.out.at \in {"off", "read", "dnsLock", "dnsExec"}
    /\ rm.lock # None => task[rm.lock].at \in {"lock", "exec"}
    /\ rm.dnsLock # None => task[rm.dnsLock].at \in {"dnsLock", "dnsExec"}

\* No task is on its way through an await that changes routes or DNS.
Quiet ==
    /\ Free /\ task.start.at = "idle"
    /\ {task.err.at, task.out.at} \subseteq {"off", "read"}

\* The transport never goes into its own tunnel: the default route comes
\* after the routes of the known hosts, and once connected every TURN address
\* the log has named has its route too, whenever during the start it came,
\* unless route.exe refused it or a stop before could not delete its route
\* in time, which may then still go.
TransportOutside ==
    /\ TypeOK
    /\ ctl.cts /\ sys.default => Hosts \subseteq sys.bypass \cup past.kept
    /\ app.connected /\ Quiet =>
          Hosts \cup ctl.seen \subseteq sys.bypass \cup past.refused \cup past.kept

\* The adapter ends up with the DNS of the last TUNCONF, however it falls
\* among the awaits of the start and of an update, unless netsh failed, one of
\* the run before was late, or the server went back to an earlier value.
DnsLatest ==
    app.connected /\ Quiet /\ ~ past.lostDns /\ ~ past.repeated => sys.dns = ctl.latest

\* The same for a server that goes back, as the comment of
\* ApplyLatestDnsAsync has it.
DnsLatestAlways == app.connected /\ Quiet /\ ~ past.lostDns => sys.dns = ctl.latest

\* After StopAsync, from whatever point of the start it came and whatever
\* commands still run, the adapter and the default route are gone, client.exe
\* is stopped unless stopping it threw, and no host route is left but those
\* whose deletion did not go through: a route whose addition was under way is
\* never missed.
CleanAfterStop ==
    ~ ctl.cts /\ app.at \in {"free", "ended"} =>
        /\ ~ sys.default /\ ~ sys.adapter
        /\ sys.core \in {"none", "lost"}
        /\ sys.bypass \subseteq past.kept

\* The same with no exception, which the code does not promise: Dispose
\* suppresses the errors of the commands and forgets the routes.
CleanAlways ==
    ~ ctl.cts /\ app.at \in {"free", "ended"} => sys.core = "none" /\ sys.bypass = {}

\* No packet is handed to a Wintun session that has ended.
SessionLive == ~ past.crashed

\* StopAsync comes to its end: disconnecting and closing never hang the UI.
StopEnds == (app.at = "delete") ~> (app.at \in {"free", "ended"})
=============================================================================
