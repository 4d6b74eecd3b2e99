------------------------ MODULE WindowsTunnelProofs ------------------------
(***************************************************************************)
(* The safety properties of the Windows tunnel, for any number of          *)
(* addresses, DNS profiles, starts, TUNCONFs and failures.                 *)
(***************************************************************************)
EXTENDS WindowsTunnel, TLAPS

-----------------------------------------------------------------------------
(* Types.                                                                  *)

Apps == [at : {"free", "delete", "lock", "core", "ended"}, connected : BOOLEAN, closing : BOOLEAN]
Ctls == [cts : BOOLEAN, ready : BOOLEAN, latest : Dns \cup {None}, applied : Dns \cup {None},
         routesReady : BOOLEAN, seen : SUBSET Addresses, dns : Dns \cup {None}]
Rms == [gateway : BOOLEAN, bypass : SUBSET Addresses,
        lock : {None, "start", "err"}, dnsLock : {None, "start", "out"}]
StartTasks == [at : {"idle", "bootstrap", "config", "delay", "resolve", "lock", "exec",
                     "address", "dns", "default", "dnsLock", "dnsExec"},
               addr : Addresses \cup {None}, todo : SUBSET Addresses,
               phase : {"configure", "late"}]
ErrTasks == [at : {"off", "read", "lock", "exec"}, addr : Addresses \cup {None}]
OutTasks == [at : {"off", "read", "dnsLock", "dnsExec"}]
Syss == [bypass : SUBSET Addresses, default : BOOLEAN, dns : Dns \cup {None},
         adapter : BOOLEAN, core : {"none", "running", "exited", "lost"},
         stray : SUBSET Commands]
Pasts == [starts : Nat, confs : Nat, failures : Nat, refused : SUBSET Addresses,
          had : SUBSET Dns, repeated : BOOLEAN, lostDns : BOOLEAN, crashed : BOOLEAN,
          kept : SUBSET Addresses]
TaskType == task \in [start : StartTasks, err : ErrTasks, out : OutTasks]
ChildType == child \in [Tasks -> Commands \cup {None}]
Types ==
    /\ app \in Apps /\ ctl \in Ctls /\ rm \in Rms /\ TaskType /\ ChildType
    /\ sys \in Syss /\ past \in Pasts

-----------------------------------------------------------------------------
(* The invariant.                                                          *)

\* Stopped, or never started: nothing is left but routes that could not be
\* deleted, and no task is on its way.
Stopped == ~ ctl.cts /\ app.at \in {"free", "ended"}

ModeInv ==
    /\ ctl.cts => app.at = "free" /\ sys.adapter
    /\ ctl.cts => (app.connected <=> task.start.at = "idle")
    /\ app.at = "core" =>
          sys.bypass \subseteq past.kept /\ rm.bypass = {} /\ ~ rm.gateway /\ rm.lock = None
    /\ Stopped =>
          /\ sys.bypass \subseteq past.kept /\ rm.bypass = {} /\ ~ rm.gateway
          /\ ~ sys.default /\ ~ sys.adapter /\ sys.core \in {"none", "lost"}
          /\ task.start.at = "idle" /\ task.err.at = "off" /\ task.out.at = "off"
          /\ rm.lock = None /\ rm.dnsLock = None /\ ~ app.connected

\* Which command a task waits for; what a stop has left behind runs on, but
\* is never route.exe.
CommandAt == [exec |-> "bypass", address |-> "address", dns |-> "dns",
              default |-> "default", dnsExec |-> "dns"]
Waits(t) ==
    IF task[t].at \in DOMAIN CommandAt
    THEN child[t] # None /\ child[t].cmd = CommandAt[task[t].at]
    ELSE child[t] = None
ChildInv ==
    /\ ~ Stopped => \A t \in Tasks : Waits(t)
    /\ \A t \in Tasks : child[t] # None /\ child[t].cmd = "bypass" => task[t].at = "exec"
    /\ \A t \in Tasks : child[t] # None /\ child[t].cmd = "dns" => child[t].arg \in Dns
    /\ \A t \in {"start", "err"} :
          task[t].at = "exec" => child[t].arg = task[t].addr /\ task[t].addr \in Addresses

LockInv ==
    /\ \A t \in {"start", "err"} :
          /\ rm.lock = t => task[t].at \in {"lock", "exec"}
          /\ task[t].at = "exec" => rm.lock = t
          /\ task[t].at \in {"lock", "exec"} => task[t].addr \in Addresses
    /\ rm.lock # None \/ rm.bypass # {} => rm.gateway

\* What still runs of an earlier run cannot add a route: it is an update of
\* the DNS, or one of the quiet deletions.  Only closing the window, which
\* nothing follows, finds StartAsync at a command.
LateInv ==
    /\ \A c \in sys.stray :
          /\ c.cmd \in {"dns", "undns", "undefault", "unbypass"}
          /\ c.cmd = "dns" => c.arg \in Dns
          /\ c.cmd = "unbypass" => c.arg \in past.kept
    /\ child["err"] # None => child["err"].cmd = "bypass"
    /\ child["out"] # None => child["out"].cmd = "dns"
    /\ child["start"] # None => child["start"].cmd \in {"bypass", "address", "dns", "default"}
    /\ app.closing => app.at # "free"
    /\ ~ ctl.cts /\ app.at # "ended" /\ ~ app.closing => child["start"] = None

\* The record of RouteManager and the routes of the system, which agree but
\* for the routes an earlier stop could not delete in time.
RouteInv ==
    /\ rm.bypass \subseteq sys.bypass \cup past.kept
    /\ \A t \in {"start", "err"} :
          task[t].at = "exec" /\ child[t].exit = "ok" => task[t].addr \in sys.bypass \cup past.kept
    /\ \A a \in sys.bypass :
          \/ a \in rm.bypass \cup past.kept
          \/ \E t \in {"start", "err"} : task[t].at = "exec" /\ task[t].addr = a /\ child[t].exit = "ok"

\* The addresses for which a task is going to add a route.
Early == {"bootstrap", "config", "delay"}
StartOwes ==
    IF task.start.at = "resolve" THEN task.start.todo
    ELSE IF task.start.at \in {"lock", "exec"} /\ task.start.phase = "configure"
    THEN task.start.todo \cup {task.start.addr}
    ELSE {}
ErrOwes == IF task.err.at \in {"lock", "exec"} THEN {task.err.addr} ELSE {}
OwedInv ==
    ctl.cts =>
        /\ rm.gateway <=> task.start.at \notin Early
        /\ rm.gateway => Hosts \subseteq rm.bypass \cup StartOwes
        /\ rm.gateway => ctl.seen \subseteq rm.bypass \cup past.refused \cup StartOwes \cup ErrOwes
        /\ sys.default => task.start.at \notin Early \cup {"resolve"} /\ StartOwes = {}

\* Where the start is, and what is known of the DNS by then.
Before == Early \cup {"resolve", "address", "dns", "default"}
StageInv ==
    ctl.cts =>
        /\ ctl.routesReady <=>
              ~ (task.start.at \in Before
                   \/ (task.start.at \in {"lock", "exec"} /\ task.start.phase = "configure"))
        /\ task.start.at = "bootstrap" => task.err.at = "off" /\ task.out.at = "off"
        /\ task.start.at \notin {"bootstrap", "config"} => ctl.ready
        /\ ~ ctl.routesReady => rm.dnsLock = None /\ task.out.at \in {"off", "read"}
        /\ ctl.ready => ctl.latest \in past.had /\ ctl.dns \in past.had
        /\ ctl.routesReady => ctl.applied \in past.had
        /\ task.start.at # "dnsLock"

DnsLockInv ==
    \A t \in {"start", "out"} :
        /\ rm.dnsLock = t => task[t].at \in {"dnsLock", "dnsExec"}
        /\ task[t].at = "dnsExec" => rm.dnsLock = t

\* The DNS of the adapter: set by ConfigureAsync, ...
FirstDnsInv ==
    ctl.cts =>
        /\ task.start.at = "dns" =>
              /\ child["start"].arg = ctl.dns
              /\ child["start"].exit = "ok" /\ ~ past.lostDns => sys.dns = ctl.dns
        /\ task.start.at = "default" /\ ~ past.lostDns => sys.dns = ctl.dns

\* ... and from then on the one applied, or about to be the latest.
LastDnsInv ==
    ctl.cts /\ ctl.routesReady =>
        /\ \A t \in {"start", "out"} :
              task[t].at = "dnsExec" =>
                  /\ child[t].arg \in past.had
                  /\ child[t].exit = "ok" /\ ~ past.lostDns => sys.dns = child[t].arg
        /\ (~ past.lostDns /\ ~ past.repeated) =>
              /\ \/ ctl.latest = ctl.applied
                 \/ task.out.at \in {"dnsLock", "dnsExec"}
                 \/ task.start.at = "dnsExec"
              /\ task.out.at = "dnsExec" => child["out"].arg = ctl.latest
              /\ (task.start.at = "dnsExec" /\ task.out.at \in {"off", "read"})
                    => child["start"].arg = ctl.latest
              /\ (task.start.at # "dnsExec" /\ task.out.at # "dnsExec") => sys.dns = ctl.applied

TunnelInv ==
    /\ Types /\ ModeInv /\ ChildInv /\ LateInv /\ LockInv /\ RouteInv /\ OwedInv /\ StageInv
    /\ DnsLockInv /\ FirstDnsInv /\ LastDnsInv
-----------------------------------------------------------------------------
(* Small steps.                                                            *)

LEMMA NoneFacts ==
  /\ None # "ok" /\ None # "failed" /\ None # "start" /\ None # "err" /\ None # "out"
  /\ None \notin Addresses /\ None \notin Dns /\ None \notin Commands
  /\ Hosts \subseteq Addresses
BY WindowsTunnelAssumption DEF Tasks

LEMMA ExecFacts ==
  ASSUME NEW cmd \in {"bypass", "address", "dns", "default", "unbypass", "undns", "undefault"},
         NEW arg \in Addresses \cup Dns \cup {None}
  PROVE  /\ Exec(cmd, arg) \in Commands /\ Exec(cmd, arg) # None
         /\ Exec(cmd, arg).cmd = cmd /\ Exec(cmd, arg).arg = arg /\ Exec(cmd, arg).exit = None
<1>1. Exec(cmd, arg) \in Commands
  BY DEF Exec, Commands
<1> QED BY <1>1, NoneFacts DEF Exec

LEMMA FailedFacts ==
  ASSUME NEW p \in Pasts
  PROVE  /\ Failed(p) \in Pasts /\ Failed(p).refused = p.refused /\ Failed(p).had = p.had
         /\ Failed(p).repeated = p.repeated /\ Failed(p).lostDns = p.lostDns
         /\ Failed(p).kept = p.kept
<1>1. p.failures + 1 \in Nat
  BY DEF Pasts
<1> QED BY <1>1 DEF Pasts, Failed

LEMMA TunnelInit ==
  ASSUME Init
  PROVE  TunnelInv
<1>1. Types
  <2>1. app \in Apps /\ ctl \in Ctls /\ rm \in Rms
    BY DEF Init, Apps, Ctls, Fresh, Rms
  <2>2. TaskType
    BY DEF Init, TaskType, StartTasks, ErrTasks, OutTasks
  <2>3. ChildType /\ sys \in Syss /\ past \in Pasts
    BY DEF Init, ChildType, Syss, Pasts
  <2> QED BY <2>1, <2>2, <2>3 DEF Types
<1>2. /\ ~ ctl.cts /\ ~ app.connected /\ app.at = "free"
      /\ rm = [gateway |-> FALSE, bypass |-> {}, lock |-> None, dnsLock |-> None]
      /\ task.start.at = "idle" /\ task.err.at = "off" /\ task.out.at = "off"
      /\ \A t \in Tasks : child[t] = None
      /\ sys.bypass = {} /\ ~ sys.default /\ ~ sys.adapter /\ sys.core = "none"
      /\ sys.stray = {} /\ ~ app.closing
  BY DEF Init, Fresh
<1>3. ModeInv
  BY <1>2 DEF ModeInv
<1>4. ChildInv /\ LateInv
  BY <1>2 DEF ChildInv, LateInv, Stopped, Tasks
<1>5. LockInv /\ DnsLockInv
  BY <1>2, NoneFacts DEF LockInv, DnsLockInv
<1>6. RouteInv
  BY <1>2 DEF RouteInv
<1>7. OwedInv /\ StageInv /\ FirstDnsInv /\ LastDnsInv
  BY <1>2 DEF OwedInv, StageInv, FirstDnsInv, LastDnsInv
<1> QED BY <1>1, <1>3, <1>4, <1>5, <1>6, <1>7 DEF TunnelInv

\* The packet loops do not touch what the properties are about.
LEMMA FrameStep ==
  ASSUME TunnelInv, UNCHANGED <<app, ctl, rm, task, child, sys, past>>
  PROVE  TunnelInv'
BY DEF TunnelInv, Types, TaskType, ChildType, ModeInv, Stopped, ChildInv, Waits, LateInv, LockInv,
       RouteInv, OwedInv, StartOwes, ErrOwes, StageInv, DnsLockInv, FirstDnsInv, LastDnsInv

\* Nor do the steps of a run touch what is left of an earlier one.
LEMMA LateStep ==
  ASSUME TunnelInv, TaskType', ChildInv', ~ Stopped',
         sys'.stray = sys.stray, past.kept \subseteq past'.kept,
         app'.closing => app'.at # "free",
         ctl'.cts \/ app'.closing \/ task'.start.at = "idle"
  PROVE  LateInv'
<1>1. \A t \in Tasks : Waits(t)'
  BY DEF ChildInv
<1>2. /\ child'["err"] # None => child'["err"].cmd = "bypass"
      /\ child'["out"] # None => child'["out"].cmd = "dns"
  BY <1>1 DEF Waits, CommandAt, Tasks, TaskType, ErrTasks, OutTasks
<1>3. /\ child'["start"] # None => child'["start"].cmd \in {"bypass", "address", "dns", "default"}
      /\ task'.start.at = "idle" => child'["start"] = None
  BY <1>1 DEF Waits, CommandAt, Tasks, TaskType, StartTasks
<1>4. LateInv
  BY DEF TunnelInv
<1> QED BY <1>2, <1>3, <1>4 DEF LateInv

LEMMA CarryStep ==
  ASSUME TunnelInv, Carrying
  PROVE  TunnelInv'
<1>1. CASE TunRead \/ Datagram
  BY <1>1, FrameStep DEF TunRead, Datagram
<1>2. ASSUME NEW loop, NEW next, Free, OnSession(loop, next) PROVE TunnelInv'
  <2>t. Types
    BY DEF TunnelInv
  <2>1. /\ ctl' = ctl /\ rm' = rm /\ task' = task /\ child' = child /\ sys' = sys
        /\ app' = [app EXCEPT !.at = IF sys.adapter THEN @ ELSE "ended"]
        /\ past' = [past EXCEPT !.crashed = @ \/ ~ sys.adapter]
    BY <1>2 DEF OnSession
  <2>2. app' \in Apps /\ past' \in Pasts /\ app'.connected = app.connected
        /\ past'.refused = past.refused /\ past'.had = past.had
        /\ past'.repeated = past.repeated /\ past'.lostDns = past.lostDns
        /\ past'.kept = past.kept /\ app'.closing = app.closing
    BY <2>t, <2>1 DEF Types, Apps, Pasts
  <2>3. app.at = "free" /\ app'.at = IF sys.adapter THEN "free" ELSE "ended"
    BY <2>t, <1>2, <2>1 DEF Types, Apps, Free
  <2>4. Types' /\ ModeInv'
    BY <2>t, <2>1, <2>2, <2>3 DEF Types, TaskType, ChildType, TunnelInv, ModeInv, Stopped
  <2>5. ChildInv' /\ LateInv' /\ LockInv' /\ RouteInv' /\ DnsLockInv'
    BY <2>1, <2>2, <2>3 DEF TunnelInv, ChildInv, LateInv, Stopped, Waits, LockInv, RouteInv, DnsLockInv
  <2>6. OwedInv' /\ StageInv' /\ FirstDnsInv' /\ LastDnsInv'
    BY <2>1, <2>2 DEF TunnelInv, OwedInv, StartOwes, ErrOwes, StageInv, FirstDnsInv, LastDnsInv
  <2> QED BY <2>4, <2>5, <2>6 DEF TunnelInv
<1> QED BY <1>1, <1>2 DEF Carrying, TunToCore, CoreToTun

LEMMA CoreExitStep ==
  ASSUME TunnelInv, CoreExits
  PROVE  TunnelInv'
<1>t. Types
  BY DEF TunnelInv
<1>1. /\ app' = app /\ ctl' = ctl /\ rm' = rm /\ task' = task /\ child' = child
      /\ sys.core = "running" /\ sys' = [sys EXCEPT !.core = "exited"] /\ past' = Failed(past)
  BY DEF CoreExits
<1>2. /\ sys' \in Syss /\ sys'.bypass = sys.bypass /\ sys'.default = sys.default
      /\ sys'.dns = sys.dns /\ sys'.adapter = sys.adapter /\ sys'.stray = sys.stray
      /\ past' \in Pasts /\ past'.refused = past.refused /\ past'.had = past.had
      /\ past'.repeated = past.repeated /\ past'.lostDns = past.lostDns /\ past'.kept = past.kept
  BY <1>t, <1>1 DEF Types, Syss, Pasts, Failed
<1>3. Types' /\ ModeInv'
  BY <1>t, <1>1, <1>2 DEF Types, TaskType, ChildType, TunnelInv, ModeInv, Stopped
<1>4. ChildInv' /\ LateInv' /\ LockInv' /\ RouteInv' /\ DnsLockInv'
  BY <1>1, <1>2 DEF TunnelInv, ChildInv, LateInv, Stopped, Waits, LockInv, RouteInv, DnsLockInv
<1>5. OwedInv' /\ StageInv' /\ FirstDnsInv' /\ LastDnsInv'
  BY <1>1, <1>2 DEF TunnelInv, OwedInv, StartOwes, ErrOwes, StageInv, FirstDnsInv, LastDnsInv
<1> QED BY <1>3, <1>4, <1>5 DEF TunnelInv

\* A command ends, with its effect or without.
LEMMA ChildStep ==
  ASSUME TunnelInv, NEW t \in Tasks, ChildExits(t)
  PROVE  TunnelInv'
<1> DEFINE c == child[t]
<1>t. Types /\ TaskType /\ ChildType
  BY DEF TunnelInv, Types
<1>1. /\ app' = app /\ ctl' = ctl /\ rm' = rm /\ task' = task
      /\ c # None /\ c.exit = None
      /\ \/ /\ c.cmd \in OnAdapter => sys.adapter
            /\ child' = [child EXCEPT ![t].exit = "ok"]
            /\ sys' = Effect(c) /\ past' = past
         \/ /\ child' = [child EXCEPT ![t].exit = "failed"] /\ sys' = sys
            /\ past' \in {past, Failed(past)}
         \/ /\ c.cmd = "dns" /\ past' = [Failed(past) EXCEPT !.lostDns = TRUE]
            /\ child' = [child EXCEPT ![t].exit = "ok"]
            /\ \E late \in SUBSET {Exec("undns", None)} : sys' = [sys EXCEPT !.stray = @ \cup late]
  BY DEF ChildExits
<1>2. /\ c \in Commands
      /\ c.cmd \in {"bypass", "address", "dns", "default"}
  <2>1. c \in Commands
    BY <1>t, <1>1 DEF ChildType
  <2> QED BY <1>1, <2>1 DEF TunnelInv, LateInv, Tasks
<1>3. PICK e \in {"ok", "failed"}, bad \in BOOLEAN :
        /\ child' = [child EXCEPT ![t].exit = e]
        /\ e = "failed" => sys' = sys /\ ~ bad
        /\ e = "ok" /\ ~ bad => (c.cmd \in OnAdapter => sys.adapter) /\ sys' = Effect(c)
        /\ bad => /\ e = "ok" /\ c.cmd = "dns"
                  /\ \E late \in SUBSET {Exec("undns", None)} :
                        sys' = [sys EXCEPT !.stray = @ \cup late]
        /\ bad => past' = [Failed(past) EXCEPT !.lostDns = TRUE]
        /\ ~ bad => past' \in {past, Failed(past)}
  BY <1>1
<1>4. /\ child'[t] \in Commands /\ child'[t] # None /\ child'[t].cmd = c.cmd
      /\ child'[t].arg = c.arg /\ child'[t].exit = e
      /\ \A u \in Tasks : u # t => child'[u] = child[u]
      /\ child' \in [Tasks -> Commands \cup {None}]
  BY <1>t, <1>2, <1>3, NoneFacts DEF ChildType, Commands
<1>5. past' \in Pasts /\ past'.refused = past.refused /\ past'.had = past.had
      /\ past'.repeated = past.repeated /\ past'.lostDns = (past.lostDns \/ bad)
      /\ past'.kept = past.kept
  <2>1. past \in Pasts
    BY <1>t DEF Types
  <2>2. /\ Failed(past) \in Pasts /\ Failed(past).refused = past.refused
        /\ Failed(past).had = past.had /\ Failed(past).repeated = past.repeated
        /\ Failed(past).lostDns = past.lostDns /\ Failed(past).kept = past.kept
    BY <2>1, FailedFacts
  <2>3. CASE bad
    BY <1>3, <2>2, <2>3 DEF Pasts
  <2>4. CASE ~ bad
    BY <1>3, <2>1, <2>2, <2>4 DEF Pasts
  <2> QED BY <2>3, <2>4
<1>6. /\ c.cmd = "bypass" => task[t].at = "exec" /\ t \in {"start", "err"}
                                /\ c.arg = task[t].addr /\ c.arg \in Addresses /\ rm.lock = t
      /\ c.cmd = "dns" => c.arg \in Dns
  <2>1. c.cmd = "bypass" => task[t].at = "exec"
    BY <1>1 DEF TunnelInv, ChildInv
  <2>2. task.out.at # "exec"
    BY <1>t DEF TaskType, OutTasks
  <2> QED BY <1>1, <2>1, <2>2 DEF TunnelInv, ChildInv, LockInv, Tasks
<1> HIDE DEF c
<1>7. /\ sys' \in Syss /\ sys'.adapter = sys.adapter /\ sys'.core = sys.core
      /\ sys'.bypass = IF e = "ok" /\ c.cmd = "bypass" THEN sys.bypass \cup {c.arg} ELSE sys.bypass
      /\ sys'.dns = IF e = "ok" /\ ~ bad /\ c.cmd = "dns" THEN c.arg ELSE sys.dns
      /\ sys'.default => sys.default \/ (e = "ok" /\ c.cmd = "default" /\ sys.adapter)
      /\ \A x \in sys'.stray : x \in sys.stray \/ x.cmd = "undns"
  <2>0. sys \in Syss
    BY <1>t DEF Types
  <2>1. CASE e = "failed"
    BY <1>3, <2>0, <2>1
  <2>2. CASE e = "ok" /\ c.cmd = "bypass"
    <3>1. sys' = [sys EXCEPT !.bypass = sys.bypass \cup {c.arg}]
      BY <1>3, <2>2 DEF Effect
    <3> QED BY <1>6, <2>0, <2>2, <3>1 DEF Syss
  <2>3. CASE e = "ok" /\ c.cmd = "dns" /\ ~ bad
    <3>1. sys' = [sys EXCEPT !.dns = c.arg]
      BY <1>3, <2>3 DEF Effect
    <3> QED BY <1>6, <2>0, <2>3, <3>1 DEF Syss
  <2>4. CASE e = "ok" /\ c.cmd = "default"
    <3>1. sys' = [sys EXCEPT !.default = TRUE] /\ sys.adapter
      BY <1>3, <2>4 DEF Effect, OnAdapter
    <3> QED BY <2>0, <2>4, <3>1 DEF Syss
  <2>5. CASE e = "ok" /\ c.cmd = "address"
    <3>1. sys' = sys
      BY <1>3, <2>5 DEF Effect
    <3> QED BY <2>0, <2>5, <3>1
  <2>6. CASE bad
    <3>1. PICK late \in SUBSET {Exec("undns", None)} : sys' = [sys EXCEPT !.stray = @ \cup late]
      BY <1>3, <2>6
    <3>2. Exec("undns", None) \in Commands /\ Exec("undns", None).cmd = "undns"
      BY ExecFacts
    <3>3. c.cmd = "dns" /\ late \subseteq Commands /\ \A x \in late : x.cmd = "undns"
      BY <1>3, <2>6, <3>1, <3>2
    <3> QED BY <2>0, <2>6, <3>1, <3>3 DEF Syss
  <2> QED BY <1>2, <2>1, <2>2, <2>3, <2>4, <2>5, <2>6
<1>8. ctl.cts => Waits(t)
  BY <1>t DEF TunnelInv, ChildInv, ModeInv, Stopped
<1>9. /\ ctl.cts /\ c.cmd = "default" => t = "start" /\ task.start.at = "default"
      /\ ctl.cts /\ c.cmd = "dns" =>
            \/ t = "start" /\ task.start.at \in {"dns", "dnsExec"}
            \/ t = "out" /\ task.out.at = "dnsExec"
  BY <1>t, <1>8, <1>1 DEF Waits, CommandAt, Tasks, TaskType, StartTasks, ErrTasks, OutTasks, c
<1>10. Types'
  BY <1>t, <1>1, <1>4, <1>5, <1>7 DEF Types, TaskType, ChildType
<1>11. ModeInv'
  BY <1>t, <1>1, <1>5, <1>6, <1>7, NoneFacts DEF TunnelInv, ModeInv, Stopped
<1>12. ChildInv'
  <2>1. \A u \in Tasks : Waits(u) => Waits(u)'
    BY <1>1, <1>4 DEF Waits, c
  <2>2. Stopped' <=> Stopped
    BY <1>1 DEF Stopped
  <2> QED BY <1>1, <1>4, <2>1, <2>2 DEF TunnelInv, ChildInv, c, Tasks
<1>a. LateInv'
  BY <1>1, <1>2, <1>4, <1>5, <1>7 DEF TunnelInv, LateInv, c, Tasks
<1>13. LockInv' /\ DnsLockInv'
  BY <1>1 DEF TunnelInv, LockInv, DnsLockInv
<1>14. RouteInv'
  <2>1. rm'.bypass \subseteq sys'.bypass \cup past'.kept
    BY <1>1, <1>5, <1>7 DEF TunnelInv, RouteInv
  <2>2. \A u \in {"start", "err"} : child[u].exit = "ok" => child'[u].exit = "ok"
    BY <1>1, <1>4, NoneFacts DEF c, Tasks
  <2>3. ASSUME NEW a \in sys'.bypass
        PROVE  \/ a \in rm'.bypass \cup past'.kept
               \/ \E u \in {"start", "err"} :
                    task'[u].at = "exec" /\ task'[u].addr = a /\ child'[u].exit = "ok"
    <3>1. CASE a \in sys.bypass
      BY <1>1, <1>5, <2>2, <3>1 DEF TunnelInv, RouteInv
    <3>2. CASE a \notin sys.bypass
      BY <1>1, <1>4, <1>6, <1>7, <3>2
    <3> QED BY <3>1, <3>2
  <2>4. ASSUME NEW u \in {"start", "err"}, task[u].at = "exec", child'[u].exit = "ok"
        PROVE  task[u].addr \in sys'.bypass \cup past'.kept
    <3>1. CASE u = t
      <4>1. Waits(t) /\ c.arg = task[t].addr
        BY <2>4, <3>1 DEF TunnelInv, ChildInv, ModeInv, Stopped, c
      <4>2. c.cmd = "bypass"
        BY <2>4, <3>1, <4>1 DEF Waits, CommandAt, c
      <4> QED BY <1>4, <1>7, <2>4, <3>1, <4>1, <4>2
    <3>2. CASE u # t
      <4>1. child[u].exit = "ok"
        BY <1>4, <2>4, <3>2 DEF Tasks
      <4>2. task[u].addr \in sys.bypass \cup past.kept
        BY <2>4, <4>1 DEF TunnelInv, RouteInv
      <4> QED BY <1>5, <1>7, <4>2
    <3> QED BY <3>1, <3>2
  <2> QED BY <1>1, <2>1, <2>3, <2>4 DEF RouteInv
<1>15. OwedInv'
  BY <1>1, <1>5, <1>7, <1>9 DEF TunnelInv, OwedInv, StartOwes, ErrOwes, Early
<1>16. StageInv'
  BY <1>1, <1>5 DEF TunnelInv, StageInv
<1>17. FirstDnsInv'
  <2> SUFFICES ASSUME ctl.cts
               PROVE  /\ task.start.at = "dns" =>
                           /\ child'["start"].arg = ctl.dns
                           /\ child'["start"].exit = "ok" /\ ~ past'.lostDns => sys'.dns = ctl.dns
                      /\ task.start.at = "default" /\ ~ past'.lostDns => sys'.dns = ctl.dns
    BY <1>1 DEF FirstDnsInv
  <2>1. task.start.at \in {"dns", "default"} => task.out.at # "dnsExec"
    BY DEF TunnelInv, StageInv, Before
  <2>2. FirstDnsInv
    BY DEF TunnelInv
  <2>3. CASE t = "start"
    <3>1. c.arg = child["start"].arg /\ c.exit = child["start"].exit /\ c.exit = None
      BY <1>1, <2>3 DEF c
    <3>2. task.start.at = "dns" => c.cmd = "dns"
      BY <1>8, <2>3 DEF Waits, CommandAt, c
    <3>3. task.start.at = "default" => c.cmd = "default"
      BY <1>8, <2>3 DEF Waits, CommandAt, c
    <3>4. task.start.at = "dns" => c.arg = ctl.dns
      BY <2>2, <3>1 DEF FirstDnsInv
    <3>5. task.start.at = "default" /\ ~ past.lostDns => sys.dns = ctl.dns
      BY <2>2 DEF FirstDnsInv
    <3> QED BY <1>4, <1>5, <1>7, <2>3, <3>2, <3>3, <3>4, <3>5
  <2>4. CASE t # "start"
    BY <1>1, <1>4, <1>5, <1>7, <1>9, <2>1, <2>2, <2>4 DEF FirstDnsInv, Tasks
  <2> QED BY <2>3, <2>4
<1>18. LastDnsInv'
  <2> SUFFICES ASSUME ctl.cts, ctl.routesReady PROVE LastDnsInv'
    BY <1>1 DEF LastDnsInv
  <2>1. task.start.at # "dns" /\ ~ (task.start.at = "dnsExec" /\ task.out.at = "dnsExec")
    BY DEF TunnelInv, StageInv, Before, DnsLockInv
  <2>2. LastDnsInv
    BY DEF TunnelInv
  <2>3. "start" \in Tasks /\ "out" \in Tasks
    BY DEF Tasks
  <2>4. \A u \in {"start", "out"} : child'[u].arg = child[u].arg
    BY <1>4, <2>3 DEF c
  <2>5. \A u \in {"start", "out"} :
          task[u].at = "dnsExec" /\ child'[u].exit = "ok" /\ ~ past'.lostDns => sys'.dns = child'[u].arg
    <3> SUFFICES ASSUME NEW u \in {"start", "out"}, task[u].at = "dnsExec", child'[u].exit = "ok",
                        ~ past'.lostDns
                 PROVE  sys'.dns = child'[u].arg
      OBVIOUS
    <3>1. CASE u = t
      <4>1. c.cmd = "dns"
        BY <1>8, <3>1 DEF Waits, CommandAt, c
      <4> QED BY <1>4, <1>5, <1>7, <3>1, <4>1
    <3>2. CASE u # t
      <4>1. child'[u] = child[u] /\ sys.dns = child[u].arg
        BY <1>4, <1>5, <2>2, <2>3, <3>2 DEF LastDnsInv
      <4>2. c.cmd # "dns"
        BY <1>9, <2>1, <3>2
      <4> QED BY <1>7, <4>1, <4>2
    <3> QED BY <3>1, <3>2
  <2>6. (task.start.at # "dnsExec" /\ task.out.at # "dnsExec") => sys'.dns = sys.dns
    BY <1>7, <1>9, <2>1
  <2> QED BY <1>1, <1>5, <2>2, <2>4, <2>5, <2>6 DEF LastDnsInv
<1> QED BY <1>10, <1>11, <1>12, <1>a, <1>13, <1>14, <1>15, <1>16, <1>17, <1>18 DEF TunnelInv

\* What an earlier run has left ends, with its effect or without.
LEMMA StrayStep ==
  ASSUME TunnelInv, NEW c \in sys.stray, StrayEnds(c)
  PROVE  TunnelInv'
<1>t. Types /\ sys \in Syss /\ past \in Pasts
  BY DEF TunnelInv, Types
<1>1. /\ app' = app /\ ctl' = ctl /\ rm' = rm /\ task' = task /\ child' = child
      /\ \/ sys' = [sys EXCEPT !.stray = @ \ {c}] /\ past' = past
         \/ /\ sys' = [Effect(c) EXCEPT !.stray = @ \ {c}]
            /\ past' = [past EXCEPT !.lostDns = @ \/ c.cmd \in {"dns", "undns"}]
  BY DEF StrayEnds
<1>2. /\ c.cmd \in {"dns", "undns", "undefault", "unbypass"}
      /\ c.cmd = "dns" => c.arg \in Dns
      /\ c.cmd = "unbypass" => c.arg \in past.kept
  BY DEF TunnelInv, LateInv
<1>3. /\ past' \in Pasts /\ past'.refused = past.refused /\ past'.had = past.had
      /\ past'.repeated = past.repeated /\ past'.kept = past.kept
      /\ past.lostDns => past'.lostDns
      /\ sys' \in Syss /\ sys'.adapter = sys.adapter /\ sys'.core = sys.core
      /\ sys'.stray \subseteq sys.stray
      /\ sys'.bypass \subseteq sys.bypass /\ sys.bypass \subseteq sys'.bypass \cup past.kept
      /\ sys'.default => sys.default
      /\ ~ past'.lostDns => sys'.dns = sys.dns
  <2>1. CASE sys' = [sys EXCEPT !.stray = @ \ {c}] /\ past' = past
    BY <1>t, <2>1 DEF Syss
  <2>2. CASE /\ sys' = [Effect(c) EXCEPT !.stray = @ \ {c}]
             /\ past' = [past EXCEPT !.lostDns = @ \/ c.cmd \in {"dns", "undns"}]
    <3>1. /\ past' \in Pasts /\ past'.refused = past.refused /\ past'.had = past.had
          /\ past'.repeated = past.repeated /\ past'.kept = past.kept
          /\ past'.lostDns = (past.lostDns \/ c.cmd \in {"dns", "undns"})
      BY <1>t, <2>2 DEF Pasts
    <3>2. CASE c.cmd = "dns"
      <4>1. Effect(c) = [sys EXCEPT !.dns = c.arg]
        BY <3>2 DEF Effect
      <4> QED BY <1>t, <1>2, <2>2, <3>1, <3>2, <4>1 DEF Syss
    <3>3. CASE c.cmd = "undns"
      <4>1. Effect(c) = [sys EXCEPT !.dns = None]
        BY <3>3 DEF Effect
      <4> QED BY <1>t, <2>2, <3>1, <3>3, <4>1 DEF Syss
    <3>4. CASE c.cmd = "undefault"
      <4>1. Effect(c) = [sys EXCEPT !.default = FALSE]
        BY <3>4 DEF Effect
      <4> QED BY <1>t, <2>2, <3>1, <3>4, <4>1 DEF Syss
    <3>5. CASE c.cmd = "unbypass"
      <4>1. Effect(c) = [sys EXCEPT !.bypass = @ \ {c.arg}]
        BY <3>5 DEF Effect
      <4> QED BY <1>t, <1>2, <2>2, <3>1, <3>5, <4>1 DEF Syss
    <3> QED BY <1>2, <3>2, <3>3, <3>4, <3>5
  <2> QED BY <1>1, <2>1, <2>2
<1>4. Types' /\ ModeInv'
  BY <1>t, <1>1, <1>3 DEF Types, TaskType, ChildType, TunnelInv, ModeInv, Stopped
<1>5. ChildInv' /\ LateInv' /\ LockInv' /\ DnsLockInv'
  BY <1>1, <1>3 DEF TunnelInv, ChildInv, LateInv, Stopped, Waits, LockInv, DnsLockInv
<1>6. RouteInv'
  BY <1>1, <1>3 DEF TunnelInv, RouteInv
<1>7. OwedInv' /\ StageInv'
  BY <1>1, <1>3 DEF TunnelInv, OwedInv, StartOwes, ErrOwes, StageInv
<1>8. FirstDnsInv' /\ LastDnsInv'
  BY <1>1, <1>3 DEF TunnelInv, FirstDnsInv, LastDnsInv
<1> QED BY <1>4, <1>5, <1>6, <1>7, <1>8 DEF TunnelInv

-----------------------------------------------------------------------------
(* Stopping.                                                               *)

\* Who gets a lock that is released.
LEMMA HeirFacts ==
  ASSUME TaskType
  PROVE  /\ Heir("start", "lock") = IF task.err.at = "lock" THEN "err" ELSE None
         /\ Heir("err", "lock") = IF task.start.at = "lock" THEN "start" ELSE None
         /\ Heir("start", "dnsLock") = IF task.out.at = "dnsLock" THEN "out" ELSE None
         /\ Heir("out", "dnsLock") = IF task.start.at = "dnsLock" THEN "start" ELSE None
<1>1. /\ task["start"] = task.start /\ task["err"] = task.err /\ task["out"] = task.out
      /\ task.out.at # "lock" /\ task.err.at # "dnsLock"
  BY DEF TaskType, ErrTasks, OutTasks
<1>2. \A u \in Tasks : u = "start" \/ u = "err" \/ u = "out"
  BY DEF Tasks
<1>3. "start" \in Tasks /\ "err" \in Tasks /\ "out" \in Tasks
  BY DEF Tasks
<1>4. Heir("start", "lock") = IF task.err.at = "lock" THEN "err" ELSE None
  <2> DEFINE others == {u \in Tasks \ {"start"} : task[u].at = "lock"}
  <2>1. others = IF task.err.at = "lock" THEN {"err"} ELSE {}
    BY <1>1, <1>2, <1>3
  <2>2. Heir("start", "lock") = IF others = {} THEN None ELSE CHOOSE u \in others : TRUE
    BY DEF Heir
  <2> HIDE DEF others
  <2> QED BY <2>1, <2>2
<1>5. Heir("err", "lock") = IF task.start.at = "lock" THEN "start" ELSE None
  <2> DEFINE others == {u \in Tasks \ {"err"} : task[u].at = "lock"}
  <2>1. others = IF task.start.at = "lock" THEN {"start"} ELSE {}
    BY <1>1, <1>2, <1>3
  <2>2. Heir("err", "lock") = IF others = {} THEN None ELSE CHOOSE u \in others : TRUE
    BY DEF Heir
  <2> HIDE DEF others
  <2> QED BY <2>1, <2>2
<1>6. Heir("start", "dnsLock") = IF task.out.at = "dnsLock" THEN "out" ELSE None
  <2> DEFINE others == {u \in Tasks \ {"start"} : task[u].at = "dnsLock"}
  <2>1. others = IF task.out.at = "dnsLock" THEN {"out"} ELSE {}
    BY <1>1, <1>2, <1>3
  <2>2. Heir("start", "dnsLock") = IF others = {} THEN None ELSE CHOOSE u \in others : TRUE
    BY DEF Heir
  <2> HIDE DEF others
  <2> QED BY <2>1, <2>2
<1>7. Heir("out", "dnsLock") = IF task.start.at = "dnsLock" THEN "start" ELSE None
  <2> DEFINE others == {u \in Tasks \ {"out"} : task[u].at = "dnsLock"}
  <2>1. others = IF task.start.at = "dnsLock" THEN {"start"} ELSE {}
    BY <1>1, <1>2, <1>3
  <2>2. Heir("out", "dnsLock") = IF others = {} THEN None ELSE CHOOSE u \in others : TRUE
    BY DEF Heir
  <2> HIDE DEF others
  <2> QED BY <2>1, <2>2
<1> QED BY <1>4, <1>5, <1>6, <1>7

\* Once the source is cancelled only the locks, the commands and the record
\* of the routes matter.
LEMMA DownStep ==
  ASSUME Types', ~ ctl'.cts, app'.at \in {"delete", "lock"},
         ChildInv', LateInv', LockInv', RouteInv', DnsLockInv'
  PROVE  TunnelInv'
<1>1. ModeInv'
  BY DEF ModeInv, Stopped
<1>2. OwedInv' /\ StageInv' /\ FirstDnsInv' /\ LastDnsInv'
  BY DEF OwedInv, StageInv, FirstDnsInv, LastDnsInv
<1> QED BY <1>1, <1>2 DEF TunnelInv

LEMMA StopStep ==
  ASSUME TunnelInv, NEW closing \in BOOLEAN, Free, StopAsync(closing),
         closing \/ task.start.at = "idle",
         UNCHANGED <<rm, task, child, sys, past>>
  PROVE  TunnelInv'
<1>t. Types /\ app.at = "free"
  BY DEF TunnelInv, Free
<1>1. CASE ctl.cts
  <2>1. /\ app' = [app EXCEPT !.at = "delete", !.closing = closing]
        /\ ctl' = [ctl EXCEPT !.cts = FALSE, !.routesReady = FALSE]
    BY <1>1 DEF StopAsync
  <2>2. /\ app' \in Apps /\ app'.at = "delete" /\ app'.closing = closing
        /\ ctl' \in Ctls /\ ~ ctl'.cts
    BY <1>t, <2>1 DEF Types, Apps, Ctls
  <2>3. Types'
    BY <1>t, <2>2 DEF Types, TaskType, ChildType
  <2>4. ~ Stopped
    BY <1>1 DEF Stopped
  <2>5. ChildInv' /\ LockInv' /\ RouteInv' /\ DnsLockInv'
    BY <2>4 DEF TunnelInv, ChildInv, Waits, LockInv, RouteInv, DnsLockInv
  <2>6. LateInv'
    <3>1. TaskType' /\ ~ Stopped'
      BY <2>2, <2>3 DEF Types, Stopped
    <3> QED BY <2>2, <2>5, <3>1, LateStep
  <2> QED BY <2>2, <2>3, <2>5, <2>6, DownStep
<1>2. CASE ~ ctl.cts
  <2>1. ctl' = ctl /\ app' = [app EXCEPT !.at = IF closing THEN "ended" ELSE "free"]
    BY <1>2 DEF StopAsync
  <2>2. /\ app' \in Apps /\ app'.at \in {"free", "ended"} /\ app'.connected = app.connected
        /\ app'.closing = app.closing
    BY <1>t, <2>1 DEF Types, Apps
  <2>3. Stopped /\ Stopped'
    BY <1>t, <1>2, <2>1, <2>2 DEF Stopped
  <2>4. Types' /\ ModeInv'
    BY <1>t, <1>2, <2>1, <2>2, <2>3 DEF Types, TaskType, ChildType, TunnelInv, ModeInv
  <2>5. ChildInv' /\ LateInv' /\ LockInv' /\ RouteInv' /\ DnsLockInv'
    BY <1>t, <2>1, <2>2, <2>3
       DEF TunnelInv, ChildInv, LateInv, Waits, LockInv, RouteInv, DnsLockInv
  <2>6. OwedInv' /\ StageInv' /\ FirstDnsInv' /\ LastDnsInv'
    BY <1>2, <2>1 DEF OwedInv, StageInv, FirstDnsInv, LastDnsInv
  <2> QED BY <2>4, <2>5, <2>6 DEF TunnelInv
<1> QED BY <1>1, <1>2

\* StartAsync fails while it holds no lock, or gives the one it has back.
LEMMA FailStep ==
  ASSUME TunnelInv, ctl.cts, StartFails, sys' = sys, past' \in Pasts, past'.kept = past.kept,
         task.start.at \notin {"dnsLock", "dnsExec"},
         task.start.at = "exec" => child["start"].exit = "failed",
         child' = [child EXCEPT !["start"] = None],
         \/ rm' = rm /\ task.start.at \notin {"lock", "exec"}
         \/ rm' = Released("start") /\ task.start.at = "exec"
  PROVE  TunnelInv'
<1>t. Types /\ TaskType /\ ChildType
  BY DEF TunnelInv, Types
<1>1. /\ task' = [task EXCEPT !.start.at = "idle"]
      /\ app' = [app EXCEPT !.at = "delete", !.closing = FALSE]
      /\ ctl' = [ctl EXCEPT !.cts = FALSE, !.routesReady = FALSE]
  BY DEF StartFails, StopAsync
<1>2. /\ TaskType' /\ task'.start.at = "idle" /\ task'.err = task.err /\ task'.out = task.out
  BY <1>t, <1>1 DEF TaskType, StartTasks, ErrTasks, OutTasks
<1>3. /\ app' \in Apps /\ app'.at = "delete" /\ ~ app'.closing /\ ctl' \in Ctls /\ ~ ctl'.cts
  BY <1>t, <1>1 DEF Types, Apps, Ctls
<1>4. /\ ChildType' /\ child'["start"] = None /\ child'["err"] = child["err"]
      /\ child'["out"] = child["out"]
  BY <1>t DEF ChildType, Tasks
<1>5. /\ rm' \in Rms /\ rm'.gateway = rm.gateway /\ rm'.bypass = rm.bypass
      /\ rm'.dnsLock = rm.dnsLock /\ rm'.lock \in {None, "err"}
      /\ rm'.lock = "err" => task.err.at \in {"lock", "exec"}
      /\ task.err.at = "exec" => rm'.lock = "err"
      /\ rm'.lock = "err" => rm.gateway
  <2>1. CASE rm' = rm /\ task.start.at \notin {"lock", "exec"}
    BY <1>t, <2>1, NoneFacts DEF Types, Rms, TunnelInv, LockInv
  <2>2. CASE rm' = Released("start") /\ task.start.at = "exec"
    <3>1. rm.lock = "start" /\ task.err.at # "exec" /\ rm.gateway
      BY <2>2, NoneFacts DEF TunnelInv, LockInv
    <3>2. rm' = [rm EXCEPT !.lock = IF task.err.at = "lock" THEN "err" ELSE None]
      BY <1>t, <2>2, HeirFacts DEF Released
    <3>3. PICK k \in {None, "err"} : /\ rm' = [rm EXCEPT !.lock = k]
                                     /\ k = "err" => task.err.at = "lock"
      BY <3>2, NoneFacts
    <3> QED BY <1>t, <3>1, <3>3, NoneFacts DEF Types, Rms
  <2> QED BY <2>1, <2>2
<1>6. Types'
  BY <1>t, <1>2, <1>3, <1>4, <1>5 DEF Types
<1>7. ChildInv'
  <2>1. ~ Stopped
    BY DEF Stopped
  <2>2. \A t \in Tasks : Waits(t)'
    <3>1. Waits("err") /\ Waits("out")
      BY <2>1 DEF TunnelInv, ChildInv, Tasks
    <3>2. Waits("start")'
      BY <1>2, <1>4 DEF Waits, CommandAt
    <3>3. Waits("err")' /\ Waits("out")'
      BY <1>2, <1>4, <3>1 DEF Waits
    <3> QED BY <3>2, <3>3 DEF Tasks
  <2> QED BY <1>2, <1>4, <2>2 DEF TunnelInv, ChildInv, Tasks
<1>a. LateInv'
  <2>1. ~ Stopped'
    BY <1>3 DEF Stopped
  <2> QED BY <1>2, <1>3, <1>7, <2>1, LateStep
<1>8. LockInv'
  BY <1>2, <1>5, NoneFacts DEF TunnelInv, LockInv
<1>9. DnsLockInv'
  BY <1>2, <1>5 DEF TunnelInv, DnsLockInv
<1>10. RouteInv'
  BY <1>2, <1>4, <1>5 DEF TunnelInv, RouteInv
<1> QED BY <1>3, <1>6, <1>7, <1>a, <1>8, <1>9, <1>10, DownStep

LEMMA DisposeStep ==
  ASSUME TunnelInv, Stopping
  PROVE  TunnelInv'
<1>t. Types /\ TaskType /\ ChildType /\ rm \in Rms /\ sys \in Syss /\ app \in Apps /\ past \in Pasts
  BY DEF TunnelInv, Types
<1>1. ~ ctl.cts /\ ~ Stopped
  BY DEF TunnelInv, ModeInv, Stopped, Stopping, DisposeDefault, DisposeBypass, StopCore
<1>2. CASE DisposeDefault
  <2>1. /\ app' = [app EXCEPT !.at = "lock"]
        /\ ctl' = ctl /\ rm' = rm /\ task' = task /\ child' = child
        /\ \/ sys' = [sys EXCEPT !.default = FALSE] /\ past' = past
           \/ /\ past' = Failed(past)
              /\ \E late \in SUBSET {Exec("undefault", None)} :
                    sys' = [sys EXCEPT !.stray = @ \cup late]
    BY <1>2 DEF DisposeDefault
  <2>2. app' \in Apps /\ app'.at = "lock" /\ app'.closing = app.closing /\ app.at = "delete"
    BY <1>t, <1>2, <2>1 DEF Apps, DisposeDefault
  <2>3. /\ sys' \in Syss /\ sys'.bypass = sys.bypass
        /\ \A x \in sys'.stray : x \in sys.stray \/ x.cmd = "undefault"
        /\ past' \in Pasts /\ past'.kept = past.kept
    <3>1. CASE sys' = [sys EXCEPT !.default = FALSE] /\ past' = past
      BY <1>t, <3>1 DEF Syss
    <3>2. ASSUME past' = Failed(past), NEW late \in SUBSET {Exec("undefault", None)},
                 sys' = [sys EXCEPT !.stray = @ \cup late]
          PROVE  /\ sys' \in Syss /\ sys'.bypass = sys.bypass
                 /\ \A x \in sys'.stray : x \in sys.stray \/ x.cmd = "undefault"
                 /\ past' \in Pasts /\ past'.kept = past.kept
      <4>1. late \subseteq Commands /\ \A x \in late : x.cmd = "undefault"
        BY ExecFacts
      <4> QED BY <1>t, <3>2, <4>1, FailedFacts DEF Syss
    <3> QED BY <2>1, <3>1, <3>2
  <2>4. Types'
    BY <1>t, <2>1, <2>2, <2>3 DEF TunnelInv, Types, TaskType, ChildType
  <2>5. ChildInv' /\ LockInv' /\ RouteInv' /\ DnsLockInv'
    BY <1>1, <2>1, <2>3 DEF TunnelInv, ChildInv, Waits, LockInv, RouteInv, DnsLockInv
  <2>6. LateInv'
    BY <2>1, <2>2, <2>3 DEF TunnelInv, LateInv
  <2> QED BY <1>1, <2>1, <2>2, <2>4, <2>5, <2>6, DownStep
<1>3. CASE DisposeBypass
  <2>1. /\ app.at = "lock" /\ rm.lock = None /\ app' = [app EXCEPT !.at = "core"]
        /\ rm' = [rm EXCEPT !.bypass = {}, !.gateway = FALSE]
        /\ ctl' = ctl /\ task' = task /\ child' = child
        /\ \/ sys' = Deleted({}, {}) /\ past' = past
           \/ \E kept \in (SUBSET Known) \ {{}} : \E late \in SUBSET kept :
                 sys' = Deleted(kept, late) /\ past' = [Failed(past) EXCEPT !.kept = @ \cup kept]
    BY <1>3 DEF DisposeBypass
  <2>2. task.start.at # "exec" /\ task.err.at # "exec"
    BY <2>1, NoneFacts DEF TunnelInv, LockInv
  <2>3. Known \subseteq Addresses /\ sys.bypass \subseteq Known \cup past.kept
    BY <1>t, <2>2 DEF TunnelInv, RouteInv, LockInv, Rms, Known
  <2>4. /\ sys' \in Syss /\ past' \in Pasts /\ past.kept \subseteq past'.kept
        /\ sys'.bypass \subseteq past'.kept
        /\ \A x \in sys'.stray : x \in sys.stray \/ (x.cmd = "unbypass" /\ x.arg \in past'.kept)
    <3>1. CASE sys' = Deleted({}, {}) /\ past' = past
      <4>1. sys' = [sys EXCEPT !.bypass = @ \ Known]
        BY <1>t, <3>1 DEF Deleted, Syss
      <4> QED BY <1>t, <2>3, <3>1, <4>1 DEF Syss
    <3>2. ASSUME NEW kept \in (SUBSET Known) \ {{}}, NEW late \in SUBSET kept,
                 sys' = Deleted(kept, late), past' = [Failed(past) EXCEPT !.kept = @ \cup kept]
          PROVE  /\ sys' \in Syss /\ past' \in Pasts /\ past.kept \subseteq past'.kept
                 /\ sys'.bypass \subseteq past'.kept
                 /\ \A x \in sys'.stray :
                       x \in sys.stray \/ (x.cmd = "unbypass" /\ x.arg \in past'.kept)
      <4>1. kept \subseteq Addresses /\ late \subseteq kept
        BY <2>3, <3>2
      <4>2. past' \in Pasts /\ past'.kept = past.kept \cup kept
        <5>1. Failed(past) \in Pasts /\ Failed(past).kept = past.kept
          BY <1>t, FailedFacts
        <5> QED BY <3>2, <4>1, <5>1 DEF Pasts
      <4> DEFINE runs == {Exec("unbypass", a) : a \in late}
      <4>3. \A x \in runs : x \in Commands /\ x.cmd = "unbypass" /\ x.arg \in late
        BY <4>1, ExecFacts
      <4>4. sys' = [sys EXCEPT !.bypass = @ \ (Known \ kept), !.stray = @ \cup runs]
        BY <3>2 DEF Deleted
      <4> HIDE DEF runs
      <4>5. /\ sys' \in Syss /\ sys'.bypass = sys.bypass \ (Known \ kept)
            /\ sys'.stray = sys.stray \cup runs
        BY <1>t, <4>3, <4>4 DEF Syss
      <4> QED BY <2>3, <4>1, <4>2, <4>3, <4>5
    <3> QED BY <2>1, <3>1, <3>2
  <2>5. /\ app' \in Apps /\ app'.at = "core" /\ app'.closing = app.closing
        /\ rm' \in Rms /\ rm'.bypass = {} /\ ~ rm'.gateway /\ rm'.lock = None
        /\ rm'.dnsLock = rm.dnsLock
    BY <1>t, <2>1 DEF Apps, Rms
  <2>6. Types'
    BY <1>t, <2>1, <2>4, <2>5 DEF TunnelInv, Types, TaskType, ChildType
  <2>7. ModeInv'
    BY <1>1, <2>1, <2>4, <2>5 DEF ModeInv, Stopped
  <2>8. ChildInv'
    BY <1>1, <2>1 DEF TunnelInv, ChildInv, Waits
  <2>9. LockInv' /\ RouteInv' /\ DnsLockInv'
    BY <2>1, <2>2, <2>4, <2>5, NoneFacts DEF TunnelInv, LockInv, RouteInv, DnsLockInv
  <2>10. OwedInv' /\ StageInv' /\ FirstDnsInv' /\ LastDnsInv'
    BY <1>1, <2>1 DEF OwedInv, StageInv, FirstDnsInv, LastDnsInv
  <2>11. LateInv'
    BY <2>1, <2>4, <2>5 DEF TunnelInv, LateInv
  <2> QED BY <2>6, <2>7, <2>8, <2>9, <2>10, <2>11 DEF TunnelInv
<1>4. CASE StopCore
  <2>1. /\ app.at = "core"
        /\ app' = [app EXCEPT !.at = IF app.closing THEN "ended" ELSE "free", !.connected = FALSE]
        /\ \E core \in {"none", "lost"} :
              sys' = [sys EXCEPT !.core = core, !.adapter = FALSE, !.default = FALSE, !.dns = None]
        /\ past' \in {past, Failed(past)}
        /\ task' = [task EXCEPT !.err = [at |-> "off", addr |-> None], !.out.at = "off",
                                !.start.at = "idle"]
        /\ rm' = [rm EXCEPT !.dnsLock = None]
        /\ ctl' = ctl /\ child' = child
    BY <1>4 DEF StopCore
  <2>2. sys.bypass \subseteq past.kept /\ rm.bypass = {} /\ ~ rm.gateway /\ rm.lock = None
    BY <2>1 DEF TunnelInv, ModeInv
  <2>a. past' \in Pasts /\ past'.kept = past.kept
    BY <1>t, <2>1, FailedFacts
  <2>3. /\ sys' \in Syss /\ sys'.bypass = sys.bypass /\ ~ sys'.default /\ ~ sys'.adapter
        /\ sys'.core \in {"none", "lost"} /\ sys'.stray = sys.stray
    <3>1. PICK core \in {"none", "lost"} :
            sys' = [sys EXCEPT !.core = core, !.adapter = FALSE, !.default = FALSE, !.dns = None]
      BY <2>1
    <3> QED BY <1>t, <3>1 DEF Syss
  <2>4. /\ rm' \in Rms /\ rm'.bypass = {} /\ ~ rm'.gateway /\ rm'.lock = None /\ rm'.dnsLock = None
    BY <1>t, <2>1, <2>2 DEF Rms
  <2>5. /\ app' \in Apps /\ app'.at = (IF app.closing THEN "ended" ELSE "free")
        /\ app'.at \in {"free", "ended"} /\ ~ app'.connected /\ app'.closing = app.closing
    BY <1>t, <2>1 DEF Apps
  <2>6. TaskType' /\ task'.start.at = "idle" /\ task'.err.at = "off" /\ task'.out.at = "off"
    BY <1>t, <2>1 DEF TaskType, StartTasks, ErrTasks, OutTasks
  <2>7. Types'
    BY <1>t, <2>1, <2>a, <2>3, <2>4, <2>5, <2>6 DEF TunnelInv, Types, ChildType
  <2>8. ModeInv'
    BY <1>1, <2>1, <2>2, <2>a, <2>3, <2>4, <2>5, <2>6 DEF ModeInv
  <2>9. ChildInv'
    <3>1. Stopped'
      BY <1>1, <2>1, <2>5 DEF Stopped
    <3>2. \A t \in Tasks : ~ (child[t] # None /\ child[t].cmd = "bypass")
      <4>1. task.start.at # "exec" /\ task.err.at # "exec" /\ task.out.at # "exec"
        BY <1>t, <2>2, NoneFacts DEF TunnelInv, LockInv, TaskType, OutTasks
      <4> QED BY <4>1 DEF TunnelInv, ChildInv, Tasks
    <3>3. \A t \in Tasks : child[t] # None /\ child[t].cmd = "dns" => child[t].arg \in Dns
      BY DEF TunnelInv, ChildInv
    <3> QED BY <2>1, <2>6, <3>1, <3>2, <3>3 DEF ChildInv
  <2>10. LockInv' /\ RouteInv' /\ DnsLockInv'
    BY <2>2, <2>a, <2>3, <2>4, <2>6, NoneFacts DEF LockInv, RouteInv, DnsLockInv
  <2>12. LateInv'
    BY <2>1, <2>a, <2>3, <2>5 DEF TunnelInv, LateInv
  <2>11. OwedInv' /\ StageInv' /\ FirstDnsInv' /\ LastDnsInv'
    BY <1>1, <2>1 DEF OwedInv, StageInv, FirstDnsInv, LastDnsInv
  <2> QED BY <2>7, <2>8, <2>9, <2>10, <2>11, <2>12 DEF TunnelInv
<1> QED BY <1>2, <1>3, <1>4 DEF Stopping

-----------------------------------------------------------------------------
(* Starting.                                                               *)

LEMMA BeginStep ==
  ASSUME TunnelInv, StartAsync
  PROVE  TunnelInv'
<1>t. Types /\ TaskType /\ rm \in Rms /\ sys \in Syss /\ app \in Apps /\ past \in Pasts
  BY DEF TunnelInv, Types
<1>1. /\ app.at = "free" /\ ~ ctl.cts /\ child' = [t \in Tasks |-> None] /\ rm' = rm
  BY DEF StartAsync, Free
<1> DEFINE stray == sys.stray \cup Running
<1>a. /\ stray \subseteq Commands /\ ~ app.closing
      /\ \A c \in stray : c \in sys.stray \/ (c.cmd = "dns" /\ c.arg \in Dns)
  <2>1. child["start"] = None /\ ~ app.closing
    BY <1>1 DEF TunnelInv, LateInv
  <2>2. child["err"] = None
    BY <1>1 DEF TunnelInv, LateInv, ChildInv, ModeInv, Stopped, Tasks
  <2>3. child["out"] # None => child["out"].cmd = "dns" /\ child["out"].arg \in Dns
    BY DEF TunnelInv, LateInv, ChildInv, Tasks
  <2>4. child["out"] # None => child["out"] \in Commands
    BY DEF TunnelInv, Types, ChildType, Tasks
  <2>5. \A c \in Running : c = child["out"] /\ c # None
    BY <2>1, <2>2 DEF Running, Tasks
  <2> QED BY <1>t, <2>1, <2>3, <2>4, <2>5 DEF Syss
<1>2. /\ sys.bypass \subseteq past.kept /\ rm.bypass = {} /\ ~ rm.gateway /\ ~ sys.default
      /\ task.start.at = "idle" /\ task.err.at = "off" /\ task.out.at = "off"
      /\ rm.lock = None /\ rm.dnsLock = None /\ ~ app.connected
  BY <1>1 DEF TunnelInv, ModeInv, Stopped
<1>3. ChildType' /\ \A t \in Tasks : child'[t] = None
  BY <1>1 DEF ChildType
<1> DEFINE p == [past EXCEPT !.starts = @ + 1, !.confs = 0, !.refused = {}, !.had = {},
                             !.repeated = FALSE, !.lostDns = FALSE]
<1>4. p \in Pasts /\ Failed(p) \in Pasts /\ p.kept = past.kept /\ Failed(p).kept = past.kept
  <2>1. past.starts + 1 \in Nat
    BY <1>t DEF Pasts
  <2>2. p \in Pasts /\ p.kept = past.kept
    BY <1>t, <2>1 DEF Pasts
  <2> HIDE DEF p
  <2> QED BY <2>2, FailedFacts
<1>5. CASE /\ ctl' = [Fresh EXCEPT !.cts = TRUE]
           /\ sys' = Abandon([sys EXCEPT !.adapter = TRUE, !.core = "running"])
           /\ \E at \in {"bootstrap", "config"} : task' = Pumping(task, at)
           /\ past' = p /\ app' = app
  <2>1. /\ ctl' \in Ctls /\ ctl'.cts /\ ~ ctl'.ready /\ ~ ctl'.routesReady /\ ctl'.seen = {}
    BY <1>5 DEF Fresh, Ctls
  <2>2. /\ sys' \in Syss /\ sys'.adapter /\ sys'.bypass = sys.bypass /\ ~ sys'.default
        /\ sys'.stray = stray /\ past'.kept = past.kept
    <3>1. sys' = [sys EXCEPT !.adapter = TRUE, !.core = "running", !.stray = stray]
      BY <1>t, <1>5 DEF Abandon, Syss
    <3> HIDE DEF stray
    <3> QED BY <1>t, <1>a, <1>2, <1>4, <1>5, <3>1 DEF Syss
  <2>3. PICK at \in {"bootstrap", "config"} : task' = Pumping(task, at)
    BY <1>5
  <2>4. /\ TaskType' /\ task'.start.at = at /\ task'.err.at \in {"off", "read"}
        /\ task'.out.at \in {"off", "read"}
        /\ at = "bootstrap" => task'.err.at = "off" /\ task'.out.at = "off"
    BY <1>t, <2>3 DEF TaskType, StartTasks, ErrTasks, OutTasks, Pumping
  <2>5. Types'
    BY <1>t, <1>1, <1>3, <1>4, <1>5, <2>1, <2>2, <2>4 DEF Types
  <2>6. ModeInv'
    BY <1>1, <1>2, <1>5, <2>1, <2>2, <2>4 DEF ModeInv, Stopped
  <2>7. ChildInv'
    BY <1>3, <2>4 DEF ChildInv, Waits, CommandAt, Tasks
  <2>8. LockInv' /\ RouteInv' /\ DnsLockInv'
    BY <1>1, <1>2, <2>2, <2>4, NoneFacts DEF LockInv, RouteInv, DnsLockInv
  <2>9. OwedInv'
    BY <1>1, <1>2, <2>2, <2>4 DEF OwedInv, Early
  <2>10. StageInv' /\ FirstDnsInv' /\ LastDnsInv'
    BY <1>1, <1>2, <2>1, <2>4 DEF StageInv, FirstDnsInv, LastDnsInv, Before, Early
  <2>11. LateInv'
    BY <1>a, <1>3, <1>5, <2>1, <2>2 DEF TunnelInv, LateInv, Tasks
  <2> QED BY <2>5, <2>6, <2>7, <2>8, <2>9, <2>10, <2>11 DEF TunnelInv
<1>6. CASE /\ past' = Failed(p)
           /\ \E open \in BOOLEAN : sys' = Abandon([sys EXCEPT !.adapter = open])
           /\ ctl' = Fresh /\ app' = [app EXCEPT !.at = "delete", !.closing = FALSE]
           /\ task' = task
  <2>1. ctl' \in Ctls /\ ~ ctl'.cts
    BY <1>6 DEF Fresh, Ctls
  <2>2. /\ sys' \in Syss /\ sys'.bypass = sys.bypass /\ sys'.stray = stray
        /\ past'.kept = past.kept
    <3>1. PICK open \in BOOLEAN : sys' = Abandon([sys EXCEPT !.adapter = open])
      BY <1>6
    <3>2. sys' = [sys EXCEPT !.adapter = open, !.stray = stray]
      BY <1>t, <3>1 DEF Abandon, Syss
    <3> HIDE DEF stray
    <3> QED BY <1>t, <1>a, <1>4, <1>6, <3>2 DEF Syss
  <2>3. app' \in Apps /\ app'.at = "delete" /\ ~ app'.closing
    BY <1>t, <1>6 DEF Apps
  <2>4. Types'
    BY <1>t, <1>1, <1>3, <1>4, <1>6, <2>1, <2>2, <2>3 DEF Types, TaskType
  <2>5. ChildInv'
    BY <1>2, <1>3, <1>6 DEF ChildInv, Waits, CommandAt, Tasks
  <2>6. LockInv' /\ RouteInv' /\ DnsLockInv'
    BY <1>1, <1>2, <1>6, <2>2, NoneFacts DEF LockInv, RouteInv, DnsLockInv
  <2>7. LateInv'
    BY <1>a, <1>3, <2>2, <2>3 DEF TunnelInv, LateInv, Tasks
  <2> QED BY <2>1, <2>3, <2>4, <2>5, <2>6, <2>7, DownStep
<1> QED BY <1>5, <1>6 DEF StartAsync

\* A task that is on its way belongs to a start that was not stopped.
LEMMA ActiveFacts ==
  ASSUME TunnelInv, Free,
         task.start.at # "idle" \/ task.err.at # "off" \/ task.out.at # "off"
  PROVE  ctl.cts /\ ~ Stopped /\ sys.adapter /\ app.at = "free" /\ \A t \in Tasks : Waits(t)
BY DEF TunnelInv, ModeInv, Stopped, Free, ChildInv

\* A step of a run that goes on leaves alone what an earlier one has left.
LEMMA LiveLate ==
  ASSUME TunnelInv, Free, Types', ChildInv', ctl'.cts,
         app'.closing = app.closing, sys'.stray = sys.stray, past'.kept = past.kept
  PROVE  LateInv'
<1>1. ~ app.closing
  BY DEF TunnelInv, LateInv, Free
<1>2. TaskType' /\ ~ Stopped'
  BY DEF Types, Stopped
<1> QED BY <1>1, <1>2, LateStep

LEMMA BootstrapStep ==
  ASSUME TunnelInv, Bootstrapped
  PROVE  TunnelInv'
<1>t. Types /\ TaskType /\ ChildType
  BY DEF TunnelInv, Types
<1>1. /\ Free /\ task.start.at = "bootstrap" /\ rm' = rm /\ child' = child /\ sys' = sys
      /\ past' = past
  BY DEF Bootstrapped
<1>2. ctl.cts /\ ~ Stopped /\ app.at = "free" /\ \A t \in Tasks : Waits(t)
  BY <1>1, ActiveFacts
<1>3. child["start"] = None
  BY <1>1, <1>2 DEF Waits, CommandAt, Tasks
<1>4. CASE task' = Pumping(task, "config") /\ app' = app /\ ctl' = ctl
  <2>1. /\ TaskType' /\ task'.start.at = "config" /\ task'.err.at = "read" /\ task'.out.at = "read"
    BY <1>t, <1>4 DEF TaskType, StartTasks, ErrTasks, OutTasks, Pumping
  <2>2. task.err.at = "off" /\ task.out.at = "off" /\ ~ ctl.routesReady /\ rm.dnsLock = None
    BY <1>1, <1>2 DEF TunnelInv, StageInv, Before, Early
  <2>3. \A t \in Tasks : child[t] = None
    BY <1>1, <1>2, <2>2 DEF Waits, CommandAt, Tasks
  <2>4. Types'
    BY <1>t, <1>1, <1>4, <2>1 DEF Types, ChildType
  <2>5. ModeInv'
    BY <1>1, <1>2, <1>4, <2>1 DEF TunnelInv, ModeInv, Stopped
  <2>6. ChildInv'
    BY <1>1, <2>1, <2>3 DEF ChildInv, Waits, CommandAt, Tasks
  <2>7. LockInv' /\ RouteInv' /\ DnsLockInv'
    BY <1>1, <2>1, <2>2, NoneFacts DEF TunnelInv, LockInv, RouteInv, DnsLockInv
  <2>8. OwedInv'
    BY <1>1, <1>4, <2>1 DEF TunnelInv, OwedInv, Early
  <2>9. StageInv' /\ FirstDnsInv' /\ LastDnsInv'
    BY <1>1, <1>2, <1>4, <2>1, <2>2 DEF TunnelInv, StageInv, FirstDnsInv, LastDnsInv, Before, Early
  <2>10. LateInv'
    BY <1>1, <1>2, <1>4, <2>4, <2>6, LiveLate
  <2> QED BY <2>4, <2>5, <2>6, <2>7, <2>8, <2>9, <2>10 DEF TunnelInv
<1>5. CASE StartFails
  <2>1. child' = [child EXCEPT !["start"] = None]
    BY <1>t, <1>1, <1>3 DEF ChildType, Tasks
  <2> QED BY <1>t, <1>1, <1>2, <1>5, <2>1, FailStep DEF Types
<1> QED BY <1>4, <1>5 DEF Bootstrapped

LEMMA ConfigStep ==
  ASSUME TunnelInv, ConfigReady
  PROVE  TunnelInv'
<1>t. Types /\ TaskType /\ ChildType
  BY DEF TunnelInv, Types
<1>1. /\ Free /\ task.start.at = "config" /\ rm' = rm /\ child' = child /\ sys' = sys
      /\ past' = past
  BY DEF ConfigReady
<1>2. ctl.cts /\ ~ Stopped /\ app.at = "free" /\ \A t \in Tasks : Waits(t)
  BY <1>1, ActiveFacts
<1>3. child["start"] = None
  BY <1>1, <1>2 DEF Waits, CommandAt, Tasks
<1>4. CASE ctl.ready /\ task' = [task EXCEPT !.start.at = "delay"] /\ app' = app /\ ctl' = ctl
  <2>1. /\ TaskType' /\ task'.start.at = "delay" /\ task'.err = task.err /\ task'.out = task.out
        /\ task'.start.addr = task.start.addr
    BY <1>t, <1>4 DEF TaskType, StartTasks, ErrTasks, OutTasks
  <2>2. Types'
    BY <1>t, <1>1, <1>4, <2>1 DEF Types, ChildType
  <2>3. ModeInv'
    BY <1>1, <1>2, <1>4, <2>1 DEF TunnelInv, ModeInv, Stopped
  <2>4. \A t \in Tasks : Waits(t)'
    BY <1>1, <1>2, <1>3, <2>1 DEF Waits, CommandAt, Tasks
  <2>5. ChildInv'
    BY <1>1, <1>3, <2>1, <2>4 DEF TunnelInv, ChildInv, Tasks
  <2>6. LockInv' /\ RouteInv' /\ DnsLockInv'
    BY <1>1, <2>1, NoneFacts DEF TunnelInv, LockInv, RouteInv, DnsLockInv
  <2>7. OwedInv'
    BY <1>1, <1>4, <2>1 DEF TunnelInv, OwedInv, Early
  <2>8. StageInv' /\ FirstDnsInv' /\ LastDnsInv'
    BY <1>1, <1>2, <1>4, <2>1 DEF TunnelInv, StageInv, FirstDnsInv, LastDnsInv, Before, Early
  <2>9. LateInv'
    BY <1>1, <1>2, <1>4, <2>2, <2>5, LiveLate
  <2> QED BY <2>2, <2>3, <2>5, <2>6, <2>7, <2>8, <2>9 DEF TunnelInv
<1>5. CASE StartFails
  <2>1. child' = [child EXCEPT !["start"] = None]
    BY <1>t, <1>1, <1>3 DEF ChildType, Tasks
  <2> QED BY <1>t, <1>1, <1>2, <1>5, <2>1, FailStep DEF Types
<1> QED BY <1>4, <1>5 DEF ConfigReady

LEMMA SnapshotStep ==
  ASSUME TunnelInv, Snapshot
  PROVE  TunnelInv'
<1>t. Types /\ TaskType /\ ChildType /\ ctl \in Ctls /\ rm \in Rms
  BY DEF TunnelInv, Types
<1>1. Free /\ task.start.at = "delay" /\ child' = child /\ sys' = sys
  BY DEF Snapshot
<1>2. ctl.cts /\ ~ Stopped /\ app.at = "free" /\ \A t \in Tasks : Waits(t)
  BY <1>1, ActiveFacts
<1>3. child["start"] = None
  BY <1>1, <1>2 DEF Waits, CommandAt, Tasks
<1>4. CASE /\ task' = [task EXCEPT !.start = [at |-> "resolve", addr |-> None,
                                    todo |-> Hosts \cup ctl.seen, phase |-> "configure"]]
           /\ ctl' = [ctl EXCEPT !.dns = ctl.latest]
           /\ rm' = [rm EXCEPT !.gateway = TRUE]
           /\ app' = app /\ past' = past
  <2>1. Hosts \cup ctl.seen \subseteq Addresses
    BY <1>t, NoneFacts DEF Ctls
  <2>2. /\ TaskType' /\ task'.start.at = "resolve" /\ task'.err = task.err /\ task'.out = task.out
        /\ task'.start.todo = Hosts \cup ctl.seen
    BY <1>t, <1>4, <2>1 DEF TaskType, StartTasks
  <2>3. /\ ctl' \in Ctls /\ ctl'.cts = ctl.cts /\ ctl'.ready = ctl.ready /\ ctl'.latest = ctl.latest
        /\ ctl'.applied = ctl.applied /\ ctl'.routesReady = ctl.routesReady
        /\ ctl'.seen = ctl.seen /\ ctl'.dns = ctl.latest
    BY <1>t, <1>4 DEF Ctls
  <2>4. /\ rm' \in Rms /\ rm'.gateway /\ rm'.bypass = rm.bypass /\ rm'.lock = rm.lock
        /\ rm'.dnsLock = rm.dnsLock
    BY <1>t, <1>4 DEF Rms
  <2>5. Types'
    BY <1>t, <1>1, <1>4, <2>2, <2>3, <2>4 DEF Types, ChildType
  <2>6. ModeInv'
    BY <1>1, <1>2, <1>4, <2>2, <2>3, <2>4 DEF TunnelInv, ModeInv, Stopped
  <2>7. \A t \in Tasks : Waits(t)'
    BY <1>1, <1>2, <1>3, <2>2 DEF Waits, CommandAt, Tasks
  <2>8. ChildInv'
    BY <1>1, <1>3, <2>2, <2>7 DEF TunnelInv, ChildInv, Tasks
  <2>9. LockInv' /\ RouteInv' /\ DnsLockInv'
    BY <1>1, <1>4, <2>2, <2>4, NoneFacts DEF TunnelInv, LockInv, RouteInv, DnsLockInv
  <2>10. ~ sys.default
    BY <1>1, <1>2 DEF TunnelInv, OwedInv, Early
  <2>11. OwedInv'
    BY <1>1, <2>2, <2>3, <2>4, <2>10 DEF OwedInv, StartOwes, Early
  <2>12. StageInv' /\ FirstDnsInv' /\ LastDnsInv'
    BY <1>1, <1>2, <1>4, <2>2, <2>3, <2>4
       DEF TunnelInv, StageInv, FirstDnsInv, LastDnsInv, Before, Early
  <2>13. LateInv'
    BY <1>1, <1>2, <1>4, <2>3, <2>5, <2>8, LiveLate
  <2> QED BY <2>5, <2>6, <2>8, <2>9, <2>11, <2>12, <2>13 DEF TunnelInv
<1>5. CASE past' = Failed(past) /\ StartFails /\ rm' = rm
  <2>1. child' = [child EXCEPT !["start"] = None]
    BY <1>t, <1>1, <1>3 DEF ChildType, Tasks
  <2>2. past' \in Pasts /\ past'.kept = past.kept
    BY <1>t, <1>5, FailedFacts DEF Types
  <2> QED BY <1>1, <1>2, <1>5, <2>1, <2>2, FailStep
<1> QED BY <1>4, <1>5 DEF Snapshot

\* The commands of ConfigureAsync.
LEMMA CommandDoneStep ==
  ASSUME TunnelInv, CommandDone
  PROVE  TunnelInv'
<1>t. Types /\ TaskType /\ ChildType /\ sys \in Syss /\ ctl \in Ctls /\ past \in Pasts
  BY DEF TunnelInv, Types
<1> DEFINE next == IF task.start.at = "address" THEN "dns" ELSE "default"
           arg == IF next = "dns" THEN ctl.dns ELSE None
<1>1. /\ Free /\ task.start.at \in {"address", "dns"} /\ child["start"].exit = "ok"
      /\ task' = [task EXCEPT !.start.at = next]
      /\ child' = [child EXCEPT !["start"] = Exec(next, arg)]
      /\ sys' = IF next = "dns" THEN [sys EXCEPT !.dns = None] ELSE sys
      /\ app' = app /\ ctl' = ctl /\ rm' = rm /\ past' = past
  BY DEF CommandDone, Returned
<1>2. ctl.cts /\ ~ Stopped /\ app.at = "free" /\ \A t \in Tasks : Waits(t)
  BY <1>1, ActiveFacts
<1>3. ctl.dns \in Dns /\ ~ ctl.routesReady
  BY <1>t, <1>1, <1>2 DEF TunnelInv, StageInv, Pasts, Before, Early
<1>4. /\ next \in {"dns", "default"} /\ arg \in Dns \cup {None}
      /\ next = "dns" => arg = ctl.dns
      /\ next = "default" => task.start.at = "dns"
  BY <1>1, <1>3
<1> HIDE DEF next, arg
<1>5. /\ Exec(next, arg) \in Commands /\ Exec(next, arg) # None
      /\ Exec(next, arg).cmd = next /\ Exec(next, arg).arg = arg /\ Exec(next, arg).exit = None
  BY <1>4, ExecFacts
<1>6. /\ ChildType' /\ child'["start"] = Exec(next, arg) /\ child'["err"] = child["err"]
      /\ child'["out"] = child["out"]
  BY <1>t, <1>1, <1>5 DEF ChildType, Tasks
<1>7. /\ TaskType' /\ task'.start.at = next /\ task'.err = task.err /\ task'.out = task.out
      /\ task'.start.addr = task.start.addr
  BY <1>t, <1>1, <1>4 DEF TaskType, StartTasks, ErrTasks, OutTasks
<1>8. /\ sys' \in Syss /\ sys'.bypass = sys.bypass /\ sys'.default = sys.default
      /\ sys'.adapter = sys.adapter /\ sys'.core = sys.core /\ sys'.stray = sys.stray
      /\ next = "default" => sys'.dns = sys.dns
  BY <1>t, <1>1, <1>4 DEF Syss
<1>9. Types'
  BY <1>t, <1>1, <1>6, <1>7, <1>8 DEF Types
<1>10. ModeInv'
  BY <1>1, <1>2, <1>4, <1>7, <1>8 DEF TunnelInv, ModeInv, Stopped
<1>11. ChildInv'
  <2>1. Waits("start")'
    BY <1>4, <1>5, <1>6, <1>7 DEF Waits, CommandAt
  <2>2. Waits("err")' /\ Waits("out")'
    BY <1>2, <1>6, <1>7 DEF Waits, Tasks
  <2>3. \A t \in Tasks : Waits(t)'
    BY <2>1, <2>2 DEF Tasks
  <2>4. child'["start"].cmd # "bypass" /\ (child'["start"].cmd = "dns" => child'["start"].arg \in Dns)
    BY <1>3, <1>4, <1>5, <1>6
  <2> QED BY <1>4, <1>6, <1>7, <2>3, <2>4 DEF TunnelInv, ChildInv, Tasks
<1>12. LockInv' /\ DnsLockInv'
  BY <1>1, <1>4, <1>7, NoneFacts DEF TunnelInv, LockInv, DnsLockInv
<1>13. RouteInv'
  BY <1>1, <1>4, <1>6, <1>7, <1>8 DEF TunnelInv, RouteInv
<1>14. OwedInv'
  <2>1. StartOwes = {} /\ StartOwes' = {} /\ ErrOwes' = ErrOwes
    BY <1>1, <1>4, <1>7 DEF StartOwes, ErrOwes
  <2> QED BY <1>1, <1>4, <1>7, <1>8, <2>1 DEF TunnelInv, OwedInv, Early
<1>15. StageInv'
  BY <1>1, <1>2, <1>4, <1>7 DEF TunnelInv, StageInv, Before, Early
<1>16. FirstDnsInv'
  <2>1. next = "dns" => child'["start"].arg = ctl.dns /\ child'["start"].exit # "ok"
    BY <1>4, <1>5, <1>6, NoneFacts
  <2>2. next = "default" /\ ~ past.lostDns => sys'.dns = ctl.dns
    BY <1>1, <1>2, <1>4, <1>8 DEF TunnelInv, FirstDnsInv
  <2> QED BY <1>1, <1>4, <1>7, <2>1, <2>2 DEF FirstDnsInv
<1>17. LastDnsInv'
  BY <1>1, <1>3 DEF LastDnsInv
<1>18. LateInv'
  BY <1>1, <1>2, <1>8, <1>9, <1>11, LiveLate
<1> QED BY <1>9, <1>10, <1>11, <1>12, <1>13, <1>14, <1>15, <1>16, <1>17, <1>18 DEF TunnelInv

LEMMA CommandFailedStep ==
  ASSUME TunnelInv, CommandFailed
  PROVE  TunnelInv'
<1>1. /\ Free /\ task.start.at \in {"address", "dns", "default"} /\ StartFails
      /\ child' = [child EXCEPT !["start"] = None]
      /\ rm' = rm /\ sys' = sys /\ past' = past
  BY DEF CommandFailed, Returned
<1>2. ctl.cts
  BY <1>1, ActiveFacts
<1>3. past' \in Pasts
  BY <1>1 DEF TunnelInv, Types
<1> QED BY <1>1, <1>2, <1>3, FailStep

-----------------------------------------------------------------------------
(* Going through the addresses.                                            *)

\* StartAsync is about to go on to the addresses todo with nothing in hand:
\* the controller is c, the history p, RouteManager r.
Between(c, p, r, phase, todo) ==
    /\ c \in Ctls /\ c.cts /\ c.ready /\ c.latest \in p.had /\ c.dns \in p.had
    /\ p \in Pasts /\ p.kept = past.kept
    /\ r \in Rms /\ r.gateway
    /\ phase \in {"configure", "late"} /\ todo \subseteq Addresses
    /\ r.lock \in {None, "err"}
    /\ r.lock = "err" => task.err.at \in {"lock", "exec"}
    /\ task.err.at = "exec" => r.lock = "err"
    /\ r.dnsLock \in {None, "out"}
    /\ r.dnsLock = "out" => task.out.at \in {"dnsLock", "dnsExec"}
    /\ task.out.at = "dnsExec" => r.dnsLock = "out"
    /\ r.bypass \subseteq sys.bypass \cup past.kept
    /\ \A a \in sys.bypass :
          \/ a \in r.bypass \cup past.kept
          \/ task.err.at = "exec" /\ task.err.addr = a /\ child["err"].exit = "ok"
    /\ LET owed == IF phase = "configure" THEN todo ELSE {}
       IN  /\ Hosts \subseteq r.bypass \cup owed
           /\ c.seen \subseteq r.bypass \cup p.refused \cup owed \cup ErrOwes
    /\ phase = "configure" =>
          /\ ~ sys.default /\ ~ c.routesReady /\ r.dnsLock = None /\ task.out.at \in {"off", "read"}
    /\ phase = "late" =>
          /\ c.routesReady /\ c.applied \in p.had
          /\ task.out.at = "dnsExec" =>
                /\ child["out"].arg \in p.had
                /\ child["out"].exit = "ok" /\ ~ p.lostDns => sys.dns = child["out"].arg
          /\ (~ p.lostDns /\ ~ p.repeated) =>
                /\ c.latest = c.applied \/ task.out.at \in {"dnsLock", "dnsExec"}
                /\ task.out.at = "dnsExec" => child["out"].arg = c.latest
                /\ task.out.at # "dnsExec" => sys.dns = c.applied

\* Where StartAsync can be next, and what it then has in hand: the next
\* command, the end, the lock queue, or the lock and route.exe.
Onward(phase, left, r, k) ==
    \/ /\ task.start.at = IF phase = "configure" THEN "address" ELSE "idle"
       /\ left = {} /\ k = r.lock
       /\ IF phase = "configure" THEN child["start"] = Exec("address", None)
                                 ELSE child["start"] = None
    \/ /\ task.start.at = "lock" /\ k = r.lock /\ child["start"] = None
       /\ task.start.phase = phase /\ task.start.addr \in left
       /\ task.start.todo = left \ {task.start.addr}
    \/ /\ task.start.at = "exec" /\ r.lock = None /\ k = "start"
       /\ child["start"] = Exec("bypass", task.start.addr)
       /\ task.start.phase = phase /\ task.start.addr \in left
       /\ task.start.todo = left \ {task.start.addr}

LEMMA WalkStep ==
  ASSUME TunnelInv, Free, ctl.cts, sys' = sys, NEW phase, NEW todo, NEW r,
         Between(ctl', past', r, phase, todo),
         TaskType', ChildType', app' \in Apps, app'.at = "free", app'.closing = app.closing,
         app'.connected <=> task'.start.at = "idle",
         task'.err = task.err, task'.out = task.out,
         child'["err"] = child["err"], child'["out"] = child["out"],
         NEW left, left \subseteq todo, todo \subseteq left \cup r.bypass,
         NEW k \in {None, "start", "err"}, rm' = [r EXCEPT !.lock = k],
         Onward(phase, left, r, k)'
  PROVE  TunnelInv'
<1>t. Types /\ TaskType /\ ChildType /\ sys \in Syss /\ sys.adapter /\ ~ Stopped
  BY DEF TunnelInv, Types, ModeInv, Stopped
<1>1. /\ ctl' \in Ctls /\ ctl'.cts /\ ctl'.ready /\ ctl'.latest \in past'.had
      /\ ctl'.dns \in past'.had /\ past' \in Pasts /\ past'.kept = past.kept
      /\ r \in Rms /\ r.gateway /\ phase \in {"configure", "late"} /\ todo \subseteq Addresses
  BY DEF Between
<1>2. /\ rm' \in Rms /\ rm'.gateway /\ rm'.bypass = r.bypass /\ rm'.lock = k
      /\ rm'.dnsLock = r.dnsLock
  BY <1>1 DEF Rms
<1>3. task'.start.at \in {"address", "idle", "lock", "exec"}
      /\ (task'.start.at = "address" => phase = "configure")
      /\ (task'.start.at = "idle" => phase = "late")
  BY <1>1 DEF Onward
<1>4. Types'
  BY <1>t, <1>1, <1>2 DEF Types, Syss
<1>5. ModeInv'
  BY <1>t, <1>1, <1>3 DEF ModeInv, Stopped
<1>6. /\ task'.start.at \in {"lock", "exec"} => task'.start.addr \in Addresses
      /\ task'.start.at = "exec" =>
            /\ child'["start"] # None /\ child'["start"].cmd = "bypass"
            /\ child'["start"].arg = task'.start.addr /\ child'["start"].exit = None
      /\ task'.start.at = "address" =>
            child'["start"] # None /\ child'["start"].cmd = "address"
      /\ task'.start.at \in {"lock", "idle"} => child'["start"] = None
  <2>1. task'.start.at \in {"lock", "exec"} => task'.start.addr \in Addresses
    BY <1>1 DEF Onward
  <2>2. task'.start.at = "exec" =>
            /\ child'["start"] # None /\ child'["start"].cmd = "bypass"
            /\ child'["start"].arg = task'.start.addr /\ child'["start"].exit = None
    BY <1>1, <2>1, ExecFacts DEF Onward
  <2>3. task'.start.at = "address" => child'["start"] # None /\ child'["start"].cmd = "address"
    BY <1>3, ExecFacts DEF Onward
  <2> QED BY <1>1, <2>1, <2>2, <2>3 DEF Onward
<1>7. ChildInv'
  <2>1. Waits("start")'
    BY <1>3, <1>6 DEF Waits, CommandAt
  <2>2. Waits("err") /\ Waits("out")
    BY <1>t DEF TunnelInv, ChildInv, Tasks
  <2>3. Waits("err")' /\ Waits("out")'
    BY <2>2 DEF Waits
  <2>4. \A t \in Tasks : Waits(t)'
    BY <2>1, <2>3 DEF Tasks
  <2>5. ChildInv
    BY DEF TunnelInv
  <2>6. \A t \in Tasks : child'[t] # None /\ child'[t].cmd = "bypass" => task'[t].at = "exec"
    BY <1>3, <1>6, <2>5 DEF ChildInv, Tasks
  <2>7. \A t \in Tasks : child'[t] # None /\ child'[t].cmd = "dns" => child'[t].arg \in Dns
    BY <1>3, <1>6, <2>5 DEF ChildInv, Tasks
  <2>8. \A t \in {"start", "err"} :
          task'[t].at = "exec" => child'[t].arg = task'[t].addr /\ task'[t].addr \in Addresses
    BY <1>6, <2>5 DEF ChildInv
  <2> QED BY <2>4, <2>6, <2>7, <2>8 DEF ChildInv
<1>8. LockInv'
  <2>1. /\ r.lock \in {None, "err"} /\ (r.lock = "err" => task.err.at \in {"lock", "exec"})
        /\ (task.err.at = "exec" => r.lock = "err")
    BY DEF Between
  <2>2. task.err.at \in {"lock", "exec"} => task.err.addr \in Addresses
    BY DEF TunnelInv, LockInv
  <2> QED BY <1>2, <1>3, <1>6, <2>1, <2>2, NoneFacts DEF LockInv, Onward
<1>9. DnsLockInv'
  BY <1>2, <1>3, NoneFacts DEF DnsLockInv, Between
<1>10. RouteInv'
  <2>1. /\ r.bypass \subseteq sys.bypass \cup past.kept
        /\ \A a \in sys.bypass :
              \/ a \in r.bypass \cup past.kept
              \/ task.err.at = "exec" /\ task.err.addr = a /\ child["err"].exit = "ok"
    BY DEF Between
  <2>2. ~ (task'.start.at = "exec" /\ child'["start"].exit = "ok")
    BY <1>6, NoneFacts
  <2>3. task.err.at = "exec" /\ child["err"].exit = "ok" => task.err.addr \in sys.bypass \cup past.kept
    BY DEF TunnelInv, RouteInv
  <2> QED BY <1>1, <1>2, <2>1, <2>2, <2>3 DEF RouteInv
<1>11. OwedInv'
  <2> DEFINE owed == IF phase = "configure" THEN todo ELSE {}
  <2>1. /\ Hosts \subseteq r.bypass \cup owed
        /\ ctl'.seen \subseteq r.bypass \cup past'.refused \cup owed \cup ErrOwes
        /\ phase = "configure" => ~ sys.default
    BY DEF Between
  <2>2. ErrOwes' = ErrOwes
    BY DEF ErrOwes
  <2>3. StartOwes' = IF phase = "configure" THEN left ELSE {}
    <3>1. CASE task'.start.at \in {"address", "idle"}
      BY <1>3, <3>1 DEF StartOwes, Onward
    <3>2. CASE task'.start.at \in {"lock", "exec"}
      <4>1. task'.start.phase = phase /\ task'.start.addr \in left
            /\ task'.start.todo = left \ {task'.start.addr}
        BY <1>1, <3>2 DEF Onward
      <4> QED BY <3>2, <4>1 DEF StartOwes
    <3> QED BY <1>3, <3>1, <3>2
  <2>4. task'.start.at \notin Early \cup {"resolve"}
    BY <1>3 DEF Early
  <2>5. Hosts \subseteq r.bypass \cup StartOwes'
    BY <2>1, <2>3
  <2>6. ctl'.seen \subseteq r.bypass \cup past'.refused \cup StartOwes' \cup ErrOwes'
    BY <2>1, <2>2, <2>3
  <2>7. sys.default => StartOwes' = {}
    BY <1>1, <2>1, <2>3
  <2> QED BY <1>2, <2>4, <2>5, <2>6, <2>7 DEF OwedInv
<1>12. task'.start.at \in {"lock", "exec"} => task'.start.phase = phase
  BY <1>1 DEF Onward
<1>13. StageInv'
  <2>1. phase = "late" => ctl'.routesReady /\ ctl'.applied \in past'.had
    BY DEF Between
  <2>2. phase = "configure" =>
          /\ ~ ctl'.routesReady /\ r.dnsLock = None /\ task.out.at \in {"off", "read"}
    BY DEF Between
  <2>3. (task'.start.at \in Before
           \/ (task'.start.at \in {"lock", "exec"} /\ task'.start.phase = "configure"))
        <=> phase = "configure"
    BY <1>1, <1>3, <1>12 DEF Before, Early
  <2> QED BY <1>1, <1>2, <1>3, <2>1, <2>2, <2>3 DEF StageInv
<1>14. FirstDnsInv'
  BY <1>3 DEF FirstDnsInv
<1>15. LastDnsInv'
  <2> SUFFICES ASSUME ctl'.routesReady PROVE LastDnsInv'
    BY DEF LastDnsInv
  <2>1. phase = "late"
    BY DEF Between
  <2> QED BY <1>3, <2>1 DEF LastDnsInv, Between
<1>16. LateInv'
  BY <1>1, <1>4, <1>7, LiveLate
<1> QED BY <1>4, <1>5, <1>7, <1>8, <1>9, <1>10, <1>11, <1>13, <1>14, <1>15, <1>16 DEF TunnelInv

LEMMA EachBypassStep ==
  ASSUME TunnelInv, Free, ctl.cts, task.start.at # "idle", sys' = sys,
         NEW phase, NEW todo, NEW r,
         Between(ctl', past', r, phase, todo), EachBypass(phase, todo, r)
  PROVE  TunnelInv'
<1>t. Types /\ TaskType /\ ChildType /\ app \in Apps /\ app.at = "free"
  BY DEF TunnelInv, Types, Free
<1>1. /\ r \in Rms /\ r.gateway /\ phase \in {"configure", "late"} /\ todo \subseteq Addresses
      /\ r.lock \in {None, "err"}
  BY DEF Between
<1>2. app.connected <=> task.start.at = "idle"
  BY DEF TunnelInv, ModeInv
<1> DEFINE left == IF r.lock = None THEN {a \in todo : Worthwhile(r, a)} ELSE todo
<1>3. left \subseteq todo /\ todo \subseteq left \cup r.bypass
  BY <1>1 DEF Worthwhile
<1>4. [r EXCEPT !.lock = r.lock] = r
  BY <1>1 DEF Rms
<1>5. \/ /\ left = {} /\ phase = "configure"
         /\ task' = [task EXCEPT !.start.at = "address"]
         /\ child' = [child EXCEPT !["start"] = Exec("address", None)]
         /\ rm' = r /\ app' = app
      \/ left = {} /\ phase = "late" /\ Up(r)
      \/ \E a \in left :
           /\ task' = [task EXCEPT !.start =
                [at |-> IF r.lock = None THEN "exec" ELSE "lock",
                 addr |-> a, todo |-> left \ {a}, phase |-> phase]]
           /\ child' = [child EXCEPT !["start"] =
                IF r.lock = None THEN Exec("bypass", a) ELSE None]
           /\ rm' = IF r.lock = None THEN [r EXCEPT !.lock = "start"] ELSE r
           /\ app' = app
  BY DEF EachBypass
<1> HIDE DEF left
<1>6. CASE /\ left = {} /\ phase = "configure"
           /\ task' = [task EXCEPT !.start.at = "address"]
           /\ child' = [child EXCEPT !["start"] = Exec("address", None)]
           /\ rm' = r /\ app' = app
  <2>1. TaskType' /\ task'.start.at = "address" /\ task'.err = task.err /\ task'.out = task.out
    BY <1>t, <1>6 DEF TaskType, StartTasks
  <2>2. Exec("address", None) \in Commands
    BY ExecFacts
  <2>3. /\ ChildType' /\ child'["start"] = Exec("address", None) /\ child'["err"] = child["err"]
        /\ child'["out"] = child["out"]
    BY <1>t, <1>6, <2>2 DEF ChildType, Tasks
  <2>5. app'.connected <=> task'.start.at = "idle"
    BY <1>2, <1>6, <2>1
  <2>6. r.lock \in {None, "start", "err"}
    BY <1>1
  <2>7. Onward(phase, left, r, r.lock)'
    BY <1>6, <2>1, <2>3 DEF Onward
  <2>8. /\ rm' = [r EXCEPT !.lock = r.lock] /\ app' \in Apps /\ app'.at = "free"
        /\ app'.closing = app.closing
    BY <1>t, <1>4, <1>6
  <2> QED BY <1>3, <2>1, <2>3, <2>5, <2>6, <2>7, <2>8, WalkStep
<1>7. CASE left = {} /\ phase = "late" /\ Up(r)
  <2>1. /\ task' = [task EXCEPT !.start.at = "idle"] /\ app' = [app EXCEPT !.connected = TRUE]
        /\ child' = [child EXCEPT !["start"] = None] /\ rm' = r
    BY <1>7 DEF Up
  <2>2. TaskType' /\ task'.start.at = "idle" /\ task'.err = task.err /\ task'.out = task.out
    BY <1>t, <2>1 DEF TaskType, StartTasks
  <2>3. /\ ChildType' /\ child'["start"] = None /\ child'["err"] = child["err"]
        /\ child'["out"] = child["out"]
    BY <1>t, <2>1 DEF ChildType, Tasks
  <2>4. app' \in Apps /\ app'.at = "free" /\ app'.connected /\ app'.closing = app.closing
    BY <1>t, <2>1 DEF Apps
  <2>5. r.lock \in {None, "start", "err"}
    BY <1>1
  <2>6. Onward(phase, left, r, r.lock)'
    BY <1>7, <2>2, <2>3 DEF Onward
  <2>7. rm' = [r EXCEPT !.lock = r.lock] /\ (app'.connected <=> task'.start.at = "idle")
    BY <1>4, <2>1, <2>2, <2>4
  <2> QED BY <1>3, <2>2, <2>3, <2>4, <2>5, <2>6, <2>7, WalkStep
<1>8. ASSUME NEW a \in left,
             task' = [task EXCEPT !.start =
                [at |-> IF r.lock = None THEN "exec" ELSE "lock",
                 addr |-> a, todo |-> left \ {a}, phase |-> phase]],
             child' = [child EXCEPT !["start"] =
                IF r.lock = None THEN Exec("bypass", a) ELSE None],
             rm' = IF r.lock = None THEN [r EXCEPT !.lock = "start"] ELSE r,
             app' = app
      PROVE  TunnelInv'
  <2>1. a \in Addresses /\ left \ {a} \subseteq Addresses
    BY <1>1, <1>3, <1>8
  <2>2. /\ TaskType' /\ task'.start.at = (IF r.lock = None THEN "exec" ELSE "lock")
        /\ task'.start.addr = a /\ task'.start.todo = left \ {a} /\ task'.start.phase = phase
        /\ task'.err = task.err /\ task'.out = task.out
    BY <1>t, <1>1, <1>8, <2>1 DEF TaskType, StartTasks
  <2>3. Exec("bypass", a) \in Commands
    BY <2>1, ExecFacts
  <2>4. /\ ChildType' /\ child'["start"] = (IF r.lock = None THEN Exec("bypass", a) ELSE None)
        /\ child'["err"] = child["err"] /\ child'["out"] = child["out"]
    BY <1>t, <1>8, <2>3 DEF ChildType, Tasks
  <2>5. ~ app.connected
    BY <1>2
  <2>6. app'.connected <=> task'.start.at = "idle"
    BY <1>8, <2>2, <2>5
  <2>7. app' \in Apps /\ app'.at = "free" /\ app'.closing = app.closing
    BY <1>t, <1>8
  <2>8. CASE r.lock = None
    <3>1. /\ rm' = [r EXCEPT !.lock = "start"] /\ task'.start.at = "exec"
          /\ child'["start"] = Exec("bypass", task'.start.addr)
          /\ task'.start.addr \in left /\ task'.start.todo = left \ {task'.start.addr}
      BY <1>8, <2>2, <2>4, <2>8
    <3>2. Onward(phase, left, r, "start")'
      BY <2>2, <2>8, <3>1 DEF Onward
    <3> QED BY <1>3, <2>2, <2>4, <2>6, <2>7, <3>1, <3>2, WalkStep
  <2>9. CASE r.lock # None
    <3>1. /\ rm' = [r EXCEPT !.lock = r.lock] /\ task'.start.at = "lock"
          /\ child'["start"] = None
          /\ task'.start.addr \in left /\ task'.start.todo = left \ {task'.start.addr}
      BY <1>4, <1>8, <2>2, <2>4, <2>9
    <3>2. r.lock \in {None, "start", "err"} /\ rm' = [r EXCEPT !.lock = r.lock]
      BY <1>1, <3>1
    <3>3. Onward(phase, left, r, r.lock)'
      BY <2>2, <3>1 DEF Onward
    <3>4. /\ TaskType' /\ task'.err = task.err /\ task'.out = task.out
          /\ ChildType' /\ child'["err"] = child["err"] /\ child'["out"] = child["out"]
      BY <2>2, <2>4
    <3> QED BY <1>3, <2>6, <2>7, <3>2, <3>3, <3>4, WalkStep
  <2> QED BY <2>8, <2>9
<1> QED BY <1>5, <1>6, <1>7, <1>8

LEMMA ResolvedStep ==
  ASSUME TunnelInv, Resolved
  PROVE  TunnelInv'
<1>t. Types /\ TaskType /\ ChildType /\ ctl \in Ctls /\ rm \in Rms /\ past \in Pasts
  BY DEF TunnelInv, Types
<1>1. Free /\ task.start.at = "resolve" /\ sys' = sys
  BY DEF Resolved
<1>2. ctl.cts /\ ~ Stopped /\ app.at = "free" /\ \A t \in Tasks : Waits(t)
  BY <1>1, ActiveFacts
<1>3. CASE EachBypass("configure", task.start.todo, rm) /\ ctl' = ctl /\ past' = past
  <2>1. /\ ~ ctl.routesReady /\ ctl.ready /\ ctl.latest \in past.had /\ ctl.dns \in past.had
        /\ rm.dnsLock = None /\ task.out.at \in {"off", "read"}
    BY <1>1, <1>2 DEF TunnelInv, StageInv, Before
  <2>2. /\ rm.gateway /\ Hosts \subseteq rm.bypass \cup task.start.todo /\ ~ sys.default
        /\ ctl.seen \subseteq rm.bypass \cup past.refused \cup task.start.todo \cup ErrOwes
    BY <1>1, <1>2 DEF TunnelInv, OwedInv, StartOwes, Early
  <2>3. /\ rm.lock \in {None, "err"} /\ (rm.lock = "err" => task.err.at \in {"lock", "exec"})
        /\ (task.err.at = "exec" => rm.lock = "err")
    BY <1>t, <1>1 DEF TunnelInv, LockInv, Rms
  <2>4. /\ rm.bypass \subseteq sys.bypass \cup past.kept
        /\ \A a \in sys.bypass :
              \/ a \in rm.bypass \cup past.kept
              \/ task.err.at = "exec" /\ task.err.addr = a /\ child["err"].exit = "ok"
    BY <1>1 DEF TunnelInv, RouteInv
  <2>5. task.start.todo \subseteq Addresses
    BY <1>t DEF TaskType, StartTasks
  <2>6. Between(ctl', past', rm, "configure", task.start.todo)
    BY <1>t, <1>2, <1>3, <2>1, <2>2, <2>3, <2>4, <2>5, NoneFacts DEF Between
  <2>7. task.start.at # "idle"
    BY <1>1
  <2> QED BY <1>1, <1>2, <1>3, <2>6, <2>7, EachBypassStep
<1>4. CASE past' = Failed(past) /\ StartFails /\ rm' = rm /\ child' = child
  <2>1. child["start"] = None
    BY <1>1, <1>2 DEF Waits, CommandAt, Tasks
  <2>2. child' = [child EXCEPT !["start"] = None]
    BY <1>t, <1>4, <2>1 DEF ChildType, Tasks
  <2>3. past' \in Pasts /\ past'.kept = past.kept
    BY <1>t, <1>4, FailedFacts
  <2> QED BY <1>1, <1>2, <1>4, <2>2, <2>3, FailStep
<1> QED BY <1>3, <1>4 DEF Resolved

\* A task that waits for the lock gets it and finds that the route is needed.
LEMMA GrantStep ==
  ASSUME TunnelInv, NEW t \in {"start", "err"}, Free, task[t].at = "lock", rm.lock = t,
         task' = [task EXCEPT ![t].at = "exec"],
         child' = [child EXCEPT ![t] = Exec("bypass", task[t].addr)],
         UNCHANGED <<app, rm, ctl, sys, past>>
  PROVE  TunnelInv'
<1>t. Types /\ TaskType /\ ChildType
  BY DEF TunnelInv, Types
<1>1. ctl.cts /\ ~ Stopped /\ app.at = "free" /\ \A u \in Tasks : Waits(u)
  BY ActiveFacts
<1>2. task[t].addr \in Addresses
  BY DEF TunnelInv, LockInv
<1> DEFINE e == Exec("bypass", task[t].addr)
<1>3. /\ e \in Commands /\ e # None /\ e.cmd = "bypass" /\ e.arg = task[t].addr /\ e.exit = None
  BY <1>2, ExecFacts
<1> HIDE DEF e
<1>4. ChildType' /\ child'[t] = e /\ \A u \in Tasks : u # t => child'[u] = child[u]
  BY <1>t, <1>3 DEF ChildType, Tasks, e
<1>5. /\ TaskType' /\ task'[t].at = "exec" /\ task'[t].addr = task[t].addr
      /\ \A u \in Tasks : u # t => task'[u] = task[u]
      /\ task'.start.phase = task.start.phase /\ task'.start.todo = task.start.todo
      /\ task'.start.addr = task.start.addr /\ task'.err.addr = task.err.addr /\ task'.out = task.out
      /\ task'.start.at = (IF t = "start" THEN "exec" ELSE task.start.at)
      /\ task'.err.at = (IF t = "err" THEN "exec" ELSE task.err.at)
  <2>1. CASE t = "start"
    BY <1>t, <2>1 DEF TaskType, StartTasks, Tasks
  <2>2. CASE t = "err"
    BY <1>t, <2>2 DEF TaskType, ErrTasks, Tasks
  <2> QED BY <2>1, <2>2
<1>6. Types'
  BY <1>t, <1>4, <1>5 DEF Types
<1>7. ModeInv'
  BY <1>1, <1>5 DEF TunnelInv, ModeInv, Stopped
<1>8. ChildInv'
  <2>1. Waits(t)'
    BY <1>3, <1>4, <1>5 DEF Waits, CommandAt
  <2>2. \A u \in Tasks : Waits(u)'
    BY <1>1, <1>4, <1>5, <2>1 DEF Waits
  <2>3. ChildInv
    BY DEF TunnelInv
  <2>4. \A u \in Tasks : child'[u] # None /\ child'[u].cmd = "bypass" => task'[u].at = "exec"
    BY <1>3, <1>4, <1>5, <2>3 DEF ChildInv
  <2>5. \A u \in Tasks : child'[u] # None /\ child'[u].cmd = "dns" => child'[u].arg \in Dns
    BY <1>3, <1>4, <2>3 DEF ChildInv
  <2>6. \A u \in {"start", "err"} :
          task'[u].at = "exec" => child'[u].arg = task'[u].addr /\ task'[u].addr \in Addresses
    BY <1>2, <1>3, <1>4, <1>5, <2>3 DEF ChildInv, Tasks
  <2> QED BY <2>2, <2>4, <2>5, <2>6 DEF ChildInv
<1>9. LockInv' /\ DnsLockInv'
  BY <1>2, <1>5, NoneFacts DEF TunnelInv, LockInv, DnsLockInv, Tasks
<1>10. RouteInv'
  <2>1. \A u \in {"start", "err"} : task[u].at # "exec"
    BY NoneFacts DEF TunnelInv, LockInv
  <2>2. child'[t].exit # "ok"
    BY <1>3, <1>4, NoneFacts
  <2>3. \A u \in {"start", "err"} : ~ (task'[u].at = "exec" /\ child'[u].exit = "ok")
    BY <1>5, <2>1, <2>2 DEF Tasks
  <2> QED BY <2>1, <2>3 DEF TunnelInv, RouteInv
<1>11. OwedInv'
  <2>1. StartOwes' = StartOwes /\ ErrOwes' = ErrOwes
    BY <1>5 DEF StartOwes, ErrOwes
  <2> QED BY <1>5, <2>1 DEF TunnelInv, OwedInv, Early
<1>12. StageInv'
  BY <1>1, <1>5 DEF TunnelInv, StageInv, Before, Early
<1>13. FirstDnsInv'
  BY <1>4, <1>5 DEF TunnelInv, FirstDnsInv, Tasks
<1>14. LastDnsInv'
  BY <1>4, <1>5 DEF TunnelInv, LastDnsInv, Tasks
<1>15. LateInv'
  BY <1>1, <1>6, <1>8, LiveLate
<1> QED BY <1>6, <1>7, <1>8, <1>9, <1>10, <1>11, <1>12, <1>13, <1>14, <1>15 DEF TunnelInv

\* AddBypassAsync gives the lock back and StartAsync goes on.
LEMMA StartReturns ==
  ASSUME TunnelInv, Free, task.start.at \in {"lock", "exec"}, rm.lock = "start",
         ctl' = ctl, sys' = sys, past' \in Pasts, past'.had = past.had,
         past'.repeated = past.repeated, past'.lostDns = past.lostDns, past'.kept = past.kept,
         past.refused \subseteq past'.refused,
         NEW b \in SUBSET Addresses, rm.bypass \subseteq b,
         b \subseteq sys.bypass \cup past.kept, sys.bypass \subseteq b \cup past.kept,
         task.start.phase = "configure" => task.start.addr \in b,
         EachBypass(task.start.phase, task.start.todo, [Released("start") EXCEPT !.bypass = b])
  PROVE  TunnelInv'
<1>t. Types /\ TaskType /\ ctl \in Ctls /\ rm \in Rms /\ sys \in Syss
  BY DEF TunnelInv, Types
<1>1. ctl.cts /\ task.start.at # "idle"
  BY ActiveFacts
<1>2. task.start.phase \in {"configure", "late"} /\ task.start.todo \subseteq Addresses
  BY <1>t DEF TaskType, StartTasks
<1>3. PICK k \in {None, "err"} :
        /\ [Released("start") EXCEPT !.bypass = b] = [rm EXCEPT !.lock = k, !.bypass = b]
        /\ k = (IF task.err.at = "lock" THEN "err" ELSE None)
  <2>1. Released("start") = [rm EXCEPT !.lock = IF task.err.at = "lock" THEN "err" ELSE None]
    BY <1>t, HeirFacts DEF Released
  <2> QED BY <1>t, <2>1 DEF Rms
<1>4. PICK r \in Rms :
        /\ r = [Released("start") EXCEPT !.bypass = b]
        /\ r.gateway = rm.gateway /\ r.bypass = b /\ r.lock = k /\ r.dnsLock = rm.dnsLock
  <2> DEFINE q == [rm EXCEPT !.lock = k, !.bypass = b]
  <2>1. q \in Rms
    BY <1>t DEF Rms, Syss
  <2>2. q.gateway = rm.gateway /\ q.bypass = b /\ q.lock = k /\ q.dnsLock = rm.dnsLock
    BY <1>t DEF Rms
  <2>3. q = [Released("start") EXCEPT !.bypass = b]
    BY <1>3
  <2> HIDE DEF q
  <2> QED BY <2>1, <2>2, <2>3
<1>5. rm.gateway /\ task.err.at # "exec"
  BY NoneFacts DEF TunnelInv, LockInv
<1>6. /\ ctl.ready /\ ctl.latest \in past.had /\ ctl.dns \in past.had
      /\ (task.start.phase = "late" <=> ctl.routesReady)
      /\ (ctl.routesReady => ctl.applied \in past.had)
      /\ (~ ctl.routesReady => rm.dnsLock = None /\ task.out.at \in {"off", "read"})
  BY <1>1, <1>2 DEF TunnelInv, StageInv, Before, Early
<1>7. /\ rm.dnsLock \in {None, "out"} /\ (rm.dnsLock = "out" => task.out.at \in {"dnsLock", "dnsExec"})
      /\ (task.out.at = "dnsExec" => rm.dnsLock = "out")
  BY <1>t DEF TunnelInv, DnsLockInv, Rms
<1> DEFINE owed == IF task.start.phase = "configure" THEN task.start.todo ELSE {}
<1>8. /\ Hosts \subseteq b \cup owed
      /\ ctl.seen \subseteq b \cup past'.refused \cup owed \cup ErrOwes
      /\ task.start.phase = "configure" => ~ sys.default
  <2>1. StartOwes \subseteq owed \cup b
    BY DEF StartOwes
  <2>2. task.start.phase = "configure" => StartOwes # {}
    BY DEF StartOwes
  <2> QED BY <1>1, <1>5, <2>1, <2>2 DEF TunnelInv, OwedInv
<1>9. ctl.routesReady =>
        /\ task.out.at = "dnsExec" =>
              /\ child["out"].arg \in past.had
              /\ child["out"].exit = "ok" /\ ~ past.lostDns => sys.dns = child["out"].arg
        /\ (~ past.lostDns /\ ~ past.repeated) =>
              /\ ctl.latest = ctl.applied \/ task.out.at \in {"dnsLock", "dnsExec"}
              /\ task.out.at = "dnsExec" => child["out"].arg = ctl.latest
              /\ task.out.at # "dnsExec" => sys.dns = ctl.applied
  BY <1>1 DEF TunnelInv, LastDnsInv
<1>10. Between(ctl', past', r, task.start.phase, task.start.todo)
  <2>1. /\ r.lock = "err" => task.err.at \in {"lock", "exec"}
        /\ \A a \in sys.bypass : a \in r.bypass \cup past.kept
        /\ r.bypass \subseteq sys.bypass \cup past.kept
    BY <1>3, <1>4, NoneFacts
  <2>2. task.start.phase = "configure" =>
          /\ ~ sys.default /\ ~ ctl.routesReady /\ r.dnsLock = None /\ task.out.at \in {"off", "read"}
    BY <1>4, <1>6, <1>8
  <2>3. task.start.phase = "late" => ctl.routesReady /\ ctl.applied \in past.had
    BY <1>6
  <2> QED BY <1>t, <1>1, <1>2, <1>4, <1>5, <1>6, <1>7, <1>8, <1>9, <2>1, <2>2, <2>3 DEF Between
<1> QED BY <1>1, <1>4, <1>10, EachBypassStep

\* ... or the stderr reader goes on reading.
LEMMA ErrReturns ==
  ASSUME TunnelInv, Free, task.err.at \in {"lock", "exec"}, rm.lock = "err",
         app' = app, ctl' = ctl, sys' = sys, past' \in Pasts, past'.had = past.had,
         past'.repeated = past.repeated, past'.lostDns = past.lostDns, past'.kept = past.kept,
         past.refused \subseteq past'.refused,
         NEW b \in SUBSET Addresses, rm.bypass \subseteq b,
         b \subseteq sys.bypass \cup past.kept, sys.bypass \subseteq b \cup past.kept,
         task.err.addr \in b \cup past'.refused,
         task' = [task EXCEPT !.err = [at |-> "read", addr |-> None]],
         child' = [child EXCEPT !["err"] = None],
         rm' = [Released("err") EXCEPT !.bypass = b]
  PROVE  TunnelInv'
<1>t. Types /\ TaskType /\ ChildType /\ rm \in Rms /\ sys \in Syss
  BY DEF TunnelInv, Types
<1>1. ctl.cts /\ ~ Stopped /\ app.at = "free" /\ \A u \in Tasks : Waits(u)
  BY ActiveFacts
<1>2. PICK k \in {None, "start"} :
        rm' = [rm EXCEPT !.lock = k, !.bypass = b] /\ k = (IF task.start.at = "lock" THEN "start" ELSE None)
  <2>1. Released("err") = [rm EXCEPT !.lock = IF task.start.at = "lock" THEN "start" ELSE None]
    BY <1>t, HeirFacts DEF Released
  <2> QED BY <1>t, <2>1 DEF Rms
<1>3. /\ rm' \in Rms /\ rm'.gateway = rm.gateway /\ rm'.bypass = b /\ rm'.lock = k
      /\ rm'.dnsLock = rm.dnsLock
  BY <1>t, <1>2 DEF Rms, Syss
<1>4. rm.gateway /\ task.start.at # "exec"
  BY NoneFacts DEF TunnelInv, LockInv
<1>5. TaskType' /\ task'.start = task.start /\ task'.out = task.out /\ task'.err.at = "read"
  BY <1>t DEF TaskType, ErrTasks
<1>6. /\ ChildType' /\ child'["err"] = None /\ child'["start"] = child["start"]
      /\ child'["out"] = child["out"]
  BY <1>t DEF ChildType, Tasks
<1>7. Types'
  BY <1>t, <1>3, <1>5, <1>6 DEF Types
<1>8. ModeInv'
  BY <1>1, <1>5 DEF TunnelInv, ModeInv, Stopped
<1>9. ChildInv'
  <2>1. Waits("err")'
    BY <1>5, <1>6 DEF Waits, CommandAt
  <2>2. Waits("start")' /\ Waits("out")'
    BY <1>1, <1>5, <1>6 DEF Waits, Tasks
  <2>3. \A u \in Tasks : Waits(u)'
    BY <2>1, <2>2 DEF Tasks
  <2> QED BY <1>5, <1>6, <2>3 DEF TunnelInv, ChildInv, Tasks
<1>10. LockInv'
  <2>1. task.start.at \in {"lock", "exec"} => task.start.addr \in Addresses
    BY DEF TunnelInv, LockInv
  <2>2. rm'.gateway
    BY <1>3, <1>4
  <2>3. rm'.lock # "err" /\ (rm'.lock = "start" => task.start.at = "lock")
    BY <1>2, <1>3, NoneFacts
  <2> QED BY <1>4, <1>5, <2>1, <2>2, <2>3 DEF LockInv
<1>11. DnsLockInv'
  BY <1>3, <1>5 DEF TunnelInv, DnsLockInv
<1>12. RouteInv'
  BY <1>3, <1>4, <1>5 DEF RouteInv
<1>13. OwedInv'
  <2>1. StartOwes' = StartOwes /\ ErrOwes' = {} /\ ErrOwes = {task.err.addr}
    BY <1>5 DEF StartOwes, ErrOwes
  <2> QED BY <1>1, <1>3, <1>5, <2>1 DEF TunnelInv, OwedInv
<1>14. StageInv'
  BY <1>3, <1>5 DEF TunnelInv, StageInv
<1>15. FirstDnsInv' /\ LastDnsInv'
  BY <1>5, <1>6 DEF TunnelInv, FirstDnsInv, LastDnsInv
<1>16. LateInv'
  BY <1>1, <1>7, <1>9, LiveLate
<1> QED BY <1>7, <1>8, <1>9, <1>10, <1>11, <1>12, <1>13, <1>14, <1>15, <1>16 DEF TunnelInv

\* Under the lock the record and the routes differ at most by the route that
\* its holder has just added, and by what an earlier stop could not delete.
LEMMA HeldFacts ==
  ASSUME TunnelInv, NEW t \in {"start", "err"}, rm.lock = t, NEW a
  PROVE  /\ rm.bypass \in SUBSET Addresses /\ rm.bypass \subseteq sys.bypass \cup past.kept
         /\ ~ (task[t].at = "exec" /\ child[t].exit = "ok") =>
               sys.bypass \subseteq rm.bypass \cup past.kept
         /\ task[t].at = "exec" /\ child[t].exit = "ok" =>
               /\ sys.bypass \subseteq rm.bypass \cup {task[t].addr} \cup past.kept
               /\ task[t].addr \in sys.bypass \cup past.kept
         /\ Released(t) = [Released(t) EXCEPT !.bypass = rm.bypass]
         /\ [Released(t) EXCEPT !.bypass = @ \cup {a}]
               = [Released(t) EXCEPT !.bypass = rm.bypass \cup {a}]
<1>1. rm \in Rms
  BY DEF TunnelInv, Types
<1>2. \A u \in {"start", "err"} : u # t => task[u].at # "exec"
  BY DEF TunnelInv, LockInv
<1>3. RouteInv
  BY DEF TunnelInv
<1>4. /\ rm.bypass \in SUBSET Addresses /\ rm.bypass \subseteq sys.bypass \cup past.kept
      /\ ~ (task[t].at = "exec" /\ child[t].exit = "ok") =>
            sys.bypass \subseteq rm.bypass \cup past.kept
  BY <1>1, <1>2, <1>3 DEF RouteInv, Rms
<1>5. task[t].at = "exec" /\ child[t].exit = "ok" =>
            /\ sys.bypass \subseteq rm.bypass \cup {task[t].addr} \cup past.kept
            /\ task[t].addr \in sys.bypass \cup past.kept
  BY <1>2, <1>3 DEF RouteInv
<1>6. PICK h : Released(t) = [rm EXCEPT !.lock = h]
  BY DEF Released
<1>7. Released(t) = [gateway |-> rm.gateway, bypass |-> rm.bypass, lock |-> h, dnsLock |-> rm.dnsLock]
  BY <1>1, <1>6 DEF Rms
<1>8. /\ Released(t) = [Released(t) EXCEPT !.bypass = rm.bypass]
      /\ [Released(t) EXCEPT !.bypass = @ \cup {a}]
               = [Released(t) EXCEPT !.bypass = rm.bypass \cup {a}]
  BY <1>7
<1> QED BY <1>4, <1>5, <1>8

LEMMA BypassStep ==
  ASSUME TunnelInv, NEW t \in {"start", "err"},
         BypassGranted(t) \/ BypassAdded(t) \/ BypassFailed(t)
  PROVE  TunnelInv'
<1>t. Types /\ TaskType /\ ChildType /\ past \in Pasts /\ rm \in Rms
  BY DEF TunnelInv, Types
<1>1. Free /\ task[t].at \in {"lock", "exec"} /\ sys' = sys
  BY DEF BypassGranted, BypassAdded, BypassFailed, Returned
<1>2. rm.lock = t
  BY DEF TunnelInv, LockInv, BypassGranted, BypassAdded, BypassFailed
<1>3. /\ rm.gateway /\ task[t].addr \in Addresses
      /\ ctl.cts
  <2>1. rm.gateway /\ task[t].addr \in Addresses
    BY <1>1, <1>2, NoneFacts DEF TunnelInv, LockInv
  <2>2. ctl.cts
    BY <1>1, ActiveFacts
  <2> QED BY <2>1, <2>2
<1>4. ASSUME NEW b \in SUBSET Addresses, rm.bypass \subseteq b,
             b \subseteq sys.bypass \cup past.kept, sys.bypass \subseteq b \cup past.kept,
             AfterBypass(t, [Released(t) EXCEPT !.bypass = b]),
             ctl' = ctl, past' \in Pasts, past'.had = past.had,
             past'.repeated = past.repeated, past'.lostDns = past.lostDns, past'.kept = past.kept,
             past.refused \subseteq past'.refused,
             task[t].addr \in b \cup past'.refused,
             t = "start" /\ task.start.phase = "configure" => task.start.addr \in b
      PROVE  TunnelInv'
  <2>1. CASE t = "start"
    <3>1. EachBypass(task.start.phase, task.start.todo, [Released("start") EXCEPT !.bypass = b])
      BY <1>4, <2>1 DEF AfterBypass
    <3> QED BY <1>1, <1>2, <1>4, <2>1, <3>1, StartReturns
  <2>2. CASE t = "err"
    <3>1. /\ task' = [task EXCEPT !.err = [at |-> "read", addr |-> None]]
          /\ child' = [child EXCEPT !["err"] = None]
          /\ rm' = [Released("err") EXCEPT !.bypass = b] /\ app' = app
      BY <1>4, <2>2 DEF AfterBypass
    <3> QED BY <1>1, <1>2, <1>4, <2>2, <3>1, ErrReturns
  <2> QED BY <2>1, <2>2
<1>5. CASE BypassGranted(t)
  <2>1. task[t].at = "lock" /\ app.at = "free" /\ ctl' = ctl /\ past' = past
    BY <1>5 DEF BypassGranted, Free
  <2>2. CASE Worthwhile(rm, task[t].addr)
    <3>1. /\ task' = [task EXCEPT ![t].at = "exec"]
          /\ child' = [child EXCEPT ![t] = Exec("bypass", task[t].addr)]
          /\ app' = app /\ rm' = rm
      BY <1>5, <2>2 DEF BypassGranted
    <3> QED BY <1>1, <1>2, <2>1, <3>1, GrantStep
  <2>3. CASE ~ Worthwhile(rm, task[t].addr)
    <3>1. AfterBypass(t, Released(t))
      BY <1>5, <2>3 DEF BypassGranted
    <3>2. /\ rm.bypass \in SUBSET Addresses /\ rm.bypass \subseteq sys.bypass \cup past.kept
          /\ sys.bypass \subseteq rm.bypass \cup past.kept
          /\ Released(t) = [Released(t) EXCEPT !.bypass = rm.bypass]
      BY <1>2, <2>1, HeldFacts
    <3>3. task[t].addr \in rm.bypass
      BY <1>3, <2>3 DEF Worthwhile
    <3>4. AfterBypass(t, [Released(t) EXCEPT !.bypass = rm.bypass])
      BY <3>1, <3>2
    <3> QED BY <1>t, <1>4, <2>1, <3>2, <3>3, <3>4
  <2> QED BY <2>2, <2>3
<1>6. CASE BypassAdded(t)
  <2>1. /\ task[t].at = "exec" /\ child[t].exit = "ok" /\ ctl' = ctl /\ past' = past
        /\ AfterBypass(t, [Released(t) EXCEPT !.bypass = @ \cup {task[t].addr}])
    BY <1>6 DEF BypassAdded, Returned
  <2> DEFINE b == rm.bypass \cup {task[t].addr}
  <2>2. /\ b \in SUBSET Addresses /\ b \subseteq sys.bypass \cup past.kept
        /\ sys.bypass \subseteq b \cup past.kept
        /\ [Released(t) EXCEPT !.bypass = @ \cup {task[t].addr}] = [Released(t) EXCEPT !.bypass = b]
    BY <1>2, <1>3, <2>1, HeldFacts
  <2>3. AfterBypass(t, [Released(t) EXCEPT !.bypass = b])
    BY <2>1, <2>2
  <2>4. rm.bypass \subseteq b /\ task[t].addr \in b
    OBVIOUS
  <2> HIDE DEF b
  <2> QED BY <1>t, <1>4, <2>1, <2>2, <2>3, <2>4
<1>7. CASE BypassFailed(t)
  <2>1. task[t].at = "exec" /\ child[t].exit = "failed"
    BY <1>7 DEF BypassFailed, Returned
  <2>2. /\ rm.bypass \in SUBSET Addresses /\ rm.bypass \subseteq sys.bypass \cup past.kept
        /\ sys.bypass \subseteq rm.bypass \cup past.kept
        /\ Released(t) = [Released(t) EXCEPT !.bypass = rm.bypass]
    BY <1>2, <2>1, HeldFacts
  <2>3. CASE t = "start" /\ task.start.phase = "configure"
    <3>1. /\ StartFails /\ rm' = Released("start") /\ child' = [child EXCEPT !["start"] = None]
          /\ past' = past
      BY <1>7, <2>3 DEF BypassFailed
    <3> QED BY <1>t, <1>1, <1>3, <2>1, <2>3, <3>1, FailStep
  <2>4. CASE ~ (t = "start" /\ task.start.phase = "configure")
    <3>1. /\ AfterBypass(t, Released(t)) /\ ctl' = ctl
          /\ past' = [past EXCEPT !.refused = @ \cup {task[t].addr}]
      BY <1>7, <2>4 DEF BypassFailed
    <3>2. /\ past' \in Pasts /\ past'.had = past.had /\ past'.repeated = past.repeated
          /\ past'.lostDns = past.lostDns /\ past'.refused = past.refused \cup {task[t].addr}
          /\ past'.kept = past.kept
      BY <1>t, <1>3, <3>1 DEF Pasts
    <3>3. AfterBypass(t, [Released(t) EXCEPT !.bypass = rm.bypass])
      BY <2>2, <3>1
    <3> QED BY <1>4, <2>2, <2>4, <3>1, <3>2, <3>3
  <2> QED BY <2>3, <2>4
<1> QED BY <1>5, <1>6, <1>7

-----------------------------------------------------------------------------
(* The readers and the DNS.                                                *)

\* A step of the stdout reader does not touch the routes.
LEMMA OutFrame ==
  ASSUME TunnelInv, ctl.cts, app' = app, TaskType', ChildType', ctl' \in Ctls, rm' \in Rms,
         sys' \in Syss, past' \in Pasts,
         task'.start = task.start, task'.err = task.err,
         child'["start"] = child["start"], child'["err"] = child["err"],
         ctl'.cts, ctl'.seen = ctl.seen,
         rm'.gateway = rm.gateway, rm'.bypass = rm.bypass, rm'.lock = rm.lock,
         sys'.bypass = sys.bypass, sys'.default = sys.default, sys'.adapter = sys.adapter,
         sys'.stray = sys.stray, past'.refused = past.refused, past'.kept = past.kept,
         past.lostDns => past'.lostDns,
         IF task'.out.at = "dnsExec"
         THEN child'["out"] # None /\ child'["out"].cmd = "dns" /\ child'["out"].arg \in Dns
         ELSE child'["out"] = None,
         task.start.at \in {"dns", "default"} => ctl'.dns = ctl.dns /\ sys'.dns = sys.dns,
         StageInv', DnsLockInv', LastDnsInv'
  PROVE  TunnelInv'
<1>t. Types /\ TaskType /\ sys.adapter /\ app.at = "free" /\ ~ Stopped
  BY DEF TunnelInv, Types, ModeInv, Stopped
<1>1. task'.out.at \in {"off", "read", "dnsLock", "dnsExec"}
  BY DEF TaskType, OutTasks
<1>2. Types'
  BY <1>t DEF Types
<1>3. ModeInv'
  BY <1>t DEF TunnelInv, ModeInv, Stopped
<1>4. ChildInv'
  <2>1. Waits("out")'
    BY <1>1 DEF Waits, CommandAt
  <2>2. Waits("start") /\ Waits("err")
    BY <1>t DEF TunnelInv, ChildInv, Tasks
  <2>3. Waits("start")' /\ Waits("err")'
    BY <2>2 DEF Waits
  <2>4. \A u \in Tasks : Waits(u)'
    BY <2>1, <2>3 DEF Tasks
  <2> QED BY <2>4 DEF TunnelInv, ChildInv, Tasks
<1>5. LockInv' /\ RouteInv'
  BY DEF TunnelInv, LockInv, RouteInv
<1>6. OwedInv'
  <2>1. StartOwes' = StartOwes /\ ErrOwes' = ErrOwes
    BY DEF StartOwes, ErrOwes
  <2> QED BY <2>1 DEF TunnelInv, OwedInv
<1>7. FirstDnsInv'
  BY DEF TunnelInv, FirstDnsInv
<1>8. LateInv'
  BY <1>t, <1>2, <1>4, LiveLate DEF Free
<1> QED BY <1>2, <1>3, <1>4, <1>5, <1>6, <1>7, <1>8 DEF TunnelInv

\* What the controller and the history are after the stdout reader has read,
\* or while it goes on: only the latest value has changed, to a new one
\* unless the server has gone back.
Read(c, p) ==
    /\ c \in Ctls /\ p \in Pasts
    /\ c.cts = ctl.cts /\ c.ready = ctl.ready /\ c.applied = ctl.applied
    /\ c.routesReady = ctl.routesReady /\ c.seen = ctl.seen /\ c.dns = ctl.dns
    /\ p.refused = past.refused /\ past.had \subseteq p.had /\ p.lostDns = past.lostDns
    /\ p.kept = past.kept
    /\ c.latest \in p.had
    /\ ~ p.repeated => ~ past.repeated

\* The stdout reader is in dnsApplyLock, or takes it.
LEMMA OutApplies ==
  ASSUME TunnelInv, Free, task.out.at \in {"read", "dnsLock"}, ctl.routesReady,
         task.start.at # "dnsExec", Read(ctl', past'),
         NEW r, r = [rm EXCEPT !.dnsLock = None], ApplyDns("out", ctl', r)
  PROVE  TunnelInv'
<1>t. Types /\ TaskType /\ ChildType /\ rm \in Rms /\ sys \in Syss /\ ctl \in Ctls
  BY DEF TunnelInv, Types
<1>1. ctl.cts /\ ~ Stopped /\ app.at = "free" /\ \A u \in Tasks : Waits(u)
  BY ActiveFacts
<1>2. /\ ctl' \in Ctls /\ past' \in Pasts /\ ctl'.cts /\ ctl'.ready = ctl.ready
      /\ ctl'.applied = ctl.applied /\ ctl'.routesReady /\ ctl'.seen = ctl.seen
      /\ ctl'.dns = ctl.dns /\ ctl'.latest \in past'.had /\ ctl'.latest \in Dns
      /\ past.had \subseteq past'.had
      /\ past'.refused = past.refused /\ past'.lostDns = past.lostDns /\ past'.kept = past.kept
  BY <1>1 DEF Read, Pasts
<1>3. /\ r \in Rms /\ r.gateway = rm.gateway /\ r.bypass = rm.bypass /\ r.lock = rm.lock
      /\ r.dnsLock = None
  BY <1>t DEF Rms
<1>4. /\ task.start.at \notin {"dns", "default", "bootstrap", "config", "dnsLock"}
      /\ task.start.at \notin Before
      /\ ~ (task.start.at \in {"lock", "exec"} /\ task.start.phase = "configure")
  BY <1>1 DEF TunnelInv, StageInv, Before, Early
<1>5. ctl.ready /\ ctl.dns \in past.had /\ ctl.applied \in past.had
  BY <1>1, <1>4 DEF TunnelInv, StageInv
<1>6. (~ past'.lostDns /\ ~ past'.repeated) => sys.dns = ctl.applied
  <2>1. (~ past'.lostDns /\ ~ past'.repeated) => (~ past.lostDns /\ ~ past.repeated)
    BY DEF Read
  <2> QED BY <1>1, <2>1 DEF TunnelInv, LastDnsInv
<1>7. CASE ctl'.latest # ctl'.applied
  <2>1. /\ task' = [task EXCEPT !.out.at = "dnsExec"]
        /\ child' = [child EXCEPT !["out"] = Exec("dns", ctl'.latest)]
        /\ sys' = [sys EXCEPT !.dns = None] /\ rm' = [r EXCEPT !.dnsLock = "out"] /\ app' = app
    BY <1>2, <1>7 DEF ApplyDns
  <2> DEFINE e == Exec("dns", ctl'.latest)
  <2>2. e \in Commands /\ e # None /\ e.cmd = "dns" /\ e.arg = ctl'.latest /\ e.exit = None
    BY <1>2, ExecFacts
  <2> HIDE DEF e
  <2>3. /\ TaskType' /\ task'.start = task.start /\ task'.err = task.err /\ task'.out.at = "dnsExec"
    BY <1>t, <2>1 DEF TaskType, OutTasks
  <2>4. /\ ChildType' /\ child'["start"] = child["start"] /\ child'["err"] = child["err"]
        /\ child'["out"] = e
    BY <1>t, <2>1, <2>2 DEF ChildType, Tasks, e
  <2>5. /\ rm' \in Rms /\ rm'.gateway = rm.gateway /\ rm'.bypass = rm.bypass
        /\ rm'.lock = rm.lock /\ rm'.dnsLock = "out"
    BY <1>3, <2>1 DEF Rms
  <2>6. /\ sys' \in Syss /\ sys'.bypass = sys.bypass /\ sys'.default = sys.default
        /\ sys'.adapter = sys.adapter /\ sys'.stray = sys.stray
    BY <1>t, <2>1 DEF Syss
  <2>7. StageInv'
    BY <1>2, <1>4, <1>5, <2>3 DEF StageInv
  <2>8. DnsLockInv'
    BY <1>4, <2>3, <2>5 DEF DnsLockInv
  <2>9. LastDnsInv'
    BY <1>2, <2>2, <2>3, <2>4, NoneFacts DEF LastDnsInv
  <2>10. child'["out"] # None /\ child'["out"].cmd = "dns" /\ child'["out"].arg \in Dns
    BY <1>2, <2>2, <2>4
  <2> QED BY <1>1, <1>2, <1>4, <2>1, <2>3, <2>4, <2>5, <2>6, <2>7, <2>8, <2>9, <2>10, OutFrame
<1>8. CASE ctl'.latest = ctl'.applied
  <2>1. /\ task' = [task EXCEPT !.out.at = "read"] /\ child' = [child EXCEPT !["out"] = None]
        /\ rm' = r /\ app' = app /\ sys' = sys
    BY <1>8 DEF ApplyDns, AfterDns
  <2>2. /\ TaskType' /\ task'.start = task.start /\ task'.err = task.err /\ task'.out.at = "read"
    BY <1>t, <2>1 DEF TaskType, OutTasks
  <2>3. /\ ChildType' /\ child'["start"] = child["start"] /\ child'["err"] = child["err"]
        /\ child'["out"] = None
    BY <1>t, <2>1 DEF ChildType, Tasks
  <2>4. StageInv'
    BY <1>2, <1>4, <1>5, <2>2 DEF StageInv
  <2>5. DnsLockInv'
    BY <1>3, <1>4, <2>1, <2>2, NoneFacts DEF DnsLockInv
  <2>6. LastDnsInv'
    BY <1>2, <1>6, <1>8, <2>1, <2>2 DEF LastDnsInv
  <2>7. task'.out.at # "dnsExec"
    BY <2>2
  <2> QED BY <1>t, <1>1, <1>2, <1>3, <1>4, <2>1, <2>2, <2>3, <2>4, <2>5, <2>6, <2>7, OutFrame
<1> QED BY <1>7, <1>8

LEMMA OutDnsStep ==
  ASSUME TunnelInv, DnsGranted("out") \/ DnsReturned("out")
  PROVE  TunnelInv'
<1>t. Types /\ TaskType /\ ChildType /\ rm \in Rms /\ ctl \in Ctls /\ past \in Pasts /\ sys \in Syss
  BY DEF TunnelInv, Types
<1>1. Free /\ task.out.at \in {"dnsLock", "dnsExec"}
  BY DEF DnsGranted, DnsReturned, Returned
<1>2. ctl.cts /\ ~ Stopped /\ app.at = "free" /\ \A u \in Tasks : Waits(u)
  BY <1>1, ActiveFacts
<1>3. ctl.routesReady /\ rm.dnsLock = "out"
  BY <1>1, <1>2 DEF TunnelInv, StageInv, DnsLockInv, DnsGranted, DnsReturned
<1>4. /\ task.start.at \notin {"dns", "default", "bootstrap", "config", "dnsLock", "dnsExec"}
      /\ task.start.at \notin Before
      /\ ~ (task.start.at \in {"lock", "exec"} /\ task.start.phase = "configure")
  BY <1>2, <1>3 DEF TunnelInv, StageInv, DnsLockInv, Before, Early
<1>5. ctl.ready /\ ctl.latest \in past.had /\ ctl.dns \in past.had /\ ctl.applied \in past.had
  BY <1>2, <1>3, <1>4 DEF TunnelInv, StageInv
<1>6. CASE DnsGranted("out")
  <2>1. ctl' = ctl /\ past' = past /\ ApplyDns("out", ctl, [rm EXCEPT !.dnsLock = None])
    BY <1>6 DEF DnsGranted
  <2>2. Read(ctl', past')
    BY <1>t, <1>5, <2>1 DEF Read
  <2>3. ApplyDns("out", ctl', [rm EXCEPT !.dnsLock = None])
    BY <2>1
  <2>4. task.out.at \in {"read", "dnsLock"}
    BY <1>6 DEF DnsGranted
  <2> QED BY <1>1, <1>3, <1>4, <2>2, <2>3, <2>4, OutApplies
<1>7. CASE DnsReturned("out")
  <2>1. /\ task.out.at = "dnsExec" /\ sys' = sys
        /\ \/ /\ child["out"].exit = "ok" /\ ctl' = [ctl EXCEPT !.applied = child["out"].arg]
              /\ past' = past
           \/ past' = [past EXCEPT !.lostDns = TRUE] /\ ctl' = ctl
        /\ AfterDns("out", [rm EXCEPT !.dnsLock = Heir("out", "dnsLock")])
    BY <1>7 DEF DnsReturned, Returned
  <2>2. Heir("out", "dnsLock") = None
    BY <1>t, <1>4, HeirFacts
  <2>3. /\ task' = [task EXCEPT !.out.at = "read"] /\ child' = [child EXCEPT !["out"] = None]
        /\ rm' = [rm EXCEPT !.dnsLock = None] /\ app' = app
    BY <2>1, <2>2 DEF AfterDns
  <2>4. /\ TaskType' /\ task'.start = task.start /\ task'.err = task.err /\ task'.out.at = "read"
    BY <1>t, <2>3 DEF TaskType, OutTasks
  <2>5. /\ ChildType' /\ child'["start"] = child["start"] /\ child'["err"] = child["err"]
        /\ child'["out"] = None
    BY <1>t, <2>3 DEF ChildType, Tasks
  <2>6. /\ rm' \in Rms /\ rm'.gateway = rm.gateway /\ rm'.bypass = rm.bypass
        /\ rm'.lock = rm.lock /\ rm'.dnsLock = None
    BY <1>t, <2>3 DEF Rms
  <2>7. /\ child["out"].arg \in past.had /\ child["out"].arg \in Dns
        /\ child["out"].exit = "ok" /\ ~ past.lostDns => sys.dns = child["out"].arg
        /\ (~ past.lostDns /\ ~ past.repeated) => child["out"].arg = ctl.latest
    BY <1>t, <1>2, <1>3, <2>1 DEF TunnelInv, LastDnsInv, Pasts
  <2>8. /\ ctl' \in Ctls /\ ctl'.cts /\ ctl'.ready /\ ctl'.routesReady /\ ctl'.seen = ctl.seen
        /\ ctl'.dns = ctl.dns /\ ctl'.latest = ctl.latest /\ ctl'.applied \in past.had
        /\ past' \in Pasts /\ past'.refused = past.refused /\ past'.had = past.had
        /\ past'.kept = past.kept /\ (past.lostDns => past'.lostDns)
        /\ (~ past'.lostDns /\ ~ past'.repeated) => ctl'.applied = ctl.latest /\ sys.dns = ctl.latest
    <3>1. CASE /\ child["out"].exit = "ok" /\ ctl' = [ctl EXCEPT !.applied = child["out"].arg]
               /\ past' = past
      BY <1>t, <1>2, <1>3, <1>5, <2>7, <3>1 DEF Ctls
    <3>2. CASE past' = [past EXCEPT !.lostDns = TRUE] /\ ctl' = ctl
      BY <1>t, <1>2, <1>3, <1>5, <3>2 DEF Pasts
    <3> QED BY <2>1, <3>1, <3>2
  <2>9. StageInv'
    BY <1>4, <1>5, <2>4, <2>8 DEF StageInv
  <2>10. DnsLockInv'
    BY <1>4, <2>4, <2>6, NoneFacts DEF DnsLockInv
  <2>11. LastDnsInv'
    BY <1>4, <2>1, <2>4, <2>8 DEF LastDnsInv
  <2>12. task'.out.at # "dnsExec"
    BY <2>4
  <2> QED BY <1>t, <1>2, <1>4, <2>1, <2>3, <2>4, <2>5, <2>6, <2>8, <2>9, <2>10, <2>11, <2>12, OutFrame
<1> QED BY <1>6, <1>7

\* The update StartAsync makes for what came while it configured has ended.
LEMMA StartDnsStep ==
  ASSUME TunnelInv, DnsGranted("start") \/ DnsReturned("start")
  PROVE  TunnelInv'
<1>t. Types /\ TaskType /\ ChildType /\ rm \in Rms /\ ctl \in Ctls /\ past \in Pasts
  BY DEF TunnelInv, Types
<1>1. Free /\ task.start.at \in {"dnsLock", "dnsExec"} /\ task.start.at # "idle"
  BY DEF DnsGranted, DnsReturned, Returned
<1>2. ctl.cts /\ ~ Stopped /\ app.at = "free" /\ \A u \in Tasks : Waits(u)
  BY <1>1, ActiveFacts
<1>3. task.start.at = "dnsExec" /\ DnsReturned("start")
  BY <1>1, <1>2 DEF TunnelInv, StageInv, DnsGranted
<1>4. /\ ctl.routesReady /\ ctl.ready /\ ctl.latest \in past.had /\ ctl.dns \in past.had
      /\ ctl.applied \in past.had
  BY <1>2, <1>3 DEF TunnelInv, StageInv, Before, Early
<1>5. rm.dnsLock = "start" /\ task.out.at # "dnsExec"
  BY <1>3 DEF TunnelInv, DnsLockInv
<1>6. PICK r : /\ r = [rm EXCEPT !.dnsLock = Heir("start", "dnsLock")]
               /\ EachBypass("late", ctl.seen, r) /\ sys' = sys
               /\ \/ /\ child["start"].exit = "ok"
                     /\ ctl' = [ctl EXCEPT !.applied = child["start"].arg] /\ past' = past
                  \/ past' = [past EXCEPT !.lostDns = TRUE] /\ ctl' = ctl
  BY <1>3 DEF DnsReturned, Returned, AfterDns
<1>7. PICK h \in {None, "out"} : /\ r = [rm EXCEPT !.dnsLock = h]
                                 /\ h = "out" => task.out.at = "dnsLock"
  <2>1. Heir("start", "dnsLock") \in {None, "out"}
        /\ (Heir("start", "dnsLock") = "out" => task.out.at = "dnsLock")
    BY <1>t, HeirFacts, NoneFacts
  <2> QED BY <1>6, <2>1
<1>8. /\ r \in Rms /\ r.gateway = rm.gateway /\ r.bypass = rm.bypass /\ r.lock = rm.lock
      /\ r.dnsLock = h
  BY <1>t, <1>7 DEF Rms
<1>9. /\ child["start"].arg \in past.had /\ child["start"].arg \in Dns
      /\ child["start"].exit = "ok" /\ ~ past.lostDns => sys.dns = child["start"].arg
      /\ (~ past.lostDns /\ ~ past.repeated) =>
            child["start"].arg = ctl.latest \/ task.out.at = "dnsLock"
  BY <1>t, <1>2, <1>3, <1>4, <1>5 DEF TunnelInv, LastDnsInv, Pasts, TaskType, OutTasks
<1>10. /\ ctl' \in Ctls /\ ctl'.cts /\ ctl'.ready /\ ctl'.routesReady /\ ctl'.seen = ctl.seen
       /\ ctl'.dns = ctl.dns /\ ctl'.latest = ctl.latest /\ ctl'.applied \in past.had
       /\ past' \in Pasts /\ past'.refused = past.refused /\ past'.had = past.had
       /\ past'.kept = past.kept
       /\ (~ past'.lostDns /\ ~ past'.repeated) =>
             /\ ctl'.latest = ctl'.applied \/ task.out.at = "dnsLock"
             /\ sys.dns = ctl'.applied
  <2>1. CASE /\ child["start"].exit = "ok" /\ ctl' = [ctl EXCEPT !.applied = child["start"].arg]
             /\ past' = past
    BY <1>t, <1>2, <1>4, <1>9, <2>1 DEF Ctls
  <2>2. CASE past' = [past EXCEPT !.lostDns = TRUE] /\ ctl' = ctl
    BY <1>t, <1>2, <1>4, <2>2 DEF Pasts
  <2> QED BY <1>6, <2>1, <2>2
<1>11. /\ rm.gateway /\ Hosts \subseteq rm.bypass
       /\ ctl.seen \subseteq rm.bypass \cup past.refused \cup ErrOwes
  BY <1>2, <1>3 DEF TunnelInv, OwedInv, StartOwes, Early
<1>12. /\ rm.lock \in {None, "err"} /\ (rm.lock = "err" => task.err.at \in {"lock", "exec"})
       /\ (task.err.at = "exec" => rm.lock = "err")
       /\ rm.bypass \subseteq sys.bypass \cup past.kept
       /\ \A a \in sys.bypass :
             \/ a \in rm.bypass \cup past.kept
             \/ task.err.at = "exec" /\ task.err.addr = a /\ child["err"].exit = "ok"
  BY <1>t, <1>3 DEF TunnelInv, LockInv, Rms, RouteInv
<1>13. ctl.seen \subseteq Addresses
  BY <1>t DEF Ctls
<1>14. Between(ctl', past', r, "late", ctl.seen)
  BY <1>4, <1>5, <1>7, <1>8, <1>10, <1>11, <1>12, <1>13, NoneFacts DEF Between
<1> QED BY <1>1, <1>2, <1>6, <1>14, EachBypassStep

\* The default route is there; StartAsync turns to what came in the meantime.
LEMMA ConfiguredStep ==
  ASSUME TunnelInv, Configured
  PROVE  TunnelInv'
<1>t. Types /\ TaskType /\ ChildType /\ rm \in Rms /\ ctl \in Ctls /\ past \in Pasts /\ sys \in Syss
      /\ app \in Apps
  BY DEF TunnelInv, Types
<1>1. /\ Free /\ task.start.at = "default" /\ task.start.at # "idle" /\ past' = past
      /\ ctl' = [ctl EXCEPT !.applied = ctl.dns, !.routesReady = TRUE]
      /\ ApplyLatestDns("start", [ctl EXCEPT !.applied = ctl.dns, !.routesReady = TRUE], rm)
  BY DEF Configured, Returned
<1>2. ctl.cts /\ ~ Stopped /\ app.at = "free" /\ sys.adapter /\ \A u \in Tasks : Waits(u)
  BY <1>1, ActiveFacts
<1>3. /\ ctl.ready /\ ctl.latest \in past.had /\ ctl.dns \in past.had /\ ~ ctl.routesReady
      /\ rm.dnsLock = None /\ task.out.at \in {"off", "read"}
      /\ ~ past.lostDns => sys.dns = ctl.dns
  BY <1>1, <1>2 DEF TunnelInv, StageInv, FirstDnsInv, Before, Early
<1>4. /\ ctl' \in Ctls /\ ctl'.cts /\ ctl'.ready /\ ctl'.routesReady /\ ctl'.seen = ctl.seen
      /\ ctl'.dns = ctl.dns /\ ctl'.latest = ctl.latest /\ ctl'.applied = ctl.dns
  BY <1>t, <1>1, <1>2, <1>3 DEF Ctls
<1>5. /\ rm.gateway /\ Hosts \subseteq rm.bypass
      /\ ctl.seen \subseteq rm.bypass \cup past.refused \cup ErrOwes
  BY <1>1, <1>2 DEF TunnelInv, OwedInv, StartOwes, Early
<1>6. ApplyDns("start", ctl', rm)
  BY <1>1, <1>3 DEF ApplyLatestDns
<1>7. CASE ctl'.latest # ctl'.applied
  <2>1. /\ task' = [task EXCEPT !["start"].at = "dnsExec"]
        /\ child' = [child EXCEPT !["start"] = Exec("dns", ctl'.latest)]
        /\ sys' = [sys EXCEPT !.dns = None] /\ rm' = [rm EXCEPT !.dnsLock = "start"] /\ app' = app
    BY <1>4, <1>6, <1>7 DEF ApplyDns
  <2> DEFINE e == Exec("dns", ctl'.latest)
  <2>2. ctl.latest \in Dns
    BY <1>t, <1>3 DEF Pasts
  <2>3. e \in Commands /\ e # None /\ e.cmd = "dns" /\ e.arg = ctl.latest /\ e.exit = None
    BY <1>4, <2>2, ExecFacts
  <2> HIDE DEF e
  <2>4. /\ TaskType' /\ task'.start.at = "dnsExec" /\ task'.err = task.err /\ task'.out = task.out
    BY <1>t, <2>1 DEF TaskType, StartTasks
  <2>5. /\ ChildType' /\ child'["start"] = e /\ child'["err"] = child["err"]
        /\ child'["out"] = child["out"]
    BY <1>t, <2>1, <2>3 DEF ChildType, Tasks, e
  <2>6. /\ rm' \in Rms /\ rm'.gateway = rm.gateway /\ rm'.bypass = rm.bypass
        /\ rm'.lock = rm.lock /\ rm'.dnsLock = "start"
    BY <1>t, <2>1 DEF Rms
  <2>7. /\ sys' \in Syss /\ sys'.bypass = sys.bypass /\ sys'.default = sys.default
        /\ sys'.adapter = sys.adapter /\ sys'.stray = sys.stray
    BY <1>t, <2>1 DEF Syss
  <2>8. Types'
    BY <1>t, <1>1, <1>4, <2>1, <2>4, <2>5, <2>6, <2>7 DEF Types
  <2>9. ModeInv'
    BY <1>1, <1>2, <1>4, <2>1, <2>4, <2>7 DEF TunnelInv, ModeInv, Stopped
  <2>10. ChildInv'
    <3>1. Waits("start")'
      BY <2>3, <2>4, <2>5 DEF Waits, CommandAt
    <3>2. Waits("err")' /\ Waits("out")'
      BY <1>2, <2>4, <2>5 DEF Waits, Tasks
    <3>3. \A u \in Tasks : Waits(u)'
      BY <3>1, <3>2 DEF Tasks
    <3> QED BY <2>2, <2>3, <2>4, <2>5, <3>3 DEF TunnelInv, ChildInv, Tasks
  <2>11. LockInv'
    BY <1>1, <2>4, <2>6, NoneFacts DEF TunnelInv, LockInv
  <2>12. RouteInv'
    BY <1>1, <2>4, <2>5, <2>6, <2>7 DEF TunnelInv, RouteInv
  <2>13. OwedInv'
    <3>1. StartOwes' = {} /\ ErrOwes' = ErrOwes
      BY <2>4 DEF StartOwes, ErrOwes
    <3> QED BY <1>1, <1>4, <1>5, <2>4, <2>6, <3>1 DEF OwedInv, Early
  <2>14. StageInv' /\ FirstDnsInv'
    BY <1>1, <1>3, <1>4, <2>4 DEF StageInv, FirstDnsInv, Before, Early
  <2>15. DnsLockInv'
    BY <1>3, <2>4, <2>6 DEF DnsLockInv
  <2>16. LastDnsInv'
    BY <1>1, <1>3, <1>4, <2>3, <2>4, <2>5, NoneFacts DEF LastDnsInv
  <2>17. LateInv'
    BY <1>1, <1>4, <2>1, <2>7, <2>8, <2>10, LiveLate
  <2> QED BY <2>8, <2>9, <2>10, <2>11, <2>12, <2>13, <2>14, <2>15, <2>16, <2>17 DEF TunnelInv
<1>8. CASE ctl'.latest = ctl'.applied
  <2>1. EachBypass("late", ctl.seen, rm) /\ sys' = sys
    BY <1>6, <1>8 DEF ApplyDns, AfterDns
  <2>2. /\ rm.lock \in {None, "err"} /\ (rm.lock = "err" => task.err.at \in {"lock", "exec"})
        /\ (task.err.at = "exec" => rm.lock = "err")
        /\ rm.bypass \subseteq sys.bypass \cup past.kept
        /\ \A a \in sys.bypass :
              \/ a \in rm.bypass \cup past.kept
              \/ task.err.at = "exec" /\ task.err.addr = a /\ child["err"].exit = "ok"
    BY <1>t, <1>1 DEF TunnelInv, LockInv, Rms, RouteInv
  <2>3. ctl.seen \subseteq Addresses
    BY <1>t DEF Ctls
  <2>4. Between(ctl', past', rm, "late", ctl.seen)
    BY <1>t, <1>1, <1>3, <1>4, <1>5, <1>8, <2>2, <2>3, NoneFacts DEF Between
  <2> QED BY <1>1, <1>2, <2>1, <2>4, EachBypassStep
<1> QED BY <1>7, <1>8

LEMMA PumpConfStep ==
  ASSUME TunnelInv, NEW d \in Dns, PumpConf(d)
  PROVE  TunnelInv'
<1>t. Types /\ TaskType /\ ChildType /\ rm \in Rms /\ ctl \in Ctls /\ past \in Pasts /\ sys \in Syss
  BY DEF TunnelInv, Types
<1> DEFINE c == [ctl EXCEPT !.latest = d, !.ready = TRUE, !.dns = IF ctl.ready THEN @ ELSE d]
<1>1. /\ Free /\ task.out.at = "read" /\ ctl' = c
      /\ past' = [past EXCEPT !.confs = @ + 1, !.had = @ \cup {d}, !.repeated = @ \/ d \in past.had]
  BY DEF PumpConf
<1>2. ctl.cts /\ ~ Stopped /\ app.at = "free" /\ \A u \in Tasks : Waits(u)
  BY <1>1, ActiveFacts
<1>3. /\ ctl' \in Ctls /\ ctl'.cts /\ ctl'.ready /\ ctl'.latest = d /\ ctl'.applied = ctl.applied
      /\ ctl'.routesReady = ctl.routesReady /\ ctl'.seen = ctl.seen
      /\ ctl'.dns = (IF ctl.ready THEN ctl.dns ELSE d)
  BY <1>t, <1>1, <1>2 DEF Ctls
<1>4. /\ past' \in Pasts /\ past'.refused = past.refused /\ past'.had = past.had \cup {d}
      /\ past'.lostDns = past.lostDns /\ past'.kept = past.kept
      /\ ~ past'.repeated => ~ past.repeated /\ d \notin past.had
  <2>1. past.confs + 1 \in Nat
    BY <1>t DEF Pasts
  <2> QED BY <1>t, <1>1, <2>1 DEF Pasts
<1>5. /\ task.start.at # "bootstrap"
      /\ ctl.routesReady => ctl.ready /\ ctl.applied \in past.had
      /\ ctl.ready => ctl.dns \in past.had
      /\ task.start.at \notin {"bootstrap", "config"} => ctl.ready
  BY <1>1, <1>2 DEF TunnelInv, StageInv, Before, Early
<1>6. child["out"] = None
  BY <1>1, <1>2 DEF Waits, CommandAt, Tasks
<1>7. CASE ctl.ready /\ c.routesReady /\ c.applied # d
  <2>1. ApplyLatestDns("out", ctl', rm)
    BY <1>1, <1>7 DEF PumpConf
  <2>2. ctl.routesReady /\ ctl.ready
    BY <1>1, <1>3, <1>7
  <2>3. CASE rm.dnsLock = None
    <3>1. ApplyDns("out", ctl', rm)
      BY <2>1, <2>3 DEF ApplyLatestDns
    <3>2. rm = [rm EXCEPT !.dnsLock = None]
      BY <1>t, <2>3 DEF Rms
    <3>3. task.start.at # "dnsExec"
      BY <2>3, NoneFacts DEF TunnelInv, DnsLockInv
    <3>4. Read(ctl', past')
      BY <1>2, <1>3, <1>4, <2>2 DEF Read
    <3>5. task.out.at \in {"read", "dnsLock"}
      BY <1>1
    <3> QED BY <1>1, <2>2, <3>1, <3>2, <3>3, <3>4, <3>5, OutApplies
  <2>4. CASE rm.dnsLock # None
    <3>1. /\ task' = [task EXCEPT !.out.at = "dnsLock"] /\ rm' = rm
          /\ child' = [child EXCEPT !["out"] = None] /\ app' = app /\ sys' = sys
      BY <2>1, <2>4 DEF ApplyLatestDns
    <3>2. /\ TaskType' /\ task'.start = task.start /\ task'.err = task.err
          /\ task'.out.at = "dnsLock"
      BY <1>t, <3>1 DEF TaskType, OutTasks
    <3>3. /\ ChildType' /\ child'["start"] = child["start"] /\ child'["err"] = child["err"]
          /\ child'["out"] = None
      BY <1>t, <3>1 DEF ChildType, Tasks
    <3>4. rm.dnsLock = "start" /\ task.start.at = "dnsExec"
      BY <1>t, <1>1, <1>2, <2>4 DEF TunnelInv, DnsLockInv, StageInv, Rms
    <3>5. StageInv'
      BY <1>3, <1>4, <1>5, <2>2, <3>2, <3>4 DEF StageInv, Before, Early
    <3>6. DnsLockInv'
      BY <3>1, <3>2, <3>4 DEF DnsLockInv
    <3>7. LastDnsInv'
      BY <1>2, <1>3, <1>4, <2>2, <3>1, <3>2, <3>3, <3>4 DEF TunnelInv, LastDnsInv
    <3>8. task'.out.at # "dnsExec" /\ ~ (task.start.at \in {"dns", "default"})
      BY <3>2, <3>4
    <3> QED BY <1>t, <1>2, <1>3, <1>4, <3>1, <3>2, <3>3, <3>5, <3>6, <3>7, <3>8, OutFrame
  <2> QED BY <2>3, <2>4
<1>8. CASE ~ (ctl.ready /\ c.routesReady /\ c.applied # d)
  <2>1. app' = app /\ rm' = rm /\ task' = task /\ child' = child /\ sys' = sys
    BY <1>8 DEF PumpConf
  <2>2. ctl.routesReady => ctl.applied = d
    BY <1>1, <1>3, <1>5, <1>8
  <2>3. ctl.routesReady => past'.repeated
    BY <1>4, <1>5, <2>2
  <2>4. StageInv'
    BY <1>2, <1>3, <1>4, <1>5, <2>1 DEF TunnelInv, StageInv
  <2>5. DnsLockInv'
    BY <2>1 DEF TunnelInv, DnsLockInv
  <2>6. LastDnsInv'
    BY <1>2, <1>3, <1>4, <2>1, <2>3 DEF TunnelInv, LastDnsInv
  <2>7. TaskType' /\ ChildType' /\ task'.out.at # "dnsExec"
    BY <1>t, <1>1, <2>1 DEF TaskType, ChildType
  <2>8. task.start.at \in {"dns", "default"} => ctl'.dns = ctl.dns
    BY <1>3, <1>5
  <2> QED BY <1>t, <1>2, <1>3, <1>4, <1>6, <2>1, <2>4, <2>5, <2>6, <2>7, <2>8, OutFrame
<1> QED BY <1>7, <1>8

LEMMA PumpTurnStep ==
  ASSUME TunnelInv, NEW a \in Addresses, PumpTurn(a)
  PROVE  TunnelInv'
<1>t. Types /\ TaskType /\ ChildType /\ rm \in Rms /\ ctl \in Ctls
  BY DEF TunnelInv, Types
<1>1. /\ Free /\ task.err.at = "read" /\ ctl' = [ctl EXCEPT !.seen = @ \cup {a}]
      /\ app' = app /\ sys' = sys /\ past' = past
  BY DEF PumpTurn
<1>2. ctl.cts /\ ~ Stopped /\ app.at = "free" /\ \A u \in Tasks : Waits(u)
  BY <1>1, ActiveFacts
<1>3. /\ ctl' \in Ctls /\ ctl'.cts = ctl.cts /\ ctl'.ready = ctl.ready /\ ctl'.latest = ctl.latest
      /\ ctl'.applied = ctl.applied /\ ctl'.routesReady = ctl.routesReady
      /\ ctl'.seen = ctl.seen \cup {a} /\ ctl'.dns = ctl.dns
  BY <1>t, <1>1 DEF Ctls
<1>4. child["err"] = None /\ rm.lock # "err"
  BY <1>1, <1>2 DEF TunnelInv, LockInv, Waits, CommandAt, Tasks
<1>5. ASSUME NEW at \in {"read", "lock", "exec"}, TaskType', ChildType', rm' \in Rms,
             task'.start = task.start, task'.out = task.out, task'.err.at = at,
             at \in {"lock", "exec"} => task'.err.addr = a,
             child'["start"] = child["start"], child'["out"] = child["out"],
             rm'.gateway = rm.gateway, rm'.bypass = rm.bypass, rm'.dnsLock = rm.dnsLock,
             at = "read" => child'["err"] = None /\ rm'.lock = rm.lock
                              /\ (rm.gateway => a \in rm.bypass),
             at = "lock" => child'["err"] = None /\ rm'.lock = rm.lock,
             at = "exec" => /\ rm.lock = None /\ rm'.lock = "err" /\ rm.gateway
                            /\ child'["err"] # None /\ child'["err"].cmd = "bypass"
                            /\ child'["err"].arg = a /\ child'["err"].exit = None
      PROVE  TunnelInv'
  <2>1. Types'
    BY <1>t, <1>1, <1>3, <1>5 DEF Types
  <2>2. ModeInv'
    BY <1>1, <1>2, <1>3, <1>5 DEF TunnelInv, ModeInv, Stopped
  <2>3. ChildInv'
    <3>1. Waits("err")'
      BY <1>5 DEF Waits, CommandAt
    <3>2. Waits("start")' /\ Waits("out")'
      BY <1>2, <1>5 DEF Waits, Tasks
    <3>3. \A u \in Tasks : Waits(u)'
      BY <3>1, <3>2 DEF Tasks
    <3>4. ChildInv
      BY DEF TunnelInv
    <3>5. \A u \in Tasks : child'[u] # None /\ child'[u].cmd = "bypass" => task'[u].at = "exec"
      BY <1>5, <3>4 DEF ChildInv, Tasks
    <3>6. \A u \in Tasks : child'[u] # None /\ child'[u].cmd = "dns" => child'[u].arg \in Dns
      BY <1>5, <3>4 DEF ChildInv, Tasks
    <3>7. \A u \in {"start", "err"} :
            task'[u].at = "exec" => child'[u].arg = task'[u].addr /\ task'[u].addr \in Addresses
      BY <1>5, <3>4 DEF ChildInv
    <3> QED BY <3>3, <3>5, <3>6, <3>7 DEF ChildInv
  <2>4. LockInv'
    <3>1. LockInv
      BY DEF TunnelInv
    <3> QED BY <1>4, <1>5, <3>1, NoneFacts DEF LockInv
  <2>5. DnsLockInv'
    BY <1>5 DEF TunnelInv, DnsLockInv
  <2>6. RouteInv'
    <3>1. RouteInv
      BY DEF TunnelInv
    <3>2. ~ (task'.err.at = "exec" /\ child'["err"].exit = "ok")
      BY <1>5, NoneFacts
    <3> QED BY <1>1, <1>5, <3>1, <3>2 DEF RouteInv
  <2>7. OwedInv'
    <3>1. StartOwes' = StartOwes /\ ErrOwes = {}
          /\ ErrOwes' = (IF at = "read" THEN {} ELSE {a})
      BY <1>1, <1>5 DEF StartOwes, ErrOwes
    <3> QED BY <1>1, <1>2, <1>3, <1>5, <3>1 DEF TunnelInv, OwedInv
  <2>8. StageInv'
    <3>1. task.start.at # "bootstrap"
      BY <1>1, <1>2 DEF TunnelInv, StageInv
    <3> QED BY <1>1, <1>2, <1>3, <1>5, <3>1 DEF TunnelInv, StageInv
  <2>9. FirstDnsInv' /\ LastDnsInv'
    BY <1>1, <1>3, <1>5 DEF TunnelInv, FirstDnsInv, LastDnsInv
  <2>10. LateInv'
    BY <1>1, <1>2, <1>3, <2>1, <2>3, LiveLate
  <2> QED BY <2>1, <2>2, <2>3, <2>4, <2>5, <2>6, <2>7, <2>8, <2>9, <2>10 DEF TunnelInv
<1>6. CASE rm.lock # None
  <2>1. task' = [task EXCEPT !.err = [at |-> "lock", addr |-> a]] /\ rm' = rm /\ child' = child
    BY <1>6 DEF PumpTurn
  <2>2. /\ TaskType' /\ task'.start = task.start /\ task'.out = task.out /\ task'.err.at = "lock"
        /\ task'.err.addr = a
    BY <1>t, <2>1 DEF TaskType, ErrTasks
  <2>3. ChildType' /\ rm' \in Rms
    BY <1>t, <2>1 DEF ChildType
  <2> QED BY <1>4, <1>5, <2>1, <2>2, <2>3
<1>7. CASE rm.lock = None /\ Worthwhile(rm, a)
  <2>1. /\ task' = [task EXCEPT !.err = [at |-> "exec", addr |-> a]]
        /\ child' = [child EXCEPT !["err"] = Exec("bypass", a)]
        /\ rm' = [rm EXCEPT !.lock = "err"]
    BY <1>7 DEF PumpTurn
  <2>2. /\ TaskType' /\ task'.start = task.start /\ task'.out = task.out /\ task'.err.at = "exec"
        /\ task'.err.addr = a
    BY <1>t, <2>1 DEF TaskType, ErrTasks
  <2> DEFINE e == Exec("bypass", a)
  <2>3. e \in Commands /\ e # None /\ e.cmd = "bypass" /\ e.arg = a /\ e.exit = None
    BY ExecFacts
  <2> HIDE DEF e
  <2>4. /\ ChildType' /\ child'["err"] = e /\ child'["start"] = child["start"]
        /\ child'["out"] = child["out"]
    BY <1>t, <2>1, <2>3 DEF ChildType, Tasks, e
  <2>5. /\ rm' \in Rms /\ rm'.gateway = rm.gateway /\ rm'.bypass = rm.bypass
        /\ rm'.dnsLock = rm.dnsLock /\ rm'.lock = "err"
    BY <1>t, <2>1 DEF Rms
  <2>6. rm.gateway
    BY <1>7 DEF Worthwhile
  <2> QED BY <1>5, <1>7, <2>2, <2>3, <2>4, <2>5, <2>6
<1>8. CASE rm.lock = None /\ ~ Worthwhile(rm, a)
  <2>1. task' = task /\ rm' = rm /\ child' = child
    BY <1>8 DEF PumpTurn
  <2>2. TaskType' /\ ChildType' /\ rm' \in Rms /\ task'.err.at = "read"
    BY <1>t, <1>1, <2>1 DEF TaskType, ChildType
  <2>3. rm.gateway => a \in rm.bypass
    BY <1>8 DEF Worthwhile
  <2> QED BY <1>4, <1>5, <2>1, <2>2, <2>3
<1> QED BY <1>6, <1>7, <1>8

LEMMA PumpEndsStep ==
  ASSUME TunnelInv, PumpEnds
  PROVE  TunnelInv'
<1>t. Types /\ TaskType /\ ChildType
  BY DEF TunnelInv, Types
<1>1. /\ Free /\ app' = app /\ ctl' = ctl /\ rm' = rm /\ child' = child /\ sys' = sys /\ past' = past
      /\ \/ task.err.at = "read" /\ task' = [task EXCEPT !.err.at = "off"]
         \/ task.out.at = "read" /\ task' = [task EXCEPT !.out.at = "off"]
  BY DEF PumpEnds
<1>2. ctl.cts /\ ~ Stopped /\ app.at = "free" /\ \A u \in Tasks : Waits(u)
  BY <1>1, ActiveFacts
<1>3. CASE task.err.at = "read" /\ task' = [task EXCEPT !.err.at = "off"]
  <2>1. /\ TaskType' /\ task'.start = task.start /\ task'.out = task.out /\ task'.err.at = "off"
    BY <1>t, <1>3 DEF TaskType, ErrTasks
  <2>2. Types' /\ ModeInv'
    BY <1>t, <1>1, <1>2, <2>1 DEF Types, ChildType, TunnelInv, ModeInv, Stopped
  <2>3. ChildInv'
    <3>1. Waits("err")'
      BY <1>1, <1>2, <1>3, <2>1 DEF Waits, CommandAt, Tasks
    <3>2. Waits("start")' /\ Waits("out")'
      BY <1>1, <1>2, <2>1 DEF Waits, Tasks
    <3>3. \A u \in Tasks : Waits(u)'
      BY <3>1, <3>2 DEF Tasks
    <3>4. child["err"] = None
      BY <1>2, <1>3 DEF Waits, CommandAt, Tasks
    <3> QED BY <1>1, <2>1, <3>3, <3>4 DEF TunnelInv, ChildInv, Tasks
  <2>4. LockInv' /\ DnsLockInv'
    BY <1>1, <1>3, <2>1 DEF TunnelInv, LockInv, DnsLockInv
  <2>5. RouteInv'
    BY <1>1, <1>3, <2>1 DEF TunnelInv, RouteInv
  <2>6. OwedInv'
    <3>1. StartOwes' = StartOwes /\ ErrOwes = {} /\ ErrOwes' = {}
      BY <1>3, <2>1 DEF StartOwes, ErrOwes
    <3> QED BY <1>1, <2>1, <3>1 DEF TunnelInv, OwedInv
  <2>7. StageInv' /\ FirstDnsInv' /\ LastDnsInv'
    BY <1>1, <2>1 DEF TunnelInv, StageInv, FirstDnsInv, LastDnsInv
  <2>8. LateInv'
    BY <1>1, <1>2, <2>2, <2>3, LiveLate
  <2> QED BY <2>2, <2>3, <2>4, <2>5, <2>6, <2>7, <2>8 DEF TunnelInv
<1>4. CASE task.out.at = "read" /\ task' = [task EXCEPT !.out.at = "off"]
  <2>1. /\ TaskType' /\ task'.start = task.start /\ task'.err = task.err /\ task'.out.at = "off"
    BY <1>t, <1>4 DEF TaskType, OutTasks
  <2>2. child'["out"] = None
    BY <1>1, <1>2, <1>4 DEF Waits, CommandAt, Tasks
  <2>3. StageInv'
    BY <1>1, <2>1 DEF TunnelInv, StageInv
  <2>4. DnsLockInv'
    BY <1>1, <1>4, <2>1 DEF TunnelInv, DnsLockInv
  <2>5. LastDnsInv'
    BY <1>1, <1>4, <2>1 DEF TunnelInv, LastDnsInv
  <2>6. ChildType' /\ task'.out.at # "dnsExec"
    BY <1>t, <1>1, <2>1 DEF ChildType
  <2> QED BY <1>t, <1>1, <1>2, <2>1, <2>2, <2>3, <2>4, <2>5, <2>6, OutFrame DEF Types
<1> QED BY <1>1, <1>3, <1>4

-----------------------------------------------------------------------------
(* The theorems.                                                           *)

LEMMA TunnelStep ==
  ASSUME TunnelInv, [Next]_vars
  PROVE  TunnelInv'
<1>1. CASE UNCHANGED vars
  BY <1>1, FrameStep DEF vars
<1>2. CASE StartAsync
  BY <1>2, BeginStep
<1>3. CASE Disconnect \/ FormClosing
  BY <1>3, StopStep DEF Disconnect, FormClosing
<1>4. CASE Stopping
  BY <1>4, DisposeStep
<1>5. CASE Starting
  BY <1>5, BootstrapStep, ConfigStep, SnapshotStep, ResolvedStep, CommandDoneStep,
     CommandFailedStep, ConfiguredStep DEF Starting
<1>6. CASE Bypassing
  BY <1>6, BypassStep DEF Bypassing
<1>7. CASE Updating
  BY <1>7, StartDnsStep, OutDnsStep DEF Updating
<1>8. CASE Reading
  BY <1>8, PumpTurnStep, PumpConfStep, PumpEndsStep DEF Reading
<1>9. CASE Carrying
  BY <1>9, CarryStep
<1>10. CASE CoreExits \/ \E t \in Tasks : ChildExits(t)
  BY <1>10, CoreExitStep, ChildStep
<1>11. CASE \E c \in sys.stray : StrayEnds(c)
  BY <1>11, StrayStep
<1> QED BY <1>1, <1>2, <1>3, <1>4, <1>5, <1>6, <1>7, <1>8, <1>9, <1>10, <1>11 DEF Next

\* The invariant above holds in every state: whatever the order in which the
\* system commands end, the readers read, and the form starts and stops.
THEOREM TunnelCorrect == Spec => []TunnelInv
<1>1. Init => TunnelInv
  BY TunnelInit
<1>2. TunnelInv /\ [Next]_vars => TunnelInv'
  BY TunnelStep
<1> QED BY <1>1, <1>2, PTL DEF Spec

\* StartAsync, ConfigureAsync and TryAddTransportBypassAsync keep the transport
\* out of the tunnel: the default route comes after the routes of the known
\* hosts, and once connected every address PumpLogs has seen has its route,
\* unless route.exe refused it or an earlier stop could not delete its route
\* in time.
THEOREM TransportStaysOutside == Spec => []TransportOutside
<1>1. TunnelInv => TransportOutside
  <2> SUFFICES ASSUME TunnelInv PROVE TransportOutside
    OBVIOUS
  <2>t. TaskType /\ app \in Apps /\ rm \in Rms
    BY DEF TunnelInv, Types
  <2>1. TypeOK
    <3>1. rm.lock # None => task[rm.lock].at \in {"lock", "exec"}
      BY <2>t DEF TunnelInv, LockInv, Rms
    <3>2. rm.dnsLock # None => task[rm.dnsLock].at \in {"dnsLock", "dnsExec"}
      BY <2>t DEF TunnelInv, DnsLockInv, Rms
    <3> QED BY <2>t, <3>1, <3>2 DEF TypeOK, TaskType, StartTasks, ErrTasks, OutTasks, Apps
  <2>2. rm.bypass \subseteq sys.bypass \cup past.kept
    BY DEF TunnelInv, RouteInv
  <2>3. ctl.cts /\ sys.default => Hosts \subseteq sys.bypass \cup past.kept
    BY <2>2 DEF TunnelInv, OwedInv
  <2>4. ASSUME app.connected, Quiet
        PROVE  Hosts \cup ctl.seen \subseteq sys.bypass \cup past.refused \cup past.kept
    <3>1. ctl.cts
      BY <2>4 DEF Quiet, Free, TunnelInv, ModeInv, Stopped
    <3>2. StartOwes = {} /\ ErrOwes = {} /\ task.start.at \notin Early
      BY <2>4 DEF Quiet, StartOwes, ErrOwes, Early
    <3> QED BY <2>2, <3>1, <3>2 DEF TunnelInv, OwedInv
  <2> QED BY <2>1, <2>3, <2>4 DEF TransportOutside
<1> QED BY <1>1, TunnelCorrect, PTL

\* ApplyLatestDnsAsync leaves the DNS of the last TUNCONF on the adapter, if
\* netsh did not fail, none of an earlier run was late, and the server did not
\* go back to an earlier value.
THEOREM LatestDnsWins == Spec => []DnsLatest
<1>1. TunnelInv => DnsLatest
  <2> SUFFICES ASSUME TunnelInv, app.connected, Quiet, ~ past.lostDns, ~ past.repeated
               PROVE  sys.dns = ctl.latest
    BY DEF DnsLatest
  <2>1. ctl.cts
    BY DEF Quiet, Free, TunnelInv, ModeInv, Stopped
  <2>2. ctl.routesReady
    BY <2>1 DEF Quiet, TunnelInv, StageInv, Before, Early
  <2> QED BY <2>1, <2>2 DEF Quiet, TunnelInv, LastDnsInv
<1> QED BY <1>1, TunnelCorrect, PTL

\* After StopAsync and RouteManager.Dispose, and after a failed StartAsync,
\* the default route and the adapter are gone, client.exe is not running
\* unless stopping it threw, and no host route is left but those whose quiet
\* deletion did not go through, although commands that were running may still
\* have ended since.
THEOREM StopLeavesNothing == Spec => []CleanAfterStop
<1>1. TunnelInv => CleanAfterStop
  BY DEF CleanAfterStop, TunnelInv, ModeInv, Stopped
<1> QED BY <1>1, TunnelCorrect, PTL

=============================================================================
