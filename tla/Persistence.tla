---------------------------- MODULE Persistence -----------------------------
(***************************************************************************)
(* The server's database persistence (rust-server/model.rs): the queue of  *)
(* snapshots and traffic updates, the writer thread csqtt-db-writer, the   *)
(* panel handlers that wait for their revision, the traffic flushes of the *)
(* session janitor and of the shutdown, failed writes, and the death and   *)
(* restart of the process at any point.                                    *)
(*                                                                         *)
(* A database is what a restart must bring back: the clients, each with    *)
(* one switch standing for its settings, and each client's traffic         *)
(* counter.  What the handlers do after their wait (drop sessions, publish *)
(* credentials) touches nothing here; module DeviceControl models it.      *)
(***************************************************************************)
EXTENDS Naturals, Sequences, FiniteSets

CONSTANTS
    Passwords,     \* client passwords
    Existing,      \* the clients the database holds at first
    Requests,      \* panel requests that may be in progress at one time
    MaxVersion,    \* bound: contents memory may hold before a restart
    MaxBytes,      \* bound: traffic counter of a client
    MaxFailures,   \* bound: failed writes
    MaxRestarts    \* bound: deaths of the process

ASSUME BoundsAssumption ==
    /\ Existing \subseteq Passwords
    /\ MaxVersion \in Nat \ {0} /\ MaxBytes \in Nat
    /\ MaxFailures \in Nat /\ MaxRestarts \in Nat

VARIABLES
    db,          \* App.db: [ver, clients, bytes]; ver is its place in history
    disk,        \* the SQLite file, same shape
    history,     \* ghost: the clients that every version held
    nextRev, processed, successful, pending,   \* PersistenceQueue
    writer,      \* the writer thread: [at, job]
    request,     \* panel handlers: [at, rev, ver, woken]
    captured,    \* traffic read by a flush and not yet submitted
    stopping,    \* the shutdown of main: "no", "flush" (begun), "save" (last snapshot queued)
    acked,       \* ghost: versions a handler answered with success
    failed,      \* ghost: versions of snapshots whose write failed
    lossy,       \* ghost: a write failed, or a change was not submitted, since the
                 \* last snapshot of the present version was written
    crossed,     \* ghost: clients whose counter two flushes held at one time
    failures, restarts

queueVars == <<nextRev, processed, successful, pending>>
ghostVars == <<acked, failed, lossy, crossed, failures>>
vars == <<db, disk, history, queueVars, writer, request, captured, stopping, ghostVars, restarts>>

-----------------------------------------------------------------------------
\* The two callers of flush_traffic: nothing orders one before the other.
Flushers == {"janitor", "shutdown"}

NoTraffic == [p \in {} |-> 0]
NoJob == [kind |-> "none", rev |-> 0, ver |-> 0, clients |-> NoTraffic, bytes |-> NoTraffic]
Snapshot(rev, d) ==
    [kind |-> "snapshot", rev |-> rev, ver |-> d.ver, clients |-> d.clients, bytes |-> d.bytes]
Traffic(rev, t) ==
    [kind |-> "traffic", rev |-> rev, ver |-> 0, clients |-> NoTraffic, bytes |-> t]

\* Right-biased union: the entries of newer replace those of older.
Overlay(older, newer) ==
    [p \in DOMAIN older \cup DOMAIN newer |->
        IF p \in DOMAIN newer THEN newer[p] ELSE older[p]]

\* TrafficSnapshot::merge_from
merge_from(t, newer) == Overlay(t, newer)

Idle == [at |-> "idle", rev |-> 0, ver |-> 0, woken |-> FALSE]

Init ==
    /\ db = [ver |-> 1, clients |-> [p \in Existing |-> TRUE], bytes |-> [p \in Existing |-> 0]]
    /\ disk = db
    /\ history = <<db.clients>>
    /\ nextRev = 0 /\ processed = 0 /\ successful = 0
    /\ pending = <<>>
    /\ writer = [at |-> "idle", job |-> NoJob]
    /\ request = [r \in Requests |-> Idle]
    /\ captured = [f \in Flushers |-> NoTraffic]
    /\ stopping = "no"
    /\ acked = {} /\ failed = {} /\ lossy = FALSE /\ crossed = {}
    /\ failures = 0 /\ restarts = 0

-----------------------------------------------------------------------------
(* The queue, under the persistence mutex.                                 *)

\* A snapshot contains every earlier change, so it supersedes the queue.
submit_snapshot(d) ==
    /\ nextRev' = nextRev + 1
    /\ pending' = <<Snapshot(nextRev + 1, d)>>
    /\ UNCHANGED <<processed, successful>>

\* Mutant: every flush takes a place of its own in the queue.
TrafficNotMerged(t) ==
    /\ nextRev' = nextRev + 1
    /\ pending' = Append(pending, Traffic(nextRev + 1, t))
    /\ UNCHANGED <<processed, successful>>

\* Mutant: traffic behind a queued snapshot is taken to be part of it.
TrafficSwallowed(t) ==
    /\ nextRev' = nextRev + 1
    /\ pending' = IF pending # <<>> THEN pending ELSE <<Traffic(nextRev + 1, t)>>
    /\ UNCHANGED <<processed, successful>>

\* Traffic merges into traffic at the tail, which takes the new revision.
submit_traffic(t) ==
    /\ nextRev' = nextRev + 1
    /\ pending' =
        LET n == Len(pending) IN
        IF n > 0 /\ pending[n].kind = "traffic"
        THEN [pending EXCEPT ![n] = Traffic(nextRev + 1, merge_from(@.bytes, t))]
        ELSE Append(pending, Traffic(nextRev + 1, t))
    /\ UNCHANGED <<processed, successful>>

\* A change of the clients under the write lock of App.db.
Change(clients) ==
    /\ db.ver < MaxVersion
    /\ db' = [ver |-> db.ver + 1, clients |-> clients,
              bytes |-> [p \in DOMAIN clients |-> IF p \in DOMAIN db.bytes THEN db.bytes[p] ELSE 0]]
    /\ history' = Append(history, clients)

\* The change and its snapshot, still under the lock.
Mutate(clients) == Change(clients) /\ submit_snapshot(db')

\* The handler goes on to wait for the revision it was given.
AwaitRevision(r) ==
    request' = [request EXCEPT ![r] = [at |-> "register", rev |-> nextRev', ver |-> db'.ver, woken |-> FALSE]]

Free(r) == request[r].at \in {"idle", "ok", "failed", "late"}
Unused == {p \in Passwords : \A v \in DOMAIN history : p \notin DOMAIN history[v]}
Without(S) == [q \in DOMAIN db.clients \ S |-> db.clients[q]]

\* clients_create forgets the expired clients and adds one under a password
\* that was never used before (it is random).
clients_create(r) ==
    /\ Free(r)
    /\ \E p \in Unused, expired \in SUBSET DOMAIN db.clients :
          Mutate(Overlay(Without(expired), [q \in {p} |-> TRUE]))
    /\ AwaitRevision(r)
    /\ UNCHANGED <<disk, writer, captured, stopping, ghostVars, restarts>>

\* The same at MAX_PASSWORDS (clients outside this instance may fill the
\* table at any time): the expired are forgotten and nothing is submitted.
clients_create_refused(r) ==
    /\ Free(r)
    /\ \E expired \in SUBSET DOMAIN db.clients \ {{}} : Change(Without(expired))
    /\ lossy' = TRUE
    /\ UNCHANGED <<disk, queueVars, writer, request, captured, stopping, acked, failed, crossed, failures, restarts>>

\* client_update, client_toggle, client_unbind: an existing entry changes.
client_edit(r) ==
    /\ Free(r)
    /\ \E p \in DOMAIN db.clients : Mutate([db.clients EXCEPT ![p] = ~ @])
    /\ AwaitRevision(r)
    /\ UNCHANGED <<disk, writer, captured, stopping, ghostVars, restarts>>

client_delete(r) ==
    /\ Free(r)
    /\ \E p \in DOMAIN db.clients : Mutate(Without({p}))
    /\ AwaitRevision(r)
    /\ UNCHANGED <<disk, writer, captured, stopping, ghostVars, restarts>>

\* Nobody waits for the snapshot that drops an expired password.
password_janitor ==
    /\ \E p \in DOMAIN db.clients : Mutate(Without({p}))
    /\ UNCHANGED <<disk, writer, request, captured, stopping, ghostVars, restarts>>

\* handle_getconf binds a device to a password; nobody waits either.
getconf_bind ==
    /\ \E p \in DOMAIN db.clients : Mutate([db.clients EXCEPT ![p] = ~ @])
    /\ UNCHANGED <<disk, writer, request, captured, stopping, ghostVars, restarts>>

\* flush_traffic up to drop(db): counters are added up under the lock, and
\* the absolute values are kept for the queue.  The shutdown flushes once.
flush_capture(f) ==
    /\ captured[f] = NoTraffic
    /\ stopping' = IF f = "shutdown" THEN "flush" ELSE stopping
    /\ f = "shutdown" => stopping = "no"
    /\ \E S \in SUBSET {p \in DOMAIN db.bytes : db.bytes[p] < MaxBytes} \ {{}} :
        LET t == [p \in S |-> db.bytes[p] + 1] IN
        /\ db' = [db EXCEPT !.bytes = Overlay(@, t)]
        /\ captured' = [captured EXCEPT ![f] = t]
        /\ crossed' = crossed \cup {p \in S : \E g \in Flushers : p \in DOMAIN captured[g]}
    /\ UNCHANGED <<disk, history, queueVars, writer, request, acked, failed, lossy, failures, restarts>>

\* flush_traffic after drop(db): the captured values enter the queue.
flush_submit(f) ==
    /\ captured[f] # NoTraffic
    /\ submit_traffic(captured[f])
    /\ captured' = [captured EXCEPT ![f] = NoTraffic]
    /\ UNCHANGED <<db, disk, history, writer, request, stopping, ghostVars, restarts>>

\* After its flush the shutdown submits the whole database once more; the
\* content, though the same, counts as a version of its own.
shutdown_save ==
    /\ stopping # "save" /\ captured["shutdown"] = NoTraffic
    /\ stopping' = "save"
    /\ Mutate(db.clients)
    /\ UNCHANGED <<disk, writer, request, captured, ghostVars, restarts>>

-----------------------------------------------------------------------------
(* The writer thread.                                                      *)

take_pending ==
    /\ writer.at = "idle"
    /\ pending # <<>>
    /\ writer' = [at |-> "taken", job |-> Head(pending)]
    /\ pending' = Tail(pending)
    /\ UNCHANGED <<db, disk, history, nextRev, processed, successful, request,
                   captured, stopping, ghostVars, restarts>>

\* Mutant: an upsert instead of an update.
TrafficUpserted(d, t) ==
    [d EXCEPT !.bytes = Overlay(@, t), !.clients = Overlay([p \in DOMAIN t |-> TRUE], @)]

\* write_traffic updates existing rows; a missing row is left missing.
write_traffic(d, t) ==
    [d EXCEPT !.bytes = [p \in DOMAIN @ |-> IF p \in DOMAIN t THEN t[p] ELSE @[p]]]

\* Mutant: rows are replaced without their counters.
SnapshotWithoutCounters(job) ==
    [ver |-> job.ver, clients |-> job.clients, bytes |-> [p \in DOMAIN job.clients |-> 0]]

\* write_database_snapshot replaces the whole content.
write_database_snapshot(job) == [ver |-> job.ver, clients |-> job.clients, bytes |-> job.bytes]

\* persist_database_update commits its SQLite transaction.
persist_commit ==
    /\ writer.at = "taken"
    /\ disk' = IF writer.job.kind = "snapshot" THEN write_database_snapshot(writer.job)
                                               ELSE write_traffic(disk, writer.job.bytes)
    /\ lossy' = (lossy /\ ~ (writer.job.kind = "snapshot" /\ writer.job.ver = db.ver))
    /\ writer' = [writer EXCEPT !.at = "committed"]
    /\ UNCHANGED <<db, history, queueVars, request, captured, stopping, acked, failed, crossed, failures, restarts>>

\* persist_database_update fails and leaves the file as it was.
persist_fail ==
    /\ writer.at = "taken"
    /\ failures < MaxFailures
    /\ failures' = failures + 1
    /\ lossy' = TRUE
    /\ failed' = IF writer.job.kind = "snapshot" THEN failed \cup {writer.job.ver} ELSE failed
    /\ writer' = [writer EXCEPT !.at = "rejected"]
    /\ UNCHANGED <<db, disk, history, queueVars, request, captured, stopping, acked, crossed, restarts>>

\* Mutant: the newest revision is completed, not the one written.
CompleteNewest ==
    /\ writer.at \in {"committed", "rejected"}
    /\ processed' = nextRev
    /\ successful' = IF writer.at = "committed" THEN nextRev ELSE successful
    /\ writer' = [at |-> "notify", job |-> NoJob]
    /\ UNCHANGED <<db, disk, history, nextRev, pending, request, captured, stopping, ghostVars, restarts>>

\* PersistenceQueue::complete, under the mutex.
complete ==
    /\ writer.at \in {"committed", "rejected"}
    /\ processed' = IF writer.job.rev >= processed THEN writer.job.rev ELSE processed
    /\ successful' = IF writer.at = "committed" /\ writer.job.rev >= successful
                     THEN writer.job.rev ELSE successful
    /\ writer' = [at |-> "notify", job |-> NoJob]
    /\ UNCHANGED <<db, disk, history, nextRev, pending, request, captured, stopping, ghostVars, restarts>>

\* Mutant: only a future that was polled hears the notification.
NotifyParked ==
    /\ writer.at = "notify"
    /\ writer' = [writer EXCEPT !.at = "idle"]
    /\ request' = [r \in Requests |->
                    [request[r] EXCEPT !.woken = (@ \/ request[r].at = "park")]]
    /\ UNCHANGED <<db, disk, history, queueVars, captured, stopping, ghostVars, restarts>>

\* notify_waiters wakes every future that exists, polled or not.
notify_waiters ==
    /\ writer.at = "notify"
    /\ writer' = [writer EXCEPT !.at = "idle"]
    /\ request' = [r \in Requests |->
                    [request[r] EXCEPT !.woken = (@ \/ request[r].at \in {"check", "await", "park"})]]
    /\ UNCHANGED <<db, disk, history, queueVars, captured, stopping, ghostVars, restarts>>

-----------------------------------------------------------------------------
(* DatabasePersistence::wait and wait_for_persistence.                     *)

\* The future is created before the revisions are read.
wait_register(r) ==
    /\ request[r].at = "register"
    /\ request' = [request EXCEPT ![r].at = "check", ![r].woken = FALSE]
    /\ UNCHANGED <<db, disk, history, queueVars, writer, captured, stopping, ghostVars, restarts>>

Answer(r, how) == request' = [request EXCEPT ![r] = [Idle EXCEPT !.at = how]]

wait_check(r) ==
    /\ request[r].at = "check"
    /\ \/ /\ successful >= request[r].rev
          /\ Answer(r, "ok")
          /\ acked' = acked \cup {request[r].ver}
       \/ /\ successful < request[r].rev /\ processed >= request[r].rev
          /\ Answer(r, "failed")
          /\ UNCHANGED acked
       \/ /\ successful < request[r].rev /\ processed < request[r].rev
          /\ request' = [request EXCEPT ![r].at = "await"]
          /\ UNCHANGED acked
    /\ UNCHANGED <<db, disk, history, queueVars, writer, captured, stopping, failed, lossy, crossed, failures, restarts>>

\* notified.await: the first poll may already find the notification.
wait_poll(r) ==
    /\ request[r].at = "await"
    /\ request' = [request EXCEPT ![r].at = IF request[r].woken THEN "register" ELSE "park"]
    /\ UNCHANGED <<db, disk, history, queueVars, writer, captured, stopping, ghostVars, restarts>>

wait_woken(r) ==
    /\ request[r].at = "park" /\ request[r].woken
    /\ request' = [request EXCEPT ![r].at = "register"]
    /\ UNCHANGED <<db, disk, history, queueVars, writer, captured, stopping, ghostVars, restarts>>

\* The 15 s timeout of the panel answers 504.
wait_timeout(r) ==
    /\ request[r].at = "park"
    /\ Answer(r, "late")
    /\ UNCHANGED <<db, disk, history, queueVars, writer, captured, stopping, ghostVars, restarts>>

-----------------------------------------------------------------------------
\* The process dies and load_database reads the file; a transaction in
\* progress is rolled back (persist_commit had not happened) or kept.  The
\* start-up's save_database writes back what was read.
Restart ==
    /\ restarts < MaxRestarts
    /\ restarts' = restarts + 1
    /\ db' = disk
    /\ history' = SubSeq(history, 1, disk.ver)
    /\ nextRev' = 0 /\ processed' = 0 /\ successful' = 0 /\ pending' = <<>>
    /\ writer' = [at |-> "idle", job |-> NoJob]
    /\ request' = [r \in Requests |-> Idle]
    /\ captured' = [f \in Flushers |-> NoTraffic]
    /\ stopping' = "no"
    /\ acked' = {} /\ failed' = {} /\ lossy' = FALSE /\ crossed' = {}
    /\ UNCHANGED <<disk, failures>>

Worker == take_pending \/ persist_commit \/ persist_fail \/ complete \/ notify_waiters
Handler(r) == wait_register(r) \/ wait_check(r) \/ wait_poll(r) \/ wait_woken(r)

Next ==
    \/ \E r \in Requests : clients_create(r) \/ clients_create_refused(r) \/ client_edit(r) \/ client_delete(r)
    \/ password_janitor \/ getconf_bind
    \/ \E f \in Flushers : flush_capture(f) \/ flush_submit(f)
    \/ shutdown_save
    \/ Worker
    \/ \E r \in Requests : Handler(r) \/ wait_timeout(r)
    \/ Restart

Spec == Init /\ [][Next]_vars

\* The writer thread loops for ever and a woken handler is polled again;
\* nothing makes a write fail, a timer fire or the process die.
Fairness ==
    /\ WF_vars(Worker)
    /\ \A r \in Requests : WF_vars(Handler(r))

FairSpec == Spec /\ Fairness

-----------------------------------------------------------------------------
Contents == UNION {[S -> BOOLEAN] : S \in SUBSET Passwords}
Counters == UNION {[S -> 0 .. MaxBytes] : S \in SUBSET Passwords}
Databases == [ver : 1 .. MaxVersion, clients : Contents, bytes : Counters]
Jobs == [kind : {"none", "snapshot", "traffic"}, rev : Nat, ver : 0 .. MaxVersion,
         clients : Contents, bytes : Counters]

\* The types of the variables: the queue holds whole snapshots and partial
\* traffic updates, a handler is at one of the points of wait.
TypeOK ==
    /\ db \in Databases /\ disk \in Databases
    /\ history \in Seq(Contents) /\ Len(history) = db.ver
    /\ nextRev \in Nat /\ processed \in Nat /\ successful \in Nat
    /\ pending \in Seq(Jobs)
    /\ writer \in [at : {"idle", "taken", "committed", "rejected", "notify"}, job : Jobs]
    /\ request \in [Requests -> [at : {"idle", "register", "check", "await", "park", "ok", "failed", "late"},
                                 rev : Nat, ver : 0 .. MaxVersion, woken : BOOLEAN]]
    /\ captured \in [Flushers -> Counters] /\ stopping \in {"no", "flush", "save"}
    /\ acked \subseteq 1 .. MaxVersion /\ failed \subseteq 1 .. MaxVersion
    /\ crossed \subseteq Passwords
    /\ lossy \in BOOLEAN /\ failures \in Nat /\ restarts \in Nat

\* However slow the disk, the queue keeps at most one snapshot and, behind
\* it, one merged traffic update (the comments of submit_snapshot and
\* submit_traffic promise bounded memory).
QueueBounded ==
    /\ TypeOK
    /\ Len(pending) <= 2
    /\ \A i \in DOMAIN pending : pending[i].kind = "snapshot" => i = 1

\* A change the panel reported as saved is on disk, so that a restart keeps
\* it, unless the write of a snapshot that contained it failed.
AckedUnlessFailed ==
    \A v \in acked : disk.ver >= v \/ \E f \in failed : f >= v

\* The same without the exception, as the comment of wait_for_persistence
\* has it: no success that vanishes on the next restart.
AckedDurable == \A v \in acked : disk.ver >= v

\* The writer has nothing left to do, no flush is half-way, and no write was
\* lost or never submitted.
Drained ==
    /\ pending = <<>> /\ writer.at \in {"idle", "notify"} /\ ~ lossy
    /\ \A f \in Flushers : captured[f] = NoTraffic

\* When all work is drained, the disk is the database in memory: superseding
\* and merging queued work forgets nothing.  Excused are the counters that the
\* janitor's flush and the shutdown's held at one time (flush_traffic queues
\* after drop(db), so the older value may be queued last).
CaughtUp ==
    Drained =>
        /\ disk.ver = db.ver /\ disk.clients = db.clients /\ DOMAIN disk.bytes = DOMAIN db.bytes
        /\ \A p \in DOMAIN db.bytes \ crossed : disk.bytes[p] = db.bytes[p]

\* A counter on disk does not run backwards, although a flush reads it under
\* the lock and queues it after a snapshot, or the other flush of the process,
\* may have overtaken it; excused as above are the counters that two flushes
\* held at one time.
CountersForward ==
    [][\A p \in (DOMAIN disk.bytes \cap DOMAIN disk'.bytes) \ crossed :
          disk'.bytes[p] >= disk.bytes[p]]_vars

\* The same of every counter, as the comment of TrafficCounters has it: flushes
\* may be coalesced without losing a counter increment.
NoIncrementLost ==
    Drained => \A p \in DOMAIN disk.bytes \cap DOMAIN db.bytes : disk.bytes[p] = db.bytes[p]

\* The detailed machine implements DurableStore: the disk always holds a
\* whole content of the history, only moves forward in it, and a late
\* traffic update never brings back a deleted client.
Store == INSTANCE DurableStore WITH durable <- disk.ver, stored <- disk.clients
ImplementsStore == Store!Spec

\* Every handler that waits gets an answer: no wake-up of notify_waiters is
\* lost between the check and the await.
AnswerComes ==
    \A r \in Requests :
        request[r].at = "register" ~> request[r].at \in {"ok", "failed", "late", "idle"}
=============================================================================
