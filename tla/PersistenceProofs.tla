-------------------------- MODULE PersistenceProofs --------------------------
(***************************************************************************)
(* The safety properties of Persistence for any clients, requests, bounds, *)
(* failures and restarts.                                                  *)
(***************************************************************************)
EXTENDS Persistence, TLAPS

(* A content is a Boolean function on some of the passwords.               *)
LEMMA ContentsFun ==
  \A c : c \in Contents <=> DOMAIN c \subseteq Passwords /\ c \in [DOMAIN c -> BOOLEAN]
BY Zenon DEF Contents

(* Counters are a numeric function on some of the passwords.               *)
LEMMA CountersFun ==
  \A c : c \in Counters <=> DOMAIN c \subseteq Passwords /\ c \in [DOMAIN c -> 0 .. MaxBytes]
BY Zenon DEF Counters

(* Counters laid over counters are counters.                               *)
LEMMA OverlayCounters ==
  ASSUME NEW s \in Counters, NEW t \in Counters
  PROVE  /\ Overlay(s, t) \in Counters
         /\ DOMAIN Overlay(s, t) = DOMAIN s \cup DOMAIN t
         /\ \A p \in DOMAIN t : Overlay(s, t)[p] = t[p]
         /\ \A p \in DOMAIN s \ DOMAIN t : Overlay(s, t)[p] = s[p]
<1>1. DOMAIN Overlay(s, t) = DOMAIN s \cup DOMAIN t
  BY DEF Overlay
<1>2. DOMAIN Overlay(s, t) \subseteq Passwords
  BY <1>1, CountersFun
<1>3. \A p \in DOMAIN Overlay(s, t) :
         /\ Overlay(s, t)[p] = IF p \in DOMAIN t THEN t[p] ELSE s[p]
         /\ Overlay(s, t)[p] \in 0 .. MaxBytes
  BY <1>1, CountersFun DEF Overlay
<1>4. Overlay(s, t) \in [DOMAIN Overlay(s, t) -> 0 .. MaxBytes]
  BY <1>3 DEF Overlay
<1> QED BY <1>1, <1>2, <1>3, <1>4, CountersFun

(* Forgetting clients leaves a content.                                    *)
LEMMA WithoutContents ==
  ASSUME TypeOK, NEW S
  PROVE  Without(S) \in Contents /\ DOMAIN Without(S) \subseteq DOMAIN db.clients
<1>1. db.clients \in Contents
  BY DEF TypeOK, Databases
<1>2. DOMAIN db.clients \subseteq Passwords /\ \A q \in DOMAIN db.clients : db.clients[q] \in BOOLEAN
  BY <1>1, ContentsFun, Zenon
<1>3. DOMAIN Without(S) = DOMAIN db.clients \ S
  BY DEF Without
<1>4. Without(S) \in [DOMAIN Without(S) -> BOOLEAN]
  BY <1>2, <1>3, Zenon DEF Without
<1> QED BY <1>2, <1>3, <1>4, ContentsFun, Zenon

(* Changing one entry of the clients leaves a content of the same clients. *)
LEMMA ToggleContents ==
  ASSUME TypeOK, NEW p \in DOMAIN db.clients
  PROVE  /\ [db.clients EXCEPT ![p] = ~ @] \in Contents
         /\ DOMAIN [db.clients EXCEPT ![p] = ~ @] = DOMAIN db.clients
<1>1. db.clients \in Contents
  BY DEF TypeOK, Databases
<1>2. DOMAIN db.clients \subseteq Passwords /\ db.clients \in [DOMAIN db.clients -> BOOLEAN]
  BY <1>1, ContentsFun, Zenon
<1>3. DOMAIN [db.clients EXCEPT ![p] = ~ @] = DOMAIN db.clients
  OBVIOUS
<1>4. [db.clients EXCEPT ![p] = ~ @] \in [DOMAIN db.clients -> BOOLEAN]
  BY <1>2, Zenon
<1> QED BY <1>2, <1>3, <1>4, ContentsFun, Zenon

(* A client added to what is left after the expired ones are forgotten.    *)
LEMMA CreateContents ==
  ASSUME TypeOK, NEW p \in Passwords, NEW S
  PROVE  LET c == Overlay(Without(S), [q \in {p} |-> TRUE]) IN
         c \in Contents /\ DOMAIN c \subseteq DOMAIN db.clients \cup {p}
<1> DEFINE one == [q \in {p} |-> TRUE]
           c == Overlay(Without(S), one)
<1>1. Without(S) \in Contents /\ DOMAIN Without(S) \subseteq DOMAIN db.clients
  BY WithoutContents, Zenon
<1>2. DOMAIN Without(S) \subseteq Passwords /\ \A q \in DOMAIN Without(S) : Without(S)[q] \in BOOLEAN
  BY <1>1, ContentsFun, Zenon
<1>3. DOMAIN one = {p} /\ \A q \in DOMAIN one : one[q] \in BOOLEAN
  BY Zenon
<1> HIDE DEF one
<1>4. DOMAIN c = DOMAIN Without(S) \cup DOMAIN one
  BY DEF Overlay
<1>5. \A q \in DOMAIN c : c[q] = IF q \in DOMAIN one THEN one[q] ELSE Without(S)[q]
  BY <1>4 DEF Overlay
<1>6. \A q \in DOMAIN c : c[q] \in BOOLEAN
  BY <1>2, <1>3, <1>4, <1>5, Zenon
<1>7. c \in [DOMAIN c -> BOOLEAN]
  <2>1. c = [q \in DOMAIN c |-> c[q]]
    BY <1>4 DEF Overlay
  <2> QED BY <1>6, <2>1, Zenon
<1>8. DOMAIN c \subseteq Passwords /\ DOMAIN c \subseteq DOMAIN db.clients \cup {p}
  BY <1>1, <1>2, <1>3, <1>4
<1> QED BY <1>7, <1>8, ContentsFun, Zenon DEF one

------------------------------------------------------------------------------
(* The inductive invariant of durability.                                  *)

Waiting(r) == request[r].at \in {"register", "check", "await", "park"}

\* A queued snapshot is the content that memory had at its version.
SnapshotOfHistory(job) ==
    /\ job.ver \in 1 .. db.ver
    /\ job.clients = history[job.ver]
    /\ DOMAIN job.bytes = DOMAIN job.clients

\* At most one snapshot waits, at the head, and one traffic update.
QueueShape ==
    /\ Len(pending) <= 2 /\ (Len(pending) = 2 => pending[1].kind = "snapshot")
    /\ \A i \in 1 .. Len(pending) :
          pending[i].kind \in {"snapshot", "traffic"} /\ (pending[i].kind = "snapshot" => i = 1)
    /\ writer.at \in {"taken", "committed", "rejected"} => writer.job.kind \in {"snapshot", "traffic"}
    /\ writer.at \in {"idle", "notify"} => writer.job = NoJob

\* The memory, the disk, the writer and the queue hold contents of the
\* history, each of them older than the next.
HistoryInv ==
    /\ db.clients = history[db.ver] /\ DOMAIN db.bytes = DOMAIN db.clients
    /\ disk.ver <= db.ver /\ disk.clients = history[disk.ver] /\ DOMAIN disk.bytes = DOMAIN disk.clients
    /\ writer.job.kind = "snapshot" =>
          /\ SnapshotOfHistory(writer.job)
          /\ writer.at = "taken" => disk.ver < writer.job.ver
    /\ \A i \in 1 .. Len(pending) : pending[i].kind = "snapshot" =>
          /\ SnapshotOfHistory(pending[i])
          /\ disk.ver < pending[i].ver
          /\ writer.job.kind = "snapshot" => writer.job.ver < pending[i].ver

\* A handler waits for a version that memory has had.
WaitInv == \A r \in Requests : Waiting(r) => request[r].ver \in 1 .. db.ver

DurableInv == TypeOK /\ QueueShape /\ HistoryInv /\ WaitInv

\* A version is on disk, or the write of a snapshot that contained it failed.
Settled(v) == disk.ver >= v \/ \E f \in failed : f >= v

\* A revision a handler waits for: settled, or in a snapshot that is being
\* written, or in one behind a job with a smaller revision.  In the last two
\* cases nothing this late has succeeded.
Covered(rev, v) ==
    \/ Settled(v)
    \/ /\ successful < rev
       /\ writer.at = "taken" /\ writer.job.kind = "snapshot" /\ writer.job.ver >= v
    \/ /\ successful < rev
       /\ Len(pending) > 0 /\ pending[1].kind = "snapshot" /\ pending[1].ver >= v
       /\ writer.job.rev < rev

RevisionInv ==
    /\ successful <= nextRev /\ writer.job.rev <= nextRev
    /\ \A i \in 1 .. Len(pending) : pending[i].rev <= nextRev
    /\ \A r \in Requests : Waiting(r) => request[r].rev >= 1 /\ Covered(request[r].rev, request[r].ver)

AckInv == DurableInv /\ RevisionInv /\ AckedUnlessFailed

\* Counters only grow from s to t, those of the clients in X apart.
Leq(X, s, t) == \A p \in (DOMAIN s \cap DOMAIN t) \ X : s[p] <= t[p]

EverUsed == {p \in Passwords : \E v \in DOMAIN history : p \in DOMAIN history[v]}

\* Counters are only about clients that have existed.
KnownInv ==
    /\ DOMAIN writer.job.bytes \subseteq EverUsed
    /\ \A i \in 1 .. Len(pending) : DOMAIN pending[i].bytes \subseteq EverUsed
    /\ \A f \in Flushers : DOMAIN captured[f] \subseteq EverUsed

\* Counters grow along the way from the disk through the writer, the queue
\* and the flushes to memory; the other flush cannot disturb a counter that
\* is not crossed.
ForwardInv ==
    /\ Leq(crossed, disk.bytes, writer.job.bytes) /\ Leq(crossed, disk.bytes, db.bytes) /\ Leq(crossed, writer.job.bytes, db.bytes)
    /\ \A i \in 1 .. Len(pending) :
          /\ Leq(crossed, disk.bytes, pending[i].bytes) /\ Leq(crossed, writer.job.bytes, pending[i].bytes)
          /\ Leq(crossed, pending[i].bytes, db.bytes)
    /\ Len(pending) = 2 => Leq(crossed, pending[1].bytes, pending[2].bytes)
    /\ \A f \in Flushers :
          /\ Leq(crossed, disk.bytes, captured[f]) /\ Leq(crossed, writer.job.bytes, captured[f])
          /\ \A i \in 1 .. Len(pending) : Leq(crossed, pending[i].bytes, captured[f])
          /\ \A p \in (DOMAIN captured[f] \cap DOMAIN db.bytes) \ crossed : captured[f][p] = db.bytes[p]

\* A counter that two flushes hold is crossed.
CrossInv ==
    \A f, g \in Flushers : f # g => DOMAIN captured[f] \cap DOMAIN captured[g] \subseteq crossed

CounterInv == DurableInv /\ KnownInv /\ ForwardInv /\ CrossInv

\* A snapshot of the present version is queued or being written.
SnapshotAhead ==
    \/ Len(pending) > 0 /\ pending[1].kind = "snapshot" /\ pending[1].ver = db.ver
    \/ writer.at = "taken" /\ writer.job.kind = "snapshot" /\ writer.job.ver = db.ver

\* The counter of p once all work has been written.
Eventual(p) ==
    IF Len(pending) > 0 /\ p \in DOMAIN pending[Len(pending)].bytes THEN pending[Len(pending)].bytes[p]
    ELSE IF Len(pending) = 2 /\ p \in DOMAIN pending[1].bytes THEN pending[1].bytes[p]
    ELSE IF writer.at = "taken" /\ p \in DOMAIN writer.job.bytes THEN writer.job.bytes[p]
    ELSE disk.bytes[p]

\* Writing all work brings the disk to the database in memory, up to the
\* counters a flush still holds, unless something was lost before the last
\* snapshot.
EventualInv ==
    /\ lossy \/ disk.ver = db.ver \/ SnapshotAhead
    /\ ~ lossy \/ SnapshotAhead =>
          \A p \in DOMAIN db.bytes \ crossed :
              Eventual(p) = db.bytes[p] \/ \E f \in Flushers : p \in DOMAIN captured[f]

CatchUpInv == CounterInv /\ EventualInv

-----------------------------------------------------------------------------
(* The steps of the panel and of the janitors, by what they do to memory.  *)

\* The clients become c: some are forgotten, some change, and one that never
\* existed may be added.
NewContent(c) ==
    c \in Contents /\ \A p \in DOMAIN c : p \in DOMAIN db.clients \/ p \in Unused

\* A change with its snapshot; a handler may wait for it.
Edit(c) ==
    /\ NewContent(c)
    /\ Mutate(c)
    /\ request' = request \/ \E r \in Requests : AwaitRevision(r)
    /\ stopping' \in {stopping, "save"}
    /\ UNCHANGED <<disk, writer, captured, ghostVars, restarts>>

\* A change of memory that nobody submits.
Forget(c) ==
    /\ NewContent(c)
    /\ Change(c)
    /\ lossy' = TRUE
    /\ UNCHANGED <<disk, queueVars, writer, request, captured, stopping, acked, failed, crossed, failures, restarts>>

(* Every handler of the panel, the janitor and the binding of a device is   *)
(* an Edit; a refused creation is a Forget.                                 *)
LEMMA PanelSteps ==
  ASSUME TypeOK, NEW r \in Requests
  PROVE  /\ clients_create(r) => \E c \in Contents : Edit(c)
         /\ client_edit(r) => \E c \in Contents : Edit(c)
         /\ client_delete(r) => \E c \in Contents : Edit(c)
         /\ clients_create_refused(r) => \E c \in Contents : Forget(c)
<1>1. ASSUME clients_create(r) PROVE \E c \in Contents : Edit(c)
  <2>1. PICK p \in Unused, S \in SUBSET DOMAIN db.clients :
            Mutate(Overlay(Without(S), [q \in {p} |-> TRUE]))
    BY <1>1 DEF clients_create
  <2> DEFINE c == Overlay(Without(S), [q \in {p} |-> TRUE])
  <2>2. p \in Passwords
    BY DEF Unused
  <2>3. c \in Contents /\ DOMAIN c \subseteq DOMAIN db.clients \cup {p}
    BY <2>2, CreateContents, Zenon
  <2> HIDE DEF c
  <2>4. NewContent(c)
    BY <2>3, Zenon DEF NewContent
  <2>5. Mutate(c)
    BY <2>1 DEF c
  <2> QED BY <1>1, <2>3, <2>4, <2>5, Zenon DEF clients_create, Edit
<1>2. ASSUME client_edit(r) PROVE \E c \in Contents : Edit(c)
  <2>1. PICK p \in DOMAIN db.clients : Mutate([db.clients EXCEPT ![p] = ~ @])
    BY <1>2 DEF client_edit
  <2> DEFINE c == [db.clients EXCEPT ![p] = ~ @]
  <2>2. c \in Contents /\ DOMAIN c = DOMAIN db.clients
    BY ToggleContents, Zenon
  <2>3. Mutate(c)
    BY <2>1
  <2> HIDE DEF c
  <2>4. NewContent(c)
    BY <2>2, Zenon DEF NewContent
  <2> QED BY <1>2, <2>2, <2>3, <2>4, Zenon DEF client_edit, Edit
<1>3. ASSUME client_delete(r) PROVE \E c \in Contents : Edit(c)
  <2>1. PICK p \in DOMAIN db.clients : Mutate(Without({p}))
    BY <1>3 DEF client_delete
  <2>2. Without({p}) \in Contents /\ NewContent(Without({p}))
    BY WithoutContents, Zenon DEF NewContent
  <2> QED BY <1>3, <2>1, <2>2, Zenon DEF client_delete, Edit
<1>4. ASSUME clients_create_refused(r) PROVE \E c \in Contents : Forget(c)
  <2>1. PICK S \in SUBSET DOMAIN db.clients : Change(Without(S))
    BY <1>4, Zenon DEF clients_create_refused
  <2>2. Without(S) \in Contents /\ NewContent(Without(S))
    BY WithoutContents, Zenon DEF NewContent
  <2> QED BY <1>4, <2>1, <2>2, Zenon DEF clients_create_refused, Forget
<1> QED BY <1>1, <1>2, <1>3, <1>4

(* Those that no handler waits for.                                         *)
LEMMA JanitorSteps ==
  ASSUME TypeOK, password_janitor \/ getconf_bind \/ shutdown_save
  PROVE  \E c \in Contents : Edit(c)
<1>1. CASE password_janitor
  <2>1. PICK p \in DOMAIN db.clients : Mutate(Without({p}))
    BY <1>1 DEF password_janitor
  <2>2. Without({p}) \in Contents /\ NewContent(Without({p}))
    BY WithoutContents, Zenon DEF NewContent
  <2> QED BY <1>1, <2>1, <2>2, Zenon DEF password_janitor, Edit
<1>2. CASE getconf_bind
  <2>1. PICK p \in DOMAIN db.clients : Mutate([db.clients EXCEPT ![p] = ~ @])
    BY <1>2 DEF getconf_bind
  <2> DEFINE c == [db.clients EXCEPT ![p] = ~ @]
  <2>2. c \in Contents /\ DOMAIN c = DOMAIN db.clients
    BY ToggleContents, Zenon
  <2>3. Mutate(c)
    BY <2>1
  <2> HIDE DEF c
  <2>4. NewContent(c)
    BY <2>2, Zenon DEF NewContent
  <2> QED BY <1>2, <2>2, <2>3, <2>4, Zenon DEF getconf_bind, Edit
<1>3. CASE shutdown_save
  <2>1. Mutate(db.clients) /\ stopping' = "save"
    BY <1>3 DEF shutdown_save
  <2>2. db.clients \in Contents /\ NewContent(db.clients)
    BY Zenon DEF TypeOK, Databases, NewContent
  <2> QED BY <1>3, <2>1, <2>2, Zenon DEF shutdown_save, Edit
<1> QED BY <1>1, <1>2, <1>3
------------------------------------------------------------------------------
(* What a change of the clients leaves in memory and in the history.        *)
LEMMA ChangeFacts ==
  ASSUME TypeOK, NEW c, NewContent(c), Change(c)
  PROVE  /\ db' \in Databases /\ db'.ver = db.ver + 1 /\ db'.clients = c
         /\ DOMAIN db'.bytes = DOMAIN c
         /\ \A p \in DOMAIN c : db'.bytes[p] = IF p \in DOMAIN db.bytes THEN db.bytes[p] ELSE 0
         /\ history' \in Seq(Contents) /\ Len(history') = db.ver + 1
         /\ \A i \in 1 .. db.ver : history'[i] = history[i]
         /\ history'[db.ver + 1] = c
<1> DEFINE b == [p \in DOMAIN c |-> IF p \in DOMAIN db.bytes THEN db.bytes[p] ELSE 0]
<1>1. c \in Contents /\ DOMAIN c \subseteq Passwords
  BY ContentsFun, Zenon DEF NewContent
<1>2. db.bytes \in Counters /\ db.ver \in 1 .. MaxVersion
  BY DEF TypeOK, Databases
<1>3. DOMAIN b = DOMAIN c /\ \A p \in DOMAIN c : b[p] \in 0 .. MaxBytes
  BY <1>2, CountersFun, BoundsAssumption
<1>4. b \in Counters
  <2>1. b \in [DOMAIN b -> 0 .. MaxBytes]
    BY <1>3
  <2> QED BY <1>1, <1>3, <2>1, CountersFun, Zenon
<1>5. db' = [ver |-> db.ver + 1, clients |-> c, bytes |-> b] /\ db.ver < MaxVersion
  BY DEF Change
<1> HIDE DEF b
<1>6. db' \in Databases
  BY <1>1, <1>2, <1>4, <1>5, BoundsAssumption DEF Databases
<1>7. history' = Append(history, c) /\ history \in Seq(Contents) /\ Len(history) = db.ver
  BY DEF Change, TypeOK
<1>8. /\ history' \in Seq(Contents) /\ Len(history') = db.ver + 1
      /\ \A i \in 1 .. db.ver : history'[i] = history[i]
      /\ history'[db.ver + 1] = c
  BY <1>1, <1>2, <1>7
<1> QED BY <1>3, <1>5, <1>6, <1>8 DEF b

(* A submitted snapshot is the whole queue.                                 *)
LEMMA SnapshotQueued ==
  ASSUME TypeOK, db' \in Databases, submit_snapshot(db')
  PROVE  /\ pending' \in Seq(Jobs) /\ Len(pending') = 1
         /\ pending'[1] = Snapshot(nextRev + 1, db')
         /\ nextRev' = nextRev + 1 /\ nextRev' \in Nat
         /\ processed' = processed /\ successful' = successful
<1>1. Snapshot(nextRev + 1, db') \in Jobs
  BY BoundsAssumption DEF Snapshot, Jobs, Databases, TypeOK
<1> QED BY <1>1 DEF submit_snapshot, TypeOK

(* Where submitted traffic ends up: last, behind the snapshot if there is   *)
(* one, merged with the traffic that was last.                              *)
LEMMA TrafficQueued ==
  ASSUME TypeOK, QueueShape, NEW t \in Counters, submit_traffic(t)
  PROVE  /\ pending' \in Seq(Jobs) /\ Len(pending') \in 1 .. 2
         /\ nextRev' = nextRev + 1 /\ nextRev' \in Nat
         /\ processed' = processed /\ successful' = successful
         /\ pending'[Len(pending')].kind = "traffic"
         /\ pending'[Len(pending')].rev = nextRev + 1
         /\ \/ /\ Len(pending') = Len(pending)
               /\ pending[Len(pending)].kind = "traffic"
               /\ pending'[Len(pending)].bytes = Overlay(pending[Len(pending)].bytes, t)
            \/ /\ Len(pending') = Len(pending) + 1
               /\ pending'[Len(pending')].bytes = t
         /\ Len(pending') = 2 => /\ Len(pending) > 0 /\ pending[1].kind = "snapshot"
                                 /\ pending'[1] = pending[1]
         /\ Len(pending') = 1 => Len(pending) = 0 \/ pending[1].kind = "traffic"
<1> DEFINE n == Len(pending)
<1>1. pending \in Seq(Jobs) /\ nextRev \in Nat /\ n \in Nat /\ n <= 2
  <2>1. pending \in Seq(Jobs) /\ nextRev \in Nat
    BY DEF TypeOK
  <2>2. Len(pending) <= 2
    BY DEF QueueShape
  <2>3. Len(pending) \in Nat
    BY <2>1
  <2> QED BY <2>1, <2>2, <2>3
<1>2. \A u \in Counters : Traffic(nextRev + 1, u) \in Jobs
  <2>1. NoTraffic \in Contents
    <3>1. DOMAIN NoTraffic = {} /\ NoTraffic \in [{} -> BOOLEAN]
      BY DEF NoTraffic
    <3> QED BY <3>1, ContentsFun
  <2> QED BY <1>1, <2>1, BoundsAssumption DEF Traffic, Jobs
<1>3. CASE n > 0 /\ pending[n].kind = "traffic"
  <2>1. pending[n].bytes \in Counters
    <3>1. pending[n] \in Jobs
      BY <1>1, <1>3
    <3> QED BY <3>1 DEF Jobs
  <2>2. Overlay(pending[n].bytes, t) \in Counters
    BY <2>1, OverlayCounters
  <2> DEFINE j == Traffic(nextRev + 1, Overlay(pending[n].bytes, t))
  <2>3. j \in Jobs
    BY <1>2, <2>2
  <2>4. pending' = [pending EXCEPT ![n] = j]
    BY <1>3 DEF submit_traffic, merge_from
  <2>5. j.kind = "traffic" /\ j.rev = nextRev + 1 /\ j.bytes = Overlay(pending[n].bytes, t)
    BY DEF Traffic
  <2> HIDE DEF j
  <2>6. /\ pending' \in Seq(Jobs) /\ Len(pending') = n /\ pending'[n] = j
        /\ \A i \in 1 .. n : i # n => pending'[i] = pending[i]
    BY <1>1, <1>3, <2>3, <2>4
  <2>7. n = 2 => pending[1].kind = "snapshot" /\ pending'[1] = pending[1]
    BY <1>1, <2>6 DEF QueueShape
  <2>8. nextRev' = nextRev + 1 /\ processed' = processed /\ successful' = successful
    BY DEF submit_traffic
  <2> QED BY <1>1, <1>3, <2>5, <2>6, <2>7, <2>8
<1>4. CASE ~(n > 0 /\ pending[n].kind = "traffic")
  <2> DEFINE j == Traffic(nextRev + 1, t)
  <2>1. j \in Jobs /\ j.kind = "traffic" /\ j.rev = nextRev + 1 /\ j.bytes = t
    BY <1>2 DEF Traffic
  <2>2. pending' = Append(pending, j)
    BY <1>4 DEF submit_traffic
  <2> HIDE DEF j
  <2>3. /\ pending' \in Seq(Jobs) /\ Len(pending') = n + 1 /\ pending'[n + 1] = j
        /\ \A i \in 1 .. n : pending'[i] = pending[i]
    BY <1>1, <2>1, <2>2
  <2>4. n = 0 \/ (n = 1 /\ pending[1].kind = "snapshot")
    <3>1. ASSUME n # 0 PROVE n = 1 /\ pending[1].kind = "snapshot"
      <4>1. n \in 1 .. Len(pending)
        BY <1>1, <3>1
      <4>2. pending[n].kind \in {"snapshot", "traffic"} /\ (pending[n].kind = "snapshot" => n = 1)
        BY <4>1, Zenon DEF QueueShape
      <4>3. n > 0
        BY <1>1, <3>1
      <4> QED BY <1>4, <4>2, <4>3
    <3> QED BY <3>1
  <2> QED BY <1>1, <2>1, <2>3, <2>4 DEF submit_traffic
<1> QED BY <1>3, <1>4

------------------------------------------------------------------------------
(* The initial state satisfies the invariant.                               *)
LEMMA DurableInit == Init => DurableInv
<1> SUFFICES ASSUME Init PROVE DurableInv
  OBVIOUS
<1>1. NoTraffic \in Contents /\ NoTraffic \in Counters /\ DOMAIN NoTraffic = {}
  <2>1. DOMAIN NoTraffic = {} /\ NoTraffic \in [{} -> BOOLEAN] /\ NoTraffic \in [{} -> 0 .. MaxBytes]
    BY DEF NoTraffic
  <2> QED BY <2>1, ContentsFun, CountersFun
<1>2. db.ver = 1 /\ db.clients = [p \in Existing |-> TRUE] /\ db.bytes = [p \in Existing |-> 0]
  BY DEF Init
<1>3. db.clients \in Contents
  <2>1. DOMAIN db.clients = Existing /\ db.clients \in [Existing -> BOOLEAN]
    BY <1>2, Zenon
  <2> QED BY <2>1, ContentsFun, BoundsAssumption, Zenon
<1>4. db.bytes \in Counters
  <2>1. DOMAIN db.bytes = Existing /\ db.bytes \in [Existing -> 0 .. MaxBytes]
    BY <1>2, BoundsAssumption
  <2> QED BY <2>1, CountersFun, BoundsAssumption, Zenon
<1>5. db \in Databases /\ disk = db
  <2>1. db = [ver |-> 1, clients |-> db.clients, bytes |-> db.bytes]
    BY DEF Init
  <2> QED BY <1>3, <1>4, <2>1, BoundsAssumption DEF Init, Databases
<1>6. NoJob \in Jobs /\ NoJob.kind = "none"
  BY <1>1, BoundsAssumption DEF NoJob, Jobs
<1>7. history \in Seq(Contents) /\ Len(history) = db.ver /\ history[1] = db.clients
  BY <1>2, <1>3 DEF Init
<1>8. pending \in Seq(Jobs) /\ Len(pending) = 0
  BY DEF Init
<1>9. writer.at = "idle" /\ writer.job = NoJob
  BY DEF Init
<1>10. TypeOK
  <2>1. writer \in [at : {"idle", "taken", "committed", "rejected", "notify"}, job : Jobs]
    BY <1>6 DEF Init
  <2>2. request \in [Requests -> [at : {"idle", "register", "check", "await", "park", "ok", "failed", "late"},
                                 rev : Nat, ver : 0 .. MaxVersion, woken : BOOLEAN]]
    BY BoundsAssumption DEF Init, Idle
  <2>3. captured \in [Flushers -> Counters]
    BY <1>1 DEF Init
  <2>4. lossy \in BOOLEAN
    BY Zenon DEF Init
  <2>5. /\ nextRev \in Nat /\ processed \in Nat /\ successful \in Nat
        /\ acked \subseteq 1 .. MaxVersion /\ failed \subseteq 1 .. MaxVersion
        /\ failures \in Nat /\ restarts \in Nat
        /\ stopping \in {"no", "flush", "save"} /\ crossed \subseteq Passwords
    BY DEF Init
  <2> QED BY <1>5, <1>7, <1>8, <2>1, <2>2, <2>3, <2>4, <2>5 DEF TypeOK
<1>11. QueueShape
  BY <1>8, <1>9 DEF QueueShape
<1>12. HistoryInv
  <2>1. DOMAIN db.bytes = DOMAIN db.clients
    BY <1>2
  <2>2. \A i \in 1 .. Len(pending) : FALSE
    BY <1>8
  <2>3. db.clients = history[db.ver] /\ disk.ver <= db.ver /\ disk.clients = history[disk.ver]
    <3>1. db.ver = 1 /\ disk = db
      BY DEF Init
    <3> QED BY <1>7, <3>1
  <2>4. writer.job.kind # "snapshot"
    BY <1>6, <1>9
  <2> QED BY <1>5, <2>1, <2>2, <2>3, <2>4 DEF HistoryInv
<1>13. WaitInv
  BY DEF WaitInv, Waiting, Init, Idle
<1> QED BY <1>10, <1>11, <1>12, <1>13 DEF DurableInv

(* A change of the clients with its snapshot.                               *)
LEMMA DurableEdit ==
  ASSUME DurableInv, NEW c, Edit(c)
  PROVE  DurableInv'
<1>1. TypeOK /\ QueueShape /\ HistoryInv /\ WaitInv
  BY DEF DurableInv
<1>2. NewContent(c) /\ Change(c) /\ submit_snapshot(db')
  BY DEF Edit, Mutate
<1>3. UNCHANGED <<disk, writer, captured, ghostVars, restarts>> /\ stopping' \in {stopping, "save"}
  BY DEF Edit
<1>4. /\ db' \in Databases /\ db'.ver = db.ver + 1 /\ db'.clients = c
      /\ DOMAIN db'.bytes = DOMAIN c
      /\ history' \in Seq(Contents) /\ Len(history') = db.ver + 1
      /\ \A i \in 1 .. db.ver : history'[i] = history[i]
      /\ history'[db.ver + 1] = c
  BY <1>1, <1>2, ChangeFacts
<1>5. /\ pending' \in Seq(Jobs) /\ Len(pending') = 1 /\ pending'[1] = Snapshot(nextRev + 1, db')
      /\ nextRev' = nextRev + 1 /\ nextRev' \in Nat
      /\ processed' = processed /\ successful' = successful
  BY <1>1, <1>2, <1>4, SnapshotQueued
<1>6. db.ver \in Nat /\ disk.ver \in Nat /\ disk.ver >= 1 /\ db'.ver \in 1 .. MaxVersion
  BY <1>1, <1>4 DEF TypeOK, Databases
<1> DEFINE R == [at : {"idle", "register", "check", "await", "park", "ok", "failed", "late"},
                 rev : Nat, ver : 0 .. MaxVersion, woken : BOOLEAN]
           w == [at |-> "register", rev |-> nextRev', ver |-> db'.ver, woken |-> FALSE]
<1>7. /\ request' \in [Requests -> R]
      /\ \A r \in Requests : \/ request'[r] = request[r]
                             \/ request'[r] = w
  <2>1. request \in [Requests -> R] /\ w \in R
    BY <1>1, <1>5, <1>6 DEF TypeOK
  <2>2. CASE request' = request
    BY <2>1, <2>2
  <2>3. ASSUME NEW r \in Requests, AwaitRevision(r)
        PROVE  /\ request' \in [Requests -> R]
               /\ \A q \in Requests : request'[q] = request[q] \/ request'[q] = w
    <3>1. request' = [request EXCEPT ![r] = w]
      BY <2>3 DEF AwaitRevision
    <3> HIDE DEF w, R
    <3> QED BY <2>1, <3>1
  <2> QED BY <2>2, <2>3 DEF Edit
<1>8. TypeOK'
  BY <1>1, <1>3, <1>4, <1>5, <1>7 DEF TypeOK, ghostVars
<1>9. QueueShape'
  BY <1>1, <1>3, <1>5 DEF QueueShape, Snapshot
<1>10. pending'[1].ver = db'.ver /\ pending'[1].clients = c /\ pending'[1].bytes = db'.bytes
  BY <1>4, <1>5 DEF Snapshot
<1>11. HistoryInv'
  <2>1. db'.clients = history'[db'.ver] /\ DOMAIN db'.bytes = DOMAIN db'.clients
    BY <1>4
  <2>2. /\ disk'.ver <= db'.ver /\ disk'.clients = history'[disk'.ver]
        /\ DOMAIN disk'.bytes = DOMAIN disk'.clients
    BY <1>1, <1>3, <1>4, <1>6 DEF HistoryInv
  <2>3. ASSUME writer.job.kind = "snapshot"
        PROVE  /\ SnapshotOfHistory(writer.job)' /\ writer.job.ver <= db.ver
               /\ writer.at = "taken" => disk.ver < writer.job.ver
    <3>1. /\ writer.job.ver \in 1 .. db.ver /\ writer.job.clients = history[writer.job.ver]
          /\ DOMAIN writer.job.bytes = DOMAIN writer.job.clients
          /\ writer.at = "taken" => disk.ver < writer.job.ver
      BY <1>1, <2>3 DEF HistoryInv, SnapshotOfHistory
    <3> QED BY <1>3, <1>4, <1>6, <3>1 DEF SnapshotOfHistory
  <2>4. SnapshotOfHistory(pending[1])'
    BY <1>4, <1>6, <1>10 DEF SnapshotOfHistory
  <2>5. disk'.ver < pending'[1].ver
    BY <1>1, <1>3, <1>4, <1>6, <1>10 DEF HistoryInv
  <2>6. writer'.job.kind = "snapshot" => writer'.job.ver < pending'[1].ver
    BY <1>3, <1>4, <1>6, <1>10, <2>3 DEF SnapshotOfHistory
  <2>7. \A i \in 1 .. Len(pending') : i = 1
    BY <1>5
  <2> QED BY <1>3, <2>1, <2>2, <2>3, <2>4, <2>5, <2>6, <2>7 DEF HistoryInv
<1>12. WaitInv'
  BY <1>1, <1>4, <1>6, <1>7 DEF WaitInv, Waiting
<1> QED BY <1>8, <1>9, <1>11, <1>12 DEF DurableInv

(* A change of the clients that is not submitted.                           *)
LEMMA DurableForget ==
  ASSUME DurableInv, NEW c, Forget(c)
  PROVE  DurableInv'
<1>1. TypeOK /\ QueueShape /\ HistoryInv /\ WaitInv
  BY DEF DurableInv
<1>2. NewContent(c) /\ Change(c)
  BY DEF Forget
<1>3. /\ UNCHANGED <<disk, writer, request, captured, stopping, acked, failed, crossed, failures, restarts>>
      /\ UNCHANGED <<nextRev, processed, successful, pending>>
  BY DEF Forget, queueVars
<1>4. /\ db' \in Databases /\ db'.ver = db.ver + 1 /\ db'.clients = c
      /\ DOMAIN db'.bytes = DOMAIN c
      /\ history' \in Seq(Contents) /\ Len(history') = db.ver + 1
      /\ \A i \in 1 .. db.ver : history'[i] = history[i]
      /\ history'[db.ver + 1] = c
  BY <1>1, <1>2, ChangeFacts
<1>5. db.ver \in Nat /\ disk.ver \in Nat /\ disk.ver >= 1
  BY <1>1 DEF TypeOK, Databases
<1>6. TypeOK'
  <2>1. lossy' \in BOOLEAN
    BY Zenon DEF Forget
  <2> QED BY <1>1, <1>3, <1>4, <2>1 DEF TypeOK
<1>7. QueueShape'
  BY <1>1, <1>3 DEF QueueShape
<1>8. HistoryInv'
  <2>1. \A job : SnapshotOfHistory(job) => /\ job.ver \in 1 .. db'.ver /\ job.clients = history'[job.ver]
                                           /\ DOMAIN job.bytes = DOMAIN job.clients
    BY <1>4, <1>5 DEF SnapshotOfHistory
  <2>2. db'.clients = history'[db'.ver] /\ DOMAIN db'.bytes = DOMAIN db'.clients
    BY <1>4
  <2>3. /\ disk'.ver <= db'.ver /\ disk'.clients = history'[disk'.ver]
        /\ DOMAIN disk'.bytes = DOMAIN disk'.clients
    BY <1>1, <1>3, <1>4, <1>5 DEF HistoryInv
  <2>4. writer'.job.kind = "snapshot" =>
          SnapshotOfHistory(writer.job)' /\ (writer'.at = "taken" => disk'.ver < writer'.job.ver)
    BY <1>1, <1>3, <2>1 DEF HistoryInv, SnapshotOfHistory
  <2>5. ASSUME NEW i \in 1 .. Len(pending'), pending'[i].kind = "snapshot"
        PROVE  /\ SnapshotOfHistory(pending[i])' /\ disk'.ver < pending'[i].ver
               /\ writer'.job.kind = "snapshot" => writer'.job.ver < pending'[i].ver
    BY <1>1, <1>3, <2>1, <2>5 DEF HistoryInv, SnapshotOfHistory
  <2> QED BY <2>2, <2>3, <2>4, <2>5 DEF HistoryInv
<1>9. WaitInv'
  BY <1>1, <1>3, <1>4, <1>5 DEF WaitInv, Waiting
<1> QED BY <1>6, <1>7, <1>8, <1>9 DEF DurableInv

(* What a flush reads under the lock.                                       *)
LEMMA CaptureFacts ==
  ASSUME TypeOK, NEW f \in Flushers, flush_capture(f)
  PROVE  /\ \A p \in DOMAIN captured'[f] : /\ p \in DOMAIN db.bytes
                                           /\ captured'[f][p] = db.bytes[p] + 1
         /\ captured[f] = NoTraffic
         /\ captured'[f] \in Counters /\ captured' = [captured EXCEPT ![f] = captured'[f]]
         /\ db' \in Databases /\ db' = [db EXCEPT !.bytes = Overlay(db.bytes, captured'[f])]
         /\ DOMAIN db'.bytes = DOMAIN db.bytes
         /\ crossed' = crossed \cup {p \in DOMAIN captured'[f] : \E g \in Flushers : p \in DOMAIN captured[g]}
         /\ stopping' \in {stopping, "flush"}
<1>1. PICK S \in SUBSET {p \in DOMAIN db.bytes : db.bytes[p] < MaxBytes} :
         /\ db' = [db EXCEPT !.bytes = Overlay(@, [p \in S |-> db.bytes[p] + 1])]
         /\ captured' = [captured EXCEPT ![f] = [p \in S |-> db.bytes[p] + 1]]
         /\ crossed' = crossed \cup {p \in S : \E g \in Flushers : p \in DOMAIN captured[g]}
  BY DEF flush_capture
<1> DEFINE t == [p \in S |-> db.bytes[p] + 1]
<1>2. /\ db.bytes \in Counters /\ db.ver \in 1 .. MaxVersion /\ db.clients \in Contents
      /\ db = [ver |-> db.ver, clients |-> db.clients, bytes |-> db.bytes]
  BY DEF TypeOK, Databases
<1>3. DOMAIN db.bytes \subseteq Passwords /\ db.bytes \in [DOMAIN db.bytes -> 0 .. MaxBytes]
  BY <1>2, CountersFun
<1>4. DOMAIN t = S /\ S \subseteq DOMAIN db.bytes /\ \A p \in S : t[p] = db.bytes[p] + 1
  OBVIOUS
<1>5. t \in Counters
  <2>1. \A p \in S : t[p] \in 0 .. MaxBytes
    BY <1>3, BoundsAssumption
  <2>2. t \in [S -> 0 .. MaxBytes]
    BY <2>1
  <2> QED BY <1>3, <1>4, <2>2, CountersFun
<1> HIDE DEF t
<1>6. captured'[f] = t /\ captured \in [Flushers -> Counters]
  BY <1>1 DEF t, TypeOK
<1>7. db' = [db EXCEPT !.bytes = Overlay(db.bytes, t)] /\ captured' = [captured EXCEPT ![f] = t]
  BY <1>1 DEF t
<1>8. Overlay(db.bytes, t) \in Counters /\ DOMAIN Overlay(db.bytes, t) = DOMAIN db.bytes
  <2>1. Overlay(db.bytes, t) \in Counters /\ DOMAIN Overlay(db.bytes, t) = DOMAIN db.bytes \cup DOMAIN t
    BY <1>2, <1>5, OverlayCounters
  <2>2. DOMAIN t \subseteq DOMAIN db.bytes
    BY <1>4
  <2> QED BY <2>1, <2>2
<1>9. db' \in Databases /\ db'.bytes = Overlay(db.bytes, t)
  BY <1>2, <1>7, <1>8 DEF Databases
<1>10. captured[f] = NoTraffic
  BY DEF flush_capture
<1>11. crossed' = crossed \cup {p \in DOMAIN captured'[f] : \E g \in Flushers : p \in DOMAIN captured[g]}
  BY <1>1, <1>4, <1>6
<1>12. stopping' \in {stopping, "flush"}
  BY DEF flush_capture
<1> QED BY <1>4, <1>5, <1>6, <1>7, <1>8, <1>9, <1>10, <1>11, <1>12

(* The two halves of a flush.                                               *)
LEMMA DurableFlush ==
  ASSUME DurableInv, NEW f \in Flushers, flush_capture(f) \/ flush_submit(f)
  PROVE  DurableInv'
<1>1. TypeOK /\ QueueShape /\ HistoryInv /\ WaitInv
  BY DEF DurableInv
<1>2. CASE flush_capture(f)
  <2>1. /\ UNCHANGED <<disk, history, writer, request, acked, failed, lossy, failures, restarts>>
        /\ UNCHANGED <<nextRev, processed, successful, pending>>
    BY <1>2 DEF flush_capture, queueVars, ghostVars
  <2>2. /\ captured'[f] \in Counters /\ captured' = [captured EXCEPT ![f] = captured'[f]]
        /\ db' \in Databases /\ db' = [db EXCEPT !.bytes = Overlay(db.bytes, captured'[f])]
        /\ DOMAIN db'.bytes = DOMAIN db.bytes
        /\ stopping' \in {stopping, "flush"} /\ crossed' \subseteq crossed \cup DOMAIN captured'[f]
    BY <1>1, <1>2, CaptureFacts
  <2>3. db'.ver = db.ver /\ db'.clients = db.clients
    BY <1>1, <2>2 DEF TypeOK, Databases
  <2>4. captured' \in [Flushers -> Counters]
    BY <1>1, <2>2 DEF TypeOK
  <2>5. TypeOK'
    <3>1. crossed' \subseteq Passwords /\ stopping' \in {"no", "flush", "save"}
      BY <1>1, <2>2, CountersFun DEF TypeOK
    <3> QED BY <1>1, <2>1, <2>2, <2>3, <2>4, <3>1 DEF TypeOK
  <2>6. QueueShape'
    BY <1>1, <2>1 DEF QueueShape
  <2>7. HistoryInv'
    BY <1>1, <2>1, <2>2, <2>3 DEF HistoryInv, SnapshotOfHistory
  <2>8. WaitInv'
    BY <1>1, <2>1, <2>3 DEF WaitInv, Waiting
  <2> QED BY <2>5, <2>6, <2>7, <2>8 DEF DurableInv
<1>3. CASE flush_submit(f)
  <2>1. UNCHANGED <<db, disk, history, writer, request, stopping, acked, failed, lossy, crossed, failures, restarts>>
    BY <1>3 DEF flush_submit, ghostVars
  <2>2. captured[f] \in Counters /\ submit_traffic(captured[f])
    BY <1>1, <1>3 DEF TypeOK, flush_submit
  <2>3. /\ pending' \in Seq(Jobs) /\ Len(pending') \in 1 .. 2
        /\ nextRev' = nextRev + 1 /\ nextRev' \in Nat
        /\ processed' = processed /\ successful' = successful
        /\ pending'[Len(pending')].kind = "traffic"
        /\ Len(pending') = 2 => /\ Len(pending) > 0 /\ pending[1].kind = "snapshot"
                                /\ pending'[1] = pending[1]
    BY <1>1, <2>2, TrafficQueued
  <2>4. captured' \in [Flushers -> Counters]
    <3>1. NoTraffic \in Counters
      <4>1. DOMAIN NoTraffic = {} /\ NoTraffic \in [{} -> 0 .. MaxBytes]
        BY DEF NoTraffic
      <4> QED BY <4>1, CountersFun
    <3> QED BY <1>1, <1>3, <3>1 DEF TypeOK, flush_submit
  <2>5. TypeOK'
    BY <1>1, <2>1, <2>3, <2>4 DEF TypeOK
  <2>6. \A i \in 1 .. Len(pending') :
            \/ i = Len(pending') /\ pending'[i].kind = "traffic"
            \/ i = 1 /\ Len(pending') = 2
    BY <2>3
  <2>7. QueueShape'
    BY <1>1, <2>1, <2>3, <2>6 DEF QueueShape
  <2>8. HistoryInv'
    <3>1. ASSUME NEW i \in 1 .. Len(pending'), pending'[i].kind = "snapshot"
          PROVE  i = 1 /\ 1 \in 1 .. Len(pending) /\ pending'[i] = pending[1]
      <4>1. i = 1 /\ Len(pending') = 2
        BY <2>6, <3>1
      <4>2. Len(pending) \in Nat
        BY <1>1 DEF TypeOK
      <4> QED BY <2>3, <4>1, <4>2
    <3>2. ASSUME NEW i \in 1 .. Len(pending'), pending'[i].kind = "snapshot"
          PROVE  /\ SnapshotOfHistory(pending[i])' /\ disk'.ver < pending'[i].ver
                 /\ writer'.job.kind = "snapshot" => writer'.job.ver < pending'[i].ver
      BY <1>1, <2>1, <3>1, <3>2 DEF HistoryInv, SnapshotOfHistory
    <3> QED BY <1>1, <2>1, <3>2 DEF HistoryInv, SnapshotOfHistory
  <2>9. WaitInv'
    BY <1>1, <2>1 DEF WaitInv, Waiting
  <2> QED BY <2>5, <2>7, <2>8, <2>9 DEF DurableInv
<1> QED BY <1>2, <1>3

(* What the commit of a job leaves on disk.                                 *)
LEMMA CommitFacts ==
  ASSUME DurableInv, persist_commit
  PROVE  /\ disk' \in Databases
         /\ \/ /\ writer.job.kind = "snapshot" /\ disk.ver < writer.job.ver
               /\ disk'.ver = writer.job.ver /\ disk'.clients = writer.job.clients
               /\ disk'.bytes = writer.job.bytes
            \/ /\ writer.job.kind = "traffic"
               /\ disk'.ver = disk.ver /\ disk'.clients = disk.clients
               /\ DOMAIN disk'.bytes = DOMAIN disk.bytes
               /\ \A p \in DOMAIN disk.bytes :
                     disk'.bytes[p] = IF p \in DOMAIN writer.job.bytes THEN writer.job.bytes[p]
                                      ELSE disk.bytes[p]
<1>1. /\ writer.at = "taken" /\ writer.job \in Jobs /\ disk \in Databases
      /\ writer.job.kind \in {"snapshot", "traffic"}
  BY DEF DurableInv, TypeOK, QueueShape, persist_commit
<1>2. CASE writer.job.kind = "snapshot"
  <2>1. disk' = [ver |-> writer.job.ver, clients |-> writer.job.clients, bytes |-> writer.job.bytes]
    BY <1>2 DEF persist_commit, write_database_snapshot
  <2>2. SnapshotOfHistory(writer.job) /\ disk.ver < writer.job.ver
    BY <1>1, <1>2 DEF DurableInv, HistoryInv
  <2>3. writer.job.ver \in 1 .. MaxVersion
    BY <1>1, <2>2, BoundsAssumption DEF DurableInv, TypeOK, SnapshotOfHistory, Jobs, Databases
  <2> QED BY <1>1, <1>2, <2>1, <2>2, <2>3 DEF Jobs, Databases
<1>3. CASE writer.job.kind = "traffic"
  <2> DEFINE t == writer.job.bytes
             b == [p \in DOMAIN disk.bytes |-> IF p \in DOMAIN t THEN t[p] ELSE disk.bytes[p]]
  <2>1. disk' = [disk EXCEPT !.bytes = b]
    BY <1>3 DEF persist_commit, write_traffic
  <2>2. t \in Counters /\ disk.bytes \in Counters
    BY <1>1 DEF Jobs, Databases
  <2>3. DOMAIN b = DOMAIN disk.bytes /\ DOMAIN disk.bytes \subseteq Passwords
    BY <2>2, CountersFun
  <2>4. \A p \in DOMAIN disk.bytes : b[p] \in 0 .. MaxBytes
    BY <2>2, CountersFun
  <2>5. b \in Counters
    <3>1. b \in [DOMAIN b -> 0 .. MaxBytes]
      BY <2>3, <2>4
    <3> QED BY <2>3, <3>1, CountersFun, Zenon
  <2>6. \A p \in DOMAIN disk.bytes : b[p] = IF p \in DOMAIN t THEN t[p] ELSE disk.bytes[p]
    OBVIOUS
  <2> HIDE DEF b
  <2>7. disk' \in Databases /\ disk'.ver = disk.ver /\ disk'.clients = disk.clients /\ disk'.bytes = b
    BY <1>1, <2>1, <2>5 DEF Databases
  <2> QED BY <1>3, <2>3, <2>6, <2>7
<1> QED BY <1>1, <1>2, <1>3

(* The steps of the writer thread.                                          *)
LEMMA DurableWorker ==
  ASSUME DurableInv, Worker
  PROVE  DurableInv'
<1>1. TypeOK /\ QueueShape /\ HistoryInv /\ WaitInv
  BY DEF DurableInv
<1>2. /\ writer.at \in {"idle", "taken", "committed", "rejected", "notify"} /\ writer.job \in Jobs
      /\ pending \in Seq(Jobs) /\ Len(pending) \in Nat /\ Len(pending) <= 2
  BY <1>1 DEF TypeOK, QueueShape
<1>3. NoJob \in Jobs /\ NoJob.kind = "none"
  <2>1. DOMAIN NoTraffic = {} /\ NoTraffic \in [{} -> BOOLEAN] /\ NoTraffic \in [{} -> 0 .. MaxBytes]
    BY DEF NoTraffic
  <2>2. NoTraffic \in Contents /\ NoTraffic \in Counters
    BY <2>1, ContentsFun, CountersFun
  <2> QED BY <2>2, BoundsAssumption DEF NoJob, Jobs
<1>4. CASE take_pending
  <2>1. /\ UNCHANGED <<db, disk, history, nextRev, processed, successful, request, captured, stopping>>
        /\ UNCHANGED <<acked, failed, lossy, crossed, failures, restarts>>
    BY <1>4 DEF take_pending, ghostVars
  <2>2. /\ Len(pending) >= 1 /\ writer.job = NoJob
        /\ writer' = [at |-> "taken", job |-> pending[1]] /\ pending' = Tail(pending)
    <3>1. pending # <<>> /\ writer' = [at |-> "taken", job |-> Head(pending)] /\ pending' = Tail(pending)
      BY <1>4 DEF take_pending
    <3>2. Len(pending) >= 1 /\ Head(pending) = pending[1]
      BY <1>2, <3>1
    <3>3. writer.job = NoJob
      BY <1>1, <1>4 DEF take_pending, QueueShape
    <3> QED BY <3>1, <3>2, <3>3
  <2>3. /\ pending' \in Seq(Jobs) /\ Len(pending') = Len(pending) - 1
        /\ \A i \in 1 .. Len(pending') : pending'[i] = pending[i + 1] /\ i + 1 \in 1 .. Len(pending)
    BY <1>2, <2>2
  <2>4. pending[1] \in Jobs /\ 1 \in 1 .. Len(pending)
    BY <1>2, <2>2
  <2>5. writer' \in [at : {"idle", "taken", "committed", "rejected", "notify"}, job : Jobs]
    BY <2>2, <2>4
  <2>6. TypeOK'
    BY <1>1, <2>1, <2>3, <2>5 DEF TypeOK
  <2>7. writer'.at = "taken" /\ writer'.job = pending[1]
    BY <2>2
  <2>8. \A i \in 1 .. Len(pending') : pending'[i].kind = "traffic"
    <3> TAKE i \in 1 .. Len(pending')
    <3>1. pending'[i] = pending[i + 1] /\ i + 1 \in 1 .. Len(pending) /\ i + 1 # 1
      BY <2>3
    <3>2. pending[i + 1].kind \in {"snapshot", "traffic"} /\ pending[i + 1].kind # "snapshot"
      BY <1>1, <3>1, Zenon DEF QueueShape
    <3> QED BY <3>1, <3>2
  <2>9. pending[1].kind \in {"snapshot", "traffic"}
    BY <1>1, <2>4, Zenon DEF QueueShape
  <2>10. QueueShape'
    BY <1>2, <2>3, <2>7, <2>8, <2>9 DEF QueueShape
  <2>11. HistoryInv'
    <3>1. pending[1].kind = "snapshot" => SnapshotOfHistory(pending[1]) /\ disk.ver < pending[1].ver
      BY <1>1, <2>4, Zenon DEF HistoryInv
    <3>2. writer'.job.kind = "snapshot" => SnapshotOfHistory(writer.job)' /\ disk'.ver < writer'.job.ver
      BY <2>1, <2>7, <3>1 DEF SnapshotOfHistory
    <3> QED BY <1>1, <2>1, <2>8, <3>2 DEF HistoryInv
  <2>12. WaitInv'
    BY <1>1, <2>1 DEF WaitInv, Waiting
  <2> QED BY <2>6, <2>10, <2>11, <2>12 DEF DurableInv
<1>5. CASE persist_commit
  <2>1. /\ UNCHANGED <<db, history, request, captured, stopping, acked, failed, crossed, failures, restarts>>
        /\ UNCHANGED <<nextRev, processed, successful, pending>>
        /\ writer.at = "taken" /\ writer' = [writer EXCEPT !.at = "committed"]
    BY <1>5 DEF persist_commit, queueVars
  <2>2. writer' \in [at : {"idle", "taken", "committed", "rejected", "notify"}, job : Jobs]
    BY <1>1, <2>1 DEF TypeOK
  <2>3. writer'.at = "committed" /\ writer'.job = writer.job
    BY <1>1, <2>1 DEF TypeOK
  <2>4. lossy' \in BOOLEAN
    BY <1>5, Zenon DEF persist_commit
  <2>5. TypeOK'
    BY <1>1, <1>5, <2>1, <2>2, <2>4, CommitFacts DEF TypeOK
  <2>6. QueueShape'
    BY <1>1, <2>1, <2>3 DEF QueueShape
  <2>7. HistoryInv'
    <3>1. writer'.job.kind = "snapshot" => SnapshotOfHistory(writer.job)'
      BY <1>1, <2>1, <2>3 DEF HistoryInv, SnapshotOfHistory
    <3>2. CASE writer.job.kind = "snapshot"
      <4>1. disk'.ver = writer.job.ver /\ disk'.clients = writer.job.clients /\ disk'.bytes = writer.job.bytes
        BY <1>5, <3>2, CommitFacts
      <4>2. SnapshotOfHistory(writer.job)
        BY <1>1, <3>2 DEF HistoryInv
      <4>3. disk'.ver <= db'.ver /\ disk'.clients = history'[disk'.ver] /\ DOMAIN disk'.bytes = DOMAIN disk'.clients
        BY <2>1, <4>1, <4>2 DEF SnapshotOfHistory
      <4>4. ASSUME NEW i \in 1 .. Len(pending'), pending'[i].kind = "snapshot"
            PROVE  /\ SnapshotOfHistory(pending[i])' /\ disk'.ver < pending'[i].ver
                   /\ writer'.job.kind = "snapshot" => writer'.job.ver < pending'[i].ver
        BY <1>1, <2>1, <2>3, <3>2, <4>1, <4>4 DEF HistoryInv, SnapshotOfHistory
      <4> QED BY <1>1, <2>1, <2>3, <3>1, <4>3, <4>4 DEF HistoryInv
    <3>3. CASE writer.job.kind = "traffic"
      <4>1. disk'.ver = disk.ver /\ disk'.clients = disk.clients /\ DOMAIN disk'.bytes = DOMAIN disk.bytes
        BY <1>5, <3>3, CommitFacts
      <4> QED BY <1>1, <2>1, <2>3, <3>3, <4>1 DEF HistoryInv, SnapshotOfHistory
    <3> QED BY <1>5, <3>2, <3>3, CommitFacts
  <2>8. WaitInv'
    BY <1>1, <2>1 DEF WaitInv, Waiting
  <2> QED BY <2>5, <2>6, <2>7, <2>8 DEF DurableInv
<1>6. CASE persist_fail
  <2>1. /\ UNCHANGED <<db, disk, history, request, captured, stopping, acked, crossed, restarts>>
        /\ UNCHANGED <<nextRev, processed, successful, pending>>
        /\ writer.at = "taken" /\ writer' = [writer EXCEPT !.at = "rejected"]
        /\ failures' = failures + 1
        /\ failed' = IF writer.job.kind = "snapshot" THEN failed \cup {writer.job.ver} ELSE failed
    BY <1>6 DEF persist_fail, queueVars
  <2>2. writer' \in [at : {"idle", "taken", "committed", "rejected", "notify"}, job : Jobs]
    BY <1>1, <2>1 DEF TypeOK
  <2>3. writer'.at = "rejected" /\ writer'.job = writer.job
    BY <1>1, <2>1 DEF TypeOK
  <2>4. lossy' \in BOOLEAN
    BY <1>6, Zenon DEF persist_fail
  <2>5. failed' \subseteq 1 .. MaxVersion
    <3>1. writer.job.kind = "snapshot" => writer.job.ver \in 1 .. MaxVersion
      BY <1>1, <1>2, BoundsAssumption DEF HistoryInv, SnapshotOfHistory, Jobs, TypeOK, Databases
    <3> QED BY <1>1, <2>1, <3>1 DEF TypeOK
  <2>6. TypeOK'
    BY <1>1, <2>1, <2>2, <2>4, <2>5 DEF TypeOK
  <2>7. QueueShape'
    BY <1>1, <2>1, <2>3 DEF QueueShape
  <2>8. HistoryInv'
    BY <1>1, <2>1, <2>3 DEF HistoryInv, SnapshotOfHistory
  <2>9. WaitInv'
    BY <1>1, <2>1 DEF WaitInv, Waiting
  <2> QED BY <2>6, <2>7, <2>8, <2>9 DEF DurableInv
<1>7. CASE complete
  <2>1. /\ UNCHANGED <<db, disk, history, nextRev, pending, request, captured, stopping>>
        /\ UNCHANGED <<acked, failed, lossy, crossed, failures, restarts>>
        /\ writer' = [at |-> "notify", job |-> NoJob]
    BY <1>7 DEF complete, ghostVars
  <2>2. processed' \in Nat /\ successful' \in Nat
    BY <1>1, <1>2, <1>7 DEF complete, TypeOK, Jobs
  <2>3. writer' \in [at : {"idle", "taken", "committed", "rejected", "notify"}, job : Jobs]
    BY <1>3, <2>1
  <2>4. writer'.at = "notify" /\ writer'.job = NoJob /\ writer'.job.kind = "none"
    BY <1>3, <2>1
  <2>5. TypeOK'
    BY <1>1, <2>1, <2>2, <2>3 DEF TypeOK
  <2>6. QueueShape'
    BY <1>1, <2>1, <2>4 DEF QueueShape
  <2>7. HistoryInv'
    BY <1>1, <2>1, <2>4 DEF HistoryInv, SnapshotOfHistory
  <2>8. WaitInv'
    BY <1>1, <2>1 DEF WaitInv, Waiting
  <2> QED BY <2>5, <2>6, <2>7, <2>8 DEF DurableInv
<1>8. CASE notify_waiters
  <2>1. /\ UNCHANGED <<db, disk, history, captured, stopping>>
        /\ UNCHANGED <<acked, failed, lossy, crossed, failures, restarts>>
        /\ UNCHANGED <<nextRev, processed, successful, pending>>
        /\ writer.at = "notify" /\ writer' = [writer EXCEPT !.at = "idle"]
    BY <1>8 DEF notify_waiters, ghostVars, queueVars
  <2>2. writer' \in [at : {"idle", "taken", "committed", "rejected", "notify"}, job : Jobs]
    BY <1>1, <2>1 DEF TypeOK
  <2>3. writer'.at = "idle" /\ writer'.job = writer.job
    BY <1>1, <2>1 DEF TypeOK
  <2>4. \A r \in Requests : /\ request'[r].at = request[r].at /\ request'[r].ver = request[r].ver
    BY <1>1, <1>8 DEF notify_waiters, TypeOK
  <2>5. request' \in [Requests -> [at : {"idle", "register", "check", "await", "park", "ok", "failed", "late"},
                                 rev : Nat, ver : 0 .. MaxVersion, woken : BOOLEAN]]
    BY <1>1, <1>8 DEF notify_waiters, TypeOK
  <2>6. TypeOK'
    BY <1>1, <2>1, <2>2, <2>5 DEF TypeOK
  <2>7. QueueShape'
    BY <1>1, <2>1, <2>3 DEF QueueShape
  <2>8. HistoryInv'
    BY <1>1, <2>1, <2>3 DEF HistoryInv, SnapshotOfHistory
  <2>9. WaitInv'
    BY <1>1, <2>1, <2>4 DEF WaitInv, Waiting
  <2> QED BY <2>6, <2>7, <2>8, <2>9 DEF DurableInv
<1> QED BY <1>4, <1>5, <1>6, <1>7, <1>8 DEF Worker

(* What a step of a waiting handler may do: only its own entry changes, and *)
(* while it waits its revision and version stay.                            *)
LEMMA HandlerFacts ==
  ASSUME TypeOK, WaitInv, NEW r \in Requests, Handler(r) \/ wait_timeout(r)
  PROVE  /\ UNCHANGED <<db, disk, history, writer, captured, stopping, failed, lossy, crossed, failures, restarts>>
         /\ UNCHANGED <<nextRev, processed, successful, pending>>
         /\ request' \in [Requests -> [at : {"idle", "register", "check", "await", "park", "ok", "failed", "late"},
                                       rev : Nat, ver : 0 .. MaxVersion, woken : BOOLEAN]]
         /\ \A q \in Requests : Waiting(q)' => /\ Waiting(q) /\ request'[q].rev = request[q].rev
                                               /\ request'[q].ver = request[q].ver
         /\ \/ acked' = acked
            \/ /\ Waiting(r) /\ successful >= request[r].rev
               /\ acked' = acked \cup {request[r].ver}
<1> DEFINE R == [at : {"idle", "register", "check", "await", "park", "ok", "failed", "late"},
                 rev : Nat, ver : 0 .. MaxVersion, woken : BOOLEAN]
<1>1. request \in [Requests -> R] /\ request[r] \in R
  BY DEF TypeOK
<1>2. ASSUME NEW how \in {"ok", "failed", "late"}, Answer(r, how)
      PROVE  /\ request' \in [Requests -> R]
             /\ \A q \in Requests : Waiting(q)' => q # r /\ request'[q] = request[q]
  <2>1. [Idle EXCEPT !.at = how] \in R /\ [Idle EXCEPT !.at = how].at = how
    <3>1. Idle \in R
      BY BoundsAssumption DEF Idle
    <3> QED BY <3>1
  <2>2. request' = [request EXCEPT ![r] = [Idle EXCEPT !.at = how]]
    BY <1>2 DEF Answer
  <2> HIDE DEF R
  <2>3. request' \in [Requests -> R] /\ request'[r].at = how
    BY <1>1, <2>1, <2>2
  <2>4. \A q \in Requests : q # r => request'[q] = request[q]
    BY <1>1, <2>2
  <2> QED BY <2>3, <2>4 DEF Waiting
<1>3. CASE wait_register(r)
  BY <1>1, <1>3 DEF wait_register, Waiting, queueVars, ghostVars
<1>4. CASE wait_check(r)
  <2>1. /\ UNCHANGED <<db, disk, history, writer, captured, stopping, failed, lossy, crossed, failures, restarts>>
        /\ UNCHANGED <<nextRev, processed, successful, pending>>
        /\ request[r].at = "check"
    BY <1>4 DEF wait_check, queueVars
  <2>2. CASE /\ successful >= request[r].rev /\ Answer(r, "ok")
             /\ acked' = acked \cup {request[r].ver}
    BY <1>2, <2>1, <2>2 DEF Waiting
  <2>3. CASE Answer(r, "failed") /\ UNCHANGED acked
    BY <1>2, <2>1, <2>3 DEF Waiting
  <2>4. CASE request' = [request EXCEPT ![r].at = "await"] /\ UNCHANGED acked
    BY <1>1, <2>1, <2>4 DEF Waiting
  <2> QED BY <1>4, <2>2, <2>3, <2>4 DEF wait_check
<1>5. CASE wait_poll(r)
  BY <1>1, <1>5 DEF wait_poll, Waiting, queueVars, ghostVars
<1>6. CASE wait_woken(r)
  BY <1>1, <1>6 DEF wait_woken, Waiting, queueVars, ghostVars
<1>7. CASE wait_timeout(r)
  <2>1. Answer(r, "late")
    BY <1>7 DEF wait_timeout
  <2> QED BY <1>2, <1>7, <2>1 DEF wait_timeout, Waiting, queueVars, ghostVars
<1> QED BY <1>3, <1>4, <1>5, <1>6, <1>7 DEF Handler

(* A step of a handler that waits.                                          *)
LEMMA DurableHandler ==
  ASSUME DurableInv, NEW r \in Requests, Handler(r) \/ wait_timeout(r)
  PROVE  DurableInv'
<1>1. TypeOK /\ QueueShape /\ HistoryInv /\ WaitInv
  BY DEF DurableInv
<1>2. /\ UNCHANGED <<db, disk, history, writer, captured, stopping, failed, lossy, crossed, failures, restarts>>
      /\ UNCHANGED <<nextRev, processed, successful, pending>>
  BY <1>1, HandlerFacts
<1>3. /\ request' \in [Requests -> [at : {"idle", "register", "check", "await", "park", "ok", "failed", "late"},
                                    rev : Nat, ver : 0 .. MaxVersion, woken : BOOLEAN]]
      /\ \A q \in Requests : Waiting(q)' => Waiting(q) /\ request'[q].ver = request[q].ver
      /\ acked' = acked \/ (Waiting(r) /\ acked' = acked \cup {request[r].ver})
  BY <1>1, HandlerFacts
<1>4. acked' \subseteq 1 .. MaxVersion
  <2>1. db.ver \in 1 .. MaxVersion /\ acked \subseteq 1 .. MaxVersion
    BY <1>1 DEF TypeOK, Databases
  <2>2. Waiting(r) => request[r].ver \in 1 .. MaxVersion
    BY <1>1, <2>1, BoundsAssumption DEF WaitInv
  <2> QED BY <1>3, <2>1, <2>2
<1>5. TypeOK'
  BY <1>1, <1>2, <1>3, <1>4 DEF TypeOK
<1>6. QueueShape' /\ HistoryInv'
  BY <1>1, <1>2 DEF QueueShape, HistoryInv, SnapshotOfHistory
<1>7. WaitInv'
  BY <1>1, <1>2, <1>3 DEF WaitInv
<1> QED BY <1>5, <1>6, <1>7 DEF DurableInv

(* What is left of the history when the process comes back.                 *)
LEMMA RestartFacts ==
  ASSUME DurableInv, Restart
  PROVE  /\ db' = disk /\ disk' = disk /\ disk.ver \in 1 .. MaxVersion
         /\ history' \in Seq(Contents) /\ Len(history') = disk.ver
         /\ \A i \in 1 .. disk.ver : history'[i] = history[i]
         /\ pending' = <<>> /\ pending' \in Seq(Jobs) /\ Len(pending') = 0
         /\ writer'.at = "idle" /\ writer'.job = NoJob /\ NoJob.kind = "none"
         /\ DOMAIN NoJob.bytes = {} /\ NoJob.rev = 0
         /\ \A f \in Flushers : captured'[f] = NoTraffic /\ DOMAIN captured'[f] = {}
         /\ \A r \in Requests : ~ Waiting(r)'
         /\ nextRev' = 0 /\ successful' = 0 /\ acked' = {} /\ failed' = {} /\ lossy' = FALSE
         /\ stopping' = "no" /\ crossed' = {}
<1>1. /\ disk.ver \in 1 .. MaxVersion /\ db.ver \in 1 .. MaxVersion /\ disk.ver <= db.ver
      /\ history \in Seq(Contents) /\ Len(history) = db.ver
  BY DEF DurableInv, TypeOK, Databases, HistoryInv
<1>2. /\ history' \in Seq(Contents) /\ Len(history') = disk.ver
      /\ \A i \in 1 .. disk.ver : history'[i] = history[i]
  BY <1>1, BoundsAssumption DEF Restart
<1>3. \A f \in Flushers : captured'[f] = NoTraffic /\ DOMAIN captured'[f] = {}
  BY DEF Restart, NoTraffic
<1>4. \A r \in Requests : ~ Waiting(r)'
  BY DEF Restart, Waiting, Idle
<1>5. NoJob.kind = "none" /\ DOMAIN NoJob.bytes = {} /\ NoJob.rev = 0
  BY DEF NoJob, NoTraffic
<1> QED BY <1>1, <1>2, <1>3, <1>4, <1>5 DEF Restart

(* The death and restart of the process.                                    *)
LEMMA DurableRestart ==
  ASSUME DurableInv, Restart
  PROVE  DurableInv'
<1>1. TypeOK /\ QueueShape /\ HistoryInv /\ WaitInv
  BY DEF DurableInv
<1>2. NoTraffic \in Contents /\ NoTraffic \in Counters
  <2>1. DOMAIN NoTraffic = {} /\ NoTraffic \in [{} -> BOOLEAN] /\ NoTraffic \in [{} -> 0 .. MaxBytes]
    BY DEF NoTraffic
  <2> QED BY <2>1, ContentsFun, CountersFun
<1>3. TypeOK'
  <2>1. writer' \in [at : {"idle", "taken", "committed", "rejected", "notify"}, job : Jobs]
    <3>1. NoJob \in Jobs
      BY <1>2, BoundsAssumption DEF NoJob, Jobs
    <3> QED BY <3>1 DEF Restart
  <2>2. request' \in [Requests -> [at : {"idle", "register", "check", "await", "park", "ok", "failed", "late"},
                                   rev : Nat, ver : 0 .. MaxVersion, woken : BOOLEAN]]
    BY BoundsAssumption DEF Restart, Idle
  <2>3. captured' \in [Flushers -> Counters]
    BY <1>2 DEF Restart
  <2>4. lossy' \in BOOLEAN
    BY Zenon DEF Restart
  <2>5. /\ nextRev' \in Nat /\ processed' \in Nat /\ successful' \in Nat
        /\ acked' \subseteq 1 .. MaxVersion /\ failed' \subseteq 1 .. MaxVersion
        /\ failures' \in Nat /\ restarts' \in Nat
    BY <1>1 DEF Restart, TypeOK
  <2> QED BY <1>1, <2>1, <2>2, <2>3, <2>4, <2>5, RestartFacts DEF TypeOK
<1>4. QueueShape'
  BY RestartFacts DEF QueueShape
<1>5. HistoryInv'
  <2>1. db' = disk /\ disk' = disk /\ disk.ver \in 1 .. MaxVersion /\ history'[disk.ver] = history[disk.ver]
    <3>1. db' = disk /\ disk' = disk /\ disk.ver \in 1 .. MaxVersion
      BY RestartFacts
    <3>2. disk.ver \in 1 .. disk.ver
      BY <3>1, BoundsAssumption
    <3> QED BY <3>1, <3>2, RestartFacts
  <2>2. db'.clients = history'[db'.ver] /\ DOMAIN db'.bytes = DOMAIN db'.clients
    BY <1>1, <2>1 DEF HistoryInv
  <2>3. disk'.ver <= db'.ver
    BY <2>1, BoundsAssumption
  <2>4. writer'.job.kind # "snapshot"
    BY RestartFacts
  <2>5. \A i \in 1 .. Len(pending') : FALSE
    BY RestartFacts
  <2> QED BY <2>1, <2>2, <2>3, <2>4, <2>5 DEF HistoryInv
<1>6. WaitInv'
  BY RestartFacts DEF WaitInv
<1> QED BY <1>3, <1>4, <1>5, <1>6 DEF DurableInv

(* The invariant is inductive.                                              *)
LEMMA DurableStep ==
  ASSUME DurableInv, [Next]_vars
  PROVE  DurableInv'
<1>0. TypeOK
  BY DEF DurableInv
<1>1. ASSUME NEW r \in Requests,
             clients_create(r) \/ clients_create_refused(r) \/ client_edit(r) \/ client_delete(r)
      PROVE  DurableInv'
  BY <1>0, <1>1, PanelSteps, DurableEdit, DurableForget
<1>2. CASE password_janitor \/ getconf_bind \/ shutdown_save
  BY <1>0, <1>2, JanitorSteps, DurableEdit
<1>3. ASSUME NEW f \in Flushers, flush_capture(f) \/ flush_submit(f) PROVE DurableInv'
  BY <1>3, DurableFlush
<1>4. CASE Worker
  BY <1>4, DurableWorker
<1>5. ASSUME NEW r \in Requests, Handler(r) \/ wait_timeout(r) PROVE DurableInv'
  BY <1>5, DurableHandler
<1>6. CASE Restart
  BY <1>6, DurableRestart
<1>7. CASE UNCHANGED vars
  BY <1>7 DEF vars, queueVars, ghostVars, DurableInv, TypeOK, QueueShape, HistoryInv,
              SnapshotOfHistory, WaitInv, Waiting
<1> QED BY <1>1, <1>2, <1>3, <1>4, <1>5, <1>6, <1>7 DEF Next

(* The queue of the writer is bounded whatever the disk does: one snapshot, *)
(* at the head, and one merged traffic update, as the comments of           *)
(* submit_snapshot and submit_traffic promise.                              *)
THEOREM QueueStaysBounded == Spec => []QueueBounded
<1>1. Init => DurableInv
  BY DurableInit
<1>2. DurableInv /\ [Next]_vars => DurableInv'
  BY DurableStep
<1>3. DurableInv => QueueBounded
  <2> SUFFICES ASSUME DurableInv PROVE QueueBounded
    OBVIOUS
  <2>1. TypeOK /\ QueueShape
    BY DEF DurableInv
  <2>2. DOMAIN pending = 1 .. Len(pending)
    BY <2>1 DEF TypeOK
  <2> QED BY <2>1, <2>2 DEF QueueBounded, QueueShape
<1> QED BY <1>1, <1>2, <1>3, PTL DEF Spec

------------------------------------------------------------------------------
(* The writer thread, the queue, the flushes, failed writes and restarts    *)
(* together implement DurableStore: the disk always holds one whole content *)
(* of the history, moves only forward through it, and traffic that arrives  *)
(* late never brings back a deleted client.                                 *)
THEOREM StoreImplemented == Spec => ImplementsStore
<1>1. Init => Store!Init
  <2> SUFFICES ASSUME Init PROVE Store!Init
    OBVIOUS
  <2>1. TypeOK /\ HistoryInv
    BY DurableInit DEF DurableInv
  <2>2. db.clients \in Contents /\ history = <<db.clients>> /\ disk = db /\ disk.ver = 1
    BY <2>1 DEF Init, TypeOK, Databases
  <2> QED BY <2>2 DEF Store!Init
<1>2. DurableInv /\ [Next]_vars => [Store!Next]_(Store!vars)
  <2> SUFFICES ASSUME DurableInv, [Next]_vars PROVE [Store!Next]_(Store!vars)
    OBVIOUS
  <2>1. TypeOK /\ HistoryInv /\ WaitInv
    BY DEF DurableInv
  <2>2. ASSUME NEW c \in Contents, Change(c), disk' = disk PROVE Store!Next
    <3>1. history' = Append(history, c)
      BY <2>2 DEF Change
    <3> QED BY <2>2, <3>1, Zenon DEF Store!Next, Store!Change
  <2>3. ASSUME UNCHANGED <<history, disk>> PROVE [Store!Next]_(Store!vars)
    BY <2>3 DEF Store!vars
  <2>4. ASSUME \E c \in Contents : Edit(c) \/ Forget(c) PROVE [Store!Next]_(Store!vars)
    BY <2>2, <2>4 DEF Edit, Forget, Mutate
  <2>5. ASSUME NEW r \in Requests,
               clients_create(r) \/ clients_create_refused(r) \/ client_edit(r) \/ client_delete(r)
        PROVE  [Store!Next]_(Store!vars)
    BY <2>1, <2>4, <2>5, PanelSteps
  <2>6. CASE password_janitor \/ getconf_bind \/ shutdown_save
    BY <2>1, <2>4, <2>6, JanitorSteps
  <2>7. ASSUME NEW f \in Flushers, flush_capture(f) \/ flush_submit(f) PROVE [Store!Next]_(Store!vars)
    BY <2>3, <2>7 DEF flush_capture, flush_submit
  <2>8. CASE persist_commit
    <3>1. history' = history
      BY <2>8 DEF persist_commit
    <3>2. CASE writer.job.kind = "snapshot"
      <4>1. /\ disk.ver < writer.job.ver /\ disk'.ver = writer.job.ver
            /\ disk'.clients = writer.job.clients
        BY <2>8, <3>2, CommitFacts
      <4>2. SnapshotOfHistory(writer.job) /\ Len(history) = db.ver
            /\ disk.ver \in 1 .. MaxVersion /\ db.ver \in 1 .. MaxVersion
        BY <2>1, <3>2 DEF HistoryInv, TypeOK, Databases
      <4>3. disk'.ver \in (disk.ver + 1) .. Len(history)
        BY <4>1, <4>2, BoundsAssumption DEF SnapshotOfHistory
      <4>4. disk'.clients = history[disk'.ver]
        BY <4>1, <4>2 DEF SnapshotOfHistory
      <4> QED BY <3>1, <4>3, <4>4 DEF Store!Next, Store!Persist
    <3>3. CASE writer.job.kind = "traffic"
      <4>1. disk'.ver = disk.ver /\ disk'.clients = disk.clients
        BY <2>8, <3>3, CommitFacts
      <4> QED BY <3>1, <4>1 DEF Store!vars
    <3> QED BY <2>8, <3>2, <3>3, CommitFacts
  <2>9. CASE take_pending \/ persist_fail \/ complete \/ notify_waiters
    BY <2>3, <2>9 DEF take_pending, persist_fail, complete, notify_waiters
  <2>10. ASSUME NEW r \in Requests, Handler(r) \/ wait_timeout(r) PROVE [Store!Next]_(Store!vars)
    BY <2>1, <2>3, <2>10, HandlerFacts
  <2>11. CASE Restart
    <3>1. history' = SubSeq(history, 1, disk.ver) /\ disk' = disk
      BY <2>11 DEF Restart
    <3> QED BY <3>1 DEF Store!Next, Store!Restart
  <2>12. CASE UNCHANGED vars
    BY <2>3, <2>12 DEF vars
  <2> QED BY <2>5, <2>6, <2>7, <2>8, <2>9, <2>10, <2>11, <2>12 DEF Next, Worker
<1>3. Init => DurableInv
  BY DurableInit
<1>4. DurableInv /\ [Next]_vars => DurableInv'
  BY DurableStep
<1> QED BY <1>1, <1>2, <1>3, <1>4, PTL DEF Spec, ImplementsStore, Store!Spec

------------------------------------------------------------------------------
(* What has been settled stays settled while the process lives.             *)
LEMMA SettledStays ==
  ASSUME TypeOK, TypeOK', disk.ver <= disk'.ver, failed \subseteq failed',
         NEW v \in 0 .. MaxVersion, disk.ver >= v \/ \E f \in failed : f >= v
  PROVE  disk'.ver >= v \/ \E f \in failed' : f >= v
<1>1. disk.ver \in Nat /\ disk'.ver \in Nat /\ v \in Nat
  BY BoundsAssumption DEF TypeOK, Databases
<1> QED BY <1>1

(* The relation between revisions and versions is kept by every step.       *)
LEMMA AckStep ==
  ASSUME AckInv, [Next]_vars
  PROVE  AckInv'
<1>1. DurableInv /\ TypeOK /\ QueueShape /\ HistoryInv /\ WaitInv /\ RevisionInv /\ AckedUnlessFailed
  BY DEF AckInv, DurableInv
<1>2. DurableInv' /\ TypeOK' /\ QueueShape' /\ HistoryInv'
  BY <1>1, DurableStep DEF DurableInv
<1>3. /\ disk.ver \in Nat /\ disk'.ver \in Nat /\ db.ver \in Nat
      /\ nextRev \in Nat /\ successful \in Nat /\ pending \in Seq(Jobs) /\ Len(pending) \in Nat
      /\ writer.job \in Jobs /\ writer.job.rev \in Nat
      /\ acked \subseteq 0 .. MaxVersion /\ failed \subseteq 1 .. MaxVersion
      /\ \A r \in Requests : request[r].rev \in Nat /\ request[r].ver \in 0 .. MaxVersion
  <2>1. /\ disk \in Databases /\ disk' \in Databases /\ db \in Databases
        /\ nextRev \in Nat /\ successful \in Nat /\ pending \in Seq(Jobs)
        /\ writer.job \in Jobs /\ acked \subseteq 1 .. MaxVersion /\ failed \subseteq 1 .. MaxVersion
    BY <1>1, <1>2 DEF TypeOK
  <2>2. \A r \in Requests : request[r].rev \in Nat /\ request[r].ver \in 0 .. MaxVersion
    BY <1>1 DEF TypeOK
  <2>3. disk.ver \in Nat /\ disk'.ver \in Nat /\ db.ver \in Nat
    BY <2>1 DEF Databases
  <2>4. writer.job.rev \in Nat
    BY <2>1 DEF Jobs
  <2>5. Len(pending) \in Nat /\ acked \subseteq 0 .. MaxVersion
    BY <2>1, BoundsAssumption
  <2> QED BY <2>1, <2>2, <2>3, <2>4, <2>5
<1>4. ASSUME disk.ver <= disk'.ver, failed \subseteq failed', acked' = acked
      PROVE  AckedUnlessFailed'
  <2>1. \A v \in acked : disk'.ver >= v \/ \E f \in failed' : f >= v
    BY <1>1, <1>2, <1>3, <1>4, SettledStays DEF AckedUnlessFailed
  <2> QED BY <1>4, <2>1 DEF AckedUnlessFailed
<1>5. ASSUME UNCHANGED <<disk, failed, acked, request, writer, pending, successful, nextRev>>
      PROVE  AckInv'
  <2>1. disk.ver <= disk'.ver
    BY <1>3, <1>5
  <2>2. AckedUnlessFailed'
    BY <1>4, <1>5, <2>1
  <2>3. RevisionInv'
    BY <1>1, <1>5 DEF RevisionInv, Waiting, Covered, Settled
  <2> QED BY <1>2, <2>2, <2>3 DEF AckInv
<1>6. ASSUME NEW c, Edit(c) PROVE AckInv'
  <2>1. UNCHANGED <<disk, writer, acked, failed>> /\ NewContent(c) /\ Change(c) /\ submit_snapshot(db')
    BY <1>6 DEF Edit, Mutate, ghostVars
  <2>2. db' \in Databases /\ db'.ver = db.ver + 1
    BY <1>1, <2>1, ChangeFacts
  <2>3. /\ Len(pending') = 1 /\ pending'[1] = Snapshot(nextRev + 1, db')
        /\ nextRev' = nextRev + 1 /\ successful' = successful
    BY <1>1, <2>1, <2>2, SnapshotQueued
  <2>4. /\ pending'[1].rev = nextRev + 1 /\ pending'[1].ver = db.ver + 1
        /\ pending'[1].kind = "snapshot"
    BY <2>2, <2>3 DEF Snapshot
  <2>5. successful <= nextRev /\ writer.job.rev <= nextRev
    BY <1>1 DEF RevisionInv
  <2>6. ASSUME NEW r \in Requests, Waiting(r)'
        PROVE  request'[r].rev >= 1 /\ Covered(request[r].rev, request[r].ver)'
    <3>1. CASE request'[r] = request[r]
      <4>1. /\ request[r].rev >= 1 /\ request[r].ver \in 1 .. db.ver
            /\ Covered(request[r].rev, request[r].ver)
        BY <1>1, <2>6, <3>1 DEF RevisionInv, WaitInv, Waiting
      <4> QED BY <1>3, <2>1, <2>3, <2>4, <2>5, <3>1, <4>1 DEF Covered, Settled
    <3>2. CASE request'[r] = [at |-> "register", rev |-> nextRev', ver |-> db'.ver, woken |-> FALSE]
      <4>1. request'[r].rev = nextRev + 1 /\ request'[r].ver = db.ver + 1
        BY <2>2, <2>3, <3>2
      <4>2. /\ successful' < nextRev + 1 /\ writer'.job.rev < nextRev + 1
            /\ Len(pending') > 0 /\ pending'[1].ver >= db.ver + 1
        BY <1>3, <2>1, <2>3, <2>4, <2>5
      <4> QED BY <1>3, <2>4, <4>1, <4>2 DEF Covered
    <3> QED BY <1>1, <1>6, <3>1, <3>2 DEF Edit, AwaitRevision, TypeOK
  <2>7. \A i \in 1 .. Len(pending') : pending'[i].rev <= nextRev'
    BY <1>3, <2>3, <2>4
  <2>8. RevisionInv'
    BY <1>3, <2>1, <2>3, <2>5, <2>6, <2>7 DEF RevisionInv
  <2>9. AckedUnlessFailed'
    BY <1>3, <1>4, <2>1
  <2> QED BY <1>2, <2>8, <2>9 DEF AckInv
<1>7. ASSUME NEW c, Forget(c) PROVE AckInv'
  BY <1>5, <1>7 DEF Forget, queueVars
<1>8. ASSUME NEW r \in Requests,
             clients_create(r) \/ clients_create_refused(r) \/ client_edit(r) \/ client_delete(r)
      PROVE  AckInv'
  BY <1>1, <1>6, <1>7, <1>8, PanelSteps
<1>9. CASE password_janitor \/ getconf_bind \/ shutdown_save
  BY <1>1, <1>6, <1>9, JanitorSteps
<1>10. ASSUME NEW f \in Flushers, flush_capture(f) PROVE AckInv'
  BY <1>5, <1>10 DEF flush_capture, queueVars, ghostVars
<1>11. ASSUME NEW f \in Flushers, flush_submit(f) PROVE AckInv'
  <2>1. UNCHANGED <<disk, writer, request, acked, failed>>
    BY <1>11 DEF flush_submit, ghostVars
  <2>2. captured[f] \in Counters /\ submit_traffic(captured[f])
    BY <1>1, <1>11 DEF TypeOK, flush_submit
  <2>3. /\ Len(pending') \in 1 .. 2 /\ nextRev' = nextRev + 1 /\ successful' = successful
        /\ pending'[Len(pending')].kind = "traffic" /\ pending'[Len(pending')].rev = nextRev + 1
        /\ Len(pending') = 2 => /\ Len(pending) > 0 /\ pending[1].kind = "snapshot"
                                /\ pending'[1] = pending[1]
        /\ Len(pending') = 1 => Len(pending) = 0 \/ pending[1].kind = "traffic"
    BY <1>1, <2>2, TrafficQueued
  <2>4. \A i \in 1 .. Len(pending) : pending[i].rev <= nextRev /\ pending[i].rev \in Nat
    <3>1. \A i \in 1 .. Len(pending) : pending[i] \in Jobs
      BY <1>3
    <3> QED BY <1>1, <3>1 DEF RevisionInv, Jobs
  <2>5. \A i \in 1 .. Len(pending') : pending'[i].rev <= nextRev'
    <3> TAKE i \in 1 .. Len(pending')
    <3>1. i = Len(pending') \/ (i = 1 /\ Len(pending') = 2)
      BY <2>3
    <3>2. CASE i = Len(pending')
      BY <1>3, <2>3, <3>2
    <3>3. CASE i = 1 /\ Len(pending') = 2
      <4>1. 1 \in 1 .. Len(pending) /\ pending'[i] = pending[1]
        BY <1>3, <2>3, <3>3
      <4> QED BY <1>3, <2>3, <2>4, <4>1
    <3> QED BY <3>1, <3>2, <3>3
  <2>6. ASSUME NEW r \in Requests, Waiting(r)'
        PROVE  request'[r].rev >= 1 /\ Covered(request[r].rev, request[r].ver)'
    <3>1. Waiting(r) /\ request' = request
      BY <2>1, <2>6 DEF Waiting
    <3>2. request[r].rev >= 1 /\ Covered(request[r].rev, request[r].ver)
      BY <1>1, <3>1 DEF RevisionInv
    <3>3. Len(pending) > 0 /\ pending[1].kind = "snapshot" =>
             Len(pending') > 0 /\ pending'[1] = pending[1]
      BY <1>3, <2>3
    <3> QED BY <2>1, <2>3, <3>1, <3>2, <3>3 DEF Covered, Settled
  <2>7. RevisionInv'
    BY <1>1, <1>3, <2>1, <2>3, <2>5, <2>6 DEF RevisionInv
  <2>8. AckedUnlessFailed'
    BY <1>3, <1>4, <2>1
  <2> QED BY <1>2, <2>7, <2>8 DEF AckInv
<1>12. CASE take_pending
  <2>1. UNCHANGED <<disk, nextRev, successful, request, acked, failed>>
    BY <1>12 DEF take_pending, ghostVars
  <2>2. pending # <<>> /\ writer'.job = Head(pending) /\ writer'.at = "taken" /\ pending' = Tail(pending)
    BY <1>12 DEF take_pending
  <2>3. /\ Len(pending) > 0 /\ writer'.job = pending[1] /\ 1 \in 1 .. Len(pending)
        /\ \A i \in 1 .. Len(pending') : pending'[i] = pending[i + 1] /\ i + 1 \in 1 .. Len(pending)
    BY <1>3, <2>2
  <2>4. ASSUME NEW r \in Requests, Waiting(r)'
        PROVE  request'[r].rev >= 1 /\ Covered(request[r].rev, request[r].ver)'
    <3>1. Waiting(r) /\ request' = request
      BY <2>1, <2>4 DEF Waiting
    <3>2. request[r].rev >= 1 /\ Covered(request[r].rev, request[r].ver)
      BY <1>1, <3>1 DEF RevisionInv
    <3>3. writer.at = "idle"
      BY <1>12 DEF take_pending
    <3> QED BY <2>1, <2>2, <2>3, <3>1, <3>2, <3>3 DEF Covered, Settled
  <2>5. /\ writer'.job.rev <= nextRev'
        /\ \A i \in 1 .. Len(pending') : pending'[i].rev <= nextRev'
    BY <1>1, <2>1, <2>3 DEF RevisionInv
  <2>6. RevisionInv'
    BY <1>1, <2>1, <2>4, <2>5 DEF RevisionInv
  <2>7. AckedUnlessFailed'
    BY <1>3, <1>4, <2>1
  <2> QED BY <1>2, <2>6, <2>7 DEF AckInv
<1>13. CASE persist_commit \/ persist_fail
  <2>1. /\ UNCHANGED <<nextRev, successful, pending, request, acked>>
        /\ writer.at = "taken" /\ writer'.job = writer.job
    <3>1. writer.at = "taken" /\ \E a : writer' = [writer EXCEPT !.at = a]
      BY <1>13 DEF persist_commit, persist_fail
    <3>2. writer'.job = writer.job
      BY <1>1, <3>1 DEF TypeOK
    <3> QED BY <1>13, <3>1, <3>2 DEF persist_commit, persist_fail, queueVars
  <2>2. /\ disk.ver <= disk'.ver /\ failed \subseteq failed'
        /\ writer.job.kind = "snapshot" => disk'.ver = writer.job.ver \/ writer.job.ver \in failed'
    <3>1. CASE persist_commit
      <4>1. failed' = failed
        BY <3>1 DEF persist_commit
      <4>2. disk.ver <= disk'.ver /\ (writer.job.kind = "snapshot" => disk'.ver = writer.job.ver)
        BY <1>1, <1>3, <3>1, CommitFacts
      <4> QED BY <4>1, <4>2
    <3>2. CASE persist_fail
      BY <1>3, <3>2 DEF persist_fail
    <3> QED BY <1>13, <3>1, <3>2
  <2>3. ASSUME NEW r \in Requests, Waiting(r)'
        PROVE  request'[r].rev >= 1 /\ Covered(request[r].rev, request[r].ver)'
    <3>1. Waiting(r) /\ request' = request
      BY <2>1, <2>3 DEF Waiting
    <3>2. request[r].rev >= 1 /\ Covered(request[r].rev, request[r].ver)
      BY <1>1, <3>1 DEF RevisionInv
    <3>3. CASE Settled(request[r].ver)
      <4>1. disk'.ver >= request[r].ver \/ \E f \in failed' : f >= request[r].ver
        BY <1>1, <1>2, <1>3, <2>2, <3>3, SettledStays DEF Settled
      <4> QED BY <3>1, <3>2, <4>1 DEF Covered, Settled
    <3>4. CASE writer.job.kind = "snapshot" /\ writer.job.ver >= request[r].ver
      BY <2>2, <3>1, <3>2, <3>4 DEF Covered, Settled
    <3>5. CASE /\ successful < request[r].rev
               /\ Len(pending) > 0 /\ pending[1].kind = "snapshot" /\ pending[1].ver >= request[r].ver
               /\ writer.job.rev < request[r].rev
      BY <2>1, <3>1, <3>2, <3>5 DEF Covered
    <3> QED BY <3>2, <3>3, <3>4, <3>5 DEF Covered
  <2>4. RevisionInv'
    BY <1>1, <2>1, <2>3 DEF RevisionInv
  <2>5. AckedUnlessFailed'
    BY <1>4, <2>1, <2>2
  <2> QED BY <1>2, <2>4, <2>5 DEF AckInv
<1>14. CASE complete
  <2>1. UNCHANGED <<disk, nextRev, pending, request, acked, failed>> /\ writer'.job = NoJob
    BY <1>14 DEF complete, ghostVars
  <2>2. NoJob.rev = 0
    BY DEF NoJob
  <2>3. /\ successful' = successful \/ successful' = writer.job.rev
        /\ writer.at # "taken"
    BY <1>14 DEF complete
  <2>4. ASSUME NEW r \in Requests, Waiting(r)'
        PROVE  request'[r].rev >= 1 /\ Covered(request[r].rev, request[r].ver)'
    <3>1. Waiting(r) /\ request' = request
      BY <2>1, <2>4 DEF Waiting
    <3>2. request[r].rev >= 1 /\ Covered(request[r].rev, request[r].ver)
      BY <1>1, <3>1 DEF RevisionInv
    <3> QED BY <1>3, <2>1, <2>2, <2>3, <3>1, <3>2 DEF Covered, Settled
  <2>5. RevisionInv'
    BY <1>1, <1>3, <2>1, <2>2, <2>3, <2>4 DEF RevisionInv
  <2>6. AckedUnlessFailed'
    BY <1>3, <1>4, <2>1
  <2> QED BY <1>2, <2>5, <2>6 DEF AckInv
<1>15. CASE notify_waiters
  <2>1. UNCHANGED <<disk, nextRev, successful, pending, acked, failed>> /\ writer'.job = writer.job
    BY <1>1, <1>15 DEF notify_waiters, ghostVars, queueVars, TypeOK
  <2>2. writer.at = "notify"
    BY <1>15 DEF notify_waiters
  <2>3. ASSUME NEW r \in Requests, Waiting(r)'
        PROVE  request'[r].rev >= 1 /\ Covered(request[r].rev, request[r].ver)'
    <3>1. /\ request'[r].at = request[r].at /\ request'[r].rev = request[r].rev
          /\ request'[r].ver = request[r].ver
      BY <1>1, <1>15 DEF notify_waiters, TypeOK
    <3>2. Waiting(r)
      BY <2>3, <3>1 DEF Waiting
    <3>3. request[r].rev >= 1 /\ Covered(request[r].rev, request[r].ver)
      BY <1>1, <3>2 DEF RevisionInv
    <3> QED BY <2>1, <2>2, <3>1, <3>3 DEF Covered, Settled
  <2>4. RevisionInv'
    BY <1>1, <2>1, <2>3 DEF RevisionInv
  <2>5. AckedUnlessFailed'
    BY <1>3, <1>4, <2>1
  <2> QED BY <1>2, <2>4, <2>5 DEF AckInv
<1>16. ASSUME NEW r \in Requests, Handler(r) \/ wait_timeout(r) PROVE AckInv'
  <2>1. /\ UNCHANGED <<disk, writer, failed, nextRev, successful, pending>>
        /\ \A q \in Requests : Waiting(q)' => /\ Waiting(q) /\ request'[q].rev = request[q].rev
                                              /\ request'[q].ver = request[q].ver
        /\ acked' = acked \/ (/\ Waiting(r) /\ successful >= request[r].rev
                              /\ acked' = acked \cup {request[r].ver})
    BY <1>1, <1>16, HandlerFacts
  <2>2. ASSUME NEW q \in Requests, Waiting(q)'
        PROVE  request'[q].rev >= 1 /\ Covered(request[q].rev, request[q].ver)'
    <3>1. request[q].rev >= 1 /\ Covered(request[q].rev, request[q].ver)
      BY <1>1, <2>1, <2>2 DEF RevisionInv
    <3> QED BY <2>1, <2>2, <3>1 DEF Covered, Settled
  <2>3. RevisionInv'
    BY <1>1, <2>1, <2>2 DEF RevisionInv
  <2>4. AckedUnlessFailed'
    <3>1. CASE acked' = acked
      BY <1>3, <1>4, <2>1, <3>1
    <3>2. CASE /\ Waiting(r) /\ successful >= request[r].rev
               /\ acked' = acked \cup {request[r].ver}
      <4>1. Covered(request[r].rev, request[r].ver)
        BY <1>1, <3>2 DEF RevisionInv
      <4>2. Settled(request[r].ver)
        BY <1>3, <3>2, <4>1 DEF Covered
      <4> QED BY <1>1, <2>1, <3>2, <4>2 DEF AckedUnlessFailed, Settled
    <3> QED BY <2>1, <3>1, <3>2
  <2> QED BY <1>2, <2>3, <2>4 DEF AckInv
<1>17. CASE Restart
  <2>1. /\ Len(pending') = 0 /\ writer'.job = NoJob /\ NoJob.rev = 0
        /\ nextRev' = 0 /\ successful' = 0 /\ acked' = {} /\ \A r \in Requests : ~ Waiting(r)'
    BY <1>1, <1>17, RestartFacts
  <2>2. RevisionInv'
    BY <2>1 DEF RevisionInv
  <2>3. AckedUnlessFailed'
    BY <2>1 DEF AckedUnlessFailed
  <2> QED BY <1>2, <2>2, <2>3 DEF AckInv
<1>18. CASE UNCHANGED vars
  BY <1>5, <1>18 DEF vars, queueVars, ghostVars
<1> QED BY <1>8, <1>9, <1>10, <1>11, <1>12, <1>13, <1>14, <1>15, <1>16, <1>17, <1>18 DEF Next, Worker

(* A change that the panel reported as saved is on disk, so that a restart  *)
(* keeps it, unless the write of a snapshot that contained it failed.       *)
THEOREM AcknowledgedIsDurable == Spec => []AckedUnlessFailed
<1>1. Init => AckInv
  <2> SUFFICES ASSUME Init PROVE AckInv
    OBVIOUS
  <2>1. /\ Len(pending) = 0 /\ writer.job.rev = 0 /\ nextRev = 0 /\ successful = 0 /\ acked = {}
        /\ \A r \in Requests : ~ Waiting(r)
    BY DEF Init, NoJob, Waiting, Idle
  <2>2. RevisionInv /\ AckedUnlessFailed
    BY <2>1 DEF RevisionInv, AckedUnlessFailed
  <2> QED BY <2>2, DurableInit DEF AckInv
<1>2. AckInv /\ [Next]_vars => AckInv'
  BY AckStep
<1>3. AckInv => AckedUnlessFailed
  BY DEF AckInv
<1> QED BY <1>1, <1>2, <1>3, PTL DEF Spec

------------------------------------------------------------------------------
(* Growth of counters through a merge.                                      *)
LEMMA LeqOverlay ==
  ASSUME NEW X, NEW s \in Counters, NEW t \in Counters, NEW u
  PROVE  /\ Leq(X, u, s) /\ Leq(X, u, t) => Leq(X, u, Overlay(s, t))
         /\ Leq(X, s, u) /\ Leq(X, t, u) => Leq(X, Overlay(s, t), u)
<1>1. DOMAIN Overlay(s, t) = DOMAIN s \cup DOMAIN t
  BY OverlayCounters
<1>2. \A p \in DOMAIN Overlay(s, t) :
         (p \in DOMAIN t /\ Overlay(s, t)[p] = t[p]) \/ (p \in DOMAIN s /\ Overlay(s, t)[p] = s[p])
  BY <1>1, OverlayCounters
<1> QED BY <1>1, <1>2 DEF Leq

(* The clients on disk have existed.                                        *)
LEMMA DiskKnown ==
  ASSUME DurableInv
  PROVE  /\ DOMAIN disk.bytes \subseteq EverUsed /\ DOMAIN db.bytes \subseteq EverUsed
         /\ \A job : SnapshotOfHistory(job) => DOMAIN job.bytes \subseteq EverUsed
<1>1. /\ disk.ver \in 1 .. MaxVersion /\ db.ver \in 1 .. MaxVersion /\ disk.ver <= db.ver
      /\ DOMAIN disk.bytes = DOMAIN history[disk.ver] /\ DOMAIN db.bytes = DOMAIN history[db.ver]
      /\ history \in Seq(Contents) /\ Len(history) = db.ver
  BY DEF DurableInv, TypeOK, HistoryInv, Databases
<1>2. disk.ver \in DOMAIN history /\ db.ver \in DOMAIN history /\ DOMAIN history = 1 .. db.ver
  BY <1>1, BoundsAssumption
<1>3. \A v \in DOMAIN history : DOMAIN history[v] \subseteq Passwords
  <2>1. \A v \in DOMAIN history : history[v] \in Contents
    BY <1>1
  <2> QED BY <2>1, ContentsFun, Zenon
<1>4. \A v \in DOMAIN history : DOMAIN history[v] \subseteq EverUsed
  BY <1>3, Zenon DEF EverUsed
<1> QED BY <1>1, <1>2, <1>4 DEF SnapshotOfHistory

(* A change of the clients keeps the counter of everyone who existed and    *)
(* stays; whoever is new has no counter anywhere.                           *)
LEMMA ChangeCounters ==
  ASSUME DurableInv, DurableInv', NEW c, NewContent(c), Change(c)
  PROVE  /\ \A p \in DOMAIN db'.bytes : p \in EverUsed => p \in DOMAIN db.bytes /\ db'.bytes[p] = db.bytes[p]
         /\ EverUsed \subseteq EverUsed'
         /\ DOMAIN db'.bytes \subseteq EverUsed'
<1>1. TypeOK /\ HistoryInv /\ db.ver \in 1 .. MaxVersion
  BY DEF DurableInv, TypeOK, Databases
<1>2. /\ db'.clients = c /\ DOMAIN db'.bytes = DOMAIN c
      /\ \A p \in DOMAIN c : db'.bytes[p] = IF p \in DOMAIN db.bytes THEN db.bytes[p] ELSE 0
      /\ history' \in Seq(Contents) /\ Len(history') = db.ver + 1
      /\ \A i \in 1 .. db.ver : history'[i] = history[i]
  BY <1>1, ChangeFacts
<1>3. DOMAIN history = 1 .. db.ver /\ DOMAIN history' = 1 .. db.ver + 1
  BY <1>1, <1>2 DEF TypeOK
<1>4. \A p \in DOMAIN c : p \in EverUsed => p \in DOMAIN db.bytes
  BY <1>1, Zenon DEF NewContent, Unused, EverUsed, HistoryInv
<1>5. EverUsed \subseteq EverUsed'
  <2>1. \A v \in DOMAIN history : v \in DOMAIN history' /\ history'[v] = history[v]
    BY <1>1, <1>2, <1>3, BoundsAssumption
  <2> QED BY <2>1, Zenon DEF EverUsed
<1>6. DOMAIN db'.bytes \subseteq EverUsed'
  <2>1. db.ver + 1 \in DOMAIN history' /\ history'[db.ver + 1] = c
    BY <1>1, <1>3, ChangeFacts, BoundsAssumption
  <2>2. DOMAIN c \subseteq Passwords
    BY ContentsFun, Zenon DEF NewContent
  <2> QED BY <1>2, <2>1, <2>2, Zenon DEF EverUsed
<1> QED BY <1>2, <1>4, <1>5, <1>6

(* The counters keep growing on the way to the disk.                        *)
LEMMA CounterStep ==
  ASSUME CounterInv, [Next]_vars
  PROVE  CounterInv'
<1>1. DurableInv /\ TypeOK /\ QueueShape /\ HistoryInv /\ WaitInv /\ KnownInv /\ ForwardInv /\ CrossInv
  BY DEF CounterInv, DurableInv
<1>2. DurableInv' /\ TypeOK'
  BY <1>1, DurableStep DEF DurableInv
<1>3. /\ disk.bytes \in Counters /\ db.bytes \in Counters /\ writer.job.bytes \in Counters
      /\ \A i \in 1 .. Len(pending) : pending[i].bytes \in Counters
      /\ \A f \in Flushers : captured[f] \in Counters
      /\ Len(pending) \in Nat
  <2>1. /\ disk \in Databases /\ db \in Databases /\ writer.job \in Jobs /\ pending \in Seq(Jobs)
        /\ captured \in [Flushers -> Counters]
    BY <1>1 DEF TypeOK
  <2>2. \A i \in 1 .. Len(pending) : pending[i] \in Jobs
    BY <2>1
  <2> QED BY <2>1, <2>2 DEF Databases, Jobs
<1>4. \A X : \A s \in Counters : Leq(X, s, s)
  BY CountersFun DEF Leq
<1>5. DOMAIN disk.bytes \subseteq EverUsed /\ DOMAIN db.bytes \subseteq EverUsed
  BY <1>1, DiskKnown
<1>6. ASSUME UNCHANGED <<db, disk, history, pending, captured, crossed>>,
             writer'.job = writer.job \/ writer'.job = NoJob
      PROVE  CounterInv'
  <2>1. DOMAIN NoJob.bytes = {}
    BY DEF NoJob, NoTraffic
  <2>2. KnownInv'
    BY <1>1, <1>6, <2>1 DEF KnownInv, EverUsed
  <2>3. ForwardInv'
    BY <1>1, <1>6, <2>1 DEF ForwardInv, Leq
  <2>4. CrossInv'
    BY <1>1, <1>6 DEF CrossInv
  <2> QED BY <1>2, <2>2, <2>3, <2>4 DEF CounterInv
<1>7. ASSUME NEW c, NewContent(c), Change(c), UNCHANGED <<disk, writer, captured, crossed>>,
             \/ pending' = pending
             \/ Len(pending') = 1 /\ pending'[1].bytes = db'.bytes
      PROVE  CounterInv'
  <2>1. /\ \A p \in DOMAIN db'.bytes : p \in EverUsed => p \in DOMAIN db.bytes /\ db'.bytes[p] = db.bytes[p]
        /\ EverUsed \subseteq EverUsed' /\ DOMAIN db'.bytes \subseteq EverUsed'
    BY <1>1, <1>2, <1>7, ChangeCounters
  <2>2. KnownInv'
    <3>1. \A i \in 1 .. Len(pending') : DOMAIN pending'[i].bytes \subseteq EverUsed'
      <4>1. CASE pending' = pending
        BY <1>1, <2>1, <4>1 DEF KnownInv
      <4>2. CASE Len(pending') = 1 /\ pending'[1].bytes = db'.bytes
        BY <2>1, <4>2
      <4> QED BY <1>7, <4>1, <4>2
    <3> QED BY <1>1, <1>7, <2>1, <3>1 DEF KnownInv
  <2>3. /\ Leq(crossed, disk.bytes, db'.bytes) /\ Leq(crossed, writer.job.bytes, db'.bytes)
        /\ \A i \in 1 .. Len(pending) : Leq(crossed, pending[i].bytes, db'.bytes)
    BY <1>1, <1>5, <2>1 DEF KnownInv, ForwardInv, Leq
  <2>4. \A f \in Flushers : \A p \in (DOMAIN captured[f] \cap DOMAIN db'.bytes) \ crossed :
                                captured[f][p] = db'.bytes[p]
    BY <1>1, <2>1 DEF KnownInv, ForwardInv
  <2>5. db'.bytes \in Counters
    BY <1>2 DEF TypeOK, Databases
  <2>6. \A f \in Flushers : Leq(crossed, db'.bytes, captured[f])
    BY <1>4, <2>4, <2>5 DEF Leq
  <2>7. ForwardInv'
    <3>1. CASE pending' = pending
      BY <1>1, <1>7, <2>3, <2>4, <3>1 DEF ForwardInv
    <3>2. CASE Len(pending') = 1 /\ pending'[1].bytes = db'.bytes
      <4>1. \A i \in 1 .. Len(pending') : pending'[i].bytes = db'.bytes
        BY <3>2
      <4>2. Leq(crossed, db'.bytes, db'.bytes)
        BY <1>4, <2>5
      <4> QED BY <1>1, <1>7, <2>3, <2>4, <2>6, <3>2, <4>1, <4>2 DEF ForwardInv
    <3> QED BY <1>7, <3>1, <3>2
  <2>8. CrossInv'
    BY <1>1, <1>7 DEF CrossInv
  <2> QED BY <1>2, <2>2, <2>7, <2>8 DEF CounterInv
<1>8. ASSUME \E c \in Contents : Edit(c) \/ Forget(c) PROVE CounterInv'
  <2>1. PICK c : Edit(c) \/ Forget(c)
    BY <1>8
  <2>2. CASE Edit(c)
    <3>1. NewContent(c) /\ Change(c) /\ submit_snapshot(db') /\ UNCHANGED <<disk, writer, captured, crossed>>
      BY <2>2 DEF Edit, Mutate, ghostVars
    <3>2. db' \in Databases
      BY <1>2 DEF TypeOK
    <3>3. Len(pending') = 1 /\ pending'[1] = Snapshot(nextRev + 1, db')
      BY <1>1, <3>1, <3>2, SnapshotQueued
    <3>4. pending'[1].bytes = db'.bytes
      BY <3>3 DEF Snapshot
    <3> QED BY <1>7, <3>1, <3>3, <3>4
  <2>3. CASE Forget(c)
    BY <1>7, <2>3 DEF Forget, queueVars
  <2> QED BY <2>1, <2>2, <2>3
<1>9. ASSUME NEW r \in Requests,
             clients_create(r) \/ clients_create_refused(r) \/ client_edit(r) \/ client_delete(r)
      PROVE  CounterInv'
  BY <1>1, <1>8, <1>9, PanelSteps
<1>10. CASE password_janitor \/ getconf_bind \/ shutdown_save
  BY <1>1, <1>8, <1>10, JanitorSteps
<1>11. ASSUME NEW f \in Flushers, flush_capture(f) PROVE CounterInv'
  <2> DEFINE t == captured'[f]
  <2>1. UNCHANGED <<disk, history, writer, pending>>
    BY <1>11 DEF flush_capture, queueVars
  <2>2. /\ \A p \in DOMAIN t : p \in DOMAIN db.bytes /\ t[p] = db.bytes[p] + 1
        /\ t \in Counters /\ captured' = [captured EXCEPT ![f] = t]
        /\ db' = [db EXCEPT !.bytes = Overlay(db.bytes, t)]
        /\ DOMAIN db'.bytes = DOMAIN db.bytes
        /\ crossed' = crossed \cup {p \in DOMAIN t : \E g \in Flushers : p \in DOMAIN captured[g]}
    BY <1>1, <1>11, CaptureFacts
  <2>3. db'.bytes = Overlay(db.bytes, t)
    BY <1>1, <2>2 DEF TypeOK, Databases
  <2>4. \A g \in Flushers : captured'[g] = IF g = f THEN t ELSE captured[g]
    BY <1>1, <2>2 DEF TypeOK
  <2> HIDE DEF t
  <2>5. \A s, u : Leq(crossed, s, u) => Leq(crossed', s, u)
    BY <2>2 DEF Leq
  <2>6. \A u \in Counters : Leq(crossed, u, db.bytes) => Leq(crossed', u, t) /\ Leq(crossed', u, db'.bytes)
    <3> TAKE u \in Counters
    <3> HAVE Leq(crossed, u, db.bytes)
    <3>1. Leq(crossed, u, t)
      <4> SUFFICES ASSUME NEW p \in (DOMAIN u \cap DOMAIN t) \ crossed PROVE u[p] <= t[p]
        BY DEF Leq
      <4>1. u[p] <= db.bytes[p] /\ t[p] = db.bytes[p] + 1 /\ u[p] \in Nat /\ db.bytes[p] \in Nat
        BY <1>3, <2>2, CountersFun DEF Leq
      <4> QED BY <4>1
    <3>2. Leq(crossed, u, db'.bytes)
      BY <1>3, <2>2, <2>3, <3>1, LeqOverlay
    <3> QED BY <2>5, <3>1, <3>2
  <2>7. /\ \A p \in DOMAIN t : db'.bytes[p] = t[p]
        /\ \A p \in DOMAIN db.bytes \ DOMAIN t : db'.bytes[p] = db.bytes[p]
    <3>1. /\ \A p \in DOMAIN t : Overlay(db.bytes, t)[p] = t[p]
          /\ \A p \in DOMAIN db.bytes \ DOMAIN t : Overlay(db.bytes, t)[p] = db.bytes[p]
      BY <1>3, <2>2, OverlayCounters
    <3> QED BY <2>3, <3>1
  <2>8. KnownInv'
    BY <1>1, <1>5, <2>1, <2>2, <2>4 DEF KnownInv, EverUsed
  <2>9. ForwardInv'
    <3>1. /\ Leq(crossed', disk.bytes, writer.job.bytes) /\ Leq(crossed', disk.bytes, db'.bytes)
          /\ Leq(crossed', writer.job.bytes, db'.bytes)
      BY <1>1, <1>3, <2>5, <2>6 DEF ForwardInv
    <3>2. \A i \in 1 .. Len(pending) :
             /\ Leq(crossed', disk.bytes, pending[i].bytes) /\ Leq(crossed', writer.job.bytes, pending[i].bytes)
             /\ Leq(crossed', pending[i].bytes, db'.bytes)
      BY <1>1, <1>3, <2>5, <2>6 DEF ForwardInv
    <3>3. Len(pending) = 2 => Leq(crossed', pending[1].bytes, pending[2].bytes)
      BY <1>1, <2>5 DEF ForwardInv
    <3>4. ASSUME NEW g \in Flushers
          PROVE  /\ Leq(crossed', disk.bytes, captured'[g]) /\ Leq(crossed', writer.job.bytes, captured'[g])
                 /\ \A i \in 1 .. Len(pending) : Leq(crossed', pending[i].bytes, captured'[g])
                 /\ \A p \in (DOMAIN captured'[g] \cap DOMAIN db'.bytes) \ crossed' : captured'[g][p] = db'.bytes[p]
      <4>1. CASE g = f
        BY <1>1, <1>3, <2>4, <2>6, <2>7, <4>1 DEF ForwardInv
      <4>2. CASE g # f
        <5>1. captured'[g] = captured[g]
          BY <2>4, <4>2
        <5>2. /\ Leq(crossed', disk.bytes, captured[g]) /\ Leq(crossed', writer.job.bytes, captured[g])
              /\ \A i \in 1 .. Len(pending) : Leq(crossed', pending[i].bytes, captured[g])
          BY <1>1, <2>5 DEF ForwardInv
        <5>3. \A p \in (DOMAIN captured[g] \cap DOMAIN db'.bytes) \ crossed' : captured[g][p] = db'.bytes[p]
          <6> TAKE p \in (DOMAIN captured[g] \cap DOMAIN db'.bytes) \ crossed'
          <6>1. p \notin DOMAIN t /\ p \notin crossed /\ p \in DOMAIN db.bytes
            BY <2>2
          <6>2. captured[g][p] = db.bytes[p]
            BY <1>1, <6>1 DEF ForwardInv
          <6> QED BY <2>7, <6>1, <6>2
        <5> QED BY <5>1, <5>2, <5>3
      <4> QED BY <4>1, <4>2
    <3> QED BY <2>1, <3>1, <3>2, <3>3, <3>4 DEF ForwardInv
  <2>10. CrossInv'
    <3> SUFFICES ASSUME NEW g \in Flushers, NEW h \in Flushers, g # h,
                        NEW p \in DOMAIN captured'[g] \cap DOMAIN captured'[h]
                 PROVE  p \in crossed'
      BY DEF CrossInv
    <3>1. CASE g = f
      BY <2>2, <2>4, <3>1
    <3>2. CASE h = f
      BY <2>2, <2>4, <3>2
    <3>3. CASE g # f /\ h # f
      BY <1>1, <2>2, <2>4, <3>3 DEF CrossInv
    <3> QED BY <3>1, <3>2, <3>3
  <2> QED BY <1>2, <2>8, <2>9, <2>10 DEF CounterInv
<1>12. ASSUME NEW f \in Flushers, flush_submit(f) PROVE CounterInv'
  <2> DEFINE t == captured[f]
             m == Len(pending')
  <2>1. UNCHANGED <<db, disk, history, writer, crossed>> /\ t \in Counters /\ submit_traffic(t)
    BY <1>3, <1>12 DEF flush_submit, ghostVars
  <2>2. /\ m \in 1 .. 2
        /\ \/ m = Len(pending) /\ pending'[m].bytes = Overlay(pending[m].bytes, t)
           \/ m = Len(pending) + 1 /\ pending'[m].bytes = t
        /\ m = 2 => Len(pending) > 0 /\ pending'[1] = pending[1]
    BY <1>1, <2>1, TrafficQueued
  <2>3. \A g \in Flushers : IF g = f THEN DOMAIN captured'[g] = {} ELSE captured'[g] = captured[g]
    BY <1>1, <1>12 DEF flush_submit, TypeOK, NoTraffic
  <2>4. /\ Leq(crossed, disk.bytes, t) /\ Leq(crossed, writer.job.bytes, t)
        /\ \A i \in 1 .. Len(pending) : Leq(crossed, pending[i].bytes, t)
        /\ Leq(crossed, t, db.bytes)
    <3>1. \A p \in (DOMAIN t \cap DOMAIN db.bytes) \ crossed : t[p] = db.bytes[p]
      BY <1>1 DEF ForwardInv
    <3>2. Leq(crossed, t, db.bytes)
      BY <1>3, <1>4, <3>1 DEF Leq
    <3> QED BY <1>1, <3>2 DEF ForwardInv
  <2>5. /\ Leq(crossed, disk.bytes, pending'[m].bytes) /\ Leq(crossed, writer.job.bytes, pending'[m].bytes)
        /\ Leq(crossed, pending'[m].bytes, db.bytes)
        /\ m = 2 => Leq(crossed, pending[1].bytes, pending'[m].bytes)
        /\ DOMAIN pending'[m].bytes \subseteq EverUsed
    <3>1. CASE m = Len(pending) /\ pending'[m].bytes = Overlay(pending[m].bytes, t)
      <4>1. m \in 1 .. Len(pending) /\ pending[m].bytes \in Counters
        BY <1>3, <2>2, <3>1
      <4>2. /\ Leq(crossed, disk.bytes, pending[m].bytes) /\ Leq(crossed, writer.job.bytes, pending[m].bytes)
            /\ Leq(crossed, pending[m].bytes, db.bytes) /\ DOMAIN pending[m].bytes \subseteq EverUsed
        BY <1>1, <4>1 DEF ForwardInv, KnownInv
      <4>3. m = 2 => Leq(crossed, pending[1].bytes, pending[m].bytes) /\ Leq(crossed, pending[1].bytes, t)
        BY <1>1, <1>3, <2>4, <3>1 DEF ForwardInv
      <4>4. DOMAIN Overlay(pending[m].bytes, t) = DOMAIN pending[m].bytes \cup DOMAIN t
        BY <2>1, <4>1, OverlayCounters
      <4>5. DOMAIN t \subseteq EverUsed
        BY <1>1 DEF KnownInv
      <4> QED BY <2>1, <2>4, <3>1, <4>1, <4>2, <4>3, <4>4, <4>5, LeqOverlay
    <3>2. CASE m = Len(pending) + 1 /\ pending'[m].bytes = t
      BY <1>1, <1>3, <2>4, <3>2 DEF KnownInv
    <3> QED BY <2>2, <3>1, <3>2
  <2>6. \A i \in 1 .. m : i = m \/ (i = 1 /\ m = 2 /\ 1 \in 1 .. Len(pending) /\ pending'[1] = pending[1])
    BY <1>3, <2>2
  <2> HIDE DEF t
  <2>7. KnownInv'
    <3>1. \A i \in 1 .. Len(pending') : DOMAIN pending'[i].bytes \subseteq EverUsed
      BY <1>1, <2>5, <2>6 DEF KnownInv
    <3>2. EverUsed' = EverUsed
      BY <2>1 DEF EverUsed
    <3> QED BY <1>1, <2>1, <2>3, <3>1, <3>2 DEF KnownInv
  <2>8. ForwardInv'
    <3>1. \A i \in 1 .. Len(pending') :
             /\ Leq(crossed, disk.bytes, pending'[i].bytes) /\ Leq(crossed, writer.job.bytes, pending'[i].bytes)
             /\ Leq(crossed, pending'[i].bytes, db.bytes)
      BY <1>1, <2>5, <2>6 DEF ForwardInv
    <3>2. Len(pending') = 2 => Leq(crossed, pending'[1].bytes, pending'[2].bytes)
      BY <2>2, <2>5
    <3>3. ASSUME NEW g \in Flushers
          PROVE  /\ Leq(crossed, disk.bytes, captured'[g]) /\ Leq(crossed, writer.job.bytes, captured'[g])
                 /\ \A i \in 1 .. Len(pending') : Leq(crossed, pending'[i].bytes, captured'[g])
                 /\ \A p \in (DOMAIN captured'[g] \cap DOMAIN db.bytes) \ crossed : captured'[g][p] = db.bytes[p]
      <4>1. CASE g = f
        BY <2>3, <4>1 DEF Leq
      <4>2. CASE g # f
        <5>1. captured'[g] = captured[g] /\ captured[g] \in Counters
          BY <1>3, <2>3, <4>2
        <5>2. Leq(crossed, t, captured[g])
          <6>1. DOMAIN captured[f] \cap DOMAIN captured[g] \subseteq crossed
            BY <1>1, <4>2 DEF CrossInv
          <6> QED BY <6>1 DEF Leq, t
        <5>3. \A i \in 1 .. Len(pending) : Leq(crossed, pending[i].bytes, captured[g])
          BY <1>1 DEF ForwardInv
        <5>4. Leq(crossed, pending'[m].bytes, captured[g])
          <6>1. CASE m = Len(pending) /\ pending'[m].bytes = Overlay(pending[m].bytes, t)
            <7>1. m \in 1 .. Len(pending) /\ pending[m].bytes \in Counters
              BY <1>3, <2>2, <6>1
            <7> QED BY <2>1, <5>2, <5>3, <6>1, <7>1, LeqOverlay
          <6>2. CASE m = Len(pending) + 1 /\ pending'[m].bytes = t
            BY <5>2, <6>2
          <6> QED BY <2>2, <6>1, <6>2
        <5>5. \A i \in 1 .. Len(pending') : Leq(crossed, pending'[i].bytes, captured[g])
          BY <2>6, <5>3, <5>4
        <5> QED BY <1>1, <5>1, <5>5 DEF ForwardInv
      <4> QED BY <4>1, <4>2
    <3> QED BY <1>1, <2>1, <3>1, <3>2, <3>3 DEF ForwardInv
  <2>9. CrossInv'
    BY <1>1, <2>1, <2>3 DEF CrossInv
  <2> QED BY <1>2, <2>7, <2>8, <2>9 DEF CounterInv
<1>13. CASE take_pending
  <2>1. UNCHANGED <<db, disk, history, captured, crossed>>
    BY <1>13 DEF take_pending, ghostVars
  <2>2. pending # <<>> /\ writer'.job = Head(pending) /\ pending' = Tail(pending)
    BY <1>13 DEF take_pending
  <2>3. /\ writer'.job = pending[1] /\ 1 \in 1 .. Len(pending) /\ Len(pending') = Len(pending) - 1
        /\ \A i \in 1 .. Len(pending') : pending'[i] = pending[i + 1] /\ i + 1 \in 1 .. Len(pending)
    <3>1. pending \in Seq(Jobs)
      BY <1>1 DEF TypeOK
    <3> QED BY <2>2, <3>1
  <2>4. \A i \in 1 .. Len(pending') : i = 1 /\ Len(pending) = 2 /\ pending'[i] = pending[2]
    <3>1. Len(pending) <= 2
      BY <1>1 DEF QueueShape
    <3> QED BY <1>3, <2>3, <3>1
  <2>5. KnownInv'
    BY <1>1, <2>1, <2>3 DEF KnownInv, EverUsed
  <2>6. ForwardInv'
    <3>1. \A i \in 1 .. Len(pending') : Leq(crossed, writer'.job.bytes, pending'[i].bytes)
      BY <1>1, <2>3, <2>4 DEF ForwardInv
    <3>2. Len(pending') # 2
      BY <1>3, <2>3, <1>1 DEF QueueShape
    <3> QED BY <1>1, <2>1, <2>3, <3>1, <3>2 DEF ForwardInv
  <2>7. CrossInv'
    BY <1>1, <2>1 DEF CrossInv
  <2> QED BY <1>2, <2>5, <2>6, <2>7 DEF CounterInv
<1>14. CASE persist_commit
  <2>1. UNCHANGED <<db, history, pending, captured, crossed>> /\ writer'.job = writer.job
    BY <1>1, <1>14 DEF persist_commit, queueVars, TypeOK
  <2>2. \A u \in Counters : Leq(crossed, disk.bytes, u) /\ Leq(crossed, writer.job.bytes, u) => Leq(crossed, disk'.bytes, u)
    BY <1>1, <1>14, CommitFacts DEF Leq
  <2>3. Leq(crossed, writer.job.bytes, writer.job.bytes)
    BY <1>3, <1>4
  <2>4. KnownInv'
    BY <1>1, <2>1 DEF KnownInv, EverUsed
  <2>5. ForwardInv'
    BY <1>1, <1>3, <2>1, <2>2, <2>3 DEF ForwardInv
  <2>6. CrossInv'
    BY <1>1, <2>1 DEF CrossInv
  <2> QED BY <1>2, <2>4, <2>5, <2>6 DEF CounterInv
<1>15. CASE persist_fail \/ complete \/ notify_waiters
  <2>1. writer'.job = writer.job \/ writer'.job = NoJob
    BY <1>1, <1>15 DEF persist_fail, complete, notify_waiters, TypeOK
  <2> QED BY <1>6, <1>15, <2>1 DEF persist_fail, complete, notify_waiters, queueVars, ghostVars
<1>16. ASSUME NEW r \in Requests, Handler(r) \/ wait_timeout(r) PROVE CounterInv'
  BY <1>1, <1>6, <1>16, HandlerFacts
<1>17. CASE Restart
  <2>1. /\ db' = disk /\ disk' = disk /\ Len(pending') = 0 /\ writer'.job = NoJob
        /\ DOMAIN NoJob.bytes = {} /\ \A f \in Flushers : DOMAIN captured'[f] = {}
        /\ crossed' = {}
    BY <1>1, <1>17, RestartFacts
  <2>2. KnownInv'
    BY <2>1 DEF KnownInv
  <2>3. ForwardInv'
    <3>1. Leq(crossed', disk.bytes, disk.bytes)
      BY <1>3, <1>4
    <3>2. \A s, t : DOMAIN s = {} \/ DOMAIN t = {} => Leq(crossed', s, t)
      BY DEF Leq
    <3>3. /\ Leq(crossed', disk'.bytes, writer'.job.bytes) /\ Leq(crossed', writer'.job.bytes, db'.bytes)
          /\ \A f \in Flushers : /\ Leq(crossed', disk'.bytes, captured'[f])
                                  /\ Leq(crossed', writer'.job.bytes, captured'[f])
      BY <2>1, <3>2
    <3>4. Leq(crossed', disk'.bytes, db'.bytes)
      BY <2>1, <3>1
    <3> QED BY <2>1, <3>3, <3>4 DEF ForwardInv
  <2>4. CrossInv'
    BY <2>1 DEF CrossInv
  <2> QED BY <1>2, <2>2, <2>3, <2>4 DEF CounterInv
<1>18. CASE UNCHANGED vars
  BY <1>6, <1>18 DEF vars, queueVars, ghostVars
<1> QED BY <1>9, <1>10, <1>11, <1>12, <1>13, <1>14, <1>15, <1>16, <1>17, <1>18 DEF Next, Worker

(* The initial state satisfies the invariant of the counters.               *)
LEMMA CounterInit == Init => CounterInv
<1> SUFFICES ASSUME Init PROVE CounterInv
  OBVIOUS
<1>1. /\ disk = db /\ Len(pending) = 0 /\ DOMAIN writer.job.bytes = {}
      /\ \A f \in Flushers : DOMAIN captured[f] = {}
  BY DEF Init, NoJob, NoTraffic
<1>2. Leq(crossed, db.bytes, db.bytes)
  <2>1. db.bytes \in Counters
    BY DurableInit DEF DurableInv, TypeOK, Databases
  <2> QED BY <2>1, CountersFun DEF Leq
<1>3. KnownInv
  BY <1>1 DEF KnownInv
<1>4. ForwardInv
  BY <1>1, <1>2 DEF ForwardInv, Leq
<1>5. CrossInv
  BY <1>1 DEF CrossInv
<1> QED BY <1>3, <1>4, <1>5, DurableInit DEF CounterInv

(* With the flushes of the janitor and of the shutdown unordered, only the  *)
(* counter of a client that both of them held at one time may run backwards *)
(* on disk, although a flush queues what it read after a snapshot or the    *)
(* other flush may have overtaken it.                                       *)
THEOREM CountersRunForward == Spec => CountersForward
<1>1. Init => CounterInv
  BY CounterInit
<1>2. CounterInv /\ [Next]_vars => CounterInv'
  BY CounterStep
<1>3. CounterInv /\ [Next]_vars =>
        [\A p \in (DOMAIN disk.bytes \cap DOMAIN disk'.bytes) \ crossed : disk'.bytes[p] >= disk.bytes[p]]_vars
  <2> SUFFICES ASSUME CounterInv, Next,
                      NEW p \in (DOMAIN disk.bytes \cap DOMAIN disk'.bytes) \ crossed
               PROVE  disk'.bytes[p] >= disk.bytes[p]
    OBVIOUS
  <2>1. DurableInv /\ TypeOK /\ WaitInv /\ ForwardInv
    BY DEF CounterInv, DurableInv
  <2>2. /\ disk.bytes[p] \in Nat
        /\ p \in DOMAIN writer.job.bytes => writer.job.bytes[p] \in Nat
    BY <2>1, CountersFun DEF TypeOK, Databases, Jobs
  <2>3. CASE disk' = disk
    BY <2>2, <2>3
  <2>4. CASE persist_commit
    <3>1. disk'.bytes[p] = disk.bytes[p] \/ (/\ p \in DOMAIN writer.job.bytes
                                             /\ disk'.bytes[p] = writer.job.bytes[p])
      BY <2>1, <2>4, CommitFacts
    <3>2. p \in DOMAIN writer.job.bytes => disk.bytes[p] <= writer.job.bytes[p]
      BY <2>1 DEF ForwardInv, Leq
    <3> QED BY <2>2, <3>1, <3>2
  <2>5. disk' = disk \/ persist_commit
    <3>1. ASSUME NEW r \in Requests, Handler(r) \/ wait_timeout(r) PROVE disk' = disk
      BY <2>1, <3>1, HandlerFacts
    <3> QED BY <3>1 DEF Next, clients_create, clients_create_refused, client_edit, client_delete,
                 password_janitor, getconf_bind, flush_capture, flush_submit, shutdown_save, Worker,
                 take_pending, persist_fail, complete, notify_waiters, Restart
  <2> QED BY <2>3, <2>4, <2>5
<1> QED BY <1>1, <1>2, <1>3, PTL DEF Spec, CountersForward

------------------------------------------------------------------------------
(* A snapshot of the present version has the counters of the present        *)
(* clients, and no other snapshot is behind it.                             *)
LEMMA PresentSnapshot ==
  ASSUME DurableInv
  PROVE  /\ disk.ver = db.ver => DOMAIN disk.bytes = DOMAIN db.bytes /\ disk.clients = db.clients
         /\ \A i \in 1 .. Len(pending) :
               pending[i].kind = "snapshot" /\ pending[i].ver = db.ver => DOMAIN pending[i].bytes = DOMAIN db.bytes
         /\ writer.job.kind = "snapshot" /\ writer.job.ver = db.ver =>
               /\ DOMAIN writer.job.bytes = DOMAIN db.bytes
               /\ \A i \in 1 .. Len(pending) : pending[i].kind = "traffic"
<1>1. HistoryInv /\ QueueShape /\ TypeOK /\ db.ver \in Nat
  BY DEF DurableInv, TypeOK, Databases
<1>2. ASSUME writer.job.kind = "snapshot", writer.job.ver = db.ver, NEW i \in 1 .. Len(pending)
      PROVE  pending[i].kind = "traffic"
  <2>1. pending[i].kind \in {"snapshot", "traffic"}
    BY <1>1, Zenon DEF QueueShape
  <2>2. CASE pending[i].kind = "snapshot"
    <3>1. db.ver < pending[i].ver /\ pending[i].ver \in 1 .. db.ver
      BY <1>1, <1>2, <2>2 DEF HistoryInv, SnapshotOfHistory
    <3> QED BY <1>1, <3>1
  <2> QED BY <2>1, <2>2
<1> QED BY <1>1, <1>2 DEF HistoryInv, SnapshotOfHistory

(* All work written brings the disk to the database in memory: kept by      *)
(* every step.                                                              *)
LEMMA CatchUpStep ==
  ASSUME CatchUpInv, [Next]_vars
  PROVE  CatchUpInv'
<1>1. /\ DurableInv /\ TypeOK /\ QueueShape /\ HistoryInv /\ WaitInv
      /\ CounterInv /\ ForwardInv /\ EventualInv
  BY DEF CatchUpInv, CounterInv, DurableInv
<1>2. CounterInv' /\ DurableInv' /\ TypeOK' /\ QueueShape' /\ HistoryInv'
  BY <1>1, CounterStep DEF CounterInv, DurableInv
<1>3. /\ Len(pending) \in Nat /\ Len(pending) <= 2 /\ db.ver \in Nat /\ disk.ver \in Nat
      /\ pending \in Seq(Jobs) /\ lossy \in BOOLEAN
  <2>1. pending \in Seq(Jobs) /\ db \in Databases /\ disk \in Databases /\ Len(pending) <= 2
    BY <1>1 DEF TypeOK, QueueShape
  <2>2. lossy \in BOOLEAN
    BY <1>1, Zenon DEF TypeOK
  <2> QED BY <2>1, <2>2 DEF Databases
<1>0. Len(pending) = 0 \/ Len(pending) = 1 \/ Len(pending) = 2
  <2>1. \A n \in Nat : n <= 2 => n = 0 \/ n = 1 \/ n = 2
    OBVIOUS
  <2> QED BY <1>3, <2>1
<1> SUFFICES EventualInv'
  BY <1>2 DEF CatchUpInv
<1> DEFINE Held(p) == \E f \in Flushers : p \in DOMAIN captured[f]
<1>4. ASSUME UNCHANGED <<db, disk, pending, captured, crossed, lossy, writer>> PROVE EventualInv'
  BY <1>1, <1>4 DEF EventualInv, SnapshotAhead, Eventual
<1>5. ASSUME UNCHANGED <<db, disk, pending, captured, crossed, lossy>>, writer.at # "taken", writer'.at # "taken"
      PROVE  EventualInv'
  BY <1>1, <1>5 DEF EventualInv, SnapshotAhead, Eventual
<1>6. ASSUME NEW c, Edit(c) PROVE EventualInv'
  <2>1. NewContent(c) /\ Change(c) /\ submit_snapshot(db')
    BY <1>6 DEF Edit, Mutate
  <2>2. db' \in Databases
    BY <1>2 DEF TypeOK
  <2>3. Len(pending') = 1 /\ pending'[1] = Snapshot(nextRev + 1, db')
    BY <1>1, <2>1, <2>2, SnapshotQueued
  <2>4. pending'[1].kind = "snapshot" /\ pending'[1].ver = db'.ver /\ pending'[1].bytes = db'.bytes
    BY <2>3 DEF Snapshot
  <2> QED BY <2>3, <2>4 DEF EventualInv, SnapshotAhead, Eventual
<1>7. ASSUME NEW c, Forget(c) PROVE EventualInv'
  <2>1. lossy' = TRUE /\ UNCHANGED <<writer, pending>> /\ NewContent(c) /\ Change(c)
    BY <1>7 DEF Forget, queueVars
  <2>2. db'.ver = db.ver + 1
    BY <1>1, <2>1, ChangeFacts
  <2>3. writer.job.kind = "snapshot" => writer.job.ver \in 1 .. db.ver
    BY <1>1 DEF HistoryInv, SnapshotOfHistory
  <2>4. Len(pending) > 0 /\ pending[1].kind = "snapshot" => pending[1].ver \in 1 .. db.ver
    BY <1>1, <1>3 DEF HistoryInv, SnapshotOfHistory
  <2>5. ~ SnapshotAhead'
    BY <1>3, <2>1, <2>2, <2>3, <2>4 DEF SnapshotAhead
  <2> QED BY <2>1, <2>5 DEF EventualInv
<1>8. ASSUME NEW r \in Requests,
             clients_create(r) \/ clients_create_refused(r) \/ client_edit(r) \/ client_delete(r)
      PROVE  EventualInv'
  BY <1>1, <1>6, <1>7, <1>8, PanelSteps
<1>9. CASE password_janitor \/ getconf_bind \/ shutdown_save
  BY <1>1, <1>6, <1>9, JanitorSteps
<1>10. ASSUME NEW f \in Flushers, flush_capture(f) PROVE EventualInv'
  <2>1. UNCHANGED <<disk, writer, pending, lossy>>
    BY <1>10 DEF flush_capture, queueVars, ghostVars
  <2>2. /\ captured[f] = NoTraffic /\ captured'[f] \in Counters
        /\ captured' = [captured EXCEPT ![f] = captured'[f]] /\ crossed \subseteq crossed'
        /\ db' = [db EXCEPT !.bytes = Overlay(db.bytes, captured'[f])]
        /\ DOMAIN db'.bytes = DOMAIN db.bytes
    BY <1>1, <1>10, CaptureFacts
  <2>3. db'.ver = db.ver /\ db'.bytes = Overlay(db.bytes, captured'[f]) /\ db.bytes \in Counters
    BY <1>1, <2>2 DEF TypeOK, Databases
  <2>4. \A p : Held(p) \/ p \in DOMAIN captured'[f] => Held(p)'
    BY <1>1, <2>2 DEF NoTraffic, TypeOK
  <2>5. \A p \in DOMAIN db'.bytes : db'.bytes[p] = db.bytes[p] \/ p \in DOMAIN captured'[f]
    <3>1. /\ \A p \in DOMAIN db.bytes \ DOMAIN captured'[f] : Overlay(db.bytes, captured'[f])[p] = db.bytes[p]
      BY <2>2, <2>3, OverlayCounters
    <3> QED BY <2>2, <2>3, <3>1
  <2>6. SnapshotAhead' = SnapshotAhead
    BY <2>1, <2>3 DEF SnapshotAhead
  <2>7. \A p : Eventual(p)' = Eventual(p)
    BY <2>1 DEF Eventual
  <2> QED BY <1>1, <2>1, <2>2, <2>3, <2>4, <2>5, <2>6, <2>7 DEF EventualInv
<1>11. ASSUME NEW f \in Flushers, flush_submit(f) PROVE EventualInv'
  <2> DEFINE t == captured[f]
  <2>1. UNCHANGED <<db, disk, writer, lossy, crossed>> /\ t \in Counters /\ submit_traffic(t)
    BY <1>1, <1>11 DEF flush_submit, ghostVars, TypeOK
  <2>2. /\ Len(pending') \in 1 .. 2
        /\ pending'[Len(pending')].kind = "traffic"
        /\ \/ /\ Len(pending') = Len(pending) /\ pending[Len(pending)].kind = "traffic"
              /\ pending'[Len(pending)].bytes = Overlay(pending[Len(pending)].bytes, t)
           \/ Len(pending') = Len(pending) + 1 /\ pending'[Len(pending')].bytes = t
        /\ Len(pending') = 2 => Len(pending) > 0 /\ pending[1].kind = "snapshot" /\ pending'[1] = pending[1]
        /\ Len(pending') = 1 => Len(pending) = 0 \/ pending[1].kind = "traffic"
    BY <1>1, <2>1, TrafficQueued
  <2>3. \A p : Held(p) => Held(p)' \/ p \in DOMAIN t
    BY <1>1, <1>11 DEF flush_submit, TypeOK
  <2>4. \A p \in (DOMAIN t \cap DOMAIN db.bytes) \ crossed : t[p] = db.bytes[p]
    BY <1>1 DEF ForwardInv
  <2>5. Len(pending) > 0 => pending[Len(pending)].bytes \in Counters
    <3>1. Len(pending) > 0 => pending[Len(pending)] \in Jobs
      BY <1>3
    <3> QED BY <3>1 DEF Jobs
  <2>6. SnapshotAhead' = SnapshotAhead
    BY <1>3, <2>1, <2>2 DEF SnapshotAhead
  <2> HIDE DEF t
  <2>7. ASSUME NEW p PROVE Eventual(p)' = IF p \in DOMAIN t THEN t[p] ELSE Eventual(p)
    <3>1. CASE /\ Len(pending') = Len(pending) /\ pending[Len(pending)].kind = "traffic"
               /\ pending'[Len(pending)].bytes = Overlay(pending[Len(pending)].bytes, t)
      <4>1. Len(pending) > 0 /\ pending[Len(pending)].bytes \in Counters
        BY <2>2, <2>5, <3>1
      <4> DEFINE o == Overlay(pending[Len(pending)].bytes, t)
      <4>2. /\ DOMAIN o = DOMAIN pending[Len(pending)].bytes \cup DOMAIN t
            /\ p \in DOMAIN t => o[p] = t[p]
            /\ p \in DOMAIN pending[Len(pending)].bytes \ DOMAIN t => o[p] = pending[Len(pending)].bytes[p]
        BY <2>1, <4>1, OverlayCounters
      <4> HIDE DEF o
      <4>3. pending'[Len(pending')].bytes = o
        BY <3>1 DEF o
      <4> QED BY <2>1, <2>2, <3>1, <4>1, <4>2, <4>3 DEF Eventual
    <3>2. CASE Len(pending') = Len(pending) + 1 /\ pending'[Len(pending')].bytes = t
      <4>1. CASE Len(pending) = 0
        BY <2>1, <2>2, <3>2, <4>1 DEF Eventual
      <4>2. CASE Len(pending) = 1
        BY <2>1, <2>2, <3>2, <4>2 DEF Eventual
      <4>3. Len(pending) # 2
        <5>1. \A k : k \in 1 .. 2 => k # 2 + 1
          OBVIOUS
        <5>2. Len(pending') \in 1 .. 2 /\ Len(pending') = Len(pending) + 1
          BY <2>2, <3>2
        <5> QED BY <5>1, <5>2
      <4> QED BY <1>0, <4>1, <4>2, <4>3
    <3> QED BY <2>2, <3>1, <3>2
  <2> QED BY <1>1, <2>1, <2>3, <2>4, <2>6, <2>7 DEF EventualInv
<1>12. CASE take_pending
  <2>1. UNCHANGED <<db, disk, captured, crossed, lossy>>
    BY <1>12 DEF take_pending, ghostVars
  <2>2. pending # <<>> /\ writer'.job = Head(pending) /\ writer'.at = "taken" /\ pending' = Tail(pending)
    BY <1>12 DEF take_pending
  <2>3. /\ writer'.job = pending[1] /\ Len(pending) \in 1 .. 2 /\ Len(pending') = Len(pending) - 1
        /\ Len(pending) = 2 => pending'[1] = pending[2] /\ pending[2].kind = "traffic"
    <3>1. Len(pending) > 0 /\ writer'.job = pending[1] /\ Len(pending') = Len(pending) - 1
          /\ (Len(pending) = 2 => pending'[1] = pending[2])
      BY <1>3, <2>2
    <3>2. Len(pending) = 2 => pending[2].kind = "traffic"
      <4>1. ASSUME Len(pending) = 2 PROVE pending[2].kind \in {"snapshot", "traffic"} /\ pending[2].kind # "snapshot"
        <5>1. 2 \in 1 .. Len(pending) /\ 2 # 1
          BY <4>1
        <5> QED BY <1>1, <5>1, Zenon DEF QueueShape
      <4> QED BY <4>1
    <3> QED BY <1>3, <3>1, <3>2
  <2>4. writer.at = "idle"
    BY <1>12 DEF take_pending
  <2>5. SnapshotAhead => SnapshotAhead'
    BY <2>1, <2>2, <2>3, <2>4 DEF SnapshotAhead
  <2>6. SnapshotAhead' => SnapshotAhead
    BY <2>1, <2>2, <2>3, <2>4 DEF SnapshotAhead
  <2>7. \A p : Eventual(p)' = Eventual(p)
    BY <2>1, <2>2, <2>3, <2>4 DEF Eventual
  <2> QED BY <1>1, <2>1, <2>5, <2>6, <2>7 DEF EventualInv
<1>13. CASE persist_commit
  <2>1. UNCHANGED <<db, pending, captured, crossed>> /\ writer.at = "taken" /\ writer'.at # "taken"
    <3>1. writer.at = "taken" /\ writer'.at = "committed"
      BY <1>1, <1>13 DEF persist_commit, TypeOK
    <3> QED BY <1>13, <3>1 DEF persist_commit, queueVars
  <2>2. \A i \in 1 .. Len(pending) : i = 1 \/ i = Len(pending)
    BY <1>3
  <2>3. CASE writer.job.kind = "snapshot" /\ writer.job.ver = db.ver
    <3>1. SnapshotAhead
      BY <2>1, <2>3 DEF SnapshotAhead
    <3>2. disk'.ver = db'.ver /\ disk'.bytes = writer.job.bytes
      BY <1>1, <1>13, <2>1, <2>3, CommitFacts
    <3>3. DOMAIN writer.job.bytes = DOMAIN db.bytes
      BY <1>1, <2>3, PresentSnapshot
    <3>4. \A p \in DOMAIN db.bytes : Eventual(p)' = Eventual(p)
      BY <2>1, <3>2, <3>3 DEF Eventual
    <3> QED BY <1>1, <2>1, <3>1, <3>2, <3>4 DEF EventualInv
  <2>4. CASE ~ (writer.job.kind = "snapshot" /\ writer.job.ver = db.ver)
    <3>1. lossy' = lossy
      BY <1>3, <1>13, <2>4 DEF persist_commit
    <3>2. SnapshotAhead' = SnapshotAhead
      BY <2>1, <2>4 DEF SnapshotAhead
    <3>3. CASE Len(pending) > 0 /\ pending[1].kind = "snapshot" /\ pending[1].ver = db.ver
      <4>1. DOMAIN pending[1].bytes = DOMAIN db.bytes
        BY <1>1, <1>3, <3>3, PresentSnapshot
      <4>2. \A p \in DOMAIN db.bytes : Eventual(p)' = Eventual(p)
        BY <1>0, <2>1, <4>1, <3>3 DEF Eventual
      <4>3. SnapshotAhead
        BY <3>3 DEF SnapshotAhead
      <4> QED BY <1>1, <2>1, <3>1, <3>2, <4>2, <4>3 DEF EventualInv
    <3>4. CASE ~ (Len(pending) > 0 /\ pending[1].kind = "snapshot" /\ pending[1].ver = db.ver)
      <4>1. ~ SnapshotAhead
        BY <2>4, <3>4 DEF SnapshotAhead
      <4>2. CASE ~ lossy
        <5>1. disk.ver = db.ver
          BY <1>1, <4>1, <4>2 DEF EventualInv
        <5>2. writer.job.kind # "snapshot"
          <6>1. writer.job.kind = "snapshot" => disk.ver < writer.job.ver /\ writer.job.ver \in 1 .. db.ver
            BY <1>1, <2>1 DEF HistoryInv, SnapshotOfHistory
          <6> QED BY <1>3, <5>1, <6>1
        <5>3. /\ disk'.ver = disk.ver
              /\ \A p \in DOMAIN disk.bytes :
                    disk'.bytes[p] = IF p \in DOMAIN writer.job.bytes THEN writer.job.bytes[p]
                                     ELSE disk.bytes[p]
          BY <1>1, <1>13, <5>2, CommitFacts
        <5>4. DOMAIN disk.bytes = DOMAIN db.bytes
          BY <1>1, <5>1, PresentSnapshot
        <5>5. \A p \in DOMAIN db.bytes : Eventual(p)' = Eventual(p)
          BY <2>1, <5>3, <5>4 DEF Eventual
        <5> QED BY <1>1, <2>1, <3>1, <3>2, <4>2, <5>1, <5>3, <5>5 DEF EventualInv
      <4>3. CASE lossy
        BY <3>1, <3>2, <4>1, <4>3 DEF EventualInv
      <4> QED BY <4>2, <4>3
    <3> QED BY <3>3, <3>4
  <2> QED BY <2>3, <2>4
<1>14. CASE persist_fail
  <2>1. UNCHANGED <<db, disk, pending, captured, crossed>> /\ lossy' = TRUE /\ writer'.at # "taken"
    <3>1. writer'.at = "rejected"
      BY <1>1, <1>14 DEF persist_fail, TypeOK
    <3> QED BY <1>14, <3>1 DEF persist_fail, queueVars
  <2>2. ASSUME SnapshotAhead'
        PROVE  \A p \in DOMAIN db.bytes : Eventual(p)' = Eventual(p) /\ SnapshotAhead
    <3>1. Len(pending) > 0 /\ pending[1].kind = "snapshot" /\ pending[1].ver = db.ver
      BY <2>1, <2>2 DEF SnapshotAhead
    <3>2. DOMAIN pending[1].bytes = DOMAIN db.bytes
      BY <1>1, <1>3, <3>1, PresentSnapshot
    <3> QED BY <1>0, <2>1, <3>1, <3>2 DEF Eventual, SnapshotAhead
  <2> QED BY <1>1, <2>1, <2>2 DEF EventualInv
<1>15. CASE complete \/ notify_waiters
  <2>1. UNCHANGED <<db, disk, pending, captured, crossed, lossy>> /\ writer.at # "taken" /\ writer'.at # "taken"
    BY <1>1, <1>15 DEF complete, notify_waiters, queueVars, ghostVars, TypeOK
  <2> QED BY <1>5, <2>1
<1>16. ASSUME NEW r \in Requests, Handler(r) \/ wait_timeout(r) PROVE EventualInv'
  BY <1>1, <1>4, <1>16, HandlerFacts
<1>17. CASE Restart
  <2>1. db' = disk /\ disk' = disk /\ Len(pending') = 0 /\ writer'.at = "idle"
    BY <1>1, <1>17, RestartFacts
  <2> QED BY <2>1 DEF EventualInv, Eventual, SnapshotAhead
<1>18. CASE UNCHANGED vars
  BY <1>4, <1>18 DEF vars, queueVars, ghostVars
<1> QED BY <1>8, <1>9, <1>10, <1>11, <1>12, <1>13, <1>14, <1>15, <1>16, <1>17, <1>18 DEF Next, Worker

(* Superseding and merging queued work forgets nothing: once the writer is  *)
(* idle, nothing was lost and no flush is half-way, the disk is the         *)
(* database in memory, up to the counters of clients that the flushes of    *)
(* the janitor and of the shutdown held at one time.                        *)
THEOREM DiskCatchesUp == Spec => []CaughtUp
<1>1. Init => CatchUpInv
  <2> SUFFICES ASSUME Init PROVE CatchUpInv
    OBVIOUS
  <2>1. disk = db /\ Len(pending) = 0 /\ writer.at = "idle"
    BY DEF Init
  <2>2. EventualInv
    BY <2>1 DEF EventualInv, Eventual, SnapshotAhead
  <2> QED BY <2>2, CounterInit DEF CatchUpInv
<1>2. CatchUpInv /\ [Next]_vars => CatchUpInv'
  BY CatchUpStep
<1>3. CatchUpInv => CaughtUp
  <2> SUFFICES ASSUME CatchUpInv, Drained
               PROVE  /\ disk.ver = db.ver /\ disk.clients = db.clients /\ DOMAIN disk.bytes = DOMAIN db.bytes
                      /\ \A p \in DOMAIN db.bytes \ crossed : disk.bytes[p] = db.bytes[p]
    BY DEF CaughtUp
  <2>1. DurableInv /\ TypeOK /\ EventualInv
    BY DEF CatchUpInv, CounterInv, DurableInv
  <2>2. Len(pending) = 0 /\ ~ SnapshotAhead /\ ~ lossy
    BY DEF SnapshotAhead, Drained
  <2>3. disk.ver = db.ver /\ DOMAIN disk.bytes = DOMAIN db.bytes /\ disk.clients = db.clients
    BY <2>1, <2>2, PresentSnapshot DEF EventualInv
  <2>4. \A f \in Flushers : DOMAIN captured[f] = {}
    BY DEF NoTraffic, Drained
  <2>5. writer.at # "taken"
    BY DEF Drained
  <2>6. \A p \in DOMAIN db.bytes \ crossed : disk.bytes[p] = db.bytes[p]
    BY <2>1, <2>2, <2>4, <2>5 DEF EventualInv, Eventual
  <2> QED BY <2>3, <2>6
<1> QED BY <1>1, <1>2, <1>3, PTL DEF Spec

==============================================================================
