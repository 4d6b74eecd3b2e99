------------------------------ MODULE WorkerPool ------------------------------
(***************************************************************************)
(* The worker supervisor of rust-client/worker.rs: the workers of one      *)
(* credential cohort share a CredentialCache behind an async mutex, the    *)
(* pause gate, the flags that let one worker at a time fetch the tunnel    *)
(* configuration, and the count of active connections.  A session          *)
(* (rust-client/session.rs) is a sequence of phases that may fail in every *)
(* one of them; the cohort's workers run on several threads.               *)
(***************************************************************************)
EXTENDS Integers, FiniteSets

CONSTANTS Workers,       \* the workers that share the credentials
          Values,        \* what the authentication service may hand out
          NoValue,       \* no credential
          PerCredential, \* WORKERS_PER_CREDENTIAL
          MaxFetches,    \* bound: credentials fetched
          MaxRounds,     \* bound: turns of worker_loop before the cancellation
          MayCancel      \* bound: whether the client is stopped at all

ASSUME PoolAssumption ==
  /\ IsFiniteSet(Workers) /\ "free" \notin Workers
  /\ NoValue \notin Values /\ MayCancel \in BOOLEAN
  /\ PerCredential \in Nat \ {0} /\ {MaxFetches, MaxRounds} \subseteq Nat

VARIABLES
  cache,      \* CredentialCache: current (generation 0: None), quota_blocked, next_generation
  holder,     \* who holds the mutex around the cache across an await
  paused, cancelled, unavailable,
  sent, inFlight,  \* config_sent, config_in_flight
  active,     \* Stats::active_connections
  pc,         \* where worker_loop and its session are
  loc,        \* the locals of worker_loop: lease, flags, result
  rounds,     \* bound: turns of worker_loop so far
  allocated,  \* history: generation -> Allocate attempts the supervisor saw start
  rejected,   \* history: the credential last refused for quota, until another is stored
  outage      \* history: the last active connection was lost and no config requested since

poolVars == <<cache, holder, allocated, rejected>>
flagVars == <<paused, cancelled, unavailable>>
configVars == <<sent, inFlight, active, outage>>
vars == <<poolVars, flagVars, configVars, pc, loc, rounds>>

Free == "free"
Empty == [value |-> NoValue, gen |-> 0, attempts |-> 0, mismatches |-> 0]
Fresh == [gen |-> 0, value |-> NoValue, guard |-> FALSE,
          started |-> FALSE, recorded |-> FALSE, ready |-> FALSE, result |-> "none"]

Fetching == {"fetch", "backoff", "stored"}
InSession == {"connect", "bind", "getconf", "ready", "up"}
Phases == {"gate", "lock", "again", "pace", "gate2", "load", "cas", "start", "ended", "settle",
           "outage", "after", "judge", "delay", "done"} \cup Fetching \cup InSession

Init ==
  /\ cache = [current |-> Empty, blocked |-> NoValue, next |-> 0]
  /\ holder = Free
  /\ paused = FALSE /\ cancelled = FALSE /\ unavailable = FALSE
  /\ sent = FALSE /\ inFlight = FALSE /\ active = 0
  /\ pc = [w \in Workers |-> "gate"] /\ loc = [w \in Workers |-> Fresh]
  /\ rounds = 0 /\ allocated = [g \in 1..MaxFetches |-> 0]
  /\ rejected = NoValue /\ outage = FALSE

Go(w, to) == pc' = [pc EXCEPT ![w] = to]
\* The availability token is a child of the root token.
Stopped == cancelled \/ unavailable

------------------------------------------------------------------------------
(* CredentialCache                                                          *)

Spent(c) == c.current.gen # 0 /\ c.current.attempts >= PerCredential

Reservable(c) == c.current.gen # 0 /\ ~Spent(c)
Reserved(c) == [c EXCEPT !.current.attempts = @ + 1]
Discarded(c) == IF Spent(c) THEN [c EXCEPT !.current = Empty] ELSE c

\* Mutant: the rejected credential is taken back.
StorableAny(c, v) == TRUE

Storable(c, v) == v # c.blocked

Stored(c, v) ==
  [current |-> [value |-> v, gen |-> c.next + 1, attempts |-> 0, mismatches |-> 0],
   blocked |-> NoValue, next |-> c.next + 1]

\* Mutant: the generation of the lease is not compared.
OwnsValue(c, lease) == c.current.gen # 0 /\ c.current.value = lease.value

\* The lease is of the current credential: same generation, same secret.
Owns(c, lease) ==
  c.current.gen # 0 /\ c.current.gen = lease.gen /\ c.current.value = lease.value

Released(c, lease) ==
  IF Owns(c, lease) /\ c.current.attempts > 0 THEN [c EXCEPT !.current.attempts = @ - 1] ELSE c
Recorded(c, lease) == IF Owns(c, lease) THEN [c EXCEPT !.current.mismatches = 0] ELSE c
Invalidated(c, lease) == IF Owns(c, lease) THEN [c EXCEPT !.current = Empty] ELSE c
Rotated(c, lease) ==
  IF Owns(c, lease) THEN [c EXCEPT !.current = Empty, !.blocked = c.current.value] ELSE c
Mismatched(c, lease) ==
  IF ~Owns(c, lease) THEN c
  ELSE IF c.current.mismatches = 0 THEN [c EXCEPT !.current.mismatches = 1]
  ELSE [c EXCEPT !.current = Empty]

------------------------------------------------------------------------------
(* worker_loop up to the session                                            *)

\* wait_until_resumed polls every 250 ms, so only the flag matters.
GatePass(w) ==
  /\ pc[w] = "gate" /\ ~paused
  /\ rounds < MaxRounds \/ cancelled
  /\ rounds' = IF cancelled THEN rounds ELSE rounds + 1
  /\ Go(w, IF unavailable THEN "done" ELSE "lock")
  /\ UNCHANGED <<poolVars, flagVars, configVars, loc>>

\* Mutant: the pause gate does not listen to the cancellation.
GateDeaf(w) == pc[w] = "gate" /\ FALSE /\ UNCHANGED vars

GateCancelled(w) ==
  /\ pc[w] = "gate" /\ paused /\ cancelled
  /\ Go(w, "done")
  /\ UNCHANGED <<poolVars, flagVars, configVars, loc, rounds>>

Lease(w) ==
  loc' = [loc EXCEPT ![w].gen = cache'.current.gen, ![w].value = cache'.current.value]

\* get(): a lease of the current credential, or the mutex is kept for a fetch.
\* Whether the hash is available was asked before the mutex was waited for.
Get(w) ==
  /\ pc[w] = "lock" /\ holder = Free
  /\ IF Reservable(cache)
     THEN cache' = Reserved(cache) /\ Lease(w) /\ Go(w, "pace") /\ UNCHANGED holder
     ELSE cache' = Discarded(cache) /\ holder' = w /\ Go(w, "fetch") /\ UNCHANGED loc
  /\ UNCHANGED <<allocated, rejected, flagVars, configVars, rounds>>

\* A fetched credential is stored and leased after CREDENTIAL_POST_DELAY; the
\* one refused last is not: the mutex is dropped and the worker tries again.
FetchOk(w, v) ==
  /\ pc[w] = "fetch" /\ cache.next < MaxFetches
  /\ IF Storable(cache, v)
     THEN /\ cache' = Stored(cache, v) /\ Go(w, "stored")
          /\ rejected' = IF v # rejected THEN NoValue ELSE rejected
          /\ UNCHANGED holder
     ELSE holder' = Free /\ Go(w, "again") /\ UNCHANGED <<cache, rejected>>
  /\ UNCHANGED <<allocated, flagVars, configVars, loc, rounds>>

StoredReserve(w) ==
  /\ pc[w] = "stored"
  /\ cache' = Reserved(cache) /\ Lease(w) /\ holder' = Free /\ Go(w, "pace")
  /\ UNCHANGED <<allocated, rejected, flagVars, configVars, rounds>>

\* Any other error: the mutex is held during the backoff.
FetchError(w) ==
  /\ pc[w] = "fetch" /\ Go(w, "backoff")
  /\ UNCHANGED <<poolVars, flagVars, configVars, loc, rounds>>

BackoffEnd(w) ==
  /\ pc[w] = "backoff" /\ holder' = Free /\ Go(w, "again")
  /\ UNCHANGED <<cache, allocated, rejected, flagVars, configVars, loc, rounds>>

\* CallUnavailable: the whole hash is given up, in this cohort and the others.
FetchUnavailable(w) ==
  /\ pc[w] = "fetch" /\ unavailable' = TRUE /\ holder' = Free /\ Go(w, "again")
  /\ UNCHANGED <<cache, allocated, rejected, paused, cancelled, configVars, loc, rounds>>

FetchCancelled(w) ==
  /\ pc[w] \in Fetching /\ Stopped
  /\ holder' = Free /\ Go(w, "again")
  /\ UNCHANGED <<cache, allocated, rejected, flagVars, configVars, loc, rounds>>

Again(w) ==
  /\ pc[w] = "again" /\ Go(w, IF Stopped THEN "done" ELSE "lock")
  /\ UNCHANGED <<poolVars, flagVars, configVars, loc, rounds>>

\* Cancelled in the pacer or at the second gate: the lease is given back.
GiveUp(w) ==
  /\ \/ pc[w] = "pace" /\ cancelled
     \/ pc[w] = "gate2" /\ paused /\ cancelled
  /\ holder = Free /\ cache' = Released(cache, loc[w]) /\ Go(w, "done")
  /\ loc' = [loc EXCEPT ![w] = Fresh]
  /\ UNCHANGED <<holder, allocated, rejected, flagVars, configVars, rounds>>

Paced(w) ==
  /\ pc[w] = "pace" /\ ~cancelled /\ Go(w, "gate2")
  /\ UNCHANGED <<poolVars, flagVars, configVars, loc, rounds>>

GateTwo(w) ==
  /\ pc[w] = "gate2" /\ ~paused /\ Go(w, "load")
  /\ UNCHANGED <<poolVars, flagVars, configVars, loc, rounds>>

\* ConfigFlightGuard::acquire: load config_sent, then compare_exchange.
GuardLoad(w) ==
  /\ pc[w] = "load" /\ Go(w, IF sent THEN "start" ELSE "cas")
  /\ UNCHANGED <<poolVars, flagVars, configVars, loc, rounds>>

GuardCas(w) ==
  /\ pc[w] = "cas" /\ Go(w, "start")
  /\ inFlight' = TRUE
  /\ loc' = [loc EXCEPT ![w].guard = ~inFlight]
  /\ outage' = (outage /\ inFlight)
  /\ UNCHANGED <<poolVars, flagVars, sent, active, rounds>>

------------------------------------------------------------------------------
(* The session                                                              *)

\* No usable TURN address: the session ends before it announced anything.
StartFails(w) ==
  /\ pc[w] = "start"
  /\ loc' = [loc EXCEPT ![w].result = "other"]
  /\ Go(w, "ended")
  /\ UNCHANGED <<poolVars, flagVars, configVars, rounds>>

\* allocation_started is sent and the Allocate transaction begins.
Start(w) ==
  /\ pc[w] = "start" /\ Go(w, "connect")
  /\ loc' = [loc EXCEPT ![w].started = TRUE]
  /\ UNCHANGED <<poolVars, flagVars, configVars, rounds>>

RecordAllocation(w) ==
  /\ pc[w] \in InSession \ {"connect"} /\ ~loc[w].recorded /\ holder = Free
  /\ cache' = Recorded(cache, loc[w])
  /\ loc' = [loc EXCEPT ![w].recorded = TRUE]
  /\ UNCHANGED <<holder, allocated, rejected, flagVars, configVars, pc, rounds>>

PhaseOk(w) ==
  /\ \/ pc[w] = "connect" /\ Go(w, "bind")
     \/ pc[w] = "bind" /\ Go(w, "getconf")
  /\ UNCHANGED <<poolVars, flagVars, configVars, loc, rounds>>

End(w, result) == Go(w, "ended") /\ loc' = [loc EXCEPT ![w].result = result]

PhaseFails(w) ==
  /\ \/ pc[w] = "connect" /\ \E r \in {"quota", "auth", "mismatch", "other"} : End(w, r)
     \/ pc[w] = "bind" /\ \E r \in {"auth", "mismatch", "other"} : End(w, r)
  /\ UNCHANGED <<poolVars, flagVars, configVars, rounds>>

\* request_configuration answered: ConfigDeliveryState::complete, then READY.
ConfigAnswered(w, delivered) ==
  /\ pc[w] = "getconf" /\ Go(w, "ready")
  /\ sent' = (sent \/ (loc[w].guard /\ delivered))
  /\ inFlight' = IF loc[w].guard THEN FALSE ELSE inFlight
  /\ UNCHANGED <<poolVars, flagVars, active, outage, loc, rounds>>

ConfigFails(w) ==
  /\ pc[w] = "getconf" /\ End(w, "other")
  /\ inFlight' = IF loc[w].guard THEN FALSE ELSE inFlight
  /\ UNCHANGED <<poolVars, flagVars, sent, active, outage, rounds>>

Ready(w) ==
  /\ pc[w] = "ready" /\ Go(w, "up") /\ active' = active + 1
  /\ loc' = [loc EXCEPT ![w].ready = TRUE]
  /\ UNCHANGED <<poolVars, flagVars, sent, inFlight, outage, rounds>>

\* The writer or reader failed, the channel could not be rebound, or a REPAIR
\* restarts the stream.
Lost(w) ==
  /\ pc[w] = "up" /\ active' = active - 1
  /\ \E r \in {"repair", "auth", "mismatch", "other"} : End(w, r)
  /\ outage' = (outage \/ active = 1)
  /\ UNCHANGED <<poolVars, flagVars, sent, inFlight, rounds>>

\* The session's token is the hash's: it stops with the hash or the client.
SessionStopped(w) ==
  /\ pc[w] \in InSession /\ Stopped /\ End(w, "ok")
  /\ active' = IF pc[w] = "up" THEN active - 1 ELSE active
  /\ UNCHANGED <<poolVars, flagVars, sent, inFlight, outage, rounds>>

------------------------------------------------------------------------------
(* worker_loop after the session                                            *)

\* Mutant: the lease is given back although the allocation was seen to start.
ReturnAlways(w) ==
  /\ pc[w] = "ended" /\ holder = Free /\ Go(w, "settle")
  /\ cache' = Released(cache, loc[w])
  /\ allocated' = IF loc[w].started THEN [allocated EXCEPT ![loc[w].gen] = @ + 1] ELSE allocated
  /\ UNCHANGED <<holder, rejected, flagVars, configVars, loc, rounds>>

\* A lease whose allocation was not seen to start is given back.  The select!
\* of worker_loop picks a ready branch at random, so it may have taken the
\* result of the session without having seen allocation_started.
Return(w) ==
  /\ pc[w] = "ended" /\ Go(w, "settle")
  /\ \/ /\ loc[w].started
        /\ allocated' = [allocated EXCEPT ![loc[w].gen] = @ + 1] /\ UNCHANGED cache
     \/ /\ holder = Free
        /\ cache' = Released(cache, loc[w]) /\ UNCHANGED allocated
  /\ UNCHANGED <<holder, rejected, flagVars, configVars, loc, rounds>>

\* Mutant: the guard is only released by a completed request.
DropGuardNot(w) ==
  /\ pc[w] = "settle" /\ Go(w, "outage")
  /\ UNCHANGED <<poolVars, flagVars, configVars, loc, rounds>>

\* drop(config_guard)
DropGuard(w) ==
  /\ pc[w] = "settle" /\ Go(w, "outage")
  /\ inFlight' = IF loc[w].guard THEN FALSE ELSE inFlight
  /\ UNCHANGED <<poolVars, flagVars, sent, active, outage, loc, rounds>>

\* Mutant: the outage is only noticed while this connection still counts.
RefreshEarly(w) == loc[w].ready /\ loc[w].result # "ok" /\ active = 1 /\ ~cancelled

\* should_refresh_configuration_after_full_outage
Refresh(w) == loc[w].ready /\ loc[w].result # "ok" /\ active = 0 /\ ~cancelled

CheckOutage(w) ==
  /\ pc[w] = "outage" /\ Go(w, "after")
  /\ sent' = IF Refresh(w) THEN FALSE ELSE sent
  /\ UNCHANGED <<poolVars, flagVars, inFlight, active, outage, loc, rounds>>

\* A REPAIR costs the credential when RepairState::credential_generation has
\* grown since the session began (StreamRepair says when it does).
Judges(w, grown) ==
  loc[w].result \in {"auth", "quota", "mismatch"} \/ (loc[w].result = "repair" /\ grown)

Judged(w) ==
  CASE loc[w].result = "quota" -> Rotated(cache, loc[w])
    [] loc[w].result = "mismatch" -> Mismatched(cache, loc[w])
    [] OTHER -> Invalidated(cache, loc[w])

After(w) ==
  /\ pc[w] = "after"
  /\ \/ Stopped /\ Go(w, "done") /\ loc' = [loc EXCEPT ![w] = Fresh]
     \/ ~Stopped /\ paused /\ Go(w, "gate") /\ loc' = [loc EXCEPT ![w] = Fresh]
     \/ ~Stopped /\ ~paused /\ Go(w, "judge") /\ UNCHANGED loc
  /\ UNCHANGED <<poolVars, flagVars, configVars, rounds>>

\* The result of the session decides what becomes of the shared credential.
Judge(w) ==
  /\ pc[w] = "judge" /\ Go(w, "delay")
  /\ \E grown \in BOOLEAN : IF Judges(w, grown)
     THEN /\ holder = Free /\ cache' = Judged(w)
          /\ rejected' = IF loc[w].result = "quota" /\ cache' # cache
                         THEN cache.current.value ELSE rejected
     ELSE UNCHANGED <<cache, rejected>>
  /\ loc' = [loc EXCEPT ![w] = Fresh]
  /\ UNCHANGED <<holder, allocated, flagVars, configVars, rounds>>

\* The delay ends or the cancellation ends it.
Delay(w) ==
  /\ pc[w] = "delay"
  /\ \/ cancelled /\ Go(w, "done")
     \/ Go(w, "gate")
  /\ UNCHANGED <<poolVars, flagVars, configVars, loc, rounds>>

------------------------------------------------------------------------------
(* The rest of the client                                                   *)

\* PAUSE and RESUME on standard input.
SetPaused ==
  /\ paused' = ~paused
  /\ UNCHANGED <<poolVars, cancelled, unavailable, configVars, pc, loc, rounds>>

Cancel ==
  /\ MayCancel /\ ~cancelled /\ cancelled' = TRUE
  /\ UNCHANGED <<poolVars, paused, unavailable, configVars, pc, loc, rounds>>

Step(w) ==
  \/ GatePass(w) \/ GateCancelled(w) \/ Get(w) \/ (\E v \in Values : FetchOk(w, v))
  \/ StoredReserve(w) \/ FetchError(w) \/ BackoffEnd(w) \/ FetchUnavailable(w)
  \/ FetchCancelled(w) \/ Again(w) \/ GiveUp(w) \/ Paced(w) \/ GateTwo(w)
  \/ GuardLoad(w) \/ GuardCas(w) \/ StartFails(w) \/ Start(w)
  \/ RecordAllocation(w) \/ PhaseOk(w) \/ PhaseFails(w)
  \/ (\E d \in BOOLEAN : ConfigAnswered(w, d)) \/ ConfigFails(w) \/ Ready(w) \/ Lost(w)
  \/ SessionStopped(w) \/ Return(w) \/ DropGuard(w) \/ CheckOutage(w) \/ After(w) \/ Judge(w)
  \/ Delay(w)

Next == (\E w \in Workers : Step(w)) \/ SetPaused \/ Cancel

Spec == Init /\ [][Next]_vars

\* The runtime schedules every task, every request has a timeout, and the
\* mutex is handed over in the order it was asked for.
FairSpec == Spec /\ \A w \in Workers : WF_vars(Step(w))

------------------------------------------------------------------------------
(* Properties                                                               *)

\* Every local and shared variable stays in its type; the mutex is held by a
\* worker that is fetching, and by no other.
TypeOK ==
  /\ pc \in [Workers -> Phases] /\ active \in 0..Cardinality(Workers)
  /\ cache.current.value \in Values \cup {NoValue} /\ cache.current.gen \in 0..cache.next
  /\ \A w \in Workers : pc[w] \in Fetching <=> holder = w

\* No generation of a credential is used for more than WORKERS_PER_CREDENTIAL
\* Allocate attempts, however leases are returned, rotated and raced for.  An
\* attempt whose start the select! missed is not counted, by the code or here.
AllocationsBounded ==
  /\ TypeOK
  /\ \A g \in DOMAIN allocated : allocated[g] <= PerCredential

\* A worker that fails with an old lease never takes the credential the
\* others have moved to from them, even when it is the same secret again.
StaleLeaseHarmless ==
  [][\A w \in Workers :
       pc[w] = "judge" /\ pc'[w] = "delay" /\ loc[w].gen # cache.current.gen
         => cache'.current = cache.current]_vars

\* The credential that was refused for quota is not handed out again until
\* the service has produced a different one.
RejectedNotLeased == rejected # NoValue => cache.current.value # rejected

\* config_in_flight is only set while some worker is there to clear it, so a
\* failed request never stops the configuration from being asked for.
FlightNotLeaked ==
  inFlight => \E w \in Workers : loc[w].guard /\ pc[w] \in InSession \cup {"start", "ended", "settle"}

\* Once every connection has been lost and the workers have dealt with it,
\* the next one to connect asks for the configuration again.
Quiet == \A w \in Workers : pc[w] \notin InSession \cup {"ended", "settle", "outage"}
OutageRefreshes == outage /\ Quiet /\ ~Stopped => ~sent

\* At most one worker asks for the configuration at a time.
Asking(w) == loc[w].guard /\ pc[w] \in {"start", "connect", "bind", "getconf"}
ConfigSingleFlight == \A v, w \in Workers : Asking(v) /\ Asking(w) => v = w

\* After the cancellation every worker loop returns.
CancelStops == cancelled ~> \A w \in Workers : pc[w] = "done"
==============================================================================
