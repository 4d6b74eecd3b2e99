--------------------------- MODULE WorkerPoolProofs ---------------------------
(***************************************************************************)
(* The safety properties of WorkerPool for any number of workers, values,  *)
(* fetches and turns, and any number of workers per credential.            *)
(***************************************************************************)
EXTENDS WorkerPool, FiniteSetTheorems, TLAPS

-------------------------------------------------------------------------------
(* The inductive invariant                                                   *)

Secrets == Values \cup {NoValue}
Entries == [value : Secrets, gen : Nat, attempts : Nat, mismatches : Nat]
Caches == [current : Entries, blocked : Secrets, next : Nat]
Results == {"none", "ok", "quota", "auth", "mismatch", "other", "repair"}
Locals == [gen : Nat, value : Secrets, guard : BOOLEAN, started : BOOLEAN,
           recorded : BOOLEAN, ready : BOOLEAN, result : Results]

\* The workers with a connection.
Ups == {w \in Workers : pc[w] = "up"}

\* The types; the mutex is held by the worker that fetches; active counts the
\* connections that are up.
PoolTypes ==
  /\ pc \in [Workers -> Phases] /\ loc \in [Workers -> Locals]
  /\ cache \in Caches /\ cache.current.gen \in 0 .. cache.next
  /\ cache.next \in 0 .. MaxFetches
  /\ holder \in Workers \cup {Free}
  /\ allocated \in [1 .. MaxFetches -> Nat] /\ rejected \in Secrets
PoolFlags == {sent, inFlight, outage, paused, cancelled, unavailable} \subseteq BOOLEAN
Mutex == \A w \in Workers : pc[w] \in Fetching <=> holder = w
Counted == active = Cardinality(Ups)

\* A worker has a lease from the reservation until it has been returned or
\* counted as an Allocate attempt.
Leasing == {"pace", "gate2", "load", "cas", "start", "ended"} \cup InSession
Leases(g) == {w \in Workers : pc[w] \in Leasing /\ loc[w].gen = g}
Used(g) == allocated[g] + Cardinality(Leases(g))

\* Every attempt and every lease of a generation is one of its reservations,
\* of which there are at most PerCredential.
Reservations(g) ==
  /\ Used(g) <= PerCredential
  /\ g > cache.next => Used(g) = 0
  /\ g = cache.current.gen => /\ Used(g) <= cache.current.attempts
                             /\ cache.current.attempts <= PerCredential
LeaseInv ==
  /\ \A w \in Workers : pc[w] \in Leasing => loc[w].gen \in 1 .. cache.next
  /\ \A w \in Workers : pc[w] = "stored" => cache.current.gen # 0 /\ cache.current.attempts = 0
  /\ \A g \in 1 .. MaxFetches : Reservations(g)

\* A refused credential stays blocked, and the cache empty, until another one
\* is stored; a cache without a credential has no value.
QuotaInv ==
  /\ cache.current.gen = 0 <=> cache.current.value = NoValue
  /\ rejected # NoValue => cache.blocked = rejected /\ cache.current.gen = 0

\* While the outage stands and the configuration counts as sent, there is a
\* worker that is connected or will find out that nobody is.
Answerable(w) ==
  \/ pc[w] \in {"ready", "up"}
  \/ pc[w] \in {"ended", "settle", "outage"} /\ loc[w].ready /\ loc[w].result # "ok"
OutageInv ==
  /\ \A w \in Workers : pc[w] = "up" => loc[w].ready
  /\ outage /\ sent /\ ~Stopped => \E w \in Workers : Answerable(w)

PoolInv ==
  /\ PoolTypes /\ PoolFlags /\ Mutex /\ Counted
  /\ LeaseInv /\ QuotaInv /\ FlightNotLeaked /\ OutageInv
-------------------------------------------------------------------------------
(* The cache's operators                                                     *)

(* Emptying the cache.                                                       *)
LEMMA EmptyEntry == Empty \in Entries
BY DEF Empty, Entries, Secrets

(* A reservation adds an attempt to the current credential.                  *)
LEMMA ReservedCache ==
  ASSUME NEW c \in Caches
  PROVE  /\ Reserved(c) \in Caches
         /\ Reserved(c).next = c.next /\ Reserved(c).blocked = c.blocked
         /\ Reserved(c).current.gen = c.current.gen
         /\ Reserved(c).current.value = c.current.value
         /\ Reserved(c).current.attempts = c.current.attempts + 1
<1>1. c.current \in Entries
  BY DEF Caches
<1>2. [c.current EXCEPT !.attempts = @ + 1] \in Entries
  BY <1>1 DEF Entries
<1>3. Reserved(c) = [c EXCEPT !.current = [c.current EXCEPT !.attempts = @ + 1]]
  BY DEF Reserved
<1> QED BY <1>1, <1>2, <1>3 DEF Caches, Entries

(* What a cache operation that neither reserves nor stores may do: the       *)
(* current credential stays, with its attempts, or it goes.                  *)
Keeps(c, d) ==
  /\ d \in Caches /\ d.next = c.next
  /\ \/ d.current = Empty
     \/ /\ d.current.gen = c.current.gen /\ d.current.value = c.current.value
        /\ d.current.attempts = c.current.attempts /\ d.blocked = c.blocked

(* All the operations that judge a credential are of this kind.              *)
LEMMA KeptCache ==
  ASSUME NEW c \in Caches, NEW l
  PROVE  /\ Keeps(c, c) /\ Keeps(c, Discarded(c)) /\ Keeps(c, Recorded(c, l))
         /\ Keeps(c, Invalidated(c, l)) /\ Keeps(c, Rotated(c, l)) /\ Keeps(c, Mismatched(c, l))
<1>1. c.current \in Entries /\ c.blocked \in Secrets /\ c.next \in Nat
  BY DEF Caches
<1>2. /\ [c EXCEPT !.current = Empty] \in Caches /\ [c EXCEPT !.current = Empty].current = Empty
      /\ [c EXCEPT !.current = Empty].next = c.next
  BY <1>1, EmptyEntry DEF Caches
<1>3. ASSUME NEW n \in Nat
      PROVE  Keeps(c, [c EXCEPT !.current.mismatches = n])
  <2>1. [c.current EXCEPT !.mismatches = n] \in Entries
    BY <1>1, <1>3 DEF Entries
  <2>2. [c EXCEPT !.current.mismatches = n] = [c EXCEPT !.current = [c.current EXCEPT !.mismatches = n]]
    OBVIOUS
  <2> QED BY <1>1, <2>1, <2>2 DEF Keeps, Caches, Entries
<1>4. Keeps(c, c)
  BY DEF Keeps
<1>5. Keeps(c, [c EXCEPT !.current = Empty])
  BY <1>2 DEF Keeps
<1>6. Keeps(c, [c EXCEPT !.current = Empty, !.blocked = c.current.value])
  <2>1. c.current.value \in Secrets
    BY <1>1 DEF Entries
  <2> QED BY <1>1, <2>1, EmptyEntry DEF Keeps, Caches
<1> QED BY <1>3, <1>4, <1>5, <1>6 DEF Discarded, Recorded, Invalidated, Rotated, Mismatched

(* A lease is given back to its own credential only.                         *)
LEMMA ReleasedCache ==
  ASSUME NEW c \in Caches, NEW l
  PROVE  /\ Released(c, l) \in Caches /\ Released(c, l).next = c.next
         /\ Released(c, l).blocked = c.blocked
         /\ Released(c, l).current.gen = c.current.gen
         /\ Released(c, l).current.value = c.current.value
         /\ \/ Released(c, l) = c
            \/ /\ c.current.gen = l.gen /\ c.current.attempts > 0
               /\ Released(c, l).current.attempts = c.current.attempts - 1
<1>1. c.current \in Entries /\ c.blocked \in Secrets /\ c.next \in Nat
  BY DEF Caches
<1>2. CASE Owns(c, l) /\ c.current.attempts > 0
  <2>1. Released(c, l) = [c EXCEPT !.current = [c.current EXCEPT !.attempts = @ - 1]]
    BY <1>2 DEF Released
  <2>2. [c.current EXCEPT !.attempts = @ - 1] \in Entries
    BY <1>1, <1>2 DEF Entries
  <2> QED BY <1>1, <1>2, <2>1, <2>2 DEF Caches, Entries, Owns
<1>3. CASE ~(Owns(c, l) /\ c.current.attempts > 0)
  BY <1>3 DEF Released
<1> QED BY <1>2, <1>3

(* A stored credential has the next generation and no reservation.           *)
LEMMA StoredCache ==
  ASSUME NEW c \in Caches, NEW v \in Values
  PROVE  /\ Stored(c, v) \in Caches /\ Stored(c, v).next = c.next + 1
         /\ Stored(c, v).current.gen = c.next + 1 /\ Stored(c, v).current.value = v
         /\ Stored(c, v).current.attempts = 0 /\ Stored(c, v).blocked = NoValue
BY DEF Stored, Caches, Entries, Secrets

-------------------------------------------------------------------------------
(* Types                                                                     *)

(* The phases a worker goes through.                                         *)
LEMMA PhaseStep ==
  ASSUME NEW w \in Workers, pc \in [Workers -> Phases], Step(w)
  PROVE  pc' \in [Workers -> Phases] /\ \A v \in Workers \ {w} : pc'[v] = pc[v]
<1> USE DEF Go, Phases, Fetching, InSession
<1>1. CASE GatePass(w)
  BY <1>1 DEF GatePass
<1>2. CASE GateCancelled(w)
  BY <1>2 DEF GateCancelled
<1>3. CASE Get(w)
  BY <1>3 DEF Get
<1>4. CASE \E v \in Values : FetchOk(w, v)
  BY <1>4 DEF FetchOk
<1>5. CASE StoredReserve(w)
  BY <1>5 DEF StoredReserve
<1>6. CASE FetchError(w)
  BY <1>6 DEF FetchError
<1>7. CASE BackoffEnd(w)
  BY <1>7 DEF BackoffEnd
<1>8. CASE FetchUnavailable(w)
  BY <1>8 DEF FetchUnavailable
<1>9. CASE FetchCancelled(w)
  BY <1>9 DEF FetchCancelled
<1>10. CASE Again(w)
  BY <1>10 DEF Again
<1>11. CASE GiveUp(w)
  BY <1>11 DEF GiveUp
<1>12. CASE Paced(w)
  BY <1>12 DEF Paced
<1>13. CASE GateTwo(w)
  BY <1>13 DEF GateTwo
<1>14. CASE GuardLoad(w)
  BY <1>14 DEF GuardLoad
<1>15. CASE GuardCas(w)
  BY <1>15 DEF GuardCas
<1>16. CASE StartFails(w)
  BY <1>16 DEF StartFails
<1>17. CASE Start(w)
  BY <1>17 DEF Start
<1>18. CASE RecordAllocation(w)
  BY <1>18 DEF RecordAllocation
<1>19. CASE PhaseOk(w)
  BY <1>19 DEF PhaseOk
<1>20. CASE PhaseFails(w)
  BY <1>20 DEF PhaseFails, End
<1>21. CASE \E d \in BOOLEAN : ConfigAnswered(w, d)
  BY <1>21 DEF ConfigAnswered
<1>22. CASE ConfigFails(w)
  BY <1>22 DEF ConfigFails, End
<1>23. CASE Ready(w)
  BY <1>23 DEF Ready
<1>24. CASE Lost(w)
  BY <1>24 DEF Lost, End
<1>25. CASE SessionStopped(w)
  BY <1>25 DEF SessionStopped, End
<1>26. CASE Return(w)
  BY <1>26 DEF Return
<1>27. CASE DropGuard(w)
  BY <1>27 DEF DropGuard
<1>28. CASE CheckOutage(w)
  BY <1>28 DEF CheckOutage
<1>29. CASE After(w)
  BY <1>29 DEF After
<1>30. CASE Judge(w)
  BY <1>30 DEF Judge
<1>31. CASE Delay(w)
  BY <1>31 DEF Delay
<1> QED BY <1>1, <1>2, <1>3, <1>4, <1>5, <1>6, <1>7, <1>8, <1>9, <1>10, <1>11, <1>12, <1>13, <1>14, <1>15, <1>16, <1>17, <1>18, <1>19, <1>20, <1>21, <1>22, <1>23, <1>24, <1>25, <1>26, <1>27, <1>28, <1>29, <1>30, <1>31 DEF Step

(* The steps of a worker that touch the credentials or their mutex.          *)
PoolStep(w) ==
  \/ Get(w) \/ (\E v \in Values : FetchOk(w, v)) \/ StoredReserve(w)
  \/ BackoffEnd(w) \/ FetchUnavailable(w) \/ FetchCancelled(w)
  \/ GiveUp(w) \/ RecordAllocation(w) \/ Return(w) \/ Judge(w)

(* All other steps leave the credentials and the mutex alone.                *)
LEMMA PoolSteps ==
  ASSUME NEW w \in Workers, Step(w)
  PROVE  PoolStep(w) \/ UNCHANGED poolVars
BY DEF Step, PoolStep, GatePass, GateCancelled, FetchError, Again, Paced, GateTwo, GuardLoad, GuardCas, StartFails, Start, PhaseOk, PhaseFails, ConfigAnswered, ConfigFails, Ready, Lost, SessionStopped, DropGuard, CheckOutage, After, Delay, poolVars


(* The locals stay in their type, and a step changes its own worker's only. *)
LEMMA LocalsStep ==
  ASSUME NEW w \in Workers, loc \in [Workers -> Locals], Step(w), cache' \in Caches
  PROVE  loc' \in [Workers -> Locals] /\ \A v \in Workers \ {w} : loc'[v] = loc[v]
<1>1. cache'.current.gen \in Nat /\ cache'.current.value \in Secrets
  BY DEF Caches, Entries
<1>2. Fresh \in Locals
  BY DEF Fresh, Locals, Secrets, Results
<1>3. loc[w] \in Locals
  OBVIOUS
<1>4. CASE Lease(w)
  <2>1. loc' = [loc EXCEPT ![w] = [loc[w] EXCEPT !.gen = cache'.current.gen,
                                                !.value = cache'.current.value]]
    BY <1>4 DEF Lease
  <2>2. [loc[w] EXCEPT !.gen = cache'.current.gen, !.value = cache'.current.value] \in Locals
    BY <1>1, <1>3 DEF Locals
  <2> QED BY <2>1, <2>2
<1>5. CASE loc' = [loc EXCEPT ![w] = Fresh]
  BY <1>2, <1>5
<1>6. CASE \E r \in Results : loc' = [loc EXCEPT ![w].result = r]
  <2>1. PICK r \in Results : loc' = [loc EXCEPT ![w].result = r]
    BY <1>6
  <2>2. [loc[w] EXCEPT !.result = r] \in Locals
    BY <1>3, <2>1 DEF Locals
  <2> QED BY <2>1, <2>2
<1>7. CASE \E b \in BOOLEAN : \/ loc' = [loc EXCEPT ![w].guard = b]
                              \/ loc' = [loc EXCEPT ![w].started = b]
                              \/ loc' = [loc EXCEPT ![w].recorded = b]
                              \/ loc' = [loc EXCEPT ![w].ready = b]
  <2>1. PICK b \in BOOLEAN : \/ loc' = [loc EXCEPT ![w].guard = b]
                             \/ loc' = [loc EXCEPT ![w].started = b]
                             \/ loc' = [loc EXCEPT ![w].recorded = b]
                             \/ loc' = [loc EXCEPT ![w].ready = b]
    BY <1>7
  <2>2. /\ [loc[w] EXCEPT !.guard = b] \in Locals /\ [loc[w] EXCEPT !.started = b] \in Locals
        /\ [loc[w] EXCEPT !.recorded = b] \in Locals /\ [loc[w] EXCEPT !.ready = b] \in Locals
    BY <1>3, <2>1 DEF Locals
  <2> QED BY <2>1, <2>2
<1>8. CASE UNCHANGED loc
  BY <1>8
<1>9. \/ GuardCas(w) \/ StartFails(w) \/ Start(w) \/ RecordAllocation(w) \/ PhaseFails(w)
      \/ ConfigFails(w) \/ Ready(w) \/ Lost(w) \/ SessionStopped(w)
      \/ Lease(w) \/ loc' = [loc EXCEPT ![w] = Fresh] \/ UNCHANGED loc
  BY DEF Step, GatePass, GateCancelled, Get, FetchOk, StoredReserve, FetchError, BackoffEnd,
         FetchUnavailable, FetchCancelled, Again, GiveUp, Paced, GateTwo, GuardLoad, PhaseOk,
         ConfigAnswered, Return, DropGuard, CheckOutage, After, Judge, Delay
<1>10. CASE \/ GuardCas(w) \/ Start(w) \/ RecordAllocation(w) \/ Ready(w)
  BY <1>7, <1>10 DEF GuardCas, Start, RecordAllocation, Ready
<1>11. CASE \/ StartFails(w) \/ PhaseFails(w) \/ ConfigFails(w) \/ Lost(w) \/ SessionStopped(w)
  BY <1>6, <1>11 DEF StartFails, PhaseFails, ConfigFails, Lost, SessionStopped, End, Results
<1> QED BY <1>4, <1>5, <1>8, <1>9, <1>10, <1>11

(* The verdict on a session is one of the operations that keep or empty.     *)
LEMMA JudgedCache ==
  ASSUME NEW w \in Workers, PoolTypes
  PROVE  Keeps(cache, Judged(w))
<1>1. cache \in Caches
  BY DEF PoolTypes
<1> QED BY <1>1, KeptCache DEF Judged

(* The cache, the mutex and the histories stay in their types.               *)
LEMMA PoolTypesStep ==
  ASSUME NEW w \in Workers, PoolTypes, Step(w)
  PROVE  PoolTypes'
<1>1. cache \in Caches /\ cache.next \in 0 .. MaxFetches /\ cache.current.gen \in 0 .. cache.next
  BY DEF PoolTypes
<1> DEFINE Good == /\ cache' \in Caches /\ cache'.next \in 0 .. MaxFetches
                   /\ cache'.current.gen \in 0 .. cache'.next
           Rest == /\ holder' \in Workers \cup {Free} /\ rejected' \in Secrets
                   /\ allocated' \in [1 .. MaxFetches -> Nat]
<1>2. ASSUME Keeps(cache, cache')
      PROVE  Good
  <2>1. Empty.gen = 0
    BY DEF Empty
  <2> QED BY <1>1, <1>2, <2>1 DEF Keeps
<1>3. Good
  <2>1. CASE UNCHANGED poolVars
    BY <1>1, <2>1 DEF poolVars
  <2>2. CASE Get(w)
    BY <1>1, <1>2, <2>2, ReservedCache, KeptCache DEF Get
  <2>3. ASSUME NEW v \in Values, FetchOk(w, v)
        PROVE  Good
    BY <1>1, <2>3, StoredCache, PoolAssumption DEF FetchOk
  <2>4. CASE StoredReserve(w)
    BY <1>1, <2>4, ReservedCache DEF StoredReserve
  <2>5. CASE BackoffEnd(w) \/ FetchUnavailable(w) \/ FetchCancelled(w)
    BY <1>1, <2>5 DEF BackoffEnd, FetchUnavailable, FetchCancelled
  <2>6. CASE GiveUp(w)
    BY <1>1, <2>6, ReleasedCache DEF GiveUp
  <2>7. CASE RecordAllocation(w)
    BY <1>1, <1>2, <2>7, KeptCache DEF RecordAllocation
  <2>8. CASE Return(w)
    BY <1>1, <2>8, ReleasedCache DEF Return
  <2>9. CASE Judge(w)
    BY <1>1, <1>2, <2>9, JudgedCache DEF Judge
  <2> QED BY <2>1, <2>2, <2>3, <2>4, <2>5, <2>6, <2>7, <2>8, <2>9, PoolSteps DEF PoolStep
<1>4. Rest
  <2>1. cache.current.value \in Secrets /\ holder \in Workers \cup {Free} /\ rejected \in Secrets
        /\ allocated \in [1 .. MaxFetches -> Nat]
    BY DEF PoolTypes, Caches, Entries
  <2>2. NoValue \in Secrets
    BY DEF Secrets
  <2>3. CASE UNCHANGED poolVars
    BY <2>1, <2>3 DEF poolVars
  <2>4. CASE Return(w)
    BY <2>1, <2>4 DEF Return
  <2>5. CASE Judge(w)
    BY <2>1, <2>5 DEF Judge
  <2>6. CASE \E v \in Values : FetchOk(w, v)
    BY <2>1, <2>2, <2>6 DEF FetchOk
  <2>7. CASE \/ Get(w) \/ StoredReserve(w) \/ BackoffEnd(w) \/ FetchUnavailable(w)
             \/ FetchCancelled(w) \/ GiveUp(w) \/ RecordAllocation(w)
    BY <2>1, <2>7 DEF Get, StoredReserve, BackoffEnd, FetchUnavailable, FetchCancelled,
       GiveUp, RecordAllocation
  <2> QED BY <2>3, <2>4, <2>5, <2>6, <2>7, PoolSteps DEF PoolStep
<1>5. pc' \in [Workers -> Phases] /\ loc' \in [Workers -> Locals]
  BY <1>3, PhaseStep, LocalsStep DEF PoolTypes
<1> QED BY <1>3, <1>4, <1>5 DEF PoolTypes

(* The flags stay Boolean.                                                   *)
LEMMA FlagsStep ==
  ASSUME NEW w \in Workers, PoolTypes, PoolFlags, Step(w)
  PROVE  PoolFlags'
<1>1. loc[w].guard \in BOOLEAN
  BY DEF PoolTypes, Locals
<1>2. UNCHANGED <<paused, cancelled>> /\ unavailable' \in BOOLEAN
  BY DEF Step, GatePass, GateCancelled, Get, FetchOk, StoredReserve, FetchError, BackoffEnd,
     FetchUnavailable, FetchCancelled, Again, GiveUp, Paced, GateTwo, GuardLoad, GuardCas,
     StartFails, Start, RecordAllocation, PhaseOk, PhaseFails, ConfigAnswered, ConfigFails, Ready,
     Lost, SessionStopped, Return, DropGuard, CheckOutage, After, Judge, Delay, flagVars, PoolFlags
<1>3. sent' \in BOOLEAN /\ inFlight' \in BOOLEAN /\ outage' \in BOOLEAN
  BY <1>1 DEF Step, GatePass, GateCancelled, Get, FetchOk, StoredReserve, FetchError, BackoffEnd,
     FetchUnavailable, FetchCancelled, Again, GiveUp, Paced, GateTwo, GuardLoad, GuardCas,
     StartFails, Start, RecordAllocation, PhaseOk, PhaseFails, ConfigAnswered, ConfigFails, Ready,
     Lost, SessionStopped, Return, DropGuard, CheckOutage, After, Judge, Delay, configVars, PoolFlags
<1> QED BY <1>2, <1>3 DEF PoolFlags

(* The mutex goes with the fetch.                                            *)
LEMMA MutexStep ==
  ASSUME NEW w \in Workers, PoolTypes, Mutex, Step(w)
  PROVE  Mutex'
<1>1. /\ pc \in [Workers -> Phases] /\ Free \notin Workers
      /\ \A v \in Workers : pc[v] \in Fetching <=> holder = v
  BY PoolAssumption DEF PoolTypes, Free, Mutex
<1>2. SUFFICES \A v \in Workers : pc'[v] \in Fetching <=> holder' = v
  BY DEF Mutex
<1>3. CASE \/ Get(w) \/ (\E v \in Values : FetchOk(w, v)) \/ StoredReserve(w) \/ FetchError(w)
           \/ BackoffEnd(w) \/ FetchUnavailable(w) \/ FetchCancelled(w)
  <2>1. \A v \in Workers \ {w} : pc'[v] = pc[v] /\ pc[v] \notin Fetching
    BY <1>1, <1>3, PhaseStep DEF Get, FetchOk, StoredReserve, FetchError, BackoffEnd,
       FetchUnavailable, FetchCancelled, Fetching
  <2>2. \/ pc'[w] \in Fetching /\ holder' = w
        \/ pc'[w] \notin Fetching /\ holder' = Free
    BY <1>1, <1>3 DEF Get, FetchOk, StoredReserve, FetchError, BackoffEnd, FetchUnavailable,
       FetchCancelled, Go, Fetching, poolVars
  <2> QED BY <1>1, <2>1, <2>2
<1>4. CASE UNCHANGED holder /\ pc[w] \notin Fetching /\ pc'[w] \notin Fetching
  BY <1>1, <1>4, PhaseStep
<1>5. \/ Get(w) \/ (\E v \in Values : FetchOk(w, v)) \/ StoredReserve(w) \/ FetchError(w)
      \/ BackoffEnd(w) \/ FetchUnavailable(w) \/ FetchCancelled(w)
      \/ UNCHANGED holder /\ pc[w] \notin Fetching /\ pc'[w] \notin Fetching
  BY <1>1 DEF Step, GatePass, GateCancelled, Again, GiveUp, Paced, GateTwo, GuardLoad, GuardCas,
     StartFails, Start, RecordAllocation, PhaseOk, PhaseFails, ConfigAnswered, ConfigFails, Ready,
     Lost, SessionStopped, Return, DropGuard, CheckOutage, After, Judge, Delay, poolVars,
     Go, End, Fetching, InSession
<1> QED BY <1>3, <1>4, <1>5

(* The connections are counted.                                              *)
LEMMA UpsFinite ==
  /\ IsFiniteSet(Ups) /\ Cardinality(Ups) \in 0 .. Cardinality(Workers)
  /\ Ups # {} => Cardinality(Ups) > 0
<1>1. Ups \subseteq Workers
  BY DEF Ups
<1>2. IsFiniteSet(Ups) /\ Cardinality(Ups) <= Cardinality(Workers)
  BY <1>1, PoolAssumption, FS_Subset
<1>3. Cardinality(Ups) \in Nat /\ Cardinality(Workers) \in Nat
  BY <1>2, PoolAssumption, FS_CardinalityType
<1>4. Ups # {} => Cardinality(Ups) # 0
  BY <1>2, FS_EmptySet
<1> QED BY <1>2, <1>3, <1>4

(* active follows the connections that come up and go down.                  *)
LEMMA CountedStep ==
  ASSUME NEW w \in Workers, PoolTypes, Counted, Step(w)
  PROVE  Counted'
<1>1. pc \in [Workers -> Phases] /\ active = Cardinality(Ups)
  BY DEF PoolTypes, Counted
<1>2. CASE Ready(w)
  <2>1. Ups' = Ups \cup {w} /\ w \notin Ups /\ active' = active + 1
    BY <1>1, <1>2 DEF Ready, Go, Ups
  <2> QED BY <1>1, <2>1, UpsFinite, FS_AddElement DEF Counted
<1>3. CASE pc[w] = "up" /\ pc'[w] # "up" /\ active' = active - 1
  <2>1. Ups' = Ups \ {w} /\ w \in Ups
    BY <1>1, <1>3, PhaseStep DEF Ups
  <2> QED BY <1>1, <1>3, <2>1, UpsFinite, FS_RemoveElement DEF Counted
<1>4. CASE (pc[w] = "up" <=> pc'[w] = "up") /\ active' = active
  <2>1. Ups' = Ups
    BY <1>1, <1>4, PhaseStep DEF Ups
  <2> QED BY <1>1, <1>4, <2>1 DEF Counted
<1>5. \/ Ready(w)
      \/ pc[w] = "up" /\ pc'[w] # "up" /\ active' = active - 1
      \/ (pc[w] = "up" <=> pc'[w] = "up") /\ active' = active
  BY <1>1 DEF Step, GatePass, GateCancelled, Get, FetchOk, StoredReserve, FetchError, BackoffEnd,
     FetchUnavailable, FetchCancelled, Again, GiveUp, Paced, GateTwo, GuardLoad, GuardCas,
     StartFails, Start, RecordAllocation, PhaseOk, PhaseFails, ConfigAnswered, ConfigFails,
     Lost, SessionStopped, Return, DropGuard, CheckOutage, After, Judge, Delay, configVars,
     Go, End, Fetching, InSession
<1> QED BY <1>2, <1>3, <1>4, <1>5

-------------------------------------------------------------------------------
(* Leases                                                                    *)

(* The leases of a generation are finitely many.                             *)
LEMMA LeasesFinite ==
  ASSUME NEW g
  PROVE  IsFiniteSet(Leases(g)) /\ Cardinality(Leases(g)) \in Nat
<1>1. Leases(g) \subseteq Workers
  BY DEF Leases
<1> QED BY <1>1, PoolAssumption, FS_Subset, FS_CardinalityType

(* A worker that does not hold the mutex finds no credential being stored    *)
(* when the mutex is free.                                                   *)
LEMMA NobodyStores ==
  ASSUME Mutex, PoolTypes, holder = Free
  PROVE  \A v \in Workers : pc[v] \notin Fetching
BY PoolAssumption DEF Mutex, Free

(* How a step of worker w changes its lease.                                 *)
LEMMA LeaseSteps ==
  ASSUME NEW w \in Workers, PoolTypes, Step(w)
  PROVE  \/ /\ Get(w) \/ StoredReserve(w)
            /\ Lease(w) /\ pc[w] \notin Leasing /\ pc'[w] = "pace" /\ cache' = Reserved(cache)
         \/ GiveUp(w) \/ Return(w)
         \/ /\ pc[w] \notin Leasing /\ pc'[w] \notin Leasing /\ UNCHANGED allocated
         \/ /\ pc[w] \in Leasing /\ pc'[w] \in Leasing /\ loc'[w].gen = loc[w].gen
            /\ UNCHANGED allocated /\ (RecordAllocation(w) \/ UNCHANGED cache)
<1>1. pc \in [Workers -> Phases] /\ loc \in [Workers -> Locals] /\ loc[w] \in Locals
  BY DEF PoolTypes
<1>2. CASE Get(w)
  BY <1>1, <1>2 DEF Get, Go, Leasing, InSession
<1>3. CASE StoredReserve(w)
  BY <1>1, <1>3 DEF StoredReserve, Go, Leasing, InSession
<1>4. CASE \/ GatePass(w) \/ GateCancelled(w) \/ (\E v \in Values : FetchOk(w, v)) \/ FetchError(w)
           \/ BackoffEnd(w) \/ FetchUnavailable(w) \/ FetchCancelled(w) \/ Again(w)
           \/ DropGuard(w) \/ CheckOutage(w) \/ After(w) \/ Judge(w) \/ Delay(w)
  BY <1>1, <1>4 DEF GatePass, GateCancelled, FetchOk, FetchError, BackoffEnd,
     FetchUnavailable, FetchCancelled, Again, DropGuard, CheckOutage, After, Judge, Delay,
     poolVars, Go, Fetching, Leasing, InSession
<1>5. CASE \/ Paced(w) \/ GateTwo(w) \/ GuardLoad(w) \/ PhaseOk(w)
           \/ \E d \in BOOLEAN : ConfigAnswered(w, d)
  BY <1>1, <1>5 DEF Paced, GateTwo, GuardLoad, PhaseOk, ConfigAnswered, poolVars, Go, Leasing, InSession
<1>6. CASE GuardCas(w) \/ Start(w) \/ RecordAllocation(w) \/ Ready(w)
  BY <1>1, <1>6 DEF GuardCas, Start, RecordAllocation, Ready, poolVars, Go, Leasing, InSession, Locals
<1>7. CASE \/ StartFails(w) \/ PhaseFails(w) \/ ConfigFails(w) \/ Lost(w) \/ SessionStopped(w)
  BY <1>1, <1>7 DEF StartFails, PhaseFails, ConfigFails, Lost, SessionStopped, End, poolVars, Go,
     Leasing, InSession, Locals
<1> QED BY <1>2, <1>3, <1>4, <1>5, <1>6, <1>7 DEF Step

(* A step that leaves the leases and the attempts alone, and the current     *)
(* credential as it is unless it empties the cache, keeps the count.         *)
LEMMA NeutralStep ==
  ASSUME PoolTypes, PoolTypes', NEW g \in 1 .. MaxFetches, Reservations(g),
         Leases(g)' = Leases(g), UNCHANGED allocated, Keeps(cache, cache')
  PROVE  Reservations(g)'
<1>1. Used(g)' = Used(g)
  BY DEF Used
<1>2. cache'.next = cache.next
  BY DEF Keeps
<1>3. g = cache'.current.gen =>
        cache'.current.gen = cache.current.gen /\ cache'.current.attempts = cache.current.attempts
  BY DEF Keeps, Empty
<1> QED BY <1>1, <1>2, <1>3 DEF Reservations

(* A step that leaves the other workers alone changes no lease but its own.  *)
LEMMA OtherLeases ==
  ASSUME NEW w \in Workers, PoolTypes, PoolTypes', Step(w), NEW g
  PROVE  /\ Leases(g)' \ {w} = Leases(g) \ {w}
         /\ w \in Leases(g) <=> pc[w] \in Leasing /\ loc[w].gen = g
         /\ w \in Leases(g)' <=> pc'[w] \in Leasing /\ loc'[w].gen = g
<1>1. \A v \in Workers \ {w} : pc'[v] = pc[v] /\ loc'[v] = loc[v]
  BY PhaseStep, LocalsStep DEF PoolTypes
<1> QED BY <1>1 DEF Leases

(* The leases are counted by the attempts of their generation.               *)
LEMMA LeaseStep ==
  ASSUME NEW w \in Workers, PoolTypes, PoolTypes', Mutex, LeaseInv, Step(w)
  PROVE  LeaseInv'
<1>1. /\ cache \in Caches /\ cache.current.gen \in 0 .. cache.next
      /\ cache.next \in 0 .. MaxFetches /\ cache.current.attempts \in Nat
      /\ pc \in [Workers -> Phases] /\ loc \in [Workers -> Locals]
      /\ allocated \in [1 .. MaxFetches -> Nat]
      /\ MaxFetches \in Nat /\ PerCredential \in Nat \ {0}
      /\ \A v \in Workers \ {w} : pc'[v] = pc[v] /\ loc'[v] = loc[v]
  BY PhaseStep, LocalsStep, PoolAssumption DEF PoolTypes, Caches, Entries
<1>2. \A g \in 1 .. MaxFetches : Used(g) \in Nat
  BY <1>1, LeasesFinite DEF Used
<1>3. /\ \A v \in Workers : pc[v] \in Leasing => loc[v].gen \in 1 .. cache.next
      /\ \A v \in Workers : pc[v] = "stored" => cache.current.gen # 0 /\ cache.current.attempts = 0
      /\ \A g \in 1 .. MaxFetches : Reservations(g)
  BY DEF LeaseInv
<1> DEFINE Leased == \A v \in Workers : pc'[v] \in Leasing => loc'[v].gen \in 1 .. cache'.next
           Stores == \A v \in Workers : pc'[v] = "stored" =>
                       cache'.current.gen # 0 /\ cache'.current.attempts = 0
           Counts == \A g \in 1 .. MaxFetches : Reservations(g)'
<1>4. SUFFICES Leased /\ Stores /\ Counts
  BY DEF LeaseInv
<1> HIDE DEF Leased, Stores, Counts
<1>5. CASE /\ Get(w) \/ StoredReserve(w)
           /\ Lease(w) /\ pc[w] \notin Leasing /\ pc'[w] = "pace" /\ cache' = Reserved(cache)
  <2>1. /\ cache'.next = cache.next /\ cache'.current.gen = cache.current.gen
        /\ cache'.current.attempts = cache.current.attempts + 1
    BY <1>1, <1>5, ReservedCache
  <2>2. /\ UNCHANGED allocated /\ cache.current.gen # 0
        /\ cache.current.attempts < PerCredential
    BY <1>1, <1>3, <1>5 DEF Get, StoredReserve, Reservable, Spent, Go
  <2>3. loc'[w].gen = cache.current.gen
    BY <1>1, <1>5, <2>1 DEF Lease, Locals
  <2>4. \A v \in Workers : pc'[v] # "stored"
    BY <1>1, <1>5, NobodyStores DEF Get, StoredReserve, Mutex, Fetching
  <2>5. ASSUME NEW g \in 1 .. MaxFetches
        PROVE  Reservations(g)'
    <3>1. CASE g = cache.current.gen
      <4>1. Leases(g)' = Leases(g) \cup {w} /\ w \notin Leases(g)
        BY <1>5, <2>3, <3>1, OtherLeases DEF Leasing
      <4>2. Cardinality(Leases(g)') = Cardinality(Leases(g)) + 1
        BY <4>1, LeasesFinite, FS_AddElement
      <4>3. Used(g)' = Used(g) + 1
        BY <1>1, <2>2, <4>2, LeasesFinite DEF Used
      <4>4. /\ Used(g) <= cache.current.attempts /\ Used(g) \in Nat
            /\ ~ (g > cache'.next) /\ g = cache'.current.gen
        BY <1>1, <1>2, <1>3, <2>1, <3>1 DEF Reservations
      <4>5. Used(g)' <= cache'.current.attempts /\ cache'.current.attempts <= PerCredential
        BY <1>1, <2>1, <2>2, <4>3, <4>4
      <4> QED BY <1>1, <2>1, <4>3, <4>4, <4>5 DEF Reservations
    <3>2. CASE g # cache.current.gen
      <4>1. Leases(g)' = Leases(g)
        BY <1>5, <2>3, <3>2, OtherLeases
      <4>2. Used(g)' = Used(g)
        BY <2>2, <4>1 DEF Used
      <4> QED BY <1>3, <2>1, <3>2, <4>2 DEF Reservations
    <3> QED BY <3>1, <3>2
  <2> QED BY <1>1, <1>3, <2>1, <2>2, <2>3, <2>4, <2>5 DEF Leased, Stores, Counts
<1>6. CASE GiveUp(w) \/ Return(w)
  <2>1. /\ pc[w] \in Leasing /\ pc'[w] \notin Leasing /\ pc'[w] # "stored"
        /\ \/ UNCHANGED cache /\ allocated' = [allocated EXCEPT ![loc[w].gen] = @ + 1]
           \/ holder = Free /\ cache' = Released(cache, loc[w]) /\ UNCHANGED allocated
    BY <1>1, <1>6 DEF GiveUp, Return, Go, Leasing, InSession
  <2>2. /\ cache'.next = cache.next /\ cache'.current.gen = cache.current.gen
        /\ \/ cache' = cache
           \/ /\ cache.current.gen = loc[w].gen /\ holder = Free /\ UNCHANGED allocated
              /\ cache'.current.attempts = cache.current.attempts - 1
    BY <1>1, <2>1, ReleasedCache
  <2>3. Stores
    BY <1>1, <1>3, <2>1, <2>2, NobodyStores DEF Stores, Fetching
  <2>4. Leased
    BY <1>1, <1>3, <2>1, <2>2 DEF Leased
  <2>5. loc[w].gen \in 1 .. MaxFetches
    BY <1>1, <1>3, <2>1
  <2>6. ASSUME NEW g \in 1 .. MaxFetches
        PROVE  Reservations(g)'
    <3>1. CASE g = loc[w].gen
      <4>1. Leases(g)' = Leases(g) \ {w} /\ w \in Leases(g)
        BY <2>1, <3>1, OtherLeases
      <4>2. Cardinality(Leases(g)') = Cardinality(Leases(g)) - 1
        BY <4>1, LeasesFinite, FS_RemoveElement
      <4>3. CASE cache' = cache
        <5>1. allocated'[g] \in Nat /\ allocated'[g] <= allocated[g] + 1
          BY <1>1, <2>1, <3>1
        <5>2. Used(g)' <= Used(g) /\ Used(g)' \in Nat
          BY <1>1, <4>1, <4>2, <5>1, LeasesFinite, FS_EmptySet DEF Used
        <5> QED BY <1>1, <1>2, <1>3, <4>3, <5>2 DEF Reservations
      <4>4. CASE /\ cache.current.gen = loc[w].gen /\ UNCHANGED allocated
                 /\ cache'.current.attempts = cache.current.attempts - 1
        <5>1. Used(g)' = Used(g) - 1
          BY <1>1, <4>2, <4>4, LeasesFinite DEF Used
        <5>2. /\ Used(g) <= cache.current.attempts /\ Used(g) \in Nat /\ Used(g) <= PerCredential
              /\ cache.current.attempts <= PerCredential
              /\ ~ (g > cache'.next) /\ g = cache'.current.gen
          BY <1>1, <1>2, <1>3, <2>2, <3>1, <4>4 DEF Reservations
        <5>3. Used(g)' <= cache'.current.attempts /\ cache'.current.attempts <= PerCredential
          BY <1>1, <4>4, <5>1, <5>2
        <5> QED BY <1>1, <5>1, <5>2, <5>3 DEF Reservations
      <4> QED BY <2>2, <4>3, <4>4
    <3>2. CASE g # loc[w].gen
      <4>1. Leases(g)' = Leases(g)
        BY <2>1, <3>2, OtherLeases
      <4>2. allocated'[g] = allocated[g]
        BY <1>1, <2>1, <3>2
      <4>3. Used(g)' = Used(g)
        BY <4>1, <4>2 DEF Used
      <4> QED BY <1>3, <2>2, <3>2, <4>3 DEF Reservations
    <3> QED BY <3>1, <3>2
  <2> QED BY <2>3, <2>4, <2>6 DEF Counts
<1>7. CASE pc[w] \notin Leasing /\ pc'[w] \notin Leasing /\ UNCHANGED allocated
  <2>1. \A g \in 1 .. MaxFetches : Leases(g)' = Leases(g)
    BY <1>7, OtherLeases
  <2>2. CASE \E v \in Values : FetchOk(w, v) /\ cache' = Stored(cache, v)
    <3>1. PICK v \in Values : FetchOk(w, v) /\ cache' = Stored(cache, v)
      BY <2>2
    <3>2. /\ cache'.next = cache.next + 1 /\ cache'.current.gen = cache.next + 1
          /\ cache'.current.attempts = 0
      BY <1>1, <3>1, StoredCache
    <3>3. Leased /\ Stores
      BY <1>1, <1>3, <1>7, <3>2 DEF Leased, Stores
    <3>4. ASSUME NEW g \in 1 .. MaxFetches
          PROVE  Reservations(g)'
      <4>1. Used(g)' = Used(g)
        BY <1>7, <2>1 DEF Used
      <4> QED BY <1>1, <1>2, <1>3, <3>2, <4>1 DEF Reservations
    <3> QED BY <3>3, <3>4 DEF Counts
  <2>3. CASE /\ Keeps(cache, cache')
             /\ \A v \in Workers : pc'[v] = "stored" => pc[v] = "stored" /\ UNCHANGED cache
    <3>1. cache'.next = cache.next
      BY <2>3 DEF Keeps
    <3>2. Counts
      BY <1>3, <1>7, <2>1, <2>3, NeutralStep DEF Counts
    <3>3. Leased
      BY <1>1, <1>3, <1>7, <3>1 DEF Leased
    <3>4. Stores
      BY <1>3, <2>3 DEF Stores
    <3> QED BY <3>2, <3>3, <3>4
  <2>4. \/ \E v \in Values : FetchOk(w, v) /\ cache' = Stored(cache, v)
        \/ pc'[w] # "stored" /\ (UNCHANGED cache \/ (holder = Free /\ Keeps(cache, cache')))
    <3>1. CASE Get(w)
      BY <1>1, <1>7, <3>1, KeptCache DEF Get, Go, Leasing
    <3>2. CASE \E v \in Values : FetchOk(w, v)
      BY <1>1, <3>2 DEF FetchOk, Go
    <3>3. CASE Judge(w)
      BY <1>1, <3>3, JudgedCache DEF Judge, Go
    <3>4. CASE StoredReserve(w) \/ GiveUp(w) \/ RecordAllocation(w) \/ Return(w)
      BY <1>1, <1>7, <3>4 DEF StoredReserve, GiveUp, RecordAllocation, Return, Go, Leasing, InSession
    <3>5. CASE BackoffEnd(w) \/ FetchUnavailable(w) \/ FetchCancelled(w)
      BY <1>1, <3>5 DEF BackoffEnd, FetchUnavailable, FetchCancelled, Go
    <3>6. CASE UNCHANGED poolVars /\ ~ PoolStep(w)
      BY <1>1, <1>7, <3>6 DEF poolVars, Step, PoolStep, GatePass, GateCancelled, FetchError, Again,
         Paced, GateTwo, GuardLoad, GuardCas, StartFails, Start, PhaseOk, PhaseFails,
         ConfigAnswered, ConfigFails, Ready, Lost, SessionStopped, DropGuard, CheckOutage, After,
         Delay, Go, End
    <3> QED BY <3>1, <3>2, <3>3, <3>4, <3>5, <3>6, PoolSteps DEF PoolStep
  <2>5. Keeps(cache, cache)
    BY <1>1, KeptCache
  <2>6. CASE pc'[w] # "stored" /\ (UNCHANGED cache \/ (holder = Free /\ Keeps(cache, cache')))
    <3>1. Keeps(cache, cache')
      BY <2>5, <2>6
    <3>2. \A v \in Workers : pc'[v] = "stored" => pc[v] = "stored" /\ UNCHANGED cache
      BY <1>1, <2>6, NobodyStores DEF Fetching
    <3> QED BY <2>3, <3>1, <3>2
  <2> QED BY <2>2, <2>4, <2>6
<1>8. CASE /\ pc[w] \in Leasing /\ pc'[w] \in Leasing /\ loc'[w].gen = loc[w].gen
           /\ UNCHANGED allocated /\ (RecordAllocation(w) \/ UNCHANGED cache)
  <2>1. \A g \in 1 .. MaxFetches : Leases(g)' = Leases(g)
    BY <1>8, OtherLeases
  <2>2. Keeps(cache, cache')
    BY <1>1, <1>8, KeptCache DEF RecordAllocation
  <2>3. cache'.next = cache.next
    BY <2>2 DEF Keeps
  <2>4. Counts
    BY <1>3, <1>8, <2>1, <2>2, NeutralStep DEF Counts
  <2>5. Leased
    BY <1>1, <1>3, <1>8, <2>3 DEF Leased
  <2>6. \A v \in Workers : pc'[v] = "stored" => pc[v] = "stored" /\ UNCHANGED cache
    BY <1>1, <1>8, NobodyStores DEF RecordAllocation, Fetching, Leasing, InSession
  <2> QED BY <1>3, <2>4, <2>5, <2>6 DEF Stores
<1> QED BY <1>5, <1>6, <1>7, <1>8, LeaseSteps

-------------------------------------------------------------------------------
(* The refused credential                                                    *)

(* What was refused stays blocked until something else is stored.            *)
LEMMA QuotaStep ==
  ASSUME NEW w \in Workers, PoolTypes, LeaseInv, QuotaInv, Step(w)
  PROVE  QuotaInv'
<1>1. /\ cache \in Caches /\ cache.current \in Entries /\ cache.next \in Nat
      /\ NoValue \notin Values /\ rejected \in Secrets
      /\ cache.current.gen = 0 <=> cache.current.value = NoValue
      /\ rejected # NoValue => cache.blocked = rejected /\ cache.current.gen = 0
  BY PoolAssumption DEF PoolTypes, QuotaInv, Caches
<1>2. Empty.gen = 0 /\ Empty.value = NoValue
  BY DEF Empty
<1>3. CASE UNCHANGED <<cache, rejected>>
  BY <1>3 DEF QuotaInv
<1>4. CASE Get(w)
  <2>1. CASE Reservable(cache)
    BY <1>1, <1>4, <2>1, ReservedCache DEF Get, Reservable, QuotaInv
  <2>2. CASE ~ Reservable(cache)
    <3>1. cache' = Discarded(cache) /\ UNCHANGED rejected
      BY <1>4, <2>2 DEF Get
    <3>2. cache' = cache \/ (cache'.current = Empty /\ cache.current.gen # 0)
      BY <1>1, <3>1 DEF Discarded, Spent, Caches
    <3> QED BY <1>1, <1>2, <3>1, <3>2 DEF QuotaInv
  <2> QED BY <2>1, <2>2
<1>5. ASSUME NEW v \in Values, FetchOk(w, v)
      PROVE  QuotaInv'
  <2>1. CASE Storable(cache, v)
    BY <1>1, <1>5, <2>1, StoredCache DEF FetchOk, Storable, QuotaInv
  <2>2. CASE ~ Storable(cache, v)
    BY <1>3, <1>5, <2>2 DEF FetchOk
  <2> QED BY <2>1, <2>2
<1>6. CASE StoredReserve(w)
  BY <1>1, <1>6, ReservedCache DEF StoredReserve, LeaseInv, QuotaInv
<1>7. CASE GiveUp(w) \/ Return(w)
  <2>1. UNCHANGED rejected /\ (cache' = Released(cache, loc[w]) \/ cache' = cache)
    BY <1>7 DEF GiveUp, Return
  <2> QED BY <1>1, <2>1, ReleasedCache DEF QuotaInv
<1>8. CASE RecordAllocation(w)
  <2>1. UNCHANGED rejected /\ cache' = Recorded(cache, loc[w])
    BY <1>8 DEF RecordAllocation
  <2>2. /\ cache'.current.gen = cache.current.gen /\ cache'.current.value = cache.current.value
        /\ cache'.blocked = cache.blocked
    BY <1>1, <2>1 DEF Recorded, Caches, Entries
  <2> QED BY <1>1, <2>1, <2>2 DEF QuotaInv
<1>9. CASE Judge(w)
  <2>1. CASE UNCHANGED cache
    BY <1>3, <1>9, <2>1 DEF Judge
  <2>2. CASE cache' = Judged(w) /\ cache' # cache
    <3>1. Owns(cache, loc[w]) /\ cache.current.gen # 0
      BY <2>2 DEF Judged, Rotated, Mismatched, Invalidated, Owns
    <3>2. rejected = NoValue
      BY <1>1, <3>1
    <3>3. CASE loc[w].result = "quota"
      <4>1. cache' = [cache EXCEPT !.current = Empty, !.blocked = cache.current.value]
        BY <2>2, <3>1, <3>3 DEF Judged, Rotated
      <4>2. cache'.current = Empty /\ cache'.blocked = cache.current.value
        BY <1>1, <4>1 DEF Caches
      <4>3. rejected' = cache.current.value
        BY <1>9, <2>2, <3>3, KeptCache DEF Judge, Judges
      <4> QED BY <1>2, <4>2, <4>3 DEF QuotaInv
    <3>4. CASE loc[w].result # "quota"
      <4>1. rejected' = rejected
        BY <1>9, <3>4 DEF Judge
      <4>2. Keeps(cache, cache')
        BY <2>2, JudgedCache
      <4> QED BY <1>1, <1>2, <3>2, <4>1, <4>2 DEF Keeps, QuotaInv
    <3> QED BY <3>3, <3>4
  <2> QED BY <1>9, <2>1, <2>2 DEF Judge
<1>10. CASE BackoffEnd(w) \/ FetchUnavailable(w) \/ FetchCancelled(w)
  BY <1>3, <1>10 DEF BackoffEnd, FetchUnavailable, FetchCancelled
<1>11. CASE UNCHANGED poolVars
  BY <1>3, <1>11 DEF poolVars
<1> QED BY <1>4, <1>5, <1>6, <1>7, <1>8, <1>9, <1>10, <1>11, PoolSteps DEF PoolStep

-------------------------------------------------------------------------------
(* The configuration                                                         *)

\* The worker that will clear config_in_flight.
Clearing(w) == loc[w].guard /\ pc[w] \in InSession \cup {"start", "ended", "settle"}

(* How a step of worker w changes config_in_flight and its own guard.        *)
LEMMA FlightSteps ==
  ASSUME NEW w \in Workers, PoolTypes, PoolFlags, Step(w)
  PROVE  \/ ~ inFlight'
         \/ inFlight' /\ GuardCas(w)
         \/ UNCHANGED inFlight /\ (Clearing(w) => Clearing(w)')
<1>1. pc \in [Workers -> Phases] /\ loc \in [Workers -> Locals] /\ loc[w] \in Locals
  BY DEF PoolTypes
<1>2. inFlight \in BOOLEAN
  BY DEF PoolFlags
<1>3. CASE GuardCas(w)
  BY <1>3 DEF GuardCas
<1>4. CASE \/ GatePass(w) \/ GateCancelled(w) \/ Get(w) \/ (\E v \in Values : FetchOk(w, v))
           \/ StoredReserve(w) \/ FetchError(w) \/ BackoffEnd(w) \/ FetchUnavailable(w)
           \/ FetchCancelled(w) \/ Again(w) \/ GiveUp(w) \/ Paced(w) \/ GateTwo(w) \/ GuardLoad(w)
           \/ CheckOutage(w) \/ After(w) \/ Judge(w) \/ Delay(w)
  <2>1. UNCHANGED inFlight /\ pc[w] \notin InSession \cup {"start", "ended", "settle"}
    BY <1>1, <1>4 DEF GatePass, GateCancelled, Get, FetchOk, StoredReserve, FetchError, BackoffEnd,
       FetchUnavailable, FetchCancelled, Again, GiveUp, Paced, GateTwo, GuardLoad, CheckOutage,
       After, Judge, Delay, configVars, Fetching, InSession
  <2> QED BY <2>1 DEF Clearing
<1>5. CASE DropGuard(w) \/ ConfigFails(w) \/ \E d \in BOOLEAN : ConfigAnswered(w, d)
  <2>1. inFlight' = IF loc[w].guard THEN FALSE ELSE inFlight
    BY <1>5 DEF DropGuard, ConfigFails, ConfigAnswered
  <2> QED BY <1>2, <2>1 DEF Clearing
<1>6. CASE \/ StartFails(w) \/ Start(w) \/ RecordAllocation(w) \/ PhaseOk(w) \/ PhaseFails(w)
           \/ Ready(w) \/ Lost(w) \/ SessionStopped(w) \/ Return(w)
  <2>1. UNCHANGED inFlight /\ pc'[w] \in InSession \cup {"start", "ended", "settle"}
    BY <1>1, <1>6 DEF StartFails, Start, RecordAllocation, PhaseOk, PhaseFails, Ready, Lost,
       SessionStopped, Return, End, Go, configVars, InSession
  <2>2. loc'[w].guard = loc[w].guard
    BY <1>1, <1>6 DEF StartFails, Start, RecordAllocation, PhaseOk, PhaseFails, Ready, Lost,
       SessionStopped, Return, End, Locals
  <2> QED BY <2>1, <2>2 DEF Clearing
<1> QED BY <1>3, <1>4, <1>5, <1>6 DEF Step

(* config_in_flight always has somebody who clears it.                       *)
LEMMA FlightStep ==
  ASSUME NEW w \in Workers, PoolTypes, PoolTypes', PoolFlags, FlightNotLeaked, Step(w)
  PROVE  FlightNotLeaked'
<1>1. /\ pc \in [Workers -> Phases] /\ loc \in [Workers -> Locals] /\ loc[w] \in Locals
      /\ \A v \in Workers \ {w} : pc'[v] = pc[v] /\ loc'[v] = loc[v]
  BY PhaseStep, LocalsStep DEF PoolTypes
<1>2. SUFFICES ASSUME inFlight' PROVE \E v \in Workers : Clearing(v)'
  BY DEF FlightNotLeaked, Clearing
<1>3. inFlight \in BOOLEAN /\ (inFlight => \E v \in Workers : Clearing(v))
  BY DEF FlightNotLeaked, Clearing, PoolFlags
<1>4. CASE GuardCas(w)
  <2>1. CASE inFlight
    <3>1. PICK v \in Workers : Clearing(v)
      BY <1>3, <2>1
    <3>2. v # w
      BY <1>4, <3>1 DEF GuardCas, Clearing, InSession
    <3> QED BY <1>1, <3>1, <3>2 DEF Clearing
  <2>2. CASE ~ inFlight
    <3>1. loc'[w].guard /\ pc'[w] = "start"
      BY <1>1, <1>4, <2>2 DEF GuardCas, Go, Locals
    <3> QED BY <3>1 DEF Clearing
  <2> QED BY <2>1, <2>2
<1>5. CASE UNCHANGED inFlight /\ (Clearing(w) => Clearing(w)')
  <2>1. PICK v \in Workers : Clearing(v)
    BY <1>2, <1>3, <1>5
  <2>2. CASE v # w
    BY <1>1, <2>1, <2>2 DEF Clearing
  <2>3. CASE v = w
    BY <1>5, <2>1, <2>3
  <2> QED BY <2>2, <2>3
<1> QED BY <1>2, <1>4, <1>5, FlightSteps

(* How a step of worker w moves the outage, the configuration and its own    *)
(* part in noticing the outage.                                              *)
LEMMA OutageSteps ==
  ASSUME NEW w \in Workers, PoolTypes, PoolFlags, OutageInv, Step(w), ~ Stopped', outage', sent'
  PROVE  \/ Answerable(w)'
         \/ outage /\ sent /\ ~ Answerable(w)
         \/ outage /\ sent /\ CheckOutage(w)
<1>1. /\ pc \in [Workers -> Phases] /\ loc \in [Workers -> Locals] /\ loc[w] \in Locals
      /\ {sent, inFlight, outage, paused, cancelled, unavailable} \subseteq BOOLEAN
  BY DEF PoolTypes, PoolFlags
<1>2. CASE Lost(w)
  <2>1. pc'[w] = "ended" /\ loc[w].ready
    BY <1>1, <1>2 DEF Lost, End, Go, OutageInv
  <2>2. loc'[w].ready = loc[w].ready /\ loc'[w].result # "ok"
    BY <1>1, <1>2 DEF Lost, End, Locals
  <2> QED BY <2>1, <2>2 DEF Answerable
<1>3. CASE Ready(w) \/ \E d \in BOOLEAN : ConfigAnswered(w, d)
  BY <1>1, <1>3 DEF Ready, ConfigAnswered, Go, Answerable
<1>4. CASE SessionStopped(w)
  BY <1>4 DEF SessionStopped, Stopped, flagVars
<1>5. CASE GuardCas(w)
  BY <1>1, <1>5 DEF GuardCas, Answerable, InSession
<1>6. CASE CheckOutage(w)
  BY <1>1, <1>6 DEF CheckOutage
<1>7. CASE \/ GatePass(w) \/ GateCancelled(w) \/ Get(w) \/ (\E v \in Values : FetchOk(w, v))
           \/ StoredReserve(w) \/ FetchError(w) \/ BackoffEnd(w) \/ FetchUnavailable(w)
           \/ FetchCancelled(w) \/ Again(w) \/ GiveUp(w) \/ Paced(w) \/ GateTwo(w) \/ GuardLoad(w)
           \/ StartFails(w) \/ Start(w) \/ PhaseOk(w) \/ PhaseFails(w) \/ ConfigFails(w)
           \/ After(w) \/ Judge(w) \/ Delay(w)
  <2>1. UNCHANGED <<outage, sent>> /\ pc[w] \notin {"ready", "up", "ended", "settle", "outage"}
    BY <1>1, <1>7 DEF GatePass, GateCancelled, Get, FetchOk, StoredReserve, FetchError, BackoffEnd,
       FetchUnavailable, FetchCancelled, Again, GiveUp, Paced, GateTwo, GuardLoad, StartFails,
       Start, PhaseOk, PhaseFails, ConfigFails, After, Judge, Delay, configVars, Fetching
  <2> QED BY <2>1 DEF Answerable
<1>8. CASE RecordAllocation(w) \/ Return(w) \/ DropGuard(w)
  <2>1. /\ UNCHANGED <<outage, sent>> /\ loc'[w].ready = loc[w].ready
        /\ loc'[w].result = loc[w].result
    BY <1>1, <1>8 DEF RecordAllocation, Return, DropGuard, configVars, Locals
  <2>2. \/ pc'[w] = pc[w]
        \/ pc[w] = "ended" /\ pc'[w] = "settle"
        \/ pc[w] = "settle" /\ pc'[w] = "outage"
    BY <1>1, <1>8 DEF RecordAllocation, Return, DropGuard, Go
  <2> QED BY <2>1, <2>2 DEF Answerable
<1> QED BY <1>2, <1>3, <1>4, <1>5, <1>6, <1>7, <1>8 DEF Step

(* The outage is noticed by the last worker that was connected.              *)
LEMMA OutageStep ==
  ASSUME NEW w \in Workers, PoolTypes, PoolTypes', PoolFlags, Counted, OutageInv, Step(w)
  PROVE  OutageInv'
<1>1. /\ pc \in [Workers -> Phases] /\ loc \in [Workers -> Locals] /\ loc[w] \in Locals
      /\ \A v \in Workers \ {w} : pc'[v] = pc[v] /\ loc'[v] = loc[v]
      /\ \A v \in Workers : pc[v] = "up" => loc[v].ready
  BY PhaseStep, LocalsStep DEF PoolTypes, OutageInv
<1>2. pc'[w] = "up" => loc'[w].ready
  <2>1. CASE Ready(w)
    BY <1>1, <2>1 DEF Ready, Locals
  <2>2. CASE RecordAllocation(w)
    BY <1>1, <2>2 DEF RecordAllocation, Locals
  <2>3. CASE ~ Ready(w) /\ ~ RecordAllocation(w)
    BY <1>1, <2>3 DEF Step, GatePass, GateCancelled, Get, FetchOk, StoredReserve, FetchError,
       BackoffEnd, FetchUnavailable, FetchCancelled, Again, GiveUp, Paced, GateTwo, GuardLoad,
       GuardCas, StartFails, Start, PhaseOk, PhaseFails, ConfigAnswered, ConfigFails, Lost,
       SessionStopped, Return, DropGuard, CheckOutage, After, Judge, Delay, Go, End
  <2> QED BY <2>1, <2>2, <2>3
<1>3. ASSUME outage', sent', ~ Stopped'
      PROVE  \E v \in Workers : Answerable(v)'
  <2>1. ~ Stopped
    BY <1>3 DEF Stopped, Step, GatePass, GateCancelled, Get, FetchOk, StoredReserve, FetchError,
       BackoffEnd, FetchUnavailable, FetchCancelled, Again, GiveUp, Paced, GateTwo, GuardLoad,
       GuardCas, StartFails, Start, RecordAllocation, PhaseOk, PhaseFails, ConfigAnswered,
       ConfigFails, Ready, Lost, SessionStopped, Return, DropGuard, CheckOutage, After, Judge,
       Delay, flagVars
  <2>2. CASE outage /\ sent
    <3>1. PICK v \in Workers : Answerable(v)
      BY <2>1, <2>2 DEF OutageInv
    <3>2. CASE v # w
      BY <1>1, <3>1, <3>2 DEF Answerable
    <3>3. CASE v = w /\ CheckOutage(w)
      <4>1. loc[w].ready /\ loc[w].result # "ok" /\ ~ cancelled
        BY <2>1, <3>1, <3>3 DEF CheckOutage, Answerable, Stopped
      <4>2. active # 0
        BY <1>3, <3>3, <4>1 DEF CheckOutage, Refresh
      <4>3. PICK u \in Workers : pc[u] = "up"
        BY <4>2, FS_EmptySet DEF Counted, Ups
      <4>4. u # w
        BY <3>3, <4>3 DEF CheckOutage
      <4> QED BY <1>1, <4>3, <4>4 DEF Answerable
    <3>4. CASE v = w /\ ~ CheckOutage(w)
      BY <1>3, <3>1, <3>4, OutageSteps
    <3> QED BY <3>2, <3>3, <3>4
  <2>3. CASE ~ (outage /\ sent)
    BY <1>3, <2>3, OutageSteps
  <2> QED BY <2>2, <2>3
<1> QED BY <1>1, <1>2, <1>3 DEF OutageInv

-------------------------------------------------------------------------------
(* The theorems                                                              *)

(* PAUSE, RESUME and the cancellation touch nothing that is counted.         *)
LEMMA ClientStep ==
  ASSUME PoolInv, SetPaused \/ Cancel \/ UNCHANGED vars
  PROVE  PoolInv'
<1>1. UNCHANGED <<poolVars, configVars, pc, loc>>
  BY DEF SetPaused, Cancel, vars
<1>2. PoolTypes' /\ Mutex'
  BY <1>1 DEF PoolInv, PoolTypes, Mutex, poolVars
<1>3. PoolFlags'
  BY <1>1 DEF PoolInv, PoolFlags, SetPaused, Cancel, vars, configVars, flagVars
<1>4. Counted'
  <2>1. Ups' = Ups
    BY <1>1 DEF Ups
  <2> QED BY <1>1, <2>1 DEF PoolInv, Counted, configVars
<1>5. LeaseInv'
  <2>1. \A g : Leases(g)' = Leases(g)
    BY <1>1 DEF Leases
  <2>2. \A g : Reservations(g) => Reservations(g)'
    BY <1>1, <2>1 DEF Reservations, Used, poolVars
  <2> QED BY <1>1, <2>2 DEF PoolInv, LeaseInv, poolVars
<1>6. QuotaInv' /\ FlightNotLeaked'
  BY <1>1 DEF PoolInv, QuotaInv, FlightNotLeaked, poolVars, configVars
<1>7. OutageInv'
  <2>1. Stopped => Stopped'
    BY DEF SetPaused, Cancel, vars, flagVars, Stopped
  <2>2. \A w \in Workers : Answerable(w)' = Answerable(w)
    BY <1>1 DEF Answerable
  <2> QED BY <1>1, <2>1, <2>2 DEF PoolInv, OutageInv, configVars
<1> QED BY <1>2, <1>3, <1>4, <1>5, <1>6, <1>7 DEF PoolInv

(* The client starts with the invariant.                                     *)
LEMMA PoolInit == Init => PoolInv
<1> SUFFICES ASSUME Init PROVE PoolInv
  OBVIOUS
<1>1. PoolTypes
  <2>1. cache \in Caches /\ cache.current.gen = 0 /\ cache.next = 0
    BY DEF Init, Empty, Caches, Entries, Secrets
  <2>2. Fresh \in Locals
    BY DEF Fresh, Locals, Secrets, Results
  <2> QED BY <2>1, <2>2, PoolAssumption DEF Init, PoolTypes, Phases, Secrets, Free
<1>2. PoolFlags /\ Mutex
  BY PoolAssumption DEF Init, PoolFlags, Mutex, Fetching, Free
<1>3. Ups = {}
  BY DEF Init, Ups
<1>4. Counted
  BY <1>3, FS_EmptySet DEF Counted, Init
<1>5. LeaseInv
  <2>1. \A g : Leases(g) = {}
    BY DEF Init, Leases, Leasing, InSession
  <2>2. Cardinality({}) = 0
    BY FS_EmptySet
  <2>3. \A g \in 1 .. MaxFetches : Used(g) = 0
    BY <2>1, <2>2 DEF Used, Init
  <2> QED BY <2>3, PoolAssumption DEF Init, LeaseInv, Reservations, Leasing, InSession, Empty
<1>6. QuotaInv /\ FlightNotLeaked /\ OutageInv
  BY DEF Init, QuotaInv, FlightNotLeaked, OutageInv, Empty
<1> QED BY <1>1, <1>2, <1>4, <1>5, <1>6 DEF PoolInv

(* Every step keeps the invariant.                                           *)
LEMMA PoolNext == PoolInv /\ [Next]_vars => PoolInv'
<1> SUFFICES ASSUME PoolInv, [Next]_vars PROVE PoolInv'
  OBVIOUS
<1>1. ASSUME NEW w \in Workers, Step(w)
      PROVE  PoolInv'
  <2>1. PoolTypes'
    BY <1>1, PoolTypesStep DEF PoolInv
  <2> QED BY <1>1, <2>1, FlagsStep, MutexStep, CountedStep, LeaseStep, QuotaStep, FlightStep,
      OutageStep DEF PoolInv
<1> QED BY <1>1, ClientStep DEF Next

(* The invariant holds for ever.                                             *)
LEMMA PoolInvariant == Spec => []PoolInv
BY PoolInit, PoolNext, PTL DEF Spec

(* No generation of a credential is used for more Allocate attempts than     *)
(* WORKERS_PER_CREDENTIAL, whatever number of workers share it.              *)
THEOREM NoCredentialOverused == Spec => []AllocationsBounded
<1>1. PoolInv => AllocationsBounded
  <2> SUFFICES ASSUME PoolInv PROVE AllocationsBounded
    OBVIOUS
  <2>1. TypeOK
    BY UpsFinite DEF PoolInv, PoolTypes, Mutex, Counted, TypeOK, Caches, Entries, Secrets
  <2>2. ASSUME NEW g \in 1 .. MaxFetches
        PROVE  allocated[g] <= PerCredential
    <3>1. allocated[g] \in Nat /\ Cardinality(Leases(g)) \in Nat /\ PerCredential \in Nat
      BY LeasesFinite, PoolAssumption DEF PoolInv, PoolTypes
    <3>2. allocated[g] + Cardinality(Leases(g)) <= PerCredential
      BY DEF PoolInv, LeaseInv, Reservations, Used
    <3> QED BY <3>1, <3>2
  <2>3. DOMAIN allocated = 1 .. MaxFetches
    BY DEF PoolInv, PoolTypes
  <2> QED BY <2>1, <2>2, <2>3 DEF AllocationsBounded
<1> QED BY <1>1, PoolInvariant, PTL

(* A credential refused for quota is never the current one again before the  *)
(* service has handed out a different one.                                   *)
THEOREM RefusedStaysOut == Spec => []RejectedNotLeased
<1>1. PoolInv => RejectedNotLeased
  BY DEF PoolInv, QuotaInv, RejectedNotLeased
<1> QED BY <1>1, PoolInvariant, PTL

(* config_in_flight never stays set without a worker that will clear it.     *)
THEOREM FlightAlwaysOwned == Spec => []FlightNotLeaked
<1>1. PoolInv => FlightNotLeaked
  BY DEF PoolInv
<1> QED BY <1>1, PoolInvariant, PTL

(* After a full outage that the workers have dealt with, the configuration   *)
(* is asked for again.                                                       *)
THEOREM OutageAlwaysNoticed == Spec => []OutageRefreshes
<1>1. PoolInv => OutageRefreshes
  BY DEF PoolInv, PoolFlags, OutageInv, OutageRefreshes, Answerable, Quiet, InSession
<1> QED BY <1>1, PoolInvariant, PTL

(* A verdict on an old lease leaves the current credential alone.            *)
THEOREM OldLeaseIsHarmless == Spec => StaleLeaseHarmless
<1> DEFINE Harmless == \A w \in Workers :
             pc[w] = "judge" /\ pc'[w] = "delay" /\ loc[w].gen # cache.current.gen
               => cache'.current = cache.current
<1>1. PoolInv /\ [Next]_vars => [Harmless]_vars
  <2> SUFFICES ASSUME PoolInv, Next,
                      NEW w \in Workers, pc[w] = "judge", pc'[w] = "delay",
                      loc[w].gen # cache.current.gen
               PROVE  cache'.current = cache.current
    OBVIOUS
  <2>1. ASSUME NEW v \in Workers, Step(v)
        PROVE  Judge(v) /\ v = w
    <3>1. v = w
      BY <2>1, PhaseStep DEF PoolInv, PoolTypes
    <3>2. pc \in [Workers -> Phases]
      BY DEF PoolInv, PoolTypes
    <3> QED BY <2>1, <3>1, <3>2 DEF Step, GatePass, GateCancelled, Get, FetchOk, StoredReserve,
       FetchError, BackoffEnd, FetchUnavailable, FetchCancelled, Again, GiveUp, Paced, GateTwo,
       GuardLoad, GuardCas, StartFails, Start, RecordAllocation, PhaseOk, PhaseFails,
       ConfigAnswered, ConfigFails, Ready, Lost, SessionStopped, Return, DropGuard, CheckOutage,
       After, Delay, Go, End, Fetching, InSession
  <2>2. ~ Owns(cache, loc[w])
    BY DEF Owns
  <2>3. Judged(w) = cache
    BY <2>2 DEF Judged, Rotated, Mismatched, Invalidated
  <2>4. CASE \E v \in Workers : Step(v)
    BY <2>1, <2>3, <2>4 DEF Judge
  <2>5. CASE SetPaused \/ Cancel
    BY <2>5 DEF SetPaused, Cancel
  <2> QED BY <2>4, <2>5 DEF Next
<1> QED BY <1>1, PoolInvariant, PTL DEF Spec, StaleLeaseHarmless

==============================================================================
