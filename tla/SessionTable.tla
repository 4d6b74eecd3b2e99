----------------------------- MODULE SessionTable -----------------------------
(***************************************************************************)
(* The hot engine of the server (rust-server/protocol.rs), its route table *)
(* (tun_device.rs) and the router that feeds its shards (dataplane.rs).    *)
(* Every shard is a thread with its own tables: sessions in the slots of a *)
(* slab, by_peer, by_id, routes.  The router sends the datagrams of an     *)
(* endpoint to the shard it is bound to; a session of a device that lives  *)
(* on another shard is migrated there through the router.  All queues are  *)
(* bounded and written with try_send.  The control plane is the            *)
(* environment: it answers a GETCONF with SetAuthoritativeEpoch and        *)
(* ActivateTunnel for every shard and may drop sessions at any time.       *)
(***************************************************************************)
EXTENDS Integers, Sequences, FiniteSets, Functions

CONSTANTS Shards,       \* 0..shard_count-1
          Devices,      \* device_id; each has one tunnel address
          Home,         \* shard_for_device
          Getconfs,     \* the GETCONFs clients send; gen: (generation_id, session_salt)
          Keys,         \* EndpointKey: remote address and local address
          Slots,        \* keys of the slab
          InputCap,     \* SHARD_INPUT_CAPACITY
          OutputCap,    \* SHARD_OUTPUT_CAPACITY
          Prompt,       \* what was queued for an endpoint is handled before its mark expires
          MaxSessions,  \* bound: sessions created
          MaxRegs       \* bound: route registrations

ASSUME SessionAssumption ==
  /\ 0 \in Shards /\ Home \in [Devices -> Shards]
  /\ {InputCap, OutputCap, MaxSessions} \subseteq Nat \ {0} /\ MaxRegs \in Nat
  /\ \A m \in Getconfs : m.kind = "getconf" /\ m.key \in Keys /\ m.dev \in Devices
  /\ Prompt \in BOOLEAN /\ IsFiniteSet(Slots) /\ Cardinality(Slots) >= MaxSessions

VARIABLES
  eng,      \* per shard: sessions, by_peer, by_id, routes, migrating_endpoints
  input,    \* per shard: the channel of WorkerInput
  output,   \* per shard: the WorkerOutput messages for the router
  pending,  \* pending_router: migrations whose target was full
  bound,    \* endpoint_shards, 0 when unbound
  tunnels,  \* tunnel_shards, by device, 0 when unbound
  jobs,     \* control plane: GETCONF requests, locked between their two commands
  ids, regs,  \* SESSION_ID_COUNTER, ROUTE_REGISTRATION_COUNTER
  lost      \* history: a try_send to the router or to a shard has failed

router == <<pending, bound, tunnels>>
vars == <<eng, input, output, router, jobs, ids, regs, lost>>

Empty == [k \in {} |-> 0]
NoEngine == [tab |-> Empty, peer |-> Empty, id |-> Empty, routes |-> {}, marks |-> {}]

Init ==
  /\ eng = [s \in Shards |-> NoEngine]
  /\ input = [s \in Shards |-> <<>>] /\ output = input
  /\ pending = {} /\ bound = [k \in Keys |-> 0] /\ tunnels = [d \in Devices |-> 0]
  /\ jobs = {} /\ ids = 0 /\ regs = 0 /\ lost = FALSE

Put(f, k, v) == [x \in DOMAIN f \cup {k} |-> IF x = k THEN v ELSE f[x]]

------------------------------------------------------------------------------
(* RouteTable                                                               *)

RouteOf(x, slot) == [ip |-> x.dev, id |-> x.id, reg |-> x.reg, worker |-> x.worker, slot |-> slot]

\* One endpoint per worker in the group of an address.
Register(e, x, slot) ==
  [e EXCEPT !.routes = {r \in @ : r.ip = x.dev => r.reg # x.reg /\ r.worker # x.worker}
                       \cup {RouteOf(x, slot)}]

Registration(r, x) == x.reg # 0 /\ r.ip = x.dev /\ r.reg = x.reg
Unregister(e, x) == [e EXCEPT !.routes = {r \in @ : ~Registration(r, x)}]

\* Mutant: the slots in the route table are not moved.
SlotsKept(e, to) == e.routes

\* update_slot for every session that moves: to gives their new slots.
UpdateSlots(e, to) ==
  LET of(r) == {slot \in DOMAIN to : Registration(r, e.tab[slot]) /\ r.id = e.tab[slot].id}
  IN  {IF of(r) = {} THEN r ELSE [r EXCEPT !.slot = to[CHOOSE slot \in of(r) : TRUE]] : r \in e.routes}

------------------------------------------------------------------------------
(* The tables of one shard.  reg = 0: no registration, no tunnel address.   *)

Insert(e, x, slot) ==
  [e EXCEPT !.tab = Put(@, slot, x), !.peer = Put(@, x.key, slot), !.id = Put(@, x.id, slot)]

SameIdentity(x, y) == x.dev = y.dev /\ x.gen = y.gen
SameStream(x, y) == SameIdentity(x, y) /\ x.worker = y.worker

\* Mutant: the route of a removed session is not handed on.
RemoveNoHeir(e, slots) ==
  LET gone == {e.tab[slot] : slot \in slots \cap DOMAIN e.tab}
  IN  [e EXCEPT !.tab = Restrict(@, DOMAIN @ \ slots),
                !.peer = Restrict(@, DOMAIN @ \ {x.key : x \in gone}),
                !.id = Restrict(@, DOMAIN @ \ {x.id : x \in gone}),
                !.routes = {r \in @ : \A x \in gone : ~Registration(r, x)}]

\* remove_slot_with_reason for every slot of a set.  When a session held the
\* route of its stream, the youngest registered session of the same stream
\* takes it over.  The code removes one after the other; the last heir is the
\* youngest of those that stay, in whichever order.
Remove(e, slots) ==
  LET gone == {e.tab[slot] : slot \in slots \cap DOMAIN e.tab}
      heirs(x) == {t \in DOMAIN e.tab \ slots : e.tab[t].reg # 0 /\ SameStream(e.tab[t], x)}
      heir(x) == CHOOSE t \in heirs(x) : \A u \in heirs(x) : e.tab[u].id <= e.tab[t].id
      held == {x \in gone : heirs(x) # {} /\ \E r \in e.routes : Registration(r, x)}
  IN  [e EXCEPT !.tab = Restrict(@, DOMAIN @ \ slots),
                !.peer = Restrict(@, DOMAIN @ \ {x.key : x \in gone}),
                !.id = Restrict(@, DOMAIN @ \ {x.id : x \in gone}),
                !.routes = {r \in @ : \A x \in gone : ~Registration(r, x)}
                           \cup {RouteOf(e.tab[heir(x)], heir(x)) : x \in held}]

------------------------------------------------------------------------------
(* Channels: try_send                                                       *)

Room(q, cap) == Len(q) < cap
TrySend(q, m, cap) == IF Room(q, cap) THEN Append(q, m) ELSE q
Emit(s, m) ==
  /\ output' = [output EXCEPT ![s] = TrySend(@, m, OutputCap)]
  /\ lost' = (lost \/ ~Room(output[s], OutputCap))
Publish(x) == jobs' = jobs \cup {[id |-> x.id, dev |-> x.dev, gen |-> x.gen, locked |-> FALSE]}
Bind(k, s) == [kind |-> "bind", key |-> k, shard |-> s]
Consume(s) == input' = [input EXCEPT ![s] = Tail(@)]
Heads(s, kind) == input[s] # <<>> /\ Head(input[s]).kind = kind

------------------------------------------------------------------------------
(* on_udp                                                                   *)

\* create_legacy_session, then place_new_session: at home the session is bound
\* and published; otherwise it leaves for its home, or stays after all when
\* the router's queue is full.
CreateAndPlace(s, e, m) ==
  LET key == m.key
      old == IF key \in DOMAIN e.peer THEN Remove(e, {e.peer[key]}) ELSE e
      x == [id |-> ids + 1, key |-> key, dev |-> m.dev, gen |-> m.gen, worker |-> m.worker, reg |-> 0]
      away == Home[m.dev] # s /\ Room(output[s], OutputCap)
  IN  /\ ids < MaxSessions /\ ids' = ids + 1
      /\ IF away
         THEN /\ eng' = [eng EXCEPT ![s] = [old EXCEPT !.marks = @ \cup {key}]]
              /\ Emit(s, [kind |-> "migrate", key |-> key, shard |-> Home[m.dev], x |-> x])
              /\ UNCHANGED jobs
         ELSE /\ \E slot \in Slots \ DOMAIN old.tab :
                   eng' = [eng EXCEPT ![s] = IF Home[m.dev] = s THEN Insert(old, x, slot)
                                             ELSE [Insert(old, x, slot) EXCEPT !.marks = @ \ {key}]]
              /\ Emit(s, Bind(key, s))
              /\ Publish(x)

\* Mutant: an endpoint that is on its way to another shard may begin again here.
OnUdpUnmarked(s) ==
  /\ Heads(s, "getconf") /\ Consume(s)
  /\ LET m == Head(input[s])
     IN  m.key \notin DOMAIN eng[s].peer /\ CreateAndPlace(s, eng[s], m)
  /\ UNCHANGED <<router, regs>>

\* handle_unknown_legacy: an authenticated GETCONF makes a session, but none
\* while the endpoint is on its way to another shard.
OnUdpUnknown(s) ==
  /\ Heads(s, "getconf") /\ Consume(s)
  /\ LET m == Head(input[s])
     IN  /\ m.key \notin DOMAIN eng[s].peer \cup eng[s].marks
         /\ CreateAndPlace(s, eng[s], m)
  /\ UNCHANGED <<router, regs>>

\* A GETCONF that changes nothing: its endpoint is on its way to another shard,
\* the setup budget of the tick is spent, the table is full, the credential is
\* unknown, or the replay filter has seen it.
OnUdpIgnored(s) ==
  /\ Heads(s, "getconf") /\ Consume(s)
  /\ UNCHANGED <<eng, output, router, jobs, ids, regs, lost>>

\* handle_existing, GETCONF of another device or generation: a new session in
\* the place of the old one.
OnUdpReplace(s) ==
  /\ Heads(s, "getconf") /\ Consume(s)
  /\ LET m == Head(input[s])
     IN  /\ m.key \in DOMAIN eng[s].peer
         /\ ~SameIdentity(eng[s].tab[eng[s].peer[m.key]], m)
         /\ CreateAndPlace(s, Remove(eng[s], {eng[s].peer[m.key]}), m)
  /\ UNCHANGED <<router, regs>>

\* handle_existing, a repeated GETCONF asks the control plane again.  No other
\* packet changes the tables: IP_PKTINFO gives every datagram its local
\* address, so a session never has to be filed under a new key.
OnUdpExisting(s) ==
  /\ Heads(s, "getconf") /\ Consume(s)
  /\ LET m == Head(input[s])
     IN  /\ m.key \in DOMAIN eng[s].peer
         /\ LET x == eng[s].tab[eng[s].peer[m.key]] IN SameIdentity(x, m) /\ Publish(x)
  /\ UNCHANGED <<eng, output, router, ids, regs, lost>>

------------------------------------------------------------------------------
(* on_command                                                               *)

OnAdopt(s) ==
  /\ Heads(s, "adopt") /\ Consume(s)
  /\ LET x == Head(input[s]).x
     IN  /\ \E slot \in Slots \ DOMAIN eng[s].tab : eng' = [eng EXCEPT ![s] = Insert(@, x, slot)]
         /\ Emit(s, Bind(x.key, s)) /\ Publish(x)
  /\ UNCHANGED <<router, ids, regs>>

\* activate_tunnel: the old registration goes before the new one comes.
Activated(e, slot, reg) ==
  LET x == [e.tab[slot] EXCEPT !.reg = reg]
  IN  [Register(Unregister(e, e.tab[slot]), x, slot) EXCEPT !.tab[slot] = x]

\* SetAuthoritativeEpoch retires the other generations of the device.
Retire(e, m) ==
  Remove(e, {slot \in DOMAIN e.tab : e.tab[slot].dev = m.dev /\ e.tab[slot].gen # m.gen})

OnEpoch(s) ==
  /\ Heads(s, "epoch") /\ Consume(s)
  /\ eng' = [eng EXCEPT ![s] = Retire(@, Head(input[s]))]
  /\ UNCHANGED <<output, router, jobs, ids, regs, lost>>

\* ActivateTunnel reaches every shard; one of them has the session, or none.
OnActivate(s) ==
  /\ Heads(s, "activate") /\ Consume(s)
  /\ LET m == Head(input[s])
     IN  IF m.id \in DOMAIN eng[s].id
         THEN /\ eng' = [eng EXCEPT ![s] = Activated(@, @.id[m.id], m.reg)]
              /\ Emit(s, [kind |-> "tunnel", ip |-> m.dev, shard |-> s])
         ELSE UNCHANGED <<eng, output, lost>>
  /\ UNCHANGED <<router, jobs, ids, regs>>

\* DisconnectDevice, DropPassword, ReplaceCredentials: the sessions of a device
\* (a credential is bound to one), on this shard.
OnDisconnect(s, d) ==
  /\ LET slots == {slot \in DOMAIN eng[s].tab : eng[s].tab[slot].dev = d}
     IN  slots # {} /\ eng' = [eng EXCEPT ![s] = Remove(@, slots)]
  /\ UNCHANGED <<input, output, router, jobs, ids, regs, lost>>

\* DropSession, and the idle sweep of on_tick, which ends one or more sessions.
DropSession(s, slot) ==
  /\ slot \in DOMAIN eng[s].tab
  /\ eng' = [eng EXCEPT ![s] = Remove(@, {slot})]
  /\ UNCHANGED <<input, output, router, jobs, ids, regs, lost>>

\* compact_memory: the slab moves sessions to vacant slots and tells for each.
Compacted(e, to) ==
  LET moved == DOMAIN to
      from(t) == CHOOSE slot \in moved : to[slot] = t
      byKey(k) == {slot \in moved : e.tab[slot].key = k}
      byId(i) == {slot \in moved : e.tab[slot].id = i}
  IN  [e EXCEPT
         !.tab = [t \in (DOMAIN @ \ moved) \cup Range(to) |->
                    IF t \in DOMAIN @ THEN @[t] ELSE @[from(t)]],
         !.peer = [k \in DOMAIN @ \cup {e.tab[slot].key : slot \in moved} |->
                     IF byKey(k) = {} THEN @[k] ELSE to[CHOOSE slot \in byKey(k) : TRUE]],
         !.id = [i \in DOMAIN @ \cup {e.tab[slot].id : slot \in moved} |->
                   IF byId(i) = {} THEN @[i] ELSE to[CHOOSE slot \in byId(i) : TRUE]],
         !.routes = UpdateSlots(e, to)]

Compact(s) ==
  /\ \E moved \in SUBSET DOMAIN eng[s].tab \ {{}} :
       \E to \in Injection(moved, Slots \ DOMAIN eng[s].tab) :
         eng' = [eng EXCEPT ![s] = Compacted(@, to)]
  /\ UNCHANGED <<input, output, router, jobs, ids, regs, lost>>

\* on_tick forgets migrating endpoints after MIGRATING_ENDPOINT_TTL_MS.
InTransit(k) ==
  \/ \E s \in Shards : \E i \in DOMAIN output[s] : output[s][i].kind = "migrate" /\ output[s][i].key = k
  \/ \E m \in pending : m.key = k
  \/ \E s \in Shards : \E i \in DOMAIN input[s] : input[s][i].kind = "adopt" /\ input[s][i].x.key = k
Queued(s, k) == \E i \in DOMAIN input[s] : input[s][i].kind = "getconf" /\ input[s][i].key = k

SweepMark(s, k) ==
  /\ k \in eng[s].marks /\ (Prompt => ~InTransit(k) /\ ~Queued(s, k))
  /\ eng' = [eng EXCEPT ![s].marks = @ \ {k}]
  /\ UNCHANGED <<input, output, router, jobs, ids, regs, lost>>

------------------------------------------------------------------------------
(* The I/O router                                                           *)

\* A datagram goes to the shard its endpoint is bound to; without room it is lost.
RouteUdp(m) ==
  /\ LET s == bound[m.key]
     IN  Room(input[s], InputCap) /\ input' = [input EXCEPT ![s] = Append(@, m)]
  /\ UNCHANGED <<eng, output, router, jobs, ids, regs, lost>>

\* Mutant: the endpoint does not follow its session.
DeliverUnbound(m) ==
  /\ input' = [input EXCEPT ![m.shard] = Append(@, [kind |-> "adopt", x |-> m.x])]
  /\ UNCHANGED bound

\* AdoptSession goes ahead of every datagram the new binding lets through.
Deliver(m) ==
  /\ input' = [input EXCEPT ![m.shard] = Append(@, [kind |-> "adopt", x |-> m.x])]
  /\ bound' = [bound EXCEPT ![m.key] = m.shard]

\* drain_worker_outputs and drain_router_commands
RouterTake(s) ==
  /\ output[s] # <<>> /\ output' = [output EXCEPT ![s] = Tail(@)]
  /\ LET m == Head(output[s])
     IN  CASE m.kind = "bind" -> bound' = [bound EXCEPT ![m.key] = m.shard]
                                  /\ UNCHANGED <<input, pending, tunnels>>
           [] m.kind = "tunnel" -> tunnels' = [tunnels EXCEPT ![m.ip] = m.shard]
                                    /\ UNCHANGED <<input, pending, bound>>
           [] OTHER -> IF Room(input[m.shard], InputCap)
                       THEN Deliver(m) /\ UNCHANGED <<pending, tunnels>>
                       ELSE pending' = pending \cup {m} /\ UNCHANGED <<input, bound, tunnels>>
  /\ UNCHANGED <<eng, jobs, ids, regs, lost>>

RouterRetry(m) ==
  /\ m \in pending /\ Room(input[m.shard], InputCap)
  /\ Deliver(m) /\ pending' = pending \ {m}
  /\ UNCHANGED <<eng, output, tunnels, jobs, ids, regs, lost>>

\* handle_getconf: SetAuthoritativeEpoch, then ActivateTunnel, each fanned out
\* to every shard with room.  UpdateEpoch goes before them and changes nothing
\* here: the session was made with that identity.  The lock of the device
\* keeps its requests apart.
Fanout(m) ==
  /\ input' = [s \in Shards |-> TrySend(input[s], m, InputCap)]
  /\ lost' = (lost \/ \E s \in Shards : ~Room(input[s], InputCap))

GetconfEpoch(j) ==
  /\ ~j.locked /\ \A i \in jobs : i.dev = j.dev => ~i.locked
  /\ jobs' = (jobs \ {j}) \cup {[j EXCEPT !.locked = TRUE]}
  /\ Fanout([kind |-> "epoch", dev |-> j.dev, gen |-> j.gen])
  /\ UNCHANGED <<eng, output, router, ids, regs>>

\* gen is history: the command names the session, the address and the registration.
GetconfActivate(j) ==
  /\ j.locked /\ regs < MaxRegs
  /\ regs' = regs + 1 /\ jobs' = jobs \ {j}
  /\ Fanout([kind |-> "activate", id |-> j.id, dev |-> j.dev, gen |-> j.gen, reg |-> regs + 1])
  /\ UNCHANGED <<eng, output, router, ids>>

------------------------------------------------------------------------------
ShardStep(s) ==
  \/ OnUdpUnknown(s) \/ OnUdpIgnored(s) \/ OnUdpReplace(s) \/ OnUdpExisting(s)
  \/ OnAdopt(s) \/ OnEpoch(s) \/ OnActivate(s) \/ Compact(s)
  \/ (\E d \in Devices : OnDisconnect(s, d)) \/ (\E slot \in Slots : DropSession(s, slot))
  \/ (\E k \in Keys : SweepMark(s, k))

Next ==
  \/ \E s \in Shards : ShardStep(s) \/ RouterTake(s)
  \/ \E m \in Getconfs : RouteUdp(m)
  \/ \E m \in pending : RouterRetry(m)
  \/ \E j \in jobs : GetconfEpoch(j) \/ GetconfActivate(j)

Spec == Init /\ [][Next]_vars

------------------------------------------------------------------------------
(* Properties                                                               *)

\* Queues, tables and marks stay in their types and limits.
TypeOK ==
  /\ \A s \in Shards :
       /\ Len(input[s]) <= InputCap /\ Len(output[s]) <= OutputCap
       /\ DOMAIN eng[s].tab \subseteq Slots /\ eng[s].marks \subseteq Keys
  /\ bound \in [Keys -> Shards] /\ tunnels \in [Devices -> Shards]

\* by_peer, by_id and the slab always describe the same sessions: whatever
\* order of setup, replacement, migration, compaction and removal, no session
\* is left behind that no datagram reaches, and no index outlives its session.
TablesAgree == TypeOK /\
  \A s \in Shards : LET e == eng[s] IN
    /\ \A slot \in DOMAIN e.tab :
         /\ e.tab[slot].key \in DOMAIN e.peer /\ e.peer[e.tab[slot].key] = slot
         /\ e.tab[slot].id \in DOMAIN e.id /\ e.id[e.tab[slot].id] = slot
    /\ \A k \in DOMAIN e.peer : e.peer[k] \in DOMAIN e.tab /\ e.tab[e.peer[k]].key = k
    /\ \A i \in DOMAIN e.id : e.id[i] \in DOMAIN e.tab /\ e.tab[e.id[i]].id = i

\* Every endpoint of the route table leads to the live session that registered
\* it, so send_down_endpoint never finds it stale, and a stream has one route.
RoutesLive ==
  \A s \in Shards : \A r \in eng[s].routes :
    /\ r.slot \in DOMAIN eng[s].tab
    /\ eng[s].tab[r.slot].id = r.id /\ eng[s].tab[r.slot].reg = r.reg
    /\ \A q \in eng[s].routes : q.ip = r.ip /\ q.worker = r.worker => q = r

\* As long as no queue has overflowed, a registered session is never without
\* a route for its stream, its own or a younger one's.
StreamsServed ==
  ~lost => \A s \in Shards : \A slot \in DOMAIN eng[s].tab :
    LET x == eng[s].tab[slot]
    IN  x.reg # 0 => \E r \in eng[s].routes : r.ip = x.dev /\ r.worker = x.worker

\* As long as no queue has overflowed, a session that has been registered lies
\* where the router sends its datagrams and the packets of its device, once
\* the router has read what the shards told it.
Announced(s, k) == \E i \in DOMAIN output[s] : output[s][i].kind = "bind" /\ output[s][i].key = k
Tunnelled(s, d) == \E i \in DOMAIN output[s] : output[s][i].kind = "tunnel" /\ output[s][i].ip = d
Reached ==
  ~lost => \A s \in Shards : \A slot \in DOMAIN eng[s].tab :
    LET x == eng[s].tab[slot]
    IN  /\ bound[x.key] = s \/ Announced(s, x.key)
        /\ x.reg # 0 => tunnels[x.dev] = s \/ Tunnelled(s, x.dev)
==============================================================================
