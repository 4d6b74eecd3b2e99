-------------------------- MODULE SessionTableProofs --------------------------
(***************************************************************************)
(* The safety properties of SessionTable for any number of shards, devices,*)
(* endpoints and sessions and any length of the queues.                    *)
(***************************************************************************)
EXTENDS SessionTable, SequenceTheorems, WellFoundedInduction, TLAPS

-------------------------------------------------------------------------------
(* Types                                                                     *)

Gens == {m.gen : m \in Getconfs}
Workers == {m.worker : m \in Getconfs}
Sessions == [id : Nat, key : Keys, dev : Devices, gen : Gens, worker : Workers, reg : Nat]
Routes == [ip : Devices, id : Nat, reg : Nat, worker : Workers, slot : Slots]

\* Functions from a part of A to B.
Partial(A, B) == UNION {[D -> B] : D \in SUBSET A}
Engines == [tab : Partial(Slots, Sessions), peer : Partial(Keys, Slots), id : Partial(Nat, Slots),
            routes : SUBSET Routes, marks : SUBSET Keys]

Adopts == [kind : {"adopt"}, x : Sessions]
Epochs == [kind : {"epoch"}, dev : Devices, gen : Gens]
Activates == [kind : {"activate"}, id : Nat, dev : Devices, gen : Gens, reg : Nat]
Inputs == Getconfs \cup Adopts \cup Epochs \cup Activates
Binds == [kind : {"bind"}, key : Keys, shard : Shards]
Tunnels == [kind : {"tunnel"}, ip : Devices, shard : Shards]
Migrations == [kind : {"migrate"}, key : Keys, shard : Shards, x : Sessions]
Outputs == Binds \cup Tunnels \cup Migrations
Jobs == [id : Nat, dev : Devices, gen : Gens, locked : BOOLEAN]

Types ==
  /\ eng \in [Shards -> Engines]
  /\ input \in [Shards -> Seq(Inputs)] /\ \A s \in Shards : Len(input[s]) <= InputCap
  /\ output \in [Shards -> Seq(Outputs)] /\ \A s \in Shards : Len(output[s]) <= OutputCap
  /\ pending \subseteq Migrations
  /\ bound \in [Keys -> Shards] /\ tunnels \in [Devices -> Shards]
  /\ jobs \subseteq Jobs /\ ids \in Nat /\ regs \in Nat /\ lost \in BOOLEAN

-------------------------------------------------------------------------------
(* One shard                                                                 *)

TabOf(e) == {e.tab[t] : t \in DOMAIN e.tab}

\* by_id and the slab describe the same sessions.
IdOK(e) ==
  /\ \A t \in DOMAIN e.tab : e.tab[t].id \in DOMAIN e.id /\ e.id[e.tab[t].id] = t
  /\ \A i \in DOMAIN e.id : e.id[i] \in DOMAIN e.tab /\ e.tab[e.id[i]].id = i

\* by_peer leads to sessions of the endpoint ...
PeerOK(e) == \A k \in DOMAIN e.peer : e.peer[k] \in DOMAIN e.tab /\ e.tab[e.peer[k]].key = k
\* ... and to all of them.
KeyOK(e) == \A t \in DOMAIN e.tab : e.tab[t].key \in DOMAIN e.peer /\ e.peer[e.tab[t].key] = t

\* A route is that of the registered session in its slot; a stream has one.
RouteOK(e) ==
  /\ \A r \in e.routes : /\ r.slot \in DOMAIN e.tab /\ r.reg # 0
                         /\ r = RouteOf(e.tab[r.slot], r.slot)
  /\ \A r, q \in e.routes : r.ip = q.ip /\ r.worker = q.worker => r = q
RegOK(e) == \A t, u \in DOMAIN e.tab : e.tab[t].reg = e.tab[u].reg /\ e.tab[t].reg # 0 => t = u
Local(e) == IdOK(e) /\ PeerOK(e) /\ RouteOK(e) /\ RegOK(e)

\* The registered sessions of a device are of one generation, and a stream
\* with a registered session has a route.
GenOK(e) ==
  \A x, y \in TabOf(e) : x.reg # 0 /\ y.reg # 0 /\ x.dev = y.dev => x.gen = y.gen
ServedOK(e) ==
  \A t \in DOMAIN e.tab : e.tab[t].reg # 0 =>
    \E r \in e.routes : r.ip = e.tab[t].dev /\ r.worker = e.tab[t].worker

-------------------------------------------------------------------------------
(* The places a session can be in                                            *)

Carried(q, kind) == {q[i].x : i \in {j \in DOMAIN q : q[j].kind = kind}}
Once(q, kind) ==
  \A i, j \in DOMAIN q : q[i].kind = kind /\ q[j].kind = kind /\ q[i].x.id = q[j].x.id => i = j

Tab(s) == TabOf(eng[s])
Out(s) == Carried(output[s], "migrate")
In(s) == Carried(input[s], "adopt")

Tabs(E) == [s \in Shards |-> TabOf(E[s])]
Outs(Q) == [s \in Shards |-> Carried(Q[s], "migrate")]
Ins(Q) == [s \in Shards |-> Carried(Q[s], "adopt")]
PendOf(P) == {m.x : m \in P}

\* The sessions under way, and all of them, by the places they are in.
AtSome(f) == UNION {f[s] : s \in Shards}
Moving(O, P, I) == AtSome(O) \cup P \cup AtSome(I)
Everywhere(T, O, P, I) == AtSome(T) \cup Moving(O, P, I)
LiveOf(E, R, P, Q) == Everywhere(Tabs(E), Outs(R), PendOf(P), Ins(Q))
Live == LiveOf(eng, output, pending, input)

\* A session is in one place: in one table or in one message under way.
OnePlace(T, O, P, I, n) ==
  /\ \A x \in Everywhere(T, O, P, I) : x.id <= n
  /\ \A x \in Moving(O, P, I) : x.reg = 0
  /\ \A s, u \in Shards : \A x \in T[s], y \in T[u] : x.id = y.id => s = u
  /\ \A s \in Shards : \A x \in T[s], y \in Moving(O, P, I) : x.id # y.id
  /\ \A s, u \in Shards : \A x \in O[s], y \in O[u] : x.id = y.id => s = u
  /\ \A s \in Shards : \A x \in O[s], y \in P : x.id # y.id
  /\ \A s, u \in Shards : \A x \in O[s], y \in I[u] : x.id # y.id
  /\ \A s \in Shards : \A x \in P, y \in I[s] : x.id # y.id
  /\ \A s, u \in Shards : \A x \in I[s], y \in I[u] : x.id = y.id => s = u

PlaceInv ==
  /\ OnePlace(Tabs(eng), Outs(output), PendOf(pending), Ins(input), ids)
  /\ \A s \in Shards : Once(output[s], "migrate") /\ Once(input[s], "adopt")
  /\ \A m, n \in pending : m.x.id = n.x.id => m = n

\* What the messages say.
MoveOK(m) == m.key = m.x.key /\ m.shard = Home[m.x.dev]
MessageInv ==
  /\ \A s \in Shards : \A m \in Range(output[s]) : IF m.kind = "migrate" THEN MoveOK(m) ELSE m.shard = s
  /\ \A m \in pending : MoveOK(m)
  /\ \A s \in Shards : \A m \in Range(input[s]) : m.kind = "adopt" => s = Home[m.x.dev]

\* Requests and commands name the device and the generation of their session.
NamesWell(m) == m.id <= ids /\ \A x \in Live : x.id = m.id => SameIdentity(x, m)
JobInv ==
  /\ \A j \in jobs : NamesWell(j)
  /\ \A s \in Shards : \A m \in Range(input[s]) : m.kind = "activate" => NamesWell(m)
  /\ \A i, j \in jobs : i.locked /\ j.locked /\ i.dev = j.dev => i = j

\* Registrations arrive in the order of their numbers: those in a queue are
\* younger than those of the sessions of the shard.
RegAt(T, q, n) ==
  /\ \A x \in T : x.reg <= n
  /\ \A i \in DOMAIN q : q[i].kind = "activate" =>
       /\ q[i].reg \in 1 .. n
       /\ \A x \in T : x.reg < q[i].reg
       /\ \A j \in DOMAIN q : i < j /\ q[j].kind = "activate" => q[i].reg < q[j].reg
RegInv == \A s \in Shards : RegAt(Tab(s), input[s], regs)

LocalInv == \A s \in Shards : Local(eng[s])

TableInv == Types /\ LocalInv /\ PlaceInv /\ MessageInv /\ JobInv /\ RegInv

-------------------------------------------------------------------------------
(* Endpoints, when marks live long enough                                    *)

\* No bind of an endpoint follows its migration in a queue, and what comes for
\* an endpoint before its session is marked.
Order(q) ==
  \A i, j \in DOMAIN q : i < j /\ q[i].kind = "migrate" /\ q[j].kind = "bind" => q[i].key # q[j].key
Early(q, M) ==
  \A i, j \in DOMAIN q :
    j < i /\ q[i].kind = "adopt" /\ q[j].kind = "getconf" /\ q[j].key = q[i].x.key => q[j].key \in M
NoBind(k) == \A s \in Shards : \A m \in Range(output[s]) : m.kind = "bind" => m.key # k

\* An endpoint has one session.
OneEach == \A x, y \in Live : x.key = y.key => x = y
\* A session lies where its endpoint is bound, as does what the shard announces.
BoundInv ==
  /\ \A s \in Shards : \A x \in Tab(s) : bound[x.key] = s
  /\ \A s \in Shards : \A m \in Range(output[s]) : m.kind = "bind" => bound[m.key] = s
\* Where datagrams may still arrive after the session has left there is a mark.
MarkInv ==
  \A s \in Shards : \A m \in Range(input[s]) :
    m.kind = "getconf" => s = bound[m.key] \/ m.key \in eng[s].marks
LeaveInv ==
  \A s \in Shards :
    /\ Order(output[s])
    /\ \A m \in Range(output[s]) : m.kind = "migrate" => bound[m.key] = s /\ m.key \in eng[s].marks
WaitInv == \A m \in pending : m.key \in eng[bound[m.key]].marks /\ NoBind(m.key)
ArriveInv ==
  \A s \in Shards :
    /\ Early(input[s], eng[s].marks)
    /\ \A m \in Range(input[s]) : m.kind = "adopt" => bound[m.x.key] = s /\ NoBind(m.x.key)

EndpointInv ==
  /\ \A s \in Shards : KeyOK(eng[s])
  /\ OneEach /\ BoundInv /\ MarkInv /\ LeaveInv /\ WaitInv /\ ArriveInv

-------------------------------------------------------------------------------
(* Streams, when no queue has overflowed                                     *)

About(m, d) == m.kind \in {"epoch", "activate"} /\ m.dev = d
EpochOf(m, d) == m.kind = "epoch" /\ m.dev = d

\* No epoch of d between two places of a queue.
Quiet(q, d, i, j) == \A h \in DOMAIN q : i < h /\ h < j => ~EpochOf(q[h], d)
OfGen(e, d, g) == \A x \in TabOf(e) : x.reg # 0 /\ x.dev = d => x.gen = g

\* The last commands for d before place j of a queue are of generation g, or,
\* when there is no epoch before it, the registered sessions of d.
Follows(T, q, j, d, g) ==
  /\ \A i \in DOMAIN q : i < j /\ About(q[i], d) /\ Quiet(q, d, i, j) => q[i].gen = g
  /\ Quiet(q, d, 0, j) => \A x \in T : x.reg # 0 /\ x.dev = d => x.gen = g

\* An activation follows commands of its own generation, and so will the one
\* of the request that has the lock of the device.
ActivateAt(T, q) == \A j \in DOMAIN q : q[j].kind = "activate" => Follows(T, q, j, q[j].dev, q[j].gen)
ActivateInv == \A s \in Shards : ActivateAt(Tab(s), input[s])
LockInv ==
  \A s \in Shards : \A j \in jobs : j.locked => Follows(Tab(s), input[s], Len(input[s]) + 1, j.dev, j.gen)

\* Sessions live at home, and the router learns where the tunnel is.
HomeInv ==
  /\ \A s \in Shards : \A x \in Tab(s) : Home[x.dev] = s
  /\ \A s \in Shards : \A m \in Range(output[s]) : m.kind = "tunnel" => Home[m.ip] = s
  /\ \A s \in Shards : \A x \in Tab(s) : x.reg # 0 =>
       tunnels[x.dev] = s \/ \E m \in Range(output[s]) : m.kind = "tunnel" /\ m.ip = x.dev

StreamInv ==
  ~lost => /\ \A s \in Shards : GenOK(eng[s]) /\ ServedOK(eng[s])
           /\ ActivateInv /\ LockInv /\ HomeInv
-------------------------------------------------------------------------------
(* Operators on the tables of one shard                                      *)

(* What it means to be a partial function, both ways.                        *)
LEMMA PartialFacts ==
  ASSUME NEW A, NEW B, NEW f \in Partial(A, B)
  PROVE  DOMAIN f \subseteq A /\ f \in [DOMAIN f -> B]
BY DEF Partial

LEMMA PartialIs ==
  ASSUME NEW A, NEW B, NEW D \in SUBSET A, NEW f \in [D -> B]
  PROVE  f \in Partial(A, B)
BY DEF Partial

(* Extending a partial function by one pair, and restricting it.             *)
LEMMA PutApply ==
  ASSUME NEW f, NEW k, NEW v
  PROVE  /\ Put(f, k, v)[k] = v
         /\ \A a \in DOMAIN f : a # k => Put(f, k, v)[a] = f[a]
BY DEF Put

LEMMA PutDomain ==
  ASSUME NEW f, NEW k, NEW v
  PROVE  DOMAIN Put(f, k, v) = DOMAIN f \cup {k}
BY DEF Put

LEMMA PutType ==
  ASSUME NEW A, NEW B, NEW f \in Partial(A, B), NEW k \in A, NEW v \in B
  PROVE  Put(f, k, v) \in Partial(A, B)
<1>1. DOMAIN f \cup {k} \in SUBSET A /\ f \in [DOMAIN f -> B]
  BY PartialFacts
<1>2. Put(f, k, v) \in [DOMAIN f \cup {k} -> B]
  BY <1>1 DEF Put
<1> QED BY <1>1, <1>2, PartialIs

LEMMA RestrictApply ==
  ASSUME NEW f, NEW S
  PROVE  \A a \in S : Restrict(f, S)[a] = f[a]
BY DEF Restrict

LEMMA RestrictedDomain ==
  ASSUME NEW f, NEW S
  PROVE  DOMAIN Restrict(f, S) = S
BY DEF Restrict

LEMMA RestrictType ==
  ASSUME NEW A, NEW B, NEW f \in Partial(A, B), NEW S \in SUBSET DOMAIN f
  PROVE  Restrict(f, S) \in Partial(A, B)
<1>1. S \in SUBSET A /\ f \in [DOMAIN f -> B]
  BY PartialFacts
<1>2. Restrict(f, S) \in [S -> B]
  BY <1>1 DEF Restrict
<1> QED BY <1>1, <1>2, PartialIs

(* The fields of an engine.                                                  *)
LEMMA EngineFacts ==
  ASSUME NEW e \in Engines
  PROVE  /\ e.tab \in Partial(Slots, Sessions) /\ e.peer \in Partial(Keys, Slots)
         /\ e.id \in Partial(Nat, Slots) /\ e.routes \subseteq Routes /\ e.marks \subseteq Keys
         /\ DOMAIN e.tab \subseteq Slots /\ \A t \in DOMAIN e.tab : e.tab[t] \in Sessions
         /\ DOMAIN e.peer \subseteq Keys /\ \A k \in DOMAIN e.peer : e.peer[k] \in Slots
         /\ DOMAIN e.id \subseteq Nat /\ \A i \in DOMAIN e.id : e.id[i] \in Slots
<1>1. /\ e.tab \in Partial(Slots, Sessions) /\ e.peer \in Partial(Keys, Slots)
      /\ e.id \in Partial(Nat, Slots) /\ e.routes \subseteq Routes /\ e.marks \subseteq Keys
  BY DEF Engines
<1>2. /\ DOMAIN e.tab \subseteq Slots /\ e.tab \in [DOMAIN e.tab -> Sessions]
      /\ DOMAIN e.peer \subseteq Keys /\ e.peer \in [DOMAIN e.peer -> Slots]
      /\ DOMAIN e.id \subseteq Nat /\ e.id \in [DOMAIN e.id -> Slots]
  BY <1>1, PartialFacts
<1> QED BY <1>1, <1>2

(* Filing a session with a fresh id in a vacant slot.                        *)
LEMMA InsertFacts ==
  ASSUME NEW e \in Engines, Local(e), NEW x \in Sessions, NEW slot \in Slots \ DOMAIN e.tab,
         x.id \notin DOMAIN e.id, x.reg = 0
  PROVE  LET f == Insert(e, x, slot)
         IN  /\ f \in Engines /\ Local(f)
             /\ f.routes = e.routes /\ f.marks = e.marks
             /\ DOMAIN f.tab = DOMAIN e.tab \cup {slot} /\ f.tab[slot] = x
             /\ \A t \in DOMAIN e.tab : f.tab[t] = e.tab[t]
             /\ DOMAIN f.id = DOMAIN e.id \cup {x.id}
             /\ KeyOK(e) /\ x.key \notin DOMAIN e.peer => KeyOK(f)
<1> DEFINE f == Insert(e, x, slot)
<1>1. /\ x.id \in Nat /\ x.key \in Keys
      /\ e.tab \in Partial(Slots, Sessions) /\ e.peer \in Partial(Keys, Slots)
      /\ e.id \in Partial(Nat, Slots) /\ e.routes \subseteq Routes /\ e.marks \subseteq Keys
      /\ \A t \in DOMAIN e.tab : e.tab[t] \in Sessions
  BY EngineFacts DEF Sessions
<1>2. /\ f.tab = Put(e.tab, slot, x) /\ f.peer = Put(e.peer, x.key, slot)
      /\ f.id = Put(e.id, x.id, slot) /\ f.routes = e.routes /\ f.marks = e.marks
  BY DEF Insert, Engines
<1> DEFINE tab == Put(e.tab, slot, x)
           peer == Put(e.peer, x.key, slot)
           id == Put(e.id, x.id, slot)
<1>3. tab[slot] = x /\ \A t \in DOMAIN e.tab : tab[t] = e.tab[t]
  BY PutApply
<1>4. peer[x.key] = slot /\ \A k \in DOMAIN e.peer : k # x.key => peer[k] = e.peer[k]
  BY PutApply
<1>5. id[x.id] = slot /\ \A i \in DOMAIN e.id : i # x.id => id[i] = e.id[i]
  BY PutApply
<1>13. /\ DOMAIN tab = DOMAIN e.tab \cup {slot} /\ DOMAIN peer = DOMAIN e.peer \cup {x.key}
       /\ DOMAIN id = DOMAIN e.id \cup {x.id}
  BY PutDomain
<1>12. tab \in Partial(Slots, Sessions) /\ peer \in Partial(Keys, Slots) /\ id \in Partial(Nat, Slots)
  BY <1>1, PutType
<1>6. f \in Engines
  BY <1>1, <1>12 DEF Insert, Engines
<1> HIDE DEF f, tab, peer, id
<1>20. f.tab = tab /\ f.peer = peer /\ f.id = id
  BY <1>2 DEF tab, peer, id
<1>7. IdOK(f)
  BY <1>20, <1>13, <1>3, <1>5 DEF IdOK, Local
<1>8. PeerOK(f)
  BY <1>20, <1>13, <1>3, <1>4 DEF PeerOK, Local
<1>9. RouteOK(f)
  BY <1>2, <1>20, <1>13, <1>3 DEF RouteOK, Local
<1>10. RegOK(f)
  BY <1>20, <1>13, <1>3 DEF RegOK, Local
<1>11. KeyOK(e) /\ x.key \notin DOMAIN e.peer => KeyOK(f)
  BY <1>20, <1>13, <1>3, <1>4 DEF KeyOK
<1> QED BY <1>2, <1>20, <1>13, <1>3, <1>5, <1>6, <1>7, <1>8, <1>9, <1>10, <1>11 DEF Local, f

(* Of some sessions one is the youngest.                                     *)
LEMMA Youngest ==
  ASSUME NEW e \in Engines, NEW B \in Nat, \A t \in DOMAIN e.tab : e.tab[t].id <= B,
         NEW H \in SUBSET DOMAIN e.tab, H # {}
  PROVE  \E t \in H : \A u \in H : e.tab[u].id <= e.tab[t].id
<1> DEFINE S == {B - e.tab[t].id : t \in H}
           R == OpToRel(<, Nat)
<1>1. \A t \in H : e.tab[t].id \in Nat /\ e.tab[t].id <= B
  BY EngineFacts DEF Sessions
<1>2. S \in SUBSET Nat /\ S # {}
  BY <1>1
<1>3. \A x, y \in Nat : <<y, x>> \in R <=> y < x
  BY DEF OpToRel
<1>4. IsWellFoundedOn(R, Nat)
  BY NatLessThanWellFounded
<1> HIDE DEF R
<1>5. PICK x \in S : \A y \in S : ~ (<<y, x>> \in R)
  BY <1>2, <1>4, WFMin
<1>6. PICK t \in H : x = B - e.tab[t].id
  BY <1>5
<1>7. ASSUME NEW u \in H PROVE e.tab[u].id <= e.tab[t].id
  <2> DEFINE y == B - e.tab[u].id
  <2>1. y \in S /\ y \in Nat /\ x \in Nat
    BY <1>1, <1>2
  <2>2. ~ (y < x)
    BY <2>1, <1>3, <1>5
  <2> QED BY <2>2, <1>1, <1>6
<1> QED BY <1>7

(* The only route with the registration of a session is its own.             *)
LEMMA RouteHolder ==
  ASSUME NEW e \in Engines, Local(e), NEW u \in DOMAIN e.tab, NEW r \in e.routes,
         Registration(r, e.tab[u])
  PROVE  r = RouteOf(e.tab[u], u)
<1>1. r.slot \in DOMAIN e.tab /\ r = RouteOf(e.tab[r.slot], r.slot) /\ r.reg # 0
  BY DEF Local, RouteOK
<1>2. e.tab[r.slot].reg = e.tab[u].reg /\ e.tab[u].reg # 0
  BY <1>1 DEF Registration, RouteOf
<1>3. r.slot = u
  BY <1>1, <1>2 DEF Local, RegOK
<1> QED BY <1>1, <1>3

(* Removing sessions: those that stay keep their slots and indexes, and the  *)
(* routes of those that go are handed on within their streams.               *)
LEMMA RemoveFacts ==
  ASSUME NEW e \in Engines, Local(e), NEW slots,
         NEW B \in Nat, \A t \in DOMAIN e.tab : e.tab[t].id <= B
  PROVE  LET f == Remove(e, slots)
         IN  /\ f \in Engines /\ Local(f) /\ f.marks = e.marks
             /\ DOMAIN f.tab = DOMAIN e.tab \ slots
             /\ \A t \in DOMAIN e.tab \ slots : f.tab[t] = e.tab[t]
             /\ DOMAIN f.peer \subseteq DOMAIN e.peer
             /\ \A t \in slots \cap DOMAIN e.tab : e.tab[t].key \notin DOMAIN f.peer
             /\ KeyOK(e) => KeyOK(f)
             /\ GenOK(e) /\ ServedOK(e) => ServedOK(f)
<1> DEFINE f == Remove(e, slots)
           gone == {e.tab[slot] : slot \in slots \cap DOMAIN e.tab}
           heirs(x) == {t \in DOMAIN e.tab \ slots : e.tab[t].reg # 0 /\ SameStream(e.tab[t], x)}
           heir(x) == CHOOSE t \in heirs(x) : \A u \in heirs(x) : e.tab[u].id <= e.tab[t].id
           held == {x \in gone : heirs(x) # {} /\ \E r \in e.routes : Registration(r, x)}
           kept == {r \in e.routes : \A x \in gone : ~Registration(r, x)}
           given == {RouteOf(e.tab[heir(x)], heir(x)) : x \in held}
           tab == Restrict(e.tab, DOMAIN e.tab \ slots)
           peer == Restrict(e.peer, DOMAIN e.peer \ {x.key : x \in gone})
           id == Restrict(e.id, DOMAIN e.id \ {x.id : x \in gone})
<1>1. f = [e EXCEPT !.tab = tab, !.peer = peer, !.id = id, !.routes = kept \cup given]
  BY Zenon DEF Remove
<1>2. f.tab = tab /\ f.peer = peer /\ f.id = id /\ f.routes = kept \cup given /\ f.marks = e.marks
  <2> HIDE DEF f, tab, peer, id, kept, given
  <2> QED BY <1>1 DEF Engines
<1>3. /\ DOMAIN tab = DOMAIN e.tab \ slots /\ DOMAIN peer = DOMAIN e.peer \ {x.key : x \in gone}
      /\ DOMAIN id = DOMAIN e.id \ {x.id : x \in gone}
  <2> HIDE DEF gone
  <2> QED BY RestrictedDomain
<1>4. /\ \A t \in DOMAIN e.tab \ slots : tab[t] = e.tab[t]
      /\ \A k \in DOMAIN e.peer \ {x.key : x \in gone} : peer[k] = e.peer[k]
      /\ \A i \in DOMAIN e.id \ {x.id : x \in gone} : id[i] = e.id[i]
  <2> HIDE DEF gone
  <2> QED BY RestrictApply
<1>5. tab \in Partial(Slots, Sessions) /\ peer \in Partial(Keys, Slots) /\ id \in Partial(Nat, Slots)
  <2> HIDE DEF gone
  <2>1. /\ e.tab \in Partial(Slots, Sessions) /\ e.peer \in Partial(Keys, Slots)
        /\ e.id \in Partial(Nat, Slots)
    BY EngineFacts
  <2> QED BY <2>1, RestrictType
<1>6. \A x \in gone : \E u \in DOMAIN e.tab \cap slots : x = e.tab[u]
  OBVIOUS
<1>7. \A u \in DOMAIN e.tab \cap slots : e.tab[u] \in gone
  OBVIOUS
<1>8. ASSUME NEW x \in held
      PROVE  /\ heir(x) \in DOMAIN e.tab \ slots /\ e.tab[heir(x)].reg # 0
             /\ SameStream(e.tab[heir(x)], x)
             /\ x \in gone /\ \E r \in e.routes : Registration(r, x)
  <2>1. heirs(x) \in SUBSET DOMAIN e.tab /\ heirs(x) # {}
    OBVIOUS
  <2>2. \E t \in heirs(x) : \A u \in heirs(x) : e.tab[u].id <= e.tab[t].id
    <3> HIDE DEF heirs
    <3> QED BY <2>1, Youngest
  <2>3. heir(x) \in heirs(x)
    <3> HIDE DEF heirs
    <3> QED BY <2>2
  <2> QED BY <2>3
<1>9. ASSUME NEW x \in gone, heirs(x) # {}, NEW r \in e.routes, Registration(r, x) PROVE x \in held
  BY <1>9
<1>10. given = {RouteOf(e.tab[heir(x)], heir(x)) : x \in held}
  OBVIOUS
<1>11. kept = {r \in e.routes : \A x \in gone : ~Registration(r, x)}
  OBVIOUS
<1>12. \A x : heirs(x) = {t \in DOMAIN e.tab \ slots : e.tab[t].reg # 0 /\ SameStream(e.tab[t], x)}
  OBVIOUS
<1> HIDE DEF f, gone, heirs, heir, held, kept, given, tab, peer, id
<1>13. \A x \in gone : x \in Sessions
  BY <1>6, EngineFacts
<1>14. kept \cup given \subseteq Routes
  <2>1. kept \subseteq Routes
    BY <1>11, EngineFacts
  <2>2. ASSUME NEW x \in held PROVE RouteOf(e.tab[heir(x)], heir(x)) \in Routes
    <3>1. heir(x) \in Slots /\ e.tab[heir(x)] \in Sessions
      BY <1>8, EngineFacts
    <3> QED BY <3>1 DEF RouteOf, Routes, Sessions
  <2> QED BY <2>1, <2>2, <1>10
<1>15. f \in Engines
  BY <1>1, <1>5, <1>14 DEF Engines
<1>16. IdOK(f)
  <2>1. ASSUME NEW t \in DOMAIN e.tab \ slots
        PROVE  e.tab[t].id \in DOMAIN e.id \ {x.id : x \in gone} /\ id[e.tab[t].id] = t
    <3>1. e.tab[t].id \in DOMAIN e.id /\ e.id[e.tab[t].id] = t
      BY DEF Local, IdOK
    <3>2. ASSUME NEW x \in gone, x.id = e.tab[t].id PROVE FALSE
      <4>1. PICK u \in DOMAIN e.tab \cap slots : x = e.tab[u]
        BY <1>6
      <4> QED BY <4>1, <3>1, <3>2 DEF Local, IdOK
    <3> QED BY <3>1, <3>2, <1>4
  <2>2. ASSUME NEW i \in DOMAIN e.id \ {x.id : x \in gone}
        PROVE  id[i] \in DOMAIN e.tab \ slots /\ e.tab[id[i]].id = i
    <3>1. id[i] = e.id[i] /\ e.id[i] \in DOMAIN e.tab /\ e.tab[e.id[i]].id = i
      BY <1>4 DEF Local, IdOK
    <3> QED BY <3>1, <1>7
  <2> QED BY <2>1, <2>2, <1>2, <1>3, <1>4 DEF IdOK
<1>17. PeerOK(f)
  <2>1. ASSUME NEW k \in DOMAIN e.peer \ {x.key : x \in gone}
        PROVE  peer[k] \in DOMAIN e.tab \ slots /\ e.tab[peer[k]].key = k
    <3>1. peer[k] = e.peer[k] /\ e.peer[k] \in DOMAIN e.tab /\ e.tab[e.peer[k]].key = k
      BY <1>4 DEF Local, PeerOK
    <3> QED BY <3>1, <1>7
  <2> QED BY <2>1, <1>2, <1>3, <1>4 DEF PeerOK
<1>18. KeyOK(e) => KeyOK(f)
  <2> SUFFICES ASSUME KeyOK(e), NEW t \in DOMAIN e.tab \ slots
               PROVE  e.tab[t].key \in DOMAIN e.peer \ {x.key : x \in gone} /\ peer[e.tab[t].key] = t
    BY <1>2, <1>3, <1>4 DEF KeyOK
  <2>1. e.tab[t].key \in DOMAIN e.peer /\ e.peer[e.tab[t].key] = t
    BY DEF KeyOK
  <2>2. ASSUME NEW x \in gone, x.key = e.tab[t].key PROVE FALSE
    <3>1. PICK u \in DOMAIN e.tab \cap slots : x = e.tab[u]
      BY <1>6
    <3> QED BY <3>1, <2>1, <2>2 DEF KeyOK
  <2> QED BY <2>1, <2>2, <1>4
<1>19. RegOK(f)
  BY <1>2, <1>3, <1>4 DEF Local, RegOK
<1>20. ASSUME NEW r \in kept
       PROVE  r \in e.routes /\ r.slot \in DOMAIN e.tab \ slots /\ r.reg # 0 /\ r = RouteOf(e.tab[r.slot], r.slot)
  <2>1. r \in e.routes /\ r.slot \in DOMAIN e.tab /\ r.reg # 0 /\ r = RouteOf(e.tab[r.slot], r.slot)
    BY <1>11 DEF Local, RouteOK
  <2>2. r.slot \notin slots
    <3>1. Registration(r, e.tab[r.slot])
      BY <2>1 DEF Registration, RouteOf
    <3> QED BY <2>1, <3>1, <1>7, <1>11
  <2> QED BY <2>1, <2>2
<1>21. ASSUME NEW x \in held
       PROVE  \E u \in DOMAIN e.tab \cap slots : /\ x = e.tab[u] /\ RouteOf(x, u) \in e.routes
                                                 /\ Registration(RouteOf(x, u), x)
  <2>1. PICK u \in DOMAIN e.tab \cap slots : x = e.tab[u]
    BY <1>6, <1>8
  <2>2. PICK r \in e.routes : Registration(r, x)
    BY <1>8
  <2>3. r = RouteOf(x, u)
    BY <2>1, <2>2, RouteHolder
  <2> QED BY <2>1, <2>2, <2>3
<1>22. RouteOK(f)
  <2>1. ASSUME NEW r \in kept \cup given
        PROVE  r.slot \in DOMAIN e.tab \ slots /\ r.reg # 0 /\ r = RouteOf(e.tab[r.slot], r.slot)
    <3>1. ASSUME NEW x \in held, r = RouteOf(e.tab[heir(x)], heir(x))
          PROVE  r.slot \in DOMAIN e.tab \ slots /\ r.reg # 0 /\ r = RouteOf(e.tab[r.slot], r.slot)
      BY <3>1, <1>8 DEF RouteOf
    <3> QED BY <3>1, <1>10, <1>20
  <2>2. ASSUME NEW x \in held, NEW q \in kept, q.ip = x.dev, q.worker = x.worker PROVE FALSE
    <3>1. PICK u \in DOMAIN e.tab \cap slots : /\ x = e.tab[u] /\ RouteOf(x, u) \in e.routes
                                               /\ Registration(RouteOf(x, u), x)
      BY <1>21
    <3>2. q = RouteOf(x, u)
      BY <3>1, <2>2, <1>20 DEF Local, RouteOK, RouteOf
    <3> QED BY <3>1, <3>2, <1>8, <1>11
  <2>3. ASSUME NEW x \in held, NEW y \in held, x.dev = y.dev, x.worker = y.worker PROVE x = y
    <3>1. PICK u \in DOMAIN e.tab \cap slots : x = e.tab[u] /\ RouteOf(x, u) \in e.routes
      BY <1>21
    <3>2. PICK v \in DOMAIN e.tab \cap slots : y = e.tab[v] /\ RouteOf(y, v) \in e.routes
      BY <1>21
    <3>3. RouteOf(x, u) = RouteOf(y, v)
      BY <3>1, <3>2, <2>3 DEF Local, RouteOK, RouteOf
    <3>4. u = v
      BY <3>3 DEF RouteOf
    <3> QED BY <3>1, <3>2, <3>4
  <2>4. ASSUME NEW x \in held
        PROVE  LET r == RouteOf(e.tab[heir(x)], heir(x)) IN r.ip = x.dev /\ r.worker = x.worker
    BY <1>8 DEF RouteOf, SameStream, SameIdentity
  <2>5. ASSUME NEW r \in kept \cup given, NEW q \in kept \cup given, r.ip = q.ip, r.worker = q.worker
        PROVE  r = q
    <3>1. CASE r \in kept /\ q \in kept
      BY <3>1, <2>5, <1>20 DEF Local, RouteOK
    <3>2. CASE r \in kept /\ q \in given
      BY <3>2, <2>2, <2>4, <2>5, <1>10
    <3>3. CASE r \in given /\ q \in kept
      BY <3>3, <2>2, <2>4, <2>5, <1>10
    <3>4. CASE r \in given /\ q \in given
      <4>1. PICK x \in held : r = RouteOf(e.tab[heir(x)], heir(x))
        BY <3>4, <1>10
      <4>2. PICK y \in held : q = RouteOf(e.tab[heir(y)], heir(y))
        BY <3>4, <1>10
      <4>3. x = y
        BY <4>1, <4>2, <2>3, <2>4, <2>5
      <4> QED BY <4>1, <4>2, <4>3
    <3> QED BY <3>1, <3>2, <3>3, <3>4
  <2> QED BY <2>1, <2>5, <1>2, <1>3, <1>4 DEF RouteOK
<1>23. GenOK(e) /\ ServedOK(e) => ServedOK(f)
  <2> SUFFICES ASSUME GenOK(e), ServedOK(e), NEW t \in DOMAIN e.tab \ slots, e.tab[t].reg # 0
               PROVE  \E r \in kept \cup given : r.ip = e.tab[t].dev /\ r.worker = e.tab[t].worker
    BY <1>2, <1>3, <1>4 DEF ServedOK
  <2>1. PICK r \in e.routes : r.ip = e.tab[t].dev /\ r.worker = e.tab[t].worker
    BY DEF ServedOK
  <2>2. CASE r \in kept
    BY <2>1, <2>2
  <2>3. CASE r \notin kept
    <3>1. PICK x \in gone : Registration(r, x)
      BY <2>3, <1>11
    <3>2. PICK u \in DOMAIN e.tab \cap slots : x = e.tab[u]
      BY <1>6
    <3>3. r = RouteOf(x, u) /\ x.reg # 0
      BY <3>1, <3>2, RouteHolder DEF Registration
    <3>4. x.dev = e.tab[t].dev /\ x.worker = e.tab[t].worker
      BY <2>1, <3>3 DEF RouteOf
    <3>5. SameStream(e.tab[t], x)
      BY <3>2, <3>3, <3>4 DEF GenOK, TabOf, SameStream, SameIdentity
    <3>6. x \in held
      BY <3>1, <3>5, <1>9, <1>12
    <3>7. RouteOf(e.tab[heir(x)], heir(x)) \in given
      BY <3>6, <1>10
    <3> QED BY <3>4, <3>6, <3>7, <1>8 DEF RouteOf, SameStream, SameIdentity
  <2> QED BY <2>2, <2>3
<1>24. \A t \in slots \cap DOMAIN e.tab : e.tab[t].key \notin DOMAIN f.peer
  BY <1>2, <1>3, <1>7
<1> QED BY <1>2, <1>3, <1>4, <1>15, <1>16, <1>17, <1>18, <1>19, <1>22, <1>23, <1>24 DEF Local, f

(* activate_tunnel with a registration younger than all others: the routes   *)
(* of the other streams stay, the session takes over that of its own.        *)
LEMMA ActivatedFacts ==
  ASSUME NEW e \in Engines, Local(e), NEW slot \in DOMAIN e.tab, NEW reg \in Nat \ {0},
         \A t \in DOMAIN e.tab : e.tab[t].reg < reg
  PROVE  LET f == Activated(e, slot, reg)
         IN  /\ f \in Engines /\ Local(f) /\ f.marks = e.marks /\ f.peer = e.peer /\ f.id = e.id
             /\ DOMAIN f.tab = DOMAIN e.tab
             /\ f.tab[slot] = [e.tab[slot] EXCEPT !.reg = reg]
             /\ \A t \in DOMAIN e.tab \ {slot} : f.tab[t] = e.tab[t]
             /\ KeyOK(e) => KeyOK(f)
             /\ GenOK(e) /\ OfGen(e, e.tab[slot].dev, e.tab[slot].gen) => GenOK(f)
             /\ ServedOK(e) => ServedOK(f)
<1> DEFINE f == Activated(e, slot, reg)
           y == e.tab[slot]
           x == [y EXCEPT !.reg = reg]
           kept == {r \in e.routes : ~Registration(r, y)}
           routes == {r \in kept : r.ip = x.dev => r.reg # x.reg /\ r.worker # x.worker} \cup {RouteOf(x, slot)}
           tab == [e.tab EXCEPT ![slot] = x]
<1>1. /\ y \in Sessions /\ slot \in Slots /\ e.tab \in [DOMAIN e.tab -> Sessions]
      /\ e.tab \in Partial(Slots, Sessions)
      /\ e.routes \subseteq Routes /\ DOMAIN e.tab \in SUBSET Slots
  BY EngineFacts, PartialFacts
<1>2. x \in Sessions /\ x.reg = reg /\ x.id = y.id /\ x.key = y.key /\ x.dev = y.dev
      /\ x.gen = y.gen /\ x.worker = y.worker
  <2> HIDE DEF y
  <2> QED BY <1>1 DEF Sessions
<1>3. f = [e EXCEPT !.routes = routes, !.tab = tab]
  <2> HIDE DEF y, x, kept
  <2>1. Unregister(e, y) = [e EXCEPT !.routes = kept]
    BY DEF Unregister, kept
  <2>2. Register([e EXCEPT !.routes = kept], x, slot) = [e EXCEPT !.routes = routes]
    BY DEF Register, Engines
  <2>3. f = [[e EXCEPT !.routes = routes] EXCEPT !.tab[slot] = x]
    BY <2>1, <2>2, Zenon DEF Activated, y, x
  <2> HIDE DEF f, routes
  <2> QED BY <2>3 DEF Engines
<1>4. tab \in [DOMAIN e.tab -> Sessions] /\ tab[slot] = x /\ \A t \in DOMAIN e.tab \ {slot} : tab[t] = e.tab[t]
  <2> HIDE DEF x
  <2> QED BY <1>1, <1>2
<1>5. tab \in Partial(Slots, Sessions) /\ DOMAIN tab = DOMAIN e.tab
  <2> HIDE DEF tab
  <2> QED BY <1>1, <1>4, PartialIs
<1>6. /\ \A r \in kept : r \in e.routes /\ ~Registration(r, y)
      /\ \A r \in e.routes : ~Registration(r, y) => r \in kept
  <2> HIDE DEF y
  <2> QED OBVIOUS
<1>7. /\ \A r \in routes \ {RouteOf(x, slot)} : r \in kept /\ (r.ip = x.dev => r.worker # x.worker)
      /\ RouteOf(x, slot) \in routes
      /\ \A r \in kept : (r.ip = x.dev => r.reg # x.reg /\ r.worker # x.worker) => r \in routes
  <2> HIDE DEF x, kept
  <2> QED OBVIOUS
<1>8. y = e.tab[slot]
  OBVIOUS
<1> HIDE DEF f, y, x, kept, routes, tab
<1>9. f.tab = tab /\ f.routes = routes /\ f.peer = e.peer /\ f.id = e.id /\ f.marks = e.marks
  BY <1>3 DEF Engines
<1>10. RouteOf(x, slot) \in Routes
  BY <1>1, <1>2 DEF RouteOf, Routes, Sessions
<1>11. f \in Engines
  BY <1>1, <1>3, <1>5, <1>6, <1>7, <1>10 DEF Engines
<1>12. IdOK(f) /\ PeerOK(f) /\ (KeyOK(e) => KeyOK(f))
  <2>1. \A t \in DOMAIN e.tab : tab[t].id = e.tab[t].id /\ tab[t].key = e.tab[t].key
    BY <1>2, <1>4, <1>8
  <2>2. IdOK(f)
    BY <2>1, <1>5, <1>9 DEF Local, IdOK
  <2>3. PeerOK(f)
    BY <2>1, <1>5, <1>9 DEF Local, PeerOK
  <2>4. KeyOK(e) => KeyOK(f)
    BY <2>1, <1>5, <1>9 DEF KeyOK
  <2> QED BY <2>2, <2>3, <2>4
<1>13. RegOK(f)
  <2> SUFFICES ASSUME NEW t \in DOMAIN e.tab, NEW u \in DOMAIN e.tab, tab[t].reg = tab[u].reg, tab[t].reg # 0
               PROVE  t = u
    BY <1>5, <1>9 DEF RegOK
  <2>1. CASE t # slot /\ u # slot
    BY <2>1, <1>4 DEF Local, RegOK
  <2>2. CASE t = slot \/ u = slot
    <3>1. e.tab[t].reg \in Nat /\ e.tab[u].reg \in Nat
      BY EngineFacts DEF Sessions
    <3> QED BY <2>2, <3>1, <1>2, <1>4
  <2> QED BY <2>1, <2>2
<1>14. ASSUME NEW r \in kept
       PROVE  r \in e.routes /\ r.slot \in DOMAIN e.tab /\ r.slot # slot /\ r.reg # 0 /\ r = RouteOf(tab[r.slot], r.slot)
  <2>1. r \in e.routes /\ r.slot \in DOMAIN e.tab /\ r.reg # 0 /\ r = RouteOf(e.tab[r.slot], r.slot)
    BY <1>6 DEF Local, RouteOK
  <2>2. r.slot # slot
    BY <2>1, <1>6, <1>8 DEF Registration, RouteOf
  <2> QED BY <2>1, <2>2, <1>4
<1>15. RouteOf(x, slot).slot = slot /\ RouteOf(x, slot).reg = reg /\ RouteOf(x, slot).ip = x.dev
       /\ RouteOf(x, slot).worker = x.worker
  BY <1>2 DEF RouteOf
<1>16. RouteOK(f)
  <2>1. ASSUME NEW r \in routes
        PROVE  r.slot \in DOMAIN e.tab /\ r.reg # 0 /\ r = RouteOf(tab[r.slot], r.slot)
    BY <1>4, <1>7, <1>14, <1>15
  <2>2. ASSUME NEW r \in routes, NEW q \in routes, r.ip = q.ip, r.worker = q.worker PROVE r = q
    <3>1. CASE r # RouteOf(x, slot) /\ q # RouteOf(x, slot)
      BY <3>1, <2>2, <1>6, <1>7 DEF Local, RouteOK
    <3>2. CASE r = RouteOf(x, slot) \/ q = RouteOf(x, slot)
      BY <3>2, <2>2, <1>7, <1>15
    <3> QED BY <3>1, <3>2
  <2> QED BY <2>1, <2>2, <1>5, <1>9 DEF RouteOK
<1>17. GenOK(e) /\ OfGen(e, y.dev, y.gen) => GenOK(f)
  <2> SUFFICES ASSUME GenOK(e), OfGen(e, y.dev, y.gen), NEW t \in DOMAIN e.tab, NEW u \in DOMAIN e.tab,
                      tab[t].reg # 0, tab[u].reg # 0, tab[t].dev = tab[u].dev
               PROVE  tab[t].gen = tab[u].gen
    BY <1>5, <1>9 DEF GenOK, TabOf
  <2> QED BY <1>2, <1>4, <1>8 DEF GenOK, OfGen, TabOf
<1>18. ServedOK(e) => ServedOK(f)
  <2> SUFFICES ASSUME ServedOK(e), NEW t \in DOMAIN e.tab, tab[t].reg # 0
               PROVE  \E r \in routes : r.ip = tab[t].dev /\ r.worker = tab[t].worker
    BY <1>5, <1>9 DEF ServedOK
  <2>1. CASE t = slot
    BY <2>1, <1>4, <1>7, <1>15
  <2>2. CASE t # slot
    <3>1. PICK r \in e.routes : r.ip = e.tab[t].dev /\ r.worker = e.tab[t].worker
      BY <2>2, <1>4 DEF ServedOK
    <3>2. CASE r.ip = x.dev /\ r.worker = x.worker
      BY <3>1, <3>2, <2>2, <1>4, <1>7, <1>15
    <3>3. CASE ~(r.ip = x.dev /\ r.worker = x.worker)
      <4>1. ~Registration(r, y)
        <5> SUFFICES ASSUME Registration(r, y) PROVE FALSE
          OBVIOUS
        <5>1. r = RouteOf(y, slot)
          BY <1>8, RouteHolder
        <5> QED BY <5>1, <3>3, <1>2 DEF RouteOf
      <4>2. r.reg # reg
        <5>1. r.slot \in DOMAIN e.tab /\ r = RouteOf(e.tab[r.slot], r.slot)
          BY DEF Local, RouteOK
        <5>2. e.tab[r.slot].reg \in Nat /\ e.tab[r.slot].reg < reg /\ r.reg = e.tab[r.slot].reg
          BY <5>1, EngineFacts DEF Sessions, RouteOf
        <5> QED BY <5>2
      <4>3. r.ip = x.dev => r.reg # x.reg /\ r.worker # x.worker
        BY <4>2, <3>3, <1>2
      <4>4. r \in routes
        BY <4>1, <4>3, <1>6, <1>7
      <4> QED BY <4>4, <3>1, <2>2, <1>4
    <3> QED BY <3>2, <3>3
  <2> QED BY <2>1, <2>2
<1> QED BY <1>4, <1>5, <1>8, <1>9, <1>11, <1>12, <1>13, <1>16, <1>17, <1>18 DEF Local, f, x

(* compact_memory: the sessions are the same, some under another slot, and   *)
(* the indexes and the routes follow them.                                   *)
NewSlot(to, t) == IF t \in DOMAIN to THEN to[t] ELSE t

LEMMA InjectionFacts ==
  ASSUME NEW S, NEW T, NEW to \in Injection(S, T)
  PROVE  DOMAIN to = S /\ (\A t \in S : to[t] \in T) /\ \A t, u \in S : to[t] = to[u] => t = u
BY DEF Injection, IsInjective

LEMMA CompactedFacts ==
  ASSUME NEW e \in Engines, Local(e), NEW to, DOMAIN to \subseteq DOMAIN e.tab,
         to \in Injection(DOMAIN to, Slots \ DOMAIN e.tab)
  PROVE  LET f == Compacted(e, to)
         IN  /\ f \in Engines /\ Local(f) /\ f.marks = e.marks
             /\ \A t \in DOMAIN e.tab : NewSlot(to, t) \in DOMAIN f.tab /\ f.tab[NewSlot(to, t)] = e.tab[t]
             /\ \A v \in DOMAIN f.tab : \E t \in DOMAIN e.tab : v = NewSlot(to, t) /\ f.tab[v] = e.tab[t]
             /\ KeyOK(e) => KeyOK(f)
             /\ ServedOK(e) => ServedOK(f)
<1> DEFINE f == Compacted(e, to)
           N(t) == NewSlot(to, t)
           moved == DOMAIN to
           from(t) == CHOOSE slot \in moved : to[slot] = t
           byKey(k) == {slot \in moved : e.tab[slot].key = k}
           byId(i) == {slot \in moved : e.tab[slot].id = i}
           tab == [t \in (DOMAIN e.tab \ moved) \cup Range(to) |->
                     IF t \in DOMAIN e.tab THEN e.tab[t] ELSE e.tab[from(t)]]
           peer == [k \in DOMAIN e.peer \cup {e.tab[slot].key : slot \in moved} |->
                     IF byKey(k) = {} THEN e.peer[k] ELSE to[CHOOSE slot \in byKey(k) : TRUE]]
           id == [i \in DOMAIN e.id \cup {e.tab[slot].id : slot \in moved} |->
                   IF byId(i) = {} THEN e.id[i] ELSE to[CHOOSE slot \in byId(i) : TRUE]]
           routes == UpdateSlots(e, to)
<1>1. /\ DOMAIN to = moved /\ moved \subseteq DOMAIN e.tab
      /\ \A t \in moved : to[t] \in Slots \ DOMAIN e.tab
      /\ \A t, u \in moved : to[t] = to[u] => t = u
  BY InjectionFacts
<1>2. f = [e EXCEPT !.tab = tab, !.peer = peer, !.id = id, !.routes = routes]
  BY Zenon DEF Compacted
<1> HIDE DEF moved
<1>3. \A v : v \in Range(to) <=> \E t \in moved : v = to[t]
  BY <1>1 DEF Range
<1>4. \A t \in moved : from(to[t]) = t
  BY <1>1
<1>5. DOMAIN tab = (DOMAIN e.tab \ moved) \cup Range(to)
  OBVIOUS
<1>6. /\ \A t \in DOMAIN e.tab \ moved : tab[t] = e.tab[t]
      /\ \A t \in moved : tab[to[t]] = e.tab[t]
  <2>1. \A t \in DOMAIN e.tab \ moved : tab[t] = e.tab[t]
    <3> HIDE DEF from
    <3> QED OBVIOUS
  <2>2. ASSUME NEW t \in moved PROVE tab[to[t]] = e.tab[t]
    <3>1. to[t] \in Range(to) /\ to[t] \notin DOMAIN e.tab
      BY <1>1, <1>3
    <3>2. tab[to[t]] = e.tab[from(to[t])]
      <4> HIDE DEF from
      <4> QED BY <3>1
    <3>3. from(to[t]) = t
      BY <1>4
    <3> HIDE DEF tab, from
    <3> QED BY <3>2, <3>3
  <2> QED BY <2>1, <2>2
<1>7. DOMAIN peer = DOMAIN e.peer \cup {e.tab[slot].key : slot \in moved}
      /\ DOMAIN id = DOMAIN e.id \cup {e.tab[slot].id : slot \in moved}
  OBVIOUS
<1>8. ASSUME NEW k \in DOMAIN e.peer \cup {e.tab[slot].key : slot \in moved}
      PROVE  \E t \in DOMAIN e.tab : e.tab[t].key = k /\ peer[k] = N(t)
  <2>1. CASE byKey(k) = {}
    <3>1. k \in DOMAIN e.peer /\ peer[k] = e.peer[k]
      BY <2>1
    <3>2. e.peer[k] \in DOMAIN e.tab /\ e.tab[e.peer[k]].key = k
      BY <3>1 DEF Local, PeerOK
    <3>3. e.peer[k] \notin moved
      BY <2>1, <3>2
    <3> HIDE DEF peer
    <3> QED BY <3>1, <3>2, <3>3, <1>1 DEF NewSlot
  <2>2. CASE byKey(k) # {}
    <3> DEFINE t == CHOOSE slot \in byKey(k) : TRUE
    <3>1. t \in byKey(k)
      BY <2>2
    <3>2. peer[k] = to[t]
      <4> HIDE DEF byKey
      <4> QED BY <2>2
    <3>3. t \in moved /\ e.tab[t].key = k
      BY <3>1
    <3> HIDE DEF peer, t
    <3> QED BY <3>2, <3>3, <1>1 DEF NewSlot
  <2> QED BY <2>1, <2>2
<1>9. ASSUME NEW i \in DOMAIN e.id \cup {e.tab[slot].id : slot \in moved}
      PROVE  \E t \in DOMAIN e.tab : e.tab[t].id = i /\ id[i] = N(t)
  <2>1. CASE byId(i) = {}
    <3>1. i \in DOMAIN e.id /\ id[i] = e.id[i]
      BY <2>1
    <3>2. e.id[i] \in DOMAIN e.tab /\ e.tab[e.id[i]].id = i
      BY <3>1 DEF Local, IdOK
    <3>3. e.id[i] \notin moved
      BY <2>1, <3>2
    <3> HIDE DEF id
    <3> QED BY <3>1, <3>2, <3>3, <1>1 DEF NewSlot
  <2>2. CASE byId(i) # {}
    <3> DEFINE t == CHOOSE slot \in byId(i) : TRUE
    <3>1. t \in byId(i)
      BY <2>2
    <3>2. id[i] = to[t]
      <4> HIDE DEF byId
      <4> QED BY <2>2
    <3>3. t \in moved /\ e.tab[t].id = i
      BY <3>1
    <3> HIDE DEF id, t
    <3> QED BY <3>2, <3>3, <1>1 DEF NewSlot
  <2> QED BY <2>1, <2>2
<1> HIDE DEF f, tab, peer, id, from, byKey, byId
<1>10. \A t, u \in DOMAIN e.tab : N(t) = N(u) => t = u
  BY <1>1 DEF NewSlot
<1>11. \A t \in DOMAIN e.tab : N(t) \in Slots
  BY <1>1, EngineFacts DEF NewSlot
<1>12. \A t \in DOMAIN e.tab : N(t) \in DOMAIN tab /\ tab[N(t)] = e.tab[t]
  BY <1>1, <1>3, <1>5, <1>6 DEF NewSlot
<1>13. \A v \in DOMAIN tab : \E t \in DOMAIN e.tab : v = N(t) /\ tab[v] = e.tab[t]
  BY <1>1, <1>3, <1>5, <1>6 DEF NewSlot
<1> DEFINE of(r) == {slot \in DOMAIN to : Registration(r, e.tab[slot]) /\ r.id = e.tab[slot].id}
           newRoute(r) == IF of(r) = {} THEN r ELSE [r EXCEPT !.slot = to[CHOOSE slot \in of(r) : TRUE]]
<1>27. routes = {newRoute(r) : r \in e.routes}
  BY Zenon DEF UpdateSlots
<1> HIDE DEF routes
<1>14. ASSUME NEW r \in e.routes
       PROVE  newRoute(r) = RouteOf(e.tab[r.slot], N(r.slot))
  <2>1. r.slot \in DOMAIN e.tab /\ r.reg # 0 /\ r = RouteOf(e.tab[r.slot], r.slot)
    BY DEF Local, RouteOK
  <2>2. ASSUME NEW u \in of(r) PROVE u = r.slot
    <3>1. u \in DOMAIN e.tab /\ Registration(r, e.tab[u])
      BY <1>1
    <3>2. r = RouteOf(e.tab[u], u)
      BY <3>1, RouteHolder
    <3> QED BY <3>2 DEF RouteOf
  <2>3. CASE r.slot \in moved
    <3>1. Registration(r, e.tab[r.slot]) /\ r.id = e.tab[r.slot].id
      BY <2>1 DEF Registration, RouteOf
    <3>2. r.slot \in of(r)
      BY <3>1, <2>3, <1>1
    <3>3. (CHOOSE slot \in of(r) : TRUE) = r.slot
      <4> HIDE DEF of
      <4> QED BY <3>2, <2>2
    <3>4. newRoute(r) = [r EXCEPT !.slot = to[r.slot]]
      <4> HIDE DEF of
      <4> QED BY <3>2, <3>3
    <3>5. N(r.slot) = to[r.slot]
      BY <2>3, <1>1 DEF NewSlot
    <3> HIDE DEF of, newRoute
    <3>6. newRoute(r) = RouteOf(e.tab[r.slot], N(r.slot))
      BY <2>1, <3>4, <3>5 DEF RouteOf
    <3> QED BY <3>6
  <2>4. CASE r.slot \notin moved
    <3>1. of(r) = {}
      <4>1. \A u \in of(r) : u \in moved
        BY <1>1
      <4> HIDE DEF of
      <4> QED BY <2>2, <2>4, <4>1
    <3>2. newRoute(r) = r
      <4> HIDE DEF of
      <4> QED BY <3>1
    <3>5. N(r.slot) = r.slot
      BY <2>4, <1>1 DEF NewSlot
    <3> HIDE DEF of, newRoute
    <3>6. newRoute(r) = RouteOf(e.tab[r.slot], N(r.slot))
      BY <2>1, <3>2, <3>5
    <3> QED BY <3>6
  <2> QED BY <2>3, <2>4
<1> HIDE DEF of, newRoute
<1>15. routes = {RouteOf(e.tab[r.slot], N(r.slot)) : r \in e.routes}
  BY <1>14, <1>27
<1>16. \A r \in e.routes : r.slot \in DOMAIN e.tab /\ r.reg # 0 /\ r = RouteOf(e.tab[r.slot], r.slot)
  BY DEF Local, RouteOK
<1> HIDE DEF routes
<1>17. f.tab = tab /\ f.peer = peer /\ f.id = id /\ f.routes = routes /\ f.marks = e.marks
  BY <1>2 DEF Engines
<1> HIDE DEF N
<1>18. f \in Engines
  <2>1. tab \in Partial(Slots, Sessions)
    <3>1. DOMAIN tab \in SUBSET Slots /\ \A v \in DOMAIN tab : tab[v] \in Sessions
      BY <1>11, <1>13, EngineFacts
    <3>2. tab = [v \in DOMAIN tab |-> tab[v]]
      BY DEF tab
    <3>3. tab \in [DOMAIN tab -> Sessions]
      BY <3>1, <3>2
    <3> QED BY <3>1, <3>3, PartialIs
  <2>2. peer \in Partial(Keys, Slots)
    <3>1. DOMAIN peer \in SUBSET Keys
      <4>1. \A t \in moved : e.tab[t].key \in Keys /\ e.tab[t].id \in Nat
        BY <1>1, EngineFacts DEF Sessions
      <4> QED BY <4>1, <1>7, EngineFacts
    <3>2. \A k \in DOMAIN peer : peer[k] \in Slots
      BY <1>7, <1>8, <1>11
    <3>3. peer = [k \in DOMAIN peer |-> peer[k]]
      BY DEF peer
    <3>4. peer \in [DOMAIN peer -> Slots]
      BY <3>2, <3>3
    <3> QED BY <3>1, <3>4, PartialIs
  <2>3. id \in Partial(Nat, Slots)
    <3>1. DOMAIN id \in SUBSET Nat
      <4>1. \A t \in moved : e.tab[t].key \in Keys /\ e.tab[t].id \in Nat
        BY <1>1, EngineFacts DEF Sessions
      <4> QED BY <4>1, <1>7, EngineFacts
    <3>2. \A i \in DOMAIN id : id[i] \in Slots
      BY <1>7, <1>9, <1>11
    <3>3. id = [i \in DOMAIN id |-> id[i]]
      BY DEF id
    <3>4. id \in [DOMAIN id -> Slots]
      BY <3>2, <3>3
    <3> QED BY <3>1, <3>4, PartialIs
  <2>4. routes \subseteq Routes
    <3>1. ASSUME NEW r \in e.routes PROVE RouteOf(e.tab[r.slot], N(r.slot)) \in Routes
      <4>1. e.tab[r.slot] \in Sessions /\ N(r.slot) \in Slots
        BY <1>11, <1>16, EngineFacts
      <4> QED BY <4>1 DEF RouteOf, Routes, Sessions
    <3> QED BY <3>1, <1>15
  <2> QED BY <2>1, <2>2, <2>3, <2>4, <1>2 DEF Engines
<1>19. IdOK(f)
  <2>1. ASSUME NEW v \in DOMAIN tab PROVE tab[v].id \in DOMAIN id /\ id[tab[v].id] = v
    <3>1. PICK t \in DOMAIN e.tab : v = N(t) /\ tab[v] = e.tab[t]
      BY <1>13
    <3>2. e.tab[t].id \in DOMAIN e.id /\ e.id[e.tab[t].id] = t
      BY DEF Local, IdOK
    <3>3. PICK u \in DOMAIN e.tab : e.tab[u].id = e.tab[t].id /\ id[e.tab[t].id] = N(u)
      BY <3>2, <1>9
    <3>4. u = t
      BY <3>2, <3>3 DEF Local, IdOK
    <3> QED BY <3>1, <3>2, <3>3, <3>4, <1>7
  <2>2. ASSUME NEW i \in DOMAIN id PROVE id[i] \in DOMAIN tab /\ tab[id[i]].id = i
    BY <1>7, <1>9, <1>12
  <2> QED BY <2>1, <2>2, <1>17 DEF IdOK
<1>20. PeerOK(f)
  BY <1>7, <1>8, <1>12, <1>17 DEF PeerOK
<1>21. KeyOK(e) => KeyOK(f)
  <2> SUFFICES ASSUME KeyOK(e), NEW v \in DOMAIN tab PROVE tab[v].key \in DOMAIN peer /\ peer[tab[v].key] = v
    BY <1>17 DEF KeyOK
  <2>1. PICK t \in DOMAIN e.tab : v = N(t) /\ tab[v] = e.tab[t]
    BY <1>13
  <2>2. e.tab[t].key \in DOMAIN e.peer /\ e.peer[e.tab[t].key] = t
    BY DEF KeyOK
  <2>3. PICK u \in DOMAIN e.tab : e.tab[u].key = e.tab[t].key /\ peer[e.tab[t].key] = N(u)
    BY <2>2, <1>8
  <2>4. u = t
    BY <2>2, <2>3 DEF KeyOK
  <2> QED BY <2>1, <2>2, <2>3, <2>4, <1>7
<1>22. RegOK(f)
  BY <1>10, <1>13, <1>17 DEF Local, RegOK
<1>23. RouteOK(f)
  <2>1. ASSUME NEW q \in routes
        PROVE  /\ q.slot \in DOMAIN tab /\ q.reg # 0 /\ q = RouteOf(tab[q.slot], q.slot)
               /\ \E r \in e.routes : q.ip = r.ip /\ q.worker = r.worker /\ q = RouteOf(e.tab[r.slot], N(r.slot))
    <3>1. PICK r \in e.routes : q = RouteOf(e.tab[r.slot], N(r.slot))
      BY <1>15
    <3>2. q.slot = N(r.slot) /\ q.reg = e.tab[r.slot].reg /\ q.ip = e.tab[r.slot].dev /\ q.worker = e.tab[r.slot].worker
      BY <3>1 DEF RouteOf
    <3>3. r.slot \in DOMAIN e.tab /\ r.reg # 0 /\ r.reg = e.tab[r.slot].reg /\ r.ip = e.tab[r.slot].dev
          /\ r.worker = e.tab[r.slot].worker
      BY <1>16 DEF RouteOf
    <3> QED BY <3>1, <3>2, <3>3, <1>12
  <2>2. ASSUME NEW q \in routes, NEW p \in routes, q.ip = p.ip, q.worker = p.worker PROVE q = p
    <3>1. PICK r \in e.routes : q.ip = r.ip /\ q.worker = r.worker /\ q = RouteOf(e.tab[r.slot], N(r.slot))
      BY <2>1
    <3>2. PICK w \in e.routes : p.ip = w.ip /\ p.worker = w.worker /\ p = RouteOf(e.tab[w.slot], N(w.slot))
      BY <2>1
    <3>3. r = w
      BY <3>1, <3>2, <2>2 DEF Local, RouteOK
    <3> QED BY <3>1, <3>2, <3>3
  <2> QED BY <2>1, <2>2, <1>17 DEF RouteOK
<1>24. ServedOK(e) => ServedOK(f)
  <2> SUFFICES ASSUME ServedOK(e), NEW v \in DOMAIN tab, tab[v].reg # 0
               PROVE  \E r \in routes : r.ip = tab[v].dev /\ r.worker = tab[v].worker
    BY <1>17 DEF ServedOK
  <2>1. PICK t \in DOMAIN e.tab : v = N(t) /\ tab[v] = e.tab[t]
    BY <1>13
  <2>2. PICK r \in e.routes : r.ip = e.tab[t].dev /\ r.worker = e.tab[t].worker
    BY <2>1 DEF ServedOK
  <2>3. RouteOf(e.tab[r.slot], N(r.slot)) \in routes
    BY <1>15
  <2>4. r.ip = e.tab[r.slot].dev /\ r.worker = e.tab[r.slot].worker
    BY <1>16 DEF RouteOf
  <2> QED BY <2>1, <2>2, <2>3, <2>4 DEF RouteOf
<1>25. /\ \A t \in DOMAIN e.tab : NewSlot(to, t) \in DOMAIN f.tab /\ f.tab[NewSlot(to, t)] = e.tab[t]
       /\ \A v \in DOMAIN f.tab : \E t \in DOMAIN e.tab : v = NewSlot(to, t) /\ f.tab[v] = e.tab[t]
  BY <1>12, <1>13, <1>17 DEF N
<1>26. Local(f)
  BY <1>19, <1>20, <1>22, <1>23 DEF Local
<1> QED BY <1>17, <1>18, <1>21, <1>24, <1>25, <1>26 DEF f

-------------------------------------------------------------------------------
(* Queues                                                                    *)

LEMMA TailFacts ==
  ASSUME NEW S, NEW q \in Seq(S), q # <<>>
  PROVE  /\ Tail(q) \in Seq(S) /\ Len(q) \in Nat \ {0} /\ Len(Tail(q)) = Len(q) - 1
         /\ DOMAIN q = 1 .. Len(q) /\ DOMAIN Tail(q) = 1 .. Len(q) - 1
         /\ 1 \in DOMAIN q /\ Head(q) = q[1] /\ Head(q) \in S
         /\ \A i \in DOMAIN Tail(q) : i \in Nat /\ i + 1 \in DOMAIN q /\ Tail(q)[i] = q[i + 1]
         /\ \A i \in DOMAIN q : q[i] \in S /\ (i = 1 \/ (i - 1 \in DOMAIN Tail(q) /\ Tail(q)[i - 1] = q[i]))
OBVIOUS

LEMMA AppendFacts ==
  ASSUME NEW S, NEW q \in Seq(S), NEW m \in S
  PROVE  /\ Append(q, m) \in Seq(S) /\ Len(q) \in Nat /\ Len(Append(q, m)) = Len(q) + 1
         /\ DOMAIN q = 1 .. Len(q) /\ DOMAIN Append(q, m) = 1 .. Len(q) + 1
         /\ Append(q, m)[Len(q) + 1] = m
         /\ \A i \in DOMAIN q : q[i] \in S /\ i \in DOMAIN Append(q, m) /\ Append(q, m)[i] = q[i]
         /\ \A i \in DOMAIN Append(q, m) : i \in DOMAIN q \/ i = Len(q) + 1
OBVIOUS

LEMMA CarriedIs ==
  ASSUME NEW q, NEW kind, NEW x
  PROVE  x \in Carried(q, kind) <=> \E i \in DOMAIN q : q[i].kind = kind /\ x = q[i].x
BY DEF Carried

(* What a queue carries after a message was taken from it or put into it.    *)
LEMMA TailCarried ==
  ASSUME NEW S, NEW q \in Seq(S), q # <<>>, NEW kind, Once(q, kind)
  PROVE  /\ Once(Tail(q), kind)
         /\ Head(q).kind # kind => Carried(Tail(q), kind) = Carried(q, kind)
         /\ Head(q).kind = kind => /\ Carried(q, kind) = Carried(Tail(q), kind) \cup {Head(q).x}
                                   /\ \A y \in Carried(Tail(q), kind) : y.id # Head(q).x.id
<1> DEFINE T == Tail(q)
           C(r) == Carried(r, kind)
<1>1. /\ 1 \in DOMAIN q /\ Head(q) = q[1]
      /\ \A i \in DOMAIN T : i \in Nat /\ i + 1 \in DOMAIN q /\ T[i] = q[i + 1]
      /\ \A i \in DOMAIN q : i = 1 \/ (i - 1 \in DOMAIN T /\ T[i - 1] = q[i])
      /\ DOMAIN T \subseteq Nat \ {0} /\ DOMAIN q \subseteq Nat
  BY TailFacts
<1> HIDE DEF T
<1>2. \A x : x \in C(T) <=> \E i \in DOMAIN T : T[i].kind = kind /\ x = T[i].x
  BY CarriedIs
<1>3. \A x : x \in C(q) <=> \E i \in DOMAIN q : q[i].kind = kind /\ x = q[i].x
  BY CarriedIs
<1> HIDE DEF C
<1>4. C(T) \subseteq C(q) /\ \A x \in C(q) : x \in C(T) \/ (q[1].kind = kind /\ x = q[1].x)
  BY <1>1, <1>2, <1>3
<1>5. Once(T, kind)
  BY <1>1 DEF Once
<1>6. q[1].kind = kind => \A y \in C(T) : y.id # q[1].x.id
  BY <1>1, <1>2 DEF Once
<1>7. q[1].kind = kind => q[1].x \in C(q)
  BY <1>1, <1>3
<1> QED BY <1>1, <1>4, <1>5, <1>6, <1>7 DEF T, C

LEMMA AppendCarried ==
  ASSUME NEW S, NEW q \in Seq(S), NEW m \in S, NEW kind, Once(q, kind)
  PROVE  /\ m.kind # kind => Carried(Append(q, m), kind) = Carried(q, kind) /\ Once(Append(q, m), kind)
         /\ m.kind = kind => /\ Carried(Append(q, m), kind) = Carried(q, kind) \cup {m.x}
                             /\ (\A y \in Carried(q, kind) : y.id # m.x.id) => Once(Append(q, m), kind)
<1> DEFINE A == Append(q, m)
           C(r) == Carried(r, kind)
           n == Len(q) + 1
<1>1. /\ n \in DOMAIN A /\ A[n] = m /\ n \notin DOMAIN q
      /\ \A i \in DOMAIN q : i \in DOMAIN A /\ A[i] = q[i]
      /\ \A i \in DOMAIN A : i \in DOMAIN q \/ i = n
  BY AppendFacts
<1> HIDE DEF A
<1>2. \A x : x \in C(A) <=> \E i \in DOMAIN A : A[i].kind = kind /\ x = A[i].x
  BY CarriedIs
<1>3. \A x : x \in C(q) <=> \E i \in DOMAIN q : q[i].kind = kind /\ x = q[i].x
  BY CarriedIs
<1> HIDE DEF C, n
<1>4. /\ m.kind # kind => C(A) = C(q)
      /\ m.kind = kind => C(A) = C(q) \cup {m.x}
  <2>1. \A x : x \in C(A) <=> x \in C(q) \/ (m.kind = kind /\ x = m.x)
    BY <1>1, <1>2, <1>3
  <2> QED BY <2>1
<1>5. m.kind # kind \/ (\A y \in C(q) : y.id # m.x.id) => Once(A, kind)
  BY <1>1, <1>3 DEF Once
<1> QED BY <1>4, <1>5 DEF A, C

-------------------------------------------------------------------------------
(* The steps, taken apart                                                    *)

LEMMA GetconfFacts ==
  ASSUME NEW m \in Getconfs
  PROVE  /\ m.kind = "getconf" /\ m.key \in Keys /\ m.dev \in Devices /\ m.gen \in Gens /\ m.worker \in Workers
         /\ m \in Inputs
BY SessionAssumption DEF Gens, Workers, Inputs

LEMMA InputKinds ==
  ASSUME NEW m \in Inputs
  PROVE  /\ m.kind = "getconf" <=> m \in Getconfs
         /\ m.kind = "adopt" <=> m \in Adopts
         /\ m.kind = "epoch" <=> m \in Epochs
         /\ m.kind = "activate" <=> m \in Activates
BY GetconfFacts DEF Inputs, Adopts, Epochs, Activates

LEMMA OutputKinds ==
  ASSUME NEW m \in Outputs
  PROVE  /\ m.kind = "bind" <=> m \in Binds
         /\ m.kind = "tunnel" <=> m \in Tunnels
         /\ m.kind = "migrate" <=> m \in Migrations
         /\ m.kind \in {"bind", "tunnel", "migrate"}
BY DEF Outputs, Binds, Tunnels, Migrations

LEMMA QueueTypes ==
  ASSUME Types, NEW s \in Shards
  PROVE  /\ input[s] \in Seq(Inputs) /\ output[s] \in Seq(Outputs)
         /\ \A i \in DOMAIN input[s] : i \in Nat \ {0} /\ input[s][i] \in Inputs
         /\ \A i \in DOMAIN output[s] : i \in Nat \ {0} /\ output[s][i] \in Outputs
BY DEF Types

LEMMA HeadFacts ==
  ASSUME Types, NEW s \in Shards, NEW kind, Heads(s, kind)
  PROVE  /\ input[s] \in Seq(Inputs) /\ input[s] # <<>> /\ 1 \in DOMAIN input[s]
         /\ Head(input[s]) = input[s][1] /\ Head(input[s]) \in Inputs /\ Head(input[s]).kind = kind
<1>1. input[s] \in Seq(Inputs) /\ input[s] # <<>> /\ Head(input[s]).kind = kind
  BY DEF Types, Heads
<1> QED BY <1>1, TailFacts

LEMMA ConsumeFacts ==
  ASSUME Types, NEW s \in Shards, input[s] # <<>>, Consume(s)
  PROVE  /\ input' \in [Shards -> Seq(Inputs)] /\ \A u \in Shards : Len(input'[u]) <= InputCap
         /\ input'[s] = Tail(input[s]) /\ \A u \in Shards \ {s} : input'[u] = input[u]
<1>1. input[s] \in Seq(Inputs) /\ Len(input[s]) <= InputCap /\ input \in [Shards -> Seq(Inputs)] /\ InputCap \in Nat
  BY SessionAssumption DEF Types
<1>2. Tail(input[s]) \in Seq(Inputs) /\ Len(Tail(input[s])) = Len(input[s]) - 1 /\ Len(input[s]) \in Nat
  BY <1>1, TailFacts
<1>3. input'[s] = Tail(input[s]) /\ \A u \in Shards \ {s} : input'[u] = input[u]
  BY <1>1 DEF Consume
<1>4. input' \in [Shards -> Seq(Inputs)]
  BY <1>1, <1>2 DEF Consume
<1>5. Len(Tail(input[s])) <= InputCap
  BY <1>1, <1>2
<1> QED BY <1>3, <1>4, <1>5 DEF Types

LEMMA EmitFacts ==
  ASSUME Types, NEW s \in Shards, NEW m \in Outputs, Emit(s, m)
  PROVE  /\ output' \in [Shards -> Seq(Outputs)] /\ \A u \in Shards : Len(output'[u]) <= OutputCap
         /\ \A u \in Shards \ {s} : output'[u] = output[u]
         /\ lost' \in BOOLEAN /\ (~lost' => ~lost)
         /\ \/ Room(output[s], OutputCap) /\ output'[s] = Append(output[s], m)
            \/ ~Room(output[s], OutputCap) /\ output'[s] = output[s] /\ lost'
<1>1. output[s] \in Seq(Outputs) /\ Len(output[s]) <= OutputCap /\ output \in [Shards -> Seq(Outputs)]
      /\ OutputCap \in Nat /\ lost \in BOOLEAN
  BY SessionAssumption DEF Types
<1>2. Append(output[s], m) \in Seq(Outputs) /\ Len(Append(output[s], m)) = Len(output[s]) + 1 /\ Len(output[s]) \in Nat
  BY <1>1, AppendFacts
<1>3. /\ \A u \in Shards \ {s} : output'[u] = output[u]
      /\ output'[s] = TrySend(output[s], m, OutputCap)
  BY <1>1 DEF Emit
<1>4. TrySend(output[s], m, OutputCap) \in Seq(Outputs) /\ Len(TrySend(output[s], m, OutputCap)) <= OutputCap
  <2>1. CASE Room(output[s], OutputCap)
    BY <2>1, <1>1, <1>2 DEF TrySend, Room
  <2>2. CASE ~Room(output[s], OutputCap)
    BY <2>2, <1>1 DEF TrySend
  <2> QED BY <2>1, <2>2
<1>5. output' \in [Shards -> Seq(Outputs)]
  <2> HIDE DEF TrySend
  <2> QED BY <1>1, <1>4 DEF Emit
<1>6. lost' \in BOOLEAN /\ (~lost' => ~lost) /\ (~Room(output[s], OutputCap) => lost')
  BY <1>1 DEF Emit
<1> QED BY <1>3, <1>4, <1>5, <1>6 DEF Types, TrySend

LEMMA FanoutFacts ==
  ASSUME Types, NEW m \in Inputs, Fanout(m)
  PROVE  /\ input' \in [Shards -> Seq(Inputs)] /\ \A u \in Shards : Len(input'[u]) <= InputCap
         /\ lost' \in BOOLEAN /\ (~lost' => ~lost)
         /\ \A u \in Shards : input'[u] = Append(input[u], m) \/ (lost' /\ input'[u] = input[u])
<1>1. ASSUME NEW u \in Shards
      PROVE  /\ TrySend(input[u], m, InputCap) \in Seq(Inputs) /\ Len(TrySend(input[u], m, InputCap)) <= InputCap
             /\ \/ Room(input[u], InputCap) /\ TrySend(input[u], m, InputCap) = Append(input[u], m)
                \/ ~Room(input[u], InputCap) /\ TrySend(input[u], m, InputCap) = input[u]
  <2>1. input[u] \in Seq(Inputs) /\ Len(input[u]) <= InputCap /\ InputCap \in Nat
    BY SessionAssumption DEF Types
  <2>2. Append(input[u], m) \in Seq(Inputs) /\ Len(Append(input[u], m)) = Len(input[u]) + 1 /\ Len(input[u]) \in Nat
    BY <2>1, AppendFacts
  <2>3. CASE Room(input[u], InputCap)
    BY <2>1, <2>2, <2>3 DEF TrySend, Room
  <2>4. CASE ~Room(input[u], InputCap)
    BY <2>1, <2>4 DEF TrySend
  <2> QED BY <2>3, <2>4
<1>2. /\ lost \in BOOLEAN /\ lost' = (lost \/ \E u \in Shards : ~Room(input[u], InputCap))
      /\ input' = [u \in Shards |-> TrySend(input[u], m, InputCap)]
  BY DEF Types, Fanout
<1>3. lost' \in BOOLEAN /\ (~lost' => ~lost) /\ \A u \in Shards : ~Room(input[u], InputCap) => lost'
  BY <1>2
<1> QED BY <1>1, <1>2, <1>3

-------------------------------------------------------------------------------
(* What the shards' steps do to their tables                                 *)

\* f holds a part of the sessions of e and otherwise agrees with it.
Part(f, e) ==
  /\ f \in Engines /\ Local(f) /\ f.marks = e.marks
  /\ DOMAIN f.tab \subseteq DOMAIN e.tab /\ \A t \in DOMAIN f.tab : f.tab[t] = e.tab[t]
  /\ DOMAIN f.peer \subseteq DOMAIN e.peer
  /\ KeyOK(e) => KeyOK(f)
  /\ GenOK(e) /\ ServedOK(e) => ServedOK(f)

LEMMA PartTable ==
  ASSUME NEW e, NEW f, Part(f, e)
  PROVE  TabOf(f) \subseteq TabOf(e) /\ (GenOK(e) => GenOK(f))
<1>1. TabOf(f) \subseteq TabOf(e)
  BY DEF Part, TabOf
<1> QED BY <1>1 DEF GenOK

LEMMA PartSelf ==
  ASSUME NEW e \in Engines, Local(e)
  PROVE  Part(e, e)
BY DEF Part

LEMMA Removed ==
  ASSUME NEW e \in Engines, Local(e), NEW slots, NEW B \in Nat, \A x \in TabOf(e) : x.id <= B
  PROVE  /\ Part(Remove(e, slots), e)
         /\ DOMAIN Remove(e, slots).tab = DOMAIN e.tab \ slots
         /\ \A t \in slots \cap DOMAIN e.tab : e.tab[t].key \notin DOMAIN Remove(e, slots).peer
<1> DEFINE f == Remove(e, slots)
<1>1. \A t \in DOMAIN e.tab : e.tab[t].id <= B
  BY DEF TabOf
<1>2. /\ f \in Engines /\ Local(f) /\ f.marks = e.marks
      /\ DOMAIN f.tab = DOMAIN e.tab \ slots
      /\ \A t \in DOMAIN e.tab \ slots : f.tab[t] = e.tab[t]
      /\ DOMAIN f.peer \subseteq DOMAIN e.peer
      /\ \A t \in slots \cap DOMAIN e.tab : e.tab[t].key \notin DOMAIN f.peer
      /\ KeyOK(e) => KeyOK(f)
      /\ GenOK(e) /\ ServedOK(e) => ServedOK(f)
  BY <1>1, RemoveFacts
<1> HIDE DEF f
<1>3. Part(f, e)
  BY <1>2 DEF Part
<1> QED BY <1>2, <1>3 DEF f

LEMMA MarksFacts ==
  ASSUME NEW e \in Engines, Local(e), NEW M \in SUBSET Keys
  PROVE  LET f == [e EXCEPT !.marks = M]
         IN  /\ f \in Engines /\ Local(f) /\ f.marks = M /\ f.tab = e.tab /\ TabOf(f) = TabOf(e)
             /\ (KeyOK(e) => KeyOK(f)) /\ (ServedOK(e) => ServedOK(f))
<1> DEFINE f == [e EXCEPT !.marks = M]
<1>1. f \in Engines /\ f.tab = e.tab /\ f.peer = e.peer /\ f.id = e.id /\ f.routes = e.routes /\ f.marks = M
  BY DEF Engines
<1> HIDE DEF f
<1>2. Local(f) /\ TabOf(f) = TabOf(e) /\ (KeyOK(e) => KeyOK(f)) /\ (ServedOK(e) => ServedOK(f))
  BY <1>1 DEF Local, IdOK, PeerOK, RouteOK, RegOK, KeyOK, ServedOK, TabOf
<1> QED BY <1>1, <1>2 DEF f

(* A session filed in a table: it is the only new one.                       *)
LEMMA Inserted ==
  ASSUME NEW e \in Engines, Local(e), NEW x \in Sessions, NEW slot \in Slots \ DOMAIN e.tab,
         x.reg = 0, \A y \in TabOf(e) : y.id # x.id
  PROVE  LET f == Insert(e, x, slot)
         IN  /\ f \in Engines /\ Local(f) /\ f.marks = e.marks /\ TabOf(f) = TabOf(e) \cup {x}
             /\ KeyOK(e) /\ x.key \notin DOMAIN e.peer => KeyOK(f)
             /\ ServedOK(e) => ServedOK(f)
<1> DEFINE f == Insert(e, x, slot)
<1>1. x.id \notin DOMAIN e.id
  BY DEF Local, IdOK, TabOf
<1>2. /\ f \in Engines /\ Local(f)
      /\ f.routes = e.routes /\ f.marks = e.marks
      /\ DOMAIN f.tab = DOMAIN e.tab \cup {slot} /\ f.tab[slot] = x
      /\ \A t \in DOMAIN e.tab : f.tab[t] = e.tab[t]
      /\ KeyOK(e) /\ x.key \notin DOMAIN e.peer => KeyOK(f)
  BY <1>1, InsertFacts
<1> HIDE DEF f
<1>3. TabOf(f) = TabOf(e) \cup {x}
  BY <1>2 DEF TabOf
<1>4. ServedOK(e) => ServedOK(f)
  BY <1>2 DEF ServedOK
<1> QED BY <1>2, <1>3, <1>4 DEF f

NewSession(m) == [id |-> ids + 1, key |-> m.key, dev |-> m.dev, gen |-> m.gen, worker |-> m.worker, reg |-> 0]
Migrate(m) == [kind |-> "migrate", key |-> m.key, shard |-> Home[m.dev], x |-> NewSession(m)]

\* The new session of a GETCONF leaves for its home, or stays on the shard.
Leaves(s, m, e, f) ==
  /\ Home[m.dev] # s /\ TabOf(f) = TabOf(e) /\ f.marks = eng[s].marks \cup {m.key}
  /\ Emit(s, Migrate(m)) /\ Room(output[s], OutputCap) /\ jobs' = jobs
Stays(s, m, e, f) ==
  /\ TabOf(f) = TabOf(e) \cup {NewSession(m)} /\ f.marks \in {eng[s].marks, eng[s].marks \ {m.key}}
  /\ Emit(s, Bind(m.key, s)) /\ Publish(NewSession(m)) /\ (~lost' => Home[m.dev] = s)

\* e: the table without the session that was replaced.
Created(s, m, e, f) ==
  /\ Part(e, eng[s]) /\ m.key \notin DOMAIN e.peer
  /\ (m.key \notin eng[s].marks /\ TabOf(e) = TabOf(eng[s])) \/ m.key \in DOMAIN eng[s].peer
  /\ f \in Engines /\ Local(f) /\ (KeyOK(e) => KeyOK(f)) /\ (ServedOK(e) => ServedOK(f))
  /\ eng' = [eng EXCEPT ![s] = f] /\ ids' = ids + 1
  /\ Leaves(s, m, e, f) \/ Stays(s, m, e, f)

LEMMA NewFacts ==
  ASSUME Types, NEW m \in Getconfs
  PROVE  /\ NewSession(m) \in Sessions /\ Migrate(m) \in Migrations
         /\ NewSession(m).id = ids + 1 /\ NewSession(m).reg = 0 /\ NewSession(m).key = m.key
         /\ NewSession(m).dev = m.dev /\ NewSession(m).gen = m.gen
<1>1. m.key \in Keys /\ m.dev \in Devices /\ m.gen \in Gens /\ m.worker \in Workers /\ Home[m.dev] \in Shards
  BY GetconfFacts, SessionAssumption
<1>2. ids + 1 \in Nat
  BY DEF Types
<1> QED BY <1>1, <1>2 DEF NewSession, Migrate, Sessions, Migrations

LEMMA PlaceFacts ==
  ASSUME Types, NEW s \in Shards, NEW m \in Getconfs, NEW e, Part(e, eng[s]), m.key \notin DOMAIN e.peer,
         (m.key \notin eng[s].marks /\ TabOf(e) = TabOf(eng[s])) \/ m.key \in DOMAIN eng[s].peer,
         \A x \in TabOf(eng[s]) : x.id <= ids, CreateAndPlace(s, e, m)
  PROVE  \E f : Created(s, m, e, f)
<1> DEFINE x == NewSession(m)
           away == Home[m.dev] # s /\ Room(output[s], OutputCap)
<1>1. /\ x \in Sessions /\ x.id = ids + 1 /\ x.reg = 0 /\ x.key = m.key /\ m.key \in Keys
  BY NewFacts, GetconfFacts
<1>2. e \in Engines /\ Local(e) /\ e.marks = eng[s].marks /\ e.marks \subseteq Keys
  BY EngineFacts DEF Part
<1>3. \A y \in TabOf(e) : y.id # x.id
  <2>1. \A y \in TabOf(e) : y.id <= ids
    BY PartTable
  <2>2. \A y \in TabOf(e) : y.id \in Nat
    BY <1>2, EngineFacts DEF TabOf, Sessions
  <2> HIDE DEF x
  <2> QED BY <1>1, <2>1, <2>2 DEF Types
<1>4. /\ ids' = ids + 1
      /\ IF away
         THEN /\ eng' = [eng EXCEPT ![s] = [e EXCEPT !.marks = @ \cup {m.key}]]
              /\ Emit(s, Migrate(m)) /\ UNCHANGED jobs
         ELSE /\ \E slot \in Slots \ DOMAIN e.tab :
                   eng' = [eng EXCEPT ![s] = IF Home[m.dev] = s THEN Insert(e, x, slot)
                                             ELSE [Insert(e, x, slot) EXCEPT !.marks = @ \ {m.key}]]
              /\ Emit(s, Bind(m.key, s)) /\ Publish(x)
  BY Zenon DEF CreateAndPlace, NewSession, Migrate
<1> HIDE DEF x
<1>5. CASE away
  <2> DEFINE f == [e EXCEPT !.marks = e.marks \cup {m.key}]
  <2>1. /\ f \in Engines /\ Local(f) /\ f.marks = eng[s].marks \cup {m.key} /\ TabOf(f) = TabOf(e)
        /\ (KeyOK(e) => KeyOK(f)) /\ (ServedOK(e) => ServedOK(f))
    BY <1>1, <1>2, MarksFacts
  <2>2. [e EXCEPT !.marks = @ \cup {m.key}] = f
    OBVIOUS
  <2>3. eng' = [eng EXCEPT ![s] = f]
    BY <1>4, <1>5, <2>2
  <2> HIDE DEF f
  <2>4. Leaves(s, m, e, f)
    BY <1>4, <1>5, <2>1 DEF Leaves
  <2> QED BY <2>1, <2>3, <2>4, <1>4 DEF Created
<1>6. CASE ~away
  <2>1. PICK slot \in Slots \ DOMAIN e.tab :
          eng' = [eng EXCEPT ![s] = IF Home[m.dev] = s THEN Insert(e, x, slot)
                                    ELSE [Insert(e, x, slot) EXCEPT !.marks = @ \ {m.key}]]
    BY <1>4, <1>6
  <2> DEFINE g == Insert(e, x, slot)
             M == IF Home[m.dev] = s THEN e.marks ELSE e.marks \ {m.key}
             f == [g EXCEPT !.marks = M]
  <2>2. /\ g \in Engines /\ Local(g) /\ g.marks = e.marks /\ TabOf(g) = TabOf(e) \cup {x}
        /\ KeyOK(e) => KeyOK(g)
        /\ ServedOK(e) => ServedOK(g)
    BY <1>1, <1>2, <1>3, Inserted
  <2> HIDE DEF g
  <2>3. M \in SUBSET Keys /\ M \in {eng[s].marks, eng[s].marks \ {m.key}}
    BY <1>2
  <2>4. eng' = [eng EXCEPT ![s] = f]
    <3>1. CASE Home[m.dev] = s
      <4>1. f = g
        BY <3>1, <2>2 DEF Engines
      <4> QED BY <4>1, <3>1, <2>1 DEF g
    <3>2. CASE Home[m.dev] # s
      <4>1. f = [g EXCEPT !.marks = @ \ {m.key}]
        BY <3>2, <2>2
      <4> HIDE DEF f
      <4> QED BY <4>1, <3>2, <2>1 DEF g
    <3> QED BY <3>1, <3>2
  <2> HIDE DEF M
  <2>5. /\ f \in Engines /\ Local(f) /\ f.marks = M /\ TabOf(f) = TabOf(e) \cup {x}
        /\ (KeyOK(e) => KeyOK(f)) /\ (ServedOK(e) => ServedOK(f))
    BY <2>2, <2>3, MarksFacts
  <2> HIDE DEF f
  <2>6. ~lost' => Home[m.dev] = s
    <3>1. Bind(m.key, s) \in Outputs
      BY <1>1 DEF Bind, Outputs, Binds
    <3>2. Room(output[s], OutputCap) \/ lost'
      BY <1>4, <1>6, <3>1, EmitFacts
    <3> QED BY <3>2, <1>6
  <2>7. Stays(s, m, e, f)
    BY <1>4, <1>6, <2>3, <2>5, <2>6 DEF Stays, x
  <2> QED BY <2>4, <2>5, <2>7, <1>4 DEF Created
<1> QED BY <1>5, <1>6

(* Both ways to a new session: an unknown endpoint, and one that is replaced.*)
CreateStep(s) == OnUdpUnknown(s) \/ OnUdpReplace(s)

LEMMA CreateFacts ==
  ASSUME Types, NEW s \in Shards, Local(eng[s]), \A x \in TabOf(eng[s]) : x.id <= ids, CreateStep(s)
  PROVE  /\ Heads(s, "getconf") /\ Consume(s) /\ UNCHANGED <<router, regs>>
         /\ Head(input[s]) \in Getconfs
         /\ \E e, f : Created(s, Head(input[s]), e, f)
<1> DEFINE m == Head(input[s])
<1>1. Heads(s, "getconf") /\ Consume(s) /\ UNCHANGED <<router, regs>>
  BY DEF CreateStep, OnUdpUnknown, OnUdpReplace
<1>2. m \in Getconfs
  BY <1>1, HeadFacts, InputKinds
<1>3. eng[s] \in Engines
  BY DEF Types
<1>4. CASE OnUdpUnknown(s)
  <2>1. m.key \notin DOMAIN eng[s].peer \cup eng[s].marks /\ CreateAndPlace(s, eng[s], m)
    BY <1>4 DEF OnUdpUnknown
  <2>2. Part(eng[s], eng[s])
    BY <1>3, PartSelf
  <2> QED BY <1>1, <1>2, <2>1, <2>2, PlaceFacts
<1>5. CASE OnUdpReplace(s)
  <2> DEFINE e == Remove(eng[s], {eng[s].peer[m.key]})
  <2>1. m.key \in DOMAIN eng[s].peer /\ CreateAndPlace(s, e, m)
    BY <1>5 DEF OnUdpReplace
  <2>2. eng[s].peer[m.key] \in DOMAIN eng[s].tab /\ eng[s].tab[eng[s].peer[m.key]].key = m.key
    BY <2>1 DEF Local, PeerOK
  <2>3. Part(e, eng[s]) /\ m.key \notin DOMAIN e.peer
    BY <1>3, <2>2, Removed DEF Types
  <2> HIDE DEF e
  <2> QED BY <1>1, <1>2, <2>1, <2>3, PlaceFacts
<1> QED BY <1>4, <1>5 DEF CreateStep

DropStep(s) ==
  OnEpoch(s) \/ (\E d \in Devices : OnDisconnect(s, d)) \/ (\E slot \in Slots : DropSession(s, slot))

LEMMA DropFacts ==
  ASSUME Types, NEW s \in Shards, Local(eng[s]), \A x \in TabOf(eng[s]) : x.id <= ids, DropStep(s)
  PROVE  /\ UNCHANGED <<output, router, jobs, ids, regs, lost>>
         /\ input' = input \/ (Heads(s, "epoch") /\ Consume(s))
         /\ \E f : /\ eng' = [eng EXCEPT ![s] = f] /\ Part(f, eng[s])
                   /\ input' # input =>
                        \A x \in TabOf(f) : x.dev = Head(input[s]).dev => x.gen = Head(input[s]).gen
<1>1. eng[s] \in Engines /\ ids \in Nat
  BY DEF Types
<1>2. \A slots : Part(Remove(eng[s], slots), eng[s])
  BY <1>1, Removed
<1>3. CASE OnEpoch(s)
  <2> DEFINE m == Head(input[s])
             slots == {slot \in DOMAIN eng[s].tab : eng[s].tab[slot].dev = m.dev /\ eng[s].tab[slot].gen # m.gen}
             f == Remove(eng[s], slots)
  <2>1. eng' = [eng EXCEPT ![s] = f]
    BY <1>3 DEF OnEpoch, Retire
  <2>2. DOMAIN f.tab = DOMAIN eng[s].tab \ slots
    BY <1>1, Removed
  <2>3. Part(f, eng[s])
    BY <1>2
  <2>4. \A t \in DOMAIN eng[s].tab \ slots : eng[s].tab[t].dev = m.dev => eng[s].tab[t].gen = m.gen
    OBVIOUS
  <2> HIDE DEF f, slots
  <2>5. \A x \in TabOf(f) : x.dev = m.dev => x.gen = m.gen
    BY <2>2, <2>3, <2>4 DEF Part, TabOf
  <2>6. Heads(s, "epoch") /\ Consume(s) /\ UNCHANGED <<output, router, jobs, ids, regs, lost>>
    BY <1>3 DEF OnEpoch
  <2> QED BY <2>1, <2>3, <2>5, <2>6
<1>4. CASE \E d \in Devices : OnDisconnect(s, d)
  BY <1>2, <1>4 DEF OnDisconnect
<1>5. CASE \E slot \in Slots : DropSession(s, slot)
  BY <1>2, <1>5 DEF DropSession
<1> QED BY <1>3, <1>4, <1>5 DEF DropStep

LEMMA AdoptFacts ==
  ASSUME Types, NEW s \in Shards, Local(eng[s]), OnAdopt(s), Head(input[s]).x.reg = 0,
         \A y \in TabOf(eng[s]) : y.id # Head(input[s]).x.id
  PROVE  LET x == Head(input[s]).x
         IN  /\ x \in Sessions /\ Heads(s, "adopt") /\ Consume(s)
             /\ Emit(s, Bind(x.key, s)) /\ Publish(x) /\ UNCHANGED <<router, ids, regs>>
             /\ \E f : /\ eng' = [eng EXCEPT ![s] = f] /\ f \in Engines /\ Local(f)
                       /\ f.marks = eng[s].marks /\ TabOf(f) = TabOf(eng[s]) \cup {x}
                       /\ KeyOK(eng[s]) /\ x.key \notin DOMAIN eng[s].peer => KeyOK(f)
                       /\ ServedOK(eng[s]) => ServedOK(f)
<1> DEFINE x == Head(input[s]).x
<1>1. Heads(s, "adopt") /\ Consume(s) /\ Emit(s, Bind(x.key, s)) /\ Publish(x) /\ UNCHANGED <<router, ids, regs>>
  BY DEF OnAdopt
<1>2. Head(input[s]) \in Adopts
  BY <1>1, HeadFacts, InputKinds
<1>3. x \in Sessions
  BY <1>2 DEF Adopts
<1>4. eng[s] \in Engines
  BY DEF Types
<1>5. PICK slot \in Slots \ DOMAIN eng[s].tab : eng' = [eng EXCEPT ![s] = Insert(@, x, slot)]
  BY DEF OnAdopt
<1> DEFINE f == Insert(eng[s], x, slot)
<1>6. eng' = [eng EXCEPT ![s] = f]
  BY <1>5
<1> HIDE DEF x
<1>7. /\ f \in Engines /\ Local(f) /\ f.marks = eng[s].marks /\ TabOf(f) = TabOf(eng[s]) \cup {x}
      /\ KeyOK(eng[s]) /\ x.key \notin DOMAIN eng[s].peer => KeyOK(f)
      /\ ServedOK(eng[s]) => ServedOK(f)
  <2>1. x.reg = 0 /\ \A y \in TabOf(eng[s]) : y.id # x.id
    BY DEF x
  <2> QED BY <1>3, <1>4, <2>1, Inserted
<1> HIDE DEF f
<1>8. \E g : /\ eng' = [eng EXCEPT ![s] = g] /\ g \in Engines /\ Local(g)
             /\ g.marks = eng[s].marks /\ TabOf(g) = TabOf(eng[s]) \cup {x}
             /\ KeyOK(eng[s]) /\ x.key \notin DOMAIN eng[s].peer => KeyOK(g)
             /\ ServedOK(eng[s]) => ServedOK(g)
  BY <1>6, <1>7
<1> QED BY <1>1, <1>3, <1>8 DEF x

\* The activation of the head of the queue finds its session y.
Activates1(s, m, y, f) ==
  /\ y \in TabOf(eng[s]) /\ y.id = m.id
  /\ eng' = [eng EXCEPT ![s] = f] /\ f \in Engines /\ Local(f) /\ f.marks = eng[s].marks
  /\ TabOf(f) = (TabOf(eng[s]) \ {y}) \cup {[y EXCEPT !.reg = m.reg]}
  /\ KeyOK(eng[s]) => KeyOK(f)
  /\ GenOK(eng[s]) /\ OfGen(eng[s], y.dev, y.gen) => GenOK(f)
  /\ ServedOK(eng[s]) => ServedOK(f)

LEMMA ActivateFacts ==
  ASSUME Types, NEW s \in Shards, Local(eng[s]), OnActivate(s), Head(input[s]).reg # 0,
         \A y \in TabOf(eng[s]) : y.reg < Head(input[s]).reg
  PROVE  LET m == Head(input[s])
         IN  /\ m \in Activates /\ Heads(s, "activate") /\ Consume(s) /\ UNCHANGED <<router, jobs, ids, regs>>
             /\ \/ UNCHANGED <<eng, output, lost>> /\ \A y \in TabOf(eng[s]) : y.id # m.id
                \/ /\ Emit(s, [kind |-> "tunnel", ip |-> m.dev, shard |-> s])
                   /\ \E y, f : Activates1(s, m, y, f)
<1> DEFINE m == Head(input[s])
           e == eng[s]
<1>1. Heads(s, "activate") /\ Consume(s) /\ UNCHANGED <<router, jobs, ids, regs>>
  BY DEF OnActivate
<1>2. m \in Activates /\ m.reg \in Nat \ {0}
  <2>1. m \in Activates
    BY <1>1, HeadFacts, InputKinds
  <2> QED BY <2>1 DEF Activates
<1>3. e \in Engines
  BY DEF Types
<1>4. IF m.id \in DOMAIN e.id
      THEN /\ eng' = [eng EXCEPT ![s] = Activated(e, e.id[m.id], m.reg)]
           /\ Emit(s, [kind |-> "tunnel", ip |-> m.dev, shard |-> s])
      ELSE UNCHANGED <<eng, output, lost>>
  BY DEF OnActivate
<1>5. CASE m.id \notin DOMAIN e.id
  <2>1. \A y \in TabOf(e) : y.id # m.id
    BY <1>5 DEF Local, IdOK, TabOf
  <2> QED BY <1>1, <1>2, <1>4, <1>5, <2>1
<1>6. CASE m.id \in DOMAIN e.id
  <2> DEFINE slot == e.id[m.id]
             y == e.tab[slot]
             x == [y EXCEPT !.reg = m.reg]
             f == Activated(e, slot, m.reg)
  <2>1. slot \in DOMAIN e.tab /\ y.id = m.id
    BY <1>6 DEF Local, IdOK
  <2>2. y \in TabOf(e) /\ \A t \in DOMAIN e.tab : e.tab[t].reg < m.reg
    BY <2>1 DEF TabOf
  <2>3. eng' = [eng EXCEPT ![s] = f] /\ Emit(s, [kind |-> "tunnel", ip |-> m.dev, shard |-> s])
    BY <1>4, <1>6
  <2> HIDE DEF m, e, slot
  <2>4. /\ f \in Engines /\ Local(f) /\ f.marks = e.marks
        /\ DOMAIN f.tab = DOMAIN e.tab
        /\ f.tab[slot] = x
        /\ \A t \in DOMAIN e.tab \ {slot} : f.tab[t] = e.tab[t]
        /\ KeyOK(e) => KeyOK(f)
        /\ GenOK(e) /\ OfGen(e, y.dev, y.gen) => GenOK(f)
        /\ ServedOK(e) => ServedOK(f)
    <3>1. Local(e)
      BY DEF e
    <3> QED BY <1>2, <1>3, <2>1, <2>2, <3>1, ActivatedFacts
  <2>5. \A t \in DOMAIN e.tab \ {slot} : e.tab[t] # y
    BY <2>1 DEF Local, IdOK, e
  <2> HIDE DEF f, x
  <2>6. TabOf(f) = (TabOf(e) \ {y}) \cup {x}
    <3>1. \A z \in TabOf(f) : z = x \/ (z \in TabOf(e) /\ z # y)
      BY <2>4, <2>5 DEF TabOf
    <3>2. x \in TabOf(f) /\ \A z \in TabOf(e) : z # y => z \in TabOf(f)
      BY <2>1, <2>4 DEF TabOf
    <3> QED BY <3>1, <3>2
  <2>7. Activates1(s, m, y, f)
    BY <2>1, <2>2, <2>3, <2>4, <2>6 DEF Activates1, e, x
  <2> QED BY <1>1, <1>2, <2>3, <2>7 DEF m
<1> QED BY <1>5, <1>6

LEMMA CompactFacts ==
  ASSUME Types, NEW s \in Shards, Local(eng[s]), Compact(s)
  PROVE  /\ UNCHANGED <<input, output, router, jobs, ids, regs, lost>>
         /\ \E f : /\ eng' = [eng EXCEPT ![s] = f] /\ f \in Engines /\ Local(f)
                   /\ f.marks = eng[s].marks /\ TabOf(f) = TabOf(eng[s])
                   /\ KeyOK(eng[s]) => KeyOK(f)
                   /\ ServedOK(eng[s]) => ServedOK(f)
<1> DEFINE e == eng[s]
<1>1. PICK moved \in SUBSET DOMAIN e.tab \ {{}} : \E to \in Injection(moved, Slots \ DOMAIN e.tab) :
        eng' = [eng EXCEPT ![s] = Compacted(@, to)]
  BY DEF Compact
<1>2. PICK to \in Injection(moved, Slots \ DOMAIN e.tab) : eng' = [eng EXCEPT ![s] = Compacted(@, to)]
  BY <1>1
<1>3. DOMAIN to = moved /\ moved \subseteq DOMAIN e.tab
  BY <1>1, <1>2, InjectionFacts
<1> DEFINE f == Compacted(e, to)
<1>4. eng' = [eng EXCEPT ![s] = f]
  BY <1>2
<1>5. e \in Engines /\ Local(e)
  BY DEF Types
<1> HIDE DEF e
<1>6. /\ f \in Engines /\ Local(f) /\ f.marks = e.marks
      /\ \A t \in DOMAIN e.tab : NewSlot(to, t) \in DOMAIN f.tab /\ f.tab[NewSlot(to, t)] = e.tab[t]
      /\ \A v \in DOMAIN f.tab : \E t \in DOMAIN e.tab : v = NewSlot(to, t) /\ f.tab[v] = e.tab[t]
      /\ KeyOK(e) => KeyOK(f)
      /\ ServedOK(e) => ServedOK(f)
  <2>1. to \in Injection(DOMAIN to, Slots \ DOMAIN e.tab) /\ DOMAIN to \subseteq DOMAIN e.tab
    BY <1>2, <1>3
  <2> QED BY <1>5, <2>1, CompactedFacts
<1> HIDE DEF f
<1>7. TabOf(f) = TabOf(e)
  BY <1>6 DEF TabOf
<1> QED BY <1>4, <1>6, <1>7 DEF Compact, e

LEMMA SweepFacts ==
  ASSUME Types, NEW s \in Shards, Local(eng[s]), NEW k \in Keys, SweepMark(s, k)
  PROVE  /\ UNCHANGED <<input, output, router, jobs, ids, regs, lost>>
         /\ Prompt => ~InTransit(k) /\ ~Queued(s, k)
         /\ \E f : /\ eng' = [eng EXCEPT ![s] = f] /\ f \in Engines /\ Local(f)
                   /\ f.marks = eng[s].marks \ {k} /\ TabOf(f) = TabOf(eng[s])
                   /\ KeyOK(eng[s]) => KeyOK(f)
                   /\ ServedOK(eng[s]) => ServedOK(f)
<1> DEFINE f == [eng[s] EXCEPT !.marks = eng[s].marks \ {k}]
<1>1. eng[s] \in Engines /\ eng[s].marks \ {k} \in SUBSET Keys /\ eng \in [Shards -> Engines]
  BY EngineFacts DEF Types
<1>2. eng' = [eng EXCEPT ![s] = f]
  BY <1>1 DEF SweepMark
<1>3. /\ f \in Engines /\ Local(f) /\ f.marks = eng[s].marks \ {k} /\ TabOf(f) = TabOf(eng[s])
      /\ (KeyOK(eng[s]) => KeyOK(f)) /\ (ServedOK(eng[s]) => ServedOK(f))
  BY <1>1, MarksFacts
<1> HIDE DEF f
<1> QED BY <1>2, <1>3 DEF SweepMark

-------------------------------------------------------------------------------
(* Sessions move between places                                              *)

LEMMA AtSomeIs ==
  ASSUME NEW f, NEW x
  PROVE  x \in AtSome(f) <=> \E s \in Shards : x \in f[s]
BY Zenon DEF AtSome

LEMMA MovingIs ==
  ASSUME NEW O, NEW P, NEW I, NEW x
  PROVE  x \in Moving(O, P, I) <=> (\E s \in Shards : x \in O[s]) \/ x \in P \/ (\E s \in Shards : x \in I[s])
BY AtSomeIs DEF Moving

LEMMA EverywhereIs ==
  ASSUME NEW T, NEW O, NEW P, NEW I, NEW x
  PROVE  x \in Everywhere(T, O, P, I) <=> (\E s \in Shards : x \in T[s]) \/ x \in Moving(O, P, I)
BY AtSomeIs DEF Everywhere

(* Nothing arrives anywhere.                                                 *)
LEMMA PlaceFewer ==
  ASSUME NEW T, NEW O, NEW P, NEW I, NEW n, OnePlace(T, O, P, I, n), NEW T2,
         \A u \in Shards : \A x \in T2[u] : \E y \in T[u] : y.id = x.id
  PROVE  OnePlace(T2, O, P, I, n)
BY EverywhereIs DEF OnePlace

(* A new session in the table of s, or leaving s.                            *)
LEMMA PlaceNewTab ==
  ASSUME NEW T, NEW O, NEW P, NEW I, NEW n \in Nat, OnePlace(T, O, P, I, n),
         \A x \in Everywhere(T, O, P, I) : x.id \in Nat,
         NEW s \in Shards, NEW z, z.id = n + 1, NEW T2,
         \A u \in Shards : \A x \in T2[u] : x \in T[u] \/ (u = s /\ x = z)
  PROVE  OnePlace(T2, O, P, I, n + 1)
<1>1. \A x \in Everywhere(T, O, P, I) : x.id <= n /\ x.id <= n + 1 /\ x.id # n + 1
  BY DEF OnePlace
<1>2. \A x \in Everywhere(T2, O, P, I) : x = z \/ x \in Everywhere(T, O, P, I)
  BY EverywhereIs
<1>3. \A x \in Moving(O, P, I) : x \in Everywhere(T, O, P, I)
  BY EverywhereIs
<1>4. \A u \in Shards : \A x \in T[u] : x \in Everywhere(T, O, P, I)
  BY EverywhereIs
<1>5. \A x \in Everywhere(T2, O, P, I) : x.id <= n + 1
  BY <1>1, <1>2
<1> QED BY <1>1, <1>3, <1>4, <1>5 DEF OnePlace

LEMMA PlaceNewOut ==
  ASSUME NEW T, NEW O, NEW P, NEW I, NEW n \in Nat, OnePlace(T, O, P, I, n),
         \A x \in Everywhere(T, O, P, I) : x.id \in Nat,
         NEW s \in Shards, NEW z, z.id = n + 1, z.reg = 0, NEW T2, NEW O2,
         \A u \in Shards : \A x \in T2[u] : x \in T[u],
         \A u \in Shards : \A x \in O2[u] : x \in O[u] \/ (u = s /\ x = z)
  PROVE  OnePlace(T2, O2, P, I, n + 1)
<1>1. \A x \in Everywhere(T, O, P, I) : x.id <= n /\ x.id <= n + 1 /\ x.id # n + 1
  BY DEF OnePlace
<1>2. \A x \in Moving(O2, P, I) : x = z \/ x \in Moving(O, P, I)
  BY MovingIs
<1>3. \A x \in Moving(O, P, I) : x \in Everywhere(T, O, P, I)
  BY EverywhereIs
<1>4. \A x \in Everywhere(T2, O2, P, I) : x = z \/ x \in Everywhere(T, O, P, I)
  BY <1>2, EverywhereIs
<1>5. \A u \in Shards : \A x \in T[u] : x \in Everywhere(T, O, P, I)
  BY EverywhereIs
<1>6. \A u \in Shards : \A x \in O[u] \cup I[u] : x \in Moving(O, P, I)
  BY MovingIs
<1>7. \A x \in P : x \in Moving(O, P, I)
  BY MovingIs
<1>8. \A x \in Everywhere(T2, O2, P, I) : x.id <= n + 1
  BY <1>1, <1>4
<1> QED BY <1>1, <1>2, <1>3, <1>5, <1>6, <1>7, <1>8 DEF OnePlace

(* A session arrives from the queue of s in its table.                       *)
LEMMA PlaceAdopt ==
  ASSUME NEW T, NEW O, NEW P, NEW I, NEW n, OnePlace(T, O, P, I, n),
         NEW s \in Shards, NEW z \in I[s], NEW T2, NEW I2,
         \A u \in Shards : \A x \in T2[u] : x \in T[u] \/ (u = s /\ x = z),
         \A u \in Shards : \A x \in I2[u] : x \in I[u] /\ (u = s => x.id # z.id)
  PROVE  OnePlace(T2, O, P, I2, n)
<1>1. \A x \in Moving(O, P, I2) : x \in Moving(O, P, I) /\ x.id # z.id
  BY MovingIs DEF OnePlace
<1>2. z \in Moving(O, P, I)
  BY MovingIs
<1>3. \A x \in Everywhere(T2, O, P, I2) : x \in Everywhere(T, O, P, I)
  BY <1>1, <1>2, EverywhereIs
<1> QED BY <1>1, <1>2, <1>3 DEF OnePlace

(* A migration goes from the router's queue to its target, waits, or goes on.*)
LEMMA PlaceRoute ==
  ASSUME NEW T, NEW O, NEW P, NEW I, NEW n, OnePlace(T, O, P, I, n),
         NEW s \in Shards, NEW z \in O[s], NEW h \in Shards, NEW O2, NEW I2,
         \A u \in Shards : \A x \in O2[u] : x \in O[u] /\ (u = s => x.id # z.id),
         \A u \in Shards : \A x \in I2[u] : x \in I[u] \/ (u = h /\ x = z)
  PROVE  OnePlace(T, O2, P, I2, n)
<1>1. \A x \in Moving(O2, P, I2) : x \in Moving(O, P, I)
  BY MovingIs
<1>2. \A x \in Everywhere(T, O2, P, I2) : x \in Everywhere(T, O, P, I)
  BY <1>1, EverywhereIs
<1> QED BY <1>1, <1>2 DEF OnePlace

LEMMA PlaceWait ==
  ASSUME NEW T, NEW O, NEW P, NEW I, NEW n, OnePlace(T, O, P, I, n),
         NEW s \in Shards, NEW z \in O[s], NEW O2, NEW P2,
         \A u \in Shards : \A x \in O2[u] : x \in O[u] /\ (u = s => x.id # z.id),
         \A x \in P2 : x \in P \/ x = z
  PROVE  OnePlace(T, O2, P2, I, n)
<1>1. \A x \in Moving(O2, P2, I) : x \in Moving(O, P, I)
  BY MovingIs
<1>2. \A x \in Everywhere(T, O2, P2, I) : x \in Everywhere(T, O, P, I)
  BY <1>1, EverywhereIs
<1> QED BY <1>1, <1>2 DEF OnePlace

LEMMA PlaceRetry ==
  ASSUME NEW T, NEW O, NEW P, NEW I, NEW n, OnePlace(T, O, P, I, n),
         NEW z \in P, NEW h \in Shards, NEW P2, NEW I2,
         \A x \in P2 : x \in P /\ x.id # z.id,
         \A u \in Shards : \A x \in I2[u] : x \in I[u] \/ (u = h /\ x = z)
  PROVE  OnePlace(T, O, P2, I2, n)
<1>1. \A x \in Moving(O, P2, I2) : x \in Moving(O, P, I)
  BY MovingIs
<1>2. \A x \in Everywhere(T, O, P2, I2) : x \in Everywhere(T, O, P, I)
  BY <1>1, EverywhereIs
<1> QED BY <1>1, <1>2 DEF OnePlace

LEMMA LiveIs ==
  ASSUME NEW E, NEW R, NEW P, NEW Q, NEW x
  PROVE  x \in LiveOf(E, R, P, Q) <=>
           \/ \E s \in Shards : x \in TabOf(E[s])
           \/ \E s \in Shards : x \in Carried(R[s], "migrate")
           \/ x \in PendOf(P)
           \/ \E s \in Shards : x \in Carried(Q[s], "adopt")
<1>1. /\ \A s \in Shards : Tabs(E)[s] = TabOf(E[s])
      /\ \A s \in Shards : Outs(R)[s] = Carried(R[s], "migrate")
      /\ \A s \in Shards : Ins(Q)[s] = Carried(Q[s], "adopt")
  BY DEF Tabs, Outs, Ins
<1> QED BY <1>1, EverywhereIs, MovingIs DEF LiveOf

LEMMA RangeIs ==
  ASSUME NEW q, NEW m
  PROVE  m \in Range(q) <=> \E i \in DOMAIN q : m = q[i]
BY DEF Range

LEMMA RangeTail ==
  ASSUME NEW S, NEW q \in Seq(S), q # <<>>
  PROVE  Range(Tail(q)) \subseteq Range(q) /\ Head(q) \in Range(q) /\ Range(q) \subseteq S
         /\ \A m \in Range(q) : m = Head(q) \/ m \in Range(Tail(q))
<1> DEFINE T == Tail(q)
<1>1. /\ 1 \in DOMAIN q /\ Head(q) = q[1]
      /\ \A i \in DOMAIN T : i + 1 \in DOMAIN q /\ T[i] = q[i + 1]
      /\ \A i \in DOMAIN q : q[i] \in S /\ (i = 1 \/ (i - 1 \in DOMAIN T /\ T[i - 1] = q[i]))
  BY TailFacts
<1> HIDE DEF T
<1>2. \A m : m \in Range(T) <=> \E i \in DOMAIN T : m = T[i]
  BY RangeIs
<1>3. \A m : m \in Range(q) <=> \E i \in DOMAIN q : m = q[i]
  BY RangeIs
<1>4. Range(T) \subseteq Range(q) /\ q[1] \in Range(q) /\ Range(q) \subseteq S
  BY <1>1, <1>2, <1>3
<1>5. \A m \in Range(q) : m = q[1] \/ m \in Range(T)
  BY <1>1, <1>2, <1>3
<1> HIDE DEF Range
<1> QED BY <1>1, <1>4, <1>5 DEF T

LEMMA RangeAppend ==
  ASSUME NEW S, NEW q \in Seq(S), NEW m \in S
  PROVE  Range(Append(q, m)) = Range(q) \cup {m}
<1> DEFINE A == Append(q, m)
           n == Len(q) + 1
<1>1. /\ n \in DOMAIN A /\ A[n] = m
      /\ \A i \in DOMAIN q : i \in DOMAIN A /\ A[i] = q[i]
      /\ \A i \in DOMAIN A : i \in DOMAIN q \/ i = n
  BY AppendFacts
<1> HIDE DEF A, n
<1>2. \A z : z \in Range(A) <=> \E i \in DOMAIN A : z = A[i]
  BY RangeIs
<1>3. \A z : z \in Range(q) <=> \E i \in DOMAIN q : z = q[i]
  BY RangeIs
<1>4. \A z : z \in Range(A) <=> z \in Range(q) \/ z = m
  BY <1>1, <1>2, <1>3
<1> QED BY <1>4 DEF A

(* Live sessions have their types, and an id names one session.              *)
LEMMA LiveTypes ==
  ASSUME NEW E \in [Shards -> Engines], NEW R \in [Shards -> Seq(Outputs)], NEW P \in SUBSET Migrations,
         NEW Q \in [Shards -> Seq(Inputs)], NEW x \in LiveOf(E, R, P, Q)
  PROVE  x \in Sessions
<1>1. CASE \E s \in Shards : x \in TabOf(E[s])
  BY <1>1, EngineFacts DEF TabOf
<1>2. ASSUME NEW s \in Shards, x \in Carried(R[s], "migrate") PROVE x \in Sessions
  <2>1. PICK i \in DOMAIN R[s] : R[s][i].kind = "migrate" /\ x = R[s][i].x
    BY <1>2, CarriedIs
  <2>2. R[s][i] \in Outputs
    <3>1. R[s] \in Seq(Outputs)
      OBVIOUS
    <3> QED BY <3>1
  <2>3. R[s][i] \in Migrations
    BY <2>1, <2>2, OutputKinds
  <2> QED BY <2>1, <2>3 DEF Migrations
<1>3. CASE x \in PendOf(P)
  BY <1>3 DEF PendOf, Migrations
<1>4. ASSUME NEW s \in Shards, x \in Carried(Q[s], "adopt") PROVE x \in Sessions
  <2>1. PICK i \in DOMAIN Q[s] : Q[s][i].kind = "adopt" /\ x = Q[s][i].x
    BY <1>4, CarriedIs
  <2>2. Q[s][i] \in Inputs
    <3>1. Q[s] \in Seq(Inputs)
      OBVIOUS
    <3> QED BY <3>1
  <2>3. Q[s][i] \in Adopts
    BY <2>1, <2>2, InputKinds
  <2> QED BY <2>1, <2>3 DEF Adopts
<1> QED BY <1>1, <1>2, <1>3, <1>4, LiveIs

Unique(S) == \A x, y \in S : x.id = y.id => x = y

LEMMA LiveUnique ==
  ASSUME NEW E, NEW R, NEW P, NEW Q, NEW n,
         OnePlace(Tabs(E), Outs(R), PendOf(P), Ins(Q), n),
         \A s \in Shards : IdOK(E[s]) /\ Once(R[s], "migrate") /\ Once(Q[s], "adopt"),
         \A l, m \in P : l.x.id = m.x.id => l = m
  PROVE  Unique(LiveOf(E, R, P, Q))
<1>1. \A s \in Shards : Unique(TabOf(E[s]))
  BY DEF Unique, TabOf, IdOK
<1>2. \A s \in Shards : Unique(Carried(R[s], "migrate"))
  BY CarriedIs DEF Unique, Once
<1>3. \A s \in Shards : Unique(Carried(Q[s], "adopt"))
  BY CarriedIs DEF Unique, Once
<1>4. Unique(PendOf(P))
  BY DEF Unique, PendOf
<1>5. /\ \A s \in Shards : Tabs(E)[s] = TabOf(E[s])
      /\ \A s \in Shards : Outs(R)[s] = Carried(R[s], "migrate")
      /\ \A s \in Shards : Ins(Q)[s] = Carried(Q[s], "adopt")
  BY DEF Tabs, Outs, Ins
<1> DEFINE M == Moving(Outs(R), PendOf(P), Ins(Q))
<1>6. \A x : x \in M <=> \/ \E s \in Shards : x \in Carried(R[s], "migrate")
                         \/ x \in PendOf(P)
                         \/ \E s \in Shards : x \in Carried(Q[s], "adopt")
  BY <1>5, MovingIs
<1> HIDE DEF M
<1>7. /\ \A s, u \in Shards : \A x \in TabOf(E[s]), y \in TabOf(E[u]) : x.id = y.id => s = u
      /\ \A s \in Shards : \A x \in TabOf(E[s]), y \in M : x.id # y.id
      /\ \A s, u \in Shards : \A x \in Carried(R[s], "migrate"), y \in Carried(R[u], "migrate") : x.id = y.id => s = u
      /\ \A s \in Shards : \A x \in Carried(R[s], "migrate"), y \in PendOf(P) : x.id # y.id
      /\ \A s, u \in Shards : \A x \in Carried(R[s], "migrate"), y \in Carried(Q[u], "adopt") : x.id # y.id
      /\ \A s \in Shards : \A x \in PendOf(P), y \in Carried(Q[s], "adopt") : x.id # y.id
      /\ \A s, u \in Shards : \A x \in Carried(Q[s], "adopt"), y \in Carried(Q[u], "adopt") : x.id = y.id => s = u
  BY <1>5 DEF OnePlace, M
<1>8. Unique(M)
  <2> SUFFICES ASSUME NEW x \in M, NEW y \in M, x.id = y.id PROVE x = y
    BY DEF Unique
  <2> QED BY <1>2, <1>3, <1>4, <1>6, <1>7 DEF Unique
<1>9. \A x \in LiveOf(E, R, P, Q) : x \in M \/ \E s \in Shards : x \in TabOf(E[s])
  BY <1>6, LiveIs
<1> QED BY <1>1, <1>7, <1>8, <1>9 DEF Unique

(* The order of registrations.                                               *)
Zeroes(T2, T) == \A x \in T2 : x \in T \/ x.reg = 0

LEMMA RegSame ==
  ASSUME NEW T, NEW q, NEW n \in Nat, RegAt(T, q, n), NEW T2, Zeroes(T2, T)
  PROVE  RegAt(T2, q, n)
<1>1. \A x \in T2 : x.reg <= n
  BY DEF RegAt, Zeroes
<1>2. ASSUME NEW i \in DOMAIN q, q[i].kind = "activate", NEW x \in T2 PROVE x.reg < q[i].reg
  <2>1. q[i].reg \in 1 .. n /\ (x \in T => x.reg < q[i].reg)
    BY <1>2 DEF RegAt
  <2> QED BY <2>1 DEF Zeroes
<1> QED BY <1>1, <1>2 DEF RegAt

LEMMA RegTail ==
  ASSUME NEW T, NEW S, NEW q \in Seq(S), q # <<>>, NEW n \in Nat, RegAt(T, q, n)
  PROVE  RegAt(T, Tail(q), n)
<1> DEFINE r == Tail(q)
<1>1. /\ \A i \in DOMAIN r : i \in Nat /\ i + 1 \in DOMAIN q /\ r[i] = q[i + 1]
  BY TailFacts
<1> HIDE DEF r
<1>2. RegAt(T, r, n)
  BY <1>1 DEF RegAt
<1> QED BY <1>2 DEF r

LEMMA RegActivate ==
  ASSUME NEW T, NEW S, NEW q \in Seq(S), q # <<>>, NEW n \in Nat, RegAt(T, q, n), Head(q).kind = "activate",
         NEW T2, \A x \in T2 : x \in T \/ x.reg = Head(q).reg
  PROVE  RegAt(T2, Tail(q), n)
<1> DEFINE r == Tail(q)
           m == Head(q)
<1>1. /\ \A i \in DOMAIN r : i \in Nat \ {0} /\ i + 1 \in DOMAIN q /\ r[i] = q[i + 1]
      /\ 1 \in DOMAIN q /\ m = q[1]
  BY TailFacts
<1> HIDE DEF r, m
<1>2. m.kind = "activate" /\ \A x \in T2 : x \in T \/ x.reg = m.reg
  BY DEF m
<1>3. m.reg \in 1 .. n /\ \A j \in DOMAIN q : 1 < j /\ q[j].kind = "activate" => m.reg < q[j].reg
  BY <1>1, <1>2 DEF RegAt
<1>4. \A x \in T2 : x.reg <= n
  BY <1>2, <1>3 DEF RegAt
<1>5. ASSUME NEW i \in DOMAIN r, r[i].kind = "activate"
      PROVE  /\ r[i].reg \in 1 .. n
             /\ \A x \in T2 : x.reg < r[i].reg
             /\ \A j \in DOMAIN r : i < j /\ r[j].kind = "activate" => r[i].reg < r[j].reg
  <2>1. i + 1 \in DOMAIN q /\ r[i] = q[i + 1] /\ 1 < i + 1
    BY <1>1
  <2>2. r[i].reg \in 1 .. n /\ (\A x \in T : x.reg < r[i].reg) /\ m.reg < r[i].reg
    BY <1>3, <1>5, <2>1 DEF RegAt
  <2>3. \A j \in DOMAIN r : i < j /\ r[j].kind = "activate" => r[i].reg < r[j].reg
    BY <1>1, <1>5, <2>1 DEF RegAt
  <2> QED BY <1>2, <2>2, <2>3
<1>6. RegAt(T2, r, n)
  BY <1>4, <1>5 DEF RegAt
<1> QED BY <1>6 DEF r

LEMMA RegAppend ==
  ASSUME NEW T, NEW S, NEW q \in Seq(S), NEW m \in S, NEW n \in Nat, RegAt(T, q, n), m.kind # "activate"
  PROVE  RegAt(T, Append(q, m), n)
<1> DEFINE A == Append(q, m)
           k == Len(q) + 1
<1>1. /\ A[k] = m /\ \A i \in DOMAIN q : i \in DOMAIN A /\ A[i] = q[i]
      /\ \A i \in DOMAIN A : i \in DOMAIN q \/ i = k
  BY AppendFacts
<1> HIDE DEF A, k
<1>2. RegAt(T, A, n)
  BY <1>1 DEF RegAt
<1> QED BY <1>2 DEF A

LEMMA RegNext ==
  ASSUME NEW T, NEW S, NEW q \in Seq(S), NEW n \in Nat, RegAt(T, q, n), \A x \in T : x.reg \in Nat
  PROVE  /\ RegAt(T, q, n + 1)
         /\ \A m \in S : m.kind = "activate" /\ m.reg = n + 1 => RegAt(T, Append(q, m), n + 1)
<1>1. RegAt(T, q, n + 1)
  <2>1. \A x \in T : x.reg <= n + 1
    BY DEF RegAt
  <2>2. \A i : q[i].reg \in 1 .. n => q[i].reg \in 1 .. n + 1
    OBVIOUS
  <2> QED BY <2>1, <2>2 DEF RegAt
<1>2. ASSUME NEW m \in S, m.kind = "activate", m.reg = n + 1 PROVE RegAt(T, Append(q, m), n + 1)
  <2> DEFINE A == Append(q, m)
             k == Len(q) + 1
  <2>1. /\ A[k] = m /\ k \in Nat /\ k \in DOMAIN A /\ \A i \in DOMAIN q : i \in DOMAIN A /\ A[i] = q[i]
        /\ \A i \in DOMAIN A : i \in Nat /\ i <= k /\ (i \in DOMAIN q \/ i = k)
    BY AppendFacts
  <2> HIDE DEF A, k
  <2>2. \A x \in T : x.reg <= n + 1 /\ x.reg < n + 1
    BY DEF RegAt
  <2>3. ASSUME NEW i \in DOMAIN A, A[i].kind = "activate"
        PROVE  /\ A[i].reg \in 1 .. n + 1
               /\ \A x \in T : x.reg < A[i].reg
               /\ \A j \in DOMAIN A : i < j /\ A[j].kind = "activate" => A[i].reg < A[j].reg
    <3>1. CASE i = k
      BY <3>1, <1>2, <2>1, <2>2
    <3>2. CASE i # k
      <4>1. i \in DOMAIN q /\ A[i] = q[i]
        BY <3>2, <2>1
      <4>2. A[i].reg \in 1 .. n /\ \A x \in T : x.reg < A[i].reg
        BY <4>1, <2>3 DEF RegAt
      <4>3. ASSUME NEW j \in DOMAIN A, i < j, A[j].kind = "activate" PROVE A[i].reg < A[j].reg
        <5>1. CASE j = k
          BY <5>1, <4>2, <2>1, <1>2
        <5>2. CASE j # k
          <6>1. j \in DOMAIN q /\ A[j] = q[j]
            BY <5>2, <2>1
          <6> QED BY <6>1, <4>1, <4>3, <2>3 DEF RegAt
        <5> QED BY <5>1, <5>2
      <4> QED BY <4>2, <4>3
    <3> QED BY <3>1, <3>2
  <2>4. RegAt(T, A, n + 1)
    BY <2>2, <2>3 DEF RegAt
  <2> QED BY <2>4 DEF A
<1> QED BY <1>1, <1>2

-------------------------------------------------------------------------------
(* What the steps of the queues do to messages and sessions under way        *)

LEMMA PlaceQueues ==
  ASSUME PlaceInv
  PROVE  \A s \in Shards : Once(output[s], "migrate") /\ Once(input[s], "adopt")
BY DEF PlaceInv

LEMMA ConsumePlaces ==
  ASSUME Types, PlaceInv, NEW s \in Shards, NEW kind, Heads(s, kind), Consume(s)
  PROVE  /\ \A u \in Shards : Once(input'[u], "adopt") /\ Range(input'[u]) \subseteq Range(input[u])
         /\ Head(input[s]) \in Range(input[s])
         /\ kind # "adopt" => Ins(input') = Ins(input)
         /\ kind = "adopt" =>
              /\ Head(input[s]).x \in Ins(input)[s]
              /\ \A u \in Shards : \A y \in Ins(input')[u] :
                   y \in Ins(input)[u] /\ (u = s => y.id # Head(input[s]).x.id)
<1> DEFINE q == input[s]
<1>1. q \in Seq(Inputs) /\ q # <<>> /\ Head(q).kind = kind
  BY HeadFacts
<1>2. input'[s] = Tail(q) /\ \A u \in Shards \ {s} : input'[u] = input[u]
  BY <1>1, ConsumeFacts
<1>3. \A u \in Shards : Once(input[u], "adopt")
  BY PlaceQueues
<1> HIDE DEF q
<1>4. Once(q, "adopt")
  BY <1>3 DEF q
<1>5. /\ Once(Tail(q), "adopt")
      /\ kind # "adopt" => Carried(Tail(q), "adopt") = Carried(q, "adopt")
      /\ kind = "adopt" => /\ Carried(q, "adopt") = Carried(Tail(q), "adopt") \cup {Head(q).x}
                           /\ \A y \in Carried(Tail(q), "adopt") : y.id # Head(q).x.id
  BY <1>1, <1>4, TailCarried
<1>6. Range(Tail(q)) \subseteq Range(q) /\ Head(q) \in Range(q)
  BY <1>1, RangeTail
<1>7. \A u \in Shards : Once(input'[u], "adopt") /\ Range(input'[u]) \subseteq Range(input[u])
  BY <1>2, <1>3, <1>5, <1>6 DEF q
<1>8. kind # "adopt" => Ins(input') = Ins(input)
  <2> SUFFICES ASSUME kind # "adopt" PROVE \A u \in Shards : Carried(input'[u], "adopt") = Carried(input[u], "adopt")
    BY DEF Ins
  <2> QED BY <1>2, <1>5 DEF q
<1>9. kind = "adopt" =>
        /\ Head(q).x \in Ins(input)[s]
        /\ \A u \in Shards : \A y \in Ins(input')[u] : y \in Ins(input)[u] /\ (u = s => y.id # Head(q).x.id)
  <2> SUFFICES ASSUME kind = "adopt"
               PROVE  /\ Head(q).x \in Carried(input[s], "adopt")
                      /\ \A u \in Shards : \A y \in Carried(input'[u], "adopt") :
                           y \in Carried(input[u], "adopt") /\ (u = s => y.id # Head(q).x.id)
    BY DEF Ins
  <2> QED BY <1>2, <1>5 DEF q
<1> QED BY <1>6, <1>7, <1>8, <1>9 DEF q

LEMMA EmitPlaces ==
  ASSUME Types, PlaceInv, NEW s \in Shards, NEW m \in Outputs, Emit(s, m)
  PROVE  /\ \A u \in Shards : \A z \in Range(output'[u]) : z \in Range(output[u]) \/ (u = s /\ z = m)
         /\ m.kind # "migrate" =>
              Outs(output') = Outs(output) /\ \A u \in Shards : Once(output'[u], "migrate")
         /\ m.kind = "migrate" /\ Room(output[s], OutputCap) =>
              /\ \A u \in Shards : \A y \in Outs(output')[u] : y \in Outs(output)[u] \/ (u = s /\ y = m.x)
              /\ (\A y \in Outs(output)[s] : y.id # m.x.id) => \A u \in Shards : Once(output'[u], "migrate")
<1> DEFINE q == output[s]
<1>1. q \in Seq(Outputs)
  BY QueueTypes
<1>2. /\ \A u \in Shards \ {s} : output'[u] = output[u]
      /\ \/ Room(q, OutputCap) /\ output'[s] = Append(q, m)
         \/ ~Room(q, OutputCap) /\ output'[s] = q
  BY EmitFacts
<1>3. \A u \in Shards : Once(output[u], "migrate")
  BY PlaceQueues
<1> HIDE DEF q
<1>4. Once(q, "migrate")
  BY <1>3 DEF q
<1>5. /\ m.kind # "migrate" => Carried(Append(q, m), "migrate") = Carried(q, "migrate") /\ Once(Append(q, m), "migrate")
      /\ m.kind = "migrate" => /\ Carried(Append(q, m), "migrate") = Carried(q, "migrate") \cup {m.x}
                               /\ (\A y \in Carried(q, "migrate") : y.id # m.x.id) => Once(Append(q, m), "migrate")
  BY <1>1, <1>4, AppendCarried
<1>6. Range(Append(q, m)) = Range(q) \cup {m}
  BY <1>1, RangeAppend
<1>7. \A u \in Shards : \A z \in Range(output'[u]) : z \in Range(output[u]) \/ (u = s /\ z = m)
  BY <1>2, <1>6 DEF q
<1>8. m.kind # "migrate" => Outs(output') = Outs(output) /\ \A u \in Shards : Once(output'[u], "migrate")
  <2> SUFFICES ASSUME m.kind # "migrate", NEW u \in Shards
               PROVE  Carried(output'[u], "migrate") = Carried(output[u], "migrate") /\ Once(output'[u], "migrate")
    BY DEF Outs
  <2> QED BY <1>2, <1>3, <1>5 DEF q
<1>9. m.kind = "migrate" /\ Room(q, OutputCap) =>
        /\ \A u \in Shards : \A y \in Outs(output')[u] : y \in Outs(output)[u] \/ (u = s /\ y = m.x)
        /\ (\A y \in Outs(output)[s] : y.id # m.x.id) => \A u \in Shards : Once(output'[u], "migrate")
  <2> SUFFICES ASSUME m.kind = "migrate", Room(q, OutputCap)
               PROVE  /\ \A u \in Shards : \A y \in Carried(output'[u], "migrate") :
                           y \in Carried(output[u], "migrate") \/ (u = s /\ y = m.x)
                      /\ (\A y \in Carried(output[s], "migrate") : y.id # m.x.id) =>
                           \A u \in Shards : Once(output'[u], "migrate")
    BY DEF Outs
  <2> QED BY <1>2, <1>3, <1>5 DEF q
<1> QED BY <1>7, <1>8, <1>9 DEF q

(* A message put into the queues of some shards.                             *)
LEMMA SendPlaces ==
  ASSUME Types, PlaceInv, NEW m \in Inputs,
         \A u \in Shards : input'[u] = Append(input[u], m) \/ input'[u] = input[u]
  PROVE  /\ \A u \in Shards : \A z \in Range(input'[u]) :
              z \in Range(input[u]) \/ (z = m /\ input'[u] = Append(input[u], m))
         /\ \A u \in Shards : Range(input[u]) \subseteq Range(input'[u])
         /\ m.kind # "adopt" => Ins(input') = Ins(input) /\ \A u \in Shards : Once(input'[u], "adopt")
         /\ m.kind = "adopt" =>
              /\ \A u \in Shards : \A y \in Ins(input')[u] :
                   y \in Ins(input)[u] \/ (y = m.x /\ input'[u] = Append(input[u], m))
              /\ (\A u \in Shards : \A y \in Ins(input)[u] : y.id # m.x.id) =>
                   \A u \in Shards : Once(input'[u], "adopt")
<1>1. ASSUME NEW u \in Shards
      PROVE  /\ \A z \in Range(input'[u]) : z \in Range(input[u]) \/ (z = m /\ input'[u] = Append(input[u], m))
             /\ Range(input[u]) \subseteq Range(input'[u])
             /\ m.kind # "adopt" => Carried(input'[u], "adopt") = Carried(input[u], "adopt") /\ Once(input'[u], "adopt")
             /\ m.kind = "adopt" =>
                  /\ \A y \in Carried(input'[u], "adopt") :
                       y \in Carried(input[u], "adopt") \/ (y = m.x /\ input'[u] = Append(input[u], m))
                  /\ (\A y \in Carried(input[u], "adopt") : y.id # m.x.id) => Once(input'[u], "adopt")
  <2> DEFINE q == input[u]
  <2>1. q \in Seq(Inputs) /\ Once(q, "adopt")
    BY QueueTypes, PlaceQueues
  <2>2. input'[u] = Append(q, m) \/ input'[u] = q
    OBVIOUS
  <2> HIDE DEF q
  <2>3. /\ m.kind # "adopt" => Carried(Append(q, m), "adopt") = Carried(q, "adopt") /\ Once(Append(q, m), "adopt")
        /\ m.kind = "adopt" => /\ Carried(Append(q, m), "adopt") = Carried(q, "adopt") \cup {m.x}
                               /\ (\A y \in Carried(q, "adopt") : y.id # m.x.id) => Once(Append(q, m), "adopt")
    BY <2>1, AppendCarried
  <2>4. Range(Append(q, m)) = Range(q) \cup {m}
    BY <2>1, RangeAppend
  <2>5. CASE input'[u] = Append(q, m)
    BY <2>3, <2>4, <2>5 DEF q
  <2>6. CASE input'[u] = q
    BY <2>1, <2>6 DEF q
  <2> QED BY <2>2, <2>5, <2>6
<1>2. m.kind # "adopt" => Ins(input') = Ins(input)
  BY <1>1 DEF Ins
<1>3. /\ \A u \in Shards : Ins(input')[u] = Carried(input'[u], "adopt")
      /\ \A u \in Shards : Ins(input)[u] = Carried(input[u], "adopt")
  BY DEF Ins
<1> QED BY <1>1, <1>2, <1>3

(* The router takes the first message of a shard's output.                   *)
LEMMA TakePlaces ==
  ASSUME Types, PlaceInv, NEW s \in Shards, output[s] # <<>>, output' = [output EXCEPT ![s] = Tail(@)]
  PROVE  /\ output' \in [Shards -> Seq(Outputs)] /\ \A u \in Shards : Len(output'[u]) <= OutputCap
         /\ output'[s] = Tail(output[s]) /\ \A u \in Shards \ {s} : output'[u] = output[u]
         /\ Head(output[s]) \in Outputs /\ Head(output[s]) \in Range(output[s])
         /\ \A u \in Shards : Once(output'[u], "migrate") /\ Range(output'[u]) \subseteq Range(output[u])
         /\ Head(output[s]).kind # "migrate" => Outs(output') = Outs(output)
         /\ Head(output[s]).kind = "migrate" =>
              /\ Head(output[s]).x \in Outs(output)[s]
              /\ \A u \in Shards : \A y \in Outs(output')[u] :
                   y \in Outs(output)[u] /\ (u = s => y.id # Head(output[s]).x.id)
<1> DEFINE q == output[s]
<1>1. q \in Seq(Outputs) /\ q # <<>> /\ output \in [Shards -> Seq(Outputs)] /\ OutputCap \in Nat
      /\ \A u \in Shards : Len(output[u]) <= OutputCap
  BY SessionAssumption DEF Types
<1>2. output'[s] = Tail(q) /\ \A u \in Shards \ {s} : output'[u] = output[u]
  BY <1>1
<1>3. \A u \in Shards : Once(output[u], "migrate")
  BY PlaceQueues
<1>4. Tail(q) \in Seq(Outputs) /\ Len(q) \in Nat /\ Len(Tail(q)) = Len(q) - 1 /\ Head(q) \in Outputs
  BY <1>1, TailFacts
<1>5. output' \in [Shards -> Seq(Outputs)]
  BY <1>1, <1>4
<1>6. Len(Tail(q)) <= OutputCap
  BY <1>1, <1>4
<1> HIDE DEF q
<1>7. \A u \in Shards : Len(output'[u]) <= OutputCap
  BY <1>1, <1>2, <1>6
<1>8. Once(q, "migrate")
  BY <1>3 DEF q
<1>9. /\ Once(Tail(q), "migrate")
      /\ Head(q).kind # "migrate" => Carried(Tail(q), "migrate") = Carried(q, "migrate")
      /\ Head(q).kind = "migrate" => /\ Carried(q, "migrate") = Carried(Tail(q), "migrate") \cup {Head(q).x}
                                     /\ \A y \in Carried(Tail(q), "migrate") : y.id # Head(q).x.id
  BY <1>1, <1>8, TailCarried
<1>10. Range(Tail(q)) \subseteq Range(q) /\ Head(q) \in Range(q)
  BY <1>1, RangeTail
<1>11. \A u \in Shards : Once(output'[u], "migrate") /\ Range(output'[u]) \subseteq Range(output[u])
  BY <1>2, <1>3, <1>9, <1>10 DEF q
<1>12. Head(q).kind # "migrate" => Outs(output') = Outs(output)
  <2> SUFFICES ASSUME Head(q).kind # "migrate"
               PROVE  \A u \in Shards : Carried(output'[u], "migrate") = Carried(output[u], "migrate")
    BY DEF Outs
  <2> QED BY <1>2, <1>9 DEF q
<1>13. Head(q).kind = "migrate" =>
        /\ Head(q).x \in Outs(output)[s]
        /\ \A u \in Shards : \A y \in Outs(output')[u] : y \in Outs(output)[u] /\ (u = s => y.id # Head(q).x.id)
  <2> SUFFICES ASSUME Head(q).kind = "migrate"
               PROVE  /\ Head(q).x \in Carried(output[s], "migrate")
                      /\ \A u \in Shards : \A y \in Carried(output'[u], "migrate") :
                           y \in Carried(output[u], "migrate") /\ (u = s => y.id # Head(q).x.id)
    BY DEF Outs
  <2> QED BY <1>2, <1>9 DEF q
<1> QED BY <1>2, <1>4, <1>5, <1>7, <1>10, <1>11, <1>12, <1>13 DEF q

-------------------------------------------------------------------------------
(* TableInv is kept                                                          *)

LEMMA TableTypes ==
  ASSUME Types, NEW s \in Shards, LocalInv, PlaceInv
  PROVE  /\ eng[s] \in Engines /\ Local(eng[s]) /\ ids \in Nat
         /\ \A x \in Live : x \in Sessions /\ x.id \in Nat /\ x.reg \in Nat /\ x.id <= ids
         /\ \A x \in TabOf(eng[s]) : x \in Live /\ x.id <= ids /\ x.reg \in Nat /\ x.id \in Nat /\ x \in Sessions
<1>1. eng[s] \in Engines /\ Local(eng[s]) /\ ids \in Nat
  BY DEF Types, LocalInv
<1>2. \A x \in Live : x \in Sessions
  BY LiveTypes DEF Types, Live
<1>3. \A x \in Live : x.id <= ids
  BY DEF PlaceInv, OnePlace, Live, LiveOf
<1>4. \A x \in TabOf(eng[s]) : x \in Live
  BY LiveIs DEF Live
<1> QED BY <1>1, <1>2, <1>3, <1>4 DEF Sessions

LEMMA EngStep ==
  ASSUME Types, LocalInv, NEW s \in Shards, NEW f \in Engines, Local(f), eng' = [eng EXCEPT ![s] = f]
  PROVE  /\ eng' \in [Shards -> Engines] /\ eng'[s] = f /\ \A u \in Shards \ {s} : eng'[u] = eng[u]
         /\ LocalInv'
<1>1. eng' \in [Shards -> Engines] /\ eng'[s] = f /\ \A u \in Shards \ {s} : eng'[u] = eng[u]
  BY DEF Types
<1>2. \A u \in Shards : Local(eng'[u])
  BY <1>1 DEF LocalInv
<1> QED BY <1>1, <1>2 DEF LocalInv

SameRequest(a, b) == a.id = b.id /\ a.dev = b.dev /\ a.gen = b.gen
\* Every session was there before, or is the new one.
LiveKept == \A y \in Live' : y.id = ids + 1 \/ \E x \in Live : SameRequest(x, y)

LEMMA UniqueNow ==
  ASSUME LocalInv, PlaceInv
  PROVE  Unique(Live)
BY LiveUnique DEF LocalInv, Local, PlaceInv, Live

LEMMA UniqueNext ==
  ASSUME LocalInv', PlaceInv'
  PROVE  Unique(Live')
BY LiveUnique DEF LocalInv, Local, PlaceInv, Live

LEMMA JobStep ==
  ASSUME Types, JobInv, Types', LocalInv', PlaceInv', ids' \in {ids, ids + 1}, LiveKept,
         \A j \in jobs' : (\E i \in jobs : SameRequest(i, j)) \/ (\E x \in Live' : SameRequest(x, j)),
         \A i, j \in jobs' : i.locked /\ j.locked /\ i.dev = j.dev => i = j,
         \A s \in Shards : \A m \in Range(input'[s]) :
           m.kind = "activate" => m \in Range(input[s]) \/ \E j \in jobs : SameRequest(j, m)
  PROVE  JobInv'
<1>1. ASSUME NEW m, NEW i, NamesWell(i), i.id \in Nat, SameRequest(i, m) PROVE NamesWell(m)'
  <2>1. i.id <= ids /\ \A x \in Live : x.id = i.id => SameIdentity(x, i)
    BY <1>1 DEF NamesWell
  <2>2. m.id = i.id /\ m.dev = i.dev /\ m.gen = i.gen
    BY <1>1 DEF SameRequest
  <2>3. m.id <= ids'
    BY <1>1, <2>1, <2>2 DEF Types
  <2>4. ASSUME NEW y \in Live', y.id = m.id PROVE SameIdentity(y, m)
    <3>1. y.id # ids + 1
      BY <1>1, <2>1, <2>2, <2>4 DEF Types
    <3>2. PICK x \in Live : SameRequest(x, y)
      BY <3>1 DEF LiveKept
    <3> QED BY <3>2, <2>1, <2>2, <2>4 DEF SameIdentity, SameRequest
  <2>5. m.id <= ids' /\ \A y \in Live' : y.id = m.id => SameIdentity(y, m)
    BY <2>3, <2>4
  <2> QED BY <2>5 DEF NamesWell
<1>2. ASSUME NEW m, NEW x \in Live', SameRequest(x, m) PROVE NamesWell(m)'
  <2>1. x.id <= ids'
    BY DEF PlaceInv, OnePlace, Live, LiveOf
  <2>2. \A y \in Live' : y.id = x.id => y = x
    BY UniqueNext DEF Unique
  <2>3. m.id <= ids' /\ \A y \in Live' : y.id = m.id => SameIdentity(y, m)
    BY <1>2, <2>1, <2>2 DEF SameRequest, SameIdentity
  <2> QED BY <2>3 DEF NamesWell
<1>3. ASSUME NEW j \in jobs' PROVE NamesWell(j)'
  <2>1. ASSUME NEW i \in jobs, SameRequest(i, j) PROVE NamesWell(j)'
    <3>1. NamesWell(i) /\ i.id \in Nat
      BY DEF JobInv, Types, Jobs
    <3> QED BY <3>1, <2>1, <1>1
  <2> QED BY <2>1, <1>2
<1>4. ASSUME NEW s \in Shards, NEW m \in Range(input'[s]), m.kind = "activate" PROVE NamesWell(m)'
  <2>1. CASE m \in Range(input[s])
    <3>1. NamesWell(m) /\ SameRequest(m, m)
      BY <2>1, <1>4 DEF JobInv, SameRequest
    <3>2. m.id \in Nat
      <4>1. m \in Inputs
        BY <2>1, QueueTypes, RangeIs
      <4>2. m \in Activates
        BY <4>1, <1>4, InputKinds
      <4> QED BY <4>2 DEF Activates
    <3> QED BY <3>1, <3>2, <1>1
  <2>2. ASSUME NEW j \in jobs, SameRequest(j, m) PROVE NamesWell(m)'
    <3>1. NamesWell(j) /\ j.id \in Nat
      BY DEF JobInv, Types, Jobs
    <3> QED BY <3>1, <2>2, <1>1
  <2> QED BY <2>1, <2>2, <1>4
<1> QED BY <1>3, <1>4 DEF JobInv

(* Steps in which no session moves: tables may lose sessions.                *)
LEMMA QuietPlaces ==
  ASSUME Types, PlaceInv, ids' = ids, pending' = pending, Outs(output') = Outs(output), Ins(input') = Ins(input),
         \A s \in Shards : Once(output'[s], "migrate") /\ Once(input'[s], "adopt"),
         \A s \in Shards : \A x \in TabOf(eng'[s]) : \E y \in TabOf(eng[s]) : SameRequest(y, x)
  PROVE  PlaceInv' /\ LiveKept
<1>1. /\ \A s \in Shards : Tabs(eng)[s] = TabOf(eng[s])
      /\ \A s \in Shards : Tabs(eng')[s] = TabOf(eng'[s])
  BY DEF Tabs
<1>2. \A u \in Shards : \A x \in Tabs(eng')[u] : \E y \in Tabs(eng)[u] : SameRequest(y, x)
  BY <1>1
<1>3. OnePlace(Tabs(eng'), Outs(output), PendOf(pending), Ins(input), ids)
  <2>1. OnePlace(Tabs(eng), Outs(output), PendOf(pending), Ins(input), ids)
    BY DEF PlaceInv
  <2>2. \A u \in Shards : \A x \in Tabs(eng')[u] : \E y \in Tabs(eng)[u] : y.id = x.id
    BY <1>2 DEF SameRequest
  <2> QED BY <2>1, <2>2, PlaceFewer
<1>4. PlaceInv'
  <2>1. /\ OnePlace(Tabs(eng'), Outs(output'), PendOf(pending'), Ins(input'), ids')
        /\ \A m, n \in pending' : m.x.id = n.x.id => m = n
    BY <1>3 DEF PlaceInv
  <2> QED BY <2>1 DEF PlaceInv
<1>5. LiveKept
  <2> SUFFICES ASSUME NEW y \in Live' PROVE \E x \in Live : SameRequest(x, y)
    BY DEF LiveKept
  <2>1. y \in Everywhere(Tabs(eng'), Outs(output), PendOf(pending), Ins(input))
    BY DEF Live, LiveOf
  <2>2. CASE y \in Moving(Outs(output), PendOf(pending), Ins(input))
    BY <2>2, EverywhereIs DEF Live, LiveOf, SameRequest
  <2>3. ASSUME NEW s \in Shards, y \in Tabs(eng')[s] PROVE \E x \in Live : SameRequest(x, y)
    <3>1. PICK x \in Tabs(eng)[s] : SameRequest(x, y)
      BY <2>3, <1>2
    <3>2. x \in Live
      BY EverywhereIs DEF Live, LiveOf
    <3> QED BY <3>1, <3>2
  <2> QED BY <2>1, <2>2, <2>3, EverywhereIs
<1> QED BY <1>4, <1>5

LEMMA MessageStep ==
  ASSUME MessageInv,
         \A s \in Shards : \A m \in Range(output'[s]) :
           m \in Range(output[s]) \/ (IF m.kind = "migrate" THEN MoveOK(m) ELSE m.shard = s),
         \A m \in pending' : m \in pending \/ MoveOK(m),
         \A s \in Shards : \A m \in Range(input'[s]) : m.kind = "adopt" => m \in Range(input[s]) \/ s = Home[m.x.dev]
  PROVE  MessageInv'
BY DEF MessageInv, MoveOK

(* Publishing the request of a session that is live.                         *)
LEMMA PublishFacts ==
  ASSUME Types, JobInv, NEW x \in Sessions, Publish(x)
  PROVE  /\ jobs' \subseteq Jobs
         /\ \A j \in jobs' : j \in jobs \/ (SameRequest(x, j) /\ ~j.locked)
         /\ \A i, j \in jobs' : i.locked /\ j.locked /\ i.dev = j.dev => i = j
<1> DEFINE n == [id |-> x.id, dev |-> x.dev, gen |-> x.gen, locked |-> FALSE]
<1>1. n \in Jobs /\ SameRequest(x, n) /\ ~n.locked
  BY DEF Jobs, Sessions, SameRequest
<1>2. jobs' = jobs \cup {n}
  BY DEF Publish
<1> HIDE DEF n
<1> QED BY <1>1, <1>2 DEF Types, JobInv

(* A step of a shard that at most loses sessions and takes a message.        *)
LEMMA QuietShard ==
  ASSUME TableInv, NEW s \in Shards, eng' \in [Shards -> Engines], LocalInv',
         \A u \in Shards : TabOf(eng'[u]) \subseteq TabOf(eng[u]),
         UNCHANGED <<output, router, ids, regs, lost>>,
         input' = input \/ \E kind \in {"getconf", "epoch", "activate"} : Heads(s, kind) /\ Consume(s),
         jobs' = jobs \/ \E x \in TabOf(eng'[s]) : Publish(x)
  PROVE  TableInv'
<1> USE DEF TableInv
<1>1. /\ input' \in [Shards -> Seq(Inputs)] /\ \A u \in Shards : Len(input'[u]) <= InputCap
      /\ Ins(input') = Ins(input)
      /\ \A u \in Shards : Once(input'[u], "adopt") /\ Range(input'[u]) \subseteq Range(input[u])
      /\ \A u \in Shards : input'[u] = input[u] \/ (input[u] # <<>> /\ input'[u] = Tail(input[u]))
  <2>1. CASE input' = input
    BY <2>1, PlaceQueues DEF Types
  <2>2. ASSUME NEW kind \in {"getconf", "epoch", "activate"}, Heads(s, kind), Consume(s)
        PROVE  /\ input' \in [Shards -> Seq(Inputs)] /\ \A u \in Shards : Len(input'[u]) <= InputCap
               /\ Ins(input') = Ins(input)
               /\ \A u \in Shards : Once(input'[u], "adopt") /\ Range(input'[u]) \subseteq Range(input[u])
               /\ \A u \in Shards : input'[u] = input[u] \/ (input[u] # <<>> /\ input'[u] = Tail(input[u]))
    <3>1. input[s] # <<>>
      BY <2>2 DEF Heads
    <3> QED BY <2>2, <3>1, ConsumeFacts, ConsumePlaces
  <2> QED BY <2>1, <2>2
<1>2. output' = output /\ pending' = pending /\ bound' = bound /\ tunnels' = tunnels
      /\ ids' = ids /\ regs' = regs /\ lost' = lost
  BY DEF router
<1>3. /\ jobs' \subseteq Jobs
      /\ \A j \in jobs' : (\E i \in jobs : SameRequest(i, j)) \/ (\E x \in Live' : SameRequest(x, j))
      /\ \A i, j \in jobs' : i.locked /\ j.locked /\ i.dev = j.dev => i = j
  <2>1. CASE jobs' = jobs
    BY <2>1 DEF Types, JobInv, SameRequest
  <2>2. ASSUME NEW x \in TabOf(eng'[s]), Publish(x)
        PROVE  /\ jobs' \subseteq Jobs
               /\ \A j \in jobs' : (\E i \in jobs : SameRequest(i, j)) \/ (\E y \in Live' : SameRequest(y, j))
               /\ \A i, j \in jobs' : i.locked /\ j.locked /\ i.dev = j.dev => i = j
    <3>1. x \in Sessions
      BY TableTypes
    <3>2. x \in Live'
      BY LiveIs DEF Live
    <3>3. \A j \in jobs : SameRequest(j, j)
      BY DEF SameRequest
    <3> QED BY <2>2, <3>1, <3>2, <3>3, PublishFacts
  <2> QED BY <2>1, <2>2
<1>4. Types'
  BY <1>1, <1>2, <1>3 DEF Types
<1>5. PlaceInv' /\ LiveKept
  <2>1. \A u \in Shards : \A x \in TabOf(eng'[u]) : \E y \in TabOf(eng[u]) : SameRequest(y, x)
    BY DEF SameRequest
  <2>2. \A u \in Shards : Once(output'[u], "migrate") /\ Once(input'[u], "adopt")
    BY <1>1, <1>2, PlaceQueues
  <2>3. Outs(output') = Outs(output)
    BY <1>2
  <2> QED BY <1>1, <1>2, <2>1, <2>2, <2>3, QuietPlaces
<1>6. JobInv'
  <2>1. \A u \in Shards : \A m \in Range(input'[u]) :
           m.kind = "activate" => m \in Range(input[u]) \/ \E j \in jobs : SameRequest(j, m)
    BY <1>1
  <2> QED BY <1>2, <1>3, <1>4, <1>5, <2>1, JobStep
<1>7. MessageInv'
  <2>1. /\ \A u \in Shards : \A m \in Range(output'[u]) : m \in Range(output[u])
        /\ \A m \in pending' : m \in pending
        /\ \A u \in Shards : \A m \in Range(input'[u]) : m \in Range(input[u])
    BY <1>1, <1>2
  <2> QED BY <2>1, MessageStep
<1>8. RegInv'
  <2> SUFFICES ASSUME NEW u \in Shards PROVE RegAt(TabOf(eng'[u]), input'[u], regs)
    BY <1>2 DEF RegInv, Tab
  <2>1. input[u] \in Seq(Inputs) /\ regs \in Nat /\ RegAt(TabOf(eng[u]), input[u], regs)
    BY DEF Types, RegInv, Tab
  <2>2. RegAt(TabOf(eng[u]), input'[u], regs)
    BY <1>1, <2>1, RegTail
  <2>3. Zeroes(TabOf(eng'[u]), TabOf(eng[u]))
    BY DEF Zeroes
  <2> QED BY <2>1, <2>2, <2>3, RegSame
<1> QED BY <1>4, <1>5, <1>6, <1>7, <1>8

LEMMA TableIgnored ==
  ASSUME TableInv, NEW s \in Shards, OnUdpIgnored(s)
  PROVE  TableInv'
<1>1. UNCHANGED <<eng, output, router, ids, regs, lost>> /\ jobs' = jobs /\ Heads(s, "getconf") /\ Consume(s)
  BY DEF OnUdpIgnored
<1>2. eng' \in [Shards -> Engines] /\ LocalInv' /\ \A u \in Shards : TabOf(eng'[u]) \subseteq TabOf(eng[u])
  BY <1>1 DEF TableInv, Types, LocalInv
<1> QED BY <1>1, <1>2, QuietShard

LEMMA TableExisting ==
  ASSUME TableInv, NEW s \in Shards, OnUdpExisting(s)
  PROVE  TableInv'
<1>1. UNCHANGED <<eng, output, router, ids, regs, lost>> /\ Heads(s, "getconf") /\ Consume(s)
  BY DEF OnUdpExisting
<1>2. eng' \in [Shards -> Engines] /\ LocalInv' /\ \A u \in Shards : TabOf(eng'[u]) \subseteq TabOf(eng[u])
  BY <1>1 DEF TableInv, Types, LocalInv
<1>3. \E x \in TabOf(eng'[s]) : Publish(x)
  <2> DEFINE k == Head(input[s]).key
             x == eng[s].tab[eng[s].peer[k]]
  <2>1. k \in DOMAIN eng[s].peer /\ Publish(x)
    BY DEF OnUdpExisting
  <2>2. eng[s].peer[k] \in DOMAIN eng[s].tab
    BY <2>1 DEF TableInv, LocalInv, Local, PeerOK
  <2>3. x \in TabOf(eng[s])
    BY <2>2 DEF TabOf
  <2> HIDE DEF x
  <2> QED BY <2>1, <2>3, <1>1
<1> QED BY <1>1, <1>2, <1>3, QuietShard

LEMMA TableDrop ==
  ASSUME TableInv, NEW s \in Shards, DropStep(s)
  PROVE  TableInv'
<1>1. Types /\ LocalInv /\ Local(eng[s]) /\ \A x \in TabOf(eng[s]) : x.id <= ids
  BY TableTypes DEF TableInv
<1>2. /\ UNCHANGED <<output, router, jobs, ids, regs, lost>>
      /\ input' = input \/ (Heads(s, "epoch") /\ Consume(s))
  BY <1>1, DropFacts
<1>3. PICK f : eng' = [eng EXCEPT ![s] = f] /\ Part(f, eng[s])
  BY <1>1, DropFacts
<1>4. f \in Engines /\ Local(f) /\ TabOf(f) \subseteq TabOf(eng[s])
  BY <1>3, PartTable DEF Part
<1>5. eng' \in [Shards -> Engines] /\ LocalInv' /\ eng'[s] = f /\ \A u \in Shards \ {s} : eng'[u] = eng[u]
  BY <1>1, <1>3, <1>4, EngStep
<1>6. \A u \in Shards : TabOf(eng'[u]) \subseteq TabOf(eng[u])
  BY <1>4, <1>5
<1> QED BY <1>2, <1>5, <1>6, QuietShard

LEMMA TableCompact ==
  ASSUME TableInv, NEW s \in Shards, Compact(s)
  PROVE  TableInv'
<1>1. Types /\ LocalInv /\ Local(eng[s])
  BY DEF TableInv, LocalInv
<1>2. UNCHANGED <<input, output, router, jobs, ids, regs, lost>>
  BY <1>1, CompactFacts
<1>3. PICK f : eng' = [eng EXCEPT ![s] = f] /\ f \in Engines /\ Local(f) /\ TabOf(f) = TabOf(eng[s])
  BY <1>1, CompactFacts
<1>5. eng' \in [Shards -> Engines] /\ LocalInv' /\ eng'[s] = f /\ \A u \in Shards \ {s} : eng'[u] = eng[u]
  BY <1>1, <1>3, EngStep
<1>6. \A u \in Shards : TabOf(eng'[u]) \subseteq TabOf(eng[u])
  BY <1>3, <1>5
<1> QED BY <1>2, <1>5, <1>6, QuietShard

LEMMA TableSweep ==
  ASSUME TableInv, NEW s \in Shards, NEW k \in Keys, SweepMark(s, k)
  PROVE  TableInv'
<1>1. Types /\ LocalInv /\ Local(eng[s])
  BY DEF TableInv, LocalInv
<1>2. UNCHANGED <<input, output, router, jobs, ids, regs, lost>>
  BY <1>1, SweepFacts
<1>3. PICK f : eng' = [eng EXCEPT ![s] = f] /\ f \in Engines /\ Local(f) /\ TabOf(f) = TabOf(eng[s])
  BY <1>1, SweepFacts
<1>5. eng' \in [Shards -> Engines] /\ LocalInv' /\ eng'[s] = f /\ \A u \in Shards \ {s} : eng'[u] = eng[u]
  BY <1>1, <1>3, EngStep
<1>6. \A u \in Shards : TabOf(eng'[u]) \subseteq TabOf(eng[u])
  BY <1>3, <1>5
<1> QED BY <1>2, <1>5, <1>6, QuietShard

LEMMA TableCreate ==
  ASSUME TableInv, NEW s \in Shards, CreateStep(s)
  PROVE  TableInv'
<1> USE DEF TableInv
<1> DEFINE m == Head(input[s])
           x == NewSession(m)
<1>1. Types /\ LocalInv /\ Local(eng[s]) /\ \A y \in TabOf(eng[s]) : y.id <= ids
  BY TableTypes
<1>2. Heads(s, "getconf") /\ Consume(s) /\ UNCHANGED <<router, regs>> /\ m \in Getconfs
  BY <1>1, CreateFacts
<1>3. PICK e, f : Created(s, m, e, f)
  BY <1>1, CreateFacts
<1>4. x \in Sessions /\ x.id = ids + 1 /\ x.reg = 0 /\ x.key = m.key /\ x.dev = m.dev /\ x.gen = m.gen
      /\ Migrate(m) \in Migrations /\ Migrate(m).kind = "migrate" /\ Migrate(m).x = x /\ MoveOK(Migrate(m))
      /\ Bind(m.key, s) \in Outputs /\ Bind(m.key, s).kind = "bind" /\ Bind(m.key, s).shard = s
  <2>1. x \in Sessions /\ x.id = ids + 1 /\ x.reg = 0 /\ x.key = m.key /\ x.dev = m.dev /\ x.gen = m.gen
        /\ Migrate(m) \in Migrations /\ m.key \in Keys
    BY <1>1, <1>2, NewFacts, GetconfFacts
  <2>2. Migrate(m).kind = "migrate" /\ Migrate(m).x = x /\ MoveOK(Migrate(m))
    BY <2>1 DEF Migrate, MoveOK
  <2>3. Bind(m.key, s) \in Outputs /\ Bind(m.key, s).kind = "bind" /\ Bind(m.key, s).shard = s
    BY <2>1 DEF Bind, Outputs, Binds
  <2> QED BY <2>1, <2>2, <2>3
<1> HIDE DEF m, x
<1>5. /\ Part(e, eng[s]) /\ f \in Engines /\ Local(f) /\ eng' = [eng EXCEPT ![s] = f] /\ ids' = ids + 1
      /\ Leaves(s, m, e, f) \/ Stays(s, m, e, f)
  BY <1>3 DEF Created
<1>6. TabOf(e) \subseteq TabOf(eng[s])
  BY <1>5, PartTable
<1>7. eng' \in [Shards -> Engines] /\ LocalInv' /\ eng'[s] = f /\ \A u \in Shards \ {s} : eng'[u] = eng[u]
  BY <1>1, <1>5, EngStep
<1>8. /\ input' \in [Shards -> Seq(Inputs)] /\ \A u \in Shards : Len(input'[u]) <= InputCap
      /\ input'[s] = Tail(input[s]) /\ \A u \in Shards \ {s} : input'[u] = input[u]
      /\ input[s] # <<>>
  <2>1. input[s] # <<>>
    BY <1>2 DEF Heads
  <2> QED BY <1>1, <1>2, <2>1, ConsumeFacts
<1>9. /\ Ins(input') = Ins(input)
      /\ \A u \in Shards : Once(input'[u], "adopt") /\ Range(input'[u]) \subseteq Range(input[u])
  BY <1>2, ConsumePlaces
<1>10. pending' = pending /\ bound' = bound /\ tunnels' = tunnels /\ regs' = regs
  BY <1>2 DEF router
<1>11. /\ \A u \in Shards : Tabs(eng)[u] = TabOf(eng[u])
       /\ \A u \in Shards : Tabs(eng')[u] = TabOf(eng'[u])
       /\ \A u \in Shards : Outs(output)[u] = Carried(output[u], "migrate")
  BY DEF Tabs, Outs
<1>12. /\ OnePlace(Tabs(eng), Outs(output), PendOf(pending), Ins(input), ids)
       /\ \A y \in Everywhere(Tabs(eng), Outs(output), PendOf(pending), Ins(input)) : y.id \in Nat /\ y.id <= ids
       /\ ids \in Nat
  BY TableTypes DEF PlaceInv, Live, LiveOf
<1>13. RegInv'
  <2> SUFFICES ASSUME NEW u \in Shards PROVE RegAt(TabOf(eng'[u]), input'[u], regs)
    BY <1>10 DEF RegInv, Tab
  <2>1. input[u] \in Seq(Inputs) /\ regs \in Nat /\ RegAt(TabOf(eng[u]), input[u], regs)
    BY DEF Types, RegInv, Tab
  <2>2. RegAt(TabOf(eng[u]), input'[u], regs)
    BY <1>8, <2>1, RegTail
  <2>3. Zeroes(TabOf(eng'[u]), TabOf(eng[u]))
    BY <1>4, <1>5, <1>6, <1>7 DEF Zeroes, Leaves, Stays, x
  <2> QED BY <2>1, <2>2, <2>3, RegSame
<1>16. ids' \in Nat /\ pending \subseteq Migrations /\ bound \in [Keys -> Shards]
       /\ tunnels \in [Devices -> Shards] /\ jobs \subseteq Jobs /\ regs \in Nat
  BY <1>5, <1>12 DEF Types
<1>14. CASE Leaves(s, m, e, f)
  <2>1. TabOf(f) = TabOf(e) /\ Emit(s, Migrate(m)) /\ Room(output[s], OutputCap) /\ jobs' = jobs
    BY <1>14 DEF Leaves
  <2>2. Migrate(m) \in Outputs
    BY <1>4 DEF Outputs
  <2>3. /\ output' \in [Shards -> Seq(Outputs)] /\ \A u \in Shards : Len(output'[u]) <= OutputCap
        /\ lost' \in BOOLEAN
    BY <1>1, <2>1, <2>2, EmitFacts
  <2>4. /\ \A u \in Shards : \A z \in Range(output'[u]) : z \in Range(output[u]) \/ (u = s /\ z = Migrate(m))
        /\ \A u \in Shards : \A y \in Outs(output')[u] : y \in Outs(output)[u] \/ (u = s /\ y = x)
        /\ (\A y \in Outs(output)[s] : y.id # x.id) => \A u \in Shards : Once(output'[u], "migrate")
    BY <1>4, <2>1, <2>2, EmitPlaces
  <2>5. Types'
    BY <1>7, <1>8, <1>10, <1>16, <2>1, <2>3 DEF Types
  <2>6. \A u \in Shards : \A y \in Tabs(eng')[u] : y \in Tabs(eng)[u]
    BY <1>6, <1>7, <1>11, <2>1
  <2>7. OnePlace(Tabs(eng'), Outs(output'), PendOf(pending), Ins(input), ids + 1)
    BY <1>4, <1>12, <2>4, <2>6, PlaceNewOut
  <2>8. \A y \in Outs(output)[s] : y.id # x.id
    <3>1. \A y \in Outs(output)[s] : y \in Everywhere(Tabs(eng), Outs(output), PendOf(pending), Ins(input))
      BY EverywhereIs, MovingIs
    <3> QED BY <3>1, <1>4, <1>12
  <2>9. PlaceInv'
    <3>1. /\ OnePlace(Tabs(eng'), Outs(output'), PendOf(pending'), Ins(input'), ids')
          /\ \A u \in Shards : Once(output'[u], "migrate") /\ Once(input'[u], "adopt")
          /\ \A l, n \in pending' : l.x.id = n.x.id => l = n
      BY <1>5, <1>9, <1>10, <2>4, <2>7, <2>8 DEF PlaceInv
    <3> QED BY <3>1 DEF PlaceInv
  <2>10. LiveKept
    <3> SUFFICES ASSUME NEW y \in Live' PROVE y.id = ids + 1 \/ \E z \in Live : SameRequest(z, y)
      BY DEF LiveKept
    <3>1. y \in Everywhere(Tabs(eng'), Outs(output'), PendOf(pending), Ins(input))
      BY <1>9, <1>10 DEF Live, LiveOf
    <3>2. y = x \/ y \in Live
      BY <3>1, <2>4, <2>6, EverywhereIs, MovingIs DEF Live, LiveOf
    <3> QED BY <3>2, <1>4 DEF SameRequest
  <2>11. JobInv'
    <3>1. \A j \in jobs' : \E i \in jobs : SameRequest(i, j)
      BY <2>1 DEF SameRequest
    <3>2. \A i, j \in jobs' : i.locked /\ j.locked /\ i.dev = j.dev => i = j
      BY <2>1 DEF JobInv
    <3>3. \A u \in Shards : \A z \in Range(input'[u]) : z.kind = "activate" => z \in Range(input[u])
      BY <1>9
    <3> QED BY <1>5, <1>7, <2>5, <2>9, <2>10, <3>1, <3>2, <3>3, JobStep
  <2>12. MessageInv'
    <3>1. \A u \in Shards : \A z \in Range(output'[u]) :
            z \in Range(output[u]) \/ (IF z.kind = "migrate" THEN MoveOK(z) ELSE z.shard = u)
      BY <2>4, <1>4
    <3>2. /\ \A z \in pending' : z \in pending
          /\ \A u \in Shards : \A z \in Range(input'[u]) : z \in Range(input[u])
      BY <1>9, <1>10
    <3> QED BY <3>1, <3>2, MessageStep
  <2> QED BY <1>7, <1>13, <2>5, <2>9, <2>11, <2>12
<1>15. CASE Stays(s, m, e, f)
  <2>1. TabOf(f) = TabOf(e) \cup {x} /\ Emit(s, Bind(m.key, s)) /\ Publish(x)
    BY <1>15 DEF Stays, x
  <2>3. /\ output' \in [Shards -> Seq(Outputs)] /\ \A u \in Shards : Len(output'[u]) <= OutputCap
        /\ lost' \in BOOLEAN
    BY <1>1, <1>4, <2>1, EmitFacts
  <2>4. /\ \A u \in Shards : \A z \in Range(output'[u]) : z \in Range(output[u]) \/ (u = s /\ z = Bind(m.key, s))
        /\ Outs(output') = Outs(output) /\ \A u \in Shards : Once(output'[u], "migrate")
    BY <1>4, <2>1, EmitPlaces
  <2>13. /\ jobs' \subseteq Jobs
         /\ \A j \in jobs' : j \in jobs \/ (SameRequest(x, j) /\ ~j.locked)
         /\ \A i, j \in jobs' : i.locked /\ j.locked /\ i.dev = j.dev => i = j
    BY <1>4, <2>1, PublishFacts
  <2>5. Types'
    BY <1>7, <1>8, <1>10, <1>16, <2>3, <2>13 DEF Types
  <2>6. \A u \in Shards : \A y \in Tabs(eng')[u] : y \in Tabs(eng)[u] \/ (u = s /\ y = x)
    BY <1>6, <1>7, <1>11, <2>1
  <2>7. OnePlace(Tabs(eng'), Outs(output), PendOf(pending), Ins(input), ids + 1)
    BY <1>4, <1>12, <2>6, PlaceNewTab
  <2>9. PlaceInv'
    <3>1. /\ OnePlace(Tabs(eng'), Outs(output'), PendOf(pending'), Ins(input'), ids')
          /\ \A u \in Shards : Once(output'[u], "migrate") /\ Once(input'[u], "adopt")
          /\ \A l, n \in pending' : l.x.id = n.x.id => l = n
      BY <1>5, <1>9, <1>10, <2>4, <2>7 DEF PlaceInv
    <3> QED BY <3>1 DEF PlaceInv
  <2>10. LiveKept
    <3> SUFFICES ASSUME NEW y \in Live' PROVE y.id = ids + 1 \/ \E z \in Live : SameRequest(z, y)
      BY DEF LiveKept
    <3>1. y \in Everywhere(Tabs(eng'), Outs(output), PendOf(pending), Ins(input))
      BY <1>9, <1>10, <2>4 DEF Live, LiveOf
    <3>2. y = x \/ y \in Live
      BY <3>1, <2>6, EverywhereIs DEF Live, LiveOf
    <3> QED BY <3>2, <1>4 DEF SameRequest
  <2>11. JobInv'
    <3>1. \A j \in jobs' : (\E i \in jobs : SameRequest(i, j)) \/ (\E y \in Live' : SameRequest(y, j))
      <4>1. x \in Live'
        BY <1>7, <2>1, LiveIs DEF Live
      <4>2. \A j \in jobs : SameRequest(j, j)
        BY DEF SameRequest
      <4> QED BY <2>13, <4>1, <4>2
    <3>3. \A u \in Shards : \A z \in Range(input'[u]) : z.kind = "activate" => z \in Range(input[u])
      BY <1>9
    <3> QED BY <1>5, <1>7, <2>5, <2>9, <2>10, <2>13, <3>1, <3>3, JobStep
  <2>12. MessageInv'
    <3>1. \A u \in Shards : \A z \in Range(output'[u]) :
            z \in Range(output[u]) \/ (IF z.kind = "migrate" THEN MoveOK(z) ELSE z.shard = u)
      BY <2>4, <1>4
    <3>2. /\ \A z \in pending' : z \in pending
          /\ \A u \in Shards : \A z \in Range(input'[u]) : z \in Range(input[u])
      BY <1>9, <1>10
    <3> QED BY <3>1, <3>2, MessageStep
  <2> QED BY <1>7, <1>13, <2>5, <2>9, <2>11, <2>12
<1> QED BY <1>5, <1>14, <1>15

(* The session at the head of a shard's queue was in no table.               *)
LEMMA AdoptHead ==
  ASSUME Types, PlaceInv, MessageInv, NEW s \in Shards, Heads(s, "adopt")
  PROVE  LET x == Head(input[s]).x
         IN  /\ x \in Ins(input)[s] /\ x \in Live /\ x.reg = 0 /\ s = Home[x.dev]
             /\ \A u \in Shards : \A y \in TabOf(eng[u]) : y.id # x.id
<1> DEFINE m == Head(input[s])
           x == m.x
<1>1. 1 \in DOMAIN input[s] /\ m = input[s][1] /\ m.kind = "adopt"
  BY HeadFacts
<1>2. x \in Carried(input[s], "adopt") /\ m \in Range(input[s])
  BY <1>1, CarriedIs, RangeIs
<1> HIDE DEF m
<1>3. x \in Ins(input)[s]
  BY <1>2 DEF Ins
<1>4. x \in Moving(Outs(output), PendOf(pending), Ins(input))
  BY <1>3, MovingIs
<1>5. x \in Live
  BY <1>4, EverywhereIs DEF Live, LiveOf
<1>6. x.reg = 0 /\ \A u \in Shards : \A y \in Tabs(eng)[u] : y.id # x.id
  BY <1>4 DEF PlaceInv, OnePlace
<1>7. \A u \in Shards : Tabs(eng)[u] = TabOf(eng[u])
  BY DEF Tabs
<1>8. s = Home[x.dev]
  BY <1>1, <1>2 DEF MessageInv
<1> QED BY <1>3, <1>5, <1>6, <1>7, <1>8 DEF m

LEMMA TableAdopt ==
  ASSUME TableInv, NEW s \in Shards, OnAdopt(s)
  PROVE  TableInv'
<1> USE DEF TableInv
<1> DEFINE x == Head(input[s]).x
<1>1. Types /\ LocalInv /\ Local(eng[s]) /\ Heads(s, "adopt")
  BY DEF LocalInv, OnAdopt
<1>2. x \in Ins(input)[s] /\ x \in Live /\ x.reg = 0 /\ \A y \in TabOf(eng[s]) : y.id # x.id
  BY <1>1, AdoptHead
<1>3. /\ x \in Sessions /\ Consume(s) /\ Emit(s, Bind(x.key, s)) /\ Publish(x) /\ UNCHANGED <<router, ids, regs>>
  BY <1>1, <1>2, AdoptFacts
<1>4. PICK f : eng' = [eng EXCEPT ![s] = f] /\ f \in Engines /\ Local(f) /\ TabOf(f) = TabOf(eng[s]) \cup {x}
  BY <1>1, <1>2, AdoptFacts
<1>5. eng' \in [Shards -> Engines] /\ LocalInv' /\ eng'[s] = f /\ \A u \in Shards \ {s} : eng'[u] = eng[u]
  BY <1>1, <1>4, EngStep
<1>6. /\ input' \in [Shards -> Seq(Inputs)] /\ \A u \in Shards : Len(input'[u]) <= InputCap
      /\ input'[s] = Tail(input[s]) /\ \A u \in Shards \ {s} : input'[u] = input[u]
      /\ input[s] # <<>>
  <2>1. input[s] # <<>>
    BY <1>1 DEF Heads
  <2> QED BY <1>1, <1>3, <2>1, ConsumeFacts
<1>7. /\ \A u \in Shards : Once(input'[u], "adopt") /\ Range(input'[u]) \subseteq Range(input[u])
      /\ \A u \in Shards : \A y \in Ins(input')[u] : y \in Ins(input)[u] /\ (u = s => y.id # x.id)
  BY <1>1, <1>3, ConsumePlaces
<1> HIDE DEF x
<1>8. Bind(x.key, s) \in Outputs /\ Bind(x.key, s).kind = "bind" /\ Bind(x.key, s).shard = s
  BY <1>3 DEF Bind, Outputs, Binds, Sessions
<1>9. /\ output' \in [Shards -> Seq(Outputs)] /\ \A u \in Shards : Len(output'[u]) <= OutputCap
      /\ lost' \in BOOLEAN
  BY <1>1, <1>3, <1>8, EmitFacts
<1>10. /\ \A u \in Shards : \A z \in Range(output'[u]) : z \in Range(output[u]) \/ (u = s /\ z = Bind(x.key, s))
       /\ Outs(output') = Outs(output) /\ \A u \in Shards : Once(output'[u], "migrate")
  BY <1>3, <1>8, EmitPlaces
<1>11. /\ jobs' \subseteq Jobs
       /\ \A j \in jobs' : j \in jobs \/ (SameRequest(x, j) /\ ~j.locked)
       /\ \A i, j \in jobs' : i.locked /\ j.locked /\ i.dev = j.dev => i = j
  BY <1>3, PublishFacts
<1>12. pending' = pending /\ bound' = bound /\ tunnels' = tunnels /\ regs' = regs /\ ids' = ids
  BY <1>3 DEF router
<1>13. Types'
  BY <1>5, <1>6, <1>9, <1>11, <1>12 DEF Types
<1>14. /\ \A u \in Shards : Tabs(eng)[u] = TabOf(eng[u])
       /\ \A u \in Shards : Tabs(eng')[u] = TabOf(eng'[u])
  BY DEF Tabs
<1>15. \A u \in Shards : \A y \in Tabs(eng')[u] : y \in Tabs(eng)[u] \/ (u = s /\ y = x)
  BY <1>4, <1>5, <1>14
<1>16. OnePlace(Tabs(eng'), Outs(output), PendOf(pending), Ins(input'), ids)
  <2>1. OnePlace(Tabs(eng), Outs(output), PendOf(pending), Ins(input), ids)
    BY DEF PlaceInv
  <2> QED BY <2>1, <1>2, <1>7, <1>15, PlaceAdopt
<1>17. PlaceInv'
  <2>1. /\ OnePlace(Tabs(eng'), Outs(output'), PendOf(pending'), Ins(input'), ids')
        /\ \A u \in Shards : Once(output'[u], "migrate") /\ Once(input'[u], "adopt")
        /\ \A l, n \in pending' : l.x.id = n.x.id => l = n
    BY <1>7, <1>10, <1>12, <1>16 DEF PlaceInv
  <2> QED BY <2>1 DEF PlaceInv
<1>18. LiveKept
  <2> SUFFICES ASSUME NEW y \in Live' PROVE y \in Live
    BY DEF LiveKept, SameRequest
  <2>1. y \in Everywhere(Tabs(eng'), Outs(output), PendOf(pending), Ins(input'))
    BY <1>10, <1>12 DEF Live, LiveOf
  <2>2. y = x \/ y \in Everywhere(Tabs(eng), Outs(output), PendOf(pending), Ins(input))
    BY <2>1, <1>7, <1>15, EverywhereIs, MovingIs
  <2> QED BY <2>2, <1>2 DEF Live, LiveOf
<1>19. JobInv'
  <2>1. \A j \in jobs' : (\E i \in jobs : SameRequest(i, j)) \/ (\E y \in Live' : SameRequest(y, j))
    <3>1. x \in Live'
      BY <1>4, <1>5, LiveIs DEF Live
    <3>2. \A j \in jobs : SameRequest(j, j)
      BY DEF SameRequest
    <3> QED BY <1>11, <3>1, <3>2
  <2>2. \A u \in Shards : \A z \in Range(input'[u]) : z.kind = "activate" => z \in Range(input[u])
    BY <1>7
  <2> QED BY <1>5, <1>11, <1>12, <1>13, <1>17, <1>18, <2>1, <2>2, JobStep
<1>20. MessageInv'
  <2>1. \A u \in Shards : \A z \in Range(output'[u]) :
          z \in Range(output[u]) \/ (IF z.kind = "migrate" THEN MoveOK(z) ELSE z.shard = u)
    BY <1>8, <1>10
  <2>2. /\ \A z \in pending' : z \in pending
        /\ \A u \in Shards : \A z \in Range(input'[u]) : z \in Range(input[u])
    BY <1>7, <1>12
  <2> QED BY <2>1, <2>2, MessageStep
<1>21. RegInv'
  <2> SUFFICES ASSUME NEW u \in Shards PROVE RegAt(TabOf(eng'[u]), input'[u], regs)
    BY <1>12 DEF RegInv, Tab
  <2>1. input[u] \in Seq(Inputs) /\ regs \in Nat /\ RegAt(TabOf(eng[u]), input[u], regs)
    BY DEF Types, RegInv, Tab
  <2>2. RegAt(TabOf(eng[u]), input'[u], regs)
    BY <1>6, <2>1, RegTail
  <2>3. Zeroes(TabOf(eng'[u]), TabOf(eng[u]))
    BY <1>2, <1>4, <1>5 DEF Zeroes
  <2> QED BY <2>1, <2>2, <2>3, RegSame
<1> QED BY <1>5, <1>13, <1>17, <1>19, <1>20, <1>21

(* The activation at the head of a shard's queue is younger than the sessions. *)
LEMMA ActivateHead ==
  ASSUME Types, RegInv, NEW s \in Shards, Heads(s, "activate")
  PROVE  LET m == Head(input[s])
         IN  m \in Activates /\ m.reg \in 1 .. regs /\ m.reg # 0 /\ \A y \in TabOf(eng[s]) : y.reg < m.reg
<1> DEFINE m == Head(input[s])
<1>1. 1 \in DOMAIN input[s] /\ m = input[s][1] /\ m.kind = "activate" /\ m \in Inputs
  BY HeadFacts
<1>2. m \in Activates
  BY <1>1, InputKinds
<1>3. RegAt(TabOf(eng[s]), input[s], regs)
  BY DEF RegInv, Tab
<1>4. m.reg \in 1 .. regs /\ \A y \in TabOf(eng[s]) : y.reg < m.reg
  <2> HIDE DEF m
  <2> QED BY <1>1, <1>3 DEF RegAt
<1> QED BY <1>2, <1>4 DEF Types

LEMMA TableActivate ==
  ASSUME TableInv, NEW s \in Shards, OnActivate(s)
  PROVE  TableInv'
<1> USE DEF TableInv
<1> DEFINE m == Head(input[s])
           t == [kind |-> "tunnel", ip |-> m.dev, shard |-> s]
<1>1. Types /\ LocalInv /\ Local(eng[s]) /\ Heads(s, "activate")
  BY DEF LocalInv, OnActivate
<1>2. m \in Activates /\ m.reg \in 1 .. regs /\ m.reg # 0 /\ \A y \in TabOf(eng[s]) : y.reg < m.reg
  BY <1>1, ActivateHead
<1>3. /\ Consume(s) /\ UNCHANGED <<router, jobs, ids, regs>>
      /\ UNCHANGED <<eng, output, lost>> \/ (Emit(s, t) /\ \E y, f : Activates1(s, m, y, f))
  BY <1>1, <1>2, ActivateFacts
<1>4. CASE UNCHANGED <<eng, output, lost>>
  <2>1. eng' \in [Shards -> Engines] /\ LocalInv' /\ \A u \in Shards : TabOf(eng'[u]) \subseteq TabOf(eng[u])
    BY <1>4 DEF Types, LocalInv
  <2>2. UNCHANGED <<output, router, ids, regs, lost>> /\ jobs' = jobs
    BY <1>3, <1>4
  <2> QED BY <1>1, <1>3, <2>1, <2>2, QuietShard
<1>5. CASE Emit(s, t) /\ \E y, f : Activates1(s, m, y, f)
  <2>1. PICK y, f : Activates1(s, m, y, f)
    BY <1>5
  <2>2. t \in Outputs /\ t.kind = "tunnel" /\ t.shard = s
    BY <1>2 DEF Outputs, Tunnels, Activates
  <2>3. Emit(s, t)
    BY <1>5
  <2>4. /\ input' \in [Shards -> Seq(Inputs)] /\ \A u \in Shards : Len(input'[u]) <= InputCap
        /\ input'[s] = Tail(input[s]) /\ \A u \in Shards \ {s} : input'[u] = input[u]
        /\ input[s] # <<>>
    <3>1. input[s] # <<>>
      BY <1>1 DEF Heads
    <3> QED BY <1>1, <1>3, <3>1, ConsumeFacts
  <2>5. /\ Ins(input') = Ins(input)
        /\ \A u \in Shards : Once(input'[u], "adopt") /\ Range(input'[u]) \subseteq Range(input[u])
    BY <1>1, <1>3, ConsumePlaces
  <2>22. m.kind = "activate"
    BY <1>1 DEF Heads
  <2> HIDE DEF t, m
  <2>6. /\ output' \in [Shards -> Seq(Outputs)] /\ \A u \in Shards : Len(output'[u]) <= OutputCap
        /\ lost' \in BOOLEAN
    BY <1>1, <2>2, <2>3, EmitFacts
  <2>7. /\ \A u \in Shards : \A z \in Range(output'[u]) : z \in Range(output[u]) \/ (u = s /\ z = t)
        /\ Outs(output') = Outs(output) /\ \A u \in Shards : Once(output'[u], "migrate")
    BY <2>2, <2>3, EmitPlaces
  <2>8. /\ y \in TabOf(eng[s]) /\ f \in Engines /\ Local(f) /\ eng' = [eng EXCEPT ![s] = f]
        /\ TabOf(f) = (TabOf(eng[s]) \ {y}) \cup {[y EXCEPT !.reg = m.reg]}
    BY <2>1 DEF Activates1
  <2>9. eng' \in [Shards -> Engines] /\ LocalInv' /\ eng'[s] = f /\ \A u \in Shards \ {s} : eng'[u] = eng[u]
    BY <1>1, <2>8, EngStep
  <2>10. pending' = pending /\ bound' = bound /\ tunnels' = tunnels /\ regs' = regs /\ ids' = ids /\ jobs' = jobs
    BY <1>3 DEF router
  <2>11. Types'
    BY <2>4, <2>6, <2>9, <2>10 DEF Types
  <2>12. SameRequest(y, [y EXCEPT !.reg = m.reg]) /\ [y EXCEPT !.reg = m.reg].reg = m.reg
    <3>1. y \in Sessions
      BY <2>8, TableTypes
    <3> QED BY <3>1 DEF Sessions, SameRequest
  <2>13. \A u \in Shards : \A z \in TabOf(eng'[u]) : \E w \in TabOf(eng[u]) : SameRequest(w, z)
    <3>1. \A w : SameRequest(w, w)
      BY DEF SameRequest
    <3> QED BY <3>1, <2>8, <2>9, <2>12
  <2>14. PlaceInv' /\ LiveKept
    <3>1. \A u \in Shards : Once(output'[u], "migrate") /\ Once(input'[u], "adopt")
      BY <2>5, <2>7
    <3> QED BY <2>5, <2>7, <2>10, <2>13, <3>1, QuietPlaces
  <2>15. JobInv'
    <3>1. \A j \in jobs' : \E i \in jobs : SameRequest(i, j)
      BY <2>10 DEF SameRequest
    <3>2. \A i, j \in jobs' : i.locked /\ j.locked /\ i.dev = j.dev => i = j
      BY <2>10 DEF JobInv
    <3>3. \A u \in Shards : \A z \in Range(input'[u]) : z.kind = "activate" => z \in Range(input[u])
      BY <2>5
    <3> QED BY <2>9, <2>10, <2>11, <2>14, <3>1, <3>2, <3>3, JobStep
  <2>16. MessageInv'
    <3>1. \A u \in Shards : \A z \in Range(output'[u]) :
            z \in Range(output[u]) \/ (IF z.kind = "migrate" THEN MoveOK(z) ELSE z.shard = u)
      BY <2>2, <2>7
    <3>2. /\ \A z \in pending' : z \in pending
          /\ \A u \in Shards : \A z \in Range(input'[u]) : z \in Range(input[u])
      BY <2>5, <2>10
    <3> QED BY <3>1, <3>2, MessageStep
  <2>17. RegInv'
    <3> SUFFICES ASSUME NEW u \in Shards PROVE RegAt(TabOf(eng'[u]), input'[u], regs)
      BY <2>10 DEF RegInv, Tab
    <3>1. input[u] \in Seq(Inputs) /\ regs \in Nat /\ RegAt(TabOf(eng[u]), input[u], regs)
      BY DEF Types, RegInv, Tab
    <3>2. CASE u # s
      BY <3>1, <3>2, <2>4, <2>9
    <3>3. CASE u = s
      <4>1. \A z \in TabOf(eng'[s]) : z \in TabOf(eng[s]) \/ z.reg = m.reg
        BY <2>8, <2>9, <2>12
      <4>2. \A z \in TabOf(eng'[s]) : z \in TabOf(eng[s]) \/ z.reg = Head(input[s]).reg
        BY <4>1 DEF m
      <4>3. Head(input[s]).kind = "activate"
        BY <2>22 DEF m
      <4> QED BY <3>1, <3>3, <2>4, <4>2, <4>3, RegActivate
    <3> QED BY <3>2, <3>3
  <2> QED BY <2>9, <2>11, <2>14, <2>15, <2>16, <2>17
<1> QED BY <1>3, <1>4, <1>5

(* A message for some shards that is no AdoptSession: a datagram, an epoch,  *)
(* or an activation with the next registration.                              *)
LEMMA SendTable ==
  ASSUME TableInv, NEW m \in Inputs, m.kind # "adopt", UNCHANGED <<eng, output, router, ids>>,
         input' \in [Shards -> Seq(Inputs)], \A u \in Shards : Len(input'[u]) <= InputCap,
         \A u \in Shards : input'[u] = Append(input[u], m) \/ input'[u] = input[u],
         lost' \in BOOLEAN, jobs' \subseteq Jobs,
         \A j \in jobs' : \E i \in jobs : SameRequest(i, j),
         \A i, j \in jobs' : i.locked /\ j.locked /\ i.dev = j.dev => i = j,
         IF m.kind = "activate" THEN regs' = regs + 1 /\ m.reg = regs + 1 /\ \E j \in jobs : SameRequest(j, m)
                                ELSE regs' = regs
  PROVE  TableInv'
<1> USE DEF TableInv
<1>1. /\ \A u \in Shards : \A z \in Range(input'[u]) :
           z \in Range(input[u]) \/ (z = m /\ input'[u] = Append(input[u], m))
      /\ Ins(input') = Ins(input) /\ \A u \in Shards : Once(input'[u], "adopt")
  BY SendPlaces
<1>2. eng' = eng /\ output' = output /\ pending' = pending /\ bound' = bound /\ tunnels' = tunnels /\ ids' = ids
  BY DEF router
<1>3. regs' \in Nat
  BY DEF Types
<1>4. Types'
  BY <1>2, <1>3 DEF Types
<1>5. LocalInv'
  BY <1>2 DEF LocalInv
<1>6. PlaceInv' /\ LiveKept
  <2>1. \A u \in Shards : Once(output'[u], "migrate") /\ Once(input'[u], "adopt")
    BY <1>1, <1>2, PlaceQueues
  <2>2. \A u \in Shards : \A z \in TabOf(eng'[u]) : \E w \in TabOf(eng[u]) : SameRequest(w, z)
    BY <1>2 DEF SameRequest
  <2>3. Outs(output') = Outs(output)
    BY <1>2
  <2> QED BY <1>1, <1>2, <2>1, <2>2, <2>3, QuietPlaces
<1>7. JobInv'
  <2>1. \A u \in Shards : \A z \in Range(input'[u]) :
          z.kind = "activate" => z \in Range(input[u]) \/ \E j \in jobs : SameRequest(j, z)
    BY <1>1
  <2> QED BY <1>2, <1>4, <1>5, <1>6, <2>1, JobStep
<1>8. MessageInv'
  <2>1. /\ \A u \in Shards : \A z \in Range(output'[u]) : z \in Range(output[u])
        /\ \A z \in pending' : z \in pending
        /\ \A u \in Shards : \A z \in Range(input'[u]) : z.kind = "adopt" => z \in Range(input[u])
    BY <1>1, <1>2
  <2> QED BY <2>1, MessageStep
<1>9. RegInv'
  <2> SUFFICES ASSUME NEW u \in Shards PROVE RegAt(TabOf(eng[u]), input'[u], regs')
    BY <1>2 DEF RegInv, Tab
  <2>1. input[u] \in Seq(Inputs) /\ regs \in Nat /\ RegAt(TabOf(eng[u]), input[u], regs)
    BY DEF Types, RegInv, Tab
  <2>2. \A x \in TabOf(eng[u]) : x.reg \in Nat
    BY TableTypes
  <2>3. CASE m.kind = "activate"
    BY <2>1, <2>2, <2>3, RegNext
  <2>4. CASE m.kind # "activate"
    BY <2>1, <2>4, RegAppend
  <2> QED BY <2>3, <2>4
<1> QED BY <1>4, <1>5, <1>6, <1>7, <1>8, <1>9

LEMMA TableUdp ==
  ASSUME TableInv, NEW m \in Getconfs, RouteUdp(m)
  PROVE  TableInv'
<1> USE DEF TableInv
<1> DEFINE s == bound[m.key]
<1>1. s \in Shards /\ m \in Inputs /\ m.kind = "getconf"
  BY GetconfFacts DEF Types
<1>2. input[s] \in Seq(Inputs) /\ input \in [Shards -> Seq(Inputs)] /\ InputCap \in Nat
      /\ \A u \in Shards : Len(input[u]) <= InputCap
  BY <1>1, SessionAssumption DEF Types
<1>3. Append(input[s], m) \in Seq(Inputs) /\ Len(Append(input[s], m)) = Len(input[s]) + 1 /\ Len(input[s]) \in Nat
  BY <1>1, <1>2, AppendFacts
<1>4. Len(input[s]) < InputCap /\ input' = [input EXCEPT ![s] = Append(@, m)]
      /\ UNCHANGED <<eng, output, router, jobs, ids, regs, lost>>
  BY DEF RouteUdp, Room
<1>5. input' \in [Shards -> Seq(Inputs)] /\ input'[s] = Append(input[s], m)
      /\ \A u \in Shards \ {s} : input'[u] = input[u]
  BY <1>1, <1>2, <1>3, <1>4
<1>6. \A u \in Shards : Len(input'[u]) <= InputCap
  BY <1>2, <1>3, <1>4, <1>5
<1>7. \A u \in Shards : input'[u] = Append(input[u], m) \/ input'[u] = input[u]
  BY <1>5
<1>8. /\ lost' \in BOOLEAN /\ jobs' \subseteq Jobs /\ regs' = regs
      /\ \A j \in jobs' : \E i \in jobs : SameRequest(i, j)
      /\ \A i, j \in jobs' : i.locked /\ j.locked /\ i.dev = j.dev => i = j
  BY <1>4 DEF Types, JobInv, SameRequest
<1>9. UNCHANGED <<eng, output, router, ids>>
  BY <1>4
<1> QED BY <1>1, <1>5, <1>6, <1>7, <1>8, <1>9, SendTable

LEMMA TableEpoch ==
  ASSUME TableInv, NEW j \in jobs, GetconfEpoch(j)
  PROVE  TableInv'
<1> USE DEF TableInv
<1> DEFINE m == [kind |-> "epoch", dev |-> j.dev, gen |-> j.gen]
           k == [j EXCEPT !.locked = TRUE]
<1>1. j \in Jobs /\ k \in Jobs /\ SameRequest(j, k) /\ k.locked /\ k.dev = j.dev
  BY DEF Types, Jobs, SameRequest
<1>2. m \in Inputs /\ m.kind = "epoch"
  BY <1>1 DEF Inputs, Epochs, Jobs
<1>3. /\ \A i \in jobs : i.dev = j.dev => ~i.locked
      /\ jobs' = (jobs \ {j}) \cup {k} /\ Fanout(m) /\ UNCHANGED <<eng, output, router, ids>> /\ regs' = regs
  BY DEF GetconfEpoch
<1> HIDE DEF m, k
<1>4. /\ input' \in [Shards -> Seq(Inputs)] /\ \A u \in Shards : Len(input'[u]) <= InputCap
      /\ lost' \in BOOLEAN
      /\ \A u \in Shards : input'[u] = Append(input[u], m) \/ input'[u] = input[u]
  BY <1>2, <1>3, FanoutFacts
<1>5. /\ jobs' \subseteq Jobs
      /\ \A z \in jobs' : \E i \in jobs : SameRequest(i, z)
      /\ \A i, z \in jobs' : i.locked /\ z.locked /\ i.dev = z.dev => i = z
  <2>1. jobs' \subseteq Jobs
    BY <1>1, <1>3 DEF Types
  <2>2. \A z \in jobs' : \E i \in jobs : SameRequest(i, z)
    BY <1>1, <1>3 DEF SameRequest
  <2>3. \A i, z \in jobs' : i.locked /\ z.locked /\ i.dev = z.dev => i = z
    BY <1>1, <1>3 DEF JobInv
  <2> QED BY <2>1, <2>2, <2>3
<1> QED BY <1>2, <1>3, <1>4, <1>5, SendTable

LEMMA TableRegister ==
  ASSUME TableInv, NEW j \in jobs, GetconfActivate(j)
  PROVE  TableInv'
<1> USE DEF TableInv
<1> DEFINE m == [kind |-> "activate", id |-> j.id, dev |-> j.dev, gen |-> j.gen, reg |-> regs + 1]
<1>1. j \in Jobs /\ regs + 1 \in Nat
  BY DEF Types
<1>2. m \in Inputs /\ m.kind = "activate" /\ SameRequest(j, m) /\ m.reg = regs + 1
  BY <1>1 DEF Inputs, Activates, Jobs, SameRequest
<1>3. jobs' = jobs \ {j} /\ Fanout(m) /\ UNCHANGED <<eng, output, router, ids>> /\ regs' = regs + 1
  BY DEF GetconfActivate
<1> HIDE DEF m
<1>4. /\ input' \in [Shards -> Seq(Inputs)] /\ \A u \in Shards : Len(input'[u]) <= InputCap
      /\ lost' \in BOOLEAN
      /\ \A u \in Shards : input'[u] = Append(input[u], m) \/ input'[u] = input[u]
  BY <1>2, <1>3, FanoutFacts
<1>5. /\ jobs' \subseteq Jobs
      /\ \A z \in jobs' : \E i \in jobs : SameRequest(i, z)
      /\ \A i, z \in jobs' : i.locked /\ z.locked /\ i.dev = z.dev => i = z
  BY <1>3 DEF Types, JobInv, SameRequest
<1> QED BY <1>2, <1>3, <1>4, <1>5, SendTable

Adoption(m) == [kind |-> "adopt", x |-> m.x]

LEMMA DeliverFacts ==
  ASSUME Types, NEW m \in Migrations, Room(input[m.shard], InputCap), Deliver(m)
  PROVE  /\ Adoption(m) \in Inputs /\ Adoption(m).kind = "adopt" /\ Adoption(m).x = m.x /\ m.x \in Sessions
         /\ m.shard \in Shards /\ m.key \in Keys
         /\ input' \in [Shards -> Seq(Inputs)] /\ \A u \in Shards : Len(input'[u]) <= InputCap
         /\ input'[m.shard] = Append(input[m.shard], Adoption(m))
         /\ \A u \in Shards \ {m.shard} : input'[u] = input[u]
         /\ bound' \in [Keys -> Shards] /\ bound'[m.key] = m.shard
         /\ \A k \in Keys \ {m.key} : bound'[k] = bound[k]
<1> DEFINE a == Adoption(m)
           h == m.shard
<1>1. m.x \in Sessions /\ h \in Shards /\ m.key \in Keys
  BY DEF Migrations
<1>2. a \in Inputs /\ a.kind = "adopt" /\ a.x = m.x
  BY <1>1 DEF Adoption, Inputs, Adopts
<1>3. input' = [input EXCEPT ![h] = Append(@, a)] /\ bound' = [bound EXCEPT ![m.key] = h]
  BY DEF Deliver, Adoption
<1> HIDE DEF a, h
<1>4. input[h] \in Seq(Inputs) /\ input \in [Shards -> Seq(Inputs)] /\ InputCap \in Nat
      /\ (\A u \in Shards : Len(input[u]) <= InputCap) /\ Len(input[h]) < InputCap /\ bound \in [Keys -> Shards]
  BY <1>1, SessionAssumption DEF Types, Room, h
<1>5. Append(input[h], a) \in Seq(Inputs) /\ Len(Append(input[h], a)) = Len(input[h]) + 1 /\ Len(input[h]) \in Nat
  BY <1>2, <1>4, AppendFacts
<1>6. input' \in [Shards -> Seq(Inputs)] /\ input'[h] = Append(input[h], a)
      /\ \A u \in Shards \ {h} : input'[u] = input[u]
  BY <1>1, <1>3, <1>4, <1>5
<1>9. Len(input'[h]) <= InputCap
  BY <1>4, <1>5, <1>6
<1>7. \A u \in Shards : Len(input'[u]) <= InputCap
  BY <1>4, <1>6, <1>9
<1>8. bound' \in [Keys -> Shards] /\ bound'[m.key] = h /\ \A k \in Keys \ {m.key} : bound'[k] = bound[k]
  BY <1>1, <1>3, <1>4
<1> QED BY <1>1, <1>2, <1>6, <1>7, <1>8 DEF a, h

(* Sessions moved by the router: the tables stay as they are.                *)
LEMMA RouterTable ==
  ASSUME TableInv, Types', UNCHANGED <<eng, jobs, ids, regs>>,
         OnePlace(Tabs(eng), Outs(output'), PendOf(pending'), Ins(input'), ids),
         \A u \in Shards : Once(output'[u], "migrate") /\ Once(input'[u], "adopt"),
         \A l, n \in pending' : l.x.id = n.x.id => l = n,
         \A y \in Moving(Outs(output'), PendOf(pending'), Ins(input')) :
           y \in Moving(Outs(output), PendOf(pending), Ins(input)),
         \A u \in Shards : Range(output'[u]) \subseteq Range(output[u]),
         \A m \in pending' : m \in pending \/ MoveOK(m),
         \A u \in Shards : input'[u] = input[u] \/
           \E m \in Inputs : m.kind = "adopt" /\ u = Home[m.x.dev] /\ input'[u] = Append(input[u], m)
  PROVE  TableInv'
<1> USE DEF TableInv
<1>1. LocalInv'
  BY DEF LocalInv
<1>2. PlaceInv'
  BY DEF PlaceInv
<1>3. LiveKept
  <2> SUFFICES ASSUME NEW y \in Live' PROVE y \in Live
    BY DEF LiveKept, SameRequest
  <2>1. y \in Everywhere(Tabs(eng), Outs(output'), PendOf(pending'), Ins(input'))
    BY DEF Live, LiveOf
  <2> QED BY <2>1, EverywhereIs DEF Live, LiveOf
<1>4. ASSUME NEW u \in Shards, NEW z \in Range(input'[u])
      PROVE  z \in Range(input[u]) \/ (z.kind = "adopt" /\ u = Home[z.x.dev])
  <2>1. ASSUME NEW m \in Inputs, m.kind = "adopt", u = Home[m.x.dev], input'[u] = Append(input[u], m)
        PROVE  z \in Range(input[u]) \/ (z.kind = "adopt" /\ u = Home[z.x.dev])
    <3>1. input[u] \in Seq(Inputs)
      BY QueueTypes
    <3>2. Range(Append(input[u], m)) = Range(input[u]) \cup {m}
      BY <3>1, RangeAppend
    <3>3. z \in Range(input[u]) \/ z = m
      BY <3>2, <2>1
    <3> QED BY <2>1, <3>3
  <2> QED BY <2>1
<1>5. JobInv'
  <2>1. \A j \in jobs' : \E i \in jobs : SameRequest(i, j)
    BY DEF SameRequest
  <2>2. \A i, j \in jobs' : i.locked /\ j.locked /\ i.dev = j.dev => i = j
    BY DEF JobInv
  <2>3. \A u \in Shards : \A z \in Range(input'[u]) : z.kind = "activate" => z \in Range(input[u])
    BY <1>4
  <2> QED BY <1>1, <1>2, <1>3, <2>1, <2>2, <2>3, JobStep
<1>6. MessageInv'
  BY <1>4, MessageStep
<1>7. RegInv'
  <2> SUFFICES ASSUME NEW u \in Shards PROVE RegAt(TabOf(eng[u]), input'[u], regs)
    BY DEF RegInv, Tab
  <2>1. input[u] \in Seq(Inputs) /\ regs \in Nat /\ RegAt(TabOf(eng[u]), input[u], regs)
    BY DEF Types, RegInv, Tab
  <2>2. ASSUME NEW m \in Inputs, m.kind = "adopt", input'[u] = Append(input[u], m)
        PROVE  RegAt(TabOf(eng[u]), input'[u], regs)
    <3>1. m.kind # "activate"
      BY <2>2
    <3>2. RegAt(TabOf(eng[u]), Append(input[u], m), regs)
      BY <2>1, <3>1, RegAppend
    <3> QED BY <2>2, <3>2
  <2> QED BY <2>1, <2>2
<1> QED BY <1>1, <1>2, <1>5, <1>6, <1>7

LEMMA TableTake ==
  ASSUME TableInv, NEW s \in Shards, RouterTake(s)
  PROVE  TableInv'
<1> USE DEF TableInv
<1> DEFINE m == Head(output[s])
<1>1. output[s] # <<>> /\ output' = [output EXCEPT ![s] = Tail(@)] /\ UNCHANGED <<eng, jobs, ids, regs, lost>>
  BY DEF RouterTake
<1>2. /\ output' \in [Shards -> Seq(Outputs)] /\ \A u \in Shards : Len(output'[u]) <= OutputCap
      /\ m \in Outputs /\ m \in Range(output[s])
      /\ \A u \in Shards : Once(output'[u], "migrate") /\ Range(output'[u]) \subseteq Range(output[u])
      /\ m.kind # "migrate" => Outs(output') = Outs(output)
      /\ m.kind = "migrate" =>
           /\ m.x \in Outs(output)[s]
           /\ \A u \in Shards : \A y \in Outs(output')[u] : y \in Outs(output)[u] /\ (u = s => y.id # m.x.id)
  BY <1>1, TakePlaces
<1>3. /\ m.kind = "bind" => bound' = [bound EXCEPT ![m.key] = m.shard] /\ UNCHANGED <<input, pending, tunnels>>
      /\ m.kind = "tunnel" => tunnels' = [tunnels EXCEPT ![m.ip] = m.shard] /\ UNCHANGED <<input, pending, bound>>
      /\ m.kind \notin {"bind", "tunnel"} =>
           \/ Room(input[m.shard], InputCap) /\ Deliver(m) /\ UNCHANGED <<pending, tunnels>>
           \/ pending' = pending \cup {m} /\ UNCHANGED <<input, bound, tunnels>>
  BY DEF RouterTake
<1>4. m.kind \in {"bind", "tunnel", "migrate"} /\ (m.kind = "bind" => m \in Binds)
      /\ (m.kind = "tunnel" => m \in Tunnels) /\ (m.kind = "migrate" => m \in Migrations)
  BY <1>2, OutputKinds
<1>5. /\ OnePlace(Tabs(eng), Outs(output), PendOf(pending), Ins(input), ids)
      /\ \A u \in Shards : Once(input[u], "adopt")
      /\ \A l, n \in pending : l.x.id = n.x.id => l = n
  BY DEF PlaceInv
<1> HIDE DEF m
<1>6. CASE m.kind # "migrate"
  <2>1. input' = input /\ pending' = pending
    BY <1>3, <1>4, <1>6
  <2>2. bound' \in [Keys -> Shards] /\ tunnels' \in [Devices -> Shards]
    BY <1>3, <1>4, <1>6 DEF Types, Binds, Tunnels
  <2>3. Types'
    BY <1>1, <1>2, <2>1, <2>2 DEF Types
  <2> QED BY <1>1, <1>2, <1>5, <1>6, <2>1, <2>3, RouterTable
<1>7. CASE m.kind = "migrate" /\ Room(input[m.shard], InputCap) /\ Deliver(m) /\ UNCHANGED <<pending, tunnels>>
  <2> DEFINE a == Adoption(m)
             h == m.shard
  <2>1. /\ a \in Inputs /\ a.kind = "adopt" /\ a.x = m.x /\ h \in Shards
        /\ input' \in [Shards -> Seq(Inputs)] /\ \A u \in Shards : Len(input'[u]) <= InputCap
        /\ input'[h] = Append(input[h], a) /\ \A u \in Shards \ {h} : input'[u] = input[u]
        /\ bound' \in [Keys -> Shards]
    BY <1>4, <1>7, DeliverFacts
  <2>2. Types'
    BY <1>1, <1>2, <1>7, <2>1 DEF Types
  <2>3. h = Home[m.x.dev]
    BY <1>2, <1>7 DEF MessageInv, MoveOK
  <2> HIDE DEF a, h
  <2>4. /\ \A u \in Shards : \A y \in Ins(input')[u] :
             y \in Ins(input)[u] \/ (y = a.x /\ input'[u] = Append(input[u], a))
        /\ (\A u \in Shards : \A y \in Ins(input)[u] : y.id # a.x.id) => \A u \in Shards : Once(input'[u], "adopt")
    BY <2>1, SendPlaces
  <2>5. \A u \in Shards : input'[u] = Append(input[u], a) => u = h
    <3> SUFFICES ASSUME NEW u \in Shards, input'[u] = Append(input[u], a), u # h PROVE FALSE
      OBVIOUS
    <3>1. input[u] \in Seq(Inputs) /\ Append(input[u], a) = input[u]
      BY <2>1, QueueTypes
    <3>2. Len(Append(input[u], a)) = Len(input[u]) + 1 /\ Len(input[u]) \in Nat
      BY <2>1, <3>1, AppendFacts
    <3> QED BY <3>1, <3>2
  <2>6. \A u \in Shards : \A y \in Ins(input')[u] : y \in Ins(input)[u] \/ (u = h /\ y = m.x)
    BY <2>1, <2>4, <2>5
  <2>7. OnePlace(Tabs(eng), Outs(output'), PendOf(pending), Ins(input'), ids)
    <3>1. /\ m.x \in Outs(output)[s]
          /\ \A u \in Shards : \A y \in Outs(output')[u] : y \in Outs(output)[u] /\ (u = s => y.id # m.x.id)
      BY <1>2, <1>7
    <3>2. OnePlace(Tabs(eng), Outs(output), PendOf(pending), Ins(input), ids) /\ h \in Shards
      BY <1>5, <2>1
    <3> QED BY <3>1, <3>2, <2>6, PlaceRoute
  <2>8. \A u \in Shards : \A y \in Ins(input)[u] : y.id # a.x.id
    BY <1>2, <1>5, <1>7, <2>1 DEF OnePlace
  <2>9. \A y \in Moving(Outs(output'), PendOf(pending), Ins(input')) :
          y \in Moving(Outs(output), PendOf(pending), Ins(input))
    BY <1>2, <1>7, <2>6, MovingIs
  <2>10. \A u \in Shards : input'[u] = input[u] \/
           \E n \in Inputs : n.kind = "adopt" /\ u = Home[n.x.dev] /\ input'[u] = Append(input[u], n)
    BY <2>1, <2>3
  <2> QED BY <1>1, <1>2, <1>5, <1>7, <2>2, <2>4, <2>7, <2>8, <2>9, <2>10, RouterTable
<1>8. CASE m.kind = "migrate" /\ pending' = pending \cup {m} /\ UNCHANGED <<input, bound, tunnels>>
  <2>1. Types'
    BY <1>1, <1>2, <1>4, <1>8 DEF Types
  <2>2. \A y \in PendOf(pending') : y \in PendOf(pending) \/ y = m.x
    BY <1>8 DEF PendOf
  <2>3. OnePlace(Tabs(eng), Outs(output'), PendOf(pending'), Ins(input), ids)
    <3>1. /\ m.x \in Outs(output)[s]
          /\ \A u \in Shards : \A y \in Outs(output')[u] : y \in Outs(output)[u] /\ (u = s => y.id # m.x.id)
      BY <1>2, <1>8
    <3>2. OnePlace(Tabs(eng), Outs(output), PendOf(pending), Ins(input), ids)
      BY <1>5
    <3> QED BY <3>1, <3>2, <2>2, PlaceWait
  <2>4. \A y \in PendOf(pending) : y.id # m.x.id
    BY <1>2, <1>5, <1>8 DEF OnePlace
  <2>5. \A l, n \in pending' : l.x.id = n.x.id => l = n
    BY <1>5, <1>8, <2>4 DEF PendOf
  <2>6. MoveOK(m)
    BY <1>2, <1>8 DEF MessageInv
  <2>7. \A y \in Moving(Outs(output'), PendOf(pending'), Ins(input')) :
          y \in Moving(Outs(output), PendOf(pending), Ins(input))
    BY <1>2, <1>8, <2>2, MovingIs
  <2>8. Ins(input') = Ins(input) /\ \A u \in Shards : input'[u] = input[u]
    BY <1>8
  <2> QED BY <1>1, <1>2, <1>5, <1>8, <2>1, <2>3, <2>5, <2>6, <2>7, <2>8, RouterTable
<1> QED BY <1>3, <1>4, <1>6, <1>7, <1>8

LEMMA TableRetry ==
  ASSUME TableInv, NEW m \in pending, RouterRetry(m)
  PROVE  TableInv'
<1> USE DEF TableInv
<1> DEFINE a == Adoption(m)
           h == m.shard
<1>1. /\ Room(input[m.shard], InputCap) /\ Deliver(m) /\ pending' = pending \ {m}
      /\ UNCHANGED <<eng, output, tunnels, jobs, ids, regs, lost>>
  BY DEF RouterRetry
<1>2. m \in Migrations
  BY DEF Types
<1>3. /\ a \in Inputs /\ a.kind = "adopt" /\ a.x = m.x /\ h \in Shards
      /\ input' \in [Shards -> Seq(Inputs)] /\ \A u \in Shards : Len(input'[u]) <= InputCap
      /\ input'[h] = Append(input[h], a) /\ \A u \in Shards \ {h} : input'[u] = input[u]
      /\ bound' \in [Keys -> Shards]
  BY <1>1, <1>2, DeliverFacts
<1>4. h = Home[m.x.dev]
  BY DEF MessageInv, MoveOK
<1>5. /\ OnePlace(Tabs(eng), Outs(output), PendOf(pending), Ins(input), ids)
      /\ \A u \in Shards : Once(output[u], "migrate")
      /\ \A l, n \in pending : l.x.id = n.x.id => l = n
  BY DEF PlaceInv
<1> HIDE DEF a, h
<1>6. Types'
  BY <1>1, <1>3 DEF Types
<1>7. /\ \A u \in Shards : \A y \in Ins(input')[u] :
           y \in Ins(input)[u] \/ (y = a.x /\ input'[u] = Append(input[u], a))
      /\ (\A u \in Shards : \A y \in Ins(input)[u] : y.id # a.x.id) => \A u \in Shards : Once(input'[u], "adopt")
  BY <1>3, SendPlaces
<1>8. \A u \in Shards : input'[u] = Append(input[u], a) => u = h
  <2> SUFFICES ASSUME NEW u \in Shards, input'[u] = Append(input[u], a), u # h PROVE FALSE
    OBVIOUS
  <2>1. input[u] \in Seq(Inputs) /\ Append(input[u], a) = input[u]
    BY <1>3, QueueTypes
  <2>2. Len(Append(input[u], a)) = Len(input[u]) + 1 /\ Len(input[u]) \in Nat
    BY <1>3, <2>1, AppendFacts
  <2> QED BY <2>1, <2>2
<1>9. \A u \in Shards : \A y \in Ins(input')[u] : y \in Ins(input)[u] \/ (u = h /\ y = m.x)
  BY <1>3, <1>7, <1>8
<1>10. m.x \in PendOf(pending) /\ \A y \in PendOf(pending') : y \in PendOf(pending) /\ y.id # m.x.id
  BY <1>1, <1>5 DEF PendOf
<1>11. OnePlace(Tabs(eng), Outs(output), PendOf(pending'), Ins(input'), ids)
  <2>1. OnePlace(Tabs(eng), Outs(output), PendOf(pending), Ins(input), ids) /\ h \in Shards
    BY <1>3, <1>5
  <2> QED BY <2>1, <1>9, <1>10, PlaceRetry
<1>12. \A u \in Shards : \A y \in Ins(input)[u] : y.id # a.x.id
  BY <1>3, <1>5, <1>10 DEF OnePlace
<1>13. \A y \in Moving(Outs(output), PendOf(pending'), Ins(input')) :
         y \in Moving(Outs(output), PendOf(pending), Ins(input))
  BY <1>9, <1>10, MovingIs
<1>14. \A u \in Shards : input'[u] = input[u] \/
         \E n \in Inputs : n.kind = "adopt" /\ u = Home[n.x.dev] /\ input'[u] = Append(input[u], n)
  BY <1>3, <1>4
<1>15. /\ Outs(output') = Outs(output) /\ (\A u \in Shards : output'[u] = output[u])
       /\ (\A l, n \in pending' : l.x.id = n.x.id => l = n) /\ \A l \in pending' : l \in pending
  BY <1>1, <1>5
<1> QED BY <1>1, <1>5, <1>6, <1>7, <1>11, <1>12, <1>13, <1>14, <1>15, RouterTable

LEMMA EmptyFacts ==
  /\ NoEngine \in Engines /\ Local(NoEngine) /\ KeyOK(NoEngine) /\ ServedOK(NoEngine) /\ TabOf(NoEngine) = {}
  /\ NoEngine.marks = {}
<1>1. DOMAIN Empty = {}
  BY DEF Empty
<1>2. \A A, B : Empty \in Partial(A, B)
  <2> SUFFICES ASSUME NEW A, NEW B PROVE Empty \in Partial(A, B)
    OBVIOUS
  <2>1. Empty \in [{} -> B] /\ {} \in SUBSET A
    BY DEF Empty
  <2> QED BY <2>1, PartialIs
<1> DEFINE e == NoEngine
<1>3. e.tab = Empty /\ e.peer = Empty /\ e.id = Empty /\ e.routes = {} /\ e.marks = {}
  BY DEF NoEngine
<1>4. NoEngine \in Engines
  <2> HIDE DEF Empty
  <2> QED BY <1>2 DEF NoEngine, Engines
<1> HIDE DEF e
<1>5. Local(e) /\ KeyOK(e) /\ ServedOK(e) /\ TabOf(e) = {}
  BY <1>1, <1>3 DEF Local, IdOK, PeerOK, RouteOK, RegOK, KeyOK, ServedOK, TabOf
<1> QED BY <1>3, <1>4, <1>5 DEF e

LEMMA EmptyQueue ==
  ASSUME NEW kind
  PROVE  Carried(<<>>, kind) = {} /\ Once(<<>>, kind) /\ Range(<<>>) = {} /\ DOMAIN <<>> = {} /\ Len(<<>>) = 0
<1> DEFINE q == <<>>
<1>1. DOMAIN q = {} /\ Len(q) = 0
  OBVIOUS
<1> HIDE DEF q
<1>2. \A x : x \notin Carried(q, kind)
  BY <1>1, CarriedIs
<1>3. \A x : x \notin Range(q)
  BY <1>1, RangeIs
<1>4. Once(q, kind)
  BY <1>1 DEF Once
<1> QED BY <1>1, <1>2, <1>3, <1>4 DEF q

LEMMA InitFacts ==
  ASSUME Init
  PROVE  /\ Types /\ LocalInv /\ Live = {}
         /\ \A s \in Shards : /\ eng[s] = NoEngine /\ TabOf(eng[s]) = {} /\ input[s] = <<>> /\ output[s] = <<>>
                              /\ Range(input[s]) = {} /\ Range(output[s]) = {}
                              /\ DOMAIN input[s] = {} /\ DOMAIN output[s] = {}
         /\ pending = {} /\ jobs = {} /\ ids = 0 /\ regs = 0
<1>1. /\ eng = [s \in Shards |-> NoEngine]
      /\ input = [s \in Shards |-> <<>>] /\ output = input
      /\ pending = {} /\ bound = [k \in Keys |-> 0] /\ tunnels = [d \in Devices |-> 0]
      /\ jobs = {} /\ ids = 0 /\ regs = 0 /\ lost = FALSE
  BY DEF Init
<1>2. \A s \in Shards : eng[s] = NoEngine /\ input[s] = <<>> /\ output[s] = <<>>
  BY <1>1
<1>3. Types
  <2>1. eng \in [Shards -> Engines]
    BY <1>1, EmptyFacts
  <2>2. input \in [Shards -> Seq(Inputs)] /\ output \in [Shards -> Seq(Outputs)]
    BY <1>1
  <2>3. \A s \in Shards : Len(input[s]) <= InputCap /\ Len(output[s]) <= OutputCap
    BY <1>2, SessionAssumption
  <2>4. bound \in [Keys -> Shards] /\ tunnels \in [Devices -> Shards]
    BY <1>1, SessionAssumption
  <2> QED BY <1>1, <2>1, <2>2, <2>3, <2>4 DEF Types
<1>4. LocalInv
  BY <1>2, EmptyFacts DEF LocalInv
<1>5. \A s \in Shards : TabOf(eng[s]) = {}
  BY <1>2, EmptyFacts
<1>6. \A s \in Shards : Range(input[s]) = {} /\ Range(output[s]) = {} /\ DOMAIN input[s] = {} /\ DOMAIN output[s] = {}
  BY <1>2, EmptyQueue
<1>7. \A s \in Shards : Carried(input[s], "adopt") = {} /\ Carried(output[s], "migrate") = {}
  BY <1>2, EmptyQueue
<1>8. PendOf(pending) = {}
  BY <1>1 DEF PendOf
<1>9. \A x : x \notin Live
  BY <1>5, <1>7, <1>8, LiveIs DEF Live
<1> QED BY <1>1, <1>2, <1>3, <1>4, <1>5, <1>6, <1>9

LEMMA TableInit ==
  ASSUME Init
  PROVE  TableInv
<1>1. PlaceInv
  <2>1. Everywhere(Tabs(eng), Outs(output), PendOf(pending), Ins(input)) = {}
    BY InitFacts DEF Live, LiveOf
  <2>2. \A x : x \notin Moving(Outs(output), PendOf(pending), Ins(input))
    BY <2>1, EverywhereIs
  <2>3. \A s \in Shards : \A x : x \notin Tabs(eng)[s]
    BY <2>1, EverywhereIs
  <2>4. (\A s \in Shards : \A x : x \notin Outs(output)[s] /\ x \notin Ins(input)[s]) /\ \A x : x \notin PendOf(pending)
    BY <2>2, MovingIs
  <2>5. OnePlace(Tabs(eng), Outs(output), PendOf(pending), Ins(input), ids)
    BY <2>1, <2>2, <2>3, <2>4 DEF OnePlace
  <2> QED BY <2>5, InitFacts, EmptyQueue DEF PlaceInv
<1>2. MessageInv
  BY InitFacts DEF MessageInv
<1>3. JobInv
  BY InitFacts DEF JobInv
<1>4. RegInv
  BY InitFacts DEF RegInv, RegAt, Tab
<1> QED BY <1>1, <1>2, <1>3, <1>4, InitFacts DEF TableInv

(* The steps of Next.                                                        *)
LEMMA NextCases ==
  ASSUME Next
  PROVE  \/ \E s \in Shards : \/ CreateStep(s) \/ OnUdpIgnored(s) \/ OnUdpExisting(s) \/ OnAdopt(s)
                              \/ OnActivate(s) \/ Compact(s) \/ DropStep(s) \/ RouterTake(s)
                              \/ \E k \in Keys : SweepMark(s, k)
         \/ \E m \in Getconfs : RouteUdp(m)
         \/ \E m \in pending : RouterRetry(m)
         \/ \E j \in jobs : GetconfEpoch(j) \/ GetconfActivate(j)
BY DEF Next, ShardStep, CreateStep, DropStep

LEMMA TableNext ==
  ASSUME TableInv, [Next]_vars
  PROVE  TableInv'
<1>1. CASE UNCHANGED vars
  BY <1>1 DEF vars, router, TableInv, Types, LocalInv, PlaceInv, MessageInv, MoveOK, JobInv, NamesWell, Live,
              RegInv, Tab
<1>2. CASE Next
  BY <1>2, NextCases, TableCreate, TableIgnored, TableExisting, TableAdopt, TableActivate, TableCompact,
     TableDrop, TableTake, TableSweep, TableUdp, TableRetry, TableEpoch, TableRegister
<1> QED BY <1>1, <1>2

(* The inductive invariant behind all that follows: on every shard by_id,    *)
(* the slab, by_peer and the routes agree, every session is in one table or  *)
(* in one message under way, and requests and commands name the device and   *)
(* the generation of their session, registrations in growing order.          *)
THEOREM TablesHold == Spec => []TableInv
BY TableInit, TableNext, PTL DEF Spec

(* Every endpoint of the route table of every shard leads to the live        *)
(* session that registered it, and a stream has one route, whatever order of *)
(* setup, migration, activation, compaction and removal (RouteTable,         *)
(* remove_slot_with_reason, activate_tunnel, compact_memory).                *)
THEOREM RoutesAlwaysLive == Spec => []RoutesLive
<1>1. TableInv => RoutesLive
  BY DEF TableInv, LocalInv, Local, RouteOK, RouteOf, RoutesLive
<1> QED BY <1>1, TablesHold, PTL

-------------------------------------------------------------------------------
(* Endpoints: the queues                                                     *)

LEMMA OrderTail ==
  ASSUME NEW S, NEW q \in Seq(S), q # <<>>, Order(q)
  PROVE  /\ Order(Tail(q))
         /\ Head(q).kind = "migrate" =>
              \A m \in Range(Tail(q)) : m.kind = "bind" => m.key # Head(q).key
<1> DEFINE r == Tail(q)
<1>1. /\ \A i \in DOMAIN r : i \in Nat \ {0} /\ i + 1 \in DOMAIN q /\ r[i] = q[i + 1]
      /\ 1 \in DOMAIN q /\ Head(q) = q[1]
  BY TailFacts
<1> HIDE DEF r
<1>2. Order(r)
  BY <1>1 DEF Order
<1>3. ASSUME q[1].kind = "migrate", NEW m \in Range(r), m.kind = "bind" PROVE m.key # q[1].key
  <2>1. PICK i \in DOMAIN r : m = r[i]
    BY RangeIs
  <2> QED BY <1>1, <1>3, <2>1 DEF Order
<1> QED BY <1>1, <1>2, <1>3 DEF r

LEMMA OrderAppend ==
  ASSUME NEW S, NEW q \in Seq(S), NEW m \in S, Order(q),
         m.kind = "bind" => \A z \in Range(q) : z.kind = "migrate" => z.key # m.key
  PROVE  Order(Append(q, m))
<1> DEFINE A == Append(q, m)
           k == Len(q) + 1
<1>1. /\ A[k] = m /\ \A i \in DOMAIN q : A[i] = q[i]
      /\ \A i \in DOMAIN A : i \in Nat /\ i <= k /\ (i \in DOMAIN q \/ i = k)
  BY AppendFacts
<1> HIDE DEF A
<1>2. \A i \in DOMAIN q : q[i] \in Range(q)
  BY RangeIs
<1>3. k \in Nat
  BY AppendFacts
<1> HIDE DEF k
<1>4. Order(A)
  BY <1>1, <1>2, <1>3 DEF Order
<1> QED BY <1>4 DEF A

LEMMA EarlyTail ==
  ASSUME NEW S, NEW q \in Seq(S), q # <<>>, NEW M, Early(q, M)
  PROVE  /\ Early(Tail(q), M)
         /\ Head(q).kind = "getconf" =>
              \A m \in Range(Tail(q)) : m.kind = "adopt" /\ m.x.key = Head(q).key => Head(q).key \in M
<1> DEFINE r == Tail(q)
<1>1. /\ \A i \in DOMAIN r : i \in Nat \ {0} /\ i + 1 \in DOMAIN q /\ r[i] = q[i + 1]
      /\ 1 \in DOMAIN q /\ Head(q) = q[1]
  BY TailFacts
<1> HIDE DEF r
<1>2. Early(r, M)
  BY <1>1 DEF Early
<1>3. ASSUME q[1].kind = "getconf", NEW m \in Range(r), m.kind = "adopt", m.x.key = q[1].key PROVE q[1].key \in M
  <2>1. PICK i \in DOMAIN r : m = r[i]
    BY RangeIs
  <2> QED BY <1>1, <1>3, <2>1 DEF Early
<1> QED BY <1>1, <1>2, <1>3 DEF r

LEMMA EarlyAppend ==
  ASSUME NEW S, NEW q \in Seq(S), NEW m \in S, NEW M, Early(q, M),
         m.kind = "adopt" => \A z \in Range(q) : z.kind = "getconf" /\ z.key = m.x.key => z.key \in M
  PROVE  Early(Append(q, m), M)
<1> DEFINE A == Append(q, m)
           k == Len(q) + 1
<1>1. /\ A[k] = m /\ \A i \in DOMAIN q : A[i] = q[i]
      /\ \A i \in DOMAIN A : i \in Nat /\ i <= k /\ (i \in DOMAIN q \/ i = k)
  BY AppendFacts
<1> HIDE DEF A
<1>2. \A i \in DOMAIN q : q[i] \in Range(q)
  BY RangeIs
<1>3. k \in Nat
  BY AppendFacts
<1> HIDE DEF k
<1>4. Early(A, M)
  BY <1>1, <1>2, <1>3 DEF Early
<1> QED BY <1>4 DEF A

(* Marks of other endpoints than k may be forgotten when no k is arriving.   *)
LEMMA EarlyMarks ==
  ASSUME NEW q, NEW M, Early(q, M), NEW N, NEW k, M \ {k} \subseteq N,
         k \in N \/ \A m \in Range(q) : m.kind = "adopt" => m.x.key # k
  PROVE  Early(q, N)
<1>1. \A i \in DOMAIN q : q[i] \in Range(q)
  BY RangeIs
<1> QED BY <1>1 DEF Early

LEMMA CarriedRange ==
  ASSUME NEW q, NEW kind, NEW x
  PROVE  x \in Carried(q, kind) <=> \E m \in Range(q) : m.kind = kind /\ x = m.x
<1>1. \A m : m \in Range(q) <=> \E i \in DOMAIN q : m = q[i]
  BY RangeIs
<1>2. x \in Carried(q, kind) <=> \E i \in DOMAIN q : q[i].kind = kind /\ x = q[i].x
  BY CarriedIs
<1> QED BY <1>1, <1>2

(* Where the live sessions are.                                              *)
LEMMA LiveAt ==
  ASSUME NEW E, NEW R, NEW P, NEW Q
  PROVE  /\ \A s \in Shards : \A x \in TabOf(E[s]) : x \in LiveOf(E, R, P, Q)
         /\ \A s \in Shards : \A m \in Range(R[s]) : m.kind = "migrate" => m.x \in LiveOf(E, R, P, Q)
         /\ \A m \in P : m.x \in LiveOf(E, R, P, Q)
         /\ \A s \in Shards : \A m \in Range(Q[s]) : m.kind = "adopt" => m.x \in LiveOf(E, R, P, Q)
         /\ \A x \in LiveOf(E, R, P, Q) :
              \/ \E s \in Shards : x \in TabOf(E[s])
              \/ \E s \in Shards : \E m \in Range(R[s]) : m.kind = "migrate" /\ x = m.x
              \/ \E m \in P : x = m.x
              \/ \E s \in Shards : \E m \in Range(Q[s]) : m.kind = "adopt" /\ x = m.x
<1>1. \A x : x \in LiveOf(E, R, P, Q) <=>
               \/ \E s \in Shards : x \in TabOf(E[s])
               \/ \E s \in Shards : x \in Carried(R[s], "migrate")
               \/ x \in PendOf(P)
               \/ \E s \in Shards : x \in Carried(Q[s], "adopt")
  BY LiveIs
<1>2. \A q, kind, x : x \in Carried(q, kind) <=> \E m \in Range(q) : m.kind = kind /\ x = m.x
  BY CarriedRange
<1>3. \A x : x \in PendOf(P) <=> \E m \in P : x = m.x
  BY DEF PendOf
<1>4. /\ \A s \in Shards : \A x \in TabOf(E[s]) : x \in LiveOf(E, R, P, Q)
      /\ \A m \in P : m.x \in LiveOf(E, R, P, Q)
  BY <1>1, <1>3
<1>5. \A s \in Shards : \A m \in Range(R[s]) : m.kind = "migrate" => m.x \in LiveOf(E, R, P, Q)
  BY <1>1, <1>2
<1>6. \A s \in Shards : \A m \in Range(Q[s]) : m.kind = "adopt" => m.x \in LiveOf(E, R, P, Q)
  BY <1>1, <1>2
<1>7. ASSUME NEW x \in LiveOf(E, R, P, Q)
      PROVE  \/ \E s \in Shards : x \in TabOf(E[s])
             \/ \E s \in Shards : \E m \in Range(R[s]) : m.kind = "migrate" /\ x = m.x
             \/ \E m \in P : x = m.x
             \/ \E s \in Shards : \E m \in Range(Q[s]) : m.kind = "adopt" /\ x = m.x
  BY <1>1, <1>2, <1>3
<1> QED BY <1>4, <1>5, <1>6, <1>7

-------------------------------------------------------------------------------
(* EndpointInv is kept                                                       *)

\* No session of the endpoint is under way.
SettledIn(R, P, Q, k) ==
  /\ \A s \in Shards : \A m \in Range(R[s]) : m.kind = "migrate" => m.key # k
  /\ \A m \in P : m.key # k
  /\ \A s \in Shards : \A m \in Range(Q[s]) : m.kind = "adopt" => m.x.key # k
Settled(k) == SettledIn(output, pending, input, k)

\* The sessions of an endpoint are all in the same place.
Apart(E, R, P, Q) ==
  /\ \A s, u \in Shards : \A x \in TabOf(E[s]), y \in TabOf(E[u]) : x.key = y.key => s = u
  /\ \A s \in Shards : \A x \in TabOf(E[s]) : SettledIn(R, P, Q, x.key)
  /\ \A s, u \in Shards : \A m \in Range(R[s]), n \in Range(Q[u]) :
       m.kind = "migrate" /\ n.kind = "adopt" => m.key # n.x.key
  /\ \A s \in Shards : \A m \in Range(R[s]), n \in P : m.kind = "migrate" => m.key # n.key
  /\ \A s \in Shards : \A m \in P, n \in Range(Q[s]) : n.kind = "adopt" => m.key # n.x.key
  /\ \A s, u \in Shards : \A m \in Range(Q[s]), n \in Range(Q[u]) :
       m.kind = "adopt" /\ n.kind = "adopt" /\ m.x.key = n.x.key => s = u
  /\ \A m, n \in P : m.key = n.key => m.x = n.x

LEMMA KeysApart ==
  ASSUME NEW E, NEW R, NEW P, NEW Q, NEW n, OnePlace(Tabs(E), Outs(R), PendOf(P), Ins(Q), n),
         \A x, y \in LiveOf(E, R, P, Q) : x.key = y.key => x = y,
         \A s \in Shards : \A m \in Range(R[s]) : m.kind = "migrate" => m.key = m.x.key,
         \A m \in P : m.key = m.x.key
  PROVE  Apart(E, R, P, Q)
<1>1. /\ \A s \in Shards : \A y \in TabOf(E[s]) : y \in LiveOf(E, R, P, Q) /\ y \in Tabs(E)[s]
      /\ \A m \in P : m.x \in LiveOf(E, R, P, Q) /\ m.x \in PendOf(P)
  BY LiveAt DEF Tabs, PendOf
<1>2. \A s \in Shards : \A m \in Range(R[s]) : m.kind = "migrate" => m.x \in LiveOf(E, R, P, Q) /\ m.x \in Outs(R)[s]
  <2>1. \A s \in Shards : Outs(R)[s] = Carried(R[s], "migrate")
    BY DEF Outs
  <2> QED BY <2>1, LiveAt, CarriedRange
<1>3. \A s \in Shards : \A m \in Range(Q[s]) : m.kind = "adopt" => m.x \in LiveOf(E, R, P, Q) /\ m.x \in Ins(Q)[s]
  <2>1. \A s \in Shards : Ins(Q)[s] = Carried(Q[s], "adopt")
    BY DEF Ins
  <2> QED BY <2>1, LiveAt, CarriedRange
<1>4. /\ \A s \in Shards : \A x \in Outs(R)[s] : x \in Moving(Outs(R), PendOf(P), Ins(Q))
      /\ \A s \in Shards : \A x \in Ins(Q)[s] : x \in Moving(Outs(R), PendOf(P), Ins(Q))
      /\ \A x \in PendOf(P) : x \in Moving(Outs(R), PendOf(P), Ins(Q))
  BY MovingIs
<1> DEFINE L == LiveOf(E, R, P, Q)
           T == Tabs(E)
           O == Outs(R)
           W == PendOf(P)
           I == Ins(Q)
           V == Moving(O, W, I)
<1>5. /\ \A s, u \in Shards : \A x \in T[s], y \in T[u] : x.id = y.id => s = u
      /\ \A s \in Shards : \A x \in T[s], y \in V : x.id # y.id
      /\ \A s \in Shards : \A x \in O[s], y \in W : x.id # y.id
      /\ \A s, u \in Shards : \A x \in O[s], y \in I[u] : x.id # y.id
      /\ \A s \in Shards : \A x \in W, y \in I[s] : x.id # y.id
      /\ \A s, u \in Shards : \A x \in I[s], y \in I[u] : x.id = y.id => s = u
  BY DEF OnePlace
<1>6. \A x, y \in L : x.key = y.key => x = y
  OBVIOUS
<1> HIDE DEF L, T, O, W, I, V
<1>7. /\ \A s \in Shards : \A y \in TabOf(E[s]) : y \in L /\ y \in T[s]
      /\ \A m \in P : m.x \in L /\ m.x \in W /\ m.x \in V /\ m.key = m.x.key
      /\ \A s \in Shards : \A m \in Range(R[s]) :
           m.kind = "migrate" => m.x \in L /\ m.x \in O[s] /\ m.x \in V /\ m.key = m.x.key
      /\ \A s \in Shards : \A m \in Range(Q[s]) : m.kind = "adopt" => m.x \in L /\ m.x \in I[s] /\ m.x \in V
  BY <1>1, <1>2, <1>3, <1>4 DEF L, T, O, W, I, V
<1>8. \A s, u \in Shards : \A x \in TabOf(E[s]), y \in TabOf(E[u]) : x.key = y.key => s = u
  BY <1>5, <1>6, <1>7
<1>9. \A s \in Shards : \A x \in TabOf(E[s]) : SettledIn(R, P, Q, x.key)
  BY <1>5, <1>6, <1>7 DEF SettledIn
<1>10. \A s, u \in Shards : \A m \in Range(R[s]), k \in Range(Q[u]) :
         m.kind = "migrate" /\ k.kind = "adopt" => m.key # k.x.key
  BY <1>5, <1>6, <1>7
<1>11. \A s \in Shards : \A m \in Range(R[s]), k \in P : m.kind = "migrate" => m.key # k.key
  BY <1>5, <1>6, <1>7
<1>12. \A s \in Shards : \A m \in P, k \in Range(Q[s]) : k.kind = "adopt" => m.key # k.x.key
  BY <1>5, <1>6, <1>7
<1>13. \A s, u \in Shards : \A m \in Range(Q[s]), k \in Range(Q[u]) :
         m.kind = "adopt" /\ k.kind = "adopt" /\ m.x.key = k.x.key => s = u
  BY <1>5, <1>6, <1>7
<1>14. \A m, k \in P : m.key = k.key => m.x = k.x
  BY <1>6, <1>7
<1> QED BY <1>8, <1>9, <1>10, <1>11, <1>12, <1>13, <1>14 DEF Apart

LEMMA ApartNow ==
  ASSUME TableInv, OneEach
  PROVE  Apart(eng, output, pending, input)
<1>1. /\ OnePlace(Tabs(eng), Outs(output), PendOf(pending), Ins(input), ids)
      /\ \A x, y \in LiveOf(eng, output, pending, input) : x.key = y.key => x = y
      /\ \A s \in Shards : \A m \in Range(output[s]) : m.kind = "migrate" => m.key = m.x.key
      /\ \A m \in pending : m.key = m.x.key
  BY DEF TableInv, PlaceInv, MessageInv, MoveOK, OneEach, Live
<1> QED BY <1>1, KeysApart

LEMMA ApartNext ==
  ASSUME TableInv', OneEach'
  PROVE  Apart(eng', output', pending', input')
<1>1. /\ OnePlace(Tabs(eng'), Outs(output'), PendOf(pending'), Ins(input'), ids')
      /\ \A x, y \in LiveOf(eng', output', pending', input') : x.key = y.key => x = y
      /\ \A s \in Shards : \A m \in Range(output'[s]) : m.kind = "migrate" => m.key = m.x.key
      /\ \A m \in pending' : m.key = m.x.key
  BY DEF TableInv, PlaceInv, MessageInv, MoveOK, OneEach, Live
<1> QED BY <1>1, KeysApart

LEMMA OneStep ==
  ASSUME LocalInv', PlaceInv', OneEach, \A y \in Live' : \E x \in Live : x.id = y.id /\ x.key = y.key
  PROVE  OneEach'
<1> SUFFICES ASSUME NEW x \in Live', NEW y \in Live', x.key = y.key PROVE x = y
  BY DEF OneEach
<1>1. PICK v \in Live : v.id = x.id /\ v.key = x.key
  OBVIOUS
<1>2. PICK w \in Live : w.id = y.id /\ w.key = y.key
  OBVIOUS
<1>3. v = w
  BY <1>1, <1>2 DEF OneEach
<1>4. Unique(Live')
  BY UniqueNext
<1> QED BY <1>1, <1>2, <1>3, <1>4 DEF Unique

(* Steps that leave the endpoints of all sessions and all marks alone.       *)
LEMMA EndQuiet ==
  ASSUME TableInv', EndpointInv, bound' = bound, pending' = pending,
         \A u \in Shards : (KeyOK(eng[u]) => KeyOK(eng'[u])) /\ eng'[u].marks = eng[u].marks,
         \A u \in Shards : \A x \in TabOf(eng'[u]) : \E y \in TabOf(eng[u]) : y.id = x.id /\ y.key = x.key,
         \A u \in Shards : \A z \in Range(output'[u]) : z \in Range(output[u]) \/ z.kind = "tunnel",
         \A u \in Shards : \A z \in Range(input'[u]) :
           z \in Range(input[u]) \/ z.kind \in {"epoch", "activate"} \/ (z.kind = "getconf" /\ bound[z.key] = u),
         \A u \in Shards : Order(output'[u]) /\ Early(input'[u], eng[u].marks)
  PROVE  EndpointInv'
<1>1. \A u \in Shards : KeyOK(eng'[u])
  BY DEF EndpointInv
<1>2. OneEach'
  <2> SUFFICES ASSUME NEW y \in Live' PROVE \E x \in Live : x.id = y.id /\ x.key = y.key
    BY OneStep DEF TableInv, EndpointInv
  <2>1. \/ \E s \in Shards : y \in TabOf(eng'[s])
        \/ \E s \in Shards : \E m \in Range(output'[s]) : m.kind = "migrate" /\ y = m.x
        \/ \E m \in pending' : y = m.x
        \/ \E s \in Shards : \E m \in Range(input'[s]) : m.kind = "adopt" /\ y = m.x
    BY LiveAt DEF Live
  <2>2. /\ \A s \in Shards : \A x \in TabOf(eng[s]) : x \in Live
        /\ \A s \in Shards : \A m \in Range(output[s]) : m.kind = "migrate" => m.x \in Live
        /\ \A m \in pending : m.x \in Live
        /\ \A s \in Shards : \A m \in Range(input[s]) : m.kind = "adopt" => m.x \in Live
    BY LiveAt DEF Live
  <2> QED BY <2>1, <2>2
<1>3. BoundInv'
  BY DEF EndpointInv, BoundInv, Tab
<1>4. MarkInv'
  BY DEF EndpointInv, MarkInv
<1>5. LeaveInv'
  BY DEF EndpointInv, LeaveInv
<1>6. WaitInv'
  <2> SUFFICES ASSUME NEW m \in pending PROVE m.key \in eng'[bound[m.key]].marks /\ NoBind(m.key)'
    BY DEF WaitInv
  <2>1. m.key \in eng[bound[m.key]].marks /\ NoBind(m.key) /\ bound[m.key] \in Shards
    BY DEF EndpointInv, WaitInv, TableInv, Types, Migrations
  <2> QED BY <2>1 DEF NoBind
<1>7. ArriveInv'
  <2> SUFFICES ASSUME NEW s \in Shards, NEW m \in Range(input'[s]), m.kind = "adopt"
               PROVE  bound[m.x.key] = s /\ NoBind(m.x.key)'
    BY DEF ArriveInv
  <2>1. bound[m.x.key] = s /\ NoBind(m.x.key)
    BY DEF EndpointInv, ArriveInv
  <2> QED BY <2>1 DEF NoBind
<1> QED BY <1>1, <1>2, <1>3, <1>4, <1>5, <1>6, <1>7 DEF EndpointInv

(* The queue of a shard after a message was taken from it.                   *)
LEMMA ConsumeEarly ==
  ASSUME TableInv, EndpointInv, NEW s \in Shards, NEW kind, Heads(s, kind), Consume(s)
  PROVE  /\ \A u \in Shards : Early(input'[u], eng[u].marks) /\ Range(input'[u]) \subseteq Range(input[u])
         /\ input[s] # <<>> /\ input[s] \in Seq(Inputs) /\ input'[s] = Tail(input[s])
         /\ Head(input[s]) \in Range(input[s])
<1>1. input[s] # <<>> /\ input[s] \in Seq(Inputs) /\ Types /\ PlaceInv
  BY HeadFacts DEF TableInv
<1>2. input'[s] = Tail(input[s]) /\ \A u \in Shards \ {s} : input'[u] = input[u]
  BY <1>1, ConsumeFacts
<1>3. \A u \in Shards : Early(input[u], eng[u].marks)
  BY DEF EndpointInv, ArriveInv
<1>4. Early(Tail(input[s]), eng[s].marks)
  BY <1>1, <1>3, EarlyTail
<1>5. Head(input[s]) \in Range(input[s]) /\ \A u \in Shards : Range(input'[u]) \subseteq Range(input[u])
  BY <1>1, ConsumePlaces
<1> QED BY <1>1, <1>2, <1>3, <1>4, <1>5

(* Steps of a shard that put nothing into its output.                        *)
LEMMA EndShard ==
  ASSUME TableInv, TableInv', EndpointInv, NEW s \in Shards, output' = output, UNCHANGED router,
         \A u \in Shards : (KeyOK(eng[u]) => KeyOK(eng'[u])) /\ eng'[u].marks = eng[u].marks,
         \A u \in Shards : TabOf(eng'[u]) \subseteq TabOf(eng[u]),
         input' = input \/ \E kind : Heads(s, kind) /\ Consume(s)
  PROVE  EndpointInv'
<1>1. bound' = bound /\ pending' = pending
  BY DEF router
<1>2. \A u \in Shards : Early(input'[u], eng[u].marks) /\ Range(input'[u]) \subseteq Range(input[u])
  <2>1. CASE input' = input
    BY <2>1 DEF EndpointInv, ArriveInv
  <2>2. ASSUME NEW kind, Heads(s, kind), Consume(s)
        PROVE  \A u \in Shards : Early(input'[u], eng[u].marks) /\ Range(input'[u]) \subseteq Range(input[u])
    BY <2>2, ConsumeEarly
  <2> QED BY <2>1, <2>2
<1>3. \A u \in Shards : Order(output'[u])
  BY DEF EndpointInv, LeaveInv
<1>4. /\ \A u \in Shards : \A z \in Range(output'[u]) : z \in Range(output[u])
      /\ \A u \in Shards : \A z \in Range(input'[u]) : z \in Range(input[u])
      /\ \A u \in Shards : \A x \in TabOf(eng'[u]) : \E y \in TabOf(eng[u]) : y.id = x.id /\ y.key = x.key
  BY <1>2
<1> QED BY <1>1, <1>2, <1>3, <1>4, EndQuiet

LEMMA EndDrop ==
  ASSUME TableInv, TableInv', EndpointInv, NEW s \in Shards, DropStep(s)
  PROVE  EndpointInv'
<1>1. Types /\ LocalInv /\ Local(eng[s]) /\ \A x \in TabOf(eng[s]) : x.id <= ids
  BY TableTypes DEF TableInv
<1>2. output' = output /\ UNCHANGED router /\ (input' = input \/ (Heads(s, "epoch") /\ Consume(s)))
  BY <1>1, DropFacts
<1>3. PICK f : eng' = [eng EXCEPT ![s] = f] /\ Part(f, eng[s])
  BY <1>1, DropFacts
<1>4. f \in Engines /\ Local(f) /\ TabOf(f) \subseteq TabOf(eng[s]) /\ f.marks = eng[s].marks
      /\ (KeyOK(eng[s]) => KeyOK(f))
  BY <1>3, PartTable DEF Part
<1>5. eng'[s] = f /\ \A u \in Shards \ {s} : eng'[u] = eng[u]
  BY <1>1, <1>3, <1>4, EngStep
<1>6. /\ \A u \in Shards : (KeyOK(eng[u]) => KeyOK(eng'[u])) /\ eng'[u].marks = eng[u].marks
      /\ \A u \in Shards : TabOf(eng'[u]) \subseteq TabOf(eng[u])
  BY <1>4, <1>5
<1> QED BY <1>2, <1>6, EndShard

LEMMA EndCompact ==
  ASSUME TableInv, TableInv', EndpointInv, NEW s \in Shards, Compact(s)
  PROVE  EndpointInv'
<1>1. Types /\ LocalInv /\ Local(eng[s])
  BY TableTypes DEF TableInv
<1>2. output' = output /\ UNCHANGED router /\ input' = input
  BY <1>1, CompactFacts
<1>3. PICK f : /\ eng' = [eng EXCEPT ![s] = f] /\ f \in Engines /\ Local(f)
               /\ f.marks = eng[s].marks /\ TabOf(f) = TabOf(eng[s]) /\ (KeyOK(eng[s]) => KeyOK(f))
  BY <1>1, CompactFacts
<1>5. eng'[s] = f /\ \A u \in Shards \ {s} : eng'[u] = eng[u]
  BY <1>1, <1>3, EngStep
<1>6. /\ \A u \in Shards : (KeyOK(eng[u]) => KeyOK(eng'[u])) /\ eng'[u].marks = eng[u].marks
      /\ \A u \in Shards : TabOf(eng'[u]) \subseteq TabOf(eng[u])
  BY <1>3, <1>5
<1> QED BY <1>2, <1>6, EndShard

LEMMA EndRead ==
  ASSUME TableInv, TableInv', EndpointInv, NEW s \in Shards, OnUdpIgnored(s) \/ OnUdpExisting(s)
  PROVE  EndpointInv'
<1>1. eng' = eng /\ output' = output /\ UNCHANGED router /\ Heads(s, "getconf") /\ Consume(s)
  BY DEF OnUdpIgnored, OnUdpExisting
<1>2. /\ \A u \in Shards : (KeyOK(eng[u]) => KeyOK(eng'[u])) /\ eng'[u].marks = eng[u].marks
      /\ \A u \in Shards : TabOf(eng'[u]) \subseteq TabOf(eng[u])
  BY <1>1
<1> QED BY <1>1, <1>2, EndShard

LEMMA EndActivate ==
  ASSUME TableInv, TableInv', EndpointInv, NEW s \in Shards, OnActivate(s)
  PROVE  EndpointInv'
<1> DEFINE m == Head(input[s])
           t == [kind |-> "tunnel", ip |-> m.dev, shard |-> s]
<1>1. Types /\ LocalInv /\ Local(eng[s]) /\ PlaceInv /\ RegInv /\ Heads(s, "activate")
  BY TableTypes DEF TableInv, OnActivate
<1>2. m \in Activates /\ m.reg # 0 /\ \A y \in TabOf(eng[s]) : y.reg < m.reg
  BY <1>1, ActivateHead
<1>3. /\ Consume(s) /\ UNCHANGED router
      /\ UNCHANGED <<eng, output, lost>> \/ (Emit(s, t) /\ \E y, f : Activates1(s, m, y, f))
  BY <1>1, <1>2, ActivateFacts
<1>4. CASE UNCHANGED <<eng, output, lost>>
  <2>1. /\ \A u \in Shards : (KeyOK(eng[u]) => KeyOK(eng'[u])) /\ eng'[u].marks = eng[u].marks
        /\ \A u \in Shards : TabOf(eng'[u]) \subseteq TabOf(eng[u])
    BY <1>4
  <2>2. output' = output /\ \E kind : Heads(s, kind) /\ Consume(s)
    BY <1>1, <1>3, <1>4
  <2> QED BY <1>3, <2>1, <2>2, EndShard
<1>5. CASE Emit(s, t) /\ \E y, f : Activates1(s, m, y, f)
  <2>1. PICK y, f : Activates1(s, m, y, f)
    BY <1>5
  <2>2. t \in Outputs /\ t.kind = "tunnel"
    BY <1>2 DEF Outputs, Tunnels, Activates
  <2>3. Emit(s, t)
    BY <1>5
  <2>4. \A u \in Shards : Early(input'[u], eng[u].marks) /\ Range(input'[u]) \subseteq Range(input[u])
    BY <1>1, <1>3, ConsumeEarly
  <2> HIDE DEF t, m
  <2>5. \A u \in Shards : \A z \in Range(output'[u]) : z \in Range(output[u]) \/ z.kind = "tunnel"
    BY <1>1, <2>2, <2>3, EmitPlaces
  <2>6. \A u \in Shards : Order(output'[u])
    <3>1. \A u \in Shards : Order(output[u]) /\ output[u] \in Seq(Outputs)
      BY <1>1 DEF EndpointInv, LeaveInv, Types
    <3>2. Order(Append(output[s], t))
      BY <3>1, <2>2, OrderAppend
    <3>3. /\ \A u \in Shards \ {s} : output'[u] = output[u]
          /\ output'[s] = Append(output[s], t) \/ output'[s] = output[s]
      BY <1>1, <2>2, <2>3, EmitFacts
    <3> QED BY <3>1, <3>2, <3>3
  <2>7. /\ y \in TabOf(eng[s]) /\ f \in Engines /\ Local(f) /\ eng' = [eng EXCEPT ![s] = f]
        /\ TabOf(f) = (TabOf(eng[s]) \ {y}) \cup {[y EXCEPT !.reg = m.reg]}
        /\ f.marks = eng[s].marks /\ (KeyOK(eng[s]) => KeyOK(f))
    BY <2>1 DEF Activates1
  <2>8. eng'[s] = f /\ \A u \in Shards \ {s} : eng'[u] = eng[u]
    BY <1>1, <2>7, EngStep
  <2>9. [y EXCEPT !.reg = m.reg].id = y.id /\ [y EXCEPT !.reg = m.reg].key = y.key
    <3>1. y \in Sessions
      BY <1>1, <2>7, TableTypes
    <3> QED BY <3>1 DEF Sessions
  <2>10. \A u \in Shards : \A z \in TabOf(eng'[u]) : \E w \in TabOf(eng[u]) : w.id = z.id /\ w.key = z.key
    BY <2>7, <2>8, <2>9
  <2>11. \A u \in Shards : (KeyOK(eng[u]) => KeyOK(eng'[u])) /\ eng'[u].marks = eng[u].marks
    BY <2>7, <2>8
  <2>12. bound' = bound /\ pending' = pending
    BY <1>3 DEF router
  <2>13. \A u \in Shards : \A z \in Range(input'[u]) : z \in Range(input[u])
    BY <2>4
  <2> QED BY <2>4, <2>5, <2>6, <2>10, <2>11, <2>12, <2>13, EndQuiet
<1> QED BY <1>3, <1>4, <1>5

(* A datagram or a command for some shards.                                  *)
LEMMA EndSend ==
  ASSUME TableInv, TableInv', EndpointInv, NEW m \in Inputs, UNCHANGED <<eng, output, router>>,
         \A u \in Shards : input'[u] = input[u] \/
           /\ input'[u] = Append(input[u], m)
           /\ m.kind \in {"epoch", "activate"} \/ (m.kind = "getconf" /\ bound[m.key] = u)
  PROVE  EndpointInv'
<1>1. \A u \in Shards : input[u] \in Seq(Inputs) /\ Early(input[u], eng[u].marks)
  BY DEF TableInv, Types, EndpointInv, ArriveInv
<1>2. ASSUME NEW u \in Shards
      PROVE  /\ Early(input'[u], eng[u].marks)
             /\ \A z \in Range(input'[u]) : \/ z \in Range(input[u]) \/ z.kind \in {"epoch", "activate"}
                                            \/ z.kind = "getconf" /\ bound[z.key] = u
  <2>1. CASE input'[u] = input[u]
    BY <1>1, <2>1
  <2>2. CASE /\ input'[u] = Append(input[u], m)
             /\ m.kind \in {"epoch", "activate"} \/ (m.kind = "getconf" /\ bound[m.key] = u)
    <3>1. m.kind # "adopt"
      BY <2>2
    <3>2. Early(Append(input[u], m), eng[u].marks)
      BY <1>1, <3>1, EarlyAppend
    <3>3. Range(Append(input[u], m)) = Range(input[u]) \cup {m}
      BY <1>1, RangeAppend
    <3> QED BY <2>2, <3>2, <3>3
  <2> QED BY <2>1, <2>2
<1>3. eng' = eng /\ output' = output /\ bound' = bound /\ pending' = pending
  BY DEF router
<1>4. /\ \A u \in Shards : Order(output'[u])
      /\ \A u \in Shards : \A z \in Range(output'[u]) : z \in Range(output[u])
      /\ \A u \in Shards : \A x \in TabOf(eng'[u]) : \E y \in TabOf(eng[u]) : y.id = x.id /\ y.key = x.key
      /\ \A u \in Shards : (KeyOK(eng[u]) => KeyOK(eng'[u])) /\ eng'[u].marks = eng[u].marks
  BY <1>3 DEF EndpointInv, LeaveInv
<1> QED BY <1>2, <1>3, <1>4, EndQuiet

LEMMA EndUdp ==
  ASSUME TableInv, TableInv', EndpointInv, NEW m \in Getconfs, RouteUdp(m)
  PROVE  EndpointInv'
<1> DEFINE s == bound[m.key]
<1>1. s \in Shards /\ m \in Inputs /\ m.kind = "getconf"
  BY GetconfFacts DEF TableInv, Types, Inputs
<1>2. input' = [input EXCEPT ![s] = Append(@, m)] /\ UNCHANGED <<eng, output, router>>
  BY DEF RouteUdp
<1>3. input \in [Shards -> Seq(Inputs)]
  BY DEF TableInv, Types
<1>4. \A u \in Shards : input'[u] = input[u] \/ (input'[u] = Append(input[u], m) /\ u = s)
  BY <1>1, <1>2, <1>3
<1> QED BY <1>1, <1>2, <1>4, EndSend

LEMMA EndCommand ==
  ASSUME TableInv, TableInv', EndpointInv, NEW j \in jobs, GetconfEpoch(j) \/ GetconfActivate(j)
  PROVE  EndpointInv'
<1>1. j \in Jobs /\ regs + 1 \in Nat /\ Types
  BY DEF TableInv, Types
<1>2. CASE GetconfEpoch(j)
  <2> DEFINE m == [kind |-> "epoch", dev |-> j.dev, gen |-> j.gen]
  <2>1. m \in Inputs /\ m.kind = "epoch"
    BY <1>1 DEF Inputs, Epochs, Jobs
  <2>2. Fanout(m) /\ UNCHANGED <<eng, output, router>>
    BY <1>2 DEF GetconfEpoch
  <2> HIDE DEF m
  <2>3. \A u \in Shards : input'[u] = Append(input[u], m) \/ input'[u] = input[u]
    BY <1>1, <2>1, <2>2, FanoutFacts
  <2> QED BY <2>1, <2>2, <2>3, EndSend
<1>3. CASE GetconfActivate(j)
  <2> DEFINE m == [kind |-> "activate", id |-> j.id, dev |-> j.dev, gen |-> j.gen, reg |-> regs + 1]
  <2>1. m \in Inputs /\ m.kind = "activate"
    BY <1>1 DEF Inputs, Activates, Jobs
  <2>2. Fanout(m) /\ UNCHANGED <<eng, output, router>>
    BY <1>3 DEF GetconfActivate
  <2> HIDE DEF m
  <2>3. \A u \in Shards : input'[u] = Append(input[u], m) \/ input'[u] = input[u]
    BY <1>1, <2>1, <2>2, FanoutFacts
  <2> QED BY <2>1, <2>2, <2>3, EndSend
<1> QED BY <1>2, <1>3

(* A mark expires after everything of its endpoint has been handled.         *)
LEMMA EndSweep ==
  ASSUME Prompt, TableInv, TableInv', EndpointInv, NEW s \in Shards, NEW k \in Keys, SweepMark(s, k)
  PROVE  EndpointInv'
<1>1. Types /\ LocalInv /\ Local(eng[s])
  BY TableTypes DEF TableInv
<1>2. output' = output /\ bound' = bound /\ pending' = pending /\ input' = input /\ ~InTransit(k) /\ ~Queued(s, k)
  BY <1>1, SweepFacts DEF router
<1>3. PICK f : /\ eng' = [eng EXCEPT ![s] = f] /\ f \in Engines /\ Local(f)
               /\ f.marks = eng[s].marks \ {k} /\ TabOf(f) = TabOf(eng[s]) /\ (KeyOK(eng[s]) => KeyOK(f))
  BY <1>1, SweepFacts
<1>4. eng'[s] = f /\ \A u \in Shards \ {s} : eng'[u] = eng[u]
  BY <1>1, <1>3, EngStep
<1>5. /\ \A u \in Shards : KeyOK(eng'[u]) /\ TabOf(eng'[u]) = TabOf(eng[u]) /\ eng[u].marks \ {k} \subseteq eng'[u].marks
      /\ \A u \in Shards \ {s} : eng'[u].marks = eng[u].marks
  BY <1>3, <1>4 DEF EndpointInv
<1>6. Settled(k) /\ \A m \in Range(input[s]) : m.kind = "getconf" => m.key # k
  <2>1. \A q, m : m \in Range(q) <=> \E i \in DOMAIN q : m = q[i]
    BY RangeIs
  <2> QED BY <1>2, <2>1 DEF InTransit, Queued, Settled, SettledIn
<1>7. OneEach'
  <2> SUFFICES ASSUME NEW y \in Live' PROVE y \in Live
    BY OneStep DEF TableInv, EndpointInv
  <2> QED BY <1>2, <1>5, LiveIs DEF Live
<1>8. BoundInv'
  BY <1>2, <1>5 DEF EndpointInv, BoundInv, Tab
<1>9. MarkInv'
  <2> SUFFICES ASSUME NEW u \in Shards, NEW m \in Range(input[u]), m.kind = "getconf"
               PROVE  u = bound[m.key] \/ m.key \in eng'[u].marks
    BY <1>2 DEF MarkInv
  <2>1. u = bound[m.key] \/ m.key \in eng[u].marks
    BY DEF EndpointInv, MarkInv
  <2> QED BY <2>1, <1>5, <1>6
<1>10. LeaveInv'
  BY <1>2, <1>5, <1>6 DEF EndpointInv, LeaveInv, Settled, SettledIn
<1>11. WaitInv'
  <2> SUFFICES ASSUME NEW m \in pending PROVE m.key \in eng'[bound[m.key]].marks /\ NoBind(m.key)'
    BY <1>2 DEF WaitInv
  <2>1. m.key \in eng[bound[m.key]].marks /\ NoBind(m.key) /\ bound[m.key] \in Shards
    BY <1>1 DEF EndpointInv, WaitInv, Types, Migrations
  <2> QED BY <2>1, <1>2, <1>5, <1>6 DEF NoBind, Settled, SettledIn
<1>12. ArriveInv'
  <2> SUFFICES ASSUME NEW u \in Shards
               PROVE  /\ Early(input[u], eng'[u].marks)
                      /\ \A m \in Range(input[u]) : m.kind = "adopt" => bound[m.x.key] = u /\ NoBind(m.x.key)'
    BY <1>2 DEF ArriveInv
  <2>1. /\ Early(input[u], eng[u].marks)
        /\ \A m \in Range(input[u]) : m.kind = "adopt" => bound[m.x.key] = u /\ NoBind(m.x.key)
    BY DEF EndpointInv, ArriveInv
  <2>2. \A m \in Range(input[u]) : m.kind = "adopt" => m.x.key # k
    BY <1>6 DEF Settled, SettledIn
  <2>3. Early(input[u], eng'[u].marks)
    BY <2>1, <2>2, <1>5, EarlyMarks
  <2> QED BY <2>1, <2>3, <1>2 DEF NoBind
<1> QED BY <1>5, <1>7, <1>8, <1>9, <1>10, <1>11, <1>12 DEF EndpointInv

(* An endpoint for which a session is made is bound to the shard and has no  *)
(* other session but the one that is replaced.                               *)
LEMMA CreateKey ==
  ASSUME TableInv, EndpointInv, NEW s \in Shards, Heads(s, "getconf"), NEW m, m = Head(input[s]),
         NEW e, Part(e, eng[s]), m.key \notin DOMAIN e.peer,
         (m.key \notin eng[s].marks /\ TabOf(e) = TabOf(eng[s])) \/ m.key \in DOMAIN eng[s].peer
  PROVE  /\ bound[m.key] = s /\ Settled(m.key)
         /\ \A y \in TabOf(e) : y.key # m.key
         /\ \A u \in Shards \ {s} : \A y \in TabOf(eng[u]) : y.key # m.key
<1> DEFINE k == m.key
<1>1. input[s] \in Seq(Inputs) /\ input[s] # <<>> /\ m.kind = "getconf" /\ Local(eng[s])
  BY HeadFacts DEF TableInv, LocalInv
<1>2. m \in Range(input[s]) /\ \A z \in Range(input[s]) : z = m \/ z \in Range(Tail(input[s]))
  BY <1>1, RangeTail
<1>3. \A y \in TabOf(e) : y.key # k
  <2>1. KeyOK(e)
    BY DEF EndpointInv, Part
  <2> QED BY <2>1 DEF KeyOK, TabOf
<1>4. CASE k \notin eng[s].marks /\ TabOf(e) = TabOf(eng[s])
  <2>1. bound[k] = s
    BY <1>1, <1>2, <1>4 DEF EndpointInv, MarkInv
  <2>2. \A u \in Shards : \A y \in TabOf(eng[u]) : y.key # k
    BY <1>3, <1>4, <2>1 DEF EndpointInv, BoundInv, Tab
  <2>3. \A u \in Shards : \A z \in Range(output[u]) : z.kind = "migrate" => z.key # k
    BY <1>4, <2>1 DEF EndpointInv, LeaveInv
  <2>4. \A z \in pending : z.key # k
    BY <1>4, <2>1 DEF EndpointInv, WaitInv
  <2>5. ASSUME NEW u \in Shards, NEW z \in Range(input[u]), z.kind = "adopt", z.x.key = k PROVE FALSE
    <3>1. u = s
      BY <2>1, <2>5 DEF EndpointInv, ArriveInv
    <3>2. z \in Range(Tail(input[s]))
      BY <1>1, <1>2, <2>5, <3>1
    <3>3. Early(input[s], eng[s].marks)
      BY DEF EndpointInv, ArriveInv
    <3> QED BY <1>1, <1>4, <2>5, <3>2, <3>3, EarlyTail
  <2> QED BY <1>3, <2>1, <2>2, <2>3, <2>4, <2>5 DEF Settled, SettledIn
<1>5. CASE k \in DOMAIN eng[s].peer
  <2>1. PICK x \in TabOf(eng[s]) : x.key = k
    BY <1>1, <1>5 DEF Local, PeerOK, TabOf
  <2>2. bound[k] = s
    BY <2>1 DEF EndpointInv, BoundInv, Tab
  <2>3. Settled(k) /\ \A u \in Shards \ {s} : \A y \in TabOf(eng[u]) : y.key # k
    BY <2>1, ApartNow DEF EndpointInv, Apart, Settled
  <2> QED BY <1>3, <2>2, <2>3
<1> QED BY <1>4, <1>5

(* A step of a shard about an endpoint k that is bound to it: k has no other *)
(* session under way afterwards than the one o may carry.                    *)
LEMMA EndOwn ==
  ASSUME TableInv, EndpointInv, NEW s \in Shards, NEW k, NEW o, bound' = bound, pending' = pending, bound[k] = s,
         \A u \in Shards : KeyOK(eng'[u]), OneEach',
         \A u \in Shards \ {s} : eng'[u] = eng[u] /\ output'[u] = output[u],
         eng[s].marks \ {k} \subseteq eng'[s].marks,
         \A x \in TabOf(eng'[s]) : x.key = k \/ x \in TabOf(eng[s]),
         \A u \in Shards : \A z \in Range(input'[u]) : z \in Range(input[u]) /\ (z.kind = "adopt" => z.x.key # k),
         \A u \in Shards : Early(input'[u], eng[u].marks),
         \A z \in pending : z.key # k,
         \A z \in Range(output[s]) : z.kind = "migrate" => z.key # k,
         \A z \in Range(output'[s]) : z \in Range(output[s]) \/ z = o, Order(output'[s]),
         o.key = k, o.kind = "migrate" => k \in eng'[s].marks
  PROVE  EndpointInv'
<1>1. \A u \in Shards : eng[u].marks \ {k} \subseteq eng'[u].marks /\ (u # s => eng'[u].marks = eng[u].marks)
  OBVIOUS
<1>2. \A u \in Shards : \A z \in Range(output'[u]) : z \in Range(output[u]) \/ (u = s /\ z = o)
  OBVIOUS
<1>3. \A j : NoBind(j) /\ j # k => NoBind(j)'
  BY <1>2 DEF NoBind
<1>4. BoundInv'
  BY <1>2 DEF EndpointInv, BoundInv, Tab
<1>5. MarkInv'
  <2> SUFFICES ASSUME NEW u \in Shards, NEW m \in Range(input'[u]), m.kind = "getconf"
               PROVE  u = bound[m.key] \/ m.key \in eng'[u].marks
    BY DEF MarkInv
  <2>1. u = bound[m.key] \/ m.key \in eng[u].marks
    BY DEF EndpointInv, MarkInv
  <2> QED BY <2>1, <1>1
<1>6. LeaveInv'
  <2> SUFFICES ASSUME NEW u \in Shards
               PROVE  /\ Order(output'[u])
                      /\ \A m \in Range(output'[u]) :
                           m.kind = "migrate" => bound[m.key] = u /\ m.key \in eng'[u].marks
    BY DEF LeaveInv
  <2>1. /\ Order(output[u])
        /\ \A m \in Range(output[u]) : m.kind = "migrate" => bound[m.key] = u /\ m.key \in eng[u].marks
    BY DEF EndpointInv, LeaveInv
  <2>2. Order(output'[u])
    BY <2>1
  <2> QED BY <1>1, <1>2, <2>1, <2>2
<1>7. WaitInv'
  <2> SUFFICES ASSUME NEW m \in pending PROVE m.key \in eng'[bound[m.key]].marks /\ NoBind(m.key)'
    BY DEF WaitInv
  <2>1. m.key \in eng[bound[m.key]].marks /\ NoBind(m.key) /\ bound[m.key] \in Shards /\ m.key # k
    BY DEF EndpointInv, WaitInv, TableInv, Types, Migrations
  <2> QED BY <2>1, <1>1, <1>3
<1>8. ArriveInv'
  <2> SUFFICES ASSUME NEW u \in Shards
               PROVE  /\ Early(input'[u], eng'[u].marks)
                      /\ \A m \in Range(input'[u]) : m.kind = "adopt" => bound[m.x.key] = u /\ NoBind(m.x.key)'
    BY DEF ArriveInv
  <2>1. \A m \in Range(input'[u]) : m.kind = "adopt" => bound[m.x.key] = u /\ NoBind(m.x.key) /\ m.x.key # k
    BY DEF EndpointInv, ArriveInv
  <2>2. Early(input'[u], eng'[u].marks)
    <3>1. Early(input'[u], eng[u].marks) /\ eng[u].marks \ {k} \subseteq eng'[u].marks
      BY <1>1
    <3>2. \A m \in Range(input'[u]) : m.kind = "adopt" => m.x.key # k
      BY <2>1
    <3> DEFINE q == input'[u]
               M == eng[u].marks
               N == eng'[u].marks
    <3>3. Early(q, M) /\ M \ {k} \subseteq N /\ \A m \in Range(q) : m.kind = "adopt" => m.x.key # k
      BY <3>1, <3>2
    <3> HIDE DEF q, M, N
    <3>4. Early(q, N)
      BY ONLY <3>3, EarlyMarks
    <3> QED BY <3>4 DEF q, N
  <2> QED BY <2>1, <2>2, <1>3
<1> QED BY <1>4, <1>5, <1>6, <1>7, <1>8 DEF EndpointInv

LEMMA EndCreate ==
  ASSUME TableInv, TableInv', EndpointInv, NEW s \in Shards, CreateStep(s)
  PROVE  EndpointInv'
<1> DEFINE m == Head(input[s])
           x == NewSession(m)
<1>1. Types /\ LocalInv /\ PlaceInv /\ Local(eng[s]) /\ \A y \in TabOf(eng[s]) : y.id <= ids
  BY TableTypes DEF TableInv
<1>2. Heads(s, "getconf") /\ Consume(s) /\ UNCHANGED <<router, regs>> /\ m \in Getconfs
  BY <1>1, CreateFacts
<1>3. PICK e, f : Created(s, m, e, f)
  BY <1>1, CreateFacts
<1>4. x.key = m.key /\ Migrate(m) \in Outputs /\ Migrate(m).kind = "migrate" /\ Migrate(m).x = x
      /\ Migrate(m).key = m.key
      /\ Bind(m.key, s) \in Outputs /\ Bind(m.key, s).kind = "bind" /\ Bind(m.key, s).key = m.key
  <2>1. x.key = m.key /\ Migrate(m) \in Migrations /\ m.key \in Keys
    BY <1>1, <1>2, NewFacts, GetconfFacts
  <2>2. Migrate(m).kind = "migrate" /\ Migrate(m).x = x /\ Migrate(m).key = m.key
    BY DEF Migrate
  <2>3. Bind(m.key, s) \in Outputs /\ Bind(m.key, s).kind = "bind" /\ Bind(m.key, s).key = m.key
    BY <2>1 DEF Bind, Outputs, Binds
  <2> QED BY <2>1, <2>2, <2>3 DEF Outputs
<1>5. /\ Part(e, eng[s]) /\ m.key \notin DOMAIN e.peer
      /\ (m.key \notin eng[s].marks /\ TabOf(e) = TabOf(eng[s])) \/ m.key \in DOMAIN eng[s].peer
      /\ f \in Engines /\ Local(f) /\ eng' = [eng EXCEPT ![s] = f]
      /\ (KeyOK(e) => KeyOK(f)) /\ (Leaves(s, m, e, f) \/ Stays(s, m, e, f))
  BY <1>3 DEF Created
<1>6. /\ bound[m.key] = s /\ Settled(m.key)
      /\ \A y \in TabOf(e) : y.key # m.key
      /\ \A u \in Shards \ {s} : \A y \in TabOf(eng[u]) : y.key # m.key
  BY <1>2, <1>5, CreateKey
<1> HIDE DEF m, x
<1>7. TabOf(e) \subseteq TabOf(eng[s]) /\ KeyOK(f)
  BY <1>5, PartTable DEF Part, EndpointInv
<1>8. eng'[s] = f /\ \A u \in Shards \ {s} : eng'[u] = eng[u]
  BY <1>1, <1>5, EngStep
<1>9. \A u \in Shards : KeyOK(eng'[u])
  BY <1>7, <1>8 DEF EndpointInv
<1>10. \A u \in Shards : Early(input'[u], eng[u].marks) /\ Range(input'[u]) \subseteq Range(input[u])
  BY <1>2, ConsumeEarly
<1>11. /\ \A u \in Shards : \A z \in Range(input'[u]) : z \in Range(input[u]) /\ (z.kind = "adopt" => z.x.key # m.key)
       /\ \A z \in pending : z.key # m.key
       /\ \A z \in Range(output[s]) : z.kind = "migrate" => z.key # m.key
  BY <1>6, <1>10 DEF Settled, SettledIn
<1>12. bound' = bound /\ pending' = pending
  BY <1>2 DEF router
<1>13. PICK o \in Outputs : /\ Emit(s, o) /\ o.key = m.key
                            /\ \/ TabOf(f) = TabOf(e) /\ o.kind = "migrate" /\ o.x = x /\ m.key \in f.marks
                               \/ TabOf(f) = TabOf(e) \cup {x} /\ o.kind = "bind"
                            /\ eng[s].marks \ {m.key} \subseteq f.marks
  BY <1>4, <1>5 DEF Leaves, Stays, x
<1>14. /\ \A u \in Shards \ {s} : output'[u] = output[u]
       /\ output'[s] = Append(output[s], o) \/ output'[s] = output[s]
  BY <1>1, <1>13, EmitFacts
<1>15. \A u \in Shards : \A z \in Range(output'[u]) : z \in Range(output[u]) \/ (u = s /\ z = o)
  BY <1>1, <1>13, EmitPlaces
<1>16. Order(output'[s])
  <2>1. Order(output[s]) /\ output[s] \in Seq(Outputs)
    BY <1>1 DEF EndpointInv, LeaveInv, Types
  <2>2. Order(Append(output[s], o))
    BY <2>1, <1>11, <1>13, OrderAppend
  <2> QED BY <2>1, <2>2, <1>14
<1>17. OneEach'
  <2>1. ASSUME NEW y \in Live' PROVE y = x \/ (y \in Live /\ y.key # m.key)
    <3>1. \/ \E u \in Shards : y \in TabOf(eng'[u])
          \/ \E u \in Shards : \E z \in Range(output'[u]) : z.kind = "migrate" /\ y = z.x
          \/ \E z \in pending' : y = z.x
          \/ \E u \in Shards : \E z \in Range(input'[u]) : z.kind = "adopt" /\ y = z.x
      BY LiveAt DEF Live
    <3>2. /\ \A u \in Shards : \A z \in TabOf(eng[u]) : z \in Live
          /\ \A u \in Shards : \A z \in Range(output[u]) : z.kind = "migrate" => z.x \in Live
          /\ \A z \in pending : z.x \in Live
          /\ \A u \in Shards : \A z \in Range(input[u]) : z.kind = "adopt" => z.x \in Live
      BY LiveAt DEF Live
    <3>3. /\ \A u \in Shards : \A z \in Range(output[u]) : z.kind = "migrate" => z.x.key # m.key
          /\ \A z \in pending : z.x.key # m.key
      BY <1>6 DEF Settled, SettledIn, TableInv, MessageInv, MoveOK
    <3>4. \A u \in Shards : \A z \in TabOf(eng'[u]) : z = x \/ (z \in Live /\ z.key # m.key)
      BY <1>6, <1>7, <1>8, <1>13, <3>2
    <3>5. \A u \in Shards : \A z \in Range(output'[u]) :
            z.kind = "migrate" => z.x = x \/ (z.x \in Live /\ z.x.key # m.key)
      BY <1>13, <1>15, <3>2, <3>3
    <3> QED BY <3>1, <3>2, <3>3, <3>4, <3>5, <1>11, <1>12
  <2> QED BY <2>1, <1>4 DEF OneEach, EndpointInv
<1>18. /\ eng[s].marks \ {m.key} \subseteq eng'[s].marks
       /\ \A y \in TabOf(eng'[s]) : y.key = m.key \/ y \in TabOf(eng[s])
       /\ o.kind = "migrate" => m.key \in eng'[s].marks
  BY <1>4, <1>7, <1>8, <1>13
<1>19. /\ \A u \in Shards \ {s} : eng'[u] = eng[u] /\ output'[u] = output[u]
       /\ \A u \in Shards : Early(input'[u], eng[u].marks)
       /\ \A z \in Range(output'[s]) : z \in Range(output[s]) \/ z = o
       /\ bound[m.key] = s /\ o.key = m.key
  BY <1>6, <1>8, <1>10, <1>13, <1>14, <1>15
<1>20. PICK k : k = m.key
  OBVIOUS
<1>21. /\ bound[k] = s /\ eng[s].marks \ {k} \subseteq eng'[s].marks
       /\ \A y \in TabOf(eng'[s]) : y.key = k \/ y \in TabOf(eng[s])
       /\ \A u \in Shards : \A z \in Range(input'[u]) : z \in Range(input[u]) /\ (z.kind = "adopt" => z.x.key # k)
       /\ \A z \in pending : z.key # k
       /\ \A z \in Range(output[s]) : z.kind = "migrate" => z.key # k
       /\ o.key = k /\ (o.kind = "migrate" => k \in eng'[s].marks)
  BY <1>11, <1>18, <1>19, <1>20
<1> QED BY <1>9, <1>12, <1>16, <1>17, <1>19, <1>21, EndOwn

LEMMA EndAdopt ==
  ASSUME TableInv, TableInv', EndpointInv, NEW s \in Shards, OnAdopt(s)
  PROVE  EndpointInv'
<1> DEFINE m == Head(input[s])
           x == m.x
           o == Bind(x.key, s)
<1>1. Types /\ LocalInv /\ PlaceInv /\ MessageInv /\ Local(eng[s]) /\ Heads(s, "adopt")
  BY TableTypes DEF TableInv, OnAdopt
<1>2. x \in Live /\ x.reg = 0 /\ \A u \in Shards : \A y \in TabOf(eng[u]) : y.id # x.id
  BY <1>1, AdoptHead
<1>3. x \in Sessions /\ Consume(s) /\ Emit(s, o) /\ bound' = bound /\ pending' = pending
  BY <1>1, <1>2, AdoptFacts DEF router
<1>4. PICK f : /\ eng' = [eng EXCEPT ![s] = f] /\ f \in Engines /\ Local(f)
               /\ f.marks = eng[s].marks /\ TabOf(f) = TabOf(eng[s]) \cup {x}
               /\ KeyOK(eng[s]) /\ x.key \notin DOMAIN eng[s].peer => KeyOK(f)
  BY <1>1, <1>2, AdoptFacts
<1>5. eng'[s] = f /\ \A u \in Shards \ {s} : eng'[u] = eng[u]
  BY <1>1, <1>4, EngStep
<1>6. /\ \A u \in Shards : Early(input'[u], eng[u].marks) /\ Range(input'[u]) \subseteq Range(input[u])
      /\ m \in Range(input[s]) /\ m.kind = "adopt"
  BY <1>1, <1>3, ConsumeEarly, HeadFacts
<1>7. o \in Outputs /\ o.kind = "bind" /\ o.key = x.key
  BY <1>3 DEF Bind, Outputs, Binds, Sessions
<1>8. bound[x.key] = s
  BY <1>6 DEF EndpointInv, ArriveInv
\* x is the only session of its endpoint, and in no other place.
<1>9. \A y \in Live' : y \in Live
  <2>1. \A y \in Live' : \/ \E u \in Shards : y \in TabOf(eng'[u])
                         \/ \E u \in Shards : \E z \in Range(output'[u]) : z.kind = "migrate" /\ y = z.x
                         \/ \E z \in pending' : y = z.x
                         \/ \E u \in Shards : \E z \in Range(input'[u]) : z.kind = "adopt" /\ y = z.x
    BY LiveAt DEF Live
  <2>2. /\ \A u \in Shards : \A z \in TabOf(eng[u]) : z \in Live
        /\ \A u \in Shards : \A z \in Range(output[u]) : z.kind = "migrate" => z.x \in Live
        /\ \A z \in pending : z.x \in Live
        /\ \A u \in Shards : \A z \in Range(input[u]) : z.kind = "adopt" => z.x \in Live
    BY LiveAt DEF Live
  <2> HIDE DEF x, m, o
  <2>3. \A u \in Shards : \A z \in Range(output'[u]) : z \in Range(output[u]) \/ (u = s /\ z = o)
    BY <1>1, <1>3, <1>7, EmitPlaces
  <2>4. \A u \in Shards : \A y \in TabOf(eng'[u]) : y \in Live
    BY <1>2, <1>4, <1>5, <2>2
  <2>5. \A u \in Shards : \A z \in Range(output'[u]) : z.kind = "migrate" => z.x \in Live
    BY <2>2, <2>3, <1>7
  <2> QED BY <2>1, <2>2, <2>4, <2>5, <1>3, <1>6
<1>10. OneEach'
  BY <1>9, OneStep DEF TableInv, EndpointInv
<1>11. x \in TabOf(eng'[s])
  BY <1>4, <1>5
<1>12. SettledIn(output', pending', input', x.key)
  BY <1>10, <1>11, ApartNext DEF Apart
<1> HIDE DEF x, m, o
<1>13. \A y \in TabOf(eng[s]) : y.key # x.key
  <2>1. \A u \in Shards : \A y \in TabOf(eng[u]) : y \in Live
    BY LiveAt DEF Live
  <2> QED BY <2>1, <1>2 DEF OneEach, EndpointInv
<1>14. \A u \in Shards : KeyOK(eng'[u])
  <2>1. x.key \notin DOMAIN eng[s].peer
    BY <1>1, <1>13 DEF Local, PeerOK, TabOf
  <2> QED BY <2>1, <1>4, <1>5 DEF EndpointInv
<1>15. /\ \A u \in Shards \ {s} : output'[u] = output[u]
       /\ output'[s] = Append(output[s], o) \/ output'[s] = output[s]
  BY <1>1, <1>3, <1>7, EmitFacts
<1>16. \A u \in Shards : \A z \in Range(output'[u]) : z \in Range(output[u]) \/ (u = s /\ z = o)
  BY <1>1, <1>3, <1>7, EmitPlaces
<1>17. /\ \A u \in Shards : \A z \in Range(input'[u]) : z \in Range(input[u]) /\ (z.kind = "adopt" => z.x.key # x.key)
       /\ \A z \in pending : z.key # x.key
  BY <1>3, <1>6, <1>12 DEF SettledIn
<1>18. \A z \in Range(output[s]) : z.kind = "migrate" => z.key # x.key
  <2>1. output[s] \in Seq(Outputs)
    BY <1>1 DEF Types
  <2>2. Range(Append(output[s], o)) = Range(output[s]) \cup {o}
    BY <2>1, <1>7, RangeAppend
  <2>3. Range(output[s]) \subseteq Range(output'[s])
    BY <2>2, <1>15
  <2> QED BY <2>3, <1>12 DEF SettledIn
<1>19. Order(output'[s])
  <2>1. Order(output[s]) /\ output[s] \in Seq(Outputs)
    BY <1>1 DEF EndpointInv, LeaveInv, Types
  <2>2. Order(Append(output[s], o))
    BY <2>1, <1>7, <1>18, OrderAppend
  <2> QED BY <2>1, <2>2, <1>15
<1>20. PICK k, b : k = x.key /\ b = o
  OBVIOUS
<1>21. /\ \A u \in Shards \ {s} : eng'[u] = eng[u] /\ output'[u] = output[u]
       /\ \A u \in Shards : Early(input'[u], eng[u].marks)
       /\ \A z \in Range(output'[s]) : z \in Range(output[s]) \/ z = b
       /\ eng[s].marks \ {k} \subseteq eng'[s].marks
       /\ \A y \in TabOf(eng'[s]) : y.key = k \/ y \in TabOf(eng[s])
       /\ bound' = bound /\ pending' = pending
       /\ b.key = k /\ (b.kind = "migrate" => k \in eng'[s].marks)
  BY <1>3, <1>4, <1>5, <1>6, <1>7, <1>15, <1>16, <1>20
<1>22. /\ bound[k] = s /\ \A z \in Range(output[s]) : z.kind = "migrate" => z.key # k
       /\ \A u \in Shards : \A z \in Range(input'[u]) : z \in Range(input[u]) /\ (z.kind = "adopt" => z.x.key # k)
       /\ \A z \in pending : z.key # k
  BY <1>8, <1>17, <1>18, <1>20
<1> QED BY <1>10, <1>14, <1>19, <1>21, <1>22, EndOwn

(* A migration is handed to its target: the endpoint is marked where it was  *)
(* bound, and nothing binds it any more.                                     *)
LEMMA EndDeliver ==
  ASSUME TableInv, TableInv', EndpointInv, eng' = eng, NEW m \in Migrations, m.key = m.x.key, m.x \in Live,
         Room(input[m.shard], InputCap), Deliver(m),
         \A u \in Shards : Range(output'[u]) \subseteq Range(output[u]) /\ Order(output'[u]),
         pending' \subseteq pending, m.key \in eng[bound[m.key]].marks,
         \A s \in Shards : \A z \in Range(output'[s]) : z.kind = "bind" => z.key # m.key
  PROVE  EndpointInv'
<1> DEFINE a == Adoption(m)
           h == m.shard
           k == m.key
<1>1. /\ a \in Inputs /\ a.kind = "adopt" /\ a.x = m.x /\ h \in Shards /\ k \in Keys
      /\ input'[h] = Append(input[h], a) /\ \A u \in Shards \ {h} : input'[u] = input[u]
      /\ bound'[k] = h /\ \A j \in Keys \ {k} : bound'[j] = bound[j]
      /\ bound[k] \in Shards /\ \A u \in Shards : input[u] \in Seq(Inputs)
  BY DeliverFacts DEF TableInv, Types
<1> HIDE DEF a, h
<1>2. Range(input'[h]) = Range(input[h]) \cup {a}
  BY <1>1, RangeAppend
<1>3. \A u \in Shards : \A z \in Range(input'[u]) : z \in Range(input[u]) \/ (u = h /\ z = a)
  BY <1>1, <1>2
<1>4. OneEach'
  <2> SUFFICES ASSUME NEW y \in Live' PROVE y \in Live
    BY OneStep DEF TableInv, EndpointInv
  <2>1. \/ \E u \in Shards : y \in TabOf(eng'[u])
        \/ \E u \in Shards : \E z \in Range(output'[u]) : z.kind = "migrate" /\ y = z.x
        \/ \E z \in pending' : y = z.x
        \/ \E u \in Shards : \E z \in Range(input'[u]) : z.kind = "adopt" /\ y = z.x
    BY LiveAt DEF Live
  <2>2. /\ \A u \in Shards : \A z \in TabOf(eng[u]) : z \in Live
        /\ \A u \in Shards : \A z \in Range(output[u]) : z.kind = "migrate" => z.x \in Live
        /\ \A z \in pending : z.x \in Live
        /\ \A u \in Shards : \A z \in Range(input[u]) : z.kind = "adopt" => z.x \in Live
    BY LiveAt DEF Live
  <2> QED BY <2>1, <2>2, <1>1, <1>3
<1>5. a \in Range(input'[h]) /\ a.x.key = k
  BY <1>1, <1>2
<1>6. Apart(eng', output', pending', input')
  BY <1>4, ApartNext
<1>7. /\ \A u \in Shards : \A y \in TabOf(eng[u]) : y.key # k
      /\ \A u \in Shards : \A z \in Range(output'[u]) : z.kind = "migrate" => z.key # k
      /\ \A z \in pending' : z.key # k
      /\ \A u \in Shards : \A z \in Range(input'[u]) : z.kind = "adopt" /\ z.x.key = k => u = h
  <2>1. \A u \in Shards : \A y \in TabOf(eng[u]) : SettledIn(output', pending', input', y.key)
    BY <1>6 DEF Apart
  <2>4. a.kind = "adopt" /\ h \in Shards
    BY <1>1
  <2>2. \A u \in Shards : \A y \in TabOf(eng[u]) : y.key # k
    BY <2>1, <2>4, <1>5 DEF SettledIn
  <2>3. /\ \A u \in Shards : \A z \in Range(output'[u]) : z.kind = "migrate" => z.key # a.x.key
        /\ \A z \in pending' : z.key # a.x.key
        /\ \A u \in Shards : \A z \in Range(input'[u]) : z.kind = "adopt" /\ z.x.key = a.x.key => u = h
    BY <2>4, <1>5, <1>6 DEF Apart
  <2> QED BY <2>2, <2>3, <1>5
<1>8. \A u \in Shards : KeyOK(eng'[u])
  BY DEF EndpointInv
<1>9. \A j : NoBind(j) => NoBind(j)'
  BY DEF NoBind
<1>10. NoBind(k)'
  BY DEF NoBind
<1>11. BoundInv'
  <2>1. ASSUME NEW u \in Shards, NEW y \in TabOf(eng[u]) PROVE bound'[y.key] = u
    <3>1. y.key \in Keys
      BY TableTypes DEF TableInv, Sessions
    <3>2. bound[y.key] = u
      BY DEF EndpointInv, BoundInv, Tab
    <3> QED BY <3>1, <3>2, <1>1, <1>7
  <2>2. ASSUME NEW u \in Shards, NEW z \in Range(output'[u]), z.kind = "bind" PROVE bound'[z.key] = u
    <3>1. z \in Range(output[u]) /\ z.key # k
      BY <2>2
    <3>2. z.key \in Keys
      <4>1. z \in Outputs
        BY <3>1, RangeIs, QueueTypes DEF TableInv
      <4> QED BY <4>1, <2>2, OutputKinds DEF Binds
    <3>3. bound[z.key] = u
      BY <2>2, <3>1 DEF EndpointInv, BoundInv
    <3> QED BY <3>1, <3>2, <3>3, <1>1
  <2> QED BY <2>1, <2>2 DEF BoundInv, Tab
<1>12. ASSUME NEW u \in Shards, NEW z \in Range(input[u]), z.kind = "getconf"
       PROVE  z.key \in Keys /\ (u = bound[z.key] \/ z.key \in eng[u].marks) /\ (z.key = k => k \in eng[u].marks)
  <2>1. z \in Inputs
    BY RangeIs, QueueTypes DEF TableInv
  <2>2. z.key \in Keys
    BY <2>1, <1>12, InputKinds, GetconfFacts
  <2>3. u = bound[z.key] \/ z.key \in eng[u].marks
    BY <1>12 DEF EndpointInv, MarkInv
  <2> QED BY <2>2, <2>3
<1>13. MarkInv'
  <2> SUFFICES ASSUME NEW u \in Shards, NEW z \in Range(input'[u]), z.kind = "getconf"
               PROVE  u = bound'[z.key] \/ z.key \in eng[u].marks
    BY DEF MarkInv
  <2>1. z \in Range(input[u])
    BY <1>1, <1>3
  <2> QED BY <2>1, <1>12, <1>1
<1>14. LeaveInv'
  <2> SUFFICES ASSUME NEW u \in Shards, NEW z \in Range(output'[u]), z.kind = "migrate"
               PROVE  bound'[z.key] = u /\ z.key \in eng[u].marks
    BY DEF LeaveInv
  <2>1. z \in Range(output[u]) /\ z.key # k
    BY <1>7
  <2>2. z.key \in Keys
    <3>1. z \in Outputs
      BY <2>1, RangeIs, QueueTypes DEF TableInv
    <3> QED BY <3>1, OutputKinds DEF Migrations
  <2>3. bound[z.key] = u /\ z.key \in eng[u].marks
    BY <2>1 DEF EndpointInv, LeaveInv
  <2> QED BY <2>1, <2>2, <2>3, <1>1
<1>15. WaitInv'
  <2> SUFFICES ASSUME NEW z \in pending' PROVE z.key \in eng[bound'[z.key]].marks /\ NoBind(z.key)'
    BY DEF WaitInv
  <2>1. z.key \in eng[bound[z.key]].marks /\ NoBind(z.key) /\ z.key \in Keys /\ z.key # k
    BY <1>7 DEF EndpointInv, WaitInv, TableInv, Types, Migrations
  <2> QED BY <2>1, <1>1, <1>9
<1>16. ArriveInv'
  <2>1. ASSUME NEW u \in Shards PROVE Early(input'[u], eng[u].marks)
    <3>1. Early(input[u], eng[u].marks)
      BY DEF EndpointInv, ArriveInv
    <3>2. CASE u # h
      BY <3>1, <3>2, <1>1
    <3>3. CASE u = h
      <4>1. \A z \in Range(input[u]) : z.kind = "getconf" /\ z.key = a.x.key => z.key \in eng[u].marks
        BY <1>5, <1>12
      <4>2. input[u] \in Seq(Inputs) /\ a \in Inputs
        BY <1>1
      <4>3. Early(Append(input[u], a), eng[u].marks)
        BY ONLY <3>1, <4>1, <4>2, EarlyAppend
      <4> QED BY <4>3, <3>3, <1>1
    <3> QED BY <3>2, <3>3
  <2>2. ASSUME NEW u \in Shards, NEW z \in Range(input'[u]), z.kind = "adopt"
        PROVE  bound'[z.x.key] = u /\ NoBind(z.x.key)'
    <3>1. CASE z.x.key = k
      BY <3>1, <2>2, <1>1, <1>7, <1>10
    <3>2. CASE z.x.key # k
      <4>1. z \in Range(input[u])
        BY <3>2, <1>3, <1>5
      <4>2. bound[z.x.key] = u /\ NoBind(z.x.key)
        BY <2>2, <4>1 DEF EndpointInv, ArriveInv
      <4>3. z.x.key \in Keys
        <5>1. z \in Inputs
          BY <4>1, RangeIs, QueueTypes DEF TableInv
        <5> QED BY <5>1, <2>2, InputKinds DEF Adopts, Sessions
      <4> QED BY <3>2, <4>2, <4>3, <1>1, <1>9
    <3> QED BY <3>1, <3>2
  <2> QED BY <2>1, <2>2 DEF ArriveInv
<1> QED BY <1>4, <1>8, <1>11, <1>13, <1>14, <1>15, <1>16 DEF EndpointInv

LEMMA EndRetry ==
  ASSUME TableInv, TableInv', EndpointInv, NEW m \in pending, RouterRetry(m)
  PROVE  EndpointInv'
<1>1. m \in Migrations /\ m.key = m.x.key
  BY DEF TableInv, Types, MessageInv, MoveOK
<1>2. /\ Room(input[m.shard], InputCap) /\ Deliver(m) /\ pending' \subseteq pending /\ eng' = eng /\ output' = output
  BY DEF RouterRetry
<1>3. m.x \in Live
  BY LiveAt DEF Live
<1>4. m.key \in eng[bound[m.key]].marks /\ NoBind(m.key)
  BY DEF EndpointInv, WaitInv
<1>5. \A s \in Shards : \A z \in Range(output'[s]) : z.kind = "bind" => z.key # m.key
  BY <1>2, <1>4 DEF NoBind
<1>6. \A u \in Shards : Range(output'[u]) \subseteq Range(output[u]) /\ Order(output'[u])
  BY <1>2 DEF EndpointInv, LeaveInv
<1> QED BY <1>1, <1>2, <1>3, <1>4, <1>5, <1>6, EndDeliver

LEMMA EndTake ==
  ASSUME TableInv, TableInv', EndpointInv, NEW s \in Shards, RouterTake(s)
  PROVE  EndpointInv'
<1> DEFINE m == Head(output[s])
<1>1. output[s] # <<>> /\ output' = [output EXCEPT ![s] = Tail(@)] /\ eng' = eng
  BY DEF RouterTake
<1>2. /\ output'[s] = Tail(output[s]) /\ \A u \in Shards \ {s} : output'[u] = output[u]
      /\ m \in Outputs /\ m \in Range(output[s])
      /\ \A u \in Shards : Range(output'[u]) \subseteq Range(output[u])
  BY <1>1, TakePlaces DEF TableInv
<1>3. \A u \in Shards : output[u] \in Seq(Outputs) /\ Order(output[u])
  BY DEF TableInv, Types, EndpointInv, LeaveInv
<1>4. /\ Order(Tail(output[s]))
      /\ m.kind = "migrate" => \A z \in Range(Tail(output[s])) : z.kind = "bind" => z.key # m.key
  BY <1>1, <1>3, OrderTail
<1>5. \A u \in Shards : Order(output'[u])
  BY <1>2, <1>3, <1>4
<1>6. CASE m.kind # "migrate"
  <2>1. input' = input /\ pending' = pending /\ bound' = bound
    <3>1. CASE m.kind = "bind"
      <4>1. m.shard = s /\ bound[m.key] = s
        BY <1>2, <3>1 DEF TableInv, MessageInv, EndpointInv, BoundInv
      <4>2. bound' = [bound EXCEPT ![m.key] = m.shard] /\ input' = input /\ pending' = pending
        BY <3>1 DEF RouterTake
      <4>3. bound \in [Keys -> Shards]
        BY DEF TableInv, Types
      <4> QED BY <4>1, <4>2, <4>3
    <3>2. CASE m.kind = "tunnel"
      BY <3>2 DEF RouterTake
    <3> QED BY <3>1, <3>2, <1>2, <1>6, OutputKinds
  <2>2. /\ \A u \in Shards : (KeyOK(eng[u]) => KeyOK(eng'[u])) /\ eng'[u].marks = eng[u].marks
        /\ \A u \in Shards : \A x \in TabOf(eng'[u]) : \E y \in TabOf(eng[u]) : y.id = x.id /\ y.key = x.key
        /\ \A u \in Shards : \A z \in Range(output'[u]) : z \in Range(output[u])
        /\ \A u \in Shards : \A z \in Range(input'[u]) : z \in Range(input[u])
        /\ \A u \in Shards : Early(input'[u], eng[u].marks)
    BY <1>1, <1>2, <2>1 DEF EndpointInv, ArriveInv
  <2> QED BY <1>5, <2>1, <2>2, EndQuiet
<1>7. CASE m.kind = "migrate"
  <2>1. m \in Migrations /\ m.key = m.x.key /\ bound[m.key] = s /\ m.key \in eng[s].marks
    BY <1>2, <1>7, OutputKinds DEF TableInv, MessageInv, MoveOK, EndpointInv, LeaveInv
  <2>2. IF Room(input[m.shard], InputCap)
        THEN Deliver(m) /\ pending' = pending
        ELSE pending' = pending \cup {m} /\ input' = input /\ bound' = bound
    BY <1>7 DEF RouterTake
  <2>3. m.x \in Live
    BY <1>2, <1>7, LiveAt DEF Live
  <2> HIDE DEF m
  <2>4. ASSUME NEW u \in Shards, NEW z \in Range(output'[u]), z.kind = "bind" PROVE z.key # m.key
    <3>1. CASE u = s
      BY <3>1, <2>4, <1>2, <1>4, <1>7
    <3>2. CASE u # s
      BY <3>2, <2>4, <1>2, <2>1 DEF EndpointInv, BoundInv
    <3> QED BY <3>1, <3>2
  <2>5. CASE Room(input[m.shard], InputCap)
    <3>1. Deliver(m) /\ pending' \subseteq pending /\ m.key \in eng[bound[m.key]].marks
      BY <2>1, <2>2, <2>5
    <3> QED BY <1>1, <1>2, <1>5, <2>1, <2>3, <2>4, <2>5, <3>1, EndDeliver
  <2>6. CASE ~Room(input[m.shard], InputCap)
    <3>1. pending' = pending \cup {m} /\ input' = input /\ bound' = bound /\ eng' = eng
      BY <2>2, <2>6, <1>1
    <3>2. OneEach'
      <4> SUFFICES ASSUME NEW y \in Live' PROVE y \in Live
        BY OneStep DEF TableInv, EndpointInv
      <4>1. \/ \E u \in Shards : y \in TabOf(eng'[u])
            \/ \E u \in Shards : \E z \in Range(output'[u]) : z.kind = "migrate" /\ y = z.x
            \/ \E z \in pending' : y = z.x
            \/ \E u \in Shards : \E z \in Range(input'[u]) : z.kind = "adopt" /\ y = z.x
        BY LiveAt DEF Live
      <4>2. /\ \A u \in Shards : \A z \in TabOf(eng[u]) : z \in Live
            /\ \A u \in Shards : \A z \in Range(output[u]) : z.kind = "migrate" => z.x \in Live
            /\ \A z \in pending : z.x \in Live
            /\ \A u \in Shards : \A z \in Range(input[u]) : z.kind = "adopt" => z.x \in Live
        BY LiveAt DEF Live
      <4> QED BY <4>1, <4>2, <1>2, <2>3, <3>1
    <3>3. \A u \in Shards : KeyOK(eng'[u])
      BY <3>1 DEF EndpointInv
    <3>4. BoundInv'
      BY <1>2, <3>1 DEF EndpointInv, BoundInv, Tab
    <3>5. MarkInv'
      BY <3>1 DEF EndpointInv, MarkInv
    <3>6. LeaveInv'
      BY <1>2, <1>5, <3>1 DEF EndpointInv, LeaveInv
    <3>7. WaitInv'
      BY <1>2, <2>1, <2>4, <3>1 DEF EndpointInv, WaitInv, NoBind
    <3>8. ArriveInv'
      BY <1>2, <3>1 DEF EndpointInv, ArriveInv, NoBind
    <3> QED BY <3>2, <3>3, <3>4, <3>5, <3>6, <3>7, <3>8 DEF EndpointInv
  <2> QED BY <2>5, <2>6
<1> QED BY <1>6, <1>7

LEMMA EndInit ==
  ASSUME Init
  PROVE  EndpointInv
<1>1. \A u \in Shards : KeyOK(eng[u])
  BY InitFacts DEF KeyOK, TabOf
<1>3. \A u \in Shards : Order(output[u]) /\ Early(input[u], eng[u].marks)
  BY InitFacts DEF Order, Early
<1>2. OneEach
  BY InitFacts DEF OneEach
<1> QED BY <1>1, <1>2, <1>3, InitFacts DEF EndpointInv, BoundInv, MarkInv, LeaveInv, WaitInv, ArriveInv, Tab

LEMMA EndNext ==
  ASSUME Prompt, TableInv, TableInv', EndpointInv, [Next]_vars
  PROVE  EndpointInv'
<1>1. CASE UNCHANGED vars
  BY <1>1 DEF vars, router, EndpointInv, OneEach, Live, BoundInv, MarkInv, LeaveInv, WaitInv, ArriveInv, NoBind, Tab
<1>2. CASE Next
  BY <1>2, NextCases, EndCreate, EndRead, EndAdopt, EndActivate, EndCompact,
     EndDrop, EndTake, EndSweep, EndUdp, EndRetry, EndCommand
<1> QED BY <1>1, <1>2

(* The strengthening behind TablesAgree and Reached: an endpoint has one     *)
(* session, in the table of the shard it is bound to or under way; a shard   *)
(* it has left keeps a mark while datagrams of it may still come             *)
(* (migrating_endpoints), and no bind overtakes a migration.                 *)
THEOREM EndpointsHold == ASSUME Prompt PROVE Spec => []EndpointInv
BY TablesHold, EndInit, EndNext, PTL DEF Spec

(* by_peer, by_id and the slab of every shard describe the same sessions in  *)
(* every order of setup, replacement, migration, compaction and removal,     *)
(* when what was queued for an endpoint is handled before its mark expires   *)
(* (handle_unknown_legacy, place_new_session, on_command, on_tick).          *)
THEOREM TablesAlwaysAgree == ASSUME Prompt PROVE Spec => []TablesAgree
<1>1. TableInv /\ EndpointInv => TablesAgree
  <2> SUFFICES ASSUME TableInv, EndpointInv PROVE TablesAgree
    OBVIOUS
  <2>1. TypeOK
    <3>1. \A s \in Shards : DOMAIN eng[s].tab \subseteq Slots /\ eng[s].marks \subseteq Keys
      BY EngineFacts DEF TableInv, Types
    <3> QED BY <3>1 DEF TypeOK, TableInv, Types
  <2>2. \A s \in Shards : IdOK(eng[s]) /\ PeerOK(eng[s]) /\ KeyOK(eng[s])
    BY DEF TableInv, LocalInv, Local, EndpointInv
  <2> QED BY <2>1, <2>2 DEF TablesAgree, IdOK, PeerOK, KeyOK
<1> QED BY <1>1, TablesHold, EndpointsHold, PTL

-------------------------------------------------------------------------------
(* Streams: the queues                                                       *)

(* No epoch of d in the rest of a queue, and none in the queue.              *)
LEMMA QuietTail ==
  ASSUME NEW S, NEW q \in Seq(S), q # <<>>, NEW d, NEW i \in Nat, NEW j \in Nat, Quiet(Tail(q), d, i, j)
  PROVE  /\ Quiet(q, d, i + 1, j + 1)
         /\ i = 0 /\ ~EpochOf(Head(q), d) => Quiet(q, d, 0, j + 1)
<1> DEFINE r == Tail(q)
<1>1. /\ \A h \in DOMAIN q : h \in Nat /\ (h = 1 \/ (h - 1 \in DOMAIN r /\ r[h - 1] = q[h]))
      /\ Head(q) = q[1]
  BY TailFacts
<1>2. \A h \in DOMAIN r : i < h /\ h < j => ~EpochOf(r[h], d)
  BY DEF Quiet
<1> HIDE DEF r
<1>3. Quiet(q, d, i + 1, j + 1)
  <2> SUFFICES ASSUME NEW h \in DOMAIN q, i + 1 < h, h < j + 1 PROVE ~EpochOf(q[h], d)
    BY DEF Quiet
  <2>1. h - 1 \in DOMAIN r /\ r[h - 1] = q[h] /\ i < h - 1 /\ h - 1 < j
    BY <1>1
  <2> QED BY <2>1, <1>2
<1>4. ASSUME i = 0, ~EpochOf(Head(q), d) PROVE Quiet(q, d, 0, j + 1)
  <2> SUFFICES ASSUME NEW h \in DOMAIN q, 0 < h, h < j + 1 PROVE ~EpochOf(q[h], d)
    BY DEF Quiet
  <2>1. CASE h = 1
    BY <2>1, <1>1, <1>4
  <2>2. CASE h # 1
    <3>1. h - 1 \in DOMAIN r /\ r[h - 1] = q[h] /\ 0 < h - 1 /\ h - 1 < j
      BY <2>2, <1>1
    <3> QED BY <3>1, <1>2, <1>4
  <2> QED BY <2>1, <2>2
<1> QED BY <1>3, <1>4

(* The first command is carried out.                                         *)
LEMMA FollowsTail ==
  ASSUME NEW S, NEW q \in Seq(S), q # <<>>, NEW T, NEW T2, NEW d, NEW g, NEW j \in Nat, Follows(T, q, j + 1, d, g),
         \A x \in T2 : x.reg # 0 /\ x.dev = d =>
           (x \in T /\ ~EpochOf(Head(q), d)) \/ (About(Head(q), d) /\ x.gen = Head(q).gen),
         0 < j
  PROVE  Follows(T2, Tail(q), j, d, g)
<1> DEFINE r == Tail(q)
           m == Head(q)
<1>1. /\ \A i \in DOMAIN r : i \in Nat /\ i + 1 \in DOMAIN q /\ r[i] = q[i + 1]
      /\ 1 \in DOMAIN q /\ m = q[1]
  BY TailFacts
<1>2. \A i \in Nat : Quiet(r, d, i, j) =>
        Quiet(q, d, i + 1, j + 1) /\ (i = 0 /\ ~EpochOf(m, d) => Quiet(q, d, 0, j + 1))
  BY QuietTail
<1>3. /\ \A i \in DOMAIN q : i < j + 1 /\ About(q[i], d) /\ Quiet(q, d, i, j + 1) => q[i].gen = g
      /\ Quiet(q, d, 0, j + 1) => \A x \in T : x.reg # 0 /\ x.dev = d => x.gen = g
  BY DEF Follows
<1>4. \A x \in T2 : x.reg # 0 /\ x.dev = d => (x \in T /\ ~EpochOf(m, d)) \/ (About(m, d) /\ x.gen = m.gen)
  OBVIOUS
<1> HIDE DEF r, m
<1>5. ASSUME NEW i \in DOMAIN r, i < j, About(r[i], d), Quiet(r, d, i, j) PROVE r[i].gen = g
  <2>1. i + 1 \in DOMAIN q /\ r[i] = q[i + 1] /\ i + 1 < j + 1 /\ Quiet(q, d, i + 1, j + 1)
    BY <1>1, <1>2, <1>5
  <2> QED BY <2>1, <1>3, <1>5
<1>6. ASSUME Quiet(r, d, 0, j), NEW x \in T2, x.reg # 0, x.dev = d PROVE x.gen = g
  <2>1. Quiet(q, d, 0 + 1, j + 1) /\ (~EpochOf(m, d) => Quiet(q, d, 0, j + 1))
    BY <1>2, <1>6
  <2>2. Quiet(q, d, 1, j + 1)
    BY <2>1
  <2>3. CASE x \in T /\ ~EpochOf(m, d)
    BY <2>1, <2>3, <1>3, <1>6
  <2>4. CASE About(m, d) /\ x.gen = m.gen
    <3>1. 1 < j + 1
      OBVIOUS
    <3> QED BY <2>2, <2>4, <3>1, <1>1, <1>3
  <2> QED BY <2>3, <2>4, <1>4, <1>6
<1>7. Follows(T2, r, j, d, g)
  BY <1>5, <1>6 DEF Follows
<1> QED BY <1>7 DEF r

LEMMA FollowsLess ==
  ASSUME NEW T, NEW q, NEW j, NEW d, NEW g, Follows(T, q, j, d, g), NEW T2, \A x \in T2 : x.reg # 0 => x \in T
  PROVE  Follows(T2, q, j, d, g)
BY DEF Follows

(* A command is added behind the place, or at it.                            *)
LEMMA FollowsAppend ==
  ASSUME NEW S, NEW q \in Seq(S), NEW m \in S, NEW T, NEW d, NEW g
  PROVE  /\ \A j \in 1 .. Len(q) + 1 : Follows(T, q, j, d, g) => Follows(T, Append(q, m), j, d, g)
         /\ EpochOf(m, d) /\ m.gen = g => Follows(T, Append(q, m), Len(q) + 2, d, g)
         /\ Follows(T, q, Len(q) + 1, d, g) /\ (About(m, d) => m.gen = g) => Follows(T, Append(q, m), Len(q) + 2, d, g)
<1> DEFINE A == Append(q, m)
           n == Len(q)
<1>1. /\ A[n + 1] = m /\ n + 1 \in DOMAIN A /\ n \in Nat
      /\ \A i \in DOMAIN q : i \in DOMAIN A /\ A[i] = q[i] /\ i \in 1 .. n
      /\ \A i \in DOMAIN A : i \in Nat /\ (i = n + 1 \/ (i \in DOMAIN q /\ i <= n))
  BY AppendFacts
<1> HIDE DEF A, n
<1>2. ASSUME NEW j \in 1 .. n + 1, Follows(T, q, j, d, g) PROVE Follows(T, A, j, d, g)
  <2>1. \A i : Quiet(A, d, i, j) => Quiet(q, d, i, j)
    BY <1>1 DEF Quiet
  <2>2. ASSUME NEW i \in DOMAIN A, i < j, About(A[i], d), Quiet(A, d, i, j) PROVE A[i].gen = g
    <3>1. i \in DOMAIN q /\ A[i] = q[i]
      BY <1>1, <2>2
    <3> QED BY <3>1, <2>1, <2>2, <1>2 DEF Follows
  <2> QED BY <2>1, <2>2, <1>2 DEF Follows
<1>3. ASSUME EpochOf(m, d), m.gen = g PROVE Follows(T, A, n + 2, d, g)
  <2>1. \A i \in Nat : Quiet(A, d, i, n + 2) => i >= n + 1
    BY <1>1, <1>3 DEF Quiet
  <2>2. ASSUME NEW i \in DOMAIN A, Quiet(A, d, i, n + 2) PROVE A[i].gen = g
    BY <2>1, <2>2, <1>1, <1>3
  <2>3. ~Quiet(A, d, 0, n + 2)
    BY <2>1, <1>1
  <2> QED BY <2>2, <2>3 DEF Follows
<1>4. ASSUME Follows(T, q, n + 1, d, g), About(m, d) => m.gen = g PROVE Follows(T, A, n + 2, d, g)
  <2>1. \A i : Quiet(A, d, i, n + 2) => Quiet(q, d, i, n + 1)
    BY <1>1 DEF Quiet
  <2>2. ASSUME NEW i \in DOMAIN A, i < n + 2, About(A[i], d), Quiet(A, d, i, n + 2) PROVE A[i].gen = g
    <3>1. CASE i = n + 1
      BY <3>1, <1>1, <1>4, <2>2
    <3>2. CASE i \in DOMAIN q /\ i <= n
      <4>1. A[i] = q[i] /\ i < n + 1
        BY <3>2, <1>1
      <4> QED BY <4>1, <3>2, <2>1, <2>2, <1>4 DEF Follows
    <3> QED BY <3>1, <3>2, <1>1
  <2> QED BY <2>1, <2>2, <1>4 DEF Follows
<1> QED BY <1>2, <1>3, <1>4 DEF A, n

(* The registered sessions of T2 are those of T, or of the generation of a   *)
(* command about their device; an epoch leaves no other.                     *)
Obeys(T2, T, m) ==
  \A x \in T2 : x.reg # 0 => (x \in T /\ ~EpochOf(m, x.dev)) \/ (About(m, x.dev) /\ x.gen = m.gen)

LEMMA StreamTail ==
  ASSUME NEW S, NEW q \in Seq(S), q # <<>>, NEW T, NEW T2, ActivateAt(T, q), Obeys(T2, T, Head(q))
  PROVE  /\ ActivateAt(T2, Tail(q))
         /\ \A d, g : Follows(T, q, Len(q) + 1, d, g) => Follows(T2, Tail(q), Len(Tail(q)) + 1, d, g)
<1> DEFINE r == Tail(q)
<1>1. /\ \A i \in DOMAIN r : i \in Nat /\ 0 < i /\ i + 1 \in DOMAIN q /\ r[i] = q[i + 1]
      /\ Len(q) \in Nat /\ 0 < Len(q) /\ Len(r) = Len(q) - 1
  BY TailFacts
<1>2. ASSUME NEW d, NEW g, NEW j \in Nat, 0 < j, Follows(T, q, j + 1, d, g)
      PROVE  Follows(T2, r, j, d, g)
  <2>1. \A x \in T2 : x.reg # 0 /\ x.dev = d =>
           (x \in T /\ ~EpochOf(Head(q), d)) \/ (About(Head(q), d) /\ x.gen = Head(q).gen)
    BY DEF Obeys
  <2> QED BY <2>1, <1>2, FollowsTail
<1> HIDE DEF r
<1>3. ActivateAt(T2, r)
  <2> SUFFICES ASSUME NEW j \in DOMAIN r, r[j].kind = "activate" PROVE Follows(T2, r, j, r[j].dev, r[j].gen)
    BY DEF ActivateAt
  <2>1. j \in Nat /\ 0 < j /\ j + 1 \in DOMAIN q /\ r[j] = q[j + 1]
    BY <1>1
  <2>2. Follows(T, q, j + 1, r[j].dev, r[j].gen)
    BY <2>1 DEF ActivateAt
  <2> QED BY <2>1, <2>2, <1>2
<1>4. ASSUME NEW d, NEW g, Follows(T, q, Len(q) + 1, d, g) PROVE Follows(T2, r, Len(r) + 1, d, g)
  <2>1. PICK n : n = Len(q)
    OBVIOUS
  <2>2. n \in Nat /\ 0 < n /\ Len(r) + 1 = n
    BY <2>1, <1>1
  <2>3. Follows(T, q, n + 1, d, g)
    BY <2>1, <1>4
  <2>4. Follows(T2, r, n, d, g)
    BY <2>2, <2>3, <1>2
  <2> QED BY <2>2, <2>4
<1> QED BY <1>3, <1>4 DEF r

LEMMA StreamKeep ==
  ASSUME NEW q, NEW T, NEW T2, ActivateAt(T, q), \A x \in T2 : x.reg # 0 => x \in T
  PROVE  /\ ActivateAt(T2, q)
         /\ \A j, d, g : Follows(T, q, j, d, g) => Follows(T2, q, j, d, g)
<1>1. \A j, d, g : Follows(T, q, j, d, g) => Follows(T2, q, j, d, g)
  BY FollowsLess
<1> QED BY <1>1 DEF ActivateAt

LEMMA StreamAppend ==
  ASSUME NEW S, NEW q \in Seq(S), NEW m \in S, NEW T, ActivateAt(T, q),
         m.kind = "activate" => Follows(T, q, Len(q) + 1, m.dev, m.gen)
  PROVE  /\ ActivateAt(T, Append(q, m))
         /\ \A d, g : Follows(T, q, Len(q) + 1, d, g) /\ (About(m, d) => m.gen = g) =>
              Follows(T, Append(q, m), Len(Append(q, m)) + 1, d, g)
         /\ \A d, g : EpochOf(m, d) /\ m.gen = g => Follows(T, Append(q, m), Len(Append(q, m)) + 1, d, g)
<1>1. PICK A, n : A = Append(q, m) /\ n = Len(q)
  OBVIOUS
<1>2. /\ A[n + 1] = m /\ n \in Nat /\ Len(A) + 1 = n + 2
      /\ \A i \in DOMAIN q : A[i] = q[i] /\ i \in 1 .. n + 1
      /\ \A i \in DOMAIN A : i = n + 1 \/ i \in DOMAIN q
  BY <1>1, AppendFacts
<1>3. /\ \A d, g : \A j \in 1 .. n + 1 : Follows(T, q, j, d, g) => Follows(T, A, j, d, g)
      /\ \A d, g : EpochOf(m, d) /\ m.gen = g => Follows(T, A, n + 2, d, g)
      /\ \A d, g : Follows(T, q, n + 1, d, g) /\ (About(m, d) => m.gen = g) => Follows(T, A, n + 2, d, g)
  BY <1>1, FollowsAppend
<1>4. m.kind = "activate" => Follows(T, q, n + 1, m.dev, m.gen)
  BY <1>1
<1>5. ActivateAt(T, A)
  <2> SUFFICES ASSUME NEW j \in DOMAIN A, A[j].kind = "activate" PROVE Follows(T, A, j, A[j].dev, A[j].gen)
    BY DEF ActivateAt
  <2>1. CASE j = n + 1
    <3>1. n + 1 \in 1 .. n + 1 /\ A[j] = m
      BY <2>1, <1>2
    <3> QED BY <2>1, <3>1, <1>3, <1>4
  <2>2. CASE j \in DOMAIN q
    <3>1. A[j] = q[j] /\ j \in 1 .. n + 1
      BY <2>2, <1>2
    <3>2. Follows(T, q, j, q[j].dev, q[j].gen)
      BY <2>2, <3>1 DEF ActivateAt
    <3> QED BY <3>1, <3>2, <1>3
  <2> QED BY <2>1, <2>2, <1>2
<1> QED BY <1>1, <1>2, <1>3, <1>5

(* A step of one shard.                                                      *)
LEMMA StreamShard ==
  ASSUME TableInv, ~lost, StreamInv, NEW s \in Shards, NEW f, eng' = [eng EXCEPT ![s] = f], tunnels' = tunnels,
         GenOK(f), ServedOK(f), \A j \in jobs' : j.locked => j \in jobs, \A x \in TabOf(f) : Home[x.dev] = s,
         \A x \in TabOf(f) : x.reg # 0 =>
           \/ \E y \in TabOf(eng[s]) : y.reg # 0 /\ y.dev = x.dev
           \/ \E m \in Range(output'[s]) : m.kind = "tunnel" /\ m.ip = x.dev,
         \A u \in Shards : Range(output[u]) \subseteq Range(output'[u]),
         \A u \in Shards : \A m \in Range(output'[u]) : m.kind = "tunnel" => m \in Range(output[u]) \/ Home[m.ip] = u,
         \/ input' = input /\ \A x \in TabOf(f) : x.reg # 0 => x \in TabOf(eng[s])
         \/ input[s] # <<>> /\ Consume(s) /\ Obeys(TabOf(f), TabOf(eng[s]), Head(input[s]))
  PROVE  StreamInv'
<1>1. /\ \A u \in Shards : GenOK(eng[u]) /\ ServedOK(eng[u])
      /\ \A u \in Shards : ActivateAt(TabOf(eng[u]), input[u])
      /\ \A u \in Shards : \A j \in jobs : j.locked => Follows(TabOf(eng[u]), input[u], Len(input[u]) + 1, j.dev, j.gen)
      /\ HomeInv
  BY DEF StreamInv, ActivateInv, LockInv, Tab
<1>2. eng \in [Shards -> Engines] /\ Types
  BY DEF TableInv, Types
<1>3. eng'[s] = f /\ \A u \in Shards \ {s} : eng'[u] = eng[u]
  BY <1>2
<1>4. \A u \in Shards : GenOK(eng'[u]) /\ ServedOK(eng'[u])
  BY <1>1, <1>3
<1>5. \A u \in Shards : /\ ActivateAt(TabOf(eng'[u]), input'[u])
                        /\ \A d, g : Follows(TabOf(eng[u]), input[u], Len(input[u]) + 1, d, g) =>
                             Follows(TabOf(eng'[u]), input'[u], Len(input'[u]) + 1, d, g)
  <2>1. CASE input' = input /\ \A x \in TabOf(f) : x.reg # 0 => x \in TabOf(eng[s])
    <3> SUFFICES ASSUME NEW u \in Shards
                 PROVE  /\ ActivateAt(TabOf(eng'[u]), input[u])
                        /\ \A d, g : Follows(TabOf(eng[u]), input[u], Len(input[u]) + 1, d, g) =>
                             Follows(TabOf(eng'[u]), input[u], Len(input[u]) + 1, d, g)
      BY <2>1
    <3>1. PICK T, T2, q : T = TabOf(eng[u]) /\ T2 = TabOf(eng'[u]) /\ q = input[u]
      OBVIOUS
    <3>2. ActivateAt(T, q) /\ \A x \in T2 : x.reg # 0 => x \in T
      BY <2>1, <3>1, <1>1, <1>3
    <3>3. ActivateAt(T2, q) /\ \A j, d, g : Follows(T, q, j, d, g) => Follows(T2, q, j, d, g)
      BY <3>2, StreamKeep
    <3> QED BY <3>1, <3>3
  <2>2. CASE input[s] # <<>> /\ Consume(s) /\ Obeys(TabOf(f), TabOf(eng[s]), Head(input[s]))
    <3>1. input'[s] = Tail(input[s]) /\ (\A u \in Shards \ {s} : input'[u] = input[u]) /\ input[s] \in Seq(Inputs)
      BY <2>2, <1>2, ConsumeFacts, QueueTypes
    <3>2. PICK T, T2, q : T = TabOf(eng[s]) /\ T2 = TabOf(f) /\ q = input[s]
      OBVIOUS
    <3>3. q \in Seq(Inputs) /\ q # <<>> /\ ActivateAt(T, q) /\ Obeys(T2, T, Head(q))
      BY <2>2, <3>1, <3>2, <1>1
    <3>4. /\ ActivateAt(T2, Tail(q))
          /\ \A d, g : Follows(T, q, Len(q) + 1, d, g) => Follows(T2, Tail(q), Len(Tail(q)) + 1, d, g)
      BY <3>3, StreamTail
    <3>5. TabOf(eng'[s]) = T2 /\ input'[s] = Tail(q) /\ \A u \in Shards \ {s} : eng'[u] = eng[u] /\ input'[u] = input[u]
      BY <3>1, <3>2, <1>3
    <3>6. ASSUME NEW u \in Shards \ {s}
          PROVE  /\ ActivateAt(TabOf(eng'[u]), input'[u])
                 /\ \A d, g : Follows(TabOf(eng[u]), input[u], Len(input[u]) + 1, d, g) =>
                      Follows(TabOf(eng'[u]), input'[u], Len(input'[u]) + 1, d, g)
      BY <3>5, <3>6, <1>1
    <3>7. /\ ActivateAt(TabOf(eng'[s]), input'[s])
          /\ \A d, g : Follows(TabOf(eng[s]), input[s], Len(input[s]) + 1, d, g) =>
               Follows(TabOf(eng'[s]), input'[s], Len(input'[s]) + 1, d, g)
      BY <3>2, <3>4, <3>5
    <3> QED BY <3>6, <3>7
  <2> QED BY <2>1, <2>2
<1>6. ActivateInv' /\ LockInv'
  <2>1. ActivateInv'
    BY <1>5 DEF ActivateInv, Tab
  <2>2. ASSUME NEW u \in Shards, NEW j \in jobs', j.locked
        PROVE  Follows(TabOf(eng'[u]), input'[u], Len(input'[u]) + 1, j.dev, j.gen)
    <3>1. Follows(TabOf(eng[u]), input[u], Len(input[u]) + 1, j.dev, j.gen)
      BY <1>1, <2>2
    <3> QED BY <3>1, <1>5
  <2>3. LockInv'
    BY <2>2 DEF LockInv, Tab
  <2> QED BY <2>1, <2>3
<1>7. HomeInv'
  <2>1. /\ \A u \in Shards : \A x \in TabOf(eng[u]) : Home[x.dev] = u
        /\ \A u \in Shards : \A m \in Range(output[u]) : m.kind = "tunnel" => Home[m.ip] = u
        /\ \A u \in Shards : \A x \in TabOf(eng[u]) : x.reg # 0 =>
             tunnels[x.dev] = u \/ \E m \in Range(output[u]) : m.kind = "tunnel" /\ m.ip = x.dev
    BY <1>1 DEF HomeInv, Tab
  <2>2. \A u \in Shards : \A x \in TabOf(eng'[u]) : Home[x.dev] = u
    BY <1>3, <2>1
  <2>3. \A u \in Shards : \A m \in Range(output'[u]) : m.kind = "tunnel" => Home[m.ip] = u
    BY <2>1
  <2>4. ASSUME NEW u \in Shards, NEW x \in TabOf(eng'[u]), x.reg # 0
        PROVE  tunnels[x.dev] = u \/ \E m \in Range(output'[u]) : m.kind = "tunnel" /\ m.ip = x.dev
    <3>1. \/ \E y \in TabOf(eng[u]) : y.reg # 0 /\ y.dev = x.dev
          \/ \E m \in Range(output'[u]) : m.kind = "tunnel" /\ m.ip = x.dev
      BY <1>3, <2>4
    <3>2. CASE \E y \in TabOf(eng[u]) : y.reg # 0 /\ y.dev = x.dev
      <4>1. tunnels[x.dev] = u \/ \E m \in Range(output[u]) : m.kind = "tunnel" /\ m.ip = x.dev
        BY <3>2, <2>1
      <4> QED BY <4>1
    <3> QED BY <3>1, <3>2
  <2> QED BY <2>2, <2>3, <2>4 DEF HomeInv, Tab
<1> QED BY <1>4, <1>6, <1>7 DEF StreamInv

-------------------------------------------------------------------------------
(* StreamInv is kept                                                         *)

LEMMA StreamNow ==
  ASSUME TableInv, ~lost, StreamInv, NEW s \in Shards
  PROVE  /\ Types /\ eng[s] \in Engines /\ Local(eng[s]) /\ ids \in Nat /\ \A x \in TabOf(eng[s]) : x.id <= ids
         /\ GenOK(eng[s]) /\ ServedOK(eng[s]) /\ \A x \in TabOf(eng[s]) : Home[x.dev] = s
         /\ eng \in [Shards -> Engines]
<1>1. Types /\ LocalInv /\ PlaceInv
  BY DEF TableInv
<1>2. eng[s] \in Engines /\ Local(eng[s]) /\ ids \in Nat /\ \A x \in TabOf(eng[s]) : x.id <= ids
  BY <1>1, TableTypes
<1> QED BY <1>1, <1>2 DEF StreamInv, HomeInv, Tab, Types

LEMMA StreamDrop ==
  ASSUME TableInv, StreamInv, NEW s \in Shards, DropStep(s)
  PROVE  StreamInv'
<1> SUFFICES ASSUME ~lost' PROVE StreamInv'
  BY DEF StreamInv
<1>1. /\ Types /\ Local(eng[s]) /\ \A x \in TabOf(eng[s]) : x.id <= ids
      /\ UNCHANGED <<output, router, jobs, lost>>
      /\ input' = input \/ (Heads(s, "epoch") /\ Consume(s))
  <2>1. Types /\ LocalInv /\ PlaceInv
    BY DEF TableInv
  <2>2. Local(eng[s]) /\ \A x \in TabOf(eng[s]) : x.id <= ids
    BY <2>1, TableTypes
  <2> QED BY <2>1, <2>2, DropFacts
<1>2. PICK f : /\ eng' = [eng EXCEPT ![s] = f] /\ Part(f, eng[s])
               /\ input' # input =>
                    \A x \in TabOf(f) : x.dev = Head(input[s]).dev => x.gen = Head(input[s]).gen
  BY <1>1, DropFacts
<1>3. ~lost /\ tunnels' = tunnels /\ output' = output /\ jobs' = jobs
  BY <1>1 DEF router
<1>4. GenOK(eng[s]) /\ ServedOK(eng[s]) /\ \A x \in TabOf(eng[s]) : Home[x.dev] = s
  BY <1>3, StreamNow
<1>5. TabOf(f) \subseteq TabOf(eng[s]) /\ GenOK(f)
  BY <1>2, <1>4, PartTable
<1>6. ServedOK(f)
  BY <1>2, <1>4 DEF Part
<1>7. \/ input' = input /\ \A x \in TabOf(f) : x.reg # 0 => x \in TabOf(eng[s])
      \/ input[s] # <<>> /\ Consume(s) /\ Obeys(TabOf(f), TabOf(eng[s]), Head(input[s]))
  <2>1. CASE input' = input
    BY <2>1, <1>5
  <2>2. CASE input' # input
    <3>1. input[s] # <<>> /\ Consume(s) /\ Head(input[s]).kind = "epoch"
      BY <1>1, <2>2 DEF Heads
    <3>2. Obeys(TabOf(f), TabOf(eng[s]), Head(input[s]))
      BY <3>1, <1>2, <1>5, <2>2 DEF Obeys, EpochOf, About
    <3> QED BY <3>1, <3>2
  <2> QED BY <2>1, <2>2
<1>8. /\ \A x \in TabOf(f) : Home[x.dev] = s
      /\ \A x \in TabOf(f) : x.reg # 0 => \E y \in TabOf(eng[s]) : y.reg # 0 /\ y.dev = x.dev
      /\ \A u \in Shards : Range(output[u]) \subseteq Range(output'[u])
      /\ \A u \in Shards : \A m \in Range(output'[u]) : m.kind = "tunnel" => m \in Range(output[u]) \/ Home[m.ip] = u
  BY <1>3, <1>4, <1>5
<1> QED BY <1>2, <1>3, <1>5, <1>6, <1>7, <1>8, StreamShard

(* The same sessions in the table, and the queues as they were.              *)
LEMMA StreamSame ==
  ASSUME TableInv, StreamInv, NEW s \in Shards, NEW f, eng' = [eng EXCEPT ![s] = f],
         TabOf(f) = TabOf(eng[s]), ServedOK(eng[s]) => ServedOK(f), \A j \in jobs' : j.locked => j \in jobs,
         UNCHANGED <<output, router, lost>>,
         input' = input \/ (input[s] # <<>> /\ Consume(s) /\ Head(input[s]).kind # "epoch")
  PROVE  StreamInv'
<1> SUFFICES ASSUME ~lost' PROVE StreamInv'
  BY DEF StreamInv
<1>1. ~lost /\ tunnels' = tunnels /\ output' = output
  BY DEF router
<1>2. GenOK(eng[s]) /\ ServedOK(eng[s]) /\ \A x \in TabOf(eng[s]) : Home[x.dev] = s
  BY <1>1, StreamNow
<1>3. GenOK(f) /\ ServedOK(f)
  BY <1>2 DEF GenOK
<1>4. \/ input' = input /\ \A x \in TabOf(f) : x.reg # 0 => x \in TabOf(eng[s])
      \/ input[s] # <<>> /\ Consume(s) /\ Obeys(TabOf(f), TabOf(eng[s]), Head(input[s]))
  BY DEF Obeys, EpochOf
<1>5. /\ \A x \in TabOf(f) : Home[x.dev] = s
      /\ \A x \in TabOf(f) : x.reg # 0 => \E y \in TabOf(eng[s]) : y.reg # 0 /\ y.dev = x.dev
      /\ \A u \in Shards : Range(output[u]) \subseteq Range(output'[u])
      /\ \A u \in Shards : \A m \in Range(output'[u]) : m.kind = "tunnel" => m \in Range(output[u]) \/ Home[m.ip] = u
  BY <1>1, <1>2
<1> QED BY <1>1, <1>3, <1>4, <1>5, StreamShard

LEMMA StreamCompact ==
  ASSUME TableInv, StreamInv, NEW s \in Shards, Compact(s)
  PROVE  StreamInv'
<1>1. Types /\ LocalInv /\ PlaceInv
  BY DEF TableInv
<1>2. Local(eng[s])
  BY <1>1, TableTypes
<1>3. UNCHANGED <<input, output, router, jobs, lost>>
  BY <1>1, <1>2, CompactFacts
<1>4. PICK f : /\ eng' = [eng EXCEPT ![s] = f] /\ TabOf(f) = TabOf(eng[s])
               /\ ServedOK(eng[s]) => ServedOK(f)
  BY <1>1, <1>2, CompactFacts
<1>5. UNCHANGED <<output, router, lost>> /\ input' = input /\ \A j \in jobs' : j.locked => j \in jobs
  BY <1>3
<1> QED BY <1>4, <1>5, StreamSame

LEMMA StreamSweep ==
  ASSUME TableInv, StreamInv, NEW s \in Shards, NEW k \in Keys, SweepMark(s, k)
  PROVE  StreamInv'
<1>1. Types /\ LocalInv /\ PlaceInv
  BY DEF TableInv
<1>2. Local(eng[s])
  BY <1>1, TableTypes
<1>3. UNCHANGED <<input, output, router, jobs, lost>>
  BY <1>1, <1>2, SweepFacts
<1>4. PICK f : /\ eng' = [eng EXCEPT ![s] = f] /\ TabOf(f) = TabOf(eng[s])
               /\ ServedOK(eng[s]) => ServedOK(f)
  BY <1>1, <1>2, SweepFacts
<1>5. UNCHANGED <<output, router, lost>> /\ input' = input /\ \A j \in jobs' : j.locked => j \in jobs
  BY <1>3
<1> QED BY <1>4, <1>5, StreamSame

LEMMA StreamRead ==
  ASSUME TableInv, StreamInv, NEW s \in Shards, OnUdpIgnored(s) \/ OnUdpExisting(s)
  PROVE  StreamInv'
<1>1. /\ UNCHANGED <<eng, output, router, lost>>
      /\ input[s] # <<>> /\ Consume(s) /\ Head(input[s]).kind = "getconf"
      /\ jobs' = jobs \/ \E x : Publish(x)
  BY DEF OnUdpIgnored, OnUdpExisting, Heads
<1>2. \A j \in jobs' : j.locked => j \in jobs
  BY <1>1 DEF Publish
<1>3. eng' = [eng EXCEPT ![s] = eng[s]]
  BY <1>1 DEF TableInv, Types
<1>4. TabOf(eng[s]) = TabOf(eng[s]) /\ (ServedOK(eng[s]) => ServedOK(eng[s])) /\ UNCHANGED <<output, router, lost>>
  BY <1>1
<1>5. PICK f : f = eng[s]
  OBVIOUS
<1> QED BY <1>1, <1>2, <1>3, <1>4, <1>5, StreamSame

(* What a shard tells the router: nothing it told before is lost, and the    *)
(* new message is there.                                                     *)
LEMMA EmitStreams ==
  ASSUME Types, NEW s \in Shards, NEW m \in Outputs, Emit(s, m), ~lost'
  PROVE  /\ ~lost /\ m \in Range(output'[s])
         /\ \A u \in Shards : Range(output[u]) \subseteq Range(output'[u])
         /\ \A u \in Shards : \A z \in Range(output'[u]) : z \in Range(output[u]) \/ (u = s /\ z = m)
<1>1. ~lost /\ output'[s] = Append(output[s], m) /\ \A u \in Shards \ {s} : output'[u] = output[u]
  BY EmitFacts
<1>2. output[s] \in Seq(Outputs)
  BY QueueTypes
<1>3. Range(output'[s]) = Range(output[s]) \cup {m}
  BY <1>1, <1>2, RangeAppend
<1> QED BY <1>1, <1>3

LEMMA StreamCreate ==
  ASSUME TableInv, StreamInv, NEW s \in Shards, CreateStep(s)
  PROVE  StreamInv'
<1> SUFFICES ASSUME ~lost' PROVE StreamInv'
  BY DEF StreamInv
<1>1. Types /\ LocalInv /\ PlaceInv /\ JobInv
  BY DEF TableInv
<1>2. Local(eng[s]) /\ \A x \in TabOf(eng[s]) : x.id <= ids
  BY <1>1, TableTypes
<1>3. PICK m : m = Head(input[s])
  OBVIOUS
<1>4. /\ input[s] # <<>> /\ Consume(s) /\ UNCHANGED router /\ m \in Getconfs /\ m.kind = "getconf"
      /\ \E e, f : Created(s, m, e, f)
  BY <1>1, <1>2, <1>3, CreateFacts DEF Heads
<1>5. PICK e, f : Created(s, m, e, f)
  BY <1>4
<1>6. PICK z : z = NewSession(m)
  OBVIOUS
<1>7. z \in Sessions /\ z.reg = 0 /\ z.dev = m.dev /\ Migrate(m) \in Outputs /\ Bind(m.key, s) \in Outputs
      /\ Migrate(m).kind = "migrate" /\ Bind(m.key, s).kind = "bind"
  <2>1. m.key \in Keys /\ Migrate(m) \in Migrations
    BY <1>1, <1>4, GetconfFacts, NewFacts
  <2>2. Bind(m.key, s) \in Binds
    BY <2>1 DEF Bind, Binds
  <2> QED BY <1>1, <1>4, <1>6, <2>1, <2>2, NewFacts DEF Outputs, Bind, Migrate
<1>8. PICK o \in Outputs : o.kind # "tunnel" /\ Emit(s, o)
  BY <1>5, <1>7 DEF Created, Leaves, Stays
<1>9. /\ ~lost
      /\ \A u \in Shards : Range(output[u]) \subseteq Range(output'[u])
      /\ \A u \in Shards : \A y \in Range(output'[u]) : y \in Range(output[u]) \/ (u = s /\ y = o)
  BY <1>1, <1>8, EmitStreams
<1>10. GenOK(eng[s]) /\ ServedOK(eng[s]) /\ \A x \in TabOf(eng[s]) : Home[x.dev] = s
  BY <1>9, StreamNow
<1>11. Part(e, eng[s]) /\ eng' = [eng EXCEPT ![s] = f] /\ (ServedOK(e) => ServedOK(f))
  BY <1>5 DEF Created
<1>12. TabOf(e) \subseteq TabOf(eng[s]) /\ ServedOK(f)
  BY <1>10, <1>11, PartTable DEF Part
<1>13. \A x \in TabOf(f) : x \in TabOf(eng[s]) \/ (x = z /\ Home[m.dev] = s)
  BY <1>5, <1>6, <1>12 DEF Created, Leaves, Stays
<1>14. \A j \in jobs' : j.locked => j \in jobs
  <2>1. jobs' = jobs \/ Publish(NewSession(m))
    BY <1>5 DEF Created, Leaves, Stays
  <2> QED BY <2>1 DEF Publish
<1>15. /\ \A x \in TabOf(f) : Home[x.dev] = s
       /\ \A x \in TabOf(f) : x.reg # 0 => x \in TabOf(eng[s])
  BY <1>7, <1>10, <1>13
<1>16. GenOK(f)
  BY <1>10, <1>15 DEF GenOK
<1>17. Obeys(TabOf(f), TabOf(eng[s]), Head(input[s]))
  BY <1>3, <1>4, <1>15 DEF Obeys, EpochOf
<1>18. /\ \A x \in TabOf(f) : x.reg # 0 => \E y \in TabOf(eng[s]) : y.reg # 0 /\ y.dev = x.dev
       /\ \A u \in Shards : \A y \in Range(output'[u]) : y.kind = "tunnel" => y \in Range(output[u])
       /\ tunnels' = tunnels
  BY <1>4, <1>8, <1>9, <1>15 DEF router
<1> QED BY <1>4, <1>9, <1>11, <1>12, <1>14, <1>15, <1>16, <1>17, <1>18, StreamShard

LEMMA StreamAdopt ==
  ASSUME TableInv, StreamInv, NEW s \in Shards, OnAdopt(s)
  PROVE  StreamInv'
<1> SUFFICES ASSUME ~lost' PROVE StreamInv'
  BY DEF StreamInv
<1>1. Types /\ LocalInv /\ PlaceInv /\ MessageInv /\ JobInv
  BY DEF TableInv
<1>2. Local(eng[s]) /\ Heads(s, "adopt")
  BY <1>1, TableTypes DEF OnAdopt
<1>3. PICK x : x = Head(input[s]).x
  OBVIOUS
<1>4. x.reg = 0 /\ s = Home[x.dev] /\ \A y \in TabOf(eng[s]) : y.id # x.id
  BY <1>1, <1>2, <1>3, AdoptHead
<1>5. /\ x \in Sessions /\ Consume(s) /\ Emit(s, Bind(x.key, s)) /\ Publish(x) /\ UNCHANGED router
      /\ \E f : /\ eng' = [eng EXCEPT ![s] = f] /\ TabOf(f) = TabOf(eng[s]) \cup {x}
                /\ ServedOK(eng[s]) => ServedOK(f)
  BY <1>1, <1>2, <1>3, <1>4, AdoptFacts
<1>6. PICK f : /\ eng' = [eng EXCEPT ![s] = f] /\ TabOf(f) = TabOf(eng[s]) \cup {x}
               /\ ServedOK(eng[s]) => ServedOK(f)
  BY <1>5
<1>7. PICK o \in Outputs : o.kind # "tunnel" /\ Emit(s, o)
  <2>1. Bind(x.key, s) \in Binds /\ Bind(x.key, s).kind = "bind"
    BY <1>5 DEF Bind, Binds, Sessions
  <2> QED BY <1>5, <2>1 DEF Outputs
<1>8. /\ ~lost
      /\ \A u \in Shards : Range(output[u]) \subseteq Range(output'[u])
      /\ \A u \in Shards : \A y \in Range(output'[u]) : y \in Range(output[u]) \/ (u = s /\ y = o)
  BY <1>1, <1>7, EmitStreams
<1>9. GenOK(eng[s]) /\ ServedOK(eng[s]) /\ \A y \in TabOf(eng[s]) : Home[y.dev] = s
  BY <1>8, StreamNow
<1>10. \A j \in jobs' : j.locked => j \in jobs
  BY <1>5 DEF Publish
<1>11. /\ \A y \in TabOf(f) : Home[y.dev] = s
       /\ \A y \in TabOf(f) : y.reg # 0 => y \in TabOf(eng[s])
  BY <1>4, <1>6, <1>9
<1>12. GenOK(f) /\ ServedOK(f)
  BY <1>6, <1>9, <1>11 DEF GenOK
<1>13. Obeys(TabOf(f), TabOf(eng[s]), Head(input[s])) /\ input[s] # <<>>
  BY <1>2, <1>11 DEF Obeys, EpochOf, Heads
<1>14. /\ \A y \in TabOf(f) : y.reg # 0 => \E w \in TabOf(eng[s]) : w.reg # 0 /\ w.dev = y.dev
       /\ \A u \in Shards : \A y \in Range(output'[u]) : y.kind = "tunnel" => y \in Range(output[u])
       /\ tunnels' = tunnels
  BY <1>5, <1>7, <1>8, <1>11 DEF router
<1> QED BY <1>5, <1>6, <1>8, <1>10, <1>11, <1>12, <1>13, <1>14, StreamShard

(* The sessions that have a registration when an activation is carried out   *)
(* are of its generation.                                                    *)
LEMMA ActivateNow ==
  ASSUME TableInv, ~lost, StreamInv, NEW s \in Shards, Heads(s, "activate")
  PROVE  LET m == Head(input[s])
         IN  /\ OfGen(eng[s], m.dev, m.gen)
             /\ \A x \in TabOf(eng[s]) : x.id = m.id => x.dev = m.dev /\ x.gen = m.gen
<1>1. Types /\ LocalInv /\ PlaceInv /\ JobInv
  BY DEF TableInv
<1>2. PICK m, q : m = Head(input[s]) /\ q = input[s]
  OBVIOUS
<1>3. q \in Seq(Inputs) /\ q # <<>> /\ 1 \in DOMAIN q /\ m = q[1] /\ m.kind = "activate"
  BY <1>1, <1>2, HeadFacts
<1>4. Follows(TabOf(eng[s]), q, 1, m.dev, m.gen)
  BY <1>2, <1>3 DEF StreamInv, ActivateInv, ActivateAt, Tab
<1>5. Quiet(q, m.dev, 0, 1)
  <2>1. \A h \in DOMAIN q : h \in Nat
    BY <1>3, TailFacts
  <2> QED BY <2>1 DEF Quiet
<1>6. OfGen(eng[s], m.dev, m.gen)
  BY <1>4, <1>5 DEF Follows, OfGen
<1>7. m \in Range(input[s])
  BY <1>2, <1>3, RangeIs
<1>8. NamesWell(m)
  BY <1>1, <1>3, <1>7 DEF JobInv
<1>9. \A x \in TabOf(eng[s]) : x \in Live
  BY <1>1, TableTypes
<1> QED BY <1>2, <1>6, <1>8, <1>9 DEF NamesWell, SameIdentity

LEMMA StreamActivate ==
  ASSUME TableInv, StreamInv, NEW s \in Shards, OnActivate(s)
  PROVE  StreamInv'
<1>1. Types /\ LocalInv /\ PlaceInv /\ RegInv
  BY DEF TableInv
<1>2. Local(eng[s]) /\ Heads(s, "activate")
  BY <1>1, TableTypes DEF OnActivate
<1>3. PICK m : m = Head(input[s])
  OBVIOUS
<1>4. m \in Activates /\ m.reg # 0 /\ (\A y \in TabOf(eng[s]) : y.reg < m.reg) /\ m.kind = "activate"
  BY <1>1, <1>2, <1>3, ActivateHead DEF Heads
<1>5. /\ Consume(s) /\ UNCHANGED <<router, jobs>> /\ input[s] # <<>>
      /\ \/ UNCHANGED <<eng, output, lost>>
         \/ /\ Emit(s, [kind |-> "tunnel", ip |-> m.dev, shard |-> s])
            /\ \E y, f : Activates1(s, m, y, f)
  BY <1>1, <1>2, <1>3, <1>4, ActivateFacts DEF Heads
<1>6. \A j \in jobs' : j.locked => j \in jobs
  BY <1>5
<1>7. CASE UNCHANGED <<eng, output, lost>>
  <2>1. PICK f : f = eng[s]
    OBVIOUS
  <2>2. eng' = [eng EXCEPT ![s] = f] /\ TabOf(f) = TabOf(eng[s]) /\ (ServedOK(eng[s]) => ServedOK(f))
        /\ Head(input[s]).kind # "epoch"
    BY <1>1, <1>3, <1>4, <1>7, <2>1 DEF Types
  <2>3. UNCHANGED <<output, router, lost>>
    BY <1>5, <1>7
  <2> QED BY <1>5, <1>6, <2>2, <2>3, StreamSame
<1>8. CASE Emit(s, [kind |-> "tunnel", ip |-> m.dev, shard |-> s]) /\ \E y, f : Activates1(s, m, y, f)
  <2> SUFFICES ASSUME ~lost' PROVE StreamInv'
    BY DEF StreamInv
  <2>1. PICK y, f : Activates1(s, m, y, f)
    BY <1>8
  <2>2. PICK o : o = [kind |-> "tunnel", ip |-> m.dev, shard |-> s]
    OBVIOUS
  <2>3. o \in Outputs /\ o.kind = "tunnel" /\ o.ip = m.dev /\ Emit(s, o)
    BY <1>4, <1>8, <2>2 DEF Outputs, Tunnels, Activates
  <2>4. /\ ~lost /\ o \in Range(output'[s])
        /\ \A u \in Shards : Range(output[u]) \subseteq Range(output'[u])
        /\ \A u \in Shards : \A z \in Range(output'[u]) : z \in Range(output[u]) \/ (u = s /\ z = o)
    BY <1>1, <2>3, EmitStreams
  <2>5. GenOK(eng[s]) /\ ServedOK(eng[s]) /\ \A x \in TabOf(eng[s]) : x \in Sessions /\ Home[x.dev] = s
    BY <1>1, <2>4, StreamNow, TableTypes
  <2>6. /\ OfGen(eng[s], m.dev, m.gen)
        /\ \A x \in TabOf(eng[s]) : x.id = m.id => x.dev = m.dev /\ x.gen = m.gen
    BY <1>2, <1>3, <2>4, ActivateNow
  <2>7. PICK z : z = [y EXCEPT !.reg = m.reg]
    OBVIOUS
  <2>8. /\ y \in TabOf(eng[s]) /\ y.id = m.id /\ eng' = [eng EXCEPT ![s] = f]
        /\ TabOf(f) = (TabOf(eng[s]) \ {y}) \cup {z}
        /\ GenOK(eng[s]) /\ OfGen(eng[s], y.dev, y.gen) => GenOK(f)
        /\ ServedOK(eng[s]) => ServedOK(f)
    BY <2>1, <2>7 DEF Activates1
  <2>9. y.dev = m.dev /\ y.gen = m.gen /\ z.dev = m.dev /\ z.gen = m.gen /\ Home[m.dev] = s
    BY <2>5, <2>6, <2>7, <2>8 DEF Sessions
  <2>10. GenOK(f) /\ ServedOK(f)
    BY <2>5, <2>6, <2>8, <2>9
  <2>11. \A x \in TabOf(f) : Home[x.dev] = s /\ (x \in TabOf(eng[s]) \/ x = z)
    BY <2>5, <2>8, <2>9
  <2>12. Obeys(TabOf(f), TabOf(eng[s]), Head(input[s]))
    BY <1>3, <1>4, <2>9, <2>11 DEF Obeys, EpochOf, About
  <2>13. \A x \in TabOf(f) : x.reg # 0 =>
           \/ \E w \in TabOf(eng[s]) : w.reg # 0 /\ w.dev = x.dev
           \/ \E w \in Range(output'[s]) : w.kind = "tunnel" /\ w.ip = x.dev
    BY <2>3, <2>4, <2>9, <2>11
  <2>14. \A u \in Shards : \A w \in Range(output'[u]) : w.kind = "tunnel" => w \in Range(output[u]) \/ Home[w.ip] = u
    BY <2>3, <2>4, <2>9
  <2>15. tunnels' = tunnels
    BY <1>5 DEF router
  <2> QED BY <1>5, <1>6, <2>4, <2>8, <2>10, <2>11, <2>12, <2>13, <2>14, <2>15, StreamShard
<1> QED BY <1>5, <1>7, <1>8

(* A message is put into queues.                                             *)
LEMMA StreamSend ==
  ASSUME TableInv, ~lost, StreamInv, eng' = eng, HomeInv', NEW m \in Inputs,
         \A u \in Shards : input'[u] = input[u] \/ input'[u] = Append(input[u], m),
         m.kind = "activate" =>
           \A u \in Shards : Follows(TabOf(eng[u]), input[u], Len(input[u]) + 1, m.dev, m.gen),
         \A j \in jobs' : j.locked =>
           \/ j \in jobs /\ (About(m, j.dev) => m.gen = j.gen)
           \/ EpochOf(m, j.dev) /\ m.gen = j.gen /\ \A u \in Shards : input'[u] = Append(input[u], m)
  PROVE  StreamInv'
<1>1. /\ \A u \in Shards : GenOK(eng[u]) /\ ServedOK(eng[u])
      /\ \A u \in Shards : ActivateAt(TabOf(eng[u]), input[u])
      /\ \A u \in Shards : \A j \in jobs : j.locked => Follows(TabOf(eng[u]), input[u], Len(input[u]) + 1, j.dev, j.gen)
      /\ Types
  BY DEF StreamInv, ActivateInv, LockInv, Tab, TableInv
<1>2. ASSUME NEW u \in Shards
      PROVE  /\ ActivateAt(TabOf(eng[u]), input'[u])
             /\ \A d, g : Follows(TabOf(eng[u]), input[u], Len(input[u]) + 1, d, g) /\ (About(m, d) => m.gen = g) =>
                  Follows(TabOf(eng[u]), input'[u], Len(input'[u]) + 1, d, g)
             /\ \A d, g : input'[u] = Append(input[u], m) /\ EpochOf(m, d) /\ m.gen = g =>
                  Follows(TabOf(eng[u]), input'[u], Len(input'[u]) + 1, d, g)
  <2>1. PICK T, q : T = TabOf(eng[u]) /\ q = input[u]
    OBVIOUS
  <2>2. q \in Seq(Inputs) /\ ActivateAt(T, q) /\ (m.kind = "activate" => Follows(T, q, Len(q) + 1, m.dev, m.gen))
    BY <2>1, <1>1, QueueTypes
  <2>3. /\ ActivateAt(T, Append(q, m))
        /\ \A d, g : Follows(T, q, Len(q) + 1, d, g) /\ (About(m, d) => m.gen = g) =>
             Follows(T, Append(q, m), Len(Append(q, m)) + 1, d, g)
        /\ \A d, g : EpochOf(m, d) /\ m.gen = g => Follows(T, Append(q, m), Len(Append(q, m)) + 1, d, g)
    BY <2>2, StreamAppend
  <2>4. CASE input'[u] = Append(q, m)
    BY <2>1, <2>3, <2>4
  <2>5. CASE input'[u] = q /\ input'[u] # Append(q, m)
    BY <2>1, <2>2, <2>5
  <2> QED BY <2>1, <2>4, <2>5
<1>3. ActivateInv'
  BY <1>2 DEF ActivateInv, Tab
<1>4. ASSUME NEW u \in Shards, NEW j \in jobs', j.locked
      PROVE  Follows(TabOf(eng[u]), input'[u], Len(input'[u]) + 1, j.dev, j.gen)
  <2>1. CASE j \in jobs /\ (About(m, j.dev) => m.gen = j.gen)
    <3>1. Follows(TabOf(eng[u]), input[u], Len(input[u]) + 1, j.dev, j.gen)
      BY <1>1, <1>4, <2>1
    <3> QED BY <3>1, <2>1, <1>2
  <2>2. CASE EpochOf(m, j.dev) /\ m.gen = j.gen /\ \A v \in Shards : input'[v] = Append(input[v], m)
    BY <2>2, <1>2
  <2> QED BY <2>1, <2>2, <1>4
<1>5. LockInv'
  BY <1>4 DEF LockInv, Tab
<1>6. \A u \in Shards : GenOK(eng'[u]) /\ ServedOK(eng'[u])
  BY <1>1
<1> QED BY <1>3, <1>5, <1>6 DEF StreamInv

LEMMA StreamUdp ==
  ASSUME TableInv, StreamInv, NEW m \in Getconfs, RouteUdp(m)
  PROVE  StreamInv'
<1> SUFFICES ASSUME ~lost' PROVE StreamInv'
  BY DEF StreamInv
<1>1. /\ UNCHANGED <<eng, output, router, jobs, lost>>
      /\ input' = [input EXCEPT ![bound[m.key]] = Append(@, m)]
  BY DEF RouteUdp
<1>2. ~lost /\ eng' = eng /\ jobs' = jobs /\ m.kind = "getconf" /\ m \in Inputs
  BY <1>1, GetconfFacts
<1>3. HomeInv'
  BY <1>1, <1>2 DEF StreamInv, HomeInv, Tab, router
<1>4. \A u \in Shards : input'[u] = input[u] \/ input'[u] = Append(input[u], m)
  BY <1>1 DEF TableInv, Types
<1>5. \A j \in jobs' : j.locked => j \in jobs /\ (About(m, j.dev) => m.gen = j.gen)
  BY <1>2 DEF About
<1> QED BY <1>2, <1>3, <1>4, <1>5, StreamSend

LEMMA StreamEpoch ==
  ASSUME TableInv, StreamInv, NEW j \in jobs, GetconfEpoch(j)
  PROVE  StreamInv'
<1> SUFFICES ASSUME ~lost' PROVE StreamInv'
  BY DEF StreamInv
<1>1. PICK m : m = [kind |-> "epoch", dev |-> j.dev, gen |-> j.gen]
  OBVIOUS
<1>2. /\ \A i \in jobs : i.dev = j.dev => ~i.locked
      /\ jobs' = (jobs \ {j}) \cup {[j EXCEPT !.locked = TRUE]}
      /\ Fanout(m) /\ UNCHANGED <<eng, output, router>>
  BY <1>1 DEF GetconfEpoch
<1>3. Types /\ j \in Jobs
  BY DEF TableInv, Types
<1>4. m \in Inputs /\ m.kind = "epoch" /\ m.dev = j.dev /\ m.gen = j.gen
  BY <1>1, <1>3 DEF Inputs, Epochs, Jobs
<1>5. ~lost /\ \A u \in Shards : input'[u] = Append(input[u], m)
  BY <1>2, <1>3, <1>4, FanoutFacts
<1>6. HomeInv'
  BY <1>2, <1>5 DEF StreamInv, HomeInv, Tab, router
<1>7. \A i \in jobs' : i.locked =>
        \/ i \in jobs /\ (About(m, i.dev) => m.gen = i.gen)
        \/ EpochOf(m, i.dev) /\ m.gen = i.gen /\ \A u \in Shards : input'[u] = Append(input[u], m)
  <2> SUFFICES ASSUME NEW i \in jobs', i.locked
               PROVE  \/ i \in jobs /\ (About(m, i.dev) => m.gen = i.gen)
                      \/ EpochOf(m, i.dev) /\ m.gen = i.gen
    BY <1>5
  <2>1. CASE i \in jobs
    BY <2>1, <1>2, <1>4 DEF About
  <2>2. CASE i = [j EXCEPT !.locked = TRUE]
    BY <2>2, <1>3, <1>4 DEF EpochOf, Jobs
  <2> QED BY <2>1, <2>2, <1>2
<1>8. eng' = eng
  BY <1>2
<1> QED BY <1>4, <1>5, <1>6, <1>7, <1>8, StreamSend

LEMMA StreamRegister ==
  ASSUME TableInv, StreamInv, NEW j \in jobs, GetconfActivate(j)
  PROVE  StreamInv'
<1> SUFFICES ASSUME ~lost' PROVE StreamInv'
  BY DEF StreamInv
<1>1. PICK m : m = [kind |-> "activate", id |-> j.id, dev |-> j.dev, gen |-> j.gen, reg |-> regs + 1]
  OBVIOUS
<1>2. j.locked /\ jobs' = jobs \ {j} /\ Fanout(m) /\ UNCHANGED <<eng, output, router>>
  BY <1>1 DEF GetconfActivate
<1>3. Types /\ j \in Jobs /\ regs \in Nat /\ JobInv
  BY DEF TableInv, Types
<1>4. m \in Inputs /\ m.kind = "activate" /\ m.dev = j.dev /\ m.gen = j.gen
  BY <1>1, <1>3 DEF Inputs, Activates, Jobs
<1>5. ~lost /\ \A u \in Shards : input'[u] = Append(input[u], m)
  BY <1>2, <1>3, <1>4, FanoutFacts
<1>6. HomeInv'
  BY <1>2, <1>5 DEF StreamInv, HomeInv, Tab, router
<1>7. \A i \in jobs' : i.locked => i \in jobs /\ (About(m, i.dev) => m.gen = i.gen)
  BY <1>2, <1>3, <1>4 DEF JobInv, About
<1>8. \A u \in Shards : Follows(TabOf(eng[u]), input[u], Len(input[u]) + 1, m.dev, m.gen)
  BY <1>2, <1>4, <1>5 DEF StreamInv, LockInv, Tab
<1>9. eng' = eng
  BY <1>2
<1> QED BY <1>4, <1>5, <1>6, <1>7, <1>8, <1>9, StreamSend

LEMMA StreamDeliver ==
  ASSUME TableInv, ~lost, StreamInv, eng' = eng, jobs' = jobs, HomeInv', NEW m \in Migrations,
         Room(input[m.shard], InputCap), Deliver(m)
  PROVE  StreamInv'
<1>1. Types
  BY DEF TableInv
<1>2. PICK a : a = Adoption(m)
  OBVIOUS
<1>3. a \in Inputs /\ a.kind = "adopt" /\ \A u \in Shards : input'[u] = input[u] \/ input'[u] = Append(input[u], a)
  BY <1>1, <1>2, DeliverFacts
<1>4. \A j \in jobs' : j.locked => j \in jobs /\ (About(a, j.dev) => a.gen = j.gen)
  BY <1>3 DEF About
<1> QED BY <1>3, <1>4, StreamSend

LEMMA StreamRetry ==
  ASSUME TableInv, StreamInv, NEW m \in pending, RouterRetry(m)
  PROVE  StreamInv'
<1> SUFFICES ASSUME ~lost' PROVE StreamInv'
  BY DEF StreamInv
<1>1. /\ Room(input[m.shard], InputCap) /\ Deliver(m)
      /\ UNCHANGED <<eng, output, tunnels, jobs, lost>>
  BY DEF RouterRetry
<1>2. m \in Migrations /\ ~lost /\ eng' = eng /\ jobs' = jobs
  BY <1>1 DEF TableInv, Types
<1>3. HomeInv'
  BY <1>1, <1>2 DEF StreamInv, HomeInv, Tab
<1> QED BY <1>1, <1>2, <1>3, StreamDeliver

LEMMA StreamTake ==
  ASSUME TableInv, StreamInv, NEW s \in Shards, RouterTake(s)
  PROVE  StreamInv'
<1> SUFFICES ASSUME ~lost' PROVE StreamInv'
  BY DEF StreamInv
<1>1. PICK m : m = Head(output[s])
  OBVIOUS
<1>2. output[s] # <<>> /\ output' = [output EXCEPT ![s] = Tail(@)] /\ UNCHANGED <<eng, jobs, lost>>
  BY DEF RouterTake
<1>3. /\ m.kind = "bind" => UNCHANGED <<input, tunnels>>
      /\ m.kind = "tunnel" => tunnels' = [tunnels EXCEPT ![m.ip] = m.shard] /\ UNCHANGED input
      /\ m.kind \notin {"bind", "tunnel"} =>
           \/ Room(input[m.shard], InputCap) /\ Deliver(m) /\ UNCHANGED tunnels
           \/ UNCHANGED <<input, tunnels>>
  BY <1>1 DEF RouterTake
<1>4. Types /\ PlaceInv /\ MessageInv /\ output[s] \in Seq(Outputs)
  BY QueueTypes DEF TableInv
<1>5. /\ m \in Outputs /\ m \in Range(output[s]) /\ output'[s] = Tail(output[s])
      /\ \A u \in Shards \ {s} : output'[u] = output[u]
      /\ \A u \in Shards : Range(output'[u]) \subseteq Range(output[u])
  BY <1>1, <1>2, <1>4, TakePlaces
<1>6. \A u \in Shards : \A z \in Range(output[u]) : z \in Range(output'[u]) \/ (u = s /\ z = m)
  <2>1. \A z \in Range(output[s]) : z = m \/ z \in Range(Tail(output[s]))
    BY <1>1, <1>2, <1>4, RangeTail
  <2> QED BY <2>1, <1>5
<1>7. /\ m.kind \in {"bind", "tunnel", "migrate"} /\ (m.kind = "tunnel" => m \in Tunnels /\ m.shard = s)
      /\ (m.kind = "migrate" => m \in Migrations)
  BY <1>4, <1>5, OutputKinds DEF MessageInv
<1>8. ~lost /\ eng' = eng /\ jobs' = jobs
  BY <1>2
<1>9. /\ \A u \in Shards : \A x \in TabOf(eng[u]) : Home[x.dev] = u
      /\ \A u \in Shards : \A z \in Range(output[u]) : z.kind = "tunnel" => Home[z.ip] = u
      /\ \A u \in Shards : \A x \in TabOf(eng[u]) : x.reg # 0 =>
           tunnels[x.dev] = u \/ \E z \in Range(output[u]) : z.kind = "tunnel" /\ z.ip = x.dev
  BY <1>8 DEF StreamInv, HomeInv, Tab
<1>10. ASSUME NEW u \in Shards, NEW x \in TabOf(eng[u]), x.reg # 0
       PROVE  tunnels'[x.dev] = u \/ \E z \in Range(output'[u]) : z.kind = "tunnel" /\ z.ip = x.dev
  <2>1. tunnels[x.dev] = u \/ \E z \in Range(output[u]) : z.kind = "tunnel" /\ z.ip = x.dev
    BY <1>9, <1>10
  <2>2. CASE m.kind # "tunnel"
    <3>1. tunnels' = tunnels
      BY <1>3, <1>7, <2>2
    <3> QED BY <3>1, <2>1, <2>2, <1>6
  <2>3. CASE m.kind = "tunnel" /\ m.ip = x.dev
    <3>1. Home[m.ip] = s /\ Home[x.dev] = u
      BY <1>5, <1>9, <2>3
    <3>2. tunnels'[m.ip] = s
      BY <1>3, <1>4, <1>7, <2>3 DEF Types, Tunnels
    <3> QED BY <3>1, <3>2, <2>3
  <2>4. CASE m.kind = "tunnel" /\ m.ip # x.dev
    <3>1. tunnels'[x.dev] = tunnels[x.dev]
      <4>1. x.dev \in Devices
        BY <1>4, TableTypes DEF TableInv, Sessions
      <4> QED BY <4>1, <1>3, <1>4, <2>4 DEF Types
    <3> QED BY <3>1, <2>1, <2>4, <1>6
  <2> QED BY <2>2, <2>3, <2>4
<1>11. HomeInv'
  <2>1. \A u \in Shards : \A x \in TabOf(eng'[u]) : Home[x.dev] = u
    BY <1>8, <1>9
  <2>2. \A u \in Shards : \A z \in Range(output'[u]) : z.kind = "tunnel" => Home[z.ip] = u
    BY <1>5, <1>9
  <2> QED BY <1>8, <1>10, <2>1, <2>2 DEF HomeInv, Tab
<1>12. CASE m.kind = "migrate" /\ Room(input[m.shard], InputCap) /\ Deliver(m)
  BY <1>7, <1>8, <1>11, <1>12, StreamDeliver
<1>13. CASE UNCHANGED input
  BY <1>8, <1>11, <1>13 DEF StreamInv, ActivateInv, LockInv, Tab
<1> QED BY <1>3, <1>7, <1>12, <1>13

LEMMA StreamInit ==
  ASSUME Init
  PROVE  StreamInv
<1>1. \A s \in Shards : GenOK(eng[s]) /\ ServedOK(eng[s])
  BY InitFacts, EmptyFacts DEF GenOK
<1>2. ActivateInv /\ LockInv /\ HomeInv
  BY InitFacts DEF ActivateInv, ActivateAt, LockInv, HomeInv, Tab
<1> QED BY <1>1, <1>2 DEF StreamInv

LEMMA StreamNext ==
  ASSUME TableInv, StreamInv, [Next]_vars
  PROVE  StreamInv'
<1>1. CASE UNCHANGED vars
  BY <1>1 DEF vars, router, StreamInv, ActivateInv, LockInv, HomeInv, Tab
<1>2. CASE Next
  BY <1>2, NextCases, StreamCreate, StreamRead, StreamAdopt, StreamActivate, StreamCompact,
     StreamDrop, StreamTake, StreamSweep, StreamUdp, StreamRetry, StreamEpoch, StreamRegister
<1> QED BY <1>1, <1>2

(* The strengthening behind StreamsServed and Reached: until a try_send      *)
(* fails, the registered sessions of a device are of the generation of its   *)
(* last SetAuthoritativeEpoch, every ActivateTunnel in a queue follows the   *)
(* epoch of its own generation, and sessions live on the shard of their      *)
(* device (handle_getconf, activate_tunnel, place_new_session).              *)
THEOREM StreamsHold == Spec => []StreamInv
<1>1. Init => TableInv /\ StreamInv
  BY TableInit, StreamInit
<1>2. TableInv /\ StreamInv /\ [Next]_vars => (TableInv /\ StreamInv)'
  BY TableNext, StreamNext
<1> QED BY <1>1, <1>2, PTL DEF Spec

(* As long as no queue has overflowed, a registered session is never without *)
(* a route for its stream: whatever is removed, retired or compacted, the    *)
(* heir of remove_slot_with_reason takes the route over.                     *)
THEOREM StreamsAlwaysServed == Spec => []StreamsServed
<1>1. StreamInv => StreamsServed
  BY DEF StreamInv, ServedOK, StreamsServed
<1> QED BY <1>1, StreamsHold, PTL

(* As long as no queue has overflowed, a session lies where the router sends *)
(* the datagrams of its endpoint (endpoint_shards), and a registered one     *)
(* where it sends the packets of its device (tunnel_shards), once the router *)
(* has read what the shard told it; for marks that outlive the migration.    *)
THEOREM SessionsReached == ASSUME Prompt PROVE Spec => []Reached
<1>1. EndpointInv /\ StreamInv => Reached
  <2> SUFFICES ASSUME EndpointInv, StreamInv, ~lost, NEW s \in Shards, NEW slot \in DOMAIN eng[s].tab,
                      NEW x, x = eng[s].tab[slot]
               PROVE  /\ bound[x.key] = s \/ Announced(s, x.key)
                      /\ x.reg # 0 => tunnels[x.dev] = s \/ Tunnelled(s, x.dev)
    BY DEF Reached
  <2>1. x \in Tab(s)
    BY DEF Tab, TabOf
  <2>2. bound[x.key] = s
    BY <2>1 DEF EndpointInv, BoundInv
  <2>3. x.reg # 0 => tunnels[x.dev] = s \/ \E m \in Range(output[s]) : m.kind = "tunnel" /\ m.ip = x.dev
    BY <2>1 DEF StreamInv, HomeInv
  <2>4. (\E m \in Range(output[s]) : m.kind = "tunnel" /\ m.ip = x.dev) => Tunnelled(s, x.dev)
    BY RangeIs DEF Tunnelled
  <2> QED BY <2>2, <2>3, <2>4
<1> QED BY <1>1, EndpointsHold, StreamsHold, PTL

===============================================================================
