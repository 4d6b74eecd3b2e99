------------------------- MODULE DeviceControlProofs -------------------------
(***************************************************************************)
(* The serialisation of the control tasks of one device, and what holds of *)
(* the engine's tunnels, for any number of devices, tasks, sessions,       *)
(* passwords and epochs.                                                   *)
(*                                                                         *)
(* The first property speaks of the places of two tasks.  What keeps them  *)
(* apart is a slot: a task inside its critical section holds the mutex of  *)
(* the slot it remembers, and that slot is still the one in the map of its *)
(* device.  Neither half alone is enough, because slots are taken out of   *)
(* the map by the sweeper and by a refused GETCONF, and made again by the  *)
(* next one, while others wait for them.                                   *)
(*                                                                         *)
(* The tunnels are compared with the table, the database and the slots     *)
(* when the command channel is empty.  The invariant must also say what    *)
(* holds before that: every admitted session that the table, the database  *)
(* or the slot no longer agrees with is doomed (a queued command ends it), *)
(* or the handler that will queue that command is still under way.         *)
(***************************************************************************)
EXTENDS DeviceControl, FiniteSetTheorems, SequenceTheorems, TLAPS

USE DEF None

-----------------------------------------------------------------------------
(* The invariant.                                                          *)

Inside == {"admit", "send", "disconnect"}
Attached == {"lock", "relock"} \cup Inside

Job == [at : {"idle", "ensure", "build", "publish"} \cup Attached, s : Nat,
        slot : {0} \cup Slots, fresh : BOOLEAN, changed : BOOLEAN, set : SUBSET Passwords]

\* A task that has got as far as a slot remembers it and its session.
JobInv ==
    /\ job \in [Jobs -> Job]
    /\ \A j \in Jobs :
          /\ job[j].at \in Attached => job[j].s \in Sessions /\ job[j].slot \in Slots
          /\ job[j].at = "ensure" => job[j].s \in Sessions

SlotTypes ==
    /\ slotOf \in [Devices -> {0} \cup Slots]
    /\ slot \in [Slots -> [epoch : Epochs \cup {None}, holder : Jobs \cup {None}]]

\* A held slot is held by a task that is past its lock.
HolderInv ==
    \A n \in Slots :
        slot[n].holder # None => /\ job[slot[n].holder].slot = n
                                 /\ job[slot[n].holder].at \in Inside

\* A task past its lock holds its slot, and the slot is the device's.
InsideInv ==
    \A j \in Jobs :
        job[j].at \in Inside => /\ slot[job[j].slot].holder = j
                                /\ slotOf[Device(j)] = job[j].slot

SlotInv == JobInv /\ SlotTypes /\ HolderInv /\ InsideInv

Command ==
    [op : {"SetAuthoritativeEpoch"}, dev : Devices, epoch : Epochs]
        \cup [op : {"ActivateTunnel", "DropSession"}, session : Sessions]
        \cup [op : {"DropPassword"}, pw : Passwords]
        \cup [op : {"DisconnectDevice"}, dev : Devices, requester : Sessions]
        \cup [op : {"ReplaceCredentials"}, set : SUBSET Passwords]

DbTypes ==
    /\ entry \in [Passwords -> {"on", "off", "gone"}]
    /\ bind \in [Passwords -> Devices \cup {None}]
    /\ ips \subseteq Devices

PublicTypes ==
    /\ listed \in [Sessions -> {"new", "in", "out"}]
    /\ tunnelled \in [Sessions -> BOOLEAN] /\ known \in [Sessions -> BOOLEAN]

EngineTypes ==
    /\ engine \in [Sessions -> {"unborn", "setup", "tunnel", "dead"}]
    /\ creds \subseteq Passwords

CommandInv ==
    /\ cmds \in Seq(Command) /\ Len(cmds) <= CommandCap
    /\ exempt \subseteq Devices \cup Passwords

PanelInv ==
    /\ panel.at # "idle" => panel.pw \in Passwords
    /\ panel = [at |-> panel.at, pw |-> panel.pw, todo |-> panel.todo]

DataInv == DbTypes /\ PublicTypes /\ EngineTypes /\ CommandInv /\ PanelInv

ControlInv == SlotInv /\ DataInv

-----------------------------------------------------------------------------
(* The invariant of the tunnels: what the queued commands will do.          *)

\* A command that ends session s if the engine has it.
Kills(c, s) ==
    \/ c.op = "SetAuthoritativeEpoch" /\ Ident[s].dev = c.dev /\ Ident[s].epoch # c.epoch
    \/ c.op = "DropSession" /\ s = c.session
    \/ c.op = "DropPassword" /\ Ident[s].pw = c.pw
    \/ c.op = "DisconnectDevice" /\ (s = c.requester \/ Ident[s].dev = c.dev)
    \/ c.op = "ReplaceCredentials" /\ Ident[s].pw \notin c.set

Doomed(s) == \E i \in 1 .. Len(cmds) : Kills(cmds[i], s)
Activates(c, s) == c.op = "ActivateTunnel" /\ c.session = s
Activating(s) == \E i \in 1 .. Len(cmds) : Activates(cmds[i], s)

\* A task that works for session s, and one that may activate its tunnel.
Served(s) == \E j \in Jobs : job[j].at \in Attached \cup {"ensure"} /\ job[j].s = s
Granted(s) == \E j \in Jobs : job[j].at \in {"send", "ensure"} /\ job[j].s = s

\* Nothing was lost for the session's device and password.
Unharmed(s) == {Ident[s].dev, Ident[s].pw} \cap exempt = {}

\* A tunnel needs an admitted GETCONF, and that a session in the table.
KnownInv ==
    \A s \in Sessions :
        /\ (engine[s] = "tunnel" \/ Activating(s) \/ Granted(s)) => known[s]
        /\ (known[s] \/ Served(s)) => engine[s] # "unborn" /\ listed[s] # "new"
        /\ engine[s] = "unborn" => listed[s] = "out"

\* A session that was in the table is in it still, or on its way out of the
\* engine too.
ListInv ==
    \A s \in Sessions :
        s \in Live /\ Unharmed(s) /\ (known[s] \/ Served(s)) => listed[s] = "in" \/ Doomed(s)

\* What the panel still has to do.
PanelShape ==
    /\ panel.at = "idle" => panel.todo = <<>>
    /\ panel.at = "persist" => panel.todo \in {<<"drop", "refresh">>, <<"drop">>, <<"refresh">>}
    /\ panel.at = "drop" => panel.todo \in {<<"refresh">>, <<>>}
    /\ panel.at = "refresh" => panel.todo = <<>>
    /\ panel.at \in {"idle", "persist", "drop", "refresh"}
WillDrop == panel.at = "drop" \/ panel.todo \in {<<"drop", "refresh">>, <<"drop">>}
WillRefresh == panel.at = "refresh" \/ panel.todo \in {<<"drop", "refresh">>, <<"refresh">>}
WillEnd(p) == panel.pw = p /\ (WillDrop \/ (WillRefresh /\ entry[p] # "on"))

Authorised(s) == entry[Ident[s].pw] = "on" /\ bind[Ident[s].pw] = Ident[s].dev

\* An admitted session is still authorised, or on its way out.
AuthInv ==
    /\ PanelShape
    /\ \A s \in Sessions :
          (s \in Live /\ known[s] /\ Ident[s].pw \notin exempt)
              => Authorised(s) \/ Doomed(s) \/ WillEnd(Ident[s].pw)

\* Every slot of the map is one device's.
SlotsDistinct == \A d, e \in Devices : slotOf[d] = slotOf[e] /\ slotOf[d] # 0 => d = e

\* A task of device d is about to say which epoch counts.
WillSettle(d) == \E j \in Jobs : job[j].at = "send" /\ Device(j) = d

\* The slot of the device is not for another epoch, or will soon be settled.
SameEpoch(s) ==
    LET n == slotOf[Ident[s].dev] IN n = 0 \/ slot[n].epoch \in {None, Ident[s].epoch}
Current(s) == SameEpoch(s) \/ WillSettle(Ident[s].dev)

\* The task that will settle it has already put its epoch into the slot.
SettleInv ==
    \A j \in Jobs : job[j].at = "send" => slot[job[j].slot].epoch = Ident[job[j].s].epoch

\* An admitted session has the epoch of its device's slot, or is on its way out.
EpochInv ==
    /\ SlotsDistinct /\ SettleInv
    /\ \A s \in Sessions :
          (s \in Live /\ known[s] /\ Ident[s].dev \notin exempt) => Current(s) \/ Doomed(s)

\* A queued DisconnectDevice is for the epoch of the tunnels it will find.
DisconnectInv ==
    \A i \in 1 .. Len(cmds), s \in Sessions :
        (/\ cmds[i].op = "DisconnectDevice" /\ s \in Live /\ Ident[s].dev \notin exempt
         /\ s = cmds[i].requester \/ Ident[s].dev = cmds[i].dev
         /\ engine[s] = "tunnel" \/ \E k \in 1 .. i - 1 : Activates(cmds[k], s))
            => \/ Ident[s].epoch = Ident[cmds[i].requester].epoch
               \/ \E k \in 1 .. i - 1 : Kills(cmds[k], s)

TunnelInv == KnownInv /\ ListInv /\ AuthInv /\ EpochInv /\ DisconnectInv

-----------------------------------------------------------------------------
(* Operators.                                                              *)

LEMMA IdentTypes ==
  ASSUME NEW s \in Sessions
  PROVE  /\ s \in Nat /\ Ident[s].pw \in Passwords /\ Ident[s].dev \in Devices
         /\ Ident[s].epoch \in Epochs
BY DeviceControlAssumption

LEMMA SlotsFinite ==
  /\ Cardinality(Devices) \in Nat /\ Cardinality(Jobs) \in Nat
  /\ Slots \subseteq Nat \ {0}
  /\ IsFiniteSet(Slots) /\ Cardinality(Slots) = Cardinality(Devices) + Cardinality(Jobs)
<1>1. Cardinality(Devices) \in Nat /\ Cardinality(Jobs) \in Nat
  BY DeviceControlAssumption, FS_CardinalityType
<1>2. Slots \subseteq Nat \ {0}
  BY <1>1 DEF Slots
<1>3. IsFiniteSet(Slots) /\ Cardinality(Slots) = Cardinality(Devices) + Cardinality(Jobs)
  <2> DEFINE n == Cardinality(Devices) + Cardinality(Jobs)
  <2>1. n \in Nat /\ n \in Int /\ 1 \in Int
    BY <1>1
  <2>2. IsFiniteSet(1 .. n) /\ Cardinality(1 .. n) = IF 1 > n THEN 0 ELSE n - 1 + 1
    <3> HIDE DEF n
    <3> QED BY <2>1, FS_Interval
  <2>3. Cardinality(1 .. n) = n
    <3> HIDE DEF n
    <3> QED BY <2>1, <2>2
  <2> QED BY <2>2, <2>3 DEF Slots
<1> QED BY <1>1, <1>2, <1>3

\* The image of a function has no more members than its domain.
LEMMA ImageBound ==
  ASSUME NEW S, IsFiniteSet(S), NEW f, DOMAIN f = S, f = [x \in S |-> f[x]]
  PROVE  LET T == {f[x] : x \in S}
         IN  IsFiniteSet(T) /\ Cardinality(T) <= Cardinality(S)
<1> DEFINE T == {f[x] : x \in S}
<1>1. f \in Surjection(S, T)
  BY DEF Surjection
<1> QED BY <1>1, FS_Surjection

\* There is always a slot that nobody refers to when a device has none: the
\* other devices and the tasks refer to one less than there are.
LEMMA UnusedSlotExists ==
  ASSUME JobInv, SlotTypes, NEW d \in Devices, slotOf[d] = 0
  PROVE  /\ UnusedSlot \in Slots
         /\ \A e \in Devices : slotOf[e] # UnusedSlot
         /\ \A j \in Jobs : job[j].slot # UnusedSlot
<1> DEFINE D == Devices \ {d}
           f == [e \in D |-> slotOf[e]]
           g == [j \in Jobs |-> job[j].slot]
           F == {f[e] : e \in D}
           G == {g[j] : j \in Jobs}
<1>1. IsFiniteSet(D) /\ Cardinality(D) = Cardinality(Devices) - 1
  BY DeviceControlAssumption, FS_RemoveElement
<1>2. IsFiniteSet(F) /\ Cardinality(F) <= Cardinality(D)
  <2> HIDE DEF D
  <2>1. DOMAIN f = D /\ f = [x \in D |-> f[x]]
    OBVIOUS
  <2> HIDE DEF f
  <2> QED BY <1>1, <2>1, ImageBound
<1>3. IsFiniteSet(G) /\ Cardinality(G) <= Cardinality(Jobs)
  <2>1. DOMAIN g = Jobs /\ g = [x \in Jobs |-> g[x]]
    OBVIOUS
  <2> HIDE DEF g
  <2> QED BY DeviceControlAssumption, <2>1, ImageBound
<1>4. IsFiniteSet(F \cup G) /\ Cardinality(F \cup G) < Cardinality(Slots)
  <2> HIDE DEF F, G, D
  <2>1. /\ IsFiniteSet(F \cup G)
        /\ Cardinality(F \cup G) = Cardinality(F) + Cardinality(G) - Cardinality(F \cap G)
    BY <1>2, <1>3, FS_Union
  <2>2. IsFiniteSet(F \cap G)
    BY <1>2, FS_Subset
  <2>3. /\ Cardinality(F) \in Nat /\ Cardinality(G) \in Nat /\ Cardinality(F \cap G) \in Nat
        /\ Cardinality(D) \in Nat
    BY <1>1, <1>2, <1>3, <2>2, FS_CardinalityType
  <2> QED BY <1>1, <1>2, <1>3, <2>1, <2>3, SlotsFinite
<1>5. ~ (Slots \subseteq F \cup G)
  <2> SUFFICES ASSUME Slots \subseteq F \cup G PROVE FALSE
    OBVIOUS
  <2> HIDE DEF F, G
  <2>1. Cardinality(Slots) <= Cardinality(F \cup G)
    BY <1>4, FS_Subset
  <2>2. Cardinality(Slots) \in Nat /\ Cardinality(F \cup G) \in Nat
    BY <1>4, SlotsFinite, FS_CardinalityType
  <2> QED BY <1>4, <2>1, <2>2
<1>6. PICK n \in Slots : n \notin F \cup G
  BY <1>5
<1>7. (\A e \in Devices : slotOf[e] # n) /\ (\A j \in Jobs : job[j].slot # n)
  <2>1. n # 0
    BY SlotsFinite
  <2>2. ASSUME NEW e \in Devices PROVE slotOf[e] # n
    <3>1. CASE e = d
      BY <2>1, <3>1
    <3>2. CASE e # d
      BY <1>6, <3>2
    <3> QED BY <3>1, <3>2
  <2>3. ASSUME NEW j \in Jobs PROVE job[j].slot # n
    BY <1>6
  <2> QED BY <2>2, <2>3
<1> QED BY <1>6, <1>7 DEF UnusedSlot

LEMMA SetToSeqTypes ==
  ASSUME NEW S, IsFiniteSet(S)
  PROVE  /\ SetToSeq(S) \in [1 .. Cardinality(S) -> S]
         /\ \A x \in S : \E i \in 1 .. Cardinality(S) : SetToSeq(S)[i] = x
<1> DEFINE n == Cardinality(S)
           g == SetToSeq(S)
<1>1. PICK m \in Nat : ExistsBijection(1 .. m, S)
  BY FS_NatBijection
<1>2. n = m /\ n \in Nat
  BY <1>1, FS_CountingElements
<1>3. PICK f \in Bijection(1 .. n, S) : TRUE
  BY <1>1, <1>2 DEF ExistsBijection
<1>4. f \in [1 .. n -> S] /\ IsInjective(f)
  BY <1>3 DEF Bijection, Injection, IsInjective
<1>5. g \in [1 .. n -> S] /\ IsInjective(g)
  BY <1>4 DEF SetToSeq
<1> HIDE DEF n, g
<1>6. g \in Injection(1 .. n, S)
  BY <1>5 DEF Injection, IsInjective
<1>7. IsFiniteSet(1 .. n) /\ Cardinality(1 .. n) = n
  <2>1. IsFiniteSet(1 .. n) /\ Cardinality(1 .. n) = IF 1 > n THEN 0 ELSE n - 1 + 1
    BY <1>2, FS_Interval
  <2> QED BY <1>2, <2>1
<1>8. g \in Surjection(1 .. n, S)
  BY <1>6, <1>7, FS_Injection DEF n
<1>9. \A x \in S : \E i \in 1 .. n : g[i] = x
  BY <1>8 DEF Surjection
<1> QED BY <1>5, <1>9 DEF n, g

LEMMA SessionsFinite ==
  ASSUME NEW S \in SUBSET Sessions
  PROVE  IsFiniteSet(S) /\ Cardinality(S) \in Nat
BY DeviceControlAssumption, FS_Subset, FS_CardinalityType

\* Every command is one of the channel's.
LEMMA CommandTypes ==
  /\ \A d \in Devices, e \in Epochs : SetAuthoritativeEpoch(d, e) \in Command
  /\ \A s \in Sessions : ActivateTunnel(s) \in Command /\ DropSession(s) \in Command
  /\ \A p \in Passwords : DropPassword(p) \in Command
  /\ \A d \in Devices, s \in Sessions : DisconnectDevice(d, s) \in Command
  /\ \A set \in SUBSET Passwords : ReplaceCredentials(set) \in Command
<1>1. \A d \in Devices, e \in Epochs : SetAuthoritativeEpoch(d, e) \in Command
  BY DEF SetAuthoritativeEpoch, Command
<1>2. \A s \in Sessions : ActivateTunnel(s) \in Command /\ DropSession(s) \in Command
  BY DEF ActivateTunnel, DropSession, Command
<1>3. \A p \in Passwords : DropPassword(p) \in Command
  BY DEF DropPassword, Command
<1>4. \A d \in Devices, s \in Sessions : DisconnectDevice(d, s) \in Command
  BY DEF DisconnectDevice, Command
<1>5. \A set \in SUBSET Passwords : ReplaceCredentials(set) \in Command
  BY DEF ReplaceCredentials, Command
<1> QED BY <1>1, <1>2, <1>3, <1>4, <1>5

LEMMA DropSessionsTypes ==
  ASSUME NEW S \in SUBSET Sessions
  PROVE  DropSessions(S) \in Seq(Command)
<1>1. IsFiniteSet(S) /\ Cardinality(S) \in Nat
  BY SessionsFinite
<1>2. \A i \in 1 .. Cardinality(S) : SetToSeq(S)[i] \in Sessions
  BY <1>1, SetToSeqTypes
<1>3. \A i \in 1 .. Cardinality(S) : DropSession(SetToSeq(S)[i]) \in Command
  BY <1>2, CommandTypes
<1> QED BY <1>1, <1>3 DEF DropSessions

\* What is sent fits into the channel.
LEMMA FittingTypes ==
  ASSUME CommandInv, NEW c \in Seq(Command)
  PROVE  /\ cmds \o Fitting(c) \in Seq(Command)
         /\ Len(cmds \o Fitting(c)) <= CommandCap
<1> DEFINE n == IF Len(c) <= Room THEN Len(c) ELSE Room
<1>1. /\ Len(cmds) \in Nat /\ Room \in Nat /\ Len(cmds) + Room = CommandCap
      /\ Len(c) \in Nat
  BY DeviceControlAssumption DEF CommandInv, Room
<1>2. n \in Nat /\ n <= Len(c) /\ n <= Room
  BY <1>1
<1>3. Fitting(c) = SubSeq(c, 1, n)
  BY DEF Fitting
<1>4. Fitting(c) \in Seq(Command) /\ Len(Fitting(c)) = n
  <2> HIDE DEF n
  <2>1. \A i \in 1 .. n : c[i] \in Command
    BY <1>1, <1>2
  <2>2. /\ SubSeq(c, 1, n) \in Seq(Command)
        /\ Len(SubSeq(c, 1, n)) = IF 1 <= n THEN n - 1 + 1 ELSE 0
    BY <1>2, <2>1, SubSeqProperties
  <2> QED BY <1>2, <1>3, <2>2
<1>5. /\ cmds \o Fitting(c) \in Seq(Command)
      /\ Len(cmds \o Fitting(c)) = Len(cmds) + Len(Fitting(c))
  BY <1>4, ConcatProperties DEF CommandInv
<1> HIDE DEF n
<1> QED BY <1>1, <1>2, <1>4, <1>5

LEMMA SendAllKeeps ==
  ASSUME CommandInv, NEW c \in Seq(Command), NEW about \in SUBSET (Devices \cup Passwords),
         SendAll(c, about)
  PROVE  CommandInv'
<1>1. cmds' \in Seq(Command) /\ Len(cmds') <= CommandCap
  BY FittingTypes DEF SendAll
<1>2. exempt' \subseteq Devices \cup Passwords
  BY DEF SendAll, CommandInv
<1> QED BY <1>1, <1>2 DEF CommandInv

LEMMA AppendKeeps ==
  ASSUME CommandInv, NEW c \in Command, Room > 0, cmds' = Append(cmds, c),
         exempt' \subseteq Devices \cup Passwords
  PROVE  CommandInv'
<1>1. cmds' \in Seq(Command) /\ Len(cmds') = Len(cmds) + 1
  BY AppendProperties DEF CommandInv
<1>2. Len(cmds) \in Nat
  BY DEF CommandInv
<1> QED BY <1>1, <1>2, DeviceControlAssumption DEF CommandInv, Room

-----------------------------------------------------------------------------
(* The slots.                                                              *)

\* Two tasks of one device are not inside together.
LEMMA InsideAlone ==
  ASSUME SlotInv, NEW j \in Jobs, NEW k \in Jobs, job[j].at \in Inside, job[k].at \in Inside,
         (Device(j) = Device(k) \/ job[j].slot = job[k].slot)
  PROVE  j = k
BY DEF SlotInv, InsideInv

LEMMA SlotsUntouched ==
  ASSUME SlotInv, UNCHANGED <<slotOf, slot, job>>
  PROVE  SlotInv'
BY DEF SlotInv, JobInv, SlotTypes, HolderInv, InsideInv, Device

\* A task that is not past its lock moves to a place that is not either.
LEMMA OutsideMoves ==
  ASSUME SlotInv, NEW j \in Jobs, job[j].at \notin Inside,
         UNCHANGED <<slotOf, slot>>, NEW v \in Job, job' = [job EXCEPT ![j] = v],
         v.at \notin Inside,
         v.at \in Attached => v.s \in Sessions /\ v.slot \in Slots,
         v.at = "ensure" => v.s \in Sessions
  PROVE  SlotInv'
<1>1. JobInv'
  BY DEF SlotInv, JobInv
<1>2. SlotTypes'
  BY DEF SlotInv, SlotTypes
<1>3. HolderInv'
  <2> SUFFICES ASSUME NEW n \in Slots, slot[n].holder # None
               PROVE  /\ job'[slot[n].holder].slot = n
                      /\ job'[slot[n].holder].at \in Inside
    BY DEF HolderInv
  <2>1. slot[n].holder \in Jobs /\ job[slot[n].holder].at \in Inside /\ job[slot[n].holder].slot = n
    BY DEF SlotInv, SlotTypes, HolderInv
  <2>2. slot[n].holder # j
    BY <2>1
  <2> QED BY <2>1, <2>2 DEF SlotInv, JobInv
<1>4. InsideInv'
  <2> SUFFICES ASSUME NEW k \in Jobs, job'[k].at \in Inside
               PROVE  slot'[job'[k].slot].holder = k /\ slotOf'[Device(k)'] = job'[k].slot
    BY DEF InsideInv
  <2>1. k # j /\ job'[k] = job[k]
    BY DEF SlotInv, JobInv
  <2> QED BY <2>1 DEF SlotInv, InsideInv, Device
<1> QED BY <1>1, <1>2, <1>3, <1>4 DEF SlotInv

\* A task past its lock leaves, and the mutex is free.
LEMMA InsideLeaves ==
  ASSUME SlotInv, NEW j \in Jobs, job[j].at \in Inside,
         NEW v \in Job, job' = [job EXCEPT ![j] = v], v.at \in {"idle", "build"},
         slot' = Unlocked(j),
         \/ UNCHANGED slotOf
         \/ slotOf' = [slotOf EXCEPT ![Device(j)] = 0]
  PROVE  SlotInv'
<1>1. JobInv'
  BY DEF SlotInv, JobInv, Attached, Inside
<1>2. SlotTypes'
  <2>1. slotOf' \in [Devices -> {0} \cup Slots]
    BY DEF SlotInv, SlotTypes
  <2>2. job[j].slot \in Slots
    BY DEF SlotInv, JobInv, Attached
  <2>3. slot' \in [Slots -> [epoch : Epochs \cup {None}, holder : Jobs \cup {None}]]
    BY <2>2 DEF SlotInv, SlotTypes, Unlocked
  <2> QED BY <2>1, <2>3 DEF SlotTypes
<1>3. job[j].slot \in Slots /\ slot[job[j].slot].holder = j
  BY DEF SlotInv, JobInv, Attached, InsideInv
<1>4. \A n \in Slots : slot'[n].holder = IF n = job[j].slot THEN None ELSE slot[n].holder
  BY <1>3 DEF SlotInv, SlotTypes, Unlocked
<1>5. HolderInv'
  <2> SUFFICES ASSUME NEW n \in Slots, slot'[n].holder # None
               PROVE  /\ job'[slot'[n].holder].slot = n
                      /\ job'[slot'[n].holder].at \in Inside
    BY DEF HolderInv
  <2>1. n # job[j].slot /\ slot'[n].holder = slot[n].holder
    BY <1>4
  <2>2. slot[n].holder \in Jobs /\ job[slot[n].holder].at \in Inside /\ job[slot[n].holder].slot = n
    BY <2>1 DEF SlotInv, SlotTypes, HolderInv
  <2>3. slot[n].holder # j
    BY <2>1, <2>2
  <2> QED BY <2>1, <2>2, <2>3 DEF SlotInv, JobInv
<1>6. InsideInv'
  <2> SUFFICES ASSUME NEW k \in Jobs, job'[k].at \in Inside
               PROVE  slot'[job'[k].slot].holder = k /\ slotOf'[Device(k)'] = job'[k].slot
    BY DEF InsideInv
  <2>1. k # j /\ job'[k] = job[k] /\ job[k].at \in Inside
    BY DEF SlotInv, JobInv, Inside
  <2>2. Device(k) # Device(j) /\ job[k].slot # job[j].slot
    BY <2>1, InsideAlone
  <2>3. Device(k)' = Device(k) /\ Device(k) \in Devices /\ job[k].slot \in Slots
    BY <2>1, IdentTypes DEF Device, SlotInv, JobInv, Attached
  <2>4. slotOf'[Device(k)] = slotOf[Device(k)]
    BY <2>2, <2>3 DEF SlotInv, SlotTypes
  <2>5. slot'[job[k].slot].holder = slot[job[k].slot].holder
    BY <1>4, <2>2, <2>3
  <2>6. slot[job[k].slot].holder = k /\ slotOf[Device(k)] = job[k].slot
    BY <2>1 DEF SlotInv, InsideInv
  <2> QED BY <2>1, <2>3, <2>4, <2>5, <2>6
<1> QED BY <1>1, <1>2, <1>5, <1>6 DEF SlotInv

\* A task gets the slot of its device, or a new one.
LEMMA LockKeeps ==
  ASSUME SlotInv, NEW j \in Jobs, job[j].at \notin Inside, NEW s \in Sessions,
         lock_device_epoch(j, s)
  PROVE  SlotInv'
<1> DEFINE d == Ident[s].dev
           n == IF slotOf[d] # 0 THEN slotOf[d] ELSE UnusedSlot
           b == (slotOf[d] = 0)
           v == [Idle EXCEPT !.at = "lock", !.s = s, !.slot = n, !.fresh = b]
<1>1. d \in Devices /\ s \in Nat
  BY IdentTypes
<1>2. n \in Slots
  <2>1. CASE slotOf[d] # 0
    BY <1>1, <2>1 DEF SlotInv, SlotTypes
  <2>2. CASE slotOf[d] = 0
    BY <1>1, <2>2, UnusedSlotExists DEF SlotInv
  <2> QED BY <2>1, <2>2
<1>3. b \in BOOLEAN
  OBVIOUS
<1>4. v \in Job
  <2> HIDE DEF n, d, b
  <2> QED BY <1>1, <1>2, <1>3 DEF Idle, Job, Attached
<1>5. job' = [job EXCEPT ![j] = v]
  BY DEF lock_device_epoch
<1>6. v.at = "lock" /\ v.s = s /\ v.slot = n
  <2> HIDE DEF n, d, b
  <2> QED BY DEF Idle
<1>7. CASE slotOf[d] # 0
  <2>1. slot' = slot
    BY <1>7 DEF lock_device_epoch
  <2>2. slotOf' = slotOf
    <3>1. slotOf' = [slotOf EXCEPT ![d] = slotOf[d]]
      BY <1>7 DEF lock_device_epoch
    <3> QED BY <3>1 DEF SlotInv, SlotTypes
  <2> HIDE DEF v, n, d, b
  <2> QED BY <1>2, <1>4, <1>5, <1>6, <2>1, <2>2, OutsideMoves DEF Inside
<1>8. CASE slotOf[d] = 0
  <2>1. n = UnusedSlot
    BY <1>8
  <2>2. slot' = [slot EXCEPT ![n] = NewSlot] /\ slotOf' = [slotOf EXCEPT ![d] = n]
    BY <1>8 DEF lock_device_epoch
  <2>3. \A k \in Jobs : job[k].slot # n
    BY <1>1, <1>8, <2>1, UnusedSlotExists DEF SlotInv
  <2> HIDE DEF v, n, d, b
  <2>4. JobInv'
    BY <1>2, <1>4, <1>5, <1>6 DEF SlotInv, JobInv
  <2>5. NewSlot \in [epoch : Epochs \cup {None}, holder : Jobs \cup {None}] /\ NewSlot.holder = None
    BY DEF NewSlot
  <2>6. SlotTypes'
    BY <1>1, <1>2, <2>2, <2>5 DEF SlotInv, SlotTypes
  <2>7. \A m \in Slots : slot'[m].holder = IF m = n THEN None ELSE slot[m].holder
    BY <1>2, <2>2, <2>5 DEF SlotInv, SlotTypes
  <2>8. HolderInv'
    <3> SUFFICES ASSUME NEW m \in Slots, slot'[m].holder # None
                 PROVE  /\ job'[slot'[m].holder].slot = m
                        /\ job'[slot'[m].holder].at \in Inside
      BY DEF HolderInv
    <3>1. slot'[m].holder = slot[m].holder
      BY <2>7
    <3>2. slot[m].holder \in Jobs /\ job[slot[m].holder].at \in Inside /\ job[slot[m].holder].slot = m
      BY <3>1 DEF SlotInv, SlotTypes, HolderInv
    <3>3. slot[m].holder # j
      BY <3>2
    <3> QED BY <1>5, <3>1, <3>2, <3>3 DEF SlotInv, JobInv
  <2>9. InsideInv'
    <3> SUFFICES ASSUME NEW k \in Jobs, job'[k].at \in Inside
                 PROVE  slot'[job'[k].slot].holder = k /\ slotOf'[Device(k)'] = job'[k].slot
      BY DEF InsideInv
    <3>1. k # j /\ job'[k] = job[k] /\ job[k].at \in Inside
      BY <1>5, <1>6 DEF SlotInv, JobInv, Inside
    <3>2. Device(k)' = Device(k) /\ Device(k) \in Devices /\ job[k].slot \in Slots
      BY <3>1, IdentTypes DEF Device, SlotInv, JobInv, Attached
    <3>3. slot[job[k].slot].holder = k /\ slotOf[Device(k)] = job[k].slot
      BY <3>1 DEF SlotInv, InsideInv
    <3>4. Device(k) # d
      BY <1>8, <3>2, <3>3, SlotsFinite
    <3>5. slotOf'[Device(k)] = slotOf[Device(k)]
      BY <2>2, <3>2, <3>4 DEF SlotInv, SlotTypes
    <3>6. slot'[job[k].slot].holder = slot[job[k].slot].holder
      BY <2>3, <2>7, <3>2
    <3> QED BY <3>1, <3>2, <3>3, <3>5, <3>6
  <2> QED BY <2>4, <2>6, <2>8, <2>9 DEF SlotInv
<1> QED BY <1>7, <1>8

\* A task takes the mutex of a slot that is still its device's.
LEMMA AcquireKeeps ==
  ASSUME SlotInv, NEW j \in Jobs, NEW from \in {"lock", "relock"}, NEW to \in Inside,
         Acquire(j, from, to)
  PROVE  SlotInv'
<1> DEFINE n == job[j].slot
           v == [job[j] EXCEPT !.at = to]
<1>1. /\ job[j].at = from /\ slot[n].holder = None /\ slotOf[Device(j)] = n
      /\ slot' = [slot EXCEPT ![n].holder = j] /\ job' = [job EXCEPT ![j] = v]
      /\ slotOf' = slotOf
  BY DEF Acquire, current_device_epoch
<1>2. job[j] \in Job /\ job[j].s \in Sessions /\ n \in Slots
  BY <1>1 DEF SlotInv, JobInv, Attached
<1>3. v \in Job /\ v.at = to /\ v.s = job[j].s /\ v.slot = n
  BY <1>2 DEF Job, Attached, Inside
<1> HIDE DEF v
<1>4. JobInv'
  BY <1>1, <1>2, <1>3 DEF SlotInv, JobInv, Inside
<1>5. SlotTypes'
  BY <1>1, <1>2 DEF SlotInv, SlotTypes
<1>6. \A m \in Slots : slot'[m].holder = IF m = n THEN j ELSE slot[m].holder
  BY <1>1, <1>2 DEF SlotInv, SlotTypes
<1>7. HolderInv'
  <2> SUFFICES ASSUME NEW m \in Slots, slot'[m].holder # None
               PROVE  /\ job'[slot'[m].holder].slot = m
                      /\ job'[slot'[m].holder].at \in Inside
    BY DEF HolderInv
  <2>1. CASE m = n
    BY <1>1, <1>2, <1>3, <1>6, <2>1 DEF SlotInv, JobInv
  <2>2. CASE m # n
    <3>1. slot'[m].holder = slot[m].holder
      BY <1>6, <2>2
    <3>2. slot[m].holder \in Jobs /\ job[slot[m].holder].at \in Inside /\ job[slot[m].holder].slot = m
      BY <3>1 DEF SlotInv, SlotTypes, HolderInv
    <3>3. slot[m].holder # j
      BY <2>2, <3>2
    <3> QED BY <1>1, <3>1, <3>2, <3>3 DEF SlotInv, JobInv
  <2> QED BY <2>1, <2>2
<1>8. InsideInv'
  <2> SUFFICES ASSUME NEW k \in Jobs, job'[k].at \in Inside
               PROVE  slot'[job'[k].slot].holder = k /\ slotOf'[Device(k)'] = job'[k].slot
    BY DEF InsideInv
  <2>1. CASE k = j
    <3>1. job'[j] = v /\ Device(j)' = Device(j)
      BY <1>1, <1>3 DEF SlotInv, JobInv, Device
    <3> QED BY <1>1, <1>2, <1>3, <1>6, <2>1, <3>1
  <2>2. CASE k # j
    <3>1. job'[k] = job[k] /\ job[k].at \in Inside
      BY <1>1, <2>2 DEF SlotInv, JobInv
    <3>2. slot[job[k].slot].holder = k /\ slotOf[Device(k)] = job[k].slot /\ job[k].slot \in Slots
      BY <3>1 DEF SlotInv, InsideInv, JobInv, Attached
    <3>3. job[k].slot # n
      BY <1>1, <3>2, DeviceControlAssumption
    <3>4. Device(k)' = Device(k)
      BY <3>1 DEF Device
    <3> QED BY <1>1, <1>6, <3>1, <3>2, <3>3, <3>4
  <2> QED BY <2>1, <2>2
<1> QED BY <1>4, <1>5, <1>7, <1>8 DEF SlotInv

LEMMA IdleTypes ==
  /\ Idle \in Job /\ Idle.at = "idle"
  /\ [Idle EXCEPT !.at = "build"] \in Job /\ [Idle EXCEPT !.at = "build"].at = "build"
BY DEF Idle, Job, Attached

\* lock_existing_device_epoch leaves the map and the mutexes alone.
LEMMA LockExistingKeeps ==
  ASSUME SlotInv, NEW j \in Jobs, job[j].at \notin Inside, NEW s \in Sessions,
         lock_existing_device_epoch(j, s), UNCHANGED <<slotOf, slot>>
  PROVE  SlotInv'
<1> DEFINE n == slotOf[Ident[s].dev]
           w == [Idle EXCEPT !.at = "relock", !.s = s, !.slot = n]
           v == IF n = 0 THEN Idle ELSE w
<1>1. s \in Nat /\ n \in {0} \cup Slots
  BY IdentTypes DEF SlotInv, SlotTypes
<1>2. job' = [job EXCEPT ![j] = v]
  BY DEF lock_existing_device_epoch
<1>3. w \in Job /\ w.at = "relock" /\ w.s = s /\ w.slot = n
  <2> HIDE DEF n
  <2> QED BY <1>1 DEF Idle, Job, Attached
<1> HIDE DEF w
<1>4. v \in Job /\ v.at \notin Inside
  BY <1>3, IdleTypes DEF Inside
<1>5. /\ v.at \in Attached => v.s \in Sessions /\ v.slot \in Slots
      /\ v.at # "ensure"
  <2>1. CASE n = 0
    BY <2>1, IdleTypes DEF Attached, Inside
  <2>2. CASE n # 0
    BY <1>1, <1>3, <2>2
  <2> QED BY <2>1, <2>2
<1> HIDE DEF v
<1> QED BY <1>2, <1>4, <1>5, OutsideMoves

\* One step of a task.
LEMMA TaskKeepsSlots ==
  ASSUME ControlInv, NEW j \in Jobs, Task(j)
  PROVE  SlotInv'
<1>s. SlotInv
  BY DEF ControlInv
<1>t. job \in [Jobs -> Job] /\ job[j] \in Job
  BY DEF ControlInv, SlotInv, JobInv
<1>1. ASSUME NEW s \in Sessions, handle_getconf(j, s) PROVE SlotInv'
  <2>1. job[j].at \notin Inside
    BY <1>1 DEF handle_getconf, Start, Inside
  <2>2. CASE lock_device_epoch(j, s)
    BY <1>s, <2>1, <2>2, LockKeeps
  <2>3. CASE UNCHANGED <<slotVars, job>>
    BY <1>s, <2>3, SlotsUntouched DEF slotVars
  <2> QED BY <1>1, <2>2, <2>3 DEF handle_getconf
<1>2. ASSUME NEW s \in Sessions, handle_disconnect(j, s) PROVE SlotInv'
  BY <1>s, <1>2, LockExistingKeeps DEF handle_disconnect, Start, Inside, slotVars
<1>3. ASSUME NEW s \in Sessions, ensure_control_tunnel(j, s) PROVE SlotInv'
  <2>1. slotOf' = slotOf /\ slot' = slot /\ job[j].at = "idle"
    BY <1>3 DEF ensure_control_tunnel, slotVars, Start
  <2>2. CASE job' = job
    BY <1>s, <2>1, <2>2, SlotsUntouched
  <2>3. CASE job' = [job EXCEPT ![j].at = "ensure", ![j].s = s]
    <3> DEFINE v == [job[j] EXCEPT !.at = "ensure", !.s = s]
    <3>1. job' = [job EXCEPT ![j] = v]
      BY <1>t, <2>3
    <3>2. v \in Job /\ v.at = "ensure" /\ v.s = s
      BY <1>t, IdentTypes DEF Job
    <3> HIDE DEF v
    <3> QED BY <1>s, <2>1, <3>1, <3>2, OutsideMoves DEF Inside, Attached
  <2> QED BY <1>3, <2>2, <2>3 DEF ensure_control_tunnel
<1>4. CASE Acquire(j, "lock", "admit")
  BY <1>s, <1>4, AcquireKeeps DEF Inside
<1>5. CASE Acquire(j, "relock", "disconnect")
  BY <1>s, <1>5, AcquireKeeps DEF Inside
<1>6. CASE Retry(j)
  <2>1. job[j].at \notin Inside /\ job[j].s \in Sessions
    BY <1>6 DEF Retry, Inside, Attached, ControlInv, SlotInv, JobInv
  <2> QED BY <1>s, <1>6, <2>1, LockKeeps DEF Retry
<1>7. CASE RetryExisting(j)
  <2>1. job[j].at \notin Inside /\ job[j].s \in Sessions
    BY <1>7 DEF RetryExisting, Inside, Attached, ControlInv, SlotInv, JobInv
  <2> QED BY <1>s, <1>7, <2>1, LockExistingKeeps DEF RetryExisting, slotVars
<1>8. CASE getconf_admit(j)
  <2> DEFINE n == job[j].slot
             e == Ident[job[j].s].epoch
  <2>1. job[j].at = "admit" /\ job[j].s \in Sessions /\ n \in Slots /\ e \in Epochs
    BY <1>8, IdentTypes DEF getconf_admit, ControlInv, SlotInv, JobInv, Attached, Inside
  <2>2. slot' = [slot EXCEPT ![n].epoch = e] /\ slotOf' = slotOf
    BY <1>8 DEF getconf_admit, admit
  <2>3. PICK b \in BOOLEAN : job' = [job EXCEPT ![j].at = "send", ![j].changed = b]
    BY <1>8 DEF getconf_admit
  <2>4. \A k \in Jobs : /\ job'[k].slot = job[k].slot /\ job'[k].s = job[k].s
                        /\ job'[k].at = (IF k = j THEN "send" ELSE job[k].at)
    BY <1>t, <2>3 DEF Job
  <2>5. job' \in [Jobs -> Job]
    BY <1>t, <2>3 DEF Job, Attached, Inside
  <2>6. \A m \in Slots : slot'[m].holder = slot[m].holder
    BY <2>1, <2>2 DEF ControlInv, SlotInv, SlotTypes
  <2>7. JobInv'
    <3> SUFFICES ASSUME NEW k \in Jobs
                 PROVE  /\ job'[k].at \in Attached => job'[k].s \in Sessions /\ job'[k].slot \in Slots
                        /\ job'[k].at = "ensure" => job'[k].s \in Sessions
      BY <2>5 DEF JobInv
    <3> QED BY <2>1, <2>4 DEF ControlInv, SlotInv, JobInv
  <2>8. SlotTypes'
    BY <2>1, <2>2 DEF ControlInv, SlotInv, SlotTypes
  <2>9. HolderInv'
    <3> SUFFICES ASSUME NEW m \in Slots, slot[m].holder # None
                 PROVE  /\ job'[slot[m].holder].slot = m
                        /\ job'[slot[m].holder].at \in Inside
      BY <2>6 DEF HolderInv
    <3>1. slot[m].holder \in Jobs /\ job[slot[m].holder].at \in Inside /\ job[slot[m].holder].slot = m
      BY DEF ControlInv, SlotInv, SlotTypes, HolderInv
    <3> QED BY <2>4, <3>1 DEF Inside
  <2>10. InsideInv'
    <3> SUFFICES ASSUME NEW k \in Jobs, job'[k].at \in Inside
                 PROVE  slot'[job'[k].slot].holder = k /\ slotOf'[Device(k)'] = job'[k].slot
      BY DEF InsideInv
    <3>1. job[k].at \in Inside /\ job'[k].slot = job[k].slot /\ Device(k)' = Device(k)
      BY <2>1, <2>4 DEF Inside, Device
    <3>2. /\ job[k].slot \in Slots
          /\ slot[job[k].slot].holder = k /\ slotOf[Device(k)] = job[k].slot
      BY <3>1 DEF ControlInv, SlotInv, InsideInv, JobInv, Attached
    <3> QED BY <2>2, <2>6, <3>1, <3>2
  <2> QED BY <2>7, <2>8, <2>9, <2>10 DEF SlotInv
<1>9. CASE getconf_refuse(j)
  <2>1. /\ job[j].at \in Inside /\ slot' = Unlocked(j) /\ job' = [job EXCEPT ![j] = Idle]
        /\ slotOf' = slotOf \/ slotOf' = [slotOf EXCEPT ![Device(j)] = 0]
    BY <1>9 DEF getconf_refuse, Inside, Device
  <2> QED BY <1>s, <2>1, InsideLeaves, IdleTypes
<1>10. CASE getconf_send(j)
  <2>1. job[j].at \in Inside /\ slot' = Unlocked(j) /\ slotOf' = slotOf
    BY <1>10 DEF getconf_send, Inside
  <2>2. \/ job' = [job EXCEPT ![j] = Idle]
        \/ job' = [job EXCEPT ![j] = [Idle EXCEPT !.at = "build"]]
    BY <1>10 DEF getconf_send
  <2>3. CASE job' = [job EXCEPT ![j] = Idle]
    BY <1>s, <2>1, <2>3, InsideLeaves, IdleTypes
  <2>4. CASE job' = [job EXCEPT ![j] = [Idle EXCEPT !.at = "build"]]
    BY <1>s, <2>1, <2>4, InsideLeaves, IdleTypes
  <2> QED BY <2>2, <2>3, <2>4
<1>11. CASE disconnect_device(j)
  <2>1. /\ job[j].at \in Inside /\ slot' = Unlocked(j) /\ job' = [job EXCEPT ![j] = Idle]
        /\ slotOf' = slotOf
    BY <1>11 DEF disconnect_device, Inside
  <2> QED BY <1>s, <2>1, InsideLeaves, IdleTypes
<1>12. CASE ensure_activate(j)
  <2>1. /\ job[j].at \notin Inside /\ job' = [job EXCEPT ![j] = Idle]
        /\ UNCHANGED <<slotOf, slot>>
    BY <1>12 DEF ensure_activate, Inside, slotVars
  <2> QED BY <1>s, <2>1, OutsideMoves, IdleTypes DEF Inside, Attached
<1>13. CASE job_build(j)
  <2> DEFINE v == [job[j] EXCEPT !.at = "publish", !.set = build_credentials]
  <2>1. /\ job[j].at = "build" /\ job' = [job EXCEPT ![j] = v]
        /\ UNCHANGED <<slotOf, slot>>
    BY <1>t, <1>13 DEF job_build, slotVars
  <2>2. v \in Job /\ v.at = "publish"
    BY <1>t DEF Job, build_credentials
  <2> HIDE DEF v
  <2> QED BY <1>s, <2>1, <2>2, OutsideMoves DEF Inside, Attached
<1>14. CASE job_publish(j)
  <2>1. /\ job[j].at \notin Inside /\ job' = [job EXCEPT ![j] = Idle]
        /\ UNCHANGED <<slotOf, slot>>
    BY <1>14 DEF job_publish, Inside, slotVars
  <2> QED BY <1>s, <2>1, OutsideMoves, IdleTypes DEF Inside, Attached
<1> QED BY <1>1, <1>2, <1>3, <1>4, <1>5, <1>6, <1>7, <1>8, <1>9, <1>10, <1>11, <1>12, <1>13,
           <1>14 DEF Task

\* The sweeper takes a slot out of the map that nobody holds.
LEMMA SweeperKeepsSlots ==
  ASSUME SlotInv, NEW d \in Devices, device_epoch_sweeper(d)
  PROVE  SlotInv'
<1>1. /\ slotOf[d] # 0 /\ slot[slotOf[d]].holder = None
      /\ slotOf' = [slotOf EXCEPT ![d] = 0] /\ slot' = slot /\ job' = job
  BY DEF device_epoch_sweeper
<1>2. SlotTypes' /\ JobInv' /\ HolderInv'
  BY <1>1 DEF SlotInv, SlotTypes, JobInv, HolderInv
<1>3. InsideInv'
  <2> SUFFICES ASSUME NEW k \in Jobs, job[k].at \in Inside
               PROVE  slot[job[k].slot].holder = k /\ slotOf'[Device(k)] = job[k].slot
    BY <1>1 DEF InsideInv, Device
  <2>1. slot[job[k].slot].holder = k /\ slotOf[Device(k)] = job[k].slot
    BY DEF SlotInv, InsideInv
  <2>2. Device(k) # d
    BY <1>1, <2>1, DeviceControlAssumption
  <2> QED BY <1>1, <2>1, <2>2 DEF SlotInv, SlotTypes
<1> QED BY <1>2, <1>3 DEF SlotInv

-----------------------------------------------------------------------------
(* Everything else.                                                        *)

LEMMA DataUntouched ==
  ASSUME DataInv, UNCHANGED <<entry, bind, ips, listed, tunnelled, known, engine, creds, cmds,
                              exempt, panel>>
  PROVE  DataInv'
BY DEF DataInv, DbTypes, PublicTypes, EngineTypes, CommandInv, PanelInv

\* A session that is put out, and its command.
LEMMA DropExactKeeps ==
  ASSUME DataInv, NEW s \in Sessions, drop_exact_session(s)
  PROVE  CommandInv' /\ listed' \in [Sessions -> {"new", "in", "out"}]
<1>1. DropSessions({s}) \in Seq(Command)
  BY DropSessionsTypes
<1>2. {Ident[s].dev, Ident[s].pw} \in SUBSET (Devices \cup Passwords)
  BY IdentTypes
<1>3. CommandInv'
  BY <1>1, <1>2, SendAllKeeps DEF drop_exact_session, DataInv
<1> QED BY <1>3 DEF drop_exact_session, DataInv, PublicTypes

LEMMA EngineKeepsData ==
  ASSUME DataInv, Engine
  PROVE  DataInv'
<1>1. CASE EngineCommand
  <2> DEFINE c == Head(cmds)
  <2>1. c \in Command /\ Tail(cmds) \in Seq(Command) /\ Len(Tail(cmds)) = Len(cmds) - 1
    BY <1>1, HeadTailProperties DEF EngineCommand, DataInv, CommandInv
  <2>2. c.op = "ReplaceCredentials" => c.set \subseteq Passwords
    BY <2>1 DEF Command
  <2>3. Len(cmds) \in Nat
    BY DEF DataInv, CommandInv
  <2>4. CommandInv'
    BY <1>1, <2>1, <2>3, DeviceControlAssumption DEF EngineCommand, DataInv, CommandInv
  <2>5. EngineTypes'
    BY <1>1, <2>2 DEF EngineCommand, DataInv, EngineTypes
  <2>6. PublicTypes'
    <3>1. listed' = listed /\ known' = known
      BY <1>1 DEF EngineCommand
    <3>2. tunnelled' \in [Sessions -> BOOLEAN]
      <4>1. PICK up, dead : tunnelled' = [s \in Sessions |-> (tunnelled[s] \/ s \in up) /\ s \notin dead]
        BY <1>1 DEF EngineCommand
      <4> QED BY <4>1
    <3> QED BY <3>1, <3>2 DEF DataInv, PublicTypes
  <2>7. DbTypes' /\ PanelInv'
    BY <1>1 DEF EngineCommand, dbVars, DataInv, DbTypes, PanelInv
  <2> QED BY <2>4, <2>5, <2>6, <2>7 DEF DataInv
<1>2. ASSUME NEW s \in Sessions, EngineCreate(s) PROVE DataInv'
  <2>1. EngineTypes'
    BY <1>2 DEF EngineCreate, DataInv, EngineTypes
  <2>2. PublicTypes'
    BY <1>2 DEF EngineCreate, DataInv, PublicTypes
  <2>3. DbTypes' /\ CommandInv' /\ PanelInv'
    BY <1>2 DEF EngineCreate, dbVars, DataInv, DbTypes, CommandInv, PanelInv
  <2> QED BY <2>1, <2>2, <2>3 DEF DataInv
<1>3. ASSUME NEW s \in Sessions, EngineRemove(s) PROVE DataInv'
  <2>1. EngineTypes'
    BY <1>3 DEF EngineRemove, Killed, DataInv, EngineTypes
  <2>2. PublicTypes'
    BY <1>3 DEF EngineRemove, DataInv, PublicTypes
  <2>3. DbTypes' /\ CommandInv' /\ PanelInv'
    BY <1>3 DEF EngineRemove, dbVars, DataInv, DbTypes, CommandInv, PanelInv
  <2> QED BY <2>1, <2>2, <2>3 DEF DataInv
<1> QED BY <1>1, <1>2, <1>3 DEF Engine

LEMMA ControlLoopKeepsData ==
  ASSUME DataInv, ControlLoop
  PROVE  DataInv'
<1>1. ASSUME NEW s \in Sessions, SessionCreated(s) PROVE DataInv'
  BY <1>1 DEF SessionCreated, dbVars, engineVars, DataInv, DbTypes, PublicTypes, EngineTypes,
              CommandInv, PanelInv
<1>2. ASSUME NEW s \in Sessions, SessionClosed(s) PROVE DataInv'
  BY <1>2 DEF SessionClosed, dbVars, engineVars, DataInv, DbTypes, PublicTypes, EngineTypes,
              CommandInv, PanelInv
<1>3. ASSUME NEW s \in Sessions, prune_public_sessions(s) PROVE DataInv'
  <2>1. drop_exact_session(s)
    BY <1>3 DEF prune_public_sessions, drop_exact_session
  <2> QED BY <1>3, <2>1, DropExactKeeps
          DEF prune_public_sessions, dbVars, engineVars, DataInv, DbTypes, PublicTypes,
              EngineTypes, PanelInv
<1> QED BY <1>1, <1>2, <1>3 DEF ControlLoop

LEMMA TaskKeepsData ==
  ASSUME ControlInv, NEW j \in Jobs, Task(j)
  PROVE  DataInv'
<1>d. DataInv
  BY DEF ControlInv
<1>j. job[j] \in Job /\ (job[j].at \in Attached \cup {"ensure"} => job[j].s \in Sessions)
  BY DEF ControlInv, SlotInv, JobInv
<1> USE DEF dbVars, engineVars, publicVars, slotVars
<1>1. ASSUME NEW s \in Sessions, handle_getconf(j, s) PROVE DataInv'
  <2>1. CommandInv' /\ listed' \in [Sessions -> {"new", "in", "out"}]
    <3>1. CASE drop_exact_session(s)
      BY <1>d, <3>1, DropExactKeeps
    <3>2. CASE UNCHANGED <<listed, cmds, exempt>>
      BY <1>d, <3>2 DEF DataInv, CommandInv, PublicTypes
    <3> QED BY <1>1, <3>1, <3>2 DEF handle_getconf
  <2> QED BY <1>d, <1>1, <2>1
          DEF handle_getconf, DataInv, DbTypes, PublicTypes, EngineTypes, PanelInv
<1>2. ASSUME NEW s \in Sessions, handle_disconnect(j, s) PROVE DataInv'
  BY <1>d, <1>2, DataUntouched DEF handle_disconnect
<1>3. ASSUME NEW s \in Sessions, ensure_control_tunnel(j, s) PROVE DataInv'
  <2>1. CommandInv' /\ listed' \in [Sessions -> {"new", "in", "out"}]
    <3>1. CASE drop_exact_session(s)
      BY <1>d, <3>1, DropExactKeeps
    <3>2. CASE UNCHANGED <<listed, cmds, exempt>>
      BY <1>d, <3>2 DEF DataInv, CommandInv, PublicTypes
    <3> QED BY <1>3, <3>1, <3>2 DEF ensure_control_tunnel
  <2> QED BY <1>d, <1>3, <2>1
          DEF ensure_control_tunnel, DataInv, DbTypes, PublicTypes, EngineTypes, PanelInv
<1>4. CASE Acquire(j, "lock", "admit") \/ Acquire(j, "relock", "disconnect")
  BY <1>d, <1>4, DataUntouched DEF Acquire
<1>5. CASE Retry(j)
  BY <1>d, <1>5, DataUntouched DEF Retry
<1>6. CASE RetryExisting(j)
  BY <1>d, <1>6, DataUntouched DEF RetryExisting
<1>7. CASE getconf_admit(j)
  <2> DEFINE s == job[j].s
             purged == purge_stale_device_sessions(s) \cup purge_replaced_worker_sessions(s)
  <2>1. s \in Sessions /\ Ident[s].dev \in Devices /\ Ident[s].pw \in Passwords
    BY <1>j, <1>7, IdentTypes DEF getconf_admit, Attached, Inside
  <2>2. purged \in SUBSET Sessions
    BY DEF purge_stale_device_sessions, purge_replaced_worker_sessions, In
  <2>3. SendAll(DropSessions(purged), {Ident[s].dev})
    BY <1>7 DEF getconf_admit
  <2>4. CommandInv'
    <3> HIDE DEF purged, s
    <3> QED BY <1>d, <2>1, <2>2, <2>3, DropSessionsTypes, SendAllKeeps DEF DataInv
  <2>5. PublicTypes'
    BY <1>d, <1>7, <2>1 DEF getconf_admit, DataInv, PublicTypes
  <2>6. DbTypes'
    BY <1>d, <1>7, <2>1 DEF getconf_admit, DataInv, DbTypes
  <2>7. EngineTypes' /\ PanelInv'
    BY <1>d, <1>7 DEF getconf_admit, DataInv, EngineTypes, PanelInv
  <2> QED BY <2>4, <2>5, <2>6, <2>7 DEF DataInv
<1>8. CASE getconf_refuse(j)
  <2>1. job[j].s \in Sessions /\ drop_exact_session(job[j].s)
    BY <1>j, <1>8 DEF getconf_refuse, Attached, Inside
  <2>2. CommandInv' /\ listed' \in [Sessions -> {"new", "in", "out"}]
    BY <1>d, <2>1, DropExactKeeps
  <2> QED BY <1>d, <1>8, <2>2
          DEF getconf_refuse, DataInv, DbTypes, PublicTypes, EngineTypes, PanelInv
<1>9. CASE getconf_send(j)
  <2> DEFINE s == job[j].s
  <2>1. s \in Sessions /\ Ident[s].dev \in Devices
    BY <1>j, <1>9, IdentTypes DEF getconf_send, Attached, Inside
  <2>2. Admission(s) \in Seq(Command)
    <3>1. /\ SetAuthoritativeEpoch(Ident[s].dev, Ident[s].epoch) \in Command
          /\ ActivateTunnel(s) \in Command
      BY <2>1, IdentTypes, CommandTypes
    <3> HIDE DEF s
    <3>2. /\ <<SetAuthoritativeEpoch(Ident[s].dev, Ident[s].epoch)>> \in Seq(Command)
          /\ (IF Ident[s].dev \in ips THEN <<ActivateTunnel(s)>> ELSE <<>>) \in Seq(Command)
      BY <3>1
    <3> QED BY <3>2, ConcatProperties DEF Admission
  <2>3. CommandInv'
    <3>1. /\ cmds' = cmds \o Fitting(Admission(s))
          /\ exempt' = exempt \/ exempt' = exempt \cup {Ident[s].dev}
      BY <1>9 DEF getconf_send
    <3> HIDE DEF s
    <3>2. cmds' \in Seq(Command) /\ Len(cmds') <= CommandCap
      BY <1>d, <2>2, <3>1, FittingTypes DEF DataInv
    <3> QED BY <1>d, <2>1, <3>1, <3>2 DEF DataInv, CommandInv
  <2>4. PublicTypes'
    <3>1. PICK b \in BOOLEAN : tunnelled' = [tunnelled EXCEPT ![s] = @ \/ b]
      BY <1>9 DEF getconf_send
    <3>2. tunnelled' \in [Sessions -> BOOLEAN]
      BY <1>d, <3>1 DEF DataInv, PublicTypes
    <3> QED BY <1>d, <1>9, <3>2 DEF getconf_send, DataInv, PublicTypes
  <2>5. DbTypes' /\ EngineTypes' /\ PanelInv'
    BY <1>d, <1>9 DEF getconf_send, DataInv, DbTypes, EngineTypes, PanelInv
  <2> QED BY <2>3, <2>4, <2>5 DEF DataInv
<1>10. CASE disconnect_device(j)
  <2> DEFINE s == job[j].s
  <2>1. s \in Sessions /\ Ident[s].dev \in Devices
    BY <1>j, <1>10, IdentTypes DEF disconnect_device, Attached, Inside
  <2>2. CommandInv'
    <3>1. CASE Room > 0 /\ cmds' = Append(cmds, DisconnectDevice(Ident[s].dev, s))
      <4>1. DisconnectDevice(Ident[s].dev, s) \in Command
        BY <2>1, CommandTypes
      <4>2. exempt' \subseteq Devices \cup Passwords
        BY <1>d, <1>10 DEF disconnect_device, DataInv, CommandInv
      <4> HIDE DEF s
      <4> QED BY <1>d, <3>1, <4>1, <4>2, AppendKeeps DEF DataInv
    <3>2. CASE cmds' = cmds
      BY <1>d, <1>10, <3>2 DEF disconnect_device, DataInv, CommandInv
    <3> QED BY <1>10, <3>1, <3>2 DEF disconnect_device
  <2>3. PublicTypes'
    BY <1>d, <1>10 DEF disconnect_device, DataInv, PublicTypes
  <2>4. DbTypes' /\ EngineTypes' /\ PanelInv'
    BY <1>d, <1>10 DEF disconnect_device, DataInv, DbTypes, EngineTypes, PanelInv
  <2> QED BY <2>2, <2>3, <2>4 DEF DataInv
<1>11. CASE ensure_activate(j)
  <2> DEFINE s == job[j].s
  <2>1. s \in Sessions
    BY <1>j, <1>11 DEF ensure_activate
  <2>2. CommandInv' /\ PublicTypes'
    <3>1. CASE Room = 0
      <4>1. drop_exact_session(s) /\ tunnelled' = tunnelled /\ known' = known
        BY <1>11, <3>1 DEF ensure_activate
      <4> QED BY <1>d, <2>1, <4>1, DropExactKeeps DEF DataInv, PublicTypes
    <3>2. CASE Room # 0
      <4>1. /\ cmds' = Append(cmds, ActivateTunnel(s)) /\ tunnelled' = [tunnelled EXCEPT ![s] = TRUE]
            /\ UNCHANGED <<listed, known, exempt>>
        BY <1>11, <3>2 DEF ensure_activate
      <4>2. Room > 0
        BY <1>d, <3>2, DeviceControlAssumption DEF Room, DataInv, CommandInv
      <4>3. ActivateTunnel(s) \in Command
        BY <2>1, CommandTypes
      <4>4. exempt' \subseteq Devices \cup Passwords
        BY <1>d, <4>1 DEF DataInv, CommandInv
      <4> HIDE DEF s
      <4> QED BY <1>d, <4>1, <4>2, <4>3, <4>4, AppendKeeps DEF DataInv, PublicTypes
    <3> QED BY <3>1, <3>2
  <2>3. DbTypes' /\ EngineTypes' /\ PanelInv'
    BY <1>d, <1>11 DEF ensure_activate, DataInv, DbTypes, EngineTypes, PanelInv
  <2> QED BY <2>2, <2>3 DEF DataInv
<1>12. CASE job_build(j)
  BY <1>d, <1>12, DataUntouched DEF job_build
<1>13. CASE job_publish(j)
  <2>1. ReplaceCredentials(job[j].set) \in Command
    BY <1>j, CommandTypes DEF Job
  <2>2. <<ReplaceCredentials(job[j].set)>> \in Seq(Command)
    BY <2>1
  <2>3. {} \in SUBSET (Devices \cup Passwords)
    OBVIOUS
  <2>4. CommandInv'
    BY <1>d, <1>13, <2>2, <2>3, SendAllKeeps DEF job_publish, DataInv
  <2> QED BY <1>d, <1>13, <2>4
          DEF job_publish, DataInv, DbTypes, PublicTypes, EngineTypes, PanelInv
<1> QED BY <1>1, <1>2, <1>3, <1>4, <1>5, <1>6, <1>7, <1>8, <1>9, <1>10, <1>11, <1>12, <1>13
        DEF Task

LEMMA ProceedTypes ==
  ASSUME PanelInv, panel.at # "idle", Proceed
  PROVE  PanelInv'
BY DEF Proceed, PanelInv, Resting

LEMMA PanelKeepsData ==
  ASSUME DataInv, Panel
  PROVE  DataInv'
<1> USE DEF dbVars, engineVars, publicVars, slotVars
<1>1. ASSUME NEW p \in Passwords, NEW todo, PanelChange(p, todo), DbTypes'
      PROVE  DataInv'
  <2>1. PanelInv'
    <3>1. panel' = [Resting EXCEPT !.at = Head(todo), !.pw = p, !.todo = Tail(todo)]
      BY <1>1 DEF PanelChange
    <3>2. panel' = [at |-> Head(todo), pw |-> p, todo |-> Tail(todo)]
      BY <3>1 DEF Resting
    <3> QED BY <3>2 DEF PanelInv
  <2> QED BY <1>1, <2>1 DEF PanelChange, DataInv, PublicTypes, EngineTypes, CommandInv
<1>2. ASSUME NEW p \in Passwords, Forget(p), ips' = ips PROVE DbTypes'
  BY <1>2 DEF Forget, DataInv, DbTypes
<1>3. ASSUME NEW p \in Passwords, client_toggle(p) PROVE DataInv'
  <2>1. DbTypes'
    BY <1>3 DEF client_toggle, PanelChange, DataInv, DbTypes
  <2> QED BY <1>1, <1>3, <2>1 DEF client_toggle
<1>4. ASSUME NEW p \in Passwords, client_unbind(p) PROVE DataInv'
  <2>1. DbTypes'
    BY <1>4 DEF client_unbind, PanelChange, DataInv, DbTypes
  <2> QED BY <1>1, <1>4, <2>1 DEF client_unbind
<1>5. ASSUME NEW p \in Passwords, client_delete(p) PROVE DataInv'
  <2>1. DbTypes'
    BY <1>2, <1>5 DEF client_delete, PanelChange
  <2> QED BY <1>1, <1>5, <2>1 DEF client_delete
<1>6. ASSUME NEW p \in Passwords, run_password_janitor_cycle(p) PROVE DataInv'
  <2>1. DbTypes'
    BY <1>2, <1>6 DEF run_password_janitor_cycle, PanelChange
  <2> QED BY <1>1, <1>6, <2>1 DEF run_password_janitor_cycle
<1>7. ASSUME NEW p \in Passwords, clients_create(p) PROVE DataInv'
  <2>1. DbTypes'
    BY <1>2, <1>7 DEF clients_create, PanelChange
  <2> QED BY <1>1, <1>7, <2>1 DEF clients_create
<1>8. CASE panel_persist
  <2>1. PanelInv'
    <3>1. CASE Proceed
      BY <1>8, <3>1, ProceedTypes DEF panel_persist, DataInv
    <3>2. CASE panel' = Resting
      BY <3>2 DEF PanelInv, Resting
    <3> QED BY <1>8, <3>1, <3>2 DEF panel_persist
  <2>2. CommandInv'
    BY <1>8 DEF panel_persist, DataInv, PanelInv, CommandInv
  <2> QED BY <1>8, <2>1, <2>2 DEF panel_persist, DataInv, DbTypes, PublicTypes, EngineTypes
<1>9. CASE drop_password_sessions
  <2>1. PanelInv' /\ panel.pw \in Passwords
    BY <1>9, ProceedTypes DEF drop_password_sessions, DataInv, PanelInv
  <2>2. CommandInv'
    <3>1. CASE Room > 0
      <4>1. /\ cmds' = Append(cmds, DropPassword(panel.pw))
            /\ exempt' \subseteq Devices \cup Passwords
        BY <1>9, <3>1 DEF drop_password_sessions, DataInv, CommandInv
      <4>2. DropPassword(panel.pw) \in Command
        BY <2>1, CommandTypes
      <4> QED BY <3>1, <4>1, <4>2, AppendKeeps DEF DataInv
    <3>2. CASE ~ (Room > 0)
      BY <1>9, <2>1, <3>2 DEF drop_password_sessions, DataInv, CommandInv
    <3> QED BY <3>1, <3>2
  <2>3. PublicTypes'
    BY <1>9 DEF drop_password_sessions, DataInv, PublicTypes
  <2> QED BY <1>9, <2>1, <2>2, <2>3 DEF drop_password_sessions, DataInv, DbTypes, EngineTypes
<1>10. CASE panel_refresh
  <2>1. ReplaceCredentials(build_credentials) \in Command
    BY CommandTypes DEF build_credentials
  <2>2. <<ReplaceCredentials(build_credentials)>> \in Seq(Command)
    BY <2>1
  <2>3. {panel.pw} \in SUBSET (Devices \cup Passwords)
    BY <1>10 DEF panel_refresh, DataInv, PanelInv
  <2>4. CommandInv'
    BY <1>10, <2>2, <2>3, SendAllKeeps DEF panel_refresh, DataInv
  <2>5. PanelInv'
    BY <1>10 DEF panel_refresh, PanelInv, Resting
  <2> QED BY <1>10, <2>4, <2>5 DEF panel_refresh, DataInv, DbTypes, PublicTypes, EngineTypes
<1> QED BY <1>3, <1>4, <1>5, <1>6, <1>7, <1>8, <1>9, <1>10 DEF Panel

-----------------------------------------------------------------------------
(* The theorem.                                                            *)

LEMMA ControlInit == Init => ControlInv
<1> SUFFICES ASSUME Init PROVE ControlInv
  OBVIOUS
<1>1. SlotInv
  <2>1. job = [j \in Jobs |-> Idle] /\ JobInv
    BY IdleTypes DEF Init, JobInv, Attached, Inside
  <2>2. SlotTypes /\ \A n \in Slots : slot[n].holder = None
    BY DEF Init, SlotTypes, NewSlot
  <2>3. HolderInv /\ InsideInv
    BY <2>1, <2>2, IdleTypes DEF HolderInv, InsideInv, Inside
  <2> QED BY <2>1, <2>2, <2>3 DEF SlotInv
<1>2. DbTypes
  BY DeviceControlAssumption DEF Init, DbTypes
<1>3. PublicTypes /\ EngineTypes
  BY DEF Init, PublicTypes, EngineTypes
<1>4. CommandInv
  BY DeviceControlAssumption DEF Init, CommandInv
<1>5. PanelInv
  BY DEF Init, PanelInv, Resting
<1> QED BY <1>1, <1>2, <1>3, <1>4, <1>5 DEF ControlInv, DataInv

LEMMA ControlStep == ControlInv /\ [Next]_vars => ControlInv'
<1> SUFFICES ASSUME ControlInv, [Next]_vars PROVE ControlInv'
  OBVIOUS
<1>i. SlotInv /\ DataInv
  BY DEF ControlInv
<1>1. CASE Engine
  <2>1. UNCHANGED <<slotOf, slot, job>>
    BY <1>1 DEF Engine, EngineCommand, EngineCreate, EngineRemove, slotVars
  <2> QED BY <1>i, <1>1, <2>1, SlotsUntouched, EngineKeepsData DEF ControlInv
<1>2. CASE ControlLoop
  <2>1. UNCHANGED <<slotOf, slot, job>>
    BY <1>2 DEF ControlLoop, SessionCreated, SessionClosed, prune_public_sessions, slotVars
  <2> QED BY <1>i, <1>2, <2>1, SlotsUntouched, ControlLoopKeepsData DEF ControlInv
<1>3. ASSUME NEW j \in Jobs, Task(j) PROVE ControlInv'
  BY <1>3, TaskKeepsSlots, TaskKeepsData DEF ControlInv
<1>4. CASE Panel
  <2>1. UNCHANGED <<slotOf, slot, job>>
    BY <1>4 DEF Panel, client_toggle, client_unbind, client_delete, run_password_janitor_cycle,
                clients_create, PanelChange, panel_persist, drop_password_sessions,
                panel_refresh, slotVars
  <2> QED BY <1>i, <1>4, <2>1, SlotsUntouched, PanelKeepsData DEF ControlInv
<1>5. ASSUME NEW d \in Devices, device_epoch_sweeper(d) PROVE ControlInv'
  <2>1. DataInv'
    BY <1>i, <1>5, DataUntouched DEF device_epoch_sweeper, dbVars, publicVars, engineVars
  <2> QED BY <1>i, <1>5, <2>1, SweeperKeepsSlots DEF ControlInv
<1>6. CASE UNCHANGED vars
  <2>1. SlotInv'
    BY <1>i, <1>6, SlotsUntouched DEF vars, slotVars
  <2>2. DataInv'
    BY <1>i, <1>6, DataUntouched DEF vars, dbVars, publicVars, engineVars
  <2> QED BY <2>1, <2>2 DEF ControlInv
<1> QED BY <1>1, <1>2, <1>3, <1>4, <1>5, <1>6 DEF Next, Sweeper

\* The tasks of one device are never inside their critical sections together
\* (lock_device_epoch and lock_existing_device_epoch with their second look
\* at the map): whatever the sweeper and refused GETCONFs take out of the
\* map of slots while a task waits for the mutex of one.
THEOREM DevicesAreSerial == Spec => []EpochSerial
<1>1. ControlInv => EpochSerial
  <2> SUFFICES ASSUME ControlInv PROVE EpochSerial
    OBVIOUS
  <2>1. SlotInv
    BY DEF ControlInv
  <2>2. TypeOK
    <3>1. \A n \in Slots :
             /\ slot[n].epoch \in Epochs \cup {None}
             /\ slot[n].holder # None =>
                   /\ job[slot[n].holder].slot = n
                   /\ job[slot[n].holder].at \in {"admit", "send", "disconnect"}
      BY <2>1 DEF SlotInv, SlotTypes, HolderInv, Inside
    <3>2. slotOf \in [Devices -> {0} \cup Slots]
      BY <2>1 DEF SlotInv, SlotTypes
    <3> QED BY <3>1, <3>2
            DEF TypeOK, ControlInv, DataInv, DbTypes, PublicTypes, EngineTypes, CommandInv
  <2>3. ASSUME NEW j \in Jobs, NEW k \in Jobs, j # k,
               {job[j].at, job[k].at} \subseteq {"admit", "send", "disconnect"}
        PROVE  Device(j) # Device(k)
    <3>1. job[j].at \in Inside /\ job[k].at \in Inside
      BY <2>3 DEF Inside
    <3> QED BY <2>1, <2>3, <3>1, InsideAlone
  <2> QED BY <2>2, <2>3 DEF EpochSerial
<1> QED BY <1>1, ControlInit, ControlStep, PTL DEF Spec

-----------------------------------------------------------------------------
(* The command channel only grows, except when the engine takes its head.  *)

Grows ==
    /\ Len(cmds') >= Len(cmds)
    /\ \A i \in 1 .. Len(cmds) : cmds'[i] = cmds[i]

\* The commands that a step has added.
Added == Len(cmds) + 1 .. Len(cmds')

LEMMA FittingGrows ==
  ASSUME CommandInv, NEW c \in Seq(Command), cmds' = cmds \o Fitting(c)
  PROVE  /\ Grows
         /\ \A i \in Added : \E k \in 1 .. Len(c) : cmds'[i] = c[k]
         /\ Len(c) <= Room => \A k \in 1 .. Len(c) : /\ Len(cmds) + k \in 1 .. Len(cmds')
                                                    /\ cmds'[Len(cmds) + k] = c[k]
<1> DEFINE n == IF Len(c) <= Room THEN Len(c) ELSE Room
<1>1. /\ Len(cmds) \in Nat /\ Room \in Nat /\ Len(c) \in Nat
  BY DeviceControlAssumption DEF CommandInv, Room
<1>2. n \in Nat /\ n <= Len(c)
  BY <1>1
<1>3. Fitting(c) = SubSeq(c, 1, n)
  BY DEF Fitting
<1>a. Len(c) <= Room => n = Len(c)
  OBVIOUS
<1> HIDE DEF n
<1>4. /\ Fitting(c) \in Seq(Command) /\ Len(Fitting(c)) = n
      /\ \A i \in 1 .. n : Fitting(c)[i] = c[i]
  <2>1. \A i \in 1 .. n : c[i] \in Command
    BY <1>1, <1>2
  <2>2. /\ SubSeq(c, 1, n) \in Seq(Command)
        /\ Len(SubSeq(c, 1, n)) = IF 1 <= n THEN n - 1 + 1 ELSE 0
        /\ \A i \in 1 .. n - 1 + 1 : SubSeq(c, 1, n)[i] = c[1 + i - 1]
    BY <1>2, <2>1, SubSeqProperties
  <2> QED BY <1>2, <1>3, <2>2
<1>5. /\ Len(cmds') = Len(cmds) + n
      /\ \A i \in 1 .. Len(cmds) + n :
            cmds'[i] = IF i <= Len(cmds) THEN cmds[i] ELSE Fitting(c)[i - Len(cmds)]
  BY <1>4, ConcatProperties DEF CommandInv
<1>6. Grows
  BY <1>1, <1>2, <1>5 DEF Grows
<1>7. ASSUME NEW i \in Added PROVE \E k \in 1 .. Len(c) : cmds'[i] = c[k]
  <2>1. i - Len(cmds) \in 1 .. n
    BY <1>1, <1>2, <1>5, <1>7 DEF Added
  <2>2. cmds'[i] = c[i - Len(cmds)]
    BY <1>1, <1>2, <1>4, <1>5, <1>7, <2>1 DEF Added
  <2> QED BY <1>1, <1>2, <2>1, <2>2
<1>8. ASSUME Len(c) <= Room, NEW k \in 1 .. Len(c)
      PROVE  Len(cmds) + k \in 1 .. Len(cmds') /\ cmds'[Len(cmds) + k] = c[k]
  BY <1>1, <1>2, <1>4, <1>5, <1>8, <1>a
<1> QED BY <1>6, <1>7, <1>8

LEMMA AppendGrows ==
  ASSUME CommandInv, NEW c \in Command, cmds' = Append(cmds, c)
  PROVE  /\ Grows /\ Len(cmds') = Len(cmds) + 1 /\ cmds'[Len(cmds) + 1] = c
         /\ \A i \in Added : i = Len(cmds) + 1
<1>1. Len(cmds) \in Nat
  BY DEF CommandInv
<1>2. /\ Len(cmds') = Len(cmds) + 1 /\ cmds'[Len(cmds) + 1] = c
      /\ \A i \in 1 .. Len(cmds) : cmds'[i] = cmds[i]
  BY AppendProperties DEF CommandInv
<1> QED BY <1>1, <1>2 DEF Grows, Added

LEMMA StillGrows ==
  ASSUME CommandInv, cmds' = cmds
  PROVE  Grows /\ Added = {}
<1>1. Len(cmds) \in Nat
  BY DEF CommandInv
<1> QED BY <1>1 DEF Grows, Added

\* What was queued stays queued.
LEMMA DoomedStays ==
  ASSUME CommandInv, CommandInv', Grows, NEW s \in Sessions, Doomed(s)
  PROVE  Doomed(s)'
<1>1. Len(cmds) \in Nat /\ Len(cmds') \in Nat /\ Len(cmds') >= Len(cmds)
  BY DEF CommandInv, Grows
<1>2. PICK i \in 1 .. Len(cmds) : Kills(cmds[i], s)
  BY DEF Doomed
<1>3. i \in 1 .. Len(cmds') /\ cmds'[i] = cmds[i]
  BY <1>1 DEF Grows
<1>4. \E k \in 1 .. Len(cmds') : Kills(cmds'[k], s)
  BY <1>2, <1>3
<1> QED BY <1>4 DEF Doomed, Kills

LEMMA AddedDooms ==
  ASSUME CommandInv', NEW s \in Sessions, NEW i \in 1 .. Len(cmds'), Kills(cmds'[i], s)
  PROVE  Doomed(s)'
<1>1. \E k \in 1 .. Len(cmds') : Kills(cmds'[k], s)
  OBVIOUS
<1> QED BY <1>1 DEF Doomed, Kills

LEMMA ActivatingGrows ==
  ASSUME CommandInv, CommandInv', Grows, NEW s \in Sessions, Activating(s)'
  PROVE  Activating(s) \/ \E i \in Added : Activates(cmds'[i], s)
<1>1. Len(cmds) \in Nat /\ Len(cmds') \in Nat /\ Len(cmds') >= Len(cmds)
  BY DEF CommandInv, Grows
<1>2. PICK i \in 1 .. Len(cmds') : Activates(cmds'[i], s)
  BY DEF Activating, Activates
<1>3. CASE i <= Len(cmds)
  <2>1. i \in 1 .. Len(cmds) /\ cmds'[i] = cmds[i]
    BY <1>1, <1>3 DEF Grows
  <2> QED BY <1>2, <2>1 DEF Activating
<1>4. CASE i > Len(cmds)
  BY <1>1, <1>2, <1>4 DEF Added
<1> QED BY <1>1, <1>3, <1>4

\* The DropSessions of a set that fits end its members.
LEMMA DropSessionsGrow ==
  ASSUME CommandInv, CommandInv', NEW S \in SUBSET Sessions, NEW about,
         SendAll(DropSessions(S), about)
  PROVE  /\ Grows
         /\ \A i \in Added : cmds'[i].op = "DropSession"
         /\ (\A s \in S : Doomed(s)') \/ exempt' = exempt \cup about
         /\ exempt \subseteq exempt' /\ exempt' \subseteq exempt \cup about
<1> DEFINE c == DropSessions(S)
<1>1. c \in Seq(Command) /\ cmds' = cmds \o Fitting(c)
  BY DropSessionsTypes DEF SendAll
<1>2. IsFiniteSet(S) /\ Cardinality(S) \in Nat
  BY SessionsFinite
<1>3. Len(c) = Cardinality(S) /\ \A i \in 1 .. Cardinality(S) : c[i] = DropSession(SetToSeq(S)[i])
  BY <1>2 DEF DropSessions
<1>4. \A s \in S : \E i \in 1 .. Cardinality(S) : SetToSeq(S)[i] = s
  BY <1>2, SetToSeqTypes
<1>5. /\ Grows
      /\ \A i \in Added : \E k \in 1 .. Len(c) : cmds'[i] = c[k]
      /\ Len(c) <= Room => \A k \in 1 .. Len(c) : /\ Len(cmds) + k \in 1 .. Len(cmds')
                                                 /\ cmds'[Len(cmds) + k] = c[k]
  <2> HIDE DEF c
  <2> QED BY <1>1, FittingGrows
<1>6. \A i \in Added : cmds'[i].op = "DropSession"
  <2> HIDE DEF c
  <2> QED BY <1>3, <1>5 DEF DropSession
<1>7. ASSUME Len(c) <= Room, NEW s \in S PROVE Doomed(s)'
  <2>1. PICK k \in 1 .. Cardinality(S) : SetToSeq(S)[k] = s
    BY <1>4
  <2> HIDE DEF c
  <2>2. Len(cmds) + k \in 1 .. Len(cmds') /\ cmds'[Len(cmds) + k] = DropSession(s)
    BY <1>3, <1>5, <1>7, <2>1
  <2>3. Kills(cmds'[Len(cmds) + k], s)
    BY <2>2 DEF Kills, DropSession
  <2> QED BY <2>2, <2>3, AddedDooms
<1>8. exempt' = IF Len(c) <= Room THEN exempt ELSE exempt \cup about
  BY DEF SendAll
<1> HIDE DEF c
<1> QED BY <1>5, <1>6, <1>7, <1>8

-----------------------------------------------------------------------------
(* What every step outside of the engine has to show.                      *)

LEMMA KnownKeeps ==
  ASSUME ControlInv, ControlInv', KnownInv, engine' = engine, Grows,
         \A s \in Sessions : known[s] => known'[s],
         \A s \in Sessions : listed[s] = "out" => listed'[s] = "out",
         \A s \in Sessions : listed'[s] = "new" => listed[s] = "new",
         \A i \in Added, s \in Sessions : Activates(cmds'[i], s) => known[s],
         \A s \in Sessions : Granted(s)' => Granted(s) \/ known'[s],
         \A s \in Sessions : known'[s] \/ Served(s)' => known[s] \/ Served(s) \/ listed[s] = "in"
  PROVE  KnownInv'
<1> SUFFICES ASSUME NEW s \in Sessions
             PROVE  /\ (engine[s] = "tunnel" \/ Activating(s)' \/ Granted(s)') => known'[s]
                    /\ (known'[s] \/ Served(s)') => engine[s] # "unborn" /\ listed'[s] # "new"
                    /\ engine[s] = "unborn" => listed'[s] = "out"
  BY DEF KnownInv
<1>1. Activating(s)' => Activating(s) \/ known[s]
  BY ActivatingGrows DEF ControlInv, DataInv
<1>2. /\ (engine[s] = "tunnel" \/ Activating(s) \/ Granted(s)) => known[s]
      /\ (known[s] \/ Served(s)) => engine[s] # "unborn" /\ listed[s] # "new"
      /\ engine[s] = "unborn" => listed[s] = "out"
  BY DEF KnownInv
<1>3. listed[s] = "in" => engine[s] # "unborn" /\ listed[s] # "new"
  BY <1>2
<1> QED BY <1>1, <1>2, <1>3

LEMMA ListKeeps ==
  ASSUME ControlInv, ControlInv', ListInv, engine' = engine, Grows,
         \A s \in Sessions : known'[s] \/ Served(s)' => known[s] \/ Served(s) \/ listed[s] = "in",
         \A s \in Sessions : Unharmed(s)' => Unharmed(s) \/ Doomed(s)',
         \A s \in Sessions : listed[s] = "in" => \/ listed'[s] = "in" \/ Doomed(s)'
                                                \/ ~ Unharmed(s)' \/ s \notin Live
  PROVE  ListInv'
<1> SUFFICES ASSUME NEW s \in Sessions, s \in Live', Unharmed(s)', known'[s] \/ Served(s)'
             PROVE  listed'[s] = "in" \/ Doomed(s)'
  BY DEF ListInv
<1>1. s \in Live
  BY DEF Live
<1>2. CASE ~ Unharmed(s)
  BY <1>2
<1>3. CASE Unharmed(s)
  <2>1. Doomed(s) => Doomed(s)'
    BY DoomedStays DEF ControlInv, DataInv
  <2>2. listed[s] = "in" \/ Doomed(s)
    BY <1>1, <1>3 DEF ListInv
  <2> QED BY <1>1, <2>1, <2>2
<1> QED BY <1>2, <1>3

LEMMA AuthKeeps ==
  ASSUME ControlInv, ControlInv', AuthInv, engine' = engine, Grows, PanelShape',
         \A s \in Sessions : known'[s] => known[s] \/ Authorised(s)',
         \A s \in Sessions : Ident[s].pw \notin exempt' => Ident[s].pw \notin exempt \/ Doomed(s)',
         \A s \in Sessions : Authorised(s) => Authorised(s)' \/ WillEnd(Ident[s].pw)',
         \A s \in Sessions : WillEnd(Ident[s].pw) =>
                                 WillEnd(Ident[s].pw)' \/ Doomed(s)' \/ Ident[s].pw \in exempt'
  PROVE  AuthInv'
<1> SUFFICES ASSUME NEW s \in Sessions, s \in Live', known'[s], Ident[s].pw \notin exempt'
             PROVE  Authorised(s)' \/ Doomed(s)' \/ WillEnd(Ident[s].pw)'
  BY DEF AuthInv
<1>1. s \in Live
  BY DEF Live
<1>2. CASE known[s] /\ Ident[s].pw \notin exempt
  <2>1. Doomed(s) => Doomed(s)'
    BY DoomedStays DEF ControlInv, DataInv
  <2>2. Authorised(s) \/ Doomed(s) \/ WillEnd(Ident[s].pw)
    BY <1>1, <1>2 DEF AuthInv
  <2> QED BY <2>1, <2>2
<1> QED BY <1>2

LEMMA EpochKeeps ==
  ASSUME ControlInv, ControlInv', EpochInv, engine' = engine, Grows, SlotsDistinct', SettleInv',
         \A s \in Sessions : known'[s] => known[s] \/ Current(s)',
         \A s \in Sessions : Ident[s].dev \notin exempt' => Ident[s].dev \notin exempt,
         \A s \in Sessions : Current(s) => \/ Current(s)' \/ Doomed(s)'
                                           \/ Ident[s].dev \in exempt'
  PROVE  EpochInv'
<1> SUFFICES ASSUME NEW s \in Sessions, s \in Live', known'[s], Ident[s].dev \notin exempt'
             PROVE  Current(s)' \/ Doomed(s)'
  BY DEF EpochInv
<1>1. s \in Live
  BY DEF Live
<1>2. CASE known[s]
  <2>1. Doomed(s) => Doomed(s)'
    BY DoomedStays DEF ControlInv, DataInv
  <2>2. Current(s) \/ Doomed(s)
    BY <1>1, <1>2 DEF EpochInv
  <2> QED BY <2>1, <2>2
<1> QED BY <1>2

LEMMA DisconnectKeeps ==
  ASSUME ControlInv, ControlInv', DisconnectInv, engine' = engine, Grows,
         \A s \in Sessions : Ident[s].dev \notin exempt' => Ident[s].dev \notin exempt,
         \A i \in Added : cmds'[i].op # "DisconnectDevice"
  PROVE  DisconnectInv'
<1>1. Len(cmds) \in Nat /\ Len(cmds') \in Nat /\ Len(cmds') >= Len(cmds)
  BY DEF ControlInv, DataInv, CommandInv, Grows
<1> SUFFICES ASSUME NEW i \in 1 .. Len(cmds'), NEW s \in Sessions,
                    cmds'[i].op = "DisconnectDevice", s \in Live', Ident[s].dev \notin exempt',
                    s = cmds'[i].requester \/ Ident[s].dev = cmds'[i].dev,
                    engine'[s] = "tunnel" \/ \E k \in 1 .. i - 1 : Activates(cmds'[k], s)
             PROVE  \/ Ident[s].epoch = Ident[cmds'[i].requester].epoch
                    \/ \E k \in 1 .. i - 1 : Kills(cmds'[k], s)
  BY DEF DisconnectInv, Activates, Kills
<1>2. i \in 1 .. Len(cmds)
  BY <1>1 DEF Added
<1>3. cmds'[i] = cmds[i] /\ \A k \in 1 .. i - 1 : cmds'[k] = cmds[k]
  BY <1>1, <1>2 DEF Grows
<1>4. s \in Live
  BY DEF Live
<1> QED BY <1>2, <1>3, <1>4 DEF DisconnectInv

\* Tasks that do not move keep what is said of them.
LEMMA SameTasks ==
  ASSUME job' = job
  PROVE  /\ \A s \in Sessions : (Granted(s)' => Granted(s)) /\ (Served(s)' => Served(s))
         /\ \A d \in Devices : WillSettle(d)' = WillSettle(d)
BY DEF Granted, Served, WillSettle, Device

\* What is said of the slots when they and the tasks are left alone.
LEMMA SameSlots ==
  ASSUME EpochInv, UNCHANGED <<slotOf, slot, job>>
  PROVE  /\ SlotsDistinct' /\ SettleInv'
         /\ \A s \in Sessions : Current(s) => Current(s)'
<1>1. SlotsDistinct' /\ SettleInv'
  BY DEF EpochInv, SlotsDistinct, SettleInv
<1>2. ASSUME NEW s \in Sessions, Current(s) PROVE Current(s)'
  <2>1. SameEpoch(s) => SameEpoch(s)'
    BY DEF SameEpoch
  <2>2. WillSettle(Ident[s].dev) => WillSettle(Ident[s].dev)'
    BY DEF WillSettle, Device
  <2> QED BY <1>2, <2>1, <2>2 DEF Current
<1> QED BY <1>1, <1>2

\* What is said of the database and the panel when they are left alone.
LEMMA SameDb ==
  ASSUME AuthInv, UNCHANGED <<entry, bind, panel>>
  PROVE  /\ PanelShape'
         /\ \A s \in Sessions : Authorised(s) => Authorised(s)'
         /\ \A s \in Sessions : WillEnd(Ident[s].pw) => WillEnd(Ident[s].pw)'
<1>1. PanelShape'
  BY DEF AuthInv, PanelShape
<1>2. ASSUME NEW s \in Sessions, Authorised(s) PROVE Authorised(s)'
  BY <1>2 DEF Authorised
<1>3. ASSUME NEW s \in Sessions, WillEnd(Ident[s].pw) PROVE WillEnd(Ident[s].pw)'
  BY <1>3 DEF WillEnd, WillDrop, WillRefresh
<1> QED BY <1>1, <1>2, <1>3

\* A step that admits nobody, leaves the database and the panel alone and
\* disconnects nothing.
LEMMA QuietStep ==
  ASSUME ControlInv, ControlInv', TunnelInv, UNCHANGED <<engine, known, entry, bind, panel>>,
         exempt \subseteq exempt', Grows,
         \A i \in Added : cmds'[i].op # "DisconnectDevice",
         \A i \in Added, s \in Sessions : Activates(cmds'[i], s) => known[s],
         \A s \in Sessions : listed[s] = "out" => listed'[s] = "out",
         \A s \in Sessions : listed'[s] = "new" => listed[s] = "new",
         \A s \in Sessions : listed[s] = "in" => \/ listed'[s] = "in" \/ Doomed(s)'
                                                \/ ~ Unharmed(s)' \/ s \notin Live,
         \A s \in Sessions : Granted(s)' => Granted(s) \/ known[s],
         \A s \in Sessions : Served(s)' => known[s] \/ Served(s) \/ listed[s] = "in",
         SlotsDistinct', SettleInv',
         \A s \in Sessions : Current(s) => \/ Current(s)' \/ Doomed(s)'
                                           \/ Ident[s].dev \in exempt'
  PROVE  TunnelInv'
<1> USE DEF TunnelInv
<1>1. KnownInv'
  BY KnownKeeps
<1>2. ListInv'
  <2>1. \A s \in Sessions : Unharmed(s)' => Unharmed(s)
    BY DEF Unharmed
  <2> QED BY <2>1, ListKeeps
<1>3. AuthInv'
  BY SameDb, AuthKeeps
<1>4. EpochInv'
  BY EpochKeeps
<1>5. DisconnectInv'
  BY DisconnectKeeps
<1> QED BY <1>1, <1>2, <1>3, <1>4, <1>5

\* One task moves.
LEMMA OneMoves ==
  ASSUME ControlInv, NEW j \in Jobs, NEW v \in Job, job' = [job EXCEPT ![j] = v]
  PROVE  /\ \A s \in Sessions :
               /\ Granted(s)' => Granted(s) \/ (v.at \in {"send", "ensure"} /\ v.s = s)
               /\ Served(s)' => Served(s) \/ (v.at \in Attached \cup {"ensure"} /\ v.s = s)
         /\ job[j].at # "send" => \A d \in Devices : WillSettle(d) => WillSettle(d)'
<1>1. \A k \in Jobs : job'[k] = IF k = j THEN v ELSE job[k]
  BY DEF ControlInv, SlotInv, JobInv
<1>2. ASSUME NEW s \in Sessions, Granted(s)'
      PROVE  Granted(s) \/ (v.at \in {"send", "ensure"} /\ v.s = s)
  <2>1. PICK k \in Jobs : job'[k].at \in {"send", "ensure"} /\ job'[k].s = s
    BY <1>2 DEF Granted
  <2> QED BY <1>1, <2>1 DEF Granted
<1>3. ASSUME NEW s \in Sessions, Served(s)'
      PROVE  Served(s) \/ (v.at \in Attached \cup {"ensure"} /\ v.s = s)
  <2>1. PICK k \in Jobs : job'[k].at \in Attached \cup {"ensure"} /\ job'[k].s = s
    BY <1>3 DEF Served
  <2> QED BY <1>1, <2>1 DEF Served
<1>4. ASSUME job[j].at # "send", NEW d \in Devices, WillSettle(d) PROVE WillSettle(d)'
  <2>1. PICK k \in Jobs : job[k].at = "send" /\ Device(k) = d
    BY <1>4 DEF WillSettle
  <2>2. job'[k] = job[k]
    BY <1>1, <1>4, <2>1
  <2>3. \E i \in Jobs : job'[i].at = "send" /\ Ident[job'[i].s].dev = d
    BY <2>1, <2>2 DEF Device
  <2> QED BY <2>3 DEF WillSettle, Device
<1> QED BY <1>2, <1>3, <1>4

\* It is not past its lock, and the slots are left alone.
LEMMA OneMovesOutside ==
  ASSUME ControlInv, EpochInv, NEW j \in Jobs, NEW v \in Job, job' = [job EXCEPT ![j] = v],
         UNCHANGED <<slotOf, slot>>, job[j].at # "send", v.at # "send"
  PROVE  /\ SlotsDistinct' /\ SettleInv'
         /\ \A s \in Sessions : Current(s) => Current(s)'
<1>1. \A k \in Jobs : job'[k] = IF k = j THEN v ELSE job[k]
  BY DEF ControlInv, SlotInv, JobInv
<1>2. SlotsDistinct' /\ SettleInv'
  BY <1>1 DEF EpochInv, SlotsDistinct, SettleInv
<1>3. ASSUME NEW s \in Sessions, Current(s) PROVE Current(s)'
  <2>1. SameEpoch(s) => SameEpoch(s)'
    BY DEF SameEpoch
  <2>2. WillSettle(Ident[s].dev) => WillSettle(Ident[s].dev)'
    BY OneMoves, IdentTypes
  <2> QED BY <1>3, <2>1, <2>2 DEF Current
<1> QED BY <1>2, <1>3

\* A session is put out of the table and of the engine.
LEMMA DropExactFacts ==
  ASSUME ControlInv, ControlInv', NEW s \in Sessions, drop_exact_session(s)
  PROVE  /\ exempt \subseteq exempt' /\ Grows
         /\ \A i \in Added : cmds'[i].op = "DropSession"
         /\ \A x \in Sessions : listed[x] = "out" => listed'[x] = "out"
         /\ \A x \in Sessions : listed'[x] = "new" => listed[x] = "new"
         /\ \A x \in Sessions : listed[x] = "in" => \/ listed'[x] = "in" \/ Doomed(x)'
                                                    \/ ~ Unharmed(x)'
<1>1. /\ Grows
      /\ \A i \in Added : cmds'[i].op = "DropSession"
      /\ (\A x \in {s} : Doomed(x)') \/ exempt' = exempt \cup {Ident[s].dev, Ident[s].pw}
      /\ exempt \subseteq exempt'
  BY DropSessionsGrow DEF drop_exact_session, ControlInv, DataInv
<1>2. listed' = [listed EXCEPT ![s] = "out"] /\ listed \in [Sessions -> {"new", "in", "out"}]
  BY DEF drop_exact_session, ControlInv, DataInv, PublicTypes
<1>3. ASSUME NEW x \in Sessions, listed[x] = "in"
      PROVE  listed'[x] = "in" \/ Doomed(x)' \/ ~ Unharmed(x)'
  <2>1. CASE x # s
    BY <1>2, <1>3, <2>1
  <2>2. CASE x = s
    <3>1. CASE Doomed(s)'
      BY <2>2, <3>1
    <3>2. CASE exempt' = exempt \cup {Ident[s].dev, Ident[s].pw}
      BY <2>2, <3>2 DEF Unharmed
    <3> QED BY <1>1, <3>1, <3>2
  <2> QED BY <2>1, <2>2
<1> QED BY <1>1, <1>2, <1>3

LEMMA NeitherActivates ==
  ASSUME NEW c, c.op = "DropSession"
  PROVE  c.op # "DisconnectDevice" /\ \A s \in Sessions : ~ Activates(c, s)
BY DEF Activates

-----------------------------------------------------------------------------
(* The steps of the control loop and of the sweeper.                       *)

LEMMA ControlLoopKeepsTunnels ==
  ASSUME ControlInv, ControlInv', TunnelInv, ControlLoop
  PROVE  TunnelInv'
<1>e. EpochInv
  BY DEF TunnelInv
<1>l. listed \in [Sessions -> {"new", "in", "out"}]
  BY DEF ControlInv, DataInv, PublicTypes
<1> USE DEF dbVars, engineVars, publicVars, slotVars
<1>1. ASSUME NEW s \in Sessions, SessionCreated(s) \/ SessionClosed(s) PROVE TunnelInv'
  <2>1. UNCHANGED <<engine, known, entry, bind, panel, exempt, cmds, job, slotOf, slot>>
    BY <1>1 DEF SessionCreated, SessionClosed
  <2>2. Grows /\ Added = {}
    BY <2>1, StillGrows DEF ControlInv, DataInv
  <2>3. /\ \A x \in Sessions : listed[x] = "out" => listed'[x] = "out"
        /\ \A x \in Sessions : listed'[x] = "new" => listed[x] = "new"
        /\ \A x \in Sessions : listed[x] = "in" => listed'[x] = "in" \/ x \notin Live
    BY <1>1, <1>l DEF SessionCreated, SessionClosed, Live
  <2> QED BY <1>e, <2>1, <2>2, <2>3, SameSlots, SameTasks, QuietStep
<1>2. ASSUME NEW s \in Sessions, prune_public_sessions(s) PROVE TunnelInv'
  <2>1. UNCHANGED <<engine, known, entry, bind, panel, job, slotOf, slot>>
    BY <1>2 DEF prune_public_sessions
  <2>2. drop_exact_session(s)
    BY <1>2 DEF prune_public_sessions, drop_exact_session
  <2> QED BY <1>e, <2>1, <2>2, DropExactFacts, NeitherActivates, SameSlots, SameTasks, QuietStep
<1> QED BY <1>1, <1>2 DEF ControlLoop

LEMMA SweeperKeepsTunnels ==
  ASSUME ControlInv, ControlInv', TunnelInv, NEW d \in Devices, device_epoch_sweeper(d)
  PROVE  TunnelInv'
<1> USE DEF dbVars, engineVars, publicVars
<1>1. /\ UNCHANGED <<engine, known, entry, bind, panel, exempt, cmds, job, slot, listed>>
      /\ slotOf' = [slotOf EXCEPT ![d] = 0]
  BY DEF device_epoch_sweeper
<1>2. Grows /\ Added = {}
  BY <1>1, StillGrows DEF ControlInv, DataInv
<1>t. slotOf \in [Devices -> {0} \cup Slots]
  BY DEF ControlInv, SlotInv, SlotTypes
<1>3. SlotsDistinct' /\ SettleInv'
  BY <1>1, <1>t DEF TunnelInv, EpochInv, SlotsDistinct, SettleInv
<1>4. ASSUME NEW s \in Sessions, Current(s) PROVE Current(s)'
  <2>1. WillSettle(Ident[s].dev) => WillSettle(Ident[s].dev)'
    BY <1>1, SameTasks, IdentTypes
  <2>2. SameEpoch(s) => SameEpoch(s)'
    BY <1>1, <1>t, IdentTypes DEF SameEpoch
  <2> QED BY <1>4, <2>1, <2>2 DEF Current
<1> QED BY <1>1, <1>2, <1>3, <1>4, SameTasks, QuietStep

-----------------------------------------------------------------------------
(* The steps of the tasks.                                                 *)

\* A task gets the slot of its device, or a new one without an epoch.
LEMMA LockFacts ==
  ASSUME ControlInv, EpochInv, NEW j \in Jobs, job[j].at \notin Inside, NEW s \in Sessions,
         lock_device_epoch(j, s)
  PROVE  /\ SlotsDistinct' /\ SettleInv'
         /\ \A x \in Sessions : Current(x) => Current(x)'
         /\ \A x \in Sessions : /\ Granted(x)' => Granted(x)
                                /\ Served(x)' => Served(x) \/ x = s
<1> DEFINE d == Ident[s].dev
           n == IF slotOf[d] # 0 THEN slotOf[d] ELSE UnusedSlot
           v == [Idle EXCEPT !.at = "lock", !.s = s, !.slot = n, !.fresh = (slotOf[d] = 0)]
<1>1. d \in Devices /\ s \in Nat
  BY IdentTypes
<1>t. slotOf \in [Devices -> {0} \cup Slots] /\ slotOf[d] \in {0} \cup Slots
  BY <1>1 DEF ControlInv, SlotInv, SlotTypes
<1>s. slot \in [Slots -> [epoch : Epochs \cup {None}, holder : Jobs \cup {None}]]
  BY DEF ControlInv, SlotInv, SlotTypes
<1>u. slotOf[d] = 0 => /\ UnusedSlot \in Slots
                       /\ \A e \in Devices : slotOf[e] # UnusedSlot
                       /\ \A k \in Jobs : job[k].slot # UnusedSlot
  BY <1>1, UnusedSlotExists DEF ControlInv, SlotInv
<1>2. n \in Slots /\ n # 0
  BY <1>t, <1>u, SlotsFinite
<1>3. v \in Job /\ v.at = "lock" /\ v.s = s
  <2> DEFINE b == (slotOf[d] = 0)
  <2>1. b \in BOOLEAN
    OBVIOUS
  <2>2. v = [Idle EXCEPT !.at = "lock", !.s = s, !.slot = n, !.fresh = b]
    OBVIOUS
  <2> HIDE DEF n, d, b
  <2> QED BY <1>1, <1>2, <2>1, <2>2 DEF Idle, Job, Attached
<1>4. job' = [job EXCEPT ![j] = v] /\ slotOf' = [slotOf EXCEPT ![d] = n]
  BY DEF lock_device_epoch
<1>5. \A m \in Slots : \/ slot'[m] = slot[m]
                       \/ /\ slotOf[d] = 0 /\ m = UnusedSlot /\ m = n /\ slot'[m].epoch = None
  <2>1. CASE slotOf[d] # 0
    BY <2>1 DEF lock_device_epoch
  <2>2. CASE slotOf[d] = 0
    <3>1. n = UnusedSlot /\ slot' = [slot EXCEPT ![n] = NewSlot]
      BY <2>2 DEF lock_device_epoch
    <3> QED BY <1>s, <2>2, <3>1 DEF NewSlot
  <2> QED BY <2>1, <2>2
<1> HIDE DEF v
<1>6. \A k \in Jobs : job'[k] = IF k = j THEN v ELSE job[k]
  BY <1>4 DEF ControlInv, SlotInv, JobInv
<1>7. SlotsDistinct'
  <2>1. \A e \in Devices : slotOf'[e] = IF e = d THEN n ELSE slotOf[e]
    BY <1>t, <1>4
  <2>2. \A e \in Devices : slotOf[e] = n => e = d
    BY <1>1, <1>u, <1>2 DEF EpochInv, SlotsDistinct
  <2> HIDE DEF n, d
  <2> QED BY <1>1, <2>1, <2>2 DEF EpochInv, SlotsDistinct
<1>8. SettleInv'
  <2> SUFFICES ASSUME NEW k \in Jobs, job'[k].at = "send"
               PROVE  slot'[job'[k].slot].epoch = Ident[job'[k].s].epoch
    BY DEF SettleInv
  <2>1. job'[k] = job[k] /\ job[k].at = "send"
    BY <1>3, <1>6
  <2>2. job[k].slot \in Slots /\ slot[job[k].slot].epoch = Ident[job[k].s].epoch
    BY <2>1 DEF EpochInv, SettleInv, ControlInv, SlotInv, JobInv, Attached, Inside
  <2>3. slot'[job[k].slot] = slot[job[k].slot]
    BY <1>5, <1>u, <2>2
  <2> QED BY <2>1, <2>2, <2>3
<1>9. ASSUME NEW x \in Sessions, Current(x) PROVE Current(x)'
  <2> DEFINE e == Ident[x].dev
  <2>1. WillSettle(e) => WillSettle(e)'
    BY <1>3, <1>4, OneMoves, IdentTypes DEF Inside
  <2>2. SameEpoch(x) => SameEpoch(x)'
    <3> SUFFICES ASSUME SameEpoch(x) PROVE SameEpoch(x)'
      OBVIOUS
    <3>1. e \in Devices /\ slotOf'[e] = IF e = d THEN n ELSE slotOf[e]
      BY <1>t, <1>4, IdentTypes
    <3>2. CASE slotOf[e] # 0
      <4>1. slotOf'[e] = slotOf[e] /\ slotOf[e] \in Slots
        BY <1>t, <3>1, <3>2
      <4>2. slot'[slotOf[e]] = slot[slotOf[e]]
        BY <1>5, <1>u, <3>1, <4>1
      <4> QED BY <4>1, <4>2 DEF SameEpoch
    <3>3. CASE slotOf[e] = 0 /\ e # d
      BY <3>1, <3>3 DEF SameEpoch
    <3>4. CASE slotOf[e] = 0 /\ e = d
      <4>1. n = UnusedSlot /\ slot'[n].epoch = None
        <5>1. n = UnusedSlot /\ slot' = [slot EXCEPT ![n] = NewSlot]
          BY <3>4 DEF lock_device_epoch
        <5> QED BY <1>s, <1>2, <5>1 DEF NewSlot
      <4> QED BY <3>1, <3>4, <4>1 DEF SameEpoch
    <3> QED BY <3>2, <3>3, <3>4
  <2> QED BY <1>9, <2>1, <2>2 DEF Current
<1>10. \A x \in Sessions : /\ Granted(x)' => Granted(x)
                           /\ Served(x)' => Served(x) \/ x = s
  BY <1>3, <1>4, OneMoves
<1> QED BY <1>7, <1>8, <1>9, <1>10

LEMMA HandleGetconfKeepsTunnels ==
  ASSUME ControlInv, ControlInv', TunnelInv, NEW j \in Jobs, NEW s \in Sessions,
         handle_getconf(j, s)
  PROVE  TunnelInv'
<1> USE DEF dbVars, engineVars, slotVars
<1>e. EpochInv
  BY DEF TunnelInv
<1>1. UNCHANGED <<engine, known, entry, bind, panel>> /\ listed[s] = "in" /\ job[j].at = "idle"
  BY DEF handle_getconf, Start, In
<1>2. CASE lock_device_epoch(j, s) /\ UNCHANGED <<listed, cmds, exempt>>
  <2>1. Grows /\ Added = {}
    BY <1>2, StillGrows DEF ControlInv, DataInv
  <2>2. /\ SlotsDistinct' /\ SettleInv'
        /\ \A x \in Sessions : Current(x) => Current(x)'
        /\ \A x \in Sessions : /\ Granted(x)' => Granted(x)
                               /\ Served(x)' => Served(x) \/ x = s
    BY <1>e, <1>1, <1>2, LockFacts DEF Inside
  <2> QED BY <1>1, <1>2, <2>1, <2>2, QuietStep
<1>3. CASE drop_exact_session(s) /\ UNCHANGED <<slotOf, slot, job>>
  BY <1>e, <1>1, <1>3, DropExactFacts, NeitherActivates, SameSlots, SameTasks, QuietStep
<1> QED BY <1>2, <1>3 DEF handle_getconf

\* A task that is not past its lock, and does not come past it, changes its
\* place only.
LEMMA MoveKeepsTunnels ==
  ASSUME ControlInv, ControlInv', TunnelInv, NEW j \in Jobs, NEW v \in Job,
         job' = [job EXCEPT ![j] = v], job[j].at # "send", v.at # "send",
         UNCHANGED <<engine, known, entry, bind, panel, listed, cmds, exempt, slotOf, slot>>,
         v.at \in Attached \cup {"ensure"} =>
             \A s \in Sessions : v.s = s => known[s] \/ Served(s) \/ listed[s] = "in",
         v.at = "ensure" => \A s \in Sessions : v.s = s => known[s]
  PROVE  TunnelInv'
<1>e. EpochInv
  BY DEF TunnelInv
<1>1. Grows /\ Added = {}
  BY StillGrows DEF ControlInv, DataInv
<1>2. /\ SlotsDistinct' /\ SettleInv'
      /\ \A s \in Sessions : Current(s) => Current(s)'
  BY <1>e, OneMovesOutside
<1>3. \A s \in Sessions :
         /\ Granted(s)' => Granted(s) \/ (v.at \in {"send", "ensure"} /\ v.s = s)
         /\ Served(s)' => Served(s) \/ (v.at \in Attached \cup {"ensure"} /\ v.s = s)
  BY OneMoves
<1>4. \A s \in Sessions : Granted(s)' => Granted(s) \/ known[s]
  BY <1>3
<1>5. \A s \in Sessions : Served(s)' => known[s] \/ Served(s) \/ listed[s] = "in"
  BY <1>3
<1> QED BY <1>1, <1>2, <1>4, <1>5, QuietStep

LEMMA LockExistingKeepsTunnels ==
  ASSUME ControlInv, ControlInv', TunnelInv, NEW j \in Jobs, NEW s \in Sessions,
         job[j].at # "send", lock_existing_device_epoch(j, s),
         UNCHANGED <<engine, known, entry, bind, panel, listed, cmds, exempt, slotOf, slot>>,
         Served(s) \/ listed[s] = "in"
  PROVE  TunnelInv'
<1> DEFINE n == slotOf[Ident[s].dev]
           w == [Idle EXCEPT !.at = "relock", !.s = s, !.slot = n]
           v == IF n = 0 THEN Idle ELSE w
<1>1. s \in Nat /\ n \in {0} \cup Slots
  BY IdentTypes DEF ControlInv, SlotInv, SlotTypes
<1>2. job' = [job EXCEPT ![j] = v]
  BY DEF lock_existing_device_epoch
<1>3. w \in Job /\ w.at = "relock" /\ w.s = s
  <2> HIDE DEF n
  <2> QED BY <1>1 DEF Idle, Job, Attached
<1> HIDE DEF w
<1>4. v \in Job /\ v.at # "send" /\ v.at # "ensure"
  BY <1>3, IdleTypes
<1>5. v.at \in Attached \cup {"ensure"} => v.s = s
  <2>1. CASE n = 0
    BY <2>1, IdleTypes DEF Attached, Inside
  <2>2. CASE n # 0
    BY <1>3, <2>2
  <2> QED BY <2>1, <2>2
<1> HIDE DEF v
<1> QED BY <1>2, <1>4, <1>5, MoveKeepsTunnels

\* A task past its lock is done, and unlocks its slot.
LEMMA LeaveFacts ==
  ASSUME ControlInv, EpochInv, NEW j \in Jobs, job[j].at \in Inside,
         NEW v \in Job, job' = [job EXCEPT ![j] = v], v.at \in {"idle", "build"},
         slot' = Unlocked(j),
         \/ UNCHANGED slotOf
         \/ slotOf' = [slotOf EXCEPT ![Device(j)] = 0]
  PROVE  /\ SlotsDistinct' /\ SettleInv'
         /\ \A x \in Sessions : (Granted(x)' => Granted(x)) /\ (Served(x)' => Served(x))
         /\ \A x \in Sessions : SameEpoch(x) => SameEpoch(x)'
         /\ \A x \in Sessions : Current(x) => \/ Current(x)'
                                              \/ job[j].at = "send" /\ Ident[x].dev = Device(j)
<1>t. slotOf \in [Devices -> {0} \cup Slots] /\ Device(j) \in Devices /\ job[j].slot \in Slots
  BY IdentTypes DEF ControlInv, SlotInv, SlotTypes, JobInv, Attached, Device
<1>s. slot \in [Slots -> [epoch : Epochs \cup {None}, holder : Jobs \cup {None}]]
  BY DEF ControlInv, SlotInv, SlotTypes
<1>1. \A n \in Slots : slot'[n].epoch = slot[n].epoch
  BY <1>t, <1>s DEF Unlocked
<1>2. \A k \in Jobs : job'[k] = IF k = j THEN v ELSE job[k]
  BY DEF ControlInv, SlotInv, JobInv
<1>3. \A d \in Devices : slotOf'[d] = slotOf[d] \/ slotOf'[d] = 0
  BY <1>t
<1>4. SlotsDistinct'
  BY <1>3 DEF EpochInv, SlotsDistinct
<1>5. SettleInv'
  <2> SUFFICES ASSUME NEW k \in Jobs, job'[k].at = "send"
               PROVE  slot'[job'[k].slot].epoch = Ident[job'[k].s].epoch
    BY DEF SettleInv
  <2>1. job'[k] = job[k]
    BY <1>2
  <2>2. job[k].slot \in Slots /\ slot[job[k].slot].epoch = Ident[job[k].s].epoch
    BY <2>1 DEF EpochInv, SettleInv, ControlInv, SlotInv, JobInv, Attached, Inside
  <2> QED BY <1>1, <2>1, <2>2
<1>6. \A x \in Sessions : (Granted(x)' => Granted(x)) /\ (Served(x)' => Served(x))
  BY OneMoves DEF Attached, Inside
<1>7. ASSUME NEW x \in Sessions, SameEpoch(x) PROVE SameEpoch(x)'
  <2>1. Ident[x].dev \in Devices
    BY IdentTypes
  <2>2. CASE slotOf'[Ident[x].dev] = 0
    BY <2>2 DEF SameEpoch
  <2>3. CASE slotOf'[Ident[x].dev] = slotOf[Ident[x].dev] /\ slotOf[Ident[x].dev] # 0
    <3>1. slotOf[Ident[x].dev] \in Slots
      BY <1>t, <2>1, <2>3
    <3>2. slot'[slotOf[Ident[x].dev]].epoch = slot[slotOf[Ident[x].dev]].epoch
      BY <1>1, <3>1
    <3> QED BY <1>7, <2>3, <3>2 DEF SameEpoch
  <2> QED BY <1>3, <2>1, <2>2, <2>3
<1>8. ASSUME NEW x \in Sessions, WillSettle(Ident[x].dev), ~ WillSettle(Ident[x].dev)'
      PROVE  job[j].at = "send" /\ Ident[x].dev = Device(j)
  <2>1. PICK k \in Jobs : job[k].at = "send" /\ Device(k) = Ident[x].dev
    BY <1>8 DEF WillSettle
  <2>2. ASSUME k # j PROVE FALSE
    <3>1. job'[k] = job[k]
      BY <1>2, <2>2
    <3>2. \E i \in Jobs : job'[i].at = "send" /\ Ident[job'[i].s].dev = Ident[x].dev
      BY <2>1, <3>1 DEF Device
    <3> QED BY <1>8, <3>2 DEF WillSettle, Device
  <2> QED BY <2>1, <2>2
<1> QED BY <1>4, <1>5, <1>6, <1>7, <1>8 DEF Current

LEMMA AcquireKeepsTunnels ==
  ASSUME ControlInv, ControlInv', TunnelInv, NEW j \in Jobs, NEW from \in {"lock", "relock"},
         NEW to \in {"admit", "disconnect"}, Acquire(j, from, to)
  PROVE  TunnelInv'
<1> USE DEF dbVars, engineVars, publicVars
<1> DEFINE n == job[j].slot
           v == [job[j] EXCEPT !.at = to]
<1>1. /\ job[j].at = from /\ slot' = [slot EXCEPT ![n].holder = j]
      /\ job' = [job EXCEPT ![j] = v] /\ slotOf' = slotOf
      /\ UNCHANGED <<engine, known, entry, bind, panel, listed, cmds, exempt>>
  BY DEF Acquire
<1>2. job[j] \in Job /\ job[j].s \in Sessions /\ n \in Slots
  BY <1>1 DEF ControlInv, SlotInv, JobInv, Attached
<1>3. v \in Job /\ v.at = to /\ v.s = job[j].s /\ v.slot = n
  BY <1>2 DEF Job, Attached, Inside
<1> HIDE DEF v
<1>4. Grows /\ Added = {}
  BY <1>1, StillGrows DEF ControlInv, DataInv
<1>5. \A m \in Slots : slot'[m].epoch = slot[m].epoch
  BY <1>1, <1>2 DEF ControlInv, SlotInv, SlotTypes
<1>6. \A k \in Jobs : job'[k] = IF k = j THEN v ELSE job[k]
  BY <1>1 DEF ControlInv, SlotInv, JobInv
<1>7. Served(job[j].s)
  BY <1>1 DEF Served, Attached
<1>8. \A x \in Sessions : (Granted(x)' => Granted(x)) /\ (Served(x)' => Served(x))
  BY <1>1, <1>3, <1>7, OneMoves
<1>9. SlotsDistinct'
  BY <1>1 DEF TunnelInv, EpochInv, SlotsDistinct
<1>10. SettleInv'
  <2> SUFFICES ASSUME NEW k \in Jobs, job'[k].at = "send"
               PROVE  slot'[job'[k].slot].epoch = Ident[job'[k].s].epoch
    BY DEF SettleInv
  <2>1. job'[k] = job[k]
    BY <1>3, <1>6
  <2>2. job[k].slot \in Slots /\ slot[job[k].slot].epoch = Ident[job[k].s].epoch
    BY <2>1 DEF TunnelInv, EpochInv, SettleInv, ControlInv, SlotInv, JobInv, Attached, Inside
  <2> QED BY <1>5, <2>1, <2>2
<1>11. ASSUME NEW x \in Sessions, Current(x) PROVE Current(x)'
  <2>1. WillSettle(Ident[x].dev) => WillSettle(Ident[x].dev)'
    BY <1>1, <1>3, OneMoves, IdentTypes
  <2>2. SameEpoch(x) => SameEpoch(x)'
    <3>1. slotOf[Ident[x].dev] \in {0} \cup Slots
      BY IdentTypes DEF ControlInv, SlotInv, SlotTypes
    <3> QED BY <1>1, <1>5, <3>1 DEF SameEpoch
  <2> QED BY <1>11, <2>1, <2>2 DEF Current
<1> QED BY <1>1, <1>4, <1>8, <1>9, <1>10, <1>11, QuietStep

LEMMA AdmitKeepsTunnels ==
  ASSUME ControlInv, ControlInv', TunnelInv, NEW j \in Jobs, getconf_admit(j)
  PROVE  TunnelInv'
<1> USE DEF dbVars, engineVars, publicVars
<1> DEFINE s == job[j].s
           d == Ident[s].dev
           p == Ident[s].pw
           n == job[j].slot
           purged == purge_stale_device_sessions(s) \cup purge_replaced_worker_sessions(s)
<1>1. /\ job[j].at = "admit" /\ entry[p] = "on" /\ bind[p] \in {None, d}
      /\ slot' = [slot EXCEPT ![n].epoch = Ident[s].epoch]
      /\ known' = [known EXCEPT ![s] = TRUE]
      /\ listed' = [x \in Sessions |-> IF x \in purged THEN "out" ELSE listed[x]]
      /\ SendAll(DropSessions(purged), {d})
      /\ bind' = [bind EXCEPT ![p] = d]
      /\ UNCHANGED <<entry, slotOf, engine, panel>>
  BY DEF getconf_admit, getconf_credential_access, admit
<1>2. s \in Sessions /\ d \in Devices /\ p \in Passwords /\ n \in Slots /\ slotOf[d] = n
  BY <1>1, IdentTypes DEF ControlInv, SlotInv, JobInv, InsideInv, Attached, Inside, Device
<1>3. purged \in SUBSET Sessions /\ \A x \in purged : Ident[x].dev = d
  BY DEF purge_stale_device_sessions, purge_replaced_worker_sessions, In
<1>4. /\ Grows /\ (\A i \in Added : cmds'[i].op = "DropSession")
      /\ (\A x \in purged : Doomed(x)') \/ exempt' = exempt \cup {d}
      /\ exempt \subseteq exempt' /\ exempt' \subseteq exempt \cup {d}
  <2> HIDE DEF purged, d
  <2> QED BY <1>1, <1>3, DropSessionsGrow DEF ControlInv, DataInv
<1>t. /\ known \in [Sessions -> BOOLEAN] /\ bind \in [Passwords -> Devices \cup {None}]
      /\ slot \in [Slots -> [epoch : Epochs \cup {None}, holder : Jobs \cup {None}]]
      /\ job \in [Jobs -> Job] /\ slotOf \in [Devices -> {0} \cup Slots]
  BY DEF ControlInv, DataInv, PublicTypes, DbTypes, SlotInv, SlotTypes, JobInv
<1>5. \A k \in Jobs : /\ job'[k].slot = job[k].slot /\ job'[k].s = job[k].s
                      /\ job'[k].at = (IF k = j THEN "send" ELSE job[k].at)
  <2>1. PICK b \in BOOLEAN : job' = [job EXCEPT ![j].at = "send", ![j].changed = b]
    BY DEF getconf_admit
  <2> QED BY <1>t, <2>1 DEF Job
<1>6. \A x \in Sessions : known'[x] = (x = s \/ known[x])
  BY <1>1, <1>2, <1>t
<1>7. \A x \in Sessions : Served(x)' => Served(x)
  BY <1>1, <1>5 DEF Served, Attached, Inside
<1>8. Served(s)
  BY <1>1 DEF Served, Attached, Inside
<1>9. \A x \in Sessions : Granted(x)' => Granted(x) \/ x = s
  BY <1>5 DEF Granted
<1>l. \A x \in Sessions : listed'[x] = IF x \in purged THEN "out" ELSE listed[x]
  BY <1>1
<1> HIDE DEF purged
<1>10. KnownInv'
  <2>1. \A i \in Added, x \in Sessions : ~ Activates(cmds'[i], x)
    BY <1>4, NeitherActivates
  <2> HIDE DEF s
  <2> QED BY <1>1, <1>4, <1>6, <1>7, <1>8, <1>9, <1>l, <2>1, KnownKeeps DEF TunnelInv
<1>11. ListInv'
  <2>1. \A x \in Sessions : listed[x] = "in" => listed'[x] = "in" \/ Doomed(x)' \/ ~ Unharmed(x)'
    <3> SUFFICES ASSUME NEW x \in Sessions, x \in purged, ~ Doomed(x)'
                 PROVE  ~ Unharmed(x)'
      BY <1>l
    <3>1. Ident[x].dev = d /\ d \in exempt'
      BY <1>3, <1>4
    <3> QED BY <3>1 DEF Unharmed
  <2>2. \A x \in Sessions : Unharmed(x)' => Unharmed(x)
    BY <1>4 DEF Unharmed
  <2> HIDE DEF s
  <2> QED BY <1>1, <1>4, <1>6, <1>7, <1>8, <2>1, <2>2, ListKeeps DEF TunnelInv
<1>12. AuthInv'
  <2>1. PanelShape'
    BY <1>1 DEF TunnelInv, AuthInv, PanelShape
  <2>2. \A q \in Passwords : bind'[q] = IF q = p THEN d ELSE bind[q]
    BY <1>1, <1>2, <1>t
  <2>3. ASSUME NEW x \in Sessions, x = s PROVE Authorised(x)'
    BY <1>1, <1>2, <2>2, <2>3 DEF Authorised
  <2>4. \A x \in Sessions : known'[x] => known[x] \/ Authorised(x)'
    BY <1>6, <2>3
  <2>5. ASSUME NEW x \in Sessions, Authorised(x) PROVE Authorised(x)'
    <3>1. Ident[x].dev \in Devices /\ Ident[x].pw \in Passwords
      BY IdentTypes
    <3>2. bind'[Ident[x].pw] = Ident[x].dev
      BY <1>1, <2>2, <2>5, <3>1, DeviceControlAssumption DEF Authorised
    <3> QED BY <1>1, <2>5, <3>2 DEF Authorised
  <2>6. \A x \in Sessions : WillEnd(Ident[x].pw) => WillEnd(Ident[x].pw)'
    BY <1>1 DEF WillEnd, WillDrop, WillRefresh
  <2> HIDE DEF s
  <2> QED BY <1>1, <1>4, <2>1, <2>4, <2>5, <2>6, AuthKeeps DEF TunnelInv
<1>13. EpochInv'
  <2>1. SlotsDistinct'
    BY <1>1 DEF TunnelInv, EpochInv, SlotsDistinct
  <2>2. \A m \in Slots : slot'[m].epoch = IF m = n THEN Ident[s].epoch ELSE slot[m].epoch
    BY <1>1, <1>2, <1>t
  <2>3. SettleInv'
    <3> SUFFICES ASSUME NEW k \in Jobs, job'[k].at = "send"
                 PROVE  slot'[job[k].slot].epoch = Ident[job[k].s].epoch
      BY <1>5 DEF SettleInv
    <3>1. CASE k = j
      BY <1>2, <2>2, <3>1
    <3>2. CASE k # j
      <4>1. job[k].at = "send"
        BY <1>5, <3>2
      <4>2. job[k].slot \in Slots /\ slot[job[k].slot].epoch = Ident[job[k].s].epoch
        BY <4>1 DEF TunnelInv, EpochInv, SettleInv, ControlInv, SlotInv, JobInv, Attached, Inside
      <4>3. job[k].slot # n
        BY <1>1, <3>2, <4>1, InsideAlone DEF ControlInv, Inside
      <4> QED BY <2>2, <4>2, <4>3
    <3> QED BY <3>1, <3>2
  <2>4. ASSUME NEW x \in Sessions, Ident[x].dev = d PROVE Current(x)'
    <3>1. WillSettle(Ident[x].dev)'
      <4>1. \E k \in Jobs : job'[k].at = "send" /\ Ident[job'[k].s].dev = Ident[x].dev
        BY <1>5, <2>4
      <4> QED BY <4>1 DEF WillSettle, Device
    <3> QED BY <3>1 DEF Current
  <2>5. ASSUME NEW x \in Sessions, Ident[x].dev # d, Current(x) PROVE Current(x)'
    <3> DEFINE e == Ident[x].dev
    <3>1. e \in Devices /\ slotOf[e] \in {0} \cup Slots
      BY <1>t, IdentTypes
    <3>2. WillSettle(e) => WillSettle(e)'
      <4> SUFFICES ASSUME WillSettle(e) PROVE WillSettle(e)'
        OBVIOUS
      <4>1. PICK k \in Jobs : job[k].at = "send" /\ Ident[job[k].s].dev = e
        BY DEF WillSettle, Device
      <4>2. \E i \in Jobs : job'[i].at = "send" /\ Ident[job'[i].s].dev = Ident[x].dev
        BY <1>5, <4>1
      <4> QED BY <4>2 DEF WillSettle, Device
    <3>3. slotOf[e] # n
      BY <1>2, <2>5, <3>1, SlotsFinite DEF TunnelInv, EpochInv, SlotsDistinct
    <3>4. SameEpoch(x) => SameEpoch(x)'
      BY <1>1, <2>2, <3>1, <3>3 DEF SameEpoch
    <3> QED BY <2>5, <3>2, <3>4 DEF Current
  <2>6. \A x \in Sessions : known'[x] => known[x] \/ Current(x)'
    BY <1>6, <2>4
  <2>7. \A x \in Sessions : Current(x) => Current(x)'
    BY <2>4, <2>5
  <2> HIDE DEF s
  <2> QED BY <1>1, <1>4, <2>1, <2>3, <2>6, <2>7, EpochKeeps DEF TunnelInv
<1>14. DisconnectInv'
  BY <1>1, <1>4, NeitherActivates, DisconnectKeeps DEF TunnelInv
<1> QED BY <1>10, <1>11, <1>12, <1>13, <1>14 DEF TunnelInv

LEMMA RefuseKeepsTunnels ==
  ASSUME ControlInv, ControlInv', TunnelInv, NEW j \in Jobs, getconf_refuse(j)
  PROVE  TunnelInv'
<1> USE DEF dbVars, engineVars
<1> DEFINE s == job[j].s
<1>1. /\ job[j].at = "admit" /\ slot' = Unlocked(j) /\ job' = [job EXCEPT ![j] = Idle]
      /\ slotOf' = slotOf \/ slotOf' = [slotOf EXCEPT ![Device(j)] = 0]
      /\ drop_exact_session(s)
      /\ UNCHANGED <<engine, known, entry, bind, panel>>
  BY DEF getconf_refuse, Device
<1>2. s \in Sessions
  BY <1>1 DEF ControlInv, SlotInv, JobInv, Attached, Inside
<1>3. /\ SlotsDistinct' /\ SettleInv'
      /\ \A x \in Sessions : (Granted(x)' => Granted(x)) /\ (Served(x)' => Served(x))
      /\ \A x \in Sessions : Current(x) => Current(x)'
  <2>1. job[j].at \in Inside /\ job[j].at # "send"
    BY <1>1 DEF Inside
  <2> HIDE DEF s
  <2> QED BY <1>1, <2>1, IdleTypes, LeaveFacts DEF TunnelInv
<1>4. /\ exempt \subseteq exempt' /\ Grows
      /\ \A i \in Added : cmds'[i].op = "DropSession"
      /\ \A x \in Sessions : listed[x] = "out" => listed'[x] = "out"
      /\ \A x \in Sessions : listed'[x] = "new" => listed[x] = "new"
      /\ \A x \in Sessions : listed[x] = "in" => \/ listed'[x] = "in" \/ Doomed(x)'
                                                 \/ ~ Unharmed(x)'
  <2> HIDE DEF s
  <2> QED BY <1>1, <1>2, DropExactFacts
<1> QED BY <1>1, <1>3, <1>4, NeitherActivates, QuietStep

LEMMA SendKeepsTunnels ==
  ASSUME ControlInv, ControlInv', TunnelInv, NEW j \in Jobs, getconf_send(j)
  PROVE  TunnelInv'
<1> USE DEF dbVars, engineVars
<1> DEFINE s == job[j].s
           d == Ident[s].dev
           c == Admission(s)
<1>1. /\ job[j].at = "send" /\ cmds' = cmds \o Fitting(c) /\ slot' = Unlocked(j)
      /\ exempt' = IF Len(c) <= Room THEN exempt ELSE exempt \cup {d}
      /\ UNCHANGED <<slotOf, listed, engine, known, entry, bind, panel>>
  BY DEF getconf_send
<1>2. PICK v \in Job : job' = [job EXCEPT ![j] = v] /\ v.at \in {"idle", "build"}
  BY IdleTypes DEF getconf_send
<1>3. s \in Sessions /\ d \in Devices /\ Device(j) = d /\ job[j].slot \in Slots
  BY <1>1, IdentTypes DEF ControlInv, SlotInv, JobInv, Attached, Inside, Device
<1>4. /\ SlotsDistinct' /\ SettleInv'
      /\ \A x \in Sessions : (Granted(x)' => Granted(x)) /\ (Served(x)' => Served(x))
      /\ \A x \in Sessions : SameEpoch(x) => SameEpoch(x)'
      /\ \A x \in Sessions : Current(x) => Current(x)' \/ Ident[x].dev = Device(j)
  <2>1. job[j].at \in Inside
    BY <1>1 DEF Inside
  <2> HIDE DEF s, c, d
  <2> QED BY <1>1, <1>2, <2>1, LeaveFacts DEF TunnelInv
<1>5. /\ c \in Seq(Command) /\ Len(c) \in Nat /\ Len(c) >= 1
      /\ c[1] = SetAuthoritativeEpoch(d, Ident[s].epoch)
      /\ \A k \in 1 .. Len(c) : k # 1 => c[k] = ActivateTunnel(s)
  <2> DEFINE a == SetAuthoritativeEpoch(d, Ident[s].epoch)
             b == ActivateTunnel(s)
  <2>1. a \in Command /\ b \in Command
    BY <1>3, IdentTypes, CommandTypes
  <2>2. c = <<a>> \o (IF d \in ips THEN <<b>> ELSE <<>>)
    BY DEF Admission
  <2> HIDE DEF a, b, c, s, d
  <2>3. CASE d \in ips
    <3>1. c = <<a>> \o <<b>> /\ <<a>> \in Seq(Command) /\ <<b>> \in Seq(Command)
      BY <2>1, <2>2, <2>3
    <3>2. Len(<<a>>) = 1 /\ Len(<<b>>) = 1 /\ <<a>>[1] = a /\ <<b>>[1] = b
      OBVIOUS
    <3>3. /\ c \in Seq(Command) /\ Len(c) = 2
          /\ \A i \in 1 .. 2 : c[i] = IF i <= 1 THEN <<a>>[i] ELSE <<b>>[i - 1]
      BY <3>1, <3>2, ConcatProperties
    <3>4. c[1] = a /\ c[2] = b
      BY <3>2, <3>3
    <3>5. \A k \in 1 .. Len(c) : k # 1 => k = 2
      BY <3>3
    <3> QED BY <3>3, <3>4, <3>5 DEF a, b
  <2>4. CASE d \notin ips
    <3>1. c = <<a>> \o <<>> /\ <<a>> \in Seq(Command)
      BY <2>1, <2>2, <2>4
    <3>2. c = <<a>>
      BY <3>1, ConcatEmptySeq
    <3> QED BY <3>1, <3>2 DEF a
  <2> QED BY <2>3, <2>4
<1>6. /\ Grows
      /\ \A i \in Added : \E k \in 1 .. Len(c) : cmds'[i] = c[k]
      /\ Len(c) <= Room => \A k \in 1 .. Len(c) : /\ Len(cmds) + k \in 1 .. Len(cmds')
                                                 /\ cmds'[Len(cmds) + k] = c[k]
  <2> HIDE DEF c, s, d
  <2> QED BY <1>1, <1>5, FittingGrows DEF ControlInv, DataInv
<1>7. known[s]
  BY <1>1, <1>3 DEF TunnelInv, KnownInv, Granted
<1> HIDE DEF c
<1>8. \A k \in 1 .. Len(c) : /\ c[k].op # "DisconnectDevice"
                             /\ \A x \in Sessions : Activates(c[k], x) => x = s
  BY <1>5 DEF Activates, SetAuthoritativeEpoch, ActivateTunnel
<1>9. \A i \in Added : /\ cmds'[i].op # "DisconnectDevice"
                       /\ \A x \in Sessions : Activates(cmds'[i], x) => known[x]
  BY <1>6, <1>7, <1>8
<1>10. ASSUME NEW x \in Sessions, Current(x)
       PROVE  Current(x)' \/ Doomed(x)' \/ Ident[x].dev \in exempt'
  <2>1. CASE Ident[x].dev # d
    BY <1>3, <1>4, <1>10, <2>1
  <2>2. CASE Ident[x].dev = d /\ Len(c) > Room
    <3>1. Room \in Nat
      BY DeviceControlAssumption DEF Room, ControlInv, DataInv, CommandInv
    <3> QED BY <1>1, <1>5, <2>2, <3>1
  <2>3. CASE Ident[x].dev = d /\ Len(c) <= Room /\ Ident[x].epoch # Ident[s].epoch
    <3>1. /\ Len(cmds) + 1 \in 1 .. Len(cmds')
          /\ cmds'[Len(cmds) + 1] = SetAuthoritativeEpoch(d, Ident[s].epoch)
      BY <1>5, <1>6, <2>3
    <3>2. Kills(cmds'[Len(cmds) + 1], x)
      BY <2>3, <3>1 DEF Kills, SetAuthoritativeEpoch
    <3> QED BY <3>1, <3>2, AddedDooms DEF ControlInv, DataInv
  <2>4. CASE Ident[x].dev = d /\ Ident[x].epoch = Ident[s].epoch
    <3>1. slotOf[d] = job[j].slot /\ slot[job[j].slot].epoch = Ident[s].epoch
      BY <1>1, <1>3 DEF ControlInv, SlotInv, InsideInv, Inside, TunnelInv, EpochInv, SettleInv
    <3>2. SameEpoch(x)
      BY <2>4, <3>1 DEF SameEpoch
    <3> QED BY <1>4, <3>2 DEF Current
  <2>5. Room \in Nat
    BY DeviceControlAssumption DEF Room, ControlInv, DataInv, CommandInv
  <2> QED BY <1>5, <2>1, <2>2, <2>3, <2>4, <2>5
<1>11. exempt \subseteq exempt'
  BY <1>1
<1> HIDE DEF s, d
<1> QED BY <1>1, <1>4, <1>6, <1>9, <1>10, <1>11, QuietStep

LEMMA DisconnectKeepsTunnels ==
  ASSUME ControlInv, ControlInv', TunnelInv, NEW j \in Jobs, disconnect_device(j)
  PROVE  TunnelInv'
<1> USE DEF dbVars, engineVars
<1> DEFINE s == job[j].s
           d == Ident[s].dev
           n == job[j].slot
           c == DisconnectDevice(d, s)
<1>1. /\ job[j].at = "disconnect" /\ slot' = Unlocked(j) /\ job' = [job EXCEPT ![j] = Idle]
      /\ UNCHANGED <<slotOf, exempt, engine, known, entry, bind, panel>>
  BY DEF disconnect_device
<1>2. s \in Sessions /\ d \in Devices /\ Device(j) = d /\ n \in Slots /\ slotOf[d] = n
  BY <1>1, IdentTypes DEF ControlInv, SlotInv, JobInv, InsideInv, Attached, Inside, Device
<1>3. /\ SlotsDistinct' /\ SettleInv'
      /\ \A x \in Sessions : (Granted(x)' => Granted(x)) /\ (Served(x)' => Served(x))
      /\ \A x \in Sessions : Current(x) => Current(x)'
  <2>1. job[j].at \in Inside /\ job[j].at # "send"
    BY <1>1 DEF Inside
  <2> HIDE DEF s, d, n, c
  <2> QED BY <1>1, <2>1, IdleTypes, LeaveFacts DEF TunnelInv
<1>4. CASE UNCHANGED <<cmds, listed>>
  <2>1. Grows /\ Added = {}
    BY <1>4, StillGrows DEF ControlInv, DataInv
  <2> HIDE DEF s, d, n, c
  <2> QED BY <1>1, <1>3, <1>4, <2>1, QuietStep
<1>5. CASE /\ slot[n].epoch = Ident[s].epoch /\ cmds' = Append(cmds, c)
           /\ listed' = [x \in Sessions |->
                            IF x \in In /\ (x = s \/ Ident[x].dev = d) THEN "out" ELSE listed[x]]
  <2>1. c \in Command
    BY <1>2, CommandTypes
  <2>2. /\ Grows /\ Len(cmds') = Len(cmds) + 1 /\ cmds'[Len(cmds) + 1] = c
        /\ \A i \in Added : i = Len(cmds) + 1
    <3> HIDE DEF c, s, d, n
    <3> QED BY <1>5, <2>1, AppendGrows DEF ControlInv, DataInv
  <2>3. Len(cmds) \in Nat
    BY DEF ControlInv, DataInv, CommandInv
  <2>4. ASSUME NEW x \in Sessions, Ident[x].dev = d PROVE Doomed(x)'
    <3>1. Kills(c, x)
      BY <2>4 DEF Kills, DisconnectDevice
    <3> HIDE DEF c, s, d, n
    <3> QED BY <2>2, <2>3, <3>1, AddedDooms DEF ControlInv, DataInv
  <2>5. \A x \in Sessions : listed[x] = "in" => listed'[x] = "in" \/ Doomed(x)'
    BY <1>5, <2>4
  <2>6. \A i \in Added, x \in Sessions : ~ Activates(cmds'[i], x)
    BY <2>2 DEF Activates, DisconnectDevice
  <2>l. /\ \A x \in Sessions : listed[x] = "out" => listed'[x] = "out"
        /\ \A x \in Sessions : listed'[x] = "new" => listed[x] = "new"
    BY <1>5
  <2>7. KnownInv'
    <3> HIDE DEF c, s, d, n
    <3> QED BY <1>1, <1>3, <2>2, <2>6, <2>l, KnownKeeps DEF TunnelInv
  <2>8. ListInv'
    <3>1. \A x \in Sessions : Unharmed(x)' => Unharmed(x)
      BY <1>1 DEF Unharmed
    <3> HIDE DEF c, s, d, n
    <3> QED BY <1>1, <1>3, <2>2, <2>5, <3>1, ListKeeps DEF TunnelInv
  <2>9. AuthInv'
    <3> HIDE DEF c, s, d, n
    <3> QED BY <1>1, <2>2, SameDb, AuthKeeps DEF TunnelInv
  <2>10. EpochInv'
    <3> HIDE DEF c, s, d, n
    <3> QED BY <1>1, <1>3, <2>2, EpochKeeps DEF TunnelInv
  <2>11. DisconnectInv'
    <3> SUFFICES ASSUME NEW i \in 1 .. Len(cmds'), NEW x \in Sessions,
                        cmds'[i].op = "DisconnectDevice", x \in Live', Ident[x].dev \notin exempt',
                        x = cmds'[i].requester \/ Ident[x].dev = cmds'[i].dev,
                        engine'[x] = "tunnel" \/ \E k \in 1 .. i - 1 : Activates(cmds'[k], x)
                 PROVE  \/ Ident[x].epoch = Ident[cmds'[i].requester].epoch
                        \/ \E k \in 1 .. i - 1 : Kills(cmds'[k], x)
      BY DEF DisconnectInv, Activates, Kills
    <3>1. x \in Live /\ Ident[x].dev \notin exempt
      BY <1>1 DEF Live
    <3>2. CASE i <= Len(cmds)
      <4>1. i \in 1 .. Len(cmds)
        BY <2>3, <3>2
      <4>2. cmds'[i] = cmds[i] /\ \A k \in 1 .. i - 1 : cmds'[k] = cmds[k]
        BY <2>2, <2>3, <4>1 DEF Grows
      <4> HIDE DEF c, s, d, n
      <4> QED BY <1>1, <3>1, <4>1, <4>2 DEF TunnelInv, DisconnectInv
    <3>3. CASE i = Len(cmds) + 1
      <4>1. \A k \in 1 .. i - 1 : k \in 1 .. Len(cmds) /\ cmds'[k] = cmds[k]
        BY <2>2, <2>3, <3>3 DEF Grows
      <4>2. engine[x] = "tunnel" \/ Activating(x)
        BY <1>1, <4>1 DEF Activating
      <4>3. known[x] /\ Ident[x].dev = d
        BY <2>2, <3>3, <4>2 DEF TunnelInv, KnownInv, DisconnectDevice
      <4>4. Current(x) \/ Doomed(x)
        BY <3>1, <4>3 DEF TunnelInv, EpochInv
      <4>5. CASE Doomed(x)
        <5>1. PICK k \in 1 .. Len(cmds) : Kills(cmds[k], x)
          BY <4>5 DEF Doomed
        <5> QED BY <2>2, <2>3, <3>3, <5>1 DEF Grows
      <4>6. CASE SameEpoch(x)
        <5>1. slot[n].epoch \in {None, Ident[x].epoch}
          BY <1>2, <4>3, <4>6, SlotsFinite DEF SameEpoch
        <5>2. Ident[x].epoch = Ident[s].epoch
          BY <1>2, <1>5, <5>1, IdentTypes, DeviceControlAssumption
        <5>3. cmds'[i].requester = s
          BY <2>2, <3>3 DEF DisconnectDevice
        <5> QED BY <5>2, <5>3
      <4>7. CASE WillSettle(Ident[x].dev)
        <5>1. PICK k \in Jobs : job[k].at = "send" /\ Device(k) = d
          BY <4>3, <4>7 DEF WillSettle
        <5>2. k = j
          BY <1>1, <1>2, <5>1, InsideAlone DEF ControlInv, Inside
        <5> QED BY <1>1, <5>1, <5>2
      <4> QED BY <4>4, <4>5, <4>6, <4>7 DEF Current
    <3> QED BY <2>2, <2>3, <3>2, <3>3
  <2> QED BY <2>7, <2>8, <2>9, <2>10, <2>11 DEF TunnelInv
<1> QED BY <1>4, <1>5 DEF disconnect_device, disconnect_request_authorized

LEMMA TaskKeepsTunnels ==
  ASSUME ControlInv, ControlInv', TunnelInv, NEW j \in Jobs, Task(j)
  PROVE  TunnelInv'
<1> USE DEF dbVars, engineVars, publicVars, slotVars
<1>t. job \in [Jobs -> Job] /\ job[j] \in Job
  BY DEF ControlInv, SlotInv, JobInv
<1>e. EpochInv
  BY DEF TunnelInv
<1>1. ASSUME NEW s \in Sessions, handle_disconnect(j, s) PROVE TunnelInv'
  BY <1>1, LockExistingKeepsTunnels DEF handle_disconnect, Start, In
<1>2. CASE RetryExisting(j)
  <2>1. job[j].at = "relock" /\ job[j].s \in Sessions
    BY <1>2 DEF RetryExisting, Attached, ControlInv, SlotInv, JobInv
  <2>2. Served(job[j].s)
    BY <2>1 DEF Served, Attached
  <2> QED BY <1>2, <2>1, <2>2, LockExistingKeepsTunnels DEF RetryExisting
<1>3. CASE Retry(j)
  <2> DEFINE s == job[j].s
  <2>1. /\ job[j].at = "lock" /\ s \in Sessions /\ lock_device_epoch(j, s)
        /\ UNCHANGED <<engine, known, entry, bind, panel, listed, cmds, exempt>>
    BY <1>3 DEF Retry, Attached, ControlInv, SlotInv, JobInv
  <2>2. Served(s)
    BY <2>1 DEF Served, Attached
  <2>3. Grows /\ Added = {}
    BY <2>1, StillGrows DEF ControlInv, DataInv
  <2>4. /\ SlotsDistinct' /\ SettleInv'
        /\ \A x \in Sessions : Current(x) => Current(x)'
        /\ \A x \in Sessions : /\ Granted(x)' => Granted(x)
                               /\ Served(x)' => Served(x) \/ x = s
    <3> HIDE DEF s
    <3> QED BY <1>e, <2>1, LockFacts DEF Inside
  <2> HIDE DEF s
  <2> QED BY <2>1, <2>2, <2>3, <2>4, QuietStep
<1>4. ASSUME NEW s \in Sessions, ensure_control_tunnel(j, s) PROVE TunnelInv'
  <2>1. /\ UNCHANGED <<engine, known, entry, bind, panel, slotOf, slot>>
        /\ listed[s] = "in" /\ job[j].at = "idle"
    BY <1>4 DEF ensure_control_tunnel, Start, In
  <2>2. CASE known[s] /\ job' = [job EXCEPT ![j].at = "ensure", ![j].s = s]
             /\ UNCHANGED <<listed, cmds, exempt>>
    <3> DEFINE v == [job[j] EXCEPT !.at = "ensure", !.s = s]
    <3>1. job' = [job EXCEPT ![j] = v]
      BY <1>t, <2>2
    <3>2. v \in Job /\ v.at = "ensure" /\ v.s = s
      BY <1>t, IdentTypes DEF Job
    <3> HIDE DEF v
    <3> QED BY <2>1, <2>2, <3>1, <3>2, MoveKeepsTunnels
  <2>3. CASE drop_exact_session(s) /\ UNCHANGED job
    BY <1>e, <2>1, <2>3, DropExactFacts, NeitherActivates, SameSlots, SameTasks, QuietStep
  <2> QED BY <1>4, <2>2, <2>3 DEF ensure_control_tunnel
<1>5. CASE ensure_activate(j)
  <2> DEFINE s == job[j].s
  <2>1. /\ job[j].at = "ensure" /\ job' = [job EXCEPT ![j] = Idle] /\ s \in Sessions
        /\ UNCHANGED <<engine, known, entry, bind, panel, slotOf, slot>>
    BY <1>5 DEF ensure_activate, ControlInv, SlotInv, JobInv
  <2>2. /\ SlotsDistinct' /\ SettleInv'
        /\ \A x \in Sessions : Current(x) => Current(x)'
    BY <1>e, <2>1, IdleTypes, OneMovesOutside
  <2>3. \A x \in Sessions : (Granted(x)' => Granted(x)) /\ (Served(x)' => Served(x))
    BY <2>1, IdleTypes, OneMoves DEF Attached, Inside
  <2>4. known[s]
    BY <2>1 DEF TunnelInv, KnownInv, Granted
  <2>5. CASE drop_exact_session(s)
    <3>1. /\ exempt \subseteq exempt' /\ Grows
          /\ \A i \in Added : cmds'[i].op = "DropSession"
          /\ \A x \in Sessions : listed[x] = "out" => listed'[x] = "out"
          /\ \A x \in Sessions : listed'[x] = "new" => listed[x] = "new"
          /\ \A x \in Sessions : listed[x] = "in" => \/ listed'[x] = "in" \/ Doomed(x)'
                                                     \/ ~ Unharmed(x)'
      <4> HIDE DEF s
      <4> QED BY <2>1, <2>5, DropExactFacts
    <3> HIDE DEF s
    <3> QED BY <2>1, <2>2, <2>3, <3>1, NeitherActivates, QuietStep
  <2>6. CASE cmds' = Append(cmds, ActivateTunnel(s)) /\ UNCHANGED <<listed, exempt>>
    <3> DEFINE c == ActivateTunnel(s)
    <3>1. c \in Command
      BY <2>1, CommandTypes
    <3>2. Grows /\ \A i \in Added : cmds'[i] = c
      <4> HIDE DEF c, s
      <4> QED BY <2>6, <3>1, AppendGrows DEF ControlInv, DataInv, c
    <3>3. \A i \in Added : /\ cmds'[i].op # "DisconnectDevice"
                           /\ \A x \in Sessions : Activates(cmds'[i], x) => known[x]
      BY <2>4, <3>2 DEF Activates, ActivateTunnel
    <3> HIDE DEF c, s
    <3> QED BY <2>1, <2>2, <2>3, <2>6, <3>2, <3>3, QuietStep
  <2> QED BY <1>5, <2>5, <2>6 DEF ensure_activate
<1>6. CASE job_build(j)
  <2> DEFINE v == [job[j] EXCEPT !.at = "publish", !.set = build_credentials]
  <2>1. /\ job[j].at = "build" /\ job' = [job EXCEPT ![j] = v]
        /\ UNCHANGED <<engine, known, entry, bind, panel, listed, cmds, exempt, slotOf, slot>>
    BY <1>t, <1>6 DEF job_build
  <2>2. v \in Job /\ v.at = "publish"
    BY <1>t DEF Job, build_credentials
  <2> HIDE DEF v
  <2> QED BY <2>1, <2>2, MoveKeepsTunnels DEF Attached, Inside
<1>7. CASE job_publish(j)
  <2> DEFINE c == <<ReplaceCredentials(job[j].set)>>
  <2>1. /\ job[j].at = "publish" /\ job' = [job EXCEPT ![j] = Idle] /\ SendAll(c, {})
        /\ UNCHANGED <<engine, known, entry, bind, panel, listed, slotOf, slot>>
    BY <1>7 DEF job_publish
  <2>2. ReplaceCredentials(job[j].set) \in Command
    BY <1>t, CommandTypes DEF Job
  <2>3. c \in Seq(Command) /\ Len(c) = 1 /\ c[1] = ReplaceCredentials(job[j].set)
    BY <2>2
  <2>4. exempt' = exempt /\ cmds' = cmds \o Fitting(c)
    BY <2>1 DEF SendAll
  <2>5. Grows /\ \A i \in Added : \E k \in 1 .. Len(c) : cmds'[i] = c[k]
    <3> HIDE DEF c
    <3> QED BY <2>3, <2>4, FittingGrows DEF ControlInv, DataInv
  <2>6. \A i \in Added : cmds'[i].op = "ReplaceCredentials"
    <3> HIDE DEF c
    <3> QED BY <2>3, <2>5 DEF ReplaceCredentials
  <2>7. /\ SlotsDistinct' /\ SettleInv'
        /\ \A x \in Sessions : Current(x) => Current(x)'
    BY <1>e, <2>1, IdleTypes, OneMovesOutside
  <2>8. \A x \in Sessions : (Granted(x)' => Granted(x)) /\ (Served(x)' => Served(x))
    BY <2>1, IdleTypes, OneMoves DEF Attached, Inside
  <2> HIDE DEF c
  <2> QED BY <2>1, <2>4, <2>5, <2>6, <2>7, <2>8, QuietStep DEF Activates
<1>8. ASSUME NEW s \in Sessions, handle_getconf(j, s) PROVE TunnelInv'
  BY <1>8, HandleGetconfKeepsTunnels
<1>9. CASE Acquire(j, "lock", "admit") \/ Acquire(j, "relock", "disconnect")
  BY <1>9, AcquireKeepsTunnels
<1>10. CASE getconf_admit(j)
  BY <1>10, AdmitKeepsTunnels
<1>11. CASE getconf_refuse(j)
  BY <1>11, RefuseKeepsTunnels
<1>12. CASE getconf_send(j)
  BY <1>12, SendKeepsTunnels
<1>13. CASE disconnect_device(j)
  BY <1>13, DisconnectKeepsTunnels
<1> QED BY <1>1, <1>2, <1>3, <1>4, <1>5, <1>6, <1>7, <1>8, <1>9, <1>10, <1>11, <1>12, <1>13
        DEF Task

-----------------------------------------------------------------------------
(* The steps of the engine.                                                *)

LEMMA RemovedIsKilled == \A c : Removed(c) = {s \in Live : Kills(c, s)}
BY DEF Removed, Kills

LEMMA EngineCommandKeepsTunnels ==
  ASSUME ControlInv, ControlInv', TunnelInv, EngineCommand
  PROVE  TunnelInv'
<1> USE DEF dbVars, slotVars
<1> DEFINE c == Head(cmds)
           dead == Removed(c)
           up == {s \in Live : Activates(c, s)}
<1>1. /\ cmds # <<>> /\ cmds' = Tail(cmds)
      /\ UNCHANGED <<entry, bind, slotOf, slot, listed, known, job, panel, exempt>>
  BY DEF EngineCommand
<1>2. engine' = [s \in Sessions |-> IF s \in dead THEN "dead"
                                    ELSE IF s \in up THEN "tunnel" ELSE engine[s]]
  BY DEF EngineCommand, Activates
<1>3. /\ Len(cmds) \in Nat /\ Len(cmds) >= 1 /\ Len(cmds') = Len(cmds) - 1
      /\ \A i \in 1 .. Len(cmds') : cmds'[i] = cmds[i + 1]
      /\ c = cmds[1]
  BY <1>1 DEF ControlInv, DataInv, CommandInv
<1>4. dead = {s \in Live : Kills(c, s)}
  BY RemovedIsKilled
<1> HIDE DEF c, dead
<1>5. ASSUME NEW s \in Sessions, s \in Live'
      PROVE  /\ s \in Live /\ ~ Kills(c, s)
             /\ engine'[s] = "tunnel" => engine[s] = "tunnel" \/ Activates(c, s)
  BY <1>2, <1>4, <1>5 DEF Live
<1>6. ASSUME NEW s \in Sessions, s \in Live', Doomed(s) PROVE Doomed(s)'
  <2>1. PICK i \in 1 .. Len(cmds) : Kills(cmds[i], s)
    BY <1>6 DEF Doomed
  <2>2. i # 1
    BY <1>3, <1>5, <1>6, <2>1
  <2>3. i - 1 \in 1 .. Len(cmds') /\ cmds'[i - 1] = cmds[i]
    BY <1>3, <2>2
  <2> QED BY <2>1, <2>3, AddedDooms DEF ControlInv, DataInv
<1>7. ASSUME NEW s \in Sessions, Activating(s)' PROVE Activating(s)
  <2>1. PICK i \in 1 .. Len(cmds') : Activates(cmds'[i], s)
    BY <1>7 DEF Activating, Activates
  <2>2. i + 1 \in 1 .. Len(cmds) /\ cmds'[i] = cmds[i + 1]
    BY <1>3
  <2> QED BY <2>1, <2>2 DEF Activating
<1>8. \A s \in Sessions : (Granted(s)' => Granted(s)) /\ (Served(s)' => Served(s))
  BY <1>1, SameTasks
<1>9. KnownInv'
  <2> SUFFICES ASSUME NEW s \in Sessions
               PROVE  /\ (engine'[s] = "tunnel" \/ Activating(s)' \/ Granted(s)') => known[s]
                      /\ (known[s] \/ Served(s)') => engine'[s] # "unborn" /\ listed[s] # "new"
                      /\ engine'[s] = "unborn" => listed[s] = "out"
    BY <1>1 DEF KnownInv
  <2>1. engine'[s] = "tunnel" => engine[s] = "tunnel" \/ Activating(s)
    <3>1. Activates(c, s) => Activating(s)
      BY <1>3 DEF Activating
    <3> QED BY <1>2, <3>1
  <2>2. engine'[s] = "unborn" => engine[s] = "unborn"
    BY <1>2
  <2> QED BY <1>7, <1>8, <2>1, <2>2 DEF TunnelInv, KnownInv
<1>10. ListInv'
  <2> SUFFICES ASSUME NEW s \in Sessions, s \in Live', Unharmed(s)', known[s] \/ Served(s)'
               PROVE  listed[s] = "in" \/ Doomed(s)'
    BY <1>1 DEF ListInv
  <2>1. Unharmed(s)
    BY <1>1 DEF Unharmed
  <2> QED BY <1>5, <1>6, <1>8, <2>1 DEF TunnelInv, ListInv
<1>11. AuthInv'
  <2>1. /\ PanelShape'
        /\ \A s \in Sessions : Authorised(s) => Authorised(s)'
        /\ \A s \in Sessions : WillEnd(Ident[s].pw) => WillEnd(Ident[s].pw)'
    BY <1>1, SameDb DEF TunnelInv
  <2> SUFFICES ASSUME NEW s \in Sessions, s \in Live', known[s], Ident[s].pw \notin exempt
               PROVE  Authorised(s)' \/ Doomed(s)' \/ WillEnd(Ident[s].pw)'
    BY <1>1, <2>1 DEF AuthInv
  <2> QED BY <1>5, <1>6, <2>1 DEF TunnelInv, AuthInv
<1>12. EpochInv'
  <2>1. /\ SlotsDistinct' /\ SettleInv'
        /\ \A s \in Sessions : Current(s) => Current(s)'
    BY <1>1, SameSlots DEF TunnelInv
  <2> SUFFICES ASSUME NEW s \in Sessions, s \in Live', known[s], Ident[s].dev \notin exempt
               PROVE  Current(s)' \/ Doomed(s)'
    BY <1>1, <2>1 DEF EpochInv
  <2> QED BY <1>5, <1>6, <2>1 DEF TunnelInv, EpochInv
<1>13. DisconnectInv'
  <2> SUFFICES ASSUME NEW i \in 1 .. Len(cmds'), NEW s \in Sessions,
                      cmds'[i].op = "DisconnectDevice", s \in Live', Ident[s].dev \notin exempt',
                      s = cmds'[i].requester \/ Ident[s].dev = cmds'[i].dev,
                      engine'[s] = "tunnel" \/ \E k \in 1 .. i - 1 : Activates(cmds'[k], s)
               PROVE  \/ Ident[s].epoch = Ident[cmds'[i].requester].epoch
                      \/ \E k \in 1 .. i - 1 : Kills(cmds'[k], s)
    BY DEF DisconnectInv, Activates, Kills
  <2>1. i + 1 \in 1 .. Len(cmds) /\ cmds'[i] = cmds[i + 1]
    BY <1>3
  <2>2. \A k \in 1 .. i - 1 : k + 1 \in 1 .. (i + 1) - 1 /\ cmds'[k] = cmds[k + 1]
    BY <1>3
  <2>3. 1 \in 1 .. (i + 1) - 1
    BY <1>3
  <2>4. engine[s] = "tunnel" \/ \E k \in 1 .. (i + 1) - 1 : Activates(cmds[k], s)
    <3>1. CASE engine'[s] = "tunnel"
      BY <1>3, <1>5, <2>3, <3>1
    <3>2. CASE \E k \in 1 .. i - 1 : Activates(cmds'[k], s)
      BY <2>2, <3>2
    <3> QED BY <3>1, <3>2
  <2>5. \/ Ident[s].epoch = Ident[cmds[i + 1].requester].epoch
        \/ \E k \in 1 .. (i + 1) - 1 : Kills(cmds[k], s)
    BY <1>1, <1>5, <2>1, <2>4 DEF TunnelInv, DisconnectInv
  <2>6. ASSUME NEW k \in 1 .. (i + 1) - 1, Kills(cmds[k], s)
        PROVE  \E m \in 1 .. i - 1 : Kills(cmds'[m], s)
    <3>1. k # 1
      BY <1>3, <1>5, <2>6
    <3>2. k - 1 \in 1 .. i - 1 /\ cmds'[k - 1] = cmds[k]
      BY <1>3, <3>1
    <3> QED BY <2>6, <3>2
  <2> QED BY <2>1, <2>5, <2>6
<1> QED BY <1>9, <1>10, <1>11, <1>12, <1>13 DEF TunnelInv

\* A session that is made, or ended by the engine itself.
LEMMA EngineEventKeepsTunnels ==
  ASSUME ControlInv, ControlInv', TunnelInv, NEW s \in Sessions, EngineCreate(s) \/ EngineRemove(s)
  PROVE  TunnelInv'
<1> USE DEF dbVars, slotVars
<1>1. UNCHANGED <<entry, bind, slotOf, slot, known, job, panel, exempt, cmds>>
  BY DEF EngineCreate, EngineRemove
<1>t. /\ engine \in [Sessions -> {"unborn", "setup", "tunnel", "dead"}]
      /\ listed \in [Sessions -> {"new", "in", "out"}]
  BY DEF ControlInv, DataInv, EngineTypes, PublicTypes
<1>2. /\ \A x \in Sessions : x # s => engine'[x] = engine[x] /\ listed'[x] = listed[x]
      /\ \/ engine[s] = "unborn" /\ engine'[s] = "setup" /\ listed'[s] \in {"new", listed[s]}
         \/ engine[s] # "unborn" /\ engine'[s] = "dead" /\ listed'[s] = listed[s]
  BY <1>t DEF EngineCreate, EngineRemove, Killed, Live
<1>3. Grows /\ Added = {}
  BY <1>1, StillGrows DEF ControlInv, DataInv
<1>4. \A x \in Sessions : Doomed(x) => Doomed(x)'
  BY <1>3, DoomedStays DEF ControlInv, DataInv
<1>5. \A x \in Sessions : (Granted(x)' => Granted(x)) /\ (Served(x)' => Served(x))
  BY <1>1, SameTasks
<1>6. \A x \in Sessions : Activating(x)' => Activating(x)
  BY <1>3, ActivatingGrows DEF ControlInv, DataInv
<1>7. engine[s] = "unborn" => ~ known[s] /\ ~ Served(s)
  BY DEF TunnelInv, KnownInv
<1>8. \A x \in Sessions : (x \in Live' /\ (known[x] \/ Served(x))) =>
                              x # s /\ x \in Live /\ listed'[x] = listed[x]
  BY <1>2, <1>7 DEF Live
<1>9. KnownInv'
  <2> SUFFICES ASSUME NEW x \in Sessions
               PROVE  /\ (engine'[x] = "tunnel" \/ Activating(x)' \/ Granted(x)') => known[x]
                      /\ (known[x] \/ Served(x)') => engine'[x] # "unborn" /\ listed'[x] # "new"
                      /\ engine'[x] = "unborn" => listed'[x] = "out"
    BY <1>1 DEF KnownInv
  <2>1. /\ (engine[x] = "tunnel" \/ Activating(x) \/ Granted(x)) => known[x]
        /\ (known[x] \/ Served(x)) => engine[x] # "unborn" /\ listed[x] # "new"
        /\ engine[x] = "unborn" => listed[x] = "out"
    BY DEF TunnelInv, KnownInv
  <2> QED BY <1>2, <1>5, <1>6, <1>7, <2>1
<1>10. ListInv'
  <2> SUFFICES ASSUME NEW x \in Sessions, x \in Live', Unharmed(x)', known[x] \/ Served(x)'
               PROVE  listed'[x] = "in" \/ Doomed(x)'
    BY <1>1 DEF ListInv
  <2>1. Unharmed(x)
    BY <1>1 DEF Unharmed
  <2> QED BY <1>4, <1>5, <1>8, <2>1 DEF TunnelInv, ListInv
<1>11. AuthInv'
  <2>1. /\ PanelShape'
        /\ \A x \in Sessions : Authorised(x) => Authorised(x)'
        /\ \A x \in Sessions : WillEnd(Ident[x].pw) => WillEnd(Ident[x].pw)'
    BY <1>1, SameDb DEF TunnelInv
  <2> SUFFICES ASSUME NEW x \in Sessions, x \in Live', known[x], Ident[x].pw \notin exempt
               PROVE  Authorised(x)' \/ Doomed(x)' \/ WillEnd(Ident[x].pw)'
    BY <1>1, <2>1 DEF AuthInv
  <2> QED BY <1>4, <1>8, <2>1 DEF TunnelInv, AuthInv
<1>12. EpochInv'
  <2>1. /\ SlotsDistinct' /\ SettleInv'
        /\ \A x \in Sessions : Current(x) => Current(x)'
    BY <1>1, SameSlots DEF TunnelInv
  <2> SUFFICES ASSUME NEW x \in Sessions, x \in Live', known[x], Ident[x].dev \notin exempt
               PROVE  Current(x)' \/ Doomed(x)'
    BY <1>1, <2>1 DEF EpochInv
  <2> QED BY <1>4, <1>8, <2>1 DEF TunnelInv, EpochInv
<1>13. DisconnectInv'
  <2> SUFFICES ASSUME NEW i \in 1 .. Len(cmds), NEW x \in Sessions,
                      cmds[i].op = "DisconnectDevice", x \in Live', Ident[x].dev \notin exempt,
                      x = cmds[i].requester \/ Ident[x].dev = cmds[i].dev,
                      engine'[x] = "tunnel" \/ \E k \in 1 .. i - 1 : Activates(cmds[k], x)
               PROVE  \/ Ident[x].epoch = Ident[cmds[i].requester].epoch
                      \/ \E k \in 1 .. i - 1 : Kills(cmds[k], x)
    BY <1>1 DEF DisconnectInv, Activates, Kills
  <2>1. Len(cmds) \in Nat
    BY DEF ControlInv, DataInv, CommandInv
  <2>2. engine[x] = "tunnel" \/ \E k \in 1 .. i - 1 : Activates(cmds[k], x)
    BY <1>2
  <2>3. \A k \in 1 .. i - 1 : k \in 1 .. Len(cmds)
    BY <2>1
  <2>4. engine[x] = "tunnel" \/ Activating(x)
    BY <2>2, <2>3 DEF Activating
  <2>5. known[x]
    BY <2>4 DEF TunnelInv, KnownInv
  <2>6. x \in Live
    BY <1>8, <2>5
  <2> QED BY <2>2, <2>6 DEF TunnelInv, DisconnectInv
<1> QED BY <1>9, <1>10, <1>11, <1>12, <1>13 DEF TunnelInv

-----------------------------------------------------------------------------
(* The steps of the panel.                                                 *)

LEMMA TodoFacts ==
  /\ Head(<<"drop", "refresh">>) = "drop" /\ Tail(<<"drop", "refresh">>) = <<"refresh">>
  /\ Head(<<"drop">>) = "drop" /\ Tail(<<"drop">>) = <<>>
  /\ Head(<<"refresh">>) = "refresh" /\ Tail(<<"refresh">>) = <<>>
  /\ Head(<<"persist", "drop", "refresh">>) = "persist"
  /\ Tail(<<"persist", "drop", "refresh">>) = <<"drop", "refresh">>
  /\ Head(<<"persist", "drop">>) = "persist" /\ Tail(<<"persist", "drop">>) = <<"drop">>
  /\ Head(<<"persist", "refresh">>) = "persist" /\ Tail(<<"persist", "refresh">>) = <<"refresh">>
  /\ <<>> # <<"drop", "refresh">> /\ <<>> # <<"drop">> /\ <<>> # <<"refresh">>
  /\ <<"drop", "refresh">> # <<"refresh">> /\ <<"drop">> # <<"refresh">>
OBVIOUS

LEMMA PanelFrame ==
  ASSUME ControlInv, ControlInv', TunnelInv, UNCHANGED <<engine, known, job, slotOf, slot>>,
         Grows, \A i \in Added : cmds'[i].op \notin {"DisconnectDevice", "ActivateTunnel"},
         \A s \in Sessions : listed[s] = "out" => listed'[s] = "out",
         \A s \in Sessions : listed'[s] = "new" => listed[s] = "new",
         \A s \in Sessions : listed[s] = "in" => listed'[s] = "in" \/ Doomed(s)' \/ ~ Unharmed(s)',
         \A s \in Sessions : Unharmed(s)' => Unharmed(s) \/ Doomed(s)',
         \A d \in Devices : d \notin exempt' => d \notin exempt,
         AuthInv'
  PROVE  TunnelInv'
<1>1. \A s \in Sessions : (Granted(s)' => Granted(s)) /\ (Served(s)' => Served(s))
  BY SameTasks
<1>2. KnownInv'
  BY <1>1, KnownKeeps DEF TunnelInv, Activates
<1>3. ListInv'
  BY <1>1, ListKeeps DEF TunnelInv
<1>4. \A s \in Sessions : Ident[s].dev \notin exempt' => Ident[s].dev \notin exempt
  BY IdentTypes
<1>5. EpochInv'
  BY <1>4, SameSlots, EpochKeeps DEF TunnelInv
<1>6. DisconnectInv'
  BY <1>4, DisconnectKeeps DEF TunnelInv
<1> QED BY <1>2, <1>3, <1>5, <1>6 DEF TunnelInv

\* A change of one password that will end its sessions.
LEMMA PanelChangeKeepsTunnels ==
  ASSUME ControlInv, ControlInv', TunnelInv, NEW p \in Passwords, NEW todo,
         PanelChange(p, todo),
         todo \in {<<"persist", "drop", "refresh">>, <<"persist", "drop">>, <<"drop", "refresh">>,
                   <<"persist", "refresh">>},
         \A q \in Passwords : q # p => entry'[q] = entry[q] /\ bind'[q] = bind[q],
         todo = <<"persist", "refresh">> => entry'[p] # "on"
  PROVE  TunnelInv'
<1> USE DEF dbVars, engineVars, publicVars, slotVars
<1>1. /\ panel.at = "idle" /\ panel' = [at |-> Head(todo), pw |-> p, todo |-> Tail(todo)]
      /\ UNCHANGED <<slotOf, slot, listed, known, engine, cmds, job, exempt>>
  BY DEF PanelChange, Resting
<1>2. Grows /\ Added = {}
  BY <1>1, StillGrows DEF ControlInv, DataInv
<1>3. panel'.at = Head(todo) /\ panel'.pw = p /\ panel'.todo = Tail(todo)
  BY <1>1
<1>4. PanelShape' /\ WillEnd(p)'
  BY <1>3, TodoFacts DEF PanelShape, WillEnd, WillDrop, WillRefresh
<1>5. ~ WillDrop /\ ~ WillRefresh
  BY <1>1, TodoFacts DEF TunnelInv, AuthInv, PanelShape, WillDrop, WillRefresh
<1>6. \A s \in Sessions : ~ WillEnd(Ident[s].pw)
  BY <1>5 DEF WillEnd
<1>7. ASSUME NEW s \in Sessions, Authorised(s) PROVE Authorised(s)' \/ WillEnd(Ident[s].pw)'
  <2>1. CASE Ident[s].pw = p
    BY <1>4, <2>1 DEF WillEnd, WillDrop, WillRefresh
  <2>2. CASE Ident[s].pw # p
    BY <1>7, <2>2, IdentTypes DEF Authorised
  <2> QED BY <2>1, <2>2
<1>8. AuthInv'
  BY <1>1, <1>2, <1>4, <1>6, <1>7, AuthKeeps DEF TunnelInv
<1>9. \A s \in Sessions : Unharmed(s)' => Unharmed(s)
  BY <1>1 DEF Unharmed
<1> QED BY <1>1, <1>2, <1>8, <1>9, PanelFrame

\* What is left to do is done in order.
LEMMA ProceedFacts ==
  ASSUME PanelInv, PanelShape, panel.at \in {"persist", "drop"}, Proceed, entry' = entry
  PROVE  /\ PanelShape'
         /\ \A p \in Passwords : WillEnd(p) => WillEnd(p)' \/ (panel.at = "drop" /\ p = panel.pw)
<1>1. CASE panel.todo = <<>>
  <2>1. panel' = [at |-> "idle", pw |-> None, todo |-> <<>>]
    BY <1>1 DEF Proceed, Resting
  <2>2. panel'.at = "idle" /\ panel'.todo = <<>>
    BY <2>1
  <2>3. panel.at = "drop"
    BY <1>1, TodoFacts DEF PanelShape
  <2> QED BY <2>2, <2>3 DEF PanelShape, WillEnd
<1>2. CASE panel.todo # <<>>
  <2>1. panel' = [at |-> Head(panel.todo), pw |-> panel.pw, todo |-> Tail(panel.todo)]
    BY <1>2 DEF Proceed, PanelInv
  <2>2. /\ panel'.at = Head(panel.todo) /\ panel'.pw = panel.pw
        /\ panel'.todo = Tail(panel.todo)
    BY <2>1
  <2>3. panel.todo \in {<<"drop", "refresh">>, <<"drop">>, <<"refresh">>}
    BY <1>2 DEF PanelShape
  <2>4. PanelShape'
    BY <2>2, <2>3, TodoFacts DEF PanelShape
  <2>5. ASSUME NEW p \in Passwords, WillEnd(p), panel.at = "persist" \/ p # panel.pw
        PROVE  WillEnd(p)'
    <3>1. panel.at = "persist" /\ panel.pw = p
      BY <2>5 DEF WillEnd
    <3>2. WillDrop => WillDrop'
      BY <2>2, <2>3, <3>1, TodoFacts DEF WillDrop
    <3>3. WillRefresh => WillRefresh'
      BY <2>2, <2>3, <3>1, TodoFacts DEF WillRefresh
    <3> QED BY <2>2, <2>5, <3>1, <3>2, <3>3 DEF WillEnd
  <2> QED BY <2>4, <2>5
<1> QED BY <1>1, <1>2

LEMMA PanelKeepsTunnels ==
  ASSUME ControlInv, ControlInv', TunnelInv, Panel
  PROVE  TunnelInv'
<1> USE DEF dbVars, engineVars, publicVars, slotVars
<1>t. /\ entry \in [Passwords -> {"on", "off", "gone"}]
      /\ bind \in [Passwords -> Devices \cup {None}]
  BY DEF ControlInv, DataInv, DbTypes
<1>1. ASSUME NEW p \in Passwords, client_toggle(p) PROVE TunnelInv'
  <2>1. \A q \in Passwords : q # p => entry'[q] = entry[q] /\ bind'[q] = bind[q]
    BY <1>t, <1>1 DEF client_toggle
  <2> QED BY <1>1, <2>1, TodoFacts, PanelChangeKeepsTunnels DEF client_toggle
<1>2. ASSUME NEW p \in Passwords, client_unbind(p) PROVE TunnelInv'
  <2>1. \A q \in Passwords : q # p => entry'[q] = entry[q] /\ bind'[q] = bind[q]
    BY <1>t, <1>2 DEF client_unbind
  <2>2. <<"persist", "drop">> # <<"persist", "refresh">>
    OBVIOUS
  <2> QED BY <1>2, <2>1, <2>2, PanelChangeKeepsTunnels DEF client_unbind
<1>3. ASSUME NEW p \in Passwords, Forget(p)
      PROVE  /\ \A q \in Passwords : q # p => entry'[q] = entry[q] /\ bind'[q] = bind[q]
             /\ entry'[p] # "on"
  BY <1>t, <1>3 DEF Forget
<1>4. ASSUME NEW p \in Passwords, client_delete(p) PROVE TunnelInv'
  BY <1>3, <1>4, PanelChangeKeepsTunnels DEF client_delete
<1>5. ASSUME NEW p \in Passwords, run_password_janitor_cycle(p) PROVE TunnelInv'
  BY <1>3, <1>5, PanelChangeKeepsTunnels DEF run_password_janitor_cycle
<1>6. ASSUME NEW p \in Passwords, clients_create(p) PROVE TunnelInv'
  BY <1>3, <1>6, PanelChangeKeepsTunnels DEF clients_create
<1>p. PanelInv /\ PanelShape /\ AuthInv
  BY DEF ControlInv, DataInv, TunnelInv, AuthInv
<1>7. CASE panel_persist
  <2>1. /\ UNCHANGED <<entry, bind, listed, known, engine, cmds, job, slotOf, slot>>
        /\ panel.at = "persist" /\ panel.pw \in Passwords
    BY <1>p, <1>7 DEF panel_persist, PanelInv
  <2>2. Grows /\ Added = {}
    BY <2>1, StillGrows DEF ControlInv, DataInv
  <2>3. /\ PanelShape' /\ exempt \subseteq exempt'
        /\ \A s \in Sessions : WillEnd(Ident[s].pw) =>
                                   WillEnd(Ident[s].pw)' \/ Ident[s].pw \in exempt'
        /\ \A d \in Devices : d \notin exempt' => d \notin exempt
    <3>1. CASE Proceed /\ UNCHANGED exempt
      BY <1>p, <2>1, <3>1, ProceedFacts, IdentTypes
    <3>2. CASE panel' = Resting /\ exempt' = exempt \cup {panel.pw}
      <4>1. panel'.at = "idle" /\ panel'.todo = <<>>
        BY <3>2 DEF Resting
      <4> QED BY <3>2, <4>1 DEF PanelShape, WillEnd
    <3> QED BY <1>7, <3>1, <3>2 DEF panel_persist
  <2>4. \A s \in Sessions : Authorised(s) => Authorised(s)'
    BY <2>1 DEF Authorised
  <2>5. AuthInv'
    BY <1>p, <2>1, <2>2, <2>3, <2>4, AuthKeeps
  <2>6. \A s \in Sessions : Unharmed(s)' => Unharmed(s)
    BY <2>3 DEF Unharmed
  <2> QED BY <2>1, <2>2, <2>3, <2>5, <2>6, PanelFrame
<1>8. CASE drop_password_sessions
  <2>1. /\ UNCHANGED <<entry, bind, known, engine, job, slotOf, slot>>
        /\ panel.at = "drop" /\ panel.pw \in Passwords /\ Proceed
        /\ listed' = [x \in Sessions |->
                         IF x \in In /\ Ident[x].pw = panel.pw THEN "out" ELSE listed[x]]
    BY <1>p, <1>8 DEF drop_password_sessions, PanelInv
  <2>2. /\ PanelShape'
        /\ \A p \in Passwords : WillEnd(p) => WillEnd(p)' \/ p = panel.pw
    BY <1>p, <2>1, ProceedFacts
  <2>3. \A s \in Sessions : Authorised(s) => Authorised(s)'
    BY <2>1 DEF Authorised
  <2>l. /\ \A s \in Sessions : listed[s] = "out" => listed'[s] = "out"
        /\ \A s \in Sessions : listed'[s] = "new" => listed[s] = "new"
        /\ \A s \in Sessions : listed[s] = "in" => listed'[s] = "in" \/ Ident[s].pw = panel.pw
    BY <2>1
  <2>4. CASE Room > 0
    <3> DEFINE c == DropPassword(panel.pw)
    <3>1. cmds' = Append(cmds, c) /\ exempt' = exempt \ {panel.pw} /\ c \in Command
      BY <1>8, <2>1, <2>4, CommandTypes DEF drop_password_sessions
    <3>2. /\ Grows /\ Len(cmds') = Len(cmds) + 1 /\ cmds'[Len(cmds) + 1] = c
          /\ \A i \in Added : cmds'[i] = c
      <4> HIDE DEF c
      <4> QED BY <3>1, AppendGrows DEF ControlInv, DataInv
    <3>3. Len(cmds) + 1 \in 1 .. Len(cmds')
      BY <3>2 DEF ControlInv, DataInv, CommandInv
    <3>4. ASSUME NEW s \in Sessions, Ident[s].pw = panel.pw PROVE Doomed(s)'
      <4>1. Kills(c, s)
        BY <3>4 DEF Kills, DropPassword
      <4> HIDE DEF c
      <4> QED BY <3>2, <3>3, <4>1, AddedDooms DEF ControlInv, DataInv
    <3>5. \A i \in Added : cmds'[i].op \notin {"DisconnectDevice", "ActivateTunnel"}
      BY <3>2 DEF DropPassword
    <3> HIDE DEF c
    <3>6. \A s \in Sessions : Ident[s].pw \notin exempt' => Ident[s].pw \notin exempt \/ Doomed(s)'
      BY <3>1, <3>4
    <3>7. \A d \in Devices : d \notin exempt' => d \notin exempt
      BY <2>1, <3>1, DeviceControlAssumption
    <3>8. \A s \in Sessions : Unharmed(s)' => Unharmed(s) \/ Doomed(s)'
      <4> SUFFICES ASSUME NEW s \in Sessions, Unharmed(s)', ~ Doomed(s)' PROVE Unharmed(s)
        OBVIOUS
      <4>1. Ident[s].pw \notin exempt' /\ Ident[s].dev \notin exempt'
        BY DEF Unharmed
      <4> QED BY <3>6, <3>7, <4>1, IdentTypes DEF Unharmed
    <3>9. \A s \in Sessions : WillEnd(Ident[s].pw) => WillEnd(Ident[s].pw)' \/ Doomed(s)'
      BY <2>2, <3>4, IdentTypes
    <3>10. AuthInv'
      BY <1>p, <2>1, <2>2, <2>3, <3>2, <3>6, <3>9, AuthKeeps
    <3> QED BY <2>1, <2>l, <3>2, <3>4, <3>5, <3>7, <3>8, <3>10, PanelFrame
  <2>5. CASE ~ (Room > 0)
    <3>1. cmds' = cmds /\ exempt' = exempt \cup {panel.pw}
      BY <1>8, <2>5 DEF drop_password_sessions
    <3>2. Grows /\ Added = {}
      BY <3>1, StillGrows DEF ControlInv, DataInv
    <3>3. \A s \in Sessions : WillEnd(Ident[s].pw) => WillEnd(Ident[s].pw)' \/ Ident[s].pw \in exempt'
      BY <2>2, <3>1, IdentTypes
    <3>4. AuthInv'
      BY <1>p, <2>1, <2>2, <2>3, <3>1, <3>2, <3>3, AuthKeeps
    <3>5. /\ \A s \in Sessions : Unharmed(s)' => Unharmed(s)
          /\ \A s \in Sessions : Ident[s].pw = panel.pw => ~ Unharmed(s)'
      BY <3>1 DEF Unharmed
    <3> QED BY <2>1, <2>l, <3>1, <3>2, <3>4, <3>5, PanelFrame
  <2> QED BY <2>4, <2>5
<1>9. CASE panel_refresh
  <2> DEFINE a == ReplaceCredentials(build_credentials)
             c == <<a>>
  <2>1. /\ UNCHANGED <<entry, bind, listed, known, engine, job, slotOf, slot>>
        /\ panel.at = "refresh" /\ panel.pw \in Passwords /\ panel' = Resting
        /\ SendAll(c, {panel.pw})
    BY <1>p, <1>9 DEF panel_refresh, PanelInv
  <2>2. a \in Command
    BY CommandTypes DEF build_credentials
  <2>3. c \in Seq(Command) /\ Len(c) = 1 /\ c[1] = a
    BY <2>2
  <2>4. /\ cmds' = cmds \o Fitting(c)
        /\ exempt' = IF Len(c) <= Room THEN exempt ELSE exempt \cup {panel.pw}
    BY <2>1 DEF SendAll
  <2> HIDE DEF c
  <2>5. /\ Grows
        /\ \A i \in Added : \E k \in 1 .. Len(c) : cmds'[i] = c[k]
        /\ Len(c) <= Room => \A k \in 1 .. Len(c) : /\ Len(cmds) + k \in 1 .. Len(cmds')
                                                   /\ cmds'[Len(cmds) + k] = c[k]
    BY <2>3, <2>4, FittingGrows DEF ControlInv, DataInv
  <2>6. \A i \in Added : cmds'[i].op \notin {"DisconnectDevice", "ActivateTunnel"}
    BY <2>3, <2>5 DEF ReplaceCredentials
  <2>7. PanelShape'
    BY <2>1 DEF PanelShape, Resting
  <2>8. ASSUME NEW s \in Sessions, WillEnd(Ident[s].pw)
        PROVE  Doomed(s)' \/ Ident[s].pw \in exempt'
    <3>1. Ident[s].pw = panel.pw /\ entry[Ident[s].pw] # "on"
      BY <1>p, <2>1, <2>8, TodoFacts DEF WillEnd, WillDrop, PanelShape
    <3>2. CASE ~ (Len(c) <= Room)
      BY <2>4, <3>1, <3>2
    <3>3. CASE Len(c) <= Room
      <4>1. Len(cmds) + 1 \in 1 .. Len(cmds') /\ cmds'[Len(cmds) + 1] = a
        BY <2>3, <2>5, <3>3
      <4>2. Kills(a, s)
        BY <3>1 DEF Kills, ReplaceCredentials, build_credentials
      <4> HIDE DEF a
      <4> QED BY <4>1, <4>2, AddedDooms DEF ControlInv, DataInv
    <3> QED BY <3>2, <3>3
  <2>9. \A s \in Sessions : Authorised(s) => Authorised(s)'
    BY <2>1 DEF Authorised
  <2>10. exempt \subseteq exempt'
    BY <2>4
  <2>11. AuthInv'
    BY <1>p, <2>1, <2>5, <2>7, <2>8, <2>9, <2>10, AuthKeeps
  <2>12. \A s \in Sessions : Unharmed(s)' => Unharmed(s)
    BY <2>10 DEF Unharmed
  <2> QED BY <2>1, <2>5, <2>6, <2>10, <2>11, <2>12, PanelFrame
<1> QED BY <1>1, <1>2, <1>4, <1>5, <1>6, <1>7, <1>8, <1>9 DEF Panel

-----------------------------------------------------------------------------
(* The tunnels.                                                            *)

LEMMA TunnelInit == Init => TunnelInv
<1> SUFFICES ASSUME Init PROVE TunnelInv
  OBVIOUS
<1>1. /\ \A s \in Sessions : engine[s] = "unborn" /\ listed[s] = "out" /\ ~ known[s]
      /\ Len(cmds) = 0
      /\ \A j \in Jobs : job[j].at = "idle"
  BY IdleTypes DEF Init
<1>2. \A s \in Sessions : ~ Activating(s) /\ ~ Granted(s) /\ ~ Served(s) /\ s \notin Live
  BY <1>1 DEF Activating, Granted, Served, Attached, Inside, Live
<1>3. KnownInv /\ ListInv
  BY <1>1, <1>2 DEF KnownInv, ListInv
<1>4. AuthInv
  BY <1>2 DEF AuthInv, PanelShape, Init, Resting
<1>5. SlotsDistinct /\ SettleInv
  BY <1>1 DEF SlotsDistinct, SettleInv, Init
<1>6. EpochInv
  BY <1>2, <1>5 DEF EpochInv
<1>7. DisconnectInv
  BY <1>1 DEF DisconnectInv
<1> QED BY <1>3, <1>4, <1>6, <1>7 DEF TunnelInv

LEMMA TunnelStep == ControlInv /\ ControlInv' /\ TunnelInv /\ [Next]_vars => TunnelInv'
<1> SUFFICES ASSUME ControlInv, ControlInv', TunnelInv, [Next]_vars PROVE TunnelInv'
  OBVIOUS
<1>1. CASE Engine
  BY <1>1, EngineCommandKeepsTunnels, EngineEventKeepsTunnels DEF Engine
<1>2. CASE ControlLoop
  BY <1>2, ControlLoopKeepsTunnels
<1>3. CASE \E j \in Jobs : Task(j)
  BY <1>3, TaskKeepsTunnels
<1>4. CASE Panel
  BY <1>4, PanelKeepsTunnels
<1>5. CASE Sweeper
  BY <1>5, SweeperKeepsTunnels DEF Sweeper
<1>6. CASE UNCHANGED vars
  <2>1. UNCHANGED <<engine, known, listed, entry, bind, panel, exempt, cmds, job, slotOf, slot>>
    BY <1>6 DEF vars, dbVars, slotVars, publicVars, engineVars
  <2>2. Grows /\ Added = {}
    BY <2>1, StillGrows DEF ControlInv, DataInv
  <2>3. EpochInv
    BY DEF TunnelInv
  <2> QED BY <2>1, <2>2, <2>3, SameSlots, SameTasks, QuietStep
<1> QED BY <1>1, <1>2, <1>3, <1>4, <1>5, <1>6 DEF Next

LEMMA TunnelsInvariant == Spec => [](ControlInv /\ TunnelInv)
BY ControlInit, ControlStep, TunnelInit, TunnelStep, PTL DEF Spec

\* A tunnel that is up is known and alive, and with an empty channel nothing
\* is on its way to end it.
LEMMA TunnelFacts ==
  ASSUME TunnelInv, NEW s \in Sessions, UpAndWell(s)
  PROVE  /\ s \in Live /\ known[s] /\ Unharmed(s)
         /\ Ident[s].dev \notin exempt /\ Ident[s].pw \notin exempt
         /\ cmds = <<>> => ~ Doomed(s)
BY DEF TunnelInv, KnownInv, UpAndWell, Live, Unharmed, Doomed

\* A tunnel of the engine is in the table of public sessions once all
\* commands are executed: what prune_public_sessions, the purges of a GETCONF,
\* DISCONNECT and the panel take out of the table they also take out of the
\* engine, and a full table refuses a session before it gets a tunnel.
THEOREM TunnelsAreListed == Spec => []TunnelListed
<1>1. ControlInv /\ TunnelInv => TunnelListed
  BY TunnelFacts DEF TunnelInv, ListInv, TunnelListed
<1> QED BY <1>1, TunnelsInvariant, PTL

\* A tunnel belongs to a usable password that is bound to its device, although
\* getconf_admit and its commands are two steps and the panel's change of the
\* database and its drop of the sessions are others between them.
THEOREM TunnelsAreAuthorized == Spec => []TunnelAuthorized
<1>1. ControlInv /\ TunnelInv => TunnelAuthorized
  <2> SUFFICES ASSUME TunnelInv, Settled, NEW s \in Sessions, UpAndWell(s)
               PROVE  Authorised(s)
    BY DEF TunnelAuthorized, Authorised
  <2>1. s \in Live /\ known[s] /\ Ident[s].pw \notin exempt /\ ~ Doomed(s)
    BY TunnelFacts DEF Settled
  <2>2. panel.at = "idle" /\ panel.todo = <<>>
    BY DEF Settled, TunnelInv, AuthInv, PanelShape
  <2>3. ~ WillEnd(Ident[s].pw)
    BY <2>2, TodoFacts DEF WillEnd, WillDrop, WillRefresh
  <2> QED BY <2>1, <2>3 DEF TunnelInv, AuthInv
<1> QED BY <1>1, TunnelsInvariant, PTL

\* A tunnel carries the epoch that its device's slot was last given, whatever
\* GETCONFs of the device ran at once and whether the slot was swept and made
\* again: who admits an epoch also orders the end of the others before it
\* gives up the mutex.
THEOREM TunnelsAreCurrent == Spec => []TunnelEpochCurrent
<1>1. ControlInv /\ TunnelInv => TunnelEpochCurrent
  <2> SUFFICES ASSUME ControlInv, TunnelInv, cmds = <<>>, NEW s \in Sessions, UpAndWell(s),
                      slotOf[Ident[s].dev] # 0, slot[slotOf[Ident[s].dev]].holder = None
               PROVE  slot[slotOf[Ident[s].dev]].epoch \in {None, Ident[s].epoch}
    BY DEF TunnelEpochCurrent
  <2>1. Current(s)
    BY TunnelFacts DEF TunnelInv, EpochInv
  <2>2. ASSUME NEW j \in Jobs, job[j].at = "send", Device(j) = Ident[s].dev PROVE FALSE
    <3>1. slotOf[Device(j)] = job[j].slot /\ slot[job[j].slot].holder = j
      BY <2>2 DEF ControlInv, SlotInv, InsideInv, Inside
    <3> QED BY <2>2, <3>1, DeviceControlAssumption
  <2>3. ~ WillSettle(Ident[s].dev)
    BY <2>2 DEF WillSettle
  <2> QED BY <2>1, <2>3 DEF Current, SameEpoch
<1> QED BY <1>1, TunnelsInvariant, PTL

\* A DISCONNECT that was queued behind a newer epoch does not take that
\* epoch's tunnels down: disconnect_request_authorized compares the epoch
\* under the mutex, and until its command is executed the channel's order
\* keeps every activation for another epoch behind it.
THEOREM DisconnectIsForItsEpoch == Spec => DisconnectSparesNewer
<1> DEFINE Spared(s) ==
             (/\ cmds # <<>> /\ cmds' = Tail(cmds) /\ Head(cmds).op = "DisconnectDevice"
              /\ UpAndWell(s) /\ engine'[s] = "dead")
                 => Ident[s].epoch = Ident[Head(cmds).requester].epoch
<1>1. ControlInv /\ TunnelInv /\ [Next]_vars => \A s \in Sessions : Spared(s)
  <2> SUFFICES ASSUME ControlInv, TunnelInv, [Next]_vars, NEW s \in Sessions, cmds # <<>>,
                      cmds' = Tail(cmds), Head(cmds).op = "DisconnectDevice", UpAndWell(s),
                      engine'[s] = "dead"
               PROVE  Ident[s].epoch = Ident[Head(cmds).requester].epoch
    OBVIOUS
  <2>1. engine' # engine
    BY DEF UpAndWell
  <2>2. cmds \in Seq(Command)
    BY DEF ControlInv, DataInv, CommandInv
  <2>3. Len(cmds) \in Nat /\ Len(cmds) > 0 /\ Head(cmds) = cmds[1] /\ cmds' # cmds
    <3>1. Len(cmds) \in Nat /\ Len(cmds) > 0 /\ Head(cmds) = cmds[1]
      BY <2>2
    <3>2. Len(Tail(cmds)) = Len(cmds) - 1
      BY <2>2
    <3>3. ASSUME cmds' = cmds PROVE FALSE
      <4>1. Len(cmds) = Len(cmds) - 1
        BY <3>2, <3>3
      <4> QED BY <3>1, <4>1
    <3> QED BY <3>1, <3>3
  <2>4. EngineCommand
    <3> USE DEF engineVars, publicVars, dbVars, slotVars
    <3>1. ASSUME ControlLoop PROVE FALSE
      BY <2>1, <3>1 DEF ControlLoop, SessionCreated, SessionClosed, prune_public_sessions
    <3>2. ASSUME NEW j \in Jobs, Task(j) PROVE FALSE
      BY <2>1, <3>2 DEF Task, handle_getconf, handle_disconnect, ensure_control_tunnel, Acquire,
                        Retry, getconf_admit, getconf_refuse, getconf_send, RetryExisting,
                        disconnect_device, ensure_activate, job_build, job_publish
    <3>3. ASSUME Panel PROVE FALSE
      BY <2>1, <3>3 DEF Panel, client_toggle, client_unbind, client_delete,
                        run_password_janitor_cycle, clients_create, PanelChange, panel_persist,
                        drop_password_sessions, panel_refresh
    <3>4. ASSUME Sweeper PROVE FALSE
      BY <2>1, <3>4 DEF Sweeper, device_epoch_sweeper
    <3>5. ASSUME UNCHANGED vars PROVE FALSE
      BY <2>1, <3>5 DEF vars
    <3>6. ASSUME NEW x \in Sessions, EngineCreate(x) \/ EngineRemove(x) PROVE FALSE
      BY <2>3, <3>6 DEF EngineCreate, EngineRemove
    <3> QED BY <3>1, <3>2, <3>3, <3>4, <3>5, <3>6 DEF Next, Engine
  <2>5. s \in Removed(cmds[1])
    BY <2>3, <2>4 DEF EngineCommand, UpAndWell
  <2>6. s \in Live /\ Kills(cmds[1], s) /\ Ident[s].dev \notin exempt
    BY <2>5, RemovedIsKilled, TunnelFacts
  <2>7. s = cmds[1].requester \/ Ident[s].dev = cmds[1].dev
    BY <2>3, <2>6 DEF Kills
  <2>8. 1 \in 1 .. Len(cmds) /\ 1 .. 1 - 1 = {}
    BY <2>3
  <2> QED BY <2>3, <2>6, <2>7, <2>8 DEF TunnelInv, DisconnectInv, UpAndWell
<1> QED BY <1>1, TunnelsInvariant, PTL DEF Spec, DisconnectSparesNewer

=============================================================================
